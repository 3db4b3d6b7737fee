SPECIFICATION StreamSpec
CONSTANTS
  Loads <- OutputOrInput
  TtyCap = 1
  ChannelCap = 1
  SocketCap = 1
  Status = status
  Close = close
  Bad = bad
INVARIANTS
  BytesInOrder
PROPERTIES
  FeedingEnds
  EitherEndEnds
