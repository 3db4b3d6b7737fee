--------------------------- MODULE ExecUpload_proofs ---------------------------
(***************************************************************************)
(* Proofs about the two services a client calls over HTTP: exec (modules    *)
(* ExecStream and ExecClient) and uploads (UploadCommit).                   *)
(*                                                                         *)
(* Exec, for any number of writes, any pipe and channel, and frames of any  *)
(* size.                                                                    *)
(* The server: the writes of a channel stand on one line that leads from    *)
(* the answer over what the wait collected, the event channel and the pump  *)
(* to the pipe (PipeLine, EventLine), so that the answer holds the first of *)
(* them (AnswerLine); and the status is behind all of them, because the     *)
(* waiter sends it when both pumps have drained their pipes (Drained,       *)
(* StatusPlace, Vouched).                                                   *)
(* The client: what was read of the wire is the frames that were decoded    *)
(* and the beginning of the next (DecodedCut), so that a chunk, wherever it *)
(* is cut, is decoded to the next events of the answer (DecodedPrefix).     *)
(* The lines of a text: takeLines and the reference both go on by one       *)
(* character, with one line more at most (CompleteMore, ClosedMore), and    *)
(* what comes in two parts has the lines of the whole (InTwoParts).         *)
(*                                                                         *)
(* Uploads, for any number of commits of one upload and any sizes.  What a  *)
(* commit read and measured, it acts on later: that is safe because a       *)
(* declared size never changes, tusd appends nothing to a finished upload,  *)
(* and an upload id is never used again (UploadInv).                        *)
(***************************************************************************)
EXTENDS ExecClient, UploadCommit, Induction, SequenceTheorems, FiniteSetTheorems

-----------------------------------------------------------------------------
(* What a sequence of events holds of a channel.                           *)

Emitted(s, c) == {n \in Writes : \E i \in DOMAIN s : s[i] = Output(c, n)}

\* Every write of c comes when those before it have come, and no sooner.
InOrder(s, c) ==
  \A i \in DOMAIN s, n \in Writes :
    s[i] = Output(c, n) =>
      \A m \in Writes : m < n <=> \E j \in 1..(i - 1) : s[j] = Output(c, m)

\* On, written as the function it is the last value of.
LEMMA OnUnfold ==
  ASSUME NEW s \in Seq(Events), NEW c \in Channels
  PROVE  \E on \in [0..Len(s) -> Seq(Events)] :
           /\ on[0] = <<>>
           /\ \A k \in 1..Len(s) :
                on[k] = IF s[k] # Status /\ s[k].channel = c
                        THEN Append(on[k - 1], s[k]) ELSE on[k - 1]
           /\ On(s, c) = on[Len(s)]
<1> DEFINE Keeps(k) == s[k] # Status /\ s[k].channel = c
           Longer(t, k) == IF Keeps(k) THEN Append(t, s[k]) ELSE t
           Body(f) == [k \in 0..Len(s) |-> IF k = 0 THEN <<>> ELSE Longer(f[k - 1], k)]
           on == CHOOSE f : f = Body(f)
           Texts == Seq(Events)
           G == [k \in 1..Len(s) |-> [t \in Texts |-> Longer(t, k)]]
<1>1. Len(s) \in Nat /\ <<>> \in Texts
  OBVIOUS
<1>2. ASSUME NEW k \in 1..Len(s), NEW t \in Texts PROVE Longer(t, k) \in Texts
  BY <1>2
<1> HIDE DEF Longer, Texts
<1>3. \E f : f = Body(f)
  <2>1. G \in [1..Len(s) -> [Texts -> Texts]]
    BY <1>2
  <2>2. PICK f \in [0..Len(s) -> Texts] :
           f[0] = <<>> /\ \A k \in 1..Len(s) : f[k] = G[k][f[k - 1]]
    <3> DEFINE N == Len(s)
               none == <<>>
    <3>1. N \in Nat /\ none \in Texts /\ G \in [1..N -> [Texts -> Texts]]
      BY <1>1, <2>1
    <3> HIDE DEF G, N, none
    <3>2. \E f : Stepwise(f, N, Texts, none, G)
      BY <3>1, StepwiseFunction
    <3> QED
      BY <3>2 DEF N, none, Stepwise
  <2>3. ASSUME NEW k \in 1..Len(s) PROVE f[k] = Longer(f[k - 1], k)
    <3>1. k - 1 \in 0..Len(s)
      BY <1>1
    <3> QED
      BY <2>2, <3>1
  <2>4. f = Body(f)
    BY <1>1, <2>2, <2>3
  <2> QED
    BY <2>4
<1>4. on = Body(on)
  <2> HIDE DEF Body
  <2> QED
    BY <1>3
<1> HIDE DEF on
<1>5. on[0] = <<>> /\ \A k \in 1..Len(s) : on[k] = Longer(on[k - 1], k)
  <2>1. \A k \in 0..Len(s) : Body(on)[k] = IF k = 0 THEN <<>> ELSE Longer(on[k - 1], k)
    OBVIOUS
  <2> HIDE DEF Body
  <2> QED
    BY <1>1, <1>4, <2>1
<1>6. \A k \in 0..Len(s) : on[k] \in Texts
  <2> DEFINE Good == {k \in 0..Len(s) : on[k] \in Texts}
  <2>1. 0 \in Good
    BY <1>1, <1>5
  <2>2. ASSUME NEW k \in 1..Len(s), k - 1 \in Good PROVE k \in Good
    BY <1>2, <1>5, <2>2
  <2>3. 0..Len(s) \subseteq Good
    <3> HIDE DEF Good
    <3> QED
      BY <1>1, <2>1, <2>2, Climb
  <2> QED
    BY <2>3
<1>7. on \in [0..Len(s) -> Texts]
  <2>1. on = [k \in 0..Len(s) |-> on[k]]
    BY <1>4
  <2> QED
    BY <1>6, <2>1
<1>8. On(s, c) = on[Len(s)]
  BY DEF On, on, Longer
<1> QED
  BY <1>5, <1>7, <1>8 DEF Longer, Texts

\* The first n writes of channel c, one more, and the first m of them.
LEMMA FirstNFacts ==
  ASSUME NEW c \in Channels, NEW n \in 0..MaxWrites
  PROVE  /\ FirstN(c, n) \in Seq(Events) /\ Len(FirstN(c, n)) = n
         /\ \A i \in 1..n : FirstN(c, n)[i] = Output(c, i)
         /\ n < MaxWrites => FirstN(c, n + 1) = Append(FirstN(c, n), Output(c, n + 1))
         /\ \A m \in 0..n : IsPrefix(FirstN(c, m), FirstN(c, n))
<1>1. \A i \in 1..n : Output(c, i) \in Events
  BY BoundsAssumption DEF Output, Events, Outputs, Writes
<1>2. /\ FirstN(c, n) \in Seq(Events) /\ Len(FirstN(c, n)) = n
      /\ \A i \in 1..n : FirstN(c, n)[i] = Output(c, i)
  BY <1>1, BoundsAssumption DEF FirstN
<1>3. n < MaxWrites => FirstN(c, n + 1) = Append(FirstN(c, n), Output(c, n + 1))
  BY <1>2, BoundsAssumption DEF FirstN
<1>4. ASSUME NEW m \in 0..n PROVE IsPrefix(FirstN(c, m), FirstN(c, n))
  <2>1. Len(FirstN(c, m)) = m /\ \A i \in 1..m : FirstN(c, m)[i] = FirstN(c, n)[i]
    BY <1>2, BoundsAssumption DEF FirstN
  <2>2. \A i \in 1..m : FirstN(c, m)[i] = Output(c, i)
    BY <1>2, BoundsAssumption DEF FirstN
  <2> QED
    BY <1>2, <2>1, BoundsAssumption DEF IsPrefix, FirstN
<1> QED
  BY <1>2, <1>3, <1>4

\* An output is no status, and says its channel and its number.
LEMMA OutputFacts ==
  ASSUME NEW c \in Channels, NEW n \in Writes
  PROVE  /\ Output(c, n) \in Outputs /\ Output(c, n) \in Events
         /\ Output(c, n) # Status
         /\ Output(c, n).channel = c /\ Output(c, n).write = n
         /\ \A d \in Channels, m \in Writes : Output(d, m) = Output(c, n) => d = c /\ m = n
BY StatusAssumption DEF Output, Outputs, Events

\* An event that is no status is an output.
LEMMA EventCases ==
  ASSUME NEW e \in Events, e # Status
  PROVE  e.channel \in Channels /\ e.write \in Writes /\ e = Output(e.channel, e.write)
BY DEF Events, Outputs, Output

\* A sequence that holds the writes of c in order holds the first of them.
LEMMA InOrderIsFirst ==
  ASSUME NEW s \in Seq(Events), NEW c \in Channels, InOrder(s, c)
  PROVE  \E m \in 0..MaxWrites : On(s, c) = FirstN(c, m) /\ Emitted(s, c) = 1..m
<1>1. PICK on \in [0..Len(s) -> Seq(Events)] :
           /\ on[0] = <<>>
           /\ \A k \in 1..Len(s) :
                on[k] = IF s[k] # Status /\ s[k].channel = c
                        THEN Append(on[k - 1], s[k]) ELSE on[k - 1]
           /\ On(s, c) = on[Len(s)]
  BY OnUnfold
<1> DEFINE Until(k) == {n \in Writes : \E j \in 1..k : s[j] = Output(c, n)}
           Good == {k \in 0..Len(s) :
                      \E m \in 0..MaxWrites : on[k] = FirstN(c, m) /\ Until(k) = 1..m}
<1>2. 0 \in Good
  <2>1. Until(0) = 1..0
    OBVIOUS
  <2>2. on[0] = FirstN(c, 0)
    BY <1>1 DEF FirstN
  <2> QED
    BY <2>1, <2>2, BoundsAssumption
<1>3. ASSUME NEW k \in 1..Len(s), k - 1 \in Good PROVE k \in Good
  <2>1. PICK m \in 0..MaxWrites : on[k - 1] = FirstN(c, m) /\ Until(k - 1) = 1..m
    BY <1>3
  <2>2. s[k] \in Events
    OBVIOUS
  <2>3. Until(k) = Until(k - 1) \cup {n \in Writes : s[k] = Output(c, n)}
    OBVIOUS
  <2>4. CASE s[k] # Status /\ s[k].channel = c
    <3>1. PICK n \in Writes : s[k] = Output(c, n)
      BY <2>2, <2>4, EventCases
    <3>2. on[k] = Append(FirstN(c, m), Output(c, n))
      BY <1>1, <2>1, <2>4, <3>1
    <3>3. \A l \in Writes : l < n <=> l \in 1..m
      <4>1. \A l \in Writes : l < n <=> l \in Until(k - 1)
        BY <3>1 DEF InOrder
      <4> QED
        BY <2>1, <4>1
    <3>4. n = m + 1
      <4>1. m < n
        <5>1. ASSUME n <= m PROVE FALSE
          BY <3>3, <5>1 DEF Writes
        <5> QED
          BY <5>1, BoundsAssumption DEF Writes
      <4>2. ASSUME m + 1 < n PROVE FALSE
        <5>1. m + 1 \in Writes
          BY <4>2, BoundsAssumption DEF Writes
        <5> QED
          BY <3>3, <4>2, <5>1
      <4> QED
        BY <4>1, <4>2, BoundsAssumption DEF Writes
    <3>5. Until(k) = 1..(m + 1)
      <4>1. {l \in Writes : s[k] = Output(c, l)} = {m + 1}
        <5>1. m + 1 \in Writes /\ s[k] = Output(c, m + 1)
          BY <3>1, <3>4
        <5>2. \A l \in Writes : Output(c, l) = Output(c, m + 1) => l = m + 1
          BY <5>1, OutputFacts
        <5> QED
          BY <5>1, <5>2
      <4> HIDE DEF Until
      <4> QED
        BY <2>1, <2>3, <4>1
    <3>6. on[k] = FirstN(c, m + 1) /\ m + 1 \in 0..MaxWrites
      BY <3>2, <3>4, FirstNFacts, BoundsAssumption DEF Writes
    <3> HIDE DEF Until
    <3> QED
      BY <3>5, <3>6
  <2>5. CASE s[k] = Status \/ s[k].channel # c
    <3>1. {n \in Writes : s[k] = Output(c, n)} = {}
      BY <2>5, OutputFacts
    <3>2. on[k] = on[k - 1]
      BY <1>1, <2>5
    <3>3. on[k] = FirstN(c, m) /\ Until(k) = 1..m
      <4> HIDE DEF Until
      <4> QED
        BY <2>1, <2>3, <3>1, <3>2
    <3> HIDE DEF Until
    <3> QED
      BY <3>3
  <2> QED
    BY <2>4, <2>5
<1>4. Len(s) \in Good
  <2>1. Len(s) \in Nat
    OBVIOUS
  <2> HIDE DEF Good
  <2>2. 0..Len(s) \subseteq Good
    BY <1>2, <1>3, <2>1, Climb
  <2> QED
    BY <2>1, <2>2
<1>5. Until(Len(s)) = Emitted(s, c)
  BY DEF Emitted
<1> HIDE DEF Until
<1> QED
  BY <1>1, <1>4, <1>5

-----------------------------------------------------------------------------
(* Sequences of events, grown at the end and taken from the front.         *)

Ascending(s, c) ==
  \A i, j \in DOMAIN s, m, n \in Writes :
    i < j /\ s[i] = Output(c, m) /\ s[j] = Output(c, n) => m < n

Below(S, T) == \A m \in S, n \in T : m < n

\* The write of c that e is, if it is one.
WriteOf(e, c) == {n \in Writes : e = Output(c, n)}

HasStatus(s) == \E i \in DOMAIN s : s[i] = Status

\* The status of s is its last event.
StatusLast(s) == \A i \in DOMAIN s : s[i] = Status => i = Len(s)

\* Of no events.
LEMMA EmptyFacts ==
  ASSUME NEW c \in Channels
  PROVE  /\ Emitted(<<>>, c) = {} /\ Ascending(<<>>, c)
         /\ ~HasStatus(<<>>) /\ StatusLast(<<>>) /\ <<>> \in Seq(Events)
BY DEF Emitted, Ascending, HasStatus, StatusLast

\* Of no events, without a channel to speak of.
LEMMA EmptyStatus == ~HasStatus(<<>>) /\ StatusLast(<<>>)
BY DEF HasStatus, StatusLast

\* One event more.
LEMMA AppendFacts ==
  ASSUME NEW s \in Seq(Events), NEW e \in Events
  PROVE  /\ Append(s, e) \in Seq(Events) /\ Len(Append(s, e)) = Len(s) + 1
         /\ DOMAIN Append(s, e) = 1..(Len(s) + 1) /\ DOMAIN s = 1..Len(s)
         /\ \A i \in 1..Len(s) : Append(s, e)[i] = s[i]
         /\ Append(s, e)[Len(s) + 1] = e
OBVIOUS

\* One event less.
LEMMA TailFacts ==
  ASSUME NEW s \in Seq(Events), s # <<>>
  PROVE  /\ Tail(s) \in Seq(Events) /\ Len(Tail(s)) = Len(s) - 1 /\ Len(s) \in Nat \ {0}
         /\ DOMAIN Tail(s) = 1..(Len(s) - 1) /\ DOMAIN s = 1..Len(s)
         /\ \A i \in 1..(Len(s) - 1) : Tail(s)[i] = s[i + 1]
         /\ Head(s) = s[1] /\ Head(s) \in Events
OBVIOUS

\* One event more has one write more, and stays in order if it is above the others.
LEMMA AppendEmits ==
  ASSUME NEW s \in Seq(Events), NEW e \in Events, NEW c \in Channels
  PROVE  /\ Emitted(Append(s, e), c) = Emitted(s, c) \cup WriteOf(e, c)
         /\ Ascending(s, c) /\ Below(Emitted(s, c), WriteOf(e, c)) =>
              Ascending(Append(s, e), c)
<1> DEFINE t == Append(s, e)
<1>1. /\ DOMAIN t = 1..(Len(s) + 1) /\ DOMAIN s = 1..Len(s) /\ Len(s) \in Nat
      /\ \A i \in 1..Len(s) : t[i] = s[i]
      /\ t[Len(s) + 1] = e
  BY AppendFacts
<1> HIDE DEF t
<1>2. Emitted(t, c) = Emitted(s, c) \cup WriteOf(e, c)
  BY <1>1 DEF Emitted, WriteOf
<1>3. ASSUME Ascending(s, c), Below(Emitted(s, c), WriteOf(e, c)) PROVE Ascending(t, c)
  <2> SUFFICES ASSUME NEW i \in DOMAIN t, NEW j \in DOMAIN t, NEW m \in Writes, NEW n \in Writes,
                      i < j, t[i] = Output(c, m), t[j] = Output(c, n)
               PROVE  m < n
    BY DEF Ascending
  <2>1. CASE j = Len(s) + 1
    <3>1. m \in Emitted(s, c) /\ n \in WriteOf(e, c)
      BY <1>1, <2>1 DEF Emitted, WriteOf
    <3> QED
      BY <1>3, <3>1 DEF Below
  <2>2. CASE j # Len(s) + 1
    BY <1>1, <1>3, <2>2 DEF Ascending
  <2> QED
    BY <2>1, <2>2
<1> QED
  BY <1>2, <1>3 DEF t

\* One event less: what is taken from the front is below what stays.
LEMMA TailEmits ==
  ASSUME NEW s \in Seq(Events), s # <<>>, NEW c \in Channels, Ascending(s, c)
  PROVE  /\ Emitted(s, c) = WriteOf(Head(s), c) \cup Emitted(Tail(s), c)
         /\ Ascending(Tail(s), c)
         /\ Below(WriteOf(Head(s), c), Emitted(Tail(s), c))
<1> DEFINE t == Tail(s)
<1>1. /\ DOMAIN t = 1..(Len(s) - 1) /\ DOMAIN s = 1..Len(s) /\ Len(s) \in Nat \ {0}
      /\ \A i \in 1..(Len(s) - 1) : t[i] = s[i + 1]
      /\ Head(s) = s[1]
  BY TailFacts
<1> HIDE DEF t
<1>2. Emitted(s, c) = WriteOf(Head(s), c) \cup Emitted(t, c)
  <2>1. ASSUME NEW n \in Emitted(s, c) PROVE n \in WriteOf(Head(s), c) \cup Emitted(t, c)
    <3>1. PICK i \in DOMAIN s : s[i] = Output(c, n)
      BY DEF Emitted
    <3>2. CASE i = 1
      BY <1>1, <3>1, <3>2 DEF Emitted, WriteOf
    <3>3. CASE i # 1
      <4>1. i - 1 \in DOMAIN t /\ t[i - 1] = s[i]
        BY <1>1, <3>3
      <4> QED
        BY <3>1, <4>1 DEF Emitted
    <3> QED
      BY <3>2, <3>3
  <2>2. WriteOf(Head(s), c) \subseteq Emitted(s, c)
    BY <1>1 DEF Emitted, WriteOf
  <2>3. ASSUME NEW n \in Emitted(t, c) PROVE n \in Emitted(s, c)
    <3>1. PICK i \in DOMAIN t : t[i] = Output(c, n)
      BY DEF Emitted
    <3>2. i + 1 \in DOMAIN s /\ s[i + 1] = Output(c, n)
      BY <1>1, <3>1
    <3> QED
      BY <3>2 DEF Emitted
  <2> QED
    BY <2>1, <2>2, <2>3
<1>3. Ascending(t, c)
  <2> SUFFICES ASSUME NEW i \in DOMAIN t, NEW j \in DOMAIN t, NEW m \in Writes, NEW n \in Writes,
                      i < j, t[i] = Output(c, m), t[j] = Output(c, n)
               PROVE  m < n
    BY DEF Ascending
  <2>1. i + 1 \in DOMAIN s /\ j + 1 \in DOMAIN s /\ i + 1 < j + 1
        /\ s[i + 1] = Output(c, m) /\ s[j + 1] = Output(c, n)
    BY <1>1
  <2> QED
    BY <2>1 DEF Ascending
<1>4. Below(WriteOf(Head(s), c), Emitted(t, c))
  <2> SUFFICES ASSUME NEW m \in WriteOf(Head(s), c), NEW n \in Emitted(t, c) PROVE m < n
    BY DEF Below
  <2>1. PICK j \in DOMAIN t : t[j] = Output(c, n)
    BY DEF Emitted
  <2>2. j + 1 \in DOMAIN s /\ 1 \in DOMAIN s /\ 1 < j + 1 /\ s[j + 1] = Output(c, n)
        /\ s[1] = Output(c, m) /\ m \in Writes /\ n \in Writes
    BY <1>1, <2>1 DEF WriteOf, Emitted
  <2> QED
    BY <2>2 DEF Ascending
<1> QED
  BY <1>2, <1>3, <1>4 DEF t

\* Where a status is when events are appended and taken.
LEMMA StatusEnds ==
  ASSUME NEW s \in Seq(Events)
  PROVE  /\ \A e \in Events : HasStatus(Append(s, e)) <=> HasStatus(s) \/ e = Status
         /\ \A e \in Events : ~HasStatus(s) => StatusLast(Append(s, e))
         /\ s # <<>> => /\ HasStatus(s) <=> HasStatus(Tail(s)) \/ Head(s) = Status
                        /\ StatusLast(s) => StatusLast(Tail(s))
                        /\ StatusLast(s) /\ Head(s) = Status => Tail(s) = <<>>
         /\ ~HasStatus(s) => StatusLast(s)
<1>1. ASSUME NEW e \in Events
      PROVE  /\ HasStatus(Append(s, e)) <=> HasStatus(s) \/ e = Status
             /\ ~HasStatus(s) => StatusLast(Append(s, e))
  BY AppendFacts DEF HasStatus, StatusLast
<1>2. ASSUME s # <<>>
      PROVE  /\ HasStatus(s) <=> HasStatus(Tail(s)) \/ Head(s) = Status
             /\ StatusLast(s) => StatusLast(Tail(s))
             /\ StatusLast(s) /\ Head(s) = Status => Tail(s) = <<>>
  <2> DEFINE t == Tail(s)
  <2>1. /\ DOMAIN t = 1..(Len(s) - 1) /\ DOMAIN s = 1..Len(s) /\ Len(s) \in Nat \ {0}
        /\ \A i \in 1..(Len(s) - 1) : t[i] = s[i + 1]
        /\ Head(s) = s[1] /\ Len(t) = Len(s) - 1 /\ t \in Seq(Events)
    BY <1>2, TailFacts
  <2> HIDE DEF t
  <2>2. HasStatus(s) <=> HasStatus(t) \/ Head(s) = Status
    <3>1. ASSUME NEW i \in DOMAIN s, s[i] = Status, i # 1 PROVE HasStatus(t)
      <4>1. i - 1 \in DOMAIN t /\ t[i - 1] = Status
        BY <2>1, <3>1
      <4> QED
        BY <4>1 DEF HasStatus
    <3> QED
      BY <2>1, <3>1 DEF HasStatus
  <2>3. StatusLast(s) => StatusLast(t)
    <3> SUFFICES ASSUME StatusLast(s), NEW i \in DOMAIN t, t[i] = Status PROVE i = Len(t)
      BY DEF StatusLast
    <3>1. i + 1 \in DOMAIN s /\ s[i + 1] = Status
      BY <2>1
    <3> QED
      BY <2>1, <3>1 DEF StatusLast
  <2>4. StatusLast(s) /\ Head(s) = Status => t = <<>>
    BY <2>1 DEF StatusLast
  <2> QED
    BY <2>2, <2>3, <2>4 DEF t
<1>3. ~HasStatus(s) => StatusLast(s)
  BY DEF HasStatus, StatusLast
<1> QED
  BY <1>1, <1>2, <1>3

\* The write an event stands for.
LEMMA WriteOfFacts ==
  /\ \A c \in Channels : WriteOf(Status, c) = {}
  /\ \A c, d \in Channels, n \in Writes : WriteOf(Output(d, n), c) = IF c = d THEN {n} ELSE {}
<1>1. ASSUME NEW c \in Channels PROVE WriteOf(Status, c) = {}
  BY OutputFacts DEF WriteOf
<1>2. ASSUME NEW c \in Channels, NEW d \in Channels, NEW n \in Writes
      PROVE  WriteOf(Output(d, n), c) = IF c = d THEN {n} ELSE {}
  BY OutputFacts DEF WriteOf
<1> QED
  BY <1>1, <1>2

-----------------------------------------------------------------------------
(* The server: every write of a channel is on one line that leads from the  *)
(* answer over what was collected, the event channel and the pump to the    *)
(* pipe, in the order of its number.                                       *)

\* The writes of c that a pump is done with, or was when it gave up.
Sent(c) == written[c] - Len(pipe[c]) - (IF pump[c] = "send" THEN 1 ELSE 0)

\* What was written last is in the pipe, and what was before that with the pump.
PipeLine ==
  \A c \in Channels :
    /\ Sent(c) \in Nat
    /\ \A i \in DOMAIN pipe[c] : pipe[c][i] = written[c] - Len(pipe[c]) + i
    /\ pump[c] = "send" => held[c] = Sent(c) + 1

\* What the pump was done with is in the answer, collected, or in the channel, each
\* before what is in the next.
EventLine ==
  \A c \in Channels :
    /\ Ascending(received, c) /\ Ascending(consumed, c) /\ Ascending(events, c)
    /\ Below(Emitted(received, c), Emitted(consumed, c))
    /\ Below(Emitted(received, c), Emitted(events, c))
    /\ Below(Emitted(consumed, c), Emitted(events, c))
    /\ response # "dropped" =>
         Emitted(received, c) \cup Emitted(consumed, c) \cup Emitted(events, c) = 1..Sent(c)

\* What the answer has is the beginning of what was written.
AnswerLine ==
  \A c \in Channels : \E m \in 0..written[c] : Emitted(received, c) = 1..m

\* A pump that is done has emptied its pipe, unless the receiver was gone.
Drained ==
  /\ waiter \in {"send", "done"} => \A c \in Channels : pump[c] = "done"
  /\ response # "dropped" =>
       \A c \in Channels : pump[c] = "done" => pipe[c] = <<>> /\ ~Open(c)

\* The status is where the waiter says, and nothing is behind it.
StatusPlace ==
  /\ StatusLast(received) /\ StatusLast(events)
  /\ ~HasStatus(consumed)
  /\ response # "dropped" =>
       /\ HasStatus(received) \/ HasStatus(events) <=> waiter = "done"
       /\ HasStatus(received) => consumed = <<>> /\ events = <<>>
  /\ response = "collect" => received = <<>>
  /\ response \in {"json", "ended"} => HasStatus(received)

\* A status that was answered stays right, also when the client has gone.
Vouched ==
  HasStatus(received) =>
    /\ waiter = "done"
    /\ \A c \in Channels :
         pump[c] = "done" /\ ~Open(c) /\ Emitted(received, c) = 1..written[c]

ServerInv ==
  TypeOK /\ PipeLine /\ EventLine /\ AnswerLine /\ Drained /\ StatusPlace /\ Vouched

\* Nothing is written, and nothing is anywhere.
LEMMA InitServer == Init => ServerInv
<1> SUFFICES ASSUME Init PROVE ServerInv
  OBVIOUS
<1>1. TypeOK
  BY BoundsAssumption DEF Init, TypeOK, Writes
<1>2. PipeLine
  BY DEF Init, PipeLine, Sent
<1>3. /\ received = <<>> /\ consumed = <<>> /\ events = <<>> /\ waiter = "wait"
      /\ response \in {"collect", "stream"} /\ \A c \in Channels : pump[c] = "read"
  BY DEF Init
<1>4. ~HasStatus(received) /\ ~HasStatus(consumed) /\ ~HasStatus(events)
      /\ StatusLast(received) /\ StatusLast(events)
  BY <1>3, EmptyFacts DEF HasStatus, StatusLast
<1>5. ASSUME NEW c \in Channels
      PROVE  /\ Emitted(received, c) = {} /\ Emitted(consumed, c) = {} /\ Emitted(events, c) = {}
             /\ Ascending(received, c) /\ Ascending(consumed, c) /\ Ascending(events, c)
             /\ 1..Sent(c) = {} /\ written[c] = 0
  <2>1. Sent(c) = 0 /\ written[c] = 0
    BY DEF Init, Sent
  <2> QED
    BY <1>3, <2>1, EmptyFacts
<1>6. EventLine
  BY <1>5 DEF EventLine, Below
<1>7. AnswerLine
  <2>1. ASSUME NEW c \in Channels PROVE Emitted(received, c) = 1..0 /\ 0 \in 0..written[c]
    BY <1>5
  <2> QED
    BY <2>1 DEF AnswerLine
<1>8. Drained /\ StatusPlace /\ Vouched
  BY <1>3, <1>4 DEF Drained, StatusPlace, Vouched
<1> QED
  BY <1>1, <1>2, <1>6, <1>7, <1>8 DEF ServerInv

\* A write goes to the end of its pipe.
LEMMA WriteStep ==
  ASSUME ServerInv, NEW c \in Channels, Write(c)
  PROVE  ServerInv'
<1>1. /\ written[c] \in 0..MaxWrites /\ written[c] + 1 \in Writes
      /\ pipe[c] \in Seq(Writes) /\ pump[c] # "done"
      /\ written' = [written EXCEPT ![c] = written[c] + 1]
      /\ pipe' = [pipe EXCEPT ![c] = Append(pipe[c], written[c] + 1)]
  BY SMTT(40), BoundsAssumption DEF Write, ServerInv, TypeOK, Writes
<1>2. Append(pipe[c], written[c] + 1) \in Seq(Writes)
      /\ Len(Append(pipe[c], written[c] + 1)) = Len(pipe[c]) + 1
  BY <1>1
<1>3. TypeOK'
  BY SMTT(40), <1>1, <1>2, BoundsAssumption
     DEF Write, ServerInv, TypeOK, Writes, taskVars, answerVars, Events, Outputs
<1>4. \A d \in Channels : Sent(d)' = Sent(d) /\ Len(pipe[d]) \in Nat
  BY SMTT(40), <1>1, <1>2 DEF Write, ServerInv, TypeOK, Sent, taskVars, Writes
<1>5. PipeLine'
  <2> SUFFICES ASSUME NEW d \in Channels
               PROVE  /\ Sent(d)' \in Nat
                      /\ \A i \in DOMAIN pipe'[d] :
                           pipe'[d][i] = written'[d] - Len(pipe'[d]) + i
                      /\ pump'[d] = "send" => held'[d] = Sent(d)' + 1
    BY DEF PipeLine
  <2>1. CASE d = c
    BY SMTT(40), <1>1, <1>2, <1>4, <2>1 DEF Write, ServerInv, TypeOK, PipeLine, taskVars, Writes
  <2>2. CASE d # c
    BY SMTT(40), <1>1, <1>4, <2>2 DEF Write, ServerInv, TypeOK, PipeLine, taskVars
  <2> QED
    BY <2>1, <2>2
<1>6. EventLine'
  BY <1>4 DEF Write, ServerInv, EventLine, taskVars, answerVars
<1>7. AnswerLine'
  BY <1>1 DEF Write, ServerInv, TypeOK, AnswerLine, answerVars
<1>8. Drained'
  BY <1>1 DEF Write, ServerInv, TypeOK, Drained, Open, taskVars, answerVars
<1>9. StatusPlace'
  BY DEF Write, ServerInv, StatusPlace, taskVars, answerVars
<1>10. Vouched'
  BY <1>1 DEF Write, ServerInv, TypeOK, Vouched, Open, taskVars, answerVars
<1> QED
  BY <1>3, <1>5, <1>6, <1>7, <1>8, <1>9, <1>10 DEF ServerInv

\* The child and its holders leave the lines alone.
LEMMA ExitStep ==
  ASSUME ServerInv, Exit \/ \E c \in Channels : HolderExits(c)
  PROVE  ServerInv'
<1>1. TypeOK'
  BY DEF Exit, HolderExits, ServerInv, TypeOK, taskVars, answerVars, Writes, Events, Outputs
<1>2. \A c \in Channels : Sent(c)' = Sent(c) /\ (~Open(c) => ~Open(c)')
  BY DEF Exit, HolderExits, ServerInv, TypeOK, Sent, Open, taskVars
<1>3. PipeLine' /\ EventLine' /\ AnswerLine'
  BY <1>2 DEF Exit, HolderExits, ServerInv, PipeLine, EventLine, AnswerLine, taskVars, answerVars
<1>4. Drained' /\ StatusPlace' /\ Vouched'
  BY <1>2 DEF Exit, HolderExits, ServerInv, Drained, StatusPlace, Vouched, taskVars, answerVars
<1> QED
  BY <1>1, <1>3, <1>4 DEF ServerInv

\* The pump takes the first of the pipe, or is done when the pipe is closed and empty.
LEMMA PumpReadStep ==
  ASSUME ServerInv, NEW c \in Channels, PumpRead(c)
  PROVE  ServerInv'
<1>0. pipe[c] \in Seq(Writes) /\ pump[c] = "read" /\ written[c] \in Nat /\ Len(pipe[c]) \in Nat
  BY DEF PumpRead, ServerInv, TypeOK
<1>1. CASE pipe[c] # <<>> /\ pump' = [pump EXCEPT ![c] = "send"]
           /\ held' = [held EXCEPT ![c] = Head(pipe[c])] /\ pipe' = [pipe EXCEPT ![c] = Tail(@)]
  <2> DEFINE first == Head(pipe[c])
             rest == Tail(pipe[c])
             full == Len(pipe[c])
  <2>1. /\ first \in Writes /\ rest \in Seq(Writes) /\ full \in Nat \ {0} /\ full <= PipeCap
        /\ Len(rest) = full - 1 /\ DOMAIN rest = 1..(full - 1) /\ DOMAIN pipe[c] = 1..full
        /\ \A i \in 1..(full - 1) : rest[i] = pipe[c][i + 1]
        /\ first = pipe[c][1]
    BY <1>0, <1>1 DEF ServerInv, TypeOK
  <2>2. pump' = [pump EXCEPT ![c] = "send"] /\ held' = [held EXCEPT ![c] = first]
        /\ pipe' = [pipe EXCEPT ![c] = rest] /\ full = Len(pipe[c])
    BY <1>1
  <2> HIDE DEF first, rest, full
  <2>3. /\ pipe'[c] = rest /\ held'[c] = first /\ pump'[c] = "send" /\ written' = written
        /\ \A d \in Channels \ {c} :
             pipe'[d] = pipe[d] /\ held'[d] = held[d] /\ pump'[d] = pump[d]
    BY <2>2 DEF PumpRead, ServerInv, TypeOK
  <2>4. TypeOK'
    <3>1. pipe' \in [Channels -> Seq(Writes)] /\ \A d \in Channels : Len(pipe'[d]) <= PipeCap
      BY SMTT(40), <2>1, <2>2, <2>3, BoundsAssumption DEF ServerInv, TypeOK
    <3>2. pump' \in [Channels -> {"read", "send", "done"}]
      BY <2>2 DEF ServerInv, TypeOK
    <3>3. held' \in [Channels -> 0..MaxWrites]
      <4>1. first \in 0..MaxWrites
        BY <2>1, BoundsAssumption DEF Writes
      <4> QED
        BY <2>2, <4>1 DEF ServerInv, TypeOK
    <3> QED
      BY <3>1, <3>2, <3>3 DEF PumpRead, ServerInv, TypeOK, answerVars
  <2>5. Sent(c) = written[c] - full /\ Sent(c)' = written[c] - (full - 1) - 1
    BY SMTT(40), <1>0, <2>1, <2>2, <2>3 DEF Sent
  <2>6. Sent(c)' = Sent(c) /\ \A d \in Channels \ {c} : Sent(d)' = Sent(d)
    BY SMTT(40), <1>0, <2>1, <2>3, <2>5 DEF Sent
  <2>7. PipeLine'
    <3> SUFFICES ASSUME NEW d \in Channels
                 PROVE  /\ Sent(d)' \in Nat
                        /\ \A i \in DOMAIN pipe'[d] :
                             pipe'[d][i] = written'[d] - Len(pipe'[d]) + i
                        /\ pump'[d] = "send" => held'[d] = Sent(d)' + 1
      BY DEF PipeLine
    <3>1. CASE d = c
      <4>1. \A i \in 1..full : pipe[c][i] = written[c] - full + i
        BY <2>1, <2>2 DEF ServerInv, PipeLine
      <4>2. \A i \in 1..(full - 1) : rest[i] = written[c] - (full - 1) + i
        <5> SUFFICES ASSUME NEW i \in 1..(full - 1)
                     PROVE  rest[i] = written[c] - (full - 1) + i
          OBVIOUS
        <5>1. i + 1 \in 1..full /\ rest[i] = pipe[c][i + 1]
          BY <2>1
        <5>2. rest[i] = written[c] - full + (i + 1)
          BY <4>1, <5>1
        <5> QED
          BY SMTT(40), <1>0, <2>1, <5>2
      <4>3. first = Sent(c)' + 1
        <5>1. 1 \in 1..full /\ first = pipe[c][1]
          BY <2>1
        <5>2. first = written[c] - full + 1
          BY <4>1, <5>1
        <5>3. Sent(c)' = written[c] - full
          BY <1>0, <2>1, <2>5
        <5> QED
          BY <5>2, <5>3
      <4> QED
        BY <2>1, <2>3, <2>6, <3>1, <4>2, <4>3 DEF ServerInv, PipeLine
    <3>2. CASE d # c
      BY <2>3, <2>6, <3>2 DEF ServerInv, PipeLine
    <3> QED
      BY <3>1, <3>2
  <2>8. EventLine' /\ AnswerLine'
    BY <2>6 DEF PumpRead, ServerInv, EventLine, AnswerLine, answerVars
  <2>9. Drained' /\ StatusPlace' /\ Vouched'
    BY <1>0, <2>3 DEF PumpRead, ServerInv, TypeOK, Drained, StatusPlace, Vouched, Open, answerVars
  <2> QED
    BY <2>4, <2>7, <2>8, <2>9 DEF ServerInv
<1>2. CASE pipe[c] = <<>> /\ ~Open(c) /\ pump' = [pump EXCEPT ![c] = "done"]
           /\ UNCHANGED <<held, pipe>>
  <2>1. TypeOK'
    BY <1>2 DEF PumpRead, ServerInv, TypeOK, answerVars
  <2>2. \A d \in Channels : Sent(d)' = Sent(d)
    BY <1>0, <1>2 DEF PumpRead, ServerInv, TypeOK, Sent
  <2>3. PipeLine' /\ EventLine' /\ AnswerLine'
    BY SMTT(40), <1>2, <2>2 DEF PumpRead, ServerInv, TypeOK, PipeLine, EventLine, AnswerLine, answerVars
  <2>4. Drained' /\ StatusPlace' /\ Vouched'
    BY <1>0, <1>2 DEF PumpRead, ServerInv, TypeOK, Drained, StatusPlace, Vouched, Open, answerVars
  <2> QED
    BY <2>1, <2>3, <2>4 DEF ServerInv
<1> QED
  BY <1>1, <1>2 DEF PumpRead

\* What the pump holds is above all that is in the channel or beyond.
LEMMA PumpSendStep ==
  ASSUME ServerInv, NEW c \in Channels, PumpSend(c)
  PROVE  ServerInv'
<1>0. /\ pump[c] = "send" /\ written[c] \in 0..MaxWrites /\ Len(pipe[c]) \in Nat
      /\ Sent(c) \in Nat /\ Sent(c) = written[c] - Len(pipe[c]) - 1 /\ held[c] = Sent(c) + 1
      /\ held' = [held EXCEPT ![c] = 0]
      /\ UNCHANGED <<child, holders, written, pipe, response, consumed, received, waiter>>
  BY DEF PumpSend, ServerInv, TypeOK, PipeLine, Sent, processVars, answerVars
<1>1. held[c] \in Writes /\ Output(c, held[c]) \in Events /\ waiter # "done"
  <2>1. held[c] \in 1..MaxWrites
    BY SMTT(40), <1>0, BoundsAssumption
  <2> QED
    BY <1>0, <2>1, OutputFacts DEF Writes, ServerInv, Drained
<1>2. held' \in [Channels -> 0..MaxWrites]
  BY <1>0, BoundsAssumption DEF ServerInv, TypeOK
<1>3. CASE Room /\ events' = Append(events, Output(c, held[c]))
           /\ pump' = [pump EXCEPT ![c] = "read"]
  <2> DEFINE e == Output(c, held[c])
  <2>1. events' \in Seq(Events) /\ Len(events') <= Buffer
    BY <1>1, <1>3, AppendFacts, BoundsAssumption DEF Room, ServerInv, TypeOK
  <2>2. TypeOK'
    BY <1>0, <1>2, <1>3, <2>1 DEF ServerInv, TypeOK
  <2>3. pump'[c] = "read" /\ \A d \in Channels \ {c} : pump'[d] = pump[d] /\ held'[d] = held[d]
    BY <1>0, <1>3 DEF ServerInv, TypeOK
  <2>4. Sent(c)' = Sent(c) + 1 /\ \A d \in Channels \ {c} : Sent(d)' = Sent(d)
    BY <1>0, <2>3 DEF Sent
  <2>5. PipeLine'
    BY <1>0, <2>3, <2>4 DEF ServerInv, PipeLine
  <2>6. EventLine'
    <3> SUFFICES ASSUME NEW d \in Channels
                 PROVE  /\ Ascending(events, d)'
                        /\ Below(Emitted(received, d), Emitted(events, d)')
                        /\ Below(Emitted(consumed, d), Emitted(events, d)')
                        /\ Emitted(received, d) \cup Emitted(consumed, d)
                             \cup Emitted(events, d)' = 1..Sent(d)'
      BY <1>0 DEF ServerInv, EventLine
    <3> DEFINE R == Emitted(received, d)
               C == Emitted(consumed, d)
               E == Emitted(events, d)
    <3>1. R \cup C \cup E = 1..Sent(d) /\ Sent(d) \in Nat
      BY <1>3 DEF ServerInv, EventLine, PipeLine, Room, ReceiverLives
    <3>2. Below(R, C) /\ Below(R, E) /\ Below(C, E) /\ Ascending(events, d)
      BY DEF ServerInv, EventLine
    <3>3. Emitted(events, d)' = E \cup WriteOf(e, d)
          /\ (Below(E, WriteOf(e, d)) => Ascending(events, d)')
      BY <1>1, <1>3, <3>2, AppendEmits DEF ServerInv, TypeOK
    <3>4. WriteOf(e, d) = IF d = c THEN {Sent(d) + 1} ELSE {}
      BY <1>0, <1>1, WriteOfFacts
    <3>5. Sent(d)' = IF d = c THEN Sent(d) + 1 ELSE Sent(d)
      BY <2>4
    <3>6. Below(R \cup C \cup E, WriteOf(e, d))
      BY <3>1, <3>4 DEF Below
    <3> HIDE DEF R, C, E
    <3>7. Below(R, E \cup WriteOf(e, d)) /\ Below(C, E \cup WriteOf(e, d))
          /\ Below(E, WriteOf(e, d))
      BY <3>2, <3>6 DEF Below
    <3>8. R \cup C \cup (E \cup WriteOf(e, d)) = 1..Sent(d)'
      BY <3>1, <3>4, <3>5
    <3> QED
      BY <3>3, <3>7, <3>8 DEF R, C
  <2>7. AnswerLine' /\ Vouched' /\ Drained'
    BY <1>0, <1>1, <2>3 DEF ServerInv, AnswerLine, Vouched, Drained, Open
  <2>8. StatusPlace'
    <3>1. e # Status
      BY <1>1, OutputFacts
    <3>2. HasStatus(events') <=> HasStatus(events)
      BY <1>1, <1>3, <3>1, StatusEnds DEF ServerInv, TypeOK
    <3>3. ~HasStatus(events) /\ ~HasStatus(received)
      BY <1>1, <1>3 DEF ServerInv, StatusPlace, Room, ReceiverLives
    <3>4. StatusLast(events')
      BY <1>1, <1>3, <3>3, StatusEnds DEF ServerInv, TypeOK
    <3> QED
      BY <1>0, <1>1, <3>2, <3>3, <3>4 DEF ServerInv, StatusPlace
  <2> QED
    BY <2>2, <2>5, <2>6, <2>7, <2>8 DEF ServerInv
<1>4. CASE ~ReceiverLives /\ pump' = [pump EXCEPT ![c] = "done"] /\ UNCHANGED events
  <2>1. response = "dropped" /\ ~HasStatus(received)
    <3>1. ~HasStatus(received)
      BY <1>1 DEF ServerInv, Vouched
    <3> QED
      BY <1>4, <3>1 DEF ReceiverLives, ServerInv, TypeOK, StatusPlace
  <2>2. TypeOK'
    BY <1>0, <1>2, <1>4 DEF ServerInv, TypeOK
  <2>3. pump'[c] = "done" /\ \A d \in Channels \ {c} : pump'[d] = pump[d] /\ held'[d] = held[d]
    BY <1>0, <1>4 DEF ServerInv, TypeOK
  <2>4. Sent(c)' = Sent(c) + 1 /\ \A d \in Channels \ {c} : Sent(d)' = Sent(d)
    BY <1>0, <2>3 DEF Sent
  <2>5. PipeLine'
    BY <1>0, <2>3, <2>4 DEF ServerInv, PipeLine
  <2>6. EventLine' /\ AnswerLine'
    BY <1>0, <1>4, <2>1 DEF ServerInv, EventLine, AnswerLine
  <2>7. Vouched' /\ Drained' /\ StatusPlace'
    BY <1>0, <1>1, <1>4, <2>1, <2>3 DEF ServerInv, Vouched, Drained, StatusPlace
  <2> QED
    BY <2>2, <2>5, <2>6, <2>7 DEF ServerInv
<1> QED
  BY <1>3, <1>4 DEF PumpSend

\* The waiter waits for the child, then for the pumps.
LEMMA WaiterStep ==
  ASSUME ServerInv, WaiterWaits \/ WaiterJoins
  PROVE  ServerInv'
<1>1. /\ UNCHANGED <<child, holders, written, pipe, pump, held, events, response,
                     consumed, received>>
      /\ waiter' \in {"join", "send"} /\ waiter # "done"
      /\ waiter' = "send" => \A c \in Channels : pump[c] = "done"
  BY DEF WaiterWaits, WaiterJoins, processVars, answerVars
<1>2. TypeOK'
  BY <1>1 DEF ServerInv, TypeOK
<1>3. \A c \in Channels : Sent(c)' = Sent(c)
  BY <1>1 DEF Sent
<1>4. PipeLine' /\ EventLine' /\ AnswerLine'
  BY <1>1, <1>3 DEF ServerInv, PipeLine, EventLine, AnswerLine
<1>5. Drained' /\ StatusPlace' /\ Vouched'
  BY <1>1 DEF ServerInv, Drained, StatusPlace, Vouched, Open
<1> QED
  BY <1>2, <1>4, <1>5 DEF ServerInv

\* The status is sent when the pumps are done: nothing is behind it.
LEMMA WaiterSendsStep ==
  ASSUME ServerInv, WaiterSends
  PROVE  ServerInv'
<1>0. /\ waiter = "send" /\ waiter' = "done"
      /\ UNCHANGED <<child, holders, written, pipe, pump, held, response, consumed, received>>
      /\ Status \in Events /\ \A c \in Channels : pump[c] = "done"
  BY DEF WaiterSends, processVars, answerVars, Events, ServerInv, Drained
<1>1. \A c \in Channels : Sent(c)' = Sent(c)
  BY <1>0 DEF Sent
<1>2. ~HasStatus(received)
  BY <1>0 DEF ServerInv, Vouched
<1>3. PipeLine' /\ AnswerLine' /\ Vouched' /\ Drained'
  BY <1>0, <1>1, <1>2 DEF ServerInv, PipeLine, AnswerLine, Vouched, Drained, Open
<1>4. CASE Room /\ events' = Append(events, Status)
  <2>1. TypeOK'
    <3>1. events' \in Seq(Events) /\ Len(events') <= Buffer
      BY <1>0, <1>4, AppendFacts, BoundsAssumption DEF Room, ServerInv, TypeOK
    <3> QED
      BY <1>0, <3>1 DEF ServerInv, TypeOK
  <2>2. EventLine'
    <3>1. ASSUME NEW c \in Channels
          PROVE  Emitted(events, c)' = Emitted(events, c) /\ Ascending(events, c)'
      <4>1. WriteOf(Status, c) = {} /\ Below(Emitted(events, c), {}) /\ Ascending(events, c)
        BY WriteOfFacts DEF ServerInv, EventLine, Below
      <4>2. events \in Seq(Events)
        BY DEF ServerInv, TypeOK
      <4>3. Emitted(events, c)' = Emitted(events, c) \cup WriteOf(Status, c)
            /\ (Below(Emitted(events, c), WriteOf(Status, c)) => Ascending(events, c)')
        BY <1>0, <1>4, <4>1, <4>2, AppendEmits
      <4> QED
        BY <4>1, <4>3
    <3> QED
      BY <1>0, <1>1, <3>1 DEF ServerInv, EventLine
  <2>3. StatusPlace'
    <3>1. ~HasStatus(events)
      BY <1>0, <1>4 DEF ServerInv, StatusPlace, Room, ReceiverLives
    <3>2. HasStatus(events') /\ StatusLast(events')
      BY <1>0, <1>4, <3>1, StatusEnds DEF ServerInv, TypeOK
    <3> QED
      BY <1>0, <1>2, <3>2 DEF ServerInv, StatusPlace
  <2> QED
    BY <1>3, <2>1, <2>2, <2>3 DEF ServerInv
<1>5. CASE ~ReceiverLives /\ UNCHANGED events
  <2>1. response = "dropped"
    BY <1>2, <1>5 DEF ReceiverLives, ServerInv, TypeOK, StatusPlace
  <2> QED
    BY <1>0, <1>1, <1>2, <1>3, <1>5, <2>1 DEF ServerInv, TypeOK, EventLine, StatusPlace
<1> QED
  BY <1>4, <1>5 DEF WaiterSends

\* An answer that becomes what it was without its status keeps its line.
LEMMA SameLine ==
  ASSUME ServerInv, NEW c \in Channels
  PROVE  /\ Sent(c) <= written[c] /\ Sent(c) \in Nat /\ written[c] \in 0..MaxWrites
         /\ pump[c] = "done" /\ pipe[c] = <<>> => Sent(c) = written[c]
BY DEF ServerInv, PipeLine, TypeOK, Sent

\* The first of three sets in a row that make up 1..n is an interval from 1.
LEMMA FirstOfRow ==
  ASSUME NEW n \in Nat, NEW A, NEW B, A \cup B = 1..n, Below(A, B)
  PROVE  \E m \in 0..n : A = 1..m
<1>1. A \subseteq 1..n /\ B \subseteq 1..n
  OBVIOUS
<1>2. CASE B = {}
  BY <1>2
<1>3. CASE B # {}
  <2>0. B \in SUBSET Nat
    BY <1>1
  <2>1. PICK b \in B : \A k \in B : b <= k
    BY <1>3, <2>0, LeastOf
  <2>2. b \in 1..n
    BY <1>1
  <2>3. A = 1..(b - 1)
    <3>1. ASSUME NEW k \in A PROVE k \in 1..(b - 1)
      BY <1>1, <2>1, <2>2 DEF Below
    <3>2. ASSUME NEW k \in 1..(b - 1) PROVE k \in A
      <4>1. k \in 1..n /\ ~(b <= k)
        BY <2>2
      <4> QED
        BY <2>1, <4>1
    <3> QED
      BY <3>1, <3>2
  <2> QED
    BY SMTT(40), <2>2, <2>3
<1> QED
  BY <1>2, <1>3

\* collect moves the first of the channel to the end of what is collected, or answers all.
LEMMA CollectStep ==
  ASSUME ServerInv, Collect
  PROVE  ServerInv'
<1> DEFINE e == Head(events)
           rest == Tail(events)
<1>0. /\ response = "collect" /\ events # <<>> /\ events' = rest /\ received = <<>>
      /\ events \in Seq(Events) /\ consumed \in Seq(Events)
      /\ ~HasStatus(received)
      /\ UNCHANGED <<child, holders, written, pipe, pump, held, waiter>>
  BY EmptyStatus DEF Collect, processVars, ServerInv, TypeOK, StatusPlace
<1>1. /\ e \in Events /\ rest \in Seq(Events) /\ Len(rest) <= Buffer
      /\ HasStatus(events) <=> HasStatus(rest) \/ e = Status
      /\ StatusLast(rest) /\ (e = Status => rest = <<>>)
  BY <1>0, TailFacts, StatusEnds, BoundsAssumption DEF ServerInv, TypeOK, StatusPlace
<1>2. ASSUME NEW c \in Channels
      PROVE  /\ Emitted(events, c) = WriteOf(e, c) \cup Emitted(rest, c)
             /\ Ascending(rest, c) /\ Below(WriteOf(e, c), Emitted(rest, c))
  BY <1>0, TailEmits DEF ServerInv, EventLine
<1>3. ASSUME NEW c \in Channels
      PROVE  /\ Emitted(received, c) = {} /\ Ascending(consumed, c)
             /\ Emitted(consumed, c) \cup Emitted(events, c) = 1..Sent(c)
             /\ Below(Emitted(consumed, c), Emitted(events, c))
  <2>1. Emitted(received, c) = {}
    BY <1>0, EmptyFacts
  <2>2. Emitted(received, c) \cup Emitted(consumed, c) \cup Emitted(events, c) = 1..Sent(c)
    BY <1>0 DEF ServerInv, EventLine
  <2> QED
    BY <2>1, <2>2 DEF ServerInv, EventLine
<1> HIDE DEF e, rest
<1>4. \A c \in Channels : Sent(c)' = Sent(c)
  BY <1>0 DEF Sent
<1>5. PipeLine' /\ \A c \in Channels : Below(Emitted(consumed, c), WriteOf(e, c))
  <2>1. PipeLine'
    BY <1>0, <1>4 DEF ServerInv, PipeLine
  <2> QED
    BY <1>2, <1>3, <2>1 DEF Below
<1>6. CASE e = Status
  <2>1. /\ response' = "json" /\ received' = Append(consumed, Status) /\ consumed' = <<>>
        /\ events' = <<>> /\ waiter = "done" /\ ~HasStatus(consumed)
        /\ \A c \in Channels : pump[c] = "done" /\ pipe[c] = <<>> /\ ~Open(c)
    BY <1>0, <1>1, <1>6 DEF Collect, e, ServerInv, StatusPlace, Drained
  <2>2. TypeOK'
    <3>1. received' \in Seq(Events) /\ consumed' \in Seq(Events) /\ Len(<<>>) <= Buffer
      BY <1>0, <1>1, <1>6, <2>1, AppendFacts, BoundsAssumption
    <3> QED
      BY <1>0, <2>1, <3>1 DEF ServerInv, TypeOK
  <2>3. ASSUME NEW c \in Channels
        PROVE  /\ Emitted(received, c)' = 1..Sent(c) /\ Sent(c) = written[c]
               /\ Ascending(received, c)'
    <3>1. WriteOf(e, c) = {}
      BY <1>6, WriteOfFacts
    <3>2. /\ Emitted(received, c)' = Emitted(consumed, c) \cup WriteOf(e, c)
          /\ Below(Emitted(consumed, c), WriteOf(e, c)) => Ascending(received, c)'
      BY <1>0, <1>1, <1>3, <1>6, <2>1, AppendEmits
    <3>3. Emitted(rest, c) = {}
      BY <1>0, <2>1, EmptyFacts
    <3>4. Sent(c) = written[c]
      BY <2>1, SameLine
    <3> QED
      BY <1>2, <1>3, <1>5, <3>1, <3>2, <3>3, <3>4
  <2>4. ASSUME NEW c \in Channels
        PROVE  /\ Emitted(consumed, c)' = {} /\ Emitted(events, c)' = {}
               /\ Ascending(consumed, c)' /\ Ascending(events, c)'
    BY <2>1, EmptyFacts
  <2>5. EventLine'
    BY <1>4, <2>3, <2>4 DEF EventLine, Below
  <2>6. AnswerLine'
    <3>1. ASSUME NEW c \in Channels PROVE written[c] \in 0..written[c]
      BY DEF ServerInv, TypeOK
    <3> QED
      BY <1>0, <2>3, <3>1 DEF AnswerLine
  <2>7. Drained' /\ Vouched'
    BY <1>0, <2>1, <2>3 DEF Drained, Vouched, Open
  <2>8. StatusPlace'
    <3>1. HasStatus(received') /\ StatusLast(received')
      BY <1>0, <1>1, <1>6, <2>1, StatusEnds
    <3> QED
      BY <1>0, <2>1, <3>1, EmptyStatus DEF StatusPlace
  <2> QED
    BY <1>5, <2>2, <2>5, <2>6, <2>7, <2>8 DEF ServerInv
<1>7. CASE e # Status
  <2>1. /\ response' = response /\ received' = received /\ consumed' = Append(consumed, e)
    BY <1>7 DEF Collect, e
  <2>2. TypeOK'
    <3>1. consumed' \in Seq(Events)
      BY <1>0, <1>1, <2>1, AppendFacts
    <3> QED
      BY <1>0, <1>1, <2>1, <3>1 DEF ServerInv, TypeOK
  <2>3. ASSUME NEW c \in Channels
        PROVE  /\ Emitted(consumed, c)' = Emitted(consumed, c) \cup WriteOf(e, c)
               /\ Ascending(consumed, c)'
    BY <1>0, <1>1, <1>3, <1>5, <2>1, AppendEmits
  <2>4. EventLine'
    <3> SUFFICES ASSUME NEW c \in Channels
                 PROVE  /\ Ascending(received, c)' /\ Ascending(consumed, c)'
                        /\ Ascending(events, c)'
                        /\ Below(Emitted(received, c)', Emitted(consumed, c)')
                        /\ Below(Emitted(received, c)', Emitted(events, c)')
                        /\ Below(Emitted(consumed, c)', Emitted(events, c)')
                        /\ Emitted(received, c)' \cup Emitted(consumed, c)'
                             \cup Emitted(events, c)' = 1..Sent(c)'
      BY DEF EventLine
    <3>1. Emitted(received, c)' = {} /\ Emitted(events, c)' = Emitted(rest, c)
          /\ Ascending(events, c)' /\ Ascending(received, c)'
      BY <1>0, <1>2, <1>3, <2>1 DEF ServerInv, EventLine
    <3>2. Below(Emitted(consumed, c) \cup WriteOf(e, c), Emitted(rest, c))
      BY <1>2, <1>3 DEF Below
    <3> QED
      BY <1>2, <1>3, <1>4, <2>3, <3>1, <3>2 DEF Below
  <2>5. AnswerLine' /\ Drained' /\ Vouched'
    BY <1>0, <2>1 DEF ServerInv, AnswerLine, Drained, Vouched, Open
  <2>6. StatusPlace'
    <3>1. ~HasStatus(consumed')
      BY <1>0, <1>1, <1>7, <2>1, StatusEnds DEF ServerInv, StatusPlace
    <3> QED
      BY <1>0, <1>1, <1>7, <2>1, <3>1 DEF ServerInv, StatusPlace
  <2> QED
    BY <1>5, <2>2, <2>4, <2>5, <2>6 DEF ServerInv
<1> QED
  BY <1>6, <1>7

\* The deadline turns what is collected into the head of a stream.
LEMMA DeadlineStep ==
  ASSUME ServerInv, Deadline
  PROVE  ServerInv'
<1>1. /\ response = "collect" /\ response' = "stream"
      /\ UNCHANGED <<child, holders, written, pipe, pump, held, waiter, events,
                     consumed, received>>
  BY DEF Deadline, processVars, taskVars
<1>2. \A c \in Channels : Sent(c)' = Sent(c)
  BY <1>1 DEF Sent
<1>3. TypeOK'
  BY <1>1 DEF ServerInv, TypeOK
<1>4. PipeLine' /\ EventLine' /\ AnswerLine'
  BY <1>1, <1>2 DEF ServerInv, PipeLine, EventLine, AnswerLine
<1>5. Drained' /\ StatusPlace' /\ Vouched'
  BY <1>1 DEF ServerInv, Drained, StatusPlace, Vouched, Open
<1> QED
  BY <1>3, <1>4, <1>5 DEF ServerInv

\* An event that goes from the front of what is next into the answer.
LEMMA AnswerGrows ==
  ASSUME ServerInv, NEW q \in Seq(Events), q # <<>>, NEW c \in Channels,
         Ascending(q, c), Below(Emitted(received, c), Emitted(q, c))
  PROVE  LET A == Emitted(Append(received, Head(q)), c)
         IN  /\ A = Emitted(received, c) \cup WriteOf(Head(q), c)
             /\ Emitted(q, c) = WriteOf(Head(q), c) \cup Emitted(Tail(q), c)
             /\ Ascending(Append(received, Head(q)), c) /\ Ascending(Tail(q), c)
             /\ Below(A, Emitted(Tail(q), c))
<1>1. Head(q) \in Events /\ received \in Seq(Events) /\ Ascending(received, c)
  BY TailFacts DEF ServerInv, TypeOK, EventLine
<1>2. /\ Emitted(q, c) = WriteOf(Head(q), c) \cup Emitted(Tail(q), c)
      /\ Ascending(Tail(q), c) /\ Below(WriteOf(Head(q), c), Emitted(Tail(q), c))
  BY TailEmits
<1>3. Below(Emitted(received, c), WriteOf(Head(q), c))
      /\ Below(Emitted(received, c), Emitted(Tail(q), c))
  BY <1>2 DEF Below
<1>4. /\ Emitted(Append(received, Head(q)), c) = Emitted(received, c) \cup WriteOf(Head(q), c)
      /\ Ascending(Append(received, Head(q)), c)
  BY <1>1, <1>3, AppendEmits
<1> QED
  BY <1>2, <1>3, <1>4 DEF Below

\* The body takes the first of what is collected, then of the channel.
LEMMA StreamStep ==
  ASSUME ServerInv, Stream
  PROVE  ServerInv'
<1>0. /\ response = "stream"
      /\ UNCHANGED <<child, holders, written, pipe, pump, held, waiter>>
      /\ received \in Seq(Events) /\ consumed \in Seq(Events) /\ events \in Seq(Events)
  BY DEF Stream, processVars, ServerInv, TypeOK
<1>1. \A c \in Channels : Sent(c)' = Sent(c)
  BY <1>0 DEF Sent
<1>2. PipeLine'
  BY <1>0, <1>1 DEF ServerInv, PipeLine
<1>3. CASE response' = response /\ events' = events /\ consumed # <<>>
           /\ received' = Append(received, Head(consumed)) /\ consumed' = Tail(consumed)
  <2>1. Head(consumed) \in Events /\ Tail(consumed) \in Seq(Events) /\ Head(consumed) # Status
        /\ ~HasStatus(Tail(consumed)) /\ ~HasStatus(received)
    BY <1>0, <1>3, TailFacts, StatusEnds DEF ServerInv, StatusPlace
  <2>2. TypeOK'
    <3>1. received' \in Seq(Events) /\ consumed' \in Seq(Events)
      BY <1>0, <1>3, <2>1, AppendFacts
    <3> QED
      BY <1>0, <1>3, <3>1 DEF ServerInv, TypeOK
  <2>3. ASSUME NEW c \in Channels
        PROVE  /\ Emitted(received, c)' = Emitted(received, c) \cup WriteOf(Head(consumed), c)
               /\ Emitted(consumed, c) = WriteOf(Head(consumed), c) \cup Emitted(consumed, c)'
               /\ Ascending(received, c)' /\ Ascending(consumed, c)'
               /\ Below(Emitted(received, c)', Emitted(consumed, c)')
    <3>1. Ascending(consumed, c) /\ Below(Emitted(received, c), Emitted(consumed, c))
      BY DEF ServerInv, EventLine
    <3> QED
      BY <1>0, <1>3, <3>1, AnswerGrows
  <2>4. ASSUME NEW c \in Channels
        PROVE  /\ Below(Emitted(received, c)', Emitted(events, c)')
               /\ Below(Emitted(consumed, c)', Emitted(events, c)')
               /\ Emitted(received, c)' \cup Emitted(consumed, c)' \cup Emitted(events, c)'
                    = 1..Sent(c)'
               /\ Sent(c) \in Nat
    <3>1. /\ Below(Emitted(received, c), Emitted(events, c))
          /\ Below(Emitted(consumed, c), Emitted(events, c))
          /\ Emitted(received, c) \cup Emitted(consumed, c) \cup Emitted(events, c) = 1..Sent(c)
          /\ Sent(c) \in Nat
      BY <1>0 DEF ServerInv, EventLine, PipeLine
    <3> QED
      BY <1>1, <1>3, <2>3, <3>1 DEF Below
  <2>5. EventLine'
    BY <1>3, <2>3, <2>4 DEF ServerInv, EventLine
  <2>6. AnswerLine'
    <3> SUFFICES ASSUME NEW c \in Channels
                 PROVE  \E m \in 0..written[c] : Emitted(received, c)' = 1..m
      BY <1>0 DEF AnswerLine
    <3> DEFINE A == Emitted(received, c)'
               B == Emitted(consumed, c)' \cup Emitted(events, c)'
    <3>1. A \cup B = 1..Sent(c) /\ Below(A, B) /\ Sent(c) \in Nat
      BY <1>1, <2>3, <2>4 DEF Below
    <3> HIDE DEF A, B
    <3>2. \E m \in 0..Sent(c) : A = 1..m
      BY <3>1, FirstOfRow
    <3>3. Sent(c) <= written[c] /\ written[c] \in Nat
      BY SameLine
    <3> QED
      BY <3>1, <3>2, <3>3 DEF A
  <2>7. ~HasStatus(received') /\ StatusLast(received')
    BY <1>0, <1>3, <2>1, StatusEnds
  <2>8. Drained' /\ StatusPlace' /\ Vouched'
    BY <1>0, <1>3, <2>1, <2>7 DEF ServerInv, Drained, StatusPlace, Vouched, Open
  <2> QED
    BY <1>2, <2>2, <2>5, <2>6, <2>8 DEF ServerInv
<1>4. CASE response' = response /\ consumed' = consumed /\ consumed = <<>> /\ events # <<>>
           /\ received' = Append(received, Head(events)) /\ events' = Tail(events)
  <2>1. /\ Head(events) \in Events /\ Tail(events) \in Seq(Events)
        /\ HasStatus(events) <=> HasStatus(Tail(events)) \/ Head(events) = Status
        /\ StatusLast(Tail(events)) /\ (Head(events) = Status => Tail(events) = <<>>)
        /\ ~HasStatus(received) /\ Len(Tail(events)) <= Buffer
    BY <1>0, <1>4, TailFacts, StatusEnds, BoundsAssumption DEF ServerInv, StatusPlace, TypeOK
  <2>2. TypeOK'
    <3>1. received' \in Seq(Events) /\ events' \in Seq(Events) /\ Len(events') <= Buffer
      BY <1>0, <1>4, <2>1, AppendFacts
    <3> QED
      BY <1>0, <1>4, <3>1 DEF ServerInv, TypeOK
  <2>3. ASSUME NEW c \in Channels
        PROVE  /\ Emitted(received, c)' = Emitted(received, c) \cup WriteOf(Head(events), c)
               /\ Emitted(events, c) = WriteOf(Head(events), c) \cup Emitted(events, c)'
               /\ Ascending(received, c)' /\ Ascending(events, c)'
               /\ Below(Emitted(received, c)', Emitted(events, c)')
    <3>1. Ascending(events, c) /\ Below(Emitted(received, c), Emitted(events, c))
      BY DEF ServerInv, EventLine
    <3> QED
      BY <1>0, <1>4, <3>1, AnswerGrows
  <2>4. ASSUME NEW c \in Channels
        PROVE  /\ Emitted(consumed, c)' = {} /\ Ascending(consumed, c)'
               /\ Emitted(received, c)' \cup Emitted(events, c)' = 1..Sent(c)'
               /\ Sent(c) \in Nat
    <3>1. /\ Emitted(received, c) \cup Emitted(consumed, c) \cup Emitted(events, c) = 1..Sent(c)
          /\ Sent(c) \in Nat
      BY <1>0 DEF ServerInv, EventLine, PipeLine
    <3>2. Emitted(consumed, c) = {}
      BY <1>4, EmptyFacts
    <3> QED
      BY <1>1, <1>4, <2>3, <3>1, <3>2, EmptyFacts
  <2>5. EventLine'
    BY <2>3, <2>4 DEF EventLine, Below
  <2>6. AnswerLine'
    <3> SUFFICES ASSUME NEW c \in Channels
                 PROVE  \E m \in 0..written[c] : Emitted(received, c)' = 1..m
      BY <1>0 DEF AnswerLine
    <3> DEFINE A == Emitted(received, c)'
               B == Emitted(events, c)'
    <3>1. A \cup B = 1..Sent(c) /\ Below(A, B) /\ Sent(c) \in Nat
      BY <1>1, <2>3, <2>4
    <3> HIDE DEF A, B
    <3>2. \E m \in 0..Sent(c) : A = 1..m
      BY <3>1, FirstOfRow
    <3>3. Sent(c) <= written[c] /\ written[c] \in Nat
      BY SameLine
    <3> QED
      BY <3>1, <3>2, <3>3 DEF A
  <2>7. (HasStatus(received') <=> Head(events) = Status) /\ StatusLast(received')
    BY <1>0, <1>4, <2>1, StatusEnds
  <2>8. Drained' /\ StatusPlace'
    BY <1>0, <1>4, <2>1, <2>7 DEF ServerInv, Drained, StatusPlace, Open
  <2>9. Vouched'
    <3> SUFFICES ASSUME Head(events) = Status
                 PROVE  /\ waiter = "done"
                        /\ \A c \in Channels :
                             pump[c] = "done" /\ ~Open(c) /\ Emitted(received, c)' = 1..written[c]
      BY <1>0, <2>7 DEF Vouched, Open
    <3>1. /\ waiter = "done" /\ events' = <<>>
          /\ \A c \in Channels : pump[c] = "done" /\ pipe[c] = <<>> /\ ~Open(c)
      BY <1>0, <1>4, <2>1 DEF ServerInv, StatusPlace, Drained
    <3>2. ASSUME NEW c \in Channels PROVE Emitted(received, c)' = 1..written[c]
      <4>1. Emitted(events, c)' = {} /\ Sent(c) = written[c]
        BY <3>1, EmptyFacts, SameLine
      <4> QED
        BY <1>1, <2>4, <4>1
    <3> QED
      BY <3>1, <3>2
  <2> QED
    BY <1>2, <2>2, <2>5, <2>6, <2>8, <2>9 DEF ServerInv
<1>5. CASE consumed = <<>> /\ events = <<>> /\ SendersGone /\ response' = "ended"
           /\ UNCHANGED <<events, consumed, received>>
  <2>1. HasStatus(received)
    BY <1>0, <1>5, EmptyStatus DEF SendersGone, ServerInv, StatusPlace
  <2>2. TypeOK' /\ EventLine' /\ AnswerLine'
    BY <1>0, <1>1, <1>5 DEF ServerInv, TypeOK, EventLine, AnswerLine
  <2>3. Drained' /\ StatusPlace' /\ Vouched'
    BY <1>0, <1>5, <2>1 DEF ServerInv, Drained, StatusPlace, Vouched, Open
  <2> QED
    BY <1>2, <2>2, <2>3 DEF ServerInv
<1> QED
  BY <1>3, <1>4, <1>5 DEF Stream

\* A client that goes takes the channel with it; the answer stays as it was.
LEMMA DisconnectStep ==
  ASSUME ServerInv, Disconnect
  PROVE  ServerInv'
<1>1. /\ response' = "dropped" /\ events' = <<>> /\ consumed' = <<>>
      /\ UNCHANGED <<child, holders, written, pipe, pump, held, waiter, received>>
  BY DEF Disconnect, processVars
<1>2. \A c \in Channels : Sent(c)' = Sent(c)
  BY <1>1 DEF Sent
<1>3. TypeOK'
  BY <1>1, EmptyFacts, BoundsAssumption DEF ServerInv, TypeOK
<1>4. \A c \in Channels : Emitted(events, c)' = {} /\ Emitted(consumed, c)' = {}
                          /\ Ascending(events, c)' /\ Ascending(consumed, c)'
  BY <1>1, EmptyFacts
<1>5. PipeLine' /\ EventLine' /\ AnswerLine'
  BY <1>1, <1>2, <1>4 DEF ServerInv, PipeLine, EventLine, AnswerLine, Below
<1>6. ~HasStatus(events') /\ ~HasStatus(consumed') /\ StatusLast(events')
  BY <1>1, EmptyStatus
<1>7. Drained' /\ StatusPlace' /\ Vouched'
  BY <1>1, <1>6 DEF ServerInv, Drained, StatusPlace, Vouched, Open
<1> QED
  BY <1>3, <1>5, <1>7 DEF ServerInv

\* Every step of the server.
LEMMA ServerStep == ServerInv /\ (Work \/ Disconnect \/ UNCHANGED vars) => ServerInv'
<1>1. ServerInv /\ UNCHANGED vars => ServerInv'
  <2> SUFFICES ASSUME ServerInv, UNCHANGED vars PROVE ServerInv'
    OBVIOUS
  <2>1. UNCHANGED <<child, holders, written, pipe, pump, held, waiter, events, response,
                    consumed, received>>
    BY DEF vars, processVars, taskVars, answerVars
  <2>2. \A c \in Channels : Sent(c)' = Sent(c)
    BY <2>1 DEF Sent
  <2>3. TypeOK' /\ PipeLine' /\ EventLine' /\ AnswerLine'
    BY <2>1, <2>2 DEF ServerInv, TypeOK, PipeLine, EventLine, AnswerLine
  <2>4. Drained' /\ StatusPlace' /\ Vouched'
    BY <2>1 DEF ServerInv, Drained, StatusPlace, Vouched, Open
  <2> QED
    BY <2>3, <2>4 DEF ServerInv
<1> QED
  BY <1>1, WriteStep, ExitStep, PumpReadStep, PumpSendStep, WaiterStep, WaiterSendsStep,
     CollectStep, DeadlineStep, StreamStep, DisconnectStep
     DEF Work

\* What the answer has of a channel is in order.
LEMMA ReceivedInOrder ==
  ASSUME ServerInv, NEW c \in Channels
  PROVE  InOrder(received, c)
<1> SUFFICES ASSUME NEW i \in DOMAIN received, NEW n \in Writes, received[i] = Output(c, n),
                    NEW m \in Writes
             PROVE  m < n <=> \E j \in 1..(i - 1) : received[j] = Output(c, m)
  BY DEF InOrder
<1>1. Ascending(received, c) /\ received \in Seq(Events) /\ DOMAIN received = 1..Len(received)
      /\ Len(received) \in Nat
  BY DEF ServerInv, EventLine, TypeOK
<1>2. ASSUME m < n PROVE \E j \in 1..(i - 1) : received[j] = Output(c, m)
  <2>1. PICK k \in 0..written[c] : Emitted(received, c) = 1..k
    BY DEF ServerInv, AnswerLine
  <2>2. n \in Emitted(received, c)
    BY DEF Emitted
  <2>3. m \in Emitted(received, c)
    BY <1>2, <2>1, <2>2 DEF Writes
  <2>4. PICK j \in DOMAIN received : received[j] = Output(c, m)
    BY <2>3 DEF Emitted
  <2>5. ~(i < j)
    BY <1>1, <1>2, <2>4 DEF Ascending, Writes
  <2>6. i # j
    BY <1>2, <2>4, OutputFacts DEF Writes
  <2> QED
    BY <1>1, <2>4, <2>5, <2>6
<1>3. ASSUME NEW j \in 1..(i - 1), received[j] = Output(c, m) PROVE m < n
  BY <1>1, <1>3 DEF Ascending
<1> QED
  BY <1>2, <1>3

\* A beginning of what is in order is in order, and holds the first writes.
LEMMA PrefixInOrder ==
  ASSUME ServerInv, NEW s \in Seq(Events), Len(s) <= Len(received),
         \A i \in 1..Len(s) : s[i] = received[i], NEW c \in Channels
  PROVE  /\ InOrder(s, c)
         /\ \E m \in 0..written[c] : On(s, c) = FirstN(c, m) /\ Emitted(s, c) = 1..m
         /\ IsPrefix(On(s, c), FirstN(c, written[c]))
<1>1. /\ DOMAIN s = 1..Len(s) /\ DOMAIN received = 1..Len(received)
      /\ Len(s) \in Nat /\ Len(received) \in Nat /\ written[c] \in 0..MaxWrites
  BY DEF ServerInv, TypeOK
<1>2. InOrder(s, c)
  <2> SUFFICES ASSUME NEW i \in DOMAIN s, NEW n \in Writes, s[i] = Output(c, n), NEW m \in Writes
               PROVE  m < n <=> \E j \in 1..(i - 1) : s[j] = Output(c, m)
    BY DEF InOrder
  <2>1. i \in DOMAIN received /\ received[i] = Output(c, n)
    BY <1>1
  <2>2. m < n <=> \E j \in 1..(i - 1) : received[j] = Output(c, m)
    BY <2>1, ReceivedInOrder DEF InOrder
  <2>3. \A j \in 1..(i - 1) : s[j] = received[j]
    BY <1>1
  <2> QED
    BY <2>2, <2>3
<1>3. PICK m \in 0..MaxWrites : On(s, c) = FirstN(c, m) /\ Emitted(s, c) = 1..m
  BY <1>2, InOrderIsFirst
<1>4. Emitted(s, c) \subseteq Emitted(received, c)
  BY <1>1 DEF Emitted
<1>5. m <= written[c]
  <2>1. PICK k \in 0..written[c] : Emitted(received, c) = 1..k
    BY DEF ServerInv, AnswerLine
  <2>2. CASE m = 0
    BY <1>1, <2>2
  <2>3. CASE m # 0
    <3>1. m \in 1..m
      BY <2>3, BoundsAssumption
    <3> QED
      BY <1>1, <1>3, <1>4, <2>1, <3>1
  <2> QED
    BY <2>2, <2>3
<1>6. m \in 0..written[c]
  BY <1>1, <1>5
<1> QED
  BY <1>1, <1>2, <1>3, <1>6, FirstNFacts

\* With the status, the answer holds all that was written.
LEMMA StatusIsTheEnd ==
  ASSUME ServerInv, NEW i \in DOMAIN received, received[i] = Status
  PROVE  /\ i = Len(received)
         /\ \A c \in Channels : OnChannel(c) = FirstN(c, written[c]) /\ ~Open(c)
                                /\ pump[c] = "done"
         /\ waiter = "done"
<1>1. i = Len(received) /\ HasStatus(received)
  BY DEF ServerInv, StatusPlace, StatusLast, HasStatus
<1>2. ASSUME NEW c \in Channels
      PROVE  OnChannel(c) = FirstN(c, written[c])
  <2>1. Emitted(received, c) = 1..written[c] /\ written[c] \in 0..MaxWrites
    BY <1>1 DEF ServerInv, Vouched, TypeOK
  <2>2. received \in Seq(Events)
    BY DEF ServerInv, TypeOK
  <2>3. PICK m \in 0..MaxWrites : On(received, c) = FirstN(c, m) /\ Emitted(received, c) = 1..m
    BY <2>2, ReceivedInOrder, InOrderIsFirst
  <2>4. m = written[c]
    BY <2>1, <2>3, IntervalsDiffer, BoundsAssumption
  <2> QED
    BY <2>3, <2>4 DEF OnChannel
<1> QED
  BY <1>1, <1>2 DEF ServerInv, Vouched

\* The invariant implies what the answer promises.
LEMMA ServerSafe == ServerInv => AnswerIsTrue
<1> SUFFICES ASSUME ServerInv PROVE StreamsInOrder /\ StatusVouches
  BY DEF AnswerIsTrue
<1>0. received \in Seq(Events)
  BY DEF ServerInv, TypeOK
<1>1. StreamsInOrder
  <2>1. ASSUME NEW c \in Channels PROVE IsPrefix(OnChannel(c), FirstN(c, written[c]))
    BY <1>0, PrefixInOrder DEF OnChannel
  <2> QED
    BY <2>1 DEF StreamsInOrder
<1>2. StatusVouches
  <2>1. ASSUME response \in {"json", "ended"} PROVE received # <<>> /\ Last(received) = Status
    <3>1. PICK i \in DOMAIN received : received[i] = Status
      BY <2>1 DEF ServerInv, StatusPlace, HasStatus
    <3> QED
      BY <1>0, <3>1, StatusIsTheEnd DEF Last
  <2> QED
    BY <2>1, StatusIsTheEnd DEF StatusVouches
<1> QED
  BY <1>1, <1>2

-----------------------------------------------------------------------------
(* The client: where it is in the answer.                                  *)

\* Multiples of d in their order.
LEMMA MulLess ==
  ASSUME NEW d \in Nat \ {0}, NEW a \in Nat, NEW b \in Nat
  PROVE  /\ a * d \in Nat /\ b * d \in Nat
         /\ a < b => a * d + d <= b * d
         /\ a <= b => a * d <= b * d
         /\ a * d <= b * d => a <= b
         /\ a * d < b * d => a < b
<1>0. a * d \in Nat /\ b * d \in Nat
  OBVIOUS
<1>1. ASSUME NEW x \in Nat, NEW y \in Nat, x < y PROVE x * d + d <= y * d
  <2>1. PICK z \in Nat : y = x + 1 + z
    <3>1. y - x - 1 \in Nat /\ y = x + 1 + (y - x - 1)
      BY <1>1
    <3> QED
      BY <3>1
  <2>2. y * d = x * d + d + z * d /\ z * d \in Nat /\ x * d \in Nat
    BY <2>1
  <2> QED
    BY <2>2
<1>2. a < b => a * d + d <= b * d
  BY <1>1
<1>3. a <= b => a * d <= b * d
  BY <1>0, <1>2
<1>4. b < a => b * d + d <= a * d
  BY <1>1
<1> QED
  BY <1>0, <1>2, <1>3, <1>4

\* Division with remainder.
LEMMA DivFacts ==
  ASSUME NEW d \in Nat \ {0}, NEW n \in Nat
  PROVE  n \div d \in Nat /\ (n \div d) * d <= n /\ n < (n \div d) * d + d
         /\ n % d \in 0..(d - 1)
OBVIOUS

\* The parts of a number that is put together of a multiple and a remainder.
LEMMA DivModOf ==
  ASSUME NEW d \in Nat \ {0}, NEW i \in Nat, NEW j \in 0..(d - 1)
  PROVE  (i * d + j) \div d = i /\ (i * d + j) % d = j
OBVIOUS

\* A frame has units, its header among them.
LEMMA FrameFact == FrameLen \in Nat \ {0} /\ HeaderLen \in 1..FrameLen
BY FrameAssumption DEF FrameLen

\* The frames of the events s.
WireOf(s) ==
  [k \in 1..(FrameLen * Len(s)) |->
     Unit(s[((k - 1) \div FrameLen) + 1], ((k - 1) % FrameLen) + 1)]

\* The wire is the frames of the answer.
LEMMA WireIs == Wire = WireOf(received) /\ Wire' = WireOf(received')
BY DEF Wire, WireOf

\* The j-th unit of the (i+1)-th frame of the wire.
LEMMA WirePoint ==
  ASSUME NEW s \in Seq(Events), NEW i \in Nat, i < Len(s), NEW j \in 1..FrameLen
  PROVE  /\ i * FrameLen + j \in 1..Len(WireOf(s))
         /\ WireOf(s)[i * FrameLen + j] = Unit(s[i + 1], j)
<1> DEFINE d == FrameLen
           k == i * d + j
           L == Len(s)
<1>1. d \in Nat \ {0} /\ L \in Nat /\ j \in 1..d /\ i < L
  BY FrameFact
<1> HIDE DEF d, L
<1>2. i * d + d <= L * d /\ i * d \in Nat
  BY <1>1, MulLess
<1>3. k \in 1..(d * L) /\ k - 1 = i * d + (j - 1) /\ j - 1 \in 0..(d - 1)
  BY <1>1, <1>2
<1>4. (k - 1) \div d = i /\ (k - 1) % d = j - 1
  BY <1>1, <1>3, DivModOf
<1>5. WireOf(s) = [m \in 1..(d * L) |-> Unit(s[((m - 1) \div d) + 1], ((m - 1) % d) + 1)]
  BY DEF WireOf, d, L
<1>6. WireOf(s)[k] = Unit(s[i + 1], j)
  <2>1. k \in 1..(d * L)
    BY <1>3
  <2> HIDE DEF k
  <2>2. WireOf(s)[k] = Unit(s[((k - 1) \div d) + 1], ((k - 1) % d) + 1)
    BY <1>5, <2>1
  <2>3. (j - 1) + 1 = j
    BY <1>1
  <2> QED
    BY <1>4, <2>2, <2>3
<1>7. Len(WireOf(s)) = d * L
  BY <1>1, <1>5
<1> QED
  BY <1>3, <1>6, <1>7 DEF d

\* The wire is as long as its frames.
LEMMA WireType ==
  ASSUME NEW s \in Seq(Events)
  PROVE  WireOf(s) \in Seq(Units) /\ Len(WireOf(s)) = Len(s) * FrameLen
<1> DEFINE d == FrameLen
           L == Len(s)
<1>1. d \in Nat \ {0} /\ L \in Nat /\ d * L \in Nat /\ d * L = L * d
  BY FrameFact
<1> HIDE DEF d, L
<1>2. ASSUME NEW k \in 1..(d * L)
      PROVE  Unit(s[((k - 1) \div d) + 1], ((k - 1) % d) + 1) \in Units
  <2> DEFINE n == k - 1
             i == n \div d
             j == n % d
  <2>1. n \in Nat /\ n < L * d
    BY <1>1, <1>2
  <2> HIDE DEF n
  <2>2. i \in Nat /\ i * d <= n /\ j \in 0..(d - 1)
    BY <1>1, <2>1, DivFacts
  <2> HIDE DEF i, j
  <2>3. i < L
    <3>1. i * d < L * d
      BY <1>1, <2>1, <2>2
    <3> QED
      BY <1>1, <2>2, <3>1, MulLess
  <2>4. s[i + 1] \in Events /\ j + 1 \in 1..d
    BY <1>1, <2>2, <2>3 DEF L
  <2>5. Unit(s[i + 1], j + 1) \in Units
    BY <2>4 DEF Unit, Units, d
  <2> QED
    BY <2>5 DEF i, j, n
<1>3. WireOf(s) = [k \in 1..(d * L) |-> Unit(s[((k - 1) \div d) + 1], ((k - 1) % d) + 1)]
  BY DEF WireOf, d, L
<1>4. WireOf(s) \in Seq(Units) /\ Len(WireOf(s)) = d * L
  BY <1>1, <1>2, <1>3
<1> QED
  BY <1>1, <1>4 DEF d, L

ClientTypes ==
  /\ killed \in BOOLEAN /\ done \in BOOLEAN
  /\ outcome \in {"open", "ok", "failed", "lost"}
  /\ decoded \in Seq(Events)
  /\ buffer \in Seq(Units) /\ Len(buffer) < FrameLen
  /\ taken \in 0..Len(Wire)

\* What is decoded of frames is the beginning of the answer.
DecodedPrefix ==
  response # "json" \/ outcome \in {"open", "lost"} =>
    Len(decoded) <= Len(received) /\ \A i \in 1..Len(decoded) : decoded[i] = received[i]

\* What is read is the frames decoded and the units in the buffer, which are the
\* beginning of the next frame.
DecodedCut ==
  outcome = "open" =>
    /\ taken = Len(decoded) * FrameLen + Len(buffer)
    /\ \A j \in 1..Len(buffer) : buffer[j] = Unit(received[Len(decoded) + 1], j)
    /\ done <=> HasStatus(decoded)

\* How a call ended.
Verdict ==
  /\ HasStatus(decoded) => ~killed
  /\ outcome = "ok" => HasStatus(decoded)
  /\ outcome = "failed" => killed
  /\ response = "collect" => outcome \in {"open", "lost"}

\* What a JSON answer is decoded to.
DecodedDirect ==
  response = "json" /\ outcome \in {"ok", "failed"} =>
    decoded = OnChannel("stdout") \o OnChannel("stderr")
                \o (IF killed THEN <<>> ELSE <<Status>>)

ClientInv == ClientTypes /\ DecodedPrefix /\ DecodedCut /\ Verdict /\ DecodedDirect

\* The client has read nothing.
LEMMA InitClient == ClientInit => ClientInv
<1> SUFFICES ASSUME ClientInit PROVE ClientInv
  OBVIOUS
<1>1. /\ killed \in BOOLEAN /\ done = FALSE /\ outcome = "open" /\ decoded = <<>>
      /\ buffer = <<>> /\ taken = 0 /\ received = <<>> /\ received \in Seq(Events)
  BY DEF ClientInit, Init
<1>2. FrameLen \in Nat \ {0} /\ Len(Wire) = 0
  <2>1. Len(received) = 0 /\ FrameLen \in Nat \ {0}
    BY <1>1, FrameFact
  <2>2. Len(Wire) = Len(received) * FrameLen
    BY <1>1, WireIs, WireType
  <2> QED
    BY <2>1, <2>2
<1>3. ClientTypes
  <2>1. <<>> \in Seq(Units) /\ <<>> \in Seq(Events) /\ Len(<<>>) = 0
    OBVIOUS
  <2>2. buffer \in Seq(Units) /\ decoded \in Seq(Events) /\ Len(buffer) = 0
    BY <1>1, <2>1
  <2>3. Len(buffer) < FrameLen /\ taken \in 0..Len(Wire)
    <3>1. taken = 0 /\ 0 \in 0..0
      BY <1>1
    <3> QED
      BY <1>2, <2>2, <3>1
  <2>4. killed \in BOOLEAN /\ done \in BOOLEAN /\ outcome \in {"open", "ok", "failed", "lost"}
    BY <1>1
  <2> QED
    BY <2>2, <2>3, <2>4 DEF ClientTypes
<1>4. ~HasStatus(decoded)
  BY <1>1, EmptyStatus
<1>5. DecodedPrefix /\ DecodedCut /\ Verdict /\ DecodedDirect
  BY <1>1, <1>2, <1>4 DEF DecodedPrefix, DecodedCut, Verdict, DecodedDirect
<1> QED
  BY <1>3, <1>5 DEF ClientInv

\* The answer only grows, and turns into JSON at once.
LEMMA AnswerExtends ==
  ASSUME ServerInv, Work \/ Disconnect
  PROVE  /\ Len(received) <= Len(received')
         /\ \A i \in 1..Len(received) : received'[i] = received[i]
         /\ received' \in Seq(Events)
         /\ response' = "collect" => response = "collect"
         /\ response' = "json" => response \in {"collect", "json"}
         /\ response = "json" => response' = "json" /\ received' = received
<1>0. /\ received \in Seq(Events) /\ consumed \in Seq(Events) /\ events \in Seq(Events)
      /\ Len(received) \in Nat /\ ServerInv'
  BY ServerStep DEF ServerInv, TypeOK
<1>1. received' \in Seq(Events) /\ Len(received') \in Nat
  BY <1>0 DEF ServerInv, TypeOK
<1>2. CASE UNCHANGED <<response, received>>
  BY <1>0, <1>1, <1>2
<1>3. CASE Collect
  <2>1. received = <<>>
    BY <1>3 DEF Collect, ServerInv, StatusPlace
  <2>2. Len(received) = 0
    BY <2>1
  <2> QED
    BY <1>1, <1>3, <2>2 DEF Collect
<1>4. CASE Deadline
  BY <1>0, <1>1, <1>4 DEF Deadline
<1>5. CASE Stream
  <2>1. ASSUME NEW q \in Seq(Events), q # <<>>, received' = Append(received, Head(q))
        PROVE  Len(received) <= Len(received')
               /\ \A i \in 1..Len(received) : received'[i] = received[i]
    <3>1. Head(q) \in Events
      BY <2>1, TailFacts
    <3> QED
      BY <1>0, <2>1, <3>1, AppendFacts
  <2>2. CASE received' = received
    BY <1>0, <1>1, <1>5, <2>2 DEF Stream
  <2> QED
    BY <1>0, <1>1, <1>5, <2>1, <2>2 DEF Stream
<1>6. CASE Disconnect
  BY <1>0, <1>1, <1>6 DEF Disconnect, ReceiverLives
<1> QED
  BY <1>2, <1>3, <1>4, <1>5, <1>6
     DEF Work, Write, HolderExits, Exit, PumpRead, PumpSend, WaiterWaits, WaiterJoins,
         WaiterSends, answerVars

\* A step of the server leaves the client as far as it was.
LEMMA ServeStep ==
  ASSUME ServerInv, ClientInv, Work \/ Disconnect, UNCHANGED clientVars
  PROVE  ClientInv'
<1>0. /\ killed' = killed /\ taken' = taken /\ buffer' = buffer /\ done' = done
      /\ decoded' = decoded /\ outcome' = outcome
      /\ decoded \in Seq(Events) /\ Len(decoded) \in Nat /\ Len(buffer) \in Nat
      /\ received \in Seq(Events) /\ Len(received) \in Nat
  BY DEF clientVars, ClientInv, ClientTypes, ServerInv, TypeOK
<1>1. /\ Len(received) <= Len(received')
      /\ \A i \in 1..Len(received) : received'[i] = received[i]
      /\ received' \in Seq(Events) /\ Len(received') \in Nat
      /\ response' = "collect" => response = "collect"
      /\ response' = "json" => response \in {"collect", "json"}
      /\ response = "json" => response' = "json" /\ received' = received
  BY AnswerExtends
<1>2. /\ FrameLen \in Nat \ {0}
      /\ Len(Wire) = Len(received) * FrameLen /\ Len(Wire)' = Len(received') * FrameLen
  BY <1>0, <1>1, FrameFact, WireIs, WireType
<1>3. Len(Wire) <= Len(Wire)' /\ Len(Wire) \in Nat /\ Len(Wire)' \in Nat
  BY <1>0, <1>1, <1>2, MulLess
<1>4. ClientTypes'
  BY <1>0, <1>3 DEF ClientInv, ClientTypes
<1>5. DecodedPrefix'
  <2> SUFFICES ASSUME response' # "json" \/ outcome \in {"open", "lost"}
               PROVE  Len(decoded) <= Len(received')
                      /\ \A i \in 1..Len(decoded) : decoded[i] = received'[i]
    BY <1>0 DEF DecodedPrefix
  <2>1. Len(decoded) <= Len(received) /\ \A i \in 1..Len(decoded) : decoded[i] = received[i]
    BY <1>1 DEF ClientInv, DecodedPrefix
  <2> QED
    BY <1>0, <1>1, <2>1
<1>6. DecodedCut'
  <2> SUFFICES ASSUME outcome = "open"
               PROVE  \A j \in 1..Len(buffer) : buffer[j] = Unit(received'[Len(decoded) + 1], j)
    BY <1>0 DEF ClientInv, DecodedCut
  <2>1. taken = Len(decoded) * FrameLen + Len(buffer) /\ taken <= Len(received) * FrameLen
    BY <1>2 DEF ClientInv, ClientTypes, DecodedCut
  <2>2. CASE Len(buffer) = 0
    BY <2>2
  <2>3. CASE Len(buffer) > 0
    <3>1. Len(decoded) * FrameLen < Len(received) * FrameLen
      BY SMTT(40), <1>0, <1>2, <2>1, <2>3
    <3>2. Len(decoded) < Len(received)
      BY <1>0, <1>2, <3>1, MulLess
    <3>3. received'[Len(decoded) + 1] = received[Len(decoded) + 1]
      BY <1>0, <1>1, <3>2
    <3> QED
      BY <3>3 DEF ClientInv, DecodedCut
  <2> QED
    BY <1>0, <2>2, <2>3
<1>7. Verdict'
  BY <1>0, <1>1 DEF ClientInv, Verdict
<1>8. DecodedDirect'
  <2> SUFFICES ASSUME response' = "json", outcome \in {"ok", "failed"}
               PROVE  response = "json" /\ received' = received
    BY <1>0 DEF ClientInv, DecodedDirect, OnChannel
  <2> QED
    BY <1>1 DEF ClientInv, Verdict
<1> QED
  BY <1>4, <1>5, <1>6, <1>7, <1>8 DEF ClientInv

\* A text that is a piece of the wire, from the start of frame k + 1.
PieceOf(text, s, k) ==
  /\ k * FrameLen + Len(text) <= Len(s) * FrameLen
  /\ \A j \in 1..Len(text) : text[j] = WireOf(s)[k * FrameLen + j]

\* The unit of a piece at a place that is known by its frame and its place there.
LEMMA PiecePoint ==
  ASSUME NEW s \in Seq(Events), NEW k \in Nat, NEW text \in Seq(Units), PieceOf(text, s, k),
         NEW i \in Nat, NEW j \in 1..FrameLen, i * FrameLen + j <= Len(text)
  PROVE  k + i < Len(s) /\ text[i * FrameLen + j] = Unit(s[k + i + 1], j)
<1> DEFINE d == FrameLen
           T == Len(text)
           N == Len(s)
<1>1. d \in Nat \ {0} /\ T \in Nat /\ N \in Nat /\ j \in 1..d
  BY FrameFact
<1>2. k * d + T <= N * d /\ i * d + j <= T /\ \A m \in 1..T : text[m] = WireOf(s)[k * d + m]
  BY DEF PieceOf
<1> HIDE DEF d, T, N
<1>3. k * d \in Nat /\ i * d \in Nat /\ N * d \in Nat /\ (k + i) * d = k * d + i * d
  BY <1>1
<1>4. k + i < N
  <2>1. (k + i) * d < N * d
    <3> DEFINE a == k * d
               b == i * d
               c == N * d
    <3>1. a \in Nat /\ b \in Nat /\ c \in Nat /\ (k + i) * d = a + b /\ a + T <= c /\ b + j <= T
      BY <1>2, <1>3
    <3> HIDE DEF a, b, c
    <3>2. a + b < c
      BY <1>1, <3>1
    <3> QED
      BY <3>1, <3>2 DEF c
  <2>2. k + i \in Nat
    OBVIOUS
  <2> QED
    BY <1>1, <2>1, <2>2, MulLess
<1>5. i * d + j \in 1..T
  <2> DEFINE b == i * d
  <2>1. b \in Nat /\ j \in Nat /\ 1 <= j /\ T \in Nat /\ b + j <= T
    BY <1>1, <1>2, <1>3
  <2> HIDE DEF b
  <2>2. b + j \in 1..T
    BY <2>1
  <2> QED
    BY <2>2 DEF b
<1>6. text[i * d + j] = WireOf(s)[k * d + (i * d + j)]
  BY <1>2, <1>5
<1>7. k * d + (i * d + j) = (k + i) * d + j
  BY <1>1, <1>3
<1>8. k + i \in Nat
  OBVIOUS
<1>9. WireOf(s)[(k + i) * FrameLen + j] = Unit(s[(k + i) + 1], j)
  BY <1>4, <1>8, WirePoint DEF N
<1> QED
  BY <1>4, <1>6, <1>7, <1>9 DEF d, N

\* Decoding a piece: its frames are the next events, its headers are good, and its
\* rest is the beginning of the frame after them.
LEMMA PieceDecodes ==
  ASSUME NEW s \in Seq(Events), NEW k \in Nat, NEW text \in Seq(Units), PieceOf(text, s, k)
  PROVE  /\ Whole(text) \in Nat /\ k + Whole(text) <= Len(s)
         /\ Frames(text) \in Seq(Events) /\ Len(Frames(text)) = Whole(text)
         /\ DOMAIN Frames(text) = 1..Whole(text)
         /\ \A i \in 1..Whole(text) : Frames(text)[i] = s[k + i]
         /\ ~BadHeader(text)
         /\ Rest(text) \in Seq(Units) /\ Len(Rest(text)) < FrameLen
         /\ k * FrameLen + Len(text) = (k + Whole(text)) * FrameLen + Len(Rest(text))
         /\ \A j \in 1..Len(Rest(text)) : Rest(text)[j] = Unit(s[k + Whole(text) + 1], j)
         /\ \A i \in 1..Whole(text) : i * FrameLen < Len(text) => k + i < Len(s)
<1> DEFINE d == FrameLen
           T == Len(text)
           N == Len(s)
           w == Whole(text)
<1>0. text \in Seq(Units) /\ DOMAIN text = 1..T
  OBVIOUS
<1>1. d \in Nat \ {0} /\ T \in Nat /\ N \in Nat /\ HeaderLen \in 1..d
  BY FrameFact
<1>2. k * d + T <= N * d
  BY DEF PieceOf
<1>3. w = T \div d
  BY DEF Whole
<1>4. Frames(text) = [i \in 1..w |-> text[(i - 1) * d + 1].frame]
  BY DEF Frames
<1>5. Rest(text) = SubSeq(text, w * d + 1, T)
  BY DEF Rest
<1>6. ASSUME NEW i \in Nat, NEW j \in 1..d, i * d + j <= T
      PROVE  k + i < N /\ text[i * d + j] = Unit(s[k + i + 1], j)
  BY <1>6, PiecePoint
<1> HIDE DEF d, T, N, w
<1>7. w \in Nat /\ w * d \in Nat /\ w * d <= T /\ T < w * d + d
  <2>1. T \div d \in Nat /\ (T \div d) * d <= T /\ T < (T \div d) * d + d
    BY <1>1, DivFacts
  <2>2. w \in Nat /\ w * d <= T /\ T < w * d + d
    BY <1>3, <2>1
  <2> QED
    BY <1>1, <2>2
<1>8. k * d \in Nat /\ N * d \in Nat
  BY <1>1
<1>9. \A i \in Nat : i * d \in Nat /\ (k + i) * d = k * d + i * d
  BY <1>1
<1>10. \A i \in Nat : i * d < T => k + i < N
  <2> SUFFICES ASSUME NEW i \in Nat, i * d < T PROVE k + i < N
    OBVIOUS
  <2>1. (k + i) * d < N * d /\ k + i \in Nat
    BY <1>1, <1>2, <1>8, <1>9
  <2> QED
    BY <1>1, <2>1, MulLess
<1>11. k + w <= N
  <2>1. (k + w) * d <= N * d /\ k + w \in Nat
    BY <1>1, <1>2, <1>7, <1>8, <1>9
  <2> QED
    BY <1>1, <2>1, MulLess
<1>12. ASSUME NEW i \in 1..w
       PROVE  text[(i - 1) * d + 1].frame = s[k + i] /\ s[k + i] \in Events
  <2>1. i - 1 \in Nat /\ (i - 1) * d + d <= w * d /\ (i - 1) * d \in Nat
    BY <1>1, <1>7, MulLess
  <2>2. 1 \in 1..d /\ (i - 1) * d + 1 <= T
    BY <1>1, <1>7, <2>1
  <2>3. text[(i - 1) * d + 1] = Unit(s[k + (i - 1) + 1], 1)
    BY <1>6, <2>1, <2>2
  <2>4. k + (i - 1) + 1 = k + i /\ k + i \in 1..N
    BY <1>1, <1>7, <1>11
  <2> QED
    BY <2>3, <2>4 DEF Unit, N
<1>13. /\ Frames(text) \in Seq(Events) /\ Len(Frames(text)) = w /\ DOMAIN Frames(text) = 1..w
       /\ \A i \in 1..w : Frames(text)[i] = s[k + i]
  <2>1. Frames(text) = [i \in 1..w |-> s[k + i]]
    BY <1>4, <1>12
  <2>2. [i \in 1..w |-> s[k + i]] \in Seq(Events)
    <3>1. \A i \in 1..w : s[k + i] \in Events
      BY <1>12
    <3> QED
      BY <1>7, <3>1
  <2> QED
    BY <1>7, <2>1, <2>2
<1>14. ~BadHeader(text)
  <2> SUFFICES ASSUME NEW i \in 0..w, T - i * d >= HeaderLen
               PROVE  text[i * d + 1].at = 1
    BY DEF BadHeader, d, T, w
  <2>1. i \in Nat /\ i * d \in Nat /\ 1 \in 1..d
    BY <1>1, <1>7, <1>9
  <2>2. i * d + 1 <= T
    BY <1>1, <2>1
  <2>3. text[i * d + 1] = Unit(s[k + i + 1], 1)
    BY <1>6, <2>1, <2>2
  <2> QED
    BY <2>3 DEF Unit
<1>15. /\ Rest(text) \in Seq(Units) /\ Len(Rest(text)) = T - w * d
       /\ \A j \in 1..(T - w * d) : Rest(text)[j] = text[w * d + j]
  <2> DEFINE p == w * d
  <2>1. p \in Nat /\ p <= T
    BY <1>7
  <2>2. Rest(text) = SubSeq(text, p + 1, T)
    BY <1>5
  <2> HIDE DEF p
  <2>3. \A i \in (p + 1)..T : text[i] \in Units
    BY <1>0, <1>1, <2>1
  <2>4. Rest(text) = [j \in 1..(T - p) |-> text[p + j]]
    BY <1>1, <2>1, <2>2, Zenon, SMT
  <2>5. T - p \in Nat /\ \A j \in 1..(T - p) : text[p + j] \in Units
    BY <1>1, <2>1, <2>3
  <2> QED
    BY SMTT(40), <2>4, <2>5 DEF p
<1>16. Len(Rest(text)) < d /\ k * d + T = (k + w) * d + Len(Rest(text))
  BY <1>1, <1>7, <1>8, <1>9, <1>15
<1>17. ASSUME NEW j \in 1..Len(Rest(text)) PROVE Rest(text)[j] = Unit(s[k + w + 1], j)
  <2>1. j \in 1..d /\ w * d + j <= T
    BY <1>1, <1>7, <1>15, <1>16
  <2>2. text[w * d + j] = Unit(s[k + w + 1], j)
    BY <1>6, <1>7, <2>1
  <2> QED
    BY <1>15, <2>2
<1> QED
  BY <1>7, <1>10, <1>11, <1>13, <1>14, <1>15, <1>16, <1>17 DEF d, T, N, w

\* Whatever the cut, the text to decode is the piece of the wire that starts with
\* the first frame not decoded.
LEMMA TextIsPiece ==
  ASSUME ServerInv, ClientInv, outcome = "open", response # "json",
         NEW n \in 1..(Len(Wire) - taken)
  PROVE  LET text == Text(SubSeq(Wire, taken + 1, taken + n))
         IN /\ text \in Seq(Units) /\ PieceOf(text, received, Len(decoded))
            /\ Len(decoded) < Len(received)
            /\ taken + n = Len(decoded) * FrameLen + Len(text)
<1> DEFINE W == WireOf(received)
           chunk == SubSeq(W, taken + 1, taken + n)
           k == Len(decoded)
           b == Len(buffer)
           d == FrameLen
           N == Len(received)
           text == buffer \o chunk
<1>1. /\ received \in Seq(Events) /\ N \in Nat /\ decoded \in Seq(Events) /\ k \in Nat
      /\ buffer \in Seq(Units) /\ b \in Nat /\ b < d /\ d \in Nat \ {0}
  BY FrameFact DEF ServerInv, TypeOK, ClientInv, ClientTypes
<1>2. Wire = W /\ W \in Seq(Units) /\ Len(W) = N * d
  BY <1>1, WireIs, WireType
<1>3. taken = k * d + b /\ taken \in 0..(N * d) /\ \A j \in 1..b : buffer[j] = Unit(received[k + 1], j)
  BY <1>2 DEF ClientInv, DecodedCut, ClientTypes
<1>4. n \in 1..(N * d - taken)
  BY <1>2
<1>5. Text(SubSeq(Wire, taken + 1, taken + n)) = text
  BY <1>2 DEF Text
<1>6. \A i \in Nat : i < N => \A j \in 1..d : W[i * d + j] = Unit(received[i + 1], j)
  BY <1>1, WirePoint
<1> HIDE DEF W, k, b, d, N
<1>7. k * d \in Nat /\ N * d \in Nat
  BY <1>1
<1>8. k < N
  <2>1. k * d < N * d
    BY <1>1, <1>3, <1>4, <1>7
  <2> QED
    BY <1>1, <2>1, MulLess
<1>9. /\ chunk \in Seq(Units) /\ Len(chunk) = n
      /\ \A j \in 1..n : chunk[j] = W[taken + j]
  <2>1. taken \in Nat /\ n \in Nat /\ taken + n <= Len(W) /\ (taken + n) - taken = n
    BY <1>2, <1>3, <1>4, <1>7
  <2>2. \A i \in (taken + 1)..(taken + n) : W[i] \in Units
    BY <1>2, <1>7, <2>1
  <2>3. chunk = [j \in 1..n |-> W[taken + j]]
    BY <1>2, <2>1
  <2>4. \A j \in 1..n : W[taken + j] \in Units
    BY <2>1, <2>2
  <2>5. [j \in 1..n |-> W[taken + j]] \in Seq(Units)
    BY <2>1, <2>4
  <2> HIDE DEF chunk
  <2> QED
    BY <2>1, <2>3, <2>5
<1> HIDE DEF chunk
<1>10. /\ text \in Seq(Units) /\ Len(text) = b + n
       /\ \A j \in 1..b : text[j] = buffer[j]
       /\ \A j \in (b + 1)..(b + n) : text[j] = chunk[j - b]
  <2>1. buffer \in Seq(Units) /\ chunk \in Seq(Units) /\ Len(buffer) = b /\ Len(chunk) = n
    BY <1>1, <1>9 DEF b
  <2>2. /\ text \in Seq(Units) /\ Len(text) = b + n
        /\ \A j \in 1..(b + n) : text[j] = IF j <= b THEN buffer[j] ELSE chunk[j - b]
    BY <2>1, ConcatProperties
  <2>3. b \in Nat /\ n \in Nat
    BY <1>1, <1>4, <1>7
  <2> HIDE DEF text
  <2> QED
    BY <2>2, <2>3
<1> HIDE DEF text
<1>11. ASSUME NEW j \in 1..(b + n) PROVE text[j] = W[k * d + j]
  <2>1. CASE j <= b
    <3>1. j \in 1..b /\ j \in 1..d
      BY <1>1, <1>4, <1>7, <2>1
    <3>2. W[k * d + j] = Unit(received[k + 1], j)
      BY <1>1, <1>6, <1>8, <3>1
    <3> QED
      BY <1>3, <1>10, <3>1, <3>2
  <2>2. CASE j > b
    <3>1. j - b \in 1..n /\ j \in (b + 1)..(b + n) /\ taken + (j - b) = k * d + j
      BY <1>1, <1>3, <1>4, <1>7, <2>2
    <3> QED
      BY <1>9, <1>10, <3>1
  <2> QED
    BY <1>1, <1>4, <1>7, <2>1, <2>2
<1>12. taken + n = k * d + Len(text) /\ k * d + Len(text) <= N * d
  BY <1>1, <1>3, <1>4, <1>7, <1>10
<1>13. PieceOf(text, received, k)
  BY <1>10, <1>11, <1>12 DEF PieceOf, d, N, W
<1> QED
  BY <1>5, <1>8, <1>10, <1>12, <1>13 DEF k, d, N

\* A status among the events of an answer is its last.
LEMMA StatusComesLast ==
  ASSUME ServerInv, NEW s \in Seq(Events), Len(s) <= Len(received),
         \A i \in 1..Len(s) : s[i] = received[i], HasStatus(s)
  PROVE  Len(s) = Len(received)
<1>1. PICK i \in DOMAIN s : s[i] = Status
  BY DEF HasStatus
<1>2. /\ DOMAIN s = 1..Len(s) /\ DOMAIN received = 1..Len(received)
      /\ Len(s) \in Nat /\ Len(received) \in Nat
  BY DEF ServerInv, TypeOK
<1>3. i \in DOMAIN received /\ received[i] = Status
  BY <1>1, <1>2
<1>4. i = Len(received)
  BY <1>3, StatusIsTheEnd
<1>5. i <= Len(s)
  BY <1>1, <1>2
<1> DEFINE a == Len(s)
           b == Len(received)
<1>6. a \in Nat /\ b \in Nat /\ i = b /\ i <= a /\ a <= b
  BY <1>2, <1>4, <1>5
<1> HIDE DEF a, b
<1>7. a = b
  BY <1>6
<1> QED
  BY <1>7 DEF a, b

\* Two sequences of events in a row.
LEMMA JoinFacts ==
  ASSUME NEW s \in Seq(Events), NEW t \in Seq(Events)
  PROVE  /\ s \o t \in Seq(Events) /\ Len(s \o t) = Len(s) + Len(t)
         /\ \A i \in 1..Len(s) : (s \o t)[i] = s[i]
         /\ \A i \in (Len(s) + 1)..(Len(s) + Len(t)) : (s \o t)[i] = t[i - Len(s)]
OBVIOUS

\* A chunk is decoded to the next events, and its rest kept.
LEMMA ReadChunkStep ==
  ASSUME ServerInv, ClientInv, ReadChunk
  PROVE  ClientInv'
<1> DEFINE k == Len(decoded)
           d == FrameLen
           N == Len(received)
<1>1. PICK n \in 1..(Len(Wire) - taken) :
        taken' = taken + n /\ Decode(SubSeq(Wire, taken + 1, taken + n))
  BY DEF ReadChunk
<1> DEFINE text == Text(SubSeq(Wire, taken + 1, taken + n))
           w == Whole(text)
           F == Frames(text)
           status == \E i \in DOMAIN F : F[i] = Status
           rest == Rest(text)
<1>2. /\ outcome = "open" /\ response \in {"stream", "ended"} /\ killed' = killed
      /\ UNCHANGED vars
  BY DEF ReadChunk, serverVars
<1>3. received' = received /\ response' = response
  BY <1>2 DEF vars, answerVars
<1>4. /\ received \in Seq(Events) /\ decoded \in Seq(Events) /\ k \in Nat /\ N \in Nat
      /\ d \in Nat \ {0} /\ killed \in BOOLEAN
      /\ Len(decoded) <= N /\ \A i \in 1..k : decoded[i] = received[i]
      /\ done <=> HasStatus(decoded)
  BY <1>2, FrameFact
     DEF ServerInv, TypeOK, ClientInv, ClientTypes, DecodedPrefix, DecodedCut
<1>5. /\ text \in Seq(Units) /\ PieceOf(text, received, k) /\ k < N
      /\ taken' = k * d + Len(text)
  BY <1>1, <1>2, TextIsPiece
<1>6. /\ w \in Nat /\ k + w <= N
      /\ F \in Seq(Events) /\ Len(F) = w /\ DOMAIN F = 1..w
      /\ \A i \in 1..w : F[i] = received[k + i]
      /\ ~BadHeader(text)
      /\ rest \in Seq(Units) /\ Len(rest) < d
      /\ k * d + Len(text) = (k + w) * d + Len(rest)
      /\ \A j \in 1..Len(rest) : rest[j] = Unit(received[k + w + 1], j)
      /\ \A i \in 1..w : i * d < Len(text) => k + i < N
  <2>1. received \in Seq(Events) /\ k \in Nat /\ text \in Seq(Units) /\ PieceOf(text, received, k)
    BY <1>4, <1>5
  <2> HIDE DEF text, k
  <2> QED
    BY ZenonT(60), <2>1, PieceDecodes
<1>7. ~HasStatus(decoded) /\ ~done
  BY <1>4, <1>5, StatusComesLast
<1>8. Len(Wire) = N * d /\ Len(Wire)' = N * d
  BY <1>3, <1>4, WireIs, WireType
<1>9. /\ ~AfterStatus(text)
      /\ \A i \in 1..w : F[i] = Status => k + i = N
  <2>1. ASSUME NEW i \in 1..w, F[i] = Status PROVE k + i = N
    <3>1. k + i \in DOMAIN received /\ received[k + i] = Status
      BY SMTT(40), <1>4, <1>6, <2>1
    <3> QED
      BY <3>1, StatusIsTheEnd
  <2>2. \A i \in 1..w : F[i] = Status => ~(i * d < Len(text))
    BY SMTT(40), <1>4, <1>6, <2>1
  <2> QED
    BY <1>6, <2>1, <2>2 DEF AfterStatus
<1>10. /\ buffer' = rest /\ done' = status
       /\ \/ /\ status /\ killed
             /\ outcome' = "failed" /\ decoded' = decoded \o Front(F)
          \/ /\ ~(status /\ killed)
             /\ outcome' = "open" /\ decoded' = decoded \o F
  BY <1>1, <1>2, <1>6, <1>7, <1>9 DEF Decode
<1> HIDE DEF text, w, F, status, rest, k, d, N
<1>11. /\ status \in BOOLEAN /\ (status <=> \E i \in 1..w : F[i] = Status)
  BY <1>6 DEF status
<1>12. taken' = (k + w) * d + Len(rest) /\ Len(rest) \in Nat /\ taken' \in Nat
  BY <1>1, <1>4, <1>5, <1>6
<1>13. taken' \in 0..Len(Wire)'
  <2>1. k * d + Len(text) <= N * d
    BY <1>5 DEF PieceOf, k, d, N
  <2> QED
    BY <1>4, <1>5, <1>8, <1>12, <2>1
<1>14. CASE status /\ killed /\ outcome' = "failed" /\ decoded' = decoded \o Front(F)
  <2>1. w \in Nat \ {0}
    BY <1>6, <1>11, <1>14
  <2>2. /\ Front(F) \in Seq(Events) /\ Len(Front(F)) = w - 1
        /\ \A i \in 1..(w - 1) : Front(F)[i] = F[i]
    <3>1. Front(F) = SubSeq(F, 1, w - 1)
      BY <1>6 DEF Front
    <3>2. Front(F) = [i \in 1..(w - 1) |-> F[i]]
      BY <1>6, <2>1, <3>1
    <3>3. \A i \in 1..(w - 1) : F[i] \in Events
      BY <1>6, <2>1
    <3> QED
      BY <2>1, <3>2, <3>3
  <2>3. /\ decoded' \in Seq(Events) /\ Len(decoded') = k + (w - 1)
        /\ \A i \in 1..k : decoded'[i] = decoded[i]
        /\ \A i \in (k + 1)..(k + (w - 1)) : decoded'[i] = Front(F)[i - k]
    <3> DEFINE G == Front(F)
    <3>1. G \in Seq(Events) /\ Len(G) = w - 1 /\ decoded' = decoded \o G
      BY <1>14, <2>2
    <3> HIDE DEF G
    <3>2. /\ decoded' \in Seq(Events) /\ Len(decoded') = k + (w - 1)
          /\ \A i \in 1..k : decoded'[i] = decoded[i]
          /\ \A i \in (k + 1)..(k + (w - 1)) : decoded'[i] = G[i - k]
      BY SMTT(40), <1>4, <3>1, JoinFacts DEF k
    <3> QED
      BY <3>2 DEF G
  <2>4. \A i \in 1..(k + (w - 1)) : decoded'[i] = received[i]
    <3> SUFFICES ASSUME NEW i \in 1..(k + (w - 1)) PROVE decoded'[i] = received[i]
      OBVIOUS
    <3>1. CASE i <= k
      BY <1>4, <2>1, <2>3, <3>1
    <3>2. CASE i > k
      <4>1. i - k \in 1..(w - 1) /\ i - k \in 1..w /\ i \in (k + 1)..(k + (w - 1)) /\ k + (i - k) = i
        BY <1>4, <2>1, <3>2
      <4> QED
        BY SMTT(40), <1>6, <2>2, <2>3, <4>1
    <3> QED
      BY <1>4, <2>1, <3>1, <3>2
  <2>5. ~HasStatus(decoded)'
    <3>1. Len(decoded') < N
      BY <1>4, <1>6, <2>1, <2>3
    <3>2. \A i \in 1..Len(decoded') : received[i] # Status
      <4>1. \A i \in DOMAIN received : received[i] = Status => i = N
        BY StatusIsTheEnd DEF N
      <4>2. DOMAIN received = 1..N
        BY <1>4 DEF N
      <4>3. Len(decoded') \in Nat /\ N \in Nat
        BY <1>4, <2>3
      <4>4. ASSUME NEW i \in 1..Len(decoded') PROVE i \in 1..N /\ i # N
        BY <3>1, <4>3
      <4> QED
        BY <4>1, <4>2, <4>4
    <3>3. DOMAIN decoded' = 1..Len(decoded')
      BY <2>3
    <3> QED
      BY <2>3, <2>4, <3>2, <3>3 DEF HasStatus
  <2>6. ClientTypes'
    BY <1>2, <1>4, <1>6, <1>10, <1>11, <1>13, <1>14, <2>3 DEF ClientTypes, d
  <2>7. DecodedPrefix'
    BY SMTT(40), <1>3, <1>4, <1>6, <2>1, <2>3, <2>4 DEF DecodedPrefix, N
  <2>8. DecodedCut' /\ DecodedDirect'
    BY <1>2, <1>3, <1>14 DEF DecodedCut, DecodedDirect
  <2>9. Verdict'
    BY <1>2, <1>3, <1>14, <2>5 DEF Verdict
  <2> QED
    BY <2>6, <2>7, <2>8, <2>9 DEF ClientInv
<1>15. CASE ~(status /\ killed) /\ outcome' = "open" /\ decoded' = decoded \o F
  <2>3. /\ decoded' \in Seq(Events) /\ Len(decoded') = k + w
        /\ \A i \in 1..k : decoded'[i] = decoded[i]
        /\ \A i \in (k + 1)..(k + w) : decoded'[i] = F[i - k]
    BY <1>4, <1>6, <1>15, JoinFacts DEF k
  <2>4. \A i \in 1..(k + w) : decoded'[i] = received[i]
    <3> SUFFICES ASSUME NEW i \in 1..(k + w) PROVE decoded'[i] = received[i]
      OBVIOUS
    <3>1. CASE i <= k
      BY <1>4, <1>6, <2>3, <3>1
    <3>2. CASE i > k
      <4>1. i - k \in 1..w /\ i \in (k + 1)..(k + w) /\ k + (i - k) = i
        BY <1>4, <1>6, <3>2
      <4> QED
        BY <1>6, <2>3, <4>1
    <3> QED
      BY <1>4, <1>6, <3>1, <3>2
  <2>5. HasStatus(decoded)' <=> status
    <3>1. DOMAIN decoded' = 1..(k + w) /\ DOMAIN decoded = 1..k
      BY <1>4, <2>3 DEF k
    <3>2. ASSUME status PROVE HasStatus(decoded)'
      <4>1. PICK i \in 1..w : F[i] = Status
        BY <1>11, <3>2
      <4>2. k + i \in (k + 1)..(k + w) /\ (k + i) - k = i /\ k + i \in 1..(k + w)
        BY <1>4, <1>6
      <4> QED
        BY <2>3, <3>1, <4>1, <4>2 DEF HasStatus
    <3>3. ASSUME HasStatus(decoded)' PROVE status
      <4>1. PICK i \in 1..(k + w) : decoded'[i] = Status
        BY <3>1, <3>3 DEF HasStatus
      <4>2. CASE i <= k
        <5>1. i \in 1..k
          BY <1>4, <1>6, <4>2
        <5>2. decoded[i] = Status
          BY <2>3, <4>1, <5>1
        <5> QED
          BY <1>7, <3>1, <5>1, <5>2 DEF HasStatus
      <4>3. CASE i > k
        <5>1. i - k \in 1..w /\ i \in (k + 1)..(k + w)
          BY <1>4, <1>6, <4>3
        <5> QED
          BY <1>11, <2>3, <4>1, <5>1
      <4> QED
        BY <1>4, <1>6, <4>2, <4>3
    <3> QED
      BY <3>2, <3>3
  <2>6. ClientTypes'
    BY <1>2, <1>4, <1>6, <1>10, <1>11, <1>13, <1>15, <2>3 DEF ClientTypes, d
  <2>7. DecodedPrefix'
    BY <1>3, <1>4, <1>6, <2>3, <2>4 DEF DecodedPrefix, N
  <2>8. DecodedCut'
    <3>1. \A j \in 1..Len(buffer') : buffer'[j] = Unit(received'[Len(decoded') + 1], j)
      BY <1>3, <1>6, <1>10, <2>3
    <3>2. taken' = Len(decoded') * FrameLen + Len(buffer')
      BY <1>10, <1>12, <2>3 DEF d
    <3> QED
      BY <1>10, <1>11, <2>5, <3>1, <3>2 DEF DecodedCut
  <2>9. DecodedDirect' /\ Verdict'
    BY <1>2, <1>3, <1>4, <1>11, <1>15, <2>5 DEF Verdict, DecodedDirect
  <2> QED
    BY <2>6, <2>7, <2>8, <2>9 DEF ClientInv
<1> QED
  BY <1>10, <1>14, <1>15

\* Whoever reads an answer to its end has decoded all of it, its status included.
LEMMA ReadEndStep ==
  ASSUME ServerInv, ClientInv, ReadEnd
  PROVE  ClientInv'
<1> DEFINE k == Len(decoded)
           d == FrameLen
           N == Len(received)
           b == Len(buffer)
<1>1. /\ outcome = "open" /\ response = "ended" /\ taken = Len(Wire)
      /\ outcome' = IF done THEN "ok" ELSE "failed"
      /\ UNCHANGED <<killed, taken, buffer, done, decoded>> /\ UNCHANGED vars
  BY DEF ReadEnd, serverVars
<1>2. received' = received /\ response' = response
  BY <1>1 DEF vars, answerVars
<1>3. /\ received \in Seq(Events) /\ decoded \in Seq(Events) /\ k \in Nat /\ N \in Nat
      /\ d \in Nat \ {0} /\ b \in Nat /\ b < d
      /\ k <= N /\ \A i \in 1..k : decoded[i] = received[i]
      /\ done <=> HasStatus(decoded)
      /\ taken = k * d + b
  BY <1>1, FrameFact DEF ServerInv, TypeOK, ClientInv, ClientTypes, DecodedPrefix, DecodedCut
<1>4. Len(Wire) = N * d /\ Wire' = Wire
  BY <1>2, <1>3, WireIs, WireType
<1>5. k = N
  <2>1. N * d = k * d + b
    BY <1>1, <1>3, <1>4
  <2> HIDE DEF k, d, N, b
  <2>2. k < N => k * d + d <= N * d
    BY <1>3, MulLess
  <2>3. k * d \in Nat
    BY <1>3
  <2> QED
    BY <1>3, <2>1, <2>2, <2>3
<1>6. done
  <2>1. PICK i \in DOMAIN received : received[i] = Status
    BY <1>1 DEF ServerInv, StatusPlace, HasStatus
  <2>2. i \in DOMAIN decoded /\ decoded[i] = Status
    BY <1>3, <1>5, <2>1
  <2> QED
    BY <1>3, <2>2 DEF HasStatus
<1>7. outcome' = "ok"
  BY <1>1, <1>6
<1>8. ClientTypes'
  BY <1>1, <1>4, <1>7 DEF ClientInv, ClientTypes
<1>9. DecodedPrefix' /\ DecodedCut' /\ Verdict' /\ DecodedDirect'
  BY <1>1, <1>2, <1>3, <1>6, <1>7
     DEF ClientInv, DecodedPrefix, DecodedCut, Verdict, DecodedDirect
<1> QED
  BY <1>8, <1>9 DEF ClientInv

\* The events that the JSON of p writes to stdout and q to stderr is decoded to, with
\* a status unless the child was killed.
Direct(p, q, dead) ==
  FirstN("stdout", p) \o FirstN("stderr", q) \o (IF dead THEN <<>> ELSE <<Status>>)

\* JSON has the streams one after the other, each in its order.
LEMMA DirectIs ==
  ASSUME NEW p \in 0..MaxWrites, NEW q \in 0..MaxWrites, NEW dead \in BOOLEAN
  PROVE  LET D == Direct(p, q, dead)
         IN /\ D \in Seq(Events)
            /\ Len(D) = IF dead THEN p + q ELSE p + q + 1
            /\ DOMAIN D = 1..Len(D)
            /\ \A i \in DOMAIN D : D[i] = Status <=> i = p + q + 1
            /\ ~dead => D[p + q + 1] = Status
            /\ On(D, "stdout") = FirstN("stdout", p)
            /\ On(D, "stderr") = FirstN("stderr", q)
<1> DEFINE A == FirstN("stdout", p)
           B == FirstN("stderr", q)
           S == IF dead THEN <<>> ELSE <<Status>>
           s == IF dead THEN 0 ELSE 1
           D == Direct(p, q, dead)
           AB == A \o B
<1>0. p \in Nat /\ q \in Nat /\ p <= MaxWrites /\ q <= MaxWrites /\ MaxWrites \in Nat
      /\ s \in {0, 1} /\ (dead => s = 0) /\ (~dead => s = 1)
      /\ "stdout" \in Channels /\ "stderr" \in Channels
  BY BoundsAssumption DEF Channels
<1>1. /\ A \in Seq(Events) /\ Len(A) = p /\ \A i \in 1..p : A[i] = Output("stdout", i)
      /\ B \in Seq(Events) /\ Len(B) = q /\ \A i \in 1..q : B[i] = Output("stderr", i)
  BY <1>0, FirstNFacts
<1>2. S \in Seq(Events) /\ Len(S) = s /\ (~dead => S[1] = Status)
  <2>1. CASE dead
    BY <2>1
  <2>2. CASE ~dead
    <3>1. S = <<Status>> /\ Status \in Events
      BY <2>2 DEF Events
    <3> HIDE DEF S
    <3>2. <<Status>> \in Seq(Events) /\ Len(<<Status>>) = 1 /\ <<Status>>[1] = Status
      BY <3>1
    <3> QED
      BY <2>2, <3>1, <3>2
  <2> QED
    BY <2>1, <2>2
<1>3. D = AB \o S
  BY DEF Direct
<1> HIDE DEF A, B, S, D, s
<1>4. /\ AB \in Seq(Events) /\ Len(AB) = p + q
      /\ \A i \in 1..p : AB[i] = A[i]
      /\ \A i \in (p + 1)..(p + q) : AB[i] = B[i - p]
  BY <1>1, JoinFacts
<1> HIDE DEF AB
<1>5. /\ D \in Seq(Events) /\ Len(D) = p + q + s /\ DOMAIN D = 1..(p + q + s)
      /\ \A i \in 1..(p + q) : D[i] = AB[i]
      /\ ~dead => D[p + q + 1] = Status
  <2>1. /\ D \in Seq(Events) /\ Len(D) = (p + q) + s
        /\ \A i \in 1..(p + q) : D[i] = AB[i]
        /\ \A i \in ((p + q) + 1)..((p + q) + s) : D[i] = S[i - (p + q)]
    <3>1. p + q \in Nat
      BY <1>0
    <3>2. /\ D \in Seq(Events) /\ Len(D) = Len(AB) + Len(S)
          /\ \A i \in 1..Len(AB) : D[i] = AB[i]
          /\ \A i \in (Len(AB) + 1)..(Len(AB) + Len(S)) : D[i] = S[i - Len(AB)]
      BY <1>2, <1>3, <1>4, JoinFacts
    <3> QED
      BY <1>2, <1>4, <3>1, <3>2
  <2>2. DOMAIN D = 1..((p + q) + s)
    BY <2>1
  <2>3. ~dead => D[p + q + 1] = Status
    <3>1. ~dead => s = 1
      BY <1>0
    <3>2. (p + q) + 1 - (p + q) = 1 /\ ~dead => p + q + 1 \in ((p + q) + 1)..((p + q) + s)
      BY <1>0, <3>1
    <3> QED
      BY <1>0, <1>2, <2>1, <3>1, <3>2
  <2> QED
    BY <1>0, <2>1, <2>2, <2>3
<1>6. ASSUME NEW i \in 1..p
      PROVE  D[i] = Output("stdout", i) /\ i \in Writes /\ i \in DOMAIN D
  <2>1. i \in 1..(p + q) /\ i \in Writes /\ i \in DOMAIN D
    BY <1>0, <1>5 DEF Writes
  <2> QED
    BY <1>1, <1>4, <1>5, <2>1
<1>7. ASSUME NEW i \in 1..q
      PROVE  D[p + i] = Output("stderr", i) /\ i \in Writes /\ p + i \in DOMAIN D
  <2>1. p + i \in 1..(p + q) /\ p + i \in (p + 1)..(p + q) /\ i \in Writes /\ (p + i) - p = i
        /\ p + i \in DOMAIN D
    BY SMTT(40), <1>0, <1>5 DEF Writes
  <2> QED
    BY <1>1, <1>4, <1>5, <2>1
<1>8. ASSUME NEW i \in DOMAIN D
      PROVE  \/ i \in 1..p
             \/ \E j \in 1..q : i = p + j
             \/ ~dead /\ i = p + q + 1 /\ D[i] = Status
  <2>1. i \in 1..(p + q + s) /\ (dead => s = 0)
    BY <1>0, <1>5
  <2>2. CASE i <= p
    BY <1>0, <2>1, <2>2
  <2>3. CASE p < i /\ i <= p + q
    <3>1. i - p \in 1..q /\ i = p + (i - p)
      BY <1>0, <2>1, <2>3
    <3> QED
      BY <3>1
  <2>4. CASE i > p + q
    <3>1. ~dead /\ i = p + q + 1
      BY <1>0, <2>1, <2>4
    <3> QED
      BY <1>5, <3>1
  <2> QED
    BY <1>0, <2>1, <2>2, <2>3, <2>4
<1>9. ASSUME NEW i \in DOMAIN D PROVE D[i] = Status <=> i = p + q + 1
  <2>1. CASE i \in 1..p
    BY <1>0, <1>6, <2>1, OutputFacts
  <2>2. CASE \E j \in 1..q : i = p + j
    BY <1>0, <1>7, <2>2, OutputFacts
  <2> QED
    BY <1>8, <2>1, <2>2
<1>10. ASSUME NEW i \in DOMAIN D, NEW n \in Writes, D[i] = Output("stdout", n)
       PROVE  i = n /\ n \in 1..p
  <2>1. CASE i \in 1..p
    BY <1>0, <1>6, <1>10, <2>1, OutputFacts
  <2>2. CASE \E j \in 1..q : i = p + j
    <3>1. PICK j \in 1..q : i = p + j
      BY <2>2
    <3> QED
      BY <1>0, <1>7, <1>10, <3>1, OutputFacts
  <2>3. CASE D[i] = Status
    BY <1>0, <1>10, <2>3, OutputFacts
  <2> QED
    BY <1>8, <2>1, <2>2, <2>3
<1>11. ASSUME NEW i \in DOMAIN D, NEW n \in Writes, D[i] = Output("stderr", n)
       PROVE  i = p + n /\ n \in 1..q
  <2>1. CASE i \in 1..p
    BY <1>0, <1>6, <1>11, <2>1, OutputFacts
  <2>2. CASE \E j \in 1..q : i = p + j
    <3>1. PICK j \in 1..q : i = p + j
      BY <2>2
    <3> QED
      BY <1>0, <1>7, <1>11, <3>1, OutputFacts
  <2>3. CASE D[i] = Status
    BY <1>0, <1>11, <2>3, OutputFacts
  <2> QED
    BY <1>8, <2>1, <2>2, <2>3
<1>12. On(D, "stdout") = A
  <2>1. Emitted(D, "stdout") = 1..p
    BY <1>6, <1>10 DEF Emitted
  <2>2. InOrder(D, "stdout")
    <3> SUFFICES ASSUME NEW i \in DOMAIN D, NEW n \in Writes, D[i] = Output("stdout", n),
                        NEW m \in Writes
                 PROVE  m < n <=> \E j \in 1..(i - 1) : D[j] = Output("stdout", m)
      BY DEF InOrder
    <3>1. i = n /\ n \in 1..p
      BY <1>10
    <3>2. ASSUME m < n PROVE \E j \in 1..(i - 1) : D[j] = Output("stdout", m)
      <4>1. m \in 1..(i - 1) /\ m \in 1..p
        BY <1>0, <3>1, <3>2 DEF Writes
      <4> QED
        BY <1>6, <4>1
    <3>3. ASSUME NEW j \in 1..(i - 1), D[j] = Output("stdout", m) PROVE m < n
      <4>1. j \in DOMAIN D
        BY <1>0, <1>5, <3>1
      <4>2. j = m
        BY <1>10, <3>3, <4>1
      <4> QED
        BY <1>0, <3>1, <4>2
    <3> QED
      BY <3>2, <3>3
  <2>3. PICK m \in 0..MaxWrites : On(D, "stdout") = FirstN("stdout", m)
                                  /\ Emitted(D, "stdout") = 1..m
    BY <1>0, <1>5, <2>2, InOrderIsFirst
  <2>4. m = p
    BY <1>0, <2>1, <2>3, IntervalsDiffer, BoundsAssumption
  <2> QED
    BY <2>3, <2>4 DEF A
<1>13. On(D, "stderr") = B
  <2>1. Emitted(D, "stderr") = 1..q
    BY <1>7, <1>11 DEF Emitted
  <2>2. InOrder(D, "stderr")
    <3> SUFFICES ASSUME NEW i \in DOMAIN D, NEW n \in Writes, D[i] = Output("stderr", n),
                        NEW m \in Writes
                 PROVE  m < n <=> \E j \in 1..(i - 1) : D[j] = Output("stderr", m)
      BY DEF InOrder
    <3>1. i = p + n /\ n \in 1..q
      BY <1>11
    <3>2. ASSUME m < n PROVE \E j \in 1..(i - 1) : D[j] = Output("stderr", m)
      <4>1. p + m \in 1..(i - 1) /\ m \in 1..q
        BY <1>0, <3>1, <3>2 DEF Writes
      <4> QED
        BY <1>7, <4>1
    <3>3. ASSUME NEW j \in 1..(i - 1), D[j] = Output("stderr", m) PROVE m < n
      <4>1. j \in DOMAIN D
        BY <1>0, <1>5, <3>1
      <4>2. j = p + m /\ m \in Nat
        BY <1>11, <3>3, <4>1
      <4> QED
        BY <1>0, <3>1, <4>2
    <3> QED
      BY <3>2, <3>3
  <2>3. PICK m \in 0..MaxWrites : On(D, "stderr") = FirstN("stderr", m)
                                  /\ Emitted(D, "stderr") = 1..m
    BY <1>0, <1>5, <2>2, InOrderIsFirst
  <2>4. m = q
    BY <1>0, <2>1, <2>3, IntervalsDiffer, BoundsAssumption
  <2> QED
    BY <2>3, <2>4 DEF B
<1> QED
  BY <1>0, <1>5, <1>9, <1>12, <1>13 DEF A, B, D, s

\* The JSON of a command tells all that was written.
LEMMA JsonIsDirect ==
  ASSUME ServerInv, response = "json"
  PROVE  /\ \A c \in Channels : written[c] \in 0..MaxWrites /\ ~Open(c)
         /\ OnChannel("stdout") \o OnChannel("stderr") \o (IF killed THEN <<>> ELSE <<Status>>)
              = Direct(written["stdout"], written["stderr"], killed)
<1>1. PICK i \in DOMAIN received : received[i] = Status
  BY DEF ServerInv, StatusPlace, HasStatus
<1>2. \A c \in Channels : OnChannel(c) = FirstN(c, written[c]) /\ ~Open(c)
  BY <1>1, StatusIsTheEnd
<1> QED
  BY <1>2 DEF ServerInv, TypeOK, Direct, Channels

\* A JSON answer is read at once.
LEMMA ReadDirectStep ==
  ASSUME ServerInv, ClientInv, ReadDirect
  PROVE  ClientInv'
<1> DEFINE p == written["stdout"]
           q == written["stderr"]
<1>1. /\ outcome = "open" /\ response = "json"
      /\ outcome' = IF killed THEN "failed" ELSE "ok"
      /\ decoded' = OnChannel("stdout") \o OnChannel("stderr")
                      \o (IF killed THEN <<>> ELSE <<Status>>)
      /\ UNCHANGED <<killed, taken, buffer, done>> /\ UNCHANGED vars
  BY DEF ReadDirect, serverVars
<1>2. received' = received /\ response' = response
  BY <1>1 DEF vars, answerVars
<1>3. p \in 0..MaxWrites /\ q \in 0..MaxWrites /\ killed \in BOOLEAN /\ decoded' = Direct(p, q, killed)
  BY <1>1, JsonIsDirect DEF Channels, ClientInv, ClientTypes
<1>4. /\ decoded' \in Seq(Events)
      /\ DOMAIN decoded' = 1..(IF killed THEN p + q ELSE p + q + 1)
      /\ \A i \in DOMAIN decoded' : decoded'[i] = Status <=> i = p + q + 1
  BY <1>3, DirectIs
<1>5. HasStatus(decoded)' <=> ~killed
  <2> HIDE DEF p, q
  <2>1. p \in Nat /\ q \in Nat
    BY <1>3, BoundsAssumption
  <2>2. ~killed => p + q + 1 \in DOMAIN decoded'
    BY <1>4, <2>1
  <2>3. killed => p + q + 1 \notin DOMAIN decoded'
    BY <1>4, <2>1
  <2> QED
    BY <1>4, <2>2, <2>3 DEF HasStatus
<1>6. Wire' = Wire
  BY <1>2, WireIs
<1>7. ClientTypes'
  BY <1>1, <1>4, <1>6 DEF ClientInv, ClientTypes
<1>8. DecodedPrefix' /\ DecodedCut'
  BY <1>1, <1>2 DEF DecodedPrefix, DecodedCut
<1>9. Verdict'
  BY <1>1, <1>2, <1>5 DEF Verdict
<1>10. DecodedDirect'
  BY <1>1, <1>2 DEF DecodedDirect, OnChannel
<1> QED
  BY <1>7, <1>8, <1>9, <1>10 DEF ClientInv

\* A lost connection changes nothing of what was decoded.
LEMMA LoseStep ==
  ASSUME ServerInv, ClientInv, Lose
  PROVE  ClientInv'
<1>1. /\ outcome = "open" /\ outcome' = "lost"
      /\ UNCHANGED <<killed, taken, buffer, done, decoded>> /\ UNCHANGED vars
  BY DEF Lose, serverVars
<1>2. received' = received /\ response' = response
  BY <1>1 DEF vars, answerVars
<1>3. Wire' = Wire
  BY <1>2, WireIs
<1>4. ClientTypes'
  BY <1>1, <1>3 DEF ClientInv, ClientTypes
<1>5. DecodedPrefix' /\ DecodedCut' /\ Verdict' /\ DecodedDirect'
  BY <1>1, <1>2 DEF ClientInv, DecodedPrefix, DecodedCut, Verdict, DecodedDirect
<1> QED
  BY <1>4, <1>5 DEF ClientInv

\* A step of nobody.
LEMMA StutterStep ==
  ASSUME ServerInv, ClientInv, UNCHANGED allVars
  PROVE  ClientInv'
<1>1. UNCHANGED <<killed, taken, buffer, done, decoded, outcome, received, response>>
  BY DEF allVars, clientVars, serverVars, vars, answerVars
<1>2. Wire' = Wire
  BY <1>1, WireIs
<1>3. ClientTypes'
  BY <1>1, <1>2 DEF ClientInv, ClientTypes
<1>4. DecodedPrefix' /\ DecodedCut' /\ Verdict' /\ DecodedDirect'
  BY <1>1 DEF ClientInv, DecodedPrefix, DecodedCut, Verdict, DecodedDirect, OnChannel
<1> QED
  BY <1>3, <1>4 DEF ClientInv

CallInv == ServerInv /\ ClientInv

\* Every step of the call.
LEMMA CallStep == CallInv /\ [CallNext]_allVars => CallInv'
<1> SUFFICES ASSUME ServerInv, ClientInv, [CallNext]_allVars
             PROVE  ServerInv' /\ ClientInv'
  BY DEF CallInv
<1>1. CASE Serve
  BY <1>1, ServerStep, ServeStep DEF Serve
<1>2. CASE ReadChunk
  <2>1. UNCHANGED vars
    BY <1>2 DEF ReadChunk, serverVars
  <2> QED
    BY <1>2, <2>1, ServerStep, ReadChunkStep
<1>3. CASE ReadEnd
  <2>1. UNCHANGED vars
    BY <1>3 DEF ReadEnd, serverVars
  <2> QED
    BY <1>3, <2>1, ServerStep, ReadEndStep
<1>4. CASE ReadDirect
  <2>1. UNCHANGED vars
    BY <1>4 DEF ReadDirect, serverVars
  <2> QED
    BY <1>4, <2>1, ServerStep, ReadDirectStep
<1>5. CASE Lose
  <2>1. UNCHANGED vars
    BY <1>5 DEF Lose, serverVars
  <2> QED
    BY <1>5, <2>1, ServerStep, LoseStep
<1>6. CASE Notice
  BY <1>6, ServerStep, ServeStep DEF Notice
<1>7. CASE UNCHANGED allVars
  <2>1. UNCHANGED vars
    BY <1>7 DEF allVars, serverVars
  <2> QED
    BY <1>7, <2>1, ServerStep, StutterStep
<1> QED
  BY <1>1, <1>2, <1>3, <1>4, <1>5, <1>6, <1>7 DEF CallNext, CallOver

\* What is given to the caller, as GivenIsTrue has it of one operation.
Told(s) ==
  /\ \A c \in Channels : IsPrefix(On(s, c), FirstN(c, written[c]))
  /\ \A i \in DOMAIN s :
       s[i] = Status =>
         /\ i = Len(s) /\ ~killed
         /\ \A c \in Channels : On(s, c) = FirstN(c, written[c]) /\ ~Open(c)

\* A caller who was given nothing was told nothing wrong.
LEMMA NothingTold == ServerInv => Told(<<>>)
<1> SUFFICES ASSUME ServerInv PROVE Told(<<>>)
  OBVIOUS
<1> DEFINE none == <<>>
<1>1. none \in Seq(Events) /\ Len(none) = 0 /\ DOMAIN none = {} /\ Len(received) \in Nat
  BY DEF ServerInv, TypeOK
<1> HIDE DEF none
<1>2. \A c \in Channels : IsPrefix(On(none, c), FirstN(c, written[c]))
  <2>1. Len(none) <= Len(received) /\ \A i \in 1..Len(none) : none[i] = received[i]
    BY <1>1
  <2> QED
    BY <1>1, <2>1, PrefixInOrder
<1>3. Told(none)
  BY <1>1, <1>2 DEF Told
<1> QED
  BY <1>3 DEF none

\* Nor was one who was given what is decoded.
LEMMA DecodedTold == ServerInv /\ ClientInv => Told(decoded)
<1> SUFFICES ASSUME ServerInv, ClientInv PROVE Told(decoded)
  OBVIOUS
<1>0. /\ decoded \in Seq(Events) /\ received \in Seq(Events)
      /\ killed \in BOOLEAN /\ outcome \in {"open", "ok", "failed", "lost"}
      /\ HasStatus(decoded) => ~killed
  BY DEF ServerInv, TypeOK, ClientInv, ClientTypes, Verdict
<1>1. CASE response # "json" \/ outcome \in {"open", "lost"}
  <2>1. Len(decoded) <= Len(received) /\ \A i \in 1..Len(decoded) : decoded[i] = received[i]
    BY <1>1 DEF ClientInv, DecodedPrefix
  <2>2. \A c \in Channels : IsPrefix(On(decoded, c), FirstN(c, written[c]))
    BY <1>0, <2>1, PrefixInOrder
  <2>3. ASSUME NEW i \in DOMAIN decoded, decoded[i] = Status
        PROVE  /\ i = Len(decoded) /\ ~killed
               /\ \A c \in Channels : On(decoded, c) = FirstN(c, written[c]) /\ ~Open(c)
    <3>1. HasStatus(decoded)
      BY <2>3 DEF HasStatus
    <3>2. Len(decoded) = Len(received)
      BY <1>0, <2>1, <3>1, StatusComesLast
    <3>3. decoded = received
      BY <1>0, <2>1, <3>2
    <3> QED
      BY <1>0, <2>3, <3>1, <3>3, StatusIsTheEnd DEF OnChannel
  <2> QED
    BY <2>2, <2>3 DEF Told
<1>2. CASE response = "json" /\ outcome \in {"ok", "failed"}
  <2> DEFINE p == written["stdout"]
             q == written["stderr"]
  <2>1. decoded = Direct(p, q, killed) /\ p \in 0..MaxWrites /\ q \in 0..MaxWrites
        /\ \A c \in Channels : ~Open(c)
    BY <1>2, JsonIsDirect DEF ClientInv, DecodedDirect, Channels
  <2>2. \A c \in Channels : On(decoded, c) = FirstN(c, written[c])
    BY <1>0, <2>1, DirectIs DEF Channels
  <2>3. \A c \in Channels : IsPrefix(FirstN(c, written[c]), FirstN(c, written[c]))
    <3> SUFFICES ASSUME NEW c \in Channels PROVE IsPrefix(FirstN(c, written[c]), FirstN(c, written[c]))
      OBVIOUS
    <3>1. written[c] \in 0..MaxWrites /\ written[c] \in 0..written[c]
      BY BoundsAssumption DEF ServerInv, TypeOK
    <3> QED
      BY <3>1, FirstNFacts
  <2>4. ASSUME NEW i \in DOMAIN decoded, decoded[i] = Status PROVE i = Len(decoded) /\ ~killed
    <3>1. ~killed
      BY <1>0, <2>4 DEF HasStatus
    <3> QED
      BY SMTT(40), <1>0, <2>1, <2>4, <3>1, DirectIs
  <2> QED
    BY <2>1, <2>2, <2>3, <2>4 DEF Told
<1> QED
  BY <1>0, <1>1, <1>2

\* The invariant implies what the caller is promised.
LEMMA CallSafe == CallInv => CallerIsToldTheTruth
<1> SUFFICES ASSUME ServerInv, ClientInv PROVE CallerIsToldTheTruth
  BY DEF CallInv
<1>1. ClientTypeOK
  BY DEF ServerInv, ClientInv, ClientTypes, ClientTypeOK
<1>2. GivenIsTrue
  <2> SUFFICES ASSUME NEW o \in Operations
               PROVE  Told(Given(o)) /\ (outcome = "ok" => Status \in Range(Given(o)))
    BY DEF GivenIsTrue, GivenOn, Told
  <2>1. Told(Given(o))
    BY NothingTold, DecodedTold DEF Given
  <2>2. outcome = "ok" => Status \in Range(Given(o))
    <3>1. outcome = "ok" => Given(o) = decoded /\ HasStatus(decoded)
      BY DEF Given, ClientInv, Verdict
    <3> QED
      BY <3>1 DEF HasStatus, Range
  <2> QED
    BY <2>1, <2>2
<1>3. FailsForAReason
  BY DEF ClientInv, Verdict, FailsForAReason
<1> QED
  BY <1>1, <1>2, <1>3, ServerSafe DEF CallerIsToldTheTruth

\* The invariant of server and client.
LEMMA CallInvariant == CallSpec => []CallInv
<1>1. ClientInit => CallInv
  BY InitServer, InitClient DEF ClientInit, CallInv
<1> QED
  BY <1>1, CallStep, PTL DEF CallSpec

\* The answer of `POST /exec`, JSON or body, whatever the pumps, the waiter, the deadline
\* and the client do and in whichever order: each stream in its order and without a gap,
\* the one status last, and behind all that the command and its heirs ever wrote.
THEOREM ServerAnswersTruly == Safety => []AnswerIsTrue
<1>1. ServerInv /\ [Next]_vars => ServerInv'
  BY ServerStep DEF Next, Over
<1>2. Safety => []ServerInv
  BY <1>1, InitServer, PTL DEF Safety
<1> QED
  BY <1>2, ServerSafe, PTL

\* The call of the client: however the network cuts the answer up, and of whatever sizes a
\* frame's header and payload are, the caller of `stream` and of `result` is given what the
\* child wrote, is told of an end only when all of it has been given, and fails of a
\* connection that holds only when the child was killed.
THEOREM CallTellsTheTruth == CallSpec => []CallerIsToldTheTruth
BY CallInvariant, CallSafe, PTL

-----------------------------------------------------------------------------
(* The members of a set of numbers, in order.                              *)

\* A set of numbers with a bound is finite, and so is a part of it.
LEMMA BoundedIsFinite ==
  ASSUME NEW n \in Int, NEW S \in SUBSET (0..n)
  PROVE  IsFiniteSet(S) /\ Cardinality(S) \in Nat
<1>1. IsFiniteSet(0..n)
  BY FS_Interval
<1>2. IsFiniteSet(S)
  BY <1>1, FS_Subset
<1> QED
  BY <1>2, FS_CardinalityType

\* A number greater than all of a set comes after them.
LEMMA NthMore ==
  ASSUME NEW m \in Nat, NEW S \in SUBSET (0..(m - 1))
  PROVE  /\ Cardinality(S \cup {m}) = Cardinality(S) + 1
         /\ Nth(S \cup {m}, Cardinality(S) + 1) = m
         /\ \A k \in 1..Cardinality(S) : Nth(S \cup {m}, k) = Nth(S, k)
<1> DEFINE T == S \cup {m}
           UpTo(R, i) == {j \in R : j <= i}
<1>0. m - 1 \in Int /\ \A i \in S : i \in Nat /\ i < m
  OBVIOUS
<1>1. IsFiniteSet(S) /\ Cardinality(S) \in Nat /\ m \notin S
  <2>1. IsFiniteSet(S) /\ Cardinality(S) \in Nat
    BY <1>0, BoundedIsFinite
  <2> QED
    BY <1>0, <2>1
<1>2. Cardinality(T) = Cardinality(S) + 1
  BY <1>1, FS_AddElement
<1>3. UpTo(T, m) = T
  <2>1. \A j \in T : j <= m
    BY <1>0
  <2> HIDE DEF T
  <2> QED
    BY <2>1
<1>4. ASSUME NEW i \in S PROVE UpTo(T, i) = UpTo(S, i) /\ Cardinality(UpTo(S, i)) <= Cardinality(S)
  <2>1. UpTo(T, i) = UpTo(S, i) /\ UpTo(S, i) \in SUBSET S
    BY <1>0
  <2> QED
    BY <1>1, <2>1, FS_Subset
<1>5. Nth(T, Cardinality(S) + 1) = m
  <2>1. \A i \in T : Cardinality(UpTo(T, i)) = Cardinality(S) + 1 <=> i = m
    <3> TAKE i \in T
    <3>1. CASE i = m
      BY <1>2, <1>3, <3>1
    <3>2. CASE i \in S
      <4>1. Cardinality(UpTo(S, i)) \in Nat
        <5>1. UpTo(S, i) \in SUBSET (0..(m - 1))
          OBVIOUS
        <5> QED
          BY <1>0, <5>1, BoundedIsFinite
      <4> HIDE DEF UpTo
      <4> QED
        BY <1>1, <1>4, <3>2, <4>1
    <3> QED
      BY <3>1, <3>2
  <2>2. m \in T
    OBVIOUS
  <2> QED
    BY <2>1, <2>2 DEF Nth
<1>6. ASSUME NEW k \in 1..Cardinality(S) PROVE Nth(T, k) = Nth(S, k)
  <2>1. \A i : (i \in T /\ Cardinality(UpTo(T, i)) = k) <=> (i \in S /\ Cardinality(UpTo(S, i)) = k)
    <3> TAKE i
    <3>1. CASE i = m
      BY <1>1, <1>2, <1>3, <3>1
    <3>2. CASE i \in S
      BY <1>4, <3>2
    <3> QED
      BY <3>1, <3>2
  <2> HIDE DEF T
  <2>2. (CHOOSE i : i \in T /\ Cardinality(UpTo(T, i)) = k)
          = (CHOOSE i : i \in S /\ Cardinality(UpTo(S, i)) = k)
    <3> DEFINE P(i) == i \in T /\ Cardinality(UpTo(T, i)) = k
               Q(i) == i \in S /\ Cardinality(UpTo(S, i)) = k
    <3>1. \A i : P(i) <=> Q(i)
      BY <2>1
    <3> HIDE DEF P, Q
    <3>2. (CHOOSE i : P(i)) = (CHOOSE i : Q(i))
      BY <3>1
    <3> QED
      BY <3>2 DEF P, Q
  <2> QED
    BY <2>2 DEF Nth
<1> QED
  BY <1>2, <1>5, <1>6

\* The k-th of a set of numbers is one of them, and k of them are not greater.
LEMMA NthIs ==
  ASSUME NEW n \in Int, NEW S \in SUBSET (0..n), NEW k \in 1..Cardinality(S)
  PROVE  Nth(S, k) \in S /\ Cardinality({j \in S : j <= Nth(S, k)}) = k
<1> DEFINE UpTo(R, i) == {j \in R : j <= i}
           Has(R, i) == \E x \in R : Cardinality(UpTo(R, x)) = i
           Top == IF n < 0 THEN 0 ELSE n + 1
           Good == {m \in 0..Top : \A R \in SUBSET (0..(m - 1)) : \A i \in 1..Cardinality(R) : Has(R, i)}
<1>0. Top \in Nat /\ S \in SUBSET (0..(Top - 1))
  OBVIOUS
<1> HIDE DEF Top
<1>1. 0 \in Good
  <2>1. ASSUME NEW R \in SUBSET (0..(0 - 1)) PROVE 1..Cardinality(R) = {}
    <3>1. R = {}
      OBVIOUS
    <3> QED
      BY <3>1, FS_EmptySet
  <2> HIDE DEF Has
  <2> QED
    BY <1>0, <2>1
<1>2. ASSUME NEW m \in 1..Top, m - 1 \in Good PROVE m \in Good
  <2>1. ASSUME NEW R \in SUBSET (0..(m - 1)), NEW i \in 1..Cardinality(R) PROVE Has(R, i)
    <3> DEFINE L == R \ {m - 1}
    <3>1. L \in SUBSET (0..((m - 1) - 1)) /\ m - 1 \in Nat /\ m \in Nat
      BY <1>0
    <3>2. \A j \in 1..Cardinality(L) : Has(L, j)
      BY <1>2, <3>1
    <3>3. CASE m - 1 \in R
      <4>1. R = L \cup {m - 1}
        BY <3>3
      <4>2. Cardinality(L) \in Nat
        <5>1. (m - 1) - 1 \in Int
          BY <3>1
        <5> HIDE DEF L
        <5> QED
          BY <3>1, <5>1, BoundedIsFinite
      <4>3. Cardinality(R) = Cardinality(L) + 1
        <5> HIDE DEF L
        <5> QED
          BY <3>1, <4>1, NthMore
      <4>4. CASE i = Cardinality(R)
        <5>1. UpTo(R, m - 1) = R
          <6>1. \A j \in R : j \in Int /\ j <= m - 1
            BY <3>1
          <6> QED
            BY <6>1
        <5> QED
          BY <3>3, <4>4, <5>1
      <4>5. CASE i \in 1..Cardinality(L)
        <5>1. PICK x \in L : Cardinality(UpTo(L, x)) = i
          BY <3>2, <4>5
        <5>2. UpTo(R, x) = UpTo(L, x) /\ x \in R
          BY <3>1
        <5> QED
          BY <5>1, <5>2
      <4> HIDE DEF L, Has
      <4> QED
        BY <4>2, <4>3, <4>4, <4>5
    <3>4. CASE m - 1 \notin R
      <4>1. R = L
        BY <3>4
      <4> HIDE DEF L, Has
      <4> QED
        BY <3>2, <4>1
    <3> HIDE DEF L, Has
    <3> QED
      BY <3>3, <3>4
  <2> HIDE DEF Has
  <2> QED
    BY <2>1
<1>3. Top \in Good
  <2> HIDE DEF Good
  <2>1. 0..Top \subseteq Good
    BY <1>0, <1>1, <1>2, Climb
  <2> QED
    BY <1>0, <2>1
<1>4. Has(S, k)
  <2> HIDE DEF Has
  <2> QED
    BY <1>0, <1>3
<1> QED
  BY <1>4 DEF Nth

\* The first of a set that holds 0 is 0, its last is its greatest, and they go up.
LEMMA NthOrder ==
  ASSUME NEW n \in Int, NEW S \in SUBSET (0..n)
  PROVE  /\ 0 \in S => Nth(S, 1) = 0
         /\ \A i \in S : (\A j \in S : j <= i) => Nth(S, Cardinality(S)) = i
         /\ \A k \in 1..(Cardinality(S) - 1) : Nth(S, k) < Nth(S, k + 1)
<1> DEFINE UpTo(i) == {j \in S : j <= i}
<1>0. \A i \in S : i \in Nat
  OBVIOUS
<1>1. IsFiniteSet(S) /\ Cardinality(S) \in Nat
  BY BoundedIsFinite
<1>2. \A i : IsFiniteSet(UpTo(i)) /\ Cardinality(UpTo(i)) \in Nat
  <2> TAKE i
  <2>1. UpTo(i) \in SUBSET (0..n)
    OBVIOUS
  <2> QED
    BY <2>1, BoundedIsFinite
<1>3. \A k \in 1..Cardinality(S) : Nth(S, k) \in S /\ Cardinality(UpTo(Nth(S, k))) = k
  BY NthIs
<1>4. S # {} => 1 \in 1..Cardinality(S) /\ Cardinality(S) \in 1..Cardinality(S)
  BY <1>1, FS_EmptySet
<1>5. ASSUME 0 \in S PROVE Nth(S, 1) = 0
  <2> DEFINE x == Nth(S, 1)
  <2>1. x \in S /\ Cardinality(UpTo(x)) = 1
    BY <1>3, <1>4, <1>5
  <2>2. PICK y : UpTo(x) = {y}
    <3> HIDE DEF UpTo, x
    <3> QED
      BY <1>2, <2>1, FS_Singleton
  <2>3. x \in UpTo(x) /\ 0 \in UpTo(x)
    <3>1. x <= x /\ 0 <= x
      <4>1. x \in Nat
        BY <1>0, <2>1
      <4> HIDE DEF x
      <4> QED
        BY <4>1
    <3> QED
      BY <1>5, <2>1, <3>1
  <2> QED
    BY <2>2, <2>3
<1>6. ASSUME NEW i \in S, \A j \in S : j <= i PROVE Nth(S, Cardinality(S)) = i
  <2> DEFINE x == Nth(S, Cardinality(S))
  <2>1. x \in S /\ Cardinality(UpTo(x)) = Cardinality(S)
    BY <1>3, <1>4, <1>6
  <2>2. UpTo(x) \in SUBSET S
    OBVIOUS
  <2>3. UpTo(x) = S
    <3> HIDE DEF UpTo, x
    <3> QED
      BY <1>1, <2>1, <2>2, FS_Subset
  <2>4. i <= x /\ x <= i
    BY <1>6, <2>1, <2>3
  <2>5. i \in Nat /\ x \in Nat
    BY <1>0, <2>1
  <2> QED
    BY <2>4, <2>5
<1>7. ASSUME NEW k \in 1..(Cardinality(S) - 1) PROVE Nth(S, k) < Nth(S, k + 1)
  <2> DEFINE x == Nth(S, k)
             y == Nth(S, k + 1)
  <2>1. x \in S /\ y \in S /\ Cardinality(UpTo(x)) = k /\ Cardinality(UpTo(y)) = k + 1
    BY <1>1, <1>3
  <2> HIDE DEF x, y
  <2>2. CASE y <= x
    <3>1. UpTo(y) \in SUBSET UpTo(x)
      <4>1. \A j \in S : j <= y => j <= x
        BY <1>0, <2>1, <2>2
      <4> QED
        BY <4>1
    <3>2. Cardinality(UpTo(y)) <= Cardinality(UpTo(x))
      <4> HIDE DEF UpTo
      <4> QED
        BY <1>2, <3>1, FS_Subset
    <3> QED
      BY <1>1, <2>1, <3>2
  <2> QED
    <3>1. x \in Nat /\ y \in Nat
      BY <1>0, <2>1
    <3> QED
      BY <2>2, <3>1 DEF x, y
<1> QED
  BY <1>5, <1>6, <1>7

-----------------------------------------------------------------------------
(* Lines.  One more character of a text ends one line at most.             *)

\* The greatest of a set that has one.
LEMMA MaxIs ==
  ASSUME NEW S \in SUBSET Nat, NEW m \in S, \A i \in S : i <= m
  PROVE  Max(S) = m
<1>1. \A x \in S : (\A y \in S : x >= y) => x = m
  OBVIOUS
<1> QED
  BY <1>1 DEF Max

\* A text ends in a carriage return, which is held back.
Held(text) == text # <<>> /\ text[Len(text)] = CR

\* The end of a line that x makes of a text.
NewEnd(text, x) ==
  IF Held(text) THEN {Len(text)} ELSE IF x = LF THEN {Len(text) + 1} ELSE {}

\* The ends of a text with one character more.
LEMMA EndsMore ==
  ASSUME NEW S, NEW t \in Seq(S), NEW x \in S
  PROVE  /\ Ends(t) \in SUBSET (1..Len(t))
         /\ Held(t) => Ends(t) \in SUBSET (1..(Len(t) - 1))
         /\ Ends(Append(t, x)) = Ends(t) \cup NewEnd(t, x)
<1> DEFINE u == Append(t, x)
           n == Len(t)
<1>1. n \in Nat /\ Len(u) = n + 1 /\ u \in Seq(S) /\ u[n + 1] = x /\ \A i \in 1..n : u[i] = t[i]
  OBVIOUS
<1>2. DOMAIN t = 1..n /\ DOMAIN u = 1..(n + 1)
  BY <1>1
<1>3. t # <<>> <=> n > 0
  BY <1>1
<1>4. CR # LF
  BY DEF CR, LF
<1> HIDE DEF u, n
<1>5. \A i \in 1..n : i \in Ends(t) <=> (t[i] = CR /\ i < n) \/ (t[i] = LF /\ ~After(t, i, CR))
  BY <1>2 DEF Ends, n
<1>6. \A i \in 1..(n + 1) : i \in Ends(u) <=> (u[i] = CR /\ i < n + 1) \/ (u[i] = LF /\ ~After(u, i, CR))
  BY <1>1, <1>2 DEF Ends
<1>7. \A i \in 1..n : After(u, i, CR) = After(t, i, CR)
  <2> TAKE i \in 1..n
  <2>1. i # 1 => i - 1 \in 1..n
    BY <1>1
  <2> QED
    BY <1>1, <2>1 DEF After
<1>8. After(u, n + 1, CR) <=> Held(t)
  BY <1>1, <1>3 DEF After, Held, n
<1>9. Ends(t) \subseteq 1..n /\ Ends(u) \subseteq 1..(n + 1)
  BY <1>2 DEF Ends
<1>10. \A i \in 1..n : i \in Ends(u) <=> i \in Ends(t) \/ (i = n /\ Held(t))
  <2> TAKE i \in 1..n
  <2>1. i < n + 1 /\ (i < n <=> i # n) /\ i \in 1..(n + 1)
    BY <1>1
  <2>2. Held(t) <=> t[n] = CR
    BY <1>1, <1>3 DEF Held, n
  <2> QED
    BY <1>1, <1>4, <1>5, <1>6, <1>7, <2>1, <2>2
<1>11. n + 1 \in Ends(u) <=> x = LF /\ ~Held(t)
  <2>1. n + 1 \in 1..(n + 1) /\ ~(n + 1 < n + 1)
    BY <1>1
  <2> QED
    BY <1>1, <1>6, <1>8, <2>1
<1>12. Held(t) => n \notin Ends(t) /\ n \in 1..n
  <2>1. ~(n < n)
    BY <1>1
  <2> QED
    BY <1>1, <1>3, <1>4, <1>5, <2>1 DEF Held, n
<1>13. ASSUME Held(t) PROVE Ends(t) \in SUBSET (1..(n - 1))
  BY <1>1, <1>9, <1>12, <1>13
<1>14. Ends(u) = Ends(t) \cup NewEnd(t, x)
  <2>1. \A i : i \in Ends(u) <=> i \in Ends(t) \cup NewEnd(t, x)
    <3> TAKE i
    <3>1. CASE i \in 1..n
      BY <1>1, <1>10, <3>1 DEF NewEnd, n
    <3>2. CASE i = n + 1
      BY <1>1, <1>9, <1>11, <3>2 DEF NewEnd, n
    <3>3. CASE i \notin 1..(n + 1)
      BY <1>1, <1>9, <1>12, <3>3 DEF NewEnd, n
    <3> QED
      BY <1>1, <3>1, <3>2, <3>3
  <2> QED
    BY <2>1
<1> QED
  BY <1>9, <1>13, <1>14 DEF u, n

\* The greatest of a set of numbers with a bound.
LEMMA MaxOfBounded ==
  ASSUME NEW n \in Nat, NEW S \in SUBSET (0..n), S # {}
  PROVE  Max(S) \in S /\ \A i \in S : i <= Max(S)
<1> DEFINE T == {n - i : i \in S}
<1>1. \A i \in S : i \in Nat /\ i <= n
  OBVIOUS
<1>2. T \in SUBSET Nat /\ T # {}
  <2>1. \A i \in S : n - i \in Nat
    BY <1>1
  <2> QED
    BY <2>1
<1>3. PICK x \in T : \A y \in T : x <= y
  <2> HIDE DEF T
  <2> QED
    BY <1>2, LeastOf
<1>4. PICK m \in S : x = n - m
  BY <1>3
<1>5. ASSUME NEW i \in S PROVE i <= m
  <2>1. x <= n - i
    BY <1>3
  <2> QED
    BY <1>1, <1>4, <2>1
<1>6. Max(S) = m
  BY <1>1, <1>5, MaxIs
<1> QED
  BY <1>5, <1>6

\* What is before place i of a text has been taken up to these.
Pasts(text, i) == {0} \cup {Past(text, j) : j \in {k \in Ends(text) : k < i}}

\* Where the line begins that is not complete.
Start(text) == From(text, Len(text) + 1)

\* A line is taken with its separator, and what is held back is not.
LEMMA PastIs ==
  ASSUME NEW S, NEW t \in Seq(S), NEW j \in Ends(t)
  PROVE  /\ Past(t, j) \in j..Len(t)
         /\ Held(t) => Past(t, j) <= Len(t) - 1
<1>1. Len(t) \in Nat /\ j \in 1..Len(t) /\ CR # LF
  BY DEF Ends, CR, LF
<1>2. t[j] = CR => j < Len(t)
  BY DEF Ends, CR, LF
<1>3. Held(t) => j <= Len(t) - 1 /\ t[Len(t)] = CR
  BY <1>1, EndsMore, ElementOfSeq DEF Held
<1>4. CASE t[j] = CR /\ t[j + 1] = LF
  BY <1>1, <1>2, <1>3, <1>4 DEF Past
<1>5. CASE ~(t[j] = CR /\ t[j + 1] = LF)
  BY <1>1, <1>2, <1>3, <1>5 DEF Past
<1> QED
  BY <1>4, <1>5

\* That is a place of the text, or the one after it.
LEMMA StartIs ==
  ASSUME NEW S, NEW t \in Seq(S)
  PROVE  /\ \A i : Pasts(t, i) \in SUBSET (0..Len(t)) /\ From(t, i) \in 1..(Len(t) + 1)
         /\ \A i \in Ends(t) : From(t, i) <= i
         /\ Start(t) = 1 + Max(Pasts(t, Len(t) + 1))
         /\ Held(t) => Start(t) <= Len(t)
<1>1. Len(t) \in Nat
  OBVIOUS
<1>2. \A j \in Ends(t) : Past(t, j) \in j..Len(t) /\ j \in 1..Len(t) /\ (Held(t) => Past(t, j) <= Len(t) - 1)
  BY PastIs DEF Ends
<1>3. ASSUME NEW i
      PROVE  /\ Pasts(t, i) \in SUBSET (0..Len(t)) /\ From(t, i) = 1 + Max(Pasts(t, i))
             /\ Max(Pasts(t, i)) \in Pasts(t, i)
  <2>1. Pasts(t, i) \in SUBSET (0..Len(t)) /\ Pasts(t, i) # {}
    BY <1>1, <1>2 DEF Pasts
  <2>2. Max(Pasts(t, i)) \in Pasts(t, i)
    BY <1>1, <2>1, MaxOfBounded
  <2> QED
    BY <2>1, <2>2 DEF From, Pasts
<1>4. ASSUME NEW i PROVE From(t, i) \in 1..(Len(t) + 1)
  <2>1. Max(Pasts(t, i)) \in 0..Len(t)
    BY <1>3
  <2> QED
    BY <1>1, <1>3, <2>1
<1>5. ASSUME NEW i \in Ends(t) PROVE From(t, i) <= i
  <2>1. ASSUME NEW p \in Pasts(t, i) PROVE p < i
    <3>1. CASE p = 0
      BY <1>2, <3>1
    <3>2. CASE p # 0
      <4>1. PICK j \in Ends(t) : j < i /\ p = Past(t, j)
        BY <3>2 DEF Pasts
      <4>2. Past(t, j) \in {j, j + 1}
        BY <4>1 DEF Past
      <4>3. Past(t, j) = j + 1 => t[j] = CR /\ t[j + 1] = LF
        BY <1>2 DEF Past
      <4>4. CR # LF
        BY DEF CR, LF
      <4>5. ~(t[j] = CR /\ t[i] = LF /\ i = j + 1)
        <5>1. SUFFICES ASSUME t[j] = CR, t[i] = LF, i = j + 1 PROVE FALSE
          OBVIOUS
        <5>2. i # 1 /\ i - 1 = j
          BY <1>2, <5>1
        <5>3. After(t, i, CR)
          BY <5>1, <5>2 DEF After
        <5> QED
          BY <4>4, <5>1, <5>3 DEF Ends
      <4> QED
        BY <1>2, <4>1, <4>2, <4>3, <4>5
    <3> QED
      BY <3>1, <3>2
  <2> QED
    BY <1>2, <1>3, <2>1
<1>6. ASSUME Held(t) PROVE Start(t) <= Len(t)
  <2>1. Len(t) > 0
    BY <1>6 DEF Held
  <2>2. \A p \in Pasts(t, Len(t) + 1) : p <= Len(t) - 1
    BY <1>1, <1>2, <1>6, <2>1 DEF Pasts
  <2>3. Max(Pasts(t, Len(t) + 1)) \in 0..Len(t)
    BY <1>3
  <2> QED
    BY <1>1, <1>3, <2>2, <2>3 DEF Start
<1> QED
  BY <1>3, <1>4, <1>5, <1>6 DEF Start

\* The lines that were complete before another character begin where they did, and the one that
\* it ends where what was not complete began.
LEMMA StartMore ==
  ASSUME NEW S, NEW t \in Seq(S), NEW x \in S
  PROVE  LET u == Append(t, x) IN
         /\ \A i \in Ends(t) : From(u, i) = From(t, i)
         /\ \A m \in NewEnd(t, x) : From(u, m) = Start(t) /\ Start(u) = 1 + Past(u, m)
         /\ NewEnd(t, x) = {} => Start(u) = Start(t)
<1> DEFINE u == Append(t, x)
           n == Len(t)
<1>1. n \in Nat /\ Len(u) = n + 1 /\ u \in Seq(S) /\ \A i \in 1..n : u[i] = t[i]
  OBVIOUS
<1> HIDE DEF u
<1>2. /\ Ends(t) \in SUBSET (1..n)
      /\ Held(t) => Ends(t) \in SUBSET (1..(n - 1))
      /\ Ends(u) = Ends(t) \cup NewEnd(t, x)
  BY EndsMore DEF u
<1> HIDE DEF n
<1>3. \A m \in NewEnd(t, x) : m \in Nat /\ m >= n /\ m <= n + 1 /\ NewEnd(t, x) = {m}
  BY <1>1 DEF NewEnd, n
<1>4. \A m \in NewEnd(t, x), i \in Ends(t) : i < m
  BY <1>1, <1>2 DEF NewEnd, n
<1>5. ASSUME NEW i \in Ends(t) PROVE Past(u, i) = Past(t, i)
  <2>1. t[i] = CR => i + 1 \in 1..n
    <3>1. t[i] = CR => i < n
      BY <1>5 DEF Ends, CR, LF, n
    <3> QED
      BY <1>1, <1>2, <3>1
  <2>2. i \in 1..n
    BY <1>2
  <2> QED
    BY <1>1, <2>1, <2>2 DEF Past
<1>6. ASSUME NEW i \in Ends(t) PROVE From(u, i) = From(t, i)
  <2>1. {k \in Ends(u) : k < i} = {k \in Ends(t) : k < i}
    <3>1. \A m \in NewEnd(t, x) : ~(m < i)
      BY <1>1, <1>2, <1>3, <1>4
    <3> QED
      BY <1>2, <3>1
  <2>2. Pasts(u, i) = Pasts(t, i)
    BY <1>5, <2>1 DEF Pasts
  <2> QED
    BY <2>2 DEF From, Pasts
<1>7. Pasts(t, n + 1) = {0} \cup {Past(t, j) : j \in Ends(t)}
  <2>1. {k \in Ends(t) : k < n + 1} = Ends(t)
    BY <1>1, <1>2
  <2> QED
    BY <2>1 DEF Pasts
<1>8. Pasts(u, n + 2) = {0} \cup {Past(u, j) : j \in Ends(u)}
  <2>1. \A k \in Ends(u) : k < n + 2
    BY <1>1, <1>2, <1>3
  <2>2. {k \in Ends(u) : k < n + 2} = Ends(u)
    BY <2>1
  <2> QED
    BY <2>2 DEF Pasts
<1>9. ASSUME NEW m \in NewEnd(t, x) PROVE From(u, m) = Start(t)
  <2>1. {k \in Ends(u) : k < m} = Ends(t)
    <3>1. ~(m < m)
      BY <1>3
    <3>2. \A k \in Ends(t) : k < m
      BY <1>4
    <3> QED
      BY <1>2, <1>3, <3>1, <3>2
  <2>2. Pasts(u, m) = Pasts(t, n + 1)
    BY <1>5, <1>7, <2>1 DEF Pasts
  <2> QED
    BY <2>2 DEF From, Pasts, Start, n
<1>10. Start(u) = 1 + Max(Pasts(u, n + 2))
  <2>1. Start(u) = 1 + Max(Pasts(u, Len(u) + 1))
    BY <1>1, StartIs
  <2>2. Len(u) + 1 = n + 2
    BY <1>1
  <2> QED
    BY <2>1, <2>2
<1>11. ASSUME NEW m \in NewEnd(t, x) PROVE Start(u) = 1 + Past(u, m)
  <2>1. m \in Ends(u)
    BY <1>2
  <2>2. Past(u, m) \in m..(n + 1)
    BY <1>1, <2>1, PastIs
  <2>3. Pasts(u, n + 2) \in SUBSET Nat
    <3>1. Pasts(u, n + 2) \in SUBSET (0..Len(u))
      BY <1>1, StartIs
    <3> QED
      BY <1>1, <3>1
  <2>4. \A p \in Pasts(u, n + 2) : p <= Past(u, m)
    <3> TAKE p \in Pasts(u, n + 2)
    <3>1. CASE p = 0
      BY <1>1, <1>3, <2>2, <3>1
    <3>2. CASE p # 0
      <4>1. PICK j \in Ends(u) : p = Past(u, j)
        BY <1>8, <3>2
      <4>2. CASE j = m
        BY <1>3, <2>2, <4>1, <4>2
      <4>3. CASE j # m
        <5>1. j \in Ends(t)
          BY <1>2, <1>3, <4>1, <4>3
        <5>2. p = Past(t, j) /\ Past(t, j) \in j..n /\ (Held(t) => Past(t, j) <= n - 1)
          BY <1>5, <4>1, <5>1, PastIs DEF n
        <5> QED
          BY <1>1, <1>3, <2>2, <5>2
      <4> QED
        BY <4>2, <4>3
    <3> QED
      BY <3>1, <3>2
  <2>5. Past(u, m) \in Pasts(u, n + 2)
    BY <1>8, <2>1
  <2>6. Max(Pasts(u, n + 2)) = Past(u, m)
    BY <2>3, <2>4, <2>5, MaxIs
  <2> QED
    BY <1>10, <2>6
<1>12. ASSUME NewEnd(t, x) = {} PROVE Start(u) = Start(t)
  <2>1. Ends(u) = Ends(t)
    BY <1>2, <1>12
  <2>2. Pasts(u, n + 2) = Pasts(t, n + 1)
    BY <1>5, <1>7, <1>8, <2>1
  <2>3. Start(t) = 1 + Max(Pasts(t, n + 1))
    BY StartIs DEF n
  <2> QED
    BY <1>10, <2>2, <2>3
<1> QED
  BY <1>6, <1>9, <1>11, <1>12 DEF u

\* What is held back of a text, and the lines that are complete in it.
Unfinished(text) == SubSeq(text, Start(text), Len(text))
Complete(text) ==
  [k \in 1..Cardinality(Ends(text)) |->
     LET i == Nth(Ends(text), k) IN SubSeq(text, From(text, i), i - 1)]

\* takeLines looks at its buffer and the chunk as one text.
LEMMA TakeLinesIs ==
  ASSUME NEW state, NEW chunk
  PROVE  TakeLines(state, chunk) =
           [buffer |-> Unfinished(state.buffer \o chunk),
            lines |-> state.lines \o Complete(state.buffer \o chunk)]
BY DEF TakeLines, Unfinished, Complete, Start

\* The buffer and the line that another character makes of a buffer.
Longer(b, x) ==
  IF Held(b) THEN IF x = LF THEN <<>> ELSE <<x>>
  ELSE IF x = LF THEN <<>> ELSE Append(b, x)
NewLine(b, x) ==
  IF Held(b) THEN <<SubSeq(b, 1, Len(b) - 1)>> ELSE IF x = LF THEN <<b>> ELSE <<>>

\* A part of a text with one character more is the same part, or one character more of it.
LEMMA PartMore ==
  ASSUME NEW S, NEW t \in Seq(S), NEW x \in S, NEW i \in 1..(Len(t) + 1), NEW j \in Int
  PROVE  /\ j <= Len(t) => SubSeq(t, i, j) \in Seq(S) /\ SubSeq(Append(t, x), i, j) = SubSeq(t, i, j)
         /\ SubSeq(Append(t, x), i, Len(t) + 1) = Append(SubSeq(t, i, Len(t)), x)
<1> DEFINE u == Append(t, x)
           n == Len(t)
<1>1. n \in Nat /\ Len(u) = n + 1 /\ u \in Seq(S) /\ u[n + 1] = x /\ \A k \in 1..n : u[k] = t[k] /\ t[k] \in S
  OBVIOUS
<1> HIDE DEF u, n
<1>2. i \in 1..(n + 1)
  BY DEF n
<1>3. ASSUME NEW h \in Int, h <= n
      PROVE  /\ SubSeq(t, i, h) \in Seq(S) /\ SubSeq(u, i, h) = SubSeq(t, i, h)
             /\ Len(SubSeq(t, i, h)) = (IF i <= h THEN h - i + 1 ELSE 0)
             /\ \A k \in 1..(h - i + 1) : SubSeq(t, i, h)[k] = t[i + k - 1]
  <2>1. \A k \in i..h : u[k] = t[k] /\ u[k] \in S /\ t[k] \in S
    BY <1>1, <1>2, <1>3
  <2>2. /\ SubSeq(t, i, h) \in Seq(S) /\ Len(SubSeq(t, i, h)) = (IF i <= h THEN h - i + 1 ELSE 0)
        /\ \A k \in 1..(h - i + 1) : SubSeq(t, i, h)[k] = t[i + k - 1]
    BY <1>2, <1>3, <2>1, SubSeqProperties
  <2>3. /\ SubSeq(u, i, h) \in Seq(S) /\ Len(SubSeq(u, i, h)) = (IF i <= h THEN h - i + 1 ELSE 0)
        /\ \A k \in 1..(h - i + 1) : SubSeq(u, i, h)[k] = u[i + k - 1]
    BY <1>2, <1>3, <2>1, SubSeqProperties
  <2>4. \A k \in 1..Len(SubSeq(u, i, h)) : SubSeq(u, i, h)[k] = SubSeq(t, i, h)[k]
    <3> TAKE k \in 1..Len(SubSeq(u, i, h))
    <3>1. k \in 1..(h - i + 1) /\ i + k - 1 \in i..h
      BY <1>2, <1>3, <2>3
    <3> QED
      BY <2>1, <2>2, <2>3, <3>1
  <2> QED
    BY <2>2, <2>3, <2>4, SeqEqual
<1>4. SubSeq(u, i, n + 1) = Append(SubSeq(t, i, n), x)
  <2>1. /\ SubSeq(t, i, n) \in Seq(S) /\ Len(SubSeq(t, i, n)) = n - i + 1
        /\ \A k \in 1..(n - i + 1) : SubSeq(t, i, n)[k] = t[i + k - 1]
    BY <1>1, <1>2, <1>3
  <2>2. \A k \in i..(n + 1) : u[k] \in S
    BY <1>1, <1>2
  <2>3. /\ SubSeq(u, i, n + 1) \in Seq(S) /\ Len(SubSeq(u, i, n + 1)) = (n - i + 1) + 1
        /\ \A k \in 1..((n + 1) - i + 1) : SubSeq(u, i, n + 1)[k] = u[i + k - 1]
    BY <1>1, <1>2, <2>2, SubSeqProperties
  <2> DEFINE a == Append(SubSeq(t, i, n), x)
  <2>4. /\ a \in Seq(S) /\ Len(a) = (n - i + 1) + 1 /\ a[(n - i + 1) + 1] = x
        /\ \A k \in 1..(n - i + 1) : a[k] = SubSeq(t, i, n)[k]
    <3> DEFINE s == SubSeq(t, i, n)
    <3>1. s \in Seq(S) /\ Len(s) = n - i + 1
      BY <2>1
    <3> HIDE DEF s
    <3>2. /\ Append(s, x) \in Seq(S) /\ Len(Append(s, x)) = (n - i + 1) + 1
          /\ Append(s, x)[(n - i + 1) + 1] = x /\ \A k \in 1..(n - i + 1) : Append(s, x)[k] = s[k]
      BY <1>1, <1>2, <3>1
    <3> QED
      BY <3>2 DEF s
  <2> HIDE DEF a
  <2>5. ASSUME NEW k \in 1..Len(a) PROVE a[k] = SubSeq(u, i, n + 1)[k]
    <3>1. k \in 1..((n + 1) - i + 1)
      BY <1>1, <1>2, <2>4
    <3>2. CASE k = (n - i + 1) + 1
      <4>1. i + k - 1 = n + 1
        BY <1>1, <1>2, <3>2
      <4> QED
        BY <1>1, <2>3, <2>4, <3>1, <3>2, <4>1
    <3>3. CASE k \in 1..(n - i + 1)
      <4>1. i + k - 1 \in 1..n
        BY <1>1, <1>2, <3>3
      <4> QED
        BY <1>1, <2>1, <2>3, <2>4, <3>1, <3>3, <4>1
    <3> QED
      BY <1>1, <1>2, <3>1, <3>2, <3>3
  <2> QED
    BY <2>3, <2>4, <2>5, SeqEqual DEF a
<1> QED
  BY <1>3, <1>4 DEF u, n

\* What is held back of a text is its last characters.
LEMMA TailIs ==
  ASSUME NEW S, NEW t \in Seq(S)
  PROVE  /\ Unfinished(t) \in Seq(S)
         /\ Held(Unfinished(t)) <=> Held(t)
         /\ Len(Unfinished(t)) = Len(t) + 1 - Start(t)
         /\ \A k \in 1..Len(Unfinished(t)) : Unfinished(t)[k] = t[Start(t) + k - 1]
<1> DEFINE n == Len(t)
           s == Start(t)
<1>1. n \in Nat /\ s \in 1..(n + 1) /\ (Held(t) => s <= n)
  BY StartIs DEF Start
<1>2. \A k \in s..n : t[k] \in S
  BY <1>1
<1> HIDE DEF n, s
<1>3. /\ SubSeq(t, s, n) \in Seq(S) /\ Len(SubSeq(t, s, n)) = n + 1 - s
      /\ \A k \in 1..(n - s + 1) : SubSeq(t, s, n)[k] = t[s + k - 1]
  BY <1>1, <1>2, SubSeqProperties
<1>4. Held(SubSeq(t, s, n)) <=> Held(t)
  <2> DEFINE b == SubSeq(t, s, n)
  <2>1. b # <<>> <=> s <= n
    <3>1. b \in Seq(S) /\ Len(b) = n + 1 - s
      BY <1>3
    <3> HIDE DEF b
    <3>2. b = <<>> <=> Len(b) = 0
      BY <3>1
    <3> QED
      BY <1>1, <3>1, <3>2
  <2>2. ASSUME s <= n PROVE b[Len(b)] = t[n] /\ t # <<>>
    <3>1. n + 1 - s \in 1..(n - s + 1) /\ s + (n + 1 - s) - 1 = n /\ n > 0
      BY <1>1, <2>2
    <3> QED
      BY <1>3, <3>1 DEF n
  <2> QED
    BY <1>1, <2>1, <2>2 DEF Held, n
<1> QED
  BY <1>1, <1>3, <1>4 DEF Unfinished, n, s

\* takeLines takes a text character by character: its buffer.
LEMMA TailMore ==
  ASSUME NEW S, NEW t \in Seq(S), NEW x \in S
  PROVE  Unfinished(Append(t, x)) = Longer(Unfinished(t), x)
<1> DEFINE u == Append(t, x)
           n == Len(t)
<1>1. n \in Nat /\ Len(u) = n + 1 /\ u \in Seq(S) /\ u[n + 1] = x /\ \A k \in 1..n : u[k] = t[k]
  OBVIOUS
<1> HIDE DEF u
<1>2. /\ \A m \in NewEnd(t, x) : Start(u) = 1 + Past(u, m)
      /\ NewEnd(t, x) = {} => Start(u) = Start(t)
  BY StartMore DEF u
<1>3. CR # LF
  BY DEF CR, LF
<1>4. Held(Unfinished(t)) <=> Held(t)
  BY TailIs
<1>5. SubSeq(u, n + 1, n + 1) = <<x>>
  <2>1. n + 1 \in 1..(Len(t) + 1) /\ n \in Int /\ n < n + 1
    BY <1>1
  <2>2. SubSeq(u, n + 1, n + 1) = Append(SubSeq(t, n + 1, n), x)
    BY <2>1, PartMore DEF u
  <2>3. SubSeq(t, n + 1, n) = <<>>
    BY <2>1, SubSeqEmpty
  <2>4. Append(<<>>, x) = <<x>>
    OBVIOUS
  <2> QED
    BY <2>2, <2>3, <2>4
<1>6. SubSeq(u, n + 2, n + 1) = <<>>
  BY <1>1, SubSeqEmpty
<1>7. CASE Held(t)
  <2>1. NewEnd(t, x) = {n} /\ n > 0 /\ u[n] = CR
    <3>1. n > 0
      BY <1>1, <1>7 DEF Held
    <3> QED
      BY <1>1, <1>7, <3>1 DEF Held, NewEnd
  <2>2. Start(u) = IF x = LF THEN n + 2 ELSE n + 1
    BY <1>1, <1>2, <2>1 DEF Past
  <2> QED
    BY <1>1, <1>4, <1>5, <1>6, <1>7, <2>2 DEF Unfinished, Longer, u
<1>8. CASE ~Held(t) /\ x = LF
  <2>1. NewEnd(t, x) = {n + 1}
    BY <1>8 DEF NewEnd
  <2>2. Start(u) = n + 2
    BY <1>1, <1>2, <1>3, <1>8, <2>1 DEF Past
  <2> QED
    BY <1>1, <1>4, <1>6, <1>8, <2>2 DEF Unfinished, Longer, u
<1>9. CASE ~Held(t) /\ x # LF
  <2>1. Start(u) = Start(t)
    BY <1>2, <1>9 DEF NewEnd
  <2>2. Start(t) \in 1..(Len(t) + 1)
    BY StartIs DEF Start
  <2>3. SubSeq(u, Start(t), n + 1) = Append(SubSeq(t, Start(t), n), x)
    <3>1. n \in Int
      BY <1>1
    <3> QED
      BY <2>2, <3>1, PartMore DEF u
  <2> QED
    BY <1>1, <1>4, <1>9, <2>1, <2>3 DEF Unfinished, Longer, u
<1> QED
  BY <1>7, <1>8, <1>9

\* And the lines that are complete.
LEMMA CompleteMore ==
  ASSUME NEW S, NEW t \in Seq(S), NEW x \in S
  PROVE  /\ Complete(t) \in Seq(Seq(S))
         /\ Complete(Append(t, x)) = Complete(t) \o NewLine(Unfinished(t), x)
<1> DEFINE u == Append(t, x)
           n == Len(t)
           E == Ends(t)
           c == Cardinality(E)
           Line(v, i) == SubSeq(v, From(v, i), i - 1)
<1>1. n \in Nat /\ Len(u) = n + 1 /\ u \in Seq(S) /\ \A k \in 1..n : u[k] = t[k] /\ t[k] \in S
  OBVIOUS
<1>2. /\ E \in SUBSET (1..n) /\ E \in SUBSET (0..n)
      /\ Held(t) => E \in SUBSET (1..(n - 1))
      /\ Ends(u) = E \cup NewEnd(t, x)
  BY EndsMore
<1>3. c \in Nat
  <2>1. n \in Int
    BY <1>1
  <2> HIDE DEF E, n
  <2> QED
    BY <1>2, <2>1, BoundedIsFinite
<1> HIDE DEF u, n
<1>4. \A k \in 1..c : Nth(E, k) \in E
  <2>1. n \in Int
    BY <1>1
  <2> HIDE DEF E
  <2> QED
    BY <1>2, <2>1, NthIs
<1>5. ASSUME NEW i \in E PROVE Line(t, i) \in Seq(S) /\ Line(u, i) = Line(t, i)
  <2>1. From(u, i) = From(t, i)
    BY StartMore DEF u
  <2>2. From(t, i) \in 1..(Len(t) + 1) /\ i - 1 \in Int /\ i - 1 <= Len(t)
    BY <1>1, <1>2, StartIs DEF n
  <2> QED
    BY SMTT(40), <2>1, <2>2, PartMore DEF u
<1>6. Complete(t) = [k \in 1..c |-> Line(t, Nth(E, k))]
  BY DEF Complete
<1>7. Complete(t) \in Seq(Seq(S))
  <2>1. \A k \in 1..c : Line(t, Nth(E, k)) \in Seq(S)
    BY <1>4, <1>5
  <2> HIDE DEF Line, c
  <2> QED
    BY <1>3, <1>6, <2>1
<1>8. Len(Complete(t)) = c /\ \A k \in 1..c : Complete(t)[k] = Line(t, Nth(E, k))
  <2> HIDE DEF c, Line
  <2> QED
    BY <1>3, <1>6
<1>9. CASE NewEnd(t, x) = {}
  <2>1. ~Held(t) /\ x # LF
    BY <1>9 DEF NewEnd
  <2>2. Ends(u) = E
    BY <1>2, <1>9
  <2>3. Complete(u) = [k \in 1..c |-> Line(u, Nth(E, k))]
    BY <2>2 DEF Complete
  <2>4. \A k \in 1..c : Line(u, Nth(E, k)) = Line(t, Nth(E, k))
    BY <1>4, <1>5
  <2>5. Complete(u) = Complete(t)
    <3> HIDE DEF Line, c, E
    <3> QED
      BY <1>6, <2>3, <2>4
  <2>6. NewLine(Unfinished(t), x) = <<>>
    BY <2>1, TailIs DEF NewLine
  <2>7. Complete(t) \o <<>> = Complete(t)
    BY <1>7, ConcatEmptySeq
  <2> QED
    BY <1>7, <2>5, <2>6, <2>7 DEF u
<1>10. ASSUME NEW m \in NewEnd(t, x) PROVE Complete(u) = Complete(t) \o NewLine(Unfinished(t), x)
  <2>1. NewEnd(t, x) = {m} /\ m \in Nat
    BY <1>1, <1>10 DEF NewEnd, n
  <2>2. E \in SUBSET (0..(m - 1))
    BY <1>1, <1>2, <1>10 DEF NewEnd, n
  <2>3. /\ Cardinality(Ends(u)) = c + 1 /\ Nth(Ends(u), c + 1) = m
        /\ \A k \in 1..c : Nth(Ends(u), k) = Nth(E, k)
    <3>1. Ends(u) = E \cup {m}
      BY <1>2, <2>1
    <3>2. m \in Nat /\ E \in SUBSET (0..(m - 1))
      BY <2>1, <2>2
    <3> HIDE DEF E, u
    <3>3. /\ Cardinality(E \cup {m}) = Cardinality(E) + 1
          /\ Nth(E \cup {m}, Cardinality(E) + 1) = m
          /\ \A k \in 1..Cardinality(E) : Nth(E \cup {m}, k) = Nth(E, k)
      BY <3>2, NthMore
    <3> QED
      BY <3>1, <3>3
  <2> DEFINE Lu(k) == Line(u, Nth(Ends(u), k))
  <2>4. Complete(u) = [k \in 1..(c + 1) |-> Lu(k)]
    BY <2>3 DEF Complete
  <2>5. \A k \in 1..c : Lu(k) = Complete(t)[k]
    BY <1>4, <1>5, <1>8, <2>3
  <2>6. Lu(c + 1) = SubSeq(u, Start(t), m - 1)
    <3>1. From(u, m) = Start(t)
      BY StartMore DEF u
    <3> QED
      BY <2>3, <3>1
  <2>7. NewLine(Unfinished(t), x) = <<SubSeq(u, Start(t), m - 1)>> /\ SubSeq(u, Start(t), m - 1) \in Seq(S)
    <3>0. Start(t) \in 1..(n + 1)
      BY StartIs DEF Start, n
    <3>1. ASSUME NEW h \in Int, h <= n
          PROVE  SubSeq(t, Start(t), h) \in Seq(S) /\ SubSeq(u, Start(t), h) = SubSeq(t, Start(t), h)
      BY SMTT(40), <3>0, <3>1, PartMore DEF n, u
    <3>2. CASE Held(t)
      <4>1. m = n /\ Start(t) <= n
        BY <1>10, <3>2, StartIs DEF NewEnd, n
      <4> DEFINE b == Unfinished(t)
                 s == Start(t)
                 f == SubSeq(b, 1, Len(b) - 1)
                 g == SubSeq(t, s, n - 1)
      <4>2. /\ b \in Seq(S) /\ Held(b) /\ Len(b) = n + 1 - s
            /\ \A k \in 1..Len(b) : b[k] = t[s + k - 1]
        BY <3>2, TailIs DEF n
      <4> HIDE DEF b, s
      <4>3. \A k \in 1..(Len(b) - 1) : b[k] \in S
        BY <4>2
      <4>3a. 1 \in Int /\ Len(b) - 1 \in Int
        BY <4>2
      <4>4. /\ f \in Seq(S) /\ Len(f) = (IF 1 <= Len(b) - 1 THEN Len(b) - 1 - 1 + 1 ELSE 0)
            /\ \A k \in 1..(Len(b) - 1 - 1 + 1) : f[k] = b[1 + k - 1]
        BY <4>3, <4>3a, SubSeqProperties
      <4>5. s \in 1..n
        BY <1>1, <3>0, <4>1 DEF s
      <4>6. \A k \in s..(n - 1) : t[k] \in S
        BY <1>1, <4>5
      <4>6a. n - 1 \in Int /\ s \in Int
        BY <1>1, <4>5
      <4>7. /\ g \in Seq(S) /\ Len(g) = (IF s <= n - 1 THEN n - 1 - s + 1 ELSE 0)
            /\ \A k \in 1..(n - 1 - s + 1) : g[k] = t[s + k - 1]
        BY <4>6, <4>6a, SubSeqProperties
      <4> HIDE DEF f, g
      <4>8. Len(f) = n - s /\ Len(g) = n - s
        BY <1>1, <4>2, <4>4, <4>5, <4>7
      <4>9. \A k \in 1..Len(f) : f[k] = g[k]
        <5> TAKE k \in 1..Len(f)
        <5>1. k \in 1..(Len(b) - 1 - 1 + 1) /\ k \in 1..Len(b) /\ k \in 1..(n - 1 - s + 1) /\ 1 + k - 1 = k
          BY <1>1, <4>2, <4>5, <4>8
        <5> QED
          BY <4>2, <4>4, <4>7, <5>1
      <4>10. f = g
        BY <4>4, <4>7, <4>8, <4>9, SeqEqual
      <4>11. SubSeq(u, Start(t), m - 1) = g /\ g \in Seq(S)
        <5>1. n - 1 \in Int /\ n - 1 <= n
          BY <1>1
        <5> QED
          BY <3>1, <4>1, <5>1 DEF g, s
      <4> QED
        BY <4>2, <4>10, <4>11 DEF NewLine, b, f
    <3>3. CASE ~Held(t)
      <4>1. x = LF /\ m = n + 1
        BY <1>10, <3>3 DEF NewEnd, n
      <4>2. m - 1 = n /\ n \in Int /\ n <= n
        BY <1>1, <4>1
      <4>3. ~Held(Unfinished(t))
        BY <3>3, TailIs
      <4>4. SubSeq(u, Start(t), n) = Unfinished(t) /\ Unfinished(t) \in Seq(S)
        BY <3>1, <4>2 DEF Unfinished, n
      <4> QED
        BY <4>1, <4>2, <4>3, <4>4 DEF NewLine
    <3> QED
      BY <3>2, <3>3
  <2> DEFINE w == SubSeq(u, Start(t), m - 1)
             C == Complete(t)
  <2>8. C \o <<w>> = [k \in 1..(c + 1) |-> IF k <= c THEN C[k] ELSE w]
    <3>1. w \in Seq(S) /\ C \in Seq(Seq(S)) /\ Len(C) = c
      BY <1>7, <1>8, <2>7
    <3> DEFINE T == Seq(S)
    <3>2. <<w>> \in Seq(T) /\ C \in Seq(T) /\ Len(<<w>>) = 1 /\ <<w>>[1] = w
      BY SMTT(40), <3>1
    <3> HIDE DEF w, C, c, T
    <3>3. /\ C \o <<w>> \in Seq(T) /\ Len(C \o <<w>>) = c + 1
          /\ \A k \in 1..(c + 1) : (C \o <<w>>)[k] = IF k <= c THEN C[k] ELSE <<w>>[k - c]
      BY <3>1, <3>2, ConcatProperties
    <3>4. \A k \in 1..(c + 1) : ~(k <= c) => k - c = 1
      BY <1>3
    <3> QED
      BY <3>2, <3>3, <3>4
  <2>9. \A k \in 1..(c + 1) : Lu(k) = IF k <= c THEN C[k] ELSE w
    <3> TAKE k \in 1..(c + 1)
    <3>1. (k <= c /\ k \in 1..c) \/ (k = c + 1 /\ ~(k <= c))
      BY <1>3
    <3> HIDE DEF Lu, C, w, c
    <3> QED
      BY <2>5, <2>6, <3>1 DEF C, w
  <2> HIDE DEF Lu, C, w, c
  <2> QED
    BY <2>4, <2>7, <2>8, <2>9 DEF w, C
<1>11. Complete(u) = Complete(t) \o NewLine(Unfinished(t), x)
  BY <1>9, <1>10 DEF u
<1> QED
  BY <1>7, <1>11 DEF u

\* The beginning of a text, one character longer.
LEMMA PrefixMore ==
  ASSUME NEW S, NEW t \in Seq(S)
  PROVE  /\ SubSeq(t, 1, 0) = <<>> /\ SubSeq(t, 1, Len(t)) = t
         /\ \A k \in 1..Len(t) : /\ SubSeq(t, 1, k - 1) \in Seq(S) /\ t[k] \in S
                                 /\ SubSeq(t, 1, k) = Append(SubSeq(t, 1, k - 1), t[k])
<1>1. SubSeq(t, 1, 0) = <<>> /\ SubSeq(t, 1, Len(t)) = t
  BY SubSeqEmpty, SubSeqFull
<1>2. ASSUME NEW k \in 1..Len(t)
      PROVE  /\ SubSeq(t, 1, k - 1) \in Seq(S) /\ t[k] \in S
             /\ SubSeq(t, 1, k) = Append(SubSeq(t, 1, k - 1), t[k])
  <2>1. 1 \in 1..Len(t) /\ k \in 1..Len(t) /\ k - 1 \in Int /\ t[k] \in S
    OBVIOUS
  <2>2. \A i \in 1..(k - 1) : t[i] \in S
    OBVIOUS
  <2>3. SubSeq(t, 1, k - 1) \in Seq(S)
    BY <2>1, <2>2, SubSeqProperties
  <2>4. SubSeq(t, 1, k) = SubSeq(t, 1, k - 1) \o <<t[k]>>
    BY <2>1, SubSeqRecursiveSecond
  <2> DEFINE p == SubSeq(t, 1, k - 1)
             x == t[k]
  <2>5. p \o <<x>> = Append(p, x)
    <3>1. p \in Seq(S) /\ x \in S
      BY <2>1, <2>3
    <3> HIDE DEF p, x
    <3> QED
      BY <3>1
  <2> QED
    BY <2>1, <2>3, <2>4, <2>5
<1> QED
  BY <1>1, <1>2

\* No line ends in what is held back.
LEMMA NoneInTail ==
  ASSUME NEW S, NEW t \in Seq(S)
  PROVE  Ends(Unfinished(t)) = {}
<1> DEFINE P(k) == SubSeq(t, 1, k)
           n == Len(t)
           Good == {k \in 0..n : Ends(Unfinished(P(k))) = {}}
<1>0. n \in Nat /\ CR # LF
  BY DEF CR, LF
<1>1. Ends(<<>>) = {} /\ \A x : x # LF => Ends(<<x>>) = {}
  <2>1. Ends(<<>>) = {}
    BY DEF Ends
  <2>2. ASSUME NEW x, x # LF PROVE Ends(<<x>>) = {}
    <3>1. DOMAIN <<x>> = {1} /\ <<x>>[1] = x /\ Len(<<x>>) = 1
      OBVIOUS
    <3> QED
      BY <2>2, <3>1 DEF Ends
  <2> QED
    BY <2>1, <2>2
<1>2. 0 \in Good
  <2>1. Unfinished(<<>>) = <<>>
    <3>1. <<>> \in Seq(S) /\ Len(<<>>) = 0
      OBVIOUS
    <3>2. Start(<<>>) \in 1..(0 + 1)
      BY <3>1, StartIs DEF Start
    <3> QED
      BY <3>1, <3>2, SubSeqEmpty DEF Unfinished
  <2>2. P(0) = <<>>
    BY PrefixMore
  <2> HIDE DEF P
  <2> QED
    BY <1>0, <1>1, <2>1, <2>2
<1>3. ASSUME NEW k \in 1..n, k - 1 \in Good PROVE k \in Good
  <2> DEFINE b == Unfinished(P(k - 1))
             x == t[k]
  <2>1. P(k - 1) \in Seq(S) /\ x \in S /\ P(k) = Append(P(k - 1), x)
    BY PrefixMore
  <2>2. b \in Seq(S) /\ Ends(b) = {} /\ Unfinished(P(k)) = Longer(b, x)
    BY <1>3, <2>1, TailIs, TailMore
  <2> HIDE DEF b, x
  <2>3. ASSUME x # LF, ~Held(b) PROVE Ends(Append(b, x)) = {}
    <3>1. NewEnd(b, x) = {}
      BY <2>3 DEF NewEnd
    <3> QED
      BY <2>1, <2>2, <3>1, EndsMore
  <2>4. Held(b) /\ x = LF => Ends(Longer(b, x)) = {}
    BY <1>1 DEF Longer
  <2>5. Ends(Longer(b, x)) = {}
    BY <1>0, <1>1, <2>3 DEF Longer
  <2> QED
    BY <2>2, <2>5
<1> HIDE DEF Good
<1>4. n \in Good
  <2>1. 0..n \subseteq Good
    BY <1>0, <1>2, <1>3, Climb
  <2> QED
    BY <1>0, <2>1
<1> QED
  BY <1>4, PrefixMore DEF Good

\* A text without an end of a line is held back.
LEMMA NothingComplete ==
  ASSUME NEW S, NEW b \in Seq(S), Ends(b) = {}
  PROVE  Unfinished(b) = b /\ Complete(b) = <<>>
<1>1. Complete(b) = <<>>
  <2>1. Cardinality(Ends(b)) = 0
    BY FS_EmptySet
  <2> QED
    BY <2>1 DEF Complete
<1>2. Start(b) = 1
  <2>1. Pasts(b, Len(b) + 1) = {0}
    BY DEF Pasts
  <2>2. Max({0}) = 0
    BY MaxIs
  <2>3. Start(b) = 1 + Max(Pasts(b, Len(b) + 1))
    BY StartIs
  <2>4. Max(Pasts(b, Len(b) + 1)) = 0
    BY <2>1, <2>2
  <2> QED
    BY <2>3, <2>4
<1> QED
  BY <1>1, <1>2, PrefixMore DEF Unfinished

\* Three sequences may be joined in either order.
LEMMA Regroup ==
  ASSUME NEW T, NEW r \in Seq(T), NEW s \in Seq(T), NEW u \in Seq(T)
  PROVE  r \o (s \o u) = (r \o s) \o u
BY SMTT(60), ConcatAssociative

\* What comes in two parts has the lines of the whole.
LEMMA InTwoParts ==
  ASSUME NEW S, NEW t \in Seq(S), NEW c \in Seq(S)
  PROVE  /\ Unfinished(Unfinished(t) \o c) = Unfinished(t \o c)
         /\ Complete(t) \o Complete(Unfinished(t) \o c) = Complete(t \o c)
<1> DEFINE b == Unfinished(t)
           C == Complete(t)
           P(k) == SubSeq(c, 1, k)
           n == Len(c)
           Good == {k \in 0..n : /\ Unfinished(b \o P(k)) = Unfinished(t \o P(k))
                                 /\ C \o Complete(b \o P(k)) = Complete(t \o P(k))}
<1>0. n \in Nat /\ b \in Seq(S) /\ C \in Seq(Seq(S)) /\ Ends(b) = {}
  <2>1. C \in Seq(Seq(S))
    <3>1. CASE S = {}
      <4>1. t = <<>>
        BY <3>1
      <4>2. Ends(<<>>) = {}
        BY DEF Ends
      <4>3. C = <<>>
        BY <4>1, <4>2, NothingComplete
      <4> QED
        BY <4>3
    <3>2. CASE S # {}
      BY <3>2, CompleteMore
    <3> QED
      BY <3>1, <3>2
  <2> QED
    BY <2>1, TailIs, NoneInTail
<1> HIDE DEF b, C
<1>1. 0 \in Good
  <2>1. b \o <<>> = b /\ t \o <<>> = t /\ C \o <<>> = C
    BY <1>0, ConcatEmptySeq
  <2>2. Unfinished(b) = b /\ Complete(b) = <<>>
    BY <1>0, NothingComplete
  <2>3. P(0) = <<>>
    BY PrefixMore
  <2> HIDE DEF P
  <2>4. Unfinished(b \o P(0)) = Unfinished(t \o P(0))
    BY <2>1, <2>2, <2>3 DEF b
  <2>5. C \o Complete(b \o P(0)) = Complete(t \o P(0))
    BY <2>1, <2>2, <2>3 DEF C
  <2> QED
    BY <1>0, <2>4, <2>5
<1>2. ASSUME NEW k \in 1..n, k - 1 \in Good PROVE k \in Good
  <2> DEFINE p == P(k - 1)
             x == c[k]
  <2>1. p \in Seq(S) /\ x \in S /\ P(k) = Append(p, x)
    BY PrefixMore
  <2>2. Unfinished(b \o p) = Unfinished(t \o p) /\ C \o Complete(b \o p) = Complete(t \o p)
    BY <1>2
  <2> HIDE DEF P, p, x
  <2>3. \A s \in Seq(S) : s \o Append(p, x) = Append(s \o p, x) /\ s \o p \in Seq(S)
    BY <2>1
  <2>4. /\ Unfinished(b \o P(k)) = Longer(Unfinished(b \o p), x)
        /\ Unfinished(t \o P(k)) = Longer(Unfinished(t \o p), x)
    BY <1>0, <2>1, <2>3, TailMore
  <2>5. /\ Complete(b \o P(k)) = Complete(b \o p) \o NewLine(Unfinished(b \o p), x)
        /\ Complete(t \o P(k)) = Complete(t \o p) \o NewLine(Unfinished(t \o p), x)
        /\ Complete(b \o p) \in Seq(Seq(S))
    BY ZenonT(60), <1>0, <2>1, <2>3, CompleteMore
  <2> DEFINE w == NewLine(Unfinished(b \o p), x)
             D == Complete(b \o p)
             T == Seq(S)
  <2>6. w \in Seq(T)
    <3> DEFINE e == Unfinished(b \o p)
    <3>1. e \in Seq(S)
      BY <1>0, <2>3, TailIs
    <3> HIDE DEF e
    <3>2. SubSeq(e, 1, Len(e) - 1) \in Seq(S)
      <4>1. \A i \in 1..(Len(e) - 1) : e[i] \in S
        BY <3>1
      <4>2. 1 \in Int /\ Len(e) - 1 \in Int
        BY <3>1
      <4> QED
        BY <4>1, <4>2, SubSeqProperties
    <3>3. \A l \in T : <<l>> \in Seq(T)
      <4> HIDE DEF T
      <4> QED
        OBVIOUS
    <3>4. NewLine(e, x) \in Seq(T)
      <4>1. <<>> \in Seq(T)
        OBVIOUS
      <4> QED
        BY <3>1, <3>2, <3>3, <4>1 DEF NewLine
    <3> QED
      BY <3>4 DEF e
  <2>7. C \o (D \o w) = (C \o D) \o w
    <3>1. C \in Seq(T) /\ D \in Seq(T)
      BY <1>0, <2>5
    <3> HIDE DEF w, D, T
    <3> QED
      BY SMTT(60), <2>6, <3>1, Regroup
  <2>8. Unfinished(b \o P(k)) = Unfinished(t \o P(k))
    BY <2>2, <2>4
  <2>9. C \o Complete(b \o P(k)) = Complete(t \o P(k))
    BY <2>2, <2>5, <2>7
  <2> QED
    BY <2>8, <2>9
<1> HIDE DEF Good
<1>3. n \in Good
  <2>1. 0..n \subseteq Good
    BY <1>0, <1>1, <1>2, Climb
  <2> QED
    BY <1>0, <2>1
<1>4. P(n) = c
  BY PrefixMore
<1> QED
  BY <1>3, <1>4 DEF Good, b, C

\* What is taken from chunk to chunk, as the function it is the last value of.
LEMMA LinesOfIs ==
  ASSUME NEW chunks, Len(chunks) \in Nat, NEW f,
         f = [k \in 0..Len(chunks) |->
                IF k = 0 THEN [buffer |-> <<>>, lines |-> <<>>] ELSE TakeLines(f[k - 1], chunks[k])]
  PROVE  LinesOf(chunks) = f[Len(chunks)].lines \o EndLines(f[Len(chunks)].buffer)
<1> DEFINE n == Len(chunks)
           none == [buffer |-> <<>>, lines |-> <<>>]
           Body(g) == [k \in 0..n |-> IF k = 0 THEN none ELSE TakeLines(g[k - 1], chunks[k])]
           after == CHOOSE g : g = Body(g)
           Good == {k \in 0..n : after[k] = f[k]}
<1>1. f = Body(f) /\ after = Body(after)
  <2>1. f = Body(f)
    OBVIOUS
  <2> HIDE DEF Body
  <2> QED
    BY <2>1
<1>2. \A g : \A k \in 0..n : Body(g)[k] = IF k = 0 THEN none ELSE TakeLines(g[k - 1], chunks[k])
  OBVIOUS
<1> HIDE DEF Body, after, none
<1>3. 0 \in Good
  BY <1>1, <1>2
<1>4. ASSUME NEW k \in 1..n, k - 1 \in Good PROVE k \in Good
  <2>1. k \in 0..n /\ k # 0 /\ after[k - 1] = f[k - 1]
    BY <1>4
  <2>2. after[k] = TakeLines(after[k - 1], chunks[k]) /\ f[k] = TakeLines(f[k - 1], chunks[k])
    BY <1>1, <1>2, <2>1
  <2> QED
    BY <2>1, <2>2
<1> HIDE DEF Good
<1>5. n \in Good
  <2>1. 0..n \subseteq Good
    BY <1>3, <1>4, Climb
  <2> QED
    BY <2>1
<1>6. LinesOf(chunks) = after[n].lines \o EndLines(after[n].buffer)
  BY DEF LinesOf, after, Body, none
<1> QED
  BY <1>5, <1>6 DEF Good

\* Wherever a text is cut, its lines are those of the whole.
LEMMA CutAnywhere ==
  ASSUME NEW S, NEW t \in Seq(S), NEW cuts \in SUBSET (1..(Len(t) - 1))
  PROVE  LinesOf(Cut(t, cuts)) = Complete(t) \o EndLines(Unfinished(t))
<1> DEFINE n == Len(t)
           at == cuts \cup {0, n}
           m == Cardinality(at) - 1
           chunks == Cut(t, cuts)
           P(k) == SubSeq(t, 1, Nth(at, k + 1))
           f == [k \in 0..m |-> [buffer |-> Unfinished(P(k)), lines |-> Complete(P(k))]]
<1>1. n \in Nat /\ at \in SUBSET (0..n) /\ 0 \in at /\ n \in at
  <2>1. n \in Nat
    OBVIOUS
  <2>2. \A i \in cuts : i \in 0..n
    BY <2>1
  <2> HIDE DEF n
  <2> QED
    BY <2>1, <2>2
<1>2. Cardinality(at) \in Nat /\ Cardinality(at) > 0
  <2>1. IsFiniteSet(at) /\ Cardinality(at) \in Nat
    <3>1. n \in Int
      BY <1>1
    <3> HIDE DEF at
    <3> QED
      BY <1>1, <3>1, BoundedIsFinite
  <2> HIDE DEF at
  <2> QED
    BY <1>1, <2>1, FS_EmptySet
<1>3. /\ Nth(at, 1) = 0 /\ Nth(at, m + 1) = n
      /\ \A k \in 1..m : Nth(at, k) < Nth(at, k + 1)
      /\ \A k \in 1..(m + 1) : Nth(at, k) \in 0..n
  <2>1. n \in Int /\ m + 1 = Cardinality(at) /\ \A j \in at : j <= n
    BY <1>1, <1>2
  <2> HIDE DEF at, n
  <2>2. /\ Nth(at, 1) = 0 /\ Nth(at, Cardinality(at)) = n
        /\ \A k \in 1..(Cardinality(at) - 1) : Nth(at, k) < Nth(at, k + 1)
    BY <1>1, <2>1, NthOrder
  <2>3. \A k \in 1..Cardinality(at) : Nth(at, k) \in at
    BY <1>1, <2>1, NthIs
  <2> QED
    BY <1>1, <2>1, <2>2, <2>3
<1>4. m \in Nat
  BY <1>2
<1>5. Len(chunks) = m /\ \A k \in 1..m : chunks[k] = SubSeq(t, Nth(at, k) + 1, Nth(at, k + 1))
  <2> DEFINE L(k) == SubSeq(t, Nth(at, k) + 1, Nth(at, k + 1))
  <2>1. chunks = [k \in 1..m |-> L(k)]
    BY DEF Cut
  <2> HIDE DEF chunks, m, at, L
  <2>2. Len(chunks) = m /\ \A k \in 1..m : chunks[k] = L(k)
    BY <1>4, <2>1
  <2> QED
    BY <2>2 DEF L
<1> HIDE DEF chunks, m, at
<1>6. \A k \in 0..m : P(k) \in Seq(S)
  <2> TAKE k \in 0..m
  <2>1. k + 1 \in 1..(m + 1)
    BY <1>4
  <2>2. Nth(at, k + 1) \in 0..n
    BY <1>3, <2>1
  <2>3. \A i \in 1..Nth(at, k + 1) : t[i] \in S
    BY <1>1, <2>2
  <2> QED
    BY <1>1, <2>2, <2>3, SubSeqProperties
<1>7. P(0) = <<>> /\ P(m) = t
  BY <1>3, PrefixMore
<1>8. ASSUME NEW k \in 1..m PROVE P(k) = P(k - 1) \o chunks[k] /\ chunks[k] \in Seq(S)
  <2>1. k \in 1..(m + 1) /\ k + 1 \in 1..(m + 1) /\ (k - 1) + 1 = k
    BY <1>4
  <2> DEFINE a == Nth(at, k)
             b == Nth(at, k + 1)
  <2>2. a \in 0..n /\ b \in 0..n /\ a < b
    BY <1>3, <2>1
  <2>3. chunks[k] = SubSeq(t, a + 1, b) /\ P(k - 1) = SubSeq(t, 1, a) /\ P(k) = SubSeq(t, 1, b)
    BY <1>5, <2>1
  <2> HIDE DEF a, b, P
  <2>4. 1 \in 1..(Len(t) + 1) /\ a \in (1 - 1)..Len(t) /\ b \in a..Len(t)
    BY <1>1, <2>2
  <2>5. SubSeq(t, 1, a) \o SubSeq(t, a + 1, b) = SubSeq(t, 1, b)
    BY <2>4, ConcatAdjacentSubSeq
  <2>6. \A i \in (a + 1)..b : t[i] \in S
    BY <1>1, <2>2
  <2>7. a + 1 \in Int /\ b \in Int
    BY <2>2
  <2>8. SubSeq(t, a + 1, b) \in Seq(S)
    BY <2>6, <2>7, SubSeqProperties
  <2> QED
    BY <2>3, <2>5, <2>8
<1> HIDE DEF P
<1>9. f[0] = [buffer |-> <<>>, lines |-> <<>>]
  <2>1. <<>> \in Seq(S) /\ Ends(<<>>) = {}
    BY DEF Ends
  <2>2. Unfinished(<<>>) = <<>> /\ Complete(<<>>) = <<>>
    BY <2>1, NothingComplete
  <2> QED
    BY <1>4, <1>7, <2>2
<1>10. ASSUME NEW k \in 1..m PROVE f[k] = TakeLines(f[k - 1], chunks[k])
  <2>1. k \in 0..m /\ k - 1 \in 0..m
    BY <1>4
  <2> DEFINE p == P(k - 1)
             c == chunks[k]
             st == f[k - 1]
  <2>2. p \in Seq(S) /\ c \in Seq(S) /\ P(k) = p \o c
    BY <1>6, <1>8, <2>1
  <2>3. st.buffer = Unfinished(p) /\ st.lines = Complete(p)
    BY <2>1
  <2>4. f[k] = [buffer |-> Unfinished(P(k)), lines |-> Complete(P(k))]
    BY <2>1
  <2> HIDE DEF p, c, f, st
  <2>5. /\ Unfinished(Unfinished(p) \o c) = Unfinished(p \o c)
        /\ Complete(p) \o Complete(Unfinished(p) \o c) = Complete(p \o c)
    BY <2>2, InTwoParts
  <2>6. TakeLines(st, c) = [buffer |-> Unfinished(st.buffer \o c), lines |-> st.lines \o Complete(st.buffer \o c)]
    BY TakeLinesIs
  <2>7. TakeLines(st, c) = f[k]
    BY <2>2, <2>3, <2>4, <2>5, <2>6
  <2> QED
    BY <2>7 DEF st, c
<1>11. f = [k \in 0..m |->
              IF k = 0 THEN [buffer |-> <<>>, lines |-> <<>>] ELSE TakeLines(f[k - 1], chunks[k])]
  <2>1. \A k \in 0..m : k = 0 \/ k \in 1..m
    BY <1>4
  <2>2. f = [k \in 0..m |-> f[k]]
    OBVIOUS
  <2>3. \A k \in 0..m :
          f[k] = IF k = 0 THEN [buffer |-> <<>>, lines |-> <<>>] ELSE TakeLines(f[k - 1], chunks[k])
    <3> HIDE DEF f
    <3> QED
      BY <1>9, <1>10, <2>1
  <2> HIDE DEF f
  <2> QED
    BY <2>2, <2>3
<1>12. f[m].lines = Complete(t) /\ f[m].buffer = Unfinished(t)
  BY <1>4, <1>7
<1>13. LinesOf(chunks) = f[m].lines \o EndLines(f[m].buffer)
  <2> HIDE DEF f
  <2>1. /\ Len(chunks) \in Nat
        /\ f = [k \in 0..Len(chunks) |->
                  IF k = 0 THEN [buffer |-> <<>>, lines |-> <<>>] ELSE TakeLines(f[k - 1], chunks[k])]
    BY <1>4, <1>5, <1>11
  <2> QED
    BY <1>5, <2>1, LinesOfIs
<1> QED
  BY <1>12, <1>13 DEF chunks

\* A sequence with one element more, as a function.
LEMMA AppendIs ==
  ASSUME NEW T, NEW s \in Seq(T), NEW w \in T
  PROVE  Append(s, w) = [k \in 1..(Len(s) + 1) |-> IF k <= Len(s) THEN s[k] ELSE w]
<1> DEFINE a == Append(s, w)
           n == Len(s)
<1>1. n \in Nat /\ a \in [1..(n + 1) -> T] /\ a[n + 1] = w /\ \A k \in 1..n : a[k] = s[k]
  <2>1. n \in Nat /\ a \in Seq(T) /\ Len(a) = n + 1 /\ a[n + 1] = w /\ \A k \in 1..n : a[k] = s[k]
    OBVIOUS
  <2> HIDE DEF a, n
  <2> QED
    BY <2>1, LenProperties
<1> HIDE DEF a, n
<1>2. \A k \in 1..(n + 1) : a[k] = IF k <= n THEN s[k] ELSE w
  <2> TAKE k \in 1..(n + 1)
  <2>1. (k <= n /\ k \in 1..n) \/ (k = n + 1 /\ ~(k <= n))
    BY <1>1
  <2> QED
    BY <1>1, <2>1
<1>3. a = [k \in 1..(n + 1) |-> a[k]]
  BY <1>1
<1> QED
  BY <1>2, <1>3 DEF a, n

\* The text with line feeds only: a character more.
LEMMA PlainMore ==
  ASSUME NEW S, NEW t \in Seq(S), NEW x \in S
  PROVE  /\ Plain(<<>>) = <<>> /\ Plain(t) \in Seq(S \cup {LF})
         /\ Plain(Append(t, x)) =
              IF Held(t) /\ x = LF THEN Plain(t)
              ELSE Append(Plain(t), IF x = CR THEN LF ELSE x)
<1> DEFINE Kept(v) == {i \in DOMAIN v : v[i] = LF => ~After(v, i, CR)}
           As(c) == IF c = CR THEN LF ELSE c
           u == Append(t, x)
           n == Len(t)
           K == Kept(t)
           c == Cardinality(K)
<1>0. ASSUME NEW v PROVE Plain(v) = [k \in 1..Cardinality(Kept(v)) |-> As(v[Nth(Kept(v), k)])]
  BY DEF Plain
<1>1. /\ n \in Nat /\ Len(u) = n + 1 /\ u[n + 1] = x /\ \A i \in 1..n : u[i] = t[i] /\ t[i] \in S
      /\ DOMAIN t = 1..n /\ DOMAIN u = 1..(n + 1)
  OBVIOUS
<1>2. K \in SUBSET (0..n) /\ K \in SUBSET (1..n)
  BY <1>1
<1>3. c \in Nat
  <2>1. n \in Int
    BY <1>1
  <2> HIDE DEF K
  <2> QED
    BY <1>2, <2>1, BoundedIsFinite
<1>4. \A k \in 1..c : Nth(K, k) \in K
  <2>1. n \in Int
    BY <1>1
  <2> HIDE DEF K
  <2> QED
    BY <1>2, <2>1, NthIs
<1> DEFINE L(v, R, k) == As(v[Nth(R, k)])
<1>5. Plain(t) = [k \in 1..c |-> L(t, K, k)] /\ \A k \in 1..c : L(t, K, k) \in S \cup {LF}
  <2>1. \A k \in 1..c : L(t, K, k) \in S \cup {LF}
    BY <1>1, <1>2, <1>4
  <2> QED
    BY <1>0, <2>1
<1>6. Plain(t) \in Seq(S \cup {LF}) /\ Len(Plain(t)) = c /\ \A k \in 1..c : Plain(t)[k] = L(t, K, k)
  <2> HIDE DEF c, L
  <2> QED
    BY <1>3, <1>5
<1>7. Plain(<<>>) = <<>>
  <2>1. Kept(<<>>) = {}
    OBVIOUS
  <2>2. Cardinality(Kept(<<>>)) = 0
    BY <2>1, FS_EmptySet
  <2> HIDE DEF Kept, As
  <2> QED
    BY <1>0, <2>2
<1>8. Kept(u) = IF Held(t) /\ x = LF THEN K ELSE K \cup {n + 1}
  <2>1. \A i \in 1..n : After(u, i, CR) = After(t, i, CR)
    <3> TAKE i \in 1..n
    <3>1. i # 1 => i - 1 \in 1..n
      BY <1>1
    <3> QED
      BY <1>1, <3>1 DEF After
  <2>2. After(u, n + 1, CR) <=> Held(t)
    <3>1. t # <<>> <=> n > 0
      OBVIOUS
    <3>2. (n + 1) - 1 = n /\ (n + 1 = 1 <=> ~(n > 0)) /\ (n > 0 => n \in 1..n)
      BY <1>1
    <3> HIDE DEF u
    <3> QED
      BY <1>1, <3>1, <3>2 DEF After, Held
  <2>3. \A i \in 1..n : i \in Kept(u) <=> i \in K
    BY <1>1, <2>1
  <2>4. n + 1 \in Kept(u) <=> ~(Held(t) /\ x = LF)
    BY <1>1, <2>2
  <2>5. Kept(u) \subseteq 1..(n + 1) /\ \A i \in 1..(n + 1) : i \in 1..n \/ i = n + 1
    BY <1>1
  <2>6. n + 1 \notin K
    BY <1>1, <1>2
  <2> HIDE DEF Kept, K, u
  <2>7. \A i : i \in Kept(u) <=> (i \in K \/ (i = n + 1 /\ ~(Held(t) /\ x = LF)))
    <3> TAKE i
    <3>1. CASE i \in 1..n
      <4>1. i # n + 1
        BY <1>1, <3>1
      <4> QED
        BY <2>3, <3>1, <4>1
    <3>2. CASE i = n + 1
      BY <2>4, <2>6, <3>2
    <3>3. CASE i \notin 1..n /\ i # n + 1
      BY <1>2, <2>5, <3>3
    <3> QED
      BY <3>1, <3>2, <3>3
  <2>8. CASE Held(t) /\ x = LF
    BY <2>7, <2>8
  <2>9. CASE ~(Held(t) /\ x = LF)
    BY <2>7, <2>9
  <2> QED
    BY <2>8, <2>9
<1>9. \A k \in 1..c : L(u, K, k) = L(t, K, k)
  BY <1>1, <1>2, <1>4
<1>10. CASE Held(t) /\ x = LF
  <2>1. Plain(u) = [k \in 1..c |-> L(u, K, k)]
    BY <1>0, <1>8, <1>10
  <2>2. Plain(u) = Plain(t)
    <3> HIDE DEF c, L
    <3> QED
      BY <1>5, <1>9, <2>1
  <2> QED
    BY <1>6, <1>7, <1>10, <2>2
<1>11. CASE ~(Held(t) /\ x = LF)
  <2>1. Kept(u) = K \cup {n + 1}
    BY <1>8, <1>11
  <2> DEFINE M == K \cup {n + 1}
  <2>2. /\ Cardinality(M) = c + 1 /\ Nth(M, c + 1) = n + 1
        /\ \A k \in 1..c : Nth(M, k) = Nth(K, k)
    <3>1. n + 1 \in Nat /\ K \in SUBSET (0..((n + 1) - 1))
      BY <1>1, <1>2
    <3> HIDE DEF K
    <3> QED
      BY <3>1, NthMore
  <2>3. Plain(u) = [k \in 1..(c + 1) |-> L(u, M, k)]
    BY <1>0, <2>1, <2>2
  <2>4. \A k \in 1..c : L(u, M, k) = Plain(t)[k]
    BY <1>6, <1>9, <2>2
  <2>5. L(u, M, c + 1) = As(x)
    BY <1>1, <2>2
  <2> DEFINE p == Plain(t)
             y == As(x)
  <2>6. Append(p, y) = [k \in 1..(c + 1) |-> IF k <= c THEN p[k] ELSE y]
    <3>1. p \in Seq(S \cup {LF}) /\ Len(p) = c /\ y \in S \cup {LF}
      BY <1>6
    <3> HIDE DEF p, y, c
    <3> QED
      BY <3>1, AppendIs
  <2>7. \A k \in 1..(c + 1) : L(u, M, k) = IF k <= c THEN p[k] ELSE y
    <3> TAKE k \in 1..(c + 1)
    <3>1. (k <= c /\ k \in 1..c) \/ (k = c + 1 /\ ~(k <= c))
      BY <1>3
    <3> HIDE DEF L, M, p, y, c
    <3> QED
      BY <2>4, <2>5, <3>1 DEF p, y
  <2>8. Plain(u) = Append(p, y)
    <3> HIDE DEF L, M, p, y, c, u
    <3> QED
      BY <2>3, <2>6, <2>7
  <2> QED
    BY <1>6, <1>7, <1>11, <2>8
<1> QED
  BY <1>10, <1>11

\* The places after which the lines of a text with line feeds only begin, the lines that are
\* complete and what is behind them.
Begins(q) == {0} \cup {i \in DOMAIN q : q[i] = LF}
Closed(q) == [k \in 1..(Cardinality(Begins(q)) - 1) |->
                SubSeq(q, Nth(Begins(q), k) + 1, Nth(Begins(q), k + 1) - 1)]
Behind(q) == SubSeq(q, Nth(Begins(q), Cardinality(Begins(q))) + 1, Len(q))

\* Lines begin at places of the text.
LEMMA BeginsIs ==
  ASSUME NEW S, NEW q \in Seq(S)
  PROVE  LET g == Cardinality(Begins(q)) IN
         /\ Begins(q) \in SUBSET (0..Len(q)) /\ g \in Nat /\ g > 0
         /\ \A k \in 1..g : Nth(Begins(q), k) \in Begins(q) /\ Nth(Begins(q), k) \in 0..Len(q)
<1>1. Len(q) \in Nat /\ Begins(q) \in SUBSET (0..Len(q)) /\ Begins(q) # {}
  BY DEF Begins
<1>2. IsFiniteSet(Begins(q)) /\ Cardinality(Begins(q)) \in Nat
  <2>1. Len(q) \in Int
    BY <1>1
  <2> QED
    BY <1>1, <2>1, BoundedIsFinite
<1>3. \A k \in 1..Cardinality(Begins(q)) : Nth(Begins(q), k) \in Begins(q)
  <2>1. Len(q) \in Int
    BY <1>1
  <2> QED
    BY <1>1, <2>1, NthIs
<1> QED
  BY <1>1, <1>2, <1>3, FS_EmptySet

\* A character more ends a line if it is a line feed.
LEMMA ClosedMore ==
  ASSUME NEW S, NEW q \in Seq(S), NEW x \in S
  PROVE  /\ Closed(q) \in Seq(Seq(S)) /\ Behind(q) \in Seq(S)
         /\ x # LF => /\ Closed(Append(q, x)) = Closed(q)
                      /\ Behind(Append(q, x)) = Append(Behind(q), x)
         /\ x = LF => /\ Closed(Append(q, x)) = Append(Closed(q), Behind(q))
                      /\ Behind(Append(q, x)) = <<>>
<1> DEFINE u == Append(q, x)
           n == Len(q)
           G == Begins(q)
           g == Cardinality(G)
           Line(v, R, k) == SubSeq(v, Nth(R, k) + 1, Nth(R, k + 1) - 1)
<1>1. /\ n \in Nat /\ Len(u) = n + 1 /\ u[n + 1] = x /\ u \in Seq(S) /\ \A i \in 1..n : u[i] = q[i]
      /\ DOMAIN q = 1..n /\ DOMAIN u = 1..(n + 1)
  OBVIOUS
<1>2. G \in SUBSET (0..n) /\ g \in Nat /\ g > 0 /\ \A k \in 1..g : Nth(G, k) \in 0..n
  BY BeginsIs
<1> HIDE DEF u, n
<1>3. Begins(u) = IF x = LF THEN G \cup {n + 1} ELSE G
  BY <1>1 DEF Begins
<1> HIDE DEF G
<1>4. \A k \in 1..g, h \in Int : h <= n =>
        /\ SubSeq(q, Nth(G, k) + 1, h) \in Seq(S)
        /\ SubSeq(u, Nth(G, k) + 1, h) = SubSeq(q, Nth(G, k) + 1, h)
  <2> TAKE k \in 1..g, h \in Int
  <2>1. Nth(G, k) + 1 \in 1..(n + 1)
    BY <1>1, <1>2
  <2> QED
    BY SMTT(40), <2>1, PartMore DEF u, n
<1>5. ASSUME NEW k \in 1..(g - 1) PROVE Line(q, G, k) \in Seq(S) /\ Line(u, G, k) = Line(q, G, k)
  <2>1. k \in 1..g /\ k + 1 \in 1..g
    BY <1>2
  <2>2. Nth(G, k + 1) - 1 \in Int /\ Nth(G, k + 1) - 1 <= n
    BY <1>1, <1>2, <2>1
  <2> QED
    BY <1>4, <2>1, <2>2
<1>6. Closed(q) = [k \in 1..(g - 1) |-> Line(q, G, k)]
  BY DEF Closed, G
<1>7. g \in 1..g /\ g - 1 \in Nat
  BY <1>2
<1>8. Behind(q) = SubSeq(q, Nth(G, g) + 1, n) /\ Behind(q) \in Seq(S)
  <2>1. n \in Int /\ n <= n
    BY <1>1
  <2> QED
    BY <1>4, <1>7, <2>1 DEF Behind, G, n
<1>9. /\ Closed(q) \in Seq(Seq(S)) /\ Len(Closed(q)) = g - 1
      /\ \A k \in 1..(g - 1) : Closed(q)[k] = Line(q, G, k)
  <2>1. \A k \in 1..(g - 1) : Line(q, G, k) \in Seq(S)
    BY <1>5
  <2> HIDE DEF Line, g
  <2> QED
    BY SMTT(40), <1>6, <1>7, <2>1
<1>10. ASSUME x # LF
       PROVE  Closed(u) = Closed(q) /\ Behind(u) = Append(Behind(q), x)
  <2>1. Begins(u) = G
    BY <1>3, <1>10
  <2>2. Closed(u) = [k \in 1..(g - 1) |-> Line(u, G, k)]
    BY <2>1 DEF Closed
  <2>3. Closed(u) = Closed(q)
    <3> HIDE DEF Line, g
    <3> QED
      BY <1>5, <1>6, <2>2
  <2>4. Behind(u) = SubSeq(u, Nth(G, g) + 1, n + 1)
    BY <1>1, <2>1 DEF Behind
  <2>5. SubSeq(u, Nth(G, g) + 1, n + 1) = Append(SubSeq(q, Nth(G, g) + 1, n), x)
    <3>1. Nth(G, g) + 1 \in 1..(n + 1) /\ n \in Int
      BY <1>1, <1>2, <1>7
    <3> QED
      BY SMTT(40), <3>1, PartMore DEF u, n
  <2> QED
    BY <1>8, <2>3, <2>4, <2>5
<1>11. ASSUME x = LF
       PROVE  Closed(u) = Append(Closed(q), Behind(q)) /\ Behind(u) = <<>>
  <2> DEFINE M == G \cup {n + 1}
  <2>1. Begins(u) = M
    BY <1>3, <1>11
  <2>2. /\ Cardinality(M) = g + 1 /\ Nth(M, g + 1) = n + 1
        /\ \A k \in 1..g : Nth(M, k) = Nth(G, k)
    <3>1. n + 1 \in Nat /\ G \in SUBSET (0..((n + 1) - 1))
      BY <1>1, <1>2
    <3> QED
      BY <3>1, NthMore
  <2>3. Behind(u) = <<>>
    <3>1. Behind(u) = SubSeq(u, (n + 1) + 1, n + 1)
      BY <1>1, <2>1, <2>2 DEF Behind
    <3> QED
      BY <1>1, <3>1, SubSeqEmpty
  <2>4. Closed(u) = [k \in 1..g |-> Line(u, M, k)]
    <3>1. (g + 1) - 1 = g
      BY <1>2
    <3> QED
      BY <2>1, <2>2, <3>1 DEF Closed
  <2>5. \A k \in 1..(g - 1) : Line(u, M, k) = Closed(q)[k]
    <3> TAKE k \in 1..(g - 1)
    <3>1. k \in 1..g /\ k + 1 \in 1..g
      BY <1>2
    <3>2. Line(u, M, k) = Line(u, G, k)
      BY <2>2, <3>1
    <3> QED
      BY <1>5, <1>9, <3>2
  <2>6. Line(u, M, g) = Behind(q)
    <3>1. (n + 1) - 1 = n /\ n \in Int /\ n <= n
      BY <1>1
    <3>2. Line(u, M, g) = SubSeq(u, Nth(G, g) + 1, n)
      BY <1>7, <2>2, <3>1
    <3> QED
      BY <1>4, <1>7, <1>8, <3>1, <3>2
  <2> DEFINE C == Closed(q)
             w == Behind(q)
  <2>7. Append(C, w) = [k \in 1..g |-> IF k <= g - 1 THEN C[k] ELSE w]
    <3> DEFINE T == Seq(S)
    <3>1. C \in Seq(T) /\ Len(C) = g - 1 /\ w \in T
      BY <1>8, <1>9
    <3>2. (g - 1) + 1 = g
      BY <1>2
    <3> HIDE DEF C, w, g, T
    <3>3. Append(C, w) = [k \in 1..((g - 1) + 1) |-> IF k <= g - 1 THEN C[k] ELSE w]
      BY <3>1, AppendIs
    <3> QED
      BY <3>2, <3>3
  <2>8. \A k \in 1..g : Line(u, M, k) = IF k <= g - 1 THEN C[k] ELSE w
    <3> TAKE k \in 1..g
    <3>1. (k <= g - 1 /\ k \in 1..(g - 1)) \/ (k = g /\ ~(k <= g - 1))
      BY <1>2
    <3> HIDE DEF Line, M, C, w, g
    <3> QED
      BY <2>5, <2>6, <3>1 DEF C, w
  <2>9. Closed(u) = Append(C, w)
    <3> HIDE DEF Line, M, C, w, g
    <3> QED
      BY <2>4, <2>7, <2>8
  <2> QED
    BY <2>3, <2>9
<1> QED
  BY <1>8, <1>9, <1>10, <1>11 DEF u

\* The lines of a text with line feeds only are those that are complete and what is behind them,
\* if anything is.
LEMMA SplitIs ==
  ASSUME NEW S, S # {}, NEW q \in Seq(S)
  PROVE  Split(q) = Closed(q) \o (IF Behind(q) = <<>> THEN <<>> ELSE <<Behind(q)>>)
<1> DEFINE n == Len(q)
           G == Begins(q)
           g == Cardinality(G)
           E == G \cup (IF q = <<>> \/ Last(q) = LF THEN {} ELSE {n + 1})
           Line(R, k) == SubSeq(q, Nth(R, k) + 1, Nth(R, k + 1) - 1)
           C == Closed(q)
           w == Behind(q)
<1>1. n \in Nat /\ DOMAIN q = 1..n /\ (q = <<>> <=> n = 0)
  OBVIOUS
<1>2. G \in SUBSET (0..n) /\ g \in Nat /\ g > 0 /\ \A k \in 1..g : Nth(G, k) \in G /\ Nth(G, k) \in 0..n
  BY BeginsIs
<1>3. Split(q) = [k \in 1..(Cardinality(E) - 1) |-> Line(E, k)]
  BY DEF Split, Begins
<1>4. C = [k \in 1..(g - 1) |-> Line(G, k)]
  BY DEF Closed
<1>5. w = SubSeq(q, Nth(G, g) + 1, n)
  BY DEF Behind
<1>6. C \in Seq(Seq(S)) /\ w \in Seq(S)
  <2>1. PICK x \in S : TRUE
    OBVIOUS
  <2> QED
    BY <2>1, ClosedMore
<1>7. n \in G <=> q = <<>> \/ Last(q) = LF
  BY <1>1 DEF Begins, Last
<1> HIDE DEF C, w, G, n
<1>8. CASE q = <<>> \/ Last(q) = LF
  <2>1. n \in G /\ E = G
    BY <1>7, <1>8
  <2>2. Nth(G, g) = n
    <3>1. n \in Int /\ \A i \in G : i <= n
      BY <1>1, <1>2
    <3> QED
      BY <1>2, <2>1, <3>1, NthOrder
  <2>3. w = <<>>
    <3>1. n + 1 \in Int /\ n \in Int /\ n < n + 1
      BY <1>1
    <3> QED
      BY <1>5, <2>2, <3>1, SubSeqEmpty
  <2>4. Split(q) = C
    BY <1>3, <1>4, <2>1
  <2>5. C \o <<>> = C
    BY <1>6, ConcatEmptySeq
  <2> QED
    BY <2>3, <2>4, <2>5 DEF C, w
<1>9. CASE ~(q = <<>> \/ Last(q) = LF)
  <2>1. n \notin G /\ E = G \cup {n + 1}
    BY <1>7, <1>9
  <2> DEFINE M == G \cup {n + 1}
  <2>2. /\ Cardinality(M) = g + 1 /\ Nth(M, g + 1) = n + 1
        /\ \A k \in 1..g : Nth(M, k) = Nth(G, k)
    <3>1. n + 1 \in Nat /\ G \in SUBSET (0..((n + 1) - 1))
      BY <1>1, <1>2
    <3> QED
      BY <3>1, NthMore
  <2>3. w # <<>>
    <3>1. g \in 1..g
      BY <1>2
    <3>2. Nth(G, g) \in 0..n /\ Nth(G, g) # n
      BY <1>2, <2>1, <3>1
    <3>3. \A i \in (Nth(G, g) + 1)..n : q[i] \in S
      BY <1>1, <3>2 DEF n
    <3>4. Nth(G, g) + 1 \in Int /\ n \in Int /\ Nth(G, g) + 1 <= n
      BY <1>1, <3>2
    <3>5. Len(w) = n - (Nth(G, g) + 1) + 1
      BY <1>5, <3>3, <3>4, SubSeqProperties
    <3>6. Len(w) # 0
      BY <3>4, <3>5
    <3> QED
      BY <3>6
  <2>4. Split(q) = [k \in 1..g |-> Line(M, k)]
    <3>1. (g + 1) - 1 = g
      BY <1>2
    <3> QED
      BY <1>3, <2>1, <2>2, <3>1
  <2>5. Len(C) = g - 1 /\ \A k \in 1..(g - 1) : C[k] = Line(G, k)
    <3>1. g - 1 \in Nat
      BY <1>2
    <3> HIDE DEF Line, g
    <3> QED
      BY <1>4, <3>1
  <2>6. \A k \in 1..g : Line(M, k) = IF k <= g - 1 THEN C[k] ELSE w
    <3> TAKE k \in 1..g
    <3>1. CASE k <= g - 1
      <4>1. k \in 1..(g - 1) /\ k + 1 \in 1..g
        BY <1>2, <3>1
      <4> QED
        BY <2>2, <2>5, <3>1, <4>1
    <3>2. CASE k = g
      <4>1. (n + 1) - 1 = n /\ ~(g <= g - 1)
        BY <1>1, <1>2
      <4> QED
        BY <1>5, <2>2, <3>2, <4>1
    <3> HIDE DEF M, g
    <3> QED
      BY <1>2, <3>1, <3>2
  <2>7. C \o <<w>> = Append(C, w)
    <3> DEFINE T == Seq(S)
    <3>1. C \in Seq(T) /\ w \in T
      BY <1>6
    <3> HIDE DEF T
    <3> QED
      BY <3>1
  <2>8. Append(C, w) = [k \in 1..g |-> IF k <= g - 1 THEN C[k] ELSE w]
    <3>1. (g - 1) + 1 = g
      BY <1>2
    <3> DEFINE T == Seq(S)
    <3>2. C \in Seq(T) /\ w \in T
      BY <1>6
    <3> HIDE DEF T, g
    <3>3. Append(C, w) = [k \in 1..(Len(C) + 1) |-> IF k <= Len(C) THEN C[k] ELSE w]
      BY <3>2, AppendIs
    <3> QED
      BY <2>5, <3>1, <3>3
  <2>9. Split(q) = Append(C, w)
    <3> HIDE DEF Line, M, g
    <3> QED
      BY <2>4, <2>6, <2>8
  <2> QED
    BY <2>3, <2>7, <2>9 DEF C, w
<1> QED
  BY <1>8, <1>9

\* What is complete and what is held back of a text are the lines of its plain form, but that a
\* carriage return at the end is one there.
LEMMA HeldIsPlain ==
  ASSUME NEW S, S # {}, NEW t \in Seq(S)
  PROVE  LET b == Unfinished(t)
             q == Plain(t)
         IN /\ q \in Seq(S \cup {LF}) /\ b \in Seq(S) /\ Complete(t) \in Seq(Seq(S))
            /\ Held(b) => Closed(q) = Append(Complete(t), SubSeq(b, 1, Len(b) - 1)) /\ Behind(q) = <<>>
            /\ ~Held(b) => Closed(q) = Complete(t) /\ Behind(q) = b
<1> DEFINE P(k) == SubSeq(t, 1, k)
           n == Len(t)
           T == Seq(S)
           Agree(v) == LET b == Unfinished(v)
                           q == Plain(v)
                       IN /\ Held(b) => /\ Closed(q) = Append(Complete(v), SubSeq(b, 1, Len(b) - 1))
                                        /\ Behind(q) = <<>>
                          /\ ~Held(b) => Closed(q) = Complete(v) /\ Behind(q) = b
           Good == {k \in 0..n : Agree(P(k))}
<1>1. PICK e \in S : TRUE
  OBVIOUS
<1>2. n \in Nat /\ CR # LF
  BY DEF CR, LF
<1>3. ASSUME NEW v \in Seq(S)
      PROVE Plain(v) \in Seq(S \cup {LF}) /\ Unfinished(v) \in Seq(S) /\ Complete(v) \in Seq(Seq(S))
  BY <1>1, <1>3, PlainMore, TailIs, CompleteMore
<1>4. 0 \in Good
  <2>1. <<>> \in Seq(S) /\ Ends(<<>>) = {}
    BY DEF Ends
  <2>2. Unfinished(<<>>) = <<>> /\ Complete(<<>>) = <<>>
    BY <2>1, NothingComplete
  <2>3. Plain(<<>>) = <<>>
    BY <1>1, <2>1, PlainMore
  <2>4. Begins(<<>>) = {0}
    BY DEF Begins
  <2>5. Cardinality({0}) = 1
    BY FS_Singleton
  <2>6. Closed(<<>>) = <<>>
    <3>1. Cardinality(Begins(<<>>)) = 1
      BY <2>4, <2>5
    <3>2. 1..(1 - 1) = {}
      OBVIOUS
    <3>3. 1..(Cardinality(Begins(<<>>)) - 1) = {}
      BY <3>1, <3>2, Zenon
    <3> QED
      BY <3>3 DEF Closed
  <2>7. Behind(<<>>) = <<>>
    <3>1. Nth({0}, 1) = 0
      <4>1. {0} \in SUBSET (0..0) /\ 0 \in {0} /\ 0 \in Int
        OBVIOUS
      <4> QED
        BY <4>1, NthOrder
    <3>2. Len(<<>>) = 0
      OBVIOUS
    <3>3. SubSeq(<<>>, 0 + 1, 0) = <<>>
      BY SubSeqEmpty
    <3> QED
      BY <2>4, <2>5, <3>1, <3>2, <3>3 DEF Behind
  <2>8. ~Held(<<>>)
    BY DEF Held
  <2>9. P(0) = <<>>
    BY PrefixMore
  <2> HIDE DEF P
  <2> QED
    BY <1>2, <2>2, <2>3, <2>6, <2>7, <2>8, <2>9
<1>5. ASSUME NEW v \in Seq(S), NEW x \in S, Agree(v) PROVE Agree(Append(v, x))
  <2> DEFINE u == Append(v, x)
             b == Unfinished(v)
             q == Plain(v)
             C == Complete(v)
             f == SubSeq(b, 1, Len(b) - 1)
             y == IF x = CR THEN LF ELSE x
             Q == S \cup {LF}
  <2>1. q \in Seq(Q) /\ b \in Seq(S) /\ C \in Seq(T) /\ y \in Q
    BY <1>3
  <2>2. Held(b) <=> Held(v)
    BY TailIs
  <2>3. Unfinished(u) = Longer(b, x) /\ Complete(u) = C \o NewLine(b, x)
    BY TailMore, CompleteMore
  <2>4. Plain(u) = IF Held(b) /\ x = LF THEN q ELSE Append(q, y)
    BY <2>2, PlainMore
  <2>5. /\ y # LF => Closed(Append(q, y)) = Closed(q) /\ Behind(Append(q, y)) = Append(Behind(q), y)
        /\ y = LF => Closed(Append(q, y)) = Append(Closed(q), Behind(q)) /\ Behind(Append(q, y)) = <<>>
    <3> HIDE DEF q, y, Q
    <3> QED
      BY ZenonT(60), <2>1, ClosedMore
  <2>6. /\ Held(b) => Closed(q) = Append(C, f) /\ Behind(q) = <<>>
        /\ ~Held(b) => Closed(q) = C /\ Behind(q) = b
    BY <1>5
  <2>7. f \in T /\ \A l \in T : C \o <<l>> = Append(C, l)
    <3>1. f \in T
      <4>1. \A i \in 1..(Len(b) - 1) : b[i] \in S
        BY <2>1
      <4>2. 1 \in Int /\ Len(b) - 1 \in Int
        BY <2>1
      <4> QED
        BY <4>1, <4>2, SubSeqProperties
    <3> HIDE DEF T, C, f
    <3> QED
      BY <2>1, <3>1
  <2>8. C \o <<>> = C
    <3> HIDE DEF C, T
    <3> QED
      BY <2>1, ConcatEmptySeq
  <2>9. ~Held(<<>>) /\ \A z : Held(<<z>>) <=> z = CR
    BY DEF Held
  <2>10. SubSeq(<<CR>>, 1, 1 - 1) = <<>> /\ Len(<<CR>>) = 1
    BY SubSeqEmpty
  <2>11. /\ Held(Append(b, x)) <=> x = CR
         /\ SubSeq(Append(b, x), 1, Len(Append(b, x)) - 1) = b
    <3> HIDE DEF b
    <3>1. Len(Append(b, x)) = Len(b) + 1 /\ Append(b, x)[Len(b) + 1] = x /\ Append(b, x) # <<>>
      <4>1. /\ b \in Seq(S) /\ Len(b) \in Nat
            /\ Len(Append(b, x)) = Len(b) + 1 /\ Append(b, x)[Len(b) + 1] = x
        BY <2>1
      <4>2. Len(<<>>) = 0
        OBVIOUS
      <4> QED
        BY <4>1, <4>2
    <3>2. Len(b) \in Int /\ Len(b) <= Len(b) /\ 1 \in 1..(Len(b) + 1) /\ (Len(b) + 1) - 1 = Len(b)
      BY <2>1
    <3>3. SubSeq(Append(b, x), 1, Len(b)) = SubSeq(b, 1, Len(b))
      BY <2>1, <3>2, PartMore
    <3>4. SubSeq(b, 1, Len(b)) = b
      BY <2>1, SubSeqFull
    <3> QED
      BY <3>1, <3>2, <3>3, <3>4 DEF Held
  <2>12. Append(<<>>, x) = <<x>>
    OBVIOUS
  <2> HIDE DEF b, q, C, f, u
  <2>13. CASE Held(b) /\ x = LF
    <3>1. Unfinished(u) = <<>> /\ Complete(u) = Append(C, f) /\ Plain(u) = q
      BY <2>3, <2>4, <2>7, <2>13 DEF Longer, NewLine, f
    <3> QED
      BY <2>6, <2>9, <2>13, <3>1 DEF u
  <2>14. CASE Held(b) /\ x = CR
    <3>1. Unfinished(u) = <<CR>> /\ Complete(u) = Append(C, f) /\ Plain(u) = Append(q, LF)
      BY <1>2, <2>3, <2>4, <2>7, <2>14 DEF Longer, NewLine, f
    <3>2. Closed(Plain(u)) = Append(Append(C, f), <<>>) /\ Behind(Plain(u)) = <<>>
      BY <2>5, <2>6, <2>14, <3>1
    <3> QED
      BY <2>9, <2>10, <3>1, <3>2 DEF u
  <2>15. CASE Held(b) /\ x # CR /\ x # LF
    <3>1. Unfinished(u) = <<x>> /\ Complete(u) = Append(C, f) /\ Plain(u) = Append(q, x) /\ y = x
      BY <2>3, <2>4, <2>7, <2>15 DEF Longer, NewLine, f
    <3>2. Closed(Plain(u)) = Append(C, f) /\ Behind(Plain(u)) = <<x>>
      BY <2>5, <2>6, <2>12, <2>15, <3>1
    <3> QED
      BY <2>9, <2>15, <3>1, <3>2 DEF u
  <2>16. CASE ~Held(b) /\ x = LF
    <3>1. Unfinished(u) = <<>> /\ Complete(u) = Append(C, b) /\ Plain(u) = Append(q, LF) /\ y = LF
      BY <1>2, <2>1, <2>3, <2>4, <2>7, <2>16 DEF Longer, NewLine
    <3>2. Closed(Plain(u)) = Append(C, b) /\ Behind(Plain(u)) = <<>>
      BY <2>5, <2>6, <2>16, <3>1
    <3> QED
      BY <2>9, <3>1, <3>2 DEF u
  <2>17. CASE ~Held(b) /\ x = CR
    <3>1. Unfinished(u) = Append(b, x) /\ Complete(u) = C /\ Plain(u) = Append(q, LF) /\ y = LF
      BY <1>2, <2>3, <2>4, <2>8, <2>17 DEF Longer, NewLine
    <3>2. Closed(Plain(u)) = Append(C, b) /\ Behind(Plain(u)) = <<>>
      BY <2>5, <2>6, <2>17, <3>1
    <3> QED
      BY <2>11, <2>17, <3>1, <3>2 DEF u
  <2>18. CASE ~Held(b) /\ x # CR /\ x # LF
    <3>1. Unfinished(u) = Append(b, x) /\ Complete(u) = C /\ Plain(u) = Append(q, x) /\ y = x
      BY <2>3, <2>4, <2>8, <2>18 DEF Longer, NewLine
    <3>2. Closed(Plain(u)) = C /\ Behind(Plain(u)) = Append(b, x)
      BY <2>5, <2>6, <2>18, <3>1
    <3> QED
      BY <2>11, <2>18, <3>1, <3>2 DEF u
  <2> QED
    BY <2>13, <2>14, <2>15, <2>16, <2>17, <2>18
<1> HIDE DEF Agree
<1>6. ASSUME NEW k \in 1..n, k - 1 \in Good PROVE k \in Good
  <2>1. P(k - 1) \in Seq(S) /\ t[k] \in S /\ P(k) = Append(P(k - 1), t[k])
    BY PrefixMore
  <2> HIDE DEF P
  <2>2. Agree(P(k))
    BY <1>5, <1>6, <2>1
  <2> QED
    BY <2>2
<1> HIDE DEF Good
<1>7. n \in Good
  <2>1. 0..n \subseteq Good
    BY <1>2, <1>4, <1>6, Climb
  <2> QED
    BY <1>2, <2>1
<1>8. Agree(t)
  BY <1>7, PrefixMore DEF Good
<1> QED
  BY <1>3, <1>8 DEF Agree

\* The lines of a text, wherever it is cut, also between the halves of a CRLF, are those of the
\* whole: for texts of any length and any characters (takeLines and endLines of internal/process.ts).
THEOREM LinesOfAnyText ==
  \A S : \A text \in Seq(S) : \A cuts \in SUBSET (1..(Len(text) - 1)) :
    LinesOf(Cut(text, cuts)) = Split(Plain(text))
<1> SUFFICES ASSUME NEW S, NEW text \in Seq(S), NEW cuts \in SUBSET (1..(Len(text) - 1))
             PROVE  LinesOf(Cut(text, cuts)) = Split(Plain(text))
  OBVIOUS
<1> DEFINE R == S \cup {LF}
           b == Unfinished(text)
           q == Plain(text)
           C == Complete(text)
           f == SubSeq(b, 1, Len(b) - 1)
<1>1. R # {} /\ text \in Seq(R)
  <2>1. S \subseteq R
    OBVIOUS
  <2> QED
    BY <2>1, SeqMonotonic
<1> HIDE DEF R
<1>2. /\ q \in Seq(R \cup {LF}) /\ b \in Seq(R) /\ C \in Seq(Seq(R))
      /\ Held(b) => Closed(q) = Append(C, f) /\ Behind(q) = <<>>
      /\ ~Held(b) => Closed(q) = C /\ Behind(q) = b
  BY <1>1, HeldIsPlain
<1>3. LinesOf(Cut(text, cuts)) = C \o EndLines(b)
  BY CutAnywhere
<1>4. Split(q) = Closed(q) \o (IF Behind(q) = <<>> THEN <<>> ELSE <<Behind(q)>>)
  BY <1>1, <1>2, SplitIs
<1>5. CASE Held(b)
  <2> DEFINE T == Seq(R)
  <2>1. f \in T
    <3>1. \A i \in 1..(Len(b) - 1) : b[i] \in R
      BY <1>2
    <3>2. 1 \in Int /\ Len(b) - 1 \in Int
      BY <1>2
    <3> QED
      BY <3>1, <3>2, SubSeqProperties
  <2>2. EndLines(b) = <<f>>
    BY <1>5 DEF EndLines, Held, Last, Front
  <2>3. C \o <<f>> = Append(C, f) /\ Append(C, f) \o <<>> = Append(C, f)
    <3>1. C \in Seq(T)
      BY <1>2
    <3> HIDE DEF C, f, T
    <3> QED
      BY <2>1, <3>1
  <2> HIDE DEF b, q, C, f
  <2> QED
    BY <1>2, <1>3, <1>4, <1>5, <2>2, <2>3 DEF q
<1>6. CASE ~Held(b)
  <2>1. EndLines(b) = IF b = <<>> THEN <<>> ELSE <<b>>
    BY <1>6 DEF EndLines, Held, Last
  <2> HIDE DEF b, q, C, f
  <2> QED
    BY <1>2, <1>3, <1>4, <1>6, <2>1 DEF q
<1> QED
  BY <1>5, <1>6

\* The lines of texts of the size the run looks at, as of all texts.
LEMMA LinesHold == LinesOfAnyCut
<1> SUFFICES ASSUME NEW n \in 0..MaxText, NEW text \in [1..n -> {CR, LF, "x"}],
                    NEW cuts \in SUBSET (1..(n - 1))
             PROVE  LinesOf(Cut(text, cuts)) = Split(Plain(text))
  BY DEF LinesOfAnyCut
<1>1. n \in Nat
  BY DEF MaxText
<1> DEFINE S == {CR, LF, "x"}
<1>2. text \in Seq(S) /\ Len(text) = n
  <2> HIDE DEF S
  <2>1. text \in [1..n -> S]
    BY DEF S
  <2> QED
    BY <1>1, <2>1
<1> HIDE DEF S
<1> QED
  BY <1>2, LinesOfAnyText

\* So the lines of a result are the lines of what the command wrote (`lines` of Process.ts).
THEOREM ResultHasItsLines == CallSpec => []LinesAreTrue
<1>1. LinesAreTrue
  BY LinesHold DEF LinesAreTrue
<1> QED
  BY <1>1, PTL

-----------------------------------------------------------------------------
(* The commits of an upload.                                               *)

\* Before its creation there is nothing of the upload.
Uncreated ==
  tusd = "none" => info = "none" /\ ~staged /\ placed = {}

\* A size that was read is the size, and has been declared for good.
SawSize ==
  \A r \in Requests :
    saw[r] # Deferred => saw[r] = size /\ info # "deferred" /\ tusd # "none"

\* A commit past the check, or placed, has seen the upload finished, which it is.
SawFinished ==
  \A r \in Requests :
    pc[r] \in {"rename", "forget"} \/ r \in placed => saw[r] # Deferred /\ saw[r] = length

\* Where a commit is says whether it has placed the upload and has answered.
Progress ==
  \A r \in Requests :
    /\ pc[r] = "forget" => r \in placed
    /\ r \in placed => pc[r] \in {"forget", "done", "dropped"}
    /\ answer[r] # NoAnswer => pc[r] = "done"

UploadInv ==
  /\ UploadTypeOK /\ Uncreated /\ SawSize /\ SawFinished /\ Progress
  /\ PlacedOnce /\ AnswersTell /\ FailedIsRetriable

\* It holds at first.
LEMMA UploadInitInv == UploadInit => UploadInv
<1> SUFFICES ASSUME UploadInit PROVE UploadInv
  OBVIOUS
<1>1. UploadTypeOK
  <2>1. 0 \in Sizes
    BY SizeAssumption DEF Sizes
  <2>2. pc \in [Requests -> Steps \cup {"done", "dropped"}]
    BY DEF UploadInit, Steps
  <2>3. saw \in [Requests -> Sizes \cup {Deferred}]
    BY DEF UploadInit
  <2>4. answer \in [Requests -> {NoAnswer, 204, 404, 409, 500}]
    BY DEF UploadInit
  <2> QED BY <2>1, <2>2, <2>3, <2>4 DEF UploadInit, UploadTypeOK
<1>2. Uncreated /\ SawSize /\ SawFinished /\ Progress
  BY DEF UploadInit, Uncreated, SawSize, SawFinished, Progress
<1>3. PlacedOnce /\ AnswersTell /\ FailedIsRetriable
  BY DEF UploadInit, PlacedOnce, AnswersTell, FailedIsRetriable, NoAnswer
<1> QED BY <1>1, <1>2, <1>3 DEF UploadInv

\* A file is appended to and its size declared only while nothing has measured it
\* as finished.
LEMMA TusdStep ==
  ASSUME UploadInv, Tusd
  PROVE  UploadInv'
<1> USE SizeAssumption DEF UploadInv, Sizes, Deferred, NoAnswer
<1>1. CASE Create
  BY <1>1 DEF Create, commitVars, UploadTypeOK, Uncreated, SawSize, SawFinished, Progress,
              PlacedOnce, AnswersTell, FailedIsRetriable
<1>2. CASE Declare
  <2>1. \A r \in Requests : saw[r] = Deferred
    BY <1>2 DEF Declare, SawSize
  <2>2. placed = {}
    BY <2>1 DEF SawFinished, UploadTypeOK
  <2> QED
    BY <1>2, <2>1, <2>2
       DEF Declare, commitVars, UploadTypeOK, Uncreated, SawSize, SawFinished, Progress,
           PlacedOnce, AnswersTell, FailedIsRetriable
<1>3. CASE Extend
  <2>1. ASSUME NEW r \in Requests, pc[r] \in {"rename", "forget"} \/ r \in placed
        PROVE  FALSE
    <3>1. saw[r] = length /\ saw[r] = size /\ info = "declared"
      BY <1>3, <2>1 DEF Extend, SawSize, SawFinished, UploadTypeOK
    <3> QED BY <1>3, <3>1 DEF Extend, UploadTypeOK
  <2>2. length' \in 0..MaxSize
    BY <1>3 DEF Extend, UploadTypeOK
  <2> QED
    BY <1>3, <2>1, <2>2
       DEF Extend, commitVars, UploadTypeOK, Uncreated, SawSize, SawFinished, Progress,
           PlacedOnce, AnswersTell, FailedIsRetriable
<1>4. CASE Delete
  BY <1>4 DEF Delete, commitVars, UploadTypeOK, Uncreated, SawSize, SawFinished, Progress,
              PlacedOnce, AnswersTell, FailedIsRetriable
<1>5. CASE DeleteFile
  <2>1. /\ tusd = "deletes" /\ tusd' = tusd /\ UNCHANGED <<size, length, placed, pc, saw, answer>>
        /\ info' \in {info, "none"} /\ staged' \in {staged, FALSE}
    BY <1>5 DEF DeleteFile, commitVars, UploadTypeOK
  <2>2. UploadTypeOK'
    BY ZenonT(60), <2>1 DEF UploadTypeOK
  <2>3. SawFinished' /\ Progress'
    BY <2>1 DEF SawFinished, Progress
  <2>4. Uncreated' /\ FailedIsRetriable'
    BY <2>1 DEF Uncreated, FailedIsRetriable
  <2>5. SawSize'
    BY <2>1 DEF SawSize
  <2>6. PlacedOnce' /\ AnswersTell'
    BY <1>5, <2>1 DEF DeleteFile, PlacedOnce, AnswersTell
  <2> QED BY <2>2, <2>3, <2>4, <2>5, <2>6
<1> QED BY <1>1, <1>2, <1>3, <1>4, <1>5 DEF Tusd

\* A step of a commit keeps it.
LEMMA CommitStep ==
  ASSUME UploadInv, NEW r \in Requests, Commit(r)
  PROVE  UploadInv'
<1> USE SizeAssumption
    DEF UploadInv, Sizes, Deferred, NoAnswer, Steps, Goto, Answer, StatusOf, stageVars
<1>1. CASE ReadInfo(r)
  <2>1. UploadTypeOK'
    BY <1>1 DEF ReadInfo, UploadTypeOK
  <2>2. SawSize' /\ SawFinished' /\ Progress'
    BY <1>1, <2>1 DEF ReadInfo, UploadTypeOK, Uncreated, SawSize, SawFinished, Progress
  <2> QED
    BY <1>1, <2>1, <2>2
       DEF ReadInfo, UploadTypeOK, Uncreated, Progress, PlacedOnce, AnswersTell, FailedIsRetriable
<1>2. CASE Stat(r)
  <2>1. UploadTypeOK'
    BY <1>2 DEF Stat, UploadTypeOK
  <2>2. SawSize' /\ SawFinished' /\ Progress'
    BY <1>2, <2>1 DEF Stat, Finished, UploadTypeOK, SawSize, SawFinished, Progress
  <2> QED
    BY <1>2, <2>1, <2>2
       DEF Stat, UploadTypeOK, Uncreated, Progress, PlacedOnce, AnswersTell, FailedIsRetriable
<1>3. CASE Rename(r)
  <2>0. /\ pc' \in [Requests -> Steps \cup {"done", "dropped"}]
        /\ answer' \in [Requests -> {NoAnswer, 204, 404, 409, 500}]
    BY <1>3 DEF Rename, UploadTypeOK
  <2>1. UploadTypeOK'
    <3>1. placed' \subseteq Requests
      BY <1>3 DEF Rename, UploadTypeOK
    <3>2. staged' \in BOOLEAN
      BY <1>3 DEF Rename, UploadTypeOK
    <3> QED BY <1>3, <2>0, <3>1, <3>2 DEF Rename, UploadTypeOK
  <2>2. SawSize' /\ SawFinished' /\ Progress'
    BY <1>3, <2>1 DEF Rename, UploadTypeOK, SawSize, SawFinished, Progress
  <2>3. PlacedOnce' /\ AnswersTell' /\ FailedIsRetriable' /\ Uncreated'
    BY <1>3, <2>1
       DEF Rename, UploadTypeOK, Uncreated, Progress, PlacedOnce, AnswersTell, FailedIsRetriable
  <2> QED BY <2>1, <2>2, <2>3
<1>4. CASE Forget(r)
  <2>1. UploadTypeOK'
    BY <1>4 DEF Forget, UploadTypeOK
  <2>2. SawSize' /\ SawFinished' /\ Progress'
    BY <1>4, <2>1 DEF Forget, UploadTypeOK, SawSize, SawFinished, Progress
  <2>3. PlacedOnce' /\ AnswersTell' /\ FailedIsRetriable' /\ Uncreated'
    BY <1>4, <2>1
       DEF Forget, UploadTypeOK, Uncreated, Progress, PlacedOnce, AnswersTell, FailedIsRetriable
  <2> QED BY <2>1, <2>2, <2>3
<1>5. CASE Fails(r) \/ Drop(r)
  <2>1. UploadTypeOK'
    BY <1>5 DEF Fails, Drop, UploadTypeOK
  <2>2. SawSize' /\ SawFinished' /\ Progress'
    BY <1>5, <2>1 DEF Fails, Drop, UploadTypeOK, SawSize, SawFinished, Progress
  <2>3. PlacedOnce' /\ AnswersTell' /\ FailedIsRetriable' /\ Uncreated'
    BY <1>5, <2>1
       DEF Fails, Drop, UploadTypeOK, Uncreated, Progress, PlacedOnce, AnswersTell, FailedIsRetriable
  <2> QED BY <2>1, <2>2, <2>3
<1> QED BY <1>1, <1>2, <1>3, <1>4, <1>5 DEF Commit

\* So does a step of anything else.
LEMMA Stutter ==
  ASSUME UploadInv, UNCHANGED uploadVars
  PROVE  UploadInv'
BY DEF uploadVars, stageVars, commitVars, UploadInv, UploadTypeOK, Uncreated, SawSize, SawFinished, Progress,
       PlacedOnce, AnswersTell, FailedIsRetriable, Sizes, Deferred, NoAnswer, Steps

\* The inductive invariant holds in every state of UploadCommit.
THEOREM CommitInv == UploadSpec => []UploadInv
<1>1. UploadInv /\ [UploadNext]_uploadVars => UploadInv'
  BY TusdStep, CommitStep, Stutter DEF UploadNext
<1> QED BY UploadInitInv, <1>1, PTL DEF UploadSpec

\* The type invariant of UploadCommit.
THEOREM CommitTypes == UploadSpec => []UploadTypeOK
BY CommitInv, PTL DEF UploadInv

\* Only a finished upload is ever at a destination: nothing is appended or
\* declared between the checks of Uploads::commit and its rename.
THEOREM PlacedUploadIsFinished == UploadSpec => []PlacedIsFinished
<1>1. UploadInv => PlacedIsFinished
  BY DEF UploadInv, UploadTypeOK, SawSize, SawFinished, PlacedIsFinished
<1> QED BY CommitInv, <1>1, PTL

\* However many requests commit an upload, one destination gets it.
THEOREM UploadIsPlacedOnce == UploadSpec => []PlacedOnce
BY CommitInv, PTL DEF UploadInv

\* A commit that succeeded has spent the upload, and one that was refused placed
\* nothing.
THEOREM CommitAnswersTell == UploadSpec => []AnswersTell
BY CommitInv, PTL DEF UploadInv

\* An upload that no commit placed stays staged until its client deletes it,
\* however many commits failed or were dropped on the way.
THEOREM FailedCommitIsRetriable == UploadSpec => []FailedIsRetriable
BY CommitInv, PTL DEF UploadInv
=============================================================================
