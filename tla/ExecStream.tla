------------------------------ MODULE ExecStream ------------------------------
(***************************************************************************)
(* One `POST /exec`: the child and whoever it left holding its pipes, the  *)
(* two pumps and the waiter of Execution::spawn, the bounded channel, and  *)
(* the request that collects for `wait` milliseconds and then either       *)
(* answers JSON or replays what it collected and goes on as a stream.      *)
(***************************************************************************)
EXTENDS Naturals, Sequences, SequencesExt

CONSTANTS
  MaxWrites,   \* bound: writes to each of the pipes
  PipeCap,     \* writes a pipe takes unread
  Buffer,      \* capacity of the event channel (BUFFER)
  Status       \* the terminal event

ASSUME BoundsAssumption ==
  /\ MaxWrites \in Nat /\ PipeCap \in Nat \ {0} /\ Buffer \in Nat \ {0}

VARIABLES
  child,     \* "running" or "exited"
  holders,   \* holders[c]: a background process still has pipe c open
  written,   \* written[c]: writes to pipe c so far
  pipe,      \* pipe[c]: writes not read yet
  pump,      \* pump[c]: "read", "send" or "done"
  held,      \* held[c]: the write a sending pump holds
  waiter,    \* "wait", "join", "send" or "done"
  events,    \* the event channel
  response,  \* "collect", "json", "stream", "ended" or "dropped"
  consumed,  \* events collected and not replayed
  received   \* events in the answer

processVars == <<child, holders, written, pipe>>
taskVars == <<pump, held, waiter, events>>
answerVars == <<response, consumed, received>>
vars == <<processVars, taskVars, answerVars>>

Channels == {"stdout", "stderr"}
Writes == 1..MaxWrites
Outputs == [channel : Channels, write : Writes]
Output(c, n) == [channel |-> c, write |-> n]
Events == Outputs \cup {Status}

ASSUME StatusAssumption == Status \notin Outputs

TypeOK ==
  /\ child \in {"running", "exited"}
  /\ holders \in [Channels -> BOOLEAN]
  /\ written \in [Channels -> 0..MaxWrites]
  /\ pipe \in [Channels -> Seq(Writes)]
  /\ \A c \in Channels : Len(pipe[c]) <= PipeCap
  /\ pump \in [Channels -> {"read", "send", "done"}]
  /\ held \in [Channels -> 0..MaxWrites]
  /\ waiter \in {"wait", "join", "send", "done"}
  /\ events \in Seq(Events) /\ Len(events) <= Buffer
  /\ response \in {"collect", "json", "stream", "ended", "dropped"}
  /\ consumed \in Seq(Events)
  /\ received \in Seq(Events)

\* `wait: 0` streams from the first byte.
Init ==
  /\ child = "running"
  /\ holders \in [Channels -> BOOLEAN]
  /\ written = [c \in Channels |-> 0]
  /\ pipe = [c \in Channels |-> <<>>]
  /\ pump = [c \in Channels |-> "read"]
  /\ held = [c \in Channels |-> 0]
  /\ waiter = "wait"
  /\ events = <<>>
  /\ response \in {"collect", "stream"}
  /\ consumed = <<>> /\ received = <<>>

-----------------------------------------------------------------------------
(* The child and what it leaves behind.                                    *)

Open(c) == child = "running" \/ holders[c]

\* A pump that ended has closed its end of the pipe: nothing goes in there.
Write(c) ==
  /\ Open(c) /\ pump[c] # "done"
  /\ written[c] < MaxWrites /\ Len(pipe[c]) < PipeCap
  /\ written' = [written EXCEPT ![c] = @ + 1]
  /\ pipe' = [pipe EXCEPT ![c] = Append(@, written[c] + 1)]
  /\ UNCHANGED <<child, holders, taskVars, answerVars>>

Exit ==
  /\ child = "running"
  /\ child' = "exited"
  /\ UNCHANGED <<holders, written, pipe, taskVars, answerVars>>

HolderExits(c) ==
  /\ child = "exited" /\ holders[c]
  /\ holders' = [holders EXCEPT ![c] = FALSE]
  /\ UNCHANGED <<child, written, pipe, taskVars, answerVars>>

-----------------------------------------------------------------------------
(* The pumps and the waiter.                                               *)

\* The receiver is dropped with the answer.
ReceiverLives == response \in {"collect", "stream"}
Room == ReceiverLives /\ Len(events) < Buffer

\* Mutant: an end of file is read again and again.
PumpRead_IgnoresEnd(c) ==
  /\ pump[c] = "read" /\ pipe[c] # <<>>
  /\ pump' = [pump EXCEPT ![c] = "send"]
  /\ held' = [held EXCEPT ![c] = Head(pipe[c])]
  /\ pipe' = [pipe EXCEPT ![c] = Tail(@)]
  /\ UNCHANGED <<child, holders, written, waiter, events, answerVars>>

PumpRead(c) ==
  /\ pump[c] = "read"
  /\ \/ /\ pipe[c] # <<>>
        /\ pump' = [pump EXCEPT ![c] = "send"]
        /\ held' = [held EXCEPT ![c] = Head(pipe[c])]
        /\ pipe' = [pipe EXCEPT ![c] = Tail(@)]
     \/ /\ pipe[c] = <<>> /\ ~Open(c)
        /\ pump' = [pump EXCEPT ![c] = "done"]
        /\ UNCHANGED <<held, pipe>>
  /\ UNCHANGED <<child, holders, written, waiter, events, answerVars>>

PumpSend(c) ==
  /\ pump[c] = "send"
  /\ \/ /\ Room
        /\ events' = Append(events, Output(c, held[c]))
        /\ pump' = [pump EXCEPT ![c] = "read"]
     \/ /\ ~ReceiverLives
        /\ pump' = [pump EXCEPT ![c] = "done"]
        /\ UNCHANGED events
  /\ held' = [held EXCEPT ![c] = 0]
  /\ UNCHANGED <<waiter, processVars, answerVars>>

\* child.wait, then both pumps, then the status.
WaiterWaits ==
  /\ waiter = "wait" /\ child = "exited"
  /\ waiter' = "join"
  /\ UNCHANGED <<pump, held, events, processVars, answerVars>>

WaiterJoins ==
  /\ waiter = "join" /\ \A c \in Channels : pump[c] = "done"
  /\ waiter' = "send"
  /\ UNCHANGED <<pump, held, events, processVars, answerVars>>

WaiterSends ==
  /\ waiter = "send"
  /\ \/ Room /\ events' = Append(events, Status)
     \/ ~ReceiverLives /\ UNCHANGED events
  /\ waiter' = "done"
  /\ UNCHANGED <<pump, held, processVars, answerVars>>

SendersGone == waiter = "done" /\ \A c \in Channels : pump[c] = "done"

-----------------------------------------------------------------------------
(* The request.                                                            *)

\* collect: an event, and with the terminal one the JSON that `direct` builds
\* from all of them.
Collect ==
  /\ response = "collect" /\ events # <<>>
  /\ events' = Tail(events)
  /\ IF Head(events) = Status
     THEN /\ response' = "json"
          /\ received' = Append(consumed, Status)
          /\ consumed' = <<>>
     ELSE /\ consumed' = Append(consumed, Head(events))
          /\ UNCHANGED <<response, received>>
  /\ UNCHANGED <<pump, held, waiter, processVars>>

Deadline ==
  /\ response = "collect"
  /\ response' = "stream"
  /\ UNCHANGED <<consumed, received, processVars, taskVars>>

\* The body: first what the wait consumed, then the channel.
Stream ==
  /\ response = "stream"
  /\ \/ /\ consumed # <<>>
        /\ received' = Append(received, Head(consumed))
        /\ consumed' = Tail(consumed)
        /\ UNCHANGED <<response, events>>
     \/ /\ consumed = <<>> /\ events # <<>>
        /\ received' = Append(received, Head(events))
        /\ events' = Tail(events)
        /\ UNCHANGED <<response, consumed>>
     \/ /\ consumed = <<>> /\ events = <<>> /\ SendersGone
        /\ response' = "ended"
        /\ UNCHANGED <<events, consumed, received>>
  /\ UNCHANGED <<pump, held, waiter, processVars>>

\* The client goes away: the request or its body is dropped, and the receiver
\* with what is queued.  The child is left to itself.
Disconnect ==
  /\ ReceiverLives
  /\ response' = "dropped"
  /\ events' = <<>> /\ consumed' = <<>>
  /\ UNCHANGED <<received, pump, held, waiter, processVars>>

-----------------------------------------------------------------------------

Answered == response \in {"json", "ended", "dropped"}

\* The request is over; any other state without a step is a deadlock.
Over == Answered /\ SendersGone /\ UNCHANGED vars

Work == \/ \E c \in Channels : Write(c) \/ HolderExits(c) \/ PumpRead(c) \/ PumpSend(c)
        \/ Exit \/ WaiterWaits \/ WaiterJoins \/ WaiterSends
        \/ Collect \/ Deadline \/ Stream

Next == Work \/ Disconnect \/ Over

\* Tasks are scheduled and the deadline comes; the child, its holders and the
\* client, who decides when the body is polled, owe nothing.
Fairness ==
  /\ \A c \in Channels : WF_vars(PumpRead(c)) /\ WF_vars(PumpSend(c))
  /\ WF_vars(WaiterWaits) /\ WF_vars(WaiterJoins) /\ WF_vars(WaiterSends)
  /\ WF_vars(Collect) /\ WF_vars(Deadline)

Safety == Init /\ [][Next]_vars

Spec == Safety /\ Fairness

-----------------------------------------------------------------------------
(* Safety.                                                                 *)

\* The output events of channel c in s, in their order.
On(s, c) ==
  LET on[k \in 0..Len(s)] ==
        IF k = 0 THEN <<>>
        ELSE IF s[k] # Status /\ s[k].channel = c THEN Append(on[k - 1], s[k])
        ELSE on[k - 1]
  IN on[Len(s)]

OnChannel(c) == On(received, c)
FirstN(c, n) == [i \in 1..n |-> Output(c, i)]

\* Each stream from its start without a gap, a repeat or a swap.
StreamsInOrder ==
  \A c \in Channels : IsPrefix(OnChannel(c), FirstN(c, written[c]))

\* The one status is the last event of an answer that is complete, and vouches for
\* everything ever written to both pipes, the child's heirs included.
StatusVouches ==
  /\ response \in {"json", "ended"} =>
       received # <<>> /\ Last(received) = Status
  /\ \A i \in DOMAIN received :
       received[i] = Status =>
         /\ i = Len(received)
         /\ \A c \in Channels : OnChannel(c) = FirstN(c, written[c]) /\ ~Open(c)

\* The answer is what the command did, whether it was collected, replayed or
\* streamed: each stream in order, and whole when there is a status.
AnswerIsTrue == StreamsInOrder /\ StatusVouches

=============================================================================
