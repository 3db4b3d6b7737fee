------------------------------ MODULE PtyStream ------------------------------
(***************************************************************************)
(* The bytes of one attached terminal session, from the process to the     *)
(* client and back: the kernel's terminal queues, the reader and the       *)
(* writer task, the two bounded channels, the loop of Session::run, and a  *)
(* socket whose client may stop reading or go away.                        *)
(*                                                                         *)
(* A chunk of output is its number (1, 2, ... in the order written), and   *)
(* so is a frame of input.  Nothing here looks at the contents.            *)
(***************************************************************************)
EXTENDS Naturals, Sequences, SequencesExt

CONSTANTS
  Loads,       \* bound: pairs of how many chunks the process and its children
               \* write and how many input frames the client sends
  TtyCap,      \* room in each of the terminal's kernel queues
  ChannelCap,  \* capacity of the mpsc channels (128 in the code)
  SocketCap,   \* frames the socket takes while the client does not read
  Status,      \* the terminal frame
  Close,       \* a close frame, or the end of the connection
  Bad          \* a frame `decode` refuses

ASSUME BoundsAssumption ==
  /\ Loads \subseteq Nat \X Nat
  /\ TtyCap \in Nat \ {0} /\ ChannelCap \in Nat \ {0} /\ SocketCap \in Nat \ {0}
\* No frame of output or input is taken for one of the others.
ASSUME FramesAssumption ==
  /\ Status \notin Nat /\ Close \notin Nat /\ Bad \notin Nat
  /\ Status # Close /\ Status # Bad /\ Close # Bad

VARIABLES
  load,       \* the bounds of this run, a member of Loads
  child,      \* the process: "running" or "exited"
  descendant, \* a child of it that keeps the terminal open, by where it lives
  written,    \* chunks written to the terminal so far
  ttyOut,     \* chunks the terminal holds for the reader
  ttyIn,      \* input the terminal holds for the process
  consumed,   \* input the process has read
  exitSent,   \* the waiter has sent the exit status
  reader,     \* the reader task: where it is and the chunk it holds
  outq,       \* the output channel
  writer,     \* the writer task: where it is and the input it holds
  inq,        \* the input channel
  run,        \* Session::run: where it is and the chunk or input it holds
  ended,      \* output_ended
  terminal,   \* terminal is Some
  reclaim,    \* who reclaims the session, and how far
  cancelled,    \* the token is cancelled
  sent,       \* input frames the client has sent
  inbox,      \* frames on their way to the server
  gone,       \* the client's connection is broken
  wire,       \* frames on their way to the client
  received    \* frames the client has read

processVars == <<load, child, descendant, written, ttyOut, ttyIn, consumed, exitSent>>
taskVars == <<reader, outq, writer, inq>>
loopVars == <<run, ended, terminal, reclaim, cancelled>>
clientVars == <<sent, inbox, gone, wire, received>>
streamVars == <<processVars, taskVars, loopVars, clientVars>>

None == 0

MaxOutput == load[1]
MaxInput == load[2]

Chunks == 1..MaxOutput
Inputs == 1..MaxInput
RunPCs == {"select", "sending", "feeding", "leaving", "status", "close", "closed"}

\* A task is its program counter and the chunk or input it holds.
Task(pcs, items) == [pc : pcs, item : items \cup {None}]
At(pc, item) == [pc |-> pc, item |-> item]

StreamTypeOK ==
  /\ load \in Loads
  /\ child \in {"running", "exited"}
  /\ descendant \in {"none", "group", "escaped"}
  /\ written \in 0..MaxOutput
  /\ ttyOut \in Seq(Chunks) /\ Len(ttyOut) <= TtyCap
  /\ ttyIn \in Seq(Inputs) /\ Len(ttyIn) <= TtyCap
  /\ consumed \in Seq(Inputs)
  /\ exitSent \in BOOLEAN
  /\ reader \in Task({"read", "send", "done"}, Chunks)
  /\ outq \in Seq(Chunks) /\ Len(outq) <= ChannelCap
  /\ writer \in Task({"recv", "write", "done"}, Inputs)
  /\ inq \in Seq(Inputs) /\ Len(inq) <= ChannelCap
  /\ run \in Task(RunPCs, Chunks \cup Inputs)
  /\ ended \in BOOLEAN /\ terminal \in BOOLEAN
  /\ reclaim \in {"none", "marked", "reaped", "left"}
  /\ cancelled \in BOOLEAN
  /\ sent \in 0..MaxInput
  /\ gone \in BOOLEAN
  /\ inbox \in Seq(Inputs \cup {Bad, Close})
  /\ wire \in Seq(Chunks \cup {Status, Close}) /\ Len(wire) <= SocketCap
  /\ received \in Seq(Chunks \cup {Status, Close})

StreamInit ==
  /\ load \in Loads
  /\ child = "running"
  /\ descendant \in {"none", "group", "escaped"}
  /\ written = 0 /\ ttyOut = <<>> /\ ttyIn = <<>> /\ consumed = <<>>
  /\ exitSent = FALSE
  /\ reader = At("read", None) /\ outq = <<>>
  /\ writer = At("recv", None) /\ inq = <<>>
  /\ run = At("select", None) /\ ended = FALSE /\ terminal = FALSE
  /\ reclaim = "none" /\ cancelled = FALSE
  /\ sent = 0 /\ inbox = <<>> /\ gone = FALSE /\ wire = <<>> /\ received = <<>>

-----------------------------------------------------------------------------
(* The process: it writes, reads and exits as it likes.                    *)

TerminalOpen == child = "running" \/ descendant # "none"

Write ==
  /\ TerminalOpen /\ written < MaxOutput /\ Len(ttyOut) < TtyCap
  /\ written' = written + 1
  /\ ttyOut' = Append(ttyOut, written + 1)
  /\ UNCHANGED <<load, child, descendant, ttyIn, consumed, exitSent>>
  /\ UNCHANGED <<taskVars, loopVars, clientVars>>

Read ==
  /\ TerminalOpen /\ ttyIn # <<>>
  /\ consumed' = Append(consumed, Head(ttyIn))
  /\ ttyIn' = Tail(ttyIn)
  /\ UNCHANGED <<load, child, descendant, written, ttyOut, exitSent>>
  /\ UNCHANGED <<taskVars, loopVars, clientVars>>

Exit ==
  /\ child = "running"
  /\ child' = "exited"
  /\ UNCHANGED <<load, descendant, written, ttyOut, ttyIn, consumed, exitSent>>
  /\ UNCHANGED <<taskVars, loopVars, clientVars>>

DescendantExit ==
  /\ descendant # "none"
  /\ descendant' = "none"
  /\ UNCHANGED <<load, child, written, ttyOut, ttyIn, consumed, exitSent>>
  /\ UNCHANGED <<taskVars, loopVars, clientVars>>

\* The blocking waiter reports the exit of the process itself, whoever else
\* still has the terminal.
Wait ==
  /\ child = "exited" /\ ~exitSent
  /\ exitSent' = TRUE
  /\ UNCHANGED <<load, child, descendant, written, ttyOut, ttyIn, consumed>>
  /\ UNCHANGED <<taskVars, loopVars, clientVars>>

-----------------------------------------------------------------------------
(* The reader and the writer task: PtyIo::spawn.                           *)

\* A read takes what the terminal holds; it ends only when nobody has the
\* terminal open any more.
ReaderRead ==
  /\ reader.pc = "read"
  /\ \/ /\ ttyOut # <<>>
        /\ reader' = At("send", Head(ttyOut))
        /\ ttyOut' = Tail(ttyOut)
     \/ /\ ttyOut = <<>> /\ ~TerminalOpen
        /\ reader' = At("done", None)
        /\ UNCHANGED ttyOut
  /\ UNCHANGED <<load, child, descendant, written, ttyIn, consumed, exitSent>>
  /\ UNCHANGED <<outq, writer, inq, loopVars, clientVars>>

\* Mutant: a full channel drops the chunk.
ReaderSend_TrySend ==
  /\ reader.pc = "send"
  /\ outq' = IF Len(outq) < ChannelCap THEN Append(outq, reader.item) ELSE outq
  /\ reader' = At("read", None)
  /\ UNCHANGED <<writer, inq, processVars, loopVars, clientVars>>

\* A chunk nobody can receive any more is dropped, and the reading goes on.
ReaderSend ==
  /\ reader.pc = "send"
  /\ \/ /\ run.pc # "closed" /\ Len(outq) < ChannelCap
        /\ outq' = Append(outq, reader.item)
     \/ /\ run.pc = "closed"
        /\ UNCHANGED outq
  /\ reader' = At("read", None)
  /\ UNCHANGED <<writer, inq, processVars, loopVars, clientVars>>

WriterRecv ==
  /\ writer.pc = "recv" /\ inq # <<>>
  /\ writer' = At("write", Head(inq))
  /\ inq' = Tail(inq)
  /\ UNCHANGED <<reader, outq, processVars, loopVars, clientVars>>

WriterWrite ==
  /\ writer.pc = "write" /\ Len(ttyIn) < TtyCap
  /\ writer' = At("recv", None)
  /\ ttyIn' = Append(ttyIn, writer.item)
  /\ UNCHANGED <<load, child, descendant, written, ttyOut, consumed, exitSent>>
  /\ UNCHANGED <<reader, outq, inq, loopVars, clientVars>>

\* With nobody at the terminal the write may fail, which ends the task and
\* closes its channel.
WriterFails ==
  /\ writer.pc = "write" /\ ~TerminalOpen
  /\ writer' = At("done", None)
  /\ inq' = <<>>
  /\ UNCHANGED <<reader, outq, processVars, loopVars, clientVars>>

\* Mutant: the writer task is not aborted.
Terminate_KeepsWriter ==
  /\ child' = "exited"
  /\ descendant' = IF descendant = "group" THEN "none" ELSE descendant
  /\ reader' = At("done", None)
  /\ UNCHANGED <<load, writer, inq, written, ttyOut, ttyIn, consumed, exitSent, outq>>

\* ProcessHandle::terminate: the process group is killed, what escaped from it
\* is not; both tasks are aborted with whatever they hold.
Terminate ==
  /\ child' = "exited"
  /\ descendant' = IF descendant = "group" THEN "none" ELSE descendant
  /\ reader' = At("done", None)
  /\ writer' = At("done", None)
  /\ inq' = <<>>
  /\ UNCHANGED <<load, written, ttyOut, ttyIn, consumed, exitSent, outq>>

-----------------------------------------------------------------------------
(* Session::run: one action per branch of the select, and per wait.        *)

RunGoto(from, to, item) == run.pc = from /\ run' = At(to, item)

RunStopped ==
  /\ cancelled
  /\ RunGoto("select", "leaving", None)
  /\ UNCHANGED <<ended, terminal, reclaim, cancelled, processVars, taskVars, clientVars>>

RunIncoming ==
  /\ inbox # <<>>
  /\ inbox' = Tail(inbox)
  /\ IF Head(inbox) \in {Bad, Close}
     THEN RunGoto("select", "leaving", None)
     ELSE RunGoto("select", "feeding", Head(inbox))
  /\ UNCHANGED <<ended, terminal, reclaim, cancelled, processVars, taskVars>>
  /\ UNCHANGED <<sent, gone, wire, received>>

\* apply: the input waits for room in the writer's channel; a closed channel
\* swallows it.
RunFeed ==
  /\ \/ /\ writer.pc # "done" /\ Len(inq) < ChannelCap
        /\ inq' = Append(inq, run.item)
     \/ /\ writer.pc = "done"
        /\ UNCHANGED inq
  /\ RunGoto("feeding", "select", None)
  /\ UNCHANGED <<reader, outq, writer, ended, terminal, reclaim, cancelled>>
  /\ UNCHANGED <<processVars, clientVars>>

RunOutput ==
  /\ ~ended
  /\ \/ /\ outq # <<>>
        /\ RunGoto("select", "sending", Head(outq))
        /\ outq' = Tail(outq)
        /\ UNCHANGED ended
     \/ /\ outq = <<>> /\ reader.pc = "done" /\ run.pc = "select"
        /\ ended' = TRUE
        /\ UNCHANGED <<run, outq>>
  /\ UNCHANGED <<reader, writer, inq, terminal, reclaim, cancelled>>
  /\ UNCHANGED <<processVars, clientVars>>

\* sink.send puts a frame on the wire once the client has made room for it.
Put(frame) == Len(wire) < SocketCap /\ wire' = Append(wire, frame)

\* The last frames are sent without looking at the outcome.
PutOrFail(frame) == Put(frame) \/ (gone /\ UNCHANGED wire)

RunSend ==
  /\ RunGoto("sending", "select", None)
  /\ Put(run.item)
  /\ UNCHANGED <<ended, terminal, reclaim, cancelled, processVars, taskVars>>
  /\ UNCHANGED <<sent, inbox, gone, received>>

\* A broken connection refuses the frame, and the loop ends.
RunSendFails ==
  /\ gone
  /\ RunGoto("sending", "leaving", None)
  /\ UNCHANGED <<ended, terminal, reclaim, cancelled, processVars, taskVars, clientVars>>

RunExit ==
  /\ ended /\ exitSent
  /\ RunGoto("select", "leaving", None)
  /\ terminal' = TRUE
  /\ UNCHANGED <<ended, reclaim, cancelled, processVars, taskVars, clientVars>>

\* Mutant: only a session that ran to its end is reclaimed.
RunReclaim_OnExitOnly ==
  /\ RunGoto("leaving", IF terminal THEN "status" ELSE "close", None)
  /\ \/ /\ reclaim = "none" /\ terminal
        /\ reclaim' = "left" /\ cancelled' = TRUE
        /\ Terminate
     \/ /\ reclaim # "none" \/ ~terminal
        /\ UNCHANGED <<reclaim, cancelled, processVars, taskVars>>
  /\ UNCHANGED <<ended, terminal, clientVars>>

\* Past the loop: reclaim first, unless the reaper has begun to.
RunReclaim ==
  /\ RunGoto("leaving", IF terminal THEN "status" ELSE "close", None)
  /\ \/ /\ reclaim = "none"
        /\ reclaim' = "left" /\ cancelled' = TRUE
        /\ Terminate
     \/ /\ reclaim # "none"
        /\ UNCHANGED <<reclaim, cancelled, processVars, taskVars>>
  /\ UNCHANGED <<ended, terminal, clientVars>>

RunStatus ==
  /\ RunGoto("status", "close", None)
  /\ PutOrFail(Status)
  /\ UNCHANGED <<ended, terminal, reclaim, cancelled, processVars, taskVars>>
  /\ UNCHANGED <<sent, inbox, gone, received>>

\* The output receiver is dropped with the task.
RunClose ==
  /\ RunGoto("close", "closed", None)
  /\ PutOrFail(Close)
  /\ outq' = <<>>
  /\ UNCHANGED <<ended, terminal, reclaim, cancelled, processVars>>
  /\ UNCHANGED <<reader, writer, inq, sent, inbox, gone, received>>

-----------------------------------------------------------------------------
(* The reaper, on a session that was quiet for too long.  PtySession says   *)
(* when; here it may come at any time.                                      *)

ReapStop ==
  /\ reclaim = "none"
  /\ reclaim' = "marked" /\ cancelled' = TRUE
  /\ UNCHANGED <<run, ended, terminal, processVars, taskVars, clientVars>>

ReapTerminate ==
  /\ reclaim = "marked"
  /\ reclaim' = "reaped"
  /\ Terminate
  /\ UNCHANGED <<run, ended, terminal, cancelled, clientVars>>

-----------------------------------------------------------------------------
(* The client.                                                             *)

Connected == ~gone /\ {Bad, Close} \cap ToSet(inbox) = {}

ClientSends ==
  /\ Connected /\ sent < MaxInput
  /\ sent' = sent + 1
  /\ inbox' = Append(inbox, sent + 1)
  /\ UNCHANGED <<gone, wire, received, processVars, taskVars, loopVars>>

ClientEnds ==
  /\ Connected /\ run.pc \in {"select", "sending", "feeding"}
  /\ \E frame \in {Bad, Close} : inbox' = Append(inbox, frame)
  /\ UNCHANGED <<sent, gone, wire, received, processVars, taskVars, loopVars>>

\* The connection breaks; the server reads it as the end of the frames.
ClientVanishes ==
  /\ ~gone
  /\ gone' = TRUE
  /\ inbox' = Append(inbox, Close)
  /\ UNCHANGED <<sent, wire, received, processVars, taskVars, loopVars>>

ClientReads ==
  /\ ~gone /\ wire # <<>>
  /\ received' = Append(received, Head(wire))
  /\ wire' = Tail(wire)
  /\ UNCHANGED <<sent, inbox, gone, processVars, taskVars, loopVars>>

-----------------------------------------------------------------------------

Process == Write \/ Read \/ Exit \/ DescendantExit

Tasks == ReaderRead \/ ReaderSend \/ WriterRecv \/ WriterWrite \/ WriterFails

Run == \/ RunStopped \/ RunIncoming \/ RunFeed \/ RunOutput \/ RunSend
       \/ RunSendFails \/ RunExit \/ RunReclaim \/ RunStatus \/ RunClose

Client == ClientSends \/ ClientEnds \/ ClientVanishes \/ ClientReads

\* The session is over; any other state without a step is a deadlock.
Over == run.pc = "closed" /\ child = "exited" /\ exitSent /\ UNCHANGED streamVars

StreamNext == Over \/ Process \/ Wait \/ Tasks \/ Run \/ ReapStop \/ ReapTerminate \/ Client

\* The loop waits inside a turn, so it touches no deadline, and the reaper's
\* clock runs out.
Blocked == run.pc \in {"sending", "feeding"}

\* The server's tasks are scheduled; select! takes a branch that is ready again
\* and again.  Neither the process nor the client owes anybody a step.
StreamFairness ==
  /\ WF_streamVars(Wait)
  /\ WF_streamVars(ReaderRead) /\ WF_streamVars(ReaderSend)
  /\ WF_streamVars(WriterRecv) /\ WF_streamVars(WriterWrite)
  /\ SF_streamVars(RunStopped) /\ SF_streamVars(RunIncoming) /\ SF_streamVars(RunOutput)
  /\ SF_streamVars(RunExit)
  /\ WF_streamVars(RunFeed) /\ WF_streamVars(RunSend) /\ WF_streamVars(RunSendFails)
  /\ WF_streamVars(RunReclaim) /\ WF_streamVars(RunStatus) /\ WF_streamVars(RunClose)
  /\ WF_streamVars(ReapStop /\ Blocked) /\ WF_streamVars(ReapTerminate)

StreamSafety == StreamInit /\ [][StreamNext]_streamVars

StreamSpec == StreamSafety /\ StreamFairness

-----------------------------------------------------------------------------
(* Safety.                                                                 *)

Frames == received \o wire

\* What the client gets is what the process wrote, from the start, without a
\* gap, a repeat or a swap, through two queues, a task and a socket.
OutputInOrder ==
  \A i \in DOMAIN Frames :
    Frames[i] \in Chunks => i <= written /\ \A j \in 1..i : Frames[j] = j

\* Input reaches the process in the order the client sent it, as the protocol
\* promises: a prefix of it, since the end of the session drops the rest.
InputInOrder == Len(consumed) <= sent /\ \A i \in DOMAIN consumed : consumed[i] = i

\* The status is the last word: nothing but the close follows it, and a
\* session that was not reaped has sent all its output by then, that of the
\* process's children on the terminal included.
StatusEndsOutput ==
  \A i \in DOMAIN Frames :
    Frames[i] = Status =>
      /\ \A j \in DOMAIN Frames : j > i => Frames[j] = Close
      /\ reclaim = "left" => i = written + 1 /\ \A j \in 1..written : Frames[j] = j

\* The terminal loses nothing either way, whatever queue is full, and the status
\* does not overtake what precedes it; no queue outgrows its channel.
BytesInOrder == StreamTypeOK /\ OutputInOrder /\ InputInOrder /\ StatusEndsOutput

-----------------------------------------------------------------------------
(* Liveness.                                                               *)

\* Full input and output channels, a process that writes before it reads and
\* a loop that waits to feed it wait for each other; the wait always ends.
FeedingEnds == run.pc = "feeding" ~> run.pc # "feeding"

\* Either end's leaving ends the other.  A client that closes or vanishes ends the
\* process, even when the loop does not look because it waits on a full channel or
\* a full socket: the reaper does it then.  A client that always reads on sees the
\* session of a process that is gone end.
EitherEndEnds ==
  /\ Close \in ToSet(inbox) /\ run.pc # "closed" ~> child = "exited"
  /\ []<>(wire = <<>>) =>
       (child = "exited" /\ descendant = "none" ~> run.pc = "closed")
=============================================================================
