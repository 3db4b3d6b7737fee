------------------------------- MODULE Server -------------------------------
(***************************************************************************)
(* `sbxtkt serve` from its start to its end: it releases its tools into the *)
(* cache directory, starts tusd from there, serves, and on a signal comes   *)
(* to rest and takes tusd down.  The cache directory and tusd's socket in   *)
(* it outlive a server, and every server of one user shares them: a server  *)
(* here is one run of the program, beside or after the others.              *)
(*                                                                         *)
(* tusd and the kernel are external.  tusd may die or hang at any time.     *)
(***************************************************************************)
EXTENDS Naturals

CONSTANTS
  Servers,   \* the runs of the program
  Tools,     \* the embedded tools
  Tusd,      \* the one of them that is the sidecar
  Found,     \* what may be in the cache: functions from Tools to a tool file
  Patience,  \* READY and SHUTDOWN, counted in polls
  Nobody

ASSUME ServerAssumption ==
  /\ Tusd \in Tools /\ Patience \in Nat \ {0} /\ Nobody \notin Servers
  /\ Found \subseteq
       [Tools -> [bytes : {"none", "other", "whole"}, exec : BOOLEAN, writers : {{}}]]

VARIABLES
  tool,      \* tool[t]: its bytes, whether it may be executed, and who writes it
  socket,    \* the server whose tusd the socket in the cache belongs to
  pc,        \* pc[s]: where `main` is
  task,      \* task[s][t]: the next call of the task that releases t
  tusd,      \* tusd[s]: the tusd s started
  left,      \* left[s]: the polls left of a deadline
  asked,     \* asked[s]: a signal reached its handler
  relay,     \* relay[s]: a request to /tus
  peer,      \* peer[s]: the server whose tusd it is relayed to
  disturbed  \* history: while s ran another server or its tusd did, or tusd died

cacheVars == <<tool, socket>>
mainVars == <<pc, task, left, asked>>
relayVars == <<relay, peer>>
vars == <<cacheVars, mainVars, tusd, relayVars, disturbed>>

File(bytes, exec) == [bytes |-> bytes, exec |-> exec, writers |-> {}]

Starting == {"release", "start", "wait", "registry", "bind"}
Stopping == {"drain", "term", "reap"}
Ended == {"exited", "failed", "terminated", "killed"}

Up(s) == pc[s] \in Starting \cup {"serve"} \cup Stopping
Alive(s) == tusd[s] \in {"boots", "listens", "stops"}
Busy(s) == relay[s] \in {"connect", "waits"}

Init ==
  /\ tool \in Found
  /\ socket = Nobody
  /\ pc = [s \in Servers |-> "off"]
  /\ task = [s \in Servers |-> [t \in Tools |-> "digest"]]
  /\ tusd = [s \in Servers |-> "none"]
  /\ left = [s \in Servers |-> Patience]
  /\ asked = [s \in Servers |-> FALSE]
  /\ relay = [s \in Servers |-> "none"]
  /\ peer = [s \in Servers |-> Nobody]
  /\ disturbed = [s \in Servers |-> FALSE]

Goes(s, from, to) == pc[s] = from /\ pc' = [pc EXCEPT ![s] = to]

Begin(s) ==
  /\ Goes(s, "off", "release")
  /\ UNCHANGED <<cacheVars, task, left, asked, tusd, relayVars>>

\* Mutant: tusd is not killed on drop.
Fails_Leaves(s) == pc' = [pc EXCEPT ![s] = "failed"] /\ UNCHANGED tusd

\* `main` returns early: the sidecar is dropped, and tusd killed with it.
Fails(s) ==
  /\ pc' = [pc EXCEPT ![s] = "failed"]
  /\ tusd' = [tusd EXCEPT ![s] = IF Alive(s) THEN "dead" ELSE @]

-----------------------------------------------------------------------------
(* materialize: one blocking task per tool.                                *)

Task(s, t, from, to) ==
  /\ pc[s] = "release" /\ task[s][t] = from
  /\ task' = [task EXCEPT ![s][t] = to]
  /\ UNCHANGED <<socket, pc, left, asked, tusd, relayVars>>

\* Mutant: a tool that is there is left alone, whatever it holds.
Digest_Exists(s, t) ==
  Task(s, t, "digest", IF tool[t].bytes # "none" THEN "done" ELSE "open") /\ UNCHANGED tool

\* A tool that holds exactly the embedded bytes is left alone.
Digest(s, t) ==
  Task(s, t, "digest", IF tool[t].bytes = "whole" THEN "done" ELSE "open") /\ UNCHANGED tool

\* The kernel refuses to write to an executable that runs.
Executing(t) == t = Tusd /\ \E s \in Servers : Alive(s)

\* fs::write empties the file, or makes one that cannot be executed, ...
OpenTool(s, t) ==
  IF Executing(t) /\ tool[t].bytes # "none"
  THEN Task(s, t, "open", "failed") /\ UNCHANGED tool
  ELSE /\ Task(s, t, "open", "fill")
       /\ tool' = [tool EXCEPT ![t] = [bytes |-> "other",
                                      exec |-> @.exec /\ @.bytes # "none",
                                      writers |-> @.writers \cup {s}]]

\* ... and fills it, unless the disk is full.
FillTool(s, t) ==
  \/ /\ Task(s, t, "fill", "mode")
     /\ tool' = [tool EXCEPT ![t] =
                    [bytes |-> "whole", exec |-> @.exec, writers |-> @.writers \ {s}]]
  \/ /\ Task(s, t, "fill", "failed")
     /\ tool' = [tool EXCEPT ![t] =
                    [bytes |-> @.bytes, exec |-> @.exec, writers |-> @.writers \ {s}]]

SetMode(s, t) ==
  Task(s, t, "mode", "done") /\ tool' = [tool EXCEPT ![t].exec = TRUE]

\* All tasks are joined.  After one has failed the runtime waits for those that
\* have begun; one that has not is not begun any more.
Released(s) ==
  /\ pc[s] = "release"
  /\ \/ /\ \A t \in Tools : task[s][t] = "done"
        /\ Goes(s, "release", "start") /\ UNCHANGED tusd
     \/ /\ \E t \in Tools : task[s][t] = "failed"
        /\ \A t \in Tools : task[s][t] \in {"digest", "done", "failed"}
        /\ Fails(s)
  /\ UNCHANGED <<cacheVars, task, left, asked, relayVars>>

-----------------------------------------------------------------------------
(* Sidecar.                                                                *)

\* The kernel executes a file that is executable, whole, and that nobody writes.
Runs(t) == tool[t].exec /\ tool[t].bytes = "whole" /\ tool[t].writers = {}

Spawn(s) ==
  /\ pc[s] = "start"
  /\ IF Runs(Tusd)
     THEN /\ Goes(s, "start", "wait")
          /\ tusd' = [tusd EXCEPT ![s] = "boots"]
          /\ left' = [left EXCEPT ![s] = Patience]
     ELSE Fails(s) /\ UNCHANGED left
  /\ UNCHANGED <<cacheVars, task, asked, relayVars>>

Reachable == socket # Nobody /\ tusd[socket] = "listens"

\* One poll of wait_listening.
WaitListening(s) ==
  /\ pc[s] = "wait"
  /\ \/ Reachable /\ Goes(s, "wait", "registry") /\ UNCHANGED <<left, tusd>>
     \/ ~Reachable /\ (~Alive(s) \/ left[s] = 0) /\ Fails(s) /\ UNCHANGED left
     \/ /\ ~Reachable /\ Alive(s) /\ left[s] > 0
        /\ left' = [left EXCEPT ![s] = @ - 1]
        /\ UNCHANGED <<pc, tusd>>
  /\ UNCHANGED <<cacheVars, task, asked, relayVars>>

\* Registry::new and the listener may fail; with the second one the signals
\* have their handler.
Prepare(s) ==
  /\ pc[s] \in {"registry", "bind"}
  /\ \/ Goes(s, "registry", "bind") /\ UNCHANGED tusd
     \/ Goes(s, "bind", "serve") /\ UNCHANGED tusd
     \/ Fails(s)
  /\ UNCHANGED <<cacheVars, task, left, asked, relayVars>>

\* The graceful stop takes no request any more ...
Drain(s) ==
  /\ asked[s] /\ Goes(s, "serve", "drain")
  /\ UNCHANGED <<cacheVars, task, left, asked, tusd, relayVars>>

\* Mutant: the requests under way are not waited for.
Rest_Now(s) ==
  Goes(s, "drain", "term") /\ UNCHANGED <<cacheVars, task, left, asked, tusd, relayVars>>

\* ... and ends with the last one that is under way, however long it takes.
Rest(s) ==
  /\ ~Busy(s) /\ Goes(s, "drain", "term")
  /\ UNCHANGED <<cacheVars, task, left, asked, tusd, relayVars>>

\* Sidecar::stop asks tusd to stop ...
Terminate(s) ==
  /\ Goes(s, "term", "reap")
  /\ tusd' = [tusd EXCEPT ![s] = IF Alive(s) THEN "stops" ELSE @]
  /\ left' = [left EXCEPT ![s] = Patience]
  /\ UNCHANGED <<cacheVars, task, asked, relayVars>>

\* Mutant: and waits until it does.
Reap_Waits(s) ==
  /\ tusd[s] = "dead" /\ Goes(s, "reap", "exited")
  /\ UNCHANGED <<cacheVars, task, left, asked, tusd, relayVars>>

\* ... and waits for it, or kills it when the time is up.
Reap(s) ==
  /\ pc[s] = "reap"
  /\ \/ /\ tusd[s] = "dead" \/ left[s] = 0
        /\ Goes(s, "reap", "exited")
        /\ tusd' = [tusd EXCEPT ![s] = "dead"]
        /\ UNCHANGED left
     \/ /\ Alive(s) /\ left[s] > 0
        /\ left' = [left EXCEPT ![s] = @ - 1]
        /\ UNCHANGED <<pc, tusd>>
  /\ UNCHANGED <<cacheVars, task, asked, relayVars>>

-----------------------------------------------------------------------------
(* Upstream::forward.                                                      *)

Relays(s, from, to) ==
  /\ relay[s] = from
  /\ relay' = [relay EXCEPT ![s] = to]
  /\ UNCHANGED <<cacheVars, mainVars, tusd>>

Request(s) ==
  pc[s] = "serve" /\ relay[s] \in {"none", "answered", "502"}
    /\ Relays(s, relay[s], "connect") /\ UNCHANGED peer

Connect(s) ==
  IF Reachable THEN Relays(s, "connect", "waits") /\ peer' = [peer EXCEPT ![s] = socket]
  ELSE Relays(s, "connect", "502") /\ UNCHANGED peer

\* The handshake and send_request: a tusd that stops still answers what it has.
Respond(s) ==
  /\ relay[s] = "waits"
  /\ \/ Alive(peer[s]) /\ Relays(s, "waits", "answered")
     \/ ~Alive(peer[s]) /\ Relays(s, "waits", "502")
  /\ UNCHANGED peer

-----------------------------------------------------------------------------
(* tusd, and those who send signals.                                       *)

\* It takes the socket over from whoever had it.
Boot(s) ==
  /\ tusd[s] = "boots"
  /\ tusd' = [tusd EXCEPT ![s] = "listens"]
  /\ socket' = s
  /\ UNCHANGED <<tool, mainVars, relayVars>>

\* When it ends by itself it may remove the socket, whoever has it by now.
TusdEnds(s) ==
  /\ Alive(s)
  /\ tusd' = [tusd EXCEPT ![s] = "dead"]
  /\ socket' \in {socket, Nobody}
  /\ UNCHANGED <<tool, mainVars, relayVars>>

\* The process is gone with its tasks and requests; its tusd is not.
Dies(s, how) ==
  /\ pc' = [pc EXCEPT ![s] = how]
  /\ tool' = [t \in Tools |-> [tool[t] EXCEPT !.writers = @ \ {s}]]
  /\ relay' = [relay EXCEPT ![s] = "none"]
  /\ UNCHANGED <<socket, task, left, asked, tusd, peer>>

\* SIGTERM or SIGINT: before there is a handler the kernel ends the process.
Signal(s) ==
  \/ pc[s] \in Starting /\ Dies(s, "terminated")
  \/ /\ pc[s] = "serve"
     /\ asked' = [asked EXCEPT ![s] = TRUE]
     /\ UNCHANGED <<cacheVars, pc, task, left, tusd, relayVars>>

Kill(s) == Up(s) /\ Dies(s, "killed")

-----------------------------------------------------------------------------

Release(s) ==
  \/ \E t \in Tools : Digest(s, t) \/ OpenTool(s, t) \/ FillTool(s, t) \/ SetMode(s, t)
  \/ Released(s)
Main(s) ==
  \/ Release(s)
  \/ Spawn(s) \/ WaitListening(s) \/ Prepare(s)
  \/ Drain(s) \/ Rest(s) \/ Terminate(s) \/ Reap(s)

Step(s) ==
  \/ Begin(s) \/ Main(s)
  \/ Request(s) \/ Connect(s) \/ Respond(s)
  \/ Boot(s) \/ TusdEnds(s) \/ Signal(s) \/ Kill(s)

Watches(mover) ==
  disturbed' = [s \in Servers |->
    \/ disturbed[s]
    \/ Up(s)' /\ \E o \in Servers \ {s} : Up(o)' \/ Alive(o)'
    \/ s = mover /\ pc[s] # "reap" /\ TusdEnds(s)]

Next == \E s \in Servers : Step(s) /\ Watches(s)

Fairness == \A s \in Servers : WF_vars(Main(s) /\ Watches(s))

Spec == Init /\ [][Next]_vars /\ Fairness

-----------------------------------------------------------------------------
(* Safety.                                                                 *)

ToolFiles == [bytes : {"none", "other", "whole"}, exec : BOOLEAN, writers : SUBSET Servers]

TypeOK ==
  /\ tool \in [Tools -> ToolFiles]
  /\ socket \in Servers \cup {Nobody}
  /\ pc \in [Servers -> {"off", "serve"} \cup Starting \cup Stopping \cup Ended]
  /\ task \in [Servers -> [Tools -> {"digest", "open", "fill", "mode", "done", "failed"}]]
  /\ tusd \in [Servers -> {"none", "boots", "listens", "stops", "dead"}]
  /\ left \in [Servers -> 0..Patience]
  /\ asked \in [Servers -> BOOLEAN]
  /\ relay \in [Servers -> {"none", "connect", "waits", "answered", "502"}]
  /\ peer \in [Servers -> Servers \cup {Nobody}]
  /\ disturbed \in [Servers -> BOOLEAN]

\* main: "Reached only once tusd takes requests, so the mount answers from the
\* first request on", and "a request that is still running is answered by a
\* tusd that is still up".  So it is for a server that has the cache to itself,
\* unless tusd dies.
MountAnswers ==
  \A s \in Servers :
    ~disturbed[s] => relay[s] # "502" /\ (Busy(s) => tusd[s] = "listens")

\* Whatever is in the cache when it starts, torn files of a server that was killed
\* included, a server that has the cache to itself serves with tools that are whole.
ServedToolsAreWhole ==
  \A s \in Servers :
    pc[s] \in {"start", "wait", "registry", "bind", "serve"} /\ ~disturbed[s] =>
      \A t \in Tools : tool[t].bytes = "whole" /\ tool[t].writers = {}

\* A server that ends by itself, however its start or its stop goes, leaves no
\* tusd behind.
NoOrphan ==
  \A s \in Servers : pc[s] \in {"exited", "failed"} => tusd[s] \in {"none", "dead"}

-----------------------------------------------------------------------------
(* Liveness.                                                               *)

\* A start ends, in serving or failing, although tusd may never listen; and a stop
\* ends, although tusd may never do, unless a request does not.
StartAndStopEnd ==
  \A s \in Servers :
    /\ pc[s] \in Starting ~> pc[s] \in {"serve"} \cup Ended
    /\ []<>~Busy(s) => (asked[s] ~> pc[s] \in Ended)

-----------------------------------------------------------------------------
(* What the documents say and the code does not do.                        *)

\* A test asserts that every tool is executable once the server serves.  A start
\* that dies between the write of a tool and its chmod leaves a file with the right
\* digest, which every later start leaves alone.
ServedToolsRun ==
  \A s \in Servers :
    pc[s] = "serve" /\ ~disturbed[s] => \A t \in Tools : tool[t].exec

=============================================================================
