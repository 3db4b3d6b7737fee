---------------------------- MODULE Server_proofs ----------------------------
(***************************************************************************)
(* Proofs about Server for any number of servers and tools, any cache and   *)
(* any deadlines.  A server that has the cache to itself may take what it   *)
(* reads for what it wrote: the socket that answers is its own tusd's, and  *)
(* a tool it found whole, or made whole, stays so.                          *)
(***************************************************************************)
EXTENDS Server, TLAPS

\* What the place of `main` says of tusd and of the requests.
Life ==
  \A s \in Servers :
    /\ pc[s] \in {"off", "release", "start"} => tusd[s] = "none"
    /\ pc[s] = "off" => \A t \in Tools : task[s][t] = "digest"
    /\ Busy(s) => pc[s] \in {"serve", "drain"}
    /\ \A t \in Tools : s \in tool[t].writers => pc[s] = "release" /\ task[s][t] = "fill"

\* Nobody is there beside a server that runs undisturbed.
Alone ==
  \A s \in Servers :
    Up(s) /\ ~disturbed[s] => \A o \in Servers \ {s} : ~Up(o) /\ ~Alive(o)

\* Its tusd is the one that answers, from the wait until it is told to stop.
Mounted ==
  \A s \in Servers :
    ~disturbed[s] =>
      /\ pc[s] \in {"registry", "bind", "serve", "drain", "term"} =>
           tusd[s] = "listens" /\ socket = s
      /\ relay[s] = "waits" => peer[s] = s
      /\ relay[s] # "502"

\* The tools it has released are whole.
ToolsWhole ==
  \A s \in Servers, t \in Tools :
    /\ pc[s] \in Starting \cup {"serve"} /\ ~disturbed[s]
    /\ pc[s] = "release" => task[s][t] \in {"mode", "done"}
    => tool[t].bytes = "whole"

Inv == TypeOK /\ Life /\ NoOrphan /\ Alone /\ Mounted /\ ToolsWhole

-----------------------------------------------------------------------------
\* Initially nothing runs and nobody writes.
LEMMA InitInv == Init => Inv
<1> SUFFICES ASSUME Init PROVE Inv
  OBVIOUS
<1>1. TypeOK
  BY ServerAssumption DEF Init, TypeOK, ToolFiles, Starting
<1>2. \A t \in Tools : tool[t].writers = {}
  BY ServerAssumption DEF Init
<1>3. Life /\ NoOrphan /\ Alone /\ Mounted /\ ToolsWhole
  BY <1>2 DEF Init, Life, NoOrphan, Alone, Mounted, ToolsWhole, Up, Busy, Starting, Stopping
<1> QED BY <1>1, <1>3 DEF Inv

-----------------------------------------------------------------------------
(* Types.                                                                  *)

LEMMA TypeStep ==
  ASSUME TypeOK, NEW s \in Servers, Step(s), Watches(s)
  PROVE  TypeOK'
<1> USE DEF TypeOK
<1>1. disturbed' \in [Servers -> BOOLEAN]
  BY DEF Watches
<1>2. ASSUME NEW t \in Tools, NEW x \in ToolFiles, tool' = [tool EXCEPT ![t] = x]
      PROVE  tool' \in [Tools -> ToolFiles]
  BY <1>2
<1>3. ASSUME NEW t \in Tools, NEW from, NEW to \in {"open", "fill", "mode", "done", "failed"},
             Task(s, t, from, to), tool' \in [Tools -> ToolFiles]
      PROVE  TypeOK'
  <2>1. task' \in [Servers -> [Tools -> {"digest", "open", "fill", "mode", "done", "failed"}]]
    BY <1>3 DEF Task
  <2> QED BY <1>1, <1>3, <2>1 DEF Task, relayVars
<1>4. ASSUME NEW t \in Tools, Digest(s, t) PROVE TypeOK'
  BY <1>3, <1>4 DEF Digest
<1>5. ASSUME NEW t \in Tools, OpenTool(s, t) PROVE TypeOK'
  <2>1. CASE Task(s, t, "open", "failed") /\ UNCHANGED tool
    BY <1>3, <2>1
  <2>2. CASE ~(Task(s, t, "open", "failed") /\ UNCHANGED tool)
    <3> DEFINE x == [bytes |-> "other", exec |-> tool[t].exec /\ tool[t].bytes # "none",
                     writers |-> tool[t].writers \cup {s}]
    <3>1. tool' = [tool EXCEPT ![t] = x] /\ Task(s, t, "open", "fill")
      BY <1>5, <2>2 DEF OpenTool
    <3>2. tool[t].writers \cup {s} \in SUBSET Servers /\ (tool[t].exec /\ tool[t].bytes # "none") \in BOOLEAN
      BY DEF ToolFiles
    <3>3. x \in ToolFiles
      BY <3>2 DEF ToolFiles
    <3> HIDE DEF x
    <3> QED BY <1>2, <1>3, <3>1, <3>3
  <2> QED BY <2>1, <2>2
<1>6. ASSUME NEW t \in Tools, FillTool(s, t) PROVE TypeOK'
  <2> DEFINE x == [bytes |-> "whole", exec |-> tool[t].exec, writers |-> tool[t].writers \ {s}]
             y == [bytes |-> tool[t].bytes, exec |-> tool[t].exec, writers |-> tool[t].writers \ {s}]
  <2>0. tool[t] \in ToolFiles
    OBVIOUS
  <2>1. x \in ToolFiles /\ y \in ToolFiles
    BY <2>0 DEF ToolFiles
  <2>2. tool' = [tool EXCEPT ![t] = x] \/ tool' = [tool EXCEPT ![t] = y]
    BY <1>6 DEF FillTool
  <2> HIDE DEF x, y
  <2>4. tool' \in [Tools -> ToolFiles]
    BY <1>2, <2>1, <2>2
  <2> QED BY <1>3, <1>6, <2>4 DEF FillTool
<1>7. ASSUME NEW t \in Tools, SetMode(s, t) PROVE TypeOK'
  <2>1. tool' \in [Tools -> ToolFiles]
    BY ZenonT(60), <1>7 DEF SetMode, ToolFiles
  <2> QED BY <1>3, <1>7, <2>1 DEF SetMode
<1>8. ASSUME Fails(s) PROVE /\ pc' \in [Servers -> {"off", "serve"} \cup Starting \cup Stopping \cup Ended]
                          /\ tusd' \in [Servers -> {"none", "boots", "listens", "stops", "dead"}]
  BY <1>8 DEF Fails, Ended
<1>9. ASSUME NEW from, NEW to \in {"off", "serve"} \cup Starting \cup Stopping \cup Ended, Goes(s, from, to)
      PROVE  pc' \in [Servers -> {"off", "serve"} \cup Starting \cup Stopping \cup Ended]
  BY <1>9 DEF Goes
<1>10. {"release", "start", "wait", "registry", "bind", "drain", "term", "reap", "exited"}
         \subseteq Starting \cup Stopping \cup Ended
  BY DEF Starting, Stopping, Ended
<1>11. CASE Released(s)
  BY <1>1, <1>8, <1>9, <1>10, <1>11 DEF Released, cacheVars, relayVars
<1>12. CASE Spawn(s)
  <2>1. Patience \in 0..Patience
    BY ServerAssumption
  <2>2. CASE Runs(Tusd)
    <3>1. Goes(s, "start", "wait") /\ tusd' = [tusd EXCEPT ![s] = "boots"]
            /\ left' = [left EXCEPT ![s] = Patience]
      BY <1>12, <2>2 DEF Spawn
    <3> QED BY <1>1, <1>9, <1>10, <1>12, <2>1, <3>1 DEF Spawn, cacheVars, relayVars
  <2>3. CASE ~Runs(Tusd)
    BY <1>1, <1>8, <1>12, <2>3 DEF Spawn, cacheVars, relayVars
  <2> QED BY <2>2, <2>3
<1>13. CASE WaitListening(s)
  <2>1. left' \in [Servers -> 0..Patience]
    BY <1>13, ServerAssumption DEF WaitListening
  <2>2. CASE UNCHANGED pc
    BY <1>1, <1>13, <2>1, <2>2 DEF WaitListening, cacheVars, relayVars, Goes, Fails
  <2>3. CASE Goes(s, "wait", "registry") /\ UNCHANGED tusd
    BY <1>1, <1>9, <1>10, <1>13, <2>1, <2>3 DEF WaitListening, cacheVars, relayVars
  <2>4. CASE Fails(s)
    BY <1>1, <1>8, <1>13, <2>1, <2>4 DEF WaitListening, cacheVars, relayVars
  <2> QED BY <1>13, <2>2, <2>3, <2>4 DEF WaitListening
<1>14. CASE Prepare(s)
  BY <1>1, <1>8, <1>9, <1>10, <1>14 DEF Prepare, cacheVars, relayVars
<1>15. CASE Drain(s) \/ Rest(s) \/ Begin(s)
  BY <1>1, <1>9, <1>10, <1>15 DEF Drain, Rest, Begin, cacheVars, relayVars
<1>16. CASE Terminate(s)
  BY <1>1, <1>9, <1>10, <1>16, ServerAssumption DEF Terminate, cacheVars, relayVars
<1>17. CASE Reap(s)
  <2>1. left' \in [Servers -> 0..Patience]
    <3>1. left[s] > 0 => left[s] - 1 \in 0..Patience
      BY ServerAssumption
    <3>2. UNCHANGED left \/ (left[s] > 0 /\ left' = [left EXCEPT ![s] = left[s] - 1])
      BY <1>17 DEF Reap
    <3> QED BY <3>1, <3>2
  <2>2. CASE UNCHANGED <<pc, tusd>>
    BY <1>1, <1>17, <2>1, <2>2 DEF Reap, cacheVars, relayVars
  <2>3. CASE Goes(s, "reap", "exited") /\ tusd' = [tusd EXCEPT ![s] = "dead"]
    BY <1>1, <1>9, <1>10, <1>17, <2>1, <2>3 DEF Reap, cacheVars, relayVars
  <2> QED BY <1>17, <2>2, <2>3 DEF Reap
<1>18. CASE Request(s) \/ Connect(s) \/ Respond(s)
  BY ZenonT(60), <1>1, <1>18 DEF Request, Connect, Respond, Relays, Reachable, cacheVars, mainVars
<1>19. CASE Boot(s) \/ TusdEnds(s)
  BY <1>1, <1>19 DEF Boot, TusdEnds, mainVars, relayVars
<1>20. CASE Signal(s) \/ Kill(s)
  <2>1. ASSUME NEW t \in Tools PROVE [tool[t] EXCEPT !.writers = @ \ {s}] \in ToolFiles
    <3>1. tool[t] \in ToolFiles
      OBVIOUS
    <3> QED BY <3>1 DEF ToolFiles
  <2>2. ASSUME NEW how \in Ended, Dies(s, how) PROVE TypeOK'
    BY <1>1, <2>1, <2>2 DEF Dies
  <2>3. CASE asked' = [asked EXCEPT ![s] = TRUE]
             /\ UNCHANGED <<cacheVars, pc, task, left, tusd, relayVars>>
    BY <1>1, <2>3 DEF cacheVars, relayVars
  <2> QED BY <1>20, <2>2, <2>3 DEF Signal, Kill, Ended
<1> QED BY <1>4, <1>5, <1>6, <1>7, <1>11, <1>12, <1>13, <1>14, <1>15, <1>16, <1>17, <1>18, <1>19, <1>20
        DEF Step, Main, Release

\* A step of one server leaves the others' places, tusds, requests and files alone.
LEMMA Frame ==
  ASSUME TypeOK, NEW s \in Servers, Step(s), NEW o \in Servers \ {s}
  PROVE  /\ pc'[o] = pc[o] /\ task'[o] = task[o] /\ tusd'[o] = tusd[o]
         /\ relay'[o] = relay[o] /\ peer'[o] = peer[o]
         /\ \A t \in Tools : o \in tool'[t].writers <=> o \in tool[t].writers
<1> USE DEF TypeOK
<1> DEFINE Same == /\ pc'[o] = pc[o] /\ task'[o] = task[o] /\ tusd'[o] = tusd[o]
                   /\ relay'[o] = relay[o] /\ peer'[o] = peer[o]
                   /\ \A t \in Tools : o \in tool'[t].writers <=> o \in tool[t].writers
<1> SUFFICES Same
  OBVIOUS
<1>1. ASSUME NEW t \in Tools, Digest(s, t) \/ OpenTool(s, t) \/ FillTool(s, t) \/ SetMode(s, t)
      PROVE  Same
  <2>1. \A u \in Tools : o \in tool'[u].writers <=> o \in tool[u].writers
    <3>1. CASE Digest(s, t) \/ OpenTool(s, t)
      BY SMTT(40), <3>1 DEF Digest, OpenTool
    <3>2. CASE FillTool(s, t)
      BY SMTT(40), <3>2 DEF FillTool
    <3>3. CASE SetMode(s, t)
      BY <3>3 DEF SetMode, ToolFiles
    <3> QED BY <1>1, <3>1, <3>2, <3>3
  <2> QED BY <1>1, <2>1 DEF Digest, OpenTool, FillTool, SetMode, Task, relayVars
<1>2. CASE Released(s) \/ Spawn(s) \/ WaitListening(s) \/ Prepare(s)
  BY <1>2 DEF Released, Spawn, WaitListening, Prepare, Goes, Fails, cacheVars, relayVars
<1>3. CASE Drain(s) \/ Rest(s) \/ Terminate(s) \/ Reap(s) \/ Begin(s)
  BY <1>3 DEF Drain, Rest, Terminate, Reap, Begin, Goes, cacheVars, relayVars
<1>4. CASE Request(s) \/ Connect(s) \/ Respond(s)
  BY <1>4 DEF Request, Connect, Respond, Relays, cacheVars, mainVars
<1>5. CASE Boot(s) \/ TusdEnds(s)
  BY <1>5 DEF Boot, TusdEnds, mainVars, relayVars
<1>6. CASE Signal(s) \/ Kill(s)
  BY <1>6 DEF Signal, Kill, Dies, cacheVars, relayVars, ToolFiles
<1> QED BY <1>1, <1>2, <1>3, <1>4, <1>5, <1>6 DEF Step, Main, Release

-----------------------------------------------------------------------------
(* What holds of every server.                                             *)

LEMMA LifeStep ==
  ASSUME TypeOK, Life, NoOrphan, NEW s \in Servers, Step(s)
  PROVE  Life' /\ NoOrphan'
<1> USE DEF TypeOK
<1> DEFINE Own == /\ pc'[s] \in {"off", "release", "start"} => tusd'[s] = "none"
                  /\ pc'[s] = "off" => \A t \in Tools : task'[s][t] = "digest"
                  /\ Busy(s)' => pc'[s] \in {"serve", "drain"}
                  /\ \A t \in Tools : s \in tool'[t].writers =>
                                        pc'[s] = "release" /\ task'[s][t] = "fill"
                  /\ pc'[s] \in {"exited", "failed"} => tusd'[s] \in {"none", "dead"}
<1>9. ASSUME NEW o \in Servers \ {s}
      PROVE  /\ pc'[o] \in {"off", "release", "start"} => tusd'[o] = "none"
             /\ pc'[o] = "off" => \A t \in Tools : task'[o][t] = "digest"
             /\ Busy(o)' => pc'[o] \in {"serve", "drain"}
             /\ \A t \in Tools : o \in tool'[t].writers =>
                                   pc'[o] = "release" /\ task'[o][t] = "fill"
             /\ pc'[o] \in {"exited", "failed"} => tusd'[o] \in {"none", "dead"}
  BY <1>9, Frame DEF Life, NoOrphan, Busy
<1> SUFFICES Own
  BY <1>9 DEF Life, NoOrphan
<1>0. /\ pc[s] \in {"off", "release", "start"} => tusd[s] = "none"
      /\ pc[s] = "off" => \A t \in Tools : task[s][t] = "digest"
      /\ Busy(s) => pc[s] \in {"serve", "drain"}
      /\ \A t \in Tools : s \in tool[t].writers => pc[s] = "release" /\ task[s][t] = "fill"
      /\ pc[s] \in {"exited", "failed"} => tusd[s] \in {"none", "dead"}
  BY DEF Life, NoOrphan
<1>1. ASSUME NEW t \in Tools, Digest(s, t) \/ OpenTool(s, t) \/ FillTool(s, t) \/ SetMode(s, t)
      PROVE  Own
  <2>1. \A u \in Tools : s \in tool'[u].writers => task'[s][u] = "fill"
    <3>1. CASE Digest(s, t)
      BY <1>0, <3>1 DEF Digest, Task
    <3>2. CASE OpenTool(s, t)
      BY SMTT(40), <1>0, <3>2 DEF OpenTool, Task
    <3>3. CASE FillTool(s, t)
      <4>1. s \notin tool'[t].writers
        BY <3>3 DEF FillTool
      <4>2. \A u \in Tools \ {t} : tool'[u] = tool[u] /\ task'[s][u] = task[s][u]
        BY <3>3 DEF FillTool, Task
      <4> QED BY <1>0, <4>1, <4>2
    <3>4. CASE SetMode(s, t)
      <4>1. \A u \in Tools : tool'[u].writers = tool[u].writers
        BY <3>4 DEF SetMode, ToolFiles
      <4> QED BY <1>0, <3>4, <4>1 DEF SetMode, Task
    <3> QED BY <1>1, <3>1, <3>2, <3>3, <3>4
  <2> QED BY <1>0, <1>1, <2>1 DEF Digest, OpenTool, FillTool, SetMode, Task, relayVars, Busy
<1>2. CASE Released(s)
  BY <1>0, <1>2 DEF Released, Goes, Fails, Alive, Busy, cacheVars, relayVars
<1>3. CASE Spawn(s)
  BY <1>0, <1>3 DEF Spawn, Goes, Fails, Alive, Busy, cacheVars, relayVars
<1>4. CASE WaitListening(s) \/ Prepare(s)
  BY <1>0, <1>4 DEF WaitListening, Prepare, Goes, Fails, Alive, Busy, cacheVars, relayVars
<1>5. CASE Drain(s) \/ Rest(s) \/ Terminate(s) \/ Reap(s) \/ Begin(s)
  BY <1>0, <1>5 DEF Drain, Rest, Terminate, Reap, Begin, Goes, Busy, cacheVars, relayVars
<1>6. CASE Request(s) \/ Connect(s) \/ Respond(s)
  BY <1>0, <1>6 DEF Request, Connect, Respond, Relays, Busy, cacheVars, mainVars
<1>7. CASE Boot(s) \/ TusdEnds(s)
  BY <1>0, <1>7 DEF Boot, TusdEnds, Alive, Busy, mainVars, relayVars
<1>8. CASE Signal(s) \/ Kill(s)
  <2>1. CASE asked' = [asked EXCEPT ![s] = TRUE]
             /\ UNCHANGED <<cacheVars, pc, task, left, tusd, relayVars>>
    BY <1>0, <2>1 DEF Busy, cacheVars, relayVars
  <2>2. ASSUME NEW how \in {"terminated", "killed"}, Dies(s, how) PROVE Own
    <3>1. \A t \in Tools : s \notin tool'[t].writers
      BY <2>2 DEF Dies, ToolFiles
    <3>2. pc'[s] = how /\ relay'[s] = "none"
      BY <2>2 DEF Dies
    <3> QED BY <3>1, <3>2 DEF Busy
  <2> QED BY <1>8, <2>1, <2>2 DEF Signal, Kill
<1> QED BY <1>1, <1>2, <1>3, <1>4, <1>5, <1>6, <1>7, <1>8 DEF Step, Main, Release

LEMMA AloneStep ==
  ASSUME TypeOK, NEW s \in Servers, Step(s), Watches(s)
  PROVE  Alone'
  BY DEF TypeOK, Watches, Alone

-----------------------------------------------------------------------------
(* What holds of a server that has the cache to itself.                    *)

\* The socket goes to a tusd that lives, or is taken away by one.
LEMMA SocketFrame ==
  ASSUME NEW s \in Servers, Step(s), ~Alive(s)
  PROVE  socket' = socket
  BY DEF Step, Main, Release, Digest, OpenTool, FillTool, SetMode, Task, Released, Spawn,
         WaitListening, Prepare, Drain, Rest, Terminate, Reap, Begin, Request, Connect, Respond,
         Relays, Boot, TusdEnds, Signal, Kill, Dies, Alive, cacheVars

LEMMA MountedStep ==
  ASSUME Inv, NEW s \in Servers, Step(s), Watches(s)
  PROVE  Mounted'
<1> USE DEF Inv, TypeOK
<1> DEFINE Serves == {"registry", "bind", "serve", "drain", "term"}
           Own(q) == /\ pc'[q] \in Serves => tusd'[q] = "listens" /\ socket' = q
                     /\ relay'[q] = "waits" => peer'[q] = q
                     /\ relay'[q] # "502"
<1>1. SUFFICES ASSUME NEW q \in Servers, ~disturbed'[q] PROVE Own(q)
  BY DEF Mounted
<1>2. ~disturbed[q]
  BY <1>1 DEF Watches
<1>3. /\ pc[q] \in Serves => tusd[q] = "listens" /\ socket = q
      /\ relay[q] = "waits" => peer[q] = q
      /\ relay[q] # "502"
      /\ Busy(q) => pc[q] \in {"serve", "drain"}
      /\ Up(q) => \A o \in Servers \ {q} : ~Up(o) /\ ~Alive(o)
  BY <1>2 DEF Mounted, Life, Alone
<1>4. CASE q # s
  <2>1. pc[q] \in Serves => socket' = socket
    BY <1>3, <1>4, SocketFrame DEF Up, Starting, Stopping
  <2> QED BY <1>3, <1>4, <2>1, Frame
<1>5. CASE q = s
  <2>1. CASE \E t \in Tools : Digest(s, t) \/ OpenTool(s, t) \/ FillTool(s, t) \/ SetMode(s, t)
    BY <1>3, <1>5, <2>1 DEF Digest, OpenTool, FillTool, SetMode, Task, relayVars
  <2>2. CASE Released(s) \/ Spawn(s) \/ Begin(s)
    BY <1>3, <1>5, <2>2 DEF Released, Spawn, Begin, Goes, Fails, cacheVars, relayVars
  <2>3. CASE WaitListening(s)
    <3>1. Reachable => tusd[s] = "listens" /\ socket = s
      BY <1>3, <1>5, <2>3 DEF WaitListening, Reachable, Alive, Up, Starting
    <3> QED BY <1>3, <1>5, <2>3, <3>1 DEF WaitListening, Goes, Fails, cacheVars, relayVars
  <2>4. CASE Prepare(s)
    BY <1>3, <1>5, <2>4 DEF Prepare, Goes, Fails, cacheVars, relayVars
  <2>5. CASE Drain(s) \/ Rest(s) \/ Terminate(s) \/ Reap(s)
    BY <1>3, <1>5, <2>5 DEF Drain, Rest, Terminate, Reap, Goes, cacheVars, relayVars
  <2>6. CASE Request(s)
    BY <1>3, <1>5, <2>6 DEF Request, Relays, cacheVars, mainVars
  <2>7. CASE Connect(s)
    <3>1. Reachable /\ socket = s
      BY <1>3, <1>5, <2>7, ServerAssumption DEF Connect, Relays, Busy, Reachable
    <3> QED BY <1>3, <1>5, <2>7, <3>1 DEF Connect, Relays, cacheVars, mainVars
  <2>8. CASE Respond(s)
    <3>1. Alive(peer[s])
      BY <1>3, <1>5, <2>8 DEF Respond, Busy, Alive
    <3> QED BY <1>3, <1>5, <2>8, <3>1 DEF Respond, Relays, cacheVars, mainVars
  <2>9. CASE Boot(s)
    BY <1>3, <1>5, <2>9 DEF Boot, mainVars, relayVars
  <2>10. CASE TusdEnds(s)
    <3>1. pc[s] = "reap"
      BY <1>1, <1>5, <2>10 DEF Watches
    <3> QED BY <1>3, <1>5, <2>10, <3>1 DEF TusdEnds, mainVars, relayVars
  <2>11. CASE Signal(s) \/ Kill(s)
    BY <1>3, <1>5, <2>11 DEF Signal, Kill, Dies, cacheVars, relayVars
  <2> QED BY <2>1, <2>2, <2>3, <2>4, <2>5, <2>6, <2>7, <2>8, <2>9, <2>10, <2>11
          DEF Step, Main, Release
<1> QED BY <1>4, <1>5

\* Only the task that releases a tool touches its bytes.
LEMMA ToolFrame ==
  ASSUME TypeOK, NEW s \in Servers, Step(s), NEW t \in Tools,
         ~(pc[s] = "release" /\ (OpenTool(s, t) \/ FillTool(s, t)))
  PROVE  tool'[t].bytes = tool[t].bytes
<1> USE DEF TypeOK, ToolFiles
<1>1. CASE \E u \in Tools : Digest(s, u) \/ SetMode(s, u)
  <2>1. PICK u \in Tools : UNCHANGED tool \/ tool' = [tool EXCEPT ![u].exec = TRUE]
    BY <1>1 DEF Digest, SetMode
  <2>2. tool[u] \in ToolFiles
    OBVIOUS
  <2> QED BY ZenonT(60), <2>1, <2>2
<1>2. CASE \E u \in Tools : OpenTool(s, u) \/ FillTool(s, u)
  <2>1. PICK u \in Tools : OpenTool(s, u) \/ FillTool(s, u)
    BY <1>2
  <2>2. u # t
    BY <2>1 DEF OpenTool, FillTool, Task
  <2> QED BY <2>1, <2>2 DEF OpenTool, FillTool
<1>3. CASE Signal(s) \/ Kill(s)
  <2>1. tool' = tool \/ tool' = [u \in Tools |-> [tool[u] EXCEPT !.writers = @ \ {s}]]
    BY <1>3 DEF Signal, Kill, Dies, cacheVars
  <2>2. tool[t] \in ToolFiles
    OBVIOUS
  <2> QED BY <2>1, <2>2
<1> QED BY <1>1, <1>2, <1>3
        DEF Step, Main, Release, Released, Spawn, WaitListening, Prepare, Drain, Rest, Terminate,
            Reap, Begin, Request, Connect, Respond, Relays, Boot, TusdEnds, cacheVars

LEMMA WholeStep ==
  ASSUME Inv, NEW s \in Servers, Step(s), Watches(s)
  PROVE  ToolsWhole'
<1> USE DEF Inv, TypeOK
<1>1. SUFFICES ASSUME NEW q \in Servers, NEW t \in Tools, ~disturbed'[q],
                      pc'[q] \in Starting \cup {"serve"},
                      pc'[q] = "release" => task'[q][t] \in {"mode", "done"}
               PROVE  tool'[t].bytes = "whole"
  BY DEF ToolsWhole
<1>2. ~disturbed[q]
  BY <1>1 DEF Watches
<1>3. /\ pc[q] \in Starting \cup {"serve"} /\ (pc[q] = "release" => task[q][t] \in {"mode", "done"})
           => tool[t].bytes = "whole"
      /\ Up(q) => \A o \in Servers \ {q} : ~Up(o) /\ ~Alive(o)
      /\ pc[q] = "off" => task[q][t] = "digest"
  BY <1>2 DEF ToolsWhole, Life, Alone
<1>4. CASE q # s
  <2>1. pc'[q] = pc[q] /\ task'[q] = task[q]
    BY <1>4, Frame
  <2>2. pc[s] # "release"
    BY <1>1, <1>3, <1>4, <2>1 DEF Up, Starting
  <2> QED BY <1>1, <1>3, <2>1, <2>2, ToolFrame
<1>5. CASE q = s
  <2>1. CASE \E u \in Tools \ {t} : Digest(s, u) \/ OpenTool(s, u) \/ FillTool(s, u) \/ SetMode(s, u)
    BY <1>1, <1>3, <1>5, <2>1 DEF Digest, OpenTool, FillTool, SetMode, Task, ToolFiles
  <2>2. CASE Digest(s, t)
    BY <1>1, <1>5, <2>2 DEF Digest, Task
  <2>3. CASE OpenTool(s, t)
    BY <1>1, <1>5, <2>3 DEF OpenTool, Task
  <2>4. CASE FillTool(s, t)
    BY <1>1, <1>5, <2>4 DEF FillTool, Task
  <2>5. CASE SetMode(s, t)
    BY <1>3, <1>5, <2>5 DEF SetMode, Task, Starting, ToolFiles
  <2>6. CASE Released(s)
    BY <1>1, <1>3, <1>5, <2>6 DEF Released, Goes, Fails, Starting, cacheVars
  <2>7. CASE Begin(s)
    BY <1>1, <1>3, <1>5, <2>7 DEF Begin, Goes, cacheVars
  <2>8. CASE Spawn(s) \/ WaitListening(s) \/ Prepare(s)
    BY <1>1, <1>3, <1>5, <2>8 DEF Spawn, WaitListening, Prepare, Goes, Fails, Starting, cacheVars
  <2>9. CASE Drain(s) \/ Rest(s) \/ Terminate(s) \/ Reap(s)
    BY <1>1, <1>3, <1>5, <2>9 DEF Drain, Rest, Terminate, Reap, Goes, Starting, cacheVars
  <2>10. CASE Request(s) \/ Connect(s) \/ Respond(s) \/ Boot(s) \/ TusdEnds(s)
    BY <1>1, <1>3, <1>5, <2>10
       DEF Request, Connect, Respond, Relays, Boot, TusdEnds, cacheVars, mainVars
  <2>11. CASE Signal(s) \/ Kill(s)
    BY <1>1, <1>3, <1>5, <2>11, ToolFrame
       DEF Signal, Kill, Dies, cacheVars, Starting, OpenTool, FillTool, Task
  <2> QED BY <2>1, <2>2, <2>3, <2>4, <2>5, <2>6, <2>7, <2>8, <2>9, <2>10, <2>11
          DEF Step, Main, Release
<1> QED BY <1>4, <1>5

-----------------------------------------------------------------------------
(* The theorems.                                                           *)

\* The invariant holds of every state of every server.
THEOREM ServerInv == Spec => []Inv
<1>1. ASSUME Inv, Next PROVE Inv'
  BY <1>1, TypeStep, LifeStep, AloneStep, MountedStep, WholeStep DEF Inv, Next
<1>2. Inv /\ UNCHANGED vars => Inv'
  BY DEF vars, cacheVars, mainVars, relayVars, Inv, TypeOK, Life, NoOrphan, Alone, Mounted,
         ToolsWhole, Up, Alive, Busy
<1> QED BY InitInv, <1>1, <1>2, PTL DEF Spec

\* The type invariant, whatever the number of servers, tools and polls.
THEOREM ServerTypes == Spec => []TypeOK
<1>1. Inv => TypeOK
  BY DEF Inv
<1> QED BY ServerInv, <1>1, PTL

\* No start and no stop that main itself ends leaves its tusd behind
\* (kill_on_drop on every early return, Sidecar::stop on the last).
THEOREM NoTusdIsOrphaned == Spec => []NoOrphan
<1>1. Inv => NoOrphan
  BY DEF Inv
<1> QED BY ServerInv, <1>1, PTL

\* As long as no other server is there and tusd lives, no request to the mount is
\* answered 502 and none is under way without it (main's order of start and stop).
THEOREM MountAlwaysAnswers == Spec => []MountAnswers
<1>1. Inv => MountAnswers
  BY DEF Inv, Mounted, Life, MountAnswers
<1> QED BY ServerInv, <1>1, PTL

\* What release skipped or wrote is whole when a server without company goes on
\* from there, whatever was in the cache.
THEOREM ToolsServedAreWhole == Spec => []ServedToolsAreWhole
<1>1. Inv => ServedToolsAreWhole
  <2> SUFFICES ASSUME Inv, NEW s \in Servers, ~disturbed[s], NEW t \in Tools,
                      pc[s] \in {"start", "wait", "registry", "bind", "serve"}
               PROVE  tool[t].bytes = "whole" /\ tool[t].writers = {}
    BY DEF ServedToolsAreWhole
  <2>1. Up(s) /\ \A o \in Servers \ {s} : ~Up(o)
    BY DEF Inv, Alone, Up, Starting
  <2>2. \A o \in Servers : o \notin tool[t].writers
    BY <2>1 DEF Inv, Life, Up, Starting
  <2>3. tool[t].writers \subseteq Servers
    BY DEF Inv, TypeOK, ToolFiles
  <2> QED BY <2>2, <2>3 DEF Inv, ToolsWhole, Starting
<1> QED BY ServerInv, <1>1, PTL
=============================================================================
