------------------------------ MODULE Pty_proofs ------------------------------
(***************************************************************************)
(* Proofs about PtySession for every set of sessions and requests and for  *)
(* all deadlines.  The safety invariants the runs check are not inductive  *)
(* by themselves: whether a claim finds the attachment depends on where    *)
(* every other actor stands in its own claim or reclaim.  Inv adds what    *)
(* ties the actors to the sessions they deal with.                         *)
(*                                                                         *)
(* What PtyStream says of the bytes, for any loads and any room.  A chunk   *)
(* is in one place, and its number is its place in the line of all places:  *)
(* the frames, the hand of the loop, the channel, the hand of the task, the *)
(* terminal.  So is a frame of input, from the process back to the client.  *)
(***************************************************************************)
EXTENDS PtySession, PtyStream, TLAPS

\* What place, stage, attachment and process say of each other.
Lifecycle ==
  \A s \in Sessions :
    /\ place[s] = "absent" => stage[s] = "none" /\ ~terminated[s]
    /\ place[s] \in {"spawned", "abandoned"} => stage[s] = "pending"
    /\ place[s] = "registered" => stage[s] # "none"
    /\ place[s] = "removed" => stage[s] = "reclaimed"
    /\ stage[s] = "pending" /\ place[s] # "abandoned" => stored[s]
    /\ stage[s] = "reclaimed" =>
         terminated[s] \/ \E a \in Actors : target[a] = s /\ pc[a] \in Reclaiming

\* What an actor's place in its code says of its session.
Standing ==
  /\ \A h \in Handlers :
       /\ pc[h] = "claim" => place[target[h]] \in {"registered", "removed"}
       /\ pc[h] \in Claimed => /\ place[target[h]] \in {"registered", "removed"}
                               /\ stage[target[h]] \in {"attached", "reclaimed"}
  /\ \A s \in batch : place[s] = "registered"
  /\ pc[Reaper] = "mark" => place[target[Reaper]] = "registered"
  /\ \A a \in Actors :
       /\ pc[a] \in Reclaiming => /\ stage[target[a]] = "reclaimed"
                                  /\ place[target[a]] \in {"registered", "removed"}
       /\ pc[a] \in {"cancel", "kill"} => ~stored[target[a]]
       /\ pc[a] = "kill" => stopped[target[a]]

Inv == /\ TypeOK /\ Lifecycle /\ Standing
       /\ OneClient /\ ClosedIsGone /\ OneReclaimer /\ TerminatedIsReleased

-----------------------------------------------------------------------------

\* Inv holds before the first session is created.
LEMMA InitInv == Init => Inv
BY ActorsAssumption, DeadlinesAssumption
   DEF Init, Inv, TypeOK, Lifecycle, Standing, OneClient, ClosedIsGone,
       OneReclaimer, TerminatedIsReleased, Actors, Places, Stages, Reasons,
       HandlerPCs, ReaperPCs, Claimed, Running, Reclaiming, Closing

\* A turn of the serving loop, whatever it does to the deadline, keeps Inv: the
\* handler stays past its claim and before its reclaim.
LEMMA ServingMove ==
  ASSUME Inv, NEW h \in Handlers, NEW to \in Running \cup {"mark"},
         pc[h] \in Running \cup {"upgrade"},
         pc' = [pc EXCEPT ![h] = to],
         left' \in [Sessions -> Nat], reason' \in [Handlers -> Reasons],
         UNCHANGED <<place, stage, stored, stopped, terminated>>,
         UNCHANGED <<target, holds, inScope, batch, claimant>>
  PROVE  Inv'
<1> USE ActorsAssumption DEF Actors, Claimed, Running, Reclaiming, Closing
<1>1. TypeOK'
  BY DEF Inv, TypeOK, HandlerPCs, ReaperPCs
<1>2. \A a \in Actors : pc'[a] \in Reclaiming <=> pc[a] \in Reclaiming
  BY DEF Inv, TypeOK
<1>3. Lifecycle'
  BY <1>2 DEF Inv, TypeOK, Lifecycle
<1>4. Standing'
  BY DEF Inv, TypeOK, Standing
<1>5. OneClient' /\ ClosedIsGone'
  BY DEF Inv, TypeOK, OneClient, ClosedIsGone
<1>6. OneReclaimer'
  BY <1>2 DEF Inv, TypeOK, OneReclaimer
<1>7. TerminatedIsReleased'
  BY DEF Inv, TerminatedIsReleased
<1> QED
  BY <1>1, <1>3, <1>4, <1>5, <1>6, <1>7 DEF Inv

\* Creating a session keeps Inv: no actor deals with a session before it is in
\* the map.
LEMMA CreatingInv ==
  ASSUME Inv, NEW s \in Sessions, Creating(s)
  PROVE  Inv'
<1> USE ActorsAssumption, DeadlinesAssumption
        DEF Actors, Claimed, Running, Reclaiming, Closing, actorVars
<1>1. ASSUME Spawn(s) PROVE Inv'
  BY <1>1 DEF Spawn, Inv, TypeOK, Lifecycle, Standing, OneClient, ClosedIsGone,
              OneReclaimer, TerminatedIsReleased, Places, Stages
<1>2. ASSUME Register(s) PROVE Inv'
  BY <1>2 DEF Register, Inv, TypeOK, Lifecycle, Standing, OneClient,
              ClosedIsGone, OneReclaimer, TerminatedIsReleased, Places
<1>3. ASSUME Abandon(s) PROVE Inv'
  BY <1>3 DEF Abandon, Inv, TypeOK, Lifecycle, Standing, OneClient,
              ClosedIsGone, OneReclaimer, TerminatedIsReleased, Places
<1> QED
  BY <1>1, <1>2, <1>3 DEF Creating

\* Attaching keeps Inv: of the requests for one session a single one gets past
\* the stage, and the attachment waits for it unless the session is reclaimed.
LEMMA AttachingInv ==
  ASSUME Inv, NEW h \in Handlers, Attaching(h)
  PROVE  Inv'
<1> USE ActorsAssumption, DeadlinesAssumption
        DEF Actors, Claimed, Running, Reclaiming, Closing, Goto, sessionVars
<1>1. ASSUME Lookup(h) PROVE Inv'
  <2>1. \A a \in Actors : pc'[a] \in Reclaiming <=> pc[a] \in Reclaiming
    BY <1>1 DEF Lookup, Inv, TypeOK
  <2>2. TypeOK'
    BY <1>1 DEF Lookup, Inv, TypeOK, HandlerPCs, ReaperPCs
  <2>3. Lifecycle'
    BY <1>1, <2>1 DEF Lookup, Inv, Lifecycle
  <2>4. Standing'
    BY <1>1 DEF Lookup, Inv, TypeOK, Standing
  <2>5. OneClient' /\ ClosedIsGone' /\ TerminatedIsReleased'
    BY <1>1 DEF Lookup, Inv, TypeOK, OneClient, ClosedIsGone, TerminatedIsReleased
  <2>6. OneReclaimer'
    BY <1>1, <2>1 DEF Lookup, Inv, OneReclaimer
  <2> QED
    BY <2>2, <2>3, <2>4, <2>5, <2>6 DEF Inv
<1>2. ASSUME Claim(h) PROVE Inv'
  <2>1. \A a \in Actors : pc'[a] \in Reclaiming <=> pc[a] \in Reclaiming
    BY <1>2 DEF Claim, Inv, TypeOK
  <2>2. TypeOK'
    BY SMTT(40), <1>2 DEF Claim, Inv, TypeOK, HandlerPCs, ReaperPCs, Stages
  <2>3. Lifecycle'
    BY <1>2, <2>1 DEF Claim, Claimable, Inv, TypeOK, Lifecycle, Standing
  <2>4. Standing'
    BY <1>2 DEF Claim, Claimable, Inv, TypeOK, Lifecycle, Standing
  <2>5. OneClient'
    BY <1>2 DEF Claim, Claimable, Inv, TypeOK, Lifecycle, Standing, OneClient
  <2>6. ClosedIsGone'
    BY <1>2 DEF Claim, Claimable, Inv, TypeOK, ClosedIsGone
  <2>7. OneReclaimer'
    BY <1>2, <2>1 DEF Claim, Inv, OneReclaimer
  <2>8. TerminatedIsReleased'
    BY <1>2 DEF Claim, Claimable, Inv, TypeOK, TerminatedIsReleased, Lifecycle,
                Standing
  <2> QED
    BY <2>2, <2>3, <2>4, <2>5, <2>6, <2>7, <2>8 DEF Inv
<1>3. ASSUME Take(h) PROVE Inv'
  <2>1. \A a \in Actors : pc'[a] \in Reclaiming <=> pc[a] \in Reclaiming
    BY <1>3 DEF Take, Inv, TypeOK
  <2>2. TypeOK'
    BY ZenonT(60), <1>3 DEF Take, Inv, TypeOK, HandlerPCs, ReaperPCs
  <2>3. Lifecycle' /\ Standing'
    BY SMTT(40), <1>3, <2>1 DEF Take, Inv, TypeOK, Lifecycle, Standing
  <2>4. OneClient'
    <3>1. CASE stored[target[h]]
      BY <1>3, <3>1 DEF Take, Inv, TypeOK, OneClient
    <3>2. CASE ~stored[target[h]]
      BY <1>3, <3>2 DEF Take, Inv, TypeOK, OneClient
    <3> QED
      BY <3>1, <3>2
  <2>5. ClosedIsGone' /\ OneReclaimer' /\ TerminatedIsReleased'
    BY SMTT(40), <1>3, <2>1 DEF Take, Inv, TypeOK, ClosedIsGone, OneReclaimer,
                      TerminatedIsReleased
  <2> QED
    BY <2>2, <2>3, <2>4, <2>5 DEF Inv
<1>4. ASSUME NotUpgradable(h) PROVE Inv'
  BY <1>4 DEF NotUpgradable, Inv, TypeOK, Lifecycle, Standing, OneClient,
              ClosedIsGone, OneReclaimer, TerminatedIsReleased, HandlerPCs,
              ReaperPCs
<1>5. ASSUME Upgraded(h) PROVE Inv'
  BY <1>5, ServingMove DEF Upgraded, Inv, TypeOK
<1>6. ASSUME UpgradeFails(h) PROVE Inv'
  BY <1>6, ServingMove DEF UpgradeFails, Inv, TypeOK, Reasons
<1> QED
  BY <1>1, <1>2, <1>3, <1>4, <1>5, <1>6 DEF Attaching

\* Serving keeps Inv: every turn of the loop is a ServingMove, and the frames
\* after the reclaim find the session gone.
LEMMA ServingInv ==
  ASSUME Inv, NEW h \in Handlers, Serving(h)
  PROVE  Inv'
<1> USE ActorsAssumption, DeadlinesAssumption
<1>1. ASSUME NEW s \in Sessions, Touch(s)
      PROVE  left' \in [Sessions -> Nat]
  BY <1>1 DEF Touch, Inv, TypeOK
<1>2. target[h] \in Sessions /\ left \in [Sessions -> Nat]
        /\ reason \in [Handlers -> Reasons]
  BY DEF Inv, TypeOK, Actors
<1>3. ASSUME Activity(h) PROVE Inv'
  <2>1. pc' = [pc EXCEPT ![h] = "run"]
    BY <1>3 DEF Activity, actorVars, Inv, TypeOK
  <2> QED
    BY <1>1, <1>2, <1>3, <2>1, ServingMove DEF Activity, actorVars, Running
<1>4. ASSUME Feed(h) PROVE Inv'
  BY <1>1, <1>2, <1>4, ServingMove DEF Feed, Goto, Running
<1>5. ASSUME FeedDone(h) PROVE Inv'
  BY <1>2, <1>5, ServingMove DEF FeedDone, Goto, Running, sessionVars
<1>6. ASSUME Send(h) PROVE Inv'
  BY <1>2, <1>6, ServingMove DEF Send, Goto, Running, sessionVars
<1>7. ASSUME SendDone(h) PROVE Inv'
  BY <1>1, <1>2, <1>7, ServingMove DEF SendDone, Goto, Running
<1>8. ASSUME NEW from \in Running, NEW why \in Reasons, Leave(h, from, why),
             left' \in [Sessions -> Nat]
      PROVE  Inv'
  BY <1>2, <1>8, ServingMove DEF Leave, Goto
<1>9. ASSUME LeaveStopped(h) PROVE Inv'
  BY <1>2, <1>8, <1>9 DEF LeaveStopped, Running, Reasons
<1>10. ASSUME LeaveClosed(h) PROVE Inv'
  BY <1>2, <1>8, <1>10 DEF LeaveClosed, Running, Reasons
<1>11. ASSUME LeaveBadFrame(h) PROVE Inv'
  BY <1>1, <1>2, <1>8, <1>11 DEF LeaveBadFrame, Running, Reasons
<1>12. ASSUME LeaveExited(h) PROVE Inv'
  BY <1>2, <1>8, <1>12 DEF LeaveExited, Running, Reasons
<1>13. ASSUME SendStatus(h) PROVE Inv'
  BY <1>13 DEF SendStatus, Goto, sessionVars, Inv, TypeOK, Lifecycle, Standing,
               OneClient, ClosedIsGone, OneReclaimer, TerminatedIsReleased,
               HandlerPCs, ReaperPCs, Actors, Claimed, Running, Reclaiming, Closing
<1>14. ASSUME CloseSocket(h) PROVE Inv'
  BY <1>14 DEF CloseSocket, Goto, sessionVars, Inv, TypeOK, Lifecycle, Standing,
               OneClient, ClosedIsGone, OneReclaimer, TerminatedIsReleased,
               HandlerPCs, ReaperPCs, Actors, Claimed, Running, Reclaiming, Closing
<1> QED
  BY <1>3, <1>4, <1>5, <1>6, <1>7, <1>9, <1>10, <1>11, <1>12, <1>13, <1>14
     DEF Serving

\* Reclaiming keeps Inv: the stage lets a single actor through, which releases,
\* cancels and kills in that order.
LEMMA ReclaimInv ==
  ASSUME Inv, NEW a \in Actors, Reclaim(a)
  PROVE  Inv'
<1> USE ActorsAssumption
        DEF Actors, Claimed, Running, Reclaiming, Closing, Goto
<1>0. /\ After(Reaper) = "idle"
      /\ \A h \in Handlers : After(h) \in Closing
      /\ \A h \in Handlers : reason[h] = "upgrade" => After(h) = "done"
  BY DEF After
<1>1. ASSUME Mark(a) PROVE Inv'
  <2> DEFINE s == target[a]
  <2>1. place[s] \in {"registered", "removed"} /\ s \in Sessions
    BY <1>1 DEF Mark, Inv, TypeOK, Standing
  <2>2. CASE stage[s] = "reclaimed"
    <3>1. /\ pc' = [pc EXCEPT ![a] = After(a)] /\ pc[a] = "mark"
          /\ DropAttachment(a) /\ UNCHANGED <<sessionVars, claimant>>
          /\ UNCHANGED <<target, inScope, reason, batch>>
      BY <1>1, <2>2 DEF Mark, sessionVars
    <3>2. \A b \in Actors : pc'[b] \in Reclaiming <=> pc[b] \in Reclaiming
      BY <1>0, <3>1 DEF Inv, TypeOK
    <3>3. TypeOK'
      BY <1>0, <3>1 DEF Inv, TypeOK, HandlerPCs, ReaperPCs, DropAttachment,
                        sessionVars
    <3>4. Lifecycle'
      BY <3>1, <3>2 DEF Inv, Lifecycle, sessionVars
    <3>5. Standing'
      BY <1>0, <3>1 DEF Inv, TypeOK, Standing, sessionVars
    <3>6. OneClient'
      BY <1>0, <3>1 DEF Inv, TypeOK, OneClient, DropAttachment, sessionVars
    <3>7. ClosedIsGone' /\ TerminatedIsReleased'
      BY <1>0, <2>2, <3>1 DEF Inv, TypeOK, ClosedIsGone, TerminatedIsReleased,
                              sessionVars
    <3>8. OneReclaimer'
      BY <3>1, <3>2 DEF Inv, OneReclaimer
    <3> QED
      BY <3>3, <3>4, <3>5, <3>6, <3>7, <3>8 DEF Inv
  <2>3. CASE stage[s] # "reclaimed"
    <3>1. /\ pc' = [pc EXCEPT ![a] = "release"] /\ pc[a] = "mark"
          /\ stage' = [stage EXCEPT ![s] = "reclaimed"]
          /\ left' = [left EXCEPT ![s] = 0]
          /\ UNCHANGED <<place, stored, stopped, terminated, claimant>>
          /\ UNCHANGED <<target, holds, inScope, reason, batch>>
      BY <1>1, <2>3 DEF Mark
    <3>2. \A b \in Actors : pc'[b] \in Reclaiming <=> pc[b] \in Reclaiming \/ b = a
      BY <3>1 DEF Inv, TypeOK
    <3>3. TypeOK'
      BY <2>1, <3>1 DEF Inv, TypeOK, HandlerPCs, ReaperPCs, Stages
    <3>4. Lifecycle'
      BY <2>1, <3>1, <3>2 DEF Inv, TypeOK, Lifecycle
    <3>5. Standing'
      BY <2>1, <3>1 DEF Inv, TypeOK, Standing
    <3>6. OneClient'
      BY <2>1, <3>1 DEF Inv, TypeOK, OneClient
    <3>7. ClosedIsGone' /\ TerminatedIsReleased'
      BY <2>1, <2>3, <3>1 DEF Inv, TypeOK, ClosedIsGone, TerminatedIsReleased
    <3>8. OneReclaimer'
      BY <2>3, <3>1, <3>2 DEF Inv, Standing, OneReclaimer
    <3> QED
      BY <3>3, <3>4, <3>5, <3>6, <3>7, <3>8 DEF Inv
  <2> QED
    BY <2>2, <2>3
<1>2. ASSUME Release(a) PROVE Inv'
  <2>1. \A b \in Actors : pc'[b] \in Reclaiming <=> pc[b] \in Reclaiming
    BY <1>2 DEF Release, Inv, TypeOK
  <2>2. TypeOK'
    BY <1>2 DEF Release, Inv, TypeOK, HandlerPCs, ReaperPCs
  <2>3. Lifecycle'
    BY <1>2, <2>1 DEF Release, Inv, TypeOK, Lifecycle, Standing
  <2>4. Standing'
    BY <1>2 DEF Release, Inv, TypeOK, Standing
  <2>5. OneClient'
    BY <1>2 DEF Release, Inv, TypeOK, OneClient, Standing
  <2>6. ClosedIsGone' /\ TerminatedIsReleased'
    BY <1>2 DEF Release, Inv, TypeOK, ClosedIsGone, TerminatedIsReleased
  <2>7. OneReclaimer'
    BY <1>2, <2>1 DEF Release, Inv, OneReclaimer
  <2> QED
    BY <2>2, <2>3, <2>4, <2>5, <2>6, <2>7 DEF Inv
<1>3. ASSUME Cancel(a) PROVE Inv'
  <2>1. \A b \in Actors : pc'[b] \in Reclaiming <=> pc[b] \in Reclaiming
    BY <1>3 DEF Cancel, Inv, TypeOK
  <2>2. TypeOK'
    BY <1>3 DEF Cancel, Inv, TypeOK, HandlerPCs, ReaperPCs
  <2>3. Lifecycle'
    BY <1>3, <2>1 DEF Cancel, Inv, Lifecycle
  <2>4. Standing'
    BY <1>3 DEF Cancel, Inv, TypeOK, Standing
  <2>5. OneClient' /\ ClosedIsGone' /\ TerminatedIsReleased'
    BY <1>3 DEF Cancel, Inv, TypeOK, OneClient, ClosedIsGone, TerminatedIsReleased
  <2>6. OneReclaimer'
    BY <1>3, <2>1 DEF Cancel, Inv, OneReclaimer
  <2> QED
    BY <2>2, <2>3, <2>4, <2>5, <2>6 DEF Inv
<1>4. ASSUME Kill(a) PROVE Inv'
  <2>1. \A b \in Actors : pc'[b] \in Reclaiming <=> pc[b] \in Reclaiming /\ b # a
    BY <1>0, <1>4 DEF Kill, Inv, TypeOK
  <2>2. TypeOK'
    BY <1>0, <1>4 DEF Kill, Inv, TypeOK, HandlerPCs, ReaperPCs, DropAttachment
  <2>3. Lifecycle'
    BY <1>4, <2>1 DEF Kill, Inv, TypeOK, Lifecycle, Standing
  <2>4. Standing'
    BY <1>0, <1>4 DEF Kill, Inv, TypeOK, Standing
  <2>5. OneClient'
    BY <1>0, <1>4 DEF Kill, Inv, TypeOK, OneClient, DropAttachment
  <2>6. ClosedIsGone' /\ TerminatedIsReleased'
    BY <1>0, <1>4 DEF Kill, Inv, TypeOK, ClosedIsGone, TerminatedIsReleased,
                      Standing
  <2>7. OneReclaimer'
    BY <1>4, <2>1 DEF Kill, Inv, OneReclaimer
  <2> QED
    BY <2>2, <2>3, <2>4, <2>5, <2>6, <2>7 DEF Inv
<1> QED
  BY <1>1, <1>2, <1>3, <1>4 DEF Reclaim

\* The reaper's own steps and the clock keep Inv.
LEMMA ReaperInv ==
  ASSUME Inv, Sweep \/ Pick \/ Tick
  PROVE  Inv'
<1> USE ActorsAssumption
        DEF Actors, Claimed, Running, Reclaiming, Closing, Goto, sessionVars,
            actorVars
<1>1. ASSUME Sweep PROVE Inv'
  <2>1. TypeOK'
    BY <1>1 DEF Sweep, Inv, TypeOK, Places
  <2>2. Lifecycle'
    BY <1>1 DEF Sweep, Inv, TypeOK, Lifecycle
  <2>3. Standing'
    BY <1>1 DEF Sweep, Inv, TypeOK, Standing, Expired
  <2>4. OneClient' /\ ClosedIsGone' /\ OneReclaimer' /\ TerminatedIsReleased'
    BY <1>1 DEF Sweep, Inv, TypeOK, OneClient, ClosedIsGone, OneReclaimer,
                TerminatedIsReleased
  <2> QED
    BY <2>1, <2>2, <2>3, <2>4 DEF Inv
<1>2. ASSUME Pick PROVE Inv'
  <2>1. \A h \in Handlers : pc'[h] = pc[h] /\ target'[h] = target[h]
    BY <1>2 DEF Pick, Inv, TypeOK
  <2>2. pc[Reaper] = "idle" /\ pc'[Reaper] = "mark" /\ target'[Reaper] \in batch
    BY <1>2 DEF Pick, Inv, TypeOK
  <2>3. TypeOK'
    BY <1>2 DEF Pick, Inv, TypeOK, HandlerPCs, ReaperPCs
  <2>4. Lifecycle'
    BY <1>2, <2>1, <2>2 DEF Pick, Inv, Lifecycle
  <2>5. Standing'
    BY <1>2, <2>1, <2>2 DEF Pick, Inv, Standing
  <2>6. OneClient' /\ ClosedIsGone' /\ TerminatedIsReleased'
    BY <1>2, <2>1 DEF Pick, Inv, OneClient, ClosedIsGone, TerminatedIsReleased
  <2>7. OneReclaimer'
    BY <1>2, <2>1, <2>2 DEF Inv, OneReclaimer
  <2> QED
    BY <2>3, <2>4, <2>5, <2>6, <2>7 DEF Inv
<1>3. ASSUME Tick PROVE Inv'
  BY <1>3 DEF Tick, Inv, TypeOK, Lifecycle, Standing, OneClient, ClosedIsGone,
              OneReclaimer, TerminatedIsReleased
<1> QED
  BY <1>1, <1>2, <1>3

-----------------------------------------------------------------------------
(* The invariant of every behaviour, and what follows from it.             *)

\* Inv is inductive: it holds in every reachable state of the sessions, the
\* attach requests and the reaper.
THEOREM SafetyInv == Safety => []Inv
<1>1. Inv /\ [Next]_vars => Inv'
  <2> SUFFICES ASSUME Inv, [Next]_vars
               PROVE  Inv'
    OBVIOUS
  <2>1. ASSUME NEW s \in Sessions, Creating(s) PROVE Inv'
    BY <2>1, CreatingInv
  <2>2. ASSUME NEW h \in Handlers, Attaching(h) \/ Serving(h) PROVE Inv'
    BY <2>2, AttachingInv, ServingInv
  <2>3. ASSUME NEW a \in Actors, Reclaim(a) PROVE Inv'
    BY <2>3, ReclaimInv
  <2>4. CASE Sweep \/ Pick \/ Tick
    BY <2>4, ReaperInv
  <2>5. CASE UNCHANGED vars
    BY <2>5 DEF vars, sessionVars, actorVars, Inv, TypeOK, Lifecycle, Standing,
                OneClient, ClosedIsGone, OneReclaimer, TerminatedIsReleased
  <2> QED
    BY <2>1, <2>2, <2>3, <2>4, <2>5 DEF Next
<1> QED
  BY InitInv, <1>1, PTL DEF Safety

\* Type correctness of the session model.
THEOREM TypeCorrect == Safety => []TypeOK
<1>1. Inv => TypeOK
  BY DEF Inv
<1> QED
  BY SafetyInv, <1>1, PTL

\* A session is given to one client, whatever requests race for it and whenever
\* the reaper takes it back, and one actor tears it down.
THEOREM SessionHasOneOwner == Safety => []OneOwner
<1>1. Inv => OneOwner
  BY DEF Inv, OneOwner
<1> QED
  BY SafetyInv, <1>1, PTL

\* A client that reattaches after the close does not find the session.
THEOREM ClosedSessionIsGone == Safety => []ClosedIsGone
<1>1. Inv => ClosedIsGone
  BY DEF Inv
<1> QED
  BY SafetyInv, <1>1, PTL

\* No process outlives its entry without an actor about to kill it.
THEOREM NoProcessLeaks == Safety => []NoLeakedProcess
<1>1. Inv => NoLeakedProcess
  BY DEF Inv, Lifecycle, NoLeakedProcess
<1> QED
  BY SafetyInv, <1>1, PTL

\* A terminated process has its client told and its output let go.
THEOREM TerminatedSessionIsReleased == Safety => []TerminatedIsReleased
<1>1. Inv => TerminatedIsReleased
  BY DEF Inv
<1> QED
  BY SafetyInv, <1>1, PTL

-----------------------------------------------------------------------------
(* The detailed sessions implement the abstract ones.                      *)

\* The steps that change neither place, stage nor claimant of any session are
\* not seen in its life.
LEMMA UnseenStep ==
  ASSUME UNCHANGED <<place, stage, claimant>>
  PROVE  UNCHANGED Life!vars
BY DEF Life!vars, LifeOf

\* Every step of the sessions is a step of their lives or is not seen in them.
LEMMA LifeStep ==
  ASSUME Inv, [Next]_vars
  PROVE  [Life!Next]_(Life!vars)
<1> DEFINE life == [s \in Sessions |-> LifeOf(s)]
<1>1. ASSUME NEW s \in Sessions, Spawn(s) \/ Abandon(s)
      PROVE  UNCHANGED Life!vars
  <2>1. \A r \in Sessions : LifeOf(r)' = LifeOf(r)
    BY <1>1 DEF Spawn, Abandon, LifeOf, Inv, TypeOK
  <2> QED
    BY <1>1, <2>1 DEF Life!vars, Spawn, Abandon
<1>2. ASSUME NEW s \in Sessions, Register(s)
      PROVE  Life!Open(s)
  <2>1. LifeOf(s) = "none" /\ LifeOf(s)' = "open"
    BY <1>2 DEF Register, LifeOf, Inv, TypeOK, Lifecycle
  <2>2. \A r \in Sessions \ {s} : LifeOf(r)' = LifeOf(r)
    BY <1>2 DEF Register, LifeOf, Inv, TypeOK
  <2>3. life' = [life EXCEPT ![s] = "open"]
    BY <2>1, <2>2
  <2> QED
    BY <1>2, <2>1, <2>3 DEF Life!Open, Register
<1>3. ASSUME NEW h \in Handlers, Claim(h)
      PROVE  Life!Use(target[h], h) \/ UNCHANGED Life!vars
  <2>0. PICK s \in Sessions : s = target[h]
    BY DEF Inv, TypeOK, Actors
  <2>1. CASE Claimable(h)
    <3>1. s \in Sessions /\ place[s] \in {"registered", "removed"}
      BY <1>3, <2>0 DEF Claim, Goto, Inv, TypeOK, Standing, Actors
    <3>2. /\ stage[s] = "pending" /\ stage' = [stage EXCEPT ![s] = "attached"]
          /\ claimant' = [claimant EXCEPT ![s] = h] /\ place' = place
      BY <1>3, <2>0, <2>1 DEF Claim, Claimable
    <3>3. LifeOf(s) = "open" /\ LifeOf(s)' = "used"
      BY <3>1, <3>2 DEF LifeOf, Inv, TypeOK
    <3>4. \A r \in Sessions \ {s} : LifeOf(r)' = LifeOf(r)
      BY <3>1, <3>2 DEF LifeOf, Inv, TypeOK
    <3>5. life' = [life EXCEPT ![s] = "used"]
      BY <3>1, <3>3, <3>4
    <3> QED
      BY <2>0, <3>1, <3>2, <3>3, <3>5 DEF Life!Use
  <2>2. CASE ~Claimable(h)
    BY <1>3, <2>2, UnseenStep DEF Claim
  <2> QED
    BY <2>1, <2>2
<1>4. ASSUME NEW a \in Actors, Mark(a)
      PROVE  Life!Expire(target[a]) \/ Life!End(target[a]) \/ UNCHANGED Life!vars
  <2>0. PICK s \in Sessions : s = target[a]
    BY DEF Inv, TypeOK
  <2>1. CASE stage[s] = "reclaimed"
    BY <1>4, <2>0, <2>1, UnseenStep DEF Mark
  <2>2. CASE stage[s] # "reclaimed"
    <3>1. s \in Sessions /\ place[s] \in {"registered", "removed"}
      BY <1>4, <2>0 DEF Mark, Goto, Inv, TypeOK, Standing, Actors, Claimed
    <3>2. /\ stage[s] \in {"pending", "attached"}
          /\ stage' = [stage EXCEPT ![s] = "reclaimed"]
          /\ UNCHANGED <<place, claimant>>
      BY <1>4, <2>0, <2>2, <3>1 DEF Mark, Inv, TypeOK, Lifecycle, Stages
    <3>3. LifeOf(s) \in {"open", "used"} /\ LifeOf(s)' = "ended"
      BY <3>1, <3>2 DEF LifeOf, Inv, TypeOK
    <3>4. \A r \in Sessions \ {s} : LifeOf(r)' = LifeOf(r)
      BY <3>1, <3>2 DEF LifeOf, Inv, TypeOK
    <3>5. life' = [life EXCEPT ![s] = "ended"]
      BY <3>1, <3>3, <3>4
    <3> QED
      BY <2>0, <3>1, <3>2, <3>3, <3>5 DEF Life!Expire, Life!End
  <2> QED
    BY <2>1, <2>2
<1>5. ASSUME Sweep
      PROVE  UNCHANGED Life!vars
  <2>1. \A r \in Sessions : LifeOf(r)' = LifeOf(r)
    BY <1>5 DEF Sweep, LifeOf, Inv, TypeOK
  <2> QED
    BY <1>5, <2>1 DEF Life!vars, Sweep
<1>6. ASSUME NEW h \in Handlers, Attaching(h) \/ Serving(h), ~Claim(h)
      PROVE  UNCHANGED Life!vars
  BY <1>6, UnseenStep
     DEF Attaching, Lookup, Take, NotUpgradable, Upgraded, UpgradeFails, Serving,
         Activity, Feed, FeedDone, Send, SendDone, LeaveStopped, LeaveClosed,
         LeaveBadFrame, LeaveExited, Leave, SendStatus, CloseSocket, sessionVars
<1>7. ASSUME NEW a \in Actors, Release(a) \/ Cancel(a) \/ Kill(a)
      PROVE  UNCHANGED Life!vars
  BY <1>7, UnseenStep DEF Release, Cancel, Kill
<1>8. ASSUME Pick \/ Tick \/ UNCHANGED vars
      PROVE  UNCHANGED Life!vars
  BY <1>8, UnseenStep DEF Pick, Tick, vars, sessionVars
<1>9. \A h \in Handlers : target[h] \in Sessions
  BY DEF Inv, TypeOK, Actors
<1>10. \A a \in Actors : target[a] \in Sessions
  BY DEF Inv, TypeOK
<1>11. CASE \E s \in Sessions : Creating(s)
  BY <1>1, <1>2, <1>11 DEF Creating, Life!Next
<1>12. CASE \E h \in Handlers : Attaching(h) \/ Serving(h)
  BY <1>3, <1>6, <1>9, <1>12 DEF Life!Next, Life!Leave
<1>13. CASE \E a \in Actors : Reclaim(a)
  BY <1>4, <1>7, <1>10, <1>13 DEF Reclaim, Life!Next, Life!Leave
<1> QED
  BY <1>5, <1>8, <1>11, <1>12, <1>13 DEF Next

\* Whatever the tasks of the server do, a session opens once, is given to at most
\* one client and ends for good: the safety half of ImplementsSessionLife.
THEOREM SessionsImplementLife == Safety => Life!Safety
<1>1. Init => Life!Init
  BY DEF Init, Life!Init, LifeOf
<1>2. Inv /\ [Next]_vars => [Life!Next]_(Life!vars)
  BY LifeStep
<1> QED
  BY SafetyInv, <1>1, <1>2, PTL DEF Safety, Life!Safety

-----------------------------------------------------------------------------
(* The bytes of a session.                                                 *)

One(b) == IF b THEN 1 ELSE 0
Looping == run.pc \in {"select", "sending", "feeding"}

-----------------------------------------------------------------------------
(* Types.                                                                  *)

Hands ==
  /\ reader.pc = "send" => reader.item \in Chunks
  /\ writer.pc = "write" => writer.item \in Inputs
  /\ run.pc = "sending" => run.item \in Chunks
  /\ run.pc = "feeding" => run.item \in Inputs

TypeInv == StreamTypeOK /\ Hands

-----------------------------------------------------------------------------
(* Output.                                                                 *)

\* How many chunks have been put where the reader takes no more of them from.
Loop == Len(Frames) + One(run.pc = "sending")
Queued == Loop + Len(outq)
Taken == Queued + One(reader.pc = "send")

\* The line of the output, as long as the loop is there to move it on.
InLine ==
  /\ run.pc = "sending" => run.item = Loop
  /\ \A i \in DOMAIN outq : outq[i] = Loop + i
  /\ reader.pc = "send" => reader.item = Taken
  /\ reader.pc # "done" => /\ \A i \in DOMAIN ttyOut : ttyOut[i] = Taken + i
                           /\ written = Taken + Len(ttyOut)
  /\ Queued <= written

\* What the frames are, by where the loop is.
Heading(n) == \A i \in 1..n : Frames[i] = i
EndsAfter(n) ==
  /\ n <= written /\ n <= Len(Frames) /\ Heading(n)
  /\ \A i \in DOMAIN Frames : i > n + 1 => Frames[i] = Close
  /\ n + 1 <= Len(Frames) => Frames[n + 1] \in {Status, Close}
  /\ run.pc \in {"leaving", "status"} => n = Len(Frames)
  /\ run.pc = "close" => \A i \in DOMAIN Frames : i > n => i = n + 1 /\ Frames[i] = Status
  /\ terminal /\ reclaim # "reaped" => n = written
Ending == \E n \in Nat : EndsAfter(n)

\* Why a status vouches for the output: the reader was done of itself, with nothing left,
\* and nobody has the terminal open.
Vouch ==
  /\ ended => outq = <<>> /\ reader.pc = "done"
  /\ terminal => ended
  /\ terminal => ~Looping
  /\ run.pc = "status" => terminal
  /\ reclaim = "left" => ~Looping /\ run.pc # "leaving"
  /\ Looping /\ reader.pc = "done" /\ reclaim # "reaped" =>
       ~TerminalOpen /\ ttyOut = <<>> /\ written = Queued
  /\ terminal /\ reclaim # "reaped" => ~TerminalOpen
  /\ \A i \in DOMAIN Frames : Frames[i] = Status => terminal

OutInv ==
  /\ Looping => Heading(Len(Frames)) /\ InLine
  /\ ~Looping => Ending
  /\ Vouch

-----------------------------------------------------------------------------
(* Input.                                                                  *)

Given == Len(consumed) + Len(ttyIn)
Passed == Given + One(writer.pc = "write")
Accepted == Passed + Len(inq)
Fed == Accepted + One(run.pc = "feeding")

\* What the terminal and the process have, what the writer task and its channel hold,
\* and what the loop holds and has yet to read.
Reached ==
  /\ \A i \in DOMAIN consumed : consumed[i] = i
  /\ \A i \in DOMAIN ttyIn : ttyIn[i] = Len(consumed) + i
  /\ Given <= sent
Carried ==
  /\ writer.pc = "write" => writer.item = Passed
  /\ \A i \in DOMAIN inq : inq[i] = Passed + i
  /\ Accepted <= sent
Waiting ==
  /\ run.pc = "feeding" => run.item = Fed
  /\ \A i \in DOMAIN inbox : inbox[i] \in Nat => inbox[i] = Fed + i /\ inbox[i] <= sent
  /\ Fed <= sent
  /\ (\A i \in DOMAIN inbox : inbox[i] \in Nat) => sent = Fed + Len(inbox)

InInv ==
  /\ Reached
  /\ IF writer.pc = "done" THEN inq = <<>> ELSE Carried /\ (Looping => Waiting)

-----------------------------------------------------------------------------
(* The types are an invariant.                                             *)

\* The bounds of a run are numbers.
LEMMA Bounds == StreamTypeOK => MaxOutput \in Nat /\ MaxInput \in Nat
<1> SUFFICES ASSUME StreamTypeOK PROVE load \in Nat \X Nat
  BY DEF MaxOutput, MaxInput
<1> QED BY BoundsAssumption DEF StreamTypeOK

\* What a queue is without its head.
LEMMA Popped ==
  ASSUME NEW S, NEW q \in Seq(S), q # <<>>
  PROVE  /\ Head(q) = q[1] /\ Head(q) \in S
         /\ Tail(q) \in Seq(S) /\ Len(Tail(q)) = Len(q) - 1 /\ Len(q) \in Nat \ {0}
         /\ \A i \in 1..(Len(q) - 1) : Tail(q)[i] = q[i + 1]
OBVIOUS

\* What a queue is with one more at its end.
LEMMA Pushed ==
  ASSUME NEW S, NEW q \in Seq(S), NEW x \in S
  PROVE  /\ Append(q, x) \in Seq(S) /\ Len(Append(q, x)) = Len(q) + 1 /\ Len(q) \in Nat
         /\ Append(q, x)[Len(q) + 1] = x
         /\ \A i \in 1..Len(q) : Append(q, x)[i] = q[i]
OBVIOUS

\* The types hold at first.
LEMMA InitTypes == StreamInit => TypeInv
<1> SUFFICES ASSUME StreamInit PROVE TypeInv
  OBVIOUS
<1>1. MaxOutput \in Nat /\ MaxInput \in Nat
  <2>1. load \in Nat \X Nat
    BY BoundsAssumption DEF StreamInit
  <2> QED BY <2>1 DEF MaxOutput, MaxInput
<1>2. Hands
  BY DEF StreamInit, Hands, At
<1>3. StreamTypeOK
  <2>1. \A S : <<>> \in Seq(S) /\ Len(<<>>) = 0
    OBVIOUS
  <2>2. /\ reader \in Task({"read", "send", "done"}, Chunks)
        /\ writer \in Task({"recv", "write", "done"}, Inputs)
        /\ run \in Task(RunPCs, Chunks \cup Inputs)
    BY DEF StreamInit, Task, At, RunPCs
  <2>3. ttyOut = <<>> /\ ttyIn = <<>> /\ consumed = <<>> /\ outq = <<>> /\ inq = <<>>
    BY DEF StreamInit
  <2>4. inbox = <<>> /\ wire = <<>> /\ received = <<>>
    BY DEF StreamInit
  <2>5. /\ ttyOut \in Seq(Chunks) /\ ttyIn \in Seq(Inputs) /\ consumed \in Seq(Inputs)
        /\ outq \in Seq(Chunks) /\ inq \in Seq(Inputs)
        /\ inbox \in Seq(Inputs \cup {Bad, Close})
        /\ wire \in Seq(Chunks \cup {Status, Close})
        /\ received \in Seq(Chunks \cup {Status, Close})
    BY <2>1, <2>3, <2>4
  <2>6. /\ Len(ttyOut) <= TtyCap /\ Len(ttyIn) <= TtyCap /\ Len(outq) <= ChannelCap
        /\ Len(inq) <= ChannelCap /\ Len(wire) <= SocketCap
    BY <2>1, <2>3, <2>4, BoundsAssumption
  <2>7. written \in 0..MaxOutput /\ sent \in 0..MaxInput
    BY <1>1 DEF StreamInit
  <2>8. load \in Loads /\ child \in {"running", "exited"} /\ descendant \in {"none", "group", "escaped"}
    BY DEF StreamInit
  <2>9. /\ exitSent \in BOOLEAN /\ ended \in BOOLEAN /\ terminal \in BOOLEAN /\ cancelled \in BOOLEAN
        /\ gone \in BOOLEAN /\ reclaim \in {"none", "marked", "reaped", "left"}
    BY DEF StreamInit
  <2> QED BY <2>2, <2>5, <2>6, <2>7, <2>8, <2>9 DEF StreamTypeOK
<1> QED BY <1>2, <1>3 DEF TypeInv

\* The sets the types are made of stay what they are.
LEMMA SortsStay == load' = load => /\ MaxOutput' = MaxOutput /\ MaxInput' = MaxInput
                                  /\ Chunks' = Chunks /\ Inputs' = Inputs
BY DEF MaxOutput, MaxInput, Chunks, Inputs

\* The steps of the process and its waiter keep the types.
LEMMA ProcessTypes == TypeInv /\ (Process \/ Wait) => TypeInv'
<1> SUFFICES ASSUME TypeInv, Process \/ Wait PROVE TypeInv'
  OBVIOUS
<1> USE DEF TypeInv, StreamTypeOK, Hands, Task, taskVars, loopVars, clientVars
<1>0. MaxOutput \in Nat /\ MaxInput \in Nat
  BY Bounds
<1>l. load' = load
  BY DEF Process, Write, Read, Exit, DescendantExit, Wait
<1>1. CASE Write
  <2>1. written + 1 \in Chunks /\ written + 1 \in 0..MaxOutput
    BY <1>0, <1>1 DEF Write, Chunks
  <2> QED BY <1>1, <1>l, <2>1, SortsStay, BoundsAssumption DEF Write
<1>2. CASE Read BY SMTT(40), <1>2, <1>l, SortsStay, BoundsAssumption DEF Read
<1>3. CASE Exit BY <1>3, <1>l, SortsStay DEF Exit
<1>4. CASE DescendantExit BY <1>4, <1>l, SortsStay DEF DescendantExit
<1>5. CASE Wait BY <1>5, <1>l, SortsStay DEF Wait
<1> QED BY <1>1, <1>2, <1>3, <1>4, <1>5 DEF Process

\* So do those of the reader and the writer task,
LEMMA TaskTypes == TypeInv /\ Tasks => TypeInv'
<1> SUFFICES ASSUME TypeInv, Tasks PROVE TypeInv'
  OBVIOUS
<1> USE DEF TypeInv, StreamTypeOK, Hands, Task, At, processVars, loopVars, clientVars
<1>l. load' = load
  BY DEF Tasks, ReaderRead, ReaderSend, WriterRecv, WriterWrite, WriterFails
<1>1. CASE ReaderRead
  <2>1. CASE ttyOut # <<>>
    <3>1. /\ Head(ttyOut) \in Chunks /\ Tail(ttyOut) \in Seq(Chunks)
          /\ Len(Tail(ttyOut)) <= TtyCap
      BY <2>1, Popped, BoundsAssumption
    <3>2. reader' = At("send", Head(ttyOut)) /\ ttyOut' = Tail(ttyOut)
      BY <1>1, <2>1 DEF ReaderRead
    <3>3. UNCHANGED <<load, child, descendant, written, ttyIn, consumed, exitSent, outq, writer, inq,
                      loopVars, clientVars>>
      BY <1>1 DEF ReaderRead
    <3> QED BY <1>l, <3>1, <3>2, <3>3, SortsStay
  <2>2. CASE ttyOut = <<>> BY <1>1, <1>l, <2>2, SortsStay DEF ReaderRead
  <2> QED BY <2>1, <2>2
<1>2. CASE ReaderSend
  <2>1. CASE outq' = Append(outq, reader.item)
    <3>1. outq' \in Seq(Chunks) /\ Len(outq') = Len(outq) + 1
      BY <1>2, <2>1, Pushed DEF ReaderSend
    <3>2. CASE Len(outq) < ChannelCap BY <1>2, <1>l, <3>1, <3>2, SortsStay, BoundsAssumption DEF ReaderSend
    <3>3. CASE outq' = outq BY <1>2, <1>l, <3>3, SortsStay DEF ReaderSend
    <3> QED BY <1>2, <3>2, <3>3 DEF ReaderSend
  <2>2. CASE outq' = outq BY <1>2, <1>l, <2>2, SortsStay DEF ReaderSend
  <2> QED BY <1>2, <2>1, <2>2 DEF ReaderSend
<1>3. CASE WriterRecv BY SMTT(40), <1>3, <1>l, SortsStay, BoundsAssumption DEF WriterRecv
<1>4. CASE WriterWrite BY <1>4, <1>l, SortsStay, BoundsAssumption DEF WriterWrite
<1>5. CASE WriterFails BY <1>5, <1>l, SortsStay, BoundsAssumption DEF WriterFails
<1> QED BY <1>1, <1>2, <1>3, <1>4, <1>5 DEF Tasks

\* a frame put on the wire,
LEMMA PutTypes ==
  ASSUME StreamTypeOK, NEW f \in {Status, Close}, PutOrFail(f)
  PROVE  wire' \in Seq(Chunks \cup {Status, Close}) /\ Len(wire') <= SocketCap
<1> DEFINE F == Chunks \cup {Status, Close}
<1>1. wire \in Seq(F) /\ f \in F /\ Len(wire) <= SocketCap
  BY DEF StreamTypeOK
<1>2. CASE Put(f) BY <1>1, <1>2, Pushed, BoundsAssumption DEF Put
<1>3. CASE UNCHANGED wire BY <1>1, <1>3
<1> QED BY <1>2, <1>3 DEF PutOrFail

\* the steps of the loop,
LEMMA RunTypes == TypeInv /\ Run => TypeInv'
<1> SUFFICES ASSUME TypeInv, Run PROVE TypeInv'
  OBVIOUS
<1> USE DEF TypeInv, StreamTypeOK, Hands, Task, At, RunPCs, RunGoto, processVars, taskVars, clientVars
<1>l. load' = load
  BY DEF Run, RunStopped, RunIncoming, RunFeed, RunOutput, RunSend, RunSendFails, RunExit,
         RunReclaim, RunStatus, RunClose, Terminate
<1>1. CASE RunStopped BY <1>1, <1>l, SortsStay DEF RunStopped
<1>2. CASE RunIncoming BY <1>2, <1>l, SortsStay DEF RunIncoming
<1>3. CASE RunFeed
  <2>1. inq' \in Seq(Inputs) /\ Len(inq') <= ChannelCap
    <3>1. CASE inq' = inq BY <3>1
    <3>2. CASE inq' = Append(inq, run.item) /\ Len(inq) < ChannelCap
      BY <1>3, <3>2, Pushed, BoundsAssumption DEF RunFeed
    <3> QED BY <1>3, <3>1, <3>2 DEF RunFeed
  <2> QED BY <1>3, <1>l, <2>1, SortsStay DEF RunFeed
<1>4. CASE RunOutput
  <2>1. CASE outq # <<>>
    <3>1. Head(outq) \in Chunks /\ Tail(outq) \in Seq(Chunks) /\ Len(Tail(outq)) <= ChannelCap
      BY <2>1, Popped, BoundsAssumption
    <3>2. run' = At("sending", Head(outq)) /\ outq' = Tail(outq) /\ UNCHANGED ended
      BY <1>4, <2>1 DEF RunOutput
    <3>3. run' \in Task(RunPCs, Chunks \cup Inputs) /\ run'.pc = "sending" /\ run'.item \in Chunks
      BY <3>1, <3>2
    <3>4. UNCHANGED <<reader, writer, inq, terminal, reclaim, cancelled, processVars, clientVars>>
      BY <1>4 DEF RunOutput
    <3> QED BY <1>l, <3>1, <3>2, <3>3, <3>4, SortsStay
  <2>2. CASE outq = <<>> BY <1>4, <1>l, <2>2, SortsStay DEF RunOutput
  <2> QED BY <2>1, <2>2
<1>5. CASE RunSend BY <1>5, <1>l, SortsStay, BoundsAssumption DEF RunSend, Put
<1>6. CASE RunSendFails BY <1>6, <1>l, SortsStay DEF RunSendFails
<1>7. CASE RunExit BY <1>7, <1>l, SortsStay DEF RunExit
<1>e. \A S : <<>> \in Seq(S) /\ Len(<<>>) = 0
  OBVIOUS
<1>8. CASE RunReclaim
  <2>1. CASE reclaim = "none"
    BY SMTT(40), <1>8, <1>l, <1>e, <2>1, SortsStay, BoundsAssumption DEF RunReclaim, Terminate
  <2>2. CASE reclaim # "none" BY SMTT(40), <1>8, <1>l, <2>2, SortsStay DEF RunReclaim
  <2> QED BY <2>1, <2>2
<1>9. CASE RunStatus
  <2>1. wire' \in Seq(Chunks \cup {Status, Close}) /\ Len(wire') <= SocketCap
    BY <1>9, PutTypes DEF RunStatus
  <2> QED BY <1>9, <1>l, <2>1, SortsStay DEF RunStatus
<1>10. CASE RunClose
  <2>1. wire' \in Seq(Chunks \cup {Status, Close}) /\ Len(wire') <= SocketCap
    BY <1>10, PutTypes DEF RunClose
  <2> QED BY <1>10, <1>l, <1>e, <2>1, SortsStay, BoundsAssumption DEF RunClose
<1> QED BY <1>1, <1>2, <1>3, <1>4, <1>5, <1>6, <1>7, <1>8, <1>9, <1>10 DEF Run

\* and those of the reaper and the client.
LEMMA OtherTypes == TypeInv /\ (ReapStop \/ ReapTerminate \/ Client) => TypeInv'
<1> SUFFICES ASSUME TypeInv, ReapStop \/ ReapTerminate \/ Client PROVE TypeInv'
  OBVIOUS
<1> USE DEF TypeInv, StreamTypeOK, Hands, Task, At, processVars, taskVars, loopVars, clientVars
<1>0. MaxOutput \in Nat /\ MaxInput \in Nat
  BY Bounds
<1>l. load' = load
  BY DEF ReapStop, ReapTerminate, Terminate, Client, ClientSends, ClientEnds, ClientVanishes,
         ClientReads
<1>1. CASE ReapStop BY <1>1, <1>l, SortsStay DEF ReapStop
<1>2. CASE ReapTerminate BY <1>2, <1>l, SortsStay, BoundsAssumption DEF ReapTerminate, Terminate
<1>3. CASE ClientSends
  <2>1. sent + 1 \in Inputs /\ sent + 1 \in 0..MaxInput
    BY <1>0, <1>3 DEF ClientSends, Inputs
  <2> QED BY <1>3, <1>l, <2>1, SortsStay DEF ClientSends
<1>4. CASE ClientEnds BY <1>4, <1>l, SortsStay DEF ClientEnds
<1>5. CASE ClientVanishes BY <1>5, <1>l, SortsStay DEF ClientVanishes
<1>6. CASE ClientReads
  <2> DEFINE F == Chunks \cup {Status, Close}
  <2>1. Head(wire) \in F /\ Tail(wire) \in Seq(F) /\ Len(Tail(wire)) <= SocketCap
    BY SMTT(40), <1>6, Popped, BoundsAssumption DEF ClientReads
  <2>2. Append(received, Head(wire)) \in Seq(F)
    BY <2>1, Pushed
  <2> QED BY <1>6, <1>l, <2>1, <2>2, SortsStay DEF ClientReads
<1> QED BY <1>1, <1>2, <1>3, <1>4, <1>5, <1>6 DEF Client

\* So every step does.
LEMMA TypesStay == TypeInv /\ [StreamNext]_streamVars => TypeInv'
<1>1. TypeInv /\ (Over \/ UNCHANGED streamVars) => TypeInv'
  BY SMTT(40), SortsStay DEF Over, streamVars, TypeInv, StreamTypeOK, Hands, Task,
     processVars, taskVars, loopVars, clientVars
<1> QED BY <1>1, ProcessTypes, TaskTypes, RunTypes, OtherTypes DEF StreamNext

-----------------------------------------------------------------------------
(* The line of the output.                                                 *)

FrameTypes == Chunks \cup {Status, Close}
outVars == <<run, outq, reader, ttyOut, written, ended, terminal, reclaim, child, descendant>>

\* The frames are a sequence.
LEMMA FramesTyped == TypeInv => Frames \in Seq(FrameTypes) /\ Len(Frames) \in Nat
BY DEF TypeInv, StreamTypeOK, Frames, FrameTypes

\* What is counted is a number.
LEMMA Counted ==
  TypeInv => /\ Len(Frames) \in Nat /\ Loop \in Nat /\ Queued \in Nat /\ Taken \in Nat
             /\ Len(outq) \in Nat /\ Len(ttyOut) \in Nat /\ written \in Nat
<1> SUFFICES ASSUME TypeInv PROVE /\ Loop \in Nat /\ Queued \in Nat /\ Taken \in Nat
                                  /\ Len(outq) \in Nat /\ Len(ttyOut) \in Nat /\ written \in Nat
  BY FramesTyped
<1>1. Len(outq) \in Nat /\ Len(ttyOut) \in Nat
  BY DEF TypeInv, StreamTypeOK
<1>2. written \in Nat
  BY Bounds DEF TypeInv, StreamTypeOK
<1>3. \A b : One(b) \in Nat
  BY DEF One
<1>4. Loop \in Nat
  BY <1>3, FramesTyped DEF Loop
<1>5. Queued \in Nat
  BY <1>1, <1>4 DEF Queued
<1>6. Taken \in Nat
  BY <1>3, <1>5 DEF Taken
<1> QED BY <1>1, <1>2, <1>4, <1>5, <1>6

\* Who touches neither wire nor client leaves the frames alone.
LEMMA FramesStay == wire' = wire /\ received' = received => Frames' = Frames
BY DEF Frames

\* A frame that is put is the last, and reading moves none.
LEMMA FramesPut ==
  ASSUME TypeInv, NEW f \in FrameTypes, received' = received, wire' = Append(wire, f)
  PROVE  Frames' = Append(Frames, f)
BY SMTT(40) DEF TypeInv, StreamTypeOK, Frames, FrameTypes

\* A frame that is read is a frame still.
LEMMA FramesRead == TypeInv /\ ClientReads => Frames' = Frames
<1> SUFFICES ASSUME TypeInv, ClientReads PROVE Frames' = Frames
  OBVIOUS
<1>1. received \in Seq(FrameTypes) /\ wire \in Seq(FrameTypes) /\ wire # <<>>
  BY DEF TypeInv, StreamTypeOK, FrameTypes, ClientReads
<1>2. Append(received, Head(wire)) \o Tail(wire) = received \o wire
  BY <1>1
<1> QED BY <1>2 DEF Frames, ClientReads

\* Who touches nothing of the output leaves it in line.
LEMMA OutStays == ASSUME OutInv, UNCHANGED outVars, Frames' = Frames PROVE OutInv'
BY DEF OutInv, outVars, Looping, Heading, InLine, Ending, EndsAfter, Vouch, TerminalOpen, Loop, Queued,
       Taken

\* At first nothing is in line.
LEMMA InitOut == StreamInit => OutInv
<1> SUFFICES ASSUME StreamInit PROVE OutInv
  OBVIOUS
<1>1. Frames = <<>> /\ Len(Frames) = 0
  BY DEF StreamInit, Frames
<1>2. /\ run.pc = "select" /\ reader.pc = "read" /\ outq = <<>> /\ ttyOut = <<>> /\ written = 0
      /\ ended = FALSE /\ terminal = FALSE /\ reclaim = "none"
  BY DEF StreamInit, At
<1> QED BY <1>1, <1>2 DEF OutInv, Looping, Heading, InLine, Vouch, Loop, Queued, Taken, One

\* The process writes at the end of the line.
LEMMA ProcessOut == ASSUME TypeInv, OutInv, Process \/ Wait PROVE OutInv'
<1>f. Frames' = Frames
  BY FramesStay DEF Process, Write, Read, Exit, DescendantExit, Wait, clientVars
<1> USE DEF outVars, taskVars, loopVars
<1>1. CASE Write
  <2>1. /\ written' = written + 1 /\ ttyOut' = Append(ttyOut, written + 1) /\ TerminalOpen
        /\ UNCHANGED <<run, outq, reader, ended, terminal, reclaim, child, descendant>>
    BY <1>1 DEF Write
  <2>2. /\ Loop' = Loop /\ Queued' = Queued /\ Taken' = Taken /\ Looping' = Looping
        /\ TerminalOpen' = TerminalOpen
    BY <1>f, <2>1 DEF Loop, Queued, Taken, Looping, TerminalOpen
  <2>3. /\ ttyOut \in Seq(Chunks) /\ Len(ttyOut') = Len(ttyOut) + 1
        /\ \A i \in 1..Len(ttyOut) : ttyOut'[i] = ttyOut[i]
        /\ ttyOut'[Len(ttyOut) + 1] = written + 1
    BY <2>1 DEF TypeInv, StreamTypeOK
  <2>4. InLine => InLine'
    <3>1. ASSUME InLine, reader.pc # "done"
          PROVE  /\ \A i \in DOMAIN ttyOut' : ttyOut'[i] = Taken + i
                 /\ written' = Taken + Len(ttyOut')
      BY SMTT(40), <2>1, <2>3, <3>1, Counted DEF InLine
    <3> QED BY SMTT(40), <1>f, <2>1, <2>2, <3>1, Counted DEF InLine
  <2>5. Vouch => Vouch'
    BY <1>f, <2>1, <2>2 DEF Vouch
  <2>6. ASSUME Vouch, Ending PROVE Ending'
    <3>1. PICK n \in Nat : EndsAfter(n)
      BY <2>6 DEF Ending
    <3>2. ~(terminal /\ reclaim # "reaped")
      BY <2>1, <2>6 DEF Vouch
    <3>3. EndsAfter(n)'
      BY <1>f, <2>1, <3>1, <3>2, Counted DEF EndsAfter, Heading
    <3> QED BY <3>3 DEF Ending
  <2> QED BY <1>f, <2>2, <2>4, <2>5, <2>6 DEF OutInv, Heading
<1>2. CASE Read BY <1>f, <1>2, OutStays DEF Read
<1>3. CASE Exit
  BY <1>f, <1>3 DEF Exit, OutInv, Looping, Heading, InLine, Ending, EndsAfter, Vouch,
     TerminalOpen, Loop, Queued, Taken
<1>4. CASE DescendantExit
  BY <1>f, <1>4 DEF DescendantExit, OutInv, Looping, Heading, InLine, Ending, EndsAfter, Vouch,
     TerminalOpen, Loop, Queued, Taken
<1>5. CASE Wait BY <1>f, <1>5, OutStays DEF Wait
<1> QED BY <1>1, <1>2, <1>3, <1>4, <1>5 DEF Process

\* The reader task takes the next chunk from the terminal to the channel, or is done once nobody has it open.
LEMMA TaskOut == ASSUME TypeInv, OutInv, Tasks PROVE OutInv'
<1>f. Frames' = Frames
  BY FramesStay DEF Tasks, ReaderRead, ReaderSend, WriterRecv, WriterWrite, WriterFails, clientVars
<1> USE DEF outVars, processVars, loopVars
<1>1. CASE ReaderRead
  <2>0. /\ reader.pc = "read"
        /\ UNCHANGED <<run, outq, written, ended, terminal, reclaim, child, descendant>>
    BY <1>1 DEF ReaderRead
  <2>a. /\ Loop' = Loop /\ Queued' = Queued /\ Looping' = Looping /\ TerminalOpen' = TerminalOpen
        /\ Taken = Queued
    BY <1>f, <2>0 DEF Loop, Queued, Taken, One, Looping, TerminalOpen
  <2>e. (~Looping => Ending) => (~Looping' => Ending')
    BY <1>f, <2>0, <2>a DEF Ending, EndsAfter, Heading
  <2>1. CASE ttyOut # <<>>
    <3>1. reader'.pc = "send" /\ reader'.item = Head(ttyOut) /\ ttyOut' = Tail(ttyOut)
      BY <1>1, <2>1 DEF ReaderRead, At
    <3>2. /\ Head(ttyOut) = ttyOut[1] /\ Len(Tail(ttyOut)) = Len(ttyOut) - 1 /\ Len(ttyOut) \in Nat \ {0}
          /\ \A i \in 1..(Len(ttyOut) - 1) : Tail(ttyOut)[i] = ttyOut[i + 1]
          /\ DOMAIN Tail(ttyOut) = 1..(Len(ttyOut) - 1) /\ DOMAIN ttyOut = 1..Len(ttyOut)
      BY <2>1 DEF TypeInv, StreamTypeOK
    <3>3. Taken' = Taken + 1
      BY <2>a, <3>1, Counted DEF Taken, One
    <3>4. ASSUME InLine PROVE InLine'
      <4>1. ttyOut[1] = Taken + 1
        BY <2>0, <3>2, <3>4 DEF InLine
      <4>2. \A i \in DOMAIN ttyOut' : ttyOut'[i] = Taken' + i
        BY SMTT(40), <2>0, <3>1, <3>2, <3>3, <3>4, Counted DEF InLine
      <4>3. written' = Taken' + Len(ttyOut')
        BY <2>0, <3>1, <3>2, <3>3, <3>4, Counted DEF InLine
      <4> QED BY <2>0, <2>a, <3>1, <3>2, <3>3, <3>4, <4>1, <4>2, <4>3 DEF InLine
    <3>5. Vouch => Vouch'
      BY <1>f, <2>0, <2>a, <3>1 DEF Vouch
    <3> QED BY <1>f, <2>a, <2>e, <3>4, <3>5 DEF OutInv, Heading
  <2>2. CASE ttyOut = <<>>
    <3>1. reader'.pc = "done" /\ ttyOut' = ttyOut /\ ~TerminalOpen
      BY <1>1, <2>2 DEF ReaderRead, At
    <3>2. Looping /\ InLine => written = Queued
      BY <2>0, <2>a, <2>2, Counted DEF InLine
    <3>3. OutInv => Vouch'
      BY <1>f, <2>0, <2>2, <2>a, <3>1, <3>2 DEF Vouch, OutInv
    <3>4. InLine => InLine'
      BY <2>0, <2>a, <3>1 DEF InLine
    <3> QED BY <1>f, <2>a, <2>e, <3>3, <3>4 DEF OutInv, Heading
  <2> QED BY <2>1, <2>2
<1>2. CASE ReaderSend
  <2>0. /\ reader.pc = "send" /\ reader'.pc = "read"
        /\ UNCHANGED <<run, ttyOut, written, ended, terminal, reclaim, child, descendant>>
    BY <1>2 DEF ReaderSend, At
  <2>a. Loop' = Loop /\ Looping' = Looping /\ TerminalOpen' = TerminalOpen
    BY <1>f, <2>0 DEF Loop, Looping, TerminalOpen
  <2>e. (~Looping => Ending) => (~Looping' => Ending')
    BY <1>f, <2>0, <2>a DEF Ending, EndsAfter, Heading
  <2>v. Vouch => ~ended
    BY <2>0 DEF Vouch
  <2>w. Vouch => Vouch'
    BY <1>f, <2>0, <2>a, <2>v DEF Vouch
  <2>1. ASSUME Looping, InLine PROVE InLine'
    <3>1. outq' = Append(outq, reader.item)
      BY <1>2, <2>1 DEF ReaderSend, Looping
    <3>2. /\ Len(outq') = Len(outq) + 1 /\ outq'[Len(outq) + 1] = reader.item
          /\ \A i \in 1..Len(outq) : outq'[i] = outq[i]
          /\ DOMAIN outq' = 1..(Len(outq) + 1) /\ DOMAIN outq = 1..Len(outq)
      BY <2>0, <3>1 DEF TypeInv, StreamTypeOK, Hands
    <3>3. Queued' = Queued + 1 /\ Taken' = Taken /\ Taken = Queued + 1
      BY <2>0, <2>a, <3>2, Counted DEF Queued, Taken, One
    <3>4. \A i \in DOMAIN outq' : outq'[i] = Loop + i
      <4>1. reader.item = Loop + (Len(outq) + 1)
        BY SMTT(40), <2>0, <2>1, <3>3, Counted DEF InLine, Queued
      <4>2. \A i \in 1..Len(outq) : outq[i] = Loop + i
        BY <2>1, <3>2 DEF InLine
      <4>3. \A i \in 1..(Len(outq) + 1) : i \in 1..Len(outq) \/ i = Len(outq) + 1
        BY Counted
      <4> QED BY <3>2, <4>1, <4>2, <4>3
    <3>5. reader'.pc # "done" => /\ \A i \in DOMAIN ttyOut' : ttyOut'[i] = Taken' + i
                                 /\ written' = Taken' + Len(ttyOut')
      BY <2>0, <2>1, <3>3 DEF InLine
    <3>6. Queued' <= written'
      BY <2>0, <2>1, <3>3, Counted DEF InLine
    <3> QED BY <2>0, <2>1, <2>a, <3>4, <3>5, <3>6 DEF InLine
  <2> QED BY <1>f, <2>1, <2>a, <2>e, <2>w DEF OutInv, Heading
<1>3. CASE WriterRecv BY <1>f, <1>3, OutStays DEF WriterRecv
<1>4. CASE WriterWrite BY <1>f, <1>4, OutStays DEF WriterWrite
<1>5. CASE WriterFails BY <1>f, <1>5, OutStays DEF WriterFails
<1> QED BY <1>1, <1>2, <1>3, <1>4, <1>5 DEF Tasks

\* The loop goes on or leaves, and puts no frame.
LEMMA LoopOut ==
  ASSUME TypeInv, OutInv, RunStopped \/ RunIncoming \/ RunFeed \/ RunSendFails \/ RunExit
  PROVE  OutInv'
<1>f. Frames' = Frames
  BY FramesStay DEF RunStopped, RunIncoming, RunFeed, RunSendFails, RunExit, clientVars
<1>0. /\ Looping /\ run.pc # "leaving"
      /\ UNCHANGED <<outq, reader, ttyOut, written, ended, reclaim, child, descendant>>
  BY DEF RunStopped, RunIncoming, RunFeed, RunSendFails, RunExit, RunGoto, At, Looping,
         processVars, taskVars
<1>1. Heading(Len(Frames)) /\ InLine /\ Vouch
  BY <1>0 DEF OutInv
<1>2. ~terminal /\ reclaim # "left"
  BY <1>0, <1>1 DEF Vouch
<1>3. TerminalOpen' = TerminalOpen
  BY <1>0 DEF TerminalOpen
<1>4. CASE run'.pc = "leaving"
  <2>1. CASE RunExit
    <3>1. ended /\ terminal' /\ run.pc = "select"
      BY <2>1 DEF RunExit, RunGoto
    <3>2. reader.pc = "done" /\ Queued = Len(Frames)
      BY <1>1, <3>1, Counted DEF Vouch, Queued, Loop, One
    <3>3. EndsAfter(Len(Frames))'
      BY <1>f, <1>0, <1>1, <1>2, <1>4, <3>1, <3>2, Counted DEF EndsAfter, Heading, InLine, Vouch
    <3>4. Vouch'
      BY <1>f, <1>0, <1>1, <1>2, <1>3, <1>4, <3>1, <3>2 DEF Vouch, Looping
    <3> QED BY <1>f, <1>4, <3>3, <3>4, Counted DEF OutInv, Looping, Ending
  <2>2. CASE terminal' = terminal
    <3>1. Len(Frames) <= written
      BY <1>1, Counted DEF InLine, Queued, Loop, One
    <3>2. EndsAfter(Len(Frames))'
      BY <1>f, <1>0, <1>1, <1>2, <1>4, <2>2, <3>1, Counted DEF EndsAfter, Heading
    <3>3. Vouch'
      BY <1>f, <1>0, <1>1, <1>2, <1>3, <1>4, <2>2 DEF Vouch, Looping
    <3> QED BY <1>f, <1>4, <3>2, <3>3, Counted DEF OutInv, Looping, Ending
  <2> QED BY <2>1, <2>2 DEF RunStopped, RunIncoming, RunFeed, RunSendFails
<1>5. CASE run'.pc # "leaving"
  <2>1. /\ run.pc # "sending" /\ run'.pc # "sending" /\ run'.pc \in {"select", "feeding"}
        /\ terminal' = terminal
    BY <1>5 DEF RunStopped, RunIncoming, RunFeed, RunSendFails, RunExit, RunGoto, At
  <2>2. Loop' = Loop /\ Queued' = Queued /\ Taken' = Taken
    BY <1>f, <1>0, <2>1 DEF Loop, Queued, Taken
  <2>3. InLine'
    BY <1>0, <1>1, <2>1, <2>2 DEF InLine
  <2>4. Vouch'
    BY <1>f, <1>0, <1>1, <1>3, <2>1, <2>2 DEF Vouch, Looping
  <2> QED BY <1>f, <1>1, <2>1, <2>3, <2>4 DEF OutInv, Looping, Heading
<1> QED BY <1>4, <1>5

\* The loop takes a chunk, or learns that there are no more.
LEMMA TakeOut == ASSUME TypeInv, OutInv, RunOutput PROVE OutInv'
<1>f. Frames' = Frames
  BY FramesStay DEF RunOutput, clientVars
<1>0. /\ run.pc = "select" /\ Looping /\ run'.pc \in {"select", "sending"}
      /\ UNCHANGED <<reader, ttyOut, written, terminal, reclaim, child, descendant>>
  BY DEF RunOutput, RunGoto, At, Looping, processVars
<1>1. Heading(Len(Frames)) /\ InLine /\ Vouch
  BY <1>0 DEF OutInv
<1>2. TerminalOpen' = TerminalOpen /\ Loop = Len(Frames) /\ Looping'
  BY <1>0, Counted DEF TerminalOpen, Loop, One, Looping
<1>3. CASE outq # <<>>
  <2>1. run'.pc = "sending" /\ run'.item = Head(outq) /\ outq' = Tail(outq) /\ ended' = ended
    BY <1>3 DEF RunOutput, RunGoto, At
  <2>2. /\ Head(outq) = outq[1] /\ Len(Tail(outq)) = Len(outq) - 1 /\ Len(outq) \in Nat \ {0}
        /\ \A i \in 1..(Len(outq) - 1) : Tail(outq)[i] = outq[i + 1]
        /\ DOMAIN Tail(outq) = 1..(Len(outq) - 1) /\ DOMAIN outq = 1..Len(outq)
    BY <1>3 DEF TypeInv, StreamTypeOK
  <2>3. Loop' = Loop + 1
    BY <1>f, <1>2, <2>1, Counted DEF Loop, One
  <2>4. Queued' = Queued
    BY SMTT(40), <2>1, <2>2, <2>3, Counted DEF Queued
  <2>5. Taken' = Taken
    BY <1>0, <2>4 DEF Taken
  <2>6. run'.item = Loop'
    BY <1>1, <2>1, <2>2, <2>3 DEF InLine
  <2>7. \A i \in DOMAIN outq' : outq'[i] = Loop' + i
    BY SMTT(40), <1>1, <2>1, <2>2, <2>3, Counted DEF InLine
  <2>8. InLine'
    BY <1>0, <1>1, <2>4, <2>5, <2>6, <2>7 DEF InLine
  <2>9. Vouch'
    BY <1>f, <1>0, <1>1, <1>2, <1>3, <2>1, <2>4 DEF Vouch
  <2> QED BY <1>f, <1>1, <1>2, <2>8, <2>9 DEF OutInv, Heading
<1>4. CASE outq = <<>>
  <2>1. run' = run /\ outq' = outq /\ reader.pc = "done" /\ ended'
    BY <1>4 DEF RunOutput
  <2>2. Loop' = Loop /\ Queued' = Queued /\ Taken' = Taken
    BY <1>f, <1>0, <2>1 DEF Loop, Queued, Taken
  <2>3. InLine'
    BY <1>0, <1>1, <2>1, <2>2 DEF InLine
  <2>4. Vouch'
    BY <1>f, <1>0, <1>1, <1>2, <1>4, <2>1, <2>2 DEF Vouch
  <2> QED BY <1>f, <1>1, <1>2, <2>3, <2>4 DEF OutInv, Heading
<1> QED BY <1>3, <1>4

\* The chunk in hand becomes the next frame.
LEMMA SendOut == ASSUME TypeInv, OutInv, RunSend PROVE OutInv'
<1>0. /\ run.pc = "sending" /\ Looping /\ run'.pc = "select" /\ Looping'
      /\ wire' = Append(wire, run.item) /\ received' = received
      /\ UNCHANGED <<outq, reader, ttyOut, written, ended, terminal, reclaim, child, descendant>>
  BY DEF RunSend, RunGoto, At, Looping, Put, processVars, taskVars
<1>1. Heading(Len(Frames)) /\ InLine /\ Vouch
  BY <1>0 DEF OutInv
<1>2. run.item \in FrameTypes /\ run.item \in Chunks
  BY <1>0 DEF TypeInv, Hands, FrameTypes
<1>f. Frames' = Append(Frames, run.item)
  BY <1>0, <1>2, FramesPut
<1>3. /\ Len(Frames') = Len(Frames) + 1 /\ Frames'[Len(Frames) + 1] = run.item
      /\ \A i \in 1..Len(Frames) : Frames'[i] = Frames[i]
      /\ DOMAIN Frames' = 1..(Len(Frames) + 1) /\ DOMAIN Frames = 1..Len(Frames)
  BY <1>2, <1>f, FramesTyped
<1>4. run.item = Len(Frames) + 1
  BY <1>0, <1>1 DEF InLine, Loop, One
<1>5. Loop' = Loop /\ Queued' = Queued /\ Taken' = Taken /\ TerminalOpen' = TerminalOpen
  BY <1>0, <1>3, Counted DEF Loop, Queued, Taken, One, TerminalOpen
<1>6. Heading(Len(Frames))'
  BY <1>1, <1>3, <1>4, Counted DEF Heading
<1>7. InLine'
  BY <1>0, <1>1, <1>5 DEF InLine
<1>8. run.item # Status
  BY <1>4, Counted, FramesAssumption
<1>9. \A i \in DOMAIN Frames' : Frames'[i] = Status => terminal
  BY <1>1, <1>3, <1>8, Counted DEF Vouch
<1>10. Vouch'
  BY <1>0, <1>1, <1>5, <1>9 DEF Vouch
<1> QED BY <1>0, <1>6, <1>7, <1>10 DEF OutInv

\* What a kill ends and what it leaves.
LEMMA Killed == TypeInv /\ Terminate => /\ TerminalOpen' => TerminalOpen
                                        /\ reader'.pc = "done" /\ reader'.item = None
                                        /\ writer'.pc = "done" /\ inq' = <<>>
                                        /\ UNCHANGED <<load, written, ttyOut, ttyIn, consumed, outq>>
BY DEF Terminate, TerminalOpen, At

\* Reclaiming kills a process whose output, if a status follows, has been sent.
LEMMA ReclaimOut == ASSUME TypeInv, OutInv, RunReclaim PROVE OutInv'
<1>f. Frames' = Frames
  BY FramesStay DEF RunReclaim, clientVars
<1>0. /\ run.pc = "leaving" /\ ~Looping /\ ~Looping' /\ run'.pc = IF terminal THEN "status" ELSE "close"
      /\ UNCHANGED <<ended, terminal>>
  BY DEF RunReclaim, RunGoto, At, Looping
<1>1. Ending /\ Vouch /\ reclaim # "left"
  BY <1>0 DEF OutInv, Vouch
<1>2. /\ written' = written /\ outq' = outq /\ (TerminalOpen' => TerminalOpen)
      /\ reader'.pc = reader.pc \/ reader'.pc = "done"
      /\ reclaim' = reclaim \/ (reclaim = "none" /\ reclaim' = "left")
  BY Killed DEF RunReclaim, processVars, taskVars, TerminalOpen
<1>3. PICK n \in Nat : EndsAfter(n)
  BY <1>1 DEF Ending
<1>4. EndsAfter(n)'
  BY <1>f, <1>0, <1>2, <1>3, Counted DEF EndsAfter, Heading
<1>5. Vouch'
  BY <1>f, <1>0, <1>1, <1>2 DEF Vouch
<1> QED BY <1>0, <1>4, <1>5 DEF OutInv, Ending

\* A last frame follows the chunks, and the status those of a session that ran out.
LEMMA LastOut == ASSUME TypeInv, OutInv, RunStatus \/ RunClose PROVE OutInv'
<1>0. /\ run.pc \in {"status", "close"} /\ run'.pc = (IF run.pc = "status" THEN "close" ELSE "closed")
      /\ ~Looping /\ ~Looping' /\ outq' \in {outq, <<>>} /\ received' = received
      /\ UNCHANGED <<reader, ttyOut, written, ended, terminal, reclaim, child, descendant>>
  BY DEF RunStatus, RunClose, RunGoto, At, Looping, processVars, taskVars
<1> DEFINE f == IF run.pc = "status" THEN Status ELSE Close
<1>1. wire' = wire \/ wire' = Append(wire, f)
  BY DEF RunStatus, RunClose, RunGoto, PutOrFail, Put
<1>2. Ending /\ Vouch /\ TerminalOpen' = TerminalOpen
  BY <1>0 DEF OutInv, TerminalOpen
<1>3. PICK n \in Nat : EndsAfter(n)
  BY <1>2 DEF Ending
<1>4. CASE wire' = wire
  <2>1. Frames' = Frames
    BY <1>0, <1>4, FramesStay
  <2>2. EndsAfter(n)'
    BY <1>0, <1>3, <2>1, Counted DEF EndsAfter, Heading
  <2>3. Vouch'
    BY <1>0, <1>2, <2>1 DEF Vouch
  <2> QED BY <1>0, <2>2, <2>3 DEF OutInv, Ending
<1>5. CASE wire' = Append(wire, f)
  <2>0. f \in FrameTypes
    BY DEF FrameTypes
  <2>1. Frames' = Append(Frames, f)
    BY <1>0, <1>5, <2>0, FramesPut
  <2>2. /\ Len(Frames') = Len(Frames) + 1 /\ Frames'[Len(Frames) + 1] = f
        /\ \A i \in 1..Len(Frames) : Frames'[i] = Frames[i]
        /\ DOMAIN Frames' = 1..(Len(Frames) + 1) /\ DOMAIN Frames = 1..Len(Frames)
    <3> HIDE DEF f
    <3> QED BY <2>0, <2>1, FramesTyped
  <2>3. n <= written /\ n <= Len(Frames') /\ Heading(n)'
    <3>1. n <= written /\ n <= Len(Frames) /\ \A i \in 1..n : Frames[i] = i
      BY <1>3 DEF EndsAfter, Heading
    <3>2. \A i \in 1..n : i \in 1..Len(Frames)
      BY <3>1, Counted
    <3>3. \A i \in 1..n : Frames'[i] = i
      BY <2>2, <3>1, <3>2
    <3>4. n <= Len(Frames')
      BY <2>2, <3>1, Counted
    <3> QED BY <3>1, <3>3, <3>4 DEF Heading
  <2>4. CASE run.pc = "status"
    <3>1. Len(Frames) = n /\ terminal
      BY <1>2, <1>3, <2>4 DEF EndsAfter, Vouch
    <3>a. f = Status /\ run'.pc = "close"
      BY <1>0, <2>4
    <3>b. \A i \in DOMAIN Frames' : i > n => i = n + 1 /\ Frames'[i] = Status
      BY <2>2, <3>1, <3>a, Counted
    <3>c. \A i \in DOMAIN Frames' : i > n + 1 => Frames'[i] = Close
      BY <2>2, <3>1, Counted
    <3>d. n + 1 <= Len(Frames') => Frames'[n + 1] \in {Status, Close}
      BY <2>2, <3>1, <3>a, Counted
    <3>2. EndsAfter(n)'
      BY <1>0, <1>3, <2>3, <3>a, <3>b, <3>c, <3>d DEF EndsAfter
    <3>3. Vouch'
      BY <1>0, <1>2, <2>2, <2>4, <3>1 DEF Vouch
    <3> QED BY <1>0, <3>2, <3>3 DEF OutInv, Ending
  <2>5. CASE run.pc = "close"
    <3>1. Len(Frames) \in {n, n + 1} /\ (Len(Frames) = n + 1 => Frames[n + 1] = Status)
      <4>1. n <= Len(Frames) /\ \A i \in 1..Len(Frames) : i > n => i = n + 1 /\ Frames[i] = Status
        BY <1>3, <2>2, <2>5 DEF EndsAfter
      <4>2. Len(Frames) \in Nat
        BY Counted
      <4>3. CASE Len(Frames) = n
        BY <4>3
      <4>4. CASE Len(Frames) > n
        <5>1. Len(Frames) \in 1..Len(Frames)
          BY <4>2, <4>4
        <5> QED BY <4>1, <4>4, <5>1
      <4> QED BY <4>1, <4>2, <4>3, <4>4
    <3>2. f = Close /\ run'.pc = "closed"
      BY <1>0, <2>5
    <3>a. \A i \in DOMAIN Frames' : i > n + 1 => Frames'[i] = Close
      <4>1. Len(Frames) \in {n, n + 1}
        BY <3>1
      <4>2. \A i \in 1..(Len(Frames) + 1) : i > n + 1 => i = Len(Frames) + 1
        BY <4>1, Counted
      <4> QED BY <2>2, <3>2, <4>2
    <3>b. n + 1 <= Len(Frames') => Frames'[n + 1] \in {Status, Close}
      <4>1. CASE Len(Frames) = n
        BY <2>2, <3>2, <4>1
      <4>2. CASE Len(Frames) = n + 1
        <5>1. n + 1 \in 1..Len(Frames) /\ Frames[n + 1] = Status
          BY <3>1, <4>2
        <5>2. Frames'[n + 1] = Frames[n + 1]
          BY <2>2, <5>1
        <5> QED BY <5>1, <5>2
      <4> QED BY <3>1, <4>1, <4>2
    <3>3. EndsAfter(n)'
      BY <1>0, <1>3, <2>3, <3>2, <3>a, <3>b DEF EndsAfter
    <3>c. \A i \in DOMAIN Frames' : Frames'[i] = Status => terminal
      <4>1. \A i \in 1..(Len(Frames) + 1) : i \in 1..Len(Frames) \/ i = Len(Frames) + 1
        BY Counted
      <4> HIDE DEF f
      <4> QED BY <1>2, <2>2, <3>2, <4>1, FramesAssumption DEF Vouch
    <3>4. Vouch'
      BY <1>0, <1>2, <3>2, <3>c DEF Vouch
    <3> QED BY <1>0, <3>3, <3>4 DEF OutInv, Ending
  <2> QED BY <1>0, <2>4, <2>5
<1> QED BY <1>1, <1>4, <1>5

\* The reaper stops the line, and the client moves nothing in it.
LEMMA OtherOut == ASSUME TypeInv, OutInv, ReapStop \/ ReapTerminate \/ Client PROVE OutInv'
<1>f. Frames' = Frames
  BY FramesStay, FramesRead DEF ReapStop, ReapTerminate, Client, ClientSends, ClientEnds,
     ClientVanishes, clientVars
<1>1. CASE ReapStop \/ ReapTerminate
  <2>1. /\ UNCHANGED <<run, ended, terminal, written, ttyOut, outq>>
        /\ reclaim' \in {"marked", "reaped"} /\ reclaim \in {"none", "marked"}
        /\ (TerminalOpen' => TerminalOpen)
        /\ \/ reclaim' = "marked" /\ reader' = reader
           \/ reclaim' = "reaped" /\ reader'.pc = "done"
    BY <1>1, Killed DEF ReapStop, ReapTerminate, processVars, taskVars, TerminalOpen
  <2>2. Loop' = Loop /\ Queued' = Queued /\ Looping' = Looping /\ (reader' = reader => Taken' = Taken)
    BY <1>f, <2>1 DEF Loop, Queued, Taken, Looping
  <2>3. InLine => InLine'
    BY <2>1, <2>2 DEF InLine
  <2>4. Vouch => Vouch'
    BY <1>f, <2>1, <2>2 DEF Vouch
  <2>5. Ending => Ending'
    BY <1>f, <2>1 DEF Ending, EndsAfter, Heading
  <2> QED BY <1>f, <2>2, <2>3, <2>4, <2>5 DEF OutInv, Heading
<1>2. CASE Client
  <2>1. UNCHANGED outVars
    BY <1>2 DEF Client, ClientSends, ClientEnds, ClientVanishes, ClientReads, outVars,
       processVars, taskVars, loopVars
  <2> QED BY <1>f, <2>1, OutStays
<1> QED BY <1>1, <1>2

\* So every step keeps the output in line.
LEMMA OutputStays == TypeInv /\ OutInv /\ [StreamNext]_streamVars => OutInv'
<1> SUFFICES ASSUME TypeInv, OutInv, [StreamNext]_streamVars PROVE OutInv'
  OBVIOUS
<1>1. CASE Over \/ UNCHANGED streamVars
  BY <1>1, OutStays, FramesStay DEF Over, streamVars, outVars, processVars, taskVars, loopVars, clientVars
<1>2. CASE Run
  BY <1>2, LoopOut, TakeOut, SendOut, ReclaimOut, LastOut DEF Run
<1> QED BY <1>1, <1>2, ProcessOut, TaskOut, OtherOut DEF StreamNext

-----------------------------------------------------------------------------
(* The line of the input.                                                  *)

inVars == <<consumed, ttyIn, sent, writer, inq, run, inbox>>

\* Who touches nothing of the input leaves it in line.
LEMMA InStays == ASSUME InInv, UNCHANGED inVars PROVE InInv'
BY DEF InInv, Reached, Carried, Waiting, inVars, Given, Passed, Accepted, Fed, Looping

\* What is counted of the input is a number.
LEMMA CountedIn ==
  TypeInv => /\ Len(consumed) \in Nat /\ Len(ttyIn) \in Nat /\ Len(inq) \in Nat /\ Len(inbox) \in Nat
             /\ Given \in Nat /\ Passed \in Nat /\ Accepted \in Nat /\ Fed \in Nat /\ sent \in Nat
<1> SUFFICES ASSUME TypeInv
             PROVE  /\ Len(consumed) \in Nat /\ Len(ttyIn) \in Nat /\ Len(inq) \in Nat
                    /\ Len(inbox) \in Nat /\ Given \in Nat /\ Passed \in Nat /\ Accepted \in Nat
                    /\ Fed \in Nat /\ sent \in Nat
  OBVIOUS
<1>1. Len(consumed) \in Nat /\ Len(ttyIn) \in Nat /\ Len(inq) \in Nat /\ Len(inbox) \in Nat
  BY DEF TypeInv, StreamTypeOK
<1>2. sent \in Nat
  BY Bounds DEF TypeInv, StreamTypeOK
<1>3. \A b : One(b) \in Nat
  BY DEF One
<1>4. Given \in Nat
  BY <1>1 DEF Given
<1>5. Passed \in Nat
  BY <1>3, <1>4 DEF Passed
<1>6. Accepted \in Nat
  BY <1>1, <1>5 DEF Accepted
<1>7. Fed \in Nat
  BY <1>3, <1>6 DEF Fed
<1> QED BY <1>1, <1>2, <1>4, <1>5, <1>6, <1>7

\* At first no input is in line.
LEMMA InitIn == StreamInit => InInv
<1> SUFFICES ASSUME StreamInit PROVE InInv
  OBVIOUS
<1>1. /\ consumed = <<>> /\ ttyIn = <<>> /\ inq = <<>> /\ inbox = <<>> /\ sent = 0
      /\ writer.pc = "recv" /\ run.pc = "select"
  BY DEF StreamInit, At
<1> QED BY <1>1 DEF InInv, Reached, Carried, Waiting, Given, Passed, Accepted, Fed, One

\* The process reads the next in line.
LEMMA ReadIn == ASSUME TypeInv, InInv, Read PROVE InInv'
<1>0. /\ consumed' = Append(consumed, Head(ttyIn)) /\ ttyIn' = Tail(ttyIn) /\ ttyIn # <<>>
      /\ UNCHANGED <<sent, writer, inq, run, inbox>>
  BY DEF Read, taskVars, loopVars, clientVars
<1>1. /\ Head(ttyIn) = ttyIn[1] /\ Head(ttyIn) \in Inputs
      /\ Len(ttyIn') = Len(ttyIn) - 1 /\ Len(ttyIn) \in Nat \ {0}
      /\ \A i \in 1..(Len(ttyIn) - 1) : ttyIn'[i] = ttyIn[i + 1]
      /\ DOMAIN ttyIn' = 1..(Len(ttyIn) - 1) /\ DOMAIN ttyIn = 1..Len(ttyIn)
  BY <1>0, Popped DEF TypeInv, StreamTypeOK
<1>2. /\ Len(consumed') = Len(consumed) + 1 /\ Len(consumed) \in Nat
      /\ consumed'[Len(consumed) + 1] = ttyIn[1]
      /\ \A i \in 1..Len(consumed) : consumed'[i] = consumed[i]
      /\ DOMAIN consumed' = 1..(Len(consumed) + 1) /\ DOMAIN consumed = 1..Len(consumed)
  BY <1>0, <1>1, Pushed DEF TypeInv, StreamTypeOK
<1>3. Given' = Given
  BY <1>1, <1>2 DEF Given
<1>4. Passed' = Passed /\ Accepted' = Accepted /\ Fed' = Fed /\ Looping' = Looping
  BY <1>0, <1>3 DEF Passed, Accepted, Fed, Looping
<1>5. Reached'
  <2>0. Reached
    BY DEF InInv
  <2>1. ttyIn[1] = Len(consumed) + 1
    BY <1>1, <2>0 DEF Reached
  <2>2. \A i \in 1..(Len(consumed) + 1) : i \in 1..Len(consumed) \/ i = Len(consumed) + 1
    BY <1>2
  <2>3. \A i \in DOMAIN consumed' : consumed'[i] = i
    BY <1>2, <2>0, <2>1, <2>2 DEF Reached
  <2>4. \A i \in DOMAIN ttyIn' : ttyIn'[i] = Len(consumed') + i
    <3> SUFFICES ASSUME NEW i \in 1..(Len(ttyIn) - 1) PROVE ttyIn'[i] = Len(consumed') + i
      BY <1>1
    <3>0. i + 1 \in DOMAIN ttyIn
      BY <1>1
    <3>1. ttyIn[i + 1] = Len(consumed) + (i + 1)
      BY <2>0, <3>0 DEF Reached
    <3> QED BY <1>1, <1>2, <3>1
  <2> QED BY <1>0, <1>3, <2>0, <2>3, <2>4 DEF Reached
<1> QED BY <1>0, <1>4, <1>5 DEF InInv, Carried, Waiting

\* The writer task takes it from the channel,
LEMMA RecvIn == ASSUME TypeInv, InInv, WriterRecv PROVE InInv'
<1>0. /\ writer.pc = "recv" /\ writer' = At("write", Head(inq)) /\ inq' = Tail(inq) /\ inq # <<>>
      /\ UNCHANGED <<consumed, ttyIn, sent, run, inbox>>
  BY DEF WriterRecv, processVars, loopVars, clientVars
<1>a. writer'.pc = "write" /\ writer'.item = Head(inq)
  BY <1>0 DEF At
<1>1. /\ Head(inq) = inq[1]
      /\ Len(inq') = Len(inq) - 1 /\ Len(inq) \in Nat \ {0}
      /\ \A i \in 1..(Len(inq) - 1) : inq'[i] = inq[i + 1]
      /\ DOMAIN inq' = 1..(Len(inq) - 1) /\ DOMAIN inq = 1..Len(inq)
  BY <1>0, Popped DEF TypeInv, StreamTypeOK
<1>2. Given' = Given /\ Passed' = Passed + 1 /\ Passed \in Nat /\ Looping' = Looping
  BY <1>0, <1>a, CountedIn DEF Given, Passed, One, Looping
<1>3. Accepted' = Accepted
  BY <1>1, <1>2 DEF Accepted
<1>4. Fed' = Fed
  BY <1>0, <1>3 DEF Fed
<1>5. Carried /\ Reached /\ (Looping => Waiting)
  BY <1>0 DEF InInv
<1>6. inq[1] = Passed + 1
  BY <1>1, <1>5 DEF Carried
<1>7. \A i \in DOMAIN inq' : inq'[i] = Passed' + i
  <2> SUFFICES ASSUME NEW i \in 1..(Len(inq) - 1) PROVE inq'[i] = Passed' + i
    BY <1>1
  <2>1. i + 1 \in DOMAIN inq /\ inq[i + 1] = Passed + (i + 1)
    BY <1>1, <1>5 DEF Carried
  <2> QED BY <1>1, <1>2, <2>1
<1>8. Carried'
  BY <1>0, <1>1, <1>2, <1>3, <1>5, <1>6, <1>7, <1>a DEF Carried
<1>9. Reached' /\ (Looping' => Waiting')
  BY <1>0, <1>2, <1>4, <1>5 DEF Reached, Waiting
<1> QED BY <1>8, <1>9, <1>a DEF InInv

\* and writes it behind what the terminal holds.
LEMMA WriteIn == ASSUME TypeInv, InInv, WriterWrite PROVE InInv'
<1>0. /\ writer.pc = "write" /\ writer' = At("recv", None) /\ ttyIn' = Append(ttyIn, writer.item)
      /\ UNCHANGED <<consumed, inq, sent, run, inbox>>
  BY DEF WriterWrite, loopVars, clientVars
<1>a. writer'.pc = "recv" /\ writer.item \in Inputs
  BY <1>0 DEF At, TypeInv, Hands
<1>1. /\ Len(ttyIn') = Len(ttyIn) + 1 /\ Len(ttyIn) \in Nat
      /\ ttyIn'[Len(ttyIn) + 1] = writer.item
      /\ \A i \in 1..Len(ttyIn) : ttyIn'[i] = ttyIn[i]
      /\ DOMAIN ttyIn' = 1..(Len(ttyIn) + 1) /\ DOMAIN ttyIn = 1..Len(ttyIn)
  BY <1>0, <1>a, Pushed DEF TypeInv, StreamTypeOK
<1>2. Given' = Given + 1 /\ Passed' = Passed /\ Passed = Given + 1 /\ Looping' = Looping
  BY SMTT(40), <1>0, <1>1, <1>a, CountedIn DEF Given, Passed, One, Looping
<1>3. Accepted' = Accepted /\ Fed' = Fed
  BY <1>0, <1>2 DEF Accepted, Fed
<1>5. Carried /\ Reached /\ (Looping => Waiting)
  BY <1>0 DEF InInv
<1>6. writer.item = Len(consumed) + (Len(ttyIn) + 1)
  BY <1>0, <1>2, <1>5, CountedIn DEF Carried, Given
<1>7. \A i \in DOMAIN ttyIn' : ttyIn'[i] = Len(consumed') + i
  <2>1. \A i \in 1..(Len(ttyIn) + 1) : i \in 1..Len(ttyIn) \/ i = Len(ttyIn) + 1
    BY <1>1
  <2> QED BY <1>0, <1>1, <1>5, <1>6, <2>1 DEF Reached
<1>8. Given' <= sent'
  BY SMTT(40), <1>0, <1>2, <1>5, CountedIn DEF Carried, Accepted
<1>9. Reached'
  BY <1>0, <1>5, <1>7, <1>8 DEF Reached
<1>10. Carried' /\ (Looping' => Waiting')
  BY <1>0, <1>2, <1>3, <1>5, <1>a DEF Carried, Waiting
<1> QED BY <1>9, <1>10, <1>a DEF InInv

\* The writer task is gone, and what it held with it.
LEMMA DoneIn == ASSUME TypeInv, InInv, WriterFails \/ Terminate, UNCHANGED sent PROVE InInv'
<1>1. writer'.pc = "done" /\ inq' = <<>> /\ UNCHANGED <<consumed, ttyIn>>
  BY DEF WriterFails, Terminate, At, processVars
<1> QED BY <1>1 DEF InInv, Reached, Given

\* The loop leaves, which nothing waits for.
LEMMA LeaveIn ==
  ASSUME InInv, UNCHANGED <<consumed, ttyIn, sent, writer, inq>>, ~Looping'
  PROVE  InInv'
BY DEF InInv, Reached, Carried, Given, Passed, Accepted

\* The loop takes the next frame of the client's.
LEMMA IncomingIn == ASSUME TypeInv, InInv, RunIncoming PROVE InInv'
<1>0. /\ run.pc = "select" /\ Looping /\ inbox # <<>> /\ inbox' = Tail(inbox)
      /\ UNCHANGED <<consumed, ttyIn, sent, writer, inq>>
  BY DEF RunIncoming, RunGoto, Looping, processVars, taskVars
<1>1. CASE Head(inbox) \in {Bad, Close}
  <2>1. ~Looping'
    BY <1>1 DEF RunIncoming, RunGoto, At, Looping
  <2> QED BY <1>0, <2>1, LeaveIn
<1>2. CASE Head(inbox) \notin {Bad, Close}
  <2>1. run'.pc = "feeding" /\ run'.item = Head(inbox)
    BY <1>2 DEF RunIncoming, RunGoto, At
  <2>2. /\ Head(inbox) = inbox[1] /\ Head(inbox) \in Inputs
        /\ Len(inbox') = Len(inbox) - 1 /\ Len(inbox) \in Nat \ {0}
        /\ \A i \in 1..(Len(inbox) - 1) : inbox'[i] = inbox[i + 1]
        /\ DOMAIN inbox' = 1..(Len(inbox) - 1) /\ DOMAIN inbox = 1..Len(inbox)
    BY <1>0, <1>2, Popped DEF TypeInv, StreamTypeOK
  <2>3. inbox[1] \in Nat
    BY <2>2 DEF Inputs
  <2>4. Given' = Given /\ Passed' = Passed /\ Accepted' = Accepted /\ Fed' = Fed + 1 /\ Fed \in Nat
    BY <1>0, <2>1, CountedIn DEF Given, Passed, Accepted, Fed, One
  <2>5. CASE writer.pc = "done"
    BY <1>0, <2>4, <2>5 DEF InInv, Reached
  <2>6. CASE writer.pc # "done"
    <3>1. Reached /\ Carried /\ Waiting
      BY <1>0, <2>6 DEF InInv
    <3>2. inbox[1] = Fed + 1
      BY <2>2, <2>3, <3>1 DEF Waiting
    <3>3. ASSUME NEW i \in DOMAIN inbox', inbox'[i] \in Nat PROVE inbox'[i] = Fed' + i /\ inbox'[i] <= sent
      <4>1. i + 1 \in DOMAIN inbox /\ inbox'[i] = inbox[i + 1]
        BY <2>2
      <4>2. inbox[i + 1] = Fed + (i + 1) /\ inbox[i + 1] <= sent
        BY <3>1, <3>3, <4>1 DEF Waiting
      <4> QED BY <2>2, <2>4, <4>1, <4>2
    <3>4. inbox[1] <= sent
      <4>1. \A i \in DOMAIN inbox : inbox[i] \in Nat => inbox[i] <= sent
        BY <3>1 DEF Waiting
      <4> QED BY <2>2, <2>3, <4>1
    <3>5. (\A i \in DOMAIN inbox' : inbox'[i] \in Nat) => sent' = Fed' + Len(inbox')
      <4> SUFFICES ASSUME \A i \in DOMAIN inbox' : inbox'[i] \in Nat PROVE sent' = Fed' + Len(inbox')
        OBVIOUS
      <4>1. ASSUME NEW i \in DOMAIN inbox PROVE inbox[i] \in Nat
        <5>1. CASE i = 1
          BY <2>3, <5>1
        <5>2. CASE i # 1
          <6>1. i - 1 \in DOMAIN inbox' /\ inbox'[i - 1] = inbox[i]
            BY <2>2, <5>2
          <6> QED BY <6>1
        <5> QED BY <5>1, <5>2
      <4>2. sent = Fed + Len(inbox)
        BY <3>1, <4>1 DEF Waiting
      <4> QED BY <1>0, <2>2, <2>4, <4>2
    <3>6. Waiting'
      BY <1>0, <2>1, <2>2, <2>4, <3>2, <3>3, <3>4, <3>5 DEF Waiting
    <3> QED BY <1>0, <2>4, <2>6, <3>1, <3>6 DEF InInv, Reached, Carried
  <2> QED BY <2>5, <2>6
<1> QED BY <1>1, <1>2

\* The loop hands the frame to the writer's channel, or to nobody.
LEMMA FeedIn == ASSUME TypeInv, InInv, RunFeed PROVE InInv'
<1>0. /\ run.pc = "feeding" /\ Looping /\ run'.pc = "select"
      /\ UNCHANGED <<consumed, ttyIn, sent, writer, inbox>>
  BY DEF RunFeed, RunGoto, At, Looping, processVars, clientVars
<1>1. Given' = Given /\ Passed' = Passed
  BY <1>0 DEF Given, Passed
<1>2. CASE writer.pc = "done"
  BY <1>0, <1>1, <1>2 DEF RunFeed, InInv, Reached
<1>3. CASE writer.pc # "done"
  <2>0. inq' = Append(inq, run.item) /\ run.item \in Inputs
    BY <1>0, <1>3 DEF RunFeed, TypeInv, Hands
  <2>1. /\ Len(inq') = Len(inq) + 1 /\ Len(inq) \in Nat
        /\ inq'[Len(inq) + 1] = run.item
        /\ \A i \in 1..Len(inq) : inq'[i] = inq[i]
        /\ DOMAIN inq' = 1..(Len(inq) + 1) /\ DOMAIN inq = 1..Len(inq)
    BY <2>0, Pushed DEF TypeInv, StreamTypeOK
  <2>2. Accepted' = Accepted + 1 /\ Fed = Accepted + 1 /\ Fed' = Fed
    BY SMTT(40), <1>0, <1>1, <2>1, CountedIn DEF Accepted, Fed, One
  <2>3. Reached /\ Carried /\ Waiting
    BY <1>0, <1>3 DEF InInv
  <2>4. run.item = Passed + (Len(inq) + 1)
    BY <1>0, <2>1, <2>2, <2>3, CountedIn DEF Waiting, Accepted
  <2>5. \A i \in 1..(Len(inq) + 1) : i \in 1..Len(inq) \/ i = Len(inq) + 1
    BY <2>1
  <2>6. \A i \in DOMAIN inq' : inq'[i] = Passed' + i
    BY <1>1, <2>1, <2>3, <2>4, <2>5 DEF Carried
  <2>7. Accepted' <= sent'
    BY <1>0, <2>2, <2>3 DEF Waiting
  <2>8. Carried'
    BY <1>0, <1>1, <2>3, <2>6, <2>7 DEF Carried
  <2>9. Waiting' /\ Reached'
    BY <1>0, <1>1, <2>2, <2>3 DEF Waiting, Reached
  <2> QED BY <1>0, <1>3, <2>8, <2>9 DEF InInv
<1> QED BY <1>2, <1>3

\* What the rest of the loop does, the input does not see.
LEMMA LoopIn == ASSUME TypeInv, InInv, Run PROVE InInv'
<1>1. CASE RunOutput \/ RunSend
  <2>1. /\ UNCHANGED <<consumed, ttyIn, sent, writer, inq, inbox>>
        /\ Looping /\ run.pc # "feeding" /\ Looping' /\ run'.pc # "feeding"
    BY <1>1 DEF RunOutput, RunSend, RunGoto, At, Looping, processVars, taskVars, clientVars
  <2>2. Given' = Given /\ Passed' = Passed /\ Accepted' = Accepted /\ Fed' = Fed
    BY <2>1 DEF Given, Passed, Accepted, Fed
  <2> QED BY <2>1, <2>2 DEF InInv, Reached, Carried, Waiting
<1>2. CASE RunStopped \/ RunSendFails \/ RunExit \/ RunStatus \/ RunClose
  <2>1. UNCHANGED <<consumed, ttyIn, sent, writer, inq>> /\ ~Looping'
    BY <1>2 DEF RunStopped, RunSendFails, RunExit, RunStatus, RunClose, RunGoto, At, Looping,
       processVars, taskVars, clientVars
  <2> QED BY <2>1, LeaveIn
<1>3. CASE RunReclaim
  <2>1. sent' = sent /\ ~Looping'
    BY <1>3 DEF RunReclaim, RunGoto, At, Looping, clientVars
  <2>2. Terminate \/ UNCHANGED <<consumed, ttyIn, writer, inq>>
    BY <1>3 DEF RunReclaim, processVars, taskVars
  <2> QED BY <2>1, <2>2, DoneIn, LeaveIn
<1> QED BY <1>1, <1>2, <1>3, IncomingIn, FeedIn DEF Run

\* A connected client's frames are all input, so the next is the next in line.
LEMMA SendsIn == ASSUME TypeInv, InInv, ClientSends PROVE InInv'
<1>0. /\ Connected /\ sent' = sent + 1 /\ inbox' = Append(inbox, sent + 1) /\ sent + 1 \in Inputs
      /\ UNCHANGED <<consumed, ttyIn, writer, inq, run>>
  <2>1. sent \in 0..MaxInput /\ MaxInput \in Nat
    BY Bounds DEF TypeInv, StreamTypeOK
  <2> QED BY <2>1 DEF ClientSends, Inputs, processVars, taskVars, loopVars
<1>1. /\ Len(inbox') = Len(inbox) + 1 /\ Len(inbox) \in Nat
      /\ inbox'[Len(inbox) + 1] = sent + 1
      /\ \A i \in 1..Len(inbox) : inbox'[i] = inbox[i]
      /\ DOMAIN inbox' = 1..(Len(inbox) + 1) /\ DOMAIN inbox = 1..Len(inbox)
  BY <1>0, Pushed DEF TypeInv, StreamTypeOK
<1>2. /\ Given' = Given /\ Passed' = Passed /\ Accepted' = Accepted /\ Fed' = Fed
      /\ Looping' = Looping
  BY <1>0 DEF Given, Passed, Accepted, Fed, Looping
<1>3. Given \in Nat /\ Accepted \in Nat /\ Fed \in Nat /\ sent \in Nat
  BY CountedIn
<1>4. Reached' /\ (writer.pc # "done" => Carried')
  BY <1>0, <1>2, <1>3 DEF InInv, Reached, Carried
<1>5. ASSUME writer.pc # "done", Looping PROVE Waiting'
  <2>1. Waiting
    BY <1>5 DEF InInv
  <2>2. \A i \in DOMAIN inbox : inbox[i] \in Nat
    <3>1. \A i \in DOMAIN inbox : inbox[i] \in ToSet(inbox) /\ inbox[i] \in Inputs \cup {Bad, Close}
      BY DEF TypeInv, StreamTypeOK, ToSet
    <3>2. {Bad, Close} \cap ToSet(inbox) = {}
      BY <1>0 DEF Connected
    <3> QED BY <3>1, <3>2 DEF Inputs
  <2>3. sent = Fed + Len(inbox)
    BY <2>1, <2>2 DEF Waiting
  <2>4. ASSUME NEW i \in DOMAIN inbox' PROVE inbox'[i] = Fed' + i /\ inbox'[i] <= sent'
    <3>1. CASE i = Len(inbox) + 1
      BY <1>0, <1>1, <1>2, <1>3, <2>3, <3>1
    <3>2. CASE i \in 1..Len(inbox)
      <4>1. inbox'[i] = inbox[i] /\ inbox[i] = Fed + i /\ inbox[i] <= sent
        BY <1>1, <2>1, <2>2, <3>2 DEF Waiting
      <4> QED BY <1>0, <1>2, <1>3, <4>1
    <3> QED BY <1>1, <3>1, <3>2
  <2>5. Fed' <= sent' /\ sent' = Fed' + Len(inbox')
    BY <1>0, <1>1, <1>2, <1>3, <2>3
  <2>6. run'.pc = "feeding" => run'.item = Fed'
    BY <1>0, <1>2, <2>1 DEF Waiting
  <2> QED BY <2>4, <2>5, <2>6 DEF Waiting
<1> QED BY <1>0, <1>2, <1>4, <1>5 DEF InInv

\* What ends the connection is no input.
LEMMA EndsIn == ASSUME TypeInv, InInv, ClientEnds \/ ClientVanishes PROVE InInv'
<1>0. UNCHANGED <<consumed, ttyIn, sent, writer, inq, run>>
  BY DEF ClientEnds, ClientVanishes, processVars, taskVars, loopVars
<1>a. PICK frame \in {Bad, Close} : inbox' = Append(inbox, frame)
  BY DEF ClientEnds, ClientVanishes
<1>1. /\ Len(inbox') = Len(inbox) + 1 /\ Len(inbox) \in Nat
      /\ inbox'[Len(inbox) + 1] = frame
      /\ \A i \in 1..Len(inbox) : inbox'[i] = inbox[i]
      /\ DOMAIN inbox' = 1..(Len(inbox) + 1) /\ DOMAIN inbox = 1..Len(inbox)
  BY <1>a, Pushed DEF TypeInv, StreamTypeOK
<1>2. /\ Given' = Given /\ Passed' = Passed /\ Accepted' = Accepted /\ Fed' = Fed
      /\ Looping' = Looping
  BY <1>0 DEF Given, Passed, Accepted, Fed, Looping
<1>3. frame \notin Nat
  BY FramesAssumption
<1>4. Len(inbox) + 1 \in DOMAIN inbox'
  BY <1>1
<1>5. \A i \in DOMAIN inbox' : inbox'[i] \in Nat => i \in DOMAIN inbox /\ inbox'[i] = inbox[i]
  <2>1. \A i \in 1..(Len(inbox) + 1) : i \in 1..Len(inbox) \/ i = Len(inbox) + 1
    BY <1>1
  <2> QED BY <1>1, <1>3, <2>1
<1>6. Waiting => Waiting'
  BY <1>0, <1>1, <1>2, <1>3, <1>4, <1>5 DEF Waiting
<1> QED BY <1>0, <1>2, <1>6 DEF InInv, Reached, Carried

\* So every step keeps the input in line.
LEMMA InputStays == TypeInv /\ InInv /\ [StreamNext]_streamVars => InInv'
<1> SUFFICES ASSUME TypeInv, InInv, [StreamNext]_streamVars PROVE InInv'
  OBVIOUS
<1>1. CASE \/ Over \/ UNCHANGED streamVars \/ Write \/ Exit \/ DescendantExit \/ Wait
           \/ ReaderRead \/ ReaderSend \/ ReapStop \/ ClientReads
  <2>1. UNCHANGED inVars
    BY <1>1 DEF Over, streamVars, Write, Exit, DescendantExit, Wait, ReaderRead, ReaderSend, ReapStop,
       ClientReads, inVars, processVars, taskVars, loopVars, clientVars
  <2> QED BY <2>1, InStays
<1>2. CASE WriterFails \/ ReapTerminate
  BY <1>2, DoneIn DEF WriterFails, ReapTerminate, clientVars
<1>3. CASE Run \/ Read \/ WriterRecv \/ WriterWrite \/ ClientSends \/ ClientEnds \/ ClientVanishes
  BY <1>3, LoopIn, ReadIn, RecvIn, WriteIn, SendsIn, EndsIn
<1> QED BY <1>1, <1>2, <1>3 DEF StreamNext, Process, Tasks, Client

-----------------------------------------------------------------------------
(* The theorems.                                                           *)

\* The queues, tasks and frames of a session keep their types and bounds, the chunks and
\* the input frames their places in line, for any loads and any room.
THEOREM StreamInvariant == StreamSafety => [](TypeInv /\ OutInv /\ InInv)
<1>1. StreamInit => TypeInv /\ OutInv /\ InInv
  BY InitTypes, InitOut, InitIn
<1>2. TypeInv /\ OutInv /\ InInv /\ [StreamNext]_streamVars => (TypeInv /\ OutInv /\ InInv)'
  BY TypesStay, OutputStays, InputStays
<1> QED BY <1>1, <1>2, PTL DEF StreamSafety

\* Chunks in line are in order.
LEMMA LineOrdersOutput == ASSUME TypeInv, OutInv PROVE OutputInOrder
<1>1. \E n \in Nat : /\ n <= written /\ n <= Len(Frames) /\ Heading(n)
                     /\ \A i \in DOMAIN Frames : i > n => Frames[i] \notin Nat
  <2>1. CASE Looping
    <3>1. Heading(Len(Frames)) /\ Len(Frames) <= written /\ Len(Frames) \in Nat
      BY <2>1, Counted DEF OutInv, InLine, Queued, Loop, One
    <3>2. \A i \in DOMAIN Frames : ~(i > Len(Frames))
      BY FramesTyped
    <3> QED BY <3>1, <3>2
  <2>2. CASE ~Looping
    <3>1. PICK n \in Nat : EndsAfter(n)
      BY <2>2 DEF OutInv, Ending
    <3>2. ASSUME NEW i \in DOMAIN Frames, i > n PROVE Frames[i] \notin Nat
      <4>1. i \in 1..Len(Frames) /\ Len(Frames) \in Nat
        BY FramesTyped
      <4>2. CASE i = n + 1
        <5>1. Frames[i] \in {Status, Close}
          BY <3>1, <4>1, <4>2 DEF EndsAfter
        <5> QED BY <5>1, FramesAssumption
      <4>3. CASE i > n + 1
        BY <3>1, <4>3, FramesAssumption DEF EndsAfter
      <4> QED BY <3>2, <4>1, <4>2, <4>3
    <3> QED BY <3>1, <3>2 DEF EndsAfter
  <2> QED BY <2>1, <2>2
<1>2. PICK n \in Nat : /\ n <= written /\ n <= Len(Frames) /\ Heading(n)
                      /\ \A i \in DOMAIN Frames : i > n => Frames[i] \notin Nat
  BY <1>1
<1>3. ASSUME NEW i \in DOMAIN Frames, Frames[i] \in Chunks
      PROVE  i <= written /\ \A j \in 1..i : Frames[j] = j
  <2>1. i \in Nat /\ Frames[i] \in Nat
    <3>1. Len(Frames) \in Nat /\ DOMAIN Frames = 1..Len(Frames)
      BY FramesTyped
    <3> QED BY <1>3, <3>1 DEF Chunks
  <2>2. i <= n
    BY <1>2, <2>1
  <2> QED BY <1>2, <2>1, <2>2, Counted DEF Heading
<1> QED BY <1>3 DEF OutputInOrder

\* Input in line is in order.
LEMMA LineOrdersInput == ASSUME TypeInv, InInv PROVE InputInOrder
BY CountedIn DEF InInv, Reached, Given, InputInOrder

\* A status follows all chunks, and all there are unless the session was reaped.
LEMMA StatusVouches == ASSUME TypeInv, OutInv PROVE StatusEndsOutput
<1> SUFFICES ASSUME NEW i \in DOMAIN Frames, Frames[i] = Status
             PROVE  /\ \A j \in DOMAIN Frames : j > i => Frames[j] = Close
                    /\ reclaim = "left" => i = written + 1 /\ \A j \in 1..written : Frames[j] = j
  BY DEF StatusEndsOutput
<1>1. terminal /\ ~Looping
  BY DEF OutInv, Vouch
<1>2. PICK n \in Nat : EndsAfter(n)
  BY <1>1 DEF OutInv, Ending
<1>3. i \in 1..Len(Frames) /\ Len(Frames) \in Nat /\ DOMAIN Frames = 1..Len(Frames)
  BY FramesTyped
<1>4. i = n + 1
  <2>1. ~(i <= n)
    <3> SUFFICES ASSUME i <= n PROVE FALSE
      OBVIOUS
    <3>1. i \in Nat /\ i \in 1..n
      BY <1>3
    <3>2. Frames[i] = i
      BY <1>2, <3>1 DEF EndsAfter, Heading
    <3>3. Status \in Nat
      BY <3>1, <3>2
    <3> QED BY <3>3, FramesAssumption
  <2>2. ~(i > n + 1)
    BY <1>2, FramesAssumption DEF EndsAfter
  <2> QED BY <1>3, <2>1, <2>2
<1>5. reclaim = "left" => n = written
  BY <1>1, <1>2 DEF EndsAfter
<1> QED BY <1>2, <1>4, <1>5 DEF EndsAfter, Heading

\* Whatever the loads and however small the queues: what the client gets of the terminal is
\* what the process wrote, from the start and without a gap, what the process reads is what
\* the client sent, and a status, unless the reaper came first, follows all the output.
THEOREM BytesStayInOrder == StreamSafety => []BytesInOrder
<1>1. TypeInv /\ OutInv /\ InInv => BytesInOrder
  BY LineOrdersOutput, LineOrdersInput, StatusVouches DEF BytesInOrder, TypeInv
<1> QED BY <1>1, StreamInvariant, PTL

===============================================================================
