------------------------------ MODULE PtySession ------------------------------
(***************************************************************************)
(* The life of the terminal sessions of one server: the attach requests    *)
(* that claim them, the task that serves an attached one, and the reaper   *)
(* that takes back the ones that went quiet.                               *)
(*                                                                         *)
(* Time is the time LEFT to a session's deadline: `Instant::now() >=       *)
(* deadline` is left[s] = 0, and setting a deadline is setting left[s].    *)
(* Session::reclaim takes four locks one after another and is four steps   *)
(* here, because other tasks run between them.                             *)
(***************************************************************************)
EXTENDS Naturals

CONSTANTS
  Sessions,   \* the sessions created in one server run
  Handlers,   \* the attach requests, each naming one session
  Reaper,     \* the task of Sessions::new
  NoOne,      \* "no handler"
  Pending,    \* ticks a session waits for its attach   (PENDING)
  Idle        \* ticks an attached session may be quiet (IDLE)

ASSUME ActorsAssumption == Reaper \notin Handlers /\ NoOne \notin Handlers
ASSUME DeadlinesAssumption == Pending \in Nat \ {0} /\ Idle \in Nat \ {0}

VARIABLES
  place,      \* place[s]: is the session in the map of Sessions
  stage,      \* stage[s]: the Stage behind its lock
  left,       \* left[s]: the ticks left to the deadline in the stage
  stored,     \* stored[s]: Session.attachment is Some
  stopped,    \* stopped[s]: the token is cancelled
  terminated, \* terminated[s]: ProcessHandle::terminate has run
  pc,         \* pc[a]: where the handler or the reaper is
  target,     \* target[a]: the session it deals with
  holds,      \* holds[h]: the handler owns the attachment of its session
  inScope,    \* inScope[h]: the request came under the session's workspace
  reason,     \* reason[h]: why the handler ends the session
  batch,      \* the expired sessions the reaper still has to reclaim
  claimant    \* claimant[s]: the last handler whose claim changed the stage
              \* (history: the program keeps no such field)

sessionVars == <<place, stage, left, stored, stopped, terminated>>
actorVars == <<pc, target, holds, inScope, reason, batch>>
vars == <<sessionVars, actorVars, claimant>>

Actors == Handlers \cup {Reaper}

Places == {"absent", "spawned", "registered", "removed", "abandoned"}
Stages == {"none", "pending", "attached", "reclaimed"}
Reasons == {"none", "stopped", "exited", "closed", "upgrade"}

Running == {"run", "send", "feed"}
Reclaiming == {"release", "cancel", "kill"}
Closing == {"status", "close", "done"}
\* Where a handler whose claim succeeded can be.
Claimed == {"take", "upgrade", "failed", "mark"} \cup Running \cup Reclaiming
             \cup Closing
HandlerPCs == Claimed \cup {"lookup", "claim", "refused"}
ReaperPCs == {"idle", "mark"} \cup Reclaiming

TypeOK ==
  /\ place \in [Sessions -> Places]
  /\ stage \in [Sessions -> Stages]
  /\ left \in [Sessions -> Nat]
  /\ stored \in [Sessions -> BOOLEAN]
  /\ stopped \in [Sessions -> BOOLEAN]
  /\ terminated \in [Sessions -> BOOLEAN]
  /\ pc \in [Actors -> HandlerPCs \cup ReaperPCs]
  /\ \A h \in Handlers : pc[h] \in HandlerPCs
  /\ pc[Reaper] \in ReaperPCs
  /\ target \in [Actors -> Sessions]
  /\ holds \in [Handlers -> BOOLEAN]
  /\ inScope \in [Handlers -> BOOLEAN]
  /\ reason \in [Handlers -> Reasons]
  /\ batch \in SUBSET Sessions
  /\ claimant \in [Sessions -> Handlers \cup {NoOne}]

Init ==
  /\ place = [s \in Sessions |-> "absent"]
  /\ stage = [s \in Sessions |-> "none"]
  /\ left = [s \in Sessions |-> 0]
  /\ stored = [s \in Sessions |-> FALSE]
  /\ stopped = [s \in Sessions |-> FALSE]
  /\ terminated = [s \in Sessions |-> FALSE]
  /\ pc = [a \in Actors |-> IF a = Reaper THEN "idle" ELSE "lookup"]
  /\ target \in [Actors -> Sessions]
  /\ holds = [h \in Handlers |-> FALSE]
  /\ inScope \in [Handlers -> BOOLEAN]
  /\ reason = [h \in Handlers |-> "none"]
  /\ batch = {}
  /\ claimant = [s \in Sessions |-> NoOne]

Goto(a, from, to) == pc[a] = from /\ pc' = [pc EXCEPT ![a] = to]

-----------------------------------------------------------------------------
(* Creating a session: pty/http.rs `create`.                               *)

\* Session::spawn: the process runs and the pending deadline starts.
Spawn(s) ==
  /\ place[s] = "absent"
  /\ place' = [place EXCEPT ![s] = "spawned"]
  /\ stage' = [stage EXCEPT ![s] = "pending"]
  /\ left' = [left EXCEPT ![s] = Pending]
  /\ stored' = [stored EXCEPT ![s] = TRUE]
  /\ UNCHANGED <<stopped, terminated, actorVars, claimant>>

\* Sessions::create: the session enters the map.
Register(s) ==
  /\ place[s] = "spawned"
  /\ place' = [place EXCEPT ![s] = "registered"]
  /\ UNCHANGED <<stage, left, stored, stopped, terminated, actorVars, claimant>>

\* The request is dropped while it waits for the map's lock; dropping the
\* session drops its ProcessHandle, which terminates the process.
Abandon(s) ==
  /\ place[s] = "spawned"
  /\ place' = [place EXCEPT ![s] = "abandoned"]
  /\ stored' = [stored EXCEPT ![s] = FALSE]
  /\ terminated' = [terminated EXCEPT ![s] = TRUE]
  /\ UNCHANGED <<stage, left, stopped, actorVars, claimant>>

-----------------------------------------------------------------------------
(* Attaching: Sessions::attach, Session::claim and the handler around them. *)

\* Sessions::attach reads the map under its lock and releases it.
Lookup(h) ==
  /\ \/ /\ place[target[h]] = "registered"
        /\ Goto(h, "lookup", "claim")
     \/ /\ place[target[h]] # "registered"
        /\ Goto(h, "lookup", "refused")
  /\ UNCHANGED <<sessionVars, target, holds, inScope, reason, batch, claimant>>

\* The first half of Session::claim, under the stage's lock.
Claimable(h) == inScope[h] /\ stage[target[h]] = "pending"

Claim(h) ==
  /\ \/ /\ Claimable(h)
        /\ Goto(h, "claim", "take")
        /\ stage' = [stage EXCEPT ![target[h]] = "attached"]
        /\ left' = [left EXCEPT ![target[h]] = Idle]
        /\ claimant' = [claimant EXCEPT ![target[h]] = h]
     \/ /\ ~Claimable(h)
        /\ Goto(h, "claim", "refused")
        /\ UNCHANGED <<stage, left, claimant>>
  /\ UNCHANGED <<place, stored, stopped, terminated>>
  /\ UNCHANGED <<target, holds, inScope, reason, batch>>

\* The second half, under the attachment's lock: a reclaim that ran in between
\* leaves None, and the claim fails after all.
Take(h) ==
  /\ \/ /\ stored[target[h]]
        /\ Goto(h, "take", "upgrade")
        /\ stored' = [stored EXCEPT ![target[h]] = FALSE]
        /\ holds' = [holds EXCEPT ![h] = TRUE]
     \/ /\ ~stored[target[h]]
        /\ Goto(h, "take", "refused")
        /\ UNCHANGED <<stored, holds>>
  /\ UNCHANGED <<place, stage, left, stopped, terminated>>
  /\ UNCHANGED <<target, inScope, reason, batch, claimant>>

\* The request carries no OnUpgrade: it is answered 500 and the attachment is
\* dropped, the session itself left to its idle deadline.
NotUpgradable(h) ==
  /\ Goto(h, "upgrade", "failed")
  /\ holds' = [holds EXCEPT ![h] = FALSE]
  /\ UNCHANGED <<sessionVars, target, inScope, reason, batch, claimant>>

\* The spawned task: on_upgrade.await answers.
Upgraded(h) ==
  /\ Goto(h, "upgrade", "run")
  /\ UNCHANGED <<sessionVars, target, holds, inScope, reason, batch, claimant>>

UpgradeFails(h) ==
  /\ Goto(h, "upgrade", "mark")
  /\ reason' = [reason EXCEPT ![h] = "upgrade"]
  /\ UNCHANGED <<sessionVars, target, holds, inScope, batch, claimant>>

-----------------------------------------------------------------------------
(* Serving: the loop of Session::run.  The bytes are in PtyStream; here a   *)
(* turn of the loop is what it does to the stage, and where it can wait.    *)

\* Session::touch: only an attached session gets a new deadline.
Touch(s) ==
  left' = [left EXCEPT ![s] = IF stage[s] = "attached" THEN Idle ELSE @]

\* A text, ping or pong frame, or a resize.
Activity(h) ==
  /\ pc[h] = "run"
  /\ Touch(target[h])
  /\ UNCHANGED <<place, stage, stored, stopped, terminated, actorVars, claimant>>

\* Input: touch, then wait for room in the writer's channel.
Feed(h) ==
  /\ Goto(h, "run", "feed")
  /\ Touch(target[h])
  /\ UNCHANGED <<place, stage, stored, stopped, terminated>>
  /\ UNCHANGED <<target, holds, inScope, reason, batch, claimant>>

FeedDone(h) ==
  /\ Goto(h, "feed", "run")
  /\ UNCHANGED <<sessionVars, target, holds, inScope, reason, batch, claimant>>

\* A chunk of output: wait for the client to take it, then touch.
Send(h) ==
  /\ Goto(h, "run", "send")
  /\ UNCHANGED <<sessionVars, target, holds, inScope, reason, batch, claimant>>

SendDone(h) ==
  /\ Goto(h, "send", "run")
  /\ Touch(target[h])
  /\ UNCHANGED <<place, stage, stored, stopped, terminated>>
  /\ UNCHANGED <<target, holds, inScope, reason, batch, claimant>>

\* Mutant: the socket is closed before the session is reclaimed.
Leave_ClosesFirst(h, from, why) ==
  /\ Goto(h, from, "close")
  /\ reason' = [reason EXCEPT ![h] = why]
  /\ UNCHANGED <<place, stage, stored, stopped, terminated>>
  /\ UNCHANGED <<target, holds, inScope, batch, claimant>>

Leave(h, from, why) ==
  /\ Goto(h, from, "mark")
  /\ reason' = [reason EXCEPT ![h] = why]
  /\ UNCHANGED <<place, stage, stored, stopped, terminated>>
  /\ UNCHANGED <<target, holds, inScope, batch, claimant>>

LeaveStopped(h) ==
  stopped[target[h]] /\ Leave(h, "run", "stopped") /\ UNCHANGED left

\* The client closes, the connection breaks, or a send fails.
LeaveClosed(h) ==
  (Leave(h, "run", "closed") \/ Leave(h, "send", "closed")) /\ UNCHANGED left

\* A frame `decode` refuses: activity, then the end.
LeaveBadFrame(h) == Leave(h, "run", "closed") /\ Touch(target[h])

\* The output has ended and the process's status is there.
LeaveExited(h) == Leave(h, "run", "exited") /\ UNCHANGED left

\* After the reclaim: the terminal frame if there is one, then the close.
SendStatus(h) ==
  /\ Goto(h, "status", "close")
  /\ UNCHANGED <<sessionVars, target, holds, inScope, reason, batch, claimant>>

CloseSocket(h) ==
  /\ Goto(h, "close", "done")
  /\ holds' = [holds EXCEPT ![h] = FALSE]
  /\ UNCHANGED <<sessionVars, target, inScope, reason, batch, claimant>>

-----------------------------------------------------------------------------
(* Session::reclaim, by a handler or by the reaper.                        *)

\* Where the caller goes on once reclaim returns.
After(a) == IF a = Reaper THEN "idle"
            ELSE CASE reason[a] = "exited"  -> "status"
                   [] reason[a] = "upgrade" -> "done"
                   [] OTHER                 -> "close"

\* What a handler drops with its task: only the failed upgrade ends here.
DropAttachment(a) ==
  holds' = [h \in Handlers |-> holds[h] /\ ~(h = a /\ reason[h] = "upgrade")]

\* Mutant: no gate, every caller goes through the whole reclaim.
Mark_Ungated(a) ==
  /\ Goto(a, "mark", "release")
  /\ stage' = [stage EXCEPT ![target[a]] = "reclaimed"]
  /\ left' = [left EXCEPT ![target[a]] = 0]
  /\ UNCHANGED <<place, stored, stopped, terminated, holds>>
  /\ UNCHANGED <<target, inScope, reason, batch, claimant>>

\* The gate: whoever finds the stage Reclaimed returns at once.
Mark(a) ==
  LET s == target[a] IN
  /\ \/ /\ stage[s] = "reclaimed"
        /\ Goto(a, "mark", After(a))
        /\ DropAttachment(a)
        /\ UNCHANGED <<stage, left>>
     \/ /\ stage[s] # "reclaimed"
        /\ Goto(a, "mark", "release")
        /\ stage' = [stage EXCEPT ![s] = "reclaimed"]
        /\ left' = [left EXCEPT ![s] = 0]
        /\ UNCHANGED holds
  /\ UNCHANGED <<place, stored, stopped, terminated>>
  /\ UNCHANGED <<target, inScope, reason, batch, claimant>>

\* Mutant: the attachment of an unclaimed session stays where it is.
Release_Forgets(a) ==
  /\ Goto(a, "release", "cancel")
  /\ UNCHANGED <<sessionVars, target, holds, inScope, reason, batch, claimant>>

\* attachment.take(): an unclaimed session lets go of its reader.
Release(a) ==
  /\ Goto(a, "release", "cancel")
  /\ stored' = [stored EXCEPT ![target[a]] = FALSE]
  /\ UNCHANGED <<place, stage, left, stopped, terminated>>
  /\ UNCHANGED <<target, holds, inScope, reason, batch, claimant>>

\* Mutant: the token is cancelled and the process left alone.
Cancel_IsAll(a) ==
  /\ Goto(a, "cancel", After(a))
  /\ stopped' = [stopped EXCEPT ![target[a]] = TRUE]
  /\ DropAttachment(a)
  /\ UNCHANGED <<place, stage, left, stored, terminated>>
  /\ UNCHANGED <<target, inScope, reason, batch, claimant>>

Cancel(a) ==
  /\ Goto(a, "cancel", "kill")
  /\ stopped' = [stopped EXCEPT ![target[a]] = TRUE]
  /\ UNCHANGED <<place, stage, left, stored, terminated>>
  /\ UNCHANGED <<target, holds, inScope, reason, batch, claimant>>

Kill(a) ==
  /\ Goto(a, "kill", After(a))
  /\ terminated' = [terminated EXCEPT ![target[a]] = TRUE]
  /\ DropAttachment(a)
  /\ UNCHANGED <<place, stage, left, stored, stopped>>
  /\ UNCHANGED <<target, inScope, reason, batch, claimant>>

Reclaim(a) == Mark(a) \/ Release(a) \/ Cancel(a) \/ Kill(a)

-----------------------------------------------------------------------------
(* The reaper: `reap`.                                                     *)

\* Mutants: only one of the two deadlines is looked at.
Expired_PendingOnly(s) == stage[s] = "pending" /\ left[s] = 0
Expired_AttachedOnly(s) == stage[s] = "attached" /\ left[s] = 0

Expired(s) == stage[s] \in {"pending", "attached"} /\ left[s] = 0

\* Mutant: what is expired is forgotten with what is reclaimed.
Sweep_DropsExpired ==
  /\ pc[Reaper] = "idle" /\ batch = {}
  /\ place' = [s \in Sessions |->
                 IF place[s] = "registered" /\ (stage[s] = "reclaimed" \/ Expired(s))
                 THEN "removed" ELSE place[s]]
  /\ UNCHANGED <<batch, stage, left, stored, stopped, terminated>>
  /\ UNCHANGED <<pc, target, holds, inScope, reason, claimant>>

\* One turn of the ticker, under the map's lock: forget what is reclaimed and
\* collect what is expired.
Sweep ==
  /\ pc[Reaper] = "idle" /\ batch = {}
  /\ place' = [s \in Sessions |->
                 IF place[s] = "registered" /\ stage[s] = "reclaimed"
                 THEN "removed" ELSE place[s]]
  /\ batch' = {s \in Sessions : place[s] = "registered" /\ Expired(s)}
  /\ UNCHANGED <<stage, left, stored, stopped, terminated>>
  /\ UNCHANGED <<pc, target, holds, inScope, reason, claimant>>

\* The lock is released: the sessions collected are reclaimed one by one,
\* without a second look at their deadlines.
Pick ==
  /\ Goto(Reaper, "idle", "mark")
  /\ \E s \in batch : /\ target' = [target EXCEPT ![Reaper] = s]
                      /\ batch' = batch \ {s}
  /\ UNCHANGED <<sessionVars, holds, inScope, reason, claimant>>

\* Time passes for every session that has a deadline.
Tick ==
  /\ \E s \in Sessions : left[s] > 0
  /\ left' = [s \in Sessions |-> IF left[s] > 0 THEN left[s] - 1 ELSE 0]
  /\ UNCHANGED <<place, stage, stored, stopped, terminated, actorVars, claimant>>
-----------------------------------------------------------------------------

Creating(s) == Spawn(s) \/ Register(s) \/ Abandon(s)

Attaching(h) == \/ Lookup(h) \/ Claim(h) \/ Take(h)
                \/ NotUpgradable(h) \/ Upgraded(h) \/ UpgradeFails(h)

Serving(h) == \/ Activity(h) \/ Feed(h) \/ FeedDone(h) \/ Send(h) \/ SendDone(h)
              \/ LeaveStopped(h) \/ LeaveClosed(h) \/ LeaveBadFrame(h)
              \/ LeaveExited(h) \/ SendStatus(h) \/ CloseSocket(h)

Next == \/ \E s \in Sessions : Creating(s)
        \/ \E h \in Handlers : Attaching(h) \/ Serving(h)
        \/ \E a \in Actors : Reclaim(a)
        \/ Sweep \/ Pick \/ Tick

\* The runtime schedules every ready task and the clock runs.  What depends on
\* the client (its frames, its reading, its upgrade) is not fair.  select!
\* polls its branches in random order, so a branch that is ready again and
\* again is taken: strong fairness for the stop.  Input for a terminated
\* process finds the writer's channel closed, so that wait ends.
Fairness ==
  /\ WF_vars(Tick) /\ WF_vars(Sweep) /\ WF_vars(Pick)
  /\ \A a \in Actors : WF_vars(Reclaim(a))
  /\ \A h \in Handlers : /\ WF_vars(Claim(h) \/ Take(h))
                         /\ SF_vars(LeaveStopped(h))
                         /\ WF_vars(FeedDone(h) /\ terminated[target[h]])

Safety == Init /\ [][Next]_vars

Spec == Safety /\ Fairness
-----------------------------------------------------------------------------
(* Safety.                                                                 *)

\* A claim that changed the stage is the only one its session ever sees: the
\* handler past it came under the session's workspace and is the last claimant,
\* it still finds the attachment while the session lives, and once it owns the
\* attachment the session has none to give.
OneClient ==
  \A h \in Handlers :
    /\ pc[h] \in Claimed => inScope[h] /\ claimant[target[h]] = h
    /\ pc[h] = "take" /\ stage[target[h]] = "attached" => stored[target[h]]
    /\ holds[h] => pc[h] \in Claimed \ {"take"} /\ ~stored[target[h]]

\* A client that sees its socket close and attaches again finds nothing: by
\* the time the terminal frame or the close is sent the session is reclaimed.
ClosedIsGone ==
  \A h \in Handlers : pc[h] \in Closing => stage[target[h]] = "reclaimed"

\* However the reaper and a leaving client race, one of them tears the session
\* down: the process is killed by a single caller.
OneReclaimer ==
  \A a, b \in Actors :
    pc[a] \in Reclaiming /\ pc[b] \in Reclaiming /\ target[a] = target[b] => a = b

\* One client and one end: nobody shares a session, nor its teardown.
OneOwner == OneClient /\ OneReclaimer

\* A session the reaper forgot leaves no process behind that nobody is about
\* to kill.
NoLeakedProcess ==
  \A s \in Sessions :
    place[s] = "removed" =>
      \/ terminated[s]
      \/ \E a \in Actors : target[a] = s /\ pc[a] \in Reclaiming

\* A process that was terminated has no client to come: the token its client
\* waits for is cancelled and the output is given to nobody any more.
TerminatedIsReleased ==
  \A s \in Sessions :
    terminated[s] /\ place[s] # "abandoned" =>
      stage[s] = "reclaimed" /\ stopped[s] /\ ~stored[s]

-----------------------------------------------------------------------------
(* Liveness.                                                               *)

\* Reclaiming a session gets its process killed and its entry removed.
ReclaimCompletes ==
  \A s \in Sessions :
    stage[s] = "reclaimed" ~> terminated[s] /\ place[s] = "removed"

\* A session stays attached for ever only if its socket is active for ever.
OnlyActivityKeepsAlive ==
  \A s \in Sessions :
    <>[](stage[s] = "attached") => []<>(left[s] = Idle)

\* The life of a session as SessionLife sees it.
LifeOf(s) ==
  CASE place[s] \in {"absent", "spawned", "abandoned"} -> "none"
    [] place[s] \in {"registered", "removed"} /\ stage[s] = "pending" -> "open"
    [] place[s] \in {"registered", "removed"} /\ stage[s] = "attached" -> "used"
    [] OTHER -> "ended"

Life == INSTANCE SessionLife WITH
          life <- [s \in Sessions |-> LifeOf(s)], client <- claimant

\* A registered session that nobody claims is reclaimed; one that is claimed
\* is given to one client, and once it ends it ends for good.
ImplementsSessionLife == Life!Spec

=============================================================================
