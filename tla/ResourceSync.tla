----------------------------- MODULE ResourceSync -----------------------------
(***************************************************************************)
(* One workspace and its `.agents` directory: the watch that follows the    *)
(* directory from its parent to itself and back, the bounded broadcast, and *)
(* the task that holds the resource set while the directory is there.       *)
(*                                                                         *)
(* A directory is its inode (1, 2, ... in the order made; 0 for none): a    *)
(* watch on an inode says nothing of the one made after it.  The workspace's *)
(* root itself stays.                                                      *)
(***************************************************************************)
EXTENDS Naturals, Sequences

CONSTANTS
  MaxDirs,       \* bound: directories made
  MaxEdits,      \* bound: edits of a file in the directory
  BatchMax,      \* bound: events in a batch of the debouncer
  BroadcastCap   \* capacity of the broadcast channel (256 in the code)

ASSUME BoundsAssumption ==
  /\ MaxDirs \in Nat /\ MaxEdits \in Nat
  /\ BatchMax \in Nat \ {0} /\ BroadcastCap \in Nat \ {0}

VARIABLES
  calm,       \* this run is calm: the directory changes only under a watch that
              \* reports it, with nothing else to report and no re-attachment
              \* under way, and the debouncer reports no error
  dir,        \* the inode at `.agents`
  made,       \* inodes made so far
  broken,     \* what is in the directory does not load
  edits,      \* edits so far
  watched,    \* what the debouncer watches: an inode, Parent or Nothing
  raw,        \* what the debouncer will report: "none", "create" or "change"
  attachment, \* the watch task's attachment: "target" or "parent"
  watch,      \* where the watch task is
  unsent,     \* events of the batch it has not sent yet
  queue,      \* the broadcast channel, as its one receiver sees it
  lagged,     \* the receiver missed an item
  sync,       \* where Workspace::new and then its sync task are
  present,    \* what sync_resources saw of the directory
  held,       \* the resource set is Some
  dropped     \* the workspace is dropped

diskVars == <<calm, dir, made, broken, edits>>
watchVars == <<watched, raw, attachment, watch, unsent>>
syncVars == <<sync, present, held>>
resourceVars == <<diskVars, watchVars, queue, lagged, syncVars, dropped>>

\* Workspace::new has not returned.
Building == {"start", "first", "build"}

Parent == MaxDirs + 1
Nothing == 0
Inodes == 1..MaxDirs

SyncTypeOK ==
  /\ calm \in BOOLEAN
  /\ dir \in 0..MaxDirs /\ made \in 0..MaxDirs /\ edits \in 0..MaxEdits
  /\ broken \in BOOLEAN
  /\ watched \in Inodes \cup {Parent, Nothing}
  /\ raw \in {"none", "create", "change"}
  /\ attachment \in {"target", "parent"}
  /\ watch \in {"probe", "attach", "recv", "send", "check", "unwatch", "watch",
                "failed", "ended"}
  /\ unsent \in 0..BatchMax
  /\ queue \in Seq({"event", "error"}) /\ Len(queue) <= BroadcastCap
  /\ lagged \in BOOLEAN
  /\ sync \in {"start", "first", "build", "recv", "stat", "apply", "ended"}
  /\ present \in BOOLEAN /\ held \in BOOLEAN /\ dropped \in BOOLEAN

SyncInit ==
  /\ calm \in BOOLEAN
  /\ dir \in {0, 1} /\ made = dir /\ broken \in BOOLEAN /\ edits = 0
  /\ MaxDirs > 0
  /\ watched = Nothing /\ raw = "none" /\ attachment = "target"
  /\ watch = "probe" /\ unsent = 0
  /\ queue = <<>> /\ lagged = FALSE
  /\ sync = "start" /\ present = FALSE /\ held = FALSE
  /\ dropped = FALSE

-----------------------------------------------------------------------------
(* The directory, and what the kernel and the debouncer make of a change.   *)

\* The watch in place reports a change of `.agents`, or one inside it.
Seen == watched = Parent \/ (watched = dir /\ dir # 0)
SeenInside == watched = dir /\ dir # 0

\* May the directory change now?
Undisturbed(seen) == calm => seen /\ raw = "none" /\ watch # "unwatch"

Make ==
  /\ dir = 0 /\ made < MaxDirs
  /\ Undisturbed(Seen)
  /\ made' = made + 1 /\ dir' = made + 1 /\ broken' \in BOOLEAN
  /\ raw' = IF Seen THEN (IF raw = "none" THEN "create" ELSE "change") ELSE raw
  /\ UNCHANGED <<calm, edits, watched, attachment, watch, unsent>>
  /\ UNCHANGED <<queue, lagged, syncVars, dropped>>

\* A creation and a removal that meet in the debouncer cancel out.
RemoveDir ==
  /\ dir # 0
  /\ Undisturbed(Seen)
  /\ dir' = 0
  /\ raw' = CASE ~Seen           -> raw
              [] raw = "create"  -> "none"
              [] OTHER           -> "change"
  /\ UNCHANGED <<calm, made, broken, edits, watched, attachment, watch, unsent>>
  /\ UNCHANGED <<queue, lagged, syncVars, dropped>>

Edit ==
  /\ dir # 0 /\ edits < MaxEdits
  /\ Undisturbed(SeenInside)
  /\ edits' = edits + 1 /\ broken' = ~broken
  /\ raw' = IF SeenInside THEN "change" ELSE raw
  /\ UNCHANGED <<calm, dir, made, watched, attachment, watch, unsent>>
  /\ UNCHANGED <<queue, lagged, syncVars, dropped>>

-----------------------------------------------------------------------------
(* The watch: Watch::start and its task.                                   *)

WatchGoto(from, to) == watch = from /\ watch' = to

\* path.is_dir(): a directory is watched itself, anything else from its parent.
Probe ==
  /\ WatchGoto("probe", "attach")
  /\ attachment' = IF dir # 0 THEN "target" ELSE "parent"
  /\ UNCHANGED <<diskVars, watched, raw, unsent, queue, lagged, syncVars, dropped>>

\* Watching a path that is gone by now fails, and with it Workspace::new.
Attach ==
  /\ \/ /\ attachment = "target" /\ dir = 0
        /\ WatchGoto("attach", "failed") /\ UNCHANGED watched
     \/ /\ attachment = "target" /\ dir # 0
        /\ WatchGoto("attach", "recv") /\ watched' = dir
     \/ /\ attachment = "parent"
        /\ WatchGoto("attach", "recv") /\ watched' = Parent
  /\ UNCHANGED <<diskVars, raw, attachment, unsent, queue, lagged, syncVars, dropped>>

\* A batch: the changes come as one or more events that `confine` lets pass.
Batch ==
  /\ raw # "none"
  /\ WatchGoto("recv", "send")
  /\ unsent' \in 1..BatchMax
  /\ raw' = "none"
  /\ UNCHANGED <<diskVars, watched, attachment, queue, lagged, syncVars, dropped>>

\* An item goes to the receiver if there is one; a full channel overwrites the
\* oldest item, and the receiver is told that it lags.
Broadcast(item) ==
  IF sync \in {"start", "ended"} THEN UNCHANGED <<queue, lagged>>
  ELSE IF Len(queue) < BroadcastCap
       THEN queue' = Append(queue, item) /\ UNCHANGED lagged
       ELSE queue' = Append(Tail(queue), item) /\ lagged' = TRUE

SendEvent ==
  /\ unsent > 0
  /\ WatchGoto("send", IF unsent = 1 THEN "check" ELSE "send")
  /\ unsent' = unsent - 1
  /\ Broadcast("event")
  /\ UNCHANGED <<diskVars, watched, raw, attachment, syncVars, dropped>>

\* The debouncer reports an error: it is passed on, and the watch goes on.
BatchFails ==
  /\ ~calm
  /\ WatchGoto("recv", "recv")
  /\ Broadcast("error")
  /\ UNCHANGED <<diskVars, watched, raw, attachment, unsent, syncVars, dropped>>

\* After a batch: is the attachment still the right one?
Check ==
  /\ WatchGoto("check", IF (attachment = "target") = (dir # 0) THEN "recv" ELSE "unwatch")
  /\ UNCHANGED <<diskVars, watched, raw, attachment, unsent>>
  /\ UNCHANGED <<queue, lagged, syncVars, dropped>>

Unwatch ==
  /\ WatchGoto("unwatch", "watch")
  /\ watched' = Nothing
  /\ UNCHANGED <<diskVars, raw, attachment, unsent, queue, lagged, syncVars, dropped>>

\* The other attachment; if the directory is gone again this fails, and the
\* error is the last item of the stream.
Rewatch ==
  /\ \/ /\ attachment = "parent" /\ dir # 0
        /\ WatchGoto("watch", "recv")
        /\ watched' = dir /\ attachment' = "target"
        /\ UNCHANGED <<queue, lagged>>
     \/ /\ attachment = "parent" /\ dir = 0
        /\ WatchGoto("watch", "ended")
        /\ Broadcast("error")
        /\ UNCHANGED <<watched, attachment>>
     \/ /\ attachment = "target"
        /\ WatchGoto("watch", "recv")
        /\ watched' = Parent /\ attachment' = "parent"
        /\ UNCHANGED <<queue, lagged>>
  /\ UNCHANGED <<diskVars, raw, unsent, syncVars, dropped>>

-----------------------------------------------------------------------------
(* The workspace: Workspace::new and its sync task.                         *)

SyncGoto(from, to) == sync = from /\ sync' = to

\* Mutant: the directory is not looked at after the subscription.
Subscribe_NoSync ==
  /\ watch \notin {"probe", "attach", "failed"}
  /\ SyncGoto("start", "recv")
  /\ UNCHANGED <<diskVars, watchVars, queue, lagged, present, held, dropped>>

\* The watch runs already; from here on its items reach the receiver.
Subscribe ==
  /\ watch \notin {"probe", "attach", "failed"}
  /\ SyncGoto("start", "first")
  /\ UNCHANGED <<diskVars, watchVars, queue, lagged, present, held, dropped>>

\* sync_resources looks at the directory first ...
Stat ==
  /\ SyncGoto("first", "build") \/ SyncGoto("stat", "apply")
  /\ present' = (dir # 0)
  /\ UNCHANGED <<diskVars, watchVars, queue, lagged, held, dropped>>

\* Mutant: the task serves one event and ends.
Apply_Once ==
  /\ SyncGoto("build", "recv") \/ SyncGoto("apply", "ended")
  /\ held' = (present /\ (held \/ dir = 0 \/ ~broken))
  /\ UNCHANGED <<diskVars, watchVars, queue, lagged, present, dropped>>

\* ... and then builds the set, keeps it or drops it.  A directory that is gone
\* by then loads as an empty set.
Apply ==
  /\ SyncGoto("build", "recv") \/ SyncGoto("apply", "recv")
  /\ held' = (present /\ (held \/ dir = 0 \/ ~broken))
  /\ UNCHANGED <<diskVars, watchVars, queue, lagged, present, dropped>>

\* `while let Ok(Ok(event))`: an error, a lag or the end of the stream ends the
\* task.
Receive ==
  /\ \/ /\ lagged
        /\ SyncGoto("recv", "ended") /\ queue' = <<>>
     \/ /\ ~lagged /\ queue # <<>> /\ Head(queue) = "event"
        /\ SyncGoto("recv", "stat") /\ queue' = Tail(queue)
     \/ /\ ~lagged /\ queue # <<>> /\ Head(queue) = "error"
        /\ SyncGoto("recv", "ended") /\ queue' = <<>>
     \/ /\ ~lagged /\ queue = <<>> /\ dropped /\ watch = "ended"
        /\ SyncGoto("recv", "ended") /\ UNCHANGED queue
  /\ UNCHANGED <<diskVars, watchVars, lagged, present, held, dropped>>

\* Mutant: the watch task is not aborted with its handle.
Drop_KeepsWatch ==
  /\ ~dropped
  /\ dropped' = TRUE
  /\ sync' = IF sync \in Building THEN "ended" ELSE sync
  /\ UNCHANGED <<diskVars, watchVars, queue, lagged, present, held>>

\* The last reference to the workspace goes, or the request that builds it is
\* dropped: dropping the Watch aborts its task.
Drop ==
  /\ ~dropped
  /\ dropped' = TRUE
  /\ watch' = "ended" /\ unsent' = 0
  /\ sync' = IF sync \in Building THEN "ended" ELSE sync
  /\ UNCHANGED <<diskVars, watched, raw, attachment, queue, lagged, present, held>>

-----------------------------------------------------------------------------

Disk == Make \/ RemoveDir \/ Edit

WatchTask == \/ Probe \/ Attach \/ Batch \/ SendEvent \/ BatchFails \/ Check
             \/ Unwatch \/ Rewatch

SyncTask == Subscribe \/ Stat \/ Apply \/ Receive

\* Nothing is left to do until the directory changes.
Settled ==
  /\ watch \in {"recv", "failed", "ended"} /\ (watch = "recv" => raw = "none")
  /\ sync \in {"start", "recv", "ended"} /\ (sync = "start" => watch = "failed")
  /\ UNCHANGED resourceVars

SyncNext == Disk \/ WatchTask \/ SyncTask \/ Drop \/ Settled

\* Both tasks are scheduled and the debouncer reports what it saw; nobody owes
\* a change, an error or the end of the workspace.
SyncFairness ==
  /\ WF_resourceVars(Probe) /\ WF_resourceVars(Attach) /\ WF_resourceVars(Batch) /\ WF_resourceVars(SendEvent)
  /\ WF_resourceVars(Check) /\ WF_resourceVars(Unwatch) /\ WF_resourceVars(Rewatch)
  /\ WF_resourceVars(SyncTask)

SyncSafety == SyncInit /\ [][SyncNext]_resourceVars

SyncSpec == SyncSafety /\ SyncFairness

-----------------------------------------------------------------------------
(* Safety.                                                                 *)

\* The set is there when the directory is, unless its content does not load;
\* one that was built is kept whatever becomes of the content.
InSync == IF dir = 0 THEN ~held ELSE broken \/ held

\* A workspace that is out of step with its directory has news of it on the
\* way: subscribing before the first look leaves no gap.
StaleHasNews ==
  calm /\ sync \notin {"start", "ended"} /\ ~dropped /\ ~InSync =>
    raw # "none" \/ unsent > 0 \/ queue # <<>> \/ sync \notin {"recv", "ended"}

-----------------------------------------------------------------------------
(* Liveness.                                                               *)

\* Workspace.md: when `.agents` appears or disappears at run time, the resource
\* set is built or dropped.  The directory changes finitely often here, so the
\* set is as it should be from some point on.
ResourcesFollow ==
  <>[](sync # "start") => <>[](InSync \/ dropped)

\* The same, as long as the directory changes only under a settled watch: then
\* no lag, no batch and no re-attachment loses the last change.
ResourcesFollowCalm == calm => ResourcesFollow

\* A workspace that is dropped leaves no task behind.
DropEndsTasks == dropped ~> watch = "ended" /\ sync = "ended"
=============================================================================
