----------------------------- MODULE UploadCommit -----------------------------
(***************************************************************************)
(* One upload that tusd stages and that `POST ?type=commit` moves to its    *)
(* place: the requests of Uploads::commit, whose four calls to the file     *)
(* system are four steps, and tusd, which shares the directory with them    *)
(* and takes no lock of theirs.                                            *)
(*                                                                         *)
(* Upload ids are unique, so the upload comes once.  Every request has a    *)
(* destination of its own: only one rename of the file can succeed.         *)
(***************************************************************************)
EXTENDS Naturals

CONSTANTS
  Requests,   \* the commits of this upload
  MaxSize     \* bound: the largest declared size

ASSUME SizeAssumption == MaxSize \in Nat

VARIABLES
  info,    \* the info file: "none", "deferred" or "declared"
  size,    \* the size it declares
  staged,  \* the data file is in the upload directory
  length,  \* its length
  tusd,    \* what tusd does with the upload: "none", "serves" or "deletes"
  pc,      \* pc[r]: the next call of a commit
  saw,     \* saw[r]: the size r read from the info file, or Deferred
  placed,  \* the requests whose rename went through
  answer   \* answer[r]: the status of the response

stageVars == <<info, size, staged, length, tusd>>
commitVars == <<pc, saw, placed, answer>>
uploadVars == <<stageVars, commitVars>>

Sizes == 0..MaxSize
Deferred == MaxSize + 1

\* `placed` (paths.rs) turns the outcome into a status.
StatusOf == [Ok |-> 204, NotFound |-> 404, Incomplete |-> 409, Io |-> 500]
NoAnswer == 0

Steps == {"read", "stat", "rename", "forget"}

UploadTypeOK ==
  /\ info \in {"none", "deferred", "declared"}
  /\ size \in Sizes
  /\ staged \in BOOLEAN
  /\ length \in Sizes
  /\ tusd \in {"none", "serves", "deletes"}
  /\ pc \in [Requests -> Steps \cup {"done", "dropped"}]
  /\ saw \in [Requests -> Sizes \cup {Deferred}]
  /\ placed \subseteq Requests
  /\ answer \in [Requests -> {NoAnswer, 204, 404, 409, 500}]

UploadInit ==
  /\ info = "none" /\ size = 0 /\ staged = FALSE /\ length = 0 /\ tusd = "none"
  /\ pc = [r \in Requests |-> "read"]
  /\ saw = [r \in Requests |-> Deferred]
  /\ placed = {}
  /\ answer = [r \in Requests |-> NoAnswer]

-----------------------------------------------------------------------------
(* tusd, as far as the commit depends on it.                               *)

\* An upload may be created without its size.
Create ==
  /\ tusd = "none"
  /\ tusd' = "serves" /\ staged' = TRUE
  /\ \/ info' = "deferred" /\ UNCHANGED size
     \/ info' = "declared" /\ size' \in Sizes
  /\ UNCHANGED <<length, commitVars>>

Declare ==
  /\ tusd = "serves" /\ info = "deferred" /\ staged
  /\ info' = "declared" /\ size' \in length..MaxSize
  /\ UNCHANGED <<staged, length, tusd, commitVars>>

Extend ==
  /\ tusd = "serves" /\ staged
  /\ length < IF info = "declared" THEN size ELSE MaxSize
  /\ info # "none"
  /\ length' = length + 1
  /\ UNCHANGED <<info, size, staged, tusd, commitVars>>

\* The client deletes the upload: both files go, one after the other.
Delete ==
  /\ tusd = "serves" /\ info # "none" /\ staged
  /\ tusd' = "deletes"
  /\ UNCHANGED <<info, size, staged, length, commitVars>>

DeleteFile ==
  /\ tusd = "deletes"
  /\ \/ info' = "none" /\ UNCHANGED staged
     \/ staged' = FALSE /\ UNCHANGED info
  /\ UNCHANGED <<size, length, tusd, commitVars>>

-----------------------------------------------------------------------------
(* Uploads::commit.                                                        *)

Goto(r, from, to) == pc[r] = from /\ pc' = [pc EXCEPT ![r] = to]

Answer(r, from, outcome) ==
  /\ Goto(r, from, "done")
  /\ answer' = [answer EXCEPT ![r] = StatusOf[outcome]]

ReadInfo(r) ==
  /\ \/ /\ info # "none"
        /\ Goto(r, "read", "stat")
        /\ saw' = [saw EXCEPT ![r] = IF info = "declared" THEN size ELSE Deferred]
        /\ UNCHANGED answer
     \/ /\ info = "none"
        /\ Answer(r, "read", "NotFound")
        /\ UNCHANGED saw
  /\ UNCHANGED <<stageVars, placed>>

\* Mutant: a size that is not declared yet is not waited for.
Finished_Deferred(r) == saw[r] = Deferred \/ saw[r] = length

\* FileInfo::finished.
Finished(r) == saw[r] # Deferred /\ saw[r] = length

Stat(r) ==
  /\ \/ /\ staged /\ Finished(r)
        /\ Goto(r, "stat", "rename")
        /\ UNCHANGED answer
     \/ /\ staged /\ ~Finished(r)
        /\ Answer(r, "stat", "Incomplete")
     \/ /\ ~staged
        /\ Answer(r, "stat", "NotFound")
  /\ UNCHANGED <<stageVars, saw, placed>>

\* Mutants: the file is copied; the info file goes first.
Rename_Copies(r) ==
  /\ \/ /\ staged
        /\ Goto(r, "rename", "forget")
        /\ placed' = placed \cup {r}
        /\ UNCHANGED answer
     \/ /\ ~staged
        /\ Answer(r, "rename", "Io")
        /\ UNCHANGED placed
  /\ UNCHANGED <<stageVars, saw>>

Rename_ForgetsFirst(r) ==
  /\ info # "none"
  /\ Goto(r, "rename", "forget")
  /\ info' = "none"
  /\ UNCHANGED <<size, staged, length, tusd, saw, placed, answer>>

Rename(r) ==
  /\ \/ /\ staged
        /\ Goto(r, "rename", "forget")
        /\ staged' = FALSE
        /\ placed' = placed \cup {r}
        /\ UNCHANGED answer
     \/ /\ ~staged
        /\ Answer(r, "rename", "Io")
        /\ UNCHANGED <<staged, placed>>
  /\ UNCHANGED <<info, size, length, tusd, saw>>

\* Mutant: the info file stays.
Forget_Keeps(r) ==
  Answer(r, "forget", "Ok") /\ UNCHANGED <<stageVars, saw, placed>>

Forget(r) ==
  /\ \/ info # "none" /\ info' = "none" /\ Answer(r, "forget", "Ok")
     \/ info = "none" /\ UNCHANGED info /\ Answer(r, "forget", "Io")
  /\ UNCHANGED <<size, staged, length, tusd, saw, placed>>

\* Any of the calls fails for a reason of its own: another device, a full disk,
\* an info file that is not JSON.
Fails(r) ==
  /\ \E step \in Steps : Answer(r, step, "Io")
  /\ UNCHANGED <<stageVars, saw, placed>>

\* The request is dropped between two calls, or the server dies.
Drop(r) ==
  /\ \E step \in Steps : Goto(r, step, "dropped")
  /\ UNCHANGED <<stageVars, saw, placed, answer>>

-----------------------------------------------------------------------------

Tusd == Create \/ Declare \/ Extend \/ Delete \/ DeleteFile

Commit(r) == ReadInfo(r) \/ Stat(r) \/ Rename(r) \/ Forget(r) \/ Fails(r) \/ Drop(r)

UploadNext == Tusd \/ \E r \in Requests : Commit(r)

UploadSpec == UploadInit /\ [][UploadNext]_uploadVars

-----------------------------------------------------------------------------
(* Safety.                                                                 *)

\* What arrives at a destination is the whole upload, of the size its client
\* declared, although tusd may append and declare between the checks.
PlacedIsFinished == placed # {} => length = size /\ info # "deferred"

\* However many requests commit the upload, one destination gets it, and the
\* staging directory has it no more.
PlacedOnce == \A r \in placed : placed = {r} /\ ~staged

\* What a client is told is what became of the upload.  A commit that succeeded
\* has spent it: neither tusd nor a second commit finds it.  One that says "not
\* found" or "not finished" has put nothing at its destination.
AnswersTell ==
  \A r \in Requests :
    /\ answer[r] = 204 => r \in placed /\ info = "none" /\ ~staged
    /\ answer[r] \in {404, 409} => r \notin placed

\* However a commit ends, dropped and failed ones included, an upload that was
\* not placed stays staged to be retried.
FailedIsRetriable ==
  tusd = "serves" /\ placed = {} => staged /\ info # "none"

=============================================================================
