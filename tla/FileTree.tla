------------------------------ MODULE FileTree ------------------------------
(***************************************************************************)
(* The `/fs` endpoints under concurrent requests.  One action is one call  *)
(* of a handler to the file system, because the disk may change between    *)
(* any two: a copy, a listing and a recursive removal are many, a rename   *)
(* is one.                                                                 *)
(*                                                                         *)
(* The disk is a partial function from paths to entries.  A file's bytes   *)
(* belong to its inode, so that a handler that has opened a file writes to *)
(* it wherever it has been moved meanwhile.                                *)
(***************************************************************************)
EXTENDS Naturals, Sequences, SequencesExt

CONSTANTS
  Names,      \* names of entries
  Requests,   \* the requests
  Wanted,     \* what they may ask for together: functions from Requests
  Trees,      \* the disks they may find, each [disk, data]
  MaxLen,     \* names in the longest path the kernel takes
  MaxHops,    \* links it follows in one path
  TempNames,  \* the names `scramble` yields
  Attempts    \* names a temporary entry tries (TEMP_ATTEMPTS)

VARIABLES
  disk,    \* disk[p]: the entry at path p: its kind, inode and link target
  data,    \* data[i]: the bytes of inode i
  req,     \* req[r]: what r asks for
  pc,      \* pc[r]: its next call
  work,    \* work[r]: what it has still to do
  answer,  \* answer[r]: its status
  result,  \* result[r]: the paths it lists, or the one it names
  before,  \* history: the disk r found
  alone,   \* history: nobody else changed the disk while r was under way
  stood,   \* history: what r lists, if it was there all the time
  absent   \* history: at some time while r was under way its path was free

diskVars == <<disk, data>>
requestVars == <<req, pc, work, answer, result>>
historyVars == <<before, alone, stood, absent>>
vars == <<diskVars, requestVars, historyVars>>

Root == <<>>
Present == DOMAIN disk
NextInode == Len(data) + 1

Dir(i) == [kind |-> "dir", inode |-> i, target |-> Root]
File(i) == [kind |-> "file", inode |-> i, target |-> Root]
Link(i, p) == [kind |-> "link", inode |-> i, target |-> p]

Idle == [todo |-> <<>>, deeper |-> <<>>, level |-> 0, at |-> <<>>, inodes |-> <<>>,
         old |-> {}]
NoAnswer == 0

-----------------------------------------------------------------------------
(* The kernel.                                                             *)

Ok(p) == [error |-> "ok", path |-> p]
Error(e) == [error |-> e, path |-> Root]

\* A path on its way: the names behind, those ahead, and the links it may follow.
Ways == [at : Seq(Names), rest : Seq(Names), hops : 0..MaxHops]
Way(at, rest, hops) == [at |-> at, rest |-> rest, hops |-> hops]

\* Where a path leads on disk d, the last name followed if it is a link or not.
\* The last name need not be there.
Locate(d, path, follow) ==
  LET Walk[w \in Ways] ==
        LET p == Append(w.at, Head(w.rest))
            last == Len(w.rest) = 1
            kind == IF p \in DOMAIN d THEN d[p].kind ELSE "none"
        IN  CASE w.rest = <<>> -> Ok(w.at)
              [] w.rest # <<>> /\ kind = "link" /\ (follow \/ ~last) ->
                   IF w.hops = 0 THEN Error("Loop")
                   ELSE Walk[Way(Root, d[p].target \o Tail(w.rest), w.hops - 1)]
              [] w.rest # <<>> /\ kind = "none" /\ ~last -> Error("NotFound")
              [] w.rest # <<>> /\ kind = "file" /\ ~last -> Error("NotADirectory")
              [] OTHER -> Walk[Way(p, Tail(w.rest), w.hops)]
  IN  IF Len(path) > MaxLen THEN Error("TooLong") ELSE Walk[Way(Root, path, MaxHops)]

\* The same, for an entry that has to be there.
Entry(d, path, follow) ==
  LET l == Locate(d, path, follow)
  IN  IF l.error = "ok" /\ l.path \notin DOMAIN d THEN Error("NotFound") ELSE l

Stat(path) == Entry(disk, path, TRUE)
Lstat(path) == Entry(disk, path, FALSE)

Under(p, q) == IsPrefix(q, p)
Children(d, p) == {q \in DOMAIN d : Len(q) = Len(p) + 1 /\ Under(q, p)}
Below(d, p) == {q \in DOMAIN d : q # p /\ Under(q, p)}

Kind(p) == IF p \in Present THEN disk[p].kind ELSE "none"

\* The entries of d, and those of e at other places.
Over(d, e) == [p \in DOMAIN d \cup DOMAIN e |-> IF p \in DOMAIN d THEN d[p] ELSE e[p]]

\* What a call leaves: the error, the disk and the bytes.
Leaves(d, b) == [error |-> "ok", disk |-> d, data |-> b]
Fails(e) == [error |-> e, disk |-> disk, data |-> data]
Adds(p, entry) == Leaves(Over(disk, [q \in {p} |-> entry]), Append(data, <<>>))
Drops(ps) == Leaves([q \in Present \ ps |-> disk[q]], data)

\* The first of the checks <<condition, error>> that applies, or else `call`.
Unless(checks, call) ==
  LET bad == {k \in DOMAIN checks : checks[k][1]}
  IN  IF bad = {} THEN call ELSE Fails(checks[Min(bad)][2])

Resolved(l) == <<l.error # "ok", l.error>>

\* mkdir, symlink and an open that must create: the name must be free.
MakeNew(path, entry) ==
  LET l == Locate(disk, path, FALSE)
  IN  Unless(<<Resolved(l), <<l.path \in Present, "AlreadyExists">>>>, Adds(l.path, entry))

\* std's create_dir_all: the missing directories down to `path`.
MakeAll(path) ==
  LET Prefix(k) == SubSeq(path, 1, k)
      k == Max({n \in 0..Len(path) : Stat(Prefix(n)).error = "ok"})
      base == Stat(Prefix(k)).path
      missing == {base \o SubSeq(path, k + 1, n) : n \in (k + 1)..Len(path)}
      error == Locate(disk, path, TRUE).error
  IN  Unless(<< <<error \in {"Loop", "TooLong"}, error>>,
                <<k = Len(path) /\ Kind(base) # "dir", "AlreadyExists">>,
                <<Kind(base) # "dir", "NotADirectory">>,
                <<k < Len(path) /\ Append(base, path[k + 1]) \in Present, "AlreadyExists">> >>,
             Leaves(Over(disk, [q \in missing |-> Dir(NextInode + Len(q) - Len(base) - 1)]),
                    data \o [i \in DOMAIN SubSeq(path, k + 1, Len(path)) |-> <<>>]))

\* open(O_CREAT | O_TRUNC), which follows a link to what it names.
OpenEmpty(path) ==
  LET l == Locate(disk, path, TRUE)
  IN  Unless(<<Resolved(l), <<Kind(l.path) = "dir", "IsADirectory">>>>,
             IF l.path \in Present
             THEN Leaves(disk, [data EXCEPT ![disk[l.path].inode] = <<>>])
             ELSE Adds(l.path, File(NextInode)))

Unlink(path) ==
  LET l == Lstat(path)
  IN  Unless(<<Resolved(l), <<Kind(l.path) = "dir", "IsADirectory">>>>, Drops({l.path}))

Rmdir(path) ==
  LET l == Lstat(path)
  IN  Unless(<<Resolved(l), <<Kind(l.path) # "dir", "NotADirectory">>,
               <<l.path = Root, "Busy">>,
               <<Children(disk, l.path) # {}, "NotEmpty">>>>, Drops({l.path}))

\* rename(2): nothing happens between a name and itself; what was at the new
\* name is replaced if it is of the same kind and, a directory, empty.
Rename(path, to) ==
  LET f == Lstat(path)
      t == Locate(disk, to, FALSE)
      From(q) == f.path \o SubSeq(q, Len(t.path) + 1, Len(q))
      places == {t.path \o SubSeq(p, Len(f.path) + 1, Len(p)) :
                   p \in {p \in Present : Under(p, f.path)}}
      stay == {p \in Present : p # t.path /\ ~Under(p, f.path)}
      directory == Kind(f.path) = "dir"
  IN  Unless(<<Resolved(f), Resolved(t),
               <<Root \in {f.path, t.path}, "Busy">>,
               <<Under(t.path, f.path) /\ t.path # f.path, "InvalidInput">>,
               <<Under(f.path, t.path) /\ t.path # f.path, "NotEmpty">>,
               <<directory /\ Kind(t.path) \in {"file", "link"}, "NotADirectory">>,
               <<~directory /\ Kind(t.path) = "dir", "IsADirectory">>,
               <<t.path # f.path /\ Children(disk, t.path) # {}, "NotEmpty">>>>,
             Leaves(Over([q \in stay |-> disk[q]], [q \in places |-> disk[From(q)]]), data))

\* A write at the start of a file leaves what lies behind it.
Overlay(new, old) == new \o SubSeq(old, Len(new) + 1, Len(old))
Resize(bytes, n) == [i \in 1..n |-> IF i <= Len(bytes) THEN bytes[i] ELSE 0]

-----------------------------------------------------------------------------
(* A request from its arrival to its answer.                               *)

\* Mutant: what is not there is gone.
StatusOf_Gone(error) ==
  CASE error = "ok" -> 204
    [] error = "NotFound" -> 410
    [] error \in {"AlreadyExists", "NotEmpty"} -> 409
    [] error = "Invalid" -> 400
    [] error \in {"NotUtf8", "NotASymlink"} -> 422
    [] OTHER -> 500

\* `io_error` and the status of an FsError; a write that succeeds has no content.
StatusOf(error) ==
  CASE error = "ok" -> 204
    [] error = "NotFound" -> 404
    [] error \in {"AlreadyExists", "NotEmpty"} -> 409
    [] error = "Invalid" -> 400
    [] error \in {"NotUtf8", "NotASymlink"} -> 422
    [] OTHER -> 500

NotText == 255
IsText(bytes) == \A k \in DOMAIN bytes : bytes[k] # NotText

UnderWay(r) == pc[r] \notin {"start", "done"}

Goes(r, to) == pc' = [pc EXCEPT ![r] = to] /\ UNCHANGED answer
Ends(r, status) ==
  /\ pc' = [pc EXCEPT ![r] = "done"]
  /\ answer' = [answer EXCEPT ![r] = status]
Holds(r, w) == work' = [work EXCEPT ![r] = w]
Does(call) == disk' = call.disk /\ data' = call.data

\* A call and what follows if it goes well; else its error is the answer.
Then(r, call, next) ==
  /\ Does(call)
  /\ IF call.error = "ok" THEN next ELSE Ends(r, StatusOf(call.error)) /\ UNCHANGED work

\* A read: the error of what it finds, or what follows.
Finds(r, error, next) ==
  /\ UNCHANGED diskVars
  /\ IF error = "ok" THEN next ELSE Ends(r, StatusOf(error)) /\ UNCHANGED <<work, result>>

FirstCall ==
  [content |-> "open", directory |-> "make", symlink |-> "make", temp |-> "temp",
   patch |-> "patch", truncate |-> "openold", copy |-> "copy", move |-> "rename",
   remove |-> "probe", list |-> "walk", glob |-> "walk", read |-> "look",
   metadata |-> "look", realpath |-> "look", readlink |-> "look", access |-> "look"]

\* What a request can ask for.
Asked ==
  [op : DOMAIN FirstCall, path : Seq(Names), to : Seq(Names), recursive : BOOLEAN,
   force : BOOLEAN, kind : {"file", "dir"}, content : Seq(0..NotText),
   old : Seq(0..NotText), length : Nat, depth : Nat,
   pattern : SUBSET Seq(Names), exclude : SUBSET Seq(Names)]

Begin(r) ==
  LET q == req[r] IN
  /\ pc[r] = "start"
  /\ Goes(r, FirstCall[q.op])
  /\ Holds(r, [Idle EXCEPT !.todo = IF q.op = "copy" THEN <<[from |-> q.path, to |-> q.to]>>
                                    ELSE <<q.path>>])
  /\ UNCHANGED <<diskVars, result>>

\* `directory`, `symlink`: one call.
Make(r) ==
  LET q == req[r]
      call == CASE q.op = "symlink" -> MakeNew(q.path, Link(NextInode, q.to))
                [] q.op = "directory" /\ q.recursive -> MakeAll(q.path)
                [] OTHER -> MakeNew(q.path, Dir(NextInode))
  IN  /\ pc[r] = "make"
      /\ Then(r, call, Ends(r, 204) /\ UNCHANGED work)
      /\ UNCHANGED result

MoveTo(r) ==
  /\ pc[r] = "rename"
  /\ Then(r, Rename(req[r].path, req[r].to), Ends(r, 204) /\ UNCHANGED work)
  /\ UNCHANGED result

\* Mutant: the name need not be free.
TakesName_Open(path, kind) ==
  IF kind = "dir" THEN MakeAll(path) ELSE OpenEmpty(path)

\* create_dir and `create_new`: the name must be free.
TakesName(path, kind) ==
  MakeNew(path, IF kind = "dir" THEN Dir(NextInode) ELSE File(NextInode))

\* A temporary entry tries random names until one is free.
Temp(r) ==
  /\ pc[r] = "temp"
  /\ \E name \in TempNames :
       LET path == Append(req[r].path, name)
           call == TakesName(path, req[r].kind)
           tried == work[r].level + 1
       IN  IF call.error = "AlreadyExists"
           THEN /\ IF tried = Attempts THEN Ends(r, StatusOf("Invalid")) ELSE Goes(r, "temp")
                /\ Holds(r, [work[r] EXCEPT !.level = tried])
                /\ UNCHANGED <<diskVars, result>>
           ELSE /\ Does(call)
                /\ IF call.error = "ok"
                   THEN /\ Ends(r, 200)
                        /\ result' = [result EXCEPT ![r] = {path}]
                        /\ Holds(r, [work[r] EXCEPT !.inodes =
                                      <<call.disk[Locate(disk, path, FALSE).path].inode>>])
                   ELSE Ends(r, StatusOf(call.error)) /\ UNCHANGED <<result, work>>

-----------------------------------------------------------------------------
(* The contents of a file.                                                 *)

\* tokio::fs::write: the file is opened, empty, and then written.
Open(r) ==
  LET call == OpenEmpty(req[r].path) IN
  /\ pc[r] = "open"
  /\ Then(r, call,
          /\ Goes(r, "write")
          /\ Holds(r, [work[r] EXCEPT !.inodes =
                        <<call.disk[Locate(disk, req[r].path, TRUE).path].inode>>]))
  /\ UNCHANGED result

Write(r) ==
  /\ pc[r] = "write"
  /\ data' = [data EXCEPT ![work[r].inodes[1]] = Overlay(req[r].content, @)]
  /\ Ends(r, 204)
  /\ UNCHANGED <<disk, work, result>>

\* `patch` reads the file, applies the diff to what it read, and writes.
Patch(r) ==
  LET l == Stat(req[r].path)
      bytes == data[disk[l.path].inode]
      error == CASE l.error # "ok" -> l.error
                 [] l.error = "ok" /\ Kind(l.path) = "dir" -> "IsADirectory"
                 [] l.error = "ok" /\ ~IsText(bytes) -> "NotUtf8"
                 [] l.error = "ok" /\ bytes # req[r].old -> "Invalid"
                 [] OTHER -> "ok"
  IN  /\ pc[r] = "patch"
      /\ Finds(r, error, Goes(r, "open") /\ UNCHANGED <<work, result>>)

OpenOld(r) ==
  LET l == Stat(req[r].path)
      error == IF l.error = "ok" /\ Kind(l.path) = "dir" THEN "IsADirectory" ELSE l.error
  IN  /\ pc[r] = "openold"
      /\ Finds(r, error,
               /\ Goes(r, "resize")
               /\ Holds(r, [work[r] EXCEPT !.inodes = <<disk[l.path].inode>>])
               /\ UNCHANGED result)

SetLen(r) ==
  /\ pc[r] = "resize"
  /\ data' = [data EXCEPT ![work[r].inodes[1]] = Resize(@, req[r].length)]
  /\ Ends(r, 204)
  /\ UNCHANGED <<disk, work, result>>

\* The reads that are one call: `content`, `metadata`, `realpath`, `readlink`
\* and `access`.
Look(r) ==
  LET q == req[r]
      l == Entry(disk, q.path, q.op \in {"read", "realpath", "access"})
      error == CASE l.error # "ok" -> l.error
                 [] l.error = "ok" /\ q.op = "readlink" /\ Kind(l.path) # "link" ->
                      "NotASymlink"
                 [] l.error = "ok" /\ q.op = "read" /\ Kind(l.path) = "dir" -> "IsADirectory"
                 [] l.error = "ok" /\ q.op = "read" /\ ~IsText(data[disk[l.path].inode]) ->
                      "NotUtf8"
                 [] OTHER -> "ok"
      said == CASE q.op = "realpath" -> {l.path}
                [] q.op = "readlink" -> {disk[l.path].target}
                [] OTHER -> {}
  IN  /\ pc[r] = "look"
      /\ Finds(r, error,
               /\ Ends(r, IF q.op = "access" THEN 204 ELSE 200)
               /\ result' = [result EXCEPT ![r] = said]
               /\ UNCHANGED work)

-----------------------------------------------------------------------------
(* Copying.  `todo` is the frontier, taken from its end.                    *)

\* The next pair: a file to copy, a directory to make, or the end.
CopyPop(r) ==
  LET pair == Last(work[r].todo)
      l == Stat(pair.from)
  IN  /\ pc[r] = "copy"
      /\ IF work[r].todo = <<>> THEN Ends(r, 204) /\ UNCHANGED <<diskVars, work, result>>
         ELSE Finds(r, l.error,
                /\ Goes(r, IF Kind(l.path) = "dir" THEN "copymake" ELSE "copyfile")
                /\ Holds(r, [work[r] EXCEPT !.todo = Front(@), !.at = pair])
                /\ UNCHANGED result)

\* std::fs::copy: the source is opened, then the destination, which is emptied.
CopyOpen(r) ==
  LET from == Stat(work[r].at.from)
      to == work[r].at.to
      call == Unless(<<Resolved(from), <<Kind(from.path) = "dir", "InvalidInput">>>>,
                     OpenEmpty(to))
  IN  /\ pc[r] = "copyfile"
      /\ Then(r, call,
              /\ Goes(r, "transfer")
              /\ Holds(r, [work[r] EXCEPT !.inodes =
                            <<disk[from.path].inode,
                              call.disk[Locate(disk, to, TRUE).path].inode>>]))
      /\ UNCHANGED result

Transfer(r) ==
  LET from == work[r].inodes[1]
      to == work[r].inodes[2]
  IN  /\ pc[r] = "transfer"
      /\ data' = [data EXCEPT ![to] = IF from = to THEN @ ELSE Overlay(data[from], @)]
      /\ Goes(r, "copy")
      /\ UNCHANGED <<disk, work, result>>

\* Mutant: a directory that is already there is not merged into.
CopyMake_NoMerge(r) ==
  /\ pc[r] = "copymake"
  /\ IF Stat(work[r].at.to).error = "ok" THEN Goes(r, "copy") /\ UNCHANGED <<diskVars, work>>
     ELSE Then(r, MakeAll(work[r].at.to), Goes(r, "copyread") /\ UNCHANGED work)
  /\ UNCHANGED result

\* create_dir_all of the destination: what is there already is merged into.
CopyMake(r) ==
  /\ pc[r] = "copymake"
  /\ Then(r, MakeAll(work[r].at.to), Goes(r, "copyread") /\ UNCHANGED work)
  /\ UNCHANGED result

\* The entries a read_dir of `path` finds, in some order.
NamesIn(path) == {Last(q) : q \in Children(disk, Stat(path).path)}
ReadDirError(path) ==
  LET l == Stat(path)
  IN  IF l.error = "ok" /\ Kind(l.path) # "dir" THEN "NotADirectory" ELSE l.error

CopyRead(r) ==
  LET from == work[r].at.from
      to == work[r].at.to
  IN  /\ pc[r] = "copyread"
      /\ Finds(r, ReadDirError(from),
               /\ Goes(r, "copy")
               /\ \E names \in SetToSeqs(NamesIn(from)) :
                    Holds(r, [work[r] EXCEPT !.todo = @ \o
                      [k \in DOMAIN names |-> [from |-> Append(from, names[k]),
                                               to |-> Append(to, names[k])]]])
               /\ UNCHANGED result)

-----------------------------------------------------------------------------
(* Listing: `list` and `glob`.                                             *)

\* A glob is the paths it matches.  One that excludes a directory excludes what is
\* below it; one that is asked for and matches a directory says nothing of that.
Matched(r, path) == req[r].op = "glob" => path \in req[r].pattern
Excluded(r, path) ==
  \E k \in (Len(req[r].path) + 1)..Len(path) : SubSeq(path, 1, k) \in req[r].exclude
Kept(r, paths) == {p \in paths : Matched(r, p) /\ ~Excluded(r, p)}

\* Mutant: a link to a directory is one.
Descends_Links(entry) == Stat(entry).error = "ok" /\ Kind(Stat(entry).path) = "dir"

\* `file_type` of an entry: a link is not what it names.
Descends(entry) == Kind(entry) = "dir"

\* One directory of a level; behind the last one the next level.  Depth 0 reads
\* nothing.
WalkDir(r) ==
  LET w == work[r]
      path == Head(w.todo)
      entries == Children(disk, Stat(path).path)
      found == {Append(path, Last(q)) : q \in entries}
      deeper == w.deeper \o SetToSeq({Append(path, Last(q)) : q \in {q \in entries : Descends(q)}})
      over == Tail(w.todo) = <<>> /\ (deeper = <<>> \/ w.level + 1 = req[r].depth)
  IN  /\ pc[r] = "walk"
      /\ IF req[r].depth = 0 THEN Ends(r, 200) /\ UNCHANGED <<diskVars, work, result>>
         ELSE Finds(r, ReadDirError(path),
                /\ IF over THEN Ends(r, 200) ELSE Goes(r, "walk")
                /\ result' = [result EXCEPT ![r] = @ \cup Kept(r, found)]
                /\ Holds(r, IF Tail(w.todo) # <<>>
                             THEN [w EXCEPT !.todo = Tail(@), !.deeper = deeper]
                             ELSE [w EXCEPT !.todo = deeper, !.deeper = <<>>,
                                            !.level = @ + 1]))

-----------------------------------------------------------------------------
(* Removing.                                                               *)

\* `force` forgives a target that is not there.
Forgives(r, error) == req[r].force /\ error = "NotFound"

Removed(r, call) ==
  /\ Does(call)
  /\ Ends(r, IF Forgives(r, call.error) THEN 204 ELSE StatusOf(call.error))
  /\ UNCHANGED <<work, result>>

\* symlink_metadata says how to remove the target.
Probe(r) ==
  LET l == Lstat(req[r].path)
      directory == Kind(l.path) = "dir"
  IN  /\ pc[r] = "probe"
      /\ IF l.error # "ok" THEN Removed(r, Fails(l.error))
         ELSE /\ Goes(r, CASE directory /\ req[r].recursive -> "removeall"
                           [] directory /\ ~req[r].recursive -> "rmdir"
                           [] OTHER -> "unlink")
              /\ UNCHANGED <<diskVars, work, result>>

RemoveOne(r) ==
  \/ pc[r] = "unlink" /\ Removed(r, Unlink(req[r].path))
  \/ pc[r] = "rmdir" /\ Removed(r, Rmdir(req[r].path))

\* std's remove_dir_all looks again, and holds the directory open.
RemoveAll(r) ==
  LET l == Lstat(req[r].path) IN
  /\ pc[r] = "removeall"
  /\ IF l.error = "ok" /\ Kind(l.path) = "dir"
     THEN /\ Goes(r, "clear")
          /\ Holds(r, [work[r] EXCEPT !.inodes = <<disk[l.path].inode>>,
                         !.old = {disk[p].inode : p \in Below(disk, l.path)}])
          /\ UNCHANGED <<diskVars, result>>
     ELSE Removed(r, IF l.error = "ok" /\ Kind(l.path) = "file" THEN Fails("NotADirectory")
                     ELSE Unlink(req[r].path))

\* What is in the directory r clears, wherever it has been moved.
Inside(r) ==
  UNION {Below(disk, p) : p \in {p \in Present : disk[p].inode = work[r].inodes[1]}}

\* One entry goes.
ClearOne(r) ==
  /\ pc[r] = "clear"
  /\ \E p \in Inside(r) : Children(disk, p) = {} /\ Does(Drops({p}))
  /\ UNCHANGED requestVars

\* A directory that was read before something came into it is not empty.
ClearBlocked(r) ==
  /\ pc[r] = "clear"
  /\ \E p \in Inside(r) : disk[p].inode \notin work[r].old
  /\ Removed(r, Fails("NotEmpty"))

\* At last the directory itself, by its name; that it is gone is fine.
ClearEnd(r) ==
  LET call == Rmdir(req[r].path) IN
  /\ pc[r] = "clear"
  /\ \A p \in Inside(r) : disk[p].inode \notin work[r].old
  /\ Removed(r, IF call.error = "NotFound" THEN Leaves(disk, data) ELSE call)

-----------------------------------------------------------------------------

Step(r) ==
  \/ Make(r) \/ MoveTo(r) \/ Temp(r)
  \/ Open(r) \/ Write(r) \/ Patch(r) \/ OpenOld(r) \/ SetLen(r) \/ Look(r)
  \/ CopyPop(r) \/ CopyOpen(r) \/ Transfer(r) \/ CopyMake(r) \/ CopyRead(r)
  \/ WalkDir(r)
  \/ Probe(r) \/ RemoveOne(r) \/ RemoveAll(r)
  \/ ClearOne(r) \/ ClearBlocked(r) \/ ClearEnd(r)

\* What a listing of req[r].path should show on disk d: what is below it and
\* not behind a link.
Listed(d, r) ==
  LET l == Entry(d, req[r].path, TRUE)
      rels == {SubSeq(q, Len(l.path) + 1, Len(q)) : q \in Below(d, l.path)}
      deep == {x \in rels : Len(x) <= req[r].depth}
  IN  IF l.error = "ok" THEN Kept(r, {req[r].path \o x : x \in deep}) ELSE {}

Free(d, r) == Entry(d, req[r].path, FALSE).error # "ok"

\* The histories of a request start with it and end with it.
Arrives(r) ==
  /\ before' = [before EXCEPT ![r] = [disk |-> disk, data |-> data]]
  /\ stood' = [stood EXCEPT ![r] = Listed(disk, r)]
  /\ absent' = [absent EXCEPT ![r] = Free(disk, r)]
  /\ UNCHANGED alone

Watches(r) ==
  /\ alone' = [q \in Requests |->
                 alone[q] /\ (q = r \/ ~UnderWay(q) \/ diskVars' = diskVars)]
  /\ stood' = [q \in Requests |->
                 IF UnderWay(q) THEN stood[q] \cap Listed(disk', q) ELSE stood[q]]
  /\ absent' = [q \in Requests |-> absent[q] \/ (UnderWay(q) /\ Free(disk', q))]
  /\ UNCHANGED before

Next ==
  /\ \E r \in Requests : (Begin(r) /\ Arrives(r)) \/ (Step(r) /\ Watches(r))
  /\ UNCHANGED req

Init ==
  /\ \E tree \in Trees : disk = tree.disk /\ data = tree.data
  /\ req \in Wanted
  /\ pc = [r \in Requests |-> "start"]
  /\ work = [r \in Requests |-> Idle]
  /\ answer = [r \in Requests |-> NoAnswer]
  /\ result = [r \in Requests |-> {}]
  /\ before = [r \in Requests |-> [disk |-> disk, data |-> data]]
  /\ alone = [r \in Requests |-> TRUE]
  /\ stood = [r \in Requests |-> {}]
  /\ absent = [r \in Requests |-> FALSE]

Spec == Init /\ [][Next]_vars

-----------------------------------------------------------------------------
(* Safety.                                                                 *)

\* The disk is a tree of entries with inodes of their own.
IsTree(d, b) ==
  /\ d \in [DOMAIN d -> [kind : {"dir", "file", "link"}, inode : 1..Len(b), target : Seq(Names)]]
  /\ \A p \in DOMAIN d :
       /\ p \in Seq(Names)
       /\ p # Root => Front(p) \in DOMAIN d /\ d[Front(p)].kind = "dir"
       /\ \A q \in DOMAIN d : d[p].inode = d[q].inode => p = q
  /\ Root \in DOMAIN d /\ d[Root].kind = "dir"
  /\ b \in Seq(Seq(0..NotText))

ASSUME FileTreeAssumption ==
  /\ MaxLen \in Nat \ {0} /\ MaxHops \in Nat /\ Attempts \in Nat \ {0}
  /\ TempNames \subseteq Names
  /\ Wanted \subseteq [Requests -> Asked]
  /\ \A tree \in Trees : IsTree(tree.disk, tree.data)

\* What is on the disk stays a tree, whatever is moved, made and removed by whom.
TypeOK ==
  /\ IsTree(disk, data)
  /\ pc \in [Requests -> {"start", "done", "write", "resize", "copyfile", "transfer",
                         "copymake", "copyread", "rmdir", "unlink", "removeall", "clear"}
                        \cup {FirstCall[op] : op \in DOMAIN FirstCall}]
  /\ answer \in [Requests -> {NoAnswer, 200, 204, 400, 404, 409, 422, 500}]

\* r answers in this step.
Answers(r, op, status) ==
  UnderWay(r) /\ pc'[r] = "done" /\ req[r].op = op /\ answer'[r] = status

\* A listing that is answered shows everything that was below its path from
\* first to last, however other requests moved and removed what is around it; if
\* nobody else changed anything it shows nothing else, least of all what is
\* behind a link.
ListComplete ==
  \A r \in Requests :
    pc[r] = "done" /\ answer[r] = 200 /\ req[r].op \in {"list", "glob"} =>
      /\ stood[r] \subseteq result[r]
      /\ alone[r] => result[r] \subseteq Listed(before[r].disk, r)

\* Disk d when what is below p has gone.
Emptied(d, p) == [q \in DOMAIN d \ Below(d, p) |-> d[q]]

\* The path leads to l through what is below l, so that it no longer does when
\* l is empty.
LeadsThroughIt(d, path, l) == Locate(Emptied(d, l.path), path, FALSE) # l

\* A DELETE answered 204 speaks of a target that was gone at some time while it
\* was served; if nobody else changed anything it took that target, what is
\* below it and nothing else, least of all what a link in it names.  A target
\* that is found through a link in itself is only emptied.
RemoveRemoves ==
  [][\A r \in Requests : Answers(r, "remove", 204) =>
       /\ absent'[r]
       /\ alone'[r] =>
            LET d == before[r].disk
                path == req[r].path
                l == Locate(d, path, FALSE)
                Stays(p) == \/ l.error # "ok"
                            \/ ~Under(p, l.path)
                            \/ p = l.path /\ LeadsThroughIt(d, path, l)
            IN  disk' = [q \in {p \in DOMAIN d : Stays(p)} |-> d[q]]
    ]_vars

\* What can be reached below a path on disk d, through links too, as the names
\* that lead there.
Reaches(d, path) ==
  LET names == UNION {[1..n -> Names] : n \in 0..(MaxLen - Len(path))}
  IN  {rel \in names : Entry(d, path \o rel, TRUE).error = "ok"}

\* ... and where they lead.
Sources(d, path) == {Entry(d, path \o rel, TRUE).path : rel \in Reaches(d, path)}

\* Every name in the source leads to something: a copy of one that does not fails.
Whole(d, path) ==
  \A rel \in Reaches(d, path) : \A q \in Children(d, Entry(d, path \o rel, TRUE).path) :
    Append(rel, Last(q)) \in Reaches(d, path)

\* The way to the destination, or a name of the source in it, leads into the source.
Overlap(d, path, to) ==
  \E way \in {SubSeq(to, 1, k) : k \in 0..Len(to)} \cup {to \o rel : rel \in Reaches(d, path)} :
    LET l == Locate(d, way, TRUE)
    IN  l.error = "ok" /\ \E p \in Sources(d, path) : Under(l.path, p)

\* Every file and directory the source leads to is where the copy was asked
\* to put it, with the bytes it had; of several files that links at the destination
\* send to one place, one.
Copied(r, d, b) ==
  LET old == before[r]
      rels == Reaches(old.disk, req[r].path)
      From(rel) == old.disk[Entry(old.disk, req[r].path \o rel, TRUE).path]
      Copy(rel) == Entry(d, req[r].to \o rel, TRUE)
  IN  \A rel \in rels :
        /\ Copy(rel).error = "ok" /\ d[Copy(rel).path].kind = From(rel).kind
        /\ From(rel).kind = "file" =>
             \E one \in rels : /\ From(one).kind = "file" /\ Copy(one) = Copy(rel)
                              /\ b[d[Copy(rel).path].inode] = old.data[From(one).inode]

\* Everything else is as it was.
OthersKept(r, d, b) ==
  LET old == before[r]
      targets == {Entry(d, req[r].to \o rel, TRUE).path : rel \in Reaches(old.disk, req[r].path)}
  IN  /\ \A p \in DOMAIN old.disk : p \in DOMAIN d /\ d[p] = old.disk[p]
      /\ \A p \in DOMAIN old.disk \ targets :
           b[old.disk[p].inode] = old.data[old.disk[p].inode]
      /\ \A p \in DOMAIN d \ DOMAIN old.disk : \E t \in targets : Under(t, p)

\* A copy answered 204 that nobody disturbed put the whole source, what its
\* links name included, at its destination, merged with what was there, unless
\* the destination leads into the source or a link of the source nowhere.
CopyCopies ==
  [][\A r \in Requests :
       LET found == before[r].disk IN
       Answers(r, "copy", 204) /\ alone'[r]
         /\ Whole(found, req[r].path) /\ ~Overlap(found, req[r].path, req[r].to) =>
       Copied(r, disk', data') /\ OthersKept(r, disk', data')]_vars

\* A patch answered 204 that nobody disturbed was made for the text it met, and
\* is all that has changed.
PatchPatches ==
  [][\A r \in Requests :
       Answers(r, "patch", 204) /\ alone'[r] =>
         LET old == before[r]
             file == old.disk[Entry(old.disk, req[r].path, TRUE).path].inode
         IN  /\ old.data[file] = req[r].old
             /\ disk' = old.disk
             /\ data' = [old.data EXCEPT ![file] = req[r].content]]_vars

\* What is answered 204 has been done, whole, and nothing else has.
EditsDoWhatTheySay == RemoveRemoves /\ CopyCopies /\ PatchPatches

\* Two callers never share a temporary entry, nor get one that stood before.
TempOwns ==
  \A r, q \in Requests :
    pc[r] = "done" /\ answer[r] = 200 /\ req[r].op = "temp" =>
      /\ work[r].inodes[1] > Len(before[r].data)
      /\ pc[q] = "done" /\ answer[q] = 200 /\ req[q].op = "temp" /\ q # r =>
           work[q].inodes # work[r].inodes

=============================================================================
