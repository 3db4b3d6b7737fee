# A verification development for sandbox-toolkit

`sandbox-toolkit` is a server that gives an agent a machine: terminals, commands,
files, uploads, workspaces with their skills and plugins, and MCP servers, over
HTTP. The modules here model its parts in TLA+ from the Rust and TypeScript
sources, TLC checks them on small instances, and TLAPS proves what matters most
for every value of the constants. `PROJECT.json` lists the parts, the runs, the
lines every definition stands for, the hazards and the theorems.

## 1. Inventory

Paths are below `crates/sandbox-toolkit/src/` unless they start with `crates/` or
`packages/`.

| Part | State | Operations | Talks to | What is hard | What makes it correct |
|---|---|---|---|---|---|
| Terminal sessions: `pty/{session,sessions,http}.rs` | the sessions map, and per session a stage with a deadline, the attachment, a cancellation token and the process, each behind its own lock | create, claim, the loop of an attached session, reclaim, the reaper's sweep | process driver, socket, timer | a claim, the reaper and a leaving client between each other's locks; a blocked send | one client per session, one teardown, no process left behind, closed means gone |
| Process driver: `crates/pty/src/{pty,unix_io,process}.rs` | reader, writer and waiter tasks; bounded channels for output and input | spawn, read, write, wait, terminate | kernel terminal, session loop | back-pressure from client to process and back; the status overtaking output; tasks aborted while they hold something | order, and that every blocked party is released |
| Pipe backend and driver adapter: `crates/pty/src/{pipe,process,process_group}.rs` | the same over pipes; a broadcast adapter | spawn, kill the group | not used by the server | lagging receivers lose output | |
| Exec: `exec/{runtime,http,frame}.rs` | two pumps, a waiter, one bounded event channel; a collecting or streaming answer | run, collect for `wait`, replay and stream | pipes of the child and of its descendants | the deadline between two events, a descendant that keeps a pipe | what the answer holds is a prefix of each stream, and a status vouches for all of it |
| Uploads: `tus/{uploads,sidecar,proxy,http}.rs`, `fs/paths.rs` | tusd's directory: a data file and an information file per upload; the tusd child | commit an upload to a path; start and stop tusd; forward requests | tusd, which shares the directory and takes no lock | commits of one upload racing one another and tusd; failure between rename and removal; tusd listening late, hanging or dying | only finished uploads are placed, and once; the rest can be retried; the mount answers while the server serves |
| Watch: `crates/watch/src/{lib,debounce}.rs` | which directory is watched, pending events, a broadcast ring | follow a directory that comes and goes | inotify, workspaces, `fs` watch streams | look first and attach afterwards; a ring that overruns | the receiver learns that something changed |
| Workspaces: `workspace/{registry,resources,http}.rs` | the map from id to workspace; each workspace's metadata, resource set and sync task | create, resolve (registered or derived), change access, delete | watch, skills, plugins | requests between each other's locks | what was created stays and wins over what is derived |
| Files: `fs/*.rs` | the disk | read, write, list, stat, copy, move, remove, make, patch, temporary names, watch | disk, uploads, watch | trees that change under a walk, links, a copy that meets its own destination, lost updates | a listing shows all that stands, a removal takes its target and no more, a copy has the whole source, a temporary name is one caller's |
| Skills and plugins: `skill/*.rs`, `plugin/*.rs` | the plugins of a resource set, as they were when it was made; what else is listed is read from disk per request | load a scope's plugins, list, get, merge two scopes | disk, workspaces, `dotagents` | ids joined with a dot; a list and a lookup written twice; answers of two ages | what is listed is found, and nothing hides another |
| MCP proxy: `mcp/*.rs` | per scope a map of proxies; per session one upstream, connected once | collect the entries of a scope, look up, initialize, forward, cancel | rmcp's sessions, a child or HTTP upstream | resources made again and ids that move while sessions live; the upstream dies; a request that keeps resources given up | a session speaks to one server, and ends with its resources |
| Embedded tools: `binary/*.rs` | a directory of executables | materialize at start | disk | two servers starting at once, a crash half way | what a server serves is whole |
| Start, routing, shutdown: `main.rs`, `http.rs`, `crates/utils/src/shutdown.rs` | the order of start and stop | serve, stop gracefully | all of them | streams that never end; a signal before there is a handler | start and stop end, no tusd is left, no request under way is cut off from it |
| Configuration: `crates/dotagents` | none between calls; the scan of a body and the load of a package have steps | parse names, paths, manifests, `SKILL.md`, `mcp.json`; load a package; sections, slugs and links of a body | disk | a package that changes between look, resolution and read; one part broken; slugs that collide; a path judged by its text | a fault costs its own part and is told, paths stay inside, sections are the body |
| TypeScript client: `packages/sandbox-toolkit` | decoders of framed streams, line splitting, a resumable upload, sockets over HTTP/2 | one call per endpoint | the server | chunks split anywhere, retries of an upload | the caller has what was written, an exit only after all of it, and no failure without a cause |
| MCP client: `packages/mcp-client` | none of its own | wraps the SDK | | | |
| Builds, lint rules, release: `tools/`, workflows | | | | | |

The hazards, each at the line where it bites, with the properties that would
catch it, are in `PROJECT.json`; those no property covers yet say why.

## 2. Modules

A module is one component. An action is one step between two points where other
tasks can run (an `await`, a lock, a call to the operating system), named for the
function it comes from; `PROJECT.json` `map` has the lines.

**SessionLife** is what a session promises to a client: it is opened, used by
nobody or one, may expire while it is not used, and once it ended it leaves and
never comes back. **PtySession** is the code: `Sessions::create`, `attach` with the
claim, `Session::run` down to its awaits (`run`, `send`, `feed`), the four
steps of `Session::reclaim`, and the reaper, which collects the expired under one
lock (`Sweep`) and reclaims them one by one (`Pick`, `Mark`, ...). Time is the ticks
left to a deadline. What the session sends and reads is not looked at, only that a
send or a feed may block. `PtySession` implements `SessionLife` (`ImplementsSessionLife`).

**PtyStream** looks at one session that is attached and follows the bytes: the
process and a descendant write to and read from the terminal's two kernel queues;
the reader task moves chunks to the bounded output channel, the loop takes them to the
socket, and the other way round for input; the waiter sends the exit status on a
channel of its own; the reaper or the loop reclaims. The kernel, the process and the
client are external: they may act at any time or, where no fairness is stated, never.

**ExecStream** is one `POST /exec` from the pumps to the answer. **ExecClient** composes it with
the TypeScript client that reads the answer: `frame::encode` makes units of header and payload of the events, the network
cuts them into chunks anywhere, `decodeChunk` joins them, and `Given` is what the caller of `stream`, `result` or `exec`
has (`string`, `lines`, `exitCode` and `$` read a `result`), and `LinesOf` is `takeLines` and `endLines` over the chunks of a text. A call ends well, fails, or is lost with its connection, which the
server notices later (`Notice`). A frame has a fixed length here: the length in a header is what says where the next
one begins, and a header looked for anywhere else is refused. **UploadCommit** is
one upload with several commits; tusd's operations on the same two files are
external. **ResourceSync** is one workspace, the watch that follows its `.agents`
directory (a directory is its inode: a watch on an inode says nothing of its
successor), and the task that builds and drops the resource set.
**WorkspaceRegistry** is the map under concurrent POST, PATCH, DELETE and GET, with
the walk over the scopes as single steps, and the id-to-variable-name conversion as
the operator `Env`.

**FileTree** is the `/fs` endpoints. The disk is a function from paths to entries, the bytes
belong to inodes, and the kernel's calls (path resolution with links, `mkdir`, `open`,
`unlink`, `rename`, ...) are operators, marked external. An action is one such call of a handler, so a
copy, a listing, a recursive removal or a write is interleaved with what others do to the
same tree. Directories are read in one step; std's `remove_dir_all` is taken apart, since it
works by descriptor on what may have been moved. A glob is the set of paths it
matches, the one that is asked for and the ones that exclude alike. History variables (`before`, `alone`, `stood`, `absent`) record what a
request found and what stood while it ran; no action reads them.

**Server** is `main`: `materialize` with one task per tool, `Sidecar::start` down to its polls,
`http::serve` with its graceful stop, `Sidecar::stop`, and one request at a time that is relayed to tusd.
A server is one run of the program. The cache directory (the tools, tusd's socket) is shared by all runs of
a user, beside and after one another, and may hold anything at first that an earlier run can have left.
A tool is one of three contents (`none`, `other`, `whole`), its mode and those that have it open. Out of
our hands are tusd (boots when it likes, hangs or dies at any time), SIGTERM, SIGKILL and the disk.
`disturbed` is history: another server or its tusd was there, or tusd died.

**SkillDocument** is `markdown.rs`: one action per line of the scan for headings (`ScanLine`), then the stack that makes
sections of them (`Close`, `Push`, `Finish`), with `Slugify` and the second scan for links. A line is what the scan looks at:
how it is indented, the mark it begins with and how often (cut to eight bits for `#`), what follows, its text and whether it has a link.
**AgentConfig** is what `dotagents` accepts of a manifest, a `SKILL.md` and an `mcp.json`, as operators over values of JSON and
YAML (a kind with what it holds), names and paths; `Note` is a diagnostic. **PluginPackage** is `plugin::load`, one action per call to the disk, each part of the
package being changed by somebody at any point (`Edit`), and hands the body of a skill to `SkillDocument`. It ends with a package, with a rejection, or with
neither (`panicked`), when a url is cut inside a character (`UrlPanics`: see 6). `original` is history, the package as the load met it.

**AgentScope** is what a scope does with them: two scopes whose directories change, the resources made of each in two steps
(`LoadPlugins`, `LoadMcp`) and dropped, requests that take the resources of the workspace and then of the global scope and keep them
till they are answered, and the sessions of the proxy. The three mounts (`mcps`, `plugins`, `skills`) have code of their own for what they list and what they look up,
and operators of their own here (`McpIds` and `McpGet`, `PluginsMerged` and `PluginGet`, `SkillsMerged` and `SkillGet`). Only a request to the MCP mount keeps the proxies of its
resources; the others keep the plugins or the skills (`Kept`). Each set of resources has a number (`gen`), by which a session knows whose it
is. What the workspace's task does and why is in `ResourceSync`; here it is `LoadPlugins` and `Release` at any time.

The modules meet at shared operations rather than in one product: `PtySession` and
`PtyStream` both have `Session::run` and `reclaim` (one for the stage and who may be
there, the other for the bytes); `ResourceSync` says when a resource set is made and dropped, `AgentScope` what is in it, and
`WorkspaceRegistry` takes its changes as the nondeterministic `Discover`; `AgentScope` takes a package as loaded (`sound`) or
rejected, the two ends of `PluginPackage`.

## 3. Runs

| Run | Instance | Shows |
|---|---|---|
| `session` | one session, three attach requests and the reaper; one tick to wait, two to be quiet | at most one client, in scope, and at most one of it and the reaper tears down (`OneOwner`); a socket is closed only after the session is gone (`ClosedIsGone`); a session out of the map is killed or about to be (`NoLeakedProcess`); a killed session has let everything go (`TerminatedIsReleased`) and every teardown ends (`ReclaimCompletes`); only real activity moves the deadline (`OnlyActivityKeepsAlive`); the code implements `SessionLife`, its liveness too |
| `stream` | one chunk of room everywhere; three chunks out, or one each way, or four frames in | types hold, bytes arrive in order and whole up to where they stop in both directions, and a status means that no output is left, up to the exception of 6 (`BytesInOrder`); a blocked feed gets on when the client reads (`FeedingEnds`); a client that leaves ends the process, and one that reads learns of its exit (`EitherEndEnds`) |
| `exec` | two writes to each pipe, room for one in pipe and channel; a header of two units, a payload of one; a child that exits or is killed; texts of five characters cut anywhere | in the server's answer and in what the caller has of it, each stream is a prefix of what was written, an exit comes last and only when both are complete, a call whose connection holds fails only of a killed child (`CallerIsToldTheTruth`); the lines of a text are the same however it is cut (`LinesAreTrue`); the collection ends, the call of a caller who reads on ends, and so do the tasks, also when the client has gone (`CallEnds`) |
| `commit` | three commits, a size of up to two, tusd appending, declaring and deleting | only a finished upload is placed (`PlacedIsFinished`), and once (`PlacedOnce`); the answers say what was done (`AnswersTell`); what was not placed can be retried (`FailedIsRetriable`) |
| `sync` | two directories made, one edit, a ring of five | as long as the resource set is stale something is under way that will tell (`StaleHasNews`, in calm runs); in a calm run the resources end up as the disk (`ResourcesFollowCalm`); dropping ends both tasks (`DropEndsTasks`) |
| `sync_lost` | two directories made, no edits | `ResourcesFollow` (without calm) fails: see 6 |
| `registry` | three requests, three ids, one of which a scope may derive | a created workspace stays until a DELETE (`CreatedStays`); a GET of what is registered throughout answers it, and of what is derived throughout does not answer 404 (`GetFinds`) |
| `files` | two requests, each from a list, over seven trees (files, a link to a directory, a link to its own directory, one to the directory above its own, two levels, two names that lead to one place that is free, a link to what the copy makes) | a listing shows whatever stood below its path from first to last and, undisturbed, nothing else (`ListComplete`); no two callers get one temporary entry (`TempOwns`); what is answered 204 was done: a DELETE saw its target gone, and undisturbed took it and nothing else (a target that its path finds through a link in itself is only emptied); an undisturbed copy has the whole source and changes nothing else, unless its way leads into the source or a link of the source leads nowhere; an undisturbed patch was made of the text it met (`EditsDoWhatTheySay`) |
| `server` | two servers, two tools (one of them tusd), any cache; one poll of patience | an undisturbed server answers every request to the mount (`MountAnswers`) and serves whole tools whatever was in the cache (`ServedToolsAreWhole`); one that ends by itself leaves no tusd (`NoOrphan`); start and stop end (`StartAndStopEnd`) |
| `server_torn` | the same | `ServedToolsRun` fails: see 6 |
| `package` | a package of two skills and two servers with nothing wrong, and each that differs from it in one part (a location, a field of the manifest, a `SKILL.md`, a server), one of them changed once while it is loaded; bodies of up to four lines | a package is rejected for its root or its manifest only, no skill is taken that was not good at first and none missed that is still good, the servers are those of `mcp.json` as it was or none if it was changed, and all is lost only to a url that is cut inside a character (`FaultsStayLocal`); nothing found is dropped without a word (`NothingSilent`, up to what 6 says); a bundled command and a working directory never leave the package (`ConfiguredPathsStay`); slugs are unique (`SlugsName`), the preamble and the sections are the body without gap or overlap (`SectionsTile`), fenced code holds no heading and no link (`FencedIsInert`, for bodies with no indented fence: see 6) |
| `scope` | two scopes over three directories, plugins `a` and `a.b`, resources made twice, a directory changed once, two requests and a session | each of the three mounts finds what it lists (`ListedIsFound`); no skill hides another of its scope (`SkillsKeepApart`); a session is answered by the server it was opened for and no other (`SessionsKeepTheirUpstream`), and ends when its resources are given up (`SessionsEndWithSet`) |

**Bounds.** A claim, a reclaim and the sweep need one session each; what several
sessions add is that the reaper has more than one to deal with, which changes nothing for
each (the proofs are for any number). Three handlers give a claimant, a loser, and
one that comes after. Queues have room for one, so that they are full and empty all the time,
where 128 chunks would only delay it. Three commits are one that wins, one that loses
before and one that loses after the winner. A directory that is made, removed and made
again has two inodes. The ring of five holds all events of a calm run, and overflows in
others. Three requests are two that race and one that looks.
In `files` a path has four names at most (`MaxLen`, the kernel's limit, at which a copy of a
directory into itself ends) and two links (`MaxHops`), so that a tree of two levels can be moved
below another and a link to its own directory is followed more than once; a
temporary name is one of two and is tried twice.
In `server` two servers are one that is killed half way and one that finds what it left, or two at once; what a third
would find two can leave as well. One poll is a deadline that is not over and one that is.
In `package` faults do not meet: a package has one, besides the change that comes while it is loaded, which may fall on that part or on another. Four lines of thirteen kinds are a fence with something in it, three headings whose levels skip and return, or
three whose slugs collide by text and by number. In `scope` two sets are the one a session was opened in and the one after it; the ids `a.b.c` of
the plugins `a` and `a.b` and of the scope's own entry are the three ways to make one id.

`AgentConfig`, `PluginPackage` and `SessionLife` have few types to get wrong and state none; the others have a type invariant (`TypeOK`, `DocTypeOK`). Where
one is proved (4) no run checks it by itself, and in `stream` and `exec` it is a part of `BytesInOrder` and `CallerIsToldTheTruth`.

**Deadlock** is checked except in `UploadCommit`, `FileTree` and `Server`, where all requests and servers come to
their end; in the others the environment can go on (a tick, a tusd, a client) or the end stutters by a
named action.

**Fairness.** Tasks of the runtime that can run do (weak fairness per step). A branch of
a `select!` that is ready again and again is taken some time, since tokio picks branches at
random: strong fairness. Time passes; the kernel reports the exit of a process that has
ended. `FileTree` states no fairness and no liveness: a copy or a removal need not end while others add to
the tree. In `Server` only the steps of
`main` are fair, as one: whatever it awaits that is not ready leaves it nothing to do. In `AgentScope` a session's task looks at
its token (`Cancelled`), and nothing else is fair (that rmcp ends the sessions of a service with the token that `Proxy::drop` cancels is an assumption on that
library; what `SessionsEndWithSet` adds is which token a session has, and that nothing keeps it for good): a directory need not change, a client need not call. `PluginPackage` has no liveness. Nothing is assumed of the process, of the client or of tusd, save what a property names in
its own premise (`FeedingEnds`, `CallEnds`).

## 4. Proofs

`Pty_proofs` proves of `PtySession`, for any sessions, handlers and deadlines, the type invariant
and the safety invariants of `session` and that every step of `PtySession` is a step or a stutter of
`SessionLife`. The invariants are not inductive: that a session closed is reclaimed needs to know
where the handler that closes it came from. `SafetyInv` adds the life cycle of a session
(which stage goes with which place, token and attachment) and, for every handler and the
reaper, what its position says of its session: past a claim it is the only claimant; inside a
reclaim it is the only one that marked. There is one lemma per group of actions.

`Workspace_proofs` proves of `WorkspaceRegistry`, for any requests and ids, the type invariant,
that a workspace whose POST answered 201 is registered until a DELETE takes it out, that the
preset stays and stays writable, and which ids share a variable name (`EnvTellsApart`): those that
`is_url_safe` takes and that agree up to case and to `-` and `_`, and no others, so that the comment
at `workspace/registry.rs:73-74` does not hold (see 6). The
invariant adds what the steps of a request already under way say of its method and
id, which is never the preset's past the check for it. `GetFinds` it proves too: a request that has passed the map knows that nothing stood there
throughout, and one that walks the scopes still has before it every scope that has derived its id since it began (`FindsInv`).

`ExecUpload_proofs` proves every invariant of `commit` for any number of commits and any sizes.
`PlacedIsFinished` is not inductive: between the reading of the information file and the rename tusd may append, declare
or delete. The invariant says that what a commit has read and measured stays so until it acts: a finished
upload is not appended to, and one that is deleted takes the rename with it.

`Server_proofs` proves every invariant of `server` for any servers, tools, caches and deadlines. What makes them
inductive is `Alone`: while a server is undisturbed no other one and no other's tusd is there, so that the socket
that answers in `wait_listening` is its own tusd's (`Mounted`) and a tool it found whole or made whole stays so (`ToolsWhole`).

`Pty_proofs` proves `BytesInOrder` of `PtyStream` for any loads and any room. A chunk's number is its place in one line: the
frames at the client and on the wire, the hand of the loop, the channel, the hand of the reader task, the terminal; the input has
such a line the other way, from the process back to the client. Each step moves one item over one border of the line, so the numbers stay. After the loop the line is
broken, and the invariant says where the frames stop being chunks (`EndsAfter`). That a status follows all output rests on
`Vouch`: as long as the loop goes on, a reader task that is done was done of itself, since only a kill ends it otherwise and
the loop's own kill comes later; so nobody had the terminal open, and all that was written is in line.

`Workspace_proofs` also proves the type invariant and `StaleHasNews` of `sync`, for any directories, edits, batches and room. By itself `StaleHasNews` says
nothing of a task between its look and what it makes of it; the invariant (`UpToDate`) does: what it saw is still so, or there is news. A change
leaves news with the debouncer, the debouncer with the watch task, the task in the channel, where even an overrun leaves an item to receive.

`ExecUpload_proofs` also proves, for any number of writes, any room in pipes and channel and frames of any size, that the server's answer is true (`AnswerIsTrue`, of `ExecStream` by
itself) and that the caller is told the truth. On the server the writes of a pipe are one line again: the answer, what the wait collected, the channel, the hand of the pump, the pipe
(`PipeLine`, `EventLine`); so the answer has the first of them (`AnswerLine`). That a status vouches for all goes back to the waiter, which sends it when both pumps are done:
a pump that is done, while there is somebody to send to, has drained a pipe that nobody can write to any more (`Drained`), and what it sent is before the status in whatever holds it (`StatusPlace`,
`Vouched`). In the client, what was read is the frames that were decoded and the beginning of the next (`DecodedCut`); the next chunk, wherever it is cut, therefore
gives the next events of the answer (`DecodedPrefix`), no chunk is refused, and the end of the stream leaves nothing over unless the server was cut off (`Verdict`).
The lines of a text (`ResultHasItsLines`) are proved for texts of any length, any characters and any cuts (`LinesOfAnyText`). Both sides are followed character by character: one more of them ends at most one
line of what `takeLines` has (`TailMore`, `CompleteMore`) and of the reference (`PlainMore`, `ClosedMore`), and they differ by the carriage return that is held back (`HeldIsPlain`). No line ends in what is held
back (`NoneInTail`), so that two chunks give what their text gives (`InTwoParts`), and any number does (`CutAnywhere`).

`Induction` has induction over numbers for the others, as facts about sets and functions: a set of naturals has a least member, one that is closed under successors has
all, and a function that is given step by step exists. They rest on the well-foundedness of the naturals in the library. On them rests what every walk keeps
whose next step is computed from a smaller measure, as that of a path through the links of a tree.

`AgentScope_proofs` proves the type invariant and every invariant of `scope`, for any names, directories, requests and sessions. The
invariant of it has the numbers of resource sets: a number names one set wherever it is kept (in the scope, in a request, in the making), the entries in a set have an id
each, and a session was opened for the entry that its id has in the set of its number. From that `UpstreamIsKept` follows: a request that reaches a session has found
the same set, and so the same entry. `SkillsDoNotHide` rests on a lemma about sequences: `p \o "." \o n` with no dot in `n` gives `n` and `p` back, by its last dot. `ListsAreTrue`
is proved of each mount by itself, from a lemma on what a map has after the entries of a second scope are put into it (`InsertedIsFound`), and needs that each scope has every id once.

`Package_proofs` proves the type invariant of a body and that its slugs are unique, for any lines, texts and length of a body. That the search for a free number
ends (the code's `expect`) is a pigeonhole: of one more numbers than there are slugs, one is free, since two of them would have to be taken by one slug. That there is
a least free number is shown with the same counting.

For bodies of any length it proves that the sections are the whole body (`SectionsAreWhole`). Where a section ends is said of the headings alone: `EndOf(h)` is the first heading
after `h` that is not deeper. The invariant (`TreeInv`) is that what the stack has closed ended there, that each open section has everything met since below it (`Nested`), and that the
subsections of an open section are a chain, each beginning where the one before it ends, up to the next open one (`OpenChains`). `Close` adds one link to such a chain,
`Push` begins one. The walk over the finished tree keeps a chain too, the next section last (`Ahead`): taking that section off and putting its children there, the last first, leaves
a chain that begins with the next heading, so that after k steps the first k headings were named (`WalkedSoFar`). Fenced code is inert (`LinksAreOutsideFences`) because
the two scans step alike: while no fence is indented, what `scan_headings` knows of fences after each line is what `collect_links` knows (`Fences`), and a section begins outside
one, where `collect_links` of the section begins too. The loader implements the parser (`PackagesParseBodies`), so all of it holds in packages.

It also proves what `package` checks of the loader, for packages of any content (`LoadInv`). `FaultsStayLocal`, `NothingSilent` and `ConfiguredPathsStay` speak of the end,
so the invariant says for each step what the package was at first as far as it has been seen (`ManifestSeen`, `SkillsSeen`, `McpSeen`), that the disk is still that but for
what an edit takes (`Since`), that the list is sorted and has each directory once whatever order `read_dir` gives (`Listing`), and that each
directory before the one that is looked at is taken, noted, or has no `SKILL.md` (`Choosing`). An edit only takes (`Aged`): what is good now was good at first, so a skill that passed three
looks, one of them before an edit and one after it, was good when the load began, and one that failed a look is not good at the end. `ConfiguredPathsStay` is then a fact about paths (`ContainedStays`): by induction over its segments, the place a path has led to
lies two names and as many more as its depth below the top (`Depth`, what `LexicallyContained` counts), so that no step up takes a name of the root.

`FileTree_proofs` proves, for any requests, names, bounds and any trees with links, the type invariant of `fs` (`TreeStands`), `TempOwns` (`TempsAreOwn`) and `ListComplete` (`ListingsAreComplete`). That a
disk remains a tree whatever is done to it through links is most of it. A walk along a path goes down at each step, in the links it may still follow or else in the names it has
before it, so `Locate` is defined for every path and what it gives is a place below the root whose parent stands; and each call of the kernel, on a place that was
found so, leaves a tree: one that is made has its parent, one that is taken has nothing below it, one that is renamed takes all below it along and not into itself. The invariant
says, for each operation, which call is the next one and what the ones before it have found (`Working`): what a copy has before it are pairs of paths, and the inode it reads from
still exists. For `TempOwns` it says that the inode of a temporary entry is newer than the disk that the request
found, and its own (`TempWork`): no rename of another request has put a named file there, and nobody else's cleaning takes it.
For `ListComplete` it follows a listing from read to read (`Listings`): whatever has stood so far is listed already or is below a directory that is still to be read; the directories to be
read are at the level of the listing or at the next one, so none is left below the last level; and while nobody else changes the disk, each of them is a directory that no link leads to, and
what is listed is to be shown. That a read finds what is to be shown needs one fact of paths, proved along the same walk: a path that leads to a directory, and goes on through directories below
it, leads to the entry below it (`LocateBelow`), whatever links its first part went through.
It proves `EditsDoWhatTheySay` (`EditsAreDone`): the removals (`RemovalsRemove`), the copies (`CopiesCopy`) and the patches (`PatchesPatch`). An edit that nobody has disturbed finds the disk as its own last call left it (`Editing`): what is
left of a directory that is being cleared is what was there without the part that has gone, and only below the target (`Clearing`); a patch that goes on to write has met the text it
was made for, and the file it opened is that file (`Fits`). When the directory itself is to go, all below it has gone, and its path is walked once more over what is left: a walk that ends on a part of a
disk ends at the same place on the whole (`LocateOnMore`), so the last call takes the target, or finds nothing because the path went through a link that has gone with the rest.
A copy looks at its source name by name while it makes the destination, through links on both sides, so that its invariant has first to say that its own work does not move either. The disk only
grows (`Grown`): what was found is there, nothing is made below a directory of the source, and whatever is made is on the way to a copy. Where a path leads, be it a place that is free, it leads on
every disk that has more (`WhereStays`), so that the source has at each step the names it had, and a name that was copied is found where it was put. Bytes change only
where a copy leads (`BytesStay`); and each name of the source waits behind a pair of the list, is in what the copy is at, or has arrived with its bytes (`CopyLeft`), the bytes of one of the
sources when links at the destination send several to one place. The list is empty at the end, so that all have arrived. That the source is whole and that the two do not overlap is what `CopyCopies` assumes of
the disk the copy found, and both are needed: the copy itself may make what a link to nowhere names, and what is made in the source may be copied again.

Assumed: only the named assumptions on constants (actors are distinct, deadlines and
capacities are positive, what is in the cache are files, a status is not a number and not an output; a package on the disk is one, `IsPackage`), which the runs evaluate. Liveness under fairness, and so the
liveness half of `ImplementsSessionLife`, is model-checked only. The library's induction
theorems take an operator, which no prover here can instantiate; what `Induction` gives instead proves facts about functions over numbers: what `Resolved` keeps, what `Walked` and `Links` compute, and what
`LinesOf` does of any text.

## 5. What is left out, and why

Of `/fs`: mode and owner, the byte and line streams, pages of a listing, the watch stream (its ring is in
`ResourceSync`). Of MCP: the cancellation and the progress of a request, and what the tools, prompts and resources of an upstream are; the requests are
forwarded one like the other. Of `dotagents`: launch plans and the expansion of templates, the inside of a link, the wording of errors; the server itself builds with the
published crate `agent-plugins` for the same format, so `AgentScope` takes of a loaded package only what the server's own code reads of it. Of the client: the resumable upload and the socket
over HTTP/2, which are settings of libraries (`tus-js-client`, `undici`), and the calls that are one request each. Contents: bytes, JSON, base64, path names, permissions (and so the 403 of `fs/http.rs:547`) and statuses beyond those that
properties tell apart. A failed read of an anonymous pipe (`exec/runtime.rs:103`): such a read fails with an interruption, which is tried again (`:102`), or because it would
block, and else gives bytes or the end. In `AgentScope` the plugin mount reads the plugins of both scopes when it is extracted (`http.rs:143-150`); here they are those of the directories
at the answer, whatever they were before. Windows, and resize and signals of a terminal. The wrapper of the MCP SDK, the build scripts, the lint rules and the workflows have no
behaviour over time.

## 6. Where the code and what is said of it part

* `tests/Workspace.md:100` says resources are built and dropped as `.agents` comes and goes. A
  change between the look and the re-attachment (`crates/watch/src/lib.rs:114`) is seen by nobody,
  or ends the task that follows: run `sync_lost`.
* `tests/binary.rs:101` asserts that every tool is executable when the server serves. `release` looks at the
  bytes only (`binary/materialize.rs:52`): a start that ends between the write and the chmod leaves a tool that
  stays without its mode: run `server_torn`.

Seen while modelling and in no run:

* Sessions. The token fires so that an attached client stops (`pty/session.rs:49`), but the loop awaits `sink.send` outside its `select!` (`:177`), so that a
  client that does not read is not stopped. `tests/Tus.md:34` has tusd exit on SIGTERM; there is a handler only once
  `http::serve` has bound its port (`http.rs:241`), and tusd is started before (`main.rs:44`). A group is killed by its id when the
  child may have been reaped (`crates/pty/src/pty.rs:51`); that ids are used again is the kernel's.
* Fences. `markdown.rs:10` says fenced code is inert. The scan for headings takes a line for a fence with up to three spaces before it (`:321`; the comment above says "four-or-fewer"), the one for
  links with any number (`:476`): below a fence that is indented further, headings are seen and links are not. A run of 257 `#` is a heading of level 1, since the count is cut to
  eight bits (`:351`).
* Urls. `mcp/mod.rs:6-8` says that a problem of one entry skips that one server and the rest keep loading. `strip_scheme` (`:257-260`) cuts a url after eight bytes, and after seven, without looking whether
  a character ends there: `http://é` panics, and with it `Config::parse` and `plugin::load`, for whatever else the package has. The model takes that step (`UrlPanics`, `panicked`),
  and `FaultsStayLocal` names it as the one fault that does not stay where it is. (The server itself builds with `agent-plugins`: see 5.)
* Ids and variables. The comment at `workspace/registry.rs:73-74` says that ids exclude `_`, so that the name of the variable stays reversible. `is_url_safe` (`:384-390`) takes `_`, and letters of both cases: `a-b`, `a_b`
  and `A-B` have one variable. `EnvTellsApart` says exactly which ids meet.
* Diagnostics. `diag.rs:1-4` says that nothing is dropped silently; `plugin/mod.rs:405-411` passes over a child of `skills/` whose name is not text, or that cannot be looked at, without one.
* Ids. `tests/MCP.md:22` has ids meet only when two scopes hold one plugin. Within a scope the entry `a.b` and the entry `b` of the plugin `a`, or those of the plugins `a` and `a.b`,
  have one id as well, and the map they are collected into keeps the last (`mcp/runtime.rs:31-35`).
* Ages. `tests/Skill.md` has each request discover skills anew; those of plugins come from the resource set (`skill/discover.rs:48-54`), and only `/plugins` reads the plugins again.
* Removals. `tests/FileSystem.md:575` says that a recursive DELETE deletes the whole subtree. One whose path goes through a link in its own target (`a/x/a`, with `a/x` a link to the directory of `a`) only empties it and answers 204:
  `remove_dir_all` (`fs/paths.rs:36`) takes the link with the rest, and std takes a directory that is not found at the last step for removed. TLC finds it with one request, and `RemoveRemoves` says so.
* Listings. `fs/http.rs:438-440` says that a directory is descended into through its own entry, and a link not followed. `walk` takes the type of an entry and
  reads the entry by its name one level later (`:455`): if one request has moved the directory away meanwhile and another has made a link of its name, what is behind the link is
  listed. TLC finds it with three requests; that `ListComplete` speaks of an undisturbed listing when it says what is not shown is because of it.

And: a command that ends within `wait` is answered with JSON (`tests/Exec.md:67`), unless
a background process holds one of its pipes, since the waiter joins both pumps first (`exec/runtime.rs:71`); a spent
upload is 404 (`fs/paths.rs:101`), unless the commit loses the race for the rename, which is 500 (`tus/uploads.rs:49`); a copy
replaces the file at `to` (`fs/paths.rs:114`), but a file copied onto itself, by its own name or through a link, is
empty afterwards with 204 (`:127`); the tusd of a server that was killed goes on listening, and the next start, which only
tries the socket (`tus/sidecar.rs:82`), takes it for its own, whose death it then does not see; the reaper decides that a session is expired under one lock
and reclaims it under another without looking again (`pty/sessions.rs:63-72`), so a claim in
between is cut off; a status that comes because the session was reclaimed may follow output that was
dropped (`pty/session.rs:185`); two DELETEs of one workspace may both answer 204
(`workspace/registry.rs:326-331`); a PATCH may change a workspace that a DELETE took out meanwhile (`:316`); a listing is 404 when a directory below its path goes while it is walked
(`fs/http.rs:455`), although the path itself is there, and 200 with depth 0 when the path is not (`:447`);
a directory copied into itself ends with 500 when its paths get too long (`fs/paths.rs:121`); two writes
of one file may mix (`fs/create.rs:46`: it is opened, empty, and then written).

## 7. Where it can go on

All modules of the plan are written. What remains, the most useful first:

1. The parts of `/fs` that are left out, with the watch stream over the ring of `ResourceSync`.
2. The request in flight of the MCP proxy: its cancellation from below and from above, its progress.
3. The resumable upload of the client composed with `UploadCommit`, with tusd's protocol as external.
