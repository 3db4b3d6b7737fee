------------------------------ MODULE AgentScope ------------------------------
(***************************************************************************)
(* The MCP servers, the plugins and the skills a scope holds, the merge of *)
(* the global scope with a workspace, and the proxy: one MCP session of a  *)
(* client is one connection to the server its entry declares.              *)
(*                                                                         *)
(* A scope's resources are made whole from its directory and replaced      *)
(* whole; a request keeps those it was given until it is answered.  The    *)
(* session manager and the MCP client are those of rmcp.                   *)
(*                                                                         *)
(* An id is a sequence of characters.                                      *)
(***************************************************************************)
EXTENDS Integers, Sequences, FiniteSets

CONSTANTS
  Chars,       \* the characters of names
  Contents,    \* what the directory of a scope may hold
  Requests, Sessions,
  MaxBuilds, MaxEdits   \* bounds: resource sets made, changes of a directory

Scopes == {"global", "workspace"}

\* A name of a skill has no dot (SkillNameOK of AgentConfig); that of a plugin's directory may.
\* Directories and the keys of a map have a name each; plugins are in the order of theirs.
Name == Seq(Chars)
SkillName == {n \in Name : \A k \in DOMAIN n : n[k] # "."}
Transports == {"stdio", "streamable-http", "sse"}
IsMap(servers) ==
  /\ \A x \in servers : x.name \in Name /\ x.how \in Transports
  /\ \A x, y \in servers : x.name = y.name => x = y
ASSUME CharsAssumption == "." \in Chars
ASSUME ContentsAssumption ==
  \A c \in Contents :
    /\ c.skills \subseteq SkillName /\ IsMap(c.own.servers)
    /\ \A p \in c.plugins : /\ p.id \in Name /\ p.rank \in Nat \ {0}
                            /\ p.skills \subseteq SkillName /\ IsMap(p.servers)
    /\ \A p, q \in c.plugins : p.id = q.id \/ p.rank = q.rank => p = q
ASSUME BoundsAssumption == MaxBuilds \in Nat /\ MaxEdits \in Nat

VARIABLES
  disk,      \* per scope: plugins, own mcp.json, own skills
  held,      \* per scope: its resources, or NoSet
  making,    \* per scope: the plugins loaded for the next ones, or NoPlugins
  builds, edits,
  reqs,      \* requests: where they are, the resources they keep, the session they open
  sess       \* sessions: the proxy they belong to, its entry, the cell, what they answered

vars == <<disk, held, making, builds, edits, reqs, sess>>

NoSet == [gen |-> 0, scope |-> "", plugins |-> {}, proxies |-> {}]
NoPlugins == [made |-> FALSE, gen |-> 0, plugins |-> {}]
Idle == [at |-> "idle", sets |-> [s \in Scopes |-> NoSet], session |-> {}]
NoEntry == [scope |-> "", owner |-> <<>>, name |-> <<>>, how |-> ""]
NoSession == [at |-> "free", gen |-> 0, id |-> <<>>, entry |-> NoEntry, cell |-> "empty",
              upstream |-> NoEntry, told |-> NoEntry, answers |-> {}]

Init ==
  /\ disk \in [Scopes -> Contents]
  /\ held = [s \in Scopes |-> NoSet] /\ making = [s \in Scopes |-> NoPlugins]
  /\ builds = 0 /\ edits = 0
  /\ reqs = [r \in Requests |-> Idle] /\ sess = [i \in Sessions |-> NoSession]

-----------------------------------------------------------------------------
(* The entries of a scope *)

\* Mutant: a plugin's skills and servers go by their own names.
Dotted_Bare(p, n) == n

Dotted(p, n) == p \o <<".">> \o n
Supported(how) == how \in {"stdio", "streamable-http"}

OwnEntries(s, own) ==
  {[id |-> x.name, rank |-> 0,
    entry |-> [scope |-> s, owner |-> <<>>, name |-> x.name, how |-> x.how]] : x \in own.servers}

\* An entry of a plugin that is not supported is left out.
PluginEntries(s, plugins) ==
  UNION {{[id |-> Dotted(p.id, x.name), rank |-> p.rank,
           entry |-> [scope |-> s, owner |-> p.id, name |-> x.name, how |-> x.how]] :
             x \in {y \in p.servers : Supported(y.how)}} : p \in plugins}

\* Collected into a map: the last of those with one id is the one that stays.
Collected(es) == {e \in es : \A f \in es : f.id = e.id => f.rank <= e.rank}

OwnOK(own) == own.state # "bad" /\ \A x \in own.servers : Supported(x.how)
AllSound(plugins) == \A p \in plugins : p.sound

-----------------------------------------------------------------------------
(* Resources::new, when the scope has none: the plugins, then mcp.json; one    *)
(* that fails leaves it with none.  Nobody reads the resources meanwhile.      *)

LoadPlugins(s) ==
  /\ builds < MaxBuilds /\ held[s] = NoSet /\ ~making[s].made
  /\ builds' = builds + 1
  /\ making' = IF AllSound(disk[s].plugins)
               THEN [making EXCEPT ![s] = [made |-> TRUE, gen |-> builds', plugins |-> disk[s].plugins]]
               ELSE making
  /\ UNCHANGED <<disk, held, edits, reqs, sess>>

LoadMcp(s) ==
  /\ making[s].made
  /\ making' = [making EXCEPT ![s] = NoPlugins]
  /\ held' = [held EXCEPT ![s] =
       IF OwnOK(disk[s].own)
       THEN [gen |-> making[s].gen, scope |-> s, plugins |-> making[s].plugins,
             proxies |-> Collected(OwnEntries(s, disk[s].own)
                                   \cup PluginEntries(s, making[s].plugins))]
       ELSE NoSet]
  /\ UNCHANGED <<disk, builds, edits, reqs, sess>>

\* The directory is gone, or the workspace is.
Release(s) ==
  /\ held[s] # NoSet /\ held' = [held EXCEPT ![s] = NoSet]
  /\ UNCHANGED <<disk, making, builds, edits, reqs, sess>>

Edit(s) ==
  /\ edits < MaxEdits /\ edits' = edits + 1
  /\ \E c \in Contents : disk' = [disk EXCEPT ![s] = c]
  /\ UNCHANGED <<held, making, builds, reqs, sess>>

-----------------------------------------------------------------------------
(* The mounts.  Each has code of its own for what it lists and for what it is *)
(* asked for by id.                                                           *)

Mounts == {"mcps", "plugins", "skills"}
Ids(set) == {e.id : e \in set}

\* A map after the entries of another scope are inserted, and the first of two scopes that
\* has an id.
Inserted(map, es) == es \cup {e \in map : e.id \notin Ids(es)}
FirstOf(one, other, id) ==
  IF id \in Ids(one) THEN {e \in one : e.id = id} ELSE {e \in other : e.id = id}

McpIds(global, scoped) == Ids(global) \cup Ids(scoped)
McpGet(global, scoped, id) == FirstOf(scoped, global, id)

PluginsMerged(global, scoped) == Inserted(global, scoped)
PluginGet(global, scoped, id) == FirstOf(scoped, global, id)

SkillsMerged(global, scoped) == Inserted(global, scoped)
\* Mutant: the global scope is asked first.
SkillGet_GlobalFirst(global, scoped, id) == FirstOf(global, scoped, id)
SkillGet(global, scoped, id) == FirstOf(scoped, global, id)

Served(sets, s) == {[id |-> e.id, is |-> e.entry] : e \in sets[s].proxies}

\* The plugin mount reads the directory of a scope that has resources again, and has nothing
\* to say when a plugin no longer loads.
Rescans(sets) == \A s \in Scopes : sets[s] # NoSet => AllSound(disk[s].plugins)
Rescanned(sets, s) ==
  IF sets[s] = NoSet THEN {} ELSE {[id |-> p.id, is |-> <<s, p>>] : p \in disk[s].plugins}

\* The skills of the plugins as they were loaded, those of the scope as they are.
PluginSkills(set) ==
  UNION {{[id |-> Dotted(p.id, n), is |-> <<set.scope, p.id, n>>] : n \in p.skills} : p \in set.plugins}
OwnSkills(s) == {[id |-> n, is |-> <<s, <<>>, n>>] : n \in disk[s].skills}
Skills(sets, s) ==
  IF sets[s] = NoSet THEN {}
  ELSE OwnSkills(s) \cup {e \in PluginSkills(sets[s]) : e.id \notin Ids(OwnSkills(s))}

-----------------------------------------------------------------------------
(* A request: the workspace's resources, then the global ones, then an answer *)

ExtractScoped(r) ==
  /\ reqs[r] = Idle /\ ~making["workspace"].made
  /\ reqs' = [reqs EXCEPT ![r] = [Idle EXCEPT !.at = "scoped", !.sets["workspace"] = held["workspace"]]]
  /\ UNCHANGED <<disk, held, making, builds, edits, sess>>

ExtractGlobal(r) ==
  /\ reqs[r].at = "scoped" /\ ~making["global"].made
  /\ \E mount \in Mounts :
       LET sets == [reqs[r].sets EXCEPT !["global"] = held["global"]]
       IN reqs' = [reqs EXCEPT ![r] =
            IF \/ \A s \in Scopes : sets[s] = NoSet
               \/ mount = "plugins" /\ ~Rescans(sets)
            THEN Idle
            ELSE [@ EXCEPT !.at = mount, !.sets = sets]]
  /\ UNCHANGED <<disk, held, making, builds, edits, sess>>

Found(r, id) == McpGet(reqs[r].sets["global"].proxies, reqs[r].sets["workspace"].proxies, id)
Asked == UNION {Ids(held[s].proxies) : s \in Scopes}
         \cup UNION {Ids(reqs[r].sets[s].proxies) : r \in Requests, s \in Scopes}
         \cup {sess[i].id : i \in Sessions}

Answer(r) == reqs' = [reqs EXCEPT ![r] = Idle]
Still == UNCHANGED <<disk, held, making, builds, edits>>

\* A list, or a request for what is not there.
AnswerRead(r) ==
  /\ reqs[r].at \in Mounts /\ Answer(r)
  /\ Still /\ UNCHANGED sess

\* An initialize that names no session: a session of the service, with a handler and an
\* empty cell of its own.
Open(r, id, i) ==
  /\ reqs[r].at = "mcps" /\ sess[i] = NoSession
  /\ \A q \in Requests : i \notin reqs[q].session
  /\ \E e \in Found(r, id) :
       sess' = [sess EXCEPT ![i] = [NoSession EXCEPT !.at = "open", !.id = id, !.entry = e.entry,
                                      !.gen = reqs[r].sets[e.entry.scope].gen]]
  /\ reqs' = [reqs EXCEPT ![r] = [@ EXCEPT !.at = "connecting", !.session = {i}]]
  /\ Still

\* Mutant: the sessions are those of the id, whichever resources it is from.
Knows_ById(r, e, i) == sess[i].at = "open" /\ sess[i].id = e.id

\* The service that is looked up knows its own sessions.
Knows(r, e, i) == /\ sess[i].at = "open" /\ sess[i].id = e.id
                  /\ sess[i].entry.scope = e.entry.scope
                  /\ sess[i].gen = reqs[r].sets[e.entry.scope].gen
Reaches(r, id, i) == reqs[r].at = "mcps" /\ \E e \in Found(r, id) : Knows(r, e, i)

\* connect, initialize: the cell is filled once; a failure leaves it empty, and the
\* session may end with it.
Connect(r) ==
  /\ reqs[r].at = "connecting" /\ Answer(r)
  /\ \E i \in reqs[r].session :
       sess' = [sess EXCEPT ![i] =
         IF @.at # "open" THEN @
         ELSE IF @.cell = "empty" THEN [@ EXCEPT !.cell = "live", !.upstream = sess[i].entry, !.told = sess[i].entry]
         ELSE [@ EXCEPT !.told = sess[i].upstream]]
  /\ Still
ConnectFails(r) ==
  /\ reqs[r].at = "connecting" /\ Answer(r)
  /\ \E i \in reqs[r].session :
       /\ sess[i].cell = "empty"
       /\ sess' \in {sess, [sess EXCEPT ![i] = NoSession]}
  /\ Still

\* An initialize in a session that exists.
Again(r, id, i) ==
  /\ Reaches(r, id, i)
  /\ reqs' = [reqs EXCEPT ![r] = [@ EXCEPT !.at = "connecting", !.session = {i}]]
  /\ Still /\ UNCHANGED sess

\* Any other request of a session is forwarded to what is in its cell; the answer is the
\* upstream's, or an error when there is none or it is gone.
Call(r, id, i) ==
  /\ Reaches(r, id, i) /\ Answer(r)
  /\ \/ /\ sess[i].cell = "live"
        /\ \E e \in Found(r, id) :
             /\ Knows(r, e, i)
             /\ sess' = [sess EXCEPT ![i].answers = @ \cup {<<e.entry, sess[i].upstream>>}]
     \/ UNCHANGED sess
  /\ Still

CloseSession(r, id, i) ==
  /\ Reaches(r, id, i)
  /\ Answer(r) /\ sess' = [sess EXCEPT ![i] = NoSession]
  /\ Still

UpstreamDies(i) ==
  /\ sess[i].cell = "live"
  /\ sess' = [sess EXCEPT ![i].cell = "dead"]
  /\ Still /\ UNCHANGED reqs

\* The proxies are kept by the resources of the scope and by a request that has all of them
\* still, or is one to the MCP mount; the other mounts take the plugins or the skills alone.
Kept(s, gen) ==
  \/ held[s].gen = gen
  \/ \E r \in Requests : reqs[r].at \in {"scoped", "mcps", "connecting"} /\ reqs[r].sets[s].gen = gen

\* Proxy::drop: the last that keeps the proxies gives them up, and rmcp ends the sessions of
\* the token; a handler that is dropped takes its upstream with it.
\* Mutant: the token is looked at only before the handshake.
Cancelled_Empty(i) ==
  /\ sess[i].at = "open" /\ sess[i].cell = "empty" /\ ~Kept(sess[i].entry.scope, sess[i].gen)
  /\ sess' = [sess EXCEPT ![i] = NoSession]
  /\ Still /\ UNCHANGED reqs

Cancelled(i) ==
  /\ sess[i].at = "open" /\ ~Kept(sess[i].entry.scope, sess[i].gen)
  /\ sess' = [sess EXCEPT ![i] = NoSession]
  /\ Still /\ UNCHANGED reqs

Next ==
  \/ \E s \in Scopes : LoadPlugins(s) \/ LoadMcp(s) \/ Release(s) \/ Edit(s)
  \/ \E r \in Requests :
       \/ ExtractScoped(r) \/ ExtractGlobal(r) \/ AnswerRead(r) \/ Connect(r) \/ ConnectFails(r)
       \/ \E id \in Asked, i \in Sessions :
            Open(r, id, i) \/ Again(r, id, i) \/ Call(r, id, i) \/ CloseSession(r, id, i)
  \/ \E i \in Sessions : UpstreamDies(i) \/ Cancelled(i)

\* The tasks of the sessions run, and look at the token they were given.
Fairness == \A i \in Sessions : WF_vars(Cancelled(i))
Spec == Init /\ [][Next]_vars /\ Fairness

-----------------------------------------------------------------------------
Entry == [scope: Scopes, owner: Name, name: Name, how: Transports]
Loaded == SUBSET UNION {c.plugins : c \in Contents}
ResourceSet == [gen: Nat, scope: Scopes \cup {""}, plugins: Loaded,
                proxies: SUBSET [id: Name, rank: Nat, entry: Entry]]
Request == [at: {"idle", "scoped", "connecting"} \cup Mounts,
            sets: [Scopes -> ResourceSet], session: SUBSET Sessions]
Session == [at: {"free", "open"}, gen: Nat, id: Name, entry: Entry \cup {NoEntry},
            cell: {"empty", "live", "dead"}, upstream: Entry \cup {NoEntry},
            told: Entry \cup {NoEntry}, answers: SUBSET (Entry \X (Entry \cup {NoEntry}))]

Making == [made: BOOLEAN, gen: Nat, plugins: Loaded]

TypeOK ==
  /\ disk \in [Scopes -> Contents]
  /\ held \in [Scopes -> ResourceSet]
  /\ making \in [Scopes -> Making]
  /\ builds \in Nat /\ edits \in Nat
  /\ reqs \in [Requests -> Request]
  /\ sess \in [Sessions -> Session]

\* In each of the three mounts what is listed is what is found: an id that is listed is found,
\* one that is not is not, none is listed twice, and where the list says more than the id, it
\* is what is found under it, the workspace's over the global scope's (ids, get and merged of
\* ExtractRuntime, ExtractPlugins and ExtractSkills).
ServersAgree(global, scoped) ==
  \A id \in Asked : /\ id \in McpIds(global, scoped) <=> McpGet(global, scoped, id) # {}
                    /\ \A e, f \in McpGet(global, scoped, id) : e = f
PluginsAgree(global, scoped) ==
  LET list == PluginsMerged(global, scoped)
  IN /\ \A e, f \in list : e.id = f.id => e = f
     /\ \A id \in Ids(global) \cup Ids(scoped) :
          PluginGet(global, scoped, id) = {e \in list : e.id = id}
SkillsAgree(global, scoped) ==
  LET list == SkillsMerged(global, scoped)
  IN /\ \A e, f \in list : e.id = f.id => e = f
     /\ \A id \in Ids(global) \cup Ids(scoped) :
          SkillGet(global, scoped, id) = {e \in list : e.id = id}
ListedIsFound ==
  \A r \in Requests :
    LET sets == reqs[r].sets
    IN /\ reqs[r].at = "mcps" => ServersAgree(Served(sets, "global"), Served(sets, "workspace"))
       /\ reqs[r].at = "plugins" /\ Rescans(sets) =>
            PluginsAgree(Rescanned(sets, "global"), Rescanned(sets, "workspace"))
       /\ reqs[r].at = "skills" => SkillsAgree(Skills(sets, "global"), Skills(sets, "workspace"))

\* No skill hides another of its scope: the id of a plugin's skill is neither that of a
\* skill of another plugin, dots in the plugins' names or not, nor that of a skill of the
\* scope's own (plugin/discover.rs discover, skill/discover.rs list).
SkillsKeepApart ==
  \A s \in Scopes :
    /\ \A e, f \in PluginSkills(held[s]) : e.id = f.id => e = f
    /\ Ids(PluginSkills(held[s])) \cap Ids(OwnSkills(s)) = {}

\* A session speaks to one upstream for its whole life: whatever the configuration became
\* and whichever scope has the id since, what answers a call is what the entry that the call
\* was routed to declares, and that is the entry the session was opened for; nothing is
\* answered before a handshake, and no client was told of another server than that.
SessionsKeepTheirUpstream ==
  \A i \in Sessions :
    /\ sess[i].answers \subseteq {<<sess[i].entry, sess[i].entry>>}
    /\ sess[i].cell = "empty" => sess[i].answers = {} /\ sess[i].told = NoEntry
    /\ sess[i].told \in {NoEntry, sess[i].entry}

\* A session ends when the resources it was opened in are given up by all that keep them,
\* also one that was opened by a request that had them from before.
SessionsEndWithSet ==
  \A i \in Sessions : \A g \in 1..MaxBuilds :
    (sess[i].gen = g /\ ~Kept(sess[i].entry.scope, g)) ~> (sess[i].gen # g)
===============================================================================
