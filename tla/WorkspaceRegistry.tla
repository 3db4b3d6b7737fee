--------------------------- MODULE WorkspaceRegistry ---------------------------
(***************************************************************************)
(* The registry of workspaces under concurrent requests: POST, PATCH,       *)
(* DELETE and the resolution every mount performs.  A lookup takes the      *)
(* registry lock only to copy a workspace out, so the registry moves on     *)
(* between the steps of a request.                                         *)
(*                                                                         *)
(* A workspace is named by the request that built it, the preset one by     *)
(* Preset.  `derived` is what the resources of a workspace yield when they  *)
(* are listed: the ids of the skills and plugin extensions found there.     *)
(***************************************************************************)
EXTENDS Naturals, Sequences

CONSTANTS
  Requests,     \* the requests
  Preset,       \* the global workspace
  Chars,        \* characters
  UrlSafe,      \* those an id may hold
  Upper,        \* Upper[c]: `to_ascii_uppercase`
  Ids,          \* the ids requests name
  GlobalId,     \* GLOBAL_WORKSPACE_ID
  Asked,        \* the accesses a request may ask for
  DerivedIds    \* the ids skills and plugin extensions may have

ASSUME RegistryAssumption ==
  /\ Preset \notin Requests /\ "none" \notin Requests \cup {Preset}
  /\ Upper \in [Chars -> Chars]
  /\ Ids \subseteq Seq(Chars) /\ GlobalId \in Ids /\ DerivedIds \subseteq Ids
  /\ Asked \subseteq {"read-write", "read-only"}

\* `_` is no letter, and no letter becomes one.
ASSUME UpperAssumption == \A c \in Chars : c = "_" <=> Upper[c] = "_"

VARIABLES
  registry,  \* registry[i]: the workspace registered as i, or None
  access,    \* access[w]: the declared access of a workspace
  derived,   \* derived[w]: the ids the resources of w yield
  req,       \* req[r]: what r asks for
  pc,        \* pc[r]: its next step
  at,        \* at[r]: the workspace r resolved, or None
  rest,      \* rest[r]: the scopes `derive` has still to look at
  answer,    \* answer[r]: its response
  removed,   \* history: what the DELETE r took out of the registry, or None
  stood,     \* history: the workspaces that held r's id since r began
  yielded    \* history: those that derived it since r began

requestVars == <<req, pc, at, rest, answer>>
vars == <<registry, access, derived, requestVars, removed, stood, yielded>>

None == "none"
Workspaces == Requests \cup {Preset}
Access == {"read-write", "read-only"}
Methods == {"POST", "PATCH", "DELETE", "GET"}
Answers == {"none", "200", "derived", "201", "204", "400", "403", "404", "409", "500"}

Steps == {"start", "register", "get", "scopes", "derive", "set", "remove", "read", "done"}

Registered == {w \in Workspaces : \E i \in Ids : registry[i] = w}
Holders(i) == {w \in Workspaces : registry[i] = w}
Yielders(i) == {w \in Registered : i \in derived[w]}

TypeOK ==
  /\ registry \in [Ids -> Workspaces \cup {None}]
  /\ access \in [Workspaces -> Access]
  /\ derived \in [Workspaces -> SUBSET DerivedIds]
  /\ req \in [Requests -> [method : Methods, id : Ids, access : Asked]]
  /\ pc \in [Requests -> Steps]
  /\ at \in [Requests -> Workspaces \cup {None}]
  /\ rest \in [Requests -> SUBSET Workspaces]
  /\ answer \in [Requests -> Answers]
  /\ removed \in [Requests -> Workspaces \cup {None}]
  /\ stood \in [Requests -> SUBSET Workspaces]
  /\ yielded \in [Requests -> SUBSET Workspaces]

\* The preset is registered up front, and the requests are those to come.
Init ==
  /\ registry = [i \in Ids |-> IF i = GlobalId THEN Preset ELSE None]
  /\ access = [w \in Workspaces |-> "read-write"]
  /\ derived = [w \in Workspaces |-> {}]
  /\ req \in [Requests -> [method : Methods, id : Ids, access : Asked]]
  /\ pc = [r \in Requests |-> "start"]
  /\ at = [r \in Requests |-> None]
  /\ rest = [r \in Requests |-> {}]
  /\ answer = [r \in Requests |-> "none"]
  /\ removed = [r \in Requests |-> None]
  /\ stood = [r \in Requests |-> {}]
  /\ yielded = [r \in Requests |-> {}]

EnvChar(c) == IF c = "-" THEN "_" ELSE Upper[c]

\* The variable a child process reads the root of workspace `id` through.
Env(id) == [k \in DOMAIN id |-> EnvChar(id[k])]

\* `is_url_safe`
ValidId(id) == Len(id) > 0 /\ \A k \in DOMAIN id : id[k] \in UrlSafe

Goto(r, step) == pc' = [pc EXCEPT ![r] = step] /\ answer' = answer
Respond(r, status) ==
  /\ pc' = [pc EXCEPT ![r] = "done"]
  /\ answer' = [answer EXCEPT ![r] = status]

-----------------------------------------------------------------------------
(* POST                                                                    *)

\* The checks of Metadata::new: whatever the id, the root may fail them.  Then Workspace::new
\* may fail to watch it.
Build(r) ==
  /\ pc[r] = "start" /\ req[r].method = "POST"
  /\ \/ ValidId(req[r].id) /\ (Goto(r, "register") \/ Respond(r, "500"))
     \/ \E status \in {"400", "403"} : Respond(r, status)
  /\ access' = [access EXCEPT ![r] = req[r].access]
  /\ UNCHANGED <<registry, derived, req, at, rest, removed>>

\* Mutant: the id is not looked up again under the write lock.
Taken_Never(r) == FALSE
Taken(r) == registry[req[r].id] # None

\* The check and the insertion hold the write lock.
Register(r) ==
  /\ pc[r] = "register"
  /\ \/ /\ Taken(r)
        /\ Respond(r, "409")
        /\ UNCHANGED registry
     \/ /\ ~Taken(r)
        /\ registry' = [registry EXCEPT ![req[r].id] = r]
        /\ Respond(r, "201")
  /\ UNCHANGED <<access, derived, req, at, rest, removed>>

-----------------------------------------------------------------------------
(* Resolution                                                              *)

\* `mutable` refuses to look the preset up.
Immutable(r) == req[r].method \in {"PATCH", "DELETE"} /\ req[r].id = GlobalId

Lookup(r) ==
  /\ pc[r] = "start" /\ req[r].method # "POST"
  /\ \/ Immutable(r) /\ Respond(r, "403")
     \/ ~Immutable(r) /\ Goto(r, "get")
  /\ UNCHANGED <<registry, access, derived, req, at, rest, removed>>

\* What a handler does once the id resolved to a registered workspace.
Found(r) ==
  CASE req[r].method = "GET"    -> "read"
    [] req[r].method = "PATCH"  -> "set"
    [] req[r].method = "DELETE" -> "remove"

Get(r) ==
  /\ pc[r] = "get"
  /\ \/ /\ registry[req[r].id] # None
        /\ at' = [at EXCEPT ![r] = registry[req[r].id]]
        /\ Goto(r, Found(r))
     \/ /\ registry[req[r].id] = None
        /\ Goto(r, "scopes")
        /\ UNCHANGED at
  /\ UNCHANGED <<registry, access, derived, req, rest, removed>>

\* `scopes` copies the registered workspaces out; the lock is then released.
Scopes(r) ==
  /\ pc[r] = "scopes"
  /\ rest' = [rest EXCEPT ![r] = Registered]
  /\ Goto(r, "derive")
  /\ UNCHANGED <<registry, access, derived, req, at, removed>>

\* A derived workspace can be read; PATCH and DELETE refuse it.
DerivedAnswer(r) == IF req[r].method = "GET" THEN "derived" ELSE "403"

\* Mutant: a scope without resources ends the walk.
Derive_Stops(r) ==
  /\ pc[r] = "derive"
  /\ \/ \E w \in rest[r] :
          \/ /\ req[r].id \in derived[w]
             /\ Respond(r, DerivedAnswer(r))
             /\ rest' = [rest EXCEPT ![r] = {}]
          \/ /\ derived[w] = {}
             /\ Respond(r, "404")
             /\ rest' = [rest EXCEPT ![r] = {}]
          \/ /\ req[r].id \notin derived[w] /\ derived[w] # {}
             /\ Goto(r, "derive")
             /\ rest' = [rest EXCEPT ![r] = @ \ {w}]
     \/ rest[r] = {} /\ Respond(r, "404") /\ UNCHANGED rest
  /\ UNCHANGED <<registry, access, derived, req, at, removed>>

\* The walk lists one scope at a time, in the order of their ids: the model
\* takes any order.
Derive(r) ==
  /\ pc[r] = "derive"
  /\ \/ \E w \in rest[r] :
          \/ /\ req[r].id \in derived[w]
             /\ Respond(r, DerivedAnswer(r))
             /\ rest' = [rest EXCEPT ![r] = {}]
          \/ /\ req[r].id \notin derived[w]
             /\ Goto(r, "derive")
             /\ rest' = [rest EXCEPT ![r] = @ \ {w}]
     \/ rest[r] = {} /\ Respond(r, "404") /\ UNCHANGED rest
  /\ UNCHANGED <<registry, access, derived, req, at, removed>>

-----------------------------------------------------------------------------
(* What the handlers do with the workspace they hold; by then it may have   *)
(* left the registry.                                                      *)

\* set_access; the answer reads the metadata under a lock of its own.
SetAccess(r) ==
  /\ pc[r] = "set"
  /\ access' = [access EXCEPT ![at[r]] = req[r].access]
  /\ Goto(r, "read")
  /\ UNCHANGED <<registry, derived, req, at, rest, removed>>

Read(r) ==
  /\ pc[r] = "read"
  /\ Respond(r, "200")
  /\ UNCHANGED <<registry, access, derived, req, at, rest, removed>>

\* `remove` takes out whatever the id names now, and answers 204 whether that
\* was a workspace or nothing.
Remove(r) ==
  /\ pc[r] = "remove"
  /\ registry' = [registry EXCEPT ![req[r].id] = None]
  /\ removed' = [removed EXCEPT ![r] = registry[req[r].id]]
  /\ Respond(r, "204")
  /\ UNCHANGED <<access, derived, req, at, rest>>

\* Skills and plugins come and go on disk, below the root of any workspace
\* that a request may look at.
Discover(w) ==
  /\ w \in Registered \/ \E r \in Requests : w \in rest[r]
  /\ \E found \in SUBSET DerivedIds : derived' = [derived EXCEPT ![w] = found]
  /\ UNCHANGED <<registry, access, requestVars, removed>>

Step(r) ==
  \/ Build(r) \/ Register(r)
  \/ Lookup(r) \/ Get(r) \/ Scopes(r) \/ Derive(r)
  \/ SetAccess(r) \/ Read(r) \/ Remove(r)

\* What held the id of r through every step so far; nothing once r is over.
Kept(r, before, now) ==
  CASE pc[r] = "start" -> now
    [] pc[r] = "done"  -> {}
    [] OTHER           -> before \cap now

Remember ==
  /\ stood' = [r \in Requests |-> Kept(r, stood[r], Holders(req[r].id)')]
  /\ yielded' = [r \in Requests |-> Kept(r, yielded[r], Yielders(req[r].id)')]

Next ==
  /\ \/ \E r \in Requests : Step(r)
     \/ \E w \in Workspaces : Discover(w)
  /\ Remember

Spec == Init /\ [][Next]_vars

-----------------------------------------------------------------------------
(* A workspace whose POST answered 201 is registered until a DELETE takes   *)
(* it out: another POST of the same id, built at the same time, never       *)
(* replaces it (`register`).                                               *)
CreatedStays ==
  \A r \in Requests : answer[r] = "201" =>
    registry[req[r].id] = r \/ \E d \in Requests : removed[d] = r

(* Whatever the requests do, `global` names the preset, which is writable   *)
(* (`mutable`).                                                            *)
GlobalStays == registry[GlobalId] = Preset /\ access[Preset] = "read-write"

(* An id that is registered for as long as a request runs resolves to that  *)
(* workspace: what a scope derives under the same id never hides it         *)
(* (`resolve`, Registered before Derived).                                 *)
RegisteredWins ==
  \A r \in Requests :
    /\ req[r].method # "POST"
    /\ req[r].id # GlobalId
    /\ answer[r] \in {"derived", "404", "403"}
    => stood[r] = {}

(* An id that one registered scope derives for as long as a request runs is *)
(* not answered 404, although the walk over the scopes holds no lock and    *)
(* the others come and go around it (`derive`).                            *)
DerivedIsFound ==
  \A r \in Requests : answer[r] = "404" => yielded[r] = {}

(* A request finds what its id stands for all along, registered first.      *)
GetFinds == RegisteredWins /\ DerivedIsFound
=============================================================================
