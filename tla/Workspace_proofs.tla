--------------------------- MODULE Workspace_proofs ---------------------------
(***************************************************************************)
(* Proofs about the two parts that keep the state of workspaces: the       *)
(* registry of WorkspaceRegistry, and the resources that ResourceSync      *)
(* keeps of each.  No step of the one is a step of the other.              *)
(*                                                                         *)
(* Proofs about WorkspaceRegistry for every set of requests and ids: a      *)
(* workspace that was created stays until it is deleted, and the preset     *)
(* stays and is writable.  Neither is inductive by itself: the preset is    *)
(* safe only because no PATCH or DELETE under way can be about it, and a    *)
(* created workspace because a DELETE takes out one workspace only.         *)
(* And a GET answers what its id holds for as long as the GET lasts: the    *)
(* invariant says what a request that walks the scopes has still before it. *)
(*                                                                         *)
(* What ResourceSync says of a stale set, for any directories, edits,       *)
(* batches and room in the broadcast.  A change leaves news with whoever    *)
(* saw it, and the news is handed on until the sync task takes it and looks *)
(* again.                                                                  *)
(***************************************************************************)
EXTENDS WorkspaceRegistry, ResourceSync, Induction, SequenceTheorems

\* A request under way is not one `mutable` refuses, and one that may change a
\* workspace holds one of a POST.
Refused ==
  \A r \in Requests :
    /\ pc[r] \in {"get", "scopes", "derive", "set", "remove"} =>
         req[r].method # "POST" /\ ~Immutable(r)
    /\ pc[r] = "set" => at[r] \in Requests
    /\ pc[r] = "remove" => req[r].id # GlobalId

\* The preset is registered as `global` only.
PresetIsGlobal == \A i \in Ids : registry[i] = Preset => i = GlobalId

\* A request answers, and removes, as its last step.
Last ==
  \A r \in Requests : answer[r] # "none" \/ removed[r] # None => pc[r] = "done"

Inv == TypeOK /\ Refused /\ PresetIsGlobal /\ Last /\ GlobalStays /\ CreatedStays

NoneIsNoWorkspace == None \notin Workspaces

\* No workspace is None.
LEMMA NoneFact == NoneIsNoWorkspace /\ Preset \in Workspaces /\ Requests \subseteq Workspaces
BY RegistryAssumption DEF NoneIsNoWorkspace, None, Workspaces

\* Only the preset is registered.
LEMMA InitInv == Init => Inv
BY RegistryAssumption, NoneFact
   DEF Init, Inv, TypeOK, Refused, PresetIsGlobal, Last, GlobalStays, CreatedStays,
       Steps, Access, Answers, NoneIsNoWorkspace, None, Workspaces, Methods

\* The history of what held an id stays a set of workspaces.
LEMMA RememberType ==
  ASSUME TypeOK, Remember
  PROVE  /\ stood' \in [Requests -> SUBSET Workspaces]
         /\ yielded' \in [Requests -> SUBSET Workspaces]
BY DEF TypeOK, Remember, Kept, Holders, Yielders, Registered

\* The steps of a request that leave the registry alone.
LEMMA QuietStep ==
  ASSUME Inv, Remember, NEW r \in Requests,
         Build(r) \/ Lookup(r) \/ Scopes(r) \/ Derive(r) \/ Read(r)
  PROVE  Inv'
<1>1. TypeOK'
  <2>1. stood' \in [Requests -> SUBSET Workspaces] /\ yielded' \in [Requests -> SUBSET Workspaces]
    BY RememberType DEF Inv
  <2>2. r \in Workspaces /\ req[r].access \in Access
    BY NoneFact, RegistryAssumption DEF Inv, TypeOK, Access
  <2>3. Registered \in SUBSET Workspaces
    BY DEF Registered
  <2>7. registry' = registry /\ removed' = removed /\ req' = req /\ at' = at /\ derived' = derived
    BY DEF Build, Lookup, Scopes, Derive, Read
  <2>4. access' \in [Workspaces -> Access]
    BY <2>2 DEF Inv, TypeOK, Build, Lookup, Scopes, Derive, Read
  <2>5. rest' \in [Requests -> SUBSET Workspaces]
    BY ZenonT(60), <2>3 DEF Inv, TypeOK, Build, Lookup, Scopes, Derive, Read
  <2>6. pc' \in [Requests -> Steps] /\ answer' \in [Requests -> Answers]
    <3>1. ASSUME NEW step, Goto(r, step), step \in {"register", "get", "derive"}
          PROVE  pc' \in [Requests -> Steps] /\ answer' \in [Requests -> Answers]
      BY <3>1 DEF Inv, TypeOK, Goto, Steps
    <3>2. ASSUME NEW status \in Answers, Respond(r, status)
          PROVE  pc' \in [Requests -> Steps] /\ answer' \in [Requests -> Answers]
      BY <3>2 DEF Inv, TypeOK, Respond, Steps
    <3>3. {"400", "403", "404", "500", "200", DerivedAnswer(r)} \subseteq Answers
      BY DEF Answers, DerivedAnswer
    <3> QED
      BY <3>1, <3>2, <3>3 DEF Build, Lookup, Scopes, Derive, Read
  <2> QED
    BY <2>1, <2>7, <2>4, <2>5, <2>6 DEF Inv, TypeOK, Steps
<1>2. registry' = registry /\ removed' = removed /\ req' = req /\ at' = at
  BY DEF Build, Lookup, Scopes, Derive, Read
<1>3. Refused'
  BY <1>2, RegistryAssumption
     DEF Inv, TypeOK, Refused, Immutable, Build, Lookup, Scopes, Derive, Read, Goto, Respond
<1>4. Last'
  BY <1>2 DEF Inv, TypeOK, Last, Build, Lookup, Scopes, Derive, Read, Goto, Respond
<1>5. PresetIsGlobal'
  BY <1>2 DEF Inv, PresetIsGlobal
<1>6. GlobalStays'
  BY <1>2, RegistryAssumption, NoneFact
     DEF Inv, TypeOK, GlobalStays, Build, Lookup, Scopes, Derive, Read
<1>7. CreatedStays'
  <2> SUFFICES ASSUME NEW c \in Requests, answer'[c] = "201"
               PROVE  answer[c] = "201"
    BY <1>2 DEF Inv, CreatedStays
  <2> QED
    BY DEF Inv, TypeOK, Build, Lookup, Scopes, Derive, Read, Goto, Respond, DerivedAnswer
<1> QED
  BY <1>1, <1>3, <1>4, <1>5, <1>6, <1>7 DEF Inv

\* POST: a workspace of its own id.
LEMMA RegisterStep ==
  ASSUME Inv, Remember, NEW r \in Requests, Register(r)
  PROVE  Inv'
<1> USE NoneFact DEF NoneIsNoWorkspace
<1>1. TypeOK'
  <2>1. stood' \in [Requests -> SUBSET Workspaces] /\ yielded' \in [Requests -> SUBSET Workspaces]
    BY RememberType DEF Inv
  <2>2. registry' \in [Ids -> Workspaces \cup {None}]
    BY DEF Inv, TypeOK, Register
  <2> QED
    BY <2>1, <2>2 DEF Inv, TypeOK, Register, Respond, Answers, Steps
<1>2. Refused'
  BY DEF Inv, TypeOK, Refused, Immutable, Register, Respond
<1>3. Last'
  BY DEF Inv, TypeOK, Last, Register, Respond
<1>4. PresetIsGlobal' /\ GlobalStays'
  BY RegistryAssumption
     DEF Inv, TypeOK, PresetIsGlobal, GlobalStays, Register, Taken
<1>5. CreatedStays'
  <2> SUFFICES ASSUME NEW c \in Requests, answer'[c] = "201"
               PROVE  registry'[req[c].id] = c \/ \E d \in Requests : removed[d] = c
    BY DEF Register, CreatedStays
  <2>1. CASE c = r
    BY <2>1 DEF Inv, TypeOK, Register, Respond
  <2>2. CASE c # r
    <3>1. answer[c] = "201"
      BY <2>2 DEF Inv, TypeOK, Register, Respond
    <3>2. CASE registry[req[c].id] = c
      <4>1. registry'[req[c].id] = registry[req[c].id]
        BY <3>2 DEF Inv, TypeOK, Register, Taken
      <4> QED
        BY <4>1, <3>2
    <3> QED
      BY <3>1, <3>2 DEF Inv, CreatedStays
  <2> QED
    BY <2>1, <2>2
<1> QED
  BY <1>1, <1>2, <1>3, <1>4, <1>5 DEF Inv

\* The read lock: a request finds or misses its workspace.
LEMMA GetStep ==
  ASSUME Inv, Remember, NEW r \in Requests, Get(r)
  PROVE  Inv'
<1> USE NoneFact DEF NoneIsNoWorkspace
<1>1. Found(r) \in {"read", "set", "remove"} /\ req[r].method # "POST"
  BY DEF Inv, TypeOK, Refused, Get, Found, Methods
<1>2. TypeOK'
  BY <1>1, RememberType DEF Inv, TypeOK, Get, Goto, Steps
<1>3. Refused'
  <2>1. ASSUME Found(r) = "set" \/ Found(r) = "remove"
        PROVE  req[r].id # GlobalId
    BY <2>1 DEF Inv, TypeOK, Refused, Get, Found, Immutable, Methods
  <2>2. ASSUME Found(r) = "set", registry[req[r].id] # None
        PROVE  registry[req[r].id] \in Requests
    BY <2>1, <2>2 DEF Inv, TypeOK, PresetIsGlobal, Workspaces
  <2> QED
    BY <1>1, <2>1, <2>2 DEF Inv, TypeOK, Refused, Immutable, Get, Goto
<1>4. Last'
  BY <1>1 DEF Inv, TypeOK, Last, Get, Goto
<1>5. PresetIsGlobal' /\ GlobalStays' /\ CreatedStays'
  BY DEF Inv, PresetIsGlobal, GlobalStays, CreatedStays, Get, Goto
<1> QED
  BY <1>2, <1>3, <1>4, <1>5 DEF Inv

\* PATCH never touches the preset.
LEMMA SetAccessStep ==
  ASSUME Inv, Remember, NEW r \in Requests, SetAccess(r)
  PROVE  Inv'
<1>1. at[r] \in Requests /\ req[r].access \in Access
  BY RegistryAssumption DEF Inv, TypeOK, Refused, SetAccess, Access
<1>2. TypeOK'
  BY <1>1, RememberType DEF Inv, TypeOK, SetAccess, Goto, Steps
<1>3. Refused' /\ Last'
  BY DEF Inv, TypeOK, Refused, Last, Immutable, SetAccess, Goto
<1>4. GlobalStays'
  BY <1>1, RegistryAssumption DEF Inv, TypeOK, GlobalStays, SetAccess, Workspaces
<1>5. PresetIsGlobal' /\ CreatedStays'
  BY DEF Inv, PresetIsGlobal, CreatedStays, SetAccess, Goto
<1> QED
  BY <1>2, <1>3, <1>4, <1>5 DEF Inv

\* DELETE takes out one workspace.
LEMMA RemoveStep ==
  ASSUME Inv, Remember, NEW r \in Requests, Remove(r)
  PROVE  Inv'
<1> USE NoneFact DEF NoneIsNoWorkspace
<1>1. req[r].id \in Ids /\ req[r].id # GlobalId /\ removed[r] = None /\ answer[r] = "none"
  BY DEF Inv, TypeOK, Refused, Last, Remove
<1>2. TypeOK'
  BY <1>1, RememberType DEF Inv, TypeOK, Remove, Respond, Answers, Steps
<1>3. Refused' /\ Last'
  BY DEF Inv, TypeOK, Refused, Last, Immutable, Remove, Respond
<1>4. PresetIsGlobal' /\ GlobalStays'
  BY <1>1 DEF Inv, TypeOK, PresetIsGlobal, GlobalStays, Remove
<1>5. CreatedStays'
  <2> SUFFICES ASSUME NEW c \in Requests, answer'[c] = "201"
               PROVE  registry'[req[c].id] = c \/ \E d \in Requests : removed'[d] = c
    BY DEF Remove, CreatedStays
  <2>1. answer[c] = "201"
    BY DEF Inv, TypeOK, Remove, Respond
  <2>2. CASE registry[req[c].id] = c /\ req[c].id = req[r].id
    BY <2>2 DEF Inv, TypeOK, Remove
  <2>3. CASE registry[req[c].id] = c /\ req[c].id # req[r].id
    BY <2>3 DEF Inv, TypeOK, Remove
  <2>4. CASE \E d \in Requests : removed[d] = c
    <3>1. PICK d \in Requests : removed[d] = c
      BY <2>4
    <3>2. d # r
      BY <3>1, <1>1
    <3> QED
      BY <3>1, <3>2 DEF Inv, TypeOK, Remove
  <2> QED
    BY <2>1, <2>2, <2>3, <2>4 DEF Inv, CreatedStays
<1> QED
  BY <1>2, <1>3, <1>4, <1>5 DEF Inv

\* A directory that turns up, or goes, changes nothing that is registered.
LEMMA DiscoverStep ==
  ASSUME Inv, Remember, NEW w \in Workspaces, Discover(w)
  PROVE  Inv'
<1>1. TypeOK'
  BY RememberType DEF Inv, TypeOK, Discover, requestVars
<1> QED
  BY <1>1 DEF Inv, Refused, PresetIsGlobal, Last, GlobalStays, CreatedStays, Immutable,
     Discover, requestVars

\* A step of nobody.
LEMMA StutterStep == Inv /\ UNCHANGED vars => Inv'
BY DEF Inv, TypeOK, Refused, PresetIsGlobal, Last, GlobalStays, CreatedStays, Immutable,
   vars, requestVars

(* Inv is inductive, for any requests, ids and derivable ids.              *)
THEOREM RegistryInv == Spec => []Inv
<1>1. Inv /\ [Next]_vars => Inv'
  <2> SUFFICES ASSUME Inv, [Next]_vars PROVE Inv'
    OBVIOUS
  <2>1. ASSUME NEW r \in Requests, Step(r), Remember PROVE Inv'
    BY <2>1, QuietStep, RegisterStep, GetStep, SetAccessStep, RemoveStep DEF Step
  <2>2. ASSUME NEW w \in Workspaces, Discover(w), Remember PROVE Inv'
    BY <2>2, DiscoverStep
  <2> QED
    BY <2>1, <2>2, StutterStep DEF Next
<1> QED
  BY InitInv, <1>1, PTL DEF Spec

(* The variables keep their types.                                         *)
THEOREM RegistryTypes == Spec => []TypeOK
<1>1. Inv => TypeOK
  BY DEF Inv
<1> QED
  BY <1>1, RegistryInv, PTL

(* A POST that was answered 201 is never undone by another POST of the same *)
(* id, however many race for it: only a DELETE takes the workspace out.     *)
THEOREM CreatedWorkspaceStays == Spec => []CreatedStays
<1>1. Inv => CreatedStays
  BY DEF Inv
<1> QED
  BY <1>1, RegistryInv, PTL

(* No sequence of requests takes `global` away or makes it read-only.       *)
THEOREM PresetStays == Spec => []GlobalStays
<1>1. Inv => GlobalStays
  BY DEF Inv
<1> QED
  BY <1>1, RegistryInv, PTL

-----------------------------------------------------------------------------
(* What a request finds: the histories of GetFinds.                        *)

\* What stood since a request began stands now, and what yielded its id yields it.
HistoryIsNow ==
  \A r \in Requests :
    stood[r] \subseteq Holders(req[r].id) /\ yielded[r] \subseteq Yielders(req[r].id)

\* A request looks at the scopes because nothing has its id, and has still before it
\* every scope that yields the id all along.
WalkMeets ==
  \A r \in Requests :
    /\ pc[r] \in {"scopes", "derive"} => stood[r] = {}
    /\ pc[r] = "derive" => yielded[r] \subseteq rest[r]

FindsInv == HistoryIsNow /\ WalkMeets /\ GetFinds

\* No request has looked.
LEMMA InitFinds == Init => FindsInv
BY DEF Init, FindsInv, HistoryIsNow, WalkMeets, GetFinds, RegisteredWins, DerivedIsFound

\* A history never holds more than the state it looks at.
LEMMA HistoryStep ==
  ASSUME Remember
  PROVE  HistoryIsNow'
<1> SUFFICES ASSUME NEW r \in Requests
             PROVE  /\ stood'[r] \subseteq Holders(req[r].id)'
                    /\ yielded'[r] \subseteq Yielders(req[r].id)'
  BY DEF HistoryIsNow
<1>1. stood'[r] = Kept(r, stood[r], Holders(req[r].id)')
      /\ yielded'[r] = Kept(r, yielded[r], Yielders(req[r].id)')
  BY DEF Remember
<1> QED
  BY <1>1 DEF Kept

\* A history only shrinks once a request is under way, and ends with it.
LEMMA HistoryShrinks ==
  ASSUME Remember, NEW r \in Requests
  PROVE  /\ pc[r] # "start" => stood'[r] \subseteq stood[r] /\ yielded'[r] \subseteq yielded[r]
         /\ pc[r] = "done" => stood'[r] = {} /\ yielded'[r] = {}
<1>1. stood'[r] = Kept(r, stood[r], Holders(req[r].id)')
      /\ yielded'[r] = Kept(r, yielded[r], Yielders(req[r].id)')
  BY DEF Remember
<1> QED
  BY <1>1 DEF Kept

\* A step of one request is no step of another.
LEMMA OthersStay ==
  ASSUME TypeOK, NEW r \in Requests, Step(r), NEW q \in Requests \ {r}
  PROVE  pc'[q] = pc[q] /\ answer'[q] = answer[q] /\ rest'[q] = rest[q]
BY DEF TypeOK, Step, Build, Register, Lookup, Get, Scopes, Derive, SetAccess, Read, Remove,
   Goto, Respond

\* What a request that is not moved has found stays true.
LEMMA UnmovedFinds ==
  ASSUME Inv, FindsInv, Remember, req' = req, NEW q \in Requests,
         pc'[q] = pc[q], answer'[q] = answer[q], rest'[q] = rest[q]
  PROVE  /\ pc'[q] \in {"scopes", "derive"} => stood'[q] = {}
         /\ pc'[q] = "derive" => yielded'[q] \subseteq rest'[q]
         /\ answer'[q] # "none" => stood'[q] = {} /\ yielded'[q] = {}
<1>1. answer[q] # "none" => pc[q] = "done"
  BY DEF Inv, Last
<1>2. pc[q] \in {"scopes", "derive"} => stood[q] = {}
  BY DEF FindsInv, WalkMeets
<1>3. pc[q] = "derive" => yielded[q] \subseteq rest[q]
  BY DEF FindsInv, WalkMeets
<1> QED
  BY <1>1, <1>2, <1>3, HistoryShrinks

\* What the request that is moved finds.
LEMMA MovedFinds ==
  ASSUME Inv, FindsInv, Remember, HistoryIsNow', NEW r \in Requests, Step(r)
  PROVE  /\ pc'[r] \in {"scopes", "derive"} => stood'[r] = {}
         /\ pc'[r] = "derive" => yielded'[r] \subseteq rest'[r]
         /\ /\ req[r].method # "POST" /\ req[r].id # GlobalId
            /\ answer'[r] \in {"derived", "404", "403"}
            => stood'[r] = {}
         /\ answer'[r] = "404" => yielded'[r] = {}
<1> USE NoneFact DEF NoneIsNoWorkspace
<1>1. req[r] \in [method : Methods, id : Ids, access : Asked] /\ pc[r] \in Steps
  BY DEF Inv, TypeOK
<1>2. pc[r] # "done" => answer[r] = "none"
  BY DEF Inv, Last
<1>3. stood'[r] \subseteq Holders(req[r].id)' /\ yielded'[r] \subseteq Yielders(req[r].id)'
  BY DEF HistoryIsNow
<1>4. ASSUME NEW step, Goto(r, step) PROVE pc'[r] = step /\ answer'[r] = answer[r]
  BY <1>4 DEF Goto, Inv, TypeOK
<1>5. ASSUME NEW status, Respond(r, status) PROVE pc'[r] = "done" /\ answer'[r] = status
  BY <1>5 DEF Respond, Inv, TypeOK
<1>6. CASE Build(r)
  BY <1>2, <1>4, <1>5, <1>6 DEF Build
<1>7. CASE Lookup(r)
  BY <1>2, <1>4, <1>5, <1>7 DEF Lookup, Immutable
<1>8. CASE Register(r)
  <2>1. answer'[r] \in {"409", "201"} /\ pc'[r] = "done"
    BY <1>5, <1>8 DEF Register
  <2> QED
    BY <2>1
<1>9. CASE Get(r)
  <2>1. CASE Goto(r, Found(r))
    BY <1>1, <1>2, <1>4, <1>9, <2>1 DEF Get, Found, Refused, Inv, Methods
  <2>2. CASE registry[req[r].id] = None /\ Goto(r, "scopes")
    <3>1. Holders(req[r].id)' = {}
      BY <1>9, <2>2 DEF Get, Holders
    <3> QED
      BY <1>2, <1>3, <1>4, <1>9, <2>2, <3>1 DEF Get
  <2> QED
    BY <1>9, <2>1, <2>2 DEF Get
<1>10. CASE Scopes(r)
  <2>1. stood'[r] = {}
    BY <1>10, HistoryShrinks DEF Scopes, FindsInv, WalkMeets
  <2>2. yielded'[r] \subseteq Registered'
    BY <1>3 DEF Yielders
  <2>3. Registered' = Registered /\ rest'[r] = Registered
    BY <1>10 DEF Scopes, Registered, Inv, TypeOK
  <2> QED
    BY <1>2, <1>4, <1>10, <2>1, <2>2, <2>3 DEF Scopes
<1>11. CASE Derive(r)
  <2>1. stood'[r] = {} /\ yielded'[r] \subseteq yielded[r] /\ yielded[r] \subseteq rest[r]
    BY <1>11, HistoryShrinks DEF Derive, FindsInv, WalkMeets
  <2>2. CASE \E w \in rest[r] : req[r].id \notin derived[w] /\ Goto(r, "derive")
                                /\ rest' = [rest EXCEPT ![r] = @ \ {w}]
    <3>1. PICK w \in rest[r] : req[r].id \notin derived[w] /\ Goto(r, "derive")
                               /\ rest' = [rest EXCEPT ![r] = @ \ {w}]
      BY <2>2
    <3>2. w \notin Yielders(req[r].id)'
      BY <1>11, <3>1 DEF Derive, Yielders
    <3>3. rest'[r] = rest[r] \ {w}
      BY <3>1 DEF Inv, TypeOK
    <3> QED
      BY <1>2, <1>3, <1>4, <1>11, <2>1, <3>1, <3>2, <3>3 DEF Derive
  <2>3. CASE Respond(r, DerivedAnswer(r))
    BY <1>5, <2>1, <2>3 DEF DerivedAnswer
  <2>4. CASE rest[r] = {} /\ Respond(r, "404")
    BY <1>5, <2>1, <2>4
  <2> QED
    BY <1>11, <2>2, <2>3, <2>4 DEF Derive
<1>12. CASE SetAccess(r)
  BY <1>2, <1>4, <1>12 DEF SetAccess
<1>13. CASE Read(r)
  BY <1>5, <1>13 DEF Read
<1>14. CASE Remove(r)
  BY <1>5, <1>14 DEF Remove
<1> QED
  BY <1>6, <1>7, <1>8, <1>9, <1>10, <1>11, <1>12, <1>13, <1>14 DEF Step

\* Every step keeps what a request found.
LEMMA FindsStep ==
  ASSUME Inv, FindsInv, Next
  PROVE  FindsInv'
<1> USE DEF Next
<1>1. HistoryIsNow' /\ Remember
  BY HistoryStep
<1>2. req' = req
  BY DEF Step, Build, Register, Lookup, Get, Scopes, Derive, SetAccess, Read, Remove,
     Discover, requestVars
<1>3. ASSUME NEW q \in Requests
      PROVE  /\ pc'[q] \in {"scopes", "derive"} => stood'[q] = {}
             /\ pc'[q] = "derive" => yielded'[q] \subseteq rest'[q]
             /\ /\ req[q].method # "POST" /\ req[q].id # GlobalId
                /\ answer'[q] \in {"derived", "404", "403"}
                => stood'[q] = {}
             /\ answer'[q] = "404" => yielded'[q] = {}
  <2>1. CASE Step(q)
    BY <1>1, <2>1, MovedFinds
  <2>2. CASE ~Step(q)
    <3>1. pc'[q] = pc[q] /\ answer'[q] = answer[q] /\ rest'[q] = rest[q]
      BY <2>2, OthersStay DEF Inv, Discover, requestVars
    <3> QED
      BY <1>1, <1>2, <3>1, UnmovedFinds
  <2> QED
    BY <2>1, <2>2
<1> QED
  BY <1>1, <1>2, <1>3 DEF FindsInv, WalkMeets, GetFinds, RegisteredWins, DerivedIsFound

(* What an id stands for all through a request is what the request finds:   *)
(* a registered workspace before anything a scope derives, and a derived    *)
(* one although the walk over the scopes holds no lock (`resolve`).         *)
THEOREM RequestFindsItsWorkspace == Spec => []GetFinds
<1>1. FindsInv /\ UNCHANGED vars => FindsInv'
  BY DEF FindsInv, HistoryIsNow, WalkMeets, GetFinds, RegisteredWins, DerivedIsFound,
     Holders, Yielders, Registered, vars, requestVars
<1>2. Inv /\ FindsInv /\ [Next]_vars => FindsInv'
  BY <1>1, FindsStep
<1>3. FindsInv => GetFinds
  BY DEF FindsInv
<1> QED
  BY InitFinds, RegistryInv, <1>2, <1>3, PTL DEF Spec

(* Two ids share a variable exactly if they are as long and agree, place by *)
(* place, up to case and to `-` and `_`.  `is_url_safe` takes all of these,  *)
(* so `Metadata::env` is not reversible, as its comment has it.            *)
THEOREM EnvTellsApart ==
  ASSUME NEW i \in Seq(Chars), NEW j \in Seq(Chars)
  PROVE  Env(i) = Env(j) <=>
           /\ Len(i) = Len(j)
           /\ \A k \in 1..Len(i) :
                \/ {i[k], j[k]} \subseteq {"-", "_"}
                \/ "-" \notin {i[k], j[k]} /\ Upper[i[k]] = Upper[j[k]]
<1>1. /\ DOMAIN i = 1..Len(i) /\ Len(i) \in Nat /\ DOMAIN Env(i) = DOMAIN i
      /\ DOMAIN j = 1..Len(j) /\ Len(j) \in Nat /\ DOMAIN Env(j) = DOMAIN j
  BY LenProperties DEF Env
<1>2. ASSUME NEW k \in 1..Len(i), Len(i) = Len(j)
      PROVE  Env(i)[k] = Env(j)[k] <=>
               \/ {i[k], j[k]} \subseteq {"-", "_"}
               \/ "-" \notin {i[k], j[k]} /\ Upper[i[k]] = Upper[j[k]]
  <2>1. i[k] \in Chars /\ j[k] \in Chars
    BY <1>2, ElementOfSeq
  <2>2. Env(i)[k] = EnvChar(i[k]) /\ Env(j)[k] = EnvChar(j[k])
    BY <1>1, <1>2 DEF Env
  <2>3. \A c \in Chars : (c = "_" => Upper[c] = "_") /\ (c # "_" => Upper[c] # "_")
    BY UpperAssumption
  <2>4. CASE i[k] = "-"
    BY <2>1, <2>2, <2>3, <2>4 DEF EnvChar
  <2>5. CASE j[k] = "-"
    BY <2>1, <2>2, <2>3, <2>5 DEF EnvChar
  <2>6. CASE i[k] # "-" /\ j[k] # "-"
    BY <2>1, <2>2, <2>3, <2>6 DEF EnvChar
  <2> QED
    BY <2>4, <2>5, <2>6
<1>3. ASSUME Env(i) = Env(j) PROVE Len(i) = Len(j)
  BY <1>1, <1>3, IntervalsDiffer
<1>4. Env(i) = Env(j) <=> Len(i) = Len(j) /\ \A k \in 1..Len(i) : Env(i)[k] = Env(j)[k]
  <2>1. Env(i) = [k \in DOMAIN i |-> EnvChar(i[k])] /\ Env(j) = [k \in DOMAIN j |-> EnvChar(j[k])]
    BY DEF Env
  <2>2. ASSUME Len(i) = Len(j), \A k \in 1..Len(i) : Env(i)[k] = Env(j)[k] PROVE Env(i) = Env(j)
    BY <1>1, <2>1, <2>2
  <2> QED
    BY <1>3, <2>2
<1> QED
  BY <1>2, <1>4

-----------------------------------------------------------------------------
(* The resources of a workspace.                                          *)

\* News on its way to the sync task, as the debouncer, the watch task or the channel has it.
News == raw # "none" \/ unsent > 0 \/ queue # <<>>

\* A task that has looked, or has applied what it saw, is up to date or has news to come.
UpToDate ==
  calm /\ ~dropped =>
    /\ sync \in {"build", "apply"} => News \/ present = (dir # 0)
    /\ sync = "recv" => News \/ InSync

SyncInv == SyncTypeOK /\ UpToDate

-----------------------------------------------------------------------------
(* The types.                                                              *)

\* What a queue is with one more at its end, and without its head.
LEMMA Queues ==
  ASSUME NEW S, NEW q \in Seq(S), NEW x \in S
  PROVE  /\ Append(q, x) \in Seq(S) /\ Len(Append(q, x)) = Len(q) + 1 /\ Len(q) \in Nat
         /\ Append(q, x) # <<>>
         /\ q # <<>> => /\ Tail(q) \in Seq(S) /\ Len(Tail(q)) = Len(q) - 1 /\ Len(q) > 0
                        /\ Append(Tail(q), x) \in Seq(S) /\ Len(Append(Tail(q), x)) = Len(q)
                        /\ Append(Tail(q), x) # <<>>
OBVIOUS

\* A broadcast keeps the channel within its room, and leaves it something for a receiver.
LEMMA Broadcasts ==
  ASSUME SyncTypeOK, NEW item \in {"event", "error"}, Broadcast(item)
  PROVE  /\ queue' \in Seq({"event", "error"}) /\ Len(queue') <= BroadcastCap
         /\ lagged' \in BOOLEAN
         /\ sync \notin {"start", "ended"} => queue' # <<>>
<1>1. /\ queue \in Seq({"event", "error"}) /\ Len(queue) <= BroadcastCap /\ lagged \in BOOLEAN
      /\ Len(queue) \in Nat /\ BroadcastCap \in Nat \ {0}
  BY BoundsAssumption DEF SyncTypeOK
<1>2. CASE sync \in {"start", "ended"}
  BY <1>1, <1>2 DEF Broadcast
<1>3. CASE sync \notin {"start", "ended"} /\ Len(queue) < BroadcastCap
  <2>1. queue' = Append(queue, item) /\ lagged' = lagged
    BY <1>3 DEF Broadcast
  <2> QED BY <1>1, <1>3, <2>1, Queues
<1>4. CASE sync \notin {"start", "ended"} /\ ~(Len(queue) < BroadcastCap)
  <2>1. queue' = Append(Tail(queue), item) /\ lagged' = TRUE
    BY <1>4 DEF Broadcast
  <2>2. queue # <<>>
    BY <1>1, <1>4
  <2> QED BY <1>1, <1>4, <2>1, <2>2, Queues
<1> QED BY <1>2, <1>3, <1>4

\* The types hold at first.
LEMMA InitTypes == SyncInit => SyncTypeOK
<1> SUFFICES ASSUME SyncInit PROVE SyncTypeOK
  OBVIOUS
<1>1. /\ MaxDirs \in Nat /\ MaxDirs > 0 /\ MaxEdits \in Nat
      /\ BatchMax \in Nat \ {0} /\ BroadcastCap \in Nat \ {0}
  BY BoundsAssumption DEF SyncInit
<1>2. dir \in 0..MaxDirs /\ made \in 0..MaxDirs /\ edits \in 0..MaxEdits /\ unsent \in 0..BatchMax
  BY <1>1 DEF SyncInit
<1>3. queue \in Seq({"event", "error"}) /\ Len(queue) <= BroadcastCap
  <2>1. queue = <<>>
    BY DEF SyncInit
  <2> QED BY <1>1, <2>1
<1> QED BY <1>2, <1>3 DEF SyncInit, SyncTypeOK

\* The directory's changes keep them,
LEMMA DiskTypes == ASSUME SyncTypeOK, Disk PROVE SyncTypeOK'
<1>0. MaxDirs \in Nat /\ MaxEdits \in Nat
  BY BoundsAssumption
<1>1. UNCHANGED <<watched, attachment, watch, unsent, queue, lagged, sync, present, held, dropped, calm>>
  BY DEF Disk, Make, RemoveDir, Edit, syncVars
<1>2. dir' \in 0..MaxDirs /\ made' \in 0..MaxDirs /\ edits' \in 0..MaxEdits /\ broken' \in BOOLEAN
  <2>0. /\ dir \in 0..MaxDirs /\ made \in 0..MaxDirs /\ edits \in 0..MaxEdits
        /\ broken \in BOOLEAN
    BY DEF SyncTypeOK
  <2>1. CASE Make
    BY <1>0, <2>0, <2>1 DEF Make
  <2>2. CASE RemoveDir
    BY <1>0, <2>0, <2>2 DEF RemoveDir
  <2>3. CASE Edit
    <3>1. dir' = dir /\ made' = made /\ edits' = edits + 1 /\ edits < MaxEdits /\ broken' = ~broken
      BY <2>3 DEF Edit
    <3>2. broken' \in BOOLEAN
      BY <3>1
    <3> QED BY <1>0, <2>0, <3>1, <3>2
  <2> QED BY <2>1, <2>2, <2>3 DEF Disk
<1>3. raw' \in {"none", "create", "change"}
  BY DEF Disk, Make, RemoveDir, Edit, SyncTypeOK
<1> QED BY <1>1, <1>2, <1>3 DEF SyncTypeOK, Inodes, Parent

\* the watch task's steps,
LEMMA WatchTypes == ASSUME SyncTypeOK, WatchTask PROVE SyncTypeOK'
<1>0. MaxDirs \in Nat /\ BatchMax \in Nat \ {0}
  BY BoundsAssumption
<1>1. UNCHANGED <<calm, dir, made, broken, edits, sync, present, held, dropped>>
  BY DEF WatchTask, Probe, Attach, Batch, SendEvent, BatchFails, Check, Unwatch, Rewatch,
     diskVars, syncVars
<1>2. watch' \in {"probe", "attach", "recv", "send", "check", "unwatch", "watch", "failed", "ended"}
  BY DEF WatchTask, Probe, Attach, Batch, SendEvent, BatchFails, Check, Unwatch, Rewatch, WatchGoto
<1>3. watched' \in Inodes \cup {Parent, Nothing} /\ attachment' \in {"target", "parent"}
      /\ raw' \in {"none", "create", "change"}
  BY <1>0 DEF WatchTask, Probe, Attach, Batch, SendEvent, BatchFails, Check, Unwatch, Rewatch,
     SyncTypeOK, Inodes
<1>4. unsent' \in 0..BatchMax
  BY <1>0 DEF WatchTask, Probe, Attach, Batch, SendEvent, BatchFails, Check, Unwatch, Rewatch, SyncTypeOK
<1>5. queue' \in Seq({"event", "error"}) /\ Len(queue') <= BroadcastCap /\ lagged' \in BOOLEAN
  <2>1. CASE UNCHANGED <<queue, lagged>>
    BY <2>1 DEF SyncTypeOK
  <2>2. CASE Broadcast("event") \/ Broadcast("error")
    BY <2>2, Broadcasts
  <2> QED BY <2>1, <2>2 DEF WatchTask, Probe, Attach, Batch, SendEvent, BatchFails, Check,
             Unwatch, Rewatch
<1> QED BY <1>1, <1>2, <1>3, <1>4, <1>5 DEF SyncTypeOK, Inodes, Parent

\* and those of the sync task and the end of the workspace.
LEMMA SyncTypes == ASSUME SyncTypeOK, SyncTask \/ Drop PROVE SyncTypeOK'
<1>0. BatchMax \in Nat \ {0} /\ BroadcastCap \in Nat \ {0}
  BY BoundsAssumption
<1>1. UNCHANGED <<calm, dir, made, broken, edits, watched, raw, attachment, lagged>>
  BY DEF SyncTask, Subscribe, Stat, Apply, Receive, Drop, diskVars, watchVars
<1>2. /\ watch' \in {watch, "ended"} /\ unsent' \in {unsent, 0}
      /\ dropped' \in BOOLEAN
  BY DEF SyncTask, Subscribe, Stat, Apply, Receive, Drop, watchVars, SyncTypeOK
<1>3. /\ sync' \in {"start", "first", "build", "recv", "stat", "apply", "ended"}
      /\ present' \in BOOLEAN /\ held' \in BOOLEAN
  BY DEF SyncTask, Subscribe, Stat, Apply, Receive, Drop, SyncGoto, SyncTypeOK
<1>4. queue' \in Seq({"event", "error"}) /\ Len(queue') <= BroadcastCap
  <2>1. queue' = queue \/ queue' = <<>> \/ (queue # <<>> /\ queue' = Tail(queue))
    BY DEF SyncTask, Subscribe, Stat, Apply, Receive, Drop
  <2>2. /\ queue \in Seq({"event", "error"}) /\ Len(queue) <= BroadcastCap
    BY DEF SyncTypeOK
  <2>3. Len(queue) \in Nat
    BY <2>2
  <2>4. CASE queue # <<>> /\ queue' = Tail(queue)
    <3>1. Tail(queue) \in Seq({"event", "error"}) /\ Len(Tail(queue)) = Len(queue) - 1
      BY <2>2, <2>4
    <3> QED BY <1>0, <2>2, <2>3, <2>4, <3>1
  <2>5. CASE queue' = <<>>
    BY <1>0, <2>5
  <2> QED BY <2>1, <2>2, <2>4, <2>5
<1> QED BY <1>0, <1>1, <1>2, <1>3, <1>4 DEF SyncTypeOK, Inodes, Parent

-----------------------------------------------------------------------------
(* News is handed on.                                                      *)

\* In a calm run a change is seen, so that it leaves news.
LEMMA ChangeIsNews == ASSUME SyncTypeOK, UpToDate, Disk PROVE UpToDate'
<1>1. UNCHANGED <<calm, sync, dropped>>
  BY DEF Disk, Make, RemoveDir, Edit, syncVars
<1>2. calm => raw' # "none"
  <2>1. CASE Make
    BY <2>1 DEF Make, Undisturbed
  <2>2. CASE RemoveDir
    BY <2>2 DEF RemoveDir, Undisturbed
  <2>3. CASE Edit
    BY <2>3 DEF Edit, Undisturbed
  <2> QED BY <2>1, <2>2, <2>3 DEF Disk
<1> QED BY <1>1, <1>2 DEF UpToDate, News

\* The watch task takes news from the debouncer and passes it to a receiver that is there.
LEMMA NewsIsPassed == ASSUME SyncTypeOK, UpToDate, WatchTask PROVE UpToDate'
<1>1. UNCHANGED <<calm, dir, broken, sync, present, held, dropped>>
  BY DEF WatchTask, Probe, Attach, Batch, SendEvent, BatchFails, Check, Unwatch, Rewatch,
     diskVars, syncVars
<1>2. ASSUME News, sync \notin {"start", "ended"} PROVE News'
  <2>1. CASE Batch
    <3>1. unsent' \in 1..BatchMax
      BY <2>1 DEF Batch
    <3> QED BY <3>1, BoundsAssumption DEF News
  <2>2. CASE Broadcast("event") \/ Broadcast("error")
    BY <1>2, <2>2, Broadcasts DEF News
  <2>3. CASE UNCHANGED <<raw, unsent, queue>>
    BY <1>2, <2>3 DEF News
  <2> QED BY <2>1, <2>2, <2>3 DEF WatchTask, Probe, Attach, SendEvent, BatchFails, Check,
             Unwatch, Rewatch
<1>3. InSync' = InSync
  BY <1>1 DEF InSync
<1> QED BY <1>1, <1>2, <1>3 DEF UpToDate

\* The sync task that takes news looks again, and what it applies is what it saw.
LEMMA NewsIsTaken == ASSUME SyncTypeOK, UpToDate, SyncTask \/ Drop PROVE UpToDate'
<1>1. CASE Subscribe
  BY <1>1 DEF Subscribe, SyncGoto, UpToDate
<1>2. CASE Stat
  BY <1>2 DEF Stat, SyncGoto, UpToDate, diskVars
<1>3. CASE Apply
  <2>1. /\ UNCHANGED <<calm, dir, broken, raw, unsent, queue, dropped>>
        /\ sync \in {"build", "apply"} /\ sync' = "recv"
        /\ held' = (present /\ (held \/ dir = 0 \/ ~broken))
    BY <1>3 DEF Apply, SyncGoto, diskVars, watchVars
  <2>2. News' = News
    BY <2>1 DEF News
  <2>3. present = (dir # 0) => InSync'
    BY <2>1 DEF InSync, SyncTypeOK
  <2> QED BY <2>1, <2>2, <2>3 DEF UpToDate
<1>4. CASE Receive
  BY <1>4 DEF Receive, SyncGoto, UpToDate
<1>5. CASE Drop
  BY <1>5 DEF Drop, UpToDate
<1> QED BY <1>1, <1>2, <1>3, <1>4, <1>5 DEF SyncTask

\* What the types and the news are made of stays when nothing moves.
LEMMA NothingMoves == ASSUME SyncInv, UNCHANGED resourceVars PROVE SyncInv'
BY DEF SyncInv, SyncTypeOK, UpToDate, News, InSync, resourceVars, diskVars, watchVars, syncVars, Inodes, Parent

-----------------------------------------------------------------------------
(* The theorems.                                                           *)

\* The inductive invariant: the types, and that a sync task which has looked is up to date or
\* has news of what it missed.
THEOREM SyncInvariant == SyncSafety => []SyncInv
<1>1. SyncInit => SyncInv
  BY InitTypes DEF SyncInv, SyncInit, UpToDate
<1>2. SyncInv /\ [SyncNext]_resourceVars => SyncInv'
  <2> SUFFICES ASSUME SyncInv, [SyncNext]_resourceVars PROVE SyncInv'
    OBVIOUS
  <2>1. CASE Disk
    BY <2>1, DiskTypes, ChangeIsNews DEF SyncInv
  <2>2. CASE WatchTask
    BY <2>2, WatchTypes, NewsIsPassed DEF SyncInv
  <2>3. CASE SyncTask \/ Drop
    BY <2>3, SyncTypes, NewsIsTaken DEF SyncInv
  <2>4. CASE UNCHANGED resourceVars
    BY <2>4, NothingMoves
  <2> QED BY <2>1, <2>2, <2>3, <2>4 DEF SyncNext, Settled
<1> QED BY <1>1, <1>2, PTL DEF SyncSafety

\* The types hold, and no channel outgrows its room, for any bounds.
THEOREM SyncTypesHold == SyncSafety => []SyncTypeOK
<1>1. SyncInv => SyncTypeOK
  BY DEF SyncInv
<1> QED BY <1>1, SyncInvariant, PTL

\* A set that is out of step with a directory whose changes are all seen has news on its way to
\* the task that repairs it, or the task is about to look: no gap is left between the
\* subscription and the first look, or between a look and what is made of it.
THEOREM NewsIsNeverLost == SyncSafety => []StaleHasNews
<1>1. SyncInv => StaleHasNews
  BY DEF SyncInv, UpToDate, News, StaleHasNews, SyncTypeOK
<1> QED BY <1>1, SyncInvariant, PTL
===============================================================================
