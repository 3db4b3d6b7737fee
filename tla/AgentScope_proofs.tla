-------------------------- MODULE AgentScope_proofs --------------------------
(***************************************************************************)
(* Proofs about AgentScope, for any directories, requests and sessions.    *)
(***************************************************************************)
EXTENDS AgentScope, SequenceTheorems, TLAPS

-----------------------------------------------------------------------------
(* Ids that are joined with a dot.                                         *)

LEMMA Joined ==
  ASSUME NEW p \in Name, NEW n \in Name
  PROVE  /\ Dotted(p, n) \in Name
         /\ Len(Dotted(p, n)) = Len(p) + 1 + Len(n)
         /\ \A k \in 1..Len(p) : Dotted(p, n)[k] = p[k]
         /\ Dotted(p, n)[Len(p) + 1] = "."
         /\ \A k \in 1..Len(n) : Dotted(p, n)[Len(p) + 1 + k] = n[k]
<1> DEFINE start == p \o <<".">>
<1> HIDE DEF start
<1>1. <<".">> \in Seq(Chars) /\ Len(<<".">>) = 1 /\ <<".">>[1] = "."
  BY CharsAssumption
<1>2. p \in Seq(Chars) /\ n \in Seq(Chars) /\ Len(p) \in Nat /\ Len(n) \in Nat
  BY LenProperties DEF Name
<1>3. /\ start \in Seq(Chars) /\ Len(start) = Len(p) + 1
      /\ \A k \in 1..(Len(p) + 1) :
           start[k] = IF k <= Len(p) THEN p[k] ELSE <<".">>[k - Len(p)]
  BY <1>1, <1>2, ConcatProperties DEF start
<1>4. /\ start \o n \in Seq(Chars) /\ Len(start \o n) = Len(start) + Len(n)
      /\ \A k \in 1..(Len(start) + Len(n)) :
           (start \o n)[k] = IF k <= Len(start) THEN start[k] ELSE n[k - Len(start)]
  BY SMTT(40), <1>2, <1>3, ConcatProperties
<1>5. Dotted(p, n) = start \o n
  BY DEF Dotted, start
<1>6. /\ \A k \in 1..Len(p) : start[k] = p[k]
      /\ start[Len(p) + 1] = "."
  BY <1>1, <1>2, <1>3
<1>7. \A k \in 1..(Len(p) + 1) : Dotted(p, n)[k] = start[k]
  BY <1>2, <1>3, <1>4, <1>5
<1>8. \A k \in 1..Len(n) : Dotted(p, n)[Len(p) + 1 + k] = n[k]
  BY <1>2, <1>3, <1>4, <1>5
<1> QED
  BY SMTT(40), <1>2, <1>3, <1>4, <1>5, <1>6, <1>7, <1>8 DEF Name

\* The last dot is where the name begins, since the name has none: it is in the same place
\* in two equal ids.
LEMMA LastDot ==
  ASSUME NEW p \in Name, NEW q \in Name, NEW n \in SkillName, NEW m \in SkillName,
         Dotted(p, n) = Dotted(q, m)
  PROVE  ~(Len(p) < Len(q))
<1> SUFFICES ASSUME Len(p) < Len(q) PROVE FALSE
  OBVIOUS
<1>1. n \in Name /\ m \in Name
  BY DEF SkillName
<1>2. Len(p) \in Nat /\ Len(q) \in Nat /\ Len(n) \in Nat /\ Len(m) \in Nat
  BY <1>1, LenProperties DEF Name
<1> DEFINE k == Len(q) - Len(p)
<1>3. /\ Len(Dotted(p, n)) = Len(p) + 1 + Len(n)
      /\ \A j \in 1..Len(n) : Dotted(p, n)[Len(p) + 1 + j] = n[j]
  BY <1>1, Joined
<1>4. Len(Dotted(q, m)) = Len(q) + 1 + Len(m) /\ Dotted(q, m)[Len(q) + 1] = "."
  BY <1>1, Joined
<1>5. k \in 1..Len(n)
  BY <1>2, <1>3, <1>4
<1>6. Len(p) + 1 + k = Len(q) + 1
  BY <1>2
<1>7. n[k] = "."
  BY <1>3, <1>4, <1>5, <1>6
<1> QED
  BY <1>1, <1>2, <1>5, <1>7, LenProperties DEF SkillName, Name

LEMMA JoinInjective ==
  ASSUME NEW p \in Name, NEW q \in Name, NEW n \in SkillName, NEW m \in SkillName,
         Dotted(p, n) = Dotted(q, m)
  PROVE  p = q /\ n = m
<1>1. n \in Name /\ m \in Name
  BY DEF SkillName
<1>2. Len(p) \in Nat /\ Len(q) \in Nat /\ Len(n) \in Nat /\ Len(m) \in Nat
  BY <1>1, LenProperties DEF Name
<1>3. Len(p) = Len(q)
  BY <1>2, LastDot
<1> DEFINE Id(x, y) ==
      /\ Len(Dotted(x, y)) = Len(x) + 1 + Len(y)
      /\ \A k \in 1..Len(x) : Dotted(x, y)[k] = x[k]
      /\ \A k \in 1..Len(y) : Dotted(x, y)[Len(x) + 1 + k] = y[k]
<1>4. Id(p, n) /\ Id(q, m)
  BY <1>1, Joined
<1>5. Len(n) = Len(m) /\ \A k \in 1..Len(p) : p[k] = q[k]
  BY <1>2, <1>3, <1>4
<1>6. \A k \in 1..Len(n) : n[k] = m[k]
  <2> TAKE k \in 1..Len(n)
  <2>1. n[k] = Dotted(p, n)[Len(p) + 1 + k]
    BY <1>4
  <2>2. m[k] = Dotted(q, m)[Len(q) + 1 + k]
    BY <1>4, <1>5
  <2> QED
    BY <2>1, <2>2, <1>3
<1> QED
  BY <1>1, <1>3, <1>5, <1>6, SeqEqual DEF Name

LEMMA PrefixCancels ==
  ASSUME NEW p \in Name, NEW n \in Name, NEW m \in Name, Dotted(p, n) = Dotted(p, m)
  PROVE  n = m
<1>1. Len(p) \in Nat /\ Len(n) \in Nat /\ Len(m) \in Nat
  BY LenProperties DEF Name
<1>2. Len(n) = Len(m)
  BY SMTT(40), <1>1, Joined
<1>3. \A k \in 1..Len(n) : n[k] = m[k]
  <2>1. /\ \A k \in 1..Len(n) : Dotted(p, n)[Len(p) + 1 + k] = n[k]
        /\ \A k \in 1..Len(m) : Dotted(p, m)[Len(p) + 1 + k] = m[k]
    BY Joined
  <2> QED
    BY <1>2, <2>1
<1> QED
  BY <1>2, <1>3, SeqEqual DEF Name

LEMMA DottedHasDot ==
  ASSUME NEW p \in Name, NEW n \in Name
  PROVE  Dotted(p, n) \notin SkillName
<1>1. Len(p) \in Nat /\ Len(n) \in Nat
  BY LenProperties DEF Name
<1>2. Len(Dotted(p, n)) = Len(p) + 1 + Len(n) /\ Dotted(p, n)[Len(p) + 1] = "."
  BY Joined
<1>3. DOMAIN Dotted(p, n) = 1..Len(Dotted(p, n))
  BY Joined, LenProperties DEF Name
<1> QED
  BY <1>1, <1>2, <1>3 DEF SkillName

-----------------------------------------------------------------------------
(* The type invariant.                                                     *)

LEMMA EmptyTypes ==
  /\ NoSet \in ResourceSet /\ NoPlugins \in Making
  /\ Idle \in Request /\ NoSession \in Session
<1>1. <<>> \in Name
  BY DEF Name
<1>3. NoSet \in ResourceSet /\ NoPlugins \in Making
  BY DEF NoSet, ResourceSet, NoPlugins, Making, Loaded
<1>4. NoSession \in Session
  BY <1>1 DEF NoSession, Session
<1> QED
  BY <1>3, <1>4 DEF Idle, Request

Proxy == [id: Name, rank: Nat, entry: Entry]

LEMMA EntryTypes ==
  ASSUME NEW s \in Scopes, NEW c \in Contents, NEW plugins \in Loaded
  PROVE  Collected(OwnEntries(s, c.own) \cup PluginEntries(s, plugins)) \subseteq Proxy
<1>1. ASSUME NEW x \in c.own.servers
      PROVE  [id |-> x.name, rank |-> 0,
              entry |-> [scope |-> s, owner |-> <<>>, name |-> x.name, how |-> x.how]] \in Proxy
  <2>1. x.name \in Name /\ x.how \in Transports
    BY ContentsAssumption DEF IsMap
  <2>2. <<>> \in Name
    BY DEF Name
  <2> QED
    BY <2>1, <2>2 DEF Proxy, Entry
<1>2. OwnEntries(s, c.own) \subseteq Proxy
  BY <1>1 DEF OwnEntries
<1>3. ASSUME NEW p \in plugins, NEW x \in p.servers
      PROVE  /\ Dotted(p.id, x.name) \in Name /\ p.rank \in Nat
             /\ p.id \in Name /\ x.name \in Name /\ x.how \in Transports
  <2>1. PICK d \in Contents : p \in d.plugins
    BY DEF Loaded
  <2>2. p.id \in Name /\ p.rank \in Nat /\ x.name \in Name /\ x.how \in Transports
    BY <2>1, ContentsAssumption DEF IsMap
  <2> QED
    BY <2>2, Joined
<1>4. ASSUME NEW p \in plugins, NEW x \in p.servers
      PROVE  [id |-> Dotted(p.id, x.name), rank |-> p.rank,
              entry |-> [scope |-> s, owner |-> p.id, name |-> x.name, how |-> x.how]] \in Proxy
  BY <1>3 DEF Proxy, Entry
<1>5. PluginEntries(s, plugins) \subseteq Proxy
  BY <1>4 DEF PluginEntries
<1> QED
  BY <1>2, <1>5 DEF Collected

LEMMA TypesHold == TypeOK /\ [Next]_vars => TypeOK'
<1> SUFFICES ASSUME TypeOK, [Next]_vars PROVE TypeOK'
  OBVIOUS
<1> USE DEF TypeOK
<1>1. ASSUME NEW s \in Scopes, LoadPlugins(s) PROVE TypeOK'
  <2>1. disk[s].plugins \in Loaded
    BY DEF Loaded
  <2> QED
    BY <1>1, <2>1, EmptyTypes DEF LoadPlugins, Making
<1>2. ASSUME NEW s \in Scopes, LoadMcp(s) PROVE TypeOK'
  <2>1. making[s].gen \in Nat /\ making[s].plugins \in Loaded /\ disk[s] \in Contents
    BY DEF Making
  <2>2. Collected(OwnEntries(s, disk[s].own) \cup PluginEntries(s, making[s].plugins)) \subseteq Proxy
    BY <2>1, EntryTypes
  <2>3. held'[s] \in ResourceSet
    BY <1>2, <2>1, <2>2, EmptyTypes DEF LoadMcp, ResourceSet, Proxy
  <2> QED
    BY <1>2, <2>3, EmptyTypes DEF LoadMcp
<1>3. ASSUME NEW s \in Scopes, Release(s) \/ Edit(s) PROVE TypeOK'
  BY <1>3, EmptyTypes DEF Release, Edit
<1>4. ASSUME NEW r \in Requests,
             ExtractScoped(r) \/ ExtractGlobal(r) \/ AnswerRead(r)
      PROVE  TypeOK'
  <2>1. CASE ExtractScoped(r)
    <3>1. [Idle EXCEPT !.at = "scoped", !.sets["workspace"] = held["workspace"]] \in Request
      BY EmptyTypes DEF Request, Scopes, Idle
    <3> QED
      BY <2>1, <3>1 DEF ExtractScoped
  <2>2. CASE ExtractGlobal(r)
    <3>1. [reqs[r].sets EXCEPT !["global"] = held["global"]] \in [Scopes -> ResourceSet]
      BY DEF Request, Scopes
    <3>2. PICK mount \in Mounts :
            \/ reqs' = [reqs EXCEPT ![r] = Idle]
            \/ reqs' = [reqs EXCEPT ![r] =
                 [@ EXCEPT !.at = mount, !.sets = [reqs[r].sets EXCEPT !["global"] = held["global"]]]]
      BY <2>2 DEF ExtractGlobal
    <3>3. reqs'[r] \in Request
      <4> DEFINE sets == [reqs[r].sets EXCEPT !["global"] = held["global"]]
      <4>1. [reqs[r] EXCEPT !.at = mount, !.sets = sets] \in Request
        BY <3>1 DEF Request
      <4>2. reqs'[r] \in {Idle, [reqs[r] EXCEPT !.at = mount, !.sets = sets]}
        BY <3>2
      <4> QED
        BY <4>1, <4>2, EmptyTypes
    <3> QED
      BY <2>2, <3>2, <3>3 DEF ExtractGlobal
  <2>3. CASE AnswerRead(r)
    BY <2>3, EmptyTypes DEF AnswerRead, Answer, Still
  <2> QED
    BY <1>4, <2>1, <2>2, <2>3
<1>5. ASSUME NEW r \in Requests, Connect(r) \/ ConnectFails(r) PROVE TypeOK'
  <2>1. reqs' \in [Requests -> Request]
    BY <1>5, EmptyTypes DEF Connect, ConnectFails, Answer
  <2>2. sess' \in [Sessions -> Session]
    <3>1. CASE Connect(r)
      <4>1. PICK i \in reqs[r].session :
              sess' = [sess EXCEPT ![i] =
                IF @.at # "open" THEN @
                ELSE IF @.cell = "empty"
                     THEN [@ EXCEPT !.cell = "live", !.upstream = sess[i].entry, !.told = sess[i].entry]
                     ELSE [@ EXCEPT !.told = sess[i].upstream]]
        BY <3>1 DEF Connect
      <4>2. i \in Sessions
        BY DEF Request
      <4>3. sess[i] \in Session
        BY <4>2
      <4>4. CASE sess[i].at # "open"
        BY <4>1, <4>2, <4>4
      <4>5. CASE sess[i].at = "open" /\ sess[i].cell = "empty"
        <5>1. [sess[i] EXCEPT !.cell = "live", !.upstream = sess[i].entry,
                              !.told = sess[i].entry] \in Session
          BY <4>3 DEF Session
        <5> QED
          BY <4>1, <4>2, <4>5, <5>1
      <4>6. CASE sess[i].at = "open" /\ sess[i].cell # "empty"
        <5>1. [sess[i] EXCEPT !.told = sess[i].upstream] \in Session
          BY <4>3 DEF Session
        <5> QED
          BY <4>1, <4>2, <4>6, <5>1
      <4> QED
        BY <4>4, <4>5, <4>6
    <3>2. CASE ConnectFails(r)
      BY <3>2, EmptyTypes DEF ConnectFails, Request
    <3> QED
      BY <1>5, <3>1, <3>2
  <2> QED
    BY <1>5, <2>1, <2>2 DEF Connect, ConnectFails, Still
<1>6. ASSUME NEW r \in Requests, NEW i \in Sessions, NEW id \in Asked,
             Open(r, id, i) \/ Again(r, id, i) \/ Call(r, id, i) \/ CloseSession(r, id, i)
      PROVE  TypeOK'
  <2> DEFINE All == reqs[r].sets["global"].proxies \cup reqs[r].sets["workspace"].proxies
  <2>1. All \subseteq Proxy /\ Found(r, id) \subseteq {e \in All : e.id = id}
    BY ZenonT(60) DEF Request, ResourceSet, Scopes, Proxy, Found, McpGet, FirstOf
  <2>2. \A e \in Found(r, id) : e.entry \in Entry /\ id \in Name
    BY <2>1 DEF Proxy
  <2>3. [reqs[r] EXCEPT !.at = "connecting", !.session = {i}] \in Request
    BY DEF Request
  <2>4. CASE Open(r, id, i)
    <3>1. PICK e \in Found(r, id) :
            sess' = [sess EXCEPT ![i] = [NoSession EXCEPT !.at = "open", !.id = id, !.entry = e.entry,
                                           !.gen = reqs[r].sets[e.entry.scope].gen]]
      BY <2>4 DEF Open
    <3>2. e.entry \in Entry /\ id \in Name /\ reqs[r] \in Request
      BY <2>2
    <3>3. reqs[r].sets[e.entry.scope].gen \in Nat
      BY <3>2 DEF Entry, Request, ResourceSet
    <3>4. [NoSession EXCEPT !.at = "open", !.id = id, !.entry = e.entry,
                            !.gen = reqs[r].sets[e.entry.scope].gen] \in Session
      BY <3>2, <3>3, EmptyTypes DEF Session
    <3> QED
      BY <2>3, <2>4, <3>1, <3>4 DEF Open, Still
  <2>5. CASE Again(r, id, i)
    BY <2>3, <2>5 DEF Again, Still
  <2>6. CASE Call(r, id, i)
    <3>1. sess' \in [Sessions -> Session]
      <4>1. CASE UNCHANGED sess
        BY <4>1
      <4>2. CASE \E e \in Found(r, id) :
                   sess' = [sess EXCEPT ![i].answers = @ \cup {<<e.entry, sess[i].upstream>>}]
        <5>1. PICK e \in Found(r, id) :
                sess' = [sess EXCEPT ![i].answers = @ \cup {<<e.entry, sess[i].upstream>>}]
          BY <4>2
        <5>2. e.entry \in Entry /\ sess[i] \in Session
          BY <2>2
        <5>3. [sess[i] EXCEPT !.answers = @ \cup {<<e.entry, sess[i].upstream>>}] \in Session
          BY <5>2 DEF Session
        <5> QED
          BY <5>1, <5>3
      <4> QED
        BY <2>6, <4>1, <4>2 DEF Call
    <3> QED
      BY <2>6, <3>1, EmptyTypes DEF Call, Answer, Still
  <2>7. CASE CloseSession(r, id, i)
    BY <2>7, EmptyTypes DEF CloseSession, Answer, Still
  <2> QED
    BY <1>6, <2>4, <2>5, <2>6, <2>7
<1>7. ASSUME NEW i \in Sessions, UpstreamDies(i) \/ Cancelled(i) PROVE TypeOK'
  BY SMTT(40), <1>7, EmptyTypes DEF UpstreamDies, Cancelled, Still, Session
<1>8. ASSUME UNCHANGED vars PROVE TypeOK'
  BY <1>8 DEF vars
<1> QED
  BY <1>1, <1>2, <1>3, <1>4, <1>5, <1>6, <1>7, <1>8 DEF Next

-----------------------------------------------------------------------------
(* The inductive invariant.                                                *)

\* The resources of a scope that somebody has, and those that hold nothing.
Sets(s) == {NoSet, held[s]} \cup {reqs[r].sets[s] : r \in Requests}

Once(es) == \A e, f \in es : e.id = f.id => e = f

\* Resources are made from a directory, each entry in them has an id of its own.
Whole(s, a) ==
  /\ a # NoSet => a.scope = s /\ a.gen \in 1..builds
  /\ \E c \in Contents : a.plugins \subseteq c.plugins
  /\ Once(a.proxies) /\ \A e \in a.proxies : e.entry.scope = s

SetsWhole == \A s \in Scopes : \A a \in Sets(s) : Whole(s, a)

\* A generation names the resources of a scope.
GensName == \A s \in Scopes : \A a, b \in Sets(s) : a.gen = b.gen => a = b

\* Those that are being made have one that nobody has.
MakingIsFresh ==
  \A s \in Scopes : making[s].made =>
    /\ making[s].gen \in 1..builds
    /\ \E c \in Contents : making[s].plugins \subseteq c.plugins
    /\ \A a \in Sets(s) : a.gen # making[s].gen
    /\ \A i \in Sessions :
         sess[i].at = "open" /\ sess[i].entry.scope = s => sess[i].gen # making[s].gen

\* The resources a session was opened in have its entry under its id.
Routes(i) ==
  sess[i].at = "open" =>
    /\ sess[i].entry.scope \in Scopes /\ sess[i].gen \in 1..builds
    /\ \A a \in Sets(sess[i].entry.scope) : a.gen = sess[i].gen =>
         \A e \in a.proxies : e.id = sess[i].id => e.entry = sess[i].entry

Faithful(x) ==
  /\ x.cell # "empty" => x.upstream = x.entry
  /\ x.cell = "empty" => x.answers = {} /\ x.told = NoEntry
  /\ x.answers \subseteq {<<x.entry, x.entry>>}
  /\ x.told \in {NoEntry, x.entry}

ScopeInv ==
  /\ TypeOK /\ SetsWhole /\ GensName /\ MakingIsFresh
  /\ \A i \in Sessions : Routes(i) /\ Faithful(sess[i])

LEMMA NoSetHasNothing == NoSet.gen = 0 /\ NoSet.proxies = {} /\ NoSet.plugins = {}
  BY DEF NoSet

LEMMA NoSetIsWhole ==
  ASSUME NEW s \in Scopes, TypeOK PROVE Whole(s, NoSet)
<1>1. disk[s] \in Contents
  BY DEF TypeOK
<1> QED
  BY <1>1 DEF Whole, NoSet, Once

LEMMA NewSession == Faithful(NoSession) /\ NoSession.at = "free"
  BY DEF Faithful, NoSession

LEMMA InvInit == Init => ScopeInv
<1> SUFFICES ASSUME Init PROVE ScopeInv
  OBVIOUS
<1>1. TypeOK
  BY EmptyTypes DEF Init, TypeOK
<1>2. \A s \in Scopes : Sets(s) = {NoSet}
  BY DEF Init, Sets, Idle
<1>3. \A s \in Scopes : ~making[s].made
  BY DEF Init, NoPlugins
<1>4. \A i \in Sessions : sess[i] = NoSession
  BY DEF Init
<1>5. SetsWhole
  BY <1>1, <1>2, NoSetIsWhole DEF SetsWhole
<1>6. GensName
  BY <1>2 DEF GensName
<1>7. MakingIsFresh
  BY <1>3 DEF MakingIsFresh
<1>8. \A i \in Sessions : Routes(i) /\ Faithful(sess[i])
  BY <1>4, NewSession DEF Routes
<1> QED
  BY <1>1, <1>5, <1>6, <1>7, <1>8 DEF ScopeInv

\* A step that gives nobody new resources, and leaves every session what it was opened for
\* or ends it.
LEMMA NothingNew ==
  ASSUME ScopeInv, TypeOK', UNCHANGED <<making, builds>>,
         \A s \in Scopes : Sets(s)' \subseteq Sets(s),
         \A i \in Sessions :
           /\ Faithful(sess'[i])
           /\ \/ sess'[i].at = "free"
              \/ /\ sess'[i].at = sess[i].at /\ sess'[i].gen = sess[i].gen
                 /\ sess'[i].id = sess[i].id /\ sess'[i].entry = sess[i].entry
  PROVE  ScopeInv'
<1>1. SetsWhole'
  <2> SUFFICES ASSUME NEW s \in Scopes, NEW a \in Sets(s)' PROVE Whole(s, a)'
    BY DEF SetsWhole
  <2>1. Whole(s, a)
    BY DEF ScopeInv, SetsWhole
  <2> QED
    BY <2>1 DEF Whole
<1>2. GensName'
  BY DEF ScopeInv, GensName
<1>3. MakingIsFresh'
  <2> SUFFICES ASSUME NEW s \in Scopes, making[s].made
               PROVE  /\ making[s].gen \in 1..builds
                      /\ \E c \in Contents : making[s].plugins \subseteq c.plugins
                      /\ \A a \in Sets(s)' : a.gen # making[s].gen
                      /\ \A i \in Sessions :
                           sess'[i].at = "open" /\ sess'[i].entry.scope = s =>
                             sess'[i].gen # making[s].gen
    BY DEF MakingIsFresh
  <2> QED
    BY DEF ScopeInv, MakingIsFresh
<1>4. ASSUME NEW i \in Sessions PROVE Routes(i)'
  <2> SUFFICES ASSUME sess'[i].at = "open" PROVE Routes(i)'
    BY DEF Routes
  <2>1. /\ sess[i].at = "open" /\ sess'[i].gen = sess[i].gen
        /\ sess'[i].id = sess[i].id /\ sess'[i].entry = sess[i].entry
    OBVIOUS
  <2>2. Routes(i)
    BY DEF ScopeInv
  <2> QED
    BY <2>1, <2>2 DEF Routes
<1> QED
  BY <1>1, <1>2, <1>3, <1>4 DEF ScopeInv

\* What is collected of a scope's own entries and those of its plugins has every id once.
LEMMA CollectedOnce ==
  ASSUME NEW s \in Scopes, NEW c \in Contents, NEW d \in Contents,
         NEW plugins, plugins \subseteq d.plugins
  PROVE  LET es == Collected(OwnEntries(s, c.own) \cup PluginEntries(s, plugins))
         IN  Once(es) /\ \A e \in es : e.entry.scope = s
<1> DEFINE own == OwnEntries(s, c.own)
           of == PluginEntries(s, plugins)
<1>1. \A e \in own : /\ e.rank = 0 /\ e.entry.scope = s
                     /\ \E x \in c.own.servers :
                          /\ e.id = x.name
                          /\ e = [id |-> x.name, rank |-> 0,
                                  entry |-> [scope |-> s, owner |-> <<>>, name |-> x.name,
                                             how |-> x.how]]
  BY DEF OwnEntries
<1>2. \A e \in of : \E p \in plugins : \E x \in p.servers :
        e = [id |-> Dotted(p.id, x.name), rank |-> p.rank,
             entry |-> [scope |-> s, owner |-> p.id, name |-> x.name, how |-> x.how]]
  BY DEF PluginEntries
<1>3. \A p \in plugins : p.id \in Name /\ p.rank \in Nat \ {0} /\ IsMap(p.servers)
  BY ContentsAssumption
<1>4. \A e \in of : e.rank \in Nat \ {0} /\ e.entry.scope = s
  BY <1>2, <1>3
<1> HIDE DEF own, of
<1>5. ASSUME NEW e \in Collected(own \cup of), NEW f \in Collected(own \cup of), e.id = f.id
      PROVE  e = f
  <2>1. e \in own \cup of /\ f \in own \cup of /\ e.rank = f.rank
    <3>1. e.rank \in Nat /\ f.rank \in Nat /\ e.rank <= f.rank /\ f.rank <= e.rank
      BY <1>1, <1>4, <1>5 DEF Collected
    <3> QED
      BY <3>1 DEF Collected
  <2>2. CASE e \in own
    <3>1. f \in own
      BY <1>1, <1>4, <2>1, <2>2
    <3>2. PICK x \in c.own.servers :
            e = [id |-> x.name, rank |-> 0,
                 entry |-> [scope |-> s, owner |-> <<>>, name |-> x.name, how |-> x.how]]
      BY <1>1, <2>2
    <3>3. PICK y \in c.own.servers :
            f = [id |-> y.name, rank |-> 0,
                 entry |-> [scope |-> s, owner |-> <<>>, name |-> y.name, how |-> y.how]]
      BY <1>1, <3>1
    <3>4. x.name = y.name
      BY <1>5, <3>2, <3>3
    <3>5. x = y
      BY <3>4, ContentsAssumption DEF IsMap
    <3> QED
      BY <3>2, <3>3, <3>5
  <2>3. CASE e \in of
    <3>1. f \in of
      BY <1>1, <1>4, <2>1, <2>3
    <3>2a. PICK p \in plugins : \E x \in p.servers :
            e = [id |-> Dotted(p.id, x.name), rank |-> p.rank,
                 entry |-> [scope |-> s, owner |-> p.id, name |-> x.name, how |-> x.how]]
      BY <1>2, <2>3
    <3>2. PICK x \in p.servers :
            e = [id |-> Dotted(p.id, x.name), rank |-> p.rank,
                 entry |-> [scope |-> s, owner |-> p.id, name |-> x.name, how |-> x.how]]
      BY <3>2a
    <3>3a. PICK q \in plugins : \E y \in q.servers :
            f = [id |-> Dotted(q.id, y.name), rank |-> q.rank,
                 entry |-> [scope |-> s, owner |-> q.id, name |-> y.name, how |-> y.how]]
      BY <1>2, <3>1
    <3>3. PICK y \in q.servers :
            f = [id |-> Dotted(q.id, y.name), rank |-> q.rank,
                 entry |-> [scope |-> s, owner |-> q.id, name |-> y.name, how |-> y.how]]
      BY <3>3a
    <3>4. p = q
      BY <2>1, <3>2, <3>3, ContentsAssumption
    <3>5. x.name \in Name /\ y.name \in Name
      BY <1>3, <3>2, <3>3 DEF IsMap
    <3>6. x.name = y.name
      BY <1>3, <1>5, <3>2, <3>3, <3>4, <3>5, PrefixCancels
    <3>7. x = y
      BY <1>3, <3>4, <3>6 DEF IsMap
    <3> QED
      BY <3>2, <3>3, <3>4, <3>7
  <2> QED
    BY <2>1, <2>2, <2>3
<1>6. \A e \in Collected(own \cup of) : e.entry.scope = s
  BY <1>1, <1>4 DEF Collected
<1> QED
  BY <1>5, <1>6 DEF Once, own, of

\* A request finds what is in the resources it keeps, under the id it asks for.
LEMMA FoundIsHeld ==
  ASSUME ScopeInv, NEW r \in Requests, NEW id, NEW e \in Found(r, id)
  PROVE  /\ e.id = id /\ e.entry.scope \in Scopes /\ e.entry \in Entry
         /\ reqs[r].sets[e.entry.scope] \in Sets(e.entry.scope)
         /\ e \in reqs[r].sets[e.entry.scope].proxies
<1>1. \E s \in Scopes : e \in reqs[r].sets[s].proxies /\ e.id = id
  BY DEF Found, McpGet, FirstOf, Scopes
<1>2. PICK s \in Scopes : e \in reqs[r].sets[s].proxies /\ e.id = id
  BY <1>1
<1>3. reqs[r].sets[s] \in Sets(s)
  BY DEF Sets
<1>4. Whole(s, reqs[r].sets[s])
  BY <1>3 DEF ScopeInv, SetsWhole
<1>5. e.entry \in Entry
  <2>1. reqs[r] \in Request
    BY DEF ScopeInv, TypeOK
  <2>2. reqs[r].sets[s] \in ResourceSet
    BY <2>1 DEF Request
  <2> QED
    BY <1>2, <2>2 DEF ResourceSet
<1> QED
  BY <1>2, <1>3, <1>4, <1>5 DEF Whole

\* New resources get a generation that nobody has.
LEMMA LoadPluginsKeeps ==
  ASSUME ScopeInv, TypeOK', NEW s \in Scopes, LoadPlugins(s)
  PROVE  ScopeInv'
<1>1. /\ builds' = builds + 1 /\ builds \in Nat
      /\ UNCHANGED <<disk, held, edits, reqs, sess>>
      /\ making' = IF AllSound(disk[s].plugins)
                   THEN [making EXCEPT ![s] = [made |-> TRUE, gen |-> builds',
                                               plugins |-> disk[s].plugins]]
                   ELSE making
  BY DEF LoadPlugins, ScopeInv, TypeOK
<1>2. \A t \in Scopes : Sets(t)' = Sets(t)
  BY <1>1 DEF Sets
<1>3. \A t \in Scopes : \A a \in Sets(t) : Whole(t, a)' /\ a.gen # builds + 1
  <2> SUFFICES ASSUME NEW t \in Scopes, NEW a \in Sets(t)
               PROVE  Whole(t, a)' /\ a.gen # builds + 1
    OBVIOUS
  <2>1. Whole(t, a)
    BY DEF ScopeInv, SetsWhole
  <2>2. a = NoSet => a.gen = 0
    BY NoSetHasNothing
  <2>3. a # NoSet => a.gen \in 1..builds /\ a.gen \in 1..(builds + 1)
    BY <1>1, <2>1 DEF Whole
  <2>4. Whole(t, a)'
    BY <1>1, <2>1, <2>3 DEF Whole
  <2> QED
    BY <1>1, <2>2, <2>3, <2>4
<1>4. SetsWhole' /\ GensName'
  BY <1>2, <1>3 DEF SetsWhole, GensName, ScopeInv
<1>5. \A i \in Sessions : Routes(i)' /\ (sess[i].at = "open" => sess[i].gen # builds + 1)
  BY <1>1, <1>2 DEF ScopeInv, Routes
<1>6. MakingIsFresh'
  <2> SUFFICES ASSUME NEW t \in Scopes, making'[t].made
               PROVE  /\ making'[t].gen \in 1..(builds + 1)
                      /\ \E c \in Contents : making'[t].plugins \subseteq c.plugins
                      /\ \A a \in Sets(t) : a.gen # making'[t].gen
                      /\ \A i \in Sessions :
                           sess[i].at = "open" /\ sess[i].entry.scope = t =>
                             sess[i].gen # making'[t].gen
    BY <1>1, <1>2 DEF MakingIsFresh
  <2>1. CASE making'[t] = making[t]
    BY <1>1, <2>1 DEF ScopeInv, MakingIsFresh
  <2>2. CASE making'[t] # making[t]
    <3>1. making'[t].gen = builds + 1 /\ making'[t].plugins = disk[t].plugins
      BY <1>1, <2>2 DEF ScopeInv, TypeOK
    <3>2. disk[t] \in Contents
      BY DEF ScopeInv, TypeOK
    <3> QED
      BY <1>1, <1>3, <1>5, <3>1, <3>2
  <2> QED
    BY <2>1, <2>2
<1> QED
  BY <1>1, <1>4, <1>5, <1>6 DEF ScopeInv

LEMMA LoadMcpKeeps ==
  ASSUME ScopeInv, TypeOK', NEW s \in Scopes, LoadMcp(s)
  PROVE  ScopeInv'
<1>1. /\ UNCHANGED <<disk, builds, edits, reqs, sess>>
      /\ making[s].made /\ making' = [making EXCEPT ![s] = NoPlugins]
      /\ \A t \in Scopes : t # s => held'[t] = held[t] /\ making'[t] = making[t]
      /\ ~making'[s].made
  BY DEF LoadMcp, ScopeInv, TypeOK, NoPlugins
<1>2. \/ held'[s] = NoSet
      \/ /\ held'[s].scope = s /\ held'[s].gen = making[s].gen
         /\ held'[s].plugins = making[s].plugins
         /\ held'[s].proxies = Collected(OwnEntries(s, disk[s].own)
                                         \cup PluginEntries(s, making[s].plugins))
  BY DEF LoadMcp, ScopeInv, TypeOK
<1>3. /\ making[s].gen \in 1..builds
      /\ \E c \in Contents : making[s].plugins \subseteq c.plugins
      /\ \A a \in Sets(s) : a.gen # making[s].gen
      /\ \A i \in Sessions :
           sess[i].at = "open" /\ sess[i].entry.scope = s => sess[i].gen # making[s].gen
  BY <1>1 DEF ScopeInv, MakingIsFresh
<1>4. /\ \A t \in Scopes : t # s => Sets(t)' = Sets(t)
      /\ Sets(s)' \subseteq Sets(s) \cup {held'[s]}
  BY <1>1 DEF Sets
<1>5. Whole(s, held'[s])
  <2>1. CASE held'[s] = NoSet
    BY <2>1, NoSetIsWhole DEF ScopeInv
  <2>2. CASE held'[s] # NoSet
    <3>1. disk[s] \in Contents
      BY DEF ScopeInv, TypeOK
    <3>2. PICK d \in Contents : making[s].plugins \subseteq d.plugins
      BY <1>3
    <3> QED
      BY <1>2, <1>3, <2>2, <3>1, <3>2, CollectedOnce DEF Whole
  <2> QED
    BY <2>1, <2>2
<1>6. SetsWhole'
  <2> SUFFICES ASSUME NEW t \in Scopes, NEW a \in Sets(t)' PROVE Whole(t, a)'
    BY DEF SetsWhole
  <2>1. Whole(t, a)
    BY <1>4, <1>5 DEF ScopeInv, SetsWhole
  <2> QED
    BY <1>1, <2>1 DEF Whole
<1>7. held'[s] \in Sets(s) \/ (held'[s].gen = making[s].gen)
  BY <1>2 DEF Sets
<1>8. GensName'
  <2> SUFFICES ASSUME NEW t \in Scopes, NEW a \in Sets(t)', NEW b \in Sets(t)', a.gen = b.gen
               PROVE  a = b
    BY DEF GensName
  <2> QED
    BY <1>3, <1>4, <1>7 DEF ScopeInv, GensName
<1>9. MakingIsFresh'
  <2> SUFFICES ASSUME NEW t \in Scopes, t # s, making[t].made
               PROVE  /\ making[t].gen \in 1..builds
                      /\ \E c \in Contents : making[t].plugins \subseteq c.plugins
                      /\ \A a \in Sets(t) : a.gen # making[t].gen
                      /\ \A i \in Sessions :
                           sess[i].at = "open" /\ sess[i].entry.scope = t =>
                             sess[i].gen # making[t].gen
    BY <1>1, <1>4 DEF MakingIsFresh
  <2> QED
    BY DEF ScopeInv, MakingIsFresh
<1>10. ASSUME NEW i \in Sessions PROVE Routes(i)'
  <2>1. Routes(i)
    BY DEF ScopeInv
  <2> SUFFICES ASSUME sess[i].at = "open",
                      NEW a \in Sets(sess[i].entry.scope)', a.gen = sess[i].gen,
                      NEW e \in a.proxies, e.id = sess[i].id
               PROVE  e.entry = sess[i].entry
    BY <1>1, <2>1 DEF Routes
  <2>2. sess[i].entry.scope \in Scopes
    BY <2>1 DEF Routes
  <2>3. a \in Sets(sess[i].entry.scope)
    <3>1. CASE sess[i].entry.scope # s
      BY <1>1, <1>4, <2>2, <3>1
    <3>2. CASE sess[i].entry.scope = s
      <4>1. a \in Sets(s) \cup {held'[s]} /\ a.gen # making[s].gen
        BY <1>1, <1>3, <1>4, <3>2
      <4> QED
        BY <1>7, <3>2, <4>1
    <3> QED
      BY <3>1, <3>2
  <2> QED
    BY <2>1, <2>3 DEF Routes
<1> QED
  BY <1>1, <1>6, <1>8, <1>9, <1>10 DEF ScopeInv

LEMMA OpenKeeps ==
  ASSUME ScopeInv, TypeOK', NEW r \in Requests, NEW id, NEW i \in Sessions, Open(r, id, i)
  PROVE  ScopeInv'
<1>1. PICK e \in Found(r, id) :
        sess' = [sess EXCEPT ![i] = [NoSession EXCEPT !.at = "open", !.id = id, !.entry = e.entry,
                                       !.gen = reqs[r].sets[e.entry.scope].gen]]
  BY DEF Open
<1> DEFINE a0 == reqs[r].sets[e.entry.scope]
           new == sess'[i]
<1>2. /\ e.id = id /\ e.entry.scope \in Scopes /\ e.entry \in Entry
      /\ a0 \in Sets(e.entry.scope) /\ e \in a0.proxies
  BY FoundIsHeld
<1>3. /\ new.at = "open" /\ new.id = id /\ new.entry = e.entry /\ new.gen = a0.gen
      /\ new.cell = "empty" /\ new.told = NoEntry /\ new.answers = {}
      /\ \A j \in Sessions : j # i => sess'[j] = sess[j]
  BY <1>1 DEF ScopeInv, TypeOK, NoSession
<1>4. UNCHANGED <<disk, held, making, builds, edits>>
  BY DEF Open, Still
<1>5. \A s \in Scopes : Sets(s)' = Sets(s)
  <2>1. \A q \in Requests : reqs'[q].sets = reqs[q].sets
    BY DEF Open, ScopeInv, TypeOK, Request
  <2> QED
    BY <1>4, <2>1 DEF Sets
<1>6. Whole(e.entry.scope, a0) /\ a0 # NoSet
  BY <1>2, NoSetHasNothing DEF ScopeInv, SetsWhole
<1>7. SetsWhole' /\ GensName'
  <2>1. \A s \in Scopes : \A a \in Sets(s) : Whole(s, a)'
    <3> SUFFICES ASSUME NEW s \in Scopes, NEW a \in Sets(s) PROVE Whole(s, a)'
      OBVIOUS
    <3>1. Whole(s, a)
      BY DEF ScopeInv, SetsWhole
    <3> QED
      BY <1>4, <3>1 DEF Whole
  <2> QED
    BY <1>5, <2>1 DEF ScopeInv, SetsWhole, GensName
<1>8. MakingIsFresh'
  <2> SUFFICES ASSUME NEW s \in Scopes, making[s].made
               PROVE  /\ making[s].gen \in 1..builds
                      /\ \E c \in Contents : making[s].plugins \subseteq c.plugins
                      /\ \A a \in Sets(s) : a.gen # making[s].gen
                      /\ \A j \in Sessions :
                           sess'[j].at = "open" /\ sess'[j].entry.scope = s =>
                             sess'[j].gen # making[s].gen
    BY <1>4, <1>5 DEF MakingIsFresh
  <2>1. /\ \A a \in Sets(s) : a.gen # making[s].gen
        /\ \A j \in Sessions :
             sess[j].at = "open" /\ sess[j].entry.scope = s => sess[j].gen # making[s].gen
    BY DEF ScopeInv, MakingIsFresh
  <2>2. new.entry.scope = s => new.gen # making[s].gen
    BY <1>2, <1>3, <2>1
  <2> QED
    BY <1>3, <2>1, <2>2 DEF ScopeInv, MakingIsFresh
<1>9. ASSUME NEW j \in Sessions PROVE Routes(j)' /\ Faithful(sess'[j])
  <2>1. CASE j # i
    BY SMTT(40), <1>3, <1>4, <1>5, <2>1 DEF ScopeInv, Routes
  <2>2. CASE j = i
    <3>1. \A a \in Sets(e.entry.scope) : a.gen = a0.gen => \A f \in a.proxies : f.id = id => f = e
      <4> SUFFICES ASSUME NEW a \in Sets(e.entry.scope), a.gen = a0.gen,
                          NEW f \in a.proxies, f.id = id
                   PROVE  f = e
        OBVIOUS
      <4>1. a = a0
        BY SMTT(40), <1>2 DEF ScopeInv, GensName
      <4> QED
        BY <1>2, <1>6, <4>1 DEF Whole, Once
    <3>2. Routes(i)'
      <4>1. a0.gen \in 1..builds
        BY <1>6 DEF Whole
      <4>2. /\ sess'[i].at = "open" /\ sess'[i].gen = a0.gen /\ sess'[i].id = id
            /\ sess'[i].entry = e.entry /\ builds' = builds
            /\ Sets(e.entry.scope)' = Sets(e.entry.scope)
        BY <1>2, <1>3, <1>4, <1>5
      <4> HIDE DEF a0
      <4> QED
        BY SMTT(40), <1>2, <3>1, <4>1, <4>2 DEF Routes
    <3>3. Faithful(new)
      BY <1>3 DEF Faithful
    <3> QED
      BY <2>2, <3>2, <3>3
  <2> QED
    BY <2>1, <2>2
<1> QED
  BY <1>7, <1>8, <1>9 DEF ScopeInv

\* What answers a call is what its session was opened for: the resources that know the
\* session are those it was opened in.
LEMMA CallKeeps ==
  ASSUME ScopeInv, TypeOK', NEW r \in Requests, NEW id, NEW i \in Sessions, Call(r, id, i)
  PROVE  ScopeInv'
<1>1. UNCHANGED <<making, builds, held>>
  BY DEF Call, Still
<1>2. \A s \in Scopes : Sets(s)' \subseteq Sets(s)
  <2>1. \A q \in Requests : \A s \in Scopes : reqs'[q].sets[s] \in {reqs[q].sets[s], NoSet}
    BY DEF Call, Answer, Idle, ScopeInv, TypeOK
  <2> QED
    BY <1>1, <2>1 DEF Sets
<1>3. ASSUME NEW j \in Sessions
      PROVE  /\ Faithful(sess'[j])
             /\ sess'[j].at = sess[j].at /\ sess'[j].gen = sess[j].gen
             /\ sess'[j].id = sess[j].id /\ sess'[j].entry = sess[j].entry
  <2>1. Faithful(sess[j]) /\ sess[j] \in Session
    BY DEF ScopeInv, TypeOK
  <2>2. CASE sess'[j] = sess[j]
    BY <2>1, <2>2
  <2>3. CASE sess'[j] # sess[j]
    <3>1. PICK e \in Found(r, id) :
            /\ sess[i].cell = "live" /\ Knows(r, e, i)
            /\ sess' = [sess EXCEPT ![i].answers = @ \cup {<<e.entry, sess[i].upstream>>}]
      BY <2>3 DEF Call
    <3>2. j = i
      BY <2>3, <3>1 DEF ScopeInv, TypeOK
    <3>3. /\ e.entry.scope \in Scopes
          /\ reqs[r].sets[e.entry.scope] \in Sets(e.entry.scope)
          /\ e \in reqs[r].sets[e.entry.scope].proxies
      BY FoundIsHeld
    <3>4. Routes(i)
      BY DEF ScopeInv
    <3>5. e.entry = sess[i].entry
      BY <3>1, <3>3, <3>4 DEF Knows, Routes
    <3>6. sess[i].upstream = sess[i].entry
      BY <2>1, <3>1, <3>2 DEF Faithful
    <3>7. sess'[i] = [sess[i] EXCEPT !.answers = @ \cup {<<sess[i].entry, sess[i].entry>>}]
      BY <3>1, <3>5, <3>6 DEF ScopeInv, TypeOK
    <3> QED
      BY <2>1, <3>1, <3>2, <3>7 DEF Faithful, Session
  <2> QED
    BY <2>2, <2>3
<1> QED
  BY <1>1, <1>2, <1>3, NothingNew

LEMMA OthersKeep ==
  ASSUME ScopeInv, TypeOK',
         \/ \E s \in Scopes : Release(s) \/ Edit(s)
         \/ \E r \in Requests : \/ ExtractScoped(r) \/ ExtractGlobal(r) \/ AnswerRead(r)
                                \/ Connect(r) \/ ConnectFails(r)
         \/ \E r \in Requests, id \in Asked, i \in Sessions :
              Again(r, id, i) \/ CloseSession(r, id, i)
         \/ \E i \in Sessions : UpstreamDies(i) \/ Cancelled(i)
  PROVE  ScopeInv'
<1> USE DEF ScopeInv, TypeOK
<1>1. UNCHANGED <<making, builds>>
  BY DEF Release, Edit, ExtractScoped, ExtractGlobal, AnswerRead, Connect, ConnectFails, Again,
         CloseSession, UpstreamDies, Cancelled, Still
<1>2. \A s \in Scopes : held'[s] \in {held[s], NoSet}
  BY DEF Release, Edit, ExtractScoped, ExtractGlobal, AnswerRead, Connect, ConnectFails, Again,
         CloseSession, UpstreamDies, Cancelled, Still
<1>3. \A q \in Requests : \A s \in Scopes :
        reqs'[q].sets[s] \in {reqs[q].sets[s], NoSet, held[s]}
  <2> SUFFICES ASSUME NEW q \in Requests, NEW s \in Scopes
               PROVE  reqs'[q].sets[s] \in {reqs[q].sets[s], NoSet, held[s]}
    OBVIOUS
  <2>1. Idle.sets = [t \in Scopes |-> NoSet] /\ reqs[q] \in Request
    BY DEF Idle
  <2>2. CASE reqs'[q] = reqs[q]
    BY <2>2
  <2>3. CASE reqs'[q] = Idle
    BY <2>1, <2>3
  <2>4. CASE ExtractScoped(q)
    <3>1. reqs'[q] = [Idle EXCEPT !.at = "scoped", !.sets["workspace"] = held["workspace"]]
      BY <2>4 DEF ExtractScoped
    <3>2. [Idle EXCEPT !.at = "scoped", !.sets["workspace"] = held["workspace"]].sets
            = [t \in Scopes |-> IF t = "workspace" THEN held[t] ELSE NoSet]
      BY DEF Idle, Scopes
    <3> QED
      BY <3>1, <3>2
  <2>5. CASE ExtractGlobal(q)
    <3>1. \/ reqs'[q] = Idle
          \/ reqs'[q].sets = [reqs[q].sets EXCEPT !["global"] = held["global"]]
      <4>1. PICK mount \in Mounts :
              \/ reqs' = [reqs EXCEPT ![q] = Idle]
              \/ reqs' = [reqs EXCEPT ![q] =
                   [@ EXCEPT !.at = mount, !.sets = [reqs[q].sets EXCEPT !["global"] = held["global"]]]]
        BY <2>5 DEF ExtractGlobal
      <4> QED
        BY <2>1, <4>1 DEF Request
    <3>2. reqs[q].sets \in [Scopes -> ResourceSet]
      BY <2>1 DEF Request
    <3> QED
      BY <2>1, <2>3, <3>1, <3>2
  <2>6. CASE \E id \in Asked, i \in Sessions : Again(q, id, i)
    <3>1. PICK i \in Sessions :
            reqs' = [reqs EXCEPT ![q] = [@ EXCEPT !.at = "connecting", !.session = {i}]]
      BY <2>6 DEF Again
    <3>2. reqs'[q] = [reqs[q] EXCEPT !.at = "connecting", !.session = {i}]
      BY <3>1
    <3>3. reqs'[q].sets = reqs[q].sets
      BY <2>1, <3>2 DEF Request
    <3> QED
      BY <3>3
  <2>7. \/ reqs'[q] \in {reqs[q], Idle} \/ ExtractScoped(q) \/ ExtractGlobal(q)
        \/ \E id \in Asked, i \in Sessions : Again(q, id, i)
    <3>1. CASE \E r \in Requests : ExtractScoped(r) \/ ExtractGlobal(r)
      BY ZenonT(60), <3>1 DEF ExtractScoped, ExtractGlobal
    <3>2. CASE \E r \in Requests : AnswerRead(r) \/ Connect(r) \/ ConnectFails(r)
      BY <3>2 DEF AnswerRead, Connect, ConnectFails, Answer
    <3>3. CASE \E r \in Requests, id \in Asked, i \in Sessions :
                 Again(r, id, i) \/ CloseSession(r, id, i)
      BY <3>3 DEF Again, CloseSession, Answer
    <3>4. CASE \/ \E t \in Scopes : Release(t) \/ Edit(t)
               \/ \E i \in Sessions : UpstreamDies(i) \/ Cancelled(i)
      BY <3>4 DEF Release, Edit, UpstreamDies, Cancelled
    <3> QED
      BY <3>1, <3>2, <3>3, <3>4
  <2> QED
    BY <2>2, <2>3, <2>4, <2>5, <2>6, <2>7
<1>4. \A s \in Scopes : Sets(s)' \subseteq Sets(s)
  BY <1>2, <1>3 DEF Sets
<1>5. ASSUME NEW j \in Sessions
      PROVE  /\ Faithful(sess'[j])
             /\ \/ sess'[j].at = "free"
                \/ /\ sess'[j].at = sess[j].at /\ sess'[j].gen = sess[j].gen
                   /\ sess'[j].id = sess[j].id /\ sess'[j].entry = sess[j].entry
  <2>1. Faithful(sess[j]) /\ sess[j] \in Session
    OBVIOUS
  <2>2. CASE sess'[j] = sess[j]
    BY <2>1, <2>2
  <2>3. CASE sess'[j] = NoSession
    BY <2>3, NewSession
  <2>4. CASE sess[j].cell = "empty" /\ sess'[j] = [sess[j] EXCEPT !.cell = "live",
                                  !.upstream = sess[j].entry, !.told = sess[j].entry]
    BY <2>1, <2>4 DEF Session, Faithful
  <2>5. CASE sess[j].cell # "empty" /\ sess'[j] = [sess[j] EXCEPT !.told = sess[j].upstream]
    BY <2>1, <2>5 DEF Session, Faithful
  <2>6. CASE sess[j].cell = "live" /\ sess'[j] = [sess[j] EXCEPT !.cell = "dead"]
    BY <2>1, <2>6 DEF Session, Faithful
  <2>7. CASE \E r \in Requests : Connect(r)
    <3>1. PICK r \in Requests : Connect(r)
      BY <2>7
    <3>2. PICK i \in reqs[r].session :
            sess' = [sess EXCEPT ![i] =
              IF @.at # "open" THEN @
              ELSE IF @.cell = "empty"
                   THEN [@ EXCEPT !.cell = "live", !.upstream = sess[i].entry, !.told = sess[i].entry]
                   ELSE [@ EXCEPT !.told = sess[i].upstream]]
      BY <3>1 DEF Connect
    <3> QED
      BY <2>2, <2>4, <2>5, <3>2
  <2>8. CASE \E i \in Sessions : UpstreamDies(i)
    BY <2>2, <2>6, <2>8 DEF UpstreamDies
  <2>9. CASE ~ \E r \in Requests : Connect(r)
    BY <2>2, <2>3, <2>8, <2>9
       DEF Release, Edit, ExtractScoped, ExtractGlobal, AnswerRead, ConnectFails, Again,
           CloseSession, UpstreamDies, Cancelled, Still
  <2> QED
    BY <2>7, <2>9
<1> QED
  BY <1>1, <1>4, <1>5, NothingNew

LEMMA InvStep == ScopeInv /\ [Next]_vars => ScopeInv'
<1> SUFFICES ASSUME ScopeInv, [Next]_vars PROVE ScopeInv'
  OBVIOUS
<1>1. TypeOK'
  BY TypesHold DEF ScopeInv
<1>2. CASE UNCHANGED vars
  BY SMTT(40), <1>2 DEF vars, ScopeInv, SetsWhole, GensName, MakingIsFresh, Routes, Faithful, Sets, Whole, TypeOK
<1>3. CASE Next
  <2>1. CASE \E s \in Scopes : LoadPlugins(s)
    BY <1>1, <2>1, LoadPluginsKeeps
  <2>2. CASE \E s \in Scopes : LoadMcp(s)
    BY <1>1, <2>2, LoadMcpKeeps
  <2>3. CASE \E r \in Requests, id \in Asked, i \in Sessions : Open(r, id, i)
    BY <1>1, <2>3, OpenKeeps
  <2>4. CASE \E r \in Requests, id \in Asked, i \in Sessions : Call(r, id, i)
    BY <1>1, <2>4, CallKeeps
  <2> QED
    BY <1>1, <1>3, <2>1, <2>2, <2>3, <2>4, OthersKeep DEF Next
<1> QED
  BY <1>2, <1>3

-----------------------------------------------------------------------------

\* The inductive invariant: every resource set is made whole from one directory, a
\* generation names one, and every session was opened for the entry its own set has.
THEOREM ScopeInvariant == Spec => []ScopeInv
<1>1. Init => ScopeInv
  BY InvInit
<1>2. ScopeInv /\ [Next]_vars => ScopeInv'
  BY InvStep
<1> QED
  BY <1>1, <1>2, PTL DEF Spec

\* The type invariant, for any directories, requests and sessions.
THEOREM ScopeTypes == Spec => []TypeOK
<1>1. ScopeInv => TypeOK
  BY DEF ScopeInv
<1> QED
  BY <1>1, ScopeInvariant, PTL

\* A session speaks to one upstream for its whole life, however often resources are made
\* again and whatever ids come to mean (mcp/proxy.rs, mcp/http.rs).
THEOREM UpstreamIsKept == Spec => []SessionsKeepTheirUpstream
<1>1. ScopeInv => SessionsKeepTheirUpstream
  BY DEF ScopeInv, Faithful, SessionsKeepTheirUpstream
<1> QED
  BY <1>1, ScopeInvariant, PTL

LEMMA PluginSkillsApart ==
  ASSUME NEW set, NEW c \in Contents, set.plugins \subseteq c.plugins
  PROVE  /\ Once(PluginSkills(set))
         /\ Ids(PluginSkills(set)) \cap SkillName = {}
<1>1. \A p \in set.plugins : p.id \in Name /\ p.skills \subseteq SkillName
  BY ContentsAssumption
<1>2. \A e \in PluginSkills(set) : \E p \in set.plugins : \E n \in p.skills :
        e = [id |-> Dotted(p.id, n), is |-> <<set.scope, p.id, n>>]
  BY DEF PluginSkills
<1>3. ASSUME NEW e \in PluginSkills(set), NEW f \in PluginSkills(set), e.id = f.id
      PROVE  e = f
  <2>1. PICK p \in set.plugins : \E n \in p.skills :
          e = [id |-> Dotted(p.id, n), is |-> <<set.scope, p.id, n>>]
    BY <1>2
  <2>2. PICK n \in p.skills : e = [id |-> Dotted(p.id, n), is |-> <<set.scope, p.id, n>>]
    BY <2>1
  <2>3. PICK q \in set.plugins : \E m \in q.skills :
          f = [id |-> Dotted(q.id, m), is |-> <<set.scope, q.id, m>>]
    BY <1>2
  <2>4. PICK m \in q.skills : f = [id |-> Dotted(q.id, m), is |-> <<set.scope, q.id, m>>]
    BY <2>3
  <2>5. Dotted(p.id, n) = Dotted(q.id, m)
    BY <1>3, <2>2, <2>4
  <2>6. p.id = q.id /\ n = m
    BY <1>1, <2>5, JoinInjective
  <2> QED
    BY <2>2, <2>4, <2>6
<1>4. ASSUME NEW e \in PluginSkills(set) PROVE e.id \notin SkillName
  <2>1. PICK p \in set.plugins : \E n \in p.skills :
          e = [id |-> Dotted(p.id, n), is |-> <<set.scope, p.id, n>>]
    BY <1>2
  <2>2. PICK n \in p.skills : e = [id |-> Dotted(p.id, n), is |-> <<set.scope, p.id, n>>]
    BY <2>1
  <2>3. p.id \in Name /\ n \in Name
    BY <1>1 DEF SkillName
  <2> QED
    BY <2>2, <2>3, DottedHasDot
<1> QED
  BY <1>3, <1>4 DEF Once, Ids

\* No skill of a scope hides another, whatever the plugins and the skills are called, dots in
\* the names of plugins included: the last dot of an id is where the skill's name begins.
THEOREM SkillsDoNotHide == Spec => []SkillsKeepApart
<1>1. ASSUME ScopeInv PROVE SkillsKeepApart
  <2> SUFFICES ASSUME NEW s \in Scopes
               PROVE  /\ Once(PluginSkills(held[s]))
                      /\ Ids(PluginSkills(held[s])) \cap Ids(OwnSkills(s)) = {}
    BY DEF SkillsKeepApart, Once
  <2>1. held[s] \in Sets(s)
    BY DEF Sets
  <2>2. PICK c \in Contents : held[s].plugins \subseteq c.plugins
    BY <1>1, <2>1 DEF ScopeInv, SetsWhole, Whole
  <2>3. disk[s] \in Contents
    BY <1>1 DEF ScopeInv, TypeOK
  <2>4. Ids(OwnSkills(s)) \subseteq SkillName
    BY <2>3, ContentsAssumption DEF Ids, OwnSkills
  <2> QED
    BY <2>2, <2>4, PluginSkillsApart
<1> QED
  BY <1>1, ScopeInvariant, PTL

\* What is inserted in the map of another scope is what is found first.
LEMMA InsertedIsFound ==
  ASSUME NEW global, NEW scoped, Once(global), Once(scoped)
  PROVE  /\ Once(Inserted(global, scoped))
         /\ \A id : FirstOf(scoped, global, id) = {e \in Inserted(global, scoped) : e.id = id}
<1>1. ASSUME NEW e \in Inserted(global, scoped), NEW f \in Inserted(global, scoped), e.id = f.id
      PROVE  e = f
  <2>1. \A x \in Inserted(global, scoped) :
          x \in scoped \/ (x \in global /\ x.id \notin Ids(scoped))
    BY DEF Inserted
  <2>2. \A x \in scoped : x.id \in Ids(scoped)
    BY DEF Ids
  <2> QED
    BY <1>1, <2>1, <2>2 DEF Once
<1>2. ASSUME NEW id
      PROVE  FirstOf(scoped, global, id) = {e \in Inserted(global, scoped) : e.id = id}
  <2>1. CASE id \in Ids(scoped)
    BY <2>1 DEF FirstOf, Inserted
  <2>2. CASE id \notin Ids(scoped)
    <3>1. \A e \in scoped : e.id # id
      BY <2>2 DEF Ids
    <3> QED
      BY <2>2, <3>1 DEF FirstOf, Inserted
  <2> QED
    BY <2>1, <2>2
<1> QED
  BY <1>1, <1>2 DEF Once

LEMMA OnceAgree ==
  ASSUME NEW global, NEW scoped, Once(global), Once(scoped)
  PROVE  /\ ServersAgree(global, scoped)
         /\ PluginsAgree(global, scoped) /\ SkillsAgree(global, scoped)
<1>1. PluginsAgree(global, scoped)
  BY InsertedIsFound DEF PluginsAgree, PluginsMerged, PluginGet, Once
<1>2. SkillsAgree(global, scoped)
  BY InsertedIsFound DEF SkillsAgree, SkillsMerged, SkillGet, Once
<1>3. ASSUME NEW id
      PROVE  /\ id \in McpIds(global, scoped) <=> McpGet(global, scoped, id) # {}
             /\ \A e, f \in McpGet(global, scoped, id) : e = f
  <2>1. \A x : x \in McpGet(global, scoped, id) =>
                x.id = id /\ (x \in scoped \/ (x \in global /\ id \notin Ids(scoped)))
    BY DEF McpGet, FirstOf
  <2>2. \A x \in scoped : x.id \in Ids(scoped)
    BY DEF Ids
  <2>3. \A e, f \in McpGet(global, scoped, id) : e = f
    BY <2>1, <2>2 DEF Once
  <2>4. id \in McpIds(global, scoped) <=> McpGet(global, scoped, id) # {}
    BY DEF McpIds, McpGet, FirstOf, Ids
  <2> QED
    BY <2>3, <2>4
<1> QED
  BY <1>1, <1>2, <1>3 DEF ServersAgree

\* What each mount lists is what it finds, for any contents of the two scopes (ids, get and
\* merged of mcp/http.rs, plugin/http.rs and skill/http.rs).
THEOREM ListsAreTrue == Spec => []ListedIsFound
<1>1. ASSUME ScopeInv PROVE ListedIsFound
  <2> SUFFICES ASSUME NEW r \in Requests, NEW s \in Scopes
               PROVE  /\ Once(Served(reqs[r].sets, s))
                      /\ Once(Rescanned(reqs[r].sets, s))
                      /\ Once(Skills(reqs[r].sets, s))
    BY OnceAgree DEF ListedIsFound, Scopes
  <2> DEFINE set == reqs[r].sets[s]
  <2>1. Whole(s, set) /\ disk[s] \in Contents
    BY <1>1 DEF ScopeInv, SetsWhole, Sets, TypeOK
  <2>2. Once(Served(reqs[r].sets, s))
    BY <2>1 DEF Served, Whole, Once
  <2>3. Once(Rescanned(reqs[r].sets, s))
    <3>1. \A p, q \in disk[s].plugins : p.id = q.id => p = q
      BY <2>1, ContentsAssumption
    <3>2. \A e \in Rescanned(reqs[r].sets, s) :
            \E p \in disk[s].plugins : e = [id |-> p.id, is |-> <<s, p>>]
      BY DEF Rescanned
    <3> QED
      BY <3>1, <3>2 DEF Once
  <2>4. Once(Skills(reqs[r].sets, s))
    <3> HIDE DEF set
    <3>1. PICK c \in Contents : set.plugins \subseteq c.plugins
      BY <2>1 DEF Whole
    <3>2. Once(PluginSkills(set))
      BY <3>1, PluginSkillsApart
    <3>3. Once(OwnSkills(s))
      BY DEF Once, OwnSkills
    <3>4. \A e \in OwnSkills(s) : e.id \in Ids(OwnSkills(s))
      BY DEF Ids
    <3>5. Skills(reqs[r].sets, s) \subseteq
            OwnSkills(s) \cup {e \in PluginSkills(set) : e.id \notin Ids(OwnSkills(s))}
      BY DEF Skills, set
    <3> QED
      BY <3>2, <3>3, <3>4, <3>5 DEF Once
  <2> QED
    BY <2>2, <2>3, <2>4
<1> QED
  BY <1>1, ScopeInvariant, PTL
=============================================================================
