--------------------------- MODULE FileTree_proofs ---------------------------
(***************************************************************************)
(* Proofs about FileTree for any number of requests, any names, trees and   *)
(* bounds.  What a path leads to is followed as a walk that goes down: with  *)
(* each link there is one less to follow, and between them one name less.   *)
(* So `Locate` is defined, and ends at a name in a directory (LocateInPlace).*)
(* Every call of the kernel then leaves a tree (Sound), whatever the other  *)
(* requests have made of the disk since the request looked at it last.  A   *)
(* listing goes down such a tree from read to read (Listings).  An edit that *)
(* nobody disturbs finds the disk as its last call left it: what a removal   *)
(* has taken so far, and what text a patch has met, is known of each of its  *)
(* steps (Editing).  A copy only adds to the disk it found, away from its    *)
(* source, so that paths in the source and at the destination lead where     *)
(* they led, and each name of the source waits, is at work or has arrived    *)
(* (CopyingWork).                                                            *)
(***************************************************************************)
EXTENDS FileTree, Induction, SequenceTheorems, FiniteSetTheorems

-----------------------------------------------------------------------------
(* Calls.                                                                  *)

\* A call fails, and changes nothing, if one of its checks applies; else it is made.
LEMMA UnlessIs ==
  ASSUME NEW n \in Nat, NEW checks, DOMAIN checks = 1..n, NEW call,
         \A k \in 1..n : checks[k][1] => checks[k][2] # "ok"
  PROVE  \/ Unless(checks, call) = call /\ \A k \in 1..n : ~checks[k][1]
         \/ \E e : Unless(checks, call) = Fails(e) /\ e # "ok"
<1> DEFINE bad == {k \in DOMAIN checks : checks[k][1]}
<1>1. Unless(checks, call) = IF bad = {} THEN call ELSE Fails(checks[Min(bad)][2])
  BY DEF Unless
<1>2. CASE bad = {}
  BY <1>1, <1>2
<1>3. CASE bad # {}
  <2>1. bad \in SUBSET Nat
    OBVIOUS
  <2>2. \E x \in bad : \A y \in bad : x <= y
    <3> HIDE DEF bad
    <3> QED
      BY <1>3, <2>1, LeastOf
  <2>3. Min(bad) \in bad
    BY <2>2 DEF Min
  <2>4. checks[Min(bad)][2] # "ok"
    BY <2>3
  <2> HIDE DEF bad
  <2> QED
    BY <1>1, <1>3, <2>4
<1> QED
  BY <1>2, <1>3

\* A call that fails leaves the disk and the bytes.
LEMMA FailsIs ==
  ASSUME NEW e
  PROVE  Fails(e).error = e /\ Fails(e).disk = disk /\ Fails(e).data = data
BY DEF Fails

\* A call that is made does not fail.
LEMMA LeavesIs ==
  ASSUME NEW d, NEW b
  PROVE  Leaves(d, b).error = "ok" /\ Leaves(d, b).disk = d /\ Leaves(d, b).data = b
BY DEF Leaves

\* What the entries of d and, at other places, of e are.
LEMMA OverIs ==
  ASSUME NEW d, NEW e
  PROVE  /\ DOMAIN Over(d, e) = DOMAIN d \cup DOMAIN e
         /\ \A p \in DOMAIN d : Over(d, e)[p] = d[p]
         /\ \A p \in DOMAIN e \ DOMAIN d : Over(d, e)[p] = e[p]
BY DEF Over

\* They are all of a kind.
LEMMA OverTypes ==
  ASSUME NEW d, NEW e, NEW T, \A p \in DOMAIN Over(d, e) : Over(d, e)[p] \in T
  PROVE  Over(d, e) \in [DOMAIN Over(d, e) -> T]
BY DEF Over

-----------------------------------------------------------------------------
(* Paths.                                                                  *)

\* The sequence of no length.
LEMMA EmptyIs ==
  ASSUME NEW S, NEW s \in Seq(S)
  PROVE  s = <<>> <=> Len(s) = 0
BY EmptySeq, SeqEqual

\* A path that is not the root is what is before its last name, and that name.
LEMMA FrontLast ==
  ASSUME NEW S, NEW p \in Seq(S), p # Root
  PROVE  /\ Front(p) \in Seq(S) /\ Last(p) \in S /\ p = Append(Front(p), Last(p))
         /\ Len(Front(p)) = Len(p) - 1
<1>1. Len(p) \in Nat /\ Len(p) > 0
  BY EmptySeq, LenProperties DEF Root
<1>2. \A i \in 1..Len(p) : p[i] \in S
  OBVIOUS
<1>3. Front(p) \in Seq(S) /\ Len(Front(p)) = Len(p) - 1
  <2> DEFINE n == Len(p) - 1
  <2>1. n \in Int /\ 1 \in Int /\ \A i \in 1..n : p[i] \in S
    BY <1>1, <1>2
  <2>2. Len(SubSeq(p, 1, n)) = (IF 1 <= n THEN n - 1 + 1 ELSE 0) /\ SubSeq(p, 1, n) \in Seq(S)
    <3> HIDE DEF n
    <3> QED
      BY <2>1, SubSeqProperties
  <2>3. Front(p) = SubSeq(p, 1, n) /\ n \in Nat /\ n = Len(p) - 1
    BY <1>1 DEF Front
  <2> HIDE DEF n
  <2>4. (IF 1 <= n THEN n - 1 + 1 ELSE 0) = n
    BY <2>3
  <2> QED
    BY <2>2, <2>3, <2>4
<1>4. \A i \in 1..(Len(p) - 1) : Front(p)[i] = p[i]
  BY <1>1, <1>2, SubSeqProperties DEF Front
<1>5. Last(p) \in S
  BY <1>1, <1>2 DEF Last
<1> DEFINE a == Append(Front(p), Last(p))
<1>6. /\ a \in Seq(S) /\ Len(a) = Len(p) /\ a[Len(p)] = p[Len(p)]
      /\ \A i \in 1..(Len(p) - 1) : a[i] = Front(p)[i]
  <2> HIDE DEF a
  <2>1. /\ a \in Seq(S) /\ Len(a) = Len(Front(p)) + 1 /\ a[Len(Front(p)) + 1] = Last(p)
        /\ \A i \in 1..Len(Front(p)) : a[i] = Front(p)[i]
    BY <1>3, <1>5, AppendProperties DEF a
  <2> QED
    BY <1>1, <1>3, <2>1 DEF Last
<1> HIDE DEF a
<1>7. \A i \in 1..Len(p) : a[i] = p[i]
  BY <1>1, <1>4, <1>6
<1>8. a = p
  BY <1>6, <1>7, SeqEqual
<1> QED
  BY <1>3, <1>5, <1>8 DEF a

\* What a name is put behind comes back as its front.
LEMMA FrontAppend ==
  ASSUME NEW S, NEW p \in Seq(S), NEW n \in S
  PROVE  /\ Append(p, n) \in Seq(S) /\ Append(p, n) # Root
         /\ Front(Append(p, n)) = p /\ Last(Append(p, n)) = n
         /\ Len(Append(p, n)) = Len(p) + 1
<1>1. Append(p, n) \in Seq(S) /\ Len(Append(p, n)) = Len(p) + 1 /\ Len(p) \in Nat
  BY AppendProperties, LenProperties
<1>2. Append(p, n)[Len(p) + 1] = n /\ \A i \in 1..Len(p) : Append(p, n)[i] = p[i]
  BY AppendProperties
<1>3. Front(Append(p, n)) \in Seq(S) /\ Len(Front(Append(p, n))) = Len(p)
  BY <1>1, SubSeqProperties DEF Front
<1>4. \A i \in 1..Len(p) : Front(Append(p, n))[i] = p[i]
  BY <1>1, <1>2, SubSeqProperties DEF Front
<1>5. Front(Append(p, n)) = p
  BY <1>1, <1>3, <1>4, SeqEqual
<1> QED
  BY <1>1, <1>2, <1>5 DEF Last, Root

\* q is below p, or p itself: the names of q begin with those of p.
LEMMA UnderIs ==
  ASSUME NEW S, NEW p \in Seq(S), NEW q \in Seq(S)
  PROVE  /\ Under(q, p) <=> Len(p) <= Len(q) /\ \A i \in 1..Len(p) : q[i] = p[i]
         /\ Under(q, p) => /\ SubSeq(q, Len(p) + 1, Len(q)) \in Seq(S)
                           /\ q = p \o SubSeq(q, Len(p) + 1, Len(q))
<1>1. Len(p) \in Nat /\ Len(q) \in Nat
  BY LenProperties
<1>2. SubSeq(p, 1, Len(p)) = p
  BY SubSeqFull
<1>3. ASSUME Len(p) <= Len(q)
      PROVE  SubSeq(q, 1, Len(p)) = p <=> \A i \in 1..Len(p) : q[i] = p[i]
  <2>1. SubSeq(q, 1, Len(p)) \in Seq(S) /\ Len(SubSeq(q, 1, Len(p))) = Len(p)
    BY <1>1, <1>3, SubSeqProperties
  <2>2. \A i \in 1..Len(p) : SubSeq(q, 1, Len(p))[i] = q[i]
    BY <1>1, <1>3, SubSeqProperties
  <2>3. SubSeq(q, 1, Len(p)) = p <=> \A i \in 1..Len(p) : SubSeq(q, 1, Len(p))[i] = p[i]
    BY <2>1, SeqEqual
  <2> QED
    BY <2>2, <2>3
<1>4. Under(q, p) <=> Len(p) <= Len(q) /\ \A i \in 1..Len(p) : q[i] = p[i]
  BY <1>2, <1>3 DEF Under, IsPrefix
<1>5. ASSUME Under(q, p)
      PROVE  /\ SubSeq(q, Len(p) + 1, Len(q)) \in Seq(S)
             /\ q = p \o SubSeq(q, Len(p) + 1, Len(q))
  <2> DEFINE t == SubSeq(q, Len(p) + 1, Len(q))
  <2>1. Len(p) <= Len(q) /\ \A i \in 1..Len(p) : q[i] = p[i]
    BY <1>4, <1>5
  <2>2. t \in Seq(S) /\ Len(t) = Len(q) - Len(p)
    BY <1>1, <2>1, SubSeqProperties
  <2>3. \A i \in 1..Len(t) : t[i] = q[Len(p) + i]
    BY <1>1, <2>1, <2>2, SubSeqProperties
  <2> HIDE DEF t
  <2>4. p \o t \in Seq(S) /\ Len(p \o t) = Len(q)
    BY <1>1, <2>2, ConcatProperties
  <2>5. ASSUME NEW i \in 1..Len(q) PROVE (p \o t)[i] = q[i]
    <3>1. CASE i <= Len(p)
      BY <1>1, <2>1, <2>2, <3>1, ConcatProperties
    <3>2. CASE ~(i <= Len(p))
      <4>1. (p \o t)[i] = t[i - Len(p)] /\ i - Len(p) \in 1..Len(t)
        BY <1>1, <2>2, <3>2, ConcatProperties
      <4> QED
        BY <1>1, <2>3, <4>1
    <3> QED
      BY <3>1, <3>2
  <2>6. q = p \o t
    BY <2>4, <2>5, SeqEqual
  <2> QED
    BY <2>2, <2>6 DEF t
<1> QED
  BY <1>4, <1>5
-----------------------------------------------------------------------------
(* Where a path leads.  A walk goes one name on, or back to the root with   *)
(* one link less to follow, so that it ends.                                *)

\* Links lead somewhere.
Linked(d) == \A p \in DOMAIN d : d[p].target \in Seq(Names)

KindAt(d, p) == IF p \in DOMAIN d THEN d[p].kind ELSE "none"

\* The next place of a walk, and whether it is a link that is followed.
Ahead(w) == Append(w.at, Head(w.rest))
MeetsLink(d, follow, w) == KindAt(d, Ahead(w)) = "link" /\ (follow \/ Len(w.rest) # 1)

\* The walks that have come to an end, and what each finds.
Stops(d, follow) ==
  {w \in Ways : \/ w.rest = <<>>
                \/ MeetsLink(d, follow, w) /\ w.hops = 0
                \/ Len(w.rest) # 1 /\ KindAt(d, Ahead(w)) \in {"none", "file"}}
Found(d, follow) ==
  [w \in Ways |-> IF w.rest = <<>> THEN Ok(w.at)
                  ELSE IF MeetsLink(d, follow, w) THEN Error("Loop")
                  ELSE IF KindAt(d, Ahead(w)) = "none" THEN Error("NotFound")
                  ELSE Error("NotADirectory")]

\* The step of the others.
Onward(d, follow) ==
  [w \in Ways |-> IF w \in Stops(d, follow) THEN w
                  ELSE IF MeetsLink(d, follow, w)
                  THEN Way(Root, d[Ahead(w)].target \o Tail(w.rest), w.hops - 1)
                  ELSE Way(Ahead(w), Tail(w.rest), w.hops)]

Outcomes == [error : {"ok", "Loop", "NotFound", "NotADirectory"}, path : Seq(Names)]

Hops == [w \in Ways |-> w.hops]
Left == [w \in Ways |-> Len(w.rest)]

\* What a walk is made of.
LEMMA WayIs ==
  ASSUME NEW at, NEW rest, NEW hops
  PROVE  /\ Way(at, rest, hops).at = at /\ Way(at, rest, hops).rest = rest
         /\ Way(at, rest, hops).hops = hops
         /\ at \in Seq(Names) /\ rest \in Seq(Names) /\ hops \in 0..MaxHops =>
              Way(at, rest, hops) \in Ways
BY DEF Way, Ways

\* A walk that can go on has a name before it.
LEMMA WayTypes ==
  ASSUME NEW w \in Ways
  PROVE  /\ w.at \in Seq(Names) /\ w.rest \in Seq(Names) /\ w.hops \in 0..MaxHops
         /\ Len(w.rest) \in Nat /\ w = Way(w.at, w.rest, w.hops)
         /\ w.rest # <<>> => /\ Ahead(w) \in Seq(Names) /\ Ahead(w) # Root
                             /\ Tail(w.rest) \in Seq(Names)
                             /\ Len(Tail(w.rest)) = Len(w.rest) - 1
                             /\ Front(Ahead(w)) = w.at /\ Head(w.rest) \in Names
<1>1. /\ w.at \in Seq(Names) /\ w.rest \in Seq(Names) /\ w.hops \in 0..MaxHops
      /\ w = Way(w.at, w.rest, w.hops)
  BY DEF Ways, Way
<1>2. Len(w.rest) \in Nat
  BY <1>1, LenProperties
<1>3. ASSUME w.rest # <<>>
      PROVE  /\ Ahead(w) \in Seq(Names) /\ Ahead(w) # Root
             /\ Tail(w.rest) \in Seq(Names) /\ Len(Tail(w.rest)) = Len(w.rest) - 1
             /\ Front(Ahead(w)) = w.at /\ Head(w.rest) \in Names
  <2>1. /\ Head(w.rest) \in Names /\ Tail(w.rest) \in Seq(Names)
        /\ Len(Tail(w.rest)) = Len(w.rest) - 1
    BY <1>1, <1>3, HeadTailProperties
  <2> QED
    BY <1>1, <2>1, FrontAppend DEF Ahead
<1> QED
  BY <1>1, <1>2, <1>3

\* A walk comes to an end.
LEMMA WalkGoesDown ==
  ASSUME NEW d, Linked(d), NEW follow
  PROVE  GoesDown(Ways, Stops(d, follow), Onward(d, follow), Hops, Left)
<1> DEFINE S == Stops(d, follow)
           on == Onward(d, follow)
<1>1. S \subseteq Ways
  BY DEF Stops
<1>2. ASSUME NEW w \in Ways \ S
      PROVE  /\ on[w] \in Ways
             /\ \/ Hops[on[w]] < Hops[w]
                \/ Hops[on[w]] = Hops[w] /\ Left[on[w]] < Left[w]
  <2>1. w.rest # <<>> /\ ~(MeetsLink(d, follow, w) /\ w.hops = 0)
    BY DEF Stops
  <2>2. CASE MeetsLink(d, follow, w)
    <3>1. Ahead(w) \in DOMAIN d
      BY <2>2 DEF MeetsLink, KindAt
    <3>2. /\ d[Ahead(w)].target \in Seq(Names) /\ Tail(w.rest) \in Seq(Names)
          /\ w.hops \in 1..MaxHops
      BY <2>1, <2>2, <3>1, WayTypes, FileTreeAssumption DEF Linked
    <3>3. d[Ahead(w)].target \o Tail(w.rest) \in Seq(Names) /\ Root \in Seq(Names)
      BY <3>2, ConcatProperties, EmptySeq DEF Root
    <3>4. w.hops - 1 \in 0..MaxHops /\ w.hops - 1 < w.hops
      BY <3>2, FileTreeAssumption
    <3>5. on[w] = Way(Root, d[Ahead(w)].target \o Tail(w.rest), w.hops - 1)
      BY <2>2 DEF Onward
    <3>6. on[w] \in Ways /\ on[w].hops = w.hops - 1
      BY <3>3, <3>4, <3>5 DEF Ways, Way
    <3> QED
      BY <3>4, <3>6 DEF Hops
  <2>3. CASE ~MeetsLink(d, follow, w)
    <3>1. on[w] = Way(Ahead(w), Tail(w.rest), w.hops)
      BY <2>3 DEF Onward
    <3>2. on[w] \in Ways /\ on[w].hops = w.hops /\ on[w].rest = Tail(w.rest)
      BY <2>1, <3>1, WayTypes DEF Ways, Way
    <3>3. Left[on[w]] = Left[w] - 1 /\ Left[w] \in Nat
      BY <2>1, <3>2, WayTypes DEF Left
    <3> QED
      BY <3>2, <3>3 DEF Hops
  <2> QED
    BY <2>2, <2>3
<1>3. on \in [Ways -> Ways]
  <2>1. \A w \in Ways : on[w] \in Ways
    <3>1. \A w \in S : on[w] = w
      BY <1>1 DEF Onward
    <3> HIDE DEF on, S
    <3> QED
      BY <1>2, <3>1
  <2> QED
    BY <2>1 DEF Onward
<1>4. Hops \in [Ways -> Nat] /\ Left \in [Ways -> Nat]
  BY WayTypes, FileTreeAssumption DEF Hops, Left
<1> QED
  BY <1>1, <1>2, <1>3, <1>4 DEF GoesDown

\* What a walk finds is what it finds one step on.
Walks(d, follow, W) == Leads(Ways, Stops(d, follow), Onward(d, follow), Found(d, follow), W)

\* W is what Locate computes with.
LocatesBy(d, follow, W) ==
  /\ W \in [Ways -> Outcomes] /\ Walks(d, follow, W)
  /\ \A path \in Seq(Names) :
       Locate(d, path, follow) = IF Len(path) > MaxLen THEN Error("TooLong")
                                 ELSE W[Way(Root, path, MaxHops)]

\* There is such a function.
LEMMA LocateIs ==
  ASSUME NEW d, Linked(d), NEW follow
  PROVE  \E W : LocatesBy(d, follow, W)
<1> DEFINE Body(W, w) ==
             LET p == Append(w.at, Head(w.rest))
                 last == Len(w.rest) = 1
                 kind == IF p \in DOMAIN d THEN d[p].kind ELSE "none"
             IN  CASE w.rest = <<>> -> Ok(w.at)
                   [] w.rest # <<>> /\ kind = "link" /\ (follow \/ ~last) ->
                        IF w.hops = 0 THEN Error("Loop")
                        ELSE W[Way(Root, d[p].target \o Tail(w.rest), w.hops - 1)]
                   [] w.rest # <<>> /\ kind = "none" /\ ~last -> Error("NotFound")
                   [] w.rest # <<>> /\ kind = "file" /\ ~last -> Error("NotADirectory")
                   [] OTHER -> W[Way(p, Tail(w.rest), w.hops)]
           IsWalk(W) == W = [w \in Ways |-> Body(W, w)]
           Walk == CHOOSE W : IsWalk(W)
<1>1. \A path : Locate(d, path, follow) = IF Len(path) > MaxLen THEN Error("TooLong")
                                          ELSE Walk[Way(Root, path, MaxHops)]
  BY DEF Locate
<1>2. ASSUME NEW W, NEW w \in Ways
      PROVE  Body(W, w) = IF w \in Stops(d, follow) THEN Found(d, follow)[w]
                          ELSE W[Onward(d, follow)[w]]
  BY DEF Stops, Found, Onward, MeetsLink, KindAt, Ahead
<1>3. Found(d, follow) \in [Ways -> Outcomes]
  BY WayTypes, EmptySeq DEF Found, Outcomes, Ok, Error, Root
<1>4. PICK V \in [Ways -> Outcomes] : Walks(d, follow, V)
  BY <1>3, WalkGoesDown, DescentFunction DEF Walks
<1>5. IsWalk(V)
  <2>1. \A w \in Ways : V[w] = Body(V, w)
    <3> HIDE DEF Body
    <3> QED
      BY <1>2, <1>4 DEF Walks, Leads
  <2> HIDE DEF Body
  <2> QED
    BY <1>4, <2>1
<1> HIDE DEF IsWalk
<1>6. IsWalk(Walk)
  BY SMTT(40), <1>5
<1> HIDE DEF Walk
<1>7. Walk = [w \in Ways |-> Body(Walk, w)]
  BY Zenon, <1>6 DEF IsWalk
<1>8. Walks(d, follow, Walk)
  <2> HIDE DEF Body
  <2> QED
    BY <1>2, <1>7 DEF Walks, Leads
<1>9. Walk \in [Ways -> Outcomes]
  <2> DEFINE G == {w \in Ways : Walk[w] \in Outcomes}
  <2>1. Stops(d, follow) \subseteq G
    BY <1>3, <1>8 DEF Walks, Leads, Stops
  <2>2. \A w \in Ways \ Stops(d, follow) : Onward(d, follow)[w] \in G => w \in G
    BY <1>8 DEF Walks, Leads
  <2>3. Ways \subseteq G
    <3> HIDE DEF G
    <3> QED
      BY <2>1, <2>2, WalkGoesDown, DescentInduction
  <2> HIDE DEF Body
  <2> QED
    BY <1>7, <2>3
<1> QED
  BY <1>1, <1>8, <1>9 DEF LocatesBy
\* What a walk finds where it stops, and one step on.
LEMMA WalkStep ==
  ASSUME NEW d, NEW follow, NEW W, Walks(d, follow, W), NEW w \in Ways
  PROVE  /\ w.rest = <<>> => W[w] = Ok(w.at)
         /\ w \in Stops(d, follow) /\ w.rest # <<>> => W[w].error # "ok"
         /\ w \notin Stops(d, follow) => W[w] = W[Onward(d, follow)[w]]
BY DEF Walks, Leads, Stops, Found, Ok, Error

\* A step of a walk that goes on.
LEMMA OnwardIs ==
  ASSUME NEW d, Linked(d), NEW follow, NEW w \in Ways, w \notin Stops(d, follow)
  PROVE  /\ w.rest # <<>> /\ Onward(d, follow)[w] \in Ways
         /\ MeetsLink(d, follow, w) =>
              /\ w.hops \in 1..MaxHops /\ Ahead(w) \in DOMAIN d
              /\ d[Ahead(w)].target \in Seq(Names)
              /\ Onward(d, follow)[w] =
                   Way(Root, d[Ahead(w)].target \o Tail(w.rest), w.hops - 1)
         /\ ~MeetsLink(d, follow, w) =>
              /\ Onward(d, follow)[w] = Way(Ahead(w), Tail(w.rest), w.hops)
              /\ Len(w.rest) # 1 => KindAt(d, Ahead(w)) \notin {"none", "file", "link"}
<1>1. w.rest # <<>> /\ ~(MeetsLink(d, follow, w) /\ w.hops = 0)
      /\ (Len(w.rest) # 1 => KindAt(d, Ahead(w)) \notin {"none", "file"})
  BY DEF Stops
<1>2. Onward(d, follow)[w] \in Ways
  BY WalkGoesDown DEF GoesDown
<1>3. CASE MeetsLink(d, follow, w)
  <2>1. Ahead(w) \in DOMAIN d
    BY <1>3 DEF MeetsLink, KindAt
  <2>2. w.hops \in 1..MaxHops
    BY <1>1, <1>3, WayTypes, FileTreeAssumption
  <2> QED
    BY <1>1, <1>2, <1>3, <2>1, <2>2 DEF Linked, Onward
<1>4. CASE ~MeetsLink(d, follow, w)
  BY <1>1, <1>2, <1>4 DEF Onward, MeetsLink
<1> QED
  BY <1>3, <1>4

\* What Locate says has its type.
LEMMA LocateTypes ==
  ASSUME NEW d, Linked(d), NEW follow, NEW path \in Seq(Names)
  PROVE  /\ Locate(d, path, follow).path \in Seq(Names)
         /\ Locate(d, path, follow).error # "ok" \/ Len(path) <= MaxLen
         /\ Locate(d, path, follow) = [error |-> Locate(d, path, follow).error,
                                       path |-> Locate(d, path, follow).path]
<1>0. PICK W : LocatesBy(d, follow, W)
  BY LocateIs
<1>1. /\ W \in [Ways -> Outcomes]
      /\ Locate(d, path, follow) = IF Len(path) > MaxLen THEN Error("TooLong")
                                   ELSE W[Way(Root, path, MaxHops)]
  BY <1>0 DEF LocatesBy
<1>2. Way(Root, path, MaxHops) \in Ways
  BY EmptySeq, FileTreeAssumption DEF Way, Ways, Root
<1>3. Error("TooLong") = [error |-> "TooLong", path |-> Root] /\ Root \in Seq(Names)
  BY EmptySeq DEF Error, Root
<1>4. W[Way(Root, path, MaxHops)] \in Outcomes
  BY <1>1, <1>2
<1>5. Len(path) \in Nat /\ MaxLen \in Nat
  BY LenProperties, FileTreeAssumption
<1> QED
  BY <1>1, <1>3, <1>4, <1>5 DEF Outcomes

\* There is a directory for an entry at p.
InPlace(d, p) == p \in Seq(Names) /\ (p # Root => KindAt(d, Front(p)) = "dir")

\* A tree: what it says of an entry.
LEMMA TreeIs ==
  ASSUME NEW d, NEW b, IsTree(d, b)
  PROVE  /\ Linked(d) /\ KindAt(d, Root) = "dir"
         /\ \A p \in DOMAIN d : /\ p \in Seq(Names) /\ InPlace(d, p)
                                /\ d[p].inode \in 1..Len(b) /\ KindAt(d, p) = d[p].kind
                                /\ d[p].kind \in {"dir", "file", "link"}
         /\ b \in Seq(Seq(0..NotText)) /\ Len(b) \in Nat /\ DOMAIN b = 1..Len(b)
<1>1. b \in Seq(Seq(0..NotText)) /\ Len(b) \in Nat /\ DOMAIN b = 1..Len(b)
  BY LenProperties DEF IsTree
<1>2. \A p \in DOMAIN d : d[p] \in [kind : {"dir", "file", "link"}, inode : 1..Len(b),
                                    target : Seq(Names)]
  BY DEF IsTree
<1> QED
  BY <1>1, <1>2 DEF IsTree, Linked, KindAt, InPlace

\* A path that leads somewhere leads to a place in a directory.
LEMMA LocateInPlace ==
  ASSUME NEW d, NEW b, IsTree(d, b), NEW follow, NEW path \in Seq(Names),
         Locate(d, path, follow).error = "ok"
  PROVE  InPlace(d, Locate(d, path, follow).path)
<1>0. Linked(d) /\ KindAt(d, Root) = "dir"
  BY TreeIs
<1>a. PICK W : LocatesBy(d, follow, W)
  BY <1>0, LocateIs
<1>1. /\ W \in [Ways -> Outcomes] /\ Walks(d, follow, W)
      /\ Locate(d, path, follow) = IF Len(path) > MaxLen THEN Error("TooLong")
                                   ELSE W[Way(Root, path, MaxHops)]
  BY <1>a DEF LocatesBy
<1> DEFINE Ready(w) == IF w.rest = <<>> THEN InPlace(d, w.at) ELSE KindAt(d, w.at) = "dir"
           G == {w \in Ways : Ready(w) /\ W[w].error = "ok" => InPlace(d, W[w].path)}
           S == Stops(d, follow)
           on == Onward(d, follow)
<1>2. S \subseteq G
  <2> SUFFICES ASSUME NEW w \in S, Ready(w), W[w].error = "ok" PROVE InPlace(d, W[w].path)
    BY DEF Stops
  <2>1. w \in Ways
    BY DEF Stops
  <2>2. w.rest = <<>>
    BY <1>1, <2>1, WalkStep
  <2>3. W[w] = Ok(w.at)
    BY <1>1, <2>1, <2>2, WalkStep
  <2> QED
    BY <2>2, <2>3 DEF Ok
<1>3. ASSUME NEW w \in Ways \ S, on[w] \in G PROVE w \in G
  <2>1. SUFFICES ASSUME Ready(w) PROVE Ready(on[w])
    BY <1>1, <1>3, WalkStep
  <2>0. /\ w.rest # <<>> /\ on[w] \in Ways
        /\ MeetsLink(d, follow, w) =>
              on[w] = Way(Root, d[Ahead(w)].target \o Tail(w.rest), w.hops - 1)
        /\ ~MeetsLink(d, follow, w) =>
              /\ on[w] = Way(Ahead(w), Tail(w.rest), w.hops)
              /\ Len(w.rest) # 1 => KindAt(d, Ahead(w)) \notin {"none", "file", "link"}
    BY <1>0, OnwardIs
  <2>2. KindAt(d, w.at) = "dir"
    BY <2>0, <2>1
  <2>3. CASE MeetsLink(d, follow, w)
    <3>1. on[w].at = Root
      BY <2>0, <2>3, WayIs
    <3>2. InPlace(d, Root)
      BY EmptySeq DEF InPlace, Root
    <3> QED
      BY <1>0, <3>1, <3>2
  <2>4. CASE ~MeetsLink(d, follow, w)
    <3>1. on[w].at = Ahead(w) /\ on[w].rest = Tail(w.rest)
      BY <2>0, <2>4, WayIs
    <3>2. /\ Ahead(w) \in Seq(Names) /\ Front(Ahead(w)) = w.at
          /\ Len(Tail(w.rest)) = Len(w.rest) - 1 /\ Len(w.rest) \in Nat
          /\ Tail(w.rest) \in Seq(Names)
      BY <2>0, WayTypes
    <3>3. CASE Tail(w.rest) = <<>>
      BY <2>2, <3>1, <3>2, <3>3 DEF InPlace
    <3>4. CASE Tail(w.rest) # <<>>
      <4>1. Len(w.rest) # 1
        <5>1. Len(Tail(w.rest)) # 0
          BY <3>2, <3>4, EmptyIs
        <5> QED
          BY <3>2, <5>1
      <4>2. KindAt(d, Ahead(w)) \notin {"none", "file", "link"}
        BY <2>0, <2>4, <4>1
      <4>3. KindAt(d, Ahead(w)) \in {"none", "dir", "file", "link"}
        BY TreeIs DEF KindAt
      <4> QED
        BY <3>1, <3>4, <4>2, <4>3
    <3> QED
      BY <3>3, <3>4
  <2> QED
    BY <2>3, <2>4
<1>4. Ways \subseteq G
  <2> HIDE DEF G
  <2> QED
    BY <1>0, <1>2, <1>3, WalkGoesDown, DescentInduction
<1> DEFINE w == Way(Root, path, MaxHops)
<1>5. w \in Ways /\ w.at = Root
  BY EmptySeq, FileTreeAssumption DEF Way, Ways, Root
<1>6. Ready(w)
  BY <1>0, <1>5, EmptySeq DEF InPlace, Root
<1>7. ~(Len(path) > MaxLen) /\ Locate(d, path, follow) = W[w]
  BY <1>1 DEF Error
<1> QED
  BY <1>4, <1>5, <1>6, <1>7
-----------------------------------------------------------------------------
(* Trees.                                                                  *)

\* What entries are.
Entries(n) == [kind : {"dir", "file", "link"}, inode : 1..n, target : Seq(Names)]

\* What a tree is of each entry.
Rooted(d) == \A p \in DOMAIN d : p \in Seq(Names) /\ (p # Root => KindAt(d, Front(p)) = "dir")
Distinct(d) == \A p, q \in DOMAIN d : d[p].inode = d[q].inode => p = q

\* It is a tree if each of the parts holds.
LEMMA TreeParts ==
  ASSUME NEW d, NEW b
  PROVE  IsTree(d, b) <=>
           /\ d \in [DOMAIN d -> Entries(Len(b))]
           /\ Rooted(d) /\ Distinct(d) /\ KindAt(d, Root) = "dir"
           /\ b \in Seq(Seq(0..NotText))
BY DEF IsTree, Entries, Rooted, Distinct, KindAt

\* Above an entry there are directories, up to the root.
LEMMA DirsAbove ==
  ASSUME NEW d, NEW b, IsTree(d, b), NEW p \in DOMAIN d, NEW n \in 0..Len(p)
  PROVE  /\ SubSeq(p, 1, n) \in Seq(Names) /\ Len(SubSeq(p, 1, n)) = n
         /\ SubSeq(p, 1, n) \in DOMAIN d
         /\ n # Len(p) => KindAt(d, SubSeq(p, 1, n)) = "dir"
<1>a. \A q \in DOMAIN d : q \in Seq(Names) /\ InPlace(d, q)
  BY TreeIs
<1>0. p \in Seq(Names) /\ Len(p) \in Nat /\ \A q \in DOMAIN d : InPlace(d, q)
  BY <1>a, LenProperties
<1> DEFINE Above(m) == /\ SubSeq(p, 1, m) \in DOMAIN d
                       /\ m # Len(p) => KindAt(d, SubSeq(p, 1, m)) = "dir"
           G == {k \in 0..Len(p) : Above(Len(p) - k)}
<1>1. ASSUME NEW m \in 0..Len(p)
      PROVE  SubSeq(p, 1, m) \in Seq(Names) /\ Len(SubSeq(p, 1, m)) = m
  <2>1. m \in Int /\ 1 \in Int /\ (\A i \in 1..m : p[i] \in Names) /\ 0 <= m
    BY <1>0
  <2>2. SubSeq(p, 1, m) \in Seq(Names) /\ Len(SubSeq(p, 1, m)) = IF 1 <= m THEN m - 1 + 1 ELSE 0
    BY <2>1, SubSeqProperties
  <2> QED
    BY <2>1, <2>2
<1>2. 0 \in G
  <2>1. 0 \in 0..Len(p) /\ Len(p) - 0 = Len(p)
    BY <1>0
  <2>2. SubSeq(p, 1, Len(p)) \in DOMAIN d
    BY <1>0, SubSeqFull
  <2> QED
    BY <2>1, <2>2
<1>3. ASSUME NEW k \in 1..Len(p), k - 1 \in G PROVE k \in G
  <2> DEFINE m == Len(p) - k
             q == SubSeq(p, 1, m + 1)
  <2>1. m \in 0..Len(p) /\ m + 1 \in 1..Len(p) /\ m + 1 = Len(p) - (k - 1) /\ m # Len(p)
    BY <1>0
  <2>2. q \in DOMAIN d /\ q \in Seq(Names) /\ Len(q) = m + 1
    BY <1>1, <1>3, <2>1
  <2>3. q # Root
    BY <2>1, <2>2, EmptyIs DEF Root
  <2>4. Front(q) = SubSeq(p, 1, m)
    <3>1. Front(q) = SubSeq(q, 1, m)
      BY <2>1, <2>2 DEF Front
    <3>2. CASE m = 0
      BY <3>1, <3>2, SubSeqEmpty
    <3>3. CASE m # 0
      BY <1>0, <2>1, <3>1, <3>3, SubSeqOfSubSeq
    <3> QED
      BY <3>2, <3>3
  <2>5. KindAt(d, Front(q)) = "dir"
    BY <1>0, <2>2, <2>3 DEF InPlace
  <2>6. SubSeq(p, 1, m) \in DOMAIN d /\ KindAt(d, SubSeq(p, 1, m)) = "dir"
    BY <2>4, <2>5 DEF KindAt
  <2> QED
    BY <1>0, <2>1, <2>6
<1>4. 0..Len(p) \subseteq G
  <2> HIDE DEF G
  <2> QED
    BY <1>0, <1>2, <1>3, Climb
<1>5. Len(p) - n \in G /\ Len(p) - (Len(p) - n) = n
  <2>1. Len(p) - n \in 0..Len(p) /\ Len(p) - (Len(p) - n) = n
    BY <1>0
  <2> HIDE DEF G
  <2> QED
    BY <1>4, <2>1
<1> QED
  BY <1>0, <1>1, <1>5

\* Under an entry that is not a directory, or that has no children, there is nothing
\* but itself; nor is there anything under a place that is free.
LEMMA NothingBelow ==
  ASSUME NEW d, NEW b, IsTree(d, b), NEW p \in Seq(Names), NEW q \in DOMAIN d,
         Under(q, p), q # p
  PROVE  /\ KindAt(d, p) = "dir" /\ Children(d, p) # {}
         /\ Len(p) < Len(q)
<1>0. q \in Seq(Names) /\ Len(q) \in Nat /\ Len(p) \in Nat
  BY TreeIs, LenProperties
<1>1. Len(p) <= Len(q) /\ \A i \in 1..Len(p) : q[i] = p[i]
  BY <1>0, UnderIs
<1>2. Len(p) # Len(q)
  BY <1>0, <1>1, SeqEqual
<1>3. ASSUME NEW n \in 0..Len(q)
      PROVE  /\ SubSeq(q, 1, n) \in Seq(Names) /\ Len(SubSeq(q, 1, n)) = n
             /\ SubSeq(q, 1, n) \in DOMAIN d
             /\ n # Len(q) => KindAt(d, SubSeq(q, 1, n)) = "dir"
  BY DirsAbove
<1>4. \A n \in 0..Len(q) : \A i \in 1..n : SubSeq(q, 1, n)[i] = q[i]
  BY <1>0, SubSeqProperties
<1>5. SubSeq(q, 1, Len(p)) = p
  <2>1. Len(p) \in 0..Len(q)
    BY <1>0, <1>1
  <2> QED
    BY <1>1, <1>3, <1>4, <2>1, SeqEqual
<1>6. SubSeq(q, 1, Len(p) + 1) \in Children(d, p)
  <2> DEFINE c == SubSeq(q, 1, Len(p) + 1)
  <2>1. Len(p) + 1 \in 0..Len(q)
    BY <1>0, <1>1, <1>2
  <2>2. c \in DOMAIN d /\ c \in Seq(Names) /\ Len(c) = Len(p) + 1 /\ \A i \in 1..Len(p) : c[i] = q[i]
    BY <1>0, <1>3, <1>4, <2>1
  <2> HIDE DEF c
  <2>3. Under(c, p)
    BY <1>0, <1>1, <2>2, UnderIs
  <2> QED
    BY <2>2, <2>3 DEF Children, c
<1>7. KindAt(d, p) = "dir" /\ Len(p) < Len(q)
  <2>1. Len(p) \in 0..Len(q) /\ Len(p) < Len(q)
    BY <1>0, <1>1, <1>2
  <2>2. KindAt(d, SubSeq(q, 1, Len(p))) = "dir"
    BY <1>3, <2>1
  <2> QED
    BY <1>5, <2>1, <2>2
<1> QED
  BY <1>6, <1>7

\* The place for a new entry is free of everything under it.
LEMMA FreeBelow ==
  ASSUME NEW d, NEW b, IsTree(d, b), NEW p \in Seq(Names), p \notin DOMAIN d, NEW q \in DOMAIN d
  PROVE  ~Under(q, p)
BY NothingBelow DEF KindAt
\* The bytes change, or there are more of them.
LEMMA TreeBytes ==
  ASSUME NEW d, NEW b, IsTree(d, b), NEW c \in Seq(Seq(0..NotText)), Len(b) <= Len(c)
  PROVE  IsTree(d, c)
<1>1. Len(b) \in Nat /\ Len(c) \in Nat
  BY LenProperties DEF IsTree
<1>2. 1..Len(b) \subseteq 1..Len(c)
  BY <1>1
<1>3. Entries(Len(b)) \subseteq Entries(Len(c))
  BY <1>2 DEF Entries
<1>4. d \in [DOMAIN d -> Entries(Len(c))]
  BY <1>3, TreeParts
<1> QED
  BY <1>4, TreeParts

\* Entries may come to free places in directories, their own included.
LEMMA TreeGrows ==
  ASSUME NEW d, NEW b, IsTree(d, b), NEW c \in Seq(Seq(0..NotText)), Len(b) <= Len(c),
         NEW E, NEW e \in [E -> Entries(Len(c))], Rooted(Over(d, e)), Distinct(e),
         \A p \in E : e[p].inode > Len(b)
  PROVE  IsTree(Over(d, e), c)
<1> DEFINE o == Over(d, e)
<1>1. /\ d \in [DOMAIN d -> Entries(Len(c))] /\ Distinct(d) /\ KindAt(d, Root) = "dir"
      /\ Len(b) \in Nat
  BY TreeBytes, TreeParts, TreeIs
<1>2. /\ DOMAIN o = DOMAIN d \cup DOMAIN e /\ \A p \in DOMAIN d : o[p] = d[p]
      /\ \A p \in DOMAIN e \ DOMAIN d : o[p] = e[p]
  BY ZenonT(60), OverIs
<1>3. DOMAIN e = E /\ \A p \in E : e[p] \in Entries(Len(c))
  OBVIOUS
<1> HIDE DEF o
<1>4. o \in [DOMAIN o -> Entries(Len(c))]
  <2>1. \A p \in DOMAIN o : o[p] \in Entries(Len(c))
    BY <1>1, <1>2, <1>3
  <2> QED
    BY <2>1, OverTypes DEF o
<1>5. Distinct(o)
  <2>1. \A p \in DOMAIN d : d[p].inode \in 1..Len(b)
    BY TreeIs
  <2>2. \A p \in E : e[p].inode > Len(b) /\ e[p].inode \in Nat
    BY <1>3 DEF Entries
  <2>3. \A p \in DOMAIN d, q \in E : d[p].inode # e[q].inode
    BY <1>1, <2>1, <2>2
  <2> QED
    BY <1>1, <1>2, <1>3, <2>3 DEF Distinct
<1>6. KindAt(o, Root) = "dir"
  BY <1>1, <1>2 DEF KindAt
<1> QED
  BY <1>4, <1>5, <1>6, TreeParts DEF o

\* What has nothing in it may go.
LEMMA TreeShrinks ==
  ASSUME NEW d, NEW b, IsTree(d, b), NEW p \in DOMAIN d, p # Root, Children(d, p) = {}
  PROVE  IsTree([q \in DOMAIN d \ {p} |-> d[q]], b)
<1> DEFINE s == [q \in DOMAIN d \ {p} |-> d[q]]
<1>1. /\ d \in [DOMAIN d -> Entries(Len(b))] /\ Rooted(d) /\ Distinct(d)
      /\ KindAt(d, Root) = "dir" /\ b \in Seq(Seq(0..NotText))
  BY TreeParts
<1>2. DOMAIN s = DOMAIN d \ {p} /\ \A q \in DOMAIN s : s[q] = d[q]
  OBVIOUS
<1>3. s \in [DOMAIN s -> Entries(Len(b))]
  BY <1>1
<1> HIDE DEF s
<1>4. ASSUME NEW q \in DOMAIN s
      PROVE  q \in Seq(Names) /\ (q # Root => KindAt(s, Front(q)) = "dir")
  <2>1. q \in Seq(Names) /\ p \in Seq(Names)
    BY <1>1, <1>2 DEF Rooted
  <2>2. CASE q # Root
    <3>1. KindAt(d, Front(q)) = "dir" /\ Front(q) \in DOMAIN d
      BY <1>1, <1>2, <2>2 DEF Rooted, KindAt
    <3>2. Front(q) # p
      <4> SUFFICES ASSUME Front(q) = p PROVE FALSE
        OBVIOUS
      <4>1. q = Append(p, Last(q)) /\ Last(q) \in Names
        BY <2>1, <2>2, FrontLast
      <4>2. /\ Len(Append(p, Last(q))) = Len(p) + 1
            /\ \A i \in 1..Len(p) : Append(p, Last(q))[i] = p[i]
        BY <2>1, <4>1, AppendProperties
      <4>3. Len(q) = Len(p) + 1 /\ (\A i \in 1..Len(p) : q[i] = p[i]) /\ Len(p) <= Len(q)
        BY <2>1, <4>1, <4>2, LenProperties
      <4>4. q \in Children(d, p)
        BY <1>2, <2>1, <4>3, UnderIs DEF Children
      <4> QED
        BY <4>4
    <3> QED
      BY <1>2, <2>1, <3>1, <3>2 DEF KindAt
  <2> QED
    BY <2>1, <2>2
<1>5. Distinct(s) /\ KindAt(s, Root) = "dir"
  BY <1>1, <1>2 DEF Distinct, KindAt
<1> QED
  BY <1>1, <1>3, <1>4, <1>5, TreeParts DEF Rooted, s
\* What is behind p in p \o x.
LEMMA ConcatIs ==
  ASSUME NEW S, NEW p \in Seq(S), NEW x \in Seq(S)
  PROVE  /\ p \o x \in Seq(S) /\ Under(p \o x, p)
         /\ SubSeq(p \o x, Len(p) + 1, Len(p \o x)) = x
         /\ x # <<>> => p \o x # Root /\ Front(p \o x) = p \o Front(x)
<1> DEFINE q == p \o x
<1>1. Len(p) \in Nat /\ Len(x) \in Nat
  BY LenProperties
<1>2. /\ q \in Seq(S) /\ Len(q) = Len(p) + Len(x)
      /\ \A i \in 1..(Len(p) + Len(x)) : q[i] = IF i <= Len(p) THEN p[i] ELSE x[i - Len(p)]
  BY ConcatProperties
<1> HIDE DEF q
<1>3. Under(q, p)
  <2>1. Len(p) <= Len(q) /\ \A i \in 1..Len(p) : q[i] = p[i]
    BY <1>1, <1>2
  <2> QED
    BY <1>2, <2>1, UnderIs
<1>4. SubSeq(q, Len(p) + 1, Len(q)) = x
  <2> DEFINE s == SubSeq(q, Len(p) + 1, Len(q))
  <2>1. \A i \in (Len(p) + 1)..Len(q) : q[i] \in S
    BY <1>1, <1>2
  <2>2. /\ s \in Seq(S) /\ Len(s) = Len(x)
        /\ \A i \in 1..Len(x) : s[i] = q[Len(p) + i]
    <3>1. Len(p) + 1 \in Int /\ Len(q) \in Int /\ Len(q) - (Len(p) + 1) + 1 = Len(x)
      BY <1>1, <1>2
    <3>2. /\ s \in Seq(S) /\ Len(s) = IF Len(p) + 1 <= Len(q) THEN Len(q) - (Len(p) + 1) + 1 ELSE 0
          /\ \A i \in 1..(Len(q) - (Len(p) + 1) + 1) : s[i] = q[Len(p) + 1 + i - 1]
      BY <2>1, <3>1, SubSeqProperties
    <3> HIDE DEF s
    <3>3. \A i \in 1..Len(x) : Len(p) + 1 + i - 1 = Len(p) + i
      BY <1>1
    <3> QED
      BY SMTT(40), <1>1, <1>2, <3>1, <3>2, <3>3
  <2>3. ASSUME NEW i \in 1..Len(x) PROVE q[Len(p) + i] = x[i]
    <3>1. /\ Len(p) + i \in 1..(Len(p) + Len(x)) /\ ~(Len(p) + i <= Len(p))
          /\ Len(p) + i - Len(p) = i
      BY <1>1
    <3> QED
      BY <1>2, <3>1
  <2> HIDE DEF s
  <2>4. s = x
    BY <2>2, <2>3, SeqEqual
  <2> QED
    BY <2>4 DEF s
<1>5. ASSUME x # <<>> PROVE q # Root /\ Front(q) = p \o Front(x)
  <2>1. Len(x) # 0
    BY <1>5, EmptyIs
  <2>2. q # Root
    BY <1>1, <1>2, <2>1, EmptyIs DEF Root
  <2>3. /\ Front(q) \in Seq(S) /\ Len(Front(q)) = Len(q) - 1 /\ Last(q) \in S
        /\ q = Append(Front(q), Last(q))
    BY <1>2, <2>2, FrontLast
  <2>4. /\ Front(x) \in Seq(S) /\ Len(Front(x)) = Len(x) - 1 /\ Last(x) \in S
        /\ x = Append(Front(x), Last(x))
    BY <1>5, FrontLast DEF Root
  <2>5. \A i \in 1..Len(Front(q)) : Front(q)[i] = q[i]
    BY SMTT(40), <2>3, AppendProperties
  <2>6. \A i \in 1..Len(Front(x)) : Front(x)[i] = x[i]
    BY <2>4, AppendProperties
  <2> DEFINE r == p \o Front(x)
  <2>7. /\ r \in Seq(S) /\ Len(r) = Len(p) + (Len(x) - 1)
        /\ \A i \in 1..(Len(p) + (Len(x) - 1)) :
             r[i] = IF i <= Len(p) THEN p[i] ELSE Front(x)[i - Len(p)]
    <3> DEFINE f == Front(x)
    <3>1. f \in Seq(S) /\ Len(f) = Len(x) - 1
      BY <2>4
    <3> HIDE DEF f
    <3>2. /\ p \o f \in Seq(S) /\ Len(p \o f) = Len(p) + Len(f)
          /\ \A i \in 1..(Len(p) + Len(f)) :
               (p \o f)[i] = IF i <= Len(p) THEN p[i] ELSE f[i - Len(p)]
      BY <3>1, ConcatProperties
    <3> QED
      BY <3>1, <3>2 DEF f
  <2> HIDE DEF r
  <2>8. Len(Front(q)) = Len(r) /\ Len(r) \in Nat
    BY <1>1, <1>2, <2>1, <2>3, <2>7
  <2>9. ASSUME NEW i \in 1..Len(r) PROVE Front(q)[i] = r[i]
    <3>1. i \in 1..(Len(p) + Len(x)) /\ i \in 1..(Len(p) + (Len(x) - 1)) /\ i \in Nat
      BY <1>1, <2>1, <2>7
    <3>2. Front(q)[i] = IF i <= Len(p) THEN p[i] ELSE x[i - Len(p)]
      BY <1>2, <2>5, <2>8, <3>1
    <3>3. ASSUME ~(i <= Len(p)) PROVE Front(x)[i - Len(p)] = x[i - Len(p)]
      <4>1. i - Len(p) \in 1..Len(Front(x))
        BY <1>1, <2>4, <3>1, <3>3
      <4> QED
        BY <2>6, <4>1
    <3> QED
      BY <2>7, <3>1, <3>2, <3>3
  <2>10. Front(q) = r
    BY <2>3, <2>7, <2>8, <2>9, SeqEqual
  <2> QED
    BY <2>2, <2>10 DEF r
<1> QED
  BY <1>2, <1>3, <1>4, <1>5 DEF q

\* What is under something else is so with what is above it, or is that itself.
LEMMA UnderFront ==
  ASSUME NEW S, NEW p \in Seq(S), NEW q \in Seq(S), q # Root
  PROVE  Under(q, p) <=> q = p \/ Under(Front(q), p)
<1>1. /\ Front(q) \in Seq(S) /\ Len(Front(q)) = Len(q) - 1 /\ Len(p) \in Nat /\ Len(q) \in Nat
      /\ q = Append(Front(q), Last(q)) /\ Last(q) \in S
  BY FrontLast, LenProperties
<1>2. \A i \in 1..Len(Front(q)) : Front(q)[i] = q[i]
  <2>1. \A i \in 1..Len(Front(q)) : Append(Front(q), Last(q))[i] = Front(q)[i]
    BY <1>1, AppendProperties
  <2> QED
    BY <1>1, <2>1
<1>3. Under(q, p) <=> Len(p) <= Len(q) /\ \A i \in 1..Len(p) : q[i] = p[i]
  BY UnderIs
<1>4. Under(Front(q), p) <=> Len(p) <= Len(q) - 1 /\ \A i \in 1..Len(p) : Front(q)[i] = p[i]
  BY <1>1, UnderIs
<1>5. CASE Len(p) <= Len(q) - 1
  <2>1. q # p
    BY <1>1, <1>5
  <2>2. \A i \in 1..Len(p) : Front(q)[i] = q[i]
    BY <1>1, <1>2, <1>5
  <2> QED
    BY <1>1, <1>3, <1>4, <1>5, <2>1, <2>2
<1>6. CASE ~(Len(p) <= Len(q) - 1)
  <2>1. Len(p) <= Len(q) => Len(p) = Len(q)
    BY <1>1, <1>6
  <2>2. Under(q, p) => q = p
    BY <1>3, <2>1, SeqEqual
  <2>3. q = p => Under(q, p)
    BY <1>1, <1>3
  <2> QED
    BY <1>4, <1>6, <2>2, <2>3
<1> QED
  BY <1>5, <1>6
\* The path p moved from below f to below t, and what a move of f to t leaves of
\* disk d.
Shifted(p, f, t) == t \o SubSeq(p, Len(f) + 1, Len(p))
Moving(d, f) == {p \in DOMAIN d : Under(p, f)}
Staying(d, f, t) == {p \in DOMAIN d : p # t /\ ~Under(p, f)}
Moved(d, f, t) == Over([q \in Staying(d, f, t) |-> d[q]],
                       [q \in {Shifted(p, f, t) : p \in Moving(d, f)} |-> d[Shifted(q, t, f)]])

\* A move to another place in a directory leaves a tree, if nothing is in the way.
LEMMA TreeMoves ==
  ASSUME NEW d, NEW b, IsTree(d, b), NEW f \in DOMAIN d, f # Root,
         NEW t, InPlace(d, t), t # Root,
         \/ t = f
         \/ ~Under(t, f) /\ ~Under(f, t) /\ Children(d, t) = {}
  PROVE  IsTree(Moved(d, f, t), b)
<1> DEFINE stay == Staying(d, f, t)
           places == {Shifted(p, f, t) : p \in Moving(d, f)}
           m == Moved(d, f, t)
<1>1. /\ d \in [DOMAIN d -> Entries(Len(b))] /\ Rooted(d) /\ Distinct(d)
      /\ KindAt(d, Root) = "dir" /\ b \in Seq(Seq(0..NotText))
      /\ f \in Seq(Names) /\ t \in Seq(Names) /\ KindAt(d, Front(t)) = "dir"
  BY TreeParts, TreeIs DEF InPlace
<1>2. ASSUME NEW x \in Seq(Names)
      PROVE  /\ f \o x \in Seq(Names) /\ Under(f \o x, f) /\ Shifted(f \o x, f, t) = t \o x
             /\ t \o x \in Seq(Names) /\ Under(t \o x, t) /\ Shifted(t \o x, t, f) = f \o x
  <2>1. /\ f \o x \in Seq(Names) /\ Under(f \o x, f)
        /\ SubSeq(f \o x, Len(f) + 1, Len(f \o x)) = x
    BY <1>1, ConcatIs
  <2>2. /\ t \o x \in Seq(Names) /\ Under(t \o x, t)
        /\ SubSeq(t \o x, Len(t) + 1, Len(t \o x)) = x
    BY <1>1, ConcatIs
  <2> QED
    BY <2>1, <2>2 DEF Shifted
<1>3. ASSUME NEW p \in Moving(d, f)
      PROVE  \E x \in Seq(Names) : p = f \o x
  <2>1. p \in Seq(Names) /\ f \in Seq(Names) /\ Under(p, f)
    BY <1>1 DEF Moving, Rooted
  <2>2. /\ SubSeq(p, Len(f) + 1, Len(p)) \in Seq(Names)
        /\ p = f \o SubSeq(p, Len(f) + 1, Len(p))
    BY <2>1, UnderIs
  <2> QED
    BY <2>2
<1>4. ASSUME NEW q \in places
      PROVE  \E x \in Seq(Names) : /\ q = t \o x /\ f \o x \in DOMAIN d
                                   /\ Shifted(q, t, f) = f \o x
  <2>1. PICK p \in Moving(d, f) : q = Shifted(p, f, t)
    OBVIOUS
  <2>2. PICK x \in Seq(Names) : p = f \o x
    BY <1>3
  <2> QED
    BY <1>2, <2>1, <2>2 DEF Moving
<1>5. ASSUME NEW x \in Seq(Names), f \o x \in DOMAIN d PROVE t \o x \in places
  <2>1. f \o x \in Moving(d, f) /\ Shifted(f \o x, f, t) = t \o x
    BY <1>2, <1>5 DEF Moving
  <2> QED
    BY <2>1
<1> HIDE DEF places
<1>6. ASSUME NEW q \in DOMAIN d, q # t, Under(q, t), ~Under(q, f) PROVE FALSE
  <2>1. t # f /\ Children(d, t) = {}
    BY <1>6
  <2> QED
    BY <1>1, <1>6, <2>1, NothingBelow
<1>7. stay \cap places = {}
  <2> SUFFICES ASSUME NEW q \in stay, q \in places PROVE FALSE
    OBVIOUS
  <2>1. Under(q, t)
    BY <1>2, <1>4
  <2> QED
    BY <1>6, <2>1 DEF Staying
<1>8. /\ DOMAIN m = stay \cup places
      /\ \A q \in stay : m[q] = d[q]
      /\ \A q \in places : m[q] = d[Shifted(q, t, f)]
  <2> DEFINE e1 == [q \in stay |-> d[q]]
             e2 == [q \in places |-> d[Shifted(q, t, f)]]
  <2>1. m = Over(e1, e2)
    BY DEF Moved, places
  <2>2. DOMAIN e1 = stay /\ DOMAIN e2 = places
    OBVIOUS
  <2>3. (\A q \in stay : e1[q] = d[q]) /\ \A q \in places : e2[q] = d[Shifted(q, t, f)]
    OBVIOUS
  <2> HIDE DEF e1, e2, m, stay
  <2>4. \A q \in places : q \notin stay
    BY <1>7
  <2>5. /\ DOMAIN Over(e1, e2) = DOMAIN e1 \cup DOMAIN e2
        /\ \A q \in DOMAIN e1 : Over(e1, e2)[q] = e1[q]
        /\ \A q \in DOMAIN e2 \ DOMAIN e1 : Over(e1, e2)[q] = e2[q]
    BY OverIs
  <2> QED
    BY <2>1, <2>2, <2>3, <2>4, <2>5
<1> HIDE DEF m
<1>9. m \in [DOMAIN m -> Entries(Len(b))]
  <2>1. \A q \in DOMAIN m : m[q] \in Entries(Len(b))
    BY <1>1, <1>4, <1>8 DEF Staying
  <2> QED
    BY <2>1, OverTypes DEF m, Moved
<1>10. Distinct(m)
  <2> DEFINE From(q) == IF q \in stay THEN q ELSE Shifted(q, t, f)
  <2>1. \A q \in DOMAIN m : From(q) \in DOMAIN d /\ m[q] = d[From(q)]
    BY ZenonT(60), <1>4, <1>7, <1>8 DEF Staying
  <2>2. ASSUME NEW p \in DOMAIN m, NEW q \in DOMAIN m, From(p) = From(q) PROVE p = q
    <3>1. \A r \in DOMAIN m : r \notin stay => Under(From(r), f)
      BY <1>2, <1>4, <1>8
    <3>2. p \in stay <=> q \in stay
      BY <2>2, <3>1 DEF Staying
    <3>3. CASE p \notin stay
      <4>1. PICK x \in Seq(Names) : p = t \o x /\ From(p) = f \o x
        BY <1>4, <1>8, <3>3
      <4>2. PICK y \in Seq(Names) : q = t \o y /\ From(q) = f \o y
        BY <1>4, <1>8, <3>2, <3>3
      <4>3. x = y
        BY <1>1, <2>2, <4>1, <4>2, ConcatSimplifications
      <4> QED
        BY <4>1, <4>2, <4>3
    <3> QED
      BY <2>2, <3>2, <3>3
  <2> HIDE DEF From
  <2> QED
    BY <1>1, <2>1, <2>2 DEF Distinct
<1>11. ~Under(Root, f) /\ ~Under(Front(t), f) /\ Front(t) \in Seq(Names) /\ Front(t) # t
  <2>1. ~Under(Root, f)
    <3>1. Len(f) \in Nat /\ Len(f) # 0 /\ Len(Root) = 0 /\ Root \in Seq(Names)
      BY <1>1, LenProperties, EmptyIs, EmptySeq DEF Root
    <3>2. f \in Seq(Names)
      BY <1>1
    <3>3. Under(Root, f) => Len(f) <= Len(Root)
      BY <3>1, <3>2, UnderIs
    <3> QED
      BY <3>1, <3>3
  <2>2. Front(t) \in Seq(Names) /\ Len(Front(t)) = Len(t) - 1 /\ Len(t) \in Nat
    BY <1>1, FrontLast, LenProperties
  <2>3. ~Under(Front(t), f)
    <3>1. CASE t = f
      <4>1. ~(Len(f) <= Len(Front(t)))
        BY <2>2, <3>1
      <4> QED
        <5>1. Under(Front(t), f) => Len(f) <= Len(Front(t))
          BY <1>1, <2>2, UnderIs
        <5> QED
          BY <4>1, <5>1
    <3>2. CASE t # f
      BY <1>1, <3>2, UnderFront
    <3> QED
      BY <3>1, <3>2
  <2> QED
    BY <2>1, <2>2, <2>3
<1>12. \A q \in stay : m[q] = d[q] /\ KindAt(m, q) = KindAt(d, q)
  BY <1>8 DEF KindAt, Staying
<1>13. KindAt(m, Root) = "dir"
  BY <1>1, <1>11, <1>12 DEF Staying, KindAt
<1>14. ASSUME NEW q \in DOMAIN m
       PROVE  q \in Seq(Names) /\ (q # Root => KindAt(m, Front(q)) = "dir")
  <2>1. CASE q \in stay
    <3>1. q \in DOMAIN d /\ q # t /\ ~Under(q, f) /\ q \in Seq(Names)
      BY <1>1, <2>1 DEF Staying, Rooted
    <3>2. ASSUME q # Root PROVE KindAt(m, Front(q)) = "dir"
      <4>1. KindAt(d, Front(q)) = "dir" /\ Front(q) \in DOMAIN d
        BY <1>1, <3>1, <3>2 DEF Rooted, KindAt
      <4>2. ~Under(Front(q), f)
        BY <1>1, <3>1, <3>2, UnderFront
      <4>3. Front(q) # t
        <5>1. ~Under(q, t)
          BY <1>6, <3>1
        <5>2. Under(t, t)
          BY <1>1, UnderIs, LenProperties
        <5> QED
          BY <1>1, <3>1, <3>2, <5>1, <5>2, UnderFront
      <4> QED
        BY <1>12, <4>1, <4>2, <4>3 DEF Staying
    <3> QED
      BY <3>1, <3>2
  <2>2. CASE q \notin stay
    <3>1. PICK x \in Seq(Names) : q = t \o x /\ f \o x \in DOMAIN d
      BY <1>4, <1>8, <2>2
    <3>2. q \in Seq(Names)
      BY <1>2, <3>1
    <3>3. CASE x = <<>>
      <4>1. q = t
        BY <1>1, <3>1, <3>3, ConcatEmptySeq
      <4>2. Front(t) \in stay
        BY <1>1, <1>11 DEF Staying, KindAt
      <4> QED
        BY <1>1, <1>12, <3>2, <4>1, <4>2
    <3>4. CASE x # <<>>
      <4>1. /\ Front(q) = t \o Front(x) /\ Front(f \o x) = f \o Front(x) /\ f \o x # Root
            /\ Front(x) \in Seq(Names)
        <5>1. Front(t \o x) = t \o Front(x)
          BY <1>1, <3>4, ConcatIs
        <5>4. f \in Seq(Names)
          BY <1>1
        <5>5. x # <<>> => f \o x # Root /\ Front(f \o x) = f \o Front(x)
          BY SMTT(40), <5>4, ConcatIs
        <5>2. Front(f \o x) = f \o Front(x) /\ f \o x # Root
          BY <3>4, <5>5
        <5>3. Front(x) \in Seq(Names)
          BY <3>4, FrontLast DEF Root
        <5> QED
          BY <3>1, <5>1, <5>2, <5>3
      <4>2. KindAt(d, f \o Front(x)) = "dir" /\ f \o Front(x) \in DOMAIN d
        BY <1>1, <3>1, <4>1 DEF Rooted, KindAt
      <4>3. Front(q) \in places
        BY <1>5, <4>1, <4>2
      <4>4. m[Front(q)] = d[f \o Front(x)]
        BY <1>2, <1>8, <4>1, <4>3
      <4> QED
        BY <1>8, <3>2, <4>2, <4>3, <4>4 DEF KindAt
    <3> QED
      BY <3>3, <3>4
  <2> QED
    BY <2>1, <2>2
<1> QED
  BY <1>1, <1>9, <1>10, <1>13, <1>14, TreeParts DEF Rooted, m
-----------------------------------------------------------------------------
(* What the calls leave.                                                   *)

\* A call leaves a tree, and every inode its bytes.
Sound(call) == IsTree(call.disk, call.data) /\ Len(data) <= Len(call.data)

\* A call that fails does so.
LEMMA FailsSound ==
  ASSUME IsTree(disk, data), NEW e
  PROVE  Sound(Fails(e))
<1>1. Len(data) \in Nat
  BY TreeIs
<1> QED
  BY <1>1, FailsIs DEF Sound

\* So does one whose checks are good if it does where none applies.
LEMMA UnlessSound ==
  ASSUME IsTree(disk, data), NEW n \in Nat, NEW checks, DOMAIN checks = 1..n, NEW call,
         \A k \in 1..n : checks[k][1] => checks[k][2] # "ok",
         (\A k \in 1..n : ~checks[k][1]) => Sound(call)
  PROVE  Sound(Unless(checks, call))
BY UnlessIs, FailsSound

\* Where a path leads on the disk.
LEMMA EntryIs ==
  ASSUME IsTree(disk, data), NEW path \in Seq(Names), NEW follow
  PROVE  /\ Entry(disk, path, follow).path \in Seq(Names)
         /\ Entry(disk, path, follow).error = "ok" =>
              /\ Entry(disk, path, follow) = Locate(disk, path, follow)
              /\ Entry(disk, path, follow).path \in Present
         /\ Entry(disk, path, follow).error # "ok" => Kind(Root) = "dir"
<1>1. Linked(disk) /\ Kind(Root) = "dir"
  BY TreeIs DEF Kind, KindAt, Present
<1>2. Locate(disk, path, follow).path \in Seq(Names) /\ Root \in Seq(Names)
  BY <1>1, LocateTypes, EmptySeq DEF Root
<1> DEFINE l == Locate(disk, path, follow)
<1>3. Entry(disk, path, follow) = IF l.error = "ok" /\ l.path \notin Present
                                  THEN Error("NotFound") ELSE l
  BY DEF Entry, Present
<1>4. Error("NotFound").error = "NotFound" /\ Error("NotFound").path = Root
  BY DEF Error
<1> HIDE DEF l
<1> QED
  BY <1>1, <1>2, <1>3, <1>4 DEF l

\* A new entry at a place that is free.
LEMMA AddsSound ==
  ASSUME IsTree(disk, data), NEW p, InPlace(disk, p), p \notin Present,
         NEW entry \in Entries(NextInode), entry.inode = NextInode
  PROVE  /\ Sound(Adds(p, entry)) /\ Adds(p, entry).error = "ok"
         /\ Adds(p, entry).disk[p] = entry /\ Len(Adds(p, entry).data) = NextInode
<1> DEFINE e == [q \in {p} |-> entry]
           o == Over(disk, e)
           c == Append(data, <<>>)
<1>1. Adds(p, entry).error = "ok" /\ Adds(p, entry).disk = o /\ Adds(p, entry).data = c
  BY LeavesIs DEF Adds
<1>2. data \in Seq(Seq(0..NotText)) /\ Len(data) \in Nat
  BY TreeIs
<1>3. c \in Seq(Seq(0..NotText)) /\ Len(c) = Len(data) + 1
  BY <1>2, EmptySeq, AppendProperties
<1>4. /\ DOMAIN o = Present \cup {p} /\ \A q \in Present : o[q] = disk[q]
      /\ o[p] = entry
  <2>1. DOMAIN e = {p} /\ e[p] = entry
    OBVIOUS
  <2> HIDE DEF e
  <2>2. /\ DOMAIN Over(disk, e) = DOMAIN disk \cup DOMAIN e
        /\ \A q \in DOMAIN disk : Over(disk, e)[q] = disk[q]
        /\ \A q \in DOMAIN e \ DOMAIN disk : Over(disk, e)[q] = e[q]
    BY OverIs
  <2> QED
    BY <2>1, <2>2 DEF Present
<1>5. e \in [{p} -> Entries(Len(c))] /\ Distinct(e) /\ \A q \in {p} : e[q].inode > Len(data)
  BY <1>2, <1>3 DEF NextInode, Distinct
<1>6. Rooted(o)
  <2>1. Rooted(disk)
    BY TreeParts
  <2>2. \A q : KindAt(disk, q) = "dir" => KindAt(o, q) = "dir"
    BY <1>4 DEF KindAt, Present
  <2> HIDE DEF o
  <2> QED
    BY <1>4, <2>1, <2>2 DEF Rooted, InPlace, Present
<1>7. IsTree(o, c)
  <2> DEFINE E == {p}
  <2>1. e \in [E -> Entries(Len(c))] /\ \A q \in E : e[q].inode > Len(data)
    BY <1>5
  <2>2. Len(data) <= Len(c)
    BY <1>2, <1>3
  <2> HIDE DEF c, e, E
  <2> QED
    BY <1>3, <1>5, <1>6, <2>1, <2>2, TreeGrows
<1> HIDE DEF o, c
<1> QED
  BY <1>1, <1>2, <1>3, <1>4, <1>7 DEF Sound, NextInode

\* What may be made: a directory, a file, a link.
LEMMA NewEntries ==
  ASSUME IsTree(disk, data), NEW p \in Seq(Names)
  PROVE  \A entry \in {Dir(NextInode), File(NextInode), Link(NextInode, p)} :
           entry \in Entries(NextInode) /\ entry.inode = NextInode
<1>1. NextInode \in 1..NextInode /\ Root \in Seq(Names)
  BY TreeIs, EmptySeq DEF NextInode, Root
<1> QED
  BY <1>1 DEF Dir, File, Link, Entries

\* mkdir, symlink and an open that must create: what is there then is what was made.
LEMMA MakeNewSound ==
  ASSUME IsTree(disk, data), NEW path \in Seq(Names),
         NEW entry \in Entries(NextInode), entry.inode = NextInode
  PROVE  /\ Sound(MakeNew(path, entry))
         /\ MakeNew(path, entry).error = "ok" =>
              /\ MakeNew(path, entry).disk[Locate(disk, path, FALSE).path].inode = NextInode
              /\ Len(MakeNew(path, entry).data) = NextInode
<1> DEFINE l == Locate(disk, path, FALSE)
           checks == <<Resolved(l), <<l.path \in Present, "AlreadyExists">>>>
<1>1. MakeNew(path, entry) = Unless(checks, Adds(l.path, entry))
  BY DEF MakeNew
<1> HIDE DEF l
<1>2. /\ DOMAIN checks = 1..2
      /\ (checks[1][1] <=> l.error # "ok") /\ checks[1][2] = l.error
      /\ (checks[2][1] <=> l.path \in Present) /\ checks[2][2] = "AlreadyExists"
  <2>1. DOMAIN checks = 1..2
    OBVIOUS
  <2>2. (checks[1][1] <=> l.error # "ok") /\ checks[1][2] = l.error
    BY DEF Resolved
  <2>3. (checks[2][1] <=> l.path \in Present) /\ checks[2][2] = "AlreadyExists"
    OBVIOUS
  <2> HIDE DEF checks
  <2> QED
    BY <2>1, <2>2, <2>3
<1> HIDE DEF checks
<1>3. \A k \in 1..2 : checks[k][1] => checks[k][2] # "ok"
  BY <1>2
<1>4. ASSUME \A k \in 1..2 : ~checks[k][1]
      PROVE  l.error = "ok" /\ l.path \notin Present
  <2>1. ~checks[1][1] /\ ~checks[2][1]
    BY <1>4
  <2> QED
    BY <1>2, <2>1
<1>a. l.error = "ok" => InPlace(disk, l.path)
  <2>1. ASSUME Locate(disk, path, FALSE).error = "ok"
        PROVE  InPlace(disk, Locate(disk, path, FALSE).path)
    BY ZenonT(60), <2>1, LocateInPlace
  <2> QED
    BY <2>1 DEF l
<1>5. ASSUME \A k \in 1..2 : ~checks[k][1]
      PROVE  /\ Sound(Adds(l.path, entry))
             /\ Adds(l.path, entry).disk[l.path].inode = NextInode
             /\ Len(Adds(l.path, entry).data) = NextInode
  <2>1. InPlace(disk, l.path) /\ l.path \notin Present
    BY <1>a, <1>4, <1>5
  <2>2. /\ Sound(Adds(l.path, entry))
        /\ Adds(l.path, entry).disk[l.path] = entry
        /\ Len(Adds(l.path, entry).data) = NextInode
    BY ZenonT(60), <2>1, AddsSound
  <2> QED
    BY <2>2
<1>6. \/ Unless(checks, Adds(l.path, entry)) = Adds(l.path, entry) /\ \A k \in 1..2 : ~checks[k][1]
      \/ \E e : Unless(checks, Adds(l.path, entry)) = Fails(e) /\ e # "ok"
  <2> DEFINE call == Adds(l.path, entry)
             n == 2
  <2>2. n \in Nat /\ DOMAIN checks = 1..n /\ \A k \in 1..n : checks[k][1] => checks[k][2] # "ok"
    BY <1>2, <1>3
  <2>1. \/ Unless(checks, call) = call /\ \A k \in 1..2 : ~checks[k][1]
        \/ \E e : Unless(checks, call) = Fails(e) /\ e # "ok"
    <3> HIDE DEF call, n
    <3>1. \/ Unless(checks, call) = call /\ \A k \in 1..n : ~checks[k][1]
          \/ \E e : Unless(checks, call) = Fails(e) /\ e # "ok"
      BY <2>2, UnlessIs
    <3> QED
      BY <3>1 DEF n
  <2> QED
    BY <2>1 DEF call
<1> QED
  BY <1>1, <1>5, <1>6, FailsSound, FailsIs DEF l

\* open that may create.
LEMMA OpenEmptySound ==
  ASSUME IsTree(disk, data), NEW path \in Seq(Names)
  PROVE  Sound(OpenEmpty(path))
<1> DEFINE l == Locate(disk, path, TRUE)
           checks == <<Resolved(l), <<Kind(l.path) = "dir", "IsADirectory">>>>
           call == IF l.path \in Present
                   THEN Leaves(disk, [data EXCEPT ![disk[l.path].inode] = <<>>])
                   ELSE Adds(l.path, File(NextInode))
<1>1. OpenEmpty(path) = Unless(checks, call)
  BY DEF OpenEmpty
<1> HIDE DEF l
<1>2. /\ DOMAIN checks = 1..2
      /\ (checks[1][1] <=> l.error # "ok") /\ checks[1][2] = l.error
      /\ (checks[2][1] <=> Kind(l.path) = "dir") /\ checks[2][2] = "IsADirectory"
  <2>1. DOMAIN checks = 1..2
    OBVIOUS
  <2>2. (checks[1][1] <=> l.error # "ok") /\ checks[1][2] = l.error
    BY DEF Resolved
  <2>3. (checks[2][1] <=> Kind(l.path) = "dir") /\ checks[2][2] = "IsADirectory"
    OBVIOUS
  <2> HIDE DEF checks
  <2> QED
    BY <2>1, <2>2, <2>3
<1> HIDE DEF checks
<1>3. \A k \in 1..2 : checks[k][1] => checks[k][2] # "ok"
  BY <1>2
<1>4. ASSUME \A k \in 1..2 : ~checks[k][1]
      PROVE  l.error = "ok"
  <2>1. ~checks[1][1] /\ ~checks[2][1]
    BY <1>4
  <2> QED
    BY <1>2, <2>1
<1> USE DEF l
<1>5. ASSUME \A k \in 1..2 : ~checks[k][1] PROVE Sound(call)
  <2>1. CASE l.path \in Present
    <3> DEFINE c == [data EXCEPT ![disk[l.path].inode] = <<>>]
    <3>1. disk[l.path].inode \in 1..Len(data) /\ data \in Seq(Seq(0..NotText)) /\ Len(data) \in Nat
      BY <2>1, TreeIs DEF Present
    <3>2. c \in Seq(Seq(0..NotText)) /\ Len(c) = Len(data)
      <4> DEFINE i == disk[l.path].inode
                 bytes == Seq(0..NotText)
      <4>1. i \in 1..Len(data) /\ <<>> \in bytes /\ data \in Seq(bytes)
        BY <3>1, EmptySeq
      <4> HIDE DEF i, bytes
      <4>2. [data EXCEPT ![i] = <<>>] \in Seq(bytes) /\ Len([data EXCEPT ![i] = <<>>]) = Len(data)
        BY <4>1, ExceptSeq
      <4> QED
        BY <4>2 DEF i, bytes
    <3>3. call.disk = disk /\ call.data = c
      BY <2>1, LeavesIs
    <3> HIDE DEF c, call
    <3>4. IsTree(disk, c)
      BY <3>1, <3>2, TreeBytes
    <3> QED
      BY <3>1, <3>2, <3>3, <3>4 DEF Sound
  <2>2. CASE l.path \notin Present
    <3>1. InPlace(disk, l.path)
      BY <1>4, <1>5, LocateInPlace
    <3>2. File(NextInode) \in Entries(NextInode) /\ File(NextInode).inode = NextInode
      BY EmptySeq, NewEntries DEF Root
    <3>3. call = Adds(l.path, File(NextInode))
      BY <2>2
    <3> HIDE DEF call
    <3> QED
      BY ZenonT(60), <2>2, <3>1, <3>2, <3>3, AddsSound
  <2> QED
    BY <2>1, <2>2
<1> HIDE DEF call
<1> QED
  BY <1>1, <1>2, <1>3, <1>5, UnlessSound
\* What has nothing in it goes, whatever else there is.
LEMMA DropsSound ==
  ASSUME IsTree(disk, data), NEW p \in Present, p # Root, Children(disk, p) = {}
  PROVE  Sound(Drops({p})) /\ Drops({p}).error = "ok"
<1> DEFINE s == [q \in Present \ {p} |-> disk[q]]
<1>1. Drops({p}).error = "ok" /\ Drops({p}).disk = s /\ Drops({p}).data = data
  BY LeavesIs DEF Drops
<1>2. IsTree(s, data)
  BY TreeShrinks DEF Present
<1>3. Len(data) \in Nat
  BY TreeIs
<1> HIDE DEF s
<1> QED
  BY <1>1, <1>2, <1>3 DEF Sound

\* An entry that is not a directory has nothing in it.
LEMMA NotDirIs ==
  ASSUME IsTree(disk, data), NEW p \in Present, Kind(p) # "dir"
  PROVE  p # Root /\ Children(disk, p) = {}
<1>1. p # Root /\ KindAt(disk, p) # "dir" /\ p \in Seq(Names)
  BY TreeIs DEF Kind, KindAt, Present
<1>2. ASSUME NEW q \in Children(disk, p) PROVE FALSE
  <2>1. q \in DOMAIN disk /\ Under(q, p) /\ Len(q) = Len(p) + 1
    BY <1>2 DEF Children
  <2>2. q # p
    BY <1>1, <2>1, LenProperties
  <2> QED
    BY <1>1, <2>1, <2>2, NothingBelow
<1> QED
  BY <1>1, <1>2

\* unlink
LEMMA UnlinkSound ==
  ASSUME IsTree(disk, data), NEW path \in Seq(Names)
  PROVE  Sound(Unlink(path))
<1> DEFINE l == Lstat(path)
           checks == <<Resolved(l), <<Kind(l.path) = "dir", "IsADirectory">>>>
<1>1. Unlink(path) = Unless(checks, Drops({l.path}))
  BY DEF Unlink
<1> HIDE DEF l
<1>2. /\ DOMAIN checks = 1..2
      /\ (checks[1][1] <=> l.error # "ok") /\ checks[1][2] = l.error
      /\ (checks[2][1] <=> Kind(l.path) = "dir") /\ checks[2][2] = "IsADirectory"
  <2>1. DOMAIN checks = 1..2
    OBVIOUS
  <2>2. (checks[1][1] <=> l.error # "ok") /\ checks[1][2] = l.error
    BY DEF Resolved
  <2>3. (checks[2][1] <=> Kind(l.path) = "dir") /\ checks[2][2] = "IsADirectory"
    OBVIOUS
  <2> HIDE DEF checks
  <2> QED
    BY <2>1, <2>2, <2>3
<1> HIDE DEF checks
<1>3. \A k \in 1..2 : checks[k][1] => checks[k][2] # "ok"
  BY <1>2
<1>4. ASSUME \A k \in 1..2 : ~checks[k][1]
      PROVE  l.error = "ok" /\ Kind(l.path) # "dir"
  <2>1. ~checks[1][1] /\ ~checks[2][1]
    BY <1>4
  <2> QED
    BY <1>2, <2>1
<1> USE DEF l
<1>5. ASSUME \A k \in 1..2 : ~checks[k][1] PROVE Sound(Drops({l.path}))
  <2>1. l.path \in Present
    BY <1>4, <1>5, EntryIs DEF Lstat
  <2> HIDE DEF l
  <2> QED
    BY <1>4, <1>5, <2>1, NotDirIs, DropsSound
<1> HIDE DEF l
<1> QED
  BY <1>1, <1>2, <1>3, <1>5, UnlessSound

\* rmdir
LEMMA RmdirSound ==
  ASSUME IsTree(disk, data), NEW path \in Seq(Names)
  PROVE  Sound(Rmdir(path))
<1> DEFINE l == Lstat(path)
           checks == <<Resolved(l), <<Kind(l.path) # "dir", "NotADirectory">>,
                       <<l.path = Root, "Busy">>, <<Children(disk, l.path) # {}, "NotEmpty">>>>
<1>1. Rmdir(path) = Unless(checks, Drops({l.path}))
  BY DEF Rmdir
<1> HIDE DEF l
<1>2. /\ DOMAIN checks = 1..4
      /\ (checks[1][1] <=> l.error # "ok") /\ checks[1][2] = l.error
      /\ (checks[2][1] <=> Kind(l.path) # "dir") /\ checks[2][2] = "NotADirectory"
      /\ (checks[3][1] <=> l.path = Root) /\ checks[3][2] = "Busy"
      /\ (checks[4][1] <=> Children(disk, l.path) # {}) /\ checks[4][2] = "NotEmpty"
  <2>1. DOMAIN checks = 1..4
    OBVIOUS
  <2>2. (checks[1][1] <=> l.error # "ok") /\ checks[1][2] = l.error
    BY DEF Resolved
  <2>3. (checks[2][1] <=> Kind(l.path) # "dir") /\ checks[2][2] = "NotADirectory"
    OBVIOUS
  <2>4. (checks[3][1] <=> l.path = Root) /\ checks[3][2] = "Busy"
    OBVIOUS
  <2>5. (checks[4][1] <=> Children(disk, l.path) # {}) /\ checks[4][2] = "NotEmpty"
    OBVIOUS
  <2> HIDE DEF checks
  <2> QED
    BY <2>1, <2>2, <2>3, <2>4, <2>5
<1> HIDE DEF checks
<1>3. \A k \in 1..4 : checks[k][1] => checks[k][2] # "ok"
  BY <1>2
<1>4. ASSUME \A k \in 1..4 : ~checks[k][1]
      PROVE  l.error = "ok" /\ l.path # Root /\ Children(disk, l.path) = {}
  <2>1. ~checks[1][1] /\ ~checks[2][1] /\ ~checks[3][1] /\ ~checks[4][1]
    BY <1>4
  <2> QED
    BY <1>2, <2>1
<1> USE DEF l
<1>5. ASSUME \A k \in 1..4 : ~checks[k][1] PROVE Sound(Drops({l.path}))
  <2>1. l.path \in Present
    BY <1>4, <1>5, EntryIs DEF Lstat
  <2> HIDE DEF l
  <2> QED
    BY <1>4, <1>5, <2>1, DropsSound
<1> HIDE DEF l
<1> QED
  BY <1>1, <1>2, <1>3, <1>5, UnlessSound

\* rename
LEMMA RenameSound ==
  ASSUME IsTree(disk, data), NEW path \in Seq(Names), NEW to \in Seq(Names)
  PROVE  Sound(Rename(path, to))
<1> DEFINE f == Lstat(path)
           t == Locate(disk, to, FALSE)
           From(q) == f.path \o SubSeq(q, Len(t.path) + 1, Len(q))
           places == {t.path \o SubSeq(p, Len(f.path) + 1, Len(p)) :
                        p \in {p \in Present : Under(p, f.path)}}
           stay == {p \in Present : p # t.path /\ ~Under(p, f.path)}
           directory == Kind(f.path) = "dir"
           checks == <<Resolved(f), Resolved(t),
               <<Root \in {f.path, t.path}, "Busy">>,
               <<Under(t.path, f.path) /\ t.path # f.path, "InvalidInput">>,
               <<Under(f.path, t.path) /\ t.path # f.path, "NotEmpty">>,
               <<directory /\ Kind(t.path) \in {"file", "link"}, "NotADirectory">>,
               <<~directory /\ Kind(t.path) = "dir", "IsADirectory">>,
               <<t.path # f.path /\ Children(disk, t.path) # {}, "NotEmpty">>>>
           call == Leaves(Over([q \in stay |-> disk[q]], [q \in places |-> disk[From(q)]]), data)
<1>1. Rename(path, to) = Unless(checks, call)
  BY DEF Rename
<1> HIDE DEF f, t
<1>2. /\ DOMAIN checks = 1..8
      /\ (checks[1][1] <=> f.error # "ok") /\ checks[1][2] = f.error
      /\ (checks[2][1] <=> t.error # "ok") /\ checks[2][2] = t.error
      /\ (checks[3][1] <=> Root \in {f.path, t.path}) /\ checks[3][2] = "Busy"
      /\ (checks[4][1] <=> Under(t.path, f.path) /\ t.path # f.path) /\ checks[4][2] = "InvalidInput"
      /\ (checks[5][1] <=> Under(f.path, t.path) /\ t.path # f.path) /\ checks[5][2] = "NotEmpty"
      /\ (checks[6][1] <=> directory /\ Kind(t.path) \in {"file", "link"}) /\ checks[6][2] = "NotADirectory"
      /\ (checks[7][1] <=> ~directory /\ Kind(t.path) = "dir") /\ checks[7][2] = "IsADirectory"
      /\ (checks[8][1] <=> t.path # f.path /\ Children(disk, t.path) # {}) /\ checks[8][2] = "NotEmpty"
  <2>1. DOMAIN checks = 1..8
    OBVIOUS
  <2>2. (checks[1][1] <=> f.error # "ok") /\ checks[1][2] = f.error
    BY DEF Resolved
  <2>3. (checks[2][1] <=> t.error # "ok") /\ checks[2][2] = t.error
    BY DEF Resolved
  <2>4. (checks[3][1] <=> Root \in {f.path, t.path}) /\ checks[3][2] = "Busy"
    OBVIOUS
  <2>5. (checks[4][1] <=> Under(t.path, f.path) /\ t.path # f.path) /\ checks[4][2] = "InvalidInput"
    OBVIOUS
  <2>6. (checks[5][1] <=> Under(f.path, t.path) /\ t.path # f.path) /\ checks[5][2] = "NotEmpty"
    OBVIOUS
  <2>7. (checks[6][1] <=> directory /\ Kind(t.path) \in {"file", "link"}) /\ checks[6][2] = "NotADirectory"
    OBVIOUS
  <2>8. (checks[7][1] <=> ~directory /\ Kind(t.path) = "dir") /\ checks[7][2] = "IsADirectory"
    OBVIOUS
  <2>9. (checks[8][1] <=> t.path # f.path /\ Children(disk, t.path) # {}) /\ checks[8][2] = "NotEmpty"
    OBVIOUS
  <2> HIDE DEF checks
  <2> QED
    BY <2>1, <2>2, <2>3, <2>4, <2>5, <2>6, <2>7, <2>8, <2>9
<1> HIDE DEF checks
<1>3. \A k \in 1..8 : checks[k][1] => checks[k][2] # "ok"
  BY <1>2
<1>4. ASSUME \A k \in 1..8 : ~checks[k][1]
      PROVE  /\ f.error = "ok" /\ t.error = "ok" /\ f.path # Root /\ t.path # Root
             /\ \/ t.path = f.path
                \/ /\ ~Under(t.path, f.path) /\ ~Under(f.path, t.path)
                   /\ Children(disk, t.path) = {}
  <2>1. ~checks[1][1] /\ ~checks[2][1] /\ ~checks[3][1] /\ ~checks[4][1] /\ ~checks[5][1] /\ ~checks[6][1] /\ ~checks[7][1] /\ ~checks[8][1]
    BY <1>4
  <2> QED
    BY <1>2, <2>1
<1> USE DEF f, t
<1>5. call.disk = Moved(disk, f.path, t.path) /\ call.data = data
  <2>1. Staying(disk, f.path, t.path) = stay
    BY DEF Staying, Present
  <2>2. {Shifted(p, f.path, t.path) : p \in Moving(disk, f.path)} = places
    BY DEF Moving, Shifted, Present
  <2>3. \A q : Shifted(q, t.path, f.path) = From(q)
    BY DEF Shifted
  <2>4. call.disk = Over([q \in stay |-> disk[q]], [q \in places |-> disk[From(q)]]) /\ call.data = data
    BY LeavesIs
  <2> HIDE DEF call, stay, places, From, f, t
  <2>5. [q \in places |-> disk[From(q)]] = [q \in places |-> disk[Shifted(q, t.path, f.path)]]
    BY <2>3
  <2> QED
    BY <2>1, <2>2, <2>4, <2>5 DEF Moved
<1> HIDE DEF call
<1>6. ASSUME \A k \in 1..8 : ~checks[k][1] PROVE Sound(call)
  <2>1. f.path \in Present
    BY <1>4, <1>6, EntryIs DEF Lstat
  <2>2. InPlace(disk, t.path)
    BY <1>4, <1>6, LocateInPlace
  <2> HIDE DEF f, t
  <2>3. IsTree(Moved(disk, f.path, t.path), data)
    BY <1>4, <1>6, <2>1, <2>2, TreeMoves DEF Present
  <2>4. Len(data) \in Nat
    BY TreeIs
  <2> QED
    BY <1>5, <2>3, <2>4 DEF Sound
<1> QED
  BY ZenonT(60), <1>1, <1>2, <1>3, <1>6, UnlessSound
\* A set of numbers up to n that is not empty has a greatest member.
LEMMA GreatestOf ==
  ASSUME NEW n \in Nat, NEW T \in SUBSET (0..n), T # {}
  PROVE  Max(T) \in T /\ \A y \in T : y <= Max(T)
<1> DEFINE R == {n - x : x \in T}
<1>1. R \in SUBSET Nat /\ R # {}
  <2>1. \A x \in T : n - x \in Nat
    OBVIOUS
  <2>2. \E x \in T : n - x \in R
    OBVIOUS
  <2> QED
    BY <2>1, <2>2
<1>2. PICK m \in R : \A y \in R : m <= y
  <2> HIDE DEF R
  <2> QED
    BY <1>1, LeastOf
<1>3. PICK x \in T : m = n - x
  BY <1>2
<1>4. \A y \in T : x >= y
  <2> TAKE y \in T
  <2>1. n - x <= n - y
    BY <1>2, <1>3
  <2> QED
    BY <2>1
<1>5. Max(T) \in T /\ \A y \in T : Max(T) >= y
  BY <1>4 DEF Max
<1> QED
  BY <1>5

\* What create_dir_all makes below `base`: `names`, each in the one before it.
LEMMA MakesSound ==
  ASSUME IsTree(disk, data), NEW base \in Present, Kind(base) = "dir",
         NEW names \in Seq(Names), names # <<>> => Append(base, names[1]) \notin Present,
         NEW E, E = {base \o SubSeq(names, 1, n) : n \in 1..Len(names)},
         NEW e, e = [q \in E |-> Dir(NextInode + Len(q) - Len(base) - 1)],
         NEW b, b = [i \in 1..Len(names) |-> <<>>]
  PROVE  /\ IsTree(Over(disk, e), data \o b) /\ Len(data) <= Len(data \o b)
<1>0. /\ base \in Seq(Names) /\ Len(data) \in Nat /\ data \in Seq(Seq(0..NotText))
      /\ Len(names) \in Nat /\ Len(base) \in Nat
  BY TreeIs, LenProperties DEF Present
<1>1. b \in Seq(Seq(0..NotText)) /\ Len(b) = Len(names)
  <2>1. b \in [1..Len(names) -> Seq(0..NotText)] /\ DOMAIN b = 1..Len(names)
    BY EmptySeq
  <2> QED
    BY <1>0, <2>1
<1>2. data \o b \in Seq(Seq(0..NotText)) /\ Len(data \o b) = Len(data) + Len(names)
  <2> DEFINE bytes == Seq(0..NotText)
  <2> HIDE DEF bytes
  <2> QED
    BY <1>0, <1>1, ConcatProperties DEF bytes
<1> DEFINE At(n) == base \o SubSeq(names, 1, n)
<1>3. ASSUME NEW n \in 1..Len(names)
      PROVE  /\ At(n) \in Seq(Names) /\ Len(At(n)) = Len(base) + n
             /\ At(n) # Root /\ Front(At(n)) = IF n = 1 THEN base ELSE At(n - 1)
             /\ Under(At(n), Append(base, names[1]))
  <2> DEFINE s == SubSeq(names, 1, n)
  <2>1. n \in Int /\ 1 \in Int /\ 1 <= n /\ n <= Len(names) /\ \A i \in 1..n : names[i] \in Names
    BY <1>0
  <2>2. /\ s \in Seq(Names) /\ Len(s) = n /\ \A i \in 1..n : s[i] = names[i]
    <3>1. /\ s \in Seq(Names) /\ Len(s) = IF 1 <= n THEN n - 1 + 1 ELSE 0
          /\ \A i \in 1..(n - 1 + 1) : s[i] = names[1 + i - 1]
      BY <2>1, SubSeqProperties
    <3> HIDE DEF s
    <3> QED
      BY <2>1, <3>1
  <2> HIDE DEF s
  <2>3. s # <<>>
    BY <2>1, <2>2, EmptyIs
  <2>4. At(n) = base \o s
    BY DEF s
  <2>5. base \o s \in Seq(Names) /\ Len(base \o s) = Len(base) + n
    BY <1>0, <2>2, ConcatProperties
  <2>6. base \o s # Root /\ Front(base \o s) = base \o Front(s)
    BY ZenonT(60), <1>0, <2>2, <2>3, ConcatIs
  <2>7. base \o Front(s) = IF n = 1 THEN base ELSE At(n - 1)
    <3>1. Front(s) = SubSeq(s, 1, n - 1)
      BY <2>2 DEF Front
    <3>2. CASE n = 1
      <4>1. Front(s) = <<>>
        BY <3>1, <3>2, SubSeqEmpty
      <4> QED
        BY <1>0, <3>2, <4>1, ConcatEmptySeq
    <3>3. CASE n # 1
      <4>1. /\ names \in Seq(Names) /\ 1 \in 1..Len(names) /\ n \in 1..Len(names)
            /\ 1 \in 1..(n - 1 + 1) /\ n - 1 \in 1..(n - 1 + 1)
        BY <1>0, <2>1, <3>3
      <4>2. SubSeq(SubSeq(names, 1, n), 1, n - 1) = SubSeq(names, 1 + 1 - 1, 1 + (n - 1) - 1)
        BY <4>1, SubSeqOfSubSeq
      <4>3. 1 + 1 - 1 = 1 /\ 1 + (n - 1) - 1 = n - 1
        BY <2>1
      <4>4. Front(s) = SubSeq(names, 1, n - 1)
        BY <3>1, <4>2, <4>3 DEF s
      <4> QED
        BY <3>3, <4>4
    <3> QED
      BY <3>2, <3>3
  <2>8. Under(base \o s, Append(base, names[1]))
    <3> DEFINE a == Append(base, names[1])
    <3>1. names[1] \in Names
      BY <2>1
    <3>2. /\ a \in Seq(Names) /\ Len(a) = Len(base) + 1 /\ a[Len(base) + 1] = names[1]
          /\ \A i \in 1..Len(base) : a[i] = base[i]
      BY <1>0, <3>1, AppendProperties
    <3> HIDE DEF a
    <3>3. \A i \in 1..(Len(base) + n) : (base \o s)[i] = IF i <= Len(base) THEN base[i] ELSE s[i - Len(base)]
      BY <1>0, <2>2, ConcatProperties
    <3>4. ASSUME NEW i \in 1..Len(a) PROVE (base \o s)[i] = a[i]
      <4>1. CASE i <= Len(base)
        BY <1>0, <2>1, <3>2, <3>3, <4>1
      <4>2. CASE ~(i <= Len(base))
        <5>1. i = Len(base) + 1 /\ i - Len(base) = 1 /\ i \in 1..(Len(base) + n) /\ 1 \in 1..n
          BY <1>0, <2>1, <3>2, <4>2
        <5>2. (base \o s)[i] = s[1]
          BY <3>3, <4>2, <5>1
        <5> QED
          BY <2>2, <3>2, <5>1, <5>2
      <4> QED
        BY <4>1, <4>2
    <3>5. Len(a) <= Len(base \o s)
      BY <1>0, <2>1, <2>5, <3>2
    <3>6. Under(base \o s, a)
      BY <2>5, <3>2, <3>4, <3>5, UnderIs
    <3> QED
      BY <3>6 DEF a
  <2> HIDE DEF At
  <2> QED
    BY <2>4, <2>5, <2>6, <2>7, <2>8
<1>4. E = {At(n) : n \in 1..Len(names)}
  OBVIOUS
<1>5. ASSUME NEW q \in E
      PROVE  \E n \in 1..Len(names) : q = At(n) /\ e[q] = Dir(Len(data) + n)
  <2>1. PICK n \in 1..Len(names) : q = At(n)
    BY <1>4
  <2>2. Len(q) = Len(base) + n
    BY <1>3, <2>1
  <2>3. e[q] = Dir(NextInode + Len(q) - Len(base) - 1)
    OBVIOUS
  <2>4. NextInode + Len(q) - Len(base) - 1 = Len(data) + n
    BY <1>0, <2>2 DEF NextInode
  <2> HIDE DEF At
  <2> QED
    BY <2>1, <2>3, <2>4
<1> HIDE DEF At
<1>6. E \cap Present = {}
  <2> SUFFICES ASSUME NEW q \in E, q \in Present PROVE FALSE
    OBVIOUS
  <2>1. PICK n \in 1..Len(names) : q = At(n)
    BY <1>4
  <2>2. names # <<>> /\ names[1] \in Names
    BY <1>0, <2>1, EmptyIs
  <2>3. Append(base, names[1]) \in Seq(Names) /\ Append(base, names[1]) \notin Present
    BY <1>0, <2>2, AppendProperties
  <2>4. Under(q, Append(base, names[1]))
    BY <1>3, <2>1
  <2> QED
    BY <2>3, <2>4, FreeBelow DEF Present
<1>7. ASSUME NEW n \in 1..Len(names)
      PROVE  /\ Dir(Len(data) + n) \in Entries(Len(data \o b))
             /\ Dir(Len(data) + n).inode = Len(data) + n /\ Dir(Len(data) + n).kind = "dir"
  <2>1. Len(data) + n \in 1..Len(data \o b) /\ Root \in Seq(Names)
    BY <1>0, <1>2, EmptySeq DEF Root
  <2> QED
    BY <2>1 DEF Entries, Dir
<1>8. DOMAIN e = E
  OBVIOUS
<1>9. e \in [E -> Entries(Len(data \o b))]
  <2>1. \A q \in E : e[q] \in Entries(Len(data \o b))
    BY <1>5, <1>7
  <2> QED
    BY <2>1
<1>10. ASSUME NEW q \in E
       PROVE  e[q].inode > Len(data) /\ e[q].kind = "dir"
  <2>1. PICK n \in 1..Len(names) : q = At(n) /\ e[q] = Dir(Len(data) + n)
    BY <1>5
  <2>2. e[q].inode = Len(data) + n /\ e[q].kind = "dir" /\ n > 0
    BY <1>7, <2>1
  <2> QED
    BY <1>0, <2>2
<1>11. Distinct(e)
  <2>1. ASSUME NEW p \in E, NEW q \in E, e[p].inode = e[q].inode PROVE p = q
    <3>1. PICK m \in 1..Len(names) : p = At(m) /\ e[p] = Dir(Len(data) + m)
      BY <1>5
    <3>2. PICK n \in 1..Len(names) : q = At(n) /\ e[q] = Dir(Len(data) + n)
      BY <1>5
    <3>3. Len(data) + m = Len(data) + n
      BY <1>7, <2>1, <3>1, <3>2
    <3> QED
      BY SMTT(40), <1>0, <3>1, <3>2, <3>3
  <2> QED
    BY <1>8, <2>1 DEF Distinct
<1>12. Rooted(Over(disk, e))
  <2> DEFINE o == Over(disk, e)
  <2>1. /\ DOMAIN o = Present \cup E /\ \A q \in Present : o[q] = disk[q]
        /\ \A q \in E : o[q] = e[q]
    <3>1. \A f : /\ DOMAIN Over(disk, f) = DOMAIN disk \cup DOMAIN f
                 /\ \A q \in DOMAIN disk : Over(disk, f)[q] = disk[q]
                 /\ \A q \in DOMAIN f \ DOMAIN disk : Over(disk, f)[q] = f[q]
      BY OverIs
    <3> QED
      BY <1>6, <1>8, <3>1 DEF Present
  <2> HIDE DEF o
  <2>2. \A q : KindAt(disk, q) = "dir" => KindAt(o, q) = "dir"
    BY <2>1 DEF KindAt, Present
  <2>3. \A q \in E : KindAt(o, q) = "dir"
    BY <1>10, <2>1 DEF KindAt
  <2>4. Rooted(disk) /\ KindAt(disk, base) = "dir"
    BY TreeParts DEF Kind, KindAt, Present
  <2>5. ASSUME NEW q \in E PROVE q \in Seq(Names) /\ KindAt(o, Front(q)) = "dir"
    <3>1. PICK n \in 1..Len(names) : q = At(n)
      BY <1>4
    <3>2. q \in Seq(Names) /\ Front(q) = IF n = 1 THEN base ELSE At(n - 1)
      BY <1>3, <3>1
    <3>3. CASE n = 1
      BY <2>2, <2>4, <3>2, <3>3
    <3>4. CASE n # 1
      <4>1. n - 1 \in 1..Len(names)
        BY <1>0, <3>4
      <4>2. At(n - 1) \in E
        BY <1>4, <4>1
      <4> QED
        BY <2>3, <3>2, <3>4, <4>2
    <3> QED
      BY <3>3, <3>4
  <2>6. Rooted(o)
    BY <2>1, <2>2, <2>4, <2>5 DEF Rooted, Present
  <2> QED
    BY <2>6 DEF o
<1>13. Len(data) <= Len(data \o b)
  BY <1>0, <1>2
<1>14. IsTree(Over(disk, e), data \o b)
  <2> DEFINE c == data \o b
  <2>1. /\ c \in Seq(Seq(0..NotText)) /\ Len(data) <= Len(c) /\ e \in [E -> Entries(Len(c))]
        /\ \A q \in E : e[q].inode > Len(data)
    BY <1>2, <1>9, <1>10, <1>13
  <2> HIDE DEF c
  <2>2. IsTree(Over(disk, e), c)
    BY <1>11, <1>12, <2>1, TreeGrows
  <2> QED
    BY <2>2 DEF c
<1> QED
  BY <1>13, <1>14

\* The names of a path behind its first k.
LEMMA RestIs ==
  ASSUME NEW path \in Seq(Names), NEW k \in 0..Len(path),
         NEW names, names = SubSeq(path, k + 1, Len(path))
  PROVE  /\ names \in Seq(Names) /\ Len(names) = Len(path) - k /\ DOMAIN names = 1..Len(names)
         /\ names # <<>> => k < Len(path) /\ names[1] = path[k + 1]
         /\ \A n \in 1..Len(names) : SubSeq(names, 1, n) = SubSeq(path, k + 1, k + n)
<1>1. Len(path) \in Nat /\ k \in Nat /\ k <= Len(path)
  BY LenProperties
<1>2. /\ k + 1 \in Int /\ Len(path) \in Int
      /\ \A i \in (k + 1)..Len(path) : path[i] \in Names
  BY <1>1
<1>3. /\ names \in Seq(Names)
      /\ Len(names) = IF k + 1 <= Len(path) THEN Len(path) - (k + 1) + 1 ELSE 0
      /\ \A i \in 1..(Len(path) - (k + 1) + 1) : names[i] = path[k + 1 + i - 1]
  BY <1>2, SubSeqProperties
<1>4. Len(names) = Len(path) - k
  BY <1>1, <1>3
<1>5. ASSUME names # <<>> PROVE k < Len(path) /\ names[1] = path[k + 1]
  <2>1. Len(names) > 0
    BY <1>1, <1>3, <1>4, <1>5, EmptyIs
  <2>2. 1 \in 1..(Len(path) - (k + 1) + 1) /\ k + 1 + 1 - 1 = k + 1
    BY <1>1, <1>4, <2>1
  <2> QED
    BY <1>1, <1>3, <1>4, <2>1, <2>2
<1>6. ASSUME NEW n \in 1..Len(names)
      PROVE  SubSeq(names, 1, n) = SubSeq(path, k + 1, k + n)
  <2>1. /\ k + 1 \in 1..Len(path) /\ Len(path) \in 1..Len(path)
        /\ 1 \in 1..(Len(path) - (k + 1) + 1) /\ n \in 1..(Len(path) - (k + 1) + 1)
    BY <1>1, <1>4
  <2>2. SubSeq(SubSeq(path, k + 1, Len(path)), 1, n) = SubSeq(path, k + 1 + 1 - 1, k + 1 + n - 1)
    BY <2>1, SubSeqOfSubSeq
  <2>3. k + 1 + 1 - 1 = k + 1 /\ k + 1 + n - 1 = k + n
    BY <1>1, <1>4
  <2> QED
    BY <2>2, <2>3
<1>7. DOMAIN names = 1..Len(names)
  BY <1>3, LenProperties
<1> QED
  BY <1>3, <1>4, <1>5, <1>6, <1>7

\* The root can be reached.
LEMMA RootStands ==
  ASSUME IsTree(disk, data)
  PROVE  Stat(Root).error = "ok"
<1>1. Linked(disk) /\ Root \in Present
  BY TreeIs DEF KindAt, Present
<1>2. PICK W : LocatesBy(disk, TRUE, W)
  BY <1>1, LocateIs
<1> DEFINE w == Way(Root, Root, MaxHops)
<1>3. w \in Ways /\ w.rest = Root /\ w.at = Root
  <2>1. Root \in Seq(Names) /\ MaxHops \in 0..MaxHops
    BY EmptySeq, FileTreeAssumption DEF Root
  <2> HIDE DEF Root
  <2> QED
    BY <2>1, WayIs
<1>4. Walks(disk, TRUE, W) /\ Locate(disk, Root, TRUE) = W[w]
  <2>1. Root \in Seq(Names) /\ ~(Len(Root) > MaxLen)
    BY EmptySeq, FileTreeAssumption DEF Root
  <2>2. /\ Walks(disk, TRUE, W)
        /\ Locate(disk, Root, TRUE) = IF Len(Root) > MaxLen THEN Error("TooLong") ELSE W[w]
    <3> HIDE DEF Root
    <3> QED
      BY <1>2, <2>1 DEF LocatesBy
  <2> QED
    BY <2>1, <2>2
<1> HIDE DEF w
<1>5. Locate(disk, Root, TRUE) = Ok(Root)
  <2>1. W[w] = Ok(w.at)
    BY ZenonT(60), <1>3, <1>4, WalkStep DEF Root
  <2> QED
    BY <1>3, <1>4, <2>1
<1>6. Locate(disk, Root, TRUE).error = "ok" /\ Locate(disk, Root, TRUE).path = Root
  <2> DEFINE l == Locate(disk, Root, TRUE)
  <2>1. l = Ok(Root)
    BY Zenon, <1>5
  <2> HIDE DEF l
  <2>2. l.error = "ok" /\ l.path = Root
    BY <2>1 DEF Ok
  <2> QED
    BY <2>2 DEF l
<1> QED
  BY <1>1, <1>6 DEF Stat, Entry, Present

\* create_dir_all
LEMMA MakeAllSound ==
  ASSUME IsTree(disk, data), NEW path \in Seq(Names)
  PROVE  Sound(MakeAll(path))
<1> DEFINE Prefix(n) == SubSeq(path, 1, n)
           standing == {n \in 0..Len(path) : Stat(Prefix(n)).error = "ok"}
           k == Max(standing)
           base == Stat(Prefix(k)).path
           missing == {base \o SubSeq(path, k + 1, n) : n \in (k + 1)..Len(path)}
           error == Locate(disk, path, TRUE).error
           names == SubSeq(path, k + 1, Len(path))
           e == [q \in missing |-> Dir(NextInode + Len(q) - Len(base) - 1)]
           b == [i \in DOMAIN names |-> <<>>]
           checks == << <<error \in {"Loop", "TooLong"}, error>>,
                        <<k = Len(path) /\ Kind(base) # "dir", "AlreadyExists">>,
                        <<Kind(base) # "dir", "NotADirectory">>,
                        <<k < Len(path) /\ Append(base, path[k + 1]) \in Present, "AlreadyExists">> >>
           call == Leaves(Over(disk, e), data \o b)
<1>1. MakeAll(path) = Unless(checks, call)
  BY DEF MakeAll
<1>2. k \in 0..Len(path) /\ Stat(Prefix(k)).error = "ok"
  <2>1. Len(path) \in Nat /\ Prefix(0) = Root
    BY LenProperties, SubSeqEmpty DEF Root
  <2>2. 0 \in standing
    <3>1. 0 \in 0..Len(path)
      BY <2>1
    <3>2. Stat(Root).error = "ok"
      BY RootStands
    <3>3. Stat(Prefix(0)).error = "ok"
      BY <2>1, <3>2
    <3> HIDE DEF Prefix
    <3> QED
      BY <3>1, <3>3
  <2>3. standing \in SUBSET (0..Len(path)) /\ standing # {}
    BY <2>2
  <2>4. Max(standing) \in standing
    <3> HIDE DEF standing
    <3> QED
      BY <2>1, <2>3, GreatestOf
  <2> QED
    BY <2>4
<1>3. base \in Present
  <2> DEFINE p == Prefix(k)
  <2>1. p \in Seq(Names)
    <3> HIDE DEF k
    <3>1. Len(path) \in Nat /\ k \in Int /\ \A i \in 1..k : path[i] \in Names
      BY <1>2, LenProperties
    <3> QED
      BY <3>1, SubSeqProperties
  <2>2. Stat(p).error = "ok"
    BY <1>2
  <2> HIDE DEF p
  <2>3. Stat(p).path \in Present
    BY <2>1, <2>2, EntryIs DEF Stat
  <2> QED
    BY <2>3 DEF p
<1> HIDE DEF k, base
<1>4. /\ names \in Seq(Names) /\ Len(names) = Len(path) - k /\ DOMAIN names = 1..Len(names)
      /\ names # <<>> => k < Len(path) /\ names[1] = path[k + 1]
      /\ \A n \in 1..Len(names) : SubSeq(names, 1, n) = SubSeq(path, k + 1, k + n)
  <2> DEFINE s == names
  <2>1. s = SubSeq(path, k + 1, Len(path))
    OBVIOUS
  <2> HIDE DEF s
  <2>2. /\ s \in Seq(Names) /\ Len(s) = Len(path) - k /\ DOMAIN s = 1..Len(s)
        /\ s # <<>> => k < Len(path) /\ s[1] = path[k + 1]
        /\ \A n \in 1..Len(s) : SubSeq(s, 1, n) = SubSeq(path, k + 1, k + n)
    BY <1>2, <2>1, RestIs
  <2> QED
    BY <2>2 DEF s
<1> HIDE DEF error, names
<1>5. missing = {base \o SubSeq(names, 1, n) : n \in 1..Len(names)}
  <2>1. Len(path) \in Nat /\ k \in 0..Len(path)
    BY <1>2, LenProperties
  <2>2. ASSUME NEW m \in (k + 1)..Len(path)
        PROVE  \E n \in 1..Len(names) : SubSeq(path, k + 1, m) = SubSeq(names, 1, n)
    <3>1. m - k \in 1..Len(names) /\ k + (m - k) = m
      BY <1>4, <2>1
    <3> QED
      BY <1>4, <3>1
  <2>3. ASSUME NEW n \in 1..Len(names)
        PROVE  \E m \in (k + 1)..Len(path) : SubSeq(path, k + 1, m) = SubSeq(names, 1, n)
    <3>1. k + n \in (k + 1)..Len(path)
      BY <1>4, <2>1
    <3> QED
      BY <1>4, <3>1
  <2> QED
    BY <2>2, <2>3
<1>6. b = [i \in 1..Len(names) |-> <<>>]
  BY <1>4
<1>7. /\ DOMAIN checks = 1..4
      /\ (checks[1][1] <=> error \in {"Loop", "TooLong"}) /\ checks[1][2] = error
      /\ checks[2][2] = "AlreadyExists"
      /\ (checks[3][1] <=> Kind(base) # "dir") /\ checks[3][2] = "NotADirectory"
      /\ (checks[4][1] <=> k < Len(path) /\ Append(base, path[k + 1]) \in Present)
      /\ checks[4][2] = "AlreadyExists"
  <2>1. DOMAIN checks = 1..4
    OBVIOUS
  <2>2. (checks[1][1] <=> error \in {"Loop", "TooLong"}) /\ checks[1][2] = error
    OBVIOUS
  <2>3. checks[2][2] = "AlreadyExists"
    OBVIOUS
  <2>4. (checks[3][1] <=> Kind(base) # "dir") /\ checks[3][2] = "NotADirectory"
    OBVIOUS
  <2>5. /\ checks[4][1] <=> k < Len(path) /\ Append(base, path[k + 1]) \in Present
        /\ checks[4][2] = "AlreadyExists"
    OBVIOUS
  <2> HIDE DEF checks
  <2> QED
    BY <2>1, <2>2, <2>3, <2>4, <2>5
<1> HIDE DEF checks
<1>8. \A i \in 1..4 : checks[i][1] => checks[i][2] # "ok"
  BY <1>7
<1>9. ASSUME \A i \in 1..4 : ~checks[i][1]
      PROVE  Kind(base) = "dir" /\ (names # <<>> => Append(base, names[1]) \notin Present)
  <2>1. ~checks[3][1] /\ ~checks[4][1]
    BY <1>9
  <2> QED
    BY <1>4, <1>7, <2>1
<1>10. e = [q \in missing |-> Dir(NextInode + Len(q) - Len(base) - 1)]
  OBVIOUS
<1> HIDE DEF missing, e, b
<1>11. call.disk = Over(disk, e) /\ call.data = data \o b
  BY LeavesIs
<1> HIDE DEF call
<1>12. ASSUME \A i \in 1..4 : ~checks[i][1] PROVE Sound(call)
  <2>1. names \in Seq(Names)
    BY <1>4
  <2>2. IsTree(Over(disk, e), data \o b) /\ Len(data) <= Len(data \o b)
    BY <1>3, <1>5, <1>6, <1>9, <1>10, <1>12, <2>1, MakesSound
  <2> QED
    BY <1>11, <2>2 DEF Sound
<1> QED
  BY <1>1, <1>7, <1>8, <1>12, UnlessSound
-----------------------------------------------------------------------------
(* The invariant.                                                          *)

Statuses == {NoAnswer, 200, 204, 400, 404, 409, 422, 500}
CopyCalls == {"copy", "copyfile", "transfer", "copymake", "copyread"}
Calls == {"start", "done", "write", "resize", "copyfile", "transfer", "copymake", "copyread",
          "rmdir", "unlink", "removeall", "clear"} \cup {FirstCall[op] : op \in DOMAIN FirstCall}

\* The calls of a request.
Stages(op) ==
  {"start", FirstCall[op], "done"} \cup
    (CASE op = "content" -> {"write"}
       [] op = "patch" -> {"open", "write"}
       [] op = "truncate" -> {"resize"}
       [] op = "copy" -> CopyCalls
       [] op = "remove" -> {"unlink", "rmdir", "removeall", "clear"}
       [] OTHER -> {})

Fields == DOMAIN Idle
Pairs == [from : Seq(Names), to : Seq(Names)]

\* What a copy has to do is pairs of paths, and what it reads from is there.
CopyWork(call, w, b) ==
  /\ call \in CopyCalls => w.todo \in Seq(Pairs)
  /\ call \in {"copyfile", "copymake", "copyread"} => w.at \in Pairs
  /\ call = "transfer" => w.inodes[1] \in 1..Len(b)

Working ==
  /\ IsTree(disk, data)
  /\ req \in [Requests -> Asked]
  /\ pc \in [Requests -> Calls] /\ answer \in [Requests -> Statuses]
  /\ DOMAIN work = Requests
  /\ \A r \in Requests : /\ pc[r] \in Stages(req[r].op) /\ DOMAIN work[r] = Fields
                         /\ CopyWork(pc[r], work[r], data)

\* What a request can ask for.
LEMMA AskedIs ==
  ASSUME Working, NEW r \in Requests
  PROVE  /\ req[r].op \in DOMAIN FirstCall /\ req[r].path \in Seq(Names)
         /\ req[r].to \in Seq(Names) /\ req[r].kind \in {"file", "dir"}
         /\ req[r].content \in Seq(0..NotText) /\ req[r].length \in Nat
<1>1. req[r] \in Asked
  BY DEF Working
<1> QED
  BY <1>1 DEF Asked

\* Every status is one of them, and no error is a 200.
LEMMA StatusOfIs ==
  ASSUME NEW e
  PROVE  StatusOf(e) \in Statuses /\ StatusOf(e) # 200
BY DEF StatusOf, Statuses

\* The first call of each operation.
LEMMA FirstCallIs ==
  /\ DOMAIN FirstCall = {"content", "directory", "symlink", "temp", "patch", "truncate", "copy",
       "move", "remove", "list", "glob", "read", "metadata", "realpath", "readlink", "access"}
  /\ FirstCall["content"] = "open" /\ FirstCall["directory"] = "make"
  /\ FirstCall["symlink"] = "make" /\ FirstCall["temp"] = "temp"
  /\ FirstCall["patch"] = "patch" /\ FirstCall["truncate"] = "openold"
  /\ FirstCall["copy"] = "copy" /\ FirstCall["move"] = "rename"
  /\ FirstCall["remove"] = "probe" /\ FirstCall["list"] = "walk"
  /\ FirstCall["glob"] = "walk" /\ FirstCall["read"] = "look"
  /\ FirstCall["metadata"] = "look" /\ FirstCall["realpath"] = "look"
  /\ FirstCall["readlink"] = "look" /\ FirstCall["access"] = "look"
BY DEF FirstCall

\* The calls of a request, from one to the next.
LEMMA StagesIs ==
  ASSUME NEW op \in DOMAIN FirstCall
  PROVE  /\ "done" \in Stages(op) /\ FirstCall[op] \in Stages(op) /\ Stages(op) \subseteq Calls
         /\ "open" \in Stages(op) => "write" \in Stages(op)
         /\ "patch" \in Stages(op) => "open" \in Stages(op)
         /\ "openold" \in Stages(op) => "resize" \in Stages(op)
         /\ "probe" \in Stages(op) => {"unlink", "rmdir", "removeall", "clear"} \subseteq Stages(op)
         /\ "removeall" \in Stages(op) => "clear" \in Stages(op)
         /\ CopyCalls \cap Stages(op) # {} => op = "copy" /\ CopyCalls \subseteq Stages(op)
         /\ "copy" = FirstCall[op] <=> op = "copy"
         /\ op = "temp" => Stages(op) = {"start", "temp", "done"}
         /\ op \in {"list", "glob"} => Stages(op) = {"start", "walk", "done"}
<1>1. FirstCall[op] \in Calls /\ FirstCall[op] \in Stages(op) /\ "done" \in Stages(op)
  BY DEF Calls, Stages
<1>2. CASE op = "content"
  <2>1. Stages(op) = {"start", "open", "done", "write"}
    BY <1>2, FirstCallIs DEF Stages
  <2> QED
    BY <1>1, <1>2, <2>1, FirstCallIs DEF Calls, CopyCalls
<1>3. CASE op = "patch"
  <2>1. Stages(op) = {"start", "patch", "done", "open", "write"}
    BY <1>3, FirstCallIs DEF Stages
  <2>2. "open" \in Calls
    BY FirstCallIs DEF Calls
  <2> QED
    BY <1>1, <1>3, <2>1, <2>2, FirstCallIs DEF Calls, CopyCalls
<1>4. CASE op = "truncate"
  <2>1. Stages(op) = {"start", "openold", "done", "resize"}
    BY <1>4, FirstCallIs DEF Stages
  <2> QED
    BY <1>1, <1>4, <2>1, FirstCallIs DEF Calls, CopyCalls
<1>5. CASE op = "copy"
  <2>1. Stages(op) = {"start", "copy", "done", "copyfile", "transfer", "copymake", "copyread"}
    BY <1>5, FirstCallIs DEF Stages, CopyCalls
  <2> QED
    BY <1>1, <1>5, <2>1, FirstCallIs DEF Calls, CopyCalls
<1>6. CASE op = "remove"
  <2>1. Stages(op) = {"start", "probe", "done", "unlink", "rmdir", "removeall", "clear"}
    BY <1>6, FirstCallIs DEF Stages
  <2> QED
    BY <1>1, <1>6, <2>1, FirstCallIs DEF Calls, CopyCalls
<1>7. CASE op \notin {"content", "patch", "truncate", "copy", "remove"}
  <2>1. Stages(op) = {"start", FirstCall[op], "done"}
    BY <1>7 DEF Stages
  <2>2. FirstCall[op] \in {"make", "temp", "rename", "walk", "look"}
    BY <1>7, FirstCallIs
  <2>3. /\ op = "temp" => FirstCall[op] = "temp"
        /\ op \in {"list", "glob"} => FirstCall[op] = "walk"
    BY FirstCallIs
  <2> QED
    BY <1>1, <1>7, <2>1, <2>2, <2>3 DEF Calls, CopyCalls
<1> QED
  BY <1>2, <1>3, <1>4, <1>5, <1>6, <1>7

-----------------------------------------------------------------------------
(* Steps.                                                                  *)

\* What a step of r does to the disk, to the other requests and to r.
TreeKept == IsTree(disk', data') /\ Len(data) <= Len(data')
Others(r) ==
  /\ pc' \in [Requests -> Calls] /\ answer' \in [Requests -> Statuses] /\ DOMAIN work' = Requests
  /\ \A q \in Requests \ {r} : pc'[q] = pc[q] /\ answer'[q] = answer[q] /\ work'[q] = work[q]
Serves(r) ==
  /\ TreeKept /\ Others(r)
  /\ pc'[r] \in Stages(req[r].op) /\ DOMAIN work'[r] = Fields
  /\ CopyWork(pc'[r], work'[r], data')

\* A step that leaves the disk, one of a good call, and one that writes.
LEMMA KeptSame ==
  ASSUME Working, UNCHANGED diskVars
  PROVE  TreeKept
<1>1. disk' = disk /\ data' = data /\ IsTree(disk, data)
  BY DEF diskVars, Working
<1>2. Len(data) \in Nat
  BY <1>1, TreeIs
<1> QED
  BY <1>1, <1>2 DEF TreeKept

\* A call that leaves a tree, made.
LEMMA KeptSound ==
  ASSUME NEW call, Sound(call), Does(call)
  PROVE  TreeKept
BY DEF Sound, Does, TreeKept

\* An update of a sequence with what it may hold, within its length or not.
LEMMA ExceptAny ==
  ASSUME NEW S, NEW s \in Seq(S), NEW i, NEW e, i \in 1..Len(s) => e \in S
  PROVE  [s EXCEPT ![i] = e] \in Seq(S) /\ Len([s EXCEPT ![i] = e]) = Len(s)
<1>1. CASE i \in 1..Len(s)
  BY <1>1, ExceptSeq
<1>2. CASE i \notin 1..Len(s)
  <2>1. DOMAIN s = 1..Len(s)
    BY LenProperties
  <2>2. [s EXCEPT ![i] = e] = s
    BY <1>2, <2>1
  <2> QED
    BY <2>2
<1> QED
  BY <1>1, <1>2

\* A step that writes to an inode leaves the entries.
LEMMA KeptWrite ==
  ASSUME Working, NEW i, NEW bytes, i \in 1..Len(data) => bytes \in Seq(0..NotText),
         disk' = disk, data' = [data EXCEPT ![i] = bytes]
  PROVE  TreeKept
<1>1. data \in Seq(Seq(0..NotText)) /\ Len(data) \in Nat
  BY TreeIs DEF Working
<1> DEFINE c == [data EXCEPT ![i] = bytes]
<1>2. c \in Seq(Seq(0..NotText)) /\ Len(c) = Len(data)
  <2> DEFINE S == Seq(0..NotText)
  <2>1. data \in Seq(S) /\ (i \in 1..Len(data) => bytes \in S)
    BY <1>1
  <2> HIDE DEF S
  <2>2. [data EXCEPT ![i] = bytes] \in Seq(S) /\ Len([data EXCEPT ![i] = bytes]) = Len(data)
    BY <2>1, ExceptAny
  <2> QED
    BY <2>2 DEF S
<1>3. disk' = disk /\ data' = c
  OBVIOUS
<1> HIDE DEF c
<1>4. IsTree(disk, c)
  <2>1. IsTree(disk, data) /\ Len(data) <= Len(c)
    BY <1>1, <1>2 DEF Working
  <2> QED
    BY <1>2, <2>1, TreeBytes
<1>5. IsTree(disk', data')
  BY <1>3, <1>4
<1>6. Len(data) <= Len(data')
  BY <1>1, <1>2, <1>3
<1> QED
  BY <1>5, <1>6 DEF TreeKept

\* What r goes on with, or ends with, and what it has then to do.
LEMMA Serving ==
  ASSUME Working, NEW r \in Requests, TreeKept,
         NEW to \in Stages(req[r].op), NEW w, DOMAIN w = Fields, CopyWork(to, w, data'),
         \/ Goes(r, to)
         \/ to = "done" /\ \E status \in Statuses : Ends(r, status),
         \/ Holds(r, w)
         \/ w = work[r] /\ UNCHANGED work
  PROVE  Serves(r) /\ pc'[r] = to /\ work'[r] = w
<1>1. to \in Calls
  BY AskedIs, StagesIs
<1>2. pc \in [Requests -> Calls] /\ answer \in [Requests -> Statuses] /\ DOMAIN work = Requests
  BY DEF Working
<1>3. /\ pc' \in [Requests -> Calls] /\ answer' \in [Requests -> Statuses] /\ pc'[r] = to
      /\ \A q \in Requests \ {r} : pc'[q] = pc[q] /\ answer'[q] = answer[q]
  <2>1. CASE Goes(r, to)
    BY <1>1, <1>2, <2>1 DEF Goes
  <2>2. CASE to = "done" /\ \E status \in Statuses : Ends(r, status)
    BY <1>1, <1>2, <2>2 DEF Ends
  <2> QED
    BY <2>1, <2>2
<1>4. DOMAIN work' = Requests /\ work'[r] = w /\ \A q \in Requests \ {r} : work'[q] = work[q]
  <2>1. CASE Holds(r, w)
    BY <1>2, <2>1 DEF Holds
  <2>2. CASE w = work[r] /\ UNCHANGED work
    BY <1>2, <2>2
  <2> QED
    BY <2>1, <2>2
<1> QED
  BY <1>3, <1>4 DEF Serves, Others

\* The end of a request, and a step on that is not a copy's.
LEMMA EndServes ==
  ASSUME Working, NEW r \in Requests, TreeKept,
         \E status \in Statuses : Ends(r, status), UNCHANGED work
  PROVE  Serves(r) /\ pc'[r] = "done" /\ work'[r] = work[r]
<1>1. "done" \in Stages(req[r].op)
  BY AskedIs, StagesIs
<1>2. DOMAIN work[r] = Fields /\ CopyWork("done", work[r], data')
  BY DEF Working, CopyWork, CopyCalls
<1> QED
  BY <1>1, <1>2, Serving

\* A request goes on with a call that is not of a copy.
LEMMA GoServes ==
  ASSUME Working, NEW r \in Requests, TreeKept, NEW to \in Stages(req[r].op), to \notin CopyCalls,
         Goes(r, to),
         \/ \E w : DOMAIN w = Fields /\ Holds(r, w)
         \/ UNCHANGED work
  PROVE  Serves(r) /\ pc'[r] = to
<1>1. ASSUME NEW w, DOMAIN w = Fields PROVE CopyWork(to, w, data')
  BY DEF CopyWork, CopyCalls
<1>2. CASE UNCHANGED work
  <2>1. DOMAIN work[r] = Fields
    BY DEF Working
  <2> QED
    BY <1>1, <1>2, <2>1, Serving
<1>3. CASE \E w : DOMAIN w = Fields /\ Holds(r, w)
  BY <1>1, <1>3, Serving
<1> QED
  BY <1>2, <1>3

\* A call and what follows: nothing, if it failed.
LEMMA ThenServes ==
  ASSUME Working, NEW r \in Requests, NEW call, Sound(call), Does(call), call.error # "ok",
         Ends(r, StatusOf(call.error)), UNCHANGED work
  PROVE  Serves(r) /\ pc'[r] = "done" /\ answer'[r] # 200
<1>1. TreeKept
  BY KeptSound
<1>2. StatusOf(call.error) \in Statuses /\ StatusOf(call.error) # 200
  BY StatusOfIs
<1>3. answer'[r] = StatusOf(call.error)
  BY DEF Ends, Working
<1> QED
  BY <1>1, <1>2, <1>3, EndServes

\* The entries that are made are of their kinds.
LEMMA MakeServes ==
  ASSUME Working, NEW r \in Requests, Make(r)
  PROVE  Serves(r)
<1> DEFINE q == req[r]
           call == CASE q.op = "symlink" -> MakeNew(q.path, Link(NextInode, q.to))
                     [] q.op = "directory" /\ q.recursive -> MakeAll(q.path)
                     [] OTHER -> MakeNew(q.path, Dir(NextInode))
<1>1. /\ Does(call)
      /\ IF call.error = "ok" THEN Ends(r, 204) /\ UNCHANGED work
         ELSE Ends(r, StatusOf(call.error)) /\ UNCHANGED work
  BY DEF Make, Then
<1>2. IsTree(disk, data) /\ q.path \in Seq(Names) /\ q.to \in Seq(Names)
  BY AskedIs DEF Working
<1>3. Sound(call)
  <2>1. Sound(MakeAll(q.path))
    BY <1>2, MakeAllSound
  <2>2. Sound(MakeNew(q.path, Link(NextInode, q.to)))
    <3>1. Link(NextInode, q.to) \in Entries(NextInode) /\ Link(NextInode, q.to).inode = NextInode
      BY <1>2, NewEntries
    <3> QED
      BY <1>2, <3>1, MakeNewSound
  <2>3. Sound(MakeNew(q.path, Dir(NextInode)))
    <3>1. Dir(NextInode) \in Entries(NextInode) /\ Dir(NextInode).inode = NextInode
      BY <1>2, NewEntries
    <3> QED
      BY <1>2, <3>1, MakeNewSound
  <2>4. call \in {MakeAll(q.path), MakeNew(q.path, Link(NextInode, q.to)),
                  MakeNew(q.path, Dir(NextInode))}
    OBVIOUS
  <2> HIDE DEF call, q
  <2> QED
    BY <2>1, <2>2, <2>3, <2>4
<1> HIDE DEF call
<1>4. CASE call.error = "ok"
  <2>1. TreeKept
    BY <1>1, <1>3, KeptSound
  <2>2. 204 \in Statuses /\ Ends(r, 204) /\ UNCHANGED work
    BY <1>1, <1>4 DEF Statuses
  <2> QED
    BY <2>1, <2>2, EndServes
<1>5. CASE call.error # "ok"
  BY <1>1, <1>3, <1>5, ThenServes
<1> QED
  BY <1>4, <1>5

\* `move`.
LEMMA MoveToServes ==
  ASSUME Working, NEW r \in Requests, MoveTo(r)
  PROVE  Serves(r)
<1> DEFINE call == Rename(req[r].path, req[r].to)
<1>1. /\ Does(call)
      /\ IF call.error = "ok" THEN Ends(r, 204) /\ UNCHANGED work
         ELSE Ends(r, StatusOf(call.error)) /\ UNCHANGED work
  BY DEF MoveTo, Then
<1>2. Sound(call)
  BY AskedIs, RenameSound DEF Working
<1> HIDE DEF call
<1>3. CASE call.error = "ok"
  <2>1. TreeKept
    BY <1>1, <1>2, KeptSound
  <2>2. 204 \in Statuses /\ Ends(r, 204) /\ UNCHANGED work
    BY <1>1, <1>3 DEF Statuses
  <2> QED
    BY <2>1, <2>2, EndServes
<1>4. CASE call.error # "ok"
  BY <1>1, <1>2, <1>4, ThenServes
<1> QED
  BY <1>3, <1>4

\* What a temporary entry has when it is answered 200: the newest inode.
Newest(r) == work'[r].inodes = <<NextInode>> /\ Len(data') = NextInode

\* A temporary entry: a name that is taken is followed by another, and what is made is
\* the newest inode.
LEMMA TempServes ==
  ASSUME Working, NEW r \in Requests, Temp(r)
  PROVE  Serves(r) /\ (pc'[r] = "done" /\ answer'[r] = 200 => Newest(r))
<1>0. /\ IsTree(disk, data) /\ req[r].path \in Seq(Names) /\ pc[r] = "temp"
      /\ "temp" \in Stages(req[r].op) /\ "temp" \notin CopyCalls
      /\ "done" \in Stages(req[r].op) /\ "done" \notin CopyCalls
      /\ DOMAIN work[r] = Fields /\ r \in DOMAIN work /\ r \in DOMAIN answer /\ r \in DOMAIN pc
  BY SMTT(40), AskedIs, StagesIs DEF Working, Temp, CopyCalls
<1> DEFINE path(name) == Append(req[r].path, name)
           call(name) == TakesName(path(name), req[r].kind)
           tried == work[r].level + 1
<1>1. PICK name \in TempNames :
        IF call(name).error = "AlreadyExists"
        THEN /\ IF tried = Attempts THEN Ends(r, StatusOf("Invalid")) ELSE Goes(r, "temp")
             /\ Holds(r, [work[r] EXCEPT !.level = tried])
             /\ UNCHANGED <<diskVars, result>>
        ELSE /\ Does(call(name))
             /\ IF call(name).error = "ok"
                THEN /\ Ends(r, 200)
                     /\ Holds(r, [work[r] EXCEPT !.inodes =
                                   <<call(name).disk[Locate(disk, path(name), FALSE).path].inode>>])
                ELSE Ends(r, StatusOf(call(name).error)) /\ UNCHANGED work
  BY DEF Temp
<1> DEFINE p == path(name)
           c == call(name)
<1>2. p \in Seq(Names)
  <2>1. name \in Names
    BY FileTreeAssumption
  <2> QED
    BY <1>0, <2>1, AppendProperties
<1>3. /\ Sound(c)
      /\ c.error = "ok" => /\ c.disk[Locate(disk, p, FALSE).path].inode = NextInode
                           /\ Len(c.data) = NextInode
  <2> DEFINE entry == IF req[r].kind = "dir" THEN Dir(NextInode) ELSE File(NextInode)
  <2>1. entry \in Entries(NextInode) /\ entry.inode = NextInode
    BY <1>0, NewEntries
  <2>2. c = MakeNew(p, entry)
    BY DEF TakesName
  <2> HIDE DEF entry, p, c
  <2> QED
    BY <1>0, <1>2, <2>1, <2>2, MakeNewSound
<1>4. CASE c.error = "AlreadyExists"
  <2> DEFINE w == [work[r] EXCEPT !.level = tried]
  <2>1. /\ DOMAIN w = Fields /\ Holds(r, w) /\ UNCHANGED diskVars
        /\ \/ Goes(r, "temp")
           \/ Ends(r, StatusOf("Invalid"))
    BY <1>0, <1>1, <1>4
  <2>2. TreeKept
    BY <2>1, KeptSame
  <2> HIDE DEF w
  <2>3. CASE Goes(r, "temp")
    <3>1. Serves(r) /\ pc'[r] = "temp"
      BY <1>0, <2>1, <2>2, <2>3, GoServes
    <3> QED
      BY <3>1
  <2>4. CASE Ends(r, StatusOf("Invalid"))
    <3>1. StatusOf("Invalid") \in Statuses /\ StatusOf("Invalid") # 200
      BY StatusOfIs
    <3>2. CopyWork("done", w, data')
      BY DEF CopyWork, CopyCalls
    <3>3. Serves(r)
      BY <1>0, <2>1, <2>2, <2>4, <3>1, <3>2, Serving
    <3>4. answer'[r] = StatusOf("Invalid")
      BY <1>0, <2>4 DEF Ends
    <3> QED
      BY <3>1, <3>3, <3>4
  <2> QED
    BY <2>1, <2>3, <2>4
<1>5. CASE c.error = "ok"
  <2> DEFINE w == [work[r] EXCEPT !.inodes = <<c.disk[Locate(disk, p, FALSE).path].inode>>]
  <2>1. DOMAIN w = Fields /\ w.inodes = <<c.disk[Locate(disk, p, FALSE).path].inode>>
    BY <1>0 DEF Fields, Idle
  <2>2. Does(c) /\ Ends(r, 200) /\ Holds(r, w)
    BY <1>1, <1>5
  <2> HIDE DEF w, c, p
  <2>3. TreeKept
    BY <1>3, <2>2, KeptSound
  <2>4. CopyWork("done", w, data') /\ 200 \in Statuses
    BY DEF CopyWork, CopyCalls, Statuses
  <2>5. Serves(r) /\ work'[r] = w
    <3>1. \E status \in Statuses : Ends(r, status)
      BY <2>2, <2>4
    <3>2. CopyWork("done", w, data') /\ DOMAIN w = Fields /\ Holds(r, w) /\ "done" \in Stages(req[r].op)
      BY <1>0, <2>1, <2>2, <2>4
    <3> QED
      BY <2>3, <3>1, <3>2, Serving
  <2>6. w.inodes = <<NextInode>> /\ Len(c.data) = NextInode
    BY <1>3, <1>5, <2>1
  <2>7. data' = c.data
    BY <2>2 DEF Does
  <2> QED
    BY <2>5, <2>6, <2>7 DEF Newest
<1>6. CASE c.error # "AlreadyExists" /\ c.error # "ok"
  <2>1. Does(c) /\ Ends(r, StatusOf(c.error)) /\ UNCHANGED work
    BY <1>1, <1>6
  <2> HIDE DEF c
  <2> QED
    BY <1>3, <1>6, <2>1, ThenServes
<1> QED
  BY <1>4, <1>5, <1>6

\* The contents of a file.
LEMMA OpenServes ==
  ASSUME Working, NEW r \in Requests, Open(r)
  PROVE  Serves(r)
<1> DEFINE call == OpenEmpty(req[r].path)
           w == [work[r] EXCEPT !.inodes =
                  <<call.disk[Locate(disk, req[r].path, TRUE).path].inode>>]
<1>1. /\ Does(call) /\ pc[r] = "open"
      /\ IF call.error = "ok" THEN Goes(r, "write") /\ Holds(r, w)
         ELSE Ends(r, StatusOf(call.error)) /\ UNCHANGED work
  BY DEF Open, Then
<1>2. Sound(call)
  BY AskedIs, OpenEmptySound DEF Working
<1>3. "write" \in Stages(req[r].op) /\ "write" \notin CopyCalls
  BY <1>1, AskedIs, StagesIs DEF Working, CopyCalls
<1>4. DOMAIN w = Fields
  BY DEF Working
<1> HIDE DEF call, w
<1>5. CASE call.error = "ok"
  BY <1>1, <1>2, <1>3, <1>4, <1>5, KeptSound, GoServes
<1>6. CASE call.error # "ok"
  BY <1>1, <1>2, <1>6, ThenServes
<1> QED
  BY <1>5, <1>6

\* What a write leaves of the old bytes, and what a new length does.
LEMMA OverlayIs ==
  ASSUME NEW S, NEW new \in Seq(S), NEW old \in Seq(S)
  PROVE  Overlay(new, old) \in Seq(S)
<1> DEFINE rest == SubSeq(old, Len(new) + 1, Len(old))
<1>1. Len(new) \in Nat /\ Len(old) \in Nat
  BY LenProperties
<1>2. /\ Len(new) + 1 \in Int /\ Len(old) \in Int
      /\ \A i \in (Len(new) + 1)..Len(old) : old[i] \in S
  BY <1>1
<1>3. rest \in Seq(S)
  BY <1>2, SubSeqProperties
<1>4. Overlay(new, old) = new \o rest
  BY DEF Overlay
<1> HIDE DEF rest
<1> QED
  BY <1>3, <1>4, ConcatProperties

\* What a new length makes of the bytes.
LEMMA ResizeIs ==
  ASSUME NEW bytes \in Seq(0..NotText), NEW n \in Nat
  PROVE  Resize(bytes, n) \in Seq(0..NotText)
<1> DEFINE T == 0..NotText
<1>1. bytes \in Seq(T) /\ 0 \in T
  BY DEF NotText
<1> HIDE DEF T
<1>2. Len(bytes) \in Nat /\ \A i \in 1..Len(bytes) : bytes[i] \in T
  BY <1>1
<1>3. \A i \in 1..n : (IF i <= Len(bytes) THEN bytes[i] ELSE 0) \in T
  BY <1>1, <1>2
<1>4. Resize(bytes, n) \in [1..n -> T]
  BY <1>3 DEF Resize
<1>5. Resize(bytes, n) \in Seq(T)
  BY <1>4
<1> QED
  BY <1>5 DEF T

\* The write to the file that was opened, wherever it is now.
LEMMA WriteServes ==
  ASSUME Working, NEW r \in Requests, Write(r)
  PROVE  Serves(r)
<1> DEFINE i == work[r].inodes[1]
           bytes == Overlay(req[r].content, data[i])
<1>1. /\ disk' = disk /\ data' = [data EXCEPT ![i] = bytes] /\ Ends(r, 204) /\ UNCHANGED work
  BY DEF Write
<1>2. ASSUME i \in 1..Len(data) PROVE bytes \in Seq(0..NotText)
  <2>1. data \in Seq(Seq(0..NotText))
    BY TreeIs DEF Working
  <2>2. data[i] \in Seq(0..NotText) /\ req[r].content \in Seq(0..NotText)
    <3> DEFINE S == Seq(0..NotText)
    <3>1. data \in Seq(S) /\ i \in 1..Len(data)
      BY <1>2, <2>1
    <3> HIDE DEF S, i
    <3>2. data[i] \in S
      BY <3>1
    <3> QED
      BY <3>2, AskedIs DEF S
  <2> HIDE DEF i
  <2> QED
    BY <2>2, OverlayIs
<1> HIDE DEF i, bytes
<1>3. TreeKept
  BY <1>1, <1>2, KeptWrite
<1>4. \E status \in Statuses : Ends(r, status)
  BY <1>1 DEF Statuses
<1> QED
  BY <1>1, <1>3, <1>4, EndServes

\* The new length of the file that was opened.
LEMMA SetLenServes ==
  ASSUME Working, NEW r \in Requests, SetLen(r)
  PROVE  Serves(r)
<1> DEFINE i == work[r].inodes[1]
           bytes == Resize(data[i], req[r].length)
<1>1. /\ disk' = disk /\ data' = [data EXCEPT ![i] = bytes] /\ Ends(r, 204) /\ UNCHANGED work
  BY DEF SetLen
<1>2. ASSUME i \in 1..Len(data) PROVE bytes \in Seq(0..NotText)
  <2>1. data \in Seq(Seq(0..NotText))
    BY TreeIs DEF Working
  <2>2. data[i] \in Seq(0..NotText) /\ req[r].length \in Nat
    <3> DEFINE S == Seq(0..NotText)
    <3>1. data \in Seq(S) /\ i \in 1..Len(data)
      BY <1>2, <2>1
    <3> HIDE DEF S, i
    <3>2. data[i] \in S
      BY <3>1
    <3> QED
      BY <3>2, AskedIs DEF S
  <2> HIDE DEF i
  <2> QED
    BY <2>2, ResizeIs
<1> HIDE DEF i, bytes
<1>3. TreeKept
  BY <1>1, <1>2, KeptWrite
<1>4. \E status \in Statuses : Ends(r, status)
  BY <1>1 DEF Statuses
<1> QED
  BY <1>1, <1>3, <1>4, EndServes

\* A read that fails is the end.
LEMMA FindsServes ==
  ASSUME Working, NEW r \in Requests, NEW error, UNCHANGED diskVars,
         Ends(r, StatusOf(error)), UNCHANGED work
  PROVE  Serves(r) /\ pc'[r] = "done" /\ answer'[r] # 200
<1>1. TreeKept
  BY KeptSame
<1>2. StatusOf(error) \in Statuses /\ StatusOf(error) # 200
  BY StatusOfIs
<1>3. answer'[r] = StatusOf(error)
  BY DEF Ends, Working
<1> QED
  BY <1>1, <1>2, <1>3, EndServes

\* What a patch reads.
LEMMA PatchServes ==
  ASSUME Working, NEW r \in Requests, Patch(r)
  PROVE  Serves(r)
<1>1. PICK error : /\ pc[r] = "patch" /\ UNCHANGED diskVars
                   /\ IF error = "ok" THEN Goes(r, "open") /\ UNCHANGED work
                      ELSE Ends(r, StatusOf(error)) /\ UNCHANGED work
  BY DEF Patch, Finds
<1>2. "open" \in Stages(req[r].op) /\ "open" \notin CopyCalls
  BY <1>1, AskedIs, StagesIs DEF Working, CopyCalls
<1>3. CASE error = "ok"
  BY <1>1, <1>2, <1>3, KeptSame, GoServes
<1>4. CASE error # "ok"
  BY <1>1, <1>4, FindsServes
<1> QED
  BY SMTT(40), <1>3, <1>4

\* The file of a truncation.
LEMMA OpenOldServes ==
  ASSUME Working, NEW r \in Requests, OpenOld(r)
  PROVE  Serves(r)
<1> DEFINE l == Stat(req[r].path)
           w == [work[r] EXCEPT !.inodes = <<disk[l.path].inode>>]
<1>1. PICK error : /\ pc[r] = "openold" /\ UNCHANGED diskVars
                   /\ IF error = "ok" THEN Goes(r, "resize") /\ Holds(r, w)
                      ELSE Ends(r, StatusOf(error)) /\ UNCHANGED work
  BY DEF OpenOld, Finds
<1>2. "resize" \in Stages(req[r].op) /\ "resize" \notin CopyCalls
  BY <1>1, AskedIs, StagesIs DEF Working, CopyCalls
<1>3. DOMAIN w = Fields
  BY DEF Working
<1> HIDE DEF w
<1>4. CASE error = "ok"
  BY <1>1, <1>2, <1>3, <1>4, KeptSame, GoServes
<1>5. CASE error # "ok"
  BY SMTT(40), <1>1, <1>5, FindsServes
<1> QED
  BY <1>4, <1>5

\* The reads that are one call.
LEMMA LookServes ==
  ASSUME Working, NEW r \in Requests, Look(r)
  PROVE  Serves(r)
<1>1. PICK error : /\ UNCHANGED diskVars /\ UNCHANGED work
                   /\ IF error = "ok" THEN Ends(r, IF req[r].op = "access" THEN 204 ELSE 200)
                      ELSE Ends(r, StatusOf(error))
  BY Zenon DEF Look, Finds
<1>2. CASE error = "ok"
  <2>1. \E status \in Statuses : Ends(r, status)
    BY <1>1, <1>2 DEF Statuses
  <2> QED
    BY <1>1, <2>1, KeptSame, EndServes
<1>3. CASE error # "ok"
  BY <1>1, <1>3, FindsServes
<1> QED
  BY <1>2, <1>3

-----------------------------------------------------------------------------
(* Removing and listing.                                                   *)

\* A removal ends with the status of its call.
LEMMA RemovedServes ==
  ASSUME Working, NEW r \in Requests, NEW call, Sound(call), Removed(r, call)
  PROVE  Serves(r)
<1>1. /\ Does(call) /\ UNCHANGED work
      /\ Ends(r, IF Forgives(r, call.error) THEN 204 ELSE StatusOf(call.error))
  BY DEF Removed
<1>2. (IF Forgives(r, call.error) THEN 204 ELSE StatusOf(call.error)) \in Statuses
  BY StatusOfIs DEF Statuses
<1>3. \E status \in Statuses : Ends(r, status)
  BY <1>1, <1>2
<1> QED
  BY <1>1, <1>3, KeptSound, EndServes

\* What is to be removed.
LEMMA ProbeServes ==
  ASSUME Working, NEW r \in Requests, Probe(r)
  PROVE  Serves(r)
<1>1. pc[r] = "probe" /\ IsTree(disk, data)
  BY DEF Probe, Working
<1>2. \/ \E e : Removed(r, Fails(e))
      \/ UNCHANGED diskVars /\ UNCHANGED work /\ \E to \in {"removeall", "rmdir", "unlink"} : Goes(r, to)
  BY DEF Probe
<1>3. CASE \E e : Removed(r, Fails(e))
  <2>1. PICK e : Removed(r, Fails(e))
    BY <1>3
  <2>2. Sound(Fails(e))
    BY <1>1, FailsSound
  <2> QED
    BY <2>1, <2>2, RemovedServes
<1>4. ASSUME UNCHANGED diskVars, UNCHANGED work, NEW to \in {"removeall", "rmdir", "unlink"}, Goes(r, to)
      PROVE  Serves(r)
  <2>1. to \in Stages(req[r].op) /\ to \notin CopyCalls
    BY <1>1, AskedIs, StagesIs DEF Working, CopyCalls
  <2> QED
    BY <1>4, <2>1, KeptSame, GoServes
<1> QED
  BY <1>2, <1>3, <1>4

\* A file, a link, a directory alone.
LEMMA RemoveOneServes ==
  ASSUME Working, NEW r \in Requests, RemoveOne(r)
  PROVE  Serves(r)
<1>1. IsTree(disk, data) /\ req[r].path \in Seq(Names)
  BY AskedIs DEF Working
<1>2. Sound(Unlink(req[r].path)) /\ Sound(Rmdir(req[r].path))
  BY <1>1, UnlinkSound, RmdirSound
<1> QED
  BY <1>2, RemovedServes DEF RemoveOne

\* A directory with what is in it.
LEMMA RemoveAllServes ==
  ASSUME Working, NEW r \in Requests, RemoveAll(r)
  PROVE  Serves(r)
<1>1. IsTree(disk, data) /\ req[r].path \in Seq(Names) /\ pc[r] = "removeall"
  BY AskedIs DEF Working, RemoveAll
<1> DEFINE l == Lstat(req[r].path)
           w == [work[r] EXCEPT !.inodes = <<disk[l.path].inode>>,
                                !.old = {disk[p].inode : p \in Below(disk, l.path)}]
<1>2. \/ Goes(r, "clear") /\ Holds(r, w) /\ UNCHANGED diskVars
      \/ Removed(r, Fails("NotADirectory"))
      \/ Removed(r, Unlink(req[r].path))
  BY DEF RemoveAll
<1>3. DOMAIN w = Fields
  BY DEF Working
<1> HIDE DEF w
<1>4. Sound(Unlink(req[r].path)) /\ Sound(Fails("NotADirectory"))
  BY <1>1, UnlinkSound, FailsSound
<1>5. CASE Goes(r, "clear") /\ Holds(r, w) /\ UNCHANGED diskVars
  <2>1. "clear" \in Stages(req[r].op) /\ "clear" \notin CopyCalls
    BY <1>1, AskedIs, StagesIs DEF Working, CopyCalls
  <2> QED
    BY <1>3, <1>5, <2>1, KeptSame, GoServes
<1> QED
  BY <1>2, <1>4, <1>5, RemovedServes

\* An entry of a directory that is cleared: it is in that directory, so not the root.
LEMMA ClearOneServes ==
  ASSUME Working, NEW r \in Requests, ClearOne(r)
  PROVE  Serves(r)
<1>1. IsTree(disk, data) /\ pc[r] = "clear"
  BY DEF Working, ClearOne
<1>2. PICK p \in Inside(r) : Children(disk, p) = {} /\ Does(Drops({p}))
  BY DEF ClearOne
<1>3. PICK q \in Present : p \in Below(disk, q)
  BY <1>2 DEF Inside
<1>4. p \in Present /\ Under(p, q) /\ p # q
  BY <1>3 DEF Below, Present
<1>5. p # Root
  <2>1. p \in Seq(Names) /\ q \in Seq(Names)
    BY <1>1, <1>3, <1>4, TreeIs DEF Present
  <2>2. Len(q) < Len(p) /\ Len(q) \in Nat
    BY <1>1, <1>4, <2>1, NothingBelow, LenProperties DEF Present
  <2> QED
    BY <2>2, EmptySeq DEF Root
<1>6. TreeKept
  BY <1>1, <1>2, <1>4, <1>5, DropsSound, KeptSound
<1>7. UNCHANGED pc /\ UNCHANGED answer /\ UNCHANGED work
  BY DEF ClearOne, requestVars
<1>8. pc[r] \in Stages(req[r].op) /\ DOMAIN work[r] = Fields /\ pc[r] \notin CopyCalls
  BY <1>1 DEF Working, CopyCalls
<1>9. Others(r)
  BY <1>7 DEF Others, Working
<1>10. CopyWork(pc[r], work[r], data')
  BY <1>8 DEF CopyWork, CopyCalls
<1> QED
  BY <1>6, <1>7, <1>8, <1>9, <1>10 DEF Serves

\* A directory that something has come into.
LEMMA ClearBlockedServes ==
  ASSUME Working, NEW r \in Requests, ClearBlocked(r)
  PROVE  Serves(r)
<1>1. Sound(Fails("NotEmpty"))
  BY FailsSound DEF Working
<1> QED
  BY <1>1, RemovedServes DEF ClearBlocked

\* The directory that was cleared.
LEMMA ClearEndServes ==
  ASSUME Working, NEW r \in Requests, ClearEnd(r)
  PROVE  Serves(r)
<1>1. IsTree(disk, data) /\ req[r].path \in Seq(Names) /\ Len(data) \in Nat
  BY AskedIs, TreeIs DEF Working
<1>2. Sound(Rmdir(req[r].path)) /\ Sound(Leaves(disk, data))
  BY <1>1, RmdirSound, LeavesIs DEF Sound
<1>3. Removed(r, Leaves(disk, data)) \/ Removed(r, Rmdir(req[r].path))
  BY DEF ClearEnd
<1> QED
  BY <1>2, <1>3, RemovedServes

-----------------------------------------------------------------------------
(* Copying.                                                                *)

\* A tree has so many entries.
LEMMA TreeFinite ==
  ASSUME NEW d, NEW b, IsTree(d, b)
  PROVE  IsFiniteSet(DOMAIN d)
<1> DEFINE f == [p \in DOMAIN d |-> d[p].inode]
<1>1. f \in [DOMAIN d -> 1..Len(b)] /\ Len(b) \in Nat
  BY TreeIs
<1>2. \A p, q \in DOMAIN f : f[p] = f[q] => p = q
  BY TreeParts DEF Distinct
<1> HIDE DEF f
<1>3. f \in Injection(DOMAIN d, 1..Len(b))
  BY <1>1, <1>2 DEF Injection, IsInjective
<1>4. IsFiniteSet(1..Len(b))
  BY <1>1, FS_Interval
<1> QED
  BY <1>3, <1>4, FS_Injection

\* An entry in p is one of its names.
LEMMA ChildIs ==
  ASSUME IsTree(disk, data), NEW p \in Seq(Names), NEW q \in Children(disk, p)
  PROVE  /\ q \in Present /\ q \in Seq(Names) /\ q # Root /\ Last(q) \in Names
         /\ Front(q) = p /\ q = Append(p, Last(q))
<1>1. q \in Present /\ Len(q) = Len(p) + 1 /\ Under(q, p)
  BY DEF Children, Present
<1>2. q \in Seq(Names) /\ Len(p) \in Nat
  BY <1>1, TreeIs, LenProperties DEF Present
<1>3. q # Root
  BY <1>1, <1>2, EmptySeq DEF Root
<1>4. /\ Front(q) \in Seq(Names) /\ Last(q) \in Names /\ q = Append(Front(q), Last(q))
      /\ Len(Front(q)) = Len(q) - 1
  BY <1>2, <1>3, FrontLast
<1>5. q # p
  BY <1>1, <1>2
<1>6. Under(Front(q), p)
  BY <1>1, <1>2, <1>3, <1>5, UnderFront
<1>7. \A i \in 1..Len(p) : Front(q)[i] = p[i]
  BY <1>4, <1>6, UnderIs
<1>8. Front(q) = p
  BY <1>1, <1>2, <1>4, <1>7, SeqEqual
<1> QED
  BY <1>1, <1>2, <1>3, <1>4, <1>8

\* Some of the children of p: a finite set, and so are their names.
LEMMA NamesFinite ==
  ASSUME IsTree(disk, data), NEW path \in Seq(Names)
  PROVE  IsFiniteSet(NamesIn(path)) /\ NamesIn(path) \subseteq Names
<1> DEFINE p == Stat(path).path
           S == Children(disk, p)
           T == NamesIn(path)
           f == [q \in S |-> Last(q)]
<1>1. p \in Seq(Names)
  BY EntryIs DEF Stat
<1>2. T = {Last(q) : q \in S}
  BY DEF NamesIn
<1>3. \A q \in S : Last(q) \in Names
  <2> HIDE DEF p
  <2> QED
    BY <1>1, ChildIs
<1>4. IsFiniteSet(S)
  <2>1. S \in SUBSET (DOMAIN disk)
    BY DEF Children
  <2> HIDE DEF S
  <2> QED
    BY <2>1, TreeFinite, FS_Subset
<1>5. f \in [S -> T] /\ \A t \in T : \E q \in S : f[q] = t
  <2> HIDE DEF S, T
  <2> QED
    BY <1>2
<1>6. f \in Surjection(S, T)
  <2> HIDE DEF S, T, f
  <2> QED
    BY <1>5 DEF Surjection
<1>7. IsFiniteSet(T)
  <2> HIDE DEF S, T, f
  <2> QED
    BY <1>4, <1>6, FS_Surjection
<1> QED
  BY <1>2, <1>3, <1>7

\* They are read in some order.
LEMMA NamesAre ==
  ASSUME IsTree(disk, data), NEW path \in Seq(Names), NEW names \in SetToSeqs(NamesIn(path))
  PROVE  names \in Seq(Names)
<1> DEFINE n == Cardinality(NamesIn(path))
<1>1. names \in [1..n -> NamesIn(path)]
  BY DEF SetToSeqs
<1>2. n \in Nat
  BY NamesFinite, FS_CardinalityType
<1>3. NamesIn(path) \subseteq Names
  BY NamesFinite
<1> HIDE DEF n
<1>4. names \in [1..n -> Names]
  BY <1>1, <1>3
<1> QED
  BY <1>2, <1>4

\* The next pair of a copy.
LEMMA CopyPopServes ==
  ASSUME Working, NEW r \in Requests, CopyPop(r)
  PROVE  Serves(r)
<1>1. /\ pc[r] = "copy" /\ pc[r] \in CopyCalls /\ work[r].todo \in Seq(Pairs)
      /\ DOMAIN work[r] = Fields
  BY DEF CopyPop, CopyCalls, Working, CopyWork
<1>2. CopyCalls \subseteq Stages(req[r].op)
  BY <1>1, AskedIs, StagesIs DEF Working
<1> DEFINE pair == Last(work[r].todo)
           l == Stat(pair.from)
           to == IF Kind(l.path) = "dir" THEN "copymake" ELSE "copyfile"
           w == [work[r] EXCEPT !.todo = Front(@), !.at = pair]
<1>3. CASE work[r].todo = <<>>
  <2>1. UNCHANGED diskVars /\ UNCHANGED work /\ Ends(r, 204) /\ 204 \in Statuses
    BY <1>3 DEF CopyPop, Statuses
  <2> QED
    BY <2>1, KeptSame, EndServes
<1>4. CASE work[r].todo # <<>>
  <2>1. /\ UNCHANGED diskVars
        /\ IF l.error = "ok" THEN Goes(r, to) /\ Holds(r, w)
           ELSE Ends(r, StatusOf(l.error)) /\ UNCHANGED work
    BY <1>4 DEF CopyPop, Finds
  <2>2. CASE l.error # "ok"
    BY <2>1, <2>2, FindsServes
  <2>3. CASE l.error = "ok"
    <3>1. to \in CopyCalls /\ to # "transfer"
      BY DEF CopyCalls
    <3>2. pair \in Pairs /\ Front(work[r].todo) \in Seq(Pairs)
      <4> DEFINE s == work[r].todo
      <4>1. s \in Seq(Pairs) /\ s # Root
        BY <1>1, <1>4 DEF Root
      <4> HIDE DEF s
      <4>2. Front(s) \in Seq(Pairs) /\ Last(s) \in Pairs
        BY <4>1, FrontLast
      <4> QED
        BY <4>2 DEF s
    <3> HIDE DEF pair
    <3>3. DOMAIN w = Fields /\ w.todo = Front(work[r].todo) /\ w.at = pair
      BY <1>1 DEF Fields, Idle
    <3> HIDE DEF to, w
    <3>4. CopyWork(to, w, data')
      BY <3>1, <3>2, <3>3 DEF CopyWork
    <3>5. Goes(r, to) /\ Holds(r, w) /\ to \in Stages(req[r].op)
      BY SMTT(40), <1>2, <2>1, <2>3, <3>1
    <3> QED
      BY <2>1, <3>3, <3>4, <3>5, KeptSame, Serving
  <2> QED
    BY <2>2, <2>3
<1> QED
  BY <1>3, <1>4

\* Source and destination of a file: the source is there, so its inode has bytes.
LEMMA CopyOpenServes ==
  ASSUME Working, NEW r \in Requests, CopyOpen(r)
  PROVE  Serves(r)
<1>1. /\ pc[r] \in CopyCalls /\ work[r].todo \in Seq(Pairs) /\ work[r].at \in Pairs
      /\ DOMAIN work[r] = Fields /\ IsTree(disk, data)
  BY DEF CopyOpen, CopyCalls, Working, CopyWork
<1>2. "transfer" \in Stages(req[r].op)
  BY SMTT(40), <1>1, AskedIs, StagesIs DEF Working, CopyCalls
<1> DEFINE from == Stat(work[r].at.from)
           to == work[r].at.to
           checks == <<Resolved(from), <<Kind(from.path) = "dir", "InvalidInput">>>>
           call == Unless(checks, OpenEmpty(to))
           w == [work[r] EXCEPT !.inodes = <<disk[from.path].inode,
                                             call.disk[Locate(disk, to, TRUE).path].inode>>]
<1>3. /\ Does(call)
      /\ IF call.error = "ok" THEN Goes(r, "transfer") /\ Holds(r, w)
         ELSE Ends(r, StatusOf(call.error)) /\ UNCHANGED work
  BY DEF CopyOpen, Then
<1>4. to \in Seq(Names) /\ work[r].at.from \in Seq(Names)
  BY <1>1 DEF Pairs
<1>5. from.error = "ok" => from.path \in Present
  BY <1>1, <1>4, EntryIs DEF Stat
<1>6. DOMAIN w = Fields /\ w.todo = work[r].todo /\ w.inodes[1] = disk[from.path].inode
  BY <1>1 DEF Fields, Idle
<1> HIDE DEF from, to, w
<1>7. /\ DOMAIN checks = 1..2
      /\ (checks[1][1] <=> from.error # "ok") /\ checks[1][2] = from.error
      /\ checks[2][2] = "InvalidInput"
  <2>1. DOMAIN checks = 1..2
    OBVIOUS
  <2>2. (checks[1][1] <=> from.error # "ok") /\ checks[1][2] = from.error
    BY DEF Resolved
  <2>3. checks[2][2] = "InvalidInput"
    OBVIOUS
  <2> HIDE DEF checks
  <2> QED
    BY <2>1, <2>2, <2>3
<1> HIDE DEF checks
<1>8. \A k \in 1..2 : checks[k][1] => checks[k][2] # "ok"
  BY <1>7
<1>9. Sound(call)
  <2>1. Sound(OpenEmpty(to))
    BY <1>1, <1>4, OpenEmptySound
  <2> QED
    BY <1>1, <1>7, <1>8, <2>1, UnlessSound
<1>10. call.error = "ok" => from.error = "ok"
  <2> DEFINE n == 2
             open == OpenEmpty(to)
  <2>1. n \in Nat /\ DOMAIN checks = 1..n /\ \A k \in 1..n : checks[k][1] => checks[k][2] # "ok"
    BY <1>7, <1>8
  <2>2. \/ \A k \in 1..n : ~checks[k][1]
        \/ \E e : Unless(checks, open) = Fails(e) /\ e # "ok"
    <3> HIDE DEF n, open
    <3> QED
      BY <2>1, UnlessIs
  <2>3. CASE \A k \in 1..n : ~checks[k][1]
    <3>1. ~checks[1][1]
      BY <2>3
    <3> QED
      BY <1>7, <3>1
  <2>4. CASE \E e : Unless(checks, open) = Fails(e) /\ e # "ok"
    <3>1. call = Unless(checks, open)
      OBVIOUS
    <3> HIDE DEF call
    <3> QED
      BY <2>4, <3>1, FailsIs
  <2> QED
    BY <2>2, <2>3, <2>4
<1> HIDE DEF call
<1>11. TreeKept
  BY <1>3, <1>9, KeptSound
<1>12. CASE call.error = "ok"
  <2>1. disk[from.path].inode \in 1..Len(data)
    BY <1>1, <1>5, <1>10, <1>12, TreeIs DEF Present
  <2>2. Len(data) <= Len(data') /\ Len(data) \in Nat /\ Len(data') \in Nat
    BY <1>1, <1>11, TreeIs DEF TreeKept
  <2>3. CopyWork("transfer", w, data')
    BY <1>1, <1>6, <2>1, <2>2 DEF CopyWork
  <2> QED
    BY <1>2, <1>3, <1>6, <1>11, <1>12, <2>3, Serving
<1>13. CASE call.error # "ok"
  BY <1>3, <1>9, <1>13, ThenServes
<1> QED
  BY <1>12, <1>13

\* The bytes.
LEMMA TransferServes ==
  ASSUME Working, NEW r \in Requests, Transfer(r)
  PROVE  Serves(r)
<1> DEFINE from == work[r].inodes[1]
           to == work[r].inodes[2]
           bytes == IF from = to THEN data[to] ELSE Overlay(data[from], data[to])
<1>1. /\ pc[r] \in CopyCalls /\ work[r].todo \in Seq(Pairs) /\ from \in 1..Len(data)
      /\ DOMAIN work[r] = Fields /\ data \in Seq(Seq(0..NotText))
  BY TreeIs DEF Transfer, CopyCalls, Working, CopyWork
<1>2. disk' = disk /\ data' = [data EXCEPT ![to] = bytes] /\ Goes(r, "copy") /\ UNCHANGED work
  BY DEF Transfer
<1>3. ASSUME to \in 1..Len(data) PROVE bytes \in Seq(0..NotText)
  <2> DEFINE S == Seq(0..NotText)
             f == from
             t == to
  <2>1. data \in Seq(S) /\ f \in 1..Len(data) /\ t \in 1..Len(data)
    BY <1>1, <1>3
  <2>2. data[f] \in S /\ data[t] \in S
    <3> HIDE DEF S, f, t
    <3> QED
      BY <2>1
  <2>3. Overlay(data[from], data[to]) \in Seq(0..NotText)
    BY <2>2, OverlayIs
  <2> QED
    BY <2>2, <2>3
<1> HIDE DEF from, to, bytes
<1>4. TreeKept
  BY <1>2, <1>3, KeptWrite
<1>5. "copy" \in Stages(req[r].op)
  BY <1>1, AskedIs, StagesIs DEF Working, CopyCalls
<1>6. CopyWork("copy", work[r], data')
  BY <1>1 DEF CopyWork
<1> QED
  BY <1>1, <1>2, <1>4, <1>5, <1>6, Serving

\* The destination of a directory.
LEMMA CopyMakeServes ==
  ASSUME Working, NEW r \in Requests, CopyMake(r)
  PROVE  Serves(r)
<1>1. /\ pc[r] \in CopyCalls /\ work[r].todo \in Seq(Pairs) /\ work[r].at \in Pairs
      /\ DOMAIN work[r] = Fields /\ IsTree(disk, data)
  BY DEF CopyMake, CopyCalls, Working, CopyWork
<1> DEFINE call == MakeAll(work[r].at.to)
<1>2. /\ Does(call)
      /\ IF call.error = "ok" THEN Goes(r, "copyread") /\ UNCHANGED work
         ELSE Ends(r, StatusOf(call.error)) /\ UNCHANGED work
  BY DEF CopyMake, Then
<1>3. Sound(call)
  <2>1. work[r].at.to \in Seq(Names)
    BY <1>1 DEF Pairs
  <2> QED
    BY <1>1, <2>1, MakeAllSound
<1> HIDE DEF call
<1>4. "copyread" \in Stages(req[r].op)
  BY <1>1, AskedIs, StagesIs DEF Working, CopyCalls
<1>5. CopyWork("copyread", work[r], data')
  BY <1>1 DEF CopyWork
<1>6. CASE call.error = "ok"
  BY <1>1, <1>2, <1>3, <1>4, <1>5, <1>6, KeptSound, Serving
<1>7. CASE call.error # "ok"
  BY <1>2, <1>3, <1>7, ThenServes
<1> QED
  BY <1>6, <1>7

\* What is in a directory is copied next.
LEMMA CopyReadServes ==
  ASSUME Working, NEW r \in Requests, CopyRead(r)
  PROVE  Serves(r)
<1> DEFINE from == work[r].at.from
           to == work[r].at.to
           more(names) == [k \in DOMAIN names |-> [from |-> Append(from, names[k]),
                                                   to |-> Append(to, names[k])]]
           w(names) == [work[r] EXCEPT !.todo = @ \o more(names)]
<1>1. /\ pc[r] \in CopyCalls /\ work[r].todo \in Seq(Pairs) /\ work[r].at \in Pairs
      /\ DOMAIN work[r] = Fields /\ IsTree(disk, data)
  BY SMTT(40) DEF CopyRead, CopyCalls, Working, CopyWork
<1>2. PICK error : /\ UNCHANGED diskVars
                   /\ IF error = "ok"
                      THEN /\ Goes(r, "copy")
                           /\ \E names \in SetToSeqs(NamesIn(from)) : Holds(r, w(names))
                      ELSE Ends(r, StatusOf(error)) /\ UNCHANGED work
  BY DEF CopyRead, Finds
<1>3. from \in Seq(Names) /\ to \in Seq(Names)
  BY <1>1 DEF Pairs
<1>4. "copy" \in Stages(req[r].op)
  BY <1>1, AskedIs, StagesIs DEF Working, CopyCalls
<1>5. CASE error # "ok"
  BY <1>2, <1>5, FindsServes
<1>6. CASE error = "ok"
  <2>1. PICK names \in SetToSeqs(NamesIn(from)) : Holds(r, w(names))
    BY <1>2, <1>6
  <2>2. names \in Seq(Names)
    <3> HIDE DEF from
    <3> QED
      BY <1>1, <1>3, NamesAre
  <2> DEFINE m == more(names)
  <2>3. m \in Seq(Pairs)
    <3> HIDE DEF from, to
    <3>1. DOMAIN names = 1..Len(names) /\ Len(names) \in Nat /\ \A k \in 1..Len(names) : names[k] \in Names
      BY <2>2, LenProperties
    <3>2. ASSUME NEW k \in 1..Len(names)
          PROVE  [from |-> Append(from, names[k]), to |-> Append(to, names[k])] \in Pairs
      <4>1. Append(from, names[k]) \in Seq(Names) /\ Append(to, names[k]) \in Seq(Names)
        BY <1>3, <3>1, AppendProperties
      <4> QED
        BY <4>1 DEF Pairs
    <3>3. m \in [1..Len(names) -> Pairs]
      BY <3>1, <3>2
    <3> HIDE DEF m
    <3> QED
      BY <3>1, <3>3
  <2> DEFINE v == [work[r] EXCEPT !.todo = @ \o m]
  <2>4. Holds(r, v)
    BY <2>1
  <2> HIDE DEF m
  <2>5. DOMAIN v = Fields /\ v.todo = work[r].todo \o m
    BY <1>1 DEF Fields, Idle
  <2> HIDE DEF v
  <2>6. v.todo \in Seq(Pairs)
    BY <1>1, <2>3, <2>5, ConcatProperties
  <2>7. CopyWork("copy", v, data')
    BY <2>6 DEF CopyWork
  <2>8. Goes(r, "copy") /\ UNCHANGED diskVars
    BY <1>2, <1>6
  <2> QED
    BY SMTT(40), <1>4, <2>4, <2>5, <2>7, <2>8, KeptSame, Serving
<1> QED
  BY SMTT(40), <1>5, <1>6

\* A directory of a listing.
LEMMA WalkDirServes ==
  ASSUME Working, NEW r \in Requests, WalkDir(r)
  PROVE  Serves(r)
<1>1. /\ pc[r] = "walk" /\ DOMAIN work[r] = Fields /\ "walk" \in Stages(req[r].op)
      /\ "walk" \notin CopyCalls /\ "done" \in Stages(req[r].op)
  BY AskedIs, StagesIs DEF WalkDir, CopyCalls, Working
<1>2. CASE req[r].depth = 0
  <2>1. UNCHANGED diskVars /\ UNCHANGED work /\ Ends(r, 200) /\ 200 \in Statuses
    BY <1>2 DEF WalkDir, Statuses
  <2> QED
    BY <2>1, KeptSame, EndServes
<1>3. CASE req[r].depth # 0
  <2>1. PICK error :
          /\ UNCHANGED diskVars
          /\ IF error = "ok"
             THEN /\ Goes(r, "walk") \/ Ends(r, 200)
                  /\ \E w : DOMAIN w = Fields /\ Holds(r, w)
             ELSE Ends(r, StatusOf(error)) /\ UNCHANGED work
    <3> DEFINE W == work[r]
               deeper == W.deeper \o SetToSeq({Append(Head(W.todo), Last(q)) :
                           q \in {q \in Children(disk, Stat(Head(W.todo)).path) : Descends(q)}})
               w == IF Tail(W.todo) # <<>>
                    THEN [W EXCEPT !.todo = Tail(@), !.deeper = deeper]
                    ELSE [W EXCEPT !.todo = deeper, !.deeper = <<>>, !.level = @ + 1]
               error == ReadDirError(Head(W.todo))
    <3>1. /\ UNCHANGED diskVars
          /\ IF error = "ok" THEN (Goes(r, "walk") \/ Ends(r, 200)) /\ Holds(r, w)
             ELSE Ends(r, StatusOf(error)) /\ UNCHANGED work
      BY <1>3 DEF WalkDir, Finds
    <3>2. DOMAIN w = Fields
      <4> HIDE DEF deeper
      <4> QED
        BY <1>1
    <3> HIDE DEF w, error
    <3> QED
      BY <3>1, <3>2
  <2>2. CASE error # "ok"
    BY <2>1, <2>2, FindsServes
  <2>3. CASE error = "ok"
    <3>1. PICK w : DOMAIN w = Fields /\ Holds(r, w)
      BY <2>1, <2>3
    <3>2. TreeKept
      BY <2>1, KeptSame
    <3>3. CASE Goes(r, "walk")
      BY <1>1, <3>1, <3>2, <3>3, GoServes
    <3>4. CASE Ends(r, 200)
      <4>1. CopyWork("done", w, data') /\ \E status \in Statuses : Ends(r, status)
        BY <3>4 DEF CopyWork, CopyCalls, Statuses
      <4> QED
        BY <1>1, <3>1, <3>2, <4>1, Serving
    <3> QED
      BY <2>1, <2>3, <3>3, <3>4
  <2> QED
    BY <2>2, <2>3
<1> QED
  BY <1>2, <1>3

\* A request that has come makes its first call.
LEMMA BeginServes ==
  ASSUME Working, NEW r \in Requests, Begin(r)
  PROVE  Serves(r) /\ pc'[r] # "done"
<1> DEFINE q == req[r]
           to == FirstCall[q.op]
           pair == [from |-> q.path, to |-> q.to]
           w == [Idle EXCEPT !.todo = IF q.op = "copy" THEN <<pair>> ELSE <<q.path>>]
<1>1. Goes(r, to) /\ Holds(r, w) /\ UNCHANGED diskVars
  BY DEF Begin
<1>2. /\ q.op \in DOMAIN FirstCall /\ q.path \in Seq(Names) /\ q.to \in Seq(Names)
      /\ to \in Stages(q.op)
  BY AskedIs, StagesIs
<1>3. to # "done" /\ (to \in CopyCalls => to = "copy" /\ q.op = "copy")
  BY <1>2, FirstCallIs DEF CopyCalls
<1>4. DOMAIN w = Fields /\ (q.op = "copy" => w.todo = <<pair>>)
  BY DEF Fields, Idle
<1>5. <<pair>> \in Seq(Pairs)
  <2>1. pair \in Pairs
    BY <1>2 DEF Pairs
  <2> HIDE DEF pair
  <2> QED
    BY <2>1
<1> HIDE DEF w, to, pair
<1>6. CopyWork(to, w, data')
  BY <1>3, <1>4, <1>5 DEF CopyWork, CopyCalls
<1> QED
  BY <1>1, <1>2, <1>3, <1>4, <1>6, KeptSame, Serving

\* A step of r.
LEMMA StepServes ==
  ASSUME Working, NEW r \in Requests, Step(r)
  PROVE  /\ Serves(r) /\ pc[r] \notin {"start", "done"}
         /\ pc[r] = "temp" /\ pc'[r] = "done" /\ answer'[r] = 200 => Newest(r)
<1>1. CASE Make(r)
  BY <1>1, MakeServes DEF Make
<1>2. CASE MoveTo(r)
  BY SMTT(40), <1>2, MoveToServes DEF MoveTo
<1>3. CASE Temp(r)
  BY <1>3, TempServes DEF Temp
<1>4. CASE Open(r)
  BY <1>4, OpenServes DEF Open
<1>5. CASE Write(r)
  BY Zenon, <1>5, WriteServes DEF Write
<1>6. CASE Patch(r)
  BY Zenon, <1>6, PatchServes DEF Patch
<1>7. CASE OpenOld(r)
  BY <1>7, OpenOldServes DEF OpenOld
<1>8. CASE SetLen(r)
  BY ZenonT(60), <1>8, SetLenServes DEF SetLen
<1>9. CASE Look(r)
  BY Zenon, <1>9, LookServes DEF Look
<1>10. CASE CopyPop(r)
  BY ZenonT(60), <1>10, CopyPopServes DEF CopyPop
<1>11. CASE CopyOpen(r)
  BY Zenon, <1>11, CopyOpenServes DEF CopyOpen
<1>12. CASE Transfer(r)
  BY ZenonT(60), <1>12, TransferServes DEF Transfer
<1>13. CASE CopyMake(r)
  BY <1>13, CopyMakeServes DEF CopyMake
<1>14. CASE CopyRead(r)
  BY Zenon, <1>14, CopyReadServes DEF CopyRead
<1>15. CASE WalkDir(r)
  BY Zenon, <1>15, WalkDirServes DEF WalkDir
<1>16. CASE Probe(r)
  BY <1>16, ProbeServes DEF Probe
<1>17. CASE RemoveOne(r)
  BY SMTT(40), <1>17, RemoveOneServes DEF RemoveOne
<1>18. CASE RemoveAll(r)
  BY Zenon, <1>18, RemoveAllServes DEF RemoveAll
<1>19. CASE ClearOne(r)
  BY <1>19, ClearOneServes DEF ClearOne
<1>20. CASE ClearBlocked(r)
  BY <1>20, ClearBlockedServes DEF ClearBlocked
<1>21. CASE ClearEnd(r)
  BY <1>21, ClearEndServes DEF ClearEnd
<1> QED
  BY <1>1, <1>2, <1>3, <1>4, <1>5, <1>6, <1>7, <1>8, <1>9, <1>10, <1>11, <1>12, <1>13, <1>14,
     <1>15, <1>16, <1>17, <1>18, <1>19, <1>20, <1>21 DEF Step

\* Serving r leaves the others what they work on.
LEMMA ServesWorking ==
  ASSUME Working, NEW r \in Requests, Serves(r), UNCHANGED req
  PROVE  Working'
<1>1. IsTree(disk', data') /\ Len(data) <= Len(data') /\ Len(data) \in Nat /\ Len(data') \in Nat
  <2>1. IsTree(disk', data') /\ Len(data) <= Len(data') /\ IsTree(disk, data)
    BY DEF Serves, TreeKept, Working
  <2> QED
    BY <2>1, TreeIs
<1>2. ASSUME NEW q \in Requests
      PROVE  pc'[q] \in Stages(req[q].op) /\ DOMAIN work'[q] = Fields /\ CopyWork(pc'[q], work'[q], data')
  <2>1. CASE q = r
    BY <2>1 DEF Serves
  <2>2. CASE q # r
    <3>1. pc'[q] = pc[q] /\ work'[q] = work[q]
      BY <2>2 DEF Serves, Others
    <3>2. pc[q] \in Stages(req[q].op) /\ DOMAIN work[q] = Fields /\ CopyWork(pc[q], work[q], data)
      BY DEF Working
    <3>3. CopyWork(pc[q], work[q], data')
      BY <1>1, <3>2 DEF CopyWork
    <3> QED
      BY <3>1, <3>2, <3>3
  <2> QED
    BY <2>1, <2>2
<1>3. /\ pc' \in [Requests -> Calls] /\ answer' \in [Requests -> Statuses]
      /\ DOMAIN work' = Requests /\ req' \in [Requests -> Asked] /\ req' = req
  BY DEF Serves, Others, Working
<1> QED
  BY <1>1, <1>2, <1>3 DEF Working

-----------------------------------------------------------------------------
(* What holds of the disk and of the temporary entries.                    *)

\* A temporary entry has an inode of its own, made since the request came.
TempWork ==
  /\ DOMAIN before = Requests
  /\ \A r \in Requests : Len(before[r].data) \in Nat /\ Len(before[r].data) <= Len(data)
  /\ \A r \in Requests :
       pc[r] = "done" /\ answer[r] = 200 /\ req[r].op = "temp" =>
         \E i \in Nat : Len(before[r].data) < i /\ i <= Len(data) /\ work[r].inodes = <<i>>
  /\ \A r, q \in Requests :
       /\ pc[r] = "done" /\ answer[r] = 200 /\ req[r].op = "temp"
       /\ pc[q] = "done" /\ answer[q] = 200 /\ req[q].op = "temp"
       /\ q # r
       => work[q].inodes # work[r].inodes

TreeInv == Working /\ TempWork

\* It holds of the disks that are found.
LEMMA InitTree == Init => TreeInv
<1> SUFFICES ASSUME Init PROVE TreeInv
  OBVIOUS
<1>1. IsTree(disk, data)
  BY FileTreeAssumption DEF Init
<1>2. req \in [Requests -> Asked]
  BY FileTreeAssumption DEF Init
<1>3. Len(data) \in Nat
  BY <1>1, TreeIs
<1>4. \A r \in Requests : pc[r] = "start" /\ work[r] = Idle /\ before[r].data = data
  BY DEF Init
<1>5. pc \in [Requests -> Calls] /\ answer \in [Requests -> Statuses] /\ DOMAIN work = Requests
  BY DEF Init, Calls, Statuses
<1>6. \A r \in Requests : /\ pc[r] \in Stages(req[r].op) /\ DOMAIN work[r] = Fields
                          /\ CopyWork(pc[r], work[r], data)
  BY <1>4 DEF Stages, Fields, CopyWork, CopyCalls
<1>7. DOMAIN before = Requests
  BY DEF Init
<1>8. Working
  BY <1>1, <1>2, <1>5, <1>6 DEF Working
<1>9. TempWork
  BY <1>3, <1>4, <1>7 DEF TempWork
<1> QED
  BY <1>8, <1>9 DEF TreeInv

\* Every step keeps it.
LEMMA NextTree == TreeInv /\ [Next]_vars => TreeInv'
<1> SUFFICES ASSUME TreeInv, [Next]_vars PROVE TreeInv'
  OBVIOUS
<1>0. Working /\ TempWork
  BY DEF TreeInv
<1>1. CASE UNCHANGED vars
  <2>1. /\ disk' = disk /\ data' = data /\ req' = req /\ pc' = pc /\ work' = work
        /\ answer' = answer /\ before' = before
    BY <1>1 DEF vars, diskVars, requestVars, historyVars
  <2>2. Working'
    BY <1>0, <2>1 DEF Working
  <2>3. TempWork'
    BY <1>0, <2>1 DEF TempWork
  <2> QED
    BY <2>2, <2>3 DEF TreeInv
<1>2. ASSUME NEW r \in Requests, Begin(r), Arrives(r), UNCHANGED req PROVE TreeInv'
  <2>1. Serves(r) /\ pc'[r] # "done" /\ Working'
    BY <1>0, <1>2, BeginServes, ServesWorking
  <2>2. data' = data /\ Len(data) \in Nat
    BY <1>0, <1>2, TreeIs DEF Begin, diskVars, Working
  <2>3. before' = [before EXCEPT ![r] = [disk |-> disk, data |-> data]]
    BY <1>2 DEF Arrives
  <2>4. \A q \in Requests \ {r} : pc'[q] = pc[q] /\ answer'[q] = answer[q] /\ work'[q] = work[q]
    BY <2>1 DEF Serves, Others
  <2>5. /\ DOMAIN before' = Requests /\ before'[r].data = data
        /\ \A q \in Requests \ {r} : before'[q] = before[q]
    BY <1>0, <2>3 DEF TempWork
  <2>6. TempWork'
    BY <1>0, <1>2, <2>1, <2>2, <2>4, <2>5 DEF TempWork
  <2> QED
    BY <2>1, <2>6 DEF TreeInv
<1>3. ASSUME NEW r \in Requests, Step(r), Watches(r), UNCHANGED req PROVE TreeInv'
  <2>1. /\ Serves(r) /\ pc[r] \notin {"start", "done"} /\ Working'
        /\ pc[r] = "temp" /\ pc'[r] = "done" /\ answer'[r] = 200 => Newest(r)
    BY <1>0, <1>3, StepServes, ServesWorking
  <2>2. Len(data) \in Nat /\ Len(data') \in Nat /\ Len(data) <= Len(data')
    <3>1. IsTree(disk, data) /\ IsTree(disk', data') /\ Len(data) <= Len(data')
      BY <1>0, <2>1 DEF Serves, TreeKept, Working
    <3> QED
      BY <3>1, TreeIs
  <2>3. before' = before
    BY <1>3 DEF Watches
  <2>4. \A q \in Requests \ {r} : pc'[q] = pc[q] /\ answer'[q] = answer[q] /\ work'[q] = work[q]
    BY <2>1 DEF Serves, Others
  <2>5. ASSUME pc'[r] = "done", answer'[r] = 200, req[r].op = "temp"
        PROVE  work'[r].inodes = <<Len(data) + 1>> /\ Len(data') = Len(data) + 1
    <3>1. pc[r] \in {"start", "temp", "done"}
      <4>1. req[r].op \in DOMAIN FirstCall /\ pc[r] \in Stages(req[r].op)
        BY <1>0, AskedIs DEF Working
      <4> QED
        BY <2>5, <4>1, StagesIs
    <3>2. Newest(r)
      BY <2>1, <2>5, <3>1
    <3> QED
      BY <3>2 DEF Newest, NextInode
  <2> DEFINE Made(q) == pc[q] = "done" /\ answer[q] = 200 /\ req[q].op = "temp"
             MadeNow(q) == pc'[q] = "done" /\ answer'[q] = 200 /\ req[q].op = "temp"
  <2>6. ASSUME NEW q \in Requests, MadeNow(q), q # r
        PROVE  Made(q) /\ work'[q].inodes = work[q].inodes
    BY <2>4, <2>6
  <2>7. ASSUME NEW q \in Requests, Made(q)
        PROVE  \E i \in Nat : Len(before[q].data) < i /\ i <= Len(data) /\ work[q].inodes = <<i>>
    BY <1>0, <2>7 DEF TempWork
  <2>8. ASSUME NEW q \in Requests, MadeNow(q)
        PROVE  \E i \in Nat : Len(before[q].data) < i /\ i <= Len(data') /\ work'[q].inodes = <<i>>
    <3>1. Len(before[q].data) \in Nat /\ Len(before[q].data) <= Len(data)
      BY <1>0 DEF TempWork
    <3>2. CASE q = r
      BY <2>2, <2>5, <2>8, <3>1, <3>2
    <3>3. CASE q # r
      <4>1. PICK i \in Nat : Len(before[q].data) < i /\ i <= Len(data) /\ work[q].inodes = <<i>>
        BY <2>6, <2>7, <2>8, <3>3
      <4>2. i <= Len(data') /\ work'[q].inodes = <<i>>
        BY <2>2, <2>6, <2>8, <3>3, <4>1
      <4> QED
        BY <4>1, <4>2
    <3> QED
      BY <3>2, <3>3
  <2>9. ASSUME NEW q \in Requests, MadeNow(q), q # r, MadeNow(r)
        PROVE  work'[q].inodes # work'[r].inodes
    <3>1. PICK i \in Nat : i <= Len(data) /\ work[q].inodes = <<i>>
      BY <2>6, <2>7, <2>9
    <3>2. work'[r].inodes = <<Len(data) + 1>>
      BY <2>5, <2>9
    <3>3. work'[q].inodes = <<i>> /\ i # Len(data) + 1
      BY <2>2, <2>6, <2>9, <3>1
    <3>4. <<i>>[1] = i /\ <<Len(data) + 1>>[1] = Len(data) + 1
      OBVIOUS
    <3> QED
      BY <3>2, <3>3, <3>4
  <2>10. ASSUME NEW p \in Requests, NEW q \in Requests, MadeNow(p), MadeNow(q), q # p
         PROVE  work'[q].inodes # work'[p].inodes
    <3>1. CASE p = r
      BY <2>9, <2>10, <3>1
    <3>2. CASE q = r
      BY <2>9, <2>10, <3>2
    <3>3. CASE p # r /\ q # r
      <4>1. Made(p) /\ Made(q) /\ work'[p].inodes = work[p].inodes /\ work'[q].inodes = work[q].inodes
        BY <2>6, <2>10, <3>3
      <4> QED
        BY <1>0, <2>10, <4>1 DEF TempWork
    <3> QED
      BY <3>1, <3>2, <3>3
  <2>11. TempWork'
    <3>1. req' = req /\ DOMAIN before' = Requests
      BY <1>0, <1>3, <2>3 DEF TempWork
    <3>2. \A q \in Requests : Len(before'[q].data) \in Nat /\ Len(before'[q].data) <= Len(data')
      BY <1>0, <2>2, <2>3 DEF TempWork
    <3> QED
      BY <2>3, <2>8, <2>10, <3>1, <3>2 DEF TempWork
  <2> QED
    BY <2>1, <2>11 DEF TreeInv
<1> QED
  BY <1>1, <1>2, <1>3 DEF Next

\* The disk stays a tree.
THEOREM TreeStands == Spec => []TypeOK
<1>1. TreeInv => TypeOK
  BY DEF TreeInv, Working, TypeOK, Calls, Statuses
<1> QED
  BY <1>1, InitTree, NextTree, PTL DEF Spec

\* Nobody gets a temporary entry of somebody else.
THEOREM TempsAreOwn == Spec => []TempOwns
<1>1. TreeInv => TempOwns
  <2> SUFFICES ASSUME TreeInv, NEW r \in Requests,
                      pc[r] = "done", answer[r] = 200, req[r].op = "temp"
               PROVE  /\ work[r].inodes[1] > Len(before[r].data)
                      /\ \A q \in Requests :
                           pc[q] = "done" /\ answer[q] = 200 /\ req[q].op = "temp" /\ q # r =>
                             work[q].inodes # work[r].inodes
    BY DEF TempOwns
  <2>1. TempWork
    BY DEF TreeInv
  <2>2. PICK i \in Nat : Len(before[r].data) < i /\ work[r].inodes = <<i>>
    BY <2>1 DEF TempWork
  <2>3. work[r].inodes[1] > Len(before[r].data)
    BY <2>1, <2>2 DEF TempWork
  <2> QED
    BY <2>1, <2>3 DEF TempWork
<1> QED
  BY <1>1, InitTree, NextTree, PTL DEF Spec

-----------------------------------------------------------------------------
(* Paths that go on below where a path leads.                              *)

\* The first name of two paths in a row, and what follows it.
LEMMA ConcatHead ==
  ASSUME NEW S, NEW p \in Seq(S), NEW s \in Seq(S), p # <<>>
  PROVE  /\ p \o s \in Seq(S) /\ p \o s # <<>> /\ Len(p \o s) = Len(p) + Len(s)
         /\ Head(p \o s) = Head(p) /\ Tail(p \o s) = Tail(p) \o s
<1>1. Len(p) \in Nat /\ Len(s) \in Nat /\ Len(p) # 0
  BY LenProperties, EmptyIs
<1>2. p \o s \in Seq(S) /\ Len(p \o s) = Len(p) + Len(s)
  BY ConcatProperties
<1>3. \A i \in 1..(Len(p) + Len(s)) : (p \o s)[i] = IF i <= Len(p) THEN p[i] ELSE s[i - Len(p)]
  BY ConcatProperties
<1>4. p \o s # <<>>
  BY <1>1, <1>2, EmptyIs
<1>5. Head(p \o s) = Head(p)
  <2>1. Head(p \o s) = (p \o s)[1] /\ Head(p) = p[1]
    BY <1>2, <1>4
  <2>2. (p \o s)[1] = p[1]
    BY <1>1, <1>3
  <2> QED
    BY <2>1, <2>2
<1> DEFINE a == Tail(p \o s)
           b == Tail(p) \o s
<1>6. /\ a \in Seq(S) /\ Len(a) = Len(p) + Len(s) - 1
      /\ \A i \in 1..Len(a) : a[i] = (p \o s)[i + 1]
  BY <1>2, <1>4, HeadTailProperties
<1>7. /\ Tail(p) \in Seq(S) /\ Len(Tail(p)) = Len(p) - 1
      /\ \A i \in 1..Len(Tail(p)) : Tail(p)[i] = p[i + 1]
  BY HeadTailProperties
<1>8. /\ b \in Seq(S) /\ Len(b) = Len(p) - 1 + Len(s)
      /\ \A i \in 1..(Len(p) - 1 + Len(s)) :
           b[i] = IF i <= Len(p) - 1 THEN Tail(p)[i] ELSE s[i - (Len(p) - 1)]
  BY <1>7, ConcatProperties
<1> HIDE DEF a, b
<1>9. Len(a) = Len(b)
  BY <1>1, <1>6, <1>8
<1>10. ASSUME NEW i \in 1..Len(a) PROVE a[i] = b[i]
  <2>1. i \in 1..(Len(p) + Len(s) - 1) /\ i + 1 \in 1..(Len(p) + Len(s)) /\ i \in Nat
    BY <1>1, <1>6
  <2>2. a[i] = IF i + 1 <= Len(p) THEN p[i + 1] ELSE s[i + 1 - Len(p)]
    BY <1>3, <1>6, <2>1
  <2>3. CASE i <= Len(p) - 1
    <3>1. b[i] = Tail(p)[i] /\ i \in 1..Len(Tail(p))
      BY <1>1, <1>7, <1>8, <2>1, <2>3
    <3>2. b[i] = p[i + 1]
      BY <1>7, <3>1
    <3> QED
      BY <1>1, <2>1, <2>2, <2>3, <3>2
  <2>4. CASE ~(i <= Len(p) - 1)
    <3>1. b[i] = s[i - (Len(p) - 1)]
      BY <1>1, <1>8, <2>1, <2>4
    <3>2. i - (Len(p) - 1) = i + 1 - Len(p) /\ ~(i + 1 <= Len(p))
      BY <1>1, <2>1, <2>4
    <3> QED
      BY <2>2, <3>1, <3>2
  <2> QED
    BY <2>3, <2>4
<1>11. a = b
  BY <1>6, <1>8, <1>9, <1>10, SeqEqual
<1> QED
  BY <1>2, <1>4, <1>5, <1>11 DEF a, b

\* A value that is TRUE.
IsTrue(x) == x = TRUE

\* A path that goes on behind what leads to a directory goes on from that directory.
LEMMA WalkCompose ==
  ASSUME NEW d, Linked(d), NEW follow, NEW first, IsTrue(first),
         NEW W, Walks(d, first, W), NEW V, Walks(d, follow, V),
         NEW q, KindAt(d, q) = "dir", NEW s \in Seq(Names), s # <<>>,
         NEW v \in Ways, W[v] = Ok(q)
  PROVE  \E h \in 0..MaxHops : V[Way(v.at, v.rest \o s, v.hops)] = V[Way(q, s, h)]
<1> DEFINE Longer(w) == Way(w.at, w.rest \o s, w.hops)
           G == {w \in Ways : W[w] = Ok(q) =>
                                \E h \in 0..MaxHops : V[Longer(w)] = V[Way(q, s, h)]}
           S == Stops(d, first)
           on == Onward(d, first)
<1>a. S \subseteq Ways
  BY DEF Stops
<1>e. GoesDown(Ways, S, on, Hops, Left)
  BY WalkGoesDown
<1>b. \A w \in S : W[w] = Ok(q) => w.rest = <<>> /\ w.at = q
  <2> SUFFICES ASSUME NEW w \in S, W[w] = Ok(q) PROVE w.rest = <<>> /\ w.at = q
    OBVIOUS
  <2>0. w \in Ways
    BY <1>a
  <2>1. W[w].error = "ok"
    BY DEF Ok
  <2>2. w.rest = <<>>
    <3>1. w.rest # <<>> => W[w].error # "ok"
      BY <2>0, WalkStep
    <3> QED
      BY <2>1, <3>1
  <2>3. W[w] = Ok(w.at)
    BY <2>0, <2>2, WalkStep
  <2> QED
    BY <2>2, <2>3 DEF Ok
<1>c. ASSUME NEW w \in Ways \ S
      PROVE  /\ W[w] = W[on[w]]
             /\ w.rest # <<>> /\ on[w] \in Ways
             /\ MeetsLink(d, first, w) =>
                  /\ w.hops \in 1..MaxHops /\ d[Ahead(w)].target \in Seq(Names)
                  /\ on[w] = Way(Root, d[Ahead(w)].target \o Tail(w.rest), w.hops - 1)
             /\ ~MeetsLink(d, first, w) =>
                  /\ on[w] = Way(Ahead(w), Tail(w.rest), w.hops)
                  /\ Len(w.rest) # 1 => KindAt(d, Ahead(w)) \notin {"none", "file", "link"}
  <2>1. W[w] = W[on[w]]
    BY WalkStep
  <2>2. w.rest # <<>> /\ on[w] \in Ways
    BY OnwardIs
  <2>3. MeetsLink(d, first, w) =>
          /\ w.hops \in 1..MaxHops /\ d[Ahead(w)].target \in Seq(Names)
          /\ on[w] = Way(Root, d[Ahead(w)].target \o Tail(w.rest), w.hops - 1)
    BY OnwardIs
  <2>4. ~MeetsLink(d, first, w) =>
          /\ on[w] = Way(Ahead(w), Tail(w.rest), w.hops)
          /\ Len(w.rest) # 1 => KindAt(d, Ahead(w)) \notin {"none", "file", "link"}
    BY OnwardIs
  <2> QED
    BY <2>1, <2>2, <2>3, <2>4
<1>d. ASSUME NEW w \in Ways, w \notin Stops(d, follow)
      PROVE  /\ V[w] = V[Onward(d, follow)[w]]
             /\ MeetsLink(d, follow, w) => Onward(d, follow)[w] =
                   Way(Root, d[Ahead(w)].target \o Tail(w.rest), w.hops - 1)
             /\ ~MeetsLink(d, follow, w) => Onward(d, follow)[w] =
                   Way(Ahead(w), Tail(w.rest), w.hops)
  <2>1. V[w] = V[Onward(d, follow)[w]]
    BY <1>d, WalkStep
  <2>2. MeetsLink(d, follow, w) => Onward(d, follow)[w] =
          Way(Root, d[Ahead(w)].target \o Tail(w.rest), w.hops - 1)
    BY <1>d, OnwardIs
  <2>3. ~MeetsLink(d, follow, w) => Onward(d, follow)[w] = Way(Ahead(w), Tail(w.rest), w.hops)
    BY <1>d, OnwardIs
  <2> QED
    BY <2>1, <2>2, <2>3
<1> HIDE DEF S, on
<1>1. S \subseteq G
  <2> SUFFICES ASSUME NEW w \in S, W[w] = Ok(q)
               PROVE  \E h \in 0..MaxHops : V[Longer(w)] = V[Way(q, s, h)]
    BY <1>a
  <2>1. w.rest \o s = s /\ w.at = q
    BY <1>b, ConcatEmptySeq
  <2>2. w \in Ways
    BY <1>a
  <2> QED
    BY <2>1, <2>2, WayTypes
<1>2. ASSUME NEW w \in Ways \ S, on[w] \in G PROVE w \in G
  <2>1. SUFFICES ASSUME W[w] = Ok(q)
                 PROVE  \E h \in 0..MaxHops : V[Longer(w)] = V[Way(q, s, h)]
    OBVIOUS
  <2>2. W[on[w]] = Ok(q)
    BY <1>c, <2>1
  <2>3. w.rest # <<>> /\ on[w] \in Ways
    BY <1>c
  <2>a. ASSUME MeetsLink(d, first, w)
        PROVE  /\ w.hops \in 1..MaxHops /\ d[Ahead(w)].target \in Seq(Names)
               /\ on[w] = Way(Root, d[Ahead(w)].target \o Tail(w.rest), w.hops - 1)
    BY <1>c, <2>a
  <2>b. ASSUME ~MeetsLink(d, first, w)
        PROVE  /\ on[w] = Way(Ahead(w), Tail(w.rest), w.hops)
               /\ Len(w.rest) # 1 => KindAt(d, Ahead(w)) \notin {"none", "file", "link"}
    BY <1>c, <2>b
  <2> HIDE DEF G
  <2>4. /\ w.at \in Seq(Names) /\ w.rest \in Seq(Names) /\ w.hops \in 0..MaxHops
        /\ Ahead(w) \in Seq(Names) /\ Tail(w.rest) \in Seq(Names)
        /\ Len(w.rest) \in Nat /\ Len(Tail(w.rest)) = Len(w.rest) - 1
    BY <2>3, WayTypes
  <2>5. /\ w.rest \o s \in Seq(Names) /\ w.rest \o s # <<>>
        /\ Len(w.rest \o s) = Len(w.rest) + Len(s)
        /\ Head(w.rest \o s) = Head(w.rest) /\ Tail(w.rest \o s) = Tail(w.rest) \o s
    BY ZenonT(60), <2>3, <2>4, ConcatHead
  <2>6. Len(w.rest \o s) # 1
    <3>1. Len(s) \in Nat /\ Len(s) # 0 /\ Len(w.rest) # 0
      BY <2>3, <2>4, EmptyIs, LenProperties
    <3> QED
      BY <2>4, <2>5, <3>1
  <2> DEFINE e == Longer(w)
  <2> HIDE DEF on, S
  <2>7. /\ e \in Ways /\ e.at = w.at /\ e.rest = w.rest \o s /\ e.hops = w.hops
    <3> DEFINE long == w.rest \o s
    <3>1. e = Way(w.at, long, w.hops) /\ long \in Seq(Names)
      BY <2>5
    <3> HIDE DEF long, e
    <3>2. e \in Ways
      BY <2>4, <3>1, WayIs
    <3>3. e.at = w.at /\ e.rest = long /\ e.hops = w.hops
      BY <3>1, WayIs
    <3> QED
      BY <3>2, <3>3 DEF long
  <2> HIDE DEF e, Longer
  <2>8. Ahead(e) = Ahead(w)
    BY <2>5, <2>7 DEF Ahead
  <2>9. MeetsLink(d, follow, e) <=> MeetsLink(d, first, w)
    BY <2>6, <2>7, <2>8 DEF MeetsLink, IsTrue
  <2>10. ~MeetsLink(d, first, w) => KindAt(d, Ahead(w)) \notin {"none", "file"}
    <3>1. SUFFICES ASSUME ~MeetsLink(d, first, w), Len(w.rest) = 1
                   PROVE  KindAt(d, Ahead(w)) = "dir"
      BY <2>b
    <3>2. on[w] = Way(Ahead(w), Tail(w.rest), w.hops)
      BY <2>b, <3>1
    <3>3. Tail(w.rest) = <<>>
      <4>1. Len(Tail(w.rest)) = 0
        BY <2>4, <3>1
      <4> QED
        BY <2>4, <4>1, EmptyIs
    <3>4. W[on[w]] = Ok(Ahead(w))
      <4> DEFINE next == Ahead(w)
                 left == Tail(w.rest)
                 hops == w.hops
      <4>0. on[w] = Way(next, left, hops)
        BY <3>2
      <4> HIDE DEF next, left, hops
      <4>a. on[w].at = next /\ on[w].rest = left
        BY <4>0, WayIs
      <4>1. on[w].at = Ahead(w) /\ on[w].rest = <<>>
        BY <3>3, <4>a DEF next, left
      <4> QED
        BY <2>3, <4>1, WalkStep
    <3> QED
      BY <2>2, <3>4 DEF Ok
  <2>11. e \notin Stops(d, follow)
    <3>1. MeetsLink(d, follow, e) => e.hops # 0
      BY <2>a, <2>7, <2>9, FileTreeAssumption
    <3>2. KindAt(d, Ahead(e)) \notin {"none", "file"}
      BY <2>8, <2>9, <2>10 DEF MeetsLink
    <3> QED
      BY <2>5, <2>7, <3>1, <3>2 DEF Stops
  <2>12. Onward(d, follow)[e] = Longer(on[w])
    <3>1. CASE MeetsLink(d, first, w)
      <4>1. Onward(d, follow)[e] = Way(Root, d[Ahead(w)].target \o (Tail(w.rest) \o s), w.hops - 1)
        BY <2>5, <2>7, <2>8, <2>9, <2>11, <3>1, <1>d
      <4> DEFINE further == d[Ahead(w)].target \o Tail(w.rest)
                 less == w.hops - 1
      <4>a. on[w] = Way(Root, further, less)
        BY <2>a, <3>1
      <4> HIDE DEF further, less
      <4>b. on[w].at = Root /\ on[w].rest = further /\ on[w].hops = less
        BY <4>a, WayIs
      <4>2. /\ on[w].at = Root /\ on[w].rest = d[Ahead(w)].target \o Tail(w.rest)
            /\ on[w].hops = w.hops - 1
        BY SMTT(40), <4>b DEF further, less
      <4>3. d[Ahead(w)].target \o (Tail(w.rest) \o s) = (d[Ahead(w)].target \o Tail(w.rest)) \o s
        <5> DEFINE aim == d[Ahead(w)].target
                   left == Tail(w.rest)
        <5>1. aim \in Seq(Names) /\ left \in Seq(Names)
          BY <2>4, <2>a, <3>1
        <5> HIDE DEF aim, left
        <5>2. aim \o (left \o s) = (aim \o left) \o s
          BY SMTT(40), <5>1, ConcatAssociative
        <5> QED
          BY <5>2 DEF aim, left
      <4> QED
        BY <4>1, <4>2, <4>3 DEF Longer
    <3>2. CASE ~MeetsLink(d, first, w)
      <4>1. Onward(d, follow)[e] = Way(Ahead(w), Tail(w.rest) \o s, w.hops)
        BY <2>5, <2>7, <2>8, <2>9, <2>11, <3>2, <1>d
      <4>2. on[w].at = Ahead(w) /\ on[w].rest = Tail(w.rest) /\ on[w].hops = w.hops
        BY <2>b, <3>2, WayIs
      <4> QED
        BY <4>1, <4>2 DEF Longer
    <3> QED
      BY <3>1, <3>2
  <2>13. V[e] = V[Longer(on[w])]
    BY <1>d, <2>7, <2>11, <2>12
  <2>14. \E h \in 0..MaxHops : V[Longer(on[w])] = V[Way(q, s, h)]
    BY <1>2, <2>2 DEF G
  <2> QED
    BY <2>13, <2>14 DEF e
<1>3. Ways \subseteq G
  <2> HIDE DEF G
  <2> QED
    BY <1>e, <1>1, <1>2, DescentInduction
<1> QED
  BY <1>3

\* Two paths in a row, one name of the second moved to the first.
LEMMA HeadMoves ==
  ASSUME NEW S, NEW p \in Seq(S), NEW s \in Seq(S), s # <<>>
  PROVE  /\ Head(s) \in S /\ Tail(s) \in Seq(S) /\ Append(p, Head(s)) \in Seq(S)
         /\ Append(p, Head(s)) \o Tail(s) = p \o s
<1>1. Len(p) \in Nat /\ Len(s) \in Nat /\ Len(s) # 0
  BY LenProperties, EmptyIs
<1>2. /\ Head(s) \in S /\ Head(s) = s[1] /\ Tail(s) \in Seq(S) /\ Len(Tail(s)) = Len(s) - 1
      /\ \A i \in 1..Len(Tail(s)) : Tail(s)[i] = s[i + 1]
  BY <1>1, HeadTailProperties
<1> DEFINE a == Append(p, Head(s))
           t == Tail(s)
<1>3. /\ a \in Seq(S) /\ Len(a) = Len(p) + 1 /\ a[Len(p) + 1] = s[1]
      /\ \A i \in 1..Len(p) : a[i] = p[i]
  BY <1>2, AppendProperties
<1> HIDE DEF a, t
<1>4. /\ a \o t \in Seq(S) /\ Len(a \o t) = Len(a) + Len(t)
      /\ \A i \in 1..(Len(a) + Len(t)) : (a \o t)[i] = IF i <= Len(a) THEN a[i] ELSE t[i - Len(a)]
  BY <1>2, <1>3, ConcatProperties DEF t
<1>5. /\ p \o s \in Seq(S) /\ Len(p \o s) = Len(p) + Len(s)
      /\ \A i \in 1..(Len(p) + Len(s)) : (p \o s)[i] = IF i <= Len(p) THEN p[i] ELSE s[i - Len(p)]
  BY ConcatProperties
<1>6. Len(t) = Len(s) - 1 /\ \A i \in 1..Len(t) : t[i] = s[i + 1]
  BY <1>2 DEF t
<1>7. Len(a \o t) = Len(p \o s)
  BY <1>1, <1>3, <1>4, <1>5, <1>6
<1>8. ASSUME NEW i \in 1..Len(p \o s) PROVE (a \o t)[i] = (p \o s)[i]
  <2>1. i \in 1..(Len(p) + Len(s)) /\ i \in 1..(Len(a) + Len(t)) /\ i \in Nat
    BY <1>1, <1>3, <1>5, <1>6
  <2>2. CASE i <= Len(p)
    <3>1. i \in 1..Len(p) /\ i <= Len(a)
      BY <1>1, <1>3, <2>1, <2>2
    <3> QED
      BY <1>3, <1>4, <1>5, <2>1, <2>2, <3>1
  <2>3. CASE i = Len(p) + 1
    <3>1. i <= Len(a) /\ ~(i <= Len(p)) /\ i - Len(p) = 1
      BY <1>1, <1>3, <2>3
    <3> QED
      BY <1>3, <1>4, <1>5, <2>1, <2>3, <3>1
  <2>4. CASE i > Len(p) + 1
    <3>1. ~(i <= Len(a)) /\ ~(i <= Len(p)) /\ i - Len(a) \in 1..Len(t)
          /\ (i - Len(a)) + 1 = i - Len(p)
      BY <1>1, <1>3, <1>6, <2>1, <2>4
    <3>2. (a \o t)[i] = t[i - Len(a)] /\ (p \o s)[i] = s[i - Len(p)]
      BY <1>4, <1>5, <2>1, <3>1
    <3>3. t[i - Len(a)] = s[(i - Len(a)) + 1]
      BY <1>6, <3>1
    <3> QED
      BY <3>1, <3>2, <3>3
  <2> QED
    BY <1>1, <2>1, <2>2, <2>3, <2>4
<1>9. a \o t = p \o s
  BY <1>4, <1>5, <1>7, <1>8, SeqEqual
<1> QED
  BY <1>2, <1>3, <1>9 DEF a, t

\* What is above an entry is a directory.
LEMMA DirBehind ==
  ASSUME NEW d, NEW b, IsTree(d, b), NEW p \in Seq(Names), NEW s \in Seq(Names), s # <<>>,
         p \o s \in DOMAIN d
  PROVE  KindAt(d, p) = "dir"
<1> DEFINE q == p \o s
<1>1. Len(p) \in Nat /\ Len(s) \in Nat /\ Len(s) # 0
  BY LenProperties, EmptyIs
<1>2. /\ q \in Seq(Names) /\ Len(q) = Len(p) + Len(s) /\ Under(q, p) /\ q \in DOMAIN d
  BY ConcatProperties, ConcatIs
<1> HIDE DEF q
<1>3. q # p
  BY <1>1, <1>2
<1> QED
  BY <1>2, <1>3, NothingBelow

\* A path to a directory goes through directories.
LEMMA DirAhead ==
  ASSUME NEW d, NEW b, IsTree(d, b), NEW p \in Seq(Names), NEW s \in Seq(Names), s # <<>>,
         KindAt(d, p \o s) = "dir"
  PROVE  KindAt(d, Append(p, Head(s))) = "dir"
<1> DEFINE a == Append(p, Head(s))
           t == Tail(s)
<1>1. a \in Seq(Names) /\ t \in Seq(Names) /\ a \o t = p \o s
  BY HeadMoves
<1>2. KindAt(d, a \o t) = "dir" /\ a \o t \in DOMAIN d
  BY <1>1 DEF KindAt
<1> HIDE DEF a, t
<1>3. CASE t = <<>>
  <2>1. a \o t = a
    BY <1>1, <1>3, ConcatEmptySeq
  <2> QED
    BY <1>2, <2>1 DEF a
<1>4. CASE t # <<>>
  BY <1>1, <1>2, <1>4, DirBehind DEF a
<1> QED
  BY <1>3, <1>4

\* A walk through directories arrives.
LEMMA WalkThroughDirs ==
  ASSUME NEW d, NEW b, IsTree(d, b), NEW follow, NEW W, Walks(d, follow, W),
         NEW w \in Ways, KindAt(d, w.at \o w.rest) = "dir"
  PROVE  W[w] = Ok(w.at \o w.rest)
<1> DEFINE G == {v \in Ways : KindAt(d, v.at \o v.rest) = "dir" => W[v] = Ok(v.at \o v.rest)}
           S == Stops(d, follow)
           on == Onward(d, follow)
<1>0. Linked(d)
  BY TreeIs
<1>1. GoesDown(Ways, S, on, Hops, Left)
  BY <1>0, WalkGoesDown
<1>2. ASSUME NEW v \in Ways, v.rest # <<>>, KindAt(d, v.at \o v.rest) = "dir"
      PROVE  /\ KindAt(d, Ahead(v)) = "dir" /\ Ahead(v) \o Tail(v.rest) = v.at \o v.rest
             /\ Ahead(v) \in Seq(Names) /\ Tail(v.rest) \in Seq(Names) /\ v.hops \in 0..MaxHops
  <2> DEFINE p == v.at
             s == v.rest
  <2>1. /\ p \in Seq(Names) /\ s \in Seq(Names) /\ s # <<>> /\ Head(s) \in Names
        /\ Ahead(v) = Append(p, Head(s)) /\ Tail(s) \in Seq(Names) /\ Ahead(v) \in Seq(Names)
        /\ v.hops \in 0..MaxHops
    BY <1>2, WayTypes DEF Ahead
  <2>2. KindAt(d, p \o s) = "dir"
    BY <1>2
  <2> HIDE DEF p, s
  <2>3. Append(p, Head(s)) \o Tail(s) = p \o s
    BY SMTT(40), <2>1, HeadMoves
  <2>4. KindAt(d, Append(p, Head(s))) = "dir"
    BY <2>1, <2>2, DirAhead
  <2> QED
    BY <2>1, <2>3, <2>4 DEF p, s
<1>3. S \subseteq G
  <2> SUFFICES ASSUME NEW v \in S, KindAt(d, v.at \o v.rest) = "dir"
               PROVE  W[v] = Ok(v.at \o v.rest)
    BY DEF Stops
  <2>1. v \in Ways
    BY DEF Stops
  <2>2. CASE v.rest = <<>>
    <3>1. v.at \in Seq(Names)
      BY <2>1, WayTypes
    <3>2. v.at \o v.rest = v.at
      BY <2>2, <3>1, ConcatEmptySeq
    <3>3. W[v] = Ok(v.at)
      BY <2>1, <2>2, WalkStep
    <3> QED
      BY <3>2, <3>3
  <2>3. CASE v.rest # <<>>
    BY <1>2, <2>1, <2>3 DEF Stops, MeetsLink
  <2> QED
    BY <2>2, <2>3
<1>4. ASSUME NEW v \in Ways \ S, on[v] \in G PROVE v \in G
  <2> SUFFICES ASSUME KindAt(d, v.at \o v.rest) = "dir" PROVE W[v] = Ok(v.at \o v.rest)
    OBVIOUS
  <2>a. v \in Ways /\ v \notin Stops(d, follow)
    OBVIOUS
  <2>b. v.rest # <<>>
    BY <2>a DEF Stops
  <2>c. W[v] = W[Onward(d, follow)[v]]
    BY <2>a, WalkStep
  <2>1. v.rest # <<>> /\ W[v] = W[on[v]]
    BY <2>b, <2>c
  <2>2. /\ KindAt(d, Ahead(v)) = "dir" /\ Ahead(v) \o Tail(v.rest) = v.at \o v.rest
    BY <1>2, <2>1
  <2>3. on[v] = Way(Ahead(v), Tail(v.rest), v.hops)
    <3>1. ~MeetsLink(d, follow, v)
      BY <2>2 DEF MeetsLink
    <3> QED
      BY <1>0, <3>1, OnwardIs
  <2>4. on[v].at \o on[v].rest = v.at \o v.rest
    <3> DEFINE next == Ahead(v)
               left == Tail(v.rest)
               hops == v.hops
    <3>1. on[v] = Way(next, left, hops) /\ next \o left = v.at \o v.rest
      BY <2>2, <2>3
    <3> HIDE DEF next, left, hops, on
    <3>2. on[v].at = next /\ on[v].rest = left
      BY <3>1, WayIs
    <3> QED
      BY <3>1, <3>2
  <2> HIDE DEF on, S
  <2> QED
    BY <1>4, <2>1, <2>4
<1> HIDE DEF G, S, on
<1>5. Ways \subseteq G
  BY <1>1, <1>3, <1>4, DescentInduction
<1> QED
  BY <1>5 DEF G

\* So it is with the walk of a path from the root.
LEMMA PathCompose ==
  ASSUME NEW d, NEW first, NEW follow, Linked(d), IsTrue(first), NEW W, NEW V,
         Walks(d, first, W), Walks(d, follow, V), NEW q, KindAt(d, q) = "dir",
         NEW p, NEW s \in Seq(Names), s # <<>>,
         NEW v \in Ways, v.at = Root, v.rest = p, v.hops = MaxHops, W[v] = Ok(q)
  PROVE  \E h \in 0..MaxHops : V[Way(Root, p \o s, MaxHops)] = V[Way(q, s, h)]
<1>1. \E h \in 0..MaxHops : V[Way(v.at, v.rest \o s, v.hops)] = V[Way(q, s, h)]
  BY WalkCompose
<1> QED
  BY <1>1

\* What stands below where a path leads is reached through the path.
LEMMA LocateBelow ==
  ASSUME NEW d, NEW b, IsTree(d, b), NEW first, IsTrue(first), NEW follow,
         NEW path \in Seq(Names), NEW x \in Seq(Names), x # <<>>,
         NEW q \in Seq(Names), Locate(d, path, first) = Ok(q), KindAt(d, q \o x) = "dir",
         Len(path \o x) <= MaxLen
  PROVE  Locate(d, path \o x, follow) = Ok(q \o x)
<1>0. Linked(d)
  BY TreeIs
<1>a. PICK W : LocatesBy(d, first, W)
  BY <1>0, LocateIs
<1>b. PICK V : LocatesBy(d, follow, V)
  BY <1>0, LocateIs
<1>2. Walks(d, first, W) /\ Walks(d, follow, V)
  BY <1>a, <1>b DEF LocatesBy
<1>3. /\ path \o x \in Seq(Names) /\ Len(path) \in Nat /\ Len(x) \in Nat /\ Len(x) # 0
      /\ Len(path \o x) = Len(path) + Len(x) /\ MaxLen \in Nat /\ MaxHops \in Nat
      /\ Root \in Seq(Names)
  BY LenProperties, EmptyIs, ConcatProperties, EmptySeq, FileTreeAssumption DEF Root
<1>4. /\ Locate(d, path, first) = W[Way(Root, path, MaxHops)]
      /\ Locate(d, path \o x, follow) = V[Way(Root, path \o x, MaxHops)]
  <2>1. \A p \in Seq(Names) : Len(p) <= MaxLen /\ Len(p) \in Nat =>
          /\ Locate(d, p, first) = W[Way(Root, p, MaxHops)]
          /\ Locate(d, p, follow) = V[Way(Root, p, MaxHops)]
    <3>1. ASSUME NEW p \in Seq(Names), Len(p) <= MaxLen, Len(p) \in Nat
          PROVE  ~(Len(p) > MaxLen)
      BY <1>3, <3>1
    <3> QED
      BY <1>a, <1>b, <3>1 DEF LocatesBy
  <2>2. Len(path) <= MaxLen /\ Len(path \o x) \in Nat
    BY <1>3
  <2> QED
    BY <1>3, <2>1, <2>2
<1>5. KindAt(d, q) = "dir"
  <2>1. q \o x \in DOMAIN d
    BY DEF KindAt
  <2> QED
    BY <2>1, DirBehind
<1> DEFINE v == Way(Root, path, MaxHops)
<1>6. v \in Ways /\ v.at = Root /\ v.rest = path /\ v.hops = MaxHops
  BY SMTT(40), <1>3, WayIs
<1>c. W[v] = Ok(q)
  BY <1>4
<1> HIDE DEF v
<1>d. \E h \in 0..MaxHops : V[Way(Root, path \o x, MaxHops)] = V[Way(q, x, h)]
  BY <1>0, <1>2, <1>5, <1>6, <1>c, PathCompose
<1>7. PICK h \in 0..MaxHops : V[Way(Root, path \o x, MaxHops)] = V[Way(q, x, h)]
  BY <1>d
<1>8. Way(q, x, h) \in Ways /\ Way(q, x, h).at = q /\ Way(q, x, h).rest = x
  BY WayIs
<1>9. V[Way(q, x, h)] = Ok(q \o x)
  BY <1>2, <1>8, WalkThroughDirs
<1> QED
  BY <1>4, <1>7, <1>9

-----------------------------------------------------------------------------
(* Listings.                                                               *)

\* s is below one of the paths ps.
Awaited(ps, s) == \E k \in DOMAIN ps : Under(s, ps[k]) /\ s # ps[k]

\* All of ps are under p, n names below it.
AtDepth(ps, p, n) == \A k \in DOMAIN ps : Under(ps[k], p) /\ Len(ps[k]) = Len(p) + n

\* All of ps but p itself are names of directories below what p leads to.
ThroughDirs(d, ps, p) ==
  LET l == Entry(d, p, TRUE)
  IN  \A k \in DOMAIN ps :
        ps[k] # p => /\ l.error = "ok"
                     /\ KindAt(d, l.path \o SubSeq(ps[k], Len(p) + 1, Len(ps[k]))) = "dir"

\* The directories that the work v of the request q has before it are at its level; what
\* stood all the time, of `all` that is to be shown, is listed or below one of them.
Walking(q, v, all, listed, standing) ==
  /\ v.todo \in Seq(Seq(Names)) /\ v.todo # <<>> /\ v.deeper \in Seq(Seq(Names))
  /\ v.level \in Nat /\ (v.level = 0 \/ v.level < q.depth)
  /\ AtDepth(v.todo, q.path, v.level) /\ AtDepth(v.deeper, q.path, v.level + 1)
  /\ standing \subseteq all
  /\ \A s \in standing : s \in listed \/ Awaited(v.todo, s) \/ Awaited(v.deeper, s)

\* On the disk d it lists nothing else and descends into directories only.
Undisturbed(q, v, all, listed, d) ==
  listed \subseteq all /\ ThroughDirs(d, v.todo, q.path) /\ ThroughDirs(d, v.deeper, q.path)

ListWork(r) ==
  /\ Walking(req[r], work[r], Listed(disk, r), result[r], stood[r])
  /\ alone[r] => /\ before[r].disk = disk
                 /\ Undisturbed(req[r], work[r], Listed(disk, r), result[r], disk)

IsListing(r) == req[r].op \in {"list", "glob"}

\* One that is answered has shown it all.
Shown(r) ==
  /\ stood[r] \subseteq result[r]
  /\ alone[r] => result[r] \subseteq Listed(before[r].disk, r)

Lists(r) ==
  /\ pc[r] = "start" => result[r] = {}
  /\ pc[r] = "walk" => ListWork(r)
  /\ pc[r] = "done" /\ answer[r] = 200 => Shown(r)

Listings ==
  /\ DOMAIN stood = Requests /\ DOMAIN result = Requests
  /\ \A r \in Requests : IsListing(r) => Lists(r)

\* A finite set as a sequence has its members and no others.
LEMMA ListIs ==
  ASSUME NEW S, IsFiniteSet(S)
  PROVE  /\ SetToSeq(S) \in Seq(S)
         /\ \A e \in S : \E k \in DOMAIN SetToSeq(S) : SetToSeq(S)[k] = e
<1> DEFINE n == Cardinality(S)
           f == SetToSeq(S)
<1>1. n \in Nat /\ ExistsBijection(1..n, S)
  BY FS_CardinalityType
<1>2. \E g \in [1..n -> S] : IsInjective(g)
  BY <1>1 DEF ExistsBijection, Bijection, Injection
<1>3. f \in [1..n -> S] /\ IsInjective(f)
  BY <1>2 DEF SetToSeq
<1> HIDE DEF f, n
<1>4. f \in Injection(1..n, S)
  BY <1>3 DEF Injection
<1>5. Cardinality(1..n) = n
  <2>1. 1 \in Int /\ n \in Int
    BY <1>1
  <2>2. Cardinality(1..n) = IF 1 > n THEN 0 ELSE n - 1 + 1
    BY <2>1, FS_Interval
  <2> QED
    BY <1>1, <2>2
<1>6. f \in Surjection(1..n, S)
  BY <1>4, <1>5, FS_Injection DEF n
<1>7. f \in Seq(S) /\ DOMAIN f = 1..n
  BY <1>1, <1>3
<1>8. \A e \in S : \E k \in 1..n : f[k] = e
  BY <1>6 DEF Surjection
<1> QED
  BY <1>7, <1>8 DEF f

\* The parts of two paths in a row, and their entries.
LEMMA ConcatParts ==
  ASSUME NEW S, NEW p \in Seq(S), NEW s \in Seq(S)
  PROVE  /\ p \o s \in Seq(S) /\ Len(p \o s) = Len(p) + Len(s)
         /\ Len(p) \in Nat /\ Len(s) \in Nat
         /\ p \o s = p <=> s = <<>>
<1>1. /\ p \o s \in Seq(S) /\ Len(p \o s) = Len(p) + Len(s)
      /\ Len(p) \in Nat /\ Len(s) \in Nat
  BY ConcatProperties, LenProperties
<1>2. p \o s = p => s = <<>>
  <2>1. p \o s = p => Len(s) = 0
    BY <1>1
  <2> QED
    BY <2>1, EmptyIs
<1>3. p \o <<>> = p
  BY ConcatEmptySeq
<1> QED
  BY <1>1, <1>2, <1>3

\* A name behind two paths in a row.
LEMMA ConcatAppend ==
  ASSUME NEW S, NEW p \in Seq(S), NEW s \in Seq(S), NEW n \in S
  PROVE  p \o Append(s, n) = Append(p \o s, n)
<1>1. <<n>> \in Seq(S) /\ p \o s \in Seq(S)
  BY ConcatProperties
<1>2. Append(s, n) = s \o <<n>> /\ Append(p \o s, n) = (p \o s) \o <<n>>
  BY <1>1, AppendIsConcat
<1>3. (p \o s) \o <<n>> = p \o (s \o <<n>>)
  BY <1>1, ConcatAssociative
<1> QED
  BY <1>2, <1>3

\* What is under p is p and what comes behind it.
LEMMA UnderHas ==
  ASSUME NEW S, NEW p \in Seq(S), NEW q \in Seq(S), Under(q, p)
  PROVE  \E x \in Seq(S) : q = p \o x /\ (q # p => x # <<>>)
<1> DEFINE x == SubSeq(q, Len(p) + 1, Len(q))
<1>1. x \in Seq(S) /\ q = p \o x
  BY UnderIs
<1> HIDE DEF x
<1>2. q # p => x # <<>>
  BY <1>1, ConcatParts
<1> QED
  BY <1>1, <1>2 DEF x

\* s is behind the path p as an entry is behind m, and a listing asks for it.
ToShow(r, p, m, s) ==
  \E x \in Seq(Names) : /\ x # <<>> /\ s = p \o x /\ m \o x \in DOMAIN disk
                        /\ Len(x) <= req[r].depth /\ Matched(r, s) /\ ~Excluded(r, s)

\* What a listing is to show: what is below where its path leads.
LEMMA ListedIs ==
  ASSUME IsTree(disk, data), NEW r, NEW p \in Seq(Names), req[r].path = p,
         Stat(p).error = "ok", NEW m \in Seq(Names), Stat(p).path = m
  PROVE  \A s : s \in Listed(disk, r) <=> ToShow(r, p, m, s)
<1> DEFINE Rel(q) == SubSeq(q, Len(m) + 1, Len(q))
           rels == {Rel(q) : q \in Below(disk, m)}
           deep == {x \in rels : Len(x) <= req[r].depth}
<1>1. Listed(disk, r) = Kept(r, {p \o x : x \in deep})
  <2> DEFINE l == Stat(p)
  <2>1. Listed(disk, r) =
          LET rl == {SubSeq(q, Len(l.path) + 1, Len(q)) : q \in Below(disk, l.path)}
              dp == {x \in rl : Len(x) <= req[r].depth}
          IN  IF l.error = "ok" THEN Kept(r, {p \o x : x \in dp}) ELSE {}
    BY DEF Listed, Stat
  <2>2. l.error = "ok" /\ l.path = m
    OBVIOUS
  <2> HIDE DEF l
  <2> QED
    BY <2>1, <2>2
<1>2. ASSUME NEW q \in Below(disk, m)
      PROVE  Rel(q) \in Seq(Names) /\ q = m \o Rel(q) /\ Rel(q) # <<>> /\ q \in DOMAIN disk
  <2>1. q \in DOMAIN disk /\ q # m /\ Under(q, m)
    BY <1>2 DEF Below
  <2>2. q \in Seq(Names)
    BY <2>1, TreeIs
  <2>3. Rel(q) \in Seq(Names) /\ q = m \o Rel(q)
    BY <2>1, <2>2, UnderIs
  <2> HIDE DEF Rel
  <2>4. Rel(q) # <<>>
    BY ZenonT(60), <2>1, <2>3, ConcatParts
  <2> QED
    BY <2>1, <2>3, <2>4
<1>3. ASSUME NEW x \in Seq(Names), x # <<>>, m \o x \in DOMAIN disk
      PROVE  m \o x \in Below(disk, m) /\ Rel(m \o x) = x
  <2>1. Under(m \o x, m) /\ SubSeq(m \o x, Len(m) + 1, Len(m \o x)) = x
    BY ConcatIs
  <2>2. m \o x # m
    BY <1>3, ConcatParts
  <2> QED
    BY <1>3, <2>1, <2>2 DEF Below
<1> HIDE DEF Rel
<1>4. \A x : x \in rels <=> x \in Seq(Names) /\ x # <<>> /\ m \o x \in DOMAIN disk
  <2>1. ASSUME NEW x \in rels PROVE x \in Seq(Names) /\ x # <<>> /\ m \o x \in DOMAIN disk
    BY <1>2
  <2>2. ASSUME NEW x \in Seq(Names), x # <<>>, m \o x \in DOMAIN disk PROVE x \in rels
    BY <1>3, <2>2
  <2> QED
    BY <2>1, <2>2
<1> HIDE DEF rels
<1> QED
  BY <1>1, <1>4 DEF Kept, ToShow

\* A directory that is reached below the path is the one below where the path leads.
LEMMA StatBelow ==
  ASSUME IsTree(disk, data), NEW p \in Seq(Names), NEW m \in Seq(Names),
         Stat(p).error = "ok", Stat(p).path = m, NEW z \in Seq(Names),
         z = <<>> \/ KindAt(disk, m \o z) = "dir", Stat(p \o z).error = "ok"
  PROVE  Stat(p \o z).path = m \o z
<1>1. CASE z = <<>>
  BY <1>1, ConcatEmptySeq
<1>2. CASE z # <<>>
  <2>0. PICK follow : IsTrue(follow)
    BY DEF IsTrue
  <2>1. \A path \in Seq(Names) : Stat(path).error = "ok" =>
          /\ Stat(path) = Locate(disk, path, follow) /\ Len(path) <= MaxLen
    <3>1. ASSUME NEW path \in Seq(Names)
          PROVE  Entry(disk, path, follow).error = "ok" =>
                   /\ Entry(disk, path, follow) = Locate(disk, path, follow)
                   /\ Len(path) <= MaxLen
      <4>1. Linked(disk)
        BY TreeIs
      <4>2. Entry(disk, path, follow).error = "ok" =>
              Entry(disk, path, follow) = Locate(disk, path, follow)
        BY EntryIs
      <4>3. Locate(disk, path, follow).error # "ok" \/ Len(path) <= MaxLen
        BY <4>1, LocateTypes
      <4> QED
        BY <4>2, <4>3
    <3> QED
      BY <2>0, <3>1 DEF Stat, IsTrue
  <2>2. p \o z \in Seq(Names)
    BY ConcatParts
  <2>3. Locate(disk, p, follow) = Ok(m)
    <3>1. /\ Locate(disk, p, follow).error = "ok" /\ Locate(disk, p, follow).path = m
      BY <2>1
    <3>2. Locate(disk, p, follow) = [error |-> Locate(disk, p, follow).error,
                                     path |-> Locate(disk, p, follow).path]
      <4>1. Linked(disk)
        BY TreeIs
      <4> QED
        BY <4>1, LocateTypes
    <3> QED
      BY <3>1, <3>2 DEF Ok
  <2>4. Locate(disk, p \o z, follow) = Ok(m \o z)
    <3>1. Len(p \o z) <= MaxLen
      BY <2>1, <2>2
    <3>2. KindAt(disk, m \o z) = "dir"
      BY <1>2
    <3> QED
      BY <1>2, <2>0, <2>3, <3>1, <3>2, LocateBelow
  <2>5. Stat(p \o z) = Locate(disk, p \o z, follow)
    BY <2>1, <2>2
  <2> QED
    BY <2>4, <2>5 DEF Ok
<1> QED
  BY <1>1, <1>2

\* Three paths in a row.
LEMMA ConcatThree == \A p, s, t \in Seq(Names) : (p \o s) \o t = p \o (s \o t)
BY SMTT(40), ConcatAssociative

\* A name in a directory is an entry of it.
LEMMA EntryIsChild ==
  ASSUME NEW d, NEW p \in Seq(Names), NEW n \in Names, Append(p, n) \in DOMAIN d
  PROVE  Append(p, n) \in Children(d, p) /\ Last(Append(p, n)) = n
<1>1. /\ Append(p, n) \in Seq(Names) /\ Append(p, n) # Root /\ Front(Append(p, n)) = p
      /\ Last(Append(p, n)) = n /\ Len(Append(p, n)) = Len(p) + 1
  BY FrontAppend
<1>2. Under(p, p)
  BY LenProperties, UnderIs
<1>3. Under(Append(p, n), p)
  BY <1>1, <1>2, UnderFront
<1> QED
  BY <1>1, <1>3 DEF Children

\* What a listing finds in a directory, and what it descends into.
FoundIn(path) == {Append(path, Last(q)) : q \in Children(disk, Stat(path).path)}
DirsIn(path) ==
  {Append(path, Last(q)) : q \in {q \in Children(disk, Stat(path).path) : Descends(q)}}

\* They are the names of its entries.
LEMMA FoundIs ==
  ASSUME IsTree(disk, data), NEW path \in Seq(Names), NEW c \in Seq(Names),
         Stat(path).path = c
  PROVE  /\ \A e : e \in FoundIn(path) <=>
              \E n \in Names : e = Append(path, n) /\ Append(c, n) \in DOMAIN disk
         /\ \A e : e \in DirsIn(path) <=>
              \E n \in Names : e = Append(path, n) /\ KindAt(disk, Append(c, n)) = "dir"
<1>1. ASSUME NEW q \in Children(disk, c)
      PROVE  Last(q) \in Names /\ q = Append(c, Last(q)) /\ q \in DOMAIN disk
  BY ChildIs DEF Present
<1>2. ASSUME NEW n \in Names, Append(c, n) \in DOMAIN disk
      PROVE  Append(c, n) \in Children(disk, c) /\ Last(Append(c, n)) = n
  BY <1>2, EntryIsChild
<1>3. \A q : Descends(q) <=> KindAt(disk, q) = "dir"
  BY DEF Descends, Kind, KindAt, Present
<1> DEFINE entries == Children(disk, c)
<1>4. /\ FoundIn(path) = {Append(path, Last(q)) : q \in entries}
      /\ DirsIn(path) = {Append(path, Last(q)) : q \in {q \in entries : Descends(q)}}
  BY DEF FoundIn, DirsIn
<1>5. /\ \A q \in entries : Last(q) \in Names /\ q = Append(c, Last(q)) /\ q \in DOMAIN disk
      /\ \A n \in Names : Append(c, n) \in DOMAIN disk =>
           Append(c, n) \in entries /\ Last(Append(c, n)) = n
  BY <1>1, <1>2
<1>6. \A q : KindAt(disk, q) = "dir" => q \in DOMAIN disk
  BY DEF KindAt
<1> HIDE DEF entries
<1>7. ASSUME NEW e
      PROVE  e \in FoundIn(path) <=>
               \E n \in Names : e = Append(path, n) /\ Append(c, n) \in DOMAIN disk
  <2>1. ASSUME e \in FoundIn(path)
        PROVE  \E n \in Names : e = Append(path, n) /\ Append(c, n) \in DOMAIN disk
    <3>1. PICK q \in entries : e = Append(path, Last(q))
      BY <1>4, <2>1
    <3> QED
      BY <1>5, <3>1
  <2>2. ASSUME NEW n \in Names, e = Append(path, n), Append(c, n) \in DOMAIN disk
        PROVE  e \in FoundIn(path)
    <3>1. Append(c, n) \in entries /\ e = Append(path, Last(Append(c, n)))
      BY <1>5, <2>2
    <3> QED
      BY <1>4, <3>1
  <2> QED
    BY <2>1, <2>2
<1>8. ASSUME NEW e
      PROVE  e \in DirsIn(path) <=>
               \E n \in Names : e = Append(path, n) /\ KindAt(disk, Append(c, n)) = "dir"
  <2>1. ASSUME e \in DirsIn(path)
        PROVE  \E n \in Names : e = Append(path, n) /\ KindAt(disk, Append(c, n)) = "dir"
    <3>1. PICK q \in entries : e = Append(path, Last(q)) /\ Descends(q)
      BY <1>4, <2>1
    <3> QED
      BY ZenonT(60), <1>3, <1>5, <3>1
  <2>2. ASSUME NEW n \in Names, e = Append(path, n), KindAt(disk, Append(c, n)) = "dir"
        PROVE  e \in DirsIn(path)
    <3>1. Append(c, n) \in entries /\ e = Append(path, Last(Append(c, n))) /\ Descends(Append(c, n))
      BY <1>3, <1>5, <1>6, <2>2
    <3> QED
      BY <1>4, <3>1
  <2> QED
    BY <2>1, <2>2
<1> QED
  BY <1>7, <1>8

\* The directories in a directory are finitely many.
LEMMA DirsFinite ==
  ASSUME IsTree(disk, data), NEW path \in Seq(Names)
  PROVE  IsFiniteSet(DirsIn(path)) /\ DirsIn(path) \subseteq Seq(Names)
<1> DEFINE c == Stat(path).path
           S == {q \in Children(disk, c) : Descends(q)}
           T == DirsIn(path)
           f == [q \in S |-> Append(path, Last(q))]
<1>1. c \in Seq(Names)
  BY EntryIs DEF Stat
<1>2. T = {Append(path, Last(q)) : q \in S}
  BY DEF DirsIn
<1>3. T \subseteq Seq(Names)
  <2> SUFFICES ASSUME NEW e \in T PROVE e \in Seq(Names)
    OBVIOUS
  <2>1. PICK n \in Names : e = Append(path, n)
    BY <1>1, FoundIs
  <2> QED
    BY <2>1, AppendProperties
<1>4. IsFiniteSet(S)
  <2>1. S \in SUBSET (DOMAIN disk)
    BY DEF Children
  <2> HIDE DEF S
  <2> QED
    BY <2>1, TreeFinite, FS_Subset
<1> HIDE DEF S, T
<1>5. f \in [S -> T] /\ \A t \in T : \E q \in S : f[q] = t
  BY <1>2
<1> HIDE DEF f
<1>6. f \in Surjection(S, T)
  BY <1>5 DEF Surjection
<1>7. IsFiniteSet(T)
  BY <1>4, <1>6, FS_Surjection
<1> QED
  BY <1>3, <1>7 DEF T

\* What is to be shown below a directory that is read is found in it or is below one
\* of the directories in it.
LEMMA ReadShows ==
  ASSUME IsTree(disk, data), NEW r, NEW p \in Seq(Names), req[r].path = p,
         NEW path \in Seq(Names), Under(path, p), Stat(path).error = "ok",
         Stat(p).error = "ok",
         NEW s \in Listed(disk, r), Under(s, path), s # path
  PROVE  s \in Kept(r, FoundIn(path)) \/ \E e \in DirsIn(path) : Under(s, e) /\ s # e
<1> DEFINE m == Stat(p).path
           c == Stat(path).path
<1>1. m \in Seq(Names) /\ c \in Seq(Names)
  BY EntryIs DEF Stat
<1>2. PICK x \in Seq(Names) : /\ x # <<>> /\ s = p \o x /\ m \o x \in DOMAIN disk
                              /\ Matched(r, s) /\ ~Excluded(r, s)
  <2>1. Stat(p).path = m
    OBVIOUS
  <2> HIDE DEF m, c
  <2>2. m \in Seq(Names) /\ Stat(p).path = m
    BY <1>1, <2>1
  <2>3. ToShow(r, p, m, s)
    BY <2>2, ListedIs
  <2> QED
    BY <2>3 DEF ToShow
<1>3. s \in Seq(Names)
  BY <1>2, ConcatParts
<1>4. PICK z \in Seq(Names) : path = p \o z
  <2>1. \E w \in Seq(Names) : path = p \o w /\ (path # p => w # <<>>)
    BY ZenonT(60), UnderHas
  <2> QED
    BY <2>1
<1>5. PICK y \in Seq(Names) : s = path \o y /\ y # <<>>
  BY <1>3, UnderHas
<1>6. x = z \o y /\ z \o y \in Seq(Names)
  <2>1. z \o y \in Seq(Names) /\ (p \o z) \o y = p \o (z \o y)
    BY SMTT(40), ConcatParts, ConcatAssociative
  <2>2. SubSeq(p \o x, Len(p) + 1, Len(p \o x)) = x
    BY ConcatIs
  <2>3. SubSeq(p \o (z \o y), Len(p) + 1, Len(p \o (z \o y))) = z \o y
    BY ZenonT(60), <2>1, ConcatIs
  <2>4. p \o x = p \o (z \o y)
    BY <1>2, <1>4, <1>5, <2>1
  <2> QED
    BY <2>1, <2>2, <2>3, <2>4
<1>7. m \o z \in Seq(Names) /\ (m \o z) \o y \in DOMAIN disk
  <2> HIDE DEF m
  <2>0. m \in Seq(Names)
    BY <1>1
  <2>a. m \o z \in Seq(Names)
    BY <2>0, ConcatParts
  <2>b. (m \o z) \o y = m \o (z \o y)
    <3>1. \A a, b, e \in Seq(Names) : (a \o b) \o e = a \o (b \o e)
      BY ONLY ConcatThree
    <3> QED
      BY ONLY ZenonT(60), <2>0, <3>1, y \in Seq(Names), z \in Seq(Names)
  <2>1. m \o z \in Seq(Names) /\ (m \o z) \o y = m \o (z \o y)
    BY <2>a, <2>b
  <2> QED
    BY <1>2, <1>6, <2>1
<1> HIDE DEF m, c
<1>8. KindAt(disk, m \o z) = "dir"
  BY <1>5, <1>7, DirBehind
<1>9. c = m \o z
  <2>1. Stat(p).path = m
    BY DEF m
  <2>2. Stat(p \o z).error = "ok"
    BY <1>4
  <2>3. Stat(p \o z).path = m \o z
    BY ZenonT(60), <1>1, <1>8, <2>1, <2>2, StatBelow
  <2> QED
    BY <1>4, <2>3 DEF c
<1> DEFINE n == Head(y)
           t == Tail(y)
<1>10. n \in Names /\ t \in Seq(Names) /\ Append(c, n) \in Seq(Names)
       /\ Append(c, n) \o t = c \o y
  <2>1. c \in Seq(Names) /\ y \in Seq(Names) /\ y # <<>>
    BY <1>1, <1>5
  <2>2. /\ Head(y) \in Names /\ Tail(y) \in Seq(Names) /\ Append(c, Head(y)) \in Seq(Names)
        /\ Append(c, Head(y)) \o Tail(y) = c \o y
    BY ZenonT(60), <2>1, HeadMoves
  <2> QED
    BY <2>2
<1>11. Append(path, n) \in Seq(Names) /\ Append(path, n) \o t = s
  BY ZenonT(60), <1>5, HeadMoves
<1>12. Append(c, n) \o t \in DOMAIN disk
  BY <1>7, <1>9, <1>10
<1>a. Stat(path).path = c
  BY DEF c
<1> HIDE DEF n, t
<1>13. CASE t = <<>>
  <2>1. Append(c, n) \in DOMAIN disk
    BY <1>10, <1>12, <1>13, ConcatEmptySeq
  <2>2. s = Append(path, n)
    BY <1>11, <1>13, ConcatEmptySeq
  <2>3. s \in FoundIn(path)
    BY <1>1, <1>10, <1>a, <2>1, <2>2, FoundIs
  <2> QED
    BY <1>2, <2>3 DEF Kept
<1>14. CASE t # <<>>
  <2>1. KindAt(disk, Append(c, n)) = "dir"
    <3> DEFINE a == Append(c, n)
    <3>1. a \in Seq(Names) /\ t \in Seq(Names) /\ a \o t \in DOMAIN disk
      BY <1>10, <1>12
    <3> HIDE DEF a
    <3>2. KindAt(disk, a) = "dir"
      BY <1>14, <3>1, DirBehind
    <3> QED
      BY <3>2 DEF a
  <2>2. Append(path, n) \in DirsIn(path)
    <3>1. c \in Seq(Names) /\ n \in Names
      BY <1>1, <1>10
    <3>2. \A e : e \in DirsIn(path) <=>
            \E k \in Names : e = Append(path, k) /\ KindAt(disk, Append(c, k)) = "dir"
      BY <1>a, <3>1, FoundIs
    <3> QED
      BY <2>1, <3>1, <3>2
  <2>3. Under(s, Append(path, n)) /\ s # Append(path, n)
    <3> DEFINE a == Append(path, n)
    <3>1. a \in Seq(Names) /\ t \in Seq(Names) /\ a \o t = s /\ t # <<>>
      BY <1>10, <1>11, <1>14
    <3> HIDE DEF a
    <3>2. Under(a \o t, a)
      BY <3>1, ConcatIs
    <3>3. a \o t # a
      BY <3>1, ConcatParts
    <3> QED
      BY <3>1, <3>2, <3>3 DEF a
  <2> QED
    BY <2>2, <2>3
<1> QED
  BY <1>13, <1>14

\* What is found in a directory of an undisturbed listing is below where its path leads.
LEMMA ReadIsShown ==
  ASSUME IsTree(disk, data), NEW r, NEW p \in Seq(Names), req[r].path = p,
         req[r].depth \in Nat,
         NEW path \in Seq(Names), Under(path, p), Len(path) < Len(p) + req[r].depth,
         Stat(path).error = "ok", Stat(p).error = "ok",
         path = p \/ KindAt(disk, Stat(p).path \o SubSeq(path, Len(p) + 1, Len(path))) = "dir"
  PROVE  /\ Kept(r, FoundIn(path)) \subseteq Listed(disk, r)
         /\ \A e \in DirsIn(path) :
              KindAt(disk, Stat(p).path \o SubSeq(e, Len(p) + 1, Len(e))) = "dir"
<1> DEFINE m == Stat(p).path
           c == Stat(path).path
           z == SubSeq(path, Len(p) + 1, Len(path))
           D == req[r].depth
<1>1. m \in Seq(Names) /\ c \in Seq(Names)
  BY EntryIs DEF Stat
<1>2. z \in Seq(Names) /\ path = p \o z
  BY UnderIs
<1>3. path = p \/ KindAt(disk, m \o z) = "dir"
  OBVIOUS
<1>a. Stat(p).path = m /\ Stat(path).path = c /\ D \in Nat /\ req[r].depth = D
  OBVIOUS
<1> HIDE DEF m, c, z, D
<1>4. Len(p) \in Nat /\ Len(z) \in Nat /\ Len(path) = Len(p) + Len(z) /\ (path = p => z = <<>>)
  BY <1>2, ConcatParts
<1>5. Len(z) < D
  BY <1>4, <1>a
<1>6. c = m \o z
  <2>1. Stat(p \o z).error = "ok"
    BY <1>2
  <2>2. z = <<>> \/ KindAt(disk, m \o z) = "dir"
    BY <1>3, <1>4
  <2>a. Stat(p).error = "ok" /\ Stat(p).path = m /\ m \in Seq(Names) /\ z \in Seq(Names)
    BY <1>1, <1>2, <1>a
  <2>3. Stat(p \o z).path = m \o z
    BY ZenonT(60), <2>1, <2>2, <2>a, StatBelow
  <2> QED
    BY <1>2, <1>a, <2>3
<1>7. ASSUME NEW n \in Names
      PROVE  /\ Append(z, n) \in Seq(Names) /\ Append(z, n) # <<>> /\ Len(Append(z, n)) <= D
             /\ p \o Append(z, n) = Append(path, n) /\ m \o Append(z, n) = Append(c, n)
  <2>1. /\ Append(z, n) \in Seq(Names) /\ Append(z, n) # <<>>
        /\ Len(Append(z, n)) = Len(z) + 1
    BY <1>2, AppendProperties
  <2>2. p \o Append(z, n) = Append(path, n)
    BY <1>2, ConcatAppend
  <2>3. m \o Append(z, n) = Append(c, n)
    BY SMTT(40), <1>1, <1>2, <1>6, ConcatAppend
  <2>4. Len(Append(z, n)) <= D
    BY <1>4, <1>5, <1>a, <2>1
  <2> QED
    BY <2>1, <2>2, <2>3, <2>4
<1>8. /\ \A e : e \in FoundIn(path) <=>
           \E n \in Names : e = Append(path, n) /\ Append(c, n) \in DOMAIN disk
      /\ \A e : e \in DirsIn(path) <=>
           \E n \in Names : e = Append(path, n) /\ KindAt(disk, Append(c, n)) = "dir"
  BY <1>1, <1>a, FoundIs
<1>9. ASSUME NEW e \in Kept(r, FoundIn(path)) PROVE e \in Listed(disk, r)
  <2>1. e \in FoundIn(path) /\ Matched(r, e) /\ ~Excluded(r, e)
    BY <1>9 DEF Kept
  <2>2. PICK n \in Names : e = Append(path, n) /\ Append(c, n) \in DOMAIN disk
    BY <1>8, <2>1
  <2> DEFINE x == Append(z, n)
  <2>3. /\ x \in Seq(Names) /\ x # <<>> /\ Len(x) <= D /\ e = p \o x
        /\ m \o x \in DOMAIN disk
    BY <1>7, <2>2
  <2> HIDE DEF x
  <2>4. /\ x \in Seq(Names) /\ x # <<>> /\ e = p \o x /\ m \o x \in DOMAIN disk
        /\ Len(x) <= req[r].depth /\ Matched(r, e) /\ ~Excluded(r, e)
    BY <1>a, <2>1, <2>3
  <2>5. m \in Seq(Names) /\ Stat(p).path = m
    BY <1>1, <1>a
  <2>6. ToShow(r, p, m, e)
    BY <2>4 DEF ToShow
  <2> QED
    BY <2>5, <2>6, ListedIs
<1>10. ASSUME NEW e \in DirsIn(path)
       PROVE  KindAt(disk, m \o SubSeq(e, Len(p) + 1, Len(e))) = "dir"
  <2>1. PICK n \in Names : e = Append(path, n) /\ KindAt(disk, Append(c, n)) = "dir"
    BY <1>8
  <2> DEFINE x == Append(z, n)
  <2>2. x \in Seq(Names) /\ e = p \o x /\ KindAt(disk, m \o x) = "dir"
    BY <1>7, <2>1
  <2> HIDE DEF x
  <2>3. SubSeq(p \o x, Len(p) + 1, Len(p \o x)) = x
    BY <2>2, ConcatIs
  <2> QED
    BY <2>2, <2>3
<1> QED
  BY <1>9, <1>10, <1>a

\* All of qs come from ps or from S.
ComesFrom(qs, ps, S) == \A k \in DOMAIN qs : qs[k] \in S \/ \E j \in DOMAIN ps : qs[k] = ps[j]

\* The directories that are put behind others are one level further down.
LEMMA DeeperIs ==
  ASSUME IsTree(disk, data), NEW p \in Seq(Names), NEW path \in Seq(Names), Under(path, p),
         NEW n \in Nat, Len(path) = Len(p) + n,
         NEW ps \in Seq(Seq(Names)), AtDepth(ps, p, n + 1),
         NEW qs, qs = ps \o SetToSeq(DirsIn(path))
  PROVE  /\ qs \in Seq(Seq(Names)) /\ AtDepth(qs, p, n + 1)
         /\ \A s : Awaited(ps, s) => Awaited(qs, s)
         /\ \A e \in DirsIn(path) : \E k \in DOMAIN qs : qs[k] = e
         /\ ComesFrom(qs, ps, DirsIn(path))
<1> DEFINE ds == SetToSeq(DirsIn(path))
           S == DirsIn(path)
<1>0. qs = ps \o ds
  OBVIOUS
<1>1. ds \in Seq(S) /\ \A e \in S : \E k \in DOMAIN ds : ds[k] = e
  BY DirsFinite, ListIs
<1>2. S \subseteq Seq(Names)
  BY DirsFinite
<1>3. \A e \in S : Under(e, p) /\ Len(e) = Len(p) + (n + 1)
  <2> SUFFICES ASSUME NEW e \in S PROVE Under(e, p) /\ Len(e) = Len(p) + (n + 1)
    OBVIOUS
  <2> DEFINE c == Stat(path).path
  <2>1. c \in Seq(Names)
    BY EntryIs DEF Stat
  <2>2. PICK k \in Names : e = Append(path, k)
    BY SMTT(40), <2>1, FoundIs
  <2>3. e \in Seq(Names) /\ e # Root /\ Front(e) = path /\ Len(e) = Len(path) + 1
    BY <2>2, FrontAppend
  <2>4. Under(e, p)
    BY <2>3, UnderFront
  <2>5. Len(p) \in Nat
    BY LenProperties
  <2> QED
    BY <2>3, <2>4, <2>5
<1> HIDE DEF ds, S
<1>4. ds \in Seq(Seq(Names)) /\ Len(ps) \in Nat /\ Len(ds) \in Nat
      /\ DOMAIN ps = 1..Len(ps) /\ DOMAIN ds = 1..Len(ds)
  <2>1. Seq(S) \subseteq Seq(Seq(Names))
    BY <1>2
  <2> QED
    BY <1>1, <2>1, LenProperties
<1>5. /\ qs \in Seq(Seq(Names)) /\ Len(qs) = Len(ps) + Len(ds)
      /\ \A i \in 1..(Len(ps) + Len(ds)) : qs[i] = IF i <= Len(ps) THEN ps[i] ELSE ds[i - Len(ps)]
  BY <1>0, <1>4, ConcatProperties
<1>6. DOMAIN qs = 1..(Len(ps) + Len(ds))
  BY <1>5
<1>7. \A k \in DOMAIN ps : k \in DOMAIN qs /\ qs[k] = ps[k]
  BY <1>4, <1>5, <1>6
<1>8. \A k \in DOMAIN ds : Len(ps) + k \in DOMAIN qs /\ qs[Len(ps) + k] = ds[k]
  <2> SUFFICES ASSUME NEW k \in DOMAIN ds
               PROVE  Len(ps) + k \in DOMAIN qs /\ qs[Len(ps) + k] = ds[k]
    OBVIOUS
  <2>1. /\ Len(ps) + k \in 1..(Len(ps) + Len(ds)) /\ ~(Len(ps) + k <= Len(ps))
        /\ (Len(ps) + k) - Len(ps) = k
    BY SMTT(40), <1>4
  <2> QED
    BY <1>5, <1>6, <2>1
<1>9. ASSUME NEW k \in DOMAIN qs
      PROVE  qs[k] \in S \/ \E j \in DOMAIN ps : qs[k] = ps[j]
  <2>1. CASE k <= Len(ps)
    BY <1>4, <1>5, <1>6, <2>1
  <2>2. CASE ~(k <= Len(ps))
    <3>1. k - Len(ps) \in DOMAIN ds /\ qs[k] = ds[k - Len(ps)]
      BY SMTT(40), <1>4, <1>5, <1>6, <2>2
    <3>2. ds[k - Len(ps)] \in S
      BY <1>1, <3>1
    <3> QED
      BY <3>1, <3>2
  <2> QED
    BY <2>1, <2>2
<1>10. AtDepth(qs, p, n + 1)
  BY <1>3, <1>9 DEF AtDepth
<1>11. \A s : Awaited(ps, s) => Awaited(qs, s)
  BY <1>7 DEF Awaited
<1>12. \A e \in S : \E k \in DOMAIN qs : qs[k] = e
  BY <1>1, <1>8
<1> QED
  BY <1>5, <1>9, <1>10, <1>11, <1>12 DEF ComesFrom, ds, S

\* What is to be shown after a step.
LEMMA ListedNext ==
  ASSUME NEW r, UNCHANGED req
  PROVE  /\ Listed(disk, r)' = Listed(disk', r)
         /\ Listed(before[r].disk, r)' = Listed(before'[r].disk, r)
BY DEF Listed, Kept, Matched, Excluded

\* What is to be shown is below the path, not further down than asked, and there is
\* something only if the path leads somewhere.
LEMMA ListedBelow ==
  ASSUME IsTree(disk, data), NEW r, NEW p \in Seq(Names), req[r].path = p,
         NEW s \in Listed(disk, r)
  PROVE  /\ Stat(p).error = "ok" /\ Under(s, p) /\ s # p /\ s \in Seq(Names)
         /\ Len(s) <= Len(p) + req[r].depth \/ req[r].depth \notin Nat
<1> DEFINE m == Stat(p).path
<1>1. m \in Seq(Names)
  BY EntryIs DEF Stat
<1>2. Stat(p).error = "ok"
  BY DEF Listed, Stat
<1>3. Stat(p).path = m
  OBVIOUS
<1> HIDE DEF m
<1>a. ToShow(r, p, m, s)
  BY <1>1, <1>2, <1>3, ListedIs
<1>4. PICK x \in Seq(Names) : x # <<>> /\ s = p \o x /\ Len(x) <= req[r].depth
  BY <1>a DEF ToShow
<1>5. /\ s \in Seq(Names) /\ Len(s) = Len(p) + Len(x) /\ Len(p) \in Nat /\ Len(x) \in Nat
      /\ s # p
  BY <1>4, ConcatParts
<1>6. Under(s, p)
  BY <1>4, ConcatIs
<1> QED
  BY <1>2, <1>4, <1>5, <1>6

\* The first of the directories before a listing, and the others.
LEMMA TodoIs ==
  ASSUME NEW S, NEW ps \in Seq(S), ps # <<>>
  PROVE  /\ Head(ps) \in S /\ 1 \in DOMAIN ps /\ ps[1] = Head(ps) /\ Tail(ps) \in Seq(S)
         /\ \A k \in DOMAIN Tail(ps) : k + 1 \in DOMAIN ps /\ Tail(ps)[k] = ps[k + 1]
         /\ \A k \in DOMAIN ps :
              k = 1 \/ (k - 1 \in DOMAIN Tail(ps) /\ Tail(ps)[k - 1] = ps[k])
<1>1. Len(ps) \in Nat /\ Len(ps) # 0 /\ DOMAIN ps = 1..Len(ps)
  BY EmptyIs, LenProperties
<1>2. /\ Head(ps) = ps[1] /\ Tail(ps) \in Seq(S) /\ Len(Tail(ps)) = Len(ps) - 1
      /\ \A i \in 1..Len(Tail(ps)) : Tail(ps)[i] = ps[i + 1]
  BY HeadTailProperties
<1> DEFINE t == Tail(ps)
<1>3. /\ t \in Seq(S) /\ Len(t) = Len(ps) - 1 /\ DOMAIN t = 1..Len(t)
      /\ \A i \in 1..Len(t) : t[i] = ps[i + 1]
  BY <1>2
<1> HIDE DEF t
<1>4. 1 \in DOMAIN ps /\ ps[1] \in S
  BY <1>1
<1>5. \A k \in DOMAIN t : k + 1 \in DOMAIN ps /\ t[k] = ps[k + 1]
  BY <1>1, <1>3
<1>6. ASSUME NEW k \in DOMAIN ps, k # 1 PROVE k - 1 \in DOMAIN t /\ t[k - 1] = ps[k]
  <2>1. k - 1 \in 1..Len(t) /\ (k - 1) + 1 = k
    BY <1>1, <1>3, <1>6
  <2> QED
    BY <1>3, <2>1
<1> QED
  BY <1>2, <1>3, <1>4, <1>5, <1>6 DEF t

\* A listing goes on to the next directory or is answered.
LEMMA WalkDirIs ==
  ASSUME NEW r, WalkDir(r), req[r].depth # 0,
         NEW v, v = work[r], NEW path, path = Head(v.todo),
         NEW deeper, deeper = v.deeper \o SetToSeq(DirsIn(path))
  PROVE  /\ UNCHANGED diskVars
         /\ IF ReadDirError(path) # "ok"
            THEN Ends(r, StatusOf(ReadDirError(path)))
            ELSE /\ result' = [result EXCEPT ![r] = @ \cup Kept(r, FoundIn(path))]
                 /\ \/ /\ Tail(v.todo) = <<>> /\ (deeper = <<>> \/ v.level + 1 = req[r].depth)
                       /\ Ends(r, 200)
                    \/ /\ Tail(v.todo) = <<>> /\ deeper # <<>> /\ v.level + 1 # req[r].depth
                       /\ Goes(r, "walk")
                       /\ Holds(r, [v EXCEPT !.todo = deeper, !.deeper = <<>>, !.level = @ + 1])
                    \/ /\ Tail(v.todo) # <<>>
                       /\ Goes(r, "walk")
                       /\ Holds(r, [v EXCEPT !.todo = Tail(@), !.deeper = deeper])
<1> DEFINE error == ReadDirError(path)
           over == Tail(v.todo) = <<>> /\ (deeper = <<>> \/ v.level + 1 = req[r].depth)
           next == IF Tail(v.todo) # <<>>
                   THEN [v EXCEPT !.todo = Tail(@), !.deeper = deeper]
                   ELSE [v EXCEPT !.todo = deeper, !.deeper = <<>>, !.level = @ + 1]
<1>1. Finds(r, error, /\ IF over THEN Ends(r, 200) ELSE Goes(r, "walk")
                      /\ result' = [result EXCEPT ![r] = @ \cup Kept(r, FoundIn(path))]
                      /\ Holds(r, next))
  <2>1. LET w == work[r]
            further == w.deeper \o SetToSeq(DirsIn(Head(w.todo)))
            ends == Tail(w.todo) = <<>> /\ (further = <<>> \/ w.level + 1 = req[r].depth)
        IN  Finds(r, ReadDirError(Head(w.todo)),
              /\ IF ends THEN Ends(r, 200) ELSE Goes(r, "walk")
              /\ result' = [result EXCEPT ![r] = @ \cup Kept(r, FoundIn(Head(w.todo)))]
              /\ Holds(r, IF Tail(w.todo) # <<>>
                          THEN [w EXCEPT !.todo = Tail(@), !.deeper = further]
                          ELSE [w EXCEPT !.todo = further, !.deeper = <<>>, !.level = @ + 1]))
    BY Zenon DEF WalkDir, FoundIn, DirsIn
  <2> QED
    BY <2>1
<1>2. /\ UNCHANGED diskVars
      /\ IF error = "ok"
         THEN /\ IF over THEN Ends(r, 200) ELSE Goes(r, "walk")
              /\ result' = [result EXCEPT ![r] = @ \cup Kept(r, FoundIn(path))]
              /\ Holds(r, next)
         ELSE Ends(r, StatusOf(error))
  BY <1>1 DEF Finds
<1> HIDE DEF error
<1>3. CASE error # "ok"
  BY SMTT(40), <1>2, <1>3 DEF error
<1>4. CASE error = "ok"
  <2>1. CASE over
    BY SMTT(40), <1>2, <1>4, <2>1 DEF error
  <2>2. CASE ~over
    BY <1>2, <1>4, <2>2 DEF error
  <2> QED
    BY SMTT(40), <2>1, <2>2
<1> QED
  BY SMTT(40), <1>3, <1>4

\* A listing with the work v reads a directory at path, and then has deeper before it.
Reading(r, v, path, deeper) ==
  /\ IsTree(disk, data) /\ req[r].path \in Seq(Names) /\ req[r].depth \in Nat /\ req[r].depth # 0
  /\ Walking(req[r], v, Listed(disk, r), result[r], stood[r])
  /\ path = Head(v.todo) /\ ReadDirError(path) = "ok"
  /\ deeper = v.deeper \o SetToSeq(DirsIn(path))

\* The directory is at the level of the listing, which is not the last one.
LEMMA ReadingAt ==
  ASSUME NEW r, NEW v, NEW path, NEW deeper, Reading(r, v, path, deeper)
  PROVE  /\ path \in Seq(Names) /\ Under(path, req[r].path) /\ Stat(path).error = "ok"
         /\ Len(path) = Len(req[r].path) + v.level /\ v.level \in Nat /\ v.level < req[r].depth
         /\ 1 \in DOMAIN v.todo /\ v.todo[1] = path
         /\ Tail(v.todo) \in Seq(Seq(Names)) /\ AtDepth(Tail(v.todo), req[r].path, v.level)
         /\ \A s : Awaited(v.todo, s) =>
              Awaited(Tail(v.todo), s) \/ (Under(s, path) /\ s # path)
<1> DEFINE p == req[r].path
           D == req[r].depth
           ps == v.todo
           t == Tail(v.todo)
<1>1. /\ ps \in Seq(Seq(Names)) /\ ps # <<>> /\ v.level \in Nat
      /\ (v.level = 0 \/ v.level < D) /\ AtDepth(ps, p, v.level)
      /\ D \in Nat /\ D # 0 /\ path = Head(ps) /\ ReadDirError(path) = "ok"
  BY DEF Reading, Walking
<1> HIDE DEF p, D, ps
<1>2. /\ Head(ps) \in Seq(Names) /\ 1 \in DOMAIN ps /\ ps[1] = Head(ps)
      /\ Tail(ps) \in Seq(Seq(Names))
      /\ \A k \in DOMAIN Tail(ps) : k + 1 \in DOMAIN ps /\ Tail(ps)[k] = ps[k + 1]
      /\ \A k \in DOMAIN ps :
           k = 1 \/ (k - 1 \in DOMAIN Tail(ps) /\ Tail(ps)[k - 1] = ps[k])
  BY <1>1, TodoIs
<1>3. t = Tail(ps)
  BY DEF ps
<1> HIDE DEF t
<1>4. Stat(path).error = "ok"
  BY <1>1 DEF ReadDirError
<1>5. Under(path, p) /\ Len(path) = Len(p) + v.level
  BY <1>1, <1>2 DEF AtDepth
<1>6. AtDepth(t, p, v.level)
  BY <1>1, <1>2, <1>3 DEF AtDepth
<1>7. ASSUME NEW s, Awaited(ps, s) PROVE Awaited(t, s) \/ (Under(s, path) /\ s # path)
  BY <1>1, <1>2, <1>3, <1>7 DEF Awaited
<1>8. v.level < D
  BY <1>1
<1> QED
  BY <1>1, <1>2, <1>3, <1>4, <1>5, <1>6, <1>7, <1>8 DEF p, D, ps, t

\* The directories it has then before it are one level further down.
LEMMA ReadingDeeper ==
  ASSUME NEW r, NEW v, NEW path, NEW deeper, Reading(r, v, path, deeper)
  PROVE  /\ deeper \in Seq(Seq(Names)) /\ AtDepth(deeper, req[r].path, v.level + 1)
         /\ \A s : Awaited(v.deeper, s) => Awaited(deeper, s)
         /\ \A e \in DirsIn(path) : \E k \in DOMAIN deeper : deeper[k] = e
         /\ ComesFrom(deeper, v.deeper, DirsIn(path))
<1>1. /\ IsTree(disk, data) /\ req[r].path \in Seq(Names) /\ v.deeper \in Seq(Seq(Names))
      /\ AtDepth(v.deeper, req[r].path, v.level + 1)
      /\ deeper = v.deeper \o SetToSeq(DirsIn(path))
  BY DEF Reading, Walking
<1>2. /\ path \in Seq(Names) /\ Under(path, req[r].path) /\ v.level \in Nat
      /\ Len(path) = Len(req[r].path) + v.level
  BY ReadingAt
<1>3. PICK p \in Seq(Names) : p = req[r].path
  BY <1>1
<1>4. PICK n \in Nat : n = v.level
  BY <1>2
<1>5. PICK ps \in Seq(Seq(Names)) : ps = v.deeper
  BY <1>1
<1>6. AtDepth(ps, p, n + 1) /\ deeper = ps \o SetToSeq(DirsIn(path))
  BY <1>1, <1>3, <1>4, <1>5
<1>7. path \in Seq(Names) /\ Under(path, p) /\ Len(path) = Len(p) + n
  BY <1>2, <1>3, <1>4
<1>8. /\ deeper \in Seq(Seq(Names)) /\ AtDepth(deeper, p, n + 1)
      /\ \A s : Awaited(ps, s) => Awaited(deeper, s)
      /\ \A e \in DirsIn(path) : \E k \in DOMAIN deeper : deeper[k] = e
      /\ ComesFrom(deeper, ps, DirsIn(path))
  BY <1>1, <1>6, <1>7, DeeperIs
<1> QED
  BY <1>3, <1>4, <1>5, <1>8

\* What stood is listed or still awaited; below the last level there is nothing of it.
LEMMA ReadingCovers ==
  ASSUME NEW r, NEW v, NEW path, NEW deeper, Reading(r, v, path, deeper), NEW s \in stood[r]
  PROVE  /\ s \in Listed(disk, r)
         /\ \/ s \in result[r] \cup Kept(r, FoundIn(path))
            \/ Awaited(Tail(v.todo), s)
            \/ Awaited(deeper, s) /\ v.level + 1 # req[r].depth
<1> DEFINE p == req[r].path
           D == req[r].depth
           n == v.level
<1>1. /\ IsTree(disk, data) /\ p \in Seq(Names) /\ D \in Nat /\ req[r].path = p /\ req[r].depth = D
      /\ s \in Listed(disk, r)
      /\ s \in result[r] \/ Awaited(v.todo, s) \/ Awaited(v.deeper, s)
  BY DEF Reading, Walking
<1>2. /\ path \in Seq(Names) /\ Under(path, p) /\ Stat(path).error = "ok" /\ n \in Nat
      /\ Awaited(v.todo, s) => Awaited(Tail(v.todo), s) \/ (Under(s, path) /\ s # path)
  BY ReadingAt
<1>3. /\ deeper \in Seq(Seq(Names)) /\ AtDepth(deeper, p, n + 1)
      /\ Awaited(v.deeper, s) => Awaited(deeper, s)
      /\ \A e \in DirsIn(path) : \E k \in DOMAIN deeper : deeper[k] = e
  BY ReadingDeeper
<1> HIDE DEF p, D, n
<1>4. Stat(p).error = "ok" /\ s \in Seq(Names) /\ Len(s) <= Len(p) + D
  BY <1>1, ListedBelow
<1>5. ASSUME Awaited(deeper, s) PROVE n + 1 # D
  <2>1. PICK k \in DOMAIN deeper : Under(s, deeper[k]) /\ s # deeper[k]
    BY <1>5 DEF Awaited
  <2> DEFINE e == deeper[k]
  <2>2. e \in Seq(Names) /\ Under(s, e) /\ s # e /\ Len(e) = Len(p) + (n + 1)
    <3>1. e \in Seq(Names)
      BY <1>3
    <3> QED
      BY <1>3, <2>1, <3>1 DEF AtDepth
  <2> HIDE DEF e
  <2>3. \E x \in Seq(Names) : s = e \o x /\ (s # e => x # <<>>)
    BY <1>4, <2>2, UnderHas
  <2>4. PICK x \in Seq(Names) : s = e \o x /\ x # <<>>
    BY <2>2, <2>3
  <2>a. Len(e \o x) = Len(e) + Len(x) /\ Len(x) \in Nat
    BY <2>2, ConcatParts
  <2>b. Len(x) # 0
    BY <2>4, EmptyIs
  <2>5. Len(s) = Len(e) + Len(x) /\ Len(x) \in Nat /\ Len(x) # 0 /\ Len(p) \in Nat
    BY <1>1, <2>4, <2>a, <2>b, LenProperties
  <2> QED
    BY <1>1, <1>2, <1>4, <2>2, <2>5
<1>6. ASSUME Under(s, path), s # path
      PROVE  s \in Kept(r, FoundIn(path)) \/ Awaited(deeper, s)
  <2>1. s \in Kept(r, FoundIn(path)) \/ \E e \in DirsIn(path) : Under(s, e) /\ s # e
    BY <1>1, <1>2, <1>4, <1>6, ReadShows
  <2>2. ASSUME NEW e \in DirsIn(path), Under(s, e), s # e PROVE Awaited(deeper, s)
    BY <1>3, <2>2 DEF Awaited
  <2> QED
    BY <2>1, <2>2
<1> QED
  BY <1>1, <1>2, <1>3, <1>5, <1>6 DEF D, n

\* Undisturbed it lists what is to be shown, and goes on through directories.
LEMMA ReadingUndisturbed ==
  ASSUME NEW r, NEW v, NEW path, NEW deeper, Reading(r, v, path, deeper),
         Undisturbed(req[r], v, Listed(disk, r), result[r], disk)
  PROVE  /\ result[r] \cup Kept(r, FoundIn(path)) \subseteq Listed(disk, r)
         /\ ThroughDirs(disk, Tail(v.todo), req[r].path)
         /\ ThroughDirs(disk, deeper, req[r].path)
<1> DEFINE p == req[r].path
           D == req[r].depth
           n == v.level
           Kin(e) == KindAt(disk, Stat(p).path \o SubSeq(e, Len(p) + 1, Len(e)))
<1>1. /\ IsTree(disk, data) /\ p \in Seq(Names) /\ D \in Nat /\ req[r].path = p /\ req[r].depth = D
      /\ v.todo \in Seq(Seq(Names)) /\ v.todo # <<>>
  BY DEF Reading, Walking
<1>2. /\ path \in Seq(Names) /\ Under(path, p) /\ Stat(path).error = "ok" /\ n \in Nat
      /\ Len(path) = Len(p) + n /\ n < D
      /\ 1 \in DOMAIN v.todo /\ v.todo[1] = path
  BY ReadingAt
<1>3. ComesFrom(deeper, v.deeper, DirsIn(path))
  BY ReadingDeeper
<1>4. \A ps : ThroughDirs(disk, ps, p) <=>
        \A k \in DOMAIN ps : ps[k] # p => Stat(p).error = "ok" /\ Kin(ps[k]) = "dir"
  BY DEF ThroughDirs, Stat
<1>5. result[r] \subseteq Listed(disk, r) /\ ThroughDirs(disk, v.todo, p) /\ ThroughDirs(disk, v.deeper, p)
  BY DEF Undisturbed
<1>6. Len(path) < Len(p) + D
  <2>1. Len(p) \in Nat
    BY <1>1, LenProperties
  <2> QED
    BY <1>1, <1>2, <2>1
<1>7. \A e : Kin(e) = KindAt(disk, Stat(p).path \o SubSeq(e, Len(p) + 1, Len(e)))
  OBVIOUS
<1> HIDE DEF p, D, n, Kin
<1>8. Stat(p).error = "ok" /\ (path = p \/ Kin(path) = "dir")
  BY <1>2, <1>4, <1>5
<1>9. /\ Kept(r, FoundIn(path)) \subseteq Listed(disk, r)
      /\ \A e \in DirsIn(path) : Kin(e) = "dir"
  <2>1. path = p \/ KindAt(disk, Stat(p).path \o SubSeq(path, Len(p) + 1, Len(path))) = "dir"
    BY <1>7, <1>8
  <2>2. /\ Kept(r, FoundIn(path)) \subseteq Listed(disk, r)
        /\ \A e \in DirsIn(path) :
             KindAt(disk, Stat(p).path \o SubSeq(e, Len(p) + 1, Len(e))) = "dir"
    BY <1>1, <1>2, <1>6, <1>8, <2>1, ReadIsShown
  <2> QED
    BY <1>7, <2>2
<1>10. ThroughDirs(disk, Tail(v.todo), p)
  <2>1. \A k \in DOMAIN Tail(v.todo) : k + 1 \in DOMAIN v.todo /\ Tail(v.todo)[k] = v.todo[k + 1]
    BY <1>1, TodoIs
  <2> QED
    BY <1>4, <1>5, <2>1
<1>11. ThroughDirs(disk, deeper, p)
  BY <1>3, <1>4, <1>5, <1>8, <1>9 DEF ComesFrom
<1> QED
  BY <1>5, <1>9, <1>10, <1>11 DEF p

\* A listing of depth 0 has nothing to show.
LEMMA NothingAtDepth ==
  ASSUME IsTree(disk, data), NEW r, req[r].path \in Seq(Names), req[r].depth = 0
  PROVE  Listed(disk, r) = {}
<1> SUFFICES ASSUME NEW s \in Listed(disk, r) PROVE FALSE
  OBVIOUS
<1>1. PICK p \in Seq(Names) : p = req[r].path
  OBVIOUS
<1>2. Under(s, p) /\ s # p /\ s \in Seq(Names) /\ Len(s) <= Len(p) + 0
  BY <1>1, ListedBelow
<1>3. \E x \in Seq(Names) : s = p \o x /\ (s # p => x # <<>>)
  BY <1>2, UnderHas
<1>4. PICK x \in Seq(Names) : s = p \o x /\ x # <<>>
  BY <1>2, <1>3
<1>5. Len(p \o x) = Len(p) + Len(x) /\ Len(x) \in Nat /\ Len(p) \in Nat
  BY ConcatParts
<1>6. Len(x) # 0
  BY <1>4, EmptyIs
<1> QED
  BY <1>2, <1>4, <1>5, <1>6

\* What a listing has after reading a directory it goes on from.
LEMMA ReadingGoesOn ==
  ASSUME NEW r, NEW v, NEW path, NEW deeper, Reading(r, v, path, deeper),
         NEW w, NEW listed, listed = result[r] \cup Kept(r, FoundIn(path)),
         \/ /\ Tail(v.todo) # <<>> /\ w.todo = Tail(v.todo) /\ w.deeper = deeper
            /\ w.level = v.level
         \/ /\ Tail(v.todo) = <<>> /\ deeper # <<>> /\ v.level + 1 # req[r].depth
            /\ w.todo = deeper /\ w.deeper = <<>> /\ w.level = v.level + 1
  PROVE  /\ Walking(req[r], w, Listed(disk, r), listed, stood[r])
         /\ Undisturbed(req[r], v, Listed(disk, r), result[r], disk) =>
              Undisturbed(req[r], w, Listed(disk, r), listed, disk)
<1>1. /\ Tail(v.todo) \in Seq(Seq(Names)) /\ AtDepth(Tail(v.todo), req[r].path, v.level)
      /\ v.level \in Nat /\ v.level < req[r].depth
  BY ReadingAt
<1>2. deeper \in Seq(Seq(Names)) /\ AtDepth(deeper, req[r].path, v.level + 1)
  BY ReadingDeeper
<1>3. \A s \in stood[r] : /\ s \in Listed(disk, r)
                          /\ s \in listed \/ Awaited(Tail(v.todo), s) \/ Awaited(deeper, s)
  BY ReadingCovers
<1>4. req[r].depth \in Nat
  BY DEF Reading
<1>5. ASSUME Undisturbed(req[r], v, Listed(disk, r), result[r], disk)
      PROVE  /\ listed \subseteq Listed(disk, r)
             /\ ThroughDirs(disk, Tail(v.todo), req[r].path)
             /\ ThroughDirs(disk, deeper, req[r].path)
  BY <1>5, ReadingUndisturbed
<1>6. /\ <<>> \in Seq(Seq(Names)) /\ (\A n : AtDepth(<<>>, req[r].path, n))
      /\ ThroughDirs(disk, <<>>, req[r].path) /\ (\A s : ~Awaited(<<>>, s))
  BY DEF AtDepth, ThroughDirs, Awaited
<1>7. CASE /\ Tail(v.todo) # <<>> /\ w.todo = Tail(v.todo) /\ w.deeper = deeper
           /\ w.level = v.level
  <2>1. Walking(req[r], w, Listed(disk, r), listed, stood[r])
    BY <1>1, <1>2, <1>3, <1>4, <1>7 DEF Walking
  <2>2. Undisturbed(req[r], v, Listed(disk, r), result[r], disk) =>
          Undisturbed(req[r], w, Listed(disk, r), listed, disk)
    BY <1>5, <1>7 DEF Undisturbed
  <2> QED
    BY <2>1, <2>2
<1>8. CASE /\ Tail(v.todo) = <<>> /\ deeper # <<>> /\ v.level + 1 # req[r].depth
           /\ w.todo = deeper /\ w.deeper = <<>> /\ w.level = v.level + 1
  <2>1. v.level + 1 \in Nat /\ v.level + 1 < req[r].depth
    BY <1>1, <1>4, <1>8
  <2>2. \A s \in stood[r] : s \in Listed(disk, r) /\ (s \in listed \/ Awaited(deeper, s))
    BY <1>3, <1>6, <1>8
  <2>3. Walking(req[r], w, Listed(disk, r), listed, stood[r])
    BY <1>2, <1>6, <1>8, <2>1, <2>2 DEF Walking
  <2>4. Undisturbed(req[r], v, Listed(disk, r), result[r], disk) =>
          Undisturbed(req[r], w, Listed(disk, r), listed, disk)
    BY <1>5, <1>6, <1>8 DEF Undisturbed
  <2> QED
    BY <2>3, <2>4
<1> QED
  BY <1>7, <1>8

\* What a listing has shown after the last directory it reads.
LEMMA ReadingEnds ==
  ASSUME NEW r, NEW v, NEW path, NEW deeper, Reading(r, v, path, deeper),
         NEW listed, listed = result[r] \cup Kept(r, FoundIn(path)),
         Tail(v.todo) = <<>>, deeper = <<>> \/ v.level + 1 = req[r].depth
  PROVE  /\ stood[r] \subseteq listed
         /\ Undisturbed(req[r], v, Listed(disk, r), result[r], disk) =>
              listed \subseteq Listed(disk, r)
<1>1. \A s : ~Awaited(<<>>, s)
  BY DEF Awaited
<1>2. ASSUME NEW s \in stood[r] PROVE s \in listed
  <2>1. \/ s \in listed \/ Awaited(Tail(v.todo), s)
        \/ Awaited(deeper, s) /\ v.level + 1 # req[r].depth
    BY ReadingCovers
  <2> QED
    BY <1>1, <2>1
<1> QED
  BY <1>2, ReadingUndisturbed

\* A read of a listing leaves it what it has to have.
LEMMA WalkDirLists ==
  ASSUME Working, Listings, NEW r \in Requests, IsListing(r), WalkDir(r), Watches(r),
         UNCHANGED req
  PROVE  Lists(r)'
<1> DEFINE v == work[r]
           path == Head(v.todo)
           deeper == v.deeper \o SetToSeq(DirsIn(path))
           listed == result[r] \cup Kept(r, FoundIn(path))
<1>1. /\ pc[r] = "walk" /\ Lists(r) /\ DOMAIN stood = Requests /\ DOMAIN result = Requests
      /\ disk' = disk /\ req' = req /\ before' = before
  BY DEF WalkDir, Listings, Watches, Finds, diskVars
<1>2. ListWork(r)
  BY <1>1 DEF Lists
<1>3. /\ Walking(req[r], v, Listed(disk, r), result[r], stood[r])
      /\ alone[r] => /\ before[r].disk = disk
                     /\ Undisturbed(req[r], v, Listed(disk, r), result[r], disk)
  BY <1>2 DEF ListWork
<1>4. Listed(disk, r)' = Listed(disk, r) /\ Listed(before[r].disk, r)' = Listed(before[r].disk, r)
  <2>1. Listed(disk, r)' = Listed(disk', r) /\ Listed(before[r].disk, r)' = Listed(before'[r].disk, r)
    BY ListedNext
  <2> QED
    BY <1>1, <2>1
<1>5. stood'[r] = stood[r] /\ (alone'[r] => alone[r])
  <2>1. UnderWay(r)
    BY <1>1 DEF UnderWay
  <2>2. stood'[r] = stood[r] \cap Listed(disk, r)
    BY <1>1, <2>1 DEF Watches
  <2>3. stood[r] \subseteq Listed(disk, r)
    BY <1>3 DEF Walking
  <2>4. alone'[r] => alone[r]
    BY DEF Watches
  <2> QED
    BY <2>2, <2>3, <2>4
<1>6. /\ IsTree(disk, data) /\ req[r].path \in Seq(Names) /\ req[r].depth \in Nat
      /\ DOMAIN pc = Requests /\ DOMAIN answer = Requests /\ DOMAIN work = Requests
  <2>1. req[r] \in Asked
    BY DEF Working
  <2>2. req[r].depth \in Nat
    BY <2>1 DEF Asked
  <2> QED
    BY <2>2, AskedIs DEF Working
<1>a. listed = result[r] \cup Kept(r, FoundIn(path))
  OBVIOUS
<1> HIDE DEF v, path, deeper, listed
<1>7. ASSUME pc'[r] = "done", answer'[r] = 200, Shown(r)' PROVE Lists(r)'
  BY <1>7 DEF Lists
<1>8. CASE req[r].depth = 0
  <2>1. pc'[r] = "done" /\ answer'[r] = 200 /\ result'[r] = result[r]
    BY <1>1, <1>6, <1>8 DEF WalkDir, Ends
  <2>2. stood'[r] = {}
    <3>1. stood[r] \subseteq Listed(disk, r)
      BY <1>3 DEF Walking
    <3> QED
      BY <1>5, <1>6, <1>8, <3>1, NothingAtDepth
  <2>3. alone[r] => result[r] \subseteq Listed(before[r].disk, r)
    BY <1>3 DEF Undisturbed
  <2>4. Shown(r)'
    BY <1>4, <1>5, <2>1, <2>2, <2>3 DEF Shown
  <2> QED
    BY <1>7, <2>1, <2>4
<1>9. CASE req[r].depth # 0 /\ ReadDirError(path) # "ok"
  <2>1. Ends(r, StatusOf(ReadDirError(path)))
    BY Zenon, <1>9, WalkDirIs DEF v, path, deeper
  <2>2. pc'[r] = "done" /\ answer'[r] # 200
    BY <1>6, <2>1 DEF Ends, StatusOf
  <2> QED
    BY SMTT(40), <2>2 DEF Lists
<1>10. CASE req[r].depth # 0 /\ ReadDirError(path) = "ok"
  <2>1. Reading(r, v, path, deeper)
    BY <1>3, <1>6, <1>10 DEF Reading, path, deeper
  <2>2. /\ result' = [result EXCEPT ![r] = @ \cup Kept(r, FoundIn(path))]
        /\ \/ /\ Tail(v.todo) = <<>> /\ (deeper = <<>> \/ v.level + 1 = req[r].depth)
              /\ Ends(r, 200)
           \/ /\ Tail(v.todo) = <<>> /\ deeper # <<>> /\ v.level + 1 # req[r].depth
              /\ Goes(r, "walk")
              /\ Holds(r, [v EXCEPT !.todo = deeper, !.deeper = <<>>, !.level = @ + 1])
           \/ /\ Tail(v.todo) # <<>>
              /\ Goes(r, "walk")
              /\ Holds(r, [v EXCEPT !.todo = Tail(@), !.deeper = deeper])
    BY Zenon, <1>10, WalkDirIs DEF v, path, deeper
  <2>3. result'[r] = listed
    BY <1>1, <2>2 DEF listed
  <2>4. CASE /\ Tail(v.todo) = <<>> /\ (deeper = <<>> \/ v.level + 1 = req[r].depth)
             /\ Ends(r, 200)
    <3>1. pc'[r] = "done" /\ answer'[r] = 200
      BY <1>6, <2>4 DEF Ends
    <3>2. /\ stood[r] \subseteq listed
          /\ Undisturbed(req[r], v, Listed(disk, r), result[r], disk) => listed \subseteq Listed(disk, r)
      BY <1>a, <2>1, <2>4, ReadingEnds
    <3>3. Shown(r)'
      BY <1>3, <1>4, <1>5, <2>3, <3>2 DEF Shown
    <3> QED
      BY <1>7, <3>1, <3>3
  <2>5. ASSUME NEW w, Goes(r, "walk"), Holds(r, w),
               \/ /\ Tail(v.todo) # <<>> /\ w.todo = Tail(v.todo) /\ w.deeper = deeper
                  /\ w.level = v.level
               \/ /\ Tail(v.todo) = <<>> /\ deeper # <<>> /\ v.level + 1 # req[r].depth
                  /\ w.todo = deeper /\ w.deeper = <<>> /\ w.level = v.level + 1
        PROVE  Lists(r)'
    <3>1. pc'[r] = "walk" /\ work'[r] = w
      BY <1>6, <2>5 DEF Goes, Holds
    <3>2. /\ Walking(req[r], w, Listed(disk, r), listed, stood[r])
          /\ Undisturbed(req[r], v, Listed(disk, r), result[r], disk) =>
               Undisturbed(req[r], w, Listed(disk, r), listed, disk)
      BY ZenonT(60), <1>a, <2>1, <2>5, ReadingGoesOn
    <3>3. Walking(req'[r], work'[r], Listed(disk, r)', result'[r], stood'[r])
      BY <1>1, <1>4, <1>5, <2>3, <3>1, <3>2
    <3>4. alone'[r] => /\ before'[r].disk = disk'
                       /\ Undisturbed(req'[r], work'[r], Listed(disk, r)', result'[r], disk')
      BY <1>1, <1>3, <1>4, <1>5, <2>3, <3>1, <3>2
    <3>5. ListWork(r)'
      BY <3>3, <3>4 DEF ListWork
    <3> QED
      BY <3>1, <3>5 DEF Lists
  <2>6. DOMAIN v = Fields
    BY <1>6 DEF Working, v
  <2>7. CASE /\ Tail(v.todo) # <<>> /\ Goes(r, "walk")
             /\ Holds(r, [v EXCEPT !.todo = Tail(@), !.deeper = deeper])
    <3> DEFINE w == [v EXCEPT !.todo = Tail(@), !.deeper = deeper]
    <3>1. w.todo = Tail(v.todo) /\ w.deeper = deeper /\ w.level = v.level
      BY <2>6 DEF Fields, Idle
    <3>2. Holds(r, w)
      BY <2>7
    <3> HIDE DEF w
    <3> QED
      BY <2>5, <2>7, <3>1, <3>2
  <2>8. CASE /\ Tail(v.todo) = <<>> /\ deeper # <<>> /\ v.level + 1 # req[r].depth
             /\ Goes(r, "walk")
             /\ Holds(r, [v EXCEPT !.todo = deeper, !.deeper = <<>>, !.level = @ + 1])
    <3> DEFINE w == [v EXCEPT !.todo = deeper, !.deeper = <<>>, !.level = @ + 1]
    <3>1. w.todo = deeper /\ w.deeper = <<>> /\ w.level = v.level + 1
      BY <2>6 DEF Fields, Idle
    <3>2. Holds(r, w)
      BY <2>8
    <3> HIDE DEF w
    <3> QED
      BY <2>5, <2>8, <3>1, <3>2
  <2> QED
    BY SMTT(40), <2>2, <2>4, <2>7, <2>8
<1> QED
  BY <1>8, <1>9, <1>10

\* A step of r says nothing of the other requests.
Says(r) == DOMAIN result' = DOMAIN result /\ \A q \in DOMAIN result \ {r} : result'[q] = result[q]

LEMMA StepSays ==
  ASSUME NEW r, Step(r)
  PROVE  Says(r)
<1>1. (UNCHANGED result \/ \E x : result' = [result EXCEPT ![r] = x]) => Says(r)
  BY DEF Says
<1>2. CASE Make(r) \/ MoveTo(r) \/ Open(r) \/ Write(r) \/ SetLen(r) \/ CopyOpen(r) \/ Transfer(r)
           \/ CopyMake(r)
  <2>1. UNCHANGED result
    BY <1>2 DEF Make, MoveTo, Open, Write, SetLen, CopyOpen, Transfer, CopyMake
  <2> QED
    BY SMTT(40), <1>1, <2>1
<1>3. CASE Temp(r)
  <2>1. UNCHANGED result \/ \E path : result' = [result EXCEPT ![r] = {path}]
    BY Zenon, <1>3 DEF Temp
  <2> QED
    BY <1>1, <2>1
<1>4. CASE Patch(r) \/ OpenOld(r) \/ CopyPop(r) \/ CopyRead(r)
  <2>1. UNCHANGED result
    BY Zenon, <1>4 DEF Patch, OpenOld, CopyPop, CopyRead, Finds
  <2> QED
    BY <1>1, <2>1
<1>5. CASE Look(r) \/ WalkDir(r)
  <2>1. UNCHANGED result \/ \E x : result' = [result EXCEPT ![r] = x]
    BY Zenon, <1>5 DEF Look, WalkDir, Finds
  <2> QED
    BY SMTT(40), <1>1, <2>1
<1>6. CASE Probe(r) \/ RemoveOne(r) \/ RemoveAll(r) \/ ClearOne(r) \/ ClearBlocked(r) \/ ClearEnd(r)
  <2>1. UNCHANGED result
    BY <1>6 DEF Probe, RemoveOne, RemoveAll, ClearOne, ClearBlocked, ClearEnd, Removed, requestVars
  <2> QED
    BY <1>1, <2>1
<1> QED
  BY <1>2, <1>3, <1>4, <1>5, <1>6 DEF Step

\* A listing only reads directories.
LEMMA ListingWalks ==
  ASSUME Working, NEW r \in Requests, IsListing(r), Step(r)
  PROVE  WalkDir(r)
<1>1. pc[r] \in {"start", "walk", "done"}
  <2>1. pc[r] \in Stages(req[r].op) /\ req[r].op \in {"list", "glob"}
    BY DEF Working, IsListing
  <2> QED
    BY <2>1, AskedIs, StagesIs
<1>2. pc[r] \notin {"start", "done"}
  BY StepServes
<1>3. pc[r] = "walk"
  BY <1>1, <1>2
<1>4. ~(Make(r) \/ MoveTo(r) \/ Temp(r) \/ Open(r) \/ Write(r) \/ Patch(r) \/ OpenOld(r))
  BY <1>3 DEF Make, MoveTo, Temp, Open, Write, Patch, OpenOld
<1>5. ~(SetLen(r) \/ Look(r) \/ CopyPop(r) \/ CopyOpen(r) \/ Transfer(r) \/ CopyMake(r) \/ CopyRead(r))
  BY <1>3 DEF SetLen, Look, CopyPop, CopyOpen, Transfer, CopyMake, CopyRead
<1>6. ~(Probe(r) \/ RemoveOne(r) \/ RemoveAll(r) \/ ClearOne(r) \/ ClearBlocked(r) \/ ClearEnd(r))
  BY <1>3 DEF Probe, RemoveOne, RemoveAll, ClearOne, ClearBlocked, ClearEnd
<1> QED
  BY <1>4, <1>5, <1>6 DEF Step

\* A listing that somebody else's step finds under way is to show what still stands.
LEMMA OthersList ==
  ASSUME NEW q, Lists(q), UNCHANGED req,
         pc'[q] = pc[q], answer'[q] = answer[q], work'[q] = work[q], result'[q] = result[q],
         before'[q] = before[q],
         alone'[q] => alone[q] /\ (~UnderWay(q) \/ disk' = disk),
         stood'[q] = IF UnderWay(q) THEN stood[q] \cap Listed(disk', q) ELSE stood[q]
  PROVE  Lists(q)'
<1>1. /\ Listed(disk, q)' = Listed(disk', q)
      /\ Listed(before[q].disk, q)' = Listed(before[q].disk, q)
  <2>1. Listed(disk, q)' = Listed(disk', q) /\ Listed(before[q].disk, q)' = Listed(before'[q].disk, q)
    BY ListedNext
  <2> QED
    BY <2>1
<1>2. ASSUME pc'[q] = "walk" PROVE ListWork(q)'
  <2>1. pc[q] = "walk" /\ UnderWay(q)
    BY <1>2 DEF UnderWay
  <2>2. ListWork(q)
    BY <2>1 DEF Lists
  <2>3. Walking(req[q], work[q], Listed(disk, q), result[q], stood[q])
    BY <2>2 DEF ListWork
  <2>4. stood'[q] = stood[q] \cap Listed(disk', q)
    BY <2>1
  <2>5. Walking(req[q], work[q], Listed(disk', q), result[q], stood'[q])
    BY <2>3, <2>4 DEF Walking
  <2>6. alone'[q] => /\ before[q].disk = disk' /\ disk' = disk
                     /\ Undisturbed(req[q], work[q], Listed(disk', q), result[q], disk')
    <3>1. alone'[q] => alone[q] /\ disk' = disk
      BY <2>1
    <3>2. alone[q] => /\ before[q].disk = disk
                      /\ Undisturbed(req[q], work[q], Listed(disk, q), result[q], disk)
      BY <2>2 DEF ListWork
    <3> QED
      BY <3>1, <3>2
  <2>7. Walking(req'[q], work'[q], Listed(disk, q)', result'[q], stood'[q])
    BY <1>1, <2>5
  <2>8. alone'[q] => /\ before'[q].disk = disk'
                     /\ Undisturbed(req'[q], work'[q], Listed(disk, q)', result'[q], disk')
    BY <1>1, <2>6
  <2> QED
    BY <2>7, <2>8 DEF ListWork
<1>3. ASSUME pc'[q] = "done", answer'[q] = 200 PROVE Shown(q)'
  <2>1. Shown(q) /\ ~UnderWay(q)
    BY <1>3 DEF Lists, UnderWay
  <2>2. stood'[q] = stood[q] /\ (alone'[q] => alone[q])
    BY <2>1
  <2> QED
    BY <1>1, <2>1, <2>2 DEF Shown
<1>4. pc'[q] = "start" => result'[q] = {}
  BY DEF Lists
<1> QED
  BY <1>2, <1>3, <1>4 DEF Lists

\* One that comes is to show all there is, below its path, which it reads first.
LEMMA ArrivesLists ==
  ASSUME Working, DOMAIN before = Requests, Listings, NEW r \in Requests, IsListing(r),
         Begin(r), Arrives(r), UNCHANGED req
  PROVE  Lists(r)'
<1>1. /\ req[r].path \in Seq(Names) /\ req[r].depth \in Nat /\ IsTree(disk, data)
      /\ DOMAIN pc = Requests /\ DOMAIN work = Requests
  <2>1. req[r] \in Asked
    BY DEF Working
  <2>2. req[r].depth \in Nat
    BY <2>1 DEF Asked
  <2> QED
    BY <2>2, AskedIs DEF Working
<1>2. PICK p \in Seq(Names) : p = req[r].path
  BY <1>1
<1>3. Lists(r) /\ DOMAIN stood = Requests
  BY DEF Listings
<1>4. pc'[r] = "walk" /\ work'[r].todo = <<p>> /\ work'[r].deeper = <<>> /\ work'[r].level = 0
  <2>1. req[r].op \in {"list", "glob"}
    BY DEF IsListing
  <2>2. FirstCall[req[r].op] = "walk" /\ req[r].op # "copy"
    BY <2>1, FirstCallIs
  <2>3. pc'[r] = "walk"
    BY <1>1, <2>2 DEF Begin, Goes
  <2>4. work'[r] = [Idle EXCEPT !.todo = <<p>>]
    BY <1>1, <1>2, <2>2 DEF Begin, Holds
  <2> QED
    BY <2>3, <2>4 DEF Idle
<1>5. /\ result'[r] = {} /\ disk' = disk /\ req' = req
      /\ stood'[r] = Listed(disk, r) /\ before'[r].disk = disk
  <2>1. result[r] = {}
    BY <1>3 DEF Lists, Begin
  <2> QED
    BY <1>3, <2>1 DEF Begin, Arrives, diskVars
<1>6. Listed(disk, r)' = Listed(disk, r)
  <2>1. Listed(disk, r)' = Listed(disk', r)
    BY ListedNext
  <2> QED
    BY <1>5, <2>1
<1>7. AtDepth(<<p>>, p, 0) /\ AtDepth(<<>>, p, 0 + 1) /\ ThroughDirs(disk, <<p>>, p)
      /\ ThroughDirs(disk, <<>>, p)
  <2>1. Under(p, p) /\ Len(p) = Len(p) + 0
    BY LenProperties, UnderIs
  <2>2. /\ DOMAIN <<p>> = {1} /\ <<p>>[1] = p
        /\ \A k \in DOMAIN <<>> : FALSE
    OBVIOUS
  <2>3. AtDepth(<<p>>, p, 0)
    BY <2>1, <2>2 DEF AtDepth
  <2>4. AtDepth(<<>>, p, 0 + 1)
    BY <2>2 DEF AtDepth
  <2>5. ThroughDirs(disk, <<p>>, p)
    BY <2>2 DEF ThroughDirs
  <2>6. ThroughDirs(disk, <<>>, p)
    BY <2>2 DEF ThroughDirs
  <2> QED
    BY <2>3, <2>4, <2>5, <2>6
<1>8. \A s \in Listed(disk, r) : Awaited(<<p>>, s)
  <2> SUFFICES ASSUME NEW s \in Listed(disk, r) PROVE Awaited(<<p>>, s)
    OBVIOUS
  <2>1. Under(s, p) /\ s # p
    BY <1>1, <1>2, ListedBelow
  <2> QED
    BY <2>1 DEF Awaited
<1>9. /\ <<p>> \in Seq(Seq(Names)) /\ <<p>> # <<>> /\ <<>> \in Seq(Seq(Names))
  OBVIOUS
<1>10. Walking(req'[r], work'[r], Listed(disk, r)', result'[r], stood'[r])
  BY <1>2, <1>4, <1>5, <1>6, <1>7, <1>8, <1>9 DEF Walking
<1>11. Undisturbed(req'[r], work'[r], Listed(disk, r)', result'[r], disk')
  BY <1>2, <1>4, <1>5, <1>7 DEF Undisturbed
<1>12. ListWork(r)'
  BY <1>5, <1>10, <1>11 DEF ListWork
<1> QED
  BY <1>4, <1>12 DEF Lists

\* It holds at first.
LEMMA InitListings == Init => Listings
<1> SUFFICES ASSUME Init PROVE Listings
  OBVIOUS
<1>1. DOMAIN stood = Requests /\ DOMAIN result = Requests
  BY DEF Init
<1>2. \A r \in Requests : pc[r] = "start" /\ result[r] = {}
  BY DEF Init
<1> QED
  BY <1>1, <1>2 DEF Listings, Lists

\* Every step keeps it.
LEMMA NextListings == TreeInv /\ Listings /\ [Next]_vars => Listings'
<1> SUFFICES ASSUME TreeInv, Listings, [Next]_vars PROVE Listings'
  OBVIOUS
<1>0. /\ Working /\ DOMAIN before = Requests /\ DOMAIN stood = Requests /\ DOMAIN result = Requests
      /\ \A q \in Requests : IsListing(q) => Lists(q)
  BY DEF TreeInv, TempWork, Listings
<1>1. CASE UNCHANGED vars
  <2>1. /\ UNCHANGED <<disk, req, pc, work, answer, result, before, alone, stood>>
    BY <1>1 DEF vars, diskVars, requestVars, historyVars
  <2>2. \A r \in Requests : IsListing(r)' => IsListing(r)
    BY <2>1 DEF IsListing
  <2>3. ASSUME NEW r \in Requests, Lists(r) PROVE Lists(r)'
    <3>1. /\ Listed(disk, r)' = Listed(disk, r)
          /\ Listed(before[r].disk, r)' = Listed(before[r].disk, r)
      BY <2>1 DEF Listed, Kept, Matched, Excluded
    <3> QED
      BY <2>1, <2>3, <3>1 DEF Lists, ListWork, Shown
  <2> QED
    BY <1>0, <2>1, <2>2, <2>3 DEF Listings
<1>2. ASSUME NEW r \in Requests, Begin(r), Arrives(r), UNCHANGED req PROVE Listings'
  <2>1. /\ DOMAIN stood' = Requests /\ DOMAIN result' = Requests /\ result' = result
        /\ disk' = disk /\ alone' = alone
    BY <1>0, <1>2 DEF Begin, Arrives, diskVars
  <2>2. Serves(r)
    BY <1>0, <1>2, BeginServes
  <2>3. ASSUME NEW q \in Requests, IsListing(q) PROVE Lists(q)'
    <3>1. CASE q = r
      BY <1>0, <1>2, <2>3, <3>1, ArrivesLists
    <3>2. CASE q # r
      <4>1. pc'[q] = pc[q] /\ answer'[q] = answer[q] /\ work'[q] = work[q]
        BY <2>2, <3>2 DEF Serves, Others
      <4>2. before'[q] = before[q] /\ stood'[q] = stood[q]
        BY <1>0, <1>2, <3>2 DEF Arrives
      <4>3. Lists(q)
        BY <1>0, <2>3
      <4>4. stood'[q] = IF UnderWay(q) THEN stood[q] \cap Listed(disk', q) ELSE stood[q]
        <5>1. UnderWay(q) /\ pc[q] # "start" /\ pc[q] # "done" => pc[q] = "walk"
          BY <1>0, <2>3, AskedIs, StagesIs DEF Working, IsListing
        <5>2. UnderWay(q) => ListWork(q)
          BY <4>3, <5>1 DEF UnderWay, Lists
        <5>3. UnderWay(q) => stood[q] \subseteq Listed(disk, q)
          BY <5>2 DEF ListWork, Walking
        <5> QED
          BY <2>1, <4>2, <5>3
      <4> QED
        BY <1>2, <2>1, <4>1, <4>2, <4>3, <4>4, OthersList
    <3> QED
      BY <3>1, <3>2
  <2>4. \A q \in Requests : IsListing(q)' => IsListing(q)
    BY <1>2 DEF IsListing
  <2> QED
    BY <2>1, <2>3, <2>4 DEF Listings
<1>3. ASSUME NEW r \in Requests, Step(r), Watches(r), UNCHANGED req PROVE Listings'
  <2>1. Serves(r) /\ Says(r)
    BY <1>0, <1>3, StepServes, StepSays
  <2>2. DOMAIN stood' = Requests /\ DOMAIN result' = Requests
    BY <1>0, <1>3, <2>1 DEF Watches, Says
  <2>3. ASSUME NEW q \in Requests, IsListing(q) PROVE Lists(q)'
    <3>1. CASE q = r
      <4>1. WalkDir(r)
        BY <1>0, <1>3, <2>3, <3>1, ListingWalks
      <4> QED
        BY <1>0, <1>3, <2>3, <3>1, <4>1, WalkDirLists
    <3>2. CASE q # r
      <4>1. pc'[q] = pc[q] /\ answer'[q] = answer[q] /\ work'[q] = work[q]
        BY <2>1, <3>2 DEF Serves, Others
      <4>2. result'[q] = result[q] /\ before'[q] = before[q]
        BY <1>0, <1>3, <2>1, <3>2 DEF Says, Watches
      <4>3. Lists(q)
        BY <1>0, <2>3
      <4>4. stood'[q] = IF UnderWay(q) THEN stood[q] \cap Listed(disk', q) ELSE stood[q]
        BY <1>3 DEF Watches
      <4>5. alone'[q] => alone[q] /\ (~UnderWay(q) \/ disk' = disk)
        BY <1>3, <3>2 DEF Watches, diskVars
      <4> QED
        BY <1>3, <4>1, <4>2, <4>3, <4>4, <4>5, OthersList
    <3> QED
      BY <3>1, <3>2
  <2>4. \A q \in Requests : IsListing(q)' => IsListing(q)
    BY <1>3 DEF IsListing
  <2> QED
    BY <2>2, <2>3, <2>4 DEF Listings
<1> QED
  BY <1>1, <1>2, <1>3 DEF Next

\* A listing shows everything that was there from first to last, whatever others do meanwhile,
\* and if they do nothing it shows nothing else.
THEOREM ListingsAreComplete == Spec => []ListComplete
<1>1. Init => TreeInv /\ Listings
  BY InitTree, InitListings
<1>2. TreeInv /\ Listings /\ [Next]_vars => (TreeInv /\ Listings)'
  BY NextTree, NextListings
<1>3. TreeInv /\ Listings => ListComplete
  BY DEF Listings, Lists, IsListing, Shown, ListComplete
<1> QED
  BY <1>1, <1>2, <1>3, PTL DEF Spec

-----------------------------------------------------------------------------
(* Edits.  One that nobody disturbs finds the disk as it left it.          *)

\* Only what goes well is answered 204.
LEMMA DoneIs ==
  ASSUME NEW e
  PROVE  StatusOf(e) = 204 <=> e = "ok"
BY DEF StatusOf

\* A call that fails does so with the error of a check that applies.
LEMMA UnlessFails ==
  ASSUME NEW n \in Nat, NEW checks, DOMAIN checks = 1..n, NEW call
  PROVE  \/ Unless(checks, call) = call /\ \A k \in 1..n : ~checks[k][1]
         \/ \E k \in 1..n : checks[k][1] /\ Unless(checks, call) = Fails(checks[k][2])
<1> DEFINE bad == {k \in DOMAIN checks : checks[k][1]}
<1>1. Unless(checks, call) = IF bad = {} THEN call ELSE Fails(checks[Min(bad)][2])
  BY DEF Unless
<1>2. CASE bad = {}
  BY <1>1, <1>2
<1>3. CASE bad # {}
  <2>1. bad \in SUBSET Nat
    OBVIOUS
  <2>2. \E x \in bad : \A y \in bad : x <= y
    <3> HIDE DEF bad
    <3> QED
      BY <1>3, <2>1, LeastOf
  <2>3. Min(bad) \in bad
    BY <2>2 DEF Min
  <2>4. Min(bad) \in 1..n /\ checks[Min(bad)][1]
    BY <2>3
  <2> HIDE DEF bad
  <2> QED
    BY <1>1, <1>3, <2>4
<1> QED
  BY <1>2, <1>3

\* Where a path leads to an entry of a part of a disk, it leads there on the whole.
LEMMA LocateOnMore ==
  ASSUME NEW d, NEW e, Linked(d), Linked(e), DOMAIN e \subseteq DOMAIN d,
         \A p \in DOMAIN e : e[p] = d[p],
         NEW follow, NEW path \in Seq(Names),
         Locate(e, path, follow).error = "ok", Locate(e, path, follow).path \in DOMAIN e
  PROVE  Locate(d, path, follow) = Locate(e, path, follow)
<1>1. PICK W : LocatesBy(e, follow, W)
  BY LocateIs
<1>2. PICK V : LocatesBy(d, follow, V)
  BY LocateIs
<1>3. /\ Walks(e, follow, W)
      /\ Locate(e, path, follow) = IF Len(path) > MaxLen THEN Error("TooLong")
                                   ELSE W[Way(Root, path, MaxHops)]
  BY <1>1 DEF LocatesBy
<1>4. /\ Walks(d, follow, V)
      /\ Locate(d, path, follow) = IF Len(path) > MaxLen THEN Error("TooLong")
                                   ELSE V[Way(Root, path, MaxHops)]
  BY <1>2 DEF LocatesBy
<1> DEFINE G == {w \in Ways : W[w].error = "ok" /\ W[w].path \in DOMAIN e => V[w] = W[w]}
           S == Stops(e, follow)
           on == Onward(e, follow)
<1>5. S \subseteq G
  <2> SUFFICES ASSUME NEW w \in S, W[w].error = "ok" PROVE V[w] = W[w]
    BY DEF Stops
  <2>1. w \in Ways
    BY DEF Stops
  <2>2. w.rest = <<>>
    <3>1. w \in Stops(e, follow) /\ w.rest # <<>> => W[w].error # "ok"
      BY <1>3, <2>1, WalkStep
    <3> QED
      BY <3>1
  <2>3. W[w] = Ok(w.at)
    BY <1>3, <2>1, <2>2, WalkStep
  <2>4. V[w] = Ok(w.at)
    BY <1>4, <2>1, <2>2, WalkStep
  <2> QED
    BY <2>3, <2>4
<1>6. ASSUME NEW w \in Ways \ S, on[w] \in G PROVE w \in G
  <2> SUFFICES ASSUME W[w].error = "ok", W[w].path \in DOMAIN e PROVE V[w] = W[w]
    OBVIOUS
  <2>1. W[w] = W[on[w]]
    BY <1>3, WalkStep
  <2>2. V[on[w]] = W[w]
    BY <1>6, <2>1
  <2>3. /\ w.rest # <<>> /\ on[w] \in Ways
        /\ MeetsLink(e, follow, w) =>
              /\ w.hops \in 1..MaxHops /\ Ahead(w) \in DOMAIN e
              /\ on[w] = Way(Root, e[Ahead(w)].target \o Tail(w.rest), w.hops - 1)
        /\ ~MeetsLink(e, follow, w) =>
              /\ on[w] = Way(Ahead(w), Tail(w.rest), w.hops)
              /\ Len(w.rest) # 1 => KindAt(e, Ahead(w)) \notin {"none", "file", "link"}
    BY OnwardIs
  <2>4. Ahead(w) \in DOMAIN e
    <3>1. CASE MeetsLink(e, follow, w)
      BY <2>3, <3>1
    <3>2. CASE ~MeetsLink(e, follow, w) /\ Len(w.rest) # 1
      BY <2>3, <3>2 DEF KindAt
    <3>3. CASE ~MeetsLink(e, follow, w) /\ Len(w.rest) = 1
      <4>1. on[w].at = Ahead(w) /\ on[w].rest = Tail(w.rest)
        BY <2>3, <3>3, WayIs
      <4>2. Tail(w.rest) = <<>>
        <5>1. Tail(w.rest) \in Seq(Names) /\ Len(Tail(w.rest)) = 0
          BY <2>3, <3>3, WayTypes
        <5> QED
          BY <5>1, EmptyIs
      <4>3. W[on[w]] = Ok(Ahead(w))
        <5>1. \A v \in Ways : v.rest = <<>> => W[v] = Ok(v.at)
          BY <1>3, WalkStep
        <5> HIDE DEF on
        <5> QED
          BY <2>3, <4>1, <4>2, <5>1
      <4> QED
        BY <2>1, <4>3 DEF Ok
    <3> QED
      BY <3>1, <3>2, <3>3
  <2>5. Ahead(w) \in DOMAIN d /\ d[Ahead(w)] = e[Ahead(w)] /\ KindAt(d, Ahead(w)) = KindAt(e, Ahead(w))
    BY <2>4 DEF KindAt
  <2>6. MeetsLink(d, follow, w) <=> MeetsLink(e, follow, w)
    BY <2>5 DEF MeetsLink
  <2>7. w \notin Stops(d, follow)
    <3>1. w \notin Stops(e, follow)
      OBVIOUS
    <3>2. /\ w.rest # <<>> /\ ~(MeetsLink(e, follow, w) /\ w.hops = 0)
          /\ ~(Len(w.rest) # 1 /\ KindAt(e, Ahead(w)) \in {"none", "file"})
      BY <3>1 DEF Stops
    <3> QED
      BY <2>5, <2>6, <3>2 DEF Stops
  <2>8. Onward(d, follow)[w] = on[w]
    BY <2>5, <2>6, <2>7 DEF Onward
  <2> QED
    BY <1>4, <2>2, <2>7, <2>8, WalkStep
<1>7. Ways \subseteq G
  <2> HIDE DEF G
  <2> QED
    BY <1>5, <1>6, WalkGoesDown, DescentInduction
<1> DEFINE w == Way(Root, path, MaxHops)
<1>8. w \in Ways
  BY EmptySeq, FileTreeAssumption DEF Way, Ways, Root
<1>9. ~(Len(path) > MaxLen) /\ Locate(e, path, follow) = W[w]
  BY <1>3 DEF Error
<1>10. V[w] = W[w]
  BY <1>7, <1>8, <1>9
<1> HIDE DEF w
<1> QED
  BY <1>4, <1>9, <1>10 DEF w


\* What is below a path of a tree that has no entries in it: nothing.
LEMMA NothingIn ==
  ASSUME NEW d, NEW b, IsTree(d, b), NEW p \in Seq(Names),
         KindAt(d, p) # "dir" \/ Children(d, p) = {}
  PROVE  Below(d, p) = {}
<1> SUFFICES ASSUME NEW q \in Below(d, p) PROVE FALSE
  OBVIOUS
<1>1. q \in DOMAIN d /\ q # p /\ Under(q, p)
  BY DEF Below
<1> QED
  BY <1>1, NothingBelow

\* A part of a disk has its links.
LEMMA LinkedPart ==
  ASSUME NEW d, Linked(d), NEW S \in SUBSET DOMAIN d
  PROVE  Linked([p \in S |-> d[p]])
BY DEF Linked

\* A path leads to no entry.
Gone(d, path) == Entry(d, path, FALSE).error # "ok"

\* An entry that is taken away is no longer where the path led.
LEMMA GoneIs ==
  ASSUME NEW d, NEW b, IsTree(d, b), NEW path \in Seq(Names), NEW p,
         Locate(d, path, FALSE).path = p,
         NEW e, e = [q \in DOMAIN d \ {p} |-> d[q]]
  PROVE  Gone(e, path)
<1> SUFFICES ASSUME Entry(e, path, FALSE).error = "ok" PROVE FALSE
  BY DEF Gone
<1>1. Locate(e, path, FALSE).error = "ok" /\ Locate(e, path, FALSE).path \in DOMAIN e
  BY DEF Entry, Error
<1>2. /\ Linked(d) /\ Linked(e) /\ DOMAIN e = DOMAIN d \ {p}
      /\ \A q \in DOMAIN e : e[q] = d[q]
  <2>1. Linked(d)
    BY TreeIs
  <2>2. Linked(e)
    <3> DEFINE S == DOMAIN d \ {p}
    <3>1. S \in SUBSET DOMAIN d
      OBVIOUS
    <3> HIDE DEF S
    <3>2. Linked([q \in S |-> d[q]])
      BY <2>1, <3>1, LinkedPart
    <3> QED
      BY <3>2 DEF S
  <2> QED
    BY <2>1, <2>2
<1>3. Locate(d, path, FALSE) = Locate(e, path, FALSE)
  <2> DEFINE f == FALSE
  <2>1. Locate(e, path, f).error = "ok" /\ Locate(e, path, f).path \in DOMAIN e
    BY <1>1
  <2> HIDE DEF f
  <2>2. Locate(d, path, f) = Locate(e, path, f)
    BY <1>2, <2>1, LocateOnMore
  <2> QED
    BY <2>2 DEF f
<1> QED
  BY <1>1, <1>2, <1>3

\* A call that is to remove the entry at a path takes just that, if it does not fail.
Takes(call, path) ==
  /\ call.error = "ok" =>
       LET l == Locate(disk, path, FALSE)
       IN  /\ l.error = "ok" /\ l.path \in Present /\ Below(disk, l.path) = {}
           /\ call.disk = [q \in Present \ {l.path} |-> disk[q]]
  /\ call.error # "ok" => call.disk = disk
  /\ call.error = "NotFound" => Gone(disk, path)

\* Neither fails as if nothing were there when something is.
LEMMA FailsTakes ==
  ASSUME NEW e, e # "ok", NEW path, e = "NotFound" => Lstat(path).error # "ok"
  PROVE  Takes(Fails(e), path)
BY FailsIs DEF Takes, Lstat, Gone

\* Nor does taking an entry away take more than that.
LEMMA DropsTakes ==
  ASSUME IsTree(disk, data), NEW path \in Seq(Names), Lstat(path).error = "ok",
         KindAt(disk, Lstat(path).path) # "dir" \/ Children(disk, Lstat(path).path) = {}
  PROVE  Takes(Drops({Lstat(path).path}), path)
<1> DEFINE p == Lstat(path).path
<1>1. /\ Locate(disk, path, FALSE).error = "ok" /\ Locate(disk, path, FALSE).path = p
      /\ p \in Present /\ p \in Seq(Names)
  BY EntryIs DEF Lstat
<1> HIDE DEF p
<1>2. Below(disk, p) = {}
  BY <1>1, NothingIn DEF p
<1>3. Drops({p}).error = "ok" /\ Drops({p}).disk = [q \in Present \ {p} |-> disk[q]]
  BY LeavesIs DEF Drops
<1>4. Takes(Drops({p}), path)
  BY <1>1, <1>2, <1>3 DEF Takes
<1> QED
  BY <1>4 DEF p

\* What unlink takes, and why it fails.
LEMMA UnlinkTakes ==
  ASSUME IsTree(disk, data), NEW path \in Seq(Names)
  PROVE  Takes(Unlink(path), path)
<1> DEFINE l == Lstat(path)
           checks == <<Resolved(l), <<Kind(l.path) = "dir", "IsADirectory">>>>
           call == Drops({l.path})
<1>1. Unlink(path) = Unless(checks, call)
  BY DEF Unlink
<1> HIDE DEF l
<1>2. /\ DOMAIN checks = 1..2
      /\ (checks[1][1] <=> l.error # "ok") /\ checks[1][2] = l.error
      /\ (checks[2][1] <=> Kind(l.path) = "dir") /\ checks[2][2] = "IsADirectory"
  <2>1. DOMAIN checks = 1..2
    OBVIOUS
  <2>2. (checks[1][1] <=> l.error # "ok") /\ checks[1][2] = l.error
    BY DEF Resolved
  <2>3. (checks[2][1] <=> Kind(l.path) = "dir") /\ checks[2][2] = "IsADirectory"
    OBVIOUS
  <2> HIDE DEF checks
  <2> QED
    BY <2>1, <2>2, <2>3
<1> HIDE DEF checks
<1>3. \/ Unless(checks, call) = call /\ \A k \in 1..2 : ~checks[k][1]
      \/ \E k \in 1..2 : checks[k][1] /\ Unless(checks, call) = Fails(checks[k][2])
  <2> DEFINE n == 2
  <2>1. n \in Nat /\ DOMAIN checks = 1..n
    BY <1>2
  <2> HIDE DEF n, call
  <2>2. \/ Unless(checks, call) = call /\ \A k \in 1..n : ~checks[k][1]
        \/ \E k \in 1..n : checks[k][1] /\ Unless(checks, call) = Fails(checks[k][2])
    BY <2>1, UnlessFails
  <2> QED
    BY <2>2 DEF n
<1> HIDE DEF call
<1>4. CASE Unless(checks, call) = call /\ \A k \in 1..2 : ~checks[k][1]
  <2>1. ~checks[1][1] /\ ~checks[2][1]
    BY <1>4
  <2>2. l.error = "ok" /\ KindAt(disk, l.path) # "dir"
    BY <1>2, <2>1 DEF Kind, KindAt, Present
  <2>3. Takes(Drops({l.path}), path)
    BY <2>2, DropsTakes DEF l
  <2> QED
    BY <1>1, <1>4, <2>3 DEF call
<1>5. ASSUME NEW k \in 1..2, checks[k][1], Unless(checks, call) = Fails(checks[k][2])
      PROVE  Takes(Unlink(path), path)
  <2>1. checks[k][2] # "ok" /\ (checks[k][2] = "NotFound" => l.error # "ok")
    <3>1. k = 1 \/ k = 2
      OBVIOUS
    <3> QED
      BY <1>2, <1>5, <3>1
  <2>2. Takes(Fails(checks[k][2]), path)
    BY <2>1, FailsTakes DEF l
  <2> QED
    BY <1>1, <1>5, <2>2
<1> QED
  BY <1>3, <1>4, <1>5

\* What rmdir takes, and why it fails.
LEMMA RmdirTakes ==
  ASSUME IsTree(disk, data), NEW path \in Seq(Names)
  PROVE  Takes(Rmdir(path), path)
<1> DEFINE l == Lstat(path)
           checks == <<Resolved(l), <<Kind(l.path) # "dir", "NotADirectory">>,
                       <<l.path = Root, "Busy">>,
                       <<Children(disk, l.path) # {}, "NotEmpty">>>>
           call == Drops({l.path})
<1>1. Rmdir(path) = Unless(checks, call)
  BY DEF Rmdir
<1> HIDE DEF l
<1>2. /\ DOMAIN checks = 1..4
      /\ (checks[1][1] <=> l.error # "ok") /\ checks[1][2] = l.error
      /\ checks[2][2] = "NotADirectory" /\ checks[3][2] = "Busy"
      /\ (checks[4][1] <=> Children(disk, l.path) # {}) /\ checks[4][2] = "NotEmpty"
  <2>1. DOMAIN checks = 1..4
    OBVIOUS
  <2>2. (checks[1][1] <=> l.error # "ok") /\ checks[1][2] = l.error
    BY DEF Resolved
  <2>3. checks[2][2] = "NotADirectory" /\ checks[3][2] = "Busy"
    OBVIOUS
  <2>4. (checks[4][1] <=> Children(disk, l.path) # {}) /\ checks[4][2] = "NotEmpty"
    OBVIOUS
  <2> HIDE DEF checks
  <2> QED
    BY <2>1, <2>2, <2>3, <2>4
<1> HIDE DEF checks
<1>3. \/ Unless(checks, call) = call /\ \A k \in 1..4 : ~checks[k][1]
      \/ \E k \in 1..4 : checks[k][1] /\ Unless(checks, call) = Fails(checks[k][2])
  <2> DEFINE n == 4
  <2>1. n \in Nat /\ DOMAIN checks = 1..n
    BY <1>2
  <2> HIDE DEF n, call
  <2>2. \/ Unless(checks, call) = call /\ \A k \in 1..n : ~checks[k][1]
        \/ \E k \in 1..n : checks[k][1] /\ Unless(checks, call) = Fails(checks[k][2])
    BY <2>1, UnlessFails
  <2> QED
    BY <2>2 DEF n
<1> HIDE DEF call
<1>4. CASE Unless(checks, call) = call /\ \A k \in 1..4 : ~checks[k][1]
  <2>1. ~checks[1][1] /\ ~checks[4][1]
    BY <1>4
  <2>2. l.error = "ok" /\ Children(disk, l.path) = {}
    BY <1>2, <2>1
  <2>3. Takes(Drops({l.path}), path)
    BY <2>2, DropsTakes DEF l
  <2> QED
    BY <1>1, <1>4, <2>3 DEF call
<1>5. ASSUME NEW k \in 1..4, checks[k][1], Unless(checks, call) = Fails(checks[k][2])
      PROVE  Takes(Rmdir(path), path)
  <2>1. checks[k][2] # "ok" /\ (checks[k][2] = "NotFound" => l.error # "ok")
    <3>1. k = 1 \/ k = 2 \/ k = 3 \/ k = 4
      OBVIOUS
    <3> QED
      BY <1>2, <1>5, <3>1
  <2>2. Takes(Fails(checks[k][2]), path)
    BY <2>1, FailsTakes DEF l
  <2> QED
    BY <1>1, <1>5, <2>2
<1> QED
  BY <1>3, <1>4, <1>5


\* The disk that is left when the entry at a path of disk d is removed.
AfterRemove(d, path) ==
  LET l == Locate(d, path, FALSE)
      Stays(p) == \/ l.error # "ok"
                  \/ ~Under(p, l.path)
                  \/ p = l.path /\ LeadsThroughIt(d, path, l)
  IN  [q \in {p \in DOMAIN d : Stays(p)} |-> d[q]]

\* What is left of a directory of disk `all` that is being cleared is d.
Clearing(all, l, d, w) ==
  /\ l.error = "ok" /\ l.path \in DOMAIN all /\ all[l.path].kind = "dir"
  /\ w.inodes[1] = all[l.path].inode /\ w.old = {all[p].inode : p \in Below(all, l.path)}
  /\ DOMAIN d \subseteq DOMAIN all /\ d = [p \in DOMAIN d |-> all[p]]
  /\ DOMAIN all \ Below(all, l.path) \subseteq DOMAIN d

\* How far an undisturbed DELETE that asks for q and found `found` has come.
RemoveWork(call, q, found, d, w) ==
  /\ call \in {"probe", "unlink", "rmdir", "removeall"} => d = found.disk
  /\ call = "clear" => Clearing(found.disk, Locate(found.disk, q.path, FALSE), d, w)

\* The inode of the file that a patch is for, and that it is the text it was made for.
FileIn(found, path) == found.disk[Entry(found.disk, path, TRUE).path].inode
Fits(q, found) ==
  LET l == Entry(found.disk, q.path, TRUE)
  IN  /\ l.error = "ok" /\ found.disk[l.path].kind # "dir"
      /\ found.data[FileIn(found, q.path)] = q.old

\* How far an undisturbed patch has come.
PatchWork(call, q, found, d, b, w) ==
  /\ call \in {"patch", "open", "write"} => d = found.disk
  /\ call \in {"patch", "open"} => b = found.data
  /\ call \in {"open", "write"} => Fits(q, found)
  /\ call = "write" => /\ b = [found.data EXCEPT ![FileIn(found, q.path)] = <<>>]
                       /\ w.inodes[1] = FileIn(found, q.path)

\* A disk without nothing.
LEMMA LessNothing ==
  ASSUME NEW d, d = [p \in DOMAIN d |-> d[p]], NEW S, S = {}
  PROVE  [p \in DOMAIN d \ S |-> d[p]] = d
<1>1. DOMAIN d \ S = DOMAIN d
  OBVIOUS
<1>2. [p \in DOMAIN d \ S |-> d[p]] = [p \in DOMAIN d |-> d[p]]
  BY <1>1
<1> QED
  BY <1>2

\* What a call removes is what is to go.
LEMMA TakesAll ==
  ASSUME IsTree(disk, data), NEW path \in Seq(Names), NEW call, Takes(call, path),
         call.error = "ok"
  PROVE  call.disk = AfterRemove(disk, path) /\ Gone(call.disk, path)
<1> DEFINE l == Locate(disk, path, FALSE)
           p == l.path
<1>1. /\ l.error = "ok" /\ p \in Present /\ Below(disk, p) = {} /\ p \in Seq(Names)
      /\ call.disk = [q \in Present \ {p} |-> disk[q]]
  BY TreeIs DEF Takes, Present
<1>2. ~LeadsThroughIt(disk, path, l)
  <2>1. Emptied(disk, p) = disk
    <3>1. disk = [q \in DOMAIN disk |-> disk[q]]
      BY DEF IsTree
    <3> HIDE DEF p
    <3> QED
      BY <1>1, <3>1, LessNothing DEF Emptied
  <2>2. LeadsThroughIt(disk, path, l) <=> Locate(Emptied(disk, p), path, FALSE) # l
    BY DEF LeadsThroughIt
  <2> HIDE DEF p
  <2> QED
    BY <2>1, <2>2
<1>3. Under(p, p)
  <2> HIDE DEF p
  <2> QED
    BY <1>1, LenProperties, UnderIs
<1>4. {q \in DOMAIN disk : ~Under(q, p)} = Present \ {p}
  <2>1. \A q \in DOMAIN disk : q # p => ~Under(q, p)
    BY <1>1 DEF Below
  <2> HIDE DEF p
  <2> QED
    BY <1>3, <2>1 DEF Present
<1>5. AfterRemove(disk, path) = [q \in {q \in DOMAIN disk : ~Under(q, p)} |-> disk[q]]
  BY <1>1, <1>2 DEF AfterRemove
<1>6. Gone(call.disk, path)
  <2> DEFINE e == call.disk
  <2>1. e = [q \in DOMAIN disk \ {p} |-> disk[q]]
    BY <1>1 DEF Present
  <2> HIDE DEF e, p
  <2>2. Locate(disk, path, FALSE).path = p
    BY DEF p
  <2>3. Gone(e, path)
    BY Zenon, <2>1, <2>2, GoneIs
  <2> QED
    BY <2>3 DEF e
<1> HIDE DEF p
<1> QED
  BY <1>1, <1>4, <1>5, <1>6

\* What is not there leaves nothing to go.
LEMMA NothingToTake ==
  ASSUME NEW d, NEW b, IsTree(d, b), NEW path \in Seq(Names), Gone(d, path)
  PROVE  d = AfterRemove(d, path)
<1> DEFINE l == Locate(d, path, FALSE)
<1>0. d = [q \in DOMAIN d |-> d[q]]
  BY DEF IsTree
<1>1. CASE l.error # "ok"
  <2>1. AfterRemove(d, path) = [q \in DOMAIN d |-> d[q]]
    BY <1>1 DEF AfterRemove
  <2> QED
    BY <1>0, <2>1
<1>2. CASE l.error = "ok"
  <2>1. l.path \notin DOMAIN d
    BY <1>2 DEF Entry, Gone
  <2>2. l.path \in Seq(Names)
    BY TreeIs, LocateTypes
  <2>3. \A q \in DOMAIN d : ~Under(q, l.path)
    BY <2>1, <2>2, FreeBelow
  <2>4. AfterRemove(d, path) = [q \in DOMAIN d |-> d[q]]
    BY <2>3 DEF AfterRemove
  <2> QED
    BY <1>0, <2>4
<1> QED
  BY <1>1, <1>2

\* A removal that is answered 204 after such a call.
LEMMA RemovedIs ==
  ASSUME Working, NEW r \in Requests, NEW call, Takes(call, req[r].path), Removed(r, call),
         answer'[r] = 204
  PROVE  /\ disk' = AfterRemove(disk, req[r].path)
         /\ Gone(disk', req[r].path)
<1>0. PICK path \in Seq(Names) : path = req[r].path
  BY AskedIs
<1>1. IsTree(disk, data) /\ DOMAIN answer = Requests
  BY DEF Working
<1>2. disk' = call.disk /\ (Forgives(r, call.error) \/ StatusOf(call.error) = 204)
  BY <1>1 DEF Removed, Does, Ends
<1>3. CASE call.error = "ok"
  <2>1. call.disk = AfterRemove(disk, path) /\ Gone(call.disk, path)
    BY <1>0, <1>1, <1>3, TakesAll
  <2> QED
    BY <1>0, <1>2, <2>1
<1>4. CASE call.error # "ok"
  <2>1. call.error = "NotFound"
    BY <1>2, <1>4, DoneIs DEF Forgives
  <2>2. disk' = disk /\ Gone(disk, path)
    BY <1>0, <1>2, <1>4, <2>1 DEF Takes
  <2>3. disk = AfterRemove(disk, path)
    BY <1>1, <2>2, NothingToTake
  <2> QED
    BY <1>0, <2>2, <2>3
<1> QED
  BY <1>3, <1>4

\* The calls of a removal but for those that clear a directory.
LEMMA ProbeAnswers ==
  ASSUME Working, NEW r \in Requests, Probe(r) \/ RemoveOne(r) \/ RemoveAll(r), pc'[r] = "done"
  PROVE  \E call : Takes(call, req[r].path) /\ Removed(r, call)
<1>1. req[r].path \in Seq(Names) /\ IsTree(disk, data) /\ r \in DOMAIN pc
  BY AskedIs DEF Working
<1>2. CASE Probe(r)
  <2> DEFINE l == Lstat(req[r].path)
  <2>1. CASE l.error # "ok"
    <3>1. Removed(r, Fails(l.error))
      BY <1>2, <2>1 DEF Probe
    <3>2. Takes(Fails(l.error), req[r].path)
      BY <2>1, FailsTakes
    <3> QED
      BY <3>1, <3>2
  <2>2. CASE l.error = "ok"
    <3>1. \E to \in {"removeall", "rmdir", "unlink"} : Goes(r, to)
      <4>1. Goes(r, CASE Kind(l.path) = "dir" /\ req[r].recursive -> "removeall"
                      [] Kind(l.path) = "dir" /\ ~req[r].recursive -> "rmdir"
                      [] OTHER -> "unlink")
        BY <1>2, <2>2 DEF Probe
      <4> HIDE DEF l
      <4> QED
        BY <4>1
    <3>2. pc'[r] \in {"removeall", "rmdir", "unlink"}
      BY <1>1, <3>1 DEF Goes
    <3> QED
      BY <3>2
  <2> QED
    BY <2>1, <2>2
<1>3. CASE RemoveOne(r)
  <2>1. Removed(r, Unlink(req[r].path)) \/ Removed(r, Rmdir(req[r].path))
    BY <1>3 DEF RemoveOne
  <2> QED
    BY <1>1, <2>1, UnlinkTakes, RmdirTakes
<1>4. CASE RemoveAll(r)
  <2> DEFINE l == Lstat(req[r].path)
  <2>1. CASE l.error = "ok" /\ Kind(l.path) = "dir"
    <3>1. Goes(r, "clear")
      BY <1>4, <2>1 DEF RemoveAll
    <3>2. pc'[r] = "clear"
      BY <1>1, <3>1 DEF Goes
    <3> QED
      BY <3>2
  <2>2. CASE ~(l.error = "ok" /\ Kind(l.path) = "dir")
    <3>1. Removed(r, Fails("NotADirectory")) \/ Removed(r, Unlink(req[r].path))
      BY <1>4, <2>2 DEF RemoveAll
    <3>2. Takes(Fails("NotADirectory"), req[r].path)
      BY FailsTakes
    <3> QED
      BY <1>1, <3>1, <3>2, UnlinkTakes
  <2> QED
    BY <2>1, <2>2
<1> QED
  BY <1>2, <1>3, <1>4


\* The end of a recursive removal: the directory is gone, by that call or before.
LEMMA ClearEndGone ==
  ASSUME Working, NEW r \in Requests, ClearEnd(r), answer'[r] = 204
  PROVE  Gone(disk', req[r].path)
<1>0. PICK path \in Seq(Names) : path = req[r].path
  BY AskedIs
<1> DEFINE call == Rmdir(path)
<1>1. Takes(call, path)
  BY RmdirTakes DEF Working
<1>2. Removed(r, IF call.error = "NotFound" THEN Leaves(disk, data) ELSE call)
  BY <1>0 DEF ClearEnd
<1> HIDE DEF call
<1>3. CASE call.error = "NotFound"
  <2>1. disk' = disk
    BY <1>2, <1>3, LeavesIs DEF Removed, Does
  <2> QED
    BY <1>0, <1>1, <1>3, <2>1 DEF Takes
<1>4. CASE call.error # "NotFound"
  BY <1>0, <1>1, <1>2, <1>4, RemovedIs
<1> QED
  BY <1>3, <1>4

\* When nothing is left to clear, the disk is the whole without what was below.
LEMMA ClearedIs ==
  ASSUME NEW all, NEW b, IsTree(all, b), NEW l, NEW d, NEW w, Clearing(all, l, d, w),
         \A q \in Below(d, l.path) : d[q].inode \notin w.old
  PROVE  d = Emptied(all, l.path)
<1>1. /\ w.old = {all[q].inode : q \in Below(all, l.path)} /\ DOMAIN d \subseteq DOMAIN all
      /\ d = [q \in DOMAIN d |-> all[q]] /\ DOMAIN all \ Below(all, l.path) \subseteq DOMAIN d
  BY DEF Clearing
<1>2. \A q \in DOMAIN d : d[q] = all[q]
  BY <1>1
<1>3. ASSUME NEW q \in DOMAIN d, q \in Below(all, l.path) PROVE FALSE
  <2>1. q \in Below(d, l.path)
    BY <1>3 DEF Below
  <2>2. d[q].inode \in w.old
    BY <1>1, <1>2, <1>3
  <2> QED
    BY <2>1, <2>2
<1>4. DOMAIN d = DOMAIN all \ Below(all, l.path)
  BY <1>1, <1>3
<1> QED
  BY <1>1, <1>4 DEF Emptied

\* What r clears is what was below that directory.
LEMMA InsideIs ==
  ASSUME NEW r, NEW all, NEW b, IsTree(all, b), NEW l, Clearing(all, l, disk, work[r])
  PROVE  /\ l.path \in DOMAIN disk /\ Inside(r) = Below(disk, l.path)
         /\ \A q \in DOMAIN disk : disk[q] = all[q]
<1>1. /\ l.path \in DOMAIN all /\ work[r].inodes[1] = all[l.path].inode
      /\ DOMAIN disk \subseteq DOMAIN all /\ disk = [q \in DOMAIN disk |-> all[q]]
      /\ DOMAIN all \ Below(all, l.path) \subseteq DOMAIN disk
  BY DEF Clearing
<1>2. \A q \in DOMAIN disk : disk[q] = all[q]
  BY <1>1
<1>3. l.path \in DOMAIN disk
  BY <1>1 DEF Below
<1>4. \A p \in DOMAIN disk : disk[p].inode = work[r].inodes[1] <=> p = l.path
  BY <1>1, <1>2, <1>3, TreeParts DEF Distinct
<1>5. {p \in Present : disk[p].inode = work[r].inodes[1]} = {l.path}
  BY <1>3, <1>4 DEF Present
<1>6. Inside(r) = UNION {Below(disk, p) : p \in {l.path}}
  BY <1>5 DEF Inside
<1> QED
  BY <1>2, <1>3, <1>6

\* Clearing goes on.
LEMMA ClearOneClears ==
  ASSUME NEW r, NEW all, NEW b, IsTree(all, b), NEW l, Clearing(all, l, disk, work[r]),
         ClearOne(r)
  PROVE  Clearing(all, l, disk', work'[r])
<1>1. /\ l.path \in DOMAIN disk /\ Inside(r) = Below(disk, l.path)
      /\ \A q \in DOMAIN disk : disk[q] = all[q]
  BY InsideIs
<1>2. PICK p \in Below(disk, l.path) : Does(Drops({p}))
  BY <1>1 DEF ClearOne
<1>3. disk' = [q \in DOMAIN disk \ {p} |-> disk[q]] /\ work' = work
  BY <1>2, LeavesIs DEF Does, Drops, Present, ClearOne, requestVars
<1>4. p \in Below(all, l.path)
  BY <1>2 DEF Below, Clearing
<1>5. DOMAIN disk' = DOMAIN disk \ {p} /\ disk' = [q \in DOMAIN disk' |-> all[q]]
  BY <1>1, <1>3
<1> QED
  BY <1>3, <1>4, <1>5 DEF Clearing

\* A directory that has been cleared goes, unless the path led through what was in it.
LEMMA ClearEndWhole ==
  ASSUME Working, NEW r \in Requests, ClearEnd(r), answer'[r] = 204,
         NEW all, NEW b, IsTree(all, b),
         Clearing(all, Locate(all, req[r].path, FALSE), disk, work[r])
  PROVE  disk' = AfterRemove(all, req[r].path)
<1>0. PICK path \in Seq(Names) : path = req[r].path
  BY AskedIs
<1> DEFINE l == Locate(all, path, FALSE)
           m == Locate(disk, path, FALSE)
           call == Rmdir(path)
<1>1. Takes(call, path)
  BY RmdirTakes DEF Working
<1>2. /\ Removed(r, IF call.error = "NotFound" THEN Leaves(disk, data) ELSE call)
      /\ \A p \in Inside(r) : disk[p].inode \notin work[r].old
  BY <1>0 DEF ClearEnd
<1>3. Clearing(all, l, disk, work[r])
  BY <1>0
<1>4. l.error = "ok" /\ l.path \in DOMAIN all /\ DOMAIN disk \subseteq DOMAIN all
  BY <1>3 DEF Clearing
<1>5. /\ l.path \in DOMAIN disk /\ Inside(r) = Below(disk, l.path)
      /\ \A q \in DOMAIN disk : disk[q] = all[q]
  <2> HIDE DEF l
  <2> QED
    BY SMTT(40), <1>3, InsideIs
<1>6. disk = Emptied(all, l.path)
  <2> HIDE DEF l
  <2>1. \A q \in Below(disk, l.path) : disk[q].inode \notin work[r].old
    BY <1>2, <1>5
  <2> QED
    BY <1>3, <2>1, ClearedIs
<1>7. LeadsThroughIt(all, path, l) <=> m # l
  <2>1. LeadsThroughIt(all, path, l) <=> Locate(Emptied(all, l.path), path, FALSE) # l
    BY DEF LeadsThroughIt
  <2> HIDE DEF l
  <2> QED
    BY <1>6, <2>1
<1>8. AfterRemove(all, path) =
        [q \in {q \in DOMAIN all : ~Under(q, l.path) \/ (q = l.path /\ m # l)} |-> all[q]]
  <2>1. AfterRemove(all, path) =
          [q \in {q \in DOMAIN all : \/ l.error # "ok"
                                     \/ ~Under(q, l.path)
                                     \/ q = l.path /\ LeadsThroughIt(all, path, l)} |-> all[q]]
    BY DEF AfterRemove
  <2> HIDE DEF l, m
  <2> QED
    BY <1>4, <1>7, <2>1
<1>9. l.path \in Seq(Names) /\ Under(l.path, l.path)
  <2> HIDE DEF l
  <2>1. l.path \in Seq(Names)
    BY <1>4, TreeIs
  <2> QED
    BY <2>1, LenProperties, UnderIs
<1>10. DOMAIN disk = DOMAIN all \ Below(all, l.path)
  <2> HIDE DEF l
  <2> QED
    BY <1>6 DEF Emptied
<1>11. CASE call.error = "NotFound"
  <2>1. disk' = disk /\ Gone(disk, path)
    BY <1>1, <1>2, <1>11, LeavesIs DEF Removed, Does, Takes
  <2>2. m # l
    <3>1. ~(m.error = "ok" /\ m.path \in DOMAIN disk)
      BY <2>1 DEF Gone, Entry
    <3> HIDE DEF m, l
    <3> QED
      BY <1>4, <1>5, <3>1
  <2>3. {q \in DOMAIN all : ~Under(q, l.path) \/ (q = l.path /\ m # l)} =
          DOMAIN all \ Below(all, l.path)
    <3> HIDE DEF m, l
    <3> QED
      BY <2>2, <1>9 DEF Below
  <2> HIDE DEF l, m
  <2> QED
    BY <1>0, <1>6, <1>8, <2>1, <2>3 DEF Emptied
<1>12. CASE call.error # "NotFound"
  <2>1. call.error = "ok" /\ disk' = call.disk
    <3>1. Removed(r, call)
      BY <1>2, <1>12
    <3>2. DOMAIN answer = Requests
      BY DEF Working
    <3>3. Forgives(r, call.error) \/ StatusOf(call.error) = 204
      BY <3>1, <3>2 DEF Removed, Ends
    <3> QED
      BY <1>12, <3>1, <3>3, DoneIs DEF Removed, Does, Forgives
  <2>2. m.error = "ok" /\ m.path \in Present /\ call.disk = [q \in Present \ {m.path} |-> disk[q]]
    BY <1>1, <2>1 DEF Takes
  <2>3. m = l
    <3> DEFINE f == FALSE
    <3>1. Locate(disk, path, f).error = "ok" /\ Locate(disk, path, f).path \in DOMAIN disk
      BY <2>2 DEF Present
    <3>2. Linked(all) /\ Linked(disk)
      BY TreeIs DEF Working
    <3> HIDE DEF f
    <3>3. Locate(all, path, f) = Locate(disk, path, f)
      BY <1>4, <1>5, <3>1, <3>2, LocateOnMore
    <3> QED
      BY <3>3 DEF f
  <2>4. {q \in DOMAIN all : ~Under(q, l.path) \/ (q = l.path /\ m # l)} = Present \ {m.path}
    <3> HIDE DEF m, l
    <3> QED
      BY <2>3, <1>9, <1>10 DEF Below, Present
  <2>5. call.disk = [q \in Present \ {m.path} |-> all[q]]
    <3> HIDE DEF m, l
    <3> QED
      BY <1>5, <2>2 DEF Present
  <2> HIDE DEF l, m
  <2> QED
    BY <1>0, <1>8, <2>1, <2>4, <2>5
<1> QED
  BY <1>11, <1>12


\* A request that removes is in one of the calls of a removal.
LEMMA RemovalSteps ==
  ASSUME Working, NEW r \in Requests, req[r].op = "remove", Step(r)
  PROVE  \/ Probe(r) \/ RemoveOne(r) \/ RemoveAll(r)
         \/ ClearOne(r) \/ ClearBlocked(r) \/ ClearEnd(r)
<1>1. pc[r] \in {"start", "probe", "unlink", "rmdir", "removeall", "clear", "done"}
  <2>1. pc[r] \in Stages("remove")
    BY DEF Working
  <2>2. Stages("remove") = {"start", "probe", "done"} \cup {"unlink", "rmdir", "removeall", "clear"}
    BY SMTT(40), FirstCallIs DEF Stages
  <2> QED
    BY <2>1, <2>2
<1>2. ~(Make(r) \/ MoveTo(r) \/ Temp(r) \/ Open(r) \/ Write(r) \/ Patch(r) \/ OpenOld(r))
  BY ZenonT(60), <1>1 DEF Make, MoveTo, Temp, Open, Write, Patch, OpenOld
<1>3. ~(SetLen(r) \/ Look(r) \/ CopyPop(r) \/ CopyOpen(r) \/ Transfer(r) \/ CopyMake(r) \/ CopyRead(r))
  BY ZenonT(60), <1>1 DEF SetLen, Look, CopyPop, CopyOpen, Transfer, CopyMake, CopyRead
<1>4. ~WalkDir(r)
  BY <1>1 DEF WalkDir
<1> QED
  BY <1>2, <1>3, <1>4 DEF Step

\* The calls of a removal that are not the last one, and what they change.
LEMMA RemovalGoesOn ==
  ASSUME Working, NEW r \in Requests, req[r].op = "remove", Step(r)
  PROVE  \/ pc'[r] = "done" /\ (Probe(r) \/ RemoveOne(r) \/ RemoveAll(r))
         \/ pc'[r] = "done" /\ ClearEnd(r)
         \/ pc'[r] = "done" /\ answer'[r] # 204
         \/ pc'[r] \in {"unlink", "rmdir", "removeall"} /\ UNCHANGED disk /\ pc[r] = "probe"
         \/ pc'[r] = "clear" /\ RemoveAll(r)
         \/ pc'[r] = "clear" /\ pc[r] = "clear" /\ ClearOne(r)
<1>0. r \in DOMAIN pc /\ r \in DOMAIN answer
  BY DEF Working
<1>1. ASSUME NEW call, Removed(r, call) PROVE pc'[r] = "done"
  BY <1>0, <1>1 DEF Removed, Ends
<1>2. CASE Probe(r)
  <2> DEFINE l == Lstat(req[r].path)
  <2>1. CASE l.error # "ok"
    <3>1. Removed(r, Fails(l.error))
      BY <1>2, <2>1 DEF Probe
    <3> QED
      BY <1>1, <1>2, <3>1
  <2>2. CASE l.error = "ok"
    <3>1. /\ Goes(r, CASE Kind(l.path) = "dir" /\ req[r].recursive -> "removeall"
                      [] Kind(l.path) = "dir" /\ ~req[r].recursive -> "rmdir"
                      [] OTHER -> "unlink")
          /\ disk' = disk /\ pc[r] = "probe"
      BY <1>2, <2>2 DEF Probe, diskVars
    <3>2. \E to \in {"removeall", "rmdir", "unlink"} : Goes(r, to)
      <4> HIDE DEF l
      <4> QED
        BY <3>1
    <3>3. pc'[r] \in {"removeall", "rmdir", "unlink"}
      BY <1>0, <3>2 DEF Goes
    <3> QED
      BY <3>1, <3>3
  <2> QED
    BY <2>1, <2>2
<1>3. CASE RemoveOne(r)
  <2>1. Removed(r, Unlink(req[r].path)) \/ Removed(r, Rmdir(req[r].path))
    BY <1>3 DEF RemoveOne
  <2> QED
    BY <1>1, <1>3, <2>1
<1>4. CASE RemoveAll(r)
  <2> DEFINE l == Lstat(req[r].path)
  <2>1. CASE l.error = "ok" /\ Kind(l.path) = "dir"
    <3>1. Goes(r, "clear")
      BY <1>4, <2>1 DEF RemoveAll
    <3>2. pc'[r] = "clear"
      BY <1>0, <3>1 DEF Goes
    <3> QED
      BY <1>4, <3>2
  <2>2. CASE ~(l.error = "ok" /\ Kind(l.path) = "dir")
    <3>1. Removed(r, Fails("NotADirectory")) \/ Removed(r, Unlink(req[r].path))
      BY <1>4, <2>2 DEF RemoveAll
    <3> QED
      BY <1>1, <1>4, <3>1
  <2> QED
    BY <2>1, <2>2
<1>5. CASE ClearOne(r)
  BY <1>5 DEF ClearOne, requestVars
<1>6. CASE ClearBlocked(r)
  <2>1. Removed(r, Fails("NotEmpty"))
    BY <1>6 DEF ClearBlocked
  <2>2. Fails("NotEmpty").error = "NotEmpty" /\ StatusOf("NotEmpty") # 204
    BY FailsIs, DoneIs
  <2>3. answer'[r] # 204
    BY <1>0, <2>1, <2>2 DEF Removed, Ends, Forgives
  <2> QED
    BY <1>1, <2>1, <2>3
<1>7. CASE ClearEnd(r)
  <2>1. \E call : Removed(r, call)
    BY <1>7 DEF ClearEnd
  <2> QED
    BY <1>1, <1>7, <2>1
<1> QED
  BY <1>2, <1>3, <1>4, <1>5, <1>6, <1>7, RemovalSteps

\* A removal that is answered 204 has seen its target gone.
LEMMA RemovalSeesItGone ==
  ASSUME Working, NEW r \in Requests, req[r].op = "remove", Step(r),
         pc'[r] = "done", answer'[r] = 204
  PROVE  Gone(disk', req[r].path)
<1>1. CASE Probe(r) \/ RemoveOne(r) \/ RemoveAll(r)
  <2>1. PICK call : Takes(call, req[r].path) /\ Removed(r, call)
    BY <1>1, ProbeAnswers
  <2> QED
    BY <2>1, RemovedIs
<1>2. CASE ClearEnd(r)
  BY <1>2, ClearEndGone
<1> QED
  BY <1>1, <1>2, RemovalGoesOn

\* A recursive removal begins with all that is in its directory.
LEMMA RemoveAllClears ==
  ASSUME Working, NEW r \in Requests, RemoveAll(r), pc'[r] = "clear"
  PROVE  Clearing(disk, Locate(disk, req[r].path, FALSE), disk', work'[r])
<1>0. PICK path \in Seq(Names) : path = req[r].path
  BY AskedIs
<1>1. /\ r \in DOMAIN pc /\ r \in DOMAIN work /\ DOMAIN work[r] = DOMAIN Idle
      /\ IsTree(disk, data)
  BY DEF Working, Fields
<1> DEFINE l == Lstat(path)
<1>2. l.error = "ok" /\ Kind(l.path) = "dir"
  <2> SUFFICES ASSUME ~(l.error = "ok" /\ Kind(l.path) = "dir") PROVE FALSE
    OBVIOUS
  <2>1. Removed(r, Fails("NotADirectory")) \/ Removed(r, Unlink(path))
    BY <1>0 DEF RemoveAll
  <2>2. pc'[r] = "done"
    BY <1>1, <2>1 DEF Removed, Ends
  <2> QED
    BY <2>2
<1>3. /\ disk' = disk
      /\ work' = [work EXCEPT ![r] = [work[r] EXCEPT !.inodes = <<disk[l.path].inode>>,
                                        !.old = {disk[p].inode : p \in Below(disk, l.path)}]]
  BY <1>0, <1>2 DEF RemoveAll, Holds, diskVars
<1>4. l = Locate(disk, path, FALSE) /\ l.path \in Present
  BY <1>1, <1>2, EntryIs DEF Lstat
<1> HIDE DEF l
<1>5. /\ work'[r].inodes = <<disk[l.path].inode>>
      /\ work'[r].old = {disk[p].inode : p \in Below(disk, l.path)}
  BY ZenonT(60), <1>1, <1>3 DEF Idle
<1>6. disk[l.path].kind = "dir"
  BY <1>2, <1>4 DEF Kind
<1>7. disk = [p \in DOMAIN disk |-> disk[p]]
  BY <1>1 DEF IsTree
<1>8. Clearing(disk, l, disk, work'[r])
  <2>1. l.error = "ok" /\ l.path \in DOMAIN disk
    BY <1>2, <1>4 DEF Present
  <2>2. work'[r].inodes[1] = disk[l.path].inode
    BY <1>5
  <2>3. DOMAIN disk \subseteq DOMAIN disk /\ DOMAIN disk \ Below(disk, l.path) \subseteq DOMAIN disk
    OBVIOUS
  <2> QED
    BY Zenon, <1>5, <1>6, <1>7, <2>1, <2>2, <2>3 DEF Clearing
<1> QED
  BY <1>0, <1>3, <1>4, <1>8

\* A removal that nobody disturbs goes on, and takes what it was to take.
LEMMA RemovalWorks ==
  ASSUME Working, NEW r \in Requests, req[r].op = "remove", Step(r),
         NEW found, IsTree(found.disk, found.data),
         RemoveWork(pc[r], req[r], found, disk, work[r])
  PROVE  /\ RemoveWork(pc'[r], req[r], found, disk', work'[r])
         /\ pc'[r] = "done" /\ answer'[r] = 204 => disk' = AfterRemove(found.disk, req[r].path)
<1>1. CASE pc'[r] = "done" /\ (Probe(r) \/ RemoveOne(r) \/ RemoveAll(r))
  <2>1. disk = found.disk
    BY <1>1 DEF RemoveWork, Probe, RemoveOne, RemoveAll
  <2>2. PICK call : Takes(call, req[r].path) /\ Removed(r, call)
    BY <1>1, ProbeAnswers
  <2>3. answer'[r] = 204 => disk' = AfterRemove(disk, req[r].path)
    BY <2>2, RemovedIs
  <2> QED
    BY <1>1, <2>1, <2>3 DEF RemoveWork
<1>2. CASE pc'[r] = "done" /\ ClearEnd(r)
  <2>1. Clearing(found.disk, Locate(found.disk, req[r].path, FALSE), disk, work[r])
    BY <1>2 DEF RemoveWork, ClearEnd
  <2>2. ASSUME answer'[r] = 204 PROVE disk' = AfterRemove(found.disk, req[r].path)
    <3> DEFINE all == found.disk
               b == found.data
    <3>1. IsTree(all, b) /\ Clearing(all, Locate(all, req[r].path, FALSE), disk, work[r])
      BY <2>1
    <3>2. ClearEnd(r) /\ answer'[r] = 204
      BY <1>2, <2>2
    <3> HIDE DEF all, b
    <3>3. disk' = AfterRemove(all, req[r].path)
      BY ZenonT(150), <3>1, <3>2, ClearEndWhole
    <3> QED
      BY <3>3 DEF all
  <2> QED
    BY <1>2, <2>2 DEF RemoveWork
<1>3. CASE pc'[r] = "done" /\ answer'[r] # 204
  BY <1>3 DEF RemoveWork
<1>4. CASE pc'[r] \in {"unlink", "rmdir", "removeall"} /\ UNCHANGED disk /\ pc[r] = "probe"
  BY <1>4 DEF RemoveWork
<1>5. CASE pc'[r] = "clear" /\ RemoveAll(r)
  <2>1. disk = found.disk
    BY <1>5 DEF RemoveWork, RemoveAll
  <2>2. Clearing(disk, Locate(disk, req[r].path, FALSE), disk', work'[r])
    BY <1>5, RemoveAllClears
  <2> QED
    BY <1>5, <2>1, <2>2 DEF RemoveWork
<1>6. CASE pc'[r] = "clear" /\ pc[r] = "clear" /\ ClearOne(r)
  <2> DEFINE l == Locate(found.disk, req[r].path, FALSE)
  <2>1. Clearing(found.disk, l, disk, work[r])
    BY <1>6 DEF RemoveWork
  <2>2. Clearing(found.disk, l, disk', work'[r])
    <3> HIDE DEF l
    <3> QED
      BY <1>6, <2>1, ClearOneClears
  <2> QED
    BY <1>6, <2>2 DEF RemoveWork
<1> QED
  BY <1>1, <1>2, <1>3, <1>4, <1>5, <1>6, RemovalGoesOn


\* A request that patches is in one of the calls of a patch.
LEMMA PatchSteps ==
  ASSUME Working, NEW r \in Requests, req[r].op = "patch", Step(r)
  PROVE  Patch(r) \/ Open(r) \/ Write(r)
<1>1. pc[r] \in {"start", "patch", "open", "write", "done"}
  <2>1. pc[r] \in Stages("patch")
    BY DEF Working
  <2>2. Stages("patch") = {"start", "patch", "done"} \cup {"open", "write"}
    BY FirstCallIs DEF Stages
  <2> QED
    BY <2>1, <2>2
<1>2. ~(Make(r) \/ MoveTo(r) \/ Temp(r) \/ OpenOld(r) \/ WalkDir(r))
  BY <1>1 DEF Make, MoveTo, Temp, OpenOld, WalkDir
<1>3. ~(SetLen(r) \/ Look(r) \/ CopyPop(r) \/ CopyOpen(r) \/ Transfer(r) \/ CopyMake(r) \/ CopyRead(r))
  BY ZenonT(60), <1>1 DEF SetLen, Look, CopyPop, CopyOpen, Transfer, CopyMake, CopyRead
<1>4. ~(Probe(r) \/ RemoveOne(r) \/ RemoveAll(r) \/ ClearOne(r) \/ ClearBlocked(r) \/ ClearEnd(r))
  BY <1>1 DEF Probe, RemoveOne, RemoveAll, ClearOne, ClearBlocked, ClearEnd
<1> QED
  BY <1>2, <1>3, <1>4 DEF Step

\* The file a patch fits is on the disk.
LEMMA FitsIs ==
  ASSUME NEW q, NEW found, Fits(q, found), IsTree(found.disk, found.data), q.path \in Seq(Names)
  PROVE  /\ Locate(found.disk, q.path, TRUE).error = "ok"
         /\ Locate(found.disk, q.path, TRUE) = Entry(found.disk, q.path, TRUE)
         /\ Locate(found.disk, q.path, TRUE).path \in DOMAIN found.disk
         /\ found.disk[Locate(found.disk, q.path, TRUE).path].kind # "dir"
         /\ FileIn(found, q.path) = found.disk[Locate(found.disk, q.path, TRUE).path].inode
         /\ FileIn(found, q.path) \in DOMAIN found.data
<1> DEFINE l == Locate(found.disk, q.path, TRUE)
           e == Entry(found.disk, q.path, TRUE)
<1>1. e.error = "ok" /\ found.disk[e.path].kind # "dir"
  BY DEF Fits
<1>2. e = IF l.error = "ok" /\ l.path \notin DOMAIN found.disk THEN Error("NotFound") ELSE l
  BY DEF Entry
<1>3. FileIn(found, q.path) = found.disk[e.path].inode
  BY DEF FileIn
<1> HIDE DEF l, e
<1>4. e = l /\ l.path \in DOMAIN found.disk
  BY <1>1, <1>2 DEF Error
<1>5. found.disk[l.path].inode \in 1..Len(found.data) /\ DOMAIN found.data = 1..Len(found.data)
  <2> DEFINE d == found.disk
             b == found.data
  <2>1. IsTree(d, b) /\ l.path \in DOMAIN d
    BY <1>4
  <2> HIDE DEF d, b
  <2>2. d[l.path].inode \in 1..Len(b) /\ DOMAIN b = 1..Len(b)
    BY <2>1, TreeIs
  <2> QED
    BY <2>2 DEF d, b
<1>6. /\ l.error = "ok" /\ l = e /\ l.path \in DOMAIN found.disk
      /\ found.disk[l.path].kind # "dir" /\ FileIn(found, q.path) = found.disk[l.path].inode
      /\ FileIn(found, q.path) \in DOMAIN found.data
  BY <1>1, <1>3, <1>4, <1>5
<1> QED
  BY <1>6 DEF l, e

\* A file that is there and opened to be written is emptied.
LEMMA OpenEmpties ==
  ASSUME NEW path, Locate(disk, path, TRUE).error = "ok",
         Locate(disk, path, TRUE).path \in Present,
         disk[Locate(disk, path, TRUE).path].kind # "dir"
  PROVE  OpenEmpty(path) =
           Leaves(disk, [data EXCEPT ![disk[Locate(disk, path, TRUE).path].inode] = <<>>])
<1> DEFINE l == Locate(disk, path, TRUE)
           checks == <<Resolved(l), <<Kind(l.path) = "dir", "IsADirectory">>>>
           call == IF l.path \in Present
                   THEN Leaves(disk, [data EXCEPT ![disk[l.path].inode] = <<>>])
                   ELSE Adds(l.path, File(NextInode))
<1>1. OpenEmpty(path) = Unless(checks, call)
  BY DEF OpenEmpty
<1>2. l.error = "ok" /\ Kind(l.path) # "dir" /\ l.path \in Present
  BY DEF Kind
<1> HIDE DEF l
<1>3. DOMAIN checks = 1..2 /\ ~checks[1][1] /\ ~checks[2][1]
  <2>1. DOMAIN checks = 1..2
    OBVIOUS
  <2>2. checks[1][1] <=> l.error # "ok"
    BY DEF Resolved
  <2>3. checks[2][1] <=> Kind(l.path) = "dir"
    OBVIOUS
  <2> HIDE DEF checks
  <2> QED
    BY <1>2, <2>1, <2>2, <2>3
<1> HIDE DEF checks
<1>4. {k \in DOMAIN checks : checks[k][1]} = {}
  BY <1>3
<1>5. Unless(checks, call) = call
  <2> HIDE DEF call
  <2> QED
    BY <1>4 DEF Unless
<1> QED
  BY <1>1, <1>2, <1>5 DEF l

\* What is written to an empty file is all that is in it.
LEMMA OverlayNothing ==
  ASSUME NEW S, NEW new \in Seq(S)
  PROVE  Overlay(new, <<>>) = new
<1>1. Len(new) \in Nat
  BY LenProperties
<1>2. SubSeq(<<>>, Len(new) + 1, Len(<<>>)) = <<>>
  BY <1>1
<1>3. new \o <<>> = new
  BY ConcatEmptySeq
<1> QED
  BY <1>2, <1>3 DEF Overlay


\* A patch that nobody disturbs goes on, and makes of its text what it was to make.
LEMMA PatchWorks ==
  ASSUME Working, NEW r \in Requests, req[r].op = "patch", Step(r),
         NEW found, IsTree(found.disk, found.data),
         PatchWork(pc[r], req[r], found, disk, data, work[r])
  PROVE  /\ PatchWork(pc'[r], req[r], found, disk', data', work'[r])
         /\ pc'[r] = "done" /\ answer'[r] = 204 =>
              /\ Fits(req[r], found) /\ disk' = found.disk
              /\ data' = [found.data EXCEPT ![FileIn(found, req[r].path)] = req[r].content]
<1>0. /\ r \in DOMAIN pc /\ r \in DOMAIN answer /\ r \in DOMAIN work /\ DOMAIN work[r] = DOMAIN Idle
      /\ IsTree(disk, data) /\ req[r].path \in Seq(Names) /\ req[r].content \in Seq(0..NotText)
  BY AskedIs DEF Working, Fields
<1>a. PICK q : q = req[r]
  OBVIOUS
<1> DEFINE file == FileIn(found, q.path)
<1>1. CASE Patch(r)
  <2> DEFINE l == Stat(q.path)
             bytes == data[disk[l.path].inode]
             error == CASE l.error # "ok" -> l.error
                        [] l.error = "ok" /\ Kind(l.path) = "dir" -> "IsADirectory"
                        [] l.error = "ok" /\ ~IsText(bytes) -> "NotUtf8"
                        [] l.error = "ok" /\ bytes # q.old -> "Invalid"
                        [] OTHER -> "ok"
  <2>1. disk = found.disk /\ data = found.data /\ disk' = disk /\ data' = data
    BY SMTT(40), <1>1 DEF Patch, PatchWork, Finds, diskVars
  <2>2. Finds(r, error, Goes(r, "open") /\ UNCHANGED <<work, result>>)
    BY ZenonT(60), <1>1, <1>a DEF Patch
  <2>3. CASE error = "ok"
    <3>1. l.error = "ok" /\ Kind(l.path) # "dir" /\ bytes = q.old
      <4> HIDE DEF l, bytes
      <4> QED
        BY <2>3
    <3>2. l.path \in DOMAIN disk
      BY <1>0, <1>a, <3>1, EntryIs DEF Stat, Present
    <3>3. disk[l.path].kind # "dir"
      BY <3>1, <3>2 DEF Kind, Present
    <3>4. Fits(q, found)
      BY <2>1, <3>1, <3>3 DEF Fits, FileIn, Stat
    <3>5. pc'[r] = "open"
      <4> HIDE DEF error
      <4> QED
        BY <1>0, <2>2, <2>3 DEF Finds, Goes
    <3> QED
      BY <1>a, <2>1, <3>4, <3>5 DEF PatchWork
  <2>4. CASE error # "ok"
    <3> HIDE DEF error
    <3>1. pc'[r] = "done" /\ answer'[r] # 204
      BY <1>0, <2>2, <2>4, DoneIs DEF Finds, Ends
    <3> QED
      BY <3>1 DEF PatchWork
  <2> QED
    BY SMTT(40), <2>3, <2>4
<1>2. CASE Open(r)
  <2>1. disk = found.disk /\ data = found.data /\ Fits(q, found)
    BY <1>2, <1>a DEF Open, PatchWork
  <2> DEFINE l == Locate(disk, q.path, TRUE)
  <2>2. /\ l.error = "ok" /\ l.path \in Present /\ disk[l.path].kind # "dir"
        /\ file = disk[l.path].inode
    <3>1. IsTree(found.disk, found.data) /\ q.path \in Seq(Names)
      BY <1>0, <1>a
    <3>2. /\ Locate(found.disk, q.path, TRUE).error = "ok"
          /\ Locate(found.disk, q.path, TRUE).path \in DOMAIN found.disk
          /\ found.disk[Locate(found.disk, q.path, TRUE).path].kind # "dir"
          /\ FileIn(found, q.path) = found.disk[Locate(found.disk, q.path, TRUE).path].inode
      BY <2>1, <3>1, FitsIs
    <3> QED
      BY <2>1, <3>2 DEF Present
  <2>3. OpenEmpty(q.path) = Leaves(disk, [data EXCEPT ![file] = <<>>])
    BY <2>2, OpenEmpties
  <2> HIDE DEF file
  <2> DEFINE call == OpenEmpty(q.path)
  <2>4. call.error = "ok" /\ call.disk = disk /\ call.data = [data EXCEPT ![file] = <<>>]
    BY <2>3, LeavesIs
  <2>5. Then(r, call, Goes(r, "write") /\ Holds(r, [work[r] EXCEPT !.inodes =
                                             <<call.disk[l.path].inode>>]))
    BY <1>2, <1>a DEF Open
  <2> HIDE DEF call, l
  <2>6. /\ disk' = disk /\ data' = [data EXCEPT ![file] = <<>>]
        /\ pc' = [pc EXCEPT ![r] = "write"]
        /\ work' = [work EXCEPT ![r] = [work[r] EXCEPT !.inodes = <<file>>]]
    BY <2>2, <2>4, <2>5 DEF Then, Does, Goes, Holds
  <2>7. pc'[r] = "write" /\ work'[r].inodes[1] = file
    BY <1>0, <2>6 DEF Idle
  <2> QED
    BY <1>a, <2>1, <2>6, <2>7 DEF PatchWork, file
<1>3. CASE Write(r)
  <2>1. /\ disk = found.disk /\ Fits(q, found) /\ work[r].inodes[1] = file
        /\ data = [found.data EXCEPT ![file] = <<>>]
    BY <1>3, <1>a DEF Write, PatchWork
  <2>2. file \in DOMAIN found.data
    BY <1>0, <1>a, <2>1, FitsIs
  <2> HIDE DEF file
  <2>3. data[file] = <<>>
    BY <2>1, <2>2
  <2>4. data' = [data EXCEPT ![file] = Overlay(q.content, data[file])] /\ disk' = disk
    BY <1>3, <1>a, <2>1 DEF Write
  <2>5. Overlay(q.content, <<>>) = q.content
    BY <1>0, <1>a, OverlayNothing
  <2>6. data' = [data EXCEPT ![file] = q.content]
    BY <2>3, <2>4, <2>5
  <2>7. data' = [found.data EXCEPT ![file] = q.content]
    BY <2>1, <2>6
  <2>8. pc'[r] = "done"
    BY <1>0, <1>3 DEF Write, Ends
  <2> QED
    BY <1>a, <2>1, <2>4, <2>7, <2>8 DEF PatchWork, file
<1> QED
  BY <1>1, <1>2, <1>3, PatchSteps

-----------------------------------------------------------------------------
(* A copy that nobody disturbs only adds to the disk it found, away from   *)
(* its source, so that what leads anywhere in the source or at the         *)
(* destination leads there until the end.                                  *)

\* Where a path that is followed leads is no link.
LEMMA LocateNoLink ==
  ASSUME NEW d, NEW b, IsTree(d, b), NEW follow, IsTrue(follow), NEW path \in Seq(Names),
         Locate(d, path, follow).error = "ok"
  PROVE  KindAt(d, Locate(d, path, follow).path) # "link"
<1>0. Linked(d) /\ KindAt(d, Root) = "dir"
  BY TreeIs
<1>a. PICK W : LocatesBy(d, follow, W)
  BY <1>0, LocateIs
<1>1. /\ Walks(d, follow, W)
      /\ Locate(d, path, follow) = IF Len(path) > MaxLen THEN Error("TooLong")
                                   ELSE W[Way(Root, path, MaxHops)]
  BY <1>a DEF LocatesBy
<1> DEFINE G == {w \in Ways : KindAt(d, w.at) # "link" /\ W[w].error = "ok" =>
                               KindAt(d, W[w].path) # "link"}
           S == Stops(d, follow)
           on == Onward(d, follow)
<1>2. S \subseteq G
  <2> SUFFICES ASSUME NEW w \in S, KindAt(d, w.at) # "link", W[w].error = "ok"
               PROVE  KindAt(d, W[w].path) # "link"
    BY DEF Stops
  <2>1. w \in Ways
    BY DEF Stops
  <2>2. w.rest = <<>>
    <3>1. w.rest # <<>> => W[w].error # "ok"
      BY <1>1, <2>1, WalkStep
    <3> QED
      BY <3>1
  <2>3. W[w] = Ok(w.at)
    BY <1>1, <2>1, <2>2, WalkStep
  <2> QED
    BY <2>3 DEF Ok
<1>3. ASSUME NEW w \in Ways \ S, on[w] \in G PROVE w \in G
  <2>1. W[w] = W[on[w]]
    BY <1>1, WalkStep
  <2>2. /\ MeetsLink(d, follow, w) =>
              on[w] = Way(Root, d[Ahead(w)].target \o Tail(w.rest), w.hops - 1)
        /\ ~MeetsLink(d, follow, w) => on[w] = Way(Ahead(w), Tail(w.rest), w.hops)
    BY <1>0, OnwardIs
  <2>3. KindAt(d, on[w].at) # "link"
    <3>1. CASE MeetsLink(d, follow, w)
      BY <1>0, <2>2, <3>1, WayIs
    <3>2. CASE ~MeetsLink(d, follow, w)
      <4>1. on[w].at = Ahead(w)
        BY <2>2, <3>2, WayIs
      <4>2. KindAt(d, Ahead(w)) # "link"
        BY <3>2 DEF MeetsLink, IsTrue
      <4> QED
        BY <4>1, <4>2
    <3> QED
      BY <3>1, <3>2
  <2> HIDE DEF on, S
  <2> QED
    BY <1>3, <2>1, <2>3
<1>4. Ways \subseteq G
  <2> HIDE DEF G
  <2> QED
    BY <1>0, <1>2, <1>3, WalkGoesDown, DescentInduction
<1> DEFINE w == Way(Root, path, MaxHops)
<1>5. w \in Ways /\ w.at = Root
  BY EmptySeq, FileTreeAssumption DEF Way, Ways, Root
<1>6. ~(Len(path) > MaxLen) /\ Locate(d, path, follow) = W[w]
  BY <1>1 DEF Error
<1>7. KindAt(d, w.at) # "link"
  BY <1>0, <1>5
<1> HIDE DEF w
<1> QED
  BY <1>4, <1>5, <1>6, <1>7

\* What is under p is under what p is under.
LEMMA UnderUnder ==
  ASSUME NEW S, NEW p \in Seq(S), NEW q \in Seq(S), NEW s \in Seq(S),
         Under(q, p), Under(p, s)
  PROVE  Under(q, s)
<1>1. Len(p) \in Nat /\ Len(q) \in Nat /\ Len(s) \in Nat
  BY LenProperties
<1>2. /\ Len(p) <= Len(q) /\ \A i \in 1..Len(p) : q[i] = p[i]
      /\ Len(s) <= Len(p) /\ \A i \in 1..Len(s) : p[i] = s[i]
  BY UnderIs
<1>3. Len(s) <= Len(q) /\ \A i \in 1..Len(s) : q[i] = s[i]
  BY <1>1, <1>2
<1> QED
  BY <1>3, UnderIs

\* Of two places that something is under one is under the other.
LEMMA UnderBoth ==
  ASSUME NEW S, NEW p \in Seq(S), NEW q \in Seq(S), NEW s \in Seq(S),
         Under(q, p), Under(q, s)
  PROVE  Under(p, s) \/ Under(s, p)
<1>1. Len(p) \in Nat /\ Len(q) \in Nat /\ Len(s) \in Nat
  BY LenProperties
<1>2. /\ Len(p) <= Len(q) /\ \A i \in 1..Len(p) : q[i] = p[i]
      /\ Len(s) <= Len(q) /\ \A i \in 1..Len(s) : q[i] = s[i]
  BY UnderIs
<1>3. CASE Len(s) <= Len(p)
  <2>1. \A i \in 1..Len(s) : p[i] = s[i]
    BY <1>1, <1>2, <1>3
  <2> QED
    BY <1>3, <2>1, UnderIs
<1>4. CASE Len(p) <= Len(s)
  <2>1. \A i \in 1..Len(p) : s[i] = p[i]
    BY <1>1, <1>2, <1>4
  <2> QED
    BY <1>4, <2>1, UnderIs
<1> QED
  BY <1>1, <1>3, <1>4

\* A place is under itself and under what is before its last name.
LEMMA UnderSelf ==
  ASSUME NEW S, NEW p \in Seq(S)
  PROVE  Under(p, p) /\ \A n \in S : Under(Append(p, n), p)
<1>1. Under(p, p)
  BY UnderIs
<1>2. ASSUME NEW n \in S PROVE Under(Append(p, n), p)
  <2>1. /\ Append(p, n) \in Seq(S) /\ Append(p, n) # Root /\ Front(Append(p, n)) = p
    BY FrontAppend
  <2> QED
    BY <1>1, <2>1, UnderFront
<1> QED
  BY <1>1, <1>2

\* A walk goes on where there are no links, as far as it is to go.
LEMMA WalkStraight ==
  ASSUME NEW d, Linked(d), NEW follow, NEW W, Walks(d, follow, W), NEW w \in Ways,
         W[w].error = "ok", \A q \in DOMAIN d : Under(q, w.at) => d[q].kind # "link",
         \A q \in DOMAIN d : q \in Seq(Names)
  PROVE  W[w] = Ok(w.at \o w.rest)
<1> DEFINE Clear(p) == \A q \in DOMAIN d : Under(q, p) => d[q].kind # "link"
           G == {v \in Ways : W[v].error = "ok" /\ Clear(v.at) => W[v] = Ok(v.at \o v.rest)}
           S == Stops(d, follow)
           on == Onward(d, follow)
<1>2. S \subseteq G
  <2> SUFFICES ASSUME NEW v \in S, W[v].error = "ok" PROVE W[v] = Ok(v.at \o v.rest)
    BY DEF Stops
  <2>1. v \in Ways
    BY DEF Stops
  <2>2. v.rest = <<>>
    <3>1. v.rest # <<>> => W[v].error # "ok"
      BY <2>1, WalkStep
    <3> QED
      BY <3>1
  <2>3. W[v] = Ok(v.at) /\ v.at \in Seq(Names)
    BY <2>1, <2>2, WalkStep, WayTypes
  <2> QED
    BY <2>2, <2>3, ConcatEmptySeq
<1>3. ASSUME NEW v \in Ways \ S, on[v] \in G PROVE v \in G
  <2> SUFFICES ASSUME W[v].error = "ok", Clear(v.at) PROVE W[v] = Ok(v.at \o v.rest)
    OBVIOUS
  <2>1. W[v] = W[on[v]]
    BY WalkStep
  <2>2. /\ v.rest # <<>>
        /\ ~MeetsLink(d, follow, v) => on[v] = Way(Ahead(v), Tail(v.rest), v.hops)
    BY OnwardIs
  <2>3. /\ v.at \in Seq(Names) /\ Ahead(v) \in Seq(Names) /\ Ahead(v) = Append(v.at, Head(v.rest))
        /\ Head(v.rest) \in Names /\ v.rest \in Seq(Names)
    BY <2>2, WayTypes DEF Ahead
  <2>4. Under(Ahead(v), v.at) /\ Ahead(v) \o Tail(v.rest) = v.at \o v.rest
    <3> DEFINE p == v.at
               s == v.rest
    <3>1. p \in Seq(Names) /\ s \in Seq(Names) /\ s # <<>> /\ Ahead(v) = Append(p, Head(s)) /\ Head(s) \in Names
      BY <2>2, <2>3
    <3> HIDE DEF p, s
    <3>2. Under(Append(p, Head(s)), p) /\ Append(p, Head(s)) \o Tail(s) = p \o s
      BY SMTT(40), <3>1, UnderSelf, HeadMoves
    <3> QED
      BY <3>1, <3>2 DEF p, s
  <2>5. ~MeetsLink(d, follow, v)
    BY <2>4 DEF MeetsLink, KindAt
  <2>6. on[v].at = Ahead(v) /\ on[v].rest = Tail(v.rest)
    BY <2>2, <2>5, WayIs
  <2>7. Clear(Ahead(v))
    BY <2>3, <2>4, UnderUnder
  <2> HIDE DEF on, S, Clear
  <2>8. W[on[v]] = Ok(on[v].at \o on[v].rest)
    BY <1>3, <2>1, <2>6, <2>7
  <2> QED
    BY <2>1, <2>4, <2>6, <2>8
<1>4. Ways \subseteq G
  <2> HIDE DEF G
  <2> QED
    BY <1>2, <1>3, WalkGoesDown, DescentInduction
<1> QED
  BY <1>4

\* Disk d has what disk e had, and more directories and files.
More(e, d) ==
  /\ DOMAIN e \subseteq DOMAIN d /\ \A p \in DOMAIN e : d[p] = e[p]
  /\ \A p \in DOMAIN d \ DOMAIN e : d[p].kind # "link"

\* Where a path leads on a disk, it leads there on one that has more.
LEMMA LocateStays ==
  ASSUME NEW d, NEW e, Linked(d), Linked(e), More(e, d), NEW follow, NEW path \in Seq(Names),
         Locate(e, path, follow).error = "ok"
  PROVE  Locate(d, path, follow) = Locate(e, path, follow)
<1>1. PICK W : LocatesBy(e, follow, W)
  BY LocateIs
<1>2. PICK V : LocatesBy(d, follow, V)
  BY LocateIs
<1>3. /\ Walks(e, follow, W)
      /\ Locate(e, path, follow) = IF Len(path) > MaxLen THEN Error("TooLong")
                                   ELSE W[Way(Root, path, MaxHops)]
  BY <1>1 DEF LocatesBy
<1>4. /\ Walks(d, follow, V)
      /\ Locate(d, path, follow) = IF Len(path) > MaxLen THEN Error("TooLong")
                                   ELSE V[Way(Root, path, MaxHops)]
  BY <1>2 DEF LocatesBy
<1> DEFINE G == {w \in Ways : W[w].error = "ok" => V[w] = W[w]}
           S == Stops(e, follow)
           on == Onward(e, follow)
<1>5. S \subseteq G
  <2> SUFFICES ASSUME NEW w \in S, W[w].error = "ok" PROVE V[w] = W[w]
    BY DEF Stops
  <2>1. w \in Ways
    BY DEF Stops
  <2>2. w.rest = <<>>
    <3>1. w \in Stops(e, follow) /\ w.rest # <<>> => W[w].error # "ok"
      BY <1>3, <2>1, WalkStep
    <3> QED
      BY <3>1
  <2>3. W[w] = Ok(w.at)
    BY <1>3, <2>1, <2>2, WalkStep
  <2>4. V[w] = Ok(w.at)
    BY <1>4, <2>1, <2>2, WalkStep
  <2> QED
    BY <2>3, <2>4
<1>6. ASSUME NEW w \in Ways \ S, on[w] \in G PROVE w \in G
  <2> SUFFICES ASSUME W[w].error = "ok" PROVE V[w] = W[w]
    OBVIOUS
  <2>1. W[w] = W[on[w]]
    BY <1>3, WalkStep
  <2>2. V[on[w]] = W[w]
    BY <1>6, <2>1
  <2>3. /\ w.rest # <<>> /\ on[w] \in Ways
        /\ MeetsLink(e, follow, w) => w.hops \in 1..MaxHops /\ Ahead(w) \in DOMAIN e
        /\ ~MeetsLink(e, follow, w) =>
             (Len(w.rest) # 1 => KindAt(e, Ahead(w)) \notin {"none", "file", "link"})
    BY OnwardIs
  <2>4. CASE Ahead(w) \in DOMAIN e
    <3>1. Ahead(w) \in DOMAIN d /\ d[Ahead(w)] = e[Ahead(w)] /\ KindAt(d, Ahead(w)) = KindAt(e, Ahead(w))
      BY <2>4 DEF KindAt, More
    <3>2. MeetsLink(d, follow, w) <=> MeetsLink(e, follow, w)
      BY <3>1 DEF MeetsLink
    <3>3. w \notin Stops(d, follow)
      <4>2. /\ w.rest # <<>> /\ ~(MeetsLink(e, follow, w) /\ w.hops = 0)
            /\ ~(Len(w.rest) # 1 /\ KindAt(e, Ahead(w)) \in {"none", "file"})
        BY DEF Stops
      <4> QED
        BY <3>1, <3>2, <4>2 DEF Stops
    <3>4. Onward(d, follow)[w] = on[w]
      BY <3>1, <3>2, <3>3 DEF Onward
    <3> QED
      BY <1>4, <2>2, <3>3, <3>4, WalkStep
  <2>5. CASE Ahead(w) \notin DOMAIN e
    <3>1. Len(w.rest) = 1 /\ ~MeetsLink(e, follow, w)
      BY <2>3, <2>5 DEF KindAt
    <3>2. ~MeetsLink(d, follow, w)
      BY <2>5 DEF MeetsLink, KindAt, More
    <3>3. w \notin Stops(d, follow)
      BY <2>3, <3>1, <3>2 DEF Stops
    <3>4. Onward(d, follow)[w] = on[w]
      BY <3>1, <3>2, <3>3 DEF Onward
    <3> QED
      BY <1>4, <2>2, <3>3, <3>4, WalkStep
  <2> QED
    BY <2>4, <2>5
<1>7. Ways \subseteq G
  <2> HIDE DEF G
  <2> QED
    BY <1>5, <1>6, WalkGoesDown, DescentInduction
<1> DEFINE w == Way(Root, path, MaxHops)
<1>8. w \in Ways
  BY EmptySeq, FileTreeAssumption DEF Way, Ways, Root
<1>9. ~(Len(path) > MaxLen) /\ Locate(e, path, follow) = W[w]
  BY <1>3 DEF Error
<1>10. V[w] = W[w]
  BY <1>7, <1>8, <1>9
<1> HIDE DEF w
<1> QED
  BY <1>4, <1>9, <1>10 DEF w

\* Where a path leads on a disk that has more, it led before, or it is under what is new.
LEMMA LocateGrown ==
  ASSUME NEW d, NEW b, IsTree(d, b), NEW e, NEW a, IsTree(e, a), More(e, d),
         NEW follow, NEW path \in Seq(Names), Locate(d, path, follow).error = "ok"
  PROVE  \/ Locate(e, path, follow) = Locate(d, path, follow)
         \/ \E p \in DOMAIN d \ DOMAIN e : Under(Locate(d, path, follow).path, p)
<1>0. /\ Linked(d) /\ Linked(e) /\ KindAt(e, Root) = "dir"
      /\ \A p \in DOMAIN d : p \in Seq(Names)
  BY TreeIs
<1>1. PICK W : LocatesBy(e, follow, W)
  BY <1>0, LocateIs
<1>2. PICK V : LocatesBy(d, follow, V)
  BY <1>0, LocateIs
<1>3. /\ Walks(e, follow, W)
      /\ Locate(e, path, follow) = IF Len(path) > MaxLen THEN Error("TooLong")
                                   ELSE W[Way(Root, path, MaxHops)]
  BY <1>1 DEF LocatesBy
<1>4. /\ Walks(d, follow, V)
      /\ Locate(d, path, follow) = IF Len(path) > MaxLen THEN Error("TooLong")
                                   ELSE V[Way(Root, path, MaxHops)]
  BY <1>2 DEF LocatesBy
<1> DEFINE Anew(q) == \E p \in DOMAIN d \ DOMAIN e : Under(q, p)
           G == {w \in Ways : V[w].error = "ok" => W[w] = V[w] \/ Anew(V[w].path)}
           S == Stops(d, follow)
           on == Onward(d, follow)
<1>5. S \subseteq G
  <2> SUFFICES ASSUME NEW w \in S, V[w].error = "ok" PROVE W[w] = V[w]
    BY DEF Stops
  <2>1. w \in Ways
    BY DEF Stops
  <2>2. w.rest = <<>>
    <3>1. w.rest # <<>> => V[w].error # "ok"
      BY <1>4, <2>1, WalkStep
    <3> QED
      BY <3>1
  <2>3. V[w] = Ok(w.at)
    BY <1>4, <2>1, <2>2, WalkStep
  <2>4. W[w] = Ok(w.at)
    BY <1>3, <2>1, <2>2, WalkStep
  <2> QED
    BY <2>3, <2>4
<1>6. ASSUME NEW w \in Ways \ S, on[w] \in G PROVE w \in G
  <2> SUFFICES ASSUME V[w].error = "ok" PROVE W[w] = V[w] \/ Anew(V[w].path)
    OBVIOUS
  <2>1. V[w] = V[on[w]]
    BY <1>4, WalkStep
  <2>2. W[on[w]] = V[w] \/ Anew(V[w].path)
    <3> HIDE DEF on, Anew
    <3> QED
      BY <1>6, <2>1
  <2>3. /\ w.rest # <<>> /\ on[w] \in Ways
        /\ MeetsLink(d, follow, w) => w.hops \in 1..MaxHops /\ Ahead(w) \in DOMAIN d
        /\ ~MeetsLink(d, follow, w) =>
             /\ on[w] = Way(Ahead(w), Tail(w.rest), w.hops)
             /\ (Len(w.rest) # 1 => KindAt(d, Ahead(w)) \notin {"none", "file", "link"})
    BY <1>0, OnwardIs
  <2>4. CASE Ahead(w) \in DOMAIN e
    <3>1. Ahead(w) \in DOMAIN d /\ d[Ahead(w)] = e[Ahead(w)] /\ KindAt(d, Ahead(w)) = KindAt(e, Ahead(w))
      BY <2>4 DEF KindAt, More
    <3>2. MeetsLink(d, follow, w) <=> MeetsLink(e, follow, w)
      BY <3>1 DEF MeetsLink
    <3>3. w \notin Stops(e, follow)
      <4>2. /\ w.rest # <<>> /\ ~(MeetsLink(d, follow, w) /\ w.hops = 0)
            /\ ~(Len(w.rest) # 1 /\ KindAt(d, Ahead(w)) \in {"none", "file"})
        BY DEF Stops
      <4> QED
        BY <3>1, <3>2, <4>2 DEF Stops
    <3>4. Onward(e, follow)[w] = on[w]
      BY <3>1, <3>2, <3>3 DEF Onward
    <3>5. W[w] = W[on[w]]
      BY <1>3, <3>3, <3>4, WalkStep
    <3> HIDE DEF on, Anew
    <3> QED
      BY <2>2, <3>5
  <2>5. CASE Ahead(w) \in DOMAIN d \ DOMAIN e
    <3>0. /\ Ahead(w) \in Seq(Names) /\ Tail(w.rest) \in Seq(Names) /\ w.hops \in 0..MaxHops
      BY <2>3, WayTypes
    <3>1. ~MeetsLink(d, follow, w)
      BY <2>5 DEF MeetsLink, KindAt, More
    <3>2. on[w].at = Ahead(w) /\ on[w].rest = Tail(w.rest)
      BY <2>3, <3>1, WayIs
    <3>3. ASSUME NEW q \in DOMAIN d, Under(q, Ahead(w)) PROVE d[q].kind # "link"
      <4>1. q \notin DOMAIN e
        BY <2>5, <3>0, <3>3, FreeBelow
      <4> QED
        BY <4>1 DEF More
    <3>4. V[on[w]] = Ok(on[w].at \o on[w].rest)
      <4> HIDE DEF on
      <4> QED
        BY <1>0, <1>4, <2>1, <2>3, <3>2, <3>3, WalkStraight
    <3>5. V[w].path = Ahead(w) \o Tail(w.rest)
      BY <2>1, <3>2, <3>4 DEF Ok
    <3>6. Under(Ahead(w) \o Tail(w.rest), Ahead(w))
      BY <3>0, ConcatIs
    <3> QED
      BY <2>5, <3>5, <3>6
  <2>6. CASE Ahead(w) \notin DOMAIN d
    <3>1. Len(w.rest) = 1 /\ ~MeetsLink(d, follow, w)
      BY <2>3, <2>6 DEF KindAt
    <3>2. ~MeetsLink(e, follow, w)
      BY <2>6 DEF MeetsLink, KindAt, More
    <3>3. w \notin Stops(e, follow)
      BY <2>3, <3>1, <3>2 DEF Stops
    <3>4. Onward(e, follow)[w] = on[w]
      BY <3>1, <3>2, <3>3 DEF Onward
    <3>5. W[w] = W[on[w]]
      BY <1>3, <3>3, <3>4, WalkStep
    <3> HIDE DEF on, Anew
    <3> QED
      BY <2>2, <3>5
  <2> QED
    BY <2>4, <2>5, <2>6
<1>7. Ways \subseteq G
  <2> HIDE DEF G
  <2> QED
    BY <1>0, <1>5, <1>6, WalkGoesDown, DescentInduction
<1> DEFINE w == Way(Root, path, MaxHops)
<1>8. w \in Ways
  BY EmptySeq, FileTreeAssumption DEF Way, Ways, Root
<1>9. ~(Len(path) > MaxLen) /\ Locate(d, path, follow) = V[w]
  BY <1>4 DEF Error
<1> HIDE DEF w
<1>10. W[w] = V[w] \/ Anew(V[w].path)
  BY <1>7, <1>8, <1>9
<1>11. Locate(e, path, follow) = W[w]
  BY <1>3, <1>9 DEF w
<1> QED
  BY <1>9, <1>10, <1>11

\* A walk that has more before it.
LEMMA LongerIs ==
  ASSUME NEW w \in Ways, NEW s \in Seq(Names), s # <<>>,
         NEW e, e = Way(w.at, w.rest \o s, w.hops)
  PROVE  /\ e \in Ways /\ e.at = w.at /\ e.rest = w.rest \o s /\ e.rest # <<>> /\ e.hops = w.hops
         /\ w.rest # <<>> => /\ Ahead(e) = Ahead(w) /\ Tail(e.rest) = Tail(w.rest) \o s
                             /\ Len(e.rest) # 1
<1>1. w.at \in Seq(Names) /\ w.rest \in Seq(Names) /\ w.hops \in 0..MaxHops /\ Len(w.rest) \in Nat
  BY WayTypes
<1>2. Len(s) \in Nat /\ Len(s) # 0
  BY LenProperties, EmptyIs
<1> DEFINE long == w.rest \o s
<1>3. long \in Seq(Names) /\ long # <<>>
  <2>1. long # Root /\ long \in Seq(Names)
    BY <1>1, ConcatIs
  <2> QED
    BY <2>1 DEF Root
<1>4. e = Way(w.at, long, w.hops)
  OBVIOUS
<1> HIDE DEF long
<1>5. e \in Ways /\ e.at = w.at /\ e.rest = long /\ e.hops = w.hops
  BY <1>1, <1>3, <1>4, WayIs
<1>6. ASSUME w.rest # <<>>
      PROVE  Head(long) = Head(w.rest) /\ Tail(long) = Tail(w.rest) \o s /\ Len(long) # 1
  <2>1. Len(long) = Len(w.rest) + Len(s) /\ Head(long) = Head(w.rest)
        /\ Tail(long) = Tail(w.rest) \o s
    BY ZenonT(60), <1>1, <1>6, ConcatHead DEF long
  <2>2. Len(w.rest) # 0
    BY <1>1, <1>6, EmptyIs
  <2> QED
    BY <1>1, <1>2, <2>1, <2>2
<1>7. w.rest # <<>> => Ahead(e) = Ahead(w)
  BY <1>5, <1>6 DEF Ahead
<1> QED
  BY <1>3, <1>5, <1>6, <1>7 DEF long

\* A walk that goes on behind a part of its way has come to a directory there.
LEMMA WalkBreaks ==
  ASSUME NEW d, Linked(d), KindAt(d, Root) = "dir",
         \A p \in DOMAIN d : d[p].kind \in {"dir", "file", "link"},
         NEW follow, NEW first, IsTrue(first),
         NEW W, Walks(d, first, W), NEW V, Walks(d, follow, V),
         NEW s \in Seq(Names), s # <<>>,
         NEW v \in Ways, KindAt(d, v.at) = "dir",
         V[Way(v.at, v.rest \o s, v.hops)].error = "ok"
  PROVE  W[v].error = "ok" /\ KindAt(d, W[v].path) = "dir"
<1> DEFINE Longer(w) == Way(w.at, w.rest \o s, w.hops)
           G == {w \in Ways : KindAt(d, w.at) = "dir" /\ V[Longer(w)].error = "ok" =>
                                W[w].error = "ok" /\ KindAt(d, W[w].path) = "dir"}
           S == Stops(d, first)
           on == Onward(d, first)
<1>0. KindAt(d, Root) = "dir"
  OBVIOUS
<1>a. ASSUME NEW w \in Ways
      PROVE  /\ Longer(w) \in Ways /\ Longer(w).at = w.at /\ Longer(w).hops = w.hops
             /\ Longer(w).rest = w.rest \o s /\ Longer(w).rest # <<>>
             /\ w.rest # <<>> => /\ Ahead(Longer(w)) = Ahead(w)
                                 /\ Tail(Longer(w).rest) = Tail(w.rest) \o s
                                 /\ Len(Longer(w).rest) # 1
  <2> DEFINE e == Longer(w)
  <2>1. e = Way(w.at, w.rest \o s, w.hops)
    OBVIOUS
  <2> HIDE DEF e
  <2>2. /\ e \in Ways /\ e.at = w.at /\ e.rest = w.rest \o s /\ e.rest # <<>> /\ e.hops = w.hops
        /\ w.rest # <<>> => /\ Ahead(e) = Ahead(w) /\ Tail(e.rest) = Tail(w.rest) \o s
                            /\ Len(e.rest) # 1
    BY <2>1, LongerIs
  <2> QED
    BY <2>2 DEF e
<1> HIDE DEF Longer
<1>1. S \subseteq G
  <2> SUFFICES ASSUME NEW w \in S, KindAt(d, w.at) = "dir", V[Longer(w)].error = "ok"
               PROVE  W[w].error = "ok" /\ KindAt(d, W[w].path) = "dir"
    BY DEF Stops
  <2>1. w \in Ways
    BY DEF Stops
  <2>2. w.rest = <<>>
    <3> SUFFICES ASSUME w.rest # <<>> PROVE FALSE
      OBVIOUS
    <3>1. /\ Ahead(Longer(w)) = Ahead(w) /\ Len(Longer(w).rest) # 1 /\ Longer(w).hops = w.hops
          /\ Longer(w) \in Ways /\ Longer(w).rest # <<>>
      BY <1>a, <2>1
    <3>2. \/ MeetsLink(d, first, w) /\ w.hops = 0
          \/ KindAt(d, Ahead(w)) \in {"none", "file"}
      BY DEF Stops
    <3>3. Longer(w) \in Stops(d, follow)
      <4>1. CASE MeetsLink(d, first, w) /\ w.hops = 0
        <5>1. MeetsLink(d, follow, Longer(w)) /\ Longer(w).hops = 0
          BY <3>1, <4>1 DEF MeetsLink
        <5> QED
          BY <3>1, <5>1 DEF Stops
      <4>2. CASE KindAt(d, Ahead(w)) \in {"none", "file"}
        BY <3>1, <4>2 DEF Stops
      <4> QED
        BY <3>2, <4>1, <4>2
    <3> QED
      BY <3>1, <3>3, WalkStep
  <2>3. W[w] = Ok(w.at)
    BY <2>1, <2>2, WalkStep
  <2> QED
    BY <2>3 DEF Ok
<1>2. ASSUME NEW w \in Ways \ S, on[w] \in G PROVE w \in G
  <2> SUFFICES ASSUME KindAt(d, w.at) = "dir", V[Longer(w)].error = "ok"
               PROVE  W[w].error = "ok" /\ KindAt(d, W[w].path) = "dir"
    OBVIOUS
  <2>1. W[w] = W[on[w]]
    BY WalkStep
  <2>2. /\ w.rest # <<>> /\ on[w] \in Ways
        /\ MeetsLink(d, first, w) =>
             /\ w.hops \in 1..MaxHops /\ Ahead(w) \in DOMAIN d /\ d[Ahead(w)].target \in Seq(Names)
             /\ on[w] = Way(Root, d[Ahead(w)].target \o Tail(w.rest), w.hops - 1)
        /\ ~MeetsLink(d, first, w) => on[w] = Way(Ahead(w), Tail(w.rest), w.hops)
    BY OnwardIs
  <2>3. /\ Ahead(Longer(w)) = Ahead(w) /\ Len(Longer(w).rest) # 1 /\ Longer(w).hops = w.hops
        /\ Longer(w) \in Ways /\ Longer(w).rest # <<>>
        /\ Tail(Longer(w).rest) = Tail(w.rest) \o s
        /\ Tail(w.rest) \in Seq(Names) /\ w.hops \in 0..MaxHops
    BY <1>a, <2>2, WayTypes
  <2>4. /\ Longer(w) \notin Stops(d, follow)
        /\ V[Longer(w)] = V[Onward(d, follow)[Longer(w)]]
    <3>1. Longer(w) \notin Stops(d, follow)
      BY <2>3, WalkStep
    <3> QED
      BY <2>3, <3>1, WalkStep
  <2>5. /\ MeetsLink(d, follow, Longer(w)) <=> KindAt(d, Ahead(w)) = "link"
        /\ MeetsLink(d, first, w) <=> KindAt(d, Ahead(w)) = "link"
    BY <2>3 DEF MeetsLink, IsTrue
  <2>6. Onward(d, follow)[Longer(w)] = Longer(on[w]) /\ KindAt(d, on[w].at) = "dir"
    <3>1. CASE MeetsLink(d, first, w)
      <4> DEFINE t == d[Ahead(w)].target
                 u == Tail(w.rest)
                 further == t \o u
                 less == w.hops - 1
      <4>1. on[w] = Way(Root, further, less) /\ t \in Seq(Names) /\ u \in Seq(Names)
        BY <2>2, <2>3, <3>1
      <4>2. Onward(d, follow)[Longer(w)] = Way(Root, t \o (u \o s), less)
        BY <2>3, <2>4, <2>5, <3>1 DEF Onward
      <4> HIDE DEF less, on
      <4>3. t \o (u \o s) = further \o s
        <5> HIDE DEF t, u
        <5> QED
          BY SMTT(40), <4>1, ConcatAssociative
      <4> HIDE DEF further, t, u
      <4>4. on[w].at = Root /\ on[w].rest = further /\ on[w].hops = less
        BY <4>1, WayIs
      <4> QED
        BY <1>0, <4>2, <4>3, <4>4 DEF Longer
    <3>2. CASE ~MeetsLink(d, first, w)
      <4>1. on[w].at = Ahead(w) /\ on[w].rest = Tail(w.rest) /\ on[w].hops = w.hops
        BY <2>2, <3>2, WayIs
      <4>2. Onward(d, follow)[Longer(w)] = Way(Ahead(w), Tail(w.rest) \o s, w.hops)
        <5> QED
          BY <2>3, <2>4, <2>5, <3>2 DEF Onward
      <4>3. KindAt(d, Ahead(w)) = "dir"
        <5>1. ~(KindAt(d, Ahead(w)) \in {"none", "file"})
          <6> QED
            BY <2>3, <2>4 DEF Stops
        <5> QED
          BY <2>5, <3>2, <5>1 DEF KindAt
      <4> QED
        BY <4>1, <4>2, <4>3 DEF Longer
    <3> QED
      BY <3>1, <3>2
  <2> HIDE DEF on, S
  <2> QED
    BY <1>2, <2>1, <2>4, <2>6
<1>3. Ways \subseteq G
  <2> HIDE DEF G
  <2> QED
    BY <1>1, <1>2, WalkGoesDown, DescentInduction
<1> QED
  BY <1>3 DEF Longer

\* The part of a path before its last names leads to a directory if the path leads somewhere.
LEMMA LocateBehind ==
  ASSUME NEW d, NEW b, IsTree(d, b), NEW follow, NEW first, IsTrue(first),
         NEW path \in Seq(Names), NEW s \in Seq(Names), s # <<>>,
         Locate(d, path \o s, follow).error = "ok"
  PROVE  /\ Locate(d, path, first).error = "ok"
         /\ KindAt(d, Locate(d, path, first).path) = "dir"
         /\ \E h \in 0..MaxHops : \E V :
              /\ Walks(d, follow, V)
              /\ Locate(d, path \o s, follow) = V[Way(Locate(d, path, first).path, s, h)]
<1>0. /\ Linked(d) /\ KindAt(d, Root) = "dir"
      /\ \A p \in DOMAIN d : d[p].kind \in {"dir", "file", "link"}
  BY TreeIs
<1>a. PICK W : LocatesBy(d, first, W)
  BY <1>0, LocateIs
<1>b. PICK V : LocatesBy(d, follow, V)
  BY <1>0, LocateIs
<1>1. Walks(d, first, W) /\ Walks(d, follow, V) /\ W \in [Ways -> Outcomes]
  BY <1>a, <1>b DEF LocatesBy
<1>2. /\ path \o s \in Seq(Names) /\ Len(path) \in Nat /\ Len(s) \in Nat
      /\ Len(path \o s) = Len(path) + Len(s) /\ MaxLen \in Nat /\ MaxHops \in Nat
      /\ Root \in Seq(Names)
  BY LenProperties, ConcatProperties, EmptySeq, FileTreeAssumption DEF Root
<1>3. Locate(d, path \o s, follow) = IF Len(path \o s) > MaxLen THEN Error("TooLong")
                                     ELSE V[Way(Root, path \o s, MaxHops)]
  BY <1>b, <1>2 DEF LocatesBy
<1>4. ~(Len(path \o s) > MaxLen) /\ Locate(d, path \o s, follow) = V[Way(Root, path \o s, MaxHops)]
  BY <1>3 DEF Error
<1>5. Locate(d, path, first) = W[Way(Root, path, MaxHops)]
  <2>1. ~(Len(path) > MaxLen)
    BY <1>2, <1>4
  <2> QED
    BY <1>a, <2>1 DEF LocatesBy
<1> DEFINE v == Way(Root, path, MaxHops)
<1>6. v \in Ways /\ v.at = Root /\ v.rest = path /\ v.hops = MaxHops
  BY SMTT(40), <1>2, WayIs
<1> HIDE DEF v
<1>7. V[Way(v.at, v.rest \o s, v.hops)].error = "ok" /\ KindAt(d, v.at) = "dir"
  BY <1>0, <1>4, <1>6
<1>8. W[v].error = "ok" /\ KindAt(d, W[v].path) = "dir"
  BY <1>0, <1>1, <1>6, <1>7, WalkBreaks
<1>9. W[v] = Ok(W[v].path)
  <2>1. W[v] \in Outcomes
    BY <1>1, <1>6
  <2> QED
    BY <1>8, <2>1 DEF Outcomes, Ok
<1>10. \E h \in 0..MaxHops : V[Way(v.at, v.rest \o s, v.hops)] = V[Way(W[v].path, s, h)]
  <2> DEFINE q == W[v].path
  <2>1. W[v] = Ok(q) /\ KindAt(d, q) = "dir"
    BY <1>8, <1>9
  <2> HIDE DEF q
  <2>2. \E h \in 0..MaxHops : V[Way(v.at, v.rest \o s, v.hops)] = V[Way(q, s, h)]
    BY <1>0, <1>1, <1>6, <2>1, WalkCompose
  <2> QED
    BY <2>2 DEF q
<1>11. Locate(d, path, first) = W[v]
  BY <1>5 DEF v
<1> QED
  BY <1>1, <1>4, <1>6, <1>8, <1>10, <1>11

\* An entry a path leads to, on any disk.
LEMMA EntryOf ==
  ASSUME NEW d, NEW b, IsTree(d, b), NEW follow, IsTrue(follow), NEW path \in Seq(Names)
  PROVE  /\ Entry(d, path, follow).error = "ok" =>
              /\ Entry(d, path, follow) = Locate(d, path, follow)
              /\ Entry(d, path, follow) = Ok(Entry(d, path, follow).path)
              /\ Entry(d, path, follow).path \in DOMAIN d
              /\ Entry(d, path, follow).path \in Seq(Names)
              /\ d[Entry(d, path, follow).path].kind \in {"dir", "file"}
              /\ Len(path) <= MaxLen
         /\ Entry(d, path, follow).error = "ok" <=>
              Locate(d, path, follow).error = "ok" /\ Locate(d, path, follow).path \in DOMAIN d
<1> DEFINE l == Locate(d, path, follow)
           e == Entry(d, path, follow)
<1>1. e = IF l.error = "ok" /\ l.path \notin DOMAIN d THEN Error("NotFound") ELSE l
  BY DEF Entry
<1>2. /\ l = [error |-> l.error, path |-> l.path] /\ l.path \in Seq(Names)
      /\ l.error # "ok" \/ Len(path) <= MaxLen
  BY TreeIs, LocateTypes
<1>3. ASSUME l.error = "ok", l.path \in DOMAIN d
      PROVE  d[l.path].kind \in {"dir", "file"}
  <2>1. KindAt(d, l.path) # "link" /\ d[l.path].kind \in {"dir", "file", "link"}
        /\ KindAt(d, l.path) = d[l.path].kind
    BY <1>3, LocateNoLink, TreeIs
  <2> QED
    BY <2>1
<1> HIDE DEF l, e
<1>4. e.error = "ok" <=> l.error = "ok" /\ l.path \in DOMAIN d
  BY <1>1 DEF Error
<1>5. ASSUME e.error = "ok"
      PROVE  /\ e = l /\ e = Ok(e.path) /\ e.path \in DOMAIN d /\ e.path \in Seq(Names)
             /\ d[e.path].kind \in {"dir", "file"} /\ Len(path) <= MaxLen
  <2>1. e = l
    BY <1>1, <1>4, <1>5
  <2>2. l = Ok(l.path)
    BY <1>2, <1>4, <1>5 DEF Ok
  <2> QED
    BY <1>2, <1>3, <1>4, <1>5, <2>1, <2>2
<1> QED
  BY <1>4, <1>5 DEF l, e

\* The part of a path before its last names leads to a directory if the path leads to an entry.
LEMMA EntryBehind ==
  ASSUME NEW d, NEW b, IsTree(d, b), NEW follow, IsTrue(follow),
         NEW path \in Seq(Names), NEW s \in Seq(Names), s # <<>>,
         Entry(d, path \o s, follow).error = "ok"
  PROVE  /\ Entry(d, path, follow).error = "ok"
         /\ d[Entry(d, path, follow).path].kind = "dir"
<1>1. path \o s \in Seq(Names)
  BY ConcatProperties
<1>2. Locate(d, path \o s, follow).error = "ok"
  BY <1>1, EntryOf
<1>3. Locate(d, path, follow).error = "ok" /\ KindAt(d, Locate(d, path, follow).path) = "dir"
  BY <1>2, LocateBehind
<1>4. Locate(d, path, follow).path \in DOMAIN d
  BY <1>3 DEF KindAt
<1>5. Entry(d, path, follow).error = "ok" /\ Entry(d, path, follow) = Locate(d, path, follow)
  BY <1>3, <1>4, EntryOf
<1> QED
  BY <1>3, <1>4, <1>5 DEF KindAt

\* The name a path goes on with is in the directory that the path before it leads to.
LEMMA EntryIn ==
  ASSUME NEW d, NEW b, IsTree(d, b), NEW follow, IsTrue(follow),
         NEW path \in Seq(Names), NEW n \in Names,
         Entry(d, path \o <<n>>, follow).error = "ok"
  PROVE  Append(Entry(d, path, follow).path, n) \in DOMAIN d
<1> DEFINE s == <<n>>
<1>1. s \in Seq(Names) /\ s # <<>> /\ Len(s) = 1 /\ Head(s) = n /\ Tail(s) = <<>>
  BY EmptySeq
<1> HIDE DEF s
<1>2. path \o s \in Seq(Names) /\ Entry(d, path \o s, follow).error = "ok"
  BY <1>1, ConcatProperties DEF s
<1>3. /\ Locate(d, path \o s, follow).error = "ok"
      /\ Locate(d, path \o s, follow).path \in DOMAIN d
  BY <1>2, EntryOf
<1>4. Entry(d, path, follow).error = "ok" /\ Entry(d, path, follow) = Locate(d, path, follow)
      /\ Entry(d, path, follow).path \in Seq(Names)
  BY <1>1, <1>2, EntryBehind, EntryOf
<1> DEFINE q == Entry(d, path, follow).path
<1>a. PICK h \in 0..MaxHops : \E V : /\ Walks(d, follow, V)
                                     /\ Locate(d, path \o s, follow) = V[Way(q, s, h)]
  BY <1>1, <1>3, <1>4, LocateBehind
<1>5. PICK V : Walks(d, follow, V) /\ Locate(d, path \o s, follow) = V[Way(q, s, h)]
  BY <1>a
<1>6. q \in Seq(Names)
  BY <1>4
<1> HIDE DEF q
<1> DEFINE u == Way(q, s, h)
<1>7. u \in Ways /\ u.at = q /\ u.rest = s /\ u.hops = h
  BY <1>1, <1>5, <1>6, WayIs
<1>8. V[u].error = "ok" /\ V[u].path \in DOMAIN d
  BY <1>3, <1>5
<1> HIDE DEF u
<1>9. Ahead(u) = Append(q, n)
  BY <1>1, <1>7 DEF Ahead
<1> SUFFICES ASSUME Append(q, n) \notin DOMAIN d PROVE FALSE
  BY DEF q
<1>10. ~MeetsLink(d, follow, u)
  BY <1>9 DEF MeetsLink, KindAt
<1>11. u \notin Stops(d, follow) /\ V[u] = V[Onward(d, follow)[u]]
  <2>1. u \notin Stops(d, follow)
    BY <1>1, <1>5, <1>7, <1>8, WalkStep
  <2> QED
    BY <1>5, <1>7, <2>1, WalkStep
<1>12. Onward(d, follow)[u] = Way(Append(q, n), <<>>, h)
  BY <1>1, <1>7, <1>9, <1>10, <1>11 DEF Onward
<1> DEFINE p == Append(q, n)
           none == <<>>
           t == Way(p, none, h)
<1>13. p \in Seq(Names) /\ none \in Seq(Names) /\ none = <<>>
  BY <1>6, FrontAppend, EmptySeq
<1>14. Onward(d, follow)[u] = t
  BY <1>12
<1> HIDE DEF p, none
<1>15. t \in Ways /\ t.at = p /\ t.rest = <<>>
  <2>1. h \in 0..MaxHops
    BY <1>5
  <2> QED
    BY <1>13, <2>1 DEF Way, Ways
<1> HIDE DEF t
<1>16. V[t] = Ok(p)
  BY <1>5, <1>15, WalkStep
<1>17. V[u].path = p
  BY <1>11, <1>14, <1>16 DEF Ok
<1> QED
  BY <1>8, <1>17 DEF p

\* The directories that are missing on the way to `path`, behind its first k names.
MakesAll(path, k, e, b) ==
  LET base == Stat(SubSeq(path, 1, k)).path
      names == SubSeq(path, k + 1, Len(path))
  IN  /\ Stat(SubSeq(path, 1, k)).error = "ok" /\ Kind(base) = "dir"
      /\ names # <<>> => Append(base, names[1]) \notin Present
      /\ Locate(disk, path, TRUE).error # "TooLong"
      /\ DOMAIN e = {base \o SubSeq(names, 1, n) : n \in 1..Len(names)}
      /\ e = [q \in DOMAIN e |-> Dir(NextInode + Len(q) - Len(base) - 1)]
      /\ b = [i \in 1..Len(names) |-> <<>>]

\* create_dir_all fails, or makes them.
LEMMA MakeAllIs ==
  ASSUME IsTree(disk, data), NEW path \in Seq(Names)
  PROVE  \/ \E error : MakeAll(path) = Fails(error) /\ error # "ok"
         \/ \E k \in 0..Len(path) : \E e, b :
              MakesAll(path, k, e, b) /\ MakeAll(path) = Leaves(Over(disk, e), data \o b)
<1> DEFINE Prefix(n) == SubSeq(path, 1, n)
           standing == {n \in 0..Len(path) : Stat(Prefix(n)).error = "ok"}
           k == Max(standing)
           base == Stat(Prefix(k)).path
           missing == {base \o SubSeq(path, k + 1, n) : n \in (k + 1)..Len(path)}
           error == Locate(disk, path, TRUE).error
           names == SubSeq(path, k + 1, Len(path))
           e == [q \in missing |-> Dir(NextInode + Len(q) - Len(base) - 1)]
           b == [i \in DOMAIN names |-> <<>>]
           checks == << <<error \in {"Loop", "TooLong"}, error>>,
                        <<k = Len(path) /\ Kind(base) # "dir", "AlreadyExists">>,
                        <<Kind(base) # "dir", "NotADirectory">>,
                        <<k < Len(path) /\ Append(base, path[k + 1]) \in Present, "AlreadyExists">> >>
           call == Leaves(Over(disk, e), data \o b)
<1>1. MakeAll(path) = Unless(checks, call)
  BY DEF MakeAll
<1>2. k \in 0..Len(path) /\ Stat(Prefix(k)).error = "ok"
  <2>1. Len(path) \in Nat /\ Prefix(0) = Root
    BY LenProperties, SubSeqEmpty DEF Root
  <2>2. 0 \in standing
    <3>1. 0 \in 0..Len(path)
      BY <2>1
    <3>2. Stat(Root).error = "ok"
      BY RootStands
    <3>3. Stat(Prefix(0)).error = "ok"
      BY <2>1, <3>2
    <3> HIDE DEF Prefix
    <3> QED
      BY <3>1, <3>3
  <2>3. standing \in SUBSET (0..Len(path)) /\ standing # {}
    BY <2>2
  <2>4. Max(standing) \in standing
    <3> HIDE DEF standing
    <3> QED
      BY <2>1, <2>3, GreatestOf
  <2> QED
    BY <2>4
<1>3. base \in Present
  <2> DEFINE p == Prefix(k)
  <2>1. p \in Seq(Names)
    <3> HIDE DEF k
    <3>1. Len(path) \in Nat /\ k \in Int /\ \A i \in 1..k : path[i] \in Names
      BY <1>2, LenProperties
    <3> QED
      BY <3>1, SubSeqProperties
  <2>2. Stat(p).error = "ok"
    BY <1>2
  <2> HIDE DEF p
  <2>3. Stat(p).path \in Present
    BY <2>1, <2>2, EntryIs DEF Stat
  <2> QED
    BY <2>3 DEF p
<1> HIDE DEF k, base
<1>4. /\ names \in Seq(Names) /\ Len(names) = Len(path) - k /\ DOMAIN names = 1..Len(names)
      /\ names # <<>> => k < Len(path) /\ names[1] = path[k + 1]
      /\ \A n \in 1..Len(names) : SubSeq(names, 1, n) = SubSeq(path, k + 1, k + n)
  <2> DEFINE s == names
  <2>1. s = SubSeq(path, k + 1, Len(path))
    OBVIOUS
  <2> HIDE DEF s
  <2>2. /\ s \in Seq(Names) /\ Len(s) = Len(path) - k /\ DOMAIN s = 1..Len(s)
        /\ s # <<>> => k < Len(path) /\ s[1] = path[k + 1]
        /\ \A n \in 1..Len(s) : SubSeq(s, 1, n) = SubSeq(path, k + 1, k + n)
    BY <1>2, <2>1, RestIs
  <2> QED
    BY <2>2 DEF s
<1> HIDE DEF error, names
<1>5. missing = {base \o SubSeq(names, 1, n) : n \in 1..Len(names)}
  <2>1. Len(path) \in Nat /\ k \in 0..Len(path)
    BY <1>2, LenProperties
  <2>2. ASSUME NEW m \in (k + 1)..Len(path)
        PROVE  \E n \in 1..Len(names) : SubSeq(path, k + 1, m) = SubSeq(names, 1, n)
    <3>1. m - k \in 1..Len(names) /\ k + (m - k) = m
      BY <1>4, <2>1
    <3> QED
      BY <1>4, <3>1
  <2>3. ASSUME NEW n \in 1..Len(names)
        PROVE  \E m \in (k + 1)..Len(path) : SubSeq(path, k + 1, m) = SubSeq(names, 1, n)
    <3>1. k + n \in (k + 1)..Len(path)
      BY <1>4, <2>1
    <3> QED
      BY <1>4, <3>1
  <2> QED
    BY <2>2, <2>3
<1>6. b = [i \in 1..Len(names) |-> <<>>]
  BY <1>4
<1>7. /\ DOMAIN checks = 1..4
      /\ (checks[1][1] <=> error \in {"Loop", "TooLong"}) /\ checks[1][2] = error
      /\ checks[2][2] = "AlreadyExists"
      /\ (checks[3][1] <=> Kind(base) # "dir") /\ checks[3][2] = "NotADirectory"
      /\ (checks[4][1] <=> k < Len(path) /\ Append(base, path[k + 1]) \in Present)
      /\ checks[4][2] = "AlreadyExists"
  <2>1. DOMAIN checks = 1..4
    OBVIOUS
  <2>2. (checks[1][1] <=> error \in {"Loop", "TooLong"}) /\ checks[1][2] = error
    OBVIOUS
  <2>3. checks[2][2] = "AlreadyExists"
    OBVIOUS
  <2>4. (checks[3][1] <=> Kind(base) # "dir") /\ checks[3][2] = "NotADirectory"
    OBVIOUS
  <2>5. /\ checks[4][1] <=> k < Len(path) /\ Append(base, path[k + 1]) \in Present
        /\ checks[4][2] = "AlreadyExists"
    OBVIOUS
  <2> HIDE DEF checks
  <2> QED
    BY <2>1, <2>2, <2>3, <2>4, <2>5
<1> HIDE DEF checks
<1>8. \A i \in 1..4 : checks[i][1] => checks[i][2] # "ok"
  BY <1>7
<1>9. ASSUME \A i \in 1..4 : ~checks[i][1]
      PROVE  /\ Kind(base) = "dir" /\ (names # <<>> => Append(base, names[1]) \notin Present)
             /\ error # "TooLong"
  <2>1. ~checks[1][1] /\ ~checks[3][1] /\ ~checks[4][1]
    BY <1>9
  <2> QED
    BY <1>4, <1>7, <2>1
<1>10. /\ DOMAIN e = missing
       /\ e = [q \in DOMAIN e |-> Dir(NextInode + Len(q) - Len(base) - 1)]
  OBVIOUS
<1> HIDE DEF missing, e, b
<1>11. CASE Unless(checks, call) = call /\ \A i \in 1..4 : ~checks[i][1]
  <2>1. MakesAll(path, k, e, b)
    BY <1>2, <1>5, <1>6, <1>9, <1>10, <1>11 DEF MakesAll, base, names, error
  <2>2. MakeAll(path) = Leaves(Over(disk, e), data \o b)
    BY <1>1, <1>11
  <2>3. k \in 0..Len(path)
    BY <1>2
  <2> HIDE DEF checks, call
  <2> QED
    BY Zenon, <2>1, <2>2, <2>3
<1>12. CASE \E x : Unless(checks, call) = Fails(x) /\ x # "ok"
  BY <1>1, <1>12
<1> HIDE DEF call
<1>13. \/ Unless(checks, call) = call /\ \A i \in 1..4 : ~checks[i][1]
       \/ \E x : Unless(checks, call) = Fails(x) /\ x # "ok"
  <2>1. DOMAIN checks = 1..4 /\ 4 \in Nat
    BY <1>7
  <2> QED
    BY ONLY <1>8, <2>1, UnlessIs
<1> QED
  BY <1>11, <1>12, <1>13

\* A path is its first names and the rest.
LEMMA PathParts ==
  ASSUME NEW path \in Seq(Names), NEW k \in 0..Len(path)
  PROVE  /\ SubSeq(path, 1, k) \in Seq(Names) /\ SubSeq(path, k + 1, Len(path)) \in Seq(Names)
         /\ path = SubSeq(path, 1, k) \o SubSeq(path, k + 1, Len(path))
         /\ Len(SubSeq(path, 1, k)) = k
<1> DEFINE front == SubSeq(path, 1, k)
<1>1. Len(path) \in Nat /\ k \in Int /\ k \in Nat /\ \A i \in 1..k : path[i] \in Names
  BY LenProperties
<1>2. front \in Seq(Names) /\ Len(front) = k /\ \A i \in 1..k : front[i] = path[i]
  BY <1>1, SubSeqProperties
<1> HIDE DEF front
<1>3. Under(path, front)
  BY <1>1, <1>2, UnderIs
<1>4. SubSeq(path, Len(front) + 1, Len(path)) \in Seq(Names)
      /\ path = front \o SubSeq(path, Len(front) + 1, Len(path))
  BY <1>2, <1>3, UnderIs
<1> QED
  BY <1>2, <1>4 DEF front

\* Where the missing directories are.
LEMMA MissingIs ==
  ASSUME NEW base \in Seq(Names), NEW names \in Seq(Names), NEW n \in 1..Len(names),
         NEW p, p = base \o SubSeq(names, 1, n)
  PROVE  /\ names # <<>> /\ names[1] \in Names /\ p \in Seq(Names) /\ Under(p, base)
         /\ Under(base \o names, p) /\ Under(p, Append(base, names[1]))
<1>1. Len(names) \in Nat /\ n \in 0..Len(names) /\ 1 \in 1..Len(names)
  BY LenProperties
<1> DEFINE x == SubSeq(names, 1, n)
           y == SubSeq(names, n + 1, Len(names))
           s == base \o x
<1>2. x \in Seq(Names) /\ y \in Seq(Names) /\ names = x \o y /\ Len(x) = n
  BY <1>1, PathParts
<1>3. x[1] = names[1]
  BY <1>1, SubSeqProperties
<1>4. p = s
  OBVIOUS
<1> HIDE DEF x, y
<1>5. x # <<>> /\ Head(x) = names[1] /\ names # <<>> /\ names[1] \in Names
  BY <1>1, <1>2, <1>3, EmptyIs
<1>6. s \in Seq(Names) /\ Under(s, base)
  BY ONLY base \in Seq(Names), <1>2, ConcatIs
<1>7. base \o names = s \o y
  BY ONLY base \in Seq(Names), <1>2, ConcatThree
<1>8. /\ Append(base, Head(x)) \in Seq(Names) /\ Tail(x) \in Seq(Names)
      /\ Append(base, Head(x)) \o Tail(x) = s
  BY ONLY SMTT(40), base \in Seq(Names), <1>2, <1>5, HeadMoves
<1> HIDE DEF s
<1>9. Under(base \o names, s)
  BY ONLY <1>2, <1>6, <1>7, ConcatIs
<1>10. Under(s, Append(base, names[1]))
  <2> DEFINE u == Append(base, Head(x))
  <2>1. u \in Seq(Names) /\ Tail(x) \in Seq(Names) /\ u \o Tail(x) = s
    BY <1>8
  <2> HIDE DEF u
  <2>2. Under(s, u)
    BY ONLY <2>1, ConcatIs
  <2> QED
    BY <1>5, <2>2 DEF u
<1> QED
  BY <1>4, <1>5, <1>6, <1>9, <1>10

\* An outcome that is fine.
LEMMA OkIs ==
  ASSUME NEW p
  PROVE  Ok(p).error = "ok" /\ Ok(p).path = p
BY DEF Ok

\* Where a path leads that is followed to its end, and the entry there.
Where(d, path) == Locate(d, path, TRUE)
There(d, path) == Entry(d, path, TRUE)

\* Where a path leads on a disk, it leads there on one that has more.
LEMMA WhereStays ==
  ASSUME NEW d, NEW e, Linked(d), Linked(e), More(e, d), NEW path \in Seq(Names),
         Where(e, path).error = "ok"
  PROVE  Where(d, path) = Where(e, path)
<1>1. PICK follow : IsTrue(follow)
  BY DEF IsTrue
<1>2. Locate(e, path, follow).error = "ok"
  BY <1>1 DEF Where, IsTrue
<1>3. Locate(d, path, follow) = Locate(e, path, follow)
  BY <1>2, LocateStays
<1> QED
  BY <1>1, <1>3 DEF Where, IsTrue

\* Where a path leads on a disk that has more, it led before, or it is under what is new.
LEMMA WhereGrown ==
  ASSUME NEW d, NEW b, IsTree(d, b), NEW e, NEW a, IsTree(e, a), More(e, d),
         NEW path \in Seq(Names), Where(d, path).error = "ok"
  PROVE  \/ Where(e, path) = Where(d, path)
         \/ \E p \in DOMAIN d \ DOMAIN e : Under(Where(d, path).path, p)
<1>1. PICK follow : IsTrue(follow)
  BY DEF IsTrue
<1>2. Locate(d, path, follow).error = "ok"
  BY <1>1 DEF Where, IsTrue
<1>3. \/ Locate(e, path, follow) = Locate(d, path, follow)
      \/ \E p \in DOMAIN d \ DOMAIN e : Under(Locate(d, path, follow).path, p)
  BY <1>2, LocateGrown
<1> QED
  BY <1>1, <1>3 DEF Where, IsTrue

\* A path that leads to a directory leads on through directories.
LEMMA WhereBelow ==
  ASSUME NEW d, NEW b, IsTree(d, b), NEW path \in Seq(Names), NEW x \in Seq(Names), x # <<>>,
         NEW q \in Seq(Names), Where(d, path) = Ok(q), KindAt(d, q \o x) = "dir",
         Len(path \o x) <= MaxLen
  PROVE  Where(d, path \o x) = Ok(q \o x)
<1>1. PICK follow : IsTrue(follow)
  BY DEF IsTrue
<1>2. Locate(d, path, follow) = Ok(q)
  BY <1>1 DEF Where, IsTrue
<1>3. Locate(d, path \o x, follow) = Ok(q \o x)
  BY <1>1, <1>2, LocateBelow
<1> QED
  BY <1>1, <1>3 DEF Where, IsTrue

\* The entry a path leads to.
LEMMA ThereIs ==
  ASSUME NEW d, NEW b, IsTree(d, b), NEW path \in Seq(Names)
  PROVE  /\ There(d, path).error = "ok" =>
              /\ There(d, path) = Where(d, path) /\ There(d, path) = Ok(There(d, path).path)
              /\ There(d, path).path \in DOMAIN d /\ There(d, path).path \in Seq(Names)
              /\ d[There(d, path).path].kind \in {"dir", "file"} /\ Len(path) <= MaxLen
         /\ There(d, path).error = "ok" <=>
              Where(d, path).error = "ok" /\ Where(d, path).path \in DOMAIN d
         /\ Where(d, path).error = "ok" =>
              /\ Where(d, path) = Ok(Where(d, path).path) /\ Where(d, path).path \in Seq(Names)
              /\ KindAt(d, Where(d, path).path) # "link" /\ InPlace(d, Where(d, path).path)
<1>1. PICK follow : IsTrue(follow)
  BY DEF IsTrue
<1> DEFINE e == Entry(d, path, follow)
           l == Locate(d, path, follow)
<1>2. /\ e.error = "ok" => /\ e = l /\ e = Ok(e.path) /\ e.path \in DOMAIN d /\ e.path \in Seq(Names)
                            /\ d[e.path].kind \in {"dir", "file"} /\ Len(path) <= MaxLen
      /\ e.error = "ok" <=> l.error = "ok" /\ l.path \in DOMAIN d
  BY <1>1, EntryOf
<1>3. ASSUME l.error = "ok"
      PROVE  /\ l = Ok(l.path) /\ l.path \in Seq(Names) /\ KindAt(d, l.path) # "link"
             /\ InPlace(d, l.path)
  <2>1. Linked(d)
    BY TreeIs
  <2>2. l = [error |-> l.error, path |-> l.path] /\ l.path \in Seq(Names)
    BY <2>1, LocateTypes
  <2>3. l = Ok(l.path)
    <3> HIDE DEF l
    <3> QED
      BY <1>3, <2>2 DEF Ok
  <2> QED
    BY <1>1, <1>3, <2>2, <2>3, LocateNoLink, LocateInPlace
<1>4. e = There(d, path) /\ l = Where(d, path)
  BY <1>1 DEF There, Where, IsTrue
<1> HIDE DEF e, l
<1> QED
  BY <1>2, <1>3, <1>4

\* The part of a path before its last names leads to a directory if the path leads to an entry.
LEMMA ThereBehind ==
  ASSUME NEW d, NEW b, IsTree(d, b), NEW path \in Seq(Names), NEW s \in Seq(Names), s # <<>>,
         There(d, path \o s).error = "ok"
  PROVE  There(d, path).error = "ok" /\ d[There(d, path).path].kind = "dir"
<1>1. PICK follow : IsTrue(follow)
  BY DEF IsTrue
<1>2. Entry(d, path \o s, follow).error = "ok"
  BY <1>1 DEF There, IsTrue
<1>3. Entry(d, path, follow).error = "ok" /\ d[Entry(d, path, follow).path].kind = "dir"
  BY <1>1, <1>2, EntryBehind
<1> QED
  BY <1>1, <1>3 DEF There, IsTrue

\* The name a path goes on with is in the directory that the path before it leads to.
LEMMA ThereIn ==
  ASSUME NEW d, NEW b, IsTree(d, b), NEW path \in Seq(Names), NEW n \in Names,
         There(d, path \o <<n>>).error = "ok"
  PROVE  Append(There(d, path).path, n) \in DOMAIN d
<1>1. PICK follow : IsTrue(follow)
  BY DEF IsTrue
<1>2. Entry(d, path \o <<n>>, follow).error = "ok"
  BY <1>1 DEF There, IsTrue
<1>3. Append(Entry(d, path, follow).path, n) \in DOMAIN d
  BY <1>1, <1>2, EntryIn
<1> QED
  BY <1>1, <1>3 DEF There, IsTrue

\* An entry a path led to is still there on a disk that has more.
LEMMA ThereStays ==
  ASSUME NEW d, NEW b, IsTree(d, b), NEW e, NEW a, IsTree(e, a), More(e, d),
         NEW path \in Seq(Names), There(e, path).error = "ok"
  PROVE  /\ There(d, path) = There(e, path) /\ There(d, path).path \in DOMAIN d
         /\ d[There(d, path).path] = e[There(e, path).path]
<1>1. Linked(d) /\ Linked(e)
  BY TreeIs
<1>2. /\ There(e, path) = Where(e, path) /\ Where(e, path).error = "ok"
      /\ There(e, path).path \in DOMAIN e
  BY ThereIs
<1>3. Where(d, path) = Where(e, path)
  BY <1>1, <1>2, WhereStays
<1>4. There(e, path).path \in DOMAIN d /\ d[There(e, path).path] = e[There(e, path).path]
  BY <1>2 DEF More
<1>5. There(d, path).error = "ok" /\ There(d, path) = Where(d, path)
  BY <1>2, <1>3, <1>4, ThereIs
<1> QED
  BY <1>2, <1>3, <1>4, <1>5

\* Where a path leads that leads to an entry.
LEMMA ThereAt ==
  ASSUME NEW d, NEW path, NEW p, Where(d, path) = Ok(p), p \in DOMAIN d
  PROVE  There(d, path) = Ok(p)
BY OkIs DEF Entry, Where, There

\* What create_dir_all makes: directories on the way to its path, none in one that is there but
\* is not on the way to where it begins.
LEMMA MakeAllMakes ==
  ASSUME IsTree(disk, data), NEW path \in Seq(Names), NEW call, call = MakeAll(path),
         call.error = "ok"
  PROVE  /\ IsTree(call.disk, call.data) /\ More(disk, call.disk)
         /\ There(call.disk, path).error = "ok"
         /\ call.disk[There(call.disk, path).path].kind = "dir"
         /\ \A i \in DOMAIN data : call.data[i] = data[i]
         /\ \E k \in 0..Len(path) :
              /\ There(disk, SubSeq(path, 1, k)).error = "ok"
              /\ \A p \in DOMAIN call.disk \ DOMAIN disk :
                   /\ Under(There(call.disk, path).path, p)
                   /\ \A s \in DOMAIN disk : Under(p, s) => Under(There(disk, SubSeq(path, 1, k)).path, s)
<1>0. IsTree(call.disk, call.data)
  BY MakeAllSound DEF Sound
<1>c. PICK k \in 0..Len(path) : \E e, b :
        MakesAll(path, k, e, b) /\ call = Leaves(Over(disk, e), data \o b)
  BY MakeAllIs, FailsIs
<1>a. PICK e, b : MakesAll(path, k, e, b) /\ call = Leaves(Over(disk, e), data \o b)
  BY <1>c
<1> DEFINE front == SubSeq(path, 1, k)
           names == SubSeq(path, k + 1, Len(path))
           base == There(disk, front).path
           d == call.disk
<1>1. /\ There(disk, front).error = "ok" /\ Kind(base) = "dir"
      /\ names # <<>> => Append(base, names[1]) \notin Present
      /\ Locate(disk, path, TRUE).error # "TooLong"
      /\ DOMAIN e = {base \o SubSeq(names, 1, n) : n \in 1..Len(names)}
      /\ e = [q \in DOMAIN e |-> Dir(NextInode + Len(q) - Len(base) - 1)]
      /\ b = [i \in 1..Len(names) |-> <<>>]
  BY <1>a DEF MakesAll, Stat, There
<1>2. /\ front \in Seq(Names) /\ names \in Seq(Names) /\ path = front \o names
      /\ Len(path) \in Nat /\ Len(names) \in Nat
  BY PathParts, LenProperties
<1>3. d = Over(disk, e) /\ call.data = data \o b
  BY <1>a DEF Leaves
<1> HIDE DEF front, names, d
<1>b. front \in Seq(Names) /\ names \in Seq(Names)
  BY <1>2
<1>4. base \in DOMAIN disk /\ base \in Seq(Names) /\ There(disk, front) = Where(disk, front)
      /\ Where(disk, front) = Ok(base) /\ disk[base].kind = "dir"
  <2>1. There(disk, front) = Where(disk, front) /\ There(disk, front) = Ok(base) /\ base \in DOMAIN disk
        /\ base \in Seq(Names)
    BY <1>1, <1>2, ThereIs
  <2>2. disk[base].kind = "dir"
    <3> HIDE DEF base
    <3> QED
      BY <1>1, <2>1 DEF Kind, Present
  <2> QED
    BY <2>1, <2>2
<1> HIDE DEF base
<1>5. ASSUME NEW p \in DOMAIN e
      PROVE  /\ p \in Seq(Names) /\ Under(p, base) /\ Under(base \o names, p) /\ p \notin DOMAIN disk
             /\ names[1] \in Names /\ Under(p, Append(base, names[1]))
             /\ Append(base, names[1]) \notin DOMAIN disk /\ Append(base, names[1]) \in Seq(Names)
  <2>1. PICK n \in 1..Len(names) : p = base \o SubSeq(names, 1, n)
    BY <1>1
  <2>2. /\ names # <<>> /\ names[1] \in Names /\ p \in Seq(Names) /\ Under(p, base)
        /\ Under(base \o names, p) /\ Under(p, Append(base, names[1]))
    BY ZenonT(60), <1>2, <1>4, <2>1, MissingIs
  <2>3. Append(base, names[1]) \notin DOMAIN disk /\ Append(base, names[1]) \in Seq(Names)
    BY <1>1, <1>4, <2>2, FrontAppend DEF Present
  <2> QED
    BY <2>2, <2>3, FreeBelow
<1>6. /\ DOMAIN d = DOMAIN disk \cup DOMAIN e /\ \A p \in DOMAIN disk : d[p] = disk[p]
      /\ \A p \in DOMAIN e : d[p] = e[p]
  <2>1. /\ DOMAIN d = DOMAIN disk \cup DOMAIN e /\ \A p \in DOMAIN disk : d[p] = disk[p]
        /\ \A p \in DOMAIN e \ DOMAIN disk : d[p] = e[p]
    <3>1. /\ DOMAIN Over(disk, e) = DOMAIN disk \cup DOMAIN e
          /\ \A p \in DOMAIN disk : Over(disk, e)[p] = disk[p]
          /\ \A p \in DOMAIN e \ DOMAIN disk : Over(disk, e)[p] = e[p]
      BY ONLY ZenonT(60), OverIs
    <3> QED
      BY <1>3, <3>1
  <2>2. \A p \in DOMAIN e : p \notin DOMAIN disk
    BY <1>5
  <2> QED
    BY <2>1, <2>2
<1>7. ASSUME NEW p \in DOMAIN e PROVE d[p].kind = "dir"
  <2>1. e[p] = Dir(NextInode + Len(p) - Len(base) - 1)
    BY <1>1
  <2> QED
    BY <1>6, <2>1 DEF Dir
<1>8. More(disk, d)
  BY <1>6, <1>7 DEF More
<1>9. Where(d, front) = Ok(base)
  <2>1. Linked(disk) /\ Linked(d) /\ Where(disk, front).error = "ok"
    <3>1. IsTree(d, call.data)
      BY <1>0 DEF d
    <3>2. Linked(disk) /\ Linked(d)
      BY <3>1, TreeIs
    <3>3. Where(disk, front).error = "ok"
      BY <1>4, OkIs
    <3> QED
      BY <3>2, <3>3
  <2>2. Where(d, front) = Where(disk, front)
    BY ONLY <1>b, <1>8, <2>1, WhereStays
  <2> QED
    BY <1>4, <2>2
<1>10. There(d, path) = Ok(base \o names) /\ KindAt(d, base \o names) = "dir"
  <2>1. CASE names = <<>>
    <3>1. path = front /\ base \o names = base
      BY <1>2, <1>4, <2>1, ConcatEmptySeq
    <3>2. base \in DOMAIN d /\ d[base].kind = "dir"
      BY <1>4, <1>6
    <3> QED
      BY <1>9, <3>1, <3>2, ThereAt DEF KindAt
  <2>2. CASE names # <<>>
    <3>1. SubSeq(names, 1, Len(names)) = names /\ Len(names) \in 1..Len(names)
      BY <1>2, <2>2, EmptyIs, SubSeqFull
    <3>2. base \o names \in DOMAIN e
      BY <1>1, <3>1
    <3>3. base \o names \in DOMAIN d /\ d[base \o names].kind = "dir" /\ KindAt(d, base \o names) = "dir"
      BY <1>6, <1>7, <3>2 DEF KindAt
    <3>4. Len(front \o names) <= MaxLen
      <4>1. Locate(disk, path, TRUE).error = "TooLong" \/ ~(Len(path) > MaxLen)
        BY ZenonT(60) DEF Locate, Error
      <4>2. ~(Len(path) > MaxLen) /\ MaxLen \in Nat
        BY <1>1, <4>1, FileTreeAssumption
      <4> QED
        BY <1>2, <4>2
    <3>5. Where(d, front \o names) = Ok(base \o names)
      <4>1. IsTree(d, call.data)
        BY <1>0 DEF d
      <4> QED
        BY ONLY <1>4, <1>9, <1>b, <2>2, <3>3, <3>4, <4>1, WhereBelow
    <3> QED
      BY <1>2, <3>3, <3>5, ThereAt
  <2> QED
    BY <2>1, <2>2
<1>11. /\ There(d, path).error = "ok" /\ There(d, path).path = base \o names
       /\ d[base \o names].kind = "dir"
  <2>1. d[base \o names].kind = "dir"
    BY <1>10 DEF KindAt
  <2> QED
    BY <1>10, <2>1, OkIs
<1>12. \A i \in DOMAIN data : call.data[i] = data[i]
  <2> DEFINE bytes == Seq(0..NotText)
  <2>1. data \in Seq(bytes) /\ b \in Seq(bytes)
    <3>1. data \in Seq(bytes)
      BY TreeIs
    <3>2. \A i \in 1..Len(names) : <<>> \in bytes
      BY EmptySeq
    <3> HIDE DEF bytes
    <3> QED
      BY <1>1, <1>2, <3>1, <3>2
  <2> HIDE DEF bytes
  <2>2. DOMAIN data = 1..Len(data) /\ \A i \in 1..Len(data) : (data \o b)[i] = data[i]
    BY <2>1, ConcatProperties, LenProperties
  <2> QED
    BY <1>3, <2>2
<1>13. ASSUME NEW p \in DOMAIN d \ DOMAIN disk
       PROVE  /\ Under(base \o names, p)
              /\ \A s \in DOMAIN disk : Under(p, s) => Under(base, s)
  <2>0. p \in DOMAIN e
    BY <1>6
  <2> DEFINE first == Append(base, names[1])
  <2>1. /\ p \in Seq(Names) /\ Under(p, base) /\ Under(base \o names, p)
        /\ names[1] \in Names /\ Under(p, first)
        /\ first \notin DOMAIN disk /\ first \in Seq(Names) /\ first # Root /\ Front(first) = base
    BY <1>4, <1>5, <2>0, FrontAppend
  <2> HIDE DEF first
  <2>2. ASSUME NEW s \in DOMAIN disk, Under(p, s) PROVE Under(base, s)
    <3>1. s \in Seq(Names)
      BY TreeIs
    <3>2. ~Under(s, first)
      BY <2>1, FreeBelow
    <3>3. Under(first, s)
      BY <2>1, <2>2, <3>1, <3>2, UnderBoth
    <3>4. first # s
      BY <2>1
    <3> QED
      BY <1>4, <2>1, <3>1, <3>3, <3>4, UnderFront
  <2> QED
    BY <2>1, <2>2
<1> QED
  BY <1>0, <1>1, <1>8, <1>11, <1>12, <1>13 DEF d, base, front

\* open fails, or finds what is no directory and empties it, or makes it.
LEMMA OpenEmptyIs ==
  ASSUME NEW path
  PROVE  \/ \E error : OpenEmpty(path) = Fails(error) /\ error # "ok"
         \/ /\ Where(disk, path).error = "ok" /\ Kind(Where(disk, path).path) # "dir"
            /\ OpenEmpty(path) =
                 IF Where(disk, path).path \in Present
                 THEN Leaves(disk, [data EXCEPT ![disk[Where(disk, path).path].inode] = <<>>])
                 ELSE Adds(Where(disk, path).path, File(NextInode))
<1> DEFINE l == Where(disk, path)
           checks == <<Resolved(l), <<Kind(l.path) = "dir", "IsADirectory">>>>
           call == IF l.path \in Present
                   THEN Leaves(disk, [data EXCEPT ![disk[l.path].inode] = <<>>])
                   ELSE Adds(l.path, File(NextInode))
<1>1. OpenEmpty(path) = Unless(checks, call)
  BY DEF OpenEmpty, Where
<1> HIDE DEF l
<1>2. /\ DOMAIN checks = 1..2
      /\ (checks[1][1] <=> l.error # "ok") /\ checks[1][2] = l.error
      /\ (checks[2][1] <=> Kind(l.path) = "dir") /\ checks[2][2] = "IsADirectory"
  <2>1. DOMAIN checks = 1..2
    OBVIOUS
  <2>2. (checks[1][1] <=> l.error # "ok") /\ checks[1][2] = l.error
    BY DEF Resolved
  <2>3. (checks[2][1] <=> Kind(l.path) = "dir") /\ checks[2][2] = "IsADirectory"
    OBVIOUS
  <2> HIDE DEF checks
  <2> QED
    BY <2>1, <2>2, <2>3
<1> HIDE DEF checks, call
<1>3. \/ Unless(checks, call) = call /\ \A k \in 1..2 : ~checks[k][1]
      \/ \E k \in 1..2 : checks[k][1] /\ Unless(checks, call) = Fails(checks[k][2])
  <2>1. DOMAIN checks = 1..2 /\ 2 \in Nat
    BY <1>2
  <2> QED
    BY ONLY <2>1, UnlessFails
<1>4. CASE \E k \in 1..2 : checks[k][1] /\ Unless(checks, call) = Fails(checks[k][2])
  <2>1. PICK k \in 1..2 : checks[k][1] /\ Unless(checks, call) = Fails(checks[k][2])
    BY <1>4
  <2>2. checks[k][2] # "ok"
    <3>1. k = 1 \/ k = 2
      BY <2>1
    <3> QED
      BY <1>2, <2>1, <3>1
  <2> QED
    BY <1>1, <2>1, <2>2
<1>5. CASE Unless(checks, call) = call /\ \A k \in 1..2 : ~checks[k][1]
  <2>1. ~checks[1][1] /\ ~checks[2][1]
    BY <1>5
  <2>2. l.error = "ok" /\ Kind(l.path) # "dir" /\ OpenEmpty(path) = call
    BY SMTT(40), <1>1, <1>2, <1>5, <2>1
  <2> QED
    BY <2>2 DEF call, l
<1> QED
  BY <1>3, <1>4, <1>5

\* What an open leaves: an empty file where the path leads, and all else as it was.
LEMMA OpenEmptyOpens ==
  ASSUME IsTree(disk, data), NEW path \in Seq(Names), NEW call, call = OpenEmpty(path),
         call.error = "ok"
  PROVE  LET p == Where(disk, path).path
         IN  /\ IsTree(call.disk, call.data) /\ More(disk, call.disk)
             /\ Where(disk, path).error = "ok" /\ There(call.disk, path) = Ok(p) /\ p \in Seq(Names)
             /\ call.disk[p].kind = "file" /\ \A q \in DOMAIN call.disk \ DOMAIN disk : q = p
             /\ \A i \in DOMAIN data : i = call.disk[p].inode \/ call.data[i] = data[i]
             /\ call.data[call.disk[p].inode] = <<>>
<1>0. IsTree(call.disk, call.data)
  BY OpenEmptySound DEF Sound
<1> DEFINE l == Where(disk, path)
           p == l.path
<1>1. /\ l.error = "ok" /\ Kind(p) # "dir"
      /\ call = IF p \in Present THEN Leaves(disk, [data EXCEPT ![disk[p].inode] = <<>>])
                ELSE Adds(p, File(NextInode))
  <2>1. \A error : call = Fails(error) => error = "ok"
    BY FailsIs
  <2> QED
    BY <2>1, OpenEmptyIs
<1>2. l = Ok(p) /\ p \in Seq(Names) /\ KindAt(disk, p) # "link"
  BY <1>1, ThereIs
<1> HIDE DEF l
<1>3. data \in Seq(Seq(0..NotText)) /\ Len(data) \in Nat /\ DOMAIN data = 1..Len(data)
  BY TreeIs
<1>4. /\ More(disk, call.disk) /\ p \in DOMAIN call.disk
      /\ call.disk[p].kind = "file" /\ \A q \in DOMAIN call.disk \ DOMAIN disk : q = p
      /\ \A i \in DOMAIN data : i = call.disk[p].inode \/ call.data[i] = data[i]
      /\ call.data[call.disk[p].inode] = <<>>
  <2>1. CASE p \in Present
    <3>1. call.disk = disk /\ call.data = [data EXCEPT ![disk[p].inode] = <<>>]
      BY <1>1, <2>1, LeavesIs
    <3>2. p \in DOMAIN disk /\ disk[p].inode \in DOMAIN data /\ disk[p].kind \in {"dir", "file", "link"}
          /\ KindAt(disk, p) = disk[p].kind
      BY <1>3, <2>1, TreeIs DEF Present
    <3>3. disk[p].kind = "file"
      BY <1>1, <1>2, <2>1, <3>2 DEF Kind
    <3>4. More(disk, disk)
      BY DEF More
    <3> QED
      BY <3>1, <3>2, <3>3, <3>4
  <2>2. CASE p \notin Present
    <3> DEFINE entry == File(NextInode)
               e == [q \in {p} |-> entry]
    <3>1. call = Adds(p, entry)
      BY <1>1, <2>2
    <3>2. call.disk = Over(disk, e) /\ call.data = Append(data, <<>>)
      <4>1. /\ Adds(p, entry).disk = Over(disk, e) /\ Adds(p, entry).data = Append(data, <<>>)
        BY LeavesIs DEF Adds
      <4> HIDE DEF e, entry
      <4> QED
        BY <3>1, <4>1
    <3>3. entry.kind = "file" /\ entry.inode = Len(data) + 1
      BY DEF File, NextInode
    <3>4. DOMAIN e = {p} /\ e[p] = entry
      OBVIOUS
    <3> HIDE DEF e, entry
    <3>5. /\ DOMAIN call.disk = DOMAIN disk \cup {p} /\ \A q \in DOMAIN disk : call.disk[q] = disk[q]
          /\ call.disk[p] = entry
      <4>1. /\ DOMAIN Over(disk, e) = DOMAIN disk \cup DOMAIN e
            /\ \A q \in DOMAIN disk : Over(disk, e)[q] = disk[q]
            /\ \A q \in DOMAIN e \ DOMAIN disk : Over(disk, e)[q] = e[q]
        BY OverIs
      <4> QED
        BY <2>2, <3>2, <3>4, <4>1 DEF Present
    <3>6. call.data[Len(data) + 1] = <<>> /\ \A i \in DOMAIN data : call.data[i] = data[i]
      <4> DEFINE bytes == Seq(0..NotText)
      <4>1. data \in Seq(bytes) /\ <<>> \in bytes
        BY <1>3, EmptySeq
      <4> HIDE DEF bytes
      <4> QED
        BY <1>3, <3>2, <4>1, AppendProperties
    <3> QED
      BY <3>3, <3>5, <3>6 DEF More
  <2> QED
    BY <2>1, <2>2
<1>5. There(call.disk, path) = Ok(p)
  <2>1. Linked(disk) /\ Linked(call.disk)
    BY SMTT(40), <1>0, TreeIs
  <2>2. Where(call.disk, path) = Ok(p)
    BY ZenonT(60), <1>1, <1>2, <1>4, <2>1, WhereStays DEF l
  <2> QED
    BY <1>4, <2>2, ThereAt
<1> QED
  BY ZenonT(60), <1>0, <1>1, <1>2, <1>4, <1>5 DEF l

\* What can be reached below a path.
LEMMA ReachesIs ==
  ASSUME NEW d, NEW path \in Seq(Names), Linked(d)
  PROVE  \A rel : rel \in Reaches(d, path) <=>
                    rel \in Seq(Names) /\ There(d, path \o rel).error = "ok"
<1>1. Len(path) \in Nat /\ MaxLen \in Nat
  BY LenProperties, FileTreeAssumption
<1>2. ASSUME NEW rel \in Reaches(d, path)
      PROVE  rel \in Seq(Names) /\ There(d, path \o rel).error = "ok"
  <2>1. PICK n \in 0..(MaxLen - Len(path)) : rel \in [1..n -> Names]
    BY <1>1, <1>2 DEF Reaches
  <2>2. n \in Nat
    BY <1>1
  <2>3. rel \in Seq(Names)
    BY <2>1, <2>2
  <2>4. Entry(d, path \o rel, TRUE).error = "ok"
    BY <1>2 DEF Reaches
  <2> QED
    BY <2>3, <2>4 DEF There
<1>3. ASSUME NEW rel \in Seq(Names), There(d, path \o rel).error = "ok"
      PROVE  rel \in Reaches(d, path)
  <2>1. Len(rel) \in Nat /\ rel \in [1..Len(rel) -> Names]
    BY LenProperties
  <2>2. path \o rel \in Seq(Names) /\ Len(path \o rel) = Len(path) + Len(rel)
    BY ConcatParts
  <2>3. Entry(d, path \o rel, TRUE).error = "ok"
    BY <1>3 DEF There
  <2>4. Len(path \o rel) <= MaxLen
    <3>1. Locate(d, path \o rel, TRUE).error = "ok"
      BY <2>3 DEF Entry, Error
    <3>2. PICK follow : IsTrue(follow)
      BY DEF IsTrue
    <3>3. Locate(d, path \o rel, follow).error = "ok"
      BY <3>1, <3>2 DEF IsTrue
    <3> QED
      BY <2>2, <3>3, LocateTypes
  <2>5. Len(rel) \in 0..(MaxLen - Len(path))
    BY <1>1, <2>1, <2>2, <2>4
  <2> QED
    BY <2>1, <2>3, <2>5 DEF Reaches
<1> QED
  BY <1>2, <1>3

\* What is before the last names of what can be reached can be reached, and is a directory.
LEMMA ReachesBehind ==
  ASSUME NEW d, NEW b, IsTree(d, b), NEW path \in Seq(Names), NEW rel \in Reaches(d, path),
         NEW first \in Seq(Names), Under(rel, first)
  PROVE  /\ first \in Reaches(d, path)
         /\ rel # first => d[There(d, path \o first).path].kind = "dir"
<1>1. rel \in Seq(Names) /\ There(d, path \o rel).error = "ok" /\ Linked(d)
  BY ReachesIs, TreeIs
<1>2. PICK x \in Seq(Names) : rel = first \o x /\ (rel # first => x # <<>>)
  BY <1>1, UnderHas
<1> DEFINE p == path \o first
<1>3. p \in Seq(Names) /\ path \o rel = p \o x
  BY <1>2, ConcatThree, ConcatIs
<1> HIDE DEF p
<1>4. CASE rel # first
  <2>1. There(d, p).error = "ok" /\ d[There(d, p).path].kind = "dir"
    BY <1>1, <1>2, <1>3, <1>4, ThereBehind
  <2> QED
    BY <1>1, <2>1, ReachesIs DEF p
<1> QED
  BY <1>4

\* What can be reached further on goes through a name in the directory that is reached.
LEMMA ReachesNext ==
  ASSUME NEW d, NEW b, IsTree(d, b), NEW path \in Seq(Names), NEW rel \in Reaches(d, path),
         NEW first \in Seq(Names), Under(rel, first), rel # first
  PROVE  \E n \in Names : /\ Append(first, n) \in Reaches(d, path) /\ Under(rel, Append(first, n))
                          /\ Append(There(d, path \o first).path, n) \in DOMAIN d
<1>1. rel \in Seq(Names) /\ Linked(d)
  BY ReachesIs, TreeIs
<1>2. PICK x \in Seq(Names) : rel = first \o x /\ x # <<>>
  BY <1>1, UnderHas
<1> DEFINE n == Head(x)
           next == Append(first, n)
           p == path \o first
<1>3. n \in Names /\ Tail(x) \in Seq(Names) /\ next \in Seq(Names) /\ next \o Tail(x) = rel
  BY SMTT(40), <1>2, HeadMoves
<1> HIDE DEF n
<1>4. path \o next = Append(p, n) /\ p \in Seq(Names)
  <2>1. path \o Append(first, n) = Append(path \o first, n)
    BY <1>3, ConcatAppend
  <2>2. path \o first \in Seq(Names)
    BY ConcatIs
  <2> QED
    BY <2>1, <2>2
<1> HIDE DEF next
<1>5. Under(rel, next)
  BY ONLY <1>3, ConcatIs
<1>6. next \in Reaches(d, path)
  BY <1>3, <1>5, ReachesBehind
<1>7. There(d, path \o next).error = "ok"
  BY <1>1, <1>6, ReachesIs
<1> HIDE DEF p
<1>8. Append(p, n) = p \o <<n>>
  BY <1>3, <1>4, AppendIsConcat
<1>9. There(d, p \o <<n>>).error = "ok"
  BY <1>4, <1>7, <1>8
<1>10. Append(There(d, p).path, n) \in DOMAIN d
  BY <1>3, <1>4, <1>9, ThereIn
<1> QED
  BY <1>3, <1>5, <1>6, <1>10 DEF next, p

\* A copy of a name of the source: what it has before it, where the name leads in the source, and
\* where at the destination.
Task(path, to, rel) == [from |-> path \o rel, to |-> to \o rel]
SourceAt(s, path, rel) == s[There(s, path \o rel).path]
CopyAt(d, to, rel) == There(d, to \o rel)

\* A copy that is whole and keeps clear of its source.
Copyable(s, a, path, to) ==
  /\ IsTree(s, a) /\ path \in Seq(Names) /\ to \in Seq(Names)
  /\ Whole(s, path) /\ ~Overlap(s, path, to)

\* Disk d is disk s and what a copy has made: nothing in the source, all of it on the way to
\* a copy.
Grown(s, path, to, d) ==
  /\ More(s, d)
  /\ \A p \in DOMAIN d \ DOMAIN s :
       /\ \A source \in Sources(s, path) : ~Under(p, source)
       /\ \E rel \in Reaches(s, path) :
            CopyAt(d, to, rel).error = "ok" /\ Under(CopyAt(d, to, rel).path, p)

\* Only the bytes of what a copy leads to have changed.
BytesStay(s, a, path, to, d, b) ==
  \A p \in DOMAIN s : \/ b[s[p].inode] = a[s[p].inode]
                      \/ \E rel \in Reaches(s, path) : CopyAt(d, to, rel) = Ok(p)

\* The ways a copy goes at its destination.
Towards(s, path, to) ==
  {SubSeq(to, 1, k) : k \in 0..Len(to)} \cup {to \o rel : rel \in Reaches(s, path)}

\* The names of a source.
LEMMA SourceIs ==
  ASSUME NEW s, NEW a, NEW path, NEW to, Copyable(s, a, path, to), NEW rel \in Reaches(s, path)
  PROVE  /\ rel \in Seq(Names) /\ path \o rel \in Seq(Names) /\ to \o rel \in Seq(Names)
         /\ There(s, path \o rel).error = "ok"
         /\ There(s, path \o rel).path \in DOMAIN s /\ There(s, path \o rel).path \in Seq(Names)
         /\ There(s, path \o rel).path \in Sources(s, path)
         /\ SourceAt(s, path, rel).kind \in {"dir", "file"}
         /\ to \o rel \in Towards(s, path, to)
<1>1. IsTree(s, a) /\ path \in Seq(Names) /\ to \in Seq(Names) /\ Linked(s)
  BY TreeIs DEF Copyable
<1>2. rel \in Seq(Names) /\ There(s, path \o rel).error = "ok"
  BY <1>1, ReachesIs
<1>3. path \o rel \in Seq(Names) /\ to \o rel \in Seq(Names)
  BY <1>1, <1>2, ConcatIs
<1> DEFINE q == path \o rel
<1> HIDE DEF q
<1>4. There(s, q).path \in DOMAIN s /\ There(s, q).path \in Seq(Names)
      /\ s[There(s, q).path].kind \in {"dir", "file"}
  BY <1>1, <1>2, <1>3, ThereIs DEF q
<1>5. There(s, path \o rel).path \in Sources(s, path)
  BY DEF Sources, There
<1> QED
  BY <1>2, <1>3, <1>4, <1>5 DEF q, SourceAt, Towards

\* Where a source is.
LEMMA SourcesAre ==
  ASSUME NEW s, NEW a, NEW path, NEW to, Copyable(s, a, path, to), NEW source \in Sources(s, path)
  PROVE  source \in DOMAIN s /\ source \in Seq(Names)
<1>1. PICK rel \in Reaches(s, path) : source = There(s, path \o rel).path
  BY DEF Sources, There
<1> QED
  BY <1>1, SourceIs

\* The ways to the destination are paths.
LEMMA TowardsAre ==
  ASSUME NEW s, NEW a, NEW path, NEW to, Copyable(s, a, path, to), NEW way \in Towards(s, path, to)
  PROVE  /\ way \in Seq(Names)
         /\ Where(s, way).error = "ok" =>
              \A source \in Sources(s, path) : ~Under(Where(s, way).path, source)
<1>1. way \in Seq(Names)
  <2>1. CASE \E k \in 0..Len(to) : way = SubSeq(to, 1, k)
    BY <2>1, PathParts DEF Copyable
  <2>2. CASE \E rel \in Reaches(s, path) : way = to \o rel
    BY <2>2, SourceIs
  <2> QED
    BY <2>1, <2>2 DEF Towards
<1>2. ~Overlap(s, path, to)
  BY DEF Copyable
<1>3. ~(Where(s, way).error = "ok" /\ \E p \in Sources(s, path) : Under(Where(s, way).path, p))
  BY <1>2 DEF Overlap, Towards, Where
<1> QED
  BY <1>1, <1>3

\* No way to the destination comes to lead into the source.
LEMMA WaysApart ==
  ASSUME NEW s, NEW a, NEW path, NEW to, Copyable(s, a, path, to),
         NEW d, NEW b, IsTree(d, b), Grown(s, path, to, d),
         NEW way \in Towards(s, path, to), Where(d, way).error = "ok",
         NEW source \in Sources(s, path)
  PROVE  ~Under(Where(d, way).path, source)
<1>1. /\ IsTree(s, a) /\ More(s, d) /\ way \in Seq(Names)
      /\ source \in DOMAIN s /\ source \in Seq(Names)
  BY SourcesAre, TowardsAre DEF Copyable, Grown
<1> DEFINE q == Where(d, way).path
<1>2. q \in Seq(Names)
  BY <1>1, ThereIs
<1>3. CASE Where(s, way) = Where(d, way)
  BY <1>3, TowardsAre
<1>4. CASE \E p \in DOMAIN d \ DOMAIN s : Under(q, p)
  <2>1. PICK p \in DOMAIN d \ DOMAIN s : Under(q, p)
    BY <1>4
  <2>2. p \in Seq(Names) /\ ~Under(p, source)
    BY TreeIs DEF Grown
  <2>3. ~Under(source, p)
    BY <1>1, <2>2, FreeBelow
  <2> HIDE DEF q
  <2>4. ~Under(q, source)
    BY <1>1, <1>2, <2>1, <2>2, <2>3, UnderBoth
  <2> QED
    BY <2>4 DEF q
<1> QED
  BY <1>1, <1>3, <1>4, WhereGrown

\* The source stays as it was.
LEMMA SourceStays ==
  ASSUME NEW s, NEW a, NEW path, NEW to, Copyable(s, a, path, to),
         NEW d, NEW b, IsTree(d, b), Grown(s, path, to, d), NEW rel \in Reaches(s, path)
  PROVE  /\ There(d, path \o rel) = There(s, path \o rel)
         /\ d[There(s, path \o rel).path] = SourceAt(s, path, rel)
<1>1. IsTree(s, a) /\ More(s, d) /\ path \o rel \in Seq(Names) /\ There(s, path \o rel).error = "ok"
  BY SourceIs DEF Copyable, Grown
<1> DEFINE q == path \o rel
<1> HIDE DEF q
<1>2. There(d, q) = There(s, q) /\ d[There(d, q).path] = s[There(s, q).path]
  BY <1>1, ThereStays DEF q
<1> QED
  BY <1>2 DEF q, SourceAt

\* No copy is a source.
LEMMA CopyIsOther ==
  ASSUME NEW s, NEW a, NEW path, NEW to, Copyable(s, a, path, to),
         NEW d, NEW b, IsTree(d, b), Grown(s, path, to, d),
         NEW rel \in Reaches(s, path), CopyAt(d, to, rel).error = "ok",
         NEW one \in Reaches(s, path)
  PROVE  /\ CopyAt(d, to, rel) = Ok(CopyAt(d, to, rel).path)
         /\ CopyAt(d, to, rel).path \in DOMAIN d
         /\ CopyAt(d, to, rel).path # There(s, path \o one).path
         /\ d[CopyAt(d, to, rel).path].inode # SourceAt(s, path, one).inode
<1> DEFINE way == to \o rel
           q == There(d, way).path
           p == There(s, path \o one).path
<1>1. way \in Seq(Names) /\ way \in Towards(s, path, to)
  BY SourceIs
<1> HIDE DEF way
<1>2. CopyAt(d, to, rel) = There(d, way)
  BY DEF CopyAt, way
<1>3. There(d, way) = Where(d, way) /\ There(d, way) = Ok(q) /\ q \in DOMAIN d /\ q \in Seq(Names)
  BY <1>1, <1>2, ThereIs
<1>4. p \in DOMAIN s /\ p \in Sources(s, path) /\ p \in DOMAIN d /\ d[p] = SourceAt(s, path, one)
  BY SMTT(40), SourceIs, SourceStays DEF Grown, More
<1> HIDE DEF p
<1>5. ~Under(q, p)
  BY <1>1, <1>2, <1>3, <1>4, WaysApart
<1> HIDE DEF q
<1>6. q # p
  BY <1>3, <1>5, UnderSelf
<1>7. d[q].inode # d[p].inode
  BY <1>3, <1>4, <1>6, TreeParts DEF Distinct
<1> QED
  BY <1>2, <1>3, <1>4, <1>6, <1>7 DEF q, p

\* Nor have its bytes changed.
LEMMA SourceBytes ==
  ASSUME NEW s, NEW a, NEW path, NEW to, Copyable(s, a, path, to),
         NEW d, NEW b, IsTree(d, b), Grown(s, path, to, d), BytesStay(s, a, path, to, d, b),
         NEW one \in Reaches(s, path)
  PROVE  b[SourceAt(s, path, one).inode] = a[SourceAt(s, path, one).inode]
<1> DEFINE p == There(s, path \o one).path
<1>1. p \in DOMAIN s /\ SourceAt(s, path, one) = s[p]
  BY SourceIs DEF SourceAt
<1>2. ASSUME NEW rel \in Reaches(s, path), CopyAt(d, to, rel) = Ok(p) PROVE FALSE
  <2>1. CopyAt(d, to, rel).error = "ok" /\ CopyAt(d, to, rel).path = p
    BY <1>2, OkIs
  <2> QED
    BY <2>1, CopyIsOther
<1> HIDE DEF p
<1> QED
  BY <1>1, <1>2 DEF BytesStay

\* A copy stays where it is when there is more.
LEMMA CopyStays ==
  ASSUME NEW s, NEW a, NEW path, NEW to, Copyable(s, a, path, to),
         NEW d, NEW b, IsTree(d, b), NEW e, NEW c, IsTree(e, c), More(d, e),
         NEW rel \in Reaches(s, path), CopyAt(d, to, rel).error = "ok"
  PROVE  /\ CopyAt(e, to, rel) = CopyAt(d, to, rel)
         /\ e[CopyAt(d, to, rel).path] = d[CopyAt(d, to, rel).path]
<1> DEFINE way == to \o rel
<1>1. way \in Seq(Names)
  BY SourceIs
<1> HIDE DEF way
<1>2. There(e, way) = There(d, way) /\ e[There(e, way).path] = d[There(d, way).path]
  BY <1>1, ThereStays DEF CopyAt, way
<1> QED
  BY <1>2 DEF CopyAt, way

\* What a disk has grown to grows on, where it is not in the source and on the way to a copy.
LEMMA GrownOn ==
  ASSUME NEW s, NEW a, NEW path, NEW to, Copyable(s, a, path, to),
         NEW d, NEW b, IsTree(d, b), NEW e, NEW c, IsTree(e, c), More(d, e), Grown(s, path, to, d),
         \A p \in DOMAIN e \ DOMAIN d :
           /\ \A source \in Sources(s, path) : ~Under(p, source)
           /\ \E rel \in Reaches(s, path) :
                CopyAt(e, to, rel).error = "ok" /\ Under(CopyAt(e, to, rel).path, p)
  PROVE  Grown(s, path, to, e)
<1>1. More(s, e)
  BY DEF More, Grown
<1>2. ASSUME NEW p \in DOMAIN e \ DOMAIN s
      PROVE  /\ \A source \in Sources(s, path) : ~Under(p, source)
             /\ \E rel \in Reaches(s, path) :
                  CopyAt(e, to, rel).error = "ok" /\ Under(CopyAt(e, to, rel).path, p)
  <2>1. CASE p \in DOMAIN d
    <3>1. /\ \A source \in Sources(s, path) : ~Under(p, source)
          /\ \E rel \in Reaches(s, path) :
               CopyAt(d, to, rel).error = "ok" /\ Under(CopyAt(d, to, rel).path, p)
      BY <2>1 DEF Grown
    <3>2. PICK rel \in Reaches(s, path) :
            CopyAt(d, to, rel).error = "ok" /\ Under(CopyAt(d, to, rel).path, p)
      BY <3>1
    <3>3. CopyAt(e, to, rel) = CopyAt(d, to, rel)
      BY <3>2, CopyStays
    <3> QED
      BY <3>1, <3>2, <3>3
  <2>2. CASE p \notin DOMAIN d
    BY <2>2
  <2> QED
    BY <2>1, <2>2
<1> QED
  BY <1>1, <1>2 DEF Grown

\* The copy of rel is there, and of its kind.
Stands(s, path, to, d, rel) ==
  /\ CopyAt(d, to, rel).error = "ok"
  /\ d[CopyAt(d, to, rel).path].kind = SourceAt(s, path, rel).kind

\* ... and, a file, it has the bytes it is to have.
Arrived(s, a, path, to, d, b, rel) ==
  /\ Stands(s, path, to, d, rel)
  /\ SourceAt(s, path, rel).kind = "file" =>
       \E one \in Reaches(s, path) :
         /\ SourceAt(s, path, one).kind = "file" /\ CopyAt(d, to, one) = CopyAt(d, to, rel)
         /\ b[d[CopyAt(d, to, rel).path].inode] = a[SourceAt(s, path, one).inode]

\* ... or is the file that is being filled.
Filling(s, path, to, d, rel, i) ==
  /\ Stands(s, path, to, d, rel) /\ SourceAt(s, path, rel).kind = "file"
  /\ d[CopyAt(d, to, rel).path].inode = i

\* The pair is that of rel or of a directory it is in; and is one of those that wait.
Heads(s, path, to, pair, rel) ==
  \E first \in Reaches(s, path) : pair = Task(path, to, first) /\ Under(rel, first)
Waits(s, path, to, pairs, rel) == \E k \in DOMAIN pairs : Heads(s, path, to, pairs[k], rel)

\* What a copy is at: a file to open, a directory to make or to read, or a file to fill.
AtWork == {"copyfile", "copymake", "copyread"}
CopyHas(call, s, path, to, d, b, w) ==
  /\ call \in AtWork =>
       \E first \in Reaches(s, path) :
         /\ w.at = Task(path, to, first)
         /\ SourceAt(s, path, first).kind = IF call = "copyfile" THEN "file" ELSE "dir"
         /\ call = "copyread" => Stands(s, path, to, d, first)
  /\ call = "transfer" =>
       \E first \in Reaches(s, path) :
         /\ w.inodes[1] = SourceAt(s, path, first).inode
         /\ Filling(s, path, to, d, first, w.inodes[2]) /\ b[w.inodes[2]] = <<>>

\* Each name of the source waits, has been copied, or is in what the copy is at.
CopyLeft(call, s, a, path, to, d, b, w) ==
  \A rel \in Reaches(s, path) :
    \/ Waits(s, path, to, w.todo, rel)
    \/ Arrived(s, a, path, to, d, b, rel)
    \/ call \in AtWork /\ Heads(s, path, to, w.at, rel)
    \/ call = "transfer" /\ Filling(s, path, to, d, rel, w.inodes[2])

CopyWorks(call, s, a, path, to, d, b, w) ==
  /\ Grown(s, path, to, d) /\ BytesStay(s, a, path, to, d, b)
  /\ w.todo \in Seq({Task(path, to, rel) : rel \in Reaches(s, path)})
  /\ CopyHas(call, s, path, to, d, b, w)
  /\ CopyLeft(call, s, a, path, to, d, b, w)

\* A copy of a source that is not there fails at once.
CopyingWork(call, q, found, d, b, w) ==
  call # "done" /\ Whole(found.disk, q.path) /\ ~Overlap(found.disk, q.path, q.to) =>
    IF Reaches(found.disk, q.path) = {}
    THEN call = "copy" /\ w.todo = <<[from |-> q.path, to |-> q.to]>> /\ d = found.disk
    ELSE CopyWorks(call, found.disk, found.data, q.path, q.to, d, b, w)

\* A task is that of one name.
LEMMA TaskIs ==
  ASSUME NEW path \in Seq(Names), NEW to \in Seq(Names), NEW rel \in Seq(Names),
         NEW one \in Seq(Names), Task(path, to, rel) = Task(path, to, one)
  PROVE  rel = one
<1>1. path \o rel = path \o one
  BY DEF Task
<1> QED
  BY <1>1, ConcatSimplifications

\* A way from the root to a copy is one that a copy goes.
LEMMA WayToCopy ==
  ASSUME NEW s, NEW a, NEW path, NEW to, Copyable(s, a, path, to),
         NEW rel \in Reaches(s, path), NEW k \in 0..Len(to \o rel)
  PROVE  SubSeq(to \o rel, 1, k) \in Towards(s, path, to)
<1>0. to \in Seq(Names) /\ path \in Seq(Names) /\ rel \in Seq(Names) /\ IsTree(s, a)
  BY SourceIs DEF Copyable
<1>a. Len(to) \in Nat /\ Len(rel) \in Nat /\ Len(to \o rel) = Len(to) + Len(rel)
  BY <1>0, LenProperties, ConcatProperties
<1>1. CASE k <= Len(to)
  <2>1. SubSeq(to \o rel, 1, k) = SubSeq(to, 1, k)
    BY <1>0, <1>a, <1>1
  <2> QED
    BY <1>a, <1>1, <2>1 DEF Towards
<1>2. CASE k > Len(to)
  <2> DEFINE n == k - Len(to)
             first == SubSeq(rel, 1, n)
             rest == SubSeq(rel, n + 1, Len(rel))
  <2>1. n \in 0..Len(rel)
    BY <1>a, <1>2
  <2>2. first \in Seq(Names) /\ rest \in Seq(Names) /\ rel = first \o rest /\ Len(first) = n
    BY <1>0, <2>1, PathParts
  <2>3. SubSeq(to \o rel, 1, k) = to \o first
    BY SMTT(40), <1>0, <1>a, <1>2
  <2>4. Under(rel, first)
    <3> HIDE DEF first, rest
    <3> QED
      BY <1>0, <2>2 DEF Under, IsPrefix
  <2> HIDE DEF first, rest
  <2>5. first \in Reaches(s, path)
    BY <1>0, <2>2, <2>4, ReachesBehind
  <2> QED
    BY <2>3, <2>5 DEF Towards
<1> QED
  BY <1>a, <1>1, <1>2

\* What stands, stands when there is more.
LEMMA StandsStays ==
  ASSUME NEW s, NEW a, NEW path, NEW to, Copyable(s, a, path, to),
         NEW d, NEW b, IsTree(d, b), NEW e, NEW c, IsTree(e, c), More(d, e),
         NEW rel \in Reaches(s, path), Stands(s, path, to, d, rel)
  PROVE  Stands(s, path, to, e, rel)
BY CopyStays DEF Stands

\* What has arrived stays so, if the bytes of its file do.
LEMMA ArrivedStays ==
  ASSUME NEW s, NEW a, NEW path, NEW to, Copyable(s, a, path, to),
         NEW d, NEW b, IsTree(d, b), NEW e, NEW c, IsTree(e, c), More(d, e),
         NEW rel \in Reaches(s, path), Arrived(s, a, path, to, d, b, rel),
         SourceAt(s, path, rel).kind = "file" =>
           c[d[CopyAt(d, to, rel).path].inode] = b[d[CopyAt(d, to, rel).path].inode]
  PROVE  Arrived(s, a, path, to, e, c, rel)
<1>1. Stands(s, path, to, d, rel) /\ Stands(s, path, to, e, rel)
  BY StandsStays DEF Arrived
<1>2. CopyAt(e, to, rel) = CopyAt(d, to, rel)
      /\ e[CopyAt(d, to, rel).path] = d[CopyAt(d, to, rel).path]
  BY <1>1, CopyStays DEF Stands
<1>3. ASSUME SourceAt(s, path, rel).kind = "file"
      PROVE  \E one \in Reaches(s, path) :
               /\ SourceAt(s, path, one).kind = "file" /\ CopyAt(e, to, one) = CopyAt(e, to, rel)
               /\ c[e[CopyAt(e, to, rel).path].inode] = a[SourceAt(s, path, one).inode]
  <2>1. PICK one \in Reaches(s, path) :
          /\ SourceAt(s, path, one).kind = "file" /\ CopyAt(d, to, one) = CopyAt(d, to, rel)
          /\ b[d[CopyAt(d, to, rel).path].inode] = a[SourceAt(s, path, one).inode]
    BY <1>3 DEF Arrived
  <2>2. CopyAt(d, to, one).error = "ok"
    BY <1>1, <2>1 DEF Stands
  <2>3. CopyAt(e, to, one) = CopyAt(d, to, one)
    BY <2>2, CopyStays
  <2> QED
    BY <1>2, <1>3, <2>1, <2>3
<1> QED
  BY <1>1, <1>3 DEF Arrived

\* Where a copy is.
LEMMA CopyIs ==
  ASSUME NEW s, NEW a, NEW path, NEW to, Copyable(s, a, path, to),
         NEW d, NEW b, IsTree(d, b), NEW rel \in Reaches(s, path), CopyAt(d, to, rel).error = "ok"
  PROVE  /\ CopyAt(d, to, rel) = Ok(CopyAt(d, to, rel).path)
         /\ CopyAt(d, to, rel).path \in DOMAIN d /\ CopyAt(d, to, rel).path \in Seq(Names)
<1> DEFINE way == to \o rel
<1>1. way \in Seq(Names)
  BY SourceIs
<1> HIDE DEF way
<1>2. There(d, way).error = "ok" /\ CopyAt(d, to, rel) = There(d, way)
  BY DEF CopyAt, way
<1>3. /\ There(d, way) = Ok(There(d, way).path)
      /\ There(d, way).path \in DOMAIN d /\ There(d, way).path \in Seq(Names)
  BY <1>1, <1>2, ThereIs
<1> QED
  BY <1>2, <1>3

\* The bytes of a file are kept that is not one of the copies.
LEMMA BytesStayOn ==
  ASSUME NEW s, NEW a, NEW path, NEW to, Copyable(s, a, path, to),
         NEW d, NEW b, IsTree(d, b), NEW e, NEW c, IsTree(e, c), More(s, d), More(d, e),
         BytesStay(s, a, path, to, d, b),
         \A i \in DOMAIN b :
           \/ c[i] = b[i]
           \/ \E rel \in Reaches(s, path) :
                CopyAt(e, to, rel).error = "ok" /\ e[CopyAt(e, to, rel).path].inode = i
  PROVE  BytesStay(s, a, path, to, e, c)
<1> SUFFICES ASSUME NEW p \in DOMAIN s
             PROVE  \/ c[s[p].inode] = a[s[p].inode]
                    \/ \E rel \in Reaches(s, path) : CopyAt(e, to, rel) = Ok(p)
  BY DEF BytesStay
<1>1. p \in DOMAIN d /\ d[p] = s[p] /\ p \in DOMAIN e /\ e[p] = s[p]
  BY DEF More
<1>2. CASE \E rel \in Reaches(s, path) : CopyAt(d, to, rel) = Ok(p)
  <2>1. PICK rel \in Reaches(s, path) : CopyAt(d, to, rel) = Ok(p)
    BY <1>2
  <2>2. CopyAt(d, to, rel).error = "ok"
    BY <2>1, OkIs
  <2> QED
    BY <2>1, <2>2, CopyStays
<1>3. CASE b[s[p].inode] = a[s[p].inode]
  <2> DEFINE i == s[p].inode
  <2>1. i \in DOMAIN b
    BY <1>1, TreeIs
  <2>2. CASE c[i] = b[i]
    BY <1>3, <2>2
  <2>3. CASE c[i] # b[i]
    <3>1. PICK rel \in Reaches(s, path) :
            CopyAt(e, to, rel).error = "ok" /\ e[CopyAt(e, to, rel).path].inode = i
      BY <2>1, <2>3
    <3>2. CopyAt(e, to, rel) = Ok(CopyAt(e, to, rel).path) /\ CopyAt(e, to, rel).path \in DOMAIN e
      BY <3>1, CopyIs
    <3>3. CopyAt(e, to, rel).path = p
      BY <1>1, <3>1, <3>2, TreeParts DEF Distinct
    <3> QED
      BY <3>2, <3>3
  <2> QED
    BY <2>2, <2>3
<1> QED
  BY <1>2, <1>3 DEF BytesStay

\* A directory that is made for a copy.
LEMMA CopyMakes ==
  ASSUME NEW s, NEW a, NEW path, NEW to, Copyable(s, a, path, to), IsTree(disk, data),
         NEW w, CopyWorks("copymake", s, a, path, to, disk, data, w),
         NEW call, call = MakeAll(w.at.to), call.error = "ok"
  PROVE  CopyWorks("copyread", s, a, path, to, call.disk, call.data, w)
<1>1. Grown(s, path, to, disk) /\ BytesStay(s, a, path, to, disk, data)
  BY DEF CopyWorks
<1>2. PICK first \in Reaches(s, path) :
        w.at = Task(path, to, first) /\ SourceAt(s, path, first).kind = "dir"
  <2>1. CopyHas("copymake", s, path, to, disk, data, w)
    BY DEF CopyWorks
  <2> QED
    BY <2>1 DEF CopyHas, AtWork
<1> DEFINE way == to \o first
<1>3. way \in Seq(Names) /\ way \in Towards(s, path, to) /\ w.at.to = way
  BY <1>2, SourceIs DEF Task
<1>4. PICK d : d = call.disk
  OBVIOUS
<1>5. PICK c : c = call.data
  OBVIOUS
<1>6. \A k \in 0..Len(way) : SubSeq(way, 1, k) \in Towards(s, path, to)
  BY WayToCopy
<1>7. CopyAt(d, to, first) = There(d, way)
  BY DEF CopyAt
<1> HIDE DEF way
<1>8. /\ IsTree(d, c) /\ More(disk, d) /\ There(d, way).error = "ok"
      /\ d[There(d, way).path].kind = "dir" /\ \A i \in DOMAIN data : c[i] = data[i]
      /\ \E k \in 0..Len(way) :
           /\ There(disk, SubSeq(way, 1, k)).error = "ok"
           /\ \A p \in DOMAIN d \ DOMAIN disk :
                /\ Under(There(d, way).path, p)
                /\ \A q \in DOMAIN disk : Under(p, q) => Under(There(disk, SubSeq(way, 1, k)).path, q)
  BY <1>3, <1>4, <1>5, MakeAllMakes
<1>9. Stands(s, path, to, d, first)
  BY <1>2, <1>7, <1>8 DEF Stands
<1>10. Grown(s, path, to, d)
  <2>1. PICK k \in 0..Len(way) :
          /\ There(disk, SubSeq(way, 1, k)).error = "ok"
          /\ \A p \in DOMAIN d \ DOMAIN disk :
               /\ Under(There(d, way).path, p)
               /\ \A q \in DOMAIN disk : Under(p, q) => Under(There(disk, SubSeq(way, 1, k)).path, q)
    BY <1>8
  <2> DEFINE part == SubSeq(way, 1, k)
  <2>2. part \in Towards(s, path, to)
    BY <1>6
  <2> HIDE DEF part
  <2>3. part \in Seq(Names)
    BY <2>2, TowardsAre
  <2>4. Where(disk, part).error = "ok" /\ There(disk, part) = Where(disk, part)
    BY <2>1, <2>3, ThereIs DEF part
  <2>5. ASSUME NEW p \in DOMAIN d \ DOMAIN disk, NEW source \in Sources(s, path), Under(p, source)
        PROVE  FALSE
    <3>1. source \in DOMAIN disk
      BY <1>1, SourcesAre DEF Grown, More
    <3>2. Under(Where(disk, part).path, source)
      BY <2>1, <2>4, <2>5, <3>1 DEF part
    <3> QED
      BY <1>1, <2>2, <2>4, <3>2, WaysApart
  <2>6. \A p \in DOMAIN d \ DOMAIN disk :
          CopyAt(d, to, first).error = "ok" /\ Under(CopyAt(d, to, first).path, p)
    BY <1>7, <1>8, <2>1
  <2> QED
    BY <1>1, <1>8, <2>5, <2>6, GrownOn
<1>11. BytesStay(s, a, path, to, d, c)
  BY <1>1, <1>8, BytesStayOn DEF Grown
<1>12. CopyHas("copyread", s, path, to, d, c, w)
  BY <1>2, <1>9 DEF CopyHas
<1>13. CopyLeft("copyread", s, a, path, to, d, c, w)
  <2> SUFFICES ASSUME NEW rel \in Reaches(s, path), Arrived(s, a, path, to, disk, data, rel)
               PROVE  Arrived(s, a, path, to, d, c, rel)
    BY DEF CopyWorks, CopyLeft, AtWork
  <2>1. CopyAt(disk, to, rel).path \in DOMAIN disk
    BY CopyIs DEF Arrived, Stands
  <2>2. disk[CopyAt(disk, to, rel).path].inode \in DOMAIN data
    BY <2>1, TreeIs
  <2> QED
    BY <1>8, <2>2, ArrivedStays
<1> QED
  BY <1>4, <1>5, <1>10, <1>11, <1>12, <1>13 DEF CopyWorks

\* A file that is opened for a copy.
LEMMA CopyOpens ==
  ASSUME NEW s, NEW a, NEW path, NEW to, Copyable(s, a, path, to), IsTree(disk, data),
         NEW w, CopyWorks("copyfile", s, a, path, to, disk, data, w),
         NEW call, call = OpenEmpty(w.at.to), call.error = "ok",
         NEW v, v.todo = w.todo,
         v.inodes[1] = disk[There(disk, w.at.from).path].inode,
         v.inodes[2] = call.disk[Where(disk, w.at.to).path].inode
  PROVE  CopyWorks("transfer", s, a, path, to, call.disk, call.data, v)
<1>1. Grown(s, path, to, disk) /\ BytesStay(s, a, path, to, disk, data)
  BY DEF CopyWorks
<1>2. PICK first \in Reaches(s, path) :
        w.at = Task(path, to, first) /\ SourceAt(s, path, first).kind = "file"
  <2>1. CopyHas("copyfile", s, path, to, disk, data, w)
    BY DEF CopyWorks
  <2> QED
    BY <2>1 DEF CopyHas, AtWork
<1> DEFINE way == to \o first
<1>3. way \in Seq(Names) /\ way \in Towards(s, path, to) /\ w.at.to = way
  BY <1>2, SourceIs DEF Task
<1>4. PICK d : d = call.disk
  OBVIOUS
<1>5. PICK c : c = call.data
  OBVIOUS
<1>6. CopyAt(d, to, first) = There(d, way)
  BY DEF CopyAt
<1> HIDE DEF way
<1> DEFINE p == Where(disk, way).path
           i == d[p].inode
<1>7. /\ IsTree(d, c) /\ More(disk, d) /\ Where(disk, way).error = "ok"
      /\ There(d, way) = Ok(p) /\ p \in Seq(Names)
      /\ d[p].kind = "file" /\ \A q \in DOMAIN d \ DOMAIN disk : q = p
      /\ \A n \in DOMAIN data : n = i \/ c[n] = data[n]
      /\ c[i] = <<>>
  BY <1>3, <1>4, <1>5, OpenEmptyOpens
<1>8. v.inodes[2] = i
  BY <1>3, <1>4
<1>9. v.inodes[1] = SourceAt(s, path, first).inode
  <2>1. There(disk, path \o first) = There(s, path \o first)
        /\ disk[There(s, path \o first).path] = SourceAt(s, path, first)
    BY <1>1, SourceStays
  <2>2. w.at.from = path \o first
    BY <1>2 DEF Task
  <2> QED
    BY <2>1, <2>2
<1>10. \A source \in Sources(s, path) : ~Under(p, source)
  BY <1>1, <1>3, <1>7, WaysApart
<1> HIDE DEF p
<1>11. CopyAt(d, to, first).error = "ok" /\ CopyAt(d, to, first).path = p
  BY <1>6, <1>7, OkIs
<1>12. Filling(s, path, to, d, first, i)
  BY <1>2, <1>7, <1>11 DEF Filling, Stands
<1>13. p \in DOMAIN d
  BY <1>7, <1>11, CopyIs
<1>14. Grown(s, path, to, d)
  <2>1. Under(p, p)
    BY <1>7, UnderSelf
  <2> QED
    BY <1>1, <1>7, <1>10, <1>11, <2>1, GrownOn
<1>15. BytesStay(s, a, path, to, d, c)
  BY <1>1, <1>7, <1>11, BytesStayOn DEF Grown
<1>16. CopyHas("transfer", s, path, to, d, c, v)
  <2> HIDE DEF i
  <2> QED
    BY <1>7, <1>8, <1>9, <1>12 DEF CopyHas, AtWork
<1>17. ASSUME NEW rel \in Reaches(s, path), Arrived(s, a, path, to, disk, data, rel)
       PROVE  Arrived(s, a, path, to, d, c, rel) \/ Filling(s, path, to, d, rel, i)
  <2> DEFINE q == CopyAt(disk, to, rel).path
  <2>1. Stands(s, path, to, disk, rel)
    BY <1>17 DEF Arrived
  <2>2. CopyAt(d, to, rel) = CopyAt(disk, to, rel) /\ d[q] = disk[q] /\ Stands(s, path, to, d, rel)
    BY <1>7, <2>1, CopyStays, StandsStays DEF Stands
  <2>3. q \in DOMAIN disk /\ q \in DOMAIN d
    BY <1>7, <2>1, CopyIs DEF More, Stands
  <2>4. disk[q].inode \in DOMAIN data
    BY <2>3, TreeIs
  <2>5. CASE q = p /\ SourceAt(s, path, rel).kind = "file"
    BY <2>2, <2>5 DEF Filling
  <2>6. CASE q # p
    <3>1. disk[q].inode # i
      BY <1>7, <1>13, <2>2, <2>3, <2>6, TreeParts DEF Distinct
    <3>2. c[disk[q].inode] = data[disk[q].inode]
      BY <1>7, <2>4, <3>1
    <3> QED
      BY <1>7, <1>17, <3>2, ArrivedStays
  <2>7. CASE SourceAt(s, path, rel).kind # "file"
    BY <1>7, <1>17, <2>7, ArrivedStays
  <2> QED
    BY <2>5, <2>6, <2>7
<1>18. ASSUME NEW rel \in Reaches(s, path), Heads(s, path, to, w.at, rel)
       PROVE  rel = first
  <2>1. PICK one \in Reaches(s, path) : w.at = Task(path, to, one) /\ Under(rel, one)
    BY <1>18 DEF Heads
  <2>2. /\ path \in Seq(Names) /\ to \in Seq(Names) /\ IsTree(s, a)
        /\ one \in Seq(Names) /\ first \in Seq(Names)
    BY SourceIs DEF Copyable
  <2>3. one = first
    <3>1. Task(path, to, one) = Task(path, to, first)
      BY <1>2, <2>1
    <3> QED
      BY <2>2, <3>1, TaskIs
  <2>4. Under(rel, first)
    BY <2>1, <2>3
  <2>5. rel # first => s[There(s, path \o first).path].kind = "dir"
    BY ONLY <2>2, <2>4, rel \in Reaches(s, path), ReachesBehind
  <2> QED
    BY <1>2, <2>5 DEF SourceAt
<1>19. CopyLeft("transfer", s, a, path, to, d, c, v)
  <2> HIDE DEF i
  <2> SUFFICES ASSUME NEW rel \in Reaches(s, path)
               PROVE  \/ Waits(s, path, to, v.todo, rel)
                      \/ Arrived(s, a, path, to, d, c, rel)
                      \/ Filling(s, path, to, d, rel, v.inodes[2])
    BY DEF CopyLeft
  <2>1. \/ Waits(s, path, to, w.todo, rel)
        \/ Arrived(s, a, path, to, disk, data, rel)
        \/ Heads(s, path, to, w.at, rel)
    BY DEF CopyWorks, CopyLeft
  <2> QED
    BY SMTT(40), <1>8, <1>12, <1>17, <1>18, <2>1
<1> QED
  BY <1>4, <1>5, <1>14, <1>15, <1>16, <1>19 DEF CopyWorks

\* The bytes of a file are copied.
LEMMA CopyFills ==
  ASSUME NEW s, NEW a, NEW path, NEW to, Copyable(s, a, path, to), IsTree(disk, data),
         NEW w, CopyWorks("transfer", s, a, path, to, disk, data, w),
         NEW c, IsTree(disk, c),
         c = [data EXCEPT ![w.inodes[2]] = IF w.inodes[1] = w.inodes[2] THEN @
                                           ELSE Overlay(data[w.inodes[1]], @)]
  PROVE  CopyWorks("copy", s, a, path, to, disk, c, w)
<1>1. Grown(s, path, to, disk) /\ BytesStay(s, a, path, to, disk, data) /\ More(disk, disk)
  BY DEF CopyWorks, More
<1> DEFINE from == w.inodes[1]
           into == w.inodes[2]
<1>2. PICK first \in Reaches(s, path) :
        /\ from = SourceAt(s, path, first).inode /\ Filling(s, path, to, disk, first, into)
        /\ data[into] = <<>>
  <2>1. CopyHas("transfer", s, path, to, disk, data, w)
    BY DEF CopyWorks
  <2> QED
    BY <2>1 DEF CopyHas
<1> HIDE DEF from, into
<1>3. /\ CopyAt(disk, to, first).error = "ok" /\ SourceAt(s, path, first).kind = "file"
      /\ disk[CopyAt(disk, to, first).path].inode = into
      /\ CopyAt(disk, to, first).path \in DOMAIN disk
      /\ CopyAt(disk, to, first) = Ok(CopyAt(disk, to, first).path)
  BY <1>2, CopyIs DEF Filling, Stands
<1>4. from # into
  BY <1>1, <1>2, <1>3, CopyIsOther
<1>5. into \in DOMAIN data
  BY <1>3, TreeIs
<1>6. from \in DOMAIN data /\ data[from] \in Seq(0..NotText)
  <2>1. PICK p : p = There(s, path \o first).path
    OBVIOUS
  <2>2. p \in DOMAIN s /\ from = s[p].inode
    BY <1>2, <2>1, SourceIs DEF SourceAt
  <2>3. p \in DOMAIN disk /\ from = disk[p].inode
    BY <1>1, <2>2 DEF Grown, More
  <2>4. from \in DOMAIN data
    BY <2>3, TreeIs
  <2> QED
    BY <2>4 DEF IsTree
<1>7. data[from] = a[from]
  BY <1>1, <1>2, SourceBytes
<1>8. /\ \A i \in DOMAIN data : i # into => c[i] = data[i]
      /\ c[into] = Overlay(data[from], <<>>)
  BY <1>2, <1>4, <1>5 DEF from, into
<1>9. c[into] = a[from]
  BY <1>6, <1>7, <1>8, OverlayNothing
<1>10. BytesStay(s, a, path, to, disk, c)
  BY ZenonT(60), <1>1, <1>3, <1>8, BytesStayOn DEF Grown
<1>11. ASSUME NEW rel \in Reaches(s, path), Filling(s, path, to, disk, rel, into)
       PROVE  Arrived(s, a, path, to, disk, c, rel)
  <2>1. /\ Stands(s, path, to, disk, rel)
        /\ disk[CopyAt(disk, to, rel).path].inode = into
        /\ CopyAt(disk, to, rel).path \in DOMAIN disk
        /\ CopyAt(disk, to, rel) = Ok(CopyAt(disk, to, rel).path)
    BY <1>11, CopyIs DEF Filling, Stands
  <2>2. CopyAt(disk, to, rel).path = CopyAt(disk, to, first).path
    BY <1>3, <2>1, TreeParts DEF Distinct
  <2>3. CopyAt(disk, to, first) = CopyAt(disk, to, rel)
    BY <1>3, <2>1, <2>2
  <2> QED
    BY <1>2, <1>3, <1>9, <2>1, <2>3 DEF Arrived
<1>12. ASSUME NEW rel \in Reaches(s, path), Arrived(s, a, path, to, disk, data, rel)
       PROVE  Arrived(s, a, path, to, disk, c, rel)
  <2>1. Stands(s, path, to, disk, rel)
    BY <1>12 DEF Arrived
  <2> DEFINE i == disk[CopyAt(disk, to, rel).path].inode
  <2>2. i \in DOMAIN data
    BY <2>1, CopyIs, TreeIs DEF Stands
  <2>3. CASE i = into /\ SourceAt(s, path, rel).kind = "file"
    BY <1>11, <2>1, <2>3 DEF Filling
  <2>4. CASE i # into
    <3>1. c[i] = data[i]
      BY <1>8, <2>2, <2>4
    <3> QED
      BY <1>1, <1>12, <3>1, ArrivedStays
  <2>5. CASE SourceAt(s, path, rel).kind # "file"
    BY <1>1, <1>12, <2>5, ArrivedStays
  <2> QED
    BY <2>3, <2>4, <2>5
<1>13. CopyLeft("copy", s, a, path, to, disk, c, w)
  BY <1>11, <1>12 DEF CopyWorks, CopyLeft, AtWork, into
<1>14. CopyHas("copy", s, path, to, disk, c, w)
  BY DEF CopyHas, AtWork
<1> QED
  BY <1>1, <1>10, <1>13, <1>14 DEF CopyWorks

\* A read of a directory finds each of its names.
LEMMA NamesFound ==
  ASSUME IsTree(disk, data), NEW path \in Seq(Names), NEW names \in SetToSeqs(NamesIn(path))
  PROVE  /\ \A k \in DOMAIN names : names[k] \in NamesIn(path)
         /\ \A n \in NamesIn(path) : \E k \in DOMAIN names : names[k] = n
<1> DEFINE S == NamesIn(path)
           D == 1..Cardinality(S)
<1>1. IsFiniteSet(S) /\ Cardinality(S) \in Nat
  BY NamesFinite, FS_CardinalityType
<1>2. names \in [D -> S] /\ \A i, j \in D : i # j => names[i] # names[j]
  BY DEF SetToSeqs
<1>3. IsFiniteSet(D) /\ Cardinality(D) = Cardinality(S)
  <2> HIDE DEF S
  <2>1. 1 \in Int /\ Cardinality(S) \in Int
    BY <1>1
  <2>2. IsFiniteSet(1..Cardinality(S))
        /\ Cardinality(1..Cardinality(S)) = IF 1 > Cardinality(S) THEN 0 ELSE Cardinality(S) - 1 + 1
    BY <2>1, FS_Interval
  <2> QED
    BY <1>1, <2>2
<1> HIDE DEF D, S
<1>4. names \in Injection(D, S)
  BY <1>2 DEF Injection, IsInjective
<1>5. names \in Surjection(D, S)
  BY <1>1, <1>3, <1>4, FS_Injection
<1> QED
  BY <1>2, <1>5 DEF Surjection, S

\* What a read of a directory of the source finds is in the source.
LEMMA FoundIsSource ==
  ASSUME NEW s, NEW a, NEW path, NEW to, Copyable(s, a, path, to), IsTree(disk, data),
         Grown(s, path, to, disk), NEW first \in Reaches(s, path)
  PROVE  /\ \A n \in NamesIn(path \o first) : n \in Names /\ Append(first, n) \in Reaches(s, path)
         /\ \A n \in Names : Append(There(s, path \o first).path, n) \in DOMAIN s =>
              n \in NamesIn(path \o first)
<1> DEFINE from == path \o first
           p == There(s, from).path
<1>1. /\ from \in Seq(Names) /\ first \in Seq(Names) /\ p \in DOMAIN s /\ p \in Seq(Names)
      /\ p \in Sources(s, path) /\ There(disk, from) = There(s, from)
  BY SourceIs, SourceStays
<1>2. NamesIn(from) = {Last(q) : q \in Children(disk, p)}
  BY <1>1 DEF NamesIn, Stat, There
<1>3. \A q \in Children(s, p) : Append(first, Last(q)) \in Reaches(s, path)
  BY DEF Copyable, Whole, There
<1> HIDE DEF from, p
<1>4. ASSUME NEW n \in NamesIn(from) PROVE n \in Names /\ Append(first, n) \in Reaches(s, path)
  <2>1. PICK q \in Children(disk, p) : n = Last(q)
    BY <1>2
  <2>2. q \in DOMAIN disk /\ Last(q) \in Names /\ Under(q, p) /\ Len(q) = Len(p) + 1
    BY <1>1, ChildIs DEF Present, Children
  <2>3. q \in DOMAIN s
    BY <1>1, <2>2 DEF Grown
  <2>4. q \in Children(s, p)
    BY <2>2, <2>3 DEF Children
  <2> QED
    BY <1>3, <2>1, <2>2, <2>4
<1>5. ASSUME NEW n \in Names, Append(p, n) \in DOMAIN s PROVE n \in NamesIn(from)
  <2> DEFINE q == Append(p, n)
  <2>1. q \in DOMAIN disk
    BY <1>5 DEF Grown, More
  <2>2. Under(q, p)
    BY <1>1, UnderSelf
  <2>3. Len(q) = Len(p) + 1 /\ Last(q) = n
    BY ONLY <1>1, n \in Names, AppendProperties DEF Last
  <2> HIDE DEF q
  <2>4. q \in Children(disk, p)
    BY <2>1, <2>2, <2>3 DEF Children
  <2> QED
    BY <1>2, <2>3, <2>4
<1> QED
  BY <1>4, <1>5 DEF from, p

\* What is in a directory waits to be copied.
LEMMA CopyReads ==
  ASSUME NEW s, NEW a, NEW path, NEW to, Copyable(s, a, path, to), IsTree(disk, data),
         NEW w, CopyWorks("copyread", s, a, path, to, disk, data, w),
         NEW names \in SetToSeqs(NamesIn(w.at.from)),
         NEW v, v.todo = w.todo \o [k \in DOMAIN names |-> [from |-> Append(w.at.from, names[k]),
                                                            to |-> Append(w.at.to, names[k])]]
  PROVE  CopyWorks("copy", s, a, path, to, disk, data, v)
<1>1. /\ Grown(s, path, to, disk) /\ BytesStay(s, a, path, to, disk, data)
      /\ IsTree(s, a) /\ path \in Seq(Names) /\ to \in Seq(Names)
  BY DEF CopyWorks, Copyable
<1>2. PICK first \in Reaches(s, path) :
        /\ w.at = Task(path, to, first) /\ SourceAt(s, path, first).kind = "dir"
        /\ Stands(s, path, to, disk, first)
  <2>1. CopyHas("copyread", s, path, to, disk, data, w)
    BY DEF CopyWorks
  <2> QED
    BY <2>1 DEF CopyHas, AtWork
<1> DEFINE tasks == {Task(path, to, rel) : rel \in Reaches(s, path)}
           m == [k \in DOMAIN names |-> Task(path, to, Append(first, names[k]))]
<1>3. first \in Seq(Names) /\ w.at.from = path \o first /\ w.at.to = to \o first
  BY <1>2, SourceIs DEF Task
<1>4. names \in Seq(Names) /\ w.at.from \in Seq(Names)
  <2>1. w.at.from \in Seq(Names)
    BY <1>2, <1>3, SourceIs
  <2> QED
    BY <2>1, NamesAre
<1>5. /\ \A k \in DOMAIN names : names[k] \in NamesIn(w.at.from)
      /\ \A n \in NamesIn(w.at.from) : \E k \in DOMAIN names : names[k] = n
  BY <1>4, NamesFound
<1>6. /\ \A n \in NamesIn(w.at.from) : n \in Names /\ Append(first, n) \in Reaches(s, path)
      /\ \A n \in Names : Append(There(s, path \o first).path, n) \in DOMAIN s =>
           n \in NamesIn(w.at.from)
  BY <1>1, <1>3, FoundIsSource
<1>7. v.todo = w.todo \o m
  <2>1. ASSUME NEW n \in Names
        PROVE  [from |-> Append(w.at.from, n), to |-> Append(w.at.to, n)]
                 = Task(path, to, Append(first, n))
    <3>1. path \o Append(first, n) = Append(path \o first, n)
      BY SMTT(40), <1>1, <1>3, ConcatAppend
    <3>2. to \o Append(first, n) = Append(to \o first, n)
      BY <1>1, <1>3, ConcatAppend
    <3> QED
      BY <1>3, <3>1, <3>2 DEF Task
  <2>2. \A k \in DOMAIN names : [from |-> Append(w.at.from, names[k]), to |-> Append(w.at.to, names[k])]
                                 = Task(path, to, Append(first, names[k]))
    BY <1>5, <1>6, <2>1
  <2> QED
    BY <2>2
<1>8. /\ DOMAIN m = 1..Len(names) /\ Len(names) \in Nat /\ DOMAIN names = 1..Len(names)
      /\ \A k \in DOMAIN names : m[k] = Task(path, to, Append(first, names[k])) /\ m[k] \in tasks
  BY <1>4, <1>5, <1>6, LenProperties
<1>9. m \in Seq(tasks) /\ Len(m) = Len(names)
  <2>1. m \in [1..Len(names) -> tasks]
    BY <1>8
  <2> HIDE DEF m, tasks
  <2> QED
    BY <1>8, <2>1
<1>10. w.todo \in Seq(tasks)
  BY DEF CopyWorks
<1> HIDE DEF m, tasks
<1>11. /\ v.todo \in Seq(tasks) /\ DOMAIN v.todo = 1..(Len(w.todo) + Len(names))
       /\ DOMAIN w.todo = 1..Len(w.todo) /\ Len(w.todo) \in Nat
       /\ \A k \in 1..Len(w.todo) : v.todo[k] = w.todo[k]
       /\ \A k \in 1..Len(names) : v.todo[Len(w.todo) + k] = m[k]
  <2>1. PICK x : x = w.todo
    OBVIOUS
  <2>2. x \in Seq(tasks) /\ v.todo = x \o m /\ Len(x) \in Nat /\ DOMAIN x = 1..Len(x)
    BY <1>7, <1>10, <2>1, LenProperties
  <2>3. /\ x \o m \in Seq(tasks) /\ Len(x \o m) = Len(x) + Len(names)
        /\ DOMAIN (x \o m) = 1..(Len(x) + Len(names))
        /\ \A k \in 1..Len(x) : (x \o m)[k] = x[k]
        /\ \A k \in 1..Len(names) : (x \o m)[Len(x) + k] = m[k]
    <3> DEFINE y == x \o m
    <3>1. /\ y \in Seq(tasks) /\ Len(y) = Len(x) + Len(m)
          /\ \A i \in 1..(Len(x) + Len(m)) : y[i] = IF i <= Len(x) THEN x[i] ELSE m[i - Len(x)]
      <4>1. PICK T : T = tasks
        OBVIOUS
      <4>2. x \in Seq(T) /\ m \in Seq(T)
        BY <1>9, <2>2, <4>1
      <4>3. /\ y \in Seq(T) /\ Len(y) = Len(x) + Len(m)
            /\ \A i \in 1..(Len(x) + Len(m)) : y[i] = IF i <= Len(x) THEN x[i] ELSE m[i - Len(x)]
        BY ONLY <4>2, ConcatProperties
      <4> QED
        BY <4>1, <4>3
    <3>2. /\ Len(x) \in Nat /\ Len(m) \in Nat /\ Len(m) = Len(names)
      BY <1>8, <1>9, <2>2
    <3> HIDE DEF y
    <3>3. DOMAIN y = 1..Len(y)
      BY ONLY <3>1, LenProperties
    <3>4. \A i \in 1..Len(x) : y[i] = x[i]
      BY ONLY <3>1, <3>2
    <3>5. \A i \in 1..Len(names) : y[Len(x) + i] = m[i]
      <4> SUFFICES ASSUME NEW i \in 1..Len(names) PROVE y[Len(x) + i] = m[i]
        OBVIOUS
      <4>1. /\ Len(x) + i \in 1..(Len(x) + Len(m)) /\ ~(Len(x) + i <= Len(x))
            /\ (Len(x) + i) - Len(x) = i
        BY ONLY <3>2, i \in 1..Len(names)
      <4>2. y[Len(x) + i] = m[(Len(x) + i) - Len(x)]
        BY ONLY <3>1, <4>1
      <4> QED
        BY ONLY <4>1, <4>2
    <3>6. Len(y) = Len(x) + Len(names) /\ DOMAIN y = 1..(Len(x) + Len(names))
      BY ONLY <3>1, <3>2, <3>3
    <3> QED
      BY ONLY Zenon, <3>1, <3>4, <3>5, <3>6 DEF y
  <2> QED
    BY <2>1, <2>2, <2>3
<1>12. ASSUME NEW rel \in Reaches(s, path), Waits(s, path, to, w.todo, rel)
       PROVE  Waits(s, path, to, v.todo, rel)
  <2>1. PICK k \in DOMAIN w.todo : Heads(s, path, to, w.todo[k], rel)
    BY <1>12 DEF Waits
  <2>2. k \in DOMAIN v.todo /\ v.todo[k] = w.todo[k]
    BY <1>8, <1>11
  <2> QED
    BY <2>1, <2>2 DEF Waits
<1>13. ASSUME NEW rel \in Reaches(s, path), Heads(s, path, to, w.at, rel)
       PROVE  Waits(s, path, to, v.todo, rel) \/ Arrived(s, a, path, to, disk, data, rel)
  <2>1. PICK one \in Reaches(s, path) : w.at = Task(path, to, one) /\ Under(rel, one)
    BY <1>13 DEF Heads
  <2>2. one \in Seq(Names)
    BY SourceIs
  <2>3. one = first
    <3>1. Task(path, to, one) = Task(path, to, first)
      BY <1>2, <2>1
    <3> QED
      BY <1>1, <1>3, <2>2, <3>1, TaskIs
  <2>4. CASE rel = first
    BY <1>2, <2>4 DEF Arrived
  <2>5. CASE rel # first
    <3>1. PICK n \in Names : /\ Append(first, n) \in Reaches(s, path) /\ Under(rel, Append(first, n))
                             /\ Append(There(s, path \o first).path, n) \in DOMAIN s
      <4>1. Under(rel, first)
        BY <2>1, <2>3
      <4> QED
        BY ONLY <1>1, <1>3, <2>5, <4>1, rel \in Reaches(s, path), ReachesNext
    <3>2. PICK k \in DOMAIN names : names[k] = n
      BY <1>5, <1>6, <3>1
    <3>3. v.todo[Len(w.todo) + k] = Task(path, to, Append(first, n))
          /\ Len(w.todo) + k \in DOMAIN v.todo
      BY ONLY <1>8, <1>11, <3>2, k \in DOMAIN names
    <3> QED
      BY <3>1, <3>3 DEF Waits, Heads
  <2> QED
    BY <2>4, <2>5
<1>14. CopyLeft("copy", s, a, path, to, disk, data, v)
  BY <1>12, <1>13 DEF CopyWorks, CopyLeft, AtWork
<1>15. CopyHas("copy", s, path, to, disk, data, v)
  BY DEF CopyHas, AtWork
<1> QED
  BY <1>1, <1>11, <1>14, <1>15 DEF CopyWorks, tasks

\* Nothing more on a path is the path.
LEMMA NothingMore ==
  ASSUME NEW path \in Seq(Names)
  PROVE  path \o <<>> = path /\ <<>> \in Seq(Names) /\ \A p \in Seq(Names) : Under(p, <<>>)
<1>1. path \o <<>> = path /\ <<>> \in Seq(Names)
  BY ConcatEmptySeq, EmptySeq
<1>2. ASSUME NEW p \in Seq(Names) PROVE Under(p, <<>>)
  <2>1. p = <<>> \o p
    BY ConcatEmptySeq
  <2> QED
    BY <1>1, <2>1, ConcatIs
<1> QED
  BY <1>1, <1>2

\* The next pair of a copy is a directory to make or a file to open.
LEMMA CopyPops ==
  ASSUME NEW s, NEW a, NEW path, NEW to, Copyable(s, a, path, to), IsTree(disk, data),
         NEW w, CopyWorks("copy", s, a, path, to, disk, data, w), w.todo # <<>>,
         NEW v, v.todo = Front(w.todo), v.at = Last(w.todo),
         NEW call, call = IF Kind(There(disk, v.at.from).path) = "dir" THEN "copymake"
                          ELSE "copyfile"
  PROVE  CopyWorks(call, s, a, path, to, disk, data, v)
<1>1. Grown(s, path, to, disk) /\ BytesStay(s, a, path, to, disk, data)
  BY DEF CopyWorks
<1> DEFINE tasks == {Task(path, to, rel) : rel \in Reaches(s, path)}
<1>2. /\ w.todo \in Seq(tasks) /\ v.todo \in Seq(tasks) /\ v.at \in tasks
      /\ w.todo = Append(v.todo, v.at)
  <2>1. PICK x : x = w.todo
    OBVIOUS
  <2>2. x \in Seq(tasks) /\ x # Root
    BY <2>1 DEF CopyWorks, Root
  <2> HIDE DEF tasks
  <2>3. Front(x) \in Seq(tasks) /\ Last(x) \in tasks /\ x = Append(Front(x), Last(x))
    BY <2>2, FrontLast
  <2> QED
    BY <2>1, <2>2, <2>3
<1>3. PICK first \in Reaches(s, path) : v.at = Task(path, to, first)
  BY <1>2
<1>4. Kind(There(disk, v.at.from).path) = SourceAt(s, path, first).kind
  <2>1. There(disk, path \o first) = There(s, path \o first)
        /\ disk[There(s, path \o first).path] = SourceAt(s, path, first)
    BY <1>1, SourceStays
  <2>2. There(s, path \o first).path \in DOMAIN disk
    BY <1>1, SourceIs DEF Grown, More
  <2> QED
    BY <1>3, <2>1, <2>2 DEF Kind, Present, Task
<1>5. SourceAt(s, path, first).kind \in {"dir", "file"}
  BY SourceIs
<1>6. call \in {"copymake", "copyfile"}
      /\ SourceAt(s, path, first).kind = IF call = "copyfile" THEN "file" ELSE "dir"
  BY <1>4, <1>5
<1>7. CopyHas(call, s, path, to, disk, data, v)
  BY <1>3, <1>6 DEF CopyHas
<1>8. ASSUME NEW rel \in Reaches(s, path), Waits(s, path, to, w.todo, rel)
      PROVE  Waits(s, path, to, v.todo, rel) \/ Heads(s, path, to, v.at, rel)
  <2>1. PICK k \in DOMAIN w.todo : Heads(s, path, to, w.todo[k], rel)
    BY <1>8 DEF Waits
  <2>2. (k \in DOMAIN v.todo /\ v.todo[k] = w.todo[k]) \/ w.todo[k] = v.at
    <3>1. PICK x : x = v.todo
      OBVIOUS
    <3>2. PICK z : z = v.at
      OBVIOUS
    <3>3. x \in Seq(tasks) /\ z \in tasks /\ w.todo = Append(x, z)
      BY <1>2, <3>1, <3>2
    <3> HIDE DEF tasks
    <3>4. /\ Len(Append(x, z)) = Len(x) + 1 /\ Len(x) \in Nat /\ DOMAIN x = 1..Len(x)
          /\ DOMAIN Append(x, z) = 1..(Len(x) + 1)
          /\ \A i \in 1..Len(x) : Append(x, z)[i] = x[i]
          /\ Append(x, z)[Len(x) + 1] = z
      BY ONLY <3>3, AppendProperties, LenProperties
    <3>5. k \in 1..Len(x) \/ k = Len(x) + 1
      BY <3>3, <3>4
    <3> QED
      BY <3>1, <3>2, <3>3, <3>4, <3>5
  <2> QED
    BY <2>1, <2>2 DEF Waits
<1>9. CopyLeft(call, s, a, path, to, disk, data, v)
  <2> SUFFICES ASSUME NEW rel \in Reaches(s, path)
               PROVE  \/ Waits(s, path, to, v.todo, rel)
                      \/ Arrived(s, a, path, to, disk, data, rel)
                      \/ Heads(s, path, to, v.at, rel)
    BY <1>6 DEF CopyLeft, AtWork
  <2>1. Waits(s, path, to, w.todo, rel) \/ Arrived(s, a, path, to, disk, data, rel)
    BY DEF CopyWorks, CopyLeft, AtWork
  <2> QED
    BY <1>8, <2>1
<1> QED
  BY <1>1, <1>2, <1>7, <1>9 DEF CopyWorks

\* A copy begins with the disk it found and one pair.
LEMMA CopyBegins ==
  ASSUME NEW s, NEW a, NEW path, NEW to, Copyable(s, a, path, to), Reaches(s, path) # {},
         NEW w, w.todo = <<[from |-> path, to |-> to]>>
  PROVE  CopyWorks("copy", s, a, path, to, s, a, w)
<1>1. IsTree(s, a) /\ path \in Seq(Names) /\ to \in Seq(Names)
  BY DEF Copyable
<1>2. Task(path, to, <<>>) = [from |-> path, to |-> to]
  BY <1>1, NothingMore DEF Task
<1>3. \A rel \in Reaches(s, path) : Under(rel, <<>>)
  BY <1>1, SourceIs, NothingMore
<1>4. <<>> \in Reaches(s, path)
  BY <1>1, <1>3, NothingMore, ReachesBehind
<1>5. Grown(s, path, to, s) /\ BytesStay(s, a, path, to, s, a)
  BY DEF Grown, More, BytesStay
<1> DEFINE pair == Task(path, to, <<>>)
           tasks == {Task(path, to, rel) : rel \in Reaches(s, path)}
<1>6. w.todo = <<pair>> /\ pair \in tasks
  BY <1>2, <1>4
<1>7. \A rel \in Reaches(s, path) : Heads(s, path, to, pair, rel)
  BY <1>3, <1>4 DEF Heads
<1> HIDE DEF pair, tasks
<1>8. w.todo \in Seq(tasks) /\ 1 \in DOMAIN w.todo /\ w.todo[1] = pair
  BY <1>6
<1>9. CopyLeft("copy", s, a, path, to, s, a, w)
  BY <1>7, <1>8 DEF CopyLeft, Waits
<1>10. CopyHas("copy", s, path, to, s, a, w)
  BY DEF CopyHas, AtWork
<1> QED
  BY <1>5, <1>8, <1>9, <1>10 DEF CopyWorks, tasks

\* When nothing waits all has been copied, and nothing else has changed.
LEMMA CopyEnds ==
  ASSUME NEW r, NEW s, NEW a, NEW path, NEW to, Copyable(s, a, path, to), IsTree(disk, data),
         s = before[r].disk, a = before[r].data, path = req[r].path, to = req[r].to,
         NEW w, CopyWorks("copy", s, a, path, to, disk, data, w), w.todo = <<>>
  PROVE  Copied(r, disk, data) /\ OthersKept(r, disk, data)
<1>1. Grown(s, path, to, disk) /\ BytesStay(s, a, path, to, disk, data)
  BY DEF CopyWorks
<1>2. \A rel \in Reaches(s, path) : Arrived(s, a, path, to, disk, data, rel)
  <2>1. \A rel \in Reaches(s, path) : ~Waits(s, path, to, w.todo, rel)
    BY SMTT(40) DEF Waits
  <2> QED
    BY <2>1 DEF CopyWorks, CopyLeft, AtWork
<1>3. Copied(r, disk, data)
  <2>1. Copied(r, disk, data) <=>
          \A rel \in Reaches(s, path) :
            /\ CopyAt(disk, to, rel).error = "ok"
            /\ disk[CopyAt(disk, to, rel).path].kind = SourceAt(s, path, rel).kind
            /\ SourceAt(s, path, rel).kind = "file" =>
                 \E one \in Reaches(s, path) :
                   /\ SourceAt(s, path, one).kind = "file"
                   /\ CopyAt(disk, to, one) = CopyAt(disk, to, rel)
                   /\ data[disk[CopyAt(disk, to, rel).path].inode] = a[SourceAt(s, path, one).inode]
    BY DEF Copied, CopyAt, SourceAt, There
  <2> QED
    BY <1>2, <2>1 DEF Arrived, Stands
<1> DEFINE targets == {Entry(disk, to \o rel, TRUE).path : rel \in Reaches(s, path)}
<1>4. \A rel \in Reaches(s, path) : CopyAt(disk, to, rel).path \in targets
  BY DEF CopyAt, There
<1>5. OthersKept(r, disk, data) <=>
        /\ \A p \in DOMAIN s : p \in DOMAIN disk /\ disk[p] = s[p]
        /\ \A p \in DOMAIN s \ targets : data[s[p].inode] = a[s[p].inode]
        /\ \A p \in DOMAIN disk \ DOMAIN s : \E t \in targets : Under(t, p)
  BY DEF OthersKept
<1> HIDE DEF targets
<1>6. \A p \in DOMAIN s : p \in DOMAIN disk /\ disk[p] = s[p]
  BY <1>1 DEF Grown, More
<1>7. ASSUME NEW p \in DOMAIN s \ targets PROVE data[s[p].inode] = a[s[p].inode]
  <2>1. ASSUME NEW rel \in Reaches(s, path), CopyAt(disk, to, rel) = Ok(p) PROVE FALSE
    <3>1. CopyAt(disk, to, rel).path = p
      BY <2>1, OkIs
    <3> QED
      BY <1>4, <3>1
  <2> QED
    BY <1>1, <2>1 DEF BytesStay
<1>8. \A p \in DOMAIN disk \ DOMAIN s : \E t \in targets : Under(t, p)
  BY <1>1, <1>4 DEF Grown
<1> QED
  BY <1>3, <1>5, <1>6, <1>7, <1>8

\* A request that copies is in one of the calls of a copy.
LEMMA CopySteps ==
  ASSUME Working, NEW r \in Requests, req[r].op = "copy", Step(r)
  PROVE  CopyPop(r) \/ CopyOpen(r) \/ Transfer(r) \/ CopyMake(r) \/ CopyRead(r)
<1>1. pc[r] \in {"start", "copy", "copyfile", "transfer", "copymake", "copyread", "done"}
  <2>1. pc[r] \in Stages("copy")
    BY DEF Working
  <2>2. Stages("copy") = {"start", "copy", "done"} \cup {"copyfile", "transfer", "copymake", "copyread"}
    BY SMTT(60), FirstCallIs DEF Stages, CopyCalls
  <2> QED
    BY SMTT(60), <2>1, <2>2
<1>2. ~(Make(r) \/ MoveTo(r) \/ Temp(r) \/ Open(r) \/ Write(r) \/ Patch(r) \/ OpenOld(r))
  BY <1>1 DEF Make, MoveTo, Temp, Open, Write, Patch, OpenOld
<1>3. ~(SetLen(r) \/ Look(r) \/ WalkDir(r))
  BY <1>1 DEF SetLen, Look, WalkDir
<1>4. ~(Probe(r) \/ RemoveOne(r) \/ RemoveAll(r) \/ ClearOne(r) \/ ClearBlocked(r) \/ ClearEnd(r))
  BY <1>1 DEF Probe, RemoveOne, RemoveAll, ClearOne, ClearBlocked, ClearEnd
<1> QED
  BY <1>2, <1>3, <1>4 DEF Step

\* The request of a copy.
CopyOf(r, s, a, path, to) ==
  /\ r \in Requests /\ Working /\ Copyable(s, a, path, to)
  /\ CopyWorks(pc[r], s, a, path, to, disk, data, work[r])

LEMMA CopyOfIs ==
  ASSUME NEW r, NEW s, NEW a, NEW path, NEW to, CopyOf(r, s, a, path, to)
  PROVE  /\ r \in DOMAIN pc /\ r \in DOMAIN answer /\ r \in DOMAIN work /\ DOMAIN work[r] = Fields
         /\ IsTree(disk, data) /\ Copyable(s, a, path, to)
         /\ CopyWorks(pc[r], s, a, path, to, disk, data, work[r])
BY DEF CopyOf, Working

\* The next pair.
LEMMA CopyPopGoes ==
  ASSUME NEW r, NEW s, NEW a, NEW path, NEW to, CopyOf(r, s, a, path, to), CopyPop(r)
  PROVE  \/ /\ pc'[r] = "done" /\ work[r].todo = <<>> /\ disk' = disk /\ data' = data
         \/ pc'[r] # "done" /\ CopyWorks(pc'[r], s, a, path, to, disk', data', work'[r])
<1>1. /\ r \in DOMAIN pc /\ r \in DOMAIN work /\ DOMAIN work[r] = Fields /\ pc[r] = "copy"
      /\ IsTree(disk, data) /\ Copyable(s, a, path, to)
      /\ CopyWorks("copy", s, a, path, to, disk, data, work[r])
  BY CopyOfIs DEF CopyPop
<1>2. CASE work[r].todo = <<>>
  BY <1>1, <1>2 DEF CopyPop, Ends, diskVars
<1>3. CASE work[r].todo # <<>>
  <2> DEFINE pair == Last(work[r].todo)
             l == There(disk, pair.from)
             call == IF Kind(l.path) = "dir" THEN "copymake" ELSE "copyfile"
             v == [work[r] EXCEPT !.todo = Front(@), !.at = pair]
  <2>1. v.todo = Front(work[r].todo) /\ v.at = pair
    BY <1>1 DEF Fields, Idle
  <2>2. disk' = disk /\ data' = data /\ IF l.error = "ok" THEN Goes(r, call) /\ Holds(r, v) ELSE TRUE
    BY <1>3 DEF CopyPop, Finds, There, Stat, diskVars
  <2> HIDE DEF v
  <2>3. CopyWorks(call, s, a, path, to, disk, data, v)
    BY <1>1, <1>3, <2>1, CopyPops
  <2>4. l.error = "ok"
    <3>1. PICK rel \in Reaches(s, path) : pair = Task(path, to, rel)
      <4> DEFINE tasks == {Task(path, to, rel) : rel \in Reaches(s, path)}
      <4>1. PICK x : x = work[r].todo
        OBVIOUS
      <4>2. x \in Seq(tasks) /\ x # Root
        BY <1>1, <1>3, <4>1 DEF CopyWorks, Root
      <4> HIDE DEF tasks
      <4>3. Last(x) \in tasks
        BY <4>2, FrontLast
      <4> QED
        BY <4>1, <4>3 DEF tasks
    <3>2. There(disk, path \o rel) = There(s, path \o rel) /\ There(s, path \o rel).error = "ok"
      BY <1>1, SourceStays, SourceIs DEF CopyWorks
    <3> QED
      BY <3>1, <3>2 DEF Task
  <2>6. call # "done"
    OBVIOUS
  <2> HIDE DEF call, pair
  <2>5. pc'[r] = call /\ work'[r] = v
    BY <1>1, <2>2, <2>4 DEF Goes, Holds
  <2> QED
    BY <2>2, <2>3, <2>5, <2>6
<1> QED
  BY <1>2, <1>3

\* A file is opened.
LEMMA CopyOpenGoes ==
  ASSUME NEW r, NEW s, NEW a, NEW path, NEW to, CopyOf(r, s, a, path, to), CopyOpen(r)
  PROVE  \/ pc'[r] = "done" /\ answer'[r] # 204
         \/ pc'[r] # "done" /\ CopyWorks(pc'[r], s, a, path, to, disk', data', work'[r])
<1>1. /\ r \in DOMAIN pc /\ r \in DOMAIN answer /\ r \in DOMAIN work /\ DOMAIN work[r] = Fields
      /\ IsTree(disk, data) /\ Copyable(s, a, path, to) /\ pc[r] = "copyfile"
      /\ CopyWorks("copyfile", s, a, path, to, disk, data, work[r])
  BY SMTT(40), CopyOfIs DEF CopyOpen
<1> DEFINE from == There(disk, work[r].at.from)
           way == work[r].at.to
           checks == <<Resolved(from), <<Kind(from.path) = "dir", "InvalidInput">>>>
           call == Unless(checks, OpenEmpty(way))
           v == [work[r] EXCEPT !.inodes = <<disk[from.path].inode,
                                             call.disk[Where(disk, way).path].inode>>]
<1>2. /\ disk' = call.disk /\ data' = call.data
      /\ IF call.error = "ok" THEN Goes(r, "transfer") /\ Holds(r, v)
         ELSE Ends(r, StatusOf(call.error))
  BY DEF CopyOpen, Then, Does, There, Where, Stat
<1>3. /\ v.todo = work[r].todo /\ v.inodes[1] = disk[from.path].inode
      /\ v.inodes[2] = call.disk[Where(disk, way).path].inode
  BY <1>1 DEF Fields, Idle
<1> HIDE DEF v
<1>4. CASE call.error # "ok"
  <2> HIDE DEF call
  <2> QED
    BY <1>1, <1>2, <1>4, DoneIs DEF Ends
<1>5. CASE call.error = "ok"
  <2>1. call = OpenEmpty(way)
    <3>1. /\ DOMAIN checks = 1..2
          /\ checks[1][1] <=> from.error # "ok"
          /\ checks[1][2] = from.error /\ checks[2][2] = "InvalidInput"
      <4>1. DOMAIN checks = 1..2
        OBVIOUS
      <4>2. checks[1][1] <=> from.error # "ok"
        BY DEF Resolved
      <4>3. checks[1][2] = from.error /\ checks[2][2] = "InvalidInput"
        BY DEF Resolved
      <4> HIDE DEF checks, from
      <4> QED
        BY <4>1, <4>2, <4>3
    <3> HIDE DEF checks, from
    <3>2. \A k \in 1..2 : checks[k][1] => checks[k][2] # "ok"
      BY <3>1
    <3> DEFINE open == OpenEmpty(way)
    <3>3. \/ Unless(checks, open) = open
          \/ \E e : Unless(checks, open) = Fails(e) /\ e # "ok"
      <4> DEFINE n == 2
      <4>1. n \in Nat /\ DOMAIN checks = 1..n /\ \A k \in 1..n : checks[k][1] => checks[k][2] # "ok"
        BY <3>1, <3>2
      <4>2. \/ Unless(checks, open) = open /\ \A k \in 1..n : ~checks[k][1]
            \/ \E e : Unless(checks, open) = Fails(e) /\ e # "ok"
        <5> HIDE DEF n, open
        <5> QED
          BY SMTT(40), <4>1, UnlessIs
      <4> QED
        BY <4>2
    <3> QED
      BY <1>5, <3>3, FailsIs
  <2> HIDE DEF call
  <2>2. CopyWorks("transfer", s, a, path, to, call.disk, call.data, v)
    BY <1>1, <1>3, <1>5, <2>1, CopyOpens
  <2>3. pc'[r] = "transfer" /\ work'[r] = v
    BY SMTT(40), <1>1, <1>2, <1>5 DEF Goes, Holds
  <2> QED
    BY <1>2, <2>2, <2>3
<1> QED
  BY SMTT(40), <1>4, <1>5

\* Its bytes are copied.
LEMMA TransferGoes ==
  ASSUME NEW r, NEW s, NEW a, NEW path, NEW to, CopyOf(r, s, a, path, to), Transfer(r),
         IsTree(disk', data')
  PROVE  pc'[r] # "done" /\ CopyWorks(pc'[r], s, a, path, to, disk', data', work'[r])
<1>1. /\ r \in DOMAIN pc /\ IsTree(disk, data) /\ Copyable(s, a, path, to)
      /\ CopyWorks("transfer", s, a, path, to, disk, data, work[r])
  BY CopyOfIs DEF Transfer
<1>2. PICK c : c = data'
  OBVIOUS
<1>3. /\ disk' = disk /\ work' = work /\ pc'[r] = "copy" /\ IsTree(disk, c)
      /\ c = [data EXCEPT ![work[r].inodes[2]] =
                IF work[r].inodes[1] = work[r].inodes[2] THEN @
                ELSE Overlay(data[work[r].inodes[1]], @)]
  BY <1>1, <1>2 DEF Transfer, Goes
<1>4. CopyWorks("copy", s, a, path, to, disk, c, work[r])
  <2> DEFINE w == work[r]
  <2>1. /\ CopyWorks("transfer", s, a, path, to, disk, data, w)
        /\ c = [data EXCEPT ![w.inodes[2]] = IF w.inodes[1] = w.inodes[2] THEN @
                                             ELSE Overlay(data[w.inodes[1]], @)]
    BY <1>1, <1>3
  <2> HIDE DEF w
  <2>2. CopyWorks("copy", s, a, path, to, disk, c, w)
    BY <1>1, <1>3, <2>1, CopyFills
  <2> QED
    BY <2>2 DEF w
<1> QED
  BY <1>2, <1>3, <1>4

\* A directory is made.
LEMMA CopyMakeGoes ==
  ASSUME NEW r, NEW s, NEW a, NEW path, NEW to, CopyOf(r, s, a, path, to), CopyMake(r)
  PROVE  \/ pc'[r] = "done" /\ answer'[r] # 204
         \/ pc'[r] # "done" /\ CopyWorks(pc'[r], s, a, path, to, disk', data', work'[r])
<1>1. /\ r \in DOMAIN pc /\ r \in DOMAIN answer /\ IsTree(disk, data) /\ Copyable(s, a, path, to)
      /\ CopyWorks("copymake", s, a, path, to, disk, data, work[r])
  BY CopyOfIs DEF CopyMake
<1> DEFINE call == MakeAll(work[r].at.to)
<1>2. /\ disk' = call.disk /\ data' = call.data /\ work' = work
      /\ IF call.error = "ok" THEN Goes(r, "copyread") ELSE Ends(r, StatusOf(call.error))
  BY DEF CopyMake, Then, Does
<1>3. CASE call.error # "ok"
  <2> HIDE DEF call
  <2> QED
    BY <1>1, <1>2, <1>3, DoneIs DEF Ends
<1>4. CASE call.error = "ok"
  <2>1. CopyWorks("copyread", s, a, path, to, call.disk, call.data, work[r])
    BY <1>1, <1>4, CopyMakes
  <2> HIDE DEF call
  <2>2. pc'[r] = "copyread"
    BY <1>1, <1>2, <1>4 DEF Goes
  <2> QED
    BY <1>2, <2>1, <2>2
<1> QED
  BY <1>3, <1>4

\* A directory is read.
LEMMA CopyReadGoes ==
  ASSUME NEW r, NEW s, NEW a, NEW path, NEW to, CopyOf(r, s, a, path, to), CopyRead(r)
  PROVE  \/ pc'[r] = "done" /\ answer'[r] # 204
         \/ pc'[r] # "done" /\ CopyWorks(pc'[r], s, a, path, to, disk', data', work'[r])
<1>1. /\ r \in DOMAIN pc /\ r \in DOMAIN answer /\ r \in DOMAIN work /\ DOMAIN work[r] = Fields
      /\ IsTree(disk, data) /\ Copyable(s, a, path, to)
      /\ CopyWorks("copyread", s, a, path, to, disk, data, work[r])
  BY ZenonT(60), CopyOfIs DEF CopyRead
<1> DEFINE w == work[r]
           m(names) == [k \in DOMAIN names |-> [from |-> Append(w.at.from, names[k]),
                                                to |-> Append(w.at.to, names[k])]]
           v(names) == [w EXCEPT !.todo = @ \o m(names)]
           error == ReadDirError(w.at.from)
<1>2. /\ disk' = disk /\ data' = data
      /\ IF error = "ok"
         THEN Goes(r, "copy") /\ \E names \in SetToSeqs(NamesIn(w.at.from)) : Holds(r, v(names))
         ELSE Ends(r, StatusOf(error))
  BY DEF CopyRead, Finds, diskVars
<1> HIDE DEF error
<1>3. CASE error # "ok"
  BY <1>1, <1>2, <1>3, DoneIs DEF Ends
<1>4. CASE error = "ok"
  <2>1. PICK names \in SetToSeqs(NamesIn(w.at.from)) : Holds(r, v(names))
    BY <1>2, <1>4
  <2>2. pc'[r] = "copy" /\ work'[r] = v(names)
    BY <1>1, <1>2, <1>4, <2>1 DEF Goes, Holds
  <2> DEFINE u == v(names)
  <2>3. u.todo = w.todo \o m(names)
    BY <1>1 DEF Fields, Idle
  <2> HIDE DEF u
  <2>4. CopyWorks("copy", s, a, path, to, disk, data, u)
    BY <1>1, <2>3, CopyReads
  <2> QED
    BY <1>2, <2>2, <2>4 DEF u
<1> QED
  BY SMTT(40), <1>3, <1>4

\* A copy that nobody disturbs goes on, and has copied all when it is answered.
LEMMA CopiesOn ==
  ASSUME Working, NEW r \in Requests, req[r].op = "copy", Step(r), IsTree(disk', data'),
         IsTree(before[r].disk, before[r].data),
         CopyingWork(pc[r], req[r], before[r], disk, data, work[r])
  PROVE  /\ CopyingWork(pc'[r], req[r], before[r], disk', data', work'[r])
         /\ /\ pc'[r] = "done" /\ answer'[r] = 204
            /\ Whole(before[r].disk, req[r].path)
            /\ ~Overlap(before[r].disk, req[r].path, req[r].to)
            => Copied(r, disk', data') /\ OthersKept(r, disk', data')
<1> SUFFICES ASSUME Whole(before[r].disk, req[r].path),
                    ~Overlap(before[r].disk, req[r].path, req[r].to)
             PROVE  /\ CopyingWork(pc'[r], req[r], before[r], disk', data', work'[r])
                    /\ pc'[r] = "done" /\ answer'[r] = 204 =>
                         Copied(r, disk', data') /\ OthersKept(r, disk', data')
  BY DEF CopyingWork
<1>1. PICK s : s = before[r].disk
  OBVIOUS
<1>2. PICK a : a = before[r].data
  OBVIOUS
<1>3. PICK path : path = req[r].path
  OBVIOUS
<1>4. PICK to : to = req[r].to
  OBVIOUS
<1>5. Copyable(s, a, path, to)
  <2>1. path \in Seq(Names) /\ to \in Seq(Names)
    BY SMTT(40), <1>3, <1>4, AskedIs DEF Working
  <2> QED
    BY <1>1, <1>2, <1>3, <1>4, <2>1 DEF Copyable
<1>6. pc[r] # "done"
  BY ZenonT(60), CopySteps DEF CopyPop, CopyOpen, Transfer, CopyMake, CopyRead
<1>7. CASE Reaches(s, path) = {}
  <2>1. /\ pc[r] = "copy" /\ work[r].todo = <<[from |-> path, to |-> to]>> /\ disk = s
    BY SMTT(40), <1>1, <1>3, <1>4, <1>6, <1>7 DEF CopyingWork
  <2>2. CopyPop(r)
    BY ZenonT(60), <2>1, CopySteps DEF CopyOpen, Transfer, CopyMake, CopyRead
  <2>3. Stat(path).error # "ok"
    <3>1. path \o <<>> = path /\ <<>> \in Seq(Names) /\ path \in Seq(Names) /\ Linked(s)
      BY <1>5, NothingMore, TreeIs DEF Copyable
    <3>2. There(s, path).error # "ok"
      BY <1>7, <3>1, ReachesIs
    <3> QED
      BY <2>1, <3>2 DEF There, Stat
  <2>4. Last(work[r].todo).from = path /\ work[r].todo # <<>>
    BY <2>1 DEF Last
  <2>5. Ends(r, StatusOf(Stat(path).error))
    BY <2>2, <2>3, <2>4 DEF CopyPop, Finds
  <2>6. pc'[r] = "done" /\ answer'[r] # 204
    BY <2>3, <2>5, DoneIs DEF Ends, Working
  <2> QED
    BY <2>6 DEF CopyingWork
<1>8. CASE Reaches(s, path) # {}
  <2>1. CopyWorks(pc[r], s, a, path, to, disk, data, work[r])
    BY <1>1, <1>2, <1>3, <1>4, <1>6, <1>8 DEF CopyingWork
  <2>2. CopyOf(r, s, a, path, to)
    BY <1>5, <2>1 DEF CopyOf
  <2>3. \/ /\ pc'[r] = "done" /\ pc[r] = "copy" /\ work[r].todo = <<>>
           /\ disk' = disk /\ data' = data
        \/ pc'[r] = "done" /\ answer'[r] # 204
        \/ pc'[r] # "done" /\ CopyWorks(pc'[r], s, a, path, to, disk', data', work'[r])
    <3>1. CASE CopyPop(r)
      <4>1. pc[r] = "copy"
        BY <3>1 DEF CopyPop
      <4> QED
        BY <2>2, <3>1, <4>1, CopyPopGoes
    <3>2. CASE CopyOpen(r)
      BY <2>2, <3>2, CopyOpenGoes
    <3>3. CASE Transfer(r)
      BY <2>2, <3>3, TransferGoes
    <3>4. CASE CopyMake(r)
      BY <2>2, <3>4, CopyMakeGoes
    <3>5. CASE CopyRead(r)
      BY <2>2, <3>5, CopyReadGoes
    <3> QED
      BY <3>1, <3>2, <3>3, <3>4, <3>5, CopySteps
  <2>4. CASE pc'[r] = "done" /\ pc[r] = "copy" /\ work[r].todo = <<>>
             /\ disk' = disk /\ data' = data
    <3>1. CopyWorks("copy", s, a, path, to, disk, data, work[r]) /\ IsTree(disk, data)
      BY <2>1, <2>4 DEF Working
    <3>2. Copied(r, disk, data) /\ OthersKept(r, disk, data)
      BY <1>1, <1>2, <1>3, <1>4, <1>5, <2>4, <3>1, CopyEnds
    <3> QED
      BY <2>4, <3>2 DEF CopyingWork
  <2>5. CASE pc'[r] = "done" /\ answer'[r] # 204
    BY <2>5 DEF CopyingWork
  <2>6. CASE CopyWorks(pc'[r], s, a, path, to, disk', data', work'[r]) /\ pc'[r] # "done"
    BY <1>1, <1>2, <1>3, <1>4, <1>8, <2>6 DEF CopyingWork
  <2> QED
    BY <2>3, <2>4, <2>5, <2>6
<1> QED
  BY <1>7, <1>8

-----------------------------------------------------------------------------
(* What every step of an edit keeps.                                       *)

\* What is to be known of an edit that nobody has disturbed.
Edits(r) ==
  UnderWay(r) /\ alone[r] =>
    /\ IsTree(before[r].disk, before[r].data)
    /\ req[r].op = "remove" => RemoveWork(pc[r], req[r], before[r], disk, work[r])
    /\ req[r].op = "copy" => CopyingWork(pc[r], req[r], before[r], disk, data, work[r])
    /\ req[r].op = "patch" => PatchWork(pc[r], req[r], before[r], disk, data, work[r])
Editing == \A r \in Requests : Edits(r)

\* The step of another request leaves an edit that is still undisturbed as it is.
LEMMA OthersEdit ==
  ASSUME NEW q, Edits(q), UNCHANGED req,
         pc'[q] = pc[q], work'[q] = work[q], before'[q] = before[q],
         UnderWay(q) /\ alone'[q] => alone[q] /\ disk' = disk /\ data' = data
  PROVE  Edits(q)'
<1> SUFFICES ASSUME UnderWay(q), alone'[q]
             PROVE  /\ IsTree(before[q].disk, before[q].data)
                    /\ req[q].op = "remove" =>
                         RemoveWork(pc[q], req[q], before[q], disk, work[q])
                    /\ req[q].op = "copy" =>
                         CopyingWork(pc[q], req[q], before[q], disk, data, work[q])
                    /\ req[q].op = "patch" =>
                         PatchWork(pc[q], req[q], before[q], disk, data, work[q])
                    /\ disk' = disk /\ data' = data
  BY DEF Edits, UnderWay
<1> QED
  BY DEF Edits

\* An edit that begins has found the disk as it is.
LEMMA BeginEdits ==
  ASSUME Working, DOMAIN before = Requests, NEW r \in Requests, Begin(r), Arrives(r),
         UNCHANGED req
  PROVE  Edits(r)'
<1>1. /\ disk' = disk /\ data' = data /\ before'[r].disk = disk /\ before'[r].data = data
      /\ IsTree(disk, data) /\ pc'[r] = FirstCall[req[r].op]
  BY DEF Begin, Arrives, Goes, Working, diskVars
<1>2. req[r].op = "remove" => RemoveWork(pc'[r], req[r], before'[r], disk', work'[r])
  BY <1>1, FirstCallIs DEF RemoveWork
<1>3. req[r].op = "patch" => PatchWork(pc'[r], req[r], before'[r], disk', data', work'[r])
  BY <1>1, FirstCallIs DEF PatchWork
<1>4. ASSUME req[r].op = "copy"
      PROVE  CopyingWork(pc'[r], req[r], before'[r], disk', data', work'[r])
  <2> DEFINE path == req[r].path
             to == req[r].to
             w == work'[r]
  <2>1. r \in DOMAIN work /\ path \in Seq(Names) /\ to \in Seq(Names)
    BY AskedIs DEF Working
  <2>2. pc'[r] = "copy" /\ w.todo = <<[from |-> path, to |-> to]>>
    BY <1>1, <1>4, <2>1, FirstCallIs DEF Begin, Holds, Idle
  <2>3. ASSUME Whole(disk, path), ~Overlap(disk, path, to), Reaches(disk, path) # {}
        PROVE  CopyWorks("copy", disk, data, path, to, disk, data, w)
    <3>1. Copyable(disk, data, path, to)
      BY <1>1, <2>1, <2>3 DEF Copyable
    <3> HIDE DEF path, to, w
    <3> QED
      BY <2>2, <2>3, <3>1, CopyBegins
  <2> HIDE DEF w
  <2> QED
    BY <1>1, <2>2, <2>3 DEF CopyingWork, w
<1> QED
  BY <1>1, <1>2, <1>3, <1>4 DEF Edits

\* At first no edit is under way.
LEMMA InitEditing == Init => Editing
BY DEF Init, Editing, Edits, UnderWay

\* Every step keeps it.
LEMMA NextEditing == TreeInv /\ Editing /\ [Next]_vars => Editing'
<1> SUFFICES ASSUME TreeInv, Editing, [Next]_vars PROVE Editing'
  OBVIOUS
<1>0. Working /\ DOMAIN before = Requests /\ \A q \in Requests : Edits(q)
  BY DEF TreeInv, TempWork, Editing
<1>4. IsTree(disk', data')
  BY NextTree DEF TreeInv, Working
<1>1. CASE UNCHANGED vars
  <2>1. UNCHANGED <<disk, data, req, pc, work, before, alone>>
    BY <1>1 DEF vars, diskVars, requestVars, historyVars
  <2>2. \A q \in Requests : Edits(q)'
    BY <1>0, <2>1, OthersEdit
  <2> QED
    BY <2>2 DEF Editing
<1>2. ASSUME NEW r \in Requests, Begin(r), Arrives(r), UNCHANGED req PROVE Editing'
  <2>1. Serves(r)
    BY <1>0, <1>2, BeginServes
  <2>2. ASSUME NEW q \in Requests PROVE Edits(q)'
    <3>1. CASE q = r
      BY <1>0, <1>2, <3>1, BeginEdits
    <3>2. CASE q # r
      <4>1. /\ pc'[q] = pc[q] /\ work'[q] = work[q] /\ before'[q] = before[q]
            /\ alone' = alone /\ disk' = disk /\ data' = data
        BY <1>0, <1>2, <2>1, <3>2 DEF Serves, Others, Arrives, Begin, diskVars
      <4> QED
        BY <1>0, <1>2, <4>1, OthersEdit
    <3> QED
      BY <3>1, <3>2
  <2> QED
    BY <2>2 DEF Editing
<1>3. ASSUME NEW r \in Requests, Step(r), Watches(r), UNCHANGED req PROVE Editing'
  <2>1. Serves(r) /\ UnderWay(r)
    BY <1>0, <1>3, StepServes DEF UnderWay
  <2>2. /\ before' = before
        /\ \A q \in Requests : alone'[q] => alone[q] /\ (q = r \/ ~UnderWay(q) \/ diskVars' = diskVars)
    BY <1>3 DEF Watches
  <2>3. ASSUME NEW q \in Requests PROVE Edits(q)'
    <3>1. CASE q = r
      <4> SUFFICES ASSUME alone'[r]
                   PROVE  /\ IsTree(before[r].disk, before[r].data)
                          /\ req[r].op = "remove" =>
                               RemoveWork(pc'[r], req[r], before[r], disk', work'[r])
                          /\ req[r].op = "copy" =>
                               CopyingWork(pc'[r], req[r], before[r], disk', data', work'[r])
                          /\ req[r].op = "patch" =>
                               PatchWork(pc'[r], req[r], before[r], disk', data', work'[r])
        BY <1>3, <2>2, <3>1 DEF Edits
      <4>1. /\ IsTree(before[r].disk, before[r].data)
            /\ req[r].op = "remove" => RemoveWork(pc[r], req[r], before[r], disk, work[r])
            /\ req[r].op = "copy" => CopyingWork(pc[r], req[r], before[r], disk, data, work[r])
            /\ req[r].op = "patch" => PatchWork(pc[r], req[r], before[r], disk, data, work[r])
        BY <1>0, <2>1, <2>2 DEF Edits
      <4>2. req[r].op = "remove" => RemoveWork(pc'[r], req[r], before[r], disk', work'[r])
        BY <1>0, <1>3, <4>1, RemovalWorks
      <4>3. req[r].op = "patch" => PatchWork(pc'[r], req[r], before[r], disk', data', work'[r])
        BY <1>0, <1>3, <4>1, PatchWorks
      <4>4. req[r].op = "copy" =>
              CopyingWork(pc'[r], req[r], before[r], disk', data', work'[r])
        BY <1>0, <1>3, <1>4, <4>1, CopiesOn
      <4> QED
        BY <4>1, <4>2, <4>3, <4>4
    <3>2. CASE q # r
      <4>1. pc'[q] = pc[q] /\ work'[q] = work[q] /\ before'[q] = before[q]
        BY <2>1, <2>2, <3>2 DEF Serves, Others
      <4>2. UnderWay(q) /\ alone'[q] => alone[q] /\ disk' = disk /\ data' = data
        BY <2>2, <3>2 DEF diskVars
      <4> QED
        BY <1>0, <1>3, <4>1, <4>2, OthersEdit
    <3> QED
      BY <3>1, <3>2
  <2> QED
    BY <2>3 DEF Editing
<1> QED
  BY <1>1, <1>2, <1>3 DEF Next

\* Who is answered has made that step.
LEMMA AnswersItself ==
  ASSUME TreeInv, [Next]_vars, NEW r \in Requests, UnderWay(r), pc'[r] = "done"
  PROVE  Step(r) /\ Watches(r)
<1>0. Working
  BY DEF TreeInv
<1>1. CASE UNCHANGED vars
  BY <1>1 DEF vars, requestVars, UnderWay
<1>2. ASSUME NEW q \in Requests, Begin(q) PROVE FALSE
  <2>1. Serves(q) /\ pc'[q] # "done"
    BY <1>0, <1>2, BeginServes
  <2> QED
    BY <2>1 DEF Serves, Others, UnderWay
<1>3. ASSUME NEW q \in Requests, Step(q), Watches(q) PROVE q = r
  <2>1. Serves(q)
    BY <1>0, <1>3, StepServes
  <2> QED
    BY <2>1 DEF Serves, Others, UnderWay
<1> QED
  BY <1>1, <1>2, <1>3 DEF Next

\* A DELETE answered 204 saw its target gone, and one that nobody disturbed took it and what is
\* below it, and nothing else.
THEOREM RemovalsRemove == Spec => RemoveRemoves
<1>1. Init => TreeInv /\ Editing
  BY InitTree, InitEditing
<1>2. TreeInv /\ Editing /\ [Next]_vars => (TreeInv /\ Editing)'
  BY NextTree, NextEditing
<1>3. ASSUME TreeInv, Editing, [Next]_vars, NEW r \in Requests, Answers(r, "remove", 204)
      PROVE  absent'[r] /\ (alone'[r] => disk' = AfterRemove(before[r].disk, req[r].path))
  <2>1. /\ UnderWay(r) /\ pc'[r] = "done" /\ req[r].op = "remove" /\ answer'[r] = 204
        /\ Working /\ Edits(r)
    BY <1>3 DEF Answers, TreeInv, Editing
  <2>2. Step(r) /\ Watches(r)
    BY <1>3, <2>1, AnswersItself
  <2>3. Gone(disk', req[r].path)
    BY <2>1, <2>2, RemovalSeesItGone
  <2>4. Free(disk', r)
    BY <2>3 DEF Gone, Free
  <2>5. absent'[r] /\ (alone'[r] => alone[r])
    BY <2>1, <2>2, <2>4 DEF Watches
  <2>6. ASSUME alone[r] PROVE disk' = AfterRemove(before[r].disk, req[r].path)
    <3>1. /\ IsTree(before[r].disk, before[r].data)
          /\ RemoveWork(pc[r], req[r], before[r], disk, work[r])
      BY <2>1, <2>6 DEF Edits
    <3> QED
      BY <2>1, <2>2, <3>1, RemovalWorks
  <2> QED
    BY <2>5, <2>6
<1>4. TreeInv /\ Editing /\ [Next]_vars =>
        [\A r \in Requests : Answers(r, "remove", 204) =>
           /\ absent'[r]
           /\ alone'[r] =>
                LET d == before[r].disk
                    path == req[r].path
                    l == Locate(d, path, FALSE)
                    Stays(p) == \/ l.error # "ok"
                                \/ ~Under(p, l.path)
                                \/ p = l.path /\ LeadsThroughIt(d, path, l)
                IN  disk' = [q \in {p \in DOMAIN d : Stays(p)} |-> d[q]]]_vars
  BY <1>3 DEF AfterRemove
<1> QED
  BY <1>1, <1>2, <1>4, PTL DEF Spec, RemoveRemoves

\* A copy answered 204 that nobody disturbed put the whole source at its destination, and changed
\* nothing else.
THEOREM CopiesCopy == Spec => CopyCopies
<1>1. Init => TreeInv /\ Editing
  BY InitTree, InitEditing
<1>2. TreeInv /\ Editing /\ [Next]_vars => (TreeInv /\ Editing)'
  BY NextTree, NextEditing
<1>3. ASSUME TreeInv, Editing, [Next]_vars, NEW r \in Requests,
             Answers(r, "copy", 204), alone'[r],
             Whole(before[r].disk, req[r].path),
             ~Overlap(before[r].disk, req[r].path, req[r].to)
      PROVE  Copied(r, disk', data') /\ OthersKept(r, disk', data')
  <2>1. /\ UnderWay(r) /\ pc'[r] = "done" /\ req[r].op = "copy" /\ answer'[r] = 204
        /\ Working /\ Edits(r)
    BY <1>3 DEF Answers, TreeInv, Editing
  <2>2. Step(r) /\ Watches(r)
    BY <1>3, <2>1, AnswersItself
  <2>3. alone[r]
    BY <1>3, <2>2 DEF Watches
  <2>4. /\ IsTree(before[r].disk, before[r].data)
        /\ CopyingWork(pc[r], req[r], before[r], disk, data, work[r])
    BY <2>1, <2>3 DEF Edits
  <2>5. IsTree(disk', data')
    BY <1>3, NextTree DEF TreeInv, Working
  <2> QED
    BY <1>3, <2>1, <2>2, <2>4, <2>5, CopiesOn
<1>4. TreeInv /\ Editing /\ [Next]_vars =>
        [\A r \in Requests :
           LET found == before[r].disk IN
           Answers(r, "copy", 204) /\ alone'[r]
             /\ Whole(found, req[r].path) /\ ~Overlap(found, req[r].path, req[r].to) =>
           Copied(r, disk', data') /\ OthersKept(r, disk', data')]_vars
  BY <1>3
<1> QED
  BY <1>1, <1>2, <1>4, PTL DEF Spec, CopyCopies

\* A patch answered 204 that nobody disturbed was made for the text it met, and is all that has
\* changed.
THEOREM PatchesPatch == Spec => PatchPatches
<1>1. Init => TreeInv /\ Editing
  BY InitTree, InitEditing
<1>2. TreeInv /\ Editing /\ [Next]_vars => (TreeInv /\ Editing)'
  BY NextTree, NextEditing
<1>3. ASSUME TreeInv, Editing, [Next]_vars, NEW r \in Requests, Answers(r, "patch", 204),
             alone'[r]
      PROVE  LET old == before[r]
                 file == old.disk[Entry(old.disk, req[r].path, TRUE).path].inode
             IN  /\ old.data[file] = req[r].old
                 /\ disk' = old.disk
                 /\ data' = [old.data EXCEPT ![file] = req[r].content]
  <2>1. /\ UnderWay(r) /\ pc'[r] = "done" /\ req[r].op = "patch" /\ answer'[r] = 204
        /\ Working /\ Edits(r)
    BY <1>3 DEF Answers, TreeInv, Editing
  <2>2. Step(r) /\ Watches(r)
    BY <1>3, <2>1, AnswersItself
  <2>3. alone[r]
    BY <1>3, <2>2 DEF Watches
  <2>4. /\ IsTree(before[r].disk, before[r].data)
        /\ PatchWork(pc[r], req[r], before[r], disk, data, work[r])
    BY <2>1, <2>3 DEF Edits
  <2>5. /\ Fits(req[r], before[r]) /\ disk' = before[r].disk
        /\ data' = [before[r].data EXCEPT ![FileIn(before[r], req[r].path)] = req[r].content]
    BY <2>1, <2>2, <2>4, PatchWorks
  <2>6. FileIn(before[r], req[r].path)
          = before[r].disk[Entry(before[r].disk, req[r].path, TRUE).path].inode
    BY DEF FileIn
  <2>7. before[r].data[FileIn(before[r], req[r].path)] = req[r].old
    BY SMTT(40), <2>5 DEF Fits
  <2> QED
    BY ZenonT(60), <2>5, <2>6, <2>7
<1>4. TreeInv /\ Editing /\ [Next]_vars =>
        [\A r \in Requests :
           Answers(r, "patch", 204) /\ alone'[r] =>
             LET old == before[r]
                 file == old.disk[Entry(old.disk, req[r].path, TRUE).path].inode
             IN  /\ old.data[file] = req[r].old
                 /\ disk' = old.disk
                 /\ data' = [old.data EXCEPT ![file] = req[r].content]]_vars
  BY ZenonT(60), <1>3
<1> QED
  BY <1>1, <1>2, <1>4, PTL DEF Spec, PatchPatches

\* What is answered 204 has been done, whole, and nothing else has.
THEOREM EditsAreDone == Spec => EditsDoWhatTheySay
BY RemovalsRemove, CopiesCopy, PatchesPatch, PTL DEF EditsDoWhatTheySay

=============================================================================
