---------------------------- MODULE Package_proofs -----------------------------
(***************************************************************************)
(* Proofs about packages and the bodies of their skills.                   *)
(*                                                                         *)
(* Slugs name sections, for bodies of any length and any texts: slugify    *)
(* always finds a number that is free.  The argument is two pigeonholes:   *)
(* of the base and its first n numbered forms, n + 1 different slugs, one  *)
(* is no slug of the n headings; and there is a least such number, since   *)
(* otherwise "taken up to here" would map itself one to one into itself    *)
(* without 0.                                                              *)
(*                                                                         *)
(* The tree: EndOf says, of the headings alone, where a section ends.  What*)
(* is closed ends there, what is open has all that came since below it, and*)
(* the sections at each depth are a chain that goes on where the one before*)
(* ends; the walk keeps such a chain, the next section last, so that it    *)
(* names the headings as they are written.  A scan for headings that meets *)
(* no indented fence agrees, line by line, with the scan for links.        *)
(*                                                                         *)
(* The loader, for packages of any content: LoadInv says, for each step,   *)
(* what the package is known to have been at first, and what became of the *)
(* directories before the one that is looked at.  Since keeps the disk     *)
(* close to what it was: a part that was changed can only have got worse,  *)
(* so what is still good was good all along and was not passed over.       *)
(*                                                                         *)
(* Paths: resolving a path segment by segment goes through places whose    *)
(* distance from the root is the depth the check on its text counts.       *)
(***************************************************************************)
EXTENDS PluginPackage, Induction, SequenceTheorems, FiniteSetTheorems

HeadingRec == [level: 1..6, slug: Seq(Int), start: Nat, body: Nat]

\* What holds of every reachable state: the types, the slugs, and that nothing is built
\* before the scan has ended.
DocInv ==
  /\ DocTypeOK
  /\ SlugsName
  /\ pc = "scan" => next = 1 /\ stack = <<>> /\ roots = <<>>

-----------------------------------------------------------------------------
(* slugify *)

\* A numbered slug is not the base, and says its base and number.
LEMMA NumberedDiffers ==
  ASSUME NEW base \in Seq(Int)
  PROVE  /\ \A n \in Int : Numbered(base, n) \in Seq(Int) /\ Numbered(base, n) # base
         /\ \A m, n \in Int : Numbered(base, m) = Numbered(base, n) => m = n
<1>1. ASSUME NEW n \in Int
      PROVE  /\ Numbered(base, n) \in Seq(Int)
             /\ Len(Numbered(base, n)) = Len(base) + 1
             /\ Numbered(base, n)[Len(base) + 1] = n
  BY AppendProperties DEF Numbered
<1>2. \A n \in Int : Numbered(base, n) # base
  BY <1>1, LenProperties
<1>3. \A m, n \in Int : Numbered(base, m) = Numbered(base, n) => m = n
  BY <1>1
<1> QED BY <1>1, <1>2, <1>3

\* Of a base that is taken, one of the forms numbered 1 to n is not, n being the number
\* of headings (slugify, the loop over suffixes).
LEMMA SomeFree ==
  ASSUME headings \in Seq(HeadingRec), NEW base \in Seq(Int), base \in Taken
  PROVE  \E k \in 1..Len(headings) : Numbered(base, k) \notin Taken
<1> DEFINE n == Len(headings)
           form == [k \in 0..n |-> IF k = 0 THEN base ELSE Numbered(base, k)]
           of == [k \in 0..n |-> CHOOSE i \in 1..n : headings[i].slug = form[k]]
<1>1. n \in Nat /\ DOMAIN headings = 1..n
  BY LenProperties
<1> SUFFICES ASSUME \A k \in 1..n : Numbered(base, k) \in Taken PROVE FALSE
  OBVIOUS
<1>2. ASSUME NEW k \in 0..n
      PROVE  of[k] \in 1..n /\ headings[of[k]].slug = form[k]
  <2>1. form[k] \in Taken
    BY <1>1
  <2>2. \E i \in 1..n : headings[i].slug = form[k]
    BY <2>1, <1>1 DEF Taken
  <2> HIDE DEF form
  <2> QED BY <2>2
<1>3. of \in [0..n -> 1..n]
  BY <1>2
<1>4. ASSUME NEW x \in 0..n, NEW y \in 0..n, x # y PROVE form[x] # form[y]
  <2>1. CASE x = 0
    BY <2>1, <1>1, <1>4, NumberedDiffers
  <2>2. CASE y = 0
    BY <2>2, <1>1, <1>4, NumberedDiffers
  <2>3. CASE x # 0 /\ y # 0
    BY <2>3, <1>1, <1>4, NumberedDiffers
  <2> QED BY <2>1, <2>2, <2>3
<1> HIDE DEF of, form
<1>5. IsFiniteSet(0..n) /\ Cardinality(0..n) = n + 1
  BY <1>1, FS_Interval
<1>6. IsFiniteSet(1..n) /\ Cardinality(1..n) = n
  <2> HIDE DEF n
  <2>1. /\ IsFiniteSet(1..n)
        /\ Cardinality(1..n) = IF 1 > n THEN 0 ELSE n - 1 + 1
    BY <1>1, FS_Interval
  <2> QED BY <1>1, <2>1
<1>7. PICK x \in 0..n, y \in 0..n : x # y /\ of[x] = of[y]
  <2> HIDE DEF n
  <2>1. Cardinality(1..n) < Cardinality(0..n)
    BY <1>1, <1>5, <1>6
  <2> QED BY <1>3, <1>5, <1>6, <2>1, FS_PigeonHole
<1> QED BY <1>2, <1>4, <1>7

\* The number that slugify takes is there, and its slug is free.
LEMMA FirstFreeIsFree ==
  ASSUME headings \in Seq(HeadingRec), NEW base \in Seq(Int), base \in Taken
  PROVE  FirstFree(base) \in 1..Len(headings) /\ Numbered(base, FirstFree(base)) \notin Taken
<1> DEFINE n == Len(headings)
           held(m) == Numbered(base, m) \in Taken
           upto == {k \in 0..n : \A m \in 1..k : held(m)}
           up == [k \in upto |-> k + 1]
<1>1. n \in Nat
  BY LenProperties
<1>2. PICK k \in 1..n : ~held(k)
  BY SomeFree
<1> HIDE DEF held
<1>3. \E j \in 1..n : ~held(j) /\ \A m \in 1..(j - 1) : held(m)
  <2> SUFFICES ASSUME \A j \in 1..n : (\A m \in 1..(j - 1) : held(m)) => held(j)
               PROVE  FALSE
    OBVIOUS
  <2>1. \A i \in upto : i < k
    BY <1>1, <1>2
  <2>2. \A i \in upto : i + 1 \in upto \ {0}
    <3> TAKE i \in upto
    <3>1. i + 1 \in 1..n /\ (i + 1) - 1 = i
      BY <2>1, <1>1, <1>2
    <3>2. held(i + 1)
      BY <3>1
    <3>3. \A m \in 1..(i + 1) : held(m)
      BY <3>1, <3>2
    <3> QED BY <3>1, <3>3, <1>1
  <2>3. up \in [upto -> upto \ {0}]
    BY <2>2
  <2>4. IsFiniteSet(upto) /\ 0 \in upto
    <3>1. IsFiniteSet(0..n)
      BY <1>1, FS_Interval
    <3>2. upto \in SUBSET (0..n)
      OBVIOUS
    <3>3. IsFiniteSet(upto)
      BY <3>1, <3>2, FS_Subset
    <3>4. 0 \in upto
      BY <1>1
    <3> QED BY <3>3, <3>4
  <2>5. IsFiniteSet(upto \ {0}) /\ Cardinality(upto \ {0}) < Cardinality(upto)
    <3> HIDE DEF upto
    <3>1. Cardinality(upto) \in Nat
      BY <2>4, FS_CardinalityType
    <3>2. IsFiniteSet(upto \ {0}) /\ Cardinality(upto \ {0}) = Cardinality(upto) - 1
      BY <2>4, FS_RemoveElement
    <3> QED BY <3>1, <3>2
  <2>6. PICK x \in upto, y \in upto : x # y /\ up[x] = up[y]
    <3> HIDE DEF upto, up
    <3> QED BY <2>3, <2>4, <2>5, FS_PigeonHole
  <2> QED BY <2>6, <1>1
<1>4. FirstFree(base) \in 1..n /\ ~held(FirstFree(base))
  BY <1>3 DEF FirstFree, held
<1> QED BY <1>4 DEF held

\* slugify answers with a slug that no heading has.
LEMMA SlugIsFree ==
  ASSUME headings \in Seq(HeadingRec), NEW text \in Texts \cup {NoText}
  PROVE  Slugify(text) \in Seq(Int) /\ Slugify(text) \notin Taken
<1>1. BaseOf[text] \in Seq(Int)
  BY TextsAssumption
<1>2. CASE BaseOf[text] \in Taken
  <2>1. FirstFree(BaseOf[text]) \in 1..Len(headings)
        /\ Numbered(BaseOf[text], FirstFree(BaseOf[text])) \notin Taken
    BY <1>1, <1>2, FirstFreeIsFree
  <2>2. FirstFree(BaseOf[text]) \in Int
    BY <2>1, LenProperties
  <2> QED BY <1>1, <1>2, <2>1, <2>2, NumberedDiffers DEF Slugify
<1>3. CASE BaseOf[text] \notin Taken
  BY <1>1, <1>3 DEF Slugify
<1> QED BY <1>2, <1>3

-----------------------------------------------------------------------------
(* The scan *)

\* A heading that is found keeps the slugs apart.
LEMMA FoundKeeps ==
  ASSUME DocTypeOK, SlugsName, NEW level \in 1..6, NEW text \in Texts \cup {NoText},
         NEW start \in Nat, Found(level, text, start)
  PROVE  headings' \in Seq(HeadingRec) /\ SlugsName'
<1> DEFINE h == [level |-> level, slug |-> Slugify(text), start |-> start,
                 body |-> Len(lines) + 1]
           n == Len(headings)
<1>1. headings \in Seq(HeadingRec) /\ lines \in Seq(Line)
  BY DEF DocTypeOK, HeadingRec
<1>2. n \in Nat /\ Len(lines) \in Nat /\ DOMAIN headings = 1..n
  BY <1>1, LenProperties
<1>3. Slugify(text) \in Seq(Int) /\ Slugify(text) \notin Taken
  BY <1>1, SlugIsFree
<1>4. h \in HeadingRec /\ h.slug = Slugify(text)
  BY <1>2, <1>3 DEF HeadingRec
<1>5. headings' = Append(headings, h)
  BY DEF Found
<1> HIDE DEF h
<1>6. /\ headings' \in Seq(HeadingRec) /\ Len(headings') = n + 1
      /\ \A i \in 1..n : headings'[i] = headings[i]
      /\ headings'[n + 1] = h
  BY <1>1, <1>4, <1>5, AppendProperties
<1>7. DOMAIN headings' = 1..(n + 1)
  BY <1>6, LenProperties
<1>8. ASSUME NEW i \in 1..n PROVE headings[i].slug # h.slug
  BY <1>2, <1>3, <1>4 DEF Taken
<1>9. ASSUME NEW i \in 1..(n + 1), NEW j \in 1..(n + 1), headings'[i].slug = headings'[j].slug
      PROVE  i = j
  <2>1. CASE i \in 1..n /\ j \in 1..n
    BY <2>1, <1>2, <1>6, <1>9 DEF SlugsName
  <2>2. CASE i = n + 1 /\ j \in 1..n
    BY <2>2, <1>2, <1>6, <1>8, <1>9
  <2>3. CASE i \in 1..n /\ j = n + 1
    BY <2>3, <1>2, <1>6, <1>8, <1>9
  <2> QED BY <1>2, <2>1, <2>2, <2>3
<1>10. SlugsName'
  BY <1>7, <1>9 DEF SlugsName
<1> QED BY <1>6, <1>10

LEMMA ScanKeeps ==
  ASSUME DocInv, NEW l \in Lines, ScanLine(l)
  PROVE  DocInv'
<1>1. /\ pc = "scan" /\ pc' = "scan" /\ lines' = Append(lines, l)
      /\ UNCHANGED <<next, stack, ended, children, roots>>
  BY DEF ScanLine, buildVars
<1>2. l \in Line
  BY LinesAssumption
<1>3. /\ lines \in Seq(Line) /\ Len(lines) \in Nat
      /\ lines' \in Seq(Line) /\ Len(lines') = Len(lines) + 1
  BY <1>1, <1>2, AppendProperties, LenProperties DEF DocInv, DocTypeOK
<1>4. headings \in Seq(HeadingRec) /\ Len(headings) \in Nat
  BY LenProperties DEF DocInv, DocTypeOK, HeadingRec
<1>5. inert' \subseteq 1..Len(lines') /\ previous' \in 0..Len(lines')
  <2>1. inert \subseteq 1..Len(lines) /\ previous \in 0..Len(lines)
    BY DEF DocInv, DocTypeOK
  <2>2. inert' \in {inert, inert \cup {Len(lines) + 1}}
    BY DEF ScanLine, Skip, OpenFence, Heading
  <2>3. previous' \in {0, Len(lines) + 1}
    BY DEF ScanLine, Skip, OpenFence, Heading, Found
  <2> QED BY <1>3, <2>1, <2>2, <2>3
<1>6. fence' \in [mark: {"tick", "tilde", Blank}, run: Nat]
  BY <1>2 DEF DocInv, DocTypeOK, ScanLine, Skip, OpenFence, Heading, Opens, NoFence, Line
<1>7. headings' \in Seq(HeadingRec) /\ SlugsName'
  <2>1. CASE UNCHANGED headings
    BY <2>1, <1>4 DEF DocInv, SlugsName
  <2>2. CASE IsAtx(l) /\ Found(Level(l), l.text, Len(lines))
    <3>1. l.text \in Texts \cup {NoText} /\ Level(l) \in 1..6
      BY <1>2, <2>2 DEF Line, IsAtx
    <3> QED BY <2>2, <3>1, <1>3, FoundKeeps DEF DocInv
  <2>3. CASE /\ previous # 0
             /\ Found(IF l.mark = "=" THEN 1 ELSE 2, lines[previous].text, previous - 1)
    <3>1. previous \in 1..Len(lines) /\ previous - 1 \in Nat
      BY <2>3, <1>3 DEF DocInv, DocTypeOK
    <3>2. lines[previous] \in Line
      BY <3>1, <1>3, ElementOfSeq
    <3>3. lines[previous].text \in Texts \cup {NoText}
      BY <3>2 DEF Line
    <3>4. (IF l.mark = "=" THEN 1 ELSE 2) \in 1..6
      OBVIOUS
    <3> QED BY <2>3, <3>1, <3>3, <3>4, FoundKeeps DEF DocInv
  <2> QED BY <2>1, <2>2, <2>3 DEF ScanLine, Skip, OpenFence, Heading
<1>8. next' = 1 /\ stack' = <<>> /\ roots' = <<>>
  BY <1>1 DEF DocInv
<1>9. Len(headings') \in Nat
  BY <1>7, LenProperties
<1>10. next' \in 1..(Len(headings') + 1) /\ stack' \in Seq(DOMAIN headings')
       /\ roots' \in Seq(DOMAIN headings')
  BY <1>8, <1>9, EmptySeq
<1>11. DocTypeOK'
  BY <1>1, <1>3, <1>5, <1>6, <1>7, <1>10 DEF DocTypeOK, HeadingRec
<1> QED BY <1>1, <1>7, <1>8, <1>11 DEF DocInv

-----------------------------------------------------------------------------
(* The tree *)

\* What the tree's steps leave alone keeps its type.
LEMMA TreeTypes ==
  ASSUME DocInv, UNCHANGED scanVars, pc' \in {"build", "done"},
         next' \in 1..(Len(headings) + 1),
         stack' \in Seq(DOMAIN headings), roots' \in Seq(DOMAIN headings),
         ended' \in [DOMAIN headings -> Nat],
         children' \in [DOMAIN headings -> Seq(DOMAIN headings)]
  PROVE  DocInv'
BY DEF DocInv, DocTypeOK, SlugsName, scanVars

LEMMA CloseKeeps ==
  ASSUME DocInv, Close
  PROVE  DocInv'
<1> DEFINE H == DOMAIN headings
<1>1. /\ pc' = "build" /\ UNCHANGED scanVars /\ next' = next
      /\ stack \in Seq(H) /\ roots \in Seq(H) /\ stack # <<>>
      /\ ended \in [H -> Nat] /\ children \in [H -> Seq(H)]
      /\ next \in 1..(Len(headings) + 1) /\ headings \in Seq(HeadingRec)
      /\ lines \in Seq(Line)
  BY DEF DocInv, DocTypeOK, Close, HeadingRec
<1>2. Len(headings) \in Nat /\ H = 1..Len(headings) /\ Len(lines) \in Nat
  BY <1>1, LenProperties
<1>3. Len(stack) \in Nat /\ Len(stack) >= 1
  BY <1>1, EmptySeq, LenProperties
<1>4. Top \in H
  BY <1>1, <1>3, ElementOfSeq DEF Top
<1>5. Below \in Seq(H)
  <2> DEFINE k == Len(stack) - 1
  <2>1. k \in 0..Len(stack)
    BY <1>3
  <2> HIDE DEF H
  <2>2. \A i \in 1..k : stack[i] \in H
    BY <1>1, <1>3, <2>1, ElementOfSeq
  <2> QED BY <1>1, <1>3, <2>1, <2>2, SubSeqProperties DEF Below
<1>6. ended' \in [H -> Nat]
  <2>1. CASE next > Len(headings)
    BY <2>1, <1>1, <1>2 DEF Close
  <2>2. CASE ~(next > Len(headings))
    <3>1. headings[next] \in HeadingRec
      BY <2>2, <1>1, <1>2, ElementOfSeq
    <3>2. headings[next].start \in Nat
      BY <3>1 DEF HeadingRec
    <3> QED BY <2>2, <3>2, <1>1 DEF Close
  <2> QED BY <2>1, <2>2
<1>7. roots' \in Seq(H) /\ children' \in [H -> Seq(H)]
  <2>1. CASE Below = <<>>
    <3>1. roots' = Append(roots, Top) /\ children' = children
      BY <2>1 DEF Close
    <3> HIDE DEF H
    <3> QED BY <3>1, <1>1, <1>4, AppendProperties
  <2>2. CASE Below # <<>>
    <3> DEFINE b == Below[Len(Below)]
    <3>1. b \in H
      BY <2>2, <1>5, EmptySeq, LenProperties, ElementOfSeq
    <3>2. Append(children[b], Top) \in Seq(H)
      BY <3>1, <1>1, <1>4, AppendProperties
    <3>3. children' = [children EXCEPT ![b] = Append(children[b], Top)] /\ roots' = roots
      BY <2>2 DEF Close
    <3> HIDE DEF b
    <3> QED BY <3>1, <3>2, <3>3, <1>1
  <2> QED BY <2>1, <2>2
<1>8. stack' \in Seq(H)
  BY <1>5 DEF Close
<1> QED BY <1>1, <1>6, <1>7, <1>8, TreeTypes

LEMMA PushKeeps ==
  ASSUME DocInv, Push
  PROVE  DocInv'
<1> DEFINE H == DOMAIN headings
<1>1. /\ pc = "build" /\ pc' = "build" /\ UNCHANGED <<scanVars, ended, children, roots>>
      /\ stack \in Seq(H) /\ roots \in Seq(H)
      /\ ended \in [H -> Nat] /\ children \in [H -> Seq(H)]
      /\ next \in 1..(Len(headings) + 1) /\ headings \in Seq(HeadingRec)
      /\ next <= Len(headings) /\ next' = next + 1 /\ stack' = Append(stack, next)
  BY DEF DocInv, DocTypeOK, Push, HeadingRec
<1>2. Len(headings) \in Nat /\ H = 1..Len(headings)
  BY <1>1, LenProperties
<1>3. next \in H /\ next' \in 1..(Len(headings) + 1)
  BY <1>1, <1>2
<1>4. stack' \in Seq(H)
  BY <1>1, <1>3, AppendProperties
<1> QED BY <1>1, <1>3, <1>4, TreeTypes

LEMMA StepKeeps ==
  ASSUME DocInv, [Next]_docVars
  PROVE  DocInv'
<1>1. ASSUME NEW l \in Lines, ScanLine(l) PROVE DocInv'
  BY <1>1, ScanKeeps
<1>2. CASE EndScan
  <2>1. /\ UNCHANGED <<scanVars, next, stack, roots>> /\ pc' = "build"
        /\ ended' = [i \in DOMAIN headings |-> 0]
        /\ children' = [i \in DOMAIN headings |-> <<>>]
    BY <1>2 DEF EndScan
  <2>2. <<>> \in Seq(DOMAIN headings)
    BY EmptySeq
  <2>3. ended' \in [DOMAIN headings -> Nat]
        /\ children' \in [DOMAIN headings -> Seq(DOMAIN headings)]
    BY <2>1, <2>2
  <2>4. next \in 1..(Len(headings) + 1) /\ stack \in Seq(DOMAIN headings)
        /\ roots \in Seq(DOMAIN headings)
    BY DEF DocInv, DocTypeOK
  <2> QED BY <2>1, <2>3, <2>4, TreeTypes
<1>3. CASE Close
  BY <1>3, CloseKeeps
<1>4. CASE Push
  BY <1>4, PushKeeps
<1>5. CASE Finish
  <2>1. UNCHANGED <<scanVars, buildVars>> /\ pc = "build" /\ pc' = "done"
    BY <1>5 DEF Finish
  <2> QED BY <2>1 DEF DocInv, DocTypeOK, SlugsName, scanVars, buildVars
<1>6. CASE Another
  <2>1. /\ pc' = "scan" /\ lines' = <<>> /\ fence' = NoFence /\ previous' = 0
        /\ headings' = <<>> /\ inert' = {} /\ next' = 1 /\ stack' = <<>> /\ roots' = <<>>
    BY <1>6 DEF Another
  <2> QED BY <2>1, EmptySeq DEF DocInv, DocTypeOK, SlugsName, NoFence
<1>7. CASE UNCHANGED docVars
  BY <1>7 DEF docVars, scanVars, buildVars, DocInv, DocTypeOK, SlugsName
<1> QED BY <1>1, <1>2, <1>3, <1>4, <1>5, <1>6, <1>7 DEF Next, Build

-----------------------------------------------------------------------------
\* The types and the slugs are an invariant of the scan and the tree, for any lines,
\* texts and length of a body.
THEOREM DocumentInvariant == Spec => []DocInv
<1>1. Init => DocInv
  BY EmptySeq DEF Init, DocInv, DocTypeOK, SlugsName, NoFence
<1>2. DocInv /\ [Next]_docVars => DocInv'
  BY StepKeeps
<1> QED BY <1>1, <1>2, PTL DEF Spec

\* The document's type invariant.
THEOREM DocumentTypes == Spec => []DocTypeOK
<1>1. DocInv => DocTypeOK
  BY DEF DocInv
<1> QED BY <1>1, DocumentInvariant, PTL

\* slugify: no two headings of a document have one slug, however their texts collide.
THEOREM SlugsAreUnique == Spec => []SlugsName
<1>1. DocInv => SlugsName
  BY DEF DocInv
<1> QED BY <1>1, DocumentInvariant, PTL


-----------------------------------------------------------------------------
(* The tree of a document                                                  *)

\* Headings come one after the other, and the line that an underline would make one comes
\* after all of them.
ScanOrder ==
  /\ \A h \in DOMAIN headings : /\ headings[h].start < headings[h].body
                                /\ headings[h].body <= Len(lines)
  /\ \A g, h \in DOMAIN headings : g < h => headings[g].body <= headings[h].start
  /\ previous # 0 => \A h \in DOMAIN headings : headings[h].body < previous

\* Where heading j begins, the end of the body being the last; and the heading at which the
\* section of h ends: the first after it that is not deeper.
StartOf(j) == IF j > Len(headings) THEN Len(lines) ELSE headings[j].start
Ends(hs, h, j) ==
  /\ \A m \in (h + 1)..(j - 1) : hs[m].level > hs[h].level
  /\ j <= Len(hs) => hs[j].level <= hs[h].level
EndOf(hs, h) == CHOOSE j \in (h + 1)..(Len(hs) + 1) : Ends(hs, h, j)

\* Sections from heading a up to heading b, each beginning where the one before it ends.
Chain(hs, s, a, b) ==
  IF s = <<>> THEN a = b
  ELSE /\ s[1] = a /\ EndOf(hs, s[Len(s)]) = b
       /\ \A i \in 1..(Len(s) - 1) : EndOf(hs, s[i]) = s[i + 1]

\* The open sections lie in one another, and all that was met since is below them.
Nested ==
  /\ \A k \in DOMAIN stack : stack[k] < next
  /\ \A k \in DOMAIN stack : \A m \in (stack[k] + 1)..(next - 1) :
       headings[m].level > headings[stack[k]].level
  /\ \A k, m \in DOMAIN stack : k < m => stack[k] < stack[m]

\* What is below an open section, and at the top, goes on to the next open one.
After(k) == IF k = Len(stack) THEN next ELSE stack[k + 1]
OpenChains ==
  /\ \A k \in DOMAIN stack : Chain(headings, children[stack[k]], stack[k] + 1, After(k))
  /\ Chain(headings, roots, 1, After(0))

\* What is closed is whole.
IsOpen(h) == \E k \in DOMAIN stack : stack[k] = h
Closed ==
  \A h \in DOMAIN headings : h < next /\ ~IsOpen(h) =>
    /\ EndOf(headings, h) \in (h + 1)..next /\ ended[h] = StartOf(EndOf(headings, h))
    /\ Chain(headings, children[h], h + 1, EndOf(headings, h))
Deeper ==
  \A h \in DOMAIN headings : /\ h >= next => children[h] = <<>>
                             /\ \A i \in DOMAIN children[h] :
                                  headings[children[h][i]].level > headings[h].level

Tree == pc # "scan" => /\ Nested /\ OpenChains /\ Closed /\ Deeper
                       /\ pc = "done" => stack = <<>> /\ next = Len(headings) + 1

\* The fences as collect_links sees them, line by line.
FenceStep(f, l) ==
  IF f # NoFence THEN IF Closes(f, l) THEN NoFence ELSE f
  ELSE IF Opens(l) THEN [mark |-> l.mark, run |-> l.run] ELSE NoFence
Fences(f, ls) ==
  /\ DOMAIN f = 0..Len(ls) /\ f[0] = NoFence
  /\ \A i \in 1..Len(ls) : f[i] = FenceStep(f[i - 1], ls[i])
NoDeepFence == \A i \in DOMAIN lines : lines[i].deep => ~Opens(lines[i])

\* What the scan for headings knows of fences is what collect_links sees, if no fence is
\* indented; and headings are outside them.
Fenced ==
  /\ fence = NoFence \/ (fence.mark \in {"tick", "tilde"} /\ fence.run >= 3)
  /\ previous # 0 => \A i \in previous..Len(lines) : i \notin inert
  /\ \A h \in DOMAIN headings : \A i \in (headings[h].start + 1)..headings[h].body : i \notin inert
  /\ NoDeepFence =>
       \E f : /\ Fences(f, lines) /\ f[Len(lines)] = fence
              /\ \A i \in 1..Len(lines) : i \in inert <=> (f[i - 1] # NoFence \/ Opens(lines[i]))

TreeInv == ScanOrder /\ Tree /\ Fenced

\* A section ends at the heading that is found to end it, and at no other.
LEMMA EndIs ==
  ASSUME NEW hs \in Seq(HeadingRec), NEW h \in DOMAIN hs,
         NEW j \in (h + 1)..(Len(hs) + 1), Ends(hs, h, j)
  PROVE  EndOf(hs, h) = j
<1>1. /\ Len(hs) \in Nat /\ DOMAIN hs = 1..Len(hs)
      /\ \A k \in 1..Len(hs) : hs[k].level \in Int
  <2>1. Len(hs) \in Nat /\ DOMAIN hs = 1..Len(hs)
    BY LenProperties
  <2>2. ASSUME NEW k \in 1..Len(hs) PROVE hs[k].level \in Int
    <3>1. hs[k] \in HeadingRec
      BY <2>2, ElementOfSeq
    <3>2. \A r \in HeadingRec : r.level \in 1..6
      BY DEF HeadingRec
    <3> QED
      BY <3>1, <3>2
  <2> QED
    BY <2>1, <2>2
<1>2. ASSUME NEW i \in (h + 1)..(Len(hs) + 1), NEW k \in (h + 1)..(Len(hs) + 1),
             Ends(hs, h, i), Ends(hs, h, k), i < k
      PROVE  FALSE
  <2>1. i \in (h + 1)..(k - 1) /\ i <= Len(hs) /\ i \in 1..Len(hs)
    BY <1>1, <1>2
  <2>2. hs[i].level > hs[h].level /\ hs[i].level <= hs[h].level
    BY <1>2, <2>1 DEF Ends
  <2> QED
    BY <1>1, <2>1, <2>2
<1>3. ASSUME NEW k \in (h + 1)..(Len(hs) + 1), Ends(hs, h, k) PROVE k = j
  <2>1. k < j \/ j < k \/ k = j
    BY <1>1
  <2> QED
    BY <1>2, <1>3, <2>1
<1>4. EndOf(hs, h) \in (h + 1)..(Len(hs) + 1) /\ Ends(hs, h, EndOf(hs, h))
  BY DEF EndOf
<1> QED
  BY <1>3, <1>4

\* One more section at the end of a chain.
LEMMA ChainGrows ==
  ASSUME NEW hs, NEW H, NEW s \in Seq(H), NEW x \in H, NEW a, Chain(hs, s, a, x)
  PROVE  Chain(hs, Append(s, x), a, EndOf(hs, x))
<1> DEFINE t == Append(s, x)
<1>1. /\ Len(s) \in Nat /\ Len(t) = Len(s) + 1 /\ t[Len(t)] = x
      /\ \A i \in 1..Len(s) : t[i] = s[i]
      /\ DOMAIN s = 1..Len(s) /\ t \in Seq(H)
  BY AppendProperties, LenProperties
<1> HIDE DEF t
<1>2. t # <<>> /\ EndOf(hs, t[Len(t)]) = EndOf(hs, x)
  BY <1>1
<1>3. CASE s = <<>>
  <2>1. Len(s) = 0 /\ a = x
    BY <1>3 DEF Chain
  <2>2. Len(t) = 1 /\ t[1] = a
    BY <1>1, <2>1
  <2>3. \A i \in 1..(Len(t) - 1) : EndOf(hs, t[i]) = t[i + 1]
    BY <2>2
  <2> QED
    BY <1>2, <2>2, <2>3 DEF Chain, t
<1>4. CASE s # <<>>
  <2>1. s[1] = a /\ EndOf(hs, s[Len(s)]) = x /\ \A i \in 1..(Len(s) - 1) : EndOf(hs, s[i]) = s[i + 1]
    BY <1>4 DEF Chain
  <2>2. Len(s) >= 1
    BY <1>1, <1>4
  <2>3. t[1] = a
    BY <1>1, <2>1, <2>2
  <2>4. ASSUME NEW i \in 1..(Len(t) - 1) PROVE EndOf(hs, t[i]) = t[i + 1]
    <3>1. CASE i = Len(s)
      <4>1. t[i] = s[Len(s)] /\ t[i + 1] = x
        BY <1>1, <2>2, <3>1
      <4> QED
        BY <2>1, <4>1
    <3>2. CASE i # Len(s)
      <4>1. i \in 1..Len(s) /\ Len(s) \in Nat
        BY <1>1
      <4> DEFINE n == Len(s)
      <4> HIDE DEF n
      <4>2. i \in 1..n /\ n \in Nat /\ i # n
        BY <3>2, <4>1 DEF n
      <4>3. i \in 1..(n - 1) /\ i + 1 \in 1..n
        BY <4>2
      <4>4. t[i] = s[i] /\ t[i + 1] = s[i + 1] /\ EndOf(hs, s[i]) = s[i + 1]
        BY <1>1, <2>1, <4>1, <4>3 DEF n
      <4> QED
        BY <4>4
    <3> QED
      BY <3>1, <3>2
  <2> QED
    BY <1>2, <2>3, <2>4 DEF Chain, t
<1> QED
  BY <1>3, <1>4

\* A chain as the walk keeps it, the next one last.
Ahead(hs, t, a, b) ==
  IF t = <<>> THEN a = b
  ELSE /\ t[Len(t)] = a /\ EndOf(hs, t[1]) = b
       /\ \A i \in 1..(Len(t) - 1) : EndOf(hs, t[i + 1]) = t[i]

LEMMA ReversedAhead ==
  ASSUME NEW hs, NEW H, NEW s \in Seq(H), NEW a, NEW b, Chain(hs, s, a, b)
  PROVE  Reversed(s) \in Seq(H) /\ Ahead(hs, Reversed(s), a, b)
<1> DEFINE t == Reversed(s)
           n == Len(s)
<1>1. n \in Nat /\ DOMAIN s = 1..n /\ \A i \in 1..n : s[i] \in H
  BY LenProperties
<1>2. t = [i \in 1..n |-> s[n + 1 - i]]
  BY DEF Reversed
<1>3. \A i \in 1..n : n + 1 - i \in 1..n
  BY <1>1
<1>4. t \in Seq(H)
  BY <1>1, <1>2, <1>3
<1>5. Len(t) = n /\ \A i \in 1..n : t[i] = s[n + 1 - i]
  <2>1. DOMAIN t = 1..n
    BY <1>2
  <2> HIDE DEF t
  <2>2. DOMAIN t = 1..Len(t) /\ Len(t) \in Nat
    BY <1>4, LenProperties
  <2> QED
    BY <1>1, <1>2, <2>1, <2>2, IntervalsDiffer
<1>6. CASE s = <<>>
  <2>1. n = 0 /\ a = b
    BY <1>6 DEF Chain
  <2> HIDE DEF t, n
  <2>2. t = <<>>
    BY <1>4, <1>5, <2>1, EmptySeq
  <2> QED
    BY <1>4, <2>1, <2>2 DEF Ahead, t
<1>7. CASE s # <<>>
  <2>1. s[1] = a /\ EndOf(hs, s[n]) = b /\ \A i \in 1..(n - 1) : EndOf(hs, s[i]) = s[i + 1]
    BY <1>7 DEF Chain
  <2>2. n >= 1
    BY <1>1, <1>7
  <2> HIDE DEF t, n
  <2>3. t # <<>> /\ t[Len(t)] = a /\ EndOf(hs, t[1]) = b
    <3>1. t[n] = s[n + 1 - n] /\ t[1] = s[n + 1 - 1]
      BY <1>1, <1>5, <2>2
    <3>2. n + 1 - n = 1 /\ n + 1 - 1 = n
      BY <1>1
    <3>3. Len(t) # 0
      BY <1>5, <2>2
    <3> QED
      BY <1>5, <2>1, <3>1, <3>2, <3>3
  <2>4. ASSUME NEW i \in 1..(n - 1) PROVE EndOf(hs, t[i + 1]) = t[i]
    <3>1. i \in 1..n /\ i + 1 \in 1..n /\ n - i \in 1..(n - 1) /\ n + 1 - (i + 1) = n - i
          /\ n + 1 - i = (n - i) + 1
      BY <1>1
    <3>2. t[i + 1] = s[n - i] /\ t[i] = s[(n - i) + 1]
      BY <1>5, <3>1
    <3> QED
      BY <2>1, <3>1, <3>2
  <2> QED
    BY <1>4, <1>5, <2>3, <2>4 DEF Ahead, t
<1> QED
  BY <1>6, <1>7

\* The next section goes, and what is below it comes in its place.
LEMMA AheadGoesOn ==
  ASSUME NEW hs, NEW H, NEW t \in Seq(H), NEW a, NEW b, Ahead(hs, t, a, b), t # <<>>,
         NEW u \in Seq(H), NEW c, Ahead(hs, u, c, EndOf(hs, a))
  PROVE  /\ SubSeq(t, 1, Len(t) - 1) \o u \in Seq(H)
         /\ Ahead(hs, SubSeq(t, 1, Len(t) - 1) \o u, c, b)
<1> DEFINE n == Len(t)
           m == Len(u)
           f == SubSeq(t, 1, n - 1)
           v == f \o u
<1>1. /\ n \in Nat /\ n >= 1 /\ m \in Nat /\ (u # <<>> => m >= 1) /\ (u = <<>> => m = 0)
      /\ \A i \in 1..n : t[i] \in H
  BY LenProperties
<1>2. f \in Seq(H) /\ Len(f) = n - 1 /\ \A i \in 1..(n - 1) : f[i] = t[i]
  <2>1. \A i \in 1..(n - 1) : t[i] \in H
    BY <1>1
  <2>2. n - 1 \in Int /\ 1 \in Int
    BY <1>1
  <2> HIDE DEF n
  <2>3. /\ f \in Seq(H) /\ Len(f) = IF 1 <= n - 1 THEN n - 1 - 1 + 1 ELSE 0
        /\ \A i \in 1..(n - 1 - 1 + 1) : f[i] = t[1 + i - 1]
    BY <2>1, <2>2, SubSeqProperties
  <2> QED
    BY <1>1, <2>3
<1>3. /\ v \in Seq(H) /\ Len(v) = n - 1 + m
      /\ \A i \in 1..(n - 1) : v[i] = t[i]
      /\ \A i \in 1..m : v[n - 1 + i] = u[i]
  <2> HIDE DEF f, n, m
  <2>1. /\ v \in Seq(H) /\ Len(v) = Len(f) + Len(u)
        /\ \A i \in 1..(Len(f) + Len(u)) : v[i] = IF i <= Len(f) THEN f[i] ELSE u[i - Len(f)]
    BY <1>2, ConcatProperties
  <2> HIDE DEF v
  <2>2. Len(v) = n - 1 + m /\ n - 1 + m = Len(f) + Len(u)
    BY <1>1, <1>2, <2>1 DEF m
  <2>3. ASSUME NEW i \in 1..(n - 1) PROVE v[i] = t[i]
    <3>1. i \in 1..(Len(f) + Len(u)) /\ i <= Len(f)
      BY <1>1, <1>2, <2>2
    <3> QED
      BY <1>2, <2>1, <3>1
  <2>4. ASSUME NEW i \in 1..m PROVE v[n - 1 + i] = u[i]
    <3>1. n - 1 + i \in 1..(Len(f) + Len(u)) /\ ~(n - 1 + i <= Len(f)) /\ (n - 1 + i) - Len(f) = i
      BY <1>1, <1>2, <2>2
    <3> QED
      BY <2>1, <3>1
  <2> QED
    BY <2>1, <2>2, <2>3, <2>4
<1>4. t[n] = a /\ EndOf(hs, t[1]) = b /\ \A i \in 1..(n - 1) : EndOf(hs, t[i + 1]) = t[i]
  BY DEF Ahead
<1> HIDE DEF n, m, f, v
<1>5. CASE u = <<>>
  <2>1. c = EndOf(hs, a) /\ m = 0 /\ Len(v) = n - 1
    BY <1>1, <1>3, <1>5 DEF Ahead
  <2>2. CASE n = 1
    <3>1. v = <<>> /\ c = b
      BY <1>3, <1>4, <2>1, <2>2, EmptySeq
    <3> QED
      BY <1>3, <3>1 DEF Ahead, v, f, n
  <2>3. CASE n > 1
    <3>1. v # <<>> /\ v[1] = t[1] /\ v[Len(v)] = t[n - 1]
      BY <1>1, <1>3, <2>1, <2>3
    <3>2. EndOf(hs, t[(n - 1) + 1]) = t[n - 1] /\ (n - 1) + 1 = n
      BY <1>1, <1>4, <2>3
    <3>3. ASSUME NEW i \in 1..(Len(v) - 1) PROVE EndOf(hs, v[i + 1]) = v[i]
      <4>1. i \in 1..(n - 1) /\ i + 1 \in 1..(n - 1)
        BY <1>1, <2>1
      <4> QED
        BY <1>3, <1>4, <4>1
    <3>4. Ahead(hs, v, c, b)
      BY <1>4, <2>1, <3>1, <3>2, <3>3 DEF Ahead
    <3> QED
      BY <1>3, <3>4 DEF v, f, n
  <2> QED
    BY <1>1, <2>2, <2>3
<1>6. CASE u # <<>>
  <2>1. u[m] = c /\ EndOf(hs, u[1]) = EndOf(hs, a) /\ \A i \in 1..(m - 1) : EndOf(hs, u[i + 1]) = u[i]
    BY <1>6 DEF Ahead, m
  <2>2. m >= 1 /\ v # <<>> /\ v[Len(v)] = c
    <3>1. m >= 1 /\ v[n - 1 + m] = u[m] /\ Len(v) # 0
      BY <1>1, <1>3, <1>6
    <3> QED
      BY <1>3, <2>1, <3>1
  <2>3. EndOf(hs, v[1]) = b
    <3>1. CASE n = 1
      <4>1. v[n - 1 + 1] = u[1] /\ n - 1 + 1 = 1 /\ a = t[1]
        BY <1>1, <1>3, <1>4, <2>2, <3>1
      <4> QED
        BY <1>4, <2>1, <4>1
    <3>2. CASE n > 1
      <4>1. v[1] = t[1]
        BY <1>1, <1>3, <3>2
      <4> QED
        BY <1>4, <4>1
    <3> QED
      BY <1>1, <3>1, <3>2
  <2>4. ASSUME NEW i \in 1..(Len(v) - 1) PROVE EndOf(hs, v[i + 1]) = v[i]
    <3>1. CASE i < n - 1
      <4>1. i \in 1..(n - 1) /\ i + 1 \in 1..(n - 1)
        BY <1>1, <3>1
      <4> QED
        BY <1>3, <1>4, <4>1
    <3>2. CASE i = n - 1
      <4>1. v[i + 1] = u[1] /\ v[i] = t[i] /\ i \in 1..(n - 1) /\ t[i + 1] = a
        BY <1>1, <1>3, <1>4, <2>2, <3>2
      <4> QED
        BY <1>4, <2>1, <4>1
    <3>3. CASE i > n - 1
      <4>1. /\ i - (n - 1) \in 1..(m - 1) /\ i - (n - 1) \in 1..m /\ i - (n - 1) + 1 \in 1..m
            /\ n - 1 + (i - (n - 1)) = i /\ n - 1 + (i - (n - 1) + 1) = i + 1
        BY <1>1, <1>3, <3>3
      <4>2. v[i] = u[i - (n - 1)] /\ v[i + 1] = u[i - (n - 1) + 1]
        BY SMTT(40), <1>3, <4>1
      <4> QED
        BY <2>1, <4>1, <4>2
    <3> QED
      BY <1>1, <3>1, <3>2, <3>3
  <2>5. Ahead(hs, v, c, b)
    BY <2>2, <2>3, <2>4 DEF Ahead
  <2> QED
    BY <1>3, <2>5 DEF v, f, n
<1> QED
  BY <1>5, <1>6
-----------------------------------------------------------------------------
(* The scan keeps the order of headings, and what it knows of fences *)

\* One line more: the lines before it are the same.
LEMMA LineRead ==
  ASSUME DocTypeOK, NEW l \in Lines, ScanLine(l)
  PROVE  /\ l \in Line /\ lines' = Append(lines, l) /\ pc = "scan" /\ pc' = "scan"
         /\ Len(lines) \in Nat /\ Len(lines') = Len(lines) + 1
         /\ DOMAIN lines = 1..Len(lines) /\ DOMAIN lines' = 1..(Len(lines) + 1)
         /\ \A i \in 1..Len(lines) : lines'[i] = lines[i]
         /\ lines'[Len(lines) + 1] = l
<1>1. lines' = Append(lines, l) /\ pc = "scan" /\ pc' = "scan"
  BY DEF ScanLine
<1>2. l \in Line /\ lines \in Seq(Line)
  BY LinesAssumption DEF DocTypeOK
<1>3. /\ lines' \in Seq(Line) /\ Len(lines') = Len(lines) + 1
      /\ \A i \in 1..Len(lines) : lines'[i] = lines[i]
      /\ lines'[Len(lines) + 1] = l
  BY <1>1, <1>2, AppendProperties
<1>4. Len(lines) \in Nat /\ DOMAIN lines = 1..Len(lines) /\ DOMAIN lines' = 1..Len(lines')
  BY <1>2, <1>3, LenProperties
<1> QED
  BY <1>1, <1>2, <1>3, <1>4

\* Where a heading is, as numbers.
LEMMA HeadingPlaces ==
  ASSUME headings \in Seq(HeadingRec)
  PROVE  /\ Len(headings) \in Nat /\ DOMAIN headings = 1..Len(headings)
         /\ \A h \in DOMAIN headings : /\ headings[h].start \in Nat /\ headings[h].body \in Nat
                                       /\ headings[h].level \in 1..6
<1>1. Len(headings) \in Nat /\ DOMAIN headings = 1..Len(headings)
  BY LenProperties
<1>2. \A r \in HeadingRec : r.start \in Nat /\ r.body \in Nat /\ r.level \in 1..6
  BY DEF HeadingRec
<1>3. \A h \in 1..Len(headings) : headings[h] \in HeadingRec
  BY ElementOfSeq
<1> QED
  BY <1>1, <1>2, <1>3

\* The heading that a line makes.
LEMMA OneMore ==
  ASSUME DocTypeOK, NEW level, NEW text, NEW start \in Nat, level \in 1..6,
         text \in Texts \cup {NoText}, Found(level, text, start)
  PROVE  /\ Len(headings') = Len(headings) + 1
         /\ DOMAIN headings' = DOMAIN headings \cup {Len(headings) + 1}
         /\ \A h \in DOMAIN headings : headings'[h] = headings[h]
         /\ headings'[Len(headings) + 1].start = start
         /\ headings'[Len(headings) + 1].body = Len(lines) + 1
         /\ previous' = 0
<1> DEFINE r == [level |-> level, slug |-> Slugify(text), start |-> start,
                 body |-> Len(lines) + 1]
<1>1. headings \in Seq(HeadingRec) /\ lines \in Seq(Line)
  BY DEF DocTypeOK, HeadingRec
<1>2. Slugify(text) \in Seq(Int) /\ Len(lines) \in Nat
  BY <1>1, SlugIsFree, LenProperties
<1>3. r \in HeadingRec /\ r.start = start /\ r.body = Len(lines) + 1
  BY <1>2 DEF HeadingRec
<1>4. headings' = Append(headings, r) /\ previous' = 0
  BY DEF Found
<1> HIDE DEF r
<1>5. /\ headings' \in Seq(HeadingRec) /\ Len(headings') = Len(headings) + 1
      /\ \A i \in 1..Len(headings) : headings'[i] = headings[i]
      /\ headings'[Len(headings) + 1] = r
  BY <1>1, <1>3, <1>4, AppendProperties
<1>6. DOMAIN headings = 1..Len(headings) /\ DOMAIN headings' = 1..Len(headings')
      /\ Len(headings) \in Nat
  BY <1>1, <1>5, LenProperties
<1> QED
  BY <1>3, <1>4, <1>5, <1>6

\* What a line does to the headings: nothing, or one more that is after all of them.
NewHeading(n, h, s) ==
  /\ Len(headings') = h + 1 /\ DOMAIN headings' = DOMAIN headings \cup {h + 1}
  /\ \A k \in DOMAIN headings : headings'[k] = headings[k]
  /\ headings'[h + 1].start = s /\ headings'[h + 1].body = n + 1
  /\ previous' = 0

LEMMA HeadingStep ==
  ASSUME DocTypeOK, ScanOrder, NEW l \in Lines, ScanLine(l), headings' # headings
  PROVE  /\ UNCHANGED <<fence, inert>>
         /\ \E s \in 0..Len(lines) :
              /\ NewHeading(Len(lines), Len(headings), s)
              /\ \A k \in DOMAIN headings : headings[k].body <= s
              /\ s = Len(lines) \/ (previous # 0 /\ s = previous - 1)
<1>1. l \in Line /\ Len(lines) \in Nat /\ lines \in Seq(Line)
  BY LineRead DEF DocTypeOK
<1>2. Heading(l)
  BY DEF ScanLine, Skip, OpenFence
<1>3. CASE IsAtx(l) /\ Found(Level(l), l.text, Len(lines))
  <2>1. l.text \in Texts \cup {NoText} /\ Level(l) \in 1..6
    BY <1>1, <1>3 DEF Line, IsAtx
  <2>2. NewHeading(Len(lines), Len(headings), Len(lines))
    BY <1>1, <1>3, <2>1, OneMore DEF NewHeading
  <2>3. \A k \in DOMAIN headings : headings[k].body <= Len(lines)
    BY DEF ScanOrder
  <2> QED
    BY <1>1, <1>2, <2>2, <2>3 DEF Heading
<1>4. CASE /\ previous # 0
           /\ Found(IF l.mark = "=" THEN 1 ELSE 2, lines[previous].text, previous - 1)
  <2>1. previous \in 1..Len(lines) /\ previous - 1 \in 0..Len(lines) /\ previous - 1 \in Nat
    BY <1>1, <1>4 DEF DocTypeOK
  <2>2. lines[previous].text \in Texts \cup {NoText}
    <3>1. lines[previous] \in Line
      BY <1>1, <2>1, ElementOfSeq
    <3> QED
      BY <3>1 DEF Line
  <2>3. (IF l.mark = "=" THEN 1 ELSE 2) \in 1..6
    OBVIOUS
  <2>4. NewHeading(Len(lines), Len(headings), previous - 1)
    BY <1>4, <2>1, <2>2, <2>3, OneMore DEF NewHeading
  <2>5. \A k \in DOMAIN headings : headings[k].body <= previous - 1
    <3>1. headings \in Seq(HeadingRec)
      BY DEF DocTypeOK, HeadingRec
    <3>2. \A k \in DOMAIN headings : headings[k].body < previous /\ headings[k].body \in Nat
      BY <1>4, <3>1, HeadingPlaces DEF ScanOrder
    <3> QED
      BY <2>1, <3>2
  <2> QED
    BY <1>2, <1>4, <2>1, <2>4, <2>5 DEF Heading
<1> QED
  BY <1>2, <1>3, <1>4 DEF Heading

LEMMA ScanKeepsOrder ==
  ASSUME DocTypeOK, ScanOrder, NEW l \in Lines, ScanLine(l)
  PROVE  ScanOrder'
<1>1. /\ Len(lines) \in Nat /\ Len(lines') = Len(lines) + 1 /\ headings \in Seq(HeadingRec)
  BY LineRead DEF DocTypeOK, HeadingRec
<1>2. /\ Len(headings) \in Nat /\ DOMAIN headings = 1..Len(headings)
      /\ \A h \in DOMAIN headings : headings[h].start \in Nat /\ headings[h].body \in Nat
  BY <1>1, HeadingPlaces
<1>3. /\ \A h \in DOMAIN headings : /\ headings[h].start < headings[h].body
                                    /\ headings[h].body <= Len(lines)
      /\ \A g, h \in DOMAIN headings : g < h => headings[g].body <= headings[h].start
  BY DEF ScanOrder
<1>4. CASE headings' = headings
  <2>1. previous' \in {0, Len(lines) + 1}
    BY DEF ScanLine, Skip, OpenFence, Heading, Found
  <2>2. \A h \in DOMAIN headings : headings[h].body < Len(lines) + 1
                                   /\ headings[h].body <= Len(lines) + 1
    BY <1>1, <1>2, <1>3
  <2> QED
    BY <1>1, <1>3, <1>4, <2>1, <2>2 DEF ScanOrder
<1>5. CASE headings' # headings
  <2>1. PICK s \in 0..Len(lines) :
          /\ NewHeading(Len(lines), Len(headings), s)
          /\ \A k \in DOMAIN headings : headings[k].body <= s
    BY <1>5, HeadingStep
  <2> DEFINE N == Len(headings)
             H == DOMAIN headings
  <2>2. /\ DOMAIN headings' = H \cup {N + 1} /\ previous' = 0
        /\ \A k \in H : headings'[k] = headings[k]
        /\ headings'[N + 1].start = s /\ headings'[N + 1].body = Len(lines) + 1
    BY <2>1 DEF NewHeading
  <2>3. ASSUME NEW h \in H \cup {N + 1}
        PROVE  headings'[h].start < headings'[h].body /\ headings'[h].body <= Len(lines')
    <3>1. CASE h \in H
      <4>1. /\ headings[h].start < headings[h].body /\ headings[h].body <= Len(lines)
            /\ headings[h].body \in Nat
        BY <1>2, <1>3, <3>1
      <4> QED
        BY <1>1, <2>2, <3>1, <4>1
    <3>2. CASE h = N + 1
      BY <1>1, <2>2, <3>2
    <3> QED
      BY <3>1, <3>2
  <2>4. ASSUME NEW g \in H \cup {N + 1}, NEW h \in H \cup {N + 1}, g < h
        PROVE  headings'[g].body <= headings'[h].start
    <3>1. g \in H
      BY <1>2, <2>4
    <3>2. CASE h \in H
      BY <1>3, <2>2, <2>4, <3>1, <3>2
    <3>3. CASE h = N + 1
      BY <2>1, <2>2, <3>1, <3>3
    <3> QED
      BY <3>2, <3>3
  <2> QED
    BY <2>2, <2>3, <2>4 DEF ScanOrder
<1> QED
  BY <1>4, <1>5
\* One more line to look at.
LEMMA FencesGrow ==
  ASSUME DocTypeOK, NEW l \in Lines, ScanLine(l), NEW f, Fences(f, lines), f[Len(lines)] = fence,
         fence' = FenceStep(fence, l)
  PROVE  \E g : /\ Fences(g, lines') /\ g[Len(lines) + 1] = fence'
                /\ \A i \in 0..Len(lines) : g[i] = f[i]
<1> DEFINE n == Len(lines)
           g == [i \in 0..(n + 1) |-> IF i = n + 1 THEN fence' ELSE f[i]]
<1>1. /\ n \in Nat /\ Len(lines') = n + 1
      /\ \A i \in 1..n : lines'[i] = lines[i]
      /\ lines'[n + 1] = l
  BY LineRead
<1>2. DOMAIN g = 0..(n + 1) /\ g[n + 1] = fence' /\ \A i \in 0..n : g[i] = f[i]
  BY <1>1
<1>3. f[0] = NoFence /\ \A i \in 1..n : f[i] = FenceStep(f[i - 1], lines[i])
  BY DEF Fences
<1>4. f[n] = fence
  OBVIOUS
<1> HIDE DEF g, n
<1>5. g[0] = NoFence
  BY <1>1, <1>2, <1>3
<1>6. ASSUME NEW i \in 1..(n + 1) PROVE g[i] = FenceStep(g[i - 1], lines'[i])
  <2>1. CASE i = n + 1
    <3>1. i - 1 = n /\ n \in 0..n
      BY <1>1, <2>1
    <3>2. g[i] = fence' /\ g[i - 1] = fence /\ lines'[i] = l
      BY <1>1, <1>2, <1>4, <2>1, <3>1
    <3> QED
      BY <3>2
  <2>2. CASE i # n + 1
    <3>1. i \in 1..n /\ i \in 0..n /\ i - 1 \in 0..n
      BY <1>1, <2>2
    <3>2. g[i] = f[i] /\ g[i - 1] = f[i - 1] /\ lines'[i] = lines[i]
      BY <1>1, <1>2, <3>1
    <3>3. f[i] = FenceStep(f[i - 1], lines[i])
      BY <1>3, <3>1
    <3> QED
      BY <3>2, <3>3
  <2> QED
    BY <2>1, <2>2
<1>7. DOMAIN g = 0..Len(lines') /\ \A i \in 1..Len(lines') : g[i] = FenceStep(g[i - 1], lines'[i])
  BY <1>1, <1>2, <1>6
<1>8. Fences(g, lines')
  BY <1>5, <1>7 DEF Fences
<1> QED
  BY <1>2, <1>8 DEF n

\* What a line does to the fence, as collect_links would have it.
LEMMA FenceOfLine ==
  ASSUME DocTypeOK, Fenced, NEW l \in Lines, ScanLine(l)
  PROVE  /\ fence' = NoFence \/ (fence'.mark \in {"tick", "tilde"} /\ fence'.run >= 3)
         /\ inert' = IF fence # NoFence \/ (~l.deep /\ Opens(l))
                     THEN inert \cup {Len(lines) + 1} ELSE inert
         /\ (l.deep => ~Opens(l)) => fence' = FenceStep(fence, l)
         /\ previous' # 0 => previous' = Len(lines) + 1 /\ inert' = inert
<1>1. l \in Line /\ Len(lines) \in Nat
  BY LineRead
<1>2. fence \in [mark: {"tick", "tilde", Blank}, run: Nat]
  BY DEF DocTypeOK
<1>3. fence = NoFence \/ (fence.mark \in {"tick", "tilde"} /\ fence.run >= 3)
  BY DEF Fenced
<1>4. CASE Skip(l)
  <2>1. /\ fence # NoFence
        /\ fence' = IF ~l.deep /\ Closes(fence, l) THEN NoFence ELSE fence
        /\ previous' = 0 /\ inert' = inert \cup {Len(lines) + 1}
    BY <1>4 DEF Skip
  <2>2. Closes(fence, l) => Opens(l)
    <3>1. l.run \in Nat /\ fence.run \in Nat
      BY <1>1, <1>2 DEF Line
    <3> QED
      BY <1>3, <2>1, <3>1 DEF Closes, Opens
  <2> QED
    BY <1>3, <2>1, <2>2 DEF FenceStep
<1>5. CASE OpenFence(l)
  <2>1. /\ fence = NoFence /\ ~l.deep /\ Opens(l)
        /\ fence' = [mark |-> l.mark, run |-> l.run]
        /\ previous' = 0 /\ inert' = inert \cup {Len(lines) + 1}
    BY <1>5 DEF OpenFence
  <2>2. fence'.mark \in {"tick", "tilde"} /\ fence'.run >= 3
    BY <2>1 DEF Opens
  <2> QED
    BY <2>1, <2>2 DEF FenceStep
<1>6. CASE Heading(l)
  <2>1. /\ fence = NoFence /\ (l.deep \/ ~Opens(l)) /\ UNCHANGED <<fence, inert>>
        /\ previous' \in {0, Len(lines) + 1}
    BY <1>6 DEF Heading, Found
  <2> QED
    BY <2>1 DEF FenceStep
<1> QED
  BY <1>4, <1>5, <1>6 DEF ScanLine

LEMMA ScanKeepsFenced ==
  ASSUME DocTypeOK, ScanOrder, Fenced, NEW l \in Lines, ScanLine(l)
  PROVE  Fenced'
<1> DEFINE n == Len(lines)
           Held == fence # NoFence \/ (~l.deep /\ Opens(l))
           Sees(i, g) == g[i - 1] # NoFence \/ Opens(lines[i])
<1>1. /\ n \in Nat /\ Len(lines') = n + 1 /\ DOMAIN lines = 1..n /\ DOMAIN lines' = 1..(n + 1)
      /\ \A i \in 1..n : lines'[i] = lines[i]
      /\ lines'[n + 1] = l
  BY LineRead
<1>2. /\ fence' = NoFence \/ (fence'.mark \in {"tick", "tilde"} /\ fence'.run >= 3)
      /\ inert' = IF Held THEN inert \cup {n + 1} ELSE inert
      /\ (l.deep => ~Opens(l)) => fence' = FenceStep(fence, l)
      /\ previous' # 0 => previous' = n + 1 /\ inert' = inert
  BY FenceOfLine
<1>3. inert \subseteq 1..n /\ previous \in 0..n /\ headings \in Seq(HeadingRec)
  BY DEF DocTypeOK, HeadingRec
<1>4. /\ previous # 0 => \A i \in previous..n : i \notin inert
      /\ \A h \in DOMAIN headings :
           \A i \in (headings[h].start + 1)..headings[h].body : i \notin inert
      /\ NoDeepFence =>
           \E f : /\ Fences(f, lines) /\ f[n] = fence
                  /\ \A i \in 1..n : i \in inert <=> Sees(i, f)
  BY DEF Fenced
<1>5. n + 1 \notin inert
  BY <1>1, <1>3
<1>6. previous' # 0 => \A i \in previous'..Len(lines') : i \notin inert'
  <2> SUFFICES ASSUME previous' # 0, NEW i \in previous'..Len(lines') PROVE i \notin inert'
    OBVIOUS
  <2>1. i = n + 1 /\ inert' = inert
    BY <1>1, <1>2
  <2> QED
    BY <1>5, <2>1
<1>7. \A h \in DOMAIN headings' :
        \A i \in (headings'[h].start + 1)..headings'[h].body : i \notin inert'
  <2>1. ASSUME NEW h \in DOMAIN headings, NEW i \in (headings[h].start + 1)..headings[h].body
        PROVE  i \notin inert'
    <3>1. i \notin inert
      BY <1>4, <2>1
    <3>2. headings[h].body <= n /\ headings[h].body \in Nat /\ headings[h].start \in Nat
      BY <1>3, HeadingPlaces DEF ScanOrder
    <3>3. i # n + 1
      BY <1>1, <2>1, <3>2
    <3> QED
      BY <1>2, <3>1, <3>3
  <2>2. CASE headings' = headings
    BY <2>1, <2>2
  <2>3. CASE headings' # headings
    <3>1. /\ UNCHANGED <<fence, inert>>
          /\ \E s \in 0..n : /\ NewHeading(n, Len(headings), s)
                             /\ s = n \/ (previous # 0 /\ s = previous - 1)
      BY <2>3, HeadingStep
    <3>2. PICK s \in 0..n : /\ NewHeading(n, Len(headings), s)
                            /\ s = n \/ (previous # 0 /\ s = previous - 1)
      BY <3>1
    <3> DEFINE N == Len(headings) + 1
    <3>3. /\ DOMAIN headings' = DOMAIN headings \cup {N}
          /\ \A k \in DOMAIN headings : headings'[k] = headings[k]
          /\ headings'[N].start = s /\ headings'[N].body = n + 1
      BY <3>2 DEF NewHeading
    <3>4. ASSUME NEW i \in (s + 1)..(n + 1) PROVE i \notin inert'
      <4>1. CASE i = n + 1
        BY <1>5, <3>1, <4>1
      <4>2. CASE i # n + 1
        <5>1. s \in Nat /\ i \in Nat /\ s < i /\ i <= n /\ n \in Nat
          BY <1>1, <4>2
        <5>2. s # n
          <6> HIDE DEF n
          <6> QED
            BY <5>1
        <5>3. previous # 0 /\ s = previous - 1 /\ previous \in Nat
          BY <1>3, <3>2, <5>2
        <5>4. previous <= i
          BY <5>1, <5>3
        <5>5. previous # 0 /\ i \in previous..n
          BY <1>1, <5>1, <5>3, <5>4
        <5> QED
          BY <1>4, <3>1, <5>5
      <4> QED
        BY <4>1, <4>2
    <3> HIDE DEF N
    <3>5. ASSUME NEW h \in DOMAIN headings',
                 NEW i \in (headings'[h].start + 1)..headings'[h].body
          PROVE  i \notin inert'
      <4>1. CASE h \in DOMAIN headings
        BY <2>1, <3>3, <3>5, <4>1
      <4>2. CASE h = N
        BY <3>3, <3>4, <3>5, <4>2
      <4> QED
        BY <3>3, <4>1, <4>2
    <3> QED
      BY <3>5
  <2> QED
    BY <2>2, <2>3
<1>8. NoDeepFence' =>
        \E f : /\ Fences(f, lines') /\ f[n + 1] = fence'
               /\ \A i \in 1..(n + 1) :
                    i \in inert' <=> (f[i - 1] # NoFence \/ Opens(lines'[i]))
  <2> SUFFICES ASSUME NoDeepFence'
               PROVE  \E f : /\ Fences(f, lines') /\ f[n + 1] = fence'
                             /\ \A i \in 1..(n + 1) :
                                  i \in inert' <=> (f[i - 1] # NoFence \/ Opens(lines'[i]))
    OBVIOUS
  <2>1. NoDeepFence /\ (l.deep => ~Opens(l))
    <3>1. \A i \in 1..(n + 1) : lines'[i].deep => ~Opens(lines'[i])
      BY <1>1 DEF NoDeepFence, Opens
    <3>2. \A i \in 1..n : i \in 1..(n + 1)
      BY <1>1
    <3>3. n + 1 \in 1..(n + 1)
      BY <1>1
    <3> QED
      BY <1>1, <3>1, <3>2, <3>3 DEF NoDeepFence
  <2>2. PICK f : /\ Fences(f, lines) /\ f[n] = fence
                 /\ \A i \in 1..n : i \in inert <=> Sees(i, f)
    BY <1>4, <2>1
  <2>3. fence' = FenceStep(fence, l)
    BY <1>2, <2>1
  <2>4. PICK g : /\ Fences(g, lines') /\ g[n + 1] = fence'
                 /\ \A i \in 0..n : g[i] = f[i]
    BY <2>2, <2>3, FencesGrow
  <2>5. ASSUME NEW i \in 1..(n + 1)
        PROVE  i \in inert' <=> (g[i - 1] # NoFence \/ Opens(lines'[i]))
    <3>1. CASE i = n + 1
      <4>1. i - 1 = n /\ n \in 0..n
        BY <1>1, <3>1
      <4>2. g[i - 1] = fence /\ lines'[i] = l
        BY <1>1, <2>2, <2>4, <3>1, <4>1
      <4> QED
        BY <1>2, <1>5, <2>1, <3>1, <4>2
    <3>2. CASE i # n + 1
      <4>1. i \in 1..n /\ i - 1 \in 0..n
        BY <1>1, <3>2
      <4>2. g[i - 1] = f[i - 1] /\ lines'[i] = lines[i] /\ (i \in inert' <=> i \in inert)
        BY <1>1, <1>2, <2>4, <3>2, <4>1
      <4> QED
        BY <2>2, <4>1, <4>2
    <3> QED
      BY <3>1, <3>2
  <2> QED
    BY <2>4, <2>5
<1> QED
  BY <1>1, <1>2, <1>6, <1>7, <1>8 DEF Fenced, Opens
-----------------------------------------------------------------------------
(* build_tree keeps the tree *)

LEMMA TreeSizes ==
  ASSUME DocTypeOK, pc # "scan"
  PROVE  /\ Len(headings) \in Nat /\ DOMAIN headings = 1..Len(headings)
         /\ \A h \in DOMAIN headings : headings[h].level \in Int
         /\ headings \in Seq(HeadingRec) /\ lines \in Seq(Line)
         /\ Len(stack) \in Nat /\ DOMAIN stack = 1..Len(stack)
         /\ stack \in Seq(DOMAIN headings) /\ roots \in Seq(DOMAIN headings)
         /\ \A k \in DOMAIN stack : stack[k] \in DOMAIN headings
         /\ next \in 1..(Len(headings) + 1)
         /\ ended \in [DOMAIN headings -> Nat]
         /\ children \in [DOMAIN headings -> Seq(DOMAIN headings)]
<1>1. headings \in Seq(HeadingRec) /\ stack \in Seq(DOMAIN headings) /\ lines \in Seq(Line)
  BY DEF DocTypeOK, HeadingRec
<1>2. /\ Len(headings) \in Nat /\ DOMAIN headings = 1..Len(headings)
      /\ \A h \in DOMAIN headings : headings[h].level \in Int
  <2>1. \A h \in DOMAIN headings : headings[h].level \in 1..6
    BY <1>1, HeadingPlaces
  <2>2. \A h \in DOMAIN headings : headings[h].level \in Int
    BY <2>1
  <2> QED
    BY <1>1, <2>2, HeadingPlaces
<1>3. Len(stack) \in Nat /\ DOMAIN stack = 1..Len(stack)
      /\ \A k \in DOMAIN stack : stack[k] \in DOMAIN headings
  BY <1>1, ElementOfSeq, LenProperties
<1> QED
  BY <1>1, <1>2, <1>3 DEF DocTypeOK

LEMMA EndScanKeepsTree ==
  ASSUME DocInv, EndScan
  PROVE  Tree'
<1>1. /\ next' = 1 /\ stack' = <<>> /\ roots' = <<>> /\ headings' = headings /\ pc' = "build"
      /\ children' = [i \in DOMAIN headings |-> <<>>]
  BY DEF EndScan, DocInv, scanVars
<1>2. Len(headings) \in Nat /\ DOMAIN headings = 1..Len(headings)
  BY HeadingPlaces DEF DocInv, DocTypeOK, HeadingRec
<1>3. DOMAIN stack' = {} /\ Len(stack') = 0
  BY <1>1
<1>4. Nested'
  BY <1>3 DEF Nested
<1>5. OpenChains'
  BY <1>1, <1>3 DEF OpenChains, After, Chain
<1>6. Closed'
  BY <1>1, <1>2 DEF Closed
<1>7. Deeper'
  BY <1>1 DEF Deeper
<1> QED
  BY <1>1, <1>4, <1>5, <1>6, <1>7 DEF Tree

LEMMA PushKeepsTree ==
  ASSUME DocInv, Tree, Push
  PROVE  Tree'
<1> DEFINE N == Len(headings)
           H == DOMAIN headings
           n == Len(stack)
<1>1. /\ pc = "build" /\ pc' = "build" /\ next <= N /\ next' = next + 1
      /\ stack' = Append(stack, next) /\ headings' = headings /\ lines' = lines
      /\ ended' = ended /\ children' = children /\ roots' = roots
      /\ stack # <<>> => ~Outranked(Top)
  BY DEF Push, scanVars
<1>2. /\ N \in Nat /\ H = 1..N /\ n \in Nat /\ DOMAIN stack = 1..n
      /\ \A h \in H : headings[h].level \in Int
      /\ stack \in Seq(H) /\ next \in 1..(N + 1)
      /\ \A k \in 1..n : stack[k] \in H
  BY <1>1, TreeSizes DEF DocInv
<1>3. Nested /\ OpenChains /\ Closed /\ Deeper
  BY <1>1 DEF Tree
<1>4. next \in H
  BY <1>1, <1>2
<1>5. /\ Len(stack') = n + 1 /\ DOMAIN stack' = 1..(n + 1)
      /\ \A k \in 1..n : stack'[k] = stack[k]
      /\ stack'[n + 1] = next
  <2> HIDE DEF H, n
  <2>1. /\ stack' \in Seq(H) /\ Len(stack') = Len(stack) + 1
        /\ \A k \in 1..Len(stack) : stack'[k] = stack[k]
        /\ stack'[Len(stack) + 1] = next
    BY <1>1, <1>2, <1>4, AppendProperties
  <2>2. DOMAIN stack' = 1..Len(stack')
    BY <2>1, LenProperties
  <2> QED
    BY <2>1, <2>2 DEF n
<1> HIDE DEF N, H, n
<1>6. /\ \A k \in 1..n : stack[k] < next
      /\ \A k \in 1..n : \A m \in (stack[k] + 1)..(next - 1) :
           headings[m].level > headings[stack[k]].level
      /\ \A k, m \in 1..n : k < m => stack[k] < stack[m]
  BY <1>2, <1>3 DEF Nested
<1>7. ASSUME NEW k \in 1..n PROVE headings[next].level > headings[stack[k]].level
  <2>1. stack # <<>> /\ n \in 1..n
    BY <1>2, <1>7 DEF n
  <2>2. headings[stack[n]].level < headings[next].level
    <3>1. ~(headings[stack[n]].level >= headings[next].level)
      BY <1>1, <1>2, <1>4, <2>1 DEF Outranked, Top, n, N
    <3>2. headings[stack[n]].level \in Int /\ headings[next].level \in Int
      BY <1>2, <1>4, <2>1
    <3> QED
      BY <3>1, <3>2
  <2>3. CASE k = n
    BY <2>2, <2>3
  <2>4. CASE k # n
    <3>1. k < n
      BY <1>2, <1>7, <2>4
    <3>2. stack[k] < stack[n] /\ stack[n] < next
      BY <1>6, <1>7, <2>1, <3>1
    <3>3. stack[k] \in Int /\ stack[n] \in Int /\ next \in Int
      BY <1>2, <1>7, <2>1
    <3>4. stack[n] \in (stack[k] + 1)..(next - 1)
      BY <3>2, <3>3
    <3>5. headings[stack[n]].level > headings[stack[k]].level
      BY <1>6, <1>7, <3>4
    <3>6. /\ headings[stack[n]].level \in Int /\ headings[next].level \in Int
          /\ headings[stack[k]].level \in Int
      <4>1. stack[n] \in H /\ stack[k] \in H /\ next \in H
        BY <1>2, <1>4, <1>7, <2>1
      <4>2. \A h \in H : headings[h].level \in Int
        BY <1>2
      <4> QED
        BY <4>1, <4>2
    <3> QED
      BY <2>2, <3>5, <3>6
  <2> QED
    BY <2>3, <2>4
<1>8. Nested'
  <2>1. ASSUME NEW k \in 1..(n + 1) PROVE stack'[k] < next'
    <3>1. CASE k \in 1..n
      BY <1>1, <1>2, <1>5, <1>6, <3>1
    <3>2. CASE k = n + 1
      BY <1>1, <1>2, <1>5, <3>2
    <3> QED
      BY <1>2, <2>1, <3>1, <3>2
  <2>2. ASSUME NEW k \in 1..(n + 1), NEW m \in (stack'[k] + 1)..(next' - 1)
        PROVE  headings[m].level > headings[stack'[k]].level
    <3>1. CASE k \in 1..n
      <4>1. stack'[k] = stack[k] /\ stack[k] \in Int /\ next \in Int
        BY <1>2, <1>5, <3>1
      <4>2. m = next \/ m \in (stack[k] + 1)..(next - 1)
        BY <1>1, <2>2, <4>1
      <4> QED
        BY <1>6, <1>7, <3>1, <4>1, <4>2
    <3>2. CASE k = n + 1
      BY <1>1, <1>2, <1>5, <2>2, <3>2
    <3> QED
      BY <1>2, <2>2, <3>1, <3>2
  <2>3. ASSUME NEW k \in 1..(n + 1), NEW m \in 1..(n + 1), k < m
        PROVE  stack'[k] < stack'[m]
    <3>1. k \in 1..n /\ stack'[k] = stack[k]
      BY <1>2, <1>5, <2>3
    <3>2. CASE m \in 1..n
      BY <1>5, <1>6, <2>3, <3>1, <3>2
    <3>3. CASE m = n + 1
      BY <1>5, <1>6, <3>1, <3>3
    <3> QED
      BY <1>2, <3>2, <3>3
  <2> QED
    BY <1>1, <1>5, <2>1, <2>2, <2>3 DEF Nested
<1>9. OpenChains'
  <2>1. /\ \A k \in 1..n : Chain(headings, children[stack[k]], stack[k] + 1,
                                 IF k = n THEN next ELSE stack[k + 1])
        /\ Chain(headings, roots, 1, IF 0 = n THEN next ELSE stack[0 + 1])
    BY <1>2, <1>3 DEF OpenChains, After, n
  <2>2. ASSUME NEW k \in 1..(n + 1)
        PROVE  Chain(headings, children[stack'[k]], stack'[k] + 1,
                     IF k = n + 1 THEN next + 1 ELSE stack'[k + 1])
    <3>1. CASE k = n + 1
      <4>1. stack'[k] = next /\ children[next] = <<>>
        BY <1>2, <1>3, <1>4, <1>5, <3>1 DEF Deeper, H
      <4> QED
        BY <3>1, <4>1 DEF Chain
    <3>2. CASE k # n + 1
      <4>1. k \in 1..n
        BY <1>2, <3>2
      <4>2. stack'[k] = stack[k] /\ stack'[k + 1] = IF k = n THEN next ELSE stack[k + 1]
        <5>1. CASE k = n
          BY <1>5, <4>1, <5>1
        <5>2. CASE k # n
          <6>1. k + 1 \in 1..n
            BY <1>2, <4>1, <5>2
          <6> QED
            BY <1>5, <4>1, <5>2, <6>1
        <5> QED
          BY <5>1, <5>2
      <4> QED
        BY <2>1, <3>2, <4>1, <4>2
    <3> QED
      BY <3>1, <3>2
  <2>3. Chain(headings, roots, 1, stack'[0 + 1])
    <3>1. CASE n = 0
      BY <1>5, <2>1, <3>1
    <3>2. CASE n # 0
      <4>1. 0 + 1 \in 1..n
        BY <1>2, <3>2
      <4>2. stack'[0 + 1] = stack[0 + 1]
        BY <1>5, <4>1
      <4> QED
        BY <2>1, <3>2, <4>2
    <3> QED
      BY <3>1, <3>2
  <2>4. 0 # n + 1
    BY <1>2
  <2> QED
    BY <1>1, <1>5, <2>2, <2>3, <2>4 DEF OpenChains, After
<1>10. Closed'
  <2> SUFFICES ASSUME NEW h \in H, h < next + 1, ~\E k \in 1..(n + 1) : stack'[k] = h
               PROVE  /\ EndOf(headings, h) \in (h + 1)..(next + 1)
                      /\ ended[h] = StartOf(EndOf(headings, h))
                      /\ Chain(headings, children[h], h + 1, EndOf(headings, h))
    BY <1>1, <1>5 DEF Closed, IsOpen, StartOf, H
  <2>1. h # next /\ ~\E k \in 1..n : stack[k] = h
    <3>1. n + 1 \in 1..(n + 1) /\ \A k \in 1..n : k \in 1..(n + 1)
      BY <1>2
    <3> QED
      BY <1>5, <3>1
  <2>2. h < next
    BY <1>2, <2>1
  <2>3. /\ EndOf(headings, h) \in (h + 1)..next
        /\ ended[h] = StartOf(EndOf(headings, h))
        /\ Chain(headings, children[h], h + 1, EndOf(headings, h))
    BY <1>2, <1>3, <2>1, <2>2 DEF Closed, IsOpen, H
  <2>4. EndOf(headings, h) \in (h + 1)..(next + 1)
    BY <1>2, <2>3
  <2> QED
    BY <2>3, <2>4
<1>11. Deeper'
  <2>1. \A h \in H : h >= next + 1 => h >= next
    BY <1>2
  <2> QED
    BY <1>1, <1>3, <2>1 DEF Deeper, H
<1> QED
  BY <1>1, <1>8, <1>9, <1>10, <1>11 DEF Tree

\* The section that is closed ends at the next heading.
LEMMA ClosedEnds ==
  ASSUME DocInv, Tree, Close
  PROVE  /\ stack # <<>> /\ Top \in DOMAIN headings /\ Top < next
         /\ EndOf(headings, Top) = next
<1> DEFINE N == Len(headings)
           H == DOMAIN headings
           n == Len(stack)
           t == stack[n]
<1>1. pc = "build" /\ stack # <<>> /\ Outranked(t)
  BY DEF Close, Top
<1>2. /\ N \in Nat /\ H = 1..N /\ n \in Nat /\ DOMAIN stack = 1..n
      /\ \A h \in H : headings[h].level \in Int
      /\ headings \in Seq(HeadingRec) /\ stack \in Seq(H) /\ next \in 1..(N + 1)
      /\ \A k \in 1..n : stack[k] \in H
  BY <1>1, TreeSizes DEF DocInv
<1>3. n \in 1..n
  BY <1>1, <1>2, EmptySeq
<1>4. /\ \A k \in 1..n : stack[k] < next
      /\ \A k \in 1..n : \A m \in (stack[k] + 1)..(next - 1) :
           headings[m].level > headings[stack[k]].level
  BY <1>1, <1>2 DEF Tree, Nested
<1>5. t \in H /\ t < next /\ \A m \in (t + 1)..(next - 1) : headings[m].level > headings[t].level
  BY <1>2, <1>3, <1>4
<1> HIDE DEF t, n
<1>6. next <= N => headings[next].level <= headings[t].level
  <2> SUFFICES ASSUME next <= N PROVE headings[next].level <= headings[t].level
    OBVIOUS
  <2>1. headings[t].level >= headings[next].level
    BY <1>1, <1>2 DEF Outranked
  <2>2. next \in H
    BY <1>2
  <2>3. headings[t].level \in Int /\ headings[next].level \in Int
    BY <1>2, <1>5, <2>2
  <2> QED
    BY <2>1, <2>3
<1>7. next \in (t + 1)..(N + 1)
  BY <1>2, <1>5
<1>8. Ends(headings, t, next)
  BY <1>5, <1>6 DEF Ends
<1>9. EndOf(headings, t) = next
  BY <1>2, <1>5, <1>7, <1>8, EndIs
<1> QED
  BY <1>1, <1>5, <1>9 DEF Top, t, n

LEMMA CloseKeepsTree ==
  ASSUME DocInv, Tree, Close
  PROVE  Tree'
<1> DEFINE N == Len(headings)
           H == DOMAIN headings
           n == Len(stack)
           t == stack[n]
           b == stack[n - 1]
<1>1. /\ pc = "build" /\ pc' = "build" /\ next' = next /\ stack # <<>> /\ stack' = Below
      /\ headings' = headings /\ lines' = lines
      /\ ended' = [ended EXCEPT ![t] = StartOf(next)]
      /\ IF Below = <<>>
         THEN roots' = Append(roots, t) /\ children' = children
         ELSE /\ children' = [children EXCEPT ![Below[Len(Below)]] =
                                Append(children[Below[Len(Below)]], t)]
              /\ roots' = roots
  BY DEF Close, scanVars, Top, StartOf
<1>2. /\ N \in Nat /\ H = 1..N /\ n \in Nat /\ DOMAIN stack = 1..n
      /\ \A h \in H : headings[h].level \in Int
      /\ stack \in Seq(H) /\ roots \in Seq(H) /\ next \in 1..(N + 1)
      /\ \A k \in 1..n : stack[k] \in H
      /\ ended \in [H -> Nat] /\ children \in [H -> Seq(H)]
  BY <1>1, TreeSizes DEF DocInv
<1>3. n \in 1..n /\ n >= 1
  BY <1>1, <1>2, EmptySeq
<1>4. t \in H /\ t < next /\ EndOf(headings, t) = next
  BY ClosedEnds DEF Top
<1>5. Nested /\ OpenChains /\ Closed /\ Deeper
  BY <1>1 DEF Tree
<1>6. /\ \A k \in 1..n : stack[k] < next
      /\ \A k \in 1..n : \A m \in (stack[k] + 1)..(next - 1) :
           headings[m].level > headings[stack[k]].level
      /\ \A k, m \in 1..n : k < m => stack[k] < stack[m]
  BY <1>2, <1>5 DEF Nested
<1>7. /\ Len(stack') = n - 1 /\ DOMAIN stack' = 1..(n - 1) /\ stack' \in Seq(H)
      /\ \A k \in 1..(n - 1) : stack'[k] = stack[k] /\ k \in 1..n /\ k < n
  <2> HIDE DEF H, n
  <2>1. 1 \in Int /\ n - 1 \in Int /\ \A k \in 1..(n - 1) : stack[k] \in H /\ k \in 1..n /\ k < n
    <3>1. \A k \in 1..(n - 1) : k \in 1..n /\ k < n
      BY <1>2
    <3>2. 1 \in Int /\ n - 1 \in Int
      BY <1>2
    <3> QED
      BY <1>2, <3>1, <3>2
  <2>2. /\ stack' \in Seq(H) /\ Len(stack') = IF 1 <= n - 1 THEN n - 1 - 1 + 1 ELSE 0
        /\ \A k \in 1..(n - 1 - 1 + 1) : stack'[k] = stack[1 + k - 1]
    BY <1>1, <2>1, SubSeqProperties DEF Below, n
  <2>3. Len(stack') = n - 1 /\ n - 1 - 1 + 1 = n - 1 /\ \A k \in 1..(n - 1) : 1 + k - 1 = k
    BY <1>2, <1>3, <2>2
  <2>4. DOMAIN stack' = 1..Len(stack')
    BY <2>2, LenProperties
  <2> QED
    BY <2>1, <2>2, <2>3, <2>4
<1>8. n = 1 => roots' = Append(roots, t) /\ children' = children
  <2>1. n = 1 => Below = <<>>
    BY <1>1, <1>7, EmptySeq
  <2> QED
    BY <1>1, <2>1
<1>9. n # 1 => /\ n - 1 \in 1..n /\ n - 1 \in 1..(n - 1) /\ b \in H
               /\ children' = [children EXCEPT ![b] = Append(children[b], t)]
               /\ roots' = roots
  <2> SUFFICES ASSUME n # 1
               PROVE  /\ n - 1 \in 1..n /\ n - 1 \in 1..(n - 1) /\ b \in H
                      /\ children' = [children EXCEPT ![b] = Append(children[b], t)]
                      /\ roots' = roots
    OBVIOUS
  <2>1. n - 1 \in 1..n /\ n - 1 \in 1..(n - 1)
    BY SMTT(40), <1>2, <1>3
  <2>2. Len(Below) = n - 1 /\ Below[Len(Below)] = b /\ Below # <<>>
    <3>1. Len(Below) = n - 1 /\ Below[n - 1] = b
      BY <1>1, <1>7, <2>1
    <3>2. n - 1 # 0
      BY <1>2, <1>3
    <3> QED
      BY <3>1, <3>2, EmptySeq
  <2> QED
    BY <1>1, <1>2, <2>1, <2>2
<1>10. ended'[t] = StartOf(next) /\ \A h \in H : h # t => ended'[h] = ended[h]
  BY <1>1, <1>2, <1>4
<1>11. \A h \in H : h # b \/ n = 1 => children'[h] = children[h]
  BY <1>2, <1>8, <1>9
<1>12. n # 1 => children'[b] = Append(children[b], t)
  BY <1>2, <1>9
<1>13. /\ \A k \in 1..n : Chain(headings, children[stack[k]], stack[k] + 1,
                                IF k = n THEN next ELSE stack[k + 1])
       /\ Chain(headings, roots, 1, IF 0 = n THEN next ELSE stack[0 + 1])
  BY <1>2, <1>5 DEF OpenChains, After
<1> HIDE DEF N, H, n, t, b
<1>14. Nested'
  <2>1. \A k \in 1..(n - 1) : stack'[k] < next
    BY <1>6, <1>7
  <2>2. \A k \in 1..(n - 1) : \A m \in (stack'[k] + 1)..(next - 1) :
           headings[m].level > headings[stack'[k]].level
    BY <1>6, <1>7
  <2>3. \A k, m \in 1..(n - 1) : k < m => stack'[k] < stack'[m]
    BY <1>6, <1>7
  <2> QED
    BY <1>1, <1>7, <2>1, <2>2, <2>3 DEF Nested
<1>15. OpenChains'
  <2>1. ASSUME NEW k \in 1..(n - 1)
        PROVE  Chain(headings, children'[stack'[k]], stack'[k] + 1,
                     IF k = n - 1 THEN next ELSE stack'[k + 1])
    <3>1. stack'[k] = stack[k] /\ k \in 1..n /\ k < n /\ stack[k] \in H /\ n # 1
      <4>1. n # 1
        BY <2>1
      <4>2. stack'[k] = stack[k] /\ k \in 1..n /\ k < n
        BY <1>7
      <4> QED
        BY <1>2, <4>1, <4>2
    <3>2. Chain(headings, children[stack[k]], stack[k] + 1, stack[k + 1])
      BY <1>13, <3>1
    <3>3. CASE k = n - 1
      <4>1. stack[k] = b /\ stack[k + 1] = t /\ children[b] \in Seq(H)
        <5>1. k + 1 = n
          BY <1>2, <3>3
        <5> QED
          BY <1>2, <3>1, <3>3, <5>1 DEF b, t
      <4>2. Chain(headings, children[b], b + 1, t)
        BY <3>2, <4>1
      <4>3. Chain(headings, Append(children[b], t), b + 1, EndOf(headings, t))
        BY <1>4, <4>1, <4>2, ChainGrows
      <4> QED
        BY <1>4, <1>12, <3>1, <3>3, <4>1, <4>3
    <3>4. CASE k # n - 1
      <4>1. n - 1 \in 1..n /\ k < n - 1 /\ k + 1 \in 1..(n - 1)
        <5>1. n \in Nat /\ k \in Nat /\ k >= 1 /\ k < n /\ k # n - 1
          BY <1>2, <3>1, <3>4
        <5>2. k < n - 1
          BY <5>1
        <5> QED
          BY <5>1, <5>2
      <4>2. stack[k] < b /\ b \in H
        BY <1>2, <1>6, <3>1, <4>1 DEF b
      <4>3. stack[k] # b
        BY <1>2, <3>1, <4>2
      <4>4. children'[stack[k]] = children[stack[k]] /\ stack'[k + 1] = stack[k + 1]
        BY <1>7, <1>11, <3>1, <4>1, <4>3
      <4> QED
        BY <3>1, <3>2, <3>4, <4>4
    <3> QED
      BY <3>3, <3>4
  <2>2. Chain(headings, roots', 1, IF 0 = n - 1 THEN next ELSE stack'[0 + 1])
    <3>1. Chain(headings, roots, 1, stack[0 + 1])
      BY <1>3, <1>13
    <3>2. CASE n = 1
      <4>1. stack[0 + 1] = t
        BY <3>2 DEF t
      <4>2. Chain(headings, Append(roots, t), 1, EndOf(headings, t))
        <5>1. Chain(headings, roots, 1, t) /\ roots \in Seq(H) /\ t \in H
          BY <1>2, <1>4, <3>1, <4>1
        <5> QED
          BY <5>1, ChainGrows
      <4>3. 0 = n - 1 /\ roots' = Append(roots, t)
        BY <1>8, <3>2
      <4> QED
        BY <1>4, <4>2, <4>3
    <3>3. CASE n # 1
      <4>1. 0 # n - 1 /\ 0 + 1 \in 1..(n - 1)
        BY <1>2, <1>3, <3>3
      <4>2. roots' = roots /\ stack'[0 + 1] = stack[0 + 1]
        BY <1>7, <1>9, <3>3, <4>1
      <4> QED
        BY <3>1, <4>1, <4>2
    <3> QED
      BY <3>2, <3>3
  <2> QED
    BY <1>1, <1>7, <2>1, <2>2 DEF OpenChains, After
<1>16. Closed'
  <2> SUFFICES ASSUME NEW h \in H, h < next, ~\E k \in 1..(n - 1) : stack'[k] = h
               PROVE  /\ EndOf(headings, h) \in (h + 1)..next
                      /\ ended'[h] = StartOf(EndOf(headings, h))
                      /\ Chain(headings, children'[h], h + 1, EndOf(headings, h))
    BY <1>1, <1>7 DEF Closed, IsOpen, StartOf, H
  <2>1. children'[h] = children[h]
    <3>1. CASE n = 1
      BY <1>11, <3>1
    <3>2. CASE n # 1
      <4>1. stack'[n - 1] = b /\ n - 1 \in 1..(n - 1)
        BY <1>7, <1>9, <3>2 DEF b
      <4> QED
        BY <1>11, <4>1
    <3> QED
      BY <3>1, <3>2
  <2>2. CASE h = t
    <3>1. Chain(headings, children[t], t + 1, next)
      BY <1>3, <1>13 DEF t
    <3>2. next \in (t + 1)..next
      BY <1>2, <1>4
    <3> QED
      BY <1>4, <1>10, <2>1, <2>2, <3>1, <3>2
  <2>3. CASE h # t
    <3>1. ~\E k \in 1..n : stack[k] = h
      <4> SUFFICES ASSUME NEW k \in 1..n, stack[k] = h PROVE FALSE
        OBVIOUS
      <4>1. k # n
        BY <2>3 DEF t
      <4>2. k \in 1..(n - 1)
        BY <1>2, <4>1
      <4> QED
        BY <1>7, <4>2
    <3>2. /\ EndOf(headings, h) \in (h + 1)..next
          /\ ended[h] = StartOf(EndOf(headings, h))
          /\ Chain(headings, children[h], h + 1, EndOf(headings, h))
      BY <1>2, <1>5, <3>1 DEF Closed, IsOpen, H
    <3> QED
      BY <1>10, <2>1, <2>3, <3>2
  <2> QED
    BY <2>2, <2>3
<1>17. Deeper'
  <2> SUFFICES ASSUME NEW h \in H
               PROVE  /\ h >= next => children'[h] = <<>>
                      /\ \A i \in DOMAIN children'[h] :
                           headings[children'[h][i]].level > headings[h].level
    BY <1>1 DEF Deeper, H
  <2>1. /\ h >= next => children[h] = <<>>
        /\ \A i \in DOMAIN children[h] : headings[children[h][i]].level > headings[h].level
    BY <1>5 DEF Deeper, H
  <2>2. CASE h # b \/ n = 1
    BY <1>11, <2>1, <2>2
  <2>3. CASE h = b /\ n # 1
    <3>1. b < next /\ b < t
      <4>1. n - 1 \in 1..n /\ n - 1 < n
        BY <1>2, <1>9, <2>3
      <4> QED
        BY <1>3, <1>6, <4>1 DEF b, t
    <3>2. headings[t].level > headings[b].level
      <4>1. t \in (b + 1)..(next - 1)
        <5>1. t \in Int /\ b \in Int /\ next \in Int
          BY <1>2, <1>4, <1>9, <2>3
        <5> QED
          BY <1>4, <3>1, <5>1
      <4>2. n - 1 \in 1..n
        BY <1>9, <2>3
      <4> QED
        BY <1>6, <4>1, <4>2 DEF b
    <3>3. ~(h >= next)
      BY <1>2, <2>3, <3>1
    <3>4. ASSUME NEW i \in DOMAIN children'[h]
          PROVE  headings[children'[h][i]].level > headings[h].level
      <4> DEFINE c == children[h]
      <4>1. c \in Seq(H) /\ children'[h] = Append(c, t)
        BY <1>2, <1>12, <2>3
      <4> HIDE DEF c
      <4>2. /\ Append(c, t) \in Seq(H) /\ Len(Append(c, t)) = Len(c) + 1
            /\ \A k \in 1..Len(c) : Append(c, t)[k] = c[k]
            /\ Append(c, t)[Len(c) + 1] = t
        BY <1>4, <4>1, AppendProperties
      <4>3. Len(c) \in Nat /\ DOMAIN c = 1..Len(c) /\ i \in 1..(Len(c) + 1)
        BY <4>1, <4>2, LenProperties
      <4>4. CASE i = Len(c) + 1
        BY <2>3, <3>2, <4>1, <4>2, <4>4
      <4>5. CASE i # Len(c) + 1
        <5>1. i \in DOMAIN c /\ children'[h][i] = c[i]
          BY <4>1, <4>2, <4>3, <4>5
        <5> QED
          BY <2>1, <5>1 DEF c
      <4> QED
        BY <4>4, <4>5
    <3> QED
      BY <3>3, <3>4
  <2> QED
    BY <2>2, <2>3
<1> QED
  BY <1>1, <1>14, <1>15, <1>16, <1>17 DEF Tree

LEMMA TreeStarts == Init => TreeInv
<1> SUFFICES ASSUME Init PROVE TreeInv
  OBVIOUS
<1>1. /\ pc = "scan" /\ lines = <<>> /\ fence = NoFence /\ previous = 0
      /\ headings = <<>> /\ inert = {}
  BY DEF Init
<1>2. DOMAIN headings = {} /\ Len(lines) = 0
  BY <1>1
<1>3. ScanOrder /\ Tree
  BY <1>1, <1>2 DEF ScanOrder, Tree
<1>4. Fences([i \in 0..0 |-> NoFence], lines)
  BY <1>2 DEF Fences
<1>5. Fenced
  <2> DEFINE f == [i \in 0..0 |-> NoFence]
  <2>1. f[Len(lines)] = fence /\ \A i \in 1..Len(lines) : FALSE
    BY <1>1, <1>2
  <2> HIDE DEF f
  <2> QED
    BY <1>1, <1>2, <1>4, <2>1 DEF Fenced, f
<1> QED
  BY <1>3, <1>5 DEF TreeInv

LEMMA TreeStep ==
  ASSUME DocInv, TreeInv, [Next]_docVars
  PROVE  TreeInv'
<1>1. DocTypeOK /\ ScanOrder /\ Tree /\ Fenced
  BY DEF DocInv, TreeInv
<1>2. ASSUME NEW l \in Lines, ScanLine(l) PROVE TreeInv'
  <2>1. Tree'
    BY <1>2, LineRead, <1>1 DEF Tree
  <2> QED
    BY <1>1, <1>2, <2>1, ScanKeepsOrder, ScanKeepsFenced DEF TreeInv
<1>3. ASSUME UNCHANGED scanVars PROVE ScanOrder' /\ Fenced'
  BY <1>1, <1>3 DEF scanVars, ScanOrder, Fenced, NoDeepFence
<1>4. CASE EndScan
  BY <1>3, <1>4, EndScanKeepsTree DEF TreeInv, EndScan
<1>5. CASE Close
  BY <1>1, <1>3, <1>5, CloseKeepsTree DEF TreeInv, Close
<1>6. CASE Push
  BY <1>1, <1>3, <1>6, PushKeepsTree DEF TreeInv, Push
<1>7. ASSUME UNCHANGED <<headings, lines, buildVars>>, pc # "scan",
             pc' = "done" => pc = "done" \/ (stack = <<>> /\ next = Len(headings) + 1)
      PROVE  Tree'
  BY <1>1, <1>7 DEF Tree, Nested, OpenChains, After, Closed, IsOpen, Deeper, StartOf, buildVars
<1>8. CASE Finish
  <2>1. /\ UNCHANGED <<scanVars, buildVars>> /\ pc = "build"
        /\ stack = <<>> /\ next > Len(headings)
    BY <1>8 DEF Finish
  <2>2. next = Len(headings) + 1
    BY <1>1, <2>1, TreeSizes
  <2>3. Tree'
    BY <1>7, <2>1, <2>2 DEF scanVars
  <2> QED
    BY <1>3, <2>1, <2>3 DEF TreeInv
<1>9. CASE Another
  <2>1. /\ pc' = "scan" /\ lines' = <<>> /\ fence' = NoFence /\ previous' = 0
        /\ headings' = <<>> /\ inert' = {}
        /\ next' = 1 /\ stack' = <<>> /\ ended' = <<>> /\ children' = <<>> /\ roots' = <<>>
    BY <1>9 DEF Another
  <2>2. Init'
    BY <2>1 DEF Init
  <2> QED
    BY <2>2, TreeStarts, PTL
<1>10. CASE UNCHANGED docVars
  <2>1. UNCHANGED <<pc, scanVars, buildVars>>
    BY <1>10 DEF docVars
  <2>2. Tree'
    <3>1. CASE pc = "scan"
      BY <2>1, <3>1 DEF Tree
    <3>2. CASE pc # "scan"
      BY <1>7, <2>1, <3>2 DEF scanVars
    <3> QED
      BY <3>1, <3>2
  <2> QED
    BY <1>3, <2>1, <2>2 DEF TreeInv
<1> QED
  BY <1>2, <1>4, <1>5, <1>6, <1>8, <1>9, <1>10 DEF Next, Build
-----------------------------------------------------------------------------
(* What the finished tree says *)

\* The tree of a document that is parsed.
LEMMA Finished ==
  ASSUME DocInv, TreeInv, pc = "done"
  PROVE  /\ Chain(headings, roots, 1, Len(headings) + 1)
         /\ \A h \in DOMAIN headings :
              /\ EndOf(headings, h) \in (h + 1)..(Len(headings) + 1)
              /\ ended[h] = StartOf(EndOf(headings, h))
              /\ Chain(headings, children[h], h + 1, EndOf(headings, h))
              /\ \A i \in DOMAIN children[h] :
                   headings[children[h][i]].level > headings[h].level
<1>1. /\ pc # "scan" /\ stack = <<>> /\ next = Len(headings) + 1
      /\ OpenChains /\ Closed /\ Deeper
  BY DEF TreeInv, Tree
<1>2. Len(headings) \in Nat /\ DOMAIN headings = 1..Len(headings)
  BY <1>1, TreeSizes DEF DocInv
<1>3. Len(stack) = 0 /\ DOMAIN stack = {}
  BY <1>1
<1>4. Chain(headings, roots, 1, Len(headings) + 1)
  BY <1>1, <1>3 DEF OpenChains, After
<1>5. \A h \in DOMAIN headings : h < next /\ ~IsOpen(h)
  BY <1>1, <1>2, <1>3 DEF IsOpen
<1> QED
  BY <1>1, <1>4, <1>5 DEF Closed, Deeper

\* Sections one after the other meet.
LEMMA ChainMeets ==
  ASSUME DocInv, TreeInv, pc = "done", NEW s \in Seq(DOMAIN headings),
         NEW a, NEW b, Chain(headings, s, a, b)
  PROVE  Meet(s, StartOf(a), StartOf(b))
<1> DEFINE H == DOMAIN headings
           N == Len(headings)
           n == Len(s)
<1>1. N \in Nat /\ H = 1..N
  BY TreeSizes DEF DocInv
<1>2. n \in Nat /\ \A i \in 1..n : s[i] \in H
  BY LenProperties
<1>3. \A h \in H : ended[h] = StartOf(EndOf(headings, h)) /\ StartOf(h) = headings[h].start
  BY <1>1, Finished DEF StartOf
<1>4. CASE s = <<>>
  BY <1>4 DEF Chain, Meet
<1>5. CASE s # <<>>
  <2>1. /\ s[1] = a /\ EndOf(headings, s[n]) = b
        /\ \A i \in 1..(n - 1) : EndOf(headings, s[i]) = s[i + 1]
    BY <1>5 DEF Chain
  <2>2. n >= 1
    BY <1>2, <1>5, EmptySeq
  <2> HIDE DEF n, H
  <2>3. 1 \in 1..n /\ n \in 1..n /\ \A i \in 1..(n - 1) : i \in 1..n /\ i + 1 \in 1..n
    BY <1>2, <2>2
  <2>4. headings[s[1]].start = StartOf(a)
    BY <1>2, <1>3, <2>1, <2>3
  <2>5. ended[s[n]] = StartOf(b)
    BY <1>2, <1>3, <2>1, <2>3
  <2>6. \A i \in 1..(n - 1) : ended[s[i]] = headings[s[i + 1]].start
    BY <1>2, <1>3, <2>1, <2>3
  <2> QED
    BY <1>5, <2>4, <2>5, <2>6 DEF Meet, n
<1> QED
  BY <1>4, <1>5

\* The body of a section ends where the next heading begins.
LEMMA BodyIsBeforeNext ==
  ASSUME DocInv, TreeInv, pc = "done", NEW h \in DOMAIN headings
  PROVE  BodyEnd(h) = StartOf(h + 1)
<1> DEFINE H == DOMAIN headings
           N == Len(headings)
           c == children[h]
<1>1. N \in Nat /\ H = 1..N /\ c \in Seq(H)
  BY TreeSizes DEF DocInv
<1>2. ended[h] = StartOf(EndOf(headings, h)) /\ Chain(headings, c, h + 1, EndOf(headings, h))
  BY Finished
<1>3. CASE c = <<>>
  BY <1>2, <1>3 DEF Chain, BodyEnd
<1>4. CASE c # <<>>
  <2>1. c[1] = h + 1
    BY <1>2, <1>4 DEF Chain
  <2>2. c[1] \in H
    BY <1>1, <1>4, EmptySeq, LenProperties, ElementOfSeq
  <2>3. StartOf(h + 1) = headings[c[1]].start
    BY <1>1, <2>1, <2>2 DEF StartOf
  <2> QED
    BY <1>4, <2>3 DEF BodyEnd
<1> QED
  BY <1>3, <1>4

\* One step of Walk::next, and the whole walk.
WalkStep(w) ==
  IF w.left = <<>> THEN w
  ELSE [popped |-> Append(w.popped, w.left[Len(w.left)]),
        left |-> SubSeq(w.left, 1, Len(w.left) - 1) \o Reversed(children[w.left[Len(w.left)]])]
WalkOf(f) ==
  [k \in 0..Len(headings) |->
     IF k = 0 THEN [popped |-> <<>>, left |-> Reversed(roots)] ELSE WalkStep(f[k - 1])]

LEMMA ReversedType ==
  ASSUME NEW H, NEW s \in Seq(H)
  PROVE  Reversed(s) \in Seq(H)
<1>1. Len(s) \in Nat /\ \A i \in 1..Len(s) : s[i] \in H
  BY LenProperties
<1>2. \A i \in 1..Len(s) : Len(s) + 1 - i \in 1..Len(s)
  BY <1>1
<1> QED
  BY <1>1, <1>2 DEF Reversed

LEMMA WalkStepType ==
  ASSUME NEW H, children \in [H -> Seq(H)],
         NEW w \in [popped: Seq(H), left: Seq(H)]
  PROVE  WalkStep(w) \in [popped: Seq(H), left: Seq(H)]
<1> DEFINE t == w.left
           n == Len(t)
           s == t[n]
           front == SubSeq(t, 1, n - 1)
<1>1. w.popped \in Seq(H) /\ t \in Seq(H)
  OBVIOUS
<1>2. CASE t = <<>>
  BY <1>2 DEF WalkStep
<1>3. CASE t # <<>>
  <2>1. n \in Nat /\ n >= 1 /\ \A i \in 1..n : t[i] \in H
    BY <1>1, <1>3, EmptySeq, LenProperties
  <2>2. s \in H
    BY <2>1
  <2>3. front \in Seq(H)
    <3>1. \A i \in 1..(n - 1) : t[i] \in H
      BY <2>1
    <3>2. 1 \in Int /\ n - 1 \in Int
      BY <2>1
    <3> HIDE DEF t, n
    <3> QED
      BY <1>1, <3>1, <3>2, SubSeqProperties
  <2>4. Reversed(children[s]) \in Seq(H)
    BY <2>2, ReversedType
  <2>5. Append(w.popped, s) \in Seq(H)
    <3> HIDE DEF s
    <3> QED
      BY <1>1, <2>2, AppendProperties
  <2>6. front \o Reversed(children[s]) \in Seq(H)
    <3> HIDE DEF front, s
    <3> QED
      BY <2>3, <2>4, ConcatProperties
  <2>7. WalkStep(w) = [popped |-> Append(w.popped, s), left |-> front \o Reversed(children[s])]
    BY <1>3 DEF WalkStep
  <2> HIDE DEF s, front
  <2> QED
    BY <2>5, <2>6, <2>7
<1> QED
  BY <1>2, <1>3

\* The walk that the outline is read from.
LEMMA WalkIs ==
  ASSUME DocInv, pc = "done"
  PROVE  \E f : f = WalkOf(f) /\ Walked = f[Len(headings)]
<1> DEFINE N == Len(headings)
           H == DOMAIN headings
           S == [popped: Seq(H), left: Seq(H)]
           a == [popped |-> <<>>, left |-> Reversed(roots)]
           go == [w \in S |-> WalkStep(w)]
           G == [k \in 1..N |-> go]
<1>1. N \in Nat /\ children \in [H -> Seq(H)] /\ roots \in Seq(H)
  BY TreeSizes DEF DocInv
<1>2. a \in S
  <2>1. Reversed(roots) \in Seq(H) /\ <<>> \in Seq(H)
    BY <1>1, ReversedType, EmptySeq
  <2> HIDE DEF H
  <2> QED
    BY <2>1
<1>3. go \in [S -> S]
  <2>1. \A w \in S : WalkStep(w) \in S
    <3> HIDE DEF H
    <3> QED
      BY <1>1, WalkStepType
  <2> HIDE DEF S
  <2> QED
    BY <2>1
<1>4. G \in [1..N -> [S -> S]]
  <2> HIDE DEF go, S
  <2> QED
    BY <1>3
<1>5. PICK f : Stepwise(f, N, S, a, G)
  <2> HIDE DEF G, N, S, a
  <2> QED
    BY <1>1, <1>2, <1>4, StepwiseFunction
<1>6. f \in [0..N -> S] /\ f[0] = a /\ \A k \in 1..N : f[k] = G[k][f[k - 1]]
  BY <1>5 DEF Stepwise
<1>7. ASSUME NEW k \in 1..N PROVE f[k] = WalkStep(f[k - 1])
  <2>1. f[k] = G[k][f[k - 1]] /\ f[k - 1] \in S
    <3> HIDE DEF G, N, S
    <3> QED
      BY <1>1, <1>6
  <2>2. G[k] = go
    <3> HIDE DEF go, N
    <3> QED
      OBVIOUS
  <2>3. f[k] = go[f[k - 1]]
    BY <2>1, <2>2
  <2> HIDE DEF S
  <2> QED
    BY <2>1, <2>3
<1>8. f = WalkOf(f)
  <2>1. f = [k \in 0..N |-> f[k]]
    BY <1>6
  <2>2. \A k \in 0..N : k = 0 \/ k \in 1..N
    BY <1>1
  <2> HIDE DEF G, S, H
  <2> QED
    BY <1>6, <1>7, <2>1, <2>2 DEF WalkOf
<1> DEFINE walk == CHOOSE g : g = WalkOf(g)
<1>9. walk = WalkOf(walk)
  BY <1>8
<1>10. Walked = walk[N]
  BY DEF Walked, WalkOf, WalkStep
<1> QED
  <2> HIDE DEF walk
  <2> QED
    BY <1>9, <1>10

\* After k steps of the walk the first k headings were named, as written, and what is left
\* goes on from the next.
LEMMA WalkedSoFar ==
  ASSUME DocInv, TreeInv, pc = "done", NEW f, f = WalkOf(f), NEW k \in 0..Len(headings)
  PROVE  /\ f[k].popped \in Seq(DOMAIN headings) /\ Len(f[k].popped) = k
         /\ \A i \in 1..k : f[k].popped[i] = i
         /\ f[k].left \in Seq(DOMAIN headings)
         /\ Ahead(headings, f[k].left, k + 1, Len(headings) + 1)
<1> DEFINE N == Len(headings)
           H == DOMAIN headings
           Said(m) == /\ f[m].popped \in Seq(H) /\ Len(f[m].popped) = m
                      /\ \A i \in 1..m : f[m].popped[i] = i
                      /\ f[m].left \in Seq(H)
                      /\ Ahead(headings, f[m].left, m + 1, N + 1)
           Good == {m \in 0..N : Said(m)}
<1>1. N \in Nat /\ H = 1..N /\ children \in [H -> Seq(H)] /\ roots \in Seq(H)
  BY TreeSizes DEF DocInv
<1>2. /\ f[0] = [popped |-> <<>>, left |-> Reversed(roots)]
      /\ \A m \in 1..N : f[m] = WalkStep(f[m - 1])
  <2>1. \A m \in 0..N : WalkOf(f)[m] = IF m = 0 THEN [popped |-> <<>>, left |-> Reversed(roots)]
                                       ELSE WalkStep(f[m - 1])
    BY DEF WalkOf
  <2>2. 0 \in 0..N /\ \A m \in 1..N : m \in 0..N /\ m # 0
    BY <1>1
  <2>3. \A m \in 0..N : f[m] = WalkOf(f)[m]
    OBVIOUS
  <2> QED
    BY <2>1, <2>2, <2>3
<1>3. /\ Chain(headings, roots, 1, N + 1)
      /\ \A h \in H : Chain(headings, children[h], h + 1, EndOf(headings, h))
  BY Finished
<1> HIDE DEF N, H
<1>4. 0 \in Good
  <2>1. Reversed(roots) \in Seq(H) /\ Ahead(headings, Reversed(roots), 1, N + 1)
    BY <1>1, <1>3, ReversedAhead
  <2>2. f[0].popped = <<>> /\ f[0].left = Reversed(roots)
    BY <1>2
  <2>3. 0 + 1 = 1 /\ 0 \in 0..N /\ <<>> \in Seq(H) /\ Len(<<>>) = 0 /\ \A i \in 1..0 : FALSE
    BY <1>1, EmptySeq
  <2>4. Said(0)
    BY <2>1, <2>2, <2>3
  <2> HIDE DEF Said
  <2> QED
    BY <2>3, <2>4
<1>5. ASSUME NEW m \in 1..N, m - 1 \in Good PROVE m \in Good
  <2> DEFINE w == f[m - 1]
             t == w.left
             p == w.popped
             front == SubSeq(t, 1, Len(t) - 1)
             u == Reversed(children[m])
  <2>1. Said(m - 1) /\ m - 1 \in 0..N /\ (m - 1) + 1 = m /\ m \in Nat /\ m <= N /\ m \in 0..N
    <3>1. m - 1 \in 0..N /\ (m - 1) + 1 = m /\ m \in Nat /\ m <= N /\ m \in 0..N
      BY <1>1
    <3>2. Said(m - 1)
      <4> HIDE DEF Said
      <4> QED
        BY <1>5
    <3> HIDE DEF Said
    <3> QED
      BY <3>1, <3>2
  <2>2. /\ p \in Seq(H) /\ Len(p) = m - 1 /\ t \in Seq(H)
        /\ \A i \in 1..(m - 1) : p[i] = i
        /\ Ahead(headings, t, m, N + 1)
    BY <2>1
  <2>3. f[m] = WalkStep(w)
    BY <1>2
  <2>4. m \in H
    BY <1>1
  <2> HIDE DEF w
  <2>5. t # <<>> /\ t[Len(t)] = m
    <3>1. m # N + 1
      BY <1>1, <2>1
    <3> QED
      BY <2>2, <3>1 DEF Ahead
  <2>6. f[m] = [popped |-> Append(p, m), left |-> front \o u]
    BY <2>3, <2>5 DEF WalkStep
  <2>7. u \in Seq(H) /\ Ahead(headings, u, m + 1, EndOf(headings, m))
    BY <1>1, <1>3, <2>4, ReversedAhead
  <2> HIDE DEF t, u
  <2>8. front \o u \in Seq(H) /\ Ahead(headings, front \o u, m + 1, N + 1)
    BY <2>2, <2>5, <2>7, AheadGoesOn DEF t
  <2>9. /\ Append(p, m) \in Seq(H) /\ Len(Append(p, m)) = m
        /\ \A i \in 1..m : Append(p, m)[i] = i
    <3> HIDE DEF p
    <3>1. /\ Append(p, m) \in Seq(H) /\ Len(Append(p, m)) = Len(p) + 1
          /\ \A i \in 1..Len(p) : Append(p, m)[i] = p[i]
          /\ Append(p, m)[Len(p) + 1] = m
      BY <2>2, <2>4, AppendProperties
    <3>2. ASSUME NEW i \in 1..m PROVE Append(p, m)[i] = i
      <4>1. CASE i = m
        BY <2>1, <2>2, <3>1, <4>1
      <4>2. CASE i # m
        <5>1. i \in 1..(m - 1)
          BY <2>1, <4>2
        <5> QED
          BY <2>2, <3>1, <5>1
      <4> QED
        BY <4>1, <4>2
    <3> QED
      BY <2>1, <2>2, <3>1, <3>2
  <2> HIDE DEF p, front
  <2>10. Said(m)
    BY <2>6, <2>8, <2>9
  <2> HIDE DEF Said
  <2> QED
    BY <2>1, <2>10
<1>6. k \in Good
  <2> HIDE DEF Good
  <2>1. 0..N \subseteq Good
    BY <1>1, <1>4, <1>5, Climb
  <2> QED
    BY <2>1 DEF N
<1> QED
  BY <1>6 DEF N, H

\* The outline has every heading once, as written, and nothing is left.
LEMMA OutlineIs ==
  ASSUME DocInv, TreeInv, pc = "done"
  PROVE  Outline = [i \in DOMAIN headings |-> i] /\ Walked.left = <<>>
<1> DEFINE N == Len(headings)
           H == DOMAIN headings
<1>1. N \in Nat /\ H = 1..N
  BY TreeSizes DEF DocInv
<1>2. PICK f : f = WalkOf(f) /\ Walked = f[N]
  BY WalkIs
<1> DEFINE p == f[N].popped
           t == f[N].left
<1>3. /\ p \in Seq(H) /\ Len(p) = N /\ \A i \in 1..N : p[i] = i
      /\ t \in Seq(H) /\ Ahead(headings, t, N + 1, N + 1)
  <2>1. N \in 0..N
    BY <1>1
  <2> QED
    BY <1>2, <2>1, WalkedSoFar
<1> HIDE DEF p, t
<1>4. t = <<>>
  <2> SUFFICES ASSUME t # <<>> PROVE FALSE
    OBVIOUS
  <2>1. t[Len(t)] = N + 1
    BY <1>3 DEF Ahead
  <2>2. t[Len(t)] \in H
    BY SMTT(40), <1>3, EmptySeq, LenProperties, ElementOfSeq
  <2> QED
    BY <1>1, <2>1, <2>2
<1>5. p = [i \in H |-> i]
  <2>1. DOMAIN p = 1..N /\ p = [i \in DOMAIN p |-> p[i]]
    BY <1>3, LenProperties
  <2> QED
    BY <1>1, <1>3, <2>1
<1> QED
  BY <1>2, <1>4, <1>5 DEF Outline, p, t

\* A section is found by its slug.
LEMMA FindFinds ==
  ASSUME DocInv, TreeInv, pc = "done", NEW h \in DOMAIN headings
  PROVE  Find(headings[h].slug) = h
<1> DEFINE hit == {i \in DOMAIN Outline : headings[Outline[i]].slug = headings[h].slug}
<1>1. /\ DOMAIN headings = 1..Len(headings) /\ Len(headings) \in Nat
      /\ DOMAIN Outline = DOMAIN headings /\ \A i \in DOMAIN headings : Outline[i] = i
  BY OutlineIs, TreeSizes DEF DocInv
<1>2. hit = {h}
  BY <1>1 DEF DocInv, SlugsName
<1>3. (CHOOSE i \in hit : \A j \in hit : i <= j) = h
  <2>1. h \in Int
    BY <1>1
  <2> HIDE DEF hit
  <2> QED
    BY <1>2, <2>1
<1>4. Find(headings[h].slug) = Outline[CHOOSE i \in hit : \A j \in hit : i <= j]
  BY DEF Find
<1> HIDE DEF hit
<1> QED
  BY <1>1, <1>3, <1>4

LEMMA TilesWhenDone ==
  ASSUME DocInv, TreeInv
  PROVE  SectionsTile
<1> SUFFICES ASSUME pc = "done" PROVE SectionsTile
  BY DEF SectionsTile
<1> DEFINE N == Len(headings)
           H == DOMAIN headings
<1>1. N \in Nat /\ H = 1..N /\ children \in [H -> Seq(H)] /\ roots \in Seq(H)
      /\ headings \in Seq(HeadingRec)
  BY TreeSizes DEF DocInv
<1>2. Meet(roots, Preamble, Len(lines))
  <2>1. Meet(roots, StartOf(1), StartOf(N + 1))
    BY <1>1, Finished, ChainMeets
  <2>2. StartOf(N + 1) = Len(lines)
    BY <1>1 DEF StartOf
  <2>3. StartOf(1) = Preamble
    <3>1. headings = <<>> <=> N = 0
      BY <1>1, EmptySeq
    <3>2. N = 0 <=> 1 > N
      BY <1>1
    <3> HIDE DEF N
    <3> QED
      BY <3>1, <3>2 DEF StartOf, Preamble, N
  <2> QED
    BY <2>1, <2>2, <2>3
<1>3. ASSUME NEW h \in H
      PROVE  /\ Find(headings[h].slug) = h
             /\ headings[h].start < headings[h].body /\ headings[h].body <= BodyEnd(h)
             /\ Meet(children[h], BodyEnd(h), ended[h])
             /\ \A i \in DOMAIN children[h] : headings[children[h][i]].level > headings[h].level
  <2>1. /\ EndOf(headings, h) \in (h + 1)..(N + 1) /\ ended[h] = StartOf(EndOf(headings, h))
        /\ Chain(headings, children[h], h + 1, EndOf(headings, h))
        /\ \A i \in DOMAIN children[h] : headings[children[h][i]].level > headings[h].level
    BY Finished
  <2>2. BodyEnd(h) = StartOf(h + 1)
    BY BodyIsBeforeNext
  <2>3. Meet(children[h], BodyEnd(h), ended[h])
    <3>1. children[h] \in Seq(H)
      BY <1>1
    <3> QED
      BY <2>1, <2>2, <3>1, ChainMeets
  <2>4. headings[h].start < headings[h].body /\ headings[h].body <= StartOf(h + 1)
    <3>1. /\ \A g \in H : headings[g].start < headings[g].body /\ headings[g].body <= Len(lines)
          /\ \A g, k \in H : g < k => headings[g].body <= headings[k].start
      BY DEF TreeInv, ScanOrder
    <3>2. CASE h + 1 > N
      BY <3>1, <3>2 DEF StartOf
    <3>3. CASE ~(h + 1 > N)
      <4>1. h + 1 \in H /\ h < h + 1
        BY <1>1, <3>3
      <4> QED
        BY <3>1, <3>3, <4>1 DEF StartOf
    <3> QED
      BY <3>2, <3>3
  <2> QED
    BY <2>1, <2>2, <2>3, <2>4, FindFinds
<1> QED
  BY <1>2, <1>3, OutlineIs DEF SectionsTile
-----------------------------------------------------------------------------
(* The links *)

\* What collect_links knows of fences, from a line that is outside one.
OpenOf(g, from, to) ==
  [i \in from..to |-> IF i = from THEN NoFence ELSE FenceStep(g[i - 1], lines[i])]

LEMMA OpenIsFences ==
  ASSUME NEW f, Fences(f, lines), Len(lines) \in Nat,
         NEW from \in 0..Len(lines), NEW to \in from..Len(lines), f[from] = NoFence,
         NEW g, g = OpenOf(g, from, to)
  PROVE  \A i \in from..to : g[i] = f[i]
<1> DEFINE n == to - from
           Good == {k \in 0..n : g[from + k] = f[from + k]}
<1>1. n \in Nat /\ from \in Nat /\ to \in Nat /\ to <= Len(lines)
  OBVIOUS
<1>2. \A i \in from..to : g[i] = IF i = from THEN NoFence ELSE FenceStep(g[i - 1], lines[i])
  <2>1. \A i \in from..to : OpenOf(g, from, to)[i] =
          IF i = from THEN NoFence ELSE FenceStep(g[i - 1], lines[i])
    BY DEF OpenOf
  <2>2. \A i \in from..to : g[i] = OpenOf(g, from, to)[i]
    OBVIOUS
  <2> QED
    BY <2>1, <2>2
<1>3. \A i \in 1..Len(lines) : f[i] = FenceStep(f[i - 1], lines[i])
  BY DEF Fences
<1>4. 0 \in Good
  <2>1. from \in from..to /\ from + 0 = from /\ 0 \in 0..n
    BY <1>1
  <2>2. g[from] = NoFence
    BY <1>2, <2>1
  <2> QED
    BY <2>1, <2>2
<1>5. ASSUME NEW k \in 1..n, k - 1 \in Good PROVE k \in Good
  <2>1. /\ from + k \in from..to /\ from + k # from /\ (from + k) - 1 = from + (k - 1)
        /\ from + k \in 1..Len(lines) /\ k \in 0..n
    BY <1>1
  <2>2. g[from + k] = FenceStep(g[(from + k) - 1], lines[from + k])
    BY <1>2, <2>1
  <2>3. f[from + k] = FenceStep(f[(from + k) - 1], lines[from + k])
    BY <1>3, <2>1
  <2>4. g[(from + k) - 1] = f[(from + k) - 1]
    <3>1. g[from + (k - 1)] = f[from + (k - 1)]
      BY <1>5
    <3> QED
      BY <2>1, <3>1
  <2> QED
    BY <2>1, <2>2, <2>3, <2>4
<1>6. 0..n \subseteq Good
  <2> HIDE DEF Good, n
  <2> QED
    BY <1>1, <1>4, <1>5, Climb
<1>7. ASSUME NEW i \in from..to PROVE g[i] = f[i]
  <2>1. i - from \in 0..n /\ from + (i - from) = i
    BY <1>1
  <2>2. i - from \in Good
    <3> HIDE DEF Good, n
    <3> QED
      BY <1>6, <2>1
  <2>3. g[from + (i - from)] = f[from + (i - from)]
    BY <2>2
  <2> QED
    BY <2>1, <2>3
<1> QED
  BY <1>7

\* The links listed are those outside the fences.
LEMMA LinksAre ==
  ASSUME NEW f, Fences(f, lines), Len(lines) \in Nat,
         NEW from \in 0..Len(lines), NEW to \in from..Len(lines), f[from] = NoFence
  PROVE  Links(from, to) =
           {i \in (from + 1)..to : lines[i].link /\ f[i - 1] = NoFence /\ ~Opens(lines[i])}
<1> DEFINE open == CHOOSE g : g = OpenOf(g, from, to)
           r == [i \in from..to |-> f[i]]
<1>1. from \in Nat /\ to \in Nat /\ to <= Len(lines)
  OBVIOUS
<1>2. r = OpenOf(r, from, to)
  <2>1. ASSUME NEW i \in from..to
        PROVE  f[i] = IF i = from THEN NoFence ELSE FenceStep(r[i - 1], lines[i])
    <3>1. CASE i = from
      BY <3>1
    <3>2. CASE i # from
      <4>1. i \in 1..Len(lines) /\ i - 1 \in from..to
        BY <1>1, <3>2
      <4>2. f[i] = FenceStep(f[i - 1], lines[i])
        BY <4>1 DEF Fences
      <4>3. r[i - 1] = f[i - 1]
        BY <4>1
      <4> HIDE DEF r
      <4> QED
        BY <3>2, <4>2, <4>3
    <3> QED
      BY <3>1, <3>2
  <2> DEFINE e(i) == IF i = from THEN NoFence ELSE FenceStep(r[i - 1], lines[i])
  <2>2. \A i \in from..to : f[i] = e(i)
    BY <2>1
  <2>3. OpenOf(r, from, to) = [i \in from..to |-> e(i)]
    BY DEF OpenOf
  <2> HIDE DEF e
  <2> QED
    BY <2>2, <2>3
<1>3. open = OpenOf(open, from, to)
  <2> HIDE DEF r
  <2> QED
    BY <1>2
<1>4. Links(from, to) =
        {i \in (from + 1)..to : lines[i].link /\ open[i - 1] = NoFence /\ ~Opens(lines[i])}
  BY DEF Links, OpenOf, FenceStep
<1> HIDE DEF open, r
<1>5. \A i \in from..to : open[i] = f[i]
  BY <1>3, OpenIsFences
<1>6. \A i \in (from + 1)..to : open[i - 1] = f[i - 1]
  <2>1. \A i \in (from + 1)..to : i - 1 \in from..to
    BY <1>1
  <2> QED
    BY <1>5, <2>1
<1> QED
  BY <1>4, <1>6

\* Where a section begins and ends, in lines.
LEMMA SectionPlace ==
  ASSUME DocInv, TreeInv, pc = "done", NEW h \in DOMAIN headings
  PROVE  /\ headings[h].start \in 0..Len(lines)
         /\ headings[h].start + 1 \in (headings[h].start + 1)..headings[h].body
         /\ headings[h].start + 1 \in 1..Len(lines)
         /\ ended[h] \in headings[h].start..Len(lines)
<1> DEFINE N == Len(headings)
           H == DOMAIN headings
           e == EndOf(headings, h)
<1>1. /\ N \in Nat /\ H = 1..N /\ headings \in Seq(HeadingRec) /\ Len(lines) \in Nat
  BY TreeSizes, LenProperties DEF DocInv
<1>2. /\ \A g \in H : /\ headings[g].start \in Nat /\ headings[g].body \in Nat
                      /\ headings[g].start < headings[g].body /\ headings[g].body <= Len(lines)
      /\ \A g, k \in H : g < k => headings[g].body <= headings[k].start
  BY <1>1, HeadingPlaces DEF TreeInv, ScanOrder
<1>3. e \in (h + 1)..(N + 1) /\ ended[h] = StartOf(e)
  BY Finished
<1>4. /\ headings[h].start \in Nat /\ headings[h].body \in Nat
      /\ headings[h].start < headings[h].body /\ headings[h].body <= Len(lines)
  BY <1>2
<1>5. StartOf(e) \in Nat /\ headings[h].body <= StartOf(e) /\ StartOf(e) <= Len(lines)
  <2> HIDE DEF e
  <2>1. CASE e > N
    BY <1>1, <1>4, <2>1 DEF StartOf
  <2>2. CASE ~(e > N)
    <3>1. e \in H /\ h < e
      BY <1>1, <1>3, <2>2
    <3>2. /\ headings[e].start \in Nat /\ headings[e].body \in Nat
          /\ headings[e].start < headings[e].body /\ headings[e].body <= Len(lines)
          /\ headings[h].body <= headings[e].start
      BY <1>2, <3>1
    <3>3. headings[e].start <= Len(lines)
      BY <1>1, <3>2
    <3> QED
      BY <2>2, <3>2, <3>3 DEF StartOf
  <2> QED
    BY <2>1, <2>2
<1> QED
  BY SMTT(40), <1>1, <1>3, <1>4, <1>5

LEMMA InertWhenDone ==
  ASSUME DocInv, TreeInv
  PROVE  FencedIsInert
<1> SUFFICES ASSUME pc = "done", \A i \in DOMAIN lines : lines[i].deep => ~Opens(lines[i])
             PROVE  /\ \A h \in DOMAIN headings :
                         (headings[h].start + 1)..headings[h].body \cap inert = {}
                    /\ Links(0, Len(lines)) = {i \in DOMAIN lines : lines[i].link /\ i \notin inert}
                    /\ \A h \in DOMAIN headings :
                         Links(headings[h].start, ended[h])
                           = Links(0, Len(lines)) \cap (headings[h].start + 1)..ended[h]
  BY DEF FencedIsInert
<1> DEFINE n == Len(lines)
<1>1. n \in Nat /\ DOMAIN lines = 1..n
  BY TreeSizes, LenProperties DEF DocInv
<1>2. /\ \A h \in DOMAIN headings :
           \A i \in (headings[h].start + 1)..headings[h].body : i \notin inert
      /\ \E f : /\ Fences(f, lines) /\ f[n] = fence
                /\ \A i \in 1..n : i \in inert <=> (f[i - 1] # NoFence \/ Opens(lines[i]))
  BY DEF TreeInv, Fenced, NoDeepFence
<1>3. PICK f : /\ Fences(f, lines)
               /\ \A i \in 1..n : i \in inert <=> (f[i - 1] # NoFence \/ Opens(lines[i]))
  BY <1>2
<1>4. ASSUME NEW from \in 0..n, NEW to \in from..n, f[from] = NoFence
      PROVE  Links(from, to) = {i \in (from + 1)..to : lines[i].link /\ i \notin inert}
  <2>1. Links(from, to) =
          {i \in (from + 1)..to : lines[i].link /\ f[i - 1] = NoFence /\ ~Opens(lines[i])}
    BY <1>1, <1>3, <1>4, LinksAre
  <2>2. ASSUME NEW i \in (from + 1)..to
        PROVE  i \notin inert <=> (f[i - 1] = NoFence /\ ~Opens(lines[i]))
    <3>1. i \in 1..n
      BY <1>1
    <3> QED
      BY <1>3, <3>1
  <2> QED
    BY <2>1, <2>2
<1>5. Links(0, n) = {i \in 1..n : lines[i].link /\ i \notin inert}
  <2>1. 0 \in 0..n /\ n \in 0..n /\ f[0] = NoFence /\ 0 + 1 = 1
    BY <1>1, <1>3 DEF Fences
  <2>2. Links(0, n) = {i \in (0 + 1)..n : lines[i].link /\ i \notin inert}
    <3> HIDE DEF n
    <3> QED
      BY <1>4, <2>1
  <2> QED
    BY <2>1, <2>2
<1>6. ASSUME NEW h \in DOMAIN headings
      PROVE  Links(headings[h].start, ended[h])
               = Links(0, n) \cap (headings[h].start + 1)..ended[h]
  <2> DEFINE a == headings[h].start
             b == ended[h]
  <2>1. a \in 0..n /\ a + 1 \in (a + 1)..headings[h].body /\ a + 1 \in 1..n /\ b \in a..n
    BY SectionPlace
  <2>2. f[a] = NoFence
    <3>1. a + 1 \notin inert
      BY <1>2, <2>1
    <3>2. f[(a + 1) - 1] = NoFence
      BY <1>3, <2>1, <3>1
    <3>3. (a + 1) - 1 = a
      BY <2>1
    <3> QED
      BY <3>2, <3>3
  <2> HIDE DEF a, b
  <2>3. Links(a, b) = {i \in (a + 1)..b : lines[i].link /\ i \notin inert}
    BY <1>4, <2>1, <2>2
  <2>4. \A i \in (a + 1)..b : i \in 1..n
    BY <1>1, <2>1
  <2>5. Links(a, b) = Links(0, n) \cap (a + 1)..b
    BY <1>5, <2>3, <2>4
  <2> QED
    BY <2>5 DEF a, b
<1>7. \A h \in DOMAIN headings : (headings[h].start + 1)..headings[h].body \cap inert = {}
  BY <1>2
<1> QED
  BY <1>1, <1>5, <1>6, <1>7

\* What holds of every reachable document, the tree and the fences too.
THEOREM TreeInvariant == Spec => [](DocInv /\ TreeInv)
<1>1. Init => DocInv
  BY EmptySeq DEF Init, DocInv, DocTypeOK, SlugsName, NoFence
<1>2. DocInv /\ TreeInv /\ [Next]_docVars => DocInv' /\ TreeInv'
  BY StepKeeps, TreeStep
<1> QED
  BY <1>1, <1>2, TreeStarts, PTL DEF Spec

\* The sections of a parsed body cut it without gap or overlap at every depth, the outline
\* has every heading once, as written, and each is found by its slug (build_tree, Walk, find).
THEOREM SectionsAreWhole == Spec => []SectionsTile
<1>1. DocInv /\ TreeInv => SectionsTile
  BY TilesWhenDone
<1> QED
  BY <1>1, TreeInvariant, PTL

\* No heading reaches into fenced code, and the links listed, of the whole or of a section,
\* are those outside it, where no fence is indented (scan_headings, collect_links).
THEOREM LinksAreOutsideFences == Spec => []FencedIsInert
<1>1. DocInv /\ TreeInv => FencedIsInert
  BY InertWhenDone
<1> QED
  BY <1>1, TreeInvariant, PTL

-----------------------------------------------------------------------------
(* The loader                                                              *)

ManifestSteps == {"root", "stat_manifest", "confine_manifest", "read_manifest"}
BeforeList == ManifestSteps \cup {"stat_skills", "confine_skills", "open_skills"}
SkillSteps == {"stat_skill", "confine_skill", "read_skill", "parse_body"}
McpSteps == {"stat_mcp", "confine_mcp", "read_mcp", "done", "panicked"}
Broken1 == Note("component-invalid", <<"skills">>)
Sound(i) == disk.children[i].text /\ disk.children[i].kind = "directory"
NameOf(i) == <<"skill", disk.children[i].name>>

LoadTypes ==
  /\ IsPackage(disk)
  /\ edited \in {{}, {"manifest"}, {"skills"}, {"mcp"}}
  /\ step \in BeforeList \cup {"list_skills", "rejected"} \cup SkillSteps \cup McpSteps
  /\ \A n \in notes : n = Note(n.rule, n.origin)
  /\ unseen \subseteq DOMAIN disk.children

\* The directories that were listed, in order, and where the loader is in them.
Listing ==
  /\ found \in Seq(DOMAIN disk.children) /\ at \in Nat \ {0}
  /\ \A k \in DOMAIN found : found[k] \notin unseen /\ Sound(found[k])
  /\ \A j, k \in DOMAIN found : j < k => found[j] < found[k]
  /\ step \in BeforeList => found = <<>>
  /\ step \in BeforeList \cup {"list_skills"} => at = 1 /\ skills = <<>>
  /\ step \in {"confine_skill", "read_skill", "parse_body"} => at <= Len(found)
  /\ step \in McpSteps => at > Len(found)

\* What became of the directories before the one that is looked at.
Choosing ==
  /\ skills \in Seq(DOMAIN disk.children)
  /\ \A j \in DOMAIN skills : \E k \in DOMAIN found : k < at /\ skills[j] = found[k]
  /\ \A j, k \in DOMAIN skills : j < k => skills[j] < skills[k]
  /\ \A n \in notes : n.rule = "skill-skipped" =>
       \E k \in DOMAIN found : k < at /\ found[k] \notin Took /\ n.origin = NameOf(found[k])
  /\ \A k \in DOMAIN found : k < at =>
       \/ found[k] \in Took \cup Skipped
       \/ SkillFile(disk.children[found[k]]).kind # "file"

\* The disk is the package as it was at first, but for what an edit takes.
Aged(now, was) ==
  /\ now.holds = was.holds /\ now.kind \in {was.kind, "nothing"}
  /\ now.inside \in {was.inside, "outside"}
  /\ now.readable => was.readable
Since ==
  /\ edited = {} => disk = original
  /\ disk.root = original.root
  /\ Aged(disk.manifest, original.manifest)
  /\ Aged(disk.skills, original.skills) /\ Aged(disk.mcp, original.mcp)
  /\ "mcp" \notin edited => disk.mcp = original.mcp
  /\ DOMAIN disk.children = DOMAIN original.children
  /\ \A i \in DOMAIN disk.children :
       /\ disk.children[i].name = original.children[i].name
       /\ disk.children[i].text = original.children[i].text
       /\ disk.children[i].kind = original.children[i].kind
       /\ Aged(disk.children[i].file, original.children[i].file)

\* What the manifest is known to be, or to have been.
ManifestSeen ==
  /\ step = "rejected" => ~Presentable(disk)
  /\ step \notin {"root", "rejected"} => original.root.named /\ original.root.there
  /\ step \in {"confine_manifest", "read_manifest"} => original.manifest.kind = "file"
  /\ step = "read_manifest" => original.manifest.inside = "inside"
  /\ step \notin ManifestSteps \cup {"rejected"} => Presentable(original)

\* What the skills are known to have been, and that none was missed that is still good.
Listed(i) == \E k \in DOMAIN found : found[k] = i
Before == original.children[found[at]].file
SkillsSeen ==
  /\ step \in {"confine_skills", "open_skills", "list_skills"} \cup SkillSteps =>
       original.skills.kind = "directory"
  /\ step \in {"open_skills", "list_skills"} \cup SkillSteps => original.skills.inside = "inside"
  /\ step \in {"list_skills"} \cup SkillSteps => original.skills.readable
  /\ step = "list_skills" => \A i \in GoodSkills(disk) : i \in unseen \/ Listed(i)
  /\ step \in SkillSteps =>
       /\ Broken1 \in notes \/ \A i \in GoodSkills(disk) : Listed(i)
       /\ \A k \in DOMAIN found : k < at =>
            /\ found[k] \in Took => found[k] \in GoodSkills(original)
            /\ found[k] \in GoodSkills(disk) => found[k] \in Took
  /\ step \in {"confine_skill", "read_skill"} => Before.kind = "file"
  /\ step = "read_skill" => Before.inside = "inside"
  /\ step = "parse_body" => found[at] \in GoodSkills(original)
  /\ step \in McpSteps =>
       /\ Took \subseteq GoodSkills(original)
       /\ GoodSkills(disk) \subseteq Took \/ Broken1 \in notes

\* What mcp.json is known to have been.
McpSeen ==
  /\ step \in {"confine_mcp", "read_mcp"} => original.mcp.kind = "file"
  /\ step = "read_mcp" => original.mcp.inside = "inside"
  /\ step = "done" => \/ mcp = GoodServers(original)
                      \/ "mcp" \in edited /\ mcp \in {{"absent"}, {"disabled"}}
  /\ step = "panicked" => Usable(original.mcp) /\ McpPanics(original.mcp.holds)

\* No server is dropped before the end, and none without a note.
McpNoted ==
  /\ step # "done" => \A n \in notes : n.rule # "server-skipped"
  /\ step = "done" =>
       /\ mcp = {"disabled"} => \E n \in notes : n.rule \in {"mcp-disabled", "component-invalid"}
                                                 /\ n.origin = <<"mcp">>
       /\ "mcp" \notin edited /\ Usable(disk.mcp) /\ McpOK(disk.mcp.holds) =>
            {m \in notes : m.rule = "server-skipped"} = McpNotes(disk.mcp.holds)

LoadInv ==
  LoadTypes /\ Since /\ Listing /\ Choosing /\ ManifestSeen /\ SkillsSeen /\ McpSeen /\ McpNoted

\* No action but an edit changes the disk: what was known of it stays known.
LEMMA ChoosingStays ==
  ASSUME Choosing, UNCHANGED <<disk, found, at, skills>>, notes \subseteq notes',
         \A n \in notes' : n \in notes \/ n.rule # "skill-skipped"
  PROVE  Choosing'
<1>1. \A i : i \in Skipped => i \in Skipped'
  BY DEF Skipped
<1>2. Took' = Took /\ \A i : NameOf(i)' = NameOf(i)
  BY DEF Took, NameOf
<1>3. \A k \in DOMAIN found : SkillFile(disk.children[found[k]])' = SkillFile(disk.children[found[k]])
  BY DEF SkillFile
<1> QED
  BY <1>1, <1>2, <1>3 DEF Choosing

\* Rules of the notes.
LEMMA NoteRules ==
  ASSUME NEW doc
  PROVE  /\ \A n \in ManifestNotes(doc) :
              n.rule \in {"unknown-manifest-field", "extensions-ignored"} /\ n = Note(n.rule, n.origin)
         /\ \A n \in McpNotes(doc) : n.rule = "server-skipped" /\ n = Note(n.rule, n.origin)
         /\ \A rule, origin : /\ Note(rule, origin).rule = rule /\ Note(rule, origin).origin = origin
                              /\ Note(rule, origin) = Note(Note(rule, origin).rule, Note(rule, origin).origin)
BY DEF ManifestNotes, McpNotes, Note

LEMMA SinceStays ==
  ASSUME LoadInv, UNCHANGED <<disk, original, edited>>
  PROVE  Since'
BY DEF LoadInv, Since, Aged

\* What an edit leaves of the good skills was good before it.
LEMMA GoodWas ==
  ASSUME Since
  PROVE  GoodSkills(disk) \subseteq GoodSkills(original)
BY DEF Since, Aged, GoodSkills, Usable, Readable, SkillMdOK

LEMMA GoodStays ==
  ASSUME UNCHANGED <<disk, original, skills, found>>
  PROVE  /\ GoodSkills(disk)' = GoodSkills(disk) /\ GoodSkills(original)' = GoodSkills(original)
         /\ Took' = Took /\ Broken1' = Broken1
         /\ \A i : Sound(i)' = Sound(i) /\ Listed(i)' = Listed(i)
BY DEF GoodSkills, Usable, Readable, Took, Broken1, Sound, Listed

\* The manifest.
LEMMA ManifestStep ==
  ASSUME LoadInv, OpenRoot \/ StatManifest \/ ConfineManifest \/ ReadManifest
  PROVE  LoadInv'
<1>1. /\ UNCHANGED <<disk, original, edited, unseen, found, at, skills, mcp>>
      /\ step \in ManifestSteps
      /\ step' \in {"stat_manifest", "confine_manifest", "read_manifest", "stat_skills", "rejected"}
  BY DEF OpenRoot, StatManifest, ConfineManifest, ReadManifest, Only, Goes, ManifestSteps
<1>2. notes' = notes \/ notes' = notes \cup ManifestNotes(disk.manifest.holds)
  BY DEF OpenRoot, StatManifest, ConfineManifest, ReadManifest, Only, Goes
<1>3. \A n \in notes' : n = Note(n.rule, n.origin)
                        /\ (n \in notes \/ n.rule \notin {"skill-skipped", "server-skipped"})
  <2> DEFINE more == ManifestNotes(disk.manifest.holds)
  <2>1. \A n \in more :
          n.rule \in {"unknown-manifest-field", "extensions-ignored"} /\ n = Note(n.rule, n.origin)
    BY NoteRules
  <2>2. \A n \in notes : n = Note(n.rule, n.origin)
    BY DEF LoadInv, LoadTypes
  <2>3. notes' = notes \/ notes' = notes \cup more
    BY <1>2
  <2> HIDE DEF more
  <2> QED
    BY <2>1, <2>2, <2>3
<1>4. LoadTypes'
  BY <1>1, <1>3 DEF LoadInv, LoadTypes, BeforeList, ManifestSteps
<1>5. Listing'
  BY <1>1 DEF LoadInv, Listing, BeforeList, ManifestSteps, SkillSteps, McpSteps, Sound
<1>6. Choosing'
  BY <1>1, <1>2, <1>3, ChoosingStays DEF LoadInv
<1>7. ManifestSeen'
  <2>1. /\ IsLocation(disk.manifest) /\ Aged(disk.manifest, original.manifest)
        /\ disk.root = original.root /\ ManifestSeen
    BY DEF LoadInv, LoadTypes, IsPackage, Since
  <2>2. step' = "rejected" => ~Presentable(disk)
    BY <1>1, <2>1 DEF OpenRoot, StatManifest, ConfineManifest, ReadManifest, Only, Goes,
      Presentable, Usable, Readable, Confined, IsLocation, Resolutions
  <2>3. Presentable(disk)' = Presentable(disk) /\ Presentable(original)' = Presentable(original)
    BY <1>1 DEF Presentable, Usable, Readable
  <2>4. step' \notin {"root", "rejected"} => original.root.named /\ original.root.there
    BY <1>1, <2>1 DEF ManifestSeen, OpenRoot, StatManifest, ConfineManifest, ReadManifest, Only, Goes
  <2>5. /\ step' \in {"confine_manifest", "read_manifest"} => original.manifest.kind = "file"
        /\ step' = "read_manifest" => original.manifest.inside = "inside"
    BY <1>1, <2>1 DEF ManifestSeen, OpenRoot, StatManifest, ConfineManifest, ReadManifest, Only, Goes,
      Aged, Confined
  <2>6. step' \notin ManifestSteps \cup {"rejected"} => Presentable(original)
    <3>1. CASE step' = "stat_skills"
      <4>1. step = "read_manifest" /\ Readable(disk.manifest) /\ ManifestOK(disk.manifest.holds)
        BY <1>1, <3>1 DEF OpenRoot, StatManifest, ConfineManifest, ReadManifest, Only, Goes
      <4> QED
        BY <2>1, <4>1 DEF ManifestSeen, Aged, Presentable, Usable, Readable
    <3> QED
      BY <1>1, <3>1 DEF ManifestSteps
  <2> QED
    BY <1>1, <2>2, <2>3, <2>4, <2>5, <2>6 DEF ManifestSeen
<1>8. SkillsSeen' /\ McpSeen'
  BY <1>1 DEF SkillsSeen, McpSeen, SkillSteps, McpSteps
<1>9. McpNoted'
  <2>1. step' # "done" /\ step # "done"
    BY <1>1 DEF ManifestSteps
  <2> QED
    BY <1>3, <2>1 DEF LoadInv, McpNoted
<1>10. Since'
  BY <1>1, SinceStays
<1> QED
  BY <1>4, <1>5, <1>6, <1>7, <1>8, <1>9, <1>10 DEF LoadInv

\* The directory of the skills, before it is listed and as it is listed.
LEMMA SkillsStep ==
  ASSUME LoadInv, StatSkills \/ ConfineSkills \/ OpenSkills \/ EndOfList \/ ListFails
  PROVE  LoadInv'
<1>1. /\ UNCHANGED <<disk, original, edited, found, at, skills, mcp>>
      /\ step \in {"stat_skills", "confine_skills", "open_skills", "list_skills"}
      /\ step' \in {"confine_skills", "open_skills", "list_skills", "stat_skill", "stat_mcp"}
      /\ unseen' = unseen \/ (step = "open_skills" /\ unseen' = DOMAIN disk.children)
  BY DEF StatSkills, ConfineSkills, OpenSkills, EndOfList, ListFails, NoSkills, Only, Goes
<1>2. notes' = notes \/ notes' = notes \cup {Broken1}
  BY DEF StatSkills, ConfineSkills, OpenSkills, EndOfList, ListFails, NoSkills, Only, Goes, Broken1
<1>3. /\ skills = <<>> /\ at = 1 /\ step \in BeforeList \cup {"list_skills"}
      /\ step # "list_skills" => DOMAIN found = {} /\ Len(found) = 0
      /\ \A k \in DOMAIN found : ~(k < at)
      /\ DOMAIN skills = {}
  <2>1. /\ skills = <<>> /\ at = 1 /\ step \in BeforeList \cup {"list_skills"}
        /\ step # "list_skills" => found = <<>>
        /\ found \in Seq(DOMAIN disk.children)
    BY <1>1 DEF LoadInv, Listing, BeforeList
  <2>2. DOMAIN <<>> = {} /\ Len(<<>>) = 0
    OBVIOUS
  <2>3. DOMAIN found = 1..Len(found) /\ Len(found) \in Nat
    BY <2>1, LenProperties
  <2>4. \A k \in DOMAIN found : ~(k < at)
    <3>1. at = 1
      BY <2>1
    <3>2. \A k \in DOMAIN found : ~(k < 1)
      BY <2>3
    <3> QED
      BY <3>1, <3>2
  <2>5. step # "list_skills" => DOMAIN found = {} /\ Len(found) = 0
    BY <2>1, <2>2, Zenon
  <2>6. DOMAIN skills = {}
    BY <2>1, <2>2, Zenon
  <2> QED
    BY <2>1, <2>4, <2>5, <2>6
<1>4. \A n \in notes' : n = Note(n.rule, n.origin)
                        /\ (n \in notes \/ n.rule \notin {"skill-skipped", "server-skipped"})
  <2>1. Broken1 = Note(Broken1.rule, Broken1.origin) /\ Broken1.rule = "component-invalid"
    BY DEF Broken1, Note
  <2> QED
    BY <1>2, <2>1 DEF LoadInv, LoadTypes
<1>5. LoadTypes'
  BY <1>1, <1>4 DEF LoadInv, LoadTypes, BeforeList, SkillSteps, McpSteps
<1>6. Listing'
  <2>1. step' \in {"list_skills", "stat_skill"} => step' # "stat_mcp"
    OBVIOUS
  <2>2. step' = "stat_mcp" => step # "list_skills"
    BY DEF StatSkills, ConfineSkills, OpenSkills, EndOfList, ListFails, NoSkills, Only, Goes
  <2>3. step' \in BeforeList => step # "list_skills"
    BY <1>1 DEF StatSkills, ConfineSkills, OpenSkills, EndOfList, ListFails, NoSkills, Only, Goes,
      BeforeList, ManifestSteps
  <2>4. \A k \in DOMAIN found : found[k] \notin unseen'
    <3>1. CASE unseen' = unseen
      BY <3>1 DEF LoadInv, Listing
    <3>2. CASE step = "open_skills"
      BY <3>2, <1>3
    <3> QED
      BY <1>1, <3>1, <3>2
  <2>5. /\ found' \in Seq(DOMAIN disk'.children) /\ at' \in Nat \ {0}
        /\ \A k \in DOMAIN found' : found'[k] \notin unseen' /\ Sound(found[k])'
        /\ \A j, k \in DOMAIN found' : j < k => found'[j] < found'[k]
    <3>1. /\ found \in Seq(DOMAIN disk.children) /\ at \in Nat \ {0}
          /\ \A k \in DOMAIN found : Sound(found[k])
          /\ \A j, k \in DOMAIN found : j < k => found[j] < found[k]
      BY DEF LoadInv, Listing
    <3>2. found' = found /\ at' = at /\ disk' = disk
      BY <1>1
    <3>3. \A k \in DOMAIN found : Sound(found[k])'
      BY <3>1, <3>2 DEF Sound
    <3> QED
      BY <2>4, <3>1, <3>2, <3>3
  <2>6. step' \in BeforeList => found' = <<>>
    BY <1>1, <2>3 DEF LoadInv, Listing, BeforeList
  <2>7. step' \notin {"confine_skill", "read_skill", "parse_body"}
    BY <1>1
  <2>8. step' \in McpSteps => at' > Len(found')
    <3>1. step' \in McpSteps => step' = "stat_mcp"
      BY <1>1 DEF McpSteps
    <3>2. step' = "stat_mcp" => at > Len(found)
      <4>1. at = 1
        BY <1>3
      <4>2. step' = "stat_mcp" => Len(found) = 0
        BY <1>3, <2>2, Zenon
      <4> QED
        BY <4>1, <4>2
    <3>3. at' = at /\ found' = found
      BY <1>1
    <3> QED
      BY <3>1, <3>2, <3>3
  <2>9. at' = 1 /\ skills' = <<>>
    BY <1>1, <1>3
  <2> QED
    BY <2>9, <2>5, <2>6, <2>7, <2>8 DEF Listing
<1>7. Choosing'
  BY <1>1, <1>2, <1>4, ChoosingStays DEF LoadInv
<1>8. ManifestSeen'
  <2>1. step \notin ManifestSteps \cup {"rejected"} /\ step' \notin ManifestSteps \cup {"root", "rejected"}
    BY <1>1 DEF ManifestSteps
  <2> QED
    BY <1>1, <2>1 DEF LoadInv, ManifestSeen, ManifestSteps, Presentable, Usable, Readable
<1>9. SkillsSeen'
  <2>1. /\ IsLocation(disk.skills) /\ Aged(disk.skills, original.skills)
        /\ GoodSkills(disk)' = GoodSkills(disk) /\ Took' = {} /\ Broken1' = Broken1
        /\ SkillsSeen
    BY <1>1, <1>3, GoodStays DEF Took, LoadInv, LoadTypes, IsPackage, Since
  <2>2. notes \subseteq notes'
    BY <1>2
  <2>3. CASE StatSkills
    <3>1. CASE disk.skills.kind = "directory" /\ step' = "confine_skills"
      BY <2>1, <3>1, <1>1 DEF SkillsSeen, SkillSteps, McpSteps, Aged
    <3>2. CASE disk.skills.kind # "directory" /\ step' = "stat_mcp"
      <4>1. GoodSkills(disk) = {}
        BY <3>2 DEF GoodSkills
      <4> QED
        BY <3>2, <4>1, <1>1, <2>1 DEF SkillsSeen, SkillSteps
    <3> QED
      BY <2>3, <3>1, <3>2 DEF StatSkills, Only, NoSkills, Goes
  <2>4. CASE step' = "stat_mcp" /\ Broken1 \in notes'
    BY <2>4, <1>1, <2>1 DEF SkillsSeen, SkillSteps
  <2>5. CASE ConfineSkills /\ step' = "open_skills"
    <3>1. original.skills.kind = "directory" /\ original.skills.inside = "inside"
      BY <2>1, <2>5 DEF SkillsSeen, ConfineSkills, Confined, NoSkills, Only, Goes, Aged
    <3> QED
      BY <2>5, <3>1, <1>1 DEF SkillsSeen, SkillSteps, McpSteps
  <2>6. CASE OpenSkills /\ step' = "list_skills"
    <3>1. /\ original.skills.kind = "directory" /\ original.skills.inside = "inside"
          /\ original.skills.readable /\ unseen' = DOMAIN disk.children
      BY <2>1, <2>6 DEF SkillsSeen, OpenSkills, NoSkills, Only, Goes, Aged
    <3>2. GoodSkills(disk) \subseteq unseen'
      BY <3>1 DEF GoodSkills
    <3> QED
      BY <2>1, <2>6, <3>1, <3>2, <1>1 DEF SkillsSeen, SkillSteps, McpSteps
  <2>7. CASE step = "list_skills" /\ step' = "stat_skill" /\ (unseen = {} \/ Broken1 \in notes')
    <3>1. /\ original.skills.kind = "directory" /\ original.skills.inside = "inside"
          /\ original.skills.readable
          /\ \A i \in GoodSkills(disk) : i \in unseen \/ Listed(i)
      BY <2>1, <2>7 DEF SkillsSeen
    <3>2. \A k \in DOMAIN found : ~(k < at)
      BY <1>3
    <3>3. \A i : Listed(i)' = Listed(i)
      BY <1>1 DEF Listed
    <3> QED
      BY <2>1, <2>7, <3>1, <3>2, <3>3, <1>1 DEF SkillsSeen, SkillSteps, McpSteps
  <2> QED
    BY <2>3, <2>4, <2>5, <2>6, <2>7
    DEF StatSkills, ConfineSkills, OpenSkills, EndOfList, ListFails, NoSkills, Only, Goes, Broken1
<1>10. McpSeen'
  BY <1>1 DEF McpSeen
<1>11. McpNoted'
  BY <1>1, <1>4 DEF LoadInv, McpNoted
<1>12. Since'
  BY <1>1, SinceStays
<1> QED
  BY <1>5, <1>6, <1>7, <1>8, <1>9, <1>10, <1>11, <1>12 DEF LoadInv

\* A number put into a list that is sorted, where it belongs.
InsertAt(s, i, p) == SubSeq(s, 1, p) \o <<i>> \o SubSeq(s, p + 1, Len(s))

LEMMA Inserted ==
  ASSUME NEW S \in SUBSET Nat, NEW s \in Seq(S), NEW i \in S, NEW p \in 0..Len(s),
         \A j, k \in DOMAIN s : j < k => s[j] < s[k],
         \A k \in DOMAIN s : k <= p <=> s[k] < i,
         \A k \in DOMAIN s : s[k] # i
  PROVE  /\ InsertAt(s, i, p) \in Seq(S)
         /\ \A k \in DOMAIN InsertAt(s, i, p) :
              InsertAt(s, i, p)[k] = i \/ \E j \in DOMAIN s : InsertAt(s, i, p)[k] = s[j]
         /\ \E k \in DOMAIN InsertAt(s, i, p) : InsertAt(s, i, p)[k] = i
         /\ \A j \in DOMAIN s : \E k \in DOMAIN InsertAt(s, i, p) : InsertAt(s, i, p)[k] = s[j]
         /\ \A j, k \in DOMAIN InsertAt(s, i, p) :
              j < k => InsertAt(s, i, p)[j] < InsertAt(s, i, p)[k]
<1> DEFINE n == Len(s)
           t == InsertAt(s, i, p)
<1>1. n \in Nat /\ DOMAIN s = 1..n /\ p \in Nat /\ p <= n /\ \A k \in 1..n : s[k] \in S
  BY LenProperties
<1>2. /\ SubSeq(s, 1, p) \in Seq(S) /\ Len(SubSeq(s, 1, p)) = p
      /\ \A k \in 1..p : SubSeq(s, 1, p)[k] = s[k]
  BY <1>1
<1>3. /\ SubSeq(s, p + 1, n) \in Seq(S) /\ Len(SubSeq(s, p + 1, n)) = n - p
      /\ \A k \in 1..(n - p) : SubSeq(s, p + 1, n)[k] = s[p + k]
  <2> DEFINE m == p + 1
  <2>1. m \in 1..(n + 1) /\ \A k \in m..n : s[k] \in S
    BY <1>1
  <2> HIDE DEF m, n
  <2>2. /\ SubSeq(s, m, n) \in Seq(S) /\ Len(SubSeq(s, m, n)) = n - m + 1
        /\ \A k \in 1..(n - m + 1) : SubSeq(s, m, n)[k] = s[m + k - 1]
    BY <1>1, <2>1, SubSeqProperties
  <2>3. n - m + 1 = n - p /\ \A k \in 1..(n - p) : m + k - 1 = p + k
    BY <1>1 DEF m
  <2> QED
    BY <2>2, <2>3 DEF m
<1>4. /\ t \in Seq(S) /\ Len(t) = n + 1 /\ DOMAIN t = 1..(n + 1)
      /\ \A k \in 1..p : t[k] = s[k]
      /\ t[p + 1] = i
      /\ \A k \in (p + 2)..(n + 1) : t[k] = s[k - 1]
  <2> DEFINE a == SubSeq(s, 1, p)
             b == SubSeq(s, p + 1, n)
  <2>1. /\ a \in Seq(S) /\ Len(a) = p /\ \A k \in 1..p : a[k] = s[k]
        /\ b \in Seq(S) /\ Len(b) = n - p /\ \A k \in 1..(n - p) : b[k] = s[p + k]
    BY <1>2, <1>3
  <2>2. t = a \o <<i>> \o b
    BY DEF InsertAt
  <2> HIDE DEF a, b, t, n
  <2>3. <<i>> \in Seq(S) /\ Len(<<i>>) = 1 /\ <<i>>[1] = i
    OBVIOUS
  <2>4. /\ a \o <<i>> \in Seq(S) /\ Len(a \o <<i>>) = p + 1
        /\ \A k \in 1..p : (a \o <<i>>)[k] = s[k]
        /\ (a \o <<i>>)[p + 1] = i
    BY <1>1, <2>1, <2>3
  <2> DEFINE c == a \o <<i>>
  <2>5. t = c \o b /\ c \in Seq(S) /\ Len(c) = p + 1
    BY <2>2, <2>4
  <2>6. \A k \in 1..p : c[k] = s[k]
    BY <2>4
  <2>7. c[p + 1] = i
    BY <2>4
  <2> HIDE DEF c
  <2>8. /\ t \in Seq(S) /\ Len(t) = n + 1
        /\ \A k \in 1..(p + 1) : t[k] = c[k]
        /\ \A k \in (p + 2)..(n + 1) : t[k] = b[k - (p + 1)]
    <3> DEFINE m == Len(c)
               o == Len(b)
    <3>1. /\ c \in Seq(S) /\ b \in Seq(S) /\ m = p + 1 /\ o = n - p /\ t = c \o b
      BY <2>1, <2>5
    <3>2. /\ t \in Seq(S) /\ Len(t) = m + o
          /\ \A k \in 1..(m + o) : t[k] = IF k <= m THEN c[k] ELSE b[k - m]
      BY <3>1, ConcatProperties
    <3> HIDE DEF m, o
    <3>3. \A k \in 1..(p + 1) : k \in 1..(m + o) /\ k <= m
      BY <1>1, <3>1
    <3>4. \A k \in (p + 2)..(n + 1) : k \in 1..(m + o) /\ ~(k <= m) /\ k - m = k - (p + 1)
      BY <1>1, <3>1
    <3>5. m + o = n + 1
      BY <1>1, <3>1
    <3> QED
      BY <3>2, <3>3, <3>4, <3>5
  <2>9. ASSUME NEW k \in (p + 2)..(n + 1) PROVE t[k] = s[k - 1]
    <3>1. k - (p + 1) \in 1..(n - p) /\ p + (k - (p + 1)) = k - 1
      BY <1>1
    <3> QED
      BY <2>1, <2>8, <3>1
  <2> QED
    BY <1>1, <2>6, <2>7, <2>8, <2>9, LenProperties
<1> HIDE DEF t
<1>5. ASSUME NEW k \in 1..(n + 1)
      PROVE  \/ k \in 1..p /\ t[k] = s[k] /\ k \in 1..n /\ t[k] < i
             \/ k = p + 1 /\ t[k] = i
             \/ k \in (p + 2)..(n + 1) /\ t[k] = s[k - 1] /\ k - 1 \in 1..n /\ i < t[k]
  <2>1. CASE k \in 1..p
    BY <1>1, <1>4, <2>1
  <2>2. CASE k \in (p + 2)..(n + 1)
    <3>1. k - 1 \in 1..n /\ t[k] = s[k - 1] /\ ~(k - 1 <= p)
      BY <1>1, <1>4, <2>2
    <3>2. ~(s[k - 1] < i) /\ s[k - 1] # i /\ s[k - 1] \in Nat /\ i \in Nat
      BY <1>1, <3>1
    <3> QED
      BY <2>2, <3>1, <3>2
  <2> QED
    BY <1>1, <1>4, <2>1, <2>2
<1>6. \A k \in DOMAIN t : t[k] = i \/ \E j \in DOMAIN s : t[k] = s[j]
  BY <1>1, <1>4, <1>5
<1>7. \E k \in DOMAIN t : t[k] = i
  BY SMTT(40), <1>1, <1>4
<1>8. ASSUME NEW j \in DOMAIN s PROVE \E k \in DOMAIN t : t[k] = s[j]
  <2>1. CASE j <= p
    BY <1>1, <1>4, <2>1
  <2>2. CASE ~(j <= p)
    <3>1. j + 1 \in (p + 2)..(n + 1) /\ (j + 1) - 1 = j
      BY <1>1, <2>2
    <3> QED
      BY <1>1, <1>4, <3>1
  <2> QED
    BY <2>1, <2>2
<1>9. ASSUME NEW j \in 1..(n + 1), NEW k \in 1..(n + 1), j < k PROVE t[j] < t[k]
  <2>1. i \in Nat /\ \A m \in 1..n : s[m] \in Nat
    BY <1>1
  <2>2. CASE j \in 1..p /\ k \in 1..p
    BY <1>1, <1>5, <1>9, <2>2
  <2>3. CASE j \in (p + 2)..(n + 1)
    <3>1. /\ k \in (p + 2)..(n + 1) /\ j - 1 < k - 1 /\ j - 1 \in 1..n /\ k - 1 \in 1..n
          /\ t[j] = s[j - 1] /\ t[k] = s[k - 1]
      BY <1>1, <1>4, <1>9, <2>3
    <3> QED
      BY <1>1, <3>1
  <2>4. CASE j \in 1..(p + 1) /\ k \in (p + 1)..(n + 1)
    <3>1. t[j] < i \/ (t[j] = i /\ j = p + 1)
      BY <1>1, <1>5, <2>4
    <3>2. i < t[k] \/ (t[k] = i /\ k = p + 1)
      BY <1>1, <1>5, <2>4
    <3>3. t[j] \in Nat /\ t[k] \in Nat
      BY <1>1, <1>4, <1>5, <2>1
    <3> QED
      BY <1>1, <1>9, <2>1, <3>1, <3>2, <3>3
  <2> QED
    BY <1>1, <1>9, <2>2, <2>3, <2>4
<1> QED
  BY <1>4, <1>6, <1>7, <1>8, <1>9 DEF t

\* An entry of the list.
LEMMA EntryStep ==
  ASSUME LoadInv, NEW i \in unseen, NextEntry(i)
  PROVE  LoadInv'
<1> DEFINE D == DOMAIN disk.children
           n == Len(found)
<1>1. /\ UNCHANGED <<disk, original, edited, step, at, skills, mcp, notes>>
      /\ step = "list_skills" /\ unseen' = unseen \ {i}
  BY DEF NextEntry, Goes
<1>2. /\ at = 1 /\ skills = <<>> /\ found \in Seq(D) /\ i \in D
      /\ \A j, k \in DOMAIN found : j < k => found[j] < found[k]
      /\ \A k \in DOMAIN found : found[k] \notin unseen /\ Sound(found[k])
      /\ D \in SUBSET Nat
  BY <1>1 DEF LoadInv, LoadTypes, Listing, IsPackage
<1>3. /\ found' \in Seq(D)
      /\ \A j, k \in DOMAIN found' : j < k => found'[j] < found'[k]
      /\ \A k \in DOMAIN found' : (found'[k] = i /\ Sound(i)) \/ \E j \in DOMAIN found : found'[k] = found[j]
      /\ \A j \in DOMAIN found : \E k \in DOMAIN found' : found'[k] = found[j]
      /\ disk.skills.kind = "directory" /\ Sound(i) => \E k \in DOMAIN found' : found'[k] = i
  <2>1. CASE disk.skills.kind = "directory" /\ Sound(i)
    <3>1. PICK p \in 0..n :
             /\ \A k \in DOMAIN found : k <= p <=> found[k] < i
             /\ found' = InsertAt(found, i, p)
      BY <2>1 DEF NextEntry, Sound, InsertAt
    <3>2. /\ D \in SUBSET Nat /\ found \in Seq(D) /\ i \in D /\ p \in 0..Len(found)
          /\ \A j, k \in DOMAIN found : j < k => found[j] < found[k]
          /\ \A k \in DOMAIN found : k <= p <=> found[k] < i
          /\ \A k \in DOMAIN found : found[k] # i
          /\ found' = InsertAt(found, i, p)
      BY <1>2, <3>1
    <3> HIDE DEF D
    <3>3. /\ found' \in Seq(D)
          /\ \A k \in DOMAIN found' : found'[k] = i \/ \E j \in DOMAIN found : found'[k] = found[j]
          /\ \E k \in DOMAIN found' : found'[k] = i
          /\ \A j \in DOMAIN found : \E k \in DOMAIN found' : found'[k] = found[j]
          /\ \A j, k \in DOMAIN found' : j < k => found'[j] < found'[k]
      BY <3>2, Inserted
    <3> QED
      BY <2>1, <3>3
  <2>2. CASE ~(disk.skills.kind = "directory" /\ Sound(i))
    <3>1. found' = found
      BY <2>2 DEF NextEntry, Sound
    <3> QED
      BY <1>2, <2>2, <3>1
  <2> QED
    BY <2>1, <2>2
<1>4. \A j : Sound(j)' = Sound(j)
  BY <1>1 DEF Sound
<1>5. \A k \in DOMAIN found' : found'[k] \notin unseen' /\ Sound(found'[k])
  BY <1>1, <1>2, <1>3
<1>6. LoadTypes'
  BY <1>1 DEF LoadInv, LoadTypes
<1>7. Listing'
  <2>1. /\ disk' = disk /\ at' = at /\ skills' = skills /\ step' = "list_skills"
    BY <1>1
  <2>2. step' \notin BeforeList /\ step' \notin McpSteps
    BY <2>1 DEF BeforeList, ManifestSteps, McpSteps
  <2>3. \A k \in DOMAIN found' : Sound(found[k])'
    BY <1>1, <1>5 DEF Sound
  <2> QED
    BY <1>2, <1>3, <1>5, <2>1, <2>2, <2>3 DEF Listing
<1>8. Choosing' /\ Took' = {}
  <2>1. \A m \in notes : m.rule # "skill-skipped"
    <3>1. \A k \in DOMAIN found : ~(k < at)
      BY <1>2, LenProperties
    <3> QED
      BY <3>1 DEF LoadInv, Choosing
  <2>2. /\ skills' = <<>> /\ at' = 1 /\ found' \in Seq(DOMAIN disk'.children) /\ notes' = notes
    BY <1>1, <1>2, <1>3
  <2>3. Choosing' /\ (Took = {})'
    <3>1. DOMAIN skills' = {} /\ skills' \in Seq(DOMAIN disk'.children)
      BY <2>2, EmptySeq
    <3>2. \A k \in DOMAIN found' : ~(k < at')
      BY <2>2, LenProperties
    <3> QED
      BY <2>1, <2>2, <3>1, <3>2 DEF Choosing, Took
  <2> QED
    BY <2>3
<1>9. ManifestSeen' /\ McpSeen' /\ McpNoted'
  BY <1>1 DEF LoadInv, ManifestSeen, McpSeen, McpNoted, Presentable, Usable, Readable
<1>10. SkillsSeen'
  <2>1. /\ original.skills.kind = "directory" /\ original.skills.inside = "inside"
        /\ original.skills.readable
        /\ \A j \in GoodSkills(disk) : j \in unseen \/ Listed(j)
    BY <1>1 DEF LoadInv, SkillsSeen
  <2>2. ASSUME NEW j \in GoodSkills(disk) PROVE j \in unseen' \/ Listed(j)'
    <3>1. CASE j = i
      <4>1. disk.skills.kind = "directory" /\ Sound(j)
        BY <2>2 DEF GoodSkills, Sound
      <4> QED
        BY <1>3, <3>1, <4>1 DEF Listed
    <3>2. CASE j # i /\ j \in unseen
      BY <1>1, <3>2
    <3>3. CASE Listed(j)
      BY <1>3, <3>3 DEF Listed
    <3> QED
      BY <2>1, <2>2, <3>1, <3>2, <3>3
  <2>3. GoodSkills(disk)' = GoodSkills(disk)
    BY <1>1 DEF GoodSkills, Usable, Readable
  <2> QED
    BY <1>1, <2>1, <2>2, <2>3 DEF SkillsSeen, SkillSteps, McpSteps
<1>11. Since'
  BY <1>1, SinceStays
<1> QED
  BY <1>6, <1>7, <1>8, <1>9, <1>10, <1>11 DEF LoadInv

\* SKILL.md that is found and followed is the one of the child, of a directory that is in place.
LEMMA SkillFileIs ==
  ASSUME NEW i, IsChild(disk.children[i]), Sound(i)
  PROVE  /\ SkillFile(disk.children[i]).kind = "file" =>
              disk.skills.kind = "directory" /\ disk.children[i].file.kind = "file"
         /\ Confined(SkillFile(disk.children[i])) = "inside" => disk.children[i].file.inside = "inside"
         /\ SkillFile(disk.children[i]).readable = disk.children[i].file.readable
         /\ SkillFile(disk.children[i]).holds = disk.children[i].file.holds
         /\ disk.skills.kind = "directory" /\ disk.skills.inside = "inside" =>
              SkillFile(disk.children[i]) = disk.children[i].file
BY DEF SkillFile, Sound, Confined, IsChild, IsLocation

\* The directory that is looked at.
LEMMA AtFact ==
  ASSUME LoadInv, step \in SkillSteps, at <= Len(found)
  PROVE  /\ found \in Seq(DOMAIN disk.children) /\ Len(found) \in Nat /\ at \in Nat \ {0}
         /\ DOMAIN found = 1..Len(found) /\ at \in DOMAIN found
         /\ found[at] \in DOMAIN disk.children /\ DOMAIN disk.children \subseteq Nat
         /\ Sound(found[at]) /\ found[at] \notin Took
         /\ \A k \in DOMAIN found : k < at => found[k] < found[at]
         /\ Child = disk.children[found[at]]
<1>1. /\ found \in Seq(DOMAIN disk.children) /\ at \in Nat \ {0}
      /\ \A k \in DOMAIN found : Sound(found[k])
      /\ \A j, k \in DOMAIN found : j < k => found[j] < found[k]
      /\ DOMAIN disk.children \subseteq Nat
      /\ \A j \in DOMAIN skills : \E k \in DOMAIN found : k < at /\ skills[j] = found[k]
  BY DEF LoadInv, LoadTypes, Listing, Choosing, IsPackage
<1>2. Len(found) \in Nat /\ DOMAIN found = 1..Len(found)
  BY <1>1, LenProperties
<1>3. at \in DOMAIN found /\ found[at] \in DOMAIN disk.children /\ Sound(found[at])
  BY <1>1, <1>2
<1>4. \A k \in DOMAIN found : k < at => found[k] < found[at]
  BY <1>1, <1>3
<1>5. found[at] \notin Took
  <2>1. \A k \in DOMAIN found : found[k] \in Nat
    BY <1>1
  <2> QED
    BY <1>1, <1>3, <1>4, <2>1 DEF Took
<1> QED
  BY <1>1, <1>2, <1>3, <1>4, <1>5 DEF Child

\* What a step of the skills leaves alone.
LEMMA SkillFrame ==
  ASSUME LoadInv, step \in SkillSteps, step' \in SkillSteps,
         UNCHANGED <<disk, original, edited, unseen, found, mcp>>,
         at' \in Nat \ {0}, step' # "stat_skill" => at' <= Len(found),
         \A n \in notes' : n = Note(n.rule, n.origin)
                           /\ (n \in notes \/ n.rule # "server-skipped")
  PROVE  LoadTypes' /\ Since' /\ Listing' /\ ManifestSeen' /\ McpSeen' /\ McpNoted'
<1>1. LoadTypes' /\ Since'
  BY SinceStays DEF LoadInv, LoadTypes
<1>2. step' \notin BeforeList \cup {"list_skills", "rejected"} \cup McpSteps
      /\ step \notin BeforeList \cup {"list_skills", "rejected"} \cup McpSteps
  BY DEF SkillSteps, BeforeList, ManifestSteps, McpSteps
<1>3. Listing'
  <2>1. /\ found \in Seq(DOMAIN disk.children)
        /\ \A k \in DOMAIN found : found[k] \notin unseen /\ Sound(found[k])
        /\ \A j, k \in DOMAIN found : j < k => found[j] < found[k]
    BY DEF LoadInv, Listing
  <2>2. \A k \in DOMAIN found : Sound(found[k])'
    BY <2>1 DEF Sound
  <2> QED
    BY <1>2, <2>1, <2>2 DEF Listing
<1>4. ManifestSeen'
  BY <1>2 DEF LoadInv, ManifestSeen, Presentable, Usable, Readable, BeforeList, ManifestSteps
<1>5. McpSeen' /\ McpNoted'
  BY <1>2 DEF LoadInv, McpSeen, McpNoted, McpSteps
<1> QED
  BY <1>1, <1>3, <1>4, <1>5

\* A directory that is looked at further.
LEMMA SkillGoesOn ==
  ASSUME LoadInv, step \in SkillSteps, at <= Len(found),
         UNCHANGED <<disk, original, edited, unseen, found, at, skills, mcp, notes>>,
         \/ step = "stat_skill" /\ step' = "confine_skill" /\ SkillFile(Child).kind = "file"
         \/ step = "confine_skill" /\ step' = "read_skill" /\ Confined(SkillFile(Child)) = "inside"
         \/ step = "read_skill" /\ step' = "parse_body"
            /\ Readable(SkillFile(Child)) /\ SkillMdOK(SkillFile(Child).holds, Child.name)
  PROVE  LoadInv'
<1>1. LoadTypes' /\ Since' /\ Listing' /\ ManifestSeen' /\ McpSeen' /\ McpNoted'
  <2>1. step' \in SkillSteps
    BY DEF SkillSteps
  <2>2. \A n \in notes' : n = Note(n.rule, n.origin)
                          /\ (n \in notes \/ n.rule # "server-skipped")
    BY DEF LoadInv, LoadTypes
  <2>3. at' \in Nat \ {0}
    BY AtFact
  <2> QED
    BY <2>1, <2>2, <2>3, SkillFrame
<1>2. Choosing'
  BY ChoosingStays DEF LoadInv
<1>3. SkillsSeen'
  <2>1. /\ SkillsSeen /\ Since /\ step \notin McpSteps \cup {"list_skills"}
        /\ original.skills.kind = "directory" /\ original.skills.inside = "inside"
        /\ original.skills.readable
        /\ Broken1 \in notes \/ \A i \in GoodSkills(disk) : Listed(i)
        /\ \A k \in DOMAIN found : k < at =>
             /\ found[k] \in Took => found[k] \in GoodSkills(original)
             /\ found[k] \in GoodSkills(disk) => found[k] \in Took
    BY DEF LoadInv, SkillsSeen, SkillSteps, McpSteps
  <2>2. /\ found[at] \in DOMAIN disk.children /\ Child = disk.children[found[at]]
        /\ Sound(found[at]) /\ IsChild(Child)
    BY AtFact DEF LoadInv, LoadTypes, IsPackage
  <2>3. /\ Aged(Child.file, Before)
        /\ Child.name = original.children[found[at]].name
        /\ original.children[found[at]].text /\ original.children[found[at]].kind = "directory"
        /\ found[at] \in DOMAIN original.children
    BY <2>1, <2>2 DEF Since, Before, Sound
  <2>4. /\ SkillFile(Child).kind = "file" => Before.kind = "file"
        /\ Confined(SkillFile(Child)) = "inside" => Before.inside = "inside"
        /\ SkillFile(Child).readable => Before.readable
        /\ SkillFile(Child).holds = Before.holds
    BY <2>2, <2>3, SkillFileIs DEF Aged
  <2>5. /\ step' \in {"confine_skill", "read_skill", "parse_body"}
        /\ step' \in {"confine_skill", "read_skill"} => Before.kind = "file"
        /\ step' = "read_skill" => Before.inside = "inside"
    BY <2>1, <2>4 DEF SkillsSeen
  <2>6. step' = "parse_body" => found[at] \in GoodSkills(original)
    <3>1. CASE step' = "parse_body"
      <4>1. Usable(Before) /\ SkillMdOK(Before.holds, original.children[found[at]].name)
        BY <2>1, <2>3, <2>4, <3>1 DEF SkillsSeen, Usable, Readable
      <4> QED
        BY <2>1, <2>3, <4>1 DEF GoodSkills, Before
    <3> QED
      BY <3>1
  <2>7. /\ GoodSkills(disk)' = GoodSkills(disk) /\ GoodSkills(original)' = GoodSkills(original)
        /\ Took' = Took /\ Broken1' = Broken1 /\ Before' = Before
        /\ \A i : Listed(i)' = Listed(i)
    BY GoodStays DEF Before
  <2>8. step' \notin {"confine_skills", "open_skills", "list_skills"} \cup McpSteps
    BY <2>5 DEF McpSteps
  <2> QED
    BY <2>1, <2>5, <2>6, <2>7, <2>8 DEF SkillsSeen, SkillSteps
<1> QED
  BY <1>1, <1>2, <1>3 DEF LoadInv

\* A directory that is done with: it is taken, noted, or has no SKILL.md.
LEMMA SkillDone ==
  ASSUME LoadInv, step \in SkillSteps, at <= Len(found),
         UNCHANGED <<disk, original, edited, unseen, found, mcp>>, at' = at + 1, step' = "stat_skill",
         \/ skills' = Append(skills, found[at]) /\ notes' = notes
         \/ /\ skills' = skills
            /\ notes' = notes \cup {Note("skill-skipped", <<"skill", Child.name>>)}
         \/ skills' = skills /\ notes' = notes /\ SkillFile(Child).kind # "file",
         skills' = Append(skills, found[at]) => found[at] \in GoodSkills(original),
         found[at] \in GoodSkills(disk) => skills' = Append(skills, found[at])
  PROVE  LoadInv'
<1> DEFINE note == Note("skill-skipped", <<"skill", Child.name>>)
<1>0. /\ found \in Seq(DOMAIN disk.children) /\ Len(found) \in Nat /\ at \in Nat \ {0}
      /\ DOMAIN found = 1..Len(found) /\ at \in DOMAIN found
      /\ found[at] \in DOMAIN disk.children /\ DOMAIN disk.children \subseteq Nat
      /\ found[at] \notin Took /\ Child = disk.children[found[at]]
      /\ \A k \in DOMAIN found : k < at => found[k] < found[at] /\ found[k] \in Nat
  BY AtFact
<1>1. note = Note(note.rule, note.origin) /\ note.rule = "skill-skipped" /\ note.origin = NameOf(found[at])
  BY <1>0 DEF Note, NameOf
<1> HIDE DEF note
<1>2. LoadTypes' /\ Since' /\ Listing' /\ ManifestSeen' /\ McpSeen' /\ McpNoted'
  <2>1. step' \in SkillSteps
    BY DEF SkillSteps
  <2>2. \A n \in notes' : n = Note(n.rule, n.origin)
                          /\ (n \in notes \/ n.rule # "server-skipped")
    BY <1>1 DEF LoadInv, LoadTypes, note
  <2>3. at' \in Nat \ {0}
    BY <1>0
  <2> QED
    BY <2>1, <2>2, <2>3, SkillFrame
<1>3. /\ skills \in Seq(DOMAIN disk.children)
      /\ \A j \in DOMAIN skills : \E k \in DOMAIN found : k < at /\ skills[j] = found[k]
      /\ \A j, k \in DOMAIN skills : j < k => skills[j] < skills[k]
      /\ \A n \in notes : n.rule = "skill-skipped" =>
           \E k \in DOMAIN found : k < at /\ found[k] \notin Took /\ n.origin = NameOf(found[k])
      /\ \A k \in DOMAIN found : k < at =>
           \/ found[k] \in Took \cup Skipped
           \/ SkillFile(disk.children[found[k]]).kind # "file"
  BY DEF LoadInv, Choosing
<1>4. \A i : NameOf(i)' = NameOf(i)
  BY DEF NameOf
<1>5. \A k \in DOMAIN found : SkillFile(disk.children[found[k]])' = SkillFile(disk.children[found[k]])
  BY DEF SkillFile
<1>6. Skipped \subseteq Skipped'
  BY DEF Skipped
<1>7. \A k \in DOMAIN found : k < at' => k < at \/ k = at
  BY <1>0
<1>8. ASSUME skills' = Append(skills, found[at]), notes' = notes PROVE Choosing'
  <2>1. /\ skills' \in Seq(DOMAIN disk.children) /\ Len(skills) \in Nat
        /\ DOMAIN skills = 1..Len(skills) /\ DOMAIN skills' = 1..(Len(skills) + 1)
        /\ skills'[Len(skills) + 1] = found[at]
        /\ \A j \in DOMAIN skills : skills'[j] = skills[j]
    BY SMTT(40), <1>0, <1>3, <1>8, AppendProperties, LenProperties
  <2>2. Took' = Took \cup {found[at]}
    BY <2>1 DEF Took
  <2>3. \A j \in DOMAIN skills' : \E k \in DOMAIN found : k < at' /\ skills'[j] = found[k]
    <3> SUFFICES ASSUME NEW j \in DOMAIN skills'
                 PROVE  \E k \in DOMAIN found : k < at + 1 /\ skills'[j] = found[k]
      OBVIOUS
    <3>1. CASE j \in DOMAIN skills
      <4>1. PICK k \in DOMAIN found : k < at /\ skills[j] = found[k]
        BY <1>3, <3>1
      <4>2. k < at + 1
        BY <1>0, <4>1
      <4> QED
        BY <2>1, <3>1, <4>1, <4>2
    <3>2. CASE j = Len(skills) + 1
      <4>1. at < at + 1
        BY <1>0
      <4> QED
        BY <1>0, <2>1, <3>2, <4>1
    <3> QED
      BY <2>1, <3>1, <3>2
  <2>4. \A j, k \in DOMAIN skills' : j < k => skills'[j] < skills'[k]
    <3> SUFFICES ASSUME NEW j \in DOMAIN skills', NEW k \in DOMAIN skills', j < k
                 PROVE  skills'[j] < skills'[k]
      OBVIOUS
    <3>1. j \in DOMAIN skills /\ (k \in DOMAIN skills \/ k = Len(skills) + 1)
      BY <2>1
    <3>2. skills[j] < found[at]
      BY <1>0, <1>3, <3>1
    <3> QED
      BY <1>3, <2>1, <3>1, <3>2
  <2>5. \A n \in notes' : n.rule = "skill-skipped" =>
          \E k \in DOMAIN found : k < at' /\ found[k] \notin Took' /\ n.origin = NameOf(found[k])
    <3> SUFFICES ASSUME NEW n \in notes, n.rule = "skill-skipped"
                 PROVE  \E k \in DOMAIN found : k < at + 1 /\ found[k] \notin Took' /\ n.origin = NameOf(found[k])
      BY <1>8
    <3>1. PICK k \in DOMAIN found : k < at /\ found[k] \notin Took /\ n.origin = NameOf(found[k])
      BY <1>3
    <3>2. k < at + 1 /\ found[k] # found[at]
      BY <1>0, <3>1
    <3> QED
      BY <2>2, <3>1, <3>2
  <2>6. \A k \in DOMAIN found : k < at' =>
          \/ found[k] \in Took' \cup Skipped'
          \/ SkillFile(disk.children[found[k]])'.kind # "file"
    BY <1>3, <1>5, <1>6, <1>7, <2>2
  <2> QED
    BY <1>4, <2>1, <2>3, <2>4, <2>5, <2>6 DEF Choosing
<1>9. ASSUME skills' = skills PROVE Choosing'
  <2>1. Took' = Took
    BY <1>9 DEF Took
  <2>2. notes' = notes \/ notes' = notes \cup {note}
    BY <1>9 DEF note
  <2>3. \A n \in notes' : n.rule = "skill-skipped" =>
          \E k \in DOMAIN found : k < at' /\ found[k] \notin Took' /\ n.origin = NameOf(found[k])
    <3> SUFFICES ASSUME NEW n \in notes', n.rule = "skill-skipped"
                 PROVE  \E k \in DOMAIN found : k < at + 1 /\ found[k] \notin Took /\ n.origin = NameOf(found[k])
      BY <2>1
    <3>1. CASE n \in notes
      <4>1. PICK k \in DOMAIN found : k < at /\ found[k] \notin Took /\ n.origin = NameOf(found[k])
        BY <1>3, <3>1
      <4>2. k < at + 1
        BY <1>0, <4>1
      <4> QED
        BY <4>1, <4>2
    <3>2. CASE n = note
      BY <1>0, <1>1, <3>2
    <3> QED
      BY <2>2, <3>1, <3>2
  <2>4. found[at] \in Skipped' \/ SkillFile(disk.children[found[at]]).kind # "file"
    <3>1. CASE notes' = notes \cup {note}
      BY <1>0, <3>1 DEF Skipped, note
    <3>2. CASE SkillFile(Child).kind # "file"
      BY <1>0, <3>2
    <3>3. CASE skills' = Append(skills, found[at])
      <4>1. Len(skills') = Len(skills) + 1 /\ Len(skills) \in Nat
        BY <1>0, <1>3, <3>3, AppendProperties, LenProperties
      <4> QED
        BY <1>9, <4>1
    <3> QED
      BY <3>1, <3>2, <3>3 DEF note
  <2>5. \A k \in DOMAIN found : k < at' =>
          \/ found[k] \in Took' \cup Skipped'
          \/ SkillFile(disk.children[found[k]])'.kind # "file"
    BY <1>3, <1>5, <1>6, <1>7, <2>1, <2>4
  <2>6. \A j \in DOMAIN skills : \E k \in DOMAIN found : k < at + 1 /\ skills[j] = found[k]
    <3> SUFFICES ASSUME NEW j \in DOMAIN skills
                 PROVE  \E k \in DOMAIN found : k < at + 1 /\ skills[j] = found[k]
      OBVIOUS
    <3>1. PICK k \in DOMAIN found : k < at /\ skills[j] = found[k]
      BY <1>3
    <3>2. k < at + 1
      BY <1>0, <3>1
    <3> QED
      BY <3>1, <3>2
  <2> QED
    BY <1>3, <1>4, <1>9, <2>1, <2>3, <2>5, <2>6 DEF Choosing
<1>10. Choosing'
  BY <1>8, <1>9
<1>11. SkillsSeen'
  <2>1. /\ original.skills.kind = "directory" /\ original.skills.inside = "inside"
        /\ original.skills.readable
        /\ Broken1 \in notes \/ \A i \in GoodSkills(disk) : Listed(i)
        /\ \A k \in DOMAIN found : k < at =>
             /\ found[k] \in Took => found[k] \in GoodSkills(original)
             /\ found[k] \in GoodSkills(disk) => found[k] \in Took
    BY DEF LoadInv, SkillsSeen
  <2>2. /\ GoodSkills(disk)' = GoodSkills(disk) /\ GoodSkills(original)' = GoodSkills(original)
        /\ Broken1' = Broken1 /\ notes \subseteq notes' /\ \A i : Listed(i)' = Listed(i)
    BY DEF GoodSkills, Usable, Readable, Listed, Broken1
  <2>3. \A k \in DOMAIN found : k < at' =>
          /\ found[k] \in Took' => found[k] \in GoodSkills(original)
          /\ found[k] \in GoodSkills(disk) => found[k] \in Took'
    <3>1. CASE skills' = Append(skills, found[at])
      <4>1. Took' = Took \cup {found[at]}
        <5>1. /\ Len(skills) \in Nat /\ DOMAIN skills = 1..Len(skills)
              /\ DOMAIN skills' = 1..(Len(skills) + 1) /\ skills'[Len(skills) + 1] = found[at]
              /\ \A j \in DOMAIN skills : skills'[j] = skills[j]
          BY SMTT(40), <1>0, <1>3, <3>1, AppendProperties, LenProperties
        <5> QED
          BY SMTT(40), <5>1 DEF Took
      <4>2. \A k \in DOMAIN found : k < at => found[k] # found[at]
        BY <1>0
      <4> QED
        BY <1>7, <2>1, <3>1, <4>1, <4>2
    <3>2. CASE skills' # Append(skills, found[at])
      <4>1. Took' = Took /\ found[at] \notin GoodSkills(disk) /\ found[at] \notin Took
        BY <1>0, <3>2 DEF Took
      <4> QED
        BY <1>7, <2>1, <4>1
    <3> QED
      BY <3>1, <3>2
  <2>4. step' \notin {"confine_skills", "open_skills", "list_skills"} \cup McpSteps
    BY DEF McpSteps
  <2> QED
    BY <2>1, <2>2, <2>3, <2>4 DEF SkillsSeen
<1> QED
  BY <1>2, <1>10, <1>11 DEF LoadInv

\* Nothing of this is about the body of a skill.
LEMMA Stutters ==
  ASSUME LoadInv, UNCHANGED <<disk, loadVars>>
  PROVE  LoadInv'
<1>1. UNCHANGED <<disk, original, edited, step, unseen, found, at, skills, mcp, notes>>
  BY DEF loadVars
<1>2. LoadTypes' /\ Since' /\ Listing'
  BY <1>1, SinceStays DEF LoadInv, LoadTypes, Listing, Sound
<1>3. Choosing'
  <2>1. \A n \in notes' : n \in notes \/ n.rule # "skill-skipped"
    BY <1>1
  <2> QED
    BY <1>1, <2>1, ChoosingStays DEF LoadInv
<1>4. ManifestSeen' /\ McpNoted'
  BY <1>1 DEF LoadInv, ManifestSeen, McpNoted, Presentable, Usable, Readable
<1>5. McpSeen'
  BY <1>1 DEF LoadInv, McpSeen, GoodServers, Usable, Readable
<1>6. SkillsSeen'
  <2>1. /\ GoodSkills(disk)' = GoodSkills(disk) /\ GoodSkills(original)' = GoodSkills(original)
        /\ Took' = Took /\ Broken1' = Broken1 /\ Before' = Before
        /\ \A i : Listed(i)' = Listed(i)
    BY <1>1, GoodStays DEF Before
  <2>2. SkillsSeen
    BY DEF LoadInv
  <2> QED
    BY <1>1, <2>1, <2>2 DEF SkillsSeen
<1> QED
  BY <1>2, <1>3, <1>4, <1>5, <1>6 DEF LoadInv

\* A directory holds a good skill only when its SKILL.md is one.
LEMMA GoodIs ==
  ASSUME LoadInv, step \in SkillSteps, at <= Len(found)
  PROVE  /\ skills # Append(skills, found[at])
         /\ found[at] \in GoodSkills(disk) =>
              /\ Readable(SkillFile(Child)) /\ SkillFile(Child).inside = "inside"
              /\ SkillMdOK(SkillFile(Child).holds, Child.name)
<1>1. found[at] \in DOMAIN disk.children /\ Sound(found[at]) /\ Child = disk.children[found[at]]
      /\ IsChild(Child)
  BY AtFact DEF LoadInv, LoadTypes, IsPackage
<1>2. skills # Append(skills, found[at])
  <2>1. skills \in Seq(DOMAIN disk.children)
    BY DEF LoadInv, Choosing
  <2>2. Len(Append(skills, found[at])) = Len(skills) + 1 /\ Len(skills) \in Nat
    BY <1>1, <2>1, AppendProperties, LenProperties
  <2> QED
    BY <2>2
<1>3. ASSUME found[at] \in GoodSkills(disk)
      PROVE  /\ Readable(SkillFile(Child)) /\ SkillFile(Child).inside = "inside"
             /\ SkillMdOK(SkillFile(Child).holds, Child.name)
  <2>1. /\ disk.skills.kind = "directory" /\ disk.skills.inside = "inside"
        /\ Usable(Child.file) /\ SkillMdOK(Child.file.holds, Child.name)
    BY <1>1, <1>3 DEF GoodSkills
  <2>2. SkillFile(Child) = Child.file
    BY <1>1, <2>1, SkillFileIs
  <2> QED
    BY <2>1, <2>2 DEF Usable
<1> QED
  BY <1>2, <1>3

\* SKILL.md is found, followed and read.
LEMMA SkillStep ==
  ASSUME LoadInv, StatSkill \/ ConfineSkill \/ ReadSkill
  PROVE  LoadInv'
<1> DEFINE file == SkillFile(Child)
           ok == Readable(file) /\ SkillMdOK(file.holds, Child.name)
           noted == /\ step' = "stat_skill" /\ at' = at + 1
                    /\ notes' = notes \cup {Note("skill-skipped", <<"skill", Child.name>>)}
<1>1. /\ step \in {"stat_skill", "confine_skill", "read_skill"}
      /\ UNCHANGED <<disk, original, edited, unseen, found, mcp, skills>>
  BY DEF StatSkill, ConfineSkill, ReadSkill, Rest
<1>2. step \in SkillSteps /\ at <= Len(found)
  <2>1. step = "stat_skill" => at <= Len(found)
    BY DEF StatSkill, ConfineSkill, ReadSkill
  <2>2. step \in {"confine_skill", "read_skill", "parse_body"} => at <= Len(found)
    BY DEF LoadInv, Listing
  <2> QED
    BY <1>1, <2>1, <2>2 DEF SkillSteps
<1>3. skills' # Append(skills, found[at])
  BY <1>1, <1>2, GoodIs
<1>4. \/ /\ UNCHANGED <<at, notes>>
         /\ \/ step = "stat_skill" /\ step' = "confine_skill" /\ file.kind = "file"
            \/ step = "confine_skill" /\ step' = "read_skill" /\ Confined(file) = "inside"
            \/ step = "read_skill" /\ step' = "parse_body" /\ ok
      \/ /\ step' = "stat_skill" /\ at' = at + 1 /\ notes' = notes /\ file.kind # "file"
      \/ noted /\ (file.kind # "file" \/ (step = "confine_skill" /\ Confined(file) # "inside")
                   \/ (step = "read_skill" /\ ~ok))
  <2>1. CASE StatSkill
    BY <2>1 DEF StatSkill, NextSkill, Skip1
  <2>2. CASE ConfineSkill
    BY <2>2 DEF ConfineSkill, NextSkill, Skip1
  <2>3. CASE ReadSkill
    BY <2>3 DEF ReadSkill, NextSkill, Skip1
  <2> QED
    BY <2>1, <2>2, <2>3
<1>5. ASSUME file.kind # "file" \/ (step = "confine_skill" /\ Confined(file) # "inside")
             \/ (step = "read_skill" /\ ~ok)
      PROVE  found[at] \notin GoodSkills(disk)
  <2>1. found[at] \in GoodSkills(disk) => Readable(file) /\ file.inside = "inside" /\ ok
    BY <1>2, <1>5, GoodIs
  <2> QED
    BY <1>5, <2>1 DEF Readable, Confined
<1>6. CASE /\ UNCHANGED <<at, notes>>
           /\ \/ step = "stat_skill" /\ step' = "confine_skill" /\ file.kind = "file"
              \/ step = "confine_skill" /\ step' = "read_skill" /\ Confined(file) = "inside"
              \/ step = "read_skill" /\ step' = "parse_body" /\ ok
  BY <1>1, <1>2, <1>6, SkillGoesOn
<1>7. CASE step' = "stat_skill" /\ at' = at + 1 /\ notes' = notes /\ file.kind # "file"
  <2>1. skills' # Append(skills, found[at]) /\ found[at] \notin GoodSkills(disk)
    BY <1>3, <1>5, <1>7
  <2> QED
    BY <1>1, <1>2, <1>7, <2>1, SkillDone
<1>8. CASE noted /\ (file.kind # "file" \/ (step = "confine_skill" /\ Confined(file) # "inside")
                     \/ (step = "read_skill" /\ ~ok))
  <2>1. skills' # Append(skills, found[at]) /\ found[at] \notin GoodSkills(disk)
    BY <1>3, <1>5, <1>8
  <2> QED
    BY <1>1, <1>2, <1>8, <2>1, SkillDone
<1> QED
  BY <1>4, <1>6, <1>7, <1>8

\* The body is parsed, and the skill is taken.
LEMMA BodyStep ==
  ASSUME LoadInv, ParseBody \/ TakeSkill
  PROVE  LoadInv'
<1>1. CASE ParseBody
  <2>1. UNCHANGED <<disk, loadVars>>
    BY <1>1 DEF ParseBody
  <2> QED
    BY <2>1, Stutters
<1>2. CASE TakeSkill
  <2>1. /\ step = "parse_body" /\ step \in SkillSteps /\ at <= Len(found)
        /\ UNCHANGED <<disk, original, edited, unseen, found, mcp>> /\ at' = at + 1 /\ step' = "stat_skill"
        /\ skills' = Append(skills, found[at]) /\ notes' = notes
    BY <1>2 DEF TakeSkill, Rest, NextSkill, LoadInv, Listing, SkillSteps
  <2>2. found[at] \in GoodSkills(original)
    BY <2>1 DEF LoadInv, SkillsSeen
  <2> QED
    BY <2>1, <2>2, SkillDone
<1> QED
  BY <1>1, <1>2

\* The list is at its end.
LEMMA NoMoreSkillsStep ==
  ASSUME LoadInv, NoMoreSkills
  PROVE  LoadInv'
<1>1. /\ step = "stat_skill" /\ at > Len(found) /\ step' = "stat_mcp"
      /\ UNCHANGED <<disk, original, edited, unseen, found, at, skills, mcp, notes>>
  BY DEF NoMoreSkills, Only, Goes
<1>2. LoadTypes' /\ Since'
  BY <1>1, SinceStays DEF LoadInv, LoadTypes, McpSteps
<1>3. Listing'
  <2>1. /\ found \in Seq(DOMAIN disk.children) /\ at \in Nat \ {0}
        /\ \A k \in DOMAIN found : found[k] \notin unseen /\ Sound(found[k])
        /\ \A j, k \in DOMAIN found : j < k => found[j] < found[k]
    BY DEF LoadInv, Listing
  <2>2. \A k \in DOMAIN found : Sound(found[k])'
    BY <1>1, <2>1 DEF Sound
  <2> QED
    BY <1>1, <2>1, <2>2 DEF Listing, BeforeList, ManifestSteps
<1>4. Choosing'
  BY <1>1, ChoosingStays DEF LoadInv
<1>5. ManifestSeen'
  BY <1>1 DEF LoadInv, ManifestSeen, Presentable, Usable, Readable, ManifestSteps
<1>6. SkillsSeen'
  <2>1. /\ Broken1 \in notes \/ \A i \in GoodSkills(disk) : Listed(i)
        /\ \A k \in DOMAIN found : k < at =>
             /\ found[k] \in Took => found[k] \in GoodSkills(original)
             /\ found[k] \in GoodSkills(disk) => found[k] \in Took
    BY <1>1 DEF LoadInv, SkillsSeen, SkillSteps
  <2>2. /\ found \in Seq(DOMAIN disk.children) /\ at \in Nat \ {0}
        /\ \A j \in DOMAIN skills : \E k \in DOMAIN found : k < at /\ skills[j] = found[k]
    BY DEF LoadInv, Listing, Choosing
  <2>3. \A k \in DOMAIN found : k < at
    BY <1>1, <2>2, LenProperties
  <2>4. Took \subseteq GoodSkills(original)
    BY <2>1, <2>2 DEF Took
  <2>5. Broken1 \in notes \/ GoodSkills(disk) \subseteq Took
    BY <2>1, <2>3 DEF Listed
  <2>6. /\ GoodSkills(disk)' = GoodSkills(disk) /\ GoodSkills(original)' = GoodSkills(original)
        /\ Took' = Took /\ Broken1' = Broken1
    BY <1>1, GoodStays
  <2> QED
    BY <1>1, <2>4, <2>5, <2>6 DEF SkillsSeen, SkillSteps
<1>7. McpSeen' /\ McpNoted'
  BY <1>1 DEF LoadInv, McpSeen, McpNoted
<1> QED
  BY <1>2, <1>3, <1>4, <1>5, <1>6, <1>7 DEF LoadInv

\* What a step of the servers leaves alone.
LEMMA McpFrame ==
  ASSUME LoadInv, step \in {"stat_mcp", "confine_mcp", "read_mcp"}, step' \in McpSteps,
         UNCHANGED <<disk, original, edited, unseen, found, at, skills>>, notes \subseteq notes',
         \A n \in notes' : n = Note(n.rule, n.origin) /\ (n \in notes \/ n.rule # "skill-skipped")
  PROVE  LoadTypes' /\ Since' /\ Listing' /\ Choosing' /\ ManifestSeen' /\ SkillsSeen'
<1>1. LoadTypes' /\ Since'
  BY SinceStays DEF LoadInv, LoadTypes
<1>2. /\ step' \notin BeforeList \cup {"list_skills", "rejected"} \cup SkillSteps
      /\ step \notin ManifestSteps \cup {"rejected"} /\ step \in McpSteps
  BY DEF SkillSteps, BeforeList, ManifestSteps, McpSteps
<1>3. Listing'
  <2>1. /\ found \in Seq(DOMAIN disk.children) /\ at \in Nat \ {0}
        /\ \A k \in DOMAIN found : found[k] \notin unseen /\ Sound(found[k])
        /\ \A j, k \in DOMAIN found : j < k => found[j] < found[k]
        /\ at > Len(found)
    BY <1>2 DEF LoadInv, Listing
  <2>2. \A k \in DOMAIN found : Sound(found[k])'
    BY <2>1 DEF Sound
  <2> QED
    BY <1>2, <2>1, <2>2 DEF Listing, SkillSteps
<1>4. Choosing'
  BY ChoosingStays DEF LoadInv
<1>5. ManifestSeen'
  BY <1>2 DEF LoadInv, ManifestSeen, Presentable, Usable, Readable, BeforeList, ManifestSteps
<1>6. SkillsSeen'
  <2>1. Took \subseteq GoodSkills(original) /\ (GoodSkills(disk) \subseteq Took \/ Broken1 \in notes)
    BY <1>2 DEF LoadInv, SkillsSeen
  <2>2. /\ GoodSkills(disk)' = GoodSkills(disk) /\ GoodSkills(original)' = GoodSkills(original)
        /\ Took' = Took /\ Broken1' = Broken1
    BY GoodStays
  <2> QED
    BY <1>2, <2>1, <2>2 DEF SkillsSeen, BeforeList, SkillSteps
<1> QED
  BY <1>1, <1>3, <1>4, <1>5, <1>6

\* The servers are settled, or mcp.json is read further.
LEMMA McpStep ==
  ASSUME LoadInv, StatMcp \/ ConfineMcp \/ ReadMcp
  PROVE  LoadInv'
<1> DEFINE bad == Note("component-invalid", <<"mcp">>)
           off == Note("mcp-disabled", <<"mcp">>)
           left == McpNotes(disk.mcp.holds)
           taken == Servers(disk.mcp.holds)
           use == Usable(disk.mcp) /\ McpOK(disk.mcp.holds)
           Kept == UNCHANGED <<disk, original, edited, unseen, found, at, skills>>
<1>1. /\ bad = Note(bad.rule, bad.origin) /\ bad.rule = "component-invalid" /\ bad.origin = <<"mcp">>
      /\ off = Note(off.rule, off.origin) /\ off.rule = "mcp-disabled" /\ off.origin = <<"mcp">>
      /\ \A n \in left : n.rule = "server-skipped" /\ n = Note(n.rule, n.origin)
  BY NoteRules
<1>2. /\ IsLocation(disk.mcp)
      /\ McpOK(disk.mcp.holds) => "disabled" \notin taken
      /\ \A n \in notes : n = Note(n.rule, n.origin)
  <2>1. IsPackage(disk) /\ \A n \in notes : n = Note(n.rule, n.origin)
    BY DEF LoadInv, LoadTypes
  <2>2. McpOK(disk.mcp.holds) => "disabled" \notin Declared(disk.mcp.holds)
    BY <2>1 DEF IsPackage
  <2>3. IsLocation(disk.mcp)
    BY <2>1 DEF IsPackage
  <2> QED
    BY <2>1, <2>2, <2>3 DEF Servers
<1>3. /\ step \in {"confine_mcp", "read_mcp"} => original.mcp.kind = "file"
      /\ step = "read_mcp" => original.mcp.inside = "inside"
      /\ Aged(disk.mcp, original.mcp)
      /\ "mcp" \notin edited => disk.mcp = original.mcp
      /\ step # "done" => \A n \in notes : n.rule # "server-skipped"
  BY DEF LoadInv, McpSeen, McpNoted, Since
<1>4. Kept /\ step \in {"stat_mcp", "confine_mcp", "read_mcp"}
  BY DEF StatMcp, ConfineMcp, ReadMcp, Only, Goes, Settle, Invalid, Disabled
<1>5. \/ /\ UNCHANGED <<mcp, notes>>
         /\ \/ step = "stat_mcp" /\ step' = "confine_mcp" /\ disk.mcp.kind = "file"
            \/ step = "confine_mcp" /\ step' = "read_mcp" /\ Confined(disk.mcp) = "inside"
      \/ /\ step' = "done" /\ notes' = notes /\ mcp' = {"absent"} /\ disk.mcp.kind = "nothing"
      \/ /\ step' = "done" /\ mcp' = {"disabled"}
         /\ notes' = notes \cup {bad} \/ notes' = notes \cup {off}
         /\ \/ step = "stat_mcp" /\ disk.mcp.kind \notin {"file", "nothing"}
            \/ step = "confine_mcp" /\ Confined(disk.mcp) # "inside"
            \/ step = "read_mcp" /\ ~(Readable(disk.mcp) /\ McpOK(disk.mcp.holds))
      \/ /\ step' = "done" /\ step = "read_mcp" /\ mcp' = taken /\ notes' = notes \cup left
         /\ Readable(disk.mcp) /\ McpOK(disk.mcp.holds)
      \/ /\ step' = "panicked" /\ step = "read_mcp" /\ UNCHANGED <<mcp, notes>>
         /\ Readable(disk.mcp) /\ McpPanics(disk.mcp.holds)
  <2>1. CASE StatMcp
    BY <2>1 DEF StatMcp, Only, Goes, Settle, Invalid, Disabled
  <2>2. CASE ConfineMcp
    BY <2>2 DEF ConfineMcp, Only, Goes, Settle, Invalid, Disabled
  <2>3. CASE ReadMcp
    BY <2>3 DEF ReadMcp, Only, Goes, Settle, Disabled
  <2> QED
    BY <2>1, <2>2, <2>3
<1>6. use' = use /\ GoodServers(original)' = GoodServers(original) /\ left' = left
  BY <1>4 DEF GoodServers, Usable, Readable
<1>7. ASSUME step' \in McpSteps, notes \subseteq notes',
             \A n \in notes' : n = Note(n.rule, n.origin) /\ (n \in notes \/ n.rule # "skill-skipped"),
             McpSeen', McpNoted'
      PROVE  LoadInv'
  BY <1>4, <1>7, McpFrame DEF LoadInv
<1>8. CASE /\ UNCHANGED <<mcp, notes>>
           /\ \/ step = "stat_mcp" /\ step' = "confine_mcp" /\ disk.mcp.kind = "file"
              \/ step = "confine_mcp" /\ step' = "read_mcp" /\ Confined(disk.mcp) = "inside"
  <2>1. step' \in {"confine_mcp", "read_mcp"} /\ step # "done"
    BY <1>8
  <2>2. McpSeen'
    BY <1>3, <1>4, <1>8 DEF McpSeen, Confined, Aged
  <2>3. McpNoted'
    BY <1>3, <1>8, <2>1 DEF McpNoted
  <2> QED
    BY <1>2, <1>7, <1>8, <2>1, <2>2, <2>3 DEF McpSteps
<1>9. ASSUME step' = "done", NEW N, notes' = notes \cup N,
             \A n \in N : n = Note(n.rule, n.origin) /\ n.rule # "skill-skipped",
             \/ mcp' = GoodServers(original)
             \/ "mcp" \in edited /\ mcp' \in {{"absent"}, {"disabled"}},
             mcp' = {"disabled"} => \E n \in N : n.rule \in {"mcp-disabled", "component-invalid"}
                                                 /\ n.origin = <<"mcp">>,
             "mcp" \notin edited /\ use => {m \in N : m.rule = "server-skipped"} = left
      PROVE  LoadInv'
  <2>1. edited' = edited /\ step # "done"
    BY <1>4
  <2>2. McpSeen'
    BY <1>6, <1>9, <2>1 DEF McpSeen
  <2>3. {m \in notes' : m.rule = "server-skipped"} = {m \in N : m.rule = "server-skipped"}
    BY <1>3, <1>9, <2>1
  <2>4. McpNoted'
    <3>1. mcp' = {"disabled"} => \E n \in notes' : n.rule \in {"mcp-disabled", "component-invalid"}
                                                   /\ n.origin = <<"mcp">>
      BY <1>9
    <3>2. "mcp" \notin edited' /\ use' => {m \in notes' : m.rule = "server-skipped"} = left'
      BY <1>6, <1>9, <2>1, <2>3
    <3> QED
      BY <1>9, <3>1, <3>2 DEF McpNoted
  <2> QED
    BY <1>2, <1>7, <1>9, <2>2, <2>4 DEF McpSteps
<1>10. CASE step' = "done" /\ notes' = notes /\ mcp' = {"absent"} /\ disk.mcp.kind = "nothing"
  <2>1. ~use /\ notes' = notes \cup {} /\ mcp' # {"disabled"}
    BY <1>10 DEF Usable, Readable
  <2> DEFINE N == {}
  <2>2. /\ notes' = notes \cup N
        /\ \A n \in N : n = Note(n.rule, n.origin) /\ n.rule # "skill-skipped"
        /\ \/ mcp' = GoodServers(original)
           \/ "mcp" \in edited /\ mcp' \in {{"absent"}, {"disabled"}}
        /\ mcp' = {"disabled"} => \E n \in N : n.rule \in {"mcp-disabled", "component-invalid"}
                                              /\ n.origin = <<"mcp">>
        /\ "mcp" \notin edited /\ use => {m \in N : m.rule = "server-skipped"} = left
    BY <1>3, <1>10, <2>1 DEF GoodServers
  <2> HIDE DEF N, use, left
  <2> QED
    BY <1>9, <1>10, <2>1, <2>2
<1>11. ASSUME step' = "done", mcp' = {"disabled"}, NEW n \in {bad, off}, notes' = notes \cup {n},
              \/ step = "stat_mcp" /\ disk.mcp.kind \notin {"file", "nothing"}
              \/ step = "confine_mcp" /\ Confined(disk.mcp) # "inside"
              \/ step = "read_mcp" /\ ~(Readable(disk.mcp) /\ McpOK(disk.mcp.holds))
       PROVE  LoadInv'
  <2>1. "mcp" \notin edited => ~use /\ disk.mcp.kind # "nothing"
    BY <1>3, <1>11 DEF Usable, Readable, Confined
  <2>2. \/ mcp' = GoodServers(original)
        \/ "mcp" \in edited /\ mcp' \in {{"absent"}, {"disabled"}}
    BY <1>3, <1>11, <2>1 DEF GoodServers
  <2>3. /\ n = Note(n.rule, n.origin) /\ n.rule \in {"mcp-disabled", "component-invalid"}
        /\ n.origin = <<"mcp">>
    BY <1>1, <1>11
  <2> DEFINE N == {n}
  <2>4. /\ notes' = notes \cup N
        /\ \A m \in N : m = Note(m.rule, m.origin) /\ m.rule # "skill-skipped"
        /\ \E m \in N : m.rule \in {"mcp-disabled", "component-invalid"} /\ m.origin = <<"mcp">>
    BY <1>11, <2>3
  <2>5. "mcp" \notin edited /\ use => {m \in N : m.rule = "server-skipped"} = left
    BY <2>1
  <2> HIDE DEF N, use, left
  <2> QED
    BY <1>9, <1>11, <2>2, <2>4, <2>5
<1>12. CASE /\ step' = "done" /\ step = "read_mcp" /\ mcp' = taken /\ notes' = notes \cup left
            /\ Readable(disk.mcp) /\ McpOK(disk.mcp.holds)
  <2>1. mcp' = GoodServers(original)
    BY <1>3, <1>12 DEF GoodServers, Usable, Readable, Aged
  <2>2. mcp' # {"disabled"}
    BY <1>2, <1>12
  <2>3. {m \in left : m.rule = "server-skipped"} = left
    BY <1>1
  <2> HIDE DEF use, left, taken
  <2> QED
    BY <1>1, <1>9, <1>12, <2>1, <2>2, <2>3
<1>13. CASE /\ step' = "panicked" /\ step = "read_mcp" /\ UNCHANGED <<mcp, notes>>
            /\ Readable(disk.mcp) /\ McpPanics(disk.mcp.holds)
  <2>1. Usable(original.mcp) /\ McpPanics(original.mcp.holds)
    BY <1>3, <1>13 DEF Usable, Readable, Aged
  <2>2. McpSeen'
    BY <1>4, <1>13, <2>1 DEF McpSeen, Usable, Readable
  <2>3. McpNoted'
    BY <1>3, <1>13 DEF McpNoted
  <2> QED
    BY <1>2, <1>7, <1>13, <2>2, <2>3 DEF McpSteps
<1> QED
  BY <1>5, <1>8, <1>10, <1>11, <1>12, <1>13

\* A location that is changed.
LEMMA ChangedIs ==
  ASSUME NEW l, IsLocation(l), NEW m \in Changes(l)
  PROVE  IsLocation(m) /\ Aged(m, l)
BY DEF IsLocation, Changes, Kinds, Resolutions, Aged

LEMMA AgedSelf == \A l : Aged(l, l)
BY DEF Aged

\* A package that is changed in one part is a package, and all else in it is as it was.
LEMMA EditedPart ==
  ASSUME IsPackage(disk), NEW part \in {"manifest", "skills", "mcp"}, EditPart(part)
  PROVE  /\ IsPackage(disk') /\ edited' = {part}
         /\ disk'.root = disk.root /\ disk'.children = disk.children
         /\ Aged(disk'.manifest, disk.manifest)
         /\ Aged(disk'.skills, disk.skills) /\ Aged(disk'.mcp, disk.mcp)
         /\ part # "mcp" => disk'.mcp = disk.mcp
<1>1. PICK loc \in Changes(disk[part]) : disk' = [disk EXCEPT ![part] = loc] /\ edited' = {part}
  BY DEF EditPart
<1>2. /\ disk = [root |-> disk.root, manifest |-> disk.manifest, skills |-> disk.skills,
                 children |-> disk.children, mcp |-> disk.mcp]
      /\ IsLocation(disk.manifest) /\ IsLocation(disk.skills) /\ IsLocation(disk.mcp)
  BY DEF IsPackage
<1>3. IsLocation(disk[part])
  BY <1>2
<1>4. IsLocation(loc) /\ Aged(loc, disk[part])
  BY <1>3, ChangedIs
<1>5. /\ disk' = [root |-> disk'.root, manifest |-> disk'.manifest, skills |-> disk'.skills,
                  children |-> disk'.children, mcp |-> disk'.mcp]
      /\ disk'.root = disk.root /\ disk'.children = disk.children
      /\ IF part = "manifest" THEN disk'.manifest = loc ELSE disk'.manifest = disk.manifest
      /\ IF part = "skills" THEN disk'.skills = loc ELSE disk'.skills = disk.skills
      /\ IF part = "mcp" THEN disk'.mcp = loc ELSE disk'.mcp = disk.mcp
  BY <1>1, <1>2
<1>6. /\ IsLocation(disk'.manifest) /\ IsLocation(disk'.skills) /\ IsLocation(disk'.mcp)
      /\ Aged(disk'.manifest, disk.manifest)
      /\ Aged(disk'.skills, disk.skills) /\ Aged(disk'.mcp, disk.mcp)
  BY <1>2, <1>4, <1>5, AgedSelf
<1>7. IsPackage(disk')
  <2>1. disk'.mcp.holds = disk.mcp.holds
    BY <1>6 DEF Aged
  <2> QED
    BY <1>5, <1>6, <2>1 DEF IsPackage
<1> QED
  BY <1>1, <1>5, <1>6, <1>7

LEMMA EditedSkill ==
  ASSUME IsPackage(disk), NEW i \in DOMAIN disk.children, EditSkill(i)
  PROVE  /\ IsPackage(disk') /\ edited' = {"skills"}
         /\ disk'.root = disk.root /\ disk'.manifest = disk.manifest
         /\ disk'.skills = disk.skills /\ disk'.mcp = disk.mcp
         /\ DOMAIN disk'.children = DOMAIN disk.children
         /\ \A j \in DOMAIN disk.children :
              /\ disk'.children[j].name = disk.children[j].name
              /\ disk'.children[j].text = disk.children[j].text
              /\ disk'.children[j].kind = disk.children[j].kind
              /\ Aged(disk'.children[j].file, disk.children[j].file)
<1>1. PICK loc \in Changes(disk.children[i].file) :
        disk' = [disk EXCEPT !.children[i].file = loc] /\ edited' = {"skills"}
  BY DEF EditSkill
<1>2. /\ disk = [root |-> disk.root, manifest |-> disk.manifest, skills |-> disk.skills,
                 children |-> disk.children, mcp |-> disk.mcp]
      /\ Len(disk.children) \in Nat
      /\ disk.children = [k \in 1..Len(disk.children) |-> disk.children[k]]
      /\ \A k \in DOMAIN disk.children : IsChild(disk.children[k])
      /\ \A j, k \in DOMAIN disk.children : disk.children[j].name = disk.children[k].name => j = k
  BY DEF IsPackage
<1> DEFINE was == disk.children[i]
           now == [was EXCEPT !.file = loc]
<1>3. was = [name |-> was.name, text |-> was.text, kind |-> was.kind, file |-> was.file]
      /\ was.text \in BOOLEAN /\ was.kind \in Kinds /\ IsLocation(was.file)
  BY <1>2 DEF IsChild
<1>4. IsLocation(loc) /\ Aged(loc, was.file)
  BY <1>3, ChangedIs
<1>5. /\ now = [name |-> was.name, text |-> was.text, kind |-> was.kind, file |-> loc]
      /\ IsChild(now)
  BY <1>3, <1>4 DEF IsChild
<1>6. /\ disk'.children = [disk.children EXCEPT ![i] = now]
      /\ disk' = [root |-> disk.root, manifest |-> disk.manifest, skills |-> disk.skills,
                  children |-> disk'.children, mcp |-> disk.mcp]
  BY <1>1, <1>2
<1> HIDE DEF now, was
<1>7. /\ DOMAIN disk'.children = DOMAIN disk.children /\ Len(disk'.children) = Len(disk.children)
      /\ disk'.children[i] = now
      /\ \A j \in DOMAIN disk.children : j # i => disk'.children[j] = disk.children[j]
      /\ disk'.children = [k \in 1..Len(disk'.children) |-> disk'.children[k]]
  <2> DEFINE n == Len(disk.children)
             T == {disk.children[k] : k \in DOMAIN disk.children} \cup {now}
  <2>1. /\ disk'.children = [k \in 1..n |-> IF k = i THEN now ELSE disk.children[k]]
        /\ i \in 1..n /\ DOMAIN disk.children = 1..n /\ n \in Nat
    BY <1>2, <1>6
  <2>2. disk'.children \in Seq(T)
    BY <2>1
  <2>3. Len(disk'.children) = n
    BY <2>1, <2>2, LenProperties
  <2> HIDE DEF n, T
  <2> QED
    BY <2>1, <2>3 DEF n
<1>8. \A j \in DOMAIN disk.children :
        /\ disk'.children[j].name = disk.children[j].name
        /\ disk'.children[j].text = disk.children[j].text
        /\ disk'.children[j].kind = disk.children[j].kind
        /\ Aged(disk'.children[j].file, disk.children[j].file)
        /\ IsChild(disk'.children[j])
  <2> SUFFICES ASSUME NEW j \in DOMAIN disk.children
               PROVE  /\ disk'.children[j].name = disk.children[j].name
                      /\ disk'.children[j].text = disk.children[j].text
                      /\ disk'.children[j].kind = disk.children[j].kind
                      /\ Aged(disk'.children[j].file, disk.children[j].file)
                      /\ IsChild(disk'.children[j])
    OBVIOUS
  <2>1. CASE j = i
    BY <1>4, <1>5, <1>7, <2>1 DEF was
  <2>2. CASE j # i
    BY <1>2, <1>7, <2>2, AgedSelf
  <2> QED
    BY <2>1, <2>2
<1>9. /\ disk'.root = disk.root /\ disk'.manifest = disk.manifest
      /\ disk'.skills = disk.skills /\ disk'.mcp = disk.mcp
  BY <1>6
<1>10. IsPackage(disk')
  <2>1. disk' = [root |-> disk'.root, manifest |-> disk'.manifest, skills |-> disk'.skills,
                 children |-> disk'.children, mcp |-> disk'.mcp]
    BY <1>6, <1>9
  <2>2. Len(disk'.children) \in Nat
    BY <1>2, <1>7
  <2>3. \A j, k \in DOMAIN disk'.children : disk'.children[j].name = disk'.children[k].name => j = k
    BY <1>2, <1>7, <1>8
  <2> QED
    BY <1>7, <1>8, <1>9, <2>1, <2>2, <2>3 DEF IsPackage
<1> QED
  BY <1>1, <1>7, <1>8, <1>9, <1>10

\* What was done before an edit stays done, and what was left alone is as it was.
LEMMA EditStep ==
  ASSUME LoadInv, Edit
  PROVE  LoadInv'
<1>1. /\ edited = {} /\ step \notin {"rejected", "done", "panicked"}
      /\ UNCHANGED <<original, step, unseen, found, at, skills, mcp, notes>>
  BY DEF Edit
<1>2. /\ IsPackage(disk) /\ step \in BeforeList \cup {"list_skills", "rejected"} \cup SkillSteps \cup McpSteps
      /\ \A n \in notes : n = Note(n.rule, n.origin)
      /\ unseen \subseteq DOMAIN disk.children
  BY SMTT(40) DEF LoadInv, LoadTypes
<1>3. /\ IsPackage(disk') /\ edited' \in {{"manifest"}, {"skills"}, {"mcp"}}
      /\ disk'.root = disk.root
      /\ Aged(disk'.manifest, disk.manifest)
      /\ Aged(disk'.skills, disk.skills) /\ Aged(disk'.mcp, disk.mcp)
      /\ "mcp" \notin edited' => disk'.mcp = disk.mcp
      /\ DOMAIN disk'.children = DOMAIN disk.children
      /\ \A j \in DOMAIN disk.children :
           /\ disk'.children[j].name = disk.children[j].name
           /\ disk'.children[j].text = disk.children[j].text
           /\ disk'.children[j].kind = disk.children[j].kind
           /\ Aged(disk'.children[j].file, disk.children[j].file)
  <2>1. ASSUME NEW part \in {"manifest", "skills", "mcp"}, EditPart(part) PROVE <1>3!:
    <3>1. /\ IsPackage(disk') /\ edited' = {part}
          /\ disk'.root = disk.root /\ disk'.children = disk.children
          /\ Aged(disk'.manifest, disk.manifest)
          /\ Aged(disk'.skills, disk.skills) /\ Aged(disk'.mcp, disk.mcp)
          /\ part # "mcp" => disk'.mcp = disk.mcp
      BY <1>2, <2>1, EditedPart
    <3> QED
      BY <3>1, AgedSelf
  <2>2. ASSUME NEW i \in DOMAIN disk.children, EditSkill(i) PROVE <1>3!:
    <3>1. /\ IsPackage(disk') /\ edited' = {"skills"}
          /\ disk'.root = disk.root /\ disk'.manifest = disk.manifest
          /\ disk'.skills = disk.skills /\ disk'.mcp = disk.mcp
          /\ DOMAIN disk'.children = DOMAIN disk.children
          /\ \A j \in DOMAIN disk.children :
               /\ disk'.children[j].name = disk.children[j].name
               /\ disk'.children[j].text = disk.children[j].text
               /\ disk'.children[j].kind = disk.children[j].kind
               /\ Aged(disk'.children[j].file, disk.children[j].file)
      BY <1>2, <2>2, EditedSkill
    <3> QED
      BY <3>1, AgedSelf
  <2> QED
    BY <2>1, <2>2 DEF Edit
<1>4. \A j \in DOMAIN disk.children : Sound(j)' = Sound(j) /\ NameOf(j)' = NameOf(j)
  BY <1>3 DEF Sound, NameOf
<1>5. LoadTypes'
  <2>1. unseen' \subseteq DOMAIN disk'.children
    BY <1>1, <1>2, <1>3
  <2>2. \A n \in notes' : n = Note(n.rule, n.origin)
    BY <1>1, <1>2
  <2>3. step' \in BeforeList \cup {"list_skills", "rejected"} \cup SkillSteps \cup McpSteps
    BY <1>1, <1>2
  <2> QED
    BY <1>3, <2>1, <2>2, <2>3 DEF LoadTypes
<1>6. found \in Seq(DOMAIN disk.children)
  BY DEF LoadInv, Listing
<1>7. \A k \in DOMAIN found : found[k] \in DOMAIN disk.children
  BY <1>6
<1>8. Listing'
  <2>1. /\ at \in Nat \ {0}
        /\ \A k \in DOMAIN found : found[k] \notin unseen /\ Sound(found[k])
        /\ \A j, k \in DOMAIN found : j < k => found[j] < found[k]
        /\ step \in BeforeList => found = <<>>
        /\ step \in BeforeList \cup {"list_skills"} => at = 1 /\ skills = <<>>
        /\ step \in {"confine_skill", "read_skill", "parse_body"} => at <= Len(found)
        /\ step \in McpSteps => at > Len(found)
    BY DEF LoadInv, Listing
  <2>2. \A k \in DOMAIN found' : Sound(found[k])'
    BY <1>1, <1>4, <1>7, <2>1
  <2> QED
    BY <1>1, <1>3, <1>6, <2>1, <2>2 DEF Listing
<1>9. Choosing'
  <2>1. /\ skills \in Seq(DOMAIN disk.children)
        /\ \A j \in DOMAIN skills : \E k \in DOMAIN found : k < at /\ skills[j] = found[k]
        /\ \A j, k \in DOMAIN skills : j < k => skills[j] < skills[k]
        /\ \A n \in notes : n.rule = "skill-skipped" =>
             \E k \in DOMAIN found : k < at /\ found[k] \notin Took /\ n.origin = NameOf(found[k])
        /\ \A k \in DOMAIN found : k < at =>
             \/ found[k] \in Took \cup Skipped
             \/ SkillFile(disk.children[found[k]]).kind # "file"
    BY DEF LoadInv, Choosing
  <2>2. Took' = Took /\ Skipped' = Skipped
    BY <1>1, <1>3 DEF Took, Skipped
  <2>3. \A j \in DOMAIN disk.children :
          SkillFile(disk.children[j]).kind # "file" => SkillFile(disk.children[j])'.kind # "file"
    <3> SUFFICES ASSUME NEW j \in DOMAIN disk.children, SkillFile(disk.children[j]).kind # "file"
                 PROVE  SkillFile(disk.children[j])'.kind # "file"
      OBVIOUS
    <3>1. \A c : IsChild(c) => (SkillFile(c).kind = "file" <=>
                                  disk.skills.kind = "directory" /\ c.kind = "directory"
                                  /\ c.file.kind = "file")
      BY DEF SkillFile, IsChild, IsLocation
    <3>2. \A c : IsChild(c) => (SkillFile(c)'.kind = "file" =>
                                  disk'.skills.kind = "directory" /\ c'.kind = "directory"
                                  /\ c'.file.kind = "file")
      BY DEF SkillFile, IsChild, IsLocation
    <3> QED
      BY SMTT(40), <1>2, <1>3, <3>1, <3>2 DEF IsPackage, Aged
  <2>4. \A n \in notes : n.rule = "skill-skipped" =>
          \E k \in DOMAIN found : k < at /\ found[k] \notin Took' /\ n.origin = NameOf(found[k])'
    BY <1>1, <1>4, <1>7, <2>1, <2>2
  <2>5. \A k \in DOMAIN found : k < at =>
          \/ found[k] \in Took' \cup Skipped'
          \/ SkillFile(disk.children[found[k]])'.kind # "file"
    BY <1>1, <1>7, <2>1, <2>2, <2>3
  <2> QED
    BY <1>1, <1>3, <2>1, <2>4, <2>5 DEF Choosing
<1>10. Since'
  <2>1. disk = original
    BY <1>1 DEF LoadInv, Since
  <2> QED
    BY <1>1, <1>3, <2>1 DEF Since
<1>11. ManifestSeen' /\ McpSeen' /\ McpNoted'
  <2>1. Presentable(original)' = Presentable(original)
    BY <1>1 DEF Presentable, Usable, Readable
  <2> QED
    BY <1>1, <1>3, <2>1 DEF LoadInv, ManifestSeen, McpSeen, McpNoted
<1>12. SkillsSeen'
  <2>1. GoodSkills(disk)' \subseteq GoodSkills(disk)
    <3>1. disk = original
      BY <1>1 DEF LoadInv, Since
    <3>2. GoodSkills(disk)' \subseteq GoodSkills(original)'
      BY <1>10 DEF Since, Aged, GoodSkills, Usable, Readable, SkillMdOK
    <3>3. GoodSkills(original)' = GoodSkills(original)
      BY <1>1 DEF GoodSkills, Usable, Readable
    <3> QED
      BY <3>1, <3>2, <3>3
  <2>2. /\ GoodSkills(original)' = GoodSkills(original) /\ Took' = Took /\ Broken1' = Broken1
        /\ Before' = Before /\ \A i : Listed(i)' = Listed(i)
    BY <1>1 DEF GoodSkills, Usable, Readable, Took, Broken1, Before, Listed
  <2>3. SkillsSeen
    BY DEF LoadInv
  <2> QED
    BY <1>1, <2>1, <2>2, <2>3 DEF SkillsSeen
<1> QED
  BY <1>5, <1>8, <1>9, <1>10, <1>11, <1>12 DEF LoadInv

\* What the disk is at first is a package, and nothing was done with it yet.
LEMMA LoadStarts ==
  ASSUME PackageInit
  PROVE  LoadInv
<1>1. /\ IsPackage(disk) /\ original = disk /\ edited = {} /\ step = "root" /\ unseen = {} /\ found = <<>> /\ at = 1
      /\ skills = <<>> /\ notes = {}
  BY PackageAssumption DEF PackageInit
<1>2. /\ found \in Seq(DOMAIN disk.children) /\ skills \in Seq(DOMAIN disk.children)
      /\ DOMAIN found = {} /\ DOMAIN skills = {}
  BY <1>1, EmptySeq
<1>3. LoadTypes
  BY <1>1 DEF LoadTypes, BeforeList, ManifestSteps
<1>4. Listing /\ Choosing
  BY <1>1, <1>2 DEF Listing, Choosing, McpSteps
<1>5. ManifestSeen /\ SkillsSeen /\ McpSeen /\ McpNoted
  BY <1>1 DEF ManifestSeen, SkillsSeen, McpSeen, McpNoted, ManifestSteps, SkillSteps, McpSteps
<1>6. Since
  BY <1>1, AgedSelf DEF Since
<1> QED
  BY <1>3, <1>4, <1>5, <1>6 DEF LoadInv

LEMMA LoadStep ==
  ASSUME LoadInv, [PackageNext]_packageVars
  PROVE  LoadInv'
<1>1. CASE OpenRoot \/ StatManifest \/ ConfineManifest \/ ReadManifest
  BY <1>1, ManifestStep
<1>2. CASE StatSkills \/ ConfineSkills \/ OpenSkills \/ EndOfList \/ ListFails
  BY <1>2, SkillsStep
<1>3. ASSUME NEW i \in unseen, NextEntry(i) PROVE LoadInv'
  BY <1>3, EntryStep
<1>4. CASE StatSkill \/ ConfineSkill \/ ReadSkill
  BY <1>4, SkillStep
<1>5. CASE ParseBody \/ TakeSkill
  BY <1>5, BodyStep
<1>6. CASE NoMoreSkills
  BY <1>6, NoMoreSkillsStep
<1>7. CASE StatMcp \/ ConfineMcp \/ ReadMcp
  BY <1>7, McpStep
<1>8. CASE Edit
  BY <1>8, EditStep
<1>9. CASE UNCHANGED packageVars
  BY <1>9, Stutters DEF packageVars
<1> QED
  BY <1>1, <1>2, <1>3, <1>4, <1>5, <1>6, <1>7, <1>8, <1>9 DEF PackageNext, Answered

LEMMA PackageInvariant == PackageSpec => []LoadInv
<1>1. PackageInit => LoadInv
  BY LoadStarts
<1>2. LoadInv /\ [PackageNext]_packageVars => LoadInv'
  BY LoadStep
<1> QED
  BY <1>1, <1>2, PTL DEF PackageSpec

\* Whatever the packages hold and whichever part of one is broken, at first or while it is
\* loaded: a package is rejected only for its root and its manifest, every skill that is good
\* to the end and none that was not at first is taken, and the servers are those of mcp.json as
\* it was unless it was changed.  Nothing is returned only where a url is cut inside a character
\* (plugin/mod.rs: load, load_skills, load_mcp; mcp/mod.rs: strip_scheme).
THEOREM FaultsAreLocal == PackageSpec => []FaultsStayLocal
<1>1. LoadInv => FaultsStayLocal
  BY DEF LoadInv, ManifestSeen, SkillsSeen, McpSeen, FaultsStayLocal, ManifestSteps, McpSteps, Broken1
<1> QED
  BY <1>1, PackageInvariant, PTL

\* Whatever the packages hold, every directory that was listed is taken or noted and never
\* both unless it has no SKILL.md, and servers that are not taken are noted (plugin/mod.rs:
\* load_skills, skip; mcp/mod.rs: load_mcp).
THEOREM NothingIsSilent == PackageSpec => []NothingSilent
<1>1. LoadInv => NothingSilent
  <2> SUFFICES ASSUME LoadInv, step = "done" PROVE NothingSilent
    BY DEF NothingSilent
  <2>1. /\ IsPackage(disk) /\ found \in Seq(DOMAIN disk.children) /\ at \in Nat \ {0}
        /\ skills \in Seq(DOMAIN disk.children) /\ at > Len(found)
    BY DEF LoadInv, LoadTypes, Listing, Choosing, McpSteps
  <2>2. Took \cap Skipped = {}
    <3> SUFFICES ASSUME NEW i \in Took, i \in Skipped PROVE FALSE
      OBVIOUS
    <3>1. /\ i \in DOMAIN disk.children
          /\ Note("skill-skipped", NameOf(i)) \in notes
      BY DEF Skipped, NameOf
    <3>2. PICK k \in DOMAIN found : found[k] \notin Took /\ NameOf(i) = NameOf(found[k])
      BY <3>1, NoteRules DEF LoadInv, Choosing
    <3>3. found[k] \in DOMAIN disk.children
      BY <2>1
    <3> QED
      BY <2>1, <3>1, <3>2, <3>3 DEF NameOf, IsPackage
  <2>3. \A k \in DOMAIN found : \/ found[k] \in Took \cup Skipped
                                \/ SkillFile(disk.children[found[k]]).kind # "file"
    <3>1. \A k \in DOMAIN found : k < at
      BY <2>1, LenProperties
    <3> QED
      BY <3>1 DEF LoadInv, Choosing
  <2>4. \A j, k \in DOMAIN skills : j < k => skills[j] < skills[k]
    BY DEF LoadInv, Choosing
  <2>5. mcp = {"disabled"} => \E n \in notes : n.rule \in {"mcp-disabled", "component-invalid"}
                                               /\ n.origin = <<"mcp">>
    BY DEF LoadInv, McpNoted
  <2>6. ASSUME "mcp" \notin edited, Usable(disk.mcp), McpOK(disk.mcp.holds)
        PROVE  Declared(disk.mcp.holds) =
                 mcp \cup {n.origin[2] : n \in {m \in notes : m.rule = "server-skipped"}}
    <3> DEFINE doc == disk.mcp.holds
               left == {m \in notes : m.rule = "server-skipped"}
    <3>1. mcp = Servers(doc) /\ left = McpNotes(doc)
      BY <2>6 DEF LoadInv, Since, McpSeen, McpNoted, GoodServers, Usable, Readable
    <3>2. {n.origin[2] : n \in McpNotes(doc)} = Declared(doc) \ Servers(doc)
      <4> DEFINE drop == Declared(doc) \ Servers(doc)
                 note(n) == Note("server-skipped", <<"server", n>>)
      <4>1. \A n : note(n).origin[2] = n
        BY DEF Note
      <4>2. McpNotes(doc) = {note(n) : n \in drop}
        BY DEF McpNotes
      <4> HIDE DEF note, drop
      <4> QED
        BY <4>1, <4>2 DEF drop
    <3>3. Servers(doc) \subseteq Declared(doc)
      BY DEF Servers
    <3> HIDE DEF doc, left
    <3> QED
      BY <3>1, <3>2, <3>3 DEF doc, left
  <2> QED
    BY <2>2, <2>3, <2>4, <2>5, <2>6 DEF NothingSilent
<1> QED
  BY <1>1, PackageInvariant, PTL

\* The body of every skill of a package is parsed as a body of its own: every step of the
\* loader is one of the parser or leaves its state alone.
THEOREM PackagesParseBodies == PackageSpec => Spec
<1>1. PackageInit => Init
  BY DEF PackageInit
<1>2. ASSUME [PackageNext]_packageVars PROVE [Next]_docVars
  <2>1. CASE ParseBody
    BY <2>1 DEF ParseBody, Next
  <2>2. CASE TakeSkill
    BY <2>2 DEF TakeSkill, Next
  <2>3. CASE OpenRoot \/ StatManifest \/ ConfineManifest \/ ReadManifest
    BY <2>3 DEF OpenRoot, StatManifest, ConfineManifest, ReadManifest, NoDoc
  <2>4. CASE StatSkills \/ ConfineSkills \/ OpenSkills \/ EndOfList \/ ListFails \/ NoMoreSkills
    BY <2>4 DEF StatSkills, ConfineSkills, OpenSkills, EndOfList, ListFails, NoMoreSkills, NoDoc
  <2>5. ASSUME NEW i \in unseen, NextEntry(i) PROVE UNCHANGED docVars
    BY <2>5 DEF NextEntry, NoDoc
  <2>6. CASE StatSkill \/ ConfineSkill \/ ReadSkill
    BY <2>6 DEF StatSkill, ConfineSkill, ReadSkill, NoDoc
  <2>7. CASE StatMcp \/ ConfineMcp \/ ReadMcp
    BY <2>7 DEF StatMcp, ConfineMcp, ReadMcp, NoDoc
  <2>8. CASE Edit \/ UNCHANGED packageVars
    BY <2>8 DEF Edit, packageVars
  <2> QED
    BY <1>2, <2>1, <2>2, <2>3, <2>4, <2>5, <2>6, <2>7, <2>8 DEF PackageNext, Answered
<1> QED
  BY <1>1, <1>2, PTL DEF PackageSpec, Spec

\* In a package too the slugs of a body name its sections, whatever was parsed before it
\* (plugin/mod.rs: load_skill; markdown.rs: parse).
THEOREM SlugsOfPackages == PackageSpec => []SlugsName
  BY PackagesParseBodies, SlugsAreUnique

\* In a package too the sections of a body are the whole body (plugin/mod.rs: load_skill).
THEOREM SectionsOfPackages == PackageSpec => []SectionsTile
  BY PackagesParseBodies, SectionsAreWhole

\* In a package too fenced code has no headings and no links (plugin/mod.rs: load_skill).
THEOREM LinksOfPackages == PackageSpec => []FencedIsInert
  BY PackagesParseBodies, LinksAreOutsideFences

-----------------------------------------------------------------------------
(* Paths that a server is configured with                                  *)

\* How many of the first i tokens have a property.
LEMMA CountStep ==
  ASSUME NEW P, NEW i \in Nat \ {0}
  PROVE  LET n == Cardinality({j \in 1..(i - 1) : P[j]})
         IN /\ n \in Nat
            /\ Cardinality({j \in 1..i : P[j]}) = IF P[i] THEN n + 1 ELSE n
<1> DEFINE A == {j \in 1..(i - 1) : P[j]}
           B == {j \in 1..i : P[j]}
<1>1. IsFiniteSet(1..(i - 1))
  BY FS_Interval
<1>2. IsFiniteSet(A)
  BY <1>1, FS_Subset
<1>3. Cardinality(A) \in Nat
  BY <1>2, FS_CardinalityType
<1>4. i \notin A
  OBVIOUS
<1>5. P[i] => B = A \cup {i}
  OBVIOUS
<1>6. ~P[i] => B = A
  OBVIOUS
<1> HIDE DEF A, B
<1>7. Cardinality(A \cup {i}) = Cardinality(A) + 1
  BY <1>2, <1>4, FS_AddElement
<1> QED
  BY <1>3, <1>5, <1>6, <1>7 DEF A, B

\* Every segment goes one up, one down, or nowhere.
LEMMA DepthAtRoot ==
  ASSUME NEW s
  PROVE  Depth(s, 0) = 0
<1> DEFINE D == {j \in 1..0 : IsDown(s, j)}
           U == {j \in 1..0 : IsUp(s, j)}
<1>1. D = {} /\ U = {}
  OBVIOUS
<1>2. Depth(s, 0) = Cardinality(D) - Cardinality(U)
  BY DEF Depth
<1> HIDE DEF D, U
<1> QED
  BY <1>1, <1>2, FS_EmptySet

LEMMA DepthStep ==
  ASSUME NEW s, NEW i \in Nat \ {0}
  PROVE  /\ Depth(s, i - 1) \in Int
         /\ Depth(s, i) = Depth(s, i - 1) + (IF IsDown(s, i) THEN 1 ELSE IF IsUp(s, i) THEN -1 ELSE 0)
<1> DEFINE down == [j \in Nat |-> IsDown(s, j)]
           up == [j \in Nat |-> IsUp(s, j)]
           D(k) == {j \in 1..k : down[j]}
           U(k) == {j \in 1..k : up[j]}
<1>1. \A k \in Nat : /\ {j \in 1..k : IsDown(s, j)} = D(k)
                     /\ {j \in 1..k : IsUp(s, j)} = U(k)
  OBVIOUS
<1>2. ASSUME NEW k \in Nat PROVE Depth(s, k) = Cardinality(D(k)) - Cardinality(U(k))
  BY <1>1 DEF Depth
<1>3. /\ Cardinality(D(i - 1)) \in Nat
      /\ Cardinality(D(i)) = IF down[i] THEN Cardinality(D(i - 1)) + 1 ELSE Cardinality(D(i - 1))
  <2> HIDE DEF down
  <2> QED
    BY CountStep
<1>4. /\ Cardinality(U(i - 1)) \in Nat
      /\ Cardinality(U(i)) = IF up[i] THEN Cardinality(U(i - 1)) + 1 ELSE Cardinality(U(i - 1))
  <2> HIDE DEF up
  <2> QED
    BY CountStep
<1>5. (down[i] <=> IsDown(s, i)) /\ (up[i] <=> IsUp(s, i)) /\ ~(IsDown(s, i) /\ IsUp(s, i))
  BY DEF IsDown
<1>6. i - 1 \in Nat /\ i \in Nat
  OBVIOUS
<1> HIDE DEF D, U, down, up
<1> QED
  BY <1>2, <1>3, <1>4, <1>5, <1>6

\* What RelativePath::resolve makes of a path, segment by segment.
Walk(way, root, rest) ==
  [i \in 0..Len(rest) |->
     IF i = 0 THEN root
     ELSE IF IsUp(rest, i) THEN SubSeq(way[i - 1], 1, Len(way[i - 1]) - 1)
     ELSE IF IsDown(rest, i) THEN Append(way[i - 1], rest[i])
     ELSE way[i - 1]]

LEMMA ResolvedWalks ==
  ASSUME NEW T, NEW root \in Seq(T), NEW s, AfterDotSlash(s) \in Seq(T)
  PROVE  \E way : /\ way = Walk(way, root, AfterDotSlash(s))
                 /\ Resolved(root, s) = way[Len(AfterDotSlash(s))]
<1> DEFINE rest == AfterDotSlash(s)
           n == Len(rest)
           step1(i) == [x \in Seq(T) |-> IF IsUp(rest, i) THEN SubSeq(x, 1, Len(x) - 1)
                                        ELSE IF IsDown(rest, i) THEN Append(x, rest[i]) ELSE x]
           G == [i \in 1..n |-> step1(i)]
<1>1. n \in Nat /\ \A i \in 1..n : rest[i] \in T
  BY LenProperties
<1>2. ASSUME NEW i \in 1..n, NEW x \in Seq(T)
      PROVE  /\ SubSeq(x, 1, Len(x) - 1) \in Seq(T)
             /\ Append(x, rest[i]) \in Seq(T)
  <2>1. Len(x) \in Nat /\ \A k \in 1..Len(x) : x[k] \in T
    BY <1>2, LenProperties
  <2>2. \A k \in 1..(Len(x) - 1) : x[k] \in T
    BY <2>1
  <2>3. SubSeq(x, 1, Len(x) - 1) \in Seq(T)
    BY <2>1, <2>2, SubSeqProperties
  <2>4. Append(x, rest[i]) \in Seq(T)
    BY <1>1, AppendProperties
  <2> QED
    BY <2>3, <2>4
<1>3. \A i \in 1..n : step1(i) \in [Seq(T) -> Seq(T)]
  <2> HIDE DEF rest, n
  <2> QED
    BY <1>2
<1>4. G \in [1..n -> [Seq(T) -> Seq(T)]]
  BY <1>3
<1>5. PICK f : Stepwise(f, n, Seq(T), root, G)
  <2> HIDE DEF G, n
  <2> QED
    BY <1>1, <1>4, StepwiseFunction
<1>6. f \in [0..n -> Seq(T)] /\ f[0] = root /\ \A i \in 1..n : f[i] = G[i][f[i - 1]]
  BY <1>5 DEF Stepwise
<1>7. ASSUME NEW i \in 1..n
      PROVE  f[i] = IF IsUp(rest, i) THEN SubSeq(f[i - 1], 1, Len(f[i - 1]) - 1)
                    ELSE IF IsDown(rest, i) THEN Append(f[i - 1], rest[i]) ELSE f[i - 1]
  <2>1. G[i] = step1(i)
    <3> HIDE DEF step1, n
    <3> QED
      OBVIOUS
  <2>2. f[i] = G[i][f[i - 1]] /\ f[i - 1] \in Seq(T)
    <3> HIDE DEF G, n
    <3> QED
      BY <1>1, <1>6
  <2>3. f[i] = step1(i)[f[i - 1]]
    <3> HIDE DEF G, step1, n
    <3> QED
      BY <2>1, <2>2
  <2> HIDE DEF rest
  <2> QED
    BY <2>2, <2>3
<1>8. f = Walk(f, root, rest)
  <2> HIDE DEF rest, G
  <2>1. f = [i \in 0..n |-> f[i]]
    BY <1>6
  <2>2. \A i \in 0..n : i = 0 \/ i \in 1..n
    BY <1>1
  <2> QED
    BY <1>6, <1>7, <2>1, <2>2 DEF Walk
<1> DEFINE way == CHOOSE g : g = Walk(g, root, rest)
<1>9. way = Walk(way, root, rest)
  <2> HIDE DEF rest
  <2> QED
    BY <1>8
<1>10. Resolved(root, s) = way[n]
  BY DEF Resolved, Walk
<1> QED
  <2> HIDE DEF way
  <2> QED
    BY <1>9, <1>10

\* The check on the text of a path keeps every place it leads through below the root.
LEMMA ContainedStays ==
  ASSUME NEW T, {"above", "root"} \subseteq T, NEW s, AfterDotSlash(s) \in Seq(T),
         LexicallyContained(AfterDotSlash(s))
  PROVE  Within(s)
<1> DEFINE rest == AfterDotSlash(s)
           n == Len(rest)
           BelowRoot(x) == x \in Seq(T) /\ Len(x) >= 2 /\ x[1] = "above" /\ x[2] = "root"
<1>1. n \in Nat /\ DOMAIN rest = 1..n /\ \A i \in 1..n : rest[i] \in T /\ Depth(rest, i) >= 0
  BY LenProperties DEF LexicallyContained
<1>2. Root \in Seq(T) /\ Len(Root) = 2 /\ Root[1] = "above" /\ Root[2] = "root"
  BY DEF Root
<1>3. PICK way : way = Walk(way, Root, rest) /\ Resolved(Root, s) = way[n]
  BY <1>2, ResolvedWalks
<1> HIDE DEF rest
<1> DEFINE Good == {i \in 0..n : BelowRoot(way[i]) /\ Len(way[i]) = 2 + Depth(rest, i)}
<1>4. 0 \in Good
  <2>1. way[0] = Root
    BY <1>1, <1>3 DEF Walk
  <2>2. Depth(rest, 0) = 0
    BY DepthAtRoot
  <2>3. BelowRoot(way[0])
    <3>1. BelowRoot(Root)
      BY <1>2
    <3> HIDE DEF BelowRoot
    <3> QED
      BY <2>1, <3>1, Zenon
  <2>4. Len(way[0]) = 2 + Depth(rest, 0) /\ 0 \in 0..n
    BY <1>1, <1>2, <2>1, <2>2
  <2> QED
    BY <2>3, <2>4
<1>5. ASSUME NEW i \in 1..n, i - 1 \in Good PROVE i \in Good
  <2> DEFINE x == way[i - 1]
             y == way[i]
             d == Depth(rest, i - 1)
  <2>1. BelowRoot(x) /\ Len(x) = 2 + d /\ d \in Int /\ i \in 0..n
    BY <1>1, <1>5, DepthStep
  <2>2. y = IF IsUp(rest, i) THEN SubSeq(x, 1, Len(x) - 1)
            ELSE IF IsDown(rest, i) THEN Append(x, rest[i]) ELSE x
    <3>1. way = Walk(way, Root, rest) /\ i \in 0..Len(rest) /\ i # 0
      BY <1>1, <1>3, <1>5
    <3>2. Walk(way, Root, rest)[i] =
            IF IsUp(rest, i) THEN SubSeq(way[i - 1], 1, Len(way[i - 1]) - 1)
            ELSE IF IsDown(rest, i) THEN Append(way[i - 1], rest[i]) ELSE way[i - 1]
      BY <3>1 DEF Walk
    <3> QED
      BY <3>1, <3>2
  <2>3. Depth(rest, i) = d + (IF IsDown(rest, i) THEN 1 ELSE IF IsUp(rest, i) THEN -1 ELSE 0)
    BY <1>1, DepthStep
  <2>4. Depth(rest, i) >= 0 /\ rest[i] \in T
    BY <1>1
  <2>5. ~(IsUp(rest, i) /\ IsDown(rest, i))
    BY DEF IsDown
  <2>6. /\ x \in Seq(T) /\ Len(x) \in Nat /\ Len(x) >= 2 /\ x[1] = "above" /\ x[2] = "root"
        /\ \A k \in 1..Len(x) : x[k] \in T
    BY <2>1, LenProperties
  <2> HIDE DEF x, y, d
  <2>7. CASE IsUp(rest, i)
    <3>1. y = SubSeq(x, 1, Len(x) - 1) /\ Len(x) - 1 >= 2 /\ Depth(rest, i) = d - 1
      BY <2>1, <2>2, <2>3, <2>4, <2>5, <2>7
    <3>2. \A k \in 1..(Len(x) - 1) : x[k] \in T
      BY <2>6
    <3>3. /\ y \in Seq(T) /\ Len(y) = Len(x) - 1
          /\ \A k \in 1..(Len(x) - 1) : y[k] = x[k]
      <4>1. Len(x) - 1 \in Int /\ 1 \in Int
        BY <2>6
      <4>2. /\ y \in Seq(T) /\ Len(y) = IF 1 <= Len(x) - 1 THEN Len(x) - 1 - 1 + 1 ELSE 0
            /\ \A k \in 1..(Len(x) - 1 - 1 + 1) : y[k] = x[1 + k - 1]
        BY <3>1, <3>2, <4>1, SubSeqProperties
      <4> QED
        BY <2>6, <3>1, <4>2
    <3> QED
      BY SMTT(40), <2>1, <2>6, <3>1, <3>3 DEF y
  <2>8. CASE IsDown(rest, i)
    <3>1. y = Append(x, rest[i]) /\ Depth(rest, i) = d + 1
      BY <2>1, <2>2, <2>3, <2>5, <2>8
    <3>2. y \in Seq(T) /\ Len(y) = Len(x) + 1 /\ \A k \in 1..Len(x) : y[k] = x[k]
      BY <2>4, <2>6, <3>1, AppendProperties
    <3>3. Len(y) = 2 + Depth(rest, i) /\ Len(y) >= 2 /\ y[1] = "above" /\ y[2] = "root"
      BY <2>1, <2>6, <3>1, <3>2
    <3> QED
      BY <2>1, <3>2, <3>3 DEF y
  <2>9. CASE ~IsUp(rest, i) /\ ~IsDown(rest, i)
    BY <2>1, <2>2, <2>3, <2>6, <2>9 DEF y
  <2> QED
    BY <2>7, <2>8, <2>9
<1>6. n \in Good
  <2> HIDE DEF Good, n
  <2>1. 0..n \subseteq Good
    BY <1>1, <1>4, <1>5, Climb
  <2>2. n \in 0..n
    BY <1>1
  <2> QED
    BY <2>1, <2>2
<1> DEFINE x == Resolved(Root, s)
           t == SubSeq(x, 1, 2)
<1>7. x \in Seq(T) /\ Len(x) >= 2 /\ x[1] = "above" /\ x[2] = "root"
  BY <1>3, <1>6
<1> HIDE DEF x
<1>8. t \in Seq(T) /\ Len(t) = 2 /\ t[1] = "above" /\ t[2] = "root"
  <2>1. \A k \in 1..2 : x[k] \in T
    BY <1>7, LenProperties
  <2>2. /\ t \in Seq(T) /\ Len(t) = IF 1 <= 2 THEN 2 - 1 + 1 ELSE 0
        /\ \A k \in 1..(2 - 1 + 1) : t[k] = x[1 + k - 1]
    BY <2>1, SubSeqProperties
  <2> QED
    BY <1>7, <2>2
<1>9. t = Root
  <2> HIDE DEF t
  <2>1. DOMAIN t = 1..2 /\ DOMAIN Root = 1..2
    BY <1>2, <1>8, LenProperties
  <2>2. \A k \in 1..2 : t[k] = Root[k]
    BY <1>2, <1>8
  <2> QED
    BY <1>2, <1>8, <2>1, <2>2, SeqEqual
<1> QED
  BY <1>2, <1>9 DEF Within, x

\* What is after the first two tokens of a path.
LEMMA RestOf ==
  ASSUME NEW s, IsPath(s)
  PROVE  \E T : /\ {"above", "root", ".", "/"} \subseteq T
                /\ SubSeq(s, 3, Len(s)) \in Seq(T)
                /\ Len(s) <= 2 => SubSeq(s, 3, Len(s)) = <<>>
<1> DEFINE T == {"above", "root", ".", "/"} \cup {s[i] : i \in DOMAIN s}
<1>1. Len(s) \in Nat /\ DOMAIN s = 1..Len(s)
  BY DEF IsPath
<1>2. \A i \in 3..Len(s) : s[i] \in T
  BY <1>1
<1>3. SubSeq(s, 3, Len(s)) \in Seq(T)
  <2> HIDE DEF T
  <2> QED
    BY <1>1, <1>2, SubSeqProperties
<1>4. Len(s) <= 2 => SubSeq(s, 3, Len(s)) = <<>>
  BY <1>1, SubSeqEmpty
<1> QED
  BY <1>3, <1>4

\* A relative path, and what comes after a placeholder.
LEMMA PathStays ==
  ASSUME NEW s, IsPath(s)
  PROVE  /\ RelativePathOK(s) => Within(s)
         /\ CwdOK(s) /\ Anchored(s) # {} => Within(<<".", "/">> \o SubSeq(s, 3, Len(s)))
<1> DEFINE r == SubSeq(s, 3, Len(s))
           q == <<".", "/">> \o r
<1>1. PICK T : {"above", "root", ".", "/"} \subseteq T /\ r \in Seq(T) /\ (Len(s) <= 2 => r = <<>>)
  BY RestOf
<1>2. AfterDotSlash(s) = r
  BY DEF AfterDotSlash
<1>3. ASSUME RelativePathOK(s) PROVE Within(s)
  BY <1>1, <1>2, <1>3, ContainedStays DEF RelativePathOK
<1>4. ASSUME CwdOK(s), Anchored(s) # {} PROVE Within(q)
  <2>1. Len(s) > 1 => LexicallyContained(r)
    BY <1>4 DEF CwdOK
  <2>2. Len(s) \in Nat
    BY DEF IsPath
  <2>3. LexicallyContained(r)
    <3>1. CASE Len(s) > 1
      BY <2>1, <3>1
    <3>2. CASE ~(Len(s) > 1)
      <4>1. DOMAIN r = {}
        BY <1>1, <2>2, <3>2
      <4> HIDE DEF r
      <4> QED
        BY <4>1 DEF LexicallyContained
    <3> QED
      BY <3>1, <3>2
  <2>4. AfterDotSlash(q) = r
    <3> HIDE DEF r
    <3>1. <<".", "/">> \in Seq(T) /\ Len(<<".", "/">>) = 2
      BY <1>1
    <3>2. /\ q \in Seq(T) /\ Len(q) = 2 + Len(r) /\ Len(r) \in Nat
          /\ \A i \in 1..Len(r) : q[2 + i] = r[i]
      <4>1. /\ q \in Seq(T) /\ Len(q) = Len(<<".", "/">>) + Len(r)
            /\ \A i \in 1..Len(q) : q[i] = IF i <= Len(<<".", "/">>) THEN <<".", "/">>[i]
                                           ELSE r[i - Len(<<".", "/">>)]
        BY <1>1, <3>1, ConcatProperties
      <4>2. Len(r) \in Nat
        BY <1>1, LenProperties
      <4> HIDE DEF q
      <4> QED
        BY <3>1, <4>1, <4>2
    <3> HIDE DEF q
    <3> DEFINE t == SubSeq(q, 3, Len(q))
    <3>3. \A i \in 3..Len(q) : q[i] \in T
      BY <3>2, LenProperties
    <3>4. /\ t \in Seq(T) /\ Len(t) = IF 3 <= Len(q) THEN Len(q) - 3 + 1 ELSE 0
          /\ \A i \in 1..(Len(q) - 3 + 1) : t[i] = q[3 + i - 1]
      BY <3>2, <3>3, SubSeqProperties
    <3> HIDE DEF t
    <3>5. Len(t) = Len(r) /\ \A i \in 1..Len(t) : t[i] = r[i]
      BY <3>2, <3>4
    <3>6. t = r
      BY SMTT(40), <1>1, <3>4, <3>5, SeqEqual
    <3> QED
      BY <3>6 DEF AfterDotSlash, t
  <2> HIDE DEF r, q
  <2> QED
    BY <1>1, <2>3, <2>4, ContainedStays
<1> QED
  BY <1>3, <1>4

\* Whatever mcp.json declares, the bundled command and the working directory of every server
\* that is taken resolve below the root of the package, at every segment (parse_command,
\* parse_cwd, RelativePath::resolve).
THEOREM ConfiguredPathsAreBelow == PackageSpec => []ConfiguredPathsStay
<1>1. LoadInv => ConfiguredPathsStay
  <2> SUFFICES ASSUME LoadInv, step = "done", mcp \cap {"absent", "disabled"} = {}, edited = {}
               PROVE  ConfiguredPathsStay
    BY DEF ConfiguredPathsStay
  <2> DEFINE of == disk.mcp.holds.of["mcpServers"].of
  <2>1. mcp = GoodServers(disk) /\ IsPackage(disk)
    BY DEF LoadInv, LoadTypes, McpSeen, Since
  <2>2. mcp = Servers(disk.mcp.holds) /\ McpOK(disk.mcp.holds)
    BY SMTT(40), <2>1 DEF GoodServers
  <2>3. \A n \in mcp : ServerOK(of[n]) /\ HasPaths(of[n].of)
    BY <2>1, <2>2 DEF Servers, IsPackage
  <2>4. ASSUME NEW f, f["type"].raw = "stdio", StdioOK(f), HasPaths(f)
        PROVE  /\ Bundled(f["command"].raw) => Within(f["command"].raw)
               /\ "cwd" \in DOMAIN f =>
                    IF Anchored(f["cwd"].raw) = {} THEN Within(f["cwd"].raw)
                    ELSE Within(<<".", "/">> \o SubSeq(f["cwd"].raw, 3, Len(f["cwd"].raw)))
    <3> DEFINE c == f["command"].raw
               d == f["cwd"].raw
    <3>1. CommandOK(c) /\ ("cwd" \in DOMAIN f => CwdOK(d))
      BY <2>4 DEF StdioOK, Optional
    <3>2. IsPath(c) /\ ("cwd" \in DOMAIN f => IsPath(d))
      BY <2>4 DEF HasPaths
    <3> HIDE DEF c, d
    <3>3. Bundled(c) => Within(c)
      BY <3>1, <3>2, PathStays DEF CommandOK
    <3>4. "cwd" \in DOMAIN f /\ Anchored(d) = {} => Within(d)
      BY <3>1, <3>2, PathStays DEF CwdOK
    <3>5. "cwd" \in DOMAIN f /\ Anchored(d) # {} => Within(<<".", "/">> \o SubSeq(d, 3, Len(d)))
      BY SMTT(40), <3>1, <3>2, PathStays
    <3> QED
      BY <3>3, <3>4, <3>5 DEF c, d
  <2>5. \A n \in mcp : of[n].of["type"].raw = "stdio" => StdioOK(of[n].of)
    BY <2>3 DEF ServerOK
  <2> HIDE DEF of
  <2>6. \A n \in mcp :
          LET f == of[n].of
          IN f["type"].raw = "stdio" =>
               /\ Bundled(f["command"].raw) => Within(f["command"].raw)
               /\ "cwd" \in DOMAIN f =>
                    IF Anchored(f["cwd"].raw) = {} THEN Within(f["cwd"].raw)
                    ELSE Within(<<".", "/">> \o SubSeq(f["cwd"].raw, 3, Len(f["cwd"].raw)))
    BY <2>3, <2>4, <2>5
  <2> QED
    BY ZenonT(60), <2>6 DEF ConfiguredPathsStay, of
<1> QED
  BY <1>1, PackageInvariant, PTL
===============================================================================
