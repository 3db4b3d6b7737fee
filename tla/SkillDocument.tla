---------------------------- MODULE SkillDocument -----------------------------
(***************************************************************************)
(* Document::parse of a skill's body: the scan for headings line by line,  *)
(* the tree of sections built from them with a stack, and what is asked of *)
(* the tree afterwards (the outline, a section by its slug, the links).    *)
(*                                                                         *)
(* A line is what the parser looks at: whether it is indented by more than *)
(* three blanks, the run of equal characters it begins with, and the text  *)
(* after the run.  An offset is a number of lines.  A section is the number*)
(* of its heading.                                                         *)
(***************************************************************************)
EXTENDS Integers, Sequences, FiniteSets

CONSTANTS
  Lines,     \* the lines a body may have
  Texts,     \* what a line may say; NoText for a line that is only its run
  NoText,
  BaseOf,    \* the slug of a text before collisions: a sequence of words, a
             \* number being itself
  MaxLines   \* bound: lines of a body

Marks == {"#", "=", "-", "tick", "tilde"}
Word == "w"     \* any other character
Blank == ""     \* a line of blanks

Line == [deep: BOOLEAN, mark: Marks \cup {Word, Blank}, run: Nat, glued: BOOLEAN,
         text: Texts \cup {NoText}, link: BOOLEAN]

ASSUME LinesAssumption == Lines \subseteq Line
ASSUME TextsAssumption == BaseOf \in [Texts \cup {NoText} -> Seq(Int)]
ASSUME MaxLinesAssumption == MaxLines \in Nat

VARIABLES
  pc,        \* "scan", "build", "done"
  lines,     \* the body as far as it was read
  fence,     \* the open fence, or NoFence
  previous,  \* the line that an underline would make a heading, 0 for none
  headings,  \* level, slug and place of every heading found
  inert,     \* history: the lines that were fences or in one
  next,      \* the heading build_tree is at
  stack,     \* the open sections
  ended,     \* where a section ends, 0 while it is open
  children,  \* the sections closed below each
  roots      \* the sections closed at the top

scanVars == <<lines, fence, previous, headings, inert>>
buildVars == <<next, stack, ended, children, roots>>
docVars == <<pc, scanVars, buildVars>>

NoFence == [mark |-> Blank, run |-> 0]

Init ==
  /\ pc = "scan" /\ lines = <<>> /\ fence = NoFence /\ previous = 0
  /\ headings = <<>> /\ inert = {}
  /\ next = 1 /\ stack = <<>> /\ ended = <<>> /\ children = <<>> /\ roots = <<>>

-----------------------------------------------------------------------------
(* scan_headings *)

Opens(l) == l.mark \in {"tick", "tilde"} /\ l.run >= 3
Closes(f, l) == l.mark = f.mark /\ l.run >= f.run /\ l.text = NoText

\* HeadingLevel::new(hashes as u8): the count is cut to a byte first.
Level(l) == l.run % 256
IsAtx(l) == ~l.deep /\ l.mark = "#" /\ Level(l) \in 1..6 /\ ~l.glued
IsUnderline(l) == ~l.deep /\ l.mark \in {"=", "-"} /\ l.text = NoText

Taken == {headings[i].slug : i \in DOMAIN headings}

\* slugify: the base, or the base with the first number that is free.
Numbered(base, n) == Append(base, n)

\* Mutant: the number of headings that have the base.
FirstFree_Counts(base) == Len(SelectSeq(headings, LAMBDA h : h.slug = base))

FirstFree(base) ==
  CHOOSE n \in 1..Len(headings) :
    /\ Numbered(base, n) \notin Taken
    /\ \A m \in 1..(n - 1) : Numbered(base, m) \in Taken
Slugify(text) ==
  IF BaseOf[text] \notin Taken THEN BaseOf[text]
  ELSE Numbered(BaseOf[text], FirstFree(BaseOf[text]))

Found(level, text, start) ==
  /\ headings' = Append(headings, [level |-> level, slug |-> Slugify(text),
                                   start |-> start, body |-> Len(lines) + 1])
  /\ previous' = 0

\* A line in a fence, which an indented one does not close.
Skip(l) ==
  /\ fence # NoFence
  /\ fence' = IF ~l.deep /\ Closes(fence, l) THEN NoFence ELSE fence
  /\ previous' = 0 /\ inert' = inert \cup {Len(lines) + 1}
  /\ UNCHANGED headings

OpenFence(l) ==
  /\ fence = NoFence /\ ~l.deep /\ Opens(l)
  /\ fence' = [mark |-> l.mark, run |-> l.run]
  /\ previous' = 0 /\ inert' = inert \cup {Len(lines) + 1}
  /\ UNCHANGED headings

Heading(l) ==
  /\ fence = NoFence /\ (l.deep \/ ~Opens(l))
  /\ \/ IsAtx(l) /\ Found(Level(l), l.text, Len(lines))
     \/ /\ IsUnderline(l) /\ previous # 0
        /\ Found(IF l.mark = "=" THEN 1 ELSE 2, lines[previous].text, previous - 1)
     \/ /\ ~IsAtx(l) /\ ~(IsUnderline(l) /\ previous # 0)
        /\ previous' = IF l.mark = Blank THEN 0 ELSE Len(lines) + 1
        /\ UNCHANGED headings
  /\ UNCHANGED <<fence, inert>>

ScanLine(l) ==
  /\ pc = "scan" /\ Len(lines) < MaxLines
  /\ lines' = Append(lines, l)
  /\ Skip(l) \/ OpenFence(l) \/ Heading(l)
  /\ UNCHANGED <<pc, buildVars>>

EndScan ==
  /\ pc = "scan" /\ pc' = "build"
  /\ ended' = [i \in DOMAIN headings |-> 0]
  /\ children' = [i \in DOMAIN headings |-> <<>>]
  /\ UNCHANGED <<scanVars, next, stack, roots>>

-----------------------------------------------------------------------------
(* build_tree *)

Top == stack[Len(stack)]
Below == SubSeq(stack, 1, Len(stack) - 1)

\* Mutant: a sibling is taken for a subsection.
Outranked_ByMore(h) == IF next > Len(headings) THEN TRUE
                       ELSE headings[h].level > headings[next].level

Outranked(h) == IF next > Len(headings) THEN TRUE
                ELSE headings[h].level >= headings[next].level

Close ==
  /\ pc = "build" /\ stack # <<>> /\ Outranked(Top)
  /\ ended' = [ended EXCEPT ![Top] = IF next > Len(headings) THEN Len(lines)
                                     ELSE headings[next].start]
  /\ stack' = Below
  /\ IF Below = <<>>
     THEN roots' = Append(roots, Top) /\ UNCHANGED children
     ELSE /\ children' = [children EXCEPT ![Below[Len(Below)]] = Append(@, Top)]
          /\ UNCHANGED roots
  /\ UNCHANGED <<pc, scanVars, next>>

Push ==
  /\ pc = "build" /\ next <= Len(headings)
  /\ IF stack = <<>> THEN TRUE ELSE ~Outranked(Top)
  /\ stack' = Append(stack, next) /\ next' = next + 1
  /\ UNCHANGED <<pc, scanVars, ended, children, roots>>

Finish ==
  /\ pc = "build" /\ next > Len(headings) /\ stack = <<>>
  /\ pc' = "done"
  /\ UNCHANGED <<scanVars, buildVars>>

\* Another body.
Another ==
  /\ pc = "done" /\ pc' = "scan" /\ lines' = <<>> /\ fence' = NoFence /\ previous' = 0
  /\ headings' = <<>> /\ inert' = {}
  /\ next' = 1 /\ stack' = <<>> /\ ended' = <<>> /\ children' = <<>> /\ roots' = <<>>

Build == EndScan \/ Close \/ Push \/ Finish
Next == (\E l \in Lines : ScanLine(l)) \/ Build \/ Another
Spec == Init /\ [][Next]_docVars

-----------------------------------------------------------------------------
(* What is asked of a document that is parsed. *)

Preamble == IF headings = <<>> THEN Len(lines) ELSE headings[1].start

\* Prose between the heading and the first subsection.
BodyEnd(h) == IF children[h] = <<>> THEN ended[h] ELSE headings[children[h][1]].start

Reversed(s) == [i \in 1..Len(s) |-> s[Len(s) + 1 - i]]

\* Walk::next, as often as there are sections: what is popped, and what is left.
Walked ==
  LET walk[k \in 0..Len(headings)] ==
        IF k = 0 THEN [popped |-> <<>>, left |-> Reversed(roots)]
        ELSE LET w == walk[k - 1]
                 s == w.left[Len(w.left)]
             IN IF w.left = <<>> THEN w
                ELSE [popped |-> Append(w.popped, s),
                      left |-> SubSeq(w.left, 1, Len(w.left) - 1) \o Reversed(children[s])]
  IN walk[Len(headings)]
Outline == Walked.popped

\* find: the first section of the outline that has the slug.
Find(slug) ==
  LET at == {i \in DOMAIN Outline : headings[Outline[i]].slug = slug}
  IN Outline[CHOOSE i \in at : \A j \in at : i <= j]

\* Mutant: any run closes a fence.
Links_Flips(from, to) ==
  LET open[i \in from..to] ==
        IF i = from THEN NoFence
        ELSE IF ~Opens(lines[i]) THEN open[i - 1]
        ELSE IF open[i - 1] # NoFence THEN NoFence
        ELSE [mark |-> lines[i].mark, run |-> lines[i].run]
  IN {i \in (from + 1)..to : lines[i].link /\ open[i - 1] = NoFence /\ ~Opens(lines[i])}

\* collect_links of the lines after `from` up to `to`, with its own look at fences:
\* the lines whose links are listed.
Links(from, to) ==
  LET open[i \in from..to] ==
        IF i = from THEN NoFence
        ELSE IF open[i - 1] # NoFence
             THEN IF Closes(open[i - 1], lines[i]) THEN NoFence ELSE open[i - 1]
             ELSE IF Opens(lines[i]) THEN [mark |-> lines[i].mark, run |-> lines[i].run]
             ELSE NoFence
  IN {i \in (from + 1)..to : lines[i].link /\ open[i - 1] = NoFence /\ ~Opens(lines[i])}

-----------------------------------------------------------------------------
DocTypeOK ==
  /\ pc \in {"scan", "build", "done"}
  /\ lines \in Seq(Line)
  /\ fence \in [mark: {"tick", "tilde", Blank}, run: Nat]
  /\ previous \in 0..Len(lines)
  /\ headings \in Seq([level: 1..6, slug: Seq(Int), start: Nat, body: Nat])
  /\ inert \subseteq 1..Len(lines)
  /\ next \in 1..(Len(headings) + 1)
  /\ stack \in Seq(DOMAIN headings) /\ roots \in Seq(DOMAIN headings)
  /\ pc # "scan" => /\ ended \in [DOMAIN headings -> Nat]
                    /\ children \in [DOMAIN headings -> Seq(DOMAIN headings)]

\* A slug names one section: no two headings have the same, also when the number that
\* keeps two equal headings apart makes the slug of a third (slugify).
SlugsName == \A i, j \in DOMAIN headings : headings[i].slug = headings[j].slug => i = j

\* The preamble and the sections are the whole body, cut without gap or overlap:
\* consecutive sections of one parent meet, the last one ends with its parent, a
\* body ends where the first subsection begins, a subsection is deeper than its
\* parent, the outline has every heading once, as written, and a section is found by
\* its slug (build_tree, Walk, find).
Meet(s, from, to) ==
  IF s = <<>> THEN from = to
  ELSE /\ headings[s[1]].start = from /\ ended[s[Len(s)]] = to
       /\ \A i \in 1..(Len(s) - 1) : ended[s[i]] = headings[s[i + 1]].start
SectionsTile ==
  pc = "done" =>
    /\ Outline = [i \in DOMAIN headings |-> i] /\ Walked.left = <<>>
    /\ Meet(roots, Preamble, Len(lines))
    /\ \A h \in DOMAIN headings :
         /\ Find(headings[h].slug) = h
         /\ headings[h].start < headings[h].body /\ headings[h].body <= BodyEnd(h)
         /\ Meet(children[h], BodyEnd(h), ended[h])
         /\ \A i \in DOMAIN children[h] : headings[children[h][i]].level > headings[h].level

\* No heading begins or ends in fenced code, and the links listed are those outside it,
\* whether they are asked of the whole or of a section.  The links are found by a scan of
\* their own that looks at no indentation: said for bodies with no indented fence.
FencedIsInert ==
  pc = "done" /\ (\A i \in DOMAIN lines : lines[i].deep => ~Opens(lines[i])) =>
    /\ \A h \in DOMAIN headings : (headings[h].start + 1)..headings[h].body \cap inert = {}
    /\ Links(0, Len(lines)) = {i \in DOMAIN lines : lines[i].link /\ i \notin inert}
    /\ \A h \in DOMAIN headings :
         Links(headings[h].start, ended[h])
           = Links(0, Len(lines)) \cap (headings[h].start + 1)..ended[h]
===============================================================================
