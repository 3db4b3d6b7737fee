------------------------- MODULE MCWorkspaceRegistry -------------------------
(***************************************************************************)
(* A small instance of WorkspaceRegistry: three ids, one of which several   *)
(* scopes may derive.                                                      *)
(***************************************************************************)
EXTENDS WorkspaceRegistry, TLC

CONSTANTS r1, r2, r3, preset

Letters == {"a", "A", "-", "_", "g", "d"}
ToUpper == [c \in Letters |-> IF c = "a" THEN "A" ELSE c]

\* "g" stands for `global`, "d" for an id that a skill derives.
Global == <<"g">>
Skill == <<"d">>
SomeIds == {Global, Skill, <<"a", "-">>}
Skills == {Skill}

\* What no workspace has from the start.
ReadOnly == {"read-only"}

Three == {r1, r2, r3}
Symmetry == Permutations(Three)
=============================================================================
