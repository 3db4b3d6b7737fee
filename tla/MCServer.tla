------------------------------- MODULE MCServer -------------------------------
(***************************************************************************)
(* Two runs of the server, one after or beside the other, over a cache that *)
(* is empty, as a server left it, or with a spoilt tool.                    *)
(***************************************************************************)
EXTENDS Server

CONSTANTS fd, tusdBin, s1, s2

Whole == File("whole", TRUE)

SomeFound ==
  { [t \in Tools |-> File("none", FALSE)], [t \in Tools |-> Whole],
    [t \in Tools |-> IF t = fd THEN File("other", TRUE) ELSE Whole] }

Two == {s1, s2}
One == {s1}
TwoTools == {fd, tusdBin}
=============================================================================
