-------------------------------- MODULE MCApp --------------------------------
(* Instances of App for TLC: two sessions share a root, a third has its own. *)
EXTENDS App

CONSTANTS a, b, c, r1, r2

MCRootOf == [s \in Sessions |-> IF s = c THEN r2 ELSE r1]
=============================================================================
