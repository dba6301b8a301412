------------------------- MODULE MCClientPublication -------------------------
(* Instances of ClientPublication for TLC. *)
EXTENDS ClientPublication

CONSTANTS p1, p2, r1, g1, g2, g3, old, new, n1, s1, s2

MCPublishers == {p1, p2}
MCReaders == {r1}
MCGens == {g1, g2, g3}
MCPayloads == {old, new}
OneNote == {n1}
MCRouteStates == {s1, s2}
==============================================================================
