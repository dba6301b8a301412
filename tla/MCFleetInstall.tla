----------------------------- MODULE MCFleetInstall -----------------------------
(* Instances of FleetInstall for TLC: an exit and a gateway. *)
EXTENDS FleetInstall

CONSTANTS exit, gateway, r1, r2

TwoNodes == {exit, gateway}
ExitFirst == [n \in TwoNodes |-> IF n = exit THEN 1 ELSE 2]
TwoReleases == {r1, r2}
NoneOrFirst == {None, r1}
==============================================================================
