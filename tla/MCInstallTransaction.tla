-------------------------- MODULE MCInstallTransaction --------------------------
(* Instances of InstallTransaction for TLC. *)
EXTENDS InstallTransaction

CONSTANTS a, b, c

ThreeReleases == {a, b, c}
TwoReleases == {a, b}
==============================================================================
