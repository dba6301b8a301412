--------------------------- MODULE MCHealthRecovery ---------------------------
(* An instance of HealthRecovery for TLC: a gateway with three services. *)
EXTENDS HealthRecovery

CONSTANTS timer, operator, tunnel, router, front

TunnelFirst == <<tunnel, router, front>>
FewParts == {tunnel, router, front, "qdisc", "probe", "root"}
==============================================================================
