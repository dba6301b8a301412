------------------------- MODULE MCTransportHistory --------------------------
(* Instances of TransportHistory for TLC. *)
EXTENDS TransportHistory

CONSTANTS wg, hy2, timeout, refused

TwoReasons == {timeout, refused}
PromptAndLate == {1, 4}
==============================================================================
