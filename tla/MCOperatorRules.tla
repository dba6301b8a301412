---------------------------- MODULE MCOperatorRules ----------------------------
(* Instances of OperatorRules for TLC. *)
EXTENDS OperatorRules

CONSTANTS w1, w2, c1, a, b

TwoPages == {w1, w2}
OnePage == {w1}
OneCommand == {c1}
Nobody == {}
TwoRules == {a, b}
OneRule == {a}
==============================================================================
