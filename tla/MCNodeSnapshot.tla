---------------------------- MODULE MCNodeSnapshot ----------------------------
(* An instance of NodeSnapshot for TLC: the gateways of both topologies and the exit
   node; a few of their parts break. *)
EXTENDS NodeSnapshot

AllPlans == {[topology |-> "dual", node |-> "gateway"], [topology |-> "dual", node |-> "exit"],
             [topology |-> "single", node |-> "gateway"]}
=============================================================================
