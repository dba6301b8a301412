---------------------------- MODULE SelectorSwitch ----------------------------
(***************************************************************************)
(* What a switch of the underlay promises whoever asks for it: seen from   *)
(* outside it is one step that leaves the selector where its report says,  *)
(* however many requests to the router it took and whichever of them       *)
(* failed.  The cycles of TransportFailover are built on this promise.     *)
(***************************************************************************)
CONSTANTS Paths, None, Controllers

VARIABLES
    selector,   \* the underlay in use
    outcome     \* per controller, the report of its switch until it is published

vars == <<selector, outcome>>

\* The endings TransportFailover allows a switch from old to tag.
Endings(old, tag) ==
    {[result |-> "activated", after |-> tag, actual |-> tag],
     [result |-> "restored", after |-> old, actual |-> old],
     [result |-> "unreported", after |-> None, actual |-> old]}
    \cup {[result |-> "unverified", after |-> p, actual |-> p] : p \in Paths}
    \cup {[result |-> "unverified", after |-> None, actual |-> p] : p \in Paths}

Reported(old, tag, ending) ==
    [old |-> old, tag |-> tag, result |-> ending.result, after |-> ending.after]

Init ==
    /\ selector \in Paths
    /\ outcome = [c \in Controllers |-> None]

Switch(c, tag) ==
    \E ending \in Endings(selector, tag) :
        /\ selector' = ending.actual
        /\ outcome' = [outcome EXCEPT ![c] = Reported(selector, tag, ending)]

\* Somebody else, or a controller that did not live to report, moves the selector.
Reselect(path) ==
    /\ selector' = path
    /\ UNCHANGED outcome

\* The report is published, or dies with its controller.
Forget(c) ==
    /\ outcome' = [outcome EXCEPT ![c] = None]
    /\ UNCHANGED selector

Next ==
    \/ \E c \in Controllers : Forget(c) \/ \E tag \in Paths : Switch(c, tag)
    \/ \E path \in Paths : Reselect(path)

Spec == Init /\ [][Next]_vars
=============================================================================
