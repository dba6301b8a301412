--------------------------- MODULE TransportHistory ---------------------------
(***************************************************************************)
(* TransportFailover with a record of how long ago things last happened,   *)
(* kept from what the cycles met and did and never from the state          *)
(* document.  It states what the controller may not do in terms of the     *)
(* underlays themselves.                                                   *)
(***************************************************************************)
EXTENDS TransportFailover

VARIABLE
    trail   \* history; an age that is not set is AgeCap

\* pair:   the last fresh loss on the selected path while the other was clean
\* clean, since, count: last, first and number of the good answers of the
\*         preferred path in the present unbroken run on the fallback
\* left:   the controller last published that it moved off the preferred path
\* failed, failures: when the controller last failed to move off the selected
\*         path, and how often it has since StableReset
Trail == [pair : Age, clean : Age, since : Age, count : 0..MaxCount, left : Age,
          failed : Age, failures : 0..MaxCount]
NoTrail == [pair |-> AgeCap, clean |-> AgeCap, since |-> AgeCap, count |-> 0,
            left |-> AgeCap, failed |-> AgeCap, failures |-> 0]
hvars == <<vars, trail>>

NoRun(t) == [t EXCEPT !.clean = AgeCap, !.since = AgeCap, !.count = 0]
\* The record d seconds later; what was known of the two paths says nothing once
\* a cycle looks at another selected path than the last one did.
Before(look) ==
    LET t == IF look.path = seen.path THEN trail
             ELSE [NoTrail EXCEPT !.left = trail.left]
        d == look.gap IN
    [t EXCEPT !.pair = Older(@, d, QualityGap + 1),
              !.clean = Older(@, d, PreferredGap + 1),
              !.since = Older(@, d, RecoverySeconds),
              !.left = Older(@, d, RetryBase), !.failed = Older(@, d, StableReset)]

\* The run of good answers: broken by a bad one, by a cycle without a look at
\* the overlay, or by too long a silence.
RunAfter(t, look) ==
    LET extends == t.count > 0 /\ t.clean <= PreferredGap IN
    IF look.result = "lost" \/ look.path = Preferred \/ look.other \in {"bad", "degraded"}
    THEN NoRun(t)
    ELSE IF look.other = "none" THEN t
    ELSE [t EXCEPT !.clean = 0, !.since = IF extends THEN @ ELSE 0,
                   !.count = IF extends THEN More(@) ELSE 1]
\* The last pair: dropped as soon as anything speaks against it.
PairAfter(t, look) ==
    LET against == \/ look.result = "lost" \/ look.overlay # "ok"
                   \/ look.sample \in {"inconclusive", "healthy"}
                   \/ look.other \in {"bad", "degraded"} IN
    IF against THEN [t EXCEPT !.pair = AgeCap]
    ELSE IF look.sample = "degraded" /\ look.other = "healthy" THEN [t EXCEPT !.pair = 0]
    ELSE t

AfterCycle(look, moved) ==
    LET old == Before(look)
        now == PairAfter(RunAfter(old, look), look)
        failures == IF old.failed < StableReset THEN More(old.failures) ELSE 1 IN
    CASE look.result = "interrupted" -> old
      [] look.result = "activated" ->
            [NoTrail EXCEPT !.left = IF look.path = Preferred THEN 0 ELSE old.left]
      [] look.result \in Attempts \ {"interrupted", "activated"} ->
            [NoTrail EXCEPT !.failed = 0, !.failures = failures,
                !.left = IF moved /\ look.path = Preferred THEN 0 ELSE old.left]
      [] look.result \notin Attempts -> now

HInit == Init /\ trail = NoTrail
HNext ==
    \/ /\ \/ \E d \in Elapsed : Cycle(d)
          \/ SomeUnobserved
       /\ trail' = AfterCycle(seen', selector' # selector)
    \/ /\ \E path \in Paths : Reselect(path)
       /\ UNCHANGED trail
HSpec == HInit /\ [][HNext]_hvars
\* As FairSpec: cycles go on.
HFairSpec == HSpec /\ []<><<seen'.turn # seen.turn>>_vars
-----------------------------------------------------------------------------
\* A controller step that leaves a path which still carries the overlay.
LeavesLivePath ==
    seen'.result \in Attempts /\ seen'.overlay = "ok"

\* Loss moves the overlay off a live path only as the second of two pairs of
\* fresh samples, lossy here and clean there, at least one quality interval and
\* at most QualityGap apart with nothing in between that speaks against them.
LossNeedsTwoPairs ==
    [][LeavesLivePath /\ seen'.sample = "degraded" =>
          /\ seen'.other = "healthy"
          /\ Before(seen').pair \in QualityInterval..QualityGap]_hvars

\* A healthy fallback is left only after the preferred path answered cleanly in
\* RecoveryConfirmations probes spread over RecoverySeconds, none bad in between.
ReturnNeedsCleanWindow ==
    [][LeavesLivePath /\ seen'.sample # "degraded" =>
          LET run == RunAfter(Before(seen'), seen') IN
          /\ seen'.path = Fallback /\ run.clean = 0
          /\ run.count >= RecoveryConfirmations
          /\ run.since >= RecoverySeconds]_hvars

\* After n failed activations no controller tries again to leave a live path
\* before the n-th retry delay is over.
BackoffIsHonoured ==
    [][LeavesLivePath =>
          LET before == Before(seen') IN
          before.failed < StableReset =>
              before.failed >= Delay(SwitchBase, SwitchMax, before.failures)]_hvars

\* No ping-pong: a live fallback is not left for the preferred path within the
\* first retry delay after the controller gave the preferred path up.
NoPingPong ==
    [][LeavesLivePath /\ seen'.path = Fallback =>
          Before(seen').left >= RetryBase]_hvars
=============================================================================
