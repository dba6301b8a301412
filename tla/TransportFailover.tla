-------------------------- MODULE TransportFailover --------------------------
(***************************************************************************)
(* The transport controller (vpn_installer/server_transport.py): cycles of *)
(* observe, decide, switch and publish over the sing-box underlay selector *)
(* and the state document.  A cycle is one step: TRANSPORT_LOCK lets one   *)
(* controller run at a time and TransportSwitch takes the steps of the     *)
(* switch apart.  What a cycle meets (does the overlay answer, does the    *)
(* quality sample lose packets, does the other underlay answer, how does   *)
(* the switch end) is the environment's choice.                            *)
(***************************************************************************)
EXTENDS TransportPolicy

CONSTANTS Elapsed,   \* seconds that may pass from one write to the next cycle
          Turns      \* cycles are counted modulo Turns; 2 tells a cycle that
                     \* repeats the last one from no cycle at all

ASSUME ControllerAssumption == Elapsed \subseteq 1..AgeCap /\ Turns \in {1, 2}

VARIABLES
    selector,   \* the underlay sing-box uses
    document,   \* transport-state.json
    seen        \* history: what the last cycle met and did

vars == <<selector, document, seen>>

\* What a cycle may meet: the overlay's answer over the selected path, a quality
\* sample of that path, the candidate probe of the other path.  A "bad" candidate
\* gives no valid answer or could not be asked; "none" is a probe not made.
Overlays == {"ok"} \cup Reasons
FreshSamples == {"inconclusive", "degraded", "healthy"}
Answers == {"bad", "degraded", "healthy"}
-----------------------------------------------------------------------------
(* Which probes a cycle runs: collect_transport_probes. *)

OverlayQualityProbeDue(doc) ==
    doc.state # "suspect" /\ doc.quality_probe_at >= QualityInterval

PreferredProbeDue(doc) ==
    /\ ~RetryActive(doc.preferred_retry)
    /\ doc.preferred_probe_at >= PreferredInterval

\* Mutant: a failed activation is forgotten at once.
BackoffForgotten(doc, target) == None
\* transport_switch_backoff_active
SwitchBackoff(doc, target) ==
    LET backoff == doc.switch_backoff IN
    IF /\ backoff # None /\ backoff.target = target
       /\ backoff.failed < Delay(SwitchBase, SwitchMax, backoff.attempts)
    THEN backoff ELSE None

SampleDue(doc, overlay) == overlay = "ok" /\ OverlayQualityProbeDue(doc)
ProbeSelected(doc, overlay, sample) ==
    [ok |-> overlay = "ok", reason |-> IF overlay = "ok" THEN None ELSE overlay,
     quality |-> IF sample # "none" THEN sample
                 ELSE IF overlay = "ok" THEN doc.last_quality_probe ELSE "none",
     fresh |-> sample # "none"]

\* A dead path is always compared with the other one, by a short liveness probe;
\* after a fresh loss, or when the preferred path is due, a quality probe is made
\* outside the activation backoff.
SampledAlternate(doc, probe) ==
    LET freshLoss == probe.fresh /\ probe.quality = "degraded" IN
    /\ probe.ok
    /\ freshLoss \/ (selector # Preferred /\ PreferredProbeDue(doc))
    /\ SwitchBackoff(doc, Other(selector)) = None
ProbedAlternate(doc, probe) == ~probe.ok \/ SampledAlternate(doc, probe)
ProbeAlternate(doc, probe, answer) ==
    [checked |-> answer # "none", ok |-> answer \notin {"none", "bad"},
     quality |-> IF SampledAlternate(doc, probe) /\ answer # "bad" THEN answer ELSE "none"]
-----------------------------------------------------------------------------
(* Switch attempts and the history of failed ones. *)

\* transport_switch_failure_history
SwitchFailureHistory(doc, target) ==
    LET recent(f) == f # None /\ f.target = target /\ f.failed < StableReset IN
    IF recent(doc.switch_backoff) THEN doc.switch_backoff
    ELSE IF recent(doc.last_switch_failure) THEN doc.last_switch_failure ELSE None

NextSwitchFailure(doc, target) ==
    LET prior == SwitchFailureHistory(doc, target) IN
    [target |-> target, failed |-> 0,
     attempts |-> IF prior = None THEN 1 ELSE More(prior.attempts)]

\* How select_transport may end: what it reports and where it leaves the
\* selector.  "unreported" ends before there is a report to publish.
Endings(old, tag) ==
    {[result |-> "activated", after |-> tag, actual |-> tag],
     [result |-> "restored", after |-> old, actual |-> old],
     [result |-> "unreported", after |-> None, actual |-> old]}
    \cup {[result |-> "unverified", after |-> p, actual |-> p] : p \in Paths}
    \cup {[result |-> "unverified", after |-> None, actual |-> p] : p \in Paths}

\* Mutant: the good answer of the other path is not written down.
ObservedWithoutStandby(doc, probe, decision) ==
    [selected |-> selector, state |-> decision.state, updated |-> 0,
     failure |-> decision.failure, alternate_health |-> None,
     quality_failure |-> decision.quality_failure,
     preferred_recovery |-> decision.preferred_recovery,
     preferred_probe_at |-> decision.preferred_probe_at,
     preferred_retry |-> decision.preferred_retry,
     quality_probe_at |-> IF probe.fresh THEN 0 ELSE doc.quality_probe_at,
     last_quality_probe |-> IF probe.fresh THEN probe.quality ELSE doc.last_quality_probe,
     switch_backoff |-> SwitchBackoff(doc, Other(selector)),
     last_switch_failure |-> SwitchFailureHistory(doc, Other(selector))]
\* The document of a cycle before any switch.
Observed(doc, probe, decision) ==
    [selected |-> selector, state |-> decision.state, updated |-> 0,
     failure |-> decision.failure, alternate_health |-> decision.alternate_health,
     quality_failure |-> decision.quality_failure,
     preferred_recovery |-> decision.preferred_recovery,
     preferred_probe_at |-> decision.preferred_probe_at,
     preferred_retry |-> decision.preferred_retry,
     quality_probe_at |-> IF probe.fresh THEN 0 ELSE doc.quality_probe_at,
     last_quality_probe |-> IF probe.fresh THEN probe.quality ELSE doc.last_quality_probe,
     switch_backoff |-> SwitchBackoff(doc, Other(selector)),
     last_switch_failure |-> SwitchFailureHistory(doc, Other(selector))]

\* Mutant: confirmations survive the attempt they led to.
EvidenceKept(published) == published
\* An attempt, successful or not, starts a new observation window.
EvidenceDropped(published) ==
    [published EXCEPT !.failure = None, !.alternate_health = None,
                      !.quality_failure = None, !.preferred_recovery = None]

Attempted(doc, published, decision, ending) ==
    LET failure == NextSwitchFailure(doc, decision.target)
        next == EvidenceDropped(published) IN
    IF ending.result = "activated"
    THEN [next EXCEPT
            !.selected = ending.after,
            !.state = IF decision.hard THEN "degraded" ELSE "healthy",
            !.switch_backoff = None, !.last_switch_failure = None,
            !.last_quality_probe = "none"]
    ELSE [next EXCEPT
            !.selected = ending.after,
            !.state = IF ending.result = "restored" THEN "degraded" ELSE "failed",
            !.switch_backoff = failure, !.last_switch_failure = failure]

\* A recommendation is dropped inside the backoff of its target unless the
\* selected path is confirmed dead.
Suppressed(doc, probe, decision) ==
    /\ decision.target # selector
    /\ SwitchBackoff(doc, Other(selector)) # None
    /\ ~(decision.hard /\ ~probe.ok)

\* failed_transport_observation
FailedObservation(doc, selected, state) ==
    [NoDocument EXCEPT
        !.selected = selected, !.state = state, !.updated = 0,
        !.preferred_retry = doc.preferred_retry,
        !.switch_backoff = doc.switch_backoff,
        !.last_switch_failure = doc.last_switch_failure]
-----------------------------------------------------------------------------
(* What the last cycle met and did, kept from the environment's choices. *)

Results == {"none", "activated", "restored", "unreported", "unverified", "interrupted",
            "reselected", "lost"}
\* Nothing was published since that ends the observation window.
Unpublished == {"none", "interrupted", "reselected"}
Seen == [path : Paths, overlay : Overlays, sample : FreshSamples \cup {"none"},
         other : Answers \cup {"none"}, gap : Age, result : Results, turn : 0..(Turns - 1)]
NothingSeen(path, d, turn) ==
    [path |-> path, overlay |-> "ok", sample |-> "none", other |-> "none",
     gap |-> d, result |-> "lost", turn |-> turn]
-----------------------------------------------------------------------------
Init ==
    /\ selector \in Paths
    /\ document = NoDocument
    /\ seen = NothingSeen(selector, AgeCap, 0)

\* A cycle that keeps the selected path, by advice or because of the backoff.
Observe(doc, probe, decision, look) ==
    LET published == Observed(doc, probe, decision) IN
    /\ decision.target = selector \/ Suppressed(doc, probe, decision)
    /\ document' = IF decision.target = selector THEN published
                   ELSE [published EXCEPT
                           !.state = IF probe.ok THEN "degraded" ELSE "failed"]
    /\ seen' = [look EXCEPT !.result = "none"]
    /\ UNCHANGED selector

\* A cycle that switches and publishes how the switch ended.
Switch(doc, probe, decision, look) ==
    /\ decision.target # selector /\ ~Suppressed(doc, probe, decision)
    /\ \E ending \in Endings(selector, decision.target) :
          /\ document' = Attempted(doc, Observed(doc, probe, decision), decision, ending)
          /\ selector' = ending.actual
          /\ seen' = [look EXCEPT !.result = ending.result]

\* The controller dies, or cannot write, between the switch and the write: the
\* selector may have moved and the document is the previous cycle's.
Interrupted(doc, probe, decision, look) ==
    /\ decision.target # selector /\ ~Suppressed(doc, probe, decision)
    /\ selector' \in Paths
    /\ document' = doc
    /\ seen' = [look EXCEPT !.result = "interrupted"]

\* What the cycle met, before it is known what comes of it.
Look(d, overlay, sample, answer) ==
    [path |-> selector, overlay |-> overlay, sample |-> sample, other |-> answer,
     gap |-> d, result |-> "none", turn |-> (seen.turn + 1) % Turns]

Concluded(doc, probe, decision, look) ==
    \/ Observe(doc, probe, decision, look)
    \/ Switch(doc, probe, decision, look)
    \/ Interrupted(doc, probe, decision, look)

\* One observation cycle, d seconds after the last write.  (TLC evaluates the
\* sole member of a set once, a definition wherever it is used.)
Cycle(d) ==
    \E doc \in {Aged(document, d)} :
    \E overlay \in Overlays :
    \E sample \in IF SampleDue(doc, overlay) THEN FreshSamples ELSE {"none"} :
        LET probe == ProbeSelected(doc, overlay, sample) IN
        \E answer \in IF ProbedAlternate(doc, probe) THEN Answers ELSE {"none"} :
        \E decision \in {Evaluate(selector, probe, ProbeAlternate(doc, probe, answer), doc)} :
            Concluded(doc, probe, decision, Look(d, overlay, sample, answer))

\* A cycle that observes nothing: an active install transaction leaves the
\* published path, an unreadable selector or a raised error may lose it.
Unobserved(d, selected, state) ==
    /\ selected \in IF state = "maintenance" THEN {document.selected} ELSE {None, selector}
    /\ document' = FailedObservation(Aged(document, d), selected, state)
    /\ seen' = NothingSeen(selector, d, seen.turn)
    /\ UNCHANGED selector

\* transport-select, or a router restart, picks a path outside the cycles.
Reselect(path) ==
    /\ path # selector
    /\ selector' = path
    /\ seen' = [seen EXCEPT !.result = IF @ \in Unpublished THEN "reselected" ELSE "lost"]
    /\ UNCHANGED document

SomeUnobserved ==
    \E d \in Elapsed, selected \in Paths \cup {None}, state \in {"failed", "maintenance"} :
        Unobserved(d, selected, state)
Next ==
    \/ \E d \in Elapsed : Cycle(d)
    \/ SomeUnobserved
    \/ \E path \in Paths : Reselect(path)

Spec == Init /\ [][Next]_vars
\* transport-watch runs cycles for ever and systemd restarts it when it dies.  A
\* cycle is always enabled, so its weak fairness is that cycles go on; with
\* Turns = 2 they are the steps that change seen.turn.
FairSpec == Spec /\ []<><<seen'.turn # seen.turn>>_vars
-----------------------------------------------------------------------------
TypeOK ==
    /\ selector \in Paths
    /\ document \in Document
    /\ seen \in Seen

Attempts == {"activated", "restored", "unreported", "unverified", "interrupted"}

\* A dead underlay is left only on the evidence of two cycles in a row: the one
\* before saw the same path fail the same way with the other path answering, made
\* no published attempt of its own, and is recent.
FailoverNeedsTwoCycles ==
    [][seen'.result \in Attempts /\ seen'.overlay # "ok" =>
          /\ seen.path = seen'.path /\ seen.overlay = seen'.overlay
          /\ seen.other # "bad" /\ seen'.other # "bad"
          /\ seen.result \in Unpublished
          /\ seen'.gap <= EvidenceGap]_vars
\* What the cycles meet when nothing interferes: prompt cycles, no selection from
\* outside, every switch succeeds.
Undisturbed == seen.gap <= EvidenceGap /\ seen.result \in {"none", "activated"}

\* A dead underlay does not stay selected while the other one answers.
LeavesDeadPath ==
    \A path \in Paths, reason \in Reasons :
        ~<>[](/\ Undisturbed /\ seen.path = path
              /\ seen.overlay = reason /\ seen.other = "healthy")

\* Once both underlays carry the overlay, the preferred one without loss and the
\* fallback steadily with or without, the preferred one is selected for good.
ReturnsToPreferred ==
    \A steady \in {"healthy", "degraded"} :
        <>[](/\ Undisturbed /\ seen.overlay = "ok" /\ seen.other \in {"none", "healthy"}
             /\ seen.sample \in {"none", IF seen.path = Preferred THEN "healthy"
                                         ELSE steady})
            => <>[](selector = Preferred)
=============================================================================
