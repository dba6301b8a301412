--------------------------- MODULE TransportPolicy ---------------------------
(***************************************************************************)
(* The underlay decision (vpn_installer/interserver_transport.py): what    *)
(* one observation cycle, read against the state document the last cycle   *)
(* wrote, says about the selected underlay.                                *)
(*                                                                         *)
(* The code compares timestamps only with the instant of the cycle, so the *)
(* document holds the AGE of each timestamp at that instant, saturated     *)
(* where the code tells no two ages apart any more; a timestamp that was   *)
(* never written counts as AgeCap old.                                     *)
(* Confirmation and attempt counters saturate too: past MaxCount the code  *)
(* reads nothing more from them.  Cycle identifiers are unique, so the     *)
(* code's replay test never holds and they are left out.                   *)
(***************************************************************************)
EXTENDS Integers

CONSTANTS
    Preferred, Fallback,   \* TRANSPORT_WG_TAG and TRANSPORT_HY2_TAG
    Reasons,               \* failure categories of a dead underlay
    FailureConfirmations, AlternateConfirmations, RecoveryConfirmations,
    EvidenceGap,           \* TRANSPORT_EVIDENCE_MAX_GAP_SECONDS
    QualityInterval,       \* TRANSPORT_QUALITY_PROBE_INTERVAL_SECONDS
    QualityGap,            \* three quality intervals
    PreferredInterval,     \* TRANSPORT_PREFERRED_PROBE_INTERVAL_SECONDS
    PreferredGap,          \* TRANSPORT_PREFERRED_EVIDENCE_MAX_GAP_SECONDS
    RecoverySeconds,       \* TRANSPORT_PREFERRED_RECOVERY_MIN_SECONDS
    RetryBase, RetryMax,   \* TRANSPORT_PREFERRED_RETRY_*_SECONDS
    StableReset,           \* TRANSPORT_PREFERRED_STABLE_RESET_SECONDS
    SwitchBase, SwitchMax, \* TRANSPORT_SWITCH_RETRY_*_SECONDS
    AgeCap, MaxCount,      \* bounds on ages and on counters
    None

Paths == {Preferred, Fallback}
Confirmations == {FailureConfirmations, AlternateConfirmations, RecoveryConfirmations}
Durations == {EvidenceGap, QualityGap, PreferredGap, RecoverySeconds, RetryBase, RetryMax,
              StableReset, SwitchBase, SwitchMax}

\* A failed activation is read up to this age.
FailureMemory == IF StableReset >= SwitchMax THEN StableReset ELSE SwitchMax

Least(a, b) == IF a <= b THEN a ELSE b
\* Exponential retry delay after the n-th failure.
Delay(base, limit, n) == Least(limit, base * 2 ^ (n - 1))

ASSUME PolicyAssumption ==
    /\ Preferred # Fallback /\ None \notin Paths \cup Reasons
    /\ AgeCap \in Nat /\ MaxCount \in Nat
    /\ \A d \in Durations : d \in Nat /\ 0 < d /\ d < AgeCap
    /\ QualityInterval \in 1..QualityGap /\ PreferredInterval \in 1..PreferredGap
    /\ \A n \in Confirmations : n \in Nat /\ 2 <= n /\ n <= MaxCount
    /\ RetryBase * 2 ^ (MaxCount - 1) >= RetryMax
    /\ SwitchBase * 2 ^ (MaxCount - 1) >= SwitchMax
    /\ RetryBase <= RetryMax /\ RetryBase <= StableReset

Age == 0..AgeCap
Count == 1..MaxCount
More(n) == Least(n + 1, MaxCount)
Other(path) == CHOOSE p \in Paths : p # path
-----------------------------------------------------------------------------
(* The state document, transport-state.json. *)

Evidence == [path : Paths, reason : Reasons \cup {"healthy", "packet_loss"},
             confirmations : Count, observed : Age]
\* started_at rides along with the evidence for the preferred path.
Recovery == [evidence : Evidence, started : Age]
NotRecovered == -1
Retry == [attempts : Count, failed : Age, recovered : Age \cup {NotRecovered}]
SwitchFailure == [target : Paths, attempts : Count, failed : Age]
\* The null of the document is no record.
ASSUME NoneAssumption == None \notin Evidence \cup Recovery \cup Retry \cup SwitchFailure
Samples == {"none", "inconclusive", "degraded", "healthy"}
States == {"healthy", "inconclusive", "suspect", "degraded", "recovering", "failed",
           "maintenance"}

NoDocument ==
    [selected |-> None, state |-> "failed", updated |-> AgeCap,
     failure |-> None, alternate_health |-> None, quality_failure |-> None,
     preferred_recovery |-> None, preferred_probe_at |-> AgeCap,
     preferred_retry |-> None, quality_probe_at |-> AgeCap,
     last_quality_probe |-> "none",
     switch_backoff |-> None, last_switch_failure |-> None]

Document ==
    [selected : Paths \cup {None}, state : States, updated : Age,
     failure : Evidence \cup {None}, alternate_health : Evidence \cup {None},
     quality_failure : Evidence \cup {None},
     preferred_recovery : Recovery \cup {None}, preferred_probe_at : Age,
     preferred_retry : Retry \cup {None}, quality_probe_at : Age,
     last_quality_probe : Samples,
     switch_backoff : SwitchFailure \cup {None},
     last_switch_failure : SwitchFailure \cup {None}]

\* The same document read d seconds later.
Older(age, d, last) == Least(age + d, last)
OlderEvidence(e, d, gap) ==
    IF e = None THEN None ELSE [e EXCEPT !.observed = Older(@, d, gap + 1)]
OlderFailure(f, d) ==
    IF f = None THEN None ELSE [f EXCEPT !.failed = Older(@, d, FailureMemory)]
OlderRetry(r, d) ==
    IF r = None THEN None
    ELSE [r EXCEPT !.failed = Older(@, d, RetryMax),
                   !.recovered = IF @ = NotRecovered THEN @
                                 ELSE Older(@, d, StableReset)]
OlderRecovery(r, d) ==
    IF r = None THEN None
    ELSE [r EXCEPT !.evidence = OlderEvidence(@, d, PreferredGap),
                   !.started = Older(@, d, RecoverySeconds)]
Aged(document, d) ==
    [selected |-> document.selected, state |-> document.state,
     updated |-> Older(document.updated, d, EvidenceGap + 1),
     failure |-> OlderEvidence(document.failure, d, EvidenceGap),
     alternate_health |-> OlderEvidence(document.alternate_health, d, EvidenceGap),
     quality_failure |-> OlderEvidence(document.quality_failure, d, QualityGap),
     preferred_recovery |-> OlderRecovery(document.preferred_recovery, d),
     preferred_probe_at |-> Older(document.preferred_probe_at, d, PreferredGap + 1),
     preferred_retry |-> OlderRetry(document.preferred_retry, d),
     quality_probe_at |-> Older(document.quality_probe_at, d, QualityInterval),
     last_quality_probe |-> document.last_quality_probe,
     switch_backoff |-> OlderFailure(document.switch_backoff, d),
     last_switch_failure |-> OlderFailure(document.last_switch_failure, d)]
-----------------------------------------------------------------------------
(* Evidence and retry history. *)

\* The relation of two instants: every cycle has an instant of its own, so the
\* code's "same" does not arise and what is not "next" is "reset".
Continues(age, gap) == 0 < age /\ age <= gap

\* Mutant: new evidence starts without its first confirmation.
NextEvidenceFromZero(prior, path, reason, age, gap) ==
    LET continuous == /\ prior # None /\ prior.path = path /\ prior.reason = reason
                      /\ Continues(age, gap) /\ Continues(prior.observed, gap) IN
    [path |-> path, reason |-> reason, observed |-> 0,
     confirmations |-> IF continuous THEN More(prior.confirmations) ELSE 0]
NextEvidence(prior, path, reason, age, gap) ==
    LET continuous == /\ prior # None /\ prior.path = path /\ prior.reason = reason
                      /\ Continues(age, gap) /\ Continues(prior.observed, gap) IN
    [path |-> path, reason |-> reason, observed |-> 0,
     confirmations |-> IF continuous THEN More(prior.confirmations) ELSE 1]

\* Mutant: a retry window never defers anything.
RetryIgnored(retry) == FALSE
\* Mutant: a retry window never ends.
RetryForever(retry) == retry # None
RetryActive(retry) ==
    retry # None /\ retry.failed < Delay(RetryBase, RetryMax, retry.attempts)

NextRetry(retry) ==
    [attempts |->
        IF retry # None /\ (retry.recovered = NotRecovered \/ retry.recovered < StableReset)
        THEN More(retry.attempts) ELSE 1,
     failed |-> 0, recovered |-> NotRecovered]

\* _preferred_recovery_details without and with mark_recovered.
KeepRetry(retry) ==
    IF retry # None /\ retry.recovered >= StableReset THEN None ELSE retry
MarkRecovered(retry) ==
    KeepRetry(IF retry # None /\ retry.recovered = NotRecovered
              THEN [retry EXCEPT !.recovered = 0] ELSE retry)

\* What a cycle on `selected' may build on: the whole document when the last
\* cycle saw the same path, else only the retry history.  (A document is never
\* written with would_switch set, so the code's failed_switch does not arise.)
PriorFor(document, selected) ==
    IF document.selected = selected THEN document
    ELSE [NoDocument EXCEPT !.preferred_retry = KeepRetry(document.preferred_retry)]
-----------------------------------------------------------------------------
(* Probes: what the cycle learned about each path. *)

SelectedProbe == [ok : BOOLEAN, reason : Reasons \cup {None}, quality : Samples,
                  fresh : BOOLEAN]
AlternateProbe == [checked : BOOLEAN, ok : BOOLEAN, quality : Samples]

\* What the policy says; selected as target means stay.
Decision ==
    [state : States, target : Paths, hard : BOOLEAN,
     failure : Evidence \cup {None}, alternate_health : Evidence \cup {None},
     quality_failure : Evidence \cup {None}, preferred_recovery : Recovery \cup {None},
     preferred_probe_at : Age, preferred_retry : Retry \cup {None}]

Stay(selected, state, prior) ==
    [state |-> state, target |-> selected, hard |-> FALSE,
     failure |-> None, alternate_health |-> None, quality_failure |-> None,
     preferred_recovery |-> None, preferred_probe_at |-> AgeCap,
     preferred_retry |-> KeepRetry(prior.preferred_retry)]

\* Not carrying the overlay: leave once this path has failed and the other one
\* has answered in enough cycles in a row.
OnFailure(selected, probe, alternate, prior) ==
    LET failure == NextEvidence(prior.failure, selected, probe.reason,
                                prior.updated, EvidenceGap)
        standby == IF alternate.ok
                   THEN NextEvidence(prior.alternate_health, Other(selected), "healthy",
                                     prior.updated, EvidenceGap)
                   ELSE None
        dead == failure.confirmations >= FailureConfirmations
        leave == /\ dead /\ standby # None
                 /\ standby.confirmations >= AlternateConfirmations
        state == IF leave THEN "recovering"
                 ELSE IF dead /\ standby = None THEN "failed" ELSE "suspect" IN
    [Stay(selected, state, prior) EXCEPT
        !.target = IF leave THEN Other(selected) ELSE selected,
        !.hard = dead, !.failure = failure, !.alternate_health = standby,
        !.preferred_retry = IF leave /\ selected = Preferred
                            THEN NextRetry(prior.preferred_retry) ELSE @]

ProbeTime(selected, alternate, prior) ==
    IF selected = Preferred THEN AgeCap
    ELSE IF alternate.checked THEN 0 ELSE prior.preferred_probe_at

OnInconclusive(selected, alternate, prior) ==
    [Stay(selected, "inconclusive", prior) EXCEPT
        !.preferred_probe_at = ProbeTime(selected, alternate, prior)]

AlternateClean(alternate) ==
    alternate.checked /\ alternate.ok /\ alternate.quality = "healthy"

\* Mutant: a bad answer of the other path leaves the evidence standing.
QualityEvidenceOutlivesBadPair(selected, probe, alternate, prior) ==
    LET own == IF prior.quality_failure # None /\ prior.quality_failure.path = selected
               THEN prior.quality_failure ELSE None
        age == IF own = None THEN AgeCap ELSE own.observed IN
    IF ~probe.fresh \/ ~AlternateClean(alternate)
    THEN IF Continues(age, QualityGap) THEN own ELSE None
    ELSE IF age < QualityInterval THEN own
    ELSE NextEvidence(own, selected, "packet_loss", age, QualityGap)
\* Fresh loss on this path paired with a clean sample of the other, at most once
\* per quality interval.
QualityEvidence(selected, probe, alternate, prior) ==
    LET own == IF prior.quality_failure # None /\ prior.quality_failure.path = selected
               THEN prior.quality_failure ELSE None
        age == IF own = None THEN AgeCap ELSE own.observed IN
    IF alternate.checked /\ ~AlternateClean(alternate) THEN None
    ELSE IF ~probe.fresh THEN IF Continues(age, QualityGap) THEN own ELSE None
    ELSE IF ~alternate.checked THEN None
    ELSE IF age < QualityInterval THEN own
    ELSE NextEvidence(own, selected, "packet_loss", age, QualityGap)

OnDegraded(selected, probe, alternate, prior) ==
    LET evidence == QualityEvidence(selected, probe, alternate, prior)
        \* Only evidence added in this cycle confirms.
        confirmed == /\ evidence # None /\ evidence.observed = 0
                     /\ evidence.confirmations >= FailureConfirmations
                     /\ evidence.confirmations >= AlternateConfirmations
        preferredBad == /\ selected # Preferred /\ alternate.checked
                        /\ ~alternate.ok \/ alternate.quality = "degraded"
        retry == IF preferredBad THEN NextRetry(prior.preferred_retry)
                 ELSE KeepRetry(prior.preferred_retry)
        leave == confirmed /\ ~(selected # Preferred /\ RetryActive(retry)) IN
    [Stay(selected, IF leave THEN "recovering" ELSE "degraded", prior) EXCEPT
        !.target = IF leave THEN Other(selected) ELSE selected,
        !.quality_failure = evidence,
        !.preferred_probe_at = ProbeTime(selected, alternate, prior),
        !.preferred_retry =
            IF ~leave THEN retry
            ELSE IF selected = Preferred THEN NextRetry(prior.preferred_retry)
            ELSE MarkRecovered(prior.preferred_retry)]

OnHealthyPreferred(prior) ==
    [Stay(Preferred, "healthy", prior) EXCEPT
        !.preferred_retry = MarkRecovered(prior.preferred_retry)]

\* Mutant: the clean window is not timed.
CleanWindowUntimed(recovery) ==
    recovery.evidence.confirmations >= RecoveryConfirmations
CleanWindow(recovery) ==
    /\ recovery.evidence.confirmations >= RecoveryConfirmations
    /\ recovery.started >= RecoverySeconds

\* A healthy fallback is kept until the preferred path has stayed clean through
\* a whole window of probes.
OnHealthyFallback(alternate, prior) ==
    LET own == prior.preferred_recovery
        evidence == NextEvidence(IF own = None THEN None ELSE own.evidence, Preferred,
                                 "healthy", prior.preferred_probe_at, PreferredGap)
        continuous == /\ own # None
                      /\ Continues(prior.preferred_probe_at, PreferredGap)
                      /\ Continues(own.evidence.observed, PreferredGap)
        recovery == [evidence |-> evidence,
                     started |-> IF continuous THEN own.started ELSE 0]
        retry == KeepRetry(prior.preferred_retry) IN
    IF ~alternate.checked
    THEN [Stay(Fallback, "healthy", prior) EXCEPT
            !.preferred_recovery = own,
            !.preferred_probe_at = prior.preferred_probe_at]
    ELSE IF ~alternate.ok \/ alternate.quality = "degraded"
    THEN [Stay(Fallback, "healthy", prior) EXCEPT
            !.preferred_probe_at = 0,
            !.preferred_retry = NextRetry(prior.preferred_retry)]
    ELSE [Stay(Fallback, "recovering", prior) EXCEPT
            !.target = IF CleanWindow(recovery) THEN Preferred ELSE Fallback,
            !.preferred_recovery = recovery,
            !.preferred_probe_at = 0,
            !.preferred_retry = IF CleanWindow(recovery) /\ retry # None
                                THEN [retry EXCEPT !.recovered = 0] ELSE retry]

\* evaluate_transport_policy.  The selected path is always probed here: the
\* caller writes a failed observation instead when it knows no selected path.
Evaluate(selected, probe, alternate, document) ==
    LET prior == PriorFor(document, selected) IN
    CASE ~probe.ok -> OnFailure(selected, probe, alternate, prior)
      [] probe.ok /\ probe.quality = "inconclusive" ->
            OnInconclusive(selected, alternate, prior)
      [] probe.ok /\ probe.quality = "degraded" ->
            OnDegraded(selected, probe, alternate, prior)
      [] probe.ok /\ probe.quality \in {"none", "healthy"} ->
            IF selected = Preferred THEN OnHealthyPreferred(prior)
            ELSE OnHealthyFallback(alternate, prior)
=============================================================================
