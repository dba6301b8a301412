----------------------- MODULE TransportFailoverProofs -----------------------
(***************************************************************************)
(* Proofs about TransportFailover and TransportHistory for every choice of *)
(* the time constants, confirmation thresholds and failure reasons.        *)
(*                                                                         *)
(* The inductive invariant of TransportFailover says what the failure      *)
(* evidence in the document is worth: it describes the very last cycle,    *)
(* and a cycle that left the window open.  That of TransportHistory        *)
(* relates the document to the record kept beside it: the document never   *)
(* claims more than what really happened, and forgets no failure or move   *)
(* sooner.                                                                 *)
(***************************************************************************)
EXTENDS TransportHistory, FiniteSetTheorems, TLAPS

NoneOr(S) == S \cup {None}
-----------------------------------------------------------------------------
(* Ages, counters and evidence. *)

LEMMA Bounds ==
    /\ AgeCap \in Nat /\ MaxCount \in Nat /\ 2 <= MaxCount
    /\ EvidenceGap \in Nat /\ EvidenceGap + 1 \in Age
    /\ QualityGap \in Nat /\ QualityGap + 1 \in Age
    /\ PreferredGap \in Nat /\ PreferredGap + 1 \in Age
    /\ RecoverySeconds \in Age /\ RetryMax \in Age /\ QualityInterval \in Age
    /\ StableReset \in Age /\ StableReset > 0 /\ FailureMemory \in Age
    /\ FailureConfirmations \in Nat /\ FailureConfirmations >= 2
    /\ AlternateConfirmations \in Nat /\ AlternateConfirmations >= 2
    /\ RecoveryConfirmations \in Nat /\ RecoveryConfirmations >= 2
  <1>1. AgeCap \in Nat /\ MaxCount \in Nat
    BY PolicyAssumption DEF PolicyAssumption
  <1>2. \A d \in {EvidenceGap, QualityGap, PreferredGap, RecoverySeconds, RetryMax,
                   StableReset, SwitchMax} : d \in Nat /\ 0 < d /\ d < AgeCap
    BY PolicyAssumption DEF PolicyAssumption, Durations
  <1>3. \A n \in Confirmations : n \in Nat /\ 2 <= n /\ n <= MaxCount
    BY PolicyAssumption DEF PolicyAssumption
  <1>4. QualityInterval \in 1..QualityGap
    BY PolicyAssumption DEF PolicyAssumption
  <1>5. /\ EvidenceGap \in Nat /\ EvidenceGap < AgeCap
        /\ QualityGap \in Nat /\ QualityGap < AgeCap
        /\ PreferredGap \in Nat /\ PreferredGap < AgeCap
        /\ RecoverySeconds \in Nat /\ RecoverySeconds < AgeCap
        /\ RetryMax \in Nat /\ RetryMax < AgeCap
        /\ StableReset \in Nat /\ 0 < StableReset /\ StableReset < AgeCap
        /\ SwitchMax \in Nat /\ SwitchMax < AgeCap
    BY <1>2
  <1>6. /\ FailureConfirmations \in Nat /\ FailureConfirmations >= 2
        /\ AlternateConfirmations \in Nat /\ AlternateConfirmations >= 2
        /\ RecoveryConfirmations \in Nat /\ RecoveryConfirmations >= 2
        /\ 2 <= MaxCount
    BY <1>1, <1>3 DEF Confirmations
  <1> QED  BY <1>1, <1>4, <1>5, <1>6 DEF Age, FailureMemory

LEMMA OlderType ==
    ASSUME NEW age \in Age, NEW d \in Nat, NEW last \in Age
    PROVE  Older(age, d, last) \in Age
  BY Bounds DEF Older, Least, Age

LEMMA MoreType ==
    ASSUME NEW n \in Count
    PROVE  More(n) \in Count
  BY Bounds DEF More, Least, Count

LEMMA NextEvidenceType ==
    ASSUME NEW prior \in NoneOr(Evidence), NEW path \in Paths,
           NEW reason \in Reasons \cup {"healthy", "packet_loss"},
           NEW age, NEW gap
    PROVE  NextEvidence(prior, path, reason, age, gap) \in Evidence
  <1>1. 1 \in Count /\ 0 \in Age
    BY Bounds DEF Count, Age
  <1>2. CASE prior = None
    BY <1>1, <1>2 DEF NextEvidence, Evidence
  <1>3. CASE prior \in Evidence
    <2>1. prior.confirmations \in Count
      BY <1>3 DEF Evidence
    <2>2. More(prior.confirmations) \in Count
      BY <2>1, MoreType
    <2> QED  BY <1>1, <2>2 DEF NextEvidence, Evidence
  <1> QED  BY <1>2, <1>3 DEF NoneOr

\* More than one confirmation means that the evidence continues.
LEMMA Confirmed ==
    ASSUME NEW prior, NEW path, NEW reason, NEW age, NEW gap,
           NextEvidence(prior, path, reason, age, gap).confirmations >= 2
    PROVE  /\ prior # None /\ prior.path = path /\ prior.reason = reason
           /\ Continues(age, gap)
  BY DEF NextEvidence

LEMMA OlderEvidenceType ==
    ASSUME NEW e \in NoneOr(Evidence), NEW d \in Nat, NEW gap, gap + 1 \in Age
    PROVE  OlderEvidence(e, d, gap) \in NoneOr(Evidence)
  <1>1. CASE e = None
    BY <1>1 DEF OlderEvidence, NoneOr
  <1>2. CASE e \in Evidence /\ e # None
    <2>1. Older(e.observed, d, gap + 1) \in Age
      BY <1>2, OlderType DEF Evidence
    <2> QED  BY <1>2, <2>1 DEF OlderEvidence, NoneOr, Evidence
  <1> QED  BY <1>1, <1>2 DEF NoneOr

LEMMA OlderFailureType ==
    ASSUME NEW f \in NoneOr(SwitchFailure), NEW d \in Nat
    PROVE  OlderFailure(f, d) \in NoneOr(SwitchFailure)
  <1>1. CASE f = None
    BY <1>1 DEF OlderFailure, NoneOr
  <1>2. CASE f \in SwitchFailure /\ f # None
    <2>1. Older(f.failed, d, FailureMemory) \in Age
      BY <1>2, OlderType, Bounds DEF SwitchFailure
    <2> QED  BY <1>2, <2>1 DEF OlderFailure, NoneOr, SwitchFailure
  <1> QED  BY <1>1, <1>2 DEF NoneOr

LEMMA OlderRetryType ==
    ASSUME NEW r \in NoneOr(Retry), NEW d \in Nat
    PROVE  OlderRetry(r, d) \in NoneOr(Retry)
  <1>1. CASE r = None
    BY <1>1 DEF OlderRetry, NoneOr
  <1>2. CASE r \in Retry /\ r # None
    <2>1. Older(r.failed, d, RetryMax) \in Age
      BY <1>2, OlderType, Bounds DEF Retry
    <2>2. (IF r.recovered = NotRecovered THEN r.recovered
           ELSE Older(r.recovered, d, StableReset)) \in Age \cup {NotRecovered}
      BY <1>2, OlderType, Bounds DEF Retry
    <2> QED  BY <1>2, <2>1, <2>2 DEF OlderRetry, NoneOr, Retry
  <1> QED  BY <1>1, <1>2 DEF NoneOr

LEMMA OlderRecoveryType ==
    ASSUME NEW r \in NoneOr(Recovery), NEW d \in Nat
    PROVE  OlderRecovery(r, d) \in NoneOr(Recovery)
  <1>1. CASE r = None
    BY <1>1 DEF OlderRecovery, NoneOr
  <1>2. CASE r \in Recovery /\ r # None
    <2>1. r.evidence \in Evidence /\ r.started \in Age
      BY <1>2 DEF Recovery
    <2>2. Older(r.started, d, RecoverySeconds) \in Age
      BY <2>1, OlderType, Bounds
    <2>3. OlderEvidence(r.evidence, d, PreferredGap) \in Evidence
      <3>1. Older(r.evidence.observed, d, PreferredGap + 1) \in Age
        BY <2>1, OlderType, Bounds DEF Evidence
      <3>2. OlderEvidence(r.evidence, d, PreferredGap)
              \in {r.evidence,
                   [r.evidence EXCEPT !.observed = Older(@, d, PreferredGap + 1)]}
        BY DEF OlderEvidence
      <3>3. [r.evidence EXCEPT !.observed = Older(@, d, PreferredGap + 1)] \in Evidence
        BY <2>1, <3>1 DEF Evidence
      <3> QED  BY <2>1, <3>2, <3>3
    <2> QED  BY <1>2, <2>2, <2>3 DEF OlderRecovery, NoneOr, Recovery
  <1> QED  BY <1>1, <1>2 DEF NoneOr

LEMMA AgedType ==
    ASSUME NEW doc \in Document, NEW d \in Nat
    PROVE  Aged(doc, d) \in Document
  <1>1. /\ doc.updated \in Age /\ doc.preferred_probe_at \in Age
        /\ doc.quality_probe_at \in Age
        /\ doc.failure \in NoneOr(Evidence) /\ doc.alternate_health \in NoneOr(Evidence)
        /\ doc.quality_failure \in NoneOr(Evidence)
        /\ doc.preferred_recovery \in NoneOr(Recovery)
        /\ doc.preferred_retry \in NoneOr(Retry)
        /\ doc.switch_backoff \in NoneOr(SwitchFailure)
        /\ doc.last_switch_failure \in NoneOr(SwitchFailure)
    BY DEF Document, NoneOr
  <1>2. /\ Older(doc.updated, d, EvidenceGap + 1) \in Age
        /\ Older(doc.preferred_probe_at, d, PreferredGap + 1) \in Age
        /\ Older(doc.quality_probe_at, d, QualityInterval) \in Age
    BY <1>1, OlderType, Bounds
  <1>3. /\ OlderEvidence(doc.failure, d, EvidenceGap) \in NoneOr(Evidence)
        /\ OlderEvidence(doc.alternate_health, d, EvidenceGap) \in NoneOr(Evidence)
        /\ OlderEvidence(doc.quality_failure, d, QualityGap) \in NoneOr(Evidence)
    BY <1>1, OlderEvidenceType, Bounds
  <1>4. /\ OlderRecovery(doc.preferred_recovery, d) \in NoneOr(Recovery)
        /\ OlderRetry(doc.preferred_retry, d) \in NoneOr(Retry)
        /\ OlderFailure(doc.switch_backoff, d) \in NoneOr(SwitchFailure)
        /\ OlderFailure(doc.last_switch_failure, d) \in NoneOr(SwitchFailure)
    BY <1>1, OlderRecoveryType, OlderRetryType, OlderFailureType
  <1>5. /\ doc.selected \in Paths \cup {None} /\ doc.state \in States
        /\ doc.last_quality_probe \in Samples
    BY DEF Document
  <1> QED  BY <1>2, <1>3, <1>4, <1>5 DEF Aged, Document, NoneOr

LEMMA RetryTypes ==
    ASSUME NEW retry \in NoneOr(Retry)
    PROVE  /\ NextRetry(retry) \in NoneOr(Retry)
           /\ KeepRetry(retry) \in NoneOr(Retry)
           /\ MarkRecovered(retry) \in NoneOr(Retry)
           /\ retry # None => [retry EXCEPT !.recovered = 0] \in NoneOr(Retry)
  <1>1. 1 \in Count /\ 0 \in Age
    BY Bounds DEF Count, Age
  <1>2. NextRetry(retry) \in Retry
    <2>1. retry # None => More(retry.attempts) \in Count
      BY MoreType DEF NoneOr, Retry
    <2>2. (IF /\ retry # None
              /\ retry.recovered = NotRecovered \/ retry.recovered < StableReset
           THEN More(retry.attempts) ELSE 1) \in Count
      BY <1>1, <2>1
    <2> QED  BY <1>1, <2>2 DEF NextRetry, Retry
  <1>3. \A r \in NoneOr(Retry) : KeepRetry(r) \in NoneOr(Retry)
    BY DEF KeepRetry, NoneOr
  <1>4. retry # None => [retry EXCEPT !.recovered = 0] \in NoneOr(Retry)
    BY <1>1 DEF NoneOr, Retry
  <1>5. MarkRecovered(retry) \in NoneOr(Retry)
    BY <1>3, <1>4 DEF MarkRecovered
  <1> QED  BY <1>2, <1>3, <1>4, <1>5 DEF NoneOr

LEMMA PriorType ==
    ASSUME NEW doc \in Document, NEW selected \in Paths
    PROVE  PriorFor(doc, selected) \in Document
  <1>1. KeepRetry(doc.preferred_retry) \in NoneOr(Retry)
    BY RetryTypes DEF Document, NoneOr
  <1>2. AgeCap \in Age
    BY Bounds DEF Age
  <1> QED  BY <1>1, <1>2 DEF PriorFor, NoDocument, Document, NoneOr, States, Samples

LEMMA OtherPath ==
    ASSUME NEW path \in Paths
    PROVE  Other(path) \in Paths /\ Other(path) # path
  <1>1. \E p \in Paths : p # path
    BY PolicyAssumption DEF PolicyAssumption, Paths
  <1> QED  BY <1>1, Zenon DEF Other
-----------------------------------------------------------------------------
(* The decision: its type, and what it takes to leave the selected path. *)

LEMMA StayType ==
    ASSUME NEW selected \in Paths, NEW state \in States, NEW prior \in Document
    PROVE  Stay(selected, state, prior) \in Decision
  <1>1. prior.preferred_retry \in NoneOr(Retry)
    BY DEF Document, NoneOr
  <1>2. KeepRetry(prior.preferred_retry) \in NoneOr(Retry)
    BY <1>1, RetryTypes
  <1>3. AgeCap \in Age
    BY Bounds DEF Age
  <1> QED  BY <1>2, <1>3 DEF Stay, Decision, NoneOr

\* Leaving a path that does not carry the overlay takes two confirmations of its
\* failure and two of the other path's answer.
LEMMA OnFailureResult ==
    ASSUME NEW selected \in Paths, NEW probe \in SelectedProbe, probe.reason \in Reasons,
           NEW alternate \in AlternateProbe, NEW prior \in Document
    PROVE  LET decision == OnFailure(selected, probe, alternate, prior) IN
           /\ decision \in Decision
           /\ decision.preferred_recovery = None /\ decision.quality_failure = None
           /\ decision.failure # None =>
                 decision.failure.path = selected /\ decision.failure.reason = probe.reason
           /\ decision.alternate_health # None => alternate.ok
           /\ decision.target # selected =>
                 /\ prior.failure # None /\ prior.alternate_health # None
                 /\ prior.failure.path = selected /\ prior.failure.reason = probe.reason
                 /\ Continues(prior.updated, EvidenceGap)
                 /\ alternate.ok
  <1> DEFINE failure == NextEvidence(prior.failure, selected, probe.reason,
                                     prior.updated, EvidenceGap)
             answered == NextEvidence(prior.alternate_health, Other(selected), "healthy",
                                      prior.updated, EvidenceGap)
             standby == IF alternate.ok THEN answered ELSE None
             dead == failure.confirmations >= FailureConfirmations
             leave == /\ dead /\ standby # None
                      /\ standby.confirmations >= AlternateConfirmations
             state == IF leave THEN "recovering"
                      ELSE IF dead /\ standby = None THEN "failed" ELSE "suspect"
             retry == IF leave /\ selected = Preferred
                      THEN NextRetry(prior.preferred_retry)
                      ELSE Stay(selected, state, prior).preferred_retry
             decision == OnFailure(selected, probe, alternate, prior)
  <1>1. failure \in Evidence /\ failure.path = selected /\ failure.reason = probe.reason
    <2>1. prior.failure \in NoneOr(Evidence)
      BY DEF Document, NoneOr
    <2>2. failure \in Evidence
      BY <2>1, NextEvidenceType
    <2> QED  BY <2>2 DEF NextEvidence
  <1>2. answered \in Evidence
    <2>1. prior.alternate_health \in NoneOr(Evidence)
      BY DEF Document, NoneOr
    <2> QED  BY <2>1, OtherPath, NextEvidenceType
  <1>3. standby \in NoneOr(Evidence) /\ (standby # None => alternate.ok)
    BY <1>2 DEF NoneOr
  <1>4. state \in States
    BY DEF States
  <1>5. Stay(selected, state, prior) \in Decision
    BY <1>4, StayType
  <1>6. retry \in NoneOr(Retry)
    <2>1. NextRetry(prior.preferred_retry) \in NoneOr(Retry)
      BY RetryTypes DEF Document, NoneOr
    <2>2. Stay(selected, state, prior).preferred_retry \in NoneOr(Retry)
      BY <1>5 DEF Decision, NoneOr
    <2> QED  BY <2>1, <2>2
  <1>7. leave => /\ prior.failure # None /\ prior.alternate_health # None
                 /\ prior.failure.path = selected /\ prior.failure.reason = probe.reason
                 /\ Continues(prior.updated, EvidenceGap)
                 /\ alternate.ok
    <2> SUFFICES ASSUME leave
                 PROVE  /\ prior.failure # None /\ prior.alternate_health # None
                        /\ prior.failure.path = selected
                        /\ prior.failure.reason = probe.reason
                        /\ Continues(prior.updated, EvidenceGap)
                        /\ alternate.ok
      OBVIOUS
    <2>1. failure.confirmations >= 2
      <3>1. failure.confirmations \in Nat
        BY <1>1, Bounds DEF Evidence, Count
      <3> QED  BY <3>1, Bounds
    <2>2. alternate.ok /\ standby = answered
      BY <1>3
    <2>3. answered.confirmations >= 2
      <3>1. answered.confirmations \in Nat
        BY <1>2, Bounds DEF Evidence, Count
      <3>2. answered.confirmations >= AlternateConfirmations
        BY <2>2
      <3> QED  BY <3>1, <3>2, Bounds
    <2>4. /\ prior.failure # None /\ prior.failure.path = selected
          /\ prior.failure.reason = probe.reason /\ Continues(prior.updated, EvidenceGap)
      BY <2>1, Confirmed
    <2>5. prior.alternate_health # None
      BY <2>3, Confirmed
    <2> QED  BY <2>2, <2>4, <2>5
  <1> DEFINE target == IF leave THEN Other(selected) ELSE selected
  <1>8. target \in Paths /\ (target # selected => leave)
    BY OtherPath
  <1>9. decision = [Stay(selected, state, prior) EXCEPT
                      !.target = target, !.hard = dead, !.failure = failure,
                      !.alternate_health = standby, !.preferred_retry = retry]
    BY DEF OnFailure
  <1>10. dead \in BOOLEAN
    OBVIOUS
  <1> HIDE DEF failure, standby, dead, leave, state, retry, target, decision
  <1>11. /\ decision \in Decision
         /\ decision.target = target /\ decision.failure = failure
         /\ decision.alternate_health = standby
    BY <1>1, <1>3, <1>5, <1>6, <1>8, <1>9, <1>10 DEF Decision, NoneOr
  <1>12. decision.preferred_recovery = None /\ decision.quality_failure = None
    BY <1>9 DEF Stay
  <1> QED  BY <1>1, <1>3, <1>7, <1>8, <1>11, <1>12 DEF decision

LEMMA ProbeTimeType ==
    ASSUME NEW selected \in Paths, NEW alternate \in AlternateProbe, NEW prior \in Document
    PROVE  ProbeTime(selected, alternate, prior) \in Age
  <1>1. prior.preferred_probe_at \in Age
    BY DEF Document
  <1>2. 0 \in Age /\ AgeCap \in Age
    BY Bounds DEF Age
  <1> QED  BY <1>1, <1>2 DEF ProbeTime

LEMMA OnInconclusiveResult ==
    ASSUME NEW selected \in Paths, NEW alternate \in AlternateProbe, NEW prior \in Document
    PROVE  LET decision == OnInconclusive(selected, alternate, prior) IN
           /\ decision \in Decision
           /\ decision.failure = None /\ decision.alternate_health = None
           /\ decision.target = selected
  <1>1. Stay(selected, "inconclusive", prior) \in Decision
    BY StayType DEF States
  <1>2. ProbeTime(selected, alternate, prior) \in Age
    BY ProbeTimeType
  <1>3. OnInconclusive(selected, alternate, prior) \in Decision
    BY <1>1, <1>2 DEF OnInconclusive, Decision
  <1>4. /\ OnInconclusive(selected, alternate, prior).failure = None
        /\ OnInconclusive(selected, alternate, prior).alternate_health = None
        /\ OnInconclusive(selected, alternate, prior).target = selected
    BY DEF OnInconclusive, Stay
  <1> QED  BY <1>3, <1>4

\* Evidence of loss with a second confirmation continues earlier evidence.
LEMMA QualityEvidenceResult ==
    ASSUME NEW selected \in Paths, NEW probe \in SelectedProbe,
           NEW alternate \in AlternateProbe, NEW prior \in Document
    PROVE  LET evidence == QualityEvidence(selected, probe, alternate, prior) IN
           /\ evidence \in NoneOr(Evidence)
           /\ evidence # None /\ evidence.confirmations >= 2
                 => prior.quality_failure # None
  <1> DEFINE own == IF prior.quality_failure # None /\ prior.quality_failure.path = selected
                    THEN prior.quality_failure ELSE None
             age == IF own = None THEN AgeCap ELSE own.observed
             next == NextEvidence(own, selected, "packet_loss", age, QualityGap)
  <1>1. prior.quality_failure \in NoneOr(Evidence)
    BY DEF Document, NoneOr
  <1>2. own \in NoneOr(Evidence)
    BY <1>1 DEF NoneOr
  <1>3. next \in Evidence
    BY <1>2, NextEvidenceType
  <1>4. QualityEvidence(selected, probe, alternate, prior) \in {None, own, next}
    BY DEF QualityEvidence
  <1>5. own # None => prior.quality_failure # None
    OBVIOUS
  <1>6. next.confirmations >= 2 => own # None
    BY Confirmed
  <1> HIDE DEF own, next
  <1> QED  BY <1>2, <1>3, <1>4, <1>5, <1>6 DEF NoneOr

\* Leaving a lossy path takes earlier evidence of loss.
LEMMA OnDegradedResult ==
    ASSUME NEW selected \in Paths, NEW probe \in SelectedProbe,
           NEW alternate \in AlternateProbe, NEW prior \in Document
    PROVE  LET decision == OnDegraded(selected, probe, alternate, prior) IN
           /\ decision \in Decision
           /\ decision.failure = None /\ decision.alternate_health = None
           /\ decision.target # selected => prior.quality_failure # None
  <1> DEFINE evidence == QualityEvidence(selected, probe, alternate, prior)
             confirmed == /\ evidence # None /\ evidence.observed = 0
                          /\ evidence.confirmations >= FailureConfirmations
                          /\ evidence.confirmations >= AlternateConfirmations
             preferredBad == /\ selected # Preferred /\ alternate.checked
                             /\ ~alternate.ok \/ alternate.quality = "degraded"
             retry == IF preferredBad THEN NextRetry(prior.preferred_retry)
                      ELSE KeepRetry(prior.preferred_retry)
             leave == confirmed /\ ~(selected # Preferred /\ RetryActive(retry))
             state == IF leave THEN "recovering" ELSE "degraded"
             target == IF leave THEN Other(selected) ELSE selected
             time == ProbeTime(selected, alternate, prior)
             kept == IF ~leave THEN retry
                     ELSE IF selected = Preferred THEN NextRetry(prior.preferred_retry)
                     ELSE MarkRecovered(prior.preferred_retry)
  <1>1. /\ evidence \in NoneOr(Evidence)
        /\ evidence # None /\ evidence.confirmations >= 2 => prior.quality_failure # None
    BY QualityEvidenceResult
  <1>2. confirmed => prior.quality_failure # None
    <2> SUFFICES ASSUME confirmed PROVE prior.quality_failure # None
      OBVIOUS
    <2>1. evidence.confirmations \in Nat
      BY <1>1, Bounds DEF NoneOr, Evidence, Count
    <2>2. evidence.confirmations >= 2
      BY <2>1, Bounds
    <2> QED  BY <1>1, <2>2
  <1>3. prior.preferred_retry \in NoneOr(Retry)
    BY DEF Document, NoneOr
  <1>4. /\ NextRetry(prior.preferred_retry) \in NoneOr(Retry)
        /\ KeepRetry(prior.preferred_retry) \in NoneOr(Retry)
        /\ MarkRecovered(prior.preferred_retry) \in NoneOr(Retry)
    BY <1>3, RetryTypes
  <1>5. kept \in NoneOr(Retry)
    BY <1>4
  <1>6. Stay(selected, state, prior) \in Decision
    BY StayType DEF States
  <1>7. time \in Age
    BY ProbeTimeType
  <1>8. target \in Paths /\ (target # selected => confirmed)
    BY OtherPath
  <1>9. OnDegraded(selected, probe, alternate, prior)
          = [Stay(selected, state, prior) EXCEPT
               !.target = target, !.quality_failure = evidence,
               !.preferred_probe_at = time, !.preferred_retry = kept]
    BY DEF OnDegraded
  <1> HIDE DEF evidence, confirmed, preferredBad, retry, leave, state, target, time, kept
  <1>10. /\ OnDegraded(selected, probe, alternate, prior) \in Decision
         /\ OnDegraded(selected, probe, alternate, prior).target = target
    BY <1>1, <1>5, <1>6, <1>7, <1>8, <1>9 DEF Decision, NoneOr
  <1>11. /\ OnDegraded(selected, probe, alternate, prior).failure = None
         /\ OnDegraded(selected, probe, alternate, prior).alternate_health = None
    BY <1>9 DEF Stay
  <1> QED  BY <1>2, <1>8, <1>10, <1>11

LEMMA OnHealthyPreferredResult ==
    ASSUME NEW prior \in Document
    PROVE  LET decision == OnHealthyPreferred(prior) IN
           /\ decision \in Decision
           /\ decision.failure = None /\ decision.alternate_health = None
           /\ decision.target = Preferred
  <1>1. Stay(Preferred, "healthy", prior) \in Decision
    BY StayType DEF States, Paths
  <1>2. prior.preferred_retry \in NoneOr(Retry)
    BY DEF Document, NoneOr
  <1>3. MarkRecovered(prior.preferred_retry) \in NoneOr(Retry)
    BY <1>2, RetryTypes
  <1>4. OnHealthyPreferred(prior) \in Decision
    BY <1>1, <1>3 DEF OnHealthyPreferred, Decision, NoneOr
  <1>5. /\ OnHealthyPreferred(prior).failure = None
        /\ OnHealthyPreferred(prior).alternate_health = None
        /\ OnHealthyPreferred(prior).target = Preferred
    BY DEF OnHealthyPreferred, Stay
  <1> QED  BY <1>4, <1>5

\* Returning to the preferred path takes earlier evidence of its recovery.
LEMMA OnHealthyFallbackResult ==
    ASSUME NEW alternate \in AlternateProbe, NEW prior \in Document
    PROVE  LET decision == OnHealthyFallback(alternate, prior) IN
           /\ decision \in Decision
           /\ decision.failure = None /\ decision.alternate_health = None
           /\ decision.target # Fallback => prior.preferred_recovery # None
  <1> DEFINE own == prior.preferred_recovery
             before == IF own = None THEN None ELSE own.evidence
             evidence == NextEvidence(before, Preferred, "healthy",
                                      prior.preferred_probe_at, PreferredGap)
             continuous == /\ own # None
                           /\ Continues(prior.preferred_probe_at, PreferredGap)
                           /\ Continues(own.evidence.observed, PreferredGap)
             started == IF continuous THEN own.started ELSE 0
             recovery == [evidence |-> evidence, started |-> started]
             retry == KeepRetry(prior.preferred_retry)
             kept == IF CleanWindow(recovery) /\ retry # None
                     THEN [retry EXCEPT !.recovered = 0] ELSE retry
             target == IF CleanWindow(recovery) THEN Preferred ELSE Fallback
             unprobed == [Stay(Fallback, "healthy", prior) EXCEPT
                            !.preferred_recovery = own,
                            !.preferred_probe_at = prior.preferred_probe_at]
             bad == [Stay(Fallback, "healthy", prior) EXCEPT
                       !.preferred_probe_at = 0,
                       !.preferred_retry = NextRetry(prior.preferred_retry)]
             good == [Stay(Fallback, "recovering", prior) EXCEPT
                        !.target = target, !.preferred_recovery = recovery,
                        !.preferred_probe_at = 0, !.preferred_retry = kept]
  <1>1. own \in NoneOr(Recovery) /\ prior.preferred_retry \in NoneOr(Retry)
        /\ prior.preferred_probe_at \in Age
    BY DEF Document, NoneOr
  <1>2. before \in NoneOr(Evidence) /\ (own # None => own.started \in Age)
    BY <1>1 DEF NoneOr, Recovery
  <1>3. evidence \in Evidence
    BY <1>2, NextEvidenceType DEF Paths
  <1>4. 0 \in Age
    BY Bounds DEF Age
  <1>5. started \in Age
    BY <1>2, <1>4
  <1>6. recovery \in Recovery
    BY <1>3, <1>5 DEF Recovery
  <1>7. retry \in NoneOr(Retry) /\ NextRetry(prior.preferred_retry) \in NoneOr(Retry)
    BY <1>1, RetryTypes
  <1>8. kept \in NoneOr(Retry)
    BY <1>7, RetryTypes
  <1>9. target \in Paths
    BY DEF Paths
  <1>10. target # Fallback => own # None
    <2> SUFFICES ASSUME CleanWindow(recovery) PROVE own # None
      OBVIOUS
    <2>1. evidence.confirmations \in Nat
      BY <1>3, Bounds DEF Evidence, Count
    <2>2. evidence.confirmations >= 2
      BY <2>1, Bounds DEF CleanWindow
    <2>3. before # None
      BY <2>2, Confirmed
    <2> QED  BY <2>3
  <1>11. /\ Stay(Fallback, "healthy", prior) \in Decision
         /\ Stay(Fallback, "recovering", prior) \in Decision
    BY StayType DEF States, Paths
  <1>12. OnHealthyFallback(alternate, prior) \in {unprobed, bad, good}
    BY DEF OnHealthyFallback
  <1> HIDE DEF own, evidence, recovery, retry, kept, target
  <1>13. /\ unprobed \in Decision /\ unprobed.failure = None
         /\ unprobed.alternate_health = None /\ unprobed.target = Fallback
    <2>1. unprobed \in Decision
      BY <1>1, <1>11 DEF Decision, NoneOr
    <2> QED  BY <2>1 DEF Stay
  <1>14. /\ bad \in Decision /\ bad.failure = None
         /\ bad.alternate_health = None /\ bad.target = Fallback
    <2>1. bad \in Decision
      BY <1>4, <1>7, <1>11 DEF Decision, NoneOr
    <2> QED  BY <2>1 DEF Stay
  <1>15. /\ good \in Decision /\ good.failure = None
         /\ good.alternate_health = None /\ good.target = target
    <2>1. good \in Decision
      BY <1>4, <1>6, <1>8, <1>9, <1>11 DEF Decision, NoneOr
    <2> QED  BY <2>1 DEF Stay
  <1> HIDE DEF unprobed, bad, good
  <1> QED  BY <1>10, <1>12, <1>13, <1>14, <1>15 DEF own

\* The whole policy.  A path that does not carry the overlay is left only on the
\* evidence of the previous cycle, a path that does only on evidence of loss or of
\* recovery.
LEMMA EvaluateResult ==
    ASSUME NEW selected \in Paths, NEW probe \in SelectedProbe,
           ~probe.ok => probe.reason \in Reasons,
           NEW alternate \in AlternateProbe, NEW doc \in Document
    PROVE  LET decision == Evaluate(selected, probe, alternate, doc) IN
           /\ decision \in Decision
           /\ decision.failure # None =>
                 /\ ~probe.ok
                 /\ decision.failure.path = selected /\ decision.failure.reason = probe.reason
           /\ decision.alternate_health # None => ~probe.ok /\ alternate.ok
           /\ ~probe.ok =>
                 decision.preferred_recovery = None /\ decision.quality_failure = None
           /\ decision.target # selected /\ ~probe.ok =>
                 /\ doc.failure # None /\ doc.alternate_health # None
                 /\ doc.failure.path = selected /\ doc.failure.reason = probe.reason
                 /\ Continues(doc.updated, EvidenceGap)
                 /\ alternate.ok
           /\ decision.target # selected /\ probe.ok =>
                 doc.quality_failure # None \/ doc.preferred_recovery # None
  <1> DEFINE prior == PriorFor(doc, selected)
             decision == Evaluate(selected, probe, alternate, doc)
  <1>1. prior \in Document
    BY PriorType
  <1>2. /\ prior.failure # None \/ prior.quality_failure # None
                \/ prior.preferred_recovery # None \/ prior.alternate_health # None
              => prior = doc
    BY DEF PriorFor, NoDocument
  <1> HIDE DEF prior
  <1>3. CASE ~probe.ok
    <2>1. decision = OnFailure(selected, probe, alternate, prior)
      BY <1>3 DEF Evaluate, prior
    <2> HIDE DEF decision
    <2> QED  BY <1>1, <1>2, <1>3, <2>1, OnFailureResult DEF decision
  <1>4. CASE probe.ok /\ probe.quality = "inconclusive"
    <2>1. decision = OnInconclusive(selected, alternate, prior)
      BY <1>4 DEF Evaluate, prior
    <2> HIDE DEF decision
    <2> QED  BY <1>1, <1>4, <2>1, OnInconclusiveResult DEF decision
  <1>5. CASE probe.ok /\ probe.quality = "degraded"
    <2>1. decision = OnDegraded(selected, probe, alternate, prior)
      BY <1>5 DEF Evaluate, prior
    <2> HIDE DEF decision
    <2> QED  BY <1>1, <1>2, <1>5, <2>1, OnDegradedResult DEF decision
  <1>6. CASE probe.ok /\ probe.quality \in {"none", "healthy"} /\ selected = Preferred
    <2>1. decision = OnHealthyPreferred(prior)
      BY <1>6 DEF Evaluate, prior
    <2> HIDE DEF decision
    <2> QED  BY <1>1, <1>6, <2>1, OnHealthyPreferredResult DEF decision
  <1>7. CASE probe.ok /\ probe.quality \in {"none", "healthy"} /\ selected # Preferred
    <2>1. decision = OnHealthyFallback(alternate, prior) /\ selected = Fallback
      BY <1>7 DEF Evaluate, prior, Paths
    <2> HIDE DEF decision
    <2> QED  BY <1>1, <1>2, <1>7, <2>1, OnHealthyFallbackResult DEF decision
  <1>8. probe.ok \in BOOLEAN /\ probe.quality \in Samples
    BY DEF SelectedProbe
  <1> QED  BY <1>3, <1>4, <1>5, <1>6, <1>7, <1>8 DEF Samples
-----------------------------------------------------------------------------
(* The invariant. *)

\* What the evidence in the document is worth: it was written by the last cycle,
\* about what that cycle met, and no attempt was published since.  Evidence of loss
\* or of recovery excludes it.
Describes(doc) ==
    /\ doc.failure # None =>
          /\ doc.failure.path = seen.path /\ doc.failure.reason = seen.overlay
          /\ seen.result \in Unpublished
          /\ doc.preferred_recovery = None /\ doc.quality_failure = None
    /\ doc.alternate_health # None =>
          /\ seen.other # "bad"
          /\ doc.preferred_recovery = None /\ doc.quality_failure = None

Inv == TypeOK /\ Describes(document)

LEMMA ElapsedIsAge ==
    ASSUME NEW d \in Elapsed
    PROVE  d \in Age /\ d \in Nat /\ d > 0
  BY ControllerAssumption, Bounds DEF ControllerAssumption, Age

\* Reading the document later does not change what it says.
LEMMA AgedDescribes ==
    ASSUME NEW doc \in Document, NEW d \in Elapsed, Describes(doc)
    PROVE  /\ Aged(doc, d) \in Document
           /\ Describes(Aged(doc, d))
           /\ Continues(Aged(doc, d).updated, EvidenceGap) => d <= EvidenceGap
  <1> DEFINE aged == Aged(doc, d)
  <1>1. aged \in Document
    BY ElapsedIsAge, AgedType
  <1>2. /\ doc.failure \in NoneOr(Evidence) /\ doc.updated \in Age
        /\ doc.alternate_health \in NoneOr(Evidence)
    BY DEF Document, NoneOr
  <1>3. /\ aged.failure = OlderEvidence(doc.failure, d, EvidenceGap)
        /\ aged.alternate_health = OlderEvidence(doc.alternate_health, d, EvidenceGap)
        /\ aged.quality_failure = OlderEvidence(doc.quality_failure, d, QualityGap)
        /\ aged.preferred_recovery = OlderRecovery(doc.preferred_recovery, d)
        /\ aged.updated = Older(doc.updated, d, EvidenceGap + 1)
    BY DEF Aged
  <1>4. /\ doc.failure = None => aged.failure = None
        /\ doc.alternate_health = None => aged.alternate_health = None
        /\ doc.quality_failure = None => aged.quality_failure = None
        /\ doc.preferred_recovery = None => aged.preferred_recovery = None
    BY <1>3 DEF OlderEvidence, OlderRecovery
  <1>5. doc.failure # None => /\ aged.failure.path = doc.failure.path
                              /\ aged.failure.reason = doc.failure.reason
    BY <1>2, <1>3 DEF OlderEvidence, NoneOr, Evidence
  <1>6. Continues(aged.updated, EvidenceGap) => d <= EvidenceGap
    BY <1>2, <1>3, ElapsedIsAge, Bounds DEF Continues, Older, Least, Age
  <1> HIDE DEF aged
  <1>7. Describes(aged)
    BY <1>4, <1>5 DEF Describes
  <1> QED  BY <1>1, <1>6, <1>7 DEF aged

LEMMA ProbeSelectedResult ==
    ASSUME NEW doc \in Document, NEW overlay \in Overlays,
           NEW sample \in FreshSamples \cup {"none"}
    PROVE  LET probe == ProbeSelected(doc, overlay, sample) IN
           /\ probe \in SelectedProbe
           /\ probe.ok = (overlay = "ok")
           /\ ~probe.ok => probe.reason = overlay /\ probe.reason \in Reasons
  <1>1. (IF overlay = "ok" THEN None ELSE overlay) \in Reasons \cup {None}
    BY DEF Overlays
  <1>2. doc.last_quality_probe \in Samples
    BY DEF Document
  <1>3. (IF sample # "none" THEN sample
         ELSE IF overlay = "ok" THEN doc.last_quality_probe ELSE "none") \in Samples
    BY <1>2 DEF FreshSamples, Samples
  <1> QED  BY <1>1, <1>3 DEF ProbeSelected, SelectedProbe, Overlays

LEMMA ProbeAlternateResult ==
    ASSUME NEW doc, NEW probe, NEW answer \in Answers \cup {"none"}
    PROVE  LET alternate == ProbeAlternate(doc, probe, answer) IN
           /\ alternate \in AlternateProbe
           /\ alternate.ok => answer # "bad"
  BY DEF ProbeAlternate, AlternateProbe, Answers, Samples

LEMMA SwitchHistoryType ==
    ASSUME NEW doc \in Document, NEW target \in Paths
    PROVE  /\ SwitchBackoff(doc, target) \in NoneOr(SwitchFailure)
           /\ SwitchFailureHistory(doc, target) \in NoneOr(SwitchFailure)
           /\ NextSwitchFailure(doc, target) \in SwitchFailure
  <1>1. /\ doc.switch_backoff \in NoneOr(SwitchFailure)
        /\ doc.last_switch_failure \in NoneOr(SwitchFailure)
    BY DEF Document, NoneOr
  <1>2. SwitchBackoff(doc, target) \in NoneOr(SwitchFailure)
    BY <1>1 DEF SwitchBackoff, NoneOr
  <1>3. SwitchFailureHistory(doc, target) \in NoneOr(SwitchFailure)
    BY <1>1 DEF SwitchFailureHistory, NoneOr
  <1>4. 1 \in Count /\ 0 \in Age
    BY Bounds DEF Count, Age
  <1>5. (IF SwitchFailureHistory(doc, target) = None THEN 1
         ELSE More(SwitchFailureHistory(doc, target).attempts)) \in Count
    BY <1>3, <1>4, MoreType DEF NoneOr, SwitchFailure
  <1>6. NextSwitchFailure(doc, target) \in SwitchFailure
    BY <1>4, <1>5 DEF NextSwitchFailure, SwitchFailure
  <1> QED  BY <1>2, <1>3, <1>6

LEMMA ObservedType ==
    ASSUME NEW doc \in Document, NEW probe \in SelectedProbe, NEW decision \in Decision,
           selector \in Paths
    PROVE  /\ Observed(doc, probe, decision) \in Document
           /\ \A state \in States :
                 [Observed(doc, probe, decision) EXCEPT !.state = state] \in Document
  <1>1. /\ SwitchBackoff(doc, Other(selector)) \in NoneOr(SwitchFailure)
        /\ SwitchFailureHistory(doc, Other(selector)) \in NoneOr(SwitchFailure)
    BY SwitchHistoryType, OtherPath
  <1>2. 0 \in Age
    BY Bounds DEF Age
  <1>3. (IF probe.fresh THEN 0 ELSE doc.quality_probe_at) \in Age
    BY <1>2 DEF Document
  <1>4. (IF probe.fresh THEN probe.quality ELSE doc.last_quality_probe) \in Samples
    BY DEF Document, SelectedProbe
  <1>5. /\ decision.state \in States
        /\ decision.failure \in NoneOr(Evidence)
        /\ decision.alternate_health \in NoneOr(Evidence)
        /\ decision.quality_failure \in NoneOr(Evidence)
        /\ decision.preferred_recovery \in NoneOr(Recovery)
        /\ decision.preferred_probe_at \in Age
        /\ decision.preferred_retry \in NoneOr(Retry)
    BY DEF Decision, NoneOr
  <1>6. Observed(doc, probe, decision) \in Document
    BY <1>1, <1>2, <1>3, <1>4, <1>5 DEF Observed, Document, NoneOr
  <1> QED  BY <1>6 DEF Document

\* Every attempt, whatever its end, drops the evidence that led to it.
LEMMA AttemptedResult ==
    ASSUME NEW doc \in Document, NEW published \in Document, NEW decision \in Decision,
           NEW old \in Paths, NEW ending \in Endings(old, decision.target)
    PROVE  /\ Attempted(doc, published, decision, ending) \in Document
           /\ Attempted(doc, published, decision, ending).failure = None
           /\ Attempted(doc, published, decision, ending).alternate_health = None
           /\ ending.actual \in Paths
           /\ ending.result \in {"activated", "restored", "unreported", "unverified"}
  <1> DEFINE next == EvidenceDropped(published)
             failure == NextSwitchFailure(doc, decision.target)
             calm == IF decision.hard THEN "degraded" ELSE "healthy"
             success == [next EXCEPT
                           !.selected = ending.after,
                           !.state = calm,
                           !.switch_backoff = None, !.last_switch_failure = None,
                           !.last_quality_probe = "none"]
             state == IF ending.result = "restored" THEN "degraded" ELSE "failed"
             setback == [next EXCEPT
                           !.selected = ending.after, !.state = state,
                           !.switch_backoff = failure, !.last_switch_failure = failure]
  <1>1. decision.target \in Paths
    BY DEF Decision
  <1>2. /\ ending.actual \in Paths /\ ending.after \in Paths \cup {None}
        /\ ending.result \in {"activated", "restored", "unreported", "unverified"}
    BY <1>1 DEF Endings
  <1>3. next \in Document /\ next.failure = None /\ next.alternate_health = None
    BY DEF EvidenceDropped, Document
  <1>4. failure \in SwitchFailure
    BY <1>1, SwitchHistoryType
  <1>5. state \in States /\ calm \in States
    BY DEF States
  <1>6. Attempted(doc, published, decision, ending) \in {success, setback}
    BY DEF Attempted
  <1> HIDE DEF next, failure, state, calm
  <1>7. success \in Document /\ success.failure = None /\ success.alternate_health = None
    BY <1>2, <1>3, <1>5 DEF Document, Samples
  <1>8. setback \in Document /\ setback.failure = None /\ setback.alternate_health = None
    BY <1>2, <1>3, <1>4, <1>5 DEF Document
  <1> HIDE DEF success, setback
  <1> QED  BY <1>2, <1>6, <1>7, <1>8

\* What a step owes to the property: an attempt on a dead path was preceded by a
\* cycle that says the same.
TwoCycles ==
    seen'.result \in Attempts /\ seen'.overlay # "ok" =>
        /\ seen.path = seen'.path /\ seen.overlay = seen'.overlay
        /\ seen.other # "bad" /\ seen'.other # "bad"
        /\ seen.result \in Unpublished
        /\ seen'.gap <= EvidenceGap

LEMMA TurnType ==
    ASSUME seen \in Seen
    PROVE  (seen.turn + 1) % Turns \in 0..(Turns - 1)
  <1>1. seen.turn \in 0..(Turns - 1) /\ Turns \in {1, 2}
    BY ControllerAssumption DEF ControllerAssumption, Seen
  <1>2. CASE Turns = 1
    BY <1>1, <1>2
  <1>3. CASE Turns = 2
    BY <1>1, <1>3
  <1> QED  BY <1>1, <1>2, <1>3

LEMMA CycleStep ==
    ASSUME Inv, NEW d \in Elapsed, Cycle(d)
    PROVE  Inv' /\ TwoCycles
  <1> DEFINE doc == Aged(document, d)
  <1>1. PICK overlay \in Overlays :
        \E sample \in IF SampleDue(doc, overlay) THEN FreshSamples ELSE {"none"} :
            LET probe == ProbeSelected(doc, overlay, sample) IN
            \E answer \in IF ProbedAlternate(doc, probe) THEN Answers ELSE {"none"} :
                Concluded(doc, probe,
                    Evaluate(selector, probe, ProbeAlternate(doc, probe, answer), doc),
                    Look(d, overlay, sample, answer))
    BY Zenon DEF Cycle
  <1>2. PICK sample \in FreshSamples \cup {"none"} :
            LET probe == ProbeSelected(doc, overlay, sample) IN
            \E answer \in IF ProbedAlternate(doc, probe) THEN Answers ELSE {"none"} :
                Concluded(doc, probe,
                    Evaluate(selector, probe, ProbeAlternate(doc, probe, answer), doc),
                    Look(d, overlay, sample, answer))
    BY <1>1
  <1> DEFINE probe == ProbeSelected(doc, overlay, sample)
  <1>3. PICK answer \in Answers \cup {"none"} :
            Concluded(doc, probe,
                Evaluate(selector, probe, ProbeAlternate(doc, probe, answer), doc),
                Look(d, overlay, sample, answer))
    BY <1>2
  <1> DEFINE alternate == ProbeAlternate(doc, probe, answer)
             decision == Evaluate(selector, probe, alternate, doc)
             turn == (seen.turn + 1) % Turns
             look == Look(d, overlay, sample, answer)
             published == Observed(doc, probe, decision)
  <1> DEFINE observes == Observe(doc, probe, decision, look)
             switches == Switch(doc, probe, decision, look)
             dies == Interrupted(doc, probe, decision, look)
  <1>0. observes \/ switches \/ dies
    BY <1>3 DEF Concluded
  <1> HIDE DEF observes, switches, dies
  <1>4. /\ selector \in Paths /\ document \in Document /\ seen \in Seen
        /\ Describes(document)
    BY DEF Inv, TypeOK
  <1>5. /\ doc \in Document /\ Describes(doc)
        /\ Continues(doc.updated, EvidenceGap) => d <= EvidenceGap
    BY <1>4, AgedDescribes
  <1>6. /\ probe \in SelectedProbe /\ probe.ok = (overlay = "ok")
        /\ ~probe.ok => probe.reason = overlay /\ probe.reason \in Reasons
    BY <1>5, ProbeSelectedResult
  <1>7. alternate \in AlternateProbe /\ (alternate.ok => answer # "bad")
    BY ProbeAlternateResult
  <1> HIDE DEF doc, probe, alternate
  <1>8. /\ decision \in Decision
        /\ decision.failure # None =>
              /\ overlay # "ok"
              /\ decision.failure.path = selector /\ decision.failure.reason = overlay
        /\ decision.alternate_health # None => overlay # "ok" /\ answer # "bad"
        /\ overlay # "ok" =>
              decision.preferred_recovery = None /\ decision.quality_failure = None
        /\ decision.target # selector /\ overlay # "ok" =>
              /\ doc.failure # None /\ doc.alternate_health # None
              /\ doc.failure.path = selector /\ doc.failure.reason = overlay
              /\ Continues(doc.updated, EvidenceGap) /\ answer # "bad"
        /\ decision.target # selector /\ overlay = "ok" =>
              doc.quality_failure # None \/ doc.preferred_recovery # None
    <2>1. /\ decision \in Decision
          /\ decision.failure # None =>
                /\ ~probe.ok
                /\ decision.failure.path = selector
                /\ decision.failure.reason = probe.reason
          /\ decision.alternate_health # None => ~probe.ok /\ alternate.ok
          /\ ~probe.ok =>
                decision.preferred_recovery = None /\ decision.quality_failure = None
          /\ decision.target # selector /\ ~probe.ok =>
                /\ doc.failure # None /\ doc.alternate_health # None
                /\ doc.failure.path = selector /\ doc.failure.reason = probe.reason
                /\ Continues(doc.updated, EvidenceGap) /\ alternate.ok
          /\ decision.target # selector /\ probe.ok =>
                doc.quality_failure # None \/ doc.preferred_recovery # None
      BY <1>4, <1>5, <1>6, <1>7, EvaluateResult
    <2> HIDE DEF decision
    <2> QED  BY <1>6, <1>7, <2>1
  <1> HIDE DEF decision
  <1>9. turn \in 0..(Turns - 1)
    BY <1>4, TurnType
  <1>14. look = [path |-> selector, overlay |-> overlay, sample |-> sample,
                 other |-> answer, gap |-> d, result |-> "none", turn |-> turn]
    BY DEF Look
  <1> HIDE DEF turn, look
  <1>10. look \in Seen /\ \A result \in Results : [look EXCEPT !.result = result] \in Seen
    BY <1>4, <1>9, <1>14, ElapsedIsAge DEF Seen, Results
  <1>11. /\ published \in Document
         /\ \A state \in States : [published EXCEPT !.state = state] \in Document
    BY <1>4, <1>5, <1>6, <1>8, ObservedType
  <1>12. /\ published.failure = decision.failure
         /\ published.alternate_health = decision.alternate_health
         /\ published.preferred_recovery = decision.preferred_recovery
         /\ published.quality_failure = decision.quality_failure
    BY DEF Observed
  <1> HIDE DEF published
  \* What leaving a dead path says of the cycle before.
  <1>13. ASSUME decision.target # selector, overlay # "ok"
         PROVE  /\ seen.path = selector /\ seen.overlay = overlay
                /\ seen.result \in Unpublished /\ seen.other # "bad" /\ answer # "bad"
                /\ d <= EvidenceGap
    BY <1>5, <1>8, <1>13 DEF Describes
  <1>15. CASE observes
    <2>1. /\ \/ document' = published
             \/ \E state \in States : document' = [published EXCEPT !.state = state]
          /\ seen' = [look EXCEPT !.result = "none"]
          /\ selector' = selector
      BY <1>15 DEF observes, Observe, States, published
    <2>2. TypeOK'
      BY <1>4, <1>10, <1>11, <2>1 DEF TypeOK, Results
    <2>3. /\ document'.failure = decision.failure
          /\ document'.alternate_health = decision.alternate_health
          /\ document'.preferred_recovery = decision.preferred_recovery
          /\ document'.quality_failure = decision.quality_failure
      BY <1>11, <1>12, <2>1 DEF Document
    <2>4. /\ seen'.path = selector /\ seen'.overlay = overlay /\ seen'.other = answer
          /\ seen'.result = "none"
      BY <1>14, <2>1
    <2>5. Describes(document)'
      BY <1>8, <2>3, <2>4 DEF Describes, Unpublished
    <2>6. TwoCycles
      BY <2>4 DEF TwoCycles, Attempts
    <2> QED  BY <2>2, <2>5, <2>6 DEF Inv
  <1>16. CASE switches
    <2>1. /\ decision.target # selector
          /\ \E ending \in Endings(selector, decision.target) :
                /\ document' = Attempted(doc, published, decision, ending)
                /\ selector' = ending.actual
                /\ seen' = [look EXCEPT !.result = ending.result]
      BY <1>16 DEF switches, Switch, published
    <2>2. PICK ending \in Endings(selector, decision.target) :
                /\ document' = Attempted(doc, published, decision, ending)
                /\ selector' = ending.actual
                /\ seen' = [look EXCEPT !.result = ending.result]
      BY <2>1
    <2>3. /\ document' \in Document
          /\ document'.failure = None /\ document'.alternate_health = None
          /\ ending.actual \in Paths
          /\ ending.result \in {"activated", "restored", "unreported", "unverified"}
      BY <1>4, <1>5, <1>8, <1>11, <2>2, AttemptedResult
    <2>4. TypeOK'
      BY <1>10, <2>2, <2>3 DEF TypeOK, Results
    <2>5. Describes(document)'
      BY <2>3 DEF Describes
    <2>6. /\ seen'.path = selector /\ seen'.overlay = overlay /\ seen'.other = answer
          /\ seen'.gap = d
      BY <1>14, <2>2
    <2>7. TwoCycles
      BY <1>13, <2>1, <2>6 DEF TwoCycles
    <2> QED  BY <2>4, <2>5, <2>7 DEF Inv
  <1>17. CASE dies
    <2>1. /\ decision.target # selector
          /\ selector' \in Paths /\ document' = doc
          /\ seen' = [look EXCEPT !.result = "interrupted"]
      BY <1>17 DEF dies, Interrupted
    <2>2. TypeOK'
      BY <1>5, <1>10, <2>1 DEF TypeOK, Results
    <2>3. /\ seen'.path = selector /\ seen'.overlay = overlay /\ seen'.other = answer
          /\ seen'.gap = d /\ seen'.result = "interrupted"
      BY <1>14, <2>1
    <2>4. Describes(document)'
      <3>1. CASE overlay # "ok"
        BY <1>5, <1>8, <2>1, <2>3, <3>1 DEF Describes, Unpublished
      <3>2. CASE overlay = "ok"
        \* Leaving a path that answers takes evidence that excludes this one.
        BY <1>5, <1>8, <2>1, <3>2 DEF Describes
      <3> QED  BY <3>1, <3>2
    <2>5. TwoCycles
      BY <1>13, <2>1, <2>3 DEF TwoCycles
    <2> QED  BY <2>2, <2>4, <2>5 DEF Inv
  <1> QED  BY <1>0, <1>15, <1>16, <1>17

LEMMA UnobservedStep ==
    ASSUME Inv, SomeUnobserved
    PROVE  Inv' /\ TwoCycles
  <1>1. PICK d \in Elapsed, selected \in Paths \cup {None},
             state \in {"failed", "maintenance"} : Unobserved(d, selected, state)
    BY DEF SomeUnobserved
  <1> DEFINE doc == Aged(document, d)
  <1>2. selector \in Paths /\ document \in Document /\ seen \in Seen
    BY DEF Inv, TypeOK
  <1>3. doc \in Document
    BY <1>2, ElapsedIsAge, AgedType
  <1>4. /\ document' = FailedObservation(doc, selected, state)
        /\ seen' = NothingSeen(selector, d, seen.turn)
        /\ selector' = selector
    BY <1>1 DEF Unobserved
  <1> HIDE DEF doc
  <1>5. /\ doc.preferred_retry \in Retry \cup {None}
        /\ doc.switch_backoff \in SwitchFailure \cup {None}
        /\ doc.last_switch_failure \in SwitchFailure \cup {None}
    BY <1>3 DEF Document
  <1>6. 0 \in Age /\ AgeCap \in Age /\ state \in States
    BY Bounds DEF Age, States
  <1>7. /\ document' \in Document
        /\ document'.failure = None /\ document'.alternate_health = None
    BY <1>4, <1>5, <1>6 DEF FailedObservation, NoDocument, Document, Samples
  <1>8. seen' \in Seen /\ seen'.result = "lost"
    BY <1>2, <1>4, ElapsedIsAge DEF NothingSeen, Seen, Overlays, Results
  <1>9. Inv'
    BY <1>2, <1>4, <1>7, <1>8 DEF Inv, TypeOK, Describes
  <1> QED  BY <1>8, <1>9 DEF TwoCycles, Attempts

LEMMA ReselectStep ==
    ASSUME Inv, NEW path \in Paths, Reselect(path)
    PROVE  Inv' /\ TwoCycles
  <1> DEFINE result == IF seen.result \in Unpublished THEN "reselected" ELSE "lost"
  <1>1. /\ selector' = path /\ document' = document
        /\ seen' = [seen EXCEPT !.result = result]
    BY DEF Reselect
  <1>2. seen \in Seen /\ document \in Document /\ Describes(document)
    BY DEF Inv, TypeOK
  <1>3. /\ seen'.path = seen.path /\ seen'.overlay = seen.overlay
        /\ seen'.other = seen.other /\ seen'.result = result /\ seen' \in Seen
    BY <1>1, <1>2 DEF Seen, Results
  <1>4. Describes(document)'
    BY <1>1, <1>2, <1>3 DEF Describes, Unpublished
  <1>5. TwoCycles
    BY <1>3 DEF TwoCycles, Attempts
  <1> QED  BY <1>1, <1>2, <1>3, <1>4, <1>5 DEF Inv, TypeOK

LEMMA InitInv == Init => Inv
  <1> SUFFICES ASSUME Init PROVE Inv
    OBVIOUS
  <1>1. AgeCap \in Age /\ 0 \in 0..(Turns - 1)
    BY Bounds, ControllerAssumption DEF Age, ControllerAssumption
  <1>2. document \in Document /\ document.failure = None /\ document.alternate_health = None
    BY <1>1 DEF Init, NoDocument, Document, States, Samples
  <1>3. selector \in Paths /\ seen \in Seen
    BY <1>1 DEF Init, NothingSeen, Seen, Overlays, Results
  <1> QED  BY <1>2, <1>3 DEF Inv, TypeOK, Describes

LEMMA NextInv ==
    ASSUME Inv, Next
    PROVE  Inv' /\ TwoCycles
  <1>1. CASE \E d \in Elapsed : Cycle(d)
    BY <1>1, CycleStep
  <1>2. CASE SomeUnobserved
    BY <1>2, UnobservedStep
  <1>3. CASE \E path \in Paths : Reselect(path)
    BY <1>3, ReselectStep
  <1> QED  BY <1>1, <1>2, <1>3 DEF Next

LEMMA StutterInv ==
    ASSUME Inv, UNCHANGED vars
    PROVE  Inv'
  BY DEF Inv, TypeOK, Describes, vars
-----------------------------------------------------------------------------
\* The type and the worth of the evidence hold in every reachable state.
THEOREM Invariance == Spec => []Inv
  <1>1. Inv /\ [Next]_vars => Inv'
    BY NextInv, StutterInv
  <1> QED  BY InitInv, <1>1, PTL DEF Spec

\* Every document the controller publishes has the fields and ranges the next
\* cycle reads it with, however cycles, deaths and outside selections interleave.
THEOREM TypeCorrect == Spec => []TypeOK
  <1>1. Inv => TypeOK
    BY DEF Inv
  <1> QED  BY Invariance, <1>1, PTL

\* A dead underlay is left only on the evidence of two consecutive, recent cycles
\* on the same path, for every choice of thresholds (of two or more) and of times.
THEOREM FailoverIsConfirmed == Spec => FailoverNeedsTwoCycles
  <1>1. Inv /\ [Next]_vars =>
          [seen'.result \in Attempts /\ seen'.overlay # "ok" =>
             /\ seen.path = seen'.path /\ seen.overlay = seen'.overlay
             /\ seen.other # "bad" /\ seen'.other # "bad"
             /\ seen.result \in Unpublished
             /\ seen'.gap <= EvidenceGap]_vars
    BY NextInv DEF TwoCycles
  <1> QED  BY Invariance, <1>1, PTL DEF Spec, FailoverNeedsTwoCycles
-----------------------------------------------------------------------------
(* Retry delays.  The provers know nothing of powers; the number of the      *)
(* subsets of a set does.                                                    *)

LEMMA PowerOfTwo ==
    ASSUME NEW n \in Nat
    PROVE  2 ^ n \in Nat /\ 2 ^ n >= 1
  <1>1. IsFiniteSet(1..n) /\ Cardinality(1..n) = n
    BY FS_Interval
  <1>2. IsFiniteSet(SUBSET (1..n)) /\ Cardinality(SUBSET (1..n)) = 2 ^ n
    BY <1>1, FS_SUBSET
  <1>3. Cardinality(SUBSET (1..n)) \in Nat
    BY <1>2, FS_CardinalityType
  <1>4. Cardinality(SUBSET (1..n)) # 0
    <2>1. {} \in SUBSET (1..n)
      OBVIOUS
    <2> QED  BY <1>2, <2>1, FS_EmptySet
  <1> QED  BY <1>2, <1>3, <1>4

LEMMA PowersGrow ==
    ASSUME NEW m \in Nat, NEW n \in Nat, m <= n
    PROVE  2 ^ m <= 2 ^ n
  <1>1. /\ IsFiniteSet(1..m) /\ Cardinality(1..m) = m
        /\ IsFiniteSet(1..n) /\ Cardinality(1..n) = n
    BY FS_Interval
  <1>2. /\ Cardinality(SUBSET (1..m)) = 2 ^ m
        /\ IsFiniteSet(SUBSET (1..n)) /\ Cardinality(SUBSET (1..n)) = 2 ^ n
    BY <1>1, FS_SUBSET
  <1>3. SUBSET (1..m) \subseteq SUBSET (1..n)
    <2>1. 1..m \subseteq 1..n
      OBVIOUS
    <2> QED  BY <2>1
  <1>4. Cardinality(SUBSET (1..m)) <= Cardinality(SUBSET (1..n))
    BY <1>2, <1>3, FS_Subset
  <1> QED  BY <1>2, <1>4

LEMMA Scaled ==
    ASSUME NEW base \in Nat, NEW a \in Nat, NEW b \in Nat, a <= b
    PROVE  base * a \in Nat /\ base * b \in Nat /\ base * a <= base * b
  OBVIOUS

LEMMA DelaysGrow ==
    ASSUME NEW base \in Nat, NEW limit \in Nat, NEW m \in Count, NEW n \in Count, m <= n
    PROVE  /\ Delay(base, limit, m) \in Nat /\ Delay(base, limit, n) \in Nat
           /\ Delay(base, limit, m) <= Delay(base, limit, n)
           /\ base <= limit => base <= Delay(base, limit, m)
  <1>1. m - 1 \in Nat /\ n - 1 \in Nat /\ m - 1 <= n - 1
    BY Bounds DEF Count
  <1> DEFINE a == 2 ^ (m - 1)
             b == 2 ^ (n - 1)
  <1>2. a \in Nat /\ b \in Nat /\ a <= b /\ 1 <= a
    BY <1>1, PowerOfTwo, PowersGrow
  <1>3. Delay(base, limit, m) = Least(limit, base * a)
          /\ Delay(base, limit, n) = Least(limit, base * b)
    BY DEF Delay
  <1> HIDE DEF a, b
  <1>4. /\ base * a \in Nat /\ base * b \in Nat /\ base * a <= base * b
        /\ base * 1 <= base * a
    BY <1>2, Scaled
  <1> QED  BY <1>3, <1>4 DEF Least
-----------------------------------------------------------------------------
(* What the policy makes of loss, of a recovery and of the retry window.     *)

\* A new confirmation is a fresh pair; a second one continues a pair that is at
\* least one quality interval and at most QualityGap old.
LEMMA QualityEvidenceCases ==
    ASSUME NEW selected \in Paths, NEW probe \in SelectedProbe,
           NEW alternate \in AlternateProbe, NEW prior \in Document
    PROVE  LET evidence == QualityEvidence(selected, probe, alternate, prior)
               own == prior.quality_failure IN
           evidence # None =>
              \/ /\ probe.fresh /\ AlternateClean(alternate)
                 /\ evidence.observed = 0
                 /\ evidence.confirmations >= 2 =>
                       own # None /\ own.observed \in QualityInterval..QualityGap
              \/ /\ own # None /\ evidence = own
                 /\ IF probe.fresh THEN own.observed < QualityInterval
                    ELSE alternate.checked => AlternateClean(alternate)
  <1> DEFINE own == IF prior.quality_failure # None /\ prior.quality_failure.path = selected
                    THEN prior.quality_failure ELSE None
             age == IF own = None THEN AgeCap ELSE own.observed
             next == NextEvidence(own, selected, "packet_loss", age, QualityGap)
             evidence == QualityEvidence(selected, probe, alternate, prior)
  <1>1. own \in NoneOr(Evidence) /\ (own # None => own = prior.quality_failure)
    BY DEF Document, NoneOr
  <1>2. next.observed = 0
    BY DEF NextEvidence
  <1>3. next.confirmations >= 2 => own # None /\ Continues(age, QualityGap)
    BY Confirmed
  <1>4. CASE ~probe.fresh
    BY <1>1, <1>4 DEF QualityEvidence
  <1>5. CASE probe.fresh /\ evidence # None
    <2>1. AlternateClean(alternate)
      BY <1>5 DEF QualityEvidence
    <2>2. evidence = IF age < QualityInterval THEN own ELSE next
      BY <1>5, <2>1 DEF QualityEvidence, AlternateClean
    <2>3. age \in Nat /\ QualityInterval \in Nat /\ QualityGap \in Nat
      BY <1>1, Bounds DEF NoneOr, Evidence, Age
    <2>4. CASE age < QualityInterval
      BY <1>1, <1>5, <2>2, <2>4
    <2>5. CASE ~(age < QualityInterval)
      BY <1>1, <1>2, <1>3, <1>5, <2>1, <2>2, <2>3, <2>5 DEF Continues
    <2> QED  BY <2>4, <2>5
  <1> QED  BY <1>4, <1>5

\* Which evidence of loss a cycle publishes, and what it takes to act on it.
LEMMA LossDecision ==
    ASSUME NEW selected \in Paths, NEW probe \in SelectedProbe,
           NEW alternate \in AlternateProbe, NEW doc \in Document
    PROVE  LET decision == Evaluate(selected, probe, alternate, doc)
               own == doc.quality_failure IN
           /\ decision.quality_failure # None =>
                 /\ probe.ok /\ probe.quality = "degraded"
                 /\ \/ /\ probe.fresh /\ AlternateClean(alternate)
                       /\ decision.quality_failure.observed = 0
                    \/ /\ doc.selected = selected /\ own # None
                       /\ decision.quality_failure = own
                       /\ IF probe.fresh THEN own.observed < QualityInterval
                          ELSE alternate.checked => AlternateClean(alternate)
           /\ /\ probe.ok /\ probe.quality = "degraded"
              /\ decision.target # selected
              /\ own # None => own.observed > 0
              => /\ probe.fresh /\ AlternateClean(alternate)
                 /\ doc.selected = selected /\ own # None
                 /\ own.observed \in QualityInterval..QualityGap
  <1> DEFINE prior == PriorFor(doc, selected)
             decision == Evaluate(selected, probe, alternate, doc)
             evidence == QualityEvidence(selected, probe, alternate, prior)
  <1>1. prior \in Document
    BY PriorType
  <1>2. prior.quality_failure # None => prior = doc /\ doc.selected = selected
    BY DEF PriorFor, NoDocument
  <1>3. CASE ~(probe.ok /\ probe.quality = "degraded")
    <2>1. decision \in {OnFailure(selected, probe, alternate, prior),
                        OnInconclusive(selected, alternate, prior),
                        OnHealthyPreferred(prior), OnHealthyFallback(alternate, prior)}
      BY <1>3 DEF Evaluate, SelectedProbe, Samples
    <2>2. decision.quality_failure = None
      BY <2>1 DEF OnFailure, OnInconclusive, OnHealthyPreferred, OnHealthyFallback, Stay
    <2> QED  BY <1>3, <2>2
  <1>4. CASE probe.ok /\ probe.quality = "degraded"
    <2>1. decision = OnDegraded(selected, probe, alternate, prior)
      BY <1>4 DEF Evaluate
    <2>2. decision.quality_failure = evidence
      BY <2>1 DEF OnDegraded, Stay
    <2>3. decision.target # selected =>
             /\ evidence # None /\ evidence.observed = 0
             /\ evidence.confirmations >= FailureConfirmations
      BY <2>1 DEF OnDegraded, Stay
    <2>4. evidence \in NoneOr(Evidence)
      BY <1>1, QualityEvidenceResult
    <2>5. evidence # None => evidence.confirmations \in Nat /\ evidence.observed \in Nat
      BY <2>4, Bounds DEF NoneOr, Evidence, Count, Age
    <2>6. evidence # None =>
             \/ /\ probe.fresh /\ AlternateClean(alternate)
                /\ evidence.observed = 0
                /\ evidence.confirmations >= 2 =>
                      /\ prior.quality_failure # None
                      /\ prior.quality_failure.observed \in QualityInterval..QualityGap
             \/ /\ prior.quality_failure # None /\ evidence = prior.quality_failure
                /\ IF probe.fresh THEN prior.quality_failure.observed < QualityInterval
                   ELSE alternate.checked => AlternateClean(alternate)
      BY <1>1, QualityEvidenceCases
    <2> HIDE DEF prior, decision, evidence
    <2>7. decision.target # selected => evidence.confirmations >= 2
      BY <2>3, <2>5, Bounds
    <2> QED  BY <1>2, <1>4, <2>2, <2>3, <2>5, <2>6, <2>7 DEF decision
  <1> QED  BY <1>3, <1>4

\* What a cycle adds to the clean window of the preferred path.
LEMMA WindowCases ==
    ASSUME NEW alternate \in AlternateProbe, NEW prior \in Document
    PROVE  LET decision == OnHealthyFallback(alternate, prior)
               own == prior.preferred_recovery
               next == decision.preferred_recovery
               continued == own # None /\ Continues(own.evidence.observed, PreferredGap) IN
           /\ next # None =>
                 \/ ~alternate.checked /\ next = own
                 \/ /\ alternate.checked /\ alternate.ok /\ alternate.quality # "degraded"
                    /\ next.evidence.observed = 0
                    /\ \/ next.evidence.confirmations = 1
                       \/ continued /\ next.evidence.confirmations
                                          = More(own.evidence.confirmations)
                    /\ next.started = 0 \/ (continued /\ next.started = own.started)
           /\ decision.target # Fallback =>
                 /\ alternate.checked /\ alternate.ok /\ alternate.quality # "degraded"
                 /\ next # None /\ CleanWindow(next)
  <1> DEFINE own == prior.preferred_recovery
             before == IF own = None THEN None ELSE own.evidence
             evidence == NextEvidence(before, Preferred, "healthy",
                                      prior.preferred_probe_at, PreferredGap)
             continuous == /\ own # None
                           /\ Continues(prior.preferred_probe_at, PreferredGap)
                           /\ Continues(own.evidence.observed, PreferredGap)
             recovery == [evidence |-> evidence,
                          started |-> IF continuous THEN own.started ELSE 0]
             decision == OnHealthyFallback(alternate, prior)
  <1>1. /\ evidence.observed = 0
        /\ \/ evidence.confirmations = 1
           \/ /\ before # None /\ Continues(before.observed, PreferredGap)
              /\ evidence.confirmations = More(before.confirmations)
    BY DEF NextEvidence
  <1>2. before # None => own # None /\ before = own.evidence
    OBVIOUS
  <1>3. CASE ~alternate.checked
    BY <1>3 DEF OnHealthyFallback, Stay
  <1>4. CASE alternate.checked /\ (~alternate.ok \/ alternate.quality = "degraded")
    BY <1>4 DEF OnHealthyFallback, Stay
  <1>5. CASE alternate.checked /\ alternate.ok /\ alternate.quality # "degraded"
    <2>1. /\ decision.preferred_recovery = recovery
          /\ decision.target = IF CleanWindow(recovery) THEN Preferred ELSE Fallback
      BY <1>5 DEF OnHealthyFallback, Stay
    <2>2. /\ recovery.evidence = evidence
          /\ recovery.started = 0
                \/ (own # None /\ Continues(own.evidence.observed, PreferredGap)
                      /\ recovery.started = own.started)
      OBVIOUS
    <2>3. own \in NoneOr(Recovery) /\ before \in NoneOr(Evidence)
      BY DEF Document, NoneOr, Recovery
    <2>4. evidence \in Evidence /\ recovery.started \in Age
      <3>1. evidence \in Evidence
        BY <2>3, NextEvidenceType DEF Paths
      <3>2. own # None => own.started \in Age
        BY <2>3 DEF NoneOr, Recovery
      <3>3. 0 \in Age
        BY Bounds DEF Age
      <3> QED  BY <3>1, <3>2, <3>3
    <2>5. recovery # None
      BY <2>4, NoneAssumption DEF NoneAssumption, Recovery
    <2> HIDE DEF recovery, evidence, before, decision
    <2> QED  BY <1>1, <1>2, <1>5, <2>1, <2>2, <2>5 DEF decision
  <1> QED  BY <1>3, <1>4, <1>5

\* Which evidence of recovery a cycle publishes, and what it takes to act on it.
LEMMA WindowDecision ==
    ASSUME NEW selected \in Paths, NEW probe \in SelectedProbe,
           NEW alternate \in AlternateProbe, NEW doc \in Document
    PROVE  LET decision == Evaluate(selected, probe, alternate, doc)
               own == doc.preferred_recovery
               next == decision.preferred_recovery
               continued == /\ doc.selected = selected /\ own # None
                            /\ Continues(own.evidence.observed, PreferredGap) IN
           /\ next # None =>
                 /\ probe.ok /\ selected # Preferred /\ probe.quality \in {"none", "healthy"}
                 /\ \/ ~alternate.checked /\ next = own /\ doc.selected = selected
                    \/ /\ alternate.checked /\ alternate.ok
                       /\ alternate.quality # "degraded"
                       /\ next.evidence.observed = 0
                       /\ \/ next.evidence.confirmations = 1
                          \/ continued /\ next.evidence.confirmations
                                             = More(own.evidence.confirmations)
                       /\ next.started = 0 \/ (continued /\ next.started = own.started)
           /\ probe.ok /\ probe.quality # "degraded" /\ decision.target # selected =>
                 /\ selected # Preferred /\ probe.quality \in {"none", "healthy"}
                 /\ alternate.checked /\ alternate.ok /\ alternate.quality # "degraded"
                 /\ doc.selected = selected /\ own # None
                 /\ next # None /\ CleanWindow(next)
  <1> DEFINE prior == PriorFor(doc, selected)
             decision == Evaluate(selected, probe, alternate, doc)
             next == decision.preferred_recovery
             fallback == OnHealthyFallback(alternate, prior)
             steady == /\ probe.ok /\ probe.quality \in {"none", "healthy"}
                       /\ selected # Preferred
  <1>1. prior \in Document
    BY PriorType
  <1>2. prior.preferred_recovery # None => prior = doc /\ doc.selected = selected
    BY DEF PriorFor, NoDocument
  <1>3. CASE ~steady
    <2>1. decision \in {OnFailure(selected, probe, alternate, prior),
                        OnInconclusive(selected, alternate, prior),
                        OnDegraded(selected, probe, alternate, prior),
                        OnHealthyPreferred(prior)}
      BY <1>3 DEF Evaluate, SelectedProbe, Samples
    <2>2. decision.preferred_recovery = None
      BY <2>1 DEF OnFailure, OnInconclusive, OnDegraded, OnHealthyPreferred, Stay
    <2>3. probe.ok /\ probe.quality # "degraded" => decision.target = selected
      BY <1>3 DEF Evaluate, SelectedProbe, Samples, OnInconclusive, OnHealthyPreferred, Stay
    <2> QED  BY <2>2, <2>3
  <1>4. CASE steady
    <2>1. decision = fallback /\ selected = Fallback
      BY <1>4 DEF Evaluate, Paths
    <2>2. fallback \in Decision
            /\ (fallback.target # Fallback => prior.preferred_recovery # None)
      BY <1>1, OnHealthyFallbackResult
    <2> QED  BY <1>1, <1>2, <1>4, <2>1, <2>2, WindowCases
  <1> QED  BY <1>3, <1>4

\* A retry window opened, and perhaps answered, at most since seconds ago.
Recent(r, since) == r # None /\ r.failed <= since /\ r.recovered <= since

LEMMA RetryTimes ==
    /\ RetryBase \in Nat /\ RetryMax \in Nat /\ SwitchBase \in Nat /\ SwitchMax \in Nat
    /\ RetryBase <= RetryMax /\ RetryBase <= StableReset /\ StableReset \in Nat
    /\ NotRecovered \in Int /\ NotRecovered < 0
  <1>1. \A d \in {RetryBase, RetryMax, SwitchBase, SwitchMax, StableReset} : d \in Nat
    BY PolicyAssumption DEF PolicyAssumption, Durations
  <1>2. RetryBase <= RetryMax /\ RetryBase <= StableReset
    BY PolicyAssumption DEF PolicyAssumption
  <1>3. NotRecovered \in Int /\ NotRecovered < 0
    BY DEF NotRecovered
  <1> QED  BY <1>1, <1>2, <1>3

LEMMA NewRetry ==
    ASSUME NEW r \in NoneOr(Retry)
    PROVE  /\ NextRetry(r) \in Retry /\ NextRetry(r) # None
           /\ NextRetry(r).failed = 0 /\ NextRetry(r).recovered = NotRecovered
  <1>1. /\ NextRetry(r).failed = 0 /\ NextRetry(r).recovered = NotRecovered
        /\ NextRetry(r) = [NextRetry(r) EXCEPT !.failed = 0]
    BY DEF NextRetry
  <1>2. NextRetry(r) \in Retry
    <2>1. NextRetry(r) \in NoneOr(Retry)
      BY RetryTypes
    <2>2. 1 \in Count /\ 0 \in Age
      BY Bounds DEF Count, Age
    <2>3. r # None => More(r.attempts) \in Count
      BY MoreType DEF NoneOr, Retry
    <2> QED  BY <2>2, <2>3 DEF NextRetry, Retry
  <1> QED  BY <1>1, <1>2, NoneAssumption DEF NoneAssumption

\* A retry window that is recent stays so whatever the policy writes, and defers.
LEMMA RecentRetry ==
    ASSUME NEW r \in NoneOr(Retry), NEW since \in Nat, since < RetryBase, Recent(r, since)
    PROVE  /\ KeepRetry(r) = r /\ RetryActive(r)
           /\ Recent(NextRetry(r), since) /\ RetryActive(NextRetry(r))
           /\ Recent(MarkRecovered(r), since)
           /\ Recent([r EXCEPT !.recovered = 0], since)
  <1>1. r \in Retry /\ r # None /\ r.failed \in Nat /\ r.recovered \in Int
    BY Bounds, RetryTimes DEF Recent, NoneOr, Retry, Age
  <1>2. KeepRetry(r) = r
    BY <1>1, RetryTimes DEF KeepRetry, Recent
  <1>3. \A s \in Retry : s # None /\ s.failed < RetryBase => RetryActive(s)
    <2> SUFFICES ASSUME NEW s \in Retry, s # None, s.failed < RetryBase
                 PROVE  RetryActive(s)
      OBVIOUS
    <2>1. s.attempts \in Count /\ s.failed \in Nat
      BY Bounds DEF Retry, Age
    <2>2. /\ Delay(RetryBase, RetryMax, s.attempts) \in Nat
          /\ RetryBase <= Delay(RetryBase, RetryMax, s.attempts)
      <3>1. s.attempts <= s.attempts
        BY <2>1, Bounds DEF Count
      <3> QED  BY <2>1, <3>1, DelaysGrow, RetryTimes
    <2> QED  BY <2>1, <2>2, RetryTimes DEF RetryActive
  <1>4. RetryActive(r)
    BY <1>1, <1>3, RetryTimes DEF Recent
  <1>5. Recent(NextRetry(r), since) /\ RetryActive(NextRetry(r))
    BY <1>3, NewRetry, RetryTimes DEF Recent
  <1>6. [r EXCEPT !.recovered = 0] \in Retry
    BY <1>1, Bounds DEF Retry, Age
  <1>7. Recent([r EXCEPT !.recovered = 0], since)
    BY <1>1, <1>6, NoneAssumption DEF NoneAssumption, Recent, Retry
  <1>8. KeepRetry([r EXCEPT !.recovered = 0]) = [r EXCEPT !.recovered = 0]
    BY <1>1, RetryTimes DEF KeepRetry, Retry
  <1>9. MarkRecovered(r) \in {r, [r EXCEPT !.recovered = 0]}
    BY <1>2, <1>8 DEF MarkRecovered
  <1> QED  BY <1>2, <1>4, <1>5, <1>7, <1>9

\* What a cycle makes of the retry window of the preferred path.
LEMMA RetryDecision ==
    ASSUME NEW selected \in Paths, NEW probe \in SelectedProbe,
           NEW alternate \in AlternateProbe, NEW doc \in Document
    PROVE  LET decision == Evaluate(selected, probe, alternate, doc)
               next == decision.preferred_retry IN
           /\ selected = Preferred /\ decision.target # selected =>
                 next # None /\ next.failed = 0 /\ next.recovered = NotRecovered
           /\ \A since \in Nat :
                 since < RetryBase /\ Recent(doc.preferred_retry, since) =>
                    /\ Recent(next, since)
                    /\ probe.ok /\ probe.quality = "degraded" /\ selected # Preferred
                          => decision.target = selected
  <1> DEFINE prior == PriorFor(doc, selected)
             r == prior.preferred_retry
             decision == Evaluate(selected, probe, alternate, doc)
             next == decision.preferred_retry
  <1>1. doc.preferred_retry \in NoneOr(Retry) /\ r \in NoneOr(Retry)
    BY PriorType DEF Document, NoneOr
  <1>2. r \in {doc.preferred_retry, KeepRetry(doc.preferred_retry)}
    BY DEF PriorFor
  <1>3. \/ decision = OnFailure(selected, probe, alternate, prior)
        \/ decision = OnInconclusive(selected, alternate, prior)
        \/ decision = OnDegraded(selected, probe, alternate, prior)
              /\ probe.ok /\ probe.quality = "degraded"
        \/ decision = OnHealthyPreferred(prior) /\ selected = Preferred
        \/ decision = OnHealthyFallback(alternate, prior) /\ selected # Preferred
    BY DEF Evaluate, SelectedProbe, Samples
  <1>4. probe.ok /\ probe.quality = "degraded"
           => decision = OnDegraded(selected, probe, alternate, prior)
    BY DEF Evaluate
  <1>5. selected = Preferred /\ decision.target # selected => next = NextRetry(r)
    BY <1>3 DEF OnFailure, OnInconclusive, OnDegraded, OnHealthyPreferred, Stay
  <1>6. \/ next \in {KeepRetry(r), NextRetry(r), MarkRecovered(r)}
        \/ next = [KeepRetry(r) EXCEPT !.recovered = 0]
    BY <1>3 DEF OnFailure, OnInconclusive, OnDegraded, OnHealthyPreferred,
       OnHealthyFallback, Stay
  <1>7. probe.ok /\ probe.quality = "degraded" /\ selected # Preferred
           /\ decision.target # selected
           => ~RetryActive(NextRetry(r)) \/ ~RetryActive(KeepRetry(r))
    BY <1>4 DEF OnDegraded, Stay
  <1> HIDE DEF prior, decision, r, next
  <1>8. ASSUME NEW since \in Nat, since < RetryBase, Recent(doc.preferred_retry, since)
        PROVE  /\ Recent(next, since)
               /\ probe.ok /\ probe.quality = "degraded" /\ selected # Preferred
                     => decision.target = selected
    <2>1. r = doc.preferred_retry
      BY <1>1, <1>2, <1>8, RecentRetry
    <2>2. /\ KeepRetry(r) = r /\ RetryActive(r)
          /\ Recent(NextRetry(r), since) /\ RetryActive(NextRetry(r))
          /\ Recent(MarkRecovered(r), since)
          /\ Recent([r EXCEPT !.recovered = 0], since)
      BY <1>1, <1>8, <2>1, RecentRetry
    <2> QED  BY <1>6, <1>7, <1>8, <2>1, <2>2
  <1>9. selected = Preferred /\ decision.target # selected =>
                 next # None /\ next.failed = 0 /\ next.recovered = NotRecovered
    BY <1>1, <1>5, NewRetry
  <1> QED  BY <1>8, <1>9 DEF decision, next
-----------------------------------------------------------------------------
(* The record of TransportHistory. *)

LEMMA AgesOfTrail ==
    /\ 0 \in Age /\ AgeCap \in Age /\ RetryBase \in Age /\ StableReset \in Age
    /\ QualityGap + 1 \in Age /\ PreferredGap + 1 \in Age /\ RecoverySeconds \in Age
    /\ StableReset < AgeCap
  <1>1. RetryBase \in Durations /\ StableReset \in Durations
    BY DEF Durations
  <1>2. \A d \in Durations : d \in Nat /\ 0 < d /\ d < AgeCap
    BY PolicyAssumption DEF PolicyAssumption
  <1> QED  BY <1>1, <1>2, Bounds DEF Age

\* The record is aged as the document is; only the age of the last move off the
\* preferred path outlives a change of the selected path.
LEMMA BeforeFields ==
    ASSUME trail \in Trail, NEW look \in Seen
    PROVE  LET t == Before(look) IN
           /\ t \in Trail
           /\ t.left = Older(trail.left, look.gap, RetryBase)
           /\ look.path = seen.path =>
                 /\ t.pair = Older(trail.pair, look.gap, QualityGap + 1)
                 /\ t.clean = Older(trail.clean, look.gap, PreferredGap + 1)
                 /\ t.since = Older(trail.since, look.gap, RecoverySeconds)
                 /\ t.failed = Older(trail.failed, look.gap, StableReset)
                 /\ t.count = trail.count /\ t.failures = trail.failures
           /\ look.path # seen.path => t.failed = StableReset
  <1> DEFINE u == IF look.path = seen.path THEN trail
                  ELSE [NoTrail EXCEPT !.left = trail.left]
             t == Before(look)
  <1>1. u \in Trail /\ u.left = trail.left
          /\ (look.path = seen.path => u = trail)
          /\ (look.path # seen.path => u.failed = AgeCap)
    <2>1. CASE look.path = seen.path
      BY <2>1
    <2>2. CASE look.path # seen.path
      <3>1. trail.left \in Age
        BY DEF Trail
      <3>2. u = [NoTrail EXCEPT !.left = trail.left]
        BY <2>2
      <3> HIDE DEF u
      <3> QED  BY <2>2, <3>1, <3>2, AgesOfTrail, Bounds DEF NoTrail, Trail
    <2> QED  BY <2>1, <2>2
  <1>2. look.gap \in Nat
    BY Bounds DEF Seen, Age
  <1>3. t = [u EXCEPT !.pair = Older(@, look.gap, QualityGap + 1),
                      !.clean = Older(@, look.gap, PreferredGap + 1),
                      !.since = Older(@, look.gap, RecoverySeconds),
                      !.left = Older(@, look.gap, RetryBase),
                      !.failed = Older(@, look.gap, StableReset)]
    BY DEF Before
  <1> HIDE DEF u, t
  <1>4. /\ Older(u.pair, look.gap, QualityGap + 1) \in Age
        /\ Older(u.clean, look.gap, PreferredGap + 1) \in Age
        /\ Older(u.since, look.gap, RecoverySeconds) \in Age
        /\ Older(u.left, look.gap, RetryBase) \in Age
        /\ Older(u.failed, look.gap, StableReset) \in Age
    BY <1>1, <1>2, OlderType, AgesOfTrail DEF Trail
  <1>5. t \in Trail
    BY <1>1, <1>3, <1>4 DEF Trail
  <1>6. /\ t.pair = Older(u.pair, look.gap, QualityGap + 1)
        /\ t.clean = Older(u.clean, look.gap, PreferredGap + 1)
        /\ t.since = Older(u.since, look.gap, RecoverySeconds)
        /\ t.left = Older(u.left, look.gap, RetryBase)
        /\ t.failed = Older(u.failed, look.gap, StableReset)
        /\ t.count = u.count /\ t.failures = u.failures
    BY <1>1, <1>3 DEF Trail
  <1>7. Older(AgeCap, look.gap, StableReset) = StableReset
    BY <1>2, AgesOfTrail, Bounds DEF Older, Least, Age
  <1> QED  BY <1>1, <1>5, <1>6, <1>7 DEF t

LEMMA MoreOfCount ==
    ASSUME NEW n \in 0..MaxCount
    PROVE  More(n) \in 0..MaxCount /\ More(n) >= 1 /\ More(n) >= n
  BY Bounds DEF More, Least

LEMMA RunAfterFields ==
    ASSUME NEW t \in Trail, NEW look \in Seen
    PROVE  LET run == RunAfter(t, look)
               extends == t.count > 0 /\ t.clean <= PreferredGap IN
           /\ run \in Trail
           /\ run.pair = t.pair /\ run.left = t.left
           /\ run.failed = t.failed /\ run.failures = t.failures
           /\ look.result # "lost" /\ look.path # Preferred =>
                 /\ look.other = "none" => run = t
                 /\ look.other = "healthy" =>
                       /\ run.clean = 0
                       /\ run.since = IF extends THEN t.since ELSE 0
                       /\ run.count = IF extends THEN More(t.count) ELSE 1
  <1> DEFINE extends == t.count > 0 /\ t.clean <= PreferredGap
             since == IF extends THEN t.since ELSE 0
             count == IF extends THEN More(t.count) ELSE 1
             none == NoRun(t)
             good == [t EXCEPT !.clean = 0, !.since = since, !.count = count]
             run == RunAfter(t, look)
  <1>1. t.since \in Age /\ t.count \in 0..MaxCount
    BY DEF Trail
  <1>2. since \in Age /\ count \in 0..MaxCount
    BY <1>1, AgesOfTrail, MoreOfCount, Bounds
  <1>3. run \in {none, t, good}
    BY DEF RunAfter
  <1>4. look.result # "lost" /\ look.path # Preferred =>
           /\ look.other = "none" => run = t
           /\ look.other = "healthy" => run = good
    BY DEF RunAfter
  <1> HIDE DEF extends, since, count, run
  <1>5. good \in Trail /\ good.clean = 0 /\ good.since = since /\ good.count = count
          /\ good.pair = t.pair /\ good.left = t.left
          /\ good.failed = t.failed /\ good.failures = t.failures
    BY <1>2, AgesOfTrail DEF Trail
  <1>6. none \in Trail /\ none.pair = t.pair /\ none.left = t.left
          /\ none.failed = t.failed /\ none.failures = t.failures
    <2>1. 0 \in 0..MaxCount
      BY Bounds
    <2>2. none = [t EXCEPT !.clean = AgeCap, !.since = AgeCap, !.count = 0]
      BY DEF NoRun
    <2> HIDE DEF none
    <2> QED  BY <2>1, <2>2, AgesOfTrail DEF Trail
  <1> HIDE DEF good, none
  <1> QED  BY <1>3, <1>4, <1>5, <1>6 DEF run, since, count, extends

LEMMA PairAfterFields ==
    ASSUME NEW t \in Trail, NEW look \in Seen
    PROVE  LET now == PairAfter(t, look) IN
           /\ now \in Trail
           /\ now.clean = t.clean /\ now.since = t.since /\ now.count = t.count
           /\ now.left = t.left /\ now.failed = t.failed /\ now.failures = t.failures
           /\ /\ look.result # "lost" /\ look.overlay = "ok"
              /\ look.other \in {"none", "healthy"}
              => /\ look.sample = "degraded" /\ look.other = "healthy" => now.pair = 0
                 /\ look.sample = "none" => now.pair = t.pair
  <1> DEFINE dropped == [t EXCEPT !.pair = AgeCap]
             fresh == [t EXCEPT !.pair = 0]
             now == PairAfter(t, look)
  <1>1. now \in {dropped, fresh, t}
    BY DEF PairAfter
  <1>2. /\ look.result # "lost" /\ look.overlay = "ok" /\ look.other \in {"none", "healthy"}
        => /\ look.sample = "degraded" /\ look.other = "healthy" => now = fresh
           /\ look.sample = "none" => now = t
    BY DEF PairAfter
  <1>3. /\ dropped \in Trail /\ fresh \in Trail /\ fresh.pair = 0
        /\ \A s \in {dropped, fresh} :
              /\ s.clean = t.clean /\ s.since = t.since /\ s.count = t.count
              /\ s.left = t.left /\ s.failed = t.failed /\ s.failures = t.failures
    BY AgesOfTrail DEF Trail
  <1> HIDE DEF dropped, fresh, now
  <1> QED  BY <1>1, <1>2, <1>3 DEF now

\* The record after a cycle that made no attempt.
LEMMA AfterQuiet ==
    ASSUME trail \in Trail, NEW look \in Seen, look.result \notin Attempts, NEW moved
    PROVE  LET t == Before(look)
               now == AfterCycle(look, moved)
               run == RunAfter(t, look) IN
           /\ now \in Trail
           /\ now.left = t.left /\ now.failed = t.failed /\ now.failures = t.failures
           /\ now.clean = run.clean /\ now.since = run.since /\ now.count = run.count
           /\ /\ look.result # "lost" /\ look.overlay = "ok"
              /\ look.other \in {"none", "healthy"}
              => /\ look.sample = "degraded" /\ look.other = "healthy" => now.pair = 0
                 /\ look.sample = "none" => now.pair = t.pair
  <1> DEFINE t == Before(look)
             run == RunAfter(t, look)
             now == AfterCycle(look, moved)
  <1>1. t \in Trail
    BY BeforeFields
  <1>2. now = PairAfter(run, look)
    BY DEF AfterCycle, Attempts
  <1> HIDE DEF t, now
  <1>3. /\ run \in Trail /\ run.pair = t.pair /\ run.left = t.left
        /\ run.failed = t.failed /\ run.failures = t.failures
    BY <1>1, RunAfterFields
  <1> HIDE DEF run
  <1> QED  BY <1>2, <1>3, PairAfterFields DEF t, now, run

\* The record after a published attempt.
LEMMA AfterAttempt ==
    ASSUME trail \in Trail, NEW look \in Seen, NEW moved \in BOOLEAN,
           look.result \in {"activated", "restored", "unreported", "unverified"}
    PROVE  LET t == Before(look)
               now == AfterCycle(look, moved) IN
           /\ now \in Trail
           /\ now.left \in {0, t.left} /\ (now.left = 0 => look.path = Preferred \/ t.left = 0)
           /\ look.result = "activated" => now.failed = AgeCap
           /\ look.result # "activated" =>
                 /\ now.failed = 0
                 /\ now.failures = IF t.failed < StableReset THEN More(t.failures) ELSE 1
  <1> DEFINE t == Before(look)
             now == AfterCycle(look, moved)
             failures == IF t.failed < StableReset THEN More(t.failures) ELSE 1
             left1 == IF look.path = Preferred THEN 0 ELSE t.left
             left2 == IF moved /\ look.path = Preferred THEN 0 ELSE t.left
             success == [NoTrail EXCEPT !.left = left1]
             setback == [NoTrail EXCEPT !.failed = 0, !.failures = failures, !.left = left2]
  <1>1. t \in Trail
    BY BeforeFields
  <1>2. /\ look.result = "activated" => now = success
        /\ look.result # "activated" => now = setback
    BY DEF AfterCycle, Attempts
  <1> HIDE DEF t, now
  <1>3. failures \in 0..MaxCount /\ t.left \in Age
    BY <1>1, MoreOfCount, Bounds DEF Trail
  <1>4. left1 \in Age /\ left2 \in Age /\ left1 \in {0, t.left} /\ left2 \in {0, t.left}
          /\ (left1 = 0 => look.path = Preferred \/ t.left = 0)
          /\ (left2 = 0 => look.path = Preferred \/ t.left = 0)
    BY <1>3, AgesOfTrail
  <1> HIDE DEF failures, left1, left2
  <1>5. success \in Trail /\ success.left = left1 /\ success.failed = AgeCap
    BY <1>4, AgesOfTrail, Bounds DEF NoTrail, Trail
  <1>6. /\ setback \in Trail /\ setback.left = left2 /\ setback.failed = 0
        /\ setback.failures = failures
    <2>1. 0 \in 0..MaxCount
      BY Bounds
    <2>2. NoTrail \in Trail
      BY <2>1, AgesOfTrail DEF NoTrail, Trail
    <2> QED  BY <1>3, <1>4, <2>2, AgesOfTrail DEF Trail
  <1> HIDE DEF success, setback
  <1> QED  BY <1>2, <1>4, <1>5, <1>6 DEF t, now, failures
-----------------------------------------------------------------------------
(* What the document knows is what the record says. *)

\* Evidence of loss is of the path last seen and as old as the last pair, and the
\* last quality sample is no older.
LossInv ==
    document.quality_failure # None =>
        /\ document.selected = seen.path
        /\ trail.pair = document.quality_failure.observed
        /\ document.quality_probe_at <= document.quality_failure.observed

\* Evidence of recovery claims no more than the present run of good answers.
Claims(r, t) ==
    /\ t.clean <= r.evidence.observed /\ r.evidence.confirmations <= t.count
    /\ r.started <= t.since
WindowInv ==
    document.preferred_recovery # None =>
        document.selected = seen.path /\ Claims(document.preferred_recovery, trail)

\* A failed activation off the path last seen is on record until StableReset, with
\* at least as many attempts, and defers the next one until its delay is over.
OnRecord(doc, path, t) ==
    LET f == doc.last_switch_failure IN
    /\ f # None /\ f.target = Other(path)
    /\ f.failed = t.failed /\ f.attempts >= t.failures /\ t.failures >= 1
    /\ \/ doc.switch_backoff = f
       \/ doc.switch_backoff = None /\ f.failed >= Delay(SwitchBase, SwitchMax, f.attempts)
FailureInv == trail.failed < StableReset => OnRecord(document, seen.path, trail)

\* A move off the preferred path leaves a retry window that is no older.
RetryInv == trail.left < RetryBase => Recent(document.preferred_retry, trail.left)

HInv == Inv /\ trail \in Trail /\ LossInv /\ WindowInv /\ FailureInv /\ RetryInv

LEMMA OlderGrows ==
    ASSUME NEW a \in Nat, NEW b \in Nat, NEW d \in Nat, NEW m \in Nat, NEW n \in Nat
    PROVE  /\ a <= b /\ m <= n => Older(a, d, m) <= Older(b, d, n)
           /\ Older(a, d, m) < m => Older(a, d, m) = a + d
           /\ a <= m => a <= Older(a, d, m)
           /\ d > 0 /\ m > 0 => Older(a, d, m) > 0
           /\ Older(a, d, m) \in Nat
  BY DEF Older, Least

LEMMA AgedLoss ==
    ASSUME Inv, trail \in Trail, LossInv, NEW d \in Elapsed, NEW look \in Seen, look.gap = d
    PROVE  LET doc == Aged(document, d) IN
           doc.quality_failure # None =>
              /\ doc.selected = seen.path
              /\ doc.quality_failure.observed > 0
              /\ look.path = seen.path => Before(look).pair = doc.quality_failure.observed
              /\ doc.quality_probe_at <= doc.quality_failure.observed
  <1> DEFINE old == document.quality_failure
             doc == Aged(document, d)
             own == doc.quality_failure
  <1> SUFFICES ASSUME own # None
               PROVE  /\ doc.selected = seen.path
                      /\ own.observed > 0
                      /\ look.path = seen.path => Before(look).pair = own.observed
                      /\ doc.quality_probe_at <= own.observed
    OBVIOUS
  <1>1. old # None /\ own = [old EXCEPT !.observed = Older(@, d, QualityGap + 1)]
    BY DEF Aged, OlderEvidence
  <1>2. old \in Evidence /\ document.quality_probe_at \in Age
    BY <1>1 DEF Inv, TypeOK, Document
  <1>3. own.observed = Older(old.observed, d, QualityGap + 1)
    BY <1>1, <1>2 DEF Evidence
  <1>4. /\ doc.selected = document.selected
        /\ doc.quality_probe_at = Older(document.quality_probe_at, d, QualityInterval)
    BY DEF Aged
  <1>5. /\ document.selected = seen.path /\ trail.pair = old.observed
        /\ document.quality_probe_at <= old.observed
    BY <1>1 DEF LossInv
  <1>6. look.path = seen.path => Before(look).pair = Older(trail.pair, d, QualityGap + 1)
    BY BeforeFields
  <1>7. /\ old.observed \in Nat /\ document.quality_probe_at \in Nat
        /\ d \in Nat /\ d > 0 /\ QualityInterval \in Nat /\ QualityGap + 1 \in Nat
        /\ QualityInterval <= QualityGap + 1 /\ QualityGap + 1 > 0
    <2>1. QualityInterval \in 1..QualityGap /\ QualityGap \in Nat
      BY PolicyAssumption, Bounds DEF PolicyAssumption
    <2> QED  BY <1>2, <2>1, ElapsedIsAge, Bounds DEF Evidence, Age
  <1> HIDE DEF doc, own, old
  <1>8. Older(document.quality_probe_at, d, QualityInterval)
          <= Older(old.observed, d, QualityGap + 1)
    BY <1>5, <1>7, OlderGrows
  <1>9. Older(old.observed, d, QualityGap + 1) > 0
    BY <1>7, OlderGrows
  <1> QED  BY <1>3, <1>4, <1>5, <1>6, <1>8, <1>9

LEMMA AgedWindow ==
    ASSUME Inv, trail \in Trail, WindowInv, NEW d \in Elapsed, NEW look \in Seen, look.gap = d
    PROVE  LET doc == Aged(document, d) IN
           doc.preferred_recovery # None =>
              /\ doc.selected = seen.path
              /\ look.path = seen.path => Claims(doc.preferred_recovery, Before(look))
  <1> DEFINE old == document.preferred_recovery
             doc == Aged(document, d)
             own == doc.preferred_recovery
             t == Before(look)
  <1> SUFFICES ASSUME own # None
               PROVE  doc.selected = seen.path /\ (look.path = seen.path => Claims(own, t))
    OBVIOUS
  <1>1. old # None /\ own = [old EXCEPT !.evidence = OlderEvidence(@, d, PreferredGap),
                                        !.started = Older(@, d, RecoverySeconds)]
    BY DEF Aged, OlderRecovery
  <1>2. old \in Recovery /\ old.evidence \in Evidence /\ old.started \in Age
    BY <1>1 DEF Inv, TypeOK, Document, Recovery
  <1>3. /\ own.evidence = OlderEvidence(old.evidence, d, PreferredGap)
        /\ own.started = Older(old.started, d, RecoverySeconds)
    BY <1>1, <1>2 DEF Recovery
  <1>4. own.evidence = [old.evidence EXCEPT !.observed = Older(@, d, PreferredGap + 1)]
    BY <1>2, <1>3, NoneAssumption DEF NoneAssumption, OlderEvidence
  <1>5. /\ own.evidence.observed = Older(old.evidence.observed, d, PreferredGap + 1)
        /\ own.evidence.confirmations = old.evidence.confirmations
    BY <1>2, <1>4 DEF Evidence
  <1>6. doc.selected = document.selected
    BY DEF Aged
  <1>7. document.selected = seen.path /\ Claims(old, trail)
    BY <1>1 DEF WindowInv
  <1>8. look.path = seen.path =>
           /\ t.clean = Older(trail.clean, d, PreferredGap + 1)
           /\ t.since = Older(trail.since, d, RecoverySeconds)
           /\ t.count = trail.count
    BY BeforeFields
  <1>9. /\ old.evidence.observed \in Nat /\ old.started \in Nat /\ d \in Nat
        /\ trail.clean \in Nat /\ trail.since \in Nat
        /\ PreferredGap + 1 \in Nat /\ RecoverySeconds \in Nat
    BY <1>2, ElapsedIsAge, Bounds DEF Evidence, Age, Trail
  <1> HIDE DEF doc, own, old, t
  <1>10. /\ Older(trail.clean, d, PreferredGap + 1)
               <= Older(old.evidence.observed, d, PreferredGap + 1)
         /\ Older(old.started, d, RecoverySeconds)
               <= Older(trail.since, d, RecoverySeconds)
    <2>1. trail.clean <= old.evidence.observed /\ old.started <= trail.since
      BY <1>7 DEF Claims
    <2>2. PreferredGap + 1 <= PreferredGap + 1 /\ RecoverySeconds <= RecoverySeconds
      BY <1>9
    <2> QED  BY <1>9, <2>1, <2>2, OlderGrows
  <1> QED  BY <1>3, <1>5, <1>6, <1>7, <1>8, <1>10 DEF Claims

LEMMA AgedFailure ==
    ASSUME Inv, trail \in Trail, FailureInv, NEW d \in Elapsed, NEW look \in Seen,
           look.gap = d, Before(look).failed < StableReset
    PROVE  look.path = seen.path /\ OnRecord(Aged(document, d), look.path, Before(look))
  <1> DEFINE old == document.last_switch_failure
             doc == Aged(document, d)
             f == doc.last_switch_failure
             t == Before(look)
             delay == Delay(SwitchBase, SwitchMax, f.attempts)
  <1>1. StableReset \in Nat /\ d \in Nat /\ trail.failed \in Nat
    BY ElapsedIsAge, Bounds DEF Age, Trail
  <1>2. look.path = seen.path
    BY <1>1, BeforeFields
  <1>3. t.failed = Older(trail.failed, d, StableReset) /\ t.failures = trail.failures
    BY <1>2, BeforeFields
  <1>4. t.failed = trail.failed + d
    <2>1. Older(trail.failed, d, StableReset) < StableReset
      BY <1>3
    <2>2. Older(trail.failed, d, StableReset) = trail.failed + d
      BY <1>1, <2>1 DEF Older, Least
    <2> QED  BY <1>3, <2>2
  <1>5. OnRecord(document, seen.path, trail)
    BY <1>1, <1>4 DEF FailureInv
  <1>6. old # None /\ old \in SwitchFailure
    BY <1>5 DEF OnRecord, Inv, TypeOK, Document
  <1>7. /\ f = [old EXCEPT !.failed = Older(@, d, FailureMemory)]
        /\ doc.switch_backoff = OlderFailure(document.switch_backoff, d)
    BY <1>6 DEF Aged, OlderFailure
  <1>8. /\ f.failed = Older(old.failed, d, FailureMemory)
        /\ f.target = old.target /\ f.attempts = old.attempts
        /\ f \in SwitchFailure /\ old.failed \in Nat
    <2>1. Older(old.failed, d, FailureMemory) \in Age /\ old.failed \in Nat
      <3>1. old.failed \in Age
        BY <1>6 DEF SwitchFailure
      <3>2. old.failed \in Nat
        BY <3>1, Bounds DEF Age
      <3> HIDE DEF old
      <3> QED  BY <1>1, <3>1, <3>2, OlderType, Bounds
    <2> QED  BY <1>6, <1>7, <2>1 DEF SwitchFailure
  <1>9. f # None
    BY <1>8, NoneAssumption DEF NoneAssumption
  <1>10. f.failed = t.failed
    <2>1. old.failed = trail.failed
      BY <1>5 DEF OnRecord
    <2>2. FailureMemory \in Nat /\ FailureMemory >= StableReset
      BY <1>1, Bounds, RetryTimes DEF FailureMemory
    <2> QED  BY <1>1, <1>4, <1>8, <2>1, <2>2 DEF Older, Least
  <1>11. \/ doc.switch_backoff = f
         \/ doc.switch_backoff = None /\ f.failed >= delay
    <2>1. CASE document.switch_backoff = old
      BY <1>6, <1>7, <2>1 DEF OlderFailure
    <2>2. CASE document.switch_backoff = None /\ old.failed >= delay
      <3>1. delay \in Nat
        <4>1. f.attempts \in Count /\ f.attempts <= f.attempts
          BY <1>8, Bounds DEF SwitchFailure, Count
        <4> QED  BY <4>1, DelaysGrow, RetryTimes
      <3>2. f.failed >= old.failed /\ f.failed \in Nat
        BY <1>1, <1>4, <1>5, <1>8, <1>10 DEF OnRecord
      <3> HIDE DEF delay
      <3> QED  BY <1>7, <1>8, <2>2, <3>1, <3>2 DEF OlderFailure
    <2> QED  BY <1>5, <1>8, <2>1, <2>2 DEF OnRecord
  <1>12. f.target = Other(seen.path) /\ f.attempts >= t.failures /\ t.failures >= 1
    BY <1>3, <1>5, <1>8 DEF OnRecord
  <1> HIDE DEF old, doc, f, t
  <1> QED  BY <1>2, <1>9, <1>10, <1>11, <1>12 DEF OnRecord, f, t, doc

LEMMA AgedRetry ==
    ASSUME Inv, trail \in Trail, RetryInv, NEW d \in Elapsed, NEW look \in Seen,
           look.gap = d, Before(look).left < RetryBase
    PROVE  Recent(Aged(document, d).preferred_retry, Before(look).left)
  <1> DEFINE old == document.preferred_retry
             r == Aged(document, d).preferred_retry
             left == Before(look).left
  <1>1. /\ RetryBase \in Nat /\ RetryMax \in Nat /\ StableReset \in Nat
        /\ d \in Nat /\ trail.left \in Nat
    BY ElapsedIsAge, Bounds, RetryTimes DEF Age, Trail
  <1>2. left = Older(trail.left, d, RetryBase)
    BY BeforeFields
  <1>3. left = trail.left + d
    <2>1. Older(trail.left, d, RetryBase) < RetryBase
      BY <1>2
    <2> QED  BY <1>1, <1>2, <2>1, OlderGrows
  <1>4. Recent(old, trail.left)
    BY <1>1, <1>3 DEF RetryInv
  <1>5. old # None /\ old \in Retry
    BY <1>4 DEF Recent, Inv, TypeOK, Document
  <1>6. r = [old EXCEPT !.failed = Older(@, d, RetryMax),
                        !.recovered = IF @ = NotRecovered THEN @
                                      ELSE Older(@, d, StableReset)]
    BY <1>5 DEF Aged, OlderRetry
  <1>7. r \in Retry
    <2>1. r \in NoneOr(Retry)
      BY <1>5, ElapsedIsAge, OlderRetryType DEF Aged, NoneOr
    <2>2. Older(old.failed, d, RetryMax) \in Age
      BY <1>1, <1>5, OlderType, Bounds DEF Retry
    <2>3. old.recovered # NotRecovered => Older(old.recovered, d, StableReset) \in Age
      BY <1>1, <1>5, OlderType, Bounds DEF Retry
    <2> QED  BY <1>5, <1>6, <2>2, <2>3 DEF Retry
  <1>8. /\ r.failed = Older(old.failed, d, RetryMax)
        /\ r.recovered = IF old.recovered = NotRecovered THEN old.recovered
                         ELSE Older(old.recovered, d, StableReset)
    BY <1>5, <1>6 DEF Retry
  <1>9. /\ old.failed \in Nat /\ old.recovered \in Int
        /\ old.recovered # NotRecovered => old.recovered \in Nat
    BY <1>5, Bounds, RetryTimes DEF Retry, Age
  <1>10. old.failed <= trail.left /\ old.recovered <= trail.left
    BY <1>4 DEF Recent
  <1> HIDE DEF old, r, left
  <1>11. r.failed <= left /\ r.recovered <= left
    BY <1>1, <1>3, <1>8, <1>9, <1>10 DEF Older, Least
  <1>12. r # None
    BY <1>7, NoneAssumption DEF NoneAssumption
  <1> QED  BY <1>11, <1>12 DEF Recent, r, left
-----------------------------------------------------------------------------
(* One cycle: what it met, what it decided. *)

DocumentAt(d) == Aged(document, d)
SelectedAt(d, overlay, sample) == ProbeSelected(DocumentAt(d), overlay, sample)
AlternateAt(d, overlay, sample, answer) ==
    ProbeAlternate(DocumentAt(d), SelectedAt(d, overlay, sample), answer)
DecisionAt(d, overlay, sample, answer) ==
    Evaluate(selector, SelectedAt(d, overlay, sample),
             AlternateAt(d, overlay, sample, answer), DocumentAt(d))

\* A cycle d seconds after the last write may meet these answers.
Met(d, overlay, sample, answer) ==
    /\ overlay \in Overlays /\ sample \in FreshSamples \cup {"none"}
    /\ answer \in Answers \cup {"none"}
    /\ sample # "none" => SampleDue(DocumentAt(d), overlay)
    /\ answer # "none" => ProbedAlternate(DocumentAt(d), SelectedAt(d, overlay, sample))

\* What is written down of it, but for what comes of it.
Records(look, d, overlay, sample, answer) ==
    /\ look \in Seen /\ look.path = selector /\ look.overlay = overlay
    /\ look.sample = sample /\ look.other = answer /\ look.gap = d

LEMMA CycleParts ==
    ASSUME NEW d \in Elapsed, Cycle(d)
    PROVE  \E overlay \in Overlays, sample \in FreshSamples \cup {"none"},
              answer \in Answers \cup {"none"} :
              /\ Met(d, overlay, sample, answer)
              /\ Concluded(DocumentAt(d), SelectedAt(d, overlay, sample),
                           DecisionAt(d, overlay, sample, answer),
                           Look(d, overlay, sample, answer))
  <1> DEFINE doc == DocumentAt(d)
  <1>1. PICK overlay \in Overlays :
        \E sample \in IF SampleDue(doc, overlay) THEN FreshSamples ELSE {"none"} :
            LET probe == ProbeSelected(doc, overlay, sample) IN
            \E answer \in IF ProbedAlternate(doc, probe) THEN Answers ELSE {"none"} :
                Concluded(doc, probe,
                    Evaluate(selector, probe, ProbeAlternate(doc, probe, answer), doc),
                    Look(d, overlay, sample, answer))
    BY Zenon DEF Cycle, DocumentAt
  <1>2. PICK sample \in IF SampleDue(doc, overlay) THEN FreshSamples ELSE {"none"} :
            LET probe == ProbeSelected(doc, overlay, sample) IN
            \E answer \in IF ProbedAlternate(doc, probe) THEN Answers ELSE {"none"} :
                Concluded(doc, probe,
                    Evaluate(selector, probe, ProbeAlternate(doc, probe, answer), doc),
                    Look(d, overlay, sample, answer))
    BY <1>1
  <1> DEFINE probe == SelectedAt(d, overlay, sample)
  <1>3. PICK answer \in IF ProbedAlternate(doc, probe) THEN Answers ELSE {"none"} :
            Concluded(doc, probe,
                Evaluate(selector, probe, ProbeAlternate(doc, probe, answer), doc),
                Look(d, overlay, sample, answer))
    BY <1>2 DEF SelectedAt
  <1>4. /\ sample \in FreshSamples \cup {"none"} /\ answer \in Answers \cup {"none"}
        /\ sample # "none" => SampleDue(doc, overlay)
        /\ answer # "none" => ProbedAlternate(doc, probe)
    BY <1>2, <1>3
  <1>5. Met(d, overlay, sample, answer)
    BY <1>1, <1>4 DEF Met
  <1>6. Concluded(doc, probe, DecisionAt(d, overlay, sample, answer),
                  Look(d, overlay, sample, answer))
    BY <1>3 DEF DecisionAt, AlternateAt
  <1> QED  BY <1>1, <1>4, <1>5, <1>6

\* The probes of a cycle in terms of what it met.
LEMMA MetProbes ==
    ASSUME Inv, NEW d \in Elapsed, NEW overlay, NEW sample, NEW answer,
           Met(d, overlay, sample, answer)
    PROVE  LET doc == DocumentAt(d)
               probe == SelectedAt(d, overlay, sample)
               alternate == AlternateAt(d, overlay, sample, answer) IN
           /\ selector \in Paths /\ doc \in Document
           /\ probe \in SelectedProbe /\ alternate \in AlternateProbe
           /\ ~probe.ok => probe.reason \in Reasons
           /\ probe.ok = (overlay = "ok") /\ probe.fresh = (sample # "none")
           /\ sample # "none" => /\ overlay = "ok" /\ probe.quality = sample
                                 /\ doc.quality_probe_at >= QualityInterval
           /\ alternate.checked = (answer # "none")
           /\ alternate.ok = (answer \in {"degraded", "healthy"})
           /\ overlay = "ok" /\ answer # "none" =>
                 /\ answer # "bad" => alternate.quality = answer
                 /\ \/ probe.fresh /\ probe.quality = "degraded"
                    \/ selector # Preferred /\ ~RetryActive(doc.preferred_retry)
  <1> DEFINE doc == DocumentAt(d)
             probe == SelectedAt(d, overlay, sample)
             alternate == AlternateAt(d, overlay, sample, answer)
  <1>1. /\ overlay \in Overlays /\ sample \in FreshSamples \cup {"none"}
        /\ answer \in Answers \cup {"none"}
        /\ sample # "none" => SampleDue(doc, overlay)
        /\ answer # "none" => ProbedAlternate(doc, probe)
    BY DEF Met
  <1>2. selector \in Paths /\ doc \in Document
    BY ElapsedIsAge, AgedType DEF Inv, TypeOK, DocumentAt
  <1>3. /\ probe \in SelectedProbe /\ probe.ok = (overlay = "ok")
        /\ ~probe.ok => probe.reason \in Reasons
    BY <1>1, <1>2, ProbeSelectedResult DEF SelectedAt
  <1>4. probe.fresh = (sample # "none") /\ (sample # "none" => probe.quality = sample)
    BY DEF SelectedAt, ProbeSelected
  <1>5. sample # "none" => overlay = "ok" /\ doc.quality_probe_at >= QualityInterval
    BY <1>1 DEF SampleDue, OverlayQualityProbeDue
  <1>6. /\ alternate \in AlternateProbe /\ alternate.checked = (answer # "none")
        /\ alternate.ok = (answer \in {"degraded", "healthy"})
        /\ SampledAlternate(doc, probe) /\ answer # "bad" => alternate.quality = answer
    <2>1. alternate \in AlternateProbe
      BY <1>1, ProbeAlternateResult DEF AlternateAt
    <2> QED  BY <1>1, <2>1 DEF AlternateAt, ProbeAlternate, Answers
  <1>7. overlay = "ok" /\ answer # "none" => SampledAlternate(doc, probe)
    BY <1>1, <1>3 DEF ProbedAlternate
  <1>8. SampledAlternate(doc, probe) =>
           \/ probe.fresh /\ probe.quality = "degraded"
           \/ selector # Preferred /\ ~RetryActive(doc.preferred_retry)
    BY DEF SampledAlternate, PreferredProbeDue
  <1> HIDE DEF doc, probe, alternate
  <1> QED  BY <1>2, <1>3, <1>4, <1>5, <1>6, <1>7, <1>8 DEF doc, probe, alternate

\* The evidence of loss a cycle publishes is as old as the last pair.
LEMMA KeepsLoss ==
    ASSUME HInv, NEW d \in Elapsed, NEW overlay, NEW sample, NEW answer,
           Met(d, overlay, sample, answer), NEW look, NEW moved,
           Records(look, d, overlay, sample, answer), look.result = "none"
    PROVE  LET next == DecisionAt(d, overlay, sample, answer).quality_failure IN
           next # None =>
              /\ AfterCycle(look, moved).pair = next.observed
              /\ (IF SelectedAt(d, overlay, sample).fresh THEN 0
                  ELSE DocumentAt(d).quality_probe_at) <= next.observed
  <1> DEFINE doc == DocumentAt(d)
             probe == SelectedAt(d, overlay, sample)
             alternate == AlternateAt(d, overlay, sample, answer)
             next == DecisionAt(d, overlay, sample, answer).quality_failure
             own == doc.quality_failure
             now == AfterCycle(look, moved)
  <1>0. Inv /\ trail \in Trail /\ LossInv
    BY DEF HInv
  <1>1. /\ look \in Seen /\ look.path = selector /\ look.overlay = overlay
        /\ look.sample = sample /\ look.other = answer /\ look.gap = d
    BY DEF Records
  <1>2. /\ selector \in Paths /\ doc \in Document
        /\ probe \in SelectedProbe /\ alternate \in AlternateProbe
        /\ probe.ok = (overlay = "ok") /\ probe.fresh = (sample # "none")
        /\ sample # "none" => /\ overlay = "ok" /\ probe.quality = sample
                              /\ doc.quality_probe_at >= QualityInterval
        /\ alternate.checked = (answer # "none")
        /\ alternate.ok = (answer \in {"degraded", "healthy"})
        /\ overlay = "ok" /\ answer # "none" /\ answer # "bad" => alternate.quality = answer
    BY <1>0, MetProbes
  <1>3. next # None =>
           /\ probe.ok /\ probe.quality = "degraded"
           /\ \/ /\ probe.fresh /\ AlternateClean(alternate)
                 /\ next.observed = 0
              \/ /\ doc.selected = selector /\ own # None
                 /\ next = own
                 /\ IF probe.fresh THEN own.observed < QualityInterval
                    ELSE alternate.checked => AlternateClean(alternate)
    BY <1>2, LossDecision DEF DecisionAt
  <1>4. AlternateClean(alternate) => alternate.checked /\ alternate.ok
                                        /\ alternate.quality = "healthy"
    BY DEF AlternateClean
  <1>5. own # None =>
           /\ doc.selected = seen.path
           /\ look.path = seen.path => Before(look).pair = own.observed
           /\ doc.quality_probe_at <= own.observed
    BY <1>0, <1>1, AgedLoss DEF DocumentAt
  <1>6. /\ look.overlay = "ok" /\ look.other \in {"none", "healthy"}
        => /\ look.sample = "degraded" /\ look.other = "healthy" => now.pair = 0
           /\ look.sample = "none" => now.pair = Before(look).pair
    <2>1. look.result \notin Attempts /\ look.result # "lost"
      BY DEF Attempts
    <2> QED  BY <1>0, <1>1, <2>1, AfterQuiet
  <1>7. own # None => own.observed \in Nat /\ doc.quality_probe_at \in Nat
    BY <1>2, Bounds DEF Document, Evidence, Age
  <1>8. QualityInterval \in Nat
    BY Bounds DEF Age
  <1> HIDE DEF doc, probe, alternate, next, now, own
  <1> SUFFICES ASSUME next # None
               PROVE  /\ now.pair = next.observed
                      /\ (IF probe.fresh THEN 0 ELSE doc.quality_probe_at) <= next.observed
    BY DEF next, now, probe, doc
  <1>11. probe.fresh <=> sample # "none"
    BY <1>2
  <1>9. CASE probe.fresh /\ AlternateClean(alternate) /\ next.observed = 0
    <2>1. look.sample = "degraded" /\ look.other = "healthy" /\ look.overlay = "ok"
      BY <1>1, <1>2, <1>3, <1>4, <1>9, <1>11
    <2>2. now.pair = 0
      BY <1>6, <2>1
    <2> QED  BY <1>9, <2>2
  <1>10. CASE /\ doc.selected = selector /\ own # None
              /\ next = own
              /\ IF probe.fresh THEN own.observed < QualityInterval
                 ELSE alternate.checked => AlternateClean(alternate)
    <2>1. ~probe.fresh
      <3> SUFFICES ASSUME probe.fresh PROVE FALSE
        OBVIOUS
      <3>1. doc.quality_probe_at >= QualityInterval
        BY <1>2, <1>11
      <3>2. own.observed < QualityInterval /\ doc.quality_probe_at <= own.observed
        BY <1>5, <1>10
      <3> QED  BY <1>7, <1>8, <1>10, <3>1, <3>2
    <2>2. look.sample = "none" /\ look.overlay = "ok" /\ look.other \in {"none", "healthy"}
      BY <1>1, <1>2, <1>3, <1>4, <1>10, <1>11, <2>1
    <2> QED  BY <1>1, <1>5, <1>6, <1>10, <2>1, <2>2
  <1> QED  BY <1>3, <1>9, <1>10

\* The evidence of recovery a cycle holds is backed by the run of good answers that
\* includes its own.
LEMMA BacksWindow ==
    ASSUME HInv, NEW d \in Elapsed, NEW overlay, NEW sample, NEW answer,
           Met(d, overlay, sample, answer), NEW look,
           Records(look, d, overlay, sample, answer), look.result # "lost"
    PROVE  LET next == DecisionAt(d, overlay, sample, answer).preferred_recovery IN
           next # None => Claims(next, RunAfter(Before(look), look))
  <1> DEFINE doc == DocumentAt(d)
             probe == SelectedAt(d, overlay, sample)
             alternate == AlternateAt(d, overlay, sample, answer)
             decision == DecisionAt(d, overlay, sample, answer)
             next == decision.preferred_recovery
             own == doc.preferred_recovery
             t == Before(look)
             run == RunAfter(t, look)
             extends == t.count > 0 /\ t.clean <= PreferredGap
             continued == /\ doc.selected = selector /\ own # None
                          /\ Continues(own.evidence.observed, PreferredGap)
  <1>0. Inv /\ trail \in Trail /\ WindowInv
    BY DEF HInv
  <1>1. /\ look \in Seen /\ look.path = selector /\ look.overlay = overlay
        /\ look.sample = sample /\ look.other = answer /\ look.gap = d
    BY DEF Records
  <1>2. /\ selector \in Paths /\ doc \in Document
        /\ probe \in SelectedProbe /\ alternate \in AlternateProbe
        /\ ~probe.ok => probe.reason \in Reasons
        /\ probe.ok = (overlay = "ok")
        /\ alternate.checked = (answer # "none")
        /\ alternate.ok = (answer \in {"degraded", "healthy"})
        /\ overlay = "ok" /\ answer # "none" /\ answer # "bad" => alternate.quality = answer
    BY <1>0, MetProbes
  <1>3. next # None =>
           /\ probe.ok /\ selector # Preferred
           /\ \/ ~alternate.checked /\ next = own /\ doc.selected = selector
              \/ /\ alternate.checked /\ alternate.ok
                 /\ alternate.quality # "degraded"
                 /\ next.evidence.observed = 0
                 /\ \/ next.evidence.confirmations = 1
                    \/ continued /\ next.evidence.confirmations
                                       = More(own.evidence.confirmations)
                 /\ next.started = 0 \/ (continued /\ next.started = own.started)
    BY <1>2, WindowDecision DEF DecisionAt
  <1>4. own # None => /\ doc.selected = seen.path
                      /\ look.path = seen.path => Claims(own, t)
    BY <1>0, <1>1, AgedWindow DEF DocumentAt
  <1>5. t \in Trail
    BY <1>0, <1>1, BeforeFields
  <1>6. look.path # Preferred =>
           /\ look.other = "none" => run = t
           /\ look.other = "healthy" =>
                 /\ run.clean = 0
                 /\ run.since = IF extends THEN t.since ELSE 0
                 /\ run.count = IF extends THEN More(t.count) ELSE 1
    BY <1>1, <1>5, RunAfterFields
  <1>7. /\ t.since \in Nat /\ t.clean \in Nat /\ t.count \in 0..MaxCount
        /\ PreferredGap \in Nat /\ MaxCount \in Nat
    BY <1>5, Bounds DEF Trail, Age
  <1>8. decision \in Decision
    BY <1>2, EvaluateResult DEF DecisionAt
  <1>9. next # None => /\ next.evidence.observed \in Nat /\ next.started \in Nat
                       /\ next.evidence.confirmations \in Nat
    BY <1>8, Bounds DEF Decision, Recovery, Evidence, Age, Count
  <1>10. own # None => /\ own.evidence.observed \in Nat /\ own.started \in Nat
                       /\ own.evidence.confirmations \in 1..MaxCount
    BY <1>2, Bounds DEF Document, Recovery, Evidence, Age, Count
  <1> HIDE DEF doc, probe, alternate, decision, next, own, t, run
  <1> SUFFICES ASSUME next # None
               PROVE  Claims(next, run)
    BY DEF next, decision, run, t
  <1>11. CASE ~alternate.checked /\ next = own /\ doc.selected = selector
    BY <1>1, <1>2, <1>3, <1>4, <1>6, <1>11
  <1>12. CASE alternate.checked
    <2>1. /\ answer = "healthy" /\ look.path # Preferred /\ next.evidence.observed = 0
          /\ \/ next.evidence.confirmations = 1
             \/ continued /\ next.evidence.confirmations = More(own.evidence.confirmations)
          /\ next.started = 0 \/ (continued /\ next.started = own.started)
      BY <1>1, <1>2, <1>3, <1>12
    <2>2. continued => extends /\ own.evidence.confirmations <= t.count
                          /\ own.started <= t.since
      <3> SUFFICES ASSUME continued
                   PROVE  extends /\ own.evidence.confirmations <= t.count
                             /\ own.started <= t.since
        OBVIOUS
      <3>1. Claims(own, t)
        BY <1>1, <1>4
      <3>2. own.evidence.observed <= PreferredGap
        BY DEF Continues
      <3> QED  BY <1>7, <1>10, <3>1, <3>2 DEF Claims
    <2>3. run.clean = 0
      BY <1>1, <1>6, <2>1
    <2>4. next.evidence.confirmations <= run.count
      <3>1. run.count = IF extends THEN More(t.count) ELSE 1
        BY <1>1, <1>6, <2>1
      <3>2. More(t.count) >= 1 /\ More(t.count) \in Nat
        BY <1>7, MoreOfCount
      <3>3. CASE next.evidence.confirmations = 1
        BY <3>1, <3>2, <3>3
      <3>4. CASE continued /\ next.evidence.confirmations = More(own.evidence.confirmations)
        <4>1. More(own.evidence.confirmations) <= More(t.count)
          BY <1>7, <1>10, <2>2, <3>4 DEF More, Least
        <4> QED  BY <2>2, <3>1, <3>4, <4>1
      <3> QED  BY <2>1, <3>3, <3>4
    <2>5. next.started <= run.since
      <3>1. run.since = IF extends THEN t.since ELSE 0
        BY <1>1, <1>6, <2>1
      <3> QED  BY <1>7, <2>1, <2>2, <3>1
    <2> QED  BY <1>9, <2>1, <2>3, <2>4, <2>5 DEF Claims
  <1> QED  BY <1>3, <1>11, <1>12

\* A failed activation still within StableReset is written on, with its backoff for as
\* long as its delay lasts.
LEMMA HistoryKept ==
    ASSUME HInv, selector \in Paths, NEW d \in Elapsed, NEW look \in Seen,
           look.gap = d, look.path = selector, Before(look).failed < StableReset
    PROVE  LET f == SwitchFailureHistory(DocumentAt(d), Other(selector))
               b == SwitchBackoff(DocumentAt(d), Other(selector))
               t == Before(look) IN
           /\ f \in SwitchFailure /\ f # None /\ f.target = Other(selector)
           /\ f.failed = t.failed /\ f.attempts >= t.failures /\ t.failures >= 1
           /\ b = f \/ (b = None /\ f.failed >= Delay(SwitchBase, SwitchMax, f.attempts))
  <1> DEFINE doc == DocumentAt(d)
             old == doc.last_switch_failure
             f == SwitchFailureHistory(doc, Other(selector))
             b == SwitchBackoff(doc, Other(selector))
             t == Before(look)
             delay == Delay(SwitchBase, SwitchMax, old.attempts)
  <1>1. OnRecord(doc, selector, t)
    BY AgedFailure DEF HInv, DocumentAt
  <1>2. doc \in Document
    BY ElapsedIsAge, AgedType DEF HInv, Inv, TypeOK, DocumentAt
  <1>3. /\ old # None /\ old.target = Other(selector)
        /\ old.failed = t.failed /\ old.attempts >= t.failures /\ t.failures >= 1
        /\ doc.switch_backoff = old \/ (doc.switch_backoff = None /\ old.failed >= delay)
    BY <1>1 DEF OnRecord
  <1>4. old \in SwitchFailure
    BY <1>2, <1>3 DEF Document
  <1>5. delay \in Nat /\ old.failed \in Nat
    <2>1. old.attempts \in Count /\ old.attempts <= old.attempts /\ old.failed \in Nat
      BY <1>4, Bounds DEF SwitchFailure, Count, Age
    <2> QED  BY <2>1, DelaysGrow, RetryTimes
  <1> HIDE DEF doc, t
  <1>6. f = old
    BY <1>3 DEF SwitchFailureHistory, t
  <1>7. b = old \/ (b = None /\ old.failed >= delay)
    <2>1. CASE doc.switch_backoff = old /\ old.failed < delay
      BY <1>3, <2>1 DEF SwitchBackoff
    <2>2. CASE doc.switch_backoff = old /\ ~(old.failed < delay)
      BY <1>3, <1>5, <2>2 DEF SwitchBackoff
    <2>3. CASE doc.switch_backoff = None /\ old.failed >= delay
      BY <2>3 DEF SwitchBackoff
    <2> QED  BY <1>3, <2>1, <2>2, <2>3
  <1> HIDE DEF f, b, old
  <1> QED  BY <1>3, <1>4, <1>6, <1>7 DEF f, b, t, doc

\* What an attempt publishes: no evidence, the retry window of the decision, and, if
\* it failed, one more failure that defers the next one.
LEMMA AttemptedFields ==
    ASSUME NEW doc \in Document, NEW published \in Document, NEW decision \in Decision,
           NEW old \in Paths, NEW ending \in Endings(old, decision.target)
    PROVE  LET next == Attempted(doc, published, decision, ending)
               failure == NextSwitchFailure(doc, decision.target) IN
           /\ next.quality_failure = None /\ next.preferred_recovery = None
           /\ next.preferred_retry = published.preferred_retry
           /\ ending.result # "activated" =>
                 next.switch_backoff = failure /\ next.last_switch_failure = failure
  <1> DEFINE base == EvidenceDropped(published)
             failure == NextSwitchFailure(doc, decision.target)
             calm == IF decision.hard THEN "degraded" ELSE "healthy"
             success == [base EXCEPT
                           !.selected = ending.after,
                           !.state = calm,
                           !.switch_backoff = None, !.last_switch_failure = None,
                           !.last_quality_probe = "none"]
             state == IF ending.result = "restored" THEN "degraded" ELSE "failed"
             setback == [base EXCEPT
                           !.selected = ending.after, !.state = state,
                           !.switch_backoff = failure, !.last_switch_failure = failure]
             next == Attempted(doc, published, decision, ending)
  <1>1. /\ base \in Document /\ base.quality_failure = None
        /\ base.preferred_recovery = None
        /\ base.preferred_retry = published.preferred_retry
    BY DEF EvidenceDropped, Document
  <1>2. /\ ending.result = "activated" => next = success
        /\ ending.result # "activated" => next = setback
    BY DEF Attempted
  <1> HIDE DEF base, failure, state, calm, next
  <1>3. /\ success.quality_failure = None /\ success.preferred_recovery = None
        /\ success.preferred_retry = published.preferred_retry
    BY <1>1 DEF Document
  <1>4. /\ setback.quality_failure = None /\ setback.preferred_recovery = None
        /\ setback.preferred_retry = published.preferred_retry
        /\ setback.switch_backoff = failure /\ setback.last_switch_failure = failure
    BY <1>1 DEF Document
  <1> HIDE DEF success, setback
  <1> QED  BY <1>2, <1>3, <1>4 DEF next, failure

\* A live path is left on a confirmed pair of losses or a whole clean window, and never
\* back within the first retry delay.
LEMMA LeavesOnMerit ==
    ASSUME HInv, NEW d \in Elapsed, NEW overlay, NEW sample, NEW answer,
           Met(d, overlay, sample, answer), NEW look,
           Records(look, d, overlay, sample, answer), look.result # "lost",
           overlay = "ok", DecisionAt(d, overlay, sample, answer).target # selector
    PROVE  LET t == Before(look)
               run == RunAfter(t, look) IN
           /\ DocumentAt(d).selected = selector
           /\ look.sample = "degraded" =>
                 look.other = "healthy" /\ t.pair \in QualityInterval..QualityGap
           /\ look.sample # "degraded" =>
                 /\ look.path = Fallback /\ run.clean = 0
                 /\ run.count >= RecoveryConfirmations /\ run.since >= RecoverySeconds
           /\ look.path = Fallback => t.left >= RetryBase
  <1> DEFINE doc == DocumentAt(d)
             probe == SelectedAt(d, overlay, sample)
             alternate == AlternateAt(d, overlay, sample, answer)
             decision == DecisionAt(d, overlay, sample, answer)
             t == Before(look)
             run == RunAfter(t, look)
             loss == doc.quality_failure
             next == decision.preferred_recovery
  <1>0. Inv /\ trail \in Trail /\ LossInv /\ WindowInv /\ RetryInv
    BY DEF HInv
  <1>1. /\ look \in Seen /\ look.path = selector /\ look.overlay = overlay
        /\ look.sample = sample /\ look.other = answer /\ look.gap = d
    BY DEF Records
  <1>2. /\ selector \in Paths /\ doc \in Document
        /\ probe \in SelectedProbe /\ alternate \in AlternateProbe
        /\ ~probe.ok => probe.reason \in Reasons
        /\ probe.ok /\ (probe.fresh <=> sample # "none")
        /\ sample # "none" => probe.quality = sample
        /\ alternate.checked <=> answer # "none"
        /\ alternate.ok <=> answer \in {"degraded", "healthy"}
        /\ answer # "none" =>
              /\ answer # "bad" => alternate.quality = answer
              /\ \/ probe.fresh /\ probe.quality = "degraded"
                 \/ selector # Preferred /\ ~RetryActive(doc.preferred_retry)
    <2>1. /\ selector \in Paths /\ doc \in Document
          /\ probe \in SelectedProbe /\ alternate \in AlternateProbe
          /\ ~probe.ok => probe.reason \in Reasons
          /\ probe.ok = (overlay = "ok") /\ probe.fresh = (sample # "none")
          /\ sample # "none" => probe.quality = sample
          /\ alternate.checked = (answer # "none")
          /\ alternate.ok = (answer \in {"degraded", "healthy"})
          /\ overlay = "ok" /\ answer # "none" =>
                /\ answer # "bad" => alternate.quality = answer
                /\ \/ probe.fresh /\ probe.quality = "degraded"
                   \/ selector # Preferred /\ ~RetryActive(doc.preferred_retry)
      BY <1>0, MetProbes
    <2> HIDE DEF doc, probe, alternate
    <2> QED  BY <2>1
  <1>3. probe.quality = "degraded" /\ (loss # None => loss.observed > 0)
              => /\ probe.fresh /\ AlternateClean(alternate)
                 /\ doc.selected = selector /\ loss # None
                 /\ loss.observed \in QualityInterval..QualityGap
    BY <1>2, LossDecision DEF DecisionAt
  <1>4. loss # None => /\ doc.selected = seen.path /\ loss.observed > 0
                       /\ look.path = seen.path => t.pair = loss.observed
    BY <1>0, <1>1, AgedLoss DEF DocumentAt
  <1>5. probe.quality # "degraded" =>
           /\ selector # Preferred
           /\ alternate.checked /\ alternate.ok /\ alternate.quality # "degraded"
           /\ doc.selected = selector /\ next # None /\ CleanWindow(next)
    BY <1>2, WindowDecision DEF DecisionAt
  <1>6. next # None => Claims(next, run)
    BY BacksWindow
  <1>7. /\ decision \in Decision /\ t \in Trail
        /\ look.path # Preferred /\ look.other = "healthy" => run.clean = 0
        /\ run \in Trail
    <2>1. decision \in Decision
      BY <1>2, EvaluateResult DEF DecisionAt
    <2>2. t \in Trail
      BY <1>0, <1>1, BeforeFields
    <2> HIDE DEF t, decision
    <2> QED  BY <1>1, <2>1, <2>2, RunAfterFields
  <1>8. AlternateClean(alternate) => alternate.checked /\ alternate.ok
                                        /\ alternate.quality = "healthy"
    BY DEF AlternateClean
  <1>9. t.left < RetryBase => Recent(doc.preferred_retry, t.left)
    BY <1>0, <1>1, AgedRetry DEF DocumentAt
  <1>10. doc.preferred_retry \in NoneOr(Retry) /\ t.left \in Nat /\ RetryBase \in Nat
    BY <1>2, <1>7, RetryTimes, Bounds DEF Document, NoneOr, Trail, Age
  <1>11. \A since \in Nat :
            /\ since < RetryBase /\ Recent(doc.preferred_retry, since)
            /\ probe.quality = "degraded" /\ selector # Preferred
            => decision.target = selector
    BY <1>2, RetryDecision DEF DecisionAt
  <1>12. next # None => /\ next.started \in Nat /\ next.evidence.confirmations \in Nat
                        /\ run.since \in Nat /\ run.count \in Nat
                        /\ RecoverySeconds \in Nat /\ RecoveryConfirmations \in Nat
    BY <1>7, Bounds DEF Decision, Recovery, Evidence, Age, Count, Trail
  <1>13. decision.target # selector
    OBVIOUS
  <1> HIDE DEF doc, probe, alternate, decision, next, loss, t, run
  <1>14. CASE probe.quality = "degraded"
    <2>1. /\ probe.fresh /\ AlternateClean(alternate) /\ doc.selected = selector
          /\ loss # None /\ loss.observed \in QualityInterval..QualityGap
      BY <1>3, <1>4, <1>14
    <2>2. look.sample = "degraded" /\ look.other = "healthy"
      BY <1>1, <1>2, <1>8, <1>14, <2>1
    <2>3. t.pair \in QualityInterval..QualityGap
      BY <1>1, <1>4, <2>1
    <2>4. ASSUME look.path = Fallback PROVE t.left >= RetryBase
      <3>1. selector # Preferred
        BY <1>1, <2>4, PolicyAssumption DEF PolicyAssumption
      <3>2. ~(t.left < RetryBase)
        BY <1>9, <1>10, <1>11, <1>13, <1>14, <3>1
      <3> QED  BY <1>10, <3>2
    <2> QED  BY <2>1, <2>2, <2>3, <2>4 DEF doc, t, run
  <1>15. CASE probe.quality # "degraded"
    <2>1. look.sample # "degraded" /\ look.other = "healthy"
      BY <1>1, <1>2, <1>5, <1>15
    <2>2. look.path = Fallback
      BY <1>1, <1>2, <1>5, <1>15 DEF Paths
    <2>3. run.clean = 0 /\ look.path # Preferred
      BY <1>1, <1>5, <1>7, <1>15, <2>1
    <2>4. run.count >= RecoveryConfirmations /\ run.since >= RecoverySeconds
      BY <1>5, <1>6, <1>12, <1>15 DEF Claims, CleanWindow
    <2>5. ~(t.left < RetryBase)
      <3>1. ~RetryActive(doc.preferred_retry)
        BY <1>1, <1>2, <1>15, <2>1
      <3> QED  BY <1>9, <1>10, <3>1, RecentRetry
    <2> QED  BY <1>5, <1>10, <1>15, <2>1, <2>2, <2>3, <2>4, <2>5 DEF doc, t, run
  <1> QED  BY <1>14, <1>15

\* Outside the backoff of its target, the n-th retry delay is over.
LEMMA LeavesAfterDelay ==
    ASSUME HInv, selector \in Paths, NEW d \in Elapsed, NEW look \in Seen,
           look.gap = d, look.path = selector, Before(look).failed < StableReset,
           SwitchBackoff(DocumentAt(d), Other(selector)) = None
    PROVE  Before(look).failed >= Delay(SwitchBase, SwitchMax, Before(look).failures)
  <1> DEFINE t == Before(look)
             f == SwitchFailureHistory(DocumentAt(d), Other(selector))
             n == t.failures
             m == f.attempts
  <1>1. /\ f \in SwitchFailure /\ f # None /\ f.failed = t.failed
        /\ f.attempts >= t.failures /\ t.failures >= 1
        /\ f.failed >= Delay(SwitchBase, SwitchMax, f.attempts)
    BY HistoryKept
  <1>2. t \in Trail
    BY BeforeFields DEF HInv
  <1>3. m \in Count /\ n \in Count /\ n <= m /\ t.failed \in Nat
    BY <1>1, <1>2, Bounds DEF SwitchFailure, Trail, Count, Age
  <1> HIDE DEF t, f, n, m
  <1>4. /\ Delay(SwitchBase, SwitchMax, n) \in Nat /\ Delay(SwitchBase, SwitchMax, m) \in Nat
        /\ Delay(SwitchBase, SwitchMax, n) <= Delay(SwitchBase, SwitchMax, m)
    BY <1>3, DelaysGrow, RetryTimes
  <1>5. t.failed >= Delay(SwitchBase, SwitchMax, m)
    BY <1>1 DEF m
  <1>6. t.failed >= Delay(SwitchBase, SwitchMax, n)
    BY <1>3, <1>4, <1>5
  <1> QED  BY <1>6 DEF t, n
-----------------------------------------------------------------------------
(* One cycle: what becomes of the document and of the record. *)

\* A cycle that keeps its path publishes what its decision says.
Published(d, overlay, sample, answer, next) ==
    LET decision == DecisionAt(d, overlay, sample, answer)
        probe == SelectedAt(d, overlay, sample)
        doc == DocumentAt(d) IN
    /\ next.selected = selector
    /\ next.quality_failure = decision.quality_failure
    /\ next.preferred_recovery = decision.preferred_recovery
    /\ next.preferred_retry = decision.preferred_retry
    /\ next.quality_probe_at = IF probe.fresh THEN 0 ELSE doc.quality_probe_at
    /\ next.switch_backoff = SwitchBackoff(doc, Other(selector))
    /\ next.last_switch_failure = SwitchFailureHistory(doc, Other(selector))

LEMMA PublishedFields ==
    ASSUME HInv, NEW d \in Elapsed, NEW overlay, NEW sample, NEW answer,
           Met(d, overlay, sample, answer)
    PROVE  LET doc == DocumentAt(d)
               decision == DecisionAt(d, overlay, sample, answer)
               published == Observed(doc, SelectedAt(d, overlay, sample), decision) IN
           /\ doc \in Document /\ decision \in Decision /\ published \in Document
           /\ selector \in Paths
           /\ Published(d, overlay, sample, answer, published)
           /\ \A state \in States :
                 Published(d, overlay, sample, answer, [published EXCEPT !.state = state])
  <1> DEFINE doc == DocumentAt(d)
             probe == SelectedAt(d, overlay, sample)
             alternate == AlternateAt(d, overlay, sample, answer)
             decision == DecisionAt(d, overlay, sample, answer)
             published == Observed(doc, probe, decision)
  <1>1. /\ selector \in Paths /\ doc \in Document
        /\ probe \in SelectedProbe /\ alternate \in AlternateProbe
        /\ ~probe.ok => probe.reason \in Reasons
    BY MetProbes DEF HInv
  <1>2. decision \in Decision
    BY <1>1, EvaluateResult DEF DecisionAt
  <1>3. published \in Document
    BY <1>1, <1>2, ObservedType
  <1>4. Published(d, overlay, sample, answer, published)
    BY DEF Published, Observed
  <1> HIDE DEF published
  <1>5. ASSUME NEW state \in States
        PROVE  Published(d, overlay, sample, answer, [published EXCEPT !.state = state])
    BY <1>3, <1>4 DEF Published, Document
  <1> QED  BY <1>1, <1>2, <1>3, <1>4, <1>5 DEF published

LEMMA QuietCycle ==
    ASSUME HInv, NEW d \in Elapsed, NEW overlay, NEW sample, NEW answer,
           Met(d, overlay, sample, answer), Records(seen', d, overlay, sample, answer),
           seen'.result = "none", Published(d, overlay, sample, answer, document'),
           NEW moved, trail' = AfterCycle(seen', moved)
    PROVE  (trail \in Trail /\ LossInv /\ WindowInv /\ FailureInv /\ RetryInv)'
  <1> DEFINE doc == DocumentAt(d)
             probe == SelectedAt(d, overlay, sample)
             alternate == AlternateAt(d, overlay, sample, answer)
             decision == DecisionAt(d, overlay, sample, answer)
             t == Before(seen')
             run == RunAfter(t, seen')
  <1>0. Inv /\ trail \in Trail /\ RetryInv
    BY DEF HInv
  <1>1. seen' \in Seen /\ seen'.path = selector /\ seen'.gap = d
    BY DEF Records
  <1>2. /\ document'.selected = selector
        /\ document'.quality_failure = decision.quality_failure
        /\ document'.preferred_recovery = decision.preferred_recovery
        /\ document'.preferred_retry = decision.preferred_retry
        /\ document'.quality_probe_at = IF probe.fresh THEN 0 ELSE doc.quality_probe_at
        /\ document'.switch_backoff = SwitchBackoff(doc, Other(selector))
        /\ document'.last_switch_failure = SwitchFailureHistory(doc, Other(selector))
    BY DEF Published
  <1>3. /\ selector \in Paths /\ doc \in Document
        /\ probe \in SelectedProbe /\ alternate \in AlternateProbe
    BY <1>0, MetProbes
  <1>4. /\ trail' \in Trail /\ trail'.left = t.left /\ trail'.failed = t.failed
        /\ trail'.failures = t.failures /\ trail'.clean = run.clean
        /\ trail'.since = run.since /\ trail'.count = run.count
    BY <1>0, <1>1, AfterQuiet DEF Attempts
  <1>5. LossInv'
    <2>1. decision.quality_failure # None =>
              /\ trail'.pair = decision.quality_failure.observed
              /\ (IF probe.fresh THEN 0 ELSE doc.quality_probe_at)
                    <= decision.quality_failure.observed
      BY KeepsLoss
    <2> HIDE DEF doc, probe, decision
    <2> QED  BY <1>1, <1>2, <2>1 DEF LossInv
  <1>6. WindowInv'
    <2>1. decision.preferred_recovery # None => Claims(decision.preferred_recovery, run)
      BY BacksWindow
    <2> HIDE DEF decision, run
    <2>2. decision.preferred_recovery # None =>
             Claims(decision.preferred_recovery, trail')
      BY <1>4, <2>1 DEF Claims
    <2>3. Claims(document.preferred_recovery, trail)'
             <=> Claims(document.preferred_recovery', trail')
      BY DEF Claims
    <2> QED  BY <1>1, <1>2, <2>2, <2>3 DEF WindowInv
  <1>7. FailureInv'
    <2>1. t.failed < StableReset =>
             LET f == document'.last_switch_failure IN
             /\ f # None /\ f.target = Other(selector)
             /\ f.failed = t.failed /\ f.attempts >= t.failures /\ t.failures >= 1
             /\ \/ document'.switch_backoff = f
                \/ /\ document'.switch_backoff = None
                   /\ f.failed >= Delay(SwitchBase, SwitchMax, f.attempts)
      BY <1>1, <1>2, <1>3, HistoryKept
    <2> HIDE DEF t
    <2> QED  BY <1>1, <1>4, <2>1 DEF FailureInv, OnRecord
  <1>8. RetryInv'
    <2>1. t.left < RetryBase => Recent(doc.preferred_retry, t.left)
      BY <1>0, <1>1, AgedRetry DEF DocumentAt
    <2>2. t.left \in Nat
      BY <1>4, Bounds DEF Trail, Age
    <2> HIDE DEF t
    <2>3. t.left < RetryBase => Recent(decision.preferred_retry, t.left)
      BY <1>3, <2>1, <2>2, RetryDecision DEF DecisionAt
    <2> QED  BY <1>2, <1>4, <2>3 DEF RetryInv, Recent
  <1> QED  BY <1>4, <1>5, <1>6, <1>7, <1>8

LEMMA AttemptCycle ==
    ASSUME HInv, NEW d \in Elapsed, NEW overlay, NEW sample, NEW answer,
           Met(d, overlay, sample, answer), Records(seen', d, overlay, sample, answer),
           DecisionAt(d, overlay, sample, answer).target # selector,
           NEW ending \in Endings(selector, DecisionAt(d, overlay, sample, answer).target),
           seen'.result = ending.result,
           document' = Attempted(DocumentAt(d),
                           Observed(DocumentAt(d), SelectedAt(d, overlay, sample),
                                    DecisionAt(d, overlay, sample, answer)),
                           DecisionAt(d, overlay, sample, answer), ending),
           NEW moved \in BOOLEAN, trail' = AfterCycle(seen', moved)
    PROVE  (trail \in Trail /\ LossInv /\ WindowInv /\ FailureInv /\ RetryInv)'
  <1> DEFINE doc == DocumentAt(d)
             probe == SelectedAt(d, overlay, sample)
             alternate == AlternateAt(d, overlay, sample, answer)
             decision == DecisionAt(d, overlay, sample, answer)
             published == Observed(doc, probe, decision)
             failure == NextSwitchFailure(doc, decision.target)
             prior == SwitchFailureHistory(doc, Other(selector))
             t == Before(seen')
  <1>0. Inv /\ trail \in Trail /\ RetryInv
    BY DEF HInv
  <1>1. seen' \in Seen /\ seen'.path = selector /\ seen'.gap = d
    BY DEF Records
  <1>2. /\ selector \in Paths /\ doc \in Document
        /\ probe \in SelectedProbe /\ alternate \in AlternateProbe
    BY <1>0, MetProbes
  <1>3. /\ decision \in Decision /\ published \in Document
        /\ published.preferred_retry = decision.preferred_retry
    BY PublishedFields DEF Published
  <1>4. decision.target = Other(selector)
    <2>1. decision.target \in Paths
      BY <1>3 DEF Decision
    <2>2. Other(selector) \in Paths /\ Other(selector) # selector
      BY <1>2, OtherPath
    <2> HIDE DEF decision
    <2> QED  BY <1>2, <2>1, <2>2 DEF Paths, decision
  <1>5. /\ document'.quality_failure = None /\ document'.preferred_recovery = None
        /\ document'.preferred_retry = decision.preferred_retry
        /\ ending.result # "activated" =>
              /\ document'.switch_backoff = failure
              /\ document'.last_switch_failure = failure
    <2> HIDE DEF doc, probe, published
    <2> QED  BY <1>2, <1>3, AttemptedFields DEF published, probe, doc
  <1>6. ending.result \in {"activated", "restored", "unreported", "unverified"}
    BY DEF Endings
  <1>7. /\ trail' \in Trail
        /\ trail'.left \in {0, t.left}
        /\ trail'.left = 0 => seen'.path = Preferred \/ t.left = 0
        /\ ending.result = "activated" => trail'.failed = AgeCap
        /\ ending.result # "activated" =>
              /\ trail'.failed = 0
              /\ trail'.failures = IF t.failed < StableReset THEN More(t.failures) ELSE 1
    BY <1>0, <1>1, <1>6, AfterAttempt
  <1>8. LossInv' /\ WindowInv'
    BY <1>5 DEF LossInv, WindowInv
  <1>9. t \in Trail
    BY <1>0, <1>1, BeforeFields
  <1>10. FailureInv'
    <2>1. /\ failure.target = Other(selector) /\ failure.failed = 0
          /\ failure.attempts = IF prior = None THEN 1 ELSE More(prior.attempts)
      BY <1>4 DEF NextSwitchFailure
    <2>2. failure \in SwitchFailure
      BY <1>2, <1>4, OtherPath, SwitchHistoryType
    <2>3. failure # None /\ failure.attempts \in Count
      BY <2>2, NoneAssumption DEF NoneAssumption, SwitchFailure
    <2>4. t.failed < StableReset =>
             /\ prior \in SwitchFailure /\ prior # None
             /\ prior.attempts >= t.failures /\ t.failures >= 1
      BY <1>1, <1>2, HistoryKept
    <2>5. t.failures \in 0..MaxCount /\ MaxCount \in Nat /\ MaxCount >= 2
      BY <1>9, Bounds DEF Trail
    <2>6. ending.result # "activated" =>
             failure.attempts >= trail'.failures /\ trail'.failures >= 1
      <3> HIDE DEF doc, decision, failure, prior, t
      <3>1. CASE t.failed < StableReset
        <4>1. prior.attempts \in Count
          BY <2>4, <3>1 DEF SwitchFailure
        <4>2. More(prior.attempts) >= More(t.failures) /\ More(t.failures) >= 1
          BY <2>4, <2>5, <3>1, <4>1 DEF More, Least, Count
        <4> QED  BY <1>7, <2>1, <2>4, <3>1, <4>2
      <3>2. CASE ~(t.failed < StableReset)
        BY <1>7, <2>3, <2>5, <3>2 DEF Count
      <3> QED  BY <3>1, <3>2
    <2>7. StableReset < AgeCap /\ StableReset \in Nat /\ AgeCap \in Nat
      BY AgesOfTrail, Bounds DEF Age
    <2> HIDE DEF doc, decision, failure, prior, t
    <2>8. CASE ending.result = "activated"
      BY <1>7, <2>7, <2>8 DEF FailureInv
    <2>9. CASE ending.result # "activated"
      BY <1>1, <1>5, <1>7, <2>1, <2>3, <2>6, <2>9 DEF FailureInv, OnRecord
    <2> QED  BY <2>8, <2>9
  <1>11. RetryInv'
    <2>1. t.left < RetryBase => Recent(doc.preferred_retry, t.left)
      BY <1>0, <1>1, AgedRetry DEF DocumentAt
    <2>2. t.left \in Nat /\ NotRecovered \in Int /\ NotRecovered < 0
      BY <1>9, RetryTimes, Bounds DEF Trail, Age
    <2>3. /\ t.left < RetryBase => Recent(decision.preferred_retry, t.left)
          /\ selector = Preferred => Recent(decision.preferred_retry, 0)
      <3>1. /\ selector = Preferred =>
                  /\ decision.preferred_retry # None /\ decision.preferred_retry.failed = 0
                  /\ decision.preferred_retry.recovered = NotRecovered
            /\ \A since \in Nat :
                  since < RetryBase /\ Recent(doc.preferred_retry, since) =>
                     Recent(decision.preferred_retry, since)
        BY <1>2, RetryDecision DEF DecisionAt
      <3> HIDE DEF doc, decision, t
      <3> QED  BY <2>1, <2>2, <3>1 DEF Recent
    <2> HIDE DEF doc, decision, t
    <2> QED  BY <1>1, <1>5, <1>7, <2>2, <2>3 DEF RetryInv, Recent
  <1> QED  BY <1>7, <1>8, <1>10, <1>11

\* The evidence an unpublished attempt leaves standing is of the path it acted on.
LEMMA LeavesOwnEvidence ==
    ASSUME HInv, NEW d \in Elapsed, NEW overlay, NEW sample, NEW answer,
           Met(d, overlay, sample, answer), NEW look,
           Records(look, d, overlay, sample, answer), look.result # "lost",
           DecisionAt(d, overlay, sample, answer).target # selector
    PROVE  LET doc == DocumentAt(d) IN
           \/ doc.selected = selector
           \/ doc.quality_failure = None /\ doc.preferred_recovery = None
  <1> DEFINE doc == DocumentAt(d)
             probe == SelectedAt(d, overlay, sample)
             alternate == AlternateAt(d, overlay, sample, answer)
  <1>1. CASE overlay = "ok"
    BY <1>1, LeavesOnMerit
  <1>2. CASE overlay # "ok"
    <2>1. /\ selector \in Paths /\ doc \in Document
          /\ probe \in SelectedProbe /\ alternate \in AlternateProbe
          /\ ~probe.ok => probe.reason \in Reasons
          /\ ~probe.ok
      <3>1. /\ selector \in Paths /\ doc \in Document
            /\ probe \in SelectedProbe /\ alternate \in AlternateProbe
            /\ ~probe.ok => probe.reason \in Reasons
            /\ probe.ok = (overlay = "ok")
        BY MetProbes DEF HInv
      <3> HIDE DEF doc, probe, alternate
      <3> QED  BY <1>2, <3>1
    <2>2. doc.failure # None
      BY <2>1, EvaluateResult DEF DecisionAt
    <2>3. Describes(doc)
      BY AgedDescribes DEF HInv, Inv, TypeOK, DocumentAt
    <2> QED  BY <2>2, <2>3 DEF Describes
  <1> QED  BY <1>1, <1>2

LEMMA InterruptedCycle ==
    ASSUME HInv, NEW d \in Elapsed, NEW overlay, NEW sample, NEW answer,
           Met(d, overlay, sample, answer), Records(seen', d, overlay, sample, answer),
           DecisionAt(d, overlay, sample, answer).target # selector,
           seen'.result = "interrupted", document' = DocumentAt(d),
           NEW moved, trail' = AfterCycle(seen', moved)
    PROVE  (trail \in Trail /\ LossInv /\ WindowInv /\ FailureInv /\ RetryInv)'
  <1> DEFINE doc == DocumentAt(d)
             t == Before(seen')
  <1>0. Inv /\ trail \in Trail /\ LossInv /\ WindowInv /\ FailureInv /\ RetryInv
    BY DEF HInv
  <1>1. seen' \in Seen /\ seen'.path = selector /\ seen'.gap = d
    BY DEF Records
  <1>2. trail' = t /\ t \in Trail
    <2>1. t \in Trail
      BY <1>0, <1>1, BeforeFields
    <2>2. AfterCycle(seen', moved) = t
      BY DEF AfterCycle, Attempts
    <2> QED  BY <2>1, <2>2
  <1>3. doc.selected = selector \/ (doc.quality_failure = None
                                       /\ doc.preferred_recovery = None)
    BY LeavesOwnEvidence
  <1>4. doc.quality_failure # None =>
           /\ doc.selected = seen.path
           /\ seen'.path = seen.path => t.pair = doc.quality_failure.observed
           /\ doc.quality_probe_at <= doc.quality_failure.observed
    BY <1>0, <1>1, AgedLoss DEF DocumentAt
  <1>5. doc.preferred_recovery # None =>
           /\ doc.selected = seen.path
           /\ seen'.path = seen.path => Claims(doc.preferred_recovery, t)
    BY <1>0, <1>1, AgedWindow DEF DocumentAt
  <1>6. t.failed < StableReset => OnRecord(doc, seen'.path, t)
    BY <1>0, <1>1, AgedFailure DEF DocumentAt
  <1>7. t.left < RetryBase => Recent(doc.preferred_retry, t.left)
    BY <1>0, <1>1, AgedRetry DEF DocumentAt
  <1>8. document' = doc
    OBVIOUS
  <1> HIDE DEF doc, t
  <1>9. LossInv'
    BY <1>1, <1>2, <1>3, <1>4, <1>8 DEF LossInv
  <1>10. WindowInv'
    BY <1>1, <1>2, <1>3, <1>5, <1>8 DEF WindowInv, Claims
  <1>11. FailureInv'
    BY <1>2, <1>6, <1>8 DEF FailureInv, OnRecord
  <1>12. RetryInv'
    BY <1>2, <1>7, <1>8 DEF RetryInv, Recent
  <1> QED  BY <1>2, <1>9, <1>10, <1>11, <1>12
-----------------------------------------------------------------------------
(* The steps. *)

\* What a step that leaves a live path owes to the four properties.
OnMerit ==
    LET t == Before(seen')
        run == RunAfter(t, seen') IN
    LeavesLivePath =>
        /\ seen'.sample = "degraded" =>
              seen'.other = "healthy" /\ t.pair \in QualityInterval..QualityGap
        /\ seen'.sample # "degraded" =>
              /\ seen'.path = Fallback /\ run.clean = 0
              /\ run.count >= RecoveryConfirmations /\ run.since >= RecoverySeconds
        /\ t.failed < StableReset =>
              t.failed >= Delay(SwitchBase, SwitchMax, t.failures)
        /\ seen'.path = Fallback => t.left >= RetryBase

LEMMA AttemptOnMerit ==
    ASSUME HInv, NEW d \in Elapsed, NEW overlay, NEW sample, NEW answer,
           Met(d, overlay, sample, answer), Records(seen', d, overlay, sample, answer),
           seen'.result \in Attempts,
           DecisionAt(d, overlay, sample, answer).target # selector,
           ~Suppressed(DocumentAt(d), SelectedAt(d, overlay, sample),
                       DecisionAt(d, overlay, sample, answer))
    PROVE  OnMerit
  <1> DEFINE probe == SelectedAt(d, overlay, sample)
             t == Before(seen')
             run == RunAfter(t, seen')
  <1> SUFFICES ASSUME LeavesLivePath
               PROVE  /\ seen'.sample = "degraded" =>
                            /\ seen'.other = "healthy"
                            /\ t.pair \in QualityInterval..QualityGap
                      /\ seen'.sample # "degraded" =>
                            /\ seen'.path = Fallback /\ run.clean = 0
                            /\ run.count >= RecoveryConfirmations
                            /\ run.since >= RecoverySeconds
                      /\ t.failed < StableReset =>
                            t.failed >= Delay(SwitchBase, SwitchMax, t.failures)
                      /\ seen'.path = Fallback => t.left >= RetryBase
    BY DEF OnMerit
  <1>1. /\ seen' \in Seen /\ seen'.path = selector /\ seen'.gap = d
        /\ overlay = "ok" /\ seen'.result # "lost"
    BY DEF Records, LeavesLivePath, Attempts
  <1>2. /\ seen'.sample = "degraded" =>
              seen'.other = "healthy" /\ t.pair \in QualityInterval..QualityGap
        /\ seen'.sample # "degraded" =>
              /\ seen'.path = Fallback /\ run.clean = 0
              /\ run.count >= RecoveryConfirmations /\ run.since >= RecoverySeconds
        /\ seen'.path = Fallback => t.left >= RetryBase
    BY <1>1, LeavesOnMerit
  <1>3. selector \in Paths /\ probe.ok
    <2>1. selector \in Paths /\ probe.ok = (overlay = "ok")
      BY MetProbes DEF HInv
    <2> HIDE DEF probe
    <2> QED  BY <1>1, <2>1
  <1>4. SwitchBackoff(DocumentAt(d), Other(selector)) = None
    BY <1>3 DEF Suppressed
  <1>5. t.failed < StableReset => t.failed >= Delay(SwitchBase, SwitchMax, t.failures)
    BY <1>1, <1>3, <1>4, LeavesAfterDelay
  <1> HIDE DEF t, run
  <1> QED  BY <1>2, <1>5

LEMMA HistoryCycle ==
    ASSUME HInv, NEW d \in Elapsed, Cycle(d),
           trail' = AfterCycle(seen', selector' # selector)
    PROVE  HInv' /\ OnMerit
  <1>1. PICK overlay \in Overlays, sample \in FreshSamples \cup {"none"},
             answer \in Answers \cup {"none"} :
           /\ Met(d, overlay, sample, answer)
           /\ Concluded(DocumentAt(d), SelectedAt(d, overlay, sample),
                        DecisionAt(d, overlay, sample, answer),
                        Look(d, overlay, sample, answer))
    BY CycleParts
  <1> DEFINE doc == DocumentAt(d)
             probe == SelectedAt(d, overlay, sample)
             decision == DecisionAt(d, overlay, sample, answer)
             look == Look(d, overlay, sample, answer)
             published == Observed(doc, probe, decision)
  <1>2. Inv' /\ seen' \in Seen
    BY CycleStep DEF HInv, Inv, TypeOK
  <1>3. /\ look.path = selector /\ look.overlay = overlay /\ look.sample = sample
        /\ look.other = answer /\ look.gap = d
        /\ look = [look EXCEPT !.result = "none"]
    BY DEF Look
  <1>4. ASSUME NEW result, seen' = [look EXCEPT !.result = result]
        PROVE  Records(seen', d, overlay, sample, answer) /\ seen'.result = result
    <2>1. seen' = [path |-> selector, overlay |-> overlay, sample |-> sample,
                   other |-> answer, gap |-> d, result |-> result,
                   turn |-> (seen.turn + 1) % Turns]
      BY <1>4 DEF Look
    <2> QED  BY <1>2, <2>1 DEF Records
  <1>5. \/ Observe(doc, probe, decision, look)
        \/ Switch(doc, probe, decision, look)
        \/ Interrupted(doc, probe, decision, look)
    BY <1>1 DEF Concluded
  <1>6. /\ published \in Document
        /\ Published(d, overlay, sample, answer, published)
        /\ \A state \in States :
              Published(d, overlay, sample, answer, [published EXCEPT !.state = state])
    BY <1>1, PublishedFields
  <1>7. CASE Observe(doc, probe, decision, look)
    <2>1. /\ \/ document' = published
             \/ \E state \in States : document' = [published EXCEPT !.state = state]
          /\ seen' = [look EXCEPT !.result = "none"]
      BY <1>7 DEF Observe, States
    <2>2. Records(seen', d, overlay, sample, answer) /\ seen'.result = "none"
      BY <1>4, <2>1
    <2>3. Published(d, overlay, sample, answer, document')
      BY <1>6, <2>1
    <2>4. (trail \in Trail /\ LossInv /\ WindowInv /\ FailureInv /\ RetryInv)'
      BY <1>1, <2>2, <2>3, QuietCycle
    <2>5. OnMerit
      BY <2>2 DEF OnMerit, LeavesLivePath, Attempts
    <2> QED  BY <1>2, <2>4, <2>5 DEF HInv
  <1>8. CASE Switch(doc, probe, decision, look)
    <2>1. /\ decision.target # selector /\ ~Suppressed(doc, probe, decision)
          /\ \E ending \in Endings(selector, decision.target) :
                /\ document' = Attempted(doc, published, decision, ending)
                /\ selector' = ending.actual
                /\ seen' = [look EXCEPT !.result = ending.result]
      BY <1>8 DEF Switch
    <2>2. PICK ending \in Endings(selector, decision.target) :
                /\ document' = Attempted(doc, published, decision, ending)
                /\ seen' = [look EXCEPT !.result = ending.result]
      BY <2>1
    <2>3. Records(seen', d, overlay, sample, answer) /\ seen'.result = ending.result
      BY <1>4, <2>2
    <2>4. (trail \in Trail /\ LossInv /\ WindowInv /\ FailureInv /\ RetryInv)'
      BY <1>1, <2>1, <2>2, <2>3, AttemptCycle
    <2>5. seen'.result \in Attempts
      BY <2>3 DEF Endings, Attempts
    <2>6. OnMerit
      BY <1>1, <2>1, <2>3, <2>5, AttemptOnMerit
    <2> QED  BY <1>2, <2>4, <2>6 DEF HInv
  <1>9. CASE Interrupted(doc, probe, decision, look)
    <2>1. /\ decision.target # selector /\ ~Suppressed(doc, probe, decision)
          /\ document' = doc
          /\ seen' = [look EXCEPT !.result = "interrupted"]
      BY <1>9 DEF Interrupted
    <2>2. Records(seen', d, overlay, sample, answer) /\ seen'.result = "interrupted"
      BY <1>4, <2>1
    <2>3. (trail \in Trail /\ LossInv /\ WindowInv /\ FailureInv /\ RetryInv)'
      BY <1>1, <2>1, <2>2, InterruptedCycle
    <2>4. OnMerit
      BY <1>1, <2>1, <2>2, AttemptOnMerit DEF Attempts
    <2> QED  BY <1>2, <2>3, <2>4 DEF HInv
  <1> QED  BY <1>5, <1>7, <1>8, <1>9

LEMMA HistoryUnobserved ==
    ASSUME HInv, SomeUnobserved, NEW moved, trail' = AfterCycle(seen', moved)
    PROVE  HInv' /\ OnMerit
  <1>1. PICK d \in Elapsed, selected \in Paths \cup {None},
             state \in {"failed", "maintenance"} : Unobserved(d, selected, state)
    BY DEF SomeUnobserved
  <1> DEFINE doc == Aged(document, d)
             t == Before(seen')
  <1>0. Inv /\ trail \in Trail /\ FailureInv /\ RetryInv
    BY DEF HInv
  <1>2. Inv' /\ seen' \in Seen
    BY <1>0, UnobservedStep DEF Inv, TypeOK
  <1>3. /\ document' = FailedObservation(doc, selected, state)
        /\ seen' = NothingSeen(selector, d, seen.turn)
    BY <1>1 DEF Unobserved
  <1>4. seen'.path = selector /\ seen'.gap = d /\ seen'.result = "lost"
    BY <1>3 DEF NothingSeen
  <1>5. /\ document'.quality_failure = None /\ document'.preferred_recovery = None
        /\ document'.preferred_retry = doc.preferred_retry
        /\ document'.switch_backoff = doc.switch_backoff
        /\ document'.last_switch_failure = doc.last_switch_failure
    <2> HIDE DEF doc
    <2> QED  BY <1>3 DEF FailedObservation, NoDocument
  <1>6. /\ trail' \in Trail /\ trail'.left = t.left /\ trail'.failed = t.failed
        /\ trail'.failures = t.failures
    BY <1>0, <1>2, <1>4, AfterQuiet DEF Attempts
  <1>7. t.failed < StableReset => OnRecord(doc, seen'.path, t)
    BY <1>0, <1>2, <1>4, AgedFailure
  <1>8. t.left < RetryBase => Recent(doc.preferred_retry, t.left)
    BY <1>0, <1>2, <1>4, AgedRetry
  <1> HIDE DEF doc, t
  <1>9. LossInv' /\ WindowInv'
    BY <1>5 DEF LossInv, WindowInv
  <1>10. FailureInv'
    BY <1>5, <1>6, <1>7 DEF FailureInv, OnRecord
  <1>11. RetryInv'
    BY <1>5, <1>6, <1>8 DEF RetryInv, Recent
  <1>12. OnMerit
    BY <1>4 DEF OnMerit, LeavesLivePath, Attempts
  <1> QED  BY <1>2, <1>6, <1>9, <1>10, <1>11, <1>12 DEF HInv

LEMMA HistoryReselect ==
    ASSUME HInv, NEW path \in Paths, Reselect(path), UNCHANGED trail
    PROVE  HInv' /\ OnMerit
  <1> DEFINE result == IF seen.result \in Unpublished THEN "reselected" ELSE "lost"
  <1>0. /\ Inv /\ trail \in Trail /\ LossInv /\ WindowInv /\ FailureInv /\ RetryInv
        /\ seen \in Seen
    BY DEF HInv, Inv, TypeOK
  <1>1. document' = document /\ seen' = [seen EXCEPT !.result = result] /\ trail' = trail
    BY DEF Reselect
  <1>2. seen'.path = seen.path /\ seen'.result = result
    BY <1>0, <1>1 DEF Seen
  <1>3. Inv'
    BY <1>0, ReselectStep
  <1>4. (trail \in Trail /\ LossInv /\ WindowInv /\ FailureInv /\ RetryInv)'
    BY <1>0, <1>1, <1>2 DEF LossInv, WindowInv, Claims, FailureInv, OnRecord, RetryInv,
       Recent
  <1>5. OnMerit
    BY <1>2 DEF OnMerit, LeavesLivePath, Attempts
  <1> QED  BY <1>3, <1>4, <1>5 DEF HInv

LEMMA HistoryInit == HInit => HInv
  <1> SUFFICES ASSUME HInit PROVE HInv
    OBVIOUS
  <1>1. Inv
    BY InitInv DEF HInit
  <1>2. document.quality_failure = None /\ document.preferred_recovery = None
    BY DEF HInit, Init, NoDocument
  <1>3. trail \in Trail /\ trail.failed = AgeCap /\ trail.left = AgeCap
    <2>1. 0 \in 0..MaxCount
      BY Bounds
    <2> QED  BY <2>1, AgesOfTrail DEF HInit, NoTrail, Trail
  <1>4. StableReset < AgeCap /\ RetryBase <= StableReset
        /\ StableReset \in Nat /\ AgeCap \in Nat /\ RetryBase \in Nat
    BY AgesOfTrail, RetryTimes, Bounds
  <1> QED  BY <1>1, <1>2, <1>3, <1>4 DEF HInv, LossInv, WindowInv, FailureInv, RetryInv

LEMMA HistoryStep ==
    ASSUME HInv, HNext
    PROVE  HInv' /\ OnMerit
  <1>1. CASE /\ \E d \in Elapsed : Cycle(d)
             /\ trail' = AfterCycle(seen', selector' # selector)
    BY <1>1, HistoryCycle
  <1>2. CASE SomeUnobserved /\ trail' = AfterCycle(seen', selector' # selector)
    BY <1>2, HistoryUnobserved
  <1>3. CASE (\E path \in Paths : Reselect(path)) /\ UNCHANGED trail
    BY <1>3, HistoryReselect
  <1> QED  BY <1>1, <1>2, <1>3 DEF HNext

LEMMA HistoryStutter ==
    ASSUME HInv, UNCHANGED hvars
    PROVE  HInv'
  <1>1. Inv'
    BY StutterInv DEF HInv, hvars
  <1> QED  BY <1>1 DEF HInv, hvars, vars, LossInv, WindowInv, Claims, FailureInv, OnRecord,
              RetryInv, Recent

LEMMA HistoryInvariance == HSpec => []HInv
  <1>1. HInv /\ [HNext]_hvars => HInv'
    BY HistoryStep, HistoryStutter
  <1> QED  BY HistoryInit, <1>1, PTL DEF HSpec
-----------------------------------------------------------------------------
\* evaluate_transport_policy leaves a lossy path only on the second of two pairs of fresh
\* samples, lossy there and clean on the other path, however cycles, deaths before the
\* write and outside selections fall between them.
THEOREM LossIsConfirmed == HSpec => LossNeedsTwoPairs
  <1>1. HInv /\ [HNext]_hvars =>
          [LeavesLivePath /\ seen'.sample = "degraded" =>
              /\ seen'.other = "healthy"
              /\ Before(seen').pair \in QualityInterval..QualityGap]_hvars
    BY HistoryStep DEF OnMerit
  <1> QED  BY HistoryInvariance, <1>1, PTL DEF HSpec, LossNeedsTwoPairs

\* evaluate_transport_policy returns to the preferred path only after a whole window of
\* clean probes of it, RecoveryConfirmations of them over RecoverySeconds.
THEOREM ReturnIsEarned == HSpec => ReturnNeedsCleanWindow
  <1>1. HInv /\ [HNext]_hvars =>
          [LeavesLivePath /\ seen'.sample # "degraded" =>
              LET run == RunAfter(Before(seen'), seen') IN
              /\ seen'.path = Fallback /\ run.clean = 0
              /\ run.count >= RecoveryConfirmations
              /\ run.since >= RecoverySeconds]_hvars
    BY HistoryStep DEF OnMerit
  <1> QED  BY HistoryInvariance, <1>1, PTL DEF HSpec, ReturnNeedsCleanWindow

\* run_transport_cycle tries again to leave a live path only after the n-th retry delay
\* of n failed activations off it, deaths and outside selections in between included.
THEOREM BackoffIsKept == HSpec => BackoffIsHonoured
  <1>1. HInv /\ [HNext]_hvars =>
          [LeavesLivePath =>
              LET before == Before(seen') IN
              before.failed < StableReset =>
                  before.failed >= Delay(SwitchBase, SwitchMax, before.failures)]_hvars
    BY HistoryStep DEF OnMerit
  <1> QED  BY HistoryInvariance, <1>1, PTL DEF HSpec, BackoffIsHonoured

\* The retry window of the preferred path keeps the controller on a live fallback for at
\* least the first retry delay after it gave the preferred path up.
THEOREM ReturnIsDelayed == HSpec => NoPingPong
  <1>1. HInv /\ [HNext]_hvars =>
          [LeavesLivePath /\ seen'.path = Fallback =>
              Before(seen').left >= RetryBase]_hvars
    BY HistoryStep DEF OnMerit
  <1> QED  BY HistoryInvariance, <1>1, PTL DEF HSpec, NoPingPong
=============================================================================
