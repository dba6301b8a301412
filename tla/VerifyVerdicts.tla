---------------------------- MODULE VerifyVerdicts ----------------------------
(***************************************************************************)
(* How a live verification judges (vpn_installer/verify.py,                *)
(* diagnostics.py): from what a probe runner and the node agents report to *)
(* the verdict of each path, of each node, of the whole, and to the        *)
(* narrower gate by which an installation accepts a release whose          *)
(* operation is limited.                                                   *)
(***************************************************************************)
EXTENDS Naturals, FiniteSets

CONSTANT None

Verdicts == {"verified", "degraded", "inconclusive", "failed"}
Rank(verdict) ==
    CASE verdict = "verified" -> 0 [] verdict = "degraded" -> 1
      [] verdict = "inconclusive" -> 2 [] verdict = "failed" -> 3
\* The worst of some verdicts.
Worst(verdicts) ==
    CHOOSE v \in verdicts \cup {"verified"} : \A w \in verdicts : Rank(w) <= Rank(v)
-----------------------------------------------------------------------------
(* A path: what one run of the probe runner reports. *)

\* A connection to a private address: refused by the SOCKS reply, closed without
\* data (quickly or not), refused for another reason, answered, or not made.
Rejections == {"reply", "fast-eof", "eof", "other", "data", "error"}

\* The router of the gateway refuses private addresses by a guard before its last rule,
\* as long as its configuration is the installed one.
RouterPolicies == [router : BOOLEAN, drift : BOOLEAN, guard : {"before", "after", "missing"}]
PolicyHolds(policy) == policy.router /\ ~policy.drift /\ policy.guard = "before"
\* What the gateway's agent adds to a closed connection: that the policy holds, and that
\* the router's journal has the event of every target since the marker was taken.
Inquiries == [marker : BOOLEAN, answers : BOOLEAN, policy : RouterPolicies,
              journal : {"all", "some", "unread"}]
Correlation(inquiry) ==
    IF ~(inquiry.marker /\ inquiry.answers /\ PolicyHolds(inquiry.policy)) THEN "none"
    ELSE IF inquiry.journal = "all" THEN "event" ELSE "policy"
Correlations == {Correlation(inquiry) : inquiry \in Inquiries}

\* The verdict of a target, correlated.  A slow end needs the event, a quick one
\* the policy alone.
RejectTarget(rejection, correlation) ==
    CASE rejection = "reply" -> "verified"
      [] rejection = "fast-eof" -> IF correlation = "none" THEN "inconclusive" ELSE "verified"
      [] rejection = "eof" -> IF correlation = "event" THEN "verified" ELSE "inconclusive"
      [] rejection = "other" -> "inconclusive"
      [] rejection \in {"data", "error"} -> "failed"
RejectVerdict(targets, correlation) ==
    Worst({RejectTarget(t, correlation) : t \in targets})

\* Checks of the functional result that fail it one by one.
FunctionalChecks == {"identity", "http", "dns", "ipv6", "reliability"}
Functional(failedChecks, reject, required) ==
    IF failedChecks # {} \/ reject = "failed" THEN "failed"
    ELSE IF required /\ reject # "verified" THEN "inconclusive" ELSE "verified"

\* Goodput: not asked for, or complete, consistent, fast and even enough.
PerformanceChecks == {"metrics", "aggregates", "transfers", "sources", "window", "floor", "gap"}
Performance(asked, failedChecks) ==
    IF ~asked THEN None ELSE IF failedChecks = {} THEN "verified" ELSE "failed"
Transport(functional, performance) == Worst({functional, performance} \ {None})

\* The sockets of a flow at the front, by what their kernel counters show.
FlowCounters == [{"slow", "inflated", "timedOut", "resent", "lossy"} -> BOOLEAN]
FlowQuality(flow) ==
    IF flow.slow /\ flow.timedOut /\ (flow.inflated \/ flow.resent) THEN "degraded"
    ELSE IF flow.lossy THEN "loss_observed" ELSE "observed"
\* A sample of the front for one source: the agent answers, its journal could be read,
\* and the connections it accepted on a flow that is still there.
FrontStates == [answers : BOOLEAN, journal : BOOLEAN, accepted : 0..1, flow : FlowCounters]
SampleOf(front) ==
    [valid |-> front.answers /\ front.journal,
     events |-> IF front.journal THEN front.accepted ELSE 0, quality |-> FlowQuality(front.flow)]
Samples == {SampleOf(front) : front \in FrontStates}
\* What the runner's observer sees of the client's connections to the entrance, and how it
\* ends.  A client that is gone, or another process under its number, spoils the report.
SocketObservations ==
    [client : {"same", "gone", "replaced"}, flows : {"none", "some", "excess"}, stopped : BOOLEAN]
SocketReport(seen) ==
    IF seen.client # "same" \/ seen.flows = "excess" \/ ~seen.stopped THEN "error"
    ELSE IF seen.flows = "none" THEN "unseen" ELSE "ok"
SocketReports == {SocketReport(seen) : seen \in SocketObservations}
\* The front is seen to carry the runner's own sockets: an ownership report, samples
\* of the front before and during the run, and among the flows owned an accept that
\* the first sample did not have.
FrontCorrelation(sockets, samples) ==
    LET usable == {s \in samples : s.valid}
        best == {s \in usable : \A t \in usable : t.events <= s.events} IN
    IF sockets # "ok" \/ usable = {} THEN "inconclusive"
    ELSE IF \A s \in best : s.events = 0 THEN "inconclusive"
    ELSE IF \E s \in best : s.quality = "degraded" THEN "degraded" ELSE "verified"
\* The front may make the verdict of the path worse; what is degraded on one side and
\* unproven on the other counts as degraded.
WithFront(transport, front) ==
    CASE front = "verified" -> transport
      [] front # "verified" /\ "failed" \in {transport, front} -> "failed"
      [] front # "verified" /\ "failed" \notin {transport, front} ->
           IF "degraded" \in {transport, front} THEN "degraded" ELSE "inconclusive"
-----------------------------------------------------------------------------
(* A node: the snapshot its agent reports. *)

\* Causes that fail a node outright, apart from its log windows.
HardCauses == {"contract", "collector", "service", "front-policy", "transport", "drift",
               "network", "verdicts", "component", "probes"}
\* What only limits it: the front seen by a single client, a probe of an outside
\* service, and the rest.
Limits == {"client", "external", "other"}
\* Log windows: those a release is judged by, and the history beyond it.
Windows == {"release", "history"}
\* hard and limited are causes; unread windows failed, aged parts are too old.
SnapshotRecords ==
    [hard : SUBSET HardCauses, limited : SUBSET Limits,
     unread : SUBSET Windows, aged : SUBSET (Windows \cup {"snapshot"})]
Clean == [hard |-> {}, limited |-> {}, unread |-> {}, aged |-> {}]
\* What did not report is no verdict and no snapshot.
ASSUME NoneAssumption == None \notin Verdicts /\ None \notin SnapshotRecords

InScope(parts, releaseOnly) == IF releaseOnly THEN parts \ {"history"} ELSE parts
\* _verify_snapshot
NodeVerdict(s, releaseOnly) ==
    IF s.hard # {} \/ InScope(s.unread, releaseOnly) # {} THEN "failed"
    ELSE IF InScope(s.aged, releaseOnly) # {} THEN "inconclusive"
    ELSE IF s.limited # {} THEN "degraded" ELSE "verified"
\* A verified public path speaks against a failed probe of an outside service, when
\* every collector of the agent reported.
Reconciled(s, functional) ==
    IF functional = "verified" /\ "collector" \notin s.hard
    THEN [s EXCEPT !.limited = @ \ {"external"}] ELSE s
-----------------------------------------------------------------------------
(* The whole: a verification record has dual, native, gated (the mode), vless,
   functional, front, hy2 (the paths) and nodes (the snapshots). *)

\* A path measured on the same node does not show the public entrance.
Independent(v) ==
    IF ~v.dual /\ v.functional = "verified" /\ v.vless = "verified"
    THEN "inconclusive" ELSE v.vless
SameNode(v) == ~v.dual /\ v.functional = "verified" /\ v.vless = "verified"

NodeVerdicts(v) ==
    {IF v.nodes[n] = None THEN "failed"
     ELSE NodeVerdict(Reconciled(v.nodes[n], v.functional), FALSE) : n \in DOMAIN v.nodes}
Overall(v) ==
    LET worst == Worst({Independent(v)} \cup IF v.native THEN NodeVerdicts(v) ELSE {}) IN
    IF worst = "verified" /\ v.native /\ v.dual /\ v.hy2 # "verified" THEN "degraded" ELSE worst

\* The gate's look at a node: release windows only; the gateway may be limited by
\* what a single client sees.
GateNode(n, v) ==
    LET s == Reconciled(v.nodes[n], v.functional) IN
    /\ v.nodes[n] # None
    /\ \/ NodeVerdict(s, TRUE) = "verified"
       \/ NodeVerdict(s, TRUE) = "degraded" /\ n = "gateway" /\ s.limited = {"client"}
\* Mutant: the gate does not ask for the second public path.
GateWithoutHysteria(v) ==
    /\ v.native
    /\ v.functional = "verified" /\ v.front = "verified"
    /\ IF v.dual THEN v.vless = "verified" ELSE SameNode(v)
    /\ \A n \in DOMAIN v.nodes : GateNode(n, v)
\* _install_release_gate
Eligible(v) ==
    /\ v.native
    /\ v.functional = "verified" /\ v.front = "verified"
    /\ IF v.dual THEN v.vless = "verified" /\ v.hy2 = "verified" ELSE SameNode(v)
    /\ \A n \in DOMAIN v.nodes : GateNode(n, v)

\* The exit code of verify live.
Accepts(v) == Overall(v) = "verified" \/ (v.gated /\ Eligible(v))
=============================================================================
