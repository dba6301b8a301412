----------------------------- MODULE NodeSnapshot -----------------------------
(***************************************************************************)
(* A node's diagnostics and their judgement (vpn_installer/                *)
(* server_agent.py, verify.py): the agent collects the facts of the node   *)
(* one after another while its parts break and recover, sends the          *)
(* snapshot, and the workstation judges it by a clock of its own.          *)
(***************************************************************************)
EXTENDS TrafficPaths, VerifyVerdicts, JournalWindows

CONSTANTS
    Plans,          \* the node plans: [topology, node]
    Fragile,        \* parts that may break
    MaxBreaks,      \* bound on breaks and repairs
    MaxNow,         \* bound on the coarse clock of the capture
    Skews,          \* how far the node's clock may be ahead of the workstation's
    MaxAge,         \* SNAPSHOT_MAX_AGE_SECONDS
    FutureSkew      \* future_skew_seconds

ASSUME SnapshotAssumption ==
    /\ Plans \subseteq [topology : Topologies, node : {"gateway", "exit"}]
    /\ {MaxBreaks, MaxNow, MaxAge, FutureSkew} \subseteq Nat /\ Skews \subseteq Int

VARIABLES
    plan,           \* the node's plan
    selected,       \* the candidate the selector of the gateway stands at
    up, fell,       \* the parts that work; since when the others do not
    now,            \* the workstation's clock
    skew,           \* how far the node's is ahead
    agent,          \* the collection: see NewCollection
    judged,         \* the workstation's verdict and scope, or None
    breaks          \* breaks and repairs so far

svars == <<plan, selected, up, fell, now, skew, agent, judged, breaks>>
-----------------------------------------------------------------------------
(* The node. *)

\* Beside the parts of TrafficPaths: the installed files, room on the disk, the
\* managed network profile.
NodeParts == Parts \cup {"files", "disk", "profile"}
Dual(p) == p.topology = "dual"
Gateway(p) == p.node = "gateway"
\* Units the plan requires, by the parts they stand for.
RequiredServices(p) ==
    IF ~Gateway(p) THEN {"exit-dns", "hysteria", "interface"}
    ELSE {"cache", "router", "front"} \cup IF Dual(p) THEN {"interface"} ELSE {}
\* Parts the plan's traffic and evidence depend on.  Traffic runs over the selected
\* candidate; the other one is asked for only when it is Hysteria2.
Needed(p, candidate) ==
    RequiredServices(p) \cup {"files", "disk", "profile"}
    \cup IF ~Gateway(p) THEN {"exit-wan"}
         ELSE {"wan"} \cup IF Dual(p) THEN {candidate, "hysteria", "exit-wan", "exit-dns"} ELSE {}

\* Only parts of the node break.
ASSUME FragileAssumption == Fragile \subseteq NodeParts

\* Only a gateway with an exit node has a selector.
Selections(p) == IF Gateway(p) /\ Dual(p) THEN Candidates ELSE {"hysteria"}

\* The collection: the next step; when each collector began, by the node's clock;
\* what it found inactive or wrong; the failed requirements of each probe cycle and
\* the parts down in it; what the transport controller and the front's sockets say;
\* the log windows, by completeness.
NewCollection ==
    [pc |-> "artifacts", stamps |-> {}, inactive |-> {}, wrong |-> {}, cycles |-> <<>>,
     adaptation |-> "good", clients |-> "good", windows |-> None, logsError |-> FALSE]
-----------------------------------------------------------------------------
(* The probes. *)

\* Connections of curl through the router's local entrance: where each has to end.
ProbeUrl(name, literal, ends) ==
    [ends |-> ends, connection |->
       [entrance |-> "probe", name |-> name, literal |-> literal,
        near |-> IF name = NoName THEN "none" ELSE "foreign",
        far |-> IF name = NoName THEN "none" ELSE "foreign"]]
Anywhere == {"gateway", "exit"}
\* A probe of a private address fails, as it should, when the router does not answer.
Private == ProbeUrl(NoName, "private", {"nowhere"})
RouterProbes(p) ==
    IF ~Gateway(p) THEN << >>
    ELSE IF Dual(p) THEN
      [foreign_domains_via_router |-> ProbeUrl({"any"}, "none", Anywhere),
       ipv4_literal_via_foreign |-> ProbeUrl(NoName, "foreign", Anywhere),
       ipv6_literal_via_router |-> ProbeUrl(NoName, "foreign6", Anywhere),
       egress_identities |-> ProbeUrl(NoName, "foreign", {"exit"}),
       private_fake_reject |-> Private]
    ELSE
      [domains_via_router |-> ProbeUrl({"any"}, "none", Anywhere),
       ipv4_literal_via_router |-> ProbeUrl(NoName, "foreign", Anywhere),
       ipv6_literal_via_router |-> ProbeUrl(NoName, "foreign6", Anywhere),
       egress_identities |-> ProbeUrl(NoName, "foreign", {"gateway"}),
       private_fake_reject |-> Private]
\* The installed rules take every probe where it has to end when all the plan needs is
\* up, whatever else is.  No constant is in this; TLC computes it.
ASSUME ProbesGetThrough ==
    \A t \in Topologies : \A candidate \in Candidates :
    LET p == [topology |-> t, node |-> "gateway"] IN
    candidate \in Selections(p) =>
    \A others \in SUBSET (NodeParts \ Needed(p, candidate)) :
    \A r \in DOMAIN RouterProbes(p) :
        Router(t, <<>>, RouterProbes(p)[r].connection, Needed(p, candidate) \cup others,
               candidate, FALSE) \in RouterProbes(p)[r].ends
\* The other connections, over the overlay's interface with a name looked up by the
\* node's own resolver, or plainly: the parts each needs.
PlainProbes(p) ==
    LET overlay == OverlayParts(selected) IN
    IF ~Gateway(p) THEN
      [egress_domains |-> {"exit-wan", "exit-dns"}, ipv4_literal |-> {"exit-wan"},
       ipv6_literal |-> {"exit-wan"}, egress_identity |-> {"exit-wan"}]
    ELSE IF Dual(p) THEN
      [ru_direct_identity |-> {"wan"}, foreign_domains_via_wg |-> overlay \cup {"cache"},
       wireguard_candidate_ipv4 |-> overlay, wireguard_candidate_identity |-> overlay,
       hysteria_candidate_reachable |-> {"router", "wan", "hysteria", "exit-dns"}]
    ELSE [gateway_direct_identity |-> {"wan"}]
\* run_probes: what of the plan's requirements fails at the moment.
FailedRequirements ==
    LET routed == RouterProbes(plan)
        plain == PlainProbes(plan)
    IN {r \in DOMAIN routed :
          Router(plan.topology, <<>>, routed[r].connection, up, selected, FALSE) \notin routed[r].ends}
       \cup {r \in DOMAIN plain : ~ plain[r] \subseteq up}
OptionalTransport == {"foreign_domains_via_wg", "wireguard_candidate_ipv4",
                      "wireguard_candidate_identity", "hysteria_candidate_reachable"}
\* release_gate_ok
GateFails(cycle) == cycle.failed \ OptionalTransport # {}
Cycle == [failed |-> FailedRequirements, down |-> Needed(plan, selected) \ up]
-----------------------------------------------------------------------------
(* collect_runtime_facts. *)

At_(pc) == agent.pc = pc
\* Mutant: facts carry the time at which the snapshot is put together.
Generated(a) == IF a.pc = "overlay" THEN [a EXCEPT !.stamps = {now + skew}] ELSE a
\* A collector's time is that at which it begins.
Stamped(a) == [a EXCEPT !.stamps = @ \cup {now + skew}]
Collected(a) == agent' = a /\ UNCHANGED <<plan, selected, up, fell, now, skew, judged, breaks, jvars>>

Artifacts ==
    /\ At_("artifacts")
    /\ Collected([Stamped(agent) EXCEPT
          !.pc = "services", !.wrong = IF "files" \in up THEN {} ELSE {"drift"}])
Services ==
    /\ At_("services")
    /\ Collected([Stamped(agent) EXCEPT
          !.pc = "maintenance", !.inactive = RequiredServices(plan) \ up])
\* maintenance_snapshot: nothing of it is judged but its age.
Maintenance == At_("maintenance") /\ Collected([Stamped(agent) EXCEPT !.pc = "logs"])
\* summarize_problem_windows; its report is all that is kept of the journal.
ReadLogs ==
    /\ At_("logs") /\ collector.pc # "done"
    /\ Summarize
    /\ agent' = IF collector.pc = "idle" THEN Stamped(agent) ELSE agent
    /\ UNCHANGED <<plan, selected, up, fell, now, skew, judged, breaks>>
Logs ==
    /\ At_("logs") /\ collector.pc = "done"
    /\ agent' = [agent EXCEPT
          !.pc = "front", !.windows = LogWindows,
          !.logsError = \E s \in collector.segments : s.failed /\ s.until = Capture]
    /\ collector' = Idle /\ clock' = Capture /\ journal' = <<>> /\ starts' = {1} /\ kept' = {}
    /\ UNCHANGED <<plan, selected, up, fell, now, skew, judged, breaks, release, troubles>>
\* What the front's sockets show: sources with degraded flows, handshakes that pile up,
\* idle connections without a keepalive timer.
FrontSockets == [sources : {0, 1, 3}, pending : BOOLEAN, stale : BOOLEAN]
FrontObservation(front) ==
    IF front.pending \/ front.stale \/ front.sources >= 3 THEN "shared"
    ELSE IF front.sources > 0 THEN "client" ELSE "good"
\* tcp_front_snapshot: a front without its listener fails.
TcpFront ==
    /\ At_("front")
    /\ IF Gateway(plan)
          THEN \E clients \in {FrontObservation(front) : front \in FrontSockets} :
                  Collected([Stamped(agent) EXCEPT
                     !.pc = "probes", !.clients = clients,
                     !.wrong = @ \cup IF "front" \in up THEN {} ELSE {"front"}])
          ELSE Collected([agent EXCEPT !.pc = "probes"])
\* run_confirmed_probes: a failure of the gate is confirmed by a second cycle.
AfterFirst(cycle) == IF GateFails(cycle) THEN "confirm" ELSE "facts"
RunProbes ==
    /\ At_("probes")
    /\ \E cycle \in {Cycle} :
          Collected([Stamped(agent) EXCEPT !.pc = AfterFirst(cycle), !.cycles = <<cycle>>])
ConfirmProbes ==
    /\ At_("confirm")
    /\ Collected([agent EXCEPT !.pc = "facts", !.cycles = Append(@, Cycle)])
\* The controller's document, of some moments ago; the listeners and the selection,
\* which the router serves.
Transports ==
    /\ At_("facts")
    /\ \E said \in IF Gateway(plan) /\ Dual(plan)
                 THEN {"good", "unsettled", "maintenance", "failed"} ELSE {"good"} :
         LET a == [agent EXCEPT
                !.pc = "network", !.adaptation = said,
                !.wrong = @ \cup IF (IF Gateway(plan) THEN "router" ELSE "hysteria") \in up
                                    THEN {} ELSE {"transport"}]
         IN Collected(IF Dual(plan) THEN Stamped(a) ELSE a)
Network ==
    /\ At_("network")
    /\ Collected([Stamped(agent) EXCEPT
          !.pc = "storage", !.wrong = @ \cup IF "profile" \in up THEN {} ELSE {"profile"}])
Storage ==
    /\ At_("storage")
    /\ Collected([Stamped(agent) EXCEPT
          !.pc = "overlay", !.wrong = @ \cup IF "disk" \in up THEN {} ELSE {"disk"}])
\* wireguard_snapshot, and the time of the whole.
Finish == /\ At_("overlay") /\ Collected([Stamped(agent) EXCEPT !.pc = "sent"])

\* The agent's own verdicts.
ServerPath ==
    IF agent.inactive # {} \/ agent.wrong # {} \/ agent.adaptation = "failed"
       \/ GateFails(Last(agent.cycles)) THEN "failed" ELSE "verified"
PublicFront ==
    IF ~Gateway(plan) THEN "verified"
    ELSE IF "front" \in agent.inactive \cup agent.wrong THEN "failed"
    ELSE IF agent.clients # "good" THEN "degraded" ELSE "verified"
PublicQuic == IF Gateway(plan) /\ "transport" \in agent.wrong THEN "failed" ELSE "verified"
\* Maintenance is what the controller is in while an installation goes on.
Unsettled == agent.adaptation \in {"unsettled", "maintenance"}
HostIntegrity == IF "disk" \in agent.wrong THEN "failed" ELSE "verified"
AgentVerdict ==
    IF "failed" \in {ServerPath, PublicFront, PublicQuic, HostIntegrity} THEN "failed"
    ELSE IF Last(agent.cycles).failed # {} \/ PublicFront = "degraded"
            \/ Unsettled THEN "degraded"
    ELSE IF \E w \in DOMAIN agent.windows : ~agent.windows[w] THEN "inconclusive" ELSE "verified"
-----------------------------------------------------------------------------
(* _verify_snapshot. *)

\* freshness_issues, by a clock that is ahead of the workstation's.
StaleBy(ahead, stamp) == now + ahead - stamp > MaxAge \/ now + ahead - stamp < -FutureSkew
Stale(stamp) == StaleBy(0, stamp)
Record ==
    LET cycle == Last(agent.cycles)
        If(cause, condition) == IF condition THEN {cause} ELSE {}
    IN [hard |-> If("collector", agent.logsError)
                 \cup If("service", agent.inactive # {})
                 \cup If("drift", "drift" \in agent.wrong)
                 \cup If("network", "profile" \in agent.wrong)
                 \cup If("transport", agent.adaptation = "failed")
                 \cup If("verdicts", "failed" \in {ServerPath, PublicFront, HostIntegrity}
                                     \/ (Dual(plan) /\ PublicQuic # "verified"))
                 \cup If("probes", GateFails(cycle)),
        limited |-> If("client", agent.clients = "client")
                    \cup If("other", agent.clients = "shared")
                    \cup If("other", ~GateFails(cycle) /\ cycle.failed # {})
                    \cup If("other", Unsettled),
        unread |-> If("release", \E w \in {"short", "recent", "fresh"} : ~agent.windows[w])
                   \cup If("history", ~agent.windows["day"]),
        aged |-> If("snapshot", \E stamp \in agent.stamps : Stale(stamp))]
Judge ==
    /\ At_("sent")
    /\ \E releaseOnly \in BOOLEAN :
         judged' = [by |-> "workstation", verdict |-> NodeVerdict(Record, releaseOnly),
                    releaseOnly |-> releaseOnly]
    /\ agent' = [agent EXCEPT !.pc = "judged"]
    /\ UNCHANGED <<plan, selected, up, fell, now, skew, breaks, jvars>>
-----------------------------------------------------------------------------
(* verify_active_release: an installation judges its own node, by the node's clock,
   before it commits. *)

\* The agent's reasons, but for the journal's history and for one caused by the
\* installation itself.
OtherReasons == Last(agent.cycles).failed # {} \/ PublicFront # "verified"
                \/ agent.adaptation = "unsettled"
PlannedMaintenance ==
    AgentVerdict = "degraded" /\ agent.adaptation = "maintenance" /\ ~OtherReasons
\* validate_install_runtime: of the windows only the one since the release must be complete.
RuntimeAccepted ==
    /\ agent.windows["fresh"]
    /\ \A stamp \in agent.stamps : ~StaleBy(skew, stamp)
    /\ AgentVerdict \in {"verified", "inconclusive"} \/ PlannedMaintenance
Accepted ==
    /\ ~agent.logsError /\ agent.inactive = {}
    /\ {ServerPath, PublicFront, HostIntegrity} = {"verified"}
    /\ {"drift", "profile"} \cap agent.wrong = {}
    /\ RuntimeAccepted
Accept ==
    /\ At_("sent")
    /\ judged' = [by |-> "installer", verdict |-> IF Accepted THEN "verified" ELSE "failed",
                  releaseOnly |-> TRUE]
    /\ agent' = [agent EXCEPT !.pc = "judged"]
    /\ UNCHANGED <<plan, selected, up, fell, now, skew, breaks, jvars>>
-----------------------------------------------------------------------------
(* What happens meanwhile. *)

Collecting == agent.pc # "judged"
Tick ==
    /\ Collecting /\ now < MaxNow
    /\ now' = now + 1
    /\ UNCHANGED <<plan, selected, up, fell, skew, agent, judged, breaks, jvars>>
Break(part) ==
    /\ Collecting /\ breaks < MaxBreaks /\ part \in up
    /\ up' = up \ {part} /\ fell' = [fell EXCEPT ![part] = now] /\ breaks' = breaks + 1
    /\ UNCHANGED <<plan, selected, now, skew, agent, judged, jvars>>
Mend(part) ==
    /\ Collecting /\ breaks < MaxBreaks /\ part \notin up
    /\ up' = up \cup {part} /\ fell' = [fell EXCEPT ![part] = None] /\ breaks' = breaks + 1
    /\ UNCHANGED <<plan, selected, now, skew, agent, judged, jvars>>
Journal == At_("logs") /\ Journald /\ UNCHANGED svars

\* Either the journal is in motion or the parts and clocks are.
QuietJournal ==
    /\ clock = Capture /\ journal = <<[stamp |-> 1, kind |-> "other"]>> /\ starts = {1} /\ kept = {1}
    /\ release = Max(Releases) /\ collector = Idle /\ troubles = MaxTroubles
SInit ==
    /\ plan \in Plans /\ selected \in Selections(plan) /\ agent = NewCollection /\ judged = None
    /\ up = NodeParts /\ fell = [part \in NodeParts |-> None]
    /\ \/ QuietJournal /\ skew \in Skews /\ now = 0 /\ breaks = 0
       \/ JInit /\ plan = [topology |-> "dual", node |-> "gateway"] /\ selected = "hysteria"
          /\ skew = 0 /\ now = MaxNow /\ breaks = MaxBreaks
SNext ==
    \/ Artifacts \/ Services \/ Maintenance \/ ReadLogs \/ Logs \/ TcpFront \/ RunProbes \/ ConfirmProbes
    \/ Transports \/ Network \/ Storage \/ Finish \/ Judge \/ Accept \/ Tick \/ Journal
    \/ \E part \in Fragile : Break(part) \/ Mend(part)
SSpec == SInit /\ [][SNext]_<<svars, jvars>>
-----------------------------------------------------------------------------
\* Traffic leaves the system where the rendered configuration means it to or nowhere,
\* whatever is down and whichever candidate is selected; and with everything up it does
\* leave there.  For what the router's rules see that is: the operator's rules before
\* names and names before addresses, private and blocked destinations never, nothing
\* meant for the exit node from the gateway.  Not so for what is Exempt.  UDP from the
\* Xray front of a dual gateway leaves at the exit node although the operator has a rule
\* for it, its name is forced direct or Russian, or its address is blocked: only private
\* literals are dropped.  DNS of the Hysteria2 clients leaves by the final outbound.
\* (docs/PROJECT.md:93-94 and docs/ADMIN.md:45 know of no exemption.)
TrafficIsSplit ==
    At_("artifacts") /\ now = 0 /\ Gateway(plan) =>
    \A admin \in {a \in AdminLists : a = <<>> \/ Len(a) + breaks <= 2} :
    \A c \in Connections, blockRussian \in {FALSE, admin = <<>>} :
        LET intended == Intended(plan.topology, admin, c)
            left == Outcome(plan.topology, admin, c, up, selected, blockRussian)
        IN /\ left \in {intended, "nowhere"}
           /\ up = NodeParts /\ ~blockRussian => left = intended

\* A verified snapshot is no older than it says: every part the node's traffic needs
\* worked within the last MaxAge, for the workstation by the clocks' true distance, and
\* every window it is judged by was read completely.  A workstation fails a node on its
\* probes alone only when something it needs was down in two cycles.  Nobody judges better
\* than the agent, but for gaps in the history and, in an installation's own judgement, for
\* the pause it has itself imposed on the controller.
VerdictIsJust ==
    judged # None =>
    LET own == judged.by = "installer"
        distance == IF own THEN 0 ELSE skew
        unread == IF own THEN {"short", "recent", "day"}
                  ELSE IF judged.releaseOnly THEN {"day"} ELSE {}
    IN
    /\ judged.verdict = "verified" =>
         /\ \A part \in Needed(plan, selected) \ up : now - fell[part] <= MaxAge + distance
         /\ \A w \in DOMAIN agent.windows : agent.windows[w] \/ w \in unread
         /\ own => Last(agent.cycles).failed = {}
    /\ judged.verdict = "failed" /\ ~own /\ Record.hard = {"verdicts", "probes"} =>
         Len(agent.cycles) = 2 /\ \A i \in 1..2 : agent.cycles[i].down # {}
    /\ Rank(judged.verdict) >= Rank(AgentVerdict)
       \/ (judged.releaseOnly /\ AgentVerdict = "inconclusive")
       \/ (own /\ agent.adaptation = "maintenance" /\ AgentVerdict = "degraded")
=============================================================================
