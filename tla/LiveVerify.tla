------------------------------- MODULE LiveVerify -------------------------------
(***************************************************************************)
(* verify live (vpn_installer/verify.py, vless_verify.py): a workstation   *)
(* starts a probe runner on a node, detached from the SSH session that     *)
(* started it, polls it, judges what it reports and cleans up.  The runner *)
(* is a group of processes, its main shell, an ephemeral sing-box client   *)
(* listening on a fixed local port, and a watchdog over the lease that the *)
(* polls renew; all of them inherit the descriptor of a lock.  Any request *)
(* may fail, its answer may be lost, a workstation may vanish, and a main  *)
(* shell may be killed.                                                    *)
(***************************************************************************)
EXTENDS VerifyVerdicts

CONSTANTS
    Hosts,        \* workstations that verify
    Judges,       \* those whose judgement is followed to the end
    Modes,        \* the verifications they make: [dual, native, gated]
    Reports,      \* what an agent may report of its node
    Faults        \* how many workstations vanish and main shells are killed

Profiles == {"vless", "hysteria2"}
Runs == (Judges \X Profiles) \cup (Hosts \X {"vless"})
Results == [via : Runs, ok : BOOLEAN, whole : BOOLEAN]

ASSUME VerifyAssumption ==
    /\ Judges \subseteq Hosts /\ Faults \in Nat
    /\ Modes \subseteq [dual : BOOLEAN, native : BOOLEAN, gated : BOOLEAN]
    /\ Reports \subseteq SnapshotRecords
    /\ None \notin Results

VARIABLES
    mode,      \* what kind of verification this is
    runner,    \* the processes of each run on the node
    control,   \* where each workstation is
    reported,  \* the paths whose result it has collected
    verdict,   \* what an accepted verification rests on
    faults

vars == <<mode, runner, control, reported, verdict, faults>>

NoRunner == [main |-> "none", proxy |-> "off", watchdog |-> FALSE, locked |-> FALSE,
             lease |-> "none", term |-> FALSE, result |-> None]
NodesOf(m) == IF m.dual THEN {"gateway", "exit"} ELSE {"gateway"}
Init ==
    /\ mode \in Modes
    /\ runner = [r \in Runs |-> NoRunner]
    /\ control = [h \in Hosts |-> [at |-> "start", profile |-> "vless"]]
    /\ reported = [h \in Hosts |-> {}]
    /\ verdict = [h \in Hosts |-> None]
    /\ faults = 0
-----------------------------------------------------------------------------
(* The runner on the node. *)

MainAlive(r) == runner[r].main \notin {"none", "over"}
Alive(r) == MainAlive(r) \/ runner[r].proxy # "off" \/ runner[r].watchdog
\* Mutant: the children of the runner close the lock's descriptor.
HeldByMain(r) == runner[r].locked /\ MainAlive(r)
\* The lock is held as long as any process has its descriptor.
Holds(r) == runner[r].locked /\ Alive(r)

\* Nothing is left that looks at its lease.
Ended(r) == [NoRunner EXCEPT !.main = "over", !.result = runner[r].result]
Ends(r) == runner' = [runner EXCEPT ![r] = Ended(r)]
Set(r, main) == runner' = [runner EXCEPT ![r].main = main]
RunnerStep == UNCHANGED <<mode, control, reported, verdict, faults>>

\* flock -n; a busy runner exits.
Enter(r) ==
    /\ runner[r].main = "new"
    /\ IF runner[r].lease = "gone" \/ \E q \in Runs \ {r} : Holds(q)
       THEN Ends(r)
       ELSE runner' = [runner EXCEPT ![r].main = "locked", ![r].locked = TRUE]
    /\ RunnerStep

\* The watchdog and the client.  A client that finds the port in use gives up, later
\* than the runner looks, perhaps.
Launch(r) ==
    /\ runner[r].main = "locked"
    /\ LET free == \A q \in Runs : runner[q].proxy # "listens" IN
       runner' = [runner EXCEPT ![r].main = "probe", ![r].watchdog = TRUE,
                                ![r].proxy = IF free THEN "listens" ELSE "off"]
    /\ RunnerStep

\* The probes go to the port, whoever listens there, and find its path working or
\* not; of the others only who answered is followed.
Probe(r) ==
    /\ runner[r].main = "probe"
    /\ \E q \in {q \in Runs : runner[q].proxy = "listens"}, ok \in BOOLEAN :
          /\ ok => r[1] \in Judges
          /\ runner' = [runner EXCEPT ![r].main = "report",
                                      ![r].result = [via |-> q, ok |-> ok, whole |-> FALSE]]
    /\ RunnerStep

Report(r) ==
    /\ runner[r].main = "report"
    /\ runner' = [runner EXCEPT ![r].main = "leaves", ![r].result.whole = TRUE]
    /\ RunnerStep

\* A failed check, a failed probe, or the deadline that timeout sets on the node.
Fails(r) ==
    /\ runner[r].main \in {"locked", "probe", "report"}
    /\ Set(r, "leaves")
    /\ RunnerStep

\* cleanup: the main shell waits until its children are gone, then exits.
Leave(r) ==
    /\ runner[r].main = "leaves" \/ (runner[r].term /\ MainAlive(r))
    /\ Ends(r)
    /\ RunnerStep

\* Mutant: the watchdog signals the main shell, not the group.
SignalsMain(r) ==
    /\ runner[r].watchdog /\ runner[r].lease # "fresh"
    /\ runner' = [runner EXCEPT ![r].watchdog = FALSE, ![r].term = MainAlive(r)]
    /\ RunnerStep
\* watch_controller: an old or a missing lease ends the group.
Watchdog(r) ==
    /\ runner[r].watchdog /\ runner[r].lease # "fresh"
    /\ runner' = [runner EXCEPT ![r].watchdog = FALSE, ![r].term = TRUE]
    /\ RunnerStep
\* A member of a signalled group whose main shell is gone.
Orphan(r) ==
    /\ runner[r].term /\ ~MainAlive(r) /\ (runner[r].proxy # "off" \/ runner[r].watchdog)
    /\ Ends(r)
    /\ RunnerStep

\* Nothing renewed the lease for its time: nobody polls, or one request after the
\* other took long.
Expire(r) ==
    /\ runner[r].lease = "fresh" /\ Alive(r)
    /\ runner' = [runner EXCEPT ![r].lease = "old"]
    /\ RunnerStep

\* SIGKILL of the main shell alone: kill-after of timeout, or want of memory.
Kill(r) ==
    /\ faults < Faults /\ runner[r].main \in {"locked", "probe", "report", "leaves"}
    /\ Set(r, "over")
    /\ faults' = faults + 1
    /\ UNCHANGED <<mode, control, reported, verdict>>
-----------------------------------------------------------------------------
(* The workstation. *)

Here(h) == <<h, control[h].profile>>
Goes(h, place) == control' = [control EXCEPT ![h].at = place]
ControlStep == UNCHANGED <<mode, verdict, faults>>
\* The second path is measured in a dual release verification only; of the others
\* nothing but the first is followed.
Continue(h) ==
    control' = [control EXCEPT
      ![h] = IF h \in Judges /\ @.profile = "vless" /\ mode.native /\ mode.dual
             THEN [at |-> "start", profile |-> "hysteria2"]
             ELSE [@ EXCEPT !.at = IF h \in Judges THEN "decide" ELSE "over"]]

\* Upload and start: it fails before anything runs, or the runner starts and its
\* PID comes back, or does not.
Start(h) ==
    /\ control[h].at = "start"
    /\ \/ Continue(h) /\ UNCHANGED runner
       \/ /\ runner' = [runner EXCEPT ![Here(h)].main = "new", ![Here(h)].lease = "fresh"]
          /\ Goes(h, "poll") \/ Goes(h, "clean")
    /\ UNCHANGED reported
    /\ ControlStep

\* A poll renews the lease of a live runner and takes the result of one that is over.
Poll(h) ==
    /\ control[h].at = "poll" /\ MainAlive(Here(h))
    /\ runner[Here(h)].lease \in {"fresh", "old"}
    /\ runner' = [runner EXCEPT ![Here(h)].lease = "fresh"]
    /\ UNCHANGED <<control, reported>>
    /\ ControlStep

Complete(r) == runner[r].result # None /\ runner[r].result.whole
Collect(h) ==
    /\ control[h].at = "poll" /\ ~MainAlive(Here(h)) /\ Complete(Here(h))
    /\ reported' = [reported EXCEPT ![h] = @ \cup {control[h].profile}]
    /\ Goes(h, "clean")
    /\ UNCHANGED runner
    /\ ControlStep

\* The runner is over without a whole result, a request fails, or the budget is spent.
Abandon(h) ==
    /\ control[h].at = "poll"
    /\ Goes(h, "stop")
    /\ UNCHANGED <<runner, reported>>
    /\ ControlStep

\* _stop_vless_runner: a live group is signalled and killed.  It does nothing for a
\* group without its main shell, and may not reach the node at all.
Stop(h) ==
    /\ control[h].at = "stop"
    /\ Goes(h, "clean")
    /\ \/ UNCHANGED runner
       \/ MainAlive(Here(h)) /\ Ends(Here(h))
    /\ UNCHANGED reported
    /\ ControlStep

\* The directory of the run is removed, or not.  To the watchdog a missing lease is an
\* old one; a runner that has not begun finds no directory.
CleanUp(h) ==
    /\ control[h].at = "clean"
    /\ \/ UNCHANGED runner
       \/ /\ Alive(Here(h))
          /\ runner' = [runner EXCEPT ![Here(h)].lease =
                           IF runner[Here(h)].main = "new" THEN "gone" ELSE "old"]
    /\ Continue(h)
    /\ UNCHANGED reported
    /\ ControlStep

(* The judgement.  Its evidence is what the environment chooses: failed checks only
   where the probes failed, front samples with flows of the runner only where its own
   client carried the probes. *)

FunctionalOnes(ok, native) ==
    {Functional(checks, RejectVerdict({"reply", rejection}, correlation), native) :
       checks \in IF ok THEN {{}} ELSE {{"identity"}, {"reliability"}},
       rejection \in {"reply", "fast-eof", "eof", "data"},
       correlation \in IF native THEN Correlations ELSE {"none"}}
FirstSample == [valid |-> TRUE, events |-> 0, quality |-> "observed"]
Fronts(own) ==
    {FrontCorrelation(sockets, {FirstSample, last}) :
       sockets \in SocketReports,
       last \in {s \in Samples : s.valid /\ (s.events > 0 => own)}}
VlessVerdicts == [ok \in BOOLEAN |-> [own \in BOOLEAN |-> [native \in BOOLEAN |->
    {[functional |-> f, front |-> front,
      vless |-> WithFront(Transport(f, Performance(TRUE, slow)), front)] :
       f \in FunctionalOnes(ok, native), front \in Fronts(own), slow \in {{}, {"floor"}}}]]]
Unreported == [vless |-> "failed", functional |-> "inconclusive", front |-> "inconclusive"]
VlessOutcomes(h) ==
    LET result == runner[<<h, "vless">>].result IN
    IF "vless" \in reported[h]
    THEN VlessVerdicts[result.ok][result.via = <<h, "vless">>][mode.native]
    ELSE {Unreported}
HysteriaVerdicts(ok) ==
    {Transport(Functional(checks, reject, TRUE), Performance(FALSE, {})) :
       checks \in IF ok THEN {{}} ELSE {{"http"}}, reject \in {"verified", "inconclusive"}}
HysteriaOutcomes(h) ==
    IF "hysteria2" \in reported[h]
    THEN HysteriaVerdicts(runner[<<h, "hysteria2">>].result.ok) ELSE {"failed"}

NodeReports == [NodesOf(mode) -> IF mode.native THEN Reports \cup {None} ELSE {None}]
Judged(paths, hy2, nodes) ==
    [dual |-> mode.dual, native |-> mode.native, gated |-> mode.gated,
     vless |-> paths.vless, functional |-> paths.functional, front |-> paths.front,
     hy2 |-> hy2, nodes |-> nodes]
\* The agents report and the exit code is decided.
Decide(h) ==
    /\ control[h].at = "decide"
    /\ \/ /\ \E paths \in VlessOutcomes(h), hy2 \in HysteriaOutcomes(h), nodes \in NodeReports :
               /\ Accepts(Judged(paths, hy2, nodes))
               /\ verdict' = [verdict EXCEPT ![h] = Judged(paths, hy2, nodes)]
          /\ Goes(h, "accepted")
       \/ /\ ~ \A paths \in VlessOutcomes(h), hy2 \in HysteriaOutcomes(h), nodes \in NodeReports :
               Accepts(Judged(paths, hy2, nodes))
          /\ Goes(h, "rejected") /\ UNCHANGED verdict
    /\ UNCHANGED <<mode, runner, reported, faults>>

Crash(h) ==
    /\ faults < Faults /\ control[h].at \notin {"accepted", "rejected", "over", "vanished"}
    /\ Goes(h, "vanished")
    /\ faults' = faults + 1
    /\ UNCHANGED <<mode, runner, reported, verdict>>
-----------------------------------------------------------------------------
RunnerProcess(r) ==
    \/ Enter(r) \/ Launch(r) \/ Report(r) \/ Fails(r)
    \/ Leave(r) \/ Watchdog(r) \/ Orphan(r)
Workstation(h) ==
    \/ Start(h) \/ Collect(h) \/ Abandon(h) \/ Stop(h) \/ CleanUp(h)
    \/ Decide(h)
Next ==
    \/ \E r \in Runs : RunnerProcess(r) \/ Probe(r) \/ Expire(r) \/ Kill(r)
    \/ \E h \in Hosts : Workstation(h) \/ Poll(h) \/ Crash(h)

Spec == Init /\ [][Next]_vars

\* Nobody renews the lease of this run any more: a poll renews that of a live main
\* shell only.
Unpolled(r) ==
    \/ ~MainAlive(r)
    \/ control[r[1]].at # "poll" \/ control[r[1]].profile # r[2]
\* The node goes on: its processes run, and the leases that nobody renews run out.  A
\* workstation need not do anything.
Node(r) == RunnerProcess(r) \/ (Unpolled(r) /\ Expire(r))
FairSpec == Spec /\ WF_vars(\E r \in Runs : Node(r))
-----------------------------------------------------------------------------
\* Every variable has its type; only the runs of a host that judges have a verdict.
Runners ==
    [main : {"none", "new", "locked", "probe", "report", "leaves", "over"},
     proxy : {"off", "listens"}, watchdog : BOOLEAN, locked : BOOLEAN,
     lease : {"none", "fresh", "old", "gone"}, term : BOOLEAN,
     result : {None} \cup Results]
Places == {"start", "poll", "clean", "stop", "decide", "over", "accepted", "rejected", "vanished"}
TypeOK ==
    /\ mode \in Modes
    /\ runner \in [Runs -> Runners]
    /\ control \in [Hosts -> [at : Places, profile : Profiles]]
    /\ reported \in [Hosts -> SUBSET Profiles]
    /\ DOMAIN verdict = Hosts /\ \A h \in Hosts \ Judges : verdict[h] = None
    /\ faults \in 0..Faults

\* What a run reports was measured through the client of that run: neither a client
\* left over from the other path nor that of another verification answered for it,
\* although all of them listen on the same port.
ProbesUseOwnClient ==
    \A r \in Runs : Complete(r) => runner[r].result.via = r

\* A run brought a whole result, through its own client, of a working path.
Shown(r) == Complete(r) /\ runner[r].result.via = r /\ runner[r].result.ok
\* A verification accepts only what was shown: the paths it stands for work and were
\* measured, the front was seen to carry the measurement, and every node reported
\* with nothing against this release, limited at most by what a single client sees of
\* the gateway and by probes of outside services.
AcceptedIsProven ==
    \A h \in Hosts : control[h].at = "accepted" =>
      /\ Shown(<<h, "vless">>) /\ verdict[h].front = "verified"
      /\ mode.native =>
           /\ mode.dual => Shown(<<h, "hysteria2">>)
           /\ \A n \in NodesOf(mode) :
                LET s == verdict[h].nodes[n] IN
                /\ s # None /\ s.hard = {} /\ "release" \notin s.unread
                /\ s.aged \subseteq {"history"} /\ "other" \notin s.limited
                /\ n = "exit" => "client" \notin s.limited

\* A verification leaves nothing behind: whatever became of the workstation that
\* started it, all processes of a runner end and the lock and the port are free.
RunnerEnds == \A r \in Runs : <>[]~Alive(r)
=============================================================================
