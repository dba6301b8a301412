-------------------------- MODULE VerificationProofs --------------------------
(***************************************************************************)
(* Proofs about LiveVerify, for any workstations, modes, reports and       *)
(* number of faults: a result was measured through the run's own client,   *)
(* and an accepted verification is proven.  And about NodeSnapshot, for    *)
(* any plans, fragile parts, lengths of windows, moments and bounds: a     *)
(* window called complete counts what happened, and a judgement is just.   *)
(*                                                                         *)
(* The first rests on the lock: a client keeps the descriptor its main     *)
(* shell had, so nobody else can be at its probes while one listens, not   *)
(* even when the main shell has been killed.  The second needs that what a *)
(* workstation has collected cannot change afterwards, and then what the   *)
(* tables of VerifyVerdicts let through.                                   *)
(*                                                                         *)
(* The third needs, of the journal, that nothing is missing from files     *)
(* that end in the current one without a gap; of the queries, that what is *)
(* still kept of a window has been read, once; and of the two inventories, *)
(* each taken after the queries it vouches for, that they stand whatever   *)
(* journald does later.  The fourth follows the evidence of each part:     *)
(* what a collector found in order worked after one of the stamps, and the *)
(* age of the stamps is what the judge looks at.                           *)
(***************************************************************************)
EXTENDS LiveVerify, NodeSnapshot, FiniteSetTheorems, SequenceTheorems, WellFoundedInduction, TLAPS

(* The runs of a verification. *)

\* What the processes of a run are at each point of its main shell.
Sound(r) ==
    /\ runner[r].main = "none" => runner[r] = NoRunner
    /\ runner[r].main = "new" =>
          /\ ~runner[r].locked /\ runner[r].proxy = "off" /\ ~runner[r].watchdog
          /\ runner[r].result = None
    /\ runner[r].main \in {"locked", "probe", "report", "leaves"} => runner[r].locked
    /\ runner[r].proxy # "off" \/ runner[r].watchdog => runner[r].locked
    /\ runner[r].main = "report" => runner[r].result # None
ProcessInv == \A r \in Runs : Sound(r)

\* The lock has one holder.
LockInv == \A r, q \in Runs : Holds(r) /\ Holds(q) => r = q

\* Whatever has been measured, whole or not, went through the run's own client.
ResultInv == \A r \in Runs : runner[r].result # None => runner[r].result.via = r

\* A run is started once.
PlaceInv(h) ==
    /\ control[h].profile = "hysteria2" => h \in Judges
    /\ control[h].at \in {"decide", "accepted", "rejected"} => h \in Judges
    /\ control[h].at = "start" => runner[Here(h)].main = "none"
    /\ control[h].at = "poll" => runner[Here(h)].main # "none"
    /\ h \in Judges /\ control[h].profile = "vless" => runner[<<h, "hysteria2">>].main = "none"
\* What has been collected of a run is final, and an accepted verification has collected
\* what it stands for.
CollectedInv(h) ==
    /\ \A p \in reported[h] :
          <<h, p>> \in Runs /\ runner[<<h, p>>].main = "over" /\ Complete(<<h, p>>)
    /\ control[h].at = "accepted" =>
          /\ "vless" \in reported[h]
          /\ mode.native /\ mode.dual => "hysteria2" \in reported[h]
ControlInv == \A h \in Hosts : PlaceInv(h) /\ CollectedInv(h)

IInv == TypeOK /\ ProcessInv /\ LockInv /\ ResultInv /\ ControlInv /\ AcceptedIsProven
-----------------------------------------------------------------------------
LEMMA RunFacts ==
    /\ \A r \in Runs : r[1] \in Hosts /\ r[2] \in Profiles /\ r = <<r[1], r[2]>>
    /\ \A h \in Hosts : <<h, "vless">> \in Runs
    /\ \A h \in Judges, p \in Profiles : h \in Hosts /\ <<h, p>> \in Runs
    /\ \A r \in Runs : r[2] = "hysteria2" => r[1] \in Judges
  BY VerifyAssumption DEF Runs, Profiles

LEMMA HereIsRun ==
    ASSUME TypeOK, ControlInv, NEW h \in Hosts
    PROVE  /\ Here(h) \in Runs
           /\ control[h].profile \in Profiles
  BY RunFacts DEF TypeOK, ControlInv, PlaceInv, Here, Profiles

LEMMA NoRunnerType == NoRunner \in Runners
  BY DEF NoRunner, Runners

(* One run moves at a time: what a step of its processes, or of the workstation that
   polls it, may make of it. *)
Moves(r) ==
    /\ runner' \in [Runs -> Runners] /\ \A q \in Runs \ {r} : runner'[q] = runner[q]
    /\ Sound(r)' /\ runner'[r].main # "none"
    /\ Holds(r)' => Holds(r) \/ \A q \in Runs \ {r} : ~Holds(q)
    /\ runner'[r].result # None => runner'[r].result.via = r
    /\ runner[r].main = "over" =>
          runner'[r].main = "over" /\ runner'[r].result = runner[r].result

LEMMA EndsMoves ==
    ASSUME TypeOK, ResultInv, NEW r \in Runs, Ends(r)
    PROVE  Moves(r)
<1>1. Ended(r) \in Runners
  BY DEF TypeOK, Ended, NoRunner, Runners
<1>2. runner'[r] = Ended(r) /\ runner' \in [Runs -> Runners]
  BY <1>1 DEF TypeOK, Ends
<1>3. \A q \in Runs \ {r} : runner'[q] = runner[q]
  BY DEF TypeOK, Ends
<1>4. /\ Ended(r).main = "over" /\ Ended(r).result = runner[r].result
      /\ Ended(r).proxy = "off" /\ Ended(r).watchdog = FALSE /\ Ended(r).locked = FALSE
  BY DEF Ended, NoRunner
<1> QED
  BY <1>2, <1>3, <1>4 DEF Moves, Sound, Holds, ResultInv

LEMMA RunnerStepMoves ==
    ASSUME IInv, NEW r \in Runs, RunnerProcess(r) \/ Probe(r) \/ Expire(r) \/ Kill(r)
    PROVE  /\ Moves(r) /\ runner[r].main # "none"
           /\ UNCHANGED <<mode, control, reported, verdict>> /\ faults' \in 0..Faults
<1> USE VerifyAssumption DEF IInv, RunnerStep
<1> DEFINE old == runner[r]
<1>0. /\ runner \in [Runs -> Runners] /\ faults \in 0..Faults /\ Sound(r) /\ old \in Runners
      /\ old.result # None => old.result.via = r
  BY DEF TypeOK, ProcessInv, ResultInv
<1>1. CASE Enter(r)
  <2>1. CASE Ends(r)
    BY <1>0, <1>1, <2>1, EndsMoves DEF Enter
  <2>2. CASE ~Ends(r)
    <3>1. /\ runner' = [runner EXCEPT ![r].main = "locked", ![r].locked = TRUE]
          /\ \A q \in Runs \ {r} : ~Holds(q)
      BY <1>1, <2>2 DEF Enter
    <3>2. runner' \in [Runs -> Runners] /\ runner'[r] = [old EXCEPT !.main = "locked", !.locked = TRUE]
      BY <1>0, <3>1 DEF Runners
    <3> QED
      BY <1>0, <1>1, <3>1, <3>2 DEF Enter, Moves, Sound, Runners
  <2> QED
    BY <2>1, <2>2
<1>2. CASE Launch(r)
  BY <1>0, <1>2 DEF Launch, Moves, Sound, Runners, Holds, Alive, MainAlive
<1>3. CASE Probe(r)
  <2>1. PICK q \in Runs, ok \in BOOLEAN :
            /\ runner[q].proxy = "listens" /\ old.main = "probe"
            /\ runner' = [runner EXCEPT ![r].main = "report",
                                        ![r].result = [via |-> q, ok |-> ok, whole |-> FALSE]]
    BY <1>3 DEF Probe
  <2>2. Holds(q) /\ Holds(r)
    BY <1>0, <2>1 DEF ProcessInv, Sound, Holds, Alive, MainAlive
  <2>3. q = r
    BY <2>2 DEF LockInv
  <2>4. [via |-> q, ok |-> ok, whole |-> FALSE] \in Results
    BY DEF Results
  <2>5. runner' \in [Runs -> Runners]
    BY <1>0, <2>1, <2>4 DEF Runners
  <2>6. /\ runner'[r] = [old EXCEPT !.main = "report",
                                    !.result = [via |-> q, ok |-> ok, whole |-> FALSE]]
        /\ \A p \in Runs \ {r} : runner'[p] = runner[p]
    BY <1>0, <2>1
  <2>7. /\ runner'[r].result \in Results /\ runner'[r].result.via = r
        /\ runner'[r].main = "report" /\ runner'[r].locked = old.locked /\ old.locked
    BY <1>0, <2>1, <2>3, <2>4, <2>6 DEF Runners, Sound
  <2>8. Sound(r)' /\ runner'[r].main # "none"
    BY <2>7 DEF Sound
  <2> QED
    BY <1>0, <1>3, <2>1, <2>2, <2>5, <2>6, <2>7, <2>8 DEF Probe, Moves
<1>4. CASE Report(r)
  <2>1. old.result \in Results /\ [old.result EXCEPT !.whole = TRUE] \in Results
    BY <1>0, <1>4 DEF Report, Sound, Runners, Results
  <2>2. /\ runner'[r] = [old EXCEPT !.main = "leaves", !.result.whole = TRUE]
        /\ runner' \in [Runs -> Runners] /\ \A q \in Runs \ {r} : runner'[q] = runner[q]
    BY <1>0, <1>4, <2>1 DEF Report, Runners
  <2>3. runner'[r].result.via = old.result.via
    BY <1>0, <2>1, <2>2 DEF Runners, Results
  <2> QED
    BY <1>0, <1>4, <2>1, <2>2, <2>3 DEF Report, Moves, Sound, Runners, Holds, Alive, MainAlive
<1>5. CASE Fails(r)
  BY <1>0, <1>5 DEF Fails, Set, Moves, Sound, Runners, Holds, Alive, MainAlive
<1>6. CASE Leave(r)
  BY <1>0, <1>6, EndsMoves DEF Leave, MainAlive
<1>7. CASE Watchdog(r)
  <2>1. /\ runner' = [runner EXCEPT ![r].watchdog = FALSE, ![r].term = TRUE] /\ old.watchdog
        /\ UNCHANGED <<mode, control, reported, verdict, faults>>
    BY <1>7 DEF Watchdog
  <2>2. old.main # "none"
    BY <1>0, <2>1 DEF Sound, NoRunner
  <2>3. /\ runner'[r] = [old EXCEPT !.watchdog = FALSE, !.term = TRUE]
        /\ runner' \in [Runs -> Runners] /\ \A q \in Runs \ {r} : runner'[q] = runner[q]
    BY <1>0, <2>1 DEF Runners
  <2> QED
    BY <1>0, <2>1, <2>2, <2>3 DEF Moves, Sound, Runners, Holds, Alive, MainAlive
<1>8. CASE Orphan(r)
  BY <1>0, <1>8, EndsMoves DEF Orphan, Sound, NoRunner
<1>9. CASE Expire(r)
  BY <1>0, <1>9 DEF Expire, Moves, Sound, Runners, Holds, Alive, MainAlive, NoRunner
<1>10. CASE Kill(r)
  BY <1>0, <1>10 DEF Kill, Set, Moves, Sound, Runners, Holds, Alive, MainAlive
<1> QED
  BY <1>1, <1>2, <1>3, <1>4, <1>5, <1>6, <1>7, <1>8, <1>9, <1>10 DEF RunnerProcess
-----------------------------------------------------------------------------
(* The workstation. *)

LEMMA HostMoves ==
    ASSUME IInv, NEW h \in Hosts, NEW r \in Runs, r = Here(h),
           Workstation(h) \/ Poll(h) \/ Crash(h)
    PROVE  UNCHANGED runner \/ Moves(r)
<1> USE DEF IInv
<1>0. /\ runner \in [Runs -> Runners] /\ r = Here(h) /\ Sound(r) /\ runner[r] \in Runners
      /\ runner[r].result # None => runner[r].result.via = r
  BY DEF TypeOK, ProcessInv, ResultInv
<1>1. CASE Start(h)
  <2>1. CASE UNCHANGED runner
    BY <2>1
  <2>2. CASE runner' = [runner EXCEPT ![r].main = "new", ![r].lease = "fresh"]
    <3>1. runner[r] = NoRunner
      BY <1>0, <1>1 DEF Start, ControlInv, PlaceInv, Sound
    <3>2. /\ runner'[r] = [NoRunner EXCEPT !.main = "new", !.lease = "fresh"]
          /\ \A q \in Runs \ {r} : runner'[q] = runner[q]
          /\ runner' \in [Runs -> Runners]
      BY <1>0, <2>2, <3>1 DEF Runners
    <3> QED
      BY <1>0, <3>1, <3>2 DEF Moves, Sound, NoRunner, Holds
  <2> QED
    BY <1>1, <2>1, <2>2 DEF Start
<1>2. CASE Poll(h)
  <2>1. /\ runner'[r] = [runner[r] EXCEPT !.lease = "fresh"] /\ MainAlive(r)
        /\ runner' \in [Runs -> Runners] /\ \A q \in Runs \ {r} : runner'[q] = runner[q]
    BY <1>0, <1>2 DEF Poll, Runners
  <2> QED
    BY <1>0, <2>1 DEF Moves, Sound, Runners, Holds, Alive, MainAlive
<1>3. CASE Stop(h)
  BY <1>0, <1>3, EndsMoves DEF Stop
<1>4. CASE CleanUp(h)
  <2>1. CASE ~UNCHANGED runner
    <3>1. PICK lease \in {"gone", "old"} :
              /\ runner' = [runner EXCEPT ![r].lease = lease] /\ Alive(r)
      BY <1>4, <2>1 DEF CleanUp
    <3>2. /\ runner'[r] = [runner[r] EXCEPT !.lease = lease]
          /\ runner' \in [Runs -> Runners] /\ \A q \in Runs \ {r} : runner'[q] = runner[q]
      BY <1>0, <3>1 DEF Runners
    <3>3. runner[r].main # "none"
      BY <1>0, <3>1 DEF Sound, NoRunner, Alive, MainAlive
    <3> QED
      BY <1>0, <3>1, <3>2, <3>3 DEF Moves, Sound, Runners, Holds, Alive, MainAlive
  <2> QED
    BY <2>1
<1>5. CASE Collect(h) \/ Abandon(h) \/ Decide(h) \/ Crash(h)
  BY <1>5 DEF Collect, Abandon, Decide, Crash
<1> QED
  BY <1>1, <1>2, <1>3, <1>4, <1>5 DEF Workstation
-----------------------------------------------------------------------------
(* The tables of VerifyVerdicts: what a good verdict says of its parts. *)

LEMMA WorstType ==
    ASSUME NEW S \in SUBSET Verdicts
    PROVE  Worst(S) \in Verdicts /\ (Worst(S) = "verified" => S \subseteq {"verified"})
<1> DEFINE T == S \cup {"verified"}
<1>1. \E v \in T : \A w \in S : Rank(w) <= Rank(v)
  <2>1. CASE "failed" \in S
    BY <2>1 DEF Verdicts, Rank
  <2>2. CASE "failed" \notin S /\ "inconclusive" \in S
    BY <2>2 DEF Verdicts, Rank
  <2>3. CASE "failed" \notin S /\ "inconclusive" \notin S /\ "degraded" \in S
    BY <2>3 DEF Verdicts, Rank
  <2>4. CASE S \subseteq {"verified"}
    BY <2>4 DEF Rank
  <2> QED
    BY <2>1, <2>2, <2>3, <2>4 DEF Verdicts
<1>2. Worst(S) \in T /\ \A w \in S : Rank(w) <= Rank(Worst(S))
  BY <1>1 DEF Worst
<1>3. ASSUME Worst(S) = "verified", NEW w \in S
      PROVE  w = "verified"
  <2>1. Rank(w) <= 0
    BY <1>2, <1>3 DEF Rank
  <2> QED
    BY <2>1 DEF Rank, Verdicts
<1> QED
  BY <1>2, <1>3 DEF Verdicts

LEMMA TransportType ==
    ASSUME NEW f \in Verdicts, NEW p \in {None, "verified", "failed"}
    PROVE  Transport(f, p) \in Verdicts /\ (Transport(f, p) = "verified" => f = "verified")
<1> DEFINE S == {f, p} \ {None}
<1>1. S \subseteq Verdicts /\ f \in S
  BY NoneAssumption DEF Verdicts
<1>2. Worst(S) \in Verdicts /\ (Worst(S) = "verified" => S \subseteq {"verified"})
  BY <1>1, WorstType
<1> QED
  BY <1>1, <1>2 DEF Transport

LEMMA FunctionalType ==
    ASSUME NEW checks, NEW reject, NEW required
    PROVE  /\ Functional(checks, reject, required) \in {"verified", "inconclusive", "failed"}
           /\ Functional(checks, reject, required) = "verified" => checks = {}
  BY DEF Functional

LEMMA FrontType ==
    ASSUME NEW transport \in Verdicts, NEW front \in {"verified", "degraded", "inconclusive"}
    PROVE  /\ WithFront(transport, front) \in Verdicts
           /\ WithFront(transport, front) = "verified" => front = "verified" /\ transport = "verified"
  BY DEF WithFront, Verdicts

\* A record of a verification with well-formed parts.
Paths == [vless : Verdicts, functional : Verdicts, front : Verdicts]
LEMMA IndependentType ==
    ASSUME NEW v, v.vless \in Verdicts
    PROVE  /\ Independent(v) \in Verdicts
           /\ Independent(v) = "verified" => v.vless = "verified"
  BY DEF Independent, Verdicts

LEMMA NodeVerdictType ==
    ASSUME NEW s, NEW releaseOnly
    PROVE  NodeVerdict(s, releaseOnly) \in Verdicts
  BY DEF NodeVerdict, Verdicts

\* What a good verdict of a node says of its snapshot.
LEMMA NodeVerdictSays ==
    ASSUME NEW s \in SnapshotRecords, NEW functional, NEW releaseOnly \in BOOLEAN,
           NodeVerdict(Reconciled(s, functional), releaseOnly) \in {"verified", "degraded"}
    PROVE  LET t == Reconciled(s, functional) IN
           /\ s.hard = {} /\ "release" \notin s.unread /\ s.aged \subseteq {"history"}
           /\ t.limited \subseteq s.limited /\ s.limited \subseteq t.limited \cup {"external"}
           /\ NodeVerdict(t, releaseOnly) = "verified" => t.limited = {}
<1> DEFINE t == Reconciled(s, functional)
<1>1. /\ t.hard = s.hard /\ t.unread = s.unread /\ t.aged = s.aged
      /\ t.limited \subseteq s.limited /\ s.limited \subseteq t.limited \cup {"external"}
  BY DEF Reconciled, SnapshotRecords
<1>2. t.hard = {} /\ InScope(t.unread, releaseOnly) = {} /\ InScope(t.aged, releaseOnly) = {}
  BY DEF NodeVerdict
<1>3. "release" \notin t.unread /\ t.aged \subseteq {"history"}
  BY <1>2 DEF InScope
<1>4. NodeVerdict(t, releaseOnly) = "verified" => t.limited = {}
  BY DEF NodeVerdict
<1> QED
  BY <1>1, <1>2, <1>3, <1>4

LEMMA OverallSays ==
    ASSUME NEW v, v.vless \in Verdicts, Overall(v) = "verified"
    PROVE  /\ Independent(v) = "verified"
           /\ v.native => NodeVerdicts(v) \subseteq {"verified"}
           /\ v.native /\ v.dual => v.hy2 = "verified"
<1> DEFINE S == {Independent(v)} \cup IF v.native THEN NodeVerdicts(v) ELSE {}
<1>1. NodeVerdicts(v) \subseteq Verdicts
  BY NodeVerdictType DEF NodeVerdicts, Verdicts
<1>2. S \in SUBSET Verdicts
  BY <1>1, IndependentType
<1>3. Worst(S) = "verified"
  BY DEF Overall
<1>4. S \subseteq {"verified"}
  BY <1>2, <1>3, WorstType
<1>5. v.native /\ v.dual => v.hy2 = "verified"
  BY <1>3 DEF Overall
<1> QED
  BY <1>4, <1>5

LEMMA EligibleSays ==
    ASSUME NEW v, Eligible(v)
    PROVE  /\ v.functional = "verified" /\ v.front = "verified" /\ (v.dual => v.hy2 = "verified")
           /\ \A n \in DOMAIN v.nodes : GateNode(n, v)
  BY DEF Eligible

\* What a verification asks of a node's snapshot, by either way to accept it.
Good(n, s) ==
    /\ s # None /\ s.hard = {} /\ "release" \notin s.unread
    /\ s.aged \subseteq {"history"} /\ "other" \notin s.limited
    /\ n = "exit" => "client" \notin s.limited

LEMMA GateNodeSays ==
    ASSUME NEW v, NEW n, v.nodes[n] \in SnapshotRecords \cup {None}, GateNode(n, v)
    PROVE  Good(n, v.nodes[n])
<1> DEFINE s == v.nodes[n]
           t == Reconciled(s, v.functional)
<1>1. s # None /\ s \in SnapshotRecords
  BY DEF GateNode
<1>2. \/ NodeVerdict(t, TRUE) = "verified"
      \/ NodeVerdict(t, TRUE) = "degraded" /\ n = "gateway" /\ t.limited = {"client"}
  BY DEF GateNode
<1>3. /\ s.hard = {} /\ "release" \notin s.unread /\ s.aged \subseteq {"history"}
      /\ s.limited \subseteq t.limited \cup {"external"}
      /\ NodeVerdict(t, TRUE) = "verified" => t.limited = {}
  BY <1>1, <1>2, NodeVerdictSays
<1> QED
  BY <1>1, <1>2, <1>3 DEF Good

LEMMA NodesSay ==
    ASSUME NEW v, NEW n \in DOMAIN v.nodes, v.nodes[n] \in SnapshotRecords \cup {None},
           NodeVerdicts(v) \subseteq {"verified"}
    PROVE  Good(n, v.nodes[n])
<1> DEFINE s == v.nodes[n]
           t == Reconciled(s, v.functional)
<1>0. (IF s = None THEN "failed" ELSE NodeVerdict(t, FALSE)) \in NodeVerdicts(v)
  BY DEF NodeVerdicts
<1>1. s # None /\ s \in SnapshotRecords /\ NodeVerdict(t, FALSE) = "verified"
  BY <1>0
<1>2. /\ s.hard = {} /\ "release" \notin s.unread /\ s.aged \subseteq {"history"}
      /\ s.limited \subseteq t.limited \cup {"external"} /\ t.limited = {}
  BY <1>1, NodeVerdictSays
<1> QED
  BY <1>1, <1>2 DEF Good
-----------------------------------------------------------------------------
(* The judgement. *)

LEMMA VlessVerdictsAre ==
    ASSUME NEW ok \in BOOLEAN, NEW own \in BOOLEAN, NEW native \in BOOLEAN,
           NEW paths \in VlessVerdicts[ok][own][native]
    PROVE  \E f \in FunctionalOnes(ok, native), front \in Fronts(own), slow \in {{}, {"floor"}} :
              paths = [functional |-> f, front |-> front,
                       vless |-> WithFront(Transport(f, Performance(TRUE, slow)), front)]
<1>1. VlessVerdicts[ok][own][native] =
        {[functional |-> f, front |-> front,
          vless |-> WithFront(Transport(f, Performance(TRUE, slow)), front)] :
           f \in FunctionalOnes(ok, native), front \in Fronts(own), slow \in {{}, {"floor"}}}
  BY DEF VlessVerdicts
<1> QED
  BY <1>1 DEF Performance

LEMMA HysteriaVerdictsSay ==
    ASSUME NEW ok \in BOOLEAN, "verified" \in HysteriaVerdicts(ok)
    PROVE  ok
<1>1. PICK checks \in IF ok THEN {{}} ELSE {{"http"}}, reject \in {"verified", "inconclusive"} :
          "verified" = Transport(Functional(checks, reject, TRUE), Performance(FALSE, {}))
  BY DEF HysteriaVerdicts, Functional, Performance
<1>3. Functional(checks, reject, TRUE) \in Verdicts
  BY FunctionalType DEF Verdicts
<1>4. Performance(FALSE, {}) \in {None, "verified", "failed"}
  BY DEF Performance
<1>5. Functional(checks, reject, TRUE) = "verified"
  BY <1>1, <1>3, <1>4, TransportType
<1>6. checks = {}
  BY <1>5, FunctionalType
<1> QED
  BY <1>1, <1>6

LEMMA VlessOutcomesSay ==
    ASSUME IInv, NEW h \in Judges, NEW paths \in VlessOutcomes(h)
    PROVE  /\ paths.vless \in Verdicts
           /\ paths.vless = "verified" => paths.front = "verified" /\ paths.functional = "verified"
           /\ paths.functional = "verified" =>
                 "vless" \in reported[h] /\ runner[<<h, "vless">>].result.ok
<1> DEFINE result == runner[<<h, "vless">>].result
<1>0. h \in Hosts /\ <<h, "vless">> \in Runs /\ mode.native \in BOOLEAN
  BY RunFacts, VerifyAssumption DEF IInv, TypeOK, Profiles
<1>1. CASE "vless" \notin reported[h]
  BY <1>1 DEF VlessOutcomes, Unreported, Verdicts
<1>2. CASE "vless" \in reported[h]
  <2>1. result \in Results
    <3>1. runner[<<h, "vless">>] \in Runners /\ Complete(<<h, "vless">>)
      BY <1>0, <1>2 DEF IInv, TypeOK, ControlInv, CollectedInv
    <3> QED
      BY <3>1 DEF Complete, Runners
  <2>2. PICK ok \in BOOLEAN, own \in BOOLEAN, native \in BOOLEAN :
            ok = result.ok /\ native = mode.native /\ paths \in VlessVerdicts[ok][own][native]
    BY <1>0, <1>2, <2>1 DEF VlessOutcomes, Results
  <2>3. PICK f \in FunctionalOnes(ok, native), front \in Fronts(own), slow \in {{}, {"floor"}} :
            paths = [functional |-> f, front |-> front,
                     vless |-> WithFront(Transport(f, Performance(TRUE, slow)), front)]
    BY <2>2, VlessVerdictsAre DEF Performance
  <2>4. \E checks \in (IF ok THEN {{}} ELSE {{"identity"}, {"reliability"}}) : \E reject :
            f = Functional(checks, reject, native)
    BY DEF FunctionalOnes
  <2>5. front \in {"verified", "degraded", "inconclusive"}
    BY DEF Fronts, FrontCorrelation
  <2>6. f \in Verdicts /\ (f = "verified" => ok)
    BY <2>4, FunctionalType DEF Verdicts
  <2>7. Performance(TRUE, slow) \in {None, "verified", "failed"}
    BY DEF Performance
  <2>8. /\ Transport(f, Performance(TRUE, slow)) \in Verdicts
        /\ Transport(f, Performance(TRUE, slow)) = "verified" => f = "verified"
    BY <2>6, <2>7, TransportType
  <2>9. /\ paths.vless \in Verdicts
        /\ paths.vless = "verified" => paths.front = "verified" /\ paths.functional = "verified"
    BY <2>3, <2>5, <2>8, FrontType
  <2> QED
    BY <1>2, <2>2, <2>3, <2>6, <2>9
<1> QED
  BY <1>1, <1>2

LEMMA HysteriaOutcomesSay ==
    ASSUME IInv, NEW h \in Judges, "verified" \in HysteriaOutcomes(h)
    PROVE  "hysteria2" \in reported[h] /\ runner[<<h, "hysteria2">>].result.ok
<1> DEFINE result == runner[<<h, "hysteria2">>].result
<1>1. "hysteria2" \in reported[h] /\ "verified" \in HysteriaVerdicts(result.ok)
  BY DEF HysteriaOutcomes
<1>2. h \in Hosts /\ <<h, "hysteria2">> \in Runs
  BY RunFacts DEF Profiles
<1>3. runner[<<h, "hysteria2">>] \in Runners /\ Complete(<<h, "hysteria2">>)
  BY <1>1, <1>2 DEF IInv, TypeOK, ControlInv, CollectedInv
<1>4. result.ok \in BOOLEAN
  BY <1>3 DEF Complete, Runners, Results
<1> QED
  BY <1>1, <1>4, HysteriaVerdictsSay

\* An accepted verification stands on results that were collected.
LEMMA AcceptedSays ==
    ASSUME IInv, NEW h \in Judges, NEW paths \in VlessOutcomes(h),
           NEW hy2 \in HysteriaOutcomes(h), NEW nodes \in NodeReports,
           Accepts(Judged(paths, hy2, nodes))
    PROVE  /\ "vless" \in reported[h] /\ runner[<<h, "vless">>].result.ok
           /\ paths.front = "verified"
           /\ mode.native =>
                /\ mode.dual => /\ "hysteria2" \in reported[h]
                                /\ runner[<<h, "hysteria2">>].result.ok
                /\ \A n \in NodesOf(mode) : Good(n, nodes[n])
<1> DEFINE v == Judged(paths, hy2, nodes)
<1>0. /\ paths.vless \in Verdicts
      /\ paths.vless = "verified" => paths.front = "verified" /\ paths.functional = "verified"
      /\ paths.functional = "verified" =>
            "vless" \in reported[h] /\ runner[<<h, "vless">>].result.ok
  BY VlessOutcomesSay
<1>1. /\ v.vless = paths.vless /\ v.functional = paths.functional /\ v.front = paths.front
      /\ v.dual = mode.dual /\ v.native = mode.native /\ v.hy2 = hy2 /\ v.nodes = nodes
  BY DEF Judged
<1>2. mode.native => /\ DOMAIN v.nodes = NodesOf(mode)
                     /\ \A n \in NodesOf(mode) : v.nodes[n] \in SnapshotRecords \cup {None}
  BY <1>1, VerifyAssumption DEF NodeReports
<1> HIDE DEF v
<1>3. CASE Overall(v) = "verified"
  <2>1. /\ Independent(v) = "verified"
        /\ v.native => NodeVerdicts(v) \subseteq {"verified"}
        /\ v.native /\ v.dual => v.hy2 = "verified"
    BY <1>0, <1>1, <1>3, OverallSays
  <2>2. paths.vless = "verified"
    BY <1>0, <1>1, <2>1, IndependentType
  <2>3. ASSUME mode.native, NEW n \in NodesOf(mode)
        PROVE  Good(n, nodes[n])
    BY <1>1, <1>2, <2>1, <2>3, NodesSay
  <2> QED
    BY <1>0, <1>1, <2>1, <2>2, <2>3, HysteriaOutcomesSay
<1>4. CASE Eligible(v)
  <2>1. /\ v.functional = "verified" /\ v.front = "verified" /\ (v.dual => v.hy2 = "verified")
        /\ \A n \in DOMAIN v.nodes : GateNode(n, v)
    BY <1>4, EligibleSays
  <2>2. ASSUME mode.native, NEW n \in NodesOf(mode)
        PROVE  Good(n, nodes[n])
    BY <1>1, <1>2, <2>1, <2>2, GateNodeSays
  <2> QED
    BY <1>0, <1>1, <2>1, <2>2, HysteriaOutcomesSay
<1> QED
  BY <1>3, <1>4 DEF Accepts, v
-----------------------------------------------------------------------------
(* The invariant. *)

LEMMA InitInv == Init => IInv
<1> SUFFICES ASSUME Init
             PROVE  IInv
  OBVIOUS
<1>1. TypeOK
  BY NoRunnerType, VerifyAssumption DEF Init, TypeOK, Places, Profiles
<1>2. \A r \in Runs : runner[r] = NoRunner
  BY DEF Init
<1>3. /\ NoRunner.main = "none" /\ NoRunner.proxy = "off" /\ NoRunner.result = None
      /\ NoRunner.watchdog = FALSE /\ NoRunner.locked = FALSE
  BY DEF NoRunner
<1>4. ProcessInv
  BY <1>2, <1>3 DEF ProcessInv, Sound
<1>5. LockInv /\ ResultInv
  BY <1>2, <1>3 DEF LockInv, Holds, ResultInv
<1>6. ControlInv
  BY <1>2, RunFacts DEF Init, ControlInv, PlaceInv, CollectedInv, Here, NoRunner, Profiles
<1>7. AcceptedIsProven
  BY DEF Init, AcceptedIsProven
<1> QED
  BY <1>1, <1>4, <1>5, <1>6, <1>7 DEF IInv

\* What a step of the processes of one run leaves of the invariant.
LEMMA RunnerKept ==
    ASSUME IInv, NEW r \in Runs, Moves(r) \/ UNCHANGED runner
    PROVE  runner' \in [Runs -> Runners] /\ ProcessInv' /\ LockInv' /\ ResultInv'
<1>1. CASE UNCHANGED runner
  BY <1>1 DEF IInv, TypeOK, ProcessInv, Sound, LockInv, Holds, Alive, MainAlive, ResultInv
<1>2. CASE Moves(r)
  <2>1. \A q \in Runs \ {r} : (Sound(q) <=> Sound(q)') /\ (Holds(q) <=> Holds(q)')
    BY <1>2 DEF Moves, Sound, Holds, Alive, MainAlive
  <2>2. ProcessInv'
    BY <1>2, <2>1 DEF IInv, ProcessInv, Moves
  <2>3. LockInv'
    BY <1>2, <2>1 DEF IInv, LockInv, Moves
  <2>4. ResultInv'
    BY <1>2 DEF IInv, ResultInv, Moves
  <2> QED
    BY <1>2, <2>2, <2>3, <2>4 DEF Moves
<1> QED
  BY <1>1, <1>2

LEMMA RunnerStepInv ==
    ASSUME IInv, NEW r \in Runs, RunnerProcess(r) \/ Probe(r) \/ Expire(r) \/ Kill(r)
    PROVE  IInv'
<1>1. /\ Moves(r) /\ runner[r].main # "none"
      /\ UNCHANGED <<mode, control, reported, verdict>> /\ faults' \in 0..Faults
  BY RunnerStepMoves
<1>2. runner' \in [Runs -> Runners] /\ ProcessInv' /\ LockInv' /\ ResultInv'
  BY <1>1, RunnerKept
<1>3. TypeOK'
  BY <1>1, <1>2 DEF IInv, TypeOK
<1>4. \A q \in Runs : /\ runner[q].main = "none" <=> runner'[q].main = "none"
                      /\ runner[q].main = "over" => /\ runner'[q].main = "over"
                                                    /\ runner'[q].result = runner[q].result
  BY <1>1 DEF Moves
<1>5. ASSUME NEW h \in Hosts
      PROVE  PlaceInv(h)' /\ CollectedInv(h)'
  <2>1. PlaceInv(h) /\ CollectedInv(h)
    BY DEF IInv, ControlInv
  <2>2. Here(h)' = Here(h) /\ Here(h) \in Runs
    BY <1>1, HereIsRun DEF IInv, Here
  <2>3. PlaceInv(h)'
    BY <1>1, <1>4, <2>1, <2>2, RunFacts DEF PlaceInv, Profiles
  <2>4. CollectedInv(h)'
    BY <1>1, <1>4, <2>1 DEF CollectedInv, Complete
  <2> QED
    BY <2>3, <2>4
<1>6. AcceptedIsProven'
  <2> SUFFICES ASSUME NEW h \in Hosts, control[h].at = "accepted"
               PROVE  /\ Shown(<<h, "vless">>)' /\ verdict[h].front = "verified"
                      /\ mode.native =>
                           /\ mode.dual => Shown(<<h, "hysteria2">>)'
                           /\ \A n \in NodesOf(mode) : Good(n, verdict[h].nodes[n])
    BY <1>1 DEF AcceptedIsProven, Good
  <2>1. /\ Shown(<<h, "vless">>) /\ verdict[h].front = "verified"
        /\ mode.native =>
             /\ mode.dual => Shown(<<h, "hysteria2">>)
             /\ \A n \in NodesOf(mode) : Good(n, verdict[h].nodes[n])
    BY DEF IInv, AcceptedIsProven, Good
  <2>2. ASSUME NEW p \in reported[h]
        PROVE  Shown(<<h, p>>) => Shown(<<h, p>>)'
    BY <1>4 DEF IInv, ControlInv, CollectedInv, Shown, Complete
  <2> QED
    BY <2>1, <2>2 DEF IInv, ControlInv, CollectedInv
<1> QED
  BY <1>2, <1>3, <1>5, <1>6 DEF IInv, ControlInv

\* A workstation moves itself and the run it is at, nobody else.
Alone(h) ==
    /\ control' \in [Hosts -> [at : Places, profile : Profiles]]
    /\ reported' \in [Hosts -> SUBSET Profiles]
    /\ \A g \in Hosts \ {h} : /\ control'[g] = control[g] /\ reported'[g] = reported[g]
                              /\ verdict'[g] = verdict[g]
    /\ mode' = mode /\ faults' \in 0..Faults
    /\ DOMAIN verdict' = Hosts /\ (h \notin Judges => verdict'[h] = None)

LEMMA HostAlone ==
    ASSUME IInv, NEW h \in Hosts, Workstation(h) \/ Poll(h) \/ Crash(h)
    PROVE  Alone(h)
<1> USE VerifyAssumption DEF IInv, TypeOK, ControlStep, Alone, Places, Profiles
<1>1. CASE Start(h)
  BY <1>1 DEF Start, Continue, Goes
<1>2. CASE Poll(h) \/ Abandon(h) \/ Stop(h)
  BY <1>2 DEF Poll, Abandon, Stop, Goes
<1>6. CASE Collect(h)
  <2>1. control[h].profile \in Profiles
    OBVIOUS
  <2> QED
    BY <1>6, <2>1 DEF Collect, Goes
<1>3. CASE CleanUp(h)
  BY <1>3 DEF CleanUp, Continue
<1>4. CASE Decide(h)
  <2>1. h \in Judges
    BY <1>4 DEF Decide, ControlInv, PlaceInv
  <2> QED
    BY <1>4, <2>1 DEF Decide, Goes
<1>5. CASE Crash(h)
  BY <1>5 DEF Crash, Goes
<1> QED
  BY <1>1, <1>2, <1>3, <1>4, <1>5, <1>6 DEF Workstation

\* What a step of a workstation does to its run, seen from the invariant.
LEMMA HostRun ==
    ASSUME IInv, NEW h \in Hosts, Workstation(h) \/ Poll(h) \/ Crash(h)
    PROVE  /\ runner' \in [Runs -> Runners] /\ ProcessInv' /\ LockInv' /\ ResultInv'
           /\ \A q \in Runs \ {Here(h)} : runner'[q] = runner[q]
           /\ runner' = runner \/ runner'[Here(h)].main # "none"
           /\ \A q \in Runs : runner[q].main = "over" =>
                 runner'[q].main = "over" /\ runner'[q].result = runner[q].result
<1>1. PICK r \in Runs : r = Here(h)
  BY HereIsRun DEF IInv
<1>2. UNCHANGED runner \/ Moves(r)
  BY <1>1, HostMoves
<1>3. runner' \in [Runs -> Runners] /\ ProcessInv' /\ LockInv' /\ ResultInv'
  BY <1>2, RunnerKept
<1>4. CASE UNCHANGED runner
  BY <1>3, <1>4
<1>5. CASE Moves(r)
  BY <1>1, <1>3, <1>5 DEF Moves
<1> QED
  BY <1>2, <1>4, <1>5

LEMMA HostPlace ==
    ASSUME IInv, NEW h \in Hosts, Workstation(h) \/ Poll(h) \/ Crash(h)
    PROVE  PlaceInv(h)'
<1> DEFINE r == Here(h)
           second == <<h, "hysteria2">>
<1>0. /\ PlaceInv(h) /\ control[h] \in [at : Places, profile : Profiles] /\ r \in Runs
      /\ control \in [Hosts -> [at : Places, profile : Profiles]]
      /\ r = <<h, control[h].profile>> /\ runner \in [Runs -> Runners]
      /\ h \in Judges => second \in Runs
  BY HereIsRun, RunFacts DEF IInv, ControlInv, TypeOK, Here, Profiles
<1>1. /\ \A q \in Runs \ {r} : runner'[q] = runner[q]
      /\ runner' = runner \/ runner'[r].main # "none"
  BY HostRun
<1>2. control[h].profile = "vless" => r # second
  BY <1>0
<1>3. h \in Judges /\ control[h].profile = "vless" => runner'[second].main = "none"
  BY <1>0, <1>1, <1>2 DEF PlaceInv
<1>4. ASSUME NEW place \in Places \ {"start"}, Goes(h, place),
             place = "poll" => runner'[r].main # "none",
             place \in {"decide", "accepted", "rejected"} => h \in Judges
      PROVE  PlaceInv(h)'
  <2>1. control'[h] = [control[h] EXCEPT !.at = place]
    BY <1>0, <1>4 DEF Goes
  <2>2. control'[h].at = place /\ control'[h].profile = control[h].profile /\ Here(h)' = r
    BY <1>0, <2>1 DEF Here
  <2> QED
    BY <1>0, <1>3, <1>4, <2>2 DEF PlaceInv
<1>5. ASSUME Continue(h)
      PROVE  PlaceInv(h)'
  <2>1. CASE h \in Judges /\ control[h].profile = "vless" /\ mode.native /\ mode.dual
    <3>1. control'[h] = [at |-> "start", profile |-> "hysteria2"]
      BY <1>0, <1>5, <2>1 DEF Continue
    <3> QED
      BY <1>3, <2>1, <3>1 DEF PlaceInv, Here
  <2>2. CASE ~(h \in Judges /\ control[h].profile = "vless" /\ mode.native /\ mode.dual)
    <3>1. control'[h] = [control[h] EXCEPT !.at = IF h \in Judges THEN "decide" ELSE "over"]
      BY <1>0, <1>5, <2>2 DEF Continue
    <3> QED
      BY <1>0, <1>3, <3>1 DEF PlaceInv, Here
  <2> QED
    BY <2>1, <2>2
<1>6. CASE Start(h)
  <2>1. CASE Continue(h)
    BY <1>5, <2>1
  <2>2. CASE /\ runner' = [runner EXCEPT ![r].main = "new", ![r].lease = "fresh"]
             /\ Goes(h, "poll") \/ Goes(h, "clean")
    <3>1. runner'[r].main # "none"
      BY <1>0, <2>2 DEF IInv, TypeOK, Runners
    <3> QED
      BY <1>4, <2>2, <3>1 DEF Places
  <2> QED
    BY <1>6, <2>1, <2>2 DEF Start
<1>7. CASE Poll(h)
  <2>1. control' = control /\ runner'[r].main # "none"
    BY <1>0, <1>1, <1>7 DEF Poll, MainAlive
  <2>2. control'[h] = control[h] /\ Here(h)' = r /\ control[h].at = "poll"
    BY <1>7, <2>1 DEF Here, Poll
  <2> QED
    BY <1>0, <1>3, <2>1, <2>2 DEF PlaceInv
<1>8. CASE CleanUp(h)
  BY <1>5, <1>8 DEF CleanUp
<1>9. CASE Collect(h) \/ Abandon(h) \/ Stop(h) \/ Crash(h)
  BY <1>4, <1>9 DEF Collect, Abandon, Stop, Crash, Places
<1>10. CASE Decide(h)
  BY <1>0, <1>4, <1>10 DEF Decide, Places, PlaceInv
<1> QED
  BY <1>6, <1>7, <1>8, <1>9, <1>10 DEF Workstation

LEMMA HostCollected ==
    ASSUME IInv, NEW h \in Hosts, Workstation(h) \/ Poll(h) \/ Crash(h)
    PROVE  CollectedInv(h)' /\ (control'[h].at = "accepted" /\ control[h].at # "accepted" => Decide(h))
<1>0. /\ CollectedInv(h) /\ PlaceInv(h) /\ control[h] \in [at : Places, profile : Profiles]
      /\ control \in [Hosts -> [at : Places, profile : Profiles]]
      /\ Here(h) \in Runs /\ Here(h) = <<h, control[h].profile>>
      /\ reported \in [Hosts -> SUBSET Profiles]
  BY HereIsRun DEF IInv, ControlInv, TypeOK, Here
<1>1. /\ mode' = mode
      /\ \A q \in Runs : runner[q].main = "over" =>
            runner'[q].main = "over" /\ runner'[q].result = runner[q].result
  BY HostRun, HostAlone DEF Alone
<1>2. ASSUME control'[h].at # "accepted", reported' = reported
      PROVE  CollectedInv(h)'
  BY <1>0, <1>1, <1>2 DEF CollectedInv, Complete
<1>3. ASSUME NEW place \in Places, Goes(h, place)
      PROVE  control'[h].at = place
  BY <1>0, <1>3 DEF Goes
<1>4. ASSUME Continue(h)
      PROVE  control'[h].at # "accepted"
  BY <1>0, <1>4 DEF Continue
<1>5. CASE Start(h)
  BY <1>2, <1>3, <1>4, <1>5 DEF Start, Places
<1>6. CASE Poll(h)
  BY <1>2, <1>6 DEF Poll
<1>7. CASE Collect(h)
  <2>1. /\ control'[h].at = "clean" /\ runner' = runner /\ Complete(Here(h))
        /\ reported'[h] = reported[h] \cup {control[h].profile}
    BY <1>0, <1>3, <1>7 DEF Collect, Places
  <2>2. runner[Here(h)].main = "over"
    BY <1>0, <1>7 DEF Collect, PlaceInv, MainAlive
  <2> QED
    BY <1>0, <1>1, <2>1, <2>2 DEF CollectedInv, Complete
<1>8. CASE Abandon(h) \/ Stop(h) \/ Crash(h)
  BY <1>2, <1>3, <1>8 DEF Abandon, Stop, Crash, Places
<1>9. CASE CleanUp(h)
  BY <1>2, <1>4, <1>9 DEF CleanUp
<1>10. CASE Decide(h)
  <2>1. CASE Goes(h, "rejected")
    BY <1>2, <1>3, <1>10, <2>1 DEF Decide, Places
  <2>2. CASE ~Goes(h, "rejected")
    <3>1. PICK paths \in VlessOutcomes(h), hy2 \in HysteriaOutcomes(h), nodes \in NodeReports :
              Accepts(Judged(paths, hy2, nodes))
      BY <1>10, <2>2 DEF Decide
    <3>2. h \in Judges
      BY <1>0, <1>10 DEF Decide, PlaceInv
    <3>3. "vless" \in reported[h] /\ (mode.native /\ mode.dual => "hysteria2" \in reported[h])
      BY <3>1, <3>2, AcceptedSays
    <3> QED
      BY <1>0, <1>1, <1>10, <3>3 DEF Decide, CollectedInv, Complete
  <2> QED
    BY <2>1, <2>2
<1> QED
  BY <1>5, <1>6, <1>7, <1>8, <1>9, <1>10 DEF Workstation

LEMMA HostAccepted ==
    ASSUME IInv, NEW h \in Hosts, Workstation(h) \/ Poll(h) \/ Crash(h)
    PROVE  AcceptedIsProven'
<1>1. Alone(h)
  BY HostAlone
<1>2. /\ \A q \in Runs : runner[q].main = "over" => runner'[q].result = runner[q].result
      /\ \A q \in Runs : runner[q].result # None => runner[q].result.via = q
  BY HostRun DEF IInv, ResultInv
<1>3. ASSUME NEW g \in Hosts, NEW p \in reported[g]
      PROVE  Complete(<<g, p>>) /\ (runner[<<g, p>>].result.ok => Shown(<<g, p>>)')
  BY <1>2 DEF IInv, ControlInv, CollectedInv, Complete, Shown
<1> SUFFICES ASSUME NEW g \in Hosts, control'[g].at = "accepted"
             PROVE  /\ Shown(<<g, "vless">>)' /\ verdict'[g].front = "verified"
                    /\ mode.native =>
                         /\ mode.dual => Shown(<<g, "hysteria2">>)'
                         /\ \A n \in NodesOf(mode) : Good(n, verdict'[g].nodes[n])
  BY <1>1 DEF AcceptedIsProven, Good, Alone
<1>4. CASE control[g].at = "accepted" /\ verdict'[g] = verdict[g]
  <2>1. /\ Shown(<<g, "vless">>) /\ verdict[g].front = "verified"
        /\ mode.native =>
             /\ mode.dual => Shown(<<g, "hysteria2">>)
             /\ \A n \in NodesOf(mode) : Good(n, verdict[g].nodes[n])
    BY <1>4 DEF IInv, AcceptedIsProven, Good
  <2>2. "vless" \in reported[g] /\ (mode.native /\ mode.dual => "hysteria2" \in reported[g])
    BY <1>4 DEF IInv, ControlInv, CollectedInv
  <2> QED
    BY <1>3, <1>4, <2>1, <2>2 DEF Shown
<1>5. CASE control[g].at # "accepted"
  <2>1. g = h /\ Decide(h)
    BY <1>1, <1>5, HostCollected DEF Alone
  <2>2. ~Goes(h, "rejected")
    BY <2>1, HereIsRun DEF Goes, IInv, TypeOK
  <2>3. PICK paths \in VlessOutcomes(h), hy2 \in HysteriaOutcomes(h), nodes \in NodeReports :
            /\ Accepts(Judged(paths, hy2, nodes))
            /\ verdict' = [verdict EXCEPT ![h] = Judged(paths, hy2, nodes)]
    BY <2>1, <2>2 DEF Decide
  <2>4. h \in Judges
    BY <2>1 DEF Decide, IInv, ControlInv, PlaceInv
  <2>5. verdict'[h].front = paths.front /\ verdict'[h].nodes = nodes
    BY <2>3 DEF IInv, TypeOK, Judged
  <2>6. /\ "vless" \in reported[h] /\ runner[<<h, "vless">>].result.ok
        /\ paths.front = "verified"
        /\ mode.native =>
             /\ mode.dual => /\ "hysteria2" \in reported[h]
                             /\ runner[<<h, "hysteria2">>].result.ok
             /\ \A n \in NodesOf(mode) : Good(n, nodes[n])
    BY <2>3, <2>4, AcceptedSays
  <2> QED
    BY <1>3, <2>1, <2>5, <2>6
<1>6. CASE control[g].at = "accepted" /\ verdict'[g] # verdict[g]
  <2>1. g = h
    BY <1>1, <1>6 DEF Alone
  <2> QED
    BY <1>6, <2>1 DEF Workstation, Start, Poll, Collect, Abandon, Stop, CleanUp, Decide, Crash,
                      ControlStep
<1> QED
  BY <1>4, <1>5, <1>6

LEMMA HostStepInv ==
    ASSUME IInv, NEW h \in Hosts, Workstation(h) \/ Poll(h) \/ Crash(h)
    PROVE  IInv'
<1>1. Alone(h)
  BY HostAlone
<1>2. /\ runner' \in [Runs -> Runners] /\ ProcessInv' /\ LockInv' /\ ResultInv'
      /\ \A q \in Runs \ {Here(h)} : runner'[q] = runner[q]
      /\ \A q \in Runs : runner[q].main = "over" =>
            runner'[q].main = "over" /\ runner'[q].result = runner[q].result
  BY HostRun
<1>3. TypeOK'
  BY <1>1, <1>2 DEF IInv, TypeOK, Alone
<1>4. ASSUME NEW g \in Hosts \ {h}
      PROVE  PlaceInv(g)' /\ CollectedInv(g)'
  <2>1. PlaceInv(g) /\ CollectedInv(g) /\ Here(g) \in Runs
    BY HereIsRun DEF IInv, ControlInv
  <2>2. control'[g] = control[g] /\ reported'[g] = reported[g] /\ Here(g)' = Here(g)
    BY <1>1 DEF Alone, Here
  <2>3. \A p \in Profiles : <<g, p>> \in Runs => runner'[<<g, p>>] = runner[<<g, p>>]
    BY <1>2 DEF Here
  <2>4. Here(g) # Here(h)
    BY DEF Here
  <2>5. PlaceInv(g)'
    BY <1>2, <2>1, <2>2, <2>3, <2>4, RunFacts DEF PlaceInv, Profiles
  <2>6. CollectedInv(g)'
    BY <1>1, <1>2, <2>1, <2>2 DEF CollectedInv, Complete, Alone
  <2> QED
    BY <2>5, <2>6
<1>5. ControlInv'
  BY <1>4, HostPlace, HostCollected DEF ControlInv
<1> QED
  BY <1>2, <1>3, <1>5, HostAccepted DEF IInv

LEMMA StutterInv == IInv /\ UNCHANGED vars => IInv'
<1> SUFFICES ASSUME IInv, UNCHANGED vars
             PROVE  IInv'
  OBVIOUS
<1>1. TypeOK' /\ ProcessInv' /\ LockInv' /\ ResultInv'
  BY DEF IInv, vars, TypeOK, ProcessInv, Sound, LockInv, Holds, Alive, MainAlive, ResultInv
<1>2. ControlInv'
  BY DEF IInv, vars, ControlInv, PlaceInv, CollectedInv, Here, Complete
<1>3. AcceptedIsProven'
  BY DEF IInv, vars, AcceptedIsProven, Shown, Complete
<1> QED
  BY <1>1, <1>2, <1>3 DEF IInv

LEMMA Invariance == Spec => []IInv
<1>1. IInv /\ [Next]_vars => IInv'
  BY RunnerStepInv, HostStepInv, StutterInv DEF Next
<1> QED
  BY InitInv, <1>1, PTL DEF Spec

(* The theorems. *)

\* Every variable of the workstations and the runners keeps its type, for any of them.
THEOREM TypeCorrect == Spec => []TypeOK
  BY Invariance, PTL DEF IInv

\* The flock of the runner script gives the fixed port to one run at a time, so that a
\* result is the run's own, after any kill of a main shell and any lost answer.
THEOREM OwnClientMeasures == Spec => []ProbesUseOwnClient
<1>1. IInv => ProbesUseOwnClient
  BY DEF IInv, ResultInv, ProbesUseOwnClient, Complete
<1> QED
  BY Invariance, <1>1, PTL

\* verify live accepts only a release whose paths were shown to work and whose nodes
\* report nothing against it, for any number of workstations and any reports.
THEOREM AcceptanceIsEarned == Spec => []AcceptedIsProven
  BY Invariance, PTL DEF IInv
-----------------------------------------------------------------------------
(* How the agent counts the problems of a window. *)

\* What an inventory may find, and the states of a collection.
Coverages == {[error |-> TRUE]}
             \cup [error : {FALSE}, since : Nat, from : Int, notices : SUBSET Nat]
Collectors ==
    [pc : {"idle", "recent", "inventory", "history", "again", "done"}, since : Int,
     read : [Stamps -> Nat], segments : SUBSET [until : Int, failed : BOOLEAN],
     recent : Coverages, history : Coverages]

\* Messages are in order, and the current file is complete.
JournalInv ==
    /\ journal \in Seq([stamp : Nat, kind : Kinds])
    /\ \A i, k \in DOMAIN journal : i < k => journal[i].stamp < journal[k].stamp
    /\ starts \subseteq 1..(Len(journal) + 1) /\ 1 \in starts
    /\ kept \subseteq DOMAIN journal
    /\ \A j \in DOMAIN journal : Written(j) /\ (\A s \in starts : s <= j) => j \in kept
    /\ clock \in Nat /\ release \in Releases
    /\ collector \in Collectors
    /\ collector.pc \notin {"idle", "done"} => clock > Capture

\* A collector may call a window that begins at a moment complete, for all its queries say.
Readable(c, from) ==
    /\ c.since <= from
    /\ \A segment \in c.segments : segment.failed => segment.until <= from
Moments == 1..(Capture - 1)
Inside(i, from) == from <= journal[i].stamp /\ journal[i].stamp <= Capture
Unread(c) == c.pc \in {"idle", "recent"}
\* No problem was read twice, and what has been read happened; what is still kept of a
\* window that may be called complete has been read.
ReadInv(c) ==
    /\ Unread(c) => c.read = Nothing
    /\ ~Unread(c) => c.since <= Capture - Recent
    /\ \A s \in Stamps :
          /\ c.read[s] \in {0, 1}
          /\ s < c.since => c.read[s] = 0
          /\ c.read[s] = 1 =>
                \E i \in DOMAIN journal : journal[i].stamp = s /\ journal[i].kind = "problem"
    /\ ~Unread(c) =>
          \A from \in Moments : Readable(c, from) =>
          \A i \in kept : journal[i].kind = "problem" /\ Inside(i, from) => c.read[journal[i].stamp] = 1
\* What an inventory taken after the queries stands for, whatever is deleted later.
Tells(c, coverage, bottom) ==
    ~coverage.error =>
    \A from \in Moments : bottom <= from /\ coverage.since <= from =>
    \A i \in DOMAIN journal : Inside(i, from) =>
       /\ journal[i].kind = "problem" /\ Readable(c, from) => c.read[journal[i].stamp] = 1
       /\ journal[i].kind = "notice" /\ coverage.from <= from => journal[i].stamp \in coverage.notices
EvidenceInv(c) ==
    /\ c.pc \in {"history", "again", "done"} => Tells(c, c.recent, Capture - Recent)
    /\ c.pc = "done" => Tells(c, c.history, 1)
JInv == JournalInv /\ ReadInv(collector) /\ EvidenceInv(collector)
-----------------------------------------------------------------------------
LEMMA JournalBounds ==
    /\ {Capture, Short, Recent, Day, Chunk} \subseteq Nat \ {0}
    /\ Releases \subseteq 1..Capture /\ Short <= Recent /\ Recent <= Day /\ Day < Capture
    /\ MaxTroubles \in Nat
  BY JournalAssumption

LEMMA LeastOf ==
    ASSUME NEW S \in SUBSET Nat, S # {}
    PROVE  Min(S) \in S /\ \A j \in S : Min(S) <= j
<1>1. PICK i \in S : \A j \in S : ~(<<j, i>> \in OpToRel(<, Nat))
  BY NatLessThanWellFounded, WFMin
<1>2. \A j \in S : ~(j < i)
  BY <1>1 DEF OpToRel
<1>3. \A j \in S : i <= j
  BY <1>2
<1> QED
  BY <1>3 DEF Min

LEMMA GreatestOf ==
    ASSUME NEW S \in SUBSET Nat, S # {}, NEW n \in Nat, \A j \in S : j <= n
    PROVE  \E i \in S : \A j \in S : j <= i
<1> DEFINE below == {n - j : j \in S}
<1>1. below \in SUBSET Nat /\ below # {}
  OBVIOUS
<1>2. PICK i \in S : n - i = Min(below)
  BY <1>1, LeastOf
<1>3. \A j \in S : n - i <= n - j
  BY <1>1, <1>2, LeastOf
<1> QED
  BY <1>3

LEMMA PairBounds ==
    ASSUME NEW a \in Int, NEW b \in Int
    PROVE  /\ Min({a, b}) \in {a, b} /\ Min({a, b}) <= a /\ Min({a, b}) <= b
           /\ Max({a, b}) \in {a, b} /\ Max({a, b}) >= a /\ Max({a, b}) >= b
<1>1. \E x \in {a, b} : \A y \in {a, b} : x <= y
  OBVIOUS
<1>2. \E x \in {a, b} : \A y \in {a, b} : x >= y
  OBVIOUS
<1> QED
  BY <1>1, <1>2 DEF Min, Max

LEMMA EntryTypes ==
    ASSUME JournalInv
    PROVE  /\ Len(journal) \in Nat /\ DOMAIN journal = 1..Len(journal)
           /\ \A i \in DOMAIN journal :
                 i \in Nat /\ journal[i].stamp \in Nat /\ journal[i].kind \in Kinds
<1> DEFINE entries == [stamp : Nat, kind : Kinds]
<1>1. journal \in Seq(entries)
  BY DEF JournalInv
<1> HIDE DEF entries
<1>2. Len(journal) \in Nat /\ DOMAIN journal = 1..Len(journal)
  BY <1>1
<1>3. \A i \in 1..Len(journal) : journal[i] \in entries
  BY <1>1
<1> QED
  BY <1>2, <1>3 DEF entries

\* An entry of the current file lies behind every file's beginning.
LEMMA CurrentFile ==
    ASSUME JournalInv, NEW i \in DOMAIN journal
    PROVE  FileOf(i) = Current <=> \A s \in starts : s <= i
<1>1. starts \in SUBSET Nat /\ 1 \in starts /\ i \in Nat /\ 1 <= i /\ Len(journal) \in Nat
      /\ \A s \in starts : s <= Len(journal) + 1
  BY DEF JournalInv
<1>2. \E s \in starts : \A t \in starts : t <= s
  <2>1. Len(journal) + 1 \in Nat /\ starts # {}
    BY <1>1
  <2> QED
    BY <1>1, <2>1, GreatestOf
<1>3. Current \in starts /\ \A t \in starts : t <= Current
  BY <1>2 DEF Current
<1> DEFINE under == {s \in starts : s <= i}
<1>4. \E s \in under : \A t \in under : t <= s
  <2>1. under \in SUBSET Nat /\ under # {} /\ \A s \in under : s <= i
    BY <1>1
  <2> QED
    BY <1>1, <2>1, GreatestOf
<1>5. FileOf(i) \in starts /\ FileOf(i) <= i
  <2>1. \E s \in starts : s <= i /\ \A t \in starts : t <= i => t <= s
    BY <1>4
  <2> QED
    BY <2>1 DEF FileOf
<1>6. ASSUME \A s \in starts : s <= i PROVE FileOf(i) = Current
  <2>1. \A s \in starts : (s <= i /\ \A t \in starts : t <= i => t <= s) <=> \A t \in starts : t <= s
    BY <1>6
  <2>2. FileOf(i) \in starts /\ \A t \in starts : t <= FileOf(i)
    <3>1. \E s \in starts : s <= i /\ \A t \in starts : t <= i => t <= s
      BY <1>4
    <3> QED
      BY <3>1, <2>1 DEF FileOf
  <2>3. FileOf(i) \in Nat /\ Current \in Nat /\ FileOf(i) <= Current /\ Current <= FileOf(i)
    BY <1>1, <1>3, <2>2
  <2> QED
    BY <2>3
<1>7. ASSUME FileOf(i) = Current PROVE \A s \in starts : s <= i
  BY <1>1, <1>3, <1>5, <1>7
<1> QED
  BY <1>6, <1>7

\* What an inventory finds: it is refused, or names the stamp of a message from which on
\* everything written is still kept.
LEMMA CoverageFound ==
    ASSUME JournalInv, NEW from \in Int
    PROVE  /\ Coverage(from) \in Coverages
           /\ ~Coverage(from).error =>
                 /\ Coverage(from).from = from
                 /\ Coverage(from).notices = {journal[i].stamp : i \in Entries("notice", from, Capture)}
                 /\ \E m \in DOMAIN journal :
                       /\ journal[m].stamp = Coverage(from).since
                       /\ \A j \in DOMAIN journal : j >= m /\ Written(j) => j \in kept
<1>0. /\ kept \subseteq DOMAIN journal /\ DOMAIN journal \subseteq Nat
      /\ \A i \in DOMAIN journal : journal[i].stamp \in Nat
      /\ \A j \in DOMAIN journal : Written(j) /\ (\A s \in starts : s <= j) => j \in kept
      /\ starts \subseteq Nat
  BY EntryTypes DEF JournalInv
<1>1. CASE ~\E i \in kept : FileOf(i) = Current
  <2>1. Coverage(from) = [error |-> TRUE]
    BY <1>1 DEF Coverage
  <2> QED
    BY <2>1 DEF Coverages
<1>2. CASE \E i \in kept : FileOf(i) = Current
  <2> DEFINE found == {journal[i].stamp : i \in {j \in kept : Contiguous(j)}}
             notices == {journal[i].stamp : i \in Entries("notice", from, Capture)}
  <2>1. PICK i \in kept : FileOf(i) = Current
    BY <1>2
  <2>2. \A s \in starts : s <= i
    BY <1>0, <2>1, CurrentFile
  <2>3. Contiguous(i)
    BY <1>0, <2>2 DEF Contiguous
  <2>4. found \in SUBSET Nat /\ found # {}
    BY <1>0, <2>3
  <2>5. Min(found) \in found
    BY <2>4, LeastOf
  <2>6. PICK m \in kept : Contiguous(m) /\ Min(found) = journal[m].stamp
    BY <2>5
  <2>7. notices \subseteq Nat
    BY <1>0 DEF Entries
  <2>8. Coverage(from) = [error |-> FALSE, since |-> Min(found), from |-> from, notices |-> notices]
    BY <1>2 DEF Coverage
  <2>9. Coverage(from) \in Coverages
    BY <2>4, <2>5, <2>7, <2>8 DEF Coverages
  <2>10. Coverage(from).from = from /\ Coverage(from).since = journal[m].stamp
         /\ Coverage(from).notices = notices
    BY <2>6, <2>8
  <2>11. \A j \in DOMAIN journal : j >= m /\ Written(j) => j \in kept
    BY <2>6 DEF Contiguous
  <2> QED
    BY <1>0, <2>9, <2>10, <2>11
<1> QED
  BY <1>1, <1>2

\* An inventory taken now tells all about the queries made before.
LEMMA CoverageTells ==
    ASSUME JournalInv, NEW c, ReadInv(c), ~Unread(c), NEW from \in Int, NEW bottom \in Int
    PROVE  Tells(c, Coverage(from), bottom)
<1> DEFINE coverage == Coverage(from)
<1>0. \A i \in DOMAIN journal : i \in Nat /\ journal[i].stamp \in Nat
  BY EntryTypes
<1> SUFFICES ASSUME ~coverage.error, NEW start \in Moments, coverage.since <= start,
                    NEW i \in DOMAIN journal, Inside(i, start)
             PROVE  /\ journal[i].kind = "problem" /\ Readable(c, start) => c.read[journal[i].stamp] = 1
                    /\ journal[i].kind = "notice" /\ coverage.from <= start
                          => journal[i].stamp \in coverage.notices
  BY DEF Tells
<1>1. PICK m \in DOMAIN journal :
          /\ journal[m].stamp = coverage.since
          /\ \A j \in DOMAIN journal : j >= m /\ Written(j) => j \in kept
  BY CoverageFound
<1>2. journal[m].stamp <= journal[i].stamp
  BY <1>0, <1>1 DEF Inside, Moments
<1>3. i >= m
  <2>1. i < m => journal[i].stamp < journal[m].stamp
    BY DEF JournalInv
  <2> QED
    BY <1>0, <1>2, <2>1
<1>4. journal[i].kind # "dropped" => i \in kept
  BY <1>1, <1>3 DEF Written
<1>5. ASSUME journal[i].kind = "problem", Readable(c, start)
      PROVE  c.read[journal[i].stamp] = 1
  BY <1>4, <1>5 DEF ReadInv
<1>6. ASSUME journal[i].kind = "notice", coverage.from <= start
      PROVE  journal[i].stamp \in coverage.notices
  <2>1. coverage.from = from /\ coverage.notices = {journal[j].stamp : j \in Entries("notice", from, Capture)}
    BY CoverageFound
  <2>2. i \in Entries("notice", from, Capture)
    BY <1>0, <1>4, <1>6, <2>1 DEF Entries, Inside, Moments
  <2> QED
    BY <2>1, <2>2
<1> QED
  BY <1>5, <1>6

LEMMA StartsAreMoments ==
    ASSUME release \in Releases
    PROVE  /\ DOMAIN Starts = {"short", "recent", "day", "fresh"}
           /\ \A w \in DOMAIN Starts : Starts[w] \in 1..Capture
           /\ Target \in 1..Capture /\ Capture - Recent \in 1..Capture
<1>1. DOMAIN Starts = {"short", "recent", "day", "fresh"}
  BY DEF Starts
<1>2. {Starts.short, Starts.recent, Starts.day, Starts.fresh} \subseteq 1..Capture
  BY JournalBounds DEF Starts
<1>3. Target \in {Capture - Day, release}
  <2>1. Capture - Day \in Int /\ release \in Int
    BY JournalBounds
  <2> QED
    BY <2>1, PairBounds DEF Target
<1>4. Capture - Day \in 1..Capture /\ release \in 1..Capture /\ Capture - Recent \in 1..Capture
  BY JournalBounds
<1> QED
  BY <1>1, <1>2, <1>3, <1>4

\* The windows called complete are exact.
LEMMA ExactWindows == JInv => WindowsAreExact
<1> SUFFICES ASSUME JInv, collector.pc = "done",
                    NEW w \in DOMAIN Starts, LogWindows[w], Starts[w] < Capture,
                    NEW s \in Starts[w]..Capture
             PROVE  collector.read[s] = Cardinality(Happened(s))
  BY DEF WindowsAreExact
<1> DEFINE from == Starts[w]
           evidence == EvidenceFor(from)
<1>0. /\ JournalInv /\ ReadInv(collector) /\ EvidenceInv(collector)
      /\ collector \in Collectors /\ release \in Releases /\ Capture \in Nat
      /\ \A i \in DOMAIN journal : i \in Nat /\ journal[i].stamp \in Nat
      /\ \A i, k \in DOMAIN journal : i < k => journal[i].stamp < journal[k].stamp
  BY JournalBounds, EntryTypes DEF JInv, JournalInv
<1>1. from \in Moments /\ s \in Moments \cup {Capture} /\ s \in Stamps /\ from <= s /\ s <= Capture
  BY <1>0, StartsAreMoments, JournalBounds DEF Moments, Stamps
<1>2. Unbroken(from)
  BY DEF LogWindows
<1>3. /\ Readable(collector, from) /\ ~evidence.error
      /\ evidence.since <= from /\ evidence.from <= from
      /\ \A n \in evidence.notices : ~(from <= n /\ n <= Capture)
  <2>1. ~Unproven(evidence, from) /\ Readable(collector, from)
    BY <1>0, <1>1, <1>2 DEF Unbroken, Readable, Collectors, Moments
  <2>2. ~evidence.error
    BY <2>1 DEF Unproven
  <2>3. evidence \in Coverages
    BY <1>0 DEF EvidenceFor, Collectors
  <2>4. evidence.since \in Nat /\ evidence.from \in Int
    <3>1. evidence # [error |-> TRUE]
      BY <2>2
    <3> QED
      BY <2>3, <3>1 DEF Coverages
  <2> QED
    BY <1>1, <2>1, <2>2, <2>4 DEF Unproven, Moments
<1>4. \A i \in DOMAIN journal : Inside(i, from) =>
         /\ journal[i].kind = "problem" => collector.read[journal[i].stamp] = 1
         /\ journal[i].kind = "notice" => journal[i].stamp \in evidence.notices
  <2>1. CASE from >= Capture - Recent
    <3>1. evidence = collector.recent
      BY <2>1 DEF EvidenceFor
    <3>2. Capture - Recent <= from
      BY <1>0, <1>1, <2>1, JournalBounds DEF Moments
    <3> QED
      BY <1>0, <1>1, <1>3, <3>1, <3>2 DEF EvidenceInv, Tells
  <2>2. CASE ~(from >= Capture - Recent)
    <3>1. evidence = collector.history /\ 1 <= from
      BY <1>1, <2>2 DEF EvidenceFor, Moments
    <3> QED
      BY <1>0, <1>1, <1>3, <3>1 DEF EvidenceInv, Tells
  <2> QED
    BY <2>1, <2>2
<1>5. \A i \in DOMAIN journal : Inside(i, from) => journal[i].kind # "notice"
  BY <1>3, <1>4 DEF Inside
<1>6. \A i \in Happened(s) : /\ i \in DOMAIN journal /\ journal[i].stamp = s
                             /\ journal[i].kind = "problem"
  <2> SUFFICES ASSUME NEW i \in Happened(s), journal[i].kind = "dropped"
               PROVE  FALSE
    BY DEF Happened
  <2>1. PICK n \in DOMAIN journal : n > i /\ journal[n].kind = "notice" /\ journal[n].stamp <= Capture
    BY DEF Happened, Reported
  <2>2. i \in DOMAIN journal /\ journal[i].stamp = s
    BY DEF Happened
  <2>3. s < journal[n].stamp
    BY <1>0, <2>1, <2>2
  <2>4. Inside(n, from)
    BY <1>0, <1>1, <2>1, <2>3 DEF Inside, Moments
  <2> QED
    BY <1>5, <2>1, <2>4
<1>7. CASE Happened(s) = {}
  <2>1. Cardinality(Happened(s)) = 0
    BY <1>7, FS_EmptySet
  <2>2. collector.read[s] # 1
    BY <1>0, <1>1, <1>7 DEF ReadInv, Happened
  <2>3. collector.read[s] \in {0, 1}
    BY <1>0, <1>1 DEF ReadInv
  <2> QED
    BY <2>1, <2>2, <2>3
<1>8. CASE Happened(s) # {}
  <2>1. PICK i \in Happened(s) : TRUE
    BY <1>8
  <2>2. \A k \in Happened(s) : k = i
    <3> SUFFICES ASSUME NEW k \in Happened(s)
                 PROVE  k = i
      OBVIOUS
    <3>1. /\ i \in DOMAIN journal /\ k \in DOMAIN journal
          /\ journal[i].stamp = s /\ journal[k].stamp = s
      BY <1>6
    <3>2. ~(i < k) /\ ~(k < i) /\ i \in Nat /\ k \in Nat
      BY <1>0, <1>1, <3>1 DEF Stamps
    <3> QED
      BY <3>2
  <2>3. Happened(s) = {i}
    BY <2>1, <2>2
  <2>4. Cardinality(Happened(s)) = 1
    BY <2>3, FS_Singleton
  <2>5. Inside(i, from) /\ journal[i].kind = "problem" /\ journal[i].stamp = s /\ i \in DOMAIN journal
    BY <1>1, <1>6, <2>1 DEF Inside
  <2> QED
    BY <1>4, <2>4, <2>5
<1> QED
  BY <1>7, <1>8
-----------------------------------------------------------------------------
(* The queries. *)

LEMMA IncludedFound ==
    ASSUME JournalInv, NEW since \in Int, NEW until \in Int, NEW last \in BOOLEAN
    PROVE  /\ \A s \in Included(since, until, last) :
                 /\ since <= s /\ s <= until /\ (last \/ s < until)
                 /\ \E i \in DOMAIN journal : journal[i].stamp = s /\ journal[i].kind = "problem"
           /\ \A i \in kept :
                 /\ journal[i].kind = "problem"
                 /\ since <= journal[i].stamp /\ journal[i].stamp <= until
                 /\ last \/ journal[i].stamp < until
                 => journal[i].stamp \in Included(since, until, last)
  BY DEF JournalInv, Included, Entries

LEMMA ReadingOf ==
    ASSUME NEW read \in [Stamps -> Nat], NEW stamps
    PROVE  /\ Reading(read, stamps) \in [Stamps -> Nat]
           /\ \A s \in Stamps :
                 /\ s \in stamps => Reading(read, stamps)[s] = read[s] + 1
                 /\ s \notin stamps => Reading(read, stamps)[s] = read[s]
  BY DEF Reading

\* One query more, of the time before those made: it reads what it finds, or fails
\* having read a part of that.
LEMMA QueryKeepsReadInv ==
    ASSUME JInv, NEW start \in Int, NEW until \in Int, NEW last \in BOOLEAN,
           NEW some \in SUBSET Included(start, until, last), NEW failed \in BOOLEAN,
           failed \/ some = Included(start, until, last), start <= until, until <= Capture,
           start <= Capture - Recent,
           \/ Unread(collector) /\ last /\ until = Capture
           \/ ~Unread(collector) /\ ~last /\ until = collector.since,
           NEW c, ~Unread(c), c.since = start, c.read = Reading(collector.read, some),
           [until |-> until, failed |-> failed] \in c.segments,
           Unread(collector) \/ collector.segments \subseteq c.segments
    PROVE  ReadInv(c)
<1>0. /\ JournalInv /\ ReadInv(collector) /\ collector.read \in [Stamps -> Nat]
      /\ Capture \in Nat /\ MaxTroubles \in Nat
  BY JournalBounds DEF JInv, JournalInv, Collectors
<1>1. \A i \in DOMAIN journal : journal[i].stamp \in Nat
  BY <1>0, EntryTypes
<1>2. \A s \in some :
         /\ start <= s /\ s <= until /\ (last \/ s < until)
         /\ \E i \in DOMAIN journal : journal[i].stamp = s /\ journal[i].kind = "problem"
  BY <1>0, IncludedFound
<1>3. \A s \in Stamps :
         /\ s \in some => c.read[s] = collector.read[s] + 1
         /\ s \notin some => c.read[s] = collector.read[s]
  BY <1>0, ReadingOf
<1>4. Stamps \subseteq Nat
  BY <1>0 DEF Stamps
<1>5. \A s \in Stamps : s \in some \/ s < start => collector.read[s] = 0
  <2>1. CASE Unread(collector)
    BY <1>0, <2>1 DEF ReadInv, Nothing
  <2>2. CASE ~Unread(collector)
    <3>1. \A s \in Stamps : s \in some \/ s < start => s < collector.since
      BY <1>2, <1>4, <2>2
    <3> QED
      BY <1>0, <3>1 DEF ReadInv
  <2> QED
    BY <2>1, <2>2
<1>6. \A s \in Stamps :
         /\ c.read[s] \in {0, 1}
         /\ s < c.since => c.read[s] = 0
         /\ c.read[s] = 1 =>
               \E i \in DOMAIN journal : journal[i].stamp = s /\ journal[i].kind = "problem"
  <2> SUFFICES ASSUME NEW s \in Stamps
               PROVE  /\ c.read[s] \in {0, 1}
                      /\ s < c.since => c.read[s] = 0
                      /\ c.read[s] = 1 =>
                            \E i \in DOMAIN journal : journal[i].stamp = s /\ journal[i].kind = "problem"
    OBVIOUS
  <2>1. CASE s \in some
    <3>1. c.read[s] = 1
      BY <1>3, <1>5, <2>1
    <3> QED
      BY <1>2, <1>4, <2>1, <3>1
  <2>2. CASE s \notin some
    <3>1. c.read[s] = collector.read[s]
      BY <1>3, <2>2
    <3> QED
      BY <1>0, <1>5, <3>1 DEF ReadInv
  <2> QED
    BY <2>1, <2>2
<1>7. ASSUME NEW from \in Moments, Readable(c, from), NEW i \in kept,
             journal[i].kind = "problem", Inside(i, from)
      PROVE  c.read[journal[i].stamp] = 1
  <2> DEFINE s == journal[i].stamp
  <2>1. s \in Stamps /\ s \in Nat /\ from \in Nat /\ from <= s /\ s <= Capture /\ from < Capture
        /\ start <= from
    <3>1. i \in DOMAIN journal
      BY <1>0 DEF JournalInv
    <3> QED
      BY <1>0, <1>1, <1>7, <3>1 DEF Inside, Moments, Stamps, Readable
  <2>2. CASE last \/ s < until
    <3>1. from < until
      BY <1>0, <2>1, <2>2
    <3>2. ~failed
      BY <1>7, <2>1, <3>1 DEF Readable
    <3>3. s <= until
      BY <2>1, <2>2
    <3>4. s \in some
      BY <1>0, <1>7, <2>1, <2>2, <3>2, <3>3, IncludedFound
    <3> QED
      BY <1>3, <1>5, <2>1, <3>4
  <2>3. CASE ~last /\ ~(s < until)
    <3>1. ~Unread(collector) /\ until = collector.since
      BY <2>3
    <3>2. s \notin some
      BY <1>2, <2>3
    <3> DEFINE later == IF from < until THEN until ELSE from
    <3>3. later <= s /\ collector.since <= later /\ from <= later
      BY <2>1, <2>3, <3>1
    <3>4. \A segment \in collector.segments : segment.failed => segment.until <= from
      BY <1>7, <3>1 DEF Readable
    <3>5. \A segment \in collector.segments : segment.failed => segment.until <= later
      <4>1. \A segment \in collector.segments : segment.until \in Int
        BY DEF JInv, JournalInv, Collectors
      <4> QED
        BY <2>1, <3>3, <3>4, <4>1
    <3>6. later \in Moments
      <4>1. until <= Capture - Recent /\ Recent \in Nat \ {0}
        BY <1>0, <3>1, JournalBounds DEF ReadInv
      <4> QED
        BY <1>0, <2>1, <4>1, <1>7 DEF Moments
    <3>7. collector.read[s] = 1
      BY <1>0, <1>7, <2>1, <3>1, <3>3, <3>5, <3>6 DEF ReadInv, Readable, Inside
    <3> QED
      BY <1>3, <2>1, <3>2, <3>7
  <2> QED
    BY <2>2, <2>3
<1> QED
  BY <1>6, <1>7 DEF ReadInv

LEMMA CollectorStep ==
    ASSUME JInv, UNCHANGED <<journal, starts, kept, release>>, clock' \in Nat,
           collector' \in Collectors, ReadInv(collector'), EvidenceInv(collector'),
           collector'.pc \notin {"idle", "done"} => clock' > Capture
    PROVE  JInv'
<1>1. JournalInv'
  BY DEF JInv, JournalInv, Written
<1>2. ReadInv(collector)'
  BY DEF ReadInv, Inside, Readable, Unread
<1>3. EvidenceInv(collector)'
  BY DEF EvidenceInv, Tells, Inside, Readable
<1> QED
  BY <1>1, <1>2, <1>3 DEF JInv

LEMMA BeginKeepsJInv == ASSUME JInv, Begin PROVE JInv'
<1>1. /\ collector \in Collectors /\ collector' = [collector EXCEPT !.pc = "recent"]
      /\ collector.pc = "idle" /\ clock' = Capture + 1 /\ Capture \in Nat
      /\ ReadInv(collector)
  BY JournalBounds DEF JInv, JournalInv, Begin
<1>2. /\ collector' \in Collectors /\ collector'.pc = "recent"
      /\ collector'.read = collector.read /\ collector'.since = collector.since
  BY <1>1 DEF Collectors
<1>3. ReadInv(collector') /\ EvidenceInv(collector')
  BY <1>1, <1>2 DEF ReadInv, EvidenceInv, Unread
<1> QED
  BY <1>1, <1>2, <1>3, CollectorStep DEF Begin

\* A query takes part of what it may, or all.
LEMMA SegmentTypes ==
    ASSUME NEW until \in Int, NEW failed \in BOOLEAN
    PROVE  [until |-> until, failed |-> failed] \in [until : Int, failed : BOOLEAN]
  OBVIOUS

LEMMA ReadRecentKeepsJInv == ASSUME JInv, ReadRecent PROVE JInv'
<1> DEFINE records == Included(Capture - Recent, Capture, TRUE)
           After(read, failed) == [collector EXCEPT
               !.pc = "inventory", !.since = Capture - Recent, !.read = Reading(@, read),
               !.segments = {[until |-> Capture, failed |-> failed]}]
<1>1. /\ collector.pc = "recent" /\ UNCHANGED <<clock, journal, starts, kept, release>>
      /\ \E some \in SUBSET records, failed \in BOOLEAN :
            (failed \/ some = records) /\ collector' = After(some, failed)
  <2>1. CASE Step_(After(records, FALSE))
    BY <2>1 DEF ReadRecent, Step_
  <2>2. CASE \E some \in SUBSET records : Fail(After(some, TRUE))
    BY <2>2 DEF ReadRecent, Fail
  <2> QED
    BY <2>1, <2>2 DEF ReadRecent
<1>2. PICK some \in SUBSET records, failed \in BOOLEAN :
          (failed \/ some = records) /\ collector' = After(some, failed)
  BY <1>1
<1>3. /\ collector \in Collectors /\ collector.read \in [Stamps -> Nat]
      /\ Capture \in Nat /\ Recent \in Nat /\ clock \in Nat /\ clock > Capture
  BY <1>1, JournalBounds DEF JInv, JournalInv, Collectors
<1>4. Reading(collector.read, some) \in [Stamps -> Nat]
  BY <1>3, ReadingOf
<1>5. /\ collector' \in Collectors /\ collector'.pc = "inventory" /\ collector'.since = Capture - Recent
      /\ collector'.read = Reading(collector.read, some)
      /\ collector'.segments = {[until |-> Capture, failed |-> failed]}
  <2>1. {[until |-> Capture, failed |-> failed]} \in SUBSET [until : Int, failed : BOOLEAN]
    BY <1>3, SegmentTypes
  <2>2. Capture - Recent \in Int
    BY <1>3
  <2> QED
    BY <1>2, <1>3, <1>4, <2>1, <2>2 DEF Collectors
<1>6. ReadInv(collector')
  <2>1. Unread(collector) /\ ~Unread(collector')
    BY <1>1, <1>5 DEF Unread
  <2>2. [until |-> Capture, failed |-> failed] \in collector'.segments
    BY <1>5
  <2>3. Capture - Recent \in Int /\ Capture - Recent <= Capture /\ Capture \in Int
    BY <1>3
  <2>4. some \in SUBSET Included(Capture - Recent, Capture, TRUE)
        /\ (failed \/ some = Included(Capture - Recent, Capture, TRUE))
    BY <1>2
  <2> DEFINE start == Capture - Recent
  <2>5. start \in Int /\ start <= start /\ start <= Capture /\ Capture <= Capture
        /\ Capture \in Int /\ TRUE \in BOOLEAN
    BY <2>3
  <2> QED
    BY <1>5, <2>1, <2>2, <2>4, <2>5, QueryKeepsReadInv, ZenonT(60)
<1>7. EvidenceInv(collector')
  BY <1>5 DEF EvidenceInv
<1> QED
  BY <1>1, <1>3, <1>5, <1>6, <1>7, CollectorStep

LEMMA InventoryKeepsJInv == ASSUME JInv, Inventory PROVE JInv'
<1> DEFINE found == Coverage(Capture - Recent)
<1>1. /\ collector' = [collector EXCEPT !.pc = "history", !.recent = found, !.history = found]
      /\ collector.pc = "inventory" /\ UNCHANGED <<clock, journal, starts, kept, release>>
  BY DEF Inventory, Step_
<1>2. /\ collector \in Collectors /\ JournalInv /\ ReadInv(collector)
      /\ Capture - Recent \in Int /\ clock \in Nat /\ clock > Capture
  BY <1>1, JournalBounds DEF JInv, JournalInv
<1>3. found \in Coverages /\ Tells(collector, found, Capture - Recent)
  BY <1>1, <1>2, CoverageFound, CoverageTells DEF Unread
<1> HIDE DEF found
<1>4. /\ collector' \in Collectors /\ collector'.pc = "history" /\ collector'.recent = found
      /\ collector'.read = collector.read /\ collector'.since = collector.since
      /\ collector'.segments = collector.segments
  BY <1>1, <1>2, <1>3 DEF Collectors
<1>5. ReadInv(collector')
  BY <1>1, <1>2, <1>4 DEF ReadInv, Unread, Readable
<1>6. EvidenceInv(collector')
  BY <1>3, <1>4 DEF EvidenceInv, Tells, Readable
<1> QED
  BY <1>1, <1>2, <1>4, <1>5, <1>6, CollectorStep

\* A query of older entries, failed or not, and the end of them.
LEMMA ChunkKeepsJInv ==
    ASSUME JInv, collector.pc = "history", UNCHANGED <<clock, journal, starts, kept, release>>,
           NEW start \in Int, start <= collector.since,
           NEW some \in SUBSET Included(start, collector.since, FALSE), NEW failed \in BOOLEAN,
           failed \/ some = Included(start, collector.since, FALSE),
           NEW pc \in {"history", "again"},
           collector' = [collector EXCEPT
               !.pc = pc, !.since = start, !.read = Reading(@, some),
               !.segments = @ \cup {[until |-> collector.since, failed |-> failed]}]
    PROVE  JInv'
<1>1. /\ collector \in Collectors /\ collector.read \in [Stamps -> Nat] /\ collector.since \in Int
      /\ JournalInv /\ ReadInv(collector) /\ EvidenceInv(collector) /\ clock \in Nat /\ clock > Capture
      /\ Capture \in Nat /\ Recent \in Nat
  BY JournalBounds DEF JInv, JournalInv, Collectors
<1>2. Reading(collector.read, some) \in [Stamps -> Nat]
  BY <1>1, ReadingOf
<1> DEFINE segment == [until |-> collector.since, failed |-> failed]
<1>3. segment \in [until : Int, failed : BOOLEAN]
  BY <1>1
<1>4. /\ collector' \in Collectors /\ collector'.pc = pc /\ collector'.since = start
      /\ collector'.read = Reading(collector.read, some) /\ collector'.recent = collector.recent
      /\ collector'.segments = collector.segments \cup {segment}
  BY <1>1, <1>2, <1>3 DEF Collectors
<1>5. collector.since <= Capture - Recent /\ collector.since <= Capture /\ start <= Capture - Recent
  BY <1>1 DEF ReadInv, Unread
<1>6. ReadInv(collector')
  BY <1>1, <1>4, <1>5, QueryKeepsReadInv DEF Unread
<1>7. Tells(collector', collector.recent, Capture - Recent)
  <2>1. Tells(collector, collector.recent, Capture - Recent)
    BY <1>1 DEF EvidenceInv
  <2> SUFFICES ASSUME ~collector.recent.error, NEW from \in Moments, Capture - Recent <= from,
                      collector.recent.since <= from, NEW i \in DOMAIN journal, Inside(i, from)
               PROVE  /\ journal[i].kind = "problem" /\ Readable(collector', from)
                            => collector'.read[journal[i].stamp] = 1
                      /\ journal[i].kind = "notice" /\ collector.recent.from <= from
                            => journal[i].stamp \in collector.recent.notices
    BY DEF Tells
  <2>2. Readable(collector', from) => Readable(collector, from)
    BY <1>1, <1>4, <1>5 DEF Readable, Moments
  <2>3. journal[i].stamp \notin some /\ journal[i].stamp \in Stamps
    <3>1. journal[i].stamp \in Nat
      BY <1>1, EntryTypes
    <3>2. journal[i].stamp >= collector.since /\ journal[i].stamp \in 1..Capture
      BY <1>1, <1>5, <3>1 DEF Inside, Moments
    <3>3. \A s \in some : s < collector.since
      BY <1>1, IncludedFound
    <3> QED
      BY <1>1, <3>1, <3>2, <3>3, JournalBounds DEF Stamps
  <2>4. collector'.read[journal[i].stamp] = collector.read[journal[i].stamp]
    BY <1>1, <1>4, <2>3, ReadingOf
  <2> QED
    BY <2>1, <2>2, <2>4 DEF Tells
<1>8. EvidenceInv(collector')
  BY <1>4, <1>7 DEF EvidenceInv
<1> QED
  BY <1>1, <1>4, <1>6, <1>8, CollectorStep

\* The historical queries end.
LEMMA EndKeepsJInv ==
    ASSUME JInv, collector.pc = "history", UNCHANGED <<clock, journal, starts, kept, release>>,
           collector' = [collector EXCEPT !.pc = "again"]
    PROVE  JInv'
<1>1. /\ collector \in Collectors /\ ReadInv(collector) /\ EvidenceInv(collector)
      /\ clock \in Nat /\ clock > Capture
  BY DEF JInv, JournalInv
<1>2. /\ collector' \in Collectors /\ collector'.pc = "again" /\ collector'.recent = collector.recent
      /\ collector'.read = collector.read /\ collector'.since = collector.since
      /\ collector'.segments = collector.segments
  BY <1>1 DEF Collectors
<1>3. ReadInv(collector') /\ EvidenceInv(collector')
  BY <1>1, <1>2 DEF ReadInv, Unread, Readable, EvidenceInv, Tells
<1> QED
  BY <1>1, <1>2, <1>3, CollectorStep

LEMMA ReadChunkKeepsJInv == ASSUME JInv, ReadChunk PROVE JInv'
<1> DEFINE start == collector.since - Min({Chunk, collector.since - Goal})
           records == Included(start, collector.since, FALSE)
           After(read, failed) == [collector EXCEPT
               !.since = start, !.read = Reading(@, read),
               !.segments = @ \cup {[until |-> collector.since, failed |-> failed]}]
           GivenUp(c) == [c EXCEPT !.pc = "again"]
<1>1. /\ collector \in Collectors /\ collector.since \in Int /\ collector.recent \in Coverages
      /\ release \in Releases /\ collector.pc = "history" /\ collector.since > Goal
      /\ UNCHANGED <<clock, journal, starts, kept, release>>
  BY DEF JInv, JournalInv, Collectors, ReadChunk, Step_, Fail
<1>2. start \in Int /\ start <= collector.since
  <2>1. Goal \in Int
    <3>1. Target \in Int
      BY <1>1, StartsAreMoments
    <3>2. CASE collector.recent.error
      BY <3>1, <3>2 DEF Goal
    <3>3. CASE ~collector.recent.error
      <4>1. collector.recent # [error |-> TRUE]
        BY <3>3
      <4>2. collector.recent \in [error : {FALSE}, since : Nat, from : Int, notices : SUBSET Nat]
        BY <1>1, <4>1 DEF Coverages
      <4>3. \A e \in [error : {FALSE}, since : Nat, from : Int, notices : SUBSET Nat] : e.since \in Int
        OBVIOUS
      <4> QED
        BY <3>1, <3>3, <4>2, <4>3, PairBounds DEF Goal
    <3> QED
      BY <3>2, <3>3
  <2>2. Chunk \in Nat \ {0} /\ collector.since - Goal \in Nat
    BY <1>1, <2>1, JournalBounds
  <2>3. Min({Chunk, collector.since - Goal}) \in Nat
    <3> DEFINE rest == collector.since - Goal
    <3>1. Chunk \in Int /\ rest \in Int
      BY <2>2
    <3>2. Min({Chunk, rest}) \in {Chunk, rest}
      BY <3>1, PairBounds
    <3> QED
      BY <2>2, <3>2
  <2> QED
    BY <1>1, <2>3
<1>3. CASE Step_(After(records, FALSE))
  <2>1. collector' = [collector EXCEPT
            !.pc = "history", !.since = start, !.read = Reading(@, records),
            !.segments = @ \cup {[until |-> collector.since, failed |-> FALSE]}]
    BY <1>1, <1>3 DEF Step_, Collectors
  <2> QED
    BY <1>1, <1>2, <2>1, ChunkKeepsJInv
<1>4. CASE \E some \in SUBSET records : Fail(GivenUp(After(some, TRUE)))
  <2>1. PICK some \in SUBSET records : Fail(GivenUp(After(some, TRUE)))
    BY <1>4
  <2>2. collector' = [collector EXCEPT
            !.pc = "again", !.since = start, !.read = Reading(@, some),
            !.segments = @ \cup {[until |-> collector.since, failed |-> TRUE]}]
    BY <1>1, <2>1 DEF Fail, Collectors
  <2> QED
    BY <1>1, <1>2, <2>2, ChunkKeepsJInv
<1>5. CASE Fail(GivenUp(collector))
  BY <1>1, <1>5, EndKeepsJInv DEF Fail
<1> QED
  BY <1>3, <1>4, <1>5 DEF ReadChunk

LEMMA InventoryAgainKeepsJInv == ASSUME JInv, InventoryAgain PROVE JInv'
<1> DEFINE found == Coverage(Target)
<1>1. /\ collector' = [collector EXCEPT !.pc = "done", !.history = found]
      /\ collector.pc = "again" /\ UNCHANGED <<clock, journal, starts, kept, release>>
  BY DEF InventoryAgain, Step_
<1>2. /\ collector \in Collectors /\ JournalInv /\ ReadInv(collector) /\ EvidenceInv(collector)
      /\ release \in Releases /\ clock \in Nat
  BY <1>1 DEF JInv, JournalInv
<1>3. found \in Coverages /\ Tells(collector, found, 1)
  <2>1. Target \in Int
    BY <1>2, StartsAreMoments
  <2> QED
    BY <1>1, <1>2, <2>1, CoverageFound, CoverageTells DEF Unread
<1> HIDE DEF found
<1>4. /\ collector' \in Collectors /\ collector'.pc = "done" /\ collector'.history = found
      /\ collector'.recent = collector.recent /\ collector'.segments = collector.segments
      /\ collector'.read = collector.read /\ collector'.since = collector.since
  BY <1>1, <1>2, <1>3 DEF Collectors
<1>5. ReadInv(collector')
  BY <1>1, <1>2, <1>4 DEF ReadInv, Unread, Readable
<1>6. EvidenceInv(collector')
  BY <1>1, <1>2, <1>3, <1>4 DEF EvidenceInv, Tells, Readable
<1> QED
  BY <1>1, <1>2, <1>4, <1>5, <1>6, CollectorStep

LEMMA SummarizeKeepsJInv == ASSUME JInv, Summarize PROVE JInv'
<1>1. CASE EndHistory
  BY <1>1, EndKeepsJInv DEF EndHistory, Step_
<1> QED
  BY <1>1, BeginKeepsJInv, ReadRecentKeepsJInv, InventoryKeepsJInv, ReadChunkKeepsJInv,
     InventoryAgainKeepsJInv DEF Summarize
-----------------------------------------------------------------------------
(* journald. *)

\* What it does meanwhile concerns later messages, or takes some away.
LEMMA JournalGrows ==
    ASSUME JInv, JournalInv', UNCHANGED collector,
           \A i \in DOMAIN journal : i \in DOMAIN journal' /\ journal'[i] = journal[i],
           \A i \in DOMAIN journal' : journal'[i].stamp <= Capture => i \in DOMAIN journal,
           \A i \in kept' : i \in DOMAIN journal => i \in kept
    PROVE  JInv'
<1>1. \A i \in DOMAIN journal', from \in Moments : Inside(i, from)' =>
         i \in DOMAIN journal /\ journal'[i] = journal[i] /\ Inside(i, from)
  BY DEF Inside
<1>2. kept' \subseteq DOMAIN journal'
  BY DEF JournalInv
<1>3. ReadInv(collector)'
  <2>1. \A s \in Stamps : collector.read[s] = 1 =>
            \E i \in DOMAIN journal' : journal'[i].stamp = s /\ journal'[i].kind = "problem"
    BY DEF JInv, ReadInv
  <2>2. \A from \in Moments : \A i \in kept' : Inside(i, from)' =>
            i \in kept /\ journal'[i] = journal[i] /\ Inside(i, from)
    BY <1>1, <1>2
  <2> QED
    BY <2>1, <2>2 DEF JInv, ReadInv, Readable, Unread
<1>4. EvidenceInv(collector)'
  <2>1. ASSUME NEW coverage, NEW bottom, Tells(collector, coverage, bottom)
        PROVE  Tells(collector, coverage, bottom)'
    BY <1>1, <2>1 DEF Tells, Readable
  <2> QED
    BY <2>1 DEF JInv, EvidenceInv
<1> QED
  BY <1>3, <1>4 DEF JInv

LEMMA AppendKeepsJInv ==
    ASSUME JInv, NEW kind \in Kinds, Append_(kind), UNCHANGED <<release, collector>>,
           clock' = clock + 1, clock > Capture
    PROVE  JInv'
<1> DEFINE last == Len(journal)
           entry == [stamp |-> clock, kind |-> kind]
<1>1. /\ JournalInv /\ clock \in Nat /\ last \in Nat /\ DOMAIN journal = 1..last
      /\ Capture \in Nat
      /\ \A i \in DOMAIN journal : journal[i].stamp \in Nat
      /\ journal \in Seq([stamp : Nat, kind : Kinds]) /\ entry \in [stamp : Nat, kind : Kinds]
  BY EntryTypes, JournalBounds DEF JInv, JournalInv
<1>2. /\ journal' = Append(journal, entry) /\ starts' = starts
      /\ kept' = IF kind = "dropped" THEN kept ELSE kept \cup {last + 1}
      /\ journal # <<>> => journal[last].stamp < clock
  BY DEF Append_
<1>3. /\ journal' \in Seq([stamp : Nat, kind : Kinds]) /\ Len(journal') = last + 1
      /\ DOMAIN journal' = 1..(last + 1) /\ journal'[last + 1] = entry
      /\ \A i \in 1..last : journal'[i] = journal[i]
  BY <1>1, <1>2
<1>a. /\ clock \in Nat /\ last \in Nat /\ DOMAIN journal = 1..last /\ Capture \in Nat
      /\ \A i \in 1..last : journal[i].stamp \in Nat
      /\ \A i, k \in 1..last : i < k => journal[i].stamp < journal[k].stamp
      /\ journal # <<>> => journal[last].stamp < clock
  BY <1>1, <1>2 DEF JournalInv
<1>b. /\ DOMAIN journal' = 1..(last + 1) /\ journal'[last + 1].stamp = clock
      /\ \A i \in 1..last : journal'[i] = journal[i]
  BY <1>3
<1> HIDE DEF last
<1>4. \A i \in 1..last : journal[i].stamp < clock
  <2> SUFFICES ASSUME NEW i \in 1..last
               PROVE  journal[i].stamp < clock
    OBVIOUS
  <2>1. journal # <<>> /\ last \in 1..last
    BY <1>a
  <2>2. i < last => journal[i].stamp < journal[last].stamp
    BY <1>a, <2>1
  <2> QED
    BY <1>a, <2>1, <2>2
<1>5. \A i, k \in DOMAIN journal' : i < k => journal'[i].stamp < journal'[k].stamp
  <2> SUFFICES ASSUME NEW i \in 1..(last + 1), NEW k \in 1..(last + 1), i < k
               PROVE  journal'[i].stamp < journal'[k].stamp
    BY <1>b
  <2>1. CASE k = last + 1
    <3>1. i \in 1..last
      BY <1>a, <2>1
    <3> QED
      BY <1>b, <1>4, <2>1, <3>1
  <2>2. CASE k # last + 1
    <3>1. i \in 1..last /\ k \in 1..last
      BY <1>a, <2>2
    <3> QED
      BY <1>a, <1>b, <3>1
  <2> QED
    BY <2>1, <2>2
<1>6. kept' \subseteq DOMAIN journal' /\ starts' \subseteq 1..(Len(journal') + 1) /\ 1 \in starts'
  BY <1>1, <1>2, <1>3 DEF JournalInv, last
<1>7. \A j \in DOMAIN journal' : Written(j)' /\ (\A s \in starts' : s <= j) => j \in kept'
  <2> SUFFICES ASSUME NEW j \in 1..(last + 1), journal'[j].kind # "dropped", \A s \in starts : s <= j
               PROVE  j \in kept'
    BY <1>2, <1>3 DEF Written
  <2>1. CASE j = last + 1
    BY <1>2, <1>3, <2>1
  <2>2. CASE j # last + 1
    <3>1. j \in DOMAIN journal /\ Written(j)
      BY <1>1, <1>3, <2>2 DEF Written
    <3> QED
      BY <1>1, <1>2, <3>1 DEF JournalInv
  <2> QED
    BY <2>1, <2>2
<1>8. JournalInv'
  BY <1>1, <1>3, <1>5, <1>6, <1>7 DEF JInv, JournalInv
<1>9. \A i \in DOMAIN journal' : journal'[i].stamp <= Capture => i \in DOMAIN journal
  BY <1>1, <1>3
<1>10. \A i \in kept' : i \in DOMAIN journal => i \in kept
  BY <1>1, <1>2
<1>11. \A i \in DOMAIN journal : i \in DOMAIN journal' /\ journal'[i] = journal[i]
  BY <1>1, <1>3
<1> QED
  BY <1>8, <1>9, <1>10, <1>11, JournalGrows

\* The entries of the current file are its own: no other file's end takes them away.
LEMMA DeleteKeepsJInv ==
    ASSUME JInv, NEW file, Delete(file), UNCHANGED <<release, collector>>,
           clock' = clock + 1, clock > Capture
    PROVE  JInv'
<1>1. /\ JournalInv /\ clock \in Nat /\ Capture \in Nat
      /\ kept' = {i \in kept : FileOf(i) # file} /\ file # Current
      /\ journal' = journal /\ starts' = starts
  BY JournalBounds DEF JInv, JournalInv, Delete
<1>2. \A j \in DOMAIN journal : Written(j) /\ (\A s \in starts : s <= j) => j \in kept'
  BY <1>1, CurrentFile DEF JournalInv
<1>3. JournalInv'
  BY <1>1, <1>2 DEF JInv, JournalInv, Written
<1> QED
  BY <1>1, <1>3, JournalGrows

LEMMA RotateKeepsJInv ==
    ASSUME JInv, Rotate, UNCHANGED <<release, collector>>, clock' = clock + 1, clock > Capture
    PROVE  JInv'
<1>1. JournalInv /\ clock \in Nat /\ Capture \in Nat
  BY JournalBounds DEF JInv, JournalInv
<1>2. starts' = starts \cup {Len(journal) + 1} /\ journal' = journal /\ kept' = kept
  BY DEF Rotate
<1>3. Len(journal) \in Nat
  BY <1>1, EntryTypes
<1>4. starts' \subseteq 1..(Len(journal') + 1) /\ 1 \in starts'
  <2> DEFINE n == Len(journal)
  <2>1. n \in Nat /\ starts \subseteq 1..(n + 1) /\ 1 \in starts
    BY <1>1, <1>3 DEF JournalInv
  <2>2. Len(journal') = n /\ starts' = starts \cup {n + 1}
    BY <1>2
  <2> HIDE DEF n
  <2> QED
    BY <2>1, <2>2
<1>5. JournalInv'
  BY <1>1, <1>2, <1>4 DEF JournalInv, Written
<1> QED
  BY <1>1, <1>2, <1>5, JournalGrows

LEMMA JournaldKeepsJInv == ASSUME JInv, Journald PROVE JInv'
<1>1. clock > Capture /\ UNCHANGED <<release, collector>> /\ clock' = clock + 1
  BY DEF JInv, JournalInv, Journald
<1>2. {"problem", "dropped", "notice"} \subseteq Kinds
  BY DEF Kinds
<1> QED
  BY <1>1, <1>2, AppendKeepsJInv, DeleteKeepsJInv, RotateKeepsJInv DEF Journald

\* A collection begins without readings, whatever the journal holds.
LEMMA IdleIsFresh ==
    Idle \in Collectors /\ ReadInv(Idle) /\ EvidenceInv(Idle) /\ Idle.pc = "idle"
<1>1. Nothing \in [Stamps -> Nat] /\ \A s \in Stamps : Nothing[s] = 0
  BY DEF Nothing
<1>2. Idle \in Collectors
  BY <1>1, JournalBounds DEF Idle, Collectors, Coverages
<1>3. Idle.pc = "idle" /\ Idle.read = Nothing
  BY DEF Idle
<1> QED
  BY <1>1, <1>2, <1>3 DEF ReadInv, EvidenceInv, Unread

LEMMA JInitKeepsOrder == JInit => JInv
<1> SUFFICES ASSUME JInit
             PROVE  JInv
  OBVIOUS
<1>1. PICK n \in 1..(MaxRecords - 1) :
          /\ journal \in [1..n -> [stamp : 1..Capture, kind : Kinds]]
          /\ \A i, k \in 1..n : i < k => journal[i].stamp < journal[k].stamp
  BY DEF JInit, Journals
<1>2. PICK gone \in SUBSET (starts \ {Current}) :
          kept = {i \in DOMAIN journal : Written(i) /\ FileOf(i) \notin gone}
  BY DEF JInit
<1>3. /\ collector = Idle /\ clock = Capture /\ Capture \in Nat /\ release \in Releases
      /\ MaxRecords \in Nat
  BY JournalAssumption DEF JInit
<1>4. /\ n \in Nat /\ DOMAIN journal = 1..n /\ Len(journal) = n
      /\ journal \in Seq([stamp : Nat, kind : Kinds])
  <2> DEFINE entries == [stamp : Nat, kind : Kinds]
  <2>1. n \in Nat
    BY <1>1, <1>3
  <2>2. journal \in [1..n -> entries]
    BY <1>1
  <2> HIDE DEF entries
  <2>3. journal \in Seq(entries)
    BY <2>1, <2>2, SeqDef
  <2>4. Len(journal) = n /\ DOMAIN journal = 1..n
    BY <2>1, <2>2, <2>3, LenProperties
  <2> QED
    BY <2>1, <2>3, <2>4 DEF entries
<1>5. starts \subseteq 1..(Len(journal) + 1) /\ 1 \in starts
  <2>1. PICK others \in SUBSET (2..n) : starts = {1} \cup others
    BY <1>4 DEF JInit, Files
  <2> QED
    BY <1>4, <2>1
<1>6. \A j \in DOMAIN journal : (\A s \in starts : s <= j) => FileOf(j) = Current
  <2> SUFFICES ASSUME NEW j \in DOMAIN journal, \A s \in starts : s <= j
               PROVE  FileOf(j) = Current
    OBVIOUS
  <2>1. \A s \in starts : (s <= j /\ \A t \in starts : t <= j => t <= s) <=> \A t \in starts : t <= s
    OBVIOUS
  <2> QED
    BY <2>1 DEF FileOf, Current
<1>7. JournalInv
  BY <1>1, <1>2, <1>3, <1>4, <1>5, <1>6, IdleIsFresh DEF JournalInv
<1> QED
  BY <1>3, <1>7, IdleIsFresh DEF JInv
-----------------------------------------------------------------------------

(* The agent's collection. *)

CollectionSteps ==
    {"artifacts", "services", "maintenance", "logs", "front", "probes", "confirm", "facts",
     "network", "storage", "overlay", "sent", "judged"}
ToProbes == {"artifacts", "services", "maintenance", "logs", "front", "probes"}
WindowNames == {"short", "recent", "day", "fresh"}
Requirements ==
    {"foreign_domains_via_router", "ipv4_literal_via_foreign", "ipv6_literal_via_router",
     "egress_identities", "private_fake_reject", "domains_via_router", "ipv4_literal_via_router",
     "egress_domains", "ipv4_literal", "ipv6_literal", "egress_identity", "ru_direct_identity",
     "foreign_domains_via_wg", "wireguard_candidate_ipv4", "wireguard_candidate_identity",
     "hysteria_candidate_reachable", "gateway_direct_identity"}
CycleRecords == [failed : SUBSET Requirements, down : SUBSET NodeParts]
Agents ==
    [pc : CollectionSteps, stamps : SUBSET Int, inactive : SUBSET NodeParts,
     wrong : SUBSET {"drift", "front", "transport", "profile", "disk"}, cycles : Seq(CycleRecords),
     adaptation : {"good", "unsettled", "maintenance", "failed"},
     clients : {"good", "client", "shared"},
     windows : {None} \cup [WindowNames -> BOOLEAN], logsError : BOOLEAN]

NodeType ==
    /\ plan \in Plans /\ selected \in Selections(plan)
    /\ up \subseteq NodeParts /\ fell \in [NodeParts -> Nat \cup {None}]
    /\ now \in Nat /\ skew \in Int
    /\ \A p \in NodeParts \ up : fell[p] \in Nat

\* The collection has a stamp that is not later than the fall of this part.
SeenBy(a, p) == p \notin up => \E s \in a.stamps : s <= fell[p] + skew
\* The parts the plan's traffic needs beside the services.
Traffic ==
    IF ~Gateway(plan) THEN {"exit-wan"}
    ELSE {"wan"} \cup IF Dual(plan) THEN {selected, "hysteria", "exit-wan", "exit-dns"} ELSE {}
StampInv(a) ==
    /\ \A s \in a.stamps : s <= now + skew
    /\ a.stamps = {} => a.pc = "artifacts"
\* A gate that fails is confirmed, and fails only when something needed is down.
CycleInv(a) ==
    /\ a.pc \in ToProbes => a.cycles = <<>>
    /\ a.pc = "confirm" => Len(a.cycles) = 1 /\ GateFails(a.cycles[1])
    /\ a.pc \notin ToProbes \cup {"confirm"} =>
          \/ Len(a.cycles) = 1 /\ ~GateFails(a.cycles[1])
          \/ Len(a.cycles) = 2 /\ GateFails(a.cycles[1])
    /\ \A i \in 1..Len(a.cycles) : GateFails(a.cycles[i]) => a.cycles[i].down # {}
\* What the collection has found in order was seen so after one of its stamps.
SeenInv(a) ==
    /\ a.pc # "artifacts" /\ "drift" \notin a.wrong => SeenBy(a, "files")
    /\ a.pc \notin {"artifacts", "services"} =>
          \A p \in RequiredServices(plan) \ a.inactive : SeenBy(a, p)
    /\ a.cycles # <<>> /\ Last(a.cycles).failed = {} => \A p \in Traffic : SeenBy(a, p)
    /\ a.pc \in {"storage", "overlay", "sent", "judged"} /\ "profile" \notin a.wrong
          => SeenBy(a, "profile")
    /\ a.pc \in {"overlay", "sent", "judged"} /\ "disk" \notin a.wrong => SeenBy(a, "disk")
WindowsInv(a) ==
    a.pc \notin {"artifacts", "services", "maintenance", "logs"} =>
    a.windows \in [WindowNames -> BOOLEAN]
AInv(a) == a \in Agents /\ StampInv(a) /\ CycleInv(a) /\ SeenInv(a) /\ WindowsInv(a)
\* After the judgement nothing changes: the judge would say the same again.
JudgedInv ==
    judged # None =>
      /\ agent.pc = "judged"
      /\ \/ /\ judged.by = "workstation" /\ judged.releaseOnly \in BOOLEAN
            /\ judged.verdict = NodeVerdict(Record, judged.releaseOnly)
         \/ /\ judged.by = "installer" /\ judged.releaseOnly = TRUE
            /\ judged.verdict = IF Accepted THEN "verified" ELSE "failed"
SInv == NodeType /\ AInv(agent) /\ JudgedInv /\ JInv
-----------------------------------------------------------------------------
LEMMA PlanFacts ==
    ASSUME NodeType
    PROVE  /\ plan = [topology |-> plan.topology, node |-> plan.node]
           /\ plan.topology \in Topologies /\ plan.node \in {"gateway", "exit"}
           /\ selected \in Candidates
           /\ Needed(plan, selected) \subseteq NodeParts /\ RequiredServices(plan) \subseteq NodeParts
           /\ Needed(plan, selected) =
                 RequiredServices(plan) \cup {"files", "disk", "profile"} \cup Traffic
           /\ Traffic \subseteq NodeParts
<1>1. plan \in [topology : Topologies, node : {"gateway", "exit"}]
  BY SnapshotAssumption DEF NodeType
<1>2. selected \in Candidates
  BY DEF NodeType, Selections, Candidates
<1> QED
  BY <1>1, <1>2 DEF Needed, RequiredServices, Traffic, NodeParts, Parts, Candidates, Gateway, Dual

\* What a cycle of probes shows of the parts.
LEMMA CycleFacts ==
    ASSUME NodeType
    PROVE  /\ Cycle \in CycleRecords
           /\ GateFails(Cycle) => Cycle.down # {}
           /\ Cycle.failed = {} => Traffic \subseteq up
<1> DEFINE routed == RouterProbes(plan)
           plain == PlainProbes(plan)
           FailsRouted(r) == Router(plan.topology, <<>>, routed[r].connection, up, selected, FALSE)
                                \notin routed[r].ends
<1>1. /\ Cycle.failed = {r \in DOMAIN routed : FailsRouted(r)} \cup {r \in DOMAIN plain : ~ plain[r] \subseteq up}
      /\ Cycle.down = Needed(plan, selected) \ up
      /\ Cycle = [failed |-> Cycle.failed, down |-> Cycle.down]
  BY DEF Cycle, FailedRequirements
<1>2. DOMAIN routed \subseteq Requirements
  <2>1. CASE ~Gateway(plan)
    BY <2>1 DEF RouterProbes
  <2>2. CASE Gateway(plan) /\ Dual(plan)
    <3>1. DOMAIN routed = {"foreign_domains_via_router", "ipv4_literal_via_foreign",
                 "ipv6_literal_via_router", "egress_identities", "private_fake_reject"}
      BY <2>2 DEF RouterProbes
    <3> QED
      BY <3>1 DEF Requirements
  <2>3. CASE Gateway(plan) /\ ~Dual(plan)
    <3>1. DOMAIN routed = {"domains_via_router", "ipv4_literal_via_router",
                 "ipv6_literal_via_router", "egress_identities", "private_fake_reject"}
      BY <2>3 DEF RouterProbes
    <3> QED
      BY <3>1 DEF Requirements
  <2> QED
    BY <2>1, <2>2, <2>3
<1>3. DOMAIN plain \subseteq Requirements
  <2>1. CASE ~Gateway(plan)
    <3>1. DOMAIN plain = {"egress_domains", "ipv4_literal", "ipv6_literal", "egress_identity"}
      BY <2>1 DEF PlainProbes
    <3> QED
      BY <3>1 DEF Requirements
  <2>2. CASE Gateway(plan) /\ Dual(plan)
    <3>1. DOMAIN plain = {"ru_direct_identity", "foreign_domains_via_wg", "wireguard_candidate_ipv4",
                 "wireguard_candidate_identity", "hysteria_candidate_reachable"}
      BY <2>2 DEF PlainProbes
    <3> QED
      BY <3>1 DEF Requirements
  <2>3. CASE Gateway(plan) /\ ~Dual(plan)
    <3>1. DOMAIN plain = {"gateway_direct_identity"}
      BY <2>3 DEF PlainProbes
    <3> QED
      BY <3>1 DEF Requirements
  <2> QED
    BY <2>1, <2>2, <2>3
<1>4. Cycle \in CycleRecords
  BY <1>1, <1>2, <1>3, PlanFacts DEF CycleRecords
<1>5. \A r \in DOMAIN plain : plain[r] \subseteq Needed(plan, selected)
  BY PlanFacts DEF PlainProbes, OverlayParts, Needed, RequiredServices, Gateway, Dual
<1>6. ASSUME Needed(plan, selected) \subseteq up PROVE Cycle.failed = {}
  <2>1. ASSUME NEW r \in DOMAIN routed PROVE ~FailsRouted(r)
    <3>1. Gateway(plan)
      BY <2>1 DEF RouterProbes
    <3> DEFINE p == [topology |-> plan.topology, node |-> "gateway"]
               others == up \ Needed(plan, selected)
    <3>2. p = plan /\ plan.topology \in Topologies /\ selected \in Candidates
          /\ selected \in Selections(p)
      BY <3>1, PlanFacts DEF Gateway, NodeType
    <3>3. others \in SUBSET (NodeParts \ Needed(p, selected)) /\ Needed(p, selected) \cup others = up
      BY <1>6, <3>2 DEF NodeType
    <3> HIDE DEF p, others
    <3>4. Router(plan.topology, <<>>, RouterProbes(p)[r].connection, Needed(p, selected) \cup others,
                 selected, FALSE) \in RouterProbes(p)[r].ends
      BY <2>1, <3>2, <3>3, ProbesGetThrough DEF p
    <3> QED
      BY <3>2, <3>3, <3>4
  <2> QED
    BY <1>1, <1>5, <1>6, <2>1
<1>7. GateFails(Cycle) => Cycle.down # {}
  BY <1>1, <1>6 DEF GateFails
<1>8. ASSUME Cycle.failed = {} PROVE Traffic \subseteq up
  <2>1. \A r \in DOMAIN plain : plain[r] \subseteq up
    BY <1>1, <1>8
  <2>2. CASE ~Gateway(plan)
    <3>1. "ipv4_literal" \in DOMAIN plain /\ plain["ipv4_literal"] = {"exit-wan"}
      BY <2>2 DEF PlainProbes
    <3> QED
      BY <2>1, <2>2, <3>1 DEF Traffic
  <2>3. CASE Gateway(plan) /\ Dual(plan)
    <3>1. /\ {"ru_direct_identity", "wireguard_candidate_ipv4", "hysteria_candidate_reachable"}
                \subseteq DOMAIN plain
          /\ plain["ru_direct_identity"] = {"wan"}
          /\ plain["wireguard_candidate_ipv4"] = OverlayParts(selected)
          /\ plain["hysteria_candidate_reachable"] = {"router", "wan", "hysteria", "exit-dns"}
      BY <2>3 DEF PlainProbes
    <3> QED
      BY <2>1, <2>3, <3>1 DEF Traffic, OverlayParts
  <2>4. CASE Gateway(plan) /\ ~Dual(plan)
    <3>1. "gateway_direct_identity" \in DOMAIN plain /\ plain["gateway_direct_identity"] = {"wan"}
      BY <2>4 DEF PlainProbes
    <3> QED
      BY <2>1, <2>4, <3>1 DEF Traffic
  <2> QED
    BY <2>2, <2>3, <2>4
<1> QED
  BY <1>4, <1>7, <1>8

LEMMA WindowTypes ==
    ASSUME JInv
    PROVE  LogWindows \in [WindowNames -> BOOLEAN]
<1>1. \A since : Unbroken(since) \in BOOLEAN
  BY DEF Unbroken
<1> QED
  BY <1>1, StartsAreMoments DEF JInv, JournalInv, LogWindows, WindowNames

LEMMA StampedFacts ==
    ASSUME NodeType, AInv(agent)
    PROVE  /\ Stamped(agent) \in Agents /\ Stamped(agent) = [agent EXCEPT !.stamps = @ \cup {now + skew}]
           /\ now + skew \in Int
  BY DEF NodeType, AInv, Agents, Stamped

\* A part seen stays seen as stamps are added; a part that is up now is seen.
LEMMA SeenFacts ==
    ASSUME NEW a, agent.stamps \subseteq a.stamps
    PROVE  /\ \A p : SeenBy(agent, p) => SeenBy(a, p)
           /\ \A p \in up : SeenBy(a, p)
  BY DEF SeenBy

\* A step of the collection adds a stamp of the moment or none, and keeps what is seen.
LEMMA StepKeepsAInv ==
    ASSUME NodeType, AInv(agent), NEW a \in Agents,
           a.stamps = agent.stamps \cup {now + skew} \/ (a.stamps = agent.stamps /\ agent.stamps # {}),
           CycleInv(a), WindowsInv(a),
           a.pc # "artifacts" /\ "drift" \notin a.wrong =>
              SeenBy(agent, "files") \/ "files" \in up,
           a.pc \notin {"artifacts", "services"} =>
              \A p \in RequiredServices(plan) \ a.inactive : SeenBy(agent, p) \/ p \in up,
           a.cycles # <<>> /\ Last(a.cycles).failed = {} =>
              \A p \in Traffic : SeenBy(agent, p) \/ p \in up,
           a.pc \in {"storage", "overlay", "sent", "judged"} /\ "profile" \notin a.wrong =>
              SeenBy(agent, "profile") \/ "profile" \in up,
           a.pc \in {"overlay", "sent", "judged"} /\ "disk" \notin a.wrong =>
              SeenBy(agent, "disk") \/ "disk" \in up
    PROVE  AInv(a)
<1>1. StampInv(a)
  <2>1. now + skew \in Int /\ \A s \in agent.stamps : s <= now + skew
    BY DEF AInv, StampInv, NodeType
  <2>2. \A s \in a.stamps : s <= now + skew
    BY <2>1
  <2> QED
    BY <2>2 DEF StampInv
<1>2. \A p : SeenBy(agent, p) \/ p \in up => SeenBy(a, p)
  BY SeenFacts
<1>3. SeenInv(a)
  BY <1>2 DEF SeenInv
<1> QED
  BY <1>1, <1>3 DEF AInv

LEMMA ArtifactsKeepsAInv == ASSUME NodeType, AInv(agent), Artifacts PROVE AInv(agent')
<1> DEFINE a == [Stamped(agent) EXCEPT !.pc = "services", !.wrong = IF "files" \in up THEN {} ELSE {"drift"}]
<1>0. agent' = a /\ agent.pc = "artifacts"
  BY DEF Artifacts, Collected, At_
<1>1. /\ a \in Agents /\ a.pc = "services" /\ a.stamps = agent.stamps \cup {now + skew}
      /\ a.wrong = (IF "files" \in up THEN {} ELSE {"drift"})
      /\ a.cycles = agent.cycles
  BY StampedFacts DEF Agents, CollectionSteps
<1> HIDE DEF a
<1>2. agent.cycles = <<>> /\ CycleInv(a) /\ WindowsInv(a)
  BY <1>0, <1>1 DEF AInv, CycleInv, WindowsInv, ToProbes
<1> QED
  BY <1>0, <1>1, <1>2, StepKeepsAInv

LEMMA ServicesKeepsAInv == ASSUME NodeType, AInv(agent), Services PROVE AInv(agent')
<1> DEFINE a == [Stamped(agent) EXCEPT !.pc = "maintenance", !.inactive = RequiredServices(plan) \ up]
<1>0. agent' = a /\ agent.pc = "services"
  BY DEF Services, Collected, At_
<1>1. /\ a \in Agents /\ a.pc = "maintenance" /\ a.stamps = agent.stamps \cup {now + skew}
      /\ a.inactive = RequiredServices(plan) \ up
      /\ a.cycles = agent.cycles /\ a.wrong = agent.wrong
  BY StampedFacts, PlanFacts DEF Agents, CollectionSteps
<1> HIDE DEF a
<1>2. agent.cycles = <<>> /\ CycleInv(a) /\ WindowsInv(a)
  BY <1>0, <1>1 DEF AInv, CycleInv, WindowsInv, ToProbes
<1>3. "drift" \notin agent.wrong => SeenBy(agent, "files")
  BY <1>0 DEF AInv, SeenInv
<1> QED
  BY <1>0, <1>1, <1>2, <1>3, StepKeepsAInv

\* What is seen already is seen by a later step too.
LEMMA FoundAlready ==
    ASSUME AInv(agent), agent.pc \notin {"artifacts", "services"}
    PROVE  /\ "drift" \notin agent.wrong => SeenBy(agent, "files")
           /\ \A p \in RequiredServices(plan) \ agent.inactive : SeenBy(agent, p)
           /\ agent.cycles # <<>> /\ Last(agent.cycles).failed = {} =>
                 \A p \in Traffic : SeenBy(agent, p)
           /\ agent.pc \in {"storage", "overlay", "sent", "judged"} /\ "profile" \notin agent.wrong
                 => SeenBy(agent, "profile")
           /\ agent.pc \in {"overlay", "sent", "judged"} /\ "disk" \notin agent.wrong
                 => SeenBy(agent, "disk")
           /\ agent.stamps # {}
  BY DEF AInv, SeenInv, StampInv

LEMMA MaintenanceKeepsAInv == ASSUME NodeType, AInv(agent), Maintenance PROVE AInv(agent')
<1> DEFINE a == [Stamped(agent) EXCEPT !.pc = "logs"]
<1>0. agent' = a /\ agent.pc = "maintenance"
  BY DEF Maintenance, Collected, At_
<1>1. /\ a \in Agents /\ a.pc = "logs" /\ a.stamps = agent.stamps \cup {now + skew}
      /\ a.inactive = agent.inactive /\ a.cycles = agent.cycles /\ a.wrong = agent.wrong
  BY StampedFacts DEF Agents, CollectionSteps
<1> HIDE DEF a
<1>2. agent.cycles = <<>> /\ CycleInv(a) /\ WindowsInv(a)
  BY <1>0, <1>1 DEF AInv, CycleInv, WindowsInv, ToProbes
<1> QED
  BY <1>0, <1>1, <1>2, FoundAlready, StepKeepsAInv

LEMMA ReadLogsKeepsAInv == ASSUME NodeType, AInv(agent), ReadLogs PROVE AInv(agent')
<1>0. agent.pc = "logs" /\ agent' \in {Stamped(agent), agent}
  BY DEF ReadLogs, At_
<1> DEFINE a == Stamped(agent)
<1>1. /\ a \in Agents /\ a.pc = "logs" /\ a.stamps = agent.stamps \cup {now + skew}
      /\ a.inactive = agent.inactive /\ a.cycles = agent.cycles /\ a.wrong = agent.wrong
  BY <1>0, StampedFacts DEF Agents
<1> HIDE DEF a
<1>2. agent.cycles = <<>> /\ CycleInv(a) /\ WindowsInv(a)
  BY <1>0, <1>1 DEF AInv, CycleInv, WindowsInv, ToProbes
<1>3. AInv(a)
  BY <1>0, <1>1, <1>2, FoundAlready, StepKeepsAInv
<1> QED
  BY <1>0, <1>3 DEF a

LEMMA LogsKeepsAInv == ASSUME NodeType, JInv, AInv(agent), Logs PROVE AInv(agent')
<1> DEFINE failed == \E s \in collector.segments : s.failed /\ s.until = Capture
           a == [agent EXCEPT !.pc = "front", !.windows = LogWindows, !.logsError = failed]
<1>0. agent' = a /\ agent.pc = "logs"
  BY DEF Logs, At_
<1>a. agent \in Agents /\ LogWindows \in [WindowNames -> BOOLEAN] /\ failed \in BOOLEAN
  BY WindowTypes DEF AInv
<1> HIDE DEF failed
<1>1. /\ a \in Agents /\ a.pc = "front" /\ a.stamps = agent.stamps
      /\ a.inactive = agent.inactive /\ a.cycles = agent.cycles /\ a.wrong = agent.wrong
      /\ a.windows = LogWindows
  BY <1>a DEF Agents, CollectionSteps
<1> HIDE DEF a
<1>2. agent.cycles = <<>> /\ CycleInv(a) /\ WindowsInv(a)
  BY <1>0, <1>1, <1>a DEF AInv, CycleInv, WindowsInv, ToProbes
<1> QED
  BY <1>0, <1>1, <1>2, FoundAlready, StepKeepsAInv

LEMMA TcpFrontKeepsAInv == ASSUME NodeType, AInv(agent), TcpFront PROVE AInv(agent')
<1>0. agent.pc = "front"
  BY DEF TcpFront, At_
<1>1. CASE Gateway(plan)
  <2>1. PICK front \in FrontSockets :
            agent' = [Stamped(agent) EXCEPT !.pc = "probes", !.clients = FrontObservation(front),
                         !.wrong = @ \cup IF "front" \in up THEN {} ELSE {"front"}]
    BY <1>1 DEF TcpFront, Collected
  <2> DEFINE said == FrontObservation(front)
             a == [Stamped(agent) EXCEPT !.pc = "probes", !.clients = said,
                      !.wrong = @ \cup IF "front" \in up THEN {} ELSE {"front"}]
  <2>2. said \in {"good", "client", "shared"}
    BY DEF FrontObservation
  <2> HIDE DEF said
  <2>3. /\ a \in Agents /\ a.pc = "probes" /\ a.stamps = agent.stamps \cup {now + skew}
        /\ a.inactive = agent.inactive /\ a.cycles = agent.cycles /\ agent.wrong \subseteq a.wrong
        /\ a.windows = agent.windows
    BY <2>2, StampedFacts DEF Agents, CollectionSteps
  <2> HIDE DEF a
  <2>4. agent.cycles = <<>> /\ CycleInv(a) /\ WindowsInv(a)
    BY <1>0, <2>3 DEF AInv, CycleInv, WindowsInv, ToProbes
  <2>5. AInv(a)
    BY <1>0, <2>3, <2>4, FoundAlready, StepKeepsAInv
  <2> QED
    BY <2>1, <2>5 DEF a, said
<1>2. CASE ~Gateway(plan)
  <2> DEFINE a == [agent EXCEPT !.pc = "probes"]
  <2>1. agent' = a
    BY <1>2 DEF TcpFront, Collected
  <2>2. /\ a \in Agents /\ a.pc = "probes" /\ a.stamps = agent.stamps
        /\ a.inactive = agent.inactive /\ a.cycles = agent.cycles /\ a.wrong = agent.wrong
        /\ a.windows = agent.windows
    BY DEF AInv, Agents, CollectionSteps
  <2> HIDE DEF a
  <2>3. agent.cycles = <<>> /\ CycleInv(a) /\ WindowsInv(a)
    BY <1>0, <2>2 DEF AInv, CycleInv, WindowsInv, ToProbes
  <2> QED
    BY <1>0, <2>1, <2>2, <2>3, FoundAlready, StepKeepsAInv
<1> QED
  BY <1>1, <1>2

LEMMA RunProbesKeepsAInv == ASSUME NodeType, AInv(agent), RunProbes PROVE AInv(agent')
<1> DEFINE cycle == Cycle
           next == AfterFirst(cycle)
           a == [Stamped(agent) EXCEPT !.pc = next, !.cycles = <<cycle>>]
<1>0. agent' = a /\ agent.pc = "probes"
  BY DEF RunProbes, Collected, At_
<1>1. /\ cycle \in CycleRecords
      /\ GateFails(cycle) => cycle.down # {}
      /\ cycle.failed = {} => Traffic \subseteq up
  BY CycleFacts
<1> HIDE DEF cycle
<1>2. next \in {"confirm", "facts"} /\ (next = "confirm" <=> GateFails(cycle))
  BY DEF AfterFirst
<1> HIDE DEF next
<1> DEFINE records == CycleRecords
<1>r. cycle \in records
  BY <1>1
<1> HIDE DEF records
<1>3. <<cycle>> \in Seq(records)
  BY <1>r
<1>4. /\ a \in Agents /\ a.pc = next /\ a.stamps = agent.stamps \cup {now + skew}
      /\ a.inactive = agent.inactive /\ a.cycles = <<cycle>> /\ a.wrong = agent.wrong
      /\ a.windows = agent.windows
  BY <1>2, <1>3, StampedFacts DEF Agents, CollectionSteps, records
<1> HIDE DEF a
<1>5. /\ Len(a.cycles) = 1 /\ a.cycles[1] = cycle /\ 1..Len(a.cycles) = {1}
      /\ a.cycles # <<>> /\ Last(a.cycles) = cycle
  BY <1>4 DEF Last
<1>c. CycleInv(a)
  <2>1. \A i \in 1..Len(a.cycles) : a.cycles[i] = cycle
    BY <1>5
  <2> QED
    BY <1>1, <1>2, <1>4, <1>5, <2>1 DEF CycleInv, ToProbes
<1>6. CycleInv(a) /\ WindowsInv(a)
  BY <1>0, <1>2, <1>4, <1>c DEF AInv, WindowsInv
<1>7. Last(a.cycles).failed = {} => \A p \in Traffic : p \in up
  BY <1>1, <1>5
<1> QED
  BY <1>0, <1>2, <1>4, <1>6, <1>7, FoundAlready, StepKeepsAInv

\* A confirmed gate has two cycles.
LEMMA SecondOf ==
    ASSUME NEW S, NEW one \in Seq(S), Len(one) = 1, NEW second \in S
    PROVE  LET two == Append(one, second) IN
           /\ two \in Seq(S) /\ Len(two) = 2 /\ two[1] = one[1] /\ two[2] = second
           /\ Last(two) = second /\ \A i \in 1..Len(two) : i = 1 \/ i = 2
<1> DEFINE two == Append(one, second)
<1>1. two \in Seq(S)
  OBVIOUS
<1>2. Len(two) = 2
  OBVIOUS
<1>3. two[1] = one[1] /\ two[2] = second
  <2>1. two[Len(one) + 1] = second /\ \A i \in 1..Len(one) : two[i] = one[i]
    <3>1. /\ \A i \in 1..Len(one) : Append(one, second)[i] = one[i]
          /\ Append(one, second)[Len(one) + 1] = second
      BY AppendProperties, ZenonT(30)
    <3> QED
      BY <3>1
  <2>2. 1 \in 1..Len(one) /\ Len(one) + 1 = 2
    OBVIOUS
  <2> HIDE DEF two
  <2> QED
    BY <2>1, <2>2
<1>4. Last(two) = second
  BY <1>2, <1>3 DEF Last
<1>5. \A i \in 1..Len(two) : i = 1 \/ i = 2
  BY <1>2
<1> QED
  BY <1>1, <1>2, <1>3, <1>4, <1>5 DEF two

LEMMA ConfirmProbesKeepsAInv == ASSUME NodeType, AInv(agent), ConfirmProbes PROVE AInv(agent')
<1> DEFINE cycle == Cycle
           cycles == Append(agent.cycles, cycle)
           a == [agent EXCEPT !.pc = "facts", !.cycles = cycles]
<1>0. agent' = a /\ agent.pc = "confirm"
  BY DEF ConfirmProbes, Collected, At_
<1>1. /\ cycle \in CycleRecords
      /\ GateFails(cycle) => cycle.down # {}
      /\ cycle.failed = {} => Traffic \subseteq up
  BY CycleFacts
<1> HIDE DEF cycle
<1> DEFINE records == CycleRecords
<1>r. cycle \in records
  BY <1>1
<1>2. agent.cycles \in Seq(records) /\ Len(agent.cycles) = 1 /\ GateFails(agent.cycles[1])
      /\ agent.cycles[1].down # {}
  BY <1>0 DEF AInv, Agents, CycleInv, ToProbes
<1> HIDE DEF records
<1>3. /\ cycles \in Seq(records) /\ Len(cycles) = 2 /\ cycles[1] = agent.cycles[1] /\ cycles[2] = cycle
      /\ Last(cycles) = cycle /\ \A i \in 1..Len(cycles) : i = 1 \/ i = 2
  BY <1>r, <1>2, SecondOf
<1> HIDE DEF cycles
<1>4. /\ a \in Agents /\ a.pc = "facts" /\ a.stamps = agent.stamps
      /\ a.inactive = agent.inactive /\ a.cycles = cycles /\ a.wrong = agent.wrong
      /\ a.windows = agent.windows
  BY <1>3 DEF AInv, Agents, CollectionSteps, records
<1> HIDE DEF a
<1>5. Last(a.cycles) = cycle /\ \A i \in 1..Len(a.cycles) : i = 1 \/ i = 2
  BY <1>3, <1>4
<1>c. CycleInv(a)
  <2>1. \A i \in 1..Len(a.cycles) : a.cycles[i].down # {} \/ a.cycles[i] = cycle
    BY <1>2, <1>3, <1>4, <1>5
  <2> QED
    BY <1>1, <1>2, <1>3, <1>4, <2>1 DEF CycleInv, ToProbes
<1>6. CycleInv(a) /\ WindowsInv(a)
  BY <1>0, <1>4, <1>c DEF AInv, WindowsInv
<1>7. Last(a.cycles).failed = {} => \A p \in Traffic : p \in up
  BY <1>1, <1>5
<1> QED
  BY <1>0, <1>4, <1>6, <1>7, FoundAlready, StepKeepsAInv

\* The collectors behind the probes add to what is wrong, and nothing to the cycles.
LEMMA LaterKeepsAInv ==
    ASSUME NodeType, AInv(agent), NEW a \in Agents,
           agent.pc \in {"facts", "network", "storage", "overlay", "sent"},
           a.pc \in {"network", "storage", "overlay", "sent", "judged"},
           a.stamps = agent.stamps \cup {now + skew} \/ a.stamps = agent.stamps,
           a.inactive = agent.inactive, a.cycles = agent.cycles, a.windows = agent.windows,
           agent.wrong \subseteq a.wrong,
           a.pc \in {"storage", "overlay", "sent", "judged"} /\ "profile" \notin a.wrong =>
              SeenBy(agent, "profile") \/ "profile" \in up,
           a.pc \in {"overlay", "sent", "judged"} /\ "disk" \notin a.wrong =>
              SeenBy(agent, "disk") \/ "disk" \in up
    PROVE  AInv(a)
<1>1. CycleInv(a) /\ WindowsInv(a)
  BY DEF AInv, CycleInv, WindowsInv, ToProbes
<1> QED
  BY <1>1, FoundAlready, StepKeepsAInv

LEMMA TransportsKeepsAInv == ASSUME NodeType, AInv(agent), Transports PROVE AInv(agent')
<1>0. agent.pc = "facts"
  BY DEF Transports, At_
<1> DEFINE found == IF (IF Gateway(plan) THEN "router" ELSE "hysteria") \in up THEN {} ELSE {"transport"}
           Heard(said) == [agent EXCEPT !.pc = "network", !.adaptation = said, !.wrong = @ \cup found]
<1>1. PICK said \in {"good", "unsettled", "maintenance", "failed"} :
          agent' \in {Heard(said), Stamped(Heard(said))}
  BY DEF Transports, Collected
<1>2. found \subseteq {"transport"}
  OBVIOUS
<1> HIDE DEF found
<1> DEFINE a == agent'
<1>3. /\ a \in Agents /\ a.pc = "network"
      /\ a.stamps = agent.stamps \cup {now + skew} \/ a.stamps = agent.stamps
      /\ a.inactive = agent.inactive /\ a.cycles = agent.cycles /\ agent.wrong \subseteq a.wrong
      /\ a.windows = agent.windows
  <2>1. CASE agent' = Heard(said)
    BY <1>2, <2>1 DEF AInv, Agents, CollectionSteps
  <2>2. CASE agent' = Stamped(Heard(said))
    <3> DEFINE h == Heard(said)
    <3>1. /\ h \in Agents /\ h.pc = "network" /\ h.stamps = agent.stamps
          /\ h.inactive = agent.inactive /\ h.cycles = agent.cycles /\ agent.wrong \subseteq h.wrong
          /\ h.windows = agent.windows
      BY <1>2 DEF AInv, Agents, CollectionSteps
    <3> HIDE DEF h
    <3>2. now + skew \in Int
      BY DEF NodeType
    <3>3. a = [h EXCEPT !.stamps = @ \cup {now + skew}]
      BY <2>2 DEF Stamped, h
    <3> QED
      BY <3>1, <3>2, <3>3 DEF Agents
  <2> QED
    BY <1>1, <2>1, <2>2
<1> HIDE DEF a
<1>4. AInv(a)
  BY <1>0, <1>3, LaterKeepsAInv
<1> QED
  BY <1>4 DEF a

LEMMA NetworkKeepsAInv == ASSUME NodeType, AInv(agent), Network PROVE AInv(agent')
<1> DEFINE a == [Stamped(agent) EXCEPT
              !.pc = "storage", !.wrong = @ \cup IF "profile" \in up THEN {} ELSE {"profile"}]
<1>0. agent' = a /\ agent.pc = "network"
  BY DEF Network, Collected, At_
<1>1. /\ a \in Agents /\ a.pc = "storage" /\ a.stamps = agent.stamps \cup {now + skew}
      /\ a.inactive = agent.inactive /\ a.cycles = agent.cycles /\ a.windows = agent.windows
      /\ a.wrong = agent.wrong \cup (IF "profile" \in up THEN {} ELSE {"profile"})
  BY StampedFacts DEF Agents, CollectionSteps
<1> HIDE DEF a
<1> QED
  BY <1>0, <1>1, LaterKeepsAInv

LEMMA StorageKeepsAInv == ASSUME NodeType, AInv(agent), Storage PROVE AInv(agent')
<1> DEFINE a == [Stamped(agent) EXCEPT
              !.pc = "overlay", !.wrong = @ \cup IF "disk" \in up THEN {} ELSE {"disk"}]
<1>0. agent' = a /\ agent.pc = "storage"
  BY DEF Storage, Collected, At_
<1>1. /\ a \in Agents /\ a.pc = "overlay" /\ a.stamps = agent.stamps \cup {now + skew}
      /\ a.inactive = agent.inactive /\ a.cycles = agent.cycles /\ a.windows = agent.windows
      /\ a.wrong = agent.wrong \cup (IF "disk" \in up THEN {} ELSE {"disk"})
  BY StampedFacts DEF Agents, CollectionSteps
<1> HIDE DEF a
<1>2. "profile" \notin a.wrong => SeenBy(agent, "profile")
  BY <1>0, <1>1, FoundAlready
<1> QED
  BY <1>0, <1>1, <1>2, LaterKeepsAInv

LEMMA FinishKeepsAInv == ASSUME NodeType, AInv(agent), Finish PROVE AInv(agent')
<1> DEFINE a == [Stamped(agent) EXCEPT !.pc = "sent"]
<1>0. agent' = a /\ agent.pc = "overlay"
  BY DEF Finish, Collected, At_
<1>1. /\ a \in Agents /\ a.pc = "sent" /\ a.stamps = agent.stamps \cup {now + skew}
      /\ a.inactive = agent.inactive /\ a.cycles = agent.cycles /\ a.windows = agent.windows
      /\ a.wrong = agent.wrong
  BY StampedFacts DEF Agents, CollectionSteps
<1> HIDE DEF a
<1>2. /\ "profile" \notin a.wrong => SeenBy(agent, "profile")
      /\ "disk" \notin a.wrong => SeenBy(agent, "disk")
  BY <1>0, <1>1, FoundAlready
<1> QED
  BY <1>0, <1>1, <1>2, LaterKeepsAInv

\* Judging ends the collection and leaves the snapshot as it is.
LEMMA JudgingKeepsAInv ==
    ASSUME NodeType, AInv(agent), At_("sent"), agent' = [agent EXCEPT !.pc = "judged"]
    PROVE  AInv(agent')
<1> DEFINE a == [agent EXCEPT !.pc = "judged"]
<1>0. agent.pc = "sent"
  BY DEF At_
<1>1. /\ a \in Agents /\ a.pc = "judged" /\ a.stamps = agent.stamps
      /\ a.inactive = agent.inactive /\ a.cycles = agent.cycles /\ a.windows = agent.windows
      /\ a.wrong = agent.wrong
  BY DEF AInv, Agents, CollectionSteps
<1> HIDE DEF a
<1>2. /\ "profile" \notin a.wrong => SeenBy(agent, "profile")
      /\ "disk" \notin a.wrong => SeenBy(agent, "disk")
  BY <1>0, <1>1, FoundAlready
<1>3. AInv(a)
  BY <1>0, <1>1, <1>2, LaterKeepsAInv
<1> QED
  BY <1>3 DEF a

LEMMA QuietKeepsJInv == ASSUME JInv, UNCHANGED jvars PROVE JInv'
<1>1. /\ clock' = clock /\ journal' = journal /\ starts' = starts /\ kept' = kept
      /\ release' = release /\ collector' = collector /\ troubles' = troubles
  BY DEF jvars
<1>2. JournalInv'
  BY <1>1 DEF JInv, JournalInv, Written
<1> QED
  BY <1>1, <1>2, JournalGrows DEF JInv, JournalInv

\* The report is all that is kept of a journal.
LEMMA LogsKeepsJInv == ASSUME JInv, Logs PROVE JInv'
<1>1. /\ collector' = Idle /\ clock' = Capture /\ journal' = <<>> /\ starts' = {1} /\ kept' = {}
      /\ release' = release
  BY DEF Logs
<1>2. /\ DOMAIN journal' = {} /\ Len(journal') = 0 /\ journal' \in Seq([stamp : Nat, kind : Kinds])
      /\ Capture \in Nat
  BY <1>1, JournalBounds
<1>3. JournalInv'
  BY <1>1, <1>2, IdleIsFresh DEF JInv, JournalInv
<1>4. ReadInv(collector)' /\ EvidenceInv(collector)'
  <2>1. Unread(Idle) /\ Idle.pc = "idle" /\ Idle.read = Nothing /\ \A s \in Stamps : Nothing[s] = 0
    BY DEF Idle, Unread, Nothing
  <2> QED
    BY <1>1, <2>1 DEF ReadInv, EvidenceInv, Unread
<1> QED
  BY <1>3, <1>4 DEF JInv

LEMMA CollectedKeepsSInv ==
    ASSUME SInv, agent.pc # "judged", AInv(agent'), JInv',
           UNCHANGED <<plan, selected, up, fell, now, skew, judged>>
    PROVE  SInv'
<1>1. NodeType'
  BY DEF SInv, NodeType
<1>2. AInv(agent)'
  BY DEF AInv, StampInv, CycleInv, SeenInv, WindowsInv, SeenBy, Traffic
<1>3. JudgedInv'
  BY DEF SInv, JudgedInv
<1> QED
  BY <1>1, <1>2, <1>3 DEF SInv

\* The parts and the clock change, the collection does not.
LEMMA WorldKeepsSInv ==
    ASSUME SInv, agent.pc # "judged", NodeType', now' >= now,
           agent.pc # "artifacts" => \A p : SeenBy(agent, p) => SeenBy(agent, p)',
           UNCHANGED <<plan, selected, skew, agent, judged, jvars>>
    PROVE  SInv'
<1>1. StampInv(agent)'
  <2>1. now \in Int /\ now' \in Int /\ skew \in Int /\ \A s \in agent.stamps : s \in Int
    BY DEF SInv, NodeType, AInv, Agents
  <2> QED
    BY <2>1 DEF SInv, AInv, StampInv
<1>2. CycleInv(agent)' /\ WindowsInv(agent)'
  BY DEF SInv, AInv, CycleInv, WindowsInv
<1>3. SeenInv(agent)'
  <2>1. agent.pc = "artifacts" => agent.cycles = <<>>
    BY DEF SInv, AInv, CycleInv, ToProbes
  <2> QED
    BY <2>1 DEF SInv, AInv, SeenInv, Traffic
<1>4. AInv(agent)'
  BY <1>1, <1>2, <1>3 DEF SInv, AInv
<1>5. JInv' /\ JudgedInv'
  BY QuietKeepsJInv DEF SInv, JudgedInv
<1> QED
  BY <1>4, <1>5 DEF SInv

LEMMA TickKeepsSInv == ASSUME SInv, Tick PROVE SInv'
<1>1. agent.pc # "judged" /\ now' = now + 1
      /\ UNCHANGED <<plan, selected, up, fell, skew, agent, judged, jvars>>
  BY DEF Tick, Collecting
<1>2. NodeType'
  BY <1>1 DEF SInv, NodeType
<1>3. now' >= now
  BY <1>1 DEF SInv, NodeType
<1> QED
  BY <1>1, <1>2, <1>3, WorldKeepsSInv DEF SeenBy

\* What has been stamped was stamped before the part fell.
LEMMA BreakKeepsSInv == ASSUME SInv, NEW part \in Fragile, Break(part) PROVE SInv'
<1>1. /\ agent.pc # "judged" /\ up' = up \ {part} /\ fell' = [fell EXCEPT ![part] = now]
      /\ UNCHANGED <<plan, selected, now, skew, agent, judged, jvars>>
  BY DEF Break, Collecting
<1>2. part \in NodeParts
  BY FragileAssumption
<1>3. fell' \in [NodeParts -> Nat \cup {None}] /\ fell'[part] = now
      /\ \A p : p # part => fell'[p] = fell[p]
  BY <1>1, <1>2 DEF SInv, NodeType
<1>4. NodeType'
  BY <1>1, <1>2, <1>3 DEF SInv, NodeType
<1>5. ASSUME agent.pc # "artifacts", NEW p, SeenBy(agent, p) PROVE SeenBy(agent, p)'
  <2>1. \E s \in agent.stamps : s <= now + skew
    BY <1>5 DEF SInv, AInv, StampInv
  <2>2. CASE p = part
    BY <1>1, <1>3, <2>1, <2>2 DEF SeenBy
  <2>3. CASE p # part
    BY <1>1, <1>3, <1>5, <2>3 DEF SeenBy
  <2> QED
    BY <2>2, <2>3
<1>6. now' >= now
  BY <1>1 DEF SInv, NodeType
<1> QED
  BY <1>1, <1>4, <1>5, <1>6, WorldKeepsSInv

LEMMA MendKeepsSInv == ASSUME SInv, NEW part \in Fragile, Mend(part) PROVE SInv'
<1>1. /\ agent.pc # "judged" /\ up' = up \cup {part} /\ fell' = [fell EXCEPT ![part] = None]
      /\ UNCHANGED <<plan, selected, now, skew, agent, judged, jvars>>
  BY DEF Mend, Collecting
<1>2. part \in NodeParts
  BY FragileAssumption
<1>3. fell' \in [NodeParts -> Nat \cup {None}] /\ \A p : p # part => fell'[p] = fell[p]
  BY <1>1, <1>2 DEF SInv, NodeType
<1>4. NodeType'
  BY <1>1, <1>2, <1>3 DEF SInv, NodeType
<1>5. ASSUME NEW p, SeenBy(agent, p) PROVE SeenBy(agent, p)'
  BY <1>1, <1>3, <1>5 DEF SeenBy
<1>6. now' >= now
  BY <1>1 DEF SInv, NodeType
<1> QED
  BY <1>1, <1>4, <1>5, <1>6, WorldKeepsSInv

\* A judgement is that of the snapshot it leaves.
LEMMA SnapshotStays ==
    ASSUME UNCHANGED <<plan, now, skew>>, NodeType, AInv(agent),
           agent' = agent \/ agent' = [agent EXCEPT !.pc = "judged"]
    PROVE  Record' = Record /\ Accepted' = Accepted
<1>1. /\ agent'.stamps = agent.stamps /\ agent'.inactive = agent.inactive
      /\ agent'.wrong = agent.wrong /\ agent'.cycles = agent.cycles
      /\ agent'.adaptation = agent.adaptation /\ agent'.clients = agent.clients
      /\ agent'.windows = agent.windows /\ agent'.logsError = agent.logsError
  BY DEF AInv, Agents
<1>2. ServerPath' = ServerPath /\ PublicFront' = PublicFront /\ HostIntegrity' = HostIntegrity
      /\ PublicQuic' = PublicQuic /\ Unsettled' = Unsettled
  BY <1>1 DEF ServerPath, PublicFront, PublicQuic, HostIntegrity, Unsettled
<1>3. AgentVerdict' = AgentVerdict
  BY <1>1, <1>2 DEF AgentVerdict
<1>4. RuntimeAccepted' = RuntimeAccepted
  BY <1>1, <1>2, <1>3 DEF RuntimeAccepted, PlannedMaintenance, OtherReasons, StaleBy
<1>5. Record' = Record
  BY <1>1, <1>2 DEF Record, Stale, StaleBy
<1> QED
  BY <1>1, <1>2, <1>4, <1>5 DEF Accepted

LEMMA JudgementKeepsSInv == ASSUME SInv, Judge \/ Accept PROVE SInv'
<1>1. /\ agent' = [agent EXCEPT !.pc = "judged"] /\ At_("sent")
      /\ UNCHANGED <<plan, selected, up, fell, now, skew, jvars>>
  BY DEF Judge, Accept
<1>2. AInv(agent')
  BY <1>1, JudgingKeepsAInv DEF SInv
<1>3. NodeType'
  BY <1>1 DEF SInv, NodeType
<1>4. AInv(agent)'
  BY <1>1, <1>2 DEF AInv, StampInv, CycleInv, SeenInv, WindowsInv, SeenBy, Traffic
<1>5. Record' = Record /\ Accepted' = Accepted /\ agent'.pc = "judged"
  BY <1>1, SnapshotStays DEF SInv, AInv, Agents
<1>6. JudgedInv'
  <2>1. CASE Judge
    BY <1>5, <2>1 DEF Judge, JudgedInv
  <2>2. CASE Accept
    BY <1>5, <2>2 DEF Accept, JudgedInv
  <2> QED
    BY <2>1, <2>2
<1> QED
  BY <1>1, <1>3, <1>4, <1>6, QuietKeepsJInv DEF SInv

LEMMA StutterKeepsSInv == ASSUME SInv, UNCHANGED <<svars, jvars>> PROVE SInv'
<1>1. UNCHANGED <<plan, selected, up, fell, now, skew, agent, judged, jvars>>
  BY DEF svars
<1>2. NodeType'
  BY <1>1 DEF SInv, NodeType
<1>3. AInv(agent)'
  BY <1>1 DEF SInv, AInv, StampInv, CycleInv, SeenInv, WindowsInv, SeenBy, Traffic
<1>4. Record' = Record /\ Accepted' = Accepted
  BY <1>1, SnapshotStays DEF SInv
<1>5. JudgedInv'
  BY <1>1, <1>4 DEF SInv, JudgedInv
<1> QED
  BY <1>1, <1>2, <1>3, <1>5, QuietKeepsJInv DEF SInv

\* Both ways a capture may begin.
LEMMA SInitKeepsSInv == SInit => SInv
<1> SUFFICES ASSUME SInit
             PROVE  SInv
  OBVIOUS
<1>1. /\ now \in Nat /\ skew \in Int /\ plan \in Plans /\ selected \in Selections(plan)
      /\ up = NodeParts /\ fell = [part \in NodeParts |-> None] /\ agent = NewCollection
      /\ judged = None
  <2>1. MaxNow \in Nat /\ Skews \subseteq Int
    BY SnapshotAssumption
  <2>2. now \in Nat
    BY <2>1 DEF SInit
  <2>3. skew \in Int
    <3>1. skew \in Skews \/ skew = 0
      BY DEF SInit
    <3>2. \A s \in Skews : s \in Int
      BY <2>1
    <3> QED
      BY <3>1, <3>2
  <2>4. /\ plan \in Plans /\ selected \in Selections(plan) /\ up = NodeParts
        /\ agent = NewCollection /\ judged = None /\ fell = [part \in NodeParts |-> None]
    BY DEF SInit
  <2> QED
    BY <2>2, <2>3, <2>4
<1>2. NodeType
  BY <1>1 DEF NodeType
<1>3. AInv(agent)
  <2>1. agent.pc = "artifacts" /\ agent.stamps = {} /\ agent.cycles = <<>> /\ Len(agent.cycles) = 0
    BY <1>1 DEF NewCollection
  <2>2. agent \in Agents
    BY <1>1 DEF NewCollection, Agents, CollectionSteps
  <2> QED
    BY <2>1, <2>2 DEF AInv, StampInv, CycleInv, SeenInv, WindowsInv, ToProbes
<1>4. JInv
  <2>1. CASE QuietJournal
    <3> DEFINE entry == [stamp |-> 1, kind |-> "other"]
    <3>1. /\ journal = <<entry>> /\ starts = {1} /\ kept = {1} /\ clock = Capture
          /\ release = Max(Releases) /\ collector = Idle /\ Capture \in Nat
      BY <2>1, JournalBounds DEF QuietJournal
    <3>2. entry \in [stamp : Nat, kind : Kinds] /\ Len(journal) = 1 /\ DOMAIN journal = {1}
          /\ journal \in Seq([stamp : Nat, kind : Kinds])
      BY <3>1 DEF Kinds
    <3>3. release \in Releases
      <4>1. \E i \in Releases : \A j \in Releases : j <= i
        <5>1. Releases \in SUBSET Nat /\ Releases # {} /\ \A j \in Releases : j <= Capture
          BY <3>1, JournalAssumption
        <5> QED
          BY <3>1, <5>1, GreatestOf
      <4> QED
        BY <3>1, <4>1 DEF Max
    <3>4. JournalInv
      BY <3>1, <3>2, <3>3, IdleIsFresh DEF JournalInv
    <3> QED
      BY <3>1, <3>4, IdleIsFresh DEF JInv
  <2> QED
    BY <2>1, JInitKeepsOrder DEF SInit
<1> QED
  BY <1>1, <1>2, <1>3, <1>4 DEF SInv, JudgedInv

LEMMA SNextKeepsSInv == SInv /\ [SNext]_<<svars, jvars>> => SInv'
<1> SUFFICES ASSUME SInv, [SNext]_<<svars, jvars>>
             PROVE  SInv'
  OBVIOUS
<1> DEFINE Collects ==
        \/ Artifacts \/ Services \/ Maintenance \/ TcpFront \/ RunProbes \/ ConfirmProbes
        \/ Transports \/ Network \/ Storage \/ Finish
<1>0. NodeType /\ AInv(agent) /\ JInv
  BY DEF SInv
<1>1. CASE Collects
  <2>1. AInv(agent')
    BY <1>0, <1>1, ArtifactsKeepsAInv, ServicesKeepsAInv, MaintenanceKeepsAInv, TcpFrontKeepsAInv,
       RunProbesKeepsAInv, ConfirmProbesKeepsAInv, TransportsKeepsAInv, NetworkKeepsAInv,
       StorageKeepsAInv, FinishKeepsAInv
  <2>2. agent.pc # "judged" /\ UNCHANGED <<plan, selected, up, fell, now, skew, judged, jvars>>
    BY <1>1 DEF Artifacts, Services, Maintenance, TcpFront, RunProbes, ConfirmProbes, Transports,
                Network, Storage, Finish, Collected, At_
  <2> QED
    BY <1>0, <2>1, <2>2, QuietKeepsJInv, CollectedKeepsSInv
<1>2. CASE ReadLogs
  <2>1. agent.pc # "judged" /\ UNCHANGED <<plan, selected, up, fell, now, skew, judged>> /\ Summarize
    BY <1>2 DEF ReadLogs, At_
  <2> QED
    BY <1>0, <1>2, <2>1, ReadLogsKeepsAInv, SummarizeKeepsJInv, CollectedKeepsSInv
<1>3. CASE Logs
  <2>1. agent.pc # "judged" /\ UNCHANGED <<plan, selected, up, fell, now, skew, judged>>
    BY <1>3 DEF Logs, At_
  <2> QED
    BY <1>0, <1>3, <2>1, LogsKeepsAInv, LogsKeepsJInv, CollectedKeepsSInv
<1>4. CASE Journal
  <2>1. /\ agent.pc # "judged" /\ UNCHANGED <<plan, selected, up, fell, now, skew, judged, agent>>
        /\ Journald
    BY <1>4 DEF Journal, At_, svars
  <2>2. AInv(agent')
    BY <1>0, <2>1
  <2> QED
    BY <1>0, <2>1, <2>2, JournaldKeepsJInv, CollectedKeepsSInv
<1>5. CASE Judge \/ Accept
  BY <1>5, JudgementKeepsSInv
<1>6. CASE Tick
  BY <1>6, TickKeepsSInv
<1>7. CASE \E part \in Fragile : Break(part) \/ Mend(part)
  BY <1>7, BreakKeepsSInv, MendKeepsSInv
<1>8. CASE UNCHANGED <<svars, jvars>>
  BY <1>8, StutterKeepsSInv
<1> QED
  BY <1>1, <1>2, <1>3, <1>4, <1>5, <1>6, <1>7, <1>8 DEF SNext

\* A collection (collect_runtime_facts) is well formed at every step, and what it has
\* found in order was in order after one of its stamps.
THEOREM SnapshotInvariance == SSpec => []SInv
<1> QED
  BY SInitKeepsSInv, SNextKeepsSInv, PTL DEF SSpec

\* A window that summarize_problem_windows calls complete counts every problem message of
\* every moment of it once, however journald rotates, vacuums and drops meanwhile and
\* whichever queries fail.
THEOREM WindowsCountOnce == SSpec => []WindowsAreExact
<1>1. SInv => WindowsAreExact
  BY ExactWindows DEF SInv
<1> QED
  BY <1>1, SnapshotInvariance, PTL

\* The judge's causes, by what the agent has found.
LEMMA OwnCauses ==
    /\ "verdicts" \in Record.hard <=>
          \/ "failed" \in {ServerPath, PublicFront, HostIntegrity}
          \/ Dual(plan) /\ PublicQuic # "verified"
    /\ "probes" \in Record.hard <=> GateFails(Last(agent.cycles))
    /\ "service" \in Record.hard <=> agent.inactive # {}
    /\ "other" \in Record.limited <=>
          \/ agent.clients = "shared"
          \/ ~GateFails(Last(agent.cycles)) /\ Last(agent.cycles).failed # {}
          \/ Unsettled
    /\ "client" \in Record.limited <=> agent.clients = "client"
    /\ "release" \in Record.unread <=> \E w \in {"short", "recent", "fresh"} : ~agent.windows[w]
    /\ "history" \in Record.unread <=> ~agent.windows["day"]
    /\ "snapshot" \in Record.aged <=> \E stamp \in agent.stamps : Stale(stamp)
<1> DEFINE cycle == Last(agent.cycles)
           If(cause, condition) == IF condition THEN {cause} ELSE {}
<1>1. \A cause, x : \A condition \in BOOLEAN : x \in If(cause, condition) <=> x = cause /\ condition
  OBVIOUS
<1>2. Record.hard = If("collector", agent.logsError)
                 \cup If("service", agent.inactive # {})
                 \cup If("drift", "drift" \in agent.wrong)
                 \cup If("network", "profile" \in agent.wrong)
                 \cup If("transport", agent.adaptation = "failed")
                 \cup If("verdicts", "failed" \in {ServerPath, PublicFront, HostIntegrity}
                                     \/ (Dual(plan) /\ PublicQuic # "verified"))
                 \cup If("probes", GateFails(cycle))
  BY DEF Record
<1>3. Record.limited = If("client", agent.clients = "client")
                    \cup If("other", agent.clients = "shared")
                    \cup If("other", ~GateFails(cycle) /\ cycle.failed # {})
                    \cup If("other", Unsettled)
  BY DEF Record
<1>4. Record.unread = If("release", \E w \in {"short", "recent", "fresh"} : ~agent.windows[w])
                   \cup If("history", ~agent.windows["day"])
  BY DEF Record
<1>5. Record.aged = If("snapshot", \E stamp \in agent.stamps : Stale(stamp))
  BY DEF Record
<1> QED
  BY <1>2, <1>3, <1>4, <1>5

\* The agent fails itself only for what the judge counts against it too.
LEMMA AgentAgrees ==
    ASSUME SInv, agent.pc = "judged"
    PROVE  /\ AgentVerdict \in Verdicts
           /\ AgentVerdict = "failed" => "verdicts" \in Record.hard
           /\ AgentVerdict = "degraded" => Record.hard # {} \/ Record.limited # {}
           /\ AgentVerdict = "inconclusive" => "release" \in Record.unread \/ "history" \in Record.unread
<1>1. agent.windows \in [WindowNames -> BOOLEAN] /\ agent.clients \in {"good", "client", "shared"}
  BY DEF SInv, AInv, WindowsInv, Agents
<1>2. AgentVerdict = "inconclusive" => \E w \in DOMAIN agent.windows : ~agent.windows[w]
  BY DEF AgentVerdict
<1>3. AgentVerdict = "inconclusive" => "release" \in Record.unread \/ "history" \in Record.unread
  BY <1>1, <1>2, OwnCauses DEF WindowNames
<1>4. PublicQuic = "failed" => ServerPath = "failed"
  BY DEF PublicQuic, ServerPath
<1>5. AgentVerdict = "failed" => "verdicts" \in Record.hard
  BY <1>4, OwnCauses DEF AgentVerdict
<1>6. PublicFront = "degraded" => agent.clients # "good"
  BY DEF PublicFront
<1>7. AgentVerdict = "degraded" => Record.hard # {} \/ Record.limited # {}
  BY <1>1, <1>6, OwnCauses DEF AgentVerdict
<1> QED
  BY <1>3, <1>5, <1>7 DEF AgentVerdict, Verdicts

\* What a clean snapshot says of the parts, by what its stamps say of their age.
LEMMA VerifiedParts ==
    ASSUME SInv, agent.pc = "judged", agent.inactive = {}, agent.wrong = {},
           Last(agent.cycles).failed = {}, NEW ahead \in {0, skew},
           \A stamp \in agent.stamps : ~StaleBy(ahead, stamp)
    PROVE  \A part \in Needed(plan, selected) \ up :
              now - fell[part] <= MaxAge + (IF ahead = skew THEN 0 ELSE skew)
<1> SUFFICES ASSUME NEW part \in Needed(plan, selected), part \notin up
             PROVE  now - fell[part] <= MaxAge + (IF ahead = skew THEN 0 ELSE skew)
  OBVIOUS
<1>1. NodeType /\ AInv(agent) /\ part \in NodeParts
      /\ part \in RequiredServices(plan) \cup {"files", "disk", "profile"} \cup Traffic
  BY PlanFacts DEF SInv
<1>2. agent.cycles # <<>>
  <2>1. Len(agent.cycles) \in {1, 2}
    BY <1>1 DEF AInv, CycleInv, ToProbes
  <2> QED
    BY <2>1
<1>3. SeenBy(agent, part)
  BY <1>1, <1>2 DEF AInv, SeenInv
<1>4. PICK s \in agent.stamps : s <= fell[part] + skew
  BY <1>3 DEF SeenBy
<1>5. now + ahead - s <= MaxAge
  <2>1. ~(now + ahead - s > MaxAge)
    BY <1>4 DEF StaleBy
  <2>2. now \in Int /\ ahead \in Int /\ s \in Int /\ MaxAge \in Int
    BY <1>1, SnapshotAssumption DEF NodeType, AInv, Agents
  <2> QED
    BY <2>1, <2>2
<1>6. now \in Int /\ ahead \in Int /\ s \in Int /\ MaxAge \in Int /\ skew \in Int
      /\ fell[part] \in Int
  BY <1>1, SnapshotAssumption DEF NodeType, AInv, Agents
<1>7. CASE ahead = skew
  BY <1>4, <1>5, <1>6, <1>7
<1>8. CASE ahead # skew
  BY <1>4, <1>5, <1>6, <1>8
<1> QED
  BY <1>7, <1>8

\* What VerdictIsJust says of a judgement follows from the snapshot it was made of.
LEMMA JustVerdicts == SInv => VerdictIsJust
<1> SUFFICES ASSUME SInv, judged # None
             PROVE  VerdictIsJust
  BY DEF VerdictIsJust
<1> DEFINE own == judged.by = "installer"
           distance == IF own THEN 0 ELSE skew
           unread == IF own THEN {"short", "recent", "day"}
                     ELSE IF judged.releaseOnly THEN {"day"} ELSE {}
<1>0. /\ agent.pc = "judged" /\ NodeType /\ AInv(agent)
      /\ agent.windows \in [WindowNames -> BOOLEAN]
  BY DEF SInv, JudgedInv, AInv, WindowsInv
<1>1. /\ \/ Len(agent.cycles) = 1 /\ ~GateFails(agent.cycles[1])
         \/ Len(agent.cycles) = 2 /\ GateFails(agent.cycles[1])
      /\ \A i \in 1..Len(agent.cycles) : GateFails(agent.cycles[i]) => agent.cycles[i].down # {}
  BY <1>0 DEF AInv, CycleInv, ToProbes
<1>2. CASE own
  <2>1. judged.releaseOnly = TRUE /\ judged.verdict = IF Accepted THEN "verified" ELSE "failed"
    BY <1>2 DEF SInv, JudgedInv
  <2>2. Accepted => Last(agent.cycles).failed = {}
    BY DEF Accepted, RuntimeAccepted, PlannedMaintenance, OtherReasons, AgentVerdict
  <2>3. Accepted => agent.inactive = {} /\ agent.wrong = {}
    <3>1. Accepted => ServerPath = "verified" /\ agent.inactive = {}
      BY DEF Accepted
    <3> QED
      BY <3>1 DEF ServerPath
  <2>4. Accepted => \A part \in Needed(plan, selected) \ up : now - fell[part] <= MaxAge + 0
    <3>1. Accepted => \A stamp \in agent.stamps : ~StaleBy(skew, stamp)
      BY DEF Accepted, RuntimeAccepted
    <3> QED
      BY <1>0, <2>2, <2>3, <3>1, VerifiedParts
  <2>5. Accepted => agent.windows["fresh"]
    BY DEF Accepted, RuntimeAccepted
  <2>6. \A w \in DOMAIN agent.windows : w = "fresh" \/ w \in {"short", "recent", "day"}
    BY <1>0 DEF WindowNames
  <2>7. \/ Rank(judged.verdict) >= Rank(AgentVerdict)
        \/ judged.releaseOnly /\ AgentVerdict = "inconclusive"
        \/ agent.adaptation = "maintenance" /\ AgentVerdict = "degraded"
    <3>1. CASE ~Accepted
      BY <1>0, <2>1, <3>1, AgentAgrees DEF Rank, Verdicts
    <3>2. CASE Accepted
      BY <2>1, <3>2 DEF Accepted, RuntimeAccepted, PlannedMaintenance, Rank
    <3> QED
      BY <3>1, <3>2
  <2> QED
    BY <1>2, <2>1, <2>2, <2>4, <2>5, <2>6, <2>7 DEF VerdictIsJust
<1>3. CASE ~own
  <2>1. judged.releaseOnly \in BOOLEAN /\ judged.verdict = NodeVerdict(Record, judged.releaseOnly)
    BY <1>3 DEF SInv, JudgedInv
  <2> DEFINE said == judged.verdict
             scope == judged.releaseOnly
  <2>2. /\ said = "verified" => Record.hard = {} /\ Record.limited = {}
              /\ InScope(Record.unread, scope) = {} /\ InScope(Record.aged, scope) = {}
        /\ Record.hard # {} \/ InScope(Record.unread, scope) # {} => said = "failed"
        /\ Record.limited # {} => said # "verified"
        /\ said \in Verdicts
    BY <2>1 DEF NodeVerdict, Verdicts
  <2>3. said = "verified" => agent.inactive = {} /\ agent.wrong = {}
    BY <2>2, OwnCauses DEF ServerPath
  <2>4. said = "verified" => Last(agent.cycles).failed = {}
    BY <2>2, OwnCauses
  <2>5. said = "verified" => \A stamp \in agent.stamps : ~StaleBy(0, stamp)
    <3>1. said = "verified" => "snapshot" \notin Record.aged
      BY <2>2 DEF InScope
    <3> QED
      BY <3>1, OwnCauses DEF Stale
  <2>6. said = "verified" =>
            \A part \in Needed(plan, selected) \ up : now - fell[part] <= MaxAge + skew
    <3>1. skew = 0 => MaxAge + skew = MaxAge + 0
      OBVIOUS
    <3> QED
      BY <1>0, <2>3, <2>4, <2>5, <3>1, VerifiedParts
  <2>7. said = "verified" => \A w \in DOMAIN agent.windows :
            agent.windows[w] \/ (scope /\ w = "day")
    <3>1. said = "verified" => "release" \notin Record.unread /\ ("history" \in Record.unread => scope)
      BY <2>2 DEF InScope
    <3> QED
      BY <1>0, <3>1, OwnCauses DEF WindowNames
  <2>8. "probes" \in Record.hard =>
            Len(agent.cycles) = 2 /\ \A i \in 1..2 : agent.cycles[i].down # {}
    <3>1. "probes" \in Record.hard => GateFails(agent.cycles[Len(agent.cycles)])
      BY OwnCauses DEF Last
    <3>2. ASSUME GateFails(agent.cycles[Len(agent.cycles)])
          PROVE  Len(agent.cycles) = 2 /\ GateFails(agent.cycles[1]) /\ GateFails(agent.cycles[2])
      BY <1>1, <3>2
    <3>3. \A i \in 1..2 : i = 1 \/ i = 2
      OBVIOUS
    <3> QED
      BY <1>1, <3>1, <3>2, <3>3
  <2>9. Rank(said) >= Rank(AgentVerdict) \/ (scope /\ AgentVerdict = "inconclusive")
    <3>1. CASE AgentVerdict = "verified"
      BY <2>2, <3>1 DEF Rank, Verdicts
    <3>2. CASE AgentVerdict = "failed"
      BY <1>0, <2>2, <3>2, AgentAgrees DEF Rank
    <3>3. CASE AgentVerdict = "degraded"
      <4>1. said # "verified"
        BY <1>0, <2>2, <3>3, AgentAgrees
      <4> QED
        BY <2>2, <3>3, <4>1 DEF Rank, Verdicts
    <3>4. CASE AgentVerdict = "inconclusive" /\ ~scope
      <4>1. InScope(Record.unread, scope) # {}
        BY <1>0, <3>4, AgentAgrees DEF InScope
      <4> QED
        BY <2>2, <3>4, <4>1 DEF Rank
    <3> QED
      BY <1>0, <3>1, <3>2, <3>3, <3>4, AgentAgrees DEF Verdicts
  <2> QED
    BY <1>3, <2>6, <2>7, <2>8, <2>9 DEF VerdictIsJust
<1> QED
  BY <1>2, <1>3

\* _verify_snapshot and verify_active_release: a verified snapshot is no older than it
\* says, a node fails on its probes alone only when two cycles had something down, and no
\* judge is milder than the agent but for what its scope leaves out.
THEOREM JudgementIsJust == SSpec => []VerdictIsJust
<1> QED
  BY JustVerdicts, SnapshotInvariance, PTL
===============================================================================
