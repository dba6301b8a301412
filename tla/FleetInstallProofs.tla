--------------------------- MODULE FleetInstallProofs ---------------------------
(***************************************************************************)
(* Proofs about FleetInstall for any deployment, any releases and any      *)
(* number of sessions: what the last session told its operator is true.    *)
(*                                                                         *)
(* A report looks back over the whole session, so the invariant says what  *)
(* the session has made of every node it has left behind: installed it     *)
(* (InstalledInv), brought it back (UndoneInv), or not touched it          *)
(* (UpgradeInv).  That this stays true while it goes on rests on idle      *)
(* nodes doing nothing by themselves, and on what the session has seen of  *)
(* the node it is at (SeenInv).                                            *)
(***************************************************************************)
EXTENDS FleetInstall, Integers, FiniteSetTheorems, WellFoundedInduction, TLAPS

\* A session is at a node, before it has decided what became of it.
Busy == {"baseline", "dispatch", "await", "wait", "preflight", "check"}
Upgrading == session.mode \in {"install", "maintain"}

\* A unit that may restore has a snapshot to restore.
UnitInv ==
    \A n \in Nodes : node[n].unit.stage \in {"captured", "cut", "undo", "copy", "restored"} =>
        node[n].undo # NoSnapshot

\* Which stage belongs to which work, and which nodes it is about.
WorkInv ==
    /\ session.pc = "idle" => session = NoSession
    /\ session.todo \subseteq session.wanted /\ session.changed \subseteq session.wanted
    /\ session.undoing => /\ session.mode \in {"install", "rollback"}
                          /\ session.todo \subseteq session.changed
    /\ session.mode = "rollback" /\ session.pc \notin {"idle", "prepare", "ask"} => session.undoing
    /\ session.pc \in {"prepare", "ask"} => ~session.undoing /\ session.changed = {}
    /\ session.pc = "ask" => session.mode = "rollback" /\ session.todo = session.wanted
    /\ session.pc \in {"baseline", "settle"} => Upgrading /\ ~session.undoing
    /\ session.pc = "settle" => session.mode = "install"
    /\ session.pc \in {"wait", "preflight"} => Upgrading \/ session.undoing
    /\ session.pc = "check" => session.undoing
    /\ session.pc = "verify" => /\ Upgrading \/ session.undoing
                                /\ session.mode # "maintain" => session.todo = {}
                                /\ session.undoing => ~session.failures
    /\ session.pc \in Busy \cup {"settle"} =>
          /\ session.at \in session.wanted \ session.todo
          /\ session.undoing => session.at \in session.changed

InPlace(n) ==
    /\ Idle(n) /\ node[n].current = session.target /\ node[n].accepted = session.target
    /\ ~node[n].drift

\* Every node the session has been through has the release, for good.
InstalledInv ==
    Upgrading /\ ~session.undoing /\ session.pc # "prepare" =>
        \A n \in session.wanted \ session.todo :
            n # session.at \/ session.pc \notin Busy => InPlace(n)

\* A rollback without a failure has every node behind it where it found it.
UndoneInv ==
    session.undoing /\ ~session.failures =>
        \A n \in session.changed \ session.todo :
            n # session.at \/ session.pc \notin Busy =>
                Idle(n) /\ node[n].current = session.prev[n]

\* What the last poll has seen of the node is still so, or it has seen nothing.
SeenInv ==
    LET Now == Idle(session.at) /\ session.seen = Seen(session.at) IN
    /\ session.pc \in {"baseline", "dispatch", "await"} => session.seen = Unseen
    /\ session.pc = "wait" => session.seen = Unseen \/ Now
    /\ session.pc = "preflight" => Now

\* A node that had a release counts as changed, is being changed, or has it still.
UpgradeInv ==
    session.mode = "install" =>
        \A n \in Nodes : session.base[n].current # None =>
            \/ n \in session.changed
            \/ /\ n = session.at /\ ~session.undoing
               /\ session.pc \in {"await", "wait", "preflight"}
            \/ Idle(n) /\ node[n].current = session.base[n].current

IInv == TypeOK /\ UnitInv /\ WorkInv /\ InstalledInv /\ UndoneInv /\ SeenInv /\ UpgradeInv
-----------------------------------------------------------------------------
(* The order of the nodes: a session always finds a next one. *)

\* In a finite set one member is the greatest, by descent through the sets of greater ones.
LEMMA Greatest ==
    ASSUME NEW S, IsFiniteSet(S), S # {}, NEW f \in [S -> Int]
    PROVE  \E n \in S : \A m \in S : f[m] <= f[n]
<1> DEFINE Above(n) == {m \in S : f[m] > f[n]}
           T == {Above(n) : n \in S}
<1>1. T \subseteq FiniteSubsetsOf(S) /\ T # {}
  <2>1. FiniteSubsetsOf(S) = SUBSET S
    BY FS_FiniteSubsetsOfFinite
  <2>2. T \subseteq SUBSET S
    OBVIOUS
  <2>3. PICK n \in S : TRUE
    OBVIOUS
  <2>4. Above(n) \in T
    OBVIOUS
  <2> HIDE DEF T
  <2> QED
    BY <2>1, <2>2, <2>4
<1>2. IsWellFoundedOn(StrictSubsetOrdering(S), FiniteSubsetsOf(S))
  BY FS_StrictSubsetOrderingWellFounded
<1>3. PICK A \in T : \A B \in T : ~(<<B, A>> \in StrictSubsetOrdering(S))
  BY <1>1, <1>2, WFMin
<1>4. PICK n \in S : A = Above(n)
  OBVIOUS
<1>5. ASSUME NEW m \in S, f[m] > f[n]
      PROVE  FALSE
  <2>1. Above(m) \subseteq Above(n) /\ m \in Above(n) /\ m \notin Above(m)
    BY <1>5
  <2>2. <<Above(m), Above(n)>> \in StrictSubsetOrdering(S)
    BY <2>1 DEF StrictSubsetOrdering
  <2> QED
    BY <1>3, <1>4, <2>2
<1> QED
  BY <1>5

LEMMA NextNodeIsLeft ==
    ASSUME TypeOK, session.todo # {}
    PROVE  NextNode \in session.todo /\ LookedAt \in session.todo
<1> DEFINE S == session.todo
           up == [n \in S |-> Rank[n]]
           down == [n \in S |-> -Rank[n]]
<1>1. S \subseteq Nodes /\ IsFiniteSet(S)
  BY FS_Subset, FleetAssumption DEF TypeOK, Session
<1>2. \A n \in S : Rank[n] \in Nat
  BY <1>1, FleetAssumption
<1>3. up \in [S -> Int] /\ down \in [S -> Int]
  BY <1>2
<1>4. \E n \in S : \A m \in S : up[m] <= up[n]
  BY <1>1, <1>3, Greatest
<1>5. \E n \in S : \A m \in S : down[m] <= down[n]
  BY <1>1, <1>3, Greatest
<1>6. \E n \in S : \A m \in S : Rank[m] <= Rank[n]
  BY <1>4
<1>7. \E n \in S : \A m \in S : Rank[n] <= Rank[m]
  <2>1. PICK n \in S : \A m \in S : down[m] <= down[n]
    BY <1>5
  <2>2. ASSUME NEW m \in S
        PROVE  Rank[n] <= Rank[m]
    <3>1. -Rank[m] <= -Rank[n]
      BY <2>1
    <3> QED
      BY <1>2, <3>1
  <2> QED
    BY <2>2
<1>8. Last(S) \in S /\ First(S) \in S
  BY <1>6, <1>7 DEF First, Last
<1> QED
  BY <1>8 DEF NextNode, LookedAt
-----------------------------------------------------------------------------
LEMMA NoSessionType == NoSession \in Session
  BY FleetAssumption DEF NoSession, Session, Unseen, View, Undo, NoneOr, AllModes

LEMMA NodeKinds ==
    /\ Fresh \in Node /\ NoUnit \in Unit
    /\ \A release \in NoneOr(Releases) : Settled(release) \in Node
    /\ \A release \in NoneOr(Releases), target \in Releases : StillRuns(release, target) \in Node
<1>1. Fresh \in Node /\ NoUnit \in Unit
  BY DEF Fresh, NoUnit, Node, Unit, Undo, NoneOr
<1>2. ASSUME NEW release \in NoneOr(Releases)
      PROVE  Settled(release) \in Node
  BY <1>1, <1>2 DEF Settled, Fresh, Node, Undo, NoneOr
<1>3. ASSUME NEW release \in NoneOr(Releases), NEW target \in Releases
      PROVE  StillRuns(release, target) \in Node
  <2>1. [NoUnit EXCEPT !.target = target, !.stage = "begun"] \in Unit
    BY <1>1 DEF NoUnit, Unit, NoneOr
  <2> QED
    BY <1>2, <2>1 DEF StillRuns, Node
<1> QED
  BY <1>1, <1>2, <1>3

LEMMA InitIInv == Init => IInv
<1> SUFFICES ASSUME Init PROVE IInv
  OBVIOUS
<1>1. PICK release \in Before : \A n \in Nodes : node[n] \in FirstSeen(n, release)
  BY DEF Init
<1>2. release \in NoneOr(Releases)
  BY FleetAssumption DEF NoneOr
<1>3. \A n \in Nodes : node[n] \in Node
  BY <1>1, <1>2, NodeKinds DEF FirstSeen
<1>4. \A n \in Nodes : node[n].unit.stage \in {"none", "begun"}
  <2>1. Settled(release).unit = NoUnit
    BY DEF Settled, Fresh
  <2>2. \A target \in Releases : StillRuns(release, target).unit.stage = "begun"
    <3>1. Settled(release) \in Node
      BY <1>2, NodeKinds
    <3> QED
      BY <3>1 DEF StillRuns, NoUnit, Node
  <2> QED
    BY <1>1, <2>1, <2>2 DEF FirstSeen, NoUnit
<1>5. node \in [Nodes -> Node]
  BY <1>3 DEF Init
<1>6. TypeOK
  BY <1>5, NoSessionType, FleetAssumption DEF Init, TypeOK, Reports
<1>7. UnitInv
  BY <1>4 DEF UnitInv
<1>8. WorkInv /\ InstalledInv /\ UndoneInv /\ SeenInv /\ UpgradeInv
  BY DEF Init, NoSession, Unseen, Busy, WorkInv, InstalledInv, UndoneInv, SeenInv, UpgradeInv
<1> QED
  BY <1>6, <1>7, <1>8 DEF IInv
-----------------------------------------------------------------------------
(* The nodes: only a node with a unit changes. *)

LEMMA UnitSteps ==
    ASSUME TypeOK, UnitInv, NEW n \in Nodes, NodeStep(n) \/ Fail(n) \/ Kill(n)
    PROVE  /\ ~Idle(n) /\ UNCHANGED <<session, report, sessions>>
           /\ \A m \in Nodes : m # n => node'[m] = node[m]
           /\ node'[n] \in Node
           /\ node'[n].unit.stage \in {"captured", "cut", "undo", "copy", "restored"} =>
                  node'[n].undo # NoSnapshot
           /\ node' \in [Nodes -> Node]
<1>1. node \in [Nodes -> Node] /\ node[n] \in Node /\ node[n].unit \in Unit
  BY DEF TypeOK, Node
<1>2. \A ok \in BOOLEAN : Ended(ok) \in Unit /\ Ended(ok).stage = "none"
  BY NodeKinds DEF Ended, NoUnit, Unit
<1>3. \A stage \in {"captured", "cut", "undo", "copy", "restored"} :
         ToStage(n, stage) \in Unit /\ ToStage(n, stage).stage = stage
  BY <1>1 DEF ToStage, Unit
<1>4. NoSnapshot \notin NoneOr(Releases)
  BY FleetAssumption DEF NoneOr
<1>5. CASE Capture(n)
  BY <1>1, <1>3, <1>4, <1>5 DEF Capture, At, OnlyNode, Idle, Node, Undo
<1>6. CASE BeginRollback(n)
  BY <1>1, <1>2, <1>3, <1>6 DEF BeginRollback, At, OnlyNode, Idle, Node
<1>7. CASE Cutover(n)
  BY <1>1, <1>3, <1>7 DEF Cutover, At, OnlyNode, Idle, Node, Unit, UnitInv
<1>8. CASE Commit(n)
  BY <1>1, <1>2, <1>8 DEF Commit, At, OnlyNode, Idle, Node, Unit
<1>9. CASE DropLinks(n)
  BY <1>1, <1>3, <1>9 DEF DropLinks, At, OnlyNode, Idle, Node, NoneOr, UnitInv
<1>10. CASE CopyLinks(n)
  <2>1. ~Idle(n) /\ UNCHANGED <<session, report, sessions>>
    BY <1>10 DEF CopyLinks, At, OnlyNode, Idle
  <2>2. node[n].undo \in NoneOr(Releases)
    BY <1>1, <1>10 DEF CopyLinks, At, UnitInv, Node, Undo
  <2>3. None \in NoneOr(Releases)
    BY DEF NoneOr
  <2>4. PICK changed \in Node : node' = [node EXCEPT ![n] = changed] /\
               (changed.unit.stage \in {"captured", "cut", "undo", "copy", "restored"} =>
                   changed.undo = node[n].undo)
    <3>1. CASE node[n].unit.action = "trap"
      <4>1. PICK drift \in BOOLEAN :
               node' = [node EXCEPT ![n].current = node[n].undo, ![n].drift = drift,
                                    ![n].unit = Ended(FALSE)]
        BY <1>10, <3>1 DEF CopyLinks
      <4> DEFINE changed == [node[n] EXCEPT !.current = node[n].undo, !.drift = drift,
                                            !.unit = Ended(FALSE)]
      <4>2. changed \in Node /\ changed.undo = node[n].undo
        BY <1>1, <1>2, <2>2 DEF Node
      <4>3. node' = [node EXCEPT ![n] = changed]
        BY <1>1, <4>1 DEF Node
      <4> QED
        BY <4>2, <4>3
    <3>2. CASE node[n].unit.action = "remove"
      <4> DEFINE changed == [node[n] EXCEPT !.current = None, !.accepted = None, !.drift = FALSE,
                                            !.unit = Ended(TRUE)]
      <4>2. changed \in Node /\ changed.undo = node[n].undo
        BY <1>1, <1>2, <2>3 DEF Node
      <4>3. node' = [node EXCEPT ![n] = changed]
        BY <1>1, <1>10, <3>2 DEF CopyLinks, Node
      <4> QED
        BY <4>2, <4>3
    <3>3. CASE node[n].unit.action = "rollback"
      <4> DEFINE changed == [node[n] EXCEPT !.current = node[n].undo,
                                            !.unit = ToStage(n, "restored")]
      <4>2. changed \in Node /\ changed.undo = node[n].undo
        BY <1>1, <1>3, <2>2 DEF Node
      <4>3. node' = [node EXCEPT ![n] = changed]
        BY <1>1, <1>10, <3>3 DEF CopyLinks, Node
      <4> QED
        BY <4>2, <4>3
    <3> QED
      BY <1>10, <3>1, <3>2, <3>3 DEF CopyLinks
  <2>5. node[n].undo # NoSnapshot
    BY <1>4, <2>2
  <2> QED
    BY <1>1, <2>1, <2>4, <2>5
<1>11. CASE AcceptRollback(n)
  BY <1>1, <1>2, <1>11 DEF AcceptRollback, At, OnlyNode, Idle, Node
<1>12. CASE Fail(n)
  BY <1>1, <1>2, <1>12 DEF Fail, At, OnlyNode, Idle, Node, Unit, UnitInv
<1>13. CASE Kill(n)
  BY <1>1, <1>2, <1>13 DEF Kill, OnlyNode, Idle, Node
<1> QED
  BY <1>5, <1>6, <1>7, <1>8, <1>9, <1>10, <1>11, <1>12, <1>13 DEF NodeStep

LEMMA UnitStep ==
    ASSUME IInv, NEW n \in Nodes, NodeStep(n) \/ Fail(n) \/ Kill(n)
    PROVE  IInv'
<1>1. TypeOK /\ UnitInv
  BY DEF IInv
<1>2. /\ ~Idle(n) /\ UNCHANGED <<session, report, sessions>>
      /\ \A m \in Nodes : m # n => node'[m] = node[m]
  BY <1>1, UnitSteps
<1>3. TypeOK' /\ UnitInv'
  BY <1>1, UnitSteps DEF TypeOK, UnitInv
<1>4. WorkInv'
  BY <1>2 DEF IInv, WorkInv, Upgrading
<1>5. \A m \in Nodes : Idle(m) => node'[m] = node[m] /\ Idle(m)' /\ Seen(m)' = Seen(m)
  BY <1>2 DEF Idle, Seen
<1>6. session.wanted \subseteq Nodes /\ session.changed \subseteq Nodes /\ session.at \in Nodes
  BY <1>1 DEF TypeOK, Session
<1>7. InstalledInv'
  BY <1>2, <1>5, <1>6 DEF IInv, InstalledInv, Upgrading, InPlace
<1>8. UndoneInv'
  BY <1>2, <1>5, <1>6 DEF IInv, UndoneInv
<1>9. SeenInv'
  BY <1>2, <1>5, <1>6 DEF IInv, SeenInv
<1>10. UpgradeInv'
  BY <1>2, <1>5 DEF IInv, UpgradeInv
<1> QED
  BY <1>3, <1>4, <1>7, <1>8, <1>9, <1>10 DEF IInv
-----------------------------------------------------------------------------
(* The session: its steps, and what it reports when it ends. *)

\* Every node that had a release counts as changed or has it still, and no unit.
NothingLost(changed) ==
    session.mode = "install" =>
        \A n \in Nodes : session.base[n].current # None =>
            n \in changed \/ (Idle(n) /\ node[n].current = session.base[n].current)

\* What a session that ends knows when it makes its report.
Ending ==
    session.pc # "idle" /\ session'.pc = "idle" =>
        \/ report' \in {"none", "removed", "rollback failed"}
        \/ report' = "failed" /\ NothingLost(session.changed)
        \/ /\ report' = "rolled back" /\ session.undoing /\ ~session.failures
           /\ session.todo = {} /\ session.pc \notin Busy
        \/ /\ report' = "installed" /\ Upgrading /\ ~session.undoing
           /\ session.todo = {} /\ session.pc \notin Busy \cup {"prepare"}

LEMMA EndStep ==
    ASSUME IInv, NEW r \in Reports, End(r)
    PROVE  IInv' /\ session'.pc = "idle" /\ report' = r
<1>1. session' = NoSession /\ report' = r /\ UNCHANGED <<node, sessions>>
  BY DEF End
<1>2. TypeOK' /\ UnitInv'
  BY <1>1, NoSessionType DEF IInv, TypeOK, UnitInv
<1>3. WorkInv'
  BY <1>1 DEF NoSession, WorkInv, Busy, Upgrading
<1>4. InstalledInv' /\ UndoneInv' /\ SeenInv' /\ UpgradeInv'
  BY <1>1 DEF NoSession, Unseen, Busy, InstalledInv, UndoneInv, SeenInv, UpgradeInv
<1>5. session'.pc = "idle"
  BY <1>1 DEF NoSession
<1> QED
  BY <1>1, <1>2, <1>3, <1>4, <1>5 DEF IInv

\* A failure turns an installation to the rollback of what counts as changed.
LEMMA RaiseStep ==
    ASSUME IInv, session.pc # "idle", ~session.undoing, NEW changed \in SUBSET session.wanted,
           session.changed \subseteq changed, NothingLost(changed), Raise(changed)
    PROVE  IInv' /\ Ending
<1>1. CASE session.mode = "install" /\ changed # {}
  <2>1. /\ session' = [session EXCEPT !.pc = "next", !.undoing = TRUE, !.todo = changed,
                                      !.changed = changed, !.tries = 0]
        /\ UNCHANGED <<node, report, sessions>>
    BY <1>1 DEF Raise, Local
  <2>2. TypeOK
    BY DEF IInv
  <2>3. session' \in Session
    <3>1. 0 \in 0..(Attempts - 1) /\ changed \in SUBSET Nodes
      BY <2>2, FleetAssumption DEF TypeOK, Session
    <3> QED
      BY <2>1, <2>2, <3>1 DEF TypeOK, Session
  <2>4. /\ session'.pc = "next" /\ session'.undoing /\ session'.todo = changed
        /\ session'.changed = changed /\ session'.mode = "install"
        /\ session'.wanted = session.wanted /\ session'.base = session.base
    BY <1>1, <2>1, <2>2 DEF TypeOK, Session
  <2>5. TypeOK' /\ UnitInv'
    BY <2>1, <2>3 DEF IInv, TypeOK, UnitInv
  <2>6. WorkInv'
    BY <2>4 DEF WorkInv, Busy
  <2>7. InstalledInv' /\ UndoneInv' /\ SeenInv'
    BY <2>4 DEF InstalledInv, UndoneInv, SeenInv
  <2>8. UpgradeInv'
    BY <1>1, <2>1, <2>4 DEF UpgradeInv, NothingLost, Idle
  <2> QED
    BY <2>4, <2>5, <2>6, <2>7, <2>8 DEF IInv, Ending
<1>2. CASE ~(session.mode = "install" /\ changed # {})
  <2>1. End("failed")
    BY <1>2 DEF Raise
  <2>2. NothingLost(session.changed)
    BY <1>2 DEF NothingLost
  <2> QED
    BY <2>1, <2>2, EndStep DEF Reports, Ending
<1> QED
  BY <1>1, <1>2

LEMMA FailedStep ==
    ASSUME IInv, session.pc # "idle", Failed,
           session.undoing \/ session.mode # "install" \/ session.pc \notin {"await", "wait", "preflight"}
    PROVE  IInv' /\ Ending
<1>1. CASE session.undoing
  <2>1. /\ session' = [session EXCEPT !.pc = "next", !.failures = TRUE]
        /\ UNCHANGED <<node, report, sessions>>
    BY <1>1 DEF Failed, Local
  <2>2. TypeOK
    BY DEF IInv
  <2>3. session' \in Session
    BY <2>1, <2>2 DEF TypeOK, Session
  <2>4. /\ session'.pc = "next" /\ session'.undoing /\ session'.failures
        /\ session'.todo = session.todo /\ session'.changed = session.changed
        /\ session'.mode = session.mode /\ session'.wanted = session.wanted
        /\ session'.base = session.base
    BY <1>1, <2>1, <2>2 DEF TypeOK, Session
  <2>5. TypeOK' /\ UnitInv'
    BY <2>1, <2>3 DEF IInv, TypeOK, UnitInv
  <2>6. WorkInv'
    BY <1>1, <2>4 DEF IInv, WorkInv, Busy
  <2>7. InstalledInv' /\ UndoneInv' /\ SeenInv'
    BY <2>4 DEF InstalledInv, UndoneInv, SeenInv
  <2>8. UpgradeInv'
    BY <1>1, <2>1, <2>4 DEF IInv, UpgradeInv, Idle
  <2> QED
    BY <2>4, <2>5, <2>6, <2>7, <2>8 DEF IInv, Ending
<1>2. CASE ~session.undoing
  <2>1. Raise(session.changed)
    BY <1>2 DEF Failed
  <2>2. session.changed \in SUBSET session.wanted
    BY DEF IInv, WorkInv
  <2>3. NothingLost(session.changed)
    BY <1>2 DEF IInv, UpgradeInv, NothingLost
  <2> QED
    BY <1>2, <2>1, <2>2, <2>3, RaiseStep
<1> QED
  BY <1>1, <1>2

LEMMA StartStep ==
    ASSUME IInv, NEW mode \in Modes, NEW targets \in SUBSET Nodes, Start(mode, targets)
    PROVE  IInv' /\ Ending
<1>1. /\ session.pc = "idle" /\ sessions < MaxSessions
      /\ session' = [NoSession EXCEPT !.pc = "prepare", !.mode = mode, !.wanted = targets,
                                      !.todo = targets]
      /\ report' = "none" /\ sessions' = sessions + 1 /\ UNCHANGED node
  BY DEF Start
<1>2. session' \in Session
  BY <1>1, NoSessionType, FleetAssumption DEF Session
<1>3. /\ session'.pc = "prepare" /\ session'.mode = mode /\ session'.wanted = targets
      /\ session'.todo = targets /\ session'.changed = {} /\ session'.undoing = FALSE
      /\ session'.base = [n \in Nodes |-> Unseen]
  BY <1>1 DEF NoSession
<1>4. TypeOK' /\ UnitInv'
  <2>1. sessions' \in 0..MaxSessions
    BY <1>1, FleetAssumption DEF IInv, TypeOK
  <2> QED
    BY <1>1, <1>2, <2>1 DEF IInv, TypeOK, Reports, UnitInv
<1>5. WorkInv' /\ InstalledInv' /\ UndoneInv' /\ SeenInv'
  BY <1>3 DEF WorkInv, InstalledInv, UndoneInv, SeenInv, Busy
<1>6. UpgradeInv'
  BY <1>3 DEF UpgradeInv, Unseen
<1> QED
  BY <1>1, <1>4, <1>5, <1>6 DEF IInv, Ending

LEMMA LookStep ==
    ASSUME IInv, Look
    PROVE  IInv' /\ Ending
<1>1. /\ session.pc = "prepare" /\ session.todo # {}
      /\ session' = [session EXCEPT !.prev[LookedAt] = Preflight(LookedAt).release,
                                    !.todo = @ \ {LookedAt}]
      /\ UNCHANGED <<node, report, sessions>>
  BY DEF Look, Looking, Local
<1>2. TypeOK
  BY DEF IInv
<1>3. LookedAt \in session.todo
  BY <1>1, <1>2, NextNodeIsLeft
<1>4. Preflight(LookedAt).release \in Undo
  BY <1>2, <1>3 DEF TypeOK, Session, Node, Preflight, Undo
<1>5. session' \in Session
  BY <1>1, <1>2, <1>4 DEF TypeOK, Session
<1>6. /\ session'.pc = "prepare" /\ session'.mode = session.mode
      /\ session'.wanted = session.wanted /\ session'.todo = session.todo \ {LookedAt}
      /\ session'.changed = session.changed /\ session'.undoing = session.undoing
      /\ session'.base = session.base
  BY <1>1, <1>2 DEF TypeOK, Session
<1>7. TypeOK' /\ UnitInv'
  BY <1>1, <1>5 DEF IInv, TypeOK, UnitInv
<1>8. WorkInv' /\ InstalledInv' /\ UndoneInv' /\ SeenInv'
  BY <1>1, <1>6 DEF IInv, WorkInv, InstalledInv, UndoneInv, SeenInv, Busy
<1>9. UpgradeInv'
  BY <1>1, <1>6 DEF IInv, UpgradeInv, Idle
<1> QED
  BY <1>6, <1>7, <1>8, <1>9 DEF IInv, Ending

\* A first look that fails, or finds another environment, ends a session that has changed nothing.
LEMMA LookFailsStep ==
    ASSUME IInv, LookFails \/ EnvDrifts
    PROVE  IInv' /\ Ending
<1>1. session.pc = "prepare" /\ End("failed")
  BY DEF LookFails, Looking, EnvDrifts
<1>2. NothingLost(session.changed)
  BY <1>1 DEF IInv, UpgradeInv, NothingLost
<1> QED
  BY <1>1, <1>2, EndStep DEF Reports, Ending

LEMMA ChooseStep ==
    ASSUME IInv, NEW wanted \in SUBSET Nodes, NEW release \in Releases, Choose(wanted, release)
    PROVE  IInv' /\ Ending
<1>1. CASE wanted = {}
  <2>1. End("none")
    BY <1>1 DEF Choose
  <2> QED
    BY <2>1, EndStep DEF Reports, Ending
<1>2. CASE wanted # {}
  <2>1. /\ session.pc = "prepare"
        /\ session' = [session EXCEPT
               !.pc = IF session.mode = "rollback" THEN "ask" ELSE "next",
               !.wanted = wanted, !.todo = wanted,
               !.target = IF session.mode \in {"install", "maintain"} THEN release ELSE None]
        /\ UNCHANGED <<node, report, sessions>>
    BY <1>2 DEF Choose, Local
  <2>2. TypeOK
    BY DEF IInv
  <2>3. session' \in Session
    <3>1. (IF session.mode \in {"install", "maintain"} THEN release ELSE None) \in NoneOr(Releases)
      BY DEF NoneOr
    <3> QED
      BY <2>1, <2>2, <3>1 DEF TypeOK, Session
  <2>4. /\ session'.pc = IF session.mode = "rollback" THEN "ask" ELSE "next"
        /\ session'.mode = session.mode /\ session'.wanted = wanted /\ session'.todo = wanted
        /\ session'.changed = session.changed /\ session'.undoing = session.undoing
        /\ session'.base = session.base
    BY <2>1, <2>2 DEF TypeOK, Session
  <2>5. TypeOK' /\ UnitInv'
    BY <2>1, <2>3 DEF IInv, TypeOK, UnitInv
  <2>6. WorkInv'
    BY <2>1, <2>4 DEF IInv, WorkInv, Busy
  <2>7. InstalledInv' /\ UndoneInv' /\ SeenInv'
    BY <2>1, <2>4 DEF IInv, WorkInv, InstalledInv, UndoneInv, SeenInv
  <2>8. UpgradeInv'
    BY <2>1, <2>4 DEF IInv, UpgradeInv, Idle
  <2> QED
    BY <2>4, <2>5, <2>6, <2>7, <2>8 DEF IInv, Ending
<1> QED
  BY <1>1, <1>2

LEMMA TakeNodeStep ==
    ASSUME IInv, TakeNode
    PROVE  IInv' /\ Ending
<1>1. /\ session.pc = "next" /\ session.todo # {}
      /\ session' = [session EXCEPT !.at = NextNode, !.todo = @ \ {NextNode}, !.seen = Unseen,
                                    !.pc = IF Installing THEN "baseline" ELSE "dispatch"]
      /\ UNCHANGED <<node, report, sessions>>
  BY DEF TakeNode, Local
<1>2. TypeOK
  BY DEF IInv
<1>3. NextNode \in session.todo
  BY <1>1, <1>2, NextNodeIsLeft
<1>4. Unseen \in View
  BY DEF Unseen, View, Undo, NoneOr
<1>5. session' \in Session
  BY <1>1, <1>2, <1>3, <1>4 DEF TypeOK, Session
<1>6. /\ session'.pc = IF Installing THEN "baseline" ELSE "dispatch"
      /\ session'.mode = session.mode /\ session'.wanted = session.wanted
      /\ session'.todo = session.todo \ {NextNode} /\ session'.at = NextNode
      /\ session'.changed = session.changed /\ session'.undoing = session.undoing
      /\ session'.failures = session.failures /\ session'.target = session.target
      /\ session'.base = session.base /\ session'.prev = session.prev /\ session'.seen = Unseen
  BY <1>1, <1>2 DEF TypeOK, Session
<1>7. TypeOK' /\ UnitInv'
  BY <1>1, <1>5 DEF IInv, TypeOK, UnitInv
<1>8. WorkInv'
  BY <1>1, <1>3, <1>6 DEF IInv, WorkInv, Busy, Installing, Upgrading
<1>9. InstalledInv'
  BY <1>1, <1>6 DEF IInv, InstalledInv, InPlace, Idle, Busy, Upgrading
<1>10. UndoneInv'
  BY <1>1, <1>6 DEF IInv, UndoneInv, Idle, Busy
<1>11. SeenInv'
  BY <1>6 DEF SeenInv
<1>12. UpgradeInv'
  BY <1>1, <1>6 DEF IInv, UpgradeInv, Idle
<1> QED
  BY <1>6, <1>7, <1>8, <1>9, <1>10, <1>11, <1>12 DEF IInv, Ending

LEMMA AskStep ==
    ASSUME IInv, Ask
    PROVE  IInv' /\ Ending
<1>1. /\ session.pc = "ask"
      /\ session' = [session EXCEPT !.pc = "next", !.undoing = TRUE, !.changed = session.wanted,
             !.prev = [n \in Nodes |-> IF n \in session.wanted THEN node[n].undo ELSE None]]
      /\ UNCHANGED <<node, report, sessions>>
  BY DEF Ask, Local
<1>2. TypeOK
  BY DEF IInv
<1>3. [n \in Nodes |-> IF n \in session.wanted THEN node[n].undo ELSE None] \in [Nodes -> Undo]
  BY <1>2 DEF TypeOK, Node, Undo, NoneOr
<1>4. session' \in Session
  BY <1>1, <1>2, <1>3 DEF TypeOK, Session
<1>5. /\ session'.pc = "next" /\ session'.mode = session.mode /\ session'.wanted = session.wanted
      /\ session'.todo = session.todo /\ session'.changed = session.wanted /\ session'.undoing
  BY <1>1, <1>2 DEF TypeOK, Session
<1>6. session.mode = "rollback" /\ session.todo = session.wanted
  BY <1>1 DEF IInv, WorkInv
<1>7. TypeOK' /\ UnitInv'
  BY <1>1, <1>4 DEF IInv, TypeOK, UnitInv
<1>8. WorkInv'
  BY <1>5, <1>6 DEF WorkInv, Busy
<1>9. InstalledInv' /\ UndoneInv' /\ SeenInv' /\ UpgradeInv'
  BY <1>5, <1>6 DEF InstalledInv, UndoneInv, SeenInv, UpgradeInv
<1> QED
  BY <1>5, <1>7, <1>8, <1>9 DEF IInv, Ending

LEMMA BaselineStep ==
    ASSUME IInv, Baseline
    PROVE  IInv' /\ Ending
<1>1. /\ session.pc = "baseline" /\ Idle(session.at)
      /\ session' = [session EXCEPT !.pc = "dispatch", !.base[session.at] = Seen(session.at)]
      /\ UNCHANGED <<node, report, sessions>>
  BY DEF Baseline, Here
<1>2. TypeOK
  BY DEF IInv
<1>3. session.at \in Nodes /\ Seen(session.at) \in View
  BY <1>2 DEF TypeOK, Session, Node, Seen, View
<1>4. session' \in Session
  BY <1>1, <1>2, <1>3 DEF TypeOK, Session
<1>5. /\ session'.pc = "dispatch" /\ session'.mode = session.mode
      /\ session'.wanted = session.wanted /\ session'.todo = session.todo
      /\ session'.at = session.at /\ session'.changed = session.changed
      /\ session'.undoing = session.undoing /\ session'.failures = session.failures
      /\ session'.target = session.target /\ session'.seen = session.seen
      /\ session'.base = [session.base EXCEPT ![session.at] = Seen(session.at)]
  BY <1>1, <1>2 DEF TypeOK, Session
<1>6. TypeOK' /\ UnitInv'
  BY <1>1, <1>4 DEF IInv, TypeOK, UnitInv
<1>7. WorkInv'
  BY <1>1, <1>5 DEF IInv, WorkInv, Busy
<1>8. InstalledInv'
  BY <1>1, <1>5 DEF IInv, InstalledInv, InPlace, Idle, Busy, Upgrading
<1>9. UndoneInv' /\ SeenInv'
  BY <1>1, <1>5 DEF IInv, WorkInv, UndoneInv, SeenInv
<1>10. UpgradeInv'
  <2>1. session.base \in [Nodes -> View]
    BY <1>2 DEF TypeOK, Session
  <2> QED
    BY <1>1, <1>3, <1>5, <2>1 DEF IInv, UpgradeInv, Idle, Seen
<1> QED
  BY <1>5, <1>6, <1>7, <1>8, <1>9, <1>10 DEF IInv, Ending

LEMMA BaselineFailsStep ==
    ASSUME IInv, BaselineFails
    PROVE  IInv' /\ Ending
  BY FailedStep DEF BaselineFails

\* The node the session is at gets a unit; the others stay as they are.
LEMMA DispatchStep ==
    ASSUME IInv, Dispatch
    PROVE  IInv' /\ Ending
<1> DEFINE unit == [action |-> Action, stage |-> "begun", ok |-> TRUE,
                    target |-> IF Action = "install" THEN session.target ELSE None]
<1>1. /\ session.pc = "dispatch" /\ node' = [node EXCEPT ![session.at].unit = unit]
      /\ session' = [session EXCEPT !.pc = "await"] /\ UNCHANGED <<report, sessions>>
  BY DEF Dispatch, Goto, Here
<1>2. TypeOK
  BY DEF IInv
<1>3. session.at \in Nodes /\ session.target \in NoneOr(Releases) /\ node \in [Nodes -> Node]
  BY <1>2 DEF TypeOK, Session
<1>4. unit \in Unit /\ unit.stage = "begun"
  BY <1>3 DEF Action, Unit, NoneOr
<1> HIDE DEF unit
<1>5. /\ node'[session.at] \in Node /\ node'[session.at].unit.stage = "begun"
      /\ node' \in [Nodes -> Node]
      /\ \A m \in Nodes : m # session.at => node'[m] = node[m]
  BY <1>1, <1>3, <1>4 DEF Node
<1>6. session' \in Session
  BY <1>1, <1>2 DEF TypeOK, Session
<1>7. /\ session'.pc = "await" /\ session'.mode = session.mode
      /\ session'.wanted = session.wanted /\ session'.todo = session.todo
      /\ session'.at = session.at /\ session'.changed = session.changed
      /\ session'.undoing = session.undoing /\ session'.failures = session.failures
      /\ session'.target = session.target /\ session'.seen = session.seen
      /\ session'.base = session.base /\ session'.prev = session.prev
  BY <1>1, <1>2 DEF TypeOK, Session
<1>8. TypeOK' /\ UnitInv'
  BY <1>1, <1>5, <1>6 DEF IInv, TypeOK, UnitInv
<1>9. WorkInv'
  BY <1>1, <1>7 DEF IInv, WorkInv, Busy
<1>10. session.wanted \subseteq Nodes /\ session.changed \subseteq Nodes
  BY <1>2 DEF TypeOK, Session
<1>11. InstalledInv'
  BY <1>1, <1>5, <1>7, <1>10 DEF IInv, InstalledInv, InPlace, Idle, Busy, Upgrading
<1>12. UndoneInv'
  BY <1>1, <1>5, <1>7, <1>10 DEF IInv, UndoneInv, Idle, Busy
<1>13. SeenInv'
  BY <1>1, <1>7 DEF IInv, SeenInv
<1>14. UpgradeInv'
  BY <1>1, <1>5, <1>7 DEF IInv, WorkInv, UpgradeInv, Idle, Busy
<1> QED
  BY <1>7, <1>8, <1>9, <1>11, <1>12, <1>13, <1>14 DEF IInv, Ending

\* Steps of a call or a wait, after which the session is still at the same node.
LEMMA CommandStep ==
    ASSUME IInv, CommandFails \/ CommandReturns
    PROVE  IInv' /\ Ending
<1>1. CASE session.pc \in {"dispatch", "await"} /\ ~session.undoing /\ ~Installing /\ Failed
  <2>1. session.mode # "install"
    BY <1>1 DEF Installing
  <2> QED
    BY <1>1, <2>1, FailedStep
<1>2. CASE /\ session.pc \in {"dispatch", "await"} /\ (session.undoing \/ Installing)
           /\ Goto("wait") /\ Local
  <2>1. session' = [session EXCEPT !.pc = "wait"] /\ UNCHANGED <<node, report, sessions>>
    BY <1>2 DEF Goto, Local
  <2>2. TypeOK
    BY DEF IInv
  <2>3. session' \in Session
    BY <2>1, <2>2 DEF TypeOK, Session
  <2>4. /\ session'.pc = "wait" /\ session'.mode = session.mode
        /\ session'.wanted = session.wanted /\ session'.todo = session.todo
        /\ session'.at = session.at /\ session'.changed = session.changed
        /\ session'.undoing = session.undoing /\ session'.failures = session.failures
        /\ session'.target = session.target /\ session'.seen = session.seen
        /\ session'.base = session.base /\ session'.prev = session.prev
    BY <2>1, <2>2 DEF TypeOK, Session
  <2>5. TypeOK' /\ UnitInv'
    BY <2>1, <2>3 DEF IInv, TypeOK, UnitInv
  <2>6. WorkInv'
    BY <1>2, <2>4 DEF IInv, WorkInv, Busy, Installing, Upgrading
  <2>7. InstalledInv'
    BY <1>2, <2>1, <2>4 DEF IInv, InstalledInv, InPlace, Idle, Busy, Upgrading
  <2>8. UndoneInv'
    BY <1>2, <2>1, <2>4 DEF IInv, UndoneInv, Idle, Busy
  <2>9. SeenInv'
    BY <1>2, <2>1, <2>4 DEF IInv, SeenInv
  <2>10. UpgradeInv'
    BY <1>2, <2>1, <2>4 DEF IInv, UpgradeInv, Idle
  <2> QED
    BY <2>4, <2>5, <2>6, <2>7, <2>8, <2>9, <2>10 DEF IInv, Ending
<1>3. CASE CommandReturns
  <2> DEFINE pc == IF session.undoing THEN "check" ELSE IF Installing THEN "wait" ELSE "next"
  <2>1. session.pc = "await" /\ session' = [session EXCEPT !.pc = pc] /\ UNCHANGED <<node, report, sessions>>
    BY <1>3 DEF CommandReturns, Goto, Local
  <2>2. TypeOK
    BY DEF IInv
  <2>3. session' \in Session
    BY <2>1, <2>2 DEF TypeOK, Session
  <2>4. /\ session'.pc = pc /\ session'.mode = session.mode
        /\ session'.wanted = session.wanted /\ session'.todo = session.todo
        /\ session'.at = session.at /\ session'.changed = session.changed
        /\ session'.undoing = session.undoing /\ session'.failures = session.failures
        /\ session'.target = session.target /\ session'.seen = session.seen
        /\ session'.base = session.base /\ session'.prev = session.prev
    BY <2>1, <2>2 DEF TypeOK, Session
  <2>5. TypeOK' /\ UnitInv'
    BY <2>1, <2>3 DEF IInv, TypeOK, UnitInv
  <2>6. WorkInv'
    BY <2>1, <2>4 DEF IInv, WorkInv, Busy, Installing, Upgrading
  <2>7. InstalledInv'
    BY <2>1, <2>4 DEF IInv, InstalledInv, InPlace, Idle, Busy, Upgrading, Installing
  <2>8. UndoneInv'
    BY <2>1, <2>4 DEF IInv, UndoneInv, Idle, Busy
  <2>9. SeenInv'
    BY <2>1, <2>4 DEF IInv, SeenInv
  <2>10. UpgradeInv'
    BY <2>1, <2>4 DEF IInv, UpgradeInv, WorkInv, Idle, Installing, Busy
  <2> QED
    BY <2>4, <2>5, <2>6, <2>7, <2>8, <2>9, <2>10 DEF IInv, Ending
<1> QED
  BY <1>1, <1>2, <1>3 DEF CommandFails

LEMMA PollStep ==
    ASSUME IInv, PollBusy \/ PollIdle \/ PreflightFails
    PROVE  IInv' /\ Ending
<1>1. TypeOK /\ session.at \in Nodes
  BY DEF IInv, TypeOK, Session
<1>2. Unseen \in View /\ Seen(session.at) \in View
  BY <1>1 DEF TypeOK, Node, Seen, Unseen, View, Undo, NoneOr
<1>3. session.pc \in {"wait", "preflight"} /\ UNCHANGED <<node, report, sessions>>
  BY DEF PollBusy, PollIdle, PreflightFails, Local
<1>4. PICK pc \in {"wait", "preflight"}, seen \in View :
         /\ session' = [session EXCEPT !.pc = pc, !.seen = seen]
         /\ \/ pc = "wait" /\ seen = Unseen
            \/ Idle(session.at) /\ seen = Seen(session.at)
  <2>1. CASE PollBusy
    BY <1>1, <1>2, <2>1 DEF PollBusy, TypeOK, Session
  <2>2. CASE PollIdle
    BY <1>1, <1>2, <2>2 DEF PollIdle, Here
  <2>3. CASE PreflightFails
    BY <1>1, <1>2, <2>3 DEF PreflightFails, Goto, IInv, SeenInv, TypeOK, Session
  <2> QED
    BY <2>1, <2>2, <2>3
<1>5. session' \in Session
  BY <1>1, <1>4 DEF TypeOK, Session
<1>6. /\ session'.pc = pc /\ session'.mode = session.mode
      /\ session'.wanted = session.wanted /\ session'.todo = session.todo
      /\ session'.at = session.at /\ session'.changed = session.changed
      /\ session'.undoing = session.undoing /\ session'.failures = session.failures
      /\ session'.target = session.target /\ session'.seen = seen
      /\ session'.base = session.base /\ session'.prev = session.prev
  BY <1>1, <1>4 DEF TypeOK, Session
<1>7. TypeOK' /\ UnitInv'
  BY <1>1, <1>3, <1>5 DEF IInv, TypeOK, UnitInv
<1>8. WorkInv'
  BY <1>3, <1>6 DEF IInv, WorkInv, Busy, Upgrading
<1>9. InstalledInv'
  BY <1>3, <1>6 DEF IInv, InstalledInv, InPlace, Idle, Busy, Upgrading
<1>10. UndoneInv'
  BY <1>3, <1>6 DEF IInv, UndoneInv, Idle, Busy
<1>11. SeenInv'
  BY <1>3, <1>4, <1>6 DEF SeenInv, Idle, Seen
<1>12. UpgradeInv'
  BY <1>3, <1>6 DEF IInv, UpgradeInv, Idle
<1> QED
  BY <1>6, <1>7, <1>8, <1>9, <1>10, <1>11, <1>12 DEF IInv, Ending

\* An answer that never came, or differs from the first, makes the node count as changed.
LEMMA ChangeIsSeen ==
    ASSUME IInv, session.pc \in {"wait", "preflight"}, ~session.undoing
    PROVE  /\ WithHere \in SUBSET session.wanted /\ session.changed \subseteq WithHere
           /\ NothingLost(WithHere)
<1>1. session.at \in session.wanted /\ session.changed \subseteq session.wanted
  BY DEF IInv, WorkInv, Busy
<1>2. ASSUME session.mode = "install", NEW n \in Nodes, session.base[n].current # None,
             n \notin WithHere
      PROVE  Idle(n) /\ node[n].current = session.base[n].current
  <2>1. CASE n = session.at
    <3>1. session.base[n].current = session.seen.current
      BY <1>2, <2>1 DEF WithHere, Here, CutoverObserved
    <3>2. session.seen # Unseen
      BY <1>2, <3>1 DEF Unseen
    <3> QED
      BY <2>1, <3>1, <3>2 DEF IInv, SeenInv, Seen
  <2>2. CASE n # session.at
    <3>1. n \notin session.changed
      BY <1>2 DEF WithHere
    <3> QED
      BY <1>2, <2>2, <3>1 DEF IInv, UpgradeInv
  <2> QED
    BY <2>1, <2>2
<1> QED
  BY <1>1, <1>2 DEF WithHere, Here, NothingLost

LEMMA TimesOutStep ==
    ASSUME IInv, TimesOut
    PROVE  IInv' /\ Ending
<1>1. CASE session.undoing
  BY <1>1, FailedStep DEF TimesOut
<1>2. CASE ~session.undoing
  BY <1>2, ChangeIsSeen, RaiseStep DEF TimesOut
<1> QED
  BY <1>1, <1>2

LEMMA JudgeStep ==
    ASSUME IInv, Judge
    PROVE  IInv' /\ Ending
<1>1. session.pc = "preflight" /\ Upgrading /\ ~session.undoing
  BY DEF Judge, Installing, Upgrading
<1>2. CASE ~Confirmed(session.at)
  BY <1>1, <1>2, ChangeIsSeen, RaiseStep DEF Judge, Here
<1>3. CASE Confirmed(session.at)
  <2>1. /\ session' = [session EXCEPT
               !.pc = IF session.mode = "install" THEN "settle" ELSE "verify",
               !.changed = IF session.mode = "install" THEN @ \cup {session.at} ELSE @]
        /\ UNCHANGED <<node, report, sessions>>
    BY <1>3 DEF Judge, Here, Local
  <2>2. TypeOK
    BY DEF IInv
  <2>3. session' \in Session
    BY <2>1, <2>2 DEF TypeOK, Session
  <2>4. /\ session'.pc = IF session.mode = "install" THEN "settle" ELSE "verify"
        /\ session'.changed = IF session.mode = "install" THEN session.changed \cup {session.at}
                                                          ELSE session.changed
        /\ session'.mode = session.mode /\ session'.wanted = session.wanted
        /\ session'.todo = session.todo /\ session'.at = session.at
        /\ session'.undoing = session.undoing /\ session'.target = session.target
        /\ session'.base = session.base
    BY <2>1, <2>2 DEF TypeOK, Session
  <2>5. TypeOK' /\ UnitInv'
    BY <2>1, <2>3 DEF IInv, TypeOK, UnitInv
  <2>6. WorkInv'
    BY <1>1, <2>4 DEF IInv, WorkInv, Busy, Upgrading
  <2>7. InPlace(session.at)
    <3>1. Idle(session.at)
      BY <1>1 DEF IInv, SeenInv
    <3> QED
      BY <1>3, <3>1 DEF Confirmed, Preflight, InPlace
  <2>8. InstalledInv'
    BY <1>1, <2>1, <2>4, <2>7 DEF IInv, InstalledInv, InPlace, Idle, Busy, Upgrading
  <2>9. UndoneInv' /\ SeenInv'
    BY <1>1, <2>4 DEF UndoneInv, SeenInv
  <2>10. UpgradeInv'
    BY <1>1, <2>1, <2>4 DEF IInv, UpgradeInv, Idle
  <2> QED
    BY <2>4, <2>5, <2>6, <2>8, <2>9, <2>10 DEF IInv, Ending
<1> QED
  BY <1>2, <1>3

LEMMA SettleFailsStep ==
    ASSUME IInv, SettleFails
    PROVE  IInv' /\ Ending
<1>1. session.pc = "settle" /\ Raise(session.changed)
  BY DEF SettleFails
<1>2. ~session.undoing /\ session.changed \in SUBSET session.wanted
  BY <1>1 DEF IInv, WorkInv
<1>3. NothingLost(session.changed)
  BY <1>1 DEF IInv, UpgradeInv, NothingLost
<1> QED
  BY <1>1, <1>2, <1>3, RaiseStep

LEMMA CheckFailsStep ==
    ASSUME IInv, CheckFails \/ (Check /\ ~RolledBack(Here))
    PROVE  IInv' /\ Ending
<1>1. session.pc = "check" /\ Failed
  BY DEF CheckFails, Check
<1> QED
  BY <1>1, FailedStep

\* The steps that only move the session on.
LEMMA GotoStep ==
    ASSUME IInv, NEW pc, Goto(pc), Local,
           \/ Reconciled /\ pc = "check"
           \/ Settle /\ pc = "next"
           \/ Check /\ RolledBack(Here) /\ pc = "next"
           \/ Finish /\ pc = "verify" /\ session.undoing /\ ~session.failures
           \/ Finish /\ pc = "verify" /\ ~session.undoing /\ session.mode = "install"
    PROVE  IInv' /\ Ending
<1>1. session' = [session EXCEPT !.pc = pc] /\ UNCHANGED <<node, report, sessions>>
  BY DEF Goto, Local
<1>2. TypeOK /\ pc \in {"check", "next", "verify"}
  BY DEF IInv
<1>3. session' \in Session
  BY <1>1, <1>2 DEF TypeOK, Session
<1>4. /\ session'.pc = pc /\ session'.mode = session.mode
      /\ session'.wanted = session.wanted /\ session'.todo = session.todo
      /\ session'.at = session.at /\ session'.changed = session.changed
      /\ session'.undoing = session.undoing /\ session'.failures = session.failures
      /\ session'.target = session.target /\ session'.base = session.base
      /\ session'.prev = session.prev
  BY <1>1, <1>2 DEF TypeOK, Session
<1>5. TypeOK' /\ UnitInv'
  BY <1>1, <1>3 DEF IInv, TypeOK, UnitInv
<1>6. session.pc \in {"preflight", "settle", "check", "next"} /\ SeenInv'
  BY <1>2, <1>4 DEF Reconciled, Settle, Check, Finish, SeenInv
<1>7. WorkInv'
  BY <1>4, <1>6 DEF IInv, WorkInv, Reconciled, Settle, Check, Finish, Busy, Upgrading
<1>8. InstalledInv'
  BY <1>1, <1>4 DEF IInv, InstalledInv, WorkInv, InPlace, Idle, Reconciled, Settle, Check, Finish, Busy, Upgrading
<1>9. UndoneInv'
  BY <1>1, <1>4 DEF IInv, UndoneInv, WorkInv, RolledBack, Preflight, Here, Idle, Reconciled, Settle, Check, Finish, Busy
<1>10. UpgradeInv'
  BY <1>1, <1>4 DEF IInv, UpgradeInv, Idle, Reconciled, Settle, Check, Finish
<1> QED
  BY <1>2, <1>4, <1>5, <1>6, <1>7, <1>8, <1>9, <1>10 DEF IInv, Ending

LEMMA FinishStep ==
    ASSUME IInv, Finish
    PROVE  IInv' /\ Ending
<1>1. session.pc = "next" /\ session.todo = {} /\ session.mode \in AllModes
  BY DEF Finish, IInv, TypeOK, Session
<1>2. session.mode = "rollback" => session.undoing
  BY <1>1 DEF IInv, WorkInv
<1>3. CASE session.undoing
  <2>1. CASE session.failures
    <3>1. End("rollback failed")
      BY <1>3, <2>1 DEF Finish
    <3> QED
      BY <3>1, EndStep DEF Reports, Ending
  <2>2. CASE ~session.failures /\ (Goto("verify") /\ Local)
    BY <1>3, <2>2, GotoStep
  <2>3. CASE ~session.failures /\ End("rolled back")
    BY <1>1, <1>3, <2>3, EndStep DEF Reports, Ending, Busy
  <2> QED
    BY <1>3, <2>1, <2>2, <2>3 DEF Finish
<1>4. CASE ~session.undoing
  <2>1. CASE session.mode = "install"
    <3>1. Goto("verify") /\ Local
      BY <1>4, <2>1 DEF Finish
    <3> QED
      BY <1>4, <2>1, <3>1, GotoStep
  <2>2. CASE session.mode = "maintain"
    <3>1. End("installed")
      BY <1>4, <2>2 DEF Finish
    <3> QED
      BY <1>1, <1>4, <2>2, <3>1, EndStep DEF Reports, Ending, Busy, Upgrading
  <2>3. CASE session.mode = "remove"
    <3>1. End("removed")
      BY <1>4, <2>3 DEF Finish
    <3> QED
      BY <3>1, EndStep DEF Reports, Ending
  <2> QED
    BY <1>1, <1>2, <1>4, <2>1, <2>2, <2>3 DEF AllModes
<1> QED
  BY <1>3, <1>4

LEMMA VerifyPassesStep ==
    ASSUME IInv, VerifyPasses
    PROVE  IInv' /\ Ending
<1>1. session.pc = "verify" /\ TypeOK
  BY DEF VerifyPasses, IInv
<1>2. CASE session.undoing
  <2>1. End("rolled back")
    BY <1>2 DEF VerifyPasses
  <2>2. session.mode \in {"install", "rollback"} /\ ~session.failures
    BY <1>1, <1>2 DEF IInv, WorkInv
  <2>3. session.todo = {}
    BY <1>1, <2>2 DEF IInv, WorkInv
  <2> QED
    BY <1>1, <1>2, <2>1, <2>2, <2>3, EndStep DEF Reports, Ending, Busy
<1>3. CASE ~session.undoing /\ session.mode = "install"
  <2>1. End("installed")
    BY <1>3 DEF VerifyPasses
  <2>2. session.todo = {}
    BY <1>1, <1>3 DEF IInv, WorkInv
  <2> QED
    BY <1>1, <1>3, <2>1, <2>2, EndStep DEF Reports, Ending, Busy, Upgrading
<1>4. CASE ~session.undoing /\ session.mode # "install"
  <2>1. /\ session' = [session EXCEPT !.pc = "next", !.tries = 0]
        /\ UNCHANGED <<node, report, sessions>>
    BY <1>4 DEF VerifyPasses, Local
  <2>2. session' \in Session
    <3>1. 0 \in 0..(Attempts - 1)
      BY FleetAssumption
    <3> QED
      BY <1>1, <2>1, <3>1 DEF TypeOK, Session
  <2>3. /\ session'.pc = "next" /\ session'.mode = session.mode
        /\ session'.wanted = session.wanted /\ session'.todo = session.todo
        /\ session'.at = session.at /\ session'.changed = session.changed
        /\ session'.undoing = session.undoing /\ session'.target = session.target
    BY <1>1, <2>1 DEF TypeOK, Session
  <2>4. TypeOK' /\ UnitInv'
    BY <2>1, <2>2 DEF IInv, TypeOK, UnitInv
  <2>5. WorkInv'
    BY <1>1, <1>4, <2>3 DEF IInv, WorkInv, Busy
  <2>6. InstalledInv'
    BY <1>1, <2>1, <2>3 DEF IInv, InstalledInv, InPlace, Idle, Busy, Upgrading
  <2>7. UndoneInv' /\ SeenInv' /\ UpgradeInv'
    BY <1>4, <2>3 DEF UndoneInv, SeenInv, UpgradeInv
  <2> QED
    BY <2>3, <2>4, <2>5, <2>6, <2>7 DEF IInv, Ending
<1> QED
  BY <1>2, <1>3, <1>4

LEMMA VerifyFailsStep ==
    ASSUME IInv, VerifyFails
    PROVE  IInv' /\ Ending
<1>1. session.pc = "verify" /\ TypeOK
  BY DEF VerifyFails, IInv
<1>2. CASE MoreAttempts
  <2>1. session' = [session EXCEPT !.tries = @ + 1] /\ UNCHANGED <<node, report, sessions>>
    BY <1>2 DEF VerifyFails, Local
  <2>2. session' \in Session
    <3>1. session.tries + 1 \in 0..(Attempts - 1)
      BY <1>1, <1>2, FleetAssumption DEF MoreAttempts, TypeOK, Session
    <3> QED
      BY <1>1, <2>1, <3>1 DEF TypeOK, Session
  <2>3. /\ session'.pc = "verify" /\ session'.mode = session.mode
        /\ session'.wanted = session.wanted /\ session'.todo = session.todo
        /\ session'.at = session.at /\ session'.changed = session.changed
        /\ session'.undoing = session.undoing /\ session'.failures = session.failures
        /\ session'.target = session.target /\ session'.base = session.base
        /\ session'.prev = session.prev
    BY <1>1, <2>1 DEF TypeOK, Session
  <2>4. TypeOK' /\ UnitInv'
    BY <2>1, <2>2 DEF IInv, TypeOK, UnitInv
  <2>5. WorkInv'
    BY <1>1, <2>3 DEF IInv, WorkInv, Busy, Upgrading
  <2>6. InstalledInv'
    BY <1>1, <2>1, <2>3 DEF IInv, InstalledInv, InPlace, Idle, Busy, Upgrading
  <2>7. UndoneInv' /\ SeenInv'
    BY <1>1, <2>1, <2>3 DEF IInv, UndoneInv, SeenInv, Idle, Busy
  <2>8. UpgradeInv'
    BY <1>1, <2>1, <2>3 DEF IInv, UpgradeInv, Idle
  <2> QED
    BY <2>3, <2>4, <2>5, <2>6, <2>7, <2>8 DEF IInv, Ending
<1>3. CASE ~MoreAttempts /\ session.undoing
  <2>1. End("rollback failed")
    BY <1>3 DEF VerifyFails
  <2> QED
    BY <2>1, EndStep DEF Reports, Ending
<1>4. CASE ~MoreAttempts /\ ~session.undoing
  <2>1. Raise(session.changed) /\ session.changed \in SUBSET session.wanted
    BY <1>4 DEF VerifyFails, IInv, WorkInv
  <2>2. NothingLost(session.changed)
    BY <1>1 DEF IInv, UpgradeInv, NothingLost
  <2> QED
    BY <1>1, <1>4, <2>1, <2>2, RaiseStep
<1> QED
  BY <1>2, <1>3, <1>4

LEMMA NextStep ==
    ASSUME IInv, [Next]_vars
    PROVE  IInv' /\ Ending
<1>1. ASSUME NEW n \in Nodes, NodeStep(n) \/ Fail(n) \/ Kill(n)
      PROVE  IInv' /\ Ending
  BY <1>1, UnitStep, UnitSteps DEF IInv, Ending
<1>2. ASSUME NEW mode \in Modes, NEW targets \in SUBSET Nodes, Start(mode, targets)
      PROVE  IInv' /\ Ending
  BY <1>2, StartStep
<1>3. ASSUME NEW wanted \in SUBSET Nodes, NEW release \in Releases, Choose(wanted, release)
      PROVE  IInv' /\ Ending
  BY <1>3, ChooseStep
<1>4. CASE Look \/ LookFails \/ EnvDrifts \/ TakeNode \/ Ask
  BY <1>4, LookStep, LookFailsStep, TakeNodeStep, AskStep
<1>5. CASE Baseline \/ BaselineFails \/ Dispatch \/ CommandFails \/ CommandReturns
  BY <1>5, BaselineStep, BaselineFailsStep, DispatchStep, CommandStep
<1>6. CASE PollBusy \/ PollIdle \/ PreflightFails \/ TimesOut \/ Judge
  BY <1>6, PollStep, TimesOutStep, JudgeStep
<1>7. CASE Reconciled \/ Settle
  <2>1. CASE Reconciled
    BY <2>1, GotoStep DEF Reconciled
  <2>2. CASE Settle
    BY <2>2, GotoStep DEF Settle
  <2> QED
    BY <1>7, <2>1, <2>2
<1>8. CASE SettleFails \/ CheckFails
  BY <1>8, SettleFailsStep, CheckFailsStep
<1>9. CASE Check
  <2>1. CASE RolledBack(Here)
    <3>1. Goto("next") /\ Local
      BY <1>9, <2>1 DEF Check
    <3> QED
      BY <1>9, <2>1, <3>1, GotoStep
  <2>2. CASE ~RolledBack(Here)
    BY <1>9, <2>2, CheckFailsStep
  <2> QED
    BY <2>1, <2>2
<1>10. CASE Finish \/ VerifyPasses \/ VerifyFails
  BY <1>10, FinishStep, VerifyPassesStep, VerifyFailsStep
<1>11. CASE Abort
  BY <1>11, EndStep DEF Abort, Reports, Ending
<1>12. CASE UNCHANGED vars
  <2>1. UNCHANGED <<node, session, report, sessions>>
    BY <1>12 DEF vars
  <2>2. TypeOK' /\ UnitInv' /\ WorkInv'
    BY <2>1 DEF IInv, TypeOK, UnitInv, WorkInv, Upgrading
  <2>3. InstalledInv' /\ UndoneInv' /\ SeenInv' /\ UpgradeInv'
    BY <2>1 DEF IInv, InstalledInv, UndoneInv, SeenInv, UpgradeInv, Upgrading, InPlace, Idle, Seen
  <2> QED
    BY <2>1, <2>2, <2>3 DEF IInv, Ending
<1> QED
  BY <1>1, <1>2, <1>3, <1>4, <1>5, <1>6, <1>7, <1>8, <1>9, <1>10, <1>11, <1>12 DEF Next, SessionStep
-----------------------------------------------------------------------------
(* The theorems. *)

\* The session and the nodes keep to the invariant, whatever they do.
THEOREM Invariance == Spec => []IInv
<1>1. Init => IInv
  BY InitIInv
<1>2. IInv /\ [Next]_vars => IInv'
  BY NextStep
<1> QED
  BY <1>1, <1>2, PTL DEF Spec

\* Nodes and session stay within their types.
THEOREM TypeCorrect == Spec => []TypeOK
<1>1. IInv => TypeOK
  BY DEF IInv
<1> QED
  BY <1>1, Invariance, PTL

\* A session that reports an installation has installed every node it was asked for
\* (install_remote_node_with_recovery): what it has left behind stays as it left it.
THEOREM InstalledIsInstalled == Spec => SuccessIsTrue
<1>1. ASSUME IInv, [Next]_vars, Reported("installed")
      PROVE  \A n \in session.wanted :
                Idle(n) /\ node[n].current = session.target /\ node[n].accepted = session.target
                /\ ~node[n].drift
  <2>1. /\ Upgrading /\ ~session.undoing /\ session.todo = {}
        /\ session.pc \notin Busy \cup {"prepare"}
    BY <1>1, NextStep DEF Reported, Ending
  <2> QED
    BY <1>1, <2>1 DEF IInv, InstalledInv, InPlace
<1>2. IInv /\ [Next]_vars =>
          [Reported("installed") => \A n \in session.wanted :
              Idle(n) /\ node[n].current = session.target /\ node[n].accepted = session.target
              /\ ~node[n].drift]_vars
  BY <1>1
<1> QED
  BY <1>2, Invariance, PTL DEF Spec, SuccessIsTrue

\* A session that reports a rollback has every node it changed where it found it
\* (rollback_changed_nodes, verify_rollback_node).
THEOREM RolledBackIsBack == Spec => RollbackIsTrue
<1>1. ASSUME IInv, [Next]_vars, Reported("rolled back")
      PROVE  \A n \in session.changed : Idle(n) /\ node[n].current = session.prev[n]
  <2>1. /\ session.undoing /\ ~session.failures /\ session.todo = {}
        /\ session.pc \notin Busy
    BY <1>1, NextStep DEF Reported, Ending
  <2> QED
    BY <1>1, <2>1 DEF IInv, UndoneInv
<1>2. IInv /\ [Next]_vars =>
          [Reported("rolled back") => \A n \in session.changed :
              Idle(n) /\ node[n].current = session.prev[n]]_vars
  BY <1>1
<1> QED
  BY <1>2, Invariance, PTL DEF Spec, RollbackIsTrue

\* A session that reports a failure leaves no node with a release it has not rolled back
\* to a unit or to another release (install_cutover_observed).
THEOREM UpgradeIsKept == Spec => UpgradeIsNotAbandoned
<1> DEFINE Kept == (Reported("failed") \/ Reported("rolled back")) /\ session.mode = "install" =>
               \A n \in Nodes \ session.changed :
                  session.base[n].current # None => Idle(n) /\ node[n].current = session.base[n].current
<1>1. IInv /\ [Next]_vars => Kept
  <2>1. CASE IInv /\ [Next]_vars /\ Reported("failed")
    BY <2>1, NextStep DEF Reported, Ending, NothingLost
  <2>2. CASE IInv /\ [Next]_vars /\ Reported("rolled back")
    <3>1. session.undoing
      BY <2>2, NextStep DEF Reported, Ending
    <3> QED
      BY <2>2, <3>1 DEF IInv, UpgradeInv
  <2> QED
    BY <2>1, <2>2
<1>2. IInv /\ [Next]_vars => [Kept]_vars
  BY <1>1
<1> QED
  BY <1>2, Invariance, PTL DEF Spec, UpgradeIsNotAbandoned
=============================================================================
