------------------------------ MODULE FleetInstall ------------------------------
(***************************************************************************)
(* The fleet workflow of the operator's workstation (workflows.py): one    *)
(* session at a time installs, removes or rolls back the nodes of a        *)
(* deployment, each by a detached transaction on the node (a systemd unit  *)
(* running install.sh, see InstallTransaction).                            *)
(*                                                                         *)
(*   - The session first looks at every node it is asked for; what it finds *)
(*     then is what it later rolls back to.                                *)
(*   - A call over SSH may fail at any point; the unit it has started goes *)
(*     on.  The session then waits for the node to become idle, looks at   *)
(*     it and decides whether its own installation is there.               *)
(*   - The nodes it has changed are rolled back, last one first, when a    *)
(*     later step fails.                                                   *)
(*   - The session itself may be interrupted; another one may follow while *)
(*     units of the first still run.                                       *)
(*                                                                         *)
(* Time is not modelled: a wait may end by its timeout whenever it has not *)
(* ended otherwise.  The routes to a node and the checks of the public     *)
(* path succeed or fail as they please.                                    *)
(***************************************************************************)
EXTENDS Naturals, FiniteSets

CONSTANTS Nodes,       \* nodes of the deployment
          Gateway,     \* the node clients connect to
          Rank,        \* position of a node in the order of installation
          Releases,    \* releases a session may install
          Before,      \* releases the nodes may have at the start
          Interrupted, \* nodes on which an earlier session may have left a unit
          Modes,       \* what sessions may do
          MaxSessions, \* bound: sessions
          Attempts,    \* POSTCUTOVER_VERIFY_ATTEMPTS
          None, NoSnapshot

AllModes == {"install", "maintain", "rollback", "remove"}

ASSUME FleetAssumption ==
    /\ Gateway \in Nodes /\ IsFiniteSet(Nodes)
    /\ Rank \in [Nodes -> Nat] /\ \A m, n \in Nodes : Rank[m] = Rank[n] => m = n
    /\ Before \subseteq Releases \cup {None} /\ Interrupted \subseteq Nodes
    /\ Modes \subseteq AllModes
    /\ MaxSessions \in Nat /\ Attempts \in Nat \ {0}
    /\ None \notin Releases /\ NoSnapshot \notin Releases \cup {None}

VARIABLES
    node,     \* the nodes
    session,  \* control state and locals of the session
    report,   \* what the last session told its operator
    sessions  \* bound

vars == <<node, session, report, sessions>>

NoneOr(S) == S \cup {None}

\* What the snapshot `latest' leads back to; None is the state without the stack.
Undo == NoneOr(Releases) \cup {NoSnapshot}
\* The detached unit of a node: the stage it is in, and whether the last one succeeded.
Unit == [action : {"install", "rollback", "remove", "trap"}, target : NoneOr(Releases),
         stage : {"none", "begun", "captured", "cut", "undo", "copy", "restored"}, ok : BOOLEAN]
Node == [current : NoneOr(Releases), accepted : NoneOr(Releases), undo : Undo,
         drift : BOOLEAN, unit : Unit]

\* What an answer of remote_install_transaction_state says of an idle node.
View == [current : NoneOr(Releases), undo : Undo]
Unseen == [current |-> None, undo |-> NoSnapshot]

NoUnit == [action |-> "install", target |-> None, stage |-> "none", ok |-> TRUE]
NoSession == [pc |-> "idle", mode |-> "install", target |-> None, wanted |-> {}, todo |-> {},
              at |-> Gateway, prev |-> [n \in Nodes |-> None], base |-> [n \in Nodes |-> Unseen],
              seen |-> Unseen, changed |-> {}, undoing |-> FALSE, failures |-> FALSE, tries |-> 0]
Session == [pc : {"idle", "prepare", "ask", "next", "baseline", "dispatch", "await", "wait", "preflight", "settle",
                  "check", "verify"},
            mode : AllModes, target : NoneOr(Releases), wanted : SUBSET Nodes, todo : SUBSET Nodes,
            at : Nodes, prev : [Nodes -> Undo], base : [Nodes -> View], seen : View,
            changed : SUBSET Nodes, undoing : BOOLEAN, failures : BOOLEAN, tries : 0..(Attempts - 1)]
Reports == {"none", "installed", "failed", "rolled back", "rollback failed", "removed"}

TypeOK ==
    /\ node \in [Nodes -> Node]
    /\ session \in Session
    /\ report \in Reports
    /\ sessions \in 0..MaxSessions

\* A node without the stack, or one a first release was installed on; the unit of an
\* earlier session, whose workstation was interrupted, may still run on it.
Fresh == [current |-> None, accepted |-> None, undo |-> NoSnapshot, drift |-> FALSE, unit |-> NoUnit]
Settled(release) ==
    IF release = None THEN Fresh ELSE [Fresh EXCEPT !.current = release, !.accepted = release, !.undo = None]
StillRuns(release, target) ==
    [Settled(release) EXCEPT !.unit = [NoUnit EXCEPT !.target = target, !.stage = "begun"]]
FirstSeen(n, release) ==
    {Settled(release)}
    \cup IF n \in Interrupted THEN {StillRuns(release, r) : r \in Releases} ELSE {}

Init ==
    /\ \E release \in Before :
          /\ node \in [Nodes -> UNION {FirstSeen(n, release) : n \in Nodes}]
          /\ \A n \in Nodes : node[n] \in FirstSeen(n, release)
    /\ session = NoSession /\ report = "none" /\ sessions = 0

Idle(n) == node[n].unit.stage = "none"
Here == session.at
Seen(n) == [current |-> node[n].current, undo |-> node[n].undo]
------------------------------------------------------------------------------
(* The transaction of a node, as far as a session can see it.               *)

At(n, stage) == node[n].unit.stage = stage
ToStage(n, stage) == [node[n].unit EXCEPT !.stage = stage]
Ended(ok) == [NoUnit EXCEPT !.ok = ok]
OnlyNode == UNCHANGED <<session, report, sessions>>

\* capture_snapshot; a rollback takes none, and restores what `latest' names.
Capture(n) ==
    /\ At(n, "begun") /\ node[n].unit.action # "rollback"
    /\ node' = [node EXCEPT
           ![n].undo = node[n].current,
           ![n].unit = ToStage(n, IF node[n].unit.action = "install" THEN "captured" ELSE "undo")]
    /\ OnlyNode

BeginRollback(n) ==
    /\ At(n, "begun") /\ node[n].unit.action = "rollback"
    /\ node' = [node EXCEPT ![n].unit = IF node[n].undo = NoSnapshot THEN Ended(FALSE)
                                                                     ELSE ToStage(n, "undo")]
    /\ OnlyNode

\* Between the switch of the links and the acceptance a comparison with the manifest
\* may find a difference or not.
Cutover(n) ==
    /\ At(n, "captured")
    /\ \E drift \in BOOLEAN :
          node' = [node EXCEPT ![n].current = node[n].unit.target, ![n].drift = drift,
                               ![n].unit = ToStage(n, "cut")]
    /\ OnlyNode

\* The acceptance of the release was the last thing that could fail.
Commit(n) ==
    /\ At(n, "cut")
    /\ node' = [node EXCEPT ![n].accepted = node[n].unit.target, ![n].drift = FALSE,
                            ![n].unit = Ended(TRUE)]
    /\ OnlyNode

\* A command fails: on_exit of an installation or a removal restores what it has captured.
Fail(n) ==
    /\ ~Idle(n) /\ node[n].unit.action # "trap"
    /\ node' = [node EXCEPT ![n].unit =
           IF At(n, "begun") \/ @.action = "rollback" THEN Ended(FALSE)
                                                      ELSE [@ EXCEPT !.action = "trap", !.stage = "undo"]]
    /\ OnlyNode

\* restore_snapshot removes the links, then copies them.
DropLinks(n) ==
    /\ At(n, "undo")
    /\ node' = [node EXCEPT ![n].current = None, ![n].drift = TRUE, ![n].unit = ToStage(n, "copy")]
    /\ OnlyNode

\* A trap brings back the managed files with whatever drift they had; a removal leads
\* to the baseline; a rollback ends with the acceptance of what it has restored.
CopyLinks(n) ==
    /\ At(n, "copy")
    /\ \/ /\ node[n].unit.action = "trap"
          /\ \E drift \in BOOLEAN :
                node' = [node EXCEPT ![n].current = node[n].undo, ![n].drift = drift,
                                     ![n].unit = Ended(FALSE)]
       \/ /\ node[n].unit.action = "remove"
          /\ node' = [node EXCEPT ![n].current = None, ![n].accepted = None, ![n].drift = FALSE,
                                  ![n].unit = Ended(TRUE)]
       \/ /\ node[n].unit.action = "rollback"
          /\ node' = [node EXCEPT ![n].current = node[n].undo, ![n].unit = ToStage(n, "restored")]
    /\ OnlyNode

AcceptRollback(n) ==
    /\ At(n, "restored")
    /\ node' = [node EXCEPT ![n].accepted = node[n].current, ![n].drift = FALSE,
                            ![n].unit = Ended(TRUE)]
    /\ OnlyNode

\* A kill leaves everything as it is.
Kill(n) ==
    /\ ~Idle(n)
    /\ node' = [node EXCEPT ![n].unit = Ended(FALSE)]
    /\ OnlyNode

NodeStep(n) ==
    Capture(n) \/ BeginRollback(n) \/ Cutover(n) \/ Commit(n) \/ DropLinks(n) \/ CopyLinks(n)
    \/ AcceptRollback(n)
------------------------------------------------------------------------------
(* A session.                                                               *)

First(S) == CHOOSE n \in S : \A m \in S : Rank[n] <= Rank[m]
Last(S) == CHOOSE n \in S : \A m \in S : Rank[m] <= Rank[n]

Goto(pc) == session' = [session EXCEPT !.pc = pc]
Local == UNCHANGED <<node, report, sessions>>
End(r) == session' = NoSession /\ report' = r /\ UNCHANGED <<node, sessions>>

\* prepare_remote_session: the servers are looked at one after another, the gateway
\* first, each over its own connection; previous_release_ids is taken from this first look.
Start(mode, targets) ==
    /\ session.pc = "idle" /\ sessions < MaxSessions /\ targets # {}
    /\ session' = [NoSession EXCEPT !.pc = "prepare", !.mode = mode, !.wanted = targets, !.todo = targets]
    /\ report' = "none" /\ sessions' = sessions + 1
    /\ UNCHANGED node

\* What the workstation finds of a server before it touches it: whether the way to it
\* leads through the VPN it is to change, who knows its host key, and so on.
Facts == [tunneled : BOOLEAN, key : {"managed", "system", "unknown"}, agentAnswers : BOOLEAN,
          supported : BOOLEAN, privilege : {"root", "nopasswd", "password"}]

\* An unknown key is only enrolled, and a password only asked for, where an operator agrees.
TrustsKey(key, operator) == key \in {"managed", "system"} \/ operator
Privileged(privilege, operator) == privilege \in {"root", "nopasswd"} \/ operator

\* An agent that is there must answer; the bootstrap script stands in for one that is not.
Probed(n, facts) == facts.agentAnswers \/ node[n].current = None

\* A maintenance neither minds the way nor the platform.
Admits(n, facts, operator) ==
    /\ session.mode = "maintain" \/ (~facts.tunneled /\ facts.supported)
    /\ TrustsKey(facts.key, operator) /\ Probed(n, facts) /\ Privileged(facts.privilege, operator)

\* The fields of a preflight that sessions compare later.
Preflight(n) == [release |-> node[n].current, drift |-> node[n].drift]

Looking == session.pc = "prepare" /\ session.todo # {}
LookedAt == Last(session.todo)

Look ==
    /\ Looking /\ \E facts \in Facts, operator \in BOOLEAN : Admits(LookedAt, facts, operator)
    /\ session' = [session EXCEPT !.prev[LookedAt] = Preflight(LookedAt).release, !.todo = @ \ {LookedAt}]
    /\ Local

\* The operator, if there is one, may also try again, which changes nothing here.
LookFails ==
    /\ Looking /\ \E facts \in Facts, operator \in BOOLEAN : ~Admits(LookedAt, facts, operator)
    /\ End("failed")

\* load_remote_authoritative_env: the environment an installed node was given is no
\* longer the one the workstation has for it.
EnvDrifts ==
    /\ session.pc = "prepare" /\ session.todo = {} /\ session.mode \in {"install", "maintain"}
    /\ \E n \in session.wanted : session.prev[n] # None
    /\ End("failed")

\* A removal skips the servers on which the first look found nothing.
Choosable == IF session.mode = "remove" THEN {n \in session.wanted : session.prev[n] # None}
                                        ELSE session.wanted
\* Installing, the operator is asked about every server; otherwise once about all of them.
SomeOfThem == SUBSET session.wanted
AllOrNone == {Choosable, {}}

Choose(wanted, release) ==
    /\ session.pc = "prepare" /\ session.todo = {}
    /\ wanted \in IF session.mode = "install" THEN SomeOfThem ELSE AllOrNone
    /\ IF wanted = {} THEN End("none")
       ELSE /\ session' = [session EXCEPT
                   !.pc = IF session.mode = "rollback" THEN "ask" ELSE "next",
                   !.wanted = wanted, !.todo = wanted,
                   !.target = IF session.mode \in {"install", "maintain"} THEN release ELSE None]
            /\ Local

Installing == session.mode \in {"install", "maintain"} /\ ~session.undoing

\* execution_node_ids: a removal and a rollback go backwards.
NextNode == IF Installing THEN First(session.todo) ELSE Last(session.todo)

TakeNode ==
    /\ session.pc = "next" /\ session.todo # {}
    /\ session' = [session EXCEPT !.at = NextNode, !.todo = @ \ {NextNode}, !.seen = Unseen,
                                  !.pc = IF Installing THEN "baseline" ELSE "dispatch"]
    /\ Local

\* A manual rollback first asks every node what its snapshot leads back to.
Ask ==
    /\ session.pc = "ask"
    /\ \A n \in session.wanted : Idle(n) /\ node[n].undo # NoSnapshot
    /\ session' = [session EXCEPT !.pc = "next", !.undoing = TRUE, !.changed = session.wanted,
           !.prev = [n \in Nodes |-> IF n \in session.wanted THEN node[n].undo ELSE None]]
    /\ Local

\* The answer to a failure outside the rollback: what was changed is rolled back, but
\* for the refreshed assets of a maintenance, which stay.
Raise(changed) ==
    IF session.mode = "install" /\ changed # {}
       THEN /\ session' = [session EXCEPT !.pc = "next", !.undoing = TRUE, !.todo = changed,
                                          !.changed = changed, !.tries = 0]
            /\ Local
       ELSE End("failed")

\* Mutant: a node whose rollback has failed is tried again.
RetryForever ==
    IF session.undoing THEN session' = [session EXCEPT !.pc = "next", !.todo = @ \cup {Here}] /\ Local
                       ELSE Raise(session.changed)
\* A failure of one node's rollback does not keep the others from theirs.
Failed ==
    IF session.undoing
       THEN session' = [session EXCEPT !.pc = "next", !.failures = TRUE] /\ Local
       ELSE Raise(session.changed)

\* wait_for_remote_install_idle before an installation.
Baseline ==
    /\ session.pc = "baseline" /\ Idle(Here)
    /\ session' = [session EXCEPT !.pc = "dispatch", !.base[Here] = Seen(Here)]
    /\ UNCHANGED <<node, report, sessions>>

\* The lock is held for too long, the node cannot be reached or has no snapshot.
BaselineFails == session.pc \in {"ask", "baseline"} /\ Failed

Action == IF session.undoing THEN "rollback" ELSE IF Installing THEN "install" ELSE "remove"

\* install_remote_node: upload, then systemd-run under the one name of the node's unit.
Dispatch ==
    /\ session.pc = "dispatch" /\ Idle(Here)
    /\ node' = [node EXCEPT ![Here].unit = [action |-> Action, stage |-> "begun", ok |-> TRUE,
                    target |-> IF Action = "install" THEN session.target ELSE None]]
    /\ Goto("await")
    /\ UNCHANGED <<report, sessions>>

\* The upload fails, the name is taken, or the answer is lost while the unit runs.
\* Installations and rollbacks are then reconciled with the node, a removal is not.
CommandFails ==
    /\ session.pc \in {"dispatch", "await"}
    /\ IF session.undoing \/ Installing THEN Goto("wait") /\ Local ELSE Failed

CommandReturns ==
    /\ session.pc = "await" /\ Idle(Here) /\ node[Here].unit.ok
    /\ Goto(IF session.undoing THEN "check" ELSE IF Installing THEN "wait" ELSE "next")
    /\ Local

\* wait_for_remote_install_completion.  A poll that finds the node busy, with its
\* unit or with the lock of an agent, forgets what an earlier one has seen.
PollBusy ==
    /\ session.pc = "wait"
    /\ session' = [session EXCEPT !.seen = Unseen]
    /\ Local

PollIdle ==
    /\ session.pc = "wait" /\ Idle(Here)
    /\ session' = [session EXCEPT !.seen = Seen(Here), !.pc = "preflight"]
    /\ Local

PreflightFails == session.pc = "preflight" /\ Goto("wait") /\ Local

\* Mutant: only the two links are compared.
LinksOnly(base, seen) == base.current # None /\ seen.current # None /\ base.current # seen.current
\* install_cutover_observed.  An answer that never came has no current release.
CutoverObserved(base, seen) == base.current # seen.current

WithHere == IF CutoverObserved(session.base[Here], session.seen)
               THEN session.changed \cup {Here} ELSE session.changed

TimesOut ==
    /\ session.pc = "wait"
    /\ IF session.undoing THEN Failed ELSE Raise(WithHere)

\* Mutant: a node that is idle again is taken as installed.
AnyRelease(n) == node[n].current # None
\* The comparison of install_remote_node_with_recovery.
Confirmed(n) ==
    /\ Preflight(n) = [release |-> session.target, drift |-> FALSE]
    /\ node[n].accepted = session.target /\ session.seen.current = session.target

Judge ==
    /\ session.pc = "preflight" /\ Installing
    /\ IF ~Confirmed(Here) THEN Raise(WithHere)
       ELSE /\ session' = [session EXCEPT
                  !.pc = IF session.mode = "install" THEN "settle" ELSE "verify",
                  !.changed = IF session.mode = "install" THEN @ \cup {Here} ELSE @]
            /\ Local

Reconciled == session.pc = "preflight" /\ session.undoing /\ Goto("check") /\ Local

\* settle_transport_after_install: only where both ends of the transport are there.
Settles == Here = Gateway \/ session.prev[Gateway] # None

Settle == session.pc = "settle" /\ Goto("next") /\ Local
SettleFails == session.pc = "settle" /\ Settles /\ Cardinality(Nodes) > 1 /\ Raise(session.changed)

\* Mutant: whether the unit still runs does not matter, nor what it leaves.
IdleUnseen(n) == node[n].current # session.target
\* verify_rollback_node.
RolledBack(n) ==
    /\ Idle(n)
    /\ Preflight(n).release = session.prev[n]
    /\ session.prev[n] # None => ~Preflight(n).drift

Check ==
    /\ session.pc = "check"
    /\ IF RolledBack(Here) THEN Goto("next") /\ Local ELSE Failed

CheckFails == session.pc = "check" /\ Failed

\* The end of the loop over the nodes.
Finish ==
    /\ session.pc = "next" /\ session.todo = {}
    /\ IF session.undoing
          THEN IF session.failures THEN End("rollback failed")
               ELSE IF \A n \in session.changed : session.prev[n] # None THEN Goto("verify") /\ Local
               ELSE End("rolled back")
          ELSE CASE session.mode = "install" -> Goto("verify") /\ Local
                 [] session.mode = "maintain" -> End("installed")
                 [] session.mode = "remove" -> End("removed")

\* verify_postcutover: two cycles in a row must fail.
VerifyPasses ==
    /\ session.pc = "verify"
    /\ IF session.undoing THEN End("rolled back")
       ELSE IF session.mode = "install" THEN End("installed")
       ELSE session' = [session EXCEPT !.pc = "next", !.tries = 0] /\ Local

MoreAttempts == session.tries + 1 < Attempts

VerifyFails ==
    /\ session.pc = "verify"
    /\ IF MoreAttempts
          THEN session' = [session EXCEPT !.tries = @ + 1] /\ Local
          ELSE IF session.undoing THEN End("rollback failed") ELSE Raise(session.changed)

\* The workstation stops, or the operator interrupts it.
Abort == session.pc # "idle" /\ End("none")

SessionStep ==
    \/ Look \/ LookFails \/ EnvDrifts
    \/ \E wanted \in SUBSET Nodes, release \in Releases : Choose(wanted, release)
    \/ TakeNode \/ Ask \/ Baseline \/ BaselineFails \/ Dispatch \/ CommandFails \/ CommandReturns
    \/ PollIdle \/ PreflightFails \/ TimesOut \/ Judge \/ Reconciled \/ Settle \/ SettleFails
    \/ Check \/ CheckFails \/ Finish \/ VerifyPasses \/ VerifyFails

Next ==
    \/ \E n \in Nodes : NodeStep(n) \/ Fail(n) \/ Kill(n)
    \/ \E mode \in Modes, targets \in SUBSET Nodes : Start(mode, targets)
    \/ SessionStep \/ PollBusy \/ Abort

Spec == Init /\ [][Next]_vars

\* Every call and every wait of a session ends, by its timeout if not otherwise; the
\* session does not look at a node for ever, for a wait has one deadline for all polls.
FairSpec == Spec /\ WF_vars(SessionStep) /\ SF_vars(TimesOut \/ Judge \/ Reconciled)
------------------------------------------------------------------------------
(***************************************************************************)
(* Properties                                                              *)
(***************************************************************************)

Reported(r) == report' = r /\ session.pc # "idle" /\ session'.pc = "idle"

\* A session that reports success leaves every node it was asked for on the release,
\* accepted and without drift, whatever calls failed on the way
\* (install_remote_node_with_recovery).
SuccessIsTrue ==
    [][Reported("installed") => \A n \in session.wanted :
          Idle(n) /\ node[n].current = session.target /\ node[n].accepted = session.target
          /\ ~node[n].drift]_vars

\* "The changed nodes were returned to the previous release" is said only when every
\* one of them was: to the release the session first found, or to no stack at all
\* (rollback_changed_nodes, verify_rollback_node).
RollbackIsTrue ==
    [][Reported("rolled back") => \A n \in session.changed :
          Idle(n) /\ node[n].current = session.prev[n]]_vars

\* An upgrade is never abandoned half way: when an installation is reported as failed
\* or as rolled back, a node that had a release before and was not rolled back has that
\* release still, and no unit that could replace it later
\* (install_cutover_observed: an unknown answer counts as a change).
UpgradeIsNotAbandoned ==
    [][(Reported("failed") \/ Reported("rolled back")) /\ session.mode = "install" =>
          \A n \in Nodes \ session.changed :
             session.base[n].current # None => Idle(n) /\ node[n].current = session.base[n].current]_vars

\* A session comes to an end, whatever nodes do, answer or not: its rollback tries every
\* node once, and every wait has a deadline (rollback_changed_nodes).
SessionEnds == session.pc # "idle" ~> session.pc = "idle"
==============================================================================
