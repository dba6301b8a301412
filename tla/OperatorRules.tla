----------------------------- MODULE OperatorRules -----------------------------
(***************************************************************************)
(* Commit of operator routing rules (vpn_installer/admin_apply.py) and the *)
(* sing-box unit that applies them.                                        *)
(*                                                                         *)
(* The admin page and the command line change one rule: they load the      *)
(* rules, take the lock, check the generation (the page only), write rules,*)
(* configuration and operator manifest, and restart sing-box while they    *)
(* still hold the lock.  A change whose restart is not confirmed is undone *)
(* file by file and sing-box is restarted again.                           *)
(* Before the router, the unit of a gateway runs the same commit of the    *)
(* rules it finds, without a generation and without a restart              *)
(* (ExecStartPre): the Starter below.                                      *)
(*                                                                         *)
(* A configuration is told by the rules it was rendered from: the base     *)
(* configuration does not change in this module.                           *)
(***************************************************************************)
EXTENDS Naturals

CONSTANTS Web,       \* requests of the admin page, which check the generation
          Cli,       \* routes add and routes remove, which do not
          Starter,   \* ExecStartPre of the sing-box unit
          Rules,     \* operator rules
          Slow,      \* may a start that is not blocked outlast its time limit
          MaxFaults, \* bound: errors, deaths and restarts from outside
          None

Clients == Web \cup Cli
Processes == Clients \cup {Starter}
RuleSets == SUBSET Rules

\* A change: add one rule or remove one.
Edits == [rule : Rules, add : BOOLEAN]
Edited(edit, set) == IF edit.add THEN set \cup {edit.rule} ELSE set \ {edit.rule}

ASSUME RulesAssumption ==
    /\ Web \cap Cli = {} /\ Starter \notin Clients
    /\ None \notin Processes \cup Edits
    /\ Slow \in BOOLEAN /\ MaxFaults \in Nat

VARIABLES
    rules,     \* admin-routing-rules.json
    config,    \* config.json, by the rules it was rendered from
    manifest,  \* operator-state.json
    prestart,  \* operator_routing of render_singbox_service: the unit runs the Starter
    unit,      \* the sing-box unit
    running,   \* the configuration the router last started with
    lock,      \* holder of vpn-stack-routes.lock
    pc, job,   \* control state and locals of each process
    cut,       \* history: a change was cut short and no start has followed
    faults     \* bound

files == <<rules, config, manifest>>
router == <<prestart, unit, running>>
vars == <<files, router, lock, pc, job, cut, faults>>

Manifest == [rules : RuleSets, config : RuleSets]
Units == {"active", "pre", "exec", "failed"}
\* Inside the try statement, and inside its handler.
Writing == {"rules", "config", "manifest"}
Restarting == {"restart", "wait"}
Undoing == {"undo rules", "undo config", "undo manifest", "undo restart", "undo wait"}
Locked == {"check"} \cup Writing \cup Restarting \cup Undoing
Stages == {"idle", "load", "lock"} \cup Locked

\* expected holds the generation to be found, if one is.
NoJob == [edit |-> None, wanted |-> {}, expected |-> {},
          rules |-> {}, config |-> {}, manifest |-> [rules |-> {}, config |-> {}]]
Job == [edit : Edits \cup {None}, wanted : RuleSets, expected : SUBSET RuleSets,
        rules : RuleSets, config : RuleSets, manifest : Manifest]

TypeOK ==
    /\ rules \in RuleSets /\ config \in RuleSets /\ manifest \in Manifest
    /\ prestart \in BOOLEAN /\ unit \in Units /\ running \in RuleSets
    /\ lock \in Processes \cup {None}
    /\ pc \in [Processes -> Stages]
    /\ job \in [Processes -> Job]
    /\ cut \in BOOLEAN
    /\ faults \in 0..MaxFaults

\* A gateway whose sing-box has started.
Init ==
    /\ rules \in RuleSets
    /\ config = rules
    /\ manifest = [rules |-> rules, config |-> config]
    /\ prestart \in BOOLEAN
    /\ unit = "active"
    /\ running = config
    /\ lock = None
    /\ pc = [p \in Processes |-> "idle"]
    /\ job = [p \in Processes |-> NoJob]
    /\ cut = FALSE
    /\ faults = 0

Goto(p, stage) == pc' = [pc EXCEPT ![p] = stage]
\* The process leaves commit_rules, or ends.
Leave(p) ==
    /\ Goto(p, "idle")
    /\ job' = [job EXCEPT ![p] = NoJob]
    /\ lock' = IF lock = p THEN None ELSE lock
------------------------------------------------------------------------------
(* commit_rules. *)

\* The page's handler and the command line read the rules before the lock; a
\* rule to remove must be there.
Request(p) ==
    /\ p \in Clients /\ pc[p] = "idle"
    /\ \E edit \in Edits :
          /\ edit.add \/ edit.rule \in rules
          /\ job' = [job EXCEPT ![p] =
                       [NoJob EXCEPT !.edit = edit, !.wanted = Edited(edit, rules),
                                     !.expected = IF p \in Web THEN {rules} ELSE {}]]
    /\ Goto(p, "lock")
    /\ UNCHANGED <<files, router, lock, cut, faults>>

\* apply_rules reads them before the lock, too.
LoadAtStart(p) ==
    /\ pc[p] = "load"
    /\ job' = [job EXCEPT ![p] = [NoJob EXCEPT !.wanted = rules]]
    /\ Goto(p, "lock")
    /\ UNCHANGED <<files, router, lock, cut, faults>>

TakeLock(p) ==
    /\ pc[p] = "lock"
    /\ lock = None
    /\ lock' = p
    /\ Goto(p, "check")
    /\ UNCHANGED <<files, router, job, cut, faults>>

\* Mutant: the generation is not compared.
NeverStale(p) == FALSE
Stale(p) == job[p].expected # {} /\ rules \notin job[p].expected

RefuseConflict(p) ==
    /\ pc[p] = "check"
    /\ Stale(p)
    /\ Leave(p)
    /\ UNCHANGED <<files, router, cut, faults>>

\* The old files are kept for the undo and the new configuration is checked.
Stage(p) ==
    /\ pc[p] = "check"
    /\ ~Stale(p)
    /\ job' = [job EXCEPT ![p].rules = rules, ![p].config = config,
                          ![p].manifest = manifest]
    /\ Goto(p, "rules")
    /\ UNCHANGED <<files, router, lock, cut, faults>>

WriteRules(p) ==
    /\ pc[p] = "rules"
    /\ rules' = job[p].wanted
    /\ Goto(p, "config")
    /\ UNCHANGED <<config, manifest, router, lock, job, cut, faults>>

\* Mutant: the configuration is rendered from the rules found on disk.
StagedFromDisk(p) == job[p].rules
Staged(p) == job[p].wanted

ReplaceConfig(p) ==
    /\ pc[p] = "config"
    /\ config' = Staged(p)
    /\ Goto(p, "manifest")
    /\ UNCHANGED <<rules, manifest, router, lock, job, cut, faults>>

\* The digests of the files as they are now.  The Starter ends here, and the
\* unit goes on to the router.
WriteManifest(p) ==
    /\ pc[p] = "manifest"
    /\ manifest' = [rules |-> rules, config |-> config]
    /\ IF p = Starter
          THEN Leave(p) /\ unit' = "exec"
          ELSE Goto(p, "restart") /\ UNCHANGED <<job, lock, unit>>
    /\ UNCHANGED <<rules, config, prestart, running, cut, faults>>

LockAfterKill == IF lock = Starter THEN None ELSE lock

\* systemctl restart: a Starter that runs is killed, and begins again.
RestartUnit(stages) ==
    /\ unit' = IF prestart THEN "pre" ELSE "exec"
    /\ pc' = [stages EXCEPT ![Starter] = IF prestart THEN "load" ELSE "idle"]
    /\ job' = [job EXCEPT ![Starter] = NoJob]
    /\ lock' = LockAfterKill
    /\ cut' = (cut /\ ~prestart)

Restart(p) ==
    /\ \/ pc[p] = "restart" /\ RestartUnit([pc EXCEPT ![p] = "wait"])
       \/ pc[p] = "undo restart" /\ RestartUnit([pc EXCEPT ![p] = "undo wait"])
    /\ UNCHANGED <<files, prestart, running, faults>>

\* Mutant: a unit that has not failed yet counts as confirmed.
ConfirmedEarly == unit # "failed"
Confirmed == unit = "active"

\* The restart is confirmed: the change is applied, or the undo is.
Confirm(p) ==
    /\ pc[p] \in {"wait", "undo wait"}
    /\ Confirmed
    /\ Leave(p)
    /\ UNCHANGED <<files, router, cut, faults>>

\* The Starter waits for the lock of the process that waits for the Starter.
Blocked(p) == pc[Starter] = "lock" /\ lock = p

NotConfirmed(p) ==
    /\ \/ unit = "failed"
       \/ unit \in {"pre", "exec"} /\ (Slow \/ Blocked(p))
    /\ \/ pc[p] = "wait" /\ Goto(p, "undo rules") /\ UNCHANGED <<job, lock>>
       \/ pc[p] = "undo wait" /\ Leave(p)
    /\ UNCHANGED <<files, router, cut, faults>>

UndoRules(p) ==
    /\ pc[p] = "undo rules"
    /\ rules' = job[p].rules
    /\ Goto(p, "undo config")
    /\ UNCHANGED <<config, manifest, router, lock, job, cut, faults>>

\* Mutant: only the rules are put back.
UndoConfigForgotten(p) ==
    /\ pc[p] = "undo config"
    /\ Goto(p, "undo manifest")
    /\ UNCHANGED <<files, router, lock, job, cut, faults>>

UndoConfig(p) ==
    /\ pc[p] = "undo config"
    /\ config' = job[p].config
    /\ Goto(p, "undo manifest")
    /\ UNCHANGED <<rules, manifest, router, lock, job, cut, faults>>

\* The Starter asked for no restart and raises here: the unit fails.
UndoManifest(p) ==
    /\ pc[p] = "undo manifest"
    /\ manifest' = job[p].manifest
    /\ IF p = Starter
          THEN Leave(p) /\ unit' = "failed"
          ELSE Goto(p, "undo restart") /\ UNCHANGED <<job, lock, unit>>
    /\ UNCHANGED <<rules, config, prestart, running, cut, faults>>
------------------------------------------------------------------------------
(* The router, and what may go wrong. *)

\* The router reads its configuration after the Starter has left the lock.
RouterUp ==
    /\ unit = "exec"
    /\ unit' = "active"
    /\ running' = config
    /\ UNCHANGED <<files, prestart, lock, pc, job, cut, faults>>

\* Restart=on-failure.
AutoRestart ==
    /\ unit = "failed"
    /\ RestartUnit(pc)
    /\ UNCHANGED <<files, prestart, running, faults>>

Fault == faults < MaxFaults /\ faults' = faults + 1

\* The router crashes, or health recovery or an operator restarts the unit.
OutsideRestart ==
    /\ Fault
    /\ RestartUnit(pc)
    /\ UNCHANGED <<files, prestart, running>>

\* A step raises: the try statement undoes the change, the restart of the undo
\* included; anything else leaves.  An error of the handler cuts the undo short.
Fails(p) ==
    /\ Fault
    /\ pc[p] # "idle"
    /\ IF pc[p] \in Writing \cup {"restart", "wait"}
          THEN Goto(p, "undo rules") /\ UNCHANGED <<job, lock, unit, cut>>
          ELSE /\ Leave(p)
               /\ unit' = IF p = Starter THEN "failed" ELSE unit
               /\ cut' = (cut \/ pc[p] \in Undoing)
    /\ UNCHANGED <<files, prestart, running>>

\* A client dies: the kernel drops its lock and the files stay as they are.
Dies(p) ==
    /\ Fault
    /\ p \in Clients /\ pc[p] # "idle"
    /\ Leave(p)
    /\ cut' = (cut \/ pc[p] \in Writing \cup Restarting \cup Undoing)
    /\ UNCHANGED <<files, router>>

Step(p) ==
    \/ LoadAtStart(p) \/ TakeLock(p) \/ RefuseConflict(p) \/ Stage(p)
    \/ WriteRules(p) \/ ReplaceConfig(p) \/ WriteManifest(p)
    \/ Restart(p) \/ Confirm(p) \/ NotConfirmed(p)
    \/ UndoRules(p) \/ UndoConfig(p) \/ UndoManifest(p)

Next ==
    \/ \E p \in Processes : Request(p) \/ Step(p) \/ Fails(p) \/ Dies(p)
    \/ RouterUp \/ AutoRestart \/ OutsideRestart

Spec == Init /\ [][Next]_vars

\* Processes run, systemd starts what is to be started; requests and faults are
\* never forced.
FairSpec ==
    /\ Spec
    /\ \A p \in Processes : WF_vars(Step(p))
    /\ WF_vars(RouterUp) /\ WF_vars(AutoRestart)
------------------------------------------------------------------------------
(***************************************************************************)
(* Properties                                                              *)
(***************************************************************************)

\* A manifest that matches both files vouches for a configuration rendered from
\* those rules, whatever was interrupted: the agent's drift report
\* (server_agent.py:819-837) never takes a mixed state for a good one.
DriftIsVisible ==
    manifest = [rules |-> rules, config |-> config] => config = rules

\* A change made over the admin page adds or removes its one rule in the rules
\* as they are when it writes: no other change is lost to it.
WebChangesOneRule ==
    [][\A p \in Web : pc[p] = "rules" /\ pc'[p] = "config" =>
          rules' = Edited(job[p].edit, rules)]_vars

\* A change reported as applied is in the rules, and the router runs them.
SuccessMeansApplied ==
    [][\A p \in Clients :
          pc[p] = "wait" /\ pc'[p] = "idle" /\ faults' = faults =>
              running = job[p].wanted /\ rules = job[p].wanted]_vars

\* When requests cease the router ends up running the rules on disk, described
\* by the manifest, after any conflict, time-out, undo or restart: only a change
\* cut short in the middle needs a start of the unit first.
QuietRouterRunsItsRules ==
    <>[](~cut /\ \A p \in Clients : pc[p] = "idle")
        => <>[](/\ unit = "active" /\ running = rules /\ config = rules
                /\ manifest = [rules |-> rules, config |-> config])

\* docs/ADMIN.md:59 says that saved rules are checked and applied, and that the
\* former rules come back when sing-box does not start: with no fault and no slow
\* start, no change is undone.
ChangesAreApplied ==
    [][\A p \in Clients : pc[p] = "wait" => pc'[p] # "undo rules"]_vars
==============================================================================
