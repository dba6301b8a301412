-------------------------- MODULE OperatorRulesProofs --------------------------
(***************************************************************************)
(* Safety of the rule commit for any requests, commands, rules and faults. *)
(*                                                                         *)
(* What makes a drift visible is that the manifest only ever describes a   *)
(* configuration and the rules it was rendered from (Uniform), also where  *)
(* a commit keeps it for the undo; this needs to know what is on disk      *)
(* between the writes of the holder of the lock.                           *)
(***************************************************************************)
EXTENDS OperatorRules, TLAPS

Uniform(m) == m.rules = m.config

\* Whoever is inside the lock holds it; only the unit's commit loads at start.
LockInv ==
    \A p \in Processes :
        /\ pc[p] \in Locked => lock = p
        /\ pc[p] = "load" => p = Starter

\* The files between the writes of a commit, and the manifest it keeps.
FilesInv ==
    /\ Uniform(manifest)
    /\ \A p \in Processes :
          /\ Uniform(job[p].manifest)
          /\ pc[p] \in {"config", "manifest"} => rules = job[p].wanted
          /\ pc[p] = "manifest" => config = job[p].wanted

\* A request of the page wants its edit of the rules it expects, and has
\* compared them when it writes.
PageInv ==
    \A p \in Web :
        /\ pc[p] \in {"lock", "check", "rules"} =>
              \E found \in RuleSets : /\ job[p].expected = {found}
                                      /\ job[p].wanted = Edited(job[p].edit, found)
        /\ pc[p] = "rules" => rules \in job[p].expected

IInv == TypeOK /\ LockInv /\ FilesInv /\ PageInv

LEMMA Actors ==
    /\ Web \subseteq Processes /\ Clients \subseteq Processes
    /\ Starter \in Processes /\ Starter \notin Clients /\ None \notin Processes
  BY RulesAssumption DEF Processes, Clients

LEMMA EditedType ==
    ASSUME NEW edit \in Edits, NEW set \in RuleSets
    PROVE  Edited(edit, set) \in RuleSets
  BY DEF Edits, Edited, RuleSets

LEMMA NoJobType == NoJob \in Job
  BY DEF NoJob, Job, RuleSets, Manifest

\* The named stages, and those inside the lock.
LEMMA StageNames ==
    /\ Locked \subseteq Stages /\ {"idle", "load", "lock"} \subseteq Stages
    /\ {"idle", "load", "lock"} \cap Locked = {}
    /\ {"check", "rules", "config", "manifest", "restart", "wait", "undo rules",
        "undo config", "undo manifest", "undo restart", "undo wait"} = Locked
  BY DEF Stages, Locked, Writing, Restarting, Undoing

LEMMA InitIInv == Init => IInv
  <1> SUFFICES ASSUME Init PROVE IInv
    OBVIOUS
  <1>1. TypeOK
    <2>1. pc \in [Processes -> Stages] /\ job \in [Processes -> Job]
      BY NoJobType, StageNames DEF Init
    <2>2. faults \in 0..MaxFaults
      BY RulesAssumption DEF Init
    <2> QED
      BY <2>1, <2>2 DEF TypeOK, Init, Manifest, Units
  <1>2. LockInv
    BY StageNames DEF LockInv, Init
  <1>3. FilesInv
    BY DEF FilesInv, Init, Uniform, NoJob
  <1>4. PageInv
    BY Actors DEF PageInv, Init
  <1> QED
    BY <1>1, <1>2, <1>3, <1>4 DEF IInv
-----------------------------------------------------------------------------
(* Types. *)

LEMMA GotoType ==
    ASSUME TypeOK, NEW p \in Processes, NEW stage \in Stages, Goto(p, stage)
    PROVE  pc' \in [Processes -> Stages]
  BY DEF TypeOK, Goto

LEMMA LeaveType ==
    ASSUME TypeOK, NEW p \in Processes, Leave(p)
    PROVE  /\ pc' \in [Processes -> Stages]
           /\ job' \in [Processes -> Job]
           /\ lock' \in Processes \cup {None}
  <1>1. pc' \in [Processes -> Stages]
    BY GotoType, StageNames DEF Leave
  <1>2. job' \in [Processes -> Job]
    BY NoJobType DEF Leave, TypeOK
  <1>3. lock' \in Processes \cup {None}
    BY DEF Leave, TypeOK
  <1> QED
    BY <1>1, <1>2, <1>3

LEMMA RestartUnitType ==
    ASSUME TypeOK, NEW stages \in [Processes -> Stages], RestartUnit(stages)
    PROVE  /\ unit' \in Units
           /\ pc' \in [Processes -> Stages]
           /\ job' \in [Processes -> Job]
           /\ lock' \in Processes \cup {None}
           /\ cut' \in BOOLEAN
  <1>1. unit' \in Units /\ cut' \in BOOLEAN /\ lock' \in Processes \cup {None}
    BY DEF TypeOK, RestartUnit, LockAfterKill, Units
  <1>2. pc' \in [Processes -> Stages]
    BY StageNames DEF RestartUnit
  <1>3. job' \in [Processes -> Job]
    BY NoJobType DEF TypeOK, RestartUnit
  <1> QED
    BY <1>1, <1>2, <1>3

LEMMA JobFields ==
    ASSUME TypeOK, NEW p \in Processes
    PROVE  /\ job[p] \in Job
           /\ job[p].wanted \in RuleSets /\ job[p].rules \in RuleSets
           /\ job[p].config \in RuleSets /\ job[p].manifest \in Manifest
  BY DEF TypeOK, Job

LEMMA TypeStep ==
    ASSUME TypeOK, [Next]_vars
    PROVE  TypeOK'
  <1>1. ASSUME NEW p \in Processes, Request(p) PROVE TypeOK'
    <2>1. PICK edit \in Edits :
             job' = [job EXCEPT ![p] =
                       [NoJob EXCEPT !.edit = edit, !.wanted = Edited(edit, rules),
                                     !.expected = IF p \in Web THEN {rules} ELSE {}]]
      BY <1>1 DEF Request
    <2>2. [NoJob EXCEPT !.edit = edit, !.wanted = Edited(edit, rules),
                        !.expected = IF p \in Web THEN {rules} ELSE {}] \in Job
      BY NoJobType, EditedType DEF TypeOK, Job, NoJob
    <2>3. job' \in [Processes -> Job]
      BY <2>1, <2>2 DEF TypeOK
    <2> QED
      BY <1>1, <2>3, GotoType, StageNames DEF Request, TypeOK, files, router
  <1>2. ASSUME NEW p \in Processes, LoadAtStart(p) PROVE TypeOK'
    <2>1. [NoJob EXCEPT !.wanted = rules] \in Job
      BY NoJobType DEF TypeOK, Job, NoJob
    <2>2. job' \in [Processes -> Job]
      BY <1>2, <2>1 DEF LoadAtStart, TypeOK
    <2> QED
      BY <1>2, <2>2, GotoType, StageNames DEF LoadAtStart, TypeOK, files, router
  <1>3. ASSUME NEW p \in Processes, TakeLock(p) PROVE TypeOK'
    BY <1>3, GotoType, StageNames DEF TakeLock, TypeOK, files, router
  <1>4. ASSUME NEW p \in Processes, RefuseConflict(p) PROVE TypeOK'
    BY <1>4, LeaveType DEF RefuseConflict, TypeOK, files, router
  <1>5. ASSUME NEW p \in Processes, Stage(p) PROVE TypeOK'
    <2>1. [job[p] EXCEPT !.rules = rules, !.config = config, !.manifest = manifest] \in Job
      BY JobFields DEF TypeOK, Job
    <2>2. job' \in [Processes -> Job]
      BY <1>5, <2>1 DEF Stage, TypeOK
    <2> QED
      BY <1>5, <2>2, GotoType, StageNames DEF Stage, TypeOK, files, router
  <1>6. ASSUME NEW p \in Processes, WriteRules(p) PROVE TypeOK'
    BY <1>6, GotoType, StageNames, JobFields DEF WriteRules, TypeOK, files, router
  <1>7. ASSUME NEW p \in Processes, ReplaceConfig(p) PROVE TypeOK'
    BY <1>7, GotoType, StageNames, JobFields DEF ReplaceConfig, TypeOK, files, router, Staged
  <1>8. ASSUME NEW p \in Processes, WriteManifest(p) PROVE TypeOK'
    <2>1. manifest' \in Manifest
      BY <1>8 DEF WriteManifest, TypeOK, Manifest
    <2> QED
      BY <1>8, <2>1, GotoType, LeaveType, StageNames DEF WriteManifest, TypeOK, Units
  <1>9. ASSUME NEW p \in Processes, Restart(p) PROVE TypeOK'
    <2>1. \A stage \in Stages : [pc EXCEPT ![p] = stage] \in [Processes -> Stages]
      BY DEF TypeOK
    <2> QED
      BY <1>9, <2>1, RestartUnitType, StageNames DEF Restart, TypeOK, files
  <1>10. ASSUME NEW p \in Processes, Confirm(p) PROVE TypeOK'
    BY <1>10, LeaveType DEF Confirm, TypeOK, files, router
  <1>11. ASSUME NEW p \in Processes, NotConfirmed(p) PROVE TypeOK'
    BY <1>11, GotoType, LeaveType, StageNames DEF NotConfirmed, TypeOK, files, router
  <1>12. ASSUME NEW p \in Processes, UndoRules(p) PROVE TypeOK'
    BY <1>12, GotoType, StageNames, JobFields DEF UndoRules, TypeOK, files, router
  <1>13. ASSUME NEW p \in Processes, UndoConfig(p) PROVE TypeOK'
    BY <1>13, GotoType, StageNames, JobFields DEF UndoConfig, TypeOK, files, router
  <1>14. ASSUME NEW p \in Processes, UndoManifest(p) PROVE TypeOK'
    BY <1>14, GotoType, StageNames, JobFields, LeaveType DEF UndoManifest, TypeOK, files, router, Units
  <1>15. ASSUME NEW p \in Processes, Fails(p) PROVE TypeOK'
    <2>0. Fault
      BY <1>15 DEF Fails
    <2>1. faults' \in 0..MaxFaults
      BY <2>0, RulesAssumption DEF Fault, TypeOK
    <2>2. pc' \in [Processes -> Stages] /\ job' \in [Processes -> Job]
            /\ lock' \in Processes \cup {None}
      BY <1>15, GotoType, LeaveType, StageNames DEF Fails, TypeOK
    <2>3. unit' \in Units
      BY <1>15 DEF Fails, TypeOK, Units
    <2>4. cut' \in BOOLEAN
      BY <1>15, Zenon DEF Fails, TypeOK
    <2> QED
      BY <1>15, <2>1, <2>2, <2>3, <2>4 DEF Fails, TypeOK, files
  <1>16. ASSUME NEW p \in Processes, Dies(p) PROVE TypeOK'
    <2>1. faults' \in 0..MaxFaults
      BY <1>16, RulesAssumption DEF Dies, Fault, TypeOK
    <2> QED
      BY <1>16, <2>1, LeaveType DEF Dies, TypeOK, files, router
  <1>17. CASE RouterUp
    BY <1>17 DEF RouterUp, TypeOK, Units, files
  <1>18. CASE AutoRestart
    <2>1. pc \in [Processes -> Stages]
      BY DEF TypeOK
    <2> QED
      BY <1>18, <2>1, RestartUnitType DEF AutoRestart, TypeOK, files
  <1>19. CASE OutsideRestart
    <2>1. faults' \in 0..MaxFaults
      BY <1>19, RulesAssumption DEF OutsideRestart, Fault, TypeOK
    <2>2. pc \in [Processes -> Stages]
      BY DEF TypeOK
    <2> QED
      BY <1>19, <2>1, <2>2, RestartUnitType DEF OutsideRestart, TypeOK, files
  <1>20. CASE UNCHANGED vars
    BY <1>20 DEF TypeOK, vars, files, router
  <1> QED
    BY <1>1, <1>2, <1>3, <1>4, <1>5, <1>6, <1>7, <1>8, <1>9, <1>10, <1>11, <1>12, <1>13, <1>14, <1>15, <1>16, <1>17, <1>18, <1>19, <1>20 DEF Next, Step
-----------------------------------------------------------------------------
(* What a step of p leaves of the others. *)

LEMMA GotoEffect ==
    ASSUME TypeOK, NEW p \in Processes, NEW stage, Goto(p, stage)
    PROVE  /\ pc'[p] = stage
           /\ \A q \in Processes \ {p} : pc'[q] = pc[q]
  BY DEF TypeOK, Goto

LEMMA LeaveEffect ==
    ASSUME TypeOK, NEW p \in Processes, Leave(p)
    PROVE  /\ pc'[p] = "idle" /\ job'[p] = NoJob
           /\ \A q \in Processes \ {p} : pc'[q] = pc[q] /\ job'[q] = job[q]
           /\ lock # p => lock' = lock
  BY GotoEffect DEF TypeOK, Leave

LEMMA RequestEffect ==
    ASSUME TypeOK, NEW p \in Processes, Request(p)
    PROVE  /\ pc'[p] = "lock" /\ job'[p].manifest = NoJob.manifest
           /\ p \in Web => /\ job'[p].expected = {rules}
                           /\ job'[p].wanted = Edited(job'[p].edit, rules)
           /\ \A q \in Processes \ {p} : pc'[q] = pc[q] /\ job'[q] = job[q]
           /\ UNCHANGED files
  <1>1. PICK edit \in Edits :
           job' = [job EXCEPT ![p] =
                     [NoJob EXCEPT !.edit = edit, !.wanted = Edited(edit, rules),
                                   !.expected = IF p \in Web THEN {rules} ELSE {}]]
    BY DEF Request
  <1>2. job'[p] = [NoJob EXCEPT !.edit = edit, !.wanted = Edited(edit, rules),
                                !.expected = IF p \in Web THEN {rules} ELSE {}]
    BY <1>1 DEF TypeOK
  <1>3. /\ job'[p].manifest = NoJob.manifest /\ job'[p].edit = edit
        /\ job'[p].expected = IF p \in Web THEN {rules} ELSE {}
        /\ job'[p].wanted = Edited(edit, rules)
    BY <1>2 DEF NoJob
  <1> QED
    BY <1>1, <1>3, GotoEffect DEF Request, TypeOK

LEMMA StageEffect ==
    ASSUME TypeOK, NEW p \in Processes, Stage(p)
    PROVE  /\ pc[p] = "check" /\ pc'[p] = "rules" /\ ~Stale(p)
           /\ job'[p].manifest = manifest /\ job'[p].edit = job[p].edit
           /\ job'[p].expected = job[p].expected /\ job'[p].wanted = job[p].wanted
           /\ \A q \in Processes \ {p} : pc'[q] = pc[q] /\ job'[q] = job[q]
           /\ UNCHANGED files
  <1>1. job'[p] = [job[p] EXCEPT !.rules = rules, !.config = config, !.manifest = manifest]
    BY DEF Stage, TypeOK
  <1>2. /\ job'[p].manifest = manifest /\ job'[p].edit = job[p].edit
        /\ job'[p].expected = job[p].expected /\ job'[p].wanted = job[p].wanted
    BY <1>1, JobFields DEF Job
  <1> QED
    BY <1>2, GotoEffect DEF Stage, TypeOK

\* A restart touches the Starter alone.
LEMMA RestartUnitEffect ==
    ASSUME TypeOK, NEW stages \in [Processes -> Stages], RestartUnit(stages)
    PROVE  /\ pc'[Starter] \in {"load", "idle"} /\ job'[Starter] = NoJob
           /\ \A q \in Processes \ {Starter} : pc'[q] = stages[q] /\ job'[q] = job[q]
           /\ lock # Starter => lock' = lock
  BY Actors DEF TypeOK, RestartUnit, LockAfterKill

LEMMA RestartEffect ==
    ASSUME TypeOK, NEW p \in Processes, Restart(p)
    PROVE  /\ pc[p] \in {"restart", "undo restart"}
           /\ pc'[Starter] \in {"load", "idle"} /\ job'[Starter] = NoJob
           /\ p # Starter => pc'[p] \in {"wait", "undo wait"} /\ job'[p] = job[p]
           /\ \A q \in Processes \ {p, Starter} : pc'[q] = pc[q] /\ job'[q] = job[q]
           /\ lock # Starter => lock' = lock
           /\ UNCHANGED files
  <1>1. PICK stage \in {"wait", "undo wait"} :
            RestartUnit([pc EXCEPT ![p] = stage]) /\ pc[p] \in {"restart", "undo restart"}
    BY DEF Restart
  <1>2. [pc EXCEPT ![p] = stage] \in [Processes -> Stages]
    BY StageNames DEF TypeOK
  <1>3. /\ pc'[Starter] \in {"load", "idle"} /\ job'[Starter] = NoJob
        /\ \A q \in Processes \ {Starter} :
              pc'[q] = [pc EXCEPT ![p] = stage][q] /\ job'[q] = job[q]
        /\ lock # Starter => lock' = lock
    BY <1>1, <1>2, RestartUnitEffect
  <1> QED
    BY <1>1, <1>3 DEF Restart, TypeOK

LEMMA OutsideEffect ==
    ASSUME TypeOK, AutoRestart \/ OutsideRestart
    PROVE  /\ pc'[Starter] \in {"load", "idle"} /\ job'[Starter] = NoJob
           /\ \A q \in Processes \ {Starter} : pc'[q] = pc[q] /\ job'[q] = job[q]
           /\ lock # Starter => lock' = lock
           /\ UNCHANGED files
  <1>1. RestartUnit(pc) /\ pc \in [Processes -> Stages]
    BY DEF AutoRestart, OutsideRestart, TypeOK
  <1> QED
    BY <1>1, RestartUnitEffect DEF AutoRestart, OutsideRestart

LEMMA FailsEffect ==
    ASSUME TypeOK, NEW p \in Processes, Fails(p) \/ Dies(p)
    PROVE  /\ \/ pc'[p] = "undo rules" /\ job'[p] = job[p] /\ lock' = lock
                 /\ pc[p] \in Writing \cup {"restart", "wait"}
              \/ pc'[p] = "idle" /\ job'[p] = NoJob
           /\ \A q \in Processes \ {p} : pc'[q] = pc[q] /\ job'[q] = job[q]
           /\ lock # p => lock' = lock
           /\ UNCHANGED files
  <1>1. \/ Goto(p, "undo rules") /\ UNCHANGED <<job, lock>>
           /\ pc[p] \in Writing \cup {"restart", "wait"}
        \/ Leave(p)
    BY DEF Fails, Dies
  <1> QED
    BY <1>1, GotoEffect, LeaveEffect DEF Fails, Dies, TypeOK
-----------------------------------------------------------------------------
(* The lock. *)

LEMMA LockStep ==
    ASSUME IInv, [Next]_vars
    PROVE  LockInv'
  <1> USE Actors, StageNames DEF IInv
  <1>1. ASSUME NEW p \in Processes, Restart(p) PROVE LockInv'
    BY <1>1, RestartEffect DEF LockInv
  <1>2. ASSUME NEW p \in Processes, Fails(p) \/ Dies(p) PROVE LockInv'
    BY <1>2, FailsEffect DEF LockInv, Writing
  <1>3. CASE AutoRestart \/ OutsideRestart
    BY <1>3, OutsideEffect DEF LockInv
  <1>4. ASSUME NEW p \in Processes, Request(p) PROVE LockInv'
    BY <1>4, GotoEffect, LeaveEffect DEF Request, LockInv
  <1>5. ASSUME NEW p \in Processes, LoadAtStart(p) PROVE LockInv'
    BY <1>5, GotoEffect, LeaveEffect DEF LoadAtStart, LockInv
  <1>6. ASSUME NEW p \in Processes, TakeLock(p) PROVE LockInv'
    BY <1>6, GotoEffect, LeaveEffect DEF TakeLock, LockInv
  <1>7. ASSUME NEW p \in Processes, RefuseConflict(p) PROVE LockInv'
    BY <1>7, GotoEffect, LeaveEffect DEF RefuseConflict, LockInv
  <1>8. ASSUME NEW p \in Processes, Stage(p) PROVE LockInv'
    BY <1>8, GotoEffect, LeaveEffect DEF Stage, LockInv
  <1>9. ASSUME NEW p \in Processes, WriteRules(p) PROVE LockInv'
    BY <1>9, GotoEffect, LeaveEffect DEF WriteRules, LockInv
  <1>10. ASSUME NEW p \in Processes, ReplaceConfig(p) PROVE LockInv'
    BY <1>10, GotoEffect, LeaveEffect DEF ReplaceConfig, LockInv
  <1>11. ASSUME NEW p \in Processes, WriteManifest(p) PROVE LockInv'
    BY <1>11, GotoEffect, LeaveEffect DEF WriteManifest, LockInv
  <1>12. ASSUME NEW p \in Processes, Confirm(p) PROVE LockInv'
    BY <1>12, GotoEffect, LeaveEffect DEF Confirm, LockInv
  <1>13. ASSUME NEW p \in Processes, NotConfirmed(p) PROVE LockInv'
    BY <1>13, GotoEffect, LeaveEffect DEF NotConfirmed, LockInv
  <1>14. ASSUME NEW p \in Processes, UndoRules(p) PROVE LockInv'
    BY <1>14, GotoEffect, LeaveEffect DEF UndoRules, LockInv
  <1>15. ASSUME NEW p \in Processes, UndoConfig(p) PROVE LockInv'
    BY <1>15, GotoEffect, LeaveEffect DEF UndoConfig, LockInv
  <1>16. ASSUME NEW p \in Processes, UndoManifest(p) PROVE LockInv'
    BY <1>16, GotoEffect, LeaveEffect DEF UndoManifest, LockInv
  <1>17. CASE RouterUp
    BY <1>17 DEF RouterUp, LockInv, files, router
  <1>18. CASE UNCHANGED vars
    BY <1>18 DEF vars, LockInv, files, router
  <1> QED
    BY <1>1, <1>2, <1>3, <1>4, <1>5, <1>6, <1>7, <1>8, <1>9, <1>10, <1>11, <1>12, <1>13, <1>14, <1>15, <1>16, <1>17, <1>18 DEF Next, Step
-----------------------------------------------------------------------------
(* The files. *)

LEMMA FilesKept ==
    ASSUME FilesInv, UNCHANGED files,
           \A q \in Processes :
              /\ Uniform(job'[q].manifest)
              /\ pc'[q] \in {"config", "manifest"} => pc'[q] = pc[q] /\ job'[q] = job[q]
    PROVE  FilesInv'
  BY DEF FilesInv, files, Uniform

\* Nobody else is between writes when p is inside the lock.
LEMMA Alone ==
    ASSUME LockInv, NEW p \in Processes, pc[p] \in Locked,
           NEW q \in Processes, q # p
    PROVE  pc[q] \notin Locked
  BY DEF LockInv

LEMMA FilesStep ==
    ASSUME IInv, [Next]_vars
    PROVE  FilesInv'
  <1> USE Actors, StageNames DEF IInv
  <1>0. Uniform(NoJob.manifest) /\ \A q \in Processes : Uniform(job[q].manifest)
    BY DEF NoJob, Uniform, FilesInv
  <1>1. ASSUME NEW p \in Processes, Restart(p) PROVE FilesInv'
    BY <1>0, <1>1, RestartEffect, FilesKept
  <1>2. ASSUME NEW p \in Processes, Fails(p) \/ Dies(p) PROVE FilesInv'
    BY <1>0, <1>2, FailsEffect, FilesKept
  <1>3. CASE AutoRestart \/ OutsideRestart
    BY <1>0, <1>3, OutsideEffect, FilesKept
  <1>4. ASSUME NEW p \in Processes, Request(p) PROVE FilesInv'
    BY <1>0, <1>4, RequestEffect, FilesKept
  <1>5. ASSUME NEW p \in Processes, LoadAtStart(p) PROVE FilesInv'
    <2>1. pc'[p] = "lock" /\ Uniform(job'[p].manifest)
            /\ \A q \in Processes \ {p} : pc'[q] = pc[q] /\ job'[q] = job[q]
      BY <1>0, <1>5, GotoEffect DEF LoadAtStart, TypeOK, NoJob, FilesInv
    <2> QED
      BY <1>0, <1>5, <2>1, FilesKept DEF LoadAtStart
  <1>6. ASSUME NEW p \in Processes, TakeLock(p) PROVE FilesInv'
    BY <1>0, <1>6, GotoEffect, LeaveEffect, FilesKept DEF TakeLock
  <1>7. ASSUME NEW p \in Processes, RefuseConflict(p) PROVE FilesInv'
    BY <1>0, <1>7, GotoEffect, LeaveEffect, FilesKept DEF RefuseConflict
  <1>8. ASSUME NEW p \in Processes, Stage(p) PROVE FilesInv'
    BY <1>0, <1>8, StageEffect, FilesKept DEF FilesInv
  <1>9. ASSUME NEW p \in Processes, WriteRules(p) PROVE FilesInv'
    <2>1. pc[p] \in Locked /\ (\A q \in Processes \ {p} : pc'[q] = pc[q])
            /\ pc'[p] = "config" /\ job' = job
      BY <1>9, GotoEffect DEF WriteRules
    <2>2. \A q \in Processes \ {p} : pc'[q] \notin {"config", "manifest"}
      BY <2>1, Alone
    <2> QED
      BY <1>9, <2>1, <2>2 DEF WriteRules, FilesInv, Uniform, Staged
  <1>10. ASSUME NEW p \in Processes, ReplaceConfig(p) PROVE FilesInv'
    <2>1. pc[p] \in Locked /\ (\A q \in Processes \ {p} : pc'[q] = pc[q])
            /\ pc'[p] = "manifest" /\ job' = job
      BY <1>10, GotoEffect DEF ReplaceConfig
    <2>2. \A q \in Processes \ {p} : pc'[q] \notin {"config", "manifest"}
      BY <2>1, Alone
    <2> QED
      BY <1>10, <2>1, <2>2 DEF ReplaceConfig, FilesInv, Uniform, Staged
  <1>11. ASSUME NEW p \in Processes, WriteManifest(p) PROVE FilesInv'
    <2>1. Uniform(manifest')
      BY <1>11 DEF WriteManifest, FilesInv, Uniform
    <2>2. \A q \in Processes : Uniform(job'[q].manifest)
      BY <1>0, <1>11, LeaveEffect DEF WriteManifest
    <2>3. /\ pc[p] \in Locked /\ pc'[p] \notin {"config", "manifest"}
          /\ \A q \in Processes \ {p} : pc'[q] = pc[q]
      BY <1>11, GotoEffect, LeaveEffect DEF WriteManifest
    <2>4. \A q \in Processes : pc'[q] \notin {"config", "manifest"}
      BY <2>3, Alone
    <2> QED
      BY <2>1, <2>2, <2>4 DEF FilesInv, Uniform
  <1>12. ASSUME NEW p \in Processes, Confirm(p) PROVE FilesInv'
    BY <1>0, <1>12, GotoEffect, LeaveEffect, FilesKept DEF Confirm
  <1>13. ASSUME NEW p \in Processes, NotConfirmed(p) PROVE FilesInv'
    BY <1>0, <1>13, GotoEffect, LeaveEffect, FilesKept DEF NotConfirmed
  <1>14. ASSUME NEW p \in Processes, UndoRules(p) PROVE FilesInv'
    <2>1. pc[p] \in Locked /\ (\A q \in Processes \ {p} : pc'[q] = pc[q])
            /\ pc'[p] = "undo config" /\ job' = job
      BY <1>14, GotoEffect DEF UndoRules
    <2>2. \A q \in Processes \ {p} : pc'[q] \notin {"config", "manifest"}
      BY <2>1, Alone
    <2> QED
      BY <1>14, <2>1, <2>2 DEF UndoRules, FilesInv, Uniform, Staged
  <1>15. ASSUME NEW p \in Processes, UndoConfig(p) PROVE FilesInv'
    <2>1. pc[p] \in Locked /\ (\A q \in Processes \ {p} : pc'[q] = pc[q])
            /\ pc'[p] = "undo manifest" /\ job' = job
      BY <1>15, GotoEffect DEF UndoConfig
    <2>2. \A q \in Processes \ {p} : pc'[q] \notin {"config", "manifest"}
      BY <2>1, Alone
    <2> QED
      BY <1>15, <2>1, <2>2 DEF UndoConfig, FilesInv, Uniform, Staged
  <1>16. ASSUME NEW p \in Processes, UndoManifest(p) PROVE FilesInv'
    <2>1. Uniform(manifest')
      BY <1>16 DEF UndoManifest, FilesInv, Uniform
    <2>2. \A q \in Processes : Uniform(job'[q].manifest)
      BY <1>0, <1>16, LeaveEffect DEF UndoManifest
    <2>3. /\ pc[p] \in Locked /\ pc'[p] \notin {"config", "manifest"}
          /\ \A q \in Processes \ {p} : pc'[q] = pc[q]
      BY <1>16, GotoEffect, LeaveEffect DEF UndoManifest
    <2>4. \A q \in Processes : pc'[q] \notin {"config", "manifest"}
      BY <2>3, Alone
    <2> QED
      BY <2>1, <2>2, <2>4 DEF FilesInv, Uniform
  <1>17. CASE RouterUp
    BY <1>17 DEF RouterUp, FilesInv, files, router
  <1>18. CASE UNCHANGED vars
    BY <1>18 DEF vars, FilesInv, files, router
  <1> QED
    BY <1>1, <1>2, <1>3, <1>4, <1>5, <1>6, <1>7, <1>8, <1>9, <1>10, <1>11, <1>12, <1>13, <1>14, <1>15, <1>16, <1>17, <1>18 DEF Next, Step
-----------------------------------------------------------------------------
(* The requests of the page. *)

LEMMA PageKept ==
    ASSUME PageInv,
           \A q \in Web : pc'[q] \in {"lock", "check", "rules"} =>
              pc'[q] = pc[q] /\ job'[q] = job[q] /\ (pc[q] = "rules" => rules' = rules)
    PROVE  PageInv'
  BY DEF PageInv

LEMMA PageStep ==
    ASSUME IInv, [Next]_vars
    PROVE  PageInv'
  <1> USE Actors, StageNames DEF IInv
  <1>1. ASSUME NEW p \in Processes, Restart(p) PROVE PageInv'
    BY <1>1, RestartEffect, PageKept DEF files
  <1>2. ASSUME NEW p \in Processes, Fails(p) \/ Dies(p) PROVE PageInv'
    BY <1>2, FailsEffect, PageKept DEF files
  <1>3. CASE AutoRestart \/ OutsideRestart
    BY <1>3, OutsideEffect, PageKept DEF files
  <1>4. ASSUME NEW p \in Processes, Request(p) PROVE PageInv'
    <2>1. rules \in RuleSets /\ rules' = rules
      BY <1>4, RequestEffect DEF TypeOK, files
    <2>2. ASSUME NEW q \in Web, q # p, pc'[q] \in {"lock", "check", "rules"}
          PROVE  pc'[q] = pc[q] /\ job'[q] = job[q]
      BY <1>4, <2>2, RequestEffect
    <2> SUFFICES ASSUME NEW q \in Web
                 PROVE  /\ pc'[q] \in {"lock", "check", "rules"} =>
                              \E found \in RuleSets :
                                 /\ job'[q].expected = {found}
                                 /\ job'[q].wanted = Edited(job'[q].edit, found)
                        /\ pc'[q] = "rules" => rules' \in job'[q].expected
      BY DEF PageInv
    <2>3. CASE q = p
      BY <1>4, <2>1, <2>3, RequestEffect
    <2>4. CASE q # p
      BY <2>1, <2>2, <2>4 DEF PageInv
    <2> QED
      BY <2>3, <2>4
  <1>5. ASSUME NEW p \in Processes, LoadAtStart(p) PROVE PageInv'
    <2>1. p \notin Web
      BY <1>5 DEF LoadAtStart, LockInv, Clients
    <2>2. \A q \in Processes \ {p} : pc'[q] = pc[q] /\ job'[q] = job[q]
      BY <1>5, GotoEffect DEF LoadAtStart, TypeOK
    <2>3. rules' = rules
      BY <1>5 DEF LoadAtStart, files
    <2> QED
      BY <2>1, <2>2, <2>3, PageKept
  <1>6. ASSUME NEW p \in Processes, TakeLock(p) PROVE PageInv'
    BY <1>6, GotoEffect DEF TakeLock, PageInv, files
  <1>7. ASSUME NEW p \in Processes, RefuseConflict(p) PROVE PageInv'
    BY <1>7, GotoEffect, LeaveEffect, PageKept DEF RefuseConflict, files
  <1>8. ASSUME NEW p \in Processes, Stage(p) PROVE PageInv'
    <2>1. rules' = rules
      BY <1>8, StageEffect DEF files
    <2>2. p \in Web => rules \in job[p].expected
      BY <1>8, StageEffect DEF Stale, PageInv
    <2>3. ASSUME NEW q \in Web, q # p
          PROVE  pc'[q] = pc[q] /\ job'[q] = job[q]
      BY <1>8, <2>3, StageEffect
    <2> SUFFICES ASSUME NEW q \in Web
                 PROVE  /\ pc'[q] \in {"lock", "check", "rules"} =>
                              \E found \in RuleSets :
                                 /\ job'[q].expected = {found}
                                 /\ job'[q].wanted = Edited(job'[q].edit, found)
                        /\ pc'[q] = "rules" => rules' \in job'[q].expected
      BY DEF PageInv
    <2>4. CASE q = p
      <3>1. pc[q] = "check" /\ q \in Web
        BY <1>8, <2>4, StageEffect
      <3>2. \E found \in RuleSets : /\ job[q].expected = {found}
                                    /\ job[q].wanted = Edited(job[q].edit, found)
        BY <3>1 DEF PageInv
      <3> QED
        BY <1>8, <2>1, <2>2, <2>4, <3>2, StageEffect
    <2>5. CASE q # p
      BY <2>1, <2>3, <2>5 DEF PageInv
    <2> QED
      BY <2>4, <2>5
  <1>9. ASSUME NEW p \in Processes, WriteRules(p) PROVE PageInv'
    <2>1. pc[p] \in Locked /\ pc'[p] \notin {"lock", "check", "rules"}
            /\ (\A q \in Processes \ {p} : pc'[q] = pc[q] /\ job'[q] = job[q])
      BY <1>9, GotoEffect, LeaveEffect DEF WriteRules
    <2>2. \A q \in Processes \ {p} : pc[q] # "rules"
      BY <2>1, Alone
    <2> QED
      BY <2>1, <2>2, PageKept
  <1>10. ASSUME NEW p \in Processes, ReplaceConfig(p) PROVE PageInv'
    BY <1>10, GotoEffect, LeaveEffect, Alone, PageKept DEF ReplaceConfig
  <1>11. ASSUME NEW p \in Processes, WriteManifest(p) PROVE PageInv'
    BY <1>11, GotoEffect, LeaveEffect, Alone, PageKept DEF WriteManifest
  <1>12. ASSUME NEW p \in Processes, Confirm(p) PROVE PageInv'
    BY <1>12, GotoEffect, LeaveEffect, PageKept DEF Confirm, files
  <1>13. ASSUME NEW p \in Processes, NotConfirmed(p) PROVE PageInv'
    BY <1>13, GotoEffect, LeaveEffect, PageKept DEF NotConfirmed, files
  <1>14. ASSUME NEW p \in Processes, UndoRules(p) PROVE PageInv'
    <2>1. pc[p] \in Locked /\ pc'[p] \notin {"lock", "check", "rules"}
            /\ (\A q \in Processes \ {p} : pc'[q] = pc[q] /\ job'[q] = job[q])
      BY <1>14, GotoEffect, LeaveEffect DEF UndoRules
    <2>2. \A q \in Processes \ {p} : pc[q] # "rules"
      BY <2>1, Alone
    <2> QED
      BY <2>1, <2>2, PageKept
  <1>15. ASSUME NEW p \in Processes, UndoConfig(p) PROVE PageInv'
    BY <1>15, GotoEffect, LeaveEffect, Alone, PageKept DEF UndoConfig
  <1>16. ASSUME NEW p \in Processes, UndoManifest(p) PROVE PageInv'
    BY <1>16, GotoEffect, LeaveEffect, Alone, PageKept DEF UndoManifest
  <1>17. CASE RouterUp
    BY <1>17 DEF RouterUp, PageInv, files, router
  <1>18. CASE UNCHANGED vars
    BY <1>18 DEF vars, PageInv, files, router
  <1> QED
    BY <1>1, <1>2, <1>3, <1>4, <1>5, <1>6, <1>7, <1>8, <1>9, <1>10, <1>11, <1>12, <1>13, <1>14, <1>15, <1>16, <1>17, <1>18 DEF Next, Step
-----------------------------------------------------------------------------
(* The restart of a commit. *)

\* While a client restarts the unit the files hold its change, and a router that
\* came up since has read it: nobody else writes, and the Starter that runs
\* meanwhile cannot enter the lock.
AppliedInv ==
    \A p \in Clients :
        /\ pc[p] \in Restarting => rules = job[p].wanted /\ config = job[p].wanted
        /\ pc[p] = "wait" /\ unit = "active" => running = job[p].wanted

LEMMA RestartingNames == Restarting = {"restart", "wait"} /\ Restarting \subseteq Locked
  BY DEF Restarting, Locked

\* A step that leaves the files and the router, unless it stops the unit.
LEMMA AppliedKept ==
    ASSUME AppliedInv, UNCHANGED files, running' = running,
           unit' = unit \/ unit' # "active",
           \A q \in Clients : pc'[q] \in {"restart", "wait"} =>
              /\ job'[q] = job[q]
              /\ pc'[q] = pc[q] \/ (pc[q] = "restart" /\ unit' # "active")
    PROVE  AppliedInv'
  BY RestartingNames DEF AppliedInv, files

\* A step of the holder of the lock after which it is not restarting: nobody is.
LEMMA NoneRestarting ==
    ASSUME LockInv, NEW p \in Processes, pc[p] \in Locked, pc'[p] \notin {"restart", "wait"},
           \A q \in Processes \ {p} : pc'[q] = pc[q]
    PROVE  AppliedInv'
  <1>1. \A q \in Processes : pc'[q] \notin Restarting
    BY Alone, RestartingNames
  <1> QED
    BY <1>1, Actors, RestartingNames DEF AppliedInv

LEMMA AppliedStep ==
    ASSUME IInv, AppliedInv, [Next]_vars
    PROVE  AppliedInv'
  <1> USE Actors DEF IInv
  <1>1. ASSUME NEW p \in Processes, Restart(p) PROVE AppliedInv'
    <2>1. unit' # "active" /\ running' = running
      BY <1>1 DEF Restart, RestartUnit
    <2>2. ASSUME NEW q \in Clients, pc'[q] \in {"restart", "wait"}
          PROVE  job'[q] = job[q] /\ (pc'[q] = pc[q] \/ pc[q] = "restart")
      <3>1. CASE q # p
        BY <1>1, <2>2, <3>1, RestartEffect
      <3>2. CASE q = p
        <4>1. CASE pc[p] = "restart"
          BY <1>1, <3>2, <4>1, RestartEffect
        <4>2. CASE RestartUnit([pc EXCEPT ![p] = "undo wait"])
          BY <2>2, <3>2, <4>2 DEF RestartUnit, TypeOK
        <4> QED
          BY <1>1, <4>1, <4>2 DEF Restart
      <3> QED
        BY <3>1, <3>2
    <2> QED
      BY <1>1, <2>1, <2>2, RestartEffect, AppliedKept
  <1>2. ASSUME NEW p \in Processes, Fails(p) \/ Dies(p) PROVE AppliedInv'
    <2>1. running' = running /\ (unit' = unit \/ unit' # "active")
      BY <1>2 DEF Fails, Dies, router
    <2> QED
      BY <1>2, <2>1, FailsEffect, AppliedKept
  <1>3. CASE AutoRestart \/ OutsideRestart
    <2>1. running' = running /\ unit' # "active"
      BY <1>3 DEF AutoRestart, OutsideRestart, RestartUnit
    <2> QED
      BY <1>3, <2>1, OutsideEffect, AppliedKept
  <1>4. ASSUME NEW p \in Processes, Request(p) PROVE AppliedInv'
    <2>1. /\ pc'[p] = "lock" /\ \A q \in Processes \ {p} : pc'[q] = pc[q] /\ job'[q] = job[q]
          /\ UNCHANGED files /\ running' = running /\ unit' = unit
      BY <1>4, RequestEffect DEF Request, router
    <2> QED
      BY <2>1, AppliedKept
  <1>5. ASSUME NEW p \in Processes, LoadAtStart(p) PROVE AppliedInv'
    <2>1. pc'[p] = "lock" /\ \A q \in Processes \ {p} : pc'[q] = pc[q] /\ job'[q] = job[q]
      BY <1>5, GotoEffect DEF LoadAtStart, TypeOK
    <2>2. UNCHANGED files /\ running' = running /\ unit' = unit
      BY <1>5 DEF LoadAtStart, router
    <2> QED
      BY <2>1, <2>2, AppliedKept
  <1>6. ASSUME NEW p \in Processes, TakeLock(p) PROVE AppliedInv'
    <2>1. /\ pc'[p] = "check" /\ \A q \in Processes \ {p} : pc'[q] = pc[q] /\ job'[q] = job[q]
          /\ UNCHANGED files /\ running' = running /\ unit' = unit
      BY <1>6, GotoEffect DEF TakeLock, router
    <2> QED
      BY <2>1, AppliedKept
  <1>7. ASSUME NEW p \in Processes, RefuseConflict(p) PROVE AppliedInv'
    <2>1. /\ pc'[p] = "idle" /\ \A q \in Processes \ {p} : pc'[q] = pc[q] /\ job'[q] = job[q]
          /\ UNCHANGED files /\ running' = running /\ unit' = unit
      BY <1>7, LeaveEffect DEF RefuseConflict, router
    <2> QED
      BY <2>1, AppliedKept
  <1>8. ASSUME NEW p \in Processes, Stage(p) PROVE AppliedInv'
    <2>1. /\ pc'[p] = "rules" /\ \A q \in Processes \ {p} : pc'[q] = pc[q] /\ job'[q] = job[q]
          /\ UNCHANGED files /\ running' = running /\ unit' = unit
      BY <1>8, StageEffect DEF Stage, router
    <2> QED
      BY <2>1, AppliedKept
  <1>9. ASSUME NEW p \in Processes, WriteRules(p) PROVE AppliedInv'
    <2>1. /\ pc[p] \in Locked /\ pc'[p] \notin {"restart", "wait"}
          /\ \A q \in Processes \ {p} : pc'[q] = pc[q]
      BY <1>9, GotoEffect, StageNames DEF WriteRules
    <2> QED
      BY <2>1, NoneRestarting
  <1>10. ASSUME NEW p \in Processes, ReplaceConfig(p) PROVE AppliedInv'
    <2>1. /\ pc[p] \in Locked /\ pc'[p] \notin {"restart", "wait"}
          /\ \A q \in Processes \ {p} : pc'[q] = pc[q]
      BY <1>10, GotoEffect, StageNames DEF ReplaceConfig
    <2> QED
      BY <2>1, NoneRestarting
  <1>11. ASSUME NEW p \in Processes, WriteManifest(p) PROVE AppliedInv'
    <2>1. CASE p = Starter
      <3>1. /\ pc[p] \in Locked /\ pc'[p] \notin {"restart", "wait"}
            /\ \A q \in Processes \ {p} : pc'[q] = pc[q]
        BY <1>11, <2>1, StageNames, LeaveEffect DEF WriteManifest
      <3> QED
        BY <3>1, NoneRestarting
    <2>2. CASE p # Starter
      <3>1. /\ pc[p] = "manifest" /\ pc'[p] = "restart" /\ job' = job
            /\ rules' = rules /\ config' = config
            /\ \A q \in Processes \ {p} : pc'[q] = pc[q]
        BY <1>11, <2>2, GotoEffect DEF WriteManifest
      <3>2. rules = job[p].wanted /\ config = job[p].wanted
        BY <3>1 DEF FilesInv
      <3>3. \A q \in Processes \ {p} : pc'[q] \notin Restarting
        BY <3>1, Alone, StageNames, RestartingNames
      <3> QED
        BY <3>1, <3>2, <3>3, RestartingNames DEF AppliedInv
    <2> QED
      BY <2>1, <2>2
  <1>12. ASSUME NEW p \in Processes, Confirm(p) PROVE AppliedInv'
    <2>1. /\ pc'[p] = "idle" /\ \A q \in Processes \ {p} : pc'[q] = pc[q] /\ job'[q] = job[q]
          /\ UNCHANGED files /\ running' = running /\ unit' = unit
      BY <1>12, LeaveEffect DEF Confirm, router
    <2> QED
      BY <2>1, AppliedKept
  <1>13. ASSUME NEW p \in Processes, NotConfirmed(p) PROVE AppliedInv'
    BY <1>13, GotoEffect, LeaveEffect, AppliedKept DEF NotConfirmed, router
  <1>14. ASSUME NEW p \in Processes, UndoRules(p) PROVE AppliedInv'
    <2>1. /\ pc[p] \in Locked /\ pc'[p] \notin {"restart", "wait"}
          /\ \A q \in Processes \ {p} : pc'[q] = pc[q]
      BY <1>14, GotoEffect, StageNames DEF UndoRules
    <2> QED
      BY <2>1, NoneRestarting
  <1>15. ASSUME NEW p \in Processes, UndoConfig(p) PROVE AppliedInv'
    <2>1. /\ pc[p] \in Locked /\ pc'[p] \notin {"restart", "wait"}
          /\ \A q \in Processes \ {p} : pc'[q] = pc[q]
      BY <1>15, GotoEffect, StageNames DEF UndoConfig
    <2> QED
      BY <2>1, NoneRestarting
  <1>16. ASSUME NEW p \in Processes, UndoManifest(p) PROVE AppliedInv'
    <2>1. /\ pc[p] \in Locked /\ pc'[p] \notin {"restart", "wait"}
          /\ \A q \in Processes \ {p} : pc'[q] = pc[q]
      BY <1>16, GotoEffect, LeaveEffect, StageNames DEF UndoManifest
    <2> QED
      BY <2>1, NoneRestarting
  <1>17. CASE RouterUp
    BY <1>17, RestartingNames DEF RouterUp, AppliedInv, files
  <1>18. CASE UNCHANGED vars
    BY <1>18 DEF vars, AppliedInv, files, router
  <1> QED
    BY <1>1, <1>2, <1>3, <1>4, <1>5, <1>6, <1>7, <1>8, <1>9, <1>10, <1>11, <1>12, <1>13, <1>14, <1>15, <1>16, <1>17, <1>18 DEF Next, Step

\* Only the confirmation of the restart ends a wait without a fault.
LEMMA WaitEndsConfirmed ==
    ASSUME IInv, Next, NEW p \in Clients, pc[p] = "wait", pc'[p] = "idle", faults' = faults
    PROVE  Confirm(p)
  <1>0. faults \in Nat /\ faults + 1 # faults
    BY RulesAssumption DEF IInv, TypeOK
  <1> USE Actors, StageNames DEF IInv
  <1>1. ASSUME NEW q \in Processes, Step(q) PROVE Confirm(p)
    <2>1. CASE q = p
      <3>1. NotConfirmed(p) => pc'[p] = "undo rules"
        BY GotoEffect DEF NotConfirmed
      <3> QED
        BY <1>1, <2>1, <3>1 DEF Step, LoadAtStart, TakeLock, RefuseConflict, Stage,
           WriteRules, ReplaceConfig, WriteManifest, Restart, UndoRules, UndoConfig,
           UndoManifest
    <2>2. CASE q # p
      <3>1. CASE Restart(q)
        BY <2>2, <3>1, RestartEffect
      <3>2. CASE ~Restart(q)
        BY <1>1, <2>2, <3>2, GotoEffect, LeaveEffect, StageEffect DEF Step, LoadAtStart,
           TakeLock, RefuseConflict, WriteRules, ReplaceConfig, WriteManifest, Confirm,
           NotConfirmed, UndoRules, UndoConfig, UndoManifest
      <3> QED
        BY <3>1, <3>2
    <2> QED
      BY <2>1, <2>2
  <1>2. ASSUME NEW q \in Processes, Request(q) PROVE FALSE
    BY <1>2, GotoEffect DEF Request
  <1>3. ASSUME NEW q \in Processes, Fails(q) \/ Dies(q) PROVE FALSE
    <2>1. faults' = faults + 1
      BY <1>3 DEF Fails, Dies, Fault
    <2> QED
      BY <1>0, <2>1, Zenon
  <1>4. CASE AutoRestart \/ OutsideRestart
    BY <1>4, OutsideEffect
  <1>5. CASE RouterUp
    BY <1>5 DEF RouterUp
  <1> QED
    BY <1>1, <1>2, <1>3, <1>4, <1>5 DEF Next
-----------------------------------------------------------------------------
(* Theorems. *)

LEMMA Invariance == Spec => []IInv
  <1>1. IInv /\ [Next]_vars => IInv'
    BY TypeStep, LockStep, FilesStep, PageStep DEF IInv
  <1> QED
    BY <1>1, InitIInv, PTL DEF Spec

\* Every state of the commit is well formed, for any requests and any rules
\* (commit_rules, render_singbox_service).
THEOREM TypeCorrect == Spec => []TypeOK
  BY Invariance, PTL DEF IInv

\* However commits, undos, deaths and restarts interleave, files that agree with
\* the manifest agree with each other: the drift report is sound.
THEOREM DriftReportIsSound == Spec => []DriftIsVisible
  <1>1. IInv => DriftIsVisible
    BY DEF IInv, FilesInv, Uniform, DriftIsVisible
  <1> QED
    BY <1>1, Invariance, PTL

\* A change written for the page is its one edit of the rules it replaces,
\* whatever the command line and the unit commit meanwhile.
THEOREM PageLosesNoUpdate == Spec => WebChangesOneRule
  <1>1. IInv /\ [Next]_vars =>
            [\A p \in Web : pc[p] = "rules" /\ pc'[p] = "config" =>
                rules' = Edited(job[p].edit, rules)]_vars
    <2> SUFFICES ASSUME IInv, Next, NEW p \in Web, pc[p] = "rules", pc'[p] = "config"
                 PROVE  rules' = Edited(job[p].edit, rules)
      OBVIOUS
    <2>1. \E found \in RuleSets : /\ job[p].expected = {found}
                                  /\ job[p].wanted = Edited(job[p].edit, found)
                                  /\ rules = found
      BY DEF IInv, PageInv
    <2>2. WriteRules(p)
      <3> USE Actors, StageNames DEF IInv
      <3>1. ASSUME NEW q \in Processes, Step(q) PROVE WriteRules(p)
        <4>1. CASE q = p
          BY <3>1, <4>1 DEF Step, LoadAtStart, TakeLock, RefuseConflict, Stage, ReplaceConfig,
             WriteManifest, Restart, Confirm, NotConfirmed, UndoRules, UndoConfig, UndoManifest
        <4>2. CASE q # p
          BY <3>1, <4>2, GotoEffect, LeaveEffect, RestartEffect DEF Step, LoadAtStart, TakeLock,
             RefuseConflict, Stage, WriteRules, ReplaceConfig, WriteManifest, Confirm,
             NotConfirmed, UndoRules, UndoConfig, UndoManifest
        <4> QED
          BY <4>1, <4>2
      <3>2. ASSUME NEW q \in Processes, Request(q) PROVE FALSE
        BY <3>2, GotoEffect DEF Request
      <3>3. ASSUME NEW q \in Processes, Fails(q) \/ Dies(q) PROVE FALSE
        BY <3>3, FailsEffect
      <3>4. CASE AutoRestart \/ OutsideRestart
        BY <3>4, OutsideEffect
      <3>5. CASE RouterUp
        BY <3>5 DEF RouterUp
      <3> QED
        BY <3>1, <3>2, <3>3, <3>4, <3>5 DEF Next
    <2> QED
      BY <2>1, <2>2 DEF WriteRules
  <1> QED
    BY <1>1, Invariance, PTL DEF Spec, WebChangesOneRule

\* A change reported as applied is on disk and is what the router runs, for any
\* number of clients and faults before it: a Starter that waits for the lock, a
\* restart from outside or a crash of the router cannot put another
\* configuration under a confirmed restart (admin_apply.commit_rules).
THEOREM AppliedMeansRunning == Spec => SuccessMeansApplied
  <1>1. Init => AppliedInv
    BY Actors DEF Init, AppliedInv, Restarting
  <1>2. IInv /\ AppliedInv /\ [Next]_vars => AppliedInv'
    BY AppliedStep
  <1>3. IInv /\ AppliedInv /\ [Next]_vars =>
            [\A p \in Clients :
                pc[p] = "wait" /\ pc'[p] = "idle" /\ faults' = faults =>
                    running = job[p].wanted /\ rules = job[p].wanted]_vars
    <2> SUFFICES ASSUME IInv, AppliedInv, Next, NEW p \in Clients,
                        pc[p] = "wait", pc'[p] = "idle", faults' = faults
                 PROVE  running = job[p].wanted /\ rules = job[p].wanted
      OBVIOUS
    <2>1. unit = "active"
      BY WaitEndsConfirmed DEF Confirm, Confirmed
    <2> QED
      BY <2>1, RestartingNames DEF AppliedInv
  <1> QED
    BY <1>1, <1>2, <1>3, Invariance, PTL DEF Spec, SuccessMeansApplied
==============================================================================
