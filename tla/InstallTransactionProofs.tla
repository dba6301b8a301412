------------------------ MODULE InstallTransactionProofs ------------------------
(***************************************************************************)
(* Proofs about InstallTransaction for any releases and any number of      *)
(* faults: what the links name is never pruned, a failure is undone, an    *)
(* install leaves one release.                                             *)
(*                                                                         *)
(* Each property looks back over a run, so the invariant says what every   *)
(* stage still knows of the node as the run found it: in the snapshot      *)
(* (SnapshotInv), in the links (LinkInv), in the paths and services        *)
(* (ProgressInv) and in the part already restored (RestoredInv).           *)
(***************************************************************************)
EXTENDS InstallTransaction, TLAPS

Installing == {"publish", "links", "previous", "current", "start", "retire"}
Closing == {"verify", "prune", "commit"}
Taking == {"snapshot", "latest"}

\* Which stages belong to which run, and in what mode.
KindInv ==
    /\ pc = "idle" => run = NoRun
    /\ pc # "idle" /\ run.action = "install" => run.target \in Releases
    /\ pc # "idle" => run.from = found.current
    /\ pc \in Taking => run.action # "rollback" /\ ~run.active
    /\ pc \in Installing => run.action = "install" /\ run.active
    /\ pc \in Closing => \/ run.action = "install" /\ run.active
                         \/ run.action = "rollback"
    /\ run.failing => pc \in Restoring /\ ~run.active
    /\ pc \in Restoring => run.failing \/ run.action # "install"
    /\ pc = "set previous" => run.action = "rollback"
    /\ pc \in {"removed", "purge"} => run.action \in {"remove", "purge"}
    /\ pc # "idle" /\ run.action = "rollback" => latest # None /\ ~run.active /\ ~run.failing
    /\ pc \in Restoring /\ ~run.failing /\ run.action # "rollback" => run.undo = Baseline

SnapshotOfFound ==
    run.snapshot = [current |-> found.current, previous |-> found.previous,
                    owned |-> found.owned \cap Scope, up |-> found.up, scope |-> Scope]

\* The snapshot of a run keeps the node as it was found.
SnapshotInv ==
    /\ pc \in Taking => found = Captured(Releases)
    /\ pc = "latest" => SnapshotOfFound
    /\ run.active \/ run.failing => SnapshotOfFound /\ latest = run.snapshot
    /\ run.failing => run.undo = run.snapshot

\* What was in use when the run began is in use, or is what one of the links names.
LinkInv ==
    /\ LinkTargetsExist
    /\ pc \in Taking \/ run.active \/ run.failing => found.current \in NoneOr(releases)
    /\ pc \in {"publish", "links", "previous"} => current = run.from
    /\ pc \in {"links", "previous", "current"} => run.target \in releases
    /\ pc \in {"current", "start", "retire"} => run.from \in {None, previous}
    /\ pc \in {"verify", "prune"} => latest.current \in {None, current, previous}
    /\ run.action = "rollback" /\ pc \in {"drop previous", "copy previous", "paths",
                                          "services", "set previous"} =>
          current = latest.current
    /\ run.action # "rollback" /\ ~run.failing
       /\ pc \in {"drop previous", "copy previous", "paths", "services"} => current = None
    /\ pc \in {"removed", "purge"} => current = None

\* The paths and the services as far as an install has come.
ProgressInv ==
    /\ pc \in {"publish", "links"} => owned = found.owned
    /\ pc \in {"previous", "current", "start", "retire"} =>
          owned = found.owned \cup {run.target}
    /\ pc \in {"start", "retire"} => current = run.target
    /\ pc = "retire" => running = current
    /\ pc \in Closing /\ run.action = "install" =>
          /\ owned = (found.owned \cup {run.target}) \ Retired
          /\ current = run.target /\ running = current

\* The part of the snapshot that the trap has put back.
RestoredInv ==
    run.failing /\ ~run.skipped =>
        /\ pc \in {"drop previous", "copy previous", "paths", "services"} =>
              current = run.undo.current
        /\ pc \in {"paths", "services"} => previous = run.undo.previous
        /\ pc = "services" =>
              \A release \in run.undo.scope : release \in owned <=> release \in run.undo.owned

IInv == TypeOK /\ KindInv /\ SnapshotInv /\ LinkInv /\ ProgressInv /\ RestoredInv

LEMMA StageNames ==
    /\ Stages = {"idle", "set previous", "removed", "purge"} \cup Taking \cup Installing
                \cup Closing \cup Restoring
    /\ Restoring = {"stop", "drop current", "copy current", "drop previous",
                    "copy previous", "paths", "services"}
    /\ Taking = {"snapshot", "latest"}
    /\ Installing = {"publish", "links", "previous", "current", "start", "retire"}
    /\ Closing = {"verify", "prune", "commit"}
  BY DEF Stages, Changing, Restoring, Taking, Installing, Closing

LEMMA NoneType == Baseline \in Snapshot /\ NoRun \in Run
<1>1. Baseline \in Snapshot
  BY DEF Baseline, Snapshot, NoneOr
<1>2. NoRun \in Run
  BY <1>1 DEF NoRun, Run, NoneOr, Actions
<1> QED
  BY <1>1, <1>2

LEMMA InitIInv == Init => IInv
<1> SUFFICES ASSUME Init PROVE IInv
  OBVIOUS
<1>1. TypeOK
  <2>1. pc \in Stages /\ run \in Run /\ found \in Snapshot
    BY NoneType, StageNames DEF Init
  <2>2. faults \in 0..MaxFaults
    BY InstallAssumption DEF Init
  <2> QED
    BY <2>1, <2>2 DEF Init, TypeOK, NoneOr
<1>2. pc = "idle" /\ run = NoRun /\ current = None /\ latest = None
  BY DEF Init
<1>3. ~run.active /\ ~run.failing /\ run.action # "rollback"
  BY <1>2 DEF NoRun
<1>4. KindInv /\ SnapshotInv /\ ProgressInv /\ RestoredInv
  BY <1>2, <1>3, StageNames DEF KindInv, SnapshotInv, ProgressInv, RestoredInv
<1>5. LinkInv
  BY <1>2, <1>3, StageNames DEF LinkInv, LinkTargetsExist, NoneOr
<1> QED
  BY <1>1, <1>4, <1>5 DEF IInv
-----------------------------------------------------------------------------
(* Ends of a run, and failures. *)

LEMMA CapturedType ==
    ASSUME TypeOK, NEW scope \in SUBSET Releases
    PROVE  Captured(scope) \in Snapshot
  BY DEF TypeOK, Captured, Snapshot

LEMMA ScopeType ==
    ASSUME TypeOK
    PROVE  Scope \in SUBSET Releases /\ run.from \in NoneOr(Releases)
  BY DEF TypeOK, Run, Scope, NoneOr

\* The end of a run leaves nothing to know but the links.
LEMMA EndStep ==
    ASSUME End, TypeOK', LinkTargetsExist'
    PROVE  IInv'
<1>1. pc' = "idle" /\ run' = NoRun
  BY DEF End
<1>2. ~run'.active /\ ~run'.failing /\ run'.action # "rollback"
  BY <1>1 DEF NoRun
<1>3. KindInv' /\ SnapshotInv' /\ ProgressInv' /\ RestoredInv'
  BY <1>1, <1>2, StageNames DEF KindInv, SnapshotInv, ProgressInv, RestoredInv
<1>4. LinkInv'
  BY <1>1, <1>2, StageNames DEF LinkInv
<1> QED
  BY <1>3, <1>4 DEF IInv

LEMMA EndType ==
    ASSUME End
    PROVE  pc' \in Stages /\ run' \in Run /\ found' \in Snapshot
  BY NoneType, StageNames DEF End

\* A command that fails inside a transaction hands its snapshot to the trap.
LEMMA TrapStep ==
    ASSUME IInv, pc # "idle", Trap, UNCHANGED <<node, latest>>,
           releases' \in SUBSET Releases, broken' \in SUBSET (Releases \ releases'),
           faults' \in 0..MaxFaults, LinkTargetsExist',
           run.active => found.current \in NoneOr(releases')
    PROVE  IInv'
<1>1. TypeOK /\ KindInv /\ SnapshotInv
  BY DEF IInv
<1>2. CASE ~run.active
  <2>1. End
    BY <1>2 DEF Trap
  <2>2. TypeOK'
    BY <1>1, <2>1, EndType DEF TypeOK, node
  <2> QED
    BY <2>1, <2>2, EndStep
<1>3. CASE run.active
  <2>1. /\ pc' = "stop" /\ UNCHANGED found
        /\ run' = [run EXCEPT !.active = FALSE, !.failing = TRUE, !.undo = run.snapshot]
    BY <1>3 DEF Trap
  <2>2. run' \in Run
    BY <1>1, <2>1 DEF TypeOK, Run
  <2>3. TypeOK'
    BY <1>1, <2>1, <2>2, StageNames DEF TypeOK, node
  <2>4. /\ ~run'.active /\ run'.failing /\ run'.undo = run.snapshot
        /\ run'.action = run.action /\ run'.target = run.target /\ run'.from = run.from
        /\ run'.snapshot = run.snapshot /\ run'.skipped = run.skipped
    BY <1>1, <2>1 DEF TypeOK, Run
  <2>5. run.action # "rollback"
    BY <1>1, <1>3 DEF KindInv
  <2>6. KindInv'
    BY <1>1, <2>1, <2>4, <2>5, StageNames DEF KindInv
  <2>7. SnapshotInv'
    BY <1>1, <1>3, <2>1, <2>4, StageNames DEF SnapshotInv, SnapshotOfFound, Scope
  <2>8. LinkInv'
    BY <1>3, <2>1, <2>5, <2>4, StageNames DEF LinkInv
  <2>9. ProgressInv' /\ RestoredInv'
    BY <2>1, StageNames DEF ProgressInv, RestoredInv
  <2> QED
    BY <2>3, <2>6, <2>7, <2>8, <2>9 DEF IInv
<1> QED
  BY <1>2, <1>3

\* However pruning stops, it has not touched what the links name.
LEMMA StoppedKeeps ==
    ASSUME IInv, Stopped, UNCHANGED <<node, latest>>
    PROVE  /\ releases' \in SUBSET Releases /\ broken' \in SUBSET (Releases \ releases')
           /\ LinkTargetsExist'
           /\ run.active => found.current \in NoneOr(releases')
<1>1. TypeOK /\ LinkInv /\ LinkTargetsExist /\ KindInv /\ SnapshotInv
  BY DEF IInv, LinkInv
<1>2. CASE UNCHANGED <<releases, broken>>
  BY <1>1, <1>2 DEF TypeOK, LinkInv, LinkTargetsExist, node
<1>3. CASE pc = "prune" /\ PruneStops
  <2>1. PICK gone, half \in SUBSET (Directories \ {current, previous}) :
            /\ releases' = releases \ (gone \cup half)
            /\ broken' = (broken \ gone) \cup half
    BY <1>3 DEF PruneStops
  <2>2. releases' \in SUBSET Releases /\ broken' \in SUBSET (Releases \ releases')
    BY <1>1, <2>1 DEF TypeOK, Directories
  <2>3. releases \cap {current, previous} \subseteq releases'
    BY <2>1
  <2>4. latest.current \in {None, current, previous}
    BY <1>1, <1>3 DEF LinkInv
  <2>5. LinkTargetsExist'
    BY <1>1, <2>3, <2>4 DEF LinkTargetsExist, NoneOr, node
  <2>6. run.active => latest.current = found.current
    BY <1>1 DEF SnapshotInv, SnapshotOfFound
  <2>7. run.active => found.current \in NoneOr(releases')
    BY <1>1, <2>3, <2>4, <2>6 DEF LinkInv, NoneOr
  <2> QED
    BY <2>2, <2>5, <2>7
<1> QED
  BY <1>2, <1>3 DEF Stopped
-----------------------------------------------------------------------------
(* Steps. *)

\* A run begins knowing the node it found.
LEMMA BeginStep ==
    ASSUME IInv, NEW action \in Actions, NEW target \in NoneOr(Releases),
           NEW stage \in {"snapshot", "stop"}, Begin(action, target, stage),
           action = "install" => target \in Releases,
           (stage = "stop") <=> (action = "rollback"),
           stage = "stop" => latest # None,
           current \in NoneOr(releases)
    PROVE  IInv'
<1>1. TypeOK /\ KindInv /\ LinkInv
  BY DEF IInv
<1>2. /\ pc' = stage /\ found' = Captured(Releases)
      /\ UNCHANGED <<releases, broken, current, previous, owned, running, latest, faults>>
  BY DEF Begin, disk, node
<1>3. run' = [NoRun EXCEPT !.action = action, !.target = target, !.from = current]
  BY DEF Begin
<1>4. /\ run'.action = action /\ run'.target = target /\ run'.from = current
      /\ ~run'.active /\ ~run'.failing /\ run'.undo = Baseline
  BY <1>3 DEF NoRun
<1>5. run' \in Run
  BY <1>1, <1>3, NoneType DEF Run, TypeOK
<1>6. found' \in Snapshot /\ found'.current = current
  BY <1>1, <1>2, CapturedType DEF Captured
<1>7. TypeOK'
  BY <1>1, <1>2, <1>5, <1>6, StageNames DEF TypeOK
<1>8. KindInv'
  BY <1>2, <1>4, <1>6, StageNames DEF KindInv
<1>9. SnapshotInv'
  BY <1>2, <1>4, StageNames DEF SnapshotInv, Captured
<1>10. LinkInv'
  BY <1>1, <1>2, <1>4, <1>6, StageNames DEF LinkInv, LinkTargetsExist, Captured
<1>11. ProgressInv' /\ RestoredInv'
  BY <1>2, <1>4, StageNames DEF ProgressInv, RestoredInv
<1> QED
  BY <1>7, <1>8, <1>9, <1>10, <1>11 DEF IInv

LEMMA StartStep ==
    ASSUME IInv, Start
    PROVE  IInv'
<1>1. ASSUME NEW release \in Releases, StartInstall(release)
      PROVE  IInv'
  BY <1>1, BeginStep DEF StartInstall, Actions, NoneOr
<1>2. CASE StartRemove
  <2>1. PICK action \in {"remove", "purge"} : Begin(action, None, "snapshot")
    BY <1>2 DEF StartRemove
  <2> QED
    BY <1>2, <2>1, BeginStep DEF StartRemove, Actions, NoneOr
<1>3. CASE StartRollback
  <2>1. current \in NoneOr(releases)
    BY DEF IInv, LinkInv, LinkTargetsExist
  <2> QED
    BY <1>3, <2>1, BeginStep DEF StartRollback, Actions, NoneOr
<1> QED
  BY <1>1, <1>2, <1>3 DEF Start

LEMMA TakeSnapshotStep ==
    ASSUME IInv, TakeSnapshot
    PROVE  IInv'
<1>1. TypeOK /\ KindInv /\ SnapshotInv /\ LinkInv
  BY DEF IInv
<1>2. /\ pc = "snapshot" /\ pc' = "latest"
      /\ UNCHANGED <<releases, broken, current, previous, owned, running, latest, found, faults>>
  BY DEF TakeSnapshot, disk, node
<1>3. run' = [run EXCEPT !.snapshot = Captured(Scope)]
  BY DEF TakeSnapshot
<1>4. /\ run'.snapshot = Captured(Scope) /\ run'.action = run.action
      /\ run'.target = run.target /\ run'.from = run.from /\ run'.active = run.active
      /\ run'.failing = run.failing
  BY <1>1, <1>3 DEF TypeOK, Run
<1>5. run' \in Run
  BY <1>1, <1>3, CapturedType, ScopeType DEF TypeOK, Run
<1>6. TypeOK'
  BY <1>1, <1>2, <1>5, StageNames DEF TypeOK
<1>7. KindInv'
  BY <1>1, <1>2, <1>4, StageNames DEF KindInv
<1>8. SnapshotOfFound'
  <2>1. found = Captured(Releases) /\ owned \cap Releases = owned
    BY <1>1, <1>2, StageNames DEF SnapshotInv, TypeOK
  <2> QED
    BY <1>2, <1>4, <2>1 DEF SnapshotOfFound, Captured, Scope
<1>9. SnapshotInv'
  BY <1>1, <1>2, <1>4, <1>8, StageNames DEF SnapshotInv, KindInv, Captured
<1>10. LinkInv'
  BY <1>1, <1>2, <1>4, StageNames DEF LinkInv, LinkTargetsExist, KindInv
<1>11. ProgressInv' /\ RestoredInv'
  BY <1>1, <1>2, <1>4, StageNames DEF ProgressInv, RestoredInv, KindInv
<1> QED
  BY <1>6, <1>7, <1>9, <1>10, <1>11 DEF IInv

LEMMA NameSnapshotStep ==
    ASSUME IInv, NameSnapshot
    PROVE  IInv'
<1>1. TypeOK /\ KindInv /\ SnapshotInv /\ LinkInv
  BY DEF IInv
<1>2. /\ pc = "latest" /\ pc' = IF run.action = "install" THEN "publish" ELSE "stop"
      /\ latest' = run.snapshot
      /\ UNCHANGED <<releases, broken, current, previous, owned, running, found, faults>>
  BY DEF NameSnapshot, node
<1>3. run' = [run EXCEPT !.active = TRUE,
                         !.undo = IF run.action = "install" THEN run.snapshot ELSE Baseline]
  BY DEF NameSnapshot
<1>4. /\ run'.snapshot = run.snapshot /\ run'.action = run.action
      /\ run'.target = run.target /\ run'.from = run.from /\ run'.active
      /\ run'.failing = run.failing
      /\ run.action # "install" => run'.undo = Baseline
  BY <1>1, <1>3 DEF TypeOK, Run
<1>5. /\ run.action # "rollback" /\ ~run.failing /\ run.from = found.current
      /\ run.action = "install" => run.target \in Releases
  BY <1>1, <1>2, StageNames DEF KindInv
<1>6. SnapshotOfFound /\ found = Captured(Releases) /\ found.current \in NoneOr(releases)
  BY <1>1, <1>2, StageNames DEF SnapshotInv, LinkInv
<1>7. found.current = current /\ found.owned = owned
  BY <1>1, <1>6 DEF Captured, TypeOK
<1>8. latest'.current = current
  BY <1>2, <1>6, <1>7 DEF SnapshotOfFound
<1>9. TypeOK'
  <2>1. run' \in Run /\ latest' \in Snapshot
    BY <1>1, <1>2, <1>3, NoneType DEF TypeOK, Run
  <2> QED
    BY <1>1, <1>2, <2>1, StageNames DEF TypeOK, NoneOr
<1>10. KindInv'
  BY <1>2, <1>4, <1>5, StageNames DEF KindInv
<1>11. SnapshotInv'
  BY <1>2, <1>4, <1>5, <1>6, StageNames DEF SnapshotInv, SnapshotOfFound, Scope
<1>12. LinkInv'
  BY <1>1, <1>2, <1>4, <1>5, <1>6, <1>7, <1>8, StageNames DEF LinkInv, LinkTargetsExist
<1>13. ProgressInv' /\ RestoredInv'
  BY <1>2, <1>4, <1>5, <1>7, StageNames DEF ProgressInv, RestoredInv
<1> QED
  BY <1>9, <1>10, <1>11, <1>12, <1>13 DEF IInv

LEMMA PublishReleaseStep ==
    ASSUME IInv, PublishRelease
    PROVE  IInv'
<1>1. TypeOK /\ KindInv /\ SnapshotInv /\ LinkInv /\ ProgressInv /\ RestoredInv
  BY DEF IInv
<1>2. TypeOK'
  <2>1. run.target \in Releases
    BY <1>1, StageNames DEF PublishRelease, KindInv
  <2>2. releases' \in SUBSET Releases /\ broken' \in SUBSET (Releases \ releases')
    BY <1>1, <2>1 DEF PublishRelease, Collision, TypeOK
  <2> QED
    BY <1>1, <2>2, StageNames DEF PublishRelease, TypeOK, node
<1>3. KindInv'
  BY <1>1, StageNames DEF PublishRelease, Collision, KindInv, TypeOK, Run, NoRun, NoneOr
<1>4. SnapshotInv'
  BY <1>1, StageNames DEF PublishRelease, Collision, SnapshotInv, SnapshotOfFound, Scope, KindInv, TypeOK, Run, NoRun
<1>5. LinkInv'
  BY <1>1, StageNames DEF PublishRelease, Collision, LinkInv, LinkTargetsExist, KindInv, SnapshotInv,
     SnapshotOfFound, NoneOr, node, TypeOK, Run, NoRun
<1>6. ProgressInv'
  BY <1>1, StageNames DEF PublishRelease, Collision, ProgressInv, Retired, KindInv, node, TypeOK, Run, NoRun
<1>7. RestoredInv'
  BY <1>1, StageNames DEF PublishRelease, Collision, RestoredInv, KindInv, SnapshotInv, SnapshotOfFound, TypeOK, Run, NoRun
<1> QED
  BY <1>2, <1>3, <1>4, <1>5, <1>6, <1>7 DEF IInv

LEMMA InstallLinksStep ==
    ASSUME IInv, InstallLinks
    PROVE  IInv'
<1>1. TypeOK /\ KindInv /\ SnapshotInv /\ LinkInv /\ ProgressInv /\ RestoredInv
  BY DEF IInv
<1>2. TypeOK'
  <2>1. run.target \in Releases
    BY <1>1, StageNames DEF InstallLinks, KindInv
  <2> QED
    BY <1>1, <2>1, StageNames DEF InstallLinks, TypeOK
<1>3. KindInv'
  BY <1>1, StageNames DEF InstallLinks, KindInv, TypeOK, Run, NoRun, NoneOr
<1>4. SnapshotInv'
  BY <1>1, StageNames DEF InstallLinks, SnapshotInv, SnapshotOfFound, Scope, KindInv, TypeOK, Run, NoRun
<1>5. LinkInv'
  BY <1>1, StageNames DEF InstallLinks, LinkInv, LinkTargetsExist, KindInv, SnapshotInv,
     SnapshotOfFound, NoneOr, node, TypeOK, Run, NoRun
<1>6. ProgressInv'
  BY <1>1, StageNames DEF InstallLinks, ProgressInv, Retired, KindInv, node, TypeOK, Run, NoRun
<1>7. RestoredInv'
  BY <1>1, StageNames DEF InstallLinks, RestoredInv, KindInv, SnapshotInv, SnapshotOfFound, TypeOK, Run, NoRun
<1> QED
  BY <1>2, <1>3, <1>4, <1>5, <1>6, <1>7 DEF IInv

LEMMA SwitchPreviousStep ==
    ASSUME IInv, SwitchPrevious
    PROVE  IInv'
<1>1. TypeOK /\ KindInv /\ SnapshotInv /\ LinkInv /\ ProgressInv /\ RestoredInv
  BY DEF IInv
<1>2. TypeOK'
  BY <1>1, StageNames DEF SwitchPrevious, PreviousAfterSwitch, Directories, TypeOK, Run, NoneOr, node
<1>3. KindInv'
  BY <1>1, StageNames DEF SwitchPrevious, PreviousAfterSwitch, Directories, KindInv, TypeOK, Run, NoRun, NoneOr
<1>4. SnapshotInv'
  BY <1>1, StageNames DEF SwitchPrevious, PreviousAfterSwitch, Directories, SnapshotInv, SnapshotOfFound, Scope, KindInv, TypeOK, Run, NoRun
<1>5. LinkInv'
  BY <1>1, StageNames DEF SwitchPrevious, PreviousAfterSwitch, Directories, LinkInv, LinkTargetsExist, KindInv, SnapshotInv,
     SnapshotOfFound, NoneOr, node, TypeOK, Run, NoRun
<1>6. ProgressInv'
  BY <1>1, StageNames DEF SwitchPrevious, PreviousAfterSwitch, Directories, ProgressInv, Retired, KindInv, node, TypeOK, Run, NoRun
<1>7. RestoredInv'
  BY <1>1, StageNames DEF SwitchPrevious, PreviousAfterSwitch, Directories, RestoredInv, KindInv, SnapshotInv, SnapshotOfFound, TypeOK, Run, NoRun
<1> QED
  BY <1>2, <1>3, <1>4, <1>5, <1>6, <1>7 DEF IInv

LEMMA SwitchCurrentStep ==
    ASSUME IInv, SwitchCurrent
    PROVE  IInv'
<1>1. TypeOK /\ KindInv /\ SnapshotInv /\ LinkInv /\ ProgressInv /\ RestoredInv
  BY DEF IInv
<1>2. TypeOK'
  BY <1>1, StageNames DEF SwitchCurrent, TypeOK, Run, NoneOr, node
<1>3. KindInv'
  BY <1>1, StageNames DEF SwitchCurrent, KindInv, TypeOK, Run, NoRun, NoneOr
<1>4. SnapshotInv'
  BY <1>1, StageNames DEF SwitchCurrent, SnapshotInv, SnapshotOfFound, Scope, KindInv, TypeOK, Run, NoRun
<1>5. LinkInv'
  BY <1>1, StageNames DEF SwitchCurrent, LinkInv, LinkTargetsExist, KindInv, SnapshotInv,
     SnapshotOfFound, NoneOr, node, TypeOK, Run, NoRun
<1>6. ProgressInv'
  BY <1>1, StageNames DEF SwitchCurrent, ProgressInv, Retired, KindInv, node, TypeOK, Run, NoRun
<1>7. RestoredInv'
  BY <1>1, StageNames DEF SwitchCurrent, RestoredInv, KindInv, SnapshotInv, SnapshotOfFound, TypeOK, Run, NoRun
<1> QED
  BY <1>2, <1>3, <1>4, <1>5, <1>6, <1>7 DEF IInv

LEMMA StartServicesStep ==
    ASSUME IInv, StartServices
    PROVE  IInv'
<1>1. TypeOK /\ KindInv /\ SnapshotInv /\ LinkInv /\ ProgressInv /\ RestoredInv
  BY DEF IInv
<1>2. TypeOK'
  BY <1>1, StageNames DEF StartServices, TypeOK, Run, NoneOr, node
<1>3. KindInv'
  BY <1>1, StageNames DEF StartServices, KindInv, TypeOK, Run, NoRun, NoneOr
<1>4. SnapshotInv'
  BY <1>1, StageNames DEF StartServices, SnapshotInv, SnapshotOfFound, Scope, KindInv, TypeOK, Run, NoRun
<1>5. LinkInv'
  BY <1>1, StageNames DEF StartServices, LinkInv, LinkTargetsExist, KindInv, SnapshotInv,
     SnapshotOfFound, NoneOr, node, TypeOK, Run, NoRun
<1>6. ProgressInv'
  BY <1>1, StageNames DEF StartServices, ProgressInv, Retired, KindInv, node, TypeOK, Run, NoRun
<1>7. RestoredInv'
  BY <1>1, StageNames DEF StartServices, RestoredInv, KindInv, SnapshotInv, SnapshotOfFound, TypeOK, Run, NoRun
<1> QED
  BY <1>2, <1>3, <1>4, <1>5, <1>6, <1>7 DEF IInv

LEMMA RetireStep ==
    ASSUME IInv, Retire
    PROVE  IInv'
<1>1. TypeOK /\ KindInv /\ SnapshotInv /\ LinkInv /\ ProgressInv /\ RestoredInv
  BY DEF IInv
<1>2. TypeOK'
  BY <1>1, StageNames DEF Retire, Retired, TypeOK, Run, NoneOr, node
<1>3. KindInv'
  BY <1>1, StageNames DEF Retire, Retired, KindInv, TypeOK, Run, NoRun, NoneOr
<1>4. SnapshotInv'
  BY <1>1, StageNames DEF Retire, Retired, SnapshotInv, SnapshotOfFound, Scope, KindInv, TypeOK, Run, NoRun
<1>5. LinkInv'
  <2>1. run.action = "install" /\ run.active /\ run.from = found.current
    BY <1>1, StageNames DEF Retire, KindInv
  <2>2. latest.current = found.current
    BY <1>1, <2>1 DEF SnapshotInv, SnapshotOfFound
  <2>3. latest.current \in {None, current, previous}
    BY <1>1, <2>1, <2>2, StageNames DEF Retire, LinkInv
  <2> QED
    BY <1>1, <2>1, <2>3, StageNames DEF Retire, LinkInv, LinkTargetsExist
<1>6. ProgressInv'
  BY <1>1, StageNames DEF Retire, Retired, ProgressInv, Retired, KindInv, node, TypeOK, Run, NoRun
<1>7. RestoredInv'
  BY <1>1, StageNames DEF Retire, Retired, RestoredInv, KindInv, SnapshotInv, SnapshotOfFound, TypeOK, Run, NoRun
<1> QED
  BY <1>2, <1>3, <1>4, <1>5, <1>6, <1>7 DEF IInv

LEMMA VerifyActiveStep ==
    ASSUME IInv, VerifyActive
    PROVE  IInv'
<1>1. TypeOK /\ KindInv /\ SnapshotInv /\ LinkInv /\ ProgressInv /\ RestoredInv
  BY DEF IInv
<1>2. TypeOK'
  BY <1>1, StageNames DEF VerifyActive, disk, TypeOK, Run, NoneOr, node
<1>3. KindInv'
  BY <1>1, StageNames DEF VerifyActive, disk, KindInv, TypeOK, Run, NoRun, NoneOr
<1>4. SnapshotInv'
  BY <1>1, StageNames DEF VerifyActive, disk, SnapshotInv, SnapshotOfFound, Scope, KindInv, TypeOK, Run, NoRun
<1>5. LinkInv'
  BY <1>1, StageNames DEF VerifyActive, disk, LinkInv, LinkTargetsExist, KindInv, SnapshotInv,
     SnapshotOfFound, NoneOr, node, TypeOK, Run, NoRun
<1>6. ProgressInv'
  BY <1>1, StageNames DEF VerifyActive, disk, ProgressInv, Retired, KindInv, node, TypeOK, Run, NoRun
<1>7. RestoredInv'
  BY <1>1, StageNames DEF VerifyActive, disk, RestoredInv, KindInv, SnapshotInv, SnapshotOfFound, TypeOK, Run, NoRun
<1> QED
  BY <1>2, <1>3, <1>4, <1>5, <1>6, <1>7 DEF IInv

LEMMA PruneReleasesStep ==
    ASSUME IInv, PruneReleases
    PROVE  IInv'
<1>1. TypeOK /\ KindInv /\ SnapshotInv /\ LinkInv /\ ProgressInv /\ RestoredInv
  BY DEF IInv
<1>2. TypeOK'
  BY <1>1, StageNames DEF PruneReleases, PruneRefused, TypeOK, Run, NoneOr, node
<1>3. KindInv'
  BY <1>1, StageNames DEF PruneReleases, PruneRefused, KindInv, TypeOK, Run, NoRun, NoneOr
<1>4. SnapshotInv'
  BY <1>1, StageNames DEF PruneReleases, PruneRefused, SnapshotInv, SnapshotOfFound, Scope, KindInv, TypeOK, Run, NoRun
<1>5. LinkInv'
  <2>1. /\ latest.current \in {None, current, previous} /\ LinkTargetsExist
        /\ run.active => found.current \in NoneOr(releases)
    BY <1>1, StageNames DEF PruneReleases, LinkInv
  <2>2. ~run.failing /\ UNCHANGED <<current, previous, latest, run, found>>
    BY <1>1, StageNames DEF PruneReleases, KindInv, node
  <2>3. run.active => latest.current = found.current
    BY <1>1 DEF SnapshotInv, SnapshotOfFound
  <2>4. LinkTargetsExist'
    BY <2>1, <2>2 DEF PruneReleases, LinkTargetsExist, NoneOr
  <2>5. run.active => found.current \in NoneOr(releases')
    BY <2>1, <2>2, <2>3 DEF PruneReleases, NoneOr
  <2> QED
    BY <1>1, <2>2, <2>4, <2>5, StageNames DEF PruneReleases, LinkInv
<1>6. ProgressInv'
  BY <1>1, StageNames DEF PruneReleases, PruneRefused, ProgressInv, Retired, KindInv, node, TypeOK, Run, NoRun
<1>7. RestoredInv'
  BY <1>1, StageNames DEF PruneReleases, PruneRefused, RestoredInv, KindInv, SnapshotInv, SnapshotOfFound, TypeOK, Run, NoRun
<1> QED
  BY <1>2, <1>3, <1>4, <1>5, <1>6, <1>7 DEF IInv

LEMMA UndoType ==
    ASSUME TypeOK, KindInv, pc \in Restoring
    PROVE  Undo \in Snapshot
<1>1. CASE run.action = "rollback" /\ ~run.failing
  BY <1>1, StageNames DEF Undo, TypeOK, KindInv, NoneOr
<1>2. CASE ~(run.action = "rollback" /\ ~run.failing)
  BY <1>2 DEF Undo, TypeOK, Run
<1> QED
  BY <1>1, <1>2

\* What is restored can be linked to: the snapshot of the run, the latest one, nothing.
LEMMA UndoTarget ==
    ASSUME IInv, pc \in Restoring
    PROVE  Undo.current \in NoneOr(releases)
<1>1. TypeOK /\ KindInv /\ SnapshotInv /\ LinkInv
  BY DEF IInv
<1>2. CASE run.failing
  <2>1. Undo = run.snapshot
    BY <1>1, <1>2 DEF Undo, SnapshotInv
  <2>2. run.snapshot.current = found.current
    BY <1>1, <1>2 DEF SnapshotInv, SnapshotOfFound
  <2> QED
    BY <1>1, <1>2, <2>1, <2>2 DEF LinkInv
<1>3. CASE run.action = "rollback" /\ ~run.failing
  BY <1>1, <1>3, StageNames DEF Undo, KindInv, LinkInv, LinkTargetsExist
<1>4. CASE run.action # "rollback" /\ ~run.failing
  <2>1. Undo = Baseline
    BY <1>1, <1>4 DEF Undo, KindInv
  <2> QED
    BY <2>1 DEF Baseline, NoneOr
<1> QED
  BY <1>2, <1>3, <1>4

LEMMA StopServicesStep ==
    ASSUME IInv, StopServices
    PROVE  IInv'
<1>1. TypeOK /\ KindInv /\ SnapshotInv /\ LinkInv /\ ProgressInv /\ RestoredInv
  BY DEF IInv
<1>2. TypeOK'
  BY <1>1, StageNames DEF StopServices, Restore, TypeOK, Run, NoneOr, node
<1>3. KindInv'
  BY <1>1, StageNames DEF StopServices, Restore, KindInv, TypeOK, Run, NoRun, NoneOr
<1>4. SnapshotInv'
  BY <1>1, StageNames DEF StopServices, Restore, SnapshotInv, SnapshotOfFound, Scope, KindInv, TypeOK, Run, NoRun
<1>5. LinkInv'
  BY <1>1, StageNames DEF StopServices, Restore, LinkInv, LinkTargetsExist, KindInv, SnapshotInv,
     SnapshotOfFound, NoneOr, node, TypeOK, Run, NoRun
<1>6. ProgressInv'
  BY <1>1, StageNames DEF StopServices, Restore, ProgressInv, Retired, KindInv, node, TypeOK, Run, NoRun
<1>7. RestoredInv'
  BY <1>1, StageNames DEF StopServices, Restore, RestoredInv, KindInv, SnapshotInv, SnapshotOfFound, TypeOK, Run, NoRun
<1> QED
  BY <1>2, <1>3, <1>4, <1>5, <1>6, <1>7 DEF IInv

LEMMA DropCurrentStep ==
    ASSUME IInv, DropCurrent
    PROVE  IInv'
<1>1. TypeOK /\ KindInv /\ SnapshotInv /\ LinkInv /\ ProgressInv /\ RestoredInv
  BY DEF IInv
<1>2. TypeOK'
  BY <1>1, StageNames DEF DropCurrent, Restore, TypeOK, Run, NoneOr, node
<1>3. KindInv'
  BY <1>1, StageNames DEF DropCurrent, Restore, KindInv, TypeOK, Run, NoRun, NoneOr
<1>4. SnapshotInv'
  BY <1>1, StageNames DEF DropCurrent, Restore, SnapshotInv, SnapshotOfFound, Scope, KindInv, TypeOK, Run, NoRun
<1>5. LinkInv'
  BY <1>1, StageNames DEF DropCurrent, Restore, LinkInv, LinkTargetsExist, KindInv, SnapshotInv,
     SnapshotOfFound, NoneOr, node, TypeOK, Run, NoRun
<1>6. ProgressInv'
  BY <1>1, StageNames DEF DropCurrent, Restore, ProgressInv, Retired, KindInv, node, TypeOK, Run, NoRun
<1>7. RestoredInv'
  BY <1>1, StageNames DEF DropCurrent, Restore, RestoredInv, KindInv, SnapshotInv, SnapshotOfFound, TypeOK, Run, NoRun
<1> QED
  BY <1>2, <1>3, <1>4, <1>5, <1>6, <1>7 DEF IInv

LEMMA CopyCurrentStep ==
    ASSUME IInv, CopyCurrent
    PROVE  IInv'
<1>1. TypeOK /\ KindInv /\ SnapshotInv /\ LinkInv /\ ProgressInv /\ RestoredInv
  BY DEF IInv
<1>2. TypeOK'
  <2>1. Undo \in Snapshot
    BY <1>1, UndoType, StageNames DEF CopyCurrent, Restore
  <2> QED
    BY <1>1, <2>1, StageNames DEF CopyCurrent, Restore, TypeOK, Snapshot
<1>3. KindInv'
  BY <1>1, StageNames DEF CopyCurrent, Restore, Undo, Baseline, Snapshot, KindInv, TypeOK, Run, NoRun, NoneOr
<1>4. SnapshotInv'
  BY <1>1, StageNames DEF CopyCurrent, Restore, Undo, Baseline, Snapshot, SnapshotInv, SnapshotOfFound, Scope, KindInv, TypeOK, Run, NoRun
<1>5. LinkInv'
  <2>1. current' \in NoneOr(releases)
    BY UndoTarget, StageNames DEF CopyCurrent, Restore
  <2>2. run.action = "rollback" => current' = latest.current
    BY <1>1, StageNames DEF CopyCurrent, Restore, Undo, KindInv
  <2>3. ASSUME run.action # "rollback", ~run.failing
        PROVE  current' = None
    <3>1. Undo = Baseline
      BY <1>1, <2>3, StageNames DEF CopyCurrent, Restore, Undo, KindInv
    <3> QED
      BY <3>1 DEF CopyCurrent, Baseline
  <2> QED
    BY <1>1, <2>1, <2>2, <2>3, StageNames DEF CopyCurrent, Restore, LinkInv, LinkTargetsExist
<1>6. ProgressInv'
  BY <1>1, StageNames DEF CopyCurrent, Restore, Undo, Baseline, Snapshot, ProgressInv, Retired, KindInv, node, TypeOK, Run, NoRun
<1>7. RestoredInv'
  BY <1>1, StageNames DEF CopyCurrent, Restore, Undo, Baseline, Snapshot, RestoredInv, KindInv, SnapshotInv, SnapshotOfFound, TypeOK, Run, NoRun
<1> QED
  BY <1>2, <1>3, <1>4, <1>5, <1>6, <1>7 DEF IInv

LEMMA DropPreviousStep ==
    ASSUME IInv, DropPrevious
    PROVE  IInv'
<1>1. TypeOK /\ KindInv /\ SnapshotInv /\ LinkInv /\ ProgressInv /\ RestoredInv
  BY DEF IInv
<1>2. TypeOK'
  BY <1>1, StageNames DEF DropPrevious, Restore, TypeOK, Run, NoneOr, node
<1>3. KindInv'
  BY <1>1, StageNames DEF DropPrevious, Restore, KindInv, TypeOK, Run, NoRun, NoneOr
<1>4. SnapshotInv'
  BY <1>1, StageNames DEF DropPrevious, Restore, SnapshotInv, SnapshotOfFound, Scope, KindInv, TypeOK, Run, NoRun
<1>5. LinkInv'
  BY <1>1, StageNames DEF DropPrevious, Restore, LinkInv, LinkTargetsExist, KindInv, SnapshotInv,
     SnapshotOfFound, NoneOr, node, TypeOK, Run, NoRun
<1>6. ProgressInv'
  BY <1>1, StageNames DEF DropPrevious, Restore, ProgressInv, Retired, KindInv, node, TypeOK, Run, NoRun
<1>7. RestoredInv'
  BY <1>1, StageNames DEF DropPrevious, Restore, RestoredInv, KindInv, SnapshotInv, SnapshotOfFound, TypeOK, Run, NoRun
<1> QED
  BY <1>2, <1>3, <1>4, <1>5, <1>6, <1>7 DEF IInv

LEMMA CopyPreviousStep ==
    ASSUME IInv, CopyPrevious
    PROVE  IInv'
<1>1. TypeOK /\ KindInv /\ SnapshotInv /\ LinkInv /\ ProgressInv /\ RestoredInv
  BY DEF IInv
<1>2. TypeOK'
  <2>1. Undo \in Snapshot
    BY <1>1, UndoType, StageNames DEF CopyPrevious, Restore
  <2> QED
    BY <1>1, <2>1, StageNames DEF CopyPrevious, Restore, TypeOK, Snapshot
<1>3. KindInv'
  BY <1>1, StageNames DEF CopyPrevious, Restore, Undo, Baseline, Snapshot, KindInv, TypeOK, Run, NoRun, NoneOr
<1>4. SnapshotInv'
  BY <1>1, StageNames DEF CopyPrevious, Restore, Undo, Baseline, Snapshot, SnapshotInv, SnapshotOfFound, Scope, KindInv, TypeOK, Run, NoRun
<1>5. LinkInv'
  BY <1>1, StageNames DEF CopyPrevious, Restore, Undo, Baseline, Snapshot, LinkInv, LinkTargetsExist, KindInv, SnapshotInv,
     SnapshotOfFound, NoneOr, node, TypeOK, Run, NoRun
<1>6. ProgressInv'
  BY <1>1, StageNames DEF CopyPrevious, Restore, Undo, Baseline, Snapshot, ProgressInv, Retired, KindInv, node, TypeOK, Run, NoRun
<1>7. RestoredInv'
  BY <1>1, StageNames DEF CopyPrevious, Restore, Undo, Baseline, Snapshot, RestoredInv, KindInv, SnapshotInv, SnapshotOfFound, TypeOK, Run, NoRun
<1> QED
  BY <1>2, <1>3, <1>4, <1>5, <1>6, <1>7 DEF IInv

LEMMA RestorePathsStep ==
    ASSUME IInv, RestorePaths
    PROVE  IInv'
<1>1. TypeOK /\ KindInv /\ SnapshotInv /\ LinkInv /\ ProgressInv /\ RestoredInv
  BY DEF IInv
<1>2. TypeOK'
  <2>1. Undo \in Snapshot
    BY <1>1, UndoType, StageNames DEF RestorePaths, Restore
  <2> QED
    BY <1>1, <2>1, StageNames DEF RestorePaths, Restore, TypeOK, Snapshot
<1>3. KindInv'
  BY <1>1, StageNames DEF RestorePaths, Restore, Undo, Baseline, Snapshot, KindInv, TypeOK, Run, NoRun, NoneOr
<1>4. SnapshotInv'
  BY <1>1, StageNames DEF RestorePaths, Restore, Undo, Baseline, Snapshot, SnapshotInv, SnapshotOfFound, Scope, KindInv, TypeOK, Run, NoRun
<1>5. LinkInv'
  BY <1>1, StageNames DEF RestorePaths, Restore, Undo, Baseline, Snapshot, LinkInv, LinkTargetsExist, KindInv, SnapshotInv,
     SnapshotOfFound, NoneOr, node, TypeOK, Run, NoRun
<1>6. ProgressInv'
  BY <1>1, StageNames DEF RestorePaths, Restore, Undo, Baseline, Snapshot, ProgressInv, Retired, KindInv, node, TypeOK, Run, NoRun
<1>7. RestoredInv'
  BY <1>1, StageNames DEF RestorePaths, Restore, Undo, Baseline, Snapshot, RestoredInv, KindInv, SnapshotInv, SnapshotOfFound, TypeOK, Run, NoRun
<1> QED
  BY <1>2, <1>3, <1>4, <1>5, <1>6, <1>7 DEF IInv

LEMMA SetPreviousStep ==
    ASSUME IInv, SetPrevious
    PROVE  IInv'
<1>1. TypeOK /\ KindInv /\ SnapshotInv /\ LinkInv /\ ProgressInv /\ RestoredInv
  BY DEF IInv
<1>2. TypeOK'
  BY <1>1, StageNames DEF SetPrevious, Directories, TypeOK, Run, NoneOr, node
<1>3. KindInv'
  BY <1>1, StageNames DEF SetPrevious, Directories, KindInv, TypeOK, Run, NoRun, NoneOr
<1>4. SnapshotInv'
  BY <1>1, StageNames DEF SetPrevious, Directories, SnapshotInv, SnapshotOfFound, Scope, KindInv, TypeOK, Run, NoRun
<1>5. LinkInv'
  BY <1>1, StageNames DEF SetPrevious, Directories, LinkInv, LinkTargetsExist, KindInv, SnapshotInv,
     SnapshotOfFound, NoneOr, node, TypeOK, Run, NoRun
<1>6. ProgressInv'
  BY <1>1, StageNames DEF SetPrevious, Directories, ProgressInv, Retired, KindInv, node, TypeOK, Run, NoRun
<1>7. RestoredInv'
  BY <1>1, StageNames DEF SetPrevious, Directories, RestoredInv, KindInv, SnapshotInv, SnapshotOfFound, TypeOK, Run, NoRun
<1> QED
  BY <1>2, <1>3, <1>4, <1>5, <1>6, <1>7 DEF IInv

LEMMA RestoreServicesStep ==
    ASSUME IInv, RestoreServices
    PROVE  IInv'
<1>1. TypeOK /\ KindInv /\ SnapshotInv /\ LinkInv /\ LinkTargetsExist
  BY DEF IInv, LinkInv
<1>2. /\ pc = "services" /\ running' \in NoneOr(Releases)
      /\ UNCHANGED <<releases, broken, current, previous, owned, latest, faults>>
  BY <1>1 DEF RestoreServices, TypeOK, NoneOr
<1>3. CASE run.failing
  <2>1. End
    BY <1>3 DEF RestoreServices
  <2>2. TypeOK' /\ LinkTargetsExist'
    BY <1>1, <1>2, <2>1, EndType DEF TypeOK, LinkTargetsExist
  <2> QED
    BY <2>1, <2>2, EndStep
<1>4. CASE ~run.failing
  <2>1. /\ pc' = IF run.action = "rollback" THEN "set previous" ELSE "removed"
        /\ UNCHANGED <<run, found>>
    BY <1>4 DEF RestoreServices
  <2>2. run.action \in {"rollback", "remove", "purge"}
    BY <1>1, <1>2, <1>4, StageNames DEF KindInv, TypeOK, Run, Actions
  <2>3. TypeOK' /\ KindInv'
    BY <1>1, <1>2, <1>4, <2>1, <2>2, StageNames DEF TypeOK, KindInv
  <2>4. SnapshotInv'
    BY <1>1, <1>2, <2>1, StageNames DEF SnapshotInv, SnapshotOfFound, Scope
  <2>5. LinkInv'
    BY <1>1, <1>2, <1>4, <2>1, <2>2, StageNames DEF LinkInv, LinkTargetsExist
  <2>6. ProgressInv' /\ RestoredInv'
    BY <1>4, <2>1, StageNames DEF ProgressInv, RestoredInv
  <2> QED
    BY <2>3, <2>4, <2>5, <2>6 DEF IInv
<1> QED
  BY <1>3, <1>4

LEMMA RemoveStep ==
    ASSUME IInv, Remove
    PROVE  IInv'
<1>1. TypeOK /\ KindInv /\ SnapshotInv /\ LinkInv /\ LinkTargetsExist
  BY DEF IInv, LinkInv
<1>2. /\ pc = "removed" /\ run.action \in {"remove", "purge"} /\ ~run.failing
      /\ UNCHANGED <<releases, broken, current, previous, owned, running, latest, faults>>
  BY <1>1, StageNames DEF Remove, disk, node, KindInv
<1>3. CASE run.action = "remove"
  <2>1. End
    BY <1>3 DEF Remove
  <2>2. TypeOK' /\ LinkTargetsExist'
    BY <1>1, <1>2, <2>1, EndType DEF TypeOK, LinkTargetsExist
  <2> QED
    BY <2>1, <2>2, EndStep
<1>4. CASE run.action # "remove"
  <2>1. pc' = "purge" /\ run' = [run EXCEPT !.active = FALSE] /\ UNCHANGED found
    BY <1>4 DEF Remove
  <2>2. run' \in Run
    BY <1>1, <2>1 DEF TypeOK, Run
  <2>3. /\ run'.action = run.action /\ run'.from = run.from /\ ~run'.active /\ ~run'.failing
    BY <1>1, <1>2, <2>1 DEF TypeOK, Run
  <2>4. TypeOK'
    BY <1>1, <1>2, <2>1, <2>2, StageNames DEF TypeOK
  <2>5. KindInv'
    BY <1>1, <1>2, <2>1, <2>3, StageNames DEF KindInv
  <2>6. SnapshotInv' /\ ProgressInv' /\ RestoredInv'
    BY <2>1, <2>3, StageNames DEF SnapshotInv, ProgressInv, RestoredInv
  <2>7. LinkInv'
    BY <1>1, <1>2, <2>1, <2>3, StageNames DEF LinkInv, LinkTargetsExist
  <2> QED
    BY <2>4, <2>5, <2>6, <2>7 DEF IInv
<1> QED
  BY <1>3, <1>4

LEMMA CommitStep ==
    ASSUME IInv, Commit \/ Purge
    PROVE  IInv'
<1>1. TypeOK /\ LinkInv /\ LinkTargetsExist
  BY DEF IInv, LinkInv
<1>2. CASE Commit
  <2>1. TypeOK' /\ LinkTargetsExist'
    BY <1>1, <1>2, EndType DEF Commit, disk, node, TypeOK, LinkTargetsExist
  <2> QED
    BY <1>2, <2>1, EndStep DEF Commit
<1>3. CASE Purge
  <2>1. TypeOK'
    BY <1>1, <1>3, EndType DEF Purge, node, TypeOK, NoneOr
  <2>2. current = None
    BY <1>1, <1>3 DEF Purge, LinkInv
  <2>3. LinkTargetsExist'
    BY <1>3, <2>2 DEF Purge, node, LinkTargetsExist, NoneOr
  <2> QED
    BY <1>3, <2>1, <2>3, EndStep DEF Purge
<1> QED
  BY <1>2, <1>3

LEMMA FaultType ==
    ASSUME TypeOK, Fault
    PROVE  faults' \in 0..MaxFaults
  BY InstallAssumption DEF TypeOK, Fault

LEMMA RefusedStep ==
    ASSUME IInv, RefusePublish \/ RefusePrune
    PROVE  IInv'
<1>1. TypeOK /\ LinkInv /\ LinkTargetsExist
  BY DEF IInv, LinkInv
<1>2. pc # "idle" /\ Trap /\ UNCHANGED <<disk, faults>>
  BY DEF RefusePublish, RefusePrune
<1>3. /\ releases' \in SUBSET Releases /\ broken' \in SUBSET (Releases \ releases')
      /\ faults' \in 0..MaxFaults
  BY <1>1, <1>2 DEF disk, TypeOK
<1>4. LinkTargetsExist' /\ (run.active => found.current \in NoneOr(releases'))
  BY <1>1, <1>2 DEF disk, node, LinkInv, LinkTargetsExist
<1> QED
  BY <1>2, <1>3, <1>4, TrapStep DEF disk

LEMMA FailsStep ==
    ASSUME IInv, Fails
    PROVE  IInv'
<1>1. TypeOK
  BY DEF IInv
<1> QED
  BY <1>1, FaultType, StoppedKeeps, TrapStep DEF Fails

LEMMA KilledStep ==
    ASSUME IInv, Killed
    PROVE  IInv'
<1>1. TypeOK
  BY DEF IInv
<1>2. TypeOK'
  BY <1>1, FaultType, StoppedKeeps, EndType DEF Killed, TypeOK, node
<1> QED
  BY <1>2, StoppedKeeps, EndStep DEF Killed

\* A command of the trap that fails is passed over: only the order of the rest is kept.
LEMMA FailsInTrapStep ==
    ASSUME IInv, FailsInTrap
    PROVE  IInv'
<1>1. TypeOK /\ KindInv /\ SnapshotInv /\ LinkInv /\ LinkTargetsExist
  BY DEF IInv, LinkInv
<1>2. /\ run.failing /\ pc \in Restoring /\ faults' \in 0..MaxFaults
      /\ UNCHANGED <<releases, broken, current, previous, owned, running, latest>>
  BY <1>1, FaultType DEF FailsInTrap, KindInv, disk, node
<1>3. CASE End
  <2>1. TypeOK' /\ LinkTargetsExist'
    BY <1>1, <1>2, <1>3, EndType DEF TypeOK, LinkTargetsExist
  <2> QED
    BY <1>3, <2>1, EndStep
<1>4. CASE /\ pc # "services" /\ pc' = After(pc) /\ UNCHANGED found
           /\ run' = [run EXCEPT !.skipped = TRUE]
  <2>1. pc' \in Restoring
    BY <1>2, <1>4, StageNames DEF After
  <2>2. run' \in Run
    BY <1>1, <1>4 DEF TypeOK, Run
  <2>3. /\ run'.action = run.action /\ run'.target = run.target /\ run'.from = run.from
        /\ run'.active = run.active /\ run'.failing = run.failing /\ run'.undo = run.undo
        /\ run'.snapshot = run.snapshot /\ run'.skipped
    BY <1>1, <1>4 DEF TypeOK, Run
  <2>4. run.action # "rollback"
    BY <1>1, <1>2, StageNames DEF KindInv
  <2>5. TypeOK'
    BY <1>1, <1>2, <1>4, <2>1, <2>2, StageNames DEF TypeOK
  <2>6. KindInv'
    BY <1>1, <1>2, <1>4, <2>1, <2>3, <2>4, StageNames DEF KindInv
  <2>7. SnapshotInv'
    BY <1>1, <1>2, <1>4, <2>1, <2>3, StageNames DEF SnapshotInv, SnapshotOfFound, Scope
  <2>8. LinkInv'
    BY <1>1, <1>2, <1>4, <2>1, <2>3, <2>4, StageNames DEF LinkInv, LinkTargetsExist
  <2>9. ProgressInv' /\ RestoredInv'
    BY <2>1, <2>3, StageNames DEF ProgressInv, RestoredInv
  <2> QED
    BY <2>5, <2>6, <2>7, <2>8, <2>9 DEF IInv
<1> QED
  BY <1>3, <1>4 DEF FailsInTrap

LEMMA NextStep ==
    ASSUME IInv, [Next]_vars
    PROVE  IInv'
<1>1. CASE Start \/ Fails \/ FailsInTrap \/ Killed
  BY <1>1, StartStep, FailsStep, FailsInTrapStep, KilledStep
<1>2. CASE \/ TakeSnapshot \/ NameSnapshot \/ PublishRelease \/ InstallLinks
           \/ SwitchPrevious \/ SwitchCurrent \/ StartServices \/ Retire \/ VerifyActive
           \/ PruneReleases
  BY <1>2, TakeSnapshotStep, NameSnapshotStep, PublishReleaseStep, InstallLinksStep,
     SwitchPreviousStep, SwitchCurrentStep, StartServicesStep, RetireStep,
     VerifyActiveStep, PruneReleasesStep
<1>3. CASE \/ StopServices \/ DropCurrent \/ CopyCurrent \/ DropPrevious \/ CopyPrevious
           \/ RestorePaths \/ RestoreServices \/ SetPrevious
  BY <1>3, StopServicesStep, DropCurrentStep, CopyCurrentStep, DropPreviousStep,
     CopyPreviousStep, RestorePathsStep, RestoreServicesStep, SetPreviousStep
<1>4. CASE RefusePublish \/ RefusePrune \/ Commit \/ Remove \/ Purge
  BY <1>4, RefusedStep, CommitStep, RemoveStep
<1>5. CASE UNCHANGED vars
  <2>1. UNCHANGED <<releases, broken, current, previous, owned, running, latest, pc, run,
                    found, faults>>
    BY <1>5 DEF vars, disk, node
  <2>2. TypeOK' /\ KindInv'
    BY <2>1 DEF IInv, TypeOK, KindInv
  <2>3. SnapshotInv'
    BY <2>1 DEF IInv, SnapshotInv, SnapshotOfFound, Scope, Captured
  <2>4. LinkInv'
    BY <2>1 DEF IInv, LinkInv, LinkTargetsExist
  <2>5. ProgressInv' /\ RestoredInv'
    BY <2>1 DEF IInv, ProgressInv, Retired, RestoredInv
  <2> QED
    BY <2>2, <2>3, <2>4, <2>5 DEF IInv
<1> QED
  BY <1>1, <1>2, <1>3, <1>4, <1>5 DEF Next, Step
-----------------------------------------------------------------------------
\* The invariant holds whatever runs were requested, failed or were killed before.
THEOREM Invariance == Spec => []IInv
<1>1. IInv /\ [Next]_vars => IInv'
  BY NextStep
<1> QED
  BY InitIInv, <1>1, PTL DEF Spec

\* The links, the directories, the snapshots and the locals of a run of install.sh are
\* always of the kinds the next run can read.
THEOREM TypeCorrect == Spec => []TypeOK
<1>1. IInv => TypeOK
  BY DEF IInv
<1> QED
  BY Invariance, <1>1, PTL

\* prune_unreferenced_releases never takes the release in use nor the one a rollback
\* would go back to.
THEOREM LinksLeadToReleases == Spec => []LinkTargetsExist
<1>1. IInv => LinkTargetsExist
  BY DEF IInv, LinkInv
<1> QED
  BY Invariance, <1>1, PTL

\* Without a fault only the last stage of a restoration ends it.
LEMMA RestorationEnds ==
    ASSUME TypeOK, [Next]_vars, pc = "services", pc' = "idle", faults' = faults
    PROVE  RestoreServices
<1>1. ~Fault /\ ~UNCHANGED vars
  BY DEF Fault, TypeOK, vars
<1>2. ~Start
  BY DEF Start, StartInstall, StartRemove, StartRollback, Begin
<1>3. ~(TakeSnapshot \/ NameSnapshot \/ PublishRelease \/ InstallLinks \/ SwitchPrevious
        \/ SwitchCurrent \/ StartServices \/ Retire \/ VerifyActive \/ PruneReleases)
  BY DEF TakeSnapshot, NameSnapshot, PublishRelease, InstallLinks, SwitchPrevious,
         SwitchCurrent, StartServices, Retire, VerifyActive, PruneReleases
<1>4. ~(StopServices \/ DropCurrent \/ CopyCurrent \/ DropPrevious \/ CopyPrevious
        \/ RestorePaths)
  BY DEF Restore, StopServices, DropCurrent, CopyCurrent, DropPrevious, CopyPrevious,
         RestorePaths
<1>5. ~(RefusePublish \/ RefusePrune \/ Commit \/ SetPrevious \/ Remove \/ Purge)
  BY DEF RefusePublish, RefusePrune, Commit, SetPrevious, Remove, Purge
<1>6. ~(Fails \/ FailsInTrap \/ Killed)
  BY <1>1 DEF Fails, FailsInTrap, Killed
<1> QED
  BY <1>1, <1>2, <1>3, <1>4, <1>5, <1>6 DEF Next, Step

\* on_exit and restore_snapshot: a run that failed and met no further fault while it
\* was undone leaves links, services and the paths of its releases as it found them.
THEOREM FailureIsUndone == Spec => FailedRunRestores
<1> DEFINE Failed == run.failing /\ ~run.skipped /\ pc = "services" /\ pc' = "idle"
                     /\ faults' = faults
           Restored == /\ current' = found.current /\ previous' = found.previous
                       /\ \A release \in {run.from, run.target} \ {None} :
                             release \in owned' <=> release \in found.owned
                       /\ (running' # None) = (found.up /\ found.current # None)
<1>1. ASSUME IInv, [Next]_vars, Failed
      PROVE  Restored
  <2>1. TypeOK /\ SnapshotInv /\ RestoredInv
    BY <1>1 DEF IInv
  <2>2. RestoreServices
    BY <1>1, <2>1, RestorationEnds
  <2>3. /\ current' = current /\ previous' = previous /\ owned' = owned
        /\ running' = IF Undo.up THEN current ELSE None
    BY <2>2 DEF RestoreServices
  <2>4. SnapshotOfFound /\ run.undo = run.snapshot /\ Undo = run.undo
    BY <1>1, <2>1 DEF SnapshotInv, Undo
  <2>5. /\ run.undo.current = found.current /\ run.undo.previous = found.previous
        /\ run.undo.owned = found.owned \cap Scope /\ run.undo.up = found.up
        /\ run.undo.scope = Scope
    BY <2>4 DEF SnapshotOfFound
  <2>6. /\ current = run.undo.current /\ previous = run.undo.previous
        /\ \A release \in run.undo.scope : release \in owned <=> release \in run.undo.owned
    BY <1>1, <2>1 DEF RestoredInv
  <2>7. current' = found.current /\ previous' = found.previous
    BY <2>3, <2>5, <2>6
  <2>8. \A release \in Scope : release \in owned' <=> release \in found.owned
    BY <2>3, <2>5, <2>6
  <2>9. found.up \in BOOLEAN
    BY <2>1 DEF TypeOK, Snapshot
  <2>10. (running' # None) = (found.up /\ found.current # None)
    BY <2>3, <2>4, <2>5, <2>6, <2>9
  <2> QED
    BY <2>7, <2>8, <2>10 DEF Scope
<1>2. IInv /\ [Next]_vars => [Failed => Restored]_vars
  BY <1>1
<1> QED
  BY Invariance, <1>2, PTL DEF Spec, FailedRunRestores

\* install_action: on a host without leftovers a successful install leaves the paths of
\* its own release alone, and the services run it.
THEOREM InstallIsClean == Spec => InstallLeavesOneRelease
<1>1. ASSUME IInv, run.action = "install", pc = "commit"
      PROVE  /\ running = current
             /\ found.owned \subseteq {found.current} => owned = {current}
  <2>1. /\ owned = (found.owned \cup {run.target}) \ Retired
        /\ current = run.target /\ running = current /\ run.from = found.current
    BY <1>1, StageNames DEF IInv, ProgressInv, KindInv
  <2> QED
    BY <2>1 DEF Retired
<1>2. IInv /\ [Next]_vars =>
        [run.action = "install" /\ pc = "commit" /\ pc' = "idle" /\ faults' = faults =>
            /\ running = current
            /\ found.owned \subseteq {found.current} => owned = {current}]_vars
  BY <1>1
<1> QED
  BY Invariance, <1>2, PTL DEF Spec, InstallLeavesOneRelease
=============================================================================
