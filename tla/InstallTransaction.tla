-------------------------- MODULE InstallTransaction --------------------------
(***************************************************************************)
(* The transaction of one node (install.sh): install or reinstall a        *)
(* release, roll back to the latest snapshot, remove or purge.             *)
(*                                                                         *)
(* Releases are published once and never changed; the managed paths of the *)
(* host point through the link `current'.  A run first takes a snapshot of *)
(* the paths it may touch and names it `latest'; when an install or a      *)
(* removal fails, the EXIT trap restores that snapshot, with errexit off.  *)
(* A killed run leaves everything as it is at that moment.                 *)
(*                                                                         *)
(* Runs exclude each other by a lock, so there is one run at a time.       *)
(***************************************************************************)
EXTENDS Naturals, FiniteSets

CONSTANTS Releases,  \* releases that may be requested
          MaxFaults, \* bound: commands that fail and runs that are killed
          None

ASSUME InstallAssumption == None \notin Releases /\ MaxFaults \in Nat

VARIABLES
    releases, \* published releases
    broken,   \* release directories that a pruning has left half removed
    current,  \* the link to the release in use
    previous, \* the link to the release before
    owned,    \* releases whose own paths and units are on the host
    running,  \* the release the services were last started from
    latest,   \* the snapshot `latest' points to
    pc, run,  \* control state and locals of the run
    found,    \* history: the node as the run found it
    faults    \* bound

node == <<current, previous, owned, running>>
disk == <<releases, broken, node, latest>>
vars == <<disk, pc, run, found, faults>>

NoneOr(S) == S \cup {None}

\* All that `test -d' finds among the releases.
Directories == releases \cup broken

\* What a snapshot keeps of the paths and units in its scope.
Snapshot == [current : NoneOr(Releases), previous : NoneOr(Releases),
             owned : SUBSET Releases, up : BOOLEAN, scope : SUBSET Releases]
\* The baseline: the host before it was first touched, for every path ever used.
Baseline == [current |-> None, previous |-> None, owned |-> {}, up |-> FALSE,
             scope |-> Releases]

Actions == {"install", "rollback", "remove", "purge"}
Changing == {"latest", "publish", "links", "previous", "current", "start", "retire",
             "verify", "prune", "commit"}
Restoring == {"stop", "drop current", "copy current", "drop previous",
              "copy previous", "paths", "services"}
Stages == {"idle", "snapshot", "set previous", "removed", "purge"} \cup Changing \cup Restoring

\* active is TRANSACTION_ACTIVE; failing is a run inside its EXIT trap; skipped is
\* history: a command failed there and was passed over.
NoRun == [action |-> "install", target |-> None, from |-> None, undo |-> Baseline,
          snapshot |-> Baseline, active |-> FALSE, failing |-> FALSE, skipped |-> FALSE]
Run == [action : Actions, target : NoneOr(Releases), from : NoneOr(Releases),
        undo : Snapshot, snapshot : Snapshot, active : BOOLEAN, failing : BOOLEAN, skipped : BOOLEAN]

TypeOK ==
    /\ releases \in SUBSET Releases /\ broken \in SUBSET (Releases \ releases)
    /\ current \in NoneOr(Releases) /\ previous \in NoneOr(Releases)
    /\ owned \in SUBSET Releases /\ running \in NoneOr(Releases)
    /\ latest \in NoneOr(Snapshot)
    /\ pc \in Stages /\ run \in Run /\ found \in Snapshot
    /\ faults \in 0..MaxFaults

Init ==
    /\ releases = {} /\ broken = {} /\ current = None /\ previous = None
    /\ owned = {} /\ running = None /\ latest = None
    /\ pc = "idle" /\ run = NoRun /\ found = Baseline
    /\ faults = 0
------------------------------------------------------------------------------
(* The beginning of a run. *)

\* build_operation_scope and capture_snapshot.
Captured(scope) ==
    [current |-> current, previous |-> previous, owned |-> owned \cap scope,
     up |-> running # None, scope |-> scope]

Begin(action, target, stage) ==
    /\ pc = "idle"
    /\ pc' = stage
    /\ run' = [NoRun EXCEPT !.action = action, !.target = target, !.from = current]
    /\ found' = Captured(Releases)
    /\ UNCHANGED <<disk, faults>>

\* A current link that leads nowhere stops the run (prepare_previous_contract).
StartInstall(release) ==
    /\ current \in NoneOr(releases)
    /\ Begin("install", release, "snapshot")

StartRemove ==
    \E action \in {"remove", "purge"} :
        /\ current \in releases
        /\ Begin(action, None, "snapshot")

StartRollback ==
    /\ latest # None
    /\ Begin("rollback", None, "stop")

\* Mutant: the scope leaves out what only the new release has.
ScopeOfCurrent == {run.from} \ {None}
Scope == {run.from, run.target} \ {None}

TakeSnapshot ==
    /\ pc = "snapshot"
    /\ run' = [run EXCEPT !.snapshot = Captured(Scope)]
    /\ pc' = "latest"
    /\ UNCHANGED <<disk, found, faults>>

\* The snapshot is complete and `latest' names it: the transaction begins.
NameSnapshot ==
    /\ pc = "latest"
    /\ latest' = run.snapshot
    /\ run' = [run EXCEPT !.active = TRUE,
                          !.undo = IF run.action = "install" THEN run.snapshot ELSE Baseline]
    /\ pc' = IF run.action = "install" THEN "publish" ELSE "stop"
    /\ UNCHANGED <<releases, broken, node, found, faults>>
------------------------------------------------------------------------------
(* install_action. *)

\* stage_release to publish_staged_release: the tree is moved into place whole, or
\* is there already with the same content; another content is a collision.
Collision(release) == release \in broken

PublishRelease ==
    /\ pc = "publish"
    /\ ~Collision(run.target)
    /\ releases' = releases \cup {run.target}
    /\ pc' = "links"
    /\ UNCHANGED <<broken, node, latest, run, found, faults>>

InstallLinks ==
    /\ pc = "links"
    /\ owned' = owned \cup {run.target}
    /\ pc' = "previous"
    /\ UNCHANGED <<releases, broken, current, previous, running, latest, run, found, faults>>

\* Mutant: previous keeps its first value.
PreviousKept == IF previous = None /\ current \in Directories THEN current ELSE previous
PreviousAfterSwitch == IF current \in Directories THEN current ELSE previous

SwitchPrevious ==
    /\ pc = "previous"
    /\ previous' = PreviousAfterSwitch
    /\ pc' = "current"
    /\ UNCHANGED <<releases, broken, current, owned, running, latest, run, found, faults>>

SwitchCurrent ==
    /\ pc = "current"
    /\ current' = run.target
    /\ pc' = "start"
    /\ UNCHANGED <<releases, broken, previous, owned, running, latest, run, found, faults>>

StartServices ==
    /\ pc = "start"
    /\ running' = current
    /\ pc' = "retire"
    /\ UNCHANGED <<releases, broken, current, previous, owned, latest, run, found, faults>>

\* Mutant: nothing is retired.
NothingRetired == {}
\* What only the release that was current at the start has.
Retired == {run.from} \ {run.target}

Retire ==
    /\ pc = "retire"
    /\ owned' = owned \ Retired
    /\ pc' = "verify"
    /\ UNCHANGED <<releases, broken, current, previous, running, latest, run, found, faults>>

VerifyActive ==
    /\ pc = "verify"
    /\ pc' = "prune"
    /\ UNCHANGED <<disk, run, found, faults>>

\* Mutant: both links must be there.
BothLinksRequired == ~ ({current, previous} \subseteq Directories)
\* A link that leads nowhere, or no link, stops the pruning.
PruneRefused ==
    \/ ~ ({current, previous} \subseteq NoneOr(Directories))
    \/ {current, previous} = {None}

PruneReleases ==
    /\ pc = "prune"
    /\ ~PruneRefused
    /\ releases' = releases \cap {current, previous}
    /\ broken' = broken \cap {current, previous}
    /\ pc' = "commit"
    /\ UNCHANGED <<node, latest, run, found, faults>>

End == pc' = "idle" /\ run' = NoRun /\ found' = Baseline

Commit ==
    /\ pc = "commit"
    /\ End
    /\ UNCHANGED <<disk, faults>>
------------------------------------------------------------------------------
(* restore_snapshot: in the EXIT trap, in a removal and in a rollback. *)

Undo == IF run.action = "rollback" /\ ~run.failing THEN latest ELSE run.undo

Restore(stage, next) == pc = stage /\ pc' = next

StopServices ==
    /\ Restore("stop", "drop current")
    /\ running' = None
    /\ UNCHANGED <<releases, broken, current, previous, owned, latest, run, found, faults>>

DropCurrent ==
    /\ Restore("drop current", "copy current")
    /\ current' = None
    /\ UNCHANGED <<releases, broken, previous, owned, running, latest, run, found, faults>>

CopyCurrent ==
    /\ Restore("copy current", "drop previous")
    /\ current' = Undo.current
    /\ UNCHANGED <<releases, broken, previous, owned, running, latest, run, found, faults>>

DropPrevious ==
    /\ Restore("drop previous", "copy previous")
    /\ previous' = None
    /\ UNCHANGED <<releases, broken, current, owned, running, latest, run, found, faults>>

CopyPrevious ==
    /\ Restore("copy previous", "paths")
    /\ previous' = Undo.previous
    /\ UNCHANGED <<releases, broken, current, owned, running, latest, run, found, faults>>

RestorePaths ==
    /\ Restore("paths", "services")
    /\ owned' = (owned \ Undo.scope) \cup Undo.owned
    /\ UNCHANGED <<releases, broken, current, previous, running, latest, run, found, faults>>

\* Services that ran are started again, from what current now names.
RestoreServices ==
    /\ pc = "services"
    /\ running' = IF Undo.up THEN current ELSE None
    /\ IF run.failing THEN End
       ELSE /\ pc' = IF run.action = "rollback" THEN "set previous" ELSE "removed"
            /\ UNCHANGED <<run, found>>
    /\ UNCHANGED <<releases, broken, current, previous, owned, latest, faults>>
------------------------------------------------------------------------------
(* The ends of rollback_action and remove_action. *)

SetPrevious ==
    /\ pc = "set previous"
    /\ previous' = IF run.from \in Directories THEN run.from ELSE previous
    /\ pc' = IF current = None THEN "commit" ELSE "verify"
    /\ UNCHANGED <<releases, broken, current, owned, running, latest, run, found, faults>>

Remove ==
    /\ pc = "removed"
    /\ IF run.action = "remove" THEN End
       ELSE /\ pc' = "purge"
            /\ run' = [run EXCEPT !.active = FALSE]
            /\ UNCHANGED found
    /\ UNCHANGED <<disk, faults>>

\* The whole tree of the node goes, releases and snapshots with it.
Purge ==
    /\ pc = "purge"
    /\ releases' = {} /\ broken' = {} /\ latest' = None
    /\ End
    /\ UNCHANGED <<node, faults>>
------------------------------------------------------------------------------
(* Failures. *)

\* The EXIT trap of an open transaction; any other run just ends.
Trap ==
    IF run.active
       THEN /\ pc' = "stop"
            /\ run' = [run EXCEPT !.active = FALSE, !.failing = TRUE, !.undo = run.snapshot]
            /\ UNCHANGED found
       ELSE End

\* The two refusals are no faults of the environment.
RefusePublish ==
    /\ pc = "publish"
    /\ Collision(run.target)
    /\ Trap
    /\ UNCHANGED <<disk, faults>>

RefusePrune ==
    /\ pc = "prune"
    /\ PruneRefused
    /\ Trap
    /\ UNCHANGED <<disk, faults>>

Fault == faults < MaxFaults /\ faults' = faults + 1

\* Pruning that stops on its way: some directories are gone and one may be half gone.
PruneStops ==
    \E gone, half \in SUBSET (Directories \ {current, previous}) :
        /\ Cardinality(half) <= 1
        /\ releases' = releases \ (gone \cup half)
        /\ broken' = (broken \ gone) \cup half

\* What a run that ends at its present stage has done to the release directories.
Stopped == IF pc = "prune" /\ ~PruneRefused THEN PruneStops ELSE UNCHANGED <<releases, broken>>

\* A command fails and errexit ends the run; after the commit none can.
Fails ==
    /\ Fault
    /\ pc \notin {"idle", "commit", "purge"} /\ ~run.failing
    /\ Stopped
    /\ Trap
    /\ UNCHANGED <<node, latest>>

After(stage) ==
    CASE stage = "stop" -> "drop current"
      [] stage = "drop current" -> "copy current"
      [] stage = "copy current" -> "drop previous"
      [] stage = "drop previous" -> "copy previous"
      [] stage = "copy previous" -> "paths"
      [] stage = "paths" -> "services"

\* In the trap a command that fails is passed over, while die ends the run.
FailsInTrap ==
    /\ Fault
    /\ run.failing
    /\ \/ pc # "services" /\ pc' = After(pc) /\ run' = [run EXCEPT !.skipped = TRUE] /\ UNCHANGED found
       \/ End
    /\ UNCHANGED disk

Killed ==
    /\ Fault
    /\ pc # "idle"
    /\ Stopped
    /\ End
    /\ UNCHANGED <<node, latest>>

Start == (\E release \in Releases : StartInstall(release)) \/ StartRemove \/ StartRollback
Step ==
    \/ TakeSnapshot \/ NameSnapshot \/ PublishRelease \/ InstallLinks \/ SwitchPrevious
    \/ SwitchCurrent \/ StartServices \/ Retire \/ VerifyActive \/ PruneReleases
    \/ RefusePublish \/ RefusePrune \/ Commit \/ StopServices \/ DropCurrent \/ CopyCurrent
    \/ DropPrevious \/ CopyPrevious \/ RestorePaths \/ RestoreServices \/ SetPrevious
    \/ Remove \/ Purge

Next == Start \/ Step \/ Fails \/ FailsInTrap \/ Killed

Spec == Init /\ [][Next]_vars

\* A run goes on, and after whatever happened every release is requested again.
FairSpec ==
    /\ Spec /\ WF_vars(Step)
    /\ \A release \in Releases : SF_vars(StartInstall(release))
------------------------------------------------------------------------------
(***************************************************************************)
(* Properties                                                              *)
(***************************************************************************)

\* The release in use and the one a rollback leads to are never pruned, whatever
\* runs were killed or undone in between (prune_unreferenced_releases).
LinkTargetsExist ==
    /\ current \in NoneOr(releases)
    /\ latest # None => latest.current \in NoneOr(releases)

\* An install or a removal that fails and is restored without a further fault
\* leaves the links and services it found, and the paths of the two releases it is
\* about (on_exit, restore_snapshot).  Services that ran on after their release was
\* gone cannot be started again.
FailedRunRestores ==
    [][run.failing /\ ~run.skipped /\ pc = "services" /\ pc' = "idle" /\ faults' = faults =>
          /\ current' = found.current /\ previous' = found.previous
          /\ \A release \in {run.from, run.target} \ {None} :
                release \in owned' <=> release \in found.owned
          /\ (running' # None) = (found.up /\ found.current # None)]_vars

\* An install that succeeds on a host without leftovers leaves none: only the new
\* release has paths and units on it, and the services run it.
InstallLeavesOneRelease ==
    [][run.action = "install" /\ pc = "commit" /\ pc' = "idle" /\ faults' = faults =>
          /\ running = current
          /\ found.owned \subseteq {found.current} => owned = {current}]_vars

\* However a rollback ends, a node that had a release in use still has one: the
\* links change atomically (CHANGELOG.md; restore_snapshot removes, then copies).
RollbackKeepsCurrent ==
    [][run.action = "rollback" /\ pc # "idle" /\ pc' = "idle"
       /\ found.current # None /\ latest.current # None => current' # None]_vars

\* Whatever a fault has left, installing again succeeds in the end.
InstallGetsThrough == []<>(pc = "commit" /\ run.action = "install")
==============================================================================
