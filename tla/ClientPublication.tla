-------------------------- MODULE ClientPublication --------------------------
(***************************************************************************)
(* Generation publication (vpn_installer/client_publication.py).           *)
(*                                                                         *)
(* `client' is the public path: absent, the directory an old release left, *)
(* or a link to one retained generation.  A publisher stages a complete    *)
(* generation, writes a recovery journal, moves a legacy directory aside,  *)
(* adopts its route state, switches the pointer and clears the journal.    *)
(* Any step may raise and the process may die between any two of them; the *)
(* next publisher recovers from what is on disk.  Readers pin a generation *)
(* without the lock; only a reader that finds no link takes it.            *)
(***************************************************************************)
EXTENDS Naturals, FiniteSets

CONSTANTS Publishers,     \* processes that call publish_locked or rollback
          Readers,        \* processes that call snapshot
          Gens,           \* generation ids a uuid4 may yield
          Payloads,       \* rendered client sets
          Notes,          \* contents of the operator's own files
          RouteStates,    \* contents of windows-route-bypass.state.json
          MaxGenerations, \* MAX_GENERATIONS
          MaxFaults,      \* bound: crashes and raised errors in one behaviour
          Absent, Directory, None, LegacySet, Unpublished, NoNotes

\* What the journal records.
Data == [target : Gens, previous : Gens \cup {None}, legacy : BOOLEAN]

ASSUME PublicationAssumption ==
    /\ MaxGenerations \in Nat /\ MaxFaults \in Nat
    /\ Publishers \cap Readers = {}
    /\ None \notin Publishers \cup Readers \cup Gens \cup RouteStates \cup Data
    /\ Absent \notin Gens /\ Directory \notin Gens
    /\ None # Directory /\ Absent # Directory
    /\ LegacySet \notin Payloads /\ Unpublished \notin Payloads /\ None \notin Payloads
    /\ LegacySet # Unpublished
    /\ NoNotes \notin Notes

VARIABLES
    client,       \* the public path
    aside,        \* the legacy directory lies under .client-legacy-<id>
    legacyNotes,  \* the operator's files in the legacy directory
    legacyRoute,  \* route state inside the legacy directory
    stable,       \* route state under .client-state
    gen,          \* .client-generations
    journal,      \* .client-publication.json
    forward,      \* the root NEXT-STEPS.txt is the location notice
    lock,         \* holder of .client-artifacts.lock
    pc, job,      \* a publisher's control state and its locals
    pinned,       \* what each reader has pinned
    seen,         \* history: the payload each reader found when it pinned
    faults        \* bound

disk == <<client, aside, legacyNotes, legacyRoute, stable, gen, journal, forward>>
vars == <<disk, lock, pc, job, pinned, seen, faults>>

NoGeneration == [state |-> "none", payload |-> None, notes |-> NoNotes]
Generation == [state : {"none", "partial", "ready"},
               payload : Payloads \cup {None},
               notes : Notes \cup {NoNotes}]
Stages == {"idle", "recover", "forward", "clear", "plan", "stage", "seal",
           "journal", "move", "adopt", "activate"}
\* The steps of publish_locked that its try statement guards.
Guarded == {"move", "adopt", "activate"}
NewJob(payload, retained) ==
    [payload |-> payload, retained |-> retained, data |-> None, raising |-> FALSE]
NoJob == NewJob(None, None)
Job == [payload : Payloads \cup {None}, retained : Gens \cup {None},
        data : Data \cup {None}, raising : BOOLEAN]

IsLink == client \in Gens
\* Mutant: an id is free unless the pointer selects it.
OnlySelectedOnDisk == {g \in Gens : g = client}
OnDisk == {g \in Gens : gen[g].state # "none"}
Ready(g) == gen[g].state = "ready"

\* The payload a publisher wants: its own, or the retained one of a rollback.
Desired(p) ==
    IF job[p].retained = None THEN job[p].payload ELSE gen[job[p].retained].payload

TypeOK ==
    /\ client \in Gens \cup {Absent, Directory}
    /\ aside \in BOOLEAN
    /\ legacyNotes \in Notes \cup {NoNotes}
    /\ legacyRoute \in RouteStates \cup {None}
    /\ stable \in RouteStates \cup {None}
    /\ gen \in [Gens -> Generation]
    /\ journal \in Data \cup {None}
    /\ forward \in BOOLEAN
    /\ lock \in Publishers \cup Readers \cup {None}
    /\ pc \in [Publishers -> Stages]
    /\ job \in [Publishers -> Job]
    /\ pinned \in [Readers -> Gens \cup {Directory, None}]
    /\ seen \in [Readers -> Payloads \cup {LegacySet, None}]
    /\ faults \in 0..MaxFaults

Init ==
    /\ client \in {Absent, Directory}
    /\ aside = FALSE
    /\ legacyNotes \in IF client = Directory THEN Notes ELSE {NoNotes}
    /\ legacyRoute \in IF client = Directory THEN RouteStates \cup {None} ELSE {None}
    /\ stable \in RouteStates \cup {None}
    /\ gen = [g \in Gens |-> NoGeneration]
    /\ journal = None
    /\ forward = FALSE
    /\ lock = None
    /\ pc = [p \in Publishers |-> "idle"]
    /\ job = [p \in Publishers |-> NoJob]
    /\ pinned = [r \in Readers |-> None]
    /\ seen = [r \in Readers |-> None]
    /\ faults = 0

------------------------------------------------------------------------------
\* Entering and leaving publication_lock (non-blocking: a busy lock is refused
\* with no effect, which is a stuttering step).

readers == <<pinned, seen>>

Goto(p, stage) == pc' = [pc EXCEPT ![p] = stage]

Release(p) ==
    /\ lock' = None
    /\ pc' = [pc EXCEPT ![p] = "idle"]
    /\ job' = [job EXCEPT ![p] = NoJob]

Begin(p, payload, retained) ==
    /\ pc[p] = "idle"
    /\ lock = None
    /\ lock' = p
    /\ Goto(p, "recover")
    /\ job' = [job EXCEPT ![p] = NewJob(payload, retained)]
    /\ UNCHANGED <<disk, readers, faults>>

Publish(p) == \E payload \in Payloads : Begin(p, payload, None)

Rollback(p) == \E g \in OnDisk : Begin(p, None, g)

------------------------------------------------------------------------------
\* recover_locked and _finish.  "raising" is the exception recover_locked was
\* called for: it is raised again once recovery is over.

RecoverNothing(p) ==
    /\ pc[p] = "recover"
    /\ journal = None
    /\ IF job[p].raising THEN Release(p) ELSE Goto(p, "plan") /\ UNCHANGED <<lock, job>>
    /\ UNCHANGED <<disk, readers, faults>>

\* Mutant: a pointer that has been switched needs no _finish.
AcceptsWithoutNotice(p) ==
    /\ pc[p] = "recover"
    /\ journal # None
    /\ IsLink /\ client \in {journal.target, journal.previous} /\ Ready(client)
    /\ Goto(p, "clear")
    /\ UNCHANGED <<disk, lock, job, readers, faults>>
\* Mutant: only a pointer that has been switched is accepted.
AcceptsTarget(p) ==
    /\ pc[p] = "recover"
    /\ journal # None
    /\ IsLink /\ client = journal.target /\ Ready(client)
    /\ Goto(p, "forward")
    /\ UNCHANGED <<disk, lock, job, readers, faults>>
RecoverAcceptsPointer(p) ==
    /\ pc[p] = "recover"
    /\ journal # None
    /\ IsLink
    /\ client \in {journal.target, journal.previous}
    /\ Ready(client)
    /\ Goto(p, "forward")
    /\ UNCHANGED <<disk, lock, job, readers, faults>>

RecoverRestoresLegacy(p) ==
    /\ pc[p] = "recover"
    /\ journal # None
    /\ client = Absent
    /\ journal.legacy /\ aside
    /\ client' = Directory
    /\ aside' = FALSE
    /\ UNCHANGED <<legacyNotes, legacyRoute, stable, gen, journal, forward,
                   lock, pc, job, readers, faults>>

\* Mutant: any path that is no link lets recovery forget the journal.
ObsoleteUnlessLink == ~IsLink
JournalObsolete == client = Directory \/ (client = Absent /\ ~journal.legacy)

RecoverDropsJournal(p) ==
    /\ pc[p] = "recover"
    /\ journal # None
    /\ JournalObsolete
    /\ journal' = None
    /\ UNCHANGED <<client, aside, legacyNotes, legacyRoute, stable, gen, forward,
                   lock, pc, job, readers, faults>>

\* The journal does not explain the disk: manual recovery is demanded.
RecoveryStuck ==
    /\ journal # None
    /\ \/ IsLink /\ ~(client \in {journal.target, journal.previous} /\ Ready(client))
       \/ client = Absent /\ journal.legacy /\ ~aside

FinishForward(p) ==
    /\ pc[p] = "forward"
    /\ forward' = TRUE
    /\ Goto(p, "clear")
    /\ UNCHANGED <<client, aside, legacyNotes, legacyRoute, stable, gen, journal,
                   lock, job, readers, faults>>

\* After the journal is gone the publisher that switched the pointer returns;
\* a recovery goes on with its own publication, or raises.
FinishClear(p) ==
    /\ pc[p] = "clear"
    /\ journal' = None
    /\ IF job[p].data # None
          THEN Release(p)
          ELSE Goto(p, "plan") /\ UNCHANGED <<lock, job>>
    /\ UNCHANGED <<client, aside, legacyNotes, legacyRoute, stable, gen, forward,
                   readers, faults>>

------------------------------------------------------------------------------
\* publish_locked.

\* Mutant: the public path is taken for a generation without asking.
PreviousUnchecked == client
Previous == IF IsLink THEN client ELSE None
\* Mutant: the journal names the target only.
PlanWithoutPrevious(g) == [target |-> g, previous |-> None, legacy |-> client = Directory]
Plan(g) == [target |-> g, previous |-> Previous, legacy |-> client = Directory]
Restorable(p) == job[p].retained # None => Ready(job[p].retained)
Unchanged(p) == IsLink /\ gen[client].payload = Desired(p)

PlanUnchanged(p) ==
    /\ pc[p] = "plan"
    /\ Restorable(p)
    /\ Unchanged(p)
    /\ Release(p)
    /\ UNCHANGED <<disk, readers, faults>>

PlanRefused(p) ==
    /\ pc[p] = "plan"
    /\ \/ ~Restorable(p)
       \/ ~Unchanged(p) /\ Cardinality(OnDisk) >= MaxGenerations
    /\ Release(p)
    /\ UNCHANGED <<disk, readers, faults>>

PlanStage(p) ==
    /\ pc[p] = "plan"
    /\ Restorable(p)
    /\ ~Unchanged(p)
    /\ Cardinality(OnDisk) < MaxGenerations
    /\ \E g \in Gens \ OnDisk :
          /\ gen' = [gen EXCEPT ![g].state = "partial"]
          /\ job' = [job EXCEPT ![p] = [NewJob(Desired(p), None) EXCEPT !.data = Plan(g)]]
    /\ Goto(p, "stage")
    /\ UNCHANGED <<client, aside, legacyNotes, legacyRoute, stable, journal, forward,
                   lock, readers, faults>>

\* Mutant: only a legacy directory is copied.
LegacyNotesOnly(data) == IF data.legacy THEN legacyNotes ELSE NoNotes
\* What _copy_operator finds in the source of a generation.
SourceNotes(data) ==
    IF data.previous # None THEN gen[data.previous].notes
    ELSE IF data.legacy THEN legacyNotes ELSE NoNotes

\* The artifacts of the payload, then the operator's entries of the source.
WriteArtifacts(p) ==
    LET data == job[p].data IN
    /\ pc[p] = "stage"
    /\ gen' = [gen EXCEPT
         ![data.target].payload = job[p].payload,
         ![data.target].notes = SourceNotes(data)]
    /\ Goto(p, "seal")
    /\ UNCHANGED <<client, aside, legacyNotes, legacyRoute, stable, journal, forward,
                   lock, job, readers, faults>>

\* The manifest, and the validation of what was written.
Seal(p) ==
    /\ pc[p] = "seal"
    /\ gen' = [gen EXCEPT ![job[p].data.target].state = "ready"]
    /\ Goto(p, "journal")
    /\ UNCHANGED <<client, aside, legacyNotes, legacyRoute, stable, journal, forward,
                   lock, job, readers, faults>>

WriteJournal(p) ==
    /\ pc[p] = "journal"
    /\ journal' = job[p].data
    /\ Goto(p, "move")
    /\ UNCHANGED <<client, aside, legacyNotes, legacyRoute, stable, gen, forward,
                   lock, job, readers, faults>>

MoveLegacy(p) ==
    /\ pc[p] = "move"
    /\ IF job[p].data.legacy
          THEN client' = Absent /\ aside' = TRUE
          ELSE UNCHANGED <<client, aside>>
    /\ Goto(p, "adopt")
    /\ UNCHANGED <<legacyNotes, legacyRoute, stable, gen, journal, forward,
                   lock, job, readers, faults>>

\* Mutant: the adoption looks at the public path after the move.
AdoptsFromClient(data) == client = Directory /\ legacyRoute # None
Adopts(data) == data.legacy /\ legacyRoute # None

\* Mutant: the legacy copy replaces a stable state that differs.
RouteOverwrites == FALSE
\* _legacy_route_state: an existing stable state that differs is never replaced.
RouteConflict == stable # None /\ stable # legacyRoute

AdoptRouteState(p) ==
    LET adopts == Adopts(job[p].data) IN
    /\ pc[p] = "adopt"
    /\ IF adopts /\ RouteConflict
          THEN /\ Goto(p, "recover")
               /\ job' = [job EXCEPT ![p].raising = TRUE]
               /\ UNCHANGED stable
          ELSE /\ Goto(p, "activate")
               /\ stable' = IF adopts THEN legacyRoute ELSE stable
               /\ UNCHANGED job
    /\ UNCHANGED <<client, aside, legacyNotes, legacyRoute, gen, journal, forward,
                   lock, readers, faults>>

Activate(p) ==
    /\ pc[p] = "activate"
    /\ client' = job[p].data.target
    /\ Goto(p, "forward")
    /\ UNCHANGED <<aside, legacyNotes, legacyRoute, stable, gen, journal, forward,
                   lock, job, readers, faults>>

------------------------------------------------------------------------------
\* An error raised by the step a publisher is about to finish.  Inside the try
\* statement, where _finish of the publication belongs too, it runs
\* recover_locked first; anywhere else it only leaves the lock.
Fails(p) ==
    /\ pc[p] # "idle"
    /\ faults < MaxFaults
    /\ faults' = faults + 1
    /\ IF ~job[p].raising /\ (pc[p] \in Guarded
                              \/ (pc[p] \in {"forward", "clear"} /\ job[p].data # None))
          THEN /\ Goto(p, "recover")
               /\ job' = [job EXCEPT ![p].raising = TRUE]
               /\ UNCHANGED lock
          ELSE Release(p)
    /\ UNCHANGED <<disk, readers>>

\* The process dies: the kernel drops its lock and the disk stays as it is.
Crash(p) ==
    /\ pc[p] # "idle"
    /\ faults < MaxFaults
    /\ faults' = faults + 1
    /\ Release(p)
    /\ UNCHANGED <<disk, readers>>

------------------------------------------------------------------------------
\* snapshot.

\* Where a reader that holds the lock finds the set when `client' is no link.
LockedSelection ==
    IF client = Directory \/ (client = Absent /\ journal # None /\ journal.legacy /\ aside)
      THEN Directory ELSE None

PinLink(r) ==
    /\ pinned[r] = None
    /\ IsLink /\ Ready(client)
    /\ pinned' = [pinned EXCEPT ![r] = client]
    /\ seen' = [seen EXCEPT ![r] = gen[client].payload]
    /\ UNCHANGED <<disk, lock, pc, job, faults>>

PinLocked(r) ==
    /\ pinned[r] = None
    /\ ~IsLink
    /\ lock = None
    /\ LockedSelection # None
    /\ lock' = r
    /\ pinned' = [pinned EXCEPT ![r] = Directory]
    /\ seen' = [seen EXCEPT ![r] = LegacySet]
    /\ UNCHANGED <<disk, pc, job, faults>>

Unpin(r) ==
    /\ pinned[r] # None
    /\ pinned' = [pinned EXCEPT ![r] = None]
    /\ seen' = [seen EXCEPT ![r] = None]
    /\ lock' = IF lock = r THEN None ELSE lock
    /\ UNCHANGED <<disk, pc, job, faults>>

------------------------------------------------------------------------------
\* The operator and the route helper.  Edits concurrent with a publication are
\* not supported by the code, and an old helper must not run during migration.

Edit ==
    /\ lock \notin Publishers
    /\ \E n \in Notes :
          \/ /\ client = Directory
             /\ legacyNotes' = n
             /\ UNCHANGED gen
          \/ /\ IsLink
             /\ gen' = [gen EXCEPT ![client].notes = n]
             /\ UNCHANGED legacyNotes
    /\ UNCHANGED <<client, aside, legacyRoute, stable, journal, forward,
                   lock, pc, job, readers, faults>>

LegacyHelper ==
    /\ lock \notin Publishers
    /\ client = Directory
    /\ legacyRoute' \in RouteStates
    /\ UNCHANGED <<client, aside, legacyNotes, stable, gen, journal, forward,
                   lock, pc, job, readers, faults>>

StableHelper ==
    /\ IsLink
    /\ stable' \in RouteStates
    /\ UNCHANGED <<client, aside, legacyNotes, legacyRoute, gen, journal, forward,
                   lock, pc, job, readers, faults>>

Recovering(p) ==
    \/ RecoverNothing(p) \/ RecoverAcceptsPointer(p) \/ RecoverRestoresLegacy(p)
    \/ RecoverDropsJournal(p) \/ FinishForward(p) \/ FinishClear(p)

Publishing(p) ==
    \/ PlanUnchanged(p) \/ PlanRefused(p) \/ PlanStage(p) \/ WriteArtifacts(p)
    \/ Seal(p) \/ WriteJournal(p) \/ MoveLegacy(p) \/ AdoptRouteState(p) \/ Activate(p)

Next ==
    \/ \E p \in Publishers :
          Publish(p) \/ Rollback(p) \/ Recovering(p) \/ Publishing(p) \/ Fails(p) \/ Crash(p)
    \/ \E r \in Readers : PinLink(r) \/ PinLocked(r) \/ Unpin(r)
    \/ Edit \/ LegacyHelper \/ StableHelper

Spec == Init /\ [][Next]_vars

\* A live publisher takes its next step; some publisher is run again sooner or
\* later; a reader closes what it pinned.  No fault and no edit is forced.
Fairness ==
    /\ \A p \in Publishers : WF_vars(Recovering(p) \/ Publishing(p))
    /\ SF_vars(\E p \in Publishers : Publish(p))
    /\ \A r \in Readers : WF_vars(Unpin(r))

FairSpec == Spec /\ Fairness

------------------------------------------------------------------------------
(***************************************************************************)
(* Properties                                                              *)
(***************************************************************************)

\* The public path only ever selects a sealed generation, and a journal found
\* beside a link always names that link: recover_locked never has to refuse
\* ("journal does not own the active generation", "legacy backup is missing"),
\* whatever was interrupted before (client_publication.py:254-268).
RecoveryNeverStuck ==
    /\ IsLink => Ready(client)
    /\ ~RecoveryStuck

\* While the public path is missing after a migration began, the journal still
\* leads a reader and the next publisher to the directory moved aside
\* (snapshot, client_publication.py:288-294).
MissingPathIsRecoverable ==
    client = Absent /\ aside => journal # None /\ journal.legacy

\* What a reader pinned stays the set it found, through publications,
\* rollbacks, crashes and recoveries of other processes.
PinnedSetIsStable ==
    \A r \in Readers :
        /\ pinned[r] \in Gens => Ready(pinned[r]) /\ gen[pinned[r]].payload = seen[r]
        /\ pinned[r] = Directory => lock = r /\ LockedSelection = Directory

\* A legacy directory that held route state and was replaced by the link has left one.
RouteStateAdopted == IsLink /\ aside /\ legacyRoute # None => stable # None
\* Route ownership survives every publication: once the link replaced a legacy directory
\* that held route state, the stable place holds one (_legacy_route_state runs before
\* _activate); and what the stable place holds is never replaced by a publisher's step,
\* however old the legacy copy that an interrupted migration comes back with.
RouteStateSurvives ==
    [][/\ RouteStateAdopted'
       /\ stable # None /\ stable' # stable => UNCHANGED pc]_vars

\* With no journal left behind, a selected generation has the root notice that
\* points at it: recovery completes what an interrupted _finish left undone.
NoticeFollowsPointer == IsLink /\ journal = None => forward

\* A journal never stays for good: once publishers run and faults end, the
\* next one resolves it, at the retention limit and with a route conflict too.
JournalIsResolved == journal # None ~> journal = None

\* What the lock-holding reader would find, as the atomic store of ArtifactStore.
PublishedView ==
    IF IsLink THEN gen[client].payload
    ELSE IF LockedSelection = Directory THEN LegacySet ELSE Unpublished

NotesView ==
    IF IsLink THEN gen[client].notes
    ELSE IF LockedSelection = Directory THEN legacyNotes ELSE NoNotes

Store == INSTANCE ArtifactStore WITH published <- PublishedView, notes <- NotesView

\* Publication is atomic and keeps the operator's files for every reader,
\* whatever crashes: the whole protocol implements the atomic store.
AtomicStore == Store!Spec
==============================================================================
