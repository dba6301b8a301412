----------------------- MODULE ClientPublicationProofs -----------------------
(***************************************************************************)
(* Proofs about ClientPublication for every set of processes, generations, *)
(* payloads and contents.  The inductive invariant IInv ties each control  *)
(* point of the lock holder to the disk: which generation is sealed, which *)
(* journal is written, where the legacy directory is.                      *)
(***************************************************************************)
EXTENDS ClientPublication, TLAPS

\* Whoever is inside publish_locked holds the lock.
LockInv == \A p \in Publishers : pc[p] # "idle" <=> lock = p

\* Between planning and the switch nothing but the legacy move touches the
\* public path, so the planned previous generation and legacy flag stay true.
PlannedInv(p) ==
    LET data == job[p].data IN
    /\ data \in Data
    /\ job[p].payload \in Payloads
    /\ ~job[p].raising
    /\ data.previous = Previous
    /\ data.target # client
    /\ pc[p] \in {"stage", "seal", "journal", "move"} =>
          (data.legacy <=> client = Directory)
    /\ pc[p] \in {"adopt", "activate"} =>
          IF data.legacy THEN client = Absent /\ aside ELSE client # Directory
    /\ pc[p] \in {"stage", "seal"} => gen[data.target].state = "partial"
    /\ pc[p] = "seal" => gen[data.target].payload = job[p].payload
    /\ pc[p] \in {"journal", "move", "adopt", "activate"} =>
          Ready(data.target) /\ gen[data.target].payload = job[p].payload
    /\ pc[p] \in {"seal", "journal", "move", "adopt", "activate"} =>
          gen[data.target].notes = SourceNotes(data)
    /\ pc[p] \in {"stage", "seal", "journal"} => journal = None
    /\ pc[p] \in {"move", "adopt", "activate"} => journal = data

JobOK(p) ==
    /\ pc[p] = "idle" => job[p] = NoJob
    /\ pc[p] = "plan" => journal = None /\ job[p].data = None /\ ~job[p].raising
    /\ pc[p] \in {"stage", "seal", "journal", "move", "adopt", "activate"} =>
          PlannedInv(p)
    /\ pc[p] \in {"forward", "clear"} => journal # None /\ IsLink
    /\ pc[p] = "clear" => forward
    /\ job[p].raising => job[p].data # None
    /\ pc[p] = "recover" /\ ~job[p].raising => job[p].data = None
    /\ pc[p] # "idle" /\ job[p].retained = None => job[p].payload \in Payloads

JobInv == \A p \in Publishers : JobOK(p)

DiskInv ==
    /\ IsLink => Ready(client)
    /\ client = Directory => ~aside
    /\ client = Absent /\ aside => journal # None /\ journal.legacy
    /\ journal # None =>
          /\ Ready(journal.target)
          /\ IsLink => client \in {journal.target, journal.previous}
          /\ ~IsLink => journal.previous = None
          /\ client = Absent /\ journal.legacy => aside
    /\ IsLink /\ journal = None => forward
    /\ \A g \in Gens : Ready(g) => gen[g].payload \in Payloads

PinInv ==
    \A r \in Readers :
        /\ pinned[r] \in Gens => Ready(pinned[r]) /\ gen[pinned[r]].payload = seen[r]
        /\ pinned[r] = Directory => lock = r /\ LockedSelection = Directory

IInv == TypeOK /\ LockInv /\ JobInv /\ DiskInv /\ PinInv

------------------------------------------------------------------------------
\* The records that jobs go through are jobs.

LEMMA NoJobType == NoJob \in Job
  BY DEF NoJob, NewJob, Job

LEMMA NewJobType ==
    ASSUME NEW payload \in Payloads \cup {None}, NEW retained \in Gens \cup {None}
    PROVE  NewJob(payload, retained) \in Job
  BY DEF NewJob, Job

LEMMA RaisingJobType ==
    ASSUME NEW j \in Job
    PROVE  [j EXCEPT !.raising = TRUE] \in Job
  BY DEF Job

LEMMA PlannedJobType ==
    ASSUME NEW payload \in Payloads \cup {None}, NEW data \in Data
    PROVE  [NewJob(payload, None) EXCEPT !.data = data] \in Job
  BY DEF NewJob, Job

LEMMA InitType == Init => TypeOK
<1> SUFFICES ASSUME Init PROVE TypeOK
  OBVIOUS
<1> USE PublicationAssumption DEF PublicationAssumption, Init
<1>1. /\ client \in Gens \cup {Absent, Directory}
      /\ aside \in BOOLEAN
      /\ legacyNotes \in Notes \cup {NoNotes}
      /\ legacyRoute \in RouteStates \cup {None}
      /\ stable \in RouteStates \cup {None}
      /\ journal \in Data \cup {None}
      /\ forward \in BOOLEAN
      /\ lock \in Publishers \cup Readers \cup {None}
  OBVIOUS
<1>2. gen \in [Gens -> Generation]
  BY DEF Generation, NoGeneration
<1>3. pc \in [Publishers -> Stages] /\ job \in [Publishers -> Job]
  BY NoJobType DEF Stages
<1>4. /\ pinned \in [Readers -> Gens \cup {Directory, None}]
      /\ seen \in [Readers -> Payloads \cup {LegacySet, None}]
      /\ faults \in 0..MaxFaults
  OBVIOUS
<1>5. QED
  BY <1>1, <1>2, <1>3, <1>4 DEF TypeOK

LEMMA TypeStep ==
    ASSUME IInv, [Next]_vars
    PROVE  TypeOK'
<1> USE PublicationAssumption DEF PublicationAssumption, IInv, TypeOK, vars, disk, readers, Goto, Stages
<1>1. ASSUME NEW p \in Publishers, Publish(p) PROVE TypeOK'
  <2>1. job' \in [Publishers -> Job]
    BY <1>1, NewJobType DEF Publish, Begin
  <2>2. QED
    BY <1>1, <2>1 DEF Publish, Begin
<1>2. ASSUME NEW p \in Publishers, Rollback(p) PROVE TypeOK'
  <2>1. job' \in [Publishers -> Job]
    BY <1>2, NewJobType DEF Rollback, Begin, OnDisk
  <2>2. QED
    BY <1>2, <2>1 DEF Rollback, Begin
<1>3. ASSUME NEW p \in Publishers, RecoverNothing(p) PROVE TypeOK'
  <2>1. job' \in [Publishers -> Job]
    BY <1>3, NoJobType DEF RecoverNothing, Release
  <2>2. QED
    BY <1>3, <2>1 DEF RecoverNothing, Release
<1>4. ASSUME NEW p \in Publishers, RecoverAcceptsPointer(p) PROVE TypeOK'
  BY <1>4 DEF RecoverAcceptsPointer
<1>5. ASSUME NEW p \in Publishers, RecoverRestoresLegacy(p) PROVE TypeOK'
  BY <1>5 DEF RecoverRestoresLegacy
<1>6. ASSUME NEW p \in Publishers, RecoverDropsJournal(p) PROVE TypeOK'
  BY <1>6 DEF RecoverDropsJournal, JournalObsolete
<1>7. ASSUME NEW p \in Publishers, FinishForward(p) PROVE TypeOK'
  BY <1>7 DEF FinishForward
<1>8. ASSUME NEW p \in Publishers, FinishClear(p) PROVE TypeOK'
  <2>1. job' \in [Publishers -> Job]
    BY <1>8, NoJobType DEF FinishClear, Release
  <2>2. QED
    BY <1>8, <2>1 DEF FinishClear, Release
<1>9. ASSUME NEW p \in Publishers, PlanUnchanged(p) PROVE TypeOK'
  <2>1. job' \in [Publishers -> Job]
    BY <1>9, NoJobType DEF PlanUnchanged, Release
  <2>2. QED
    BY <1>9, <2>1 DEF PlanUnchanged, Release
<1>10. ASSUME NEW p \in Publishers, PlanRefused(p) PROVE TypeOK'
  <2>1. job' \in [Publishers -> Job]
    BY <1>10, NoJobType DEF PlanRefused, Release
  <2>2. QED
    BY <1>10, <2>1 DEF PlanRefused, Release
<1>11. ASSUME NEW p \in Publishers, PlanStage(p) PROVE TypeOK'
  <2>1. gen' \in [Gens -> Generation]
    BY <1>11 DEF PlanStage, OnDisk, Generation
  <2>2. Desired(p) \in Payloads \cup {None}
    BY <1>11, <2>1 DEF Desired, Job, Generation
  <2>3. \A g \in Gens : Plan(g) \in Data
    BY <1>11, <2>1, <2>2 DEF Plan, Previous, IsLink, Data
  <2>4. job' \in [Publishers -> Job]
    BY <1>11, <2>1, <2>2, <2>3, PlannedJobType DEF PlanStage
  <2>5. QED
    BY <1>11, <2>1, <2>2, <2>3, <2>4 DEF PlanStage
<1>12. ASSUME NEW p \in Publishers, WriteArtifacts(p) PROVE TypeOK'
  <2>1. job[p].data \in Data /\ job[p].payload \in Payloads
    BY <1>12 DEF WriteArtifacts, IInv, JobInv, JobOK, PlannedInv
  <2>2. gen' \in [Gens -> Generation]
    BY <1>12, <2>1 DEF WriteArtifacts, Generation, Data, SourceNotes
  <2>3. QED
    BY <1>12, <2>1, <2>2 DEF WriteArtifacts
<1>13. ASSUME NEW p \in Publishers, Seal(p) PROVE TypeOK'
  <2>1. job[p].data \in Data /\ job[p].payload \in Payloads
    BY <1>13 DEF Seal, IInv, JobInv, JobOK, PlannedInv
  <2>2. gen' \in [Gens -> Generation]
    BY <1>13, <2>1 DEF Seal, Generation, Data
  <2>3. QED
    BY <1>13, <2>1, <2>2 DEF Seal
<1>14. ASSUME NEW p \in Publishers, WriteJournal(p) PROVE TypeOK'
  <2>1. job[p].data \in Data /\ job[p].payload \in Payloads
    BY <1>14 DEF WriteJournal, IInv, JobInv, JobOK, PlannedInv
  <2>2. QED
    BY <1>14, <2>1 DEF WriteJournal
<1>15. ASSUME NEW p \in Publishers, MoveLegacy(p) PROVE TypeOK'
  BY <1>15 DEF MoveLegacy
<1>16. ASSUME NEW p \in Publishers, AdoptRouteState(p) PROVE TypeOK'
  <2>1. job' \in [Publishers -> Job]
    BY <1>16, RaisingJobType DEF AdoptRouteState, Adopts
  <2>2. stable' \in RouteStates \cup {None}
    BY <1>16, <2>1 DEF AdoptRouteState, Adopts
  <2>3. QED
    BY <1>16, <2>1, <2>2 DEF AdoptRouteState, Adopts
<1>17. ASSUME NEW p \in Publishers, Activate(p) PROVE TypeOK'
  <2>1. job[p].data \in Data /\ job[p].payload \in Payloads
    BY <1>17 DEF Activate, IInv, JobInv, JobOK, PlannedInv
  <2>2. client' \in Gens
    BY <1>17, <2>1 DEF Activate, Data
  <2>3. QED
    BY <1>17, <2>1, <2>2 DEF Activate
<1>18. ASSUME NEW p \in Publishers, Fails(p) PROVE TypeOK'
  <2>1. job' \in [Publishers -> Job]
    BY <1>18, NoJobType, RaisingJobType DEF Fails, Release
  <2>2. faults' \in 0..MaxFaults
    BY <1>18, <2>1 DEF Fails
  <2>3. pc' \in [Publishers -> Stages]
    BY <1>18, <2>1, <2>2 DEF Fails, Release
  <2>4. QED
    BY <1>18, <2>1, <2>2, <2>3 DEF Fails, Release
<1>19. ASSUME NEW p \in Publishers, Crash(p) PROVE TypeOK'
  <2>1. job' \in [Publishers -> Job]
    BY <1>19, NoJobType DEF Crash, Release
  <2>2. QED
    BY <1>19, <2>1 DEF Crash, Release
<1>20. ASSUME NEW r \in Readers, PinLink(r) PROVE TypeOK'
  BY <1>20 DEF PinLink, IsLink, Ready, Generation
<1>21. ASSUME NEW r \in Readers, PinLocked(r) PROVE TypeOK'
  BY <1>21 DEF PinLocked
<1>22. ASSUME NEW r \in Readers, Unpin(r) PROVE TypeOK'
  BY <1>22 DEF Unpin
<1>23. CASE Edit
  BY <1>23 DEF Edit, Generation, IsLink
<1>24. CASE LegacyHelper
  BY <1>24 DEF LegacyHelper
<1>25. CASE StableHelper
  BY <1>25 DEF StableHelper
<1>26. CASE UNCHANGED vars
  BY <1>26 DEF vars, disk, readers
<1>27. QED
  BY <1>1, <1>2, <1>3, <1>4, <1>5, <1>6, <1>7, <1>8, <1>9, <1>10, <1>11,
  <1>12, <1>13, <1>14, <1>15, <1>16, <1>17, <1>18, <1>19, <1>20, <1>21,
  <1>22, <1>23, <1>24, <1>25, <1>26 DEF Next, Recovering, Publishing

LEMMA LockStep ==
    ASSUME IInv, [Next]_vars
    PROVE  LockInv'
<1> USE PublicationAssumption DEF PublicationAssumption, IInv, TypeOK, LockInv, disk, readers, Goto, Stages
<1>1. ASSUME NEW p \in Publishers, Publish(p) PROVE LockInv'
  BY <1>1 DEF Publish, Begin
<1>2. ASSUME NEW p \in Publishers, Rollback(p) PROVE LockInv'
  BY <1>2 DEF Rollback, Begin
<1>3. ASSUME NEW p \in Publishers, RecoverNothing(p) PROVE LockInv'
  BY <1>3 DEF RecoverNothing, Release
<1>4. ASSUME NEW p \in Publishers, RecoverAcceptsPointer(p) PROVE LockInv'
  BY <1>4 DEF RecoverAcceptsPointer
<1>5. ASSUME NEW p \in Publishers, RecoverRestoresLegacy(p) PROVE LockInv'
  BY <1>5 DEF RecoverRestoresLegacy
<1>6. ASSUME NEW p \in Publishers, RecoverDropsJournal(p) PROVE LockInv'
  BY <1>6 DEF RecoverDropsJournal, JournalObsolete
<1>7. ASSUME NEW p \in Publishers, FinishForward(p) PROVE LockInv'
  BY <1>7 DEF FinishForward
<1>8. ASSUME NEW p \in Publishers, FinishClear(p) PROVE LockInv'
  BY <1>8 DEF FinishClear, Release
<1>9. ASSUME NEW p \in Publishers, PlanUnchanged(p) PROVE LockInv'
  BY <1>9 DEF PlanUnchanged, Release
<1>10. ASSUME NEW p \in Publishers, PlanRefused(p) PROVE LockInv'
  BY <1>10 DEF PlanRefused, Release
<1>11. ASSUME NEW p \in Publishers, PlanStage(p) PROVE LockInv'
  BY <1>11 DEF PlanStage
<1>12. ASSUME NEW p \in Publishers, WriteArtifacts(p) PROVE LockInv'
  BY <1>12 DEF WriteArtifacts
<1>13. ASSUME NEW p \in Publishers, Seal(p) PROVE LockInv'
  BY <1>13 DEF Seal
<1>14. ASSUME NEW p \in Publishers, WriteJournal(p) PROVE LockInv'
  BY <1>14 DEF WriteJournal
<1>15. ASSUME NEW p \in Publishers, MoveLegacy(p) PROVE LockInv'
  BY <1>15 DEF MoveLegacy
<1>16. ASSUME NEW p \in Publishers, AdoptRouteState(p) PROVE LockInv'
  BY <1>16 DEF AdoptRouteState, Adopts
<1>17. ASSUME NEW p \in Publishers, Activate(p) PROVE LockInv'
  BY <1>17 DEF Activate
<1>18. ASSUME NEW p \in Publishers, Fails(p) PROVE LockInv'
  BY <1>18 DEF Fails, Release
<1>19. ASSUME NEW p \in Publishers, Crash(p) PROVE LockInv'
  BY <1>19 DEF Crash, Release
<1>20. ASSUME NEW r \in Readers, PinLink(r) PROVE LockInv'
  BY <1>20 DEF PinLink
<1>21. ASSUME NEW r \in Readers, PinLocked(r) PROVE LockInv'
  BY <1>21 DEF PinLocked
<1>22. ASSUME NEW r \in Readers, Unpin(r) PROVE LockInv'
  BY <1>22 DEF Unpin
<1>23. CASE Edit
  BY <1>23 DEF Edit
<1>24. CASE LegacyHelper
  BY <1>24 DEF LegacyHelper
<1>25. CASE StableHelper
  BY <1>25 DEF StableHelper
<1>26. CASE UNCHANGED vars
  BY <1>26 DEF vars, disk, readers
<1>27. QED
  BY <1>1, <1>2, <1>3, <1>4, <1>5, <1>6, <1>7, <1>8, <1>9, <1>10, <1>11,
  <1>12, <1>13, <1>14, <1>15, <1>16, <1>17, <1>18, <1>19, <1>20, <1>21,
  <1>22, <1>23, <1>24, <1>25, <1>26 DEF Next, Recovering, Publishing

LEMMA DiskStep ==
    ASSUME IInv, [Next]_vars
    PROVE  DiskInv'
<1> USE PublicationAssumption DEF PublicationAssumption, IInv, TypeOK, DiskInv, IsLink, Ready, disk, readers, Goto
<1>1. ASSUME NEW p \in Publishers, Publish(p) PROVE DiskInv'
  BY <1>1 DEF Publish, Begin
<1>2. ASSUME NEW p \in Publishers, Rollback(p) PROVE DiskInv'
  BY <1>2 DEF Rollback, Begin
<1>3. ASSUME NEW p \in Publishers, RecoverNothing(p) PROVE DiskInv'
  BY <1>3 DEF RecoverNothing, Release
<1>4. ASSUME NEW p \in Publishers, RecoverAcceptsPointer(p) PROVE DiskInv'
  BY <1>4 DEF RecoverAcceptsPointer
<1>5. ASSUME NEW p \in Publishers, RecoverRestoresLegacy(p) PROVE DiskInv'
  BY <1>5 DEF RecoverRestoresLegacy, Data
<1>6. ASSUME NEW p \in Publishers, RecoverDropsJournal(p) PROVE DiskInv'
  BY <1>6 DEF RecoverDropsJournal, JournalObsolete, Data
<1>7. ASSUME NEW p \in Publishers, FinishForward(p) PROVE DiskInv'
  BY <1>7 DEF FinishForward, Data
<1>8. ASSUME NEW p \in Publishers, FinishClear(p) PROVE DiskInv'
  BY <1>8 DEF FinishClear, Release, JobInv, JobOK
<1>9. ASSUME NEW p \in Publishers, PlanUnchanged(p) PROVE DiskInv'
  BY <1>9 DEF PlanUnchanged, Release
<1>10. ASSUME NEW p \in Publishers, PlanRefused(p) PROVE DiskInv'
  BY <1>10 DEF PlanRefused, Release
<1>11. ASSUME NEW p \in Publishers, PlanStage(p) PROVE DiskInv'
  BY <1>11 DEF PlanStage, OnDisk, Generation
<1>12. ASSUME NEW p \in Publishers, WriteArtifacts(p) PROVE DiskInv'
  <2>1. job[p].data \in Data /\ PlannedInv(p)
    BY <1>12 DEF WriteArtifacts, JobInv, JobOK, PlannedInv
  <2>2. QED
    BY <1>12, <2>1 DEF WriteArtifacts, PlannedInv, Data, Generation
<1>13. ASSUME NEW p \in Publishers, Seal(p) PROVE DiskInv'
  <2>1. job[p].data \in Data /\ PlannedInv(p)
    BY <1>13 DEF Seal, JobInv, JobOK, PlannedInv
  <2>2. QED
    BY <1>13, <2>1 DEF Seal, PlannedInv, Data, Generation
<1>14. ASSUME NEW p \in Publishers, WriteJournal(p) PROVE DiskInv'
  <2>1. job[p].data \in Data /\ PlannedInv(p)
    BY <1>14 DEF WriteJournal, JobInv, JobOK, PlannedInv
  <2>2. QED
    BY <1>14, <2>1 DEF WriteJournal, PlannedInv, Previous, Data
<1>15. ASSUME NEW p \in Publishers, MoveLegacy(p) PROVE DiskInv'
  <2>1. /\ job[p].data \in Data /\ journal = job[p].data /\ Ready(journal.target)
        /\ journal.previous = Previous /\ (journal.legacy <=> client = Directory)
    BY <1>15 DEF MoveLegacy, JobInv, JobOK, PlannedInv
  <2>2. journal # None /\ journal' = journal /\ gen' = gen
    BY <1>15, <2>1 DEF MoveLegacy
  <2>3. CASE ~job[p].data.legacy
    BY <1>15, <2>1, <2>2 DEF MoveLegacy, Previous
  <2>4. CASE job[p].data.legacy
    BY <1>15, <2>1, <2>2, <2>3 DEF MoveLegacy, Previous
  <2>5. QED
    BY <1>15, <2>1, <2>2, <2>3, <2>4 DEF MoveLegacy
<1>16. ASSUME NEW p \in Publishers, AdoptRouteState(p) PROVE DiskInv'
  <2>1. job[p].data \in Data /\ PlannedInv(p)
    BY <1>16 DEF AdoptRouteState, Adopts, JobInv, JobOK, PlannedInv
  <2>2. QED
    BY <1>16, <2>1 DEF AdoptRouteState, Adopts, PlannedInv, Previous, Data
<1>17. ASSUME NEW p \in Publishers, Activate(p) PROVE DiskInv'
  <2>1. /\ job[p].data \in Data /\ journal = job[p].data /\ Ready(journal.target)
        /\ journal # None
    BY <1>17 DEF Activate, JobInv, JobOK, PlannedInv, DiskInv
  <2>2. client' = journal.target /\ journal' = journal /\ gen' = gen /\ aside' = aside
    BY <1>17, <2>1 DEF Activate
  <2>3. client' \in Gens /\ client' # Directory /\ client' # Absent
    BY <1>17, <2>1, <2>2 DEF Data
  <2>4. QED
    BY <1>17, <2>1, <2>2, <2>3 DEF Activate
<1>18. ASSUME NEW p \in Publishers, Fails(p) PROVE DiskInv'
  BY <1>18 DEF Fails, Release
<1>19. ASSUME NEW p \in Publishers, Crash(p) PROVE DiskInv'
  BY <1>19 DEF Crash, Release
<1>20. ASSUME NEW r \in Readers, PinLink(r) PROVE DiskInv'
  BY <1>20 DEF PinLink
<1>21. ASSUME NEW r \in Readers, PinLocked(r) PROVE DiskInv'
  BY <1>21 DEF PinLocked
<1>22. ASSUME NEW r \in Readers, Unpin(r) PROVE DiskInv'
  BY <1>22 DEF Unpin
<1>23. CASE Edit
  BY <1>23 DEF Edit, Generation, Data
<1>24. CASE LegacyHelper
  BY <1>24 DEF LegacyHelper
<1>25. CASE StableHelper
  BY <1>25 DEF StableHelper
<1>26. CASE UNCHANGED vars
  BY <1>26 DEF vars, disk, readers
<1>27. QED
  BY <1>1, <1>2, <1>3, <1>4, <1>5, <1>6, <1>7, <1>8, <1>9, <1>10, <1>11,
  <1>12, <1>13, <1>14, <1>15, <1>16, <1>17, <1>18, <1>19, <1>20, <1>21,
  <1>22, <1>23, <1>24, <1>25, <1>26 DEF Next, Recovering, Publishing

LEMMA PinStep ==
    ASSUME IInv, [Next]_vars
    PROVE  PinInv'
<1> USE PublicationAssumption DEF PublicationAssumption, IInv, TypeOK, LockInv, PinInv, Ready, disk, readers, Goto
<1>1. ASSUME NEW p \in Publishers, Publish(p) PROVE PinInv'
  <2>1. \A r \in Readers : pinned[r] # Directory
    BY <1>1 DEF Publish, Begin
  <2>2. QED
    BY <1>1, <2>1 DEF Publish, Begin
<1>2. ASSUME NEW p \in Publishers, Rollback(p) PROVE PinInv'
  <2>1. \A r \in Readers : pinned[r] # Directory
    BY <1>2 DEF Rollback, Begin
  <2>2. QED
    BY <1>2, <2>1 DEF Rollback, Begin
<1>3. ASSUME NEW p \in Publishers, RecoverNothing(p) PROVE PinInv'
  <2>1. \A r \in Readers : pinned[r] # Directory
    BY <1>3 DEF RecoverNothing, Release
  <2>2. QED
    BY <1>3, <2>1 DEF RecoverNothing, Release
<1>4. ASSUME NEW p \in Publishers, RecoverAcceptsPointer(p) PROVE PinInv'
  <2>1. \A r \in Readers : pinned[r] # Directory
    BY <1>4 DEF RecoverAcceptsPointer
  <2>2. QED
    BY <1>4, <2>1 DEF RecoverAcceptsPointer
<1>5. ASSUME NEW p \in Publishers, RecoverRestoresLegacy(p) PROVE PinInv'
  <2>1. \A r \in Readers : pinned[r] # Directory
    BY <1>5 DEF RecoverRestoresLegacy
  <2>2. QED
    BY <1>5, <2>1 DEF RecoverRestoresLegacy
<1>6. ASSUME NEW p \in Publishers, RecoverDropsJournal(p) PROVE PinInv'
  <2>1. \A r \in Readers : pinned[r] # Directory
    BY <1>6 DEF RecoverDropsJournal, JournalObsolete
  <2>2. QED
    BY <1>6, <2>1 DEF RecoverDropsJournal, JournalObsolete
<1>7. ASSUME NEW p \in Publishers, FinishForward(p) PROVE PinInv'
  <2>1. \A r \in Readers : pinned[r] # Directory
    BY <1>7 DEF FinishForward
  <2>2. QED
    BY <1>7, <2>1 DEF FinishForward
<1>8. ASSUME NEW p \in Publishers, FinishClear(p) PROVE PinInv'
  <2>1. \A r \in Readers : pinned[r] # Directory
    BY <1>8 DEF FinishClear, Release
  <2>2. QED
    BY <1>8, <2>1 DEF FinishClear, Release
<1>9. ASSUME NEW p \in Publishers, PlanUnchanged(p) PROVE PinInv'
  <2>1. \A r \in Readers : pinned[r] # Directory
    BY <1>9 DEF PlanUnchanged, Release
  <2>2. QED
    BY <1>9, <2>1 DEF PlanUnchanged, Release
<1>10. ASSUME NEW p \in Publishers, PlanRefused(p) PROVE PinInv'
  <2>1. \A r \in Readers : pinned[r] # Directory
    BY <1>10 DEF PlanRefused, Release
  <2>2. QED
    BY <1>10, <2>1 DEF PlanRefused, Release
<1>11. ASSUME NEW p \in Publishers, PlanStage(p) PROVE PinInv'
  <2>1. \A r \in Readers : pinned[r] # Directory
    BY <1>11 DEF PlanStage
  <2>2. QED
    BY <1>11, <2>1 DEF PlanStage, OnDisk, Generation
<1>12. ASSUME NEW p \in Publishers, WriteArtifacts(p) PROVE PinInv'
  <2>1. \A r \in Readers : pinned[r] # Directory
    BY <1>12 DEF WriteArtifacts
  <2>2. job[p].data.target \in Gens /\ gen[job[p].data.target].state = "partial"
    BY <1>12, <2>1 DEF WriteArtifacts, JobInv, JobOK, PlannedInv, Data
  <2>3. QED
    BY <1>12, <2>1, <2>2 DEF WriteArtifacts, Generation
<1>13. ASSUME NEW p \in Publishers, Seal(p) PROVE PinInv'
  <2>1. \A r \in Readers : pinned[r] # Directory
    BY <1>13 DEF Seal
  <2>2. job[p].data.target \in Gens /\ gen[job[p].data.target].state = "partial"
    BY <1>13, <2>1 DEF Seal, JobInv, JobOK, PlannedInv, Data
  <2>3. QED
    BY <1>13, <2>1, <2>2 DEF Seal, Generation
<1>14. ASSUME NEW p \in Publishers, WriteJournal(p) PROVE PinInv'
  <2>1. \A r \in Readers : pinned[r] # Directory
    BY <1>14 DEF WriteJournal
  <2>2. QED
    BY <1>14, <2>1 DEF WriteJournal
<1>15. ASSUME NEW p \in Publishers, MoveLegacy(p) PROVE PinInv'
  <2>1. \A r \in Readers : pinned[r] # Directory
    BY <1>15 DEF MoveLegacy
  <2>2. QED
    BY <1>15, <2>1 DEF MoveLegacy
<1>16. ASSUME NEW p \in Publishers, AdoptRouteState(p) PROVE PinInv'
  <2>1. \A r \in Readers : pinned[r] # Directory
    BY <1>16 DEF AdoptRouteState, Adopts
  <2>2. QED
    BY <1>16, <2>1 DEF AdoptRouteState, Adopts
<1>17. ASSUME NEW p \in Publishers, Activate(p) PROVE PinInv'
  <2>1. \A r \in Readers : pinned[r] # Directory
    BY <1>17 DEF Activate
  <2>2. QED
    BY <1>17, <2>1 DEF Activate
<1>18. ASSUME NEW p \in Publishers, Fails(p) PROVE PinInv'
  <2>1. \A r \in Readers : pinned[r] # Directory
    BY <1>18 DEF Fails, Release
  <2>2. QED
    BY <1>18, <2>1 DEF Fails, Release
<1>19. ASSUME NEW p \in Publishers, Crash(p) PROVE PinInv'
  <2>1. \A r \in Readers : pinned[r] # Directory
    BY <1>19 DEF Crash, Release
  <2>2. QED
    BY <1>19, <2>1 DEF Crash, Release
<1>20. ASSUME NEW r \in Readers, PinLink(r) PROVE PinInv'
  BY <1>20 DEF PinLink, IsLink, LockedSelection
<1>21. ASSUME NEW r \in Readers, PinLocked(r) PROVE PinInv'
  BY <1>21 DEF PinLocked, LockedSelection
<1>22. ASSUME NEW r \in Readers, Unpin(r) PROVE PinInv'
  BY <1>22 DEF Unpin, LockedSelection
<1>23. CASE Edit
  BY <1>23 DEF Edit, IsLink, Generation, LockedSelection
<1>24. CASE LegacyHelper
  BY <1>24 DEF LegacyHelper, LockedSelection
<1>25. CASE StableHelper
  BY <1>25 DEF StableHelper, LockedSelection
<1>26. CASE UNCHANGED vars
  BY <1>26 DEF vars, disk, readers, LockedSelection
<1>27. QED
  BY <1>1, <1>2, <1>3, <1>4, <1>5, <1>6, <1>7, <1>8, <1>9, <1>10, <1>11,
  <1>12, <1>13, <1>14, <1>15, <1>16, <1>17, <1>18, <1>19, <1>20, <1>21,
  <1>22, <1>23, <1>24, <1>25, <1>26 DEF Next, Recovering, Publishing

\* A publisher outside the lock satisfies its part of the invariant.
LEMMA IdleJobOK ==
    ASSUME NEW p \in Publishers, pc[p] = "idle", job[p] = NoJob
    PROVE  JobOK(p)
  BY DEF JobOK, NoJob, NewJob

LEMMA IdleJobOKNext ==
    ASSUME NEW p \in Publishers, pc'[p] = "idle", job'[p] = NoJob
    PROVE  JobOK(p)'
  BY DEF JobOK, NoJob, NewJob

\* While one publisher holds the lock, or nobody does, the others are idle.
LEMMA OthersIdle ==
    ASSUME IInv, NEW p \in Publishers, NEW q \in Publishers \ {p}, lock \in {p, None}
    PROVE  pc[q] = "idle" /\ job[q] = NoJob
  BY PublicationAssumption DEF PublicationAssumption, IInv, LockInv, JobInv, JobOK

\* A step of p that ends in a state where its own part holds keeps JobInv.
LEMMA OwnStep ==
    ASSUME IInv, NEW p \in Publishers, lock \in {p, None}, JobOK(p)',
           \A q \in Publishers \ {p} : pc'[q] = pc[q] /\ job'[q] = job[q]
    PROVE  JobInv'
<1>1. ASSUME NEW q \in Publishers \ {p} PROVE JobOK(q)'
  BY OthersIdle, IdleJobOKNext
<1>2. ASSUME NEW q \in Publishers PROVE JobOK(q)'
  BY <1>1
<1>3. QED
  BY <1>2 DEF JobInv

\* A step that leaves the publishers and what their invariants read alone.
LEMMA UntouchedJobs ==
    ASSUME IInv, UNCHANGED <<client, aside, legacyNotes, journal, forward, gen, pc, job>>
    PROVE  JobInv'
<1>1. ASSUME NEW p \in Publishers PROVE JobOK(p)'
  BY DEF IInv, JobInv, JobOK, PlannedInv, SourceNotes, IsLink, Ready, Previous
<1>2. QED
  BY <1>1 DEF JobInv

\* A step taken while no publisher holds the lock.
LEMMA NobodyPublishes ==
    ASSUME IInv, lock \notin Publishers, UNCHANGED <<pc, job>>
    PROVE  JobInv'
<1>1. ASSUME NEW p \in Publishers PROVE JobOK(p)'
  BY IdleJobOKNext DEF IInv, LockInv, JobInv, JobOK
<1>2. QED
  BY <1>1 DEF JobInv

LEMMA JobStep ==
    ASSUME IInv, [Next]_vars
    PROVE  JobInv'
<1> USE PublicationAssumption DEF PublicationAssumption, disk, readers
<1>1. ASSUME NEW p \in Publishers, Publish(p) PROVE JobInv'
  <2>1. lock \in {p, None}
    BY <1>1 DEF IInv, LockInv, Publish, Begin
  <2>2. JobOK(p)
    BY <1>1, <2>1 DEF IInv, JobInv
  <2>3. \A q \in Publishers \ {p} : pc'[q] = pc[q] /\ job'[q] = job[q]
    BY <1>1, <2>1, <2>2 DEF IInv, TypeOK, Goto, Publish, Begin
  <2>4. JobOK(p)'
    BY <1>1, <2>1, <2>2, <2>3 DEF IInv, TypeOK, DiskInv, JobOK, IsLink, Ready, Goto, Publish, Begin, NewJob, NoJob
  <2>5. QED
    BY <2>1, <2>3, <2>4, OwnStep
<1>2. ASSUME NEW p \in Publishers, Rollback(p) PROVE JobInv'
  <2>1. lock \in {p, None}
    BY <1>2 DEF IInv, LockInv, Rollback, Begin
  <2>2. JobOK(p)
    BY <1>2, <2>1 DEF IInv, JobInv
  <2>3. \A q \in Publishers \ {p} : pc'[q] = pc[q] /\ job'[q] = job[q]
    BY <1>2, <2>1, <2>2 DEF IInv, TypeOK, Goto, Rollback, Begin
  <2>4. JobOK(p)'
    BY <1>2, <2>1, <2>2, <2>3 DEF IInv, TypeOK, DiskInv, JobOK, IsLink, Ready, Goto, Rollback, Begin, NewJob, NoJob, OnDisk
  <2>5. QED
    BY <2>1, <2>3, <2>4, OwnStep
<1>3. ASSUME NEW p \in Publishers, RecoverNothing(p) PROVE JobInv'
  <2>1. lock \in {p, None}
    BY <1>3 DEF IInv, LockInv, RecoverNothing, Release
  <2>2. JobOK(p)
    BY <1>3, <2>1 DEF IInv, JobInv
  <2>3. \A q \in Publishers \ {p} : pc'[q] = pc[q] /\ job'[q] = job[q]
    BY <1>3, <2>1, <2>2 DEF IInv, TypeOK, Goto, RecoverNothing, Release
  <2>4. ASSUME job[p].raising
        PROVE  JobOK(p)'
    BY <2>4, <1>3, <2>1, <2>2, <2>3, IdleJobOKNext DEF RecoverNothing, Release, IInv, TypeOK
  <2>5. ASSUME ~job[p].raising
        PROVE  JobOK(p)'
    BY <2>5, <1>3, <2>1, <2>2, <2>3, <2>4 DEF IInv, TypeOK, DiskInv, JobOK, IsLink, Ready, Goto, RecoverNothing
  <2>6. JobOK(p)'
    BY <1>3, <2>1, <2>2, <2>3, <2>4, <2>5 DEF RecoverNothing
  <2>7. QED
    BY <2>1, <2>3, <2>6, OwnStep
<1>4. ASSUME NEW p \in Publishers, RecoverAcceptsPointer(p) PROVE JobInv'
  <2>1. lock \in {p, None}
    BY <1>4 DEF IInv, LockInv, RecoverAcceptsPointer
  <2>2. JobOK(p)
    BY <1>4, <2>1 DEF IInv, JobInv
  <2>3. \A q \in Publishers \ {p} : pc'[q] = pc[q] /\ job'[q] = job[q]
    BY <1>4, <2>1, <2>2 DEF IInv, TypeOK, Goto, RecoverAcceptsPointer
  <2>4. JobOK(p)'
    BY <1>4, <2>1, <2>2, <2>3 DEF IInv, TypeOK, DiskInv, JobOK, IsLink, Ready, Goto, RecoverAcceptsPointer
  <2>5. QED
    BY <2>1, <2>3, <2>4, OwnStep
<1>5. ASSUME NEW p \in Publishers, RecoverRestoresLegacy(p) PROVE JobInv'
  <2>1. lock \in {p, None}
    BY <1>5 DEF IInv, LockInv, RecoverRestoresLegacy
  <2>2. JobOK(p)
    BY <1>5, <2>1 DEF IInv, JobInv
  <2>3. \A q \in Publishers \ {p} : pc'[q] = pc[q] /\ job'[q] = job[q]
    BY <1>5, <2>1, <2>2 DEF IInv, TypeOK, Goto, RecoverRestoresLegacy
  <2>4. JobOK(p)'
    BY <1>5, <2>1, <2>2, <2>3 DEF IInv, TypeOK, DiskInv, JobOK, IsLink, Ready, Goto, RecoverRestoresLegacy
  <2>5. QED
    BY <2>1, <2>3, <2>4, OwnStep
<1>6. ASSUME NEW p \in Publishers, RecoverDropsJournal(p) PROVE JobInv'
  <2>1. lock \in {p, None}
    BY <1>6 DEF IInv, LockInv, RecoverDropsJournal
  <2>2. JobOK(p)
    BY <1>6, <2>1 DEF IInv, JobInv
  <2>3. \A q \in Publishers \ {p} : pc'[q] = pc[q] /\ job'[q] = job[q]
    BY <1>6, <2>1, <2>2 DEF IInv, TypeOK, Goto, RecoverDropsJournal, JournalObsolete
  <2>4. JobOK(p)'
    BY <1>6, <2>1, <2>2, <2>3 DEF IInv, TypeOK, DiskInv, JobOK, IsLink, Ready, Goto, RecoverDropsJournal, JournalObsolete
  <2>5. QED
    BY <2>1, <2>3, <2>4, OwnStep
<1>7. ASSUME NEW p \in Publishers, FinishForward(p) PROVE JobInv'
  <2>1. lock \in {p, None}
    BY <1>7 DEF IInv, LockInv, FinishForward
  <2>2. JobOK(p)
    BY <1>7, <2>1 DEF IInv, JobInv
  <2>3. \A q \in Publishers \ {p} : pc'[q] = pc[q] /\ job'[q] = job[q]
    BY <1>7, <2>1, <2>2 DEF IInv, TypeOK, Goto, FinishForward
  <2>4. JobOK(p)'
    BY <1>7, <2>1, <2>2, <2>3 DEF IInv, TypeOK, DiskInv, JobOK, IsLink, Ready, Goto, FinishForward
  <2>5. QED
    BY <2>1, <2>3, <2>4, OwnStep
<1>8. ASSUME NEW p \in Publishers, FinishClear(p) PROVE JobInv'
  <2>1. lock \in {p, None}
    BY <1>8 DEF IInv, LockInv, FinishClear, Release
  <2>2. JobOK(p)
    BY <1>8, <2>1 DEF IInv, JobInv
  <2>3. \A q \in Publishers \ {p} : pc'[q] = pc[q] /\ job'[q] = job[q]
    BY <1>8, <2>1, <2>2 DEF IInv, TypeOK, Goto, FinishClear, Release
  <2>4. ASSUME job[p].data # None
        PROVE  JobOK(p)'
    BY <2>4, <1>8, <2>1, <2>2, <2>3, IdleJobOKNext DEF FinishClear, Release, IInv, TypeOK
  <2>5. ASSUME job[p].data = None
        PROVE  JobOK(p)'
    BY <2>5, <1>8, <2>1, <2>2, <2>3, <2>4 DEF IInv, TypeOK, DiskInv, JobOK, IsLink, Ready, Goto, FinishClear
  <2>6. JobOK(p)'
    BY <1>8, <2>1, <2>2, <2>3, <2>4, <2>5 DEF FinishClear
  <2>7. QED
    BY <2>1, <2>3, <2>6, OwnStep
<1>9. ASSUME NEW p \in Publishers, PlanUnchanged(p) PROVE JobInv'
  <2>1. lock \in {p, None}
    BY <1>9 DEF IInv, LockInv, PlanUnchanged, Release
  <2>2. JobOK(p)
    BY <1>9, <2>1 DEF IInv, JobInv
  <2>3. \A q \in Publishers \ {p} : pc'[q] = pc[q] /\ job'[q] = job[q]
    BY <1>9, <2>1, <2>2 DEF IInv, TypeOK, Goto, PlanUnchanged, Release
  <2>4. JobOK(p)'
    BY <1>9, <2>1, <2>2, <2>3 DEF IInv, TypeOK, DiskInv, JobOK, IsLink, Ready, Goto, PlanUnchanged, Release, NewJob, NoJob
  <2>5. QED
    BY <2>1, <2>3, <2>4, OwnStep
<1>10. ASSUME NEW p \in Publishers, PlanRefused(p) PROVE JobInv'
  <2>1. lock \in {p, None}
    BY <1>10 DEF IInv, LockInv, PlanRefused, Release
  <2>2. JobOK(p)
    BY <1>10, <2>1 DEF IInv, JobInv
  <2>3. \A q \in Publishers \ {p} : pc'[q] = pc[q] /\ job'[q] = job[q]
    BY <1>10, <2>1, <2>2 DEF IInv, TypeOK, Goto, PlanRefused, Release
  <2>4. JobOK(p)'
    BY <1>10, <2>1, <2>2, <2>3 DEF IInv, TypeOK, DiskInv, JobOK, IsLink, Ready, Goto, PlanRefused, Release, NewJob, NoJob
  <2>5. QED
    BY <2>1, <2>3, <2>4, OwnStep
<1>11. ASSUME NEW p \in Publishers, PlanStage(p) PROVE JobInv'
  <2>1. lock \in {p, None}
    BY <1>11 DEF IInv, LockInv, PlanStage
  <2>2. JobOK(p)
    BY <1>11, <2>1 DEF IInv, JobInv
  <2>3. \A q \in Publishers \ {p} : pc'[q] = pc[q] /\ job'[q] = job[q]
    BY <1>11, <2>1, <2>2 DEF IInv, TypeOK, Goto, PlanStage
  <2>4. Desired(p) \in Payloads
    BY <1>11, <2>1, <2>2, <2>3 DEF PlanStage, Desired, Restorable, JobOK, IInv, TypeOK, DiskInv, Ready, Job
  <2>5. PICK g \in Gens \ OnDisk :
          /\ gen' = [gen EXCEPT ![g].state = "partial"]
          /\ job' = [job EXCEPT ![p] = [NewJob(Desired(p), None) EXCEPT !.data = Plan(g)]]
    BY <1>11, <2>1, <2>2, <2>3, <2>4 DEF PlanStage
  <2>6. g # client /\ Plan(g) \in Data
    BY <1>11, <2>1, <2>2, <2>3, <2>4, <2>5 DEF IInv, DiskInv, TypeOK, OnDisk, IsLink, Ready, Plan, Previous, Data
  <2>7. /\ job'[p].data = Plan(g) /\ job'[p].payload = Desired(p) /\ ~job'[p].raising
        /\ pc'[p] = "stage" /\ gen'[g].state = "partial" /\ journal' = None
    BY <1>11, <2>1, <2>2, <2>3, <2>4, <2>5, <2>6 DEF PlanStage, JobOK, IInv, TypeOK, Goto, NewJob, Generation
  <2>8. UNCHANGED <<client, aside, journal, forward>>
    BY <1>11, <2>1, <2>2, <2>3, <2>4, <2>5, <2>6, <2>7 DEF PlanStage
  <2>9. /\ Plan(g).target = g /\ Plan(g).previous = Previous
        /\ Plan(g).legacy <=> client = Directory
    BY <1>11, <2>1, <2>2, <2>3, <2>4, <2>5, <2>6, <2>7, <2>8 DEF Plan
  <2>10. Previous' = Previous
    BY <1>11, <2>1, <2>2, <2>3, <2>4, <2>5, <2>6, <2>7, <2>8, <2>9 DEF Previous, IsLink
  <2>11. PlannedInv(p)'
    BY <1>11, <2>1, <2>2, <2>3, <2>4, <2>5, <2>6, <2>7, <2>8, <2>9, <2>10 DEF PlannedInv
  <2>12. JobOK(p)'
    BY <1>11, <2>1, <2>2, <2>3, <2>4, <2>5, <2>6, <2>7, <2>8, <2>9, <2>10, <2>11 DEF JobOK
  <2>13. QED
    BY <2>1, <2>3, <2>12, OwnStep
<1>12. ASSUME NEW p \in Publishers, WriteArtifacts(p) PROVE JobInv'
  <2>1. lock \in {p, None}
    BY <1>12 DEF IInv, LockInv, WriteArtifacts
  <2>2. JobOK(p)
    BY <1>12, <2>1 DEF IInv, JobInv
  <2>3. \A q \in Publishers \ {p} : pc'[q] = pc[q] /\ job'[q] = job[q]
    BY <1>12, <2>1, <2>2 DEF IInv, TypeOK, Goto, WriteArtifacts
  <2>4. JobOK(p)'
    BY <1>12, <2>1, <2>2, <2>3 DEF IInv, TypeOK, DiskInv, JobOK, IsLink, Ready, Goto, WriteArtifacts, PlannedInv, Previous, Data, Generation, SourceNotes
  <2>5. QED
    BY <2>1, <2>3, <2>4, OwnStep
<1>13. ASSUME NEW p \in Publishers, Seal(p) PROVE JobInv'
  <2>1. lock \in {p, None}
    BY <1>13 DEF IInv, LockInv, Seal
  <2>2. JobOK(p)
    BY <1>13, <2>1 DEF IInv, JobInv
  <2>3. \A q \in Publishers \ {p} : pc'[q] = pc[q] /\ job'[q] = job[q]
    BY <1>13, <2>1, <2>2 DEF IInv, TypeOK, Goto, Seal
  <2>4. JobOK(p)'
    BY <1>13, <2>1, <2>2, <2>3 DEF IInv, TypeOK, DiskInv, JobOK, IsLink, Ready, Goto, Seal, PlannedInv, Previous, Data, Generation, SourceNotes
  <2>5. QED
    BY <2>1, <2>3, <2>4, OwnStep
<1>14. ASSUME NEW p \in Publishers, WriteJournal(p) PROVE JobInv'
  <2>1. lock \in {p, None}
    BY <1>14 DEF IInv, LockInv, WriteJournal
  <2>2. JobOK(p)
    BY <1>14, <2>1 DEF IInv, JobInv
  <2>3. \A q \in Publishers \ {p} : pc'[q] = pc[q] /\ job'[q] = job[q]
    BY <1>14, <2>1, <2>2 DEF IInv, TypeOK, Goto, WriteJournal
  <2>4. JobOK(p)'
    BY <1>14, <2>1, <2>2, <2>3 DEF IInv, TypeOK, DiskInv, JobOK, IsLink, Ready, Goto, WriteJournal, PlannedInv, Previous, Data, SourceNotes
  <2>5. QED
    BY <2>1, <2>3, <2>4, OwnStep
<1>15. ASSUME NEW p \in Publishers, MoveLegacy(p) PROVE JobInv'
  <2>1. lock \in {p, None}
    BY <1>15 DEF IInv, LockInv, MoveLegacy
  <2>2. JobOK(p)
    BY <1>15, <2>1 DEF IInv, JobInv
  <2>3. \A q \in Publishers \ {p} : pc'[q] = pc[q] /\ job'[q] = job[q]
    BY <1>15, <2>1, <2>2 DEF IInv, TypeOK, Goto, MoveLegacy
  <2>4. JobOK(p)'
    BY <1>15, <2>1, <2>2, <2>3 DEF IInv, TypeOK, DiskInv, JobOK, IsLink, Ready, Goto, MoveLegacy, PlannedInv, Previous, Data, SourceNotes
  <2>5. QED
    BY <2>1, <2>3, <2>4, OwnStep
<1>16. ASSUME NEW p \in Publishers, AdoptRouteState(p) PROVE JobInv'
  <2>1. lock \in {p, None}
    BY <1>16 DEF IInv, LockInv, AdoptRouteState
  <2>2. JobOK(p)
    BY <1>16, <2>1 DEF IInv, JobInv
  <2>3. \A q \in Publishers \ {p} : pc'[q] = pc[q] /\ job'[q] = job[q]
    BY <1>16, <2>1, <2>2 DEF IInv, TypeOK, Goto, AdoptRouteState
  <2>4. PlannedInv(p)
    BY <1>16, <2>1, <2>2, <2>3 DEF AdoptRouteState, Adopts, JobOK
  <2>5. UNCHANGED <<client, aside, gen, journal, forward>>
    BY <1>16, <2>1, <2>2, <2>3, <2>4 DEF AdoptRouteState, Adopts
  <2>6. ASSUME pc' = [pc EXCEPT ![p] = "activate"] /\ job' = job
        PROVE  JobOK(p)'
    BY <2>6, <1>16, <2>1, <2>2, <2>3, <2>4, <2>5 DEF IInv, TypeOK, JobOK, PlannedInv, Previous, IsLink, Ready, AdoptRouteState, SourceNotes
  <2>7. ASSUME pc' = [pc EXCEPT ![p] = "recover"] /\ job' = [job EXCEPT ![p].raising = TRUE]
        PROVE  JobOK(p)'
    BY <2>7, <1>16, <2>1, <2>2, <2>3, <2>4, <2>5, <2>6, RaisingJobType DEF IInv, TypeOK, JobOK, PlannedInv, Data, Job
  <2>8. JobOK(p)'
    BY <1>16, <2>1, <2>2, <2>3, <2>4, <2>5, <2>6, <2>7 DEF AdoptRouteState, Adopts, Goto
  <2>9. QED
    BY <2>1, <2>3, <2>8, OwnStep
<1>17. ASSUME NEW p \in Publishers, Activate(p) PROVE JobInv'
  <2>1. lock \in {p, None}
    BY <1>17 DEF IInv, LockInv, Activate
  <2>2. JobOK(p)
    BY <1>17, <2>1 DEF IInv, JobInv
  <2>3. \A q \in Publishers \ {p} : pc'[q] = pc[q] /\ job'[q] = job[q]
    BY <1>17, <2>1, <2>2 DEF IInv, TypeOK, Goto, Activate
  <2>4. JobOK(p)'
    BY <1>17, <2>1, <2>2, <2>3 DEF IInv, TypeOK, DiskInv, JobOK, IsLink, Ready, Goto, Activate, PlannedInv, Previous, Data
  <2>5. QED
    BY <2>1, <2>3, <2>4, OwnStep
<1>18. ASSUME NEW p \in Publishers, Fails(p) PROVE JobInv'
  <2>1. lock \in {p, None}
    BY <1>18 DEF IInv, LockInv, Fails, Release
  <2>2. JobOK(p)
    BY <1>18, <2>1 DEF IInv, JobInv
  <2>3. \A q \in Publishers \ {p} : pc'[q] = pc[q] /\ job'[q] = job[q]
    BY <1>18, <2>1, <2>2 DEF IInv, TypeOK, Goto, Fails, Release
  <2>4. UNCHANGED <<client, aside, gen, journal, forward>>
    BY <1>18, <2>1, <2>2, <2>3 DEF Fails
  <2>5. ASSUME pc' = [pc EXCEPT ![p] = "idle"] /\ job' = [job EXCEPT ![p] = NoJob]
        PROVE  JobOK(p)'
    BY <2>5, <1>18, <2>1, <2>2, <2>3, <2>4, IdleJobOKNext DEF IInv, TypeOK
  <2>6. pc[p] \in Guarded => job[p].data # None
    BY <1>18, <2>1, <2>2, <2>3, <2>4, <2>5 DEF JobOK, PlannedInv, Guarded
  <2>7. ASSUME /\ job[p].data # None /\ pc[p] # "idle" /\ pc' = [pc EXCEPT ![p] = "recover"]
             /\ job' = [job EXCEPT ![p].raising = TRUE]
        PROVE  JobOK(p)'
    BY <2>7, <1>18, <2>1, <2>2, <2>3, <2>4, <2>5, <2>6 DEF IInv, TypeOK, JobOK, Job
  <2>8. JobOK(p)'
    BY <1>18, <2>1, <2>2, <2>3, <2>4, <2>5, <2>6, <2>7 DEF Fails, Goto, Release
  <2>9. QED
    BY <2>1, <2>3, <2>8, OwnStep
<1>19. ASSUME NEW p \in Publishers, Crash(p) PROVE JobInv'
  <2>1. lock \in {p, None}
    BY <1>19 DEF IInv, LockInv, Crash, Release
  <2>2. JobOK(p)
    BY <1>19, <2>1 DEF IInv, JobInv
  <2>3. \A q \in Publishers \ {p} : pc'[q] = pc[q] /\ job'[q] = job[q]
    BY <1>19, <2>1, <2>2 DEF IInv, TypeOK, Goto, Crash, Release
  <2>4. JobOK(p)'
    BY <1>19, <2>1, <2>2, <2>3 DEF IInv, TypeOK, DiskInv, JobOK, IsLink, Ready, Goto, Crash, Release, NewJob, NoJob
  <2>5. QED
    BY <2>1, <2>3, <2>4, OwnStep
<1>20. ASSUME NEW r \in Readers, PinLink(r) PROVE JobInv'
  BY <1>20, UntouchedJobs DEF PinLink
<1>21. ASSUME NEW r \in Readers, PinLocked(r) PROVE JobInv'
  BY <1>21, UntouchedJobs DEF PinLocked
<1>22. ASSUME NEW r \in Readers, Unpin(r) PROVE JobInv'
  BY <1>22, UntouchedJobs DEF Unpin
<1>23. CASE Edit
  BY <1>23, NobodyPublishes DEF Edit
<1>24. CASE LegacyHelper
  BY <1>24, NobodyPublishes DEF LegacyHelper
<1>25. CASE StableHelper
  BY <1>25, UntouchedJobs DEF StableHelper
<1>26. CASE UNCHANGED vars
  BY <1>26, UntouchedJobs DEF vars, disk, readers
<1>27. QED
  BY <1>1, <1>2, <1>3, <1>4, <1>5, <1>6, <1>7, <1>8, <1>9, <1>10, <1>11,
  <1>12, <1>13, <1>14, <1>15, <1>16, <1>17, <1>18, <1>19, <1>20, <1>21,
  <1>22, <1>23, <1>24, <1>25, <1>26 DEF Next, Recovering, Publishing

------------------------------------------------------------------------------
\* The invariant, and what follows from it.

LEMMA InitIInv == Init => IInv
<1> SUFFICES ASSUME Init PROVE IInv
  OBVIOUS
<1>1. TypeOK
  BY InitType
<1>2. LockInv /\ DiskInv /\ PinInv
  BY PublicationAssumption DEF PublicationAssumption, Init, LockInv, DiskInv, PinInv,
     IsLink, Ready, NoGeneration
<1>3. JobInv
  BY IdleJobOK DEF Init, JobInv
<1>4. QED
  BY <1>1, <1>2, <1>3 DEF IInv

\* The inductive invariant holds in every state of every execution.
THEOREM Invariance == Spec => []IInv
<1>1. IInv /\ [Next]_vars => IInv'
  BY TypeStep, LockStep, DiskStep, PinStep, JobStep DEF IInv
<1>2. QED
  BY InitIInv, <1>1, PTL DEF Spec

\* Type correctness of the publication state.
THEOREM TypeCorrect == Spec => []TypeOK
<1>1. IInv => TypeOK
  BY DEF IInv
<1>2. QED
  BY Invariance, <1>1, PTL

\* recover_locked never has to refuse, whatever was interrupted: the public path
\* selects a sealed generation and the journal explains the disk.
THEOREM RecoveryIsPossible == Spec => []RecoveryNeverStuck
<1>1. IInv => RecoveryNeverStuck
  BY DEF IInv, DiskInv, TypeOK, RecoveryNeverStuck, RecoveryStuck
<1>2. QED
  BY Invariance, <1>1, PTL

\* A missing public path is always the journalled window of a legacy migration.
THEOREM MigrationWindow == Spec => []MissingPathIsRecoverable
<1>1. IInv => MissingPathIsRecoverable
  BY DEF IInv, DiskInv, MissingPathIsRecoverable
<1>2. QED
  BY Invariance, <1>1, PTL

\* A pinned generation keeps its bytes for as long as a reader holds it.
THEOREM ReadersAreStable == Spec => []PinnedSetIsStable
<1>1. IInv => PinnedSetIsStable
  BY DEF IInv, PinInv, PinnedSetIsStable
<1>2. QED
  BY Invariance, <1>1, PTL

\* The root notice never stays behind the pointer once recovery is over.
THEOREM NoticeIsPublished == Spec => []NoticeFollowsPointer
<1>1. IInv => NoticeFollowsPointer
  BY DEF IInv, DiskInv, NoticeFollowsPointer
<1>2. QED
  BY Invariance, <1>1, PTL
------------------------------------------------------------------------------
\* Route ownership.  Between the adoption and the switch nobody takes the stable
\* state away, and the legacy state cannot change while the directory is aside.

AdoptedInv ==
    \A p \in Publishers :
        pc[p] = "activate" /\ job[p].data.legacy /\ legacyRoute # None => stable # None
RouteInv == RouteStateAdopted /\ AdoptedInv

\* A step that moves neither the directory nor the pointer and adopts nothing.
LEMMA RouteKept ==
    ASSUME RouteInv, UNCHANGED legacyRoute, stable # None => stable' # None,
           \/ UNCHANGED <<client, aside>>
           \/ client' \in {Absent, Directory} /\ client' \notin Gens,
           \A p \in Publishers : pc'[p] = "activate" =>
              pc[p] = "activate" /\ job'[p] = job[p]
    PROVE  RouteInv'
  BY DEF RouteInv, RouteStateAdopted, AdoptedInv, IsLink

\* A publisher that goes to another stage leaves the others where they are.
LEMMA GotoAdopts ==
    ASSUME IInv, NEW p \in Publishers, NEW stage \in Stages \ {"activate"}, Goto(p, stage),
           \A q \in Publishers \ {p} : job'[q] = job[q]
    PROVE  \A q \in Publishers : pc'[q] = "activate" => pc[q] = "activate" /\ job'[q] = job[q]
  BY DEF IInv, TypeOK, Goto

LEMMA ReleaseAdopts ==
    ASSUME IInv, NEW p \in Publishers, Release(p)
    PROVE  \A q \in Publishers : pc'[q] = "activate" => pc[q] = "activate" /\ job'[q] = job[q]
  BY DEF IInv, TypeOK, Release

LEMMA AdoptRoute ==
    ASSUME IInv, RouteInv, NEW p \in Publishers, AdoptRouteState(p)
    PROVE  RouteInv'
<1>1. UNCHANGED <<client, aside, legacyRoute>>
  BY DEF AdoptRouteState
<1>2. \A q \in Publishers \ {p} : pc'[q] = "idle"
  BY OthersIdle DEF AdoptRouteState, Goto, IInv, LockInv, TypeOK
<1>3. stable # None => stable' # None
  BY DEF AdoptRouteState, Adopts
<1>4. RouteStateAdopted'
  BY <1>1, <1>3 DEF RouteInv, RouteStateAdopted, IsLink
<1>5. pc'[p] = "activate" /\ job'[p].data.legacy /\ legacyRoute # None => stable' # None
  <2> SUFFICES ASSUME pc'[p] = "activate", job'[p].data.legacy, legacyRoute # None
               PROVE  stable' # None
    OBVIOUS
  <2>1. ~(Adopts(job[p].data) /\ RouteConflict)
    BY DEF AdoptRouteState, Goto, IInv, TypeOK
  <2>2. job' = job /\ stable' = IF Adopts(job[p].data) THEN legacyRoute ELSE stable
    BY <2>1 DEF AdoptRouteState
  <2> QED
    BY <2>2 DEF Adopts
<1> QED
  BY <1>1, <1>2, <1>4, <1>5 DEF RouteInv, AdoptedInv

\* The switch: what was aside when it began is what has been adopted.
LEMMA ActivateRoute ==
    ASSUME IInv, RouteInv, NEW p \in Publishers, Activate(p)
    PROVE  RouteInv'
<1>1. UNCHANGED <<aside, legacyRoute, stable>> /\ pc[p] = "activate"
  BY DEF Activate
<1>2. JobOK(p) /\ DiskInv
  BY DEF IInv, JobInv
<1>3. PlannedInv(p) /\ journal = job[p].data /\ journal # None
  BY <1>1, <1>2, PublicationAssumption DEF JobOK, PlannedInv, PublicationAssumption
<1>4. CASE job[p].data.legacy
  BY <1>1, <1>4, GotoAdopts DEF RouteInv, RouteStateAdopted, AdoptedInv, Activate, Stages
<1>5. CASE ~job[p].data.legacy
  <2>1. aside => IsLink
    BY <1>1, <1>2, <1>3, <1>5 DEF DiskInv, PlannedInv, IInv, TypeOK, IsLink
  <2>2. RouteStateAdopted'
    BY <1>1, <2>1 DEF RouteInv, RouteStateAdopted
  <2>3. AdoptedInv'
    BY <1>1, GotoAdopts DEF RouteInv, AdoptedInv, Activate, Stages
  <2> QED
    BY <2>2, <2>3 DEF RouteInv
<1> QED
  BY <1>4, <1>5

LEMMA RouteStep ==
    ASSUME IInv, RouteInv, [Next]_vars
    PROVE  RouteInv'
<1> USE PublicationAssumption DEF PublicationAssumption, disk, readers
<1>1. ASSUME NEW p \in Publishers, Publish(p) \/ Rollback(p) PROVE RouteInv'
  <2>1. UNCHANGED <<client, aside, legacyRoute, stable>> /\ Goto(p, "recover")
    BY <1>1 DEF Publish, Rollback, Begin
  <2>2. \A q \in Publishers \ {p} : job'[q] = job[q]
    BY <1>1 DEF Publish, Rollback, Begin, IInv, TypeOK
  <2> QED
    BY <2>1, <2>2, GotoAdopts, RouteKept DEF Stages
<1>2. ASSUME NEW p \in Publishers, Recovering(p) PROVE RouteInv'
  <2>1. CASE RecoverNothing(p)
    BY <2>1, GotoAdopts, ReleaseAdopts, RouteKept DEF RecoverNothing, Stages
  <2>2. CASE RecoverAcceptsPointer(p)
    BY <2>2, GotoAdopts, RouteKept DEF RecoverAcceptsPointer, Stages
  <2>3. CASE RecoverRestoresLegacy(p)
    BY <2>3, RouteKept DEF RecoverRestoresLegacy
  <2>4. CASE RecoverDropsJournal(p)
    BY <2>4, RouteKept DEF RecoverDropsJournal
  <2>5. CASE FinishForward(p)
    BY <2>5, GotoAdopts, RouteKept DEF FinishForward, Stages
  <2>6. CASE FinishClear(p)
    BY <2>6, GotoAdopts, ReleaseAdopts, RouteKept DEF FinishClear, Stages
  <2> QED
    BY <1>2, <2>1, <2>2, <2>3, <2>4, <2>5, <2>6 DEF Recovering
<1>3. ASSUME NEW p \in Publishers, Publishing(p) PROVE RouteInv'
  <2>1. CASE PlanUnchanged(p) \/ PlanRefused(p)
    BY <2>1, ReleaseAdopts, RouteKept DEF PlanUnchanged, PlanRefused
  <2>2. CASE PlanStage(p)
    <3>1. \A q \in Publishers \ {p} : job'[q] = job[q]
      BY <2>2 DEF PlanStage, IInv, TypeOK
    <3> QED
      BY <2>2, <3>1, GotoAdopts, RouteKept DEF PlanStage, Stages
  <2>3. CASE WriteArtifacts(p) \/ Seal(p) \/ WriteJournal(p)
    BY <2>3, GotoAdopts, RouteKept DEF WriteArtifacts, Seal, WriteJournal, Stages
  <2>4. CASE MoveLegacy(p)
    BY <2>4, GotoAdopts, RouteKept DEF MoveLegacy, Stages
  <2>5. CASE AdoptRouteState(p)
    BY <2>5, AdoptRoute
  <2>6. CASE Activate(p)
    BY <2>6, ActivateRoute
  <2> QED
    BY <1>3, <2>1, <2>2, <2>3, <2>4, <2>5, <2>6 DEF Publishing
<1>4. ASSUME NEW p \in Publishers, Fails(p) \/ Crash(p) PROVE RouteInv'
  <2>1. UNCHANGED <<client, aside, legacyRoute, stable>>
    BY <1>4 DEF Fails, Crash
  <2>2. CASE Release(p)
    BY <2>1, <2>2, ReleaseAdopts, RouteKept
  <2>3. CASE Goto(p, "recover") /\ job' = [job EXCEPT ![p].raising = TRUE]
    BY <2>1, <2>3, GotoAdopts, RouteKept DEF Stages, IInv, TypeOK
  <2> QED
    BY <1>4, <2>2, <2>3 DEF Fails, Crash
<1>5. ASSUME NEW r \in Readers, PinLink(r) \/ PinLocked(r) \/ Unpin(r) PROVE RouteInv'
  BY <1>5, RouteKept DEF PinLink, PinLocked, Unpin
<1>6. CASE Edit
  BY <1>6, RouteKept DEF Edit
\* The old helper writes while the public path is still its directory.
<1>7. CASE LegacyHelper
  <2>1. \A p \in Publishers : pc[p] = "idle"
    BY <1>7 DEF LegacyHelper, IInv, LockInv
  <2>2. ~IsLink'
    BY <1>7 DEF LegacyHelper, IsLink
  <2> QED
    BY <1>7, <2>1, <2>2 DEF LegacyHelper, RouteInv, RouteStateAdopted, AdoptedInv
<1>8. CASE StableHelper
  BY <1>8, RouteKept DEF StableHelper
<1>9. CASE UNCHANGED vars
  BY <1>9, RouteKept DEF vars
<1> QED
  BY <1>1, <1>2, <1>3, <1>4, <1>5, <1>6, <1>7, <1>8, <1>9 DEF Next

\* The stable place is written by a publisher only while it is empty.
LEMMA StableIsKept ==
    ASSUME [Next]_vars, stable # None, stable' # stable
    PROVE  UNCHANGED pc
<1>1. ASSUME NEW p \in Publishers,
             Publish(p) \/ Rollback(p) \/ Recovering(p) \/ Publishing(p) \/ Fails(p) \/ Crash(p)
      PROVE  FALSE
  <2>1. CASE Publish(p) \/ Rollback(p) \/ Fails(p) \/ Crash(p)
    BY <2>1 DEF Publish, Rollback, Begin, Fails, Crash, disk
  <2>2. CASE Recovering(p)
    BY <2>2
    DEF Recovering, RecoverNothing, RecoverAcceptsPointer, RecoverRestoresLegacy,
        RecoverDropsJournal, FinishForward, FinishClear, disk
  <2>3. CASE AdoptRouteState(p)
    BY <2>3 DEF AdoptRouteState, RouteConflict
  <2>4. CASE Publishing(p) /\ ~AdoptRouteState(p)
    BY <2>4
    DEF Publishing, PlanUnchanged, PlanRefused, PlanStage, WriteArtifacts, Seal,
        WriteJournal, MoveLegacy, Activate, disk
  <2> QED
    BY <1>1, <2>1, <2>2, <2>3, <2>4
<1>2. CASE (\E r \in Readers : PinLink(r) \/ PinLocked(r) \/ Unpin(r)) \/ Edit \/ LegacyHelper
  BY <1>2 DEF PinLink, PinLocked, Unpin, Edit, LegacyHelper, disk
<1>3. CASE StableHelper
  BY <1>3 DEF StableHelper
<1>4. CASE UNCHANGED vars
  BY <1>4 DEF vars
<1> QED
  BY <1>1, <1>2, <1>3, <1>4 DEF Next

\* Once the link has replaced a legacy directory that held route state, the stable place
\* holds one, whatever is interrupted and however often; and no publication, migration or
\* recovery ever replaces what the stable place holds.
THEOREM RouteOwnershipSurvives == Spec => RouteStateSurvives
<1>1. Init => RouteInv
  BY PublicationAssumption
  DEF PublicationAssumption, Init, RouteInv, RouteStateAdopted, AdoptedInv, IsLink
<1>2. IInv /\ RouteInv /\ [Next]_vars => RouteInv'
  BY RouteStep
<1>3. Spec => []RouteInv
  BY <1>1, <1>2, Invariance, PTL DEF Spec
<1>4. RouteInv' /\ [Next]_vars =>
        [/\ RouteStateAdopted'
         /\ stable # None /\ stable' # stable => UNCHANGED pc]_vars
  BY StableIsKept DEF RouteInv
<1> QED
  BY <1>3, <1>4, PTL DEF Spec, RouteStateSurvives

------------------------------------------------------------------------------
\* Implementation of the atomic store.

LEMMA StoreInit == Init => Store!Init
  BY PublicationAssumption DEF PublicationAssumption, Init, Store!Init, PublishedView,
     NotesView, IsLink, LockedSelection

\* Only Activate replaces the published set and only Edit the operator's files.
LEMMA StoreStep ==
    ASSUME IInv, [Next]_vars
    PROVE  [Store!Next]_(Store!vars)
<1> USE PublicationAssumption DEF PublicationAssumption, IInv, TypeOK, disk, readers, Goto, Store!vars
<1>1. ASSUME NEW p \in Publishers, Publish(p) PROVE [Store!Next]_(Store!vars)
  BY <1>1 DEF Publish, Begin, PublishedView, NotesView, LockedSelection, IsLink
<1>2. ASSUME NEW p \in Publishers, Rollback(p) PROVE [Store!Next]_(Store!vars)
  BY <1>2 DEF Rollback, Begin, PublishedView, NotesView, LockedSelection, IsLink
<1>3. ASSUME NEW p \in Publishers, RecoverNothing(p) PROVE [Store!Next]_(Store!vars)
  BY <1>3 DEF RecoverNothing, Release, PublishedView, NotesView, LockedSelection, IsLink
<1>4. ASSUME NEW p \in Publishers, RecoverAcceptsPointer(p) PROVE [Store!Next]_(Store!vars)
  BY <1>4 DEF RecoverAcceptsPointer, PublishedView, NotesView, LockedSelection, IsLink
<1>5. ASSUME NEW p \in Publishers, RecoverRestoresLegacy(p) PROVE [Store!Next]_(Store!vars)
  BY <1>5 DEF RecoverRestoresLegacy, PublishedView, NotesView, LockedSelection, IsLink, DiskInv
<1>6. ASSUME NEW p \in Publishers, RecoverDropsJournal(p) PROVE [Store!Next]_(Store!vars)
  <2>1. client = Directory => ~aside
    BY <1>6 DEF DiskInv
  <2>2. QED
    BY <1>6, <2>1 DEF RecoverDropsJournal, JournalObsolete, PublishedView, NotesView, LockedSelection, IsLink, DiskInv
<1>7. ASSUME NEW p \in Publishers, FinishForward(p) PROVE [Store!Next]_(Store!vars)
  BY <1>7 DEF FinishForward, PublishedView, NotesView, LockedSelection, IsLink, DiskInv
<1>8. ASSUME NEW p \in Publishers, FinishClear(p) PROVE [Store!Next]_(Store!vars)
  BY <1>8 DEF FinishClear, Release, PublishedView, NotesView, LockedSelection, IsLink, JobInv, JobOK
<1>9. ASSUME NEW p \in Publishers, PlanUnchanged(p) PROVE [Store!Next]_(Store!vars)
  BY <1>9 DEF PlanUnchanged, Release, PublishedView, NotesView, LockedSelection, IsLink
<1>10. ASSUME NEW p \in Publishers, PlanRefused(p) PROVE [Store!Next]_(Store!vars)
  BY <1>10 DEF PlanRefused, Release, PublishedView, NotesView, LockedSelection, IsLink
<1>11. ASSUME NEW p \in Publishers, PlanStage(p) PROVE [Store!Next]_(Store!vars)
  <2>1. client \in Gens => gen'[client] = gen[client]
    BY <1>11 DEF PlanStage, OnDisk, DiskInv, IsLink, Ready
  <2>2. UNCHANGED <<client, aside, legacyNotes, journal>>
    BY <1>11 DEF PlanStage
  <2>3. QED
    BY <2>1, <2>2 DEF PublishedView, NotesView, LockedSelection, IsLink
<1>12. ASSUME NEW p \in Publishers, WriteArtifacts(p) PROVE [Store!Next]_(Store!vars)
  <2>1. client \in Gens => gen'[client] = gen[client]
    BY <1>12 DEF WriteArtifacts, JobInv, JobOK, PlannedInv, Data
  <2>2. UNCHANGED <<client, aside, legacyNotes, journal>>
    BY <1>12 DEF WriteArtifacts
  <2>3. QED
    BY <2>1, <2>2 DEF PublishedView, NotesView, LockedSelection, IsLink
<1>13. ASSUME NEW p \in Publishers, Seal(p) PROVE [Store!Next]_(Store!vars)
  <2>1. client \in Gens => gen'[client] = gen[client]
    BY <1>13 DEF Seal, JobInv, JobOK, PlannedInv, Data
  <2>2. UNCHANGED <<client, aside, legacyNotes, journal>>
    BY <1>13 DEF Seal
  <2>3. QED
    BY <2>1, <2>2 DEF PublishedView, NotesView, LockedSelection, IsLink
<1>14. ASSUME NEW p \in Publishers, WriteJournal(p) PROVE [Store!Next]_(Store!vars)
  <2>1. /\ journal = None /\ journal' # None /\ (client = Absent => ~aside \/ ~journal'.legacy)
    BY <1>14 DEF WriteJournal, JobInv, JobOK, PlannedInv, DiskInv
  <2>2. QED
    BY <1>14, <2>1 DEF WriteJournal, PublishedView, NotesView, LockedSelection, IsLink
<1>15. ASSUME NEW p \in Publishers, MoveLegacy(p) PROVE [Store!Next]_(Store!vars)
  <2>1. /\ journal' = job[p].data /\ journal' # None
        /\ (job[p].data.legacy <=> client = Directory)
    BY <1>15 DEF MoveLegacy, JobInv, JobOK, PlannedInv
  <2>2. QED
    BY <1>15, <2>1 DEF MoveLegacy, PublishedView, NotesView, LockedSelection, IsLink
<1>16. ASSUME NEW p \in Publishers, AdoptRouteState(p) PROVE [Store!Next]_(Store!vars)
  BY <1>16 DEF AdoptRouteState, Adopts, PublishedView, NotesView, LockedSelection, IsLink
<1>17. ASSUME NEW p \in Publishers, Activate(p) PROVE [Store!Next]_(Store!vars)
  <2>1. /\ job[p].data \in Data /\ job[p].payload \in Payloads /\ PlannedInv(p)
        /\ Ready(job[p].data.target)
    BY <1>17 DEF Activate, JobInv, JobOK, PlannedInv
  <2>2. client' = job[p].data.target /\ client' \in Gens /\ gen' = gen
    BY <1>17, <2>1 DEF Activate, Data
  <2>3. PublishedView' \in Payloads
    BY <1>17, <2>1, <2>2 DEF Activate, PublishedView, IsLink, PlannedInv
  <2>4. NotesView' = SourceNotes(job[p].data)
    BY <1>17, <2>1, <2>2 DEF Activate, NotesView, IsLink, PlannedInv, SourceNotes
  <2>5. SourceNotes(job[p].data) = NotesView
    BY <1>17, <2>1 DEF Activate, PlannedInv, SourceNotes, NotesView, Previous, IsLink,
       LockedSelection, DiskInv
  <2>6. QED
    BY <2>3, <2>4, <2>5 DEF Store!Next, Store!Publish
<1>18. ASSUME NEW p \in Publishers, Fails(p) PROVE [Store!Next]_(Store!vars)
  BY <1>18 DEF Fails, Release, PublishedView, NotesView, LockedSelection, IsLink
<1>19. ASSUME NEW p \in Publishers, Crash(p) PROVE [Store!Next]_(Store!vars)
  BY <1>19 DEF Crash, Release, PublishedView, NotesView, LockedSelection, IsLink
<1>20. ASSUME NEW r \in Readers, PinLink(r) PROVE [Store!Next]_(Store!vars)
  BY <1>20 DEF PinLink, PublishedView, NotesView, LockedSelection, IsLink
<1>21. ASSUME NEW r \in Readers, PinLocked(r) PROVE [Store!Next]_(Store!vars)
  BY <1>21 DEF PinLocked, PublishedView, NotesView, LockedSelection, IsLink
<1>22. ASSUME NEW r \in Readers, Unpin(r) PROVE [Store!Next]_(Store!vars)
  BY <1>22 DEF Unpin, PublishedView, NotesView, LockedSelection, IsLink
<1>23. CASE Edit
  <2>1. PublishedView' = PublishedView /\ NotesView' \in Notes
    BY <1>23 DEF Edit, PublishedView, NotesView, IsLink, LockedSelection, Generation
  <2>2. PublishedView # Unpublished
    BY <1>23 DEF Edit, PublishedView, IsLink, LockedSelection, DiskInv
  <2>3. QED
    BY <2>1, <2>2 DEF Store!Next, Store!Edit
<1>24. CASE LegacyHelper
  BY <1>24 DEF LegacyHelper, PublishedView, NotesView, LockedSelection, IsLink
<1>25. CASE StableHelper
  BY <1>25 DEF StableHelper, PublishedView, NotesView, LockedSelection, IsLink
<1>26. CASE UNCHANGED vars
  BY <1>26 DEF vars, disk, readers, PublishedView, NotesView, LockedSelection, IsLink
<1>27. QED
  BY <1>1, <1>2, <1>3, <1>4, <1>5, <1>6, <1>7, <1>8, <1>9, <1>10, <1>11,
  <1>12, <1>13, <1>14, <1>15, <1>16, <1>17, <1>18, <1>19, <1>20, <1>21,
  <1>22, <1>23, <1>24, <1>25, <1>26 DEF Next, Recovering, Publishing

\* The publication protocol implements the atomic store of ArtifactStore: the
\* switch is the one visible step, and crashes and recoveries are invisible.
THEOREM PublicationIsAtomic == Spec => AtomicStore
<1>1. IInv /\ [Next]_vars => [Store!Next]_(Store!vars)
  BY StoreStep
<1>2. QED
  BY StoreInit, Invariance, <1>1, PTL DEF Spec, AtomicStore, Store!Spec
==============================================================================
