------------------------- MODULE TransportSwitchProofs -------------------------
(***************************************************************************)
(* Proofs about TransportSwitch for any paths and any number of counted    *)
(* failures: a switch is one step for whoever sees its report, and the     *)
(* record of a failed activation is given up only by a cycle that has no   *)
(* more use for it, or around a write made without the lock.               *)
(*                                                                         *)
(* Both rest on TRANSPORT_LOCK (MutexInv).  The first needs to know that a *)
(* report exists between its end and its publication only (PlaceInv), the  *)
(* second that the document a controller has in hand is the current one    *)
(* unless it was replaced around the lock (HandInv).                       *)
(***************************************************************************)
EXTENDS TransportSwitch, TLAPS

MutexInv ==
    \A c, d \in Controllers : at[c] \in Locked /\ at[d] \in Locked => c = d

\* What an actor has of its switch at each place; transport-select has no report.
PlaceInv ==
    \A a \in Actors :
        /\ at[a] \in Switching \cup {"evaluate", "select"} => job[a] \in Jobs
        /\ at[a] = "write" => outcome[a] \in Outcomes
        /\ at[a] # "write" => outcome[a] = None
        /\ a = Operator => at[a] \in {"idle", "select"} \cup Switching

\* The document read for a cycle is the current one, unless it is late.
HandInv ==
    \A c \in Controllers : at[c] \in {"unlocked"} \cup Locked =>
        /\ known[c] \in Documents
        /\ late[c] \/ known[c] = document

IInv == TypeOK /\ MutexInv /\ PlaceInv /\ HandInv

Places == {"idle", "unlocked"} \cup Shared

LEMMA ActorKinds ==
    /\ Controllers \subseteq Actors /\ Operator \in Actors /\ Operator \notin Controllers
    /\ Watch \in Controllers /\ Reconcile \in Controllers
    /\ \A a \in Actors : a \in Controllers \/ a = Operator
  BY SwitchAssumption DEF Controllers, Actors

LEMMA PlaceNames ==
    /\ Switching = {"put", "confirm", "reset", "prove", "check", "report"}
    /\ Locked = {"cycle", "evaluate", "select", "write"} \cup Switching
    /\ Locked \subseteq Places /\ {"idle", "unlocked", "waiting"} \subseteq Places
    /\ {"idle", "unlocked", "waiting"} \cap Locked = {}
  BY DEF Switching, Locked, Shared, Places

LEMMA InitIInv == Init => IInv
<1> SUFFICES ASSUME Init PROVE IInv
  OBVIOUS
<1>1. TypeOK
  BY DEF Init, TypeOK, Documents
<1>2. \A a \in Actors : at[a] = "idle" /\ outcome[a] = None
  BY DEF Init
<1>3. MutexInv /\ HandInv
  BY <1>2, PlaceNames, ActorKinds DEF MutexInv, HandInv
<1>4. PlaceInv
  BY <1>2, PlaceNames DEF PlaceInv
<1> QED
  BY <1>1, <1>3, <1>4 DEF IInv
-----------------------------------------------------------------------------
(* Types. *)

LEMMA GoesType ==
    ASSUME TypeOK, NEW a \in Actors, NEW place \in Places, Goes(a, place)
    PROVE  at' \in [Actors -> Places]
  BY DEF TypeOK, Goes, Places

LEMMA LeavesType ==
    ASSUME TypeOK, NEW a \in Actors, Leaves(a)
    PROVE  /\ at' \in [Actors -> Places]
           /\ job' \in [Actors -> Jobs \cup {None}]
           /\ known' \in [Actors -> Documents \cup {None}]
           /\ outcome' \in [Actors -> Outcomes \cup {None}]
  BY GoesType, PlaceNames DEF TypeOK, Leaves

LEMMA EndedType ==
    ASSUME TypeOK, NEW a \in Actors, job[a] \in Jobs, NEW old \in Paths,
           NEW result \in {"activated", "restored", "unreported", "unverified"},
           NEW after \in Paths \cup {None}, Ended(a, old, result, after)
    PROVE  /\ at' \in [Actors -> Places]
           /\ job' \in [Actors -> Jobs \cup {None}]
           /\ known' \in [Actors -> Documents \cup {None}]
           /\ outcome' \in [Actors -> Outcomes \cup {None}]
<1>1. CASE a \in Controllers
  <2>1. [old |-> old, tag |-> job[a].tag, result |-> result, after |-> after] \in Outcomes
    BY DEF Jobs, Outcomes
  <2> QED
    BY <1>1, <2>1, GoesType, PlaceNames DEF Ended, TypeOK
<1>2. CASE a \notin Controllers
  BY <1>2, LeavesType DEF Ended
<1> QED
  BY <1>1, <1>2

LEMMA FailsType ==
    ASSUME TypeOK, NEW a \in Actors, job[a] \in Jobs, Fails(a)
    PROVE  at' \in [Actors -> Places] /\ job' \in [Actors -> Jobs \cup {None}]
<1>1. job' \in [Actors -> Jobs \cup {None}]
  BY DEF Fails, TypeOK, Jobs
<1>2. at' \in [Actors -> Places]
  BY PlaceNames DEF Fails, Goes, TypeOK, Places
<1> QED
  BY <1>1, <1>2

LEMMA ReadsType ==
    ASSUME TypeOK, NEW c \in Controllers, Reads(c)
    PROVE  known' \in [Actors -> Documents \cup {None}]
  BY DEF TypeOK, Reads

LEMMA WritesType ==
    ASSUME TypeOK, NEW c \in Controllers, NEW content \in Documents, Writes(c, content),
           UNCHANGED <<selector, installing>>
    PROVE  TypeOK'
<1>1. late' \in [Actors -> BOOLEAN]
  BY DEF Writes, TypeOK
<1> QED
  BY <1>1, LeavesType, ActorKinds DEF Writes, TypeOK, Places

LEMMA OtherType ==
    ASSUME NEW path \in Paths
    PROVE  Other(path) \in Paths /\ Other(path) # path
<1>1. \E other \in Paths : other # path
  BY SwitchAssumption
<1> QED
  BY <1>1 DEF Other

\* A failure is carried as it is, or counted.
LEMMA FailureTypes ==
    ASSUME NEW read \in Documents, NEW target \in Paths
    PROVE  /\ FailedObservation(read) \in Documents
           /\ FailureHistory(read, target) \in Failures \cup {None}
           /\ NextFailure(read, target) \in Failures
           /\ NextFailure(read, target).target = target
           /\ read.failure # None /\ read.failure.target = target =>
                 /\ FailureHistory(read, target) = read.failure
                 /\ read.failure.attempts <= NextFailure(read, target).attempts
<1>1. read.failure \in Failures \cup {None}
  BY DEF Documents
<1>2. FailedObservation(read) \in Documents
  BY <1>1 DEF FailedObservation, Documents
<1>3. FailureHistory(read, target) \in Failures \cup {None}
  BY <1>1 DEF FailureHistory
<1> DEFINE prior == FailureHistory(read, target)
           attempts == IF prior = None THEN 1
                       ELSE IF prior.attempts = MaxAttempts THEN MaxAttempts
                       ELSE prior.attempts + 1
<1>4. MaxAttempts \in Nat \ {0}
  BY SwitchAssumption
<1>5. prior # None => prior.attempts \in 1..MaxAttempts
  BY <1>3 DEF Failures
<1> HIDE DEF prior
<1>6. attempts \in 1..MaxAttempts /\ (prior # None => prior.attempts <= attempts)
  BY <1>4, <1>5
<1> HIDE DEF attempts
<1>7. NextFailure(read, target) = [target |-> target, attempts |-> attempts]
  BY DEF NextFailure, prior, attempts
<1>8. /\ NextFailure(read, target) \in Failures
      /\ NextFailure(read, target).target = target
      /\ NextFailure(read, target).attempts = attempts
  BY <1>6, <1>7 DEF Failures
<1>9. read.failure # None /\ read.failure.target = target => prior = read.failure
  BY DEF prior, FailureHistory
<1> QED
  BY <1>2, <1>3, <1>6, <1>8, <1>9 DEF prior

LEMMA PathType ==
    ASSUME NEW a \in Actors, job[a] \in Jobs
    PROVE  Path(a) \in Paths /\ job[a].old \in Paths /\ job[a].tag \in Paths
  BY DEF Path, Jobs

\* What a controller writes is a document, and forgets no failure but where the cycle
\* has activated its target or is about the other path.
LEMMA WrittenType ==
    ASSUME PlaceInv, HandInv, NEW c \in Controllers,
           Unavailable(c) \/ Keep(c) \/ Publish(c) \/ WriteUnlocked(c)
    PROVE  /\ at[c] \in {"unlocked"} \cup Locked
           /\ known[c] \in Documents
           /\ \E content \in Documents :
                 /\ Writes(c, content)
                 /\ Forgotten(known[c].failure, content.failure) =>
                       \/ at[c] = "write" /\ outcome[c].result = "activated"
                       \/ at[c] \in {"evaluate", "write"} /\ Towards(c) # known[c].failure.target
<1> USE PlaceNames
<1>1. at[c] \in {"unlocked"} \cup Locked
  BY DEF Unavailable, Keep, Publish, WriteUnlocked
<1>2. known[c] \in Documents
  BY <1>1 DEF HandInv
<1>3. known[c].failure \in Failures \cup {None}
  BY <1>2 DEF Documents
<1> DEFINE kept == known[c].failure
<1>4. ASSUME NEW failure \in Failures \cup {None}, Writes(c, [failure |-> failure]),
             Forgotten(kept, failure) =>
                \/ at[c] = "write" /\ outcome[c].result = "activated"
                \/ at[c] \in {"evaluate", "write"} /\ Towards(c) # kept.target
      PROVE  \E content \in Documents :
                 /\ Writes(c, content)
                 /\ Forgotten(kept, content.failure) =>
                       \/ at[c] = "write" /\ outcome[c].result = "activated"
                       \/ at[c] \in {"evaluate", "write"} /\ Towards(c) # kept.target
  <2>1. [failure |-> failure] \in Documents /\ [failure |-> failure].failure = failure
    BY DEF Documents
  <2> QED
    BY <1>4, <2>1
<1>5. kept # None => kept.attempts \in Nat
  BY <1>3, SwitchAssumption DEF Failures
<1>6. CASE Unavailable(c) \/ WriteUnlocked(c)
  <2>1. ~Forgotten(kept, kept)
    BY <1>5 DEF Forgotten
  <2>2. Writes(c, [failure |-> kept])
    BY <1>6 DEF Unavailable, WriteUnlocked, FailedObservation
  <2> QED
    BY <1>1, <1>2, <1>3, <1>4, <2>1, <2>2
<1>7. CASE Keep(c)
  <2>1. c \in Actors /\ at[c] = "evaluate"
    BY <1>7, ActorKinds DEF Keep
  <2>2. Other(job[c].tag) \in Paths /\ Towards(c) = Other(job[c].tag)
    BY <2>1, OtherType DEF PlaceInv, Jobs, Towards
  <2>3. Writes(c, [failure |-> FailureHistory(known[c], Towards(c))])
    BY <1>7, <2>2 DEF Keep, Observation
  <2>4. /\ FailureHistory(known[c], Towards(c)) \in Failures \cup {None}
        /\ kept # None /\ kept.target = Towards(c) =>
              FailureHistory(known[c], Towards(c)) = kept
    BY <1>2, <2>2, FailureTypes
  <2>5. Forgotten(kept, FailureHistory(known[c], Towards(c))) => Towards(c) # kept.target
    BY <1>5, <2>4 DEF Forgotten
  <2> QED
    BY <1>1, <1>2, <1>4, <2>1, <2>3, <2>4, <2>5
<1>8. CASE Publish(c)
  <2>1. c \in Actors /\ at[c] = "write"
    BY <1>8, ActorKinds DEF Publish
  <2>2. outcome[c].tag \in Paths /\ Towards(c) = outcome[c].tag
    BY <2>1 DEF PlaceInv, Outcomes, Towards
  <2>3. CASE outcome[c].result = "activated"
    <3>1. Writes(c, [failure |-> None])
      BY <1>8, <2>3 DEF Publish
    <3> QED
      BY <1>1, <1>2, <1>4, <2>1, <2>3, <3>1
  <2>4. CASE outcome[c].result # "activated"
    <3>1. Writes(c, [failure |-> NextFailure(known[c], Towards(c))])
      BY <1>8, <2>2, <2>4 DEF Publish
    <3>2. /\ NextFailure(known[c], Towards(c)) \in Failures
          /\ NextFailure(known[c], Towards(c)).target = Towards(c)
          /\ kept # None /\ kept.target = Towards(c) =>
                kept.attempts <= NextFailure(known[c], Towards(c)).attempts
      BY <1>2, <2>2, FailureTypes
    <3>3. NextFailure(known[c], Towards(c)).attempts \in Nat
      BY <3>2, SwitchAssumption DEF Failures
    <3>4. NextFailure(known[c], Towards(c)) # None
      BY <3>2, SwitchAssumption
    <3>5. Forgotten(kept, NextFailure(known[c], Towards(c))) => Towards(c) # kept.target
      BY <1>5, <3>2, <3>3, <3>4 DEF Forgotten
    <3> QED
      BY <1>1, <1>2, <1>4, <2>1, <3>1, <3>2, <3>5
  <2> QED
    BY <2>3, <2>4
<1> QED
  BY <1>6, <1>7, <1>8

-----------------------------------------------------------------------------
(* The places: nobody comes under TRANSPORT_LOCK while another is there. *)

\* A step moves one actor; a controller gets under the lock past Lock only.
Moved(a, place) ==
    /\ Goes(a, place)
    /\ a \in Controllers /\ place \in Locked =>
          at[a] \in Locked \/ \A d \in Controllers : at[d] \notin Locked

LEMMA SelectMoves ==
    ASSUME NEW a \in Actors, Select(a)
    PROVE  \E place \in Places : Moved(a, place)
<1> USE PlaceNames
<1>1. CASE Observe(a)
  BY <1>1 DEF Observe, Moved, Goes
<1>2. CASE Unanswered(a)
  BY <1>2 DEF Unanswered, Ended, Leaves, Moved, Goes
<1>3. ASSUME Fails(a), at[a] \in Locked
      PROVE  \E place \in Places : Moved(a, place)
  BY <1>3 DEF Fails, Moved, Goes
<1>4. CASE Put(a)
  BY <1>3, <1>4 DEF Put, Moved, Goes
<1>5. CASE Confirm(a)
  BY <1>3, <1>5 DEF Confirm, Moved, Goes
<1>6. CASE Reset(a)
  BY <1>3, <1>6 DEF Reset, Moved, Goes
<1>7. CASE Prove(a)
  BY <1>7 DEF Prove, Moved, Goes
<1>8. CASE Check(a)
  BY <1>3, <1>8 DEF Check, Ended, Leaves, Moved, Goes
<1>9. CASE Report(a)
  BY <1>9 DEF Report, Ended, Leaves, Moved, Goes
<1> QED
  BY <1>1, <1>2, <1>4, <1>5, <1>6, <1>7, <1>8, <1>9 DEF Select

LEMMA ControllerMoves ==
    ASSUME NEW c \in Controllers, Controller(c)
    PROVE  \E place \in Places : Moved(c, place)
<1> USE PlaceNames
<1>1. CASE Enter(c)
  BY <1>1 DEF Enter, Moved, Goes
<1>2. CASE Lock(c)
  BY <1>2 DEF Lock, Moved, Goes
<1>3. CASE Snapshot(c) \/ Recommend(c)
  BY <1>3 DEF Snapshot, Recommend, Moved, Goes
<1>4. CASE Unavailable(c) \/ Keep(c)
  BY <1>4 DEF Unavailable, Keep, Writes, Leaves, Moved, Goes
<1>5. CASE Publish(c)
  BY <1>5 DEF Publish, Writes, Leaves, Moved, Goes
<1>6. CASE Raise(c)
  BY <1>6 DEF Raise, Leaves, Moved, Goes
<1>7. CASE WriteUnlocked(c)
  BY <1>7 DEF WriteUnlocked, Writes, Leaves, Moved, Goes
<1> QED
  BY <1>1, <1>2, <1>3, <1>4, <1>5, <1>6, <1>7 DEF Controller

LEMMA StepMoves ==
    ASSUME [Next]_vars
    PROVE  at' = at \/ \E a \in Actors, place \in Places : Moved(a, place)
<1>1. ASSUME NEW a \in Actors, Select(a)
      PROVE  \E b \in Actors, place \in Places : Moved(b, place)
  BY <1>1, SelectMoves
<1>2. ASSUME NEW a \in Actors, Die(a)
      PROVE  \E b \in Actors, place \in Places : Moved(b, place)
  BY <1>2, PlaceNames DEF Die, Leaves, Moved
<1>3. ASSUME NEW c \in Controllers, Controller(c)
      PROVE  \E b \in Actors, place \in Places : Moved(b, place)
  BY <1>3, ControllerMoves, ActorKinds
<1>4. CASE Ask
  BY <1>4, PlaceNames, ActorKinds DEF Ask, Moved
<1>5. CASE InstallBegins \/ InstallEnds \/ UNCHANGED vars
  BY <1>5 DEF InstallBegins, InstallEnds, vars
<1> QED
  BY <1>1, <1>2, <1>3, <1>4, <1>5 DEF Next

LEMMA MutexStep ==
    ASSUME TypeOK, MutexInv, [Next]_vars
    PROVE  MutexInv'
<1>1. CASE at' = at
  BY <1>1 DEF MutexInv
<1>2. ASSUME NEW a \in Actors, NEW place \in Places, Moved(a, place)
      PROVE  MutexInv'
  BY <1>2, ActorKinds DEF Moved, Goes, MutexInv, TypeOK
<1> QED
  BY <1>1, <1>2, StepMoves
-----------------------------------------------------------------------------
(* What select_transport has in hand. *)

PlaceOf(a) ==
    /\ at[a] \in Switching \cup {"evaluate", "select"} => job[a] \in Jobs
    /\ at[a] = "write" => outcome[a] \in Outcomes
    /\ at[a] # "write" => outcome[a] = None
    /\ a = Operator => at[a] \in {"idle", "select"} \cup Switching

LEMMA PlaceOfOne ==
    ASSUME PlaceInv, NEW a \in Actors, PlaceOf(a)',
           \A b \in Actors : b # a =>
              at'[b] = at[b] /\ job'[b] = job[b] /\ outcome'[b] = outcome[b]
    PROVE  PlaceInv'
<1>1. \A b \in Actors : b # a => PlaceOf(b)'
  BY DEF PlaceInv, PlaceOf
<1> QED
  BY <1>1 DEF PlaceInv, PlaceOf

LEMMA LeavesPlace ==
    ASSUME TypeOK, PlaceInv, NEW a \in Actors, Leaves(a)
    PROVE  PlaceInv'
<1>1. PlaceOf(a)'
  BY PlaceNames DEF Leaves, Goes, TypeOK, PlaceOf
<1> QED
  BY <1>1, PlaceOfOne DEF Leaves, Goes, TypeOK

LEMMA EndedPlace ==
    ASSUME TypeOK, PlaceInv, NEW a \in Actors, job[a] \in Jobs, NEW old \in Paths,
           NEW result \in {"activated", "restored", "unreported", "unverified"},
           NEW after \in Paths \cup {None}, Ended(a, old, result, after)
    PROVE  PlaceInv'
<1>1. CASE a \in Controllers
  <2>1. [old |-> old, tag |-> job[a].tag, result |-> result, after |-> after] \in Outcomes
    BY DEF Jobs, Outcomes
  <2>2. PlaceOf(a)'
    BY <1>1, <2>1, PlaceNames, ActorKinds DEF Ended, Goes, TypeOK, PlaceOf
  <2> QED
    BY <1>1, <2>2, PlaceOfOne DEF Ended, Goes, TypeOK
<1>2. CASE a \notin Controllers
  BY <1>2, LeavesPlace DEF Ended
<1> QED
  BY <1>1, <1>2

\* An actor inside its switch goes on with it.
LEMMA SwitchingPlace ==
    ASSUME TypeOK, PlaceInv, NEW a \in Actors, at[a] \in Switching \cup {"select"},
           NEW place \in Switching, Goes(a, place),
           job' \in [Actors -> Jobs \cup {None}], job'[a] \in Jobs,
           \A b \in Actors : b # a => job'[b] = job[b], UNCHANGED outcome
    PROVE  PlaceInv'
<1>1. PlaceOf(a)'
  BY PlaceNames DEF Goes, TypeOK, PlaceInv, PlaceOf
<1> QED
  BY <1>1, PlaceOfOne DEF Goes, TypeOK

LEMMA FailsPlace ==
    ASSUME TypeOK, PlaceInv, NEW a \in Actors, at[a] \in Switching, Fails(a),
           UNCHANGED outcome
    PROVE  PlaceInv' /\ at' \in [Actors -> Places] /\ job' \in [Actors -> Jobs \cup {None}]
<1>1. job[a] \in Jobs
  BY DEF PlaceInv
<1>2. at' \in [Actors -> Places] /\ job' \in [Actors -> Jobs \cup {None}]
  BY <1>1, FailsType
<1>3. job'[a] \in Jobs /\ \A b \in Actors : b # a => job'[b] = job[b]
  BY <1>1 DEF Fails, TypeOK, Jobs
<1>4. \E place \in Switching : Goes(a, place)
  BY PlaceNames DEF Fails
<1> QED
  BY <1>2, <1>3, <1>4, SwitchingPlace

LEMMA SelectStep ==
    ASSUME TypeOK, PlaceInv, NEW a \in Actors, Select(a)
    PROVE  TypeOK' /\ PlaceInv'
<1> USE PlaceNames
<1>1. at[a] \in Switching \cup {"select"} /\ job[a] \in Jobs
  BY DEF Select, Observe, Unanswered, Put, Confirm, Reset, Prove, Check, Report, PlaceInv
<1>2. /\ Path(a) \in Paths /\ job[a].old \in Paths /\ job[a].tag \in Paths
      /\ selector \in Paths
  BY <1>1, PathType DEF TypeOK
<1>3. CASE Observe(a)
  <2>1. job'[a] \in Jobs /\ \A b \in Actors : b # a => job'[b] = job[b]
    BY <1>1, <1>2, <1>3 DEF Observe, TypeOK, Jobs
  <2>2. job' \in [Actors -> Jobs \cup {None}]
    BY <1>3, <2>1 DEF Observe, TypeOK
  <2>3. \E place \in Switching : Goes(a, place)
    BY <1>3 DEF Observe
  <2> QED
    BY <1>1, <1>3, <2>1, <2>2, <2>3, SwitchingPlace, GoesType DEF Observe, TypeOK, Places
<1>4. CASE Unanswered(a)
  BY <1>1, <1>2, <1>4, EndedType, EndedPlace DEF Unanswered, TypeOK, Places
<1>5. CASE Put(a)
  <2>1. ASSUME Goes(a, "confirm"), UNCHANGED job
        PROVE  TypeOK' /\ PlaceInv'
    BY <1>1, <1>2, <1>5, <2>1, SwitchingPlace, GoesType DEF Put, TypeOK, Places
  <2>2. ASSUME Fails(a)
        PROVE  TypeOK' /\ PlaceInv'
    BY <1>2, <1>5, <2>2, FailsPlace DEF Put, TypeOK, Places
  <2> QED
    BY <1>5, <2>1, <2>2 DEF Put
<1>6. CASE Confirm(a)
  <2>1. ASSUME Goes(a, "reset"), UNCHANGED job
        PROVE  TypeOK' /\ PlaceInv'
    BY <1>1, <1>6, <2>1, SwitchingPlace, GoesType DEF Confirm, TypeOK, Places
  <2>2. ASSUME Fails(a)
        PROVE  TypeOK' /\ PlaceInv'
    BY <1>6, <2>2, FailsPlace DEF Confirm, TypeOK, Places
  <2> QED
    BY <1>6, <2>1, <2>2 DEF Confirm
<1>7. CASE Reset(a)
  <2>1. ASSUME Goes(a, "prove"), UNCHANGED job
        PROVE  TypeOK' /\ PlaceInv'
    BY <1>1, <1>7, <2>1, SwitchingPlace, GoesType DEF Reset, TypeOK, Places
  <2>2. ASSUME Fails(a)
        PROVE  TypeOK' /\ PlaceInv'
    BY <1>7, <2>2, FailsPlace DEF Reset, TypeOK, Places
  <2> QED
    BY <1>7, <2>1, <2>2 DEF Reset
<1>8. CASE Prove(a)
  <2>1. job'[a] \in Jobs /\ \A b \in Actors : b # a => job'[b] = job[b]
    BY <1>1, <1>8 DEF Prove, TypeOK, Jobs
  <2>2. job' \in [Actors -> Jobs \cup {None}]
    BY <1>8, <2>1 DEF Prove, TypeOK
  <2> QED
    BY <1>1, <1>8, <2>1, <2>2, SwitchingPlace, GoesType DEF Prove, TypeOK, Places
<1>9. CASE Check(a)
  <2>1. ASSUME Ended(a, job[a].old, "activated", Path(a))
        PROVE  TypeOK' /\ PlaceInv'
    BY <1>1, <1>2, <1>9, <2>1, EndedType, EndedPlace DEF Check, TypeOK, Places
  <2>2. ASSUME Goes(a, "report"), UNCHANGED <<job, known, outcome>>
        PROVE  TypeOK' /\ PlaceInv'
    BY <1>1, <1>9, <2>2, SwitchingPlace, GoesType DEF Check, TypeOK, Places
  <2>3. ASSUME Fails(a), UNCHANGED <<known, outcome>>
        PROVE  TypeOK' /\ PlaceInv'
    BY <1>9, <2>3, FailsPlace DEF Check, TypeOK, Places
  <2> QED
    BY <1>9, <2>1, <2>2, <2>3 DEF Check
<1>10. CASE Report(a)
  <2>1. PICK after \in {selector, None}, result \in {"restored", "unverified"} :
            Ended(a, job[a].old, result, after)
    BY <1>10 DEF Report
  <2> QED
    BY <1>1, <1>2, <1>10, <2>1, EndedType, EndedPlace DEF Report, TypeOK, Places
<1> QED
  BY <1>3, <1>4, <1>5, <1>6, <1>7, <1>8, <1>9, <1>10 DEF Select
-----------------------------------------------------------------------------
(* The cycle around the switch. *)

LEMMA ControllerStep ==
    ASSUME TypeOK, PlaceInv, HandInv, NEW c \in Controllers, Controller(c)
    PROVE  TypeOK' /\ PlaceInv'
<1> USE PlaceNames
<1>1. c \in Actors /\ c # Operator /\ at[c] \in Places
  BY ActorKinds DEF TypeOK, Places
<1>2. ASSUME NEW content \in Documents, Writes(c, content), UNCHANGED <<selector, installing>>
      PROVE  TypeOK' /\ PlaceInv'
  BY <1>1, <1>2, WritesType, LeavesPlace DEF Writes
<1>3. ASSUME NEW path \in Paths, job' = [job EXCEPT ![c] = Job(path)],
             NEW place \in {"evaluate", "select"}, at[c] # "write", Goes(c, place),
             UNCHANGED <<selector, document, installing, known, late, outcome>>
      PROVE  TypeOK' /\ PlaceInv'
  <2>1. Job(path) \in Jobs
    BY DEF Job, Jobs
  <2>2. PlaceOf(c)'
    BY <1>1, <1>3, <2>1 DEF Goes, TypeOK, PlaceInv, PlaceOf
  <2>3. PlaceInv'
    BY <1>1, <1>3, <2>2, PlaceOfOne DEF Goes, TypeOK
  <2>4. job' \in [Actors -> Jobs \cup {None}]
    BY <1>3, <2>1 DEF TypeOK
  <2> QED
    BY <1>1, <1>3, <2>3, <2>4, GoesType DEF TypeOK, Places
<1>4. CASE Enter(c)
  <2>1. PICK place \in {"unlocked", "waiting"} : Goes(c, place)
    BY <1>4 DEF Enter
  <2>2. PlaceOf(c)'
    BY <1>1, <1>4, <2>1 DEF Enter, Goes, TypeOK, PlaceInv, PlaceOf
  <2>3. PlaceInv'
    BY <1>1, <1>4, <2>1, <2>2, PlaceOfOne DEF Enter, Goes, TypeOK
  <2>4. known' \in [Actors -> Documents \cup {None}]
    BY <1>4, ReadsType DEF Enter, TypeOK
  <2> QED
    BY <1>1, <1>4, <2>1, <2>3, <2>4, GoesType DEF Enter, TypeOK, Places
<1>5. CASE Lock(c)
  <2>1. PlaceOf(c)'
    BY <1>1, <1>5 DEF Lock, Goes, TypeOK, PlaceInv, PlaceOf
  <2>2. PlaceInv'
    BY <1>1, <1>5, <2>1, PlaceOfOne DEF Lock, Goes, TypeOK
  <2> QED
    BY <1>1, <1>5, <2>2, GoesType, ReadsType DEF Lock, TypeOK, Places
<1>6. CASE Snapshot(c)
  BY <1>3, <1>6 DEF Snapshot, TypeOK
<1>7. CASE Recommend(c)
  <2>1. job[c].tag \in Paths
    BY <1>1, <1>7 DEF Recommend, PlaceInv, Jobs
  <2> QED
    BY <1>1, <1>3, <1>7, <2>1, OtherType DEF Recommend, TypeOK
<1>8. CASE Unavailable(c) \/ Keep(c) \/ Publish(c) \/ WriteUnlocked(c)
  BY <1>2, <1>8, WrittenType DEF Unavailable, Keep, Publish, WriteUnlocked
<1>9. CASE Raise(c)
  <2>1. late' \in [Actors -> BOOLEAN]
    BY <1>9 DEF Raise, TypeOK
  <2>2. CASE c = Watch
    <3>1. PlaceOf(c)'
      BY <1>1, <1>9, <2>2 DEF Raise, Goes, TypeOK, PlaceOf
    <3>2. PlaceInv'
      BY <1>1, <1>9, <2>2, <3>1, PlaceOfOne DEF Raise, Goes, TypeOK
    <3>3. /\ at' \in [Actors -> Places]
          /\ known' \in [Actors -> Documents \cup {None}]
      BY <1>1, <1>9, <2>2, GoesType, ReadsType DEF Raise
    <3>4. /\ job' \in [Actors -> Jobs \cup {None}]
          /\ outcome' \in [Actors -> Outcomes \cup {None}]
      BY <1>9, <2>2 DEF Raise, TypeOK
    <3> QED
      BY <1>9, <2>1, <3>2, <3>3, <3>4 DEF Raise, TypeOK, Places
  <2>3. CASE c # Watch
    BY <1>1, <1>9, <2>1, <2>3, LeavesType, LeavesPlace DEF Raise, TypeOK, Places
  <2> QED
    BY <2>2, <2>3
<1> QED
  BY <1>4, <1>5, <1>6, <1>7, <1>8, <1>9 DEF Controller

\* The other actions: a death, the command line, the install transaction.
LEMMA OtherStep ==
    ASSUME TypeOK, PlaceInv,
           (\E a \in Actors : Die(a)) \/ Ask \/ InstallBegins \/ InstallEnds
    PROVE  TypeOK' /\ PlaceInv'
<1>1. ASSUME NEW a \in Actors, Die(a)
      PROVE  TypeOK' /\ PlaceInv'
  <2>1. late' \in [Actors -> BOOLEAN]
    BY <1>1 DEF Die, TypeOK
  <2> QED
    BY <1>1, <2>1, LeavesType, LeavesPlace DEF Die, TypeOK, Places
<1>2. CASE Ask
  <2>1. PICK tag \in Paths : job' = [job EXCEPT ![Operator] = Job(tag)]
    BY <1>2 DEF Ask
  <2>2. Job(tag) \in Jobs
    BY DEF Job, Jobs
  <2>3. PlaceOf(Operator)'
    BY <1>2, <2>1, <2>2, PlaceNames, ActorKinds DEF Ask, Goes, TypeOK, PlaceInv, PlaceOf
  <2>4. PlaceInv'
    BY <1>2, <2>1, <2>3, PlaceOfOne, ActorKinds DEF Ask, Goes, TypeOK
  <2>5. job' \in [Actors -> Jobs \cup {None}]
    BY <2>1, <2>2 DEF TypeOK
  <2> QED
    BY <1>2, <2>4, <2>5, GoesType, PlaceNames, ActorKinds DEF Ask, TypeOK, Places
<1>3. CASE InstallBegins \/ InstallEnds
  BY <1>3 DEF InstallBegins, InstallEnds, TypeOK, PlaceInv
<1> QED
  BY <1>1, <1>2, <1>3

LEMMA PlaceStep ==
    ASSUME TypeOK, PlaceInv, HandInv, [Next]_vars
    PROVE  TypeOK' /\ PlaceInv'
<1>1. CASE UNCHANGED vars
  BY <1>1 DEF vars, TypeOK, PlaceInv
<1> QED
  BY <1>1, SelectStep, ControllerStep, OtherStep DEF Next
-----------------------------------------------------------------------------
(* The document in hand. *)

\* A step of another actor that leaves the document alone.
LEMMA HandOfOthers ==
    ASSUME HandInv, UNCHANGED document, NEW a,
           \A c \in Controllers : c # a =>
              at'[c] = at[c] /\ known'[c] = known[c] /\ late'[c] = late[c],
           a \in Controllers /\ at'[a] \in {"unlocked"} \cup Locked =>
              /\ known'[a] \in Documents
              /\ late'[a] \/ known'[a] = document
    PROVE  HandInv'
  BY DEF HandInv

\* An actor inside its switch keeps what it has read.
LEMMA HandKept ==
    ASSUME TypeOK, HandInv, NEW a \in Actors, at[a] \in Locked,
           NEW place \in Places, Goes(a, place), UNCHANGED <<document, known, late>>
    PROVE  HandInv'
<1>1. \A c \in Controllers : c # a => at'[c] = at[c]
  BY ActorKinds DEF Goes, TypeOK
<1>2. a \in Controllers => known'[a] \in Documents /\ (late'[a] \/ known'[a] = document)
  BY DEF HandInv
<1> QED
  BY <1>1, <1>2, HandOfOthers

LEMMA HandLeft ==
    ASSUME TypeOK, HandInv, NEW a \in Actors, Leaves(a), UNCHANGED document,
           \A c \in Controllers : c # a => late'[c] = late[c]
    PROVE  HandInv'
<1>1. at'[a] = "idle" /\ \A c \in Controllers : c # a => at'[c] = at[c] /\ known'[c] = known[c]
  BY ActorKinds DEF Leaves, Goes, TypeOK
<1> QED
  BY <1>1, HandOfOthers, PlaceNames

\* Who has a document in hand while another controller writes is late.
LEMMA HandWritten ==
    ASSUME TypeOK, MutexInv, HandInv, NEW c \in Controllers,
           at[c] \in {"unlocked"} \cup Locked, NEW content \in Documents, Writes(c, content)
    PROVE  HandInv'
<1> SUFFICES ASSUME NEW d \in Controllers, at'[d] \in {"unlocked"} \cup Locked
             PROVE  known'[d] \in Documents /\ (late'[d] \/ known'[d] = document')
  BY DEF HandInv
<1>1. d # c
  BY PlaceNames, ActorKinds DEF Writes, Leaves, Goes, TypeOK
<1>2. at'[d] = at[d] /\ known'[d] = known[d]
  BY <1>1, ActorKinds DEF Writes, Leaves, Goes, TypeOK
<1>3. known[d] \in Documents /\ known[d] # None
  BY <1>2, SwitchAssumption DEF HandInv
<1>4. "unlocked" \in {at[c], at[d]}
  BY <1>1, <1>2 DEF MutexInv
<1>5. late'[d]
  BY <1>1, <1>3, <1>4, ActorKinds DEF Writes
<1> QED
  BY <1>2, <1>3, <1>5

\* select_transport neither reads nor writes the document.
LEMMA SelectHand ==
    ASSUME NEW a \in Actors, Select(a)
    PROVE  /\ at[a] \in Locked
           /\ UNCHANGED <<document, installing, late>>
           /\ Leaves(a) \/ (UNCHANGED known /\ \E place \in Places : Goes(a, place))
<1> USE PlaceNames
<1>1. CASE Observe(a)
  BY <1>1 DEF Observe, Goes
<1>2. CASE Unanswered(a)
  BY <1>2 DEF Unanswered, Ended
<1>3. CASE Put(a) \/ Confirm(a) \/ Reset(a)
  BY <1>3 DEF Put, Confirm, Reset, Fails
<1>4. CASE Prove(a)
  BY <1>4 DEF Prove
<1>5. CASE Check(a)
  BY <1>5 DEF Check, Fails, Ended
<1>6. CASE Report(a)
  BY <1>6 DEF Report, Ended
<1> QED
  BY <1>1, <1>2, <1>3, <1>4, <1>5, <1>6 DEF Select

LEMMA ControllerHand ==
    ASSUME TypeOK, MutexInv, PlaceInv, HandInv, NEW c \in Controllers, Controller(c)
    PROVE  HandInv'
<1> USE PlaceNames
<1>1. c \in Actors
  BY ActorKinds
<1>2. CASE Enter(c)
  <2>1. \A d \in Controllers : d # c => at'[d] = at[d] /\ known'[d] = known[d]
    BY <1>1, <1>2, ActorKinds DEF Enter, Goes, Reads, TypeOK
  <2>2. at'[c] = "waiting" \/ known'[c] = document
    BY <1>1, <1>2 DEF Enter, Goes, Reads, TypeOK
  <2> QED
    BY <1>2, <2>1, <2>2, HandOfOthers DEF Enter, TypeOK
<1>3. CASE Lock(c)
  <2>1. \A d \in Controllers : d # c => at'[d] = at[d] /\ known'[d] = known[d]
    BY <1>1, <1>3, ActorKinds DEF Lock, Goes, Reads, TypeOK
  <2>2. known'[c] = document
    BY <1>1, <1>3 DEF Lock, Reads, TypeOK
  <2> QED
    BY <1>3, <2>1, <2>2, HandOfOthers DEF Lock, TypeOK
<1>4. CASE Snapshot(c) \/ Recommend(c)
  BY <1>1, <1>4, HandKept DEF Snapshot, Recommend
<1>5. CASE Unavailable(c) \/ Keep(c) \/ Publish(c) \/ WriteUnlocked(c)
  BY <1>5, WrittenType, HandWritten
<1>6. CASE Raise(c)
  <2>1. \A d \in Controllers : d # c => late'[d] = late[d]
    BY <1>6, ActorKinds DEF Raise, TypeOK
  <2>2. CASE c = Watch
    <3>1. \A d \in Controllers : d # c => at'[d] = at[d] /\ known'[d] = known[d]
      BY <1>1, <1>6, <2>2, ActorKinds DEF Raise, Goes, Reads, TypeOK
    <3>2. known'[c] = document
      BY <1>1, <1>6, <2>2 DEF Raise, Reads, TypeOK
    <3> QED
      BY <1>6, <2>1, <3>1, <3>2, HandOfOthers DEF Raise, TypeOK
  <2>3. CASE c # Watch
    BY <1>1, <1>6, <2>1, <2>3, HandLeft DEF Raise
  <2> QED
    BY <2>2, <2>3
<1> QED
  BY <1>2, <1>3, <1>4, <1>5, <1>6 DEF Controller

LEMMA HandStep ==
    ASSUME TypeOK, MutexInv, PlaceInv, HandInv, [Next]_vars
    PROVE  HandInv'
<1>1. ASSUME NEW a \in Actors, Select(a)
      PROVE  HandInv'
  BY <1>1, SelectHand, HandKept, HandLeft
<1>2. ASSUME NEW a \in Actors, Die(a)
      PROVE  HandInv'
  <2>1. \A c \in Controllers : c # a => late'[c] = late[c]
    BY <1>2, ActorKinds DEF Die, TypeOK
  <2> QED
    BY <1>2, <2>1, HandLeft DEF Die
<1>3. ASSUME NEW c \in Controllers, Controller(c)
      PROVE  HandInv'
  BY <1>3, ControllerHand
<1>4. CASE Ask
  <2>1. \A c \in Controllers : c # Operator => at'[c] = at[c]
    BY <1>4, ActorKinds DEF Ask, Goes, TypeOK
  <2> QED
    BY <1>4, <2>1, HandOfOthers, ActorKinds DEF Ask
<1>5. CASE InstallBegins \/ InstallEnds \/ UNCHANGED vars
  BY <1>5 DEF InstallBegins, InstallEnds, vars, HandInv
<1> QED
  BY <1>1, <1>2, <1>3, <1>4, <1>5 DEF Next
-----------------------------------------------------------------------------
\* The invariant holds in every state of both controllers, the command line and the
\* install transaction.
THEOREM Invariance == Spec => []IInv
<1>1. IInv /\ [Next]_vars => IInv'
  BY PlaceStep, MutexStep, HandStep DEF IInv
<1> QED
  BY InitIInv, <1>1, PTL DEF Spec

\* Every value the model gives to the selector, the state document, the locks and a
\* switch in progress is one the code can give it.
THEOREM TypeCorrect == Spec => []TypeOK
<1>1. IInv => TypeOK
  BY DEF IInv
<1> QED
  BY Invariance, <1>1, PTL

\* TRANSPORT_LOCK: no two controllers are inside a cycle at once.
THEOREM CyclesExclude == Spec => []MutexInv
<1>1. IInv => MutexInv
  BY DEF IInv
<1> QED
  BY Invariance, <1>1, PTL

\* What is lost of the document is lost by a controller that writes: of what it has in
\* hand, or because that is late.
LEMMA HistoryStep ==
    ASSUME IInv, [Next]_vars, Forgotten(document.failure, document'.failure)
    PROVE  \E c \in Controllers :
              /\ at'[c] # at[c]
              /\ \/ late[c]
                 \/ at[c] = "write" /\ outcome[c].result = "activated"
                 \/ at[c] \in {"evaluate", "write"} /\ Towards(c) # document.failure.target
<1> USE PlaceNames
<1>1. PICK c \in Controllers : Unavailable(c) \/ Keep(c) \/ Publish(c) \/ WriteUnlocked(c)
  <2>1. ASSUME UNCHANGED document
        PROVE  FALSE
    <3>1. document.failure # None => document.failure.attempts \in Nat
      BY SwitchAssumption DEF IInv, TypeOK, Documents, Failures
    <3> QED
      BY <2>1, <3>1 DEF Forgotten
  <2>2. ASSUME NEW a \in Actors, Select(a) \/ Die(a)
        PROVE  UNCHANGED document
    BY <2>2, SelectHand DEF Die
  <2>3. CASE Ask \/ InstallBegins \/ InstallEnds \/ UNCHANGED vars
    BY <2>1, <2>3 DEF Ask, InstallBegins, InstallEnds, vars
  <2>4. ASSUME NEW d \in Controllers,
               Enter(d) \/ Lock(d) \/ Snapshot(d) \/ Recommend(d) \/ Raise(d)
        PROVE  UNCHANGED document
    BY <2>4 DEF Enter, Lock, Snapshot, Recommend, Raise
  <2> QED
    BY <2>1, <2>2, <2>3, <2>4 DEF Next, Controller
<1>2. PICK content \in Documents :
          /\ Writes(c, content)
          /\ Forgotten(known[c].failure, content.failure) =>
                \/ at[c] = "write" /\ outcome[c].result = "activated"
                \/ at[c] \in {"evaluate", "write"} /\ Towards(c) # known[c].failure.target
  BY <1>1, WrittenType DEF IInv
<1>3. at[c] \in {"unlocked"} \cup Locked
  BY <1>1, WrittenType DEF IInv
<1>4. at'[c] # at[c]
  BY <1>2, <1>3, ActorKinds DEF IInv, TypeOK, Writes, Leaves, Goes
<1>5. document' = content
  BY <1>2 DEF Writes
<1>6. late[c] \/ known[c] = document
  BY <1>3 DEF IInv, HandInv
<1> QED
  BY <1>2, <1>4, <1>5, <1>6

\* The record on which retry_after_seconds rests is never lost between two cycles: it is
\* given up by a cycle that has activated its target, by one that is about the other path
\* because the selector stood at that target already, or around one of the writes made
\* without TRANSPORT_LOCK; and it never counts less otherwise.
THEOREM HistoryKept == Spec => HistoryIsKept
<1>1. IInv /\ [Next]_vars =>
        [Forgotten(document.failure, document'.failure) =>
            \E c \in Controllers :
                /\ at'[c] # at[c]
                /\ \/ late[c]
                   \/ at[c] = "write" /\ outcome[c].result = "activated"
                   \/ at[c] \in {"evaluate", "write"} /\ Towards(c) # document.failure.target]_vars
  BY HistoryStep
<1> QED
  BY Invariance, <1>1, PTL DEF Spec, HistoryIsKept
-----------------------------------------------------------------------------
(* A switch is one step. *)

\* With at most one controller under the lock the choice of Outside is no choice.
LEMMA OutsideNow ==
    ASSUME MutexInv
    PROVE  /\ Mover = {} => Outside = selector
           /\ \A c \in Mover : Outside = job[c].old
<1>1. \A c, d \in Mover : c = d
  BY PlaceNames DEF Mover, MutexInv
<1>2. Mover # {} => (CHOOSE c \in Mover : TRUE) \in Mover
  OBVIOUS
<1> QED
  BY <1>1, <1>2 DEF Outside

LEMMA OutsideNext ==
    ASSUME MutexInv'
    PROVE  /\ Mover' = {} => Outside' = selector'
           /\ \A c \in Mover' : Outside' = job'[c].old
<1>1. \A c, d \in Mover' : c = d
  BY PlaceNames DEF Mover, MutexInv
<1>2. Mover' # {} => (CHOOSE c \in Mover' : TRUE) \in Mover'
  OBVIOUS
<1> QED
  BY <1>1, <1>2 DEF Outside

\* No switch of a controller begins, ends or changes where it came from.
Calm == \A c \in Controllers :
            /\ at[c] \in Switching <=> at'[c] \in Switching
            /\ at[c] \in Switching => job'[c].old = job[c].old

LEMMA CalmOutside ==
    ASSUME MutexInv, MutexInv', Calm
    PROVE  Outside' = Outside \/ Outside' = selector'
<1>1. Mover' = Mover
  BY DEF Mover, Calm
<1>2. CASE Mover = {}
  BY <1>1, <1>2, OutsideNext
<1>3. ASSUME NEW c \in Mover
      PROVE  Outside' = Outside
  BY <1>1, <1>3, OutsideNow, OutsideNext DEF Mover, Calm
<1> QED
  BY <1>2, <1>3

LEMMA CalmKept ==
    ASSUME MutexInv, MutexInv', Calm, UNCHANGED selector
    PROVE  Outside' = Outside
<1>1. Mover' = Mover
  BY DEF Mover, Calm
<1>2. CASE Mover = {}
  BY <1>1, <1>2, OutsideNow, OutsideNext
<1>3. ASSUME NEW c \in Mover
      PROVE  Outside' = Outside
  BY <1>1, <1>3, OutsideNow, OutsideNext DEF Mover, Calm
<1> QED
  BY <1>2, <1>3

\* What the caller of a switch may see of a step.
Seen == Atomic!Next \/ UNCHANGED <<Outside, outcome>>

LEMMA CalmSeen ==
    ASSUME MutexInv, MutexInv', Calm, UNCHANGED outcome, selector' \in Paths
    PROVE  Seen
<1>1. Outside' = Outside \/ Outside' = selector'
  BY CalmOutside
<1>2. CASE Outside' = selector'
  <2>1. Atomic!Reselect(selector')
    BY <1>2 DEF Atomic!Reselect
  <2> QED
    BY <2>1 DEF Seen, Atomic!Next
<1> QED
  BY <1>1, <1>2 DEF Seen

\* A step of a controller that is under the lock is the only one there.
LEMMA OnlyMover ==
    ASSUME TypeOK, MutexInv, NEW c \in Controllers, at[c] \in Locked, NEW place, Goes(c, place)
    PROVE  /\ \A d \in Controllers : d # c => d \notin Mover /\ d \notin Mover'
           /\ c \in Mover <=> at[c] \in Switching
           /\ c \in Mover' <=> place \in Switching
<1>1. at'[c] = place /\ \A d \in Controllers : d # c => at'[d] = at[d]
  BY ActorKinds DEF Goes, TypeOK
<1>2. \A d \in Controllers : d # c => at[d] \notin Switching
  BY PlaceNames DEF MutexInv
<1> QED
  BY <1>1, <1>2 DEF Mover

\* The report of a controller's switch ends it.
LEMMA EndSeen ==
    ASSUME TypeOK, MutexInv, MutexInv', NEW c \in Controllers, at[c] \in Locked,
           NEW old \in Paths, Outside = old, job[c].tag \in Paths, UNCHANGED selector,
           NEW result, NEW after, Ended(c, old, result, after),
           [result |-> result, after |-> after, actual |-> selector]
              \in Atomic!Endings(old, job[c].tag)
    PROVE  Seen
<1>1. Goes(c, "write")
  BY DEF Ended
<1>2. Mover' = {}
  BY <1>1, OnlyMover, PlaceNames DEF Mover
<1>3. Outside' = selector
  BY <1>2, OutsideNext
<1> DEFINE ending == [result |-> result, after |-> after, actual |-> selector]
<1>4. Outside' = ending.actual
  BY <1>3
<1>5. outcome' = [outcome EXCEPT ![c] = Atomic!Reported(old, job[c].tag, ending)]
  BY DEF Ended, Atomic!Reported
<1>6. ending \in Atomic!Endings(Outside, job[c].tag)
  OBVIOUS
<1> HIDE DEF ending
<1>7. Atomic!Switch(c, job[c].tag)
  BY <1>4, <1>5, <1>6 DEF Atomic!Switch
<1> QED
  BY <1>7, ActorKinds DEF Seen, Atomic!Next

\* transport-select is seen as a move of the selector, at its PUT.
LEMMA OperatorSeen ==
    ASSUME IInv, IInv', Select(Operator)
    PROVE  Seen
<1> USE PlaceNames, ActorKinds
<1>1. at[Operator] # "write" /\ outcome[Operator] = None
  BY DEF IInv, PlaceInv
<1>2. Leaves(Operator) => UNCHANGED outcome
  BY <1>1 DEF Leaves, IInv, TypeOK
<1>3. UNCHANGED outcome
  BY <1>2 DEF Select, Observe, Unanswered, Put, Confirm, Reset, Prove, Check, Report, Ended
<1>4. \A c \in Controllers : at'[c] = at[c]
  BY SelectHand DEF Leaves, Goes, IInv, TypeOK
<1>5. \A c \in Controllers : job'[c] = job[c]
  BY DEF Select, Observe, Unanswered, Put, Confirm, Reset, Prove, Check, Report, Ended,
         Leaves, Fails, IInv, TypeOK
<1>6. Calm
  BY <1>4, <1>5 DEF Calm
<1> QED
  BY <1>3, <1>6, CalmSeen DEF IInv, TypeOK

\* A controller's switch is seen where it ends, and nowhere else.
LEMMA SwitchSeen ==
    ASSUME IInv, IInv', NEW c \in Controllers, Select(c)
    PROVE  Seen
<1> USE PlaceNames
<1>1. c \in Actors /\ at[c] \in Locked /\ job[c] \in Jobs /\ selector \in Paths
  BY ActorKinds, SelectHand
  DEF IInv, TypeOK, PlaceInv, Select, Observe, Unanswered, Put, Confirm, Reset, Prove,
      Check, Report
<1>2. job[c].old \in Paths /\ job[c].tag \in Paths
  BY <1>1, PathType
<1>3. selector' \in Paths
  BY DEF IInv, TypeOK
<1>4. ASSUME at[c] \in Switching, NEW place \in Switching, Goes(c, place),
             \A d \in Controllers : job'[d].old = job[d].old, UNCHANGED outcome
      PROVE  Seen
  <2>1. Calm
    BY <1>1, <1>4, ActorKinds DEF Calm, Goes, IInv, TypeOK
  <2> QED
    BY <1>3, <1>4, <2>1, CalmSeen DEF IInv
<1>5. ASSUME at[c] \in Switching, Fails(c), UNCHANGED outcome
      PROVE  Seen
  <2>1. \A d \in Controllers : job'[d].old = job[d].old
    BY <1>1, <1>5, ActorKinds DEF Fails, IInv, TypeOK, Jobs
  <2>2. PICK place \in Switching : Goes(c, place)
    BY <1>5 DEF Fails
  <2> QED
    BY <1>4, <1>5, <2>1, <2>2
<1>6. CASE Observe(c)
  <2>1. PICK place \in Switching : Goes(c, place)
    BY <1>6 DEF Observe
  <2>2. Mover = {} /\ c \in Mover'
    BY <1>1, <1>6, <2>1, OnlyMover DEF Observe, Mover, IInv
  <2>3. job'[c].old = selector
    BY <1>1, <1>6 DEF Observe, IInv, TypeOK, Jobs
  <2>4. Outside' = Outside
    BY <2>2, <2>3, OutsideNow, OutsideNext DEF IInv
  <2> QED
    BY <1>6, <2>4 DEF Observe, Seen
<1>7. CASE Unanswered(c)
  <2>1. Goes(c, "write")
    BY <1>7 DEF Unanswered, Ended
  <2>2. Outside = selector
    BY <1>1, <1>7, <2>1, OnlyMover, OutsideNow DEF Unanswered, Mover, IInv
  <2> QED
    BY <1>1, <1>2, <1>7, <2>2, EndSeen DEF Unanswered, Atomic!Endings, IInv
<1>8. CASE Put(c)
  BY <1>1, <1>4, <1>5, <1>8 DEF Put
<1>9. CASE Confirm(c)
  BY <1>1, <1>4, <1>5, <1>9 DEF Confirm
<1>10. CASE Reset(c)
  BY <1>1, <1>4, <1>5, <1>10 DEF Reset
<1>11. CASE Prove(c)
  <2>1. \A d \in Controllers : job'[d].old = job[d].old
    BY <1>1, <1>11, ActorKinds DEF Prove, IInv, TypeOK, Jobs
  <2> QED
    BY <1>4, <1>11, <2>1 DEF Prove
<1>12. ASSUME at[c] \in Switching
       PROVE  Outside = job[c].old
  BY <1>12, OutsideNow DEF Mover, IInv
<1>13. CASE Check(c)
  <2>1. ASSUME Proven(c), ~job[c].undo, Ended(c, job[c].old, "activated", Path(c))
        PROVE  Seen
    <3>1. Path(c) = job[c].tag /\ selector = job[c].tag
      BY <2>1 DEF Proven, Path
    <3> QED
      BY <1>1, <1>2, <1>12, <1>13, <2>1, <3>1, EndSeen DEF Check, Atomic!Endings, IInv
  <2> QED
    BY <1>4, <1>5, <1>13, <2>1 DEF Check
<1>14. CASE Report(c)
  <2>1. PICK after \in {selector, None}, result \in {"restored", "unverified"} :
            /\ Ended(c, job[c].old, result, after)
            /\ result = "restored" => after = job[c].old
    BY <1>14 DEF Report
  <2>2. [result |-> result, after |-> after, actual |-> selector]
           \in Atomic!Endings(job[c].old, job[c].tag)
    BY <1>1, <1>2, <2>1, SwitchAssumption DEF Atomic!Endings
  <2> QED
    BY <1>1, <1>2, <1>12, <1>14, <2>1, <2>2, EndSeen DEF Report, IInv
<1> QED
  BY <1>6, <1>7, <1>8, <1>9, <1>10, <1>11, <1>13, <1>14 DEF Select

\* A controller that publishes, raises or dies lets go of its report; if it was inside
\* a switch the selector is seen where the switch left it.
LEMMA LeavesSeen ==
    ASSUME IInv, IInv', NEW a \in Actors, NEW place \in {"idle", "unlocked"}, Goes(a, place),
           \A d \in Controllers : d # a => job'[d] = job[d],
           outcome' = [outcome EXCEPT ![a] = None], UNCHANGED selector
    PROVE  Seen
<1> USE PlaceNames
<1>1. at'[a] = place /\ \A d \in Controllers : d # a => at'[d] = at[d]
  BY ActorKinds DEF Goes, IInv, TypeOK
<1>2. selector' \in Paths
  BY DEF IInv, TypeOK
<1>3. CASE a \in Controllers /\ at[a] \in Switching
  <2>1. outcome[a] = None
    BY <1>3 DEF IInv, PlaceInv
  <2>2. UNCHANGED outcome
    BY <2>1 DEF IInv, TypeOK
  <2>3. Mover' = {}
    BY <1>3, OnlyMover DEF Mover, IInv
  <2>4. Atomic!Reselect(selector')
    BY <2>2, <2>3, OutsideNext DEF Atomic!Reselect, IInv
  <2> QED
    BY <1>2, <2>4 DEF Seen, Atomic!Next
<1>4. CASE ~(a \in Controllers /\ at[a] \in Switching)
  <2>1. Calm
    BY <1>1, <1>4 DEF Calm
  <2>2. Atomic!Forget(a)
    BY <2>1, CalmKept DEF Atomic!Forget, IInv
  <2> QED
    BY <2>2 DEF Seen, Atomic!Next
<1> QED
  BY <1>3, <1>4

LEMMA ControllerSeen ==
    ASSUME IInv, IInv', NEW c \in Controllers, Controller(c)
    PROVE  Seen
<1> USE PlaceNames, ActorKinds
<1>1. selector' \in Paths
  BY DEF IInv, TypeOK
<1>2. CASE Enter(c) \/ Lock(c) \/ Snapshot(c) \/ Recommend(c)
  <2>1. PICK place \in {"unlocked", "waiting", "cycle", "evaluate", "select"} : Goes(c, place)
    BY <1>2 DEF Enter, Lock, Snapshot, Recommend
  <2>2. \A d \in Controllers : d # c => at'[d] = at[d] /\ job'[d] = job[d]
    BY <1>2, <2>1 DEF Enter, Lock, Snapshot, Recommend, Goes, IInv, TypeOK
  <2>3. at[c] \notin Switching /\ at'[c] \notin Switching
    BY <1>2, <2>1 DEF Enter, Lock, Snapshot, Recommend, Goes, IInv, TypeOK
  <2>4. Calm
    BY <2>2, <2>3 DEF Calm
  <2> QED
    BY <1>1, <1>2, <2>4, CalmSeen DEF Enter, Lock, Snapshot, Recommend, IInv
<1>3. CASE Unavailable(c) \/ Keep(c) \/ Publish(c) \/ WriteUnlocked(c)
  <2>1. Leaves(c) /\ UNCHANGED selector
    BY <1>3 DEF Unavailable, Keep, Publish, WriteUnlocked, Writes
  <2>2. \A d \in Controllers : d # c => job'[d] = job[d]
    BY <2>1 DEF Leaves, IInv, TypeOK
  <2> QED
    BY <2>1, <2>2, LeavesSeen DEF Leaves
<1>4. CASE Raise(c)
  <2>1. PICK place \in {"idle", "unlocked"} : Goes(c, place)
    BY <1>4 DEF Raise, Leaves
  <2>2. outcome' = [outcome EXCEPT ![c] = None] /\ job' = [job EXCEPT ![c] = None]
    BY <1>4 DEF Raise, Leaves
  <2>3. \A d \in Controllers : d # c => job'[d] = job[d]
    BY <2>2 DEF IInv, TypeOK
  <2> QED
    BY <1>4, <2>1, <2>2, <2>3, LeavesSeen DEF Raise
<1> QED
  BY <1>2, <1>3, <1>4 DEF Controller

LEMMA StepSeen ==
    ASSUME IInv, IInv', [Next]_vars
    PROVE  Seen
<1>1. ASSUME NEW a \in Actors, Select(a)
      PROVE  Seen
  BY <1>1, ActorKinds, OperatorSeen, SwitchSeen
<1>2. ASSUME NEW a \in Actors, Die(a)
      PROVE  Seen
  BY <1>2, ActorKinds, LeavesSeen DEF Die, Leaves, IInv, TypeOK
<1>3. ASSUME NEW c \in Controllers, Controller(c)
      PROVE  Seen
  BY <1>3, ControllerSeen
<1>4. selector' \in Paths
  BY DEF IInv, TypeOK
<1>5. CASE Ask
  <2>1. Calm
    BY <1>5, ActorKinds DEF Ask, Goes, Calm, IInv, TypeOK
  <2> QED
    BY <1>4, <1>5, <2>1, CalmSeen DEF Ask, IInv
<1>6. CASE InstallBegins \/ InstallEnds
  <2>1. Calm
    BY <1>6 DEF InstallBegins, InstallEnds, Calm
  <2> QED
    BY <1>4, <1>6, <2>1, CalmSeen DEF InstallBegins, InstallEnds, IInv
<1>7. CASE UNCHANGED vars
  <2>1. Calm
    BY <1>7 DEF vars, Calm
  <2> QED
    BY <1>4, <1>7, <2>1, CalmSeen DEF vars, IInv
<1> QED
  BY <1>1, <1>2, <1>3, <1>5, <1>6, <1>7 DEF Next

\* select_transport keeps the promise of SelectorSwitch: for whoever reads its report a
\* switch of a controller is one step, whichever of its requests failed or was applied
\* without an answer, and although transport-select moves the selector meanwhile.
THEOREM SwitchAtomic == Spec => SwitchIsAtomic
<1>1. Init => Atomic!Init
  <2> SUFFICES ASSUME Init PROVE Atomic!Init
    OBVIOUS
  <2>1. MutexInv
    BY InitIInv DEF IInv
  <2>2. Mover = {}
    BY PlaceNames, ActorKinds DEF Mover, Init
  <2> QED
    BY <2>1, <2>2, OutsideNow DEF Init, Atomic!Init
<1>2. IInv /\ IInv' /\ [Next]_vars => [Atomic!Next]_(Atomic!vars)
  BY StepSeen DEF Seen, Atomic!vars
<1> QED
  BY Invariance, <1>1, <1>2, PTL DEF Spec, SwitchIsAtomic, Atomic!Spec
=============================================================================
