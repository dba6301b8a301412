------------------------ MODULE HealthRecoveryProofs ------------------------
(***************************************************************************)
(* Proofs about HealthRecovery for any processes, any list of services and *)
(* any environment: what recovery acts upon, how often it may repeat an    *)
(* action, and when the file may say `healthy'.                            *)
(*                                                                         *)
(* A check decides from the file it has read and writes it much later, so  *)
(* the invariants say what stays true of the file and of the check's own   *)
(* document in between (FileInv, Sound), that no other check comes between *)
(* (LockInv), and which successes the file does not know of (BudgetInv).   *)
(***************************************************************************)
EXTENDS HealthRecovery, FiniteSetTheorems, SequenceTheorems, WellFoundedInduction, TLAPS

\* One check at most is past LOCK_PATH, and none is inside during an installation.
LockInv ==
    /\ \A r, other \in Runs : Holds(r) /\ Holds(other) => r = other
    /\ install => \A r \in Runs : ~Reads(r)

\* What a check may rely on while it is under way: its document is consistent,
\* and asks only for what is counted in its row of observations; what it has still
\* to do was asked for twice and is free to be done; it has the cooldowns of the
\* file; and it says `healthy' only when nothing was found wrong.
DocumentSound(r) ==
    /\ run[r].payload.state = "healthy" => run[r].payload.failures = 0
    /\ \A a \in run[r].payload.evidence.plan : a \in Actions /\ run[r].count[a] > 0
WorkSound(r) ==
    run[r].pc \in {"act", "receipt"} =>
        /\ run[r].todo # {} /\ disk.state # "healthy"
        /\ \A a \in run[r].todo : run[r].count[a] = 2 /\ disk.last[a] = AgeCap
StateSound(r) ==
    /\ run[r].pc \in {"act", "receipt", "recheck", "refacts"} =>
          run[r].payload.state # "healthy"
    /\ run[r].pc = "write" /\ run[r].payload.state = "healthy" => ~shaken
LastSound(r) ==
    run[r].pc \in {"act", "receipt", "recheck", "refacts", "write"} =>
        run[r].payload.last = disk.last
Sound(r) == DocumentSound(r) /\ WorkSound(r) /\ StateSound(r) /\ LastSound(r)

\* The same of the file.
FileInv ==
    /\ disk.state = "healthy" => disk.failures = 0
    /\ \A a \in disk.evidence.plan : a \in Actions /\ streak[a] > 0
    /\ HealthyIsProven

\* The successes that the file does not know of, but for one whose receipt is next.
Succeeded(r) == At(r, "receipt") /\ run[r].result = "ok"
Lost == {a \in Actions : /\ disk.last[a] > since[a]
                         /\ \A r \in Runs : Succeeded(r) => a # Current(r)}
\* Each of them has cost an abort and may cost one early repetition.
BudgetInv == early + Cardinality(Lost) + left.faults <= MaxFaults

IInv == TypeOK /\ LockInv /\ FileInv /\ (\A r \in Runs : Sound(r)) /\ BudgetInv
-----------------------------------------------------------------------------
(* The actions and their order: finitely many, and a first one of any. *)

\* Among some natural numbers one is the least.
LEMMA Least ==
    ASSUME NEW S \in SUBSET Nat, S # {}
    PROVE  \E i \in S : \A j \in S : i <= j
<1>1. PICK i \in S : \A j \in S : ~(<<j, i>> \in OpToRel(<, Nat))
  BY NatLessThanWellFounded, WFMin
<1>2. \A j \in S : ~(j < i)
  BY <1>1 DEF OpToRel
<1> QED
  BY <1>2

LEMMA FirstIsOne ==
    ASSUME NEW S, NEW order \in Seq(S), NEW actions, NEW k \in DOMAIN order, order[k] \in actions
    PROVE  First(order, actions) \in actions
<1> DEFINE places == {i \in DOMAIN order : order[i] \in actions}
<1>1. places \in SUBSET Nat /\ places # {}
  OBVIOUS
<1>2. \E i \in places : \A j \in places : i <= j
  BY <1>1, Least
<1>3. (CHOOSE i \in places : \A j \in places : i <= j) \in places
  BY <1>2
<1> QED
  BY <1>3 DEF First

\* The members of a sequence are finitely many.
LEMMA RangeIsFinite ==
    ASSUME NEW S, NEW order \in Seq(S)
    PROVE  IsFiniteSet(Range(order))
<1>1. IsFiniteSet(1..Len(order))
  BY FS_Interval
<1>2. order \in Surjection(1..Len(order), Range(order))
  BY DEF Surjection, Range
<1> QED
  BY <1>1, <1>2, FS_Surjection

LEMMA SettingOrderIs ==
    /\ SettingOrder \in Seq(Settings) /\ Len(SettingOrder) = 4
    /\ DOMAIN SettingOrder = 1..4
    /\ \A a \in Settings : \E k \in 1..4 : SettingOrder[k] = a
<1>1. SettingOrder \in Seq({"policy", "qdisc", "sysctl", "bypass"})
  BY DEF SettingOrder
<1>2. Len(SettingOrder) = 4
  BY DEF SettingOrder
<1>3. DOMAIN SettingOrder = 1..4
  BY <1>1, <1>2
<1>4. \A a \in Settings : \E k \in 1..4 : SettingOrder[k] = a
  BY <1>3 DEF Settings, Range
<1>5. \A k \in 1..4 : SettingOrder[k] \in Settings
  BY <1>3 DEF Settings, Range
<1>6. SettingOrder \in Seq(Settings)
  <2>1. SettingOrder \in [1..4 -> Settings]
    BY <1>1, <1>2, <1>5, LenProperties
  <2> QED
    BY <2>1, SeqDef
<1> QED
  BY <1>2, <1>3, <1>4, <1>6

LEMMA ServiceOrderIs ==
    /\ ServiceOrder \in Seq(Services) /\ DOMAIN ServiceOrder = 1..Len(ServiceOrder)
    /\ Len(ServiceOrder) \in Nat
    /\ \A a \in Services : \E k \in 1..Len(ServiceOrder) : ServiceOrder[k] = a
  BY HealthAssumption DEF Services, Range

LEMMA ActionsAreFinite == IsFiniteSet(Actions)
<1>1. IsFiniteSet(Services) /\ IsFiniteSet(Settings)
  BY RangeIsFinite, SettingOrderIs, ServiceOrderIs DEF Services, Settings
<1> QED
  BY <1>1, FS_Union DEF Actions

\* recover() takes one of the actions it was given.
LEMMA FirstAction ==
    ASSUME NEW actions \in SUBSET Actions, actions # {}
    PROVE  First(ActionOrder, actions) \in actions
<1>1. PICK a \in actions : TRUE
  OBVIOUS
<1>2. ServiceOrder \in Seq(Actions) /\ SettingOrder \in Seq(Actions)
  BY ServiceOrderIs, SettingOrderIs DEF Actions
<1>3. ActionOrder \in Seq(Actions) /\ DOMAIN ActionOrder = 1..(Len(ServiceOrder) + 4)
  <2>1. ActionOrder \in Seq(Actions) /\ Len(ActionOrder) = Len(ServiceOrder) + Len(SettingOrder)
    BY <1>2, ConcatProperties DEF ActionOrder
  <2> QED
    BY <2>1, LenProperties, SettingOrderIs
<1>4. \E k \in DOMAIN ActionOrder : ActionOrder[k] = a
  <2>1. CASE a \in Services
    <3>1. PICK k \in 1..Len(ServiceOrder) : ServiceOrder[k] = a
      BY <2>1, ServiceOrderIs
    <3>2. ActionOrder[k] = a
      BY <3>1, <1>2, ServiceOrderIs DEF ActionOrder
    <3> QED
      BY <1>3, <3>2, ServiceOrderIs
  <2>2. CASE a \in Settings
    <3>1. PICK k \in 1..4 : SettingOrder[k] = a
      BY <2>2, SettingOrderIs
    <3>2. \A i \in 1..Len(ServiceOrder) + Len(SettingOrder) : i > Len(ServiceOrder) =>
             ActionOrder[i] = SettingOrder[i - Len(ServiceOrder)]
      <4>1. \A i \in 1..Len(ServiceOrder) + Len(SettingOrder) :
               ActionOrder[i] = IF i <= Len(ServiceOrder) THEN ServiceOrder[i]
                                ELSE SettingOrder[i - Len(ServiceOrder)]
        BY <1>2, ConcatProperties DEF ActionOrder
      <4> QED
        BY <4>1, ServiceOrderIs, SettingOrderIs
    <3>3. ActionOrder[Len(ServiceOrder) + k] = a
      <4> DEFINE i == Len(ServiceOrder) + k
      <4>1. i \in 1..Len(ServiceOrder) + Len(SettingOrder) /\ i > Len(ServiceOrder)
            /\ i - Len(ServiceOrder) = k
        BY SettingOrderIs, ServiceOrderIs
      <4> QED
        BY <3>1, <3>2, <4>1
    <3> QED
      BY <1>3, <3>3, ServiceOrderIs
  <2> QED
    BY <2>1, <2>2 DEF Actions
<1> QED
  BY <1>3, <1>4, FirstIsOne

\* No plan names anything else than an action.
LEMMA PlanType == ASSUME NEW found PROVE Plan(found) \in SUBSET Actions
<1>1. ASSUME found \cap Settings # {}
      PROVE  First(SettingOrder, found \cap Settings) \in Settings
  <2>1. PICK k \in 1..4 : SettingOrder[k] \in found \cap Settings
    BY <1>1, SettingOrderIs
  <2> QED
    BY <2>1, SettingOrderIs, FirstIsOne
<1> QED
  BY <1>1, HealthAssumption DEF Plan, Actions

-----------------------------------------------------------------------------
(* What is written has its type. *)

LEMMA BoundsAreNatural ==
    /\ Gap \in Nat /\ AgeCap \in Nat /\ AgeCap = Cooldown /\ MaxBreaks \in Nat /\ MaxFaults \in Nat
    /\ MaxInstalls \in Nat /\ MaxChecks \in Nat
  BY HealthAssumption DEF AgeCap

LEMMA OlderIs ==
    /\ \A age \in Age : Older(age) \in Age
    /\ \A x, y \in Age : Older(x) > Older(y) => x > y
    /\ Older(AgeCap) = AgeCap
  BY BoundsAreNatural DEF Age, Older

LEMMA OlderDocumentIs ==
    ASSUME NEW d \in Documents
    PROVE  /\ OlderDocument(d) \in Documents
           /\ OlderDocument(d).state = d.state /\ OlderDocument(d).failures = d.failures
           /\ OlderDocument(d).evidence = d.evidence
           /\ OlderDocument(d).last = [a \in Actions |-> Older(d.last[a])]
  BY OlderIs DEF Documents, OlderDocument

LEMMA NoDocumentIs ==
    NoDocument \in Documents /\ NoDocument.evidence.plan = {}
  BY BoundsAreNatural DEF NoDocument, Documents, NoEvidence, Evidences, Age

LEMMA IdleIs == Idle \in Processes
  BY NoDocumentIs DEF Idle, Processes, Steps

LEMMA CollectedIs ==
    ASSUME TypeOK, NEW r \in Runs
    PROVE  Collected(r) \in SUBSET Fragile
  BY DEF TypeOK, Processes, Collected

LEMMA FailuresAre ==
    ASSUME TypeOK, NEW found
    PROVE  /\ Failures(found) \in 0..2
           /\ Failures(found) = 0 <=> HardReasons(found) = {}
           /\ Failures(found) = 2 => SameFailure(found) /\ disk.failures # 0
  BY DEF TypeOK, Documents, Failures, SameFailure

LEMMA PayloadIs ==
    ASSUME TypeOK, NEW found \in SUBSET Fragile
    PROVE  /\ Payload(found) \in Documents
           /\ Payload(found).state = StateOf(Failures(found))
           /\ Payload(found).failures = Failures(found)
           /\ Payload(found).evidence = Evidence(found) /\ Payload(found).last = disk.last
<1>1. HardReasons(found) \in SUBSET {"server_path", "host_integrity"}
  BY DEF HardReasons
<1>2. StateOf(Failures(found)) \in {"healthy", "suspect", "failed"}
  BY FailuresAre DEF StateOf
<1>3. disk.last \in [Actions -> Age] /\ 0 \in Age
  BY BoundsAreNatural DEF TypeOK, Documents, Age
<1> QED
  BY <1>1, <1>2, <1>3, FailuresAre DEF Payload, Documents, Evidences

LEMMA CountedIs ==
    ASSUME TypeOK, NEW found
    PROVE  /\ Counted(found) \in [Actions -> 0..2]
           /\ \A a \in Plan(found) : a \in Actions /\ Counted(found)[a] > 0
  BY PlanType DEF Counted

LEMMA NotedIs ==
    ASSUME TypeOK, NEW r \in Runs
    PROVE  /\ Noted(r) \in Documents
           /\ Noted(r).state \in {run[r].payload.state, "recovering"}
           /\ Noted(r).failures = run[r].payload.failures
           /\ Noted(r).evidence = run[r].payload.evidence
           /\ Noted(r).last = IF run[r].result = "ok"
                              THEN [run[r].payload.last EXCEPT ![Current(r)] = 0]
                              ELSE run[r].payload.last
<1>1. run[r].payload \in Documents
  BY DEF TypeOK, Processes
<1>2. CASE run[r].result = "ok"
  <2>1. Noted(r) = [run[r].payload EXCEPT !.state = "recovering", !.last[Current(r)] = 0]
    BY <1>2 DEF Noted
  <2>2. /\ Noted(r) = [run[r].payload EXCEPT !.state = "recovering", !.last = Noted(r).last]
        /\ Noted(r).last = [run[r].payload.last EXCEPT ![Current(r)] = 0]
    BY <1>1, <2>1 DEF Documents
  <2>3. Noted(r).last \in [Actions -> Age]
    <3>1. run[r].payload.last \in [Actions -> Age] /\ 0 \in Age
      BY <1>1, BoundsAreNatural DEF Documents, Age
    <3> QED
      BY <2>2, <3>1
  <2> QED
    BY <1>1, <1>2, <2>2, <2>3 DEF Documents
<1>3. CASE run[r].result # "ok"
  BY <1>1, <1>3 DEF Noted
<1> QED
  BY <1>2, <1>3

LEMMA RecoveredIs ==
    ASSUME NEW d \in Documents
    PROVE  /\ [d EXCEPT !.state = "healthy", !.failures = 0] \in Documents
           /\ [d EXCEPT !.state = "healthy", !.failures = 0].failures = 0
           /\ [d EXCEPT !.state = "healthy", !.failures = 0].last = d.last
           /\ [d EXCEPT !.state = "healthy", !.failures = 0].evidence = d.evidence
<1>1. PICK e : e = [d EXCEPT !.state = "healthy", !.failures = 0]
  OBVIOUS
<1>2. e.failures = 0 /\ e.state = "healthy" /\ e.last = d.last /\ e.evidence = d.evidence
      /\ e.hard = d.hard /\ e.age = d.age
  BY <1>1 DEF Documents
<1>3. e \in Documents
  <2>1. PICK f : f = [d EXCEPT !.state = "healthy"]
    OBVIOUS
  <2>2. f \in Documents
    BY <2>1 DEF Documents
  <2>3. e = [f EXCEPT !.failures = 0]
    BY <1>1, <2>1 DEF Documents
  <2> QED
    BY <2>2, <2>3 DEF Documents
<1> QED
  BY <1>1, <1>2, <1>3

LEMMA TypeInit == Init => TypeOK
<1> SUFFICES ASSUME Init PROVE TypeOK
  OBVIOUS
<1>1. run \in [Runs -> Processes] /\ disk \in Documents
  BY IdleIs, NoDocumentIs DEF Init
<1>2. /\ since \in [Actions -> Age] /\ streak \in [Actions -> 0..2] /\ early \in 0..MaxFaults + 1
  BY BoundsAreNatural DEF Init, Age
<1>3. left \in [breaks : 0..MaxBreaks, faults : 0..MaxFaults,
                installs : 0..MaxInstalls, checks : 0..MaxChecks]
  BY BoundsAreNatural DEF Init
<1> QED
  BY <1>1, <1>2, <1>3 DEF Init, TypeOK

\* Taking one from an account leaves an account.
LEMMA LeftIs ==
    ASSUME TypeOK
    PROVE  /\ left.faults \in 0..MaxFaults
           /\ left.faults > 0 => /\ [left EXCEPT !.faults = @ - 1].faults = left.faults - 1
                                 /\ [left EXCEPT !.faults = @ - 1] \in
                                      [breaks : 0..MaxBreaks, faults : 0..MaxFaults,
                                       installs : 0..MaxInstalls, checks : 0..MaxChecks]
  BY BoundsAreNatural DEF TypeOK

LEMMA TypeStep == TypeOK /\ [Next]_vars => TypeOK'
<1> SUFFICES ASSUME TypeOK, [Next]_vars PROVE TypeOK'
  OBVIOUS
<1> USE DEF TypeOK
<1>1. CASE Prepare
  <2>1. [run[Timer] EXCEPT !.pc = "enter"] \in Processes
    BY HealthAssumption DEF Processes, Steps
  <2>2. run' = [run EXCEPT ![Timer] = [run[Timer] EXCEPT !.pc = "enter"]]
    BY <1>1 DEF Prepare, Enter
  <2>3. run' \in [Runs -> Processes]
    BY <2>1, <2>2
  <2> QED
    BY <1>1, <2>3 DEF Prepare, history
<1>2. CASE PrepareFails
  BY <1>2 DEF PrepareFails, history
<1>3. CASE Maintenance
  BY <1>3, IdleIs DEF Maintenance, Stop, Looked, history
<1>4. CASE Tick
  <2>1. disk' \in Documents /\ since' \in [Actions -> Age]
    BY <1>4, OlderDocumentIs, OlderIs DEF Tick
  <2>2. run' \in [Runs -> Processes]
    <3>1. run' = [r \in Runs |-> IF At(r, "idle") THEN run[r]
                                 ELSE [run[r] EXCEPT !.payload = OlderDocument(@)]]
      BY <1>4 DEF Tick
    <3>2. ASSUME NEW r \in Runs
          PROVE  [run[r] EXCEPT !.payload = OlderDocument(@)] \in Processes
      <4>1. run[r] \in Processes /\ OlderDocument(run[r].payload) \in Documents
        BY OlderDocumentIs DEF Processes
      <4> QED
        BY <4>1 DEF Processes
    <3> QED
      BY <3>1, <3>2
  <2>3. left' \in [breaks : 0..MaxBreaks, faults : 0..MaxFaults,
                   installs : 0..MaxInstalls, checks : 0..MaxChecks]
    BY <1>4, LeftIs DEF Tick
  <2> QED
    BY <1>4, <2>1, <2>2, <2>3 DEF Tick
<1>5. ASSUME NEW r \in Runs, Begin(r) PROVE TypeOK'
  <2>1. run' \in [Runs -> Processes]
    <3>1. [run[r] EXCEPT !.pc = "wait"] \in Processes
      BY DEF Processes, Steps
    <3>2. run' = [run EXCEPT ![r] = [run[r] EXCEPT !.pc = "wait"]]
      BY <1>5 DEF Begin, Enter
    <3> QED
      BY <3>1, <3>2
  <2>2. left' \in [breaks : 0..MaxBreaks, faults : 0..MaxFaults,
                   installs : 0..MaxInstalls, checks : 0..MaxChecks]
    BY <1>5, BoundsAreNatural DEF Begin
  <2> QED
    BY <1>5, <2>1, <2>2 DEF Begin, history
<1>6. ASSUME NEW r \in Runs, Abort(r) PROVE TypeOK'
  BY <1>6, LeftIs, IdleIs DEF Abort, Stop, Looked, history
<1>7. ASSUME NEW r \in Runs, Step(r) PROVE TypeOK'
  <2>0. run[r] \in Processes
    OBVIOUS
  <2>1. CASE Lock(r)
    BY <2>0, <2>1 DEF Lock, Enter, history, Processes, Steps
  <2>2. CASE CollectServices(r)
    <3>1. PICK pc \in Steps :
             run' = [run EXCEPT ![r] = [run[r] EXCEPT !.pc = pc, !.found = broken \cap Services]]
      BY <2>2 DEF CollectServices, Steps
    <3>2. [run[r] EXCEPT !.pc = pc, !.found = broken \cap Services] \in Processes
      BY <2>0 DEF Processes
    <3> QED
      BY <2>2, <3>1, <3>2 DEF CollectServices, history
  <2>3. CASE Judge(r)
    <3> DEFINE found == Collected(r)
    <3>1. found \in SUBSET Fragile /\ Payload(found) \in Documents
      BY CollectedIs, PayloadIs
    <3>2. Eligible(found) \in SUBSET Actions
      BY PlanType DEF Eligible
    <3>3. Counted(found) \in [Actions -> 0..2]
      BY CountedIs
    <3> HIDE DEF found
    <3>4. run' \in [Runs -> Processes]
      BY <2>0, <2>3, <3>1, <3>2, <3>3 DEF Judge, found, Processes, Steps
    <3> QED
      BY <2>3, <3>4 DEF Judge, Looked
  <2>4. ASSUME NEW effective \in BOOLEAN, Act(r, effective) PROVE TypeOK'
    <3>1. run' \in [Runs -> Processes]
      BY <2>0, <2>4 DEF Act, Processes, Steps
    <3>2. since' \in [Actions -> Age] /\ early' \in 0..MaxFaults + 1
      <4>1. early' \in {early, early + 1} /\ (early > MaxFaults => early' = early)
        BY <2>4, BoundsAreNatural DEF Act
      <4>2. since' = [since EXCEPT ![Current(r)] = 0] /\ 0 \in Age
        BY <2>4, BoundsAreNatural DEF Act, Age
      <4>3. since' \in [Actions -> Age]
        BY <4>2
      <4>4. early' \in 0..MaxFaults + 1
        BY <4>1, BoundsAreNatural
      <4> QED
        BY <4>3, <4>4
    <3> QED
      BY <2>4, <3>1, <3>2 DEF Act
  <2>5. CASE ActFails(r)
    BY <2>0, <2>5 DEF ActFails, history, Processes, Steps
  <2>6. CASE Receipt(r)
    <3>1. run' \in [Runs -> Processes]
      <4> DEFINE todo == run[r].todo \ {Current(r)}
      <4>1. AfterReceipt(r, todo) \in Steps
        BY DEF AfterReceipt, Steps
      <4>2. run' = [run EXCEPT ![r] = [run[r] EXCEPT !.pc = AfterReceipt(r, todo),
                       !.payload = Noted(r), !.todo = todo, !.result = "none"]]
        BY <2>6 DEF Receipt
      <4>3. [run[r] EXCEPT !.pc = AfterReceipt(r, todo), !.payload = Noted(r),
                           !.todo = todo, !.result = "none"] \in Processes
        BY <2>0, <4>1, NotedIs DEF Processes
      <4> QED
        BY <4>2, <4>3
    <3> QED
      BY <2>0, <2>6, <3>1, NotedIs DEF Receipt, Save, Processes
  <2>7. CASE PostCheck(r)
    <3>1. run' \in [Runs -> Processes]
      <4>1. PICK healthy \in BOOLEAN : run' = [run EXCEPT ![r] =
               [run[r] EXCEPT !.pc = "write", !.found = {}, !.payload =
                  IF healthy THEN [@ EXCEPT !.state = "healthy", !.failures = 0] ELSE @]]
        BY <2>7 DEF PostCheck
      <4>2. [run[r].payload EXCEPT !.state = "healthy", !.failures = 0] \in Documents
        <5>1. run[r].payload \in Documents
          BY <2>0 DEF Processes
        <5> QED
          BY <5>1, RecoveredIs
      <4>3. [run[r] EXCEPT !.pc = "write", !.found = {}, !.payload =
               IF healthy THEN [@ EXCEPT !.state = "healthy", !.failures = 0] ELSE @] \in Processes
        BY <2>0, <4>2 DEF Processes, Steps
      <4> QED
        BY <4>1, <4>3
    <3> QED
      BY <2>7, <3>1 DEF PostCheck
  <2>8. CASE PostCheckFails(r)
    BY <2>0, <2>8 DEF PostCheckFails, Enter, history, Processes, Steps
  <2>9. CASE Write(r)
    BY <2>0, <2>9, IdleIs DEF Write, Save, Stop, Processes
  <2> QED
    BY <1>7, <2>1, <2>2, <2>3, <2>4, <2>5, <2>6, <2>7, <2>8, <2>9 DEF Step
<1>8. ASSUME NEW part \in Fragile, Break(part) PROVE TypeOK'
  BY <1>8, BoundsAreNatural DEF Break, history
<1>9. CASE InstallBegins
  BY <1>9, BoundsAreNatural DEF InstallBegins, history
<1>10. CASE InstallEnds
  BY <1>10 DEF InstallEnds, history
<1>11. CASE UNCHANGED vars
  BY <1>11 DEF vars
<1> QED
  BY <1>1, <1>2, <1>3, <1>4, <1>5, <1>6, <1>7, <1>8, <1>9, <1>10, <1>11 DEF Next

\* Every variable of the health check has its type.
THEOREM TypeCorrect == Spec => []TypeOK
  BY TypeInit, TypeStep, PTL DEF Spec

-----------------------------------------------------------------------------
(* What a step makes of the process that takes it; the others it leaves. *)

SameWork(r) ==
    /\ run'[r].payload = run[r].payload /\ run'[r].todo = run[r].todo
    /\ run'[r].result = run[r].result /\ run'[r].count = run[r].count

LEMMA BeginMakes ==
    ASSUME TypeOK, NEW r \in Runs, Begin(r)
    PROVE  /\ \A o \in Runs \ {r} : run'[o] = run[o]
           /\ run'[r].pc = "wait" /\ SameWork(r)
           /\ run[r].pc \in {"idle", "enter"}
  BY DEF TypeOK, Processes, SameWork, Begin, Enter, At

LEMMA PrepareMakes ==
    ASSUME TypeOK, Prepare
    PROVE  /\ \A o \in Runs \ {Timer} : run'[o] = run[o]
           /\ run'[Timer].pc = "enter" /\ SameWork(Timer)
           /\ run[Timer].pc = "idle" /\ Timer \in Runs
  BY HealthAssumption DEF TypeOK, Processes, SameWork, Prepare, Enter, At

LEMMA LockMakes ==
    ASSUME TypeOK, NEW r \in Runs, Lock(r)
    PROVE  /\ \A o \in Runs \ {r} : run'[o] = run[o]
           /\ run'[r].pc = "services" /\ SameWork(r)
           /\ run[r].pc = "wait"
  BY DEF TypeOK, Processes, SameWork, Lock, Enter, At

LEMMA CollectMakes ==
    ASSUME TypeOK, NEW r \in Runs, CollectServices(r)
    PROVE  /\ \A o \in Runs \ {r} : run'[o] = run[o]
           /\ \/ run[r].pc = "services" /\ run'[r].pc = "facts"
              \/ run[r].pc = "recheck" /\ run'[r].pc = "refacts"
           /\ SameWork(r)
  BY DEF TypeOK, Processes, SameWork, CollectServices, At

LEMMA JudgeMakes ==
    ASSUME TypeOK, NEW r \in Runs, Judge(r)
    PROVE  LET found == Collected(r) IN
           /\ \A o \in Runs \ {r} : run'[o] = run[o]
           /\ run[r].pc = "facts"
           /\ run'[r].pc = IF Recovers(found) THEN "act" ELSE "write"
           /\ run'[r].payload = Payload(found) /\ run'[r].count = Counted(found)
           /\ run'[r].todo = IF Recovers(found) THEN Eligible(found) ELSE {}
  BY DEF TypeOK, Processes, Judge, At

LEMMA ActMakes ==
    ASSUME TypeOK, NEW r \in Runs,
           (\E effective \in BOOLEAN : Act(r, effective)) \/ ActFails(r)
    PROVE  /\ \A o \in Runs \ {r} : run'[o] = run[o]
           /\ run[r].pc = "act" /\ run'[r].pc = "receipt"
           /\ run'[r].payload = run[r].payload /\ run'[r].todo = run[r].todo
           /\ run'[r].count = run[r].count
           /\ ActFails(r) => run'[r].result = "failed"
  BY DEF TypeOK, Processes, Act, ActFails, At

LEMMA ReceiptMakes ==
    ASSUME TypeOK, NEW r \in Runs, Receipt(r)
    PROVE  /\ \A o \in Runs \ {r} : run'[o] = run[o]
           /\ run[r].pc = "receipt" /\ run'[r].pc \in {"act", "recheck", "write"}
           /\ run'[r].pc = "act" => run'[r].todo # {}
           /\ run'[r].payload = Noted(r) /\ run'[r].todo = run[r].todo \ {Current(r)}
           /\ run'[r].count = run[r].count
           /\ disk' = Noted(r) /\ streak' = run[r].count
  BY DEF TypeOK, Processes, Receipt, AfterReceipt, Save, At

LEMMA PostCheckMakes ==
    ASSUME TypeOK, NEW r \in Runs, PostCheck(r)
    PROVE  /\ \A o \in Runs \ {r} : run'[o] = run[o]
           /\ run[r].pc = "refacts" /\ run'[r].pc = "write"
           /\ \/ run'[r].payload = run[r].payload
              \/ /\ HardReasons(Collected(r)) = {}
                 /\ run'[r].payload = [run[r].payload EXCEPT !.state = "healthy", !.failures = 0]
           /\ run'[r].todo = run[r].todo /\ run'[r].count = run[r].count
  BY DEF TypeOK, Processes, PostCheck, At

LEMMA PostCheckFailsMakes ==
    ASSUME TypeOK, NEW r \in Runs, PostCheckFails(r)
    PROVE  /\ \A o \in Runs \ {r} : run'[o] = run[o]
           /\ run'[r].pc = "write" /\ SameWork(r)
           /\ run[r].pc = "recheck"
  BY DEF TypeOK, Processes, SameWork, PostCheckFails, Enter, At

LEMMA StopMakes ==
    ASSUME TypeOK, NEW r \in Runs, Stop(r)
    PROVE  /\ \A o \in Runs \ {r} : run'[o] = run[o]
           /\ run'[r] = Idle /\ run'[r].pc = "idle"
  BY DEF TypeOK, Stop, Idle

LEMMA TickMakes ==
    ASSUME TypeOK, Tick
    PROVE  /\ disk' = OlderDocument(disk)
           /\ \A r \in Runs :
                 /\ run'[r].pc = run[r].pc /\ run'[r].todo = run[r].todo
                 /\ run'[r].result = run[r].result /\ run'[r].count = run[r].count
                 /\ run'[r].payload = IF run[r].pc = "idle" THEN run[r].payload
                                      ELSE OlderDocument(run[r].payload)
  BY DEF TypeOK, Processes, Tick, At

-----------------------------------------------------------------------------
(* The locks. *)

LEMMA LockKept ==
    ASSUME LockInv, NEW r \in Runs, \A o \in Runs \ {r} : run'[o] = run[o], install' = install,
           Holds(r)' => Holds(r), Reads(r)' => Reads(r)
    PROVE  LockInv'
  BY DEF LockInv, Holds, Reads, At

LEMMA LockStep == TypeOK /\ LockInv /\ [Next]_vars => LockInv'
<1> SUFFICES ASSUME TypeOK, LockInv, [Next]_vars PROVE LockInv'
  OBVIOUS
<1>1. CASE Prepare
  BY <1>1, PrepareMakes, LockKept DEF Prepare, Holds, Reads, At
<1>2. CASE PrepareFails
  BY <1>2 DEF PrepareFails, LockInv, Holds, Reads, At
<1>3. CASE Maintenance
  BY <1>3, StopMakes, LockKept, HealthAssumption DEF Maintenance, Holds, Reads, At
<1>4. CASE Tick
  BY <1>4, TickMakes DEF Tick, LockInv, Holds, Reads, At
<1>5. ASSUME NEW r \in Runs, Begin(r) PROVE LockInv'
  <2>1. \A o \in Runs : Holds(o)' => Holds(o)
    BY <1>5, BeginMakes DEF Holds, Reads, At
  <2> QED
    BY <1>5, <2>1 DEF Begin, LockInv
<1>6. ASSUME NEW r \in Runs, Abort(r) PROVE LockInv'
  BY <1>6, StopMakes, LockKept DEF Abort, Holds, Reads, At
<1>7. ASSUME NEW r \in Runs, Step(r) PROVE LockInv'
  <2>1. CASE Lock(r)
    <3>1. \A o \in Runs \ {r} : ~Holds(o)' /\ Reads(o)' = Reads(o)
      BY <2>1, LockMakes DEF Lock, Holds, Reads, At
    <3>2. Reads(r) /\ install' = install
      BY <2>1, LockMakes DEF Lock, Reads, At
    <3> QED
      BY <3>1, <3>2 DEF LockInv
  <2>2. CASE CollectServices(r)
    BY <2>2, CollectMakes, LockKept DEF CollectServices, Holds, Reads, At
  <2>3. CASE Judge(r)
    BY <2>3, JudgeMakes, LockKept DEF Judge, Holds, Reads, At
  <2>4. CASE (\E effective \in BOOLEAN : Act(r, effective)) \/ ActFails(r)
    BY <2>4, ActMakes, LockKept DEF Act, ActFails, Holds, Reads, At
  <2>5. CASE Receipt(r)
    BY <2>5, ReceiptMakes, LockKept DEF Receipt, Holds, Reads, At
  <2>6. CASE PostCheck(r)
    BY <2>6, PostCheckMakes, LockKept DEF PostCheck, Holds, Reads, At
  <2>7. CASE PostCheckFails(r)
    BY <2>7, PostCheckFailsMakes, LockKept DEF PostCheckFails, Holds, Reads, At
  <2>8. CASE Write(r)
    BY <2>8, StopMakes, LockKept DEF Write, Holds, Reads, At
  <2> QED
    BY <1>7, <2>1, <2>2, <2>3, <2>4, <2>5, <2>6, <2>7, <2>8 DEF Step
<1>8. ASSUME NEW part \in Fragile, Break(part) PROVE LockInv'
  BY <1>8 DEF Break, LockInv, Holds, Reads, At
<1>9. CASE InstallBegins
  BY <1>9 DEF InstallBegins, LockInv, Holds, Reads, At
<1>10. CASE InstallEnds
  BY <1>10 DEF InstallEnds, LockInv, Holds, Reads, At
<1>11. CASE UNCHANGED vars
  BY <1>11 DEF vars, LockInv, Holds, Reads, At
<1> QED
  BY <1>1, <1>2, <1>3, <1>4, <1>5, <1>6, <1>7, <1>8, <1>9, <1>10, <1>11 DEF Next

-----------------------------------------------------------------------------
(* What the documents say.  The file is written by the one that holds the   *)
(* lock, so that what is true of it stays true while a check is at work.    *)

\* A finding without a hard reason is no finding.
LEMMA NothingWrong ==
    ASSUME NEW found, HardReasons(found) = {}
    PROVE  found = {}
  BY DEF HardReasons, PathFailed, HostFailed, HostParts

LEMMA RecoversSays ==
    ASSUME TypeOK, NEW found, Recovers(found)
    PROVE  /\ Failures(found) = 2 /\ SameFailure(found) /\ disk.failures # 0
           /\ Eligible(found) # {}
  BY FailuresAre DEF Recovers

\* A check that does not hold the lock relies on its own document only.
LEMMA OthersSound ==
    ASSUME LockInv, NEW r \in Runs, Holds(r), NEW o \in Runs \ {r}, run'[o] = run[o], Sound(o)
    PROVE  Sound(o)'
<1>1. run[o].pc \notin {"act", "receipt", "recheck", "refacts", "write"}
  BY DEF LockInv, Holds, Reads, At
<1> QED
  BY <1>1 DEF Sound, DocumentSound, WorkSound, StateSound, LastSound

\* And one that holds it, when neither the file nor the server's record changes.
LEMMA UntouchedSound ==
    ASSUME NEW o \in Runs, run'[o] = run[o], disk' = disk, shaken' = shaken, Sound(o)
    PROVE  Sound(o)'
  BY DEF Sound, DocumentSound, WorkSound, StateSound, LastSound

LEMMA SameWorkSound ==
    ASSUME NEW o \in Runs, SameWork(o), Sound(o), disk' = disk, shaken' = shaken,
           \/ run'[o].pc \in {"enter", "wait", "services", "facts"}
           \/ run[o].pc = "recheck" /\ run'[o].pc \in {"refacts", "write"}
    PROVE  Sound(o)'
  BY DEF SameWork, Sound, DocumentSound, WorkSound, StateSound, LastSound

LEMMA IdleSound ==
    ASSUME NEW o \in Runs, run'[o] = Idle
    PROVE  Sound(o)'
  BY NoDocumentIs DEF Idle, NoDocument, Sound, DocumentSound, WorkSound, StateSound, LastSound

LEMMA JudgeSound ==
    ASSUME TypeOK, FileInv, NEW r \in Runs, Judge(r)
    PROVE  Sound(r)'
<1> DEFINE found == Collected(r)
<1>1. /\ run'[r].pc = IF Recovers(found) THEN "act" ELSE "write"
      /\ run'[r].payload = Payload(found) /\ run'[r].count = Counted(found)
      /\ run'[r].todo = IF Recovers(found) THEN Eligible(found) ELSE {}
      /\ disk' = disk /\ shaken' = (shaken /\ found # {})
  BY JudgeMakes DEF Judge
<1>2. /\ Payload(found).state = StateOf(Failures(found))
      /\ Payload(found).failures = Failures(found)
      /\ Payload(found).evidence = Evidence(found) /\ Payload(found).last = disk.last
  BY PayloadIs, CollectedIs
<1> HIDE DEF found
<1>3. DocumentSound(r)'
  <2>1. Payload(found).state = "healthy" => Payload(found).failures = 0
    BY <1>2, FailuresAre DEF StateOf
  <2>2. \A a \in Payload(found).evidence.plan : a \in Actions /\ Counted(found)[a] > 0
    BY <1>2, CountedIs DEF Evidence
  <2> QED
    BY <1>1, <2>1, <2>2 DEF DocumentSound
<1>4. WorkSound(r)'
  <2>1. ASSUME Recovers(found)
        PROVE  /\ Eligible(found) # {} /\ disk.state # "healthy"
               /\ \A a \in Eligible(found) : Counted(found)[a] = 2 /\ disk.last[a] = AgeCap
    <3>1. SameFailure(found) /\ disk.failures # 0 /\ Eligible(found) # {}
      BY <2>1, RecoversSays
    <3>2. disk.evidence.plan = Plan(found) /\ disk.age <= Gap
      BY <3>1 DEF SameFailure, Evidence
    <3>3. \A a \in Plan(found) : a \in Actions /\ streak[a] > 0
      BY <3>2 DEF FileInv
    <3>4. \A a \in Eligible(found) : a \in Plan(found) /\ disk.last[a] >= Cooldown
      BY DEF Eligible
    <3>5. \A a \in Actions : disk.last[a] \in 0..AgeCap
      BY DEF TypeOK, Documents, Age
    <3> QED
      BY <3>1, <3>2, <3>3, <3>4, <3>5, BoundsAreNatural DEF Counted, FileInv
  <2> QED
    BY <1>1, <2>1 DEF WorkSound
<1>5. StateSound(r)'
  <2>1. Recovers(found) => Payload(found).state # "healthy"
    BY <1>2, RecoversSays DEF StateOf
  <2>2. Payload(found).state = "healthy" => found = {}
    BY <1>2, FailuresAre, NothingWrong DEF StateOf
  <2> QED
    BY <1>1, <2>1, <2>2 DEF StateSound
<1>6. LastSound(r)'
  BY <1>1, <1>2 DEF LastSound
<1> QED
  BY <1>3, <1>4, <1>5, <1>6 DEF Sound

LEMMA ReceiptSound ==
    ASSUME TypeOK, NEW r \in Runs, Receipt(r), Sound(r)
    PROVE  Sound(r)'
<1> USE ReceiptMakes, NotedIs
<1>1. DocumentSound(r)'
  BY DEF Sound, DocumentSound, StateSound
<1>2. WorkSound(r)'
  <2>1. Current(r) \in run[r].todo
    BY FirstAction DEF Sound, WorkSound, Current, TypeOK, Processes
  <2>2. \A a \in run'[r].todo : /\ a \in Actions /\ a # Current(r) /\ a \in run[r].todo
    BY DEF TypeOK, Processes
  <2>3. run[r].payload.last = disk.last /\ run[r].payload.last \in [Actions -> Age]
    BY DEF Sound, LastSound, TypeOK, Documents
  <2>4. \A a \in run'[r].todo : disk'.last[a] = disk.last[a]
    <3>1. run[r].payload \in Documents /\ disk'.last = Noted(r).last
      BY DEF TypeOK, Processes
    <3>2. \A a \in Actions \ {Current(r)} : Noted(r).last[a] = run[r].payload.last[a]
      BY <2>3
    <3> QED
      BY <2>2, <2>3, <3>1, <3>2
  <2>5. disk'.state # "healthy"
    BY DEF Sound, StateSound
  <2> QED
    BY <2>2, <2>4, <2>5 DEF Sound, WorkSound
<1>3. StateSound(r)'
  BY DEF Sound, StateSound
<1>4. LastSound(r)'
  BY DEF LastSound
<1> QED
  BY <1>1, <1>2, <1>3, <1>4 DEF Sound

LEMMA ActSound ==
    ASSUME TypeOK, NEW r \in Runs, Sound(r),
           (\E effective \in BOOLEAN : Act(r, effective)) \/ ActFails(r)
    PROVE  Sound(r)'
<1>1. disk' = disk
  BY DEF Act, ActFails
<1> QED
  BY <1>1, ActMakes DEF Sound, DocumentSound, WorkSound, StateSound, LastSound

LEMMA PostCheckSound ==
    ASSUME TypeOK, NEW r \in Runs, Sound(r), PostCheck(r)
    PROVE  Sound(r)'
<1>1. disk' = disk /\ shaken' = (shaken /\ Collected(r) # {})
  BY DEF PostCheck
<1>2. run[r].payload \in Documents
  BY DEF TypeOK, Processes
<1>3. CASE run'[r].payload = run[r].payload
  BY <1>1, <1>3, PostCheckMakes DEF Sound, DocumentSound, WorkSound, StateSound, LastSound
<1>4. CASE /\ HardReasons(Collected(r)) = {}
           /\ run'[r].payload = [run[r].payload EXCEPT !.state = "healthy", !.failures = 0]
  <2>1. ~shaken'
    BY <1>1, <1>4, NothingWrong
  <2>2. /\ run'[r].payload.failures = 0 /\ run'[r].payload.last = run[r].payload.last
        /\ run'[r].payload.evidence = run[r].payload.evidence
    BY <1>2, <1>4, RecoveredIs
  <2> QED
    BY <1>1, <2>1, <2>2, PostCheckMakes
    DEF Sound, DocumentSound, WorkSound, StateSound, LastSound
<1> QED
  BY <1>3, <1>4, PostCheckMakes

LEMMA TickSound ==
    ASSUME TypeOK, Tick, NEW o \in Runs, Sound(o)
    PROVE  Sound(o)'
<1>1. disk \in Documents /\ run[o].payload \in Documents /\ run[o].todo \subseteq Actions
  BY DEF TypeOK, Processes
<1>2. /\ disk'.state = disk.state /\ disk'.last = [a \in Actions |-> Older(disk.last[a])]
      /\ shaken' = shaken
  BY <1>1, TickMakes, OlderDocumentIs DEF Tick
<1>3. /\ run'[o].payload.state = run[o].payload.state
      /\ run'[o].payload.failures = run[o].payload.failures
      /\ run'[o].payload.evidence = run[o].payload.evidence
      /\ run[o].pc # "idle" =>
            run'[o].payload.last = [a \in Actions |-> Older(run[o].payload.last[a])]
  BY <1>1, TickMakes, OlderDocumentIs
<1>4. DocumentSound(o)' /\ StateSound(o)'
  BY <1>2, <1>3, TickMakes DEF Sound, DocumentSound, StateSound
<1>5. WorkSound(o)'
  BY <1>1, <1>2, TickMakes, OlderIs DEF Sound, WorkSound
<1>6. LastSound(o)'
  BY <1>2, <1>3, TickMakes DEF Sound, LastSound
<1> QED
  BY <1>4, <1>5, <1>6 DEF Sound

LEMMA SoundStep ==
    ASSUME TypeOK, LockInv, FileInv, [Next]_vars, \A r \in Runs : Sound(r), NEW o \in Runs
    PROVE  Sound(o)'
<1>1. CASE Prepare
  BY <1>1, PrepareMakes, UntouchedSound, SameWorkSound DEF Prepare, history
<1>2. CASE PrepareFails
  BY <1>2, UntouchedSound DEF PrepareFails, history
<1>3. CASE Maintenance
  BY <1>3, StopMakes, HealthAssumption, UntouchedSound, IdleSound DEF Maintenance, history
<1>4. CASE Tick
  BY <1>4, TickSound
<1>5. ASSUME NEW r \in Runs, Begin(r) PROVE Sound(o)'
  BY <1>5, BeginMakes, UntouchedSound, SameWorkSound DEF Begin, history
<1>6. ASSUME NEW r \in Runs, Abort(r) PROVE Sound(o)'
  BY <1>6, StopMakes, UntouchedSound, IdleSound DEF Abort, history
<1>7. ASSUME NEW r \in Runs, Step(r) PROVE Sound(o)'
  <2>1. CASE Lock(r)
    BY <2>1, LockMakes, UntouchedSound, SameWorkSound DEF Lock, history
  <2>2. CASE CollectServices(r)
    BY <2>2, CollectMakes, UntouchedSound, SameWorkSound DEF CollectServices, history
  <2>3. CASE Judge(r)
    BY <2>3, JudgeMakes, JudgeSound, OthersSound DEF Holds, Reads, At
  <2>4. CASE (\E effective \in BOOLEAN : Act(r, effective)) \/ ActFails(r)
    BY <2>4, ActMakes, ActSound, OthersSound DEF Holds, Reads, At
  <2>5. CASE Receipt(r)
    BY <2>5, ReceiptMakes, ReceiptSound, OthersSound DEF Holds, Reads, At
  <2>6. CASE PostCheck(r)
    BY <2>6, PostCheckMakes, PostCheckSound, OthersSound DEF Holds, Reads, At
  <2>7. CASE PostCheckFails(r)
    BY <2>7, PostCheckFailsMakes, UntouchedSound, SameWorkSound DEF PostCheckFails, history
  <2>8. CASE Write(r)
    BY <2>8, StopMakes, IdleSound, OthersSound DEF Write, Holds, Reads, At
  <2> QED
    BY <1>7, <2>1, <2>2, <2>3, <2>4, <2>5, <2>6, <2>7, <2>8 DEF Step
<1>8. ASSUME NEW part \in Fragile, Break(part) PROVE Sound(o)'
  BY <1>8, UntouchedSound DEF Break, history
<1>9. CASE InstallBegins
  BY <1>9, UntouchedSound DEF InstallBegins, history
<1>10. CASE InstallEnds
  BY <1>10, UntouchedSound DEF InstallEnds, history
<1>11. CASE UNCHANGED vars
  BY <1>11, UntouchedSound DEF vars
<1> QED
  BY <1>1, <1>2, <1>3, <1>4, <1>5, <1>6, <1>7, <1>8, <1>9, <1>10, <1>11 DEF Next

\* The file changes only when a check writes it or time passes.
LEMMA FileStep ==
    ASSUME TypeOK, FileInv, [Next]_vars, \A r \in Runs : Sound(r)
    PROVE  FileInv'
<1>1. CASE Prepare \/ PrepareFails \/ Maintenance
  BY <1>1 DEF Prepare, PrepareFails, Maintenance, history, FileInv, HealthyIsProven
<1>2. CASE Tick
  <2>1. disk \in Documents /\ streak' = streak /\ shaken' = shaken
    BY <1>2 DEF TypeOK, Tick
  <2>2. /\ disk'.state = disk.state /\ disk'.failures = disk.failures
        /\ disk'.evidence = disk.evidence
    BY <1>2, <2>1, TickMakes, OlderDocumentIs
  <2> QED
    BY <2>1, <2>2 DEF FileInv, HealthyIsProven
<1>3. ASSUME NEW r \in Runs, Begin(r) \/ Abort(r) PROVE FileInv'
  BY <1>3 DEF Begin, Abort, history, FileInv, HealthyIsProven
<1>4. ASSUME NEW r \in Runs, Step(r) PROVE FileInv'
  <2>1. CASE Lock(r) \/ CollectServices(r) \/ ActFails(r) \/ PostCheckFails(r)
    BY <2>1 DEF Lock, CollectServices, ActFails, PostCheckFails, history, FileInv, HealthyIsProven
  <2>2. CASE Judge(r) \/ PostCheck(r)
    BY <2>2 DEF Judge, PostCheck, FileInv, HealthyIsProven
  <2>3. CASE \E effective \in BOOLEAN : Act(r, effective)
    <3>1. disk' = disk /\ streak' = streak /\ disk.state # "healthy"
      BY <2>3, ActMakes DEF Act, Sound, WorkSound
    <3> QED
      BY <3>1 DEF FileInv, HealthyIsProven
  <2>4. CASE Receipt(r)
    <3>1. disk' = Noted(r) /\ streak' = run[r].count /\ run[r].pc = "receipt"
      BY <2>4, ReceiptMakes
    <3>2. run[r].payload.state # "healthy"
      BY <3>1 DEF Sound, StateSound
    <3>3. disk'.evidence = run[r].payload.evidence /\ disk'.state # "healthy"
      BY <3>1, <3>2, NotedIs
    <3> QED
      BY <3>1, <3>3 DEF FileInv, HealthyIsProven, Sound, DocumentSound
  <2>5. CASE Write(r)
    <3>1. /\ disk' = run[r].payload /\ streak' = run[r].count /\ shaken' = shaken
          /\ run[r].pc = "write"
      BY <2>5 DEF Write, Save, At
    <3> QED
      BY <3>1 DEF FileInv, HealthyIsProven, Sound, DocumentSound, StateSound
  <2> QED
    BY <1>4, <2>1, <2>2, <2>3, <2>4, <2>5 DEF Step
<1>5. ASSUME NEW part \in Fragile, Break(part) PROVE FileInv'
  BY <1>5 DEF Break, history, FileInv, HealthyIsProven
<1>6. CASE InstallBegins \/ InstallEnds
  BY <1>6 DEF InstallBegins, InstallEnds, history, FileInv, HealthyIsProven
<1>7. CASE UNCHANGED vars
  BY <1>7 DEF vars, FileInv, HealthyIsProven
<1> QED
  BY <1>1, <1>2, <1>3, <1>4, <1>5, <1>6, <1>7 DEF Next

-----------------------------------------------------------------------------
(* The account of the lost receipts. *)

LEMMA LostIsFinite == IsFiniteSet(Lost) /\ Cardinality(Lost) \in Nat
  BY ActionsAreFinite, FS_Subset, FS_CardinalityType DEF Lost

\* Nothing more is lost and no action repeated.
LEMMA NothingLost ==
    ASSUME TypeOK, BudgetInv, TypeOK', Lost' \subseteq Lost, early' = early,
           left'.faults <= left.faults
    PROVE  BudgetInv'
<1>1. Cardinality(Lost') <= Cardinality(Lost) /\ Cardinality(Lost') \in Nat /\ Cardinality(Lost) \in Nat
  BY LostIsFinite, FS_Subset, FS_CardinalityType
<1> QED
  BY <1>1, LeftIs, BoundsAreNatural DEF BudgetInv, TypeOK

\* One receipt is lost, at the cost of one abort.
LEMMA OneLost ==
    ASSUME TypeOK, BudgetInv, TypeOK', NEW a, Lost' \subseteq Lost \cup {a}, early' = early,
           left'.faults = left.faults - 1
    PROVE  BudgetInv'
<1>1. IsFiniteSet(Lost \cup {a}) /\ Cardinality(Lost \cup {a}) <= Cardinality(Lost) + 1
  <2>1. /\ IsFiniteSet(Lost \cup {a})
        /\ Cardinality(Lost \cup {a}) =
             IF a \in Lost THEN Cardinality(Lost) ELSE Cardinality(Lost) + 1
    BY LostIsFinite, FS_AddElement
  <2> QED
    BY <2>1, LostIsFinite
<1>2. Cardinality(Lost') <= Cardinality(Lost \cup {a}) /\ Cardinality(Lost') \in Nat
      /\ Cardinality(Lost \cup {a}) \in Nat /\ Cardinality(Lost) \in Nat
  BY <1>1, LostIsFinite, FS_Subset, FS_CardinalityType
<1> QED
  BY <1>1, <1>2, BoundsAreNatural DEF BudgetInv, TypeOK

\* An action whose receipt was lost is repeated: that one is settled.
LEMMA OneSettled ==
    ASSUME TypeOK, BudgetInv, TypeOK', NEW a \in Lost, Lost' \subseteq Lost \ {a},
           early' = early + 1, left'.faults = left.faults
    PROVE  BudgetInv'
<1>1. IsFiniteSet(Lost \ {a}) /\ Cardinality(Lost \ {a}) = Cardinality(Lost) - 1
  BY LostIsFinite, FS_RemoveElement
<1>2. Cardinality(Lost') <= Cardinality(Lost \ {a}) /\ Cardinality(Lost') \in Nat
      /\ Cardinality(Lost) \in Nat
  BY <1>1, LostIsFinite, FS_Subset, FS_CardinalityType
<1> QED
  BY <1>1, <1>2, BoundsAreNatural DEF BudgetInv, TypeOK

\* A step that neither acts nor writes loses nothing while it keeps the receipts due.
LEMMA SameLost ==
    ASSUME disk'.last = disk.last, since' = since,
           \A r \in Runs : Succeeded(r) =>
              Succeeded(r)' /\ run'[r].todo = run[r].todo
    PROVE  Lost' \subseteq Lost
<1>1. \A r \in Runs : Succeeded(r) => Succeeded(r)' /\ Current(r)' = Current(r)
  BY DEF Current
<1> QED
  BY <1>1 DEF Lost

LEMMA AbortBudget ==
    ASSUME TypeOK, TypeOK', LockInv, BudgetInv, NEW r \in Runs, Abort(r)
    PROVE  BudgetInv'
<1>1. /\ disk' = disk /\ since' = since /\ early' = early /\ left'.faults = left.faults - 1
      /\ \A o \in Runs \ {r} : run'[o] = run[o]
  BY StopMakes, LeftIs DEF Abort, history
<1>2. Lost' \subseteq Lost \cup {Current(r)}
  <2>1. \A o \in Runs \ {r} : Succeeded(o) => Succeeded(o)' /\ Current(o)' = Current(o)
    BY <1>1 DEF Succeeded, At, Current
  <2> QED
    BY <1>1, <2>1 DEF Lost
<1> QED
  BY <1>1, <1>2, OneLost

LEMMA ActBudget ==
    ASSUME TypeOK, TypeOK', LockInv, BudgetInv, NEW r \in Runs, Sound(r),
           NEW effective \in BOOLEAN, Act(r, effective)
    PROVE  BudgetInv'
<1> DEFINE a == Current(r)
<1>1. /\ disk' = disk /\ left' = left /\ since' = [since EXCEPT ![a] = 0]
      /\ early' = IF since[a] < Cooldown /\ early <= MaxFaults THEN early + 1 ELSE early
  BY DEF Act
<1>2. a \in run[r].todo /\ a \in Actions /\ disk.last[a] = AgeCap
  BY FirstAction, ActMakes DEF Sound, WorkSound, Current, TypeOK, Processes
<1>3. Succeeded(r)' /\ Current(r)' = a
  BY ActMakes DEF Act, Succeeded, At, Current, TypeOK, Processes
<1>4. \A o \in Runs : ~Succeeded(o)
  BY ActMakes DEF LockInv, Holds, Reads, Succeeded, At
<1>5. Lost' \subseteq Lost \ {a}
  <2>1. a \notin Lost'
    BY <1>3 DEF Lost
  <2>2. ASSUME NEW b \in Lost', b # a
        PROVE  b \in Lost
    <3>1. b \in Actions /\ disk.last[b] > since'[b] /\ since'[b] = since[b]
      BY <1>1, <2>2 DEF Lost, TypeOK
    <3> QED
      BY <1>4, <3>1 DEF Lost
  <2> QED
    BY <2>1, <2>2
<1>6. CASE early' = early
  BY <1>1, <1>5, <1>6, NothingLost, LeftIs
<1>7. CASE early' = early + 1 /\ since[a] < Cooldown
  <2>1. a \in Lost
    BY <1>2, <1>4, <1>7, BoundsAreNatural DEF Lost
  <2> QED
    BY <1>1, <1>5, <1>7, <2>1, OneSettled
<1> QED
  BY <1>1, <1>6, <1>7

LEMMA ReceiptBudget ==
    ASSUME TypeOK, TypeOK', LockInv, BudgetInv, NEW r \in Runs, Sound(r), Receipt(r)
    PROVE  BudgetInv'
<1> DEFINE a == Current(r)
<1>1. /\ since' = since /\ early' = early /\ left' = left
      /\ \A o \in Runs \ {r} : run'[o] = run[o] /\ ~Succeeded(o)
  BY ReceiptMakes DEF Receipt, LockInv, Holds, Reads, Succeeded, At
<1>2. /\ run[r].payload.last = disk.last /\ disk.last \in [Actions -> Age]
      /\ a \in Actions
  <2>1. disk.last \in [Actions -> Age]
    BY DEF TypeOK, Documents
  <2>2. run[r].todo # {} /\ run[r].payload.last = disk.last
    BY ReceiptMakes DEF Sound, LastSound, WorkSound
  <2>3. run[r].todo \in SUBSET Actions
    BY DEF TypeOK, Processes
  <2>4. a \in Actions
    BY <2>2, <2>3, FirstAction DEF Current
  <2> QED
    BY <2>1, <2>2, <2>4
<1>3. disk'.last = IF run[r].result = "ok" THEN [disk.last EXCEPT ![a] = 0] ELSE disk.last
  BY <1>2, ReceiptMakes, NotedIs
<1>4. since[a] \in Nat
  BY <1>2, BoundsAreNatural DEF TypeOK, Age
<1>5. CASE run[r].result = "ok"
  <2>1. disk'.last = [disk.last EXCEPT ![a] = 0]
    BY <1>3, <1>5
  <2>2. \A o \in Runs : Succeeded(o) => Current(o) = a
    BY <1>1
  <2>3. ASSUME NEW b \in Lost'
        PROVE  b \in Lost
    <3>1. b \in Actions /\ disk'.last[b] > since[b]
      BY <1>1, <2>3 DEF Lost
    <3>2. b # a
      BY <1>2, <1>4, <2>1, <3>1
    <3>3. disk.last[b] > since[b]
      BY <1>2, <2>1, <3>1, <3>2
    <3> QED
      BY <2>2, <3>1, <3>2, <3>3 DEF Lost
  <2> QED
    BY <1>1, <2>3, NothingLost, LeftIs
<1>6. CASE run[r].result # "ok"
  <2>1. \A o \in Runs : ~Succeeded(o)
    BY <1>1, <1>6 DEF Succeeded
  <2>2. Lost' \subseteq Lost
    BY <1>1, <1>3, <1>6, <2>1 DEF Lost
  <2> QED
    BY <1>1, <2>2, NothingLost, LeftIs
<1> QED
  BY <1>5, <1>6

LEMMA TickBudget ==
    ASSUME TypeOK, TypeOK', BudgetInv, Tick
    PROVE  BudgetInv'
<1>1. disk.last \in [Actions -> Age] /\ since \in [Actions -> Age] /\ disk \in Documents
  BY DEF TypeOK, Documents
<1>2. /\ disk'.last = [a \in Actions |-> Older(disk.last[a])]
      /\ since' = [a \in Actions |-> Older(since[a])]
      /\ early' = early /\ left'.faults <= left.faults
  BY <1>1, TickMakes, OlderDocumentIs, LeftIs DEF Tick
<1>3. \A r \in Runs : Succeeded(r) => Succeeded(r)' /\ Current(r)' = Current(r)
  BY TickMakes DEF Succeeded, At, Current
<1>4. \A a \in Actions : disk'.last[a] > since'[a] => disk.last[a] > since[a]
  BY <1>1, <1>2, OlderIs
<1>5. Lost' \subseteq Lost
  BY <1>3, <1>4 DEF Lost
<1> QED
  BY <1>2, <1>5, NothingLost

\* A step of a process with no receipt due, which leaves the cooldowns alone.
LEMMA IdleBudget ==
    ASSUME TypeOK, TypeOK', BudgetInv, NEW r \in Runs, run[r].pc # "receipt",
           \A o \in Runs \ {r} : run'[o] = run[o],
           disk'.last = disk.last, since' = since, early' = early, left'.faults = left.faults
    PROVE  BudgetInv'
<1>1. Lost' \subseteq Lost
  BY SameLost DEF Succeeded, At
<1> QED
  BY <1>1, NothingLost, LeftIs

LEMMA RestBudget ==
    ASSUME TypeOK, TypeOK', BudgetInv, UNCHANGED <<run, disk, since, early>>,
           left'.faults = left.faults
    PROVE  BudgetInv'
<1>1. Lost' \subseteq Lost
  BY DEF Lost, Succeeded, At, Current
<1> QED
  BY <1>1, NothingLost, LeftIs

LEMMA BudgetStep == IInv /\ [Next]_vars /\ TypeOK' => BudgetInv'
<1> SUFFICES ASSUME IInv, [Next]_vars, TypeOK' PROVE BudgetInv'
  OBVIOUS
<1>0. TypeOK /\ LockInv /\ BudgetInv /\ \A r \in Runs : Sound(r)
  BY DEF IInv
<1>1. CASE Prepare
  BY <1>0, <1>1, PrepareMakes, IdleBudget DEF Prepare, history
<1>2. CASE PrepareFails
  BY <1>0, <1>2, RestBudget DEF PrepareFails, history
<1>3. CASE Maintenance
  BY <1>0, <1>3, StopMakes, HealthAssumption, IdleBudget DEF Maintenance, history, At
<1>4. CASE Tick
  BY <1>0, <1>4, TickBudget
<1>5. ASSUME NEW r \in Runs, Begin(r) PROVE BudgetInv'
  <2>1. left'.faults = left.faults
    BY <1>0, <1>5 DEF Begin, TypeOK
  <2> QED
    BY <1>0, <1>5, <2>1, BeginMakes, IdleBudget DEF Begin, history
<1>6. ASSUME NEW r \in Runs, Abort(r) PROVE BudgetInv'
  BY <1>0, <1>6, AbortBudget
<1>7. ASSUME NEW r \in Runs, Step(r) PROVE BudgetInv'
  <2>1. CASE Lock(r)
    BY <1>0, <2>1, LockMakes, IdleBudget DEF Lock, history
  <2>2. CASE CollectServices(r)
    BY <1>0, <2>2, CollectMakes, IdleBudget DEF CollectServices, history
  <2>3. CASE Judge(r)
    BY <1>0, <2>3, JudgeMakes, IdleBudget DEF Judge
  <2>4. ASSUME NEW effective \in BOOLEAN, Act(r, effective) PROVE BudgetInv'
    BY <1>0, <2>4, ActBudget
  <2>5. CASE ActFails(r)
    BY <1>0, <2>5, ActMakes, IdleBudget DEF ActFails, history
  <2>6. CASE Receipt(r)
    BY <1>0, <2>6, ReceiptBudget
  <2>7. CASE PostCheck(r)
    BY <1>0, <2>7, PostCheckMakes, IdleBudget DEF PostCheck
  <2>8. CASE PostCheckFails(r)
    BY <1>0, <2>8, PostCheckFailsMakes, IdleBudget DEF PostCheckFails, history
  <2>9. CASE Write(r)
    <3>1. run[r].pc = "write" /\ disk'.last = disk.last
      BY <1>0, <2>9 DEF Write, Save, At, Sound, LastSound
    <3> QED
      BY <1>0, <2>9, <3>1, StopMakes, IdleBudget DEF Write
  <2> QED
    BY <1>7, <2>1, <2>2, <2>3, <2>4, <2>5, <2>6, <2>7, <2>8, <2>9 DEF Step
<1>8. ASSUME NEW part \in Fragile, Break(part) PROVE BudgetInv'
  <2>1. left'.faults = left.faults
    BY <1>0, <1>8 DEF Break, TypeOK
  <2> QED
    BY <1>0, <1>8, <2>1, RestBudget DEF Break, history
<1>9. CASE InstallBegins
  <2>1. left'.faults = left.faults
    BY <1>0, <1>9 DEF InstallBegins, TypeOK
  <2> QED
    BY <1>0, <1>9, <2>1, RestBudget DEF InstallBegins, history
<1>10. CASE InstallEnds
  BY <1>0, <1>10, RestBudget DEF InstallEnds, history
<1>11. CASE UNCHANGED vars
  BY <1>0, <1>11, RestBudget DEF vars
<1> QED
  BY <1>1, <1>2, <1>3, <1>4, <1>5, <1>6, <1>7, <1>8, <1>9, <1>10, <1>11 DEF Next

-----------------------------------------------------------------------------
(* The theorems. *)

LEMMA IInvInit == Init => IInv
<1> SUFFICES ASSUME Init PROVE IInv
  OBVIOUS
<1>1. TypeOK
  BY TypeInit
<1>2. \A r \in Runs : run[r] = Idle
  BY DEF Init
<1>3. LockInv
  BY <1>2 DEF Init, LockInv, Holds, Reads, At, Idle
<1>4. FileInv
  BY NoDocumentIs DEF Init, FileInv, NoDocument, HealthyIsProven
<1>5. \A r \in Runs : Sound(r)
  BY <1>2, NoDocumentIs
  DEF Idle, NoDocument, Sound, DocumentSound, WorkSound, StateSound, LastSound
<1>6. BudgetInv
  <2>1. \A a \in Actions : disk.last[a] = since[a] /\ since[a] = AgeCap
    BY DEF Init, NoDocument
  <2>2. Lost = {}
    BY <2>1, BoundsAreNatural DEF Lost
  <2>3. early = 0 /\ left.faults = MaxFaults
    BY DEF Init
  <2> QED
    BY <2>2, <2>3, FS_EmptySet, BoundsAreNatural DEF BudgetInv
<1> QED
  BY <1>1, <1>3, <1>4, <1>5, <1>6 DEF IInv

LEMMA IInvStep == IInv /\ [Next]_vars => IInv'
<1> SUFFICES ASSUME IInv, [Next]_vars PROVE IInv'
  OBVIOUS
<1>1. TypeOK'
  BY TypeStep DEF IInv
<1>2. LockInv'
  BY LockStep DEF IInv
<1>3. FileInv'
  BY FileStep DEF IInv
<1>4. (\A r \in Runs : Sound(r))'
  BY SoundStep DEF IInv
<1>5. BudgetInv'
  BY <1>1, BudgetStep
<1> QED
  BY <1>1, <1>2, <1>3, <1>4, <1>5 DEF IInv

LEMMA IInvHolds == Spec => []IInv
  BY IInvInit, IInvStep, PTL DEF Spec

\* Of the checks the timer and operators start, one at most is between the two
\* locks and its end, and none is while an installation holds the install lock.
THEOREM ChecksExclude == Spec => []LockInv
<1>1. IInv => LockInv
  BY DEF IInv
<1> QED
  BY <1>1, IInvHolds, PTL

\* Whatever ends a check, each abort costs one early repetition at most: the
\* receipts keep the cooldown of every other action.
THEOREM CooldownKept == Spec => []CooldownSurvives
<1>1. IInv => CooldownSurvives
  BY LostIsFinite, LeftIs, BoundsAreNatural DEF IInv, BudgetInv, CooldownSurvives, TypeOK
<1> QED
  BY <1>1, IInvHolds, PTL

\* The file says `healthy' only when nothing was found wrong since recovery acted.
THEOREM HealthyIsEarned == Spec => []HealthyIsProven
<1>1. IInv => HealthyIsProven
  BY DEF IInv, FileInv
<1> QED
  BY <1>1, IInvHolds, PTL

\* Recovery acts only on what two observations on record, not too far apart, ask for.
THEOREM ActsOnTwoObservations == Spec => ActsOnRepeatedFailure
<1> DEFINE Twice == \A r \in Runs : At(r, "act") /\ run'[r].pc = "receipt"
                                  => run[r].count[Current(r)] = 2
<1>1. IInv /\ [Next]_vars => [Twice]_vars
  <2> SUFFICES ASSUME IInv, NEW r \in Runs, At(r, "act")
               PROVE  run[r].count[Current(r)] = 2
    OBVIOUS
  <2>1. run[r].todo # {} /\ run[r].todo \in SUBSET Actions
        /\ \A a \in run[r].todo : run[r].count[a] = 2
    BY DEF IInv, Sound, WorkSound, TypeOK, Processes, At
  <2> QED
    BY <2>1, FirstAction DEF Current
<1> HIDE DEF Twice
<1>2. Spec => [][Twice]_vars
  BY <1>1, IInvHolds, PTL DEF Spec
<1> QED
  BY <1>2 DEF Twice, ActsOnRepeatedFailure
=============================================================================
