---------------------------- MODULE HealthRecovery ----------------------------
(***************************************************************************)
(* The health check of one server and the bounded recovery it may start    *)
(* (server_lifecycle.health): every two minutes from vpn-stack-health.timer *)
(* and at any time from the command line.  Both serialise on one lock and  *)
(* share one state file; an installation keeps them out.                   *)
(*                                                                         *)
(* What can be wrong with a server is a set of parts.  A part is named for *)
(* what recovery does about it, so a service stands for its restart.  Time *)
(* is kept as ages, counted in periods of the timer and cut off at AgeCap. *)
(***************************************************************************)
EXTENDS Integers, Sequences, FiniteSets, Functions

CONSTANTS
    Runs,           \* the unit's process and those of operators
    Timer,          \* the one the timer starts
    ServiceOrder,   \* the required services, in the order they are restarted
    Tunnel, Router, \* two of them: wg-quick and sing-box
    Fragile,        \* the parts that may break in an instance
    Gap,            \* HEALTH_CONFIRMATION_MAX_GAP_SECONDS
    Cooldown,       \* the 900 s between two successes of one action
    MaxBreaks, MaxFaults, MaxInstalls, MaxChecks \* bounds on the environment

Services == Range(ServiceOrder)
\* The settings recovery can put back, in the order of their priority.
SettingOrder == <<"policy", "qdisc", "sysctl", "bypass">>
Settings == Range(SettingOrder)
\* Parts of the server path without an action of their own: the release has
\* drifted, the router's path fails, the path beside it fails, anything else.
PathOnly == {"drift", "probe", "direct", "other"}
\* disk or memory (which fail the path too) and the root file system
HostParts == {"disk", "root"}
Parts == Services \cup Settings \cup PathOnly \cup HostParts
Actions == Services \cup Settings

ASSUME HealthAssumption ==
    /\ Timer \in Runs
    /\ ServiceOrder \in Seq(Services) /\ {Tunnel, Router} \subseteq Services
    /\ Fragile \subseteq Parts
    /\ Gap \in Nat \ {0} /\ Cooldown \in Nat /\ Cooldown > Gap
    /\ {MaxBreaks, MaxFaults, MaxInstalls, MaxChecks} \subseteq Nat

VARIABLES
    broken,   \* the parts that are wrong now
    install,  \* an installation holds the install lock
    due,      \* the unit has not yet looked in this period of the timer
    run,      \* the processes
    disk,     \* health-state.json
    left,     \* what the environment may still do
    \* history
    since,    \* periods since each action last succeeded
    streak,   \* how many recorded observations in a row asked for it, up to two
    early,    \* how often an action succeeded again inside its cooldown
    shaken    \* something was done and nothing has been found in order since

vars == <<broken, install, due, run, disk, left, since, streak, early, shaken>>

AgeCap == Cooldown
Age == 0..AgeCap
Older(age) == IF age < AgeCap THEN age + 1 ELSE age

-----------------------------------------------------------------------------
(* The verdicts and the plan: functions of the parts an observation found. *)

PathFailed(found) == found \ {"root"} # {}
HostFailed(found) == found \cap HostParts # {}
HardReasons(found) == (IF PathFailed(found) THEN {"server_path"} ELSE {})
                      \cup (IF HostFailed(found) THEN {"host_integrity"} ELSE {})

\* The first of some actions, in the order in which recovery takes them.
First(order, actions) ==
    LET places == {i \in DOMAIN order : order[i] \in actions}
    IN order[CHOOSE i \in places : \A j \in places : i <= j]
ActionOrder == ServiceOrder \o SettingOrder
\* What an observation asks for: all services that are down; else one setting, but
\* only of an unchanged release; else the router when only the path through it fails.
Plan(found) ==
    IF found \cap Services # {} THEN found \cap Services
    ELSE IF found \cap Settings # {} /\ "drift" \notin found
    THEN {First(SettingOrder, found \cap Settings)}
    ELSE IF "probe" \in found /\ "direct" \notin found THEN {Router} ELSE {}
Evidence(found) ==
    [plan |-> Plan(found),
     rest |-> found \cap {"probe", "direct", "policy", "qdisc", "sysctl"}]
Repairs(action) == {action} \cup (IF action = Router THEN {"probe"} ELSE {})

-----------------------------------------------------------------------------
NoEvidence == [plan |-> {}, rest |-> {}]
Evidences == {Evidence(found) : found \in SUBSET Fragile} \cup {NoEvidence}
\* `healthy' stands for `degraded' too: no decision tells the two apart.
Documents == [state : {"healthy", "suspect", "failed", "recovering"},
              failures : 0..2, hard : SUBSET {"server_path", "host_integrity"},
              evidence : Evidences, last : [Actions -> Age], age : Age]
NoDocument == [state |-> "healthy", failures |-> 0, hard |-> {}, evidence |-> NoEvidence,
               last |-> [a \in Actions |-> AgeCap], age |-> AgeCap]

Idle == [pc |-> "idle", found |-> {}, payload |-> NoDocument, todo |-> {},
         result |-> "none", succeeded |-> FALSE, count |-> [a \in Actions |-> 0]]
Steps == {"idle", "enter", "wait", "services", "facts", "act", "receipt",
          "recheck", "refacts", "write"}

Init ==
    /\ broken = {} /\ install = FALSE /\ due = TRUE
    /\ run = [r \in Runs |-> Idle]
    /\ disk = NoDocument
    /\ left = [breaks |-> MaxBreaks, faults |-> MaxFaults, installs |-> MaxInstalls,
               checks |-> MaxChecks]
    /\ since = [a \in Actions |-> AgeCap] /\ streak = [a \in Actions |-> 0]
    /\ early = 0 /\ shaken = FALSE

history == <<since, streak, early, shaken>>
At(r, pc) == run[r].pc = pc
Reads(r) == ~At(r, "idle") /\ ~At(r, "enter")            \* holds the install lock
Holds(r) == Reads(r) /\ ~At(r, "wait")                   \* holds LOCK_PATH
Enter(r, pc) == run' = [run EXCEPT ![r].pc = pc]
Stop(r) == run' = [run EXCEPT ![r] = Idle]
\* The unit has ended or looked: its next start is the timer's.
Looked(r) == due' = (due /\ r # Timer)

-----------------------------------------------------------------------------
(* ExecStartPre of the unit: network-apply, under no lock.  It puts the     *)
(* qdisc and the policy routes back; the routes need the tunnel's device.   *)

Prepare ==
    /\ due /\ At(Timer, "idle")
    /\ Tunnel \notin broken
    /\ broken' = broken \ {"qdisc", "policy"}
    /\ Enter(Timer, "enter")
    /\ UNCHANGED <<install, due, disk, left, history>>
\* It ends with an error, and systemd does not run the health check at all.
PrepareFails ==
    /\ due /\ At(Timer, "idle")
    /\ Tunnel \in broken
    /\ broken' = broken \ {"qdisc"}
    /\ due' = FALSE
    /\ UNCHANGED <<install, run, disk, left, history>>

\* A check from the command line has no ExecStartPre.
Begin(r) ==
    /\ ~install
    /\ \/ r = Timer /\ At(r, "enter") /\ UNCHANGED left
       \/ r # Timer /\ At(r, "idle") /\ left.checks > 0
          /\ left' = [left EXCEPT !.checks = @ - 1]
    /\ Enter(r, "wait")
    /\ UNCHANGED <<broken, install, due, disk, history>>
\* acquire_install_read_lock() is None: `maintenance' is answered, not written.
Maintenance ==
    /\ At(Timer, "enter") /\ install
    /\ Stop(Timer) /\ Looked(Timer)
    /\ UNCHANGED <<broken, install, disk, left, history>>

Lock(r) ==
    /\ At(r, "wait") /\ \A other \in Runs : ~Holds(other)
    /\ Enter(r, "services")
    /\ UNCHANGED <<broken, install, due, disk, left, history>>

\* collect_runtime_facts asks for the services first ...
CollectServices(r) ==
    /\ \/ At(r, "services") /\ run' = [run EXCEPT ![r].pc = "facts", ![r].found = broken \cap Services]
       \/ At(r, "recheck") /\ run' = [run EXCEPT ![r].pc = "refacts", ![r].found = broken \cap Services]
    /\ UNCHANGED <<broken, install, due, disk, left, history>>
\* ... and for the probes and the settings some seconds later.
Collected(r) == run[r].found \cup (broken \ Services)

\* Mutant: the same verdict is taken for the same failure.
SameReasons(found) ==
    HardReasons(found) # {} /\ HardReasons(found) = disk.hard /\ disk.age <= Gap
\* Mutant: a document as old as the timer's period does not count.
WithinPeriod(found) ==
    /\ HardReasons(found) # {} /\ HardReasons(found) = disk.hard
    /\ Evidence(found) = disk.evidence
    /\ disk.age < Gap
SameFailure(found) ==
    /\ HardReasons(found) # {} /\ HardReasons(found) = disk.hard
    /\ Evidence(found) = disk.evidence
    /\ disk.age <= Gap
Failures(found) ==
    IF HardReasons(found) = {} THEN 0
    ELSE IF SameFailure(found) THEN IF disk.failures = 2 THEN 2 ELSE disk.failures + 1
    ELSE 1
StateOf(failures) == CASE failures = 0 -> "healthy" [] failures = 1 -> "suspect" [] OTHER -> "failed"
Payload(found) ==
    [state |-> StateOf(Failures(found)), failures |-> Failures(found),
     hard |-> HardReasons(found), evidence |-> Evidence(found), last |-> disk.last, age |-> 0]
Eligible(found) == {a \in Plan(found) : disk.last[a] >= Cooldown}
Recovers(found) == /\ PathFailed(found) /\ ~HostFailed(found)
                   /\ Failures(found) >= 2 /\ Eligible(found) # {}

\* history: the row with this observation; a gap or another finding breaks it,
\* and it counts for later ones once it has been written.
Counted(found) == [a \in Actions |->
    IF a \notin Plan(found) THEN 0
    ELSE IF streak[a] > 0 /\ disk.age <= Gap THEN 2 ELSE 1]

Judge(r) ==
    /\ At(r, "facts")
    /\ LET found == Collected(r) IN
       /\ run' = [run EXCEPT ![r].pc = IF Recovers(found) THEN "act" ELSE "write",
                             ![r].found = {}, ![r].payload = Payload(found),
                             ![r].todo = IF Recovers(found) THEN Eligible(found) ELSE {},
                             ![r].count = Counted(found)]
       /\ shaken' = (shaken /\ found # {})
    /\ Looked(r)
    /\ UNCHANGED <<broken, install, disk, left, since, streak, early>>

-----------------------------------------------------------------------------
(* recover(): one action after the other, each followed by its receipt.    *)

Current(r) == First(ActionOrder, run[r].todo)
Act(r, effective) ==
    /\ At(r, "act")
    /\ LET a == Current(r) IN
       /\ broken' = IF effective THEN broken \ Repairs(a) ELSE broken
       /\ run' = [run EXCEPT ![r].pc = "receipt", ![r].result = "ok", ![r].succeeded = TRUE]
       /\ since' = [since EXCEPT ![a] = 0]
       /\ early' = IF since[a] < Cooldown /\ early <= MaxFaults THEN early + 1 ELSE early
    /\ shaken' = TRUE
    /\ UNCHANGED <<install, due, disk, left, streak>>
ActFails(r) ==
    /\ At(r, "act")
    /\ run' = [run EXCEPT ![r].pc = "receipt", ![r].result = "failed"]
    /\ UNCHANGED <<broken, install, due, disk, left, history>>

\* _record_recovery_action: a failed action is noted but starts no cooldown.
Noted(r) ==
    IF run[r].result = "ok"
    THEN [run[r].payload EXCEPT !.state = "recovering", !.last[Current(r)] = 0]
    ELSE run[r].payload
AfterReceipt(r, todo) ==
    IF todo # {} THEN "act" ELSE IF run[r].succeeded THEN "recheck" ELSE "write"
Save(r, document) ==
    /\ disk' = document
    /\ streak' = run[r].count
\* Mutant: the receipts are left to the last write.
ReceiptLater(r) ==
    /\ At(r, "receipt")
    /\ LET todo == run[r].todo \ {Current(r)} IN
       run' = [run EXCEPT ![r].pc = AfterReceipt(r, todo), ![r].payload = Noted(r),
                          ![r].todo = todo, ![r].result = "none"]
    /\ UNCHANGED <<broken, install, due, disk, left, history>>
Receipt(r) ==
    /\ At(r, "receipt")
    /\ LET todo == run[r].todo \ {Current(r)} IN
       run' = [run EXCEPT ![r].pc = AfterReceipt(r, todo), ![r].payload = Noted(r),
                          ![r].todo = todo, ![r].result = "none"]
    /\ Save(r, Noted(r))
    /\ UNCHANGED <<broken, install, due, left, since, early, shaken>>

\* Mutant: the second collection need only have come about.
AnyPostCheck(r) ==
    /\ At(r, "refacts")
    /\ run' = [run EXCEPT ![r].pc = "write", ![r].found = {},
           ![r].payload = IF @.age <= Gap THEN [@ EXCEPT !.state = "healthy", !.failures = 0] ELSE @]
    /\ shaken' = (shaken /\ Collected(r) # {})
    /\ UNCHANGED <<broken, install, due, disk, left, since, streak, early>>
\* _post_recovery_check: only a fresh and complete answer ends the failure.
PostCheck(r) ==
    /\ At(r, "refacts")
    /\ LET found == Collected(r)
           verified == HardReasons(found) = {} /\ run[r].payload.age <= Gap IN
       /\ run' = [run EXCEPT ![r].pc = "write", ![r].found = {},
              ![r].payload = IF verified THEN [@ EXCEPT !.state = "healthy", !.failures = 0] ELSE @]
       /\ shaken' = (shaken /\ found # {})
    /\ UNCHANGED <<broken, install, due, disk, left, since, streak, early>>
\* The collection raises: the document stays as the receipts left it.
PostCheckFails(r) ==
    /\ At(r, "recheck")
    /\ Enter(r, "write")
    /\ UNCHANGED <<broken, install, due, disk, left, history>>

Write(r) ==
    /\ At(r, "write")
    /\ Save(r, run[r].payload)
    /\ Stop(r)
    /\ UNCHANGED <<broken, install, due, left, since, early, shaken>>

\* The process is killed, or writing raises: both leave the file as it was, and
\* the locks go with the process.
Abort(r) ==
    /\ ~At(r, "idle") /\ left.faults > 0
    /\ Stop(r) /\ Looked(r)
    /\ left' = [left EXCEPT !.faults = @ - 1]
    /\ UNCHANGED <<broken, install, disk, history>>

-----------------------------------------------------------------------------
(* The environment.                                                        *)

Break(part) ==
    /\ part \in Fragile \ broken /\ left.breaks > 0
    /\ broken' = broken \cup {part}
    /\ left' = [left EXCEPT !.breaks = @ - 1]
    /\ UNCHANGED <<install, due, run, disk, history>>

\* flock -w 60: the installer waits for the checks that are under way.
InstallBegins ==
    /\ ~install /\ left.installs > 0 /\ \A r \in Runs : ~Reads(r)
    /\ install' = TRUE
    /\ left' = [left EXCEPT !.installs = @ - 1]
    /\ UNCHANGED <<broken, due, run, disk, history>>
InstallEnds ==
    /\ install /\ install' = FALSE
    /\ broken' \in SUBSET broken
    /\ UNCHANGED <<due, run, disk, left, history>>

OlderDocument(d) == [d EXCEPT !.age = Older(@), !.last = [a \in Actions |-> Older(@[a])]]
\* A period passes.  The unit looks once in each, unless the machine sleeps.
Tick ==
    /\ \/ ~due /\ UNCHANGED left
       \/ due /\ left.faults > 0 /\ left' = [left EXCEPT !.faults = @ - 1]
    /\ due' = TRUE
    /\ disk' = OlderDocument(disk)
    /\ run' = [r \in Runs |-> IF At(r, "idle") THEN run[r]
                              ELSE [run[r] EXCEPT !.payload = OlderDocument(@)]]
    /\ since' = [a \in Actions |-> Older(since[a])]
    /\ UNCHANGED <<broken, install, streak, early, shaken>>

Step(r) ==
    \/ Lock(r) \/ CollectServices(r) \/ Judge(r)
    \/ \E effective \in BOOLEAN : Act(r, effective)
    \/ ActFails(r) \/ Receipt(r) \/ PostCheck(r) \/ PostCheckFails(r) \/ Write(r)
Next ==
    \/ Prepare \/ PrepareFails \/ Maintenance \/ Tick
    \/ \E r \in Runs : Begin(r) \/ Step(r) \/ Abort(r)
    \/ \E part \in Fragile : Break(part)
    \/ InstallBegins \/ InstallEnds

Spec == Init /\ [][Next]_vars

\* The timer starts the unit in every period, a process that runs goes on (and so
\* gives its lock back), an installation ends, and what is wrong is put right by
\* one of the actions tried over and over.  Nobody has to run a check by hand.
UnitStep == Prepare \/ PrepareFails \/ Maintenance \/ Begin(Timer) \/ Step(Timer)
FairSpec ==
    /\ Spec
    /\ WF_vars(Tick) /\ WF_vars(UnitStep) /\ WF_vars(InstallEnds)
    /\ \A r \in Runs \ {Timer} : WF_vars(Step(r))
    /\ SF_vars(Act(Timer, TRUE) /\ broken' # broken)

-----------------------------------------------------------------------------
\* Every variable has its type.
Processes ==
    [pc : Steps, found : SUBSET Fragile, payload : Documents, todo : SUBSET Actions,
     result : {"none", "ok", "failed"}, succeeded : BOOLEAN, count : [Actions -> 0..2]]
TypeOK ==
    /\ broken \in SUBSET Fragile
    /\ install \in BOOLEAN /\ due \in BOOLEAN /\ shaken \in BOOLEAN
    /\ run \in [Runs -> Processes] /\ disk \in Documents
    /\ left \in [breaks : 0..MaxBreaks, faults : 0..MaxFaults,
                 installs : 0..MaxInstalls, checks : 0..MaxChecks]
    /\ since \in [Actions -> Age] /\ streak \in [Actions -> 0..2] /\ early \in 0..MaxFaults + 1

\* docs/PROJECT.md:173: a failure is acted upon only when another observation, of
\* at most five minutes before and on record, asked for the same action; neither a
\* finding in between that did not, nor the file of an old failure, may stand in
\* for it, whatever runs, aborts and installations came between.
ActsOnRepeatedFailure ==
    [][\A r \in Runs : At(r, "act") /\ run'[r].pc = "receipt"
            => run[r].count[Current(r)] = 2]_vars

\* The cooldown (server_lifecycle.py:408) survives whatever ends a check: each
\* abort can lose the receipt of one success and so cost one early repetition,
\* never more, however many actions the check had carried out.
CooldownSurvives == early + left.faults <= MaxFaults

\* `healthy' in the file is never older than what recovery did: since its last
\* action a complete collection has found nothing wrong.
HealthyIsProven == disk.state = "healthy" => ~shaken

\* A server whose host is sound and whose tunnel is up does not stay broken:
\* services, and on an unchanged release settings, are put back in the end.
Restored ==
    /\ broken \cap Services = {}
    /\ "drift" \notin broken => broken \cap Settings = {}
    /\ broken \cap {"probe", "direct", "drift"} # {"probe"}
BecomesRestored == []<>(Restored \/ HostFailed(broken) \/ Tunnel \in broken)

\* docs/PROJECT.md:127: `Health выполняется раз в две минуты', the health check
\* runs every two minutes (or answers that an installation is active).
HealthKeepsRunning == []<><<Judge(Timer) \/ Maintenance>>_vars
=============================================================================
