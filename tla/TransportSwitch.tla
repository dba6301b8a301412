---------------------------- MODULE TransportSwitch ----------------------------
(***************************************************************************)
(* The steps TransportFailover takes at once (server_transport.py):        *)
(* select_transport against the router's selector, the locks of a          *)
(* reconciliation, and the reads and writes of the state document, some of *)
(* them outside TRANSPORT_LOCK.  Two controllers run cycles, the daemon    *)
(* transport-watch and the transport-reconcile that an installation from   *)
(* the operator's machine calls; transport-select moves the selector with  *)
(* no lock at all; an install transaction shuts the controllers out.       *)
(* Time is left to TransportFailover: here no cycle waits for a backoff,   *)
(* and no record of a failed activation grows too old to be kept.          *)
(***************************************************************************)
EXTENDS Naturals

CONSTANTS
    Paths, None,
    Watch,         \* transport-watch, started again by systemd when it dies
    Reconcile,     \* transport-reconcile: one cycle and an exit code
    Operator,      \* transport-select
    MaxAttempts    \* failed activations are counted up to here

Controllers == {Watch, Reconcile}
Actors == Controllers \cup {Operator}

\* Of the document only the record of a failed activation matters here: for which path,
\* and how many in a row.  (switch_backoff and last_switch_failure, which are the same
\* record as long as neither expires.)
Failures == [target : Paths, attempts : 1..MaxAttempts]
Documents == [failure : Failures \cup {None}]

ASSUME SwitchAssumption ==
    /\ MaxAttempts \in Nat \ {0}
    /\ Watch # Reconcile /\ Operator \notin Controllers
    /\ None \notin Paths \cup Failures \cup Documents
    /\ \A path \in Paths : Paths # {path}

VARIABLES
    selector,     \* the underlay the router uses
    document,     \* transport-state.json
    installing,   \* an install transaction holds the install lock
    at,           \* where each actor is
    job,          \* its switch: from where to where, is it rolling back, is that proven
    known,        \* the document a controller has read
    late,         \* history: it was replaced since, and one of the two had no lock
    outcome       \* how a controller's switch ended, until it is published

vars == <<selector, document, installing, at, job, known, late, outcome>>

\* From the first observation of select_transport to its report.
Switching == {"put", "confirm", "reset", "prove", "check", "report"}
\* Under TRANSPORT_LOCK.
Locked == {"cycle", "evaluate", "select", "write"} \cup Switching
\* With the shared install lock.
Shared == {"waiting"} \cup Locked

Jobs == [old : Paths, tag : Paths, undo : BOOLEAN, proven : BOOLEAN]
Outcomes == [old : Paths, tag : Paths, after : Paths \cup {None},
             result : {"activated", "restored", "unreported", "unverified"}]
Job(path) == [old |-> path, tag |-> path, undo |-> FALSE, proven |-> FALSE]
Path(a) == IF job[a].undo THEN job[a].old ELSE job[a].tag
Goes(a, place) == at' = [at EXCEPT ![a] = place]
\* Back to idle, with nothing in hand.
Leaves(a) ==
    /\ Goes(a, "idle")
    /\ job' = [job EXCEPT ![a] = None]
    /\ known' = [known EXCEPT ![a] = None]
    /\ outcome' = [outcome EXCEPT ![a] = None]
-----------------------------------------------------------------------------
(* select_transport *)

\* The first observation: no switch from a state that could not be restored.
Observe(a) ==
    /\ at[a] = "select"
    /\ job' = [job EXCEPT ![a].old = selector]
    /\ Goes(a, IF selector = job[a].tag THEN "prove" ELSE "put")
    /\ UNCHANGED <<selector, document, installing, known, late, outcome>>

\* A controller goes on to publish the report, transport-select exits.
Ended(a, old, result, after) ==
    IF a \in Controllers
    THEN /\ outcome' = [outcome EXCEPT ![a] = [old |-> old, tag |-> job[a].tag,
                                              result |-> result, after |-> after]]
         /\ job' = [job EXCEPT ![a] = None]
         /\ Goes(a, "write")
         /\ UNCHANGED known
    ELSE Leaves(a)

\* The router does not answer: the switch ends before it has a report.
Unanswered(a) ==
    /\ at[a] = "select"
    /\ Ended(a, selector, "unreported", None)
    /\ UNCHANGED <<selector, document, installing, late>>

\* The handlers of the two tries: an activation is rolled back when there is
\* another path to go back to, a failed rollback is left at that.
Fails(a) ==
    LET back == ~job[a].undo /\ job[a].old # job[a].tag IN
    /\ Goes(a, IF back THEN "put" ELSE "report")
    /\ job' = [job EXCEPT ![a].undo = @ \/ back, ![a].proven = FALSE]

\* The PUT of set_selector; a failed one may have been applied all the same.
Put(a) ==
    /\ at[a] = "put"
    /\ \/ /\ selector' = Path(a)
          /\ Goes(a, "confirm")
          /\ UNCHANGED job
       \/ /\ selector' \in {selector, Path(a)}
          /\ Fails(a)
    /\ UNCHANGED <<document, installing, known, late, outcome>>

\* The observation after it, which may get no answer, and the relay reset.
Confirm(a) ==
    /\ at[a] = "confirm"
    /\ \/ /\ selector = Path(a)
          /\ Goes(a, "reset")
          /\ UNCHANGED job
       \/ Fails(a)
    /\ UNCHANGED <<selector, document, installing, known, late, outcome>>

Reset(a) ==
    /\ at[a] = "reset"
    /\ \/ /\ Goes(a, "prove")
          /\ UNCHANGED job
       \/ Fails(a)
    /\ UNCHANGED <<selector, document, installing, known, late, outcome>>

\* prove_wireguard_overlay; whatever it finds, the selector is observed next.
Prove(a) ==
    /\ at[a] = "prove"
    /\ \E ok \in BOOLEAN : job' = [job EXCEPT ![a].proven = ok]
    /\ Goes(a, "check")
    /\ UNCHANGED <<selector, document, installing, known, late, outcome>>

\* Mutant: the proof counts whatever path it was made over.
ProvenAnywhere(a) == job[a].proven
Proven(a) == job[a].proven /\ selector = Path(a)

\* The observation at the end of prove, which ends an activation that worked.
Check(a) ==
    /\ at[a] = "check"
    /\ \/ /\ Proven(a) /\ ~job[a].undo
          /\ Ended(a, job[a].old, "activated", Path(a))
       \/ /\ Proven(a) /\ job[a].undo
          /\ Goes(a, "report")
          /\ UNCHANGED <<job, known, outcome>>
       \/ /\ Fails(a)
          /\ UNCHANGED <<known, outcome>>
    /\ UNCHANGED <<selector, document, installing, late>>

\* The last observation of a failed switch, which may get no answer, decides
\* whether the rollback is reported as verified.
Report(a) ==
    /\ at[a] = "report"
    /\ \E after \in {selector, None} :
          Ended(a, job[a].old, IF job[a].undo /\ job[a].proven /\ after = job[a].old
                            THEN "restored" ELSE "unverified", after)
    /\ UNCHANGED <<selector, document, installing, late>>

Select(a) ==
    \/ Observe(a) \/ Unanswered(a) \/ Put(a) \/ Confirm(a)
    \/ Reset(a) \/ Prove(a) \/ Check(a) \/ Report(a)
-----------------------------------------------------------------------------
(* reconcile_interserver_transport and its callers *)

Reads(c) == known' = [known EXCEPT ![c] = document]
\* The cycle's last act: what the other controller has in hand is replaced.
Writes(c, content) ==
    /\ document' = content
    /\ late' = [d \in Actors |->
                  d # c /\ (late[d] \/ (known[d] # None /\ "unlocked" \in {at[c], at[d]}))]
    /\ Leaves(c)

\* acquire_install_read_lock does not wait; without it the cycle has the previous
\* document in hand and writes it back as an observation of maintenance.
Enter(c) ==
    /\ at[c] = "idle"
    /\ IF installing
       THEN Goes(c, "unlocked") /\ Reads(c)
       ELSE Goes(c, "waiting") /\ UNCHANGED known
    /\ UNCHANGED <<selector, document, installing, job, late, outcome>>

\* Mutant: the cycle does not take TRANSPORT_LOCK.
Unserialised(c) ==
    /\ at[c] = "waiting"
    /\ Goes(c, "cycle")
    /\ Reads(c)
    /\ UNCHANGED <<selector, document, installing, job, late, outcome>>
\* TRANSPORT_LOCK is waited for; then the previous document is read.
Lock(c) ==
    /\ at[c] = "waiting"
    /\ \A d \in Controllers : at[d] \notin Locked
    /\ Goes(c, "cycle")
    /\ Reads(c)
    /\ UNCHANGED <<selector, document, installing, job, late, outcome>>

\* The next candidate: the only path a cycle recommends or keeps a history for.
Other(path) == CHOOSE other \in Paths : other # path

\* transport_switch_failure_history: a failure counts for its own target only.
FailureHistory(read, target) ==
    IF read.failure # None /\ read.failure.target = target THEN read.failure ELSE None
NextFailure(read, target) ==
    LET prior == FailureHistory(read, target) IN
    [target |-> target,
     attempts |-> IF prior = None THEN 1
                  ELSE IF prior.attempts = MaxAttempts THEN MaxAttempts ELSE prior.attempts + 1]

\* failed_transport_observation keeps the history, whatever path it is of.
FailedObservation(read) == [failure |-> read.failure]
\* A cycle that has seen the selection keeps that of the other path.
Observation(read, selected) == [failure |-> FailureHistory(read, Other(selected))]

\* transport_selection_snapshot: the path that the rest of the cycle goes by.
Snapshot(c) ==
    /\ at[c] = "cycle"
    /\ job' = [job EXCEPT ![c] = Job(selector)]
    /\ Goes(c, "evaluate")
    /\ UNCHANGED <<selector, document, installing, known, late, outcome>>

\* The relays are not configured, or the snapshot is not available.
Unavailable(c) ==
    /\ at[c] = "cycle"
    /\ Writes(c, FailedObservation(known[c]))
    /\ UNCHANGED <<selector, installing>>

\* The probes and the policy keep the path, or recommend the other one.
Keep(c) ==
    /\ at[c] = "evaluate"
    /\ Writes(c, Observation(known[c], job[c].tag))
    /\ UNCHANGED <<selector, installing>>
Recommend(c) ==
    /\ at[c] = "evaluate"
    /\ job' = [job EXCEPT ![c] = Job(Other(@.tag))]
    /\ Goes(c, "select")
    /\ UNCHANGED <<selector, document, installing, known, late, outcome>>

\* The document of an attempt: an activation drops the history, a failure is counted.
Publish(c) ==
    /\ at[c] = "write"
    /\ Writes(c, [failure |-> IF outcome[c].result = "activated" THEN None
                              ELSE NextFailure(known[c], outcome[c].tag)])
    /\ UNCHANGED <<selector, installing>>

\* A cycle raises or cannot write: transport-watch reads the document again, with
\* the locks released, and transport-reconcile exits.
Raise(c) ==
    /\ at[c] \in Locked
    /\ IF c = Watch
       THEN /\ Goes(c, "unlocked") /\ Reads(c)
            /\ job' = [job EXCEPT ![c] = None]
            /\ outcome' = [outcome EXCEPT ![c] = None]
       ELSE Leaves(c)
    /\ late' = [late EXCEPT ![c] = FALSE]
    /\ UNCHANGED <<selector, document, installing>>

\* The write outside the lock, of what was read outside the lock: the document of
\* maintenance, or that of the exception handler of the daemon's loop.
WriteUnlocked(c) ==
    /\ at[c] = "unlocked"
    /\ Writes(c, FailedObservation(known[c]))
    /\ UNCHANGED <<selector, installing>>

\* A process is killed: the daemon with the router it belongs to (PartOf).
Die(a) ==
    /\ at[a] # "idle"
    /\ Leaves(a)
    /\ late' = [late EXCEPT ![a] = FALSE]
    /\ UNCHANGED <<selector, document, installing>>

Ask ==
    /\ at[Operator] = "idle"
    /\ \E tag \in Paths : job' = [job EXCEPT ![Operator] = Job(tag)]
    /\ Goes(Operator, "select")
    /\ UNCHANGED <<selector, document, installing, known, late, outcome>>

\* install.sh waits for the exclusive install lock and lets go of it at its end; the
\* router it restarts comes back with its own selection.
InstallBegins ==
    /\ ~installing /\ \A c \in Controllers : at[c] \notin Shared
    /\ installing' = TRUE
    /\ UNCHANGED <<selector, document, at, job, known, late, outcome>>
InstallEnds ==
    /\ installing
    /\ installing' = FALSE
    /\ selector' \in Paths
    /\ UNCHANGED <<document, at, job, known, late, outcome>>
-----------------------------------------------------------------------------
Init ==
    /\ selector \in Paths
    /\ document = [failure |-> None]
    /\ installing = FALSE
    /\ at = [a \in Actors |-> "idle"]
    /\ job = [a \in Actors |-> None]
    /\ known = [a \in Actors |-> None]
    /\ late = [a \in Actors |-> FALSE]
    /\ outcome = [a \in Actors |-> None]

Controller(c) ==
    \/ Enter(c) \/ Lock(c) \/ Snapshot(c) \/ Unavailable(c) \/ Keep(c)
    \/ Recommend(c) \/ Publish(c) \/ Raise(c) \/ WriteUnlocked(c)

Next ==
    \/ \E a \in Actors : Select(a) \/ Die(a)
    \/ \E c \in Controllers : Controller(c)
    \/ Ask \/ InstallBegins \/ InstallEnds

Spec == Init /\ [][Next]_vars
-----------------------------------------------------------------------------
TypeOK ==
    /\ selector \in Paths /\ document \in Documents /\ installing \in BOOLEAN
    /\ at \in [Actors -> {"idle", "unlocked"} \cup Shared]
    /\ job \in [Actors -> Jobs \cup {None}]
    /\ known \in [Actors -> Documents \cup {None}]
    /\ late \in [Actors -> BOOLEAN]
    /\ outcome \in [Actors -> Outcomes \cup {None}]

\* While a controller is between the first observation and the report, what counts
\* outside is the path it started from.
Mover == {c \in Controllers : at[c] \in Switching}
Outside == IF Mover = {} THEN selector ELSE job[CHOOSE c \in Mover : TRUE].old

\* A switch of a controller is one step from where it found the selector to where
\* its report says it left it, whichever request failed, unacknowledged PUTs
\* included, and although transport-select moves the selector meanwhile.
Atomic == INSTANCE SelectorSwitch WITH selector <- Outside, Controllers <- Actors
SwitchIsAtomic == Atomic!Spec

\* The record of a failed activation is gone, or counts less.
Forgotten(failure, next) ==
    failure # None /\ (next = None \/ next.target # failure.target \/ next.attempts < failure.attempts)
\* The path that the document a cycle is about to write is for.
Towards(c) == IF at[c] = "write" THEN outcome[c].tag ELSE Other(job[c].tag)

\* The record of a failed activation, on which the retry delay rests, is given up only by
\* a cycle that has activated its target, or that has seen the selector stand there
\* already, put there by transport-select, a restarted router or an unverified ending,
\* and so speaks of the other path; or where one of the two writes made outside
\* TRANSPORT_LOCK (maintenance, the handler of the daemon's loop) came between the read
\* and the write of another controller, or another's write between its own.  Nothing else
\* loses it: no failure, raised exception, death, cycle of the other controller.
HistoryIsKept ==
    [][Forgotten(document.failure, document'.failure) =>
          \E c \in Controllers :
              /\ at'[c] # at[c]
              /\ \/ late[c]
                 \/ at[c] = "write" /\ outcome[c].result = "activated"
                 \/ at[c] \in {"evaluate", "write"} /\ Towards(c) # document.failure.target]_vars
=============================================================================
