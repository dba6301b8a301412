# Formal models of VPN Installer

This directory models the parts of VPN Installer whose correctness depends on
the order of steps: what is on disk when a process dies, what one cycle may
conclude from what an earlier cycle wrote, what a lost answer leaves behind.
The modules are TLA+; TLC checks them on small instances and TLAPS proves the
most important properties for all values of the constants. Line numbers refer
to the repository (`vpn_installer/...`, `install.sh`, `docs/...`).

Run a check with `tlc -workers 2 -config MCClientPublication.cfg
MCClientPublication` and a proof with `tlapm ClientPublicationProofs.tla`.

## 1. Inventory

One gateway server, or a gateway and an exit server, run Xray and sing-box. The
operator's machine renders client files, installs the servers over SSH and
verifies them. On the gateway an agent looks after the tunnel between the two
servers.

| Component | State it keeps | Operations | Status |
|---|---|---|---|
| Client publication `client_publication.py` | `client` link or directory, `.client-generations`, journal, route state, forward notice, lock | publish, recover, roll back, snapshot | modelled (section 3) |
| Transport policy `interserver_transport.py` 800-1307 | none; reads and writes the fields of the state document | evaluate a cycle | modelled, probes as their outcomes (section 4) |
| Transport controller `server_transport.py` | sing-box selector, `transport-state.json`, `TRANSPORT_LOCK` | observe, switch, reconcile, watch | modelled, at two levels (section 4) |
| Operator rules `admin_apply.py` | rules, effective configuration, manifest, lock | commit, undo, commit before a start of sing-box | modelled; what is rendered from rules in section 10 (section 5) |
| Node transaction `install.sh` | releases, `current`/`previous` links, baseline and `latest` snapshot, managed paths, units | install, rollback, remove, purge, restore after a failure | modelled, host preparation left out (section 6) |
| Fleet workflow `workflows.py`, `remote.py` | what it found on the nodes, which of them changed | look, install all, wait, reconcile, roll back, remove | modelled, package updates and reboots left out (section 7) |
| Health `server_lifecycle.py` | health state with its receipts, lock | observe, confirm, recover, look again | modelled, soft degradations left out (section 8) |
| Verification `verify.py`, `vless_verify.py` | a runner on the node with lock, lease, client and watchdog | start, poll, collect, judge, clean up | modelled (section 9) |
| Server agent, `journal_evidence.py`, `tcp_diagnostics.py` | none; a snapshot under collection | collect facts, read the journal, probe, judge | modelled as far as facts are judged (section 10) |
| Routing policy `routing_policy.py`, `render.py` | none (rules) | compile the rules of the router, the front, DNS | modelled by where traffic leaves (section 10) |
| Client artifacts `client_artifacts.py`, `android.py` | none (text) | render, publish, open a snapshot | only as the caller of publication |
| Runtime helpers `server_runtime.py` | locks, atomic writes | lock, read, write, ages | as the atomicity of the actions that use them |
| Front resource control | none | memory and quota arithmetic | not modelled |
| Admin web `admin_web.py` | sessions | forms around the rule commit | not modelled |
| Topology, manifest, platforms, compatibility, configuration | none | pure functions from configuration to plans and text | not modelled |
| Local command line | none | menus, prompts, wording | not modelled |

`PROJECT.json` lists every component with what is left out and why.

**How they interact.** The fleet workflow installs the exit node and then the
gateway; each installation is a node transaction run detached over SSH, and its
acceptance is a snapshot of the node's own agent (`NodeSnapshot.Accept`). A
successful workflow republishes the client artifacts, which is a call of client
publication under its lock, and a live verification may follow. On the gateway
the transport controller and the health check run in separate processes; they
meet through files and locks (`TRANSPORT_LOCK`, the health lock, the install
lock that puts both in maintenance). An administrator's rule commit restarts
sing-box, and a sing-box restart may pick another underlay behind the
controller's back.

**What is hard.**

- *Publication*: process death between any two of about ten file operations,
  two of which (moving the legacy directory, switching the link) change what
  users see; a handler that runs recovery while an exception is in flight;
  readers that never take the lock.
- *Transport*: each cycle decides from a document an earlier cycle wrote,
  possibly about another path, another failure or another hour; a switch can be
  applied though its answer was lost; the process can die after the switch and
  before the write; five timers suppress each other; two writes are made
  outside the lock.
- *Node transaction*: an EXIT trap that a SIGKILL skips, a restore that runs
  with errexit disabled, rollbacks and prunes repeated in any order.
- *Fleet*: lost answers of detached transactions, time-outs while the remote
  side commits, a rollback that fails on one node only.
- *Rules and health*: three files written in sequence, compare-and-swap on a
  generation, receipts written around actions that must not be repeated, a unit
  whose preparation fails in the situation it is there to repair.
- *Verification*: processes that outlive the session that started them, a fixed
  port that anybody's client may hold, a verdict made of many partial ones.
- *Snapshots*: facts collected one after another while the node changes, a
  journal that rotates while it is read, two clocks.

The correctness properties wanted of each:

| Component | Properties |
|---|---|
| Publication | one whole set is visible at any time; the operator's files are neither lost nor mixed; recovery always has a way out; pinned readers are undisturbed; route ownership is never lost; no journal stays |
| Transport | no failover on one bad cycle, none on stale or foreign evidence; no leaving of a live path without measured loss or a clean window; backoff honoured and not forgotten; no ping-pong; a dead path is left and the preferred path is eventually used again; a switch ends where its report says |
| Node transaction | after any end of a run the node has one complete, referenced release or is explicitly marked for repair; prune never removes a referenced release; rollback twice is a defined state |
| Fleet | what a session reports of the nodes is so; a half-done upgrade is not abandoned; a session ends |
| Rules | in the end sing-box runs the rules on disk; a mixed set of files is never vouched for; the admin page loses no update |
| Health | no recovery on one observation; the cooldown survives a kill; `healthy` is proven; what can be put right is put right |
| Verification | a result was measured through its own client; an accepted verification is proven; nothing stays behind on the node |
| Agent, routing | traffic leaves where the policy wants it or nowhere; a complete window counts everything; a verified snapshot is as fresh as it says and no node fails on one bad moment |

The hazards behind these properties are in `PROJECT.json`, each at its line,
with the properties that cover it.

## 2. Plan, and the runs

Done, in the order of what a defect would cost: `ArtifactStore` and
`ClientPublication`; `TransportPolicy`, `TransportFailover`, `TransportHistory`;
`OperatorRules`; `InstallTransaction`; `TransportSwitch` with `SelectorSwitch`;
`FleetInstall`; `HealthRecovery`; `VerifyVerdicts` and `LiveVerify`;
`TrafficPaths`, `JournalWindows` and `NodeSnapshot`. All of these items have
proofs (section 11); of the safety properties only `TrafficIsSplit` has none.

Left, in this order:

1. A register holding the installed release as the abstract specification of
   `InstallTransaction` runs without a second fault, and `FleetInstall` shown to
   use no more of a node than that.
2. Package updates and reboots of `maintain`; interval metrics of the front;
   the memory reserve of the front as a pure algorithm.

Every module keeps its parameters as named, assumed constants, uses one action
per operation, and declares no RECURSIVE operator.

| Run | States | Properties |
|---|---|---|
| `publication` | 1.05 million | section 3: five invariants, `RouteStateSurvives`, `AtomicStore`, `JournalIsResolved` |
| `transport` | 184 000 | section 4: `TypeOK`, five action properties, two liveness properties |
| `transport_switch` | 1.3 million | `SwitchIsAtomic`, `HistoryIsKept` |
| `operator_rules` | 1.03 million | section 5: `DriftIsVisible`, `WebChangesOneRule`, `SuccessMeansApplied`, `QuietRouterRunsItsRules` |
| `install_transaction` | 324 000 | section 6: `LinkTargetsExist`, `FailedRunRestores`, `InstallLeavesOneRelease`, `InstallGetsThrough` |
| `fleet_install` | 179 000 | section 7: `SuccessIsTrue`, `RollbackIsTrue`, `UpgradeIsNotAbandoned`, `SessionEnds` |
| `health_recovery` | 673 000 | `CooldownSurvives`, `HealthyIsProven`, `ActsOnRepeatedFailure`, `BecomesRestored` |
| `live_verify` | 587 000 | section 9: `ProbesUseOwnClient`, `AcceptedIsProven`, `RunnerEnds` |
| `node_snapshot` | 3.9 million | section 10: `TrafficIsSplit`, `WindowsAreExact`, `VerdictIsJust` |
| `operator_rules_restart` | expected violation | `ChangesAreApplied` (section 5) |
| `install_rollback` | expected violation | `RollbackKeepsCurrent` (section 6) |
| `health_unreached` | expected violation | `HealthKeepsRunning` (section 8) |

Deadlock is checked in all but `fleet_install`, `live_verify` and
`node_snapshot`: one session, one verification of each workstation, and one
collection are over at some point.

## 3. Client publication

### Modules

- `ArtifactStore`: what a caller of `snapshot` may rely on. Two variables, the
  visible set and the operator's own files; a publication replaces the first
  and keeps the second in one atomic step.
- `ClientPublication`: the protocol with its crashes, errors, readers and edits.
- `MCClientPublication`: instances for TLC. `ClientPublicationProofs`: proofs.

### Correspondence to the code

| Model | Code |
|---|---|
| `client` | the public path: `Absent`, a legacy `Directory`, or a link to a generation |
| `gen[g].state` | `none`; `partial` after `mkdir`; `ready` once the manifest is written and validated |
| `gen[g].payload`, `.notes` | generated artifacts; entries `_copy_operator` carries over |
| `aside` | `.client-legacy-<id>` exists |
| `legacyRoute`, `stable` | `windows-route-bypass.state.json` in the legacy directory and in `.client-state` |
| `journal` | `.client-publication.json` with target, previous, legacy |
| `forward` | the root `NEXT-STEPS.txt` is the location notice |
| `lock` | `.client-artifacts.lock` (non-blocking; the kernel drops it on death) |
| `pc`, `job` | control point and locals of a publisher; `job.raising` is the exception for which the handler called `recover_locked` |
| `Begin` | `publication_lock`; `Publish`, `Rollback` are its two users |
| `Recover...`, `Finish...` | the branches of `recover_locked` and the two steps of `_finish` |
| `PlanUnchanged/Refused/Stage` | the early return, the refusals and the staging of `publish_locked` |
| `WriteArtifacts`, `Seal`, `WriteJournal`, `MoveLegacy`, `AdoptRouteState`, `Activate` | lines 414-442, one action per durable step |
| `Fails` | any step raises: inside the `try` recovery runs first, elsewhere the lock is just released |
| `Crash` | the process dies; disk unchanged, lock dropped |
| `PinLink`, `PinLocked`, `Unpin` | `snapshot` with and without the lock |
| `Edit`, `LegacyHelper`, `StableHelper` | the operator's edits and the generated PowerShell route helper |

A write by `_write_durable` (temporary file, fsync, rename) is one step. Hashes
are compared by comparing payloads. The size budget, forbidden names, foreign
links and special files are refusals without effect and are not modelled. The
root notice's other contents are not told apart.

### Checks

`publication` (MCClientPublication.cfg): two publishers, one reader, three
generations of at most three, two payloads, one note, two route states, two
faults. Two faults are the interesting number: a crash, and a failing or
crashing recovery from it. Three generations let a current, a previous and a
crash-left one exist together and let the retention limit refuse the fourth.
One note, present or not, tells whether notes were kept.

| Property | What would be wrong otherwise |
|---|---|
| `TypeOK` | the journal could name a directory as the previous generation |
| `RecoveryNeverStuck` | a crash would leave a disk recovery refuses for good |
| `MissingPathIsRecoverable` | the public path would be missing with nothing that leads back to it |
| `PinnedSetIsStable` | a reader would see its set change or disappear |
| `RouteStateSurvives` | migration would lose which routes the helper owns, or an old legacy copy would replace what the helper has written at the stable place since |
| `NoticeFollowsPointer` | the root notice would stay stale after a crash |
| `AtomicStore` | some crash point would show a mixed set, an older set, or lose notes: the refinement of `ArtifactStore` |
| `JournalIsResolved` | a journal would stay for good, and with it a disk that only recovery may touch |

**Fairness.** A publisher that holds the lock takes its next step (weak
fairness: it is a live process). Somebody runs a publication again and again
(strong fairness, since the non-blocking lock is only sometimes free): install,
update and the artifact commands all publish. Readers close what they pinned (a
`with` block). Faults, edits and rollbacks are never forced.

### What the model shows beside the properties

- Generations are never collected. A crash leaves a `partial` one, so crashes
  alone can use up the 32 places; then publication refuses (`PlanRefused`) with
  the current set intact until an operator cleans up. The code says so.
- After a crash that adopted the legacy route state, an old helper that changes
  the legacy copy before the next publication makes every later migration
  refuse with a conflict. Neither copy is lost; an operator has to choose.
- Editing a generated file of the current generation makes `_validate_generation`
  refuse. The model's operator edits only files of its own.
- `Edit` and `LegacyHelper` wait while a publisher is at work: `_copy_operator`
  detects a file that changes while it is copied and refuses, an edit made after
  the copy is lost, and the legacy helper is excluded by its own lock file.

## 4. Transport failover

### Modules

- `TransportPolicy`: the state document and `evaluate_transport_policy` with its
  evidence, retry and recovery rules, as operators. One operator per branch.
- `TransportFailover`: cycles over the selector and the document.
- `TransportHistory`: the same, with a record (`trail`) of how long ago things
  happened. The record is computed from what the cycles met and did, never
  from the document, so that its properties judge the document's bookkeeping.
- `TransportSwitch`: below a cycle, the requests of a switch, the locks, and the
  reads and writes of the document. `SelectorSwitch`: what a switch promises.
- `MCTransportHistory`: the instance of the cycles; `TransportSwitch.cfg` needs
  no module of its own. `TransportFailoverProofs` and `TransportSwitchProofs`:
  proofs.

### Correspondence to the code

| Model | Code |
|---|---|
| `selector` | the sing-box selector `interserver-underlay-select` |
| `document` | `transport-state.json`; each timestamp as its age |
| `Aged(document, d)` | reading the document `d` after it was written |
| `Continues`, `NextEvidence` | `_cycle_relation`, `_next_evidence` |
| `RetryActive`, `NextRetry`, `KeepRetry`, `MarkRecovered` | the preferred-path retry history |
| `QualityEvidence` | `_quality_switch_evidence` |
| `OnFailure`, `OnInconclusive`, `OnDegraded`, `OnHealthyPreferred`, `OnHealthyFallback` | the branches of `evaluate_transport_policy` |
| `ProbeSelected`, `ProbeAlternate`, `SampledAlternate` | `collect_transport_probes`: which probes run, and what they conclude |
| `SwitchBackoff`, `SwitchFailureHistory`, `NextSwitchFailure` | the activation backoff |
| `Endings` | every way `select_transport` can end: activated, restored, unreported (it raised before a report existed), unverified on either path |
| `Observe`, `Switch` | the two tails of `_reconcile_interserver_transport_unlocked` |
| `Interrupted` | death, or a failing write, between the PUT and the write of the document |
| `Unobserved` | maintenance and exceptions: `failed_transport_observation` |
| `Reselect` | `transport-select`, or a sing-box restart |
| `seen`, `trail` | history variables of the models |

**Time.** The code only compares a timestamp with the instant of the cycle, so
the model keeps ages, saturated at the value past which no comparison differs
(`Older(age, d, last)`). The code's durations: evidence gap 10 s, quality interval 15 s and gap 45 s, preferred interval 30 s and gap 90 s,
recovery 300 s, retry 60-300 s, reset 1800 s, switch backoff 30-300 s. The run
keeps their order within each rule and draws the rules together; the proofs use
only `PolicyAssumption`.

**Left out, and why.** Cycle identifiers are fresh, so the replay test of
`_cycle_relation` never holds. `would_switch` is never stored true, so the
branch that reads it back never runs. A clock that steps backwards is not
modelled. The overlay's packet loss is the only quality verdict that counts as
degraded. A cycle is one step:
the lock makes cycles exclude each other, and `TransportSwitch` has the steps
within.

### Checks of the cycles

`transport` (MCTransportHistory.cfg): two failure reasons, prompt and late
cycles (1 and 4 units against an evidence gap of 1), every ending, deaths,
unobserved cycles, outside selections.

- `FailoverNeedsTwoCycles`: a dead underlay is left only when the cycle before
  saw the same path fail for the same reason with the other path answering,
  recently, and no attempt was published in between. The attempt's own cycle
  sees the same. A death between switch and write is included, and so is an
  outside selection that moves away and back.
- `LossNeedsTwoPairs`: a live path is left for loss only as the second of two
  fresh pairs, lossy here and clean there, at least one quality interval apart.
- `ReturnNeedsCleanWindow`: a healthy fallback is left only after the full
  clean window of the preferred path, none bad in between.
- `BackoffIsHonoured`: after n failed activations a live path is not left before
  the n-th delay is over.
- `NoPingPong`: a live fallback is not left within the first retry delay after
  the preferred path was given up.
- `LeavesDeadPath`: a dead path is not kept for ever while the other answers;
  `ReturnsToPreferred`: with both paths carrying the overlay steadily, the
  preferred one is selected for good in the end.
- `TypeOK`, the document's counters and evidence included.

`docs/PROJECT.md:72` says that two failed exchanges and an answer over the
alternate allow a switch within one cycle. The code asks for two cycles
(`TRANSPORT_FAILURE_CONFIRMATIONS = 2`, one confirmation a cycle), as line 77 of
the same document says: `FailoverNeedsTwoCycles` holds and line 72 is out of date.

**Fairness.** Cycles go on: `transport-watch` loops for ever and systemd restarts
it. `Turns = 2` gives every cycle a trace of its own, so that a cycle that
repeats the last one still counts as one. Nothing is assumed of probes and
switches: the premises (`Undisturbed`, steady answers) are part of the
properties, which also say how far the promise goes. Without steady samples,
for instance a fallback that alternates between lossy and clean, or an
inconclusive sample in every cycle, the fallback is kept as long as that lasts.

**Bounds.** `AgeCap` is above every duration, counters saturate at the largest
number any rule reads (`MaxCount`), one other path exists by design. The bound
that cuts behaviour is `Elapsed`: prompt and late are the two sides of the
evidence gap, and repeated prompt cycles reach every other duration. The run's
durations in units: evidence gap 1, quality interval 2 and gap 4, preferred
interval 2 and gap 3, recovery 4, retry 4 (its first delay is its last), reset
4, switch backoff 3 and at most 4. So the suppressing rules overlap as they do
with the code's numbers, and two failed activations reach the largest backoff.

### The steps of a switch

| Model | Code |
|---|---|
| `selector`, `document` | as above; of the document the record of a failed activation, with its target and its count |
| `installing` | the exclusive install lock of `install.sh` |
| `at`, `job`, `known` | control point and locals of `transport-watch`, `transport-reconcile` and `transport-select` |
| `Observe`, `Put`, `Confirm`, `Reset`, `Prove`, `Check`, `Report` | `select_transport`: the first observation, `set_selector` with its observation after the PUT, the relay reset, `prove_wireguard_overlay`, the observation that ends the proof, the last one |
| `Fails` | the handlers of its two `try` blocks: one rollback, none of the rollback |
| `Enter`, `Lock`, `Snapshot`, `Unavailable`, `Keep`, `Recommend`, `Publish` | `reconcile_interserver_transport`, with the shared install lock that is not waited for and `TRANSPORT_LOCK` that is; the path the cycle goes by; the documents it may write |
| `FailureHistory`, `NextFailure`, `FailedObservation`, `Observation` | `transport_switch_failure_history`, `next_transport_switch_failure`, `failed_transport_observation`, and the filter for the alternate path in the cycle |
| `Raise`, `WriteUnlocked` | exceptions of a cycle; the documents of maintenance and of the daemon's handler, read and written with no lock |
| `Die` | a kill: the daemon with the router it is part of, a command by itself |
| `Ask` | `transport-select`, which takes no lock |
| `outcome`, `late` | the report of a switch until it is published; history: the document in hand was replaced meanwhile, with one of the two writers outside the lock |

`transport_switch`: all three actors on two paths, up to three counted failed
activations (the count then saturates), as many cycles as they like. Every request
may fail, a failed PUT may have been applied.

- `SwitchIsAtomic`: the detailed protocol implements `SelectorSwitch`, whose
  `Endings` are those `TransportFailover` allows a cycle. Seen from outside a
  controller's switch is one step from the path it found to the path its report
  names. While it is under way `Outside` is the path it started from.
- `HistoryIsKept`: the record of a failed activation, on which the retry delay
  rests, is given up, or counts less, in three cases only. (1) A cycle has activated
  its target. (2) A cycle has seen the selector stand at its target already, where
  `transport-select`, a restarted router or an unverified ending has put it: such a
  cycle keeps the history of the other path only (`server_transport.py:581-587`), and
  a failure of the other path counts from one (449-450). (3) One of the two writes
  outside the lock came between another's read and write (`late`). Failures,
  exceptions, deaths and locked cycles of the other controller lose nothing.

The second case means that a path's count does not survive its being selected from
outside: once it is left again for good reason, its retries begin with the shortest
delay. In the third case two unlocked writes lose an update. A record also lapses
with time, which is left to `TransportFailover` (`BackoffIsHonoured`).

No fairness: both are safety properties.

## 5. Operator rules

### Modules

- `OperatorRules`: commits by the admin page, the command line and the sing-box
  unit itself, over three files, one lock and one systemd unit.
- `MCOperatorRules`: instances for TLC. `OperatorRulesProofs`: proofs.

### Correspondence to the code

| Model | Code |
|---|---|
| `rules`, `config`, `manifest` | `admin-routing-rules.json`, `config.json` (told by the rules it was rendered from), `operator-state.json` (the digests) |
| `lock` | `vpn-stack-routes.lock`: blocking `flock`, dropped by the kernel on death |
| `Web`, `Cli` | requests of `admin_web.py` (with a generation) and `routes add/remove` of the agent (without) |
| `Starter` | the gateway unit's `ExecStartPre`, `admin_apply.py --no-restart` (`render.py:768-771`) |
| `prestart` | `operator_routing` of `render_singbox_service`; every gateway unit rendered at this commit has it set |
| `unit` | `pre` while `ExecStartPre` runs, `exec` until the router is up, `active`, `failed` |
| `running` | the configuration the router read when it last started |
| `Request` | the page's handlers and `routes_command` load the rules and edit them, before the lock |
| `TakeLock`, `RefuseConflict`, `Stage` | `commit_rules` 364-372 |
| `WriteRules`, `ReplaceConfig`, `WriteManifest` | 374, 375, 376-384 |
| `Restart`, `Confirm`, `NotConfirmed` | `restart_and_verify_singbox` with its limit of 30 s |
| `UndoRules`, `UndoConfig`, `UndoManifest` | 388-399 |
| `RouterUp`, `AutoRestart`, `OutsideRestart` | systemd: `ExecStart`, `Restart=on-failure`, a restart by anyone else |
| `Fails`, `Dies` | an exception at any step; death of a client at any step |
| `cut` | history: a commit or an undo was cut short and the unit's own commit has not begun again since |

Left out: the base configuration is constant; the migration of rules whose
outbound has gone; files that do not exist yet (the models begin after a first
start of the unit); the installer, which restores these files without the lock.
The start limit of systemd (`TimeoutStartSec`) is among the faults of the
Starter.

### Checks

`operator_rules` (1.03 million states): a page request and a command, each as
often as they like, over two rules, with both values of `prestart`, slow starts,
one fault of any kind at any step. One fault, because a second one lets the undo's
own `systemctl` call fail before it has restarted anything, and then the router
runs what was undone until its next start: the code reports that as a failed
rollback, and `cut` says so. Two rules let two changes differ.

| Property | What would be wrong otherwise |
|---|---|
| `DriftIsVisible` | the drift report would call a configuration good that was not made from the rules beside it |
| `WebChangesOneRule` | a request of the page would drop another administrator's change |
| `SuccessMeansApplied` | the page would report a change as applied that the router does not run |
| `QuietRouterRunsItsRules` | after the last request the router would go on with rules other than those shown |

**Fairness.** Processes that run take their next step, and systemd starts what
is to be started. A process that waits for the lock gets it in the end: `flock`
is first come, first served among few processes. Requests and faults are never forced.

`operator_rules_restart` (expected violation): `docs/ADMIN.md:59` says that saved
rules are checked and applied, and that the former rules return if the start
fails. With one request, no fault and no slow start TLC undoes the change:
`commit_rules` calls `systemctl restart sing-box` (`admin_apply.py:386`) inside
`routes_lock`; the unit first runs `admin_apply.py --no-restart`
(`render.py:770`), which waits for the same lock; `systemctl` waits for it. After
30 s the change is undone, the second restart waits its 30 s too, and only
then, with the lock released, does the unit start, on the old rules.
The undo's restart also replaces the Starter that has read the new rules; if
that `systemctl` call fails (a fault of the other run), the old Starter stays,
and once it has the lock it brings the undone change back, consistently.

So where the unit has this `ExecStartPre`, no change is ever confirmed. The other
value of `prestart`, which the renderer offers and no caller asks for, is kept in
`operator_rules` to check the rest of the protocol, and `SuccessMeansApplied`
speaks of it alone.

## 6. Node transaction

### Modules

- `InstallTransaction`: runs of `install.sh` on one node.
- `MCInstallTransaction`: instances for TLC. `InstallTransactionProofs`: proofs.

### Correspondence to the code

| Model | Code |
|---|---|
| `releases`, `broken` | whole directories under `/etc/vpn-stack/releases`; directories that `rm -rf` has half removed |
| `current`, `previous` | the two links; `None` where there is none |
| `owned` | releases of whose own paths and units (those no other release has) any is on the host. What releases share points through `current` |
| `running` | the release the services were last started from |
| `latest` | what the snapshot behind the link `latest` holds; `Baseline` is the other snapshot, of the untouched host |
| `run` | locals of the run; `.from` is the release it found current, `.active` is `TRANSACTION_ACTIVE`, `.failing` is inside `on_exit` |
| `Scope` | `build_operation_scope`: paths of the new contract and of that of the current link |
| `TakeSnapshot`, `NameSnapshot` | `create_transaction_snapshots` |
| `PublishRelease`, `InstallLinks`, `SwitchPrevious`, `SwitchCurrent`, `StartServices`, `Retire`, `VerifyActive`, `PruneReleases`, `Commit` | the steps of `install_action` that change the node, in its order |
| `StopServices`, `Drop...`, `Copy...`, `RestorePaths`, `RestoreServices` | `restore_snapshot` |
| `SetPrevious`; `Remove`, `Purge` | the ends of `rollback_action` and `remove_action` |
| `RefusePublish`, `RefusePrune` | the two `die` a disk left by faults can cause |
| `Fails`, `Trap` | a command fails: errexit, then `on_exit` |
| `FailsInTrap` | errexit is off there: a failing command is passed over, `die` ends the run |
| `Killed` | SIGKILL or power loss; what is on disk stays |
| `found` | history: the node as the run found it |

The install lock makes runs exclude each other, so there is one run at a time.
A release's own paths count as one thing although they are restored one by
one, units before the links and programs after them: `owned` says that *some* are
there, which ends with the last one.

Left out: rendering and validation of contracts (pure, and before anything is
changed), packages, sysctl, SELinux and the contents of host files; the
limit of ten revisions; the staging directory, which any later prune removes;
the acceptance report. A purge is one step. Were it killed inside its `rm -rf`,
`latest` could lead nowhere, and `prune_revision_snapshots` would then refuse
every install until the link is removed by hand.

### Checks

`install_transaction` (324 000 states): three releases, so that one is current,
one previous and one pruned; installs, rollbacks, removals and purges in any
order for ever, two faults at any step.

| Property | What would be wrong otherwise |
|---|---|
| `LinkTargetsExist` | the release in use, or the one a rollback leads to, would be pruned |
| `FailedRunRestores` | a failed install would leave units or paths of the new release, or another link |
| `InstallLeavesOneRelease` | services or paths of the old release would stay after a successful install |
| `InstallGetsThrough` | some leftover of a fault would make every later install fail |

**Fairness.** A run takes its next step, and every release is requested again and
again (strong fairness, because the node is only sometimes idle). Rollbacks,
removals and faults are never forced. That *every* release is requested matters
(below). Two faults are a failing run and a failure of its trap.

`install_rollback` (expected violation): `CHANGELOG.md:405` says that a rollback
changes the links atomically. `switch_current_release` does (a new link, renamed
over the old), but `restore_snapshot` removes the link and then copies the saved
one. TLC ends a rollback between the two commands: no release is current.
The next install repairs it.

### What the model shows beside the properties

- Two faults can make a node refuse most installs. A pruning that fails after it
  has removed the old `previous` sends the run into the trap, which restores the
  link to it. If the restore stops before `current` is copied, the node has no
  `current`, so the next install does not replace `previous`, and the pruning
  refuses the link that leads nowhere. Every install is then undone after a
  good acceptance, except one of the very release that `previous` names.
- A release whose directory a pruning has left half removed cannot be installed
  (`immutable release collision`) until another release has been, whose pruning
  removes the rest.
- Paths and units of a run that was killed before its release was retired belong
  to neither contract of the next run: no later install retires them
  (`InstallLeavesOneRelease` assumes a host without such leftovers), a removal
  does, through the baseline, and if that removal fails they are not restored
  (`FailedRunRestores` speaks of the two releases the run is about).
- A failed install has already renamed `latest` to its own snapshot, so a rollback
  after it returns to the state before that install and not to the release before.

## 7. Fleet sessions

### Modules

- `FleetInstall`: sessions of `workflows.py` and `remote.py` over the nodes of a
  deployment; of a node's transaction only what a session can see of it.
- `MCFleetInstall`: two nodes, the exit installed before the gateway.
  `FleetInstallProofs`: proofs.

### Correspondence to the code

| Model | Code |
|---|---|
| `node[n].current`, `.accepted`, `.undo`, `.drift` | the link `current`, the release last accepted, what the snapshot `latest` leads back to, the answer of a comparison with the manifest |
| `node[n].unit` | the detached unit that runs `install.sh`: its action and the stage it is in |
| `Capture`, `Cutover`, `Commit`, `DropLinks`, `CopyLinks`, `AcceptRollback`, `Fail`, `Kill` | `InstallTransaction` in steps a session can tell apart |
| `Start`, `Look`, `LookFails`, `EnvDrifts`, `Choose` | `prepare_remote_session`: route, host key, preflight, agent, platform and privileges of every server (`Facts`, chosen freely at each look), then the environment, then what the operator picks |
| `session.prev`, `.base`, `.seen`, `.changed` | `previous_release_ids`, the state before the installation, the state of the last poll, the nodes changed |
| `Baseline`, `Dispatch`, `CommandFails`, `CommandReturns` | `install_remote_node`: idle check, upload and `systemd-run` under one unit name; the answer may be lost |
| `PollBusy`, `PollIdle`, `PreflightFails`, `TimesOut` | `wait_for_remote_install_completion`, one deadline for all polls |
| `CutoverObserved`, `Confirmed`, `Judge` | `install_cutover_observed`, `install_remote_node_with_recovery` |
| `Raise`, `Failed`, `Check`, `Ask` | `rollback_changed_nodes`, `verify_rollback_node`, a manual rollback |
| `Settle`, `VerifyPasses`, `VerifyFails` | `settle_transport_after_install`, `verify_postcutover` with its attempts |
| `Abort` | the workstation stops; the unit on the node goes on |

Left out: the persistence of host keys, menus, local files; of `maintain` the
package updates and the reboot. A look at that code: `systemctl reboot`
(`workflows.py:1329`) does not ask whether a transaction runs, and the wait after
it may find the server before it has gone down.

### Checks

`fleet_install`: one session in each mode on two nodes, old or without a stack;
on the exit an earlier session's unit may still run; two releases, two attempts
of the last verification. One session is enough for what is said of a session,
since what an earlier one can leave is in the initial states.

| Property | What would be wrong otherwise |
|---|---|
| `SuccessIsTrue` | a lost or late answer would be reported as an installed fleet |
| `RollbackIsTrue` | the operator would be told that nodes are back which are not |
| `UpgradeIsNotAbandoned` | a node whose answer was lost would be left on the new release, or with a unit that installs it later, by a session that reports a failure |
| `SessionEnds` | a busy or silent node would keep a session for ever |

**Fairness.** A session takes its next step, the operator's answer included
(weak fairness). A wait has one deadline for all its polls, so it ends even if
polls keep alternating between busy and idle (strong fairness of the deadline and
of the judgement after it). Nodes need do nothing.

## 8. Health and recovery

### Modules

- `HealthRecovery`: the check, its lock and document, the recovery, the unit's
  preparation, the timer, installations. `MCHealthRecovery`: instances.

### Correspondence to the code

| Model | Code |
|---|---|
| `broken` | what is wrong with the server; a part is named for what recovery does about it |
| `disk` | `health-state.json`; the times of successes as ages in periods of the timer |
| `run[r]` | the unit's process and checks from the command line: `.payload` is the document in hand, `.todo` the actions still to do, taken in `ActionOrder` |
| `Prepare`, `PrepareFails` | `ExecStartPre` of the unit: `network-apply` (`render.py:868`) |
| `Begin`, `Maintenance`, `Lock` | `acquire_install_read_lock`, `LOCK_PATH` |
| `CollectServices`, `Collected` | `collect_runtime_facts`: services first, the rest some seconds later |
| `HardReasons`, `Plan`, `Evidence`, `SameFailure`, `Eligible`, `Recovers`, `Judge` | the decision of `health`, its evidence of one particular failure and its cooldown |
| `Act`, `ActFails`, `Receipt` | `recover` and `_record_recovery_action`, one action after the other |
| `PostCheck`, `PostCheckFails`, `Write` | `_post_recovery_check` and the last write |
| `Abort` | a kill or a failing write at any step |
| `since`, `streak`, `early`, `shaken` | history: when actions really succeeded, how many recorded observations in a row asked for each, successes inside a cooldown, something done and not yet proven |

Left out: what only changes the wording of `degraded` (UDP buffers, softnet,
interface counters, TCP metrics).

### Checks

`health_recovery`: the timer's checks for ever and one from the command line, on
a gateway whose tunnel, router, front, qdisc, router path or root file system
break (two breaks in all), one installation, one fault (a kill or a missed period). The
confirmation gap is one period, as 5 minutes are against 2 with one period
missed, and the cooldown two. Two breaks let one failure follow or replace
another between two observations, one fault hits every step.

| Property | What would be wrong otherwise |
|---|---|
| `CooldownSurvives` | a kill would cost more than one early repetition of one action |
| `HealthyIsProven` | a recovery would be called successful on no or on old evidence |
| `ActsOnRepeatedFailure` | two different failures, or one and the memory of another, would restart a service |
| `BecomesRestored` | with the tunnel up and a sound host, a service or a setting would stay broken |

**Fairness.** The timer starts the unit in each period, a check that runs goes on,
an installation ends. An action that is tried over and over works at some time
(strong fairness of an effective action); without it nothing could be promised.

`health_unreached` (expected violation): `docs/PROJECT.md:127` says that health
runs every two minutes. The unit's `ExecStartPre` is `network-apply`, which ends
with an error while the tunnel's device is missing (`server_lifecycle.py:44-49`),
and systemd does not go on to `ExecStart` then. TLC breaks the tunnel once, with
no other fault, and the check that would restart `wg-quick` is never run again.
`BecomesRestored` therefore excludes a tunnel that is down; a check from the
command line does repair it.

## 9. Live verification

### Modules

- `VerifyVerdicts`: the verdicts as functions, from single checks through
  transports, front correlation and nodes to the exit code and the install gate.
- `LiveVerify`: the workstations and their runners. `MCLiveVerify`: instances.

### Correspondence to the code

| Model | Code |
|---|---|
| `runner[r].main`, `.proxy`, `.watchdog` | the processes of `render_vless_runner`: main shell, ephemeral sing-box client on port 18080, `watch_controller` |
| `.locked` | the descriptor of the `flock`, inherited by all of them |
| `.lease` | `controller.lease`: its age against 20 s, or gone with the directory |
| `.result` | `result.json`: who answered the probes (`via`), whether they worked, whether it is whole |
| `Enter`, `Launch`, `Probe`, `Report`, `Fails`, `Leave`, `Watchdog`, `Orphan` | the script; a signalled group whose main shell is gone ends too |
| `Start`, `Poll`, `Collect`, `Abandon`, `Stop`, `CleanUp` | `_run_public_profile`, `_start_vless_runner`, `_wait_for_vless_runner`, `_stop_vless_runner` |
| `Expire` | nobody renewed the lease: nobody polls, or other requests take long. The front captures between start and first poll (`verify.py:988`) do not renew it |
| `Decide`, `VlessOutcomes`, `HysteriaOutcomes` | `verify_live` and its exit code over `VerifyVerdicts` |
| `Kill`, `Crash` | SIGKILL of a main shell alone; a workstation that vanishes |

### Checks

`live_verify`: the workstation whose judgement is followed and another one, in
three kinds of verification (of a release on two nodes and on one, with the gate
of an installation, and the functional check after a rollback), one fault. The second workstation may start, hold the lock
and the port and vanish at any step.

| Property | What would be wrong otherwise |
|---|---|
| `ProbesUseOwnClient` | a client left by another run would answer the probes of this one |
| `AcceptedIsProven` | some mixture of partial verdicts would pass although a path, the front or a node was not shown to work |
| `RunnerEnds` | a vanished workstation would leave processes, the lock and the port taken |

**Fairness.** Processes on the node go on and a lease nobody renews runs out
(weak fairness of the node's steps taken together). Workstations and probes are
owed nothing, so `RunnerEnds` holds whatever they do.

The client ends only with its group here. `Launch` contains the case that the
port is taken; that it never is while the lock is free is what
`ProbesUseOwnClient` rests on, and why the descriptor must be inherited
(`vless_verify.py:390`).

## 10. Snapshots, traffic and the journal

### Modules

- `TrafficPaths`: the compiled rules of the router by class of traffic, resolvers,
  front, overlay and exit filter, with the operator's rules inserted before the
  policy's, as one function `Outcome`: where a connection leaves with the parts that
  are up. `Intended` is the policy in a sentence.
- `JournalWindows`: how problems of a time window are counted while journald works.
- `NodeSnapshot`: a collection, the agent's verdicts, and two judgements.
  `MCNodeSnapshot`: instances.

### Correspondence to the code

| Model | Code |
|---|---|
| `DualClasses`, `SingleClasses`, `Compiled` | `build_ru_routing_policy`, `build_single_gateway_routing_policy`, `RoutingPolicy.route_rules` |
| `AdminRules`, `Enabled`, `InsertIndex`, `Inserts`, `Applied` | `normalize_rule`, `reconcile_rules_with_catalog`, `route_insert_index`, `apply_admin_rules_to_config` |
| `Xray`, `Router`, `Through` | `render_gateway_xray`, `render_gateway_singbox` with the outbounds, the exit's forwarding rules |
| `journal`, `starts`, `kept` | messages, journal files, entries still on disk |
| `ReadRecent`, `Inventory`, `ReadChunk`, `EndHistory`, `InventoryAgain` | `summarize_problem_windows`: the recent query, older chunks, an inventory before and after the historical reading |
| `Coverage`, `Unproven`, `Unbroken` | `journal_coverage`, `journal_window_error`, the windows' completeness |
| `Artifacts` ... `Finish` | the collectors of `collect_runtime_facts` in their order, each with the time at which it begins |
| `RouterProbes`, `PlainProbes`, `FailedRequirements`, `RunProbes`, `ConfirmProbes` | `run_probes` for each plan: connections through the router and where they must end, others and what they need; `run_confirmed_probes` |
| `ServerPath`, `PublicFront`, `HostIntegrity`, `AgentVerdict` | the agent's own verdicts |
| `Record`, `Judge` | `_verify_snapshot` on the workstation, with `freshness_issues` by its clock |
| `Accept` | `verify_active_release` in `install.sh` with `validate_install_runtime`, by the node's clock |

### Checks

`node_snapshot`: one collection on each of the three kinds of node. Either up to
two parts (router, the Hysteria2 listener, the exit's resolver, the disk) break or
recover between any two collectors, with three ticks of a coarse clock and a
node whose clock agrees or is two ticks ahead; or, the parts at rest, a journal
of up to three messages in up to three files is appended to, rotated, vacuumed and drops
messages, or queries fail, two of these at any step. Parts and journal do not
influence each other, so they need not move together. Two breaks are a part that
fails between the two probe cycles and one that recovers. The windows keep
their order (5 < 30 minutes < 24 hours) and a chunk is one unit, so that history
takes several queries; the release is older and younger than the day's window.

Operator rules are a name or a public network with an outbound, one of them or two
that disagree, on either topology, so that a rule may be for an outbound the
topology lacks. Lists of one rule are looked at with at most one part down and of
two with none; the exit's drops of Russian destinations without operator rules.
The probes are those of a node without operator rules.

| Property | What would be wrong otherwise |
|---|---|
| `TrafficIsSplit` | an order of rules, or a part that is down, would send foreign traffic out of the gateway, or serve private or blocked destinations; an operator's rule would lose against the policy, go around the guards, or win when the topology has disabled it (all but `Exempt` traffic, see below) |
| `WindowsAreExact` | a file deleted or rotated between two queries, or a boundary, would make a window that is reported complete miss or double problems at some moment, even where the totals agree |
| `VerdictIsJust` | a snapshot would be verified though a needed part had long been down, a node failed on one bad moment, or a judge would be milder than the agent |

`WindowsAreExact` compares the readings of every moment of a window with what
happened at it (`Happened`), so that a problem counted twice does not make up for
one that is missing. It admits one loss: a drop whose notice journald writes only
after the window has closed is known to nobody. And it leaves out the window of no
length, that of a release installed at the very moment of the capture: the code
counts a failed query against a window only when the query's end is later than the
window's start (`end > since`, `server_agent.py:691`), so this window is called
complete even when the recent query has failed and its count is partial. The
snapshot reports that failure by itself (the cause "collector" of `Record`, and
`Accepted`), so no verdict rests on it; the limit was met when the proof of
`WindowsCountOnce` did not go through without it.

`ProbesGetThrough` is an assumption without constants, which TLC computes: with
everything up that a plan needs, the installed rules take every probe where it has
to end. It is what `JudgementIsJust` needs to know of the rules.

### What the model shows beside the properties

- UDP that a dual gateway's front carries goes over the overlay and meets neither
  the router's guards nor its blocked addresses; only literal private addresses
  are dropped. Neither do the direct names and the operator's rules reach it: with
  everything up it leaves at the exit, whatever they say. The documents say
  otherwise. The routing table of `docs/PROJECT.md:93-94` sends Russian names and
  addresses to `direct-ru` and blocked ones to `reject` for any protocol, and
  `docs/ADMIN.md:45` gives an operator's rule priority for all users. This is a
  finding in `PROJECT.json`. `TrafficIsSplit` states what the configuration means, so
  its `Intended` leaves this traffic out of the policy by name (`Exempt`), with the DNS
  of Hysteria2 clients, which goes before the guards. The exit may still drop Russian
  destinations (`blockRussian`).
- The exit's resolver stands behind a relay inbound of the sing-box there. When that
  process is down the far lookups fail although the overlay over WireGuard is up
  (`ExitResolver`).
- `route_insert_index` recognises the clients' DNS rule by its outbound
  `to-foreign`. A single gateway's has another, so there the operator's rules, and
  the guards among them, come first and apply to that DNS.
- A rule whose outbound the topology lacks is disabled and marked; when the outbound
  is back the mark goes and the rule stays disabled. The model takes the rules at one
  installation, so it does not see the return.
- Rules that resolve a name also name the server, so the DNS rules, a
  rejection among them, have no say in it.
- The probes called `wireguard_candidate` go over whichever candidate is selected.
- The agent degrades on `conntrack_table_full_5m` (`server_agent.py:2705`), and
  `_verify_snapshot` looks at the verdicts and not at that reason; the model's
  record has no such cause.
- A node clock that is ahead makes its snapshots look fresher by as much; the
  property carries that distance. An installation judges by one clock.

## 11. Proofs

`ClientPublicationProofs` (any processes, generations, payloads, contents and
limits, from `PublicationAssumption`, which says that the special values are
distinct from the data).

- The invariants alone are not inductive: `RecoveryNeverStuck`
  needs to know that the journal a publisher is about to write will match the disk.
  `IInv` ties each control point of the lock holder to the disk
  (`PlannedInv`: the planned previous generation is still the pointed-to one,
  the target is staged and sealed with the wanted payload and the source's
  notes, the journal is absent before `WriteJournal` and its own after), says
  that only the lock holder is under way (`LockInv`), and that every journal
  has a ready target and explains the pointer (`DiskInv`).
- The step lemmas take `IInv` one part at a time: `TypeStep`, `LockStep`,
  `DiskStep`, `PinStep`, `JobStep`, each with one case per action.
- Theorems: `TypeCorrect`, `RecoveryIsPossible`, `MigrationWindow`,
  `ReadersAreStable`, `NoticeIsPublished`, `RouteOwnershipSurvives`, and
  `PublicationIsAtomic`: the whole protocol with its faults implements
  `ArtifactStore` (`StoreInit`, `StoreStep`: `Activate` is the publication, `Edit`
  the edit, every other step a stutter).
- `RouteOwnershipSurvives` needs `RouteInv`: a publisher about to switch away from
  a legacy directory that held route state has adopted it, and nobody loses it
  again in between, for the legacy place cannot be changed while it is aside. Its
  second half, that no publication replaces stable state, is a case per action
  (`StableIsKept`).

`TransportFailoverProofs` (any durations and thresholds that satisfy
`PolicyAssumption`; as in the code, thresholds are at least two, and the first retry
delay exceeds neither the last one nor the time after which retries are forgotten;
`NoneAssumption` says that the null of the document is no record).

- `FailoverNeedsTwoCycles` relates two steps through the document, so its
  invariant `Describes` says what the document's failure evidence is worth: it
  was written by the last cycle, about the path and reason that cycle met, no
  attempt was published since, and a standby answer was really received. It also
  excludes that failure evidence and loss evidence stand together.
- `Confirmed` is the heart: a second confirmation needs prior evidence of the
  same path and reason within the gap. The `...Result` lemmas state what each
  policy branch returns, `EvaluateResult` combines them, `CycleStep` carries
  the invariant over a cycle.
- The properties of `TransportHistory` compare the document with a record that
  the controller does not read. `HInv` says how the two are related, over cycles
  that die before their write, outside selections and observations that fail:
  evidence of loss is exactly as old as the last pair (`LossInv`), evidence of
  recovery claims no more than the present run of good answers (`WindowInv`), a
  failed activation is on record with at least as many attempts and defers the
  next one until its delay is over (`FailureInv`), and a move off the preferred
  path leaves a retry window that is no older (`RetryInv`). `AgedLoss`,
  `AgedWindow`, `AgedFailure` and `AgedRetry` say that time changes none of it,
  `QuietCycle`, `AttemptCycle` and `InterruptedCycle` that the three ends of a
  cycle keep it.
- `LossDecision`, `WindowDecision` and `RetryDecision` state what
  `evaluate_transport_policy` may do with each; `LeavesOnMerit` and
  `LeavesAfterDelay` turn them into the four properties. Retry delays are powers of
  two: that they grow follows from counting the subsets of `1..n` (`PowerOfTwo`,
  `PowersGrow`, `DelaysGrow`), without an induction.
- Theorems: `TypeCorrect`, `FailoverIsConfirmed`, `LossIsConfirmed`,
  `ReturnIsEarned`, `BackoffIsKept`, `ReturnIsDelayed`.

`OperatorRulesProofs` (any requests, commands, rules and number of faults, from
`RulesAssumption`, which only keeps the kinds of processes apart).

- `DriftIsVisible` is not inductive: an undo brings a manifest back that was
  written long before. `FilesInv` says that every manifest, on disk or kept for
  an undo, names a configuration and the rules it was rendered from, which needs
  to know what is on disk between the writes of a commit; `LockInv` says that
  nobody else is between writes then.
- `WebChangesOneRule` needs `PageInv`: what a request wants is its edit of the
  rules whose generation it expects, and by the time it writes it has found them.
- The `...Effect` lemmas state once what each kind of step leaves of the other
  processes; `FilesKept` and `PageKept` dispose of the steps that write nothing.
- `SuccessMeansApplied` needs `AppliedInv`: while a client restarts the unit, the
  files hold its change, and a router that came up since has read it. Nobody else
  writes then, and the start of the unit that renders the files anew waits for the
  lock the client holds.
- Theorems: `TypeCorrect`, `DriftReportIsSound`, `PageLosesNoUpdate`,
  `AppliedMeansRunning`.

`TransportSwitchProofs` (any paths and number of counted failures, from
`SwitchAssumption`: there are at least two paths, and they and the documents are
kept apart from `None`; two are what the code has, the proof needs no more).

- `MutexInv` (`TRANSPORT_LOCK`), `PlaceInv` (a report exists from the end of a
  switch to its publication and at no other time) and `HandInv` (the document a
  controller has read is the one on disk unless it was replaced around the lock)
  make up `IInv`.
- The refinement shows the selector as it was before the switch in progress, of
  which the lock allows one (`OnlyMover`). A step that neither begins nor ends a
  switch of a controller (`Calm`) is then a move by somebody else or a stutter
  (`CalmSeen`); the end of the switch is its one step (`EndSeen`).
- `HistoryKept` takes the document a locked cycle writes from the one it has read
  (`FailureTypes`, `WrittenType`), which by `HandInv` is the one on disk or late: a
  record for the path the cycle speaks of is kept or counted on (`HistoryStep`).
- Theorems: `TypeCorrect`, `CyclesExclude` (`MutexInv`), `HistoryKept`, and
  `SwitchAtomic`: the requests implement `SelectorSwitch`.

`InstallTransactionProofs` (any releases and number of faults, from
`InstallAssumption`).

- All three properties look back over a run. `SnapshotInv` says that the
  snapshot is the node as the run found it, as long as the trap may need it;
  `LinkInv` which release each link names at each stage, so that what a rollback
  goes back to is always in use or in `previous`; `ProgressInv` how far an
  install has come; `RestoredInv` what a restore without a fault has put back;
  `KindInv` which stages belong to which run.
- `...Step` lemmas, one per stage of the script, carry all of them at once, for
  each needs another.
- Theorems: `TypeCorrect`, `LinksLeadToReleases`, `FailureIsUndone`,
  `InstallIsClean`.

`FleetInstallProofs` (any finite deployment, any order of its nodes, any
releases and number of sessions, from `FleetAssumption`).

- A report is about nodes the session has left long ago. `InstalledInv`,
  `UndoneInv` and `UpgradeInv` say what it has made of each of them; they last
  because an idle node does nothing by itself, and `DispatchStep` is the only
  step that makes a node busy, the one the session is at. `SeenInv` says what
  the last poll is worth: what it saw is still so, or it saw nothing, which
  `install_cutover_observed` counts as a change (`ChangeIsSeen`).
- `Ending` says what a session knows when it makes each kind of report; every
  step lemma proves it together with the invariant. `Greatest` gives that a next
  node exists, from the well-founded order of finite sets.
- Theorems: `TypeCorrect`, `InstalledIsInstalled`, `RolledBackIsBack`,
  `UpgradeIsKept`.

`VerificationProofs`, about `LiveVerify` (any workstations and runs, from
`VerifyAssumption` and `NoneAssumption`, which keep the names of things apart from
`None`).

- `ProbesUseOwnClient` holds because the lock's descriptor is inherited: whatever
  is left of a run holds it, so a free lock means a free port. `LockInv` says that
  the lock has one holder, a run that holds it as long as any of its processes
  lives, `ProcessInv` (`Sound`) which of them exist
  together, and `ResultInv` that a whole result was measured through the run's
  own client; `Moves` summarises what any step may make of one run.
- `AcceptedIsProven` joins the two halves of the component. `ControlInv` says
  that what a workstation has collected is the result of its own run;
  `WorstType`, `OverallSays` and `GateNodeSays` say what each verdict of
  `VerifyVerdicts` may be made of, `VlessOutcomesSay` and `HysteriaOutcomesSay`
  trace an accepted transport back to the result, and `AcceptedSays` combines
  them for every mixture of reports.
- Theorems: `TypeCorrect`, `OwnClientMeasures`, `AcceptanceIsEarned`.

`VerificationProofs`, about `JournalWindows` and `NodeSnapshot` (any plans, any
parts that break, any lengths of the windows and of a chunk, any clocks, journals
and bounds; from `JournalAssumption`, `SnapshotAssumption`, `FragileAssumption`,
which says that only parts of the node break, and `ProbesGetThrough`).

- Whether a window is complete is decided long after it was read, from inventories
  that journald has made stale meanwhile. `JournalInv` says that messages are in
  order and the current file has lost none. `ReadInv` says of every moment at which
  a window may begin, as far as the queries so far would let it be complete
  (`Readable`): what is still kept of it has been read, once. `EvidenceInv` says
  what an inventory is worth (`Tells`): it was taken after the queries it vouches
  for, so that all that happened since the moment it reaches back to was read and
  every notice of a drop is in it, and this stays true whatever is appended or
  deleted later (`JournalGrows`).
- `CoverageTells` is the step from the files on disk to the messages: in files that
  end in the current one without a gap nothing is missing. `QueryKeepsReadInv` is
  the step over the boundary of two queries, which `Included` gives to one of them.
  `ExactWindows` turns both into the property.
- `VerdictIsJust` needs to know since when each part is down, from a snapshot that
  says only what some collector saw at some time. `SeenInv` says of every collector
  that what it found in order worked at or after one of the stamps (`SeenBy`):
  a part that breaks later falls after all stamps there are (`BreakKeepsSInv`).
  For the parts of the traffic this follows from a cycle of probes without a failure
  (`CycleFacts`), which also gives, by `ProbesGetThrough`, that a gate fails only
  when something needed is down. `CycleInv` ties the number of cycles to the gate.
- `StepKeepsAInv` is the invariant's step once for all collectors; each has a lemma
  that supplies its fields. `VerifiedParts` turns stamps that are not stale into
  the age of every part, by either judge's clock; `OwnCauses` and `AgentAgrees`
  compare the agent's verdict with the causes of the judge.
- Theorems: `SnapshotInvariance` (`SInv`, with the types), `WindowsCountOnce`,
  `JudgementIsJust`.

`HealthRecoveryProofs` (any processes, any list of required services and any
bounds on the environment, from `HealthAssumption`; the cooldown is assumed
longer than the confirmation gap, as 900 s are than 300).

- A check decides from the file it has read and writes it much later. `LockInv`
  says that no other check writes in between, `Sound` what the holder may rely on
  at each step (its actions were asked for twice and are free to be done, its
  cooldowns are the file's, it says `healthy` only when nothing was found wrong),
  and `FileInv` the same of the file. One that does not hold the lock relies on
  its own document only (`OthersSound`), so that nobody disturbs it.
- `CooldownSurvives` is an account. `Lost` is the set of successes the file does
  not know of, but for the one whose receipt is written next; `BudgetInv` says
  that early repetitions, lost receipts and aborts still to come are never more
  than `MaxFaults`. An abort moves one from the last to the second (`OneLost`), a
  repetition from there to the first (`OneSettled`), time and every other step
  only take from it (`NothingLost`).
- `FirstAction` gives that the action recovery takes is one of those it was to
  take, from the least element of a set of naturals (`Least`, well-founded descent).
- Theorems: `TypeCorrect`, `ChecksExclude` (`LockInv`), `CooldownKept`,
  `HealthyIsEarned`, `ActsOnTwoObservations`.

Only model-checked: `TrafficIsSplit` and `ProbesGetThrough`, which say where a fold
over the compiled list of rules ends: nothing follows about a fold without
induction over sequences, and that the prover cannot instantiate. Both are finite,
and TLC computes the second for every set of parts that are up. Liveness
(`JournalIsResolved`, `LeavesDeadPath`, `ReturnsToPreferred`,
`QuietRouterRunsItsRules`, `InstallGetsThrough`, `SessionEnds`, `BecomesRestored`,
`RunnerEnds`) stays with TLC: temporal reasoning under fairness is out of the
prover's reach.

## 12. Not modelled

Rendering, parsing, wording, probes on the wire, SSH, HTTP, and everything the
inventory lists as pure functions: no state, well covered by unit tests.
Windows-specific junction handling is the same protocol with another primitive;
its non-atomic parts (`_set_junction` on an existing link) depend on NTFS and are
not modelled. Package maintenance and reboots, the interval metrics of the front
and the arithmetic of resource control are left for later (section 2). What is
left out of a modelled part is said in its section and in `PROJECT.json`.
