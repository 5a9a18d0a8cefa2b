# Workstation Guardian: TLA+ models, TLC runs and TLAPS proofs

Workstation Guardian keeps a Windows workstation from being restarted by the
system's updater while work is in progress.  This directory holds models of the
parts of it whose correctness depends on *order* (which thread wrote first, what
was on the disk when the power went, which restart a permit belongs to) or on a
case distinction that nobody sees whole (what a configuration file, an event log or
a process list may say).  Paths below are relative to the repository.

    tlc -workers 2 -config MCRecovery.cfg MCRecovery     # model-check a run
    tlapm RecoveryProofs.tla                             # check a module's proofs

`PROJECT.json` lists the runs, the theorems, for each definition the source lines
it models, the hazards, and for each checked property a *mutant*: a definition
that stands beside the one it varies (its comment begins "Mutant of ..."), takes
its place for one run, and makes TLC find the property violated.

## 1. Inventory

| Component | Code | State | Operations |
|---|---|---|---|
| Recovery journal | `guardian-storage/src/lib.rs`, `guardian-service/src/journal.rs` | `journal.log` (append-only, length and checksum per record), the handle and the byte count under a mutex | `open`, `append` (rotates first when full), `rotate`, `read_all`, `session_ended_cleanly`, `read_previous_session` |
| Runtime life cycle | `guardian-service/src/{runtime,main}.rs`, `apps/guardian-ui/src/main.rs` | two stop flags, session id, boot identity, journal handle | `run` (configuration, recovery, marker, workers, main loop, clean shutdown), `request_stop`, `checkpoint`, `persist_state` |
| Maintenance state machine | `guardian-core/src/maintenance.rs`, `guardian-proto/src/model.rs` | phase, reboot permit, override mark | `advance` with its events; `RebootAuthorization::is_usable` |
| Worker supervision | `guardian-service/src/supervisor.rs` | health registry, incident list, stop flag; a restart counter per worker thread | `run_worker`, `mark_*`, `advance_staleness`, `record_failure`, `take_incidents` |
| Protection coordinator | `guardian-service/src/state.rs` | `ServiceState` under an `RwLock` | `reconcile_mode`, enter and exit maintenance, arm and disarm, tick, pending-reboot refresh, reports of the workers |
| Network recovery | `guardian-core/src/net.rs`, `guardian-network/src/*`, `guardian-win/src/{ras,wlan}.rs` | `NetworkState`: two link states, the redial schedule, ages, outage history | observe, `evaluate` once per round; dial, hang up, connect Wi-Fi |
| Update protection | `guardian-core/src/update_policy.rs`, `guardian-update`, `guardian-win/src/{policy,registry}.rs` | registry policy values, the name of the last divergence told | analyse, apply, verify |
| IPC server | `guardian-service/src/ipc.rs`, `guardian-win/src/pipe.rs` | a listening and a served pipe instance, the helper-connected flag | accept, authorise, answer the frames of one connection at a time |
| Session helper | `apps/guardian-session/src/main.rs` | a connection, the shutdown block of the interactive session | connect, subscribe, raise or drop the block on a push, release it when the connection is lost |
| Agent detection | `guardian-process/src/*`, `guardian-win/src/process.rs` | a snapshot, the process graph, the inventory | sweep, classify, group into sessions, attribute builds |
| Atomic files, state store | `guardian-storage/src/{lib,paths}.rs` | state file, its temporary file, documents set aside | atomic replace, load, quarantine |
| Configuration | `guardian-core/src/config.rs` | one document | load, migrate, validate, write back |
| Reboot evidence | `guardian-core/src/reboot.rs`, `guardian-win/src/{boot,eventlog,clock}.rs` | none | probe the registry for a pending restart, query the event log, classify a past restart |
| Windows bindings | the rest of `guardian-win` | none | input and output, with errors |
| Command line, desktop panel | `apps/guardianctl`, `apps/guardian-ui` | copies of the panel, the Run key | doctor, one-shot requests; single-instance check, restart as administrator, autostart |

Library crates are under `crates/`.

### How they interact

One process hosts everything.  `run` loads and repairs the configuration, reads the
old journal *before* it opens it, decides what became of the previous session,
appends its own start marker, and spawns up to five supervised workers: update,
agents, network (if enabled), control and ipc.  The workers share `ServiceState` (an
`RwLock`, taken once to read and once to write, never across both), the journal (a
mutex), the health registry (a mutex) and two shutdown flags.  The host, the
service binary or the desktop panel, raises both flags through `request_stop`, and
the panel may exit the process without waiting for `run` to return.  The workers
are not joined.  The session helper is a process of its own and talks over a
named pipe; so does the command line.  A restart of the panel as administrator
starts the new copy first, and that one waits for the old.

### What is hard here, and what makes each part correct

* **Recovery**: crashes and power losses between any two writes, rotation by
  either of two writers, an unsynced tail, a failed rename or create, the UI's
  exit racing the clean marker.  Correct: a verdict "clean" is true, a session
  that dies is never lost, rotation does not lose the identity of the session
  that runs, an explicit stop is marked.
* **Maintenance**: a permit that outlives what it was issued for: a second
  restart, another boot, its lifetime, its revocation, a crash.  Correct: one
  permit authorises at most one restart, on its boot, in its lifetime.
* **Supervision**: two flags raised one after the other and read by different
  parties, restart budgets, a backoff that a stop must cut short, incidents
  appended by workers and drained by the main loop, poisoned mutexes.  Correct:
  a stop is not a failure and ends everything; a failure is reported exactly once
  and the status surface never claims a dead worker runs.
* **Coordinator**: read, decide, write on state that another thread has changed
  meanwhile.  Correct: a revoked permit does not come back, a mode follows from
  facts that held at one moment.
* **Network**: a link that comes up and dies at once, an assessment that carries
  over from earlier rounds, a repair that may cost what still works.  Correct: dials
  follow the schedule, a promotion is earned, a session that is of use is kept,
  whichever uplink is there for good is used for good, and what is shown was seen.
* **Update protection**: policy values that another program changes between a
  check and its repair; a write or a read that fails among several.  Correct:
  "protected" is true of each value, a repair prevails, a divergence is told once.
* **IPC and session helper**: a client that leaves, stalls in mid-frame or says
  nothing; a wait that is cancelled just as a client arrives; a mode that is pushed
  only upon a subscription.  Correct: the block follows the mode, never outlives
  its connection, and nobody waits for ever.
* **Agents**: a sweep takes time, and the processes it looks at come, go and hand
  on their numbers.  Correct: work that was there all the time is protected, and
  nothing is taken for something else.
* **Storage**: a crash between any two file operations, a file in use, a second
  process that sets documents aside.  Correct: old or new, never part; evidence stays.
* **Configuration, evidence, links, doctor**: what cannot be read should not
  count as absent (section 5 says where it does).  Correct: a verdict is backed
  by what was read, what is in use is usable, repairs of what parsing kept are
  told and come to an end.
* **Panel**: copies that check, wait and start in any order.  Correct: no two
  runtimes, and the hand-over ends.

The full list, with lines, is under `hazards` in `PROJECT.json`.

## 2. Modules

| Module | Models |
|---|---|
| `JournalFile` | what the recovery code reads out of a journal file: pure operators |
| `Recovery` | a process's life as the journal records it (extends `JournalFile`) |
| `SessionHistory` | the abstract promise of recovery: outcome of the last session, what the next start may conclude |
| `Maintenance` | the phases and the permit |
| `Supervisor` | worker threads, registry, incidents, flags |
| `Coordinator` | the threads that share the maintenance state, the inventory and the mode |
| `Network` | the rounds of the network worker |
| `Session` | the pipe server, the programs that call it, the session helper and its block |
| `UpdateGuard` | a verification pass over the policy values, while others write them |
| `AtomicDocument` | the abstract promise of an atomic file: the document changes at once |
| `StateFile` | the saves of the state document, crashes, and the tool that sets it aside |
| `Signatures` | the signatures of agents and the verdict on one process: pure operators |
| `Agents` | processes that come and go, the sweep, the inventory (extends `Signatures`) |
| `Panel` | copies of the desktop panel, their hand-over, the helper, the Run key |
| `Lists` | what filtering and sorting make of a list, by position: pure operators |
| `Config`, `Evidence`, `Links`, `Doctor` | loading a configuration; the evidence of restarts; the answers about the uplinks; the report of `guardianctl doctor`: pure operators |
| `Startup` | starts that read what others wrote (composes the four) |
| `*Proofs` | the theorems of a component: `CoordinatorProofs` those of `Maintenance` too, `SessionProofs` those of `Panel`, `StartupProofs` those of `StateFile` |
| `MC*` | the definitions that a run's constants take |

### Recovery

`file` is the record sequence a reader finds under `journal.log`, `synced` the
length of the part that survives a power loss; `handle`, `written`, `rotating` and
`carried` are `Journal`'s fields and the locals of `rotate`; `lock` and `todo` are
the journal mutex and the appends its holder still owes, so that one critical
section of the code is a sequence of steps that a crash may cut anywhere.  An append
may fail before anything is written (`AppendFails`) or after the whole record is in the
file and only its flush or sync failed (`SyncFails`): then the caller sees an error
about a record that a reader finds, and that a power loss may take back.  A rotation
whose read of the old file fails goes on and carries nothing (`RotateBlind`).  `truth`
is a history variable: what the last session whose start append returned really
did (`ended`: its clean marker is written; `sure`: that append returned too); `failed`,
another one, says that a journal operation of this process has failed.  A start marker whose append
reported an error is an *orphan*: it is in the file, its session journals nothing.  A record carries only what recovery reads: its kind, and for a start marker
the session and the boot.  The payload of checkpoints is left out, and with it
which checkpoint `latest_checkpoint` reports.  Whether a checkpoint is synced depends
on the mode of the moment, hence nondeterministic.

`Recovery` implements `SessionHistory` under the mapping at its end (run `recovery`,
theorem `Refinement`): a start may take a clean session for unclean, never the
reverse, and between an unfinished session and the next start that records itself
somebody has reported a restart of the machine (`recovered.told`: it may be a session
that left only an orphan behind).
That a first run, with no journal at all, also raises an incident is in the code
(`build_unexpected_restart_incident` compares with the boot "unknown") and allowed.

### Maintenance

One action per event of `advance`, with the guards of its match arms; a rejected
event leaves the state as it is and is not a step.  The nonce of a permit is its
number.  The clock is monotone and the boot identity exact.  The requests that change this
state are refused in the shipped binary, which gives every pipe client the caller
class `InteractiveUser` (`ipc.rs:345`), and `ShutdownObserved`,
`UpdatePendingObserved` and `TtlChanged` have no caller outside tests: the module
says what the machine promises its callers, not what today's binary exercises.

### Supervisor

One thread per worker; `pc` is its place in `run_worker` (`returned`: the body came
back with an error, a panic or an unasked return; `left`: it came back because it
saw its flag).  `HostStopped` are the workers whose body polls the host's flag
instead of the supervisor's, `SelfMarking` those that call `mark_running`, `Locking`
those that hold a mutex of their own over their work.  A unit of a body's work is
assumed to return.  The memory is sequentially consistent; the code's relaxed loads of the flags
are reads of the latest store.

### Coordinator

The lock of `ServiceState` is held for one read or one write at a time.  Each thread
has a `pc` and, in `next`, what it decided and will write; between the two any other
thread may write.  `Ticked`, `Entered`, `Armed` and `Cleared` are what `advance`
makes of a state here; `Maintenance` has the machine in full.  Requests are served
one at a time by the `ipc` thread.  Which reasons to refuse an entry the inventory does
not give (a pending restart, a link that is down) is nondeterministic, because other
workers publish them at any time.  `revoked` is a history variable.

Two things the model shows that no property claims: a tick that read an armed state
can write MAINTENANCE after an exit has locked it (`ReadForTick`, the exit,
`WriteMaintenance`), and a mode may be stale between a write and the next `Derive`.
`OnlyExitLocks` and `ModeSettles` say what remains true.

### Network

`Round(o)` is one call of `evaluate` on the observation `o`, together with the actions
that `step` has the backend perform, section by section: the assessment (`Lost`,
`NotMeasured`, `Passed` or `Failed`), Wi-Fi, the account of aborts and outages, and
the repair (`NoRepair`, `RepairSession`, `Dial` or `Defer`).  `Sleep` is the wait that
the round returned, or more: a dial takes time.  `Restart` is a new worker, after a
failure or with a new service process.  Observations are arbitrary but for one thing:
whether probes are measured depends on the configuration (`probing`), which changes
only with a restart.  Times become ages, which saturate at `MaxAge`.  "No address" and
"no route" are one case (`dead`), since both warrant a redial; "some" stands for a
partial or a resolver failure, which do not.  How a machine's answers become an
observation is in `Links`.

Not in the model, because the worker never produces them: `ras_dialing`, `ras_error`
(with them the states AUTHENTICATING and FAILED) and cold standby.  Counters that are
only reported are left out, `wifi_enabled` is always on, `min_wifi_hold_secs` and
`success_quorum` have no reader in the code.  The jitter of a delay, at most a fifth
of it, is part of what `Sleep` allows.

### Session

`server` is the place of the ipc thread in its two loops, `listener` and `serving` the
two pipe instances: nobody, a client, or one that has closed its end ("left").  A frame
is two writes, so `inbox` may hold half of one; `outbox` is the answer that is still
unread.  Disconnecting or closing an instance discards both.  `wait_for_client` is four
steps (`Await`, `Accept` or `FindNobody`, `Cancel`) because a client may come between
the time-out and the cancellation.  Every request is one of nine, one for each way the
server answers.  `Silent` are the programs that may open a connection and say nothing.
The helper connects, shakes hands, subscribes, applies the one push that answers the
subscription, and waits for the next, which never comes: what brings it a new mode is
that the server releases connections that idle after they were served, upon which it
drops its block, connects again and subscribes again.

### UpdateGuard

One pass of `verify`: find out who manages the machine, read the values one by one, and,
if one has to be written, read them again, write what differs, read what was written
once more, and publish level and incident.  `Tamper` changes a value between any two of
these steps.  A value is absent, right, wrong or too large to read.  `held`, a history
variable, has the values that were harmless at some moment of the pass; `before` is
what the previous pass found changed.  A read error appears as the code has it: denied
access drops the value from the reading, any other error counts as absence.

### StateFile

`doc` and `tmp` hold the number of a save, nothing, or damage; `pc` is the place in
`AtomicFile::write` (`Create`, `Fill`, `Sync`, `Replace`, or `InUse` and `WriteFails`).
`Crash` tears what was not synced.  `ctl` is another process, `guardianctl
restore-policy`, which reads the document and moves aside what it cannot read, under the
first free name or the last.  `StateFile` implements `AtomicDocument` (run `storage`,
theorem `DocumentIsAtomic`), with the identity as mapping: the temporary file is
what is hidden.

### Signatures, Agents

In `Signatures` a pattern stands for the texts it matches, so a text is the set of the
patterns it contains; rules, vetoes, scores, confidence and the choice between
signatures are the engine's.  In `Agents` every process has a number and a birth; numbers
are used again.  `Snapshot` is one moment, `Open` and `Stamp` look at each process again
by its number, and find whatever has it by then; the path, the command line and the
time are read one by one, and each may fail.  `Publish`
builds graph, sessions, workloads and inventory from what was seen.  `steady` are the
processes that ran all the time.

`records` are the files that agents keep of their sessions, which outlive them: Claude
Code's has one entry for a number, with the time the process was created unless that
could not be parsed; Grok's is searched for the number alone, and an older entry may
come first.  Which agent writes which, and whether with a time, is given by `Recorder`
and `Stamping`.  `MaxWorkloads` is the code's cap of 64 recorded builds: beyond it those that started
last remain (`Truncated`).

The walk down the graph is what a breadth-first search meets (`Reach`), the walk up a
path that repeats no process and is as long as it can be (`Lineages`, `Ancestors`).
The code's depth of 64 is in the model; its limit of 512 processes in a subtree is not:
`AgentsAssumption` has no more numbers than that, so that the limit is never reached.

### Panel

A copy is absent, starting, waiting for the copy it replaces, up or gone, and hosts a
runtime that is being started, ready or ended.  A consent prompt holds the main thread
(`Free`).  Faults are counted: a wait given up, a process list that fails, a write of
the Run key that breaks off, a copy that is killed.  `mishaps` counts what may make
the helpers more or fewer than the copies: a helper that ended, one that a failed listing
overlooked (another is started), one that could not be started.

### Config, Evidence, Links, Doctor, Startup

The four are operators on records.  A configuration document is numbers with bounds,
lists of probes, signatures and rules with what validation asks of each; `Load` is
parse, migrate, validate, with the issues told.  Unknown fields are two sets: those
beside the sections, which serde keeps (`unknown`), and those within a section or an
entry, which it drops (`nested`, emptied by `Parsed`).  Names of phonebook entries are
compared without case (`SameName`, by the constant operator `Folded`).  A machine is the record of the answers
Windows gives: an error is an answer of its own.  `Startup` is the order in which `run` uses them: make
sure there is a file, read it, repair it, prune the logs, probe for a pending restart,
reconstruct the last one.  What filters or sorts a list does so by its positions
(`Picked`, `Sorted` in `Lists`), which a proof can follow without induction.  What a file, a machine, a
registry and a past can be is a set of records (`ConfigDocuments`, `LogRecords` and the like), to
which `StartupAssumption` confines the constants; `Words` are whatever can be an id, a
name, a path or a text.  The operator edits the file at any moment (`Edit`), and the
doctor may be asked before a start (`Examine`).  `told` is what was concluded last, and
from what, so that an invariant can compare the two.

## 3. Runs

| Run | Shows | States |
|---|---|---|
| `recovery` | verdicts, rotation, refinement, the stop that is marked, with every fault but torn writes | 596,964 |
| `maintenance` | single use, issue conditions, revocation, expiry | 15,902 |
| `supervisor` | incidents, honesty of the registry, the stop | 265,052 |
| `coordinator` | revoked permits stay revoked, only an exit locks, the mode settles, expiry is noticed | 316,826 |
| `network` | the dial schedule, promotion, hang-ups, that each uplink is used, that what is shown was seen | 62,334 |
| `session` | the block follows the mode and its connection, waits end | 87,872 |
| `update` | "protected" was true, repairs prevail and come to rest, a divergence is told once | 192,064 |
| `storage` | the document is atomic, evidence stays, a save ends | 280,430 |
| `agents` | running agents and their builds are protected up to the cap, no helper is taken for an interpreted agent, a session whose record has a time is resumed by its own process only | 414,336 |
| `panel` | two runtimes only as siblings, the hand-over ends | 87,024 |
| `startup` | what is used is usable, repairs are told and settle, conclusions are backed | 235,240 |
| `recovery_exit` (violation) | the panel's exit may beat the clean marker | |

`recovery_exit` states what a comment of the code says (quoted under `findings` in
`PROJECT.json`) and finds a behaviour of the model that breaks it.  Every other run
finishes without error.  A property that is a conjunction of named parts, such as
`StepsAreSafe`, has one mutant, which breaks one of its parts.

### Bounds

* *Recovery*: three records make the journal rotate within a session's opening
  records, within its checkpoints and within its shutdown records; three sessions let
  an older session's marker survive to mislead a third; two boots tell a crash from a
  restart.  The file may hold one record more than the process has counted
  (`MaxUncounted`), which is what a failed sync leaves.  `recovery_exit` needs one session in which nothing fails.
* *Maintenance*: lifetimes below, inside and above the range 1..3 are asked for, the
  clock runs to 5, two permits so that one replaces another, two boots.
* *Supervisor*: three workers, one of each way to poll and to mark; a budget of 2; a
  heartbeat that is stale after one tick; the control worker does not fail, ipc once,
  update as often as the budget.
* *Coordinator*: two permits, so that one replaces another and both can be revoked;
  agents bring WORKING by themselves, builds do not; the override phrase is needed when
  there is work.
* *Network*: one unit is half a check interval (10 s), so the minimum dial interval and
  the base interval are two, the schedule 0, 1, 3, 5, the stabilization three, that is
  two rounds; ages count to nine, three stabilizations, the largest threshold there is.
  A round may be one unit late.
* *Session*: the helper and one caller, which may be silent: the server serves one
  connection and queues one, so two programs fill it.  One instance that cannot be
  created, one death of the helper; any number of changes of the mode.
* *UpdateGuard*: two values of the core and a deadline, so that a change can be first or
  second in order, and of either class; one change by another program and one failed write (the
  first reading may differ from the desired values in every way); access denied to none, to a
  core value or to the deadline.  Passes are unbounded.
* *StateFile*: three names for documents set aside, as in the code, and four saves, so that the
  last name is used twice; two crashes, the second after a restart; three attempts of a rename (the
  code makes five: first, middle, last); four failing calls, one damage.
* *Agents*: three processes over three numbers: a chain of three, or a number used
  again.  An agent, a server that an interpreter runs and that names the packages of other
  agents, and a build that a user's signature takes for an agent; room for one build, so
  that a second one is too many.  The numbers are symmetric.
* *Panel*: three copies, so that two can replace or rival the first; one fault; the user
  starts copies without elevation.
* *Startup*: documents that each differ from the default in one respect or in a pair
  that interacts, three of them with fields that this build does not know, machines that
  each fail one check or link (with an entry in another spelling), eight registries, ten pasts; caps of
  two or three in place of the code's larger ones, and inputs at and beyond them; one edit.

### Fairness

* *Recovery*: the main thread, the control worker and whoever holds the mutex go on
  (they are operating-system threads); nothing about the user, faults or when a
  checkpoint falls due.  `StopIsMarked` excuses a process that ends and a journal
  operation that failed, which the history variable of `MCRecovery` remembers.
* *Maintenance*: the control worker's tick and the clock.
* *Supervisor*: each thread's own steps, the main loop's polling, and both stores of a
  stop once the first is made (they are adjacent statements).  Rounds of work, failures
  and requests just happen or do not.
* *Coordinator*: sweeps and ticks recur and who has begun an operation ends it (the
  workers loop forever and the lock is not held for long); requests, findings and expiry
  just happen.  `ExpiredIsCleared` rests on weak fairness of the tick although requests
  may disable it for a while: it stays enabled as long as the expired permit is in the
  state.
* *Network*: the worker goes on sleeping and looking; its properties are conditional on
  what it sees from some time on, and a restart counts as seeing nothing.
* *Session*: the server's thread runs.  A program finishes what it has begun, but a
  silent one need never begin.  A listening instance is found by one who tries again and
  again (strong fairness: `PipeClient::connect` polls every 25 ms).  The helper always
  tries again, and the operating system does not refuse its block for ever.  `InTime` is
  an assumption about milliseconds: from some time on nobody connects in the
  microseconds between a time-out of half a second and its cancellation, and the helper, which
  has two seconds for its next frame or read, takes them in time.  Without it two clocks could
  miss each other for ever, which no code excludes.
* *UpdateGuard*: passes follow each other (`WF(Pass)`); tampering and failures are
  bounded, so "in the end" means once they have stopped.
* *StateFile*: a save that has begun goes on; a document in use need not be released.
* *Panel*: the threads of a copy run; a prompt is answered or times out; an exit that
  waits in the queue of the main thread gets its turn between two commands (strong
  fairness).
* *Agents*, *Startup*: none.  `FileSettles` is about the number of changes of the file.

## 4. Proofs

For all values of the constants that satisfy the assumption of their module.  Each
component has an inductive invariant, which its run also checks (`IInv`, `MaintenanceInv`;
in `Startup` the properties themselves; of `PanelInv`, the run checks the part that
`CopiesAreSafe` is):

* `RecoveryProofs`: `TypeCorrect` and `MarksStay` whatever fails; from `IInv` without torn
  writes `VerdictCorrect`, `RotationCorrect`, `JournalCorrect` (both), `Refinement`.  These
  four assume `"tear" \notin Faults`: with torn writes they are false (section 5).  Failed
  writes, failed syncs, failed reads, failed renames and power losses are all in.  `IInv`
  says, without torn writes, that orphans aside the last start marker of the file is that
  of the session `truth` is about, with no unearned clean marker after it, or that there is
  none but orphans, which come last and only of a session that never recorded itself
  (`FileInv`, `RotationInv`, `ProcessInv`, `SessionInv`).  The verdict alone is not
  inductive, since a crash at any point of a rotation or shutdown must leave a file from
  which the next start concludes rightly, also where a power loss takes an orphan or an
  unacknowledged marker back.  `RotationKeepsSession` says that the last start marker is
  the running session's, and only after a failed operation of its own may there be none:
  never another session's.  `MarksStay` (`OnlyRotationUnmarks`: once the append of a clean
  marker has returned and a reader finds it, the session stays clean until the next one
  starts or a rotation begins) rests on `StartsInOrder`, `MarkIsLast` and `MarksAreDurable`,
  which hold even if writes tear: the sync that acknowledges a clean marker covers all the
  markers before it.  The lemmas on the reader of a file come first.
* `CoordinatorProofs`: `RevokedNeverReturns`, `ArmedNeedsPermit`,
  `OnlyTheUserLocks`.  That a revoked permit does not return is not inductive: one has
  to know what the threads are about to write.  `WritesNoOldPermit` says that every
  pending write carries no permit or the newest one, which no one has revoked; this
  rests on the tick writing only what it changed and on requests being served one by one.
  Of `Maintenance`, `MaintenanceInductive`, `PermitsAreSingleUse`, `GrantsAreCovered`,
  `DeadPermitsStayDead`: the strengthening is that the current permit is the newest one,
  as issued, not dead, and that an unconsumed one has authorised nothing.
* `SupervisorProofs`: `RegistryIsHonest`, `EachFailureOneIncident`,
  `StopsAreNoFailures`, `GivenUpForGood`.  The strengthening is the order of the
  flags and that a failure that waits to be reported has a number.
* `NetworkProofs`: `WindowStaysBounded`, `ShownStaysTrue`, `DialsAreOnSchedule`,
  `PromotionTakesAWindow`, `UsableSessionsAreKept`, `EveryStepIsSafe` (the last three
  together), for every schedule and all thresholds.  The strengthening relates ages: a
  link under verification is younger than its session, and the last dial is at least as
  old as the delay that was due, less what is still to be slept; and it relates the
  states of the links to the last observation.  `WindowStaysBounded` says that aborts never
  exceed one, so the window is never widened more than once: a round that finds the link
  healthy forgives an abort, and each new abort needs such a round.
* `SessionProofs`: `BlocksAreBacked`, for any number of programs.
  That the block never outlives its subscription is an invariant of the helper's steps;
  `SomebodyArrived` keeps what is served a client.  Of `Panel`, `PanelInductive` and `CopiesStaySafe`,
  for any number of copies and faults.  Two hosts are not told apart by what they are but
  by where they come from: `OriginsAreSound` says that who was started by a copy is
  elevated, and its starter is up or gone; `FamiliesAreSmall`, that while no wait was given
  up and no listing failed, any two copies past their check are siblings, or one waits for
  the other; `HelpersAreCounted` bounds the helpers by the copies that have not started one
  and by the mishaps.
* `UpdateGuardProofs`: `ProtectedIsTrue`, `TamperIsAlwaysTold`, `MismatchIsToldOnce`,
  `TamperIsToldExactly` (both), for any values in any order.  `NowIsHeld` and
  `ReadingsAreBacked` say, position by position, that what a reading calls harmless was so
  during this pass; `ReportedIsFirst` ties the one name that the worker remembers to all
  that the previous pass found; `StartsAtFirst` is about the loops.
* `AgentsProofs`: `ResumesAreOwn`, `BuildsAreProtected`, `AgentsAreProtected`,
  `AllWorkIsProtected` (the last two together), `HelpersAreLeftOut`, for any processes and signatures.  `IInv`
  is what a sweep may rely on although numbers are used again: a birth identifies a process
  (`BirthsIdentify`), and for a process that ran all the time the snapshot has its kind,
  its parent, its command line or none, and its birth or none (`SnapshotIsTrue`).  A build: the walk down from an
  agent meets what the agent started, through processes that are still there, so a session
  owns it, or as many builds as are recorded started no earlier.  An agent: where no process is below itself, of the agents that are as sure as
  High the one with the fewest below it is shadowed by none (least number over a finite
  set).  This theorem has a hypothesis on the signatures, `LooksOnlyAdd`: seeing more of a
  process that its name gives away does not lower its confidence below High.  The code does not
  force that of a user's signatures, and where it fails the claim does; it is true of the
  signatures and texts of the run (`MCAgents` asserts it).  `HelpersAreLeftOut` has none: a
  built-in signature with an interpreter's name has all the helper rules among its vetoes
  (`InterpretersHaveVetoes`), so whatever else the command line of a helper says, it is not
  counted as an agent of such a signature; of the others nothing is claimed (section 5).
  `ResumesAreOwn` is about records with a time; of those without, nothing is claimed either.
* `StartupProofs`: `LoadsAreSound`, `NothingIsMadeUp`, for any files, machines, registries,
  event logs, pasts and any `Folded`.  The lemmas go along the data: `Ranked` is a bijection, so `Picked` keeps
  order and members and `Sorted` invents none; a validated document is a document, is usable, and where
  it differs from what was read there is an issue (`ValidatedIsUsable`, `LoadTells`); an
  answer of the event log is a record that could be read (`QueryAnswers`,
  `GatheredIsRead`), a quorum has a probe that passed, a link that is up has a session,
  one that is absent has none that could be listed (`SeenProbes`, `SeenLinks`), a report without a failed check has none above "info"
  (`CleanBill`).  Typed records and a document in use (`UsedIsUsable`) make both
  properties inductive.  Of `StateFile`, `OnlyWholeIsRenamed`, `DocumentIsAtomic` (the
  refinement), `EvidenceIsKept`: `RenamesWhole` needs `SaveUnderWay`, that between flush and
  rename the temporary file is the present save's, whatever an earlier crash has left there;
  `SlotIsFree` is what keeps evidence.

The assumptions on constants (`RecoveryAssumption` and its like) are types, and the
relations that the code's own constants have; TLC evaluates them in every run.

Model-checked only:

* liveness (`StopIsMarked`, `PermitEnds`, `AllIsSettled`, `StateSettles`, `UplinkRecovers`,
  `BlockFollows`, `WaitsEnd`, `RepairsPrevail`, `QuietInTheEnd`, `SavesEnd`, `HandOverEnds`,
  `FileSettles`), since liveness under fairness is beyond the prover used;
* the pruning of logs and the elapsed time of a round, which are sums over lists and
  are reached only by induction; no theorem depends on them.

## 5. Assumptions, and where code and text disagree

* The memory is sequentially consistent; x86-64 gives the code's flags as much.
* The wall clock does not go back and the boot identity is exact, except in `Evidence`,
  which derives the identity from clock and uptime as the code does.
* A unit of a worker's work returns; a prompt is answered or times out.
* Wording, formatting, logging and layout are abstracted, and the payload of a checkpoint.
* `truncate`, `observe_shutdown`, `tick_with_pending_reboot` and
  `HealthRegistry::heartbeat` have no caller outside tests.

### Divergences seen

The comments and documents of the program promise some things that the code, as
modelled, does not do.  Where a definition states the promise, it stands last in the
module (under "What ... the code does not do") and no run checks it; TLC finds it false.

* *Recovery.*  Records after a torn one are not read, so a tear in the middle of the journal
  hides every later session (`CleanVerdictIsTrue` with `"tear"` in `Faults`;
  `guardian-storage/src/lib.rs:282`, `:460`).  A rotation after the clean marker, by the control
  worker's last checkpoint, carries the start marker alone, and the session counts as
  unclean; `OnlyRotationUnmarks` excepts it.  A clean marker of which only the sync failed may be found by one reader
  and, after a power loss, not by the next (`:451`-`:454`); a start marker of which only the
  sync failed leaves a session in the file that journals nothing.  A rotation that cannot read
  the old file drops the session's start marker (`:568`-`:569`).
* *Supervisor.*  A heartbeat does not reach the registry, so a worker that makes progress
  becomes stale (`ProgressIsAlive`; `supervisor.rs:93`, `:220`).
* *Coordinator.*  A failed sweep publishes an empty inventory and ends WORKING
  (`FailedSweepKeepsWorking`; `runtime.rs:333`).
* *Network.*  Without enabled probes a session that is up is hung up (`UnmeasuredIsKept`;
  `net.rs:566`, `:942`); a session that is lost opens no outage (`OutageIsReported`;
  `net.rs:859`, `:885`).  The internet is shown healthy while Wi-Fi's probes fail, and down
  while a fresh session is still verified; the account shows the session as disconnected while
  it reconnects with the session up.
* *Session.*  A client that arrives between a time-out and its cancellation is disconnected
  (`ArrivalsAreKept`; `docs/architecture.md:220`); one that never speaks is given one idle
  window after the other (`QuietAreReleased`; `ipc.rs:140`); the helper's end is not
  noticed (`LossIsReported`; `README.md:92`).  Every caller counts as an interactive user (`ipc.rs:342`-`:345`), where
  `docs/security.md:64`-`:81` derives the principal from the caller's token and lets an
  administrator enter maintenance over the pipe: his operations are always refused.
* *UpdateGuard.*  A second value that is changed while a first one is still told of is not told
  (`NewTamperIsTold`); a value that cannot be read makes the walk over a key repeat for
  ever (`PassEnds`; `registry.rs:421`); the first pass drops its incident
  (`runtime.rs:131`); a deadline too large to be read counts as absent; absent
  deadlines are written by a repair although they are harmless; `PolicyBackend` reports no
  read error, so the back-off of the worker is never used.
* *StateFile.*  A document that is merely in use is set aside
  (`WholeIsNotSetAside`; `lib.rs:66`), after which the next call says that nothing was
  installed (`NothingIsGuessed`; `install.rs:38`).  No save records an original value, so
  `restore-policy` restores nothing.  Temporary files left by a crash stay.
* *Agents.*  A build under an agent of confidence Possible keeps the machine in WORKING
  (`PossibleNeverBlocks`; `docs/agent-detection.md:34`); `OwnedBuildsAreProtected` asks for
  High, and claims nothing of the others.  Builds beyond the 64th are not recorded
  (`engine.rs:855`).  In a loop of reused numbers two
  agents leave each other out (`AgentIsNeverLost`; `graph.rs:13`); number and time
  may be those of a successor (`IdentityIsDetected`; `process.rs:179`).  A helper
  under node whose command line has a package that one of eight signatures knows gets no
  helper vetoes from them and counts as that agent (`HelpersAreNoAgents`; `builtins.rs:127`,
  `README.md:197`).  Grok's sessions are found by the number alone, and a record of Claude
  Code without a start time is believed, so that the session of an earlier process may be
  offered (`AnyResumeIsOwn`; `adapters.rs:86`, `:101`, `:172`, `:218`).  A user's
  signature that replaces one of an interpreter loses its vetoes; adapters are looked up
  among the built-in ones only; `user_workload_rules` are validated and not used.
* *Configuration.*  A field that this build does not know is kept beside the sections only;
  within a section, or an entry of a list, it is dropped in parsing and lost, without an
  issue, as soon as anything else of the document is repaired (`UnknownFieldsSurvive`;
  `config.rs:7`, `model.rs:1120`, `docs/architecture.md:181`).  A document all of whose probes are invalid is emptied by the first
  load and given the default probes by the second, so validation is not idempotent
  (`docs/testing.md:62`); the default document may replace one that appears meanwhile, and a repair
  an operator's edit (`runtime.rs:597`); a newer schema's number is rewritten; a missing field
  makes its whole section, hence the document, default.
* *Evidence.*  One weak indicator means "probably pending", where the comment asks for two
  (`reboot.rs:27`, `:84`); the boot identity may change within a boot when the clock is
  set; the name of a record's provider is read where its first string is, so that a
  requested restart is confirmed only by accident (`eventlog.rs:233`).
* *Doctor, links, logs.*  What cannot be listed or read counts as not there or harmless: a phonebook
  (`doctor.rs:588`, "no entries", passed), the sessions (`ras.rs:424`, the link is absent and
  may be dialled again), the wireless service, the configuration file, the journal, the size
  of the logs, the keys of a policy manager (`NothingUnlistedIsAbsent` states two of them).
  `connect_wifi` knows no SSID but that of a connection that is there, so it never brings
  one up.  The report is on
  the standard paths also when another data directory is set; the live log, which is never rotated, is
  never pruned.
* *Panel.*  The tray's tick is not read back (`main.rs:913`); start-up at logon shows as on
  with only the helper's entry; consents given twice to one copy start two; a copy that
  is left while it starts does not stop its runtime in order; plain copies started together
  may both end.

## 6. Not modelled, and why

* Cold standby, `ras_dialing` and `ras_error` in `Network`: no caller produces them.  The
  records of the outage history, which nothing reads back.
* The restoration of original policy values: no document holds any (above).
* The message window's answers to the end of a session, the enumeration of sessions,
  the security descriptor of the pipe, buffers and handles of the Windows bindings: input
  and output without a decision.
* The texts of rules and paths, exclusions by path, rendering of events and incidents,
  the window and its pages, output formats, the installer's copying: formatting and data.
* Which checkpoint recovery reports.

What could follow: `Coordinator`'s pending writes as a refinement of `Maintenance` with lost
updates; the outage records; the attribution of a checkpoint to its session; the answers
of the message window when the session ends while the block is being released.
