----------------------------- MODULE Supervisor -----------------------------
(***************************************************************************)
(* The supervised workers: run_worker on a thread per worker, the registry *)
(* of their health that the control worker ages and publishes, the         *)
(* incidents the main loop drains, and the two shutdown flags, one of the  *)
(* supervisor and one of the host, which are raised one after the other.   *)
(***************************************************************************)
EXTENDS Naturals, Sequences

CONSTANTS
    Workers,
    Control,       \* the worker that advances staleness
    HostStopped,   \* workers whose body polls the host's flag (the IPC server)
    SelfMarking,   \* workers whose body calls mark_running
    Locking,       \* workers whose body works under a mutex of its own
    MaxRestarts,   \* MAX_RESTARTS
    StaleAfter,    \* HEARTBEAT_STALE_MS, in control ticks
    MaxFaults      \* bound on the failures of each worker's own work

ASSUME SupervisorAssumption ==
    /\ Control \in Workers
    /\ HostStopped \subseteq Workers /\ SelfMarking \subseteq Workers /\ Locking \subseteq Workers
    /\ MaxRestarts \in Nat /\ MaxRestarts > 0
    /\ StaleAfter \in Nat /\ MaxFaults \in [Workers -> Nat]

VARIABLES
    pc,         \* where each worker's thread is
    restarts,   \* run_worker's count for each worker
    registry,   \* HealthRegistry: the state, restarts and heartbeat age per worker
    poisoned,   \* the workers that panicked while they held their own mutex
    incidents,  \* Supervisor.incidents
    stop,       \* Supervisor.shutdown
    shutdown,   \* the flag of the host and the main loop
    main,       \* the main loop: "polling" or "over"
    drained,    \* history: the incidents the main loop took
    faults,     \* history: how often the work of each worker failed
    fresh       \* history: the workers that completed a round since the last control tick

threads == <<pc, restarts, poisoned>>
flags   == <<stop, shutdown, main>>
history == <<drained, faults, fresh>>
vars    == <<threads, registry, incidents, flags, history>>

Registered(w) == registry[w].state # "absent"

\* Ages are kept up to the first value that counts as stale.
Older(n) == IF n > StaleAfter THEN n ELSE n + 1

\* The flag that the body of a worker polls.
Asked(w) == IF w \in HostStopped THEN shutdown ELSE stop

Exhausted(n) == n >= MaxRestarts

Goto(w, place) == pc' = [pc EXCEPT ![w] = place]

MarkRunning(w) ==
    registry' = [registry EXCEPT ![w].state = "running", ![w].age = 0]

Mark(w, state, n) ==
    registry' = [registry EXCEPT ![w].state = state, ![w].restarts = n]

-----------------------------------------------------------------------------
Init ==
    /\ pc = [w \in Workers |-> "new"]
    /\ restarts = [w \in Workers |-> 0]
    /\ registry = [w \in Workers |-> [state |-> "absent", restarts |-> 0, age |-> 0]]
    /\ poisoned = {} /\ incidents = <<>>
    /\ stop = FALSE /\ shutdown = FALSE /\ main = "polling"
    /\ drained = {} /\ faults = [w \in Workers |-> 0] /\ fresh = {}

\* The worker's thread starts: run_worker, up to its loop.
Spawn(w) ==
    /\ pc[w] = "new"
    /\ MarkRunning(w)
    /\ Goto(w, "top")
    /\ UNCHANGED <<restarts, poisoned, incidents, flags, history>>

\* Mutant of StopWorker: the backoff is one long sleep.
StopOutsideBackoff(w) ==
    /\ pc[w] \in {"top", "returned", "left"} /\ stop
    /\ Mark(w, "stopped", registry[w].restarts)
    /\ Goto(w, "done")
    /\ UNCHANGED <<restarts, poisoned, incidents, flags, history>>

\* run_worker sees the supervisor's flag at the head of its loop, in the
\* backoff, or when the body has returned or left as it was asked to.
StopWorker(w) ==
    /\ pc[w] \in {"top", "backoff", "returned", "left"} /\ stop
    /\ Mark(w, "stopped", registry[w].restarts)
    /\ Goto(w, "done")
    /\ UNCHANGED <<restarts, poisoned, incidents, flags, history>>

\* The body is entered.
Enter(w) ==
    /\ pc[w] = "top" /\ ~stop
    /\ IF w \in SelfMarking THEN MarkRunning(w) ELSE UNCHANGED registry
    /\ Goto(w, "work")
    /\ UNCHANGED <<restarts, poisoned, incidents, flags, history>>

\* The body completes a round and calls ctx.heartbeat(), a counter of its own.
Round(w) ==
    /\ pc[w] = "work" /\ w # Control /\ w \notin poisoned
    /\ fresh' = fresh \cup {w}
    /\ UNCHANGED <<threads, registry, incidents, flags, drained, faults>>

\* A round of the control worker: every staleness clock advances.
ControlTick ==
    /\ pc[Control] = "work"
    /\ registry' = [w \in Workers |->
          IF Registered(w) THEN [registry[w] EXCEPT !.age = Older(@)] ELSE registry[w]]
    /\ fresh' = {}
    /\ UNCHANGED <<threads, incidents, flags, drained, faults>>

\* The work fails: an error, a panic, or a return nobody asked for.  A panic
\* under the worker's mutex poisons it.
Fault(w) ==
    /\ pc[w] = "work" /\ w \notin poisoned /\ faults[w] < MaxFaults[w]
    /\ faults' = [faults EXCEPT ![w] = @ + 1]
    /\ \/ UNCHANGED poisoned
       \/ w \in Locking /\ poisoned' = poisoned \cup {w}
    /\ Goto(w, "returned")
    /\ UNCHANGED <<restarts, registry, incidents, flags, drained, fresh>>

\* The lock of a poisoned mutex is refused and the body returns the error.
LockRefused(w) ==
    /\ pc[w] = "work" /\ w \in poisoned
    /\ Goto(w, "returned")
    /\ UNCHANGED <<restarts, registry, poisoned, incidents, flags, history>>

\* The body polls its flag and returns.
BodyStops(w) ==
    /\ pc[w] = "work" /\ Asked(w)
    /\ Goto(w, "left")
    /\ UNCHANGED <<restarts, registry, poisoned, incidents, flags, history>>

\* run_worker finds no stop request and counts the return against the budget.
CountFailure(w) ==
    /\ pc[w] \in {"returned", "left"} /\ ~stop
    /\ restarts' = [restarts EXCEPT ![w] = @ + 1]
    /\ Mark(w, IF Exhausted(restarts'[w]) THEN "failed" ELSE "restarting", restarts'[w])
    /\ Goto(w, "report")
    /\ UNCHANGED <<poisoned, incidents, flags, history>>

\* Mutant of RecordFailure: the last failure is not the last.
RecordAndRetry(w) ==
    /\ pc[w] = "report"
    /\ incidents' = Append(incidents, [worker |-> w, restarts |-> restarts[w]])
    /\ Goto(w, "backoff")
    /\ UNCHANGED <<restarts, registry, poisoned, flags, history>>

\* record_failure, after which the thread ends or backs off.
RecordFailure(w) ==
    /\ pc[w] = "report"
    /\ incidents' = Append(incidents, [worker |-> w, restarts |-> restarts[w]])
    /\ Goto(w, IF Exhausted(restarts[w]) THEN "done" ELSE "backoff")
    /\ UNCHANGED <<restarts, registry, poisoned, flags, history>>

\* The backoff is over.
Restart(w) ==
    /\ pc[w] = "backoff" /\ ~stop
    /\ Goto(w, "top")
    /\ UNCHANGED <<restarts, registry, poisoned, incidents, flags, history>>

\* The main loop takes the incidents to journal them.  The round in which the
\* flag is raised still does.
TakeIncidents ==
    /\ main = "polling" /\ incidents # <<>>
    /\ drained' = drained \cup {incidents[i] : i \in DOMAIN incidents}
    /\ incidents' = <<>>
    /\ UNCHANGED <<threads, registry, flags, faults, fresh>>

\* The main loop ends: it was asked to, or the run had a deadline.
LeaveLoop ==
    /\ main = "polling"
    /\ main' = "over"
    /\ UNCHANGED <<threads, registry, incidents, stop, shutdown, history>>

\* request_stop of the host, and the same two stores after the main loop:
\* first the supervisor's flag, then the host's.
RaiseStop ==
    /\ ~stop
    /\ stop' = TRUE
    /\ UNCHANGED <<threads, registry, incidents, shutdown, main, history>>

\* Mutant of RaiseShutdown: the host's flag may be first.
RaiseShutdownAnyTime ==
    /\ ~shutdown
    /\ shutdown' = TRUE
    /\ UNCHANGED <<threads, registry, incidents, stop, main, history>>

RaiseShutdown ==
    /\ stop /\ ~shutdown
    /\ shutdown' = TRUE
    /\ UNCHANGED <<threads, registry, incidents, stop, main, history>>

\* What the thread of a worker does of its own accord.
Thread(w) ==
    \/ Spawn(w) \/ StopWorker(w) \/ Enter(w) \/ LockRefused(w) \/ BodyStops(w)
    \/ CountFailure(w) \/ RecordFailure(w) \/ Restart(w)

Next ==
    \/ \E w \in Workers : Thread(w) \/ Round(w) \/ Fault(w)
    \/ ControlTick \/ TakeIncidents \/ LeaveLoop \/ RaiseStop \/ RaiseShutdown

Spec == Init /\ [][Next]_vars

\* Threads that can run do, and both flags are raised once one is.  Rounds,
\* failures, the deadline and the host's request just happen.
FairSpec ==
    /\ Spec
    /\ \A w \in Workers : WF_vars(Thread(w))
    /\ WF_vars(TakeIncidents)
    /\ WF_vars(shutdown /\ LeaveLoop)
    /\ WF_vars(main = "over" /\ RaiseStop)
    /\ WF_vars(RaiseShutdown)

-----------------------------------------------------------------------------
(* Correctness *)

Failure == [worker : Workers, restarts : 1 .. MaxRestarts]

\* The variables keep their types, and no worker exceeds its restart budget.
TypeOK ==
    /\ pc \in [Workers -> {"new", "top", "work", "returned", "left", "report", "backoff", "done"}]
    /\ restarts \in [Workers -> 0 .. MaxRestarts]
    /\ registry \in [Workers -> [state : {"absent", "running", "restarting", "failed", "stopped"},
                                 restarts : 0 .. MaxRestarts, age : 0 .. StaleAfter + 1]]
    /\ poisoned \subseteq Locking
    /\ incidents \in Seq(Failure)
    /\ stop \in BOOLEAN /\ shutdown \in BOOLEAN /\ main \in {"polling", "over"}
    /\ drained \subseteq Failure
    /\ faults \in [Workers -> Nat]
    /\ fresh \subseteq Workers

Waiting == {incidents[i] : i \in DOMAIN incidents}

\* The failures of a worker that are due to be reported.
Due(w) == IF pc[w] = "report" THEN restarts[w] - 1 ELSE restarts[w]

\* Every failure that was counted becomes one incident, and only those.
FailuresAreReported ==
    /\ drained \cup Waiting = {f \in Failure : f.restarts <= Due(f.worker)}
    /\ drained \cap Waiting = {}
    /\ \A i, j \in DOMAIN incidents : incidents[i] = incidents[j] => i = j

\* What the status surface says of a worker is what its thread does: failed and
\* stopped threads are over, a running one is in its body or on its way there,
\* and a restarting one is not in its body, if the body marks itself running.
Honest(w) ==
    /\ registry[w].state = "failed" <=> Exhausted(restarts[w])
    /\ registry[w].state = "failed" => pc[w] \in {"report", "done"}
    /\ registry[w].state = "stopped" <=> pc[w] = "done" /\ ~Exhausted(restarts[w])
    /\ registry[w].state = "running" => pc[w] \in {"top", "work", "returned", "left"}
    /\ registry[w].state = "restarting" /\ w \in SelfMarking => pc[w] \in {"report", "backoff", "top"}
    /\ registry[w].restarts = restarts[w]

HealthIsHonest == \A w \in Workers : Honest(w)

\* A worker that left because it was asked to is not counted as failed: the flag
\* that run_worker looks at is up before any flag that a body looks at.
StopIsNoFailure ==
    \A w \in Workers : pc[w] = "left" => stop

\* The flags are raised in this order.
FlagsInOrder == shutdown => stop

\* A failure is reported under a number.
FailuresAreNumbered == \A w \in Workers : pc[w] = "report" => restarts[w] > 0

\* The inductive invariant of the proofs.
IInv ==
    /\ TypeOK /\ FailuresAreReported /\ HealthIsHonest /\ StopIsNoFailure /\ FlagsInOrder
    /\ FailuresAreNumbered

\* "After that the worker is marked failed and stays failed until the service
\* restarts": not even the stop of the service changes it.
FailedStaysFailed ==
    [][\A w \in Workers : registry[w].state = "failed" => registry'[w].state = "failed"]_vars

\* A stop, requested or due to the deadline, ends every worker, whatever it was
\* doing.
StopEndsWorkers ==
    (stop \/ main = "over") ~> \A w \in Workers : pc[w] = "done"

\* A failure is made loud: its incident is drained unless the main loop is over.
FailuresAreDrained ==
    incidents # <<>> ~> incidents = <<>> \/ main = "over"

\* Nothing is left behind by a stop or a failure.
AllIsSettled == StopEndsWorkers /\ FailuresAreDrained

\* "A worker that has reported progress within this window is considered alive."
ProgressIsAlive ==
    \A w \in fresh : registry[w].state = "running" => registry[w].age <= StaleAfter
=============================================================================
