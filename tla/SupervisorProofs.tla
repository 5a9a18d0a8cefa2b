-------------------------- MODULE SupervisorProofs --------------------------
(***************************************************************************)
(* For every set of workers and every restart budget: what the registry    *)
(* shows of a worker is what its thread does, a stop is never counted as a *)
(* failure, every counted failure becomes one incident, and a worker that  *)
(* was given up stays so.                                                  *)
(***************************************************************************)
EXTENDS Supervisor, TLAPS

\* What the registry records of a worker.
Entry == [state : {"absent", "running", "restarting", "failed", "stopped"},
          restarts : 0 .. MaxRestarts, age : 0 .. StaleAfter + 1]

\* The part of the invariant that is about single workers.
WorkerInv ==
  TypeOK /\ HealthIsHonest /\ StopIsNoFailure /\ FlagsInOrder /\ FailuresAreNumbered

LEMMA FlagsType == TypeOK /\ [Next]_vars => stop' \in BOOLEAN /\ shutdown' \in BOOLEAN
<1> SUFFICES ASSUME TypeOK, [Next]_vars PROVE stop' \in BOOLEAN /\ shutdown' \in BOOLEAN
  OBVIOUS
<1>1. stop \in BOOLEAN /\ shutdown \in BOOLEAN
  BY DEF TypeOK
<1>2. CASE RaiseStop
  BY <1>1, <1>2, Zenon DEF RaiseStop
<1>3. CASE RaiseShutdown
  BY <1>1, <1>3, Zenon DEF RaiseShutdown
<1>4. CASE UNCHANGED flags \/ UNCHANGED <<stop, shutdown>>
  BY <1>1, <1>4, Zenon DEF flags
<1> QED
  BY <1>2, <1>3, <1>4 DEF Next, vars, Thread, Spawn, StopWorker, Enter, Round, ControlTick, Fault,
     LockRefused, BodyStops, CountFailure, RecordFailure, Restart, TakeIncidents, LeaveLoop

LEMMA OlderType == ASSUME NEW n \in 0 .. StaleAfter + 1 PROVE Older(n) \in 0 .. StaleAfter + 1
BY SupervisorAssumption DEF Older

\* The two ways an entry of the registry changes.
LEMMA MarkRunningEffect ==
  ASSUME TypeOK, NEW w \in Workers, MarkRunning(w)
  PROVE  /\ registry' \in [Workers -> Entry]
         /\ \A v \in Workers \ {w} : registry'[v] = registry[v]
         /\ registry'[w].state = "running" /\ registry'[w].restarts = registry[w].restarts
<1>1. registry \in [Workers -> Entry] /\ 0 \in 0 .. StaleAfter + 1
  BY SupervisorAssumption DEF TypeOK, Entry
<1>2. registry' = [registry EXCEPT ![w] = [[registry[w] EXCEPT !.state = "running"] EXCEPT !.age = 0]]
  BY <1>1 DEF MarkRunning, Entry
<1> QED
  BY <1>1, <1>2 DEF Entry

LEMMA MarkEffect ==
  ASSUME TypeOK, NEW w \in Workers, NEW state \in {"restarting", "failed", "stopped"},
         NEW n \in 0 .. MaxRestarts, Mark(w, state, n)
  PROVE  /\ registry' \in [Workers -> Entry]
         /\ \A v \in Workers \ {w} : registry'[v] = registry[v]
         /\ registry'[w].state = state /\ registry'[w].restarts = n
<1>1. registry \in [Workers -> Entry]
  BY DEF TypeOK, Entry
<1>2. registry' = [registry EXCEPT ![w] = [[registry[w] EXCEPT !.state = state] EXCEPT !.restarts = n]]
  BY <1>1 DEF Mark, Entry
<1> QED
  BY <1>1, <1>2 DEF Entry

\* A step that leaves a worker alone leaves what is said of it true.
LEMMA HonestElsewhere ==
  ASSUME NEW v, Honest(v),
         registry'[v] = registry[v], restarts'[v] = restarts[v], pc'[v] = pc[v]
  PROVE  Honest(v)'
BY DEF Honest, Exhausted

LEMMA WorkerInvInit == Init => WorkerInv
<1>1. Init => stop \in BOOLEAN /\ shutdown \in BOOLEAN /\ ~shutdown
  BY Zenon DEF Init
<1> QED
  BY <1>1, SupervisorAssumption DEF Init, WorkerInv, TypeOK, HealthIsHonest, StopIsNoFailure,
     FlagsInOrder, FailuresAreNumbered, Exhausted, Honest, Failure

\* Every action keeps the invariant of the single workers.
LEMMA WorkerInvNext == WorkerInv /\ [Next]_vars => WorkerInv'
<1> SUFFICES ASSUME WorkerInv, [Next]_vars PROVE WorkerInv'
  OBVIOUS
<1> USE SupervisorAssumption
<1>t. stop' \in BOOLEAN /\ shutdown' \in BOOLEAN
  BY FlagsType DEF WorkerInv
<1>1. ASSUME NEW w \in Workers, Spawn(w) PROVE WorkerInv'
  <2>1. ~Exhausted(restarts[w])
    BY <1>1 DEF Spawn, WorkerInv, HealthIsHonest, Honest
  <2>2. TypeOK'
    BY <1>1, <1>t, MarkRunningEffect DEF Spawn, Goto, WorkerInv, TypeOK, flags, history, Entry
  <2>3. HealthIsHonest'
    <3>1. Honest(w)'
      BY <1>1, <2>1, MarkRunningEffect, SMTT(30) DEF Spawn, Goto, WorkerInv, TypeOK, HealthIsHonest, Honest,
         Exhausted
    <3>2. ASSUME NEW v \in Workers \ {w} PROVE Honest(v)'
      BY <1>1, MarkRunningEffect, HonestElsewhere DEF Spawn, Goto, WorkerInv, TypeOK, HealthIsHonest
    <3> QED BY <3>1, <3>2 DEF HealthIsHonest
  <2> QED
    BY <1>1, <2>2, <2>3 DEF Spawn, Goto, WorkerInv, TypeOK, StopIsNoFailure, FlagsInOrder,
       FailuresAreNumbered, flags
<1>2. ASSUME NEW w \in Workers, StopWorker(w) PROVE WorkerInv'
  <2>1. registry[w].restarts \in 0 .. MaxRestarts /\ ~Exhausted(restarts[w])
    BY <1>2 DEF StopWorker, WorkerInv, TypeOK, HealthIsHonest, Honest
  <2>2. TypeOK'
    BY <1>2, <1>t, <2>1, MarkEffect DEF StopWorker, Goto, WorkerInv, TypeOK, flags, history, Entry
  <2>3. HealthIsHonest'
    <3>1. Honest(w)'
      BY <1>2, <2>1, MarkEffect, SMTT(30) DEF StopWorker, Goto, WorkerInv, TypeOK, HealthIsHonest, Honest,
         Exhausted
    <3>2. ASSUME NEW v \in Workers \ {w} PROVE Honest(v)'
      BY <1>2, <2>1, MarkEffect, HonestElsewhere
         DEF StopWorker, Goto, WorkerInv, TypeOK, HealthIsHonest
    <3> QED BY <3>1, <3>2 DEF HealthIsHonest
  <2> QED
    BY <1>2, <2>2, <2>3 DEF StopWorker, Goto, WorkerInv, TypeOK, StopIsNoFailure, FlagsInOrder,
       FailuresAreNumbered, flags
<1>3. ASSUME NEW w \in Workers, Enter(w) PROVE WorkerInv'
  <2>1. ~Exhausted(restarts[w])
    BY <1>3 DEF Enter, WorkerInv, HealthIsHonest, Honest
  <2>2. TypeOK'
    BY <1>3, <1>t, MarkRunningEffect DEF Enter, Goto, WorkerInv, TypeOK, flags, history, Entry
  <2>3. HealthIsHonest'
    <3>1. CASE w \in SelfMarking
      <4>1. Honest(w)'
        BY <3>1, <1>3, <2>1, MarkRunningEffect, SMTT(30) DEF Enter, Goto, WorkerInv, TypeOK, HealthIsHonest,
           Honest, Exhausted
      <4>2. ASSUME NEW v \in Workers \ {w} PROVE Honest(v)'
        BY <3>1, <1>3, MarkRunningEffect, HonestElsewhere
           DEF Enter, Goto, WorkerInv, TypeOK, HealthIsHonest
      <4> QED BY <4>1, <4>2 DEF HealthIsHonest
    <3>2. CASE w \notin SelfMarking
      BY <3>2, <1>3, <2>1, <2>2, SMTT(30) DEF Enter, Goto, WorkerInv, TypeOK, HealthIsHonest, Honest, Exhausted
    <3> QED BY <3>1, <3>2
  <2> QED
    BY <1>3, <2>2, <2>3 DEF Enter, Goto, WorkerInv, TypeOK, StopIsNoFailure, FlagsInOrder,
       FailuresAreNumbered, flags
<1>4. ASSUME NEW w \in Workers, Round(w) PROVE WorkerInv'
  BY <1>4, <1>t DEF Round, WorkerInv, TypeOK, HealthIsHonest, Honest, StopIsNoFailure,
     FlagsInOrder, FailuresAreNumbered, flags, threads
<1>5. CASE ControlTick
  <2>1. \A w \in Workers : /\ registry'[w] \in Entry
                           /\ registry'[w].state = registry[w].state
                           /\ registry'[w].restarts = registry[w].restarts
    BY <1>5, OlderType DEF ControlTick, Registered, Entry, WorkerInv, TypeOK
  <2>2. registry' \in [Workers -> Entry]
    BY <1>5, <2>1 DEF ControlTick
  <2>3. TypeOK'
    BY <1>5, <1>t, <2>2 DEF ControlTick, WorkerInv, TypeOK, flags, threads, Entry
  <2> QED
    BY <1>5, <2>1, <2>3 DEF ControlTick, WorkerInv, HealthIsHonest, Honest, StopIsNoFailure,
       FlagsInOrder, FailuresAreNumbered, flags, threads
<1>6. ASSUME NEW w \in Workers, Fault(w) PROVE WorkerInv'
  <2>1. faults' \in [Workers -> Nat] /\ poisoned' \subseteq Locking
    BY <1>6 DEF Fault, WorkerInv, TypeOK
  <2>2. TypeOK'
    BY <1>6, <1>t, <2>1 DEF Fault, Goto, WorkerInv, TypeOK, flags
  <2>3. HealthIsHonest'
    BY <1>6 DEF Fault, Goto, WorkerInv, TypeOK, HealthIsHonest, Honest, Exhausted
  <2> QED
    BY <1>6, <2>2, <2>3 DEF Fault, Goto, WorkerInv, TypeOK, StopIsNoFailure, FlagsInOrder,
       FailuresAreNumbered, flags
<1>7. ASSUME NEW w \in Workers, LockRefused(w) PROVE WorkerInv'
  BY <1>7, <1>t DEF LockRefused, Goto, WorkerInv, TypeOK, HealthIsHonest, Honest, StopIsNoFailure,
     FlagsInOrder, FailuresAreNumbered, flags, history
<1>8. ASSUME NEW w \in Workers, BodyStops(w) PROVE WorkerInv'
  BY <1>8, <1>t DEF BodyStops, Asked, Goto, WorkerInv, TypeOK, HealthIsHonest, Honest, StopIsNoFailure,
     FlagsInOrder, FailuresAreNumbered, flags, history
<1>9. ASSUME NEW w \in Workers, CountFailure(w) PROVE WorkerInv'
  <2> DEFINE n == restarts[w] + 1
             state == IF Exhausted(n) THEN "failed" ELSE "restarting"
  <2>1. restarts[w] \in 0 .. MaxRestarts /\ restarts[w] < MaxRestarts
    <3>1. registry[w].state # "failed"
      BY <1>9 DEF CountFailure, WorkerInv, HealthIsHonest, Honest
    <3>2. ~Exhausted(restarts[w])
      BY <3>1 DEF WorkerInv, HealthIsHonest, Honest
    <3> QED BY <3>2 DEF Exhausted, WorkerInv, TypeOK
  <2>2. n \in 0 .. MaxRestarts /\ n > 0
    BY <2>1
  <2>3. restarts' = [restarts EXCEPT ![w] = n] /\ restarts'[w] = n
    BY <1>9 DEF CountFailure, WorkerInv, TypeOK
  <2>4. Mark(w, state, n)
    BY <1>9, <2>3 DEF CountFailure
  <2>5. state \in {"restarting", "failed", "stopped"}
    OBVIOUS
  <2>6. /\ registry' \in [Workers -> Entry]
        /\ \A v \in Workers \ {w} : registry'[v] = registry[v]
        /\ registry'[w].state = state /\ registry'[w].restarts = n
    <3> HIDE DEF n, state
    <3> QED BY <2>2, <2>4, <2>5, MarkEffect DEF WorkerInv
  <2>7. TypeOK'
    <3>1. restarts' \in [Workers -> 0 .. MaxRestarts]
      <4> HIDE DEF n
      <4> QED BY <2>2, <2>3 DEF WorkerInv, TypeOK
    <3>2. pc' = [pc EXCEPT ![w] = "report"]
      BY <1>9 DEF CountFailure, Goto
    <3>3. UNCHANGED <<poisoned, incidents, flags, history>>
      BY <1>9 DEF CountFailure
    <3> QED
      BY <1>t, <2>6, <3>1, <3>2, <3>3 DEF WorkerInv, TypeOK, flags, history, Entry
  <2>8. HealthIsHonest'
    <3>1. pc' = [pc EXCEPT ![w] = "report"] /\ pc'[w] = "report"
      BY <1>9 DEF CountFailure, Goto, WorkerInv, TypeOK
    <3>2. Honest(w)'
      BY <2>3, <2>6, <3>1 DEF Honest, Exhausted
    <3>3. ASSUME NEW v \in Workers \ {w} PROVE Honest(v)'
      BY <2>3, <2>6, <3>1, HonestElsewhere DEF WorkerInv, TypeOK, HealthIsHonest
    <3> QED BY <3>2, <3>3 DEF HealthIsHonest
  <2> QED
    <3> HIDE DEF n
    <3> QED
      BY <1>9, <2>2, <2>3, <2>7, <2>8 DEF CountFailure, Goto, WorkerInv, TypeOK, StopIsNoFailure,
         FlagsInOrder, FailuresAreNumbered, flags
<1>10. ASSUME NEW w \in Workers, RecordFailure(w) PROVE WorkerInv'
  <2>1. [worker |-> w, restarts |-> restarts[w]] \in Failure
    BY <1>10 DEF RecordFailure, WorkerInv, TypeOK, FailuresAreNumbered, Failure
  <2>2. TypeOK'
    <3>1. incidents' \in Seq(Failure)
      BY <1>10, <2>1 DEF RecordFailure, WorkerInv, TypeOK
    <3>2. pc' \in [Workers -> {"new", "top", "work", "returned", "left", "report", "backoff", "done"}]
      BY <1>10 DEF RecordFailure, Goto, WorkerInv, TypeOK
    <3>3. UNCHANGED <<restarts, registry, poisoned, flags, history>>
      BY <1>10 DEF RecordFailure
    <3> QED BY <3>1, <3>2, <3>3 DEF WorkerInv, TypeOK, flags, history
  <2>3. HealthIsHonest'
    BY <1>10, <2>2, SMTT(30) DEF RecordFailure, Goto, WorkerInv, TypeOK, HealthIsHonest, Honest, Exhausted
  <2> QED
    BY <1>10, <2>2, <2>3 DEF RecordFailure, Goto, WorkerInv, TypeOK, StopIsNoFailure, FlagsInOrder,
       FailuresAreNumbered, flags
<1>11. ASSUME NEW w \in Workers, Restart(w) PROVE WorkerInv'
  BY <1>11, <1>t DEF Restart, Goto, WorkerInv, TypeOK, HealthIsHonest, Honest, StopIsNoFailure,
     FlagsInOrder, FailuresAreNumbered, flags, history
<1>12. CASE TakeIncidents
  BY <1>12, <1>t DEF TakeIncidents, WorkerInv, TypeOK, HealthIsHonest, Honest, StopIsNoFailure,
     FlagsInOrder, FailuresAreNumbered, flags, threads
<1>13. CASE LeaveLoop
  BY <1>13, <1>t DEF LeaveLoop, WorkerInv, TypeOK, HealthIsHonest, Honest, StopIsNoFailure,
     FlagsInOrder, FailuresAreNumbered, history, threads
<1>14. CASE RaiseStop \/ RaiseShutdown
  BY <1>14, <1>t DEF RaiseStop, RaiseShutdown, WorkerInv, TypeOK, HealthIsHonest, Honest, StopIsNoFailure,
     FlagsInOrder, FailuresAreNumbered, history, threads
<1>15. CASE UNCHANGED vars
  BY <1>15 DEF vars, history, threads, flags, WorkerInv, TypeOK, HealthIsHonest, Honest, StopIsNoFailure,
     FlagsInOrder, FailuresAreNumbered
<1> QED
  BY <1>1, <1>2, <1>3, <1>4, <1>5, <1>6, <1>7, <1>8, <1>9, <1>10, <1>11, <1>12, <1>13, <1>14,
     <1>15 DEF Next, Thread

-----------------------------------------------------------------------------
\* The incidents.

\* Nothing is due or taken twice by a step that touches neither.
LEMMA ReportedElsewhere ==
  ASSUME FailuresAreReported, UNCHANGED <<incidents, drained>>,
         \A w \in Workers : Due(w)' = Due(w)
  PROVE  FailuresAreReported'
BY DEF FailuresAreReported, Waiting, Failure

LEMMA RecordStep ==
  ASSUME WorkerInv, FailuresAreReported, NEW w \in Workers, RecordFailure(w)
  PROVE  FailuresAreReported'
<1> DEFINE f == [worker |-> w, restarts |-> restarts[w]]
<1>1. f \in Failure /\ Due(w) = restarts[w] - 1 /\ restarts[w] \in Nat
  BY DEF RecordFailure, WorkerInv, TypeOK, FailuresAreNumbered, Failure, Due
<1>2. f \notin drained /\ f \notin Waiting
  BY <1>1 DEF FailuresAreReported
<1>3. Due(w)' = restarts[w] /\ \A v \in Workers \ {w} : Due(v)' = Due(v)
  BY DEF RecordFailure, Goto, Due, WorkerInv, TypeOK
<1>4. /\ DOMAIN incidents' = DOMAIN incidents \cup {Len(incidents) + 1}
      /\ Len(incidents) + 1 \notin DOMAIN incidents
      /\ \A i \in DOMAIN incidents : incidents'[i] = incidents[i]
      /\ incidents'[Len(incidents) + 1] = f
  BY <1>1 DEF RecordFailure, WorkerInv, TypeOK
<1>5. Waiting' = Waiting \cup {f} /\ drained' = drained
  BY <1>4 DEF Waiting, RecordFailure, history
<1>6. \A g \in Failure : g.restarts <= Due(g.worker)' <=> g.restarts <= Due(g.worker) \/ g = f
  <2> SUFFICES ASSUME NEW g \in Failure
               PROVE  g.restarts <= Due(g.worker)' <=> g.restarts <= Due(g.worker) \/ g = f
    OBVIOUS
  <2>1. CASE g.worker = w
    <3>1. g = f <=> g.restarts = restarts[w]
      BY <2>1 DEF Failure
    <3>2. g.restarts \in Nat
      BY SupervisorAssumption DEF Failure
    <3> QED BY <2>1, <3>1, <3>2, <1>1, <1>3
  <2>2. CASE g.worker # w
    <3>1. g.worker \in Workers \ {w} /\ g # f
      BY <2>2 DEF Failure
    <3> QED BY <3>1, <1>3
  <2> QED BY <2>1, <2>2
<1>7. (drained \cup Waiting)' = {g \in Failure : g.restarts <= Due(g.worker)}'
  <2> HIDE DEF f
  <2>1. drained' \cup Waiting' = {g \in Failure : g.restarts <= Due(g.worker)} \cup {f}
    BY <1>5 DEF FailuresAreReported
  <2>2. {g \in Failure : g.restarts <= Due(g.worker)}'
          = {g \in Failure : g.restarts <= Due(g.worker)} \cup {f}
    BY <1>1, <1>6 DEF Failure
  <2> QED BY <2>1, <2>2
<1>8. (drained \cap Waiting)' = {}
  BY <1>2, <1>5 DEF FailuresAreReported
<1>9. \A i, j \in DOMAIN incidents' : incidents'[i] = incidents'[j] => i = j
  <2> HIDE DEF f
  <2>1. \A i \in DOMAIN incidents : incidents[i] # f
    BY <1>2 DEF Waiting
  <2> QED BY <1>4, <2>1 DEF FailuresAreReported
<1> QED
  BY <1>7, <1>8, <1>9 DEF FailuresAreReported

LEMMA ReportedNext == WorkerInv /\ FailuresAreReported /\ [Next]_vars => FailuresAreReported'
<1> SUFFICES ASSUME WorkerInv, FailuresAreReported, [Next]_vars PROVE FailuresAreReported'
  OBVIOUS
<1>1. ASSUME NEW w \in Workers, RecordFailure(w) PROVE FailuresAreReported'
  BY <1>1, RecordStep
<1>2. CASE TakeIncidents
  <2>1. Waiting' = {} /\ drained' = drained \cup Waiting
    BY <1>2 DEF TakeIncidents, Waiting
  <2>2. \A w \in Workers : Due(w)' = Due(w)
    BY <1>2 DEF TakeIncidents, Due, threads
  <2> QED
    BY <1>2, <2>1, <2>2 DEF TakeIncidents, FailuresAreReported, Failure
<1>3. ASSUME NEW w \in Workers, CountFailure(w) PROVE FailuresAreReported'
  <2>1. Due(w)' = Due(w) /\ \A v \in Workers \ {w} : Due(v)' = Due(v)
    BY <1>3 DEF CountFailure, Goto, Due, WorkerInv, TypeOK
  <2> QED
    BY <1>3, <2>1, ReportedElsewhere DEF CountFailure, history
<1>4. ASSUME NEW w \in Workers, NEW from, from # "report", pc[w] = from,
             NEW to, to # "report", Goto(w, to), UNCHANGED <<restarts, incidents, drained>>
      PROVE  FailuresAreReported'
  <2>1. \A v \in Workers : Due(v)' = Due(v)
    BY <1>4 DEF Goto, Due, WorkerInv, TypeOK
  <2> QED
    BY <1>4, <2>1, ReportedElsewhere
<1>5. ASSUME NEW w \in Workers,
             \/ Spawn(w) \/ StopWorker(w) \/ Enter(w) \/ Fault(w) \/ LockRefused(w) \/ BodyStops(w)
             \/ Restart(w)
      PROVE  FailuresAreReported'
  BY <1>5, <1>4 DEF Spawn, StopWorker, Enter, Fault, LockRefused, BodyStops, Restart, history
<1>6. ASSUME UNCHANGED <<pc, restarts, incidents, drained>> PROVE FailuresAreReported'
  BY <1>6, ReportedElsewhere DEF Due
<1>7. CASE UNCHANGED vars \/ ControlTick \/ LeaveLoop \/ RaiseStop \/ RaiseShutdown
  BY <1>7, <1>6 DEF vars, threads, history, ControlTick, LeaveLoop, RaiseStop, RaiseShutdown
<1>8. ASSUME NEW w \in Workers, Round(w) PROVE FailuresAreReported'
  BY <1>8, <1>6 DEF threads, Round
<1> QED
  BY <1>1, <1>2, <1>3, <1>5, <1>7, <1>8 DEF Next, Thread

LEMMA ReportedInit == Init => FailuresAreReported
BY DEF Init, FailuresAreReported, Waiting, Due, Failure

-----------------------------------------------------------------------------
(* The theorems *)

\* The types, the honest registry and the reports are an inductive invariant of
\* the supervisor.
THEOREM Inductive == Spec => []IInv
<1>1. Init => IInv
  BY WorkerInvInit, ReportedInit DEF WorkerInv, IInv
<1>2. IInv /\ [Next]_vars => IInv'
  BY WorkerInvNext, ReportedNext DEF WorkerInv, IInv
<1> QED
  BY <1>1, <1>2, PTL DEF Spec

\* The registry tells the truth about every thread.
THEOREM RegistryIsHonest == Spec => []HealthIsHonest
<1>1. IInv => HealthIsHonest
  BY DEF IInv
<1> QED
  BY <1>1, Inductive, PTL

\* Each counted failure is one incident, waiting or taken.
THEOREM EachFailureOneIncident == Spec => []FailuresAreReported
<1>1. IInv => FailuresAreReported
  BY DEF IInv
<1> QED
  BY <1>1, Inductive, PTL

\* A body that was asked to leave is not counted as failed.
THEOREM StopsAreNoFailures == Spec => []StopIsNoFailure
<1>1. IInv => StopIsNoFailure
  BY DEF IInv
<1> QED
  BY <1>1, Inductive, PTL

\* A worker that was given up stays so.
THEOREM GivenUpForGood == Spec => FailedStaysFailed
<1>1. IInv /\ IInv' /\ [Next]_vars =>
        [\A w \in Workers : registry[w].state = "failed" => registry'[w].state = "failed"]_vars
  <2> SUFFICES ASSUME IInv, IInv', [Next]_vars, NEW w \in Workers, registry[w].state = "failed"
               PROVE  registry'[w].state = "failed"
    OBVIOUS
  <2>1. Exhausted(restarts[w]) /\ restarts[w] \in Nat /\ MaxRestarts \in Nat
    BY SupervisorAssumption DEF IInv, HealthIsHonest, Honest, TypeOK
  <2>2. restarts'[w] = restarts[w] \/ restarts'[w] = restarts[w] + 1
    <3>1. CASE UNCHANGED restarts
      BY <3>1
    <3>2. ASSUME NEW v \in Workers, CountFailure(v)
          PROVE  restarts'[w] = restarts[w] \/ restarts'[w] = restarts[w] + 1
      BY <3>2 DEF CountFailure, IInv, TypeOK
    <3> QED
      BY <3>1, <3>2 DEF Next, Thread, vars, threads, Spawn, StopWorker, Enter, Round, ControlTick,
         Fault, LockRefused, BodyStops, RecordFailure, Restart, TakeIncidents, LeaveLoop, RaiseStop,
         RaiseShutdown
  <2>3. Exhausted(restarts[w])'
    BY <2>1, <2>2 DEF Exhausted
  <2> QED
    BY <2>3 DEF IInv, HealthIsHonest, Honest
<1> QED
  BY <1>1, Inductive, PTL DEF Spec, FailedStaysFailed
=============================================================================
