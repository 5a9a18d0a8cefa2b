---------------------------- MODULE Coordinator ----------------------------
(***************************************************************************)
(* The protection coordinator: the state that the service's threads share, *)
(* and how each of them changes it.  The lock is held for one read or one  *)
(* write at a time, so an operation reads, decides and writes on what may  *)
(* have changed in between.  Writes of the maintenance state replace it    *)
(* as a whole; the mode is derived again after them, by another read and,  *)
(* if it differs, another write.                                           *)
(***************************************************************************)
EXTENDS Naturals

CONSTANTS
    AutoWorking,        \* agents.auto_working
    ProtectStandalone,  \* agents.protect_standalone_workloads
    RefuseWithWork,     \* MaintenancePolicy.refuse_with_protected_work
    MaxArms             \* bound on the permits that are issued

ASSUME CoordinatorAssumption ==
    /\ AutoWorking \in BOOLEAN /\ ProtectStandalone \in BOOLEAN /\ RefuseWithWork \in BOOLEAN
    /\ MaxArms \in Nat

Threads == {"agents", "update", "control", "ipc"}

\* What an inventory shows: nothing to protect, a build of its own, an agent, or
\* nothing because the sweep failed.
Inventory == {"none", "build", "agent", "failed"}

VARIABLES
    inventory,   \* ServiceState.agents
    maintenance, \* ServiceState.maintenance: phase, permit, entered_with_override
    mode,        \* ServiceState.mode
    pc,          \* where each thread is in its operation
    next,        \* what it is about to write
    expired,     \* the permits whose lifetime is over
    armed,       \* how many permits were issued
    revoked      \* history: the permits that were taken out of the state

shared == <<inventory, maintenance, mode>>
local  == <<pc, next>>
vars   == <<shared, local, expired, armed, revoked>>

\* Permits are numbered from 1 in the order of issue; 0 is none.
Locked == [phase |-> "locked", permit |-> 0, override |-> FALSE]

\* A thread that is not about to write has nothing.
Nothing == "nothing"

-----------------------------------------------------------------------------
(* What advance() makes of a maintenance state *)

Entered(overrode) == [phase |-> "maintenance", permit |-> 0, override |-> overrode]

Armed(m, id) == [m EXCEPT !.phase = "armed", !.permit = id]

Cleared(m) == [m EXCEPT !.phase = "maintenance", !.permit = 0]

\* Mutant of Ticked: an expired permit locks.
TickedShut(m) == IF m.permit \in expired THEN Locked ELSE m

Ticked(m) == IF m.permit \in expired THEN Cleared(m) ELSE m

-----------------------------------------------------------------------------
(* Decisions *)

\* AgentInventory::warrants_working
WarrantsWorking(found) == found = "agent" \/ (found = "build" /\ ProtectStandalone)

\* What reconcile_mode derives.
ModeFor(m, found) ==
    IF m.phase # "locked" THEN "maintenance"
    ELSE IF AutoWorking /\ WarrantsWorking(found) THEN "working" ELSE "normal"

\* maintenance_blockers is not empty: work in the inventory, or one of the
\* reasons that other workers publish whenever they find them, a restart that is
\* pending or a link that is not up.
Blocked(reasons) == inventory \in {"build", "agent"} \/ reasons # {}

-----------------------------------------------------------------------------
Init ==
    /\ inventory = "none"
    /\ maintenance = Locked /\ mode = "normal"
    /\ pc = [t \in Threads |-> "idle"] /\ next = [t \in Threads |-> Nothing]
    /\ expired = {} /\ armed = 0 /\ revoked = {}

At(t, place) == pc[t] = place

Goto(t, place) == pc' = [pc EXCEPT ![t] = place]

\* Thread t is through with what it had to write, and goes on or is done.
Leave(t, place) ==
    /\ Goto(t, place)
    /\ next' = [next EXCEPT ![t] = Nothing]

\* Thread t has read the state and will write m.
WillWrite(t, m, place) ==
    /\ Goto(t, place)
    /\ next' = [next EXCEPT ![t] = m]

\* The agents worker enumerates the processes.  When that fails it publishes an
\* inventory without agents, which says so.
Sweep ==
    /\ At("agents", "idle")
    /\ \E found \in Inventory : WillWrite("agents", found, "publish")
    /\ UNCHANGED <<shared, expired, armed, revoked>>

\* set_agents, before it reconciles.
SetAgents ==
    /\ At("agents", "publish")
    /\ inventory' = next["agents"]
    /\ Leave("agents", "derive")
    /\ UNCHANGED <<maintenance, mode, expired, armed, revoked>>

\* set_update_report, before it reconciles.
SetUpdateReport ==
    /\ At("update", "idle")
    /\ Goto("update", "derive")
    /\ UNCHANGED <<shared, next, expired, armed, revoked>>

\* Mutant of Derive: only an exit would end the mode MAINTENANCE.
DeriveUnlessMaintenance(t) ==
    /\ At(t, "derive")
    /\ LET m == IF mode = "maintenance" THEN mode ELSE ModeFor(maintenance, inventory)
       IN  IF m = mode THEN Goto(t, "idle") /\ UNCHANGED next
                       ELSE WillWrite(t, m, "apply")
    /\ UNCHANGED <<shared, expired, armed, revoked>>

\* reconcile_mode reads and derives.
Derive(t) ==
    /\ At(t, "derive")
    /\ LET m == ModeFor(maintenance, inventory)
       IN  IF m = mode THEN Goto(t, "idle") /\ UNCHANGED next
                       ELSE WillWrite(t, m, "apply")
    /\ UNCHANGED <<shared, expired, armed, revoked>>

\* reconcile_mode writes.
Apply(t) ==
    /\ At(t, "apply")
    /\ mode' = next[t]
    /\ Leave(t, "idle")
    /\ UNCHANGED <<inventory, maintenance, expired, armed, revoked>>

\* The decisions of enter_maintenance, exit_maintenance, arm_reboot and
\* disarm_reboot.  A refused request leaves no trace.
ReadForEnter ==
    /\ At("ipc", "idle") /\ maintenance.phase = "locked"
    /\ \E phrase \in {"none", "wrong", "right"}, reasons \in SUBSET {"restart", "link"} :
          /\ Blocked(reasons) /\ RefuseWithWork => phrase = "right"
          /\ WillWrite("ipc", Entered(Blocked(reasons) /\ RefuseWithWork), "enter")
    /\ UNCHANGED <<shared, expired, armed, revoked>>

ReadForExit ==
    /\ At("ipc", "idle") /\ maintenance.phase # "locked"
    /\ WillWrite("ipc", Locked, "exit")
    /\ UNCHANGED <<shared, expired, armed, revoked>>

ReadForArm ==
    /\ At("ipc", "idle") /\ maintenance.phase # "locked" /\ armed < MaxArms
    /\ armed' = armed + 1
    /\ WillWrite("ipc", Armed(maintenance, armed'), "arm")
    /\ UNCHANGED <<shared, expired, revoked>>

ReadForDisarm ==
    /\ At("ipc", "idle") /\ maintenance.permit # 0
    /\ WillWrite("ipc", Cleared(maintenance), "disarm")
    /\ UNCHANGED <<shared, expired, armed, revoked>>

\* Mutant of ReadForTick: what is unchanged is written all the same.
ReadForTickAlways ==
    /\ At("control", "idle")
    /\ WillWrite("control", Ticked(maintenance), "tick")
    /\ UNCHANGED <<shared, expired, armed, revoked>>

\* The decision of tick_maintenance.  Only a changed state is written.
ReadForTick ==
    /\ At("control", "idle") /\ Ticked(maintenance) # maintenance
    /\ WillWrite("control", Ticked(maintenance), "tick")
    /\ UNCHANGED <<shared, expired, armed, revoked>>

\* The write that follows the decision.  The permit that was there is gone.
WriteMaintenance(t) ==
    /\ pc[t] \in {"enter", "exit", "arm", "disarm", "tick"}
    /\ maintenance' = next[t]
    /\ revoked' = revoked \cup ({maintenance.permit} \ {next[t].permit, 0})
    /\ Leave(t, IF pc[t] \in {"arm", "disarm"} THEN "idle" ELSE "derive")
    /\ UNCHANGED <<inventory, mode, expired, armed>>

\* The lifetime of a permit ends when it will.
Expire ==
    /\ maintenance.permit # 0
    /\ expired' = expired \cup {maintenance.permit}
    /\ UNCHANGED <<shared, local, armed, revoked>>

Request == ReadForEnter \/ ReadForExit \/ ReadForArm \/ ReadForDisarm

Go(t) == Derive(t) \/ Apply(t) \/ WriteMaintenance(t)

Next ==
    \/ Sweep \/ SetAgents \/ SetUpdateReport \/ Request \/ ReadForTick
    \/ \E t \in Threads : Go(t)
    \/ Expire

Spec == Init /\ [][Next]_vars

\* The workers run forever: sweeps and ticks come again, and whoever began an
\* operation ends it.  Requests, findings and time just happen.
FairSpec ==
    /\ Spec
    /\ WF_vars(Sweep) /\ WF_vars(SetAgents) /\ WF_vars(ReadForTick)
    /\ \A t \in Threads : WF_vars(Go(t))

-----------------------------------------------------------------------------
(* Correctness *)

Modes == {"normal", "working", "maintenance"}

MaintenanceState ==
    [phase : {"locked", "maintenance", "armed"}, permit : Nat, override : BOOLEAN]

\* The places where a thread is about to write a maintenance state.
Deciding == {"enter", "exit", "arm", "disarm", "tick"}

\* The variables keep their types, and each thread does what is its own.
TypeOK ==
    /\ inventory \in Inventory
    /\ maintenance \in MaintenanceState /\ mode \in Modes
    /\ pc \in [Threads -> {"idle", "publish", "derive", "apply"} \cup Deciding]
    /\ \A t \in Threads :
          /\ At(t, "publish") => t = "agents"
          /\ At(t, "tick") => t = "control"
          /\ pc[t] \in Deciding \ {"tick"} => t = "ipc"
    /\ next = [t \in Threads |-> next[t]]
    /\ \A t \in Threads :
          /\ pc[t] \in Deciding => next[t] \in MaintenanceState
          /\ At(t, "publish") => next[t] \in Inventory
          /\ At(t, "apply") => next[t] \in Modes
    /\ expired \subseteq Nat /\ armed \in Nat /\ revoked \subseteq Nat

\* A permit and the phase REBOOT_ARMED come and go together, whoever writes last.
ArmedIsPermitted ==
    maintenance.phase = "armed" <=> maintenance.permit # 0

\* A permit that was revoked, replaced, cleared or left behind by an exit never
\* comes back, although every write puts back a whole state read earlier: the
\* tick writes only what it changed, and the requests are served one at a time.
RevokedStaysRevoked ==
    maintenance.permit \notin revoked

\* What a thread is about to write revives no permit: it has none, or a new one.
\* Only an exit is about to lock.
WritesNoOldPermit ==
    \A t \in Threads : pc[t] \in Deciding =>
        /\ next[t].phase = "locked" => At(t, "exit")
        /\ \/ next[t].permit = 0 /\ next[t].phase # "armed"
           \/ At(t, "arm") /\ next[t].permit = armed /\ next[t].phase = "armed"

PermitsAreNumbered ==
    /\ maintenance.permit <= armed
    /\ At("ipc", "arm") => maintenance.permit < armed /\ armed \notin revoked
    /\ \A p \in revoked : 0 < p /\ p <= armed

\* The inductive invariant of the proofs.
IInv ==
    /\ TypeOK /\ ArmedIsPermitted /\ RevokedStaysRevoked
    /\ WritesNoOldPermit /\ PermitsAreNumbered

\* Only the user locks the machine: an entered maintenance ends by a request.
OnlyExitLocks ==
    [][maintenance.phase # "locked" /\ maintenance'.phase = "locked" => At("ipc", "exit")]_vars

\* A mode derived from a state that changed meanwhile does not last: sooner or
\* later the mode is what the state asks for.
ModeSettles ==
    [](mode # ModeFor(maintenance, inventory)
         => <>(mode = ModeFor(maintenance, inventory)))

\* An expired permit is cleared, although the tick competes with the requests.
ExpiredIsCleared ==
    \A p \in 1 .. MaxArms :
        maintenance.permit = p /\ p \in expired ~> maintenance.permit # p

\* What the control worker owes in the end, however the requests interfere.
StateSettles == ModeSettles /\ ExpiredIsCleared

\* "A failed sweep must not look like 'no agents'": it does not end WORKING.
FailedSweepKeepsWorking ==
    [][mode = "working" /\ mode' = "normal" => inventory # "failed"]_vars
=============================================================================
