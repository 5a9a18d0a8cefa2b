------------------------- MODULE CoordinatorProofs -------------------------
(***************************************************************************)
(* No interleaving of the coordinator's threads brings a revoked permit    *)
(* back, for any number of permits and any configuration.  And in the      *)
(* maintenance machine that the coordinator runs a permit is single-use,   *)
(* for every lifetime, every number of permits and restarts, and every     *)
(* order of events.                                                        *)
(***************************************************************************)
EXTENDS Coordinator, Maintenance, TLAPS

\* The override mark is one of the two truth values.
LEMMA EnteredType == \A overrode \in BOOLEAN : Entered(overrode) \in MaintenanceState
<1> TAKE overrode \in BOOLEAN
<1>1. {"locked", "maintenance", "armed"} # {} /\ "maintenance" \in {"locked", "maintenance", "armed"} /\ 0 \in Nat
  OBVIOUS
<1> QED BY <1>1, Zenon DEF Entered, MaintenanceState

LEMMA LockedType == Locked \in MaintenanceState
<1>1. "locked" \in {"locked", "maintenance", "armed"} /\ 0 \in Nat
  OBVIOUS
<1> QED BY <1>1, Zenon DEF Locked, MaintenanceState

\* What the events make of a maintenance state.
LEMMA EventTypes ==
  ASSUME NEW m \in MaintenanceState, NEW id \in Nat
  PROVE  /\ Armed(m, id) \in MaintenanceState
         /\ Armed(m, id).permit = id /\ Armed(m, id).phase = "armed"
         /\ Cleared(m) \in MaintenanceState
         /\ Cleared(m).permit = 0 /\ Cleared(m).phase = "maintenance"
BY DEF Armed, Cleared, MaintenanceState

LEMMA InvInit == Init => IInv
<1> SUFFICES ASSUME Init PROVE IInv
  OBVIOUS
<1>1. maintenance \in MaintenanceState /\ maintenance.permit = 0 /\ maintenance.phase = "locked"
  BY LockedType DEF Init, Locked
<1>2. TypeOK
  <2>1. pc \in [Threads -> {"idle", "publish", "derive", "apply"} \cup Deciding]
    BY DEF Init
  <2>2. next = [t \in Threads |-> next[t]]
    BY DEF Init
  <2> QED BY <1>1, <2>1, <2>2 DEF Init, TypeOK, Inventory, Modes, At, Deciding
<1>3. \A t \in Threads : pc[t] = "idle"
  BY DEF Init
<1>4. WritesNoOldPermit
  BY <1>3 DEF WritesNoOldPermit, Deciding
<1>5. PermitsAreNumbered
  BY <1>1, <1>3 DEF Init, PermitsAreNumbered, At, Threads
<1> QED
  BY <1>1, <1>2, <1>4, <1>5 DEF Init, IInv, ArmedIsPermitted, RevokedStaysRevoked

\* A thread at rest takes up a maintenance state to write that revives no permit.
LEMMA DecideStep ==
  ASSUME IInv, NEW t \in Threads, At(t, "idle"), NEW m \in MaintenanceState,
         NEW place \in Deciding \ {"arm"},
         place = "tick" => t = "control", place # "tick" => t = "ipc",
         m.permit = 0, m.phase # "armed", m.phase = "locked" => place = "exit",
         WillWrite(t, m, place), UNCHANGED <<shared, expired, armed, revoked>>
  PROVE  IInv'
<1> USE DEF IInv, WillWrite, Goto, At, shared, Deciding
<1>1. TypeOK'
  BY DEF TypeOK
<1>2. WritesNoOldPermit'
  BY DEF TypeOK, WritesNoOldPermit
<1> QED BY <1>1, <1>2 DEF TypeOK, ArmedIsPermitted, RevokedStaysRevoked, PermitsAreNumbered

LEMMA ArmStep == IInv /\ ReadForArm => IInv'
<1> SUFFICES ASSUME IInv, ReadForArm PROVE IInv'
  OBVIOUS
<1> USE DEF IInv, ReadForArm, WillWrite, Goto, At, shared, Deciding
<1> DEFINE m == Armed(maintenance, armed')
<1>1. m \in MaintenanceState /\ m.permit = armed' /\ m.phase = "armed" /\ armed' \in Nat
  <2>1. armed' \in Nat /\ maintenance \in MaintenanceState
    BY DEF TypeOK
  <2> QED BY <2>1, EventTypes
<1>2. pc' = [pc EXCEPT !["ipc"] = "arm"] /\ next' = [next EXCEPT !["ipc"] = m]
  OBVIOUS
<1> HIDE DEF m
<1>3. TypeOK'
  <2>1. pc' \in [Threads -> {"idle", "publish", "derive", "apply"} \cup Deciding]
    BY <1>2 DEF TypeOK
  <2>2. next' = [t \in Threads |-> next'[t]]
    BY <1>2 DEF TypeOK
  <2> QED BY <1>1, <1>2, <2>1, <2>2 DEF TypeOK, Threads
<1>4. WritesNoOldPermit'
  BY <1>1, <1>2 DEF TypeOK, WritesNoOldPermit, Threads
<1>5. PermitsAreNumbered'
  BY <1>1, <1>2 DEF TypeOK, PermitsAreNumbered, MaintenanceState, Threads
<1> QED BY <1>3, <1>4, <1>5 DEF ArmedIsPermitted, RevokedStaysRevoked

\* A write replaces the state as a whole and retires the permit that was there.
LEMMA WriteStep ==
  ASSUME IInv, NEW t \in Threads, WriteMaintenance(t)
  PROVE  IInv'
<1> USE DEF IInv, WriteMaintenance, Leave, Goto, At, Deciding
<1>1. /\ maintenance' \in MaintenanceState /\ maintenance' = next[t]
      /\ \/ maintenance'.permit = 0 /\ maintenance'.phase # "armed"
         \/ At(t, "arm") /\ t = "ipc" /\ maintenance'.permit = armed /\ maintenance'.phase = "armed"
  BY DEF TypeOK, WritesNoOldPermit
<1>2. maintenance.permit \in Nat /\ maintenance'.permit \in Nat
  BY <1>1 DEF TypeOK, MaintenanceState
<1>3. TypeOK'
  BY <1>1, <1>2 DEF TypeOK
<1>4. WritesNoOldPermit'
  BY DEF TypeOK, WritesNoOldPermit
<1>5. revoked' = revoked \cup ({maintenance.permit} \ {maintenance'.permit, 0})
  BY <1>1
<1>6. RevokedStaysRevoked' /\ ArmedIsPermitted'
  BY <1>1, <1>2, <1>5 DEF RevokedStaysRevoked, ArmedIsPermitted, PermitsAreNumbered, TypeOK
<1>7. PermitsAreNumbered'
  BY <1>1, <1>2, <1>5 DEF PermitsAreNumbered, TypeOK, Threads
<1> QED BY <1>3, <1>4, <1>6, <1>7

\* Every action keeps the invariant.
LEMMA InvNext == IInv /\ [Next]_vars => IInv'
<1> SUFFICES ASSUME IInv, [Next]_vars PROVE IInv'
  OBVIOUS
<1> USE DEF IInv
<1>1. CASE Sweep
  <2>1. PICK found \in Inventory : WillWrite("agents", found, "publish")
    BY <1>1 DEF Sweep
  <2>2. TypeOK'
    BY <1>1, <2>1 DEF Sweep, WillWrite, Goto, At, shared, Deciding, TypeOK, Threads
  <2>3. ArmedIsPermitted' /\ RevokedStaysRevoked'
    BY <1>1 DEF Sweep, shared, ArmedIsPermitted, RevokedStaysRevoked
  <2>4. WritesNoOldPermit'
    BY <1>1, <2>1 DEF Sweep, WillWrite, Goto, At, Deciding, TypeOK, WritesNoOldPermit
  <2>5. PermitsAreNumbered'
    BY <1>1, <2>1 DEF Sweep, WillWrite, Goto, At, shared, TypeOK, Threads, PermitsAreNumbered
  <2> QED BY <2>2, <2>3, <2>4, <2>5
<1>2. CASE SetAgents
  <2>1. TypeOK'
    BY <1>2 DEF SetAgents, Leave, Goto, At, Deciding, TypeOK, Threads
  <2>2. ArmedIsPermitted' /\ RevokedStaysRevoked'
    BY <1>2 DEF SetAgents, ArmedIsPermitted, RevokedStaysRevoked
  <2>3. WritesNoOldPermit'
    BY <1>2 DEF SetAgents, Leave, Goto, At, Deciding, TypeOK, WritesNoOldPermit
  <2>4. PermitsAreNumbered'
    BY <1>2 DEF SetAgents, Leave, Goto, At, TypeOK, Threads, PermitsAreNumbered
  <2> QED BY <2>1, <2>2, <2>3, <2>4
<1>3. CASE SetUpdateReport
  BY <1>3 DEF SetUpdateReport, Goto, At, shared, Deciding, TypeOK, Threads, ArmedIsPermitted,
     RevokedStaysRevoked, WritesNoOldPermit, PermitsAreNumbered
<1>4. CASE ReadForEnter
  <2>1. PICK reasons \in SUBSET {"restart", "link"} :
           WillWrite("ipc", Entered(Blocked(reasons) /\ RefuseWithWork), "enter")
    BY <1>4 DEF ReadForEnter
  <2>2. (Blocked(reasons) /\ RefuseWithWork) \in BOOLEAN
    BY Zenon
  <2> DEFINE m == Entered(Blocked(reasons) /\ RefuseWithWork)
  <2>3. m \in MaintenanceState
    BY <2>2, EnteredType, Zenon
  <2>4. m.permit = 0 /\ m.phase = "maintenance"
    BY DEF Entered
  <2> HIDE DEF m
  <2> QED BY <1>4, <2>1, <2>3, <2>4, DecideStep DEF ReadForEnter, Threads, Deciding, m
<1>5. CASE ReadForExit
  <2>1. Locked.permit = 0 /\ Locked.phase = "locked"
    BY DEF Locked
  <2> QED BY <1>5, <2>1, LockedType, DecideStep DEF ReadForExit, Threads, Deciding
<1>6. CASE ReadForArm
  BY <1>6, ArmStep
<1>7. CASE ReadForDisarm
  BY <1>7, EventTypes, DecideStep DEF ReadForDisarm, Threads, Deciding, TypeOK
<1>8. CASE ReadForTick
  <2>1. Ticked(maintenance) = Cleared(maintenance)
    BY <1>8 DEF ReadForTick, Ticked
  <2> QED BY <1>8, <2>1, EventTypes, DecideStep DEF ReadForTick, Threads, Deciding, TypeOK
<1>9. ASSUME NEW t \in Threads, Derive(t) PROVE IInv'
  <2> DEFINE m == ModeFor(maintenance, inventory)
  <2>1. m \in Modes
    BY DEF ModeFor, Modes
  <2>2. \/ Goto(t, "idle") /\ UNCHANGED next
        \/ WillWrite(t, m, "apply")
    BY <1>9 DEF Derive
  <2> HIDE DEF m
  <2>3. UNCHANGED <<shared, expired, armed, revoked>> /\ At(t, "derive")
    BY <1>9 DEF Derive
  <2>4. CASE Goto(t, "idle") /\ UNCHANGED next
    BY <2>3, <2>4 DEF Goto, At, shared, Deciding, TypeOK, ArmedIsPermitted, RevokedStaysRevoked,
       WritesNoOldPermit, PermitsAreNumbered
  <2>5. CASE WillWrite(t, m, "apply")
    BY <2>1, <2>3, <2>5 DEF WillWrite, Goto, At, shared, Deciding, TypeOK, ArmedIsPermitted,
       RevokedStaysRevoked, WritesNoOldPermit, PermitsAreNumbered
  <2> QED BY <2>2, <2>4, <2>5
<1>10. ASSUME NEW t \in Threads, Apply(t) PROVE IInv'
  BY <1>10 DEF Apply, Leave, Goto, At, Deciding, TypeOK, ArmedIsPermitted, RevokedStaysRevoked,
     WritesNoOldPermit, PermitsAreNumbered
<1>11. ASSUME NEW t \in Threads, WriteMaintenance(t) PROVE IInv'
  BY <1>11, WriteStep
<1>12. CASE Expire
  BY <1>12 DEF Expire, shared, local, At, Deciding, TypeOK, MaintenanceState, ArmedIsPermitted,
     RevokedStaysRevoked, WritesNoOldPermit, PermitsAreNumbered
<1>13. CASE UNCHANGED vars
  BY <1>13 DEF vars, shared, local, At, TypeOK, ArmedIsPermitted, RevokedStaysRevoked,
     WritesNoOldPermit, PermitsAreNumbered
<1> QED
  BY <1>1, <1>2, <1>3, <1>4, <1>5, <1>6, <1>7, <1>8, <1>9, <1>10, <1>11, <1>12, <1>13
  DEF Next, Request, Go

\* The inductive invariant of the coordinator.
THEOREM Inductive == Spec => []IInv
BY InvInit, InvNext, PTL DEF Spec

\* A permit that was revoked, replaced, cleared or left behind never comes back.
THEOREM RevokedNeverReturns == Spec => []RevokedStaysRevoked
<1>1. IInv => RevokedStaysRevoked
  BY DEF IInv
<1> QED BY Inductive, <1>1, PTL

\* A permit and the phase REBOOT_ARMED come and go together.
THEOREM ArmedNeedsPermit == Spec => []ArmedIsPermitted
<1>1. IInv => ArmedIsPermitted
  BY DEF IInv
<1> QED BY Inductive, <1>1, PTL

\* Only the user's exit locks the machine.
THEOREM OnlyTheUserLocks == Spec => OnlyExitLocks
<1>1. IInv /\ [Next]_vars =>
        (maintenance.phase # "locked" /\ maintenance'.phase = "locked" => At("ipc", "exit"))
  <2> SUFFICES ASSUME IInv, [Next]_vars, maintenance' # maintenance, maintenance'.phase = "locked"
               PROVE  At("ipc", "exit")
    OBVIOUS
  <2>1. PICK t \in Threads : WriteMaintenance(t)
    BY DEF Next, Request, Go, vars, shared, Sweep, SetAgents, SetUpdateReport, ReadForEnter,
       ReadForExit, ReadForArm, ReadForDisarm, ReadForTick, Derive, Apply, Expire
  <2> QED BY <2>1 DEF WriteMaintenance, IInv, WritesNoOldPermit, TypeOK, At, Deciding
<1> QED BY Inductive, <1>1, PTL DEF Spec, OnlyExitLocks

-----------------------------------------------------------------------------
(* The maintenance machine.                                                  *)

\* A clamped lifetime is inside its range.
LEMMA ClampedRange ==
  ASSUME NEW ttl \in Nat
  PROVE  Clamped(ttl) \in Nat /\ MinTtl <= Clamped(ttl) /\ Clamped(ttl) <= MaxTtl
BY MaintenanceAssumption DEF Clamped

\* A permit is a record, so that it is never taken for the lack of one.
LEMMA PermitType ==
  ASSUME MaintenanceTypeOK
  PROVE  /\ HasPermit <=> permit \in Permit
         /\ HasPermit => permit.id # 0
         /\ ~HasPermit => permit.id = 0
         /\ permit.id \in Nat
BY DEF MaintenanceTypeOK, HasPermit, NoPermit, Permit

\* The flag, set to literals and conditions, keeps its type.
LEMMA OverrideType == override \in BOOLEAN /\ [MaintenanceNext]_maintenanceVars => override' \in BOOLEAN
<1> SUFFICES ASSUME override \in BOOLEAN, [MaintenanceNext]_maintenanceVars PROVE override' \in BOOLEAN
  OBVIOUS
<1>1. CASE EnterMaintenance
  BY <1>1, Zenon DEF EnterMaintenance
<1>2. CASE ExitMaintenance \/ Booted
  BY <1>2, Zenon DEF ExitMaintenance, Booted
<1>3. CASE UNCHANGED override
  BY <1>3
<1> QED
  BY <1>1, <1>2, <1>3 DEF MaintenanceNext, maintenanceVars, UpdatePending, ArmReboot, DisarmReboot, TtlChanged,
     ShutDown, RestartAuthorized, RestartUnauthorized, Tick, Clock, Reboot

LEMMA MaintenanceInvInit == MaintenanceInit => MaintenanceInv
<1>1. MaintenanceInit => override \in BOOLEAN
  BY Zenon DEF MaintenanceInit
<1> QED
  BY <1>1, MaintenanceAssumption DEF MaintenanceInit, MaintenanceInv, MaintenanceTypeOK, PhaseTellsPermit, PermitInv, HistoryInv,
     SingleUse, GrantedAsIssued, HasPermit, NoPermit

\* Steps that drop the permit and issue and grant nothing.
LEMMA DropStep ==
  ASSUME MaintenanceInv, DropPermit, phase' \in {"locked", "maintenance", "pending", "boot"},
         override' \in BOOLEAN, UNCHANGED <<boot, now, issued, granted>>
  PROVE  MaintenanceInv'
<1> USE DEF MaintenanceInv, DropPermit
<1>1. permit.id \in Nat /\ permit.id <= Len(issued)
  BY PermitType DEF PermitInv, MaintenanceTypeOK
<1>2. ~HasPermit' /\ MaintenanceTypeOK'
  BY <1>1 DEF MaintenanceTypeOK, HasPermit
<1>3. PhaseTellsPermit' /\ PermitInv'
  BY <1>2 DEF PhaseTellsPermit, PermitInv
<1>4. HistoryInv' /\ SingleUse' /\ GrantedAsIssued'
  BY <1>1 DEF HistoryInv, SingleUse, GrantedAsIssued
<1> QED BY <1>2, <1>3, <1>4

\* Every action keeps the invariant.
LEMMA MaintenanceInvNext == MaintenanceInv /\ [MaintenanceNext]_maintenanceVars => MaintenanceInv'
<1> SUFFICES ASSUME MaintenanceInv, [MaintenanceNext]_maintenanceVars PROVE MaintenanceInv'
  OBVIOUS
<1> USE MaintenanceAssumption
<1>o. override' \in BOOLEAN
  BY OverrideType DEF MaintenanceInv, MaintenanceTypeOK
<1>1. CASE \/ EnterMaintenance \/ ExitMaintenance \/ DisarmReboot \/ ShutDown
           \/ RestartUnauthorized \/ Booted \/ Tick
  BY <1>1, <1>o, DropStep DEF EnterMaintenance, ExitMaintenance, DisarmReboot, ShutDown,
     RestartUnauthorized, Booted, Tick
<1>2. CASE UpdatePending
  BY <1>2 DEF UpdatePending, MaintenanceInv, MaintenanceTypeOK, HasPermit, PhaseTellsPermit, PermitInv,
     HistoryInv, SingleUse, GrantedAsIssued, Expired
<1>3. CASE ArmReboot
  <2> DEFINE n == Len(issued) + 1
  <2>1. PICK ttl \in Ttls :
          permit' = [id |-> n, at |-> now, expires |-> now + Clamped(ttl), boot |-> boot,
                     consumed |-> FALSE]
    BY <1>3 DEF ArmReboot
  <2>2. /\ issued' = Append(issued, [at |-> now, boot |-> boot])
        /\ phase' = "armed" /\ dead' = dead \cup {permit.id}
        /\ UNCHANGED <<override, boot, now, granted>>
    BY <1>3 DEF ArmReboot
  <2>3. Clamped(ttl) \in Nat /\ MinTtl <= Clamped(ttl) /\ Clamped(ttl) <= MaxTtl
    BY ClampedRange
  <2>4. now \in Nat /\ boot \in Nat /\ n \in Nat \ {0} /\ Len(issued) \in Nat
    BY DEF MaintenanceInv, MaintenanceTypeOK
  <2>5. permit' \in Permit /\ HasPermit' /\ permit'.id = n /\ ~permit'.consumed
    BY <2>1, <2>3, <2>4 DEF Permit, HasPermit, NoPermit
  <2>6. permit.id \in Nat /\ permit.id <= Len(issued)
    BY PermitType DEF MaintenanceInv, PermitInv, MaintenanceTypeOK
  <2>7. MaintenanceTypeOK'
    <3>1. [at |-> now, boot |-> boot] \in [at : Nat, boot : Nat]
      BY <2>4
    <3>2. issued' \in Seq([at : Nat, boot : Nat])
      BY <2>2, <3>1 DEF MaintenanceInv, MaintenanceTypeOK
    <3>3. dead' \subseteq Nat
      BY <2>2, <2>6 DEF MaintenanceInv, MaintenanceTypeOK
    <3>4. permit'.at = now /\ permit'.expires = now + Clamped(ttl)
      BY <2>1
    <3> QED BY <2>2, <2>3, <2>4, <2>5, <3>2, <3>3, <3>4 DEF MaintenanceInv, MaintenanceTypeOK
  <2>8. PhaseTellsPermit'
    BY <2>2, <2>5 DEF PhaseTellsPermit
  <2>9. Len(issued') = n /\ issued'[n] = [at |-> now, boot |-> boot]
        /\ \A i \in 1 .. Len(issued) : issued'[i] = issued[i]
    BY <2>2, <2>4 DEF MaintenanceInv, MaintenanceTypeOK
  <2>10. \A g \in granted : g.id \in Nat /\ g.id <= Len(issued)
    BY DEF MaintenanceInv, HistoryInv, MaintenanceTypeOK
  <2>11. \A d \in dead' : d \in Nat /\ d <= Len(issued)
    BY <2>2, <2>6 DEF MaintenanceInv, HistoryInv, MaintenanceTypeOK
  <2>12. PermitInv'
    BY <2>1, <2>2, <2>4, <2>5, <2>9, <2>10, <2>11 DEF PermitInv
  <2>13. HistoryInv'
    BY <2>2, <2>4, <2>9, <2>10, <2>11 DEF HistoryInv
  <2>14. SingleUse'
    BY <2>2 DEF MaintenanceInv, SingleUse
  <2>15. GrantedAsIssued'
    BY <2>2, <2>4, <2>9 DEF MaintenanceInv, GrantedAsIssued, MaintenanceTypeOK
  <2> QED BY <2>7, <2>8, <2>12, <2>13, <2>14, <2>15 DEF MaintenanceInv
<1>4. CASE TtlChanged
  <2>1. PICK ttl \in Ttls : permit' = [permit EXCEPT !.expires = permit.at + Clamped(ttl)]
    BY <1>4 DEF TtlChanged
  <2>2. HasPermit /\ UNCHANGED <<override, phase, boot, now, issued, granted, dead>>
    BY <1>4 DEF TtlChanged
  <2>3. permit \in Permit
    BY <2>2, PermitType DEF MaintenanceInv
  <2>4. Clamped(ttl) \in Nat /\ MinTtl <= Clamped(ttl) /\ Clamped(ttl) <= MaxTtl
    BY ClampedRange
  <2>5. /\ permit' \in Permit /\ HasPermit'
        /\ permit'.id = permit.id /\ permit'.at = permit.at /\ permit'.boot = permit.boot
        /\ permit'.consumed = permit.consumed /\ permit'.expires = permit.at + Clamped(ttl)
    BY <2>1, <2>3, <2>4 DEF Permit, HasPermit, NoPermit
  <2>6. MaintenanceTypeOK'
    BY <2>2, <2>3, <2>4, <2>5 DEF MaintenanceInv, MaintenanceTypeOK, Permit
  <2>7. PhaseTellsPermit' /\ PermitInv'
    BY <2>2, <2>5 DEF MaintenanceInv, PhaseTellsPermit, PermitInv
  <2>8. HistoryInv' /\ SingleUse' /\ GrantedAsIssued'
    BY <2>2 DEF MaintenanceInv, HistoryInv, SingleUse, GrantedAsIssued
  <2> QED BY <2>6, <2>7, <2>8 DEF MaintenanceInv
<1>5. CASE RestartAuthorized
  <2> DEFINE g0 == [id |-> permit.id, at |-> now, boot |-> boot]
  <2>1. /\ HasPermit /\ ~permit.consumed /\ now < permit.expires /\ permit.boot = boot
        /\ phase' = "boot" /\ permit' = [permit EXCEPT !.consumed = TRUE]
        /\ granted' = granted \cup {g0}
        /\ UNCHANGED <<override, boot, now, issued, dead>>
    BY <1>5, PermitType DEF RestartAuthorized, Usable, Expired, MaintenanceInv, MaintenanceTypeOK, Permit
  <2>2. permit \in Permit /\ now \in Nat /\ boot \in Nat
    BY <2>1, PermitType DEF MaintenanceInv, MaintenanceTypeOK
  <2>3. /\ permit' \in Permit /\ HasPermit' /\ permit'.consumed
        /\ permit'.id = permit.id /\ permit'.at = permit.at /\ permit'.boot = permit.boot
        /\ permit'.expires = permit.expires
    BY <2>1, <2>2 DEF Permit, HasPermit, NoPermit
  <2>4. /\ permit.id = Len(issued) /\ permit.id \in DOMAIN issued
        /\ issued[permit.id].at = permit.at /\ issued[permit.id].boot = permit.boot
        /\ permit.at <= now /\ \A g \in granted : g.id # permit.id
    BY <2>1, <2>2, SMTT(30) DEF MaintenanceInv, PermitInv, MaintenanceTypeOK, Permit
  <2>5. g0 \in [id : Nat, at : Nat, boot : Nat] /\ g0.id = permit.id /\ g0.at = now /\ g0.boot = boot
    BY <2>2 DEF Permit
  <2>6. now < permit.at + MaxTtl
    BY <2>1, <2>2 DEF MaintenanceInv, MaintenanceTypeOK, Permit
  <2>7. MaintenanceTypeOK'
    BY <2>1, <2>3, <2>5 DEF MaintenanceInv, MaintenanceTypeOK
  <2>8. PhaseTellsPermit'
    BY <2>1, <2>3 DEF PhaseTellsPermit
  <2>9. PermitInv'
    BY <2>1, <2>3 DEF MaintenanceInv, PermitInv
  <2>10. HistoryInv'
    BY <2>1, <2>4, <2>5 DEF MaintenanceInv, HistoryInv, MaintenanceTypeOK
  <2>11. SingleUse'
    BY <2>1, <2>4, <2>5 DEF MaintenanceInv, SingleUse
  <2>12. GrantedAsIssued'
    BY <2>1, <2>4, <2>5, <2>6 DEF MaintenanceInv, GrantedAsIssued
  <2> QED BY <2>7, <2>8, <2>9, <2>10, <2>11, <2>12 DEF MaintenanceInv
<1>6. CASE Clock \/ Reboot \/ UNCHANGED maintenanceVars
  <2>1. /\ now' \in Nat /\ now <= now' /\ boot' \in Nat
        /\ UNCHANGED <<override, phase, permit, issued, granted, dead>>
    BY <1>6 DEF Clock, Reboot, maintenanceVars, MaintenanceInv, MaintenanceTypeOK
  <2>2. MaintenanceTypeOK' /\ PhaseTellsPermit'
    BY <2>1 DEF MaintenanceInv, MaintenanceTypeOK, PhaseTellsPermit, HasPermit
  <2>3. PermitInv'
    BY <2>1, PermitType DEF MaintenanceInv, PermitInv, HasPermit, MaintenanceTypeOK, Permit
  <2>4. HistoryInv' /\ SingleUse' /\ GrantedAsIssued'
    BY <2>1 DEF MaintenanceInv, HistoryInv, SingleUse, GrantedAsIssued
  <2> QED BY <2>2, <2>3, <2>4 DEF MaintenanceInv
<1> QED
  BY <1>1, <1>2, <1>3, <1>4, <1>5, <1>6 DEF MaintenanceNext

\* The permit is always the newest one issued, and unused unless consumed.
THEOREM MaintenanceInductive == MaintenanceSpec => []MaintenanceInv
BY MaintenanceInvInit, MaintenanceInvNext, PTL DEF MaintenanceSpec

\* No permit ever authorizes two restarts.
THEOREM PermitsAreSingleUse == MaintenanceSpec => []SingleUse
<1>1. MaintenanceInv => SingleUse
  BY DEF MaintenanceInv
<1> QED BY <1>1, MaintenanceInductive, PTL

\* Every authorized restart is covered by a permit of its own boot, in its window.
THEOREM GrantsAreCovered == MaintenanceSpec => []GrantedAsIssued
<1>1. MaintenanceInv => GrantedAsIssued
  BY DEF MaintenanceInv
<1> QED BY <1>1, MaintenanceInductive, PTL

\* A permit that is gone authorizes no restart.
THEOREM DeadPermitsStayDead == MaintenanceSpec => DeadStaysDead
<1>1. ASSUME MaintenanceInv, [MaintenanceNext]_maintenanceVars PROVE \A g \in granted' \ granted : g.id \notin dead
  <2>1. CASE RestartAuthorized
    <3>1. granted' \ granted \subseteq {[id |-> permit.id, at |-> now, boot |-> boot]}
      BY <2>1 DEF RestartAuthorized
    <3>2. permit.id \notin dead
      BY <1>1, <2>1 DEF RestartAuthorized, Usable, MaintenanceInv, PermitInv
    <3> QED BY <3>1, <3>2
  <2>2. CASE granted' = granted
    BY <2>2
  <2> QED
    BY <1>1, <2>1, <2>2 DEF MaintenanceNext, maintenanceVars, EnterMaintenance, ExitMaintenance, UpdatePending,
       ArmReboot, DisarmReboot, TtlChanged, ShutDown, RestartUnauthorized, Booted, Tick,
       Clock, Reboot
<1>2. MaintenanceInv /\ [MaintenanceNext]_maintenanceVars => [\A g \in granted' \ granted : g.id \notin dead]_maintenanceVars
  BY <1>1
<1> QED BY <1>2, MaintenanceInductive, PTL DEF MaintenanceSpec, DeadStaysDead
=============================================================================
