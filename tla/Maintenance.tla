---------------------------- MODULE Maintenance ----------------------------
(***************************************************************************)
(* The maintenance machine of guardian-core: the phases from LOCKED to     *)
(* BOOT and the single-use reboot permit.  Every action feeds one event to *)
(* advance(), or lets the clock or the machine move on.  The state is the  *)
(* persisted one, so it outlives a restart of the machine until the new    *)
(* boot is applied to it; the clock and the boot identity are inputs, as   *)
(* they are in the code.                                                   *)
(***************************************************************************)
EXTENDS Naturals, Sequences

CONSTANTS
    MinTtl, MaxTtl,   \* MIN_TTL_SECS and MAX_TTL_SECS
    Ttls,             \* the lifetimes that are asked for
    RefuseWithProtectedWork, \* MaintenancePolicy.refuse_with_protected_work
    MaxTime,          \* bound on the clock
    MaxPermits,       \* bound on the permits that are issued
    MaxBoots          \* bound on restarts of the machine

ASSUME MaintenanceAssumption ==
    /\ MinTtl \in Nat /\ MaxTtl \in Nat /\ 0 < MinTtl /\ MinTtl <= MaxTtl
    /\ Ttls \subseteq Nat
    /\ RefuseWithProtectedWork \in BOOLEAN
    /\ MaxTime \in Nat /\ MaxPermits \in Nat /\ MaxBoots \in Nat

VARIABLES
    phase,    \* MaintenanceState.phase
    permit,   \* MaintenanceState.authorization
    override, \* MaintenanceState.entered_with_override
    boot,     \* the current boot identity
    now,      \* the clock
    issued,   \* history: when and on which boot each permit was issued
    granted,  \* history: the restarts observed as authorized, with their permit
    dead      \* history: the permits that were revoked, replaced or cleared, and 0

maintenanceVars == <<phase, permit, override, boot, now, issued, granted, dead>>

\* Permits are numbered by the nonce their caller supplies; 0 is no permit.
NoPermit == [id |-> 0]

HasPermit == permit # NoPermit

\* clamp_ttl
Clamped(ttl) == IF ttl < MinTtl THEN MinTtl ELSE IF ttl > MaxTtl THEN MaxTtl ELSE ttl

Expired == now >= permit.expires

\* Mutant of Usable: a consumed permit is good again.
UsableAgain == HasPermit /\ ~Expired /\ permit.boot = boot

\* RebootAuthorization::is_usable
Usable == HasPermit /\ ~permit.consumed /\ ~Expired /\ permit.boot = boot

\* Mutant of DropPermit: only the phase forgets the permit.
ForgetPermit ==
    /\ dead' = dead \cup {permit.id}
    /\ UNCHANGED permit

\* The permit, if there is one, is gone.
DropPermit ==
    /\ permit' = NoPermit
    /\ dead' = dead \cup {permit.id}

-----------------------------------------------------------------------------
MaintenanceInit ==
    /\ phase = "locked" /\ permit = NoPermit /\ override = FALSE
    /\ boot = 1 /\ now = 0
    /\ issued = <<>> /\ granted = {} /\ dead = {0}

\* EnterRequested: the blockers found and the override phrase that was typed.
EnterMaintenance ==
    /\ phase = "locked"
    /\ \E protected \in BOOLEAN, phrase \in {"none", "wrong", "right"} :
          /\ protected /\ RefuseWithProtectedWork => phrase = "right"
          /\ override' = (protected /\ RefuseWithProtectedWork)
    /\ phase' = "maintenance"
    /\ DropPermit
    /\ UNCHANGED <<boot, now, issued, granted>>

ExitMaintenance ==
    /\ phase # "locked"
    /\ phase' = "locked"
    /\ override' = FALSE
    /\ DropPermit
    /\ UNCHANGED <<boot, now, issued, granted>>

\* UpdatePendingObserved is noise in every other phase.
UpdatePending ==
    /\ phase = "maintenance"
    /\ phase' = "pending"
    /\ UNCHANGED <<override, permit, boot, now, issued, granted, dead>>

\* ArmRebootRequested: a fresh permit, which replaces the one there may be.
ArmReboot ==
    /\ phase # "locked"
    /\ Len(issued) < MaxPermits /\ now + MaxTtl <= MaxTime
    /\ phase' = "armed"
    /\ \E ttl \in Ttls :
          permit' = [id |-> Len(issued) + 1, at |-> now, expires |-> now + Clamped(ttl),
                     boot |-> boot, consumed |-> FALSE]
    /\ issued' = Append(issued, [at |-> now, boot |-> boot])
    /\ dead' = dead \cup {permit.id}
    /\ UNCHANGED <<override, boot, now, granted>>

DisarmReboot ==
    /\ HasPermit
    /\ phase' = "maintenance"
    /\ DropPermit
    /\ UNCHANGED <<override, boot, now, issued, granted>>

\* ShutdownObserved: a plain shutdown clears everything ...
ShutDown ==
    /\ phase' = "locked"
    /\ DropPermit
    /\ UNCHANGED <<override, boot, now, issued, granted>>

\* ... a restart uses the permit up if it is good ...
RestartAuthorized ==
    /\ Usable
    /\ phase' = "boot"
    /\ permit' = [permit EXCEPT !.consumed = TRUE]
    /\ granted' = granted \cup {[id |-> permit.id, at |-> now, boot |-> boot]}
    /\ UNCHANGED <<override, boot, now, issued, dead>>

\* ... and clears it otherwise, from whatever phase.
RestartUnauthorized ==
    /\ ~Usable
    /\ phase' = "boot"
    /\ DropPermit
    /\ UNCHANGED <<override, boot, now, issued, granted>>

\* Booted, fed by apply_boot at every start of the service.
Booted ==
    /\ phase' = "locked"
    /\ override' = FALSE
    /\ DropPermit
    /\ UNCHANGED <<boot, now, issued, granted>>

\* Mutant of Tick: an expired permit is left to whoever looks at it next.
TickWithoutExpiry ==
    /\ HasPermit
    /\ permit.boot # boot \/ permit.consumed
    /\ phase' = "maintenance"
    /\ DropPermit
    /\ UNCHANGED <<override, boot, now, issued, granted>>

\* Tick invalidates a permit of another boot, an expired or a consumed one.
Tick ==
    /\ HasPermit
    /\ permit.boot # boot \/ Expired \/ permit.consumed
    /\ phase' = "maintenance"
    /\ DropPermit
    /\ UNCHANGED <<override, boot, now, issued, granted>>

\* TtlChanged counts the new lifetime from the moment of issue.
TtlChanged ==
    /\ HasPermit
    /\ \E ttl \in Ttls : permit' = [permit EXCEPT !.expires = permit.at + Clamped(ttl)]
    /\ UNCHANGED <<override, phase, boot, now, issued, granted, dead>>

\* Time passes.
Clock ==
    /\ now < MaxTime
    /\ now' = now + 1
    /\ UNCHANGED <<override, phase, permit, boot, issued, granted, dead>>

\* The machine restarts; the persisted state is still that of the old boot.
Reboot ==
    /\ boot < MaxBoots
    /\ boot' = boot + 1
    /\ UNCHANGED <<override, phase, permit, now, issued, granted, dead>>

MaintenanceNext ==
    \/ EnterMaintenance \/ ExitMaintenance \/ UpdatePending
    \/ ArmReboot \/ DisarmReboot \/ TtlChanged
    \/ ShutDown \/ RestartAuthorized \/ RestartUnauthorized \/ Booted
    \/ Tick \/ Clock \/ Reboot

MaintenanceSpec == MaintenanceInit /\ [][MaintenanceNext]_maintenanceVars

\* The control worker ticks forever and the clock runs; nothing is assumed of
\* the user, of shutdowns or of restarts.
MaintenanceFairSpec == MaintenanceSpec /\ WF_maintenanceVars(Tick) /\ WF_maintenanceVars(Clock)

-----------------------------------------------------------------------------
(* Correctness *)

Permit ==
    [id : Nat \ {0}, at : Nat, expires : Nat, boot : Nat, consumed : BOOLEAN]

\* The variables keep their types, and a permit its clamped lifetime.
MaintenanceTypeOK ==
    /\ phase \in {"locked", "maintenance", "pending", "armed", "boot"}
    /\ permit \in Permit \cup {NoPermit}
    /\ override \in BOOLEAN
    /\ boot \in Nat /\ now \in Nat
    /\ issued \in Seq([at : Nat, boot : Nat])
    /\ granted \subseteq [id : Nat, at : Nat, boot : Nat]
    /\ dead \subseteq Nat
    /\ HasPermit => permit.expires \in permit.at + MinTtl .. permit.at + MaxTtl

\* A permit is live in REBOOT_ARMED and nowhere else; the only other phase that
\* remembers one is BOOT, where it is used up.
PhaseTellsPermit ==
    /\ phase = "armed" <=> HasPermit /\ ~permit.consumed
    /\ HasPermit /\ permit.consumed => phase = "boot"

\* A permit "can never authorize a second reboot": through re-arming, changes of
\* its lifetime, crashes and restarts, no two authorized restarts share one.
SingleUse ==
    \A g, h \in granted : g.id = h.id => g = h

\* A restart is authorized only on the boot its permit was issued on, and only
\* within the longest lifetime after the issue, however often it was changed.
GrantedAsIssued ==
    \A g \in granted :
        /\ g.id \in DOMAIN issued
        /\ g.boot = issued[g.id].boot
        /\ issued[g.id].at <= g.at /\ g.at < issued[g.id].at + MaxTtl

\* A permit that was revoked, replaced or cleared authorizes nothing any more.
DeadStaysDead ==
    [][\A g \in granted' \ granted : g.id \notin dead]_maintenanceVars

\* A forgotten permit does not stay: it expires or is cleared.
PermitEnds ==
    \A i \in 1 .. MaxPermits : (permit.id = i) ~> (permit.id # i)

-----------------------------------------------------------------------------
(* The inductive invariant behind SingleUse and GrantedAsIssued *)

\* The permit is the newest one issued, as it was issued, and only a consumed
\* permit has authorized anything.
PermitInv ==
    HasPermit =>
        /\ permit.id = Len(issued)
        /\ issued[permit.id] = [at |-> permit.at, boot |-> permit.boot]
        /\ permit.at <= now
        /\ permit.id \notin dead
        /\ ~permit.consumed => \A g \in granted : g.id # permit.id

HistoryInv ==
    /\ \A g \in granted : g.id <= Len(issued)
    /\ \A d \in dead : d <= Len(issued)

MaintenanceInv == MaintenanceTypeOK /\ PhaseTellsPermit /\ PermitInv /\ HistoryInv /\ SingleUse /\ GrantedAsIssued
=============================================================================
