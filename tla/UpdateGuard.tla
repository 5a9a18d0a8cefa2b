---------------------------- MODULE UpdateGuard ----------------------------
(***************************************************************************)
(* The update worker: a verification pass over the Windows Update policy   *)
(* values that Guardian owns, value by value, while programs it knows      *)
(* nothing of change the same values.  A pass finds out who manages the    *)
(* machine, reads the values, writes what differs, reads again, and        *)
(* publishes a level and at most one incident.                             *)
(***************************************************************************)
EXTENDS Naturals, Sequences

CONSTANTS
    Order,       \* all_desired_writes(), in order: the core values, then the deadlines
    Deadlines,   \* those of them that are restart deadlines
    Denials,     \* the sets of values to which access may be denied
    Scopes,      \* what the PolicyManager scopes may hold: "empty", "readable", "unreadable"
    MaxTampers,  \* bound on the changes other programs make
    MaxFailures  \* bound on the writes that fail

Range(s) == {s[i] : i \in DOMAIN s}
Values == Range(Order)
Core == Values \ Deadlines

ASSUME UpdateAssumption ==
    /\ Order \in Seq(Values) /\ Len(Order) > 0 /\ "none" \notin Values
    /\ Deadlines \subseteq Values
    /\ \A d \in Denials : d \subseteq Values
    /\ Scopes \subseteq {"empty", "readable", "unreadable"}
    /\ MaxTampers \in Nat /\ MaxFailures \in Nat

VARIABLES
    reg,         \* the registry: each value is "absent", "right", "wrong" or "oversized"
    denied,      \* the values to which access is denied
    protect,     \* UpdateWorker.protect
    scope,       \* what the PolicyManager scopes hold
    autoRestore, \* UpdateWorker.auto_restore
    pc,          \* where the pass is
    at,          \* the next value in Order
    first,       \* what the pass read at first
    seen,        \* what apply, and then the last read, found
    written,     \* the values apply has written
    failed,      \* apply has stopped at an error
    reported,    \* UpdateWorker.reported_tamper, or "none"
    level,       \* the level of the last report
    incident,    \* the values named by the incident of the last pass
    started,     \* run has made its first pass, whose incidents it drops
    held,        \* history: the values that were harmless at some moment of this pass
    before,      \* history: the values the previous pass found changed
    tampers,     \* bound
    failures     \* bound

given   == <<denied, scope, protect, autoRestore>>
machine == <<reg, given, tampers>>
work    == <<first, seen, written, failed, failures>>
outcome == <<reported, level, incident, started, before>>
vars    == <<machine, pc, at, work, outcome, held>>

Held   == {"absent", "right", "wrong", "oversized"}
Unread == [v \in Values |-> "absent"]

-----------------------------------------------------------------------------
(* analyze() on a readback s: "omitted" is a value that was not recorded.     *)

\* What read_values records for a value: nothing if access to it is denied, and
\* absence for any other error, such as a value beyond MAX_VALUE_BYTES.
Observed(v) ==
    CASE v \in denied -> "omitted"
      [] v \notin denied /\ reg[v] = "oversized" -> "absent"
      [] OTHER -> reg[v]

Complete(s) == \A v \in Values : s[v] # "omitted"

\* A deadline can force nothing if it is absent; a value of the core must be there.
Safe(v, value) == value = "right" \/ (v \in Deadlines /\ value \in {"absent", "omitted"})

WritesNeeded(s) == {v \in Values : ~Safe(v, s[v])}

\* Only a value of the core that is there and wrong has been tampered with.
Tampered(s) == {v \in Core : s[v] = "wrong"}

Managed == scope = "readable"

\* Mutant of Level: an incomplete read is judged by what was read.
LevelOfPart(s) ==
    CASE Managed -> "degraded"
      [] ~Managed /\ \A v \in Values : Safe(v, s[v]) \/ s[v] = "omitted" -> "protected"
      [] OTHER -> "degraded"

Level(s) ==
    CASE Managed -> "degraded"
      [] ~Managed /\ ~Complete(s) -> "unknown"
      [] ~Managed /\ Complete(s) /\ WritesNeeded(s) = {} -> "protected"
      [] OTHER -> "degraded"

\* The first of the changed values, in order.
FirstOf(changed) == Order[CHOOSE i \in DOMAIN Order :
    Order[i] \in changed /\ \A j \in 1..(i - 1) : Order[j] \notin changed]

-----------------------------------------------------------------------------
Init ==
    /\ reg \in [Values -> Held] /\ denied \in Denials
    /\ scope \in Scopes /\ protect \in BOOLEAN /\ autoRestore \in BOOLEAN
    /\ pc = "idle" /\ at = 1 /\ first = Unread /\ seen = Unread
    /\ written = {} /\ failed = FALSE
    /\ reported = "none" /\ level = "unknown" /\ incident = {} /\ started = FALSE
    /\ held = {} /\ before = {}
    /\ tampers = 0 /\ failures = 0

\* A deadline too large to be read counts as harmless here, as the code takes it.
Harmless(v, value) == Safe(v, value) \/ (v \in Deadlines /\ value = "oversized")

\* The values that are harmless now join those that were during this pass.
Witness == held' = held \cup {v \in Values : Harmless(v, reg'[v])}

\* Another program changes a value.
Tamper ==
    /\ tampers < MaxTampers /\ tampers' = tampers + 1
    /\ \E v \in Values, x \in Held :
          x # reg[v] /\ reg' = [reg EXCEPT ![v] = x]
    /\ Witness
    /\ UNCHANGED <<given, pc, at, work, outcome>>

\* verify starts.
StartPass ==
    /\ pc = "idle" /\ pc' = "manage"
    /\ held' = {v \in Values : Harmless(v, reg[v])}
    /\ UNCHANGED <<machine, at, work, outcome>>

\* detect_management walks the values of the PolicyManager scopes.
DetectManagement ==
    /\ pc = "manage" /\ scope # "unreadable"
    /\ pc' = IF protect THEN "read" ELSE "off"
    /\ UNCHANGED <<machine, at, work, outcome, held>>

\* value_names tries a value that it cannot read again, at the same index.
WalkAgain ==
    /\ pc = "manage" /\ scope = "unreadable"
    /\ UNCHANGED vars

\* Protection is off: nothing is read, and the report says so.
ReportOff ==
    /\ pc = "off" /\ pc' = "idle"
    /\ level' = "unprotected" /\ incident' = {} /\ started' = TRUE
    /\ UNCHANGED <<machine, at, work, reported, before, held>>

\* read_values, one value; `next` is where the pass goes after the last.
ReadInto(next) ==
    /\ IF at = Len(Order) THEN at' = 1 /\ pc' = next ELSE at' = at + 1 /\ UNCHANGED pc
    /\ UNCHANGED <<machine, written, failed, failures, outcome, held>>

ReadFirst ==
    /\ pc = "read"
    /\ first' = [first EXCEPT ![Order[at]] = Observed(Order[at])]
    /\ UNCHANGED seen
    /\ ReadInto("decide")

\* apply, and the check of its result, read into `seen`.
ReadCurrent ==
    /\ pc \in {"current", "verify"}
    /\ seen' = [seen EXCEPT ![Order[at]] = Observed(Order[at])]
    /\ UNCHANGED first
    /\ ReadInto(IF pc = "current" THEN "write" ELSE "publish")

\* Mutant of Decide: apply is called on every pass.
DecideAlways ==
    /\ pc = "decide"
    /\ pc' = IF autoRestore THEN "current" ELSE "publish"
    /\ UNCHANGED <<machine, at, work, outcome, held>>

\* verify, on the analysis of the first read.
Decide ==
    /\ pc = "decide"
    /\ pc' = IF autoRestore /\ WritesNeeded(first) # {} THEN "current" ELSE "publish"
    /\ UNCHANGED <<machine, at, work, outcome, held>>

\* Mutant of AfterWrite: one value too many.
AfterWriteLong ==
    IF at <= Len(Order) THEN at' = at + 1 /\ UNCHANGED pc
    ELSE at' = 1 /\ pc' = IF written' # {} THEN "verify" ELSE "publish"

\* Where apply goes after it has dealt with a value: the values that were
\* written are read once more, but not after an error.
AfterWrite ==
    IF at < Len(Order) THEN at' = at + 1 /\ UNCHANGED pc
    ELSE at' = 1 /\ pc' = IF written' # {} THEN "verify" ELSE "publish"

\* Mutant of Write: a deadline that is absent is not written, but one that is
\* wrong is not written either.
WriteCoreOnly ==
    /\ pc = "write" /\ seen[Order[at]] # "right"
    /\ IF Order[at] \in Core
         THEN reg' = [reg EXCEPT ![Order[at]] = "right"] /\ written' = written \cup {Order[at]}
         ELSE UNCHANGED <<reg, written>>
    /\ AfterWrite /\ Witness
    /\ UNCHANGED <<given, tampers, first, seen, failed, failures, outcome>>

\* apply writes every value that was not found right, absent deadlines included.
Write ==
    /\ pc = "write" /\ seen[Order[at]] # "right"
    /\ reg' = [reg EXCEPT ![Order[at]] = "right"]
    /\ written' = written \cup {Order[at]}
    /\ AfterWrite /\ Witness
    /\ UNCHANGED <<given, tampers, first, seen, failed, failures, outcome>>

Skip ==
    /\ pc = "write" /\ seen[Order[at]] = "right"
    /\ UNCHANGED written
    /\ AfterWrite
    /\ UNCHANGED <<machine, first, seen, failed, failures, outcome, held>>

\* apply stops at the first value it cannot write; what it has written stays.
WriteFails ==
    /\ pc = "write" /\ seen[Order[at]] # "right"
    /\ failures < MaxFailures /\ failures' = failures + 1
    /\ failed' = TRUE /\ written' = {} /\ at' = 1 /\ pc' = "publish"
    /\ UNCHANGED <<machine, first, seen, outcome, held>>

\* Mutant of Worthwhile: the incident is raised with every pass.
ToldAlways(changed) == TRUE

\* An incident is raised for a first value that was not the first before, or
\* when this pass has not repaired it.
Worthwhile(changed) == reported # FirstOf(changed) \/ written = {}

Remember(changed) == reported' = IF changed = {} THEN "none" ELSE FirstOf(changed)

\* verify ends: the report, the incident, and set_update_report.  run drops the
\* incident of its first pass.
Publish ==
    /\ pc = "publish" /\ pc' = "idle"
    /\ level' = CASE failed -> "unknown"
                  [] ~failed /\ written # {} -> Level(seen)
                  [] ~failed /\ written = {} -> Level(first)
    /\ LET changed == Tampered(first) IN
       /\ incident' = IF started /\ changed # {} /\ Worthwhile(changed) THEN changed ELSE {}
       /\ Remember(changed)
       /\ before' = changed
    /\ started' = TRUE
    /\ first' = Unread /\ seen' = Unread /\ written' = {} /\ failed' = FALSE
    /\ UNCHANGED <<machine, at, failures, held>>

Pass ==
    \/ StartPass \/ DetectManagement \/ WalkAgain \/ ReportOff \/ ReadFirst
    \/ ReadCurrent \/ Decide \/ Write \/ Skip \/ Publish

Next == Pass \/ WriteFails \/ Tamper

Spec == Init /\ [][Next]_vars

\* The worker's thread runs, and passes follow each other for ever.
FairSpec == Spec /\ WF_vars(Pass)

-----------------------------------------------------------------------------
\* The step that ends a pass.
Published == pc = "publish" /\ pc' = "idle"

(* Properties.                                                               *)

TypeOK ==
    /\ reg \in [Values -> Held] /\ denied \subseteq Values
    /\ scope \in {"empty", "readable", "unreadable"}
    /\ protect \in BOOLEAN /\ autoRestore \in BOOLEAN
    /\ pc \in {"idle", "manage", "off", "read", "decide", "current", "write", "verify", "publish"}
    /\ at \in 1..Len(Order)
    /\ first \in [Values -> {"absent", "right", "wrong", "omitted"}]
    /\ seen \in [Values -> {"absent", "right", "wrong", "omitted"}]
    /\ written \subseteq Values /\ failed \in BOOLEAN
    /\ reported \in Values \cup {"none"}
    /\ level \in {"unprotected", "unknown", "degraded", "protected"}
    /\ incident \subseteq Core /\ before \subseteq Core /\ held \subseteq Values
    /\ started \in BOOLEAN /\ tampers \in 0..MaxTampers /\ failures \in 0..MaxFailures

\* Between the loops over the values, the next one is the first; before the loop
\* that writes, nothing is written.
StartsAtFirst ==
    /\ pc \notin {"read", "current", "write", "verify"} => at = 1
    /\ pc \notin {"write", "verify", "publish"} => written = {}

\* During a pass, what is harmless now counts as harmless in it.
NowIsHeld == pc # "idle" => \A v \in Values : Harmless(v, reg[v]) => v \in held

\* A reading s that calls v harmless is that of some moment of this pass.
Backed(s, v) == Safe(v, s[v]) /\ s[v] # "omitted" => v \in held

\* So are both readings that a report may rest on, as far as they have got.
ReadingsAreBacked ==
    /\ pc = "read" => \A i \in 1..(at - 1) : Backed(first, Order[i])
    /\ pc \in {"decide", "current", "write", "verify", "publish"} =>
          \A v \in Values : Backed(first, v)
    /\ pc = "verify" => \A i \in 1..(at - 1) : Backed(seen, Order[i])
    /\ pc = "publish" /\ written # {} => \A v \in Values : Backed(seen, v)

\* What is remembered is the first value that the previous pass found changed.
ReportedIsFirst == reported = IF before = {} THEN "none" ELSE FirstOf(before)

\* The inductive invariant of the proofs.
IInv == TypeOK /\ StartsAtFirst /\ NowIsHeld /\ ReadingsAreBacked /\ ReportedIsFirst

\* "Protected" is said only of a machine that nobody else manages, and of values
\* each of which was harmless at some moment of the pass that says so, whoever
\* wrote to them meanwhile.
ProtectedWasTrue ==
    [][Published /\ level' = "protected" => ~Managed /\ held = Values]_vars

\* When the others have stopped and writes succeed, values that can be accessed
\* are repaired and the machine is reported protected for good.
RepairsPrevail ==
    protect /\ autoRestore /\ denied = {} /\ scope = "empty" => <>[](level = "protected")

\* A conformant machine is left alone: in the end no pass calls apply.
QuietInTheEnd == denied \cap Core = {} => <>[](pc # "current")

\* A value that is changed after a pass that found nothing changed is told.
TamperIsTold ==
    [][Published /\ started /\ before = {} => incident' = Tampered(first)]_vars

\* What something changes again before every pass, and is repaired every time,
\* is told once and not with each pass.
OneIncidentPerMismatch ==
    [][Published /\ started /\ written # {} /\ Tampered(first) # {} /\ Tampered(first) = before
         => incident' = {}]_vars

\* Of a divergence neither too little is told nor too much.
TamperIsToldOnce == TamperIsTold /\ OneIncidentPerMismatch

(* What the documents say of the program and the code does not do.           *)

\* registry.rs:421-424: the walk over a key's values does not run for ever.
PassEnds == pc = "manage" ~> pc = "idle"

\* lib.rs of guardian-update, 185-186: an incident for a new divergence.
NewTamperIsTold ==
    [][Published /\ started => Tampered(first) \ before \subseteq incident']_vars

=============================================================================
