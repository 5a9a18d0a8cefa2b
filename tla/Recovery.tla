------------------------------ MODULE Recovery ------------------------------
(***************************************************************************)
(* The life of a Guardian process as journal.log records it: start-up      *)
(* recovery, the session-start marker, the checkpoints of the control      *)
(* worker, rotation of a full journal, and the clean-shutdown path, with   *)
(* the main thread, the control worker and the hosting UI interleaved and  *)
(* the process killed, the machine powered off, or a file operation        *)
(* failing between any two steps.                                          *)
(***************************************************************************)
EXTENDS JournalFile

CONSTANTS
    MaxRecords,    \* Journal.max_bytes, counted in records
    MaxSessions,   \* bound on process starts
    MaxBoots,      \* bound on restarts of the machine
    MaxUncounted,  \* bound on the records in the file that bytes_written leaves out
    Faults         \* what may go wrong, a subset of AllFaults

AllFaults == {"kill",     \* the process is terminated
              "power",    \* the machine stops; what was not synced may be lost
              "tear",     \* a write may reach the disk in part
              "rename",   \* renaming the full journal fails
              "create",   \* creating or opening the journal fails
              "write",    \* writing a record fails
              "sync",     \* a record is written, but flushing or syncing it fails
              "read"}     \* reading the journal fails

\* A fresh journal holds the carried start marker and at least one record more.
ASSUME RecoveryAssumption ==
    /\ MaxRecords \in Nat /\ MaxRecords >= 2
    /\ MaxSessions \in Nat
    /\ MaxBoots \in Nat
    /\ MaxUncounted \in Nat
    /\ Faults \subseteq AllFaults

VARIABLES
    file,      \* the records of journal.log as a reader sees them
    exists,    \* whether journal.log exists (a rename took it away otherwise)
    synced,    \* how many leading records are on the platter
    handle,    \* Journal.file: "open", "none", or "absent" without a journal
    written,   \* Journal.bytes_written, in records
    rotating,  \* between the rename and the creation of the fresh file
    carried,   \* the start marker rotate() took out of the old file
    pc,        \* the main thread of the process, "off" when there is none
    lock,      \* who holds the journal mutex
    todo,      \* the records the holder still has to append
    stop,      \* the shutdown flags (runtime and supervisor)
    ctl,       \* the control worker: "idle", or "due" past its stop check
    ui,        \* whether the UI asked for a stop and waits to exit
    sess,      \* the session id of the current or last process
    boot,      \* the boot identity
    recovered, \* what the latest start concluded about its predecessor, and
               \* whether a start has reported since the machine came up
    truth,     \* history: the last session whose start append returned, whether
               \* its clean marker is written and (sure) that append returned too
    exit,      \* history: how the last process ended, if none has started since
    failed     \* history: a journal operation of this process has failed

disk == <<file, exists, synced>>
journal == <<handle, written, rotating, carried>>
process == <<pc, lock, todo, stop, ctl, ui>>
history == <<truth, exit, failed>>
vars == <<file, exists, synced, handle, written, rotating, carried,
          pc, lock, todo, stop, ctl, ui, sess, boot, recovered, truth, exit, failed>>

Running == pc \in {"run", "flush", "done"}

\* Mutant of MustSync: the clean marker may wait.
SyncBeforeStop(r) == r.kind \in {"start", "observed"}

\* Whether an append is synced: the critical records always, a checkpoint when
\* the mode of the moment is WORKING, failures and network events never.
MustSync(r) == r.kind \in {"start", "observed", "clean"}
MaySync(r) == MustSync(r) \/ r.kind = "checkpoint"

-----------------------------------------------------------------------------
Init ==
    /\ file = <<>> /\ exists = FALSE /\ synced = 0
    /\ handle = "none" /\ written = 0 /\ rotating = FALSE /\ carried = None
    /\ pc = "off" /\ lock = "free" /\ todo = <<>>
    /\ stop = FALSE /\ ctl = "idle" /\ ui = "up"
    /\ sess = 0 /\ boot = 1
    /\ recovered = [clean |-> FALSE, incident |-> FALSE, told |-> FALSE]
    /\ truth = [sess |-> 0, boot |-> 0, ended |-> TRUE, sure |-> FALSE]
    /\ exit = "none" /\ failed = FALSE

\* The process is gone and everything it held in memory with it.
Gone(how) ==
    /\ handle' = "none" /\ written' = 0 /\ rotating' = FALSE /\ carried' = None
    /\ pc' = "off" /\ lock' = "free" /\ todo' = <<>>
    /\ stop' = FALSE /\ ctl' = "idle" /\ ui' = "up"
    /\ exit' = how /\ failed' = FALSE

-----------------------------------------------------------------------------
(* Start-up *)

\* read_previous_session: a journal that cannot be read names no session.
LookBack ==
    {PreviousSession(file)} \cup
        (IF "read" \in Faults THEN {[start |-> None, clean |-> FALSE]} ELSE {})

\* run(), steps 1 to 5: look back before anything is written.
Start ==
    /\ pc = "off"
    /\ sess < MaxSessions
    /\ sess' = sess + 1
    /\ \E p \in LookBack :
          recovered' = [clean    |-> p.clean,
                        incident |-> RestartIncident(p, boot),
                        told     |-> recovered.told \/ RestartIncident(p, boot)]
    /\ pc' = "starting" /\ exit' = "none"
    /\ UNCHANGED <<disk, journal, lock, todo, stop, ctl, ui, boot, truth, failed>>

\* run(), step 6, with Journal::open: nothing is truncated, the old size counts.
OpenJournal ==
    /\ pc = "starting"
    /\ exists' = TRUE
    /\ handle' = "open"
    /\ written' = Len(file)
    /\ pc' = "opening"
    /\ lock' = "main"
    /\ todo' = <<StartRec(sess, boot), NetworkEvent>>
    /\ UNCHANGED <<file, synced, rotating, carried, stop, ctl, ui, sess, boot,
                   recovered, history>>

\* RecoveryJournal::open fails before it appends: this session has no journal.
OpenJournalFails ==
    /\ "create" \in Faults
    /\ pc = "starting"
    /\ handle' = "absent" /\ failed' = TRUE
    /\ pc' = "opening" /\ lock' = "main"
    /\ UNCHANGED <<disk, written, rotating, carried, todo, stop, ctl, ui, sess, boot,
                   recovered, truth, exit>>

\* run(), step 7: the workers start and the host gets its handle.
Ready ==
    /\ pc = "opening" /\ todo = <<>>
    /\ pc' = "run" /\ lock' = "free"
    /\ UNCHANGED <<disk, journal, todo, stop, ctl, ui, sess, boot, recovered, history>>

-----------------------------------------------------------------------------
(* Journal::append by whoever holds the mutex *)

Appending == lock # "free" /\ todo # <<>> /\ ~rotating

\* The append returned: what the process now knows about its own session.
Outcome(r) ==
    CASE r.kind = "start" -> [sess |-> sess, boot |-> boot, ended |-> FALSE, sure |-> FALSE]
      [] r.kind = "clean" -> [truth EXCEPT !.ended = TRUE, !.sure = TRUE]
      [] OTHER -> truth

AppendRecord ==
    /\ Appending
    /\ handle = "open" /\ written < MaxRecords
    /\ file' = Append(file, Head(todo))
    /\ \/ MaySync(Head(todo)) /\ synced' = Len(file) + 1
       \/ ~MustSync(Head(todo)) /\ UNCHANGED synced
    /\ written' = written + 1
    /\ todo' = Tail(todo)
    /\ truth' = Outcome(Head(todo))
    /\ UNCHANGED <<exists, handle, rotating, carried, pc, lock, stop, ctl, ui,
                   sess, boot, recovered, exit, failed>>

\* Mutant of GiveUp: a session without its start marker journals on.
GoOn(h) == failed' = TRUE /\ handle' = h /\ todo' = Tail(todo)

\* append() returned an error.  Without its start marker there is no journal at
\* all for this session; any other caller logs the error and goes on.
GiveUp(h) ==
    /\ failed' = TRUE
    /\ \/ Head(todo).kind = "start" /\ handle' = "absent" /\ todo' = <<>>
       \/ Head(todo).kind # "start" /\ handle' = h /\ todo' = Tail(todo)

\* What a write that fails half way leaves behind its records.
Remnants == {<<>>} \cup (IF "tear" \in Faults THEN {<<Torn>>} ELSE {})

AppendFails ==
    /\ "write" \in Faults
    /\ Appending
    /\ handle = "open" /\ written < MaxRecords
    /\ \E rest \in Remnants : file' = file \o rest
    /\ GiveUp("open")
    /\ UNCHANGED <<exists, synced, written, rotating, carried, pc, lock, stop, ctl, ui,
                   sess, boot, recovered, truth, exit>>

\* write_all succeeded, flush or sync_all did not: append() returns an error, yet
\* the whole record is in the file, where a loss of power may take it back.
SyncFails ==
    /\ "sync" \in Faults
    /\ Appending
    /\ handle = "open" /\ written < MaxRecords /\ Len(file) < written + MaxUncounted
    /\ MaySync(Head(todo))
    /\ file' = Append(file, Head(todo))
    /\ truth' = IF Head(todo).kind = "clean" THEN [truth EXCEPT !.ended = TRUE] ELSE truth
    /\ GiveUp("open")
    /\ UNCHANGED <<exists, synced, written, rotating, carried, pc, lock, stop, ctl, ui,
                   sess, boot, recovered, exit>>

\* Journal::rotate, up to the rename, with the marker c to carry over.  The old
\* file is never read again.
Rename(c) ==
    /\ Appending
    /\ handle # "absent" /\ written >= MaxRecords /\ exists
    /\ carried' = c
    /\ rotating' = TRUE
    /\ handle' = "none"
    /\ file' = <<>> /\ exists' = FALSE /\ synced' = 0
    /\ UNCHANGED <<written, process, sess, boot, recovered, truth, exit>>

RotateAway == Rename(LastStart(file)) /\ UNCHANGED failed

\* current_session_start swallows a read error: the rotation goes on without the
\* session's start marker.
RotateBlind ==
    /\ "read" \in Faults
    /\ Rename(None)
    /\ failed' = TRUE

\* The rename fails: always when an earlier rotation left no file behind.
RotateAwayFails ==
    /\ Appending
    /\ handle # "absent" /\ written >= MaxRecords
    /\ ~exists \/ "rename" \in Faults
    /\ GiveUp("none")
    /\ UNCHANGED <<disk, written, rotating, carried, pc, lock, stop, ctl, ui,
                   sess, boot, recovered, truth, exit>>

\* Journal::rotate, from the creation of the fresh file on.
RotateFresh ==
    /\ rotating
    /\ rotating' = FALSE
    /\ exists' = TRUE /\ handle' = "open"
    /\ file' = IF carried = None THEN <<>> ELSE <<carried>>
    /\ synced' = Len(file') /\ written' = Len(file')
    /\ carried' = None
    /\ UNCHANGED <<process, sess, boot, recovered, history>>

RotateFreshFails ==
    /\ "create" \in Faults
    /\ rotating
    /\ rotating' = FALSE /\ carried' = None
    /\ GiveUp("none")
    /\ UNCHANGED <<disk, written, pc, lock, stop, ctl, ui, sess, boot, recovered,
                   truth, exit>>

\* The fresh file is there, but appending the carried marker to it failed; when
\* only its sync did, the marker is there too.
CarryFails ==
    /\ rotating /\ carried # None
    /\ rotating' = FALSE /\ carried' = None
    /\ exists' = TRUE /\ synced' = 0 /\ written' = 0
    /\ \/ "write" \in Faults /\ file' \in Remnants
       \/ "sync" \in Faults /\ file' = <<carried>>
    /\ GiveUp("open")
    /\ UNCHANGED <<pc, lock, stop, ctl, ui, sess, boot, recovered, truth, exit>>

-----------------------------------------------------------------------------
(* The workers and the main loop *)

\* The control worker slept its interval, saw no stop request and owes a checkpoint.
CheckpointDue ==
    /\ Running /\ ctl = "idle" /\ ~stop
    /\ ctl' = "due"
    /\ UNCHANGED <<disk, journal, pc, lock, todo, stop, ui, sess, boot, recovered,
                   history>>

TakeCheckpoint ==
    /\ ctl = "due" /\ lock = "free"
    /\ lock' = "control"
    /\ todo' = IF handle = "absent" THEN <<>> ELSE <<Checkpoint>>
    /\ UNCHANGED <<disk, journal, pc, stop, ctl, ui, sess, boot, recovered, history>>

CheckpointTaken ==
    /\ lock = "control" /\ todo = <<>>
    /\ lock' = "free" /\ ctl' = "idle"
    /\ UNCHANGED <<disk, journal, pc, todo, stop, ui, sess, boot, recovered, history>>

\* The main loop journals a worker failure the supervisor handed over.
LogWorkerFailure ==
    /\ pc = "run" /\ ~stop /\ lock = "free" /\ handle # "absent"
    /\ lock' = "main" /\ todo' = <<WorkerFailure>>
    /\ UNCHANGED <<disk, journal, pc, stop, ctl, ui, sess, boot, recovered, history>>

WorkerFailureLogged ==
    /\ pc = "run" /\ lock = "main" /\ todo = <<>>
    /\ lock' = "free"
    /\ UNCHANGED <<disk, journal, pc, todo, stop, ctl, ui, sess, boot, recovered,
                   history>>

\* The tray's Exit: UiBridge::request_stop raises the flags.
UiRequestStop ==
    /\ pc = "run" /\ ui = "up"
    /\ ui' = "waiting" /\ stop' = TRUE
    /\ UNCHANGED <<disk, journal, pc, lock, todo, ctl, sess, boot, recovered, history>>

\* run_for elapsed: the main loop breaks without a request.
RunElapsed ==
    /\ pc = "run" /\ ~stop /\ lock # "main"
    /\ stop' = TRUE
    /\ UNCHANGED <<disk, journal, pc, lock, todo, ctl, ui, sess, boot, recovered,
                   history>>

\* Mutant of FlushAndMark: the observed shutdown is taken for the marker.
FlushOnly ==
    /\ pc = "run" /\ stop /\ lock = "free"
    /\ pc' = "flush" /\ lock' = "main"
    /\ todo' = IF handle = "absent" THEN <<>> ELSE <<Checkpoint, ShutdownObserved>>
    /\ UNCHANGED <<disk, journal, stop, ctl, ui, sess, boot, recovered, history>>

\* run(), step 9: one critical section writes the last records.
FlushAndMark ==
    /\ pc = "run" /\ stop /\ lock = "free"
    /\ pc' = "flush" /\ lock' = "main"
    /\ todo' = IF handle = "absent" THEN <<>>
               ELSE <<Checkpoint, ShutdownObserved, CleanShutdown>>
    /\ UNCHANGED <<disk, journal, stop, ctl, ui, sess, boot, recovered, history>>

\* run() returns; the workers are not joined.
Stopped ==
    /\ pc = "flush" /\ todo = <<>>
    /\ pc' = "done" /\ lock' = "free"
    /\ UNCHANGED <<disk, journal, todo, stop, ctl, ui, sess, boot, recovered, history>>

-----------------------------------------------------------------------------
(* Ends of the process and of the machine *)

\* The host process exits once run() has returned.
HostExit ==
    /\ pc = "done" /\ ui = "up"
    /\ Gone("host")
    /\ UNCHANGED <<disk, sess, boot, recovered, truth>>

\* UiBridge::request_stop waits until is_shutting_down, which reads the flag it
\* has just raised; then the UI exits the process.
UiExit ==
    /\ ui = "waiting" /\ stop
    /\ Gone("ui")
    /\ UNCHANGED <<disk, sess, boot, recovered, truth>>

Kill ==
    /\ "kill" \in Faults
    /\ pc # "off"
    /\ Gone("killed")
    /\ UNCHANGED <<disk, sess, boot, recovered, truth>>

Reboot ==
    /\ pc = "off" /\ boot < MaxBoots
    /\ boot' = boot + 1
    /\ recovered' = [recovered EXCEPT !.told = FALSE]
    /\ UNCHANGED <<disk, journal, process, sess, history>>

\* What is left of the journal: the synced records, some of the others, and
\* possibly a part of the first one lost.
PowerLoss ==
    /\ "power" \in Faults
    /\ boot < MaxBoots
    /\ boot' = boot + 1
    /\ recovered' = [recovered EXCEPT !.told = FALSE]
    /\ \E n \in synced .. Len(file), tail \in {<<>>, <<Torn>>} :
          /\ tail # <<>> => "tear" \in Faults /\ (n < Len(file) \/ Appending)
          /\ file' = SubSeq(file, 1, n) \o tail
          /\ synced' = n + Len(tail)
    /\ Gone("power")
    /\ UNCHANGED <<exists, sess, truth>>

-----------------------------------------------------------------------------
MainThread ==
    OpenJournal \/ OpenJournalFails \/ Ready \/ WorkerFailureLogged \/ FlushAndMark \/ Stopped

ControlWorker == TakeCheckpoint \/ CheckpointTaken

AppendStep ==
    \/ AppendRecord \/ AppendFails \/ SyncFails
    \/ RotateAway \/ RotateBlind \/ RotateAwayFails
    \/ RotateFresh \/ RotateFreshFails \/ CarryFails

Next ==
    \/ Start \/ MainThread \/ ControlWorker \/ AppendStep
    \/ CheckpointDue \/ LogWorkerFailure
    \/ UiRequestStop \/ RunElapsed
    \/ HostExit \/ UiExit \/ Kill \/ Reboot \/ PowerLoss

Spec == Init /\ [][Next]_vars

\* A thread that can run eventually does.  Nothing is assumed of the user, of
\* faults, or of when a checkpoint falls due.
FairSpec ==
    /\ Spec
    /\ WF_vars(MainThread) /\ WF_vars(ControlWorker) /\ WF_vars(AppendStep)

-----------------------------------------------------------------------------
(* Correctness *)

Carried == [kind : {"start"}, sess : Nat, boot : Nat]

Record ==
    [kind : {"checkpoint", "observed", "clean", "network", "failure", "torn"}] \cup Carried

\* Only a process past its start-up holds the mutex, only its holder has records
\* to append, and between the rename and the fresh file there is one.
MutexOwned ==
    /\ lock # "free" \/ ctl = "due" => pc \notin {"off", "starting"}
    /\ lock = "free" => todo = <<>>
    /\ rotating => lock # "free" /\ todo # <<>>

\* The variables keep their types, and the mutex its owner.
TypeOK ==
    /\ file \in Seq(Record)
    /\ exists \in BOOLEAN
    /\ synced \in 0 .. Len(file)
    /\ handle \in {"open", "none", "absent"}
    /\ written \in Nat
    /\ rotating \in BOOLEAN
    /\ carried \in Carried \cup {None}
    /\ pc \in {"off", "starting", "opening", "run", "flush", "done"}
    /\ lock \in {"free", "main", "control"}
    /\ todo \in Seq(Record)
    /\ stop \in BOOLEAN /\ ctl \in {"idle", "due"} /\ ui \in {"up", "waiting"}
    /\ sess \in Nat /\ boot \in Nat
    /\ recovered \in [clean : BOOLEAN, incident : BOOLEAN, told : BOOLEAN]
    /\ truth \in [sess : Nat, boot : Nat, ended : BOOLEAN, sure : BOOLEAN]
    /\ exit \in {"none", "host", "ui", "killed", "power"} /\ failed \in BOOLEAN
    /\ MutexOwned

\* Rotation keeps a session identifiable: while a session runs with its journal
\* open, the last start marker a reader finds is its own, through any number of
\* rotations by either writer.  Only a failed operation of this very session may
\* have lost it, and then no other session takes its place.
RotationKeepsSession ==
    Running /\ handle = "open" =>
        LastStart(file) \in {StartRec(sess, boot)} \cup (IF failed THEN {None} ELSE {})

\* The clean marker "is what proves a session ended normally": when a start
\* takes its predecessor for clean, the last session that recorded its start
\* did write its marker.
CleanVerdictIsTrue ==
    pc = "starting" /\ recovered.clean => truth.ended

\* What the journal says of the session that runs and of the one before is true.
JournalIsTrue == CleanVerdictIsTrue /\ RotationKeepsSession

StartPending == todo # <<>> /\ Head(todo).kind = "start"

\* A clean marker whose append returned is there to stay: once a reader of the
\* file would call that session clean, only a rotation or the start marker of
\* another session changes it: no kill, no loss of power and no failed operation.
OnlyRotationUnmarks ==
    [][truth.sure /\ PreviousSession(file).clean /\ ~PreviousSession(file').clean
         => rotating' \/ StartPending]_vars

\* The stop path is what writes the marker, so an explicit exit from the tray,
\* which goes through it, leaves a session that recorded its start marked clean.
ExplicitExitIsClean ==
    exit = "ui" /\ truth.sess = sess => truth.ended

\* The journal implements the outcome history it stands for: a start may be
\* wrong about its predecessor in the unclean direction only, and no unfinished
\* session is lost to a restart of the machine without an incident.
History ==
    INSTANCE SessionHistory WITH
        last <- [boot |-> truth.boot, ended |-> truth.ended],
        clean <- recovered.clean,
        reported <- recovered.incident,
        told <- recovered.told

ImplementsHistory == History!Spec

\* A requested stop ends in the clean marker: the main thread gets the journal
\* mutex from the control worker and writes its records, rotating if it must,
\* unless the process ends first or a journal operation failed.
StopIsMarked == stop ~> truth.ended \/ pc = "off" \/ failed

-----------------------------------------------------------------------------
(* The inductive invariant behind the properties above                       *)

\* This process has its start marker appended.
Recorded == pc \notin {"off", "starting"} /\ handle # "absent" /\ ~StartPending

\* The session has looked back and not got to its own start marker yet.
Unrecorded == pc = "starting" \/ StartPending

\* A start marker is of this session or of an older one, and only of an older one
\* until this session's is appended, as the first record of its journal.
StartsInOrder ==
    /\ truth.sess <= sess
    /\ Unrecorded => truth.sess < sess
    /\ \A j \in DOMAIN todo : IsStart(todo[j]) => j = 1 /\ todo[j] = StartRec(sess, boot)
    /\ \A i \in DOMAIN file : IsStart(file[i]) =>
          file[i].sess <= sess /\ (Unrecorded => file[i].sess < sess)
    /\ carried # None =>
          carried.sess <= sess /\ (Unrecorded => carried.sess < sess)

\* The clean marker is the last record the stop path appends, once in a session.
MarkIsLast ==
    /\ \A j \in DOMAIN todo : todo[j].kind = "clean" =>
          j = Len(todo) /\ pc = "flush" /\ ~truth.sure
    /\ Recorded /\ pc \in {"opening", "run"} => ~truth.sure
    /\ handle = "absent" => todo = <<>>

\* Whatever fails: when the append of a clean marker has returned and a reader
\* finds it, all the markers he finds are durable; and none is in a file that is
\* about to be replaced.
MarksAreDurable ==
    /\ truth.sure /\ PreviousSession(file).clean =>
          \A i \in Readable(file) : file[i].kind \in {"start", "clean"} => i <= synced
    /\ rotating => file = <<>>

\* An incident is not lost behind a start marker of this boot.
Told == ~truth.ended /\ truth.boot # boot => recovered.told

\* The marker of a session whose start was written although its append failed.
Orphan(r) == IsStart(r) /\ r.sess > truth.sess

\* Between the records of others, the i-th record is the start marker of the
\* session truth is about: older starts before it, orphans after it, a clean
\* marker after it only if it was written, and durable if an older one is there.
MarksTruth(f, i) ==
    /\ f[i] = StartRec(truth.sess, truth.boot)
    /\ \A k \in DOMAIN f :
          /\ k < i /\ IsStart(f[k]) => f[k].sess < truth.sess /\ i <= synced
          /\ k > i => (IsStart(f[k]) => Orphan(f[k])) /\ (f[k].kind = "clean" => truth.ended)

FileInv ==
    /\ \A i \in DOMAIN file :
          /\ file[i].kind # "torn"
          /\ Orphan(file[i]) =>
                /\ ~Recorded
                /\ file[i].boot <= boot
                /\ file[i].boot = boot => Told
                /\ \A k \in DOMAIN file : k > i => Orphan(file[k])
    /\ \/ \A i \in DOMAIN file : IsStart(file[i]) => Orphan(file[i])
       \/ \E i \in DOMAIN file : MarksTruth(file, i)

RotationInv ==
    /\ rotating => file = <<>> /\ handle = "none" /\ ~exists
    /\ carried # None =>
          /\ rotating
          /\ \/ carried = StartRec(truth.sess, truth.boot)
             \/ /\ Orphan(carried) /\ StartPending
                /\ carried.boot <= boot /\ (carried.boot = boot => Told)
    /\ handle = "open" => exists

ProcessInv ==
    /\ pc \in {"off", "starting"} => todo = <<>> /\ handle = "none"
    /\ pc # "off" => Told
    /\ \A j \in DOMAIN todo :
          /\ todo[j].kind # "torn"
          /\ IsStart(todo[j]) => pc = "opening"

SessionInv ==
    /\ Recorded => truth.sess = sess /\ truth.boot = boot
    /\ Recorded /\ ~failed =>
          /\ rotating => carried # None
          /\ ~rotating /\ exists => \E i \in DOMAIN file : IsStart(file[i])

\* The markers are durable; without torn writes the last start marker of the file,
\* orphans aside, is that of the session truth is about, and a clean marker after
\* it was earned.
IInv ==
    /\ TypeOK
    /\ StartsInOrder
    /\ MarkIsLast
    /\ MarksAreDurable
    /\ "tear" \notin Faults =>
          FileInv /\ RotationInv /\ ProcessInv /\ SessionInv /\ CleanVerdictIsTrue
=============================================================================
