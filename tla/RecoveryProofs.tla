--------------------------- MODULE RecoveryProofs ---------------------------
(***************************************************************************)
(* Proofs about Recovery for every size of the journal, every number of    *)
(* sessions and boots, and every set of faults a theorem does not exclude. *)
(***************************************************************************)
EXTENDS Recovery, TLAPS, WellFoundedInduction, SequenceTheorems

-----------------------------------------------------------------------------
(* What the reader of a journal returns, for every journal.                   *)

\* A non-empty set of numbers with an upper bound has a greatest element.
LEMMA Greatest ==
  ASSUME NEW S, NEW n \in Nat, S \subseteq 0 .. n, S # {}
  PROVE  \E i \in S : \A j \in S : j <= i
<1> DEFINE Co == {k \in 0 .. n : n - k \in S}
<1>1. \A j \in S : n - j \in Co
  OBVIOUS
<1>2. PICK x \in Co : \A y \in Co : ~(<<y, x>> \in OpToRel(<, Nat))
  <2>1. Co \subseteq Nat
    OBVIOUS
  <2>2. \E k : k \in Co
    BY <1>1
  <2> HIDE DEF Co
  <2>3. Co # {}
    BY <2>2
  <2> QED BY <2>1, <2>3, WFMin, NatLessThanWellFounded, Zenon
<1>3. ASSUME NEW j \in S PROVE j <= n - x
  <2>1. n - j \in Co /\ n - j \in Nat /\ x \in Nat
    BY <1>1
  <2>2. ~(n - j < x)
    BY <2>1, <1>2 DEF OpToRel
  <2> QED BY <2>1, <2>2
<1> QED BY <1>2, <1>3

\* Readable positions are positions of the file.
LEMMA StartsInFile ==
  ASSUME NEW R, NEW f \in Seq(R)
  PROVE  Starts(f) \subseteq 1 .. Len(f)
BY DEF Starts, Readable

\* The scan for the last start marker finds the only one with none after it.
LEMMA LastStartIs ==
  ASSUME NEW R, NEW f \in Seq(R), NEW i, IsLast(i, Starts(f))
  PROVE  LastStart(f) = f[i]
<1>1. Starts(f) # {} /\ i \in Starts(f)
  BY DEF IsLast
<1>2. ASSUME NEW k, IsLast(k, Starts(f)) PROVE k = i
  <2>1. i \in Nat /\ k \in Nat
    BY <1>2, StartsInFile DEF IsLast
  <2> QED BY <2>1, <1>2 DEF IsLast
<1>3. IsLast(CHOOSE k \in Starts(f) : IsLast(k, Starts(f)), Starts(f))
  BY <1>1
<1> QED BY <1>1, <1>2, <1>3 DEF LastStart

\* The scan returns a start marker of the file, or nothing when there is none.
LEMMA LastStartFound ==
  ASSUME NEW R, NEW f \in Seq(R)
  PROVE  \/ Starts(f) = {} /\ LastStart(f) = None
         \/ \E i \in Starts(f) : IsLast(i, Starts(f)) /\ LastStart(f) = f[i]
<1>1. CASE Starts(f) = {}
  BY <1>1 DEF LastStart
<1>2. CASE Starts(f) # {}
  <2>1. Starts(f) \subseteq 0 .. Len(f) /\ Len(f) \in Nat
    BY StartsInFile
  <2>2. PICK i \in Starts(f) : \A j \in Starts(f) : j <= i
    <3> HIDE DEF Starts
    <3> QED BY <1>2, <2>1, Greatest
  <2> QED BY <2>2, LastStartIs DEF IsLast
<1> QED BY <1>1, <1>2

-----------------------------------------------------------------------------
(* The journal of the runtime.                                               *)

USE DEF disk, journal, process, history

\* The records that are appended are records.
LEMMA RecordTypes ==
  /\ \A s, b \in Nat : StartRec(s, b) \in Record /\ StartRec(s, b) \in Carried
  /\ Checkpoint \in Record
  /\ ShutdownObserved \in Record /\ CleanShutdown \in Record
  /\ NetworkEvent \in Record /\ WorkerFailure \in Record /\ Torn \in Record
BY DEF Record, Carried, StartRec, Checkpoint, ShutdownObserved, CleanShutdown,
       NetworkEvent, WorkerFailure, Torn

\* A start marker that is a record has the fields of one.
LEMMA StartIsCarried ==
  ASSUME NEW r \in Record, IsStart(r)
  PROVE  r \in Carried
BY DEF Record, Carried, IsStart

\* What rotation carries over is a start marker or nothing.
LEMMA LastStartType ==
  ASSUME NEW f \in Seq(Record)
  PROVE  LastStart(f) \in Carried \cup {None}
<1>1. CASE LastStart(f) = None
  BY <1>1
<1>2. CASE \E i \in Starts(f) : LastStart(f) = f[i]
  <2>1. PICK i \in Starts(f) : LastStart(f) = f[i]
    BY <1>2
  <2>2. i \in 1 .. Len(f)
    BY StartsInFile
  <2>3. f[i] \in Record /\ IsStart(f[i])
    BY <2>2, ElementOfSeq DEF Starts
  <2> QED BY <2>1, <2>3, StartIsCarried
<1> QED BY <1>1, <1>2, LastStartFound

\* The sequences the actions build are sequences of records.
LEMMA RecordSeqs ==
  /\ <<>> \in Seq(Record) /\ Len(<<>>) = 0
  /\ \A r \in Record : <<r>> \in Seq(Record) /\ Len(<<r>>) = 1
  /\ \A r \in Record, q \in Seq(Record) :
        Append(q, r) \in Seq(Record) /\ Len(Append(q, r)) = Len(q) + 1
BY EmptySeq

\* A write that fails half way leaves the file as it was, or torn.
LEMMA AppendedRest ==
  ASSUME file \in Seq(Record), \E rest \in Remnants : file' = file \o rest
  PROVE  file' = file \/ ("tear" \in Faults /\ file' = Append(file, Torn))
<1>1. PICK rest \in Remnants : file' = file \o rest
  OBVIOUS
<1>2. rest = <<>> \/ ("tear" \in Faults /\ rest = <<Torn>>)
  BY DEF Remnants
<1>3. CASE rest = <<>>
  BY <1>1, <1>3, ConcatEmptySeq
<1>4. CASE "tear" \in Faults /\ rest = <<Torn>>
  <2>1. Torn \in Record
    BY RecordTypes
  <2> QED BY <1>1, <1>4, <2>1, AppendIsConcat
<1> QED BY <1>2, <1>3, <1>4

\* The flags, which the actions set to literals, keep their types.
Flags ==
    exists \in BOOLEAN /\ rotating \in BOOLEAN /\ stop \in BOOLEAN /\ failed \in BOOLEAN

LEMMA FlagsType == Flags /\ [Next]_vars => Flags'
<1> SUFFICES ASSUME Flags, [Next]_vars PROVE Flags'
  OBVIOUS
<1> USE DEF Flags
<1>1. CASE Start \/ MainThread \/ ControlWorker \/ CheckpointDue \/ LogWorkerFailure
  BY <1>1, Zenon DEF Start, MainThread, ControlWorker, CheckpointDue, LogWorkerFailure,
     OpenJournal, OpenJournalFails, Ready, WorkerFailureLogged, FlushAndMark, Stopped,
     TakeCheckpoint, CheckpointTaken
<1>2. CASE AppendRecord \/ AppendFails \/ SyncFails \/ RotateAwayFails
  BY <1>2, Zenon DEF AppendRecord, AppendFails, SyncFails, RotateAwayFails, GiveUp
<1>3. CASE RotateAway \/ RotateBlind \/ RotateFresh \/ RotateFreshFails \/ CarryFails
  BY <1>3, Zenon DEF RotateAway, RotateBlind, Rename, RotateFresh, RotateFreshFails, CarryFails,
     GiveUp
<1>4. CASE UiRequestStop \/ RunElapsed
  BY <1>4, Zenon DEF UiRequestStop, RunElapsed
<1>5. CASE HostExit \/ UiExit \/ Kill \/ Reboot \/ PowerLoss
  BY <1>5, Zenon DEF HostExit, UiExit, Kill, Reboot, PowerLoss, Gone
<1>6. CASE UNCHANGED vars
  BY <1>6, Zenon DEF vars
<1> QED
  BY <1>1, <1>2, <1>3, <1>4, <1>5, <1>6 DEF Next, AppendStep

LEMMA TypeInit == Init => TypeOK
<1>1. Init => Flags
  BY Zenon DEF Init, Flags
<1> QED BY <1>1, RecordSeqs DEF Init, TypeOK, Flags, MutexOwned

\* Every action keeps the types.
LEMMA TypeNext == TypeOK /\ [Next]_vars => TypeOK'
<1> SUFFICES ASSUME TypeOK, [Next]_vars PROVE TypeOK'
  OBVIOUS
<1> USE RecoveryAssumption DEF TypeOK, MutexOwned
<1>f. Flags'
  BY FlagsType DEF Flags
<1> USE <1>f DEF Flags
<1>t. todo # <<>> => Head(todo) \in Record /\ Tail(todo) \in Seq(Record)
  BY HeadTailProperties
<1>h. ASSUME NEW h \in {"open", "none"}, todo # <<>>, GiveUp(h)
      PROVE  handle' \in {"open", "none", "absent"} /\ todo' \in Seq(Record)
  <2>1. CASE Head(todo).kind = "start"
    BY <2>1, <1>h, RecordSeqs DEF GiveUp
  <2>2. CASE Head(todo).kind # "start"
    BY <2>2, <1>h, <1>t DEF GiveUp
  <2> QED BY <2>1, <2>2
<1>1. CASE Start
  <2>1. recovered' \in [clean : BOOLEAN, incident : BOOLEAN, told : BOOLEAN]
    <3>1. PICK p \in LookBack :
             recovered' = [clean |-> p.clean, incident |-> RestartIncident(p, boot),
                           told |-> recovered.told \/ RestartIncident(p, boot)]
      BY <1>1 DEF Start
    <3>2. p.clean \in BOOLEAN
      <4>1. PreviousSession(file).clean \in BOOLEAN
        BY DEF PreviousSession
      <4>2. p = PreviousSession(file) \/ p = [start |-> None, clean |-> FALSE]
        BY DEF LookBack
      <4>3. CASE p = PreviousSession(file)
        BY <4>1, <4>3
      <4>4. CASE p = [start |-> None, clean |-> FALSE]
        BY <4>4
      <4> QED BY <4>2, <4>3, <4>4
    <3>3. RestartIncident(p, boot) \in BOOLEAN
      BY DEF RestartIncident
    <3> QED BY <3>1, <3>2, <3>3
  <2> QED BY <1>1, <2>1 DEF Start
<1>2. CASE OpenJournal
  BY <1>2, RecordTypes DEF OpenJournal
<1>20. CASE OpenJournalFails
  BY <1>20 DEF OpenJournalFails
<1>3. CASE Ready \/ WorkerFailureLogged \/ Stopped \/ CheckpointTaken
  BY <1>3 DEF Ready, WorkerFailureLogged, Stopped, CheckpointTaken
<1>4. CASE FlushAndMark
  BY <1>4, RecordTypes DEF FlushAndMark
<1>5. CASE TakeCheckpoint
  BY <1>5, RecordTypes DEF TakeCheckpoint
<1>6. CASE LogWorkerFailure
  BY <1>6, RecordTypes DEF LogWorkerFailure
<1>7. CASE AppendRecord
  <2>1. Head(todo) \in Record /\ Tail(todo) \in Seq(Record)
    BY <1>7, <1>t DEF AppendRecord, Appending
  <2>2. file' \in Seq(Record) /\ Len(file') = Len(file) + 1
    BY <1>7, <2>1 DEF AppendRecord
  <2>3. truth' \in [sess : Nat, boot : Nat, ended : BOOLEAN, sure : BOOLEAN]
    BY <1>7 DEF AppendRecord, Outcome
  <2> QED BY <1>7, <2>1, <2>2, <2>3 DEF AppendRecord, Appending
<1>8. CASE AppendFails
  <2>1. file' = file \/ file' = Append(file, Torn)
    BY <1>8, AppendedRest DEF AppendFails
  <2>2. file' \in Seq(Record) /\ synced \in 0 .. Len(file')
    <3>1. CASE file' = file
      BY <3>1
    <3>2. CASE file' = Append(file, Torn)
      <4>1. Torn \in Record
        BY RecordTypes
      <4> QED BY <3>2, <4>1, RecordSeqs
    <3> QED BY <2>1, <3>1, <3>2
  <2> QED BY <1>8, <2>2, <1>h DEF AppendFails, Appending
<1>21. CASE SyncFails
  <2>1. file' \in Seq(Record) /\ Len(file') = Len(file) + 1
    BY <1>21, <1>t, RecordSeqs DEF SyncFails, Appending
  <2>2. truth' \in [sess : Nat, boot : Nat, ended : BOOLEAN, sure : BOOLEAN]
    BY <1>21 DEF SyncFails
  <2> QED BY <1>21, <2>1, <2>2, <1>h DEF SyncFails, Appending
<1>9. CASE RotateAway
  BY <1>9, LastStartType, RecordSeqs DEF RotateAway, Rename, Appending
<1>22. CASE RotateBlind
  BY <1>22, RecordSeqs DEF RotateBlind, Rename, Appending
<1>10. CASE RotateAwayFails
  BY <1>10, <1>h DEF RotateAwayFails, Appending
<1>11. CASE RotateFresh
  <2>1. file' \in Seq(Record)
    BY <1>11, RecordSeqs DEF RotateFresh, Carried, Record
  <2> QED BY <1>11, <2>1 DEF RotateFresh
<1>12. CASE RotateFreshFails
  BY <1>12, <1>h DEF RotateFreshFails
<1>19. CASE CarryFails
  <2>1. file' \in Seq(Record)
    <3>1. Torn \in Record /\ (carried # None => carried \in Record)
      BY RecordTypes DEF Record
    <3>2. file' \in {<<>>, <<Torn>>} \/ (carried # None /\ file' = <<carried>>)
      BY <1>19 DEF CarryFails, Remnants
    <3> QED BY <3>1, <3>2, RecordSeqs
  <2> QED BY <1>19, <2>1, <1>h DEF CarryFails
<1>13. CASE CheckpointDue \/ UiRequestStop \/ RunElapsed
  BY <1>13 DEF CheckpointDue, Running, UiRequestStop, RunElapsed
<1>14. CASE HostExit \/ UiExit \/ Kill
  <2>1. CASE HostExit
    BY <2>1, RecordSeqs DEF HostExit, Gone
  <2>2. CASE UiExit
    BY <2>2, RecordSeqs DEF UiExit, Gone
  <2>3. CASE Kill
    BY <2>3, RecordSeqs DEF Kill, Gone
  <2> QED BY <1>14, <2>1, <2>2, <2>3
<1>r. recovered' = [recovered EXCEPT !.told = FALSE]
        => recovered' \in [clean : BOOLEAN, incident : BOOLEAN, told : BOOLEAN]
  OBVIOUS
<1>15. CASE Reboot
  BY <1>15, <1>r DEF Reboot
<1>16. CASE PowerLoss
  <2>1. PICK n \in synced .. Len(file), tail \in {<<>>, <<Torn>>} :
          /\ file' = SubSeq(file, 1, n) \o tail
          /\ synced' = n + Len(tail)
    BY <1>16 DEF PowerLoss
  <2>2. SubSeq(file, 1, n) \in Seq(Record) /\ Len(SubSeq(file, 1, n)) = n
    BY SubSeqProperties, ElementOfSeq
  <2>3. tail \in Seq(Record)
    BY RecordTypes, RecordSeqs
  <2>4. file' \in Seq(Record) /\ synced' \in 0 .. Len(file')
    BY <2>1, <2>2, <2>3
  <2>5. Gone("power") /\ UNCHANGED <<exists, sess, truth>> /\ boot' = boot + 1
        /\ recovered' \in [clean : BOOLEAN, incident : BOOLEAN, told : BOOLEAN]
    BY <1>16, <1>r DEF PowerLoss
  <2> QED BY <2>4, <2>5, RecordSeqs DEF Gone
<1>17. CASE UNCHANGED vars
  BY <1>17 DEF vars
<1> QED
  BY <1>1, <1>2, <1>3, <1>4, <1>5, <1>6, <1>7, <1>8, <1>9, <1>10, <1>11, <1>12, <1>13,
     <1>14, <1>15, <1>16, <1>17, <1>19, <1>20, <1>21, <1>22
     DEF Next, MainThread, ControlWorker, AppendStep

\* The variables of the journal and its process keep their types, whatever fails.
THEOREM TypeCorrect == Spec => []TypeOK
BY TypeInit, TypeNext, PTL DEF Spec

-----------------------------------------------------------------------------
(* Whatever fails, torn writes included                                       *)

\* The numbers about the file, without the rest of the types.
LEMMA FileNumbers ==
  ASSUME TypeOK
  PROVE  /\ file \in Seq(Record) /\ Len(file) \in Nat /\ DOMAIN file = 1 .. Len(file)
         /\ synced \in Nat /\ synced <= Len(file)
         /\ sess \in Nat /\ truth.sess \in Nat /\ boot \in Nat
<1>1. file \in Seq(Record) /\ synced \in 0 .. Len(file)
  BY DEF TypeOK
<1>2. /\ sess \in Nat /\ boot \in Nat
      /\ truth \in [sess : Nat, boot : Nat, ended : BOOLEAN, sure : BOOLEAN]
  BY DEF TypeOK
<1>3. Len(file) \in Nat /\ DOMAIN file = 1 .. Len(file)
  BY <1>1, LenProperties
<1> QED BY <1>1, <1>2, <1>3

\* A start marker in the file has a session and a boot.
LEMMA StartNumbers ==
  ASSUME TypeOK, NEW i \in DOMAIN file, IsStart(file[i])
  PROVE  file[i] \in Carried /\ file[i].sess \in Nat /\ file[i].boot \in Nat
<1>1. file[i] \in Carried
  BY FileNumbers, ElementOfSeq, StartIsCarried
<1> QED BY <1>1 DEF Carried

\* The records an append leaves in the file.
LEMMA Appended ==
  ASSUME NEW f \in Seq(Record), NEW r \in Record
  PROVE  /\ DOMAIN Append(f, r) = 1 .. Len(f) + 1 /\ DOMAIN f = 1 .. Len(f)
         /\ Len(f) \in Nat
         /\ Append(f, r) \in Seq(Record)
         /\ Append(f, r)[Len(f) + 1] = r
         /\ \A i \in DOMAIN f : Append(f, r)[i] = f[i]
         /\ \A i \in DOMAIN Append(f, r) : i \in DOMAIN f \/ i = Len(f) + 1
OBVIOUS

\* What a loss of power leaves in the file: a prefix, and possibly a torn record.
LEMMA Remains ==
  ASSUME NEW f \in Seq(Record), NEW n \in 0 .. Len(f), NEW tail \in {<<>>, <<Torn>>},
         NEW g, g = SubSeq(f, 1, n) \o tail
  PROVE  /\ g \in Seq(Record) /\ Len(g) = n + Len(tail) /\ n <= Len(g) /\ n \in Nat
         /\ \A i \in 1 .. n : g[i] = f[i]
         /\ \A i \in DOMAIN g : i > n => g[i] = Torn
<1>1. n \in Nat /\ n <= Len(f) /\ Len(f) \in Nat
  OBVIOUS
<1>2. SubSeq(f, 1, n) \in Seq(Record) /\ Len(SubSeq(f, 1, n)) = n
      /\ \A i \in 1 .. n : SubSeq(f, 1, n)[i] = f[i]
  <2>1. \A i \in 1 .. n : f[i] \in Record /\ 1 + i - 1 = i
    BY <1>1, ElementOfSeq
  <2>2. (IF 1 <= n THEN n - 1 + 1 ELSE 0) = n /\ n - 1 + 1 = n
    BY <1>1
  <2> QED BY <1>1, <2>1, <2>2, SubSeqProperties
<1>3. tail \in Seq(Record) /\ Len(tail) \in Nat /\ \A i \in 1 .. Len(tail) : tail[i] = Torn
  <2>1. CASE tail = <<>>
    BY <2>1, RecordSeqs
  <2>2. CASE tail = <<Torn>>
    <3>1. Len(tail) = 1 /\ tail[1] = Torn
      BY <2>2
    <3> QED BY <2>2, <3>1, RecordTypes, RecordSeqs
  <2> QED BY <2>1, <2>2
<1> DEFINE p == SubSeq(f, 1, n)
<1> HIDE DEF p
<1>4. /\ g \in Seq(Record) /\ Len(g) = n + Len(tail)
      /\ \A i \in 1 .. n : g[i] = p[i]
      /\ \A i \in DOMAIN g : i > n => g[i] = tail[i - n]
  BY <1>1, <1>2, <1>3 DEF p
<1> QED BY <1>1, <1>2, <1>3, <1>4 DEF p

\* The first record to be appended, and those that remain after it.
LEMMA Remaining ==
  ASSUME TypeOK, todo # <<>>
  PROVE  /\ Head(todo) \in Record /\ Head(todo) = todo[1] /\ 1 \in DOMAIN todo
         /\ Tail(todo) \in Seq(Record) /\ Len(todo) \in Nat /\ DOMAIN todo = 1 .. Len(todo)
         /\ Len(Tail(todo)) = Len(todo) - 1
         /\ \A j \in DOMAIN Tail(todo) :
               j + 1 \in DOMAIN todo /\ Tail(todo)[j] = todo[j + 1] /\ j + 1 # 1 /\ j \in Nat
         /\ Tail(todo) # <<>> => Head(Tail(todo)) = Tail(todo)[1] /\ 1 \in DOMAIN Tail(todo)
<1>1. todo \in Seq(Record)
  BY DEF TypeOK
<1>2. Tail(todo) \in Seq(Record) /\ Len(Tail(todo)) = Len(todo) - 1 /\ Len(todo) \in Nat
      /\ DOMAIN todo = 1 .. Len(todo) /\ 1 \in DOMAIN todo
  BY <1>1
<1>3. ASSUME NEW j \in DOMAIN Tail(todo)
      PROVE  j + 1 \in DOMAIN todo /\ Tail(todo)[j] = todo[j + 1] /\ j + 1 # 1 /\ j \in Nat
  BY <1>1, <1>2, HeadTailProperties, LenProperties
<1>4. Head(todo) \in Record /\ Head(todo) = todo[1]
  BY <1>1
<1>5. Tail(todo) # <<>> => Head(Tail(todo)) = Tail(todo)[1] /\ 1 \in DOMAIN Tail(todo)
  BY <1>2
<1> QED BY <1>2, <1>3, <1>4, <1>5

\* After an append, successful or not, no start marker is left to be appended.
LEMMA RestStartsNothing ==
  ASSUME TypeOK, StartsInOrder, todo # <<>>,
         todo' = Tail(todo) \/ \E h : GiveUp(h)
  PROVE  /\ ~StartPending' /\ \A j \in DOMAIN todo' : ~IsStart(todo'[j])
         /\ \A j \in DOMAIN todo' : j + 1 \in DOMAIN todo /\ todo'[j] = todo[j + 1]
         /\ \A j \in DOMAIN todo' : j + 1 = Len(todo) => j = Len(todo')
<1>1. CASE todo' = Tail(todo)
  <2>1. \A j \in DOMAIN todo' : ~IsStart(todo'[j])
    BY <1>1, Remaining DEF StartsInOrder
  <2>2. ~StartPending'
    BY <1>1, <2>1, Remaining DEF StartPending, IsStart
  <2>3. \A j \in DOMAIN todo' : j + 1 = Len(todo) => j = Len(todo')
    BY <1>1, Remaining
  <2> QED BY <1>1, <2>1, <2>2, <2>3, Remaining
<1>2. CASE todo' = <<>>
  BY <1>2 DEF StartPending
<1> QED BY <1>1, <1>2 DEF GiveUp

\* Whoever has records to append is past its start-up.
LEMMA HolderStarted ==
  ASSUME TypeOK, todo # <<>> \/ rotating
  PROVE  pc \notin {"off", "starting"} /\ lock # "free" /\ todo # <<>>
BY DEF TypeOK, MutexOwned

-----------------------------------------------------------------------------
(* The order of the start markers                                            *)

\* The start markers of a file come from the one before or were carried over, and
\* none becomes older.
LEMMA OrderKept ==
  ASSUME StartsInOrder, sess' = sess, truth'.sess = truth.sess, Unrecorded' => Unrecorded,
         \A j \in DOMAIN todo' : IsStart(todo'[j]) =>
            j \in DOMAIN todo /\ todo'[j] = todo[j] /\ boot' = boot,
         \A i \in DOMAIN file' : IsStart(file'[i]) =>
            \/ \E k \in DOMAIN file : file[k] = file'[i]
            \/ carried # None /\ file'[i] = carried,
         carried' # None =>
            carried' = carried \/ \E k \in DOMAIN file : IsStart(file[k]) /\ file[k] = carried'
  PROVE  StartsInOrder'
<1>1. \A i \in DOMAIN file' : IsStart(file'[i]) =>
         file'[i].sess <= sess' /\ (Unrecorded' => file'[i].sess < sess')
  BY DEF StartsInOrder
<1>2. carried' # None => carried'.sess <= sess' /\ (Unrecorded' => carried'.sess < sess')
  BY DEF StartsInOrder
<1>3. \A j \in DOMAIN todo' : IsStart(todo'[j]) => j = 1 /\ todo'[j] = StartRec(sess, boot)'
  BY DEF StartsInOrder, StartRec
<1>4. truth'.sess <= sess' /\ (Unrecorded' => truth'.sess < sess')
  BY DEF StartsInOrder
<1> QED BY <1>1, <1>2, <1>3, <1>4 DEF StartsInOrder

\* The marker found last in the file is one of its start markers.
LEMMA LastStartInFile ==
  ASSUME NEW f \in Seq(Record), LastStart(f) # None
  PROVE  \E k \in DOMAIN f : IsStart(f[k]) /\ f[k] = LastStart(f)
<1>1. PICK i \in Starts(f) : LastStart(f) = f[i]
  BY LastStartFound
<1> QED BY <1>1 DEF Starts, Readable

LEMMA OrderInit == Init => StartsInOrder
BY RecordSeqs DEF Init, StartsInOrder, Unrecorded, StartPending

\* Every action keeps the start markers in order, whatever fails.
LEMMA OrderNext ==
  ASSUME TypeOK, StartsInOrder, [Next]_vars
  PROVE  StartsInOrder'
<1>0. file \in Seq(Record) /\ Len(file) \in Nat /\ DOMAIN file = 1 .. Len(file)
      /\ sess \in Nat /\ truth.sess \in Nat
  BY FileNumbers
<1>1. CASE Start
  <2>1. sess' = sess + 1 /\ UNCHANGED <<file, truth, carried, todo>> /\ todo = <<>>
    BY <1>1 DEF Start, TypeOK, MutexOwned
  <2>2. \A i \in DOMAIN file : IsStart(file[i]) => file[i].sess < sess'
    BY <1>0, <2>1, StartNumbers DEF StartsInOrder
  <2>3. carried # None => carried.sess < sess'
    <3>1. carried # None => carried.sess \in Nat /\ carried.sess <= sess
      BY DEF TypeOK, Carried, StartsInOrder
    <3> QED BY <1>0, <2>1, <3>1
  <2>4. truth.sess < sess' /\ truth.sess <= sess'
    BY <1>0, <2>1 DEF StartsInOrder
  <2>5. \A i \in DOMAIN file : IsStart(file[i]) => file[i].sess <= sess'
    BY <1>0, <2>1, <2>2, StartNumbers
  <2>6. carried # None => carried.sess <= sess'
    <3>1. carried # None => carried.sess \in Nat
      BY DEF TypeOK, Carried
    <3> QED BY <1>0, <2>1, <2>3, <3>1
  <2> QED BY <2>1, <2>2, <2>3, <2>4, <2>5, <2>6 DEF StartsInOrder
<1>2. CASE OpenJournal
  <2>1. /\ todo' = <<StartRec(sess, boot), NetworkEvent>> /\ pc = "starting"
        /\ UNCHANGED <<file, sess, boot, truth, carried>>
    BY <1>2 DEF OpenJournal
  <2>2. \A j \in DOMAIN todo' : IsStart(todo'[j]) => j = 1 /\ todo'[j] = StartRec(sess', boot')
    BY <2>1 DEF IsStart, NetworkEvent
  <2> QED BY <2>1, <2>2 DEF StartsInOrder, Unrecorded
<1>3. CASE OpenJournalFails \/ Ready \/ WorkerFailureLogged \/ Stopped \/ CheckpointTaken
           \/ CheckpointDue \/ UiRequestStop \/ RunElapsed \/ UNCHANGED vars
  <2>1. /\ UNCHANGED <<file, sess, boot, truth, carried, todo>>
        /\ pc' = "starting" => pc = "starting"
    BY <1>3 DEF OpenJournalFails, Ready, WorkerFailureLogged, Stopped, CheckpointTaken,
       CheckpointDue, UiRequestStop, RunElapsed, vars
  <2> QED BY <2>1, OrderKept DEF Unrecorded, StartPending
<1>4. CASE FlushAndMark \/ TakeCheckpoint \/ LogWorkerFailure
  <2>1. /\ todo' \in {<<>>, <<Checkpoint>>, <<WorkerFailure>>,
                      <<Checkpoint, ShutdownObserved, CleanShutdown>>}
        /\ UNCHANGED <<file, sess, boot, truth, carried>>
        /\ pc' # "starting"
    BY <1>4 DEF FlushAndMark, TakeCheckpoint, LogWorkerFailure, TypeOK, MutexOwned
  <2>2. \A j \in DOMAIN todo' : ~IsStart(todo'[j])
    BY <2>1 DEF IsStart, Checkpoint, ShutdownObserved, CleanShutdown, WorkerFailure
  <2>3. ~Unrecorded'
    BY <2>1 DEF Unrecorded, StartPending, Checkpoint, WorkerFailure
  <2> QED BY <2>1, <2>2, <2>3, OrderKept
<1>5. CASE HostExit \/ UiExit \/ Kill
  <2>1. /\ UNCHANGED <<file, sess, truth>>
        /\ todo' = <<>> /\ pc' = "off" /\ carried' = None
    BY <1>5 DEF HostExit, UiExit, Kill, Gone
  <2> QED BY <2>1, OrderKept DEF Unrecorded, StartPending
<1>6. CASE Reboot
  <2>1. UNCHANGED <<file, sess, truth, carried, todo, pc>> /\ todo = <<>>
    BY <1>6 DEF Reboot, TypeOK, MutexOwned
  <2> QED BY <2>1, OrderKept DEF Unrecorded, StartPending
<1>7. CASE PowerLoss
  <2>1. PICK n \in synced .. Len(file), tail \in {<<>>, <<Torn>>} :
          file' = SubSeq(file, 1, n) \o tail
    BY <1>7 DEF PowerLoss
  <2>2. n \in 0 .. Len(file)
    BY FileNumbers
  <2>3. \A i \in DOMAIN file' : IsStart(file'[i]) => \E k \in DOMAIN file : file[k] = file'[i]
    <3>1. /\ DOMAIN file' = 1 .. Len(file') /\ n \in Nat
          /\ \A i \in 1 .. n : file'[i] = file[i]
          /\ \A i \in DOMAIN file' : i > n => file'[i] = Torn
      BY <1>0, <2>1, <2>2, Remains
    <3>2. ~IsStart(Torn)
      BY DEF IsStart, Torn
    <3>3. ASSUME NEW i \in DOMAIN file', IsStart(file'[i]) PROVE i \in 1 .. n /\ i \in DOMAIN file
      BY <1>0, <2>2, <3>1, <3>2, <3>3
    <3> QED BY <3>1, <3>3
  <2>4. /\ UNCHANGED <<sess, truth>> /\ todo' = <<>> /\ pc' = "off" /\ carried' = None
    BY <1>7 DEF PowerLoss, Gone
  <2> QED BY <2>3, <2>4, OrderKept DEF Unrecorded, StartPending
<1>8. CASE (AppendRecord \/ SyncFails) /\ ~StartPending
  <2> DEFINE r == Head(todo)
  <2>1. /\ todo # <<>> /\ file' = Append(file, r)
        /\ todo' = Tail(todo) \/ GiveUp("open")
        /\ truth' \in {truth, Outcome(r), [truth EXCEPT !.ended = TRUE]}
        /\ UNCHANGED <<sess, boot, carried, pc>> /\ r.kind # "start"
    BY <1>8 DEF AppendRecord, SyncFails, Appending, StartPending
  <2>2. truth'.sess = truth.sess
    BY <2>1 DEF TypeOK, Outcome
  <2>3. \A i \in DOMAIN file' : IsStart(file'[i]) => \E k \in DOMAIN file : file[k] = file'[i]
    BY <1>0, <2>1, Remaining, Appended DEF IsStart
  <2> QED BY <2>1, <2>2, <2>3, RestStartsNothing, OrderKept DEF Unrecorded
<1>9. CASE (AppendRecord \/ SyncFails) /\ StartPending
  <2> DEFINE r == Head(todo)
  <2>1. /\ todo # <<>> /\ file' = Append(file, r)
        /\ todo' = Tail(todo) \/ GiveUp("open")
        /\ UNCHANGED <<sess, boot, carried, pc>> /\ r = StartRec(sess, boot)
    BY <1>9, Remaining DEF AppendRecord, SyncFails, Appending, StartPending, StartsInOrder, IsStart
  <2>2. truth'.sess <= sess
    <3>1. CASE AppendRecord
      <4>1. truth' = Outcome(r) /\ r.kind = "start"
        BY <2>1, <3>1 DEF AppendRecord, StartRec
      <4>2. truth' = [sess |-> sess, boot |-> boot, ended |-> FALSE, sure |-> FALSE]
        BY <4>1, Zenon DEF Outcome
      <4> QED BY <4>2, <1>0
    <3>2. CASE SyncFails
      BY <2>1, <3>2 DEF SyncFails, StartRec, StartsInOrder
    <3> QED BY <1>9, <3>1, <3>2
  <2>3. ~Unrecorded' /\ \A j \in DOMAIN todo' : ~IsStart(todo'[j])
    BY <2>1, HolderStarted, RestStartsNothing DEF Unrecorded
  <2>4. r.sess = sess /\ r \in Record
    BY <2>1, <1>0, RecordTypes, Remaining DEF StartRec
  <2>5. \A i \in DOMAIN file' : IsStart(file'[i]) => file'[i].sess <= sess'
    BY <1>0, <2>1, <2>4, Appended DEF StartsInOrder
  <2> QED BY <2>1, <2>2, <2>3, <2>5 DEF StartsInOrder
<1>10. CASE AppendFails
  <2>1. /\ todo # <<>>
        /\ file' = file \/ file' = Append(file, Torn)
        /\ GiveUp("open") /\ UNCHANGED <<sess, boot, truth, carried, pc>>
    BY <1>0, <1>10, AppendedRest DEF AppendFails, Appending
  <2>2. \A i \in DOMAIN file' : IsStart(file'[i]) => \E k \in DOMAIN file : file[k] = file'[i]
    BY <1>0, <2>1, RecordTypes, Appended DEF IsStart, Torn
  <2> QED BY <1>10, <2>1, <2>2, RestStartsNothing, OrderKept DEF Unrecorded, AppendFails, Appending
<1>11. CASE RotateAwayFails \/ RotateFreshFails \/ CarryFails
  <2>1. /\ todo # <<>> /\ UNCHANGED <<sess, boot, truth, pc>> /\ carried' \in {carried, None}
        /\ GiveUp("none") \/ GiveUp("open")
        /\ \/ UNCHANGED file
           \/ file' \in {<<>>, <<Torn>>}
           \/ file' = <<carried>> /\ carried # None
    BY <1>11, HolderStarted DEF RotateAwayFails, RotateFreshFails, CarryFails, Remnants, Appending
  <2>2. \A i \in DOMAIN file' : IsStart(file'[i]) =>
            \/ \E k \in DOMAIN file : file[k] = file'[i]
            \/ carried # None /\ file'[i] = carried
    <3>1. CASE file' \in {<<>>, <<Torn>>}
      BY <3>1 DEF IsStart, Torn
    <3>2. CASE file' = <<carried>> /\ carried # None
      BY <3>2
    <3> QED BY <2>1, <3>1, <3>2
  <2> QED BY <2>1, <2>2, RestStartsNothing, OrderKept DEF Unrecorded
<1>12. CASE RotateAway \/ RotateBlind
  <2>1. /\ UNCHANGED <<sess, boot, truth, pc, todo>> /\ file' = <<>>
        /\ carried' \in {None, LastStart(file)}
    BY <1>12 DEF RotateAway, RotateBlind, Rename
  <2>2. carried' # None => \E k \in DOMAIN file : IsStart(file[k]) /\ file[k] = carried'
    BY <1>0, <2>1, LastStartInFile
  <2> QED BY <2>1, <2>2, OrderKept DEF Unrecorded, StartPending
<1>13. CASE RotateFresh
  <2>1. /\ UNCHANGED <<sess, boot, truth, pc, todo>> /\ carried' = None
        /\ file' = <<>> \/ (carried # None /\ file' = <<carried>>)
    BY <1>13 DEF RotateFresh
  <2> QED BY <2>1, OrderKept DEF Unrecorded, StartPending
<1> QED
  BY <1>1, <1>2, <1>3, <1>4, <1>5, <1>6, <1>7, <1>8, <1>9, <1>10, <1>11, <1>12, <1>13
     DEF Next, MainThread, ControlWorker, AppendStep

-----------------------------------------------------------------------------
(* The clean marker                                                          *)

\* The files f and g agree on their first n records, no marker a reader of f finds
\* is beyond them and no start marker of g.
SameMarks(f, g, n) ==
    /\ n \in Nat /\ n <= Len(f) /\ n <= Len(g)
    /\ \A i \in 1 .. n : g[i] = f[i]
    /\ \A i \in Readable(f) : f[i].kind \in {"start", "clean"} => i <= n
    /\ \A i \in Readable(g) : i > n => ~IsStart(g[i])

\* Then g is taken for clean whenever f is.
LEMMA MarkSurvives ==
  ASSUME NEW f \in Seq(Record), NEW g \in Seq(Record), NEW n, SameMarks(f, g, n),
         PreviousSession(f).clean
  PROVE  PreviousSession(g).clean
<1> USE DEF SameMarks
<1>1. DOMAIN f = 1 .. Len(f) /\ DOMAIN g = 1 .. Len(g) /\ Len(f) \in Nat /\ Len(g) \in Nat
  OBVIOUS
<1>2. \A i \in 1 .. n : i \in DOMAIN f /\ i \in DOMAIN g /\ \A j \in 1 .. i : j \in 1 .. n
  BY <1>1
<1>3. \A i \in 1 .. n : i \in Readable(f) <=> i \in Readable(g)
  BY <1>2 DEF Readable
<1>4. Starts(f) \subseteq 1 .. n
  BY <1>1 DEF Starts, Readable, IsStart
<1>5. Starts(g) \subseteq 1 .. n
  BY <1>1 DEF Starts, Readable
<1>6. Starts(f) = Starts(g)
  BY <1>3, <1>4, <1>5 DEF Starts
<1>7. LastStart(f) # None /\ EndedCleanly(f, LastStart(f).sess)
  BY DEF PreviousSession
<1>8. PICK i \in Starts(f) : IsLast(i, Starts(f)) /\ LastStart(f) = f[i]
  BY <1>7, LastStartFound
<1>9. LastStart(g) = g[i]
  BY <1>6, <1>8, LastStartIs
<1>10. LastStart(g) = LastStart(f)
  BY <1>4, <1>8, <1>9
<1>11. EndedCleanly(g, LastStart(f).sess)
  <2> DEFINE s == LastStart(f).sess
  <2>1. PICK m \in Readable(f) :
          /\ f[m].kind = "clean"
          /\ \E k \in Starts(f) : k < m /\ f[k].sess = s
          /\ \A j, k \in Starts(f) : j < k /\ k < m /\ f[j].sess = s => f[k].sess = s
    BY <1>7 DEF EndedCleanly
  <2>2. m \in 1 .. n
    BY <1>1, <2>1 DEF Readable
  <2>3. m \in Readable(g) /\ g[m].kind = "clean"
    BY <1>3, <2>1, <2>2
  <2>4. \A k \in Starts(g) : k \in Starts(f) /\ g[k] = f[k]
    BY <1>4, <1>6
  <2>5. \E k \in Starts(g) : k < m /\ g[k].sess = s
    BY <1>6, <2>1, <2>4
  <2>6. \A j, k \in Starts(g) : j < k /\ k < m /\ g[j].sess = s => g[k].sess = s
    BY <2>1, <2>4
  <2> QED BY <2>3, <2>5, <2>6 DEF EndedCleanly
<1> QED BY <1>7, <1>10, <1>11 DEF PreviousSession

\* A file without a clean marker has no session that ended cleanly.
LEMMA UnmarkedIsUnclean ==
  ASSUME NEW f, \A i \in DOMAIN f : f[i].kind # "clean"
  PROVE  ~PreviousSession(f).clean
BY DEF PreviousSession, EndedCleanly, Readable

\* What a reader finds in a file is not affected by what follows.
LEMMA StillReadable ==
  ASSUME NEW f \in Seq(Record), NEW r \in Record, NEW g, g = Append(f, r)
  PROVE  /\ \A i \in DOMAIN f : i \in Readable(g) <=> i \in Readable(f)
         /\ \A i \in Readable(g) : i \in DOMAIN g /\ (i \in Readable(f) \/ i = Len(f) + 1)
         /\ \A i \in Readable(f) : i \in DOMAIN f /\ g[i] = f[i] /\ i \in 1 .. Len(f) /\ i <= Len(f)
<1>1. \A i \in DOMAIN f : i \in DOMAIN g /\ \A j \in 1 .. i : j \in DOMAIN f
  BY Appended
<1>2. \A i \in DOMAIN f : i \in Readable(g) <=> i \in Readable(f)
  BY <1>1, Appended DEF Readable
<1>3. \A i \in Readable(g) : i \in DOMAIN g
  BY DEF Readable
<1>4. \A i \in Readable(f) : i \in DOMAIN f
  BY DEF Readable
<1>5. \A i \in Readable(f) : i \in 1 .. Len(f) /\ i <= Len(f)
  BY <1>4, Appended
<1> QED BY <1>2, <1>3, <1>4, <1>5, Appended

\* A record that marks nothing changes nothing a reader would say.
LEMMA QuietAppend ==
  ASSUME NEW f \in Seq(Record), NEW r \in Record, r.kind \notin {"start", "clean"},
         PreviousSession(Append(f, r)).clean
  PROVE  PreviousSession(f).clean
<1> DEFINE g == Append(f, r)
<1>1. g \in Seq(Record) /\ Len(g) = Len(f) + 1 /\ Len(f) \in Nat /\ g[Len(f) + 1] = r
      /\ \A i \in 1 .. Len(f) : f[i] = g[i]
  BY Appended, RecordSeqs
<1>2. \A i \in Readable(g) : g[i].kind \in {"start", "clean"} => i <= Len(f)
  BY <1>1, StillReadable
<1>3. \A i \in Readable(f) : ~(i > Len(f))
  <2>1. \A i \in Readable(f) : i \in 1 .. Len(f)
    BY StillReadable
  <2> QED BY <1>1, <2>1
<1>5. Len(f) <= Len(g) /\ Len(f) <= Len(f)
  BY <1>1
<1>4. SameMarks(g, f, Len(f))
  BY <1>1, <1>2, <1>3, <1>5 DEF SameMarks
<1> QED BY <1>1, <1>4, MarkSurvives

\* A start marker of a younger session hides the clean marker of an older one; if
\* it does not, no reader gets to it.
LEMMA StartHides ==
  ASSUME NEW f \in Seq(Record), NEW r \in Record, IsStart(r),
         \A i \in DOMAIN f : IsStart(f[i]) => f[i].sess < r.sess,
         PreviousSession(Append(f, r)).clean
  PROVE  PreviousSession(f).clean /\ Len(f) + 1 \notin Readable(Append(f, r))
<1> DEFINE g == Append(f, r)
           n == Len(f) + 1
<1>1. g \in Seq(Record) /\ Len(g) = Len(f) + 1 /\ Len(f) \in Nat /\ g[n] = r
      /\ \A i \in 1 .. Len(f) : f[i] = g[i]
  BY Appended, RecordSeqs
<1>2. n \notin Readable(g)
  <2> SUFFICES ASSUME n \in Readable(g) PROVE FALSE
    OBVIOUS
  <2>1. n \in Starts(g) /\ \A j \in Starts(g) : j <= n
    BY <1>1, Appended DEF Starts, Readable
  <2>2. LastStart(g) = r
    BY <1>1, <2>1, LastStartIs DEF IsLast
  <2>3. PICK m \in Readable(g), k \in Starts(g) :
          g[m].kind = "clean" /\ k < m /\ g[k].sess = r.sess
    BY <2>2 DEF PreviousSession, EndedCleanly
  <2>4. m \in DOMAIN f /\ k \in DOMAIN f
    <3>1. m \in 1 .. n /\ k \in 1 .. n
      BY <1>1, <2>3 DEF Starts, Readable
    <3>2. m # n
      BY <1>1, <2>3 DEF IsStart
    <3> QED BY <1>1, <2>3, <3>1, <3>2
  <2>5. IsStart(f[k]) /\ f[k].sess = r.sess
    BY <2>3, <2>4, Appended DEF Starts
  <2>6. f[k].sess \in Nat /\ f[k].sess < r.sess
    <3>1. f[k] \in Carried
      BY <2>4, <2>5, ElementOfSeq, Appended, StartIsCarried
    <3> QED BY <2>4, <2>5, <3>1 DEF Carried
  <2> QED BY <2>5, <2>6
<1>3. \A i \in Readable(g) : i <= Len(f)
  BY <1>1, <1>2, StillReadable
<1>4. \A i \in Readable(f) : ~(i > Len(f))
  <2>1. \A i \in Readable(f) : i \in 1 .. Len(f)
    BY StillReadable
  <2> QED BY <1>1, <2>1
<1>6. Len(f) <= Len(g) /\ Len(f) <= Len(f)
  BY <1>1
<1>5. SameMarks(g, f, Len(f))
  BY <1>1, <1>3, <1>4, <1>6 DEF SameMarks
<1> QED BY <1>1, <1>2, <1>5, MarkSurvives

\* An append whose caller learns nothing but failure leaves no clean marker beyond
\* those that are durable.
LEMMA FoundBefore ==
  ASSUME TypeOK, MarksAreDurable, NEW r \in Record, file' = Append(file, r),
         truth.sure, PreviousSession(file').clean, synced' \in Nat, synced <= synced',
         \/ r.kind \notin {"start", "clean"}
         \/ IsStart(r) /\ \A i \in DOMAIN file : IsStart(file[i]) => file[i].sess < r.sess
  PROVE  \A i \in Readable(file') : file'[i].kind \in {"start", "clean"} => i <= synced'
<1>0. file \in Seq(Record) /\ Len(file) \in Nat /\ synced \in Nat
  BY FileNumbers
<1>1. PreviousSession(file).clean
  BY <1>0, QuietAppend, StartHides
<1>2. ASSUME NEW i \in Readable(file'), file'[i].kind \in {"start", "clean"}
      PROVE  i \in Readable(file) /\ file'[i] = file[i] /\ i \in Nat
  <2>1. file'[Len(file) + 1] = r
    BY <1>0, Appended
  <2>2. i # Len(file) + 1
    BY <1>0, <1>2, <2>1, StartHides
  <2>3. i \in Readable(file) /\ i \in DOMAIN file'
    BY <1>0, <1>2, <2>2, StillReadable
  <2> QED BY <1>0, <2>3, StillReadable, Appended
<1>3. \A i \in Readable(file) : file[i].kind \in {"start", "clean"} => i <= synced
  BY <1>1 DEF MarksAreDurable
<1>4. ASSUME NEW i \in Readable(file'), file'[i].kind \in {"start", "clean"}
      PROVE  i <= synced'
  <2>1. i <= synced /\ i \in Nat
    BY <1>2, <1>3, <1>4
  <2> QED BY <1>0, <2>1
<1> QED BY <1>4

LEMMA MarksInit == Init => MarkIsLast /\ MarksAreDurable
BY RecordSeqs DEF Init, MarkIsLast, MarksAreDurable, Recorded

\* Steps that append no marker leave the stop path's last.
LEMMA LastKept ==
  ASSUME MarkIsLast, truth'.sure = truth.sure,
         \A j \in DOMAIN todo' : todo'[j].kind = "clean" =>
            \E k \in DOMAIN todo :
               todo[k].kind = "clean" /\ (k = Len(todo) => j = Len(todo')) /\ pc' = pc,
         Recorded' /\ pc' \in {"opening", "run"} => Recorded /\ pc \in {"opening", "run"},
         handle' = "absent" => todo' = <<>>
  PROVE  MarkIsLast'
<1>1. \A j \in DOMAIN todo' : todo'[j].kind = "clean" =>
         j = Len(todo') /\ pc' = "flush" /\ ~truth'.sure
  BY DEF MarkIsLast
<1>2. Recorded' /\ pc' \in {"opening", "run"} => ~truth'.sure
  BY DEF MarkIsLast
<1> QED BY <1>1, <1>2 DEF MarkIsLast

\* Every action keeps the clean marker the last of its session.
LEMMA LastNext ==
  ASSUME TypeOK, StartsInOrder, MarkIsLast, [Next]_vars
  PROVE  MarkIsLast'
<1>1. CASE Start
  BY <1>1, LastKept DEF Start, Recorded, MarkIsLast, TypeOK, MutexOwned
<1>2. CASE OpenJournal
  <2>1. StartPending' /\ \A j \in DOMAIN todo' : todo'[j].kind # "clean"
    BY <1>2 DEF OpenJournal, StartPending, StartRec, NetworkEvent
  <2> QED BY <1>2, <2>1, LastKept DEF OpenJournal, Recorded
<1>3. CASE OpenJournalFails
  <2>1. todo' = <<>> /\ handle' = "absent" /\ UNCHANGED truth
    BY <1>3 DEF OpenJournalFails, TypeOK, MutexOwned
  <2> QED BY <2>1, LastKept DEF Recorded
<1>4. CASE Ready \/ WorkerFailureLogged \/ Stopped \/ CheckpointTaken
  <2>1. /\ todo' = <<>> /\ todo = <<>> /\ UNCHANGED <<truth, handle>>
        /\ pc \notin {"off", "starting"}
        /\ pc' \in {"opening", "run"} => pc \in {"opening", "run"}
    BY <1>4 DEF Ready, WorkerFailureLogged, Stopped, CheckpointTaken, TypeOK, MutexOwned
  <2>2. Recorded' => Recorded
    BY <2>1 DEF Recorded, StartPending
  <2>3. \A j \in DOMAIN todo' : todo'[j].kind # "clean"
    BY <2>1
  <2> QED BY <2>1, <2>2, <2>3, LastKept
<1>5. CASE CheckpointDue \/ UiRequestStop \/ RunElapsed \/ Reboot \/ UNCHANGED vars
  <2>1. UNCHANGED <<truth, handle, todo, pc>>
    BY <1>5 DEF CheckpointDue, UiRequestStop, RunElapsed, Reboot, vars
  <2> QED BY <2>1, LastKept DEF Recorded, StartPending, MarkIsLast
<1>6. CASE FlushAndMark
  <2>1. /\ pc = "run" /\ todo = <<>> /\ pc' = "flush" /\ UNCHANGED <<truth, handle>>
        /\ \/ handle = "absent" /\ todo' = <<>>
           \/ handle # "absent" /\ todo' = <<Checkpoint, ShutdownObserved, CleanShutdown>>
    BY <1>6 DEF FlushAndMark, TypeOK, MutexOwned
  <2>2. ASSUME handle # "absent", NEW j \in DOMAIN todo', todo'[j].kind = "clean"
        PROVE  j = Len(todo') /\ ~truth.sure
    <3>1. Recorded
      BY <2>1, <2>2 DEF Recorded, StartPending
    <3>2. j \in 1 .. 3 /\ Len(todo') = 3
      BY <2>1, <2>2
    <3>3. j = 3
      BY <2>1, <2>2, <3>2 DEF Checkpoint, ShutdownObserved
    <3> QED BY <2>1, <3>1, <3>2, <3>3 DEF MarkIsLast
  <2>3. CASE handle = "absent"
    <3>1. todo' = <<>> /\ DOMAIN todo' = {}
      BY <2>1, <2>3
    <3> QED BY <2>1, <3>1 DEF MarkIsLast
  <2>4. CASE handle # "absent"
    BY <2>1, <2>2, <2>4 DEF MarkIsLast
  <2> QED BY <2>3, <2>4
<1>7. CASE TakeCheckpoint \/ LogWorkerFailure
  <2>1. /\ todo = <<>> /\ pc \notin {"off", "starting"} /\ UNCHANGED <<truth, handle, pc>>
        /\ \/ handle = "absent" /\ todo' = <<>>
           \/ handle # "absent" /\ todo' \in {<<Checkpoint>>, <<WorkerFailure>>}
    BY <1>7 DEF TakeCheckpoint, LogWorkerFailure, TypeOK, MutexOwned
  <2>2. \A j \in DOMAIN todo' : todo'[j].kind # "clean"
    BY <2>1 DEF Checkpoint, WorkerFailure
  <2>3. ~StartPending'
    BY <2>1 DEF StartPending, Checkpoint, WorkerFailure
  <2> QED BY <2>1, <2>2, <2>3, LastKept DEF Recorded, StartPending
<1>8. CASE HostExit \/ UiExit \/ Kill \/ PowerLoss
  <2>1. todo' = <<>> /\ pc' = "off" /\ UNCHANGED truth
    BY <1>8 DEF HostExit, UiExit, Kill, PowerLoss, Gone
  <2> QED BY <2>1, LastKept DEF Recorded
<1>9. CASE AppendRecord
  <2> DEFINE r == Head(todo)
  <2>1. /\ todo # <<>> /\ todo' = Tail(todo) /\ truth' = Outcome(r) /\ UNCHANGED <<handle, pc>>
        /\ handle = "open"
    BY <1>9 DEF AppendRecord, Appending
  <2>2. \A j \in DOMAIN todo' : j + 1 \in DOMAIN todo /\ todo'[j] = todo[j + 1] /\ j \in Nat
    BY <2>1, Remaining
  <2>3. CASE r.kind = "start"
    <3>1. truth' = [sess |-> sess, boot |-> boot, ended |-> FALSE, sure |-> FALSE]
      BY <2>1, <2>3, Zenon DEF Outcome
    <3>2. \A j \in DOMAIN todo' : todo'[j].kind = "clean" => j = Len(todo') /\ pc' = "flush"
      BY <2>1, <2>2, Remaining, RestStartsNothing DEF MarkIsLast
    <3> QED BY <2>1, <3>1, <3>2 DEF MarkIsLast
  <2>4. CASE r.kind = "clean"
    <3>1. Len(todo) = 1 /\ pc = "flush"
      BY <2>1, <2>4, Remaining DEF MarkIsLast
    <3>2. todo' = <<>>
      BY <2>1, <3>1, Remaining
    <3> QED BY <2>1, <3>1, <3>2 DEF MarkIsLast
  <2>5. CASE r.kind \notin {"start", "clean"}
    <3>1. truth' = truth
      BY <2>1, <2>5, Zenon DEF Outcome
    <3>2. Recorded' => Recorded
      BY <2>1, <2>5, HolderStarted DEF Recorded, StartPending
    <3>3. \A j \in DOMAIN todo' : todo'[j].kind = "clean" =>
            \E k \in DOMAIN todo :
               todo[k].kind = "clean" /\ (k = Len(todo) => j = Len(todo')) /\ pc' = pc
      BY <2>1, <2>2, RestStartsNothing
    <3> QED BY <2>1, <3>1, <3>2, <3>3, LastKept
  <2> QED BY <2>3, <2>4, <2>5
<1>10. CASE AppendFails \/ SyncFails \/ RotateAwayFails \/ RotateFreshFails \/ CarryFails
  <2>1. /\ todo # <<>> /\ UNCHANGED pc /\ truth'.sure = truth.sure
        /\ GiveUp("none") \/ GiveUp("open")
    BY <1>10, HolderStarted DEF AppendFails, SyncFails, RotateAwayFails, RotateFreshFails,
       CarryFails, Appending, TypeOK
  <2>2. \A j \in DOMAIN todo' : todo'[j].kind = "clean" =>
            \E k \in DOMAIN todo :
               todo[k].kind = "clean" /\ (k = Len(todo) => j = Len(todo')) /\ pc' = pc
    <3>1. ASSUME NEW j \in DOMAIN todo'
          PROVE  j + 1 \in DOMAIN todo /\ todo'[j] = todo[j + 1]
                 /\ (j + 1 = Len(todo) => j = Len(todo'))
      BY <2>1, RestStartsNothing
    <3> QED BY <2>1, <3>1
  <2>3. (handle' = "absent" => todo' = <<>>) /\ (Recorded' => Recorded)
    <3>1. CASE StartPending
      BY <2>1, <3>1 DEF GiveUp, StartPending, Recorded
    <3>2. CASE ~StartPending
      BY <2>1, <3>2, HolderStarted DEF GiveUp, StartPending, Recorded, MarkIsLast
    <3> QED BY <3>1, <3>2
  <2> QED BY <2>1, <2>2, <2>3, LastKept
<1>11. CASE RotateAway \/ RotateBlind \/ RotateFresh
  <2>1. /\ UNCHANGED <<todo, pc, truth>> /\ handle' # "absent" /\ todo # <<>>
    BY <1>11, HolderStarted DEF RotateAway, RotateBlind, RotateFresh, Rename, Appending
  <2> QED BY <2>1, LastKept, HolderStarted DEF Recorded, StartPending, MarkIsLast
<1> QED
  BY <1>1, <1>2, <1>3, <1>4, <1>5, <1>6, <1>7, <1>8, <1>9, <1>10, <1>11
     DEF Next, MainThread, ControlWorker, AppendStep

\* Every action keeps the markers durable, whatever fails.
LEMMA MarksNext ==
  ASSUME TypeOK, StartsInOrder, MarkIsLast, MarksAreDurable, [Next]_vars
  PROVE  MarksAreDurable'
<1>0. file \in Seq(Record) /\ Len(file) \in Nat /\ DOMAIN file = 1 .. Len(file)
      /\ synced \in Nat /\ synced <= Len(file)
  BY FileNumbers
<1> DEFINE Found == \A i \in Readable(file) : file[i].kind \in {"start", "clean"} => i <= synced
<1>1. CASE UNCHANGED <<file, synced>> /\ truth'.sure = truth.sure /\ (rotating' => rotating)
  BY <1>1 DEF MarksAreDurable
<1>2. ASSUME \/ Start \/ MainThread \/ ControlWorker \/ CheckpointDue \/ LogWorkerFailure
             \/ UiRequestStop \/ RunElapsed \/ HostExit \/ UiExit \/ Kill \/ Reboot
             \/ RotateAwayFails \/ RotateFreshFails \/ UNCHANGED vars
      PROVE  UNCHANGED <<file, synced, truth>> /\ (rotating' => rotating)
  <2>1. CASE Start \/ MainThread \/ ControlWorker
    BY <2>1 DEF Start, MainThread, ControlWorker, OpenJournal, OpenJournalFails, Ready,
       WorkerFailureLogged, FlushAndMark, Stopped, TakeCheckpoint, CheckpointTaken
  <2>2. CASE CheckpointDue \/ LogWorkerFailure \/ UiRequestStop \/ RunElapsed
    BY <2>2 DEF CheckpointDue, LogWorkerFailure, UiRequestStop, RunElapsed
  <2>3. CASE HostExit \/ UiExit \/ Kill \/ Reboot
    BY <2>3 DEF HostExit, UiExit, Kill, Reboot, Gone
  <2>4. CASE RotateAwayFails \/ RotateFreshFails \/ UNCHANGED vars
    BY <2>4 DEF RotateAwayFails, RotateFreshFails, vars
  <2> QED BY <1>2, <2>1, <2>2, <2>3, <2>4
<1>3. CASE AppendRecord
  <2> DEFINE r == Head(todo)
  <2>1. /\ todo # <<>> /\ r \in Record /\ ~rotating' /\ file' = Append(file, r)
        /\ truth' = Outcome(r) /\ (synced' = Len(file) + 1 \/ synced' = synced)
        /\ (MustSync(r) => synced' = Len(file) + 1)
    BY <1>3, Remaining DEF AppendRecord, Appending
  <2>2. CASE r.kind = "start"
    <3>1. truth' = [sess |-> sess, boot |-> boot, ended |-> FALSE, sure |-> FALSE]
      BY <2>1, <2>2, Zenon DEF Outcome
    <3> QED BY <2>1, <3>1 DEF MarksAreDurable
  <2>3. CASE r.kind = "clean"
    <3>1. synced' = Len(file) + 1
      BY <2>1, <2>3 DEF MustSync
    <3>2. \A i \in Readable(file') : i <= synced'
      BY <1>0, <2>1, <3>1, Appended DEF Readable
    <3> QED BY <2>1, <3>2 DEF MarksAreDurable
  <2>4. CASE r.kind \notin {"start", "clean"}
    <3>1. truth' = truth
      BY <2>1, <2>4, Zenon DEF Outcome
    <3>2. synced' \in Nat /\ synced <= synced'
      BY <1>0, <2>1
    <3> QED BY <2>1, <2>4, <3>1, <3>2, FoundBefore DEF MarksAreDurable
  <2> QED BY <2>2, <2>3, <2>4
<1>4. CASE SyncFails
  <2> DEFINE r == Head(todo)
  <2>1. /\ todo # <<>> /\ r \in Record /\ ~rotating' /\ file' = Append(file, r)
        /\ truth'.sure = truth.sure /\ synced' = synced
    BY <1>4, Remaining DEF SyncFails, Appending, TypeOK
  <2>2. CASE r.kind = "clean"
    <3>1. ~truth.sure
      BY <2>1, <2>2, Remaining DEF MarkIsLast
    <3> QED BY <2>1, <3>1 DEF MarksAreDurable
  <2>3. CASE r.kind # "clean"
    <3>1. IsStart(r) => \A i \in DOMAIN file : IsStart(file[i]) => file[i].sess < r.sess
      <4>1. ASSUME IsStart(r) PROVE StartPending /\ r.sess = sess
        <5>1. r = StartRec(sess, boot)
          BY <2>1, <4>1, Remaining DEF StartsInOrder
        <5> QED BY <2>1, <4>1, <5>1 DEF StartPending, IsStart, StartRec
      <4> QED BY <4>1 DEF StartsInOrder, Unrecorded
    <3>2. r.kind \notin {"start", "clean"} \/ IsStart(r)
      BY <2>3 DEF IsStart
    <3>3. synced' \in Nat /\ synced <= synced'
      BY <1>0, <2>1
    <3> QED BY <2>1, <3>1, <3>2, <3>3, FoundBefore DEF MarksAreDurable
  <2> QED BY <2>2, <2>3
<1>5. CASE AppendFails
  <2>1. /\ file' = file \/ file' = Append(file, Torn)
        /\ UNCHANGED <<synced, rotating, truth>> /\ ~rotating
    BY <1>0, <1>5, AppendedRest DEF AppendFails, Appending
  <2>2. CASE file' = file
    BY <1>1, <2>1, <2>2
  <2>3. CASE file' = Append(file, Torn)
    <3>1. Torn \in Record /\ Torn.kind \notin {"start", "clean"}
      BY RecordTypes DEF Torn
    <3>2. synced' \in Nat /\ synced <= synced'
      BY <1>0, <2>1
    <3> QED BY <2>1, <2>3, <3>1, <3>2, FoundBefore DEF MarksAreDurable
  <2> QED BY <2>1, <2>2, <2>3
<1>6. CASE RotateAway \/ RotateBlind \/ RotateFresh
  <2>1. file' = <<>> \/ (~rotating' /\ synced' = Len(file') /\ file' = <<carried>>)
    BY <1>6 DEF RotateAway, RotateBlind, Rename, RotateFresh
  <2>2. \A i \in Readable(file') : i <= synced'
    BY <2>1 DEF Readable
  <2> QED BY <2>1, <2>2 DEF MarksAreDurable
<1>7. CASE CarryFails
  <2>1. ~rotating' /\ (file' \in {<<>>, <<Torn>>} \/ (carried # None /\ file' = <<carried>>))
    BY <1>7 DEF CarryFails, Remnants
  <2>2. \A i \in DOMAIN file' : file'[i].kind # "clean"
    BY <2>1 DEF Torn, TypeOK, Carried
  <2> QED BY <2>1, <2>2, UnmarkedIsUnclean DEF MarksAreDurable
<1>8. CASE PowerLoss
  <2>1. PICK n \in synced .. Len(file), tail \in {<<>>, <<Torn>>} :
          file' = SubSeq(file, 1, n) \o tail /\ synced' = n + Len(tail)
    BY <1>8 DEF PowerLoss
  <2>2. n \in 0 .. Len(file)
    BY <1>0
  <2>3. \A i \in DOMAIN file' : i <= synced'
    <3>1. file' \in Seq(Record) /\ Len(file') = synced'
      BY <1>0, <2>1, <2>2, Remains
    <3> QED BY <3>1
  <2> QED BY <1>8, <2>3 DEF PowerLoss, Gone, MarksAreDurable, Readable
<1> QED
  BY <1>1, <1>2, <1>3, <1>4, <1>5, <1>6, <1>7, <1>8 DEF Next, AppendStep

\* A step that takes a clean marker back is a rotation or starts a session.
LEMMA MarkKept ==
  ASSUME TypeOK, MarksAreDurable, Next, truth.sure,
         PreviousSession(file).clean, ~PreviousSession(file').clean
  PROVE  rotating' \/ StartPending
<1>0. file \in Seq(Record) /\ Len(file) \in Nat /\ DOMAIN file = 1 .. Len(file)
      /\ synced \in Nat /\ synced <= Len(file)
  BY FileNumbers
<1>1. file' # file /\ ~rotating
  <2>1. ~PreviousSession(<<>>).clean
    BY UnmarkedIsUnclean
  <2> QED BY <2>1 DEF MarksAreDurable
<1>2. ASSUME NEW r \in Record, file' = Append(file, r), ~IsStart(r) PROVE FALSE
  <2>1. /\ file' \in Seq(Record) /\ Len(file) <= Len(file')
        /\ \A i \in 1 .. Len(file) : file'[i] = file[i]
        /\ \A i \in DOMAIN file' : i > Len(file) => file'[i] = r
    BY <1>0, <1>2, Appended, RecordSeqs
  <2>2. SameMarks(file, file', Len(file))
    BY <1>0, <1>2, <2>1 DEF SameMarks, Readable
  <2> QED BY <1>0, <2>1, <2>2, MarkSurvives
<1>3. CASE AppendRecord \/ SyncFails
  <2>1. todo # <<>> /\ file' = Append(file, Head(todo))
    BY <1>3 DEF AppendRecord, SyncFails, Appending
  <2> QED BY <1>2, <2>1, Remaining DEF StartPending, IsStart
<1>4. CASE AppendFails
  <2>1. file' = Append(file, Torn)
    BY <1>0, <1>1, <1>4, AppendedRest DEF AppendFails
  <2>2. Torn \in Record /\ ~IsStart(Torn)
    BY RecordTypes DEF IsStart, Torn
  <2> QED BY <1>2, <2>1, <2>2
<1>5. CASE RotateAway \/ RotateBlind
  BY <1>5 DEF RotateAway, RotateBlind, Rename
<1>6. CASE PowerLoss
  <2>1. PICK n \in synced .. Len(file), tail \in {<<>>, <<Torn>>} :
          file' = SubSeq(file, 1, n) \o tail
    BY <1>6 DEF PowerLoss
  <2>2. n \in 0 .. Len(file) /\ n \in Nat /\ synced <= n /\ n <= Len(file)
    BY <1>0
  <2>3. ~IsStart(Torn)
    BY DEF IsStart, Torn
  <2>4. /\ file' \in Seq(Record) /\ n <= Len(file')
        /\ \A i \in 1 .. n : file'[i] = file[i]
        /\ \A i \in DOMAIN file' : i > n => file'[i] = Torn
    <3> USE <1>0, <2>1, <2>2
    <3>1. file' \in Seq(Record) /\ n <= Len(file')
      BY Remains
    <3>2. \A i \in 1 .. n : file'[i] = file[i]
      BY Remains
    <3>3. \A i \in DOMAIN file' : i > n => file'[i] = Torn
      BY Remains
    <3> QED BY <3>1, <3>2, <3>3
  <2>5. \A i \in Readable(file) : file[i].kind \in {"start", "clean"} => i <= n
    BY <1>0, <2>2 DEF MarksAreDurable, Readable
  <2>6. \A i \in Readable(file') : i > n => ~IsStart(file'[i])
    BY <2>3, <2>4 DEF Readable
  <2>7. SameMarks(file, file', n)
    BY <2>2, <2>4, <2>5, <2>6 DEF SameMarks
  <2> QED BY <1>0, <2>4, <2>7, MarkSurvives
<1>7. \/ Start \/ MainThread \/ ControlWorker \/ RotateAwayFails \/ CheckpointDue
      \/ LogWorkerFailure \/ UiRequestStop \/ RunElapsed \/ HostExit \/ UiExit \/ Kill \/ Reboot
      => UNCHANGED file
  BY Zenon DEF Start, MainThread, ControlWorker, OpenJournal, OpenJournalFails, Ready,
     WorkerFailureLogged, FlushAndMark, Stopped, TakeCheckpoint, CheckpointTaken,
     RotateAwayFails, CheckpointDue, LogWorkerFailure, UiRequestStop, RunElapsed, HostExit,
     UiExit, Kill, Reboot
<1>8. RotateFresh \/ RotateFreshFails \/ CarryFails => rotating
  BY DEF RotateFresh, RotateFreshFails, CarryFails
<1> QED
  BY <1>1, <1>3, <1>4, <1>5, <1>6, <1>7, <1>8 DEF Next, AppendStep

-----------------------------------------------------------------------------
(* Without torn writes *)

JInv == FileInv /\ RotationInv /\ ProcessInv /\ SessionInv /\ CleanVerdictIsTrue

\* A reader sees the whole of a file with nothing torn in it.
LEMMA WholeFile ==
  ASSUME TypeOK, FileInv
  PROVE  /\ DOMAIN file = 1 .. Len(file)
         /\ Readable(file) = DOMAIN file
         /\ Starts(file) = {i \in DOMAIN file : IsStart(file[i])}
<1>1. DOMAIN file = 1 .. Len(file) /\ Len(file) \in Nat
  BY DEF TypeOK
<1>2. \A i \in DOMAIN file : \A j \in 1 .. i : j \in DOMAIN file
  BY <1>1
<1>3. Readable(file) = DOMAIN file
  BY <1>2 DEF FileInv, Readable
<1> QED BY <1>1, <1>3 DEF Starts

\* The session truth is about, if its marker is in the file and no orphan after it.
LEMMA MarkedSession ==
  ASSUME TypeOK, FileInv, NEW i \in DOMAIN file, MarksTruth(file, i),
         EndedCleanly(file, truth.sess)
  PROVE  truth.ended
<1> USE WholeFile
<1>1. truth.sess \in Nat /\ i \in Nat
  BY FileNumbers
<1>2. PICK m \in DOMAIN file, k \in Starts(file) :
        file[m].kind = "clean" /\ k < m /\ file[k].sess = truth.sess
  BY DEF EndedCleanly
<1>3. k \in DOMAIN file /\ IsStart(file[k]) /\ k \in Nat
  BY <1>2, FileNumbers
<1>4. k = i
  BY <1>1, <1>2, <1>3 DEF MarksTruth, Orphan
<1> QED BY <1>2, <1>4 DEF MarksTruth

\* What the reader finds: no session, the one truth is about, or an orphan, which
\* nothing but orphans follow; he takes it for clean only if truth was ended.
LEMMA Found ==
  ASSUME TypeOK, FileInv
  PROVE  \/ LastStart(file) = None /\ \A i \in DOMAIN file : ~IsStart(file[i])
         \/ /\ LastStart(file) = StartRec(truth.sess, truth.boot) /\ LastStart(file) # None
            /\ EndedCleanly(file, LastStart(file).sess) => truth.ended
         \/ /\ \E i \in DOMAIN file : Orphan(file[i]) /\ LastStart(file) = file[i]
            /\ LastStart(file) # None
            /\ ~EndedCleanly(file, LastStart(file).sess)
<1> USE WholeFile
<1>0. truth.sess \in Nat
  BY FileNumbers
<1>1. CASE Starts(file) = {} /\ LastStart(file) = None
  BY <1>1
<1>2. CASE \E i \in Starts(file) : IsLast(i, Starts(file)) /\ LastStart(file) = file[i]
  <2>1. PICK i \in Starts(file) : IsLast(i, Starts(file)) /\ LastStart(file) = file[i]
    BY <1>2
  <2>2. i \in DOMAIN file /\ IsStart(file[i]) /\ file[i] # None /\ i \in Nat
        /\ \A j \in DOMAIN file : IsStart(file[j]) => j <= i
    BY <2>1, FileNumbers DEF IsLast, IsStart, None
  <2>3. CASE Orphan(file[i])
    <3>1. ASSUME EndedCleanly(file, file[i].sess) PROVE FALSE
      <4>1. PICK m \in DOMAIN file, k \in Starts(file) :
              file[m].kind = "clean" /\ k < m /\ file[k].sess = file[i].sess
        BY <3>1 DEF EndedCleanly
      <4>2. Orphan(file[k]) /\ m > k
        BY <2>3, <4>1, FileNumbers DEF Orphan
      <4>3. Orphan(file[m])
        BY <4>1, <4>2 DEF FileInv
      <4> QED BY <4>1, <4>3 DEF Orphan, IsStart
    <3> QED BY <2>1, <2>2, <2>3, <3>1
  <2>4. CASE ~Orphan(file[i])
    <3>1. PICK t \in DOMAIN file : MarksTruth(file, t)
      BY <2>2, <2>4 DEF FileInv
    <3>2. IsStart(file[t]) /\ file[t].sess = truth.sess /\ t \in Nat
      BY <3>1, FileNumbers DEF MarksTruth, StartRec, IsStart
    <3>3. t <= i /\ ~(i > t)
      BY <2>2, <2>4, <3>1, <3>2 DEF MarksTruth
    <3>4. i = t
      BY <2>2, <3>2, <3>3
    <3>5. LastStart(file) = StartRec(truth.sess, truth.boot)
      BY <2>1, <3>1, <3>4 DEF MarksTruth
    <3>6. EndedCleanly(file, truth.sess) => truth.ended
      BY <3>1, MarkedSession
    <3> QED BY <2>1, <2>2, <3>2, <3>4, <3>5, <3>6
  <2> QED BY <2>3, <2>4
<1> QED BY <1>1, <1>2, LastStartFound, FileNumbers

LEMMA JInit == Init => JInv
BY RecordSeqs DEF Init, JInv, FileInv, RotationInv, ProcessInv, SessionInv, Recorded,
   StartPending, CleanVerdictIsTrue, Told

\* Steps that leave the file and truth alone leave FileInv alone.
LEMMA FileKept ==
  ASSUME FileInv, UNCHANGED <<file, synced, truth, boot>>, Recorded' => Recorded, Told => Told'
  PROVE  FileInv'
BY DEF FileInv, MarksTruth, Orphan

\* Steps of a process that append nothing and rotate nothing.
LEMMA JournalKept ==
  ASSUME JInv, UNCHANGED <<disk, handle, rotating, carried, truth, boot, sess, recovered>>,
         pc # "off", Recorded' => Recorded, StartPending' <=> StartPending,
         failed => failed'
  PROVE  FileInv' /\ RotationInv' /\ SessionInv' /\ Told'
<1>1. Told' <=> Told
  BY DEF Told
<1>2. Told
  BY DEF JInv, ProcessInv
<1>3. FileInv'
  BY <1>1, FileKept DEF JInv
<1>4. RotationInv'
  BY <1>1 DEF JInv, RotationInv, Orphan
<1> QED BY <1>1, <1>2, <1>3, <1>4 DEF JInv, SessionInv

\* A failed append leaves nothing of the start marker behind.
LEMMA GivenUp ==
  ASSUME TypeOK, StartsInOrder, ProcessInv, todo # <<>>, NEW h \in {"open", "none"}, GiveUp(h),
         UNCHANGED <<pc, lock, truth, boot, recovered>>
  PROVE  /\ ProcessInv' /\ ~StartPending' /\ failed' /\ (Told' <=> Told) /\ Told'
         /\ StartPending => handle' = "absent" /\ ~Recorded'
         /\ ~StartPending => handle' = h
         /\ Recorded' => ~StartPending
<1>1. ~StartPending' /\ \A j \in DOMAIN todo' : ~IsStart(todo'[j]) /\ todo'[j].kind # "torn"
  BY RestStartsNothing DEF ProcessInv
<1>2. pc \notin {"off", "starting"}
  BY HolderStarted
<1>3. (Told' <=> Told) /\ Told
  BY <1>2 DEF Told, ProcessInv
<1>4. ProcessInv'
  BY <1>1, <1>2, <1>3 DEF ProcessInv
<1> QED BY <1>1, <1>3, <1>4 DEF GiveUp, StartPending, Recorded

\* A file of a session that recorded its start holds no orphan.
LEMMA NoOrphans ==
  ASSUME FileInv, Recorded
  PROVE  \A i \in DOMAIN file : ~Orphan(file[i])
BY DEF FileInv

\* Whoever appends to an open or closed journal has recorded the start, unless that
\* is what is being appended.
LEMMA Holder ==
  ASSUME TypeOK, todo # <<>>, handle # "absent", ~StartPending
  PROVE  Recorded
BY HolderStarted DEF Recorded

\* A fresh file with the carried marker in it.
LEMMA CarriedFile ==
  ASSUME TypeOK, RotationInv, carried # None, file' = <<carried>>, truth' = truth, boot' = boot,
         Told' <=> Told, StartPending => ~Recorded'
  PROVE  FileInv' /\ \E i \in DOMAIN file' : IsStart(file'[i])
<1>1. DOMAIN file' = {1} /\ file'[1] = carried
  BY DEF TypeOK
<1>2. truth.sess \in Nat
  BY FileNumbers
<1>3. CASE carried = StartRec(truth.sess, truth.boot)
  <2>1. IsStart(carried) /\ carried.sess = truth.sess /\ carried.kind # "torn"
    BY <1>3 DEF StartRec, IsStart
  <2>2. ~Orphan(file[1])'
    BY <1>1, <1>2, <2>1 DEF Orphan
  <2>3. MarksTruth(file, 1)'
    BY <1>1, <1>3 DEF MarksTruth
  <2> QED BY <1>1, <2>1, <2>2, <2>3 DEF FileInv
<1>4. CASE Orphan(carried) /\ StartPending /\ carried.boot <= boot /\ (carried.boot = boot => Told)
  <2>1. Orphan(file[1])' /\ ~Recorded' /\ IsStart(file'[1]) /\ file'[1].kind # "torn"
    BY <1>1, <1>4 DEF Orphan, IsStart
  <2> QED BY <1>1, <1>4, <2>1 DEF FileInv
<1> QED BY <1>3, <1>4 DEF RotationInv

\* Every action keeps what the journal says of its sessions.
LEMMA JNext ==
  ASSUME "tear" \notin Faults, TypeOK, TypeOK', StartsInOrder, StartsInOrder', JInv, [Next]_vars
  PROVE  JInv'
<1> USE DEF JInv
<1>0. /\ file \in Seq(Record) /\ Len(file) \in Nat /\ DOMAIN file = 1 .. Len(file)
      /\ synced \in Nat /\ synced <= Len(file) /\ sess \in Nat /\ truth.sess \in Nat /\ boot \in Nat
  BY FileNumbers
<1>1. CASE Start
  <2>1. /\ UNCHANGED <<file, exists, synced, handle, rotating, carried, todo, lock, truth, boot>>
        /\ pc = "off" /\ pc' = "starting" /\ todo = <<>> /\ handle = "none"
        /\ ~Recorded /\ ~Recorded' /\ ~StartPending /\ ~StartPending'
    BY <1>1 DEF Start, ProcessInv, Recorded, StartPending
  <2>2. PICK p \in LookBack :
          recovered' = [clean |-> p.clean, incident |-> RestartIncident(p, boot),
                        told |-> recovered.told \/ RestartIncident(p, boot)]
    BY <1>1 DEF Start
  <2>3. Told => Told'
    BY <2>1, <2>2 DEF Told
  <2>4. (recovered'.clean => truth.ended) /\ Told'
    <3>1. CASE p = [start |-> None, clean |-> FALSE]
      BY <2>1, <2>2, <3>1 DEF RestartIncident, Told
    <3>2. CASE p = PreviousSession(file)
      <4>1. p.start = LastStart(file)
            /\ (p.clean <=> LastStart(file) # None /\ EndedCleanly(file, LastStart(file).sess))
        BY <3>2 DEF PreviousSession
      <4>2. CASE LastStart(file) = None
        BY <2>1, <2>2, <4>1, <4>2 DEF RestartIncident, Told
      <4>3. CASE LastStart(file) = StartRec(truth.sess, truth.boot)
                 /\ (EndedCleanly(file, LastStart(file).sess) => truth.ended)
        <5>1. LastStart(file).boot = truth.boot
          BY <4>3 DEF StartRec
        <5> QED BY <2>1, <2>2, <4>1, <4>3, <5>1 DEF RestartIncident, Told
      <4>4. CASE /\ \E i \in DOMAIN file : Orphan(file[i]) /\ LastStart(file) = file[i]
                 /\ ~EndedCleanly(file, LastStart(file).sess)
        <5>1. LastStart(file).boot = boot => Told
          BY <4>4 DEF FileInv
        <5> QED BY <2>1, <2>2, <2>3, <4>1, <4>4, <5>1 DEF RestartIncident, Told
      <4> QED BY <4>2, <4>3, <4>4, Found
    <3> QED BY <3>1, <3>2 DEF LookBack
  <2>5. FileInv'
    BY <2>1, <2>3, FileKept
  <2>6. RotationInv'
    BY <2>1, <2>3 DEF RotationInv, Orphan
  <2> QED BY <2>1, <2>4, <2>5, <2>6 DEF ProcessInv, SessionInv, CleanVerdictIsTrue
<1>2. CASE OpenJournal
  <2>1. /\ UNCHANGED <<file, synced, rotating, carried, truth, boot, sess, recovered>>
        /\ pc = "starting" /\ pc' = "opening" /\ ~rotating /\ exists' /\ handle' = "open"
        /\ lock' = "main" /\ todo' = <<StartRec(sess, boot), NetworkEvent>>
    BY <1>2 DEF OpenJournal, TypeOK, MutexOwned
  <2>2. StartPending' /\ ~Recorded' /\ Told /\ Told' /\ carried = None
    BY <2>1 DEF StartPending, StartRec, Recorded, Told, ProcessInv, RotationInv
  <2>3. FileInv'
    BY <2>1, <2>2, FileKept
  <2>4. ProcessInv'
    BY <2>1, <2>2 DEF ProcessInv, StartRec, NetworkEvent, IsStart
  <2> QED BY <2>1, <2>2, <2>3, <2>4 DEF RotationInv, SessionInv, CleanVerdictIsTrue
<1>3. CASE OpenJournalFails
  <2>1. /\ UNCHANGED <<disk, written, rotating, carried, truth, boot, sess, recovered, todo>>
        /\ pc = "starting" /\ pc' = "opening" /\ ~rotating /\ handle' = "absent"
        /\ lock' = "main" /\ todo = <<>>
    BY <1>3 DEF OpenJournalFails, TypeOK, MutexOwned
  <2>2. ~StartPending' /\ ~Recorded' /\ Told /\ Told' /\ carried = None
    BY <2>1 DEF StartPending, Recorded, Told, ProcessInv, RotationInv
  <2>3. FileInv'
    BY <2>1, <2>2, FileKept
  <2> QED BY <2>1, <2>2, <2>3 DEF RotationInv, ProcessInv, SessionInv, CleanVerdictIsTrue
<1>4. CASE Ready \/ WorkerFailureLogged \/ Stopped \/ CheckpointTaken
  <2>1. /\ UNCHANGED <<disk, handle, rotating, carried, truth, boot, sess, recovered, todo, failed>>
        /\ pc \notin {"off", "starting"} /\ pc' \notin {"off", "starting"} /\ todo = <<>>
    BY <1>4 DEF Ready, WorkerFailureLogged, Stopped, CheckpointTaken, TypeOK, MutexOwned
  <2>2. (Recorded' => Recorded) /\ (StartPending' <=> StartPending)
    BY <2>1 DEF Recorded, StartPending
  <2>3. FileInv' /\ RotationInv' /\ SessionInv' /\ Told'
    BY <2>1, <2>2, JournalKept
  <2> QED BY <2>1, <2>3 DEF ProcessInv, CleanVerdictIsTrue
<1>5. CASE FlushAndMark \/ TakeCheckpoint \/ LogWorkerFailure
  <2>1. /\ UNCHANGED <<disk, handle, rotating, carried, truth, boot, sess, recovered, failed>>
        /\ pc \notin {"off", "starting"} /\ pc' \notin {"off", "starting"} /\ todo = <<>>
        /\ lock' # "free"
        /\ todo' \in {<<>>, <<Checkpoint>>, <<WorkerFailure>>,
                      <<Checkpoint, ShutdownObserved, CleanShutdown>>}
    BY <1>5 DEF FlushAndMark, TakeCheckpoint, LogWorkerFailure, TypeOK, MutexOwned
  <2>2. \A j \in DOMAIN todo' : todo'[j].kind \notin {"start", "torn"}
    BY <2>1 DEF Checkpoint, ShutdownObserved, CleanShutdown, WorkerFailure
  <2>3. ~StartPending' /\ ~StartPending
    BY <2>1 DEF StartPending, Checkpoint, WorkerFailure
  <2>4. Recorded' => Recorded
    BY <2>1, <2>3 DEF Recorded
  <2>5. FileInv' /\ RotationInv' /\ SessionInv' /\ Told'
    BY <2>1, <2>3, <2>4, JournalKept
  <2> QED BY <2>1, <2>2, <2>5 DEF ProcessInv, CleanVerdictIsTrue, IsStart
<1>6. CASE CheckpointDue \/ UiRequestStop \/ RunElapsed
  <2>1. /\ UNCHANGED <<disk, handle, rotating, carried, truth, boot, sess, recovered, todo, failed,
                       pc, lock>>
        /\ pc \notin {"off", "starting"}
    BY <1>6 DEF CheckpointDue, UiRequestStop, RunElapsed, Running
  <2>2. (Recorded' => Recorded) /\ (StartPending' <=> StartPending)
    BY <2>1 DEF Recorded, StartPending
  <2>3. FileInv' /\ RotationInv' /\ SessionInv' /\ Told'
    BY <2>1, <2>2, JournalKept
  <2> QED BY <2>1, <2>3 DEF ProcessInv, CleanVerdictIsTrue
<1>7. CASE UNCHANGED vars
  BY <1>7 DEF vars, FileInv, MarksTruth, RotationInv, ProcessInv, SessionInv, Recorded,
     StartPending, Told, Orphan, CleanVerdictIsTrue
<1>8. CASE HostExit \/ UiExit \/ Kill
  <2>1. \E how : Gone(how)
    BY <1>8 DEF HostExit, UiExit, Kill
  <2>2. UNCHANGED <<disk, sess, boot, recovered, truth>>
    BY <1>8 DEF HostExit, UiExit, Kill
  <2>3. todo' = <<>> /\ pc' = "off" /\ ~rotating' /\ carried' = None /\ handle' = "none" /\ lock' = "free"
    BY <2>1 DEF Gone
  <2>4. ~Recorded' /\ (Told => Told')
    BY <2>2, <2>3 DEF Recorded, Told
  <2>5. FileInv'
    BY <2>2, <2>4, FileKept
  <2> QED BY <2>3, <2>4, <2>5 DEF RotationInv, ProcessInv, SessionInv, CleanVerdictIsTrue
<1>9. CASE Reboot
  <2>1. /\ UNCHANGED <<disk, handle, rotating, carried, truth, sess, todo, pc, lock>>
        /\ boot' = boot + 1 /\ pc = "off" /\ todo = <<>> /\ handle = "none"
        /\ ~Recorded' /\ ~StartPending' /\ ~StartPending
    BY <1>9 DEF Reboot, ProcessInv, Recorded, StartPending
  <2>2. FileInv'
    <3>1. ASSUME NEW i \in DOMAIN file, Orphan(file[i])
          PROVE  file[i].boot <= boot' /\ file[i].boot # boot'
      <4>1. file[i].boot \in Nat /\ file[i].boot <= boot
        BY <3>1, StartNumbers DEF Orphan, FileInv
      <4> QED BY <1>0, <2>1, <4>1
    <3> QED BY <2>1, <3>1 DEF FileInv, MarksTruth, Orphan
  <2> QED BY <2>1, <2>2 DEF RotationInv, ProcessInv, SessionInv, CleanVerdictIsTrue
<1>10. CASE AppendRecord \/ SyncFails
  <2> DEFINE r == Head(todo)
  <2>1. /\ lock # "free" /\ todo # <<>> /\ ~rotating /\ carried = None
        /\ handle = "open" /\ exists /\ pc \notin {"off", "starting"}
        /\ file' = Append(file, r)
        /\ UNCHANGED <<exists, rotating, carried, pc, lock, sess, boot, recovered>>
        /\ todo' = Tail(todo) \/ GiveUp("open")
    BY <1>10, HolderStarted DEF AppendRecord, SyncFails, Appending, RotationInv
  <2>2. /\ r \in Record /\ r.kind # "torn" /\ r = todo[1] /\ 1 \in DOMAIN todo
        /\ ~StartPending'
        /\ \A j \in DOMAIN todo' : ~IsStart(todo'[j]) /\ todo'[j].kind # "torn"
    BY <2>1, Remaining, RestStartsNothing DEF ProcessInv
  <2>3. /\ DOMAIN file' = 1 .. Len(file) + 1
        /\ file'[Len(file) + 1] = r
        /\ \A i \in DOMAIN file : file'[i] = file[i] /\ i \in DOMAIN file' /\ i < Len(file) + 1
        /\ \A i \in DOMAIN file' : i \in DOMAIN file \/ i = Len(file) + 1
    BY <1>0, <2>1, <2>2, Appended
  <2>4. \A i \in DOMAIN file' : file'[i].kind # "torn"
    BY <2>2, <2>3 DEF FileInv
  <2>5. Told
    BY <2>1 DEF ProcessInv
  <2>6. RotationInv' /\ CleanVerdictIsTrue' /\ (Told' => ProcessInv')
    <3>1. handle' = "open" => exists'
      BY <2>1
    <3> QED BY <2>1, <2>2, <3>1 DEF RotationInv, CleanVerdictIsTrue, ProcessInv
  <2>7. CASE AppendRecord /\ IsStart(r)
    <3>1. StartPending /\ r = StartRec(sess, boot)
      BY <2>1, <2>2, <2>7 DEF StartPending, IsStart, StartsInOrder
    <3>2. truth' = [sess |-> sess, boot |-> boot, ended |-> FALSE, sure |-> FALSE]
      <4>1. truth' = Outcome(r) /\ r.kind = "start"
        BY <2>7 DEF AppendRecord, IsStart
      <4> QED BY <4>1, Zenon DEF Outcome
    <3>3. truth'.sess = sess /\ truth'.boot = boot' /\ Told'
      BY <2>1, <3>2 DEF Told
    <3>4. \A i \in DOMAIN file' : ~Orphan(file[i])'
      <4>1. \A i \in DOMAIN file' : IsStart(file'[i]) => file'[i].sess \in Nat /\ file'[i].sess <= sess
        <5>1. r.sess = sess
          BY <3>1 DEF StartRec
        <5>2. \A i \in DOMAIN file : IsStart(file[i]) => file[i].sess \in Nat /\ file[i].sess <= sess
          BY StartNumbers DEF StartsInOrder
        <5> QED BY <1>0, <2>3, <5>1, <5>2
      <4> QED BY <1>0, <3>3, <4>1 DEF Orphan
    <3>5. \A i \in DOMAIN file : IsStart(file[i]) => file[i].sess < sess
      BY <3>1 DEF StartsInOrder, Unrecorded
    <3>n. PICK n \in Nat : n = Len(file) + 1
      BY <1>0
    <3>6. MarksTruth(file, n)' /\ n \in DOMAIN file'
      <4>1. synced' = n
        <5>1. MustSync(r)
          BY <2>7 DEF MustSync, IsStart
        <5>2. synced' = Len(file) + 1 \/ ~MustSync(r)
          BY <2>7 DEF AppendRecord
        <5> QED BY <5>1, <5>2, <3>n, Zenon
      <4>2. file'[n] = StartRec(truth'.sess, truth'.boot) /\ n <= synced'
        BY <2>1, <2>3, <3>n, <3>1, <3>3, <4>1
      <4>3. ASSUME NEW k \in DOMAIN file', k < n, IsStart(file'[k]) PROVE file'[k].sess < truth'.sess
        BY <2>3, <3>n, <3>3, <3>5, <4>3
      <4>4. \A k \in DOMAIN file' : ~(k > n)
        BY <2>3, <3>n, <1>0
      <4>5. n \in DOMAIN file'
        BY <2>3, <3>n, <1>0
      <4> QED BY <4>2, <4>3, <4>4, <4>5 DEF MarksTruth
    <3>7. FileInv'
      BY <2>4, <3>4, <3>6 DEF FileInv
    <3>8. SessionInv'
      <4>1. IsStart(file'[n])
        BY <2>3, <2>7, <3>n
      <4> QED BY <2>1, <3>3, <3>6, <4>1 DEF SessionInv
    <3> QED BY <2>6, <3>3, <3>7, <3>8
  <2>8. CASE ~IsStart(r)
    <3>1. Recorded /\ ~StartPending
      BY <2>1, <2>8, Holder DEF StartPending, IsStart
    <3>2. /\ truth'.sess = truth.sess /\ truth'.boot = truth.boot
          /\ truth.ended => truth'.ended
          /\ r.kind = "clean" => truth'.ended
      <4>1. r.kind # "start"
        BY <2>8 DEF IsStart
      <4>2. CASE AppendRecord
        <5>1. truth' = Outcome(r)
          BY <4>2 DEF AppendRecord
        <5>2. CASE r.kind = "clean"
          <6>1. truth' = [truth EXCEPT !.ended = TRUE, !.sure = TRUE]
            BY <5>1, <4>1, <5>2, Zenon DEF Outcome
          <6> QED BY <6>1 DEF TypeOK
        <5>3. CASE r.kind # "clean"
          BY <5>1, <4>1, <5>3, Zenon DEF Outcome
        <5> QED BY <5>2, <5>3
      <4>3. CASE SyncFails
        <5>1. truth' = IF r.kind = "clean" THEN [truth EXCEPT !.ended = TRUE] ELSE truth
          BY <4>3 DEF SyncFails
        <5> QED BY <5>1 DEF TypeOK
      <4> QED BY <1>10, <4>2, <4>3
    <3>3. Told'
      BY <2>1, <2>5, <3>2 DEF Told
    <3>4. \A i \in DOMAIN file' : ~Orphan(file[i])'
      <4>1. \A i \in DOMAIN file : ~Orphan(file[i])
        BY <3>1, NoOrphans
      <4> QED BY <2>3, <2>8, <3>2, <4>1 DEF Orphan
    <3>5. synced <= synced' /\ synced' \in Nat
      BY <1>0, <1>10 DEF AppendRecord, SyncFails
    <3>6. ASSUME NEW i \in DOMAIN file, MarksTruth(file, i)
          PROVE  MarksTruth(file, i)' /\ i \in DOMAIN file'
      <4>1. \A k \in DOMAIN file' : k < i => k \in DOMAIN file /\ file'[k] = file[k]
        BY <2>3, <1>0
      <4>2. \A k \in DOMAIN file' : k > i => (k \in DOMAIN file /\ file'[k] = file[k]) \/ file'[k] = r
        BY <2>3
      <4>3. i <= synced => i <= synced'
        BY <1>0, <3>5
      <4>4. ASSUME NEW k \in DOMAIN file', k < i, IsStart(file'[k])
            PROVE  file'[k].sess < truth'.sess /\ i <= synced'
        BY <3>2, <3>6, <4>1, <4>3, <4>4 DEF MarksTruth
      <4>5. ASSUME NEW k \in DOMAIN file', k > i
            PROVE  /\ ~IsStart(file'[k])
                   /\ file'[k].kind = "clean" => truth'.ended
        <5>1. CASE k \in DOMAIN file /\ file'[k] = file[k]
          BY <3>1, <3>2, <3>6, <4>5, <5>1, NoOrphans DEF MarksTruth
        <5>2. CASE file'[k] = r
          BY <2>8, <3>2, <5>2
        <5> QED BY <4>2, <4>5, <5>1, <5>2
      <4>6. file'[i] = StartRec(truth'.sess, truth'.boot)
        BY <2>3, <3>2, <3>6 DEF MarksTruth
      <4> QED BY <2>3, <4>4, <4>5, <4>6 DEF MarksTruth
    <3>7. FileInv'
      <4>1. CASE \A i \in DOMAIN file : IsStart(file[i]) => Orphan(file[i])
        <5>1. \A i \in DOMAIN file' : ~IsStart(file'[i])
          BY <2>3, <2>8, <3>1, <4>1, NoOrphans
        <5> QED BY <2>4, <5>1, <3>4 DEF FileInv
      <4>2. CASE \E i \in DOMAIN file : MarksTruth(file, i)
        BY <2>4, <3>4, <3>6, <4>2 DEF FileInv
      <4> QED BY <4>1, <4>2 DEF FileInv
    <3>8. (\E i \in DOMAIN file : IsStart(file[i])) => \E i \in DOMAIN file' : IsStart(file'[i])
      BY <2>3
    <3>9. failed => failed'
      BY <1>10 DEF AppendRecord, SyncFails, GiveUp
    <3>10. SessionInv'
      BY <2>1, <3>1, <3>2, <3>8, <3>9 DEF SessionInv
    <3> QED BY <2>6, <3>3, <3>7, <3>10
  <2>9. CASE SyncFails /\ IsStart(r)
    <3>1. StartPending /\ r = StartRec(sess, boot)
      BY <2>1, <2>2, <2>9 DEF StartPending, IsStart, StartsInOrder
    <3>2. /\ UNCHANGED <<truth, synced>> /\ handle' = "absent" /\ truth.sess < sess
          /\ r.sess = sess /\ r.boot = boot
      BY <2>9, <3>1 DEF SyncFails, GiveUp, StartPending, StartsInOrder, Unrecorded, StartRec
    <3>3. ~Recorded' /\ (Told' <=> Told) /\ Told'
      BY <2>1, <2>5, <3>2 DEF Recorded, Told
    <3>4. Orphan(r) /\ r.kind # "clean"
      BY <1>0, <2>9, <3>2 DEF Orphan, IsStart
    <3>5. \A i \in DOMAIN file' : Orphan(file[i])' <=> Orphan(file'[i])
      BY <3>2 DEF Orphan
    <3>6. ASSUME NEW i \in DOMAIN file', Orphan(file'[i])
          PROVE  /\ file'[i].boot <= boot
                 /\ \A k \in DOMAIN file' : k > i => Orphan(file'[k])
      <4>1. CASE i \in DOMAIN file
        <5>1. \A k \in DOMAIN file' : k > i => Orphan(file'[k])
          BY <2>3, <3>4, <3>6, <4>1 DEF FileInv
        <5> QED BY <2>3, <3>6, <4>1, <5>1 DEF FileInv
      <4>2. CASE i = Len(file) + 1
        <5>1. \A k \in DOMAIN file' : ~(k > i)
          BY <2>3, <4>2, <1>0
        <5> QED BY <1>0, <2>3, <3>2, <4>2, <5>1
      <4> QED BY <2>3, <4>1, <4>2
    <3>7. ASSUME NEW i \in DOMAIN file, MarksTruth(file, i)
          PROVE  MarksTruth(file, i)' /\ i \in DOMAIN file'
      <4>1. \A k \in DOMAIN file' : k < i => k \in DOMAIN file /\ file'[k] = file[k]
        BY <2>3, <1>0
      <4>2. \A k \in DOMAIN file' : k > i => (k \in DOMAIN file /\ file'[k] = file[k]) \/ file'[k] = r
        BY <2>3
      <4>3. ASSUME NEW k \in DOMAIN file', k < i, IsStart(file'[k])
            PROVE  file'[k].sess < truth'.sess /\ i <= synced'
        BY <3>2, <3>7, <4>1, <4>3 DEF MarksTruth
      <4>4. ASSUME NEW k \in DOMAIN file', k > i
            PROVE  /\ IsStart(file'[k]) => Orphan(file[k])'
                   /\ file'[k].kind = "clean" => truth'.ended
        <5>1. CASE k \in DOMAIN file /\ file'[k] = file[k]
          BY <3>2, <3>5, <3>7, <4>4, <5>1 DEF MarksTruth
        <5>2. CASE file'[k] = r
          BY <3>4, <3>5, <5>2
        <5> QED BY <4>2, <4>4, <5>1, <5>2
      <4>5. file'[i] = StartRec(truth'.sess, truth'.boot)
        BY <2>3, <3>2, <3>7 DEF MarksTruth
      <4> QED BY <2>3, <4>3, <4>4, <4>5 DEF MarksTruth
    <3>8. (\A i \in DOMAIN file : IsStart(file[i]) => Orphan(file[i]))
            => \A i \in DOMAIN file' : IsStart(file'[i]) => Orphan(file[i])'
      BY <2>3, <3>4, <3>5
    <3>9. FileInv'
      <4>1. \/ \A i \in DOMAIN file' : IsStart(file'[i]) => Orphan(file[i])'
            \/ \E i \in DOMAIN file' : MarksTruth(file, i)'
        BY <3>7, <3>8 DEF FileInv
      <4>2. \A i \in DOMAIN file' : Orphan(file[i])' =>
               /\ ~Recorded' /\ file'[i].boot <= boot' /\ Told'
               /\ \A k \in DOMAIN file' : k > i => Orphan(file[k])'
        BY <2>1, <3>3, <3>5, <3>6
      <4> QED BY <2>4, <4>1, <4>2 DEF FileInv
    <3> QED BY <2>6, <3>3, <3>9 DEF SessionInv
  <2> QED BY <1>10, <2>7, <2>8, <2>9
<1>11. CASE AppendFails \/ RotateAwayFails \/ RotateFreshFails
  <2>1. PICK h \in {"open", "none"} : GiveUp(h) /\ (h = "open" => handle = "open")
    BY <1>11 DEF AppendFails, RotateAwayFails, RotateFreshFails
  <2>2. /\ UNCHANGED <<file, exists, synced, pc, lock, sess, boot, recovered, truth>>
        /\ ~rotating' /\ carried' = None /\ todo # <<>>
        /\ handle # "absent" \/ StartPending \/ rotating
    BY <1>0, <1>11, AppendedRest, HolderStarted DEF AppendFails, RotateAwayFails, RotateFreshFails,
       Appending, RotationInv
  <2>3. handle # "absent" \/ StartPending
    BY <2>2 DEF RotationInv
  <2>4. /\ ProcessInv' /\ failed' /\ (Told' <=> Told) /\ Told' /\ (Recorded' => Recorded)
        /\ handle' = "open" => handle = "open"
    BY <2>1, <2>2, <2>3, GivenUp, Holder
  <2>5. FileInv'
    BY <2>2, <2>4, FileKept
  <2>6. RotationInv' /\ CleanVerdictIsTrue'
    BY <2>2, <2>4 DEF RotationInv, CleanVerdictIsTrue
  <2> QED BY <2>2, <2>4, <2>5, <2>6 DEF SessionInv
<1>12. CASE RotateAway \/ RotateBlind
  <2>1. /\ lock # "free" /\ todo # <<>> /\ ~rotating /\ handle # "absent" /\ exists
        /\ rotating' = TRUE /\ handle' = "none" /\ file' = <<>> /\ exists' = FALSE
        /\ UNCHANGED <<pc, lock, todo, sess, boot, recovered, truth>>
        /\ \/ carried' = LastStart(file) /\ failed' = failed
           \/ carried' = None /\ failed'
    BY <1>12 DEF RotateAway, RotateBlind, Rename, Appending
  <2>2. /\ FileInv' /\ (StartPending' <=> StartPending) /\ (Recorded' <=> Recorded)
        /\ (Told' <=> Told)
    BY <2>1, HolderStarted DEF FileInv, StartPending, Recorded, Told
  <2>3. ProcessInv' /\ CleanVerdictIsTrue'
    BY <2>1, <2>2, HolderStarted DEF ProcessInv, CleanVerdictIsTrue
  <2>4. carried' # None => \/ carried' = StartRec(truth.sess, truth.boot)
                           \/ \E i \in DOMAIN file : Orphan(file[i]) /\ carried' = file[i]
    BY <2>1, Found
  <2>5. RotationInv'
    <3>1. CASE carried' = None \/ carried' = StartRec(truth.sess, truth.boot)
      BY <2>1, <3>1 DEF RotationInv
    <3>2. CASE \E i \in DOMAIN file : Orphan(file[i]) /\ carried' = file[i]
      <4>1. ~Recorded /\ Orphan(carried') /\ carried'.boot <= boot /\ (carried'.boot = boot => Told)
        BY <3>2 DEF FileInv
      <4>2. StartPending
        BY <2>1, <4>1, Holder
      <4>3. Orphan(carried)'
        BY <2>1, <4>1 DEF Orphan
      <4> QED BY <2>1, <2>2, <4>1, <4>2, <4>3 DEF RotationInv
    <3> QED BY <2>4, <3>1, <3>2
  <2>6. SessionInv'
    <3>1. Recorded /\ ~failed => LastStart(file) # None
      BY <2>1, Found DEF SessionInv
    <3> QED BY <2>1, <2>2, <3>1 DEF SessionInv
  <2> QED BY <2>2, <2>3, <2>5, <2>6
<1>13. CASE RotateFresh
  <2>1. /\ rotating /\ rotating' = FALSE /\ exists' /\ handle' = "open" /\ carried' = None
        /\ file' = IF carried = None THEN <<>> ELSE <<carried>>
        /\ handle = "none" /\ todo # <<>>
        /\ UNCHANGED <<pc, lock, todo, sess, boot, recovered, truth, failed>>
    BY <1>13, HolderStarted DEF RotateFresh, RotationInv
  <2>2. /\ (StartPending' <=> StartPending) /\ (Recorded' <=> Recorded) /\ (Told' <=> Told)
    BY <2>1 DEF StartPending, Recorded, Told
  <2>6. StartPending => ~Recorded'
    BY <2>2 DEF Recorded
  <2>3. ProcessInv' /\ CleanVerdictIsTrue' /\ RotationInv'
    BY <2>1, <2>2, HolderStarted DEF ProcessInv, CleanVerdictIsTrue, RotationInv
  <2>4. CASE carried = None
    <3>1. file' = <<>>
      BY <2>1, <2>4
    <3>2. FileInv'
      BY <3>1 DEF FileInv
    <3> QED BY <2>1, <2>2, <2>3, <2>4, <3>2 DEF SessionInv
  <2>5. CASE carried # None
    <3>1. FileInv' /\ \E i \in DOMAIN file' : IsStart(file'[i])
      BY <2>1, <2>2, <2>5, <2>6, CarriedFile
    <3> QED BY <2>1, <2>2, <2>3, <2>5, <3>1 DEF SessionInv
  <2> QED BY <2>4, <2>5
<1>14. CASE CarryFails
  <2>1. /\ rotating /\ rotating' = FALSE /\ exists' /\ carried' = None /\ carried # None
        /\ GiveUp("open") /\ handle = "none" /\ todo # <<>>
        /\ UNCHANGED <<pc, lock, sess, boot, recovered, truth>>
        /\ file' = <<>> \/ file' = <<carried>>
    BY <1>14, HolderStarted DEF CarryFails, RotationInv, Remnants
  <2>2. /\ ProcessInv' /\ failed' /\ (Told' <=> Told) /\ Told' /\ (Recorded' => Recorded)
        /\ StartPending => ~Recorded'
    BY <2>1, GivenUp, Holder
  <2>3. FileInv'
    <3>1. CASE file' = <<>>
      BY <3>1 DEF FileInv
    <3>2. CASE file' = <<carried>>
      BY <2>1, <2>2, <3>2, CarriedFile
    <3> QED BY <2>1, <3>1, <3>2
  <2>4. RotationInv' /\ CleanVerdictIsTrue'
    BY <2>1 DEF RotationInv, CleanVerdictIsTrue
  <2> QED BY <2>1, <2>2, <2>3, <2>4 DEF SessionInv
<1>15. CASE PowerLoss
  <2>1. PICK n \in synced .. Len(file) :
          file' = SubSeq(file, 1, n) \o <<>> /\ synced' = n + Len(<<>>)
    BY <1>15 DEF PowerLoss
  <2>2. n \in 0 .. Len(file) /\ <<>> \in {<<>>, <<Torn>>}
    BY <1>0
  <2>3. /\ DOMAIN file' = 1 .. n /\ synced' = n /\ n \in Nat
        /\ \A i \in DOMAIN file' : i \in DOMAIN file /\ file'[i] = file[i]
    <3>1. Len(<<>>) = 0
      OBVIOUS
    <3>2. /\ file' \in Seq(Record) /\ Len(file') = n + Len(<<>>) /\ n \in Nat
          /\ \A i \in 1 .. n : file'[i] = file[i]
      BY <1>0, <2>1, <2>2, Remains
    <3>3. DOMAIN file' = 1 .. n /\ synced' = n
      BY <2>1, <3>1, <3>2
    <3> QED BY <1>0, <2>2, <3>2, <3>3
  <2>4. /\ Gone("power") /\ UNCHANGED <<exists, sess, truth>> /\ boot' = boot + 1
    BY <1>15 DEF PowerLoss
  <2>5. ~Recorded' /\ todo' = <<>> /\ pc' = "off" /\ ~rotating' /\ carried' = None
        /\ handle' = "none" /\ lock' = "free"
    BY <2>4 DEF Gone, Recorded
  <2>6. ASSUME NEW i \in DOMAIN file', Orphan(file[i])'
        PROVE  /\ file'[i].boot <= boot' /\ file'[i].boot # boot'
               /\ \A k \in DOMAIN file' : k > i => Orphan(file[k])'
    <3>1. Orphan(file[i]) /\ i \in DOMAIN file
      BY <2>3, <2>4, <2>6 DEF Orphan
    <3>2. file[i].boot \in Nat /\ file[i].boot <= boot
      BY <3>1, StartNumbers DEF FileInv, Orphan
    <3>3. \A k \in DOMAIN file' : k > i => Orphan(file[k])
      BY <2>3, <3>1 DEF FileInv
    <3> QED BY <1>0, <2>3, <2>4, <2>6, <3>2, <3>3 DEF Orphan
  <2>7. ASSUME NEW i \in DOMAIN file, MarksTruth(file, i), i \in DOMAIN file'
        PROVE  MarksTruth(file, i)'
    <3>1. i <= synced'
      BY <2>3, <2>7
    <3> QED BY <2>3, <2>4, <2>7, <3>1 DEF MarksTruth, Orphan
  <2>8. ASSUME NEW i \in DOMAIN file, MarksTruth(file, i), i \notin DOMAIN file',
               NEW k \in DOMAIN file', IsStart(file'[k])
        PROVE  FALSE
    <3>1. k \in DOMAIN file /\ file'[k] = file[k] /\ k < i
      BY <1>0, <2>3, <2>8
    <3>2. i <= synced
      BY <2>8, <3>1 DEF MarksTruth
    <3> QED BY <1>0, <2>1, <2>3, <2>8, <3>2
  <2>9. FileInv'
    <3>1. \A i \in DOMAIN file' : file'[i].kind # "torn"
      BY <2>3 DEF FileInv
    <3>2. CASE \A i \in DOMAIN file : IsStart(file[i]) => Orphan(file[i])
      <4>1. \A i \in DOMAIN file' : IsStart(file'[i]) => Orphan(file[i])'
        BY <2>3, <2>4, <3>2 DEF Orphan
      <4> QED BY <2>5, <2>6, <3>1, <4>1 DEF FileInv
    <3>3. CASE \E i \in DOMAIN file : MarksTruth(file, i)
      <4>1. \/ \A i \in DOMAIN file' : ~IsStart(file'[i])
            \/ \E i \in DOMAIN file' : MarksTruth(file, i)'
        BY <2>7, <2>8, <3>3
      <4> QED BY <2>5, <2>6, <3>1, <4>1 DEF FileInv
    <3> QED BY <3>2, <3>3 DEF FileInv
  <2> QED BY <2>5, <2>9 DEF RotationInv, ProcessInv, SessionInv, CleanVerdictIsTrue
<1> QED
  BY <1>1, <1>2, <1>3, <1>4, <1>5, <1>6, <1>7, <1>8, <1>9, <1>10, <1>11, <1>12, <1>13,
     <1>14, <1>15 DEF Next, MainThread, ControlWorker, AppendStep


\* The inductive invariant holds: the markers a reader finds are in the order of the
\* sessions, an acknowledged clean marker is durable whatever fails, and without torn
\* writes the last start marker is that of the session truth is about, or of a session
\* whose append failed.
THEOREM Inductive == Spec => []IInv
<1>1. Init => IInv
  BY TypeInit, OrderInit, MarksInit, JInit DEF IInv, JInv
<1>2. IInv /\ [Next]_vars => IInv'
  BY TypeNext, OrderNext, LastNext, MarksNext, JNext DEF IInv, JInv
<1> QED BY <1>1, <1>2, PTL DEF Spec

\* Whatever fails, torn writes and failed syncs included, a session whose clean marker was
\* appended without an error, and which a reader of the journal would call cleanly ended,
\* stays so until the start marker of another session is appended or a rotation begun.
THEOREM MarksStay == Spec => OnlyRotationUnmarks
<1>1. IInv /\ [Next]_vars =>
        [truth.sure /\ PreviousSession(file).clean /\ ~PreviousSession(file').clean
           => rotating' \/ StartPending]_vars
  BY MarkKept DEF IInv
<1> QED BY <1>1, Inductive, PTL DEF OnlyRotationUnmarks, Spec

\* However the process dies, the machine stops or a file operation fails, a start
\* takes its predecessor for clean only if its clean marker was written.
THEOREM VerdictCorrect ==
  ASSUME "tear" \notin Faults
  PROVE  Spec => []CleanVerdictIsTrue
<1>1. IInv => CleanVerdictIsTrue
  BY DEF IInv
<1> QED BY <1>1, Inductive, PTL

\* No rotation, by either writer and whatever fails in it, hands the journal of a
\* running session to another session, and only a failed operation of the session
\* itself leaves it without a marker.
THEOREM RotationCorrect ==
  ASSUME "tear" \notin Faults
  PROVE  Spec => []RotationKeepsSession
<1>1. ASSUME IInv, Running, handle = "open"
      PROVE  \/ LastStart(file) = StartRec(sess, boot)
             \/ failed /\ LastStart(file) = None
  <2>1. TypeOK /\ FileInv /\ RotationInv /\ ProcessInv /\ SessionInv
    BY <1>1 DEF IInv
  <2>2. ~StartPending
    <3>1. todo # <<>> => Head(todo) = todo[1] /\ 1 \in DOMAIN todo
      BY <2>1, Remaining
    <3> QED BY <3>1, <2>1, <1>1 DEF StartPending, ProcessInv, Running, IsStart
  <2>3. Recorded /\ exists /\ ~rotating
    BY <1>1, <2>1, <2>2 DEF Recorded, Running, RotationInv
  <2>4. \/ LastStart(file) = None /\ \A i \in DOMAIN file : ~IsStart(file[i])
        \/ LastStart(file) = StartRec(truth.sess, truth.boot)
    BY <2>1, <2>3, Found, NoOrphans
  <2> QED BY <2>1, <2>3, <2>4 DEF SessionInv
<1>2. IInv => RotationKeepsSession
  BY <1>1 DEF RotationKeepsSession
<1> QED BY <1>2, Inductive, PTL

\* So what the journal says of this session and of the last is true.
THEOREM JournalCorrect ==
  ASSUME "tear" \notin Faults
  PROVE  Spec => []JournalIsTrue
<1>1. CleanVerdictIsTrue /\ RotationKeepsSession => JournalIsTrue
  BY DEF JournalIsTrue
<1> QED BY <1>1, VerdictCorrect, RotationCorrect, PTL

\* Writing the clean marker is a step of the history.
LEMMA Ended ==
  ASSUME truth'.boot = truth.boot, truth'.ended = TRUE, UNCHANGED <<boot, recovered>>
  PROVE  History!End
<1>1. [boot |-> truth'.boot, ended |-> truth'.ended] = [boot |-> truth.boot, ended |-> TRUE]
  BY Zenon
<1>2. [boot |-> truth.boot, ended |-> truth.ended].boot = truth.boot
  OBVIOUS
<1> QED BY <1>1, <1>2, Zenon DEF History!End

\* Every step of the journal is a step of the outcome history or a stutter.
LEMMA HistoryStep ==
  ASSUME "tear" \notin Faults, IInv, [Next]_vars
  PROVE  [History!Next]_(History!vars)
<1> USE DEF History!Next, History!vars
<1>0. TypeOK /\ StartsInOrder /\ JInv
  BY DEF IInv, JInv
<1>j. TypeOK' /\ JInv'
  <2>1. IInv'
    BY TypeNext, OrderNext, LastNext, MarksNext, JNext DEF IInv, JInv
  <2> QED BY <2>1 DEF IInv, JInv
<1>1. CASE Start
  <2>1. UNCHANGED <<truth, boot>> /\ pc' = "starting"
    BY <1>1 DEF Start
  <2>2. PICK p \in LookBack :
          recovered' = [clean |-> p.clean, incident |-> RestartIncident(p, boot),
                        told |-> recovered.told \/ RestartIncident(p, boot)]
    BY <1>1 DEF Start
  <2>3. recovered'.clean \in BOOLEAN /\ recovered'.incident \in BOOLEAN
    BY <1>j DEF TypeOK
  <2>4. recovered'.told = (recovered.told \/ recovered'.incident)
    BY <2>2
  <2>5. recovered'.clean => truth.ended
    BY <1>j, <2>1 DEF JInv, CleanVerdictIsTrue
  <2>6. ~truth.ended /\ truth.boot # boot => recovered'.told
    BY <1>j, <2>1 DEF JInv, ProcessInv, Told
  <2>7. History!Recover
    BY <2>1, <2>3, <2>4, <2>5, <2>6 DEF History!Recover
  <2> QED BY <2>7
<1>2. CASE AppendRecord
  <2>1. todo # <<>> /\ truth' = Outcome(Head(todo)) /\ UNCHANGED <<boot, recovered>>
    BY <1>2 DEF AppendRecord, Appending
  <2>2. CASE Head(todo).kind = "start"
    <3>1. truth' = [sess |-> sess, boot |-> boot, ended |-> FALSE, sure |-> FALSE]
      BY <2>1, <2>2, Zenon DEF Outcome
    <3>2. truth'.boot = boot /\ truth'.ended = FALSE
      BY <3>1
    <3>3. History!Begin
      BY <2>1, <3>2 DEF History!Begin
    <3> QED BY <3>3
  <2>3. CASE Head(todo).kind = "clean"
    <3>1. truth' = [truth EXCEPT !.ended = TRUE, !.sure = TRUE]
      BY <2>1, <2>3, Zenon DEF Outcome
    <3>2. truth'.boot = truth.boot /\ truth'.ended = TRUE
      BY <1>0, <3>1 DEF TypeOK
    <3>3. History!End
      BY <2>1, <3>2, Ended
    <3> QED BY <3>3
  <2>4. CASE Head(todo).kind \notin {"start", "clean"}
    <3>1. truth' = truth
      BY <2>1, <2>4, Zenon DEF Outcome
    <3> QED BY <2>1, <3>1
  <2> QED BY <2>2, <2>3, <2>4
<1>3. CASE SyncFails
  <2>1. truth' = (IF Head(todo).kind = "clean" THEN [truth EXCEPT !.ended = TRUE] ELSE truth)
        /\ UNCHANGED <<boot, recovered>>
    BY <1>3 DEF SyncFails
  <2>2. CASE truth' = [truth EXCEPT !.ended = TRUE]
    <3>1. truth'.boot = truth.boot /\ truth'.ended = TRUE
      BY <1>0, <2>2 DEF TypeOK
    <3>2. History!End
      BY <2>1, <3>1, Ended
    <3> QED BY <3>2
  <2>3. CASE truth' = truth
    BY <2>1, <2>3
  <2> QED BY <2>1, <2>2, <2>3
<1>4. CASE Reboot \/ PowerLoss
  <2>1. boot' = boot + 1 /\ UNCHANGED truth /\ recovered' = [recovered EXCEPT !.told = FALSE]
    BY <1>4 DEF Reboot, PowerLoss
  <2>2. /\ recovered'.clean = recovered.clean /\ recovered'.incident = recovered.incident
        /\ recovered'.told = FALSE
    BY <1>0, <2>1 DEF TypeOK
  <2>3. History!Restart
    BY <2>1, <2>2 DEF History!Restart
  <2> QED BY <2>3
<1>5. CASE UNCHANGED <<truth, boot, recovered>>
  BY <1>5
<1>6. \/ MainThread \/ ControlWorker \/ UNCHANGED vars
      \/ AppendFails \/ RotateAway \/ RotateBlind \/ RotateAwayFails \/ RotateFresh
      \/ RotateFreshFails \/ CarryFails \/ CheckpointDue \/ LogWorkerFailure
      \/ UiRequestStop \/ RunElapsed \/ HostExit \/ UiExit \/ Kill
      => UNCHANGED <<truth, boot, recovered>>
  BY DEF MainThread, ControlWorker, vars, OpenJournal, OpenJournalFails, Ready,
     WorkerFailureLogged, FlushAndMark, Stopped, TakeCheckpoint, CheckpointTaken, AppendFails,
     RotateAway, RotateBlind, Rename, RotateAwayFails, RotateFresh, RotateFreshFails, CarryFails,
     CheckpointDue, LogWorkerFailure, UiRequestStop, RunElapsed, HostExit, UiExit, Kill
<1> QED
  BY <1>1, <1>2, <1>3, <1>4, <1>5, <1>6 DEF Next, AppendStep

\* The journal implements the history of outcomes it stands for.
THEOREM Refinement ==
  ASSUME "tear" \notin Faults
  PROVE  Spec => ImplementsHistory
<1>1. Init => History!Init
  BY DEF Init, History!Init
<1>2. IInv /\ [Next]_vars => [History!Next]_(History!vars)
  BY HistoryStep
<1> QED BY <1>1, <1>2, Inductive, PTL DEF Spec, ImplementsHistory, History!Spec
=============================================================================
