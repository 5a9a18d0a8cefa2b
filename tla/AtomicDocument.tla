--------------------------- MODULE AtomicDocument ---------------------------
(***************************************************************************)
(* What an AtomicFile promises: whoever opens the document finds the last  *)
(* value that was published whole, and each value published is the one     *)
(* that is being saved.  It can be set aside, and damaged from outside,    *)
(* but a crash, a full disk or a file in use never changes it.             *)
(***************************************************************************)
EXTENDS Integers

VARIABLES
    doc,    \* Absent, Damaged, or the number of the save it holds
    saves,  \* the number of saves so far
    damages \* the times something outside has damaged the document

vars == <<doc, saves, damages>>

Absent  == 0
Damaged == -1

Init == doc \in {Absent, Damaged} /\ saves = 0 /\ damages = 0

\* A new value is to be saved.
Offer == saves' = saves + 1 /\ UNCHANGED <<doc, damages>>

\* The value that is being saved replaces the document in one step.
Publish == saves > 0 /\ doc' = saves /\ UNCHANGED <<saves, damages>>

SetAside == doc' = Absent /\ UNCHANGED <<saves, damages>>
Damage == doc' = Damaged /\ damages' = damages + 1 /\ UNCHANGED saves

Next == Offer \/ Publish \/ SetAside \/ Damage

Spec == Init /\ [][Next]_vars
=============================================================================
