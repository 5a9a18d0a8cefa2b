--------------------------- MODULE SessionHistory ---------------------------
(***************************************************************************)
(* What recovery promises, without a journal: the outcome of the last      *)
(* session that recorded its start, and what the next start may conclude   *)
(* from it.  The conclusion is fail-closed: a start may wrongly take a     *)
(* session for unclean, never the other way round, and a restart of the    *)
(* machine under an unfinished session is always reported.                 *)
(***************************************************************************)
EXTENDS Naturals

VARIABLES
    last,      \* [boot, ended] of the last session that recorded its start
    boot,      \* the current boot of the machine
    clean,     \* what the latest start concluded about the last session
    reported,  \* whether that start raised an unexpected-restart incident
    told       \* whether one has since the machine came up

vars == <<last, boot, clean, reported, told>>

Init ==
    /\ last = [boot |-> 0, ended |-> TRUE]    \* nothing has run, nothing is owed
    /\ boot = 1
    /\ clean = FALSE
    /\ reported = FALSE /\ told = FALSE

\* A session makes its start durable: from now on it owes a clean ending.
Begin ==
    /\ last' = [boot |-> boot, ended |-> FALSE]
    /\ UNCHANGED <<boot, clean, reported, told>>

\* The session that recorded its start writes its clean marker.
End ==
    /\ last' = [boot |-> last.boot, ended |-> TRUE]
    /\ UNCHANGED <<boot, clean, reported, told>>

\* A start looks back.  It may err on the side of an unclean verdict only, and
\* what an earlier start of this boot has reported need not be reported again.
Recover ==
    /\ clean' \in BOOLEAN
    /\ clean' => last.ended
    /\ reported' \in BOOLEAN
    /\ told' = (told \/ reported')
    /\ ~last.ended /\ last.boot # boot => told'
    /\ UNCHANGED <<last, boot>>

Restart ==
    /\ boot' = boot + 1
    /\ told' = FALSE
    /\ UNCHANGED <<last, clean, reported>>

Next == Begin \/ End \/ Recover \/ Restart

Spec == Init /\ [][Next]_vars
=============================================================================
