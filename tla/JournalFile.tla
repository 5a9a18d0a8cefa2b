---------------------------- MODULE JournalFile ----------------------------
(***************************************************************************)
(* What the recovery code reads out of journal.log.                        *)
(*                                                                         *)
(* A journal is a sequence of records.  The payloads the recovery decision *)
(* does not look at are abstracted away: a record is its kind, plus the    *)
(* session and boot of a start marker.  A record whose bytes are not all   *)
(* there, or fail their checksum, is Torn.                                 *)
(***************************************************************************)
EXTENDS Naturals, Sequences

None == [kind |-> "none"]

StartRec(s, b) == [kind |-> "start", sess |-> s, boot |-> b]
Checkpoint == [kind |-> "checkpoint"]
ShutdownObserved == [kind |-> "observed"]
CleanShutdown == [kind |-> "clean"]
NetworkEvent == [kind |-> "network"]
WorkerFailure == [kind |-> "failure"]
Torn == [kind |-> "torn"]

IsStart(r) == r.kind = "start"

(***************************************************************************)
(* Journal::read_all stops at the first record that fails its length or    *)
(* checksum test, so a record is read only when nothing torn precedes it.  *)
(***************************************************************************)
Readable(f) == {i \in DOMAIN f : \A j \in 1 .. i : f[j].kind # "torn"}

Starts(f) == {i \in Readable(f) : IsStart(f[i])}

IsLast(i, S) == i \in S /\ \A j \in S : j <= i

\* Mutant of LastStart: the first start marker.
FirstStart(f) ==
    IF Starts(f) = {} THEN None
    ELSE f[CHOOSE i \in Starts(f) : \A j \in Starts(f) : i <= j]

\* Journal::current_session_start, also the last_start of the recovery reader.
LastStart(f) ==
    IF Starts(f) = {} THEN None ELSE f[CHOOSE i \in Starts(f) : IsLast(i, Starts(f))]

(***************************************************************************)
(* JournalRead::session_ended_cleanly: a clean marker follows the first    *)
(* start of session s, with no start of another session in between.        *)
(***************************************************************************)
EndedCleanly(f, s) ==
    \E m \in Readable(f) :
        /\ f[m].kind = "clean"
        /\ \E i \in Starts(f) : i < m /\ f[i].sess = s
        /\ \A i, k \in Starts(f) :
              i < k /\ k < m /\ f[i].sess = s => f[k].sess = s

(***************************************************************************)
(* read_previous_session: the last session in the file and whether it      *)
(* ended cleanly.  No start marker at all (a first run, or an unreadable   *)
(* file) counts as unclean.                                                *)
(***************************************************************************)
PreviousSession(f) ==
    LET start == LastStart(f)
    IN  [start |-> start,
         clean |-> start # None /\ EndedCleanly(f, start.sess)]

\* Mutant of RestartIncident: without a start marker there is nothing to report.
IncidentIfKnown(p, b) == ~p.clean /\ p.start # None /\ p.start.boot # b

(***************************************************************************)
(* build_unexpected_restart_incident: unclean, and the boot of the last    *)
(* start marker is not the current one.  Without a start marker the        *)
(* previous boot is "unknown", which differs from every boot.              *)
(***************************************************************************)
RestartIncident(p, b) == ~p.clean /\ (p.start = None \/ p.start.boot # b)
=============================================================================
