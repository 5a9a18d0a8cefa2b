------------------------------ MODULE Evidence ------------------------------
(***************************************************************************)
(* What Guardian concludes from what the machine left behind: whether a    *)
(* restart is pending, from seven places of the registry, and how the last *)
(* session ended, from the journal and the System event log.               *)
(***************************************************************************)
EXTENDS Integers, Lists, SequencesExt, FiniteSetsExt

CONSTANTS
    RecordCap,   \* max_records of the query for restart records
    UpdateCap    \* max_records of the query for update records

ASSUME EvidenceAssumption == RecordCap \in Nat /\ UpdateCap \in Nat

-----------------------------------------------------------------------------
(* A pending restart.                                                        *)

\* SIGNAL_SPECS: the weight of each indicator.
SignalWeight ==
    [cbs_reboot_pending             |-> "conclusive",
     wu_reboot_required             |-> "conclusive",
     wu_auto_update_reboot_required |-> "strong",
     sm_pending_file_rename         |-> "strong",
     sm_pending_rename_operations   |-> "strong",
     wu_ux_schedule_reboot          |-> "weak",
     wu_update_exe_reboot_required  |-> "weak"]
Signals == DOMAIN SignalWeight

\* The key each indicator is read from; three are the keys themselves.
SignalKey ==
    [cbs_reboot_pending             |-> "RebootPending",
     wu_reboot_required             |-> "RebootRequired",
     wu_auto_update_reboot_required |-> "PostRebootReporting",
     sm_pending_file_rename         |-> "Session Manager",
     sm_pending_rename_operations   |-> "Session Manager",
     wu_ux_schedule_reboot          |-> "UX Settings",
     wu_update_exe_reboot_required  |-> "Auto Update"]
KeySignals == {s \in Signals : SignalKey[s] \in {"RebootPending", "RebootRequired", "PostRebootReporting"}}

\* probe_one, over a registry that says of each key whether it opens, and of
\* each value whether it is there.
Probe(registry, s) ==
    LET opened == registry.keys[SignalKey[s]]
    IN  IF opened = "denied" THEN "failed"
        ELSE IF opened = "missing" THEN "absent"
        ELSE IF s \in KeySignals THEN "present" ELSE registry.values[s]

\* RebootProbe::collect_signals
Collected(registry) == [s \in Signals |-> Probe(registry, s)]

Firing(readings, weight) == {s \in Signals : readings[s] = "present" /\ SignalWeight[s] = weight}
Unread(readings) == {s \in Signals : readings[s] = "failed"}

\* classify_signals
ClassifySignals(readings) ==
    IF Firing(readings, "conclusive") # {} \/ Cardinality(Firing(readings, "strong")) >= 2 THEN "pending"
    ELSE IF \E s \in Signals : readings[s] = "present" THEN "probably_pending"
    ELSE IF Unread(readings) # {} THEN "unknown"
    ELSE "not_pending"

-----------------------------------------------------------------------------
(* The event log.  A record has a provider, an id, a time and its insert     *)
(* strings; the log is in the order of time.                                 *)

\* read_provider_name reads at the offset of the strings, so it finds the first
\* insert string; with no strings it decodes what follows the record's header.
ReadProvider(r) == IF r.inserts = <<>> THEN "garbled" ELSE r.inserts[1]

\* read_insert_strings steps past what it took for the provider.
ReadInserts(r) == IF r.inserts = <<>> THEN <<>> ELSE Tail(r.inserts)

\* interpret, of a record the query does not exclude.
Interpreted(r) ==
    [provider |-> ReadProvider(r), id |-> r.id, at |-> r.at,
     message |-> IF ReadInserts(r) = <<>> THEN <<ReadProvider(r)>> ELSE ReadInserts(r)]

Matches(r, query) ==
    /\ r.at >= query.since /\ r.at <= query.until
    /\ query.ids = {} \/ r.id \in query.ids
    /\ query.providers = {} \/ ReadProvider(r) \in query.providers

\* SystemEventLog::query: newest first up to the cap, then in the order of time.
\* Records behind a failed read, or after a malformed one in its buffer, are lost.
Query(log, query) ==
    LET found == {i \in DOMAIN log.records : i \notin log.lost /\ Matches(log.records[i], query)}
        newest == {i \in found : Cardinality({j \in found : j > i}) < query.cap}
    IN  IF ~log.opens THEN <<>>
        ELSE Picked([i \in DOMAIN log.records |-> Interpreted(log.records[i])], newest)

\* evidence_queries, in minutes.
EvidenceQueries(boot, now) ==
    LET since == boot - 30
        until == Min({boot + 5, now})
    IN  <<[providers |-> {}, ids |-> {41, 1074, 6005, 6006, 6008, 12, 13},
           since |-> since, until |-> until, cap |-> RecordCap],
          [providers |-> {"WindowsUpdateClient"}, ids |-> {},
           since |-> since, until |-> until, cap |-> UpdateCap]>>

\* The positions of two events, the first of them being earlier, or having come
\* earlier.
OldestFirst(events) ==
    {p \in (DOMAIN events) \X (DOMAIN events) :
        \/ events[p[1]].at < events[p[2]].at
        \/ events[p[1]].at = events[p[2]].at /\ p[1] < p[2]}

\* The two answers together, sorted by time and otherwise as they came.
Gathered(log, boot, now) ==
    LET queries == EvidenceQueries(boot, now)
        events == Query(log, queries[1]) \o Query(log, queries[2])
    IN  Sorted(events, OldestFirst(events))

-----------------------------------------------------------------------------
(* The end of the last session.                                              *)

Is(event, provider, id) == event.provider = provider /\ event.id = id

\* message_mentions_update and extract_initiator, of a 1074 message.
MentionsUpdate(event) == "Windows Update" \in ToSet(event.message)
NamesProcess(event) == "The process" \in ToSet(event.message)

\* classify_restart of a session that did not end cleanly.  The last request
\* names the initiator; that Windows Update had part in it sticks.
ClassifyRestart(events) ==
    LET requests == {i \in DOMAIN events : Is(events[i], "User32", 1074)}
        abrupt == \E i \in DOMAIN events :
                     Is(events[i], "Kernel-Power", 41) \/ Is(events[i], "EventLog", 6008)
        stopped == \E i \in DOMAIN events : Is(events[i], "EventLog", 6006)
        last == events[Max(requests)]
    IN  [initiator |->
            IF requests # {}
              THEN IF MentionsUpdate(last) THEN "Windows Update"
                   ELSE IF NamesProcess(last) THEN "the process" ELSE "a process"
            ELSE IF abrupt THEN "the system stopped" ELSE "none",
         reason |-> IF requests # {} THEN last.message ELSE <<>>,
         confidence |->
            IF requests # {} THEN "confirmed" ELSE IF abrupt \/ stopped THEN "likely" ELSE "unknown",
         windows_update |->
            IF \E i \in requests : MentionsUpdate(events[i]) THEN "yes"
            ELSE IF requests # {} THEN "no" ELSE "unknown"]

\* SystemBootIdentity::read, in milliseconds, from two clocks that are read one
\* after the other.
BootId(now, uptime) == (now - uptime) \div 1000

\* PreviousSession::lost_agents: those whose detection drives protection.
LostAgents(checkpoint) == {a \in checkpoint.agents : a.confidence \in {"confirmed", "high"}}

Nobody == [agents |-> {}, jobs |-> 0, consumed |-> FALSE, network |-> "none"]

\* An ended session is reported unless it ended cleanly or in this boot.  The
\* boot of a journal without a start marker is "unknown", which no boot is.
Reportable(previous, boot) == ~previous.clean /\ previous.boot # boot

\* build_restart_incident and build_unexpected_restart_incident
RestartIncident(log, previous, boot, started, now) ==
    LET verdict == ClassifyRestart(Gathered(log, started, now))
        before == IF previous.checkpoint = {} THEN Nobody
                  ELSE CHOOSE c \in previous.checkpoint : TRUE
        costly == LostAgents(before) # {} \/ before.jobs > 0
    IN  IF ~Reportable(previous, boot) THEN {}
        ELSE {[verdict |-> verdict, agents |-> LostAgents(before), jobs |-> before.jobs,
               network |-> before.network, authorized |-> before.consumed, torn |-> previous.truncated,
               severity |-> IF costly \/ verdict.confidence = "unknown" THEN "warning" ELSE "info"]}
=============================================================================
