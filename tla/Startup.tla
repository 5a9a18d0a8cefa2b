------------------------------ MODULE Startup ------------------------------
(***************************************************************************)
(* A start of the runtime, as far as it reads what others write: it makes  *)
(* sure that there is a configuration, reads and repairs it, prunes the    *)
(* logs, asks the registry about a pending restart and reconstructs how    *)
(* the last session ended.  The operator edits the configuration whenever  *)
(* he likes, and may have the doctor report on it and on the machine.      *)
(***************************************************************************)
EXTENDS Doctor

CONSTANTS
    Words,      \* what an id, a name, a path or a text can be
    Files,      \* what the configuration file can be
    Machines,   \* what the machine can answer the doctor
    Registries, \* what the indicators of a pending restart can be
    Pasts,      \* how a session can have ended: its journal, the event log, the clocks
    LogDirs,    \* the sizes of the logs that may lie there, oldest first, in KiB
    MaxEdits,   \* bound on the operator's edits
    MaxLog      \* bound on the size of the live log, in KiB

-----------------------------------------------------------------------------
(* What can be read.                                                         *)

Patterns == [length : Nat, bound : Nat, nesting : Nat, compiles : BOOLEAN]

ProbeEntries == [id : Words, valid : BOOLEAN, timeout_ms : Nat, enabled : BOOLEAN]
SignatureEntries ==
    [id : Words, any_of : Seq(Patterns), all_of : Seq(Patterns), none_of : Seq(Patterns),
     display_name : Words, user_defined : BOOLEAN]
RuleEntries == [id : Words, patterns : SUBSET Patterns]

ConfigDocuments ==
    [schema_version : Nat, protect : BOOLEAN, refuse_with_protected_work : BOOLEAN,
     override_phrase : {"set", "blank"}, numbers : [Numbers -> 0..Huge], max_total_kib : Nat,
     probes : Seq(ProbeEntries), user_signatures : Seq(SignatureEntries),
     user_workload_rules : Seq(RuleEntries),
     data_dir : Words, level : Words, unknown : SUBSET Words, nested : SUBSET Words]

IsFile(f) ==
    \/ f.kind \in {"absent", "unreadable", "garbage"}
    \/ f.kind = "document" /\ f.document \in ConfigDocuments

IsRegistry(r) ==
    /\ r.keys \in [{SignalKey[s] : s \in Signals} -> {"ok", "missing", "denied"}]
    /\ r.values \in [Signals -> {"present", "absent", "failed"}]

LogRecords == [provider : Words, id : Nat, at : Int, inserts : Seq(Words)]

IsPast(p) ==
    /\ p.log.records \in Seq(LogRecords)
    /\ p.log.opens \in BOOLEAN /\ p.previous.clean \in BOOLEAN
    /\ \A c \in p.previous.checkpoint : \A a \in c.agents : a.confidence \in Words

Sessions ==
    [entry : Words, state : Words, projected : BOOLEAN, address : Words,
     readable : BOOLEAN, stuck : BOOLEAN]
Cards ==
    [connected : BOOLEAN, ssid : Words, profiles : SUBSET Words, refused : SUBSET Words,
     radio_read : BOOLEAN, radios : Seq([software : BOOLEAN, hardware : BOOLEAN])]
Targets ==
    [kind : {"tcp", "dns", "read"}, addresses : Seq(BOOLEAN), takes : Nat, enabled : BOOLEAN]

IsMachine(m) ==
    /\ IsRegistry(m.registry)
    /\ "connections" \in DOMAIN m
    /\ m.connections \in Seq(Sessions) /\ m.interfaces \in Seq(Cards) /\ m.probes \in Seq(Targets)
    /\ m.reachable \in BOOLEAN /\ m.elevated \in BOOLEAN /\ m.helper \in BOOLEAN
    /\ m.processes_listed \in BOOLEAN /\ m.policy_read \in BOOLEAN /\ m.route \in BOOLEAN
    /\ m.unapplied \in Nat

ASSUME StartupAssumption ==
    /\ MaxEdits \in Nat
    /\ {default_probes[1].id, DefaultDocument.data_dir, DefaultDocument.level} \subseteq Words
    /\ Levels \cup {"local", "share"} \subseteq Words
    /\ \A f \in Files : IsFile(f)
    /\ \A m \in Machines : IsMachine(m)
    /\ \A r \in Registries : IsRegistry(r)
    /\ \A p \in Pasts : IsPast(p)

-----------------------------------------------------------------------------
VARIABLES
    stage, \* how far the start has come
    file,  \* config.json: absent, unreadable, without a document, or with one
    used,  \* the configuration this runtime goes by
    logs,  \* the log directory; the live log is the last
    told,  \* what was concluded last, and from what
    edits  \* how often the operator has edited the file

startupVars == <<stage, file, used, logs, told, edits>>

Document(doc) == [kind |-> "document", document |-> doc]
Nothing == [what |-> "nothing"]

StartupInit ==
    /\ stage = "off" /\ file \in Files /\ logs \in LogDirs
    /\ used = DefaultDocument
    /\ told = Nothing /\ edits = 0

Begin ==
    /\ stage = "off" /\ stage' = "look"
    /\ UNCHANGED <<file, used, logs, told, edits>>

\* initialize_data_directory finds no file; the directories may not be there.
FindNoFile ==
    /\ stage = "look" /\ file.kind = "absent"
    /\ stage' \in {"default", "read"}
    /\ UNCHANGED <<file, used, logs, told, edits>>

FindFile ==
    /\ stage = "look" /\ file.kind # "absent"
    /\ stage' = "read"
    /\ UNCHANGED <<file, used, logs, told, edits>>

\* AtomicFile replaces what is there by then; or it fails.
WriteDefault ==
    /\ stage = "default" /\ stage' = "read"
    /\ file' \in {file, Document(DefaultDocument)}
    /\ UNCHANGED <<used, logs, told, edits>>

\* load_configuration, of a file that can be read.
Read ==
    /\ stage = "read" /\ file.kind \in {"document", "garbage"}
    /\ LET loaded == Load(file)
       IN  /\ used' = loaded.document
           /\ told' = [what |-> "loaded", from |-> file, issues |-> loaded.issues]
           /\ stage' = IF loaded.changed THEN "repair" ELSE "prepare"
    /\ UNCHANGED <<file, logs, edits>>

\* load_configuration, of one that is not there or cannot be read.
ReadNothing ==
    /\ stage = "read" /\ file.kind \in {"absent", "unreadable"}
    /\ used' = DefaultDocument
    /\ told' = Nothing
    /\ stage' = "prepare"
    /\ UNCHANGED <<file, logs, edits>>

\* The repaired document replaces what is there by now; or that fails.
Repair ==
    /\ stage = "repair" /\ stage' = "prepare"
    /\ file' \in {file, Document(used)}
    /\ UNCHANGED <<used, logs, told, edits>>

-----------------------------------------------------------------------------
(* The logs.                                                                 *)

Total(sizes) == FoldLeft(+, 0, sizes)

\* prune_old_logs: the oldest go while there are too many or they are too big, but
\* never the newest.
PrunedTo(sizes, i, maxFiles, maxTotal) ==
    \/ i = Len(sizes)
    \/ /\ Len(sizes) - i + 1 <= maxFiles
       /\ Total(SubSeq(sizes, i, Len(sizes))) <= maxTotal

Pruned(sizes, maxFiles, maxTotal) ==
    IF sizes = <<>> THEN sizes
    ELSE SubSeq(sizes, CHOOSE i \in DOMAIN sizes :
                           /\ PrunedTo(sizes, i, maxFiles, maxTotal)
                           /\ \A j \in 1..(i - 1) : ~PrunedTo(sizes, j, maxFiles, maxTotal),
                Len(sizes))

\* ensure_dirs and init_file_logging: pruning stops at a log that cannot be
\* deleted, and the live log is opened where none is left.
Prepare ==
    /\ stage = "prepare" /\ stage' = "classify"
    /\ \E i \in 1..(Len(logs) - Len(Pruned(logs, used.numbers.max_files, used.max_total_kib)) + 1) :
           logs' = IF logs = <<>> THEN <<0>> ELSE SubSeq(logs, i, Len(logs))
    /\ UNCHANGED <<file, used, told, edits>>

\* The live log is never rotated: RollingFileAppender never.
Log ==
    /\ stage = "up" /\ logs[Len(logs)] < MaxLog
    /\ logs' = [logs EXCEPT ![Len(logs)] = MaxLog]
    /\ UNCHANGED <<stage, file, used, told, edits>>

-----------------------------------------------------------------------------
(* What the machine left behind.                                             *)

\* RebootProbe::classify, whose verdict is given to the coordinator.
Classify ==
    /\ stage = "classify" /\ stage' = "recover"
    /\ \E r \in Registries :
           told' = [what |-> "pending", from |-> r, verdict |-> ClassifySignals(Collected(r))]
    /\ UNCHANGED <<file, used, logs, edits>>

\* build_restart_incident of the session the journal ends with.
Recover ==
    /\ stage = "recover" /\ stage' = "up"
    /\ \E p \in Pasts :
           told' = [what |-> "restart", from |-> p,
                    incident |-> RestartIncident(p.log, p.previous, BootId(p.now, p.uptime),
                                                 (p.now - p.uptime) \div 60000, p.now \div 60000)]
    /\ UNCHANGED <<file, used, logs, edits>>

\* A round of the network worker, which takes the phonebook entry that is
\* configured or the only one there can be: it looks at the links, and it may hang
\* a session up, or ask for Wi-Fi where none is connected (Network says when).
Measure ==
    /\ stage = "up" /\ told.what # "uplink"
    /\ \E m \in Machines, configured \in {"none", "dsl"} :
           LET entry == SelectEntry(OrEmpty(EnumEntries(m)), configured)
               seen == Observe(m, entry.value, used.numbers.failure_quorum)
           IN  /\ entry.ok
               /\ \E left \in {m} \cup (IF seen.link = "absent" THEN {} ELSE {HangUpAll(m, entry.value)}) :
                      told' = [what |-> "uplink", from |-> m, entry |-> entry.value, seen |-> seen,
                               left |-> left.connections,
                               wifi |-> IF seen.wifi \/ entry.value = "none" THEN "kept"
                                        ELSE IF ConnectWifi(m) THEN "asked" ELSE "failed"]
    /\ UNCHANGED <<stage, file, used, logs, edits>>

\* The runtime ends, or is ended at any point of its start.
Stop ==
    /\ stage # "off" /\ stage' = "off"
    /\ used' = DefaultDocument /\ told' = Nothing
    /\ UNCHANGED <<file, logs, edits>>

\* An editor saves the file, or somebody removes it or its rights.
Edit ==
    /\ edits < MaxEdits /\ edits' = edits + 1
    /\ file' \in Files
    /\ UNCHANGED <<stage, used, logs, told>>

\* guardianctl doctor, whose report depends on the runtime only in whether it
\* can be reached.
Examine ==
    /\ stage = "off" /\ told = Nothing
    /\ \E m \in Machines :
           told' = [what |-> "report", from |-> m, file |-> file, report |-> BuildReport(m, file)]
    /\ UNCHANGED <<stage, file, used, logs, edits>>

StartupNext ==
    \/ Begin \/ FindNoFile \/ FindFile \/ WriteDefault \/ Read \/ ReadNothing \/ Repair
    \/ Prepare \/ Classify \/ Recover \/ Log \/ Measure \/ Stop
    \/ Edit \/ Examine

StartupSpec == StartupInit /\ [][StartupNext]_startupVars

-----------------------------------------------------------------------------
(* Properties.                                                               *)

Distinct(list) == \A i, j \in DOMAIN list : i # j => list[i].id # list[j].id

InBounds(numbers) ==
    \A f \in Numbers : numbers[f] >= Bounds[f][1] /\ numbers[f] <= Bounds[f][2]
UsableProbe(p) == GoodProbe(p) /\ p.timeout_ms > 0 /\ p.timeout_ms <= 30000
UsableSignature(s) == Len(s.any_of) + Len(s.all_of) > 0 /\ ~LosesRule(s)

\* A document the runtime can go by: its numbers are within their bounds, no id
\* stands for two things, and every signature can match.
Usable(doc) ==
    /\ doc.schema_version = CONFIG_SCHEMA_VERSION
    /\ InBounds(doc.numbers)
    /\ doc.max_total_kib >= 4 * doc.numbers.max_files
    /\ Len(doc.probes) <= MaxProbes /\ Len(doc.user_signatures) <= MaxSignatures
    /\ \A list \in {doc.probes, doc.user_signatures, doc.user_workload_rules} : Distinct(list)
    /\ \A p \in ToSet(doc.probes) : UsableProbe(p)
    /\ \A s \in ToSet(doc.user_signatures) : UsableSignature(s)
    /\ \A r \in ToSet(doc.user_workload_rules) : GoodRule(r)
    /\ doc.override_phrase # "blank" /\ doc.level \in Levels

\* "Bad configuration must not prevent update protection from starting": whatever
\* the file holds, the runtime goes by a usable document.
UsedIsUsable ==
    /\ stage \in {"off", "look", "default", "read", "repair", "prepare", "classify", "recover", "up"}
    /\ edits \in 0..MaxEdits /\ IsFile(file)
    /\ used \in ConfigDocuments /\ Usable(used)

\* What a load changes in silence: the schema, the spelling of the level, the mark
\* of a signature as the user's, and the unknown fields within a section.
SilentlyChanged == {"schema_version", "level", "numbers", "nested"}
MarkedOnes(signatures) ==
    [i \in DOMAIN signatures |-> [signatures[i] EXCEPT !.user_defined = TRUE]]
Marked(doc) == [doc EXCEPT !.user_signatures = MarkedOnes(@)]

\* What the operator wrote is not replaced behind his back: where the document in
\* use differs from the one that was read, an issue names the field, and the unknown
\* fields beside the sections are all kept.
Tells(issues, wrote, got) ==
    LET named == {i[1] : i \in issues}
    IN  /\ \A f \in DOMAIN wrote \ SilentlyChanged : got[f] # wrote[f] => f \in named
        /\ \A f \in Numbers : got.numbers[f] # wrote.numbers[f] => f \in named

RepairsAreReported ==
    (told.what = "loaded" /\ told.from.kind = "document") =>
        Tells(told.issues, Marked(told.from.document), used)

\* A load yields a document that can be used, and tells what it cost.
LoadIsSound == UsedIsUsable /\ RepairsAreReported

\* "Nothing found" is not "nothing there": no restart is pending only when every
\* indicator was read and none is set.
NotPendingMeansLooked ==
    (told.what = "pending" /\ told.verdict = "not_pending") =>
        \A s \in Signals : Probe(told.from, s) = "absent"

\* What is seen of the links is there: a link is up only over a session of the
\* entry that can be read and has an address, it is absent only where the entry has
\* no session or the sessions cannot be listed, a quorum is probes that passed, and
\* what is hung up belongs to the entry, however that is spelled.
UplinkIsHonest ==
    told.what = "uplink" =>
        LET m == told.from
            mine == {i \in DOMAIN m.connections : SameName(m.connections[i].entry, told.entry)}
            passing == {i \in DOMAIN m.probes : m.probes[i].enabled /\ RunOne(m.probes[i])}
        IN  /\ told.seen.link = "up" =>
                   m.route /\ \E i \in mine : LET c == m.connections[i] IN
                       c.readable /\ c.projected /\ c.address \notin {"", "0.0.0.0"}
            /\ told.seen.link # "absent" => mine # {}
            /\ (told.seen.link = "absent" /\ told.entry # "none") =>
                   mine = {} \/ ~EnumConnections(m).ok
            /\ told.seen.probes = "quorum" => passing # {}
            /\ told.seen.probes = "none" => \E p \in ToSet(m.probes) : p.enabled /\ ~RunOne(p)
            /\ told.seen.wifi => \E i \in ToSet(m.interfaces) : i.connected
            /\ \A c \in ToSet(m.connections) \ ToSet(told.left) : SameName(c.entry, told.entry)

\* An incident is of a session that neither ended cleanly nor in this boot, counts
\* no agent that was not there, and has a confirmed cause only where a request
\* for the restart can be read.
IncidentIsBacked ==
    told.what = "restart" =>
        \A i \in told.incident :
            LET past == told.from.previous
                log == told.from.log
            IN  /\ ~past.clean /\ past.boot # BootId(told.from.now, told.from.uptime)
                /\ \A a \in i.agents : \E c \in past.checkpoint : a \in c.agents /\ a.confidence # "low"
                /\ i.verdict.confidence = "confirmed" =>
                       log.opens /\ \E k \in DOMAIN log.records \ log.lost : log.records[k].id = 1074

\* What a start and a round conclude is there.
VerdictsAreBacked == NotPendingMeansLooked /\ UplinkIsHonest /\ IncidentIsBacked

\* Every check passes only on a machine whose runtime, rights, helper, processes,
\* update policy and restart indicators could all be asked and are as they should be,
\* on which a probe passes and the worker would find its phonebook entry or none, and
\* whose configuration and journal, as far as they can be read, load without a loss
\* and end in a whole record; then no check is graded above "info".
CleanBillIsEarned ==
    (told.what = "report" /\ AllOk(told.report)) =>
        LET m == told.from
        IN  /\ m.reachable /\ m.elevated /\ m.helper /\ m.processes_listed /\ m.policy_read
            /\ m.level = "protected" /\ m.unapplied = 0 /\ m.management = "unmanaged"
            /\ \A s \in Signals : Probe(m.registry, s) = "absent"
            /\ \E i \in DOMAIN m.probes : m.probes[i].enabled /\ RunOne(m.probes[i])
            /\ SelectEntry(OrEmpty(EnumEntries(m)), "none").ok
            /\ m.journal # "torn"
            /\ told.file.kind # "garbage"
            /\ told.file.kind = "document" => ~has_rejections(Load(told.file))
            /\ Worst(told.report) = "info"

\* Neither the runtime nor the doctor says what it has not seen.
ConclusionsAreSound == VerdictsAreBacked /\ CleanBillIsEarned

\* Repairing comes to an end: once nobody edits the file any more, it changes only
\* a few times, however often Guardian is started.
FileSettles == <>[][file' = file]_file

-----------------------------------------------------------------------------
(* What the documents say of the program and the code does not do.           *)

\* config.rs:7-8, model.rs:1120-1122, docs/architecture.md:181: a repair leaves the
\* fields that it does not know.  Those within a section are lost as soon as anything
\* else is repaired.
UnknownFieldsSurvive ==
    [][(Repair /\ told.what = "loaded" /\ file = told.from /\ file.kind = "document") =>
          file'.document.nested = file.document.nested]_startupVars

\* README.md:251: the doctor sweeps every subsystem; backend.rs:62: a session of an
\* entry is found if there is one.  But a phonebook that cannot be listed counts as
\* an empty one (doctor.rs:588), and sessions that cannot be listed count as none
\* (ras.rs:424-426).
NothingUnlistedIsAbsent ==
    /\ (told.what = "report" /\ AllOk(told.report)) => EnumEntries(told.from).ok
    /\ (told.what = "uplink" /\ told.entry # "none" /\ told.seen.link = "absent") =>
           EnumConnections(told.from).ok
=============================================================================
