------------------------------- MODULE Doctor -------------------------------
(***************************************************************************)
(* The report of "guardianctl doctor": what each of its checks concludes   *)
(* from what the machine answers.  A machine is a record; its links are    *)
(* read as in Links, its registry as in Evidence and its configuration as  *)
(* in Config.  The report is the set of its checks.                        *)
(***************************************************************************)
EXTENDS Config, Evidence, Links

\* A check, and one of several checks of the same name.
Check(id, ok, severity) == [id |-> <<id>>, ok |-> ok, severity |-> severity]
CheckOf(id, part, ok, severity) == [id |-> <<id, part>>, ok |-> ok, severity |-> severity]

\* Most checks say "info" when they pass.
Plain(id, ok, otherwise) == Check(id, ok, IF ok THEN "info" ELSE otherwise)

\* service_checks
ServiceChecks(machine) ==
    {Plain("runtime.reachable", machine.reachable, "error"),
     Plain("process.elevation", machine.elevated, "error"),
     Plain("helper.present", machine.processes_listed /\ machine.helper, "warning"),
     Check("runtime.installation", TRUE, "info")}

\* update_checks
UpdateChecks(machine) ==
    LET level == machine.level
        protection ==
            IF machine.policy_read
              THEN {Check("update.protection", level = "protected",
                          CASE level = "protected" -> "info"
                            [] level = "degraded" -> "warning" [] OTHER -> "error")}
                   \cup (IF machine.unapplied > 0
                           THEN {Check("update.unapplied", FALSE, "warning")} ELSE {})
              ELSE {Check("update.protection", FALSE, "error")}
    IN  protection
        \cup (IF machine.management # "unmanaged"
                THEN {Check("update.externally_managed", FALSE, "warning")} ELSE {})
        \cup {CheckOf("update.policy_manager", d, FALSE, "warning") : d \in machine.management_detail}

\* pending_reboot_checks
RebootChecks(machine) ==
    LET readings == Collected(machine.registry)
    IN  {Plain("reboot.pending", ClassifySignals(readings) = "not_pending", "warning")}
        \cup {CheckOf("reboot.signal", s, FALSE, IF readings[s] = "failed" THEN "warning" ELSE "info") :
                  s \in {t \in Signals : readings[t] # "absent"}}

\* network_checks, with the probes of the default configuration.  A phonebook that
\* cannot be listed has no entries, and a wireless service that does not answer has
\* no adapter.
NetworkChecks(machine) ==
    LET entries == OrEmpty(EnumEntries(machine))
        results == RunRound(machine.probes)
        passed == Passed(results)
    IN  {Check("network.ras_entries", TRUE, "info"),
         Check("network.connectivity", passed > 0,
               IF passed = Len(results) /\ passed > 0 THEN "info"
               ELSE IF passed > 0 THEN "warning" ELSE "error"),
         Check("network.wifi", TRUE, "info")}
        \cup (IF entries # <<>>
                THEN {Plain("network.entry_selection", SelectEntry(entries, "none").ok, "warning")} ELSE {})
        \cup {CheckOf("network.probe", i, results[i], IF results[i] THEN "info" ELSE "warning") : i \in DOMAIN results}

\* monitor_checks
MonitorChecks(machine) ==
    IF ~machine.processes_listed THEN {Check("monitor.enumeration", FALSE, "error")}
    ELSE {Check("monitor.enumeration", TRUE, "info")}
         \cup (IF machine.rejected_rules > 0
                 THEN {Check("monitor.rejected_rules", FALSE, "warning")} ELSE {})
         \cup {CheckOf("monitor.agent", pid, TRUE, "info") : pid \in machine.agents}

\* The check of the configuration: whatever keeps it from being read, the file
\* counts as absent.
ConfigCheck(file) ==
    IF file.kind \in {"absent", "unreadable"} THEN Check("storage.config", TRUE, "info")
    ELSE Plain("storage.config", ~has_rejections(Load(file)), "warning")

\* storage_checks: a journal that cannot be read is not torn, and a log directory
\* that cannot be read is empty.
StorageChecks(machine, file) ==
    {Plain("storage.root", machine.writable, "error"),
     ConfigCheck(file),
     Plain("storage.journal", machine.journal # "torn", "warning"),
     Plain("logging.size", machine.log_size < 64, "warning")}

\* build_report
BuildReport(machine, file) ==
    ServiceChecks(machine) \cup UpdateChecks(machine) \cup RebootChecks(machine)
    \cup NetworkChecks(machine) \cup MonitorChecks(machine) \cup StorageChecks(machine, file)

\* HealthReport::all_ok and HealthReport::worst
AllOk(report) == \A c \in report : c.ok
Worst(report) ==
    IF \E c \in report : c.severity = "error" THEN "error"
    ELSE IF \E c \in report : c.severity = "warning" THEN "warning" ELSE "info"
=============================================================================
