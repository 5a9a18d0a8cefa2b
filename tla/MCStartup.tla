------------------------------ MODULE MCStartup ------------------------------
(* Documents that each differ from the default one in one respect, machines  *)
(* that each fail one check of the doctor, and sessions that ended in every  *)
(* way the classification tells apart.                                       *)
EXTENDS Startup

Doc(doc) == Document(doc)
D == DefaultDocument

\* Two spellings of one name.
FoldedName(name) == IF name = "DSL" THEN "dsl" ELSE name

AnyWord == STRING

TcpAt(id, valid, timeout, enabled) ==
    [id |-> id, valid |-> valid, timeout_ms |-> timeout, enabled |-> enabled]

Fine == [length |-> 8, bound |-> 0, nesting |-> 0, compiles |-> TRUE]
Long == [Fine EXCEPT !.length = 513]
Deep == [Fine EXCEPT !.nesting = 9]
Wild == [Fine EXCEPT !.bound = 1001]
Broken == [Fine EXCEPT !.compiles = FALSE]

Signature(id, any, all, none, name) ==
    [id |-> id, any_of |-> any, all_of |-> all, none_of |-> none,
     display_name |-> name, user_defined |-> TRUE]

Documents ==
    {D,
     [D EXCEPT !.schema_version = 0, !.nested = {"newer"}],
     [D EXCEPT !.schema_version = 2, !.unknown = {"new"}, !.nested = {"newer"}],
     [D EXCEPT !.numbers.verify_interval_secs = 0, !.numbers.failure_quorum = 0,
               !.numbers.sweep_interval_secs = Huge, !.numbers.reboot_token_ttl_secs = Huge,
               !.unknown = {"new"}, !.nested = {"newer"}],
     [D EXCEPT !.numbers.max_files = 0, !.max_total_kib = 1],
     [D EXCEPT !.probes = <<TcpAt("a", FALSE, 3000, TRUE)>>],
     [D EXCEPT !.probes = <<TcpAt("a", TRUE, 0, TRUE), TcpAt("a", TRUE, 99999, TRUE)>>],
     [D EXCEPT !.probes = <<TcpAt("a", TRUE, 100, FALSE), TcpAt("", TRUE, 100, TRUE)>>],
     [D EXCEPT !.probes = <<TcpAt("a", TRUE, 3000, TRUE), TcpAt("b", TRUE, 3000, TRUE),
                          TcpAt("c", TRUE, 3000, TRUE), TcpAt("d", TRUE, 3000, TRUE)>>],
     [D EXCEPT !.user_signatures = <<Signature("s", <<Fine>>, <<>>, <<Long>>, "n"),
                                     [Signature("s", <<Fine>>, <<>>, <<>>, "m") EXCEPT !.user_defined = FALSE]>>],
     [D EXCEPT !.user_signatures = <<Signature("s", <<Broken>>, <<Deep>>, <<>>, "n"),
                                     [Signature("t", <<Wild>>, <<Fine>>, <<Fine, Fine, Fine>>, "") EXCEPT !.user_defined = FALSE]>>],
     [D EXCEPT !.user_workload_rules = <<[id |-> "r", patterns |-> {Fine}],
                                         [id |-> "r", patterns |-> {Fine}],
                                         [id |-> "q", patterns |-> {Fine, Broken}]>>],
     [D EXCEPT !.protect = FALSE, !.override_phrase = "blank", !.data_dir = "blank", !.level = " DEBUG"],
     [D EXCEPT !.data_dir = "relative", !.level = "bogus"],
     [D EXCEPT !.data_dir = "local", !.refuse_with_protected_work = FALSE]}

SomeFiles ==
    {Doc(d) : d \in Documents} \cup {[kind |-> k] : k \in {"absent", "unreadable", "garbage"}}

-----------------------------------------------------------------------------
NoKeys == [keys |-> [k \in {SignalKey[s] : s \in Signals} |->
                        IF k \in {"RebootPending", "RebootRequired", "PostRebootReporting"}
                          THEN "missing" ELSE "ok"],
           values |-> [s \in Signals |-> "absent"]]

SomeRegistries ==
    {NoKeys,
     [NoKeys EXCEPT !.keys["RebootPending"] = "ok"],
     [NoKeys EXCEPT !.keys["PostRebootReporting"] = "ok"],
     [NoKeys EXCEPT !.keys["RebootRequired"] = "denied"],
     [NoKeys EXCEPT !.keys["Session Manager"] = "denied"],
     [NoKeys EXCEPT !.values["sm_pending_file_rename"] = "failed"],
     [NoKeys EXCEPT !.values["wu_ux_schedule_reboot"] = "present"],
     [NoKeys EXCEPT !.values["sm_pending_file_rename"] = "present",
                    !.values["sm_pending_rename_operations"] = "present"]}

Target(answers) == [kind |-> "tcp", addresses |-> answers, takes |-> 1, enabled |-> TRUE]

Well ==
    [phonebook |-> "some", entries |-> <<[name |-> "dsl", broadband |-> TRUE]>>,
     rasman |-> "running", connections |-> <<>>, wlan |-> "running", interfaces |-> <<>>,
     route |-> TRUE, probes |-> <<Target(<<TRUE>>), Target(<<FALSE, TRUE>>)>>,
     reachable |-> TRUE, elevated |-> TRUE, helper |-> TRUE, processes_listed |-> TRUE,
     policy_read |-> TRUE, level |-> "protected", unapplied |-> 0,
     management |-> "unmanaged", management_detail |-> {}, registry |-> NoKeys,
     rejected_rules |-> 0, agents |-> {1}, writable |-> TRUE, journal |-> "whole", log_size |-> 1]

Session(entry, address, readable) ==
    [entry |-> entry, state |-> "Connected", projected |-> TRUE, address |-> address,
     readable |-> readable, stuck |-> FALSE]

Card(connected, ssid, profiles) ==
    [connected |-> connected, ssid |-> ssid, profiles |-> profiles, refused |-> {},
     radio_read |-> TRUE, radios |-> <<[software |-> TRUE, hardware |-> TRUE]>>]

Linked == [Well EXCEPT !.connections = <<Session("vpn", "10.0.0.1", TRUE), Session("dsl", "10.0.0.2", TRUE)>>]

SomeMachines ==
    {Well, Linked,
     [Linked EXCEPT !.route = FALSE],
     [Linked EXCEPT !.connections[2].entry = "DSL", !.connections[1].stuck = TRUE],
     [Linked EXCEPT !.entries[1].name = "DSL", !.connections[2].readable = FALSE],
     [Linked EXCEPT !.connections[2].address = "0.0.0.0", !.connections[2].stuck = TRUE],
     [Linked EXCEPT !.connections[2].projected = FALSE, !.interfaces = <<Card(TRUE, "home", {"home"})>>],
     [Linked EXCEPT !.rasman = "failing", !.interfaces = <<Card(FALSE, "none", {})>>],
     [Linked EXCEPT !.connections = @ \o <<Session("dsl", "", TRUE)>>],
     [Well EXCEPT !.interfaces = <<Card(FALSE, "none", {}), Card(TRUE, "none", {})>>],
     [Well EXCEPT !.probes[1].takes = 9],
     [Well EXCEPT !.reachable = FALSE, !.writable = FALSE],
     [Well EXCEPT !.elevated = FALSE],
     [Well EXCEPT !.helper = FALSE],
     [Well EXCEPT !.processes_listed = FALSE],
     [Well EXCEPT !.policy_read = FALSE],
     [Well EXCEPT !.level = "degraded", !.unapplied = 1],
     [Well EXCEPT !.management = "domain", !.management_detail = {"wsus"}],
     [Well EXCEPT !.registry.keys["Session Manager"] = "denied"],
     [Well EXCEPT !.registry.values["wu_ux_schedule_reboot"] = "present"],
     [Well EXCEPT !.entries = <<>>, !.wlan = "stopped"],
     [Well EXCEPT !.phonebook = "failing", !.journal = "unreadable"],
     [Well EXCEPT !.entries = <<[name |-> "a", broadband |-> TRUE], [name |-> "b", broadband |-> TRUE]>>],
     [Well EXCEPT !.probes = <<Target(<<>>), Target(<<FALSE, FALSE, TRUE>>)>>],
     [Well EXCEPT !.probes = <<Target(<<TRUE>>), Target(<<FALSE>>)>>],
     [Well EXCEPT !.rejected_rules = 1, !.log_size = 64],
     [Well EXCEPT !.journal = "torn"]}

-----------------------------------------------------------------------------
(* The machine came up at minute 100 and is looked at two minutes later.     *)

Record(provider, id, at, inserts) == [provider |-> provider, id |-> id, at |-> at, inserts |-> inserts]

Asked == Record("User32", 1074, 98, <<"The process", "reason">>)
ByUpdate == Record("User32", 1074, 98, <<"The process", "Windows Update">>)
Power == Record("Kernel-Power", 41, 101, <<>>)
Started == Record("EventLog", 6005, 101, <<>>)
Stopped == Record("EventLog", 6006, 99, <<"EventLog">>)
Dirty == Record("EventLog", 6008, 101, <<"EventLog", "when">>)
Seen == Record("User32", 1074, 97, <<"User32", "Windows Update">>)
Old == Record("User32", 1074, 60, <<"User32">>)

LogOf(records) == [opens |-> TRUE, records |-> records, lost |-> {}]

Busy == [agents |-> {[confidence |-> "high"], [confidence |-> "low"]}, jobs |-> 0,
         consumed |-> TRUE, network |-> "wifi"]
Idle == [agents |-> {[confidence |-> "low"]}, jobs |-> 0, consumed |-> FALSE, network |-> "none"]

Killed(checkpoint) == [clean |-> FALSE, boot |-> 1, checkpoint |-> checkpoint, truncated |-> FALSE]

Past(log, previous) == [log |-> log, previous |-> previous, now |-> 102 * 60000, uptime |-> 2 * 60000]

SomePasts ==
    {Past(LogOf(<<Asked, Started>>), Killed({Busy})),
     Past(LogOf(<<Old, Seen, ByUpdate, Stopped, Started>>), Killed({Idle})),
     Past(LogOf(<<Power, Dirty>>), Killed({Idle})),
     Past(LogOf(<<Stopped, Started>>), Killed({})),
     Past(LogOf(<<Old, Started>>), [Killed({Idle}) EXCEPT !.truncated = TRUE]),
     Past([LogOf(<<Asked>>) EXCEPT !.lost = {1}], Killed({Busy})),
     Past([LogOf(<<Asked>>) EXCEPT !.opens = FALSE], Killed({Idle})),
     Past(LogOf(<<Asked>>), [Killed({Idle}) EXCEPT !.clean = TRUE]),
     Past(LogOf(<<Asked>>), [Killed({Idle}) EXCEPT !.boot = 6000]),
     [Past(LogOf(<<Asked>>), [Killed({Idle}) EXCEPT !.boot = 6000]) EXCEPT !.uptime = @ + 1]}

SomeLogDirs == {<<>>, <<3, 3>>}
=============================================================================
