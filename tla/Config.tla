------------------------------- MODULE Config -------------------------------
(***************************************************************************)
(* What becomes of a configuration document when it is loaded: moved to    *)
(* the schema of this build, brought within bounds, and rid of the probes, *)
(* signatures and workload rules that cannot be used.  A document is never *)
(* refused as a whole; one that does not parse gives the defaults.         *)
(***************************************************************************)
EXTENDS Lists, SequencesExt

CONSTANTS
    MaxProbes,      \* MAX_PROBES
    MaxSignatures,  \* MAX_USER_SIGNATURES
    MaxVetoes       \* the veto rules a signature keeps

\* No document names a larger number.
Huge == 1000000

ASSUME ConfigAssumption ==
    MaxProbes \in Nat \ {0} /\ MaxSignatures \in Nat /\ MaxVetoes \in Nat

\* The numbers of the configuration, with their bounds.
Bounds ==
    [verify_interval_secs         |-> <<30, 3600>>,
     check_interval_secs          |-> <<5, 300>>,
     failure_quorum               |-> <<1, Huge>>,
     success_quorum               |-> <<1, Huge>>,
     stabilize_secs               |-> <<5, Huge>>,
     sweep_interval_secs          |-> <<1, 300>>,
     fallback_poll_interval_secs  |-> <<1, Huge>>,
     reboot_token_ttl_secs        |-> <<60, 14400>>,
     journal_max_kib              |-> <<256, Huge>>,
     max_files                    |-> <<1, 64>>]
Numbers == DOMAIN Bounds

CONFIG_SCHEMA_VERSION == 1

default_probes == <<[id |-> "alidns-tcp", valid |-> TRUE, timeout_ms |-> 3000, enabled |-> TRUE]>>

\* ConfigDocument::default
DefaultDocument ==
    [schema_version |-> CONFIG_SCHEMA_VERSION,
     protect |-> TRUE, refuse_with_protected_work |-> TRUE, override_phrase |-> "set",
     numbers |->
        [verify_interval_secs |-> 120, check_interval_secs |-> 20, failure_quorum |-> 1,
         success_quorum |-> 1, stabilize_secs |-> 120, sweep_interval_secs |-> 5,
         fallback_poll_interval_secs |-> 3, reboot_token_ttl_secs |-> 1800,
         journal_max_kib |-> 4096, max_files |-> 8],
     max_total_kib |-> 16384,
     probes |-> default_probes, user_signatures |-> <<>>, user_workload_rules |-> <<>>,
     data_dir |-> "none", level |-> "info", unknown |-> {}, nested |-> {}]

\* What serde makes of a document: a field that it does not know is kept when it
\* stands beside the sections, and dropped within one, or within an entry of a list.
Parsed(doc) == [doc EXCEPT !.nested = {}]

\* migrate: a newer document is left as it is.
Migrated(doc) ==
    IF doc.schema_version > CONFIG_SCHEMA_VERSION
      THEN doc ELSE [doc EXCEPT !.schema_version = CONFIG_SCHEMA_VERSION]

-----------------------------------------------------------------------------
(* Numbers.                                                                  *)

AtLeast(n, floor) == IF n < floor THEN floor ELSE n
AtMost(n, ceiling) == IF n > ceiling THEN ceiling ELSE n

Clamped(n, bounds) == AtMost(AtLeast(n, bounds[1]), bounds[2])

ClampedNumbers(numbers) == [f \in Numbers |-> Clamped(numbers[f], Bounds[f])]

\* Every log file that is kept has 4 KiB.
RoomForLogs(total, numbers) == AtLeast(total, numbers.max_files * 4)

\* One issue of a field, when there is cause for it.
Issue(cause, field, severity) == IF cause THEN {<<field, severity>>} ELSE {}

NumberIssues(doc) ==
    {<<f, "corrected">> : f \in {g \in Numbers : doc.numbers[g] # Clamped(doc.numbers[g], Bounds[g])}}
    \cup Issue(doc.max_total_kib # RoomForLogs(doc.max_total_kib, ClampedNumbers(doc.numbers)),
               "max_total_kib", "corrected")

-----------------------------------------------------------------------------
(* Lists.                                                                    *)

\* The members of a list, each id once, in their order; those that cannot be used
\* are dropped before and do not count.
FirstOfEach(list) ==
    Picked(list, {i \in DOMAIN list : \A j \in 1..(i - 1) : list[j].id # list[i].id})

Truncated(list, max) == SubSeq(list, 1, AtMost(Len(list), max))

\* A pattern has the length, the largest repetition, the nesting, and a verdict
\* of the regex compiler.
validate_pattern(p) ==
    /\ p.length \in 1..512
    /\ p.bound <= 1000
    /\ p.nesting <= 8
    /\ p.compiles

\* A probe has an id and a target its kind can take.
GoodProbe(p) == p.id # "" /\ p.valid

\* timeout_ms is clamped when it is 0 or over 30 s, and only then.
RepairedProbe(p) ==
    IF p.timeout_ms = 0 \/ p.timeout_ms > 30000
      THEN [p EXCEPT !.timeout_ms = Clamped(p.timeout_ms, <<250, 30000>>)] ELSE p

\* validate_network: an empty list becomes the default one, before what cannot
\* be used is dropped.
FilledProbes(probes) == IF probes = <<>> THEN default_probes ELSE probes
KeptProbes(probes) ==
    LET some == Truncated(FilledProbes(probes), MaxProbes)
    IN  FirstOfEach(Picked(some, {i \in DOMAIN some : GoodProbe(some[i])}))
RepairedProbes(probes) ==
    [i \in DOMAIN KeptProbes(probes) |-> RepairedProbe(KeptProbes(probes)[i])]

Accepted(patterns) == Picked(patterns, {i \in DOMAIN patterns : validate_pattern(patterns[i])})

\* validate_signature: patterns that are not accepted leave their lists.
RepairedSignature(s) ==
    [id |-> s.id, any_of |-> Accepted(s.any_of), all_of |-> Accepted(s.all_of),
     none_of |-> Truncated(Accepted(s.none_of), MaxVetoes),
     display_name |-> IF s.display_name = "" THEN s.id ELSE s.display_name,
     user_defined |-> TRUE]

\* Mutant of GoodSignature: the rules are counted before they are validated.
GoodAsWritten(s) == s.id # "" /\ (s.any_of # <<>> \/ s.all_of # <<>>)

\* A signature without a positive rule could never match.
GoodSignature(s) ==
    /\ s.id # ""
    /\ RepairedSignature(s).any_of # <<>> \/ RepairedSignature(s).all_of # <<>>

KeptSignatures(signatures) ==
    LET some == Truncated(signatures, MaxSignatures)
    IN  FirstOfEach(Picked(some, {i \in DOMAIN some : GoodSignature(some[i])}))
RepairedSignatures(signatures) ==
    [i \in DOMAIN KeptSignatures(signatures) |-> RepairedSignature(KeptSignatures(signatures)[i])]

\* A workload rule has an id and accepted patterns.
GoodRule(r) == r.id # "" /\ \A p \in r.patterns : validate_pattern(p)

RepairedRules(rules) == FirstOfEach(Picked(rules, {i \in DOMAIN rules : GoodRule(rules[i])}))

ProbeIssues(probes) ==
    LET filled == FilledProbes(probes)
        truncated == Truncated(filled, MaxProbes)
        kept == KeptProbes(probes)
    IN  Issue(probes = <<>>, "probes", "warning")
        \cup Issue(truncated # filled, "probes", "corrected")
        \cup Issue(kept # truncated, "probes", "rejected")
        \cup Issue(RepairedProbes(probes) # kept, "probes", "corrected")
        \cup Issue(\A i \in DOMAIN kept : ~kept[i].enabled, "probes", "warning")

\* Rules that a signature loses.
LosesRule(s) ==
    \E list \in {s.any_of, s.all_of, s.none_of} : \E i \in DOMAIN list : ~validate_pattern(list[i])

SignatureIssues(signatures) ==
    LET truncated == Truncated(signatures, MaxSignatures)
    IN  Issue(truncated # signatures, "user_signatures", "corrected")
        \cup Issue(\E s \in ToSet(truncated) : s.id # "" /\ s.display_name = "",
                   "user_signatures", "corrected")
        \cup Issue(\E s \in ToSet(truncated) : s.id # "" /\ LosesRule(s), "user_signatures", "rejected")
        \cup Issue(\E s \in ToSet(truncated) :
                       s.id # "" /\ Len(Accepted(s.none_of)) > MaxVetoes,
                   "user_signatures", "corrected")
        \cup Issue(Len(RepairedSignatures(signatures)) < Len(truncated), "user_signatures", "rejected")

ListIssues(doc) ==
    ProbeIssues(doc.probes) \cup SignatureIssues(doc.user_signatures)
    \cup Issue(RepairedRules(doc.user_workload_rules) # doc.user_workload_rules,
               "user_workload_rules", "rejected")

-----------------------------------------------------------------------------
(* The whole document.                                                       *)

\* validate_storage: only a rooted local path, or a share, without "..".
RepairedDir(dir) == IF dir \in {"local", "share"} THEN dir ELSE "none"

\* validate_logging: a level is one of five words, in any case.
Levels == {"error", "warn", "info", "debug", "trace"}

\* Mutant of RepairedLevel: the two spellings of a level are exchanged.
RespelledLevel(level) ==
    CASE level = "debug" -> " DEBUG" [] level = " DEBUG" -> "debug"
      [] level \in Levels \ {"debug"} -> level [] OTHER -> "info"

\* What becomes of one.
RepairedLevel(level) ==
    CASE level \in Levels -> level [] level = " DEBUG" -> "debug" [] OTHER -> "info"

\* Fields that are not numbers or lists; a choice against protection only warns.
ChoiceIssues(doc) ==
    Issue(~doc.protect, "protect", "warning")
    \cup Issue(~doc.refuse_with_protected_work, "refuse_with_protected_work", "warning")
    \cup Issue(doc.override_phrase = "blank", "override_phrase", "corrected")
    \cup Issue(doc.data_dir = "blank", "data_dir", "corrected")
    \cup Issue(doc.data_dir \notin {"none", "blank", "local", "share"}, "data_dir", "rejected")
    \cup Issue(doc.level \notin Levels \cup {" DEBUG"}, "level", "rejected")

\* validate: what it makes of a document.  The choice of protection stands.
Validated(doc) ==
    [doc EXCEPT !.schema_version = CONFIG_SCHEMA_VERSION,
                !.numbers = ClampedNumbers(@),
                !.max_total_kib = RoomForLogs(@, ClampedNumbers(doc.numbers)),
                !.override_phrase = "set",
                !.probes = RepairedProbes(@),
                !.user_signatures = RepairedSignatures(@),
                !.user_workload_rules = RepairedRules(@),
                !.data_dir = RepairedDir(@),
                !.level = RepairedLevel(@)]

Issues(doc) == NumberIssues(doc) \cup ListIssues(doc) \cup ChoiceIssues(doc)

\* load_from_str, of a text that holds a document or does not parse.  What parsing
\* drops is no change: validate compares what was parsed with what it made of it.
Load(text) ==
    IF text.kind = "document"
      THEN LET doc == Migrated(Parsed(text.document))
           IN  [document |-> Validated(doc), issues |-> Issues(doc), changed |-> Validated(doc) # doc]
      ELSE [document |-> Validated(DefaultDocument),
            issues |-> Issues(DefaultDocument) \cup {<<"<document>", "rejected">>},
            changed |-> Validated(DefaultDocument) # DefaultDocument]

has_rejections(loaded) == \E i \in loaded.issues : i[2] = "rejected"
=============================================================================
