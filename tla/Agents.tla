------------------------------- MODULE Agents -------------------------------
(***************************************************************************)
(* The agents worker: it sweeps over the processes of the machine, and     *)
(* turns what it saw into an inventory: agents, the sessions they belong   *)
(* to, and the builds that those sessions own.  Meanwhile processes start  *)
(* and exit, and Windows gives the number of one that exited to another.   *)
(***************************************************************************)
EXTENDS Signatures, FiniteSets, Functions, SequencesExt

CONSTANTS
    Pids,       \* process numbers
    Nobody,     \* the number 0, for a parent outside the snapshot
    Kinds,      \* what a process may be
    Texts,      \* the texts of each kind: its name, its path and its command line
    Recorder,   \* the adapter's file in which a process of each kind is recorded, or "none"
    Stamping,   \* the kinds whose record says when they were created
    MaxWorkloads, \* how many builds the inventory holds
    MaxBirths   \* bound on the processes that are started

ASSUME AgentsAssumption ==
    /\ IsFiniteSet(Pids) /\ Cardinality(Pids) <= 512 /\ Nobody \notin Pids
    /\ "none" \notin Kinds /\ DOMAIN Texts = Kinds
    /\ Recorder \in [Kinds -> {"claude_code", "grok", "none"}] /\ Stamping \subseteq Kinds
    /\ MaxWorkloads \in Nat \ {0}
    /\ MaxBirths \in Nat

VARIABLES
    live,       \* the process with each number, or NoProcess, and by whose birth it was started
    births,     \* the processes started so far; each has its turn as identity
    records,    \* the agents' own files: what each adapter finds under each number
    pc,         \* "idle", or "open" while a snapshot is being completed
    seen,       \* the snapshot
    todo,       \* the processes of the snapshot that are still to be opened
    at,         \* the one that has been opened and not yet asked for its time, or Nobody
    steady,     \* history: those that have been running since the snapshot of this sweep
    inventory   \* what set_agents got last

machine == <<live, births, records>>
sweep   == <<pc, seen, todo, at, steady>>
vars    == <<machine, sweep, inventory>>

NoProcess == [kind |-> "none", parent |-> Nobody, birth |-> 0, by |-> 0]
NotSeen   == [kind |-> "none", parent |-> Nobody, path |-> {}, command |-> {}, created |-> 0]
NoRecord  == [birth |-> 0, stamped |-> FALSE]
Nothing   == [agents |-> {}, workloads |-> {}, candidates |-> {}]

Running == {p \in Pids : live[p] # NoProcess}

-----------------------------------------------------------------------------
(* ProcessGraph, on the snapshot.                                            *)

Nodes == {p \in Pids : seen[p] # NotSeen}

Children(p) == {c \in Nodes : seen[c].parent = p /\ c # p}

\* What a breadth-first walk from one element of DOMAIN next meets: what is in every
\* set that holds the element and, with each of its elements, the next ones.
Reach(from, next) ==
    LET closed == {S \in SUBSET DOMAIN next : from \in S /\ \A y \in S : next[y] \subseteq S}
    IN  {x \in DOMAIN next : \A S \in closed : x \in S}

\* subtree: each process once; the limit of 512 is not reached.
Subtree(p) == Reach(p, [q \in Nodes |-> Children(q)])

Descendants(p) == Subtree(p) \ {p}

MAX_ANCESTRY_DEPTH == 64

\* The chains of parents above p, nearest first, without a process twice.
Lineages(p) ==
    {path \in BoundedSeq(Nodes, Cardinality(Pids)) :
        /\ Len(path) <= MAX_ANCESTRY_DEPTH
        /\ IsInjective(path)
        /\ \A i \in DOMAIN path :
              path[i] = seen[IF i = 1 THEN p ELSE path[i - 1]].parent
                /\ path[i] # IF i = 1 THEN p ELSE path[i - 1]}

\* ancestors: until a process is missing or was met before.
Ancestors(p) ==
    LET lineages == Lineages(p)
    IN  CHOOSE path \in lineages : \A other \in lineages : Len(other) <= Len(path)

\* A process is its own descendant when the number of an ancestor was used again.
Acyclic == \A p \in Nodes : \A c \in Children(p) : p \notin Subtree(c)

-----------------------------------------------------------------------------
(* What the engine knows of a process of the snapshot, and says of it.       *)

\* What is known of a process: the kind that its name gives away, and the path and
\* the command line that were read, each {} when it could not be.
Paths    == {{}} \cup {Texts[k].path : k \in Kinds}
Commands == {{}} \cup {Texts[k].command : k \in Kinds}
Looks    == Kinds \X Paths \X Commands
NoLook   == <<"none", {}, {}>>

TextsSeen(look) ==
    [name    |-> IF look[1] \in Kinds THEN Texts[look[1]].name ELSE {},
     path    |-> look[2],
     command |-> look[3]]

\* What can be known of the names of its children.
Broods == UNION {kSubset(n, Kinds) : n \in 0..Cardinality(Pids) - 1}

View(own, up, below) ==
    [self     |-> TextsSeen(own),
     parent   |-> TextsSeen(up),
     children |-> UNION {Texts[k].name : k \in below}]

Verdicts ==
    [own \in Looks |-> [up \in Looks \cup {NoLook} |-> [below \in Broods |->
        Inspect(View(own, up, below))]]]
Explanations ==
    [own \in Looks |-> [up \in Looks \cup {NoLook} |-> [below \in Broods |->
        Explain(View(own, up, below))]]]
Works == [own \in Looks |-> IsWorkload(View(own, NoLook, {}))]

\* However a process and its family look, there is one verdict: ids break all ties.
ASSUME VerdictAssumption ==
    /\ Verdicts \in [Looks -> [Looks \cup {NoLook} -> [Broods ->
         [id : Range(IdOrder) \cup {"none"}, conf : Unknown..Confirmed, score : Int]]]]
    /\ Explanations \in [Looks -> [Looks \cup {NoLook} -> [Broods ->
         SUBSET [id : Range(IdOrder) \cup {"none"}, score : Int,
                 why : {"excluded", "vetoed", "below", "matched"}]]]]
    /\ Works \in [Looks -> BOOLEAN]
    /\ \A own \in Looks, up \in Looks \cup {NoLook}, below \in Broods :
         LET look == View(own, up, below)
         IN  Hits(look) = {} \/ Best(Hits(look), look) \in Hits(look)

Own(p)    == <<seen[p].kind, seen[p].path, seen[p].command>>
Parent(p) == IF seen[p].parent \in Nodes THEN Own(seen[p].parent) ELSE NoLook
Below(p)  == {seen[c].kind : c \in Children(p)}

Verdict(p) == Verdicts[Own(p)][Parent(p)][Below(p)]

\* The processes that are taken for an agent, each with what it is taken for.
Matched == {d \in {[pid |-> p, is |-> Verdict(p)] : p \in Nodes} : d.is # NoVerdict}

Builds == {p \in Nodes : Works[Own(p)]}

\* collect_candidates: whatever earned a point.
Candidates ==
    UNION {{[pid |-> p, id |-> r.id, why |-> r.why] :
              r \in {e \in Explanations[Own(p)][Parent(p)][Below(p)] : e.score > 0}} : p \in Nodes}

-----------------------------------------------------------------------------
(* detect_agents, group_sessions_with_pids, build_inventory.                 *)

AtLeast(e, d) == e.is.conf > d.is.conf \/ (e.is.conf = d.is.conf /\ e.is.score >= d.is.score)

\* Mutant of Shadowed: whatever was launched will do.
ShadowedByAny(d, matched) == \E e \in matched : e.pid \in Descendants(d.pid)

\* A launcher is left out in favour of what it launched.
Shadowed(d, matched) == \E e \in matched : e.pid \in Descendants(d.pid) /\ AtLeast(e, d)

Detected ==
    LET matched == Matched
    IN  IF Cardinality(matched) < 2 THEN matched ELSE {d \in matched : ~Shadowed(d, matched)}

\* Mutant of Owner: the session is that of the parent.
OwnerIsParent(d, found) == seen[d.pid].parent

\* The session of an agent is that of its nearest ancestor that is as sure.
Owner(d, found) ==
    LET path == Ancestors(d.pid)
        owns == {i \in DOMAIN path : \E e \in found : e.pid = path[i] /\ e.is.conf >= d.is.conf}
    IN IF owns = {} THEN d.pid ELSE path[CHOOSE i \in owns : \A j \in owns : i <= j]

\* Mutant of Resume: the record under the number is believed.
ResumeByNumber(d) == records["claude_code"][d.pid]

\* Adapters.lookup: what the agent's file says of the number.  Only the file of Claude
\* Code tells processes with one number apart, and only when it has the time that the
\* recorded process was created and that of the process is known.  The file of Codex
\* gives no session to resume.
Resume(d) ==
    LET adapter == AdapterOf(d.is.id)
    IN  IF adapter \notin {"claude_code", "grok"} THEN NoRecord
        ELSE LET r == records[adapter][d.pid]
             IN  IF r.stamped /\ seen[d.pid].created # 0 /\ r.birth # seen[d.pid].created
                   THEN NoRecord ELSE r

Instances(found) ==
    {[pid |-> d.pid, id |-> d.is.id, conf |-> d.is.conf, root |-> Owner(d, found),
      created |-> seen[d.pid].created, command |-> seen[d.pid].command,
      resume |-> Resume(d)] : d \in found}

\* The sessions whose subtree a build is in.
Owners(b, roots) == {r \in roots : r # b /\ b \in Subtree(r)}

\* detect_workloads: an owned build counts at once, another one when it has run
\* for some time, which it may or may not have done.
Qualified(roots, aged) == {b \in Builds : Owners(b, roots) # {} \/ b \in aged}

\* sort_by_key and truncate: the builds started last remain, those of which the time
\* is not known before no other; among equals, any.
Truncated(builds) ==
    IF Cardinality(builds) <= MaxWorkloads THEN {builds}
    ELSE {kept \in kSubset(MaxWorkloads, builds) :
            \A k \in kept, b \in builds \ kept : seen[k].created >= seen[b].created}

\* Where sessions overlap, the first in the order of a hash map is recorded: here,
\* each of them.
Workloads(roots, kept) ==
    UNION {LET owners == Owners(b, roots)
           IN  {[pid |-> b, owner |-> o, created |-> seen[b].created] :
                  o \in IF owners # {} THEN owners ELSE {Nobody}} : b \in kept}

-----------------------------------------------------------------------------
Init ==
    /\ live = [p \in Pids |-> NoProcess] /\ births = 0
    /\ records = [a \in {"claude_code", "grok"} |-> [p \in Pids |-> NoRecord]]
    /\ pc = "idle" /\ seen = [p \in Pids |-> NotSeen] /\ todo = {} /\ at = Nobody /\ steady = {}
    /\ inventory = Nothing

\* What the files may hold after a process of kind k got number p.  Claude Code has a
\* file of its own for the number; Grok adds an entry without a time to a list, where
\* one of an earlier process with the number may come first.
Recorded(p, k, birth) ==
    CASE Recorder[k] = "claude_code" ->
           {[records EXCEPT !["claude_code"][p] = [birth |-> birth, stamped |-> k \in Stamping]]}
      [] Recorder[k] = "grok" ->
           {[records EXCEPT !["grok"][p] = [birth |-> b, stamped |-> FALSE]] :
               b \in {birth, records["grok"][p].birth} \ {0}}
      [] OTHER -> {records}

\* A process starts under a free number; it keeps the number of its creator for
\* ever.  An agent records its session.
Spawn ==
    /\ births < MaxBirths /\ births' = births + 1
    /\ \E p \in Pids \ Running, by \in {Nobody} \cup Running, k \in Kinds :
         /\ live' = [live EXCEPT ![p] = [kind |-> k, parent |-> by, birth |-> births + 1,
                                         by |-> IF by = Nobody THEN 0 ELSE live[by].birth]]
         /\ records' \in Recorded(p, k, births + 1)
    /\ UNCHANGED <<sweep, inventory>>

\* A process exits.  What it recorded stays.
Exit ==
    /\ \E p \in Running :
         /\ live' = [live EXCEPT ![p] = NoProcess]
         /\ steady' = steady \ {p}
    /\ UNCHANGED <<births, records, pc, seen, todo, at, inventory>>

\* CreateToolhelp32Snapshot: numbers, parents and names, all of one moment.
Snapshot ==
    /\ pc = "idle" /\ pc' = "open"
    /\ seen' = [p \in Pids |-> IF p \in Running
                  THEN [kind |-> live[p].kind, parent |-> live[p].parent,
                        path |-> {}, command |-> {}, created |-> 0]
                  ELSE NotSeen]
    /\ todo' = Running /\ steady' = Running
    /\ inventory' = Nothing
    /\ UNCHANGED <<machine, at>>

\* The snapshot cannot be taken: the inventory is empty, and marked unhealthy.
SnapshotFails ==
    /\ pc = "idle"
    /\ inventory' = Nothing
    /\ UNCHANGED <<machine, sweep>>

\* build_snapshot: the path and the command line are those of whatever has the number
\* now, if it can be opened; each may fail to be read.
Open ==
    /\ pc = "open" /\ at = Nobody
    /\ \E p \in todo :
         /\ todo' = todo \ {p} /\ at' = p
         /\ \/ UNCHANGED seen
            \/ /\ p \in Running
               /\ \E path \in {{}, Texts[live[p].kind].path},
                     command \in {{}, Texts[live[p].kind].command} :
                    seen' = [seen EXCEPT ![p].path = path, ![p].command = command]
    /\ UNCHANGED <<machine, pc, steady, inventory>>

\* query_creation_time opens the number again: the time, too, is that of whatever has
\* it now, if it can be read.
Stamp ==
    /\ pc = "open" /\ at # Nobody
    /\ at' = Nobody
    /\ \/ UNCHANGED seen
       \/ at \in Running /\ seen' = [seen EXCEPT ![at].created = live[at].birth]
    /\ UNCHANGED <<machine, pc, todo, steady, inventory>>

\* detect_agents, build_inventory, set_agents.
Publish ==
    /\ pc = "open" /\ todo = {} /\ at = Nobody
    /\ pc' = "idle"
    /\ LET agents == Instances(Detected)
           roots  == {i.root : i \in agents}
           others == Candidates
       IN  \E aged \in SUBSET Builds : \E kept \in Truncated(Qualified(roots, aged)) :
              inventory' = [agents |-> agents, candidates |-> others,
                            workloads |-> Workloads(roots, kept)]
    /\ seen' = [p \in Pids |-> NotSeen] /\ steady' = {}
    /\ UNCHANGED <<machine, todo, at>>

Next == Spawn \/ Exit \/ Snapshot \/ SnapshotFails \/ Open \/ Stamp \/ Publish

Spec == Init /\ [][Next]_vars

-----------------------------------------------------------------------------
(* Properties.                                                               *)

\* warrants_working: what keeps the machine in WORKING.
WarrantsWorking(inv) ==
    \/ \E i \in inv.agents : i.conf >= High
    \/ \E w \in inv.workloads : w.owner # Nobody

TypeOK ==
    /\ live \in [Pids -> [kind : Kinds \cup {"none"}, parent : {Nobody} \cup Pids,
                          birth : 0..MaxBirths, by : 0..MaxBirths]]
    /\ births \in 0..MaxBirths
    /\ records \in [{"claude_code", "grok"} -> [Pids -> [birth : 0..MaxBirths, stamped : BOOLEAN]]]
    /\ pc \in {"idle", "open"} /\ todo \subseteq Nodes /\ at \in {Nobody} \cup Nodes /\ steady \subseteq Running
    /\ seen \in [Pids -> [kind : Kinds \cup {"none"}, parent : {Nobody} \cup Pids,
                          path : Paths, command : Commands, created : 0..MaxBirths]]
    /\ \A i \in inventory.agents :
         i.pid \in Pids /\ i.root \in Pids /\ i.conf \in Unknown..Confirmed
    /\ \A w \in inventory.workloads : w.pid \in Pids

\* The running processes that started the one with number p.
Creators(p) == {r \in steady : live[p].by = live[r].birth}

\* The live process with number p was started, directly or not, by the one with
\* number q, and every process between them is still running.
Started(q, p) == q # p /\ q \in Reach(p, [r \in steady |-> Creators(r)])

Published == pc = "open" /\ pc' = "idle"

\* However launchers, agents and editors start each other, an agent that is known
\* by its name and keeps running during the sweep keeps the machine in WORKING.
RunningAgentWarrantsWorking ==
    [][Published /\ Acyclic /\ (\E p \in steady :
            Verdicts[<<live[p].kind, {}, {}>>][NoLook][{}].conf >= High)
         => WarrantsWorking(inventory')]_vars

\* What runs under an interpreter to serve an agent.
Helpers ==
    {k \in Kinds : \E r \in helper_vetoes :
        r.field = "command_line" /\ r.pattern \in Texts[k].command}

\* The built-in signatures, not replaced by the user, that an interpreter's name may match.
InterpreterIds ==
    {s.id : s \in {t \in signatures : NeedsHelperVetoes(t)}} \ {u.id : u \in UserSignatures}

\* Whatever agents its command line names, and whichever process had its number
\* before, a server of which the command line could be read is never counted as an
\* agent that is known as an interpreter with a package.
HelpersAreNoInterpretedAgents ==
    [][Published => \A i \in inventory'.agents :
          i.pid \in steady /\ i.command # {} /\ live[i.pid].kind \in Helpers
            => i.id \notin InterpreterIds]_vars

\* A build that an agent started, through processes that all kept running during
\* the sweep, is recorded at once as the agent's, unless as many builds as there may
\* be are recorded that started no earlier.  Agents that are only Possible protect nothing.
OwnedBuildsAreProtected ==
    [][Published => \A p \in steady :
          p \in Builds
            /\ (\E i \in inventory'.agents : i.conf >= High /\ i.pid \in steady /\ Started(i.pid, p))
          => \/ \E w \in inventory'.workloads : w.pid = p /\ w.owner # Nobody
             \/ /\ Cardinality({w.pid : w \in inventory'.workloads}) = MaxWorkloads
                /\ \A w \in inventory'.workloads : w.created >= seen[p].created]_vars

\* What agents do while nobody watches is protected: themselves and their builds.
WorkIsProtected == RunningAgentWarrantsWorking /\ OwnedBuildsAreProtected

\* A session that is offered for a process that was running all the time, from a
\* record that has a start time, is its own, and not one that an earlier process with
\* its number has left behind, if the process's own could be read.
ResumeIsOwn ==
    [][Published => \A i \in inventory'.agents :
          i.pid \in steady /\ i.created # 0 /\ i.resume.stamped
            => i.resume.birth = live[i.pid].birth]_vars

-----------------------------------------------------------------------------
(* The inductive invariant behind them.                                      *)

\* Births identify processes, and a creator that is alive still has the number
\* that its child remembers.
BirthsIdentify ==
    /\ \A p \in Running :
         live[p].kind \in Kinds /\ live[p].birth \in 1..births /\ live[p].by < live[p].birth
    /\ \A p, q \in Running :
         /\ live[p].birth = live[q].birth => p = q
         /\ live[p].by = live[q].birth => live[p].parent = q

\* The snapshot tells the truth about the processes that were running all the time,
\* and of every process at least what it was; there is none between the sweeps.
SnapshotIsTrue ==
    /\ pc = "idle" => Nodes = {}
    /\ \A p \in Nodes : seen[p].kind \in Kinds
    /\ pc = "open" => \A p \in steady :
         /\ p \in Nodes /\ seen[p].kind = live[p].kind /\ seen[p].parent = live[p].parent
         /\ seen[p].path \in {{}, Texts[live[p].kind].path}
         /\ seen[p].command \in {{}, Texts[live[p].kind].command}
         /\ seen[p].created \in {0, live[p].birth}

IInv == TypeOK /\ BirthsIdentify /\ SnapshotIsTrue

\* What RunningAgentWarrantsWorking takes of the signatures: who is known by its name
\* alone is no less known when more is seen of it.  One that is capped at Possible and
\* outscores another's, or vetoes what it matched, may break it.
LooksOnlyAdd ==
    \A own \in Looks : Verdicts[<<own[1], {}, {}>>][NoLook][{}].conf >= High =>
        \A up \in Looks \cup {NoLook}, below \in Broods : Verdicts[own][up][below].conf >= High

-----------------------------------------------------------------------------
(* What the documents say of the program and the code does not do.           *)

\* docs/agent-detection.md:34: Possible never blocks a shutdown.
PossibleNeverBlocks ==
    WarrantsWorking(inventory) => \E i \in inventory.agents : i.conf >= High

\* README.md:197, builtins.rs:106-108: an agent's helper is never counted as an agent.
\* The vetoes are those of signatures with an interpreter's name only: a server that
\* carries the package of another agent is counted as that one.
HelpersAreNoAgents ==
    [][Published => \A i \in inventory'.agents :
          i.pid \in steady => live[i.pid].kind \notin Helpers]_vars

\* adapters.rs:86-88, :218-221: no session of an earlier process with the number is offered.
\* Grok's file is searched for the number only, and a record may lack its start time.
AnyResumeIsOwn ==
    [][Published => \A i \in inventory'.agents :
          i.pid \in steady /\ i.created # 0 /\ i.resume # NoRecord
            => i.resume.birth = live[i.pid].birth]_vars

\* graph.rs:13-16: a loop in the graph only shortens the list of ancestors.
AgentIsNeverLost ==
    pc = "open" /\ todo = {} /\ at = Nobody /\ Matched # {} => Detected # {}

\* process.rs:179-182: the number and the creation time identify the process that
\* was detected.
IdentityIsDetected ==
    [][Published => \A i \in inventory'.agents :
          i.pid \in Running /\ i.created = live[i.pid].birth => live[i.pid].kind = seen[i.pid].kind]_vars

=============================================================================
