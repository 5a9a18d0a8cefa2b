----------------------------- MODULE AgentsProofs -----------------------------
(***************************************************************************)
(* Proofs about Agents for every number of processes, every kind of        *)
(* process and every set of signatures.                                    *)
(***************************************************************************)
EXTENDS Agents, FiniteSetTheorems, WellFoundedInduction, TLAPS

-----------------------------------------------------------------------------
(* Least and greatest numbers.                                               *)

LEMMA LeastNumber ==
  ASSUME NEW S, S \subseteq Nat, S # {}
  PROVE  \E i \in S : \A j \in S : i <= j
<1>1. PICK x \in S : \A y \in S : ~(<<y, x>> \in OpToRel(<, Nat))
  BY WFMin, NatLessThanWellFounded, Zenon
<1>2. ASSUME NEW y \in S PROVE x <= y
  <2>1. x \in Nat /\ y \in Nat
    OBVIOUS
  <2>2. ~(y < x)
    BY <1>1, <2>1 DEF OpToRel
  <2> QED BY <2>1, <2>2
<1> QED BY <1>2

LEMMA GreatestNumber ==
  ASSUME NEW S, NEW n \in Nat, S \subseteq 0 .. n, S # {}
  PROVE  \E i \in S : \A j \in S : j <= i
<1> DEFINE Co == {k \in 0 .. n : n - k \in S}
<1>1. \A j \in S : n - j \in Co
  OBVIOUS
<1>2. PICK x \in Co : \A y \in Co : x <= y
  <2>1. PICK j \in S : TRUE
    OBVIOUS
  <2>2. n - j \in Co /\ Co \subseteq Nat
    BY <1>1
  <2> HIDE DEF Co
  <2> QED BY <2>2, LeastNumber
<1> QED BY <1>1, <1>2

-----------------------------------------------------------------------------
(* What a breadth-first walk meets.                                          *)

LEMMA ReachSelf ==
  ASSUME NEW next, NEW a \in DOMAIN next
  PROVE  a \in Reach(a, next)
BY DEF Reach

LEMMA ReachNext ==
  ASSUME NEW next, NEW a, NEW b \in Reach(a, next), NEW c \in next[b], c \in DOMAIN next
  PROVE  c \in Reach(a, next)
BY DEF Reach

LEMMA ReachTrans ==
  ASSUME NEW next, NEW a, NEW b \in Reach(a, next)
  PROVE  Reach(b, next) \subseteq Reach(a, next)
BY DEF Reach

\* A set that is closed under the walk and holds its start holds what it meets.
LEMMA ReachIn ==
  ASSUME NEW next, NEW S \in SUBSET DOMAIN next, NEW a \in S,
         \A y \in S : next[y] \subseteq S
  PROVE  Reach(a, next) \subseteq S
BY DEF Reach

\* What is met, other than the start, is met from one of the start's next.
LEMMA ReachFirst ==
  ASSUME NEW next, NEW a \in DOMAIN next, \A y \in DOMAIN next : next[y] \subseteq DOMAIN next,
         NEW b \in Reach(a, next), b # a
  PROVE  \E c \in next[a] : b \in Reach(c, next)
<1> DEFINE S == {x \in DOMAIN next : x = a \/ \E c \in next[a] : x \in Reach(c, next)}
<1>1. ASSUME NEW y \in S, NEW x \in next[y] PROVE x \in S
  <2>1. x \in DOMAIN next
    OBVIOUS
  <2>2. CASE y = a
    BY <2>1, <2>2, ReachSelf
  <2>3. CASE \E c \in next[a] : y \in Reach(c, next)
    BY <2>1, <2>3, ReachNext
  <2> QED BY <2>2, <2>3
<1>2. Reach(a, next) \subseteq S
  <2>1. S \in SUBSET DOMAIN next /\ a \in S /\ \A y \in S : next[y] \subseteq S
    BY <1>1
  <2> HIDE DEF S
  <2> QED BY <2>1, ReachIn
<1> QED BY <1>2

-----------------------------------------------------------------------------
(* The graph of the snapshot.                                                *)

\* The subtree of a process has it, its children, and their subtrees.
LEMMA SubtreeSelf == \A p \in Nodes : p \in Subtree(p)
BY ReachSelf DEF Subtree

LEMMA SubtreeIn == \A p : Subtree(p) \subseteq Nodes
BY DEF Subtree, Reach

LEMMA SubtreeChild ==
  ASSUME NEW p, NEW q \in Subtree(p), NEW c \in Children(q)
  PROVE  c \in Subtree(p)
<1> DEFINE next == [r \in Nodes |-> Children(r)]
<1>1. c \in DOMAIN next /\ q \in Reach(p, next) /\ q \in DOMAIN next /\ c \in next[q]
  BY SubtreeIn DEF Subtree, Children
<1> HIDE DEF next
<1>2. c \in Reach(p, next)
  BY <1>1, ReachNext
<1> QED BY <1>2 DEF Subtree, next

LEMMA SubtreeTrans ==
  ASSUME NEW p, NEW q \in Subtree(p)
  PROVE  Subtree(q) \subseteq Subtree(p)
BY ReachTrans DEF Subtree

\* In a graph without a cycle, no process is below one of its own descendants.
LEMMA NoReturn ==
  ASSUME Acyclic, NEW p \in Nodes, NEW q \in Descendants(p)
  PROVE  p \notin Subtree(q)
<1> DEFINE next == [r \in Nodes |-> Children(r)]
<1>1. PICK c \in Children(p) : q \in Subtree(c)
  <2>1. /\ p \in DOMAIN next /\ next[p] = Children(p)
        /\ \A y \in DOMAIN next : next[y] \subseteq DOMAIN next
        /\ q \in Reach(p, next) /\ q # p
    BY DEF Descendants, Subtree, Children
  <2> HIDE DEF next
  <2>2. \E c \in next[p] : q \in Reach(c, next)
    BY <2>1, ReachFirst
  <2> QED BY <2>1, <2>2 DEF Subtree, next
<1>2. Subtree(q) \subseteq Subtree(c)
  BY <1>1, SubtreeTrans
<1> QED BY <1>1, <1>2 DEF Acyclic

\* The chain of parents that the walk upwards returns is one.
LEMMA AncestorsAreLineage == \A p \in Nodes : Ancestors(p) \in Lineages(p)
<1> TAKE p \in Nodes
<1> DEFINE N == Cardinality(Pids)
           Lengths == {Len(path) : path \in Lineages(p)}
<1>1. N \in Nat
  BY AgentsAssumption, FS_CardinalityType
<1>2. \A path \in Lineages(p) : Len(path) \in 0 .. N
  BY <1>1 DEF Lineages, BoundedSeq, SeqOf
<1>3. <<>> \in Lineages(p)
  <2>1. <<>> \in [1 .. 0 -> Nodes]
    OBVIOUS
  <2>2. <<>> \in BoundedSeq(Nodes, N)
    BY <1>1, <2>1 DEF BoundedSeq, SeqOf
  <2>3. Len(<<>>) <= MAX_ANCESTRY_DEPTH /\ IsInjective(<<>>) /\ DOMAIN <<>> = {}
    BY DEF MAX_ANCESTRY_DEPTH, IsInjective
  <2> QED BY <2>2, <2>3 DEF Lineages
<1>4. Lengths \subseteq 0 .. N /\ Lengths # {}
  BY <1>2, <1>3
<1>5. PICK n \in Lengths : \A m \in Lengths : m <= n
  <2> HIDE DEF N, Lengths
  <2> QED BY <1>1, <1>4, GreatestNumber
<1>6. PICK path \in Lineages(p) : \A other \in Lineages(p) : Len(other) <= Len(path)
  BY <1>5
<1> QED BY <1>6 DEF Ancestors

\* A process is below each of its ancestors.
LEMMA BelowAncestors ==
  ASSUME NEW p \in Nodes, NEW path \in Lineages(p), NEW k \in DOMAIN path
  PROVE  path[k] \in Nodes /\ p \in Subtree(path[k])
<1>1. PICK n \in Nat : path \in [1 .. n -> Nodes]
  BY AgentsAssumption, FS_CardinalityType DEF Lineages, BoundedSeq, SeqOf
<1>2. \A i \in 1 .. n :
        /\ path[i] \in Nodes
        /\ path[i] = seen[IF i = 1 THEN p ELSE path[i - 1]].parent
        /\ path[i] # IF i = 1 THEN p ELSE path[i - 1]
  BY <1>1 DEF Lineages
<1> DEFINE Bad == {i \in 1 .. n : p \notin Subtree(path[i])}
<1>3. Bad = {}
  <2> SUFFICES ASSUME Bad # {} PROVE FALSE
    OBVIOUS
  <2>1. PICK i \in Bad : \A j \in Bad : i <= j
    <3>1. Bad \subseteq Nat
      OBVIOUS
    <3> HIDE DEF Bad
    <3> QED BY <3>1, LeastNumber
  <2>2. path[i] \in Nodes /\ path[i] \in Subtree(path[i])
    BY <1>2, SubtreeSelf
  <2>3. CASE i = 1
    <3>1. p \in Children(path[i])
      BY <1>2, <2>3 DEF Children
    <3> QED BY <2>2, <3>1, SubtreeChild
  <2>4. CASE i # 1
    <3>1. i - 1 \in 1 .. n /\ ~(i <= i - 1)
      BY <2>4
    <3>2. p \in Subtree(path[i - 1])
      BY <2>1, <3>1
    <3>3. path[i - 1] \in Children(path[i])
      BY <1>2, <2>4, <3>1 DEF Children
    <3>4. path[i - 1] \in Subtree(path[i])
      BY <2>2, <3>3, SubtreeChild
    <3> QED BY <3>2, <3>4, SubtreeTrans
  <2> QED BY <2>3, <2>4
<1> QED BY <1>1, <1>2, <1>3

\* The owner of a session is its process, or an agent above it that is as sure.
LEMMA OwnerIsAbove ==
  ASSUME NEW found, NEW d, d.pid \in Nodes
  PROVE  \/ Owner(d, found) = d.pid
         \/ \E e \in found :
              e.pid = Owner(d, found) /\ e.pid \in Nodes /\ d.pid \in Subtree(e.pid)
<1> DEFINE path == Ancestors(d.pid)
           owns == {i \in DOMAIN path :
                      \E e \in found : e.pid = path[i] /\ e.is.conf >= d.is.conf}
<1>1. path \in Lineages(d.pid)
  BY AncestorsAreLineage
<1>2. CASE owns = {}
  BY <1>2 DEF Owner
<1>3. CASE owns # {}
  <2>1. PICK n \in Nat : DOMAIN path = 1 .. n
    BY <1>1, AgentsAssumption, FS_CardinalityType DEF Lineages, BoundedSeq, SeqOf
  <2>2. PICK i \in owns : \A j \in owns : i <= j
    <3>1. owns \subseteq Nat
      BY <2>1
    <3> HIDE DEF owns
    <3> QED BY <1>3, <3>1, LeastNumber
  <2> DEFINE o == CHOOSE k \in owns : \A j \in owns : k <= j
  <2>3. o \in owns
    BY <2>2
  <2>4. Owner(d, found) = path[o]
    BY <1>3 DEF Owner
  <2>5. o \in DOMAIN path /\ \E e \in found : e.pid = path[o]
    BY <2>3
  <2> HIDE DEF o, path
  <2>6. path[o] \in Nodes /\ d.pid \in Subtree(path[o])
    BY <1>1, <2>5, BelowAncestors
  <2> QED BY <2>4, <2>5, <2>6
<1> QED BY <1>2, <1>3

-----------------------------------------------------------------------------
(* What is detected.                                                         *)

\* The verdict on a process of the snapshot has the type of a verdict.
LEMMA VerdictType ==
  ASSUME TypeOK, SnapshotIsTrue, NEW p \in Nodes
  PROVE  /\ Own(p) \in Looks /\ Parent(p) \in Looks \cup {NoLook} /\ Below(p) \in Broods
         /\ Verdict(p).conf \in Unknown..Confirmed /\ Verdict(p).score \in Int
<1>1. \A q \in Nodes : Own(q) \in Looks
  <2> TAKE q \in Nodes
  <2>1. seen[q].kind \in Kinds /\ seen[q].path \in Paths /\ seen[q].command \in Commands
    BY DEF SnapshotIsTrue, TypeOK, Nodes
  <2> QED BY <2>1 DEF Own, Looks
<1>2. Parent(p) \in Looks \cup {NoLook}
  BY <1>1 DEF Parent
<1>3. Below(p) \in Broods
  <2> DEFINE C == Children(p)
             f == [c \in C |-> seen[c].kind]
  <2>1. IsFiniteSet(Pids) /\ p \in Pids
    BY AgentsAssumption DEF Nodes
  <2>2. /\ IsFiniteSet(Pids \ {p})
        /\ Cardinality(Pids \ {p}) = Cardinality(Pids) - 1 /\ Cardinality(Pids) \in Nat
    BY <2>1, FS_RemoveElement, FS_CardinalityType
  <2>3. C \subseteq Pids \ {p}
    BY DEF Children, Nodes
  <2>4. IsFiniteSet(C) /\ Cardinality(C) <= Cardinality(Pids) - 1
    BY <2>2, <2>3, FS_Subset
  <2>5. f \in Surjection(C, Below(p))
    BY DEF Below, Surjection
  <2>6. IsFiniteSet(Below(p)) /\ Cardinality(Below(p)) <= Cardinality(C)
    <3> HIDE DEF f, C
    <3> QED BY <2>4, <2>5, FS_Surjection
  <2>7. Below(p) \subseteq Kinds
    BY DEF Below, Children, SnapshotIsTrue
  <2>8. Cardinality(Below(p)) \in 0..Cardinality(Pids) - 1
    BY <2>2, <2>4, <2>6, FS_CardinalityType
  <2> QED BY <2>7, <2>8 DEF Broods, kSubset
<1>4. Verdict(p) \in [id : Range(IdOrder) \cup {"none"}, conf : Unknown..Confirmed, score : Int]
  BY <1>1, <1>2, <1>3, VerdictAssumption DEF Verdict
<1> QED BY <1>1, <1>2, <1>3, <1>4

\* What is matched is a process of the snapshot with the verdict on it.
LEMMA MatchedIs ==
  ASSUME TypeOK, SnapshotIsTrue, NEW d \in Matched
  PROVE  /\ d.pid \in Nodes /\ d.is = Verdict(d.pid) /\ d.is # NoVerdict
         /\ d.is.conf \in Int /\ d.is.conf \in Unknown..Confirmed /\ d.is.score \in Int
<1>1. PICK p \in Nodes : d = [pid |-> p, is |-> Verdict(p)]
  BY DEF Matched
<1>2. d.pid = p /\ d.is = Verdict(p)
  BY ONLY <1>1
<1>3. d.is # NoVerdict
  BY DEF Matched
<1> QED BY <1>2, <1>3, VerdictType DEF Unknown, Confirmed

LEMMA DetectedIn == Detected \subseteq Matched
BY DEF Detected

LEMMA MatchedFinite == IsFiniteSet(Matched)
<1> DEFINE All == {[pid |-> p, is |-> Verdict(p)] : p \in Nodes}
           f == [p \in Nodes |-> [pid |-> p, is |-> Verdict(p)]]
<1>1. IsFiniteSet(Nodes)
  BY AgentsAssumption, FS_Subset DEF Nodes
<1>2. f \in Surjection(Nodes, All)
  BY DEF Surjection
<1>3. IsFiniteSet(All)
  <2> HIDE DEF f, All
  <2> QED BY <1>1, <1>2, FS_Surjection
<1>4. Matched \subseteq All
  BY DEF Matched
<1> QED BY <1>3, <1>4, FS_Subset

\* Of two agents below each other only one is detected.
LEMMA NotBelowEachOther ==
  ASSUME TypeOK, SnapshotIsTrue, NEW p \in Detected, NEW q \in Detected,
         p.pid \in Descendants(q.pid)
  PROVE  q.pid \notin Descendants(p.pid)
<1>1. p # q /\ p \in Matched /\ q \in Matched
  BY DetectedIn DEF Descendants
<1>2. ~(Cardinality(Matched) < 2)
  <2>1. IsFiniteSet({p}) /\ Cardinality({p}) = 1
    BY FS_Singleton
  <2>2. {p} \cup {q} \subseteq Matched /\ q \notin {p}
    BY <1>1
  <2>3. Cardinality({p} \cup {q}) = 2
    BY <2>1, <2>2, FS_AddElement
  <2>4. Cardinality(Matched) \in Nat /\ 2 <= Cardinality(Matched)
    BY <2>2, <2>3, MatchedFinite, FS_Subset, FS_CardinalityType
  <2> QED BY <2>4
<1>3. ~Shadowed(p, Matched) /\ ~Shadowed(q, Matched)
  BY <1>2 DEF Detected
<1>4. ~AtLeast(p, q)
  BY <1>1, <1>3 DEF Shadowed
<1>5. q.pid \in Descendants(p.pid) => ~AtLeast(q, p)
  BY <1>1, <1>3 DEF Shadowed
<1>6. AtLeast(p, q) \/ AtLeast(q, p)
  <2>1. /\ p.is.conf \in Int /\ p.is.score \in Int
        /\ q.is.conf \in Int /\ q.is.score \in Int
    BY <1>1, MatchedIs
  <2> QED BY <2>1 DEF AtLeast
<1> QED BY <1>4, <1>5, <1>6

\* Where no process is below itself, whoever is as sure as High leaves an agent that
\* is: of those, one with the fewest processes below it is shadowed by none.
LEMMA SomeoneRemains ==
  ASSUME TypeOK, SnapshotIsTrue, Acyclic, NEW p \in Matched, p.is.conf >= High
  PROVE  \E q \in Detected : q.is.conf >= High
<1> DEFINE Sure == {q \in Matched : q.is.conf >= High}
           size == [q \in Nodes |-> Cardinality(Subtree(q))]
<1>1. \A q \in Nodes : IsFiniteSet(Subtree(q)) /\ size[q] \in Nat
  <2>1. \A q \in Nodes : Subtree(q) \subseteq Pids
    BY SubtreeIn DEF Nodes
  <2> QED BY <2>1, AgentsAssumption, FS_Subset, FS_CardinalityType
<1>2. \A q \in Sure : q.pid \in Nodes /\ q.is.conf \in Int
  BY MatchedIs
<1>3. PICK q \in Sure : \A r \in Sure : size[q.pid] <= size[r.pid]
  <2> DEFINE Sizes == {size[r.pid] : r \in Sure}
  <2>1. p \in Sure
    OBVIOUS
  <2>2. Sizes \subseteq Nat /\ Sizes # {}
    BY <1>1, <1>2, <2>1
  <2>3. \E i \in Sizes : \A j \in Sizes : i <= j
    <3> HIDE DEF Sizes
    <3> QED BY <2>2, LeastNumber
  <2> QED BY <2>3
<1>4. ASSUME Shadowed(q, Matched) PROVE FALSE
  <2>1. PICK r \in Matched : r.pid \in Descendants(q.pid) /\ AtLeast(r, q)
    BY <1>4 DEF Shadowed
  <2>2. r.pid \in Nodes /\ q.pid \in Nodes /\ r.is.conf \in Int /\ q.is.conf \in Int
    BY <1>2, <2>1, MatchedIs
  <2>3. r \in Sure
    <3>1. q.is.conf >= High
      OBVIOUS
    <3>2. r.is.conf > q.is.conf \/ r.is.conf = q.is.conf
      BY <2>1 DEF AtLeast
    <3> QED BY <2>1, <2>2, <3>1, <3>2 DEF High
  <2>4. Subtree(r.pid) \subseteq Subtree(q.pid)
    BY <2>1, SubtreeTrans DEF Descendants
  <2>5. q.pid \in Subtree(q.pid) /\ q.pid \notin Subtree(r.pid)
    BY <2>1, <2>2, SubtreeSelf, NoReturn
  <2>6. Subtree(r.pid) # Subtree(q.pid)
    BY <2>5
  <2>7. size[r.pid] < size[q.pid]
    <3>1. IsFiniteSet(Subtree(q.pid)) /\ size[q.pid] = Cardinality(Subtree(q.pid))
          /\ size[r.pid] = Cardinality(Subtree(r.pid))
          /\ size[r.pid] \in Nat /\ size[q.pid] \in Nat
      BY <1>1, <2>2
    <3>2. Cardinality(Subtree(r.pid)) <= Cardinality(Subtree(q.pid))
          /\ (Cardinality(Subtree(r.pid)) = Cardinality(Subtree(q.pid))
                => Subtree(r.pid) = Subtree(q.pid))
      BY <2>4, <3>1, FS_Subset
    <3> QED BY <2>6, <3>1, <3>2
  <2>8. size[q.pid] \in Nat /\ size[r.pid] \in Nat
    BY <1>1, <2>2
  <2> QED BY <1>3, <2>3, <2>7, <2>8
<1>5. q \in Detected
  BY <1>4 DEF Detected
<1> QED BY <1>5

-----------------------------------------------------------------------------
(* The machine and the sweep.                                                *)

USE DEF machine, sweep

\* The builds that are kept are some of those that qualified.
LEMMA KeptIn ==
  ASSUME NEW builds, NEW kept \in Truncated(builds)
  PROVE  kept \subseteq builds
BY DEF Truncated, kSubset

\* The inventory of detected agents and builds has its type.
LEMMA InventoryType ==
  ASSUME TypeOK, SnapshotIsTrue
  PROVE  /\ \A i \in Instances(Detected) :
              i.pid \in Pids /\ i.root \in Pids /\ i.conf \in Unknown..Confirmed
         /\ \A roots, aged : \A kept \in Truncated(Qualified(roots, aged)) :
              \A w \in Workloads(roots, kept) : w.pid \in Pids
<1>1. Nodes \subseteq Pids /\ Builds \subseteq Pids
  BY DEF Builds, Nodes
<1>2. ASSUME NEW i \in Instances(Detected)
      PROVE  i.pid \in Pids /\ i.root \in Pids /\ i.conf \in Unknown..Confirmed
  <2>1. PICK d \in Detected :
          i = [pid |-> d.pid, id |-> d.is.id, conf |-> d.is.conf, root |-> Owner(d, Detected),
               created |-> seen[d.pid].created, command |-> seen[d.pid].command,
               resume |-> Resume(d)]
    BY DEF Instances
  <2>2. i.pid = d.pid /\ i.root = Owner(d, Detected) /\ i.conf = d.is.conf
    BY ONLY <2>1
  <2>3. d.pid \in Nodes /\ d.is.conf \in Unknown..Confirmed
    BY DetectedIn, MatchedIs
  <2>4. Owner(d, Detected) \in Pids
    BY <1>1, <2>3, OwnerIsAbove
  <2> QED BY <1>1, <2>2, <2>3, <2>4
<1>3. ASSUME NEW roots, NEW aged, NEW kept \in Truncated(Qualified(roots, aged)),
             NEW w \in Workloads(roots, kept)
      PROVE  w.pid \in Pids
  <2>1. kept \subseteq Builds
    BY KeptIn DEF Qualified
  <2>2. PICK b \in kept : \E o : w = [pid |-> b, owner |-> o, created |-> seen[b].created]
    BY DEF Workloads
  <2>3. w.pid = b
    BY ONLY <2>2
  <2> QED BY <1>1, <2>1, <2>3
<1> QED BY <1>2, <1>3

LEMMA InvInit == Init => IInv
<1> SUFFICES ASSUME Init PROVE IInv
  OBVIOUS
<1> USE AgentsAssumption DEF Init
<1>1. Nodes = {} /\ Running = {}
  BY DEF Nodes, Running
<1>2. TypeOK
  BY <1>1 DEF TypeOK, NoProcess, NotSeen, NoRecord, Nothing, Paths, Commands
<1>3. BirthsIdentify /\ SnapshotIsTrue
  BY <1>1 DEF BirthsIdentify, SnapshotIsTrue
<1> QED BY <1>2, <1>3 DEF IInv

\* A process that starts is new to every other, and to the sweep.
LEMMA SpawnStep == IInv /\ Spawn => IInv'
<1> SUFFICES ASSUME IInv, Spawn PROVE IInv'
  OBVIOUS
<1> USE AgentsAssumption DEF IInv
<1>1. PICK p \in Pids \ Running, by \in {Nobody} \cup Running, k \in Kinds :
        /\ live' = [live EXCEPT ![p] = [kind |-> k, parent |-> by, birth |-> births + 1,
                                        by |-> IF by = Nobody THEN 0 ELSE live[by].birth]]
        /\ records' \in Recorded(p, k, births + 1)
  BY DEF Spawn
<1>2. births < MaxBirths /\ births' = births + 1 /\ births \in Nat
      /\ births + 1 \in 1..MaxBirths /\ MaxBirths \in Nat
      /\ UNCHANGED <<pc, seen, todo, at, steady, inventory>>
  BY DEF Spawn, TypeOK
<1> DEFINE from == IF by = Nobody THEN 0 ELSE live[by].birth
<1>3. live'[p] = [kind |-> k, parent |-> by, birth |-> births + 1, by |-> from]
      /\ \A q \in Pids \ {p} : live'[q] = live[q]
  BY <1>1 DEF TypeOK
<1>p. /\ live'[p].kind = k /\ live'[p].parent = by /\ live'[p].birth = births + 1
      /\ live'[p].by = from
  <2> HIDE DEF from
  <2> QED BY ONLY <1>3
<1>4. Running' = Running \cup {p} /\ p \notin Running /\ Running \subseteq Pids /\ Nodes' = Nodes
  <2>1. live'[p] # NoProcess
    <3>1. live'[p].kind # "none"
      BY <1>p
    <3> QED BY <3>1 DEF NoProcess
  <2> QED BY <1>2, <1>3, <2>1 DEF Running, Nodes
<1>5. \A q \in Running : /\ live'[q] = live[q] /\ live[q].kind \in Kinds
                         /\ live[q].birth \in 1..births /\ live[q].by < live[q].birth
                         /\ live[q].by \in 0..MaxBirths
  BY <1>3, <1>4 DEF BirthsIdentify, TypeOK
<1>6. from \in 0..births
  BY <1>2, <1>5
<1>7. records' \in [{"claude_code", "grok"} -> [Pids -> [birth : 0..MaxBirths, stamped : BOOLEAN]]]
  <2> DEFINE Record == [birth : 0..MaxBirths, stamped : BOOLEAN]
  <2>1. records \in [{"claude_code", "grok"} -> [Pids -> Record]]
    BY DEF TypeOK
  <2>2. records["grok"][p].birth \in 0..MaxBirths
    BY <2>1
  <2>4. CASE Recorder[k] = "claude_code"
    <3>1. records' = [records EXCEPT !["claude_code"][p] =
                        [birth |-> births + 1, stamped |-> k \in Stamping]]
      BY <1>1, <2>4 DEF Recorded
    <3>2. [birth |-> births + 1, stamped |-> k \in Stamping] \in Record
      BY <1>2
    <3>3. PICK r \in Record : records' = [records EXCEPT !["claude_code"][p] = r]
      BY <3>1, <3>2, Zenon
    <3> HIDE DEF Record
    <3>4. records' \in [{"claude_code", "grok"} -> [Pids -> Record]]
      BY <2>1, <3>3
    <3> QED BY <3>4 DEF Record
  <2>5. CASE Recorder[k] = "grok"
    <3>1. PICK b \in {births + 1, records["grok"][p].birth} \ {0} :
            records' = [records EXCEPT !["grok"][p] = [birth |-> b, stamped |-> FALSE]]
      BY <1>1, <2>5 DEF Recorded
    <3>2. [birth |-> b, stamped |-> FALSE] \in Record
      BY <1>2, <2>2
    <3>3. PICK r \in Record : records' = [records EXCEPT !["grok"][p] = r]
      BY <3>1, <3>2, Zenon
    <3> HIDE DEF Record
    <3>4. records' \in [{"claude_code", "grok"} -> [Pids -> Record]]
      BY <2>1, <3>3
    <3> QED BY <3>4 DEF Record
  <2>6. CASE Recorder[k] \notin {"claude_code", "grok"}
    BY <1>1, <2>1, <2>6 DEF Recorded
  <2> QED BY <2>4, <2>5, <2>6
<1>8. TypeOK'
  <2>1. live' \in [Pids -> [kind : Kinds \cup {"none"}, parent : {Nobody} \cup Pids,
                           birth : 0..MaxBirths, by : 0..MaxBirths]]
    <3>1. [kind |-> k, parent |-> by, birth |-> births + 1, by |-> from]
            \in [kind : Kinds \cup {"none"}, parent : {Nobody} \cup Pids,
                birth : 0..MaxBirths, by : 0..MaxBirths]
      <4> HIDE DEF from
      <4> QED BY <1>2, <1>4, <1>6
    <3> QED BY <1>1, <3>1 DEF TypeOK
  <2>2. births' \in 0..MaxBirths
    BY <1>2
  <2>3. steady' \subseteq Running'
    BY <1>2, <1>4 DEF TypeOK
  <2> QED BY <1>2, <1>4, <1>7, <2>1, <2>2, <2>3 DEF TypeOK
<1>9. BirthsIdentify'
  <2> HIDE DEF from
  <2>1. \A q \in Running' :
          live'[q].kind \in Kinds /\ live'[q].birth \in 1..births' /\ live'[q].by < live'[q].birth
    <3> TAKE q \in Running'
    <3>1. CASE q \in Running
      BY <1>2, <1>5, <3>1
    <3>2. CASE q = p
      BY <1>2, <1>6, <1>p, <3>2
    <3> QED BY <1>4, <3>1, <3>2
  <2>3. ASSUME NEW q \in Running', NEW r \in Running'
        PROVE  /\ live'[q].birth = live'[r].birth => q = r
               /\ live'[q].by = live'[r].birth => live'[q].parent = r
    <3>1. CASE q \in Running /\ r \in Running
      <4>1. live'[q] = live[q] /\ live'[r] = live[r]
        BY <1>5, <3>1
      <4> QED BY <3>1, <4>1 DEF BirthsIdentify
    <3>2. CASE q \in Running /\ r = p
      <4>1. live'[q] = live[q] /\ live[q].birth \in 1..births /\ live'[r].birth = births + 1
            /\ live[q].by < live[q].birth /\ live[q].by \in 0..MaxBirths
        BY <1>p, <1>5, <3>2
      <4> QED BY <1>2, <4>1
    <3>3. CASE q = p /\ r \in Running
      <4>1. live'[r] = live[r] /\ live[r].birth \in 1..births /\ live'[q].birth = births + 1
            /\ live'[q].parent = by /\ live'[q].by = from
        BY <1>p, <1>5, <3>3
      <4>2. from = live[r].birth => by \in Running /\ live[by].birth = live[r].birth
        BY <1>2, <4>1 DEF from
      <4>3. from = live[r].birth => by = r
        BY <3>3, <4>2 DEF BirthsIdentify
      <4> QED BY <1>2, <4>1, <4>3
    <3>4. CASE q = p /\ r = p
      BY <1>2, <1>6, <1>p, <3>4
    <3> QED BY <1>4, <3>1, <3>2, <3>3, <3>4
  <2> QED BY <2>1, <2>3 DEF BirthsIdentify
<1>10. SnapshotIsTrue'
  <2>1. \A q \in steady : live'[q] = live[q]
    BY <1>5 DEF TypeOK
  <2> QED BY <1>2, <1>4, <2>1 DEF SnapshotIsTrue
<1> QED BY <1>8, <1>9, <1>10

LEMMA ExitStep == IInv /\ Exit => IInv'
<1> SUFFICES ASSUME IInv, Exit PROVE IInv'
  OBVIOUS
<1> USE AgentsAssumption DEF IInv
<1>1. PICK p \in Running : live' = [live EXCEPT ![p] = NoProcess] /\ steady' = steady \ {p}
  BY DEF Exit
<1>2. UNCHANGED <<births, records, pc, seen, todo, at, inventory>>
  BY DEF Exit
<1>3. live'[p] = NoProcess /\ \A q \in Pids \ {p} : live'[q] = live[q]
  BY <1>1 DEF TypeOK, Running
<1>4. Running' = Running \ {p} /\ Nodes' = Nodes /\ Running \subseteq Pids
  BY <1>2, <1>3 DEF Running, Nodes
<1>5. TypeOK'
  <2>1. NoProcess \in [kind : Kinds \cup {"none"}, parent : {Nobody} \cup Pids,
                       birth : 0..MaxBirths, by : 0..MaxBirths]
    BY DEF NoProcess
  <2>2. live' \in [Pids -> [kind : Kinds \cup {"none"}, parent : {Nobody} \cup Pids, birth : 0..MaxBirths, by : 0..MaxBirths]]
    BY <1>1, <2>1 DEF TypeOK
  <2> QED BY <1>1, <1>2, <1>4, <2>2 DEF TypeOK
<1>6. \A q \in Running' : q \in Running /\ live'[q] = live[q]
  BY <1>3, <1>4
<1>7. BirthsIdentify'
  BY <1>2, <1>6 DEF BirthsIdentify
<1>8. SnapshotIsTrue'
  <2>1. \A q \in steady' : q \in steady /\ q \in Running'
    BY <1>1, <1>4 DEF TypeOK
  <2> QED BY <1>2, <1>4, <1>6, <2>1 DEF SnapshotIsTrue
<1> QED BY <1>5, <1>7, <1>8

\* The steps of the sweep change nothing of the machine.
LEMMA MachineKept ==
  ASSUME BirthsIdentify, UNCHANGED machine
  PROVE  BirthsIdentify' /\ Running' = Running
BY DEF BirthsIdentify, Running

\* What the snapshot itself tells of a process.
LEMMA FirstSight ==
  ASSUME NEW r, NEW k, NEW up,
         r = [kind |-> k, parent |-> up, path |-> {}, command |-> {}, created |-> 0]
  PROVE  /\ r.kind = k /\ r.parent = up /\ r.path = {} /\ r.command = {} /\ r.created = 0
         /\ k # "none" => r # NotSeen
<1>1. r.kind = k /\ r.parent = up /\ r.path = {} /\ r.command = {} /\ r.created = 0
  OBVIOUS
<1>2. NotSeen.kind = "none"
  BY DEF NotSeen
<1> QED BY <1>1, <1>2

LEMMA SnapshotStep == IInv /\ Snapshot => IInv'
<1> SUFFICES ASSUME IInv, Snapshot PROVE IInv'
  OBVIOUS
<1> USE AgentsAssumption DEF IInv
<1>1. BirthsIdentify' /\ Running' = Running /\ UNCHANGED <<live, births, records, at>>
  BY MachineKept DEF Snapshot
<1>2. pc' = "open" /\ todo' = Running /\ steady' = Running /\ inventory' = Nothing
  BY DEF Snapshot
<1>3. \A p \in Running : p \in Pids /\ live[p].kind \in Kinds
  BY DEF Running, BirthsIdentify
<1>4. \A p \in Running : seen'[p] = [kind |-> live[p].kind, parent |-> live[p].parent,
                                    path |-> {}, command |-> {}, created |-> 0]
  BY <1>3 DEF Snapshot
<1>5. \A p \in Pids \ Running : seen'[p] = NotSeen
  BY DEF Snapshot
<1>s. ASSUME NEW p \in Running
      PROVE  /\ seen'[p].kind = live[p].kind /\ seen'[p].parent = live[p].parent
             /\ seen'[p].path = {} /\ seen'[p].command = {} /\ seen'[p].created = 0 /\ seen'[p] # NotSeen
  <2>1. seen'[p] = [kind |-> live[p].kind, parent |-> live[p].parent,
                    path |-> {}, command |-> {}, created |-> 0]
    BY ONLY <1>4, p \in Running
  <2>2. live[p].kind # "none"
    BY <1>3
  <2> QED BY ONLY <2>1, <2>2, FirstSight
<1>6. Nodes' = Running
  <2>1. Running \subseteq Pids
    BY DEF Running
  <2> QED BY <1>5, <1>s, <2>1 DEF Nodes
<1>7. seen' \in [Pids -> [kind : Kinds \cup {"none"}, parent : {Nobody} \cup Pids,
                         path : Paths, command : Commands, created : 0..MaxBirths]]
  BY <1>3 DEF Snapshot, TypeOK, NotSeen, Paths, Commands
<1>8. at = Nobody
  BY DEF Snapshot, SnapshotIsTrue, TypeOK
<1>9. TypeOK'
  BY <1>1, <1>2, <1>6, <1>7, <1>8 DEF TypeOK, Nothing
<1>10. SnapshotIsTrue'
  <2>1. \A p \in Running : seen'[p].kind = live[p].kind /\ seen'[p].parent = live[p].parent
                           /\ seen'[p].path = {} /\ seen'[p].command = {} /\ seen'[p].created = 0
    BY ONLY <1>s
  <2> QED BY <1>1, <1>2, <1>3, <1>6, <2>1 DEF SnapshotIsTrue
<1> QED BY <1>1, <1>9, <1>10

\* What was read of one more process leaves the rest of the snapshot as it is.
LEMMA SeenMore ==
  ASSUME IInv, pc = "open", NEW p \in Nodes, p \in Running,
         NEW path \in {{}, Texts[live[p].kind].path, seen[p].path},
         NEW command \in {{}, Texts[live[p].kind].command, seen[p].command},
         NEW created \in {seen[p].created, live[p].birth},
         path \in Paths, command \in Commands,
         p \in steady => /\ path \in {{}, Texts[live[p].kind].path}
                         /\ command \in {{}, Texts[live[p].kind].command}
                         /\ created \in {0, live[p].birth},
         seen' = [seen EXCEPT ![p].path = path, ![p].command = command, ![p].created = created],
         UNCHANGED <<live, births, records, pc, steady, inventory>>,
         todo' \subseteq todo, at' \in {Nobody} \cup Nodes
  PROVE  TypeOK' /\ SnapshotIsTrue'
<1> USE AgentsAssumption DEF IInv
<1>1. live[p].birth \in 0..MaxBirths /\ p \in Pids /\ created \in 0..MaxBirths
  BY DEF Running, TypeOK
<1>2. /\ \A q \in Pids \ {p} : seen'[q] = seen[q]
      /\ seen'[p].kind = seen[p].kind /\ seen'[p].parent = seen[p].parent
      /\ seen'[p].path = path /\ seen'[p].command = command /\ seen'[p].created = created
  BY <1>1 DEF TypeOK
<1>3. seen' \in [Pids -> [kind : Kinds \cup {"none"}, parent : {Nobody} \cup Pids,
                         path : Paths, command : Commands, created : 0..MaxBirths]]
  <2>1. seen \in [Pids -> [kind : Kinds \cup {"none"}, parent : {Nobody} \cup Pids,
                          path : Paths, command : Commands, created : 0..MaxBirths]]
    BY DEF TypeOK
  <2> QED BY ONLY <1>1, <2>1, path \in Paths, command \in Commands,
       seen' = [seen EXCEPT ![p].path = path, ![p].command = command, ![p].created = created]
<1>4. Nodes' = Nodes /\ Running' = Running
  <2>1. seen'[p] # NotSeen
    <3>1. seen'[p].kind # "none"
      BY <1>2 DEF SnapshotIsTrue
    <3>2. NotSeen.kind = "none"
      BY DEF NotSeen
    <3> QED BY <3>1, <3>2
  <2> QED BY <1>2, <2>1 DEF Nodes, Running
<1>5. TypeOK'
  BY <1>3, <1>4 DEF TypeOK
<1>6. SnapshotIsTrue'
  <2>1. \A q \in Nodes : seen'[q].kind \in Kinds
    BY <1>1, <1>2 DEF SnapshotIsTrue, Nodes
  <2>2. ASSUME NEW q \in steady
        PROVE  /\ q \in Nodes /\ seen'[q].kind = live[q].kind /\ seen'[q].parent = live[q].parent
               /\ seen'[q].path \in {{}, Texts[live[q].kind].path}
               /\ seen'[q].command \in {{}, Texts[live[q].kind].command}
               /\ seen'[q].created \in {0, live[q].birth}
    <3>1. q \in Pids
      BY DEF TypeOK, Running
    <3>2. CASE q = p
      BY <1>2, <2>2, <3>2 DEF SnapshotIsTrue
    <3>3. CASE q # p
      BY <1>2, <2>2, <3>1, <3>3 DEF SnapshotIsTrue
    <3> QED BY <3>2, <3>3
  <2>3. pc' = "open" /\ steady' = steady /\ live' = live
    OBVIOUS
  <2>4. \A q \in steady' :
          /\ q \in Nodes' /\ seen'[q].kind = live'[q].kind /\ seen'[q].parent = live'[q].parent
          /\ seen'[q].path \in {{}, Texts[live'[q].kind].path}
          /\ seen'[q].command \in {{}, Texts[live'[q].kind].command}
          /\ seen'[q].created \in {0, live'[q].birth}
    BY ONLY <1>4, <2>2, <2>3
  <2> QED BY <1>4, <2>1, <2>3, <2>4 DEF SnapshotIsTrue
<1> QED BY <1>5, <1>6

\* What an opened process adds to the snapshot.
LEMMA LookStep == IInv /\ (Open \/ Stamp) => IInv'
<1> SUFFICES ASSUME IInv, Open \/ Stamp PROVE IInv'
  OBVIOUS
<1> USE AgentsAssumption DEF IInv
<1>1. BirthsIdentify' /\ Running' = Running /\ UNCHANGED <<live, births, records>>
  BY MachineKept DEF Open, Stamp
<1>2. pc = "open" /\ UNCHANGED <<pc, steady, inventory>>
  BY DEF Open, Stamp
<1>3. ASSUME UNCHANGED seen, todo' \subseteq todo, at' \in {Nobody} \cup Nodes
      PROVE  TypeOK' /\ SnapshotIsTrue'
  <2>1. Nodes' = Nodes
    BY <1>3 DEF Nodes
  <2> QED BY <1>1, <1>2, <1>3, <2>1 DEF TypeOK, SnapshotIsTrue
<1>4. CASE Open
  <2>1. PICK p \in todo :
          /\ todo' = todo \ {p} /\ at' = p
          /\ \/ UNCHANGED seen
             \/ /\ p \in Running
                /\ \E path \in {{}, Texts[live[p].kind].path},
                      command \in {{}, Texts[live[p].kind].command} :
                     seen' = [seen EXCEPT ![p].path = path, ![p].command = command]
    BY <1>4 DEF Open
  <2>2. p \in Nodes
    BY DEF TypeOK
  <2>3. CASE UNCHANGED seen
    BY <1>1, <1>3, <2>1, <2>2, <2>3
  <2>4. CASE ~UNCHANGED seen
    <3>1. PICK path \in {{}, Texts[live[p].kind].path},
               command \in {{}, Texts[live[p].kind].command} :
            p \in Running /\ seen' = [seen EXCEPT ![p].path = path, ![p].command = command]
      BY <2>1, <2>4
    <3>2. live[p].kind \in Kinds
      BY <3>1 DEF BirthsIdentify
    <3>3. path \in Paths /\ command \in Commands
      BY <3>2 DEF Paths, Commands
    <3>4. seen[p].created \in {seen[p].created, live[p].birth}
          /\ (p \in steady => seen[p].created \in {0, live[p].birth})
      BY <1>2 DEF SnapshotIsTrue
    <3>5. seen' = [seen EXCEPT ![p].path = path, ![p].command = command,
                              ![p].created = seen[p].created]
      <4>1. seen[p] = [seen[p] EXCEPT !.created = seen[p].created]
        BY <2>2 DEF TypeOK, Nodes
      <4> QED BY <3>1, <2>2 DEF TypeOK, Nodes
    <3> QED BY <1>1, <1>2, <2>1, <2>2, <3>1, <3>3, <3>4, <3>5, SeenMore
  <2> QED BY <1>1, <2>3, <2>4
<1>5. CASE Stamp
  <2>1. /\ at \in Nodes /\ at' = Nobody /\ todo' = todo
        /\ \/ UNCHANGED seen
           \/ at \in Running /\ seen' = [seen EXCEPT ![at].created = live[at].birth]
    BY <1>5 DEF Stamp, TypeOK
  <2>2. CASE UNCHANGED seen
    BY <1>1, <1>3, <2>1, <2>2
  <2>3. CASE ~UNCHANGED seen
    <3>1. at \in Running /\ seen' = [seen EXCEPT ![at].created = live[at].birth]
      BY <2>1, <2>3
    <3>2. seen[at].path \in Paths /\ seen[at].command \in Commands
      BY <2>1 DEF TypeOK, Nodes
    <3>3. at \in steady => /\ seen[at].path \in {{}, Texts[live[at].kind].path}
                           /\ seen[at].command \in {{}, Texts[live[at].kind].command}
      BY <1>2 DEF SnapshotIsTrue
    <3>4. seen' = [seen EXCEPT ![at].path = seen[at].path, ![at].command = seen[at].command,
                              ![at].created = live[at].birth]
      BY <3>1, <2>1 DEF TypeOK, Nodes
    <3> QED BY <1>1, <1>2, <2>1, <3>1, <3>2, <3>3, <3>4, SeenMore
  <2> QED BY <1>1, <2>2, <2>3
<1> QED BY <1>4, <1>5

LEMMA PublishStep == IInv /\ (Publish \/ SnapshotFails) => IInv'
<1> SUFFICES ASSUME IInv, Publish \/ SnapshotFails PROVE IInv'
  OBVIOUS
<1> USE AgentsAssumption DEF IInv
<1>1. BirthsIdentify' /\ Running' = Running /\ UNCHANGED <<live, births, records>>
  BY MachineKept DEF Publish, SnapshotFails
<1>2. CASE Publish
  <2> DEFINE roots == {i.root : i \in Instances(Detected)}
  <2>1. pc' = "idle" /\ at = Nobody /\ todo = {} /\ steady' = {} /\ UNCHANGED <<todo, at>>
    BY <1>2 DEF Publish
  <2>2. PICK aged \in SUBSET Builds : \E k \in Truncated(Qualified(roots, aged)) :
          inventory' = [agents |-> Instances(Detected), candidates |-> Candidates,
                        workloads |-> Workloads(roots, k)]
    BY <1>2 DEF Publish
  <2> HIDE DEF roots
  <2>3. PICK kept \in Truncated(Qualified(roots, aged)) :
          inventory' = [agents |-> Instances(Detected), candidates |-> Candidates,
                        workloads |-> Workloads(roots, kept)]
    BY <2>2
  <2>4. seen' = [p \in Pids |-> NotSeen] /\ Nodes' = {}
    BY <1>2 DEF Publish, Nodes
  <2>5. seen' \in [Pids -> [kind : Kinds \cup {"none"}, parent : {Nobody} \cup Pids,
                           path : Paths, command : Commands, created : 0..MaxBirths]]
    BY <2>4 DEF NotSeen, Paths, Commands
  <2>6. /\ \A i \in inventory'.agents :
             i.pid \in Pids /\ i.root \in Pids /\ i.conf \in Unknown..Confirmed
        /\ \A w \in inventory'.workloads : w.pid \in Pids
    <3>1. inventory'.agents = Instances(Detected) /\ inventory'.workloads = Workloads(roots, kept)
      BY ONLY <2>3
    <3> QED BY <3>1, InventoryType
  <2>7. TypeOK'
    BY <1>1, <2>1, <2>4, <2>5, <2>6 DEF TypeOK
  <2>8. SnapshotIsTrue'
    BY <2>1, <2>4 DEF SnapshotIsTrue
  <2> QED BY <1>1, <2>7, <2>8
<1>3. CASE SnapshotFails
  <2>1. UNCHANGED <<pc, seen, todo, at, steady>> /\ inventory' = Nothing /\ Nodes' = Nodes
    BY <1>3 DEF SnapshotFails, Nodes
  <2>2. TypeOK' /\ SnapshotIsTrue'
    BY <1>1, <2>1 DEF TypeOK, SnapshotIsTrue, Nothing
  <2> QED BY <1>1, <2>2
<1> QED BY <1>2, <1>3

LEMMA InvNext == IInv /\ [Next]_vars => IInv'
<1>1. IInv /\ UNCHANGED vars => IInv'
  BY DEF IInv, vars, TypeOK, BirthsIdentify, SnapshotIsTrue, Running, Nodes
<1> QED BY <1>1, SpawnStep, ExitStep, SnapshotStep, LookStep, PublishStep DEF Next

\* The sweep's invariant holds whatever starts, exits and gets whose number meanwhile.
THEOREM Inductive == Spec => []IInv
BY InvInit, InvNext, PTL DEF Spec

-----------------------------------------------------------------------------
(* What is published.                                                        *)

\* The inventory of a finished sweep.
LEMMA PublishedInventory ==
  ASSUME Published, [Next]_vars
  PROVE  /\ pc = "open" /\ inventory'.agents = Instances(Detected)
         /\ \E aged \in SUBSET Builds :
              \E kept \in Truncated(Qualified({i.root : i \in Instances(Detected)}, aged)) :
                inventory'.workloads = Workloads({i.root : i \in Instances(Detected)}, kept)
<1> DEFINE roots == {i.root : i \in Instances(Detected)}
<1>1. Publish
  BY DEF Published, Next, vars, Spawn, Exit, Snapshot, SnapshotFails, Open, Stamp
<1>2. PICK aged \in SUBSET Builds : \E k \in Truncated(Qualified(roots, aged)) :
        inventory' = [agents |-> Instances(Detected), candidates |-> Candidates,
                      workloads |-> Workloads(roots, k)]
  BY <1>1 DEF Publish
<1> HIDE DEF roots
<1>3. PICK kept \in Truncated(Qualified(roots, aged)) :
        inventory' = [agents |-> Instances(Detected), candidates |-> Candidates,
                      workloads |-> Workloads(roots, kept)]
  BY <1>2
<1>4. /\ inventory'.agents = Instances(Detected)
      /\ inventory'.workloads = Workloads(roots, kept)
  BY ONLY <1>3
<1> QED BY <1>1, <1>4 DEF Publish, roots

\* What an instance says is that of its process.
LEMMA InstanceIs ==
  ASSUME NEW found, NEW i \in Instances(found)
  PROVE  \E d \in found :
           /\ i.pid = d.pid /\ i.id = d.is.id /\ i.conf = d.is.conf /\ i.root = Owner(d, found)
           /\ i.created = seen[d.pid].created /\ i.command = seen[d.pid].command
           /\ i.resume = Resume(d)
<1>1. PICK d \in found :
        i = [pid |-> d.pid, id |-> d.is.id, conf |-> d.is.conf, root |-> Owner(d, found),
             created |-> seen[d.pid].created, command |-> seen[d.pid].command,
             resume |-> Resume(d)]
  BY DEF Instances
<1>2. /\ i.pid = d.pid /\ i.id = d.is.id /\ i.conf = d.is.conf /\ i.root = Owner(d, found)
      /\ i.created = seen[d.pid].created /\ i.command = seen[d.pid].command
      /\ i.resume = Resume(d)
  BY ONLY <1>1
<1> QED BY <1>2

\* A record with a start time that an earlier process left under a number is never
\* taken for that of a process that ran during the whole sweep and whose creation time
\* is known: the time was read later, but of the same process.
THEOREM ResumesAreOwn == Spec => ResumeIsOwn
<1>1. ASSUME IInv, [Next]_vars, Published, NEW i \in inventory'.agents,
             i.pid \in steady, i.created # 0, i.resume.stamped
      PROVE  i.resume.birth = live[i.pid].birth
  <2>1. pc = "open" /\ i \in Instances(Detected)
    BY <1>1, PublishedInventory
  <2>2. PICK d \in Detected : i.pid = d.pid /\ i.created = seen[d.pid].created /\ i.resume = Resume(d)
    BY <2>1, InstanceIs
  <2>3. seen[d.pid].created = live[d.pid].birth
    BY <1>1, <2>1, <2>2 DEF IInv, SnapshotIsTrue
  <2> DEFINE adapter == AdapterOf(d.is.id)
             r == records[adapter][d.pid]
  <2>4. Resume(d) # NoRecord
    BY <1>1, <2>2 DEF NoRecord
  <2>5. Resume(d) = r /\ ~(r.stamped /\ seen[d.pid].created # 0 /\ r.birth # seen[d.pid].created)
    BY <2>4, Zenon DEF Resume
  <2> HIDE DEF r
  <2>6. r.stamped
    BY <1>1, <2>2, <2>5
  <2> QED BY <1>1, <2>2, <2>3, <2>5, <2>6
<1>2. IInv /\ [Next]_vars =>
        [Published => \A i \in inventory'.agents :
            i.pid \in steady /\ i.created # 0 /\ i.resume.stamped
              => i.resume.birth = live[i.pid].birth]_vars
  BY <1>1
<1> QED BY <1>2, Inductive, PTL DEF Spec, ResumeIsOwn

\* The snapshot has what was started, through processes that are all still running,
\* in the subtree of what started it.
LEMMA StartedIsBelow ==
  ASSUME IInv, pc = "open", NEW p \in steady, NEW q, Started(q, p)
  PROVE  p \in Subtree(q)
<1> USE DEF IInv
<1> DEFINE next == [r \in steady |-> Creators(r)]
           S == {r \in steady : p \in Subtree(r)}
<1>1. steady \subseteq Nodes /\ steady \subseteq Running
  BY DEF SnapshotIsTrue, TypeOK
<1>2. p \in S
  BY <1>1, SubtreeSelf
<1>3. ASSUME NEW c \in S, NEW r \in Creators(c) PROVE r \in S
  <2>1. r \in steady /\ live[c].by = live[r].birth
    BY DEF Creators
  <2>2. live[c].parent = r /\ seen[c].parent = r /\ c \in Nodes /\ r \in Nodes
    BY <1>1, <2>1 DEF BirthsIdentify, SnapshotIsTrue
  <2>3. c # r
    <3>1. live[c].birth \in Int /\ live[c].by \in Int /\ live[c].by < live[c].birth
      BY <1>1, AgentsAssumption DEF BirthsIdentify, TypeOK, Running
    <3> QED BY <2>1, <3>1
  <2>4. c \in Subtree(r)
    BY <2>2, <2>3, SubtreeSelf, SubtreeChild DEF Children
  <2> QED BY <2>1, <2>4, SubtreeTrans
<1>4. Reach(p, next) \subseteq S
  <2>1. DOMAIN next = steady /\ S \in SUBSET DOMAIN next /\ \A y \in S : next[y] \subseteq S
    BY <1>3
  <2> HIDE DEF next, S
  <2> QED BY <1>2, <2>1, ReachIn
<1> QED BY <1>4 DEF Started

\* All that qualified is kept, or as many as there may be that started no earlier.
LEMMA KeptOrNewer ==
  ASSUME NEW builds, NEW kept \in Truncated(builds), NEW b \in builds, b \notin kept
  PROVE  Cardinality(kept) = MaxWorkloads /\ \A k \in kept : seen[k].created >= seen[b].created
<1>1. ~(Cardinality(builds) <= MaxWorkloads)
  BY DEF Truncated
<1> QED BY <1>1 DEF Truncated, kSubset

\* Whatever agents, launchers and shells start each other, a build below an agent that
\* is detected has a session, which is not itself, or is one too many.
THEOREM BuildsAreProtected == Spec => OwnedBuildsAreProtected
<1>1. ASSUME IInv, [Next]_vars, Published, NEW p \in steady, p \in Builds,
             NEW i \in inventory'.agents, i.pid \in steady, Started(i.pid, p)
      PROVE  \/ \E w \in inventory'.workloads : w.pid = p /\ w.owner # Nobody
             \/ /\ Cardinality({w.pid : w \in inventory'.workloads}) = MaxWorkloads
                /\ \A w \in inventory'.workloads : w.created >= seen[p].created
  <2> DEFINE roots == {j.root : j \in Instances(Detected)}
             o == i.root
  <2>1. pc = "open" /\ i \in Instances(Detected)
    BY <1>1, PublishedInventory
  <2>2. PICK d \in Detected : i.pid = d.pid /\ o = Owner(d, Detected) /\ o \in roots
    BY <2>1, InstanceIs
  <2>3. p \in Subtree(d.pid) /\ p # d.pid
    BY <1>1, <2>1, <2>2, StartedIsBelow DEF Started
  <2>4. d.pid \in Nodes
    BY <1>1, <2>2, DetectedIn, MatchedIs DEF IInv
  <2>5. o = d.pid \/ \E e \in Detected : e.pid = o /\ o \in Nodes /\ d.pid \in Subtree(o)
    BY <2>2, <2>4, OwnerIsAbove
  <2>6. p \in Subtree(o)
    BY <2>3, <2>5, SubtreeTrans
  <2>7. o # p
    <3> SUFFICES ASSUME o = p PROVE FALSE
      OBVIOUS
    <3>1. PICK e \in Detected : e.pid = p /\ d.pid \in Subtree(p)
      BY <2>3, <2>5
    <3>2. d.pid \in Descendants(e.pid) /\ e.pid \in Descendants(d.pid)
      BY <2>3, <3>1 DEF Descendants
    <3> QED BY <1>1, <3>1, <3>2, NotBelowEachOther DEF IInv
  <2>8. o \in Owners(p, roots)
    BY <2>2, <2>6, <2>7 DEF Owners
  <2>9. o # Nobody
    BY <2>4, <2>5, AgentsAssumption DEF Nodes
  <2>10. PICK aged \in SUBSET Builds : \E k \in Truncated(Qualified(roots, aged)) :
           inventory'.workloads = Workloads(roots, k)
    BY <1>1, PublishedInventory
  <2> HIDE DEF roots, o
  <2>11. PICK kept \in Truncated(Qualified(roots, aged)) :
           inventory'.workloads = Workloads(roots, kept)
    BY <2>10
  <2>12. p \in Qualified(roots, aged)
    BY <1>1, <2>8 DEF Qualified
  <2>13. CASE p \in kept
    <3>1. [pid |-> p, owner |-> o, created |-> seen[p].created] \in Workloads(roots, kept)
      BY <2>8, <2>13 DEF Workloads
    <3>2. PICK w : w = [pid |-> p, owner |-> o, created |-> seen[p].created]
      OBVIOUS
    <3>3. w.pid = p /\ w.owner = o
      BY ONLY <3>2
    <3> QED BY <2>9, <2>11, <3>1, <3>2, <3>3
  <2>14. CASE p \notin kept
    <3>1. Cardinality(kept) = MaxWorkloads /\ \A k \in kept : seen[k].created >= seen[p].created
      BY <2>12, <2>14, KeptOrNewer
    <3>2. ASSUME NEW w \in Workloads(roots, kept)
          PROVE  w.pid \in kept /\ w.created = seen[w.pid].created
      <4>1. PICK b \in kept : \E from : w = [pid |-> b, owner |-> from, created |-> seen[b].created]
        BY DEF Workloads
      <4>2. w.pid = b /\ w.created = seen[b].created
        BY ONLY <4>1
      <4> QED BY <4>2
    <3>3. ASSUME NEW b \in kept PROVE \E w \in Workloads(roots, kept) : w.pid = b
      <4>1. PICK from : from \in IF Owners(b, roots) # {} THEN Owners(b, roots) ELSE {Nobody}
        OBVIOUS
      <4>2. [pid |-> b, owner |-> from, created |-> seen[b].created] \in Workloads(roots, kept)
        BY <4>1 DEF Workloads
      <4>3. PICK w : w = [pid |-> b, owner |-> from, created |-> seen[b].created]
        OBVIOUS
      <4>4. w.pid = b
        BY ONLY <4>3
      <4> QED BY <4>2, <4>3, <4>4
    <3>4. {w.pid : w \in Workloads(roots, kept)} = kept
      BY <3>2, <3>3
    <3> QED BY <2>11, <3>1, <3>2, <3>4
  <2> QED BY <2>13, <2>14
<1>2. IInv /\ [Next]_vars =>
        [Published => \A p \in steady :
            p \in Builds
              /\ (\E i \in inventory'.agents : i.conf >= High /\ i.pid \in steady /\ Started(i.pid, p))
            => \/ \E w \in inventory'.workloads : w.pid = p /\ w.owner # Nobody
               \/ /\ Cardinality({w.pid : w \in inventory'.workloads}) = MaxWorkloads
                  /\ \A w \in inventory'.workloads : w.created >= seen[p].created]_vars
  BY <1>1
<1> QED BY <1>2, Inductive, PTL DEF Spec, OwnedBuildsAreProtected

\* Whoever launches whom: where the numbers that were used again close no loop, an
\* agent that its name gives away keeps the machine in WORKING, by itself or by one
\* it has launched, if no signature takes back what another one found.
THEOREM AgentsAreProtected ==
  ASSUME LooksOnlyAdd
  PROVE  Spec => RunningAgentWarrantsWorking
<1>1. ASSUME IInv, [Next]_vars, Published, Acyclic, NEW p \in steady,
             Verdicts[<<live[p].kind, {}, {}>>][NoLook][{}].conf >= High
      PROVE  WarrantsWorking(inventory')
  <2>1. pc = "open" /\ inventory'.agents = Instances(Detected)
    BY <1>1, PublishedInventory
  <2>2. p \in Nodes /\ seen[p].kind = live[p].kind
    BY <1>1, <2>1 DEF IInv, SnapshotIsTrue
  <2>3. /\ Own(p) \in Looks /\ Parent(p) \in Looks \cup {NoLook} /\ Below(p) \in Broods
        /\ Own(p)[1] = live[p].kind
    BY <1>1, <2>2, VerdictType DEF IInv, Own
  <2>4. Verdict(p).conf >= High
    BY <1>1, <2>3 DEF LooksOnlyAdd, Verdict
  <2>5. PICK d : d = [pid |-> p, is |-> Verdict(p)]
    OBVIOUS
  <2>6. d.is = Verdict(p)
    BY ONLY <2>5
  <2>7. d \in Matched
    <3>1. Verdict(p) # NoVerdict
      BY <2>4 DEF NoVerdict, Unknown, High
    <3> QED BY <2>2, <2>5, <2>6, <3>1 DEF Matched
  <2>8. PICK q \in Detected : q.is.conf >= High
    BY <1>1, <2>4, <2>6, <2>7, SomeoneRemains DEF IInv
  <2>9. \E i \in Instances(Detected) : i.conf >= High
    <3>1. PICK i :
            i = [pid |-> q.pid, id |-> q.is.id, conf |-> q.is.conf, root |-> Owner(q, Detected),
                 created |-> seen[q.pid].created, command |-> seen[q.pid].command,
                 resume |-> Resume(q)]
      OBVIOUS
    <3>2. i.conf = q.is.conf
      BY ONLY <3>1
    <3> QED BY <2>8, <3>1, <3>2, Zenon DEF Instances
  <2> QED BY <2>1, <2>9 DEF WarrantsWorking
<1>2. IInv /\ [Next]_vars =>
        [Published /\ Acyclic /\ (\E p \in steady :
            Verdicts[<<live[p].kind, {}, {}>>][NoLook][{}].conf >= High)
         => WarrantsWorking(inventory')]_vars
  BY <1>1
<1> QED BY <1>2, Inductive, PTL DEF Spec, RunningAgentWarrantsWorking

\* Agents and the builds below them are protected together.
THEOREM AllWorkIsProtected ==
  ASSUME LooksOnlyAdd
  PROVE  Spec => WorkIsProtected
BY AgentsAreProtected, BuildsAreProtected DEF WorkIsProtected

-----------------------------------------------------------------------------
(* The signatures of interpreters.                                           *)

\* What a signature is made of.
LEMMA SignatureIs ==
  ASSUME NEW id, NEW cap, NEW any_of, NEW all_of, NEW none_of, NEW adapter, NEW s,
         s = Signature(id, cap, any_of, all_of, none_of, adapter)
  PROVE  /\ s = Signature(s.id, s.cap, s.any_of, s.all_of, s.none_of, s.adapter)
         /\ s.id = id
BY DEF Signature

\* A signature with other vetoes keeps all else.
LEMMA OtherVetoes ==
  ASSUME NEW s, s = Signature(s.id, s.cap, s.any_of, s.all_of, s.none_of, s.adapter), NEW more,
         NEW t, t = [s EXCEPT !.none_of = more]
  PROVE  /\ t = Signature(s.id, s.cap, s.any_of, s.all_of, more, s.adapter)
         /\ t.id = s.id /\ t.any_of = s.any_of /\ t.all_of = s.all_of /\ t.none_of = more
<1> DEFINE id == s.id
           cap == s.cap
           any_of == s.any_of
           all_of == s.all_of
           none_of == s.none_of
           adapter == s.adapter
<1>1. s = Signature(id, cap, any_of, all_of, none_of, adapter)
  OBVIOUS
<1> HIDE DEF id, cap, any_of, all_of, none_of, adapter
<1>2. t = Signature(id, cap, any_of, all_of, more, adapter)
  BY <1>1 DEF Signature
<1>3. t.id = id /\ t.any_of = any_of /\ t.all_of = all_of /\ t.none_of = more
  BY ONLY <1>2 DEF Signature
<1> QED BY <1>2, <1>3 DEF id, cap, any_of, all_of, none_of, adapter

\* Every built-in signature is one, and its id is its own.
LEMMA BuiltIn ==
  /\ \A s \in all_signatures : s = Signature(s.id, s.cap, s.any_of, s.all_of, s.none_of, s.adapter)
  /\ \A s, t \in all_signatures : s.id = t.id => s = t
<1> DEFINE Is(s, id) == /\ s = Signature(s.id, s.cap, s.any_of, s.all_of, s.none_of, s.adapter)
                        /\ s.id = id
<1>1. ASSUME NEW s, NEW id, NEW cap, NEW any_of, NEW adapter, s = Simple(id, cap, any_of, adapter)
      PROVE  Is(s, id)
  BY <1>1, SignatureIs DEF Simple
<1>2. Is(claude_code, "claude_code")
  <2>1. ASSUME NEW s, s = claude_code PROVE Is(s, "claude_code")
    BY <2>1, SignatureIs DEF claude_code
  <2> QED BY <2>1
<1>3. Is(codex_native, "codex_native")
  <2>1. ASSUME NEW s, s = codex_native PROVE Is(s, "codex_native")
    BY <1>1, <2>1 DEF codex_native
  <2> QED BY <2>1
<1>4. Is(codex_node, "codex_node")
  <2>1. ASSUME NEW s, s = codex_node PROVE Is(s, "codex_node")
    BY <2>1, SignatureIs DEF codex_node
  <2> QED BY <2>1
<1>5. Is(grok, "grok")
  <2>1. ASSUME NEW s, s = grok PROVE Is(s, "grok")
    BY <1>1, <2>1 DEF grok
  <2> QED BY <2>1
<1>6. Is(gemini, "gemini_cli")
  <2>1. ASSUME NEW s, s = gemini PROVE Is(s, "gemini_cli")
    BY <1>1, <2>1 DEF gemini
  <2> QED BY <2>1
<1>7. Is(copilot_cli, "copilot_cli")
  <2>1. \E cap, any_of, adapter : copilot_cli = Simple("copilot_cli", cap, any_of, adapter)
    BY Zenon DEF copilot_cli
  <2> QED BY <1>1, <2>1
<1>8. Is(aider, "aider")
  <2>1. \E cap, any_of, all_of, none_of, adapter :
          aider = Signature("aider", cap, any_of, all_of, none_of, adapter)
    BY Zenon DEF aider
  <2> QED BY <2>1, SignatureIs
<1>9. Is(opencode, "opencode")
  <2>1. ASSUME NEW s, s = opencode PROVE Is(s, "opencode")
    BY <1>1, <2>1 DEF opencode
  <2> QED BY <2>1
<1>10. Is(goose, "goose")
  <2>1. ASSUME NEW s, s = goose PROVE Is(s, "goose")
    BY <1>1, <2>1 DEF goose
  <2> QED BY <2>1
<1>11. Is(amp, "amp")
  <2>1. ASSUME NEW s, s = amp PROVE Is(s, "amp")
    BY <1>1, <2>1 DEF amp
  <2> QED BY <2>1
<1>12. Is(qwen_code, "qwen_code")
  <2>1. ASSUME NEW s, s = qwen_code PROVE Is(s, "qwen_code")
    BY <1>1, <2>1 DEF qwen_code
  <2> QED BY <2>1
<1>13. Is(cline, "cline_cli")
  <2>1. ASSUME NEW s, s = cline PROVE Is(s, "cline_cli")
    BY <1>1, <2>1 DEF cline
  <2> QED BY <2>1
<1>14. Is(cursor_agent, "cursor_agent")
  <2>1. ASSUME NEW s, s = cursor_agent PROVE Is(s, "cursor_agent")
    BY <2>1, SignatureIs DEF cursor_agent
  <2> QED BY <2>1
<1>15. \A s \in all_signatures : s = Signature(s.id, s.cap, s.any_of, s.all_of, s.none_of, s.adapter)
  BY <1>2, <1>3, <1>4, <1>5, <1>6, <1>7, <1>8, <1>9, <1>10, <1>11, <1>12, <1>13, <1>14, Zenon
     DEF all_signatures
<1>16. \A s, t \in all_signatures : s.id = t.id => s = t
  <2>1. /\ claude_code.id = "claude_code" /\ codex_native.id = "codex_native"
        /\ codex_node.id = "codex_node" /\ grok.id = "grok" /\ gemini.id = "gemini_cli"
        /\ copilot_cli.id = "copilot_cli" /\ aider.id = "aider" /\ opencode.id = "opencode"
        /\ goose.id = "goose" /\ amp.id = "amp" /\ qwen_code.id = "qwen_code"
        /\ cline.id = "cline_cli" /\ cursor_agent.id = "cursor_agent"
    BY <1>2, <1>3, <1>4, <1>5, <1>6, <1>7, <1>8, <1>9, <1>10, <1>11, <1>12, <1>13, <1>14
  <2> QED BY ONLY <2>1 DEF all_signatures
<1> QED BY <1>15, <1>16

\* A built-in signature that an interpreter's name may match has the helpers' rules, and
\* each built-in signature has its id for itself.
LEMMA InterpretersHaveVetoes ==
  ASSUME NEW s \in signatures, NEW t \in signatures, s.id = t.id, NeedsHelperVetoes(t)
  PROVE  helper_vetoes \subseteq s.none_of
<1>1. ASSUME NEW c \in all_signatures, NEW x,
             x = IF NeedsHelperVetoes(c) THEN [c EXCEPT !.none_of = c.none_of \cup helper_vetoes] ELSE c
      PROVE  /\ x.id = c.id /\ x.any_of = c.any_of /\ x.all_of = c.all_of
             /\ NeedsHelperVetoes(c) => x.none_of = c.none_of \cup helper_vetoes
  <2>1. c = Signature(c.id, c.cap, c.any_of, c.all_of, c.none_of, c.adapter)
    BY BuiltIn
  <2>2. CASE NeedsHelperVetoes(c)
    <3>1. x = [c EXCEPT !.none_of = c.none_of \cup helper_vetoes]
      BY <1>1, <2>2
    <3> QED BY <2>1, <3>1, OtherVetoes
  <2> QED BY <1>1, <2>2
<1>2. PICK c \in all_signatures :
        s = IF NeedsHelperVetoes(c) THEN [c EXCEPT !.none_of = c.none_of \cup helper_vetoes] ELSE c
  BY DEF signatures
<1>3. PICK d \in all_signatures :
        t = IF NeedsHelperVetoes(d) THEN [d EXCEPT !.none_of = d.none_of \cup helper_vetoes] ELSE d
  BY DEF signatures
<1>4. s.id = c.id /\ (NeedsHelperVetoes(c) => s.none_of = c.none_of \cup helper_vetoes)
  BY <1>1, <1>2
<1>5. t.id = d.id /\ t.any_of = d.any_of /\ t.all_of = d.all_of
  BY <1>1, <1>3
<1>6. c = d
  BY <1>4, <1>5, BuiltIn
<1>7. NeedsHelperVetoes(d)
  BY <1>5 DEF NeedsHelperVetoes
<1> QED BY <1>4, <1>6, <1>7

\* Among the signatures that are used, too, unless the user has replaced it.
LEMMA CompiledHaveVetoes ==
  ASSUME NEW s \in Compiled, s.id \in InterpreterIds
  PROVE  helper_vetoes \subseteq s.none_of
<1>1. PICK c \in Configured :
        s = [c EXCEPT !.any_of = Compilable(@), !.all_of = Compilable(@), !.none_of = Compilable(@)]
  BY DEF Compiled
<1>2. c = Signature(c.id, c.cap, c.any_of, c.all_of, c.none_of, c.adapter)
  <2>1. CASE c \in UserSignatures
    BY <2>1, SignaturesAssumption
  <2>2. CASE c \in signatures
    <3>1. PICK d \in all_signatures :
            c = IF NeedsHelperVetoes(d) THEN [d EXCEPT !.none_of = d.none_of \cup helper_vetoes] ELSE d
      BY <2>2 DEF signatures
    <3>2. d = Signature(d.id, d.cap, d.any_of, d.all_of, d.none_of, d.adapter)
      BY BuiltIn
    <3>3. CASE NeedsHelperVetoes(d)
      <4>1. c = [d EXCEPT !.none_of = d.none_of \cup helper_vetoes]
        BY <3>1, <3>3
      <4>2. c = Signature(d.id, d.cap, d.any_of, d.all_of, d.none_of \cup helper_vetoes, d.adapter)
        BY <3>2, <4>1, OtherVetoes
      <4> QED BY <4>2, SignatureIs
    <3> QED BY <3>1, <3>2, <3>3
  <2> QED BY <2>1, <2>2 DEF Configured
<1>3. s.id = c.id /\ s.none_of = Compilable(c.none_of)
  <2> DEFINE id == c.id
             cap == c.cap
             any_of == c.any_of
             all_of == c.all_of
             none_of == c.none_of
             adapter == c.adapter
  <2>1. c = Signature(id, cap, any_of, all_of, none_of, adapter)
    BY <1>2
  <2>2. s = [c EXCEPT !.any_of = Compilable(any_of), !.all_of = Compilable(all_of),
                      !.none_of = Compilable(none_of)]
    BY <1>1, <2>1 DEF Signature
  <2> HIDE DEF id, cap, any_of, all_of, none_of, adapter
  <2>3. s.id = id /\ s.none_of = Compilable(none_of)
    BY ONLY <2>1, <2>2 DEF Signature
  <2> QED BY <2>3 DEF id, none_of
<1>4. c \in signatures
  BY <1>3 DEF InterpreterIds, Configured
<1>5. PICK t \in signatures : NeedsHelperVetoes(t) /\ t.id = c.id
  BY <1>3 DEF InterpreterIds
<1>6. helper_vetoes \subseteq c.none_of
  BY <1>4, <1>5, InterpretersHaveVetoes
<1>7. Compilable(helper_vetoes) = helper_vetoes
  BY SignaturesAssumption DEF Compilable
<1> QED BY <1>3, <1>6, <1>7 DEF Compilable

\* No sweep takes a server of which it read the command line for an agent that is known
\* as an interpreter with a package, whatever else the command line says and whichever
\* process had the number before: what was read is what the server was started with,
\* and the helpers' rules weigh more than all that speaks for it.
THEOREM HelpersAreLeftOut == Spec => HelpersAreNoInterpretedAgents
<1>1. ASSUME IInv, [Next]_vars, Published, NEW i \in inventory'.agents,
             i.pid \in steady, i.command # {}, live[i.pid].kind \in Helpers, i.id \in InterpreterIds
      PROVE  FALSE
  <2>1. pc = "open" /\ i \in Instances(Detected)
    BY <1>1, PublishedInventory
  <2>2. PICK d \in Detected : i.pid = d.pid /\ i.id = d.is.id /\ i.command = seen[d.pid].command
    BY <2>1, InstanceIs
  <2> DEFINE p == d.pid
             look == View(Own(p), Parent(p), Below(p))
  <2>3. p \in Nodes /\ d.is = Verdict(p) /\ d.is # NoVerdict
    BY <1>1, DetectedIn, MatchedIs DEF IInv
  <2>4. seen[p].command = Texts[live[p].kind].command
    BY <1>1, <2>1, <2>2 DEF IInv, SnapshotIsTrue
  <2>5. Own(p) \in Looks /\ Parent(p) \in Looks \cup {NoLook} /\ Below(p) \in Broods
    BY <1>1, <2>3, VerdictType DEF IInv
  <2>6. Verdict(p) = Inspect(look)
    BY <2>5 DEF Verdict, Verdicts
  <2>7. Hits(look) = {} \/ Best(Hits(look), look) \in Hits(look)
    BY <2>5, VerdictAssumption
  <2>8. PICK r \in helper_vetoes : r.field = "command_line" /\ r.pattern \in seen[p].command
    BY <1>1, <2>2, <2>4 DEF Helpers
  <2>9. look.self.command = seen[p].command
    BY DEF View, TextsSeen, Own
  <2> HIDE DEF look
  <2>10. Matches(r, look)
    BY <2>8, <2>9 DEF Matches, Text
  <2> DEFINE best == Best(Hits(look), look)
  <2>11. Hits(look) # {} /\ i.id = best.id
    <3>1. Inspect(look) # NoVerdict
      BY <2>3, <2>6
    <3>2. Inspect(look) = [id |-> best.id, conf |-> Confidence(best, ScoreOf(best, look)),
                           score |-> ScoreOf(best, look)] /\ Hits(look) # {}
      BY <3>1, Zenon DEF Inspect
    <3> HIDE DEF best
    <3>3. Inspect(look).id = best.id
      BY ONLY <3>2
    <3> QED BY <2>2, <2>3, <2>6, <3>2, <3>3
  <2>12. best \in Hits(look)
    BY <2>7, <2>11
  <2> HIDE DEF best
  <2>13. best \in Compiled /\ ~Vetoed(best, look)
    BY <2>12 DEF Hits
  <2>14. r \in best.none_of
    BY <1>1, <2>8, <2>11, <2>13, CompiledHaveVetoes
  <2> QED BY <2>10, <2>13, <2>14 DEF Vetoed
<1>2. IInv /\ [Next]_vars =>
        [Published => \A i \in inventory'.agents :
            i.pid \in steady /\ i.command # {} /\ live[i.pid].kind \in Helpers
              => i.id \notin InterpreterIds]_vars
  BY <1>1
<1> QED BY <1>2, Inductive, PTL DEF Spec, HelpersAreNoInterpretedAgents

=============================================================================
