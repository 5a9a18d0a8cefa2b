--------------------------- MODULE StartupProofs ---------------------------
(***************************************************************************)
(* What a start concludes is so, for any configuration file, machine,      *)
(* registry and past: the lists that are picked from lists, what is made   *)
(* of a configuration, what is read from the event log, seen of the links  *)
(* and reported of the machine.  At the end the state file that the        *)
(* runtime keeps: its document is atomic, and what was set aside first is  *)
(* kept, for any number of attempts, names, saves, crashes and faults.     *)
(***************************************************************************)
EXTENDS Startup, StateFile, FiniteSetTheorems, FunctionTheorems, TLAPS

-----------------------------------------------------------------------------
(* Lists.                                                                    *)

LEMMA UpTo ==
  ASSUME NEW n \in Nat
  PROVE  IsFiniteSet(1 .. n) /\ Cardinality(1 .. n) = n
<1>1. 1 \in Int /\ n \in Int /\ n >= 0
  OBVIOUS
<1>2. IsFiniteSet(1 .. n) /\ Cardinality(1 .. n) = IF 1 > n THEN 0 ELSE n - 1 + 1
  BY <1>1, FS_Interval
<1> QED BY <1>1, <1>2

\* A finite set is enumerated by any strict order of all its members.
IsOrder(S, before) ==
    /\ \A i \in S : <<i, i>> \notin before
    /\ \A i, j \in S : i # j => <<i, j>> \in before \/ <<j, i>> \in before
    /\ \A i, j, k \in S : <<i, j>> \in before /\ <<j, k>> \in before => <<i, k>> \in before

Rank(S, before) == [i \in S |-> Cardinality({j \in S : <<j, i>> \in before})]

LEMMA RankIsInjective ==
  ASSUME NEW S, IsFiniteSet(S), NEW before, IsOrder(S, before)
  PROVE  /\ Cardinality(S) \in Nat
         /\ Rank(S, before) \in Bijection(S, 0 .. (Cardinality(S) - 1))
<1> DEFINE down(i) == {j \in S : <<j, i>> \in before}
           n == Cardinality(S)
<1>1. n \in Nat
  BY FS_CardinalityType
<1>2. ASSUME NEW i \in S PROVE IsFiniteSet(down(i)) /\ Cardinality(down(i)) \in 0 .. (n - 1)
  <2>1. down(i) \subseteq S /\ i \notin down(i)
    BY DEF IsOrder
  <2>2. IsFiniteSet(down(i)) /\ Cardinality(down(i)) <= n /\ (n = Cardinality(down(i)) => S = down(i))
    BY <2>1, FS_Subset
  <2>3. Cardinality(down(i)) \in Nat
    BY <2>2, FS_CardinalityType
  <2> QED BY <2>1, <2>2, <2>3, <1>1
<1>3. ASSUME NEW i \in S, NEW j \in S, <<i, j>> \in before
      PROVE  Cardinality(down(i)) # Cardinality(down(j))
  <2>1. down(i) \subseteq down(j) /\ i \in down(j) /\ i \notin down(i)
    BY <1>3 DEF IsOrder
  <2> QED BY <2>1, <1>2, FS_Subset
<1>4. Rank(S, before) \in [S -> 0 .. (n - 1)]
  BY <1>2 DEF Rank
<1>5. ASSUME NEW i \in S, NEW j \in S, i # j PROVE Rank(S, before)[i] # Rank(S, before)[j]
  BY <1>3, <1>5 DEF IsOrder, Rank
<1>6. Rank(S, before) \in Injection(S, 0 .. (n - 1))
  BY <1>4, <1>5 DEF Injection, IsInjective
<1>7. IsFiniteSet(0 .. (n - 1)) /\ Cardinality(0 .. (n - 1)) = n
  BY <1>1, FS_Interval
<1> QED BY <1>1, <1>6, <1>7, FS_Injection DEF Bijection

LEMMA RankedIsBijection ==
  ASSUME NEW S, IsFiniteSet(S), NEW before, IsOrder(S, before)
  PROVE  /\ Cardinality(S) \in Nat
         /\ Ranked(S, before) \in [1 .. Cardinality(S) -> S]
         /\ \A i \in S : \E k \in 1 .. Cardinality(S) : Ranked(S, before)[k] = i
         /\ \A k \in 1 .. Cardinality(S) :
              Cardinality({j \in S : <<j, Ranked(S, before)[k]>> \in before}) = k - 1
         /\ \A k, l \in 1 .. Cardinality(S) : k < l => <<Ranked(S, before)[k], Ranked(S, before)[l]>> \in before
<1> DEFINE n == Cardinality(S)
           R == Ranked(S, before)
           down(i) == {j \in S : <<j, i>> \in before}
<1>1. n \in Nat
  BY RankIsInjective
<1> DEFINE r == Rank(S, before)
<1>a. r \in Bijection(S, 0 .. (n - 1)) /\ \A i \in S : r[i] = Cardinality(down(i))
  BY RankIsInjective DEF Rank
<1> HIDE DEF r
<1>2. /\ \A i \in S : Cardinality(down(i)) \in 0 .. (n - 1)
      /\ \A i, j \in S : Cardinality(down(i)) = Cardinality(down(j)) => i = j
      /\ \A k \in 0 .. (n - 1) : \E i \in S : Cardinality(down(i)) = k
  <2> HIDE DEF n, down
  <2> QED BY <1>a DEF Bijection, Injection, Surjection, IsInjective
<1>3. ASSUME NEW k \in 1 .. n PROVE R[k] \in S /\ Cardinality(down(R[k])) = k - 1
  <2>1. k - 1 \in 0 .. (n - 1)
    BY <1>1
  <2> QED BY <1>2, <2>1 DEF Ranked
<1>4. ASSUME NEW i \in S PROVE \E k \in 1 .. n : R[k] = i
  <2>1. PICK m \in 0 .. (n - 1) : m = Cardinality(down(i))
    BY <1>2
  <2>2. m + 1 \in 1 .. n /\ (m + 1) - 1 = m
    BY <1>1
  <2> QED BY <2>1, <2>2, <1>3, <1>2
<1>5. ASSUME NEW k \in 1 .. n, NEW l \in 1 .. n, k < l PROVE <<R[k], R[l]>> \in before
  <2>1. R[k] # R[l]
    <3> HIDE DEF R, n, down
    <3> QED BY <1>1, <1>3, <1>5
  <2>2. CASE <<R[l], R[k]>> \in before
    <3>1. down(R[l]) \subseteq down(R[k])
      BY <1>3, <2>2 DEF IsOrder
    <3>2. IsFiniteSet(down(R[k]))
      BY FS_Subset
    <3>3. Cardinality(down(R[l])) <= Cardinality(down(R[k]))
      BY <3>1, <3>2, FS_Subset
    <3> QED BY <3>3, <1>1, <1>3, <1>5
  <2> QED BY <2>1, <2>2, <1>3 DEF IsOrder
<1>6. R \in [1 .. n -> S]
  BY <1>3 DEF Ranked
<1> QED BY <1>1, <1>3, <1>4, <1>5, <1>6

LEMMA EarlierIsOrder ==
  ASSUME NEW S \in SUBSET Nat
  PROVE  IsOrder(S, Earlier(S)) /\ \A i, j \in S : <<i, j>> \in Earlier(S) <=> i < j
<1>1. \A i, j \in S : <<i, j>> \in Earlier(S) <=> i < j
  BY DEF Earlier
<1>2. \A i \in S : i \in Nat
  OBVIOUS
<1> QED BY <1>1, <1>2 DEF IsOrder

LEMMA PickedList ==
  ASSUME NEW T, NEW list \in Seq(T), NEW kept \in SUBSET DOMAIN list
  PROVE  /\ Picked(list, kept) \in Seq(T) /\ Len(Picked(list, kept)) = Cardinality(kept)
         /\ Cardinality(kept) \in Nat /\ Cardinality(kept) <= Len(list)
         /\ DOMAIN Picked(list, kept) = 1 .. Cardinality(kept)
         /\ \A k \in DOMAIN Picked(list, kept) : \E i \in kept : Picked(list, kept)[k] = list[i]
         /\ \A i \in kept : \E k \in DOMAIN Picked(list, kept) : Picked(list, kept)[k] = list[i]
         /\ \A k, l \in DOMAIN Picked(list, kept) : k < l =>
              \E i, j \in kept : i < j /\ Picked(list, kept)[k] = list[i] /\ Picked(list, kept)[l] = list[j]
         /\ Cardinality(kept) = Len(list) => Picked(list, kept) = list /\ kept = DOMAIN list
<1> DEFINE c == Cardinality(kept)
           R == Ranked(kept, Earlier(kept))
           P == Picked(list, kept)
           n == Len(list)
<1>1. n \in Nat /\ DOMAIN list = 1 .. n /\ kept \subseteq 1 .. n /\ kept \subseteq Nat
  OBVIOUS
<1>2. IsFiniteSet(1 .. n) /\ Cardinality(1 .. n) = n
  BY <1>1, FS_Interval
<1>3. IsFiniteSet(kept) /\ c <= n /\ (c = n => kept = 1 .. n)
  BY <1>1, <1>2, FS_Subset
<1>4. IsOrder(kept, Earlier(kept)) /\ \A i, j \in kept : <<i, j>> \in Earlier(kept) <=> i < j
  BY <1>1, EarlierIsOrder
<1>5. /\ c \in Nat /\ R \in [1 .. c -> kept]
      /\ \A i \in kept : \E k \in 1 .. c : R[k] = i
      /\ \A k \in 1 .. c : Cardinality({j \in kept : <<j, R[k]>> \in Earlier(kept)}) = k - 1
      /\ \A k, l \in 1 .. c : k < l => <<R[k], R[l]>> \in Earlier(kept)
  BY <1>3, <1>4, RankedIsBijection
<1>6. P = [k \in 1 .. c |-> list[R[k]]]
  BY DEF Picked
<1>7. c = n => \A k \in 1 .. c : R[k] = k
  <2> SUFFICES ASSUME c = n, NEW k \in 1 .. c PROVE R[k] = k
    OBVIOUS
  <2>1. kept = 1 .. n /\ R[k] \in 1 .. n
    BY <1>3, <1>5
  <2>2. {j \in kept : <<j, R[k]>> \in Earlier(kept)} = {j \in 1 .. n : j < R[k]}
    BY <1>4, <1>5, <2>1
  <2>3. {j \in 1 .. n : j < R[k]} = 1 .. (R[k] - 1)
    BY <2>1, <1>1
  <2>4. Cardinality(1 .. (R[k] - 1)) = R[k] - 1
    <3>1. 1 \in Int /\ R[k] - 1 \in Int /\ R[k] >= 1 /\ R[k] \in Int
      BY <2>1, <1>1
    <3>2. Cardinality(1 .. (R[k] - 1)) = IF 1 > R[k] - 1 THEN 0 ELSE R[k] - 1 - 1 + 1
      BY <3>1, FS_Interval
    <3> HIDE DEF R
    <3> QED BY <3>1, <3>2
  <2>5. k - 1 = R[k] - 1
    BY <1>5, <2>2, <2>3, <2>4
  <2> HIDE DEF R, c, n
  <2> QED BY <2>1, <2>5, <1>5, <1>1
<1> HIDE DEF c, R, P, n
<1>8. P \in Seq(T) /\ Len(P) = c /\ DOMAIN P = 1 .. c
  <2>1. \A k \in 1 .. c : list[R[k]] \in T
    BY <1>1, <1>5
  <2> QED BY <2>1, <1>5, <1>6
<1>9. \A k \in DOMAIN P : \E i \in kept : P[k] = list[i]
  BY <1>5, <1>6, <1>8
<1>10. \A i \in kept : \E k \in DOMAIN P : P[k] = list[i]
  BY <1>5, <1>6, <1>8
<1>11. \A k, l \in DOMAIN P : k < l => \E i, j \in kept : i < j /\ P[k] = list[i] /\ P[l] = list[j]
  BY <1>4, <1>5, <1>6, <1>8
<1>12. c = n => P = list /\ kept = DOMAIN list
  BY <1>1, <1>3, <1>5, <1>6, <1>7, <1>8
<1> QED BY <1>1, <1>3, <1>5, <1>8, <1>9, <1>10, <1>11, <1>12 DEF c, n, P

\* Of several members with one id only the first is left.
LEMMA FirstOnes ==
  ASSUME NEW T, NEW list \in Seq(T)
  PROVE  /\ FirstOfEach(list) \in Seq(T) /\ Len(FirstOfEach(list)) <= Len(list)
         /\ Len(FirstOfEach(list)) \in Nat /\ Len(list) \in Nat
         /\ \A k \in DOMAIN FirstOfEach(list) : \E i \in DOMAIN list : FirstOfEach(list)[k] = list[i]
         /\ Distinct(FirstOfEach(list))
         /\ Len(FirstOfEach(list)) = Len(list) => FirstOfEach(list) = list
<1> DEFINE kept == {i \in DOMAIN list : \A j \in 1..(i - 1) : list[j].id # list[i].id}
           F == Picked(list, kept)
<1>1. FirstOfEach(list) = F
  BY DEF FirstOfEach
<1>2. kept \in SUBSET DOMAIN list
  OBVIOUS
<1>3. /\ F \in Seq(T) /\ Len(F) = Cardinality(kept)
      /\ Cardinality(kept) \in Nat /\ Cardinality(kept) <= Len(list)
      /\ \A k \in DOMAIN F : \E i \in kept : F[k] = list[i]
      /\ \A k, l \in DOMAIN F : k < l => \E i, j \in kept : i < j /\ F[k] = list[i] /\ F[l] = list[j]
      /\ Cardinality(kept) = Len(list) => F = list
  <2> HIDE DEF kept
  <2> QED BY <1>2, PickedList
<1>4. \A i, j \in kept : i < j => list[i].id # list[j].id
  <2>1. \A i, j \in kept : i < j => i \in 1 .. (j - 1)
    OBVIOUS
  <2> QED BY <2>1
<1> HIDE DEF kept, F
<1>5. \A k, l \in DOMAIN F : k < l => F[k].id # F[l].id
  BY <1>3, <1>4
<1>6. \A k \in DOMAIN F : k \in Int
  BY <1>3
<1>7. Distinct(F)
  BY <1>5, <1>6 DEF Distinct
<1>8. kept \subseteq DOMAIN list
  BY <1>2
<1> QED BY <1>1, <1>3, <1>7, <1>8

LEMMA TruncatedList ==
  ASSUME NEW T, NEW list \in Seq(T), NEW max \in Nat
  PROVE  /\ Truncated(list, max) \in Seq(T)
         /\ Len(Truncated(list, max)) \in Nat /\ Len(Truncated(list, max)) <= max
         /\ Len(Truncated(list, max)) <= Len(list)
         /\ \A k \in DOMAIN Truncated(list, max) :
              k \in DOMAIN list /\ Truncated(list, max)[k] = list[k]
         /\ Len(list) <= max => Truncated(list, max) = list
<1>1. Len(list) \in Nat /\ AtMost(Len(list), max) \in Nat /\ AtMost(Len(list), max) <= Len(list)
      /\ AtMost(Len(list), max) <= max /\ (Len(list) <= max => AtMost(Len(list), max) = Len(list))
  BY DEF AtMost
<1> DEFINE m == AtMost(Len(list), max)
<1>2. Truncated(list, max) = [k \in 1 .. m |-> list[k]]
  BY <1>1 DEF Truncated
<1> HIDE DEF m
<1>3. Len(Truncated(list, max)) = m /\ DOMAIN Truncated(list, max) = 1 .. m
      /\ Truncated(list, max) \in Seq(T)
  BY <1>1, <1>2 DEF m
<1>4. m = Len(list) => Truncated(list, max) = list
  BY <1>2
<1> QED BY <1>1, <1>2, <1>3, <1>4 DEF m

LEMMA AcceptedPatterns ==
  ASSUME NEW patterns \in Seq(Patterns)
  PROVE  /\ Accepted(patterns) \in Seq(Patterns) /\ Len(Accepted(patterns)) \in Nat
         /\ \A k \in DOMAIN Accepted(patterns) : validate_pattern(Accepted(patterns)[k])
         /\ (\A i \in DOMAIN patterns : validate_pattern(patterns[i])) => Accepted(patterns) = patterns
<1> DEFINE kept == {i \in DOMAIN patterns : validate_pattern(patterns[i])}
           Those == Picked(patterns, kept)
<1>1. Accepted(patterns) = Those
  BY DEF Accepted
<1>2. kept \in SUBSET DOMAIN patterns
  OBVIOUS
<1>3. /\ Those \in Seq(Patterns) /\ \A k \in DOMAIN Those : \E i \in kept : Those[k] = patterns[i]
      /\ Cardinality(kept) = Len(patterns) => Those = patterns
  BY <1>2, PickedList, Zenon
<1>4. (\A i \in DOMAIN patterns : validate_pattern(patterns[i])) => kept = 1 .. Len(patterns)
  OBVIOUS
<1>5. Cardinality(1 .. Len(patterns)) = Len(patterns)
  <2>1. 1 \in Int /\ Len(patterns) \in Int /\ Len(patterns) >= 0
    OBVIOUS
  <2>2. Cardinality(1 .. Len(patterns)) = IF 1 > Len(patterns) THEN 0 ELSE Len(patterns) - 1 + 1
    BY <2>1, FS_Interval
  <2> QED BY <2>1, <2>2
<1>6. \A i \in kept : validate_pattern(patterns[i])
  OBVIOUS
<1> HIDE DEF kept, Those
<1>7. Len(Those) \in Nat
  BY <1>3
<1>8. \A k \in DOMAIN Those : validate_pattern(Those[k])
  BY <1>3, <1>6
<1>9. (\A i \in DOMAIN patterns : validate_pattern(patterns[i])) => Those = patterns
  BY <1>3, <1>4, <1>5
<1> QED BY <1>1, <1>3, <1>7, <1>8, <1>9

\* The first of each id among the members that are kept.
LEMMA FirstPicked ==
  ASSUME NEW T, NEW list \in Seq(T), NEW kept \in SUBSET DOMAIN list
  PROVE  LET F == FirstOfEach(Picked(list, kept))
         IN  /\ F \in Seq(T) /\ Len(F) \in Nat /\ Len(F) <= Len(list) /\ Distinct(F)
             /\ DOMAIN F = 1 .. Len(F)
             /\ \A k \in DOMAIN F : \E i \in kept : F[k] = list[i]
             /\ Len(F) = Len(list) => F = list /\ kept = DOMAIN list
<1> DEFINE P == Picked(list, kept)
           F == FirstOfEach(P)
<1>1. /\ P \in Seq(T) /\ Len(P) = Cardinality(kept)
      /\ Cardinality(kept) \in Nat /\ Cardinality(kept) <= Len(list)
      /\ \A k \in DOMAIN P : \E i \in kept : P[k] = list[i]
      /\ Cardinality(kept) = Len(list) => P = list /\ kept = DOMAIN list
  BY PickedList
<1> HIDE DEF P
<1>2. /\ F \in Seq(T) /\ Len(F) \in Nat /\ Len(F) <= Len(P) /\ Distinct(F)
      /\ \A k \in DOMAIN F : \E i \in DOMAIN P : F[k] = P[i]
      /\ Len(F) = Len(P) => F = P
  BY <1>1, FirstOnes
<1>3. Len(list) \in Nat
  OBVIOUS
<1> HIDE DEF F
<1>4. Len(F) = Len(list) => F = list /\ kept = DOMAIN list
  BY <1>1, <1>2, <1>3
<1>5. DOMAIN F = 1 .. Len(F)
  BY <1>2
<1>6. Len(F) <= Len(list)
  BY <1>1, <1>2, <1>3
<1> QED BY <1>1, <1>2, <1>4, <1>5, <1>6 DEF F, P

-----------------------------------------------------------------------------
(* The lists of a configuration.                                             *)

LEMMA Limits == MaxProbes \in Nat /\ MaxProbes > 0 /\ MaxSignatures \in Nat /\ MaxVetoes \in Nat
BY ConfigAssumption

LEMMA ClampedIn ==
  ASSUME NEW n \in Nat, NEW a \in Nat, NEW b \in Nat, a <= b
  PROVE  /\ Clamped(n, <<a, b>>) \in Nat /\ Clamped(n, <<a, b>>) >= a /\ Clamped(n, <<a, b>>) <= b
<1>1. Clamped(n, <<a, b>>) = AtMost(AtLeast(n, a), b)
  BY DEF Clamped
<1>2. LET c == AtMost(AtLeast(n, a), b) IN c \in Nat /\ c >= a /\ c <= b
  BY DEF AtMost, AtLeast
<1> QED BY <1>1, <1>2

LEMMA DefaultWords ==
  /\ "alidns-tcp" \in Words /\ "none" \in Words /\ "info" \in Words
  /\ Levels \subseteq Words /\ "local" \in Words /\ "share" \in Words
BY StartupAssumption DEF default_probes, DefaultDocument

LEMMA ProbeIsRepaired ==
  ASSUME NEW p \in ProbeEntries, GoodProbe(p)
  PROVE  /\ RepairedProbe(p) \in ProbeEntries /\ RepairedProbe(p).id = p.id
         /\ UsableProbe(RepairedProbe(p))
<1> DEFINE t == Clamped(p.timeout_ms, <<250, 30000>>)
           q == RepairedProbe(p)
<1>1. p.timeout_ms \in Nat
  BY DEF ProbeEntries
<1>2. t \in Nat /\ t > 0 /\ t <= 30000
  <2>1. 250 \in Nat /\ 30000 \in Nat /\ 250 <= 30000
    OBVIOUS
  <2>2. t \in Nat /\ t >= 250 /\ t <= 30000
    BY ONLY <1>1, <2>1, ClampedIn
  <2> HIDE DEF t
  <2> QED BY ONLY <2>2
<1>3. q = p \/ q = [p EXCEPT !.timeout_ms = t]
  BY DEF RepairedProbe
<1>4. (p.timeout_ms > 0 /\ p.timeout_ms <= 30000) \/ q = [p EXCEPT !.timeout_ms = t]
  <2>1. CASE p.timeout_ms = 0 \/ p.timeout_ms > 30000
    <3>1. q = [p EXCEPT !.timeout_ms = t]
      BY ONLY <2>1 DEF RepairedProbe
    <3> QED BY <3>1
  <2>2. CASE ~(p.timeout_ms = 0 \/ p.timeout_ms > 30000)
    <3>1. \A n \in Nat : ~(n = 0 \/ n > 30000) => n > 0 /\ n <= 30000
      OBVIOUS
    <3> QED BY ONLY <2>2, <1>1, <3>1
  <2> QED BY <2>1, <2>2
<1> HIDE DEF q, t
<1>5. q \in ProbeEntries
  BY <1>2, <1>3 DEF ProbeEntries
<1>6. q.id = p.id /\ q.valid = p.valid
  BY <1>3 DEF ProbeEntries
<1>7. q.timeout_ms = t \/ (q.timeout_ms = p.timeout_ms /\ p.timeout_ms > 0 /\ p.timeout_ms <= 30000)
  BY <1>3, <1>4 DEF ProbeEntries
<1>8. GoodProbe(q)
  BY <1>6, Zenon DEF GoodProbe
<1>9. q.timeout_ms > 0 /\ q.timeout_ms <= 30000
  BY ONLY <1>1, <1>2, <1>7
<1>10. UsableProbe(q)
  BY <1>8, <1>9 DEF UsableProbe
<1> QED BY <1>5, <1>6, <1>10 DEF q

LEMMA ProbesAreUsable ==
  ASSUME NEW probes \in Seq(ProbeEntries)
  PROVE  LET P == RepairedProbes(probes)
         IN  /\ P \in Seq(ProbeEntries) /\ Len(P) <= MaxProbes /\ Distinct(P)
             /\ \A i \in DOMAIN P : UsableProbe(P[i])
<1> DEFINE filled == FilledProbes(probes)
           some == Truncated(filled, MaxProbes)
           good == {i \in DOMAIN some : GoodProbe(some[i])}
           K == KeptProbes(probes)
           P == RepairedProbes(probes)
<1>1. filled \in Seq(ProbeEntries)
  <2>1. [id |-> "alidns-tcp", valid |-> TRUE, timeout_ms |-> 3000, enabled |-> TRUE] \in ProbeEntries
    BY DefaultWords DEF ProbeEntries
  <2>2. default_probes \in Seq(ProbeEntries)
    BY <2>1 DEF default_probes
  <2> QED BY <2>2 DEF FilledProbes
<1>2. some \in Seq(ProbeEntries) /\ Len(some) <= MaxProbes /\ Len(some) \in Nat
  BY <1>1, Limits, TruncatedList
<1>3. K = FirstOfEach(Picked(some, good)) /\ good \in SUBSET DOMAIN some
      /\ \A i \in good : GoodProbe(some[i])
  BY DEF KeptProbes
<1> HIDE DEF filled, some, good, K
<1>4. /\ K \in Seq(ProbeEntries) /\ Len(K) \in Nat /\ Len(K) <= Len(some) /\ Distinct(K)
      /\ DOMAIN K = 1 .. Len(K)
      /\ \A k \in DOMAIN K : \E i \in good : K[k] = some[i]
  BY <1>2, <1>3, FirstPicked
<1>5. \A k \in DOMAIN K : K[k] \in ProbeEntries /\ GoodProbe(K[k])
  BY <1>3, <1>4
<1>7. P = [i \in 1 .. Len(K) |-> RepairedProbe(K[i])]
  BY <1>4 DEF RepairedProbes, K
<1>8. P \in Seq(ProbeEntries) /\ Len(P) = Len(K) /\ DOMAIN P = DOMAIN K
  BY <1>4, <1>5, <1>7, ProbeIsRepaired
<1>9. \A i \in DOMAIN P : P[i].id = K[i].id /\ UsableProbe(P[i])
  BY <1>4, <1>5, <1>7, <1>8, ProbeIsRepaired
<1> HIDE DEF P
<1>10. Distinct(P)
  BY <1>4, <1>8, <1>9 DEF Distinct
<1> QED BY <1>2, <1>4, <1>8, <1>9, <1>10, Limits DEF P

LEMMA EmptyList ==
  ASSUME NEW T, NEW list \in Seq(T)
  PROVE  Len(list) \in Nat /\ (Len(list) > 0 <=> list # <<>>)
OBVIOUS

LEMMA SignatureFields ==
  ASSUME NEW s \in SignatureEntries
  PROVE  /\ RepairedSignature(s) =
              [id |-> s.id, any_of |-> Accepted(s.any_of), all_of |-> Accepted(s.all_of),
               none_of |-> Truncated(Accepted(s.none_of), MaxVetoes),
               display_name |-> IF s.display_name = "" THEN s.id ELSE s.display_name,
               user_defined |-> TRUE]
         /\ RepairedSignature(s) \in SignatureEntries
         /\ s.any_of \in Seq(Patterns) /\ s.all_of \in Seq(Patterns) /\ s.none_of \in Seq(Patterns)
<1>1. RepairedSignature(s) =
              [id |-> s.id, any_of |-> Accepted(s.any_of), all_of |-> Accepted(s.all_of),
               none_of |-> Truncated(Accepted(s.none_of), MaxVetoes),
               display_name |-> IF s.display_name = "" THEN s.id ELSE s.display_name,
               user_defined |-> TRUE]
  BY DEF RepairedSignature
<1>2. s.any_of \in Seq(Patterns) /\ s.all_of \in Seq(Patterns) /\ s.none_of \in Seq(Patterns)
      /\ s.id \in Words /\ s.display_name \in Words
  BY DEF SignatureEntries
<1>3. Accepted(s.any_of) \in Seq(Patterns) /\ Accepted(s.all_of) \in Seq(Patterns)
      /\ Truncated(Accepted(s.none_of), MaxVetoes) \in Seq(Patterns)
  BY <1>2, AcceptedPatterns, TruncatedList, Limits
<1>4. RepairedSignature(s) \in SignatureEntries
  <2> DEFINE name == IF s.display_name = "" THEN s.id ELSE s.display_name
  <2>1. name \in Words
    BY <1>2
  <2> HIDE DEF name
  <2>2. RepairedSignature(s) =
              [id |-> s.id, any_of |-> Accepted(s.any_of), all_of |-> Accepted(s.all_of),
               none_of |-> Truncated(Accepted(s.none_of), MaxVetoes),
               display_name |-> name, user_defined |-> TRUE]
    BY <1>1 DEF name
  <2> QED BY ONLY <2>1, <2>2, <1>2, <1>3 DEF SignatureEntries
<1> QED BY <1>1, <1>2, <1>4

LEMMA SignatureIsRepaired ==
  ASSUME NEW s \in SignatureEntries, GoodSignature(s)
  PROVE  /\ RepairedSignature(s) \in SignatureEntries /\ RepairedSignature(s).id = s.id /\ s.id # ""
         /\ UsableSignature(RepairedSignature(s))
<1> DEFINE r == RepairedSignature(s)
           a == Accepted(s.any_of)
           b == Accepted(s.all_of)
           c == Truncated(Accepted(s.none_of), MaxVetoes)
<1>1. r.id = s.id /\ r.any_of = a /\ r.all_of = b /\ r.none_of = c /\ r \in SignatureEntries
  BY SignatureFields DEF RepairedSignature
<1>2. /\ a \in Seq(Patterns) /\ b \in Seq(Patterns) /\ Len(a) \in Nat /\ Len(b) \in Nat
      /\ \A i \in DOMAIN a : validate_pattern(a[i])
      /\ \A i \in DOMAIN b : validate_pattern(b[i])
  BY SignatureFields, AcceptedPatterns
<1>3. \A i \in DOMAIN c : validate_pattern(c[i])
  <2>1. /\ Accepted(s.none_of) \in Seq(Patterns)
        /\ \A i \in DOMAIN Accepted(s.none_of) : validate_pattern(Accepted(s.none_of)[i])
    BY SignatureFields, AcceptedPatterns
  <2> QED BY <2>1, TruncatedList, Limits
<1>4. s.id # "" /\ (r.any_of # <<>> \/ r.all_of # <<>>)
  BY DEF GoodSignature
<1> HIDE DEF a, b, c, r
<1>5. Len(a) > 0 \/ Len(b) > 0
  BY <1>1, <1>2, <1>4, EmptyList
<1>6. ~LosesRule(r)
  BY <1>1, <1>2, <1>3 DEF LosesRule
<1>7. Len(r.any_of) + Len(r.all_of) > 0
  BY <1>1, <1>2, <1>5
<1> QED BY <1>1, <1>4, <1>6, <1>7 DEF r, UsableSignature

LEMMA SignaturesAreUsable ==
  ASSUME NEW signatures \in Seq(SignatureEntries)
  PROVE  LET S == RepairedSignatures(signatures)
         IN  /\ S \in Seq(SignatureEntries) /\ Len(S) <= MaxSignatures /\ Distinct(S)
             /\ \A i \in DOMAIN S : UsableSignature(S[i])
<1> DEFINE some == Truncated(signatures, MaxSignatures)
           good == {i \in DOMAIN some : GoodSignature(some[i])}
           K == KeptSignatures(signatures)
           S == RepairedSignatures(signatures)
<1>1. some \in Seq(SignatureEntries) /\ Len(some) <= MaxSignatures /\ Len(some) \in Nat
  BY Limits, TruncatedList
<1>2. K = FirstOfEach(Picked(some, good)) /\ good \in SUBSET DOMAIN some
      /\ \A i \in good : GoodSignature(some[i])
  BY DEF KeptSignatures
<1> HIDE DEF some, good, K
<1>3. /\ K \in Seq(SignatureEntries) /\ Len(K) \in Nat /\ Len(K) <= Len(some) /\ Distinct(K)
      /\ DOMAIN K = 1 .. Len(K)
      /\ \A k \in DOMAIN K : \E i \in good : K[k] = some[i]
  BY <1>1, <1>2, FirstPicked
<1>4. \A k \in DOMAIN K : K[k] \in SignatureEntries /\ GoodSignature(K[k])
  BY <1>2, <1>3
<1>5. S = [i \in 1 .. Len(K) |-> RepairedSignature(K[i])]
  BY <1>3 DEF RepairedSignatures, K
<1>6. S \in Seq(SignatureEntries) /\ Len(S) = Len(K) /\ DOMAIN S = DOMAIN K
  <2>1. \A i \in 1 .. Len(K) : RepairedSignature(K[i]) \in SignatureEntries
    BY <1>3, <1>4, SignatureIsRepaired
  <2> HIDE DEF S
  <2> QED BY <2>1, <1>3, <1>5
<1>7. \A i \in DOMAIN S : S[i].id = K[i].id /\ UsableSignature(S[i])
  BY <1>3, <1>4, <1>5, <1>6, SignatureIsRepaired
<1> HIDE DEF S
<1>8. Distinct(S)
  BY <1>3, <1>6, <1>7 DEF Distinct
<1>9. Len(S) <= MaxSignatures
  BY <1>1, <1>3, <1>6, Limits
<1>10. \A i \in DOMAIN S : UsableSignature(S[i])
  BY <1>7
<1> QED BY <1>6, <1>8, <1>9, <1>10, Zenon DEF S

LEMMA RulesAreUsable ==
  ASSUME NEW rules \in Seq(RuleEntries)
  PROVE  LET R == RepairedRules(rules)
         IN  R \in Seq(RuleEntries) /\ Distinct(R) /\ \A i \in DOMAIN R : GoodRule(R[i])
<1> DEFINE good == {i \in DOMAIN rules : GoodRule(rules[i])}
           R == RepairedRules(rules)
<1>1. R = FirstOfEach(Picked(rules, good)) /\ good \in SUBSET DOMAIN rules
      /\ \A i \in good : GoodRule(rules[i])
  BY DEF RepairedRules
<1> HIDE DEF good, R
<1>2. R \in Seq(RuleEntries) /\ Distinct(R) /\ \A k \in DOMAIN R : \E i \in good : R[k] = rules[i]
  BY <1>1, FirstPicked
<1> QED BY <1>1, <1>2 DEF R

-----------------------------------------------------------------------------
(* The whole document.                                                       *)

LEMMA HugeIsNat == Huge \in Nat
BY DEF Huge

LEMMA BoundsAreBounds ==
  \A f \in Numbers : \E a, b \in Nat : Bounds[f] = <<a, b>> /\ a <= b /\ b <= Huge
<1>1. Huge \in Nat /\ 14400 <= Huge
  BY DEF Huge
<1>2. \A a \in Nat : a <= 14400 => a <= Huge
  BY <1>1
<1>3. 300 <= Huge /\ 3600 <= Huge /\ 64 <= Huge /\ 256 <= Huge
  BY <1>2
<1> QED BY <1>1, <1>3 DEF Bounds, Numbers

LEMMA NumbersAreClamped ==
  ASSUME NEW numbers \in [Numbers -> 0 .. Huge]
  PROVE  /\ ClampedNumbers(numbers) \in [Numbers -> 0 .. Huge]
         /\ InBounds(ClampedNumbers(numbers))
<1>1. Huge \in Nat
  BY HugeIsNat
<1>2. ASSUME NEW f \in Numbers
      PROVE  LET c == Clamped(numbers[f], Bounds[f])
             IN  c \in 0 .. Huge /\ c >= Bounds[f][1] /\ c <= Bounds[f][2]
  <2>1. PICK a \in Nat, b \in Nat : Bounds[f] = <<a, b>> /\ a <= b /\ b <= Huge
    BY BoundsAreBounds
  <2>2. numbers[f] \in Nat
    BY <1>1
  <2>3. LET c == Clamped(numbers[f], <<a, b>>) IN c \in Nat /\ c >= a /\ c <= b
    BY <2>1, <2>2, ClampedIn
  <2>4. Bounds[f][1] = a /\ Bounds[f][2] = b
    BY <2>1
  <2> QED BY <1>1, <2>1, <2>3, <2>4
<1> QED BY <1>2 DEF ClampedNumbers, InBounds

LEMMA ValidatedIsDocument ==
  ASSUME NEW conf \in ConfigDocuments
  PROVE  Validated(conf) \in ConfigDocuments
<1> DEFINE n == ClampedNumbers(conf.numbers)
           t == RoomForLogs(conf.max_total_kib, n)
           p == RepairedProbes(conf.probes)
           s == RepairedSignatures(conf.user_signatures)
           r == RepairedRules(conf.user_workload_rules)
           d == RepairedDir(conf.data_dir)
           l == RepairedLevel(conf.level)
<1>1. n \in [Numbers -> 0 .. Huge] /\ "max_files" \in Numbers
  <2>1. "max_files" \in Numbers
    BY DEF Numbers, Bounds
  <2>2. conf.numbers \in [Numbers -> 0 .. Huge]
    BY DEF ConfigDocuments
  <2> QED BY <2>1, <2>2, NumbersAreClamped
<1>2. t \in Nat
  <2>1. Huge \in Nat
    BY HugeIsNat
  <2>2. n.max_files \in Nat /\ conf.max_total_kib \in Nat
    BY <1>1, <2>1 DEF ConfigDocuments
  <2> HIDE DEF n
  <2> QED BY <2>2 DEF RoomForLogs, AtLeast
<1>3. p \in Seq(ProbeEntries) /\ s \in Seq(SignatureEntries) /\ r \in Seq(RuleEntries)
  <2>1. conf.probes \in Seq(ProbeEntries) /\ conf.user_signatures \in Seq(SignatureEntries)
        /\ conf.user_workload_rules \in Seq(RuleEntries)
    BY DEF ConfigDocuments
  <2>2. p \in Seq(ProbeEntries)
    BY <2>1, ProbesAreUsable
  <2>3. s \in Seq(SignatureEntries)
    BY <2>1, SignaturesAreUsable
  <2>4. r \in Seq(RuleEntries)
    BY <2>1, RulesAreUsable
  <2> QED BY <2>2, <2>3, <2>4
<1>4. d \in Words /\ l \in Words
  <2>1. l \in Levels \cup {"info", "debug"}
    BY DEF RepairedLevel
  <2>2. {"info", "debug"} \subseteq Levels
    BY DEF Levels
  <2> QED BY <2>1, <2>2, DefaultWords DEF RepairedDir
<1>5. Validated(conf) =
        [conf EXCEPT !.schema_version = 1, !.numbers = n, !.max_total_kib = t, !.override_phrase = "set",
                    !.probes = p, !.user_signatures = s, !.user_workload_rules = r,
                    !.data_dir = d, !.level = l]
  BY DEF Validated, CONFIG_SCHEMA_VERSION
<1> HIDE DEF n, t, p, s, r, d, l
<1>6. 1 \in Nat /\ "set" \in {"set", "blank"}
  OBVIOUS
<1>7. Validated(conf) =
        [schema_version |-> 1, protect |-> conf.protect,
         refuse_with_protected_work |-> conf.refuse_with_protected_work,
         override_phrase |-> "set", numbers |-> n, max_total_kib |-> t, probes |-> p,
         user_signatures |-> s, user_workload_rules |-> r, data_dir |-> d, level |-> l,
         unknown |-> conf.unknown, nested |-> conf.nested]
  BY ONLY conf \in ConfigDocuments, <1>5 DEF ConfigDocuments
<1>8. conf.protect \in BOOLEAN /\ conf.refuse_with_protected_work \in BOOLEAN
      /\ conf.unknown \in SUBSET Words /\ conf.nested \in SUBSET Words
  BY DEF ConfigDocuments
<1> QED BY ONLY <1>1, <1>2, <1>3, <1>4, <1>6, <1>7, <1>8 DEF ConfigDocuments

LEMMA ValidatedFields ==
  ASSUME NEW conf \in ConfigDocuments
  PROVE  /\ Validated(conf).schema_version = CONFIG_SCHEMA_VERSION
         /\ Validated(conf).protect = conf.protect
         /\ Validated(conf).refuse_with_protected_work = conf.refuse_with_protected_work
         /\ Validated(conf).override_phrase = "set"
         /\ Validated(conf).numbers = ClampedNumbers(conf.numbers)
         /\ Validated(conf).max_total_kib = RoomForLogs(conf.max_total_kib, ClampedNumbers(conf.numbers))
         /\ Validated(conf).probes = RepairedProbes(conf.probes)
         /\ Validated(conf).user_signatures = RepairedSignatures(conf.user_signatures)
         /\ Validated(conf).user_workload_rules = RepairedRules(conf.user_workload_rules)
         /\ Validated(conf).data_dir = RepairedDir(conf.data_dir)
         /\ Validated(conf).level = RepairedLevel(conf.level)
         /\ Validated(conf).unknown = conf.unknown
BY DEF Validated, ConfigDocuments

LEMMA ValidatedIsUsable ==
  ASSUME NEW conf \in ConfigDocuments
  PROVE  Usable(Validated(conf))
<1> DEFINE v == Validated(conf)
           n == ClampedNumbers(conf.numbers)
           t == conf.max_total_kib
<1>1. v.schema_version = CONFIG_SCHEMA_VERSION /\ v.override_phrase # "blank"
  BY ValidatedFields
<1>2. /\ conf.numbers \in [Numbers -> 0 .. Huge] /\ t \in Nat
      /\ conf.probes \in Seq(ProbeEntries) /\ conf.user_signatures \in Seq(SignatureEntries)
      /\ conf.user_workload_rules \in Seq(RuleEntries)
  BY DEF ConfigDocuments
<1>3. v.numbers = n /\ n \in [Numbers -> 0 .. Huge] /\ InBounds(n)
  BY <1>2, ValidatedFields, NumbersAreClamped
<1>4. v.max_total_kib >= 4 * v.numbers.max_files
  <2>1. "max_files" \in Numbers
    BY DEF Numbers, Bounds
  <2>2. n.max_files \in Nat
    BY <1>3, <2>1, HugeIsNat
  <2>3. v.max_total_kib = AtLeast(t, n.max_files * 4)
    BY ValidatedFields DEF RoomForLogs
  <2> HIDE DEF n, t, v
  <2> QED BY <1>2, <1>3, <2>2, <2>3 DEF AtLeast
<1>5. v.probes \in Seq(ProbeEntries) /\ Len(v.probes) <= MaxProbes /\ Distinct(v.probes)
      /\ \A i \in DOMAIN v.probes : UsableProbe(v.probes[i])
  BY <1>2, ValidatedFields, ProbesAreUsable
<1>6. /\ Len(v.user_signatures) <= MaxSignatures /\ Distinct(v.user_signatures)
      /\ \A i \in DOMAIN v.user_signatures : UsableSignature(v.user_signatures[i])
  BY <1>2, ValidatedFields, SignaturesAreUsable
<1>7. Distinct(v.user_workload_rules)
      /\ \A i \in DOMAIN v.user_workload_rules : GoodRule(v.user_workload_rules[i])
  BY <1>2, ValidatedFields, RulesAreUsable
<1>8. v.level \in Levels
  <2>1. RepairedLevel(conf.level) \in Levels \cup {"info", "debug"}
    BY DEF RepairedLevel
  <2>2. {"info", "debug"} \subseteq Levels
    BY DEF Levels
  <2> QED BY <2>1, <2>2, ValidatedFields
<1> HIDE DEF v, n, t
<1>9. \A p \in ToSet(v.probes) : UsableProbe(p)
  BY <1>5 DEF ToSet
<1>10. \A s \in ToSet(v.user_signatures) : UsableSignature(s)
  BY <1>6 DEF ToSet
<1>11. \A r \in ToSet(v.user_workload_rules) : GoodRule(r)
  BY <1>7 DEF ToSet
<1>12. InBounds(v.numbers)
  BY <1>3
<1>13. \A list \in {v.probes, v.user_signatures, v.user_workload_rules} : Distinct(list)
  BY <1>5, <1>6, <1>7
<1>14. Len(v.probes) <= MaxProbes /\ Len(v.user_signatures) <= MaxSignatures
  BY <1>5, <1>6
<1>15. Usable(v)
  BY ONLY <1>1, <1>4, <1>8, <1>9, <1>10, <1>11, <1>12, <1>13, <1>14, Zenon DEF Usable
<1> QED BY <1>15 DEF v

LEMMA DefaultIsUsable == DefaultDocument \in ConfigDocuments /\ Usable(DefaultDocument)
<1> DEFINE D == DefaultDocument
<1>1. \A a \in Nat : a <= 16384 => a \in 0 .. Huge
  <2>1. Huge \in Nat /\ 16384 <= Huge
    BY DEF Huge
  <2> QED BY ONLY <2>1
<1>2. \A f \in Numbers : D.numbers[f] \in Nat /\ D.numbers[f] <= 16384
  BY DEF DefaultDocument, Numbers, Bounds
<1>3. D.numbers \in [Numbers -> 0 .. Huge]
  <2>1. D.numbers = [f \in Numbers |-> D.numbers[f]]
    BY DEF DefaultDocument, Numbers, Bounds
  <2> HIDE DEF D
  <2> QED BY <1>1, <1>2, <2>1
<1>4. default_probes \in Seq(ProbeEntries) /\ Len(default_probes) = 1
      /\ GoodProbe(default_probes[1]) /\ default_probes[1].timeout_ms = 3000
  <2>1. default_probes = <<[id |-> "alidns-tcp", valid |-> TRUE, timeout_ms |-> 3000, enabled |-> TRUE]>>
    BY DEF default_probes
  <2>2. [id |-> "alidns-tcp", valid |-> TRUE, timeout_ms |-> 3000, enabled |-> TRUE] \in ProbeEntries
    BY DefaultWords DEF ProbeEntries
  <2>3. default_probes \in Seq(ProbeEntries) /\ Len(default_probes) = 1
    BY <2>1, <2>2
  <2>4. default_probes[1].id # "" /\ default_probes[1].valid
    BY <2>1
  <2>5. default_probes[1].timeout_ms = 3000
    BY <2>1
  <2>6. GoodProbe(default_probes[1])
    BY ONLY <2>4, Zenon DEF GoodProbe
  <2> QED BY ONLY <2>3, <2>5, <2>6
<1>5. D = [schema_version |-> D.schema_version, protect |-> D.protect,
           refuse_with_protected_work |-> D.refuse_with_protected_work,
           override_phrase |-> D.override_phrase, numbers |-> D.numbers,
           max_total_kib |-> D.max_total_kib, probes |-> D.probes,
           user_signatures |-> D.user_signatures, user_workload_rules |-> D.user_workload_rules,
           data_dir |-> D.data_dir, level |-> D.level, unknown |-> D.unknown, nested |-> D.nested]
  BY DEF DefaultDocument
<1>6. D.schema_version = CONFIG_SCHEMA_VERSION /\ CONFIG_SCHEMA_VERSION \in Nat
      /\ D.max_total_kib \in Nat
  BY DEF DefaultDocument, CONFIG_SCHEMA_VERSION
<1> HIDE DEF D
<1>7. D \in ConfigDocuments
  <2>1. D.protect \in BOOLEAN /\ D.refuse_with_protected_work \in BOOLEAN
        /\ D.override_phrase \in {"set", "blank"}
    BY DEF D, DefaultDocument
  <2>2. D.data_dir \in Words /\ D.level \in Words /\ D.unknown \in SUBSET Words
        /\ D.nested \in SUBSET Words
    BY DefaultWords DEF D, DefaultDocument
  <2>3. D.probes \in Seq(ProbeEntries) /\ D.user_signatures \in Seq(SignatureEntries)
        /\ D.user_workload_rules \in Seq(RuleEntries)
    BY <1>4 DEF D, DefaultDocument
  <2> QED BY ONLY <1>3, <1>5, <1>6, <2>1, <2>2, <2>3 DEF ConfigDocuments
<1>8. InBounds(D.numbers)
  <2>1. \A a \in Nat : a <= 16384 => a <= Huge
    BY <1>1, HugeIsNat
  <2>2. 120 <= Huge /\ 1 <= Huge /\ 3 <= Huge /\ 4096 <= Huge
    BY ONLY <2>1
  <2> QED BY <2>2 DEF D, DefaultDocument, Bounds, Numbers, InBounds
<1>9. D.max_total_kib >= 4 * D.numbers.max_files
  BY DEF D, DefaultDocument
<1>10. /\ D.probes = default_probes /\ D.user_signatures = <<>> /\ D.user_workload_rules = <<>>
       /\ D.override_phrase # "blank" /\ D.level = "info"
  BY DEF D, DefaultDocument
<1>11. /\ UsableProbe(default_probes[1]) /\ Distinct(default_probes)
       /\ \A p \in ToSet(default_probes) : p = default_probes[1]
  BY <1>4 DEF UsableProbe, Distinct, ToSet
<1>12. Distinct(<<>>) /\ \A x : x \notin ToSet(<<>>)
  BY DEF Distinct, ToSet
<1>13. Len(default_probes) <= MaxProbes /\ Len(<<>>) <= MaxSignatures /\ "info" \in Levels
  BY <1>4, Limits DEF Levels
<1>14. Usable(D)
  BY ONLY <1>6, <1>8, <1>9, <1>10, <1>11, <1>12, <1>13, Zenon DEF Usable
<1> QED BY <1>7, <1>14 DEF D

-----------------------------------------------------------------------------
(* What a load tells.                                                        *)

LEMMA ProbesAreTold ==
  ASSUME NEW probes \in Seq(ProbeEntries), RepairedProbes(probes) # probes
  PROVE  \E issue \in ProbeIssues(probes) : issue[1] = "probes"
<1> DEFINE filled == FilledProbes(probes)
           truncated == Truncated(filled, MaxProbes)
           kept == KeptProbes(probes)
<1>1. probes # <<>> => filled = probes
  BY DEF FilledProbes
<1>2. \/ probes = <<>> \/ truncated # filled \/ kept # truncated \/ RepairedProbes(probes) # kept
  BY <1>1
<1>3. \E issue : issue \in ProbeIssues(probes) /\ issue[1] = "probes"
  <2>1. <<"probes", "warning">> \in ProbeIssues(probes) \/ <<"probes", "corrected">> \in ProbeIssues(probes)
        \/ <<"probes", "rejected">> \in ProbeIssues(probes)
    BY <1>2, Zenon DEF ProbeIssues, Issue
  <2> QED BY <2>1
<1> QED BY <1>3

LEMMA MarkedRecord ==
  ASSUME NEW s \in SignatureEntries, NEW r \in SignatureEntries, r.id = s.id, r.any_of = s.any_of,
         r.all_of = s.all_of, r.none_of = s.none_of, r.display_name = s.display_name,
         r.user_defined = TRUE
  PROVE  r = [s EXCEPT !.user_defined = TRUE]
BY DEF SignatureEntries

LEMMA SignatureIsKept ==
  ASSUME NEW s \in SignatureEntries, s.id # "", s.display_name # "", ~LosesRule(s),
         Len(Accepted(s.none_of)) <= MaxVetoes
  PROVE  RepairedSignature(s) = [s EXCEPT !.user_defined = TRUE]
<1>1. /\ s.any_of \in Seq(Patterns) /\ s.all_of \in Seq(Patterns) /\ s.none_of \in Seq(Patterns)
  BY SignatureFields
<1>2. /\ \A i \in DOMAIN s.any_of : validate_pattern(s.any_of[i])
      /\ \A i \in DOMAIN s.all_of : validate_pattern(s.all_of[i])
      /\ \A i \in DOMAIN s.none_of : validate_pattern(s.none_of[i])
  BY DEF LosesRule
<1>3. Accepted(s.any_of) = s.any_of /\ Accepted(s.all_of) = s.all_of /\ Accepted(s.none_of) = s.none_of
  BY <1>1, <1>2, AcceptedPatterns
<1>4. Truncated(Accepted(s.none_of), MaxVetoes) = s.none_of
  BY <1>1, <1>3, TruncatedList, Limits
<1>5. RepairedSignature(s) =
        [id |-> s.id, any_of |-> s.any_of, all_of |-> s.all_of, none_of |-> s.none_of,
         display_name |-> s.display_name, user_defined |-> TRUE]
  BY <1>3, <1>4 DEF RepairedSignature
<1>6. RepairedSignature(s) \in SignatureEntries
  BY SignatureFields
<1> DEFINE q == RepairedSignature(s)
<1>7. q.id = s.id /\ q.any_of = s.any_of /\ q.all_of = s.all_of /\ q.none_of = s.none_of
      /\ q.display_name = s.display_name
  BY ONLY <1>5
<1>8. q.user_defined = TRUE
  BY ONLY <1>5
<1> HIDE DEF q
<1> QED BY <1>6, <1>7, <1>8, MarkedRecord DEF q

LEMMA SignaturesAreTold ==
  ASSUME NEW signatures \in Seq(SignatureEntries), RepairedSignatures(signatures) # MarkedOnes(signatures)
  PROVE  \E issue \in SignatureIssues(signatures) : issue[1] = "user_signatures"
<1> DEFINE some == Truncated(signatures, MaxSignatures)
           good == {i \in DOMAIN some : GoodSignature(some[i])}
           K == KeptSignatures(signatures)
           lost == Len(RepairedSignatures(signatures)) < Len(some)
           bad == \/ some # signatures
                  \/ \E s \in ToSet(some) : s.id # "" /\ s.display_name = ""
                  \/ \E s \in ToSet(some) : s.id # "" /\ LosesRule(s)
                  \/ \E s \in ToSet(some) : s.id # "" /\ Len(Accepted(s.none_of)) > MaxVetoes
                  \/ lost
<1>1. bad => \E issue : issue \in SignatureIssues(signatures) /\ issue[1] = "user_signatures"
  <2>1. bad => \/ <<"user_signatures", "corrected">> \in SignatureIssues(signatures)
               \/ <<"user_signatures", "rejected">> \in SignatureIssues(signatures)
    BY Zenon DEF SignatureIssues, Issue
  <2> HIDE DEF bad
  <2> QED BY <2>1
<1>2. ASSUME ~bad PROVE FALSE
  <2>1. some = signatures /\ ~lost
    BY <1>2
  <2>2. K = FirstOfEach(Picked(some, good)) /\ good \in SUBSET DOMAIN some
        /\ \A i \in good : GoodSignature(some[i])
    BY DEF KeptSignatures
  <2>3. RepairedSignatures(signatures) = [i \in DOMAIN K |-> RepairedSignature(K[i])]
    BY DEF RepairedSignatures
  <2> HIDE DEF good, K
  <2>4. /\ K \in Seq(SignatureEntries) /\ Len(K) \in Nat /\ Len(K) <= Len(some)
        /\ DOMAIN K = 1 .. Len(K)
        /\ Len(K) = Len(some) => K = some /\ good = DOMAIN some
    BY <2>1, <2>2, FirstPicked
  <2>5. Len(RepairedSignatures(signatures)) = Len(K)
    BY <2>3, <2>4
  <2>6. Len(some) \in Nat
    BY <2>1
  <2>7. K = signatures /\ good = DOMAIN signatures
    BY <2>1, <2>4, <2>5, <2>6
  <2>8. ASSUME NEW i \in DOMAIN signatures
        PROVE  RepairedSignature(signatures[i]) = [signatures[i] EXCEPT !.user_defined = TRUE]
    <3> DEFINE s == signatures[i]
    <3>1. s \in SignatureEntries /\ s \in ToSet(some)
      BY <2>1 DEF ToSet
    <3>2. s.id # ""
      BY <2>1, <2>2, <2>7 DEF GoodSignature
    <3>3. s.display_name # "" /\ ~LosesRule(s) /\ ~(Len(Accepted(s.none_of)) > MaxVetoes)
      BY <1>2, <3>1, <3>2
    <3>4. Len(Accepted(s.none_of)) <= MaxVetoes
      <4>1. Len(Accepted(s.none_of)) \in Nat
        BY <3>1, AcceptedPatterns, SignatureFields
      <4>2. \A a, b \in Nat : ~(a > b) => a <= b
        OBVIOUS
      <4> QED BY ONLY <4>1, <4>2, <3>3, Limits, Zenon
    <3> QED BY <3>1, <3>2, <3>3, <3>4, SignatureIsKept
  <2> QED BY <2>3, <2>7, <2>8 DEF MarkedOnes
<1> QED BY <1>1, <1>2

LEMMA MigratedFields ==
  ASSUME NEW conf \in ConfigDocuments
  PROVE  /\ Migrated(conf) \in ConfigDocuments
         /\ Migrated(conf).protect = conf.protect
         /\ Migrated(conf).refuse_with_protected_work = conf.refuse_with_protected_work
         /\ Migrated(conf).override_phrase = conf.override_phrase
         /\ Migrated(conf).numbers = conf.numbers
         /\ Migrated(conf).max_total_kib = conf.max_total_kib
         /\ Migrated(conf).probes = conf.probes
         /\ Migrated(conf).user_signatures = conf.user_signatures
         /\ Migrated(conf).user_workload_rules = conf.user_workload_rules
         /\ Migrated(conf).data_dir = conf.data_dir
         /\ Migrated(conf).unknown = conf.unknown
<1> DEFINE m == Migrated(conf)
<1>1. m = conf \/ m = [conf EXCEPT !.schema_version = CONFIG_SCHEMA_VERSION]
  BY Zenon DEF Migrated
<1>2. CONFIG_SCHEMA_VERSION \in Nat
  BY DEF CONFIG_SCHEMA_VERSION
<1> HIDE DEF m
<1>3. m \in ConfigDocuments
  BY <1>1, <1>2 DEF ConfigDocuments
<1>4. /\ m.protect = conf.protect /\ m.refuse_with_protected_work = conf.refuse_with_protected_work
      /\ m.override_phrase = conf.override_phrase /\ m.numbers = conf.numbers
      /\ m.max_total_kib = conf.max_total_kib /\ m.probes = conf.probes
      /\ m.user_signatures = conf.user_signatures
      /\ m.user_workload_rules = conf.user_workload_rules
      /\ m.data_dir = conf.data_dir /\ m.unknown = conf.unknown
  BY <1>1 DEF ConfigDocuments
<1> QED BY <1>3, <1>4 DEF m

\* Parsing and moving to the schema leave what is compared.
LEMMA ReadFields ==
  ASSUME NEW conf \in ConfigDocuments
  PROVE  LET m == Migrated(Parsed(conf)) IN
         /\ m \in ConfigDocuments
         /\ m.protect = conf.protect
         /\ m.refuse_with_protected_work = conf.refuse_with_protected_work
         /\ m.override_phrase = conf.override_phrase
         /\ m.numbers = conf.numbers
         /\ m.max_total_kib = conf.max_total_kib
         /\ m.probes = conf.probes
         /\ m.user_signatures = conf.user_signatures
         /\ m.user_workload_rules = conf.user_workload_rules
         /\ m.data_dir = conf.data_dir
         /\ m.unknown = conf.unknown
<1> DEFINE p == Parsed(conf)
<1>1. p = [conf EXCEPT !.nested = {}]
  BY DEF Parsed
<1> HIDE DEF p
<1>2. p \in ConfigDocuments
  BY <1>1 DEF ConfigDocuments
<1>3. /\ p.protect = conf.protect /\ p.refuse_with_protected_work = conf.refuse_with_protected_work
      /\ p.override_phrase = conf.override_phrase /\ p.numbers = conf.numbers
      /\ p.max_total_kib = conf.max_total_kib /\ p.probes = conf.probes
      /\ p.user_signatures = conf.user_signatures
      /\ p.user_workload_rules = conf.user_workload_rules
      /\ p.data_dir = conf.data_dir /\ p.unknown = conf.unknown
  BY <1>1 DEF ConfigDocuments
<1> QED BY <1>2, <1>3, MigratedFields DEF p

LEMMA MarkedFields ==
  ASSUME NEW conf \in ConfigDocuments
  PROVE  /\ DOMAIN Marked(conf) =
              {"schema_version", "protect", "refuse_with_protected_work", "override_phrase", "numbers",
               "max_total_kib", "probes", "user_signatures", "user_workload_rules", "data_dir", "level",
               "unknown", "nested"}
         /\ Marked(conf).protect = conf.protect
         /\ Marked(conf).refuse_with_protected_work = conf.refuse_with_protected_work
         /\ Marked(conf).override_phrase = conf.override_phrase
         /\ Marked(conf).numbers = conf.numbers
         /\ Marked(conf).max_total_kib = conf.max_total_kib
         /\ Marked(conf).probes = conf.probes
         /\ Marked(conf).user_signatures = MarkedOnes(conf.user_signatures)
         /\ Marked(conf).user_workload_rules = conf.user_workload_rules
         /\ Marked(conf).data_dir = conf.data_dir
         /\ Marked(conf).unknown = conf.unknown
BY DEF Marked, ConfigDocuments

\* What a load changes it tells, except for the schema, the spelling of the level,
\* the mark of a signature and the unknown fields within a section.
LEMMA LoadTells ==
  ASSUME NEW conf \in ConfigDocuments
  PROVE  Tells(Issues(Migrated(Parsed(conf))), Marked(conf), Validated(Migrated(Parsed(conf))))
<1> DEFINE m == Migrated(Parsed(conf))
           v == Validated(m)
           w == Marked(conf)
           issues == Issues(m)
           named == {i[1] : i \in issues}
<1>1. m \in ConfigDocuments
  BY ReadFields
<1>2. /\ conf.numbers \in [Numbers -> 0 .. Huge] /\ conf.override_phrase \in {"set", "blank"}
      /\ conf.probes \in Seq(ProbeEntries) /\ conf.user_signatures \in Seq(SignatureEntries)
      /\ conf.user_workload_rules \in Seq(RuleEntries)
  BY DEF ConfigDocuments
<1>3. issues = NumberIssues(m) \cup ListIssues(m) \cup ChoiceIssues(m)
  BY DEF Issues
<1>4. ASSUME NEW f \in Numbers, v.numbers[f] # w.numbers[f] PROVE f \in named
  <2>1. ClampedNumbers(conf.numbers)[f] # conf.numbers[f]
    BY <1>1, <1>4, ReadFields, MarkedFields, ValidatedFields
  <2>2. conf.numbers[f] # Clamped(conf.numbers[f], Bounds[f])
    BY <2>1 DEF ClampedNumbers
  <2>3. <<f, "corrected">> \in NumberIssues(m)
    BY <2>2, ReadFields DEF NumberIssues
  <2>4. <<f, "corrected">>[1] = f
    OBVIOUS
  <2> HIDE DEF issues
  <2> QED BY <1>3, <2>3, <2>4
<1>5. v.max_total_kib # w.max_total_kib => "max_total_kib" \in named
  <2>1. v.max_total_kib # w.max_total_kib => <<"max_total_kib", "corrected">> \in NumberIssues(m)
    BY <1>1, ReadFields, MarkedFields, ValidatedFields DEF NumberIssues, Issue
  <2> HIDE DEF issues
  <2> QED BY <1>3, <2>1
<1>6. v.probes # w.probes => "probes" \in named
  <2>1. v.probes # w.probes => RepairedProbes(conf.probes) # conf.probes
    BY <1>1, ReadFields, MarkedFields, ValidatedFields
  <2>2. ProbeIssues(conf.probes) \subseteq ListIssues(m)
    BY ReadFields DEF ListIssues
  <2> HIDE DEF issues
  <2> QED BY <1>2, <1>3, <2>1, <2>2, ProbesAreTold
<1>7. v.user_signatures # w.user_signatures => "user_signatures" \in named
  <2>1. v.user_signatures # w.user_signatures =>
          RepairedSignatures(conf.user_signatures) # MarkedOnes(conf.user_signatures)
    BY <1>1, ReadFields, MarkedFields, ValidatedFields
  <2>2. SignatureIssues(conf.user_signatures) \subseteq ListIssues(m)
    BY ReadFields DEF ListIssues
  <2> HIDE DEF issues
  <2> QED BY <1>2, <1>3, <2>1, <2>2, SignaturesAreTold
<1>8. v.user_workload_rules # w.user_workload_rules => "user_workload_rules" \in named
  <2>1. v.user_workload_rules # w.user_workload_rules =>
          RepairedRules(conf.user_workload_rules) # conf.user_workload_rules
    BY <1>1, ReadFields, MarkedFields, ValidatedFields
  <2>2. v.user_workload_rules # w.user_workload_rules => <<"user_workload_rules", "rejected">> \in ListIssues(m)
    BY <2>1, ReadFields DEF ListIssues, Issue
  <2> HIDE DEF issues
  <2> QED BY <1>3, <2>2
<1>9. v.override_phrase # w.override_phrase => "override_phrase" \in named
  <2>1. v.override_phrase # w.override_phrase => <<"override_phrase", "corrected">> \in ChoiceIssues(m)
    BY <1>1, <1>2, ReadFields, MarkedFields, ValidatedFields, Zenon DEF ChoiceIssues, Issue
  <2> HIDE DEF issues
  <2> QED BY <1>3, <2>1
<1>10. v.data_dir # w.data_dir => "data_dir" \in named
  <2>1. v.data_dir # w.data_dir => conf.data_dir \notin {"none", "local", "share"}
    BY <1>1, ReadFields, MarkedFields, ValidatedFields DEF RepairedDir
  <2>2. v.data_dir # w.data_dir =>
          <<"data_dir", "corrected">> \in ChoiceIssues(m) \/ <<"data_dir", "rejected">> \in ChoiceIssues(m)
    BY <2>1, ReadFields DEF ChoiceIssues, Issue
  <2> HIDE DEF issues
  <2> QED BY <1>3, <2>2
<1>11. /\ v.protect = w.protect /\ v.refuse_with_protected_work = w.refuse_with_protected_work
       /\ v.unknown = w.unknown
  BY <1>1, ReadFields, MarkedFields, ValidatedFields
<1>12. DOMAIN w \ SilentlyChanged =
         {"protect", "refuse_with_protected_work", "override_phrase", "max_total_kib", "probes",
          "user_signatures", "user_workload_rules", "data_dir", "unknown"}
  BY MarkedFields DEF SilentlyChanged
<1> HIDE DEF v, w, issues
<1>13. \A f \in DOMAIN w \ SilentlyChanged : v[f] # w[f] => f \in named
  BY ONLY <1>5, <1>6, <1>7, <1>8, <1>9, <1>10, <1>11, <1>12
<1> QED BY <1>4, <1>13 DEF Tells, v, w, issues

\* A sorted list holds members of the list only.
LEMMA SortedList ==
  ASSUME NEW T, NEW list \in Seq(T), NEW before, IsOrder(DOMAIN list, before)
  PROVE  /\ DOMAIN Sorted(list, before) = 1 .. Len(list)
         /\ \A k \in DOMAIN Sorted(list, before) : \E i \in DOMAIN list : Sorted(list, before)[k] = list[i]
<1> DEFINE R == Ranked(DOMAIN list, before)
           n == Len(list)
<1>1. n \in Nat /\ DOMAIN list = 1 .. n
  OBVIOUS
<1>2. IsFiniteSet(1 .. n) /\ Cardinality(1 .. n) = n
  BY <1>1, UpTo
<1>3. R \in [1 .. n -> 1 .. n]
  BY <1>1, <1>2, RankedIsBijection
<1>4. Sorted(list, before) = [k \in 1 .. n |-> list[R[k]]]
  BY DEF Sorted
<1> HIDE DEF R, n
<1> QED BY <1>1, <1>3, <1>4 DEF n

-----------------------------------------------------------------------------
(* What the event log has said.                                              *)

Events(log) == {Interpreted(log.records[i]) : i \in DOMAIN log.records}

IsLog(log) ==
    log.records \in Seq(LogRecords)

\* Interpreting a record leaves its id and its time alone.
LEMMA EventFields ==
  ASSUME NEW log, IsLog(log), NEW i \in DOMAIN log.records
  PROVE  /\ Interpreted(log.records[i]).id = log.records[i].id
         /\ Interpreted(log.records[i]).at = log.records[i].at /\ log.records[i].at \in Int
<1>1. Interpreted(log.records[i]).id = log.records[i].id /\ Interpreted(log.records[i]).at = log.records[i].at
  BY Zenon DEF Interpreted
<1>2. log.records[i] \in LogRecords
  BY DEF IsLog
<1>3. log.records[i].at \in Int
  BY <1>2 DEF LogRecords
<1> QED BY <1>1, <1>3

\* A query answers with records of the log that could be read.
LEMMA QueryAnswers ==
  ASSUME NEW log, IsLog(log), NEW query
  PROVE  /\ Query(log, query) \in Seq(Events(log))
         /\ Query(log, query) # <<>> => log.opens
         /\ \A k \in DOMAIN Query(log, query) :
              \E i \in DOMAIN log.records \ log.lost : Query(log, query)[k] = Interpreted(log.records[i])
<1> DEFINE found == {i \in DOMAIN log.records : i \notin log.lost /\ Matches(log.records[i], query)}
           newest == {i \in found : Cardinality({j \in found : j > i}) < query.cap}
           all == [i \in DOMAIN log.records |-> Interpreted(log.records[i])]
           reply == Picked(all, newest)
<1>1. Query(log, query) = IF ~log.opens THEN <<>> ELSE reply
  BY DEF Query
<1>2. all \in Seq(Events(log)) /\ DOMAIN all = DOMAIN log.records
      /\ \A i \in DOMAIN all : all[i] = Interpreted(log.records[i])
  <2>1. DOMAIN log.records = 1 .. Len(log.records) /\ Len(log.records) \in Nat
    BY DEF IsLog
  <2>2. all = [i \in 1 .. Len(log.records) |-> Interpreted(log.records[i])]
    BY <2>1
  <2>3. \A i \in 1 .. Len(log.records) : Interpreted(log.records[i]) \in Events(log)
    BY <2>1 DEF Events
  <2> HIDE DEF all
  <2> QED BY ONLY <2>1, <2>2, <2>3
<1>3. newest \subseteq DOMAIN log.records \ log.lost
  OBVIOUS
<1> HIDE DEF newest, all
<1>4. reply \in Seq(Events(log)) /\ \A k \in DOMAIN reply : \E i \in newest : reply[k] = all[i]
  BY <1>2, <1>3, PickedList
<1>5. \A k \in DOMAIN reply : \E i \in DOMAIN log.records \ log.lost : reply[k] = Interpreted(log.records[i])
  BY <1>2, <1>3, <1>4
<1> HIDE DEF reply
<1>6. Query(log, query) # <<>> => log.opens
  BY <1>1, Zenon
<1>7. Query(log, query) = <<>> \/ Query(log, query) = reply
  BY <1>1, Zenon
<1>8. <<>> \in Seq(Events(log)) /\ \A k : k \notin DOMAIN <<>>
  OBVIOUS
<1> DEFINE given == Query(log, query)
<1> HIDE DEF given
<1>9. given \in Seq(Events(log)) /\ \A k \in DOMAIN given :
        \E i \in DOMAIN log.records \ log.lost : given[k] = Interpreted(log.records[i])
  BY <1>4, <1>5, <1>7, <1>8 DEF given
<1> QED BY <1>6, <1>9, Zenon DEF given

\* Sorting by time and then by position is an order.
LEMMA OldestFirstIsOrder ==
  ASSUME NEW T, NEW events \in Seq(T), \A e \in T : e.at \in Int
  PROVE  IsOrder(DOMAIN events, OldestFirst(events))
<1>1. \A i \in DOMAIN events : i \in Nat /\ events[i].at \in Int
  OBVIOUS
<1>2. \A i, j \in DOMAIN events :
        <<i, j>> \in OldestFirst(events) <=>
          \/ events[i].at < events[j].at
          \/ events[i].at = events[j].at /\ i < j
  BY DEF OldestFirst
<1> QED BY <1>1, <1>2 DEF IsOrder

\* What is concluded about the last session rests on records that were read.
LEMMA GatheredIsRead ==
  ASSUME NEW log, IsLog(log), NEW boot, NEW now, NEW k \in DOMAIN Gathered(log, boot, now)
  PROVE  /\ log.opens
         /\ \E i \in DOMAIN log.records \ log.lost : Gathered(log, boot, now)[k] = Interpreted(log.records[i])
<1> DEFINE queries == EvidenceQueries(boot, now)
           q == Query(log, queries[1])
           r == Query(log, queries[2])
           events == q \o r
<1>1. Gathered(log, boot, now) = Sorted(events, OldestFirst(events))
  BY DEF Gathered
<1>2. /\ q \in Seq(Events(log)) /\ r \in Seq(Events(log))
      /\ q # <<>> => log.opens
      /\ r # <<>> => log.opens
      /\ \A n \in DOMAIN q : \E i \in DOMAIN log.records \ log.lost : q[n] = Interpreted(log.records[i])
      /\ \A n \in DOMAIN r : \E i \in DOMAIN log.records \ log.lost : r[n] = Interpreted(log.records[i])
  BY QueryAnswers
<1> HIDE DEF q, r
<1>3. events \in Seq(Events(log)) /\ \A e \in Events(log) : e.at \in Int
  BY <1>2, EventFields DEF Events
<1>4. \A n \in DOMAIN events : (n \in DOMAIN q /\ events[n] = q[n])
                               \/ \E m \in DOMAIN r : events[n] = r[m]
  <2> SUFFICES ASSUME NEW n \in DOMAIN events
               PROVE  (n \in DOMAIN q /\ events[n] = q[n]) \/ \E m \in DOMAIN r : events[n] = r[m]
    OBVIOUS
  <2>1. Len(q) \in Nat /\ Len(r) \in Nat /\ n \in 1 .. (Len(q) + Len(r))
    BY <1>2
  <2>2. CASE n <= Len(q)
    BY <1>2, <2>1, <2>2
  <2>3. CASE n > Len(q)
    <3>1. n - Len(q) \in DOMAIN r /\ events[n] = r[n - Len(q)]
      BY <1>2, <2>1, <2>3
    <3> QED BY <3>1
  <2> QED BY <2>1, <2>2, <2>3
<1> HIDE DEF events
<1>5. PICK n \in DOMAIN events : Gathered(log, boot, now)[k] = events[n]
  BY <1>1, <1>3, OldestFirstIsOrder, SortedList
<1>6. q # <<>> \/ r # <<>>
  BY <1>2, <1>4
<1> QED BY <1>2, <1>4, <1>5, <1>6


\* A cause is confirmed only by a request for the restart.
LEMMA ConfirmedByRequest ==
  ASSUME NEW events, ClassifyRestart(events).confidence = "confirmed"
  PROVE  \E i \in DOMAIN events : events[i].id = 1074
<1> DEFINE requests == {i \in DOMAIN events : Is(events[i], "User32", 1074)}
           abrupt == \E i \in DOMAIN events :
                        Is(events[i], "Kernel-Power", 41) \/ Is(events[i], "EventLog", 6008)
           stopped == \E i \in DOMAIN events : Is(events[i], "EventLog", 6006)
           confidence == IF requests # {} THEN "confirmed" ELSE IF abrupt \/ stopped THEN "likely" ELSE "unknown"
<1>1. ClassifyRestart(events).confidence = confidence
  BY DEF ClassifyRestart
<1>2. \A i \in requests : i \in DOMAIN events /\ events[i].id = 1074
  BY Zenon DEF Is
<1> HIDE DEF requests, abrupt, stopped
<1>3. requests # {}
  BY <1>1
<1> QED BY <1>2, <1>3

\* An incident is of an unclean end in another boot, with agents of the checkpoint.
LEMMA IncidentOf ==
  ASSUME NEW log, NEW previous, NEW boot, NEW started, NEW now,
         NEW i \in RestartIncident(log, previous, boot, started, now)
  PROVE  /\ ~previous.clean /\ previous.boot # boot
         /\ i.verdict = ClassifyRestart(Gathered(log, started, now))
         /\ \A a \in i.agents : \E c \in previous.checkpoint : a \in c.agents /\ a.confidence # "low"
<1> DEFINE verdict == ClassifyRestart(Gathered(log, started, now))
           before == IF previous.checkpoint = {} THEN Nobody
                     ELSE CHOOSE c \in previous.checkpoint : TRUE
           costly == LostAgents(before) # {} \/ before.jobs > 0
           severity == IF costly \/ verdict.confidence = "unknown" THEN "warning" ELSE "info"
           told0 == [verdict |-> verdict, agents |-> LostAgents(before), jobs |-> before.jobs,
                     network |-> before.network, authorized |-> before.consumed,
                     torn |-> previous.truncated, severity |-> severity]
<1>1. RestartIncident(log, previous, boot, started, now) =
        IF ~Reportable(previous, boot) THEN {} ELSE {told0}
  BY Zenon DEF RestartIncident
<1>2. told0.verdict = verdict /\ told0.agents = LostAgents(before)
  BY Zenon
<1>3. \A a \in LostAgents(before) : a \in before.agents /\ a.confidence # "low"
  BY DEF LostAgents
<1>4. before.agents # {} => before \in previous.checkpoint
  <2>1. Nobody.agents = {}
    BY Zenon DEF Nobody
  <2> QED BY <2>1, Zenon
<1> HIDE DEF told0, before, verdict
<1>5. Reportable(previous, boot) /\ i = told0
  BY <1>1
<1> QED BY <1>2, <1>3, <1>4, <1>5 DEF Reportable, verdict

\* What IncidentIsBacked asks of an incident, for each past.
LEMMA IncidentsAreBacked ==
  ASSUME NEW p \in Pasts
  PROVE  \A i \in RestartIncident(p.log, p.previous, BootId(p.now, p.uptime),
                                  (p.now - p.uptime) \div 60000, p.now \div 60000) :
            /\ ~p.previous.clean /\ p.previous.boot # BootId(p.now, p.uptime)
            /\ \A a \in i.agents : \E c \in p.previous.checkpoint : a \in c.agents /\ a.confidence # "low"
            /\ i.verdict.confidence = "confirmed" =>
                   p.log.opens /\ \E k \in DOMAIN p.log.records \ p.log.lost : p.log.records[k].id = 1074
<1> DEFINE boot == BootId(p.now, p.uptime)
           started == (p.now - p.uptime) \div 60000
           now == p.now \div 60000
<1> HIDE DEF boot, started, now
<1>0. IsLog(p.log)
  BY Zenon, StartupAssumption DEF IsPast, IsLog
<1> SUFFICES ASSUME NEW i \in RestartIncident(p.log, p.previous, boot, started, now)
             PROVE  /\ ~p.previous.clean /\ p.previous.boot # boot
                    /\ \A a \in i.agents : \E c \in p.previous.checkpoint : a \in c.agents /\ a.confidence # "low"
                    /\ i.verdict.confidence = "confirmed" =>
                           p.log.opens /\ \E k \in DOMAIN p.log.records \ p.log.lost : p.log.records[k].id = 1074
  BY DEF boot, started, now
<1>1. /\ ~p.previous.clean /\ p.previous.boot # boot
      /\ i.verdict = ClassifyRestart(Gathered(p.log, started, now))
      /\ \A a \in i.agents : \E c \in p.previous.checkpoint : a \in c.agents /\ a.confidence # "low"
  BY IncidentOf
<1>2. ASSUME i.verdict.confidence = "confirmed"
      PROVE  p.log.opens /\ \E k \in DOMAIN p.log.records \ p.log.lost : p.log.records[k].id = 1074
  <2>1. PICK n \in DOMAIN Gathered(p.log, started, now) : Gathered(p.log, started, now)[n].id = 1074
    BY <1>1, <1>2, ConfirmedByRequest
  <2>2. PICK k \in DOMAIN p.log.records \ p.log.lost :
          p.log.opens /\ Gathered(p.log, started, now)[n] = Interpreted(p.log.records[k])
    BY <1>0, <2>1, GatheredIsRead
  <2>3. p.log.records[k].id = 1074
    BY <1>0, <2>1, <2>2, EventFields
  <2> QED BY <2>2, <2>3
<1> QED BY <1>1, <1>2

-----------------------------------------------------------------------------
(* The indicators of a pending restart.                                      *)

\* Each indicator is read as one of three.
LEMMA ReadingsAreRead ==
  ASSUME NEW r, IsRegistry(r), NEW s \in Signals
  PROVE  Collected(r)[s] = Probe(r, s) /\ Probe(r, s) \in {"present", "absent", "failed"}
<1>1. Collected(r)[s] = Probe(r, s)
  BY Zenon DEF Collected
<1>2. r.values[s] \in {"present", "absent", "failed"}
  BY DEF IsRegistry
<1>3. Probe(r, s) \in {"failed", "absent", "present", r.values[s]}
  BY Zenon DEF Probe
<1> QED BY <1>1, <1>2, <1>3

\* No restart is pending only when each indicator was read and is absent.
LEMMA NotPendingIsAbsent ==
  ASSUME NEW r, IsRegistry(r), ClassifySignals(Collected(r)) = "not_pending", NEW s \in Signals
  PROVE  Probe(r, s) = "absent"
<1> DEFINE readings == Collected(r)
           sure == Firing(readings, "conclusive") # {} \/ Cardinality(Firing(readings, "strong")) >= 2
           some == \E t \in Signals : readings[t] = "present"
<1>1. ClassifySignals(readings) = IF sure THEN "pending" ELSE IF some THEN "probably_pending"
                                  ELSE IF Unread(readings) # {} THEN "unknown" ELSE "not_pending"
  BY Zenon DEF ClassifySignals
<1>2. /\ readings[s] = "present" => some
      /\ readings[s] = "failed" => Unread(readings) # {}
  BY Zenon DEF Unread
<1> HIDE DEF sure, some
<1>3. ~some /\ Unread(readings) = {}
  BY <1>1
<1> QED BY <1>2, <1>3, ReadingsAreRead

-----------------------------------------------------------------------------
(* Sessions and cards.                                                       *)

LEMMA MachineLists ==
  ASSUME NEW m, IsMachine(m)
  PROVE  m.connections \in Seq(Sessions) /\ m.interfaces \in Seq(Cards) /\ m.probes \in Seq(Targets)
BY Zenon DEF IsMachine

\* Enumerating the connections gives those of the machine, or none.
LEMMA ConnectionsAreListed ==
  ASSUME NEW m, IsMachine(m)
  PROVE  /\ OrEmpty(EnumConnections(m)) \in Seq(Sessions)
         /\ \A i \in DOMAIN OrEmpty(EnumConnections(m)) :
              i \in DOMAIN m.connections /\ OrEmpty(EnumConnections(m))[i] = m.connections[i]
         /\ EnumConnections(m).ok => EnumConnections(m).value = m.connections
<1>1. m.connections \in Seq(Sessions)
  BY MachineLists
<1>2. EnumConnections(m) = Failed \/ EnumConnections(m) = Ok(m.connections)
  BY Zenon DEF EnumConnections
<1>3. Ok(m.connections).value = m.connections /\ OrEmpty(Ok(m.connections)) = m.connections
  BY Zenon DEF Ok, OrEmpty
<1>4. OrEmpty(Failed) = <<>> /\ ~Failed.ok
  BY Zenon DEF Failed, OrEmpty
<1>5. <<>> \in Seq(Sessions) /\ \A i : i \notin DOMAIN <<>>
  OBVIOUS
<1> DEFINE given == EnumConnections(m)
<1> HIDE DEF given
<1>6. CASE given = Failed
  BY <1>4, <1>5, <1>6 DEF given
<1>7. CASE given = Ok(m.connections)
  BY <1>1, <1>3, <1>7 DEF given
<1> QED BY <1>2, <1>6, <1>7 DEF given

\* A session of the entry is one of the machine's.
LEMMA ActiveIsOfTheEntry ==
  ASSUME NEW m, IsMachine(m), NEW entry, ActiveConnection(m, entry) # <<>>
  PROVE  \E i \in DOMAIN m.connections :
            SameName(m.connections[i].entry, entry) /\ ActiveConnection(m, entry)[1] = m.connections[i]
<1> DEFINE list == OrEmpty(EnumConnections(m))
           kept == {i \in DOMAIN list : SameName(list[i].entry, entry)}
           active == Picked(list, kept)
<1>1. ActiveConnection(m, entry) = active
  BY Zenon DEF ActiveConnection, Belonging
<1>2. list \in Seq(Sessions) /\ \A i \in DOMAIN list : i \in DOMAIN m.connections /\ list[i] = m.connections[i]
  BY Zenon, ConnectionsAreListed
<1>3. kept \in SUBSET DOMAIN list /\ \A i \in kept : i \in DOMAIN list /\ SameName(list[i].entry, entry)
  BY Zenon
<1> HIDE DEF list, kept
<1>4. active \in Seq(Sessions) /\ \A k \in DOMAIN active : \E i \in kept : active[k] = list[i]
  BY <1>2, <1>3, PickedList
<1> HIDE DEF active
<1>5. 1 \in DOMAIN active
  BY <1>1, <1>4
<1>6. PICK i \in kept : active[1] = list[i]
  BY Zenon, <1>4, <1>5
<1>7. i \in DOMAIN m.connections /\ active[1] = m.connections[i]
  BY Zenon, <1>2, <1>3, <1>6
<1>8. SameName(m.connections[i].entry, entry)
  BY Zenon, <1>2, <1>3
<1> QED BY Zenon, <1>1, <1>7, <1>8

\* No session is found only where the entry has none, or they cannot be listed.
LEMMA NoneIsActive ==
  ASSUME NEW m, IsMachine(m), NEW entry, EnumConnections(m).ok, ActiveConnection(m, entry) = <<>>,
         NEW i \in DOMAIN m.connections
  PROVE  ~SameName(m.connections[i].entry, entry)
<1> DEFINE list == m.connections
           kept == {j \in DOMAIN list : SameName(list[j].entry, entry)}
<1>1. list \in Seq(Sessions) /\ kept \in SUBSET DOMAIN list
  BY MachineLists
<1>2. OrEmpty(EnumConnections(m)) = list
  BY Zenon, ConnectionsAreListed DEF OrEmpty
<1>3. Picked(list, kept) = <<>>
  BY Zenon, <1>2 DEF ActiveConnection, Belonging
<1> HIDE DEF list, kept
<1>4. \A j \in kept : \E k \in DOMAIN Picked(list, kept) : Picked(list, kept)[k] = list[j]
  BY <1>1, PickedList
<1>5. i \notin kept
  BY <1>3, <1>4
<1> QED BY Zenon, <1>5 DEF list, kept

\* What is hung up is of the entry.
LEMMA HungUpIsOfTheEntry ==
  ASSUME NEW m, IsMachine(m), NEW entry, NEW i \in DOMAIN m.connections,
         ~SameName(m.connections[i].entry, entry)
  PROVE  \E k \in DOMAIN HangUpAll(m, entry).connections :
            HangUpAll(m, entry).connections[k] = m.connections[i]
<1> DEFINE list == m.connections
           kept == {j \in DOMAIN list : ~SameName(list[j].entry, entry) \/ list[j].stuck}
           left == Picked(list, kept)
<1>1. list \in Seq(Sessions)
  BY MachineLists
<1>2. HangUpAll(m, entry).connections = left \/ HangUpAll(m, entry) = m
  <2>1. "connections" \in DOMAIN m
    BY Zenon DEF IsMachine
  <2>2. HangUpAll(m, entry) = m \/ HangUpAll(m, entry) = [m EXCEPT !.connections = left]
    BY Zenon DEF HangUpAll
  <2> HIDE DEF left
  <2>3. [m EXCEPT !.connections = left].connections = left
    BY Zenon, <2>1
  <2> QED BY Zenon, <2>2, <2>3
<1>3. kept \in SUBSET DOMAIN list /\ i \in kept
  BY Zenon
<1> HIDE DEF list, kept
<1>4. \E k \in DOMAIN left : left[k] = list[i]
  BY <1>1, <1>3, PickedList
<1> QED BY Zenon, <1>2, <1>4 DEF list

\* A card that is found connected is one of the machine's.
LEMMA ConnectedCardIsThere ==
  ASSUME NEW m, IsMachine(m), WifiConnected(m)
  PROVE  \E i \in DOMAIN m.interfaces : m.interfaces[i].connected
<1> DEFINE most == IF Len(m.interfaces) <= MaxInterfaces THEN Len(m.interfaces) ELSE MaxInterfaces
           some == SubSeq(m.interfaces, 1, most)
           all == OrEmpty(Interfaces(m))
           kept == {i \in DOMAIN all : all[i].connected}
<1>1. m.interfaces \in Seq(Cards) /\ Len(m.interfaces) \in Nat /\ MaxInterfaces \in Nat
  BY MachineLists, LinksAssumption
<1>2. some \in Seq(Cards) /\ \A i \in DOMAIN some : i \in DOMAIN m.interfaces /\ some[i] = m.interfaces[i]
  <2>1. most \in Nat /\ most <= Len(m.interfaces)
    BY <1>1
  <2> HIDE DEF most
  <2> QED BY <1>1, <2>1
<1>3. Interfaces(m) = Failed \/ Interfaces(m) = Ok(some)
  BY Zenon DEF Interfaces
<1> HIDE DEF some
<1>4. all = <<>> \/ all = some
  <2>1. OrEmpty(Failed) = <<>> /\ OrEmpty(Ok(some)) = some
    BY Zenon DEF Ok, Failed, OrEmpty
  <2> QED BY Zenon, <1>3, <2>1
<1>5. all \in Seq(Cards) /\ \A i \in DOMAIN all : i \in DOMAIN m.interfaces /\ all[i] = m.interfaces[i]
  <2>1. <<>> \in Seq(Cards) /\ \A i : i \notin DOMAIN <<>>
    OBVIOUS
  <2> HIDE DEF all
  <2> QED BY <1>2, <1>4, <2>1
<1>6. kept \in SUBSET DOMAIN all /\ \A i \in kept : i \in DOMAIN all /\ all[i].connected
  BY Zenon
<1>7. Picked(all, kept) # <<>>
  BY Zenon DEF WifiConnected, ConnectedInterface
<1> HIDE DEF all, kept
<1> DEFINE connected == Picked(all, kept)
<1>8. connected \in Seq(Cards) /\ \A k \in DOMAIN connected : \E i \in kept : connected[k] = all[i]
  BY <1>5, <1>6, PickedList
<1> HIDE DEF connected
<1>9. 1 \in DOMAIN connected
  BY <1>7, <1>8 DEF connected
<1>10. PICK i \in kept : TRUE
  BY <1>8, <1>9
<1> QED BY <1>5, <1>6, <1>10

-----------------------------------------------------------------------------
(* The probes of a round.                                                    *)

\* Each result is that of a probe that is enabled.
LEMMA RoundIsOfEnabled ==
  ASSUME NEW m, IsMachine(m)
  PROVE  /\ RunRound(m.probes) \in Seq(BOOLEAN)
         /\ \A k \in DOMAIN RunRound(m.probes) : \E i \in DOMAIN m.probes :
              m.probes[i].enabled /\ RunRound(m.probes)[k] = RunOne(m.probes[i])
<1> DEFINE probes == m.probes
           kept == {i \in DOMAIN probes : probes[i].enabled}
           enabled == Picked(probes, kept)
           late == {i \in DOMAIN enabled : Elapsed(enabled, i) > RoundBudget}
           measured == Cardinality(DOMAIN enabled \ late)
           results == [i \in 1 .. measured |-> RunOne(enabled[i])]
<1>1. RunRound(probes) = results
  BY Zenon DEF RunRound, Enabled
<1>2. probes \in Seq(Targets)
  BY MachineLists
<1>3. kept \in SUBSET DOMAIN probes /\ \A i \in kept : i \in DOMAIN probes /\ probes[i].enabled
  BY Zenon
<1>4. \A t \in Targets : RunOne(t) \in BOOLEAN
  BY Zenon DEF RunOne, TcpProbe, DnsProbe
<1> HIDE DEF probes, kept
<1>5. /\ enabled \in Seq(Targets)
      /\ Cardinality(kept) \in Nat /\ DOMAIN enabled = 1 .. Cardinality(kept)
      /\ \A k \in DOMAIN enabled : \E i \in kept : enabled[k] = probes[i]
  BY <1>2, <1>3, PickedList
<1> HIDE DEF enabled
<1>6. DOMAIN enabled \ late \in SUBSET DOMAIN enabled
  OBVIOUS
<1>7. measured \in Nat /\ measured <= Cardinality(kept)
  <2> HIDE DEF late
  <2>1. IsFiniteSet(DOMAIN enabled) /\ Cardinality(DOMAIN enabled) = Cardinality(kept)
    BY <1>5, UpTo
  <2>2. IsFiniteSet(DOMAIN enabled \ late) /\ measured <= Cardinality(kept)
    BY <1>6, <2>1, FS_Subset
  <2> QED BY <2>2, FS_CardinalityType
<1> HIDE DEF measured
<1>8. \A k \in 1 .. measured : k \in DOMAIN enabled /\ results[k] = RunOne(enabled[k])
  BY <1>5, <1>7
<1>9. \A k \in 1 .. measured : RunOne(enabled[k]) \in BOOLEAN
  BY <1>4, <1>5, <1>8
<1>10. results \in Seq(BOOLEAN) /\ DOMAIN results = 1 .. measured
  BY <1>7, <1>9
<1> HIDE DEF results
<1>11. \A k \in DOMAIN results : \E i \in DOMAIN probes :
          probes[i].enabled /\ results[k] = RunOne(probes[i])
  BY <1>3, <1>5, <1>8, <1>10
<1> QED BY <1>1, <1>10, <1>11 DEF probes

\* Probes pass when there is one that passed, and all pass when none failed.
LEMMA PassedCounts ==
  ASSUME NEW results \in Seq(BOOLEAN)
  PROVE  /\ Passed(results) \in Nat
         /\ Passed(results) > 0 <=> \E k \in DOMAIN results : results[k]
         /\ (\A k \in DOMAIN results : results[k]) => Passed(results) = Len(results)
<1> DEFINE passing == {k \in DOMAIN results : results[k]}
<1>1. Len(results) \in Nat /\ DOMAIN results = 1 .. Len(results)
  OBVIOUS
<1>2. IsFiniteSet(DOMAIN results) /\ Cardinality(DOMAIN results) = Len(results)
  BY <1>1, UpTo
<1>3. passing \in SUBSET DOMAIN results
  OBVIOUS
<1>4. IsFiniteSet(passing) /\ Cardinality(passing) \in Nat
  BY <1>2, <1>3, FS_Subset, FS_CardinalityType
<1>5. Cardinality(passing) = 0 <=> passing = {}
  BY <1>4, FS_EmptySet
<1>6. Passed(results) = Cardinality(passing)
  BY Zenon DEF Passed
<1>7. (\A k \in DOMAIN results : results[k]) => passing = DOMAIN results
  BY Zenon
<1>8. passing = {} <=> ~\E k \in DOMAIN results : results[k]
  BY Zenon
<1> HIDE DEF passing
<1> QED BY <1>2, <1>4, <1>5, <1>6, <1>7, <1>8

\* A quorum has a probe that passed.
LEMMA QuorumHasPassed ==
  ASSUME NEW results \in Seq(BOOLEAN), NEW required \in Int, QuorumOk(results, required)
  PROVE  \E k \in DOMAIN results : results[k]
<1>1. Len(results) \in Nat /\ Len(results) >= 1
  BY DEF QuorumOk
<1>2. Passed(results) >= 1
  BY <1>1, PassedCounts DEF QuorumOk
<1> QED BY <1>2, PassedCounts

-----------------------------------------------------------------------------
(* What a round has seen.                                                    *)

\* A link or Wi-Fi that a round sees is there.
LEMMA SeenLinks ==
  ASSUME NEW m, IsMachine(m), NEW entry, NEW required
  PROVE  /\ Observe(m, entry, required).link = "up" =>
              m.route /\ \E i \in DOMAIN m.connections :
                 LET c == m.connections[i] IN
                 SameName(c.entry, entry) /\ c.readable /\ c.projected /\ c.address \notin {"", "0.0.0.0"}
         /\ Observe(m, entry, required).link # "absent" =>
              \E i \in DOMAIN m.connections : SameName(m.connections[i].entry, entry)
         /\ (Observe(m, entry, required).link = "absent" /\ entry # "none" /\ EnumConnections(m).ok) =>
              \A i \in DOMAIN m.connections : ~SameName(m.connections[i].entry, entry)
         /\ Observe(m, entry, required).wifi => \E i \in DOMAIN m.interfaces : m.interfaces[i].connected
<1> DEFINE link == IF ~RasConnected(m, entry) THEN "absent"
                   ELSE IF RasHasIp(m, entry) /\ m.route THEN "up" ELSE "dead"
           results == RunRound(m.probes)
           probes == IF results = <<>> THEN "unmeasured"
                     ELSE IF QuorumOk(results, required) THEN "quorum"
                     ELSE IF Passed(results) = 0 THEN "none" ELSE "some"
           seen == Observe(m, entry, required)
<1>0. entry # "none" => seen.link = link
  <2> DEFINE looked == [link |-> link, wifi |-> WifiConnected(m), probes |-> probes]
  <2>1. entry # "none" => seen = looked
    BY Zenon DEF Observe
  <2>2. looked.link = link
    BY Zenon
  <2> HIDE DEF link, probes, seen, looked
  <2> QED BY Zenon, <2>1, <2>2
<1>1. seen = NothingSeen \/ seen = [link |-> link, wifi |-> WifiConnected(m), probes |-> probes]
  BY Zenon DEF Observe
<1> HIDE DEF link, probes, seen
<1>2. (seen.link = "absent" /\ ~seen.wifi) \/ (seen.link = link /\ seen.wifi = WifiConnected(m))
  <2>1. NothingSeen.link = "absent" /\ ~NothingSeen.wifi
    BY Zenon DEF NothingSeen
  <2> DEFINE looked == [link |-> link, wifi |-> WifiConnected(m), probes |-> probes]
  <2>2. looked.link = link /\ looked.wifi = WifiConnected(m)
    BY Zenon
  <2> HIDE DEF looked
  <2>3. CASE seen = NothingSeen
    BY Zenon, <2>1, <2>3
  <2>4. CASE seen = looked
    BY Zenon, <2>2, <2>4
  <2> QED BY Zenon, <1>1, <2>3, <2>4 DEF looked
<1>3. link # "absent" => RasConnected(m, entry)
  <2>1. ~RasConnected(m, entry) => link = "absent"
    BY Zenon DEF link
  <2> QED BY Zenon, <2>1
<1>4. link = "up" => RasHasIp(m, entry) /\ m.route
  BY DEF link
<1>5. RasHasIp(m, entry) =>
        \E i \in DOMAIN m.connections :
            LET c == m.connections[i] IN
            SameName(c.entry, entry) /\ c.readable /\ c.projected /\ c.address \notin {"", "0.0.0.0"}
  <2> SUFFICES ASSUME RasHasIp(m, entry)
               PROVE  \E i \in DOMAIN m.connections :
                          LET c == m.connections[i] IN
                          SameName(c.entry, entry) /\ c.readable /\ c.projected /\ c.address \notin {"", "0.0.0.0"}
    OBVIOUS
  <2> DEFINE c == ActiveConnection(m, entry)[1]
  <2>1. ActiveConnection(m, entry) # <<>> /\ c.readable /\ ConnectionHealth(c).has_ip
    BY Zenon DEF RasHasIp, RasConnected
  <2>2. c.projected /\ c.address \notin {"", "0.0.0.0"}
    BY Zenon, <2>1 DEF ConnectionHealth
  <2>3. PICK i \in DOMAIN m.connections : SameName(m.connections[i].entry, entry) /\ c = m.connections[i]
    BY <2>1, ActiveIsOfTheEntry
  <2> HIDE DEF c
  <2>4. m.connections[i].readable /\ m.connections[i].projected /\ m.connections[i].address \notin {"", "0.0.0.0"}
    BY ONLY <2>1, <2>2, <2>3, Zenon
  <2> QED BY ONLY <2>3, <2>4, Zenon
<1>6. RasConnected(m, entry) => \E i \in DOMAIN m.connections : SameName(m.connections[i].entry, entry)
  BY ActiveIsOfTheEntry DEF RasConnected
<1>7. seen.link = "up" => link = "up"
  BY <1>2
<1>8. seen.link # "absent" => link # "absent"
  BY <1>2
<1>9. seen.wifi => WifiConnected(m)
  BY Zenon, <1>2
<1>10. (seen.link = "absent" /\ entry # "none") => ActiveConnection(m, entry) = <<>>
  <2>1. link = "absent" => ~RasConnected(m, entry)
    BY DEF link
  <2>2. ~RasConnected(m, entry) => ActiveConnection(m, entry) = <<>>
    BY Zenon DEF RasConnected
  <2> QED BY Zenon, <1>0, <2>1, <2>2
<1>11. (seen.link = "absent" /\ entry # "none" /\ EnumConnections(m).ok) =>
         \A i \in DOMAIN m.connections : ~SameName(m.connections[i].entry, entry)
  BY <1>10, NoneIsActive
<1> QED BY Zenon, <1>11, <1>3, <1>4, <1>5, <1>6, <1>7, <1>8, <1>9, ConnectedCardIsThere DEF seen

\* A quorum that a round sees has a probe that passed, and "none" one that failed.
LEMMA SeenProbes ==
  ASSUME NEW m, IsMachine(m), NEW entry, NEW required \in Int
  PROVE  /\ Observe(m, entry, required).probes = "quorum" =>
              \E i \in DOMAIN m.probes : m.probes[i].enabled /\ RunOne(m.probes[i])
         /\ Observe(m, entry, required).probes = "none" =>
              \E i \in DOMAIN m.probes : m.probes[i].enabled /\ ~RunOne(m.probes[i])
<1> DEFINE link == IF ~RasConnected(m, entry) THEN "absent"
                   ELSE IF RasHasIp(m, entry) /\ m.route THEN "up" ELSE "dead"
           results == RunRound(m.probes)
           probes == IF results = <<>> THEN "unmeasured"
                     ELSE IF QuorumOk(results, required) THEN "quorum"
                     ELSE IF Passed(results) = 0 THEN "none" ELSE "some"
           seen == Observe(m, entry, required)
<1>1. seen = NothingSeen \/ seen = [link |-> link, wifi |-> WifiConnected(m), probes |-> probes]
  BY Zenon DEF Observe
<1> HIDE DEF link, probes, seen
<1>2. seen.probes = "unmeasured" \/ seen.probes = probes
  <2>1. NothingSeen.probes = "unmeasured"
    BY Zenon DEF NothingSeen
  <2> DEFINE looked == [link |-> link, wifi |-> WifiConnected(m), probes |-> probes]
  <2>2. looked.probes = probes
    BY Zenon
  <2> HIDE DEF looked
  <2> QED BY Zenon, <1>1, <2>1, <2>2 DEF looked
<1>3. results \in Seq(BOOLEAN) /\ \A k \in DOMAIN results : \E i \in DOMAIN m.probes :
        m.probes[i].enabled /\ results[k] = RunOne(m.probes[i])
  BY Zenon, RoundIsOfEnabled
<1> HIDE DEF results
<1>4. ASSUME probes = "quorum"
      PROVE  \E i \in DOMAIN m.probes : m.probes[i].enabled /\ RunOne(m.probes[i])
  <2>1. QuorumOk(results, required)
    BY <1>4 DEF probes
  <2>2. PICK k \in DOMAIN results : results[k]
    BY <1>3, <2>1, QuorumHasPassed
  <2> QED BY <1>3, <2>2
<1>5. ASSUME probes = "none"
      PROVE  \E i \in DOMAIN m.probes : m.probes[i].enabled /\ ~RunOne(m.probes[i])
  <2>1. results # <<>> /\ Passed(results) = 0
    BY <1>5 DEF probes
  <2>2. 1 \in DOMAIN results /\ ~results[1]
    BY <1>3, <2>1, PassedCounts
  <2> QED BY <1>3, <2>2
<1> QED BY <1>2, <1>4, <1>5 DEF seen

-----------------------------------------------------------------------------
(* The report of the doctor.                                                 *)

\* The checks of a group have nothing to report.
Clean(checks) == \A c \in checks : c.severity = "info"

LEMMA ServiceIsClean ==
  ASSUME NEW m, AllOk(ServiceChecks(m))
  PROVE  m.reachable /\ m.elevated /\ m.helper /\ m.processes_listed /\ Clean(ServiceChecks(m))
<1> DEFINE a == Plain("runtime.reachable", m.reachable, "error")
           b == Plain("process.elevation", m.elevated, "error")
           c == Plain("helper.present", m.processes_listed /\ m.helper, "warning")
           d == Check("runtime.installation", TRUE, "info")
<1>1. ServiceChecks(m) = {a, b, c, d}
  BY Zenon DEF ServiceChecks
<1>2. /\ a.ok = m.reachable /\ (a.ok => a.severity = "info")
      /\ b.ok = m.elevated /\ (b.ok => b.severity = "info")
      /\ c.ok = (m.processes_listed /\ m.helper) /\ (c.ok => c.severity = "info")
      /\ d.severity = "info"
  BY Zenon DEF Check, Plain
<1> HIDE DEF a, b, c, d
<1>3. a.ok /\ b.ok /\ c.ok
  BY Zenon, <1>1 DEF AllOk
<1>4. Clean({a, b, c, d})
  BY Zenon, <1>2, <1>3 DEF Clean
<1> QED BY Zenon, <1>1, <1>2, <1>3, <1>4

LEMMA UpdateIsClean ==
  ASSUME NEW m, m.unapplied \in Nat, AllOk(UpdateChecks(m))
  PROVE  /\ m.policy_read /\ m.level = "protected" /\ m.unapplied = 0 /\ m.management = "unmanaged"
         /\ Clean(UpdateChecks(m))
<1> DEFINE grade == CASE m.level = "protected" -> "info" [] m.level = "degraded" -> "warning" [] OTHER -> "error"
           a == Check("update.protection", m.level = "protected", grade)
           b == Check("update.unapplied", FALSE, "warning")
           c == Check("update.protection", FALSE, "error")
           d == Check("update.externally_managed", FALSE, "warning")
           E == IF m.policy_read THEN {a} \cup (IF m.unapplied > 0 THEN {b} ELSE {}) ELSE {c}
           F == IF m.management # "unmanaged" THEN {d} ELSE {}
           G == {CheckOf("update.policy_manager", x, FALSE, "warning") : x \in m.management_detail}
<1>1. UpdateChecks(m) = E \cup F \cup G
  BY Zenon DEF UpdateChecks
<1>2. /\ a.ok = (m.level = "protected") /\ a.severity = grade
      /\ b.ok = FALSE /\ c.ok = FALSE /\ d.ok = FALSE
  BY Zenon DEF Check, CheckOf
<1>3. \A g \in G : g.ok = FALSE
  <2>1. \A x : CheckOf("update.policy_manager", x, FALSE, "warning").ok = FALSE
    BY Zenon DEF CheckOf
  <2> QED BY Zenon, <2>1
<1>4. m.level = "protected" => grade = "info"
  BY Zenon
<1> HIDE DEF a, b, c, d, G, grade
<1>5. (\A x \in E : x.ok) /\ (\A x \in F : x.ok) /\ (\A x \in G : x.ok)
  BY Zenon, <1>1 DEF AllOk
<1>6. G = {}
  BY Zenon, <1>3, <1>5
<1>7. m.management = "unmanaged" /\ F = {}
  BY Zenon, <1>2, <1>5
<1>8. m.policy_read
  BY Zenon, <1>2, <1>5
<1>9. ~(m.unapplied > 0) /\ E = {a} /\ a.ok
  <2>1. E = {a} \cup (IF m.unapplied > 0 THEN {b} ELSE {})
    BY Zenon, <1>8
  <2>2. ~(m.unapplied > 0)
    <3> SUFFICES ASSUME m.unapplied > 0 PROVE FALSE
      OBVIOUS
    <3>1. b \in E
      BY Zenon, <2>1
    <3> QED BY Zenon, <1>2, <1>5, <3>1
  <2> QED BY Zenon, <1>5, <2>1, <2>2
<1> HIDE DEF E, F
<1>10. m.level = "protected"
  BY Zenon, <1>2, <1>9
<1>11. Clean(UpdateChecks(m))
  BY <1>1, <1>2, <1>4, <1>6, <1>7, <1>9, <1>10, Zenon DEF Clean
<1>12. m.unapplied = 0
  BY ONLY <1>9, m.unapplied \in Nat
<1> QED BY Zenon, <1>7, <1>8, <1>10, <1>11, <1>12

LEMMA RebootIsClean ==
  ASSUME NEW m, IsRegistry(m.registry), AllOk(RebootChecks(m))
  PROVE  (\A s \in Signals : Probe(m.registry, s) = "absent") /\ Clean(RebootChecks(m))
<1> DEFINE readings == Collected(m.registry)
           a == Plain("reboot.pending", ClassifySignals(readings) = "not_pending", "warning")
           said == {t \in Signals : readings[t] # "absent"}
           check(s) == CheckOf("reboot.signal", s, FALSE, IF readings[s] = "failed" THEN "warning" ELSE "info")
           B == {check(s) : s \in said}
<1>1. RebootChecks(m) = {a} \cup B
  BY Zenon DEF RebootChecks
<1>2. a.ok => a.severity = "info"
  BY Zenon DEF Check, Plain
<1>3. \A s : check(s).ok = FALSE
  BY Zenon DEF Check, CheckOf
<1>4. \A s \in Signals : readings[s] = Probe(m.registry, s)
  BY Zenon, ReadingsAreRead
<1> HIDE DEF a, check, readings
<1>5. a.ok /\ \A x \in B : x.ok
  BY Zenon, <1>1 DEF AllOk
<1>6. said = {}
  BY Zenon, <1>3, <1>5
<1>7. Clean({a} \cup B)
  BY Zenon, <1>2, <1>5, <1>6 DEF Clean
<1> QED BY Zenon, <1>1, <1>4, <1>6, <1>7

LEMMA NetworkIsClean ==
  ASSUME NEW m, IsMachine(m), AllOk(NetworkChecks(m))
  PROVE  /\ \E i \in DOMAIN m.probes : m.probes[i].enabled /\ RunOne(m.probes[i])
         /\ SelectEntry(OrEmpty(EnumEntries(m)), "none").ok
         /\ Clean(NetworkChecks(m))
<1> DEFINE entries == OrEmpty(EnumEntries(m))
           results == RunRound(m.probes)
           passed == Passed(results)
           grade == IF passed = Len(results) /\ passed > 0 THEN "info" ELSE IF passed > 0 THEN "warning" ELSE "error"
           a == Check("network.ras_entries", TRUE, "info")
           b == Check("network.connectivity", passed > 0, grade)
           c == Check("network.wifi", TRUE, "info")
           d == Plain("network.entry_selection", SelectEntry(entries, "none").ok, "warning")
           E == IF entries # <<>> THEN {d} ELSE {}
           check(i) == CheckOf("network.probe", i, results[i], IF results[i] THEN "info" ELSE "warning")
           F == {check(i) : i \in DOMAIN results}
<1>1. NetworkChecks(m) = {a, b, c} \cup E \cup F
  BY Zenon DEF NetworkChecks
<1>2. /\ a.severity = "info" /\ b.ok = (passed > 0) /\ b.severity = grade /\ c.severity = "info"
      /\ d.ok => d.severity = "info"
      /\ d.ok = SelectEntry(entries, "none").ok
  BY Zenon DEF Check, Plain
<1>3. \A i : check(i).ok = results[i] /\ check(i).severity = IF results[i] THEN "info" ELSE "warning"
  BY Zenon DEF Check, CheckOf
<1>4. results \in Seq(BOOLEAN) /\ \A k \in DOMAIN results : \E i \in DOMAIN m.probes :
        m.probes[i].enabled /\ results[k] = RunOne(m.probes[i])
  BY Zenon, RoundIsOfEnabled
<1>0. entries = <<>> => SelectEntry(entries, "none").ok
  BY Zenon DEF SelectEntry, Ok
<1> HIDE DEF a, b, c, d, check, entries, results
<1>5. b.ok /\ (\A x \in E : x.ok) /\ (\A x \in F : x.ok)
  BY Zenon, <1>1 DEF AllOk
<1>6. \A i \in DOMAIN results : results[i]
  BY Zenon, <1>3, <1>5
<1>7. passed > 0 /\ passed = Len(results) /\ \E k \in DOMAIN results : results[k]
  BY <1>2, <1>4, <1>5, <1>6, PassedCounts
<1>8. \E i \in DOMAIN m.probes : m.probes[i].enabled /\ RunOne(m.probes[i])
  BY <1>4, <1>7
<1>9. b.severity = "info"
  BY Zenon, <1>2, <1>7
<1>10. \A x \in F : x.severity = "info"
  BY Zenon, <1>3, <1>6
<1>11. \A x \in E : x.severity = "info"
  BY Zenon, <1>2, <1>5
<1>13. SelectEntry(entries, "none").ok
  BY Zenon, <1>0, <1>2, <1>5
<1> HIDE DEF E, F
<1>12. Clean({a, b, c} \cup E \cup F)
  BY Zenon, <1>2, <1>9, <1>10, <1>11 DEF Clean
<1> QED BY Zenon, <1>1, <1>8, <1>12, <1>13 DEF entries

LEMMA MonitorIsClean ==
  ASSUME NEW m, AllOk(MonitorChecks(m))
  PROVE  Clean(MonitorChecks(m))
<1> DEFINE a == Check("monitor.enumeration", FALSE, "error")
           b == Check("monitor.enumeration", TRUE, "info")
           c == Check("monitor.rejected_rules", FALSE, "warning")
           E == IF m.rejected_rules > 0 THEN {c} ELSE {}
           F == {CheckOf("monitor.agent", pid, TRUE, "info") : pid \in m.agents}
<1>1. MonitorChecks(m) = {a} \/ MonitorChecks(m) = {b} \cup E \cup F
  BY Zenon DEF MonitorChecks
<1>2. a.ok = FALSE /\ b.severity = "info" /\ c.ok = FALSE /\ \A x \in F : x.severity = "info"
  <2>1. a.ok = FALSE /\ b.severity = "info" /\ c.ok = FALSE
    BY Zenon DEF Check
  <2>2. \A pid : CheckOf("monitor.agent", pid, TRUE, "info").severity = "info"
    BY Zenon DEF CheckOf
  <2> QED BY Zenon, <2>1, <2>2
<1>3. \A x \in E : x = c
  BY Zenon
<1> HIDE DEF a, b, c, E, F
<1>4. CASE MonitorChecks(m) = {a}
  BY Zenon, <1>2, <1>4 DEF AllOk
<1>5. CASE MonitorChecks(m) = {b} \cup E \cup F
  BY Zenon, <1>2, <1>3, <1>5 DEF AllOk, Clean
<1> QED BY Zenon, <1>1, <1>4, <1>5

LEMMA StorageIsClean ==
  ASSUME NEW m, NEW f, IsFile(f), AllOk(StorageChecks(m, f))
  PROVE  /\ m.journal # "torn" /\ f.kind # "garbage"
         /\ f.kind = "document" => ~has_rejections(Load(f))
         /\ Clean(StorageChecks(m, f))
<1> DEFINE a == Plain("storage.root", m.writable, "error")
           b == ConfigCheck(f)
           c == Plain("storage.journal", m.journal # "torn", "warning")
           d == Plain("logging.size", m.log_size < 64, "warning")
           loads == Plain("storage.config", ~has_rejections(Load(f)), "warning")
<1>1. StorageChecks(m, f) = {a, b, c, d}
  BY Zenon DEF StorageChecks
<1>2. /\ a.ok => a.severity = "info"
      /\ c.ok = (m.journal # "torn") /\ (c.ok => c.severity = "info")
      /\ d.ok => d.severity = "info"
      /\ loads.ok = ~has_rejections(Load(f)) /\ (loads.ok => loads.severity = "info")
  BY Zenon DEF Check, Plain
<1>3. b = loads \/ (f.kind \in {"absent", "unreadable"} /\ b.severity = "info")
  BY Zenon DEF Check, ConfigCheck
<1>4. f.kind = "garbage" => has_rejections(Load(f))
  <2> SUFFICES ASSUME f.kind = "garbage" PROVE has_rejections(Load(f))
    OBVIOUS
  <2>1. Load(f).issues = Issues(DefaultDocument) \cup {<<"<document>", "rejected">>}
    BY DEF Load
  <2>2. <<"<document>", "rejected">> \in Load(f).issues
    BY <2>1
  <2> QED BY <2>2 DEF has_rejections
<1>5. f.kind \notin {"absent", "unreadable"} => b = loads
  BY Zenon DEF ConfigCheck
<1> HIDE DEF a, b, c, d, loads
<1>6. a.ok /\ b.ok /\ c.ok /\ d.ok
  BY Zenon, <1>1 DEF AllOk
<1>7. b.severity = "info"
  BY Zenon, <1>2, <1>3, <1>6
<1>8. Clean({a, b, c, d})
  BY Zenon, <1>2, <1>6, <1>7 DEF Clean
<1>9. f.kind \in {"garbage", "document"} => ~has_rejections(Load(f))
  <2>1. f.kind \in {"garbage", "document"} => f.kind \notin {"absent", "unreadable"}
    OBVIOUS
  <2> QED BY Zenon, <1>2, <1>5, <1>6, <2>1
<1> QED BY <1>1, <1>2, <1>4, <1>6, <1>8, <1>9

\* A report without a failed check is of a machine as CleanBillIsEarned says.
LEMMA CleanBill ==
  ASSUME NEW m, IsMachine(m), NEW f, IsFile(f), AllOk(BuildReport(m, f))
  PROVE  /\ m.reachable /\ m.elevated /\ m.helper /\ m.processes_listed /\ m.policy_read
         /\ m.level = "protected" /\ m.unapplied = 0 /\ m.management = "unmanaged"
         /\ \A s \in Signals : Probe(m.registry, s) = "absent"
         /\ \E i \in DOMAIN m.probes : m.probes[i].enabled /\ RunOne(m.probes[i])
         /\ SelectEntry(OrEmpty(EnumEntries(m)), "none").ok
         /\ m.journal # "torn" /\ f.kind # "garbage"
         /\ f.kind = "document" => ~has_rejections(Load(f))
         /\ Worst(BuildReport(m, f)) = "info"
<1>1. BuildReport(m, f) = ServiceChecks(m) \cup UpdateChecks(m) \cup RebootChecks(m)
                          \cup NetworkChecks(m) \cup MonitorChecks(m) \cup StorageChecks(m, f)
  BY Zenon DEF BuildReport
<1>2. /\ AllOk(ServiceChecks(m)) /\ AllOk(UpdateChecks(m)) /\ AllOk(RebootChecks(m))
      /\ AllOk(NetworkChecks(m)) /\ AllOk(MonitorChecks(m)) /\ AllOk(StorageChecks(m, f))
  BY Zenon, <1>1 DEF AllOk
<1>3. IsRegistry(m.registry) /\ m.unapplied \in Nat
  BY Zenon DEF IsMachine
<1>4. Clean(BuildReport(m, f))
  <2>1. /\ Clean(ServiceChecks(m)) /\ Clean(UpdateChecks(m)) /\ Clean(RebootChecks(m))
        /\ Clean(NetworkChecks(m)) /\ Clean(MonitorChecks(m)) /\ Clean(StorageChecks(m, f))
    BY Zenon, <1>2, <1>3, ServiceIsClean, UpdateIsClean, RebootIsClean, NetworkIsClean,
       MonitorIsClean, StorageIsClean
  <2> QED BY Zenon, <1>1, <2>1 DEF Clean
<1>5. Worst(BuildReport(m, f)) = "info"
  BY <1>4 DEF Clean, Worst
<1> QED BY Zenon, <1>2, <1>3, <1>5, ServiceIsClean, UpdateIsClean, RebootIsClean, NetworkIsClean, StorageIsClean

-----------------------------------------------------------------------------
(* The invariant.                                                            *)

Stages == {"off", "look", "default", "read", "repair", "prepare", "classify", "recover", "up"}

\* What is said of the restart, of the uplink and of the machine says nothing of a
\* configuration, and the other way round.
LEMMA OneSubject ==
  /\ told.what # "loaded" => RepairsAreReported
  /\ told.what \notin {"pending", "uplink", "restart", "report"} => ConclusionsAreSound
BY DEF RepairsAreReported, ConclusionsAreSound, VerdictsAreBacked, NotPendingMeansLooked, UplinkIsHonest,
       IncidentIsBacked, CleanBillIsEarned

LEMMA DocumentFields ==
  ASSUME NEW d
  PROVE  Document(d).kind = "document" /\ Document(d).document = d
BY DEF Document

LEMMA WrittenIsFile ==
  ASSUME NEW d \in ConfigDocuments
  PROVE  IsFile(Document(d))
BY DocumentFields DEF IsFile

\* What a load gives.
LEMMA LoadGives ==
  ASSUME NEW f, IsFile(f), f.kind \in {"document", "garbage"}
  PROVE  /\ Load(f).document \in ConfigDocuments /\ Usable(Load(f).document)
         /\ f.kind = "document" => Tells(Load(f).issues, Marked(f.document), Load(f).document)
<1>1. CASE f.kind = "document"
  <2>1. f.document \in ConfigDocuments
    BY <1>1 DEF IsFile
  <2>2. Load(f).document = Validated(Migrated(Parsed(f.document)))
        /\ Load(f).issues = Issues(Migrated(Parsed(f.document)))
    BY <1>1, Zenon DEF Load
  <2>3. Migrated(Parsed(f.document)) \in ConfigDocuments
    BY <2>1, ReadFields
  <2> QED BY <2>1, <2>2, <2>3, ValidatedIsDocument, ValidatedIsUsable, LoadTells
<1>2. CASE f.kind = "garbage"
  <2>1. f.kind # "document"
    BY <1>2
  <2>2. Load(f).document = Validated(DefaultDocument)
    BY <2>1, Zenon DEF Load
  <2> QED BY <2>1, <2>2, DefaultIsUsable, ValidatedIsDocument, ValidatedIsUsable
<1> QED BY <1>1, <1>2

LEMMA NothingIsTold ==
  Nothing.what = "nothing"
BY DEF Nothing

LEMMA StartupBegins == StartupInit => LoadIsSound /\ ConclusionsAreSound
<1> SUFFICES ASSUME StartupInit PROVE LoadIsSound /\ ConclusionsAreSound
  OBVIOUS
<1>1. UsedIsUsable
  BY DefaultIsUsable, StartupAssumption DEF StartupInit, UsedIsUsable
<1>2. RepairsAreReported /\ ConclusionsAreSound
  BY NothingIsTold, OneSubject DEF StartupInit
<1> QED BY <1>1, <1>2 DEF LoadIsSound

\* The configuration in use, and the file.
LEMMA UseStep == UsedIsUsable /\ [StartupNext]_startupVars => UsedIsUsable'
<1> SUFFICES ASSUME UsedIsUsable, [StartupNext]_startupVars PROVE UsedIsUsable'
  OBVIOUS
<1>1. stage \in Stages /\ edits \in 0 .. MaxEdits /\ IsFile(file) /\ used \in ConfigDocuments /\ Usable(used)
  BY DEF UsedIsUsable, Stages
<1>2. SUFFICES /\ stage' \in Stages /\ edits' \in 0 .. MaxEdits
               /\ IsFile(file)' /\ used' \in ConfigDocuments /\ Usable(used)'
  BY DEF UsedIsUsable, Stages
<1>3. stage' \in Stages
  BY <1>1 DEF Stages, StartupNext, Begin, FindNoFile, FindFile, WriteDefault, Read, ReadNothing, Repair,
              Prepare, Classify, Recover, Log, Measure, Stop, Edit, Examine, startupVars
<1>4. edits' \in 0 .. MaxEdits
  <2>1. edits' = edits \/ (edits < MaxEdits /\ edits' = edits + 1)
    BY DEF StartupNext, Begin, FindNoFile, FindFile, WriteDefault, Read, ReadNothing, Repair,
           Prepare, Classify, Recover, Log, Measure, Stop, Edit, Examine, startupVars
  <2> QED BY <1>1, <2>1, StartupAssumption
<1>5. used' \in ConfigDocuments /\ Usable(used)'
  <2>1. CASE Read
    <3>1. used' = Load(file).document /\ file.kind \in {"document", "garbage"}
      BY <2>1 DEF Read
    <3>2. Load(file).document \in ConfigDocuments /\ Usable(Load(file).document)
      BY <1>1, <3>1, LoadGives
    <3> QED BY <3>1, <3>2, Zenon DEF Usable
  <2>2. CASE UNCHANGED used \/ used' = DefaultDocument
    BY <1>1, <2>2, DefaultIsUsable DEF Usable
  <2>3. Read \/ UNCHANGED used \/ used' = DefaultDocument
    BY DEF StartupNext, Begin, FindNoFile, FindFile, WriteDefault, ReadNothing, Repair,
           Prepare, Classify, Recover, Log, Measure, Stop, Edit, Examine, startupVars
  <2> QED BY <2>1, <2>2, <2>3
<1>6. IsFile(file)'
  <2>1. file' \in {file, Document(DefaultDocument), Document(used)} \cup Files
    BY DEF StartupNext, Begin, FindNoFile, FindFile, WriteDefault, Read, ReadNothing, Repair,
           Prepare, Classify, Recover, Log, Measure, Stop, Edit, Examine, startupVars
  <2>2. IsFile(Document(DefaultDocument)) /\ IsFile(Document(used)) /\ \A f \in Files : IsFile(f)
    BY <1>1, DefaultIsUsable, WrittenIsFile, StartupAssumption
  <2>3. \A f \in {file, Document(DefaultDocument), Document(used)} \cup Files : IsFile(f)
    BY <1>1, <2>2
  <2> QED BY <2>1, <2>3 DEF IsFile
<1> QED BY <1>3, <1>4, <1>5, <1>6

\* What the load has told is of the configuration in use.
LEMMA LoadStep == LoadIsSound /\ [StartupNext]_startupVars => LoadIsSound'
<1> SUFFICES ASSUME LoadIsSound, [StartupNext]_startupVars PROVE LoadIsSound'
  OBVIOUS
<1>1. UsedIsUsable /\ RepairsAreReported /\ UsedIsUsable'
  BY UseStep DEF LoadIsSound
<1>2. RepairsAreReported'
  <2>1. CASE Read
    <3>1. /\ used' = Load(file).document /\ file.kind \in {"document", "garbage"}
          /\ told' = [what |-> "loaded", from |-> file, issues |-> Load(file).issues]
      BY <2>1 DEF Read
    <3>2. told'.from = file /\ told'.issues = Load(file).issues
      BY <3>1, Zenon
    <3>3. file.kind = "document" => Tells(Load(file).issues, Marked(file.document), Load(file).document)
      BY <1>1, <3>1, LoadGives DEF UsedIsUsable
    <3> QED BY <3>1, <3>2, <3>3, Zenon DEF RepairsAreReported
  <2>2. CASE UNCHANGED <<told, used>>
    BY <1>1, <2>2 DEF RepairsAreReported
  <2>3. CASE told'.what # "loaded"
    BY <2>3 DEF RepairsAreReported
  <2>4. Read \/ UNCHANGED <<told, used>> \/ told'.what # "loaded"
    BY NothingIsTold
       DEF StartupNext, Begin, FindNoFile, FindFile, WriteDefault, ReadNothing, Repair,
           Prepare, Classify, Recover, Log, Measure, Stop, Edit, Examine, startupVars
  <2> QED BY <2>1, <2>2, <2>3, <2>4
<1> QED BY <1>1, <1>2 DEF LoadIsSound

\* A round.
LEMMA MeasureIsHonest ==
  UsedIsUsable /\ Measure => UplinkIsHonest'
<1> SUFFICES ASSUME UsedIsUsable, Measure PROVE UplinkIsHonest'
  OBVIOUS
<1>1. PICK m \in Machines, configured \in {"none", "dsl"} :
        LET entry == SelectEntry(OrEmpty(EnumEntries(m)), configured)
            seen == Observe(m, entry.value, used.numbers.failure_quorum)
        IN  \E left \in {m} \cup (IF seen.link = "absent" THEN {} ELSE {HangUpAll(m, entry.value)}) :
               told' = [what |-> "uplink", from |-> m, entry |-> entry.value, seen |-> seen,
                        left |-> left.connections,
                        wifi |-> IF seen.wifi \/ entry.value = "none" THEN "kept"
                                 ELSE IF ConnectWifi(m) THEN "asked" ELSE "failed"]
  BY Zenon DEF Measure
<1> DEFINE entry == SelectEntry(OrEmpty(EnumEntries(m)), configured).value
           required == used.numbers.failure_quorum
           seen == Observe(m, entry, required)
           wifi == IF seen.wifi \/ entry = "none" THEN "kept"
                   ELSE IF ConnectWifi(m) THEN "asked" ELSE "failed"
           lefts == {m} \cup (IF seen.link = "absent" THEN {} ELSE {HangUpAll(m, entry)})
<1>2. PICK left \in {m, HangUpAll(m, entry)} :
        told' = [what |-> "uplink", from |-> m, entry |-> entry, seen |-> seen, left |-> left.connections,
                 wifi |-> wifi]
  <2>1. \E left \in lefts :
          told' = [what |-> "uplink", from |-> m, entry |-> entry, seen |-> seen, left |-> left.connections,
                   wifi |-> wifi]
    BY <1>1, Zenon
  <2>2. \A left \in lefts : left \in {m, HangUpAll(m, entry)}
    <3> HIDE DEF seen, entry
    <3> QED OBVIOUS
  <2> HIDE DEF lefts, wifi, seen, entry
  <2> QED BY <2>1, <2>2, Zenon
<1>3. IsMachine(m) /\ required \in Int
  <2>1. IsMachine(m)
    BY Zenon, StartupAssumption
  <2>2. used.numbers \in [Numbers -> 0 .. Huge]
    BY DEF UsedIsUsable, ConfigDocuments
  <2>3. "failure_quorum" \in Numbers
    BY DEF Numbers, Bounds
  <2>4. used.numbers.failure_quorum \in 0 .. Huge
    BY <2>2, <2>3
  <2> QED BY <2>1, <2>4, HugeIsNat
<1> HIDE DEF entry, required, seen, wifi, lefts
<1>4. /\ told'.from = m /\ told'.entry = entry /\ told'.seen = seen /\ told'.left = left.connections
  BY <1>2, Zenon
<1>5. \A i \in DOMAIN m.connections : ~SameName(m.connections[i].entry, entry) => m.connections[i] \in ToSet(left.connections)
  <2> SUFFICES ASSUME NEW i \in DOMAIN m.connections, ~SameName(m.connections[i].entry, entry)
               PROVE  m.connections[i] \in ToSet(left.connections)
    OBVIOUS
  <2>1. \E k \in DOMAIN HangUpAll(m, entry).connections :
            HangUpAll(m, entry).connections[k] = m.connections[i]
    BY <1>3, HungUpIsOfTheEntry
  <2>2. \E k \in DOMAIN left.connections : left.connections[k] = m.connections[i]
    BY <2>1, Zenon
  <2> QED BY <2>2 DEF ToSet
<1>6. /\ seen.link = "up" =>
           m.route /\ \E i \in DOMAIN m.connections :
             LET c == m.connections[i] IN
             SameName(c.entry, entry) /\ c.readable /\ c.projected /\ c.address \notin {"", "0.0.0.0"}
      /\ seen.link # "absent" => \E i \in DOMAIN m.connections : SameName(m.connections[i].entry, entry)
      /\ (seen.link = "absent" /\ entry # "none" /\ EnumConnections(m).ok) =>
           \A i \in DOMAIN m.connections : ~SameName(m.connections[i].entry, entry)
      /\ seen.wifi => \E i \in DOMAIN m.interfaces : m.interfaces[i].connected
  BY <1>3, SeenLinks, Zenon DEF seen
<1>7. /\ seen.probes = "quorum" =>
           \E i \in DOMAIN m.probes : m.probes[i].enabled /\ RunOne(m.probes[i])
      /\ seen.probes = "none" =>
           \E i \in DOMAIN m.probes : m.probes[i].enabled /\ ~RunOne(m.probes[i])
  BY <1>3, SeenProbes DEF seen
<1> DEFINE mine == {i \in DOMAIN m.connections : SameName(m.connections[i].entry, entry)}
           passing == {i \in DOMAIN m.probes : m.probes[i].enabled /\ RunOne(m.probes[i])}
           conns == ToSet(m.connections)
<1>8. \A c \in ToSet(m.connections) \ ToSet(left.connections) : SameName(c.entry, entry)
  BY <1>5 DEF ToSet
<1>9. seen.probes = "none" => \E p \in ToSet(m.probes) : p.enabled /\ ~RunOne(p)
  BY <1>7 DEF ToSet
<1>10. seen.wifi => \E i \in ToSet(m.interfaces) : i.connected
  BY <1>6 DEF ToSet
<1>11. /\ seen.link = "up" =>
           m.route /\ \E i \in mine : LET c == m.connections[i] IN
             c.readable /\ c.projected /\ c.address \notin {"", "0.0.0.0"}
       /\ seen.link # "absent" => mine # {}
       /\ (seen.link = "absent" /\ entry # "none") => mine = {} \/ ~EnumConnections(m).ok
       /\ seen.probes = "quorum" => passing # {}
  BY <1>6, <1>7
<1> QED BY <1>4, <1>8, <1>9, <1>10, <1>11, Zenon DEF UplinkIsHonest

\* What a clean bill of a machine and a file says of them.
Earned(m, f, report) ==
    /\ m.reachable /\ m.elevated /\ m.helper /\ m.processes_listed /\ m.policy_read
    /\ m.level = "protected" /\ m.unapplied = 0 /\ m.management = "unmanaged"
    /\ \A s \in Signals : Probe(m.registry, s) = "absent"
    /\ \E i \in DOMAIN m.probes : m.probes[i].enabled /\ RunOne(m.probes[i])
    /\ SelectEntry(OrEmpty(EnumEntries(m)), "none").ok
    /\ m.journal # "torn"
    /\ f.kind # "garbage"
    /\ f.kind = "document" => ~has_rejections(Load(f))
    /\ Worst(report) = "info"

LEMMA BillIsEarned ==
  /\ CleanBillIsEarned <=>
        (told.what = "report" /\ AllOk(told.report) => Earned(told.from, told.file, told.report))
  /\ CleanBillIsEarned' <=>
        (told'.what = "report" /\ AllOk(told'.report) => Earned(told'.from, told'.file, told'.report))
BY Zenon DEF CleanBillIsEarned, Earned

\* What is concluded stays concluded.
LEMMA ConclusionStays == ConclusionsAreSound /\ UNCHANGED told => ConclusionsAreSound'
<1> SUFFICES ASSUME ConclusionsAreSound, UNCHANGED told PROVE ConclusionsAreSound'
  OBVIOUS
<1>1. NotPendingMeansLooked'
  BY DEF ConclusionsAreSound, VerdictsAreBacked, NotPendingMeansLooked
<1>2. IncidentIsBacked'
  BY DEF ConclusionsAreSound, VerdictsAreBacked, IncidentIsBacked
<1>3. UplinkIsHonest'
  BY DEF ConclusionsAreSound, VerdictsAreBacked, UplinkIsHonest
<1>4. CleanBillIsEarned'
  BY BillIsEarned DEF ConclusionsAreSound
<1> QED BY <1>1, <1>2, <1>3, <1>4 DEF ConclusionsAreSound, VerdictsAreBacked

\* What is concluded.
LEMMA ConclusionStep ==
  UsedIsUsable /\ ConclusionsAreSound /\ [StartupNext]_startupVars => ConclusionsAreSound'
<1> SUFFICES ASSUME UsedIsUsable, ConclusionsAreSound, [StartupNext]_startupVars PROVE ConclusionsAreSound'
  OBVIOUS
<1> USE DEF ConclusionsAreSound, VerdictsAreBacked
<1>1. CASE Classify
  <2>1. PICK r \in Registries :
          told' = [what |-> "pending", from |-> r, verdict |-> ClassifySignals(Collected(r))]
    BY <1>1, Zenon DEF Classify
  <2>2. told'.what = "pending" /\ told'.from = r /\ told'.verdict = ClassifySignals(Collected(r))
    BY <2>1, Zenon
  <2>3. IsRegistry(r)
    BY Zenon, StartupAssumption
  <2>4. NotPendingMeansLooked'
    BY <2>2, <2>3, NotPendingIsAbsent DEF NotPendingMeansLooked
  <2> QED BY <2>2, <2>4 DEF UplinkIsHonest, IncidentIsBacked, CleanBillIsEarned
<1>2. CASE Recover
  <2>1. PICK p \in Pasts :
          told' = [what |-> "restart", from |-> p,
                   incident |-> RestartIncident(p.log, p.previous, BootId(p.now, p.uptime),
                                                (p.now - p.uptime) \div 60000, p.now \div 60000)]
    BY <1>2 DEF Recover
  <2> DEFINE found == RestartIncident(p.log, p.previous, BootId(p.now, p.uptime),
                                      (p.now - p.uptime) \div 60000, p.now \div 60000)
  <2>2. \A i \in found :
          /\ ~p.previous.clean /\ p.previous.boot # BootId(p.now, p.uptime)
          /\ \A a \in i.agents : \E c \in p.previous.checkpoint : a \in c.agents /\ a.confidence # "low"
          /\ i.verdict.confidence = "confirmed" =>
                 p.log.opens /\ \E k \in DOMAIN p.log.records \ p.log.lost : p.log.records[k].id = 1074
    BY IncidentsAreBacked
  <2> HIDE DEF found
  <2>3. told'.what = "restart" /\ told'.from = p /\ told'.incident = found
    BY <2>1 DEF found
  <2>4. IncidentIsBacked'
    BY <2>2, <2>3 DEF IncidentIsBacked
  <2> QED BY <2>3, <2>4 DEF UplinkIsHonest, NotPendingMeansLooked, CleanBillIsEarned
<1>3. CASE Measure
  <2>1. told'.what = "uplink"
    BY <1>3 DEF Measure
  <2>2. UplinkIsHonest'
    BY <1>3, MeasureIsHonest
  <2> QED BY <2>1, <2>2 DEF NotPendingMeansLooked, IncidentIsBacked, CleanBillIsEarned
<1>4. CASE Examine
  <2>1. PICK m \in Machines :
          told' = [what |-> "report", from |-> m, file |-> file, report |-> BuildReport(m, file)]
    BY <1>4, Zenon DEF Examine
  <2>2. /\ told'.what = "report" /\ told'.from = m /\ told'.file = file
        /\ told'.report = BuildReport(m, file)
    BY <2>1, Zenon
  <2>3. IsMachine(m) /\ IsFile(file)
    BY Zenon, StartupAssumption DEF UsedIsUsable
  <2>4. CleanBillIsEarned'
    <3>1. AllOk(BuildReport(m, file)) => Earned(m, file, BuildReport(m, file))
      BY <2>3, CleanBill, Zenon DEF Earned
    <3> QED BY <2>2, <3>1, BillIsEarned
  <2> QED BY <2>2, <2>4 DEF UplinkIsHonest, NotPendingMeansLooked, IncidentIsBacked
<1>5. CASE UNCHANGED told
  BY <1>5, ConclusionStays
<1>6. CASE told'.what \in {"nothing", "loaded"}
  BY <1>6 DEF NotPendingMeansLooked, UplinkIsHonest, IncidentIsBacked, CleanBillIsEarned
<1>7. \/ Classify \/ Recover \/ Measure \/ Examine \/ UNCHANGED told
      \/ told'.what \in {"nothing", "loaded"}
  BY NothingIsTold
     DEF StartupNext, Begin, FindNoFile, FindFile, WriteDefault, Read, ReadNothing, Repair,
         Prepare, Log, Stop, Edit, startupVars
<1> QED BY <1>1, <1>2, <1>3, <1>4, <1>5, <1>6, <1>7

\* Whatever the file holds, and whenever it is edited, the runtime goes by a usable
\* document, and an issue names each field of what was read that it changed.
THEOREM LoadsAreSound == StartupSpec => []LoadIsSound
<1>1. StartupInit => LoadIsSound
  BY StartupBegins
<1> QED BY <1>1, LoadStep, PTL DEF StartupSpec

\* What is concluded of a pending restart, of the uplink, of the end of the last
\* session and of the machine is there, whatever the machine, the registry, the
\* event log and the configuration hold.
THEOREM NothingIsMadeUp == StartupSpec => []ConclusionsAreSound
<1> DEFINE Both == UsedIsUsable /\ ConclusionsAreSound
<1>1. StartupInit => Both
  BY StartupBegins DEF LoadIsSound
<1>2. Both /\ [StartupNext]_startupVars => Both'
  BY UseStep, ConclusionStep
<1>3. Both => ConclusionsAreSound
  OBVIOUS
<1> QED BY <1>1, <1>2, <1>3, PTL DEF StartupSpec

-----------------------------------------------------------------------------
(* The state file.                                                           *)

LEMMA StateNumbers ==
  /\ Attempts \in Nat /\ Attempts > 0 /\ MaxQuarantine \in Nat /\ MaxQuarantine > 0
  /\ MaxSaves \in Nat /\ MaxCrashes \in Nat /\ MaxFaults \in Nat /\ MaxDamages \in Nat
BY StateFileAssumption

LEMMA OneMore ==
  \A bound \in Nat : \A n, m : n \in 0 .. bound /\ n < bound /\ m = n + 1 => m \in 0 .. bound
OBVIOUS

LEMMA Contents ==
  /\ Absent \in Content /\ Damaged \in Content
  /\ \A n \in 1 .. MaxSaves : n \in Content
BY DEF Content, Saved

LEMMA InvInit == Init => IInv
<1> SUFFICES ASSUME Init PROVE IInv
  OBVIOUS
<1>1. TypeOK
  <2>1. flushed \in BOOLEAN
    BY Zenon DEF Init
  <2>2. doc \in Content /\ tmp \in Content /\ aside \in [Names -> Content] /\ slot \in Names
    BY Contents, StateNumbers DEF Init, Names
  <2> QED BY <2>1, <2>2, StateNumbers DEF Init, TypeOK
<1>2. RenamesWhole /\ SaveUnderWay /\ SlotIsFree
  BY DEF Init, RenamesWhole, SaveUnderWay, SlotIsFree
<1> QED BY <1>1, <1>2 DEF IInv

-----------------------------------------------------------------------------
(* One lemma for each side: what it leaves alone, and what it may change.     *)

\* The types of the runtime's part, and what it promises about it.
RuntimeOK ==
    /\ tmp \in Content /\ flushed \in BOOLEAN
    /\ pc \in {"up", "off", "write", "sync", "rename"}
    /\ tries \in 0..(Attempts - 1) /\ saves \in 0..MaxSaves /\ crashes \in 0..MaxCrashes
    /\ RenamesWhole /\ SaveUnderWay

\* The types of the tool's part, and what it promises about it.
ToolOK ==
    /\ aside \in [Names -> Content]
    /\ ctl \in {"idle", "choose", "move"} /\ slot \in Names
    /\ answer \in {"none", "not installed", "no originals", "refused"}
    /\ SlotIsFree

SharedOK ==
    /\ doc \in Content /\ faults \in 0..MaxFaults /\ damages \in 0..MaxDamages

LEMMA Parts == IInv <=> RuntimeOK /\ ToolOK /\ SharedOK
BY DEF IInv, TypeOK, RuntimeOK, ToolOK, SharedOK

LEMMA PartsNext == IInv' <=> RuntimeOK' /\ ToolOK' /\ SharedOK'
BY DEF IInv, TypeOK, RuntimeOK, ToolOK, SharedOK, RenamesWhole, SaveUnderWay, SlotIsFree

LEMMA RuntimeKept == RuntimeOK /\ UNCHANGED runtime => RuntimeOK'
BY DEF RuntimeOK, runtime, RenamesWhole, SaveUnderWay

LEMMA ToolKept == ToolOK /\ UNCHANGED tool => ToolOK'
BY DEF ToolOK, tool, SlotIsFree

Runs == Create \/ Save \/ WriteFails \/ Crash \/ Restart

\* A save goes from the temporary file that it fills to the document.
LEMMA RuntimeStep ==
  ASSUME RuntimeOK, SharedOK, Runs
  PROVE  RuntimeOK' /\ SharedOK' /\ UNCHANGED tool
<1> USE DEF RuntimeOK, SharedOK, RenamesWhole, SaveUnderWay
<1>1. CASE Create
  <2>1. saves \in Nat /\ saves + 1 \in 1 .. MaxSaves
    BY <1>1, StateNumbers DEF Create
  <2>2. flushed' \in BOOLEAN
    BY <1>1, Zenon DEF Create
  <2> QED BY <1>1, <2>1, <2>2, StateNumbers, Contents DEF Create
<1>2. CASE Fill
  BY <1>2, Contents DEF Fill
<1>3. CASE Sync
  <2>1. flushed' /\ flushed' \in BOOLEAN
    BY <1>3, Zenon DEF Sync
  <2> QED BY <1>3, <2>1 DEF Sync
<1>4. CASE Replace
  <2>1. flushed' \in BOOLEAN
    BY <1>4, Zenon DEF Replace
  <2> QED BY <1>4, <2>1, Contents DEF Replace
<1>5. CASE InUse
  <2>1. flushed' \in BOOLEAN
    BY <1>5, Zenon DEF InUse
  <2>2. tries' \in 0..(Attempts - 1)
    <3>1. (tries' = tries + 1 /\ tries + 1 < Attempts) \/ tries' = 0
      BY <1>5, Zenon DEF InUse
    <3> QED BY <3>1, StateNumbers
  <2>3. CASE tries + 1 < Attempts
    <3>1. UNCHANGED <<tmp, pc, saves, crashes, doc, faults, damages, tool>> /\ pc = "rename"
      BY <1>5, <2>3 DEF InUse
    <3>2. flushed'
      BY <1>5, <2>3, Zenon DEF InUse
    <3> QED BY <2>1, <2>2, <3>1, <3>2
  <2>4. CASE ~(tries + 1 < Attempts)
    <3>1. tmp' = Absent /\ pc' = "up" /\ UNCHANGED <<saves, crashes, doc, faults, damages, tool>>
      BY <1>5, <2>4 DEF InUse
    <3> QED BY <2>1, <2>2, <3>1, Contents
  <2> QED BY <2>3, <2>4
<1>6. CASE WriteFails
  BY <1>6, StateNumbers DEF WriteFails
<1>7. CASE Crash
  <2>1. tmp' \in Content
    BY <1>7, Contents DEF Crash
  <2> QED BY <1>7, <2>1, StateNumbers DEF Crash
<1>8. CASE Restart
  BY <1>8 DEF Restart
<1> QED BY <1>1, <1>2, <1>3, <1>4, <1>5, <1>6, <1>7, <1>8 DEF Runs, Save

Restores == Believe \/ Disbelieve \/ ReadRefused \/ Choose \/ Move \/ MoveFails

\* Only Choose empties a name, which Move then fills.
LEMMA ToolStep ==
  ASSUME ToolOK, SharedOK, Restores
  PROVE  ToolOK' /\ SharedOK' /\ UNCHANGED runtime
<1> USE DEF ToolOK, SharedOK, SlotIsFree
<1>1. CASE Believe
  BY <1>1 DEF Believe
<1>2. CASE Disbelieve
  BY <1>2 DEF Disbelieve
<1>3. CASE ReadRefused
  <2>1. faults' \in 0..MaxFaults
    <3>1. faults \in 0..MaxFaults /\ faults < MaxFaults /\ faults' = faults + 1
      BY <1>3, Zenon DEF ReadRefused
    <3> QED BY <3>1, OneMore, StateNumbers, Zenon
  <2> QED BY <1>3, <2>1 DEF ReadRefused
<1>4. CASE Choose
  <2>1. PICK n \in Names : slot' = n /\ aside' = [aside EXCEPT ![n] = Absent]
    BY <1>4 DEF Choose
  <2>2. aside' \in [Names -> Content] /\ aside'[slot'] = Absent
    BY <2>1, Contents
  <2> QED BY <1>4, <2>1, <2>2 DEF Choose
<1>5. CASE Move
  <2>1. aside' \in [Names -> Content] /\ doc' \in Content
    BY <1>5, Contents DEF Move
  <2> QED BY <1>5, <2>1 DEF Move
<1>6. CASE MoveFails
  <2>1. faults' \in 0..MaxFaults
    <3>1. faults \in 0..MaxFaults /\ faults < MaxFaults /\ faults' = faults + 1
      BY <1>6, Zenon DEF MoveFails
    <3> QED BY <3>1, OneMore, StateNumbers, Zenon
  <2> QED BY <1>6, <2>1 DEF MoveFails
<1> QED BY <1>1, <1>2, <1>3, <1>4, <1>5, <1>6 DEF Restores

LEMMA DamageStep ==
  ASSUME SharedOK, Damage
  PROVE  SharedOK' /\ UNCHANGED runtime /\ UNCHANGED tool
BY Contents, StateNumbers DEF Damage, SharedOK, runtime, tool

LEMMA InvNext == IInv /\ [Next]_vars => IInv'
<1> SUFFICES ASSUME IInv, [Next]_vars PROVE IInv'
  OBVIOUS
<1>1. RuntimeOK /\ ToolOK /\ SharedOK
  BY Parts
<1>2. CASE Runs
  BY <1>1, <1>2, RuntimeStep, ToolKept, PartsNext
<1>3. CASE Restores
  BY <1>1, <1>3, ToolStep, RuntimeKept, PartsNext
<1>4. CASE Damage
  BY <1>1, <1>4, DamageStep, RuntimeKept, ToolKept, PartsNext
<1>5. CASE UNCHANGED vars
  <2>1. UNCHANGED runtime /\ UNCHANGED tool /\ SharedOK'
    BY <1>1, <1>5 DEF vars, SharedOK
  <2> QED BY <1>1, <2>1, RuntimeKept, ToolKept, PartsNext
<1> QED BY <1>2, <1>3, <1>4, <1>5 DEF Next, Runs, Restores

\* The inductive invariant of the state file.
THEOREM Inductive == Spec => []IInv
BY InvInit, InvNext, PTL DEF Spec

\* What is renamed over the document is whole and on the disk, and of this save.
THEOREM OnlyWholeIsRenamed == Spec => []RenamesWhole
<1>1. IInv => RenamesWhole
  BY DEF IInv
<1> QED BY Inductive, <1>1, PTL

-----------------------------------------------------------------------------
\* A step of the program is one of the atomic document, or none.
LEMMA AtomicStep ==
  ASSUME IInv, [Next]_vars
  PROVE  [A!Next]_(A!vars)
<1> USE DEF A!Next, A!vars
<1>1. CASE Create
  BY <1>1 DEF Create, A!Offer
<1>2. CASE Replace
  <2>1. tmp = saves /\ saves > 0
    BY <1>2 DEF Replace, IInv, RenamesWhole, SaveUnderWay
  <2> QED BY <1>2, <2>1 DEF Replace, A!Publish
<1>3. CASE Fill \/ Sync \/ InUse \/ WriteFails \/ Crash \/ Restart
  BY <1>3 DEF Fill, Sync, InUse, WriteFails, Crash, Restart
<1>4. CASE Damage
  BY <1>4 DEF Damage, runtime, Damaged, A!Damage, A!Damaged
<1>5. CASE Move
  BY <1>5 DEF Move, runtime, Absent, A!SetAside, A!Absent
<1>6. CASE Believe \/ Disbelieve \/ ReadRefused \/ Choose \/ MoveFails
  BY <1>6 DEF Believe, Disbelieve, ReadRefused, Choose, MoveFails, runtime
<1>7. CASE UNCHANGED vars
  BY <1>7 DEF vars, runtime
<1> QED BY <1>1, <1>2, <1>3, <1>4, <1>5, <1>6, <1>7 DEF Next, Save

\* The state document is an atomic one.
THEOREM DocumentIsAtomic == Spec => IsAtomicDocument
<1>1. Init => A!Init
  BY DEF Init, A!Init, Absent, Damaged, A!Absent, A!Damaged
<1>2. IInv /\ [Next]_vars => [A!Next]_(A!vars)
  BY AtomicStep
<1> QED BY <1>1, <1>2, Inductive, PTL DEF Spec, IsAtomicDocument, A!Spec

\* What was set aside under any name but the last stays there.
THEOREM EvidenceIsKept == Spec => EvidenceKept
<1>1. ASSUME IInv, [Next]_vars, NEW n \in Names, n # MaxQuarantine - 1, aside[n] # Absent
      PROVE  aside'[n] = aside[n]
  <2>1. aside \in [Names -> Content] /\ slot \in Names
    BY <1>1 DEF IInv, TypeOK
  <2>2. CASE Choose
    <3>1. PICK m \in Names : IsChosen(m) /\ aside' = [aside EXCEPT ![m] = Absent]
      BY <2>2 DEF Choose
    <3>2. m # n
      BY <1>1, <3>1 DEF IsChosen
    <3> QED BY <2>1, <3>1, <3>2
  <2>3. CASE Move
    <3>1. n # slot
      BY <1>1, <2>3 DEF Move, IInv, SlotIsFree
    <3> QED BY <2>1, <2>3, <3>1 DEF Move
  <2>4. CASE ~Choose /\ ~Move
    BY <1>1, <2>4 DEF Next, vars, tool, Create, Save, Fill, Sync, Replace, InUse, WriteFails,
                      Crash, Restart, Damage, Believe, Disbelieve, ReadRefused, MoveFails
  <2> QED BY <2>2, <2>3, <2>4
<1>2. IInv /\ [Next]_vars =>
        \A n \in Names : n # MaxQuarantine - 1 /\ aside[n] # Absent => aside'[n] = aside[n]
  BY <1>1
<1> QED BY Inductive, <1>2, PTL DEF Spec, EvidenceKept
=============================================================================
