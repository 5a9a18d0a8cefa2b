------------------------- MODULE UpdateGuardProofs -------------------------
(***************************************************************************)
(* What the update worker says is true, and it says what it has to, for    *)
(* every list of values, however often others change them meanwhile.       *)
(***************************************************************************)
EXTENDS UpdateGuard, TLAPS, WellFoundedInduction

USE DEF given, machine, work, outcome

-----------------------------------------------------------------------------
(* The list of the values                                                    *)

LEMMA Numbers == MaxTampers \in Nat /\ MaxFailures \in Nat
BY UpdateAssumption

LEMMA Positions ==
  /\ Len(Order) \in Nat /\ Len(Order) > 0 /\ DOMAIN Order = 1 .. Len(Order)
  /\ \A i \in 1 .. Len(Order) : Order[i] \in Values
  /\ \A v \in Values : \E i \in 1 .. Len(Order) : Order[i] = v
<1>1. Order \in Seq(Values) /\ Len(Order) > 0
  BY UpdateAssumption
<1>2. Len(Order) \in Nat /\ DOMAIN Order = 1 .. Len(Order)
  BY <1>1
<1>3. \A i \in 1 .. Len(Order) : Order[i] \in Values
  BY <1>1, <1>2
<1>4. \A v \in Values : \E i \in 1 .. Len(Order) : Order[i] = v
  BY <1>2, Zenon DEF Values, Range
<1> QED BY <1>1, <1>2, <1>3, <1>4

\* The first of the changed values is one of them.
LEMMA FirstIsChanged ==
  ASSUME NEW changed \in SUBSET Values, changed # {}
  PROVE  FirstOf(changed) \in changed
<1> DEFINE places == {i \in DOMAIN Order : Order[i] \in changed}
<1>1. places \subseteq Nat /\ places # {}
  <2>1. PICK v \in changed : TRUE
    OBVIOUS
  <2>2. PICK i \in 1 .. Len(Order) : Order[i] = v
    BY <2>1, Positions
  <2> QED BY <2>1, <2>2, Positions
<1>2. PICK i \in places : \A j \in places : ~(<<j, i>> \in OpToRel(<, Nat))
  <2> HIDE DEF places
  <2> QED BY <1>1, WFMin, NatLessThanWellFounded, Zenon
<1>3. \A j \in 1 .. (i - 1) : Order[j] \notin changed
  <2> SUFFICES ASSUME NEW j \in 1 .. (i - 1), Order[j] \in changed PROVE FALSE
    OBVIOUS
  <2>1. i \in Nat /\ i <= Len(Order) /\ j \in Nat /\ j < i /\ j \in DOMAIN Order
    BY <1>1, Positions
  <2>2. j \in places /\ <<j, i>> \in Nat \X Nat
    BY <2>1
  <2> QED BY <1>2, <2>1, <2>2 DEF OpToRel
<1>4. \E k \in DOMAIN Order : Order[k] \in changed /\ \A j \in 1 .. (k - 1) : Order[j] \notin changed
  BY <1>3
<1> QED BY <1>4, Zenon DEF FirstOf

\* What is read of a value is of the right type, and harmless only if it is.
LEMMA Observations ==
  ASSUME reg \in [Values -> Held], NEW v \in Values
  PROVE  /\ Observed(v) \in {"absent", "right", "wrong", "omitted"}
         /\ Safe(v, Observed(v)) /\ Observed(v) # "omitted" => Harmless(v, reg[v])
<1>1. reg[v] \in {"absent", "right", "wrong", "oversized"}
  BY DEF Held
<1>2. CASE v \in denied
  BY <1>2 DEF Observed
<1>3. CASE v \notin denied /\ reg[v] = "oversized"
  BY <1>3 DEF Observed, Safe, Harmless
<1>4. CASE v \notin denied /\ reg[v] # "oversized"
  BY <1>1, <1>4 DEF Observed, Harmless
<1> QED BY <1>2, <1>3, <1>4

LEMMA TamperedInCore == \A s : Tampered(s) \in SUBSET Core /\ Tampered(s) \in SUBSET Values
BY DEF Tampered, Core

-----------------------------------------------------------------------------
(* Every step of a pass that is under way only adds to what was harmless.     *)

LEMMA Types ==
  ASSUME TypeOK
  PROVE  /\ reg \in [Values -> Held] /\ denied \subseteq Values
         /\ at \in 1 .. Len(Order) /\ at \in Nat /\ Order[at] \in Values
         /\ first \in [Values -> {"absent", "right", "wrong", "omitted"}]
         /\ seen \in [Values -> {"absent", "right", "wrong", "omitted"}]
         /\ held \subseteq Values /\ written \subseteq Values
         /\ scope \in {"empty", "readable", "unreadable"}
BY Positions DEF TypeOK

LEMMA WitnessStep ==
  ASSUME held \subseteq Values, Witness
  PROVE  held' \subseteq Values /\ held \subseteq held'
BY DEF Witness

\* A value that is read now is backed by what is harmless now.
LEMMA ReadIsBacked ==
  ASSUME TypeOK, NowIsHeld, pc # "idle", NEW v \in Values
  PROVE  Safe(v, Observed(v)) /\ Observed(v) # "omitted" => v \in held
BY Types, Observations DEF NowIsHeld

\* The invariant without the types.
Promises == StartsAtFirst /\ NowIsHeld /\ ReadingsAreBacked /\ ReportedIsFirst

LEMMA InvInit == Init => IInv
<1> SUFFICES ASSUME Init PROVE IInv
  OBVIOUS
<1>1. failed \in BOOLEAN /\ started \in BOOLEAN /\ protect \in BOOLEAN /\ autoRestore \in BOOLEAN
  BY Zenon DEF Init
<1>2. /\ scope \in {"empty", "readable", "unreadable"} /\ denied \subseteq Values
      /\ reg \in [Values -> Held]
  BY UpdateAssumption DEF Init
<1>3. first \in [Values -> {"absent", "right", "wrong", "omitted"}] /\ seen = first
  BY DEF Init, Unread
<1>4. TypeOK
  BY <1>1, <1>2, <1>3, Positions, Numbers DEF Init, TypeOK
<1>5. StartsAtFirst /\ NowIsHeld /\ ReadingsAreBacked /\ ReportedIsFirst
  BY DEF Init, StartsAtFirst, NowIsHeld, ReadingsAreBacked, ReportedIsFirst
<1> QED BY <1>4, <1>5 DEF IInv

\* What other programs write can only add to what is held.
LEMMA TamperStep ==
  ASSUME IInv, Tamper
  PROVE  IInv'
<1>1. TypeOK /\ held' \subseteq Values /\ held \subseteq held'
  BY WitnessStep DEF IInv, TypeOK, Tamper
<1>2. UNCHANGED <<given, pc, at, work, outcome>>
  BY DEF Tamper
<1>3. reg' \in [Values -> Held]
  BY <1>1, Types DEF Tamper
<1>4. tampers' \in 0..MaxTampers
  <2>1. tampers < MaxTampers /\ tampers' = tampers + 1 /\ tampers \in 0..MaxTampers
    BY <1>1 DEF Tamper, TypeOK
  <2> QED BY <2>1, Numbers
<1>5. TypeOK'
  BY <1>1, <1>2, <1>3, <1>4 DEF TypeOK
<1>6. NowIsHeld'
  BY DEF Tamper, Witness, NowIsHeld
<1>7. ReadingsAreBacked'
  BY <1>1, <1>2 DEF IInv, ReadingsAreBacked, Backed
<1>8. StartsAtFirst' /\ ReportedIsFirst'
  BY <1>2 DEF IInv, StartsAtFirst, ReportedIsFirst
<1> QED BY <1>5, <1>6, <1>7, <1>8 DEF IInv

LEMMA StartStep ==
  ASSUME IInv, StartPass \/ DetectManagement \/ WalkAgain
  PROVE  IInv'
<1>1. CASE StartPass
  <2>1. /\ pc' = "manage" /\ held' = {v \in Values : Harmless(v, reg[v])} /\ at = 1 /\ written = {}
        /\ UNCHANGED <<reg, given, tampers, at, work, outcome>>
    BY <1>1 DEF StartPass, IInv, StartsAtFirst
  <2>2. TypeOK'
    BY <2>1 DEF IInv, TypeOK
  <2>3. StartsAtFirst' /\ NowIsHeld' /\ ReadingsAreBacked' /\ ReportedIsFirst'
    BY <2>1 DEF IInv, StartsAtFirst, NowIsHeld, ReadingsAreBacked, ReportedIsFirst
  <2> QED BY <2>2, <2>3 DEF IInv
<1>2. CASE DetectManagement
  <2>1. /\ pc = "manage" /\ pc' \in {"read", "off"} /\ at = 1 /\ written = {}
        /\ UNCHANGED <<reg, given, tampers, at, work, outcome, held>>
    BY <1>2 DEF DetectManagement, IInv, StartsAtFirst
  <2>2. TypeOK'
    BY <2>1 DEF IInv, TypeOK
  <2>3. NowIsHeld'
    BY <2>1 DEF IInv, NowIsHeld
  <2>4. ReadingsAreBacked'
    <3>1. 1 .. (at' - 1) = {}
      BY <2>1
    <3> QED BY <2>1, <3>1 DEF ReadingsAreBacked
  <2>5. StartsAtFirst' /\ ReportedIsFirst'
    BY <2>1 DEF IInv, StartsAtFirst, ReportedIsFirst
  <2> QED BY <2>2, <2>3, <2>4, <2>5 DEF IInv
<1>3. CASE WalkAgain
  BY <1>3 DEF WalkAgain, vars, IInv, TypeOK, StartsAtFirst, NowIsHeld, ReadingsAreBacked, Backed,
              ReportedIsFirst
<1> QED BY <1>1, <1>2, <1>3

LEMMA ReportOffStep ==
  ASSUME IInv, ReportOff
  PROVE  IInv'
<1>1. started' \in BOOLEAN
  BY Zenon DEF ReportOff
<1>2. TypeOK'
  BY <1>1 DEF ReportOff, IInv, TypeOK
<1>3. StartsAtFirst' /\ NowIsHeld' /\ ReadingsAreBacked' /\ ReportedIsFirst'
  BY DEF ReportOff, IInv, StartsAtFirst, NowIsHeld, ReadingsAreBacked, ReportedIsFirst
<1> QED BY <1>2, <1>3 DEF IInv

\* A read goes to the next value, or on from the last one.
LEMMA Advance ==
  ASSUME NEW next, at \in 1 .. Len(Order), ReadInto(next)
  PROVE  /\ at' \in 1 .. Len(Order)
         /\ \/ at = Len(Order) /\ at' = 1 /\ pc' = next
            \/ at # Len(Order) /\ at' - 1 = at /\ pc' = pc
<1>1. CASE at = Len(Order)
  <2>1. at' = 1 /\ pc' = next
    BY <1>1 DEF ReadInto
  <2> QED BY <1>1, <2>1, Positions
<1>2. CASE at # Len(Order)
  <2>1. at' = at + 1 /\ pc' = pc
    BY <1>2 DEF ReadInto
  <2>2. \A len \in Nat : \A n, m : n \in 1 .. len /\ n # len /\ m = n + 1 => m \in 1 .. len /\ m - 1 = n
    OBVIOUS
  <2>3. Len(Order) \in Nat
    BY Positions
  <2>4. at' \in 1 .. Len(Order) /\ at' - 1 = at
    BY <1>2, <2>1, <2>2, <2>3, Zenon
  <2> QED BY <1>2, <2>1, <2>4, Zenon
<1> QED BY <1>1, <1>2

Reading == [Values -> {"absent", "right", "wrong", "omitted"}]

\* A reading f that is backed before position n is backed with it, once o is read.
LEMMA ReadOn ==
  ASSUME NEW f \in Reading, NEW n \in 1 .. Len(Order), NEW o,
         \A i \in 1 .. (n - 1) : Backed(f, Order[i]),
         Safe(Order[n], o) /\ o # "omitted" => Order[n] \in held
  PROVE  \A i \in 1 .. n : Backed([f EXCEPT ![Order[n]] = o], Order[i])
<1> DEFINE g == [f EXCEPT ![Order[n]] = o]
<1> TAKE i \in 1 .. n
<1>1. Order[i] \in Values /\ Order[n] \in Values /\ n \in Nat
  BY Positions
<1>2. CASE Order[i] = Order[n]
  <2>1. g[Order[i]] = o
    BY <1>1, <1>2 DEF Reading
  <2> HIDE DEF g
  <2> QED BY <1>2, <2>1 DEF Backed, g
<1>3. CASE Order[i] # Order[n]
  <2>1. g[Order[i]] = f[Order[i]]
    BY <1>1, <1>3 DEF Reading
  <2>2. i \in 1 .. (n - 1)
    BY <1>1, <1>3
  <2> HIDE DEF g
  <2> QED BY <2>1, <2>2 DEF Backed, g
<1> QED BY <1>2, <1>3

\* What is read is what is there, and is backed.
LEMMA ReadNow ==
  ASSUME IInv, pc # "idle"
  PROVE  /\ at \in 1 .. Len(Order) /\ first \in Reading /\ seen \in Reading
         /\ Observed(Order[at]) \in {"absent", "right", "wrong", "omitted"}
         /\ Safe(Order[at], Observed(Order[at])) /\ Observed(Order[at]) # "omitted"
               => Order[at] \in held
<1>1. TypeOK /\ NowIsHeld
  BY DEF IInv
<1> QED BY <1>1, Types, Observations, ReadIsBacked DEF Reading

\* The first read has got one value further.
LEMMA ReadFirstStep ==
  ASSUME IInv, ReadFirst
  PROVE  IInv'
<1>1. /\ pc = "read" /\ UNCHANGED <<machine, seen, written, failed, failures, outcome, held>>
      /\ first' = [first EXCEPT ![Order[at]] = Observed(Order[at])]
  BY DEF ReadFirst, ReadInto
<1>2. /\ at \in 1 .. Len(Order) /\ at' \in 1 .. Len(Order)
      /\ \/ at = Len(Order) /\ at' = 1 /\ pc' = "decide"
         \/ at # Len(Order) /\ at' - 1 = at /\ pc' = "read"
  BY <1>1, ReadNow, Advance DEF ReadFirst
<1>3. first' \in Reading
  BY <1>1, ReadNow DEF Reading
<1>4. TypeOK'
  BY <1>1, <1>2, <1>3 DEF IInv, TypeOK, Reading
<1>5. \A i \in 1 .. at : Backed(first', Order[i])
  <2>1. \A i \in 1 .. (at - 1) : Backed(first, Order[i])
    BY <1>1 DEF IInv, ReadingsAreBacked
  <2> QED BY <1>1, <2>1, ReadNow, ReadOn
<1>6. ReadingsAreBacked'
  <2>1. CASE pc' = "decide"
    <3>1. \A w \in Values : Backed(first, w)'
      BY <1>1, <1>2, <1>5, <2>1, Positions DEF Backed
    <3> QED BY <2>1, <3>1 DEF ReadingsAreBacked
  <2>2. CASE pc' = "read"
    <3>1. \A i \in 1 .. (at' - 1) : Backed(first, Order[i])'
      BY <1>1, <1>2, <1>5, <2>2 DEF Backed
    <3> QED BY <2>2, <3>1 DEF ReadingsAreBacked
  <2> QED BY <1>2, <2>1, <2>2
<1>7. StartsAtFirst' /\ NowIsHeld' /\ ReportedIsFirst'
  BY <1>1, <1>2 DEF IInv, StartsAtFirst, NowIsHeld, ReportedIsFirst
<1> QED BY <1>4, <1>6, <1>7 DEF IInv

\* The reading of what apply starts from is not relied upon, that of its result is.
LEMMA ReadCurrentStep ==
  ASSUME IInv, ReadCurrent
  PROVE  IInv'
<1> DEFINE next == IF pc = "current" THEN "write" ELSE "publish"
<1>1. /\ pc \in {"current", "verify"}
      /\ UNCHANGED <<machine, first, written, failed, failures, outcome, held>>
      /\ seen' = [seen EXCEPT ![Order[at]] = Observed(Order[at])]
      /\ ReadInto(next)
  BY DEF ReadCurrent, ReadInto
<1> HIDE DEF next
<1>2. /\ at \in 1 .. Len(Order) /\ at' \in 1 .. Len(Order)
      /\ \/ at = Len(Order) /\ at' = 1 /\ pc' = next
         \/ at # Len(Order) /\ at' - 1 = at /\ pc' = pc
  BY <1>1, ReadNow, Advance
<1>3. seen' \in Reading
  BY <1>1, ReadNow DEF Reading
<1>4. TypeOK'
  <2>1. pc' \in {"current", "verify", "write", "publish"}
    BY <1>1, <1>2 DEF next
  <2> QED BY <1>1, <1>2, <1>3, <2>1 DEF IInv, TypeOK, Reading
<1>5. \A v \in Values : Backed(first, v)'
  BY <1>1 DEF IInv, ReadingsAreBacked, Backed
<1>6. ReadingsAreBacked'
  <2>1. CASE pc = "current"
    <3>1. pc' \in {"current", "write"}
      BY <1>2, <2>1 DEF next
    <3> QED BY <1>5, <3>1 DEF ReadingsAreBacked
  <2>2. CASE pc = "verify"
    <3>1. \A i \in 1 .. at : Backed(seen', Order[i])
      <4>1. \A i \in 1 .. (at - 1) : Backed(seen, Order[i])
        BY <2>2 DEF IInv, ReadingsAreBacked
      <4> QED BY <1>1, <4>1, ReadNow, ReadOn
    <3>2. CASE at = Len(Order) /\ pc' = "publish"
      <4>1. \A w \in Values : Backed(seen, w)'
        BY <1>1, <3>1, <3>2, Positions DEF Backed
      <4> QED BY <1>5, <3>2, <4>1 DEF ReadingsAreBacked
    <3>3. CASE at' - 1 = at /\ pc' = "verify"
      <4>1. \A i \in 1 .. (at' - 1) : Backed(seen, Order[i])'
        BY <1>1, <3>1, <3>3 DEF Backed
      <4> QED BY <1>5, <3>3, <4>1 DEF ReadingsAreBacked
    <3> QED BY <1>2, <2>2, <3>2, <3>3 DEF next
  <2> QED BY <1>1, <2>1, <2>2
<1>7. StartsAtFirst' /\ NowIsHeld' /\ ReportedIsFirst'
  BY <1>1, <1>2 DEF IInv, StartsAtFirst, NowIsHeld, ReportedIsFirst, next
<1> QED BY <1>4, <1>6, <1>7 DEF IInv

LEMMA DecideStep ==
  ASSUME IInv, Decide
  PROVE  IInv'
<1>1. /\ pc = "decide" /\ pc' \in {"current", "publish"} /\ at = 1
      /\ UNCHANGED <<machine, at, work, outcome, held>>
  BY DEF Decide, IInv, StartsAtFirst
<1>2. TypeOK'
  BY <1>1 DEF IInv, TypeOK
<1>3. \A v \in Values : Backed(first, v)'
  BY <1>1 DEF IInv, ReadingsAreBacked, Backed
<1>4. ReadingsAreBacked'
  <2>1. CASE pc' = "current"
    BY <1>3, <2>1 DEF ReadingsAreBacked
  <2>2. CASE pc' = "publish"
    <3>1. written' = {}
      BY <1>1 DEF IInv, StartsAtFirst
    <3> QED BY <1>3, <2>2, <3>1 DEF ReadingsAreBacked
  <2> QED BY <1>1, <2>1, <2>2
<1>5. StartsAtFirst' /\ NowIsHeld' /\ ReportedIsFirst'
  BY <1>1 DEF IInv, StartsAtFirst, NowIsHeld, ReportedIsFirst
<1> QED BY <1>2, <1>4, <1>5 DEF IInv

\* Where apply goes after a value.
LEMMA AfterWriteStep ==
  ASSUME at \in 1 .. Len(Order), AfterWrite, pc = "write"
  PROVE  /\ at' \in 1 .. Len(Order)
         /\ \/ pc' = "write"
            \/ pc' = "verify" /\ at' = 1
            \/ pc' = "publish" /\ at' = 1 /\ written' = {}
<1>1. CASE at < Len(Order)
  BY <1>1, Positions DEF AfterWrite
<1>2. CASE ~(at < Len(Order))
  BY <1>2, Positions DEF AfterWrite
<1> QED BY <1>1, <1>2

\* What is written is read again before anything is said of it.
LEMMA WritesStep ==
  ASSUME IInv, Write \/ Skip
  PROVE  IInv'
<1>1. /\ pc = "write" /\ AfterWrite /\ held \subseteq held' /\ held' \subseteq Values
      /\ UNCHANGED <<given, tampers, first, seen, failed, failures, outcome>>
  <2>1. held \subseteq Values
    BY DEF IInv, TypeOK
  <2> QED BY <2>1, WitnessStep DEF Write, Skip
<1>2. /\ at' \in 1 .. Len(Order)
      /\ \/ pc' = "write"
         \/ pc' = "verify" /\ at' = 1
         \/ pc' = "publish" /\ at' = 1 /\ written' = {}
  BY <1>1, AfterWriteStep DEF IInv, TypeOK
<1>3. reg' \in [Values -> Held] /\ written' \subseteq Values
  <2>1. reg \in [Values -> Held] /\ written \subseteq Values /\ Order[at] \in Values
    BY Types DEF IInv
  <2> QED BY <2>1 DEF Write, Skip, Held
<1>4. TypeOK'
  BY <1>1, <1>2, <1>3 DEF IInv, TypeOK
<1>5. NowIsHeld'
  BY <1>1 DEF Write, Skip, Witness, IInv, NowIsHeld
<1>6. \A v \in Values : Backed(first, v)'
  BY <1>1 DEF IInv, ReadingsAreBacked, Backed
<1>7. ReadingsAreBacked'
  <2>1. pc' = "verify" => 1 .. (at' - 1) = {}
    BY <1>2
  <2> QED BY <1>2, <1>6, <2>1 DEF ReadingsAreBacked
<1>8. StartsAtFirst' /\ ReportedIsFirst'
  BY <1>1, <1>2 DEF IInv, StartsAtFirst, ReportedIsFirst
<1> QED BY <1>4, <1>5, <1>7, <1>8 DEF IInv

LEMMA WriteFailsStep ==
  ASSUME IInv, WriteFails
  PROVE  IInv'
<1>1. /\ pc = "write" /\ pc' = "publish" /\ written' = {} /\ at' = 1
      /\ UNCHANGED <<machine, first, seen, outcome, held>>
  BY DEF WriteFails
<1>2. failed' \in BOOLEAN
  BY Zenon DEF WriteFails
<1>3. failures' \in 0..MaxFailures
  <2>1. failures < MaxFailures /\ failures' = failures + 1 /\ failures \in 0..MaxFailures
    BY DEF WriteFails, IInv, TypeOK
  <2> QED BY <2>1, Numbers
<1>4. TypeOK'
  BY <1>1, <1>2, <1>3, Positions DEF IInv, TypeOK
<1>5. ReadingsAreBacked'
  BY <1>1 DEF IInv, ReadingsAreBacked, Backed
<1>6. StartsAtFirst' /\ NowIsHeld' /\ ReportedIsFirst'
  BY <1>1 DEF IInv, StartsAtFirst, NowIsHeld, ReportedIsFirst
<1> QED BY <1>4, <1>5, <1>6 DEF IInv

LEMMA PublishStep ==
  ASSUME IInv, Publish
  PROVE  IInv'
<1> DEFINE changed == Tampered(first)
<1>1. /\ pc = "publish" /\ pc' = "idle" /\ at' = at /\ at = 1 /\ written' = {}
      /\ first' = Unread /\ seen' = Unread
      /\ reported' = (IF changed = {} THEN "none" ELSE FirstOf(changed)) /\ before' = changed
      /\ incident' \in {changed, {}}
      /\ UNCHANGED <<machine, failures, held>>
  BY DEF Publish, Remember, IInv, StartsAtFirst
<1>2. changed \in SUBSET Core /\ changed \in SUBSET Values
  BY TamperedInCore
<1> HIDE DEF changed
<1>3. failed' \in BOOLEAN /\ started' \in BOOLEAN
  BY Zenon DEF Publish
<1>4. level' \in {"unprotected", "unknown", "degraded", "protected"}
  <2>1. \A s : Level(s) \in {"degraded", "unknown", "protected"}
    BY DEF Level
  <2>2. level' = "unknown" \/ level' = Level(seen) \/ level' = Level(first)
    <3>1. failed \in BOOLEAN
      BY DEF IInv, TypeOK
    <3> QED BY <3>1 DEF Publish
  <2> QED BY <2>1, <2>2
<1>5. reported' \in Values \cup {"none"}
  BY <1>1, <1>2, FirstIsChanged
<1>6. Unread \in [Values -> {"absent", "right", "wrong", "omitted"}]
  BY DEF Unread
<1>7. TypeOK'
  BY <1>1, <1>2, <1>3, <1>4, <1>5, <1>6 DEF IInv, TypeOK
<1>8. StartsAtFirst' /\ NowIsHeld' /\ ReadingsAreBacked'
  BY <1>1 DEF StartsAtFirst, NowIsHeld, ReadingsAreBacked
<1>9. ReportedIsFirst'
  BY <1>1 DEF ReportedIsFirst
<1> QED BY <1>7, <1>8, <1>9 DEF IInv

LEMMA InvNext == IInv /\ [Next]_vars => IInv'
<1> SUFFICES ASSUME IInv, [Next]_vars PROVE IInv'
  OBVIOUS
<1>1. CASE UNCHANGED vars
  <2>1. TypeOK'
    BY <1>1 DEF vars, IInv, TypeOK
  <2>2. StartsAtFirst' /\ NowIsHeld' /\ ReadingsAreBacked' /\ ReportedIsFirst'
    BY <1>1 DEF vars, IInv, StartsAtFirst, NowIsHeld, ReadingsAreBacked, Backed, ReportedIsFirst
  <2> QED BY <2>1, <2>2 DEF IInv
<1> QED BY <1>1, TamperStep, StartStep, ReportOffStep, ReadFirstStep, ReadCurrentStep, DecideStep,
           WritesStep, WriteFailsStep, PublishStep DEF Next, Pass

\* The inductive invariant of the update worker.
THEOREM Inductive == Spec => []IInv
BY InvInit, InvNext, PTL DEF Spec

-----------------------------------------------------------------------------
(* What a report says                                                        *)

\* "Protected" was true of every value, at some moment of the pass that says so.
THEOREM ProtectedIsTrue == Spec => ProtectedWasTrue
<1>1. ASSUME IInv, [Next]_vars, Published, level' = "protected"
      PROVE  ~Managed /\ held = Values
  <2>1. Publish
    BY <1>1 DEF Published, Next, Pass, StartPass, DetectManagement, WalkAgain, ReportOff, ReadFirst,
                ReadCurrent, Decide, Write, Skip, WriteFails, Tamper, vars
  <2>2. failed \in BOOLEAN /\ held \subseteq Values
    BY <1>1 DEF IInv, TypeOK
  <2>3. PICK s \in {first, seen} : Level(s) = "protected" /\ (s = seen => written # {} \/ s = first)
    BY <1>1, <2>1, <2>2 DEF Publish
  <2>4. ~Managed /\ Complete(s) /\ WritesNeeded(s) = {}
    BY <2>3 DEF Level
  <2>5. \A v \in Values : Backed(s, v)
    BY <1>1, <2>3 DEF Published, IInv, ReadingsAreBacked
  <2>6. \A v \in Values : v \in held
    BY <2>4, <2>5 DEF Complete, WritesNeeded, Backed
  <2> QED BY <2>2, <2>4, <2>6
<1>2. IInv /\ [Next]_vars => (Published /\ level' = "protected" => ~Managed /\ held = Values)
  BY <1>1
<1> QED BY Inductive, <1>2, PTL DEF Spec, ProtectedWasTrue

\* What the pass that ends tells.
LEMMA Told ==
  ASSUME IInv, [Next]_vars, Published, started
  PROVE  /\ Tampered(first) = {} => incident' = {}
         /\ Tampered(first) # {} =>
               IF Worthwhile(Tampered(first)) THEN incident' = Tampered(first) ELSE incident' = {}
<1>1. Publish
  BY DEF Published, Next, Pass, StartPass, DetectManagement, WalkAgain, ReportOff, ReadFirst,
         ReadCurrent, Decide, Write, Skip, WriteFails, Tamper, vars
<1> QED BY <1>1, Zenon DEF Publish

\* What is changed after a pass that found nothing changed is told.
THEOREM TamperIsAlwaysTold == Spec => TamperIsTold
<1>1. ASSUME IInv, [Next]_vars, Published, started, before = {}
      PROVE  incident' = Tampered(first)
  <2>1. CASE Tampered(first) = {}
    BY <1>1, <2>1, Told
  <2>2. CASE Tampered(first) # {}
    <3>1. reported = "none" /\ "none" \notin Values
      BY <1>1, UpdateAssumption DEF IInv, ReportedIsFirst
    <3>2. FirstOf(Tampered(first)) \in Values
      BY <2>2, TamperedInCore, FirstIsChanged
    <3>3. Worthwhile(Tampered(first))
      BY <3>1, <3>2 DEF Worthwhile
    <3> QED BY <1>1, <2>2, <3>3, Told
  <2> QED BY <2>1, <2>2
<1>2. IInv /\ [Next]_vars => (Published /\ started /\ before = {} => incident' = Tampered(first))
  BY <1>1
<1> QED BY Inductive, <1>2, PTL DEF Spec, TamperIsTold

\* What is repaired pass after pass is told once.
THEOREM MismatchIsToldOnce == Spec => OneIncidentPerMismatch
<1>1. ASSUME IInv, [Next]_vars, Published, started, written # {}, Tampered(first) # {},
             Tampered(first) = before
      PROVE  incident' = {}
  <2>1. reported = FirstOf(Tampered(first))
    BY <1>1 DEF IInv, ReportedIsFirst
  <2>2. ~Worthwhile(Tampered(first))
    BY <1>1, <2>1 DEF Worthwhile
  <2> QED BY <1>1, <2>2, Told
<1>2. IInv /\ [Next]_vars =>
        (Published /\ started /\ written # {} /\ Tampered(first) # {} /\ Tampered(first) = before
           => incident' = {})
  BY <1>1
<1> QED BY Inductive, <1>2, PTL DEF Spec, OneIncidentPerMismatch

\* A divergence is told when it appears, and not again while it keeps coming back.
THEOREM TamperIsToldExactly == Spec => TamperIsToldOnce
BY TamperIsAlwaysTold, MismatchIsToldOnce DEF TamperIsToldOnce
=============================================================================
