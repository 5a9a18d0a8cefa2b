--------------------------- MODULE NetworkProofs ---------------------------
(***************************************************************************)
(* The promises of the network worker that no sequence of observations and *)
(* no thresholds break: it dials on a schedule, promotes what was up for a *)
(* window, and hangs up no session that is of use.                         *)
(***************************************************************************)
EXTENDS Network, TLAPS

-----------------------------------------------------------------------------
(* Ages *)

LEMMA Numbers ==
  /\ FailureQuorum \in Nat /\ FailureQuorum > 0 /\ Stabilize \in Nat /\ Stabilize > 0
  /\ WifiStabilize \in Nat /\ MinDial \in Nat /\ MinDial > 0
  /\ BaseInterval \in Nat /\ BaseInterval > 0 /\ MaxLate \in Nat
  /\ MaxAge \in Nat
BY NetworkAssumption

LEMMA Schedule ==
  /\ Len(Backoff) \in Nat /\ Len(Backoff) > 0
  /\ \A i \in 1 .. Len(Backoff) : Backoff[i] \in 0 .. MaxAge
BY NetworkAssumption

LEMMA AgeTypes ==
  /\ Never \in Age /\ 0 \in Age /\ Never = -1
  /\ \A age \in Age : age \in Int /\ -1 <= age /\ age <= MaxAge
BY Numbers DEF Age, Never

\* What is younger or never happened stays so, and grows by what goes by.
LEMMA OlderAges ==
  ASSUME NEW a \in Age, NEW b \in Age, NEW dt \in Nat, a <= b
  PROVE  /\ Older(a, dt) \in Age /\ Older(a, dt) <= Older(b, dt)
         /\ a # Never => Older(a, dt) # Never
         /\ \A n \in 0 .. MaxAge : a # Never /\ a + dt >= n => Older(a, dt) >= n
BY Numbers DEF Older, AtMost, Age, Never

LEMMA StartedAge ==
  ASSUME NEW a \in Age
  PROVE  Started(a) \in Age /\ Started(a) \in Nat /\ Started(a) >= a /\ (a # Never => Started(a) = a)
BY Numbers DEF Started, Age, Never

\* A window is at least one stabilization long.
LEMMA WindowsAreWindows ==
  ASSUME NEW n \in Nat, n <= 1
  PROVE  Window(n) \in Nat /\ Window(n) >= Stabilize
<1>1. n = 0 \/ n = 1
  OBVIOUS
<1>2. Window(0) = Stabilize /\ Window(1) = Stabilize + Stabilize
  BY Numbers DEF Window
<1> QED BY <1>1, <1>2, Numbers

-----------------------------------------------------------------------------
(* What a round does, part by part *)

Assess(o) == Lost(o) \/ NotMeasured(o) \/ Passed(o) \/ Failed(o)

\* The assessment: verification counts from an age that is younger than the session.
LEMMA AssessStep ==
  ASSUME IInv, NEW o \in Observation, Assess(o), Account(o)
  PROVE  /\ broadband' \in {"disconnected", "verifying", "healthy", "degraded", "reconnecting"}
         /\ failures' \in 0 .. FailureQuorum
         /\ healthyFor' \in Age /\ upFor' \in Age
         /\ healthyFor' <= upFor'
         /\ broadband' = "verifying" => healthyFor' # Never
<1>1. /\ broadband \in {"disconnected", "verifying", "healthy", "degraded", "reconnecting"}
      /\ failures \in 0 .. FailureQuorum /\ failures \in Nat
      /\ healthyFor \in Age /\ healthyFor \in Int /\ upFor \in Age /\ upFor \in Int
      /\ healthyFor <= upFor /\ (broadband = "verifying" => healthyFor # Never)
  <2>1. /\ broadband \in {"disconnected", "verifying", "healthy", "degraded", "reconnecting"}
        /\ failures \in 0 .. FailureQuorum /\ healthyFor \in Age /\ upFor \in Age
    BY DEF IInv, TypeOK
  <2>2. healthyFor <= upFor /\ (broadband = "verifying" => healthyFor # Never)
    BY DEF IInv, VerifiedWhileUp
  <2> QED BY <2>1, <2>2, AgeTypes, Numbers
<1>2. /\ upFor' \in Age /\ upFor' \in Int
      /\ o.link = "absent" => upFor' = Never
      /\ o.link # "absent" => upFor' >= upFor /\ upFor' >= 0
  BY <1>1, AgeTypes, StartedAge DEF Account
<1>3. CASE Lost(o)
  BY <1>1, <1>2, <1>3, AgeTypes DEF Lost
<1>4. CASE NotMeasured(o)
  BY <1>1, <1>2, <1>4 DEF NotMeasured
<1>5. CASE Passed(o)
  <2>1. failures' \in 0 .. FailureQuorum
    BY <1>5, Numbers DEF Passed
  <2>2. CASE broadband \in {"healthy", "verifying"}
    BY <1>1, <1>2, <1>5, <2>1, <2>2 DEF Passed
  <2>3. CASE broadband \notin {"healthy", "verifying"}
    BY <1>1, <1>2, <1>5, <2>1, <2>3, AgeTypes DEF Passed
  <2> QED BY <2>2, <2>3
<1>6. CASE Failed(o)
  <2>1. failures' \in 0 .. FailureQuorum
    BY <1>1, <1>6, Numbers DEF Failed, AtMost
  <2>2. CASE broadband' = "degraded"
    BY <1>1, <1>2, <1>6, <2>1, <2>2, AgeTypes DEF Failed
  <2>3. CASE broadband' # "degraded"
    BY <1>1, <1>2, <1>6, <2>1, <2>3 DEF Failed
  <2> QED BY <2>2, <2>3
<1> QED BY <1>3, <1>4, <1>5, <1>6 DEF Assess

\* Aborts do not add up: the round that promotes forgives what was counted.
LEMMA AbortsStep ==
  ASSUME IInv, NEW o \in Observation, Assess(o), Account(o)
  PROVE  aborts' \in Nat /\ aborts' <= 1 /\ (broadband' = "healthy" => aborts' = 0)
<1>1. aborts \in Nat /\ (aborts = 0 \/ aborts = 1) /\ (broadband = "healthy" => aborts = 0)
  <2>1. aborts \in Nat
    BY DEF IInv, TypeOK
  <2> QED BY <2>1 DEF IInv, WindowIsBounded
<1>2. CASE broadband' = "healthy"
  BY <1>1, <1>2 DEF Account
<1>3. CASE broadband' # "healthy" /\ broadband = "healthy"
  BY <1>1, <1>3 DEF Account
<1>4. CASE broadband' # "healthy" /\ broadband # "healthy"
  BY <1>1, <1>4 DEF Account
<1> QED BY <1>2, <1>3, <1>4

LEMMA WifiStep ==
  ASSUME IInv, NEW o \in Observation, UpdateWifi(o)
  PROVE  /\ wifi' \in {"disconnected", "verifying", "healthy", "continuity", "degraded"}
         /\ wifiFor' \in Age
BY AgeTypes, StartedAge DEF UpdateWifi, NextWifi, IInv, TypeOK

LEMMA AccountTypes ==
  ASSUME IInv, NEW o \in Observation, Account(o)
  PROVE  outage' \in BOOLEAN /\ preferredFor' \in Age
<1>1. outage' \in BOOLEAN
  BY Zenon DEF Account
<1>2. preferredFor' \in Age
  BY AgeTypes, StartedAge DEF Account, IInv, TypeOK
<1> QED BY <1>1, <1>2

\* A round keeps nothing of what was seen before: the states are those of its links.
LEMMA AsSeenStep ==
  ASSUME NEW o \in Observation, Assess(o), UpdateWifi(o)
  PROVE  /\ broadband' \in {"healthy", "degraded", "verifying"} => o.link \in {"dead", "up"}
         /\ wifi' # "disconnected" <=> o.wifi
<1>1. o.link \in {"absent", "dead", "up"} /\ o.wifi \in BOOLEAN
  BY DEF Observation
<1>2. o.link = "absent" => broadband' = "reconnecting"
  BY DEF Assess, Lost, NotMeasured, Passed, Failed
<1>3. wifi' # "disconnected" <=> o.wifi
  <2>1. NextWifi(o) # "disconnected" <=> o.wifi
    BY <1>1 DEF NextWifi
  <2> QED BY <2>1 DEF UpdateWifi
<1> QED BY <1>1, <1>2, <1>3

Repair(o) == NoRepair(o) \/ RepairSession(o) \/ Dial(o) \/ Defer(o)

\* The schedule advances with the dials, and a dial is followed by its delay.
LEMMA RepairStep ==
  ASSUME IInv, NEW o \in Observation, wait = 0, Repair(o)
  PROVE  /\ step' \in 1 .. Len(Backoff) /\ dials' \in 0 .. Len(Backoff)
         /\ dialedFor' \in Age /\ wait' \in Nat
         /\ did' \subseteq {"connect wifi", "hang up", "dial"}
         /\ OnSchedule'
<1>1. step \in 1 .. Len(Backoff) /\ dials \in 0 .. Len(Backoff) /\ Len(Backoff) \in Nat
  BY Schedule DEF IInv, TypeOK
<1>2. \A i \in 1 .. Len(Backoff) : Backoff[i] \in Nat
  BY Schedule, Numbers
<1>0. dialedFor \in Age /\ dialedFor \in Int
  BY AgeTypes DEF IInv, TypeOK
<1>3. CASE Dial(o)
  <2>1. step' \in 1 .. Len(Backoff) /\ dials' \in 1 .. Len(Backoff) /\ dialedFor' = 0
    BY <1>1, <1>3 DEF Dial, AtMost
  <2>2. dials' = step
    BY <1>1, <1>3 DEF Dial, AtMost, IInv, OnSchedule
  <2>3. wait' \in Nat /\ wait' >= Backoff[step]
    BY <1>1, <1>2, <1>3, Numbers DEF Dial, WaitAt
  <2>4. step' = AtMost(Len(Backoff), dials' + 1)
    BY <1>3, <2>2 DEF Dial
  <2>5. OnSchedule'
    BY <2>1, <2>2, <2>3, <2>4, AgeTypes DEF OnSchedule, AtMost
  <2>6. did' \subseteq {"connect wifi", "hang up", "dial"}
    BY <1>3 DEF Dial, Continuity
  <2>7. dials' \in 0 .. Len(Backoff) /\ dialedFor' \in Age
    BY <1>1, <2>1, AgeTypes
  <2> QED BY <2>1, <2>3, <2>5, <2>6, <2>7
<1>4. CASE NoRepair(o) \/ RepairSession(o) \/ Defer(o)
  <2>1. dialedFor' = dialedFor /\ step' = StepAfter /\ dials' = DialsAfter /\ wait' \in Nat
    BY <1>4, Numbers DEF NoRepair, RepairSession, Defer
  <2>2. step' \in 1 .. Len(Backoff) /\ dials' \in 0 .. Len(Backoff)
    BY <1>1, <2>1 DEF StepAfter, DialsAfter
  <2>3. did' \subseteq {"connect wifi", "hang up", "dial"}
    BY <1>4 DEF NoRepair, RepairSession, Defer, Continuity
  <2>4. OnSchedule'
    <3>1. CASE broadband' = "healthy"
      BY <1>1, <2>1, <3>1 DEF StepAfter, DialsAfter, OnSchedule, AtMost
    <3>2. CASE broadband' # "healthy"
      <4>1. step' = step /\ dials' = dials
        BY <2>1, <3>2 DEF StepAfter, DialsAfter
      <4>2. dials > 0 => dialedFor >= Backoff[dials] /\ dialedFor # Never
        <5>1. wait = 0 /\ (dials > 0 => Backoff[dials] \in Nat)
          BY <1>1, <1>2
        <5> QED BY <1>0, <5>1 DEF IInv, OnSchedule
      <4>3. step = AtMost(Len(Backoff), dials + 1)
        BY DEF IInv, OnSchedule
      <4>4. dials > 0 => dialedFor + wait' >= Backoff[dials]
        BY <1>0, <1>1, <1>2, <2>1, <4>2
      <4> QED BY <2>1, <4>1, <4>2, <4>3, <4>4 DEF OnSchedule, AtMost
    <3> QED BY <3>1, <3>2
  <2> QED BY <1>0, <2>1, <2>2, <2>3, <2>4
<1> QED BY <1>3, <1>4 DEF Repair

-----------------------------------------------------------------------------
LEMMA InvInit == Init => IInv
<1> SUFFICES ASSUME Init PROVE IInv
  OBVIOUS
<1>1. outage \in BOOLEAN /\ probing \in BOOLEAN
  BY Zenon DEF Init
<1>2. TypeOK
  BY <1>1, Numbers, Schedule, AgeTypes DEF Init, TypeOK
<1>3. WindowIsBounded /\ VerifiedWhileUp
  BY AgeTypes DEF Init, WindowIsBounded, VerifiedWhileUp
<1>4. OnSchedule
  BY Schedule DEF Init, OnSchedule, AtMost
<1>5. AssessedAsSeen
  BY DEF Init, AssessedAsSeen, NoRound
<1> QED BY <1>2, <1>3, <1>4, <1>5 DEF IInv

LEMMA RestartStep == Restart => IInv'
<1> SUFFICES ASSUME Restart PROVE IInv'
  OBVIOUS
<1>1. outage' \in BOOLEAN /\ probing' \in BOOLEAN
  BY Zenon DEF Restart
<1>2. TypeOK'
  BY <1>1, Numbers, Schedule, AgeTypes DEF Restart, TypeOK
<1>3. WindowIsBounded' /\ VerifiedWhileUp'
  BY AgeTypes DEF Restart, WindowIsBounded, VerifiedWhileUp
<1>4. OnSchedule'
  BY Schedule DEF Restart, OnSchedule, AtMost
<1>5. AssessedAsSeen'
  BY DEF Restart, AssessedAsSeen, NoRound
<1> QED BY <1>2, <1>3, <1>4, <1>5 DEF IInv

LEMMA SleepStep ==
  ASSUME IInv, Sleep
  PROVE  IInv'
<1>1. PICK dt \in wait .. wait + MaxLate :
          /\ healthyFor' = Older(healthyFor, dt) /\ preferredFor' = Older(preferredFor, dt)
          /\ wifiFor' = Older(wifiFor, dt) /\ dialedFor' = Older(dialedFor, dt)
          /\ upFor' = Older(upFor, dt)
  BY DEF Sleep
<1>2. dt \in Nat /\ dt >= wait /\ wait' = 0 /\ wait \in Nat
  <2>1. wait \in Nat /\ wait' = 0
    BY DEF Sleep, IInv, TypeOK
  <2> QED BY <1>1, <2>1, Numbers
<1>3. healthyFor' \in Age /\ preferredFor' \in Age /\ wifiFor' \in Age /\ dialedFor' \in Age
      /\ upFor' \in Age
  <2>1. \A a \in Age : Older(a, dt) \in Age
    BY <1>2, OlderAges, AgeTypes
  <2> QED BY <1>1, <2>1 DEF IInv, TypeOK
<1>4. TypeOK'
  <2>1. UNCHANGED <<probing, broadband, wifi, failures, step, aborts, outage, seen, did, dials>>
    BY DEF Sleep, assessment
  <2> QED BY <1>2, <1>3, <2>1 DEF IInv, TypeOK
<1>5. WindowIsBounded'
  BY DEF Sleep, assessment, IInv, WindowIsBounded
<1>6. VerifiedWhileUp'
  <2>1. healthyFor \in Age /\ upFor \in Age /\ healthyFor <= upFor
    BY DEF IInv, TypeOK, VerifiedWhileUp
  <2>2. healthyFor' <= upFor' /\ (healthyFor # Never => healthyFor' # Never)
    BY <1>1, <1>2, <2>1, OlderAges
  <2> QED BY <2>2 DEF Sleep, assessment, IInv, VerifiedWhileUp
<1>7. OnSchedule'
  <2>1. step' = step /\ dials' = dials /\ step = AtMost(Len(Backoff), dials + 1)
    BY DEF Sleep, assessment, IInv, OnSchedule
  <2>2. CASE dials > 0
    <3>1. /\ dialedFor \in Age /\ dialedFor # Never
          /\ dials \in 1 .. Len(Backoff) /\ Backoff[dials] \in 0 .. MaxAge
          /\ dialedFor + wait >= Backoff[dials]
      <4>1. dials \in 1 .. Len(Backoff)
        <5>1. dials \in 0 .. Len(Backoff) /\ Len(Backoff) \in Nat
          BY Schedule DEF IInv, TypeOK
        <5> QED BY <2>2, <5>1
      <4>2. Backoff[dials] \in 0 .. MaxAge
        BY <4>1, Schedule
      <4> QED BY <2>2, <4>1, <4>2 DEF IInv, TypeOK, OnSchedule
    <3>2. dialedFor \in Int /\ dialedFor + dt >= Backoff[dials]
      BY <1>2, <3>1, AgeTypes, Numbers
    <3>3. dialedFor <= dialedFor
      BY <3>2
    <3>4. dialedFor' # Never /\ dialedFor' >= Backoff[dials]
      BY <1>1, <1>2, <3>1, <3>2, <3>3, OlderAges
    <3>5. dialedFor' \in Int /\ Backoff[dials] \in Int /\ wait' = 0
      BY <1>2, <1>3, <3>1, AgeTypes, Numbers
    <3>6. dialedFor' + wait' >= Backoff[dials]
      BY <3>4, <3>5
    <3> QED BY <2>1, <3>4, <3>6 DEF OnSchedule, AtMost
  <2>3. CASE ~(dials > 0)
    BY <2>1, <2>3 DEF OnSchedule, AtMost
  <2> QED BY <2>2, <2>3
<1>8. AssessedAsSeen'
  BY DEF Sleep, assessment, IInv, AssessedAsSeen
<1> QED BY <1>4, <1>5, <1>6, <1>7, <1>8 DEF IInv

LEMMA RoundStep ==
  ASSUME IInv, NEW o \in Observation, Round(o)
  PROVE  IInv'
<1>1. wait = 0 /\ Assess(o) /\ UpdateWifi(o) /\ Account(o) /\ Repair(o)
  BY DEF Round, Assess, Repair
<1>2. seen' \in Observation \cup {NoRound} /\ probing' \in BOOLEAN
  BY DEF Round, IInv, TypeOK
<1>3. TypeOK'
  BY <1>1, <1>2, AssessStep, AbortsStep, WifiStep, AccountTypes, RepairStep DEF TypeOK
<1>4. WindowIsBounded'
  BY <1>1, AbortsStep DEF WindowIsBounded
<1>5. VerifiedWhileUp'
  BY <1>1, AssessStep DEF VerifiedWhileUp
<1>6. OnSchedule'
  BY <1>1, RepairStep
<1>7. AssessedAsSeen'
  <2>1. seen' = o
    BY DEF Round
  <2> QED BY <1>1, <2>1, AsSeenStep DEF AssessedAsSeen
<1> QED BY <1>3, <1>4, <1>5, <1>6, <1>7 DEF IInv

LEMMA InvNext == IInv /\ [Next]_vars => IInv'
<1> SUFFICES ASSUME IInv, [Next]_vars PROVE IInv'
  OBVIOUS
<1>1. CASE Sleep
  BY <1>1, SleepStep
<1>2. CASE Restart
  BY <1>2, RestartStep
<1>3. CASE \E o \in Observation : Round(o)
  BY <1>3, RoundStep
<1>4. CASE UNCHANGED vars
  <2>1. TypeOK'
    BY <1>4 DEF vars, assessment, ages, IInv, TypeOK
  <2>2. WindowIsBounded' /\ VerifiedWhileUp' /\ OnSchedule' /\ AssessedAsSeen'
    BY <1>4 DEF vars, assessment, ages, IInv, WindowIsBounded, VerifiedWhileUp, OnSchedule,
                AssessedAsSeen
  <2> QED BY <2>1, <2>2 DEF IInv
<1> QED BY <1>1, <1>2, <1>3, <1>4 DEF Next

\* The inductive invariant of the network worker.
THEOREM Inductive == Spec => []IInv
BY InvInit, InvNext, PTL DEF Spec

\* However often the link aborts, it is promoted after two windows at the latest.
THEOREM WindowStaysBounded == Spec => []WindowIsBounded
<1>1. IInv => WindowIsBounded
  BY DEF IInv
<1> QED BY Inductive, <1>1, PTL

\* What is shown is what the last round has seen.
THEOREM ShownStaysTrue == Spec => []ShownIsTrue
<1>1. ASSUME IInv PROVE ShownIsTrue
  <2> DEFINE pref == Preference(broadband, wifi)
             internet == InternetState(broadband, wifi)
  <2>1. /\ seen.wifi <=> wifi # "disconnected"
        /\ broadband \in {"healthy", "degraded", "verifying"} => seen.link \in {"dead", "up"}
    BY <1>1 DEF IInv, AssessedAsSeen
  <2>2. CASE seen = NoRound
    BY <2>2 DEF ShownIsTrue, Shown
  <2>3. CASE seen # NoRound
    <3>1. /\ pref = "broadband" <=> broadband = "healthy"
          /\ pref = "wifi" => wifi # "disconnected"
          /\ pref \in {"broadband", "wifi", "none"}
          /\ pref = "none" => wifi = "disconnected"
      BY DEF Preference
    <3>2. /\ internet \in {"broadband primary", "recovering broadband", "wifi continuity",
                            "degraded", "offline"}
          /\ internet = "broadband primary" => pref = "broadband"
          /\ internet \in {"recovering broadband", "wifi continuity"} => pref = "wifi"
          /\ internet \in {"degraded", "offline"} => pref = "none"
      BY <3>1 DEF InternetState
    <3> HIDE DEF pref, internet
    <3>3. /\ Shown.phase = "online" => internet \notin {"degraded", "offline"}
          /\ Shown.internet = "healthy" => internet \in {"broadband primary", "wifi continuity"}
          /\ Shown.internet = "down" => internet = "offline"
          /\ Shown.ras = "connected" => broadband \in {"healthy", "degraded", "verifying"}
      BY <2>3, <3>2 DEF Shown, internet
    <3>4. Shown.phase = "online" => pref # "none"
      BY <3>2, <3>3
    <3> QED BY <2>1, <3>1, <3>2, <3>3, <3>4 DEF ShownIsTrue, pref
  <2> QED BY <2>2, <2>3
<1> QED BY Inductive, <1>1, PTL

-----------------------------------------------------------------------------
(* What a step may not do *)

\* The dials follow the schedule, whatever sessions come up between them.
THEOREM DialsAreOnSchedule == Spec => DialsBackOff
<1>1. ASSUME IInv, [Next]_vars, wait = 0, "dial" \in did', ~UNCHANGED vars
      PROVE  /\ dialedFor = Never \/ dialedFor >= MinDial
             /\ dials > 0 => dialedFor >= Backoff[dials]
  <2>1. PICK o \in Observation : Round(o)
    BY <1>1 DEF Next, Sleep, Restart
  <2>2. Dial(o)
    <3>1. "dial" \notin Continuity(o) \cup {"hang up"}
      BY DEF Continuity
    <3>2. ~NoRepair(o) /\ ~RepairSession(o) /\ ~Defer(o)
      BY <1>1, <3>1 DEF NoRepair, RepairSession, Defer
    <3> QED BY <2>1, <3>2 DEF Round
  <2>3. dials > 0 => dialedFor + wait >= Backoff[dials]
    BY <1>1 DEF IInv, OnSchedule
  <2>4. dialedFor \in Int
    BY <1>1, AgeTypes DEF IInv, TypeOK
  <2> QED BY <1>1, <2>2, <2>3, <2>4 DEF Dial, DialDue
<1>2. IInv /\ [Next]_vars =>
        [wait = 0 /\ "dial" \in did' =>
           /\ dialedFor = Never \/ dialedFor >= MinDial
           /\ dials > 0 => dialedFor >= Backoff[dials]]_vars
  BY <1>1
<1> QED BY Inductive, <1>2, PTL DEF Spec, DialsBackOff

\* What is promoted was up for a window.
THEOREM PromotionTakesAWindow == Spec => PromotionIsEarned
<1>1. ASSUME IInv, [Next]_vars, broadband # "healthy", broadband' = "healthy"
      PROVE  upFor >= Stabilize
  <2>1. PICK o \in Observation : Round(o)
    BY <1>1 DEF Next, Sleep, Restart, assessment, vars
  <2>2. broadband = "verifying" /\ Started(healthyFor) >= Window(aborts)
    BY <1>1, <2>1 DEF Round, Lost, NotMeasured, Passed, Failed
  <2>3. Window(aborts) \in Nat /\ Window(aborts) >= Stabilize
    BY <1>1, WindowsAreWindows DEF IInv, TypeOK, WindowIsBounded
  <2>4. Started(healthyFor) = healthyFor /\ healthyFor \in Int /\ upFor \in Int /\ healthyFor <= upFor
    BY <1>1, <2>2, StartedAge, AgeTypes DEF IInv, TypeOK, VerifiedWhileUp
  <2> QED BY <2>2, <2>3, <2>4, Numbers
<1>2. IInv /\ [Next]_vars => (broadband # "healthy" /\ broadband' = "healthy" => upFor >= Stabilize)
  BY <1>1
<1> QED BY Inductive, <1>2, PTL DEF Spec, PromotionIsEarned

\* A session that passes its probes is healthy or inside its window after the round.
LEMMA PassingIsNotRepaired ==
  ASSUME IInv, NEW o \in Observation, Assess(o), Account(o),
         o.link = "up", o.probes = "quorum"
  PROVE  ~NeedsRepair
<1>1. Passed(o)
  BY DEF Assess, Lost, NotMeasured, Failed, Usable, Proven
<1>2. aborts' \in Nat /\ aborts' <= 1
  BY AbortsStep
<1>3. Window(aborts') \in Nat /\ Window(aborts') > 0
  BY <1>2, WindowsAreWindows, Numbers
<1>4. CASE broadband' = "healthy"
  BY <1>4 DEF NeedsRepair
<1>5. CASE broadband' # "healthy" /\ broadband = "verifying"
  <2>1. broadband' = "verifying" /\ healthyFor' = healthyFor /\ ~(Started(healthyFor) >= Window(aborts))
    BY <1>1, <1>5 DEF Passed
  <2>2. aborts' = aborts
    BY <1>5 DEF Account
  <2>3. healthyFor # Never /\ Started(healthyFor) = healthyFor /\ healthyFor \in Int
    BY <1>5, StartedAge, AgeTypes DEF IInv, TypeOK, VerifiedWhileUp
  <2> QED BY <1>3, <2>1, <2>2, <2>3 DEF NeedsRepair, InsideWindow
<1>6. CASE broadband' # "healthy" /\ broadband # "verifying"
  <2>1. broadband' = "verifying" /\ healthyFor' = 0
    BY <1>1, <1>6 DEF Passed
  <2> QED BY <1>3, <2>1, AgeTypes DEF NeedsRepair, InsideWindow
<1> QED BY <1>4, <1>5, <1>6

\* While there are probes, a session that is of use is not hung up.
THEOREM UsableSessionsAreKept == Spec => UsableIsKept
<1>1. ASSUME IInv, [Next]_vars, probing, wait = 0, "hang up" \in did', ~UNCHANGED vars
      PROVE  seen'.link = "dead" \/ seen'.probes = "none"
  <2>1. PICK o \in Observation : Round(o)
    <3>1. ~Sleep /\ ~Restart
      <4>1. ~Sleep
        <5>1. wait = 0
          BY <1>1, Zenon
        <5> QED BY <5>1 DEF Sleep
      <4>2. ~Restart
        BY <1>1, Zenon DEF Restart
      <4> QED BY <4>1, <4>2
    <3> QED BY <1>1, <3>1 DEF Next
  <2>2. seen' = o /\ Assess(o) /\ Account(o) /\ o.probes # "unmeasured"
    BY <1>1, <2>1 DEF Round, Assess
  <2>3. NeedsRepair /\ o.link # "absent" /\ WarrantsRedial(o)
    <3>1. "hang up" \notin Continuity(o) \cup {"dial"}
      BY DEF Continuity
    <3>2. ~NoRepair(o) /\ ~Dial(o) /\ ~Defer(o)
      BY <1>1, <3>1 DEF NoRepair, Dial, Defer
    <3>3. RepairSession(o)
      BY <2>1, <3>2 DEF Round
    <3> QED BY <1>1, <3>1, <3>3 DEF RepairSession
  <2>4. o.link \in {"absent", "dead", "up"} /\ o.probes \in {"unmeasured", "none", "some", "quorum"}
    BY DEF Observation
  <2>5. ~(o.link = "up" /\ o.probes = "quorum")
    BY <1>1, <2>2, <2>3, PassingIsNotRepaired
  <2> QED BY <2>2, <2>3, <2>4, <2>5 DEF WarrantsRedial, FailureKind
<1>2. IInv /\ [Next]_vars =>
        [probing /\ wait = 0 /\ "hang up" \in did'
           => seen'.link = "dead" \/ seen'.probes = "none"]_vars
  BY <1>1
<1> QED BY Inductive, <1>2, PTL DEF Spec, UsableIsKept

\* No round dials before its time, promotes before its time, or hangs up what is
\* of use, for all thresholds and schedules.
THEOREM EveryStepIsSafe == Spec => StepsAreSafe
BY DialsAreOnSchedule, PromotionTakesAWindow, UsableSessionsAreKept DEF StepsAreSafe
=============================================================================
