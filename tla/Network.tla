------------------------------ MODULE Network ------------------------------
(***************************************************************************)
(* The network worker: rounds that look at the two uplinks and the probes, *)
(* assess them and repair the broadband link, and the sleep between them.  *)
(* What a round sees is arbitrary: links come and go, dials succeed or not *)
(* and Wi-Fi is somebody else's.  Time is counted in ages, how long ago    *)
(* something began, which stop growing at MaxAge, beyond every threshold.  *)
(***************************************************************************)
EXTENDS Integers, Sequences

CONSTANTS
    FailureQuorum, \* network.failure_quorum
    Stabilize,     \* network.stabilize_secs
    WifiStabilize, \* wifi_stabilize_secs
    MinDial,       \* min_dial_interval_secs
    BaseInterval,  \* base_interval_ms
    Backoff,       \* BACKOFF_MS
    MaxAge,        \* bound on ages
    MaxLate        \* bound on how much longer than asked a sleep and a dial take

ASSUME NetworkAssumption ==
    /\ FailureQuorum \in Nat \ {0} /\ Stabilize \in Nat \ {0} /\ WifiStabilize \in Nat
    /\ MinDial \in Nat \ {0} /\ BaseInterval \in Nat \ {0}
    /\ Backoff \in Seq(Nat) /\ Len(Backoff) > 0
    /\ MaxAge \in Nat /\ MaxAge >= 3 * Stabilize /\ MaxAge >= MinDial /\ MaxAge >= WifiStabilize
    /\ \A i \in 1 .. Len(Backoff) : Backoff[i] <= MaxAge
    /\ MaxLate \in Nat

VARIABLES
    probing,      \* some probe of the configuration is enabled
    broadband,    \* NetworkState.broadband
    wifi,         \* NetworkState.wifi
    failures,     \* consecutive_failures, up to the quorum
    step,         \* backoff_index, counted from 1
    aborts,       \* recent_aborts
    healthyFor,   \* age of broadband_healthy_since_ms
    preferredFor, \* age of broadband_preferred_since_ms
    wifiFor,      \* age of wifi_healthy_since_ms
    dialedFor,    \* age of last_dial_ms
    outage,       \* outage_started_ms is set
    wait,         \* how long to sleep before the next round
    seen,         \* what the last round saw, NoRound before the first
    did,          \* what the last round had the backend do
    upFor,        \* history: for how long every round has seen a session
    dials         \* history: dials since broadband was healthy

assessment == <<broadband, wifi, failures, step, aborts, outage>>
ages       == <<healthyFor, preferredFor, wifiFor, dialedFor, upFor>>
vars       == <<probing, assessment, ages, wait, seen, did, dials>>

\* The age of what has not happened.
Never == 0 - 1

\* A link is absent without a session, dead with a session that has no address or
\* no route, and up with all of them.  Probes are unmeasured when none is enabled;
\* otherwise none passes, or some, or enough of them.
Observation ==
    [link : {"absent", "dead", "up"}, wifi : BOOLEAN,
     probes : {"unmeasured", "none", "some", "quorum"}]
NoRound == [link |-> "unknown", wifi |-> FALSE, probes |-> "unmeasured"]

-----------------------------------------------------------------------------
Proven(o) == o.probes \in {"unmeasured", "quorum"}

\* Only a link that was judged before has to pass its probes.
Usable(o) ==
    /\ o.link = "up"
    /\ broadband \in {"healthy", "degraded"} => Proven(o)

\* classify_failure: the lowest layer that does not work.
FailureKind(o) ==
    CASE o.link = "absent" -> "session lost"
      [] o.link = "dead"   -> "no ip or route"
      [] o.link = "up" /\ o.probes = "none" -> "upstream"
      [] o.link = "up" /\ o.probes = "some" -> "partial or dns"
      [] OTHER -> "unknown"

\* warrants_redial: a session that is up and lets some probe through is not to blame.
WarrantsRedial(o) == FailureKind(o) # "partial or dns"

\* compute_preference
Preference(b, w) ==
    IF b = "healthy" THEN "broadband" ELSE IF w # "disconnected" THEN "wifi" ELSE "none"

\* derive_internet_state
InternetState(b, w) ==
    CASE Preference(b, w) = "broadband" -> "broadband primary"
      [] Preference(b, w) = "wifi" -> IF b \in {"verifying", "reconnecting"}
                                        THEN "recovering broadband" ELSE "wifi continuity"
      [] OTHER -> IF b = "degraded" \/ w = "degraded" THEN "degraded" ELSE "offline"

\* snapshot: what the panel and the command line show of the last round.
Shown ==
    LET internet == InternetState(broadband, wifi)
    IN  IF seen = NoRound THEN [phase |-> "start", internet |-> "unknown", ras |-> "unknown"]
        ELSE [phase |-> CASE internet = "degraded" -> "suspect"
                          [] internet = "offline"  -> "offline"
                          [] OTHER                 -> "online",
              internet |-> CASE internet \in {"broadband primary", "wifi continuity"} -> "healthy"
                             [] internet \in {"recovering broadband", "degraded"}     -> "degraded"
                             [] internet = "offline"                                  -> "down",
              ras |-> IF broadband \in {"healthy", "degraded", "verifying"}
                        THEN "connected" ELSE "disconnected"]

\* Mutant of Window: only aborts call for a window.
WindowAfterAborts(count) == Stabilize * count

\* For how long a link has to be up before it is trusted.
Window(count) == Stabilize * (1 + count)

AtMost(bound, n) == IF n <= bound THEN n ELSE bound

Older(age, dt) == IF age = Never THEN Never ELSE AtMost(MaxAge, age + dt)

Started(age) == IF age = Never THEN 0 ELSE age

\* NetworkState::default()
Init ==
    /\ probing \in BOOLEAN
    /\ broadband = "disconnected" /\ wifi = "disconnected"
    /\ failures = 0 /\ step = 1 /\ aborts = 0 /\ outage = FALSE
    /\ healthyFor = Never /\ preferredFor = Never /\ wifiFor = Never /\ dialedFor = Never
    /\ wait = 0 /\ seen = NoRound /\ did = {}
    /\ upFor = Never /\ dials = 0

\* The worker or the service is started anew, the service with what is configured
\* then; the links stay what they are.
Restart ==
    /\ probing' \in BOOLEAN
    /\ broadband' = "disconnected" /\ wifi' = "disconnected"
    /\ failures' = 0 /\ step' = 1 /\ aborts' = 0 /\ outage' = FALSE
    /\ healthyFor' = Never /\ preferredFor' = Never /\ wifiFor' = Never /\ dialedFor' = Never
    /\ wait' = 0 /\ seen' = NoRound /\ did' = {}
    /\ upFor' = Never /\ dials' = 0

\* The worker sleeps, and what its round began to do takes its time as well.
Sleep ==
    /\ wait > 0 /\ wait' = 0
    /\ \E dt \in wait .. wait + MaxLate :
          /\ healthyFor' = Older(healthyFor, dt)
          /\ preferredFor' = Older(preferredFor, dt)
          /\ wifiFor' = Older(wifiFor, dt)
          /\ dialedFor' = Older(dialedFor, dt)
          /\ upFor' = Older(upFor, dt)
    /\ UNCHANGED <<probing, assessment, seen, did, dials>>

-----------------------------------------------------------------------------
(* One round: section by section what evaluate() does *)

\* update_wifi: the state that comes of it.
NextWifi(o) ==
    IF ~o.wifi THEN "disconnected"
    ELSE IF ~Proven(o) THEN "degraded"
    ELSE IF Started(wifiFor) < WifiStabilize THEN "verifying"
    ELSE IF ~Usable(o) \/ wifi = "continuity" THEN "continuity" ELSE "healthy"

\* ... and the standby demotion, which comes last.
UpdateWifi(o) ==
    /\ wifiFor' = IF o.wifi THEN Started(wifiFor) ELSE Never
    /\ wifi' = IF NextWifi(o) = "continuity" /\ broadband' = "healthy" THEN "healthy"
                                                                      ELSE NextWifi(o)

\* Mutant of Lost: one round without a session does not count yet.
LostPatiently(o) ==
    /\ o.link = "absent"
    /\ failures' = AtMost(FailureQuorum, failures + 1)
    /\ IF failures' = FailureQuorum
       THEN broadband' = "reconnecting" /\ healthyFor' = Never
       ELSE UNCHANGED <<broadband, healthyFor>>

Lost(o) ==
    /\ o.link = "absent"
    /\ broadband' = "reconnecting" /\ healthyFor' = Never
    /\ UNCHANGED failures

NotMeasured(o) ==
    /\ o.link # "absent" /\ o.probes = "unmeasured"
    /\ UNCHANGED <<broadband, healthyFor, failures>>

Passed(o) ==
    /\ o.link # "absent" /\ o.probes # "unmeasured" /\ Usable(o)
    /\ failures' = 0
    /\ \/ /\ broadband = "healthy"
          /\ UNCHANGED <<broadband, healthyFor>>
       \/ /\ broadband = "verifying"
          /\ broadband' = IF Started(healthyFor) >= Window(aborts) THEN "healthy" ELSE "verifying"
          /\ UNCHANGED healthyFor
       \/ /\ broadband \notin {"healthy", "verifying"}
          /\ broadband' = "verifying" /\ healthyFor' = 0

\* A link that is being verified is not degraded, one that was healthy loses its age.
Failed(o) ==
    /\ o.link # "absent" /\ o.probes # "unmeasured" /\ ~Usable(o)
    /\ failures' = AtMost(FailureQuorum, failures + 1)
    /\ IF failures' = FailureQuorum /\ broadband # "verifying"
       THEN /\ broadband' = "degraded"
            /\ healthyFor' = IF broadband = "healthy" THEN Never ELSE healthyFor
       ELSE UNCHANGED <<broadband, healthyFor>>

\* What else depends on the new state of broadband.  A round that finds it healthy
\* forgives an abort, and a demotion soon after the promotion counts one.
Account(o) ==
    /\ aborts' =
          IF broadband' = "healthy" THEN IF aborts = 0 THEN 0 ELSE aborts - 1
          ELSE IF /\ broadband = "healthy" /\ broadband' = "degraded"
                  /\ preferredFor # Never /\ preferredFor < 3 * Stabilize
          THEN aborts + 1 ELSE aborts
    /\ outage' = (broadband' \notin {"healthy", "verifying", "degraded", "reconnecting"})
    /\ preferredFor' =
          CASE Preference(broadband', wifi') = "broadband" -> Started(preferredFor)
            [] Preference(broadband', wifi') = "wifi"      -> Never
            [] OTHER                                       -> preferredFor
    /\ upFor' = IF o.link = "absent" THEN Never ELSE Started(upFor)

\* After the new state of broadband and the count of aborts.
InsideWindow ==
    /\ broadband' \in {"verifying", "reconnecting"}
    /\ healthyFor' # Never /\ healthyFor' < Window(aborts')

NeedsRepair == broadband' # "healthy" /\ ~InsideWindow

\* The backup is brought up before anything is repaired.
Continuity(o) == IF ~o.wifi /\ ~Usable(o) THEN {"connect wifi"} ELSE {}

\* Mutant of StepAfter: a session that comes up resets the schedule.
StepAfterSession == IF broadband' \in {"healthy", "verifying"} THEN 1 ELSE step

\* The step of the schedule, and the dials counted, before a dial.
StepAfter == IF broadband' = "healthy" THEN 1 ELSE step
DialsAfter == IF broadband' = "healthy" THEN 0 ELSE dials

NoRepair(o) ==
    /\ ~NeedsRepair
    /\ did' = Continuity(o) /\ wait' = BaseInterval
    /\ step' = StepAfter /\ dials' = DialsAfter
    /\ UNCHANGED dialedFor

\* Mutant of SparesTraffic: only Wi-Fi makes up for the session.
SparesForWifi == wifi' = "continuity"

\* Nothing uses the session that is hung up: Wi-Fi is up, or neither link was
\* preferred before this round.
SparesTraffic == wifi' # "disconnected" \/ Preference(broadband, wifi) = "none"

\* A session that is up is hung up when that promises more, else kept.
RepairSession(o) ==
    /\ NeedsRepair /\ o.link # "absent"
    /\ did' = Continuity(o) \cup
              (IF WarrantsRedial(o) /\ SparesTraffic THEN {"hang up"} ELSE {})
    /\ wait' = BaseInterval
    /\ step' = StepAfter /\ dials' = DialsAfter
    /\ UNCHANGED dialedFor

DialDue == dialedFor = Never \/ dialedFor >= MinDial

\* What is asked for after the dial at a step of the schedule.
WaitAt(i) == IF Backoff[i] = 0 THEN BaseInterval ELSE Backoff[i]

Dial(o) ==
    /\ NeedsRepair /\ o.link = "absent" /\ DialDue
    /\ did' = Continuity(o) \cup {"dial"}
    /\ wait' = WaitAt(step)
    /\ step' = AtMost(Len(Backoff), step + 1)
    /\ dialedFor' = 0
    /\ dials' = AtMost(Len(Backoff), dials + 1)

Defer(o) ==
    /\ NeedsRepair /\ o.link = "absent" /\ ~DialDue
    /\ did' = Continuity(o) /\ wait' = MinDial
    /\ step' = StepAfter /\ dials' = DialsAfter
    /\ UNCHANGED dialedFor

Round(o) ==
    /\ wait = 0 /\ seen' = o
    /\ o.probes = "unmeasured" <=> ~probing
    /\ Lost(o) \/ NotMeasured(o) \/ Passed(o) \/ Failed(o)
    /\ UpdateWifi(o)
    /\ Account(o)
    /\ NoRepair(o) \/ RepairSession(o) \/ Dial(o) \/ Defer(o)
    /\ UNCHANGED probing

Next == Sleep \/ Restart \/ \E o \in Observation : Round(o)

Spec == Init /\ [][Next]_vars

\* The worker runs forever.  What it sees is not up to it.
FairSpec == Spec /\ WF_vars(Sleep) /\ WF_vars(\E o \in Observation : Round(o))

-----------------------------------------------------------------------------
(* Correctness *)

Age == Never .. MaxAge

\* The variables keep their types.
TypeOK ==
    /\ broadband \in {"disconnected", "verifying", "healthy", "degraded", "reconnecting"}
    /\ wifi \in {"disconnected", "verifying", "healthy", "continuity", "degraded"}
    /\ failures \in 0 .. FailureQuorum /\ step \in 1 .. Len(Backoff) /\ aborts \in Nat
    /\ healthyFor \in Age /\ preferredFor \in Age /\ wifiFor \in Age
    /\ dialedFor \in Age /\ upFor \in Age
    /\ outage \in BOOLEAN /\ wait \in Nat /\ probing \in BOOLEAN
    /\ seen \in Observation \cup {NoRound}
    /\ did \subseteq {"connect wifi", "hang up", "dial"}
    /\ dials \in 0 .. Len(Backoff)

\* However often the link fails after its promotion, it never has to be up for
\* longer than two windows to be promoted again.
WindowIsBounded ==
    /\ aborts <= 1
    /\ broadband = "healthy" => aborts = 0

\* The link is older than the age that verification counts from.
VerifiedWhileUp ==
    /\ healthyFor <= upFor
    /\ broadband = "verifying" => healthyFor # Never

\* The schedule goes on until the link is healthy, and the wait after a dial is
\* the one of its step.
OnSchedule ==
    /\ step = AtMost(Len(Backoff), dials + 1)
    /\ dials > 0 => dialedFor # Never /\ dialedFor + wait >= Backoff[dials]

\* A link is held to be up, and Wi-Fi to be there or not, as of the last round.
AssessedAsSeen ==
    /\ broadband \in {"healthy", "degraded", "verifying"} => seen.link \in {"dead", "up"}
    /\ wifi # "disconnected" <=> seen.wifi

\* The inductive invariant of the proofs.
IInv == TypeOK /\ WindowIsBounded /\ VerifiedWhileUp /\ OnSchedule /\ AssessedAsSeen

\* What is shown never rests on an earlier round: Internet is not called healthy
\* when neither uplink was there, nor down when Wi-Fi was, and a session is not
\* called connected when there was none.
ShownIsTrue ==
    /\ Shown.internet = "healthy" => seen.wifi \/ seen.link # "absent"
    /\ Shown.internet = "down" => ~seen.wifi
    /\ Shown.ras = "connected" => seen.link \in {"dead", "up"}
    /\ Shown.phase = "online" => Preference(broadband, wifi) # "none"

\* The n-th dial since the link was last healthy is followed by no other before
\* the n-th delay of the schedule is over, also when sessions come up in between
\* and die at once: they do not reset the schedule.
DialsBackOff ==
    [][wait = 0 /\ "dial" \in did' =>
           /\ dialedFor = Never \/ dialedFor >= MinDial
           /\ dials > 0 => dialedFor >= Backoff[dials]]_vars

\* A link is promoted only after each round of a whole window has seen its session.
PromotionIsEarned ==
    [][broadband # "healthy" /\ broadband' = "healthy" => upFor >= Stabilize]_vars

\* While there are probes: a session that has its address and route and lets some
\* probe through is not hung up, whatever the assessment was before.
UsableIsKept ==
    [][probing /\ wait = 0 /\ "hang up" \in did'
           => seen'.link = "dead" \/ seen'.probes = "none"]_vars

\* What no round does to the links: dial too early, promote too early, hang up
\* what is of use.
StepsAreSafe == DialsBackOff /\ PromotionIsEarned /\ UsableIsKept

\* A link that is found up and passes its probes from some time on becomes and
\* stays the preferred one, whatever happened before.
GoodLinkIsUsed ==
    <>[](seen.link = "up" /\ seen.probes = "quorum") => <>[](broadband = "healthy")

\* While there are probes: a session that is up and of no use is torn down, again
\* and again if it has to be.
UselessSessionIsDropped ==
    <>[](probing /\ (seen.link = "dead" \/ (seen.link = "up" /\ seen.probes = "none")))
        => []<>("hang up" \in did)

\* If the broadband session is gone for good, or found dead by a worker that has
\* probes, and Wi-Fi is there, Wi-Fi is used.
ContinuityTakesOver ==
    <>[](seen.wifi /\ (seen.link = "absent" \/ (seen.link = "dead" /\ probing)))
        => <>[](Preference(broadband, wifi) = "wifi")

\* Whatever the links settle to, the uplink settles to the best of them.
UplinkRecovers == GoodLinkIsUsed /\ UselessSessionIsDropped /\ ContinuityTakesOver

\* The session looks fine but nothing was measured: "do not invent a failure".
UnmeasuredIsKept ==
    [][wait = 0 /\ "hang up" \in did' => ~(seen'.link = "up" /\ seen'.probes = "unmeasured")]_vars

\* Wi-Fi continuity "must not hide a broadband failure that Guardian needs to
\* report and repair": a link without a session has an open outage.
OutageIsReported ==
    seen.link = "absent" => outage
=============================================================================
