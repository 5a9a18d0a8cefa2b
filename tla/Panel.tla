------------------------------- MODULE Panel -------------------------------
(***************************************************************************)
(* The copies of the tray program: the check that one is running already,  *)
(* the restart as administrator, in which the elevated copy is started     *)
(* first and waits for the one that started it, the thread that hosts the  *)
(* runtime and starts the session helper, and the entries of the Run key.  *)
(* A copy's main thread is held while the consent prompt is open; the      *)
(* stopping that a consent asks for runs on a thread of its own.           *)
(***************************************************************************)
EXTENDS Naturals, FiniteSets

CONSTANTS
    Copies,        \* the copies that may be started, named by their pids
    Rights,        \* whether the user may start a copy elevated: a part of BOOLEAN
    HelperShipped, \* guardian-session.exe lies beside the program
    MaxFaults      \* bound on what goes wrong

ASSUME PanelAssumption ==
    /\ "user" \notin Copies
    /\ IsFiniteSet(Copies) /\ Rights \subseteq BOOLEAN /\ HelperShipped \in BOOLEAN /\ MaxFaults \in Nat

Entries == {"guardian", "helper"}

VARIABLES
    phase,    \* how far main has come in each copy
    after,    \* who started it: the user, or the copy in --relaunched=<pid>
    elevated, \* UiBridge.elevated
    asking,   \* the copies whose consent prompt is open
    exiting,  \* UiBridge.exiting
    runtime,  \* how far the thread of start_runtime has come
    helpers,  \* the helpers that run
    entries,  \* what stands in the Run key
    early,    \* copies that went on while the one before them was alive
    blind,    \* copies that could not list the processes at their start
    broken,   \* entries of the Run key that were lost or only half written
    mishaps,  \* helpers that ended, were overlooked or could not be started
    killed    \* the copies the task manager ended

program   == <<phase, after, elevated, asking, exiting>>
session   == <<runtime, helpers>>
faults    == <<early, blind, broken, mishaps, killed>>
panelVars == <<program, session, entries, faults>>

FaultCount == Cardinality(early) + Cardinality(blind) + broken + mishaps + Cardinality(killed)
MayFail == FaultCount < MaxFaults

PanelInit ==
    /\ phase = [p \in Copies |-> "absent"] /\ after = [p \in Copies |-> "user"]
    /\ elevated = [p \in Copies |-> FALSE] /\ asking = {} /\ exiting = {}
    /\ runtime = [p \in Copies |-> "none"]
    /\ helpers \in 0..1
    /\ entries = {}
    /\ early = {} /\ blind = {} /\ broken = 0 /\ mishaps = 0 /\ killed = {}

Alive(p) == phase[p] \in {"starting", "waiting", "up"}

\* The runtime's threads run in this copy, whether or not it is on its way out.
Hosts(p) == Alive(p) /\ runtime[p] = "ready"

-----------------------------------------------------------------------------
(* Starting, and handing over.                                               *)

\* The user, or the Run key at logon, starts a copy.
Launch(p) ==
    /\ phase[p] = "absent"
    /\ phase' = [phase EXCEPT ![p] = "starting"]
    /\ \E e \in Rights : elevated' = [elevated EXCEPT ![p] = e]
    /\ UNCHANGED <<after, asking, exiting, session, entries, faults>>

\* other_instance, by the name of the image.
OtherInstance(p) == \E q \in Copies \ {p} : Alive(q)

\* main without --relaunched: a copy that sees another one ends.
Check(p) ==
    /\ phase[p] = "starting"
    /\ phase' = [phase EXCEPT ![p] = IF OtherInstance(p) THEN "gone" ELSE "up"]
    /\ UNCHANGED <<after, elevated, asking, exiting, session, entries, faults>>

\* The same when the processes cannot be listed: nobody is seen.
CheckBlindly(p) ==
    /\ phase[p] = "starting" /\ MayFail
    /\ phase' = [phase EXCEPT ![p] = "up"]
    /\ blind' = blind \cup {p}
    /\ UNCHANGED <<after, elevated, asking, exiting, session, entries, early, broken, mishaps, killed>>

\* Mutant of AwaitExit: the copy does not look whether the one before it is gone.
AwaitNobody(p) ==
    /\ phase[p] = "waiting"
    /\ phase' = [phase EXCEPT ![p] = "up"]
    /\ UNCHANGED <<after, elevated, asking, exiting, session, entries, faults>>

\* wait_for_exit returns when the copy it names is gone.
AwaitExit(p) ==
    /\ phase[p] = "waiting" /\ ~Alive(after[p])
    /\ phase' = [phase EXCEPT ![p] = "up"]
    /\ UNCHANGED <<after, elevated, asking, exiting, session, entries, faults>>

\* wait_for_exit gives up after 15 s, or a failed listing passes for an exit.
AwaitTooLong(p) ==
    /\ phase[p] = "waiting" /\ Alive(after[p]) /\ MayFail
    /\ phase' = [phase EXCEPT ![p] = "up"]
    /\ early' = early \cup {p}
    /\ UNCHANGED <<after, elevated, asking, exiting, session, entries, blind, broken, mishaps, killed>>

-----------------------------------------------------------------------------
(* The thread of start_runtime.                                              *)

\* ensure_helper_running sees a helper, or has none to start.
FindHelper(p) ==
    /\ phase[p] = "up" /\ runtime[p] = "none"
    /\ helpers > 0 \/ ~HelperShipped
    /\ runtime' = [runtime EXCEPT ![p] = "begun"]
    /\ UNCHANGED <<program, helpers, entries, faults>>

\* ensure_helper_running sees no helper, and will start one.
MissHelper(p) ==
    /\ phase[p] = "up" /\ runtime[p] = "none"
    /\ helpers = 0 /\ HelperShipped
    /\ runtime' = [runtime EXCEPT ![p] = "spawning"]
    /\ UNCHANGED <<program, helpers, entries, faults>>

\* ensure_helper_running cannot list the processes, which passes for no helper.
OverlookHelper(p) ==
    /\ phase[p] = "up" /\ runtime[p] = "none"
    /\ helpers > 0 /\ HelperShipped /\ MayFail
    /\ runtime' = [runtime EXCEPT ![p] = "spawning"]
    /\ mishaps' = mishaps + 1
    /\ UNCHANGED <<program, helpers, entries, early, blind, broken, killed>>

\* The helper cannot be started, and nobody tries again.
SpawnFails(p) ==
    /\ phase[p] = "up" /\ runtime[p] = "spawning" /\ MayFail
    /\ runtime' = [runtime EXCEPT ![p] = "begun"]
    /\ mishaps' = mishaps + 1
    /\ UNCHANGED <<program, helpers, entries, early, blind, broken, killed>>

\* The helper is started, whoever else has started one meanwhile.
SpawnHelper(p) ==
    /\ phase[p] = "up" /\ runtime[p] = "spawning"
    /\ runtime' = [runtime EXCEPT ![p] = "begun"]
    /\ helpers' = helpers + 1
    /\ UNCHANGED <<program, entries, faults>>

\* run publishes the runtime: UiBridge::attach.
Attach(p) ==
    /\ phase[p] = "up" /\ runtime[p] = "begun"
    /\ runtime' = [runtime EXCEPT ![p] = "ready"]
    /\ UNCHANGED <<program, helpers, entries, faults>>

\* The runtime that was asked to stop has ended.  One that was not yet
\* attached was never asked.
RuntimeEnds(p) ==
    /\ phase[p] = "up" /\ p \in exiting /\ runtime[p] = "ready"
    /\ runtime' = [runtime EXCEPT ![p] = "ended"]
    /\ UNCHANGED <<program, helpers, entries, faults>>

\* The helper dies, or the session ends it.
HelperEnds ==
    /\ helpers > 0 /\ MayFail
    /\ helpers' = helpers - 1
    /\ mishaps' = mishaps + 1
    /\ UNCHANGED <<program, runtime, entries, early, blind, broken, killed>>

-----------------------------------------------------------------------------
(* What the panel and the tray do.  A command needs the main thread, which   *)
(* an open prompt holds.                                                     *)

Free(p) == phase[p] = "up" /\ p \notin asking

\* restart_elevated opens the prompt; an elevated copy only says so.
Ask(p) ==
    /\ Free(p) /\ ~elevated[p]
    /\ asking' = asking \cup {p}
    /\ UNCHANGED <<phase, after, elevated, exiting, session, entries, faults>>

\* Mutant of Consent: the copy that was left is not asked to stop.
ConsentAndStay(p) ==
    /\ p \in asking /\ phase[p] = "up"
    /\ asking' = asking \ {p}
    /\ \E q \in Copies :
         /\ phase[q] = "absent"
         /\ phase' = [phase EXCEPT ![q] = "waiting"]
         /\ after' = [after EXCEPT ![q] = p]
         /\ elevated' = [elevated EXCEPT ![q] = TRUE]
    /\ UNCHANGED <<exiting, session, entries, faults>>

\* The user consents: the elevated copy starts, and this one's stopping with it.
Consent(p) ==
    /\ p \in asking /\ phase[p] = "up"
    /\ asking' = asking \ {p} /\ exiting' = exiting \cup {p}
    /\ \E q \in Copies :
         /\ phase[q] = "absent"
         /\ phase' = [phase EXCEPT ![q] = "waiting"]
         /\ after' = [after EXCEPT ![q] = p]
         /\ elevated' = [elevated EXCEPT ![q] = TRUE]
    /\ UNCHANGED <<session, entries, faults>>

\* The user declines, or the call fails: nothing changes.
Decline(p) ==
    /\ p \in asking /\ phase[p] = "up"
    /\ asking' = asking \ {p}
    /\ UNCHANGED <<phase, after, elevated, exiting, session, entries, faults>>

\* exit_app and the tray's exit: request_stop.
ExitApp(p) ==
    /\ Free(p)
    /\ exiting' = exiting \cup {p}
    /\ UNCHANGED <<phase, after, elevated, asking, session, entries, faults>>

\* The grace is over, or the runtime has the flag: app.exit(0), which the main
\* thread carries out and every other thread ends with.
Exit(p) ==
    /\ Free(p) /\ p \in exiting
    /\ phase' = [phase EXCEPT ![p] = "gone"]
    /\ runtime' = [runtime EXCEPT ![p] = "ended"]
    /\ UNCHANGED <<after, elevated, asking, exiting, helpers, entries, faults>>

\* The task manager ends a copy.
Kill(p) ==
    /\ Alive(p) /\ MayFail
    /\ phase' = [phase EXCEPT ![p] = "gone"]
    /\ runtime' = [runtime EXCEPT ![p] = "ended"]
    /\ asking' = asking \ {p}
    /\ killed' = killed \cup {p}
    /\ UNCHANGED <<after, elevated, exiting, helpers, entries, early, blind, broken, mishaps>>

-----------------------------------------------------------------------------
(* Starting at logon.                                                        *)

\* AutostartState::any
Anything(e) == e # {}

\* enable: Guardian's own entry first, then the helper's where it is shipped.
Enabled(e) == e \cup {"guardian"} \cup (IF HelperShipped THEN {"helper"} ELSE {})

\* disable
Disabled(e) == e \ Entries

\* set_enabled, from the panel with the state that is wanted, or from the tray
\* with the opposite of what the key says.
SetEnabled(p, wanted) ==
    /\ Free(p)
    /\ entries' = IF wanted THEN Enabled(entries) ELSE Disabled(entries)
    /\ UNCHANGED <<program, session, faults>>

SetAutostart(p) == \E wanted \in BOOLEAN : SetEnabled(p, wanted)
ToggleFromTray(p) == SetEnabled(p, ~Anything(entries))

\* set_enabled returns after its first write or deletion, the second having failed.
SetEnabledHalf(p) ==
    /\ Free(p) /\ MayFail
    /\ entries' \in {entries \cup {"guardian"}, entries \ {"guardian"}}
    /\ broken' = broken + 1
    /\ UNCHANGED <<program, session, early, blind, mishaps, killed>>

\* An entry is removed by hand, in the task manager.
RemoveEntry ==
    /\ MayFail
    /\ \E e \in entries : entries' = entries \ {e}
    /\ broken' = broken + 1
    /\ UNCHANGED <<program, session, early, blind, mishaps, killed>>

-----------------------------------------------------------------------------
Step(p) ==
    \/ Launch(p) \/ Check(p) \/ CheckBlindly(p) \/ AwaitExit(p) \/ AwaitTooLong(p)
    \/ FindHelper(p) \/ MissHelper(p) \/ OverlookHelper(p) \/ SpawnHelper(p) \/ SpawnFails(p)
    \/ Attach(p) \/ RuntimeEnds(p)
    \/ Ask(p) \/ Consent(p) \/ Decline(p) \/ ExitApp(p) \/ Exit(p) \/ Kill(p)
    \/ SetAutostart(p) \/ ToggleFromTray(p) \/ SetEnabledHalf(p)

PanelNext == HelperEnds \/ RemoveEntry \/ \E p \in Copies : Step(p)

PanelSpec == PanelInit /\ [][PanelNext]_panelVars

\* The threads of a copy run; a prompt is answered or times out; the 15 s pass
\* while a copy is alive, which is a fault and not counted on.  The exit waits
\* in the queue of the main thread, which comes to it between two commands.
PanelFairness ==
    \A p \in Copies :
        /\ WF_panelVars(Check(p)) /\ WF_panelVars(AwaitExit(p))
        /\ WF_panelVars(FindHelper(p) \/ MissHelper(p)) /\ WF_panelVars(SpawnHelper(p))
        /\ WF_panelVars(Attach(p)) /\ SF_panelVars(Exit(p))
        /\ WF_panelVars(Consent(p) \/ Decline(p))

PanelFairSpec == PanelSpec /\ PanelFairness

-----------------------------------------------------------------------------
(* Properties.                                                               *)

\* Every variable keeps its type, and a copy that has not started does nothing.
PanelTypeOK ==
    /\ phase \in [Copies -> {"absent", "starting", "waiting", "up", "gone"}]
    /\ after \in [Copies -> Copies \cup {"user"}]
    /\ elevated \in [Copies -> BOOLEAN]
    /\ asking \subseteq {p \in Copies : phase[p] = "up"} /\ exiting \subseteq Copies
    /\ runtime \in [Copies -> {"none", "spawning", "begun", "ready", "ended"}]
    /\ \A p \in Copies : phase[p] \in {"absent", "starting", "waiting"} => runtime[p] = "none"
    /\ helpers \in 0..(Cardinality(Copies) + 1)
    /\ entries \subseteq Entries
    /\ early \subseteq Copies /\ blind \subseteq Copies /\ killed \subseteq Copies
    /\ broken \in 0..MaxFaults /\ mishaps \in 0..MaxFaults

\* Two runtimes fight over the pipe, the policy and the journal.  Unless a wait
\* was given up or a listing failed, two copies host one together only if both
\* were started by consents given to the same copy, before it was gone.
RivalsAreSiblings ==
    (early = {} /\ blind = {}) =>
        \A p, q \in Copies :
            (p # q /\ Hosts(p) /\ Hosts(q)) => after[p] = after[q] /\ after[p] \in Copies

\* The elevated copy is not turned away by the single-instance check, however
\* the user starts more copies meanwhile: it comes to host the runtime with the
\* copy it replaces gone, unless it is exited or killed itself.
HandOverEnds ==
    \A p \in Copies :
        phase[p] = "waiting" ~>
            \/ Hosts(p) /\ \A q \in Copies : Alive(q) => q # after[p]
            \/ p \in exiting \/ p \in killed

\* Start-up at logon is off or on as a whole: with no failed write the helper
\* is registered only beside Guardian, though either is its own value.
HelperIsNotOrphaned ==
    broken = 0 => ("helper" \in entries => "guardian" \in entries)

\* What holds of the copies at any moment.
CopiesAreSafe == PanelTypeOK /\ RivalsAreSiblings /\ HelperIsNotOrphaned

-----------------------------------------------------------------------------
(* The inductive invariant behind them.                                      *)

\* Who was started by a copy is elevated, and the one that started it was up.
OriginsAreSound ==
    /\ \A p \in Copies :
         /\ phase[p] \in {"absent", "starting"} => after[p] = "user"
         /\ phase[p] = "waiting" => after[p] \in Copies
         /\ after[p] \in Copies => elevated[p] /\ phase[after[p]] \in {"up", "gone"}
    /\ \A p \in asking : ~elevated[p]

Settled(p) == phase[p] \in {"waiting", "up"}
Siblings(p, q) == after[p] = after[q] /\ after[p] \in Copies

\* With no wait given up and no listing failed, any two copies that have passed
\* their check are siblings, or one waits for the other.
FamiliesAreSmall ==
    (early = {} /\ blind = {}) =>
        /\ \A p, q \in Copies :
             (p # q /\ Settled(p) /\ Settled(q)) => Siblings(p, q) \/ after[p] = q \/ after[q] = p
        /\ \A p \in Copies : (phase[p] = "up" /\ after[p] \in Copies) => ~Alive(after[p])

\* Each copy starts one helper at most.
MayStartHelper == {p \in Copies : runtime[p] \in {"none", "spawning"}}
HelpersAreCounted == helpers + Cardinality(MayStartHelper) <= Cardinality(Copies) + 1

PanelInv ==
    /\ PanelTypeOK /\ OriginsAreSound /\ FamiliesAreSmall
    /\ HelpersAreCounted /\ HelperIsNotOrphaned
=============================================================================
