----------------------------- MODULE StateFile -----------------------------
(***************************************************************************)
(* The state document on disk.  The runtime saves it through an            *)
(* AtomicFile: a temporary file beside it is created, filled, flushed and  *)
(* renamed over it.  Meanwhile `guardianctl restore-policy`, in another    *)
(* process, opens the store: it reads the document, and moves aside what   *)
(* it could not read.  The machine may lose power at any step.             *)
(***************************************************************************)
EXTENDS Integers

CONSTANTS
    Attempts,      \* ATTEMPTS of replace_file
    MaxQuarantine, \* MAX_QUARANTINE: the names a document can be moved to
    MaxSaves,      \* bound on the saves
    MaxCrashes,    \* bound on the crashes of the runtime
    MaxFaults,     \* bound on the calls to the system that fail
    MaxDamages     \* bound on the damage to the document from outside

ASSUME StateFileAssumption ==
    /\ Attempts \in Nat \ {0} /\ MaxQuarantine \in Nat \ {0}
    /\ MaxSaves \in Nat /\ MaxCrashes \in Nat /\ MaxFaults \in Nat /\ MaxDamages \in Nat

VARIABLES
    doc,      \* what state.json holds: Absent, Damaged, or the number of a save
    tmp,      \* what the temporary file holds: Absent, Damaged, or the number of a save
    flushed,  \* the temporary file has been synced
    aside,    \* what each quarantine name holds
    pc,       \* where the runtime is in a save: "up" when in none, "off" after a crash
    tries,    \* the renames tried in this save
    saves,    \* number of the last save; each saves a new value
    ctl,      \* where restore-policy is
    slot,     \* the quarantine name it has chosen
    answer,   \* how its last call ended
    crashes, faults,  \* bounds
    damages   \* the times the document was damaged from outside

runtime == <<tmp, flushed, pc, tries, saves, crashes>>
tool    == <<aside, ctl, slot, answer>>
vars    == <<doc, runtime, tool, faults, damages>>

Absent  == 0
Damaged == -1     \* torn, or not JSON
Saved   == 1..MaxSaves
Names == 0..(MaxQuarantine - 1)
Content == {Absent, Damaged} \cup Saved

Init ==
    /\ doc \in {Absent, Damaged} /\ tmp = Absent /\ flushed = FALSE
    /\ aside = [n \in Names |-> Absent]
    /\ pc = "up" /\ tries = 0 /\ saves = 0
    /\ ctl = "idle" /\ slot = 0 /\ answer = "none"
    /\ crashes = 0 /\ faults = 0 /\ damages = 0

-----------------------------------------------------------------------------
(* AtomicFile::write_bytes, called by save_state.                            *)

\* write_json is called, and the temporary file is created, or emptied.
Create ==
    /\ pc = "up" /\ saves < MaxSaves
    /\ saves' = saves + 1
    /\ tmp' = Damaged /\ flushed' = FALSE
    /\ tries' = 0 /\ pc' = "write"
    /\ UNCHANGED <<doc, crashes, tool, faults, damages>>

\* Mutant of Fill: the file is closed without being synced.
FillOnly ==
    /\ pc = "write" /\ pc' = "rename"
    /\ tmp' = saves
    /\ UNCHANGED <<doc, flushed, tries, saves, crashes, tool, faults, damages>>

\* write_all and flush.
Fill ==
    /\ pc = "write" /\ pc' = "sync"
    /\ tmp' = saves
    /\ UNCHANGED <<doc, flushed, tries, saves, crashes, tool, faults, damages>>

\* sync_all, and the file is closed.
Sync ==
    /\ pc = "sync" /\ pc' = "rename"
    /\ flushed' = TRUE
    /\ UNCHANGED <<doc, tmp, tries, saves, crashes, tool, faults, damages>>

\* Writing or syncing fails: save_state gives up, and the temporary file stays.
WriteFails ==
    /\ pc \in {"write", "sync"} /\ pc' = "up"
    /\ faults < MaxFaults /\ faults' = faults + 1
    /\ UNCHANGED <<doc, tmp, flushed, tries, saves, crashes, tool, damages>>

\* Mutant of Replace: what the temporary file holds is copied over the document.
CopyOver ==
    /\ pc = "rename"
    /\ \/ pc' = "rename" /\ doc # Damaged /\ doc' = Damaged /\ UNCHANGED <<tmp, flushed>>
       \/ pc' = "up" /\ doc' = tmp /\ tmp' = Absent /\ flushed' = FALSE
    /\ UNCHANGED <<tries, saves, crashes, tool, faults, damages>>

\* replace_file: the temporary file takes the document's name.
Replace ==
    /\ pc = "rename" /\ pc' = "up"
    /\ doc' = tmp /\ tmp' = Absent /\ flushed' = FALSE
    /\ UNCHANGED <<tries, saves, crashes, tool, faults, damages>>

\* Mutant of InUse: renames are tried until one succeeds.
InUseAgain ==
    /\ pc = "rename"
    /\ tries' = (tries + 1) % Attempts
    /\ UNCHANGED <<doc, tmp, flushed, pc, saves, crashes, tool, faults, damages>>

\* Someone holds the document open.  After the last attempt the temporary file
\* is removed and the save is given up.
InUse ==
    /\ pc = "rename"
    /\ IF tries + 1 < Attempts
         THEN tries' = tries + 1 /\ UNCHANGED <<tmp, flushed, pc>>
         ELSE tries' = 0 /\ tmp' = Absent /\ flushed' = FALSE /\ pc' = "up"
    /\ UNCHANGED <<doc, saves, crashes, tool, faults, damages>>

\* Power is lost, or the runtime is killed.  What was not synced may be torn.
Crash ==
    /\ pc # "off" /\ crashes < MaxCrashes
    /\ crashes' = crashes + 1 /\ pc' = "off"
    /\ tmp' \in IF tmp = Absent \/ flushed THEN {tmp} ELSE {Damaged, tmp}
    /\ UNCHANGED <<doc, flushed, tries, saves, tool, faults, damages>>

\* The runtime is started again; it neither reads nor removes temporary files.
Restart ==
    /\ pc = "off" /\ pc' = "up"
    /\ UNCHANGED <<doc, tmp, flushed, tries, saves, crashes, tool, faults, damages>>

\* Something outside damages the document.
Damage ==
    /\ damages < MaxDamages /\ damages' = damages + 1
    /\ doc # Damaged /\ doc' = Damaged
    /\ UNCHANGED <<runtime, tool, faults>>

-----------------------------------------------------------------------------
(* guardianctl restore-policy: load_state, quarantine.                       *)

\* A whole document, or none, is believed.  No document Guardian saves records
\* an original value, so there is never one to restore.
Believe ==
    /\ ctl = "idle" /\ doc # Damaged
    /\ answer' = IF doc = Absent THEN "not installed" ELSE "no originals"
    /\ UNCHANGED <<doc, runtime, aside, ctl, slot, faults, damages>>

\* The document cannot be parsed.
Disbelieve ==
    /\ ctl = "idle" /\ doc = Damaged
    /\ ctl' = "choose"
    /\ UNCHANGED <<doc, runtime, aside, slot, answer, faults, damages>>

\* The document cannot be opened just now, which load_state treats the same.
ReadRefused ==
    /\ ctl = "idle" /\ doc # Absent
    /\ faults < MaxFaults /\ faults' = faults + 1
    /\ ctl' = "choose"
    /\ UNCHANGED <<doc, runtime, aside, slot, answer, damages>>

\* Mutant of IsChosen: the first name is used again.
IsFirst(n) == n = 0

\* The first free name, or else the last one.
IsChosen(n) ==
    /\ \A m \in Names : m < n => aside[m] # Absent
    /\ aside[n] = Absent \/ n = MaxQuarantine - 1

\* quarantine picks a name, and removes what is there.
Choose ==
    /\ ctl = "choose" /\ ctl' = "move"
    /\ \E n \in Names :
         /\ IsChosen(n)
         /\ slot' = n
         /\ aside' = [aside EXCEPT ![n] = Absent]
    /\ UNCHANGED <<doc, runtime, answer, faults, damages>>

\* The document of this moment is moved, whatever has been saved meanwhile; if
\* there is none any more the move fails.  The call refuses to guess.
Move ==
    /\ ctl = "move" /\ ctl' = "idle"
    /\ IF doc = Absent THEN UNCHANGED <<doc, aside>>
         ELSE doc' = Absent /\ aside' = [aside EXCEPT ![slot] = doc]
    /\ answer' = "refused"
    /\ UNCHANGED <<runtime, slot, faults, damages>>

\* The move fails, and is not tried again.
MoveFails ==
    /\ ctl = "move" /\ ctl' = "idle"
    /\ faults < MaxFaults /\ faults' = faults + 1
    /\ answer' = "refused"
    /\ UNCHANGED <<doc, runtime, aside, slot, damages>>

-----------------------------------------------------------------------------
Save == Fill \/ Sync \/ Replace \/ InUse

Next ==
    \/ Create \/ Save \/ WriteFails \/ Crash \/ Restart \/ Damage
    \/ Believe \/ Disbelieve \/ ReadRefused \/ Choose \/ Move \/ MoveFails

Spec == Init /\ [][Next]_vars

\* The runtime's thread runs to the end of a save.  A document that stays in use
\* is not assumed to be released.
FairSpec == Spec /\ WF_vars(Save)

-----------------------------------------------------------------------------
(* Properties.                                                               *)

TypeOK ==
    /\ doc \in Content /\ tmp \in Content /\ flushed \in BOOLEAN
    /\ aside \in [Names -> Content]
    /\ pc \in {"up", "off", "write", "sync", "rename"}
    /\ tries \in 0..(Attempts - 1) /\ saves \in 0..MaxSaves
    /\ ctl \in {"idle", "choose", "move"} /\ slot \in Names
    /\ answer \in {"none", "not installed", "no originals", "refused"}
    /\ crashes \in 0..MaxCrashes /\ faults \in 0..MaxFaults
    /\ damages \in 0..MaxDamages

\* What is about to be renamed is the whole value of this save, on the disk: no
\* older temporary file, and no torn one, is ever published.
RenamesWhole == pc = "rename" => tmp = saves /\ flushed

\* A save has a number, and fills the file with its own value.
SaveUnderWay ==
    /\ pc \in {"write", "sync", "rename"} => saves > 0
    /\ pc = "sync" => tmp = saves

\* What is moved aside goes to a free name, or to the last one.
SlotIsFree == ctl = "move" => aside[slot] = Absent \/ slot = MaxQuarantine - 1

\* The inductive invariant of the proofs.
IInv == TypeOK /\ RenamesWhole /\ SaveUnderWay /\ SlotIsFree

\* The document is an atomic one, whatever fails and whoever opens it.
A == INSTANCE AtomicDocument
IsAtomicDocument == A!Spec

\* The first documents that were set aside are kept for ever: only the last
\* name is used again, however often reading fails.
EvidenceKept ==
    [][\A n \in Names : n # MaxQuarantine - 1 /\ aside[n] # Absent => aside'[n] = aside[n]]_vars

\* A save ends, even if the document stays in use.
SavesEnd == pc \in {"write", "sync", "rename"} ~> pc \in {"up", "off"}

(* What the sources say of the program and the code does not do.             *)

\* lib.rs:66-67: callers use the kind of failure to decide between retrying and
\* falling back; so a document that is whole is not set aside.
WholeIsNotSetAside == [][ctl = "move" => (\A n \in Names : aside'[n] \in Saved => aside[n] = aside'[n])]_vars

\* install.rs:38-43: what could not be read is not guessed at, so that nothing was
\* installed is only said before the first save.
NothingIsGuessed == answer = "not installed" => \A n \in Names : aside[n] = Absent

=============================================================================
