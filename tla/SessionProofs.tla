---------------------------- MODULE SessionProofs ----------------------------
(* What the pipe and the session helper keep, for any number of programs and *)
(* whatever they ask; and what the copies of the tray program keep, which    *)
(* start the helper, for any number of copies and faults.                    *)
EXTENDS Session, Panel, FiniteSetTheorems, TLAPS

AllModes == Modes \cup {"MAINTENANCE"}

USE SessionAssumption

-----------------------------------------------------------------------------
(* The steps that change more than where somebody is.                        *)

\* Requests, halves of them and answers are what the connections may hold.
LEMMA Bytes ==
  /\ Nothing \in {Nothing, Partial} \cup {Request(op) : op \in Ops}
  /\ Partial \in {Nothing, Partial} \cup {Request(op) : op \in Ops}
  /\ \A op \in Ops : Request(op) \in {Nothing, Partial} \cup {Request(o) : o \in Ops}
  /\ Nothing \in {Nothing} \cup Answers
OBVIOUS

LEMMA DiscardTyped ==
  ASSUME TypeOK, NEW S, Discard(S)
  PROVE  /\ inbox' \in [Clients -> {Nothing, Partial} \cup {Request(op) : op \in Ops}]
         /\ outbox' \in [Clients -> {Nothing} \cup Answers]
BY DEF TypeOK, Discard

LEMMA LeaveTyped ==
  ASSUME TypeOK, NEW c \in Clients, Leave(c)
  PROVE  /\ listener' \in Instances /\ serving' \in Clients \cup {"none", "left"}
         /\ inbox' \in [Clients -> {Nothing, Partial} \cup {Request(op) : op \in Ops}]
         /\ outbox' \in [Clients -> {Nothing} \cup Answers]
         /\ said' \in [Clients -> {"nothing", "hello", "request"}]
<1>1. listener' \in Instances /\ serving' \in Clients \cup {"none", "left"}
  BY DEF TypeOK, Leave, Instances
<1>2. inbox' \in [Clients -> {Nothing, Partial} \cup {Request(op) : op \in Ops}]
  BY Bytes DEF TypeOK, Leave
<1>3. outbox' \in [Clients -> {Nothing} \cup Answers]
  BY Bytes DEF TypeOK, Leave
<1>4. said' \in [Clients -> {"nothing", "hello", "request"}]
  BY DEF TypeOK, Leave
<1> QED BY <1>1, <1>2, <1>3, <1>4

\* An answer is the one for what was asked.
LEMMA AnswerTyped ==
  ASSUME TypeOK, Answer
  PROVE  TypeOK' /\ UNCHANGED <<client, said, blocked>>
<1> DEFINE op == inbox[serving].op
<1>1. serving \in Clients /\ inbox[serving] \notin {Nothing, Partial}
  BY DEF Answer
<1>2. PICK o \in Ops : inbox[serving] = Request(o)
  BY <1>1 DEF TypeOK
<1>3. op \in Ops
  BY <1>2 DEF Request
<1>4. mode' \in Modes \cup {"MAINTENANCE"}
  BY DEF Answer, TypeOK
<1>5. inbox' = [inbox EXCEPT ![serving] = Nothing]
  BY DEF Answer
<1> HIDE DEF op
<1>6. [op |-> op, response |-> Response(op), mode |-> Pushed(op)] \in Answers
  <2>1. mode \in Modes \cup {"MAINTENANCE"}
    BY DEF TypeOK
  <2>2. Pushed(op) \in Modes \cup {"none", "MAINTENANCE"}
    BY <2>1, Zenon DEF Pushed
  <2> QED BY <1>3, <2>2 DEF Answers
<1>7. outbox' \in [Clients -> {Nothing} \cup Answers]
  <2>1. \/ outbox' = outbox
        \/ outbox' = [outbox EXCEPT ![serving] =
                        [op |-> op, response |-> Response(op), mode |-> Pushed(op)]]
    BY DEF Answer, op
  <2> QED BY <1>1, <1>6, <2>1 DEF TypeOK
<1>8. inbox' \in [Clients -> {Nothing, Partial} \cup {Request(x) : x \in Ops}]
  BY <1>1, <1>5, Bytes DEF TypeOK
<1>9. server' \in {"drop", "serve"} /\ served' \in BOOLEAN /\ helperConnected' \in BOOLEAN
  <2>1. server' \in {"drop", "serve"}
    BY Zenon DEF Answer
  <2>2. served' \in BOOLEAN
    BY Zenon DEF Answer, TypeOK
  <2>3. helperConnected' \in BOOLEAN
    <3>1. \/ UNCHANGED helperConnected
          \/ helperConnected' = (helperConnected \/ (inbox[serving].op = "subscribe" /\ serving = Helper))
      BY DEF Answer
    <3> QED BY <3>1 DEF TypeOK
  <2> QED BY <2>1, <2>2, <2>3
<1>10. UNCHANGED <<listener, serving, failures, ends, shutdown, deaths, blocked>>
  BY DEF Answer
<1> QED BY <1>4, <1>7, <1>8, <1>9, <1>10 DEF TypeOK, ends

-----------------------------------------------------------------------------
(* The types.                                                                *)

LEMMA TypeInit == Init => TypeOK
<1> SUFFICES ASSUME Init PROVE TypeOK
  OBVIOUS
<1>1. /\ inbox \in [Clients -> {Nothing, Partial} \cup {Request(op) : op \in Ops}]
      /\ outbox \in [Clients -> {Nothing} \cup Answers]
  BY Bytes DEF Init
<1>2. served \in BOOLEAN /\ helperConnected \in BOOLEAN /\ blocked \in BOOLEAN /\ shutdown \in BOOLEAN
  BY Zenon DEF Init
<1> QED BY <1>1, <1>2 DEF Init, TypeOK, Instances

\* A step of the server changes neither what the programs do nor the mode.
LEMMA ServerStep ==
  ASSUME TypeOK, SomebodyArrived, Server \/ CreateFails
  PROVE  TypeOK' /\ SomebodyArrived' /\ UNCHANGED <<client, said, blocked>>
<1> USE DEF ends, bytes, rest
<1>1. CASE Listen
  BY <1>1 DEF Listen, TypeOK, Instances, SomebodyArrived
<1>2. CASE StopListening
  <2>1. UNCHANGED <<serving, served, failures, ends, rest, blocked>>
    BY <1>2 DEF StopListening
  <2> QED BY <1>2, <2>1, DiscardTyped DEF StopListening, TypeOK, Instances, SomebodyArrived
<1>3. CASE Await
  <2>1. CASE listener \in Clients
    BY <1>3, <2>1 DEF Await, TypeOK, SomebodyArrived
  <2>2. CASE listener \notin Clients
    BY <1>3, <2>2 DEF Await, TypeOK, Instances, SomebodyArrived
  <2> QED BY <2>1, <2>2
<1>4. CASE Recreate
  BY <1>4 DEF Recreate, TypeOK, Instances, SomebodyArrived
<1>5. CASE Accept
  BY <1>5 DEF Accept, TypeOK, SomebodyArrived
<1>6. CASE FindNobody
  BY <1>6 DEF FindNobody, TypeOK, SomebodyArrived
<1>7. CASE Cancel
  <2>1. UNCHANGED <<serving, served, failures, ends, rest, blocked>>
    BY <1>7 DEF Cancel
  <2> QED BY <1>7, <2>1, DiscardTyped DEF Cancel, TypeOK, Instances, SomebodyArrived
<1>8. CASE Arm
  <2>1. /\ listener \in Clients \cup {"left"} /\ server' = "serve" /\ serving' = listener
        /\ listener' = "free" /\ served' = FALSE
    BY <1>8 DEF Arm, SomebodyArrived
  <2>2. served' \in BOOLEAN
    BY <2>1, Zenon
  <2>3. UNCHANGED <<failures, ends, bytes, rest, blocked>>
    BY <1>8 DEF Arm
  <2> QED BY <2>1, <2>2, <2>3 DEF TypeOK, Instances, SomebodyArrived
<1>9. CASE CreateFails
  <2>1. UNCHANGED <<serving, served, ends, rest, blocked>> /\ server' = "down" /\ listener' = "none"
    BY <1>9 DEF CreateFails
  <2>2. failures' \in 0..MaxFailures
    BY <1>9 DEF CreateFails, TypeOK
  <2>3. Discard({listener})
    BY <1>9 DEF CreateFails
  <2> QED BY <2>1, <2>2, <2>3, DiscardTyped DEF TypeOK, Instances, SomebodyArrived
<1>10. CASE CheckStop
  BY <1>10 DEF CheckStop, TypeOK, SomebodyArrived
<1>11. CASE DataArrives
  BY <1>11 DEF DataArrives, TypeOK, SomebodyArrived
<1>12. CASE IdleOut
  BY <1>12 DEF IdleOut, TypeOK, SomebodyArrived
<1>13. CASE PeerLeft
  BY <1>13 DEF PeerLeft, TypeOK, SomebodyArrived
<1>14. CASE Answer
  <2>1. server' \in {"drop", "serve"}
    BY <1>14, Zenon DEF Answer
  <2> QED BY <1>14, <2>1, AnswerTyped DEF SomebodyArrived
<1>15. CASE Drop
  <2>1. UNCHANGED <<listener, served, failures, ends, rest, blocked>>
    BY <1>15 DEF Drop
  <2> QED BY <1>15, <2>1, DiscardTyped DEF Drop, TypeOK, SomebodyArrived
<1> QED
  BY <1>1, <1>2, <1>3, <1>4, <1>5, <1>6, <1>7, <1>8, <1>9, <1>10, <1>11, <1>12, <1>13, <1>14,
     <1>15 DEF Server, AcceptLoop, Connection

-----------------------------------------------------------------------------
(* The programs.                                                             *)

\* Who connects or leaves changes only what listens and who is served.
LEMMA ConnectStep ==
  ASSUME IInv, NEW c \in Clients, Begin(c) \/ Connect(c) \/ GiveUp(c)
  PROVE  IInv' /\ UNCHANGED <<server, mode>>
<1> USE DEF IInv
<1>1. PICK place \in {"connecting", "open", "idle"} :
        client[c] \in {"idle", "connecting"} /\ client' = [client EXCEPT ![c] = place]
  BY DEF Begin, Connect, GiveUp, Goto
<1>2. UNCHANGED <<said, bytes, rest, blocked, server, serving, served, failures>>
  BY DEF Begin, Connect, GiveUp, pipe
<1>3. listener' \in {listener, c}
  BY DEF Begin, Connect, GiveUp, pipe
<1>4. client' \in [Clients -> {"idle", "connecting", "open", "writing", "waiting", "gone"}]
  BY <1>1 DEF TypeOK
<1>5. TypeOK'
  BY <1>2, <1>3, <1>4 DEF TypeOK, Instances, bytes, rest
<1>6. SomebodyArrived'
  BY <1>2, <1>3 DEF SomebodyArrived
<1>7. BlockIsBacked'
  <2>1. blocked => c # Helper /\ client'[Helper] = client[Helper]
    BY <1>1, <1>4 DEF BlockIsBacked, TypeOK, Clients
  <2> QED BY <1>2, <2>1 DEF BlockIsBacked
<1> QED BY <1>2, <1>5, <1>6, <1>7 DEF rest

\* Who speaks or reads moves only itself and the bytes of its connection; the
\* block is raised by nothing but a push, which the helper goes on to wait for.
LEMMA SpeakStep ==
  ASSUME IInv, NEW c \in Clients, Speak(c)
  PROVE  IInv' /\ UNCHANGED <<pipe, mode>>
<1> USE DEF IInv
<1>1. /\ client[c] \in {"open", "writing"}
      /\ client' = [client EXCEPT ![c] = IF client[c] = "open" THEN "writing" ELSE "waiting"]
  BY DEF Speak, StartFrame, FinishFrame, Goto
<1>2. UNCHANGED <<pipe, outbox, rest, blocked>>
  BY DEF Speak, StartFrame, FinishFrame
<1>3. client' \in [Clients -> {"idle", "connecting", "open", "writing", "waiting", "gone"}]
  BY <1>1 DEF TypeOK
<1>4. said' \in [Clients -> {"nothing", "hello", "request"}]
  BY DEF Speak, StartFrame, FinishFrame, TypeOK
<1>5. PICK m : inbox' = [inbox EXCEPT ![c] = m] /\ (m = Partial \/ \E op \in Ops : m = Request(op))
  <2>1. "hello" \in Ops /\ "subscribe" \in Ops
    BY DEF Ops
  <2> QED BY <2>1 DEF Speak, StartFrame, FinishFrame
<1>6. inbox' \in [Clients -> {Nothing, Partial} \cup {Request(op) : op \in Ops}]
  BY <1>5, Bytes DEF TypeOK
<1>7. TypeOK'
  BY <1>2, <1>3, <1>4, <1>6 DEF TypeOK, pipe, rest
<1>8. SomebodyArrived'
  BY <1>2 DEF SomebodyArrived, pipe
<1>9. BlockIsBacked'
  <2>1. blocked => c # Helper
    BY <1>1 DEF BlockIsBacked
  <2>2. c # Helper => client'[Helper] = client[Helper] /\ said'[Helper] = said[Helper]
    BY <1>1 DEF Speak, StartFrame, FinishFrame, TypeOK, Clients
  <2> QED BY <1>2, <2>1, <2>2 DEF BlockIsBacked
<1> QED BY <1>2, <1>7, <1>8, <1>9 DEF rest

\* Whoever is not the helper leaves without touching the block.
LEMMA LeaveStep ==
  ASSUME IInv, NEW c \in Clients, Leave(c), NEW place \in {"idle", "gone"}, Goto(c, place),
         UNCHANGED <<mode, helperConnected, shutdown>>, deaths' \in 0..MaxDeaths,
         blocked' = (blocked /\ c # Helper)
  PROVE  IInv' /\ UNCHANGED <<server, mode>>
<1> USE DEF IInv
<1>1. client' \in [Clients -> {"idle", "connecting", "open", "writing", "waiting", "gone"}]
  BY DEF Goto, TypeOK
<1>2. UNCHANGED <<server, served, failures>>
  BY DEF Leave
<1>3. blocked' \in BOOLEAN
  BY Zenon
<1>4. TypeOK'
  BY <1>1, <1>2, <1>3, LeaveTyped DEF TypeOK
<1>5. SomebodyArrived'
  BY <1>2 DEF SomebodyArrived, Leave
<1>6. BlockIsBacked'
  <2>1. blocked' => blocked /\ c # Helper
    OBVIOUS
  <2>2. c # Helper => client'[Helper] = client[Helper] /\ said'[Helper] = said[Helper]
    BY DEF Goto, Leave, TypeOK, Clients
  <2> QED BY <2>1, <2>2 DEF BlockIsBacked
<1> QED BY <1>2, <1>4, <1>5, <1>6

\* Reading an answer, finding the connection lost, or being killed.
LEMMA ListenStep ==
  ASSUME IInv, NEW c \in Clients, Listens(c) \/ Quit(c)
  PROVE  IInv' /\ UNCHANGED <<server, mode>>
<1> USE DEF IInv
<1>1. deaths \in 0..MaxDeaths /\ blocked \in BOOLEAN
  BY DEF TypeOK
<1>2. CASE ReadResponse(c)
  <2>1. c # Helper
    BY <1>2 DEF ReadResponse
  <2>2. UNCHANGED <<rest, blocked>>
    BY <1>2 DEF ReadResponse
  <2>3. CASE Goto(c, "idle") /\ Leave(c)
    <3>1. blocked' = (blocked /\ c # Helper)
      BY <1>1, <2>1, <2>2
    <3>2. deaths' \in 0..MaxDeaths /\ UNCHANGED <<mode, helperConnected, shutdown>>
      BY <1>1, <2>2 DEF rest
    <3> QED BY <2>3, <3>1, <3>2, LeaveStep
  <2>4. CASE Goto(c, "open") /\ outbox' = [outbox EXCEPT ![c] = Nothing] /\ UNCHANGED <<pipe, inbox, said>>
    <3>1. outbox' \in [Clients -> {Nothing} \cup Answers]
      BY <2>4, Bytes DEF TypeOK
    <3>2. client' \in [Clients -> {"idle", "connecting", "open", "writing", "waiting", "gone"}]
      BY <2>4 DEF Goto, TypeOK
    <3>3. TypeOK' /\ SomebodyArrived'
      BY <2>2, <2>4, <3>1, <3>2 DEF TypeOK, SomebodyArrived, pipe, rest
    <3>4. client'[Helper] = client[Helper]
      BY <2>1, <2>4 DEF Goto, TypeOK, Clients
    <3>5. BlockIsBacked'
      BY <2>2, <2>4, <3>4 DEF BlockIsBacked
    <3> QED BY <2>2, <2>4, <3>3, <3>5 DEF pipe, rest
  <2> QED BY <1>2, <2>3, <2>4 DEF ReadResponse
<1>3. CASE ReadHello
  <2>1. outbox' \in [Clients -> {Nothing} \cup Answers]
    BY <1>3, Bytes DEF ReadHello, TypeOK
  <2>2. client' \in [Clients -> {"idle", "connecting", "open", "writing", "waiting", "gone"}]
    BY <1>3 DEF ReadHello, Goto, TypeOK
  <2>3. UNCHANGED <<pipe, said, inbox, rest, blocked>> /\ said[Helper] = "hello"
    BY <1>3 DEF ReadHello
  <2>4. TypeOK' /\ SomebodyArrived'
    BY <2>1, <2>2, <2>3 DEF TypeOK, SomebodyArrived, pipe, rest
  <2>5. BlockIsBacked'
    BY <2>3 DEF BlockIsBacked
  <2> QED BY <2>3, <2>4, <2>5 DEF pipe, rest
<1>4. CASE ReadPush
  <2>1. outbox' \in [Clients -> {Nothing} \cup Answers]
    BY <1>4, Bytes DEF ReadPush, TypeOK
  <2>2. blocked' \in BOOLEAN
    BY <1>1, <1>4, Zenon DEF ReadPush, ApplyState
  <2>3. UNCHANGED <<pipe, client, said, inbox, rest>>
    BY <1>4 DEF ReadPush
  <2>4. TypeOK' /\ SomebodyArrived'
    BY <2>1, <2>2, <2>3 DEF TypeOK, SomebodyArrived, pipe, rest
  <2>5. client[Helper] = "waiting" /\ said[Helper] = "request"
    BY <1>4 DEF ReadPush
  <2>6. BlockIsBacked'
    BY <2>3, <2>5 DEF BlockIsBacked
  <2> QED BY <2>3, <2>4, <2>6 DEF pipe, rest
<1>5. CASE Lost(c)
  <2>1. UNCHANGED <<pipe, bytes, rest>>
    BY <1>5 DEF Lost
  <2>2. client' = [client EXCEPT ![c] = "idle"] /\ said' = [said EXCEPT ![c] = "nothing"]
    BY <1>5 DEF Lost, Goto
  <2>3. blocked' = (blocked /\ c # Helper)
    BY <1>5 DEF Lost, Released
  <2>4. blocked' \in BOOLEAN
    BY <2>3, Zenon
  <2>5. TypeOK' /\ SomebodyArrived'
    BY <2>1, <2>2, <2>4 DEF TypeOK, SomebodyArrived, pipe, rest, bytes
  <2>6. blocked' => blocked /\ c # Helper
    BY <2>3
  <2>7. c # Helper => client'[Helper] = client[Helper] /\ said'[Helper] = said[Helper]
    BY <2>2 DEF TypeOK, Clients
  <2>8. BlockIsBacked'
    BY <2>6, <2>7 DEF BlockIsBacked
  <2> QED BY <2>1, <2>5, <2>8 DEF pipe, rest
<1>6. CASE Quit(c)
  <2>1. c # Helper /\ Goto(c, "idle") /\ Leave(c) /\ UNCHANGED <<rest, blocked>>
    BY <1>6 DEF Quit
  <2>2. blocked' = (blocked /\ c # Helper)
    BY <1>1, <2>1
  <2>3. deaths' \in 0..MaxDeaths /\ UNCHANGED <<mode, helperConnected, shutdown>>
    BY <1>1, <2>1 DEF rest
  <2> QED BY <2>1, <2>2, <2>3, LeaveStep
<1> QED BY <1>2, <1>3, <1>4, <1>5, <1>6 DEF Listens

\* The helper dies and is started again.
LEMMA HelperStep ==
  ASSUME IInv, HelperDies \/ HelperStarts
  PROVE  IInv' /\ UNCHANGED <<server, mode>>
<1> USE DEF IInv
<1>1. CASE HelperDies
  <2>1. Helper \in Clients /\ Leave(Helper) /\ Goto(Helper, "gone") /\ blocked' = FALSE
        /\ UNCHANGED <<mode, helperConnected, shutdown>>
    BY <1>1 DEF HelperDies, Clients
  <2>2. deaths' \in 0..MaxDeaths
    BY <1>1 DEF HelperDies, TypeOK
  <2>3. blocked' = (blocked /\ Helper # Helper)
    BY <2>1
  <2> QED BY <2>1, <2>2, <2>3, LeaveStep
<1>2. CASE HelperStarts
  <2>1. UNCHANGED <<pipe, said, bytes, rest, blocked>> /\ client[Helper] = "gone"
        /\ client' = [client EXCEPT ![Helper] = "idle"]
    BY <1>2 DEF HelperStarts, Goto
  <2>2. client' \in [Clients -> {"idle", "connecting", "open", "writing", "waiting", "gone"}]
    BY <2>1 DEF TypeOK
  <2>3. TypeOK'
    BY <2>1, <2>2 DEF TypeOK, pipe, rest, bytes
  <2>4. SomebodyArrived'
    BY <2>1 DEF SomebodyArrived, pipe
  <2>5. BlockIsBacked'
    BY <2>1 DEF BlockIsBacked
  <2> QED BY <2>1, <2>3, <2>4, <2>5 DEF pipe, rest
<1> QED BY <1>1, <1>2

\* The rest of the service touches neither the pipe nor the block.
LEMMA ServiceStep ==
  ASSUME IInv, SetMode \/ RequestStop \/ UNCHANGED vars
  PROVE  IInv' /\ UNCHANGED server
<1> USE DEF IInv
<1>1. UNCHANGED <<pipe, ends, bytes, helperConnected, deaths, blocked>>
  BY DEF SetMode, RequestStop, vars, rest
<1>2. mode' \in Modes \cup {"MAINTENANCE"}
  BY DEF SetMode, RequestStop, vars, rest, TypeOK
<1>3. shutdown' \in BOOLEAN
  <2>1. shutdown' = shutdown \/ shutdown' = TRUE
    BY DEF SetMode, RequestStop, vars, rest
  <2> QED BY <2>1, Zenon DEF TypeOK
<1>4. TypeOK' /\ SomebodyArrived' /\ BlockIsBacked'
  BY <1>1, <1>2, <1>3 DEF TypeOK, SomebodyArrived, BlockIsBacked, pipe, ends, bytes
<1> QED BY <1>1, <1>4 DEF pipe

-----------------------------------------------------------------------------
(* The theorems.                                                             *)

LEMMA InvInit == Init => IInv
BY TypeInit DEF Init, IInv, SomebodyArrived, BlockIsBacked

LEMMA InvNext ==
  ASSUME IInv, [Next]_vars
  PROVE  IInv'
<1>1. CASE Server \/ CreateFails
  <2>1. TypeOK' /\ SomebodyArrived' /\ UNCHANGED <<client, said, blocked>>
    BY <1>1, ServerStep DEF IInv
  <2> QED BY <2>1 DEF IInv, BlockIsBacked
<1>2. CASE \E c \in Clients : Begin(c) \/ Connect(c) \/ GiveUp(c) \/ Speak(c) \/ Listens(c) \/ Quit(c)
  <2>1. PICK c \in Clients : Begin(c) \/ Connect(c) \/ GiveUp(c) \/ Speak(c) \/ Listens(c) \/ Quit(c)
    BY <1>2
  <2>2. CASE Speak(c)
    BY <2>2, SpeakStep DEF pipe
  <2> QED BY <2>1, <2>2, ConnectStep, ListenStep
<1>3. CASE HelperDies \/ HelperStarts
  BY <1>3, HelperStep
<1>4. CASE SetMode \/ RequestStop \/ UNCHANGED vars
  BY <1>4, ServiceStep
<1> QED BY <1>1, <1>2, <1>3, <1>4 DEF Next

\* The invariant, for any number of programs and whatever they ask.
THEOREM Inductive == Spec => []IInv
<1>1. IInv /\ [Next]_vars => IInv'
  BY InvNext
<1> QED BY InvInit, <1>1, PTL DEF Spec

\* The shutdown block never outlives the connection over which the helper would
\* be told to let go.
THEOREM BlocksAreBacked == Spec => []BlockIsBacked
<1>1. IInv => BlockIsBacked
  BY DEF IInv
<1> QED BY <1>1, Inductive, PTL

-----------------------------------------------------------------------------
(* The copies of the tray program.                                           *)

\* What fails is counted, and there is room for it.
LEMMA RoomForFaults ==
  ASSUME PanelTypeOK, MayFail
  PROVE  broken + 1 \in 0..MaxFaults /\ mishaps + 1 \in 0..MaxFaults
<1>1. IsFiniteSet(early) /\ IsFiniteSet(blind) /\ IsFiniteSet(killed)
  BY PanelAssumption, FS_Subset DEF PanelTypeOK
<1>2. Cardinality(early) \in Nat /\ Cardinality(blind) \in Nat /\ Cardinality(killed) \in Nat
  BY <1>1, FS_CardinalityType
<1>3. broken \in Nat /\ mishaps \in Nat /\ MaxFaults \in Nat
  BY PanelAssumption DEF PanelTypeOK
<1>4. broken < MaxFaults /\ mishaps < MaxFaults
  BY <1>2, <1>3 DEF MayFail, FaultCount
<1> QED BY <1>3, <1>4

\* A copy that has not come to start a helper no longer counts when it has.
LEMMA OneFewerToStart ==
  ASSUME PanelTypeOK, NEW p \in MayStartHelper, MayStartHelper' = MayStartHelper \ {p}
  PROVE  Cardinality(MayStartHelper') + 1 = Cardinality(MayStartHelper)
<1>1. IsFiniteSet(MayStartHelper)
  BY PanelAssumption, FS_Subset DEF MayStartHelper
<1>2. Cardinality(MayStartHelper) \in Nat
  BY <1>1, FS_CardinalityType
<1>3. Cardinality(MayStartHelper \ {p}) = Cardinality(MayStartHelper) - 1
  BY <1>1, FS_RemoveElement
<1> QED BY <1>2, <1>3

LEMMA NoMoreToStart ==
  ASSUME PanelTypeOK, MayStartHelper' \subseteq MayStartHelper
  PROVE  /\ Cardinality(MayStartHelper') <= Cardinality(MayStartHelper)
         /\ Cardinality(MayStartHelper) \in Nat /\ Cardinality(MayStartHelper') \in Nat
<1>1. IsFiniteSet(MayStartHelper)
  BY PanelAssumption, FS_Subset DEF MayStartHelper
<1>2. IsFiniteSet(MayStartHelper')
  BY <1>1, FS_Subset
<1> QED BY <1>1, <1>2, FS_Subset, FS_CardinalityType

\* A copy that spawns a helper cannot do so again; no other step starts one.
LEMMA HelpersStep == PanelInv /\ [PanelNext]_panelVars => HelpersAreCounted'
<1> SUFFICES ASSUME PanelInv, [PanelNext]_panelVars PROVE HelpersAreCounted'
  OBVIOUS
<1> USE DEF PanelInv
<1>0. helpers \in Nat /\ Cardinality(Copies) \in Nat
  BY PanelAssumption, FS_CardinalityType DEF PanelTypeOK
<1>1. ASSUME NEW p \in Copies, SpawnHelper(p) PROVE HelpersAreCounted'
  <2>1. p \in MayStartHelper /\ MayStartHelper' = MayStartHelper \ {p} /\ helpers' = helpers + 1
    BY <1>1 DEF SpawnHelper, MayStartHelper, PanelTypeOK
  <2>2. Cardinality(MayStartHelper') + 1 = Cardinality(MayStartHelper)
    BY <2>1, OneFewerToStart
  <2>3. Cardinality(MayStartHelper') \in Nat /\ Cardinality(MayStartHelper) \in Nat
    BY <2>1, NoMoreToStart
  <2> QED BY <1>0, <2>1, <2>2, <2>3 DEF HelpersAreCounted
<1>2. ASSUME helpers' <= helpers, helpers' \in Nat, MayStartHelper' \subseteq MayStartHelper
      PROVE  HelpersAreCounted'
  <2>1. /\ Cardinality(MayStartHelper') <= Cardinality(MayStartHelper)
        /\ Cardinality(MayStartHelper) \in Nat /\ Cardinality(MayStartHelper') \in Nat
    BY <1>2, NoMoreToStart
  <2> QED BY <1>0, <1>2, <2>1 DEF HelpersAreCounted
<1>3. CASE HelperEnds
  BY <1>0, <1>2, <1>3 DEF HelperEnds, MayStartHelper
<1>4. CASE RemoveEntry \/ UNCHANGED panelVars
  BY <1>0, <1>2, <1>4 DEF RemoveEntry, MayStartHelper, panelVars, program, session
<1>5. ASSUME NEW p \in Copies, Step(p) PROVE HelpersAreCounted'
  <2>1. CASE SpawnHelper(p)
    BY <2>1, <1>1
  <2>2. CASE \/ Exit(p) \/ Kill(p) \/ FindHelper(p) \/ MissHelper(p)
             \/ OverlookHelper(p) \/ SpawnFails(p) \/ Attach(p) \/ RuntimeEnds(p)
    <3>1. helpers' = helpers /\ MayStartHelper' \subseteq MayStartHelper
      BY <2>2 DEF Exit, Kill, FindHelper, MissHelper, OverlookHelper, SpawnFails, Attach,
         RuntimeEnds, MayStartHelper, PanelTypeOK
    <3> QED BY <3>1, <1>0, <1>2
  <2>3. CASE UNCHANGED <<runtime, helpers>>
    BY <2>3, <1>0, <1>2 DEF MayStartHelper
  <2> QED BY <1>5, <2>1, <2>2, <2>3 DEF Step, session, Launch, Check, CheckBlindly, AwaitExit,
        AwaitTooLong, Ask, Consent, Decline, ExitApp, SetAutostart, ToggleFromTray, SetEnabled,
        SetEnabledHalf
<1> QED BY <1>3, <1>4, <1>5 DEF PanelNext

\* The variables keep their types.
LEMMA PanelTypeStep == PanelInv /\ [PanelNext]_panelVars => PanelTypeOK'
<1> SUFFICES ASSUME PanelInv, [PanelNext]_panelVars PROVE PanelTypeOK'
  OBVIOUS
<1> USE DEF PanelInv, PanelTypeOK
<1>1. helpers' \in Nat => helpers' \in 0..(Cardinality(Copies) + 1)
  <2>1. HelpersAreCounted'
    BY HelpersStep
  <2>2. IsFiniteSet(MayStartHelper')
    BY PanelAssumption, FS_Subset DEF MayStartHelper
  <2>3. Cardinality(MayStartHelper') \in Nat /\ Cardinality(Copies) \in Nat
    BY <2>2, PanelAssumption, FS_CardinalityType
  <2> QED BY <2>1, <2>3 DEF HelpersAreCounted
<1>2. CASE HelperEnds
  <2>1. helpers' \in Nat /\ mishaps' \in 0..MaxFaults
    BY <1>2, RoomForFaults, PanelAssumption, FS_CardinalityType DEF HelperEnds
  <2> QED BY <1>1, <1>2, <2>1 DEF HelperEnds, program
<1>3. CASE RemoveEntry
  BY <1>3, RoomForFaults DEF RemoveEntry, program, session
<1>4. ASSUME NEW p \in Copies, Step(p) PROVE PanelTypeOK'
  <2>1. CASE Launch(p) \/ Check(p) \/ CheckBlindly(p) \/ AwaitExit(p) \/ AwaitTooLong(p)
    BY <2>1, PanelAssumption DEF Launch, Check, CheckBlindly, AwaitExit, AwaitTooLong, session, faults
  <2>2. CASE FindHelper(p) \/ MissHelper(p) \/ SpawnHelper(p) \/ Attach(p) \/ RuntimeEnds(p)
    BY <2>2, <1>1 DEF FindHelper, MissHelper, SpawnHelper, Attach, RuntimeEnds, program, faults
  <2>3. CASE Consent(p)
    BY <2>3, Zenon, SMT DEF Consent, session, faults
  <2>4. CASE Ask(p) \/ Decline(p) \/ ExitApp(p)
    BY <2>4 DEF Ask, Decline, ExitApp, Free, session, faults
  <2>5. CASE Exit(p)
    BY <2>5 DEF Exit, Free, faults
  <2>6. CASE Kill(p)
    BY <2>6 DEF Kill, Alive
  <2>7. CASE SetAutostart(p) \/ ToggleFromTray(p)
    <3>1. entries' \subseteq Entries
      BY <2>7 DEF SetAutostart, ToggleFromTray, SetEnabled, Enabled, Disabled, Entries
    <3> QED BY <2>7, <3>1 DEF SetAutostart, ToggleFromTray, SetEnabled, program, session, faults
  <2>8. CASE SetEnabledHalf(p)
    BY <2>8, RoomForFaults DEF SetEnabledHalf, Entries, program, session
  <2>9. CASE OverlookHelper(p) \/ SpawnFails(p)
    BY <2>9, RoomForFaults DEF OverlookHelper, SpawnFails, program
  <2> QED BY <1>4, <2>1, <2>2, <2>3, <2>4, <2>5, <2>6, <2>7, <2>8, <2>9 DEF Step
<1>5. CASE UNCHANGED panelVars
  BY <1>5 DEF panelVars, program, session, faults
<1> QED BY <1>2, <1>3, <1>4, <1>5 DEF PanelNext
\* Who was started by whom is settled when a copy starts.
LEMMA OriginsStep == PanelInv /\ [PanelNext]_panelVars => OriginsAreSound'
<1> SUFFICES ASSUME PanelInv, [PanelNext]_panelVars PROVE OriginsAreSound'
  OBVIOUS
<1> USE DEF PanelInv, OriginsAreSound
<1>1. ASSUME NEW p \in Copies, Consent(p) PROVE OriginsAreSound'
  <2>1. PICK q \in Copies :
          /\ phase[q] = "absent" /\ phase' = [phase EXCEPT ![q] = "waiting"]
          /\ after' = [after EXCEPT ![q] = p] /\ elevated' = [elevated EXCEPT ![q] = TRUE]
    BY <1>1 DEF Consent
  <2>2. p \in asking /\ phase[p] = "up" /\ asking' = asking \ {p}
    BY <1>1 DEF Consent
  <2>3. \A r \in asking : r # q
    BY <2>1 DEF PanelTypeOK
  <2> QED BY <2>1, <2>2, <2>3, PanelAssumption DEF PanelTypeOK
<1>2. ASSUME NEW p \in Copies, Step(p), ~Consent(p) PROVE OriginsAreSound'
  <2>1. CASE Launch(p)
    BY <2>1, PanelAssumption DEF Launch, PanelTypeOK
  <2>2. CASE Check(p) \/ CheckBlindly(p) \/ AwaitExit(p) \/ AwaitTooLong(p)
    BY <2>2, PanelAssumption DEF Check, CheckBlindly, AwaitExit, AwaitTooLong, PanelTypeOK
  <2>3. CASE Ask(p) \/ Decline(p) \/ Exit(p) \/ Kill(p)
    BY <2>3, PanelAssumption DEF Ask, Decline, Exit, Kill, Free, Alive, PanelTypeOK
  <2>4. CASE UNCHANGED <<phase, after, elevated, asking>>
    BY <2>4
  <2> QED BY <1>2, <2>1, <2>2, <2>3, <2>4 DEF Step, FindHelper, MissHelper, OverlookHelper,
        SpawnHelper, SpawnFails, Attach, RuntimeEnds, ExitApp, SetAutostart, ToggleFromTray, SetEnabled, SetEnabledHalf, program
<1>3. CASE HelperEnds \/ RemoveEntry \/ UNCHANGED panelVars
  BY <1>3 DEF HelperEnds, RemoveEntry, panelVars, program
<1> QED BY <1>1, <1>2, <1>3 DEF PanelNext

\* A copy that passes its check is alone; one that a consent starts has only the
\* copy that it replaces and those replacing the same one beside it.
LEMMA FamiliesStep == PanelInv /\ [PanelNext]_panelVars => FamiliesAreSmall'
<1> SUFFICES ASSUME PanelInv, [PanelNext]_panelVars, early' = {}, blind' = {}
             PROVE  /\ \A p, q \in Copies :
                         (p # q /\ Settled(p)' /\ Settled(q)')
                           => Siblings(p, q)' \/ after'[p] = q \/ after'[q] = p
                    /\ \A p \in Copies :
                         (phase'[p] = "up" /\ after'[p] \in Copies) => ~Alive(after[p])'
  BY DEF FamiliesAreSmall
<1> USE DEF Settled, Siblings, Alive
<1>1. early = {} /\ blind = {}
  BY DEF PanelNext, Step, panelVars, faults, Launch, Check, CheckBlindly, AwaitExit, AwaitTooLong,
     FindHelper, MissHelper, OverlookHelper, SpawnHelper, SpawnFails, Attach, RuntimeEnds, Ask,
     Consent, Decline, ExitApp, Exit, Kill, SetAutostart, ToggleFromTray, SetEnabled, SetEnabledHalf, HelperEnds, RemoveEntry
<1>2. /\ \A p, q \in Copies :
            (p # q /\ Settled(p) /\ Settled(q)) => Siblings(p, q) \/ after[p] = q \/ after[q] = p
      /\ \A p \in Copies : (phase[p] = "up" /\ after[p] \in Copies) => ~Alive(after[p])
  BY <1>1 DEF PanelInv, FamiliesAreSmall
<1>3. PanelTypeOK /\ OriginsAreSound /\ "user" \notin Copies
  BY PanelAssumption DEF PanelInv
<1>4. ASSUME NEW p \in Copies, Launch(p) PROVE FamiliesAreSmall'
  BY <1>2, <1>3, <1>4 DEF Launch, PanelTypeOK, OriginsAreSound, FamiliesAreSmall
<1>5. ASSUME NEW p \in Copies, Check(p) PROVE FamiliesAreSmall'
  <2>1. CASE OtherInstance(p)
    BY <1>2, <1>3, <1>5, <2>1 DEF Check, PanelTypeOK, OriginsAreSound, FamiliesAreSmall
  <2>2. CASE ~OtherInstance(p)
    <3>1. \A q \in Copies \ {p} : ~Alive(q) /\ phase'[q] = phase[q]
      BY <1>5, <2>2 DEF Check, PanelTypeOK, OtherInstance
    <3>2. after' = after /\ after[p] = "user"
      BY <1>3, <1>5 DEF Check, OriginsAreSound
    <3> QED BY <1>3, <3>1, <3>2 DEF PanelTypeOK, FamiliesAreSmall
  <2> QED BY <2>1, <2>2
<1>6. ASSUME NEW p \in Copies, AwaitExit(p) PROVE FamiliesAreSmall'
  BY <1>2, <1>3, <1>6 DEF AwaitExit, PanelTypeOK, OriginsAreSound, FamiliesAreSmall
<1>7. ASSUME NEW p \in Copies, Consent(p) PROVE FamiliesAreSmall'
  <2>1. PICK q \in Copies :
          /\ phase[q] = "absent" /\ phase' = [phase EXCEPT ![q] = "waiting"]
          /\ after' = [after EXCEPT ![q] = p]
    BY <1>7 DEF Consent
  <2>2. phase[p] = "up" /\ ~elevated[p] /\ after[p] = "user" /\ p # q
    BY <1>3, <1>7, <2>1 DEF Consent, OriginsAreSound, PanelTypeOK
  <2>3. \A r \in Copies : r # p /\ Settled(r) => after[r] = p
    BY <1>2, <1>3, <2>2
  <2>4. \A r \in Copies : after[r] # q
    BY <1>3, <2>1 DEF OriginsAreSound, PanelTypeOK
  <2>5. \A r \in Copies \ {q} : after'[r] = after[r] /\ phase'[r] = phase[r]
    BY <1>3, <2>1 DEF PanelTypeOK
  <2>6. after'[q] = p /\ phase'[q] = "waiting"
    BY <1>3, <2>1 DEF PanelTypeOK
  <2> QED BY <1>2, <1>3, <2>2, <2>3, <2>4, <2>5, <2>6 DEF FamiliesAreSmall
<1>8. ASSUME NEW p \in Copies, Exit(p) \/ Kill(p) PROVE FamiliesAreSmall'
  <2>1. phase' = [phase EXCEPT ![p] = "gone"] /\ after' = after
    BY <1>8 DEF Exit, Kill
  <2> QED BY <1>2, <1>3, <2>1 DEF PanelTypeOK, FamiliesAreSmall
<1>9. CASE UNCHANGED <<phase, after>>
  BY <1>2, <1>9
<1>10. ASSUME NEW p \in Copies, Step(p) PROVE FamiliesAreSmall' \/ UNCHANGED <<phase, after>>
  <2>1. ~CheckBlindly(p) /\ ~AwaitTooLong(p)
    BY <1>1 DEF CheckBlindly, AwaitTooLong
  <2> QED BY <1>4, <1>5, <1>6, <1>7, <1>8, <1>10, <2>1 DEF Step, FindHelper, MissHelper, OverlookHelper,
        SpawnHelper, SpawnFails,
        Attach, RuntimeEnds, Ask, Decline, ExitApp, SetAutostart, ToggleFromTray, SetEnabled,
        SetEnabledHalf, program
<1> QED BY <1>9, <1>10 DEF PanelNext, HelperEnds, RemoveEntry, panelVars, program, FamiliesAreSmall

\* The helper's entry is written after Guardian's and deleted with it.
LEMMA EntriesStep == PanelInv /\ [PanelNext]_panelVars => HelperIsNotOrphaned'
<1> SUFFICES ASSUME PanelInv, [PanelNext]_panelVars PROVE HelperIsNotOrphaned'
  OBVIOUS
<1> USE DEF PanelInv, HelperIsNotOrphaned
<1>1. broken \in Nat
  BY DEF PanelTypeOK
<1>2. ASSUME broken' = broken + 1 PROVE HelperIsNotOrphaned'
  BY <1>1, <1>2
<1>3. CASE \E p \in Copies : SetAutostart(p) \/ ToggleFromTray(p)
  BY <1>3 DEF SetAutostart, ToggleFromTray, SetEnabled, Enabled, Disabled, Entries, faults
<1>4. CASE UNCHANGED <<entries, broken>>
  BY <1>4
<1> QED
  BY <1>2, <1>3, <1>4 DEF PanelNext, Step, panelVars, faults, Launch, Check, CheckBlindly, AwaitExit,
     AwaitTooLong, FindHelper, MissHelper, OverlookHelper, SpawnHelper, SpawnFails, Attach,
     RuntimeEnds, Ask, Consent, Decline,
     ExitApp, Exit, Kill, SetEnabledHalf, HelperEnds, RemoveEntry

LEMMA PanelInvInit == PanelInit => PanelInv
<1> SUFFICES ASSUME PanelInit PROVE PanelInv
  OBVIOUS
<1> USE DEF PanelInit
<1>1. MayStartHelper = Copies /\ Cardinality(Copies) \in Nat
  BY PanelAssumption, FS_CardinalityType DEF MayStartHelper
<1>2. PanelTypeOK
  BY <1>1, PanelAssumption DEF PanelTypeOK
<1>3. OriginsAreSound /\ HelpersAreCounted
  BY <1>1, PanelAssumption DEF OriginsAreSound, HelpersAreCounted
<1> QED BY <1>2, <1>3 DEF PanelInv, FamiliesAreSmall, HelperIsNotOrphaned, Settled

\* Families stay small, for any number of copies and faults.
THEOREM PanelInductive == PanelSpec => []PanelInv
<1>1. PanelInv /\ [PanelNext]_panelVars => PanelInv'
  BY PanelTypeStep, OriginsStep, FamiliesStep, HelpersStep, EntriesStep DEF PanelInv
<1> QED BY <1>1, PanelInvInit, PTL DEF PanelSpec

\* With no wait given up and no listing failed, copies that host the runtime
\* together were started by consents given to the same copy; and start-up at logon
\* is not left with the helper's entry alone.
THEOREM CopiesStaySafe == PanelSpec => []CopiesAreSafe
<1>1. PanelInv => CopiesAreSafe
  <2>1. PanelInv => RivalsAreSiblings
    BY PanelAssumption DEF PanelInv, PanelTypeOK, FamiliesAreSmall, RivalsAreSiblings, Hosts, Alive, Settled,
       Siblings
  <2> QED BY <2>1 DEF PanelInv, CopiesAreSafe
<1> QED BY <1>1, PanelInductive, PTL
=============================================================================
