------------------------------ MODULE Session ------------------------------
(***************************************************************************)
(* The named pipe of the service, the programs that call it, and the       *)
(* session helper that holds the interactive session's shutdown block.     *)
(* The server serves one connection at a time and keeps a second instance  *)
(* of the pipe listening; a frame is two writes, so a reader can see half  *)
(* of one; an instance that is disconnected takes what lies unread in it.  *)
(***************************************************************************)
EXTENDS Naturals

CONSTANTS
    Callers,     \* programs that connect, ask one thing and leave
    Helper,      \* the session helper
    Asks,        \* what callers ask, members of Ops
    Silent,      \* the programs that may hold a connection and say nothing
    Modes,       \* the protection modes the service goes through
    MaxFailures, \* bound on failures to create an instance of the pipe
    MaxDeaths    \* bound on the deaths of the helper

Clients == Callers \cup {Helper}

\* The requests, one for each way they are answered: "get_status" stands for
\* every read, "other_hello" for a handshake in another version, "malformed"
\* for a frame that does not decode and "oversized" for one over the limit.
Ops == {"hello", "other_hello", "get_status", "subscribe", "reconnect",
        "enter_maintenance", "update_config", "malformed", "oversized"}

ASSUME SessionAssumption ==
    /\ Helper \notin Callers
    /\ Clients \cap {"none", "closed", "free", "left"} = {}
    /\ Asks \subseteq Ops /\ Silent \subseteq Clients
    /\ Modes \subseteq {"NORMAL", "WORKING", "MAINTENANCE"} /\ Modes # {}
    /\ MaxFailures \in Nat /\ MaxDeaths \in Nat

VARIABLES
    server,   \* where IpcServer::run and serve_connection are
    listener, \* the instance that listens, or the client attached to it
    serving,  \* the client attached to the instance that is served
    served,   \* serve_connection's count is not 0
    client,   \* where each program is
    said,     \* what each has asked on its connection
    inbox,    \* the bytes of a request that lie unread in a connection
    outbox,   \* the response that lies unread in a connection
    mode,     \* ServiceState.mode
    helperConnected, \* ServiceState.helper_connected
    blocked,  \* ShutdownBlocker.active
    shutdown, \* the stop flag
    failures, \* bound: the instances that could not be created
    deaths    \* bound: the times the helper died

pipe  == <<server, listener, serving, served, failures>>
ends  == <<client, said>>
bytes == <<inbox, outbox>>
rest  == <<mode, helperConnected, shutdown, deaths>>
vars  == <<pipe, ends, bytes, rest, blocked>>

Nothing == [op |-> "nothing"]
Partial == [op |-> "partial"]
Request(op) == [op |-> op]

-----------------------------------------------------------------------------
(* What a request is answered with.                                          *)

Ranks == [system |-> 0, administrator |-> 1, interactive_user |-> 2]

\* The principal IpcServer::run gives every connection.
Caller == "interactive_user"

\* Request::required_principal
RequiredPrincipal(op) ==
    IF op \in {"enter_maintenance", "update_config"} THEN "administrator" ELSE "interactive_user"

\* is_authorized
IsAuthorized(op) == Ranks[Caller] <= Ranks[RequiredPrincipal(op)]

\* decode_request, the authorization, and ServiceHandler::handle.
Response(op) ==
    CASE op = "malformed"                     -> "invalid_request"
      [] op # "malformed" /\ ~IsAuthorized(op) -> "not_permitted"
      [] op = "hello"                          -> "hello"
      [] op = "other_hello"                    -> "version_mismatch"
      [] op \in {"get_status", "subscribe"}    -> "status"
      [] op = "update_config"                  -> "refused"
      [] OTHER                                 -> "ok"

\* The mode in the snapshot that answers a subscription; nobody else looks.
Pushed(op) == IF op = "subscribe" THEN mode ELSE "none"

IsError(response) ==
    response \in {"invalid_request", "not_permitted", "version_mismatch", "refused"}

-----------------------------------------------------------------------------
Init ==
    /\ server = "down" /\ listener = "none" /\ serving = "none" /\ served = FALSE
    /\ client = [c \in Clients |-> "idle"]
    /\ said = [c \in Clients |-> "nothing"]
    /\ inbox = [c \in Clients |-> Nothing] /\ outbox = [c \in Clients |-> Nothing]
    /\ mode \in Modes /\ helperConnected = FALSE /\ blocked = FALSE
    /\ shutdown = FALSE /\ failures = 0 /\ deaths = 0

Attached(c) == c \in {listener, serving}

\* DisconnectNamedPipe and CloseHandle discard what lies unread in an instance.
Discard(instances) ==
    /\ inbox' = [c \in Clients |-> IF c \in instances THEN Nothing ELSE inbox[c]]
    /\ outbox' = [c \in Clients |-> IF c \in instances THEN Nothing ELSE outbox[c]]

-----------------------------------------------------------------------------
(* The server: the accept loop.                                              *)

\* run creates the first instance, when the worker starts or is restarted.
Listen ==
    /\ server = "down" /\ ~shutdown
    /\ server' = "loop" /\ listener' = "free"
    /\ UNCHANGED <<serving, served, failures, ends, bytes, rest, blocked>>

\* The head of the loop sees the flag; the listening instance is dropped.  A
\* worker that is down is not restarted either.
StopListening ==
    /\ server \in {"loop", "down"} /\ shutdown
    /\ server' = "stopped" /\ listener' = "none"
    /\ Discard({listener})
    /\ UNCHANGED <<serving, served, failures, ends, rest, blocked>>

\* wait_for_client: ConnectNamedPipe starts the wait, or finds a client there.
Await ==
    /\ server = "loop" /\ ~shutdown /\ listener # "left"
    /\ IF listener \in Clients
         THEN server' = "arm" /\ UNCHANGED listener
         ELSE server' = "accept" /\ listener' = "free"
    /\ UNCHANGED <<serving, served, failures, ends, bytes, rest, blocked>>

\* Mutant of Recreate: the loop waits on the instance that has failed.
NeverRecreate ==
    /\ server = "loop" /\ ~shutdown /\ listener = "left"
    /\ UNCHANGED vars

\* wait_for_client: the client that was there has closed its end, which
\* ConnectNamedPipe reports as an error, and the listener is recreated.
Recreate ==
    /\ server = "loop" /\ ~shutdown /\ listener = "left"
    /\ listener' = "free"
    /\ UNCHANGED <<server, serving, served, failures, ends, bytes, rest, blocked>>

\* wait_for_client: the wait ends because a client has connected.
Accept ==
    /\ server = "accept" /\ listener # "free"
    /\ server' = "arm"
    /\ UNCHANGED <<listener, serving, served, failures, ends, bytes, rest, blocked>>

\* wait_for_client: the wait times out, and has_client finds nobody there.
FindNobody ==
    /\ server = "accept" /\ listener = "free"
    /\ server' = "cancel"
    /\ UNCHANGED <<listener, serving, served, failures, ends, bytes, rest, blocked>>

\* wait_for_client: DisconnectNamedPipe, which takes whoever has come since.
Cancel ==
    /\ server = "cancel"
    /\ server' = "loop" /\ listener' = "closed"
    /\ Discard({listener})
    /\ UNCHANGED <<serving, served, failures, ends, rest, blocked>>

\* run takes the accepted instance and creates the next one before it serves.
Arm ==
    /\ server = "arm"
    /\ server' = "serve" /\ serving' = listener /\ listener' = "free" /\ served' = FALSE
    /\ UNCHANGED <<failures, ends, bytes, rest, blocked>>

\* An instance cannot be created: run returns, and both instances are dropped.
CreateFails ==
    /\ failures < MaxFailures /\ failures' = failures + 1
    /\ \/ server = "arm"
       \/ server = "loop" /\ ~shutdown /\ listener = "left"
    /\ server' = "down" /\ listener' = "none"
    /\ Discard({listener})
    /\ UNCHANGED <<serving, served, ends, rest, blocked>>

-----------------------------------------------------------------------------
(* The server: serve_connection.                                             *)

CheckStop ==
    /\ server = "serve"
    /\ server' = IF shutdown THEN "drop" ELSE "wait"
    /\ UNCHANGED <<listener, serving, served, failures, ends, bytes, rest, blocked>>

\* wait_for_data finds that the client has said something, or part of it.
DataArrives ==
    /\ server = "wait" /\ serving \in Clients /\ inbox[serving] # Nothing
    /\ server' = "read"
    /\ UNCHANGED <<listener, serving, served, failures, ends, bytes, rest, blocked>>

\* wait_for_data times out: a client that was served is released, another one
\* is given a further window.
IdleOut ==
    /\ server = "wait" /\ serving \in Clients /\ inbox[serving] = Nothing
    /\ server' = IF served THEN "drop" ELSE "serve"
    /\ UNCHANGED <<listener, serving, served, failures, ends, bytes, rest, blocked>>

\* Mutant of PeerLeft: a frame that breaks off is waited for.
PeerLeftWaiting ==
    /\ server = "wait" /\ serving = "left"
    /\ server' = "drop"
    /\ UNCHANGED <<listener, serving, served, failures, ends, bytes, rest, blocked>>

\* wait_for_data or read_frame reports that the client has closed its end.
PeerLeft ==
    /\ server \in {"wait", "read"} /\ serving = "left"
    /\ server' = "drop"
    /\ UNCHANGED <<listener, serving, served, failures, ends, bytes, rest, blocked>>

\* read_frame has a whole frame: it is decoded, authorized, handled, and the
\* response is written.  A frame over the limit ends the connection.
Answer ==
    /\ server = "read" /\ serving \in Clients /\ inbox[serving] \notin {Nothing, Partial}
    /\ LET op == inbox[serving].op IN
       /\ inbox' = [inbox EXCEPT ![serving] = Nothing]
       /\ IF op = "oversized"
            THEN server' = "drop" /\ UNCHANGED <<served, outbox, mode, helperConnected>>
            ELSE /\ server' = "serve" /\ served' = TRUE
                 /\ outbox' = [outbox EXCEPT ![serving] =
                                 [op |-> op, response |-> Response(op), mode |-> Pushed(op)]]
                 /\ mode' = IF op = "enter_maintenance" /\ IsAuthorized(op)
                              THEN "MAINTENANCE" ELSE mode
                 /\ helperConnected' = (helperConnected \/ (op = "subscribe" /\ serving = Helper))
    /\ UNCHANGED <<listener, serving, failures, ends, shutdown, deaths, blocked>>

\* disconnect, and the drop of the served instance.
Drop ==
    /\ server = "drop"
    /\ server' = "loop" /\ serving' = "none"
    /\ Discard({serving})
    /\ UNCHANGED <<listener, served, failures, ends, rest, blocked>>

-----------------------------------------------------------------------------
(* The programs.                                                             *)

Goto(c, place) == client' = [client EXCEPT ![c] = place]

\* The handle is closed: whoever serves the instance finds the peer gone.
Leave(c) ==
    /\ listener' = IF listener = c THEN "left" ELSE listener
    /\ serving' = IF serving = c THEN "left" ELSE serving
    /\ inbox' = [inbox EXCEPT ![c] = Nothing]
    /\ outbox' = [outbox EXCEPT ![c] = Nothing]
    /\ said' = [said EXCEPT ![c] = "nothing"]
    /\ UNCHANGED <<server, served, failures>>

\* Mutant of Released: the block outlives the connection.
BlockKept(c) == UNCHANGED blocked

\* main releases the block when run_session has returned, whatever it returned.
Released(c) == blocked' = (blocked /\ c # Helper)

\* PipeClient::connect starts to try.
Begin(c) ==
    /\ client[c] = "idle"
    /\ Goto(c, "connecting")
    /\ UNCHANGED <<pipe, said, bytes, rest, blocked>>

\* PipeClient::connect finds an instance that listens.
Connect(c) ==
    /\ client[c] = "connecting" /\ listener = "free"
    /\ listener' = c
    /\ Goto(c, "open")
    /\ UNCHANGED <<server, serving, served, failures, said, bytes, rest, blocked>>

\* PipeClient::connect finds none until its deadline.  It tries every 25 ms for
\* seconds, so it outlasts the moment in which the server turns to wait again.
GiveUp(c) ==
    /\ client[c] = "connecting" /\ listener \notin {"free", "closed"}
    /\ Goto(c, "idle")
    /\ UNCHANGED <<pipe, said, bytes, rest, blocked>>

\* write_frame writes the length.
StartFrame(c) ==
    /\ client[c] = "open" /\ Attached(c)
    /\ Goto(c, "writing")
    /\ inbox' = [inbox EXCEPT ![c] = Partial]
    /\ UNCHANGED <<pipe, said, outbox, rest, blocked>>

\* write_frame writes the payload: the handshake first, and then what the
\* program is there to ask.
FinishFrame(c) ==
    /\ client[c] = "writing" /\ Attached(c)
    /\ Goto(c, "waiting")
    /\ \/ /\ said[c] = "nothing"
          /\ said' = [said EXCEPT ![c] = "hello"]
          /\ inbox' = [inbox EXCEPT ![c] = Request("hello")]
       \/ /\ said[c] = "hello"
          /\ said' = [said EXCEPT ![c] = "request"]
          /\ \E op \in IF c = Helper THEN {"subscribe"} ELSE Asks :
                inbox' = [inbox EXCEPT ![c] = Request(op)]
    /\ UNCHANGED <<pipe, outbox, rest, blocked>>

\* A caller reads its response; an error or the last response ends the call.
ReadResponse(c) ==
    /\ c \in Callers /\ client[c] = "waiting" /\ outbox[c] # Nothing
    /\ IF said[c] = "hello" /\ ~IsError(outbox[c].response)
         THEN /\ Goto(c, "open")
              /\ outbox' = [outbox EXCEPT ![c] = Nothing]
              /\ UNCHANGED <<pipe, inbox, said>>
         ELSE /\ Goto(c, "idle")
              /\ Leave(c)
    /\ UNCHANGED <<rest, blocked>>

\* The helper reads the response to its handshake.
ReadHello ==
    /\ client[Helper] = "waiting" /\ said[Helper] = "hello" /\ outbox[Helper] # Nothing
    /\ Goto(Helper, "open")
    /\ outbox' = [outbox EXCEPT ![Helper] = Nothing]
    /\ UNCHANGED <<pipe, said, inbox, rest, blocked>>

\* apply_state; the block may fail to be registered.
ApplyState(m) ==
    \/ m = "WORKING" /\ blocked' \in {TRUE, blocked}
    \/ m # "WORKING" /\ blocked' = FALSE

\* The helper reads a push and goes on reading.
ReadPush ==
    /\ client[Helper] = "waiting" /\ said[Helper] = "request" /\ outbox[Helper] # Nothing
    /\ ApplyState(outbox[Helper].mode)
    /\ outbox' = [outbox EXCEPT ![Helper] = Nothing]
    /\ UNCHANGED <<pipe, client, said, inbox, rest>>

\* A read or a write finds that the server has let go of the instance.
Lost(c) ==
    /\ client[c] \in {"open", "writing", "waiting"} /\ ~Attached(c)
    /\ Goto(c, "idle")
    /\ said' = [said EXCEPT ![c] = "nothing"]
    /\ Released(c)
    /\ UNCHANGED <<pipe, bytes, rest>>

\* A caller is killed.
Quit(c) ==
    /\ c \in Callers /\ client[c] \in {"open", "writing", "waiting"} /\ Attached(c)
    /\ Goto(c, "idle") /\ Leave(c)
    /\ UNCHANGED <<rest, blocked>>

\* The helper dies, and its window and the block with it.
HelperDies ==
    /\ client[Helper] # "gone" /\ deaths < MaxDeaths /\ deaths' = deaths + 1
    /\ Goto(Helper, "gone") /\ Leave(Helper)
    /\ blocked' = FALSE
    /\ UNCHANGED <<mode, helperConnected, shutdown>>

\* The helper is started, at logon.
HelperStarts ==
    /\ client[Helper] = "gone"
    /\ Goto(Helper, "idle")
    /\ UNCHANGED <<pipe, said, bytes, rest, blocked>>

-----------------------------------------------------------------------------
(* The rest of the service.                                                  *)

SetMode ==
    /\ \E m \in Modes \ {mode} : mode' = m
    /\ UNCHANGED <<pipe, ends, bytes, helperConnected, shutdown, deaths, blocked>>

RequestStop ==
    /\ ~shutdown /\ shutdown' = TRUE
    /\ UNCHANGED <<pipe, ends, bytes, mode, helperConnected, deaths, blocked>>

AcceptLoop == Listen \/ StopListening \/ Await \/ Recreate \/ Accept \/ FindNobody \/ Cancel \/ Arm
Connection == CheckStop \/ DataArrives \/ IdleOut \/ PeerLeft \/ Answer \/ Drop
Server     == AcceptLoop \/ Connection

Speak(c)  == StartFrame(c) \/ FinishFrame(c)
Listens(c) == ReadResponse(c) \/ (c = Helper /\ (ReadHello \/ ReadPush)) \/ Lost(c)

Next ==
    \/ Server \/ CreateFails
    \/ \E c \in Clients : Begin(c) \/ Connect(c) \/ GiveUp(c) \/ Speak(c) \/ Listens(c) \/ Quit(c)
    \/ HelperDies \/ HelperStarts
    \/ SetMode \/ RequestStop

Spec == Init /\ [][Next]_vars

(* The server's thread runs.  A program takes every step it has begun, except  *)
(* that one in Silent may never start a frame, or look at a connection it has  *)
(* opened; it finds a listening instance if there is one again and again.  The *)
(* helper tries again, and the block cannot be refused forever.                *)
(* InTime is about milliseconds, and bad luck in it cannot last forever: the   *)
(* gap between a wait and its cancellation is microseconds in half a second,   *)
(* and the helper has two seconds for its next frame or read.                  *)
InTime ==
    /\ server = "cancel" => listener' \notin Clients
    /\ server = "wait" /\ server' = "drop" /\ serving = Helper =>
          client[Helper] = "waiting" /\ outbox[Helper] = Nothing

Fairness ==
    /\ WF_vars(Server)
    /\ \A c \in Clients :
         /\ SF_vars(Connect(c) \/ GiveUp(c))
         /\ WF_vars(FinishFrame(c))
         /\ WF_vars(Listens(c) /\ client[c] # "open")
         /\ c \notin Silent => WF_vars(StartFrame(c)) /\ WF_vars(Lost(c))
    /\ WF_vars(Begin(Helper))
    /\ <>[][InTime]_vars
    /\ SF_vars(ReadPush /\ (outbox[Helper].mode = "WORKING" => blocked'))

FairSpec == Spec /\ Fairness

-----------------------------------------------------------------------------
(* Properties.                                                               *)

Instances == Clients \cup {"none", "closed", "free", "left"}

\* Each request with its own answer, in some mode.
Answers == {a \in [op : Ops, response : {Response(op) : op \in Ops},
                    mode : Modes \cup {"none", "MAINTENANCE"}] : a.response = Response(a.op)}

TypeOK ==
    /\ server \in {"down", "loop", "accept", "cancel", "arm", "serve", "wait", "read",
                    "drop", "stopped"}
    /\ listener \in Instances
    /\ serving \in Clients \cup {"none", "left"}
    /\ served \in BOOLEAN /\ helperConnected \in BOOLEAN
    /\ blocked \in BOOLEAN /\ shutdown \in BOOLEAN
    /\ client \in [Clients -> {"idle", "connecting", "open", "writing", "waiting", "gone"}]
    /\ said \in [Clients -> {"nothing", "hello", "request"}]
    /\ inbox \in [Clients -> {Nothing, Partial} \cup {Request(op) : op \in Ops}]
    /\ outbox \in [Clients -> {Nothing} \cup Answers]
    /\ mode \in Modes \cup {"MAINTENANCE"}
    /\ failures \in 0..MaxFailures /\ deaths \in 0..MaxDeaths

\* The block is held only by a helper that has subscribed and still reads: it
\* never outlives the connection over which it would be told to let go.
BlockIsBacked ==
    blocked => client[Helper] = "waiting" /\ said[Helper] = "request"

\* Only an instance with somebody attached to it, or just gone, is served.
SomebodyArrived ==
    /\ server = "accept" => listener \in Clients \cup {"free", "left"}
    /\ server = "arm" => listener \in Clients \cup {"left"}

\* The inductive invariant of the proofs.
IInv == TypeOK /\ SomebodyArrived /\ BlockIsBacked

\* Once the mode has left WORKING for good the shutdown block goes for good,
\* although the service pushes a state only when the helper subscribes: the
\* release of idle connections is what brings the news.
StaleBlockEnds == <>[](mode # "WORKING") => <>[]~blocked

\* While the mode stays WORKING, a helper that lives and whose service runs
\* raises the block again and again, once the other callers have finished.
BlockReturns ==
    <>[](mode = "WORKING" /\ ~shutdown /\ client[Helper] # "gone"
           /\ \A c \in Callers : client[c] = "idle")
      => []<>blocked

\* The shutdown block of Windows follows the mode, down and up.
BlockFollows == StaleBlockEnds /\ BlockReturns

\* A stop ends the server whatever its clients do, short of half a frame that
\* is never completed.
StopEndsServer == shutdown ~> server = "stopped"

Held == \E d \in Silent : serving = d /\ client[d] = "open"

\* Every call comes to an end, an answer or a failure, unless a client that
\* says nothing holds the one connection that is served.
CallsEnd == []<>~Held => \A c \in Clients \ Silent :
                client[c] = "connecting" ~> client[c] \in {"idle", "gone"}

\* Neither the server nor a caller is kept for ever.
WaitsEnd == StopEndsServer /\ CallsEnd

(* What the documents say of the program and the code does not do.           *)

\* docs/architecture.md:220-221: the server never disconnects a connection that
\* has just arrived.
ArrivalsAreKept ==
    [][\A c \in Clients : listener = c /\ ~shutdown /\ failures' = failures
          => listener' \in {c, "left"} \/ serving' = c]_vars

\* ipc.rs:140-142: a client that opens a connection and says nothing is released
\* after a bounded idle period.
QuietAreReleased ==
    \A c \in Clients : serving = c /\ client[c] = "open" ~> serving # c \/ client[c] # "open"

\* README.md:92: a helper that is not running is reported.
LossIsReported ==
    client[Helper] = "gone" ~> ~helperConnected \/ client[Helper] # "gone" \/ shutdown

=============================================================================
