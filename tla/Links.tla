------------------------------- MODULE Links -------------------------------
(***************************************************************************)
(* What Guardian can see of the machine's uplinks and how it acts on them: *)
(* the dial-up phonebook and connections, the wireless service, the route  *)
(* and the probes, and which entry of the phonebook is taken.  A machine   *)
(* is a record of the answers Windows gives when it is asked now.          *)
(***************************************************************************)
EXTENDS Lists, SequencesExt

CONSTANTS
    MaxEntries,     \* MAX_ENTRIES, phonebook entries that fit the buffer
    MaxConnections, \* MAX_CONNECTIONS
    MaxInterfaces,  \* MAX_INTERFACES
    RoundBudget,    \* round_budget, in the time units of the probes
    MaxAddresses,   \* addresses of a target that are tried
    LongSsids,      \* the SSIDs whose text has more than 32 bytes
    Folded(_)       \* a name, in lower case as far as it is ASCII

ASSUME LinksAssumption ==
    {MaxEntries, MaxConnections, MaxInterfaces, RoundBudget, MaxAddresses} \subseteq Nat

Ok(value) == [ok |-> TRUE, value |-> value]
Failed == [ok |-> FALSE, value |-> <<>>]

\* Result::unwrap_or_default, of a list.
OrEmpty(result) == IF result.ok THEN result.value ELSE <<>>

-----------------------------------------------------------------------------
(* Remote access.                                                            *)

\* enum_entries: no phonebook is no entries, and a list that does not fit the
\* buffer fails the second call.
EnumEntries(machine) ==
    IF machine.phonebook = "none" THEN Ok(<<>>)
    ELSE IF machine.phonebook = "failing" \/ Len(machine.entries) > MaxEntries THEN Failed
    ELSE Ok(Picked(machine.entries, {i \in DOMAIN machine.entries : machine.entries[i].name # ""}))

\* enum_connections
EnumConnections(machine) ==
    IF machine.rasman = "failing" \/ Len(machine.connections) > MaxConnections THEN Failed
    ELSE Ok(machine.connections)

\* eq_ignore_ascii_case: the names of entries are compared without case.
SameName(a, b) == Folded(a) = Folded(b)

\* The connections of an entry, in their order.
Belonging(connections, entry) ==
    Picked(connections, {i \in DOMAIN connections : SameName(connections[i].entry, entry)})

\* find_active_connection: the first one, whatever its state.
ActiveConnection(machine, entry) == Belonging(OrEmpty(EnumConnections(machine)), entry)

\* translate_state: the dialling and the interactive states are one.
TranslateState(state) ==
    CASE state = "Connected" -> "connected"
      [] state = "Disconnected" -> "disconnected"
      [] state \in {"Authenticate", "ConnectDevice", "Projected", "Interactive"} -> "connecting"
      [] OTHER -> "unknown"

\* connection_health, of a connection whose status can be read.
ConnectionHealth(c) ==
    [state |-> TranslateState(c.state), has_ip |-> c.projected /\ c.address \notin {"", "0.0.0.0"}]

RasConnected(machine, entry) == ActiveConnection(machine, entry) # <<>>

\* Mutant of RasHasIp: a status that cannot be read counts as an address.
RasHasIpUnlessSure(machine, entry) ==
    /\ RasConnected(machine, entry)
    /\ LET c == ActiveConnection(machine, entry)[1]
       IN  c.readable => ConnectionHealth(c).has_ip

\* RasBackend::ras_has_ip
RasHasIp(machine, entry) ==
    /\ RasConnected(machine, entry)
    /\ LET c == ActiveConnection(machine, entry)[1]
       IN  c.readable /\ ConnectionHealth(c).has_ip

\* RasBackend::hang_up_all: what is left of the connections; one that cannot be
\* hung up is passed over.
HangUpAll(machine, entry) ==
    IF EnumConnections(machine).ok
      THEN [machine EXCEPT !.connections =
               Picked(@, {i \in DOMAIN @ : ~SameName(@[i].entry, entry) \/ @[i].stuck})]
      ELSE machine

\* select_entry: the entry that is configured, as the configuration spells it, or
\* the only one there can be.
SelectEntry(entries, configured) ==
    LET broadband == Picked(entries, {i \in DOMAIN entries : entries[i].broadband})
    IN  IF configured # "none"
          THEN IF \E i \in DOMAIN entries : SameName(entries[i].name, configured)
                 THEN Ok(configured) ELSE Failed
        ELSE IF entries = <<>> THEN Ok("none")
        ELSE IF Len(broadband) = 1 THEN Ok(broadband[1].name)
        ELSE IF broadband = <<>> /\ Len(entries) = 1 THEN Ok(entries[1].name)
        ELSE Failed

-----------------------------------------------------------------------------
(* Wi-Fi.                                                                    *)

\* WlanClient::open and WlanClient::interfaces
Interfaces(machine) ==
    IF machine.wlan # "running" THEN Failed
    ELSE Ok(SubSeq(machine.interfaces, 1,
                   IF Len(machine.interfaces) <= MaxInterfaces THEN Len(machine.interfaces)
                                                               ELSE MaxInterfaces))

HasWirelessInterface(machine) == OrEmpty(Interfaces(machine)) # <<>>

\* connected_interface: the first one that is connected, or none.
ConnectedInterface(machine) ==
    LET all == OrEmpty(Interfaces(machine))
    IN  Picked(all, {i \in DOMAIN all : all[i].connected})

WifiConnected(machine) == ConnectedInterface(machine) # <<>>

\* current_ssid: of no use when it cannot be read or is empty.
CurrentConnection(machine) ==
    IF WifiConnected(machine) THEN ConnectedInterface(machine)[1].ssid ELSE "none"

\* radio_on: one radio with both its switches on; unreadable counts as on.
RadioOn(interface) ==
    ~interface.radio_read \/ \E r \in ToSet(interface.radios) : r.software /\ r.hardware

\* WlanClient::connect: it fails for a name that is too long or that no profile has,
\* and where WlanConnect refuses it: the key is not stored, or anything else.
Connect(interface, ssid) ==
    /\ RadioOn(interface)
    /\ ssid \notin LongSsids
    /\ ssid \in interface.profiles /\ ssid \notin interface.refused

\* connect_wifi: only an SSID that is connected already is known to it, so with
\* none it fails, and otherwise asks the first interface for that profile.
ConnectWifi(machine) ==
    IF CurrentConnection(machine) = "none" THEN WifiConnected(machine)
    ELSE /\ HasWirelessInterface(machine)
         /\ Connect(Interfaces(machine).value[1], CurrentConnection(machine))

-----------------------------------------------------------------------------
(* Probes.  A target has addresses, each of which answers or not, in time.   *)

\* tcp_probe
TcpProbe(target) ==
    \E i \in DOMAIN target.addresses : i <= MaxAddresses /\ target.addresses[i]

\* dns_probe
DnsProbe(target) == target.addresses # <<>>

\* ProbeRunner::run_one: the kinds that are read from the backend always pass.
RunOne(probe) ==
    CASE probe.kind = "tcp" -> TcpProbe(probe) [] probe.kind = "dns" -> DnsProbe(probe)
      [] OTHER -> TRUE

Enabled(probes) == Picked(probes, {i \in DOMAIN probes : probes[i].enabled})

\* What the probes before the i-th have taken.
Elapsed(probes, i) == FoldLeft(LAMBDA t, p : t + p.takes, 0, SubSeq(probes, 1, i - 1))

\* run_round: the probes that come too late are left out.
RunRound(probes) ==
    LET enabled == Enabled(probes)
        late == {i \in DOMAIN enabled : Elapsed(enabled, i) > RoundBudget}
        measured == Cardinality(DOMAIN enabled \ late)
    IN  [i \in 1..measured |-> RunOne(enabled[i])]

Passed(results) == Cardinality({i \in DOMAIN results : results[i]})

-----------------------------------------------------------------------------
NothingSeen == [link |-> "absent", wifi |-> FALSE, probes |-> "unmeasured"]

\* NetworkObservation::quorum_ok: a quorum is at least one of the probes that ran,
\* and at most all.
QuorumOk(results, required) ==
    /\ results # <<>>
    /\ Passed(results) >= (IF required > Len(results) THEN Len(results)
                           ELSE IF required < 1 THEN 1 ELSE required)

\* NetworkWorker::observe: the link, Wi-Fi and the probes as the rounds of Network
\* take them.  Without an entry nothing is looked at.
Observe(machine, entry, required) ==
    LET results == RunRound(machine.probes)
    IN  IF entry = "none" THEN NothingSeen ELSE
        [link |-> IF ~RasConnected(machine, entry) THEN "absent"
                  ELSE IF RasHasIp(machine, entry) /\ machine.route THEN "up" ELSE "dead",
         wifi |-> WifiConnected(machine),
         probes |-> IF results = <<>> THEN "unmeasured"
                    ELSE IF QuorumOk(results, required) THEN "quorum"
                    ELSE IF Passed(results) = 0 THEN "none" ELSE "some"]
=============================================================================
