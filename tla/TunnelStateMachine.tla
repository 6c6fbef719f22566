-------------------------- MODULE TunnelStateMachine --------------------------
(***************************************************************************)
(* The tunnel state machine of talpid-core as it is built for Linux: the   *)
(* five states under tunnel_state_machine/, the values they share          *)
(* (SharedTunnelStateValues), the event loop of `run`, and the actors      *)
(* around it: the thread that runs one tunnel, the kernel's nftables       *)
(* table, the system's DNS and routes, NetworkManager's connectivity       *)
(* check, and the daemon, which sends commands at any time, may drop the   *)
(* command channel (graceful stop) or die (crash, SIGKILL, caught panic).  *)
(*                                                                         *)
(* One action is one pass of the event loop: the handler of a command or a *)
(* tunnel event with every `enter` it calls.  Every nftables operation may *)
(* fail, and a failed one leaves the old or the new table, because the     *)
(* result is read back after the kernel has committed the batch.           *)
(***************************************************************************)
EXTENDS Naturals

CONSTANTS
    LanSettings,    \* values of (allow_lan, lan_networks)
    Endpoints,      \* values of allowed_endpoint (the API address)
    DnsConfigs,     \* values of dns_config
    LocalDns,       \* those without a server for the tunnel: custom DNS on the LAN only
    CanInclude,     \* whether Firewall::can_include holds on this host
    MaxAttempt      \* bound on retry_attempt, which saturates here

ASSUME SettingsAssumption ==
    /\ LanSettings # {} /\ Endpoints # {} /\ DnsConfigs # {}
    /\ LocalDns \subseteq DnsConfigs
    /\ CanInclude \in BOOLEAN
ASSUME MaxAttemptAssumption == MaxAttempt \in Nat \ {0}

VARIABLES
    state,        \* the current TunnelState
    after,        \* AfterDisconnect of the disconnecting state
    cause,        \* block_reason of the error state, or of AfterDisconnect::Block
    attempt,      \* retry_attempt of the connecting state or of AfterDisconnect::Reconnect
    session,      \* the fields of ConnectingState and ConnectedState
    sv,           \* SharedTunnelStateValues: the settings and the connectivity
    blockFailure, \* the block_failure published with the last Error transition
    nmSaved,      \* connectivity_check_was_enabled
    fw,           \* the kernel's nftables table
    dns,          \* the tunnel DNS the system has, and whether the DnsMonitor holds it (inner)
    nmCheck,      \* whether NetworkManager's connectivity check is on
    routes,       \* whether the tunnel's split routes are installed
    thread,       \* the tunnel thread: phase, close request, block reason sent at its end
    cmdOpen,      \* whether the daemon still holds the command channel
    secured       \* the tunnel is wanted: a Connect was handled and no Disconnect since

kernel == <<fw, dns, nmCheck, routes>>
vars == <<state, after, cause, attempt, session, sv, blockFailure, nmSaved,
          fw, dns, nmCheck, routes, thread, cmdOpen, secured>>

States == {"Disconnected", "Connecting", "Connected", "Disconnecting", "Error", "Finished", "Dead"}
\* Every cause but IsOffline is handled alike on Linux, where no parameter
\* generator returns IpVersionUnavailable.
Causes == {"IsOffline", "Other"}
NoCause == "None"
Connectivity == {"Offline", "V4", "V6"}

-----------------------------------------------------------------------------
\* Firewall policies, each with the values the rules are built from.
NoTable == [kind |-> "None"]
EarlyBoot == [kind |-> "EarlyBoot"]

BlockedPolicy(v) ==
    [kind |-> "Blocked", lan |-> v.lan, endpoint |-> v.endpoint, includeOnly |-> v.includeOnly]

ConnectingPolicy(v, s) ==
    [kind |-> "Connecting", lan |-> v.lan, endpoint |-> v.endpoint,
     includeOnly |-> v.includeOnly, metadata |-> s.metadata]

ConnectedPolicy(v, s) ==
    [kind |-> "Connected", lan |-> v.lan, dns |-> v.dns,
     includeOnly |-> v.includeOnly, peers |-> s.peers]

\* The tables that may be in the kernel once `policy` was applied over one of `tables`.
Applied(tables, policy, ok) == IF ok THEN {policy} ELSE tables \cup {policy}
\* ... and once the table was removed.
Removed(tables, ok) == IF ok THEN {NoTable} ELSE tables \cup {NoTable}

HasIpv4(c) == c = "V4"

-----------------------------------------------------------------------------
NoSession == [multiHop |-> FALSE, includeOnly |-> FALSE, metadata |-> FALSE,
              peers |-> "relay", grace |-> FALSE]
NoThread == [phase |-> "none", close |-> FALSE, result |-> NoCause]
Spawned == [phase |-> "starting", close |-> FALSE, result |-> NoCause]
\* A thread whose close event is handled is forgotten.
Reaped == IF thread.phase = "closed" THEN NoThread ELSE thread

-----------------------------------------------------------------------------
(***************************************************************************)
(* DnsMonitor.  `reset` undoes only what this monitor has set: it takes    *)
(* `inner` first, so the DNS a failed reset leaves is forgotten, and a     *)
(* monitor that has set nothing touches nothing.  `set` resets, looks for  *)
(* the backend again (which restores what an earlier process left), and    *)
(* writes where there is a server to write.                                *)
(***************************************************************************)
NoDns == "NoDns"
NotHeld(conf) == [conf |-> conf, held |-> FALSE]

ResetDns ==
    IF dns.held THEN dns' \in {NotHeld(NoDns), NotHeld(dns.conf)} ELSE UNCHANGED dns

DnsSet(c) ==
    IF c \in LocalDns
    THEN dns' \in {NotHeld(NoDns)} \cup IF dns.held THEN {} ELSE {dns}
    ELSE dns' = [conf |-> c, held |-> TRUE]

\* Any of the three steps fails.
DnsSetFails(c) ==
    \E conf \in {dns.conf, NoDns} \cup ({c} \ LocalDns) : dns' = NotHeld(conf)

-----------------------------------------------------------------------------
\* disable_connectivity_check and reset_connectivity_check, with NetworkManager reachable.
DisableConnectivityCheck ==
    IF nmSaved = "None"
    THEN /\ nmSaved' = IF nmCheck THEN "Some(true)" ELSE "Some(false)"
         /\ nmCheck' = FALSE
    ELSE UNCHANGED <<nmSaved, nmCheck>>

ResetConnectivityCheck ==
    /\ nmSaved' = "None"
    /\ nmCheck' = (nmCheck \/ nmSaved = "Some(true)")

-----------------------------------------------------------------------------
(***************************************************************************)
(* `enter` of the five states.  `tables` are the nftables tables the       *)
(* handler may have left before; settings are read as the handler left     *)
(* them (sv').                                                             *)
(***************************************************************************)
EnterDisconnected(tables, resetFirewall, ok) ==
    /\ state' = "Disconnected"
    /\ fw' \in IF sv'.lockdown THEN Applied(tables, BlockedPolicy(sv'), ok)
               ELSE IF resetFirewall THEN Removed(tables, ok) ELSE tables
    /\ routes' = FALSE
    /\ ResetConnectivityCheck
    /\ after' = "Nothing" /\ cause' = NoCause /\ attempt' = 0
    /\ session' = NoSession /\ thread' = Reaped /\ blockFailure' = FALSE

\* Seeded fault: the error state blocks under lockdown mode only.
EnterErrorUnderLockdown(tables, reason, ok) ==
    /\ state' = "Error" /\ cause' = reason
    /\ DisableConnectivityCheck
    /\ fw' \in IF sv'.lockdown THEN Applied(tables, BlockedPolicy(sv'), ok)
               ELSE Removed(tables, ok)
    /\ blockFailure' = ~ok
    /\ after' = "Nothing" /\ attempt' = 0 /\ session' = NoSession /\ thread' = Reaped

EnterError(tables, reason, ok) ==
    /\ state' = "Error" /\ cause' = reason
    /\ DisableConnectivityCheck
    /\ fw' \in Applied(tables, BlockedPolicy(sv'), ok)
    /\ blockFailure' = ~ok
    /\ after' = "Nothing" /\ attempt' = 0 /\ session' = NoSession /\ thread' = Reaped

\* Seeded fault: the tunnel is not told to close.
EnterDisconnectingSilently(action, reason, n) ==
    /\ state' = "Disconnecting"
    /\ after' = action /\ cause' = reason /\ attempt' = n
    /\ session' = NoSession
    /\ UNCHANGED <<thread, blockFailure, nmSaved, nmCheck, routes>>

EnterDisconnecting(action, reason, n) ==
    /\ state' = "Disconnecting"
    /\ after' = action /\ cause' = reason /\ attempt' = n
    /\ thread' = [thread EXCEPT !.close = TRUE]
    /\ session' = NoSession
    /\ UNCHANGED <<blockFailure, nmSaved, nmCheck, routes>>

NewSession(multiHop) ==
    [NoSession EXCEPT !.multiHop = multiHop, !.includeOnly = sv'.includeOnly]

\* The refusal check, the parameters, the pre-handshake policy, then the thread.
EnterConnecting(n) ==
    \/ \E ok \in BOOLEAN : EnterError({fw}, "Other", ok)    \* refused for good (n > 0), or no parameters
    \/ \E ok \in BOOLEAN :
          EnterError({fw, ConnectingPolicy(sv', NewSession(FALSE))}, "Other", ok)
    \/ \E multiHop \in BOOLEAN :
          /\ state' = "Connecting" /\ attempt' = n
          /\ session' = NewSession(multiHop)
          /\ DisableConnectivityCheck
          /\ fw' = ConnectingPolicy(sv', session')
          /\ thread' = Spawned
          /\ after' = "Nothing" /\ cause' = NoCause /\ blockFailure' = FALSE

\* ConnectedState::enter.
EnterConnected ==
    LET offline == sv.connectivity = "Offline" IN
    IF offline /\ ~session.multiHop
    THEN /\ EnterDisconnecting("Block", "IsOffline", 0)
         /\ UNCHANGED <<fw, dns>>
    ELSE \/ /\ fw' = ConnectedPolicy(sv, session)
            /\ DnsSet(sv.dns)
            /\ state' = "Connected" /\ attempt' = 0
            /\ session' = [session EXCEPT !.metadata = TRUE, !.grace = offline]
            /\ UNCHANGED <<after, cause, blockFailure, nmSaved, nmCheck, routes, thread>>
         \/ \* the policy is refused
            /\ fw' \in Applied({fw}, ConnectedPolicy(sv, session), FALSE)
            /\ EnterDisconnecting("Block", "Other", 0)
            /\ UNCHANGED dns
         \/ \* the policy holds and the DNS is refused
            /\ fw' = ConnectedPolicy(sv, session)
            /\ EnterDisconnecting("Block", "Other", 0)
            /\ DnsSetFails(sv.dns)

-----------------------------------------------------------------------------
(***************************************************************************)
(* Commands.  Each set below holds the shared values after a command that  *)
(* changes one of them; a command that changes nothing is a stutter.       *)
(***************************************************************************)
NewLan == {[sv EXCEPT !.lan = l] : l \in LanSettings \ {sv.lan}}
NewEndpoint == {[sv EXCEPT !.endpoint = e] : e \in Endpoints \ {sv.endpoint}}
NewDns == {[sv EXCEPT !.dns = d] : d \in DnsConfigs \ {sv.dns}}
NewLockdown == {[sv EXCEPT !.lockdown = ~sv.lockdown]}
\* enforceable_mode: include-only falls back to the full tunnel where it selects nothing.
NewMode == {[sv EXCEPT !.includeOnly = i] : i \in {FALSE, CanInclude} \ {sv.includeOnly}}
NewConnectivity == {[sv EXCEPT !.connectivity = c] : c \in Connectivity \ {sv.connectivity}}

\* A start for a secured target: its Connect is the first command the daemon
\* sends, so only what others send (connectivity, the API endpoint) may come before.
Booting == state = "Disconnected" /\ secured

\* DisconnectedState::handle_event.  Dns and Connectivity are only stored;
\* the commands that change nothing here (Block, Tailnet...) are stutters.
DisconnectedStores ==
    /\ state = "Disconnected" /\ cmdOpen
    /\ sv' \in NewConnectivity \cup IF Booting THEN {} ELSE NewDns
    /\ UNCHANGED <<state, after, cause, attempt, session, blockFailure, nmSaved,
                   kernel, thread, cmdOpen, secured>>

\* A setting the blocked policy depends on: set_firewall_policy(false), and
\* set_firewall_policy(true) when lockdown is toggled.
DisconnectedReapplies ==
    /\ state = "Disconnected" /\ cmdOpen
    /\ sv' \in NewEndpoint \cup IF Booting THEN {} ELSE NewLan \cup NewMode \cup NewLockdown
    /\ \E ok \in BOOLEAN :
          fw' \in IF sv'.lockdown THEN Applied({fw}, BlockedPolicy(sv'), ok)
                 ELSE IF sv.lockdown THEN Removed({fw}, ok) ELSE {fw}
    /\ UNCHANGED <<state, after, cause, attempt, session, blockFailure, nmSaved,
                   dns, nmCheck, routes, thread, cmdOpen, secured>>

DisconnectedConnects ==
    /\ state = "Disconnected" /\ cmdOpen
    /\ secured' = TRUE
    /\ UNCHANGED <<sv, dns, routes, cmdOpen>>
    /\ EnterConnecting(0)

\* ErrorState::handle_event.
ErrorStores ==
    /\ state = "Error" /\ cmdOpen
    /\ sv' \in NewConnectivity
    /\ ~(cause = "IsOffline" /\ HasIpv4(sv'.connectivity))
    /\ UNCHANGED <<state, after, cause, attempt, session, blockFailure, nmSaved,
                   kernel, thread, cmdOpen, secured>>

\* The result of the re-applied policy is dropped; LockdownMode re-applies
\* it even when the mode does not change.
ErrorReapplies ==
    /\ state = "Error" /\ cmdOpen
    /\ sv' \in NewLan \cup NewEndpoint \cup NewDns \cup NewMode \cup NewLockdown \cup {sv}
    /\ \E ok \in BOOLEAN : fw' \in Applied({fw}, BlockedPolicy(sv'), ok)
    /\ DisableConnectivityCheck
    /\ UNCHANGED <<state, after, cause, attempt, session, blockFailure,
                   dns, routes, thread, cmdOpen, secured>>

\* reconnects_on_connectivity: an offline block ends when IPv4 is back.
ErrorComesOnline ==
    /\ state = "Error" /\ cmdOpen
    /\ sv' \in NewConnectivity
    /\ cause = "IsOffline" /\ HasIpv4(sv'.connectivity)
    /\ ResetDns
    /\ EnterConnecting(0)
    /\ UNCHANGED <<routes, cmdOpen, secured>>

ErrorConnects ==
    /\ state = "Error" /\ cmdOpen
    /\ secured' = TRUE
    /\ ResetDns
    /\ UNCHANGED <<sv, routes, cmdOpen>>
    /\ EnterConnecting(0)

\* The daemon blocks for a ban or a revoked device, never for IsOffline.
ErrorBlocks ==
    /\ state = "Error" /\ cmdOpen
    /\ UNCHANGED <<sv, dns, routes, cmdOpen, secured>>
    /\ \E ok \in BOOLEAN : EnterError({fw}, "Other", ok)

\* Seeded fault: the end of the command channel is not handled.
ErrorDisconnectsOnCommand ==
    /\ state = "Error" /\ cmdOpen
    /\ secured' = FALSE
    /\ ResetDns
    /\ UNCHANGED <<sv, cmdOpen>>
    /\ \E ok \in BOOLEAN : EnterDisconnected({fw}, TRUE, ok)

\* Disconnect, or the end of the command channel.
ErrorDisconnects ==
    /\ state = "Error"
    /\ secured' = FALSE
    /\ ResetDns
    /\ UNCHANGED <<sv, cmdOpen>>
    /\ \E ok \in BOOLEAN : EnterDisconnected({fw}, TRUE, ok)

-----------------------------------------------------------------------------
\* DisconnectingState::handle_commands.  Settings are stored for the state entered next.
DisconnectingStores ==
    /\ state = "Disconnecting" /\ cmdOpen
    /\ sv' \in NewLan \cup NewEndpoint \cup NewDns \cup NewMode \cup NewLockdown
    /\ UNCHANGED <<state, after, cause, attempt, session, blockFailure, nmSaved,
                   kernel, thread, cmdOpen, secured>>

\* Seeded faults: any online edge redials; the online edge is ignored.
AfterConnectivityRedials(connectivity) ==
    IF after = "Reconnect" /\ connectivity = "Offline"
    THEN after' = "Block" /\ cause' = "IsOffline" /\ attempt' = 0
    ELSE IF connectivity # "Offline"
    THEN after' = "Reconnect" /\ cause' = NoCause /\ attempt' = 0
    ELSE UNCHANGED <<after, cause, attempt>>

AfterConnectivityStaysBlocked(connectivity) ==
    IF after = "Reconnect" /\ connectivity = "Offline"
    THEN after' = "Block" /\ cause' = "IsOffline" /\ attempt' = 0
    ELSE UNCHANGED <<after, cause, attempt>>

AfterConnectivity(connectivity) ==
    IF after = "Reconnect" /\ connectivity = "Offline"
    THEN after' = "Block" /\ cause' = "IsOffline" /\ attempt' = 0
    ELSE IF after = "Block" /\ cause = "IsOffline" /\ connectivity # "Offline"
    THEN after' = "Reconnect" /\ cause' = NoCause /\ attempt' = 0
    ELSE UNCHANGED <<after, cause, attempt>>

DisconnectingConnectivity ==
    /\ state = "Disconnecting" /\ cmdOpen
    /\ sv' \in NewConnectivity
    /\ AfterConnectivity(sv'.connectivity)
    /\ UNCHANGED <<state, session, blockFailure, nmSaved, kernel, thread, cmdOpen, secured>>

DisconnectingConnect ==
    /\ state = "Disconnecting" /\ cmdOpen
    /\ secured' = TRUE
    /\ after' = "Reconnect" /\ cause' = NoCause
    /\ attempt' = IF after = "Reconnect" THEN attempt ELSE 0
    /\ UNCHANGED <<state, session, sv, blockFailure, nmSaved, kernel, thread, cmdOpen>>

DisconnectingDisconnect ==
    /\ state = "Disconnecting" /\ cmdOpen
    /\ secured' = FALSE
    /\ after' = "Nothing" /\ cause' = NoCause /\ attempt' = 0
    /\ UNCHANGED <<state, session, sv, blockFailure, nmSaved, kernel, thread, cmdOpen>>

\* Seeded fault: Block takes back a Disconnect.
DisconnectingBlockAlways ==
    /\ state = "Disconnecting" /\ cmdOpen
    /\ after' = "Block" /\ cause' = "Other" /\ attempt' = 0
    /\ UNCHANGED <<state, session, sv, blockFailure, nmSaved, kernel, thread, cmdOpen, secured>>

DisconnectingBlock ==
    /\ state = "Disconnecting" /\ cmdOpen
    /\ after # "Nothing"
    /\ after' = "Block" /\ cause' = "Other" /\ attempt' = 0
    /\ UNCHANGED <<state, session, sv, blockFailure, nmSaved, kernel, thread, cmdOpen, secured>>

\* The command channel ended: a reconnection is given up, a block is kept.
DisconnectingNoCommands ==
    /\ state = "Disconnecting" /\ ~cmdOpen
    /\ after = "Reconnect"
    /\ secured' = FALSE
    /\ after' = "Nothing" /\ attempt' = 0
    /\ UNCHANGED <<state, cause, session, sv, blockFailure, nmSaved, kernel, thread, cmdOpen>>

\* The close event: the routes are swept, then block_reason goes before `after`.
DisconnectingClosed ==
    /\ state = "Disconnecting" /\ thread.phase = "closed"
    /\ routes' = FALSE
    /\ UNCHANGED <<sv, dns, cmdOpen, secured>>
    /\ \/ /\ thread.result # NoCause
          /\ \E ok \in BOOLEAN : EnterError({fw}, thread.result, ok)
       \/ /\ thread.result = NoCause /\ after = "Nothing"
          /\ \E ok \in BOOLEAN : EnterDisconnected({fw}, TRUE, ok)
       \/ /\ thread.result = NoCause /\ after = "Block"
          /\ \E ok \in BOOLEAN : EnterError({fw}, cause, ok)
       \/ /\ thread.result = NoCause /\ after = "Reconnect"
          /\ EnterConnecting(attempt)

-----------------------------------------------------------------------------
(***************************************************************************)
(* ConnectingState and ConnectedState.                                     *)
(***************************************************************************)
Active == state \in {"Connecting", "Connected"}
\* The policy of the current state for shared values v.
CurrentPolicy(v, s) ==
    IF state = "Connecting" THEN ConnectingPolicy(v, s) ELSE ConnectedPolicy(v, s)

\* Seeded fault: the DNS is left to the tunnel that is closed.
DisconnectsKeepingDns(action, reason, n) ==
    EnterDisconnecting(action, reason, n) /\ UNCHANGED dns

\* Leave an active state; the connected one resets the DNS first.
Disconnects(action, reason, n) ==
    /\ EnterDisconnecting(action, reason, n)
    /\ IF state = "Connected" THEN ResetDns ELSE UNCHANGED dns

\* Seeded fault: the machine blocks without waiting for the tunnel to close.
ReapplyBlocksAtOnce(s) ==
    \E ok \in BOOLEAN :
        IF ok THEN /\ fw' = CurrentPolicy(sv', s) /\ session' = s
                   /\ UNCHANGED <<state, after, cause, attempt, thread, blockFailure,
                                  nmSaved, nmCheck, routes, dns>>
        ELSE /\ EnterError({fw, CurrentPolicy(sv', s)}, "Other", TRUE)
             /\ ResetDns /\ UNCHANGED routes

\* Re-apply the policy, with the session the handler leaves.  On failure
\* the tunnel is closed and the machine blocks.
Reapply(s) ==
    \E ok \in BOOLEAN :
        /\ fw' \in Applied({fw}, CurrentPolicy(sv', s), ok)
        /\ IF ok THEN /\ session' = s
                      /\ UNCHANGED <<state, after, cause, attempt, thread, blockFailure,
                                     nmSaved, nmCheck, routes, dns>>
           ELSE Disconnects("Block", "Other", 0)

ActiveStores ==
    /\ Active /\ cmdOpen
    /\ sv' \in NewLockdown \cup IF state = "Connecting" THEN NewDns ELSE NewEndpoint
    /\ UNCHANGED <<state, after, cause, attempt, session, blockFailure, nmSaved,
                   kernel, thread, cmdOpen, secured>>

\* AllowLan, TailnetInterfacesChanged (sv' = sv) and, while connecting, AllowEndpoint.
ActiveReapplies ==
    /\ Active /\ cmdOpen
    /\ sv' \in {sv} \cup NewLan \cup IF state = "Connecting" THEN NewEndpoint ELSE {}
    /\ Reapply(session)
    /\ UNCHANGED <<cmdOpen, secured>>

\* Dns while connected: the policy, then the DNS itself.
ConnectedDns ==
    /\ state = "Connected" /\ cmdOpen
    /\ sv' \in NewDns
    /\ \/ /\ fw' = ConnectedPolicy(sv', session)
          /\ DnsSet(sv'.dns)
          /\ UNCHANGED <<state, after, cause, attempt, session, thread, blockFailure,
                         nmSaved, nmCheck, routes>>
       \/ /\ fw' \in Applied({fw}, ConnectedPolicy(sv', session), FALSE)
          /\ Disconnects("Block", "Other", 0)
       \/ /\ fw' = ConnectedPolicy(sv', session)
          /\ EnterDisconnecting("Block", "Other", 0)
          /\ DnsSetFails(sv'.dns)
    /\ UNCHANGED <<cmdOpen, secured>>

\* Seeded fault: the new mode is only stored.
ActiveStoresSplitApps ==
    /\ Active /\ cmdOpen
    /\ sv' \in NewMode
    /\ UNCHANGED <<state, after, cause, attempt, session, blockFailure, nmSaved,
                   kernel, thread, cmdOpen, secured>>

\* The routes of a tunnel follow the mode it was started with.
ActiveSetSplitApps ==
    /\ Active /\ cmdOpen
    /\ sv' \in NewMode
    /\ Disconnects("Reconnect", NoCause, 0)
    /\ UNCHANGED <<fw, cmdOpen, secured>>

ConnectingConnectivity ==
    /\ state = "Connecting" /\ cmdOpen
    /\ sv' \in NewConnectivity
    /\ IF sv'.connectivity = "Offline" THEN Disconnects("Block", "IsOffline", 0)
       ELSE UNCHANGED <<state, after, cause, attempt, session, thread, blockFailure,
                        nmSaved, nmCheck, routes, dns>>
    /\ UNCHANGED <<fw, cmdOpen, secured>>

\* grace_action: a multi-hop tunnel is held through an offline window.
ConnectedConnectivity ==
    /\ state = "Connected" /\ cmdOpen
    /\ sv' \in NewConnectivity
    /\ IF sv'.connectivity = "Offline" /\ ~session.multiHop
       THEN Disconnects("Block", "IsOffline", 0)
       ELSE /\ session' = [session EXCEPT !.grace = (sv'.connectivity = "Offline")]
            /\ UNCHANGED <<state, after, cause, attempt, thread, blockFailure,
                           nmSaved, nmCheck, routes, dns>>
    /\ UNCHANGED <<fw, cmdOpen, secured>>

\* EventResult::OfflineGraceExpired.
GraceExpires ==
    /\ state = "Connected" /\ session.grace
    /\ IF sv.connectivity = "Offline" THEN Disconnects("Block", "IsOffline", 0)
       ELSE /\ session' = [session EXCEPT !.grace = FALSE]
            /\ UNCHANGED <<state, after, cause, attempt, thread, blockFailure,
                           nmSaved, nmCheck, routes, dns>>
    /\ UNCHANGED <<sv, fw, cmdOpen, secured>>

\* Seeded fault: a reconnection dials before the old tunnel has closed.
ActiveConnectAtOnce ==
    /\ Active /\ cmdOpen
    /\ secured' = TRUE
    /\ ResetDns
    /\ UNCHANGED <<sv, routes, cmdOpen>>
    /\ EnterConnecting(0)

ActiveConnect ==
    /\ Active /\ cmdOpen
    /\ secured' = TRUE
    /\ Disconnects("Reconnect", NoCause, 0)
    /\ UNCHANGED <<sv, fw, cmdOpen>>

ActiveBlock ==
    /\ Active /\ cmdOpen
    /\ Disconnects("Block", "Other", 0)
    /\ UNCHANGED <<sv, fw, cmdOpen, secured>>

\* Disconnect, or the end of the command channel.
ActiveDisconnect ==
    /\ Active
    /\ secured' = FALSE
    /\ Disconnects("Nothing", NoCause, 0)
    /\ UNCHANGED <<sv, fw, cmdOpen>>

-----------------------------------------------------------------------------
(***************************************************************************)
(* Tunnel events.  The thread waits until an event is handled, or until    *)
(* the state machine drops the channel, before it goes on.                 *)
(***************************************************************************)
\* The code counts on in a u32; only zero and non-zero are told apart.
NextAttempt == IF attempt = MaxAttempt THEN MaxAttempt ELSE attempt + 1

HandleInterfaceUp ==
    /\ state = "Connecting" /\ thread.phase = "iface" /\ ~session.metadata
    /\ UNCHANGED <<sv, cmdOpen, secured>>
    /\ Reapply([session EXCEPT !.metadata = TRUE])

HandleUp ==
    /\ state = "Connecting" /\ thread.phase = "up"
    /\ EnterConnected
    /\ UNCHANGED <<sv, cmdOpen, secured>>

\* A later Up refreshes the MTU and leg counts of the metadata and republishes
\* Connected: no policy or DNS is built from them, so it is a stutter here.
HandlePeerEndpoints ==
    /\ state = "Connected" /\ thread.phase = "up"
    /\ UNCHANGED <<sv, cmdOpen, secured>>
    /\ \E p \in {"relay", "migrated"} : Reapply([session EXCEPT !.peers = p])

\* Down, which a connected tunnel that fails sends before its teardown.
HandleDown ==
    /\ state = "Connected" /\ thread.phase = "up"
    /\ Disconnects("Reconnect", NoCause, 0)
    /\ UNCHANGED <<sv, fw, cmdOpen, secured>>

\* The event channel is closed: the thread is past its tunnel.
HandleEventsEnd ==
    /\ Active /\ thread.phase \in {"ended", "closed"}
    /\ Disconnects("Reconnect", NoCause, IF state = "Connecting" THEN NextAttempt ELSE 0)
    /\ UNCHANGED <<sv, fw, cmdOpen, secured>>

\* handle_tunnel_close_event of both states, when the select picks the close
\* event before the end of the events: a block reason, the offline
\* precedence, then the flap detector or the next lap.
HandleClose ==
    /\ Active /\ thread.phase = "closed"
    /\ routes' = FALSE
    /\ IF state = "Connected" THEN ResetDns ELSE UNCHANGED dns
    /\ UNCHANGED <<sv, cmdOpen, secured>>
    /\ IF thread.result # NoCause
       THEN \E ok \in BOOLEAN : EnterError({fw}, thread.result, ok)
       ELSE IF sv.connectivity = "Offline"
       THEN \E ok \in BOOLEAN : EnterError({fw}, "IsOffline", ok)
       ELSE \/ \E ok \in BOOLEAN : EnterError({fw}, "Other", ok)
            \/ EnterConnecting(IF state = "Connecting" THEN NextAttempt ELSE 0)

-----------------------------------------------------------------------------
(***************************************************************************)
(* The tunnel thread (start_tunnel_warren and the Warren backend).         *)
(***************************************************************************)
machine == <<state, after, cause, attempt, session, sv, blockFailure, nmSaved>>

ThreadOnly == UNCHANGED <<machine, fw, dns, nmCheck, cmdOpen, secured>>

\* The device exists and InterfaceUp is sent.
ThreadInterface ==
    /\ thread.phase = "starting"
    /\ thread' = [thread EXCEPT !.phase = "iface"]
    /\ UNCHANGED routes /\ ThreadOnly

\* InterfaceUp was handled, or nobody listens any more: the routes are
\* installed and Up is sent.
ThreadRoutes ==
    /\ thread.phase = "iface"
    /\ state = "Connecting" => session.metadata
    /\ thread' = [thread EXCEPT !.phase = "up"]
    /\ routes' = TRUE /\ ThreadOnly

\* The start fails; a fatal error becomes the block reason.
ThreadStartFails ==
    /\ thread.phase \in {"starting", "iface"}
    /\ thread.phase = "iface" /\ state = "Connecting" => session.metadata
    /\ \E r \in {NoCause, "Other"} : thread' = [thread EXCEPT !.phase = "ended", !.result = r]
    /\ routes' \in {routes, FALSE} /\ ThreadOnly

\* The close request reaches an established tunnel.
ThreadStops ==
    /\ thread.phase = "up" /\ thread.close
    /\ thread' = [thread EXCEPT !.phase = "teardown"]
    /\ UNCHANGED routes /\ ThreadOnly

\* The teardown removes the routes (best effort) and drops the event channel.
ThreadTearsDown ==
    /\ thread.phase = "teardown"
    /\ \E r \in {NoCause, "Other"} : thread' = [thread EXCEPT !.phase = "ended", !.result = r]
    /\ routes' \in {routes, FALSE} /\ ThreadOnly

\* The lap was padded to its floor: the close event is sent.
ThreadCloses ==
    /\ thread.phase = "ended"
    /\ thread' = [thread EXCEPT !.phase = "closed"]
    /\ UNCHANGED routes /\ ThreadOnly

\* The thread panics: both of its channels are dropped and no reason is sent.
ThreadPanics ==
    /\ thread.phase \in {"starting", "iface", "up", "teardown"}
    /\ thread' = [thread EXCEPT !.phase = "closed", !.result = NoCause]
    /\ UNCHANGED routes /\ ThreadOnly

-----------------------------------------------------------------------------
(***************************************************************************)
(* The daemon around the state machine.                                    *)
(***************************************************************************)
Running == state \notin {"Dead", "Finished"}

\* The daemon drops its command sender for good.
CommandsEnd ==
    /\ Running /\ cmdOpen /\ ~Booting
    /\ cmdOpen' = FALSE
    /\ UNCHANGED <<machine, kernel, thread, secured>>

\* The tail of `run`: the table is removed unless lockdown keeps it.
Finish ==
    /\ state' = "Finished"
    /\ secured' = FALSE
    /\ \E ok \in BOOLEAN : fw' \in IF sv.lockdown THEN {fw} ELSE Removed({fw}, ok)
    /\ thread' = IF thread.phase = "none" THEN thread ELSE [thread EXCEPT !.close = TRUE]
    /\ after' = "Nothing" /\ cause' = NoCause /\ attempt' = 0
    /\ session' = NoSession /\ blockFailure' = FALSE
    /\ UNCHANGED <<sv, nmSaved, nmCheck, routes, cmdOpen>>

DisconnectedFinishes ==
    /\ state = "Disconnected" /\ ~cmdOpen
    /\ ResetDns
    /\ Finish

\* The daemon no longer listens: the loop breaks on the transition it cannot send.
ListenerGone ==
    /\ Running /\ ~cmdOpen
    /\ UNCHANGED dns
    /\ Finish

\* Seeded fault: a process that dies takes its table along.
CrashOpens ==
    /\ Running
    /\ state' = "Dead" /\ cmdOpen' = FALSE
    /\ fw' = NoTable /\ nmSaved' = "None" /\ thread' = NoThread
    /\ after' = "Nothing" /\ cause' = NoCause /\ attempt' = 0
    /\ session' = NoSession /\ blockFailure' = FALSE
    /\ dns' = NotHeld(dns.conf)
    /\ UNCHANGED <<sv, nmCheck, routes, secured>>

\* SIGKILL, or the process::exit of a caught panic, which sweeps the routes.
\* The kernel keeps its table; the device, with the DNS of a backend that sets
\* it per link, and the memory are gone.  A resolv.conf or a resolvconf record stays.
Crash ==
    /\ Running
    /\ state' = "Dead" /\ cmdOpen' = FALSE
    /\ routes' \in {routes, FALSE}
    /\ dns' \in {NotHeld(dns.conf), NotHeld(NoDns)}
    /\ nmSaved' = "None" /\ thread' = NoThread
    /\ after' = "Nothing" /\ cause' = NoCause /\ attempt' = 0
    /\ session' = NoSession /\ blockFailure' = FALSE
    /\ UNCHANGED <<sv, fw, nmCheck, secured>>

\* The process ends after a graceful stop.  Its target state is dropped, or
\* kept for the restart an installer prepared.
Exit ==
    /\ state = "Finished"
    /\ state' = "Dead" /\ cmdOpen' = FALSE
    /\ nmSaved' = "None" /\ thread' = NoThread
    /\ secured' \in BOOLEAN
    /\ after' = "Nothing" /\ blockFailure' = FALSE
    /\ dns' \in {NotHeld(dns.conf), NotHeld(NoDns)}
    /\ UNCHANGED <<cause, attempt, session, sv, fw, nmCheck, routes>>

(***************************************************************************)
(* A process starts (TunnelStateMachine::new).  A secured target keeps the *)
(* table it finds until its Connect comes, or starts in the error state;   *)
(* any other one starts from a clean slate.  DnsMonitor::new looks at      *)
(* nothing: tunnel DNS found at a start stays until the next `set`.        *)
(***************************************************************************)
Starts ==
    /\ state = "Dead"
    /\ cmdOpen' = TRUE
    /\ UNCHANGED dns
    /\ \E c \in Connectivity : sv' = [sv EXCEPT !.connectivity = c]

BootKeeps ==
    /\ secured /\ Starts
    /\ \E ok \in BOOLEAN : EnterDisconnected({fw}, FALSE, ok)
    /\ UNCHANGED secured

BootBlocks ==
    /\ secured /\ Starts
    /\ \E ok \in BOOLEAN : EnterError({fw}, "Other", ok)
    /\ UNCHANGED <<routes, secured>>

BootResets ==
    /\ Starts
    /\ \E ok \in BOOLEAN : EnterDisconnected({fw}, TRUE, ok)
    /\ secured' = FALSE

-----------------------------------------------------------------------------
\* The machine has just started; an early-boot unit may have blocked it.
Init ==
    /\ state = "Dead" /\ after = "Nothing" /\ cause = NoCause /\ attempt = 0
    /\ session = NoSession /\ blockFailure = FALSE /\ nmSaved = "None"
    /\ sv \in [lan : LanSettings, endpoint : Endpoints, dns : DnsConfigs, lockdown : BOOLEAN,
               includeOnly : {FALSE, CanInclude}, connectivity : Connectivity]
    /\ fw \in {NoTable, EarlyBoot}
    /\ dns = NotHeld(NoDns) /\ nmCheck = TRUE /\ routes = FALSE
    /\ thread = NoThread /\ cmdOpen = FALSE /\ secured \in BOOLEAN

DisconnectedNext ==
    DisconnectedStores \/ DisconnectedReapplies \/ DisconnectedConnects

ErrorNext ==
    \/ ErrorStores \/ ErrorReapplies \/ ErrorComesOnline \/ ErrorConnects \/ ErrorBlocks
    \/ ErrorDisconnects

DisconnectingNext ==
    \/ DisconnectingStores \/ DisconnectingConnectivity \/ DisconnectingConnect
    \/ DisconnectingDisconnect \/ DisconnectingBlock \/ DisconnectingNoCommands
    \/ DisconnectingClosed

ActiveNext ==
    \/ ActiveStores \/ ActiveReapplies \/ ConnectedDns \/ ActiveSetSplitApps
    \/ ConnectingConnectivity \/ ConnectedConnectivity \/ GraceExpires
    \/ ActiveConnect \/ ActiveBlock \/ ActiveDisconnect
    \/ HandleInterfaceUp \/ HandleUp \/ HandlePeerEndpoints \/ HandleDown
    \/ HandleEventsEnd \/ HandleClose

ThreadNext ==
    \/ ThreadInterface \/ ThreadRoutes \/ ThreadStartFails \/ ThreadStops
    \/ ThreadTearsDown \/ ThreadCloses \/ ThreadPanics

ProcessNext ==
    \/ CommandsEnd \/ DisconnectedFinishes \/ ListenerGone \/ Crash \/ Exit
    \/ BootKeeps \/ BootBlocks \/ BootResets

Next ==
    \/ DisconnectedNext \/ ErrorNext \/ DisconnectingNext \/ ActiveNext
    \/ ThreadNext \/ ProcessNext

Spec == Init /\ [][Next]_vars

(***************************************************************************)
(* Fairness.  The tunnel thread makes progress (every wait of its start    *)
(* and teardown has a timeout), the event loop handles a close event it is *)
(* the only branch to wait for, and it handles the end of the command      *)
(* channel, which stays ready once it is reached.                          *)
(***************************************************************************)
ThreadProgress ==
    \/ ThreadInterface \/ ThreadRoutes \/ ThreadStartFails \/ ThreadStops
    \/ ThreadTearsDown \/ ThreadCloses

NoCommands ==
    /\ ~cmdOpen
    /\ ActiveDisconnect \/ DisconnectingNoCommands \/ ErrorDisconnects \/ DisconnectedFinishes

FairSpec == Spec /\ WF_vars(ThreadProgress) /\ WF_vars(DisconnectingClosed) /\ WF_vars(NoCommands)

-----------------------------------------------------------------------------
(***************************************************************************)
(* Properties.                                                             *)
(***************************************************************************)
SharedValues ==
    [lan : LanSettings, endpoint : Endpoints, dns : DnsConfigs, lockdown : BOOLEAN,
     includeOnly : BOOLEAN, connectivity : Connectivity]
Sessions ==
    [multiHop : BOOLEAN, includeOnly : BOOLEAN, metadata : BOOLEAN,
     peers : {"relay", "migrated"}, grace : BOOLEAN]
Threads ==
    [phase : {"none", "starting", "iface", "up", "teardown", "ended", "closed"},
     close : BOOLEAN, result : {NoCause, "Other"}]
DnsStates == [conf : DnsConfigs \cup {NoDns}, held : BOOLEAN]
BlockedTables ==
    [kind : {"Blocked"}, lan : LanSettings, endpoint : Endpoints, includeOnly : BOOLEAN]
ConnectingTables ==
    [kind : {"Connecting"}, lan : LanSettings, endpoint : Endpoints, includeOnly : BOOLEAN,
     metadata : BOOLEAN]
ConnectedTables ==
    [kind : {"Connected"}, lan : LanSettings, dns : DnsConfigs, includeOnly : BOOLEAN,
     peers : {"relay", "migrated"}]
Tables == {NoTable, EarlyBoot} \cup BlockedTables \cup ConnectingTables \cup ConnectedTables

\* Every variable keeps its type; retry_attempt stays within its bound.
TypeOK ==
    /\ state \in States
    /\ after \in {"Nothing", "Block", "Reconnect"}
    /\ cause \in Causes \cup {NoCause}
    /\ attempt \in 0..MaxAttempt
    /\ session \in Sessions
    /\ sv \in SharedValues
    /\ thread \in Threads
    /\ nmSaved \in {"None", "Some(true)", "Some(false)"}
    /\ dns \in DnsStates
    /\ blockFailure \in BOOLEAN /\ nmCheck \in BOOLEAN /\ routes \in BOOLEAN
    /\ cmdOpen \in BOOLEAN /\ secured \in BOOLEAN
    /\ fw \in Tables

\* The kill switch: while a tunnel is dialled, up or coming down there is a
\* table in the kernel, whatever operation failed on the way; the error
\* state has one too, or its transition reported that it could not block.
FailClosed ==
    /\ state \in {"Connecting", "Connected", "Disconnecting"} => fw # NoTable
    /\ state = "Error" => fw # NoTable \/ blockFailure

\* No step takes the table away from a user who wants the tunnel: not a
\* failed lap, a reconnection, a setting, a crash, or the restart after it.
NeverOpens == [][secured /\ secured' /\ fw # NoTable => fw' # NoTable]_vars

\* The table of a connecting or connected machine is the one its settings
\* ask for now, and the routes of its tunnel follow the same split mode
\* ("the two cannot disagree").
PolicyFollowsSettings ==
    Active => /\ fw = CurrentPolicy(sv, session)
              /\ session.includeOnly = sv.includeOnly

\* Nothing dials, and nothing is about to dial again, unless the tunnel is
\* wanted: a Disconnect is final, whatever order events come in after it.
DialsOnlyWhenWanted ==
    state \in {"Connecting", "Connected"} \/ after = "Reconnect" => secured

\* A blocked or disconnected machine runs no tunnel thread, and a
\* disconnected one has none of the tunnel's routes.
NoTunnelLeft ==
    /\ state \in {"Disconnected", "Error"} => thread = NoThread
    /\ state = "Disconnected" => ~routes

\* Nothing is done over the head of a tunnel that still closes: a thread is
\* spawned only when the one before it has closed, and the state machine
\* sweeps the routes only then, as the teardown hands the forwarded ports
\* back through them.
TunnelClosesFirst ==
    [][(\/ thread'.phase = "starting" /\ thread.phase # "starting"
        \/ routes /\ ~routes' /\ state' # state /\ state' # "Dead")
           => thread.phase \in {"none", "closed"}]_vars

\* What the machine changes of the system is what its state asks for, on every
\* way in and out.  The DnsMonitor has DNS installed exactly while connected, where
\* there is a server to install, and it is the one the setting asks for now: DNS
\* found in any other state is what a dead process or a failed operation left.
\* NetworkManager's connectivity check is off while a tunnel state or the error
\* state filters traffic, and a disconnected machine owes it nothing.
SystemFollowsState ==
    /\ Running => (dns.held <=> state = "Connected" /\ sv.dns \notin LocalDns)
    /\ state = "Connected" /\ dns.held => dns.conf = sv.dns
    /\ Active \/ state = "Error" => ~nmCheck
    /\ state = "Disconnected" => nmSaved = "None"

\* "Stale DNS is repaired by the startup self-heal, as after any hard crash": a
\* process that has just started leaves none of an earlier one's tunnel DNS.
StartRepairsDns == [][state = "Dead" /\ state' # "Dead" => dns'.conf = NoDns]_vars

\* An offline block never outlives the IPv4 connectivity it waits for, and
\* the offline grace is armed only while offline: no online edge is lost,
\* in whichever state it is handled.
NoLostOnlineEdge ==
    /\ state = "Error" /\ cause = "IsOffline" => ~HasIpv4(sv.connectivity)
    /\ after = "Block" /\ cause = "IsOffline" => sv.connectivity = "Offline"
    /\ session.grace => state = "Connected" /\ sv.connectivity = "Offline"

\* A daemon that drops the command channel is rid of the state machine,
\* through whatever teardown, block or retry is under way.
StopFinishes == (Running /\ ~cmdOpen) ~> ~Running
=============================================================================
