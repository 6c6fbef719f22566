----------------------- MODULE TunnelStateMachineProofs -----------------------
(***************************************************************************)
(* Proofs about the tunnel state machine, for every set of settings and    *)
(* every bound on retry_attempt.                                           *)
(***************************************************************************)
EXTENDS TunnelStateMachine, TLAPS

\* A policy that was applied leaves a table in the kernel, whatever values it
\* is built from (FirewallPolicy and PolicyBatch).
LEMMA PoliciesAreTables ==
    /\ \A v : BlockedPolicy(v) # NoTable
    /\ \A v, s : ConnectingPolicy(v, s) # NoTable /\ ConnectedPolicy(v, s) # NoTable
BY DEF BlockedPolicy, ConnectingPolicy, ConnectedPolicy, NoTable

\* Applying a policy, in whichever way it fails, never removes a table.
LEMMA AppliedKeepsTables ==
    ASSUME NEW tables, NoTable \notin tables, NEW policy, policy # NoTable, NEW ok \in BOOLEAN
    PROVE  NoTable \notin Applied(tables, policy, ok)
BY DEF Applied

-----------------------------------------------------------------------------
(***************************************************************************)
(* The kill switch.  FailClosed is inductive: each `enter` establishes it, *)
(* whatever table it finds, except the way into the disconnecting state,   *)
(* which keeps the table the active state had.                             *)
(***************************************************************************)
LEMMA ErrorFailsClosed ==
    ASSUME NEW tables, NEW reason, NEW ok \in BOOLEAN, EnterError(tables, reason, ok)
    PROVE  FailClosed'
BY PoliciesAreTables DEF EnterError, Applied, FailClosed

LEMMA ConnectingFailsClosed ==
    ASSUME NEW n, EnterConnecting(n)
    PROVE  FailClosed'
<1>1. CASE \E ok \in BOOLEAN : EnterError({fw}, "Other", ok)
  BY <1>1, ErrorFailsClosed
<1>2. CASE \E ok \in BOOLEAN :
              EnterError({fw, ConnectingPolicy(sv', NewSession(FALSE))}, "Other", ok)
  BY <1>2, ErrorFailsClosed
<1>3. CASE state' = "Connecting" /\ fw' = ConnectingPolicy(sv', session')
  BY <1>3, PoliciesAreTables DEF FailClosed
<1> QED  BY <1>1, <1>2, <1>3 DEF EnterConnecting

LEMMA DisconnectingFailsClosed ==
    ASSUME NEW action, NEW reason, NEW n, EnterDisconnecting(action, reason, n), fw' # NoTable
    PROVE  FailClosed'
BY DEF EnterDisconnecting, FailClosed

LEMMA ConnectedFailsClosed ==
    ASSUME fw # NoTable, EnterConnected
    PROVE  FailClosed'
<1>1. fw' # NoTable
  BY PoliciesAreTables DEF EnterConnected, Applied
<1> QED  BY <1>1 DEF EnterConnected, EnterDisconnecting, FailClosed

LEMMA ReapplyFailsClosed ==
    ASSUME FailClosed, Active, NEW s, Reapply(s)
    PROVE  FailClosed'
<1>1. fw # NoTable
  BY DEF FailClosed, Active
<1>2. fw' # NoTable
  BY <1>1, PoliciesAreTables DEF Reapply, CurrentPolicy, Applied
<1> QED  BY <1>2 DEF Reapply, Disconnects, EnterDisconnecting, FailClosed, Active

\* Disconnected is not a state FailClosed speaks of.
LEMMA DisconnectedFailsClosed ==
    ASSUME NEW tables, NEW reset, NEW ok, EnterDisconnected(tables, reset, ok)
    PROVE  FailClosed'
BY DEF EnterDisconnected, FailClosed

LEMMA FailClosedStep ==
    ASSUME FailClosed, [Next]_vars
    PROVE  FailClosed'
<1>1. CASE DisconnectedNext
  <2>1. CASE DisconnectedStores \/ DisconnectedReapplies
    BY <2>1 DEF DisconnectedStores, DisconnectedReapplies, FailClosed
  <2>2. CASE DisconnectedConnects
    BY <2>2, ConnectingFailsClosed DEF DisconnectedConnects
  <2> QED  BY <1>1, <2>1, <2>2 DEF DisconnectedNext
<1>2. CASE ErrorNext
  <2>1. CASE ErrorStores
    BY <2>1 DEF ErrorStores, FailClosed, kernel
  <2>2. CASE ErrorReapplies
    BY <2>2, PoliciesAreTables DEF ErrorReapplies, Applied, FailClosed
  <2>3. CASE ErrorComesOnline \/ ErrorConnects
    BY <2>3, ConnectingFailsClosed DEF ErrorComesOnline, ErrorConnects
  <2>4. CASE ErrorBlocks
    BY <2>4, ErrorFailsClosed DEF ErrorBlocks
  <2>5. CASE ErrorDisconnects
    BY <2>5, DisconnectedFailsClosed DEF ErrorDisconnects
  <2> QED  BY <1>2, <2>1, <2>2, <2>3, <2>4, <2>5 DEF ErrorNext
<1>3. CASE DisconnectingNext
  <2>1. CASE DisconnectingClosed
    BY <2>1, ErrorFailsClosed, ConnectingFailsClosed, DisconnectedFailsClosed
       DEF DisconnectingClosed
  <2>2. CASE ~DisconnectingClosed
    BY <1>3, <2>2 DEF DisconnectingNext, DisconnectingStores, DisconnectingConnectivity,
       DisconnectingConnect, DisconnectingDisconnect, DisconnectingBlock,
       DisconnectingNoCommands, kernel, FailClosed
  <2> QED  BY <2>1, <2>2
<1>4. CASE ActiveNext
  <2>1. CASE ActiveStores
    BY <2>1 DEF ActiveStores, kernel, FailClosed
  <2>2. CASE ActiveReapplies
    BY <2>2, ReapplyFailsClosed DEF ActiveReapplies
  <2>3. CASE ConnectedDns
    <3>1. fw' # NoTable
      BY <2>3, PoliciesAreTables DEF ConnectedDns, Applied, FailClosed
    <3> QED  BY <2>3, <3>1 DEF ConnectedDns, Disconnects, EnterDisconnecting, FailClosed
  <2>4. CASE ActiveSetSplitApps \/ ActiveConnect \/ ActiveBlock \/ ActiveDisconnect
             \/ HandleDown \/ HandleEventsEnd
    BY <2>4 DEF ActiveSetSplitApps, ActiveConnect, ActiveBlock, ActiveDisconnect, HandleDown,
       HandleEventsEnd, Disconnects, EnterDisconnecting, FailClosed, Active
  <2>5. CASE ConnectingConnectivity \/ ConnectedConnectivity \/ GraceExpires
    BY <2>5 DEF ConnectingConnectivity, ConnectedConnectivity, GraceExpires, Disconnects,
       EnterDisconnecting, FailClosed
  <2>6. CASE HandleInterfaceUp \/ HandlePeerEndpoints
    BY <2>6, ReapplyFailsClosed DEF HandleInterfaceUp, HandlePeerEndpoints, Active
  <2>7. CASE HandleUp
    BY <2>7, ConnectedFailsClosed DEF HandleUp, FailClosed
  <2>8. CASE HandleClose
    BY <2>8, ErrorFailsClosed, ConnectingFailsClosed DEF HandleClose
  <2> QED
    BY <1>4, <2>1, <2>2, <2>3, <2>4, <2>5, <2>6, <2>7, <2>8 DEF ActiveNext
<1>5. CASE ThreadNext
  BY <1>5 DEF ThreadNext, ThreadInterface, ThreadRoutes, ThreadStartFails, ThreadStops,
     ThreadTearsDown, ThreadCloses, ThreadPanics, ThreadOnly, machine, FailClosed
<1>6. CASE ProcessNext
  <2>1. CASE CommandsEnd
    BY <2>1 DEF CommandsEnd, machine, kernel, FailClosed
  <2>2. CASE DisconnectedFinishes \/ ListenerGone \/ Crash \/ Exit
    BY <2>2 DEF DisconnectedFinishes, ListenerGone, Finish, Crash, Exit, FailClosed
  <2>3. CASE BootKeeps \/ BootBlocks \/ BootResets
    BY <2>3, DisconnectedFailsClosed, ErrorFailsClosed DEF BootKeeps, BootBlocks, BootResets
  <2> QED  BY <1>6, <2>1, <2>2, <2>3 DEF ProcessNext
<1>7. CASE UNCHANGED vars
  BY <1>7 DEF vars, FailClosed
<1> QED  BY <1>1, <1>2, <1>3, <1>4, <1>5, <1>6, <1>7 DEF Next

\* The kill switch holds in every reachable state: no combination of failed
\* nftables operations, settings, tunnel events, crashes and restarts leaves
\* an active or disconnecting machine without a table.
THEOREM KillSwitch == Spec => []FailClosed
<1>1. Init => FailClosed
  BY DEF Init, FailClosed
<1> QED  BY <1>1, FailClosedStep, PTL DEF Spec

-----------------------------------------------------------------------------
(***************************************************************************)
(* Type correctness.                                                       *)
(***************************************************************************)
LEMMA PolicyTypes ==
    ASSUME NEW v \in SharedValues, NEW s \in Sessions
    PROVE  {BlockedPolicy(v), ConnectingPolicy(v, s), ConnectedPolicy(v, s)} \subseteq Tables
BY DEF SharedValues, Sessions, BlockedPolicy, ConnectingPolicy, ConnectedPolicy, Tables,
   BlockedTables, ConnectingTables, ConnectedTables

\* The settings a command may leave.
LEMMA NewSettingTypes ==
    ASSUME TypeOK
    PROVE  NewLan \cup NewEndpoint \cup NewDns \cup NewLockdown \cup NewMode \cup NewConnectivity
               \subseteq SharedValues
<1>1. sv \in SharedValues
  BY DEF TypeOK
<1>2. NewLan \subseteq SharedValues /\ NewEndpoint \subseteq SharedValues
  BY <1>1 DEF SharedValues, NewLan, NewEndpoint
<1>3. NewDns \subseteq SharedValues /\ NewConnectivity \subseteq SharedValues
  BY <1>1 DEF SharedValues, NewDns, NewConnectivity
<1>4. NewLockdown \subseteq SharedValues
  BY <1>1 DEF SharedValues, NewLockdown
<1>5. NewMode \subseteq SharedValues
  BY <1>1, SettingsAssumption DEF SharedValues, NewMode
<1> QED  BY <1>2, <1>3, <1>4, <1>5

LEMMA NoSessionType == NoSession \in Sessions /\ NoThread \in Threads /\ Spawned \in Threads
BY DEF NoSession, Sessions, NoThread, Spawned, Threads, NoCause

LEMMA CheckTypes ==
    ASSUME TypeOK, DisableConnectivityCheck \/ ResetConnectivityCheck
    PROVE  nmSaved' \in {"None", "Some(true)", "Some(false)"} /\ nmCheck' \in BOOLEAN
BY DEF TypeOK, DisableConnectivityCheck, ResetConnectivityCheck

\* What the DNS monitor and the end of a process leave.
LEMMA DnsTypes ==
    ASSUME TypeOK
    PROVE  /\ NotHeld(NoDns) \in DnsStates /\ NotHeld(dns.conf) \in DnsStates
           /\ ResetDns => dns' \in DnsStates
           /\ \A c \in DnsConfigs : DnsSet(c) \/ DnsSetFails(c) => dns' \in DnsStates
<1>1. dns \in DnsStates
  BY DEF TypeOK
<1>2. \A c \in DnsConfigs \cup {NoDns, dns.conf} :
        NotHeld(c) \in DnsStates /\ [conf |-> c, held |-> TRUE] \in DnsStates
  BY <1>1 DEF DnsStates, NotHeld
<1> QED  BY <1>1, <1>2 DEF ResetDns, DnsSet, DnsSetFails

\* The variables every `enter` sets; the others are the handler's.
EnteredTypes ==
    /\ state' \in States
    /\ after' \in {"Nothing", "Block", "Reconnect"}
    /\ cause' \in Causes \cup {NoCause}
    /\ attempt' \in 0..MaxAttempt
    /\ session' \in Sessions
    /\ thread' \in Threads
    /\ nmSaved' \in {"None", "Some(true)", "Some(false)"}
    /\ nmCheck' \in BOOLEAN
    /\ blockFailure' \in BOOLEAN
    /\ fw' \in Tables

LEMMA EnterDisconnectedTypes ==
    ASSUME TypeOK, sv' \in SharedValues, NEW reset, NEW ok,
           EnterDisconnected({fw}, reset, ok)
    PROVE  EnteredTypes /\ routes' \in BOOLEAN
<1>1. fw' \in Tables
  <2>1. BlockedPolicy(sv') \in Tables
    BY PolicyTypes, NoSessionType
  <2>2. NoTable \in Tables /\ fw \in Tables
    BY DEF Tables, TypeOK
  <2> QED  BY <2>1, <2>2 DEF EnterDisconnected, Applied, Removed
<1>2. nmSaved' \in {"None", "Some(true)", "Some(false)"} /\ nmCheck' \in BOOLEAN
  BY CheckTypes DEF EnterDisconnected
<1>3. /\ state' = "Disconnected" /\ after' = "Nothing" /\ cause' = NoCause /\ attempt' = 0
      /\ session' = NoSession /\ thread' = Reaped /\ blockFailure' = FALSE /\ routes' = FALSE
  BY DEF EnterDisconnected
<1>4. routes' \in BOOLEAN /\ blockFailure' \in BOOLEAN
  BY <1>3
<1>5. attempt' \in 0..MaxAttempt
  BY <1>3, MaxAttemptAssumption
<1>6. thread' \in Threads /\ session' \in Sessions
  BY <1>3, NoSessionType DEF Reaped, TypeOK
<1> QED
  BY <1>1, <1>2, <1>3, <1>4, <1>5, <1>6 DEF EnteredTypes, States

LEMMA EnterErrorTypes ==
    ASSUME TypeOK, sv' \in SharedValues, NEW tables \in SUBSET Tables,
           NEW reason \in Causes \cup {NoCause},
           NEW ok \in BOOLEAN, EnterError(tables, reason, ok)
    PROVE  EnteredTypes
<1>1. fw' \in Tables
  BY PolicyTypes, NoSessionType DEF EnterError, Applied
<1>2. nmSaved' \in {"None", "Some(true)", "Some(false)"} /\ nmCheck' \in BOOLEAN
  BY CheckTypes DEF EnterError
<1> QED
  BY <1>1, <1>2, NoSessionType, MaxAttemptAssumption
     DEF EnterError, EnteredTypes, States, Reaped, TypeOK

LEMMA EnterConnectingTypes ==
    ASSUME TypeOK, sv' \in SharedValues, NEW n \in 0..MaxAttempt, EnterConnecting(n)
    PROVE  EnteredTypes
<1>1. \A multiHop \in BOOLEAN : NewSession(multiHop) \in Sessions
  BY NoSessionType DEF NewSession, Sessions, SharedValues
<1>2. {fw, ConnectingPolicy(sv', NewSession(FALSE))} \in SUBSET Tables /\ {fw} \in SUBSET Tables
  BY <1>1, PolicyTypes DEF TypeOK
<1>3. CASE \E ok \in BOOLEAN : EnterError({fw}, "Other", ok)
  BY <1>2, <1>3, EnterErrorTypes DEF Causes
<1>4. CASE \E ok \in BOOLEAN :
              EnterError({fw, ConnectingPolicy(sv', NewSession(FALSE))}, "Other", ok)
  BY <1>2, <1>4, EnterErrorTypes DEF Causes
<1>5. ASSUME NEW multiHop \in BOOLEAN,
             /\ state' = "Connecting" /\ attempt' = n
             /\ session' = NewSession(multiHop)
             /\ DisableConnectivityCheck
             /\ fw' = ConnectingPolicy(sv', session')
             /\ thread' = Spawned
             /\ after' = "Nothing" /\ cause' = NoCause /\ blockFailure' = FALSE
      PROVE  EnteredTypes
  <2>1. session' \in Sessions
    BY <1>1, <1>5
  <2>2. fw' \in Tables
    BY <1>5, <2>1, PolicyTypes
  <2>3. nmSaved' \in {"None", "Some(true)", "Some(false)"} /\ nmCheck' \in BOOLEAN
    BY <1>5, CheckTypes
  <2> QED  BY <1>5, <2>1, <2>2, <2>3, NoSessionType DEF EnteredTypes, States
<1> QED  BY <1>3, <1>4, <1>5 DEF EnterConnecting

LEMMA EnterDisconnectingTypes ==
    ASSUME TypeOK, fw' \in Tables, NEW action \in {"Nothing", "Block", "Reconnect"},
           NEW reason \in Causes \cup {NoCause}, NEW n \in 0..MaxAttempt,
           EnterDisconnecting(action, reason, n)
    PROVE  EnteredTypes /\ routes' \in BOOLEAN
BY NoSessionType DEF EnterDisconnecting, EnteredTypes, TypeOK, States, Threads

LEMMA ReapplyTypes ==
    ASSUME TypeOK, sv' \in SharedValues, NEW s \in Sessions, Reapply(s)
    PROVE  EnteredTypes /\ routes' \in BOOLEAN /\ dns' \in DnsStates
<1>1. PICK ok \in BOOLEAN :
        /\ fw' \in Applied({fw}, CurrentPolicy(sv', s), ok)
        /\ IF ok THEN /\ session' = s
                      /\ UNCHANGED <<state, after, cause, attempt, thread, blockFailure,
                                     nmSaved, nmCheck, routes, dns>>
           ELSE Disconnects("Block", "Other", 0)
  BY DEF Reapply
<1>2. fw' \in Tables
  <2>1. CurrentPolicy(sv', s) \in Tables
    BY PolicyTypes DEF CurrentPolicy
  <2> QED  BY <1>1, <2>1 DEF Applied, TypeOK
<1>3. CASE ok
  BY <1>1, <1>2, <1>3 DEF EnteredTypes, TypeOK
<1>4. CASE ~ok
  <2>1. EnterDisconnecting("Block", "Other", 0) /\ dns' \in DnsStates
    BY <1>1, <1>4, DnsTypes DEF Disconnects, TypeOK
  <2>2. 0 \in 0..MaxAttempt
    BY MaxAttemptAssumption
  <2> QED  BY <1>2, <2>1, <2>2, EnterDisconnectingTypes DEF Causes, TypeOK
<1> QED  BY <1>3, <1>4

\* The types of the variables no `enter` sets.
HandlerTypes ==
    /\ sv' \in SharedValues
    /\ dns' \in DnsStates
    /\ cmdOpen' \in BOOLEAN
    /\ secured' \in BOOLEAN

LEMMA TypesTogether ==
    ASSUME EnteredTypes, HandlerTypes, routes' \in BOOLEAN
    PROVE  TypeOK'
BY DEF EnteredTypes, HandlerTypes, TypeOK

\* A command that is only stored.
LEMMA StoresTypes ==
    ASSUME TypeOK, sv' \in SharedValues,
           UNCHANGED <<state, after, cause, attempt, session, blockFailure, nmSaved,
                       fw, dns, nmCheck, routes, thread, cmdOpen, secured>>
    PROVE  TypeOK'
BY DEF TypeOK

LEMMA DisconnectsTypes ==
    ASSUME TypeOK, fw' \in Tables, sv' \in SharedValues, cmdOpen' = cmdOpen, secured' \in BOOLEAN,
           NEW action \in {"Nothing", "Block", "Reconnect"},
           NEW reason \in Causes \cup {NoCause}, NEW n \in 0..MaxAttempt,
           Disconnects(action, reason, n)
    PROVE  TypeOK'
<1>1. EnteredTypes /\ routes' \in BOOLEAN
  BY EnterDisconnectingTypes DEF Disconnects
<1>2. HandlerTypes
  BY DnsTypes DEF Disconnects, HandlerTypes, TypeOK
<1> QED  BY <1>1, <1>2, TypesTogether

LEMMA DisconnectedTypes == ASSUME TypeOK, DisconnectedNext PROVE TypeOK'
<1>1. CASE DisconnectedStores
  <2>1. sv' \in SharedValues
    BY <1>1, NewSettingTypes DEF DisconnectedStores
  <2> QED  BY <1>1, <2>1, StoresTypes DEF DisconnectedStores, kernel
<1>2. CASE DisconnectedReapplies
  <2>1. sv' \in SharedValues
    BY <1>2, NewSettingTypes DEF DisconnectedReapplies
  <2>2. fw' \in Tables
    <3>1. BlockedPolicy(sv') \in Tables /\ NoTable \in Tables /\ fw \in Tables
      BY <2>1, PolicyTypes, NoSessionType DEF TypeOK, Tables
    <3> QED  BY <1>2, <3>1 DEF DisconnectedReapplies, Applied, Removed
  <2> QED  BY <1>2, <2>1, <2>2 DEF DisconnectedReapplies, TypeOK
<1>3. CASE DisconnectedConnects
  <2>1. HandlerTypes /\ sv' \in SharedValues /\ routes' \in BOOLEAN
    BY <1>3 DEF DisconnectedConnects, HandlerTypes, TypeOK
  <2>2. 0 \in 0..MaxAttempt /\ EnterConnecting(0)
    BY <1>3, MaxAttemptAssumption DEF DisconnectedConnects
  <2> QED  BY <2>1, <2>2, EnterConnectingTypes, TypesTogether
<1> QED  BY <1>1, <1>2, <1>3 DEF DisconnectedNext

LEMMA ErrorTypes == ASSUME TypeOK, ErrorNext PROVE TypeOK'
<1> USE DEF Causes
<1>0. 0 \in 0..MaxAttempt /\ {fw} \in SUBSET Tables
  BY MaxAttemptAssumption DEF TypeOK
<1>1. CASE ErrorStores
  <2>1. sv' \in SharedValues
    BY <1>1, NewSettingTypes DEF ErrorStores
  <2> QED  BY <1>1, <2>1, StoresTypes DEF ErrorStores, kernel
<1>2. CASE ErrorReapplies
  <2>1. sv' \in SharedValues
    BY <1>2, NewSettingTypes DEF ErrorReapplies, TypeOK
  <2>2. fw' \in Tables
    BY <1>0, <1>2, <2>1, PolicyTypes, NoSessionType DEF ErrorReapplies, Applied
  <2>3. nmSaved' \in {"None", "Some(true)", "Some(false)"} /\ nmCheck' \in BOOLEAN
    BY <1>2, CheckTypes DEF ErrorReapplies
  <2> QED  BY <1>2, <2>1, <2>2, <2>3 DEF ErrorReapplies, TypeOK
<1>3. CASE ErrorComesOnline
  <2>1. sv' \in SharedValues
    BY <1>3, NewSettingTypes DEF ErrorComesOnline
  <2>2. HandlerTypes /\ routes' \in BOOLEAN
    BY <1>3, <2>1, DnsTypes DEF ErrorComesOnline, HandlerTypes, TypeOK
  <2>3. EnterConnecting(0)
    BY <1>3 DEF ErrorComesOnline
  <2> QED  BY <1>0, <2>1, <2>2, <2>3, EnterConnectingTypes, TypesTogether
<1>4. CASE ErrorConnects
  <2>1. HandlerTypes /\ sv' \in SharedValues /\ routes' \in BOOLEAN
    BY <1>4, DnsTypes DEF ErrorConnects, HandlerTypes, TypeOK
  <2>2. EnterConnecting(0)
    BY <1>4 DEF ErrorConnects
  <2> QED  BY <1>0, <2>1, <2>2, EnterConnectingTypes, TypesTogether
<1>5. CASE ErrorBlocks
  <2>1. HandlerTypes /\ sv' \in SharedValues /\ routes' \in BOOLEAN
    BY <1>5 DEF ErrorBlocks, HandlerTypes, TypeOK
  <2>2. \E ok \in BOOLEAN : EnterError({fw}, "Other", ok)
    BY <1>5 DEF ErrorBlocks
  <2> QED  BY <1>0, <2>1, <2>2, EnterErrorTypes, TypesTogether
<1>6. CASE ErrorDisconnects
  <2>1. HandlerTypes /\ sv' \in SharedValues
    BY <1>6, DnsTypes DEF ErrorDisconnects, HandlerTypes, TypeOK
  <2>2. \E ok \in BOOLEAN : EnterDisconnected({fw}, TRUE, ok)
    BY <1>6 DEF ErrorDisconnects
  <2> QED  BY <2>1, <2>2, EnterDisconnectedTypes, TypesTogether
<1> QED  BY <1>1, <1>2, <1>3, <1>4, <1>5, <1>6 DEF ErrorNext

LEMMA DisconnectingTypes == ASSUME TypeOK, DisconnectingNext PROVE TypeOK'
<1> USE DEF Causes
<1>0. 0 \in 0..MaxAttempt /\ {fw} \in SUBSET Tables
  BY MaxAttemptAssumption DEF TypeOK
<1>1. CASE DisconnectingStores
  <2>1. sv' \in SharedValues
    BY <1>1, NewSettingTypes DEF DisconnectingStores
  <2> QED  BY <1>1, <2>1, StoresTypes DEF DisconnectingStores, kernel
<1>2. CASE DisconnectingConnectivity
  <2>1. sv' \in SharedValues
    BY <1>2, NewSettingTypes DEF DisconnectingConnectivity
  <2> QED  BY <1>0, <1>2, <2>1 DEF DisconnectingConnectivity, AfterConnectivity, kernel, TypeOK
<1>3. CASE DisconnectingConnect \/ DisconnectingDisconnect \/ DisconnectingBlock
           \/ DisconnectingNoCommands
  BY <1>0, <1>3 DEF DisconnectingConnect, DisconnectingDisconnect, DisconnectingBlock,
     DisconnectingNoCommands, kernel, TypeOK
<1>4. CASE DisconnectingClosed
  <2>1. HandlerTypes /\ sv' \in SharedValues /\ routes' \in BOOLEAN
    BY <1>4 DEF DisconnectingClosed, HandlerTypes, TypeOK
  <2>2. thread.result \in Causes \cup {NoCause} /\ cause \in Causes \cup {NoCause}
        /\ attempt \in 0..MaxAttempt
    BY DEF TypeOK, Threads
  <2>3. \/ \E ok \in BOOLEAN : EnterError({fw}, thread.result, ok)
        \/ \E ok \in BOOLEAN : EnterError({fw}, cause, ok)
        \/ \E ok \in BOOLEAN : EnterDisconnected({fw}, TRUE, ok)
        \/ EnterConnecting(attempt)
    BY <1>4 DEF DisconnectingClosed
  <2>4. EnteredTypes
    BY <1>0, <2>1, <2>2, <2>3, EnterErrorTypes, EnterDisconnectedTypes, EnterConnectingTypes
  <2> QED  BY <2>1, <2>4, TypesTogether
<1> QED  BY <1>1, <1>2, <1>3, <1>4 DEF DisconnectingNext

LEMMA ActiveTypes == ASSUME TypeOK, ActiveNext PROVE TypeOK'
<1> USE DEF Causes
<1>0. /\ 0 \in 0..MaxAttempt /\ NextAttempt \in 0..MaxAttempt
      /\ fw \in Tables /\ {fw} \in SUBSET Tables /\ session \in Sessions
  BY MaxAttemptAssumption DEF TypeOK, NextAttempt
<1>1. CASE ActiveStores
  <2>1. sv' \in SharedValues
    BY <1>1, NewSettingTypes DEF ActiveStores
  <2> QED  BY <1>1, <2>1, StoresTypes DEF ActiveStores, kernel
<1>2. ASSUME NEW s \in Sessions, Reapply(s), sv' \in SharedValues, UNCHANGED <<cmdOpen, secured>>
      PROVE  TypeOK'
  <2>1. EnteredTypes /\ routes' \in BOOLEAN /\ dns' \in DnsStates
    BY <1>2, ReapplyTypes
  <2>2. HandlerTypes
    BY <1>2, <2>1 DEF HandlerTypes, TypeOK
  <2> QED  BY <2>1, <2>2, TypesTogether
<1>3. CASE ActiveReapplies
  <2>1. sv' \in SharedValues
    BY <1>3, NewSettingTypes DEF ActiveReapplies, TypeOK
  <2> QED  BY <1>0, <1>2, <1>3, <2>1 DEF ActiveReapplies
<1>4. CASE HandleInterfaceUp \/ HandlePeerEndpoints
  <2>1. \A p \in {"relay", "migrated"} :
            /\ [session EXCEPT !.peers = p] \in Sessions
            /\ [session EXCEPT !.metadata = TRUE] \in Sessions
    BY <1>0 DEF Sessions
  <2>2. sv' \in SharedValues /\ UNCHANGED <<cmdOpen, secured>>
    BY <1>4 DEF HandleInterfaceUp, HandlePeerEndpoints, TypeOK
  <2> QED  BY <1>2, <1>4, <2>1, <2>2 DEF HandleInterfaceUp, HandlePeerEndpoints
<1>5. CASE ConnectedDns
  <2>1. sv' \in SharedValues /\ sv'.dns \in DnsConfigs
    BY <1>5, NewSettingTypes DEF ConnectedDns, SharedValues
  <2>2. fw' \in Tables
    <3>1. ConnectedPolicy(sv', session) \in Tables
      BY <1>0, <2>1, PolicyTypes
    <3> QED  BY <1>0, <1>5, <3>1 DEF ConnectedDns, Applied
  <2>3. CASE Disconnects("Block", "Other", 0)
    BY <1>0, <1>5, <2>1, <2>2, <2>3, DisconnectsTypes DEF ConnectedDns, TypeOK
  <2>4. CASE EnterDisconnecting("Block", "Other", 0) /\ DnsSetFails(sv'.dns)
    <3>1. EnteredTypes /\ routes' \in BOOLEAN
      BY <1>0, <2>2, <2>4, EnterDisconnectingTypes
    <3>2. HandlerTypes
      BY <1>5, <2>1, <2>4, DnsTypes DEF ConnectedDns, HandlerTypes, TypeOK
    <3> QED  BY <3>1, <3>2, TypesTogether
  <2>5. CASE /\ DnsSet(sv'.dns)
             /\ UNCHANGED <<state, after, cause, attempt, session, thread, blockFailure,
                            nmSaved, nmCheck, routes>>
    <3>1. dns' \in DnsStates
      BY <2>1, <2>5, DnsTypes
    <3> QED  BY <1>5, <2>1, <2>2, <2>5, <3>1 DEF ConnectedDns, TypeOK
  <2> QED  BY <1>5, <2>3, <2>4, <2>5 DEF ConnectedDns
<1>6. CASE ActiveSetSplitApps \/ ActiveConnect \/ ActiveBlock \/ ActiveDisconnect
           \/ HandleDown \/ HandleEventsEnd
  <2>1. fw' \in Tables /\ cmdOpen' = cmdOpen /\ secured' \in BOOLEAN /\ sv' \in SharedValues
    BY <1>0, <1>6, NewSettingTypes DEF ActiveSetSplitApps, ActiveConnect, ActiveBlock,
       ActiveDisconnect, HandleDown, HandleEventsEnd, TypeOK
  <2>2. \E action \in {"Nothing", "Block", "Reconnect"}, reason \in Causes \cup {NoCause},
           n \in 0..MaxAttempt : Disconnects(action, reason, n)
    BY <1>0, <1>6 DEF ActiveSetSplitApps, ActiveConnect, ActiveBlock, ActiveDisconnect,
       HandleDown, HandleEventsEnd
  <2> QED  BY <2>1, <2>2, DisconnectsTypes
<1>7. CASE ConnectingConnectivity \/ ConnectedConnectivity \/ GraceExpires
  <2>1. fw' \in Tables /\ cmdOpen' = cmdOpen /\ secured' \in BOOLEAN /\ sv' \in SharedValues
    BY <1>0, <1>7, NewSettingTypes DEF ConnectingConnectivity, ConnectedConnectivity,
       GraceExpires, TypeOK
  <2>2. CASE Disconnects("Block", "IsOffline", 0)
    BY <1>0, <2>1, <2>2, DisconnectsTypes
  <2>3. CASE ~Disconnects("Block", "IsOffline", 0)
    <3>1. session' \in Sessions
      BY <1>0, <1>7, <2>3 DEF ConnectingConnectivity, ConnectedConnectivity, GraceExpires, Sessions
    <3>2. UNCHANGED <<state, after, cause, attempt, thread, blockFailure, nmSaved, nmCheck,
                      routes, dns, secured>>
      BY <1>7, <2>3 DEF ConnectingConnectivity, ConnectedConnectivity, GraceExpires
    <3> QED  BY <2>1, <3>1, <3>2 DEF TypeOK
  <2> QED  BY <2>2, <2>3
<1>8. CASE HandleUp
  <2>1. /\ sv \in SharedValues /\ sv.dns \in DnsConfigs
        /\ ConnectedPolicy(sv, session) \in Tables
    BY <1>0, PolicyTypes DEF TypeOK, SharedValues
  <2>2. EnterConnected /\ UNCHANGED <<sv, cmdOpen, secured>>
    BY <1>8 DEF HandleUp
  <2>3. fw' \in Tables
    BY <1>0, <2>1, <2>2 DEF EnterConnected, Applied
  <2>4. dns' \in DnsStates
    BY <2>1, <2>2, DnsTypes DEF EnterConnected, TypeOK
  <2>5. HandlerTypes
    BY <2>1, <2>2, <2>4 DEF HandlerTypes, TypeOK
  <2>6. CASE \E reason \in Causes : EnterDisconnecting("Block", reason, 0)
    BY <1>0, <2>3, <2>5, <2>6, EnterDisconnectingTypes, TypesTogether
  <2>7. CASE /\ state' = "Connected" /\ attempt' = 0
             /\ session' = [session EXCEPT !.metadata = TRUE,
                                           !.grace = (sv.connectivity = "Offline")]
             /\ UNCHANGED <<after, cause, blockFailure, nmSaved, nmCheck, routes, thread>>
    <3>1. session' \in Sessions
      BY <1>0, <2>7 DEF Sessions
    <3> QED  BY <1>0, <2>3, <2>5, <2>7, <3>1 DEF HandlerTypes, TypeOK, States
  <2> QED  BY <2>2, <2>6, <2>7 DEF EnterConnected
<1>9. CASE HandleClose
  <2>1. HandlerTypes /\ sv' \in SharedValues /\ routes' \in BOOLEAN
    BY <1>9, DnsTypes DEF HandleClose, HandlerTypes, TypeOK
  <2>2. \/ \E reason \in Causes \cup {NoCause}, ok \in BOOLEAN : EnterError({fw}, reason, ok)
        \/ EnterConnecting(NextAttempt) \/ EnterConnecting(0)
    <3>1. thread.result \in Causes \cup {NoCause}
      BY DEF TypeOK, Threads
    <3> QED  BY <1>9, <3>1 DEF HandleClose
  <2>3. EnteredTypes
    BY <1>0, <2>1, <2>2, EnterErrorTypes, EnterConnectingTypes
  <2> QED  BY <2>1, <2>3, TypesTogether
<1> QED  BY <1>1, <1>3, <1>4, <1>5, <1>6, <1>7, <1>8, <1>9 DEF ActiveNext

LEMMA ThreadTypes == ASSUME TypeOK, ThreadNext PROVE TypeOK'
<1>1. thread' \in Threads
  BY DEF ThreadNext, ThreadInterface, ThreadRoutes, ThreadStartFails, ThreadStops,
     ThreadTearsDown, ThreadCloses, ThreadPanics, TypeOK, Threads
<1>2. routes' \in BOOLEAN
  BY DEF ThreadNext, ThreadInterface, ThreadRoutes, ThreadStartFails, ThreadStops,
     ThreadTearsDown, ThreadCloses, ThreadPanics, TypeOK
<1>3. ThreadOnly
  BY DEF ThreadNext, ThreadInterface, ThreadRoutes, ThreadStartFails, ThreadStops,
     ThreadTearsDown, ThreadCloses, ThreadPanics
<1> QED  BY <1>1, <1>2, <1>3 DEF ThreadOnly, machine, TypeOK

LEMMA ProcessTypes == ASSUME TypeOK, ProcessNext PROVE TypeOK'
<1>0. /\ 0 \in 0..MaxAttempt /\ fw \in Tables /\ NoTable \in Tables /\ {fw} \in SUBSET Tables
      /\ "Other" \in Causes
  BY MaxAttemptAssumption DEF TypeOK, Tables, Causes
<1>1. CASE CommandsEnd
  BY <1>1 DEF CommandsEnd, machine, kernel, TypeOK
<1>2. CASE DisconnectedFinishes \/ ListenerGone
  <2>1. Finish /\ dns' \in DnsStates
    BY <1>2, DnsTypes DEF DisconnectedFinishes, ListenerGone, TypeOK
  <2>2. fw' \in Tables
    BY <1>0, <2>1 DEF Finish, Removed
  <2>3. thread' \in Threads
    BY <2>1 DEF Finish, TypeOK, Threads
  <2> QED  BY <1>0, <2>1, <2>2, <2>3, NoSessionType DEF Finish, TypeOK, States
<1>3. CASE Crash \/ Exit
  <2>1. dns' \in DnsStates
    BY <1>3, DnsTypes DEF Crash, Exit
  <2> QED  BY <1>0, <1>3, <2>1, NoSessionType DEF Crash, Exit, TypeOK, States
<1>4. CASE BootKeeps \/ BootBlocks \/ BootResets
  <2>1. sv' \in SharedValues
    BY <1>4 DEF BootKeeps, BootBlocks, BootResets, Starts, TypeOK, SharedValues
  <2>2. HandlerTypes
    BY <1>4, <2>1 DEF BootKeeps, BootBlocks, BootResets, Starts, HandlerTypes, TypeOK
  <2>3. \/ \E reset, ok \in BOOLEAN : EnterDisconnected({fw}, reset, ok)
        \/ routes' = routes /\ \E ok \in BOOLEAN : EnterError({fw}, "Other", ok)
    BY <1>4 DEF BootKeeps, BootBlocks, BootResets
  <2>4. EnteredTypes /\ routes' \in BOOLEAN
    BY <1>0, <2>1, <2>3, EnterDisconnectedTypes, EnterErrorTypes DEF TypeOK
  <2> QED  BY <2>2, <2>4, TypesTogether
<1> QED  BY <1>1, <1>2, <1>3, <1>4 DEF ProcessNext

\* Every variable of the state machine keeps its type, and retry_attempt its
\* bound, whatever the settings are.
THEOREM TypeCorrect == Spec => []TypeOK
<1>1. Init => TypeOK
  <2> SUFFICES ASSUME Init PROVE TypeOK
    OBVIOUS
  <2>1. fw \in Tables
    BY DEF Init, Tables
  <2>2. sv \in SharedValues
    <3>1. {FALSE, CanInclude} \subseteq BOOLEAN
      BY SettingsAssumption
    <3> QED  BY <3>1 DEF Init, SharedValues
  <2>3. /\ blockFailure \in BOOLEAN /\ nmCheck \in BOOLEAN /\ routes \in BOOLEAN
        /\ cmdOpen \in BOOLEAN /\ secured \in BOOLEAN
    BY DEF Init
  <2>4. /\ state = "Dead" /\ after = "Nothing" /\ cause = NoCause /\ attempt = 0
        /\ session = NoSession /\ nmSaved = "None" /\ thread = NoThread
        /\ dns \in DnsStates
    BY DEF Init, NotHeld, DnsStates
  <2>5. attempt \in 0..MaxAttempt
    BY <2>4, MaxAttemptAssumption
  <2> QED  BY <2>1, <2>2, <2>3, <2>4, <2>5, NoSessionType DEF TypeOK, States
<1>2. TypeOK /\ [Next]_vars => TypeOK'
  <2> SUFFICES ASSUME TypeOK, [Next]_vars PROVE TypeOK'
    OBVIOUS
  <2>1. CASE UNCHANGED vars
    BY <2>1 DEF vars, TypeOK
  <2> QED
    BY <2>1, DisconnectedTypes, ErrorTypes, DisconnectingTypes, ActiveTypes, ThreadTypes,
       ProcessTypes DEF Next
<1> QED  BY <1>1, <1>2, PTL DEF Spec

-----------------------------------------------------------------------------
(***************************************************************************)
(* Whether the tunnel is wanted.  DialsOnlyWhenWanted is not inductive: an *)
(* online edge turns a pending offline block back into a reconnection, and *)
(* an offline error state dials by itself, so both must be known to follow *)
(* from a Connect; and NeverOpens needs to know that a machine about to be *)
(* disconnected is no longer wanted.                                       *)
(***************************************************************************)
Wanted ==
    /\ state \in {"Connecting", "Connected"} => secured
    /\ after # "Nothing" => state = "Disconnecting" /\ secured
    /\ state = "Error" /\ cause = "IsOffline" => secured
    /\ state = "Disconnecting" /\ after = "Nothing" => ~secured

LEMMA ConnectingWanted ==
    ASSUME NEW n, EnterConnecting(n), secured'
    PROVE  Wanted'
BY DEF EnterConnecting, EnterError, Wanted

LEMMA ErrorWanted ==
    ASSUME NEW tables, NEW reason, NEW ok, EnterError(tables, reason, ok),
           reason = "IsOffline" => secured'
    PROVE  Wanted'
BY DEF EnterError, Wanted

LEMMA DisconnectedWanted ==
    ASSUME NEW tables, NEW reset, NEW ok, EnterDisconnected(tables, reset, ok)
    PROVE  Wanted'
BY DEF EnterDisconnected, Wanted

LEMMA DisconnectsWanted ==
    ASSUME NEW action, NEW reason, NEW n, EnterDisconnecting(action, reason, n),
           action = "Nothing" => ~secured', action # "Nothing" => secured'
    PROVE  Wanted'
BY DEF EnterDisconnecting, Wanted

LEMMA ReapplyWanted ==
    ASSUME Wanted, Active, secured' = secured, NEW s, Reapply(s)
    PROVE  Wanted'
BY DEF Reapply, Disconnects, EnterDisconnecting, Wanted, Active

LEMMA ActiveWanted == ASSUME Wanted, ActiveNext PROVE Wanted'
<1>0. Active => secured
  BY DEF Wanted, Active
<1>1. CASE ActiveStores
  BY <1>1 DEF ActiveStores, Wanted
<1>2. CASE ActiveReapplies \/ HandleInterfaceUp \/ HandlePeerEndpoints
  BY <1>2, ReapplyWanted DEF ActiveReapplies, HandleInterfaceUp, HandlePeerEndpoints, Active
<1>3. CASE ConnectedDns
  BY <1>3 DEF ConnectedDns, Disconnects, EnterDisconnecting, Wanted
<1>4. CASE ActiveSetSplitApps \/ ActiveConnect \/ ActiveBlock \/ HandleDown \/ HandleEventsEnd
  BY <1>0, <1>4 DEF ActiveSetSplitApps, ActiveConnect, ActiveBlock, HandleDown, HandleEventsEnd,
     Disconnects, EnterDisconnecting, Wanted, Active
<1>5. CASE ActiveDisconnect
  BY <1>5 DEF ActiveDisconnect, Disconnects, EnterDisconnecting, Wanted
<1>6. CASE ConnectingConnectivity \/ ConnectedConnectivity \/ GraceExpires
  BY <1>6 DEF ConnectingConnectivity, ConnectedConnectivity, GraceExpires, Disconnects,
     EnterDisconnecting, Wanted
<1>7. CASE HandleUp
  BY <1>7 DEF HandleUp, EnterConnected, EnterDisconnecting, Wanted
<1>8. CASE HandleClose
  BY <1>0, <1>8, ErrorWanted, ConnectingWanted DEF HandleClose
<1> QED  BY <1>1, <1>2, <1>3, <1>4, <1>5, <1>6, <1>7, <1>8 DEF ActiveNext

LEMMA WantedStep ==
    ASSUME TypeOK, Wanted, [Next]_vars
    PROVE  Wanted'
<1>1. CASE DisconnectedNext
  <2>1. CASE DisconnectedStores \/ DisconnectedReapplies
    BY <2>1 DEF DisconnectedStores, DisconnectedReapplies, Wanted
  <2>2. CASE DisconnectedConnects
    BY <2>2, ConnectingWanted DEF DisconnectedConnects
  <2> QED  BY <1>1, <2>1, <2>2 DEF DisconnectedNext
<1>2. CASE ErrorNext
  <2>1. CASE ErrorStores \/ ErrorReapplies
    BY <2>1 DEF ErrorStores, ErrorReapplies, Wanted
  <2>2. CASE ErrorComesOnline
    <3>1. secured'
      BY <2>2 DEF ErrorComesOnline, Wanted
    <3> QED  BY <2>2, <3>1, ConnectingWanted DEF ErrorComesOnline
  <2>3. CASE ErrorConnects
    BY <2>3, ConnectingWanted DEF ErrorConnects
  <2>4. CASE ErrorBlocks
    BY <2>4, ErrorWanted DEF ErrorBlocks
  <2>5. CASE ErrorDisconnects
    BY <2>5, DisconnectedWanted DEF ErrorDisconnects
  <2> QED  BY <1>2, <2>1, <2>2, <2>3, <2>4, <2>5 DEF ErrorNext
<1>3. CASE DisconnectingNext
  <2>1. CASE DisconnectingStores
    BY <2>1 DEF DisconnectingStores, Wanted
  <2>2. CASE DisconnectingConnectivity
    BY <2>2 DEF DisconnectingConnectivity, AfterConnectivity, Wanted
  <2>3. CASE DisconnectingConnect \/ DisconnectingDisconnect \/ DisconnectingBlock
             \/ DisconnectingNoCommands
    BY <2>3 DEF DisconnectingConnect, DisconnectingDisconnect, DisconnectingBlock,
       DisconnectingNoCommands, Wanted
  <2>4. CASE DisconnectingClosed
    <3>1. thread.result # "IsOffline" /\ secured' = secured
      BY <2>4 DEF DisconnectingClosed, TypeOK, Threads, NoCause
    <3>2. after # "Nothing" => secured'
      BY <3>1 DEF Wanted
    <3> QED
      BY <2>4, <3>1, <3>2, ErrorWanted, DisconnectedWanted, ConnectingWanted
         DEF DisconnectingClosed
  <2> QED  BY <1>3, <2>1, <2>2, <2>3, <2>4 DEF DisconnectingNext
<1>4. CASE ActiveNext
  BY <1>4, ActiveWanted
<1>5. CASE ThreadNext
  <2>1. ThreadOnly
    BY <1>5 DEF ThreadNext, ThreadInterface, ThreadRoutes, ThreadStartFails, ThreadStops,
       ThreadTearsDown, ThreadCloses, ThreadPanics
  <2> QED  BY <2>1 DEF ThreadOnly, machine, Wanted
<1>6. CASE ProcessNext
  <2>1. CASE CommandsEnd
    BY <2>1 DEF CommandsEnd, machine, Wanted
  <2>2. CASE DisconnectedFinishes \/ ListenerGone \/ Crash
    BY <2>2 DEF DisconnectedFinishes, ListenerGone, Finish, Crash, Wanted
  <2>3. CASE Exit
    BY <2>3 DEF Exit, Wanted
  <2>4. CASE BootKeeps \/ BootBlocks \/ BootResets
    BY <2>4, DisconnectedWanted, ErrorWanted DEF BootKeeps, BootBlocks, BootResets
  <2> QED  BY <1>6, <2>1, <2>2, <2>3, <2>4 DEF ProcessNext
<1>7. CASE UNCHANGED vars
  BY <1>7 DEF vars, Wanted
<1> QED  BY <1>1, <1>2, <1>3, <1>4, <1>5, <1>6, <1>7 DEF Next

LEMMA WantedInvariant == Spec => []Wanted
<1>1. Init => Wanted
  BY DEF Init, Wanted
<1> QED  BY <1>1, WantedStep, TypeCorrect, PTL DEF Spec

\* A Disconnect is final: no order of connectivity edges, closes, failures and
\* restarts makes the machine dial, or plan to, before the next Connect.
THEOREM DisconnectIsFinal == Spec => []DialsOnlyWhenWanted
<1>1. Wanted => DialsOnlyWhenWanted
  BY DEF Wanted, DialsOnlyWhenWanted
<1> QED  BY <1>1, WantedInvariant, PTL

\* A settings command keeps the lockdown mode unless it is the one that toggles it.
LEMMA EndpointKeepsLockdown ==
    ASSUME TypeOK, sv' \in NewEndpoint
    PROVE  sv'.lockdown = sv.lockdown
BY DEF TypeOK, SharedValues, NewEndpoint

LEMMA NeverOpensStep ==
    ASSUME TypeOK, Wanted, FailClosed, FailClosed', [Next]_vars, secured, secured', fw # NoTable
    PROVE  fw' # NoTable
<1>1. CASE DisconnectedNext
  <2>1. CASE DisconnectedStores
    BY <2>1 DEF DisconnectedStores, kernel
  <2>2. CASE DisconnectedReapplies
    <3>1. sv'.lockdown = sv.lockdown
      BY <2>2, EndpointKeepsLockdown DEF DisconnectedReapplies, Booting
    <3> QED  BY <2>2, <3>1, PoliciesAreTables DEF DisconnectedReapplies, Applied
  <2>3. CASE DisconnectedConnects
    BY <2>3, PoliciesAreTables DEF DisconnectedConnects, EnterConnecting, EnterError, Applied
  <2> QED  BY <1>1, <2>1, <2>2, <2>3 DEF DisconnectedNext
<1>2. CASE ErrorNext
  <2>1. CASE ErrorStores
    BY <2>1 DEF ErrorStores, kernel
  <2>2. CASE ErrorReapplies
    BY <2>2, PoliciesAreTables DEF ErrorReapplies, Applied
  <2>3. CASE ErrorComesOnline \/ ErrorConnects \/ ErrorBlocks
    BY <2>3, PoliciesAreTables DEF ErrorComesOnline, ErrorConnects, ErrorBlocks, EnterConnecting,
       EnterError, Applied
  <2>4. CASE ErrorDisconnects
    BY <2>4 DEF ErrorDisconnects
  <2> QED  BY <1>2, <2>1, <2>2, <2>3, <2>4 DEF ErrorNext
<1>3. CASE DisconnectingNext
  <2>1. CASE DisconnectingClosed
    <3>1. after # "Nothing"
      BY <2>1 DEF DisconnectingClosed, Wanted
    <3> QED
      BY <2>1, <3>1, PoliciesAreTables
         DEF DisconnectingClosed, EnterConnecting, EnterError, Applied
  <2>2. CASE ~DisconnectingClosed
    BY <1>3, <2>2 DEF DisconnectingNext, DisconnectingStores, DisconnectingConnectivity,
       DisconnectingConnect, DisconnectingDisconnect, DisconnectingBlock,
       DisconnectingNoCommands, kernel
  <2> QED  BY <2>1, <2>2
<1>4. CASE ActiveNext
  <2>1. CASE HandleClose
    BY <2>1, PoliciesAreTables DEF HandleClose, EnterConnecting, EnterError, Applied
  <2>2. CASE ~HandleClose
    <3>1. state' \in {"Connecting", "Connected", "Disconnecting"}
      BY <1>4, <2>2 DEF ActiveNext, ActiveStores, ActiveReapplies, ConnectedDns,
         ActiveSetSplitApps, ConnectingConnectivity, ConnectedConnectivity, GraceExpires,
         ActiveConnect, ActiveBlock, ActiveDisconnect, HandleInterfaceUp, HandleUp,
         HandlePeerEndpoints, HandleDown, HandleEventsEnd, Reapply, Disconnects,
         EnterDisconnecting, EnterConnected, Active
    <3> QED  BY <3>1 DEF FailClosed
  <2> QED  BY <2>1, <2>2
<1>5. CASE ThreadNext
  BY <1>5 DEF ThreadNext, ThreadInterface, ThreadRoutes, ThreadStartFails, ThreadStops,
     ThreadTearsDown, ThreadCloses, ThreadPanics, ThreadOnly
<1>6. CASE ProcessNext
  <2>1. CASE CommandsEnd \/ Crash \/ Exit
    BY <2>1 DEF CommandsEnd, Crash, Exit, kernel
  <2>2. CASE DisconnectedFinishes \/ ListenerGone \/ BootResets
    BY <2>2 DEF DisconnectedFinishes, ListenerGone, Finish, BootResets
  <2>3. CASE BootKeeps \/ BootBlocks
    BY <2>3, PoliciesAreTables DEF BootKeeps, BootBlocks, EnterDisconnected, EnterError, Applied
  <2> QED  BY <1>6, <2>1, <2>2, <2>3 DEF ProcessNext
<1>7. CASE UNCHANGED vars
  BY <1>7 DEF vars
<1> QED  BY <1>1, <1>2, <1>3, <1>4, <1>5, <1>6, <1>7 DEF Next

\* The table is never taken away from a user who wants the tunnel: across
\* laps, reconnections, failed operations, a crash and the restart after it.
THEOREM WantedStaysBlocked == Spec => NeverOpens
<1>1. /\ TypeOK /\ Wanted /\ FailClosed /\ FailClosed' /\ [Next]_vars
      => [secured /\ secured' /\ fw # NoTable => fw' # NoTable]_vars
  BY NeverOpensStep
<1> QED  BY <1>1, TypeCorrect, WantedInvariant, KillSwitch, PTL DEF Spec, NeverOpens
-----------------------------------------------------------------------------
(***************************************************************************)
(* The tunnel thread.  NoTunnelLeft is inductive once it also speaks of a  *)
(* process that is gone: the next one starts without a thread.             *)
(***************************************************************************)
ThreadGone ==
    /\ state \in {"Disconnected", "Error", "Dead"} => thread = NoThread
    /\ state = "Disconnected" => ~routes

\* A thread that is there no more, or whose close event is being handled, is
\* forgotten by the next `enter`.
LEMMA ReapedThread ==
    ASSUME thread = NoThread \/ thread.phase = "closed"
    PROVE  Reaped = NoThread
BY DEF Reaped, NoThread

LEMMA ConnectingThread ==
    ASSUME thread = NoThread \/ thread.phase = "closed", NEW n, EnterConnecting(n)
    PROVE  ThreadGone'
BY ReapedThread DEF EnterConnecting, EnterError, ThreadGone

LEMMA ErrorThread ==
    ASSUME thread = NoThread \/ thread.phase = "closed",
           NEW tables, NEW reason, NEW ok, EnterError(tables, reason, ok)
    PROVE  ThreadGone'
BY ReapedThread DEF EnterError, ThreadGone

LEMMA DisconnectedThread ==
    ASSUME thread = NoThread \/ thread.phase = "closed",
           NEW tables, NEW reset, NEW ok, EnterDisconnected(tables, reset, ok)
    PROVE  ThreadGone'
BY ReapedThread DEF EnterDisconnected, ThreadGone

\* A step of the active states but the close event stays in them, or closes.
LEMMA ActiveStays ==
    ASSUME ActiveNext, ~HandleClose
    PROVE  /\ state' \in {"Connecting", "Connected", "Disconnecting"} /\ routes' = routes
           /\ thread' = thread \/ thread' = [thread EXCEPT !.close = TRUE]
BY DEF ActiveNext, ActiveStores, ActiveReapplies, ConnectedDns, ActiveSetSplitApps,
   ConnectingConnectivity, ConnectedConnectivity, GraceExpires, ActiveConnect, ActiveBlock,
   ActiveDisconnect, HandleInterfaceUp, HandleUp, HandlePeerEndpoints, HandleDown,
   HandleEventsEnd, Reapply, Disconnects, EnterDisconnecting, EnterConnected, Active, kernel

\* Only a thread that is there takes a step.
LEMMA ThreadStays ==
    ASSUME TypeOK, ThreadNext
    PROVE  thread.phase \notin {"none", "closed"} /\ thread'.phase # "starting" /\ ThreadOnly
<1>1. ThreadOnly /\ thread.phase \notin {"none", "closed"}
  BY DEF ThreadNext, ThreadInterface, ThreadRoutes, ThreadStartFails, ThreadStops,
     ThreadTearsDown, ThreadCloses, ThreadPanics
<1>2. PICK p \in {"iface", "up", "ended", "teardown", "closed"} :
         thread' = [thread EXCEPT !.phase = p]
         \/ \E r : thread' = [thread EXCEPT !.phase = p, !.result = r]
  BY DEF ThreadNext, ThreadInterface, ThreadRoutes, ThreadStartFails, ThreadStops,
     ThreadTearsDown, ThreadCloses, ThreadPanics
<1>3. thread'.phase = p
  BY <1>2 DEF TypeOK, Threads
<1> QED  BY <1>1, <1>3

LEMMA ThreadGoneStep ==
    ASSUME TypeOK, ThreadGone, [Next]_vars
    PROVE  ThreadGone'
<1>1. CASE DisconnectedNext
  <2>1. CASE DisconnectedStores \/ DisconnectedReapplies
    BY <2>1 DEF DisconnectedStores, DisconnectedReapplies, kernel, ThreadGone
  <2>2. CASE DisconnectedConnects
    BY <2>2, ConnectingThread DEF DisconnectedConnects, ThreadGone
  <2> QED  BY <1>1, <2>1, <2>2 DEF DisconnectedNext
<1>2. CASE ErrorNext
  <2>1. CASE ErrorStores \/ ErrorReapplies
    BY <2>1 DEF ErrorStores, ErrorReapplies, kernel, ThreadGone
  <2>2. CASE ErrorComesOnline \/ ErrorConnects
    BY <2>2, ConnectingThread DEF ErrorComesOnline, ErrorConnects, ThreadGone
  <2>3. CASE ErrorBlocks \/ ErrorDisconnects
    BY <2>3, ErrorThread, DisconnectedThread DEF ErrorBlocks, ErrorDisconnects, ThreadGone
  <2> QED  BY <1>2, <2>1, <2>2, <2>3 DEF ErrorNext
<1>3. CASE DisconnectingNext
  <2>1. CASE DisconnectingClosed
    BY <2>1, ErrorThread, ConnectingThread, DisconnectedThread DEF DisconnectingClosed
  <2>2. CASE ~DisconnectingClosed
    BY <1>3, <2>2 DEF DisconnectingNext, DisconnectingStores, DisconnectingConnectivity,
       DisconnectingConnect, DisconnectingDisconnect, DisconnectingBlock,
       DisconnectingNoCommands, ThreadGone
  <2> QED  BY <2>1, <2>2
<1>4. CASE ActiveNext
  <2>1. CASE HandleClose
    BY <2>1, ErrorThread, ConnectingThread DEF HandleClose
  <2> QED  BY <1>4, <2>1, ActiveStays DEF ThreadGone
<1>5. CASE ThreadNext
  <2>1. state' = state /\ state \notin {"Disconnected", "Error", "Dead"}
    BY <1>5, ThreadStays DEF ThreadOnly, machine, ThreadGone, NoThread
  <2> QED  BY <2>1 DEF ThreadGone
<1>6. CASE ProcessNext
  <2>1. CASE CommandsEnd
    BY <2>1 DEF CommandsEnd, machine, kernel, ThreadGone
  <2>2. CASE DisconnectedFinishes \/ ListenerGone \/ Crash \/ Exit
    BY <2>2 DEF DisconnectedFinishes, ListenerGone, Finish, Crash, Exit, ThreadGone
  <2>3. CASE BootKeeps \/ BootBlocks \/ BootResets
    BY <2>3, DisconnectedThread, ErrorThread
       DEF BootKeeps, BootBlocks, BootResets, Starts, ThreadGone
  <2> QED  BY <1>6, <2>1, <2>2, <2>3 DEF ProcessNext
<1>7. CASE UNCHANGED vars
  BY <1>7 DEF vars, ThreadGone
<1> QED  BY <1>1, <1>2, <1>3, <1>4, <1>5, <1>6, <1>7 DEF Next

LEMMA ThreadGoneInvariant == Spec => []ThreadGone
<1>1. Init => ThreadGone
  BY DEF Init, ThreadGone
<1> QED  BY <1>1, ThreadGoneStep, TypeCorrect, PTL DEF Spec

\* A blocked or disconnected machine runs no tunnel thread, and a disconnected
\* one has none of the tunnel's routes, in whatever way it got there.
THEOREM TunnelsEnd == Spec => []NoTunnelLeft
<1>1. ThreadGone => NoTunnelLeft
  BY DEF ThreadGone, NoTunnelLeft
<1> QED  BY <1>1, ThreadGoneInvariant, PTL

\* What a step does over a thread that has not closed: it starts no other one,
\* and sweeps no routes on the way into another state.
LEMMA OpenThreadStep ==
    ASSUME TypeOK, ThreadGone, [Next]_vars, thread.phase \notin {"none", "closed"}
    PROVE  /\ thread'.phase = "starting" => thread.phase = "starting"
           /\ routes /\ ~routes' /\ state' # state => state' = "Dead"
<1>0. /\ thread \in Threads /\ state \notin {"Disconnected", "Error", "Dead"}
  BY DEF TypeOK, ThreadGone, NoThread
<1>1. CASE DisconnectedNext \/ ErrorNext
  BY <1>0, <1>1 DEF DisconnectedNext, ErrorNext, DisconnectedStores, DisconnectedReapplies,
     DisconnectedConnects, ErrorStores, ErrorReapplies, ErrorComesOnline, ErrorConnects,
     ErrorBlocks, ErrorDisconnects
<1>2. CASE DisconnectingNext
  BY <1>2 DEF DisconnectingNext, DisconnectingStores, DisconnectingConnectivity,
     DisconnectingConnect, DisconnectingDisconnect, DisconnectingBlock,
     DisconnectingNoCommands, DisconnectingClosed
<1>3. CASE ActiveNext
  <2>1. ~HandleClose
    BY DEF HandleClose
  <2>2. routes' = routes /\ (thread' = thread \/ thread' = [thread EXCEPT !.close = TRUE])
    BY <1>3, <2>1, ActiveStays
  <2> QED  BY <1>0, <2>2 DEF Threads
<1>4. CASE ThreadNext
  BY <1>4, ThreadStays DEF ThreadOnly, machine
<1>5. CASE ProcessNext
  <2>1. CASE CommandsEnd \/ DisconnectedFinishes \/ ListenerGone
    <3>1. routes' = routes /\ (thread' = thread \/ thread' = [thread EXCEPT !.close = TRUE])
      BY <2>1 DEF CommandsEnd, DisconnectedFinishes, ListenerGone, Finish, kernel
    <3> QED  BY <1>0, <3>1 DEF Threads
  <2>2. CASE Crash \/ Exit
    <3>1. thread' = NoThread /\ state' = "Dead"
      BY <2>2 DEF Crash, Exit
    <3> QED  BY <3>1 DEF NoThread
  <2>3. CASE BootKeeps \/ BootBlocks \/ BootResets
    BY <1>0, <2>3 DEF BootKeeps, BootBlocks, BootResets, Starts
  <2> QED  BY <1>5, <2>1, <2>2, <2>3 DEF ProcessNext
<1>6. CASE UNCHANGED vars
  BY <1>6 DEF vars
<1> QED  BY <1>1, <1>2, <1>3, <1>4, <1>5, <1>6 DEF Next

\* Nothing is done over the head of a tunnel that still closes: neither the next
\* thread is spawned nor are the routes swept, whatever command or event comes.
THEOREM ClosesFirst == Spec => TunnelClosesFirst
<1>1. /\ TypeOK /\ ThreadGone /\ [Next]_vars
      => [(\/ thread'.phase = "starting" /\ thread.phase # "starting"
           \/ routes /\ ~routes' /\ state' # state /\ state' # "Dead")
              => thread.phase \in {"none", "closed"}]_vars
  BY OpenThreadStep
<1> QED  BY <1>1, TypeCorrect, ThreadGoneInvariant, PTL DEF Spec, TunnelClosesFirst
-----------------------------------------------------------------------------
(***************************************************************************)
(* Settings.  A command changes one of the shared values and no other.     *)
(***************************************************************************)
LEMMA SettingsKept ==
    ASSUME TypeOK
    PROVE  /\ \A v \in NewLan \cup NewEndpoint \cup NewDns \cup NewLockdown \cup NewMode :
                 v.connectivity = sv.connectivity
           /\ \A v \in NewLan \cup NewEndpoint \cup NewLockdown \cup NewConnectivity \cup NewMode :
                 v.dns = sv.dns
           /\ \A v \in NewLan \cup NewEndpoint \cup NewDns \cup NewLockdown \cup NewConnectivity :
                 v.includeOnly = sv.includeOnly
           /\ \A v \in NewLockdown \cup NewConnectivity \cup NewDns :
                 v.lan = sv.lan /\ v.endpoint = sv.endpoint
           /\ \A v \in NewEndpoint : v.lan = sv.lan
<1>1. sv \in SharedValues
  BY DEF TypeOK
<1>2. \A v \in NewLan : /\ v.connectivity = sv.connectivity /\ v.dns = sv.dns
                        /\ v.includeOnly = sv.includeOnly
  BY <1>1 DEF NewLan, SharedValues
<1>3. \A v \in NewEndpoint : /\ v.connectivity = sv.connectivity /\ v.dns = sv.dns
                             /\ v.includeOnly = sv.includeOnly /\ v.lan = sv.lan
  BY <1>1 DEF NewEndpoint, SharedValues
<1>4. \A v \in NewDns : /\ v.connectivity = sv.connectivity /\ v.includeOnly = sv.includeOnly
                        /\ v.lan = sv.lan /\ v.endpoint = sv.endpoint
  BY <1>1 DEF NewDns, SharedValues
<1>5. \A v \in NewLockdown : /\ v.connectivity = sv.connectivity /\ v.includeOnly = sv.includeOnly
                             /\ v.lan = sv.lan /\ v.endpoint = sv.endpoint /\ v.dns = sv.dns
  BY <1>1 DEF NewLockdown, SharedValues
<1>6. \A v \in NewMode : v.connectivity = sv.connectivity /\ v.dns = sv.dns
  BY <1>1 DEF NewMode, SharedValues
<1>7. \A v \in NewConnectivity : /\ v.includeOnly = sv.includeOnly /\ v.dns = sv.dns
                                 /\ v.lan = sv.lan /\ v.endpoint = sv.endpoint
  BY <1>1 DEF NewConnectivity, SharedValues
<1> QED  BY <1>2, <1>3, <1>4, <1>5, <1>6, <1>7

\* The session of a tunnel that starts, and of a tunnel that comes up.
LEMMA SessionFields ==
    /\ NoSession.grace = FALSE
    /\ \A multiHop : NewSession(multiHop).includeOnly = sv'.includeOnly /\ ~NewSession(multiHop).grace
    /\ \A s \in Sessions, b \in BOOLEAN :
          LET k == [s EXCEPT !.metadata = TRUE, !.grace = b]
              g == [s EXCEPT !.grace = b]
              m == [s EXCEPT !.metadata = TRUE]
          IN  /\ k.includeOnly = s.includeOnly /\ k.peers = s.peers /\ k.grace = b
              /\ g.includeOnly = s.includeOnly /\ g.peers = s.peers /\ g.metadata = s.metadata
              /\ g.grace = b
              /\ m.includeOnly = s.includeOnly /\ m.grace = s.grace
    /\ \A s \in Sessions, p \in {"relay", "migrated"} :
          LET k == [s EXCEPT !.peers = p] IN k.includeOnly = s.includeOnly /\ k.grace = s.grace
BY DEF NewSession, NoSession, Sessions

\* Re-applying the policy of an active state leaves the policy the settings ask for.
LEMMA ReapplyFollows ==
    ASSUME Active, NEW s, s.includeOnly = sv'.includeOnly, Reapply(s)
    PROVE  PolicyFollowsSettings'
<1>1. CASE /\ fw' = CurrentPolicy(sv', s) /\ session' = s /\ state' = state
  BY <1>1 DEF PolicyFollowsSettings, CurrentPolicy, Active
<1>2. CASE state' = "Disconnecting"
  BY <1>2 DEF PolicyFollowsSettings, Active
<1> QED
  BY <1>1, <1>2 DEF Reapply, Applied, Disconnects, EnterDisconnecting

LEMMA ConnectingFollows ==
    ASSUME NEW n, EnterConnecting(n)
    PROVE  PolicyFollowsSettings'
<1>1. CASE state' = "Error"
  BY <1>1 DEF PolicyFollowsSettings, Active
<1>2. CASE \E multiHop \in BOOLEAN : /\ state' = "Connecting" /\ session' = NewSession(multiHop)
                                     /\ fw' = ConnectingPolicy(sv', session')
  BY <1>2, SessionFields DEF PolicyFollowsSettings, CurrentPolicy, Active
<1> QED  BY <1>1, <1>2 DEF EnterConnecting, EnterError

\* What leaves an active state leaves its policy's property too.
LEMMA InactiveFollows ==
    ASSUME state' \notin {"Connecting", "Connected"}
    PROVE  PolicyFollowsSettings'
BY DEF PolicyFollowsSettings, Active

LEMMA ActiveFollows ==
    ASSUME TypeOK, PolicyFollowsSettings, ActiveNext
    PROVE  PolicyFollowsSettings'
<1>0. session \in Sessions /\ sv \in SharedValues /\ Active
  BY DEF TypeOK, ActiveNext, ActiveStores, ActiveReapplies, ConnectedDns, ActiveSetSplitApps,
     ConnectingConnectivity, ConnectedConnectivity, GraceExpires, ActiveConnect, ActiveBlock,
     ActiveDisconnect, HandleInterfaceUp, HandleUp, HandlePeerEndpoints, HandleDown,
     HandleEventsEnd, HandleClose, Active
<1>1. session.includeOnly = sv.includeOnly /\ fw = CurrentPolicy(sv, session)
  BY <1>0 DEF PolicyFollowsSettings
<1>2. CASE ActiveStores
  <2>1. /\ sv'.lan = sv.lan /\ sv'.includeOnly = sv.includeOnly
        /\ state = "Connecting" => sv'.endpoint = sv.endpoint
        /\ state # "Connecting" => sv'.dns = sv.dns
    BY <1>2, SettingsKept DEF ActiveStores
  <2>2. UNCHANGED <<state, session, fw>>
    BY <1>2 DEF ActiveStores, kernel
  <2> QED
    BY <1>1, <2>1, <2>2 DEF PolicyFollowsSettings, CurrentPolicy, ConnectingPolicy,
       ConnectedPolicy, Active
<1>3. CASE ActiveReapplies
  <2>1. sv'.includeOnly = sv.includeOnly
    BY <1>3, SettingsKept DEF ActiveReapplies
  <2> QED  BY <1>0, <1>1, <1>3, <2>1, ReapplyFollows DEF ActiveReapplies
<1>4. CASE HandleInterfaceUp
  BY <1>0, <1>1, <1>4, SessionFields, ReapplyFollows DEF HandleInterfaceUp
<1>5. CASE HandlePeerEndpoints
  <2>1. PICK p \in {"relay", "migrated"} : Reapply([session EXCEPT !.peers = p])
    BY <1>5 DEF HandlePeerEndpoints
  <2>2. PICK s : s = [session EXCEPT !.peers = p]
    OBVIOUS
  <2>3. s.includeOnly = session.includeOnly
    BY <1>0, <2>2 DEF Sessions
  <2>4. s.includeOnly = sv'.includeOnly
    BY <1>1, <1>5, <2>3 DEF HandlePeerEndpoints
  <2>5. Reapply(s)
    BY <2>1, <2>2
  <2> QED  BY <1>0, <2>4, <2>5, ReapplyFollows
<1>6. CASE ConnectedDns
  <2>1. sv'.includeOnly = sv.includeOnly
    BY <1>6, SettingsKept DEF ConnectedDns
  <2>2. CASE state' = "Disconnecting"
    BY <2>2, InactiveFollows
  <2>3. CASE /\ fw' = ConnectedPolicy(sv', session) /\ UNCHANGED <<state, session>>
    BY <1>1, <1>6, <2>1, <2>3 DEF ConnectedDns, PolicyFollowsSettings, CurrentPolicy
  <2> QED  BY <1>6, <2>2, <2>3 DEF ConnectedDns, Disconnects, EnterDisconnecting
<1>7. CASE ActiveSetSplitApps \/ ActiveConnect \/ ActiveBlock \/ ActiveDisconnect \/ HandleDown
           \/ HandleEventsEnd
  BY <1>7, InactiveFollows DEF ActiveSetSplitApps, ActiveConnect, ActiveBlock, ActiveDisconnect,
     HandleDown, HandleEventsEnd, Disconnects, EnterDisconnecting
<1>8. CASE ConnectingConnectivity \/ ConnectedConnectivity \/ GraceExpires
  <2>1. /\ sv'.lan = sv.lan /\ sv'.includeOnly = sv.includeOnly
        /\ sv'.endpoint = sv.endpoint /\ sv'.dns = sv.dns /\ fw' = fw
    BY <1>8, SettingsKept DEF ConnectingConnectivity, ConnectedConnectivity, GraceExpires
  <2>2. CASE state' = "Disconnecting"
    BY <2>2, InactiveFollows
  <2>3. CASE /\ state' = state
             /\ \/ session' = session
                \/ \E b \in BOOLEAN : session' = [session EXCEPT !.grace = b]
    <3>1. /\ session'.includeOnly = session.includeOnly /\ session'.peers = session.peers
          /\ session'.metadata = session.metadata
      BY <1>0, <2>3 DEF Sessions
    <3> QED
      BY <1>1, <2>1, <2>3, <3>1 DEF PolicyFollowsSettings, CurrentPolicy, ConnectingPolicy,
         ConnectedPolicy
  <2>4. \A c : (c = "Offline") \in BOOLEAN
    OBVIOUS
  <2> QED
    BY <1>8, <2>2, <2>3, <2>4 DEF ConnectingConnectivity, ConnectedConnectivity, GraceExpires,
       Disconnects, EnterDisconnecting
<1>9. CASE HandleUp
  <2>1. CASE state' = "Disconnecting"
    BY <2>1, InactiveFollows
  <2>2. CASE /\ fw' = ConnectedPolicy(sv, session) /\ state' = "Connected"
             /\ session' = [session EXCEPT !.metadata = TRUE,
                                           !.grace = (sv.connectivity = "Offline")]
             /\ sv' = sv
    <3>1. session'.includeOnly = session.includeOnly /\ session'.peers = session.peers
      BY <1>0, <2>2, SessionFields
    <3> QED
      BY <1>1, <2>2, <3>1 DEF PolicyFollowsSettings, CurrentPolicy, ConnectedPolicy
  <2> QED  BY <1>9, <2>1, <2>2 DEF HandleUp, EnterConnected, EnterDisconnecting
<1>10. CASE HandleClose
  <2>1. CASE state' = "Error"
    BY <2>1, InactiveFollows
  <2> QED  BY <1>10, <2>1, ConnectingFollows DEF HandleClose, EnterError
<1> QED
  BY <1>2, <1>3, <1>4, <1>5, <1>6, <1>7, <1>8, <1>9, <1>10 DEF ActiveNext

LEMMA FollowsStep ==
    ASSUME TypeOK, PolicyFollowsSettings, [Next]_vars
    PROVE  PolicyFollowsSettings'
<1>1. CASE DisconnectedNext
  BY <1>1, InactiveFollows, ConnectingFollows DEF DisconnectedNext, DisconnectedStores,
     DisconnectedReapplies, DisconnectedConnects
<1>2. CASE ErrorNext
  BY <1>2, InactiveFollows, ConnectingFollows DEF ErrorNext, ErrorStores, ErrorReapplies,
     ErrorComesOnline, ErrorConnects, ErrorBlocks, ErrorDisconnects, EnterError, EnterDisconnected
<1>3. CASE DisconnectingNext
  <2>1. CASE DisconnectingClosed
    BY <2>1, InactiveFollows, ConnectingFollows DEF DisconnectingClosed, EnterError,
       EnterDisconnected
  <2>2. CASE ~DisconnectingClosed
    BY <1>3, <2>2, InactiveFollows DEF DisconnectingNext, DisconnectingStores,
       DisconnectingConnectivity, DisconnectingConnect, DisconnectingDisconnect,
       DisconnectingBlock, DisconnectingNoCommands
  <2> QED  BY <2>1, <2>2
<1>4. CASE ActiveNext
  BY <1>4, ActiveFollows
<1>5. CASE ThreadNext
  BY <1>5, ThreadStays DEF ThreadOnly, machine, PolicyFollowsSettings, Active, CurrentPolicy
<1>6. CASE ProcessNext
  <2>1. CASE CommandsEnd
    BY <2>1 DEF CommandsEnd, machine, kernel, PolicyFollowsSettings, Active, CurrentPolicy
  <2>2. CASE ~CommandsEnd
    BY <1>6, <2>2, InactiveFollows DEF ProcessNext, DisconnectedFinishes, ListenerGone, Finish,
       Crash, Exit, BootKeeps, BootBlocks, BootResets, EnterError, EnterDisconnected
  <2> QED  BY <2>1, <2>2
<1>7. CASE UNCHANGED vars
  BY <1>7 DEF vars, PolicyFollowsSettings, Active, CurrentPolicy
<1> QED  BY <1>1, <1>2, <1>3, <1>4, <1>5, <1>6, <1>7 DEF Next

\* The table of a connecting or connected machine is the one its settings ask for
\* now, and the split mode of its routes is the one of its table, whatever
\* settings change while it dials, comes up or migrates.
THEOREM TableFollowsSettings == Spec => []PolicyFollowsSettings
<1>1. Init => PolicyFollowsSettings
  BY DEF Init, PolicyFollowsSettings, Active
<1> QED  BY <1>1, FollowsStep, TypeCorrect, PTL DEF Spec
-----------------------------------------------------------------------------
(***************************************************************************)
(* The system around the tunnel.  The connectivity check: every step       *)
(* disables it, resets it, forgets it with the process, or leaves it alone *)
(* between states that ask the same of it.  The inductive part is that a   *)
(* check whose old value is remembered is off: without it, disabling would *)
(* trust a check that is still on.                                         *)
(***************************************************************************)
CheckInv ==
    /\ nmSaved # "None" => ~nmCheck
    /\ Active \/ state = "Error" => ~nmCheck
    /\ state = "Disconnected" => nmSaved = "None"

CheckStep ==
    \/ DisableConnectivityCheck /\ state' # "Disconnected"
    \/ ResetConnectivityCheck /\ state' = "Disconnected"
    \/ nmSaved' = "None" /\ state' \in {"Dead", "Finished"}
    \/ /\ UNCHANGED <<nmSaved, nmCheck>>
       /\ \/ state' = state
          \/ state' \in {"Disconnecting", "Finished"}
          \/ state = "Connecting" /\ state' = "Connected"

LEMMA CheckHolds ==
    ASSUME TypeOK, CheckInv, CheckStep
    PROVE  CheckInv'
BY DEF TypeOK, CheckInv, CheckStep, DisableConnectivityCheck, ResetConnectivityCheck, Active

LEMMA EntersCheck ==
    /\ \A tables, reason : \A ok \in BOOLEAN : EnterError(tables, reason, ok) => CheckStep
    /\ \A tables, reset : \A ok \in BOOLEAN : EnterDisconnected(tables, reset, ok) => CheckStep
    /\ \A action, reason, n : EnterDisconnecting(action, reason, n) => CheckStep
    /\ \A action, reason, n : Disconnects(action, reason, n) => CheckStep
BY DEF EnterError, EnterDisconnected, EnterDisconnecting, Disconnects, CheckStep

LEMMA ConnectingCheck ==
    ASSUME NEW n, EnterConnecting(n)
    PROVE  CheckStep
BY EntersCheck DEF EnterConnecting, CheckStep

LEMMA ReapplyCheck ==
    ASSUME NEW s, Reapply(s)
    PROVE  CheckStep
BY EntersCheck DEF Reapply, CheckStep

LEMMA StepsCheck ==
    ASSUME TypeOK, [Next]_vars
    PROVE  CheckStep
<1>1. CASE DisconnectedNext
  BY <1>1, ConnectingCheck DEF DisconnectedNext, DisconnectedStores, DisconnectedReapplies,
     DisconnectedConnects, kernel, CheckStep
<1>2. CASE ErrorNext
  <2>1. CASE ErrorStores \/ ErrorReapplies
    BY <2>1 DEF ErrorStores, ErrorReapplies, kernel, CheckStep
  <2>2. CASE ErrorComesOnline \/ ErrorConnects
    BY <2>2, ConnectingCheck DEF ErrorComesOnline, ErrorConnects
  <2>3. CASE ErrorBlocks \/ ErrorDisconnects
    BY <2>3, EntersCheck DEF ErrorBlocks, ErrorDisconnects
  <2> QED  BY <1>2, <2>1, <2>2, <2>3 DEF ErrorNext
<1>3. CASE DisconnectingNext
  <2>1. CASE DisconnectingClosed
    BY <2>1, EntersCheck, ConnectingCheck DEF DisconnectingClosed
  <2>2. CASE ~DisconnectingClosed
    BY <1>3, <2>2 DEF DisconnectingNext, DisconnectingStores, DisconnectingConnectivity,
       DisconnectingConnect, DisconnectingDisconnect, DisconnectingBlock,
       DisconnectingNoCommands, kernel, CheckStep
  <2> QED  BY <2>1, <2>2
<1>4. CASE ActiveNext
  <2>1. CASE ActiveStores \/ ConnectingConnectivity \/ ConnectedConnectivity \/ GraceExpires
             \/ ConnectedDns
    BY <2>1, EntersCheck DEF ActiveStores, ConnectingConnectivity, ConnectedConnectivity,
       GraceExpires, ConnectedDns, kernel, CheckStep
  <2>2. CASE ActiveReapplies \/ HandleInterfaceUp \/ HandlePeerEndpoints
    BY <2>2, ReapplyCheck DEF ActiveReapplies, HandleInterfaceUp, HandlePeerEndpoints
  <2>3. CASE ActiveSetSplitApps \/ ActiveConnect \/ ActiveBlock \/ ActiveDisconnect \/ HandleDown
             \/ HandleEventsEnd
    BY <2>3, EntersCheck DEF ActiveSetSplitApps, ActiveConnect, ActiveBlock, ActiveDisconnect,
       HandleDown, HandleEventsEnd
  <2>4. CASE HandleUp
    BY <2>4, EntersCheck DEF HandleUp, EnterConnected, CheckStep
  <2>5. CASE HandleClose
    BY <2>5, EntersCheck, ConnectingCheck DEF HandleClose
  <2> QED  BY <1>4, <2>1, <2>2, <2>3, <2>4, <2>5 DEF ActiveNext
<1>5. CASE ThreadNext
  <2>1. UNCHANGED <<state, nmSaved, nmCheck>>
    BY <1>5, ThreadStays DEF ThreadOnly, machine
  <2> QED  BY <2>1 DEF CheckStep
<1>6. CASE ProcessNext
  <2>1. CASE CommandsEnd \/ DisconnectedFinishes \/ ListenerGone \/ Crash \/ Exit
    BY <2>1 DEF CommandsEnd, DisconnectedFinishes, ListenerGone, Finish, Crash, Exit, machine,
       kernel, CheckStep
  <2>2. CASE BootKeeps \/ BootBlocks \/ BootResets
    BY <2>2, EntersCheck DEF BootKeeps, BootBlocks, BootResets
  <2> QED  BY <1>6, <2>1, <2>2 DEF ProcessNext
<1>7. CASE UNCHANGED vars
  BY <1>7 DEF vars, CheckStep
<1> QED  BY <1>1, <1>2, <1>3, <1>4, <1>5, <1>6, <1>7 DEF Next

(***************************************************************************)
(* The DNS.  Each way out of the connected state resets the monitor, which *)
(* forgets what it held whether or not the reset works, and a failed `set` *)
(* holds nothing; a process that is dead holds nothing either, so the next *)
(* one starts with an empty monitor, whatever DNS it finds.                *)
(***************************************************************************)
DnsInv ==
    /\ state # "Finished" => (dns.held <=> state = "Connected" /\ sv.dns \notin LocalDns)
    /\ state = "Connected" /\ dns.held => dns.conf = sv.dns

LEMMA MonitorSteps ==
    ASSUME TypeOK
    PROVE  /\ ResetDns => ~dns'.held
           /\ \A c : DnsSetFails(c) => ~dns'.held
<1>1. \A c : NotHeld(c).held = FALSE
  BY DEF NotHeld
<1>2. dns.held \in BOOLEAN
  BY DEF TypeOK, DnsStates
<1>3. ResetDns => ~dns'.held
  BY <1>1, <1>2 DEF ResetDns
<1>4. \A c : DnsSetFails(c) => ~dns'.held
  BY <1>1 DEF DnsSetFails
<1> QED  BY <1>3, <1>4

LEMMA MonitorSets ==
    ASSUME TypeOK, DnsSet(sv'.dns), state' = "Connected"
    PROVE  DnsInv'
<1>1. dns.held \in BOOLEAN /\ NotHeld(NoDns).held = FALSE
  BY DEF TypeOK, DnsStates, NotHeld
<1>2. CASE sv'.dns \in LocalDns
  BY <1>1, <1>2 DEF DnsSet, DnsInv
<1>3. CASE sv'.dns \notin LocalDns
  BY <1>3 DEF DnsSet, DnsInv
<1> QED  BY <1>2, <1>3

LEMMA LeavesDns ==
    ASSUME TypeOK, DnsInv, Running, NEW action, NEW reason, NEW n,
           Disconnects(action, reason, n)
    PROVE  DnsInv'
<1>1. ~dns'.held
  BY MonitorSteps DEF Disconnects, DnsInv, Running
<1> QED  BY <1>1 DEF Disconnects, EnterDisconnecting, DnsInv

LEMMA ReapplyDns ==
    ASSUME TypeOK, DnsInv, Active, NEW s, Reapply(s), sv'.dns = sv.dns
    PROVE  DnsInv'
<1>1. CASE UNCHANGED <<state, dns>>
  BY <1>1 DEF DnsInv, Running
<1>2. CASE Disconnects("Block", "Other", 0)
  BY <1>2, LeavesDns DEF Active, Running
<1> QED  BY <1>1, <1>2 DEF Reapply

LEMMA EntersDns ==
    ASSUME ~dns'.held
    PROVE  /\ \A tables, reason : \A ok \in BOOLEAN : EnterError(tables, reason, ok) => DnsInv'
           /\ \A tables, reset : \A ok \in BOOLEAN : EnterDisconnected(tables, reset, ok) => DnsInv'
           /\ \A n : EnterConnecting(n) => DnsInv'
BY DEF EnterError, EnterDisconnected, EnterConnecting, DnsInv

LEMMA DnsStep ==
    ASSUME TypeOK, DnsInv, [Next]_vars
    PROVE  DnsInv'
<1>1. CASE DisconnectedNext
  <2>1. CASE DisconnectedStores \/ DisconnectedReapplies
    BY <2>1 DEF DisconnectedStores, DisconnectedReapplies, kernel, DnsInv, Running
  <2>2. CASE DisconnectedConnects
    BY <2>2, EntersDns DEF DisconnectedConnects, DnsInv, Running
  <2> QED  BY <1>1, <2>1, <2>2 DEF DisconnectedNext
<1>2. CASE ErrorNext
  <2>1. CASE ErrorStores \/ ErrorReapplies
    BY <2>1 DEF ErrorStores, ErrorReapplies, kernel, DnsInv, Running
  <2>2. CASE ErrorComesOnline \/ ErrorConnects \/ ErrorBlocks \/ ErrorDisconnects
    <3>1. ~dns'.held
      BY <2>2, MonitorSteps DEF ErrorComesOnline, ErrorConnects, ErrorBlocks, ErrorDisconnects,
         DnsInv, Running
    <3> QED
      BY <2>2, <3>1, EntersDns DEF ErrorComesOnline, ErrorConnects, ErrorBlocks, ErrorDisconnects
  <2> QED  BY <1>2, <2>1, <2>2 DEF ErrorNext
<1>3. CASE DisconnectingNext
  <2>1. CASE DisconnectingClosed
    BY <2>1, EntersDns DEF DisconnectingClosed, DnsInv, Running
  <2>2. CASE ~DisconnectingClosed
    BY <1>3, <2>2 DEF DisconnectingNext, DisconnectingStores, DisconnectingConnectivity,
       DisconnectingConnect, DisconnectingDisconnect, DisconnectingBlock,
       DisconnectingNoCommands, kernel, DnsInv, Running
  <2> QED  BY <2>1, <2>2
<1>4. CASE ActiveNext
  <2>1. CASE ActiveStores
    <3>1. state = "Connected" => sv'.dns = sv.dns
      BY <2>1, SettingsKept DEF ActiveStores
    <3> QED  BY <2>1, <3>1 DEF ActiveStores, kernel, DnsInv, Running, Active
  <2>2. CASE ActiveReapplies \/ HandleInterfaceUp \/ HandlePeerEndpoints
    <3>1. sv'.dns = sv.dns /\ Active
      BY <2>2, SettingsKept DEF ActiveReapplies, HandleInterfaceUp, HandlePeerEndpoints, Active
    <3> QED
      BY <2>2, <3>1, ReapplyDns DEF ActiveReapplies, HandleInterfaceUp, HandlePeerEndpoints
  <2>3. CASE ActiveSetSplitApps \/ ActiveConnect \/ ActiveBlock \/ ActiveDisconnect \/ HandleDown
             \/ HandleEventsEnd
    BY <2>3, LeavesDns DEF ActiveSetSplitApps, ActiveConnect, ActiveBlock, ActiveDisconnect,
       HandleDown, HandleEventsEnd, Running, Active
  <2>4. CASE ConnectedDns
    <3>1. CASE Disconnects("Block", "Other", 0)
      BY <2>4, <3>1, LeavesDns DEF ConnectedDns, Running
    <3>2. CASE EnterDisconnecting("Block", "Other", 0) /\ DnsSetFails(sv'.dns)
      BY <3>2, MonitorSteps DEF EnterDisconnecting, DnsInv
    <3>3. CASE DnsSet(sv'.dns) /\ UNCHANGED state
      <4>1. state' = "Connected"
        BY <2>4, <3>3 DEF ConnectedDns
      <4> QED  BY <3>3, <4>1, MonitorSets
    <3> QED  BY <2>4, <3>1, <3>2, <3>3 DEF ConnectedDns
  <2>5. CASE ConnectingConnectivity \/ ConnectedConnectivity \/ GraceExpires
    <3>1. sv'.dns = sv.dns
      BY <2>5, SettingsKept DEF ConnectingConnectivity, ConnectedConnectivity, GraceExpires
    <3>2. CASE Disconnects("Block", "IsOffline", 0)
      BY <2>5, <3>2, LeavesDns DEF ConnectingConnectivity, ConnectedConnectivity, GraceExpires,
         Running
    <3>3. CASE UNCHANGED <<state, dns>>
      BY <3>1, <3>3 DEF DnsInv, Running
    <3> QED
      BY <2>5, <3>2, <3>3 DEF ConnectingConnectivity, ConnectedConnectivity, GraceExpires
  <2>6. CASE HandleUp
    <3>1. ~dns.held /\ EnterConnected /\ UNCHANGED sv
      BY <2>6 DEF HandleUp, DnsInv, Running
    <3>2. CASE state' = "Connected" /\ DnsSet(sv.dns)
      <4>1. DnsSet(sv'.dns)
        BY <3>1, <3>2 DEF DnsSet
      <4> QED  BY <3>2, <4>1, MonitorSets
    <3>3. CASE state' = "Disconnecting" /\ (DnsSetFails(sv.dns) \/ UNCHANGED dns)
      BY <3>1, <3>3, MonitorSteps DEF DnsInv
    <3> QED  BY <3>1, <3>2, <3>3 DEF EnterConnected, EnterDisconnecting
  <2>7. CASE HandleClose
    <3>1. ~dns'.held
      BY <2>7, MonitorSteps DEF HandleClose, DnsInv, Running, Active
    <3> QED  BY <2>7, <3>1, EntersDns DEF HandleClose
  <2> QED  BY <1>4, <2>1, <2>2, <2>3, <2>4, <2>5, <2>6, <2>7 DEF ActiveNext
<1>5. CASE ThreadNext
  BY <1>5, ThreadStays DEF ThreadOnly, machine, DnsInv, Running
<1>6. CASE ProcessNext
  <2>1. CASE CommandsEnd
    BY <2>1 DEF CommandsEnd, machine, kernel, DnsInv, Running
  <2>2. CASE DisconnectedFinishes \/ ListenerGone \/ Crash \/ Exit
    <3>1. CASE state' = "Finished"
      BY <3>1 DEF DnsInv
    <3>2. CASE state' = "Dead" /\ dns' \in {NotHeld(dns.conf), NotHeld(NoDns)}
      BY <3>2 DEF NotHeld, DnsInv
    <3> QED  BY <2>2, <3>1, <3>2 DEF DisconnectedFinishes, ListenerGone, Finish, Crash, Exit
  <2>3. CASE BootKeeps \/ BootBlocks \/ BootResets
    <3>1. ~dns'.held
      BY <2>3 DEF BootKeeps, BootBlocks, BootResets, Starts, DnsInv
    <3> QED  BY <2>3, <3>1, EntersDns DEF BootKeeps, BootBlocks, BootResets
  <2> QED  BY <1>6, <2>1, <2>2, <2>3 DEF ProcessNext
<1>7. CASE UNCHANGED vars
  BY <1>7 DEF vars, DnsInv, Running
<1> QED  BY <1>1, <1>2, <1>3, <1>4, <1>5, <1>6, <1>7 DEF Next

\* What the machine changes of the system is what its state asks for, on every way
\* in and out of every state and whichever DNS operation fails: the monitor holds
\* the DNS of the setting exactly while connected, and NetworkManager's
\* connectivity check is off while traffic is filtered and given back before the
\* machine is disconnected.
THEOREM SystemFollows == Spec => []SystemFollowsState
<1>1. Init => CheckInv /\ DnsInv
  BY DEF Init, CheckInv, DnsInv, NotHeld, Active
<1>2. TypeOK /\ CheckInv /\ DnsInv /\ [Next]_vars => CheckInv' /\ DnsInv'
  BY CheckHolds, StepsCheck, DnsStep
<1>3. CheckInv /\ DnsInv => SystemFollowsState
  BY DEF CheckInv, DnsInv, SystemFollowsState, Running
<1> QED  BY <1>1, <1>2, <1>3, TypeCorrect, PTL DEF Spec

-----------------------------------------------------------------------------
(***************************************************************************)
(* Online edges.  NoLostOnlineEdge is inductive with the types and with    *)
(* what is known of AfterDisconnect: only the disconnecting state has one, *)
(* and the reason a tunnel thread sends is never IsOffline.                *)
(***************************************************************************)
AfterIsOfDisconnecting == after # "Nothing" => state = "Disconnecting"

LEMMA EntersEdge ==
    /\ \A tables : \A ok \in BOOLEAN : EnterError(tables, "Other", ok) => NoLostOnlineEdge'
    /\ \A tables, reset : \A ok \in BOOLEAN :
          EnterDisconnected(tables, reset, ok) => NoLostOnlineEdge'
    /\ \A action, n : EnterDisconnecting(action, "Other", n) => NoLostOnlineEdge'
    /\ \A action, n : EnterDisconnecting(action, NoCause, n) => NoLostOnlineEdge'
BY DEF EnterError, EnterDisconnected, EnterDisconnecting, NoLostOnlineEdge, NoSession, NoCause

LEMMA OfflineEdge ==
    ASSUME sv'.connectivity = "Offline"
    PROVE  /\ \A tables, reason : \A ok \in BOOLEAN :
                 EnterError(tables, reason, ok) => NoLostOnlineEdge'
           /\ \A action, reason, n : EnterDisconnecting(action, reason, n) => NoLostOnlineEdge'
BY DEF EnterError, EnterDisconnecting, NoLostOnlineEdge, NoSession, HasIpv4

LEMMA ConnectingEdge ==
    ASSUME NEW n, EnterConnecting(n)
    PROVE  NoLostOnlineEdge'
<1>1. CASE \E tables : \E ok \in BOOLEAN : EnterError(tables, "Other", ok)
  BY <1>1, EntersEdge
<1>2. CASE \E multiHop \in BOOLEAN : /\ state' = "Connecting" /\ after' = "Nothing"
                                     /\ session' = NewSession(multiHop)
  BY <1>2, SessionFields DEF NoLostOnlineEdge
<1> QED  BY <1>1, <1>2 DEF EnterConnecting

\* A step that keeps what the property speaks of.
LEMMA EdgeKept ==
    ASSUME NoLostOnlineEdge, UNCHANGED <<state, after, cause>>,
           sv'.connectivity = sv.connectivity, session'.grace = session.grace
    PROVE  NoLostOnlineEdge'
BY DEF NoLostOnlineEdge

LEMMA ReapplyEdge ==
    ASSUME NoLostOnlineEdge, NEW s, s.grace = session.grace, Reapply(s),
           sv'.connectivity = sv.connectivity
    PROVE  NoLostOnlineEdge'
<1>1. CASE session' = s /\ UNCHANGED <<state, after, cause>>
  BY <1>1, EdgeKept
<1>2. CASE Disconnects("Block", "Other", 0)
  BY <1>2, EntersEdge DEF Disconnects
<1> QED  BY <1>1, <1>2 DEF Reapply

LEMMA ActiveEdge ==
    ASSUME TypeOK, AfterIsOfDisconnecting, NoLostOnlineEdge, ActiveNext
    PROVE  NoLostOnlineEdge'
<1>1. session \in Sessions /\ sv \in SharedValues /\ thread \in Threads
  BY DEF TypeOK
<1>2. CASE ActiveStores
  <2>1. sv'.connectivity = sv.connectivity
    BY <1>2, SettingsKept DEF ActiveStores
  <2> QED  BY <1>2, <2>1, EdgeKept DEF ActiveStores
<1>3. CASE ActiveReapplies
  <2>1. sv'.connectivity = sv.connectivity
    BY <1>3, SettingsKept DEF ActiveReapplies
  <2> QED  BY <1>3, <2>1, ReapplyEdge DEF ActiveReapplies
<1>4. CASE HandleInterfaceUp \/ HandlePeerEndpoints
  <2>1. PICK s : Reapply(s) /\ s.grace = session.grace
    <3>1. CASE HandleInterfaceUp
      <4>1. [session EXCEPT !.metadata = TRUE].grace = session.grace
        BY <1>1 DEF Sessions
      <4> QED  BY <3>1, <4>1 DEF HandleInterfaceUp
    <3>2. CASE HandlePeerEndpoints
      <4>1. \A p : [session EXCEPT !.peers = p].grace = session.grace
        BY <1>1 DEF Sessions
      <4> QED  BY <3>2, <4>1 DEF HandlePeerEndpoints
    <3> QED  BY <1>4, <3>1, <3>2
  <2> QED  BY <1>4, <2>1, ReapplyEdge DEF HandleInterfaceUp, HandlePeerEndpoints
<1>5. CASE ConnectedDns
  <2>1. sv'.connectivity = sv.connectivity
    BY <1>5, SettingsKept DEF ConnectedDns
  <2> QED  BY <1>5, <2>1, EdgeKept, EntersEdge DEF ConnectedDns, Disconnects
<1>6. CASE ActiveSetSplitApps \/ ActiveConnect \/ ActiveBlock \/ ActiveDisconnect \/ HandleDown
           \/ HandleEventsEnd
  BY <1>6, EntersEdge DEF ActiveSetSplitApps, ActiveConnect, ActiveBlock, ActiveDisconnect,
     HandleDown, HandleEventsEnd, Disconnects
<1>7. CASE ConnectingConnectivity
  <2>1. CASE sv'.connectivity = "Offline"
    BY <1>7, <2>1, OfflineEdge DEF ConnectingConnectivity, Disconnects
  <2>2. CASE sv'.connectivity # "Offline"
    BY <1>7, <2>2 DEF ConnectingConnectivity, NoLostOnlineEdge, AfterIsOfDisconnecting
  <2> QED  BY <2>1, <2>2
<1>8. CASE ConnectedConnectivity
  <2>1. CASE sv'.connectivity = "Offline" /\ ~session.multiHop
    BY <1>8, <2>1, OfflineEdge DEF ConnectedConnectivity, Disconnects
  <2>2. CASE ~(sv'.connectivity = "Offline" /\ ~session.multiHop)
    <3>1. /\ session' = [session EXCEPT !.grace = (sv'.connectivity = "Offline")]
          /\ UNCHANGED <<state, after>> /\ state = "Connected"
      BY <1>8, <2>2 DEF ConnectedConnectivity
    <3>2. session'.grace = (sv'.connectivity = "Offline")
      BY <1>1, <3>1 DEF Sessions
    <3> QED  BY <3>1, <3>2 DEF NoLostOnlineEdge, AfterIsOfDisconnecting
  <2> QED  BY <2>1, <2>2
<1>9. CASE GraceExpires
  <2>1. CASE sv.connectivity = "Offline"
    BY <1>9, <2>1, OfflineEdge DEF GraceExpires, Disconnects
  <2>2. CASE sv.connectivity # "Offline"
    BY <1>9, <2>2 DEF GraceExpires, NoLostOnlineEdge
  <2> QED  BY <2>1, <2>2
<1>10. CASE HandleUp
  <2>1. CASE \E reason : EnterDisconnecting("Block", reason, 0)
                         /\ (reason = "Other" \/ sv'.connectivity = "Offline")
    BY <2>1, EntersEdge, OfflineEdge
  <2>2. CASE /\ state' = "Connected" /\ UNCHANGED <<after, sv>>
             /\ session' = [session EXCEPT !.metadata = TRUE,
                                           !.grace = (sv.connectivity = "Offline")]
    <3>1. session'.grace = (sv.connectivity = "Offline")
      BY <1>1, <2>2 DEF Sessions
    <3> QED  BY <1>10, <2>2, <3>1 DEF HandleUp, NoLostOnlineEdge, AfterIsOfDisconnecting
  <2> QED  BY <1>10, <2>1, <2>2 DEF HandleUp, EnterConnected
<1>11. CASE HandleClose
  <2>1. thread.result # NoCause => thread.result = "Other"
    BY <1>1 DEF Threads
  <2> QED  BY <1>11, <2>1, EntersEdge, OfflineEdge, ConnectingEdge DEF HandleClose
<1> QED
  BY <1>2, <1>3, <1>4, <1>5, <1>6, <1>7, <1>8, <1>9, <1>10, <1>11 DEF ActiveNext

LEMMA EdgeStep ==
    ASSUME TypeOK, AfterIsOfDisconnecting, NoLostOnlineEdge, [Next]_vars
    PROVE  NoLostOnlineEdge'
<1>1. CASE DisconnectedNext
  <2>1. CASE DisconnectedStores \/ DisconnectedReapplies
    BY <2>1 DEF DisconnectedStores, DisconnectedReapplies, NoLostOnlineEdge,
       AfterIsOfDisconnecting
  <2>2. CASE DisconnectedConnects
    BY <2>2, ConnectingEdge DEF DisconnectedConnects
  <2> QED  BY <1>1, <2>1, <2>2 DEF DisconnectedNext
<1>2. CASE ErrorNext
  <2>1. CASE ErrorStores
    BY <2>1 DEF ErrorStores, NoLostOnlineEdge, AfterIsOfDisconnecting
  <2>2. CASE ErrorReapplies
    <3>1. sv'.connectivity = sv.connectivity
      BY <2>2, SettingsKept DEF ErrorReapplies
    <3> QED  BY <2>2, <3>1, EdgeKept DEF ErrorReapplies
  <2>3. CASE ErrorComesOnline \/ ErrorConnects
    BY <2>3, ConnectingEdge DEF ErrorComesOnline, ErrorConnects
  <2>4. CASE ErrorBlocks \/ ErrorDisconnects
    BY <2>4, EntersEdge DEF ErrorBlocks, ErrorDisconnects
  <2> QED  BY <1>2, <2>1, <2>2, <2>3, <2>4 DEF ErrorNext
<1>3. CASE DisconnectingNext
  <2>1. CASE DisconnectingStores
    <3>1. sv'.connectivity = sv.connectivity
      BY <2>1, SettingsKept DEF DisconnectingStores
    <3> QED  BY <2>1, <3>1, EdgeKept DEF DisconnectingStores
  <2>2. CASE DisconnectingConnectivity
    BY <2>2 DEF DisconnectingConnectivity, AfterConnectivity, NoLostOnlineEdge
  <2>3. CASE DisconnectingConnect \/ DisconnectingDisconnect \/ DisconnectingBlock
             \/ DisconnectingNoCommands
    BY <2>3 DEF DisconnectingConnect, DisconnectingDisconnect, DisconnectingBlock,
       DisconnectingNoCommands, NoLostOnlineEdge
  <2>4. CASE DisconnectingClosed
    <3>1. thread.result # NoCause => thread.result = "Other"
      BY DEF TypeOK, Threads
    <3>2. ASSUME after = "Block", NEW ok \in BOOLEAN, EnterError({fw}, cause, ok), sv' = sv
          PROVE  NoLostOnlineEdge'
      BY <3>2 DEF EnterError, NoLostOnlineEdge, NoSession, HasIpv4
    <3> QED
      BY <2>4, <3>1, <3>2, EntersEdge, ConnectingEdge DEF DisconnectingClosed
  <2> QED  BY <1>3, <2>1, <2>2, <2>3, <2>4 DEF DisconnectingNext
<1>4. CASE ActiveNext
  BY <1>4, ActiveEdge
<1>5. CASE ThreadNext
  BY <1>5, ThreadStays, EdgeKept DEF ThreadOnly, machine
<1>6. CASE ProcessNext
  <2>1. CASE CommandsEnd
    BY <2>1, EdgeKept DEF CommandsEnd, machine
  <2>2. CASE DisconnectedFinishes \/ ListenerGone \/ Crash
    <3>1. /\ state' \in {"Finished", "Dead"} /\ after' = "Nothing" /\ session' = NoSession
      BY <2>2 DEF DisconnectedFinishes, ListenerGone, Finish, Crash
    <3> QED  BY <3>1, SessionFields DEF NoLostOnlineEdge
  <2>3. CASE Exit
    BY <2>3 DEF Exit, NoLostOnlineEdge
  <2>4. CASE BootKeeps \/ BootBlocks \/ BootResets
    BY <2>4, EntersEdge DEF BootKeeps, BootBlocks, BootResets
  <2> QED  BY <1>6, <2>1, <2>2, <2>3, <2>4 DEF ProcessNext
<1>7. CASE UNCHANGED vars
  BY <1>7, EdgeKept DEF vars
<1> QED  BY <1>1, <1>2, <1>3, <1>4, <1>5, <1>6, <1>7 DEF Next

\* No online edge is lost: a machine blocked for want of a network has no IPv4
\* connectivity, and the offline grace runs only offline, in whichever state the
\* change of connectivity is handled.
THEOREM OnlineEdgesAreKept == Spec => []NoLostOnlineEdge
<1>1. Init => NoLostOnlineEdge
  BY SessionFields DEF Init, NoLostOnlineEdge
<1>2. Wanted => AfterIsOfDisconnecting
  BY DEF Wanted, AfterIsOfDisconnecting
<1> QED  BY <1>1, <1>2, EdgeStep, TypeCorrect, WantedInvariant, PTL DEF Spec
=============================================================================
