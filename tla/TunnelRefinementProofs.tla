------------------------ MODULE TunnelRefinementProofs ------------------------
(***************************************************************************)
(* The tunnel state machine implements TunnelLifecycle, for every set of   *)
(* settings: each handler is a step of the lifecycle, or changes nothing   *)
(* of it.  The fairness of the lifecycle is left to TLC.                   *)
(***************************************************************************)
EXTENDS MCTunnelStateMachine, TunnelStateMachineProofs

\* `enter` of the error state: it keeps a table, and blocks or says it could not.
LEMMA EnterErrorRefines ==
    ASSUME NEW tables, NEW reason, NEW ok \in BOOLEAN, EnterError(tables, reason, ok),
           fw # NoTable => NoTable \notin tables
    PROVE  Lifecycle!ToError
<1>1. state' = "Error" /\ after' = "Nothing" /\ blockFailure' \in BOOLEAN
  BY DEF EnterError
<1>2. fw # NoTable => fw' # NoTable
  BY PoliciesAreTables DEF EnterError, Applied
<1>3. fw' # NoTable \/ blockFailure'
  BY PoliciesAreTables DEF EnterError, Applied
<1> QED  BY <1>1, <1>2, <1>3 DEF Lifecycle!ToError

LEMMA EnterConnectingRefines ==
    ASSUME NEW n, EnterConnecting(n)
    PROVE  Lifecycle!Dial
<1>1. CASE \E ok \in BOOLEAN : EnterError({fw}, "Other", ok)
  BY <1>1, EnterErrorRefines DEF Lifecycle!Dial
<1>2. CASE \E ok \in BOOLEAN :
              EnterError({fw, ConnectingPolicy(sv', NewSession(FALSE))}, "Other", ok)
  BY <1>2, EnterErrorRefines, PoliciesAreTables DEF Lifecycle!Dial
<1>3. CASE /\ state' = "Connecting" /\ fw' = ConnectingPolicy(sv', session')
           /\ after' = "Nothing" /\ blockFailure' = FALSE
  BY <1>3, PoliciesAreTables DEF Lifecycle!Dial, Lifecycle!ToConnecting
<1> QED  BY <1>1, <1>2, <1>3 DEF EnterConnecting

LEMMA EnterDisconnectedRefines ==
    ASSUME NEW tables, NEW reset, NEW ok, EnterDisconnected(tables, reset, ok)
    PROVE  Lifecycle!ToDisconnected
BY DEF EnterDisconnected, Lifecycle!ToDisconnected

LEMMA EnterDisconnectingRefines ==
    ASSUME NEW action, NEW reason, NEW n, EnterDisconnecting(action, reason, n), fw' # NoTable
    PROVE  Lifecycle!ToDisconnecting(action)
BY DEF EnterDisconnecting, Lifecycle!ToDisconnecting

\* A step of the lifecycle, or one that changes nothing of it.
LifecycleStep == [Lifecycle!LifecycleNext]_(Lifecycle!lifecycleVars)

LEMMA Stutters ==
    ASSUME UNCHANGED <<state, after, secured, blockFailure>>, (fw # NoTable) = (fw' # NoTable)
    PROVE  LifecycleStep
BY DEF LifecycleStep, Lifecycle!lifecycleVars

LEMMA DisconnectedRefines ==
    ASSUME TypeOK, Wanted, FailClosed, FailClosed', DisconnectedNext
    PROVE  LifecycleStep
<1>1. CASE DisconnectedStores
  BY <1>1, Stutters DEF DisconnectedStores, kernel
<1>2. CASE DisconnectedReapplies
  <2>1. /\ state = "Disconnected" /\ UNCHANGED <<state, after, blockFailure, secured>>
    BY <1>2 DEF DisconnectedReapplies
  <2>2. secured /\ fw # NoTable => fw' # NoTable
    BY <1>2, <2>1, NeverOpensStep DEF DisconnectedNext, Next
  <2>3. Lifecycle!SettingCommand
    BY <2>1, <2>2 DEF Lifecycle!SettingCommand
  <2> QED  BY <2>3 DEF LifecycleStep, Lifecycle!LifecycleNext
<1>3. CASE DisconnectedConnects
  <2>1. Lifecycle!ConnectCommand
    BY <1>3, EnterConnectingRefines
       DEF DisconnectedConnects, Lifecycle!ConnectCommand, Lifecycle!Alive
  <2> QED  BY <2>1 DEF LifecycleStep, Lifecycle!LifecycleNext
<1> QED  BY <1>1, <1>2, <1>3 DEF DisconnectedNext

LEMMA ErrorRefines ==
    ASSUME TypeOK, Wanted, ErrorNext
    PROVE  LifecycleStep
<1>1. CASE ErrorStores
  BY <1>1, Stutters DEF ErrorStores, kernel
<1>2. CASE ErrorReapplies
  <2>1. fw # NoTable => fw' # NoTable
    BY <1>2, PoliciesAreTables DEF ErrorReapplies, Applied
  <2>2. Lifecycle!SettingCommand
    BY <1>2, <2>1 DEF ErrorReapplies, Lifecycle!SettingCommand
  <2> QED  BY <2>2 DEF LifecycleStep, Lifecycle!LifecycleNext
<1>3. CASE ErrorComesOnline
  <2>1. Lifecycle!OnlineWhileBlocked
    BY <1>3, EnterConnectingRefines DEF ErrorComesOnline, Wanted, Lifecycle!OnlineWhileBlocked
  <2> QED  BY <2>1 DEF LifecycleStep, Lifecycle!LifecycleNext
<1>4. CASE ErrorConnects
  <2>1. Lifecycle!ConnectCommand
    BY <1>4, EnterConnectingRefines DEF ErrorConnects, Lifecycle!ConnectCommand, Lifecycle!Alive
  <2> QED  BY <2>1 DEF LifecycleStep, Lifecycle!LifecycleNext
<1>5. CASE ErrorBlocks
  <2>1. Lifecycle!BlockCommand
    BY <1>5, EnterErrorRefines DEF ErrorBlocks, Lifecycle!BlockCommand
  <2> QED  BY <2>1 DEF LifecycleStep, Lifecycle!LifecycleNext
<1>6. CASE ErrorDisconnects
  <2>1. Lifecycle!DisconnectCommand
    BY <1>6, EnterDisconnectedRefines
       DEF ErrorDisconnects, Lifecycle!DisconnectCommand, Lifecycle!Alive
  <2> QED  BY <2>1 DEF LifecycleStep, Lifecycle!LifecycleNext
<1> QED  BY <1>1, <1>2, <1>3, <1>4, <1>5, <1>6 DEF ErrorNext

LEMMA DisconnectingRefines ==
    ASSUME TypeOK, Wanted, DisconnectingNext
    PROVE  LifecycleStep
<1>1. CASE DisconnectingStores
  BY <1>1, Stutters DEF DisconnectingStores, kernel
<1>2. CASE DisconnectingConnectivity
  <2>1. CASE after' = after
    BY <1>2, <2>1, Stutters DEF DisconnectingConnectivity, kernel
  <2>2. CASE after' # after
    <3>1. Lifecycle!OfflineWhileDisconnecting
      BY <1>2, <2>2 DEF DisconnectingConnectivity, AfterConnectivity, kernel, Wanted,
         Lifecycle!OfflineWhileDisconnecting
    <3> QED  BY <3>1 DEF LifecycleStep, Lifecycle!LifecycleNext
  <2> QED  BY <2>1, <2>2
<1>3. CASE DisconnectingConnect
  <2>1. Lifecycle!ConnectCommand
    BY <1>3 DEF DisconnectingConnect, kernel, Lifecycle!ConnectCommand, Lifecycle!Alive
  <2> QED  BY <2>1 DEF LifecycleStep, Lifecycle!LifecycleNext
<1>4. CASE DisconnectingDisconnect \/ DisconnectingNoCommands
  <2>1. Lifecycle!DisconnectCommand
    BY <1>4 DEF DisconnectingDisconnect, DisconnectingNoCommands, kernel,
       Lifecycle!DisconnectCommand, Lifecycle!Alive
  <2> QED  BY <2>1 DEF LifecycleStep, Lifecycle!LifecycleNext
<1>5. CASE DisconnectingBlock
  <2>1. Lifecycle!BlockCommand
    BY <1>5 DEF DisconnectingBlock, kernel, Lifecycle!BlockCommand
  <2> QED  BY <2>1 DEF LifecycleStep, Lifecycle!LifecycleNext
<1>6. CASE DisconnectingClosed
  <2>1. Lifecycle!DisconnectingOver
    BY <1>6, EnterErrorRefines, EnterDisconnectedRefines, EnterConnectingRefines
       DEF DisconnectingClosed, Lifecycle!DisconnectingOver
  <2> QED  BY <2>1 DEF LifecycleStep, Lifecycle!LifecycleNext
<1> QED  BY <1>1, <1>2, <1>3, <1>4, <1>5, <1>6 DEF DisconnectingNext

LEMMA ActiveRefines ==
    ASSUME TypeOK, Wanted, FailClosed, FailClosed', ActiveNext
    PROVE  LifecycleStep
<1>0. Active /\ Lifecycle!Up /\ Lifecycle!Alive /\ fw # NoTable
  BY DEF ActiveNext, ActiveStores, ActiveReapplies, ConnectedDns, ActiveSetSplitApps,
     ConnectingConnectivity, ConnectedConnectivity, GraceExpires, ActiveConnect, ActiveBlock,
     ActiveDisconnect, HandleInterfaceUp, HandleUp, HandlePeerEndpoints, HandleDown,
     HandleEventsEnd, HandleClose, Active, FailClosed, Lifecycle!Up, Lifecycle!Alive
\* Every way into the disconnecting state keeps the table.
<1>1. ASSUME NEW action, NEW reason, NEW n, Disconnects(action, reason, n)
      PROVE  Lifecycle!ToDisconnecting(action)
  <2>1. fw' # NoTable /\ EnterDisconnecting(action, reason, n)
    BY <1>1 DEF Disconnects, EnterDisconnecting, FailClosed
  <2> QED  BY <2>1, EnterDisconnectingRefines
<1>2. ASSUME NEW action \in {"Block", "Reconnect"}, NEW reason, NEW n,
             Disconnects(action, reason, n), UNCHANGED secured
      PROVE  LifecycleStep
  <2>1. Lifecycle!TunnelLost
    BY <1>0, <1>1, <1>2 DEF Lifecycle!TunnelLost
  <2> QED  BY <2>1 DEF LifecycleStep, Lifecycle!LifecycleNext
<1>3. ASSUME UNCHANGED <<state, after, secured, blockFailure>>
      PROVE  LifecycleStep
  <2>1. fw' # NoTable
    BY <1>0, <1>3 DEF FailClosed, Active
  <2> QED  BY <1>0, <1>3, <2>1, Stutters
<1>4. ASSUME NEW s, Reapply(s), UNCHANGED secured
      PROVE  LifecycleStep
  BY <1>2, <1>3, <1>4 DEF Reapply
<1>5. CASE ActiveStores
  BY <1>3, <1>5 DEF ActiveStores
<1>6. CASE ActiveReapplies \/ HandleInterfaceUp \/ HandlePeerEndpoints
  BY <1>4, <1>6 DEF ActiveReapplies, HandleInterfaceUp, HandlePeerEndpoints
<1>7. CASE ConnectedDns
  <2>1. CASE EnterDisconnecting("Block", "Other", 0)
    <3>1. fw' # NoTable
      BY <2>1 DEF EnterDisconnecting, FailClosed
    <3>2. Lifecycle!TunnelLost
      BY <1>0, <1>7, <2>1, <3>1, EnterDisconnectingRefines DEF ConnectedDns, Lifecycle!TunnelLost
    <3> QED  BY <3>2 DEF LifecycleStep, Lifecycle!LifecycleNext
  <2>2. CASE ~EnterDisconnecting("Block", "Other", 0)
    BY <1>3, <1>7, <2>2 DEF ConnectedDns, Disconnects
  <2> QED  BY <2>1, <2>2
<1>8. CASE ActiveSetSplitApps \/ ActiveBlock \/ HandleDown \/ HandleEventsEnd
  BY <1>2, <1>8 DEF ActiveSetSplitApps, ActiveBlock, HandleDown, HandleEventsEnd
<1>9. CASE ConnectingConnectivity \/ ConnectedConnectivity \/ GraceExpires
  BY <1>2, <1>3, <1>9 DEF ConnectingConnectivity, ConnectedConnectivity, GraceExpires
<1>10. CASE ActiveConnect
  <2>1. Lifecycle!ConnectCommand
    BY <1>0, <1>1, <1>10 DEF ActiveConnect, Lifecycle!ConnectCommand
  <2> QED  BY <2>1 DEF LifecycleStep, Lifecycle!LifecycleNext
<1>11. CASE ActiveDisconnect
  <2>1. Lifecycle!DisconnectCommand
    BY <1>0, <1>1, <1>11 DEF ActiveDisconnect, Lifecycle!DisconnectCommand
  <2> QED  BY <2>1 DEF LifecycleStep, Lifecycle!LifecycleNext
<1>12. CASE HandleUp
  <2>1. fw' # NoTable /\ UNCHANGED secured
    BY <1>0, <1>12, PoliciesAreTables DEF HandleUp, EnterConnected, Applied
  <2>2. CASE \E reason \in Causes : EnterDisconnecting("Block", reason, 0)
    <3>1. Lifecycle!TunnelLost
      BY <1>0, <2>1, <2>2, EnterDisconnectingRefines DEF Lifecycle!TunnelLost
    <3> QED  BY <3>1 DEF LifecycleStep, Lifecycle!LifecycleNext
  <2>3. CASE state' = "Connected" /\ UNCHANGED <<after, blockFailure>>
    <3>1. Lifecycle!TunnelUp
      BY <1>0, <1>12, <2>1, <2>3 DEF HandleUp, Lifecycle!TunnelUp
    <3> QED  BY <3>1 DEF LifecycleStep, Lifecycle!LifecycleNext
  <2> QED  BY <1>12, <2>2, <2>3 DEF HandleUp, EnterConnected, Causes
<1>13. CASE HandleClose
  <2>1. \/ \E reason : \E ok \in BOOLEAN : EnterError({fw}, reason, ok)
        \/ \E n : EnterConnecting(n)
    BY <1>13 DEF HandleClose
  <2>2. Lifecycle!Dial
    BY <2>1, EnterErrorRefines, EnterConnectingRefines DEF Lifecycle!Dial
  <2>3. Lifecycle!TunnelClosed
    BY <1>0, <1>13, <2>2 DEF HandleClose, Lifecycle!TunnelClosed
  <2> QED  BY <2>3 DEF LifecycleStep, Lifecycle!LifecycleNext
<1> QED
  BY <1>5, <1>6, <1>7, <1>8, <1>9, <1>10, <1>11, <1>12, <1>13 DEF ActiveNext

LEMMA ProcessRefines ==
    ASSUME TypeOK, ProcessNext
    PROVE  LifecycleStep
<1>1. CASE CommandsEnd
  BY <1>1, Stutters DEF CommandsEnd, machine, kernel
<1>2. CASE DisconnectedFinishes \/ ListenerGone
  <2>1. Lifecycle!Stop
    BY <1>2 DEF DisconnectedFinishes, ListenerGone, Finish, Running, Lifecycle!Stop, Lifecycle!Alive
  <2> QED  BY <2>1 DEF LifecycleStep, Lifecycle!LifecycleNext
<1>3. CASE Crash \/ Exit
  <2>1. Lifecycle!Die
    BY <1>3 DEF Crash, Exit, Running, kernel, TypeOK, Lifecycle!Die
  <2> QED  BY <2>1 DEF LifecycleStep, Lifecycle!LifecycleNext
<1>4. CASE BootKeeps \/ BootBlocks
  <2>1. state = "Dead" /\ secured /\ UNCHANGED secured
    BY <1>4 DEF BootKeeps, BootBlocks, Starts
  <2>2. CASE BootKeeps
    <3>1. fw # NoTable => fw' # NoTable
      BY <2>2, PoliciesAreTables DEF BootKeeps, EnterDisconnected, Applied
    <3>2. Lifecycle!StartKeeping
      BY <2>1, <2>2, <3>1 DEF BootKeeps, EnterDisconnected, Lifecycle!StartKeeping
    <3> QED  BY <3>2 DEF LifecycleStep, Lifecycle!LifecycleNext
  <2>3. CASE BootBlocks
    <3>1. Lifecycle!StartKeeping
      BY <2>1, <2>3, EnterErrorRefines DEF BootBlocks, Lifecycle!StartKeeping
    <3> QED  BY <3>1 DEF LifecycleStep, Lifecycle!LifecycleNext
  <2> QED  BY <1>4, <2>2, <2>3
<1>5. CASE BootResets
  <2>1. Lifecycle!StartClean
    BY <1>5, EnterDisconnectedRefines DEF BootResets, Starts, Lifecycle!StartClean
  <2> QED  BY <2>1 DEF LifecycleStep, Lifecycle!LifecycleNext
<1> QED  BY <1>1, <1>2, <1>3, <1>4, <1>5 DEF ProcessNext

LEMMA ThreadRefines == ASSUME ThreadNext PROVE LifecycleStep
<1>1. ThreadOnly
  BY DEF ThreadNext, ThreadInterface, ThreadRoutes, ThreadStartFails, ThreadStops,
     ThreadTearsDown, ThreadCloses, ThreadPanics
<1> QED  BY <1>1, Stutters DEF ThreadOnly, machine

\* The state machine of talpid-core implements the lifecycle the daemon relies
\* on: which state follows which command and event, and when traffic may leave.
THEOREM Refinement == Spec => ImplementsLifecycle
<1>1. Init => Lifecycle!LifecycleInit
  BY DEF Init, Lifecycle!LifecycleInit
<1>2. TypeOK /\ Wanted /\ FailClosed /\ FailClosed' /\ [Next]_vars => LifecycleStep
  <2> SUFFICES ASSUME TypeOK, Wanted, FailClosed, FailClosed', [Next]_vars PROVE LifecycleStep
    OBVIOUS
  <2>1. CASE UNCHANGED vars
    BY <2>1, Stutters DEF vars
  <2> QED
    BY <2>1, DisconnectedRefines, ErrorRefines, DisconnectingRefines, ActiveRefines,
       ThreadRefines, ProcessRefines DEF Next
<1> QED
  BY <1>1, <1>2, TypeCorrect, WantedInvariant, KillSwitch, PTL
     DEF Spec, ImplementsLifecycle, Lifecycle!LifecycleSpec, LifecycleStep
=============================================================================
