--------------------------- MODULE TunnelLifecycle ---------------------------
(***************************************************************************)
(* What the tunnel state machine promises the daemon: which state follows  *)
(* which command and which event of the tunnel, and when the firewall may  *)
(* let traffic out.  Settings, policies, DNS, routes and the tunnel thread *)
(* are abstracted away; TunnelStateMachine is shown to implement this.     *)
(***************************************************************************)
VARIABLES
    state,      \* the state the machine is in
    after,      \* what the disconnecting state does once the tunnel has closed
    wanted,     \* a Connect was handled and no Disconnect since
    blocked,    \* the firewall has a table
    alarm       \* the error state reported that it could not block

lifecycleVars == <<state, after, wanted, blocked, alarm>>

LifecycleStates ==
    {"Disconnected", "Connecting", "Connected", "Disconnecting", "Error", "Finished", "Dead"}
Up == state \in {"Connecting", "Connected"}
Alive == state \notin {"Finished", "Dead"}

-----------------------------------------------------------------------------
ToError ==
    /\ state' = "Error" /\ after' = "Nothing"
    /\ blocked' \in BOOLEAN /\ alarm' \in BOOLEAN
    /\ blocked => blocked'
    /\ blocked' \/ alarm'

ToConnecting ==
    /\ state' = "Connecting" /\ after' = "Nothing"
    /\ blocked' = TRUE /\ alarm' = FALSE

Dial == ToConnecting \/ ToError

ToDisconnecting(action) ==
    /\ state' = "Disconnecting" /\ after' = action
    /\ blocked' = TRUE /\ UNCHANGED alarm

ToDisconnected ==
    /\ state' = "Disconnected" /\ after' = "Nothing"
    /\ blocked' \in BOOLEAN /\ alarm' = FALSE

-----------------------------------------------------------------------------
\* Commands.
ConnectCommand ==
    /\ Alive
    /\ wanted' = TRUE
    /\ \/ state \in {"Disconnected", "Error"} /\ Dial
       \/ Up /\ ToDisconnecting("Reconnect")
       \/ /\ state = "Disconnecting"
          /\ after' = "Reconnect" /\ UNCHANGED <<state, blocked, alarm>>

\* Disconnect, or the end of the command channel.  A disconnected machine
\* ignores it.
DisconnectCommand ==
    /\ Alive
    /\ wanted' = FALSE
    /\ \/ state = "Error" /\ ToDisconnected
       \/ Up /\ ToDisconnecting("Nothing")
       \/ /\ state = "Disconnecting"
          /\ after' = "Nothing" /\ UNCHANGED <<state, blocked, alarm>>

BlockCommand ==
    /\ UNCHANGED wanted
    /\ \/ state = "Error" /\ ToError
       \/ Up /\ ToDisconnecting("Block")
       \/ /\ state = "Disconnecting" /\ after # "Nothing"
          /\ after' = "Block" /\ UNCHANGED <<state, blocked, alarm>>

\* A setting re-applies the policy, and an active tunnel is closed when that
\* fails or the split mode changes.  A wanted machine is not opened by it.
SettingCommand ==
    /\ UNCHANGED wanted
    /\ \/ /\ state \in {"Disconnected", "Error"}
          /\ blocked' \in BOOLEAN
          /\ wanted \/ state = "Error" => (blocked => blocked')
          /\ UNCHANGED <<state, after, alarm>>
       \/ Up /\ \E action \in {"Block", "Reconnect"} : ToDisconnecting(action)

\* A connectivity change takes back, or gives back, a pending reconnection.
OfflineWhileDisconnecting ==
    /\ state = "Disconnecting"
    /\ \/ after = "Reconnect" /\ after' = "Block"
       \/ after = "Block" /\ after' = "Reconnect" /\ wanted
    /\ UNCHANGED <<state, wanted, blocked, alarm>>

OnlineWhileBlocked ==
    /\ state = "Error" /\ wanted
    /\ Dial
    /\ UNCHANGED wanted

-----------------------------------------------------------------------------
\* Events of the tunnel.
TunnelUp ==
    /\ state = "Connecting"
    /\ state' = "Connected"
    /\ UNCHANGED <<after, wanted, blocked, alarm>>

\* An active tunnel is lost, refused or offline: it is closed first ...
TunnelLost ==
    /\ Up
    /\ \E action \in {"Block", "Reconnect"} : ToDisconnecting(action)
    /\ UNCHANGED wanted

\* ... or it had closed already.
TunnelClosed ==
    /\ Up
    /\ Dial
    /\ UNCHANGED wanted

\* The tunnel a disconnecting machine waits for has closed.  The block reason
\* of its thread goes before what was to follow.
DisconnectingOver ==
    /\ state = "Disconnecting"
    /\ \/ ToError
       \/ after = "Nothing" /\ ToDisconnected
       \/ after = "Reconnect" /\ Dial
    /\ UNCHANGED wanted

-----------------------------------------------------------------------------
\* The process.
Stop ==
    /\ Alive
    /\ state' = "Finished" /\ after' = "Nothing"
    /\ wanted' = FALSE /\ blocked' \in BOOLEAN /\ alarm' = FALSE

Die ==
    /\ state # "Dead"
    /\ state' = "Dead" /\ after' = "Nothing" /\ alarm' = FALSE
    /\ wanted' \in IF state = "Finished" THEN BOOLEAN ELSE {wanted}
    /\ UNCHANGED blocked

StartKeeping ==
    /\ state = "Dead" /\ wanted
    /\ \/ /\ state' = "Disconnected" /\ after' = "Nothing" /\ alarm' = FALSE
          /\ blocked' \in BOOLEAN /\ blocked => blocked'
       \/ ToError
    /\ UNCHANGED wanted

StartClean ==
    /\ state = "Dead"
    /\ ToDisconnected
    /\ wanted' = FALSE

LifecycleInit ==
    /\ state = "Dead" /\ after = "Nothing" /\ alarm = FALSE
    /\ wanted \in BOOLEAN /\ blocked \in BOOLEAN

LifecycleNext ==
    \/ ConnectCommand \/ DisconnectCommand \/ BlockCommand \/ SettingCommand
    \/ OfflineWhileDisconnecting \/ OnlineWhileBlocked
    \/ TunnelUp \/ TunnelLost \/ TunnelClosed \/ DisconnectingOver
    \/ Stop \/ Die \/ StartKeeping \/ StartClean

LifecycleSpec == LifecycleInit /\ [][LifecycleNext]_lifecycleVars
LifecycleFairSpec == LifecycleSpec /\ WF_lifecycleVars(DisconnectingOver)

=============================================================================
