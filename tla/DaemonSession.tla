---------------------------- MODULE DaemonSession ----------------------------
(***************************************************************************)
(* The daemon's event loop around the tunnel state machine: the target     *)
(* state and its file, the session gate with its waiting logouts, the      *)
(* account manager, bans and revocations, the prepared restart and the     *)
(* shutdown.                                                               *)
(*                                                                         *)
(* The daemon and the state machine run beside each other and talk over    *)
(* two channels: `commands' to the machine, `inbox' back.  What the daemon *)
(* knows of the tunnel (daemon.view) is the last transition it has handled *)
(* and so may be old.  The handlers of the daemon are functions of its     *)
(* record; what they send is collected in its fields sent and told.        *)
(***************************************************************************)
EXTENDS Naturals, Sequences

CONSTANTS
    ExitCauses,     \* why a tunnel may end blocked: "NoToken", "Start", "Offline"
    Lockdowns,      \* the lockdown settings a first start may find
    SaveEnds,       \* how a save of the target may end: "Written", "Torn", "Unopened"
    MaxRequests,    \* bound on what clients, the API and the installer ask
    MaxQueue        \* bound on a channel when something new is asked

ASSUME BoundsAssumption == MaxRequests \in Nat /\ MaxQueue \in Nat \ {0}
ASSUME CausesAssumption == ExitCauses \subseteq {"NoToken", "Start", "Offline"}
ASSUME LockdownsAssumption == Lockdowns \subseteq BOOLEAN
ASSUME SaveEndsAssumption == SaveEnds \subseteq {"Written", "Torn", "Unopened"}

VARIABLES
    proc,           \* "Running", "Waiting" for the disconnect, "Closing" or "Dead"
    daemon,         \* the daemon's fields, and what it keeps on disk
    machine,        \* the tunnel state machine and its firewall
    commands,       \* TunnelCommands sent and not read
    inbox,          \* InternalDaemonEvents sent and not read
    deadlines,      \* generations whose teardown deadline has not fired
    deadman,        \* the restart lockdown's dead-man is running
    loggingIn,      \* a login handed to the account manager
    promised,       \* history: the shutdown said that it blocks
    requests        \* how many requests were made

vars == <<proc, daemon, machine, commands, inbox, deadlines, deadman, loggingIn,
          promised, requests>>
timers == <<deadlines, deadman, loggingIn>>

Causes == {"Revoked", "Ban", "Expired"} \cup ExitCauses
\* reschedules_reconnect: every cause modelled but being offline.
Rescheduled == Causes \ {"Offline"}
AuthFailed == Causes \ {"Offline", "Start"}
None == "None"

Transition(state, cause) == [kind |-> "Transition", state |-> state, cause |-> cause]
Event(kind) == [kind |-> kind, state |-> None, cause |-> None]
Command(kind, cause) == [kind |-> kind, cause |-> cause]
Plain(kind) == Command(kind, None)

-----------------------------------------------------------------------------
(***************************************************************************)
(* What a handler does with the daemon's record.                           *)
(***************************************************************************)
Send(d, command) == [d EXCEPT !.sent = Append(@, command)]

\* The target's file: what it holds, and whether the last save was of a secured
\* target and did not reach it (`stale', a history of this run for the properties).
NoFile == [holds |-> None, stale |-> FALSE]

\* PersistentTargetState::save of a new target.  fs::write empties the file before
\* it writes, and its error is only logged: a file that cannot be opened stays
\* what it was, one whose write fails or that a crash cuts short is torn.
Saved(file, new, end) ==
    CASE end = "Written" -> [holds |-> new, stale |-> FALSE]
      [] end = "Torn" -> [holds |-> "Torn", stale |-> FALSE]
      [] end = "Unopened" -> [holds |-> file.holds, stale |-> new = "Secured"]
Saves(file, new) == {Saved(file, new, end) : end \in SaveEnds}

\* PersistentTargetState::set, whose save Becomes carries out
SetTarget(d, new) == [d EXCEPT !.target = new]

disconnect_tunnel(d) == Send([d EXCEPT !.blockedForBan = FALSE], Plain("Disconnect"))

\* block_for_revoked_device and block_for_ban
block_for(d, cause) ==
    Send([d EXCEPT !.blockedForBan = (cause = "Ban")], Command("Block", cause))


\* SessionGate::own_connect decides.
connect_tunnel(d) ==
    CASE d.login = "LoggedOut" -> d
      [] d.login = "Revoked" -> block_for(d, "Revoked")
      [] d.login = "LoggedIn" /\ d.ban -> block_for(d, "Ban")
      [] OTHER -> Send([d EXCEPT !.blockedForBan = FALSE, !.connectInFlight = TRUE],
                       Plain("Connect"))

\* set_target_state answers whether it changed anything.
Initiates(d, new) == new # d.target \/ d.view.state = "Error"
set_target_state(d, new) ==
    IF ~Initiates(d, new) THEN d
    ELSE LET set == SetTarget(d, new)
         IN IF new = "Secured" THEN connect_tunnel(set) ELSE disconnect_tunnel(set)

\* Seeded fault: a logout that waits does not refuse a connect.
AdmitsWhileLoggingOut(d) == d.login = "LoggedIn" /\ ~d.ban

\* SessionGate::admit_connect
admit_connect(d) == d.pending = <<>> /\ d.login = "LoggedIn" /\ ~d.ban

(***************************************************************************)
(* complete_logout of the requests, in their order; a request is whether   *)
(* it wipes the identity.  The account manager may fail to write the login *)
(* state: `first' is the first request for which it does not.              *)
(***************************************************************************)
LogoutResults(d, waiting) ==
    LET forgotten == [d EXCEPT !.ban = FALSE]
        LoggedOut(first) ==
            [forgotten EXCEPT
                !.login = "LoggedOut", !.data = "LoggedOut",
                !.told = IF d.data = "LoggedOut" THEN @ ELSE Append(@, Event("Logout")),
                !.identity = @ /\ \A i \in first .. Len(waiting) : ~waiting[i]]
    IN CASE waiting = <<>> -> {d}
         [] d.data = "LoggedOut" -> {LoggedOut(1)}
         [] OTHER -> {forgotten} \cup {LoggedOut(i) : i \in 1 .. Len(waiting)}

\* SessionGate::tunnel_transition, for a transition to the disconnected state
\* or to another one: the requests to carry out now.
Settled(d, disconnected) ==
    IF disconnected /\ ~d.connectInFlight THEN d.pending ELSE <<>>
tunnel_transition(d, disconnected) ==
    [d EXCEPT !.connectInFlight = @ /\ disconnected /\ d.pending # <<>>,
              !.pending = IF Settled(d, disconnected) # <<>> THEN <<>> ELSE @]

\* handle_tunnel_state_transition
OnTransition(d, t) ==
    LET seen == [d EXCEPT
                    !.view = [state |-> t.state, cause |-> t.cause],
                    !.retry = \/ @ /\ t.state = "Connected"
                              \/ t.state = "Error" /\ t.cause \in Rescheduled]
        disconnected == t.state = "Disconnected"
    IN LogoutResults(tunnel_transition(seen, disconnected), Settled(seen, disconnected))

on_reconnect(d) ==
    IF admit_connect(d) /\ (d.target = "Secured" \/ d.view.state = "Error")
    THEN connect_tunnel(d) ELSE d

\* handle_device_event, the device events
OnDeviceEvent(d, kind) ==
    CASE kind = "Login" ->
           LET in == [d EXCEPT !.login = "LoggedIn"]
           IN IF d.target = "Secured" THEN connect_tunnel(in) ELSE in
      [] kind = "Logout" ->
           set_target_state([d EXCEPT !.login = "LoggedOut"], "Unsecured")
      [] kind = "Revoked" ->
           LET out == [d EXCEPT !.login = IF @ = "LoggedOut" THEN @ ELSE "Revoked"]
           IN IF d.target = "Secured" THEN block_for(out, "Revoked") ELSE out

\* handle_device_event, AccountEvent::Expiry
OnExpiry(d, expired) ==
    CASE d.target # "Secured" -> d
      [] d.target = "Secured" /\ expired -> Send(d, Command("Block", "Expired"))
      [] OTHER -> IF d.view.state = "Error" /\ d.view.cause \in AuthFailed
                  THEN connect_tunnel(d) ELSE d

\* handle_warren_account_standing with ban_action, for the installed wallet
OnStanding(d, banned) ==
    LET known == [d EXCEPT !.ban = banned]
        secured == d.target = "Secured"
        blocked == d.view.state = "Error" /\ d.view.cause = "Ban"
    IN CASE banned /\ secured /\ ~blocked -> block_for(known, "Ban")
         [] ~banned /\ d.blockedForBan /\ secured /\ blocked -> connect_tunnel(known)
         [] OTHER -> known

on_warren_session_tokens_at_hand(d) ==
    IF d.target = "Secured" /\ d.view = [state |-> "Error", cause |-> "NoToken"]
    THEN connect_tunnel(d) ELSE d

\* on_warren_device_revoked, with AccountManagerHandle::revoke
on_warren_device_revoked(d) ==
    IF d.login # "LoggedIn" THEN d
    ELSE [set_target_state([d EXCEPT !.login = "Revoked"], "Unsecured") EXCEPT
             !.ban = FALSE, !.identity = FALSE,
             !.data = IF @ = "LoggedIn" THEN "Revoked" ELSE @,
             !.told = IF d.data = "LoggedIn" THEN Append(@, Event("Revoked")) ELSE @]

on_logout_account(d, wipe) ==
    LET initiated == Initiates(d, "Unsecured")
        down == d.view.state = "Disconnected"
        asked == set_target_state(d, "Unsecured")
        closing == IF ~initiated /\ ~down THEN disconnect_tunnel(asked) ELSE asked
    IN CASE d.pending # <<>> -> {[closing EXCEPT !.pending = Append(@, wipe)]}
         [] d.pending = <<>> /\ down /\ ~initiated /\ ~d.connectInFlight ->
              LogoutResults(closing, <<wipe>>)
         [] OTHER -> {[closing EXCEPT !.pending = <<wipe>>, !.generation = @ + 1]}

\* Seeded fault: the deadline of the logout before.
DeadlineOfTheLast(d, generation) ==
    IF d.pending # <<>> /\ d.generation = generation + 1
    THEN [d EXCEPT !.connectInFlight = FALSE, !.pending = <<>>] ELSE d

\* SessionGate::teardown_deadline, of the deadline of one generation
teardown_deadline(d, generation) ==
    IF d.pending # <<>> /\ d.generation = generation
    THEN [d EXCEPT !.connectInFlight = FALSE, !.pending = <<>>] ELSE d

SendLockdown(d, on) == Send(d, Plain(IF on THEN "LockdownOn" ELSE "LockdownOff"))

\* on_prepare_restart
PreparedRestart(d) ==
    IF d.target = "Secured"
    THEN SendLockdown([d EXCEPT !.armed = TRUE, !.locked = TRUE], TRUE)
    ELSE [d EXCEPT !.locked = TRUE]

\* on_set_lockdown_mode: a setting that changes goes to the state machine.
ChangedLockdown(d, on) ==
    IF d.setting = on THEN d
    ELSE SendLockdown([d EXCEPT !.setting = on], on)

\* Seeded fault: the dead-man lifts the lockdown whatever the setting.
LiftsLockdown(d) ==
    IF d.armed THEN SendLockdown([d EXCEPT !.armed = FALSE], FALSE) ELSE d

\* on_restart_lockdown_deadman, with restart_lockdown_verdict
RestartGivenUp(d) ==
    IF d.armed THEN SendLockdown([d EXCEPT !.armed = FALSE], d.setting) ELSE d

-----------------------------------------------------------------------------
(***************************************************************************)
(* The daemon's event loop.  Becomes delivers what a handler sent and      *)
(* saves a target that changed; `rest' is what the inbox still holds.      *)
(***************************************************************************)
Becomes(d, rest) ==
    /\ \E file \in IF d.target = daemon.target THEN {d.file} ELSE Saves(d.file, d.target) :
          daemon' = [d EXCEPT !.file = file, !.sent = <<>>, !.told = <<>>]
    /\ commands' = commands \o d.sent
    /\ inbox' = rest \o d.told

\* Something outside asks for something, and the daemon handles it.
Asked ==
    /\ proc = "Running" /\ requests < MaxRequests
    /\ Len(commands) < MaxQueue /\ Len(inbox) < MaxQueue
    /\ requests' = requests + 1

\* on_set_target_state
SetTargetState ==
    /\ Asked
    /\ \E new \in {"Secured", "Unsecured"} :
          /\ new = "Secured" => admit_connect(daemon)
          /\ Becomes(set_target_state(daemon, new), inbox)
    /\ UNCHANGED <<proc, machine, timers, promised>>

Reconnect ==
    /\ Asked /\ Becomes(on_reconnect(daemon), inbox)
    /\ UNCHANGED <<proc, machine, timers, promised>>

\* on_logout_account, which arms a deadline when the logout has to wait
LogoutAccount ==
    /\ Asked
    /\ \E wipe \in BOOLEAN : \E d \in on_logout_account(daemon, wipe) : Becomes(d, inbox)
    /\ deadlines' = IF daemon'.generation = daemon.generation THEN deadlines
                    ELSE deadlines \cup {daemon'.generation}
    /\ UNCHANGED <<proc, machine, deadman, loggingIn, promised>>

\* on_login_account and on_set_warren_mnemonic: the account manager is asked,
\* and the identity is there by then.
LoginAccount ==
    /\ Asked /\ daemon.pending = <<>> /\ ~loggingIn
    /\ loggingIn' = TRUE
    /\ daemon' = [daemon EXCEPT !.identity = TRUE]
    /\ UNCHANGED <<proc, machine, commands, inbox, deadlines, deadman, promised>>

SetLockdownMode ==
    /\ Asked /\ Becomes(ChangedLockdown(daemon, ~daemon.setting), inbox)
    /\ UNCHANGED <<proc, machine, timers, promised>>

PrepareRestart ==
    /\ Asked
    /\ \E shutdown \in BOOLEAN :
          Becomes(PreparedRestart(daemon),
                  IF shutdown THEN Append(inbox, Event("Shutdown")) ELSE inbox)
    /\ deadman' = IF daemon.target = "Secured" THEN deadman + 1 ELSE deadman
    /\ UNCHANGED <<proc, machine, deadlines, loggingIn, promised>>

\* What the API and the pollers report: an expiry, the standing, tokens, and a
\* device that the account's registry revoked.
Report ==
    /\ Asked
    /\ \/ \E expired \in BOOLEAN : Becomes(OnExpiry(daemon, expired), inbox)
       \/ /\ daemon.identity
          /\ \E banned \in BOOLEAN : Becomes(OnStanding(daemon, banned), inbox)
       \/ Becomes(on_warren_session_tokens_at_hand(daemon), inbox)
       \/ Becomes(on_warren_device_revoked(daemon), inbox)
    /\ UNCHANGED <<proc, machine, timers, promised>>

\* The account manager finishes a login, or learns that the device is gone
\* (revoke_device); it tells the daemon.
AccountManager ==
    /\ proc = "Running" /\ Len(inbox) < MaxQueue
    /\ \/ /\ loggingIn
          /\ loggingIn' = FALSE
          /\ \/ UNCHANGED <<daemon, inbox>>     \* it failed, or the wallet was logged in
             \/ /\ daemon' = [daemon EXCEPT !.data = "LoggedIn"]
                /\ inbox' = Append(inbox, Event("Login"))
          /\ UNCHANGED requests
       \/ /\ daemon.data = "LoggedIn" /\ requests < MaxRequests
          /\ daemon' = [daemon EXCEPT !.data = "Revoked"]
          /\ inbox' = Append(inbox, Event("Revoked"))
          /\ requests' = requests + 1
          /\ UNCHANGED loggingIn
    /\ UNCHANGED <<proc, machine, commands, deadlines, deadman, promised>>

\* A timer fires: a logout's deadline, the dead-man, or the retry of a block.
TeardownDeadline ==
    /\ proc = "Running"
    /\ \E generation \in deadlines :
          /\ Becomes(teardown_deadline(daemon, generation), inbox)
          /\ deadlines' = deadlines \ {generation}
    /\ UNCHANGED <<proc, machine, deadman, loggingIn, promised, requests>>

RestartLockdownDeadman ==
    /\ proc = "Running" /\ deadman > 0
    /\ Becomes(RestartGivenUp(daemon), inbox)
    /\ deadman' = deadman - 1
    /\ UNCHANGED <<proc, machine, deadlines, loggingIn, promised, requests>>

\* schedule_reconnect's task
RetryFires ==
    /\ proc = "Running" /\ daemon.retry
    /\ Len(inbox) < MaxQueue /\ Len(commands) < MaxQueue
    /\ daemon' = [daemon EXCEPT !.retry = FALSE]
    /\ inbox' = Append(inbox, Event("Reconnect"))
    /\ UNCHANGED <<proc, machine, commands, timers, promised, requests>>

\* handle_event, for what another task put in the inbox
HandleEvent ==
    /\ proc = "Running" /\ inbox # <<>>
    /\ LET event == Head(inbox)
       IN /\ event.kind # "Shutdown"
          /\ \E d \in CASE event.kind = "Transition" -> OnTransition(daemon, event)
                        [] event.kind = "Reconnect" -> {on_reconnect(daemon)}
                        [] OTHER -> {OnDeviceEvent(daemon, event.kind)} :
                Becomes(d, Tail(inbox))
    /\ UNCHANGED <<proc, machine, timers, promised, requests>>

(***************************************************************************)
(* The shutdown: on_trigger_shutdown, disconnect_tunnel_and_wait, and what *)
(* run and finalize do after it, which ends with the command channel       *)
(* closed.                                                                 *)
(***************************************************************************)
Blocks(d, user) == ~user /\ (d.target = "Secured" \/ d.auto)
\* Seeded fault: the lockdown is not sent.
JustDisconnects(d, user) == disconnect_tunnel(d)
on_trigger_shutdown(d, user) ==
    disconnect_tunnel(IF Blocks(d, user) THEN SendLockdown(d, TRUE) ELSE d)

\* run, after the wait: abandon's requests are carried out, and the file goes,
\* unless it is locked or cannot be removed.
Finalized(d) ==
    UNION {LogoutResults([d EXCEPT !.pending = <<>>, !.file = file], d.pending) :
               file \in IF d.locked THEN {d.file} ELSE {NoFile, d.file}}

\* Seeded fault: a tunnel that is down already is waited for.
WaitsAnyway(user, rest) ==
    /\ promised' = Blocks(daemon, user)
    /\ proc' = "Waiting"
    /\ Becomes(disconnect_tunnel(on_trigger_shutdown(daemon, user)), rest)
    /\ UNCHANGED <<machine, timers>>

\* run, once its loop ends: disconnect_tunnel_and_wait, then finalize
Shutdown(user, rest) ==
    LET told == on_trigger_shutdown(daemon, user)
    IN /\ promised' = Blocks(daemon, user)
       /\ \/ /\ told.view.state = "Disconnected"
             /\ proc' = "Closing"
             /\ \E d \in Finalized(told) : Becomes(d, rest)
          \/ /\ told.view.state # "Disconnected"
             /\ proc' = "Waiting"
             /\ Becomes(disconnect_tunnel(told), rest)
       /\ UNCHANGED <<machine, timers>>

TriggerShutdown ==
    \/ \E user \in BOOLEAN : Asked /\ Shutdown(user, inbox)
    \/ /\ proc = "Running" /\ inbox # <<>> /\ Head(inbox).kind = "Shutdown"
       /\ Shutdown(FALSE, Tail(inbox)) /\ UNCHANGED requests

\* One round of the loop of disconnect_tunnel_and_wait
WaitForDisconnect ==
    /\ proc = "Waiting" /\ inbox # <<>>
    /\ LET event == Head(inbox)
           after == IF event.kind = "Transition" THEN OnTransition(daemon, event) ELSE {daemon}
       IN \E d \in after :
            IF d.view.state = "Disconnected"
            THEN /\ proc' = "Closing"
                 /\ \E end \in Finalized(d) : Becomes(end, Tail(inbox))
            ELSE proc' = proc /\ Becomes(d, Tail(inbox))
    /\ UNCHANGED <<machine, timers, promised, requests>>

-----------------------------------------------------------------------------
(***************************************************************************)
(* The tunnel state machine, as far as the daemon can tell.                *)
(***************************************************************************)
Up == {"Connecting", "Connected"}

\* A new state, which is reported; every state but Disconnected filters.
Enter(state, after, cause) ==
    /\ machine' = [machine EXCEPT !.state = state, !.after = after, !.cause = cause,
                                  !.blocked = state # "Disconnected" \/ machine.lockdown]
    /\ inbox' = Append(inbox, Transition(state, IF state = "Error" THEN cause ELSE None))

Dial == \/ Enter("Connecting", None, None)
        \/ \E cause \in ExitCauses : Enter("Error", None, cause)
Close(after, cause) == Enter("Disconnecting", after, cause)
Changes(after, cause) ==
    machine' = [machine EXCEPT !.after = after, !.cause = cause] /\ UNCHANGED inbox
Stays == UNCHANGED <<machine, inbox>>

\* TunnelCommand::LockdownMode
TakeLockdown(on) ==
    IF machine.state = "Disconnected" /\ machine.lockdown # on
    THEN /\ machine' = [machine EXCEPT !.lockdown = on, !.blocked = on]
         /\ inbox' = Append(inbox, Transition("Disconnected", None))
    ELSE machine' = [machine EXCEPT !.lockdown = on] /\ UNCHANGED inbox

TakeConnect ==
    \/ machine.state \in {"Disconnected", "Error"} /\ Dial
    \/ machine.state \in Up /\ Close("Reconnect", None)
    \/ machine.state = "Disconnecting" /\ Changes("Reconnect", None)
TakeDisconnect ==
    \/ machine.state = "Disconnected" /\ Stays
    \/ machine.state = "Error" /\ Enter("Disconnected", None, None)
    \/ machine.state \in Up /\ Close("Nothing", None)
    \/ machine.state = "Disconnecting" /\ Changes("Nothing", None)
TakeBlock(cause) ==
    \/ machine.state = "Error" /\ Enter("Error", None, cause)
    \/ machine.state \in Up /\ Close("Block", cause)
    \/ machine.state = "Disconnecting" /\ machine.after # "Nothing" /\ Changes("Block", cause)
    \/ (machine.state = "Disconnected" \/ machine.after = "Nothing") /\ Stays

\* handle_commands of the five states
Handle(command) ==
    \/ command.kind = "LockdownOn" /\ TakeLockdown(TRUE)
    \/ command.kind = "LockdownOff" /\ TakeLockdown(FALSE)
    \/ command.kind = "Connect" /\ TakeConnect
    \/ command.kind = "Disconnect" /\ TakeDisconnect
    \/ command.kind = "Block" /\ TakeBlock(command.cause)

ReadCommand ==
    /\ commands # <<>>
    /\ Handle(Head(commands))
    /\ commands' = Tail(commands)
    /\ UNCHANGED <<proc, daemon, timers, promised, requests>>

\* The command channel is closed: the machine winds down, and with it the
\* process.
ChannelClosed ==
    /\ proc = "Closing" /\ commands = <<>>
    /\ \/ machine.state = "Error" /\ Enter("Disconnected", None, None)
       \/ machine.state \in Up /\ Close("Nothing", None)
       \/ /\ machine.state = "Disconnecting" /\ machine.after = "Reconnect"
          /\ Changes("Nothing", None)
    /\ UNCHANGED <<proc, daemon, commands, timers, promised, requests>>

\* What the tunnel thread and the offline monitor bring about.
TunnelUp ==
    /\ machine.state = "Connecting" /\ Len(inbox) < MaxQueue
    /\ Enter("Connected", None, None)
    /\ UNCHANGED <<proc, daemon, commands, timers, promised, requests>>

TunnelLost ==
    /\ machine.state \in Up /\ Len(inbox) < MaxQueue
    /\ \/ Dial
       \/ Close("Reconnect", None)
       \/ \E cause \in ExitCauses \cap {"Offline"} : Close("Block", cause)
    /\ UNCHANGED <<proc, daemon, commands, timers, promised, requests>>

\* DisconnectingState::after_disconnect, without and with a block reason of
\* the tunnel thread
TunnelClosed ==
    /\ machine.state = "Disconnecting"
    /\ CASE machine.after = "Nothing" -> Enter("Disconnected", None, None)
         [] machine.after = "Block" -> Enter("Error", None, machine.cause)
         [] machine.after = "Reconnect" -> Dial
    /\ UNCHANGED <<proc, daemon, commands, timers, promised, requests>>

TunnelClosedBlocking ==
    /\ machine.state = "Disconnecting"
    /\ \E cause \in ExitCauses \ {"Offline"} : Enter("Error", None, cause)
    /\ UNCHANGED <<proc, daemon, commands, timers, promised, requests>>

\* TunnelCommand::Connectivity, the edge that ends being offline
BackOnline ==
    /\ machine.cause = "Offline" /\ Len(inbox) < MaxQueue
    /\ \/ machine.state = "Error" /\ Dial
       \/ machine.state = "Disconnecting" /\ Changes("Reconnect", None)
    /\ UNCHANGED <<proc, daemon, commands, timers, promised, requests>>

-----------------------------------------------------------------------------
(***************************************************************************)
(* The process: a crash keeps the disk and the firewall, and a start reads *)
(* the disk.                                                               *)
(***************************************************************************)
NoView == [state |-> "Disconnected", cause |-> None]

\* What a process leaves: its files and the firewall.  The target stays as a
\* record of what the process was asked for; Start does not read it.
Leaves(disk, blocked) ==
    /\ proc' = "Dead"
    /\ daemon' = [disk EXCEPT
                    !.file = [holds |-> disk.file.holds, stale |-> FALSE],
                    !.login = disk.data, !.view = NoView,
                    !.retry = FALSE, !.locked = FALSE, !.armed = FALSE, !.pending = <<>>,
                    !.generation = 0, !.connectInFlight = FALSE, !.ban = FALSE,
                    !.blockedForBan = FALSE]
    /\ machine' = [state |-> "Disconnected", after |-> None, cause |-> None,
                   lockdown |-> disk.setting, blocked |-> blocked]
    /\ commands' = <<>> /\ inbox' = <<>>
    /\ deadlines' = {} /\ deadman' = 0 /\ loggingIn' = FALSE

\* The machine has finished, and the rest of finalize ends the process.
Exit ==
    /\ proc = "Closing" /\ commands = <<>> /\ machine.state = "Disconnected"
    /\ Leaves(daemon, machine.blocked /\ machine.lockdown)
    /\ UNCHANGED <<promised, requests>>

\* The process is killed, or the machine goes down.
Crash ==
    /\ proc # "Dead" /\ requests < MaxRequests
    /\ requests' = requests + 1
    /\ Leaves(daemon, machine.blocked)
    /\ promised' = FALSE

\* Seeded fault: a file that cannot be parsed is taken for none.
TornIsUnsecured(d) ==
    IF d.auto THEN "Secured"
    ELSE IF d.file.holds \in {None, "Torn"} THEN "Unsecured" ELSE d.file.holds

\* PersistentTargetState::new_secured and new
StartTarget(d) ==
    CASE d.auto \/ d.file.holds = "Torn" -> "Secured"
      [] ~d.auto /\ d.file.holds = None -> "Unsecured"
      [] OTHER -> d.file.holds
\* The target of a start is saved, unless it was read from the file.
StartFiles(d) ==
    IF d.auto \/ d.file.holds = "Torn" THEN Saves(d.file, "Secured") ELSE {d.file}
StartLogin(d) == IF d.data = "LoggedIn" /\ ~d.identity THEN "LoggedOut" ELSE d.data

\* Seeded fault: a boot without a login skips the connect and keeps the target.
SkipsTheConnect(target, login) ==
    IF target = "Unsecured" \/ login = "LoggedOut" THEN None
    ELSE IF login = "Revoked" THEN "BlockRevoked" ELSE "Connect"

\* SessionGate::secured_boot, for a build that may restore
secured_boot(target, login) ==
    CASE target = "Unsecured" -> None
      [] target = "Secured" /\ login = "LoggedOut" -> "DropLoggedOut"
      [] target = "Secured" /\ login = "Revoked" -> "BlockRevoked"
      [] OTHER -> "Connect"

\* Seeded fault: only a boot that blocks keeps the block of the last run.
ResetsBeforeDial(boot) == boot = "BlockRevoked"
keeps_firewall_block(boot) == boot \in {"Connect", "BlockRevoked"}

\* Daemon::start and handle_initial_target_state
Start ==
    LET target == StartTarget(daemon)
        login == StartLogin(daemon)
        boot == secured_boot(target, login)
        revoked == boot = "BlockRevoked"
        dropped == boot = "DropLoggedOut"
    IN /\ proc = "Dead" /\ proc' = "Running"
       /\ \E first \in StartFiles(daemon) :
          \E file \in IF dropped THEN Saves(first, "Unsecured") ELSE {first} :
             daemon' = [daemon EXCEPT
                !.target = IF dropped THEN "Unsecured" ELSE target, !.file = file,
                !.login = login, !.data = login, !.connectInFlight = boot = "Connect"]
       /\ machine' = [machine EXCEPT
              !.state = IF revoked THEN "Error" ELSE "Disconnected",
              !.cause = IF revoked THEN "Revoked" ELSE None,
              !.blocked = revoked \/ daemon.setting \/ (keeps_firewall_block(boot) /\ @)]
       /\ commands' = IF boot = "Connect" THEN <<Plain("Connect")>> ELSE <<>>
       /\ inbox' = (IF revoked THEN <<Transition("Error", "Revoked")>> ELSE <<>>)
                   \o (IF login # daemon.data THEN <<Event("Logout")>> ELSE <<>>)
       /\ promised' = FALSE
       /\ UNCHANGED <<timers, requests>>

\* Before the daemon starts, on any disk that a clean exit leaves.
Init ==
    /\ proc = "Dead"
    /\ \E data \in {"LoggedIn", "LoggedOut", "Revoked"}, auto \in BOOLEAN, setting \in Lockdowns :
          /\ daemon = [target |-> "Unsecured", file |-> NoFile, locked |-> FALSE,
                       view |-> NoView, retry |-> FALSE, login |-> data,
                       pending |-> <<>>, generation |-> 0, connectInFlight |-> FALSE,
                       ban |-> FALSE, blockedForBan |-> FALSE,
                       armed |-> FALSE, setting |-> setting, auto |-> auto, data |-> data,
                       identity |-> data # "Revoked", sent |-> <<>>, told |-> <<>>]
          /\ machine = [state |-> "Disconnected", after |-> None, cause |-> None,
                        lockdown |-> setting, blocked |-> setting]
    /\ commands = <<>> /\ inbox = <<>>
    /\ deadlines = {} /\ deadman = 0 /\ loggingIn = FALSE
    /\ promised = FALSE /\ requests = 0

Daemon == \/ HandleEvent \/ TriggerShutdown \/ WaitForDisconnect
Machine == \/ ReadCommand \/ ChannelClosed \/ TunnelClosed \/ Exit
Next ==
    \/ SetTargetState \/ Reconnect \/ LogoutAccount \/ LoginAccount \/ SetLockdownMode
    \/ PrepareRestart \/ Report \/ AccountManager
    \/ TeardownDeadline \/ RestartLockdownDeadman \/ RetryFires
    \/ Daemon \/ Machine
    \/ TunnelUp \/ TunnelLost \/ TunnelClosedBlocking \/ BackOnline
    \/ Crash \/ Start

Spec == Init /\ [][Next]_vars

\* Both loops keep reading (the machine's select! gives a waiting command its
\* turn between two events of the tunnel), a closing tunnel closes and the timers
\* fire.  A TriggerShutdown that is asked for is not owed.
Fairness ==
    /\ WF_vars(HandleEvent) /\ WF_vars(WaitForDisconnect)
    /\ WF_vars(Machine) /\ WF_vars(ReadCommand)
    /\ WF_vars(TeardownDeadline) /\ WF_vars(RestartLockdownDeadman)
FairSpec == Spec /\ Fairness

-----------------------------------------------------------------------------
(***************************************************************************)
(* Properties.                                                             *)
(***************************************************************************)
\* The type of every variable.
TypeOK ==
    /\ proc \in {"Running", "Waiting", "Closing", "Dead"}
    /\ daemon.target \in {"Secured", "Unsecured"}
    /\ daemon.file \in [holds : {"Secured", "Unsecured", "Torn", None}, stale : BOOLEAN]
    /\ {daemon.login, daemon.data} \subseteq {"LoggedIn", "LoggedOut", "Revoked"}
    /\ daemon.pending \in Seq(BOOLEAN) /\ daemon.generation \in Nat
    /\ daemon.sent = <<>> /\ daemon.told = <<>>
    /\ machine.state \in {"Disconnected", "Disconnecting", "Error"} \cup Up
    /\ machine.after \in {"Nothing", "Reconnect", "Block", None}
    /\ machine.cause \in Causes \cup {None}
    /\ deadlines \subseteq Nat /\ deadman \in Nat /\ requests \in 0 .. MaxRequests

\* A logout that waits for the tunnel is never overtaken by a connect: whatever
\* is asked or reported while one waits, the target stays unsecured.
LogoutHoldsTheGate ==
    (proc = "Running" /\ daemon.pending # <<>>) => daemon.target = "Unsecured"

\* A secured target is protected: once the state machine has read what it was
\* sent it is not disconnected, and the firewall filters.  That of a revoked
\* device is blocked: the machine is then in the error state, or closing in order
\* to block.
SecuredIsProtected ==
    (proc = "Running" /\ daemon.target = "Secured" /\ commands = <<>>) =>
       /\ machine.state # "Disconnected" /\ machine.blocked
       /\ daemon.login = "Revoked" =>
             \/ machine.state = "Error"
             \/ machine.state = "Disconnecting" /\ machine.after = "Block"

\* A shutdown that said that it blocks leaves the firewall blocking.
ShutdownStaysBlocked == (proc = "Dead" /\ promised) => machine.blocked

\* A firewall that filters for a secured target opens, whatever crashes and
\* starts in between, only once the target is unsecured, for an earlier disconnect
\* with a Connect still to be read, or for a shutdown: a start with a secured
\* target keeps what the last run left.
NeverOpensWhileSecured ==
    [][(machine.blocked /\ ~machine'.blocked /\ daemon.target = "Secured"
          /\ daemon'.target = "Secured")
         => \/ proc = "Running" /\ \E i \in DOMAIN commands' : commands'[i].kind = "Connect"
            \/ proc \in {"Waiting", "Closing"}]_vars

\* A crash does not lose the user's wish: the next run starts secured if this
\* one was, with the file written, torn or left alone by handlers that had
\* nothing to save.  The one exception is a target whose save did not reach the
\* file: the daemon only logs it and goes on secured.
CrashKeepsWish ==
    [][(proc = "Running" /\ proc' = "Dead" /\ daemon.target = "Secured"
          /\ ~daemon.file.stale)
         => StartTarget(daemon') = "Secured"]_vars

\* A logout that waits is settled: it is carried out, its deadline drops it, or
\* a shutdown takes it over.
LogoutSettles ==
    daemon.pending # <<>> ~> (daemon.pending = <<>> \/ proc = "Waiting")

\* A restart lockdown whose installer does not come back is given up, and the
\* state machine ends with the lockdown the user has set since.
RestartLockdownEnds ==
    daemon.armed ~> \/ ~daemon.armed /\ commands = <<>> /\ machine.lockdown = daemon.setting
                    \/ proc # "Running"

\* disconnect_tunnel_and_wait returns, unless the tunnel it closes ends with a
\* block reason: the machine then goes to the error state, which the loop takes
\* for one more transition on the way, and the shutdown waits behind the block.
ShutdownEndsOrBlocks ==
    proc = "Waiting" ~> (proc # "Waiting" \/ machine.state = "Error")

-----------------------------------------------------------------------------
(***************************************************************************)
(* What the repository says of the program and the program does not do.    *)
(***************************************************************************)
\* "A logout takes the tunnel down BEFORE it touches the login state or the
\* identity": a waiting logout is carried out with no tunnel up and none to come.
LogoutAfterTeardown ==
    [][(proc' = "Running" /\ daemon.pending # <<>>
          /\ daemon.login = "LoggedIn" /\ daemon'.login = "LoggedOut")
         => /\ machine.state \notin Up
            /\ \A i \in DOMAIN commands : commands[i].kind # "Connect"]_vars
=============================================================================
