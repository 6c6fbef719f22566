# A verification project for the Warren VPN daemon

This directory holds TLA+ models of the part of the Warren app that decides
whether traffic may leave the machine: the tunnel state machine of
`talpid-core`, the reconnect loop around it, the path on which it learns that the
host is offline, the daemon's event loop that commands it, the account manager,
the arbitration between several environments on one machine, and the forwarded
ports of a tunnel. TLC checks the models on small instances; TLAPS proves every
safety invariant and every action property of the runs for every value of the
constants. Liveness is left to TLC.

The models follow the Linux build. Every definition that models code names its
lines in `PROJECT.json` ("map"); the paths below are relative to `src/`.

## 1. Inventory

### 1.1 The parts of the system

| part | state it keeps | operations | talks to |
|---|---|---|---|
| **Tunnel state machine** `talpid-core/src/tunnel_state_machine/` | one of five states (Disconnected, Connecting, Connected, Disconnecting, Error) with its fields; the shared values (LAN, API endpoint, DNS, lockdown, split mode, connectivity, NetworkManager's saved check) | one handler per command (`TunnelCommand`), per tunnel event, for the close event, for the offline grace | the daemon (commands in, transitions out), the tunnel thread, firewall, DNS, routes, NetworkManager |
| **Reconnect loop** `connecting_state.rs`, `connected_state.rs`, `exit_refusal.rs` | the attempt count, the refusal run with its API answer, the laps of the flap detector; all but the first are process-wide statics | start a lap, note how it ended, pad it, judge the run before the next dial | the account API, the tunnel thread |
| **Offline monitor and debounce** `talpid-core/src/offline/linux.rs`, `run_connectivity_debounce` | the last connectivity known, the pending online edge and its timer | probe, subscribe, report, forward | route manager, state machine, API availability and UI |
| **Firewall** `talpid-core/src/firewall/linux.rs`, `mullvad-daemon/src/early_boot_firewall.rs` | one nftables table in the kernel, which outlives the process | apply, reset, verify, keep on drop | the kernel |
| **Tunnel thread and Warren backend** `talpid-warren-tunnel` | the device, QUIC sessions, routes | start, pump, close, tear down | state machine (events, close event), kernel routes |
| **DNS, routes, NetworkManager** `talpid-dns`, `talpid-routing`, `talpid-dbus` | system configuration | set, reset, disable, enable | the system |
| **Daemon session** `mullvad-daemon/src/lib.rs`, `target_state.rs`, `warren_session_gate.rs` | the target state (on disk too), the login, a pending logout, bans, the restart lockdown, the last transition | set target, reconnect, log in and out, revoke, expire, ban, prepare a restart, shut down, start | state machine (two queues), account manager, management interface |
| **Account manager** `mullvad-daemon/src/device/mod.rs` | the login state, `device.json`, the one API call that runs, the requests that wait for it | log in and out, revoke, check the expiry, submit a voucher, consume an answer | daemon, account API, disk |
| **Environment arbitration** `warren_env_arbitration.rs`, `lib.rs` | what was last seen of the other environments, the yield in the settings | watch, stand down, refuse, re-enable, boot, shut down | the other daemons' management interface, settings file, state machine |
| **Forwarded ports** `talpid-warren-tunnel/src/lib.rs`, `nat_pmp_manager.rs`, `warren_status.rs`, `warren-standing` | the controller of a tunnel with a manager per rule, the watch channel, the status cache, the slots of the credential batch | reconcile, retry, release, cancel, push, preset, remap, tear down | the refresh loops (external), the exit, the daemon |
| Relay selection, API access, per-app routes, tailnet watch, settings, upgrades, the other platforms, the interfaces | | | not modelled, see section 8 |

The state machine runs on one thread: it handles one command or event at a time,
and everything else (the daemon, the debounce task, the tunnel thread, the
kernel) runs beside it. The channels between them are unbounded; a `select` over
commands, tunnel events, the close event and the grace timer picks any ready one.
The daemon is a loop of the same kind: it sends commands into one queue and reads
transitions, account events and timers from another, so what it knows of the
tunnel is the last transition it has handled. The account manager, the watchers of
other environments and the controller of each tunnel are tasks of their own.

### 1.2 What is hard here

* **Order.** A lap ends on two channels, the events and the close event, and the
  two lead to different states. A Connect, a Disconnect, a Block and a
  connectivity edge may all arrive while a tunnel closes, and each rewrites what
  happens afterwards.
* **Partial failure.** An nftables operation may fail before the kernel has
  taken the batch or after it: the handler that reacts must be right about both.
* **Crash and restart.** The table, the system's DNS, the routes and
  NetworkManager's setting outlive the process; the memory of what they were does not.
* **Time.** Floors, patience, reuse of an answer, the flap window, the settle
  time and the offline grace all race with the events they are to pace.
* **Two queues.** The daemon decides from the last transition it read while its own
  commands are still unread at the other end. Logouts, reconnects, blocks and the
  shutdown all have to be right about a tunnel they see late.
* **Late answers and late goodbyes.** An API call outlives the login it was made
  for; a controller outlives its tunnel; a forwarder outlives its abort.
* **Several writes.** A stand-down is four settings writes, a re-enable three;
  each may fail, and a crash may fall between any two.
* **Liveness.** The daemon's stop has to get the machine out of every state, and
  a disconnecting machine waits only for a thread.

`PROJECT.json` lists each hazard with the line where it bites and the properties
that would catch it.

### 1.3 What makes each part correct

* State machine: traffic is blocked whenever a tunnel is dialled, up or coming
  down, and stays blocked for a user who wants the tunnel through failures,
  crashes and restarts; the policy in the kernel is the one the settings ask
  for; a Disconnect is final; one tunnel at a time; the DNS it holds and the routes
  follow the tunnel; no online edge is lost; a stop finishes.
* Reconnect loop: dials keep their distance; a refusal run belongs to one series
  of dials; a paying user is not parked; an unanswered refusal surfaces.
* Monitor: offline passes at once, online after the burst has settled and never
  stale, nothing noticed is lost, and the API is told what the machine is told.
* Daemon session: a secured target is protected, through crashes, starts,
  revocations and shutdowns; a waiting logout is not overtaken and is settled; the
  lockdown of an installer ends, and gives way to the one the user has set.
* Account manager: a logout is not undone by a late answer or a crash, nor by a
  failed write other than that of a later login.
* Arbitration: the weaker environment stands down and stays down, leaves no block
  behind, keeps its user's settings, and may come back when the machine is free.
* Forwarded ports: what the status shows belongs to a rule that runs; a late
  goodbye harms nobody's row or slot; a retry is of the present loop; a wanted rule
  gets an answer.

## 2. The modules

| module | what it is |
|---|---|
| `TunnelStateMachine` | the state machine, its thread, the kernel's state and the process around it |
| `TunnelLifecycle` | what the state machine promises the daemon: an abstract specification of five variables |
| `MCTunnelStateMachine` | the refinement mapping, and the module the runs of the state machine use |
| `TunnelStateMachineProofs` | type correctness, the kill switch, finality of a disconnect, and the other safety properties of the state machine |
| `TunnelRefinementProofs` | `TunnelStateMachine` implements `TunnelLifecycle` |
| `ReconnectLoop`, `MCReconnectLoop` | laps, floors, refusal runs and the flap detector on a discrete clock; three worlds |
| `ConnectivityMonitor` | the offline monitor, the debounce task, and the start of both |
| `DaemonSession` | the daemon's loop and the state machine it commands, with the two queues between them |
| `AccountManager` | the login state, its file and its API call |
| `EnvArbitration`, `MCEnvArbitration` | the daemons of several environments, their watchers and plans |
| `PortForwarding`, `MCPortForwarding` | the controllers of successive tunnels, their managers, the status and the slots |
| `ReconnectLoopProofs`, `ConnectivityMonitorProofs`, `DaemonSessionProofs`, `AccountManagerProofs`, `EnvArbitrationProofs`, `PortForwardingProofs` | the inductive invariant of each of these modules, and its safety properties |

### 2.1 TunnelStateMachine

State. `state` is the current `TunnelState` plus `Finished` (the loop has ended)
and `Dead` (no process). `after`, `cause` and `attempt` are the payload of
`AfterDisconnect` and of the error and connecting states. `session` holds the
fields of `ConnectingState` and `ConnectedState` that later handlers read:
whether the tunnel is multi-hop, the split mode its routes were made for,
whether `InterfaceUp` was handled (`metadata`), its peers, and whether the
offline grace is armed. `sv` is `SharedTunnelStateValues`. `fw`, `dns`, `nmCheck`
and `routes` are the system; `thread` the tunnel thread; `cmdOpen` whether the
daemon holds the command channel; `secured` whether the tunnel is wanted (which a
restarted daemon knows from its target-state file).

`dns` is the tunnel DNS the system has (`conf`) and whether this process's
`DnsMonitor` has it installed (`held`, its `inner`). A configuration of `LocalDns`
has no server to install. Nothing but the monitor's own reset takes DNS away, and a
reset without `inner` does nothing: DNS that a crash left stays through the next
start and until that process connects.

A firewall policy is a record of its kind and of the settings its rules are
built from. `PolicyFollowsSettings` can therefore tell a policy built from old
settings from the right one, without modelling rules.

Actions. One action is one pass of the event loop, `enter` functions included:

* `Disconnected*`, `Error*`, `Disconnecting*`: the handlers of those states, one
  action per kind of reaction (a setting that is only stored, one that re-applies
  the policy, each of the other commands, the end of the commands, the close event).
* `Active*`, `Connecting*`, `Connected*`, `Handle*`: the handlers of
  `ConnectingState` and `ConnectedState`. They share an action where the two
  handlers are the same up to which policy they build and that only the connected
  one resets the DNS.
* `Thread*`: the tunnel thread. `EventHook::on_event` waits until an event has been
  consumed or the receiver is gone, which is the guard of `ThreadRoutes`.
* `CommandsEnd`, `Finish`, `ListenerGone`, `Crash`, `Exit`, `Boot*`: the process.

Failure. `Applied(tables, policy, ok)` is the set of tables that may be in the
kernel after an operation: `apply_policy` sends the batch and then verifies, so a
failure leaves the old table or the new one. The same holds of `reset_policy`. A
reset of DNS that fails forgets what was installed and may leave it; a set that fails
leaves the old DNS, none or the new one, and ends in the error state.

A later `Up` of a connected tunnel (`connected_state.rs:554`) replaces the metadata and
publishes the state again; no other variable moves, and policy and DNS stay, so
it is a stutter here.

Choices that stand for code outside the machine: whether parameters can be
generated, whether the refusal check parks (`ReconnectLoop` has the policy),
whether a failed lap counts as flapping, whether a start-up error is fatal. The
`AuthFailed` and `Down` arms of the connecting state are left out: the Warren
backend sends neither before its `Up` was handled.

`Booting`: a start for a secured target enters Disconnected, keeps the table it
finds, and the daemon sends Connect as its first command. Settings the daemon
would send come after it; the connectivity and the API endpoint may come before.

### 2.2 TunnelLifecycle and the refinement

The lifecycle keeps `state`, `after`, `wanted`, `blocked` (there is a table) and
`alarm` (the error state reported that it could not block). It says which state
may follow which command, when `blocked` may become false (only on the way to
Disconnected, by a setting in an unwanted disconnected state, or at the end of
the process), and that a wanted machine is not opened. The mapping is

    wanted <- secured, blocked <- (fw # NoTable), alarm <- blockFailure

with `state` and `after` mapped to themselves.

### 2.3 ReconnectLoop

A tick is `CONFIRMED_TRANSIENT_FLOOR` (500 ms). `lap` is the tunnel thread of the
current lap with its age and the floor it is padded to; `run` the refusal run
(`REFUSALS`) with its age and its last API answer; `laps` the ages of
`RECENT_RECONNECTS`. `world` fixes, for one behaviour, which answers the API gives
and which refusals the exits give. The state machine is reduced to what paces it.

### 2.4 ConnectivityMonitor

A connectivity is the set of IP versions a route exists for, or `PresumeOnline`.
Each probe reads IPv4 and IPv6 in two steps, between which the link may change;
either may fail. The subscription at the start may fail too; then there is no monitor
and the machine is told `PresumeOnline`. `boot` is the position in `TunnelStateMachine::new`. `Machine` is
what the state machine believes once it has handled what was sent; `api` what
`offline_state_tx` was told last.

### 2.5 DaemonSession

`daemon` is the record of the daemon's fields (target, view of the tunnel, login,
the gate's pending logouts with their generation and `connect_in_flight`, ban,
restart lockdown, the scheduled reconnect) and of what it keeps on disk (target
file, settings, device state, identity). A handler is a function of that record to
a record, or to a set of records where a write may fail; what it sends is
collected in `sent` and `told`, and `Becomes` delivers it. This keeps a handler that
calls another one whole, as in the code: `on_warren_device_revoked` is
`set_target_state` followed by its own updates, in one step.

`machine` is the state machine reduced to state, what follows a disconnect, cause,
lockdown and whether the firewall filters; `commands` and `inbox` are the two
queues. The retry of a block, the deadlines of logouts and the dead-man of a
restart lockdown are timers that may fire at any time. A crash keeps `disk` and the
firewall; `Start` reads them back, settles the boot, and creates the state machine.

`daemon.file` is what the target file holds (nothing, a target, or `Torn`: bytes
that cannot be parsed or read) and whether the last save did not reach it (`stale`).
`PersistentTargetState::save` only logs an error, so a changed target may be `Written`,
may leave the file `Torn`, or, with the file `Unopened`, as it was; `SaveEnds` says
which of these happen. `finalize` may fail to remove the file. `Becomes` saves after a
handler that changed the target; a crash in the middle of that save is a `Torn` one
with a crash after it.

The machine has no yield of another environment here (`EnvArbitration` has), and
its dials may be refused for a token, for parameters or for being offline.

### 2.6 AccountManager

`data` is a wallet, `LoggedOut` or `Revoked`; `disk` is `device.json`.
`DeviceCacher::write` truncates, writes, flushes and syncs, and each may fail: a failed
write (`WriteFails`) leaves the old state, a file that cannot be parsed, or the new state,
while the login state in memory stays (a login, a logout) or changes all the same (a
revocation). A crash in the middle of a write is a failed write followed by `Restart`.
`half` is a history variable: the wallets of failed logins since the last write that
succeeded. `call` records the wallet a call was made for, which the code does not.
`ApiRevokes` takes an `InvalidAccount` or `InvalidDevice` answer, which
`consume_api_result` handles and today's backend never gives: more than the daemon
meets, which is sound for properties that hold.

### 2.7 EnvArbitration

Environments are numbered by precedence. `plan` holds the steps of a stand-down or
a re-enable that the handler has still to do: a step is a settings write, and
between two of them the process may crash or the write may fail, but the daemon
handles nothing else. `watch` is the watcher of another environment: `Read` between
the read of its state and the subscription to its events, `On` after it, `Lost` when
that daemon is gone and the watcher has not noticed. `heard` is the state after the
last event that was sent to the watcher; the watcher applies an event to what it
has seen (`seen`), so the two differ exactly when an event fell between read and
subscription. Events that wait to be read are coalesced into the last one.

`faults` records what went wrong with a plan: `Torn` (a crash or a failed write cut
it short), `Dropped` (the record could not be written, so the stand-down did not
happen), `Lost` (a re-enable could not restore a setting and cleared the record all
the same). Three properties name the fault they do not cover.

### 2.8 PortForwarding

`ctl` is the controller task of each tunnel: `Select`, or in a `Reconcile`, a `Retry`
or the final `Drain`, with the rules still to do (`todo`) and the rules whose release
or restart it awaits (`at`). `mgr` is the manager of each rule: its slot and claim,
its generation, its refresh loop, and `live`, the flag that says that its teardown
was not reported. `phase` is the tunnel: up, waiting for the release, waiting for
the abort, down; both waits have a bound in the code and may end before the
controller does, so a controller may outlive its tunnel and run beside the next one.
A forwarder aborted in the middle of a poll still delivers its event (`late`).

`slips` records the races that the code does not exclude, so that the properties
can say exactly what holds without them: `LateForwarder`, `CutOff` (the teardown's
bound passes between two deletes), `Overrun` (both bounds pass), `Readded` (a rule
removed and added again, whose generations start from 0), `Coalesced` (an off and an
on reach the controller as one push).

## 3. Runs that pass

| run | cfg | states | shows |
|---|---|---|---|
| `state_machine` | `TunnelStateMachine.cfg` | 518 000 | the safety properties below, and the refinement |
| `liveness` | `TunnelLiveness.cfg` | | `StopFinishes`, `ImplementsFairLifecycle` |
| `reconnect` | `ReconnectLoop.cfg` | 175 000 | the reconnect properties, in three worlds |
| `connectivity` | `ConnectivityMonitor.cfg` | 108 000 | the debounce and monitor properties |
| `session` | `DaemonSession.cfg` | 7 900 000 | the safety properties of the daemon's loop |
| `session_liveness` | `SessionLiveness.cfg` | | logouts, restart lockdowns and shutdowns come to an end |
| `accounts` | `AccountManager.cfg` | 13 300 | a logout is not undone |
| `arbitration` | `EnvArbitration.cfg` | 387 000 | stand-down and re-enable, safety and liveness |
| `ports` | `PortForwarding.cfg` | 378 000 | rows, retries, slots, answers |

`state_machine`:

* `FailClosed`: a table is in the kernel in Connecting, Connected and
  Disconnecting, and in Error unless its transition said it could not block.
* `NeverOpens`: no step takes the table from a user who wants the tunnel.
* `PolicyFollowsSettings`: the table of an active machine is the one for its
  settings, peers and metadata now, and the tunnel's routes follow the same split mode.
* `DialsOnlyWhenWanted`: nothing dials, or is about to, after a Disconnect.
* `NoTunnelLeft`, `TunnelClosesFirst`: one thread at a time, none behind a blocked
  or disconnected machine, and routes kept until it has closed.
* `SystemFollowsState`: the `DnsMonitor` has DNS installed exactly while connected (with a
  server to install), and it is the setting's; NetworkManager's check is off while traffic
  is filtered. DNS in another state is what a crash or a failed reset left.
* `NoLostOnlineEdge`: an offline block never outlives the IPv4 connectivity it waits for.
* `ImplementsLifecycle`: each step is a step of the lifecycle or a stutter.

`connectivity`: `OfflineIsNotHeldBack` (fail-closed is never delayed),
`OnlineIsFreshAndSettled` (no stale online edge, one per burst), `ReportsFollowLink`
(nothing noticed is lost, and the API differs from the machine by the late first value
only) and `EdgesArrive` (it is passed on in the end).

`reconnect`: `DialsSpaced`, `FreshRunOnFirstAttempt` (a refusal run does not leak into
the next series of dials), `PayingUserIsNotParked` (in the worlds where the API
answers Active), `RefusalSurfaces` (in the worlds where it never answers).

`session`: `SecuredIsProtected` (a secured target is never disconnected or unfiltered
once the machine has read its commands, and that of a revoked device is blocked),
`NeverOpensWhileSecured` (the filter goes only
for an earlier disconnect with a Connect on its way, or for a shutdown),
`LogoutHoldsTheGate`, `ShutdownStaysBlocked`, `CrashKeepsWish` (the next run starts
secured if this one was, unless the save of that target did not reach the file).
`session_liveness`: `LogoutSettles`, `RestartLockdownEnds` (an armed restart lockdown
gives way to the user's setting), and `ShutdownEndsOrBlocks`: the shutdown's wait ends unless the
tunnel it closes ends with a block reason, when the wait lasts as long as the block.

`accounts`: `LateAnswersChangeNothing` and `LogoutSurvivesRestart`: only a login ends a
logged-out state, be it over a restart; a login whose write failed after its bytes
had landed counts, and the next daemon may find it.

`arbitration`: `WishKept` (the two settings stand or are recorded), `StoodDownStaysDown`
(it does not dial, and leaves no block behind), `SealedOnlyByFault` (a build that refuses to connect with its
block armed exists only after a crash or a failed write), `WeakerStandsDown`,
`FreeMachineIsNoticed` (the re-enable is open again once nobody stronger asserts).

`ports`: `RowHasItsManager` (no port is shown for a rule nobody runs),
`LiveRuleKeepsItsRow`, `RetryIsOfItsLoop`, `SlotIsItsHolders`, `WantedRuleIsAnswered`.

Deadlock is checked in the runs of the state machine, the reconnect loop, the
monitor and the account manager. The daemon, the environments and the ports may stop
in the models, because what users and faults do is bounded and everything else may
have come to rest; their configurations say so. Each property has a mutant, a seeded fault of the
definition it is about (`PROJECT.json` "mutants"); TLC finds the property
violated with it. Each module states the type of its variables as `TypeOK`, which
is a part of the inductive invariants of section 5 and no property of a run.

### Bounds

* `LanSettings` and `Endpoints` have two values in `state_machine`, enough for a stale one
  to differ from a current one; `DnsConfigs` has two with a server and a local one. The
  values of each kind are interchangeable (`SettingsSymmetry`). One value in
  the runs that do not look at settings.
* `MaxAttempt = 1`: the attempt only matters as zero or not in the state machine;
  the count of the code is a `u32` that no run of a machine exhausts, and
  saturates here. `ReconnectLoop` has 3, past the fast retries, so floors double.
* `ReconnectLoop` scales the clock: `MinAlive` 2 (1 s), `MaxFloor` 4,
  `FlapMax` 2 in a window of 7, `Patience` 4, `StatusTtl` 2. The order of the
  code's constants is kept (confirmed floor < anti-spin floor < maximum; reuse of
  an answer < patience), and so is that a full flap fits in its window.
* `MaxChanges = 3` with `Settle = 2`: a drop, a return and another drop while an
  edge is pending.
* `DaemonSession`: three requests of users, API or installer, crashes among them, and
  queues that take a new request while they hold less than two entries (one in
  `session_liveness`): enough for a connect, a disconnect and a logout to be in
  flight together. Tunnels end blocked for a token or for being offline; the cause
  `Start` behaves as `NoToken` does. The lockdown setting is off at first in `session`,
  off or on in `session_liveness`, and may be changed. Saves of the target end in all
  three ways in `session`; in `session_liveness` they succeed, as no wait reads the file.
* `AccountManager`: two wallets, two requests, three logins.
* `EnvArbitration`: three environments, so that a second, stronger one can take over
  from the first, and two changes: of users, crashes, failed writes, failed probes and
  slow subscriptions. Starts and what follows from them are not counted.
* `PortForwarding`: five worlds, one or two rules over one or two tunnels with up to
  two pushes, one refusal and two unread signals per rule; two tunnels and two rules
  are not taken together.
* Ages saturate at the largest value a guard compares them with.

### Fairness

* State machine: the tunnel thread makes progress (its handshakes and its
  teardown have timeouts), the close event a disconnecting machine waits for is
  handled, and so is the end of the command channel, which stays ready. Nothing is
  assumed of user commands, of the grace timer or of the network.
* Reconnect loop: a dial ends, laps end, ready events are handled, time passes.
* Monitor: the runtime schedules its tasks and time passes.
* Daemon session: both loops keep reading (`select!` gives a waiting command its turn
  between two events of the tunnel), a closing tunnel closes, and the two deadlines
  fire. The scheduled reconnect, the network and every request are free.
* Arbitration: a daemon finishes its handlers, its watchers redial and read, and the
  state machine carries out the target. A start, a probe that fails and a user are free.
* Ports: the runtime polls a ready task, `select!` takes a branch that stays ready, and
  a refresh loop gets an answer or an error. The user, the end of the tunnel, the
  bounds of a teardown and late forwarders are free.

## 4. Runs that fail: where code and comments differ

Each checks one sentence of the source against the model.

| run | sentence | what the code does |
|---|---|---|
| `session_logout` | `warren_session_gate.rs:10` "A logout takes the tunnel down BEFORE it touches the login state or the identity" | a transition of an earlier tunnel, read after a Connect was sent, clears `connect_in_flight`; the next Disconnected transition completes the logout with that Connect unread |
| `stale_dns` | `tunnel_state_machine/mod.rs:744` "stale DNS is repaired by the startup self-heal, as after any hard crash" | nothing repairs it: `DnsMonitor::new` touches nothing and a reset without `inner` (`talpid-dns/src/linux/mod.rs:84`) does nothing, so a crashed tunnel's DNS stays after the start |
| `missed_event` | `warren_env_arbitration.rs:6` "the WEAKER environment observes the stronger one and stands down on its own" | the watcher reads first and subscribes next, and a new subscriber gets no snapshot: an environment that connects in between is seen idle until its next event |

Other disagreements were met while modelling. They have no run; the properties are
stated so that they hold with them, and say where they look away:

* `disconnected_state.rs:69` says that being disconnected under lockdown "implies that
  your internet access is locked down"; a failed `apply_policy` is logged and the
  transition still says so (`FailClosed` is about the table).
* `mod.rs:1081` "The connectivity check should be reset whenever the firewall is
  cleared"; after a crash the saved value is gone. The blocked policy of a locked-down
  Disconnected is applied with the check on (`SystemFollowsState` is about the
  other states).
* `connecting_state.rs:749` "a close while the host is offline must read as
  `IsOffline`"; the end of the events, ready first while the lap is padded, redials.
* `connecting_state.rs:115`: laps within the window "drop into a stable, cancelable
  `ErrorState`"; a tunnel that comes up and drops sends Down, past the detector.
* `connected_state.rs:586` "`IsOffline` is honest"; a link that is down only while
  `TunnelStateMachine::new` reads it is never reported as back.
* `mullvad-daemon/src/api.rs:206` "Push the verdict to the UI on the edge itself"; the
  first value is published after a newer edge (`ReportsFollowLink` allows for it).
* `target_state.rs:14` "Persists the target state to a file, which is only removed if the
  instance is dropped cleanly"; a save that fails is only logged, and a crash after it loses a wish the daemon
  acted on (`CrashKeepsWish` excepts it).
* `device/mod.rs:899`: a login whose sync fails is reported as failed, and the next
  daemon may find it carried out (`half`).
* `lib.rs:3049`: a re-enable whose restoring write fails clears the record (`Lost`).
* `nat_pmp_manager.rs:306` "a teardown that interrupts the release must still report it
  from `Drop`"; a bound that passes between two of the joined deletes leaves the
  finished ones unreported (`CutOff`).
* `talpid-warren-tunnel/src/lib.rs:3587` relies on generations to drop the signals of
  replaced loops; a rule removed and added again starts from 0 (`Readded`).
* `lib.rs:5755` presets Requesting for an answer to come; an off and an on that the
  watch channel coalesced are taken for a duplicate, and none comes (`Coalesced`).
* `warren_status.rs:749` says that `set_nat_pmp_disabled` is called when a tunnel goes
  down; only switching the feature off calls it.

## 5. Proofs

Every invariant and every action property of the passing runs is a theorem, and so is
the refinement. Each component has one inductive invariant (the state machine several,
proved one from another); the properties follow from it. The invariants were checked with TLC
before they were proved.

Assumptions. They are the named ASSUMEs of the modules, which TLC evaluates in every run:
settings, environments and bounds of the right type and the clock's constants in the
order they have in the code. Two say more. `RulesAssumption`: the rules are a finite set, as
a user's settings are; the smallest free slot needs it. `DoublingAssumption`: `2 ^ n` is a
positive number for the attempts there are, a fact of arithmetic that the provers lack.
`MaxRequests`, `MaxQueue`, `MaxChanges`, `MaxTunnels` and so on are any natural numbers:
the theorems hold for queues and runs of any length.

### 5.1 The state machine (`TunnelStateMachineProofs`, `TunnelRefinementProofs`)

* `KillSwitch`, `[]FailClosed`. Inductive as it stands: every `enter` leaves a table or (for
  Error) raises the alarm, whatever the operation's result, because a failed operation
  leaves one of the tables that were there or the new one; and `EnterDisconnecting` keeps
  the table of the active state it leaves.
* `TypeCorrect`, `[]TypeOK`.
* `DisconnectIsFinal`, `[]DialsOnlyWhenWanted`. Not inductive: an offline
  block that was pending, or an error state entered for being offline, dials when
  the link returns. The strengthening `Wanted` adds that those, too, occur only
  while the tunnel is wanted.
* `WantedStaysBlocked`, `NeverOpens`: an action property, from `FailClosed`
  (a step out of an active state starts from a table) and a case analysis of
  `Next`; the steps that remove a table set `secured` to FALSE or start with it FALSE.
* `TunnelsEnd` and `ClosesFirst`, `[]NoTunnelLeft` and `TunnelClosesFirst`, from `ThreadGone`,
  which adds to `NoTunnelLeft` that a process that is gone has no thread either: every way
  into Error, Disconnected or Connecting starts from no thread or from one that has
  closed, and a thread that has not closed is only ever told to close.
* `TableFollowsSettings`, `[]PolicyFollowsSettings`. Inductive with the types: each handler
  that changes a setting, the peers or the metadata re-applies the policy or leaves the
  active states, and a lemma per command says which settings it leaves alone.
* `SystemFollows`, `[]SystemFollowsState`. Not inductive: a machine might think
  that it has saved NetworkManager's check and leave it on. `CheckInv` adds that a saved
  check is off; `DnsInv` treats the DNS apart: a process that is gone holds none, and every
  handler that leaves Connected resets or fails to set before it does.
* `OnlineEdgesAreKept`, `[]NoLostOnlineEdge`, with the types and with a part of `Wanted`: what
  is to happen after a disconnect belongs to a disconnecting machine.
* `Refinement`, `ImplementsLifecycle`: initial states map to initial
  states, and each action maps to one action of the lifecycle or to a stutter,
  using the first three invariants.

### 5.2 The reconnect loop (`ReconnectLoopProofs`)

`LoopInv`: a dial is judged by the lap before it, which the action properties see only when
it is over. `PaceInv` carries the floor of a lap and its reason (an Active answer
or the anti-spin floor) from the end of its dial to the next one; `RunInv` says what a
refusal run may hold, so that its verdict is known; `FirstInv` that a series starts without
one. Theorems: `FreshRun`, `DialsAreSpaced`, `PayingUserStays`. A lemma shows that
`reconnect_floor` never goes below its base, for any attempt. The length of the flap
detector's window, a part of `TypeOK`, is only model-checked: `SelectSeq` is a
recursive definition, about which nothing can be proved here, and no theorem needs it.

### 5.3 The monitor (`ConnectivityMonitorProofs`)

`MonitorInv` is about what is on its way: the newest edge, in the channel, pending or sent, is
what the monitor knows (`PipelineInv`); the timer has run no longer than it is quiet
(`TimerInv`); a probe that no event contradicts is a probe of this link (`ProbeInv`); the API
client has heard what the machine has, or the late first value (`ApiInv`). Theorems:
`OfflineAtOnce`, `ReportsArrive`, `OnlineIsSettled`.

### 5.4 The daemon session (`DaemonSessionProofs`)

The properties speak of a machine that has read what it was sent, so the invariant has to
speak of the queue. `Coming(commands, on, off)` says that a command of `on` is in it with none
of `off` behind it, `Clear` that there is none of `off`. `SessionInv` says of a
secured target that a Connect is coming with no Disconnect behind it, or that the machine
goes on by itself and no Disconnect is queued (`SecuredInv`); of a revoked device the same for a block
(`RevokedInv`), where a block for being offline does not count, since the link ends it; of a
shutdown that promised to block the same for its lockdown (`PromiseInv`). `FileInv` says that
the save of a secured target is in the file, is torn, or did not reach it. `FilterInv` and
`DeadInv` are the machine's filter and what a process leaves behind.

Each handler is shown to be `Handled`: it leaves the file to the save that follows it, has no
logout waiting with a secured target, and
sends a Connect, a block, or nothing that takes the tunnel down. Two lemmas about queues
(what is sent after, what is read first) do the rest. Theorems: `SecuredProtected`, `GateIsHeld`,
`ShutdownBlocks`, `NeverOpensSecured`, `WishSurvivesCrash`, `SessionTypes`. The proof showed that
`SecuredIsProtected` holds whether or not the daemon has read its own inbox, and the
property now says so.

### 5.5 The account manager (`AccountManagerProofs`)

`LogoutSurvivesRestart` says of a logged-out daemon that its file reads as logged out or as a
login of `half`; every write that succeeds empties `half`, and only a failed login adds to it.
`LoggedOutInv` adds that such a daemon runs no call: logout drops it, and none starts
without a wallet. Theorems: `LogoutIsDurable`, `LateAnswersAreIgnored`.

### 5.6 The arbitration (`EnvArbitrationProofs`)

What a plan has still to do decides what its next step makes of the settings. `PlanInv` names
every rest of a plan and what the steps before it have established: a stand-down
records before it touches a setting, a re-enable restores before it clears. `KeptIsWish`,
`DownInv` and `SealInv` are the three properties, each with the rests of plans in which it
does not hold yet. Theorems: `WishIsKept`, `StoodDown`, `SealedByFault`, `ArbitrationTypes`.

### 5.7 The forwarded ports (`PortForwardingProofs`)

`PortInv`: a claim has one manager (`ClaimInv`); a tunnel that is gone has no controller unless
both waits of its teardown ran out (`TunnelInv`); what a controller awaits has no
loop (`ManagerInv`); an unread signal is of a loop that was replaced or has ended
(`SignalInv`); the present controller knows what is wanted, or will (`ConfigInv`, `LiveInv`).
Theorems: `RowsHaveManagers`, `LiveRulesAreShown`, `RetriesAreOfTheLoop`, `SlotsAreHeld`,
`PortTypes`.

### 5.8 Only model-checked

Liveness, as fairness and ENABLED are outside the prover: `StopFinishes`,
`ImplementsFairLifecycle`, `RefusalSurfaces`, `EdgesArrive`, `LogoutSettles`,
`RestartLockdownEnds`, `ShutdownEndsOrBlocks`, `WeakerStandsDown`, `FreeMachineIsNoticed`,
`WantedRuleIsAnswered`. The three runs of section 4, which are counterexamples.

## 6. How to run

    tlc -workers 2 -config TunnelStateMachine.cfg MCTunnelStateMachine
    tlapm TunnelStateMachineProofs.tla          (and the other *Proofs modules)

The other runs are listed with their modules in `PROJECT.json`.

## 7. Plan

Done: `TunnelStateMachine`, `TunnelLifecycle` and the refinement, `ReconnectLoop`,
`ConnectivityMonitor`, `DaemonSession`, `AccountManager`, `EnvArbitration`,
`PortForwarding`, and the theorems of section 5. `DaemonSession` has a machine of its own
rather than `TunnelLifecycle`: the daemon's properties need causes and the order of
the transitions, which the lifecycle leaves open.

1. More about what is proved: what the liveness properties need of safety (a disconnecting
   machine always has a thread that has been told to close; an armed restart lockdown
   always has its dead-man running; a waiting logout always has its deadline), as
   invariants with proofs, so that only the fair step itself is left to TLC.
2. The safety part of a contract between the daemon and the state machine: the machine of
   `DaemonSession` shown to take the steps `TunnelLifecycle` allows.
3. Further modules: the session tokens and the standing poller of `warren-standing`;
   peer fencing, exit migration and the supervisor of the Warren backend, as far as
   its control is separable from its I/O.

## 8. Not modelled

The rules a firewall policy expands to (their meaning is the kernel's); QUIC, the
supervisor and the watchdogs inside a tunnel; relay selection and directories (the
models leave open whether parameters exist); the HTTP clients of the API (their
answers are inputs); the NAT-PMP protocol and its refresh loop, which are another
repository's; per-app routing inside the device; the tailnet poll (its command may
come at any time); the format of settings files and migrations; version checks and
upgrades, but for the restart they prepare; the forum, the website's and the mobile
apps' code; macOS, Windows, Android and iOS; the management interface, the CLI and the
apps, which show state and send the commands that the models leave free. Together
these are most of the repository's lines: interfaces, protocol and platform code whose
behaviour is I/O or presentation rather than state that a property could speak of. Within the modelled parts: a failing reset of
routes, which the code logs, is taken to succeed; NetworkManager is taken to be reachable;
a change of the DNS backend between two sets, and what a failed flush leaves in the buffer of
`device.json`, are left out. A panic of the daemon's own task drops `PersistentTargetState`,
which removes the target file as a clean exit does; `Crash` is a process that is killed.
