------------------------- MODULE ConnectivityMonitor -------------------------
(***************************************************************************)
(* How the state of the link reaches the tunnel state machine on Linux:    *)
(* the offline monitor (offline/linux.rs), which probes the routes at      *)
(* start and again on every change the route manager reports, the debounce *)
(* task that holds online edges back (run_connectivity_debounce), and the  *)
(* part of TunnelStateMachine::new that starts them and reads the first    *)
(* value.  The tasks end with the daemon, which is left out.               *)
(***************************************************************************)
EXTENDS Naturals, Sequences

CONSTANTS
    Settle,         \* CONNECTIVITY_ONLINE_SETTLE, in ticks
    ProbesFail,     \* whether the route manager may fail a probe or the subscription
    MaxChanges      \* bound on the changes of the link

ASSUME ProbesAssumption == ProbesFail \in BOOLEAN
ASSUME SettleAssumption == Settle \in Nat \ {0}
ASSUME MaxChangesAssumption == MaxChanges \in Nat

VARIABLES
    link,       \* the IP versions the host has a route for
    changes,    \* how often the link has changed
    event,      \* a route change waits for the monitor's listener
    boot,       \* how far TunnelStateMachine::new has come
    first,      \* the connectivity it read
    monitor,    \* the monitor: its phase, the connectivity it knows, its IPv4 probe
    offlineRx,  \* the channel from the monitor to the debounce task
    pending,    \* pending_online
    armed,      \* ticks since the settle timer was armed
    sent,       \* the last connectivity sent to the state machine, or Nothing
    quiet,      \* ticks since the last online edge was sent
    api         \* the last connectivity sent to forward_offline_state, or Nothing

vars == <<link, changes, event, boot, first, monitor, offlineRx, pending, armed, sent, quiet, api>>
debounce == <<offlineRx, pending, armed, sent, quiet, api>>

Links == SUBSET {"v4", "v6"}
Offline == {}
PresumeOnline == {"presumed"}
Nothing == {"nothing"}

AtMost(n, bound) == IF n < bound THEN n ELSE bound

\* What the state machine has for connectivity once it has caught up: its
\* first value, then every command the debounce task sent, also before it started.
Machine == IF sent = Nothing THEN first ELSE sent

-----------------------------------------------------------------------------
\* check_connectivity probes IPv4, then IPv6.  The IPv4 probe may fail, which
\* presumes connectivity; a failed IPv6 probe counts as no route.
ProbeV4 == {link \cap {"v4"}} \cup IF ProbesFail THEN {PresumeOnline} ELSE {}
ProbeV6(v4) ==
    IF v4 = PresumeOnline THEN {PresumeOnline}
    ELSE {v4 \cup (link \cap {"v6"})} \cup IF ProbesFail THEN {v4} ELSE {}

LinkChanges ==
    /\ changes < MaxChanges
    /\ changes' = changes + 1
    /\ link' \in Links \ {link}
    /\ event' = (monitor.phase # "unsubscribed")
    /\ UNCHANGED <<boot, first, monitor, debounce>>

-----------------------------------------------------------------------------
\* spawn_monitor: probe, then subscribe to the changes.  Without a subscription
\* there is no monitor, and connectivity() presumes that the host is online.
BootProbes ==
    /\ \/ boot = "start" /\ boot' = "probing"
          /\ \E c \in ProbeV4 : monitor' = [monitor EXCEPT !.v4 = c]
       \/ boot = "probing" /\ boot' = "subscribing"
          /\ \E c \in ProbeV6(monitor.v4) :
                monitor' = [monitor EXCEPT !.v4 = Nothing, !.known = c]
    /\ UNCHANGED <<link, changes, event, first, debounce>>

BootSubscribes ==
    /\ boot = "subscribing"
    /\ \/ /\ boot' = "reading" /\ UNCHANGED first
          /\ monitor' = [monitor EXCEPT !.phase = "idle"]
       \/ /\ ProbesFail /\ boot' = "publishing" /\ first' = PresumeOnline
          /\ monitor' = [monitor EXCEPT !.known = Nothing]
    /\ UNCHANGED <<link, changes, event, debounce>>

\* offline_monitor.connectivity(): a probe of its own.
BootReads ==
    /\ \/ boot = "reading" /\ boot' = "reading6" /\ first' \in ProbeV4
       \/ boot = "reading6" /\ boot' = "publishing" /\ first' \in ProbeV6(first)
    /\ UNCHANGED <<link, changes, event, monitor, debounce>>

BootPublishes ==
    /\ boot = "publishing" /\ boot' = "running"
    /\ api' = first
    /\ UNCHANGED <<link, changes, event, first, monitor, offlineRx, pending, armed, sent, quiet>>

-----------------------------------------------------------------------------
\* The monitor's task: one probe per event, a message when the result differs.
MonitorWakes ==
    /\ monitor.phase = "idle" /\ event
    /\ event' = FALSE
    /\ \E c \in ProbeV4 : monitor' = [monitor EXCEPT !.phase = "probing", !.v4 = c]
    /\ UNCHANGED <<link, changes, boot, first, debounce>>

\* Seeded fault: only a change between offline and online is reported.
MonitorReportsOffline ==
    /\ monitor.phase = "probing"
    /\ \E c \in ProbeV6(monitor.v4) :
          /\ monitor' = [phase |-> "idle", known |-> c, v4 |-> Nothing]
          /\ offlineRx' = IF (c = Offline) = (monitor.known = Offline) THEN offlineRx
                          ELSE Append(offlineRx, c)
    /\ UNCHANGED <<link, changes, event, boot, first, pending, armed, sent, quiet, api>>

MonitorReports ==
    /\ monitor.phase = "probing"
    /\ \E c \in ProbeV6(monitor.v4) :
          /\ monitor' = [phase |-> "idle", known |-> c, v4 |-> Nothing]
          /\ offlineRx' = IF c = monitor.known THEN offlineRx ELSE Append(offlineRx, c)
    /\ UNCHANGED <<link, changes, event, boot, first, pending, armed, sent, quiet, api>>

-----------------------------------------------------------------------------
\* Seeded faults: an offline edge leaves the pending online edge; the timer goes
\* before a message; the timer never fires.
OfflineEdgeKeepsPending ==
    /\ offlineRx # <<>> /\ Head(offlineRx) = Offline
    /\ offlineRx' = Tail(offlineRx)
    /\ sent' = Offline /\ api' = Offline
    /\ UNCHANGED <<link, changes, event, boot, first, monitor, pending, armed, quiet>>

SettleFiresFirst ==
    /\ pending # Nothing /\ armed = Settle
    /\ pending' = Nothing /\ armed' = 0
    /\ sent' = pending /\ api' = pending /\ quiet' = 0
    /\ UNCHANGED <<link, changes, event, boot, first, monitor, offlineRx>>

SettleFiresLate ==
    /\ offlineRx = <<>> /\ pending # Nothing /\ armed > Settle
    /\ pending' = Nothing /\ armed' = 0
    /\ sent' = pending /\ api' = pending /\ quiet' = 0
    /\ UNCHANGED <<link, changes, event, boot, first, monitor, offlineRx>>

\* The debounce task.  Its select is biased: a message goes before the timer.
OfflineEdge ==
    /\ offlineRx # <<>> /\ Head(offlineRx) = Offline
    /\ offlineRx' = Tail(offlineRx)
    /\ pending' = Nothing /\ armed' = 0
    /\ sent' = Offline /\ api' = Offline
    /\ UNCHANGED <<link, changes, event, boot, first, monitor, quiet>>

OnlineEdge ==
    /\ offlineRx # <<>> /\ Head(offlineRx) # Offline
    /\ offlineRx' = Tail(offlineRx)
    /\ pending' = Head(offlineRx) /\ armed' = 0
    /\ UNCHANGED <<link, changes, event, boot, first, monitor, sent, quiet, api>>

SettleFires ==
    /\ offlineRx = <<>> /\ pending # Nothing /\ armed = Settle
    /\ pending' = Nothing /\ armed' = 0
    /\ sent' = pending /\ api' = pending /\ quiet' = 0
    /\ UNCHANGED <<link, changes, event, boot, first, monitor, offlineRx>>

Tick ==
    /\ armed' = IF pending = Nothing THEN 0 ELSE AtMost(armed + 1, Settle)
    /\ quiet' = AtMost(quiet + 1, Settle)
    /\ UNCHANGED <<link, changes, event, boot, first, monitor, offlineRx, pending, sent, api>>

-----------------------------------------------------------------------------
Init ==
    /\ link \in Links /\ changes = 0 /\ event = FALSE
    /\ boot = "start" /\ first = Nothing
    /\ monitor = [phase |-> "unsubscribed", known |-> Nothing, v4 |-> Nothing]
    /\ offlineRx = <<>> /\ pending = Nothing /\ armed = 0
    /\ sent = Nothing /\ quiet = Settle /\ api = Nothing

Boot == BootProbes \/ BootSubscribes \/ BootReads \/ BootPublishes
Tasks == MonitorWakes \/ MonitorReports \/ OfflineEdge \/ OnlineEdge \/ SettleFires
Next == LinkChanges \/ Boot \/ Tasks \/ Tick

Spec == Init /\ [][Next]_vars
\* The runtime schedules every task and time passes.
FairSpec == Spec /\ WF_vars(Boot) /\ WF_vars(Tasks) /\ WF_vars(Tick)

-----------------------------------------------------------------------------
Views == Links \cup {PresumeOnline}
\* Everything that was noticed has been passed on.
Drained ==
    /\ boot = "running" /\ ~event /\ monitor.phase # "probing"
    /\ offlineRx = <<>> /\ pending = Nothing

\* Every variable keeps its type.
TypeOK ==
    /\ link \in Links /\ changes \in 0..MaxChanges /\ event \in BOOLEAN
    /\ boot \in {"start", "probing", "subscribing", "reading", "reading6", "publishing", "running"}
    /\ monitor \in [phase : {"unsubscribed", "idle", "probing"}, known : Views \cup {Nothing},
                    v4 : Views \cup {Nothing}]
    /\ {first, pending, sent, api} \subseteq Views \cup {Nothing}
    /\ offlineRx \in Seq(Views)
    /\ armed \in 0..Settle /\ quiet \in 0..Settle

\* Fail-closed is never delayed: a monitor that knows the host is offline has
\* told the state machine, or is about to, and no online edge is pending
\* behind it, whatever burst of edges came before.
OfflineIsNotHeldBack ==
    monitor.known = Offline /\ offlineRx = <<>>
        => pending = Nothing /\ sent \in {Offline, Nothing}

\* An online edge is sent only if it is the latest the monitor reported, and a
\* settle time after the last: no online command follows an offline edge that was
\* already on its way, and a burst collapses into one.
OnlineIsFreshAndSettled ==
    [][sent' # sent /\ sent' # Offline
          => sent' = monitor.known /\ offlineRx = <<>> /\ quiet = Settle]_vars

\* What the monitor has reported is, once passed on, what the link is (up to
\* probes that failed): no change after its first report is lost.  The API client
\* and the UI know what the state machine was told last, but for one value: the
\* first connectivity, which is published after an await and may overwrite a
\* newer edge.
ReportsFollowLink ==
    /\ Drained /\ sent # Nothing
        => sent \in {link} \cup IF ProbesFail THEN {link \cap {"v4"}, PresumeOnline} ELSE {}
    /\ boot = "running" /\ sent # Nothing /\ api # sent => api = first

\* Once the link stops changing, every edge that was noticed is passed on.
EdgesArrive == <>[]Drained
=============================================================================
