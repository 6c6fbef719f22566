---------------------------- MODULE PortForwarding ----------------------------
(***************************************************************************)
(* Forwarded ports.  A tunnel runs one NAT-PMP controller task, which owns *)
(* a manager for every rule: a refresh loop that asks the exit, and a      *)
(* forwarder that hands the loop's events to an observer.  The daemon      *)
(* pushes new rules through a watch channel, and shows what it knows of    *)
(* each rule in its status cache.  A tunnel that ends asks its controller  *)
(* to delete the mappings, waits for a while, aborts it, and waits again   *)
(* for a while; then the next tunnel may start.  The refresh loop and the  *)
(* exit are external.                                                      *)
(***************************************************************************)
EXTENDS Naturals, Sequences, FiniteSets

CONSTANTS
    Rules,          \* rules
    MaxTunnels,     \* bound on the tunnels
    MaxLate,        \* bound on the aborted forwarders that still run at once
    Worlds          \* the rules a user may switch on, and the bounds on the
                    \* tunnels, the configurations pushed, the requests that
                    \* an exit refuses as not authorized, and a rule's
                    \* signals that a controller leaves unread

ASSUME RulesAssumption == IsFiniteSet(Rules)
ASSUME BoundsAssumption == {MaxTunnels, MaxLate} \subseteq Nat
ASSUME WorldsAssumption ==
    Worlds \subseteq [rules : SUBSET Rules, tunnels : 0 .. MaxTunnels, pushes : Nat,
                       refusals : Nat, signals : Nat]

Tunnels == 1 .. MaxTunnels
Slots == 0 .. Cardinality(Rules) - 1

VARIABLES
    world,          \* the user and the exit of this behaviour
    stored,         \* warren_nat_pmp: each rule "Off" or "On"
    pushed,         \* the value of the watch channel; "Remapped" after a migration
    preset,         \* the daemon has pushed and not touched the status yet
    status,         \* WarrenStatusCache::nat_pmp
    cur,            \* the tunnel that runs, or ran last
    phase,          \* how far it is: "Up", "Releasing", "Aborting", "Down"
    ctl,            \* the controller of each tunnel
    mgr,            \* the managers of each controller
    signals,        \* the signals of its forwarders that it has not read
    late,           \* events that aborted forwarders are still to deliver
    holders,        \* Holders::by_slot
    claims,         \* Holders::next
    pushes,         \* how many configurations were pushed
    refusals,       \* how many requests were refused as not authorized
    slips           \* history: the races that happened

vars == <<world, stored, pushed, preset, status, cur, phase, ctl, mgr, signals, late,
          holders, claims, pushes, refusals, slips>>
daemon == <<world, stored, pushed, preset, pushes>>
tunnel == <<cur, phase>>
slots == <<holders, claims>>

NoController == [job |-> "Idle", cfg |-> [r \in Rules |-> "Off"], todo |-> {},
                 at |-> {}, changed |-> FALSE]
Dead == [NoController EXCEPT !.job = "Dead"]
\* What the tunnel's teardown has told the controller
notified(t) == t < cur \/ phase # "Up"
aborted(t) == t < cur \/ phase \in {"Aborting", "Down"}
Runs(t) == ctl[t].job \notin {"Idle", "Dead"}

-----------------------------------------------------------------------------
(***************************************************************************)
(* A rule's manager.                                                       *)
(***************************************************************************)
NoManager == [claim |-> 0, slot |-> 0, gen |-> 0, loop |-> "None",
              live |-> FALSE, retry |-> FALSE, ver |-> "Off", removed |-> FALSE]

Has(t, r) == mgr[t][r].claim # 0
InMap(t, r) == Has(t, r) /\ ~mgr[t][r].removed
\* lowest_free_slot
Taken(t) == {mgr[t][r].slot : r \in {r \in Rules : InMap(t, r)}}
lowest_free_slot(t) == CHOOSE s \in Slots \ Taken(t) : \A o \in Slots \ Taken(t) : s <= o

\* hold: the claim is what a later release has to name
hold(slot) == /\ claims' = claims + 1
              /\ holders' = [holders EXCEPT ![slot] = claims + 1]
\* Seeded fault: whoever held the slot once frees it.
FreesAnyClaim(ms) ==
    [s \in Slots |-> IF \E m \in ms : m.claim # 0 /\ m.slot = s THEN 0 ELSE holders[s]]
\* release, for the managers that go
release(ms) ==
    [s \in Slots |-> IF \E m \in ms : m.claim # 0 /\ m.slot = s /\ m.claim = holders[s]
                     THEN 0 ELSE holders[s]]

Asks(t, r) == mgr[t][r].loop \in {"Asking", "Mapped"}
Events == {"Mapped", "Failed", "NotAuthorized"}
\* abort of a forwarder: one that is in the middle of a poll, with an event of
\* its loop in hand, runs on to its next await.
AbortForwarders(t, rs) ==
    \/ UNCHANGED <<late, refusals>>
    \/ \E r \in rs, event \in Events :
          /\ Asks(t, r) /\ Cardinality(late) < MaxLate
          /\ event = "NotAuthorized" => refusals < world.refusals
          /\ late' = late \cup {[t |-> t, rule |-> r, claim |-> mgr[t][r].claim,
                                 gen |-> mgr[t][r].gen, event |-> event]}
          /\ refusals' = IF event = "NotAuthorized" THEN refusals + 1 ELSE refusals

Room(t, r) == Len(SelectSeq(signals[t], LAMBDA s : s.rule = r)) < world.signals
\* controller_rule_observer and record_nat_pmp_event
Observe(t, r, claim, gen, event) ==
    /\ status' = IF event = "NotAuthorized" THEN status ELSE [status EXCEPT ![r] = event]
    /\ signals' = IF event = "Failed" \/ ~Runs(t) THEN signals
                  ELSE [signals EXCEPT ![t] = Append(@, [rule |-> r, claim |-> claim,
                        gen |-> gen, kind |-> IF event = "Mapped" THEN "Granted" ELSE "Refused"])]

\* The refresh loop: the exit grants or renews the port, answers with an error or
\* a rate limit, or refuses the request; the forwarder hands that on.  The loop
\* asks again after a rate limit and ends after an error.
LoopAnswers(t, r) ==
    /\ Asks(t, r) /\ Room(t, r)
    /\ \E event \in Events, loop \in {"Asking", "Mapped", "Ended"} :
          /\ event = "Mapped" <=> loop = "Mapped"
          /\ event = "NotAuthorized" => loop = "Ended" /\ refusals < world.refusals
          /\ Observe(t, r, mgr[t][r].claim, mgr[t][r].gen, event)
          /\ mgr' = [mgr EXCEPT ![t][r].loop = loop]
          /\ refusals' = IF event = "NotAuthorized" THEN refusals + 1 ELSE refusals
    /\ UNCHANGED <<daemon, tunnel, ctl, late, slots, slips>>

\* An aborted forwarder finishes its poll.  It reads the generation only now.
ForwardLate ==
    \E e \in late :
       /\ Room(e.t, e.rule)
       /\ LET now == mgr[e.t][e.rule]
          IN  Observe(e.t, e.rule, e.claim,
                      IF now.claim = e.claim THEN now.gen ELSE e.gen, e.event)
       /\ late' = late \ {e} /\ slips' = slips \cup {"LateForwarder"}
       /\ UNCHANGED <<daemon, tunnel, ctl, mgr, slots, refusals>>

-----------------------------------------------------------------------------
(***************************************************************************)
(* The controller: run_nat_pmp_controller_until.  `at' is the rule whose   *)
(* release or restart it awaits.                                           *)
(***************************************************************************)
\* The controller is at an await that is over, or about to be: an aborted task
\* is not polled again.
Selects(t) == ctl[t].job = "Select" /\ ~aborted(t)
Works(t, job) == ctl[t].job = job /\ ctl[t].at = {} /\ ~aborted(t)
Awaits(t, jobs) == ctl[t].job \in jobs /\ ~aborted(t)

\* What a reconcile has to look at
Concerned(t, cfg) == {r \in Rules : InMap(t, r) \/ cfg[r] # "Off"}
\* The controller has dealt with the rules rs, and goes back to its select! after
\* the last one.
Advance(t, rs) ==
    ctl' = [ctl EXCEPT ![t] = IF @.todo \subseteq rs
                              THEN [NoController EXCEPT !.job = "Select", !.changed = ctl[t].changed]
                              ELSE [@ EXCEPT !.at = {}, !.todo = ctl[t].todo \ rs]]
Gone(t) == {r \in ctl[t].todo : ctl[t].cfg[r] = "Off"}

\* The beginning of restart: the generation moves on, the forwarder is aborted,
\* the loop's handle is taken out and its mapping released.
BeginRestart(t, r) ==
    /\ AbortForwarders(t, {r})
    /\ mgr' = [mgr EXCEPT ![t][r].gen = @ + 1, ![t][r].loop = "None",
                          ![t][r].retry = FALSE]
    /\ ctl' = [ctl EXCEPT ![t].at = {r}]
    /\ UNCHANGED <<daemon, status, tunnel, signals, slots, slips>>

\* reconcile, with no rule wanted and none there
NothingToDo(t) ==
    /\ Works(t, "Reconcile") /\ ctl[t].todo = {}
    /\ Advance(t, {})
    /\ UNCHANGED <<daemon, status, tunnel, mgr, signals, late, slots, refusals, slips>>

\* The rules that are gone are released first.
ReleaseGone(t) ==
    /\ Works(t, "Reconcile")
    /\ \E r \in Gone(t) :
          /\ AbortForwarders(t, {r})
          /\ mgr' = [mgr EXCEPT ![t][r].removed = TRUE, ![t][r].loop = "None"]
          /\ ctl' = [ctl EXCEPT ![t].at = {r}]
    /\ UNCHANGED <<daemon, status, tunnel, signals, slots, slips>>

\* The exit has answered the release: the rule's Cancelled, and its slot is free.
Released(t) ==
    /\ Awaits(t, {"Reconcile"})
    /\ \E r \in ctl[t].at :
          /\ mgr[t][r].removed
          /\ mgr' = [mgr EXCEPT ![t][r] = NoManager]
          /\ status' = [status EXCEPT ![r] = "None"]
          /\ holders' = release({mgr[t][r]})
          /\ Advance(t, {r})
    /\ UNCHANGED <<daemon, tunnel, signals, late, claims, refusals, slips>>

\* A new rule: a manager whose generation starts from 0.
SpawnRule(t) ==
    /\ Works(t, "Reconcile") /\ Gone(t) = {}
    /\ \E r \in ctl[t].todo :
          /\ ~InMap(t, r)
          /\ hold(lowest_free_slot(t))
          /\ mgr' = [mgr EXCEPT ![t][r] =
                [NoManager EXCEPT !.claim = claims + 1, !.slot = lowest_free_slot(t),
                                  !.loop = "Asking", !.live = TRUE, !.ver = ctl[t].cfg[r]]]
          /\ Advance(t, {r})
    /\ UNCHANGED <<daemon, status, tunnel, signals, late, refusals, slips>>

\* A rule that was configured within RECONFIGURE_DEBOUNCE and has not changed.
\* Two remaps differ in their epoch.
SkipsDuplicate(t) ==
    /\ Works(t, "Reconcile") /\ Gone(t) = {}
    /\ \E r \in ctl[t].todo :
          /\ InMap(t, r) /\ mgr[t][r].ver = ctl[t].cfg[r] /\ mgr[t][r].ver # "Remapped"
          /\ Advance(t, {r})
    /\ UNCHANGED <<daemon, status, tunnel, mgr, signals, late, slots, refusals, slips>>

ReconfiguresRule(t) ==
    /\ Works(t, "Reconcile") /\ Gone(t) = {}
    /\ \E r \in ctl[t].todo : InMap(t, r) /\ BeginRestart(t, r)

\* retry_due
RetriesRule(t) ==
    /\ Works(t, "Retry")
    /\ \E r \in ctl[t].todo : BeginRestart(t, r)

\* The old mapping is released: spawn_refresh_pair.
Restarted(t) ==
    /\ Awaits(t, {"Reconcile", "Retry"})
    /\ \E r \in ctl[t].at :
          /\ ~mgr[t][r].removed
          /\ mgr' = [mgr EXCEPT ![t][r].loop = "Asking",
                ![t][r].ver = IF ctl[t].job = "Reconcile" THEN ctl[t].cfg[r] ELSE @]
          /\ Advance(t, {r})
    /\ UNCHANGED <<daemon, status, tunnel, signals, late, slots, refusals, slips>>

-----------------------------------------------------------------------------
(***************************************************************************)
(* The branches of the controller's select!, which takes any that is ready.*)
(***************************************************************************)
SelectsChange(t) ==
    /\ Selects(t) /\ ctl[t].changed
    /\ ctl' = [ctl EXCEPT ![t].job = "Reconcile", ![t].changed = FALSE, ![t].cfg = pushed,
                          ![t].todo = Concerned(t, pushed)]
    /\ UNCHANGED <<daemon, status, tunnel, mgr, signals, late, slots, refusals, slips>>

\* Seeded faults: any signal of a rule that exists counts; the observer keeps the
\* generation it was built with.
AnyGeneration(t, s) == InMap(t, s.rule)
BuiltWithGeneration(t, s) == InMap(t, s.rule) /\ mgr[t][s.rule].gen = 0
\* The filter of on_signal
OfCurrentLoop(t, s) == InMap(t, s.rule) /\ mgr[t][s.rule].gen = s.gen

\* on_signal
SelectsSignal(t) ==
    /\ Selects(t) /\ signals[t] # <<>>
    /\ signals' = [signals EXCEPT ![t] = Tail(@)]
    /\ LET s == Head(signals[t])
       IN  IF OfCurrentLoop(t, s)
           THEN /\ mgr' = [mgr EXCEPT ![t][s.rule].retry = (s.kind = "Refused")]
                /\ status' = IF s.kind = "Refused"
                             THEN [status EXCEPT ![s.rule] = "Refused"] ELSE status
                /\ slips' = IF s.claim # mgr[t][s.rule].claim
                            THEN slips \cup {"Readded"} ELSE slips
           ELSE UNCHANGED <<mgr, status, slips>>
    /\ UNCHANGED <<daemon, tunnel, ctl, late, slots, refusals>>

\* sleep_until_retry: the waits of some refused rules are over.
SelectsRetry(t) ==
    /\ Selects(t)
    /\ \E due \in SUBSET {r \in Rules : InMap(t, r) /\ mgr[t][r].retry} \ {{}} :
          ctl' = [ctl EXCEPT ![t].job = "Retry", ![t].todo = due]
    /\ UNCHANGED <<daemon, status, tunnel, mgr, signals, late, slots, refusals, slips>>

\* shutdown.notified: every rule is released at once.
SelectsShutdown(t) ==
    /\ Selects(t) /\ notified(t)
    /\ AbortForwarders(t, Rules)
    /\ mgr' = [mgr EXCEPT ![t] = [r \in Rules |->
          IF Has(t, r) THEN [@[r] EXCEPT !.removed = TRUE, !.loop = "None"]
          ELSE @[r]]]
    /\ ctl' = [ctl EXCEPT ![t].job = "Drain", ![t].at = {r \in Rules : Has(t, r)}]
    /\ UNCHANGED <<daemon, status, tunnel, signals, slots, slips>>

\* One release of the join_all returns while another is awaited: its manager is
\* dropped without a word.
DrainsOne(t) ==
    /\ Awaits(t, {"Drain"})
    /\ \E r \in ctl[t].at :
          /\ ctl[t].at # {r}
          /\ mgr' = [mgr EXCEPT ![t][r].live = FALSE]
          /\ holders' = release({mgr[t][r]})
          /\ ctl' = [ctl EXCEPT ![t].at = @ \ {r}]
    /\ UNCHANGED <<daemon, status, tunnel, signals, late, claims, refusals, slips>>

\* The last one returns, and the join_all with it: Cancelled for every rule.
Drained(t) ==
    /\ Awaits(t, {"Drain"}) /\ Cardinality(ctl[t].at) <= 1
    /\ holders' = release({mgr[t][r] : r \in ctl[t].at})
    /\ status' = [r \in Rules |-> IF Has(t, r) THEN "None" ELSE status[r]]
    /\ mgr' = [mgr EXCEPT ![t] = [r \in Rules |-> NoManager]]
    /\ ctl' = [ctl EXCEPT ![t] = Dead] /\ signals' = [signals EXCEPT ![t] = <<>>]
    /\ UNCHANGED <<daemon, tunnel, late, claims, refusals, slips>>

\* Seeded fault: a manager tells whether it lives by its loop's handle.
LivesByItsHandle(m) == m.live /\ m.loop # "None"
\* cancel: reports unless the teardown was reported already.
cancel(m) == m.live

\* The abort takes effect: every manager the task still owns is dropped.
AbortTakesEffect(t) ==
    /\ Runs(t) /\ aborted(t)
    /\ AbortForwarders(t, Rules)
    /\ status' = [r \in Rules |-> IF cancel(mgr[t][r]) THEN "None" ELSE status[r]]
    /\ slips' = IF \E r \in Rules : Has(t, r) /\ ~mgr[t][r].live
                THEN slips \cup {"CutOff"} ELSE slips
    /\ holders' = release({mgr[t][r] : r \in Rules})
    /\ mgr' = [mgr EXCEPT ![t] = [r \in Rules |-> NoManager]]
    /\ ctl' = [ctl EXCEPT ![t] = Dead] /\ signals' = [signals EXCEPT ![t] = <<>>]
    /\ UNCHANGED <<daemon, tunnel, claims>>

-----------------------------------------------------------------------------
(***************************************************************************)
(* The daemon: the user's rules, and the re-map after an exit migration.   *)
(***************************************************************************)
Settings == {cfg \in [Rules -> {"Off", "On"}] : \A r \in Rules \ world.rules : cfg[r] = "Off"}
Subscribed(t) == t <= cur /\ ctl[t].job # "Dead"
Push(cfg) ==
    /\ pushes < world.pushes /\ pushes' = pushes + 1
    /\ pushed' = cfg
    /\ ctl' = [t \in Tunnels |-> IF Subscribed(t) THEN [ctl[t] EXCEPT !.changed = TRUE] ELSE ctl[t]]
    /\ slips' = IF \E t \in Tunnels, r \in Rules :
                      Subscribed(t) /\ ctl[t].changed /\ pushed[r] = "Off" /\ cfg[r] # "Off"
                THEN slips \cup {"Coalesced"} ELSE slips

\* set_warren_nat_pmp
PushSettings ==
    /\ ~preset /\ preset' = TRUE
    /\ \E cfg \in Settings : stored' = cfg /\ Push(cfg)
    /\ UNCHANGED <<world, status, tunnel, mgr, signals, late, slots, refusals>>

\* The rest of on_set_nat_pmp_settings: set_nat_pmp_requesting with
\* SettingsChanged, or set_nat_pmp_disabled
PresetStatus ==
    /\ preset /\ preset' = FALSE
    /\ status' = [r \in Rules |-> CASE stored[r] = "Off" -> "None"
                                    [] stored[r] = "On" /\ status[r] = "None" -> "Requesting"
                                    [] OTHER -> status[r]]
    /\ UNCHANGED <<world, stored, pushed, pushes, tunnel, ctl, mgr, signals, late, slots, refusals, slips>>

\* remap_warren_nat_pmp_now
Remap ==
    /\ \E r \in Rules : stored[r] = "On"
    /\ Push([r \in Rules |-> IF stored[r] = "On" THEN "Remapped" ELSE "Off"])
    /\ UNCHANGED <<world, stored, preset, status, tunnel, mgr, signals, late, slots, refusals>>

-----------------------------------------------------------------------------
(***************************************************************************)
(* The tunnel that carries the controller.                                 *)
(***************************************************************************)
\* Its parameters are made: set_nat_pmp_requesting with NewTunnel, and subscribe
NewTunnel ==
    /\ phase = "Down" /\ cur < world.tunnels
    /\ cur' = cur + 1 /\ phase' = "Up"
    /\ ctl' = [ctl EXCEPT ![cur + 1].cfg = stored]
    /\ status' = IF \A r \in Rules : stored[r] = "Off" THEN status
                 ELSE [r \in Rules |-> IF stored[r] = "On" THEN "Requesting" ELSE "None"]
    /\ UNCHANGED <<daemon, mgr, signals, late, slots, refusals, slips>>

SpawnController ==
    /\ phase = "Up" /\ ctl[cur].job = "Idle"
    /\ ctl' = [ctl EXCEPT ![cur].job = "Reconcile", ![cur].todo = Concerned(cur, ctl[cur].cfg)]
    /\ UNCHANGED <<daemon, status, tunnel, mgr, signals, late, slots, refusals, slips>>

\* The tunnel ends, before its controller exists or with it: notify_one
TunnelEnds ==
    /\ phase = "Up"
    /\ IF ctl[cur].job = "Idle"
       THEN phase' = "Down" /\ ctl' = [ctl EXCEPT ![cur] = Dead]
       ELSE phase' = "Releasing" /\ UNCHANGED ctl
    /\ UNCHANGED <<daemon, status, cur, mgr, signals, late, slots, refusals, slips>>

\* Seeded fault: the controller is aborted and the tunnel goes on at once.
AbortsAndGoes ==
    /\ phase = "Releasing" /\ phase' = "Down"
    /\ UNCHANGED <<daemon, status, cur, ctl, mgr, signals, late, slots, refusals, slips>>
\* release_and_shutdown_controller: the controller ends within
\* TEARDOWN_RELEASE_BOUND, or is aborted
WaitForRelease ==
    /\ phase = "Releasing"
    /\ phase' = IF ctl[cur].job = "Dead" THEN "Down" ELSE "Aborting"
    /\ UNCHANGED <<daemon, status, cur, ctl, mgr, signals, late, slots, refusals, slips>>

\* await_controller_shutdown, with its own bound
WaitForAbort ==
    /\ phase = "Aborting" /\ phase' = "Down"
    /\ slips' = IF ctl[cur].job = "Dead" THEN slips ELSE slips \cup {"Overrun"}
    /\ UNCHANGED <<daemon, status, cur, ctl, mgr, signals, late, slots, refusals>>

-----------------------------------------------------------------------------
Init ==
    /\ world \in Worlds
    /\ stored \in Settings /\ pushed = stored
    /\ preset = FALSE /\ status = [r \in Rules |-> "None"]
    /\ cur = 0 /\ phase = "Down"
    /\ ctl = [t \in Tunnels |-> NoController]
    /\ mgr = [t \in Tunnels |-> [r \in Rules |-> NoManager]]
    /\ signals = [t \in Tunnels |-> <<>>] /\ late = {}
    /\ holders = [s \in Slots |-> 0] /\ claims = 0
    /\ pushes = 0 /\ refusals = 0 /\ slips = {}

RuleWorks(t) == \E r \in Rules : LoopAnswers(t, r)
Reconciles(t) ==
    \/ NothingToDo(t) \/ ReleaseGone(t) \/ Released(t) \/ SpawnRule(t) \/ SkipsDuplicate(t)
    \/ ReconfiguresRule(t) \/ RetriesRule(t) \/ Restarted(t)
Branches(t) ==
    SelectsChange(t) \/ SelectsSignal(t) \/ SelectsRetry(t) \/ SelectsShutdown(t)
Ends(t) == DrainsOne(t) \/ Drained(t) \/ AbortTakesEffect(t)
DaemonSteps == PushSettings \/ PresetStatus \/ Remap
TunnelSteps ==
    NewTunnel \/ SpawnController \/ TunnelEnds \/ WaitForRelease \/ WaitForAbort

Next ==
    \/ \E t \in Tunnels : RuleWorks(t) \/ Reconciles(t) \/ Branches(t) \/ Ends(t)
    \/ ForwardLate \/ DaemonSteps \/ TunnelSteps

Spec == Init /\ [][Next]_vars

\* The runtime polls every task that is ready, a select! takes every branch that
\* stays ready at some time, and the engine answers every request, with an error
\* when the exit stays silent.  Nothing is assumed of the user, the tunnel's end
\* and the late forwarders.
Fairness ==
    /\ WF_vars(PresetStatus) /\ WF_vars(SpawnController)
    /\ \A t \in Tunnels :
          /\ WF_vars(Reconciles(t)) /\ WF_vars(SelectsChange(t))
          /\ WF_vars(SelectsSignal(t)) /\ WF_vars(SelectsRetry(t))
          /\ \A r \in Rules : WF_vars(LoopAnswers(t, r))
FairSpec == Spec /\ Fairness

-----------------------------------------------------------------------------
\* The type of every variable.
Shown == {"None", "Requesting", "Mapped", "Failed", "Refused"}
Configs == [Rules -> {"Off", "On", "Remapped"}]
TypeOK ==
    /\ world \in Worlds /\ preset \in BOOLEAN
    /\ stored \in [Rules -> {"Off", "On"}] /\ pushed \in Configs
    /\ status \in [Rules -> Shown]
    /\ cur \in 0 .. MaxTunnels /\ phase \in {"Down", "Up", "Releasing", "Aborting"}
    /\ ctl \in [Tunnels -> [job : {"Idle", "Select", "Reconcile", "Retry", "Drain", "Dead"},
                            cfg : Configs, todo : SUBSET Rules, at : SUBSET Rules,
                            changed : BOOLEAN]]
    /\ mgr \in [Tunnels -> [Rules ->
          [claim : 0 .. claims, slot : Slots, gen : Nat, live : BOOLEAN, retry : BOOLEAN,
           loop : {"None", "Asking", "Mapped", "Ended"},
           ver : {"Off", "On", "Remapped"}, removed : BOOLEAN]]]
    /\ holders \in [Slots -> 0 .. claims]

\* A row of the status that shows an answer belongs to a rule some controller has:
\* the daemon does not go on naming a public port after the tunnel that carried
\* it, however the teardown cuts into a reconfiguration.  Two races get past:
\* a forwarder aborted in the middle of a poll, and a teardown cut off between
\* two deletes, which nobody reports although "a teardown that interrupts the
\* release must still report it from `Drop`".
RowHasItsManager ==
    slips \cap {"LateForwarder", "CutOff"} = {} =>
       \A r \in Rules : status[r] \in {"Mapped", "Failed", "Refused"} =>
          \E t \in Tunnels : Has(t, r)

\* A rule that the exit granted to the present tunnel is shown, once pushes and
\* presets have been dealt with: the Cancelled of the previous tunnel does not delete it,
\* unless both waits of that tunnel's teardown ran out.
LiveRuleKeepsItsRow ==
    (phase = "Up" /\ Selects(cur) /\ ~ctl[cur].changed /\ ~preset /\ "Overrun" \notin slips) =>
       \A r \in Rules : InMap(cur, r) /\ mgr[cur][r].loop = "Mapped" => status[r] # "None"

\* A rule waits to ask again only when its present loop was refused: what a loop
\* said that was replaced since is not taken for the present loop's.  Two races
\* get past: a forwarder aborted in the middle of a poll, and a rule removed and
\* added again, whose generations start from 0 once more.
RetryIsOfItsLoop ==
    slips \cap {"LateForwarder", "Readded"} = {} =>
       \A t \in Tunnels, r \in Rules : InMap(t, r) /\ mgr[t][r].retry => mgr[t][r].loop = "Ended"

\* The rules of the newest tunnel hold their own slots of the batch, although a
\* controller that outlives its tunnel gives its slots back late.
SlotIsItsHolders ==
    cur > 0 => \A r \in Rules : InMap(cur, r) => holders[mgr[cur][r].slot] = mgr[cur][r].claim

\* While the tunnel is up, a rule that is wanted gets its answer: it is asked for,
\* and asked for again after each refusal.  Three races get past: an off and an
\* on that reach the controller as one push, the late Cancelled of an earlier
\* tunnel, and a forwarder aborted in the middle of a poll.
WantedRuleIsAnswered ==
    \A r \in Rules :
       (phase = "Up" /\ stored[r] = "On" /\ status[r] \in {"None", "Requesting", "Refused"})
       ~> \/ status[r] \in {"Mapped", "Failed"} \/ phase # "Up" \/ stored[r] = "Off"
          \/ slips \cap {"LateForwarder", "Coalesced", "Overrun"} # {}
===============================================================================
