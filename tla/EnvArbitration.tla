---------------------------- MODULE EnvArbitration ----------------------------
(***************************************************************************)
(* Several product environments (prod, staging, beta) are installed on one *)
(* machine and each runs a daemon.  A daemon looks at the public state of  *)
(* the ones that outrank it and stands down by itself while one of them    *)
(* asserts the machine: it records what it gives up, disconnects, disarms  *)
(* its lockdown and stops its auto-connect, one settings write at a time.  *)
(*                                                                         *)
(* Environments are numbered by PRECEDENCE, 1 the strongest.  What a       *)
(* daemon knows of another one is old as soon as it is read.  Its watcher  *)
(* reads the state of the other daemon first and subscribes to its events  *)
(* next; events that wait to be read are taken for one with the last value.*)
(***************************************************************************)
EXTENDS Naturals, Sequences

CONSTANTS
    N,              \* how many environments there are
    FirstSettings,  \* auto and lockdown of each environment, as first found
    MaxChanges      \* bound on what users change, on crashes and other faults

ASSUME EnvsAssumption == N \in Nat \ {0}
ASSUME ChangesAssumption == MaxChanges \in Nat

Envs == 1 .. N
ASSUME SettingsAssumption ==
    FirstSettings \subseteq [Envs -> [auto : BOOLEAN, lockdown : BOOLEAN]]

\* environments_with_priority_over
Outranking(e) == 1 .. (e - 1)

VARIABLES
    up,             \* the daemon of an environment runs
    settings,       \* its settings file: auto, lockdown, and the yield it holds
    target,         \* its target state, and the file that keeps it
    tunnel,         \* "Down" when its tunnel state is disconnected
    seen,           \* warren_foreign_envs: what it last saw of each other one
    watch,          \* its watcher of each other one, and what that one sent it
    plan,           \* the steps of a stand-down or a re-enable still to do
    leftover,       \* a block that its last shutdown left on the machine
    wish,           \* history: the settings its user had when it did not yield
    faults,         \* history: what a crash or a failed write did to a plan
    changes         \* how much was changed

vars == <<up, settings, target, tunnel, seen, watch, plan, leftover, wish, faults, changes>>

NoYield == [to |-> 0, auto |-> FALSE, lockdown |-> FALSE]
Held(e) == settings[e].yield # NoYield
\* A daemon runs one handler at a time, and a plan is part of one.
Idle(e) == up[e] /\ plan[e] = <<>>
Change == changes < MaxChanges /\ changes' = changes + 1

-----------------------------------------------------------------------------
(***************************************************************************)
(* The decisions.                                                          *)
(***************************************************************************)
\* ForeignDaemonState, or that there is none
NoState == [known |-> FALSE, up |-> FALSE, lockdown |-> FALSE]
State(f) == [known |-> TRUE, up |-> tunnel[f] # "Down", lockdown |-> settings[f].lockdown]
\* ForeignEnvObservation::is_asserting
is_asserting(state) == state.known /\ (state.up \/ state.lockdown)
Asserts(f) == up[f] /\ is_asserting(State(f))

seed_observations == [f \in Envs |-> NoState]
NoWatch == [f \in Envs |-> [phase |-> "Off", heard |-> NoState]]

\* strongest_asserting, 0 when there is none
strongest_asserting(e, observed) ==
    LET asserting == {f \in Outranking(e) : is_asserting(observed[f])}
    IN IF asserting = {} THEN 0
       ELSE CHOOSE f \in asserting : \A g \in asserting : f <= g

\* Seeded fault: a daemon that is not connected has nothing to stand down from.
OnlyWhileConnected(e, observed) ==
    tunnel[e] = "Up" /\ strongest_asserting(e, observed) \notin {0, settings[e].yield.to}

\* arbitrate says StandDown: for an environment that the yield does not name.
StandsDown(e, observed) ==
    strongest_asserting(e, observed) \notin {0, settings[e].yield.to}

\* Seeded fault: the values are recorded again on every stand-down.
RecordsAgain(e, to) ==
    <<[do |-> "RecordYield", to |-> to, auto |-> settings[e].auto,
       lockdown |-> settings[e].lockdown], [do |-> "Disconnect"],
      [do |-> "DisarmLockdown"], [do |-> "DisableAutoConnect"]>>

\* Seeded fault: the lockdown is left to its user.
KeepsTheBlock(e, to) ==
    LET given == IF Held(e) THEN settings[e].yield ELSE settings[e]
    IN <<[do |-> "RecordYield", to |-> to, auto |-> given.auto, lockdown |-> given.lockdown],
         [do |-> "Disconnect"], [do |-> "DisableAutoConnect"]>>

stand_down_plan(e, to) ==
    LET given == IF Held(e) THEN settings[e].yield ELSE settings[e]
    IN <<[do |-> "RecordYield", to |-> to, auto |-> given.auto, lockdown |-> given.lockdown],
         [do |-> "Disconnect"], [do |-> "DisarmLockdown"], [do |-> "DisableAutoConnect"]>>

restore_plan(record) ==
    <<[do |-> "RestoreLockdown", value |-> record.lockdown],
      [do |-> "RestoreAutoConnect", value |-> record.auto], [do |-> "ClearYield"]>>

\* Seeded fault: the yield is not looked at.
MayAlways(e) == TRUE
may_assert_machine(e) == ~Held(e)

\* refuse_reassertion behind refuse_target_state and refuse_setting_change:
\* what gives the machine up is always accepted.
Admitted(e, reasserts) == reasserts => may_assert_machine(e)

may_clear_yield(e) == Held(e) /\ strongest_asserting(e, seen[e]) = 0

-----------------------------------------------------------------------------
(***************************************************************************)
(* What a user asks of a daemon.                                           *)
(***************************************************************************)
\* on_set_target_state
SetTargetState(e, new) ==
    /\ Idle(e) /\ Change /\ target[e] # new
    /\ Admitted(e, new = "Secured")
    /\ target' = [target EXCEPT ![e] = new]
    /\ UNCHANGED <<up, settings, tunnel, seen, watch, plan, leftover, wish, faults>>

\* on_set_lockdown_mode and on_set_auto_connect
ChangeSetting(e, new) ==
    /\ Idle(e) /\ Change
    /\ settings' = [settings EXCEPT ![e] = new]
    /\ wish' = IF Held(e) THEN wish
               ELSE [wish EXCEPT ![e] = [auto |-> new.auto, lockdown |-> new.lockdown]]
    /\ faults' = IF Held(e) THEN faults ELSE [faults EXCEPT ![e] = @ \ {"Lost"}]
    /\ UNCHANGED <<up, target, tunnel, seen, watch, plan, leftover>>
SetLockdownMode(e) ==
    /\ Admitted(e, ~settings[e].lockdown)
    /\ ChangeSetting(e, [settings[e] EXCEPT !.lockdown = ~@])
SetAutoConnect(e) ==
    /\ Admitted(e, ~settings[e].auto)
    /\ ChangeSetting(e, [settings[e] EXCEPT !.auto = ~@])

\* on_clear_env_yield
ClearEnvYield(e) ==
    /\ Idle(e) /\ Change /\ may_clear_yield(e)
    /\ plan' = [plan EXCEPT ![e] = restore_plan(settings[e].yield)]
    /\ UNCHANGED <<up, settings, target, tunnel, seen, watch, leftover, wish, faults>>

-----------------------------------------------------------------------------
(***************************************************************************)
(* What a daemon does by itself.                                           *)
(***************************************************************************)
\* handle_warren_foreign_env_observed
Observed(e, f, state) ==
    LET now == [seen[e] EXCEPT ![f] = state]
    IN /\ Idle(e)
       /\ seen' = [seen EXCEPT ![e] = now]
       /\ plan' = IF state # seen[e][f] /\ StandsDown(e, now)
                  THEN [plan EXCEPT ![e] = stand_down_plan(e, strongest_asserting(e, now))]
                  ELSE plan
       /\ UNCHANGED <<up, settings, target, tunnel, leftover, wish, faults>>

\* follow: the watcher of f reads its state, reports it, and subscribes.  `heard'
\* is the state after the last event that f sent it.
Connects(e, f, phase) ==
    /\ watch[e][f].phase = "Off" /\ up[f]
    /\ Observed(e, f, State(f))
    /\ watch' = [watch EXCEPT ![e][f] = [phase |-> phase, heard |-> State(f)]]
Follow(e, f) == Connects(e, f, "On") /\ UNCHANGED changes

\* f goes on between the read and the subscription, and what happens to it there
\* is no event.
ReadsFirst(e, f) == Connects(e, f, "Read") /\ Change
Subscribe(e, f) ==
    /\ watch[e][f].phase = "Read" /\ up[e]
    /\ watch' = [watch EXCEPT ![e][f] = [phase |-> "On", heard |-> State(f)]]
    /\ UNCHANGED <<up, settings, target, tunnel, seen, plan, leftover, wish, faults, changes>>

\* DaemonEvent::TunnelState or DaemonEvent::Settings
Hear(e, f) ==
    /\ watch[e][f].phase = "On"
    /\ \E field \in {"up", "lockdown"} :
          /\ watch[e][f].heard[field] # State(f)[field]
          /\ watch' = [watch EXCEPT ![e][f].heard[field] = State(f)[field]]
          /\ Observed(e, f, [seen[e][f] EXCEPT ![field] = State(f)[field]])
    /\ UNCHANGED changes

\* Seeded fault: an environment out of reach stays as it was seen last.
LosesSilently(e, f) ==
    /\ up[e]
    /\ watch' = [watch EXCEPT ![e][f] = NoWatch[f]]
    /\ UNCHANGED <<up, settings, target, tunnel, seen, plan, leftover, wish, faults>>
\* observe, when follow has ended
Loses(e, f) ==
    /\ Observed(e, f, NoState)
    /\ watch' = [watch EXCEPT ![e][f] = NoWatch[f]]
StreamEnds(e, f) == watch[e][f].phase = "Lost" /\ Loses(e, f) /\ UNCHANGED changes
ProbeFails(e, f) == watch[e][f].phase \in {"Read", "On"} /\ Loses(e, f) /\ Change

\* What a step of a plan writes
Written(e, step) ==
    LET own == settings[e]
    IN CASE step.do = "RecordYield" -> [own EXCEPT !.yield =
                [to |-> step.to, auto |-> step.auto, lockdown |-> step.lockdown]]
         [] step.do = "DisarmLockdown" -> [own EXCEPT !.lockdown = FALSE]
         [] step.do = "DisableAutoConnect" -> [own EXCEPT !.auto = FALSE]
         [] step.do = "RestoreLockdown" -> [own EXCEPT !.lockdown = step.value]
         [] step.do = "RestoreAutoConnect" -> [own EXCEPT !.auto = step.value]
         [] step.do = "ClearYield" -> [own EXCEPT !.yield = NoYield]
         [] OTHER -> own

\* One step of stand_down_for or of on_clear_env_yield
PlanStep(e) ==
    /\ up[e] /\ plan[e] # <<>>
    /\ LET step == Head(plan[e])
       IN /\ settings' = [settings EXCEPT ![e] = Written(e, step)]
          /\ target' = IF step.do = "Disconnect"
                       THEN [target EXCEPT ![e] = "Unsecured"] ELSE target
          /\ faults' = IF step.do = "RecordYield"
                       THEN [faults EXCEPT ![e] = @ \ {"Torn", "Dropped"}] ELSE faults
    /\ plan' = [plan EXCEPT ![e] = Tail(@)]
    /\ UNCHANGED <<up, tunnel, seen, watch, leftover, wish, changes>>

\* The settings file cannot be written, and the change is rolled back: without
\* the record the stand-down is dropped, any other step is skipped.
WriteFails(e) ==
    /\ up[e] /\ plan[e] # <<>> /\ Change
    /\ LET step == Head(plan[e])
       IN /\ Written(e, step) # settings[e]
          /\ plan' = [plan EXCEPT ![e] = IF step.do = "RecordYield" THEN <<>> ELSE Tail(@)]
          /\ faults' = [faults EXCEPT ![e] = @ \cup
                {CASE step.do = "RecordYield" -> "Dropped"
                   [] step.do \in {"RestoreLockdown", "RestoreAutoConnect"} -> "Lost"
                   [] OTHER -> "Torn"}]
    /\ UNCHANGED <<up, settings, target, tunnel, seen, watch, leftover, wish>>

\* The tunnel state machine, which reaches what the target asks for.
TunnelFollows(e) ==
    LET follows == IF target[e] = "Secured" THEN "Up" ELSE "Down"
    IN /\ up[e] /\ tunnel[e] # follows
       /\ tunnel' = [tunnel EXCEPT ![e] = follows]
       /\ UNCHANGED <<up, settings, target, seen, watch, plan, leftover, wish, faults, changes>>

\* The process ends; `block' is what it leaves of a block of its own.
Ends(e, block) ==
    /\ up[e] /\ Change
    /\ up' = [up EXCEPT ![e] = FALSE]
    /\ plan' = [plan EXCEPT ![e] = <<>>]
    /\ tunnel' = [tunnel EXCEPT ![e] = "Down"]
    /\ leftover' = [leftover EXCEPT ![e] = block]
    /\ seen' = [seen EXCEPT ![e] = seed_observations]
    /\ watch' = [g \in Envs |->
                    IF g = e THEN NoWatch
                    ELSE [watch[g] EXCEPT ![e].phase = IF @ = "Off" THEN @ ELSE "Lost"]]
    /\ faults' = [faults EXCEPT ![e] = (@ \ {"Dropped"}) \cup
                      (IF plan[e] # <<>> THEN {"Torn"} ELSE {})]
    /\ UNCHANGED <<settings, wish>>


\* on_trigger_shutdown, not by a user, and finalize, which removes the target file
Shutdown(e) ==
    /\ plan[e] = <<>>
    /\ Ends(e, (target[e] = "Secured" \/ settings[e].auto) /\ may_assert_machine(e))
    /\ target' = [target EXCEPT ![e] = "Unsecured"]

Crash(e) == Ends(e, FALSE) /\ UNCHANGED target

\* Daemon::start, secured_boot_action and handle_initial_target_state
Start(e) ==
    LET asked == IF settings[e].auto THEN "Secured" ELSE target[e]
    IN /\ ~up[e]
       /\ up' = [up EXCEPT ![e] = TRUE]
       /\ target' = [target EXCEPT ![e] =
                        IF asked = "Secured" /\ may_assert_machine(e)
                        THEN "Secured" ELSE "Unsecured"]
       /\ leftover' = [leftover EXCEPT ![e] = FALSE]
       /\ UNCHANGED <<settings, tunnel, seen, watch, plan, wish, faults, changes>>

\* Machines on which no environment has yielded yet and nothing is connected.
Init ==
    /\ up = [e \in Envs |-> FALSE]
    /\ wish \in FirstSettings
    /\ settings = [e \in Envs |-> [auto |-> wish[e].auto, lockdown |-> wish[e].lockdown,
                                   yield |-> NoYield]]
    /\ target = [e \in Envs |-> "Unsecured"]
    /\ tunnel = [e \in Envs |-> "Down"]
    /\ seen = [e \in Envs |-> seed_observations]
    /\ watch = [e \in Envs |-> NoWatch]
    /\ plan = [e \in Envs |-> <<>>]
    /\ leftover = [e \in Envs |-> FALSE]
    /\ faults = [e \in Envs |-> {}]
    /\ changes = 0

Watches(e, f) == Follow(e, f) \/ Subscribe(e, f) \/ Hear(e, f) \/ StreamEnds(e, f)
Next ==
    \E e \in Envs :
       \/ \E new \in {"Secured", "Unsecured"} : SetTargetState(e, new)
       \/ SetLockdownMode(e) \/ SetAutoConnect(e) \/ ClearEnvYield(e)
       \/ \E f \in Outranking(e) :
             Watches(e, f) \/ ReadsFirst(e, f) \/ ProbeFails(e, f)
       \/ PlanStep(e) \/ WriteFails(e) \/ TunnelFollows(e)
       \/ Shutdown(e) \/ Crash(e) \/ Start(e)

Spec == Init /\ [][Next]_vars

\* A daemon keeps running its handlers and its watcher, and the state machine
\* its commands.
Fairness ==
    \A e \in Envs :
       /\ WF_vars(PlanStep(e)) /\ WF_vars(TunnelFollows(e))
       /\ \A f \in Outranking(e) : WF_vars(Watches(e, f))
FairSpec == Spec /\ Fairness

-----------------------------------------------------------------------------
States == [known : {TRUE}, up : BOOLEAN, lockdown : BOOLEAN] \cup {NoState}
\* The type of every variable.
TypeOK ==
    /\ up \in [Envs -> BOOLEAN] /\ leftover \in [Envs -> BOOLEAN]
    /\ faults \in [Envs -> SUBSET {"Torn", "Lost", "Dropped"}]
    /\ wish \in [Envs -> [auto : BOOLEAN, lockdown : BOOLEAN]]
    /\ settings \in [Envs -> [auto : BOOLEAN, lockdown : BOOLEAN,
                              yield : [to : 0 .. N, auto : BOOLEAN, lockdown : BOOLEAN]]]
    /\ target \in [Envs -> {"Secured", "Unsecured"}]
    /\ tunnel \in [Envs -> {"Up", "Down"}]
    /\ seen \in [Envs -> [Envs -> States]]
    /\ watch \in [Envs -> [Envs -> [phase : {"Off", "Read", "On", "Lost"}, heard : States]]]
    /\ \A e \in Envs : Len(plan[e]) <= 4
    /\ changes \in 0 .. MaxChanges

\* A user's two settings are never lost: they stand, or the yield records them,
\* whatever the order of stand-downs, crashes between two of their steps and
\* re-enables.  The one exception is a re-enable whose restoring write fails:
\* on_clear_env_yield goes on and clears the record all the same.
WishKept ==
    \A e \in Envs : "Lost" \notin faults[e] =>
       LET kept == IF Held(e) THEN settings[e].yield ELSE settings[e]
       IN kept.auto = wish[e].auto /\ kept.lockdown = wish[e].lockdown

\* A daemon that has stood down does not want the tunnel, not after a restart
\* either, with auto-connect or a target file that a crash left behind; and it
\* leaves no block on the machine when it shuts down.
StoodDownStaysDown ==
    \A e \in Envs : Held(e) => (Idle(e) => target[e] = "Unsecured") /\ ~leftover[e]

\* An event that fell between the read and the subscription is missed for good.
Missed(e, f) == watch[e][f].phase = "On" /\ seen[e][f] # watch[e][f].heard

\* When a stronger environment keeps asserting the machine, the tunnel of a
\* weaker one goes down for good.  Two faults get past: an event missed by the
\* watcher, and a stand-down whose record cannot be written, which is dropped and
\* which an observation equal to the last one does not retry.
WeakerStandsDown ==
    \A e \in Envs : \A f \in Outranking(e) :
       <>[]Asserts(f) => \/ <>[](tunnel[e] = "Down")
                        \/ <>[]("Dropped" \in faults[e]) \/ <>[]Missed(e, f)

\* When no stronger environment asserts the machine any more, because it stopped
\* or because its daemon is gone, a user may re-enable the weaker one, unless an
\* event was missed.
FreeMachineIsNoticed ==
    \A e \in Envs :
       <>[](up[e] /\ \A f \in Outranking(e) : ~Asserts(f)) =>
          <>[](\/ strongest_asserting(e, seen[e]) = 0
               \/ \E f \in Outranking(e) : Missed(e, f))

\* "The WEAKER environment observes the stronger one and stands down on its own":
\* WeakerStandsDown without the missed event.
WeakerAlwaysStandsDown ==
    \A e \in Envs : \A f \in Outranking(e) :
       <>[]Asserts(f) => <>[](tunnel[e] = "Down") \/ <>[]("Dropped" \in faults[e])

\* "A build that refuses to connect and arms a machine-wide block is the one
\* combination that must not exist": only a crash or a failed write that cuts a
\* stand-down or a re-enable short leaves it, and arbitrate then answers Held and
\* does not finish the plan.
SealedOnlyByFault ==
    \A e \in Envs : (Idle(e) /\ Held(e) /\ settings[e].lockdown) => "Torn" \in faults[e]
===============================================================================
