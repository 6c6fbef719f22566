---------------------------- MODULE ReconnectLoop ----------------------------
(***************************************************************************)
(* The laps of the reconnect loop on a discrete clock: how often the       *)
(* state machine dials, when it asks the account API about an exit's       *)
(* refusal (exit_refusal.rs), when it parks in the error state, and what   *)
(* the flap detector of connecting_state.rs sees of it.  One tick is one   *)
(* CONFIRMED_TRANSIENT_FLOOR, the shortest pause between two dials.        *)
(* Firewall, DNS and settings are TunnelStateMachine's.                    *)
(***************************************************************************)
EXTENDS Naturals, Sequences, FiniteSets

CONSTANTS
    MinAlive,           \* MIN_TUNNEL_ALIVE_TIME
    MaxFloor,           \* MAX_RECONNECT_FLOOR
    FastRetries,        \* FAST_RETRY_ATTEMPTS
    FlapMax,            \* FLAP_MAX
    FlapWindow,         \* FLAP_WINDOW
    Patience,           \* UNVERIFIED_PATIENCE
    StatusTtl,          \* STATUS_TTL
    MaxAttempt,         \* bound on retry_attempt, which saturates here
    Worlds              \* the answers an account API and the refusals an exit may give

ASSUME ClockAssumption ==
    /\ {MinAlive, MaxFloor, FastRetries, FlapMax, FlapWindow, Patience, StatusTtl, MaxAttempt}
           \subseteq Nat \ {0}
    /\ MinAlive <= MaxFloor
\* A fact of arithmetic, which the proofs need for the attempts there are.
ASSUME DoublingAssumption == \A n \in 0..MaxAttempt : 2 ^ n \in Nat \ {0}
ASSUME EnvironmentAssumption ==
    Worlds \subseteq [answers : SUBSET {"Active", "Inactive", "Unknown"},
                      refusals : SUBSET [explained : BOOLEAN, retryUnverified : BOOLEAN]]

VARIABLES
    world,      \* what the API and the exit may answer, which never changes
    tsm,        \* the state of the tunnel state machine
    next,       \* the attempt a disconnecting machine dials next, or Off
    attempt,    \* retry_attempt of the current lap
    lap,        \* the tunnel thread of the lap: its phase and age, and the floor it pads to
    run,        \* the refusal run in progress (REFUSALS)
    laps        \* the ages of RECENT_RECONNECTS

vars == <<world, tsm, next, attempt, lap, run, laps>>

-----------------------------------------------------------------------------
ConfirmedFloor == 1
\* The value of `next` for a disconnect (AfterDisconnect::Nothing).
Off == MaxAttempt + 1

NoLap == [phase |-> "none", age |-> 0, floor |-> 0]
NewLap == [phase |-> "dialing", age |-> 0, floor |-> 0]
NoAnswer == [status |-> "None", age |-> 0]
NoRun == [open |-> FALSE, age |-> 0, explained |-> FALSE, retryUnverified |-> FALSE,
          answer |-> NoAnswer]

AtMost(n, bound) == IF n < bound THEN n ELSE bound

NextAttempt == AtMost(attempt + 1, MaxAttempt)

Fresh(answer) == answer.status # "None" /\ answer.age < StatusTtl

\* Seeded fault: any fresh answer earns the short floor.
PacingOnAnyAnswer(r) == IF r.open /\ Fresh(r.answer) THEN ConfirmedFloor ELSE MinAlive

\* Refusals::pacing, then reconnect_floor: fast retries, then doubling up to the maximum.
Pacing(r) == IF r.open /\ Fresh(r.answer) /\ r.answer.status = "Active"
             THEN ConfirmedFloor ELSE MinAlive
ReconnectFloor(n, base) ==
    AtMost(base * 2 ^ (IF n < FastRetries THEN 0 ELSE n - (FastRetries - 1)), MaxFloor)

\* Seeded fault: an API that does not answer is waited for.
SurfacesOnAnswer(r, status) ==
    \/ status = "Inactive"
    \/ status = "Active" /\ r.explained /\ r.age >= Patience

\* The whole policy of exit_refusal::verdict: does the run stop dialling?
Surfaces(r, status) ==
    \/ status = "Inactive"
    \/ status = "Active" /\ r.explained /\ r.age >= Patience
    \/ status = "Unknown" /\ ~r.retryUnverified /\ r.age >= Patience

-----------------------------------------------------------------------------
Park ==
    /\ tsm' = "Error" /\ lap' = NoLap /\ next' = 0 /\ attempt' = 0

Spawn(n) ==
    /\ tsm' = "Connecting" /\ lap' = NewLap /\ next' = 0 /\ attempt' = n

\* refusal_block_reason with an answer in hand: one that surfaces ends the run.
Judge(n, answer) ==
    IF Surfaces(run, answer.status)
    THEN run' = NoRun /\ Park
    ELSE run' = [run EXCEPT !.answer = answer] /\ Spawn(n)

\* Seeded fault: attempt zero keeps the run.
EnterKeepingRun(n) ==
    IF ~run.open THEN UNCHANGED run /\ Spawn(n)
    ELSE IF Fresh(run.answer) THEN Judge(n, run.answer)
    ELSE \E status \in world.answers : Judge(n, [status |-> status, age |-> 0])

\* ConnectingState::enter_warren.  Attempt zero forgets the run; later ones
\* reuse a fresh answer of the API, or ask.
Enter(n) ==
    IF n = 0 THEN run' = NoRun /\ Spawn(0)
    ELSE IF ~run.open THEN UNCHANGED run /\ Spawn(n)
    ELSE IF Fresh(run.answer) THEN Judge(n, run.answer)
    ELSE \E status \in world.answers : Judge(n, [status |-> status, age |-> 0])

\* note_attempt: a refusal opens or continues the run, any other failure ends it.
Noted(refusal) ==
    [open |-> TRUE, age |-> run.age, explained |-> refusal.explained,
     retryUnverified |-> refusal.retryUnverified, answer |-> run.answer]

EndLap(r) ==
    lap' = [lap EXCEPT !.phase = "padding", !.floor = ReconnectFloor(attempt, Pacing(r))]

-----------------------------------------------------------------------------
\* The tunnel thread.
LapRefused ==
    /\ lap.phase = "dialing"
    /\ \E refusal \in world.refusals : run' = Noted(refusal) /\ EndLap(Noted(refusal))
    /\ UNCHANGED <<tsm, next, attempt, laps>>

LapFails ==
    /\ lap.phase = "dialing"
    /\ run' = NoRun /\ EndLap(NoRun)
    /\ UNCHANGED <<tsm, next, attempt, laps>>

\* An error that is not worth a retry: a block reason, not noted and not padded.
LapFatal ==
    /\ lap.phase = "dialing"
    /\ lap' = [lap EXCEPT !.phase = "fatal"]
    /\ UNCHANGED <<tsm, next, attempt, run, laps>>

\* The tunnel comes up; a disconnecting machine no longer hears of it.
LapUp ==
    /\ lap.phase = "dialing"
    /\ lap' = [lap EXCEPT !.phase = "up"]
    /\ tsm' = IF tsm = "Connecting" THEN "Connected" ELSE tsm
    /\ UNCHANGED <<next, attempt, run, laps>>

\* The tunnel of a connected machine goes down: Down is handled first, then
\* the thread ends, noting an error unless the session just closed or the
\* error is a block reason.
LapDown ==
    /\ tsm = "Connected" /\ lap.phase = "up"
    /\ tsm' = "Disconnecting" /\ next' = 0
    /\ \/ run' \in {run, NoRun} /\ EndLap(run')
       \/ UNCHANGED run /\ lap' = [lap EXCEPT !.phase = "fatal"]
    /\ UNCHANGED <<attempt, laps>>

\* A close request reaches a tunnel that is up.
LapStops ==
    /\ tsm = "Disconnecting" /\ lap.phase = "up"
    /\ EndLap(run)
    /\ UNCHANGED <<tsm, next, attempt, run, laps>>

\* The thread of a connected tunnel panics: no Down is sent.
LapPanics ==
    /\ tsm = "Connected" /\ lap.phase = "up"
    /\ lap' = [lap EXCEPT !.phase = "closed"]
    /\ UNCHANGED <<tsm, next, attempt, run, laps>>

\* The lap lasted its floor: the close event is sent.
LapCloses ==
    /\ lap.phase = "padding" /\ lap.age >= lap.floor
    /\ lap' = [lap EXCEPT !.phase = "closed"]
    /\ UNCHANGED <<tsm, next, attempt, run, laps>>

-----------------------------------------------------------------------------
\* The state machine.  The events of a failed lap end before it is padded,
\* so the machine waits for the close in the disconnecting state.
EventsEnd ==
    /\ \/ tsm = "Connecting" /\ lap.phase \in {"padding", "closed", "fatal"}
       \/ tsm = "Connected" /\ lap.phase = "closed"
    /\ tsm' = "Disconnecting"
    /\ next' = IF tsm = "Connecting" THEN NextAttempt ELSE 0
    /\ UNCHANGED <<attempt, lap, run, laps>>

\* The close event of a disconnecting machine: a block reason goes first.
DisconnectingOver ==
    /\ tsm = "Disconnecting"
    /\ \/ lap.phase = "fatal" /\ Park /\ UNCHANGED run
       \/ lap.phase = "closed" /\ next # Off /\ Enter(next)
       \/ /\ lap.phase = "closed" /\ next = Off
          /\ tsm' = "Disconnected" /\ lap' = NoLap /\ next' = 0 /\ attempt' = 0
          /\ UNCHANGED run
    /\ UNCHANGED laps

\* Seeded fault: a refused lap counts as a flap.
CloseEventCountsRefusals ==
    /\ tsm \in {"Connecting", "Connected"} /\ lap.phase = "closed"
    /\ LET noted == Append(SelectSeq(laps, LAMBDA age : age < FlapWindow), 0) IN
       IF Len(noted) > FlapMax
       THEN laps' = <<>> /\ Park /\ UNCHANGED run
       ELSE laps' = noted /\ Enter(IF tsm = "Connecting" THEN NextAttempt ELSE 0)

\* handle_tunnel_close_event, when the close event is picked before the end
\* of the events: the only place that feeds the flap detector.
CloseEvent ==
    /\ tsm \in {"Connecting", "Connected"} /\ lap.phase \in {"closed", "fatal"}
    /\ IF lap.phase = "fatal"
       THEN laps' = <<>> /\ Park /\ UNCHANGED run
       ELSE IF tsm = "Connecting" /\ run.open
       THEN Enter(NextAttempt) /\ UNCHANGED laps
       ELSE LET noted == Append(SelectSeq(laps, LAMBDA age : age < FlapWindow), 0) IN
            IF Len(noted) > FlapMax
            THEN laps' = <<>> /\ Park /\ UNCHANGED run
            ELSE laps' = noted /\ Enter(IF tsm = "Connecting" THEN NextAttempt ELSE 0)

\* The user.
UserConnects ==
    /\ tsm \in {"Disconnected", "Error"}
    /\ Enter(0)
    /\ UNCHANGED laps

UserReconnects ==
    /\ tsm \in {"Connecting", "Connected"}
    /\ tsm' = "Disconnecting" /\ next' = 0
    /\ UNCHANGED <<attempt, lap, run, laps>>

UserDisconnects ==
    /\ \/ tsm = "Error" /\ tsm' = "Disconnected" /\ UNCHANGED next
       \/ tsm \in {"Connecting", "Connected"} /\ tsm' = "Disconnecting" /\ next' = Off
       \/ tsm = "Disconnecting" /\ next # Off /\ next' = Off /\ UNCHANGED tsm
    /\ UNCHANGED <<attempt, lap, run, laps>>

Older(ages) == [i \in 1..Len(ages) |-> AtMost(ages[i] + 1, FlapWindow)]

\* Time passes; a lap that has lasted its floor is not kept waiting.
Tick ==
    /\ ~(lap.phase = "padding" /\ lap.age >= lap.floor)
    /\ lap' = IF lap.phase = "none" THEN lap ELSE [lap EXCEPT !.age = AtMost(@ + 1, MaxFloor)]
    /\ run' = IF run.open
              THEN [run EXCEPT !.age = AtMost(@ + 1, Patience),
                               !.answer.age = AtMost(@ + 1, StatusTtl)]
              ELSE run
    /\ laps' = Older(laps)
    /\ UNCHANGED <<tsm, next, attempt>>

-----------------------------------------------------------------------------
Init ==
    /\ world \in Worlds
    /\ tsm = "Disconnected" /\ next = 0 /\ attempt = 0
    /\ lap = NoLap /\ run = NoRun /\ laps = <<>>

Within(step) == step /\ UNCHANGED world
Dials == Within(LapRefused \/ LapFails \/ LapFatal \/ LapUp)
Ends == Within(LapStops \/ LapCloses)
Handles == Within(EventsEnd \/ DisconnectingOver \/ CloseEvent)
Drops == Within(LapDown \/ LapPanics)
Asks == Within(UserConnects \/ UserReconnects \/ UserDisconnects)
Passes == Within(Tick)

Next == Dials \/ Ends \/ Handles \/ Drops \/ Asks \/ Passes

Spec == Init /\ [][Next]_vars

\* A dial ends (its handshake has a timeout), laps end, events are handled
\* and time passes.
FairSpec ==
    /\ Spec
    /\ WF_vars(Dials) /\ WF_vars(Ends) /\ WF_vars(Handles) /\ WF_vars(Passes)

-----------------------------------------------------------------------------
\* Every variable keeps its type and every age its bound.
TypeOK ==
    /\ world \in Worlds
    /\ tsm \in {"Disconnected", "Connecting", "Connected", "Disconnecting", "Error"}
    /\ next \in 0..Off
    /\ attempt \in 0..MaxAttempt
    /\ lap \in [phase : {"none", "dialing", "up", "padding", "closed", "fatal"},
                age : 0..MaxFloor, floor : 0..MaxFloor]
    /\ run \in [open : BOOLEAN, age : 0..Patience, explained : BOOLEAN,
                retryUnverified : BOOLEAN,
                answer : [status : {"None", "Active", "Inactive", "Unknown"}, age : 0..StatusTtl]]
    /\ Len(laps) <= FlapMax

\* No lap that fails by itself is followed by a dial within the anti-spin
\* floor of the dial before it, unless the run's API answer was Active; and
\* none at all within the confirmed floor.
DialsSpaced ==
    [][lap.phase = "closed" /\ lap.floor > 0 /\ lap'.phase = "dialing"
          => \/ lap.age >= MinAlive
             \/ lap.age >= ConfirmedFloor /\ run.answer.status = "Active"]_vars

\* A refusal run belongs to one series of dials: a connect the user asks for,
\* or one after a tunnel that was up, starts with a full budget.
FreshRunOnFirstAttempt ==
    tsm = "Connecting" /\ attempt = 0 /\ lap.phase = "dialing" => ~run.open

\* Where the API answers Active and the refusal clears once the exit polls,
\* neither the patience nor the flap detector parks a refused machine.
PayingUserIsNotParked ==
    [][world.answers = {"Active"} /\ (\A r \in world.refusals : ~r.explained)
       /\ run.open /\ tsm \in {"Connecting", "Disconnecting"} /\ lap.phase # "fatal"
           => tsm' # "Error"]_vars

\* Where the API never answers and the refusal does not ask to be retried, a
\* machine does not go on dialling an exit that refuses it: the run ends, or
\* the machine leaves the loop.
RefusalSurfaces ==
    world.answers = {"Unknown"} /\ (\A r \in world.refusals : ~r.retryUnverified)
       /\ run.open /\ tsm = "Connecting"
        ~> ~run.open \/ tsm \in {"Connected", "Disconnected", "Error"}
=============================================================================
