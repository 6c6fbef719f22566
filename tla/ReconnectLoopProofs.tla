------------------------- MODULE ReconnectLoopProofs -------------------------
(***************************************************************************)
(* Proofs about the laps of the reconnect loop, for every scale of its     *)
(* clock, every bound on its attempts and every API and exit.              *)
(*                                                                         *)
(* A dial is judged by the lap before it, which the action properties only *)
(* see when it is over.  PaceInv carries the floor of a lap, and why it    *)
(* was chosen, from the end of its dial to the next one; RunInv says what  *)
(* a refusal run may hold, so that its verdict is known.                   *)
(***************************************************************************)
EXTENDS ReconnectLoop, TLAPS

Laps == [phase : {"none", "dialing", "up", "padding", "closed", "fatal"},
         age : 0..MaxFloor, floor : 0..MaxFloor]
Answers == [status : {"None", "Active", "Inactive", "Unknown"}, age : 0..StatusTtl]
Runs == [open : BOOLEAN, age : 0..Patience, explained : BOOLEAN, retryUnverified : BOOLEAN,
         answer : Answers]

\* TypeOK, but for the length of the flap detector's window.
LoopTypes ==
    /\ world \in Worlds
    /\ tsm \in {"Disconnected", "Connecting", "Connected", "Disconnecting", "Error"}
    /\ next \in 0..Off /\ attempt \in 0..MaxAttempt
    /\ lap \in Laps /\ run \in Runs

\* A floor below the anti-spin one is the confirmed one, of a run whose last
\* answer is Active.
Paced(floor, r) ==
    floor >= MinAlive \/ (floor >= ConfirmedFloor /\ r.answer.status = "Active")

\* A lap has its floor once its dial is over, and is closed when it has lasted it.
PaceInv ==
    /\ lap.phase \in {"dialing", "up"} => lap.floor = 0
    /\ lap.phase \in {"padding", "closed"} /\ lap.floor > 0 => Paced(lap.floor, run)
    /\ lap.phase = "closed" => lap.age >= lap.floor

\* A run has the explanation of a refusal and an answer of the API, and a run
\* that is over has left nothing behind.
RunInv ==
    /\ ~run.open => run = NoRun
    /\ run.open => /\ run.answer.status \in world.answers \cup {"None"}
                   /\ \E r \in world.refusals : r.explained = run.explained

\* A series of dials starts without a run.
FirstInv == attempt = 0 /\ lap.phase = "dialing" => ~run.open

LoopInv == LoopTypes /\ PaceInv /\ RunInv /\ FirstInv

-----------------------------------------------------------------------------
(***************************************************************************)
(* The operators.                                                          *)
(***************************************************************************)
LEMMA Bounds ==
    /\ MinAlive \in Nat \ {0} /\ MaxFloor \in Nat \ {0} /\ FastRetries \in Nat \ {0}
    /\ Patience \in Nat \ {0} /\ StatusTtl \in Nat \ {0} /\ MaxAttempt \in Nat \ {0}
    /\ MinAlive <= MaxFloor
BY ClockAssumption

LEMMA Product ==
    ASSUME NEW a \in Nat \ {0}, NEW b \in Nat \ {0}
    PROVE  a * b \in Nat /\ a * b >= a
OBVIOUS

\* reconnect_floor never goes below the base it is given.
LEMMA FloorAtLeastBase ==
    ASSUME NEW n \in 0..MaxAttempt, NEW base \in Nat \ {0}, base <= MaxFloor
    PROVE  ReconnectFloor(n, base) \in 0..MaxFloor /\ ReconnectFloor(n, base) >= base
<1> DEFINE k == IF n < FastRetries THEN 0 ELSE n - (FastRetries - 1)
<1>1. k \in 0..MaxAttempt
  BY Bounds
<1>2. 2 ^ k \in Nat \ {0}
  BY <1>1, DoublingAssumption
<1> HIDE DEF k
<1>3. base * 2 ^ k \in Nat /\ base * 2 ^ k >= base
  BY <1>2, Product
<1>4. AtMost(base * 2 ^ k, MaxFloor) \in 0..MaxFloor /\ AtMost(base * 2 ^ k, MaxFloor) >= base
  BY <1>3, Bounds DEF AtMost
<1> QED  BY <1>4 DEF ReconnectFloor, k

\* What a lap pads to is paced by the run it belongs to.
LEMMA FloorIsPaced ==
    ASSUME NEW n \in 0..MaxAttempt, NEW r
    PROVE  /\ ReconnectFloor(n, Pacing(r)) \in 0..MaxFloor
           /\ Paced(ReconnectFloor(n, Pacing(r)), r)
<1>1. ConfirmedFloor \in Nat \ {0} /\ ConfirmedFloor <= MaxFloor
  BY Bounds DEF ConfirmedFloor
<1>2. CASE Pacing(r) = MinAlive
  BY <1>2, Bounds, FloorAtLeastBase DEF Paced
<1>3. CASE Pacing(r) = ConfirmedFloor /\ r.answer.status = "Active"
  BY <1>1, <1>3, FloorAtLeastBase DEF Paced
<1> QED  BY <1>2, <1>3 DEF Pacing

LEMMA NoRunType == NoRun \in Runs /\ ~NoRun.open /\ NoLap \in Laps /\ NewLap \in Laps
BY Bounds DEF NoRun, NoAnswer, Runs, Answers, NoLap, NewLap, Laps

-----------------------------------------------------------------------------
(***************************************************************************)
(* Entering a lap.                                                         *)
(***************************************************************************)
\* What a step that parks or dials makes of the loop
LEMMA ParkKeeps ==
    ASSUME LoopInv, Park, run' \in Runs, (run' = run \/ run' = NoRun), world' = world
    PROVE  LoopInv'
<1> USE DEF LoopInv
<1>1. LoopTypes'
  BY NoRunType, Bounds DEF LoopTypes, Park, Off
<1>2. lap'.phase = "none"
  BY DEF Park, NoLap
<1>3. RunInv'
  BY NoRunType DEF RunInv
<1> QED  BY <1>1, <1>2, <1>3 DEF PaceInv, FirstInv

LEMMA SpawnKeeps ==
    ASSUME LoopInv, NEW n \in 0..MaxAttempt, Spawn(n), run' \in Runs, RunInv',
           n = 0 => ~run'.open, world' = world
    PROVE  LoopInv'
<1> USE DEF LoopInv
<1>1. LoopTypes'
  BY NoRunType, Bounds DEF LoopTypes, Spawn, Off
<1>2. lap'.phase = "dialing" /\ lap'.floor = 0 /\ attempt' = n
  BY DEF Spawn, NewLap
<1> QED  BY <1>1, <1>2 DEF PaceInv, FirstInv

LEMMA JudgeKeeps ==
    ASSUME LoopInv, NEW n \in 1..MaxAttempt, NEW answer \in Answers, run.open,
           answer.status \in world.answers \cup {"None"}, Judge(n, answer), world' = world
    PROVE  LoopInv'
<1>1. CASE run' = NoRun /\ Park
  BY <1>1, ParkKeeps, NoRunType
<1>2. CASE run' = [run EXCEPT !.answer = answer] /\ Spawn(n)
  <2>1. run \in Runs
    BY DEF LoopInv, LoopTypes
  <2>2. run' \in Runs /\ run'.open = run.open /\ run'.explained = run.explained
        /\ run'.answer = answer
    BY <1>2, <2>1 DEF Runs
  <2>3. RunInv'
    BY <2>2 DEF LoopInv, RunInv
  <2>4. n \in 0..MaxAttempt /\ n # 0
    OBVIOUS
  <2> QED  BY <1>2, <2>2, <2>3, <2>4, SpawnKeeps
<1> QED  BY <1>1, <1>2 DEF Judge

LEMMA EnterKeeps ==
    ASSUME LoopInv, NEW n \in 0..MaxAttempt, Enter(n), world' = world
    PROVE  LoopInv'
<1>1. run \in Runs /\ world.answers \subseteq {"Active", "Inactive", "Unknown"} /\ RunInv
  BY EnvironmentAssumption DEF LoopInv, LoopTypes
<1>2. CASE n = 0
  BY <1>2, SpawnKeeps, NoRunType DEF Enter, RunInv
<1>3. CASE n # 0 /\ ~run.open
  BY <1>1, <1>3, SpawnKeeps DEF Enter, RunInv
<1>4. CASE n # 0 /\ run.open
  <2>1. n \in 1..MaxAttempt
    BY <1>4
  <2>2. CASE Fresh(run.answer)
    <3>1. run.answer \in Answers /\ run.answer.status \in world.answers \cup {"None"}
      BY <1>1, <1>4 DEF Runs, RunInv
    <3>2. Judge(n, run.answer)
      BY <1>4, <2>2 DEF Enter
    <3> QED  BY <1>4, <2>1, <3>1, <3>2, JudgeKeeps
  <2>3. CASE ~Fresh(run.answer)
    <3>1. PICK status \in world.answers : Judge(n, [status |-> status, age |-> 0])
      BY <1>4, <2>3 DEF Enter
    <3> DEFINE answer == [status |-> status, age |-> 0]
    <3>2. answer \in Answers /\ answer.status \in world.answers \cup {"None"}
      BY <1>1, Bounds DEF Answers
    <3> HIDE DEF answer
    <3>3. Judge(n, answer)
      BY <3>1 DEF answer
    <3> QED  BY <1>4, <2>1, <3>2, <3>3, JudgeKeeps
  <2> QED  BY <2>2, <2>3
<1> QED  BY <1>2, <1>3, <1>4

LEMMA NextAttemptType ==
    ASSUME LoopInv
    PROVE  NextAttempt \in 1..MaxAttempt
BY Bounds DEF LoopInv, LoopTypes, NextAttempt, AtMost

-----------------------------------------------------------------------------
(***************************************************************************)
(* The tunnel thread.                                                      *)
(***************************************************************************)
\* The end of a dial gives its lap a floor that the run explains.
LEMMA EndLapPaces ==
    ASSUME LoopInv, lap.phase \in {"dialing", "up"}, NEW r, EndLap(r)
    PROVE  /\ lap' \in Laps /\ lap'.phase = "padding"
           /\ Paced(lap'.floor, r)
<1>1. lap \in Laps /\ attempt \in 0..MaxAttempt
  BY DEF LoopInv, LoopTypes
<1>2. /\ ReconnectFloor(attempt, Pacing(r)) \in 0..MaxFloor
      /\ Paced(ReconnectFloor(attempt, Pacing(r)), r)
  BY <1>1, FloorIsPaced
<1>3. lap' = [lap EXCEPT !.phase = "padding", !.floor = ReconnectFloor(attempt, Pacing(r))]
  BY DEF EndLap
<1> QED  BY <1>1, <1>2, <1>3 DEF Laps

LEMMA LapRefusedKeeps ==
    ASSUME LoopInv, LapRefused, world' = world
    PROVE  LoopInv'
<1>1. PICK refusal \in world.refusals : run' = Noted(refusal) /\ EndLap(Noted(refusal))
  BY DEF LapRefused
<1>2. refusal \in [explained : BOOLEAN, retryUnverified : BOOLEAN]
  BY EnvironmentAssumption DEF LoopInv, LoopTypes
<1>3. run \in Runs /\ RunInv
  BY DEF LoopInv, LoopTypes
<1>4. /\ run' \in Runs /\ run'.open /\ run'.explained = refusal.explained
      /\ run'.answer = run.answer
  BY <1>1, <1>2, <1>3 DEF Noted, Runs
<1>5. RunInv'
  <2>1. run.answer.status \in world.answers \cup {"None"}
    BY <1>3 DEF RunInv, NoRun, NoAnswer
  <2> QED  BY <1>4, <2>1 DEF RunInv
<1>6. lap' \in Laps /\ lap'.phase = "padding" /\ Paced(lap'.floor, run')
  BY <1>1, EndLapPaces DEF LapRefused
<1>7. LoopTypes'
  BY <1>4, <1>6 DEF LoopInv, LoopTypes, LapRefused
<1> QED  BY <1>5, <1>6, <1>7 DEF LoopInv, PaceInv, FirstInv

LEMMA LapFailsKeeps ==
    ASSUME LoopInv, LapFails, world' = world
    PROVE  LoopInv'
<1>1. lap' \in Laps /\ lap'.phase = "padding" /\ Paced(lap'.floor, run') /\ run' = NoRun
  BY EndLapPaces DEF LapFails
<1>2. LoopTypes'
  BY <1>1, NoRunType DEF LoopInv, LoopTypes, LapFails
<1> QED  BY <1>1, <1>2, NoRunType DEF LoopInv, PaceInv, FirstInv, RunInv

\* The lap changes its phase, and nothing of its pace.
LEMMA PhaseKeeps ==
    ASSUME LoopInv, UNCHANGED <<world, next, attempt, run>>,
           tsm' \in {"Disconnected", "Connecting", "Connected", "Disconnecting", "Error"},
           NEW phase \in {"up", "closed", "fatal"}, lap' = [lap EXCEPT !.phase = phase],
           phase = "up" => lap.phase = "dialing",
           phase = "closed" =>
              lap.phase = "up" \/ (lap.phase = "padding" /\ lap.age >= lap.floor)
    PROVE  LoopInv'
<1>1. lap \in Laps
  BY DEF LoopInv, LoopTypes
<1>2. lap' \in Laps /\ lap'.phase = phase /\ lap'.floor = lap.floor /\ lap'.age = lap.age
  BY <1>1 DEF Laps
<1>3. LoopTypes'
  BY <1>2 DEF LoopInv, LoopTypes
<1>4. PaceInv'
  BY <1>1, <1>2 DEF LoopInv, PaceInv, Laps
<1> QED  BY <1>2, <1>3, <1>4 DEF LoopInv, RunInv, FirstInv

LEMMA LapDownKeeps ==
    ASSUME LoopInv, LapDown, world' = world
    PROVE  LoopInv'
<1>1. CASE run' \in {run, NoRun} /\ EndLap(run')
  <2>1. lap' \in Laps /\ lap'.phase = "padding" /\ Paced(lap'.floor, run')
    BY <1>1, EndLapPaces DEF LapDown
  <2>2. LoopTypes'
    BY <1>1, <2>1, NoRunType, Bounds DEF LoopInv, LoopTypes, LapDown, Off
  <2>3. RunInv'
    BY <1>1, NoRunType DEF LoopInv, RunInv
  <2> QED  BY <2>1, <2>2, <2>3 DEF LoopInv, PaceInv, FirstInv
<1>2. CASE UNCHANGED run /\ lap' = [lap EXCEPT !.phase = "fatal"]
  <2>1. lap' \in Laps /\ lap'.phase = "fatal"
    BY <1>2 DEF LoopInv, LoopTypes, Laps
  <2>2. LoopTypes'
    BY <1>2, <2>1, Bounds DEF LoopInv, LoopTypes, LapDown, Off
  <2> QED  BY <1>2, <2>1, <2>2 DEF LoopInv, PaceInv, FirstInv, RunInv
<1> QED  BY <1>1, <1>2 DEF LapDown

LEMMA LapStopsKeeps ==
    ASSUME LoopInv, LapStops, world' = world
    PROVE  LoopInv'
<1>1. lap' \in Laps /\ lap'.phase = "padding" /\ Paced(lap'.floor, run')
  BY EndLapPaces DEF LapStops
<1>2. LoopTypes'
  BY <1>1 DEF LoopInv, LoopTypes, LapStops
<1> QED  BY <1>1, <1>2 DEF LoopInv, PaceInv, FirstInv, RunInv, LapStops

LEMMA ThreadKeeps ==
    ASSUME LoopInv, LapFatal \/ LapUp \/ LapPanics \/ LapCloses, world' = world
    PROVE  LoopInv'
<1>1. tsm \in {"Disconnected", "Connecting", "Connected", "Disconnecting", "Error"}
  BY DEF LoopInv, LoopTypes
<1>2. CASE LapFatal
  BY <1>1, <1>2, PhaseKeeps DEF LapFatal
<1>3. CASE LapUp
  BY <1>1, <1>3, PhaseKeeps DEF LapUp
<1>4. CASE LapPanics
  BY <1>1, <1>4, PhaseKeeps DEF LapPanics
<1>5. CASE LapCloses
  BY <1>1, <1>5, PhaseKeeps DEF LapCloses
<1> QED  BY <1>2, <1>3, <1>4, <1>5

-----------------------------------------------------------------------------
(***************************************************************************)
(* The state machine, its user and the clock.                              *)
(***************************************************************************)
LEMMA TurnKeeps ==
    ASSUME LoopInv, UNCHANGED <<world, attempt, lap, run>>, next' \in 0..Off,
           tsm' \in {"Disconnected", "Connecting", "Connected", "Disconnecting", "Error"}
    PROVE  LoopInv'
BY DEF LoopInv, LoopTypes, PaceInv, RunInv, FirstInv

LEMMA HandlerKeeps ==
    ASSUME LoopInv, EventsEnd \/ DisconnectingOver \/ CloseEvent, world' = world
    PROVE  LoopInv'
<1>1. run \in Runs /\ next \in 0..Off /\ NextAttempt \in 1..MaxAttempt
  BY NextAttemptType DEF LoopInv, LoopTypes
<1>2. CASE EventsEnd
  BY <1>1, <1>2, Bounds, TurnKeeps DEF EventsEnd, Off
<1>3. CASE DisconnectingOver
  <2>1. CASE Park /\ UNCHANGED run
    BY <1>1, <2>1, ParkKeeps
  <2>2. CASE next # Off /\ Enter(next)
    <3>1. next \in 0..MaxAttempt
      BY <1>1, <2>2, Bounds DEF Off
    <3> QED  BY <2>2, <3>1, EnterKeeps
  <2>3. CASE /\ tsm' = "Disconnected" /\ lap' = NoLap /\ next' = 0 /\ attempt' = 0
             /\ UNCHANGED run
    <3>1. LoopTypes'
      BY <2>3, NoRunType, Bounds DEF LoopInv, LoopTypes, Off
    <3>2. lap'.phase = "none"
      BY <2>3 DEF NoLap
    <3> QED  BY <2>3, <3>1, <3>2 DEF LoopInv, PaceInv, RunInv, FirstInv
  <2> QED  BY <1>3, <2>1, <2>2, <2>3 DEF DisconnectingOver
<1>4. CASE CloseEvent
  <2>1. CASE Park /\ UNCHANGED run
    BY <1>1, <2>1, ParkKeeps
  <2>2. CASE \E n \in {NextAttempt, 0} : Enter(n)
    BY <1>1, <2>2, Bounds, EnterKeeps
  <2> QED  BY <1>4, <2>1, <2>2 DEF CloseEvent
<1> QED  BY <1>2, <1>3, <1>4

LEMMA UserKeeps ==
    ASSUME LoopInv, UserConnects \/ UserReconnects \/ UserDisconnects, world' = world
    PROVE  LoopInv'
<1>1. CASE UserConnects
  BY <1>1, Bounds, EnterKeeps DEF UserConnects
<1>2. CASE UserReconnects
  BY <1>2, Bounds, TurnKeeps DEF UserReconnects, Off
<1>3. CASE UserDisconnects
  <2>1. next' \in 0..Off
    BY <1>3, Bounds DEF UserDisconnects, LoopInv, LoopTypes, Off
  <2>2. tsm' \in {"Disconnected", "Connecting", "Connected", "Disconnecting", "Error"}
    BY <1>3 DEF UserDisconnects
  <2> QED  BY <1>3, <2>1, <2>2, TurnKeeps DEF UserDisconnects
<1> QED  BY <1>1, <1>2, <1>3

\* Time adds to the ages, and to nothing that a pace or a verdict depends on.
LEMMA TickKeeps ==
    ASSUME LoopInv, Tick, world' = world
    PROVE  LoopInv'
<1>1. lap \in Laps /\ run \in Runs
  BY DEF LoopInv, LoopTypes
<1>2. /\ lap' \in Laps /\ lap'.phase = lap.phase /\ lap'.floor = lap.floor
      /\ lap.age >= lap.floor => lap'.age >= lap'.floor
  BY <1>1, Bounds DEF Tick, Laps, AtMost
<1>3. /\ run' \in Runs /\ run'.open = run.open /\ run'.explained = run.explained
      /\ run'.answer.status = run.answer.status
      /\ ~run.open => run' = run
  <2>1. CASE ~run.open
    BY <1>1, <2>1 DEF Tick
  <2>2. CASE run.open
    <3> DEFINE aged == AtMost(run.age + 1, Patience)
               answered == AtMost(run.answer.age + 1, StatusTtl)
    <3>1. run' = [run EXCEPT !.age = aged, !.answer.age = answered]
      BY <2>2 DEF Tick
    <3>2. aged \in 0..Patience /\ answered \in 0..StatusTtl
      BY <1>1, Bounds DEF Runs, Answers, AtMost
    <3> HIDE DEF aged, answered
    <3>3. run.answer \in Answers /\ [run.answer EXCEPT !.age = answered] \in Answers
      BY <1>1, <3>2 DEF Runs, Answers
    <3>4. /\ run'.answer = [run.answer EXCEPT !.age = answered] /\ run'.age = aged
          /\ run'.open = run.open /\ run'.explained = run.explained
          /\ run' = [run EXCEPT !.age = aged, !.answer = run'.answer]
      BY <1>1, <3>1 DEF Runs
    <3>5. run' \in Runs
      BY <1>1, <3>2, <3>3, <3>4 DEF Runs
    <3> QED  BY <2>2, <3>3, <3>4, <3>5 DEF Answers
  <2> QED  BY <2>1, <2>2
<1>4. LoopTypes'
  BY <1>2, <1>3 DEF LoopInv, LoopTypes, Tick
<1>5. PaceInv'
  BY <1>2, <1>3 DEF LoopInv, PaceInv, Paced
<1> QED  BY <1>2, <1>3, <1>4, <1>5 DEF LoopInv, RunInv, FirstInv, Tick

-----------------------------------------------------------------------------
(***************************************************************************)
(* The theorems.                                                           *)
(***************************************************************************)
LEMMA LoopInit ==
    ASSUME Init
    PROVE  LoopInv
<1>1. lap.phase = "none"
  BY DEF Init, NoLap
<1> QED  BY <1>1, NoRunType, Bounds DEF Init, LoopInv, LoopTypes, PaceInv, RunInv, FirstInv, Off

LEMMA LoopStep ==
    ASSUME LoopInv, [Next]_vars
    PROVE  LoopInv'
<1>1. CASE UNCHANGED vars
  BY <1>1 DEF LoopInv, LoopTypes, PaceInv, RunInv, FirstInv, vars
<1> QED  BY <1>1, LapRefusedKeeps, LapFailsKeeps, LapDownKeeps, LapStopsKeeps, ThreadKeeps,
            HandlerKeeps, UserKeeps, TickKeeps
         DEF Next, Dials, Ends, Handles, Drops, Asks, Passes, Within

\* The inductive invariant of the loop.
THEOREM Loop == Spec => []LoopInv
<1>1. Init => LoopInv
  BY LoopInit
<1>2. LoopInv /\ [Next]_vars => LoopInv'
  BY LoopStep
<1> QED  BY <1>1, <1>2, PTL DEF Spec

\* A series of dials starts with a full refusal budget (enter_warren).
THEOREM FreshRun == Spec => []FreshRunOnFirstAttempt
<1>1. LoopInv => FreshRunOnFirstAttempt
  BY DEF LoopInv, FirstInv, FreshRunOnFirstAttempt
<1> QED  BY <1>1, Loop, PTL

\* No two dials follow each other faster than reconnect_floor and the pacing of
\* the refusal run allow.
THEOREM DialsAreSpaced == Spec => DialsSpaced
<1> DEFINE Spaced == lap.phase = "closed" /\ lap.floor > 0 /\ lap'.phase = "dialing"
                       => \/ lap.age >= MinAlive
                          \/ lap.age >= ConfirmedFloor /\ run.answer.status = "Active"
<1>1. LoopInv => Spaced
  <2> SUFFICES ASSUME LoopInv, lap.phase = "closed", lap.floor > 0
               PROVE  \/ lap.age >= MinAlive
                      \/ lap.age >= ConfirmedFloor /\ run.answer.status = "Active"
    OBVIOUS
  <2>1. lap.age \in Nat /\ lap.floor \in Nat /\ lap.age >= lap.floor /\ Paced(lap.floor, run)
    BY DEF LoopInv, LoopTypes, Laps, PaceInv
  <2> QED  BY <2>1, Bounds DEF Paced, ConfirmedFloor
<1> QED  BY <1>1, Loop, PTL DEF DialsSpaced

\* Where the API vouches for the account and the refusal will clear, neither the
\* verdict of exit_refusal nor the flap detector parks the machine.
THEOREM PayingUserStays == Spec => PayingUserIsNotParked
<1> DEFINE Stays ==
       world.answers = {"Active"} /\ (\A r \in world.refusals : ~r.explained)
       /\ run.open /\ tsm \in {"Connecting", "Disconnecting"} /\ lap.phase # "fatal"
           => tsm' # "Error"
<1>1. LoopInv /\ [Next]_vars => [Stays]_vars
  <2> SUFFICES ASSUME LoopInv, Next, world.answers = {"Active"},
                      \A r \in world.refusals : ~r.explained, run.open,
                      tsm \in {"Connecting", "Disconnecting"}, lap.phase # "fatal"
               PROVE  tsm' # "Error"
    OBVIOUS
  <2>1. run.answer.status \in {"Active", "None"} /\ ~run.explained
    BY DEF LoopInv, RunInv
  <2>2. ASSUME NEW n, Enter(n) PROVE tsm' # "Error"
    <3>1. ASSUME NEW answer, answer.status \in {"Active", "None"}, Judge(n, answer)
          PROVE  tsm' # "Error"
      BY <2>1, <3>1 DEF Judge, Surfaces, Spawn
    <3>2. \A status \in world.answers : [status |-> status, age |-> 0].status \in {"Active", "None"}
      OBVIOUS
    <3> QED  BY <2>1, <2>2, <3>1, <3>2 DEF Enter, Spawn
  <2>3. CASE DisconnectingOver \/ CloseEvent
    BY <2>2, <2>3 DEF DisconnectingOver, CloseEvent
  <2>4. CASE ~(DisconnectingOver \/ CloseEvent)
    BY <2>4 DEF Next, Dials, Ends, Handles, Drops, Asks, Passes, Within, LapRefused, LapFails,
       LapFatal, LapUp, LapDown, LapStops, LapPanics, LapCloses, EventsEnd, UserConnects,
       UserReconnects, UserDisconnects, Tick
  <2> QED  BY <2>3, <2>4
<1> QED  BY <1>1, Loop, PTL DEF Spec, PayingUserIsNotParked
===============================================================================
