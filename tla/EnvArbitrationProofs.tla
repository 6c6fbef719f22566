------------------------- MODULE EnvArbitrationProofs -------------------------
(***************************************************************************)
(* Proofs about the arbitration between environments, for every number of  *)
(* environments, every first settings and every bound on what changes.     *)
(*                                                                         *)
(* None of the three invariants is inductive: what a plan still has to do  *)
(* decides what its next step makes of the settings.  PlanInv says what    *)
(* every rest of a plan is, and what the steps before it have established. *)
(***************************************************************************)
EXTENDS EnvArbitration, TLAPS, WellFoundedInduction

\* The rests of stand_down_plan and of restore_plan.
DisableRest == <<[do |-> "DisableAutoConnect"]>>
DisarmRest == <<[do |-> "DisarmLockdown"], [do |-> "DisableAutoConnect"]>>
DisconnectRest ==
    <<[do |-> "Disconnect"], [do |-> "DisarmLockdown"], [do |-> "DisableAutoConnect"]>>
RecordRest(to, auto, lockdown) ==
    <<[do |-> "RecordYield", to |-> to, auto |-> auto, lockdown |-> lockdown],
      [do |-> "Disconnect"], [do |-> "DisarmLockdown"], [do |-> "DisableAutoConnect"]>>
ClearRest == <<[do |-> "ClearYield"]>>
AutoRest(auto) == <<[do |-> "RestoreAutoConnect", value |-> auto], [do |-> "ClearYield"]>>
RestoreRest(auto, lockdown) ==
    <<[do |-> "RestoreLockdown", value |-> lockdown],
      [do |-> "RestoreAutoConnect", value |-> auto], [do |-> "ClearYield"]>>

\* Where the user's settings are: in the record of the yield, or in force.
Kept(e) == IF Held(e) THEN settings[e].yield ELSE settings[e]
KeptIsWish(e) ==
    "Lost" \notin faults[e] =>
       Kept(e).auto = wish[e].auto /\ Kept(e).lockdown = wish[e].lockdown

Recording(e) ==
    \E to \in 1 .. N : plan[e] = RecordRest(to, Kept(e).auto, Kept(e).lockdown)

\* A stand-down records before it touches a setting; a re-enable restores before
\* it clears the record.
PlanInv(e) ==
    \/ plan[e] = <<>>
    \/ Recording(e)
    \/ Held(e) /\ plan[e] \in {DisconnectRest, DisarmRest, DisableRest}
    \/ Held(e) /\ plan[e] = RestoreRest(settings[e].yield.auto, settings[e].yield.lockdown)
    \/ /\ Held(e) /\ plan[e] = AutoRest(settings[e].yield.auto)
       /\ "Lost" \notin faults[e] => settings[e].lockdown = wish[e].lockdown
    \/ /\ Held(e) /\ plan[e] = ClearRest
       /\ "Lost" \notin faults[e] =>
             settings[e].lockdown = wish[e].lockdown /\ settings[e].auto = wish[e].auto

\* What is down has no plan, and a block it left is gone once it is up.
ProcessInv(e) ==
    /\ ~up[e] => plan[e] = <<>>
    /\ leftover[e] => ~up[e] /\ ~Held(e)

\* A daemon that yields wants no tunnel, but for a stand-down that is about to
\* disconnect.
DownInv(e) ==
    up[e] /\ Held(e) /\ plan[e] # DisconnectRest => target[e] = "Unsecured"

\* A yield with the lockdown armed is what a cut plan left, but in a plan that is
\* about to disarm it or to restore it.
SealInv(e) ==
    (/\ Held(e) /\ settings[e].lockdown
     /\ plan[e] = <<>> \/ Recording(e) \/ plan[e] = DisableRest)
    => "Torn" \in faults[e]

\* A watcher that is connected has reported a state.
WatchInv(e) ==
    \A f \in Envs : watch[e][f].phase \in {"Read", "On"} =>
       seen[e][f].known /\ watch[e][f].heard.known

EnvInv(e) == KeptIsWish(e) /\ PlanInv(e) /\ ProcessInv(e) /\ DownInv(e) /\ SealInv(e)
ArbitrationInv ==
    /\ TypeOK /\ plan = [e \in Envs |-> plan[e]]
    /\ \A e \in Envs : EnvInv(e) /\ WatchInv(e)

-----------------------------------------------------------------------------
(***************************************************************************)
(* The decisions.                                                          *)
(***************************************************************************)
LEMMA LeastOfNaturals ==
    ASSUME NEW T, T \subseteq Nat, T # {}
    PROVE  \E x \in T : \A y \in T : x <= y
<1>1. \E x \in T : \A y \in T : ~(<<y, x>> \in OpToRel(<, Nat))
  BY WFMin, NatLessThanWellFounded, Zenon
<1>2. \A x, y \in Nat : <<y, x>> \notin OpToRel(<, Nat) => x <= y
  BY DEF OpToRel
<1> QED  BY <1>1, <1>2, Zenon

\* strongest_asserting is an environment that outranks e, or none.
LEMMA StrongestOutranks ==
    ASSUME NEW e \in Envs, NEW observed
    PROVE  strongest_asserting(e, observed) \in 0 .. N
<1> DEFINE asserting == {f \in Outranking(e) : is_asserting(observed[f])}
<1>1. asserting \subseteq 1 .. N /\ asserting \subseteq Nat
  BY EnvsAssumption DEF Outranking, Envs
<1>2. CASE asserting = {}
  BY <1>2, EnvsAssumption DEF strongest_asserting
<1>3. CASE asserting # {}
  <2>1. \E f \in asserting : \A g \in asserting : f <= g
    BY <1>1, <1>3, LeastOfNaturals
  <2> HIDE DEF asserting
  <2>2. (CHOOSE f \in asserting : \A g \in asserting : f <= g) \in asserting
    BY <2>1
  <2> USE DEF asserting
  <2>3. strongest_asserting(e, observed) \in asserting
    BY <1>3, <2>2 DEF strongest_asserting
  <2> QED  BY <1>1, <2>3
<1> QED  BY <1>2, <1>3

\* A stand-down names an environment, so that the record it makes is a yield.
LEMMA StandDownNames ==
    ASSUME NEW e \in Envs, NEW observed, StandsDown(e, observed)
    PROVE  strongest_asserting(e, observed) \in 1 .. N
BY StrongestOutranks, EnvsAssumption DEF StandsDown, Envs

-----------------------------------------------------------------------------
(***************************************************************************)
(* What is said of one environment depends on that environment alone.      *)
(***************************************************************************)
Same(e) ==
    /\ up'[e] = up[e] /\ settings'[e] = settings[e] /\ target'[e] = target[e]
    /\ plan'[e] = plan[e] /\ leftover'[e] = leftover[e]
    /\ wish'[e] = wish[e] /\ faults'[e] = faults[e]

Step(e) ==
    \/ \E new \in {"Secured", "Unsecured"} : SetTargetState(e, new)
    \/ SetLockdownMode(e) \/ SetAutoConnect(e) \/ ClearEnvYield(e)
    \/ \E f \in Outranking(e) : Watches(e, f) \/ ReadsFirst(e, f) \/ ProbeFails(e, f)
    \/ PlanStep(e) \/ WriteFails(e) \/ TunnelFollows(e)
    \/ Shutdown(e) \/ Crash(e) \/ Start(e)

LEMMA SameKeeps ==
    ASSUME NEW e \in Envs, EnvInv(e), Same(e)
    PROVE  EnvInv(e)'
BY DEF EnvInv, KeptIsWish, Kept, PlanInv, ProcessInv, DownInv, SealInv, Recording, Held, Same

LEMMA OthersStaySame ==
    ASSUME ArbitrationInv, NEW d \in Envs, NEW e \in Envs, d # e, Step(d)
    PROVE  Same(e)
<1> USE DEF ArbitrationInv, TypeOK, Same
<1>1. CASE \/ \E new \in {"Secured", "Unsecured"} : SetTargetState(d, new)
           \/ SetLockdownMode(d) \/ SetAutoConnect(d) \/ ClearEnvYield(d)
  BY <1>1 DEF SetTargetState, SetLockdownMode, SetAutoConnect, ChangeSetting, ClearEnvYield
<1>2. CASE \E f \in Outranking(d) : Watches(d, f) \/ ReadsFirst(d, f) \/ ProbeFails(d, f)
  <2> PICK f \in Outranking(d) : Watches(d, f) \/ ReadsFirst(d, f) \/ ProbeFails(d, f)
    BY <1>2
  <2>1. CASE Subscribe(d, f)
    BY <2>1 DEF Subscribe
  <2>2. CASE \E seenNow : Observed(d, f, seenNow)
    BY <2>2 DEF Observed
  <2> QED  BY <2>1, <2>2 DEF Watches, Follow, ReadsFirst, Connects, Hear, StreamEnds, ProbeFails,
              Loses
<1>3. CASE PlanStep(d) \/ WriteFails(d) \/ TunnelFollows(d)
  BY <1>3 DEF PlanStep, WriteFails, TunnelFollows
<1>4. CASE Shutdown(d) \/ Crash(d) \/ Start(d)
  BY <1>4 DEF Shutdown, Crash, Start, Ends
<1> QED  BY <1>1, <1>2, <1>3, <1>4 DEF Step

-----------------------------------------------------------------------------
(***************************************************************************)
(* What a step writes.                                                     *)
(***************************************************************************)
Settings == [auto : BOOLEAN, lockdown : BOOLEAN,
             yield : [to : 0 .. N, auto : BOOLEAN, lockdown : BOOLEAN]]

\* The first step of every rest, and what is left after it.
LEMMA Rests ==
    /\ Head(DisableRest).do = "DisableAutoConnect" /\ Tail(DisableRest) = <<>>
    /\ Head(DisarmRest).do = "DisarmLockdown" /\ Tail(DisarmRest) = DisableRest
    /\ Head(DisconnectRest).do = "Disconnect" /\ Tail(DisconnectRest) = DisarmRest
    /\ Head(ClearRest).do = "ClearYield" /\ Tail(ClearRest) = <<>>
    /\ \A auto : /\ Head(AutoRest(auto)).do = "RestoreAutoConnect"
                 /\ Head(AutoRest(auto)).value = auto
                 /\ Tail(AutoRest(auto)) = ClearRest
    /\ \A auto, lockdown :
          /\ Head(RestoreRest(auto, lockdown)).do = "RestoreLockdown"
          /\ Head(RestoreRest(auto, lockdown)).value = lockdown
          /\ Tail(RestoreRest(auto, lockdown)) = AutoRest(auto)
    /\ \A to, auto, lockdown :
          /\ Head(RecordRest(to, auto, lockdown)).do = "RecordYield"
          /\ Head(RecordRest(to, auto, lockdown)).to = to
          /\ Head(RecordRest(to, auto, lockdown)).auto = auto
          /\ Head(RecordRest(to, auto, lockdown)).lockdown = lockdown
          /\ Tail(RecordRest(to, auto, lockdown)) = DisconnectRest
BY DEF DisableRest, DisarmRest, DisconnectRest, ClearRest, AutoRest, RestoreRest, RecordRest

\* A rest is known by its length and its first step.
LEMMA RestsDiffer ==
    /\ DisableRest # <<>> /\ DisarmRest # <<>> /\ DisconnectRest # <<>> /\ ClearRest # <<>>
    /\ DisableRest # DisarmRest /\ DisableRest # DisconnectRest /\ DisarmRest # DisconnectRest
    /\ ClearRest \notin {DisableRest, DisarmRest, DisconnectRest}
    /\ \A auto : AutoRest(auto) \notin {<<>>, DisableRest, DisarmRest, DisconnectRest, ClearRest}
    /\ \A auto, lockdown : RestoreRest(auto, lockdown) \notin
          {<<>>, DisableRest, DisarmRest, DisconnectRest, ClearRest}
    /\ \A to, auto, lockdown : RecordRest(to, auto, lockdown) \notin
          {<<>>, DisableRest, DisarmRest, DisconnectRest, ClearRest}
    /\ \A to, a, l, b : RecordRest(to, a, l) # AutoRest(b)
    /\ \A to, a, l, b, m : RecordRest(to, a, l) # RestoreRest(b, m)
BY DEF DisableRest, DisarmRest, DisconnectRest, ClearRest, AutoRest, RestoreRest, RecordRest

LEMMA KeptType ==
    ASSUME TypeOK, NEW e \in Envs
    PROVE  Kept(e).auto \in BOOLEAN /\ Kept(e).lockdown \in BOOLEAN
BY DEF Kept, TypeOK

\* What each step of a plan writes.
LEMMA WrittenIs ==
    ASSUME NEW e \in Envs, settings[e] \in Settings, NEW step
    PROVE  /\ step.do = "Disconnect" => Written(e, step) = settings[e]
           /\ step.do = "DisarmLockdown" =>
                 Written(e, step) = [settings[e] EXCEPT !.lockdown = FALSE]
           /\ step.do = "DisableAutoConnect" =>
                 Written(e, step) = [settings[e] EXCEPT !.auto = FALSE]
           /\ step.do = "RestoreLockdown" =>
                 Written(e, step) = [settings[e] EXCEPT !.lockdown = step.value]
           /\ step.do = "RestoreAutoConnect" =>
                 Written(e, step) = [settings[e] EXCEPT !.auto = step.value]
           /\ step.do = "ClearYield" => Written(e, step) = [settings[e] EXCEPT !.yield = NoYield]
           /\ step.do = "RecordYield" =>
                 Written(e, step) = [settings[e] EXCEPT !.yield =
                    [to |-> step.to, auto |-> step.auto, lockdown |-> step.lockdown]]
<1>1. CASE step.do = "Disconnect"
  BY <1>1 DEF Written
<1>2. CASE step.do = "DisarmLockdown"
  BY <1>2 DEF Written
<1>3. CASE step.do = "DisableAutoConnect"
  BY <1>3 DEF Written
<1>4. CASE step.do = "RestoreLockdown"
  BY <1>4 DEF Written
<1>5. CASE step.do = "RestoreAutoConnect"
  BY <1>5 DEF Written
<1>6. CASE step.do = "ClearYield"
  BY <1>6 DEF Written
<1>7. CASE step.do = "RecordYield"
  BY <1>7 DEF Written
<1> QED  BY <1>1, <1>2, <1>3, <1>4, <1>5, <1>6, <1>7

\* Every step of a plan writes settings of the right type.
LEMMA WrittenType ==
    ASSUME ArbitrationInv, NEW e \in Envs, plan[e] # <<>>
    PROVE  Written(e, Head(plan[e])) \in Settings
<1>1. settings[e] \in Settings /\ PlanInv(e)
  BY DEF ArbitrationInv, TypeOK, Settings, EnvInv
<1>2. CASE Recording(e)
  <2>1. PICK to \in 1 .. N : plan[e] = RecordRest(to, Kept(e).auto, Kept(e).lockdown)
    BY <1>2 DEF Recording
  <2>2. /\ Head(plan[e]).do = "RecordYield" /\ Head(plan[e]).to = to
        /\ Head(plan[e]).auto = Kept(e).auto /\ Head(plan[e]).lockdown = Kept(e).lockdown
    BY <2>1, Rests
  <2>3. Kept(e).auto \in BOOLEAN /\ Kept(e).lockdown \in BOOLEAN /\ to \in 0 .. N
    BY KeptType, EnvsAssumption DEF ArbitrationInv
  <2>4. Written(e, Head(plan[e])) = [settings[e] EXCEPT !.yield =
           [to |-> to, auto |-> Kept(e).auto, lockdown |-> Kept(e).lockdown]]
    BY <1>1, <2>2, WrittenIs
  <2> QED  BY <1>1, <2>3, <2>4 DEF Settings
<1>3. CASE plan[e] \in {DisconnectRest, DisarmRest, DisableRest, ClearRest}
  <2>1. Head(plan[e]).do \in {"Disconnect", "DisarmLockdown", "DisableAutoConnect", "ClearYield"}
    BY <1>3, Rests
  <2>2. \/ Written(e, Head(plan[e])) = settings[e]
        \/ Written(e, Head(plan[e])) = [settings[e] EXCEPT !.lockdown = FALSE]
        \/ Written(e, Head(plan[e])) = [settings[e] EXCEPT !.auto = FALSE]
        \/ Written(e, Head(plan[e])) = [settings[e] EXCEPT !.yield = NoYield]
    BY <1>1, <2>1, WrittenIs
  <2>3. NoYield \in [to : 0 .. N, auto : BOOLEAN, lockdown : BOOLEAN]
    BY EnvsAssumption DEF NoYield
  <2> QED  BY <1>1, <2>2, <2>3 DEF Settings
<1>4. CASE plan[e] = RestoreRest(settings[e].yield.auto, settings[e].yield.lockdown)
  <2>1. Head(plan[e]).do = "RestoreLockdown" /\ Head(plan[e]).value = settings[e].yield.lockdown
    BY <1>4, Rests
  <2>2. Written(e, Head(plan[e])) = [settings[e] EXCEPT !.lockdown = settings[e].yield.lockdown]
    BY <1>1, <2>1, WrittenIs
  <2> QED  BY <1>1, <2>2 DEF Settings
<1>5. CASE plan[e] = AutoRest(settings[e].yield.auto)
  <2>1. Head(plan[e]).do = "RestoreAutoConnect" /\ Head(plan[e]).value = settings[e].yield.auto
    BY <1>5, Rests
  <2>2. Written(e, Head(plan[e])) = [settings[e] EXCEPT !.auto = settings[e].yield.auto]
    BY <1>1, <2>1, WrittenIs
  <2> QED  BY <1>1, <2>2 DEF Settings
<1> QED  BY <1>1, <1>2, <1>3, <1>4, <1>5 DEF PlanInv

-----------------------------------------------------------------------------
(***************************************************************************)
(* The steps of a plan keep what is said of their environment.             *)
(***************************************************************************)
LEMMA PlanStepKeeps ==
    ASSUME ArbitrationInv, NEW e \in Envs, PlanStep(e)
    PROVE  EnvInv(e)'
<1> DEFINE step == Head(plan[e])
<1>1. settings[e] \in Settings /\ settings \in [Envs -> Settings] /\ EnvInv(e)
  BY DEF ArbitrationInv, TypeOK, Settings
<1>2. /\ up[e] /\ up'[e] = up[e] /\ plan[e] # <<>> /\ plan'[e] = Tail(plan[e])
      /\ settings'[e] = Written(e, step) /\ leftover'[e] = leftover[e] /\ wish'[e] = wish[e]
      /\ step.do = "Disconnect" => target'[e] = "Unsecured"
      /\ step.do # "Disconnect" => target'[e] = target[e]
      /\ step.do = "RecordYield" => faults'[e] = faults[e] \ {"Torn", "Dropped"}
      /\ step.do # "RecordYield" => faults'[e] = faults[e]
  BY DEF PlanStep, ArbitrationInv, TypeOK
<1>3. ProcessInv(e)'
  BY <1>1, <1>2 DEF ProcessInv, EnvInv
<1>4. CASE Recording(e)
  <2>1. PICK to \in 1 .. N : plan[e] = RecordRest(to, Kept(e).auto, Kept(e).lockdown)
    BY <1>4 DEF Recording
  <2>2. /\ step.do = "RecordYield" /\ step.to = to
        /\ step.auto = Kept(e).auto /\ step.lockdown = Kept(e).lockdown
        /\ plan'[e] = DisconnectRest
    BY <1>2, <2>1, Rests
  <2>3. settings'[e] = [settings[e] EXCEPT !.yield =
           [to |-> to, auto |-> Kept(e).auto, lockdown |-> Kept(e).lockdown]]
    BY <1>1, <1>2, <2>2, WrittenIs
  <2>4. settings'[e].yield = [to |-> to, auto |-> Kept(e).auto, lockdown |-> Kept(e).lockdown]
    BY <1>1, <2>3 DEF Settings
  <2>5. Held(e)'
    BY <2>4 DEF Held, NoYield
  <2>6. KeptIsWish(e)'
    BY <1>1, <1>2, <2>2, <2>4, <2>5 DEF EnvInv, KeptIsWish, Kept
  <2>7. PlanInv(e)' /\ DownInv(e)'
    BY <2>2, <2>5 DEF PlanInv, DownInv
  <2>8. SealInv(e)'
    BY <2>2, RestsDiffer DEF SealInv, Recording
  <2> QED  BY <1>3, <2>6, <2>7, <2>8 DEF EnvInv
<1>5. CASE Held(e) /\ plan[e] = DisconnectRest
  <2>1. step.do = "Disconnect" /\ plan'[e] = DisarmRest
    BY <1>2, <1>5, Rests
  <2>2. settings'[e] = settings[e] /\ faults'[e] = faults[e] /\ target'[e] = "Unsecured"
    BY <1>1, <1>2, <2>1, WrittenIs
  <2>3. KeptIsWish(e)' /\ PlanInv(e)' /\ DownInv(e)'
    BY <1>1, <1>2, <1>5, <2>1, <2>2 DEF EnvInv, KeptIsWish, Kept, Held, PlanInv, DownInv
  <2>4. SealInv(e)'
    BY <2>1, RestsDiffer DEF SealInv, Recording
  <2> QED  BY <1>3, <2>3, <2>4 DEF EnvInv
<1>6. CASE Held(e) /\ plan[e] = DisarmRest
  <2>1. step.do = "DisarmLockdown" /\ plan'[e] = DisableRest
    BY <1>2, <1>6, Rests
  <2>2. settings'[e] = [settings[e] EXCEPT !.lockdown = FALSE] /\ faults'[e] = faults[e]
        /\ target'[e] = target[e]
    BY <1>1, <1>2, <2>1, WrittenIs
  <2>3. settings'[e].yield = settings[e].yield /\ settings'[e].lockdown = FALSE
    BY <1>1, <2>2 DEF Settings
  <2>4. KeptIsWish(e)' /\ PlanInv(e)'
    BY <1>1, <1>2, <1>6, <2>1, <2>2, <2>3 DEF EnvInv, KeptIsWish, Kept, Held, PlanInv
  <2>5. DownInv(e)' /\ SealInv(e)'
    BY <1>1, <1>2, <1>6, <2>1, <2>2, <2>3, RestsDiffer DEF EnvInv, DownInv, SealInv
  <2> QED  BY <1>3, <2>4, <2>5 DEF EnvInv
<1>7. CASE Held(e) /\ plan[e] = DisableRest
  <2>1. step.do = "DisableAutoConnect" /\ plan'[e] = <<>>
    BY <1>2, <1>7, Rests
  <2>2. settings'[e] = [settings[e] EXCEPT !.auto = FALSE] /\ faults'[e] = faults[e]
        /\ target'[e] = target[e]
    BY <1>1, <1>2, <2>1, WrittenIs
  <2>3. settings'[e].yield = settings[e].yield /\ settings'[e].lockdown = settings[e].lockdown
    BY <1>1, <2>2 DEF Settings
  <2>4. KeptIsWish(e)' /\ PlanInv(e)'
    BY <1>1, <1>2, <1>7, <2>1, <2>2, <2>3 DEF EnvInv, KeptIsWish, Kept, Held, PlanInv
  <2>5. DownInv(e)'
    BY <1>1, <1>2, <1>7, <2>1, <2>2, <2>3, RestsDiffer DEF EnvInv, DownInv
  <2>6. SealInv(e)'
    BY <1>1, <1>2, <1>7, <2>1, <2>2, <2>3 DEF EnvInv, SealInv
  <2> QED  BY <1>3, <2>4, <2>5, <2>6 DEF EnvInv
<1>8. CASE Held(e) /\ plan[e] = RestoreRest(settings[e].yield.auto, settings[e].yield.lockdown)
  <2>1. /\ step.do = "RestoreLockdown" /\ step.value = settings[e].yield.lockdown
        /\ plan'[e] = AutoRest(settings[e].yield.auto)
    BY <1>2, <1>8, Rests
  <2>2. settings'[e] = [settings[e] EXCEPT !.lockdown = settings[e].yield.lockdown]
        /\ faults'[e] = faults[e] /\ target'[e] = target[e]
    BY <1>1, <1>2, <2>1, WrittenIs
  <2>3. /\ settings'[e].yield = settings[e].yield
        /\ settings'[e].lockdown = settings[e].yield.lockdown
    BY <1>1, <2>2 DEF Settings
  <2>4. KeptIsWish(e)' /\ PlanInv(e)'
    BY <1>1, <1>2, <1>8, <2>1, <2>2, <2>3 DEF EnvInv, KeptIsWish, Kept, Held, PlanInv
  <2>5. DownInv(e)'
    BY <1>1, <1>2, <1>8, <2>1, <2>2, <2>3, RestsDiffer DEF EnvInv, DownInv
  <2>6. SealInv(e)'
    BY <2>1, RestsDiffer DEF SealInv, Recording
  <2> QED  BY <1>3, <2>4, <2>5, <2>6 DEF EnvInv
<1>9. CASE /\ Held(e) /\ plan[e] = AutoRest(settings[e].yield.auto)
           /\ "Lost" \notin faults[e] => settings[e].lockdown = wish[e].lockdown
  <2>1. /\ step.do = "RestoreAutoConnect" /\ step.value = settings[e].yield.auto
        /\ plan'[e] = ClearRest
    BY <1>2, <1>9, Rests
  <2>2. settings'[e] = [settings[e] EXCEPT !.auto = settings[e].yield.auto]
        /\ faults'[e] = faults[e] /\ target'[e] = target[e]
    BY <1>1, <1>2, <2>1, WrittenIs
  <2>3. /\ settings'[e].yield = settings[e].yield
        /\ settings'[e].lockdown = settings[e].lockdown
        /\ settings'[e].auto = settings[e].yield.auto
    BY <1>1, <2>2 DEF Settings
  <2>4. KeptIsWish(e)' /\ PlanInv(e)'
    BY <1>1, <1>2, <1>9, <2>1, <2>2, <2>3 DEF EnvInv, KeptIsWish, Kept, Held, PlanInv
  <2>5. DownInv(e)'
    BY <1>1, <1>2, <1>9, <2>1, <2>2, <2>3, RestsDiffer DEF EnvInv, DownInv
  <2>6. SealInv(e)'
    BY <2>1, RestsDiffer DEF SealInv, Recording
  <2> QED  BY <1>3, <2>4, <2>5, <2>6 DEF EnvInv
<1>10. CASE /\ Held(e) /\ plan[e] = ClearRest
            /\ "Lost" \notin faults[e] =>
                  settings[e].lockdown = wish[e].lockdown /\ settings[e].auto = wish[e].auto
  <2>1. step.do = "ClearYield" /\ plan'[e] = <<>>
    BY <1>2, <1>10, Rests
  <2>2. settings'[e] = [settings[e] EXCEPT !.yield = NoYield] /\ faults'[e] = faults[e]
    BY <1>1, <1>2, <2>1, WrittenIs
  <2>3. /\ settings'[e].yield = NoYield /\ settings'[e].lockdown = settings[e].lockdown
        /\ settings'[e].auto = settings[e].auto
    BY <1>1, <2>2 DEF Settings
  <2>4. ~Held(e)'
    BY <2>3 DEF Held
  <2> QED  BY <1>2, <1>3, <1>10, <2>1, <2>2, <2>3, <2>4
           DEF EnvInv, KeptIsWish, Kept, PlanInv, DownInv, SealInv
<1> QED  BY <1>1, <1>2, <1>4, <1>5, <1>6, <1>7, <1>8, <1>9, <1>10 DEF EnvInv, PlanInv

\* A step of a plan that cannot be written: a stand-down is given up before it
\* has touched anything, or goes on and is torn, and a re-enable may lose a
\* setting.
LEMMA WriteFailsKeeps ==
    ASSUME ArbitrationInv, NEW e \in Envs, WriteFails(e)
    PROVE  EnvInv(e)'
<1> DEFINE step == Head(plan[e])
<1>1. settings[e] \in Settings /\ EnvInv(e)
  BY DEF ArbitrationInv, TypeOK, Settings
<1>2. /\ up[e] /\ up'[e] = up[e] /\ plan[e] # <<>> /\ settings'[e] = settings[e]
      /\ Written(e, step) # settings[e]
      /\ target'[e] = target[e] /\ leftover'[e] = leftover[e] /\ wish'[e] = wish[e]
      /\ plan'[e] = IF step.do = "RecordYield" THEN <<>> ELSE Tail(plan[e])
  BY DEF WriteFails, ArbitrationInv, TypeOK
<1>3. /\ step.do = "RecordYield" => faults'[e] = faults[e] \cup {"Dropped"}
      /\ step.do \in {"RestoreLockdown", "RestoreAutoConnect"} =>
            faults'[e] = faults[e] \cup {"Lost"}
      /\ step.do \in {"DisarmLockdown", "DisableAutoConnect", "ClearYield"} =>
            faults'[e] = faults[e] \cup {"Torn"}
  <2>1. faults'[e] = faults[e] \cup
                {CASE step.do = "RecordYield" -> "Dropped"
                   [] step.do \in {"RestoreLockdown", "RestoreAutoConnect"} -> "Lost"
                   [] OTHER -> "Torn"}
    BY DEF WriteFails, ArbitrationInv, TypeOK
  <2> HIDE DEF step
  <2>2. CASE step.do = "RecordYield"
    BY <2>1, <2>2
  <2>3. CASE step.do \in {"RestoreLockdown", "RestoreAutoConnect"}
    BY <2>1, <2>3
  <2>4. CASE step.do \in {"DisarmLockdown", "DisableAutoConnect", "ClearYield"}
    BY <2>1, <2>4
  <2> QED  BY <2>2, <2>3, <2>4
<1>4. ProcessInv(e)' /\ Held(e)' = Held(e) /\ Kept(e)' = Kept(e)
  BY <1>1, <1>2 DEF ProcessInv, EnvInv, Held, Kept
<1>5. CASE Recording(e)
  <2>1. step.do = "RecordYield"
    BY <1>5, Rests DEF Recording
  <2>2. plan'[e] = <<>> /\ faults'[e] = faults[e] \cup {"Dropped"}
    BY <1>2, <1>3, <2>1
  <2>3. KeptIsWish(e)' /\ PlanInv(e)'
    BY <1>1, <1>2, <1>4, <2>2 DEF EnvInv, KeptIsWish, PlanInv
  <2>4. plan[e] # DisconnectRest
    BY <1>5, RestsDiffer DEF Recording
  <2>5. DownInv(e)' /\ SealInv(e)'
    BY <1>1, <1>2, <1>4, <1>5, <2>2, <2>4 DEF EnvInv, DownInv, SealInv
  <2> QED  BY <1>4, <2>3, <2>5 DEF EnvInv
<1>6. CASE Held(e) /\ plan[e] = DisconnectRest
  <2>1. step.do = "Disconnect"
    BY <1>6, Rests
  <2> QED  BY <1>1, <1>2, <2>1, WrittenIs
<1>7. CASE Held(e) /\ plan[e] = DisarmRest
  <2>1. step.do = "DisarmLockdown" /\ Tail(plan[e]) = DisableRest
    BY <1>7, Rests
  <2>2. plan'[e] = DisableRest /\ faults'[e] = faults[e] \cup {"Torn"}
    BY <1>2, <1>3, <2>1
  <2>3. KeptIsWish(e)' /\ PlanInv(e)'
    BY <1>1, <1>2, <1>4, <1>7, <2>2 DEF EnvInv, KeptIsWish, PlanInv
  <2>4. DownInv(e)' /\ SealInv(e)'
    BY <1>1, <1>2, <1>4, <1>7, <2>2, RestsDiffer DEF EnvInv, DownInv, SealInv
  <2> QED  BY <1>4, <2>3, <2>4 DEF EnvInv
<1>8. CASE Held(e) /\ plan[e] = DisableRest
  <2>1. step.do = "DisableAutoConnect" /\ Tail(plan[e]) = <<>>
    BY <1>8, Rests
  <2>2. plan'[e] = <<>> /\ faults'[e] = faults[e] \cup {"Torn"}
    BY <1>2, <1>3, <2>1
  <2>3. KeptIsWish(e)' /\ PlanInv(e)'
    BY <1>1, <1>2, <1>4, <1>8, <2>2 DEF EnvInv, KeptIsWish, PlanInv
  <2>4. DownInv(e)' /\ SealInv(e)'
    BY <1>1, <1>2, <1>4, <1>8, <2>2, RestsDiffer DEF EnvInv, DownInv, SealInv
  <2> QED  BY <1>4, <2>3, <2>4 DEF EnvInv
<1>9. CASE Held(e) /\ plan[e] = RestoreRest(settings[e].yield.auto, settings[e].yield.lockdown)
  <2>1. step.do = "RestoreLockdown" /\ Tail(plan[e]) = AutoRest(settings[e].yield.auto)
    BY <1>9, Rests
  <2>2. plan'[e] = AutoRest(settings[e].yield.auto) /\ faults'[e] = faults[e] \cup {"Lost"}
    BY <1>2, <1>3, <2>1
  <2>3. KeptIsWish(e)' /\ PlanInv(e)'
    BY <1>2, <1>4, <1>9, <2>2 DEF KeptIsWish, PlanInv
  <2>4. DownInv(e)'
    BY <1>1, <1>2, <1>4, <1>9, <2>2, RestsDiffer DEF EnvInv, DownInv
  <2>5. SealInv(e)'
    BY <2>2, RestsDiffer DEF SealInv, Recording
  <2> QED  BY <1>4, <2>3, <2>4, <2>5 DEF EnvInv
<1>10. CASE Held(e) /\ plan[e] = AutoRest(settings[e].yield.auto)
  <2>1. step.do = "RestoreAutoConnect" /\ Tail(plan[e]) = ClearRest
    BY <1>10, Rests
  <2>2. plan'[e] = ClearRest /\ faults'[e] = faults[e] \cup {"Lost"}
    BY <1>2, <1>3, <2>1
  <2>3. KeptIsWish(e)' /\ PlanInv(e)'
    BY <1>2, <1>4, <1>10, <2>2 DEF KeptIsWish, PlanInv
  <2>4. DownInv(e)'
    BY <1>1, <1>2, <1>4, <1>10, <2>2, RestsDiffer DEF EnvInv, DownInv
  <2>5. SealInv(e)'
    BY <2>2, RestsDiffer DEF SealInv, Recording
  <2> QED  BY <1>4, <2>3, <2>4, <2>5 DEF EnvInv
<1>11. CASE Held(e) /\ plan[e] = ClearRest
  <2>1. step.do = "ClearYield" /\ Tail(plan[e]) = <<>>
    BY <1>11, Rests
  <2>2. plan'[e] = <<>> /\ faults'[e] = faults[e] \cup {"Torn"}
    BY <1>2, <1>3, <2>1
  <2>3. KeptIsWish(e)' /\ PlanInv(e)'
    BY <1>1, <1>2, <1>4, <1>11, <2>2 DEF EnvInv, KeptIsWish, PlanInv
  <2>4. DownInv(e)' /\ SealInv(e)'
    BY <1>1, <1>2, <1>4, <1>11, <2>2, RestsDiffer DEF EnvInv, DownInv, SealInv
  <2> QED  BY <1>4, <2>3, <2>4 DEF EnvInv
<1> QED  BY <1>1, <1>2, <1>5, <1>6, <1>7, <1>8, <1>9, <1>10, <1>11 DEF EnvInv, PlanInv

-----------------------------------------------------------------------------
(***************************************************************************)
(* So does everything else that a daemon does.                             *)
(***************************************************************************)
LEMMA TargetKeeps ==
    ASSUME ArbitrationInv, NEW e \in Envs,
           NEW new \in {"Secured", "Unsecured"}, SetTargetState(e, new)
    PROVE  EnvInv(e)'
<1>1. EnvInv(e)
  BY DEF ArbitrationInv
<1>2. /\ up'[e] = up[e] /\ plan'[e] = plan[e] /\ plan[e] = <<>> /\ settings'[e] = settings[e]
      /\ target'[e] = new /\ leftover'[e] = leftover[e] /\ wish'[e] = wish[e]
      /\ faults'[e] = faults[e] /\ (new = "Secured" => ~Held(e))
  BY DEF SetTargetState, Idle, Admitted, may_assert_machine, ArbitrationInv, TypeOK
<1> QED  BY <1>1, <1>2 DEF EnvInv, KeptIsWish, Kept, PlanInv, ProcessInv, DownInv, SealInv,
            Recording, Held

\* A setting that is changed while the machine is yielded is only switched off,
\* and the record stays; one that is changed otherwise is the user's wish.
LEMMA SettingKeeps ==
    ASSUME ArbitrationInv, NEW e \in Envs, SetLockdownMode(e) \/ SetAutoConnect(e)
    PROVE  EnvInv(e)'
<1>1. EnvInv(e) /\ settings[e] \in Settings
  BY DEF ArbitrationInv, TypeOK, Settings
<1>2. PICK new \in {[settings[e] EXCEPT !.lockdown = ~@], [settings[e] EXCEPT !.auto = ~@]} :
         /\ ChangeSetting(e, new)
         /\ Held(e) => new.lockdown \in {settings[e].lockdown, FALSE}
  BY <1>1 DEF SetLockdownMode, SetAutoConnect, Admitted, may_assert_machine, Settings
<1>3. new.yield = settings[e].yield
  BY <1>1 DEF Settings
<1>4. /\ up[e] /\ up'[e] = up[e] /\ plan'[e] = plan[e] /\ plan[e] = <<>> /\ settings'[e] = new
      /\ target'[e] = target[e] /\ leftover'[e] = leftover[e]
      /\ Held(e) => wish'[e] = wish[e] /\ faults'[e] = faults[e]
      /\ ~Held(e) => /\ wish'[e].auto = new.auto /\ wish'[e].lockdown = new.lockdown
                     /\ faults'[e] = faults[e] \ {"Lost"}
  BY <1>2 DEF ChangeSetting, Idle, ArbitrationInv, TypeOK
<1>5. Held(e)' = Held(e) /\ ProcessInv(e)' /\ PlanInv(e)' /\ DownInv(e)'
  BY <1>1, <1>3, <1>4 DEF EnvInv, Held, ProcessInv, PlanInv, DownInv
<1>6. KeptIsWish(e)'
  BY <1>1, <1>3, <1>4, <1>5 DEF EnvInv, KeptIsWish, Kept
<1>7. SealInv(e)'
  <2>1. CASE Held(e)
    <3>1. new.lockdown => settings[e].lockdown
      BY <1>1, <1>2, <2>1 DEF Settings
    <3> QED  BY <1>1, <1>4, <2>1, <3>1 DEF EnvInv, SealInv
  <2>2. CASE ~Held(e)
    BY <1>5, <2>2 DEF SealInv
  <2> QED  BY <2>1, <2>2
<1> QED  BY <1>5, <1>6, <1>7 DEF EnvInv

LEMMA ClearKeeps ==
    ASSUME ArbitrationInv, NEW e \in Envs, ClearEnvYield(e)
    PROVE  EnvInv(e)'
<1>1. EnvInv(e)
  BY DEF ArbitrationInv
<1>2. /\ up[e] /\ up'[e] = up[e] /\ plan[e] = <<>> /\ settings'[e] = settings[e]
      /\ plan'[e] = RestoreRest(settings[e].yield.auto, settings[e].yield.lockdown)
      /\ target'[e] = target[e] /\ leftover'[e] = leftover[e] /\ wish'[e] = wish[e]
      /\ faults'[e] = faults[e] /\ Held(e) /\ Held(e)' = Held(e)
  BY DEF ClearEnvYield, Idle, may_clear_yield, ArbitrationInv, TypeOK, restore_plan,
         RestoreRest, Held
<1>3. KeptIsWish(e)' /\ PlanInv(e)' /\ ProcessInv(e)'
  BY <1>1, <1>2 DEF EnvInv, KeptIsWish, Kept, PlanInv, ProcessInv
<1>4. DownInv(e)'
  BY <1>1, <1>2, RestsDiffer DEF EnvInv, DownInv
<1>5. SealInv(e)'
  BY <1>2, RestsDiffer DEF SealInv, Recording
<1> QED  BY <1>3, <1>4, <1>5 DEF EnvInv

\* An observation starts a stand-down or changes nothing of the settings.
LEMMA ObservedKeeps ==
    ASSUME ArbitrationInv, NEW e \in Envs, NEW f, NEW state, Observed(e, f, state)
    PROVE  EnvInv(e)'
<1> DEFINE now == [seen[e] EXCEPT ![f] = state]
           to == strongest_asserting(e, now)
<1>1. EnvInv(e)
  BY DEF ArbitrationInv
<1>2. /\ up[e] /\ up'[e] = up[e] /\ plan[e] = <<>> /\ settings'[e] = settings[e]
      /\ target'[e] = target[e] /\ leftover'[e] = leftover[e] /\ wish'[e] = wish[e]
      /\ faults'[e] = faults[e] /\ Held(e)' = Held(e) /\ Kept(e)' = Kept(e)
  BY DEF Observed, Idle, Held, Kept
<1>3. CASE plan'[e] = plan[e]
  BY <1>1, <1>2, <1>3, SameKeeps DEF Same
<1>4. CASE StandsDown(e, now) /\ plan'[e] = stand_down_plan(e, to)
  <2>1. to \in 1 .. N
    BY <1>4, StandDownNames
  <2>2. plan'[e] = RecordRest(to, Kept(e).auto, Kept(e).lockdown)
    BY <1>4 DEF stand_down_plan, RecordRest, Kept
  <2>3. Recording(e)'
    BY <1>2, <2>1, <2>2 DEF Recording
  <2>4. KeptIsWish(e)' /\ PlanInv(e)' /\ ProcessInv(e)'
    BY <1>1, <1>2, <2>3 DEF EnvInv, KeptIsWish, PlanInv, ProcessInv
  <2>5. DownInv(e)'
    BY <1>1, <1>2, RestsDiffer DEF EnvInv, DownInv
  <2>6. SealInv(e)'
    BY <1>1, <1>2 DEF EnvInv, SealInv
  <2> QED  BY <2>4, <2>5, <2>6 DEF EnvInv
<1> QED  BY <1>3, <1>4 DEF Observed, ArbitrationInv, TypeOK

LEMMA WatchKeeps ==
    ASSUME ArbitrationInv, NEW e \in Envs, NEW f \in Outranking(e),
           Watches(e, f) \/ ReadsFirst(e, f) \/ ProbeFails(e, f)
    PROVE  EnvInv(e)'
<1>1. CASE Subscribe(e, f)
  BY <1>1, SameKeeps DEF Subscribe, Same, ArbitrationInv
<1>2. CASE \E state : Observed(e, f, state)
  BY <1>2, ObservedKeeps
<1> QED  BY <1>1, <1>2 DEF Watches, Follow, ReadsFirst, Connects, Hear, StreamEnds, ProbeFails,
            Loses

\* An end cuts a plan short, and leaves no block of a daemon that has yielded.
LEMMA EndKeeps ==
    ASSUME ArbitrationInv, NEW e \in Envs, Shutdown(e) \/ Crash(e)
    PROVE  EnvInv(e)'
<1>1. EnvInv(e)
  BY DEF ArbitrationInv
<1>2. /\ up'[e] = FALSE /\ plan'[e] = <<>> /\ settings'[e] = settings[e] /\ wish'[e] = wish[e]
      /\ faults'[e] = (faults[e] \ {"Dropped"}) \cup (IF plan[e] # <<>> THEN {"Torn"} ELSE {})
      /\ leftover'[e] => ~Held(e)
      /\ Held(e)' = Held(e) /\ Kept(e)' = Kept(e)
  BY DEF Shutdown, Crash, Ends, ArbitrationInv, TypeOK, may_assert_machine, Held, Kept
<1>3. KeptIsWish(e)' /\ PlanInv(e)' /\ ProcessInv(e)' /\ DownInv(e)'
  BY <1>1, <1>2 DEF EnvInv, KeptIsWish, PlanInv, ProcessInv, DownInv
<1>4. SealInv(e)'
  BY <1>1, <1>2 DEF EnvInv, SealInv
<1> QED  BY <1>3, <1>4 DEF EnvInv

LEMMA StartKeeps ==
    ASSUME ArbitrationInv, NEW e \in Envs, Start(e)
    PROVE  EnvInv(e)'
<1>1. EnvInv(e)
  BY DEF ArbitrationInv
<1>2. /\ ~up[e] /\ up'[e] = TRUE /\ plan'[e] = plan[e] /\ settings'[e] = settings[e]
      /\ wish'[e] = wish[e] /\ faults'[e] = faults[e] /\ leftover'[e] = FALSE
      /\ Held(e) => target'[e] = "Unsecured"
      /\ Held(e)' = Held(e) /\ Kept(e)' = Kept(e)
  BY DEF Start, ArbitrationInv, TypeOK, may_assert_machine, Held, Kept
<1>3. KeptIsWish(e)' /\ PlanInv(e)' /\ ProcessInv(e)' /\ DownInv(e)'
  BY <1>1, <1>2 DEF EnvInv, KeptIsWish, PlanInv, ProcessInv, DownInv
<1>4. SealInv(e)'
  BY <1>1, <1>2 DEF EnvInv, SealInv, ProcessInv
<1> QED  BY <1>3, <1>4 DEF EnvInv

LEMMA OwnStepKeeps ==
    ASSUME ArbitrationInv, NEW e \in Envs, Step(e)
    PROVE  EnvInv(e)'
<1>1. CASE TunnelFollows(e)
  BY <1>1, SameKeeps DEF TunnelFollows, Same, ArbitrationInv
<1> QED  BY <1>1, TargetKeeps, SettingKeeps, ClearKeeps, WatchKeeps, PlanStepKeeps,
            WriteFailsKeeps, EndKeeps, StartKeeps DEF Step

-----------------------------------------------------------------------------
(***************************************************************************)
(* Types.                                                                  *)
(***************************************************************************)
Phases == {"Off", "Read", "On", "Lost"}

\* What a plan has left is no longer than the longest plan.
LEMMA PlanLength ==
    ASSUME NEW rest,
           \/ rest \in {<<>>, DisconnectRest, DisarmRest, DisableRest, ClearRest}
           \/ \E auto : rest = AutoRest(auto)
           \/ \E auto, lockdown : rest = RestoreRest(auto, lockdown)
           \/ \E to, auto, lockdown : rest = RecordRest(to, auto, lockdown)
    PROVE  Len(rest) <= 4
<1>1. /\ Len(DisableRest) = 1 /\ Len(DisarmRest) = 2 /\ Len(DisconnectRest) = 3
      /\ Len(ClearRest) = 1 /\ \A auto : Len(AutoRest(auto)) = 2
      /\ \A auto, lockdown : Len(RestoreRest(auto, lockdown)) = 3
      /\ \A to, auto, lockdown : Len(RecordRest(to, auto, lockdown)) = 4
  BY DEF DisableRest, DisarmRest, DisconnectRest, RecordRest, ClearRest, AutoRest, RestoreRest
<1>2. Len(<<>>) = 0
  OBVIOUS
<1>3. Len(rest) \in {0, 1, 2, 3, 4}
  BY <1>1, <1>2, Zenon
<1>4. \A n \in {0, 1, 2, 3, 4} : n <= 4
  OBVIOUS
<1> QED  BY <1>3, <1>4, Zenon

LEMMA StateType ==
    ASSUME TypeOK, NEW f \in Envs
    PROVE  State(f) \in States
BY DEF TypeOK, State, States

\* What is not the watcher's has its type after every step.
LEMMA SettingsTypeStep ==
    ASSUME ArbitrationInv, NEW e \in Envs, Step(e)
    PROVE  /\ up' \in [Envs -> BOOLEAN] /\ leftover' \in [Envs -> BOOLEAN]
           /\ faults' \in [Envs -> SUBSET {"Torn", "Lost", "Dropped"}]
           /\ wish' \in [Envs -> [auto : BOOLEAN, lockdown : BOOLEAN]]
           /\ settings' \in [Envs -> Settings]
           /\ target' \in [Envs -> {"Secured", "Unsecured"}]
           /\ tunnel' \in [Envs -> {"Up", "Down"}]
           /\ plan' = [g \in Envs |-> plan'[g]]
           /\ changes' \in 0 .. MaxChanges
<1> USE DEF ArbitrationInv, TypeOK
<1>1. settings \in [Envs -> Settings] /\ changes \in Nat
  BY ChangesAssumption DEF Settings
<1>2. ASSUME Change PROVE changes' \in 0 .. MaxChanges
  BY <1>1, <1>2, ChangesAssumption DEF Change
<1>3. CASE \E new \in {"Secured", "Unsecured"} : SetTargetState(e, new)
  BY <1>1, <1>2, <1>3 DEF SetTargetState
<1>4. CASE SetLockdownMode(e) \/ SetAutoConnect(e)
  <2>1. PICK new \in {[settings[e] EXCEPT !.lockdown = ~@], [settings[e] EXCEPT !.auto = ~@]} :
           ChangeSetting(e, new)
    BY <1>4 DEF SetLockdownMode, SetAutoConnect
  <2>2. new \in Settings /\ new.auto \in BOOLEAN /\ new.lockdown \in BOOLEAN
    BY <1>1 DEF Settings
  <2> QED  BY <1>1, <1>2, <2>1, <2>2 DEF ChangeSetting
<1>5. CASE ClearEnvYield(e)
  BY <1>1, <1>2, <1>5 DEF ClearEnvYield
<1>6. CASE \E f \in Outranking(e) : Watches(e, f) \/ ReadsFirst(e, f) \/ ProbeFails(e, f)
  <2>1. PICK f \in Outranking(e) : Watches(e, f) \/ ReadsFirst(e, f) \/ ProbeFails(e, f)
    BY <1>6
  <2>2. changes' \in 0 .. MaxChanges
    BY <1>1, <1>2, <2>1 DEF Watches, Follow, Subscribe, Hear, StreamEnds, ReadsFirst, ProbeFails
  <2>3. CASE Subscribe(e, f)
    BY <1>1, <2>2, <2>3 DEF Subscribe
  <2>4. CASE \E state : Observed(e, f, state)
    BY <1>1, <2>2, <2>4 DEF Observed
  <2> QED  BY <2>1, <2>3, <2>4 DEF Watches, Follow, ReadsFirst, Connects, Hear, StreamEnds,
              ProbeFails, Loses
<1>7. CASE PlanStep(e)
  <2>1. plan[e] # <<>> /\ settings' = [settings EXCEPT ![e] = Written(e, Head(plan[e]))]
    BY <1>7 DEF PlanStep
  <2>2. settings' \in [Envs -> Settings]
    BY <1>1, <2>1, WrittenType
  <2> QED  BY <1>1, <1>7, <2>2 DEF PlanStep
<1>8. CASE WriteFails(e)
  <2> DEFINE step == Head(plan[e])
  <2>1. faults' = [faults EXCEPT ![e] = @ \cup
                {CASE step.do = "RecordYield" -> "Dropped"
                   [] step.do \in {"RestoreLockdown", "RestoreAutoConnect"} -> "Lost"
                   [] OTHER -> "Torn"}]
    BY <1>8 DEF WriteFails
  <2>2. (CASE step.do = "RecordYield" -> "Dropped"
           [] step.do \in {"RestoreLockdown", "RestoreAutoConnect"} -> "Lost"
           [] OTHER -> "Torn") \in {"Torn", "Lost", "Dropped"}
    <3>1. CASE step.do = "RecordYield"
      BY <3>1
    <3>2. CASE step.do \in {"RestoreLockdown", "RestoreAutoConnect"}
      BY <3>2
    <3>3. CASE step.do \notin {"RecordYield", "RestoreLockdown", "RestoreAutoConnect"}
      BY <3>3
    <3> QED  BY <3>1, <3>2, <3>3
  <2>3. faults' \in [Envs -> SUBSET {"Torn", "Lost", "Dropped"}]
    BY <2>1, <2>2
  <2> QED  BY <1>1, <1>2, <1>8, <2>3 DEF WriteFails
<1>9. CASE TunnelFollows(e)
  BY <1>1, <1>9 DEF TunnelFollows
<1>10. CASE Shutdown(e)
  BY <1>1, <1>2, <1>10 DEF Shutdown, Ends, may_assert_machine, Held
<1>11. CASE Crash(e)
  BY <1>1, <1>2, <1>11 DEF Crash, Ends
<1>12. CASE Start(e)
  BY <1>1, <1>12 DEF Start
<1> QED  BY <1>3, <1>4, <1>5, <1>6, <1>7, <1>8, <1>9, <1>10, <1>11, <1>12 DEF Step

\* An event carries a field of a state, and keeps what was seen of the others.
LEMMA FieldType ==
    ASSUME TypeOK, NEW f \in Envs, NEW state \in States, state.known,
           NEW field \in {"up", "lockdown"}
    PROVE  /\ State(f)[field] \in BOOLEAN
           /\ [state EXCEPT ![field] = State(f)[field]] \in States
           /\ [state EXCEPT ![field] = State(f)[field]].known
<1>1. State(f).up \in BOOLEAN /\ State(f).lockdown \in BOOLEAN
  BY DEF TypeOK, State
<1>2. State(f)[field] \in BOOLEAN
  BY <1>1
<1>3. state \in [known : {TRUE}, up : BOOLEAN, lockdown : BOOLEAN]
  <2>1. ~NoState.known
    BY DEF NoState
  <2>2. state # NoState
    BY <2>1, Zenon
  <2> QED  BY <2>2 DEF States
<1>4. [state EXCEPT ![field] = State(f)[field]] \in [known : {TRUE}, up : BOOLEAN,
                                                      lockdown : BOOLEAN]
  <2>1. CASE field = "up"
    BY <1>2, <1>3, <2>1
  <2>2. CASE field = "lockdown"
    BY <1>2, <1>3, <2>2
  <2> QED  BY <2>1, <2>2
<1> QED  BY <1>2, <1>4 DEF States

Watchers == [Envs -> [phase : Phases, heard : States]]

\* One entry of what e has seen and of its watcher is replaced.
LEMMA EntryKeeps ==
    ASSUME ArbitrationInv, NEW e \in Envs, NEW f \in Envs, NEW state \in States,
           NEW entry \in [phase : Phases, heard : States],
           entry.phase \in {"Read", "On"} => state.known /\ entry.heard.known,
           seen' = [seen EXCEPT ![e] = [seen[e] EXCEPT ![f] = state]],
           watch' = [watch EXCEPT ![e] = [watch[e] EXCEPT ![f] = entry]]
    PROVE  /\ seen' \in [Envs -> [Envs -> States]] /\ watch' \in [Envs -> Watchers]
           /\ \A g \in Envs : WatchInv(g)'
<1>1. seen \in [Envs -> [Envs -> States]] /\ watch \in [Envs -> Watchers]
  BY DEF ArbitrationInv, TypeOK, Watchers, Phases
<1>2. seen' \in [Envs -> [Envs -> States]] /\ watch' \in [Envs -> Watchers]
  BY <1>1 DEF Watchers
<1>3. ASSUME NEW g \in Envs, NEW h \in Envs, watch'[g][h].phase \in {"Read", "On"}
      PROVE  seen'[g][h].known /\ watch'[g][h].heard.known
  <2>1. CASE g = e /\ h = f
    <3>1. seen'[g][h] = state /\ watch'[g][h] = entry
      BY <1>1, <2>1 DEF Watchers
    <3> QED  BY <1>3, <3>1
  <2>2. CASE ~(g = e /\ h = f)
    <3>1. seen'[g][h] = seen[g][h] /\ watch'[g][h] = watch[g][h]
      BY <1>1, <2>2 DEF Watchers
    <3> QED  BY <1>3, <3>1 DEF ArbitrationInv, WatchInv
  <2> QED  BY <2>1, <2>2
<1> QED  BY <1>2, <1>3 DEF WatchInv

LEMMA WatchStep ==
    ASSUME ArbitrationInv, NEW e \in Envs, Step(e)
    PROVE  /\ seen' \in [Envs -> [Envs -> States]] /\ watch' \in [Envs -> Watchers]
           /\ \A g \in Envs : WatchInv(g)'
<1>1. seen \in [Envs -> [Envs -> States]] /\ watch \in [Envs -> Watchers] /\ TypeOK
  BY DEF ArbitrationInv, TypeOK, Watchers, Phases
<1>2. CASE seen' = seen /\ watch' = watch
  BY <1>1, <1>2 DEF ArbitrationInv, WatchInv
<1>3. ASSUME NEW f \in Outranking(e), Watches(e, f) \/ ReadsFirst(e, f) \/ ProbeFails(e, f)
      PROVE  /\ seen' \in [Envs -> [Envs -> States]] /\ watch' \in [Envs -> Watchers]
             /\ \A g \in Envs : WatchInv(g)'
  <2>1. f \in Envs /\ NoState \in States
    BY EnvsAssumption DEF Outranking, Envs, States
  <2>2. State(f) \in States /\ State(f).known
    BY <1>1, <2>1, StateType DEF State
  <2>3. ASSUME NEW phase \in {"Read", "On"}, Connects(e, f, phase)
        PROVE  /\ seen' \in [Envs -> [Envs -> States]] /\ watch' \in [Envs -> Watchers]
               /\ \A g \in Envs : WatchInv(g)'
    <3> DEFINE entry == [phase |-> phase, heard |-> State(f)]
    <3>1. /\ seen' = [seen EXCEPT ![e] = [seen[e] EXCEPT ![f] = State(f)]]
          /\ watch' = [watch EXCEPT ![e] = [watch[e] EXCEPT ![f] = entry]]
      BY <2>3 DEF Connects, Observed
    <3>2. entry \in [phase : Phases, heard : States] /\ entry.heard.known
      BY <2>2 DEF Phases
    <3> HIDE DEF entry
    <3> QED  BY <2>1, <2>2, <3>1, <3>2, EntryKeeps
  <2>4. CASE Subscribe(e, f)
    <3> DEFINE entry == [phase |-> "On", heard |-> State(f)]
    <3>1. /\ seen' = [seen EXCEPT ![e] = [seen[e] EXCEPT ![f] = seen[e][f]]]
          /\ watch' = [watch EXCEPT ![e] = [watch[e] EXCEPT ![f] = entry]]
      BY <1>1, <2>1, <2>4 DEF Subscribe
    <3>2. seen[e][f] \in States /\ seen[e][f].known
      BY <1>1, <2>1, <2>4 DEF Subscribe, ArbitrationInv, WatchInv
    <3>3. entry \in [phase : Phases, heard : States] /\ entry.heard.known
      BY <2>2 DEF Phases
    <3> HIDE DEF entry
    <3> QED  BY <2>1, <3>1, <3>2, <3>3, EntryKeeps
  <2>5. CASE Hear(e, f)
    <3>1. PICK field \in {"up", "lockdown"} :
             /\ watch' = [watch EXCEPT ![e][f].heard[field] = State(f)[field]]
             /\ Observed(e, f, [seen[e][f] EXCEPT ![field] = State(f)[field]])
      BY <2>5 DEF Hear
    <3> DEFINE state == [seen[e][f] EXCEPT ![field] = State(f)[field]]
               entry == [watch[e][f] EXCEPT !.heard =
                            [watch[e][f].heard EXCEPT ![field] = State(f)[field]]]
    <3>2. /\ watch[e][f] \in [phase : Phases, heard : States] /\ watch[e][f].phase = "On"
          /\ seen[e][f] \in States /\ seen[e][f].known /\ watch[e][f].heard.known
      BY <1>1, <2>1, <2>5 DEF Hear, ArbitrationInv, WatchInv, Watchers
    <3>3. /\ seen' = [seen EXCEPT ![e] = [seen[e] EXCEPT ![f] = state]]
          /\ watch' = [watch EXCEPT ![e] = [watch[e] EXCEPT ![f] = entry]]
      BY <3>1 DEF Observed
    <3>4. state \in States /\ state.known
      BY <1>1, <2>1, <3>2, FieldType
    <3>5. /\ [watch[e][f].heard EXCEPT ![field] = State(f)[field]] \in States
          /\ [watch[e][f].heard EXCEPT ![field] = State(f)[field]].known
      BY <1>1, <2>1, <3>2, FieldType
    <3>6. entry \in [phase : Phases, heard : States] /\ entry.heard.known
      BY <3>2, <3>5
    <3> HIDE DEF entry, state
    <3> QED  BY <2>1, <3>3, <3>4, <3>6, EntryKeeps
  <2>6. CASE Loses(e, f)
    <3>1. /\ seen' = [seen EXCEPT ![e] = [seen[e] EXCEPT ![f] = NoState]]
          /\ watch' = [watch EXCEPT ![e] = [watch[e] EXCEPT ![f] = NoWatch[f]]]
      BY <2>6 DEF Loses, Observed
    <3>2. NoWatch[f] \in [phase : Phases, heard : States] /\ NoWatch[f].phase = "Off"
      BY <2>1 DEF NoWatch, Phases
    <3> QED  BY <2>1, <3>1, <3>2, EntryKeeps
  <2> QED  BY <1>3, <2>3, <2>4, <2>5, <2>6 DEF Watches, Follow, ReadsFirst, StreamEnds, ProbeFails
<1>4. ASSUME NEW block, Ends(e, block)
      PROVE  /\ seen' \in [Envs -> [Envs -> States]] /\ watch' \in [Envs -> Watchers]
             /\ \A g \in Envs : WatchInv(g)'
  <2>1. NoWatch \in Watchers /\ seed_observations \in [Envs -> States]
    BY DEF NoWatch, Watchers, Phases, States, seed_observations
  <2>2. seen' \in [Envs -> [Envs -> States]]
    BY <1>1, <1>4, <2>1 DEF Ends
  <2>3. ASSUME NEW g \in Envs, g # e
        PROVE  /\ watch'[g] \in Watchers /\ seen'[g] = seen[g]
               /\ \A h \in Envs : h # e => watch'[g][h] = watch[g][h]
               /\ watch'[g][e].phase \in {"Off", "Lost"}
    <3>1. seen'[g] = seen[g]
      BY <1>1, <1>4, <2>3 DEF Ends
    <3>2. watch'[g] = [watch[g] EXCEPT ![e].phase = IF @ = "Off" THEN @ ELSE "Lost"]
      BY <1>4, <2>3 DEF Ends
    <3>3. watch[g] \in Watchers
      BY <1>1
    <3> QED  BY <3>1, <3>2, <3>3 DEF Watchers, Phases
  <2>4. watch'[e] = NoWatch
    BY <1>4 DEF Ends
  <2>5. watch' \in [Envs -> Watchers]
    <3>1. watch' = [g \in Envs |-> watch'[g]]
      BY <1>4 DEF Ends
    <3> QED  BY <2>1, <2>3, <2>4, <3>1
  <2>6. WatchInv(e)'
    BY <2>4 DEF WatchInv, NoWatch
  <2>7. ASSUME NEW g \in Envs, g # e PROVE WatchInv(g)'
    BY <2>3, <2>7 DEF WatchInv, ArbitrationInv
  <2> QED  BY <2>2, <2>5, <2>6, <2>7
<1>5. CASE Shutdown(e) \/ Crash(e)
  BY <1>4, <1>5 DEF Shutdown, Crash
<1> QED  BY <1>2, <1>3, <1>5 DEF Step, SetTargetState, SetLockdownMode, SetAutoConnect,
            ChangeSetting, ClearEnvYield, PlanStep, WriteFails, TunnelFollows, Start

-----------------------------------------------------------------------------
(***************************************************************************)
(* The theorems.                                                           *)
(***************************************************************************)
LEMMA ArbitrationInit ==
    ASSUME Init
    PROVE  ArbitrationInv
<1>1. NoYield \in [to : 0 .. N, auto : BOOLEAN, lockdown : BOOLEAN]
  BY EnvsAssumption DEF NoYield
<1>2. wish \in [Envs -> [auto : BOOLEAN, lockdown : BOOLEAN]]
  BY SettingsAssumption DEF Init
<1>3. TypeOK
  <2>1. settings \in [Envs -> Settings]
    BY <1>1, <1>2 DEF Init, Settings
  <2>2. seen \in [Envs -> [Envs -> States]] /\ watch \in [Envs -> Watchers]
    BY DEF Init, NoWatch, Watchers, Phases, States, seed_observations
  <2>3. \A e \in Envs : Len(plan[e]) <= 4
    BY DEF Init
  <2> QED  BY <1>2, <2>1, <2>2, <2>3, ChangesAssumption
           DEF Init, TypeOK, Settings, Watchers, Phases
<1>4. ASSUME NEW e \in Envs PROVE EnvInv(e) /\ WatchInv(e)
  <2>1. settings[e].yield = NoYield /\ settings[e].auto = wish[e].auto
        /\ settings[e].lockdown = wish[e].lockdown /\ plan[e] = <<>> /\ ~leftover[e]
    BY DEF Init
  <2>2. ~Held(e)
    BY <2>1 DEF Held
  <2>3. WatchInv(e)
    BY DEF Init, WatchInv, NoWatch
  <2> QED  BY <2>1, <2>2, <2>3 DEF EnvInv, KeptIsWish, Kept, PlanInv, ProcessInv, DownInv, SealInv
<1> QED  BY <1>3, <1>4 DEF ArbitrationInv, Init

LEMMA ArbitrationStep ==
    ASSUME ArbitrationInv, [Next]_vars
    PROVE  ArbitrationInv'
<1>1. CASE UNCHANGED vars
  BY <1>1 DEF ArbitrationInv, TypeOK, EnvInv, KeptIsWish, Kept, PlanInv, ProcessInv, DownInv,
              SealInv, Recording, Held, WatchInv, vars
<1>2. CASE Next
  <2>1. PICK d \in Envs : Step(d)
    BY <1>2 DEF Next, Step
  <2>2. ASSUME NEW e \in Envs PROVE EnvInv(e)' /\ WatchInv(e)'
    <3>1. EnvInv(e)
      BY DEF ArbitrationInv
    <3> QED  BY <2>1, <3>1, OwnStepKeeps, OthersStaySame, SameKeeps, WatchStep
  <2>3. ASSUME NEW e \in Envs PROVE Len(plan'[e]) <= 4
    <3>1. PlanInv(e)'
      BY <2>2 DEF EnvInv
    <3>2. \/ plan'[e] \in {<<>>, DisconnectRest, DisarmRest, DisableRest, ClearRest}
          \/ \E auto : plan'[e] = AutoRest(auto)
          \/ \E auto, lockdown : plan'[e] = RestoreRest(auto, lockdown)
          \/ \E to, auto, lockdown : plan'[e] = RecordRest(to, auto, lockdown)
      BY <3>1, Zenon DEF PlanInv, Recording
    <3> QED  BY <3>2, PlanLength
  <2>4. TypeOK'
    BY <2>1, <2>3, SettingsTypeStep, WatchStep DEF TypeOK, Settings, Watchers, Phases
  <2> QED  BY <2>1, <2>2, <2>4, SettingsTypeStep DEF ArbitrationInv
<1> QED  BY <1>1, <1>2

\* The inductive invariant: every plan is a rest of a stand-down or of a
\* re-enable, and what its earlier steps did still stands.
THEOREM Arbitration == Spec => []ArbitrationInv
<1>1. Init => ArbitrationInv
  BY ArbitrationInit
<1>2. ArbitrationInv /\ [Next]_vars => ArbitrationInv'
  BY ArbitrationStep
<1> QED  BY <1>1, <1>2, PTL DEF Spec

\* A user's settings are never lost, but by a failed write of a re-enable
\* (stand_down_for and on_clear_env_yield in the daemon), for every number of
\* environments and every number of crashes and failures.
THEOREM WishIsKept == Spec => []WishKept
<1>1. ArbitrationInv => WishKept
  BY DEF ArbitrationInv, EnvInv, KeptIsWish, Kept, WishKept
<1> QED  BY <1>1, Arbitration, PTL

\* A daemon that has stood down does not want the tunnel again by itself, and
\* its shutdown leaves no block.
THEOREM StoodDown == Spec => []StoodDownStaysDown
<1>1. ArbitrationInv => StoodDownStaysDown
  <2> SUFFICES ASSUME ArbitrationInv, NEW e \in Envs, Held(e)
               PROVE  (Idle(e) => target[e] = "Unsecured") /\ ~leftover[e]
    BY DEF StoodDownStaysDown
  <2> QED  BY RestsDiffer DEF ArbitrationInv, EnvInv, DownInv, ProcessInv, Idle
<1> QED  BY <1>1, Arbitration, PTL

\* A daemon that refuses to connect and still blocks the machine is what a crash
\* or a failed write made of a plan, and nothing else.
THEOREM SealedByFault == Spec => []SealedOnlyByFault
<1>1. ArbitrationInv => SealedOnlyByFault
  BY DEF ArbitrationInv, EnvInv, SealInv, SealedOnlyByFault, Idle
<1> QED  BY <1>1, Arbitration, PTL

\* Every variable of the arbitration keeps its type.
THEOREM ArbitrationTypes == Spec => []TypeOK
<1>1. ArbitrationInv => TypeOK
  BY DEF ArbitrationInv
<1> QED  BY <1>1, Arbitration, PTL
===============================================================================
