------------------------- MODULE PortForwardingProofs -------------------------
(***************************************************************************)
(* Proofs about the forwarded ports, for every finite set of rules, every  *)
(* number of tunnels and every bound of the worlds.                        *)
(*                                                                         *)
(* Four invariants are proved, each from facts about what a controller is  *)
(* in the middle of: which of its rules it awaits, which rules it is still *)
(* to look at, and which of its signals are of a loop that was replaced.   *)
(***************************************************************************)
EXTENDS PortForwarding, TLAPS, FiniteSetTheorems, SequenceTheorems, WellFoundedInduction

Shapes == {"Off", "On", "Remapped"}
Signals == [rule : Rules, claim : Nat, gen : Nat, kind : {"Granted", "Refused"}]
Lates == [t : Tunnels, rule : Rules, claim : Nat, gen : Nat, event : Events]
Types ==
    /\ TypeOK /\ claims \in Nat /\ refusals \in Nat
    /\ signals \in [Tunnels -> Seq(Signals)]
    /\ late \subseteq Lates
    /\ slips \subseteq {"LateForwarder", "CutOff", "Readded", "Overrun", "Coalesced"}

\* A claim has one manager.
ClaimInv ==
    \A t, u \in Tunnels, r, q \in Rules :
       Has(t, r) /\ mgr[t][r].claim = mgr[u][q].claim => t = u /\ r = q

\* A tunnel that is not there yet has no controller, and one that is gone has none
\* any more, unless both waits of its teardown ran out.
TunnelInv ==
    /\ phase # "Down" => cur > 0
    /\ \A t \in Tunnels :
       /\ t > cur => ctl[t].job = "Idle"
       /\ ("Overrun" \notin slips /\ (t < cur \/ (t = cur /\ phase = "Down")))
             => ctl[t].job = "Dead"

\* What a controller is doing to the manager of a rule.
ManagerInv ==
    \A t \in Tunnels, r \in Rules :
       /\ mgr[t][r].loop # "None" => Has(t, r)
       /\ r \in ctl[t].at => mgr[t][r].loop = "None" /\ (Has(t, r) \/ mgr[t][r].removed)
       /\ ctl[t].job = "Retry" /\ r \in ctl[t].todo => InMap(t, r)
       /\ ctl[t].job \in {"Idle", "Select"} => r \notin ctl[t].at
       /\ ctl[t].job = "Drain" => ~InMap(t, r)
       /\ ctl[t].job \in {"Idle", "Dead"} => ~Has(t, r)
       /\ ctl[t].job = "Reconcile" /\ r \in ctl[t].at /\ InMap(t, r) => ctl[t].cfg[r] # "Off"

\* A signal is of a loop there was: one that was replaced, or one that has ended.
OfItsLoop(s, m, top) ==
    /\ s.claim <= top
    /\ (m.claim # 0 /\ ~m.removed /\ s.claim = m.claim) =>
          s.gen <= m.gen /\ (s.gen = m.gen /\ s.kind = "Refused" => m.loop = "Ended")
SignalInv ==
    slips \cap {"LateForwarder", "Readded"} = {} =>
       \A t \in Tunnels : \A i \in 1 .. Len(signals[t]) :
          OfItsLoop(signals[t][i], mgr[t][signals[t][i].rule], claims)

\* The controller of the present tunnel knows what is wanted, or will.
ConfigInv ==
    /\ \A r \in Rules : pushed[r] = "Off" <=> stored[r] = "Off"
    /\ (phase = "Up" /\ ~ctl[cur].changed /\ ctl[cur].job \in {"Idle", "Reconcile"})
          => \A r \in Rules : ctl[cur].cfg[r] = "Off" <=> stored[r] = "Off"

\* A rule of the present tunnel that is no longer wanted is about to go, and one
\* that is wanted and granted is shown once the daemon's preset is over.
LiveInv ==
    phase = "Up" =>
       \A r \in Rules : InMap(cur, r) =>
          /\ stored[r] = "Off" =>
                \/ ctl[cur].changed
                \/ ctl[cur].job = "Reconcile" /\ ctl[cur].cfg[r] = "Off" /\ r \in ctl[cur].todo
          /\ (mgr[cur][r].loop = "Mapped" /\ stored[r] = "On" /\ status[r] = "None"
                /\ "Overrun" \notin slips) => preset

PortInv ==
    /\ Types /\ ClaimInv /\ TunnelInv /\ ManagerInv /\ SignalInv /\ ConfigInv /\ LiveInv
    /\ RowHasItsManager /\ RetryIsOfItsLoop /\ SlotIsItsHolders

-----------------------------------------------------------------------------
(***************************************************************************)
(* Values.                                                                 *)
(***************************************************************************)
Managers(top) ==
    [claim : 0 .. top, slot : Slots, gen : Nat, live : BOOLEAN, retry : BOOLEAN,
     loop : {"None", "Asking", "Mapped", "Ended"}, ver : Shapes, removed : BOOLEAN]
Controllers ==
    [job : {"Idle", "Select", "Reconcile", "Retry", "Drain", "Dead"}, cfg : Configs,
     todo : SUBSET Rules, at : SUBSET Rules, changed : BOOLEAN]

LEMMA TypesOf ==
    ASSUME Types
    PROVE  /\ mgr \in [Tunnels -> [Rules -> Managers(claims)]]
           /\ ctl \in [Tunnels -> Controllers]
           /\ \A t \in Tunnels, r \in Rules :
                 mgr[t][r] \in Managers(claims)
           /\ \A t \in Tunnels : ctl[t] \in Controllers
BY DEF Types, TypeOK, Managers, Controllers, Shapes

LEMMA SlotsType == Cardinality(Rules) \in Nat /\ (Rules # {} => 0 \in Slots)
<1>1. Cardinality(Rules) \in Nat
  BY RulesAssumption, FS_CardinalityType
<1>2. Rules # {} => Cardinality(Rules) # 0
  BY RulesAssumption, FS_EmptySet
<1> QED  BY <1>1, <1>2 DEF Slots

LEMMA BlankTypes ==
    /\ NoController \in Controllers /\ Dead \in Controllers
    /\ Rules # {} => \A top \in Nat : NoManager \in Managers(top)
    /\ NoManager.claim = 0 /\ NoManager.loop = "None" /\ ~NoManager.retry /\ ~NoManager.removed
    /\ Dead.job = "Dead" /\ Dead.at = {} /\ NoController.at = {} /\ NoController.job = "Idle"
<1>1. [r \in Rules |-> "Off"] \in Configs
  BY DEF Configs
<1>2. NoController \in Controllers /\ Dead \in Controllers
  BY <1>1 DEF NoController, Dead, Controllers
<1> QED  BY <1>2, SlotsType DEF NoManager, Managers, Shapes, NoController, Dead

\* The manager of rule r becomes m, and the others stay.
Put(t, r, m) ==
    /\ mgr'[t][r] = m
    /\ \A u \in Tunnels, q \in Rules : (u = t /\ q = r) \/ mgr'[u][q] = mgr[u][q]
\* The controller of tunnel t becomes c, and the others stay.
PutCtl(t, c) ==
    /\ ctl'[t] = c
    /\ \A u \in Tunnels : u = t \/ ctl'[u] = ctl[u]

LEMMA PutManager ==
    ASSUME Types, NEW t \in Tunnels, NEW r \in Rules, NEW m,
           mgr' = [mgr EXCEPT ![t] = [mgr[t] EXCEPT ![r] = m]]
    PROVE  /\ Put(t, r, m)
           /\ \A top \in Nat : (m \in Managers(top) /\ claims <= top)
                                   => mgr' \in [Tunnels -> [Rules -> Managers(top)]]
<1>1. mgr \in [Tunnels -> [Rules -> Managers(claims)]] /\ claims \in Nat
  BY TypesOf DEF Types
<1>2. ASSUME NEW top \in Nat, claims <= top
      PROVE  mgr \in [Tunnels -> [Rules -> Managers(top)]]
  BY <1>1, <1>2 DEF Managers
<1> HIDE DEF Managers
<1> QED  BY <1>1, <1>2 DEF Put

-----------------------------------------------------------------------------
(***************************************************************************)
(* Slots.                                                                  *)
(***************************************************************************)
LEMMA LeastOfNaturals ==
    ASSUME NEW T, T \subseteq Nat, T # {}
    PROVE  \E x \in T : \A y \in T : x <= y
<1>1. \E x \in T : \A y \in T : ~(<<y, x>> \in OpToRel(<, Nat))
  BY WFMin, NatLessThanWellFounded, Zenon
<1>2. \A x, y \in Nat : <<y, x>> \notin OpToRel(<, Nat) => x <= y
  BY DEF OpToRel
<1> QED  BY <1>1, <1>2, Zenon

\* A rule that has no slot finds one, which no other rule of its tunnel has: there
\* are as many slots as rules.
LEMMA FreeSlot ==
    ASSUME Types, NEW t \in Tunnels, NEW r \in Rules, ~InMap(t, r)
    PROVE  /\ lowest_free_slot(t) \in Slots
           /\ \A q \in Rules : InMap(t, q) => mgr[t][q].slot # lowest_free_slot(t)
<1> DEFINE there == {q \in Rules : InMap(t, q)}
           free == Slots \ Taken(t)
<1>1. Cardinality(Rules) \in Nat /\ Slots \subseteq Nat
  BY SlotsType DEF Slots
<1>2. /\ IsFiniteSet(Rules \ {r}) /\ Cardinality(Rules \ {r}) = Cardinality(Rules) - 1
  BY RulesAssumption, FS_RemoveElement
<1>3. there \in SUBSET (Rules \ {r})
  OBVIOUS
<1>4. IsFiniteSet(there) /\ Cardinality(there) <= Cardinality(Rules) - 1
  BY <1>2, <1>3, FS_Subset
<1>5. Cardinality(Rules) # 0
  BY RulesAssumption, FS_EmptySet
<1>6. IsFiniteSet(Slots) /\ Cardinality(Slots) = Cardinality(Rules)
  <2>1. 0 \in Int /\ Cardinality(Rules) - 1 \in Int /\ ~(0 > Cardinality(Rules) - 1)
    BY <1>1, <1>5
  <2> QED  BY <1>1, <2>1, FS_Interval DEF Slots
<1>7. free # {}
  <2> SUFFICES ASSUME \A slot \in Slots : \E q \in there : mgr[t][q].slot = slot
               PROVE  FALSE
    BY DEF Taken
  <2> DEFINE owner == [slot \in Slots |-> CHOOSE q \in there : mgr[t][q].slot = slot]
  <2>1. \A slot \in Slots : owner[slot] \in there /\ mgr[t][owner[slot]].slot = slot
    OBVIOUS
  <2>2. owner \in [Slots -> there]
    BY <2>1
  <2>3. Cardinality(there) \in Nat
    BY <1>4, FS_CardinalityType
  <2>4. Cardinality(there) < Cardinality(Slots)
    BY <1>1, <1>4, <1>5, <1>6, <2>3
  <2> HIDE DEF owner, there
  <2>5. \E x, y \in Slots : x # y /\ owner[x] = owner[y]
    BY <1>4, <1>6, <2>2, <2>4, FS_PigeonHole
  <2> QED  BY <2>1, <2>5
<1>8. \E x \in free : \A y \in free : x <= y
  BY <1>1, <1>7, LeastOfNaturals
<1>9. lowest_free_slot(t) \in free
  <2> HIDE DEF free
  <2>1. (CHOOSE x \in free : \A y \in free : x <= y) \in free
    BY <1>8
  <2> QED  BY <2>1 DEF lowest_free_slot, free
<1> QED  BY <1>9 DEF Taken

-----------------------------------------------------------------------------
(***************************************************************************)
(* Frames: what keeps a part of the invariant.                             *)
(***************************************************************************)
\* The manager keeps its slot, or is on its way out.
KeepsClaim(t, r) ==
    /\ mgr'[t][r].claim = mgr[t][r].claim /\ mgr'[t][r].slot = mgr[t][r].slot
    /\ mgr[t][r].removed => mgr'[t][r].removed

LEMMA ClaimsFrame ==
    ASSUME PortInv, holders' = holders, cur' = cur, cur \in 0 .. MaxTunnels,
           \A t \in Tunnels, r \in Rules : KeepsClaim(t, r)
    PROVE  ClaimInv' /\ SlotIsItsHolders'
<1>1. ClaimInv'
  BY DEF PortInv, ClaimInv, Has, KeepsClaim
<1>2. ASSUME cur' > 0, NEW r \in Rules, InMap(cur, r)'
      PROVE  holders'[mgr'[cur'][r].slot] = mgr'[cur'][r].claim
  <2>1. cur \in Tunnels
    BY <1>2, BoundsAssumption DEF Tunnels
  <2>2. KeepsClaim(cur, r)
    BY <2>1
  <2>3. InMap(cur, r) /\ cur > 0
    BY <1>2, <2>1, <2>2, TypesOf DEF KeepsClaim, InMap, Has, PortInv, Managers
  <2> QED  BY <2>2, <2>3 DEF PortInv, SlotIsItsHolders, KeepsClaim
<1> QED  BY <1>1, <1>2 DEF SlotIsItsHolders

\* Slots are given back by managers ms of tunnel t, which are gone or going.
LEMMA ReleaseFrame ==
    ASSUME PortInv, cur' = cur, cur \in 0 .. MaxTunnels,
           NEW t \in Tunnels, NEW rs \in SUBSET Rules,
           holders' = release({mgr[t][r] : r \in rs}),
           \A u \in Tunnels, r \in Rules :
              KeepsClaim(u, r) \/ mgr'[u][r].claim = 0,
           \A r \in rs : ~InMap(t, r)'
    PROVE  ClaimInv' /\ SlotIsItsHolders'
<1>1. ClaimInv'
  BY DEF PortInv, ClaimInv, Has, KeepsClaim
<1>2. ASSUME cur' > 0, NEW q \in Rules, InMap(cur, q)'
      PROVE  holders'[mgr'[cur'][q].slot] = mgr'[cur'][q].claim
  <2>1. cur \in Tunnels
    BY <1>2, BoundsAssumption DEF Tunnels
  <2>2. KeepsClaim(cur, q)
    BY <1>2, <2>1 DEF InMap, Has
  <2>3. InMap(cur, q) /\ cur > 0 /\ mgr[cur][q].slot \in Slots
    BY <1>2, <2>1, <2>2, TypesOf DEF KeepsClaim, InMap, Has, PortInv, Managers
  <2>4. holders[mgr[cur][q].slot] = mgr[cur][q].claim
    BY <2>3 DEF PortInv, SlotIsItsHolders
  <2>5. ~\E m \in {mgr[t][r] : r \in rs} :
             m.claim # 0 /\ m.slot = mgr[cur][q].slot /\ m.claim = holders[mgr[cur][q].slot]
    <3> SUFFICES ASSUME NEW r \in rs, mgr[t][r].claim # 0, mgr[t][r].claim = mgr[cur][q].claim
                 PROVE  FALSE
      BY <2>4
    <3>1. t = cur /\ r = q
      BY <2>1 DEF PortInv, ClaimInv, Has
    <3> QED  BY <1>2, <3>1
  <2>6. holders'[mgr[cur][q].slot] = holders[mgr[cur][q].slot]
    BY <2>3, <2>5 DEF release
  <2> QED  BY <2>2, <2>4, <2>6 DEF KeepsClaim
<1> QED  BY <1>1, <1>2 DEF SlotIsItsHolders

LEMMA SignalFrame ==
    ASSUME PortInv, slips \subseteq slips', claims' \in Nat, claims <= claims',
           signals' \in [Tunnels -> Seq(Signals)],
           \A t \in Tunnels : \A i \in 1 .. Len(signals'[t]) :
              \/ \E j \in 1 .. Len(signals[t]) : signals'[t][i] = signals[t][j]
              \/ OfItsLoop(signals'[t][i], mgr'[t][signals'[t][i].rule], claims'),
           \A t \in Tunnels, r \in Rules : InMap(t, r)' =>
              \/ mgr'[t][r].claim > claims
              \/ /\ InMap(t, r) /\ mgr'[t][r].claim = mgr[t][r].claim
                 /\ mgr'[t][r].gen \in Nat /\ mgr'[t][r].gen >= mgr[t][r].gen
                 /\ mgr'[t][r].gen = mgr[t][r].gen /\ mgr[t][r].loop = "Ended"
                       => mgr'[t][r].loop = "Ended"
    PROVE  SignalInv'
<1> SUFFICES ASSUME slips' \cap {"LateForwarder", "Readded"} = {},
                    NEW t \in Tunnels, NEW i \in 1 .. Len(signals'[t])
             PROVE  OfItsLoop(signals'[t][i], mgr'[t][signals'[t][i].rule], claims')
  BY DEF SignalInv
<1> SUFFICES ASSUME \E j \in 1 .. Len(signals[t]) : signals'[t][i] = signals[t][j]
             PROVE  OfItsLoop(signals'[t][i], mgr'[t][signals'[t][i].rule], claims')
  OBVIOUS
<1>1. PICK j \in 1 .. Len(signals[t]) : signals'[t][i] = signals[t][j]
  OBVIOUS
<1>2. PICK s : s = signals[t][j]
  OBVIOUS
<1>3. PICK r : r = s.rule
  OBVIOUS
<1>4. signals[t] \in Seq(Signals) /\ claims \in Nat
  BY DEF PortInv, Types
<1>5. s \in Signals
  BY <1>2, <1>4
<1>6. r \in Rules /\ s.claim \in Nat /\ s.gen \in Nat
  BY <1>3, <1>5 DEF Signals
<1>7. slips \cap {"LateForwarder", "Readded"} = {}
  OBVIOUS
<1>8. OfItsLoop(s, mgr[t][r], claims)
  BY <1>2, <1>3, <1>7 DEF PortInv, SignalInv
<1>9. mgr[t][r].gen \in Nat /\ mgr[t][r].claim \in 0 .. claims
  BY <1>6, TypesOf DEF PortInv, Managers
<1>10. s.claim <= claims'
  BY <1>4, <1>6, <1>8 DEF OfItsLoop
<1>11. ASSUME mgr'[t][r].claim # 0, ~mgr'[t][r].removed, s.claim = mgr'[t][r].claim
      PROVE  /\ s.gen <= mgr'[t][r].gen
             /\ s.gen = mgr'[t][r].gen /\ s.kind = "Refused" => mgr'[t][r].loop = "Ended"
  <2>1. InMap(t, r)'
    BY <1>11 DEF InMap, Has
  <2>2. ~(mgr'[t][r].claim > claims)
    BY <1>4, <1>6, <1>8, <1>11 DEF OfItsLoop
  <2>3. /\ InMap(t, r) /\ mgr'[t][r].claim = mgr[t][r].claim
        /\ mgr'[t][r].gen \in Nat /\ mgr'[t][r].gen >= mgr[t][r].gen
        /\ mgr'[t][r].gen = mgr[t][r].gen /\ mgr[t][r].loop = "Ended"
              => mgr'[t][r].loop = "Ended"
    BY <1>6, <2>1, <2>2
  <2>4. s.gen <= mgr[t][r].gen /\ (s.gen = mgr[t][r].gen /\ s.kind = "Refused" => mgr[t][r].loop = "Ended")
    BY <1>8, <1>11, <2>3 DEF OfItsLoop, InMap, Has
  <2> QED  BY <1>6, <1>9, <2>3, <2>4
<1>12. OfItsLoop(s, mgr'[t][r], claims')
  BY <1>10, <1>11 DEF OfItsLoop
<1> QED  BY <1>1, <1>2, <1>3, <1>12

\* The signals that stay are signals there were.
LEMMA SameSignals ==
    ASSUME Types, signals' = signals
    PROVE  /\ signals' \in [Tunnels -> Seq(Signals)]
           /\ \A t \in Tunnels : \A i \in 1 .. Len(signals'[t]) :
                 \E j \in 1 .. Len(signals[t]) : signals'[t][i] = signals[t][j]
BY DEF Types

LEMMA RetryFrame ==
    ASSUME PortInv, slips \subseteq slips',
           \A t \in Tunnels, r \in Rules : InMap(t, r)' /\ mgr'[t][r].retry =>
              \/ mgr'[t][r].loop = "Ended"
              \/ InMap(t, r) /\ mgr[t][r].retry
                 /\ (mgr[t][r].loop = "Ended" => mgr'[t][r].loop = "Ended")
    PROVE  RetryIsOfItsLoop'
BY DEF PortInv, RetryIsOfItsLoop

Answered == {"Mapped", "Failed", "Refused"}
LEMMA RowFrame ==
    ASSUME PortInv, slips \subseteq slips',
           slips' \cap {"LateForwarder", "CutOff"} = {} =>
              \A r \in Rules : status'[r] \in Answered =>
                 \/ \E t \in Tunnels : Has(t, r)'
                 \/ status[r] = status'[r] /\ \A t \in Tunnels : Has(t, r) => Has(t, r)'
    PROVE  RowHasItsManager'
BY DEF PortInv, RowHasItsManager, Answered

LEMMA TunnelFrame ==
    ASSUME PortInv, UNCHANGED <<cur, phase>>, slips \subseteq slips',
           \A t \in Tunnels : /\ ctl[t].job = "Idle" => ctl'[t].job = "Idle"
                              /\ ctl[t].job = "Dead" => ctl'[t].job = "Dead"
    PROVE  TunnelInv'
BY DEF PortInv, TunnelInv

\* The tunnel that runs is one of the tunnels, and only its controller works.
LEMMA Present ==
    ASSUME PortInv
    PROVE  /\ cur \in 0 .. MaxTunnels /\ (phase # "Down" => cur \in Tunnels)
           /\ \A t \in Tunnels :
                 ctl[t].job # "Idle" /\ ~aborted(t) => t = cur /\ phase \in {"Up", "Releasing"}
<1>1. /\ cur \in 0 .. MaxTunnels /\ MaxTunnels \in Nat /\ (phase # "Down" => cur > 0)
      /\ phase \in {"Down", "Up", "Releasing", "Aborting"}
      /\ \A t \in Tunnels : t > cur => ctl[t].job = "Idle"
  BY BoundsAssumption DEF PortInv, Types, TypeOK, TunnelInv
<1> QED  BY <1>1 DEF Tunnels, aborted

\* The types of what is neither manager nor controller
Rest ==
    /\ world \in Worlds /\ preset \in BOOLEAN
    /\ stored \in [Rules -> {"Off", "On"}] /\ pushed \in Configs
    /\ status \in [Rules -> Shown]
    /\ cur \in 0 .. MaxTunnels /\ phase \in {"Down", "Up", "Releasing", "Aborting"}
    /\ holders \in [Slots -> 0 .. claims] /\ claims \in Nat /\ refusals \in Nat
    /\ signals \in [Tunnels -> Seq(Signals)] /\ late \subseteq Lates
    /\ slips \subseteq {"LateForwarder", "CutOff", "Readded", "Overrun", "Coalesced"}

LEMMA RestOf ==
    ASSUME PortInv
    PROVE  Rest
BY DEF PortInv, Types, TypeOK, Rest

LEMMA TypesNext ==
    ASSUME Rest', mgr' \in [Tunnels -> [Rules -> Managers(claims')]], ctl' \in [Tunnels -> Controllers]
    PROVE  Types'
BY DEF Types, TypeOK, Rest, Managers, Controllers, Shapes

LEMMA AbortTypes ==
    ASSUME PortInv, NEW t \in Tunnels, NEW rs \in SUBSET Rules, AbortForwarders(t, rs)
    PROVE  late' \subseteq Lates /\ refusals' \in Nat
<1>1. Rest
  BY RestOf
<1>2. CASE UNCHANGED <<late, refusals>>
  BY <1>1, <1>2 DEF Rest
<1>3. ASSUME NEW r \in rs, NEW event \in Events,
             late' = late \cup {[t |-> t, rule |-> r, claim |-> mgr[t][r].claim,
                                 gen |-> mgr[t][r].gen, event |-> event]},
             refusals' = IF event = "NotAuthorized" THEN refusals + 1 ELSE refusals
      PROVE  late' \subseteq Lates /\ refusals' \in Nat
  <2>1. mgr[t][r].claim \in Nat /\ mgr[t][r].gen \in Nat
    BY TypesOf DEF PortInv, Managers, Types
  <2> QED  BY <1>1, <1>3, <2>1 DEF Rest, Lates
<1> QED  BY <1>2, <1>3 DEF AbortForwarders

\* A step that leaves the managers and their signals alone, and shows no answer.
LEMMA QuietFrame ==
    ASSUME PortInv, UNCHANGED <<mgr, signals, holders, claims>>, slips \subseteq slips',
           \A r \in Rules : status'[r] \in Answered => status'[r] = status[r]
    PROVE  /\ ClaimInv' /\ SignalInv' /\ RetryIsOfItsLoop' /\ RowHasItsManager'
           /\ cur' = cur => SlotIsItsHolders'
<1>1. Rest /\ Types
  BY RestOf DEF PortInv
<1>2. ClaimInv' /\ (cur' = cur => SlotIsItsHolders')
  <2>1. ClaimInv'
    BY DEF PortInv, ClaimInv, Has
  <2>2. cur' = cur => SlotIsItsHolders'
    BY <1>1, ClaimsFrame DEF KeepsClaim, Rest
  <2> QED  BY <2>1, <2>2
<1>3. SignalInv'
  <2>1. \A t \in Tunnels, r \in Rules : mgr[t][r].gen \in Nat
    BY <1>1, TypesOf DEF Managers
  <2>2. \A t \in Tunnels, r \in Rules : InMap(t, r)' <=> InMap(t, r)
    BY DEF InMap, Has
  <2>3. \A t \in Tunnels, r \in Rules : mgr[t][r].gen >= mgr[t][r].gen
    BY <2>1
  <2>4. claims' \in Nat /\ claims <= claims'
    BY <1>1 DEF Rest
  <2> QED  BY <1>1, <2>1, <2>2, <2>3, <2>4, SameSignals, SignalFrame
<1>4. RetryIsOfItsLoop'
  <2>1. \A t \in Tunnels, r \in Rules : InMap(t, r)' <=> InMap(t, r)
    BY DEF InMap, Has
  <2> QED  BY <2>1, RetryFrame
<1>5. RowHasItsManager'
  <2>1. \A t \in Tunnels, r \in Rules : Has(t, r)' <=> Has(t, r)
    BY DEF Has
  <2> QED  BY <2>1, RowFrame
<1> QED  BY <1>2, <1>3, <1>4, <1>5

\* What is left after a controller has dealt with the rules rs.
LEMMA AdvanceShape ==
    ASSUME PortInv, NEW t \in Tunnels, NEW rs \in SUBSET Rules, Advance(t, rs)
    PROVE  /\ ctl' \in [Tunnels -> Controllers] /\ PutCtl(t, ctl'[t])
           /\ ctl'[t].at = {} /\ ctl'[t].changed = ctl[t].changed
           /\ \/ ctl[t].todo \subseteq rs /\ ctl'[t].job = "Select"
              \/ /\ ctl'[t].job = ctl[t].job /\ ctl'[t].cfg = ctl[t].cfg
                 /\ ctl'[t].todo = ctl[t].todo \ rs
<1>1. ctl \in [Tunnels -> Controllers] /\ ctl[t] \in Controllers
  BY TypesOf DEF PortInv
<1>2. NoController \in Controllers /\ NoController.at = {}
  BY BlankTypes
<1>3. CASE ctl[t].todo \subseteq rs
  <2>1. ctl' = [ctl EXCEPT ![t] = [NoController EXCEPT !.job = "Select", !.changed = ctl[t].changed]]
    BY <1>1, <1>3 DEF Advance
  <2>2. [NoController EXCEPT !.job = "Select", !.changed = ctl[t].changed] \in Controllers
    BY <1>1, <1>2 DEF Controllers
  <2>3. ctl'[t] = [NoController EXCEPT !.job = "Select", !.changed = ctl[t].changed]
    BY <1>1, <2>1
  <2>4. ctl'[t].job = "Select" /\ ctl'[t].at = {} /\ ctl'[t].changed = ctl[t].changed
    BY <2>3 DEF NoController
  <2> QED  BY <1>1, <1>3, <2>1, <2>2, <2>4 DEF PutCtl
<1>4. CASE ~(ctl[t].todo \subseteq rs)
  <2>1. ctl' = [ctl EXCEPT ![t] = [ctl[t] EXCEPT !.at = {}, !.todo = ctl[t].todo \ rs]]
    BY <1>1, <1>4 DEF Advance
  <2>2. [ctl[t] EXCEPT !.at = {}, !.todo = ctl[t].todo \ rs] \in Controllers
    BY <1>1 DEF Controllers
  <2>3. ctl'[t] = [ctl[t] EXCEPT !.at = {}, !.todo = ctl[t].todo \ rs]
    BY <1>1, <2>1
  <2>4. /\ ctl'[t].job = ctl[t].job /\ ctl'[t].cfg = ctl[t].cfg /\ ctl'[t].at = {}
        /\ ctl'[t].todo = ctl[t].todo \ rs /\ ctl'[t].changed = ctl[t].changed
    BY <1>1, <2>3 DEF Controllers
  <2> QED  BY <1>1, <2>1, <2>2, <2>4 DEF PutCtl
<1> QED  BY <1>3, <1>4

\* A controller changes its mind about nothing while it works through its rules.
LEMMA SameConfig ==
    ASSUME PortInv, NEW t \in Tunnels, PutCtl(t, ctl'[t]), UNCHANGED <<daemon, tunnel>>,
           ctl'[t].changed = ctl[t].changed,
           ctl'[t].job \in {"Idle", "Reconcile"} =>
              ctl'[t].job = ctl[t].job /\ ctl'[t].cfg = ctl[t].cfg
    PROVE  ConfigInv'
<1>1. cur \in 0 .. MaxTunnels /\ (phase # "Down" => cur \in Tunnels)
  BY Present
<1> QED  BY <1>1 DEF PortInv, ConfigInv, PutCtl, daemon, tunnel

-----------------------------------------------------------------------------
(***************************************************************************)
(* Steps that change a controller only.                                    *)
(***************************************************************************)
LEMMA NothingToDoKeeps ==
    ASSUME PortInv, NEW t \in Tunnels, NothingToDo(t)
    PROVE  PortInv'
<1>1. /\ ctl[t].job = "Reconcile" /\ ~aborted(t) /\ ctl[t].todo = {} /\ Advance(t, {})
      /\ UNCHANGED <<daemon, status, tunnel, mgr, signals, late, slots, refusals, slips>>
  BY DEF NothingToDo, Works
<1>2. /\ ctl' \in [Tunnels -> Controllers] /\ PutCtl(t, ctl'[t])
      /\ ctl'[t].at = {} /\ ctl'[t].changed = ctl[t].changed
      /\ ctl'[t].job \in {"Select", "Reconcile"}
      /\ ctl'[t].job = "Reconcile" => ctl'[t].cfg = ctl[t].cfg
  BY <1>1, AdvanceShape
<1>3. t = cur
  BY <1>1, Present
<1>4. Types'
  BY <1>1, <1>2, RestOf, TypesOf, TypesNext DEF Rest, PortInv, daemon, tunnel, slots
<1>5. ClaimInv' /\ SlotIsItsHolders' /\ SignalInv' /\ RetryIsOfItsLoop' /\ RowHasItsManager'
  BY <1>1, QuietFrame DEF daemon, tunnel, slots
<1>6. TunnelInv'
  BY <1>1, <1>2, TunnelFrame DEF PutCtl, tunnel
<1>7. ManagerInv'
  BY <1>1, <1>2 DEF PortInv, ManagerInv, PutCtl, InMap, Has
<1>8. ConfigInv'
  BY <1>1, <1>2, SameConfig
<1>9. LiveInv'
  BY <1>1, <1>2, <1>3 DEF PortInv, LiveInv, daemon, tunnel, InMap, Has
<1> QED  BY <1>4, <1>5, <1>6, <1>7, <1>8, <1>9 DEF PortInv

LEMMA SkipsDuplicateKeeps ==
    ASSUME PortInv, NEW t \in Tunnels, SkipsDuplicate(t)
    PROVE  PortInv'
<1>1. PICK r \in ctl[t].todo : Advance(t, {r})
  BY DEF SkipsDuplicate
<1>2. /\ ctl[t].job = "Reconcile" /\ ~aborted(t) /\ Gone(t) = {}
      /\ UNCHANGED <<daemon, status, tunnel, mgr, signals, late, slots, refusals, slips>>
  BY DEF SkipsDuplicate, Works
<1>3. r \in Rules
  BY TypesOf DEF PortInv, Controllers
<1>4. /\ ctl' \in [Tunnels -> Controllers] /\ PutCtl(t, ctl'[t])
      /\ ctl'[t].at = {} /\ ctl'[t].changed = ctl[t].changed
      /\ ctl'[t].job \in {"Select", "Reconcile"}
      /\ ctl'[t].job = "Reconcile" => ctl'[t].cfg = ctl[t].cfg
  BY <1>1, <1>2, <1>3, AdvanceShape
<1>5. t = cur
  BY <1>2, Present
<1>6. Types'
  BY <1>2, <1>4, RestOf, TypesOf, TypesNext DEF Rest, PortInv, daemon, tunnel, slots
<1>7. ClaimInv' /\ SlotIsItsHolders' /\ SignalInv' /\ RetryIsOfItsLoop' /\ RowHasItsManager'
  BY <1>2, QuietFrame DEF daemon, tunnel, slots
<1>8. TunnelInv'
  BY <1>2, <1>4, TunnelFrame DEF PutCtl, tunnel
<1>9. ManagerInv'
  BY <1>2, <1>4 DEF PortInv, ManagerInv, PutCtl, InMap, Has
<1>10. ConfigInv'
  BY <1>2, <1>4, SameConfig
<1>11. LiveInv'
  BY <1>2, <1>4, <1>5 DEF PortInv, LiveInv, Gone, daemon, tunnel, InMap, Has
<1> QED  BY <1>6, <1>7, <1>8, <1>9, <1>10, <1>11 DEF PortInv

LEMMA SelectsChangeKeeps ==
    ASSUME PortInv, NEW t \in Tunnels, SelectsChange(t)
    PROVE  PortInv'
<1> DEFINE c == [ctl[t] EXCEPT !.job = "Reconcile", !.changed = FALSE, !.cfg = pushed,
                               !.todo = Concerned(t, pushed)]
<1>1. /\ ctl[t].job = "Select" /\ ~aborted(t)
      /\ UNCHANGED <<daemon, status, tunnel, mgr, signals, late, slots, refusals, slips>>
  BY DEF SelectsChange, Selects
<1>2. ctl \in [Tunnels -> Controllers] /\ ctl[t] \in Controllers /\ Rest
  BY TypesOf, RestOf DEF PortInv
<1>3. ctl' = [ctl EXCEPT ![t] = c]
  BY <1>2 DEF SelectsChange
<1>4. c \in Controllers
  BY <1>2 DEF Controllers, Rest, Concerned
<1>5. /\ ctl' \in [Tunnels -> Controllers] /\ PutCtl(t, ctl'[t]) /\ ctl'[t] = c
  BY <1>2, <1>3, <1>4 DEF PutCtl
<1>6. /\ ctl'[t].job = "Reconcile" /\ ~ctl'[t].changed /\ ctl'[t].cfg = pushed
      /\ ctl'[t].todo = Concerned(t, pushed) /\ ctl'[t].at = ctl[t].at
  BY <1>2, <1>5 DEF Controllers
<1> HIDE DEF c
<1>7. t = cur
  BY <1>1, Present
<1>8. Types'
  BY <1>1, <1>5, RestOf, TypesOf, TypesNext DEF Rest, PortInv, daemon, tunnel, slots
<1>9. ClaimInv' /\ SlotIsItsHolders' /\ SignalInv' /\ RetryIsOfItsLoop' /\ RowHasItsManager'
  BY <1>1, QuietFrame DEF daemon, tunnel, slots
<1>10. TunnelInv'
  BY <1>1, <1>5, TunnelFrame DEF PutCtl, tunnel
<1>11. ManagerInv'
  BY <1>1, <1>5, <1>6 DEF PortInv, ManagerInv, PutCtl, InMap, Has
<1>12. ConfigInv'
  BY <1>1, <1>5, <1>6, <1>7 DEF PortInv, ConfigInv, daemon, tunnel
<1>13. LiveInv'
  BY <1>1, <1>5, <1>6, <1>7 DEF PortInv, LiveInv, ConfigInv, Concerned, daemon, tunnel, InMap, Has
<1> QED  BY <1>8, <1>9, <1>10, <1>11, <1>12, <1>13 DEF PortInv

LEMMA SelectsRetryKeeps ==
    ASSUME PortInv, NEW t \in Tunnels, SelectsRetry(t)
    PROVE  PortInv'
<1>1. /\ ctl[t].job = "Select" /\ ~aborted(t)
      /\ UNCHANGED <<daemon, status, tunnel, mgr, signals, late, slots, refusals, slips>>
  BY DEF SelectsRetry, Selects
<1>2. ctl \in [Tunnels -> Controllers] /\ ctl[t] \in Controllers
  BY TypesOf DEF PortInv
<1>3. PICK due \in SUBSET Rules :
         /\ \A r \in due : InMap(t, r)
         /\ ctl' = [ctl EXCEPT ![t] = [ctl[t] EXCEPT !.job = "Retry", !.todo = due]]
  BY <1>2 DEF SelectsRetry
<1>4. [ctl[t] EXCEPT !.job = "Retry", !.todo = due] \in Controllers
  BY <1>2 DEF Controllers
<1>5. /\ ctl' \in [Tunnels -> Controllers] /\ PutCtl(t, ctl'[t])
      /\ ctl'[t] = [ctl[t] EXCEPT !.job = "Retry", !.todo = due]
  BY <1>2, <1>3, <1>4 DEF PutCtl
<1>6. /\ ctl'[t].job = "Retry" /\ ctl'[t].changed = ctl[t].changed /\ ctl'[t].at = ctl[t].at
      /\ ctl'[t].todo = due
  BY <1>2, <1>5 DEF Controllers
<1>7. t = cur
  BY <1>1, Present
<1>8. Types'
  BY <1>1, <1>5, RestOf, TypesOf, TypesNext DEF Rest, PortInv, daemon, tunnel, slots
<1>9. ClaimInv' /\ SlotIsItsHolders' /\ SignalInv' /\ RetryIsOfItsLoop' /\ RowHasItsManager'
  BY <1>1, QuietFrame DEF daemon, tunnel, slots
<1>10. PutCtl(t, ctl'[t])
  BY <1>5
<1>11. TunnelInv'
  BY <1>1, <1>6, <1>10, TunnelFrame DEF PutCtl, tunnel
<1>12. ManagerInv'
  BY <1>1, <1>3, <1>6, <1>10 DEF PortInv, ManagerInv, PutCtl, InMap, Has
<1>13. ConfigInv'
  BY <1>1, <1>6, <1>10, SameConfig
<1>14. LiveInv'
  BY <1>1, <1>6, <1>7 DEF PortInv, LiveInv, daemon, tunnel, InMap, Has
<1> QED  BY <1>8, <1>9, <1>11, <1>12, <1>13, <1>14 DEF PortInv

LEMMA SpawnControllerKeeps ==
    ASSUME PortInv, SpawnController
    PROVE  PortInv'
<1> DEFINE c == [ctl[cur] EXCEPT !.job = "Reconcile", !.todo = Concerned(cur, ctl[cur].cfg)]
<1>1. /\ phase = "Up" /\ ctl[cur].job = "Idle"
      /\ UNCHANGED <<daemon, status, tunnel, mgr, signals, late, slots, refusals, slips>>
  BY DEF SpawnController
<1>2. cur \in Tunnels
  BY <1>1, Present
<1>3. ctl \in [Tunnels -> Controllers] /\ ctl[cur] \in Controllers
  BY <1>2, TypesOf DEF PortInv
<1>4. ctl' = [ctl EXCEPT ![cur] = c]
  BY <1>3 DEF SpawnController
<1>5. c \in Controllers
  BY <1>3 DEF Controllers, Concerned
<1>6. ctl' \in [Tunnels -> Controllers] /\ PutCtl(cur, ctl'[cur]) /\ ctl'[cur] = c
  BY <1>2, <1>3, <1>4, <1>5 DEF PutCtl
<1>7. /\ ctl'[cur].job = "Reconcile" /\ ctl'[cur].changed = ctl[cur].changed
      /\ ctl'[cur].cfg = ctl[cur].cfg /\ ctl'[cur].at = ctl[cur].at
  BY <1>3, <1>6 DEF Controllers
<1> HIDE DEF c
<1>8. Types'
  BY <1>1, <1>6, RestOf, TypesOf, TypesNext DEF Rest, PortInv, daemon, tunnel, slots
<1>9. ClaimInv' /\ SlotIsItsHolders' /\ SignalInv' /\ RetryIsOfItsLoop' /\ RowHasItsManager'
  BY <1>1, QuietFrame DEF daemon, tunnel, slots
<1>10. TunnelInv'
  BY <1>1, <1>2, <1>6, <1>7, Present DEF PortInv, TunnelInv, PutCtl, tunnel, Tunnels
<1>11. \A r \in Rules : ~Has(cur, r) /\ ctl[cur].at = {}
  BY <1>1, <1>2, <1>3 DEF PortInv, ManagerInv, Controllers
<1>12. ManagerInv'
  BY <1>1, <1>6, <1>7, <1>11 DEF PortInv, ManagerInv, PutCtl, InMap, Has
<1>13. ConfigInv'
  BY <1>1, <1>7 DEF PortInv, ConfigInv, daemon, tunnel
<1>14. LiveInv'
  BY <1>1, <1>11 DEF LiveInv, tunnel, InMap, Has
<1> QED  BY <1>8, <1>9, <1>10, <1>12, <1>13, <1>14 DEF PortInv

-----------------------------------------------------------------------------
(***************************************************************************)
(* The tunnel and the daemon.                                              *)
(***************************************************************************)
LEMMA TunnelEndsKeeps ==
    ASSUME PortInv, TunnelEnds
    PROVE  PortInv'
<1>1. /\ phase = "Up" /\ phase' \in {"Down", "Releasing"}
      /\ UNCHANGED <<daemon, status, cur, mgr, signals, late, slots, refusals, slips>>
  BY DEF TunnelEnds
<1>2. cur \in Tunnels
  BY <1>1, Present
<1>3. ctl \in [Tunnels -> Controllers] /\ Dead \in Controllers /\ Dead.job = "Dead" /\ Dead.at = {}
  BY TypesOf, BlankTypes DEF PortInv
<1>4. ctl' \in [Tunnels -> Controllers]
  BY <1>3 DEF TunnelEnds
<1>5. \/ phase' = "Releasing" /\ ctl' = ctl
      \/ phase' = "Down" /\ ctl[cur].job = "Idle" /\ PutCtl(cur, Dead)
  BY <1>2, <1>3 DEF TunnelEnds, PutCtl
<1>6. Types'
  BY <1>1, <1>4, RestOf, TypesOf, TypesNext DEF Rest, PortInv, daemon, slots
<1>7. ClaimInv' /\ SlotIsItsHolders' /\ SignalInv' /\ RetryIsOfItsLoop' /\ RowHasItsManager'
  BY <1>1, QuietFrame DEF daemon, slots
<1>8. TunnelInv'
  <2>1. /\ \A t \in Tunnels : t = cur \/ ctl'[t] = ctl[t]
        /\ phase' = "Down" => ctl'[cur].job = "Dead"
    BY <1>3, <1>5 DEF PutCtl
  <2>2. cur \in Int /\ \A t \in Tunnels : t \in Int
    BY <1>2, BoundsAssumption DEF Tunnels
  <2> QED  BY <1>1, <2>1, <2>2 DEF PortInv, TunnelInv
<1>9. ManagerInv'
  BY <1>1, <1>3, <1>5 DEF PortInv, ManagerInv, PutCtl, InMap, Has
<1>10. phase' # "Up" /\ UNCHANGED <<stored, pushed>>
  BY <1>1 DEF daemon
<1>11. ConfigInv' /\ LiveInv'
  BY <1>10 DEF PortInv, ConfigInv, LiveInv
<1> QED  BY <1>6, <1>7, <1>8, <1>9, <1>11 DEF PortInv

LEMMA WaitsKeep ==
    ASSUME PortInv, WaitForRelease \/ WaitForAbort
    PROVE  PortInv'
<1>1. /\ phase \in {"Releasing", "Aborting"} /\ phase' \in {"Down", "Aborting"}
      /\ slips \subseteq slips' /\ slips' \subseteq slips \cup {"Overrun"}
      /\ UNCHANGED <<daemon, status, cur, ctl, mgr, signals, late, slots, refusals>>
      /\ phase' = "Down" => ctl[cur].job = "Dead" \/ "Overrun" \in slips'
  BY DEF WaitForRelease, WaitForAbort
<1>2. cur \in Tunnels
  BY <1>1, Present
<1>3. Types'
  BY <1>1, RestOf, TypesOf, TypesNext DEF Rest, PortInv, daemon, slots
<1>4. ClaimInv' /\ SlotIsItsHolders' /\ SignalInv' /\ RetryIsOfItsLoop' /\ RowHasItsManager'
  BY <1>1, QuietFrame DEF daemon, slots
<1>5. TunnelInv'
  BY <1>1, <1>2 DEF PortInv, TunnelInv, Tunnels
<1>6. ManagerInv'
  BY <1>1 DEF PortInv, ManagerInv, InMap, Has
<1>7. ConfigInv' /\ LiveInv'
  BY <1>1 DEF PortInv, ConfigInv, LiveInv, daemon
<1> QED  BY <1>3, <1>4, <1>5, <1>6, <1>7 DEF PortInv

LEMMA NewTunnelKeeps ==
    ASSUME PortInv, NewTunnel
    PROVE  PortInv'
<1>1. /\ phase = "Down" /\ cur < world.tunnels /\ cur' = cur + 1 /\ phase' = "Up"
      /\ UNCHANGED <<daemon, mgr, signals, late, slots, refusals, slips>>
  BY DEF NewTunnel
<1>2. Rest /\ world.tunnels \in 0 .. MaxTunnels /\ MaxTunnels \in Nat
  BY RestOf, WorldsAssumption, BoundsAssumption DEF Rest
<1>3. cur \in 0 .. MaxTunnels /\ cur + 1 \in Tunnels
  BY <1>1, <1>2 DEF Tunnels, Rest
<1>4. ctl \in [Tunnels -> Controllers] /\ ctl[cur + 1] \in Controllers
  BY <1>3, TypesOf DEF PortInv
<1>5. ctl[cur + 1].job = "Idle"
  BY <1>3 DEF PortInv, TunnelInv
<1>6. ctl' = [ctl EXCEPT ![cur + 1] = [ctl[cur + 1] EXCEPT !.cfg = stored]]
  BY <1>4 DEF NewTunnel
<1>7. [ctl[cur + 1] EXCEPT !.cfg = stored] \in Controllers
  BY <1>2, <1>4 DEF Rest, Controllers, Configs
<1>8. ctl' \in [Tunnels -> Controllers] /\ PutCtl(cur + 1, [ctl[cur + 1] EXCEPT !.cfg = stored])
  BY <1>3, <1>4, <1>6, <1>7 DEF PutCtl
<1>9. /\ ctl'[cur'].job = "Idle" /\ ctl'[cur'].cfg = stored /\ ctl'[cur'].at = ctl[cur'].at
      /\ \A t \in Tunnels : t = cur' \/ ctl'[t] = ctl[t]
  BY <1>1, <1>4, <1>5, <1>8 DEF PutCtl, Controllers
<1>10. /\ status' \in [Rules -> Shown]
       /\ \A r \in Rules : status'[r] \in Answered => status'[r] = status[r]
  BY <1>2 DEF NewTunnel, Rest, Shown, Answered
<1>11. Types'
  <2>1. cur' \in 0 .. MaxTunnels
    BY <1>1, <1>2, <1>3 DEF Tunnels
  <2> QED  BY <1>1, <1>2, <1>8, <1>10, <2>1, TypesOf, TypesNext DEF Rest, PortInv, daemon, slots
<1>12. ClaimInv' /\ SignalInv' /\ RetryIsOfItsLoop' /\ RowHasItsManager'
  BY <1>1, <1>10, QuietFrame DEF slots
<1>13. \A r \in Rules : mgr'[cur'][r].claim = 0
  BY <1>1, <1>3, <1>5 DEF PortInv, ManagerInv, Has
<1>14. SlotIsItsHolders' /\ LiveInv'
  BY <1>13 DEF SlotIsItsHolders, LiveInv, InMap, Has
<1>15. TunnelInv'
  BY <1>1, <1>3, <1>9 DEF PortInv, TunnelInv, Tunnels
<1>16. ManagerInv'
  BY <1>1, <1>3, <1>5, <1>9 DEF PortInv, ManagerInv, InMap, Has
<1>17. ConfigInv'
  BY <1>1, <1>9 DEF PortInv, ConfigInv, daemon
<1> QED  BY <1>11, <1>12, <1>14, <1>15, <1>16, <1>17 DEF PortInv

\* What a push does to the controllers: those that listen will look again.
LEMMA PushShape ==
    ASSUME PortInv, NEW cfg \in Configs, Push(cfg)
    PROVE  /\ ctl' \in [Tunnels -> Controllers] /\ pushed' = cfg
           /\ slips \subseteq slips' /\ slips' \subseteq slips \cup {"Coalesced"}
           /\ \A t \in Tunnels :
                 /\ ctl'[t].job = ctl[t].job /\ ctl'[t].at = ctl[t].at
                 /\ ctl'[t].cfg = ctl[t].cfg /\ ctl'[t].todo = ctl[t].todo
                 /\ IF t <= cur /\ ctl[t].job # "Dead" THEN ctl'[t].changed
                    ELSE ctl'[t].changed = ctl[t].changed
<1>1. \A t \in Tunnels : ctl[t] \in Controllers
  BY TypesOf DEF PortInv
<1>2. \A t \in Tunnels : ctl'[t] = IF Subscribed(t) THEN [ctl[t] EXCEPT !.changed = TRUE] ELSE ctl[t]
  BY DEF Push
<1>3. \A t \in Tunnels : ctl'[t] \in Controllers
  BY <1>1, <1>2 DEF Controllers
<1>4. ctl' \in [Tunnels -> Controllers]
  BY <1>3 DEF Push
<1>5. pushed' = cfg /\ slips \subseteq slips' /\ slips' \subseteq slips \cup {"Coalesced"}
  BY DEF Push
<1>6. ASSUME NEW t \in Tunnels
      PROVE  /\ ctl'[t].job = ctl[t].job /\ ctl'[t].at = ctl[t].at
             /\ ctl'[t].cfg = ctl[t].cfg /\ ctl'[t].todo = ctl[t].todo
             /\ IF t <= cur /\ ctl[t].job # "Dead" THEN ctl'[t].changed
                ELSE ctl'[t].changed = ctl[t].changed
  BY <1>1, <1>2 DEF Controllers, Subscribed
<1> QED  BY <1>4, <1>5, <1>6

\* A push of what is stored now.  The daemon is to touch the status, or leaves
\* alone what is stored.
LEMMA PushKeeps ==
    ASSUME PortInv, NEW cfg \in Configs, Push(cfg), stored' \in [Rules -> {"Off", "On"}],
           \A r \in Rules : cfg[r] = "Off" <=> stored'[r] = "Off",
           preset' \in BOOLEAN, preset' \/ (stored' = stored /\ preset' = preset),
           UNCHANGED <<world, status, tunnel, mgr, signals, late, slots, refusals>>
    PROVE  PortInv'
<1> DEFINE new(t) == ctl'[t].job = ctl[t].job /\ ctl'[t].at = ctl[t].at
                     /\ ctl'[t].cfg = ctl[t].cfg /\ ctl'[t].todo = ctl[t].todo
<1>1. /\ ctl' \in [Tunnels -> Controllers] /\ pushed' = cfg
      /\ slips \subseteq slips' /\ slips' \subseteq slips \cup {"Coalesced"}
      /\ \A t \in Tunnels : new(t)
      /\ \A t \in Tunnels : t <= cur /\ ctl[t].job # "Dead" => ctl'[t].changed
      /\ \A t \in Tunnels : ctl'[t].changed \/ ctl'[t].changed = ctl[t].changed
  BY PushShape
<1>2. Types'
  BY <1>1, RestOf, TypesOf, TypesNext DEF Rest, PortInv, tunnel, slots
<1>3. ClaimInv' /\ SlotIsItsHolders' /\ SignalInv' /\ RetryIsOfItsLoop' /\ RowHasItsManager'
  BY <1>1, QuietFrame DEF tunnel, slots
<1>4. TunnelInv'
  BY <1>1, TunnelFrame DEF tunnel
<1>5. ManagerInv'
  BY <1>1 DEF PortInv, ManagerInv, InMap, Has
<1>6. phase = "Up" => cur \in Tunnels /\ cur <= cur
  BY Present DEF Tunnels
<1>7. ConfigInv'
  <2>1. phase' = "Up" /\ ctl'[cur].job \in {"Idle", "Reconcile"} => ctl'[cur].changed
    BY <1>1, <1>6 DEF tunnel
  <2> QED  BY <1>1, <2>1 DEF ConfigInv, tunnel
<1>8. LiveInv'
  <2> SUFFICES ASSUME phase' = "Up", NEW r \in Rules, InMap(cur, r)'
               PROVE  /\ ctl'[cur].changed
                      /\ (mgr'[cur][r].loop = "Mapped" /\ stored'[r] = "On" /\ status'[r] = "None"
                            /\ "Overrun" \notin slips') => preset'
    BY DEF LiveInv, tunnel
  <2>1. InMap(cur, r)
    BY DEF InMap, Has, tunnel
  <2>2. ctl[cur].job # "Dead"
    BY <1>6, <2>1 DEF PortInv, ManagerInv, InMap, tunnel
  <2>3. ctl'[cur].changed
    BY <1>1, <1>6, <2>2 DEF tunnel
  <2>4. CASE stored' = stored /\ preset' = preset
    BY <1>1, <2>1, <2>3, <2>4 DEF PortInv, LiveInv, tunnel
  <2> QED  BY <2>3, <2>4
<1> QED  BY <1>2, <1>3, <1>4, <1>5, <1>7, <1>8 DEF PortInv

LEMMA PushSettingsKeeps ==
    ASSUME PortInv, PushSettings
    PROVE  PortInv'
<1>1. PICK cfg \in Settings : stored' = cfg /\ Push(cfg)
  BY DEF PushSettings
<1>2. cfg \in [Rules -> {"Off", "On"}] /\ cfg \in Configs
  BY DEF Settings, Configs
<1> QED  BY <1>1, <1>2, PushKeeps DEF PushSettings

LEMMA RemapKeeps ==
    ASSUME PortInv, Remap
    PROVE  PortInv'
<1> DEFINE cfg == [r \in Rules |-> IF stored[r] = "On" THEN "Remapped" ELSE "Off"]
<1>1. /\ Push(cfg)
      /\ UNCHANGED <<world, stored, preset, status, tunnel, mgr, signals, late, slots, refusals>>
  BY DEF Remap
<1>2. Rest
  BY RestOf
<1>3. cfg \in Configs /\ \A r \in Rules : cfg[r] = "Off" <=> stored[r] = "Off"
  BY <1>2 DEF Configs, Rest
<1>4. stored' \in [Rules -> {"Off", "On"}] /\ preset' \in BOOLEAN
  BY <1>1, <1>2 DEF Rest
<1> HIDE DEF cfg
<1> QED  BY <1>1, <1>3, <1>4, PushKeeps

LEMMA PresetStatusKeeps ==
    ASSUME PortInv, PresetStatus
    PROVE  PortInv'
<1>1. /\ preset' = FALSE
      /\ UNCHANGED <<world, stored, pushed, pushes, tunnel, ctl, mgr, signals, late, slots,
                     refusals, slips>>
  BY DEF PresetStatus
<1>2. Rest
  BY RestOf
<1>3. status' \in [Rules -> Shown]
  BY <1>2 DEF PresetStatus, Rest, Shown
<1>4. \A r \in Rules : /\ status'[r] \in Answered => status'[r] = status[r]
                       /\ stored[r] = "On" => status'[r] # "None"
  BY <1>2 DEF PresetStatus, Rest, Shown, Answered
<1>5. Types'
  BY <1>1, <1>2, <1>3, TypesOf, TypesNext DEF Rest, PortInv, tunnel, slots
<1>6. ClaimInv' /\ SlotIsItsHolders' /\ SignalInv' /\ RetryIsOfItsLoop' /\ RowHasItsManager'
  BY <1>1, <1>4, QuietFrame DEF tunnel, slots
<1>7. TunnelInv'
  BY <1>1, TunnelFrame DEF tunnel
<1>8. ManagerInv' /\ ConfigInv'
  BY <1>1 DEF PortInv, ManagerInv, ConfigInv, InMap, Has, tunnel
<1>9. LiveInv'
  BY <1>1, <1>4 DEF PortInv, LiveInv, InMap, Has, tunnel
<1> QED  BY <1>5, <1>6, <1>7, <1>8, <1>9 DEF PortInv

-----------------------------------------------------------------------------
(***************************************************************************)
(* The forwarders.                                                         *)
(***************************************************************************)
Signal(r, claim, gen, event) ==
    [rule |-> r, claim |-> claim, gen |-> gen,
     kind |-> IF event = "Mapped" THEN "Granted" ELSE "Refused"]

LEMMA Observed ==
    ASSUME PortInv, NEW t \in Tunnels, NEW r \in Rules, NEW claim \in Nat, NEW gen \in Nat,
           NEW event \in Events, Observe(t, r, claim, gen, event)
    PROVE  /\ status' \in [Rules -> Shown] /\ signals' \in [Tunnels -> Seq(Signals)]
           /\ \A q \in Rules : /\ status'[q] = "None" => status[q] = "None"
                               /\ q # r => status'[q] = status[q]
           /\ event = "Mapped" => status'[r] = "Mapped"
           /\ \A u \in Tunnels : \A i \in 1 .. Len(signals'[u]) :
                 \/ \E j \in 1 .. Len(signals[u]) : signals'[u][i] = signals[u][j]
                 \/ /\ u = t /\ event # "Failed"
                    /\ signals'[u][i] = Signal(r, claim, gen, event)
<1>1. Rest
  BY RestOf
<1>2. /\ status' \in [Rules -> Shown]
      /\ \A q \in Rules : /\ status'[q] = "None" => status[q] = "None"
                          /\ q # r => status'[q] = status[q]
      /\ event = "Mapped" => status'[r] = "Mapped"
  BY <1>1 DEF Observe, Rest, Shown, Events
<1>3. signals \in [Tunnels -> Seq(Signals)]
  BY <1>1 DEF Rest
<1>4. CASE signals' = signals
  BY <1>2, <1>3, <1>4
<1>5. ASSUME signals' # signals
      PROVE  /\ event # "Failed"
             /\ signals' = [signals EXCEPT ![t] = Append(signals[t], Signal(r, claim, gen, event))]
  BY <1>5, <1>3 DEF Observe, Signal
<1>6. Signal(r, claim, gen, event) \in Signals
  BY DEF Signal, Signals
<1>7. ASSUME signals' # signals
      PROVE  /\ signals' \in [Tunnels -> Seq(Signals)]
             /\ \A u \in Tunnels : \A i \in 1 .. Len(signals'[u]) :
                   \/ \E j \in 1 .. Len(signals[u]) : signals'[u][i] = signals[u][j]
                   \/ u = t /\ signals'[u][i] = Signal(r, claim, gen, event)
  <2> DEFINE s == Signal(r, claim, gen, event)
  <2> HIDE DEF s
  <2>1. signals' = [signals EXCEPT ![t] = Append(signals[t], s)] /\ s \in Signals
    BY <1>5, <1>6, <1>7 DEF s
  <2>2. signals' \in [Tunnels -> Seq(Signals)]
    BY <1>3, <2>1
  <2>3. ASSUME NEW u \in Tunnels, NEW i \in 1 .. Len(signals'[u])
        PROVE  \/ \E j \in 1 .. Len(signals[u]) : signals'[u][i] = signals[u][j]
               \/ u = t /\ signals'[u][i] = s
    <3>1. CASE u # t
      BY <1>3, <2>1, <3>1
    <3>2. CASE u = t
      <4>1. signals'[u] = Append(signals[t], s) /\ signals[t] \in Seq(Signals)
        BY <1>3, <2>1, <3>2
      <4>2. Len(signals'[u]) = Len(signals[t]) + 1 /\ Len(signals[t]) \in Nat
        BY <4>1, <2>1
      <4>3. CASE i = Len(signals[t]) + 1
        BY <2>1, <3>2, <4>1, <4>2, <4>3
      <4>4. CASE i \in 1 .. Len(signals[t])
        BY <2>1, <3>2, <4>1, <4>2, <4>4
      <4> QED  BY <4>2, <4>3, <4>4
    <3> QED  BY <3>1, <3>2
  <2> QED  BY <2>2, <2>3 DEF s
<1> QED  BY <1>2, <1>4, <1>5, <1>7

LEMMA LoopAnswersKeeps ==
    ASSUME PortInv, NEW t \in Tunnels, NEW r \in Rules, LoopAnswers(t, r)
    PROVE  PortInv'
<1> DEFINE m == mgr[t][r]
<1>1. PICK event \in Events, loop \in {"Asking", "Mapped", "Ended"} :
         /\ event = "Mapped" <=> loop = "Mapped"
         /\ event = "NotAuthorized" => loop = "Ended" /\ refusals < world.refusals
         /\ Observe(t, r, mgr[t][r].claim, mgr[t][r].gen, event)
         /\ mgr' = [mgr EXCEPT ![t][r].loop = loop]
         /\ refusals' = IF event = "NotAuthorized" THEN refusals + 1 ELSE refusals
  BY DEF LoopAnswers
<1>2. Asks(t, r) /\ UNCHANGED <<daemon, tunnel, ctl, late, slots, slips>>
  BY DEF LoopAnswers
<1>3. Rest /\ Types /\ m \in Managers(claims) /\ m.claim \in Nat /\ m.gen \in Nat
  BY RestOf, TypesOf DEF PortInv, Managers, Rest
<1>4. m.loop \in {"Asking", "Mapped"} /\ Has(t, r)
  BY <1>2 DEF Asks, PortInv, ManagerInv
<1>5. mgr' = [mgr EXCEPT ![t] = [mgr[t] EXCEPT ![r] = [m EXCEPT !.loop = loop]]]
  BY <1>1, <1>3, TypesOf
<1>6. [m EXCEPT !.loop = loop] \in Managers(claims)
  BY <1>3 DEF Managers
<1>7. Put(t, r, [m EXCEPT !.loop = loop]) /\ mgr' \in [Tunnels -> [Rules -> Managers(claims)]]
  <2> DEFINE n == [m EXCEPT !.loop = loop]
  <2> HIDE DEF n
  <2>1. mgr' = [mgr EXCEPT ![t] = [mgr[t] EXCEPT ![r] = n]] /\ n \in Managers(claims)
    BY <1>5, <1>6 DEF n
  <2>2. claims \in Nat /\ claims <= claims
    BY <1>3 DEF Rest
  <2> QED  BY <1>3, <2>1, <2>2, PutManager DEF n
<1>8. /\ mgr'[t][r].claim = m.claim /\ mgr'[t][r].slot = m.slot /\ mgr'[t][r].gen = m.gen
      /\ mgr'[t][r].retry = m.retry /\ mgr'[t][r].removed = m.removed /\ mgr'[t][r].loop = loop
  BY <1>3, <1>7 DEF Put, Managers
<1>9. \A u \in Tunnels, q \in Rules : (u = t /\ q = r) \/ mgr'[u][q] = mgr[u][q]
  BY <1>7 DEF Put
<1>10. /\ status' \in [Rules -> Shown] /\ signals' \in [Tunnels -> Seq(Signals)]
       /\ \A q \in Rules : /\ status'[q] = "None" => status[q] = "None"
                           /\ q # r => status'[q] = status[q]
       /\ event = "Mapped" => status'[r] = "Mapped"
       /\ \A u \in Tunnels : \A i \in 1 .. Len(signals'[u]) :
             \/ \E j \in 1 .. Len(signals[u]) : signals'[u][i] = signals[u][j]
             \/ /\ u = t /\ event # "Failed"
                /\ signals'[u][i] = Signal(r, m.claim, m.gen, event)
  BY <1>1, <1>3, Observed
<1>11. Types'
  BY <1>1, <1>2, <1>3, <1>7, <1>10, TypesOf, TypesNext DEF Rest, daemon, tunnel, slots
<1> HIDE DEF m
<1>12. \A u \in Tunnels, q \in Rules : /\ KeepsClaim(u, q) /\ (InMap(u, q)' <=> InMap(u, q))
                                       /\ (Has(u, q)' <=> Has(u, q))
  BY <1>8, <1>9 DEF KeepsClaim, InMap, Has, m
<1>13. ClaimInv' /\ SlotIsItsHolders'
  BY <1>2, <1>3, <1>12, ClaimsFrame DEF Rest, tunnel, slots
<1>14. TunnelInv'
  BY <1>2, TunnelFrame DEF tunnel
<1>15. ManagerInv'
  <2>1. r \notin ctl[t].at
    BY <1>4 DEF PortInv, ManagerInv, m
  <2> QED  BY <1>2, <1>4, <1>9, <1>12, <2>1 DEF PortInv, ManagerInv
<1>16. SignalInv'
  <2>1. claims' \in Nat /\ claims <= claims' /\ m.claim <= claims' /\ slips \subseteq slips'
    BY <1>2, <1>3 DEF Rest, slots, Managers
  <2>2. ASSUME event # "Failed"
        PROVE  OfItsLoop(Signal(r, m.claim, m.gen, event), mgr'[t][r], claims')
    BY <1>1, <1>3, <1>8, <2>1, <2>2 DEF OfItsLoop, Signal, Events, m
  <2>3. Signal(r, m.claim, m.gen, event).rule = r
    BY DEF Signal
  <2>4. \A u \in Tunnels : \A i \in 1 .. Len(signals'[u]) :
             \/ \E j \in 1 .. Len(signals[u]) : signals'[u][i] = signals[u][j]
             \/ OfItsLoop(signals'[u][i], mgr'[u][signals'[u][i].rule], claims')
    BY <1>10, <2>2, <2>3
  <2>5. \A u \in Tunnels, q \in Rules : InMap(u, q)' =>
              /\ InMap(u, q) /\ mgr'[u][q].claim = mgr[u][q].claim
              /\ mgr'[u][q].gen \in Nat /\ mgr'[u][q].gen >= mgr[u][q].gen
              /\ mgr'[u][q].gen = mgr[u][q].gen /\ mgr[u][q].loop = "Ended"
                    => mgr'[u][q].loop = "Ended"
    <3>1. \A u \in Tunnels, q \in Rules : mgr[u][q].gen \in Nat /\ mgr[u][q].gen >= mgr[u][q].gen
      BY <1>3, TypesOf DEF Managers
    <3> QED  BY <1>4, <1>8, <1>9, <1>12, <3>1 DEF m
  <2> QED  BY <1>10, <2>1, <2>4, <2>5, SignalFrame
<1>17. RetryIsOfItsLoop'
  BY <1>2, <1>4, <1>8, <1>9, <1>12 DEF PortInv, RetryIsOfItsLoop, m
<1>18. RowHasItsManager'
  BY <1>2, <1>4, <1>10, <1>12, RowFrame
<1>19. ConfigInv'
  BY <1>2 DEF PortInv, ConfigInv, daemon, tunnel
<1>20. LiveInv'
  <2>1. phase = "Up" => cur \in Tunnels
    BY Present
  <2>2. UNCHANGED <<phase, cur, stored, preset, ctl, slips>>
    BY <1>2 DEF daemon, tunnel
  <2>3. ASSUME NEW q \in Rules, phase = "Up", mgr'[cur][q].loop = "Mapped", status'[q] = "None"
        PROVE  mgr[cur][q].loop = "Mapped" /\ status[q] = "None"
    BY <1>1, <1>8, <1>9, <1>10, <2>1, <2>3
  <2> QED  BY <1>12, <2>1, <2>2, <2>3 DEF PortInv, LiveInv
<1> QED  BY <1>11, <1>13, <1>14, <1>15, <1>16, <1>17, <1>18, <1>19, <1>20 DEF PortInv

LEMMA ForwardLateKeeps ==
    ASSUME PortInv, ForwardLate
    PROVE  PortInv'
<1>1. PICK e \in late :
         /\ Observe(e.t, e.rule, e.claim,
                    IF mgr[e.t][e.rule].claim = e.claim THEN mgr[e.t][e.rule].gen ELSE e.gen, e.event)
         /\ late' = late \ {e} /\ slips' = slips \cup {"LateForwarder"}
         /\ UNCHANGED <<daemon, tunnel, ctl, mgr, slots, refusals>>
  BY DEF ForwardLate
<1>2. Rest /\ Types
  BY RestOf DEF PortInv
<1>3. e.t \in Tunnels /\ e.rule \in Rules /\ e.claim \in Nat /\ e.gen \in Nat /\ e.event \in Events
  BY <1>2 DEF Rest, Lates
<1>4. PICK gen : gen = IF mgr[e.t][e.rule].claim = e.claim THEN mgr[e.t][e.rule].gen ELSE e.gen
  OBVIOUS
<1>5. gen \in Nat
  BY <1>2, <1>3, <1>4, TypesOf DEF Managers
<1>6. /\ status' \in [Rules -> Shown] /\ signals' \in [Tunnels -> Seq(Signals)]
      /\ \A q \in Rules : status'[q] = "None" => status[q] = "None"
  BY <1>1, <1>3, <1>4, <1>5, Observed
<1>7. Types'
  BY <1>1, <1>2, <1>6, TypesOf, TypesNext DEF Rest, daemon, tunnel, slots
<1>8. ClaimInv' /\ SlotIsItsHolders'
  BY <1>1, <1>2, ClaimsFrame DEF KeepsClaim, Rest, tunnel, slots
<1>9. TunnelInv'
  BY <1>1, TunnelFrame DEF tunnel
<1>10. ManagerInv' /\ ConfigInv'
  BY <1>1 DEF PortInv, ManagerInv, ConfigInv, InMap, Has, daemon, tunnel
<1>11. SignalInv' /\ RetryIsOfItsLoop' /\ RowHasItsManager'
  BY <1>1 DEF SignalInv, RetryIsOfItsLoop, RowHasItsManager
<1>12. LiveInv'
  <2>1. UNCHANGED <<phase, cur, stored, preset, ctl, mgr>> /\ slips \subseteq slips'
    BY <1>1 DEF daemon, tunnel
  <2> QED  BY <1>6, <2>1 DEF PortInv, LiveInv, InMap, Has
<1> QED  BY <1>7, <1>8, <1>9, <1>10, <1>11, <1>12 DEF PortInv

-----------------------------------------------------------------------------
(***************************************************************************)
(* The controller's work on one manager.                                   *)
(***************************************************************************)
LEMMA PutSame ==
    ASSUME PortInv, NEW t \in Tunnels, NEW r \in Rules, NEW m \in Managers(claims),
           mgr' = [mgr EXCEPT ![t] = [mgr[t] EXCEPT ![r] = m]]
    PROVE  /\ mgr'[t][r] = m /\ mgr' \in [Tunnels -> [Rules -> Managers(claims)]]
           /\ \A u \in Tunnels, q \in Rules : (u = t /\ q = r) \/ mgr'[u][q] = mgr[u][q]
<1>1. claims \in Nat /\ claims <= claims /\ Types
  BY DEF PortInv, Types
<1> QED  BY <1>1, PutManager DEF Put

LEMMA ReleaseType ==
    ASSUME PortInv, NEW ms
    PROVE  release(ms) \in [Slots -> 0 .. claims]
<1>1. holders \in [Slots -> 0 .. claims] /\ claims \in Nat
  BY DEF PortInv, Types, TypeOK
<1>2. \A s \in Slots : holders[s] \in 0 .. claims /\ 0 \in 0 .. claims
  BY <1>1
<1> HIDE DEF Slots
<1> QED  BY <1>2 DEF release

\* The controller takes a loop's handle out of the manager of rule r, which it
\* removes or restarts, and awaits the mapping's release.
LEMMA TakesOut ==
    ASSUME PortInv, NEW t \in Tunnels, NEW r \in Rules, NEW n \in Managers(claims),
           ctl[t].job \in {"Reconcile", "Retry"}, ctl[t].at = {}, ~aborted(t),
           AbortForwarders(t, {r}), UNCHANGED <<daemon, status, tunnel, signals, slots, slips>>,
           mgr' = [mgr EXCEPT ![t] = [mgr[t] EXCEPT ![r] = n]],
           ctl' = [ctl EXCEPT ![t] = [ctl[t] EXCEPT !.at = {r}]],
           n.claim = mgr[t][r].claim, n.slot = mgr[t][r].slot, n.loop = "None",
           \/ n.removed /\ ctl[t].job = "Reconcile"
           \/ /\ InMap(t, r) /\ ~n.removed /\ n.gen = mgr[t][r].gen + 1 /\ ~n.retry
              /\ ctl[t].job = "Reconcile" => ctl[t].cfg[r] # "Off"
    PROVE  PortInv'
<1>1. Rest /\ Types /\ mgr[t][r] \in Managers(claims) /\ ctl[t] \in Controllers
  BY RestOf, TypesOf DEF PortInv
<1>2. /\ mgr'[t][r] = n /\ mgr' \in [Tunnels -> [Rules -> Managers(claims)]]
      /\ \A u \in Tunnels, q \in Rules : (u = t /\ q = r) \/ mgr'[u][q] = mgr[u][q]
  BY PutSame
<1>3. /\ ctl' \in [Tunnels -> Controllers] /\ PutCtl(t, ctl'[t]) /\ ctl'[t].at = {r}
      /\ ctl'[t].job = ctl[t].job /\ ctl'[t].cfg = ctl[t].cfg /\ ctl'[t].todo = ctl[t].todo
      /\ ctl'[t].changed = ctl[t].changed
  <2>1. ctl \in [Tunnels -> Controllers] /\ [ctl[t] EXCEPT !.at = {r}] \in Controllers
    BY <1>1, TypesOf DEF Controllers
  <2>2. ctl'[t] = [ctl[t] EXCEPT !.at = {r}]
    BY <2>1
  <2> QED  BY <1>1, <2>1, <2>2 DEF PutCtl, Controllers
<1>4. late' \subseteq Lates /\ refusals' \in Nat
  BY AbortTypes
<1>5. Types'
  BY <1>1, <1>2, <1>3, <1>4, TypesNext DEF Rest, daemon, tunnel, slots
<1>6. \A u \in Tunnels, q \in Rules : KeepsClaim(u, q) /\ (Has(u, q)' <=> Has(u, q))
  BY <1>2 DEF KeepsClaim, InMap, Has
<1>7. \A u \in Tunnels, q \in Rules : InMap(u, q)' => InMap(u, q)
  BY <1>2, <1>6 DEF InMap, KeepsClaim
<1>8. ClaimInv' /\ SlotIsItsHolders'
  BY <1>1, <1>6, ClaimsFrame DEF Rest, tunnel, slots
<1>9. TunnelInv'
  BY <1>3, TunnelFrame DEF PutCtl, tunnel
<1>10. ManagerInv'
  <2>1. CASE n.removed /\ ctl[t].job = "Reconcile"
    BY <1>2, <1>3, <1>6, <2>1 DEF PortInv, ManagerInv, PutCtl, InMap
  <2>2. CASE /\ InMap(t, r) /\ ~n.removed
             /\ ctl[t].job = "Reconcile" => ctl[t].cfg[r] # "Off"
    BY <1>2, <1>3, <1>6, <2>2 DEF PortInv, ManagerInv, PutCtl, InMap
  <2> QED  BY <2>1, <2>2
<1>11. SignalInv'
  <2>1. claims' \in Nat /\ claims <= claims'
    BY <1>1 DEF Rest, slots
  <2>2. \A u \in Tunnels, q \in Rules : mgr[u][q].gen \in Nat /\ mgr[u][q].gen >= mgr[u][q].gen
    BY <1>1, TypesOf DEF Managers
  <2>3. \A u \in Tunnels, q \in Rules : InMap(u, q)' =>
              /\ InMap(u, q) /\ mgr'[u][q].claim = mgr[u][q].claim
              /\ mgr'[u][q].gen \in Nat /\ mgr'[u][q].gen >= mgr[u][q].gen
              /\ mgr'[u][q].gen = mgr[u][q].gen /\ mgr[u][q].loop = "Ended"
                    => mgr'[u][q].loop = "Ended"
    <3>1. InMap(t, r)' => n.gen \in Nat /\ n.gen > mgr[t][r].gen /\ n.gen # mgr[t][r].gen
      BY <1>2, <2>2 DEF InMap
    <3> QED  BY <1>2, <1>7, <2>2, <3>1
  <2> QED  BY <1>1, <2>1, <2>3, SameSignals, SignalFrame
<1>12. RetryIsOfItsLoop'
  BY <1>2, <1>7, RetryFrame DEF InMap
<1>13. RowHasItsManager'
  BY <1>6, RowFrame
<1>14. ConfigInv'
  BY <1>3, SameConfig
<1>15. LiveInv'
  <2>1. t = cur /\ UNCHANGED <<phase, cur, stored, preset, status>>
    BY Present DEF daemon, tunnel
  <2> QED  BY <1>2, <1>3, <1>7, <2>1 DEF PortInv, LiveInv
<1> QED  BY <1>5, <1>8, <1>9, <1>10, <1>11, <1>12, <1>13, <1>14, <1>15 DEF PortInv

LEMMA BeginRestartKeeps ==
    ASSUME PortInv, NEW t \in Tunnels, NEW r \in Rules, BeginRestart(t, r), InMap(t, r),
           ctl[t].job \in {"Reconcile", "Retry"}, ctl[t].at = {}, ~aborted(t),
           ctl[t].job = "Reconcile" => ctl[t].cfg[r] # "Off"
    PROVE  PortInv'
<1> DEFINE n == [mgr[t][r] EXCEPT !.gen = mgr[t][r].gen + 1, !.loop = "None", !.retry = FALSE]
<1>1. /\ mgr \in [Tunnels -> [Rules -> Managers(claims)]] /\ mgr[t][r] \in Managers(claims)
      /\ ctl \in [Tunnels -> Controllers]
  BY TypesOf DEF PortInv
<1>2. mgr' = [mgr EXCEPT ![t] = [mgr[t] EXCEPT ![r] = n]]
  BY <1>1 DEF BeginRestart
<1>3. n \in Managers(claims)
  <2>1. mgr[t][r].gen + 1 \in Nat
    BY <1>1 DEF Managers
  <2>2. \A g \in Nat : [mgr[t][r] EXCEPT !.gen = g, !.loop = "None", !.retry = FALSE] \in Managers(claims)
    BY <1>1 DEF Managers
  <2> QED  BY <2>1, <2>2
<1>4. /\ n.claim = mgr[t][r].claim /\ n.slot = mgr[t][r].slot /\ n.loop = "None"
      /\ n.gen = mgr[t][r].gen + 1 /\ ~n.retry /\ n.removed = mgr[t][r].removed
  BY <1>1 DEF Managers
<1>5. ctl' = [ctl EXCEPT ![t] = [ctl[t] EXCEPT !.at = {r}]]
  BY <1>1 DEF BeginRestart
<1>6. /\ AbortForwarders(t, {r}) /\ UNCHANGED <<daemon, status, tunnel, signals, slots, slips>>
  BY DEF BeginRestart
<1>7. ~n.removed
  BY <1>4 DEF InMap
<1> HIDE DEF n
<1> QED  BY <1>2, <1>3, <1>4, <1>5, <1>6, <1>7, TakesOut

LEMMA ReconfiguresRuleKeeps ==
    ASSUME PortInv, NEW t \in Tunnels, ReconfiguresRule(t)
    PROVE  PortInv'
<1>1. PICK r \in ctl[t].todo : InMap(t, r) /\ BeginRestart(t, r)
  BY DEF ReconfiguresRule
<1>2. ctl[t].job = "Reconcile" /\ ctl[t].at = {} /\ ~aborted(t) /\ Gone(t) = {}
  BY DEF ReconfiguresRule, Works
<1>3. r \in Rules
  BY TypesOf DEF PortInv, Controllers
<1>4. ctl[t].cfg[r] # "Off"
  BY <1>1, <1>2 DEF Gone
<1> QED  BY <1>1, <1>2, <1>3, <1>4, BeginRestartKeeps

LEMMA RetriesRuleKeeps ==
    ASSUME PortInv, NEW t \in Tunnels, RetriesRule(t)
    PROVE  PortInv'
<1>1. PICK r \in ctl[t].todo : BeginRestart(t, r)
  BY DEF RetriesRule
<1>2. ctl[t].job = "Retry" /\ ctl[t].at = {} /\ ~aborted(t)
  BY DEF RetriesRule, Works
<1>3. r \in Rules
  BY TypesOf DEF PortInv, Controllers
<1>4. InMap(t, r)
  BY <1>1, <1>2, <1>3 DEF PortInv, ManagerInv
<1> QED  BY <1>1, <1>2, <1>3, <1>4, BeginRestartKeeps

LEMMA ReleaseGoneKeeps ==
    ASSUME PortInv, NEW t \in Tunnels, ReleaseGone(t)
    PROVE  PortInv'
<1>1. PICK r \in Gone(t) :
         /\ AbortForwarders(t, {r})
         /\ mgr' = [mgr EXCEPT ![t][r].removed = TRUE, ![t][r].loop = "None"]
         /\ ctl' = [ctl EXCEPT ![t].at = {r}]
  BY DEF ReleaseGone
<1>2. /\ ctl[t].job = "Reconcile" /\ ctl[t].at = {} /\ ~aborted(t)
      /\ UNCHANGED <<daemon, status, tunnel, signals, slots, slips>>
  BY DEF ReleaseGone, Works
<1>3. r \in Rules
  BY TypesOf DEF PortInv, Controllers, Gone
<1> DEFINE n == [mgr[t][r] EXCEPT !.removed = TRUE, !.loop = "None"]
<1>4. /\ mgr \in [Tunnels -> [Rules -> Managers(claims)]] /\ mgr[t][r] \in Managers(claims)
      /\ ctl \in [Tunnels -> Controllers]
  BY <1>3, TypesOf DEF PortInv
<1>5. mgr' = [mgr EXCEPT ![t] = [mgr[t] EXCEPT ![r] = n]]
  BY <1>1, <1>3, <1>4
<1>6. n \in Managers(claims)
  BY <1>4 DEF Managers
<1>7. /\ n.claim = mgr[t][r].claim /\ n.slot = mgr[t][r].slot /\ n.loop = "None" /\ n.removed
  BY <1>4 DEF Managers
<1>8. ctl' = [ctl EXCEPT ![t] = [ctl[t] EXCEPT !.at = {r}]]
  BY <1>1, <1>4
<1> HIDE DEF n
<1> QED  BY <1>1, <1>2, <1>3, <1>5, <1>6, <1>7, <1>8, TakesOut

LEMMA ReleasedKeeps ==
    ASSUME PortInv, NEW t \in Tunnels, Released(t)
    PROVE  PortInv'
<1>1. PICK r \in ctl[t].at :
         /\ mgr[t][r].removed
         /\ mgr' = [mgr EXCEPT ![t][r] = NoManager]
         /\ status' = [status EXCEPT ![r] = "None"]
         /\ holders' = release({mgr[t][r]})
         /\ Advance(t, {r})
  BY DEF Released
<1>2. /\ ctl[t].job = "Reconcile" /\ ~aborted(t)
      /\ UNCHANGED <<daemon, tunnel, signals, late, claims, refusals, slips>>
  BY DEF Released, Awaits
<1>3. r \in Rules /\ Rest /\ Types
  BY RestOf, TypesOf DEF PortInv, Controllers
<1>4. NoManager \in Managers(claims) /\ NoManager.claim = 0 /\ NoManager.loop = "None"
  BY <1>3, BlankTypes DEF Rest
<1>5. mgr' = [mgr EXCEPT ![t] = [mgr[t] EXCEPT ![r] = NoManager]]
  BY <1>1, <1>3, TypesOf
<1>6. /\ mgr'[t][r] = NoManager /\ mgr' \in [Tunnels -> [Rules -> Managers(claims)]]
      /\ \A u \in Tunnels, q \in Rules : (u = t /\ q = r) \/ mgr'[u][q] = mgr[u][q]
  BY <1>3, <1>4, <1>5, PutSame
<1>7. /\ ctl' \in [Tunnels -> Controllers] /\ PutCtl(t, ctl'[t])
      /\ ctl'[t].at = {} /\ ctl'[t].changed = ctl[t].changed
      /\ \/ ctl[t].todo \subseteq {r} /\ ctl'[t].job = "Select"
         \/ /\ ctl'[t].job = "Reconcile" /\ ctl'[t].cfg = ctl[t].cfg
            /\ ctl'[t].todo = ctl[t].todo \ {r}
  BY <1>1, <1>2, <1>3, AdvanceShape
<1>8. /\ holders' \in [Slots -> 0 .. claims]
      /\ status' \in [Rules -> Shown]
      /\ status'[r] = "None" /\ \A q \in Rules : q # r => status'[q] = status[q]
  BY <1>1, <1>3, ReleaseType DEF Rest, Shown
<1>9. Types'
  BY <1>2, <1>3, <1>6, <1>7, <1>8, TypesNext DEF Rest, daemon, tunnel
<1>10. ~Has(t, r)' /\ ~InMap(t, r)'
  BY <1>4, <1>6 DEF InMap, Has
<1>11. \A u \in Tunnels, q \in Rules :
          (u = t /\ q = r) \/ (KeepsClaim(u, q) /\ (Has(u, q)' <=> Has(u, q)) /\ (InMap(u, q)' <=> InMap(u, q)))
  BY <1>6 DEF KeepsClaim, Has, InMap
<1>12. ClaimInv' /\ SlotIsItsHolders'
  <2>1. holders' = release({mgr[t][q] : q \in {r}})
    BY <1>1
  <2>2. \A u \in Tunnels, q \in Rules : KeepsClaim(u, q) \/ mgr'[u][q].claim = 0
    BY <1>4, <1>6, <1>11
  <2>3. PICK rs : rs = {r}
    OBVIOUS
  <2>4. rs \in SUBSET Rules /\ holders' = release({mgr[t][q] : q \in rs}) /\ \A q \in rs : ~InMap(t, q)'
    BY <1>3, <1>10, <2>1, <2>3
  <2> QED  BY <1>2, <1>3, <2>2, <2>4, ReleaseFrame DEF Rest, tunnel
<1>13. TunnelInv'
  BY <1>2, <1>7, TunnelFrame DEF PutCtl, tunnel
<1>14. ManagerInv'
  BY <1>2, <1>4, <1>6, <1>7, <1>10, <1>11 DEF PortInv, ManagerInv, PutCtl
<1>15. SignalInv'
  <2>1. claims' \in Nat /\ claims <= claims'
    BY <1>2, <1>3 DEF Rest
  <2>2. \A u \in Tunnels, q \in Rules : mgr[u][q].gen \in Nat /\ mgr[u][q].gen >= mgr[u][q].gen
    BY <1>3, TypesOf DEF Managers
  <2>3. \A u \in Tunnels, q \in Rules : InMap(u, q)' => InMap(u, q) /\ mgr'[u][q] = mgr[u][q]
    BY <1>6, <1>10, <1>11
  <2>4. signals' = signals /\ slips' = slips
    BY <1>2
  <2> QED  BY <1>3, <2>1, <2>2, <2>3, <2>4, SameSignals, SignalFrame
<1>16. RetryIsOfItsLoop'
  BY <1>2, <1>6, <1>10, <1>11, RetryFrame
<1>17. RowHasItsManager'
  <2>1. \A q \in Rules : status'[q] \in Answered => q # r
    BY <1>8 DEF Answered
  <2> QED  BY <1>2, <1>8, <1>11, <2>1, RowFrame
<1>18. ConfigInv'
  BY <1>2, <1>7, SameConfig
<1>19. LiveInv'
  <2>1. t = cur /\ UNCHANGED <<phase, cur, stored, preset, slips>>
    BY <1>2, Present DEF daemon, tunnel
  <2>2. \A q \in Rules : InMap(cur, q)' =>
           q # r /\ mgr'[cur][q] = mgr[cur][q] /\ InMap(cur, q) /\ status'[q] = status[q]
    BY <1>6, <1>8, <1>10, <1>11, <2>1
  <2> QED  BY <1>7, <2>1, <2>2 DEF PortInv, LiveInv
<1> QED  BY <1>9, <1>12, <1>13, <1>14, <1>15, <1>16, <1>17, <1>18, <1>19 DEF PortInv

LEMMA RestartedKeeps ==
    ASSUME PortInv, NEW t \in Tunnels, Restarted(t)
    PROVE  PortInv'
<1>1. PICK r \in ctl[t].at :
         /\ ~mgr[t][r].removed
         /\ mgr' = [mgr EXCEPT ![t][r].loop = "Asking",
                ![t][r].ver = IF ctl[t].job = "Reconcile" THEN ctl[t].cfg[r] ELSE @]
         /\ Advance(t, {r})
  BY DEF Restarted
<1>2. /\ ctl[t].job \in {"Reconcile", "Retry"} /\ ~aborted(t)
      /\ UNCHANGED <<daemon, status, tunnel, signals, late, slots, refusals, slips>>
  BY DEF Restarted, Awaits
<1>3. r \in Rules /\ Rest /\ Types
  BY RestOf, TypesOf DEF PortInv, Controllers
<1> DEFINE ver == IF ctl[t].job = "Reconcile" THEN ctl[t].cfg[r] ELSE mgr[t][r].ver
           n == [mgr[t][r] EXCEPT !.loop = "Asking", !.ver = ver]
<1>4. /\ mgr \in [Tunnels -> [Rules -> Managers(claims)]] /\ mgr[t][r] \in Managers(claims)
      /\ ctl[t] \in Controllers
  BY <1>3, TypesOf
<1>5. mgr' = [mgr EXCEPT ![t] = [mgr[t] EXCEPT ![r] = n]]
  BY <1>1, <1>3, <1>4
<1>6. ver \in Shapes
  BY <1>3, <1>4 DEF Managers, Controllers, Configs, Shapes
<1>7. n \in Managers(claims) /\ n.loop = "Asking" /\ n.claim = mgr[t][r].claim
      /\ n.slot = mgr[t][r].slot /\ n.removed = mgr[t][r].removed /\ n.gen = mgr[t][r].gen
      /\ n.retry = mgr[t][r].retry
  <2> HIDE DEF ver
  <2> QED  BY <1>4, <1>6 DEF Managers
<1> HIDE DEF n
<1>8. /\ mgr'[t][r] = n /\ mgr' \in [Tunnels -> [Rules -> Managers(claims)]]
      /\ \A u \in Tunnels, q \in Rules : (u = t /\ q = r) \/ mgr'[u][q] = mgr[u][q]
  BY <1>3, <1>5, <1>7, PutSame
<1>9. /\ ctl' \in [Tunnels -> Controllers] /\ PutCtl(t, ctl'[t])
      /\ ctl'[t].at = {} /\ ctl'[t].changed = ctl[t].changed
      /\ \/ ctl[t].todo \subseteq {r} /\ ctl'[t].job = "Select"
         \/ /\ ctl'[t].job = ctl[t].job /\ ctl'[t].cfg = ctl[t].cfg
            /\ ctl'[t].todo = ctl[t].todo \ {r}
  BY <1>1, <1>3, AdvanceShape
<1>10. Types'
  BY <1>2, <1>3, <1>8, <1>9, TypesNext DEF Rest, daemon, tunnel, slots
<1>11. \A u \in Tunnels, q \in Rules :
          KeepsClaim(u, q) /\ (Has(u, q)' <=> Has(u, q)) /\ (InMap(u, q)' <=> InMap(u, q))
  BY <1>7, <1>8 DEF KeepsClaim, Has, InMap
<1>12. InMap(t, r) /\ mgr[t][r].loop = "None"
  BY <1>1, <1>3 DEF PortInv, ManagerInv, InMap
<1>13. ClaimInv' /\ SlotIsItsHolders'
  BY <1>2, <1>3, <1>11, ClaimsFrame DEF Rest, tunnel, slots
<1>14. TunnelInv'
  BY <1>2, <1>9, TunnelFrame DEF PutCtl, tunnel
<1>15. ManagerInv'
  <2>1. Has(t, r)
    BY <1>12 DEF InMap
  <2> QED  BY <1>2, <1>7, <1>8, <1>9, <1>11, <2>1 DEF PortInv, ManagerInv, PutCtl
<1>16. SignalInv'
  <2>1. claims' \in Nat /\ claims <= claims'
    BY <1>2, <1>3 DEF Rest, slots
  <2>2. \A u \in Tunnels, q \in Rules : mgr[u][q].gen \in Nat /\ mgr[u][q].gen >= mgr[u][q].gen
    BY <1>3, TypesOf DEF Managers
  <2>3. \A u \in Tunnels, q \in Rules :
           /\ InMap(u, q)' => InMap(u, q) /\ mgr'[u][q].claim = mgr[u][q].claim
           /\ mgr'[u][q].gen = mgr[u][q].gen
           /\ mgr[u][q].loop = "Ended" => mgr'[u][q].loop = "Ended"
    BY <1>7, <1>8, <1>11, <1>12
  <2>4. signals' = signals /\ slips' = slips
    BY <1>2
  <2> QED  BY <1>3, <2>1, <2>2, <2>3, <2>4, SameSignals, SignalFrame
<1>17. RetryIsOfItsLoop'
  BY <1>2, <1>7, <1>8, <1>11, <1>12, RetryFrame
<1>18. RowHasItsManager'
  BY <1>2, <1>11, RowFrame
<1>19. ConfigInv'
  BY <1>2, <1>9, SameConfig
<1>20. LiveInv'
  <2>1. t = cur /\ UNCHANGED <<phase, cur, stored, preset, slips, status>>
    BY <1>2, Present DEF daemon, tunnel
  <2>2. ctl[t].job = "Reconcile" => ctl[t].cfg[r] # "Off"
    BY <1>3, <1>12 DEF PortInv, ManagerInv
  <2> QED  BY <1>7, <1>8, <1>9, <1>11, <2>1, <2>2 DEF PortInv, LiveInv
<1> QED  BY <1>10, <1>13, <1>14, <1>15, <1>16, <1>17, <1>18, <1>19, <1>20 DEF PortInv

LEMMA SpawnRuleKeeps ==
    ASSUME PortInv, NEW t \in Tunnels, SpawnRule(t)
    PROVE  PortInv'
<1> DEFINE slot == lowest_free_slot(t)
<1>1. PICK r \in ctl[t].todo :
         /\ ~InMap(t, r)
         /\ hold(lowest_free_slot(t))
         /\ mgr' = [mgr EXCEPT ![t][r] =
                [NoManager EXCEPT !.claim = claims + 1, !.slot = lowest_free_slot(t),
                                  !.loop = "Asking", !.live = TRUE, !.ver = ctl[t].cfg[r]]]
         /\ Advance(t, {r})
  BY DEF SpawnRule
<1>2. /\ ctl[t].job = "Reconcile" /\ ~aborted(t) /\ Gone(t) = {}
      /\ UNCHANGED <<daemon, status, tunnel, signals, late, refusals, slips>>
  BY DEF SpawnRule, Works
<1>3. r \in Rules /\ Rest /\ Types /\ ctl[t] \in Controllers
  BY RestOf, TypesOf DEF PortInv, Controllers
<1>4. slot \in Slots /\ \A q \in Rules : InMap(t, q) => mgr[t][q].slot # slot
  BY <1>1, <1>3, FreeSlot
<1>5. ctl[t].cfg[r] \in Shapes /\ ctl[t].cfg[r] # "Off"
  BY <1>2, <1>3 DEF Gone, Controllers, Configs, Shapes
<1> DEFINE n == [NoManager EXCEPT !.claim = claims + 1, !.slot = slot,
                                  !.loop = "Asking", !.live = TRUE, !.ver = ctl[t].cfg[r]]
<1>6. claims \in Nat /\ claims' = claims + 1 /\ holders' = [holders EXCEPT ![slot] = claims + 1]
  BY <1>1, <1>3 DEF hold, Rest
<1>7. /\ n \in Managers(claims + 1) /\ n.claim = claims + 1 /\ n.slot = slot /\ n.loop = "Asking"
      /\ ~n.retry /\ ~n.removed
  <2>1. claims + 1 \in Nat /\ claims + 1 \in 0 .. claims + 1
    BY <1>6
  <2>2. NoManager \in Managers(claims + 1) /\ ~NoManager.retry /\ ~NoManager.removed
    BY <1>3, <2>1, BlankTypes
  <2> HIDE DEF slot
  <2> QED  BY <1>4, <1>5, <2>1, <2>2 DEF Managers
<1>8. mgr' = [mgr EXCEPT ![t] = [mgr[t] EXCEPT ![r] = n]]
  BY <1>1, <1>3, TypesOf
<1> HIDE DEF n, slot
<1>9. /\ mgr'[t][r] = n /\ mgr' \in [Tunnels -> [Rules -> Managers(claims')]]
      /\ \A u \in Tunnels, q \in Rules : (u = t /\ q = r) \/ mgr'[u][q] = mgr[u][q]
  <2>1. claims + 1 \in Nat /\ claims <= claims + 1
    BY <1>6
  <2> QED  BY <1>3, <1>6, <1>7, <1>8, <2>1, PutManager DEF Put
<1>10. /\ ctl' \in [Tunnels -> Controllers] /\ PutCtl(t, ctl'[t])
       /\ ctl'[t].at = {} /\ ctl'[t].changed = ctl[t].changed
       /\ ctl'[t].job \in {"Select", "Reconcile"}
       /\ ctl'[t].job = "Reconcile" => ctl'[t].cfg = ctl[t].cfg
  BY <1>1, <1>2, <1>3, AdvanceShape
<1>11. holders' \in [Slots -> 0 .. claims']
  <2>1. \A h \in 0 .. claims : h \in 0 .. claims'
    BY <1>6
  <2>2. claims + 1 \in 0 .. claims'
    BY <1>6
  <2>3. holders \in [Slots -> 0 .. claims']
    BY <1>3, <2>1 DEF Rest
  <2> HIDE DEF Slots
  <2> QED  BY <1>4, <1>6, <2>2, <2>3
<1>12. Types'
  BY <1>2, <1>3, <1>6, <1>9, <1>10, <1>11, TypesNext DEF Rest, daemon, tunnel
<1>13. Has(t, r)' /\ InMap(t, r)'
  BY <1>6, <1>7, <1>9 DEF InMap, Has
<1>14. \A u \in Tunnels, q \in Rules :
          (u = t /\ q = r) \/ ((Has(u, q)' <=> Has(u, q)) /\ (InMap(u, q)' <=> InMap(u, q)))
  BY <1>9 DEF Has, InMap
<1>15. \A u \in Tunnels, q \in Rules : mgr[u][q].claim # claims + 1 /\ mgr[u][q].slot \in Slots
  <2>1. \A u \in Tunnels, q \in Rules : mgr[u][q].claim \in 0 .. claims /\ mgr[u][q].slot \in Slots
    BY <1>3, TypesOf DEF Managers
  <2> QED  BY <1>6, <2>1
<1>16. ClaimInv'
  BY <1>7, <1>9, <1>15 DEF PortInv, ClaimInv, Has
<1>17. t = cur /\ UNCHANGED <<phase, cur, stored, preset, slips, status>>
  BY <1>2, Present DEF daemon, tunnel
<1>18. SlotIsItsHolders'
  <2> SUFFICES ASSUME cur > 0, NEW q \in Rules, InMap(cur, q)'
               PROVE  holders'[mgr'[cur][q].slot] = mgr'[cur][q].claim
    BY <1>17 DEF SlotIsItsHolders
  <2>1. holders \in [Slots -> 0 .. claims]
    BY <1>3 DEF Rest
  <2>2. CASE q = r
    <3> HIDE DEF Slots
    <3> QED  BY <1>4, <1>6, <1>7, <1>9, <1>17, <2>1, <2>2
  <2>3. CASE q # r
    <3>1. mgr'[cur][q] = mgr[cur][q] /\ InMap(t, q) /\ mgr[cur][q].slot \in Slots
      BY <1>9, <1>14, <1>15, <1>17, <2>3
    <3>2. mgr[cur][q].slot # slot /\ holders[mgr[cur][q].slot] = mgr[cur][q].claim
      BY <1>4, <1>17, <3>1 DEF PortInv, SlotIsItsHolders
    <3> HIDE DEF Slots
    <3> QED  BY <1>6, <2>1, <3>1, <3>2
  <2> QED  BY <2>2, <2>3
<1>19. TunnelInv'
  BY <1>2, <1>10, TunnelFrame DEF PutCtl, tunnel
<1>20. ManagerInv'
  BY <1>2, <1>9, <1>10, <1>13, <1>14 DEF PortInv, ManagerInv, PutCtl
<1>21. SignalInv'
  <2>1. claims' \in Nat /\ claims <= claims' /\ claims + 1 > claims
    BY <1>6
  <2>2. \A u \in Tunnels, q \in Rules : mgr[u][q].gen \in Nat /\ mgr[u][q].gen >= mgr[u][q].gen
    BY <1>3, TypesOf DEF Managers
  <2>3. \A u \in Tunnels, q \in Rules : InMap(u, q)' =>
           \/ mgr'[u][q].claim > claims
           \/ InMap(u, q) /\ mgr'[u][q] = mgr[u][q]
    BY <1>7, <1>9, <1>14, <2>1
  <2>4. signals' = signals /\ slips' = slips
    BY <1>2
  <2> QED  BY <1>3, <2>1, <2>2, <2>3, <2>4, SameSignals, SignalFrame
<1>22. RetryIsOfItsLoop'
  BY <1>2, <1>7, <1>9, <1>14, RetryFrame
<1>23. RowHasItsManager'
  BY <1>13, <1>14, <1>17, RowFrame
<1>24. ConfigInv'
  <2>1. UNCHANGED <<daemon, tunnel>>
    BY <1>2
  <2> QED  BY <1>2, <1>10, <2>1, SameConfig
<1>25. LiveInv'
  <2>1. phase = "Up" /\ ~ctl[cur].changed => stored[r] # "Off"
    BY <1>2, <1>3, <1>5, <1>17 DEF PortInv, ConfigInv
  <2>2. \A q \in Rules : ~(ctl[cur].cfg[q] = "Off" /\ q \in ctl[cur].todo)
    BY <1>2, <1>17 DEF Gone
  <2> QED  BY <1>7, <1>9, <1>10, <1>14, <1>17, <2>1, <2>2 DEF PortInv, LiveInv
<1> QED  BY <1>12, <1>16, <1>18, <1>19, <1>20, <1>21, <1>22, <1>23, <1>24, <1>25 DEF PortInv

-----------------------------------------------------------------------------
(***************************************************************************)
(* Signals, and the ends of a controller.                                  *)
(***************************************************************************)
LEMMA SelectsSignalKeeps ==
    ASSUME PortInv, NEW t \in Tunnels, SelectsSignal(t)
    PROVE  PortInv'
<1>1. /\ ctl[t].job = "Select" /\ ~aborted(t) /\ signals[t] # <<>>
      /\ signals' = [signals EXCEPT ![t] = Tail(@)]
      /\ UNCHANGED <<daemon, tunnel, ctl, late, slots, refusals>>
  BY DEF SelectsSignal, Selects
<1>2. PICK s : s = Head(signals[t])
  OBVIOUS
<1>3. PICK r : r = s.rule
  OBVIOUS
<1>4. IF OfCurrentLoop(t, s)
      THEN /\ mgr' = [mgr EXCEPT ![t][r].retry = (s.kind = "Refused")]
           /\ status' = IF s.kind = "Refused" THEN [status EXCEPT ![r] = "Refused"] ELSE status
           /\ slips' = IF s.claim # mgr[t][r].claim THEN slips \cup {"Readded"} ELSE slips
      ELSE UNCHANGED <<mgr, status, slips>>
  BY <1>2, <1>3 DEF SelectsSignal
<1>5. Rest /\ Types /\ signals[t] \in Seq(Signals)
  BY RestOf DEF PortInv, Rest
<1>6. /\ s \in Signals /\ r \in Rules /\ Len(signals[t]) \in Nat /\ 1 \in 1 .. Len(signals[t])
      /\ s = signals[t][1]
  <2>1. Len(signals[t]) \in Nat /\ Len(signals[t]) # 0
    BY <1>1, <1>5, EmptySeq
  <2>2. 1 \in 1 .. Len(signals[t])
    BY <2>1
  <2>3. s = signals[t][1] /\ s \in Signals
    BY <1>2, <1>5, <2>2
  <2> QED  BY <1>3, <2>1, <2>2, <2>3 DEF Signals
<1>7. /\ signals' \in [Tunnels -> Seq(Signals)]
      /\ \A u \in Tunnels : \A i \in 1 .. Len(signals'[u]) :
            \E j \in 1 .. Len(signals[u]) : signals'[u][i] = signals[u][j]
  <2>1. /\ signals \in [Tunnels -> Seq(Signals)] /\ Tail(signals[t]) \in Seq(Signals)
        /\ Len(Tail(signals[t])) = Len(signals[t]) - 1
        /\ \A i \in 1 .. Len(Tail(signals[t])) : Tail(signals[t])[i] = signals[t][i + 1]
    BY <1>1, <1>5, HeadTailProperties DEF Rest
  <2>2. \A u \in Tunnels : u # t => signals'[u] = signals[u]
    BY <1>1, <2>1
  <2>3. signals'[t] = Tail(signals[t])
    BY <1>1, <2>1
  <2>4. \A i \in 1 .. Len(signals'[t]) : i + 1 \in 1 .. Len(signals[t])
    BY <1>6, <2>1, <2>3
  <2>5. \A i \in 1 .. Len(signals'[t]) : \E j \in 1 .. Len(signals[t]) : signals'[t][i] = signals[t][j]
    BY <2>1, <2>3, <2>4, Zenon
  <2>6. signals' \in [Tunnels -> Seq(Signals)]
    BY <1>1, <2>1
  <2> QED  BY <2>2, <2>5, <2>6
<1>8. /\ slips \subseteq slips' /\ slips' \subseteq slips \cup {"Readded"}
      /\ status' \in [Rules -> Shown]
      /\ \A q \in Rules : status'[q] = "None" => status[q] = "None"
      /\ \A q \in Rules : status'[q] = status[q] \/ (q = r /\ InMap(t, r))
  BY <1>3, <1>4, <1>5, <1>6 DEF Rest, Shown, OfCurrentLoop
<1>9. mgr \in [Tunnels -> [Rules -> Managers(claims)]] /\ mgr[t][r] \in Managers(claims)
  BY <1>5, <1>6, TypesOf
<1>10. /\ mgr' \in [Tunnels -> [Rules -> Managers(claims)]]
       /\ \A u \in Tunnels, q \in Rules :
             /\ mgr'[u][q].claim = mgr[u][q].claim /\ mgr'[u][q].slot = mgr[u][q].slot
             /\ mgr'[u][q].gen = mgr[u][q].gen /\ mgr'[u][q].loop = mgr[u][q].loop
             /\ mgr'[u][q].removed = mgr[u][q].removed
             /\ \/ mgr'[u][q].retry = mgr[u][q].retry
                \/ /\ u = t /\ q = r /\ OfCurrentLoop(t, s)
                   /\ mgr'[u][q].retry => s.kind = "Refused"
  <2>1. CASE mgr' = mgr
    BY <1>9, <2>1
  <2>2. ASSUME OfCurrentLoop(t, s)
        PROVE  <1>10
    <3> DEFINE n == [mgr[t][r] EXCEPT !.retry = (s.kind = "Refused")]
    <3>1. mgr' = [mgr EXCEPT ![t] = [mgr[t] EXCEPT ![r] = n]]
      BY <1>4, <1>6, <1>9, <2>2
    <3>2. (s.kind = "Refused") \in BOOLEAN
      OBVIOUS
    <3>3. /\ n \in Managers(claims) /\ n.claim = mgr[t][r].claim /\ n.slot = mgr[t][r].slot
          /\ n.gen = mgr[t][r].gen /\ n.loop = mgr[t][r].loop
          /\ n.removed = mgr[t][r].removed /\ n.retry = (s.kind = "Refused")
      BY <1>9, <3>2 DEF Managers
    <3> HIDE DEF n
    <3>4. /\ mgr'[t][r] = n /\ mgr' \in [Tunnels -> [Rules -> Managers(claims)]]
          /\ \A u \in Tunnels, q \in Rules : (u = t /\ q = r) \/ mgr'[u][q] = mgr[u][q]
      <4>1. n \in Managers(claims) /\ r \in Rules
        BY <1>6, <3>3
      <4> QED  BY <3>1, <4>1, PutSame
    <3> QED  BY <2>2, <3>3, <3>4
  <2> QED  BY <1>4, <2>1, <2>2
<1>11. Types'
  BY <1>1, <1>5, <1>7, <1>8, <1>10, TypesOf, TypesNext DEF Rest, daemon, tunnel, slots
<1>12. \A u \in Tunnels, q \in Rules :
          KeepsClaim(u, q) /\ (Has(u, q)' <=> Has(u, q)) /\ (InMap(u, q)' <=> InMap(u, q))
  BY <1>10 DEF KeepsClaim, Has, InMap
<1>13. ClaimInv' /\ SlotIsItsHolders'
  BY <1>1, <1>5, <1>12, ClaimsFrame DEF Rest, tunnel, slots
<1>14. TunnelInv'
  BY <1>1, <1>8, TunnelFrame DEF tunnel
<1>15. ManagerInv'
  BY <1>1, <1>10, <1>12 DEF PortInv, ManagerInv
<1>16. SignalInv'
  <2>1. claims' \in Nat /\ claims <= claims'
    BY <1>1, <1>5 DEF Rest, slots
  <2>2. \A u \in Tunnels, q \in Rules : mgr[u][q].gen \in Nat /\ mgr[u][q].gen >= mgr[u][q].gen
    BY <1>5, TypesOf DEF Managers
  <2>3. \A u \in Tunnels, q \in Rules : InMap(u, q)' =>
           /\ InMap(u, q) /\ mgr'[u][q].claim = mgr[u][q].claim
           /\ mgr'[u][q].gen \in Nat /\ mgr'[u][q].gen >= mgr[u][q].gen
           /\ mgr'[u][q].gen = mgr[u][q].gen /\ mgr[u][q].loop = "Ended"
                 => mgr'[u][q].loop = "Ended"
    BY <1>10, <1>12, <2>2
  <2> QED  BY <1>7, <1>8, <2>1, <2>3, SignalFrame
<1>17. RetryIsOfItsLoop'
  <2>1. ASSUME OfCurrentLoop(t, s), s.kind = "Refused", slips' \cap {"LateForwarder", "Readded"} = {}
        PROVE  mgr[t][r].loop = "Ended"
    <3>1. s.claim = mgr[t][r].claim
      BY <1>4, <2>1
    <3>2. OfItsLoop(s, mgr[t][r], claims)
      BY <1>3, <1>6, <1>8, <2>1 DEF PortInv, SignalInv
    <3>3. InMap(t, r) /\ mgr[t][r].gen = s.gen
      BY <1>3, <2>1 DEF OfCurrentLoop
    <3> QED  BY <2>1, <3>1, <3>2, <3>3 DEF OfItsLoop, InMap, Has
  <2> SUFFICES ASSUME slips' \cap {"LateForwarder", "Readded"} = {},
                      NEW u \in Tunnels, NEW q \in Rules, InMap(u, q)', mgr'[u][q].retry
               PROVE  mgr'[u][q].loop = "Ended"
    BY DEF RetryIsOfItsLoop
  <2>2. CASE mgr[u][q].retry
    <3>1. slips \cap {"LateForwarder", "Readded"} = {} /\ InMap(u, q)
      BY <1>8, <1>12
    <3>2. mgr[u][q].loop = "Ended"
      BY <2>2, <3>1 DEF PortInv, RetryIsOfItsLoop
    <3> QED  BY <1>10, <3>2
  <2>3. CASE ~mgr[u][q].retry
    <3>1. u = t /\ q = r /\ OfCurrentLoop(t, s) /\ s.kind = "Refused"
      BY <1>10, <2>3
    <3> QED  BY <1>10, <2>1, <3>1
  <2> QED  BY <2>2, <2>3
<1>18. RowHasItsManager'
  BY <1>8, <1>12, RowFrame DEF InMap
<1>19. ConfigInv'
  BY <1>1 DEF PortInv, ConfigInv, daemon, tunnel
<1>20. LiveInv'
  <2>1. t = cur /\ UNCHANGED <<phase, cur, stored, preset, ctl>>
    BY <1>1, Present DEF daemon, tunnel
  <2> QED  BY <1>8, <1>10, <1>12, <2>1 DEF PortInv, LiveInv
<1> QED  BY <1>11, <1>13, <1>14, <1>15, <1>16, <1>17, <1>18, <1>19, <1>20 DEF PortInv

LEMMA SelectsShutdownKeeps ==
    ASSUME PortInv, NEW t \in Tunnels, SelectsShutdown(t)
    PROVE  PortInv'
<1>1. /\ ctl[t].job = "Select" /\ ~aborted(t) /\ notified(t) /\ AbortForwarders(t, Rules)
      /\ mgr' = [mgr EXCEPT ![t] = [r \in Rules |->
            IF Has(t, r) THEN [mgr[t][r] EXCEPT !.removed = TRUE, !.loop = "None"] ELSE mgr[t][r]]]
      /\ ctl' = [ctl EXCEPT ![t].job = "Drain", ![t].at = {r \in Rules : Has(t, r)}]
      /\ UNCHANGED <<daemon, status, tunnel, signals, slots, slips>>
  BY DEF SelectsShutdown, Selects
<1>2. Rest /\ Types /\ ctl[t] \in Controllers /\ ctl \in [Tunnels -> Controllers]
      /\ mgr \in [Tunnels -> [Rules -> Managers(claims)]]
      /\ UNCHANGED <<daemon, status, tunnel, signals, slots, slips>>
  BY <1>1, RestOf, TypesOf DEF PortInv
<1>3. t = cur /\ phase # "Up"
  <2>1. t = cur /\ cur \in 0 .. MaxTunnels
    BY <1>1, Present
  <2>2. ~(cur < cur)
    BY <2>1, BoundsAssumption
  <2>3. notified(t)
    BY <1>1
  <2> QED  BY <2>1, <2>2, <2>3 DEF notified
<1> DEFINE n(r) == [mgr[t][r] EXCEPT !.removed = TRUE, !.loop = "None"]
<1>4. \A r \in Rules : /\ n(r) \in Managers(claims) /\ n(r).claim = mgr[t][r].claim
                       /\ n(r).slot = mgr[t][r].slot /\ n(r).loop = "None" /\ n(r).removed
  <2> DEFINE out(m) == [m EXCEPT !.removed = TRUE, !.loop = "None"]
  <2>1. \A m \in Managers(claims) : /\ out(m) \in Managers(claims) /\ out(m).claim = m.claim
                                    /\ out(m).slot = m.slot /\ out(m).loop = "None" /\ out(m).removed
    BY DEF Managers
  <2>2. \A r \in Rules : n(r) = out(mgr[t][r]) /\ mgr[t][r] \in Managers(claims)
    BY <1>2
  <2> HIDE DEF out, n
  <2> QED  BY <2>1, <2>2
<1> HIDE DEF n
<1>5. mgr' = [mgr EXCEPT ![t] = [r \in Rules |-> IF Has(t, r) THEN n(r) ELSE mgr[t][r]]]
  BY <1>1 DEF n
<1>6. mgr' \in [Tunnels -> [Rules -> Managers(claims)]]
  <2>1. [r \in Rules |-> IF Has(t, r) THEN n(r) ELSE mgr[t][r]] \in [Rules -> Managers(claims)]
    BY <1>2, <1>4
  <2> QED  BY <1>2, <1>5, <2>1
<1>7. /\ \A u \in Tunnels, q \in Rules : u = t \/ mgr'[u][q] = mgr[u][q]
      /\ \A q \in Rules : mgr'[t][q] = IF Has(t, q) THEN n(q) ELSE mgr[t][q]
  BY <1>2, <1>5
<1>8. /\ ctl' \in [Tunnels -> Controllers] /\ PutCtl(t, ctl'[t])
      /\ ctl'[t].job = "Drain" /\ ctl'[t].at = {r \in Rules : Has(t, r)}
      /\ ctl'[t].changed = ctl[t].changed
  <2> DEFINE at == {r \in Rules : Has(t, r)}
  <2>1. at \in SUBSET Rules
    OBVIOUS
  <2> HIDE DEF at
  <2>2. ctl' = [ctl EXCEPT ![t] = [ctl[t] EXCEPT !.job = "Drain", !.at = at]]
    BY <1>1, <1>2 DEF at
  <2>3. [ctl[t] EXCEPT !.job = "Drain", !.at = at] \in Controllers
    BY <1>2, <2>1 DEF Controllers
  <2>4. ctl'[t] = [ctl[t] EXCEPT !.job = "Drain", !.at = at]
    BY <1>2, <2>2
  <2>5. ctl'[t].job = "Drain" /\ ctl'[t].at = at /\ ctl'[t].changed = ctl[t].changed
    BY <1>2, <2>4 DEF Controllers
  <2> QED  BY <1>2, <2>2, <2>3, <2>5 DEF PutCtl, at
<1>9. late' \subseteq Lates /\ refusals' \in Nat
  BY <1>1, AbortTypes
<1>10. Types'
  BY <1>1, <1>2, <1>6, <1>8, <1>9, TypesNext DEF Rest, daemon, tunnel, slots
<1>11. \A u \in Tunnels, q \in Rules : KeepsClaim(u, q) /\ (Has(u, q)' <=> Has(u, q))
  BY <1>4, <1>7 DEF KeepsClaim, Has
<1>12. /\ \A u \in Tunnels, q \in Rules : InMap(u, q)' => u # t /\ InMap(u, q)
       /\ \A q \in Rules : mgr'[t][q].loop = "None"
       /\ \A q \in Rules : Has(t, q)' => mgr'[t][q].removed
  <2>1. \A q \in Rules : mgr[t][q].loop # "None" => Has(t, q)
    BY DEF PortInv, ManagerInv
  <2> QED  BY <1>4, <1>7, <1>11, <2>1 DEF InMap, Has
<1>13. ClaimInv' /\ SlotIsItsHolders'
  BY <1>1, <1>2, <1>11, ClaimsFrame DEF Rest, tunnel, slots
<1>14. TunnelInv'
  BY <1>1, <1>8, TunnelFrame DEF PutCtl, tunnel
<1>15. ManagerInv'
  <2> SUFFICES ASSUME NEW u \in Tunnels, NEW r \in Rules
               PROVE  /\ mgr'[u][r].loop # "None" => Has(u, r)'
                      /\ r \in ctl'[u].at => mgr'[u][r].loop = "None" /\ (Has(u, r)' \/ mgr'[u][r].removed)
                      /\ ctl'[u].job = "Retry" /\ r \in ctl'[u].todo => InMap(u, r)'
                      /\ ctl'[u].job \in {"Idle", "Select"} => r \notin ctl'[u].at
                      /\ ctl'[u].job = "Drain" => ~InMap(u, r)'
                      /\ ctl'[u].job \in {"Idle", "Dead"} => ~Has(u, r)'
                      /\ ctl'[u].job = "Reconcile" /\ r \in ctl'[u].at /\ InMap(u, r)' => ctl'[u].cfg[r] # "Off"
    BY DEF ManagerInv
  <2>1. CASE u = t
    BY <1>8, <1>11, <1>12, <2>1
  <2>2. CASE u # t
    <3>1. mgr'[u][r] = mgr[u][r] /\ ctl'[u] = ctl[u] /\ (InMap(u, r)' <=> InMap(u, r))
      BY <1>7, <1>8, <2>2 DEF PutCtl, InMap, Has
    <3> QED  BY <1>11, <3>1 DEF PortInv, ManagerInv
  <2> QED  BY <2>1, <2>2
<1>16. SignalInv'
  <2>1. claims' \in Nat /\ claims <= claims' /\ signals' = signals /\ slips' = slips
    BY <1>2 DEF Rest, slots
  <2>2. \A u \in Tunnels, q \in Rules : mgr[u][q].gen \in Nat /\ mgr[u][q].gen >= mgr[u][q].gen
    BY <1>2, TypesOf DEF Managers
  <2>3. \A u \in Tunnels, q \in Rules : InMap(u, q)' => InMap(u, q) /\ mgr'[u][q] = mgr[u][q]
    BY <1>7, <1>12
  <2> QED  BY <1>2, <2>1, <2>2, <2>3, SameSignals, SignalFrame
<1>17. RetryIsOfItsLoop'
  BY <1>1, <1>7, <1>12, RetryFrame
<1>18. RowHasItsManager'
  BY <1>1, <1>11, RowFrame
<1>19. ConfigInv'
  BY <1>1, <1>8, SameConfig
<1>20. LiveInv'
  BY <1>1, <1>3 DEF LiveInv, tunnel
<1> QED  BY <1>10, <1>13, <1>14, <1>15, <1>16, <1>17, <1>18, <1>19, <1>20 DEF PortInv

LEMMA DrainsOneKeeps ==
    ASSUME PortInv, NEW t \in Tunnels, DrainsOne(t)
    PROVE  PortInv'
<1>1. PICK r \in ctl[t].at :
         /\ mgr' = [mgr EXCEPT ![t][r].live = FALSE]
         /\ holders' = release({mgr[t][r]})
         /\ ctl' = [ctl EXCEPT ![t].at = @ \ {r}]
  BY DEF DrainsOne
<1>2. /\ ctl[t].job = "Drain" /\ ~aborted(t)
      /\ UNCHANGED <<daemon, status, tunnel, signals, late, claims, refusals, slips>>
  BY DEF DrainsOne, Awaits
<1>3. /\ r \in Rules /\ Rest /\ Types /\ ctl[t] \in Controllers /\ ctl \in [Tunnels -> Controllers]
      /\ mgr \in [Tunnels -> [Rules -> Managers(claims)]]
  BY RestOf, TypesOf DEF PortInv, Controllers
<1> DEFINE n == [mgr[t][r] EXCEPT !.live = FALSE]
<1>4. mgr[t][r] \in Managers(claims)
  BY <1>3
<1>5. mgr' = [mgr EXCEPT ![t] = [mgr[t] EXCEPT ![r] = n]]
  BY <1>1, <1>3
<1>6. /\ n \in Managers(claims) /\ n.claim = mgr[t][r].claim /\ n.slot = mgr[t][r].slot
      /\ n.gen = mgr[t][r].gen /\ n.loop = mgr[t][r].loop /\ n.retry = mgr[t][r].retry
      /\ n.removed = mgr[t][r].removed
  BY <1>4 DEF Managers
<1> HIDE DEF n
<1>7. /\ mgr'[t][r] = n /\ mgr' \in [Tunnels -> [Rules -> Managers(claims)]]
      /\ \A u \in Tunnels, q \in Rules : (u = t /\ q = r) \/ mgr'[u][q] = mgr[u][q]
  <2>1. n \in Managers(claims) /\ r \in Rules
    BY <1>3, <1>6
  <2> QED  BY <1>5, <2>1, PutSame
<1>8. /\ ctl' \in [Tunnels -> Controllers] /\ PutCtl(t, ctl'[t])
      /\ ctl'[t].job = "Drain" /\ ctl'[t].at \subseteq ctl[t].at
      /\ ctl'[t].changed = ctl[t].changed
  <2>1. ctl' = [ctl EXCEPT ![t] = [ctl[t] EXCEPT !.at = ctl[t].at \ {r}]]
    BY <1>1, <1>3
  <2>2. [ctl[t] EXCEPT !.at = ctl[t].at \ {r}] \in Controllers
    BY <1>3 DEF Controllers
  <2>3. ctl'[t] = [ctl[t] EXCEPT !.at = ctl[t].at \ {r}]
    BY <1>3, <2>1
  <2>4. /\ ctl'[t].job = "Drain" /\ ctl'[t].at \subseteq ctl[t].at
        /\ ctl'[t].changed = ctl[t].changed
    BY <1>2, <1>3, <2>3 DEF Controllers
  <2> QED  BY <1>3, <2>1, <2>2, <2>4 DEF PutCtl
<1>9. holders' \in [Slots -> 0 .. claims]
  BY <1>1, ReleaseType
<1>10. Types'
  BY <1>2, <1>3, <1>7, <1>8, <1>9, TypesNext DEF Rest, daemon, tunnel
<1>11. \A u \in Tunnels, q \in Rules :
          KeepsClaim(u, q) /\ (Has(u, q)' <=> Has(u, q)) /\ (InMap(u, q)' <=> InMap(u, q))
  BY <1>6, <1>7 DEF KeepsClaim, Has, InMap
<1>12. \A q \in Rules : ~InMap(t, q) /\ ~InMap(t, q)'
  BY <1>2, <1>11 DEF PortInv, ManagerInv
<1>13. ClaimInv' /\ SlotIsItsHolders'
  <2>1. PICK rs : rs = {r}
    OBVIOUS
  <2>2. /\ rs \in SUBSET Rules /\ holders' = release({mgr[t][q] : q \in rs})
        /\ \A q \in rs : ~InMap(t, q)'
    BY <1>1, <1>3, <1>12, <2>1
  <2>3. cur' = cur /\ cur \in 0 .. MaxTunnels
    BY <1>2, <1>3 DEF Rest, tunnel
  <2>4. \A u \in Tunnels, q \in Rules : KeepsClaim(u, q) \/ mgr'[u][q].claim = 0
    BY <1>11
  <2> QED  BY <2>2, <2>3, <2>4, ReleaseFrame
<1>14. TunnelInv'
  BY <1>2, <1>8, TunnelFrame DEF PutCtl, tunnel
<1>15. ManagerInv'
  BY <1>2, <1>6, <1>7, <1>8, <1>11 DEF PortInv, ManagerInv, PutCtl
<1>16. SignalInv'
  <2>1. claims' \in Nat /\ claims <= claims' /\ signals' = signals /\ slips' = slips
    BY <1>2, <1>3 DEF Rest
  <2>2. \A u \in Tunnels, q \in Rules : mgr[u][q].gen \in Nat /\ mgr[u][q].gen >= mgr[u][q].gen
    BY <1>3, TypesOf DEF Managers
  <2>3. \A u \in Tunnels, q \in Rules : InMap(u, q)' => InMap(u, q) /\ mgr'[u][q] = mgr[u][q]
    BY <1>7, <1>11, <1>12
  <2> QED  BY <1>3, <2>1, <2>2, <2>3, SameSignals, SignalFrame
<1>17. RetryIsOfItsLoop'
  BY <1>2, <1>7, <1>11, <1>12, RetryFrame
<1>18. RowHasItsManager'
  BY <1>2, <1>11, RowFrame
<1>19. ConfigInv'
  BY <1>2, <1>8, SameConfig
<1>20. LiveInv'
  <2>1. t = cur /\ cur' = cur
    BY <1>2, Present DEF tunnel
  <2> QED  BY <1>12, <2>1 DEF LiveInv
<1> QED  BY <1>10, <1>13, <1>14, <1>15, <1>16, <1>17, <1>18, <1>19, <1>20 DEF PortInv

\* The controller of tunnel t is gone, with every manager it had.
LEMMA Clears ==
    ASSUME PortInv, NEW t \in Tunnels, NEW rs \in SUBSET Rules,
           ctl[t].job # "Idle",
           UNCHANGED <<daemon, tunnel, claims>>,
           mgr' = [mgr EXCEPT ![t] = [r \in Rules |-> NoManager]],
           ctl' = [ctl EXCEPT ![t] = Dead], signals' = [signals EXCEPT ![t] = <<>>],
           holders' = release({mgr[t][r] : r \in rs}),
           late' \subseteq Lates, refusals' \in Nat,
           slips \subseteq slips', slips' \subseteq slips \cup {"CutOff"},
           status' \in [Rules -> Shown],
           slips' \cap {"LateForwarder", "CutOff"} = {} =>
              \A q \in Rules : status'[q] \in Answered => status'[q] = status[q] /\ ~Has(t, q),
           t = cur \/ phase # "Up" \/ "Overrun" \in slips
    PROVE  PortInv'
<1>1. /\ Rest /\ Types /\ ctl \in [Tunnels -> Controllers]
      /\ mgr \in [Tunnels -> [Rules -> Managers(claims)]]
  BY RestOf, TypesOf DEF PortInv
<1>2. /\ Dead \in Controllers /\ Dead.job = "Dead" /\ Dead.at = {}
      /\ NoManager.claim = 0 /\ NoManager.loop = "None"
  BY BlankTypes
<1>3. /\ \A u \in Tunnels, q \in Rules : u = t \/ mgr'[u][q] = mgr[u][q]
      /\ \A q \in Rules : mgr'[t][q] = NoManager
  BY <1>1
<1>4. mgr' \in [Tunnels -> [Rules -> Managers(claims)]]
  <2>1. [r \in Rules |-> NoManager] \in [Rules -> Managers(claims)]
    BY <1>1, BlankTypes DEF Rest
  <2> QED  BY <1>1, <2>1
<1>5. /\ ctl' \in [Tunnels -> Controllers] /\ ctl'[t] = Dead
      /\ \A u \in Tunnels : u = t \/ ctl'[u] = ctl[u]
  BY <1>1, <1>2
<1>6. /\ signals' \in [Tunnels -> Seq(Signals)]
      /\ \A u \in Tunnels : \A i \in 1 .. Len(signals'[u]) :
            \E j \in 1 .. Len(signals[u]) : signals'[u][i] = signals[u][j]
  <2>1. signals \in [Tunnels -> Seq(Signals)] /\ <<>> \in Seq(Signals) /\ Len(<<>>) = 0
    BY <1>1, EmptySeq DEF Rest
  <2>2. signals'[t] = <<>> /\ \A u \in Tunnels : u = t \/ signals'[u] = signals[u]
    BY <2>1
  <2>3. \A i \in 1 .. Len(signals'[t]) : FALSE
    BY <2>1, <2>2
  <2> QED  BY <2>1, <2>2, <2>3
<1>7. holders' \in [Slots -> 0 .. claims]
  BY ReleaseType
<1>8. Types'
  BY <1>1, <1>4, <1>5, <1>6, <1>7, TypesNext DEF Rest, daemon, tunnel
<1>9. /\ \A q \in Rules : ~Has(t, q)' /\ ~InMap(t, q)'
      /\ \A u \in Tunnels, q \in Rules :
            u = t \/ (KeepsClaim(u, q) /\ (Has(u, q)' <=> Has(u, q)) /\ (InMap(u, q)' <=> InMap(u, q)))
  BY <1>2, <1>3 DEF KeepsClaim, Has, InMap
<1>10. ClaimInv' /\ SlotIsItsHolders'
  <2>1. \A u \in Tunnels, q \in Rules : KeepsClaim(u, q) \/ mgr'[u][q].claim = 0
    BY <1>2, <1>3, <1>9
  <2>2. cur' = cur /\ cur \in 0 .. MaxTunnels
    BY <1>1 DEF Rest, tunnel
  <2> QED  BY <1>9, <2>1, <2>2, ReleaseFrame
<1>11. TunnelInv'
  BY <1>2, <1>5, TunnelFrame DEF tunnel
<1>12. ManagerInv'
  BY <1>2, <1>3, <1>5, <1>9 DEF PortInv, ManagerInv
<1>13. SignalInv'
  <2>1. claims' \in Nat /\ claims <= claims'
    BY <1>1 DEF Rest
  <2>2. \A u \in Tunnels, q \in Rules : mgr[u][q].gen \in Nat /\ mgr[u][q].gen >= mgr[u][q].gen
    BY <1>1, TypesOf DEF Managers
  <2>3. \A u \in Tunnels, q \in Rules : InMap(u, q)' => InMap(u, q) /\ mgr'[u][q] = mgr[u][q]
    BY <1>3, <1>9
  <2> QED  BY <1>6, <2>1, <2>2, <2>3, SignalFrame
<1>14. RetryIsOfItsLoop'
  BY <1>3, <1>9, RetryFrame
<1>15. RowHasItsManager'
  BY <1>9, RowFrame
<1>16. cur \in 0 .. MaxTunnels /\ (phase # "Down" => cur \in Tunnels)
  BY Present
<1>17. ConfigInv'
  BY <1>2, <1>5, <1>16 DEF PortInv, ConfigInv, daemon, tunnel
<1>18. LiveInv'
  <2>1. CASE t = cur
    BY <1>9, <2>1 DEF LiveInv, tunnel
  <2>2. CASE t # cur
    <3>1. UNCHANGED <<phase, cur, stored, preset>>
      BY DEF daemon, tunnel
    <3> QED  BY <1>3, <1>5, <1>9, <1>16, <2>2, <3>1 DEF PortInv, LiveInv
  <2> QED  BY <2>1, <2>2
<1> QED  BY <1>8, <1>10, <1>11, <1>12, <1>13, <1>14, <1>15, <1>17, <1>18 DEF PortInv

LEMMA DrainedKeeps ==
    ASSUME PortInv, NEW t \in Tunnels, Drained(t)
    PROVE  PortInv'
<1>1. /\ ctl[t].job = "Drain" /\ ~aborted(t)
      /\ holders' = release({mgr[t][r] : r \in ctl[t].at})
      /\ status' = [r \in Rules |-> IF Has(t, r) THEN "None" ELSE status[r]]
      /\ mgr' = [mgr EXCEPT ![t] = [r \in Rules |-> NoManager]]
      /\ ctl' = [ctl EXCEPT ![t] = Dead] /\ signals' = [signals EXCEPT ![t] = <<>>]
      /\ UNCHANGED <<daemon, tunnel, late, claims, refusals, slips>>
  BY DEF Drained, Awaits
<1>2. Rest /\ ctl[t].at \in SUBSET Rules
  BY RestOf, TypesOf DEF PortInv, Controllers
<1>3. status' \in [Rules -> Shown] /\ late' \subseteq Lates /\ refusals' \in Nat
  BY <1>1, <1>2 DEF Rest, Shown
<1>4. \A q \in Rules : status'[q] \in Answered => status'[q] = status[q] /\ ~Has(t, q)
  BY <1>1 DEF Answered
<1>5. t = cur
  BY <1>1, Present
<1>6. PICK rs \in SUBSET Rules : rs = ctl[t].at
  BY <1>2
<1>7. /\ holders' = release({mgr[t][r] : r \in rs}) /\ ctl[t].job # "Idle"
      /\ slips \subseteq slips' /\ slips' \subseteq slips \cup {"CutOff"}
      /\ UNCHANGED <<daemon, tunnel, claims>>
  BY <1>1, <1>6
<1> QED  BY <1>1, <1>3, <1>4, <1>5, <1>7, Clears

LEMMA AbortTakesEffectKeeps ==
    ASSUME PortInv, NEW t \in Tunnels, AbortTakesEffect(t)
    PROVE  PortInv'
<1>1. /\ ctl[t].job \notin {"Idle", "Dead"} /\ aborted(t) /\ AbortForwarders(t, Rules)
      /\ status' = [r \in Rules |-> IF mgr[t][r].live THEN "None" ELSE status[r]]
      /\ slips' = IF \E r \in Rules : Has(t, r) /\ ~mgr[t][r].live
                  THEN slips \cup {"CutOff"} ELSE slips
      /\ holders' = release({mgr[t][r] : r \in Rules})
      /\ mgr' = [mgr EXCEPT ![t] = [r \in Rules |-> NoManager]]
      /\ ctl' = [ctl EXCEPT ![t] = Dead] /\ signals' = [signals EXCEPT ![t] = <<>>]
      /\ UNCHANGED <<daemon, tunnel, claims>>
  BY DEF AbortTakesEffect, Runs, cancel
<1>2. Rest
  BY RestOf
<1>3. status' \in [Rules -> Shown]
  BY <1>1, <1>2 DEF Rest, Shown
<1>4. late' \subseteq Lates /\ refusals' \in Nat
  BY <1>1, AbortTypes
<1>5. slips \subseteq slips' /\ slips' \subseteq slips \cup {"CutOff"}
  BY <1>1
<1>6. ASSUME slips' \cap {"LateForwarder", "CutOff"} = {}, NEW q \in Rules, status'[q] \in Answered
      PROVE  status'[q] = status[q] /\ ~Has(t, q)
  <2>1. ~mgr[t][q].live /\ status'[q] = status[q]
    BY <1>1, <1>6 DEF Answered
  <2>2. ~\E r \in Rules : Has(t, r) /\ ~mgr[t][r].live
    BY <1>1, <1>6
  <2> QED  BY <2>1, <2>2
<1>7. t = cur \/ phase # "Up" \/ "Overrun" \in slips
  <2>1. t < cur \/ phase \in {"Aborting", "Down"}
    BY <1>1 DEF aborted
  <2>2. t < cur => "Overrun" \in slips
    BY <1>1 DEF PortInv, TunnelInv
  <2> QED  BY <2>1, <2>2
<1>8. PICK rs \in SUBSET Rules : rs = Rules
  OBVIOUS
<1>9. holders' = release({mgr[t][r] : r \in rs}) /\ ctl[t].job # "Idle"
  BY <1>1, <1>8
<1> QED  BY <1>1, <1>3, <1>4, <1>5, <1>6, <1>7, <1>9, Clears

-----------------------------------------------------------------------------
(***************************************************************************)
(* The theorems.                                                           *)
(***************************************************************************)
LEMMA PortInit ==
    ASSUME Init
    PROVE  PortInv
<1>1. /\ stored \in [Rules -> {"Off", "On"}] /\ pushed = stored
  BY DEF Init, Settings
<1>2. mgr \in [Tunnels -> [Rules -> Managers(0)]] /\ ctl \in [Tunnels -> Controllers]
  <2>1. [r \in Rules |-> NoManager] \in [Rules -> Managers(0)]
    BY BlankTypes
  <2> QED  BY <2>1, BlankTypes DEF Init
<1>3. Rest
  <2>1. [s \in Slots |-> 0] \in [Slots -> 0 .. 0]
    OBVIOUS
  <2>2. 0 \in 0 .. MaxTunnels
    BY BoundsAssumption
  <2>3. <<>> \in Seq(Signals)
    BY EmptySeq
  <2>4. holders \in [Slots -> 0 .. claims] /\ signals \in [Tunnels -> Seq(Signals)]
    BY <2>1, <2>3 DEF Init
  <2> QED  BY <1>1, <2>2, <2>4 DEF Init, Rest, Configs, Shown, Lates
<1>4. Types
  BY <1>2, <1>3 DEF Init, Types, TypeOK, Rest, Managers, Controllers, Shapes
<1>5. /\ \A t \in Tunnels : ctl[t].job = "Idle" /\ ctl[t].at = {} /\ signals[t] = <<>>
      /\ \A t \in Tunnels, r \in Rules : mgr[t][r] = NoManager
      /\ cur = 0 /\ phase = "Down" /\ \A r \in Rules : status[r] = "None"
  BY BlankTypes DEF Init
<1>6. \A t \in Tunnels, r \in Rules : ~Has(t, r) /\ ~InMap(t, r) /\ mgr[t][r].loop = "None"
  BY <1>5, BlankTypes DEF Has, InMap
<1>7. ClaimInv /\ ManagerInv /\ RetryIsOfItsLoop
  BY <1>5, <1>6 DEF ClaimInv, ManagerInv, RetryIsOfItsLoop
<1>8. TunnelInv
  BY <1>5 DEF TunnelInv, Tunnels
<1>9. SignalInv
  <2>1. \A t \in Tunnels : \A i \in 1 .. Len(signals[t]) : FALSE
    BY <1>5
  <2> QED  BY <2>1 DEF SignalInv
<1>10. ConfigInv /\ LiveInv /\ SlotIsItsHolders /\ RowHasItsManager
  BY <1>1, <1>5 DEF ConfigInv, LiveInv, SlotIsItsHolders, RowHasItsManager
<1> QED  BY <1>4, <1>7, <1>8, <1>9, <1>10 DEF PortInv

LEMMA PortStep ==
    ASSUME PortInv, [Next]_vars
    PROVE  PortInv'
<1>1. CASE UNCHANGED vars
  <2>1. PortInv' <=> PortInv
    BY <1>1 DEF vars, PortInv, Types, TypeOK, ClaimInv, TunnelInv, ManagerInv, SignalInv, ConfigInv,
                LiveInv, RowHasItsManager, RetryIsOfItsLoop, SlotIsItsHolders, InMap, Has
  <2> QED  BY <2>1
<1>2. ASSUME NEW t \in Tunnels, RuleWorks(t)  PROVE PortInv'
  BY <1>2, LoopAnswersKeeps DEF RuleWorks
<1>3. ASSUME NEW t \in Tunnels, Reconciles(t)  PROVE PortInv'
  BY <1>3, NothingToDoKeeps, ReleaseGoneKeeps, ReleasedKeeps, SpawnRuleKeeps, SkipsDuplicateKeeps,
     ReconfiguresRuleKeeps, RetriesRuleKeeps, RestartedKeeps DEF Reconciles
<1>4. ASSUME NEW t \in Tunnels, Branches(t)  PROVE PortInv'
  BY <1>4, SelectsChangeKeeps, SelectsSignalKeeps, SelectsRetryKeeps, SelectsShutdownKeeps DEF Branches
<1>5. ASSUME NEW t \in Tunnels, Ends(t)  PROVE PortInv'
  BY <1>5, DrainsOneKeeps, DrainedKeeps, AbortTakesEffectKeeps DEF Ends
<1>6. CASE ForwardLate
  BY <1>6, ForwardLateKeeps
<1>7. CASE DaemonSteps
  BY <1>7, PushSettingsKeeps, PresetStatusKeeps, RemapKeeps DEF DaemonSteps
<1>8. CASE TunnelSteps
  BY <1>8, NewTunnelKeeps, SpawnControllerKeeps, TunnelEndsKeeps, WaitsKeep DEF TunnelSteps
<1> QED  BY <1>1, <1>2, <1>3, <1>4, <1>5, <1>6, <1>7, <1>8 DEF Next

\* The inductive invariant holds in every reachable state: what the controllers
\* of run_nat_pmp_controller_until know about their managers, claims and signals.
THEOREM Ports == Spec => []PortInv
<1>1. Init => PortInv
  BY PortInit
<1>2. PortInv /\ [Next]_vars => PortInv'
  BY PortStep
<1> QED  BY <1>1, <1>2, PTL DEF Spec

\* An answer shown in the daemon's status cache is of a rule that a controller
\* has, unless a late forwarder or a cut-off teardown got in between.
THEOREM RowsHaveManagers == Spec => []RowHasItsManager
<1>1. PortInv => RowHasItsManager
  BY DEF PortInv
<1> QED  BY <1>1, Ports, PTL

\* A rule the exit granted to the present tunnel is shown once the pushes and
\* presets are dealt with: no Cancelled of an earlier tunnel deletes it.
THEOREM LiveRulesAreShown == Spec => []LiveRuleKeepsItsRow
<1>1. ASSUME PortInv  PROVE LiveRuleKeepsItsRow
  <2> SUFFICES ASSUME phase = "Up", Selects(cur), ~ctl[cur].changed, ~preset, "Overrun" \notin slips,
                      NEW r \in Rules, InMap(cur, r), mgr[cur][r].loop = "Mapped", status[r] = "None"
               PROVE  FALSE
    BY DEF LiveRuleKeepsItsRow
  <2>1. stored[r] \in {"Off", "On"}
    BY <1>1, RestOf DEF Rest
  <2>2. stored[r] # "Off"
    BY <1>1 DEF PortInv, LiveInv, Selects
  <2>3. stored[r] # "On"
    BY <1>1 DEF PortInv, LiveInv
  <2> QED  BY <2>1, <2>2, <2>3
<1> QED  BY <1>1, Ports, PTL

\* A rule waits for a retry only when its present loop was refused.
THEOREM RetriesAreOfTheLoop == Spec => []RetryIsOfItsLoop
<1>1. PortInv => RetryIsOfItsLoop
  BY DEF PortInv
<1> QED  BY <1>1, Ports, PTL

\* The rules of the newest tunnel hold their slots, whatever an older controller
\* gives back late.
THEOREM SlotsAreHeld == Spec => []SlotIsItsHolders
<1>1. PortInv => SlotIsItsHolders
  BY DEF PortInv
<1> QED  BY <1>1, Ports, PTL

\* Every variable keeps its type; lowest_free_slot always finds a slot.
THEOREM PortTypes == Spec => []TypeOK
<1>1. PortInv => TypeOK
  BY DEF PortInv, Types
<1> QED  BY <1>1, Ports, PTL

===============================================================================
