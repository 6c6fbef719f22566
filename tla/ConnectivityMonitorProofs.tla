----------------------- MODULE ConnectivityMonitorProofs -----------------------
(***************************************************************************)
(* Proofs about the way from the link to the state machine, for every      *)
(* settle time and every number of changes of the link, with a channel     *)
(* between the monitor and the debounce task that has no bound.            *)
(*                                                                         *)
(* The invariants look at what arrives; what makes them inductive is what  *)
(* is on its way: the newest edge in the pipeline is what the monitor      *)
(* knows, and a probe that no event contradicts is a probe of this link.   *)
(***************************************************************************)
EXTENDS ConnectivityMonitor, TLAPS, SequenceTheorems

\* The newest edge that was reported, wherever it is now, and Nothing before the
\* first.
Newest ==
    IF offlineRx # <<>> THEN offlineRx[Len(offlineRx)]
    ELSE IF pending # Nothing THEN pending ELSE sent

\* What a probe of the link as it is now may answer.
Answers == {link} \cup IF ProbesFail THEN {link \cap {"v4"}, PresumeOnline} ELSE {}

BootPhases == {"start", "probing", "subscribing"}
PipelineInv ==
    /\ Newest \in {monitor.known, Nothing}
    /\ boot \in BootPhases => monitor.phase = "unsubscribed"
    /\ monitor.phase = "unsubscribed" => Newest = Nothing
    /\ pending # Offline

\* The debounce timer runs no longer than it is quiet.
TimerInv == armed <= quiet

ProbeInv ==
    /\ monitor.phase = "probing" /\ ~event => monitor.v4 \in ProbeV4
    /\ monitor.phase = "probing" \/ boot = "probing" => monitor.v4 # Nothing
    /\ boot = "reading6" => first # Nothing
    /\ monitor.phase = "idle" /\ ~event /\ Newest # Nothing => monitor.known \in Answers

\* The API client hears what the state machine hears, until the first value.
ApiInv ==
    /\ boot # "running" => api = sent
    /\ boot = "running" => api \in {sent, first}

MonitorInv == TypeOK /\ PipelineInv /\ TimerInv /\ ProbeInv /\ ApiInv

-----------------------------------------------------------------------------
(***************************************************************************)
(* Values.                                                                 *)
(***************************************************************************)
LEMMA ValuesDiffer ==
    /\ Nothing \notin Views /\ Nothing # Offline /\ Nothing # PresumeOnline
    /\ PresumeOnline \notin Links /\ Offline \in Views /\ Links \subseteq Views
<1>1. "nothing" \notin {"v4", "v6"} /\ "presumed" \notin {"v4", "v6"} /\ "nothing" # "presumed"
  OBVIOUS
<1>2. "nothing" \in Nothing /\ "presumed" \in PresumeOnline /\ "nothing" \notin PresumeOnline
  BY <1>1 DEF Nothing, PresumeOnline
<1>3. \A l \in Links : "nothing" \notin l /\ "presumed" \notin l
  BY <1>1 DEF Links
<1>4. Offline \in Links
  BY DEF Offline, Links
<1> QED  BY <1>2, <1>3, <1>4 DEF Views

\* A probe answers a view, and a complete one what the link is, or what the
\* failures leave of it.
LEMMA ProbeViews ==
    ASSUME TypeOK
    PROVE  /\ ProbeV4 \subseteq Views
           /\ \A v4 \in Views : ProbeV6(v4) \subseteq Views
           /\ \A v4 \in ProbeV4 : ProbeV6(v4) \subseteq Answers
<1>1. link \in Links /\ link \cap {"v4"} \in Links /\ PresumeOnline \notin Links
  BY ValuesDiffer DEF TypeOK, Links
<1>2. ProbeV4 \subseteq Views
  BY <1>1 DEF ProbeV4, Views
<1>3. ASSUME NEW v4 \in Views PROVE ProbeV6(v4) \subseteq Views
  <2>1. CASE v4 = PresumeOnline
    BY <2>1 DEF ProbeV6, Views
  <2>2. CASE v4 # PresumeOnline
    <3>1. v4 \in Links /\ v4 \cup (link \cap {"v6"}) \in Links
      BY <1>1, <2>2 DEF Views, Links
    <3> QED  BY <2>2, <3>1 DEF ProbeV6, Views
  <2> QED  BY <2>1, <2>2
<1>4. ASSUME NEW v4 \in ProbeV4 PROVE ProbeV6(v4) \subseteq Answers
  <2>1. CASE v4 = PresumeOnline
    <3>1. ProbesFail
      BY <1>1, <2>1, <1>4 DEF ProbeV4
    <3> QED  BY <2>1, <3>1 DEF ProbeV6, Answers
  <2>2. CASE v4 # PresumeOnline
    <3>1. v4 = link \cap {"v4"}
      BY <2>2 DEF ProbeV4
    <3>2. v4 \cup (link \cap {"v6"}) = link
      BY <1>1, <3>1 DEF Links
    <3> QED  BY <2>2, <3>1, <3>2 DEF ProbeV6, Answers
  <2> QED  BY <2>1, <2>2
<1> QED  BY <1>2, <1>3, <1>4

\* The newest edge is at the end of the channel: appending replaces it, and
\* taking the oldest leaves it, unless that was the only one.
LEMMA Channel ==
    ASSUME NEW S, NEW s \in Seq(S)
    PROVE  /\ \A x \in S : /\ Append(s, x) \in Seq(S) /\ Append(s, x) # <<>>
                           /\ Append(s, x)[Len(Append(s, x))] = x
           /\ s # <<>> => /\ Head(s) \in S /\ Tail(s) \in Seq(S)
                          /\ s[Len(s)] \in S
                          /\ Tail(s) # <<>> => Tail(s)[Len(Tail(s))] = s[Len(s)]
                          /\ Tail(s) = <<>> => s[Len(s)] = Head(s)
<1>1. ASSUME NEW x \in S
      PROVE  /\ Append(s, x) \in Seq(S) /\ Append(s, x) # <<>>
             /\ Append(s, x)[Len(Append(s, x))] = x
  OBVIOUS
<1>2. ASSUME s # <<>>
      PROVE  /\ Head(s) \in S /\ Tail(s) \in Seq(S) /\ s[Len(s)] \in S
             /\ Tail(s) # <<>> => Tail(s)[Len(Tail(s))] = s[Len(s)]
             /\ Tail(s) = <<>> => s[Len(s)] = Head(s)
  <2>1. Len(s) \in Nat /\ Len(s) # 0 /\ Len(Tail(s)) = Len(s) - 1 /\ Head(s) = s[1]
    BY <1>2
  <2>2. Head(s) \in S /\ Tail(s) \in Seq(S) /\ s[Len(s)] \in S
    BY <1>2, <2>1
  <2>0. \A n \in Nat : (n - 1) + 1 = n /\ (n - 1 = 0 => n = 1)
    OBVIOUS
  <2>3. ASSUME Tail(s) # <<>> PROVE Tail(s)[Len(Tail(s))] = s[Len(s)]
    <3>1. Len(Tail(s)) \in Nat \ {0}
      BY <2>2, <2>3, EmptySeq, Zenon
    <3>2. Len(s) - 1 \in 1 .. Len(Tail(s))
      BY <2>1, <3>1
    <3>3. Tail(s)[Len(s) - 1] = s[(Len(s) - 1) + 1]
      BY <1>2, <3>2, HeadTailProperties
    <3> QED  BY <2>0, <2>1, <3>3, Zenon
  <2>4. ASSUME Tail(s) = <<>> PROVE s[Len(s)] = Head(s)
    <3>1. Len(Tail(s)) = 0
      BY <2>4, EmptySeq, Zenon
    <3>2. Len(s) = 1
      BY <2>0, <2>1, <3>1, Zenon
    <3> QED  BY <2>1, <3>2
  <2> QED  BY <2>2, <2>3, <2>4
<1> QED  BY <1>1, <1>2

-----------------------------------------------------------------------------
(***************************************************************************)
(* Every step keeps the invariant.                                         *)
(***************************************************************************)
\* A step that leaves the pipeline alone leaves its newest edge.
LEMMA NewestSame ==
    ASSUME UNCHANGED <<offlineRx, pending, sent>>
    PROVE  Newest' = Newest
BY DEF Newest

LEMMA LinkChangesKeeps ==
    ASSUME MonitorInv, LinkChanges
    PROVE  MonitorInv'
<1> USE DEF MonitorInv
<1>1. Newest' = Newest
  BY NewestSame DEF LinkChanges, debounce
<1>2. TypeOK'
  BY MaxChangesAssumption DEF TypeOK, LinkChanges, debounce
<1>3. PipelineInv' /\ TimerInv' /\ ApiInv'
  BY <1>1 DEF PipelineInv, TimerInv, ApiInv, LinkChanges, debounce
<1>4. ProbeInv'
  BY <1>1 DEF ProbeInv, LinkChanges, debounce
<1> QED  BY <1>2, <1>3, <1>4

LEMMA BootProbesKeeps ==
    ASSUME MonitorInv, BootProbes
    PROVE  MonitorInv'
<1> USE DEF MonitorInv
<1>1. Newest' = Newest
  BY NewestSame DEF BootProbes, debounce
<1>2. /\ monitor.phase = "unsubscribed" /\ Newest = Nothing
      /\ monitor \in [phase : {"unsubscribed", "idle", "probing"}, known : Views \cup {Nothing},
                      v4 : Views \cup {Nothing}]
  BY DEF BootProbes, PipelineInv, BootPhases, TypeOK
<1>3. CASE boot = "start"
  <2>1. boot' = "probing"
    BY <1>3 DEF BootProbes
  <2>2. PICK c \in ProbeV4 : monitor' = [monitor EXCEPT !.v4 = c]
    BY <1>3 DEF BootProbes
  <2>3. c \in Views /\ c # Nothing
    BY ProbeViews, ValuesDiffer
  <2>4. TypeOK'
    BY <1>2, <2>1, <2>2, <2>3 DEF TypeOK, BootProbes, debounce
  <2>5. monitor'.phase = "unsubscribed" /\ monitor'.v4 = c
    BY <1>2, <2>2
  <2> QED  BY <1>1, <1>2, <2>1, <2>3, <2>4, <2>5
           DEF PipelineInv, BootPhases, TimerInv, ApiInv, ProbeInv, BootProbes, debounce
<1>4. CASE boot = "probing"
  <2>1. boot' = "subscribing"
    BY <1>4 DEF BootProbes
  <2>2. PICK c \in ProbeV6(monitor.v4) : monitor' = [monitor EXCEPT !.v4 = Nothing, !.known = c]
    BY <1>4 DEF BootProbes
  <2>3. c \in Views
    BY <1>2, <1>4, ProbeViews DEF ProbeInv
  <2>4. TypeOK'
    BY <1>2, <2>1, <2>2, <2>3 DEF TypeOK, BootProbes, debounce
  <2>5. monitor'.phase = "unsubscribed"
    BY <1>2, <2>2
  <2> QED  BY <1>1, <1>2, <2>1, <2>4, <2>5
           DEF PipelineInv, BootPhases, TimerInv, ApiInv, ProbeInv, BootProbes, debounce
<1> QED  BY <1>3, <1>4 DEF BootProbes

LEMMA BootSubscribesKeeps ==
    ASSUME MonitorInv, BootSubscribes
    PROVE  MonitorInv'
<1> USE DEF MonitorInv
<1>1. Newest' = Newest /\ Newest = Nothing
  BY NewestSame DEF BootSubscribes, debounce, PipelineInv, BootPhases
<1>2. /\ monitor \in [phase : {"unsubscribed", "idle", "probing"}, known : Views \cup {Nothing},
                      v4 : Views \cup {Nothing}]
  BY DEF TypeOK
<1>3. CASE boot' = "reading" /\ first' = first /\ monitor' = [monitor EXCEPT !.phase = "idle"]
  <2>1. monitor'.phase = "idle" /\ monitor'.known = monitor.known
    BY <1>2, <1>3
  <2>2. TypeOK'
    BY <1>2, <1>3 DEF TypeOK, BootSubscribes, debounce
  <2> QED  BY <1>1, <1>3, <2>1, <2>2
           DEF PipelineInv, BootPhases, TimerInv, ApiInv, ProbeInv, BootSubscribes, debounce
<1>4. CASE /\ boot' = "publishing" /\ first' = PresumeOnline
           /\ monitor' = [monitor EXCEPT !.known = Nothing]
  <2>1. monitor.phase = "unsubscribed"
    BY DEF BootSubscribes, PipelineInv, BootPhases
  <2>2. monitor'.phase = "unsubscribed" /\ monitor'.known = Nothing
    BY <1>2, <1>4, <2>1
  <2>3. PresumeOnline \in Views
    BY DEF Views
  <2>4. TypeOK'
    BY <1>2, <1>4, <2>3 DEF TypeOK, BootSubscribes, debounce
  <2> QED  BY <1>1, <1>4, <2>2, <2>4
           DEF PipelineInv, BootPhases, TimerInv, ApiInv, ProbeInv, BootSubscribes, debounce
<1> QED  BY <1>3, <1>4 DEF BootSubscribes

LEMMA BootReadsKeeps ==
    ASSUME MonitorInv, BootReads
    PROVE  MonitorInv'
<1> USE DEF MonitorInv
<1>1. Newest' = Newest
  BY NewestSame DEF BootReads, debounce
<1>2. first' \in Views /\ first' # Nothing
  <2>1. CASE boot = "reading"
    BY <2>1, ProbeViews, ValuesDiffer DEF BootReads
  <2>2. CASE boot = "reading6"
    <3>1. first \in Views
      BY <2>2 DEF ProbeInv, TypeOK
    <3> QED  BY <2>2, <3>1, ProbeViews, ValuesDiffer DEF BootReads
  <2> QED  BY <2>1, <2>2 DEF BootReads
<1>3. TypeOK'
  BY <1>2 DEF TypeOK, BootReads, debounce
<1> QED  BY <1>1, <1>2, <1>3
         DEF PipelineInv, BootPhases, TimerInv, ApiInv, ProbeInv, ProbeV4, Answers, BootReads, debounce

LEMMA BootPublishesKeeps ==
    ASSUME MonitorInv, BootPublishes
    PROVE  MonitorInv'
<1> USE DEF MonitorInv
<1>1. Newest' = Newest
  BY NewestSame DEF BootPublishes
<1>2. TypeOK'
  BY DEF TypeOK, BootPublishes
<1> QED  BY <1>1, <1>2
         DEF PipelineInv, BootPhases, TimerInv, ApiInv, ProbeInv, ProbeV4, Answers, BootPublishes

LEMMA MonitorWakesKeeps ==
    ASSUME MonitorInv, MonitorWakes
    PROVE  MonitorInv'
<1> USE DEF MonitorInv
<1>1. Newest' = Newest
  BY NewestSame DEF MonitorWakes, debounce
<1>2. PICK c \in ProbeV4 : monitor' = [monitor EXCEPT !.phase = "probing", !.v4 = c]
  BY DEF MonitorWakes
<1>3. c \in Views /\ c # Nothing
  BY ProbeViews, ValuesDiffer
<1>4. /\ monitor \in [phase : {"unsubscribed", "idle", "probing"}, known : Views \cup {Nothing},
                      v4 : Views \cup {Nothing}]
  BY DEF TypeOK
<1>5. monitor'.phase = "probing" /\ monitor'.known = monitor.known /\ monitor'.v4 = c
  BY <1>2, <1>4
<1>6. TypeOK'
  BY <1>2, <1>3, <1>4 DEF TypeOK, MonitorWakes, debounce
<1> QED  BY <1>1, <1>3, <1>5, <1>6
         DEF PipelineInv, BootPhases, TimerInv, ApiInv, ProbeInv, ProbeV4, MonitorWakes, debounce

LEMMA MonitorReportsKeeps ==
    ASSUME MonitorInv, MonitorReports
    PROVE  MonitorInv'
<1> USE DEF MonitorInv
<1>1. PICK c \in ProbeV6(monitor.v4) :
         /\ monitor' = [phase |-> "idle", known |-> c, v4 |-> Nothing]
         /\ offlineRx' = IF c = monitor.known THEN offlineRx ELSE Append(offlineRx, c)
  BY DEF MonitorReports
<1>2. c \in Views
  BY ProbeViews DEF ProbeInv, MonitorReports, TypeOK
<1>3. ~event => c \in Answers
  BY ProbeViews DEF ProbeInv, MonitorReports
<1>4. offlineRx \in Seq(Views) /\ offlineRx' \in Seq(Views)
  BY <1>1, <1>2, Channel DEF TypeOK
<1>5. Newest' \in {c, Nothing}
  <2>1. CASE c = monitor.known
    BY <1>1, <2>1, NewestSame DEF MonitorReports, PipelineInv
  <2>2. CASE c # monitor.known
    BY <1>1, <1>2, <1>4, <2>2, Channel DEF Newest
  <2> QED  BY <2>1, <2>2
<1>6. TypeOK'
  BY <1>1, <1>2, <1>4 DEF TypeOK, MonitorReports
<1>7. monitor'.phase = "idle" /\ monitor'.known = c
  BY <1>1
<1>8. PipelineInv' /\ TimerInv' /\ ApiInv'
  BY <1>5, <1>7 DEF PipelineInv, BootPhases, TimerInv, ApiInv, MonitorReports
<1>9. ProbeInv'
  BY <1>3, <1>7 DEF ProbeInv, Answers, MonitorReports, PipelineInv, BootPhases
<1> QED  BY <1>6, <1>8, <1>9

\* Taking the oldest edge leaves the newest one, wherever it ends up.
LEMMA TakesEdge ==
    ASSUME MonitorInv, OfflineEdge \/ OnlineEdge
    PROVE  /\ Newest' = Newest /\ Newest # Nothing /\ Head(offlineRx) \in Views
           /\ offlineRx' \in Seq(Views)
<1>1. /\ offlineRx \in Seq(Views) /\ offlineRx # <<>> /\ offlineRx' = Tail(offlineRx)
  BY DEF MonitorInv, TypeOK, OfflineEdge, OnlineEdge
<1>2. /\ Head(offlineRx) \in Views /\ Tail(offlineRx) \in Seq(Views)
      /\ Newest = offlineRx[Len(offlineRx)] /\ Newest \in Views
  BY <1>1, Channel DEF Newest
<1>3. CASE offlineRx' # <<>>
  BY <1>1, <1>2, <1>3, Channel, ValuesDiffer DEF Newest
<1>4. CASE offlineRx' = <<>>
  <2>1. Newest = Head(offlineRx)
    BY <1>1, <1>2, <1>4, Channel
  <2>2. Newest' = Head(offlineRx)
    BY <1>2, <1>4, ValuesDiffer DEF Newest, OfflineEdge, OnlineEdge
  <2> QED  BY <1>1, <1>2, <2>1, <2>2, ValuesDiffer
<1> QED  BY <1>3, <1>4

LEMMA OfflineEdgeKeeps ==
    ASSUME MonitorInv, OfflineEdge
    PROVE  MonitorInv'
<1> USE DEF MonitorInv
<1>1. Newest' = Newest /\ Newest # Nothing /\ offlineRx' \in Seq(Views)
  BY TakesEdge
<1>2. TypeOK'
  BY <1>1, SettleAssumption, ValuesDiffer DEF TypeOK, OfflineEdge
<1>3. PipelineInv' /\ ProbeInv'
  BY <1>1, ValuesDiffer DEF PipelineInv, ProbeInv, ProbeV4, Answers, OfflineEdge
<1>4. TimerInv' /\ ApiInv'
  BY DEF TimerInv, ApiInv, OfflineEdge, TypeOK
<1> QED  BY <1>2, <1>3, <1>4

LEMMA OnlineEdgeKeeps ==
    ASSUME MonitorInv, OnlineEdge
    PROVE  MonitorInv'
<1> USE DEF MonitorInv
<1>1. /\ Newest' = Newest /\ Newest # Nothing /\ offlineRx' \in Seq(Views)
      /\ Head(offlineRx) \in Views
  BY TakesEdge
<1>2. TypeOK'
  BY <1>1, SettleAssumption DEF TypeOK, OnlineEdge
<1>3. PipelineInv' /\ ProbeInv'
  BY <1>1, ValuesDiffer DEF PipelineInv, ProbeInv, ProbeV4, Answers, OnlineEdge
<1>4. TimerInv' /\ ApiInv'
  BY DEF TimerInv, ApiInv, OnlineEdge, TypeOK
<1> QED  BY <1>2, <1>3, <1>4

LEMMA SettleFiresKeeps ==
    ASSUME MonitorInv, SettleFires
    PROVE  MonitorInv' /\ sent' = monitor.known /\ quiet = Settle
<1> USE DEF MonitorInv
<1>1. Newest' = Newest /\ Newest = pending /\ pending # Nothing
  BY DEF Newest, SettleFires
<1>2. sent' = monitor.known
  BY <1>1 DEF PipelineInv, SettleFires
<1>3. quiet = Settle
  BY SettleAssumption DEF TypeOK, TimerInv, SettleFires
<1>4. TypeOK'
  BY SettleAssumption DEF TypeOK, SettleFires
<1>5. PipelineInv' /\ ProbeInv'
  BY <1>1, ValuesDiffer DEF PipelineInv, ProbeInv, ProbeV4, Answers, SettleFires
<1>6. TimerInv' /\ ApiInv'
  BY DEF TimerInv, ApiInv, SettleFires
<1> QED  BY <1>2, <1>3, <1>4, <1>5, <1>6

LEMMA TickKeeps ==
    ASSUME MonitorInv, Tick
    PROVE  MonitorInv'
<1> USE DEF MonitorInv
<1>1. Newest' = Newest
  BY NewestSame DEF Tick
<1>2. armed' \in 0 .. Settle /\ quiet' \in 0 .. Settle /\ armed' <= quiet'
  BY SettleAssumption DEF TypeOK, TimerInv, Tick, AtMost
<1>3. TypeOK'
  BY <1>2 DEF TypeOK, Tick
<1> QED  BY <1>1, <1>2, <1>3 DEF PipelineInv, TimerInv, ApiInv, ProbeInv, ProbeV4, Answers, Tick

-----------------------------------------------------------------------------
(***************************************************************************)
(* The theorems.                                                           *)
(***************************************************************************)
LEMMA MonitorInit ==
    ASSUME Init
    PROVE  MonitorInv
<1>1. Newest = Nothing
  BY DEF Init, Newest
<1>2. TypeOK
  <2>1. 0 \in 0 .. MaxChanges /\ 0 \in 0 .. Settle /\ Settle \in 0 .. Settle
    BY SettleAssumption, MaxChangesAssumption
  <2>2. <<>> \in Seq(Views)
    OBVIOUS
  <2> QED  BY <2>1, <2>2 DEF Init, TypeOK
<1> QED  BY <1>1, <1>2, SettleAssumption, ValuesDiffer
         DEF Init, MonitorInv, PipelineInv, BootPhases, TimerInv, ProbeInv, ApiInv

LEMMA MonitorStep ==
    ASSUME MonitorInv, [Next]_vars
    PROVE  MonitorInv'
<1>1. CASE UNCHANGED vars
  BY <1>1 DEF MonitorInv, TypeOK, PipelineInv, TimerInv, ProbeInv, ApiInv, Newest, ProbeV4,
              Answers, vars
<1> QED  BY <1>1, LinkChangesKeeps, BootProbesKeeps, BootSubscribesKeeps, BootReadsKeeps,
            BootPublishesKeeps, MonitorWakesKeeps, MonitorReportsKeeps, OfflineEdgeKeeps,
            OnlineEdgeKeeps, SettleFiresKeeps, TickKeeps DEF Next, Boot, Tasks

\* The inductive invariant: the newest edge of the pipeline is what the monitor
\* knows, and what it knows is a probe of this link unless an event waits.
THEOREM MonitorInvariant == Spec => []MonitorInv
<1>1. Init => MonitorInv
  BY MonitorInit
<1>2. MonitorInv /\ [Next]_vars => MonitorInv'
  BY MonitorStep
<1> QED  BY <1>1, <1>2, PTL DEF Spec

\* An offline edge is never held back by the debounce
\* (run_connectivity_debounce), whatever burst came before it.
THEOREM OfflineAtOnce == Spec => []OfflineIsNotHeldBack
<1>1. MonitorInv => OfflineIsNotHeldBack
  BY ValuesDiffer DEF MonitorInv, PipelineInv, Newest, OfflineIsNotHeldBack
<1> QED  BY <1>1, MonitorInvariant, PTL

\* No change of the link after the first report is lost on its way to the state
\* machine, and the API client knows what the machine knows.
THEOREM ReportsArrive == Spec => []ReportsFollowLink
<1>1. MonitorInv /\ Drained /\ sent # Nothing => monitor.phase = "idle" /\ Newest = sent
  BY DEF MonitorInv, TypeOK, PipelineInv, Newest, Drained
<1>2. MonitorInv => ReportsFollowLink
  BY <1>1 DEF MonitorInv, PipelineInv, ProbeInv, ApiInv, Answers, Drained, ReportsFollowLink
<1> QED  BY <1>2, MonitorInvariant, PTL

\* Every online edge the debounce task sends is the newest one there is, and
\* comes a settle time after the one before.
THEOREM OnlineIsSettled == Spec => OnlineIsFreshAndSettled
<1> DEFINE Settled == sent' # sent /\ sent' # Offline
                        => sent' = monitor.known /\ offlineRx = <<>> /\ quiet = Settle
<1>1. MonitorInv /\ [Next]_vars => [Settled]_vars
  <2> SUFFICES ASSUME MonitorInv, Next, sent' # sent, sent' # Offline
               PROVE  sent' = monitor.known /\ offlineRx = <<>> /\ quiet = Settle
    OBVIOUS
  <2>1. SettleFires
    BY DEF Next, LinkChanges, Boot, BootProbes, BootSubscribes, BootReads, BootPublishes, Tasks,
           MonitorWakes, MonitorReports, OfflineEdge, OnlineEdge, Tick, debounce
  <2> QED  BY <2>1, SettleFiresKeeps DEF SettleFires
<1> QED  BY <1>1, MonitorInvariant, PTL DEF Spec, OnlineIsFreshAndSettled
===============================================================================
