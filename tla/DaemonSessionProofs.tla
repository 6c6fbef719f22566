------------------------- MODULE DaemonSessionProofs -------------------------
(***************************************************************************)
(* Proofs about the daemon and the state machine beside it, for channels   *)
(* without a bound and any number of requests.                             *)
(*                                                                         *)
(* The properties speak of a machine that has read what it was sent.  What *)
(* makes them inductive is what is still on its way: of the commands that  *)
(* contradict each other, the last one in the channel is the one that      *)
(* counts, and it is the one the daemon's own state asks for.              *)
(***************************************************************************)
EXTENDS DaemonSession, TLAPS, SequenceTheorems

MachineStates == {"Disconnected", "Disconnecting", "Error"} \cup Up
BlockCauses == {"Revoked", "Ban", "Expired"}
Commands ==
    {Plain(kind) : kind \in {"LockdownOn", "LockdownOff", "Connect", "Disconnect"}}
        \cup {Command("Block", cause) : cause \in BlockCauses}
Events ==
    [kind : {"Transition", "Login", "Logout", "Revoked", "Reconnect", "Shutdown"},
     state : MachineStates \cup {None}, cause : Causes \cup {None}]
Logins == {"LoggedIn", "LoggedOut", "Revoked"}
Files == [holds : {"Secured", "Unsecured", "Torn", None}, stale : BOOLEAN]
Daemons ==
    [target : {"Secured", "Unsecured"}, file : Files,
     locked : BOOLEAN, view : [state : MachineStates \cup {None}, cause : Causes \cup {None}],
     retry : BOOLEAN, login : Logins, pending : Seq(BOOLEAN), generation : Nat,
     connectInFlight : BOOLEAN, ban : BOOLEAN, blockedForBan : BOOLEAN, armed : BOOLEAN,
     setting : BOOLEAN, auto : BOOLEAN, data : Logins, identity : BOOLEAN,
     sent : Seq(Commands), told : Seq(Events)]
Machines ==
    [state : MachineStates, after : {"Nothing", "Reconnect", "Block", None},
     cause : Causes \cup {None}, lockdown : BOOLEAN, blocked : BOOLEAN]

Types ==
    /\ proc \in {"Running", "Waiting", "Closing", "Dead"}
    /\ daemon \in Daemons /\ daemon.sent = <<>> /\ daemon.told = <<>>
    /\ machine \in Machines
    /\ commands \in Seq(Commands) /\ inbox \in Seq(Events)
    /\ deadlines \subseteq Nat /\ deadman \in Nat /\ requests \in 0 .. MaxRequests
    /\ promised \in BOOLEAN

-----------------------------------------------------------------------------
\* What ends a block.
Ends == {"Connect", "Disconnect"}

(***************************************************************************)
(* Commands on their way.  A kind of `on' is coming when none of `off'     *)
(* follows it; a channel is clear of `off' when it holds none.             *)
(***************************************************************************)
Coming(cs, on, off) ==
    \E i \in 1 .. Len(cs) : /\ cs[i].kind \in on
                            /\ \A j \in (i + 1) .. Len(cs) : cs[j].kind \notin off
Clear(cs, off) == \A j \in 1 .. Len(cs) : cs[j].kind \notin off

\* What is sent after it does not hold back what is coming, unless it is of `off'.
LEMMA SentAfter ==
    ASSUME NEW cs \in Seq(Commands), NEW s \in Seq(Commands), NEW on, NEW off, Clear(s, off)
    PROVE  /\ Coming(cs, on, off) => Coming(cs \o s, on, off)
           /\ Clear(cs, off) => Clear(cs \o s, off)
           /\ (\E i \in 1 .. Len(s) : s[i].kind \in on) => Coming(cs \o s, on, off)
<1>1. /\ Len(cs) \in Nat /\ Len(s) \in Nat
      /\ Len(cs \o s) = Len(cs) + Len(s)
      /\ \A i \in 1 .. Len(cs) + Len(s) :
            (cs \o s)[i] = IF i <= Len(cs) THEN cs[i] ELSE s[i - Len(cs)]
  BY ConcatProperties, LenProperties
<1>2. \A j \in 1 .. Len(cs) + Len(s) : j > Len(cs) => (cs \o s)[j].kind \notin off
  <2> TAKE j \in 1 .. Len(cs) + Len(s)
  <2> HAVE j > Len(cs)
  <2>1. j - Len(cs) \in 1 .. Len(s)
    BY <1>1
  <2> QED  BY <1>1, <2>1 DEF Clear
<1>3. ASSUME Coming(cs, on, off) PROVE Coming(cs \o s, on, off)
  <2>1. PICK i \in 1 .. Len(cs) : /\ cs[i].kind \in on
                                  /\ \A j \in (i + 1) .. Len(cs) : cs[j].kind \notin off
    BY <1>3 DEF Coming
  <2>2. i \in 1 .. Len(cs \o s) /\ (cs \o s)[i].kind \in on
    BY <1>1, <2>1
  <2>3. ASSUME NEW j \in (i + 1) .. Len(cs \o s) PROVE (cs \o s)[j].kind \notin off
    <3>1. CASE j <= Len(cs)
      BY <1>1, <2>1, <3>1
    <3>2. CASE j > Len(cs)
      BY <1>1, <1>2, <3>2
    <3> QED  BY <1>1, <3>1, <3>2
  <2> QED  BY <2>2, <2>3 DEF Coming
<1>4. ASSUME Clear(cs, off) PROVE Clear(cs \o s, off)
  BY <1>1, <1>2, <1>4 DEF Clear
<1>5. ASSUME NEW i \in 1 .. Len(s), s[i].kind \in on PROVE Coming(cs \o s, on, off)
  <2>1. PICK k : k = Len(cs) + i
    OBVIOUS
  <2>2. k \in 1 .. Len(cs \o s) /\ ~(k <= Len(cs)) /\ k - Len(cs) = i
    BY <1>1, <2>1
  <2>3. (cs \o s)[k].kind \in on
    BY <1>1, <1>5, <2>2
  <2>4. \A j \in (k + 1) .. Len(cs \o s) : (cs \o s)[j].kind \notin off
    BY <1>1, <1>2, <2>2
  <2> QED  BY <2>2, <2>3, <2>4 DEF Coming
<1> QED  BY <1>3, <1>4, <1>5

\* A command is read: what is coming was it, or still is coming.
LEMMA Reads ==
    ASSUME NEW cs \in Seq(Commands), cs # <<>>, NEW on, NEW off
    PROVE  /\ Coming(cs, on, off) => \/ Coming(Tail(cs), on, off)
                                     \/ Head(cs).kind \in on /\ Clear(Tail(cs), off)
           /\ Clear(cs, off) => Head(cs).kind \notin off /\ Clear(Tail(cs), off)
<1>1. /\ Len(cs) \in Nat \ {0} /\ Head(cs) = cs[1]
      /\ Len(Tail(cs)) = Len(cs) - 1
      /\ \A i \in 1 .. Len(Tail(cs)) : Tail(cs)[i] = cs[i + 1]
  BY HeadTailProperties, LenProperties, EmptySeq
<1>2. ASSUME NEW i \in 1 .. Len(cs), cs[i].kind \in on,
             \A j \in (i + 1) .. Len(cs) : cs[j].kind \notin off
      PROVE  Coming(Tail(cs), on, off) \/ (Head(cs).kind \in on /\ Clear(Tail(cs), off))
  <2>1. CASE i = 1
    BY <1>1, <1>2, <2>1 DEF Clear
  <2>2. CASE i # 1
    <3>1. PICK k : k = i - 1
      OBVIOUS
    <3>2. k \in 1 .. Len(Tail(cs)) /\ k + 1 = i
      BY <1>1, <2>2, <3>1
    <3>3. Tail(cs)[k].kind \in on
      BY <1>1, <1>2, <3>2
    <3>4. \A j \in (k + 1) .. Len(Tail(cs)) : Tail(cs)[j].kind \notin off
      BY <1>1, <1>2, <3>2
    <3> QED  BY <3>2, <3>3, <3>4 DEF Coming
  <2> QED  BY <2>1, <2>2
<1>3. Clear(cs, off) => Head(cs).kind \notin off /\ Clear(Tail(cs), off)
  BY <1>1 DEF Clear
<1> QED  BY <1>2, <1>3 DEF Coming

\* An empty channel, and the kinds of the channel between which it decides.
LEMMA Channels ==
    /\ \A on, off : ~Coming(<<>>, on, off) /\ Clear(<<>>, off)
    /\ \A cs : Clear(cs, Ends)
                  => /\ Clear(cs, {"Disconnect"})
                     /\ ~Coming(cs, {"Connect"}, {"Disconnect"})
<1>1. Len(<<>>) = 0
  BY EmptySeq
<1>2. \A on, off : ~Coming(<<>>, on, off) /\ Clear(<<>>, off)
  BY <1>1 DEF Coming, Clear
<1>3. \A cs : Clear(cs, Ends) => Clear(cs, {"Disconnect"})
  BY DEF Clear, Ends
<1>4. \A cs : Clear(cs, Ends) => ~Coming(cs, {"Connect"}, {"Disconnect"})
  BY DEF Clear, Coming, Ends
<1> QED  BY <1>2, <1>3, <1>4

LEMMA CommandFields ==
    /\ \A kind, cause : Command(kind, cause).kind = kind /\ Command(kind, cause).cause = cause
    /\ \A kind \in {"LockdownOn", "LockdownOff", "Connect", "Disconnect"} : Plain(kind) \in Commands
    /\ \A cause \in BlockCauses : Command("Block", cause) \in Commands
    /\ \A c \in Commands : c.kind = "Block" => c.cause \in BlockCauses
    /\ \A kind : Plain(kind).kind = kind
    /\ \A c : Append(<<>>, c) = <<c>>
<1>1. /\ \A kind, cause : Command(kind, cause).kind = kind /\ Command(kind, cause).cause = cause
      /\ \A kind : Plain(kind).kind = kind
  BY DEF Command, Plain
<1>2. \A kind \in {"LockdownOn", "LockdownOff", "Connect", "Disconnect"} : Plain(kind) \in Commands
  BY DEF Commands
<1>3. \A cause \in BlockCauses : Command("Block", cause) \in Commands
  BY DEF Commands
<1>4. \A c \in Commands : c.kind = "Block" => c.cause \in BlockCauses
  BY <1>1 DEF Commands
<1>5. \A c : Append(<<>>, c) = <<c>>
  OBVIOUS
<1> QED  BY <1>1, <1>2, <1>3, <1>4, <1>5

-----------------------------------------------------------------------------
(***************************************************************************)
(* The handlers.  What the invariants read of the daemon is its target,    *)
(* the file, the waiting logouts, the login and what is sent.              *)
(***************************************************************************)
Same(d, e) ==
    /\ e.target = d.target /\ e.file = d.file /\ e.pending = d.pending /\ e.login = d.login

LEMMA SendFields ==
    ASSUME NEW d \in Daemons, NEW c \in Commands
    PROVE  /\ Send(d, c) \in Daemons /\ Same(d, Send(d, c))
           /\ Send(d, c).sent = Append(d.sent, c)
<1>1. Append(d.sent, c) \in Seq(Commands)
  BY AppendProperties DEF Daemons
<1> QED  BY <1>1 DEF Send, Same, Daemons

LEMMA BanFields ==
    ASSUME NEW d \in Daemons, NEW b \in BOOLEAN
    PROVE  LET e == [d EXCEPT !.blockedForBan = b]
               f == [d EXCEPT !.blockedForBan = b, !.connectInFlight = TRUE]
           IN  /\ e \in Daemons /\ Same(d, e) /\ e.sent = d.sent
               /\ f \in Daemons /\ Same(d, f) /\ f.sent = d.sent
BY DEF Same, Daemons

LEMMA DisconnectFields ==
    ASSUME NEW d \in Daemons
    PROVE  /\ disconnect_tunnel(d) \in Daemons /\ Same(d, disconnect_tunnel(d))
           /\ disconnect_tunnel(d).sent = Append(d.sent, Plain("Disconnect"))
<1>1. PICK e : e = [d EXCEPT !.blockedForBan = FALSE]
  OBVIOUS
<1>2. e \in Daemons /\ Same(d, e) /\ e.sent = d.sent
  BY <1>1, BanFields
<1>3. disconnect_tunnel(d) = Send(e, Plain("Disconnect")) /\ Plain("Disconnect") \in Commands
  BY <1>1, CommandFields DEF disconnect_tunnel
<1> QED  BY <1>2, <1>3, SendFields DEF Same

LEMMA BlockFields ==
    ASSUME NEW d \in Daemons, NEW cause \in BlockCauses
    PROVE  /\ block_for(d, cause) \in Daemons /\ Same(d, block_for(d, cause))
           /\ block_for(d, cause).sent = Append(d.sent, Command("Block", cause))
<1>1. PICK e : e = [d EXCEPT !.blockedForBan = (cause = "Ban")]
  OBVIOUS
<1>2. e \in Daemons /\ Same(d, e) /\ e.sent = d.sent
  BY <1>1, BanFields
<1>3. block_for(d, cause) = Send(e, Command("Block", cause)) /\ Command("Block", cause) \in Commands
  BY <1>1, CommandFields DEF block_for
<1> QED  BY <1>2, <1>3, SendFields DEF Same

LEMMA ConnectFields ==
    ASSUME NEW d \in Daemons
    PROVE  /\ connect_tunnel(d) \in Daemons /\ Same(d, connect_tunnel(d))
           /\ \/ d.login # "Revoked" /\ connect_tunnel(d).sent = Append(d.sent, Plain("Connect"))
              \/ /\ ~(d.login = "LoggedIn" /\ ~d.ban)
                 /\ \E cause \in BlockCauses :
                       connect_tunnel(d).sent = Append(d.sent, Command("Block", cause))
              \/ d.login = "LoggedOut" /\ connect_tunnel(d).sent = d.sent
<1>1. CASE d.login = "LoggedOut"
  <2>1. connect_tunnel(d) = d
    BY <1>1 DEF connect_tunnel
  <2> QED  BY <1>1, <2>1 DEF Same
<1>2. CASE d.login = "Revoked"
  <2>1. connect_tunnel(d) = block_for(d, "Revoked")
    BY <1>2 DEF connect_tunnel
  <2> QED  BY <1>2, <2>1, BlockFields DEF BlockCauses
<1>3. CASE d.login = "LoggedIn" /\ d.ban
  <2>1. connect_tunnel(d) = block_for(d, "Ban")
    BY <1>3 DEF connect_tunnel
  <2> QED  BY <1>3, <2>1, BlockFields DEF BlockCauses
<1>4. CASE d.login = "LoggedIn" /\ ~d.ban
  <2>1. PICK e : e = [d EXCEPT !.blockedForBan = FALSE, !.connectInFlight = TRUE]
    OBVIOUS
  <2>2. e \in Daemons /\ Same(d, e) /\ e.sent = d.sent
    BY <2>1, BanFields
  <2>3. connect_tunnel(d) = Send(e, Plain("Connect")) /\ Plain("Connect") \in Commands
    BY <1>4, <2>1, CommandFields DEF connect_tunnel
  <2> QED  BY <1>4, <2>2, <2>3, SendFields DEF Same
<1>5. d.login \in Logins
  BY DEF Daemons
<1> QED  BY <1>1, <1>2, <1>3, <1>4, <1>5 DEF Logins

(***************************************************************************)
(* What a handler of the running loop owes the invariants.  No logout      *)
(* waits with a target that is secured, and its file is left to the save;  *)
(* a handler that leaves it secured has sent a Connect, or found it        *)
(* secured and sent nothing that takes the tunnel down; a device found     *)
(* revoked is blocked.                                                     *)
(***************************************************************************)
Keeps(d) == d.target = "Secured" => d.pending = <<>>

Sends(d, e) ==
    \/ e.target = "Unsecured"
    \/ e.sent = <<Plain("Connect")>> /\ e.login # "Revoked"
    \/ /\ d.target = "Secured" /\ (e.login = "Revoked" => d.login = "Revoked")
       /\ \/ e.sent = <<>>
          \/ \E kind \in {"LockdownOn", "LockdownOff"} : e.sent = <<Plain(kind)>>
    \/ d.target = "Secured" /\ \E cause \in BlockCauses : e.sent = <<Command("Block", cause)>>

Handled(d, e) ==
    e \in Daemons /\ Keeps(e) /\ Sends(d, e) /\ (e.target = "Secured" => e.file = d.file)

\* A handler that sends nothing, and one that only sends.
LEMMA KeptHandled ==
    ASSUME NEW d \in Daemons, Keeps(d), d.sent = <<>>, NEW e \in Daemons,
           e.target = d.target, e.file = d.file, e.pending \in {d.pending, <<>>},
           e.login \in {d.login, "LoggedOut", "LoggedIn"}, e.sent = <<>>
    PROVE  Handled(d, e)
BY DEF Handled, Keeps, Sends, Daemons

LEMMA UnsecuredHandled ==
    ASSUME NEW d, NEW e \in Daemons, e.target = "Unsecured"
    PROVE  Handled(d, e)
BY DEF Handled, Keeps, Sends

LEMMA BlockHandled ==
    ASSUME NEW d \in Daemons, NEW k \in Daemons, NEW cause \in BlockCauses,
           Keeps(d), d.target = "Secured", k.target = d.target, k.file = d.file,
           k.pending = d.pending, k.sent = <<>>
    PROVE  /\ Handled(d, block_for(k, cause))
           /\ Handled(d, Send(k, Command("Block", cause)))
<1>1. Command("Block", cause) \in Commands /\ Append(<<>>, Command("Block", cause))
                                                = <<Command("Block", cause)>>
  BY CommandFields
<1>2. ASSUME NEW e \in Daemons, Same(k, e), e.sent = <<Command("Block", cause)>>
      PROVE  Handled(d, e)
  <2>1. Keeps(e)
    BY <1>2 DEF Keeps, Same
  <2>2. Sends(d, e)
    BY <1>2 DEF Sends
  <2> QED  BY <1>2, <2>1, <2>2 DEF Handled, Same
<1>3. /\ block_for(k, cause) \in Daemons /\ Same(k, block_for(k, cause))
      /\ block_for(k, cause).sent = <<Command("Block", cause)>>
  BY <1>1, BlockFields
<1>4. /\ Send(k, Command("Block", cause)) \in Daemons
      /\ Same(k, Send(k, Command("Block", cause)))
      /\ Send(k, Command("Block", cause)).sent = <<Command("Block", cause)>>
  BY <1>1, SendFields
<1> QED  BY <1>2, <1>3, <1>4

LEMMA ConnectHandled ==
    ASSUME NEW d \in Daemons, NEW k \in Daemons, Keeps(d), d.target = "Secured",
           k.target = d.target, k.file = d.file, k.pending = d.pending, k.sent = <<>>
    PROVE  Handled(d, connect_tunnel(k))
<1>1. PICK e : e = connect_tunnel(k)
  OBVIOUS
<1>2. /\ e \in Daemons /\ Same(k, e)
      /\ \/ e.login # "Revoked" /\ e.sent = <<Plain("Connect")>>
         \/ \E cause \in BlockCauses : e.sent = <<Command("Block", cause)>>
         \/ e.login # "Revoked" /\ e.sent = <<>>
  <2>1. \A c : Append(k.sent, c) = <<c>>
    BY CommandFields
  <2>2. /\ e \in Daemons /\ Same(k, e)
        /\ \/ k.login # "Revoked" /\ e.sent = Append(k.sent, Plain("Connect"))
           \/ \E cause \in BlockCauses : e.sent = Append(k.sent, Command("Block", cause))
           \/ k.login = "LoggedOut" /\ e.sent = k.sent
    BY <1>1, ConnectFields
  <2> QED  BY <2>1, <2>2 DEF Same
<1>3. Keeps(e)
  BY <1>2 DEF Keeps, Same
<1>4. Sends(d, e)
  BY <1>2 DEF Sends
<1> QED  BY <1>1, <1>2, <1>3, <1>4 DEF Handled, Same

LEMMA SetTargetFields ==
    ASSUME NEW d \in Daemons, NEW new \in {"Secured", "Unsecured"}
    PROVE  LET e == SetTarget(d, new)
           IN  /\ e \in Daemons /\ e.target = new /\ e.pending = d.pending /\ e.login = d.login
               /\ e.sent = d.sent /\ e.told = d.told /\ e.ban = d.ban /\ e.view = d.view
               /\ e.connectInFlight = d.connectInFlight
               /\ e.file = d.file
BY DEF SetTarget, Daemons

LEMMA Unsecures ==
    ASSUME NEW d \in Daemons
    PROVE  LET e == set_target_state(d, "Unsecured")
           IN  e \in Daemons /\ e.target = "Unsecured" /\ e.pending = d.pending
<1>1. CASE ~Initiates(d, "Unsecured")
  BY <1>1 DEF set_target_state, Initiates, Daemons
<1>2. CASE Initiates(d, "Unsecured")
  <2>1. PICK k : k = SetTarget(d, "Unsecured")
    OBVIOUS
  <2>2. k \in Daemons /\ k.target = "Unsecured" /\ k.pending = d.pending
    BY <2>1, SetTargetFields
  <2>3. set_target_state(d, "Unsecured") = disconnect_tunnel(k)
    BY <1>2, <2>1 DEF set_target_state
  <2> QED  BY <2>2, <2>3, DisconnectFields DEF Same
<1> QED  BY <1>1, <1>2

LEMMA Secures ==
    ASSUME NEW d \in Daemons, Keeps(d), d.sent = <<>>, admit_connect(d)
    PROVE  Handled(d, set_target_state(d, "Secured"))
<1>1. CASE ~Initiates(d, "Secured")
  <2>1. set_target_state(d, "Secured") = d
    BY <1>1 DEF set_target_state
  <2> QED  BY <2>1, KeptHandled
<1>2. CASE Initiates(d, "Secured")
  <2>1. PICK k : k = SetTarget(d, "Secured")
    OBVIOUS
  <2>2. /\ k \in Daemons /\ k.target = "Secured" /\ k.pending = d.pending /\ k.login = d.login
        /\ k.sent = d.sent /\ k.ban = d.ban /\ k.file = d.file
    BY <2>1, SetTargetFields
  <2>3. set_target_state(d, "Secured") = connect_tunnel(k)
    BY <1>2, <2>1 DEF set_target_state
  <2>4. k.login = "LoggedIn" /\ ~k.ban /\ k.pending = <<>>
    BY <2>2 DEF admit_connect
  <2>5. connect_tunnel(k).sent = <<Plain("Connect")>>
    BY <2>2, <2>4, ConnectFields, CommandFields
  <2> QED  BY <2>2, <2>3, <2>4, <2>5, ConnectFields DEF Handled, Keeps, Sends, Same
<1> QED  BY <1>1, <1>2

\* complete_logout touches the login, the ban and the identity.
LEMMA LogoutFields ==
    ASSUME NEW d \in Daemons, NEW waiting \in Seq(BOOLEAN), NEW e \in LogoutResults(d, waiting)
    PROVE  /\ e \in Daemons
           /\ e.target = d.target /\ e.file = d.file /\ e.pending = d.pending
           /\ e.sent = d.sent /\ e.login \in {d.login, "LoggedOut"} /\ e.view = d.view
<1>1. PICK f : f = [d EXCEPT !.ban = FALSE]
  OBVIOUS
<1>2. /\ f \in Daemons
      /\ f.target = d.target /\ f.file = d.file /\ f.pending = d.pending
      /\ f.sent = d.sent /\ f.login = d.login /\ f.view = d.view /\ f.told = d.told
  BY <1>1 DEF Daemons
<1>3. Event("Logout") \in Events
  BY DEF Event, Events, Causes
<1>4. ASSUME NEW told \in Seq(Events), NEW identity \in BOOLEAN,
             e = [f EXCEPT !.login = "LoggedOut", !.data = "LoggedOut", !.told = told,
                           !.identity = identity]
      PROVE  /\ e \in Daemons
             /\ e.target = d.target /\ e.file = d.file /\ e.pending = d.pending
             /\ e.sent = d.sent /\ e.login \in {d.login, "LoggedOut"} /\ e.view = d.view
  BY <1>2, <1>4 DEF Daemons, Logins
<1>5. \/ e = d \/ e = f
      \/ \E first : e = [f EXCEPT
                !.login = "LoggedOut", !.data = "LoggedOut",
                !.told = IF d.data = "LoggedOut" THEN @ ELSE Append(@, Event("Logout")),
                !.identity = @ /\ \A i \in first .. Len(waiting) : ~waiting[i]]
  BY <1>1 DEF LogoutResults
<1>6. ASSUME NEW first, e = [f EXCEPT
                !.login = "LoggedOut", !.data = "LoggedOut",
                !.told = IF d.data = "LoggedOut" THEN @ ELSE Append(@, Event("Logout")),
                !.identity = @ /\ \A i \in first .. Len(waiting) : ~waiting[i]]
      PROVE  \E told \in Seq(Events), identity \in BOOLEAN :
                e = [f EXCEPT !.login = "LoggedOut", !.data = "LoggedOut", !.told = told,
                              !.identity = identity]
  <2>1. PICK told : told = IF d.data = "LoggedOut" THEN f.told ELSE Append(f.told, Event("Logout"))
    OBVIOUS
  <2>2. told \in Seq(Events)
    BY <1>2, <1>3, <2>1, AppendProperties DEF Daemons
  <2>3. PICK identity \in BOOLEAN :
           identity = (f.identity /\ \A i \in first .. Len(waiting) : ~waiting[i])
    OBVIOUS
  <2>4. e = [f EXCEPT !.login = "LoggedOut", !.data = "LoggedOut", !.told = told,
                      !.identity = identity]
    BY <1>6, <2>1, <2>3
  <2> QED  BY <2>2, <2>4
<1> QED  BY <1>2, <1>4, <1>5, <1>6

LEMMA TransitionFields ==
    ASSUME NEW d \in Daemons, NEW t \in Events, NEW e \in OnTransition(d, t)
    PROVE  /\ e \in Daemons
           /\ e.target = d.target /\ e.file = d.file /\ e.pending \in {d.pending, <<>>}
           /\ e.sent = d.sent /\ e.login \in {d.login, "LoggedOut"} /\ e.view.state = t.state
<1>1. PICK view : view = [state |-> t.state, cause |-> t.cause]
  OBVIOUS
<1>2. PICK retry \in BOOLEAN :
         retry = (\/ d.retry /\ t.state = "Connected"
                  \/ t.state = "Error" /\ t.cause \in Rescheduled)
  OBVIOUS
<1>3. PICK k : k = [d EXCEPT !.view = view, !.retry = retry]
  OBVIOUS
<1>4. /\ k \in Daemons
      /\ k.target = d.target /\ k.file = d.file /\ k.pending = d.pending
      /\ k.sent = d.sent /\ k.login = d.login /\ k.view.state = t.state
  BY <1>1, <1>3 DEF Daemons, Events
<1>5. PICK down \in BOOLEAN : down = (t.state = "Disconnected")
  OBVIOUS
<1>6. e \in LogoutResults(tunnel_transition(k, down), Settled(k, down))
  BY <1>1, <1>2, <1>3, <1>5 DEF OnTransition
<1>7. Settled(k, down) \in Seq(BOOLEAN)
  BY <1>4, EmptySeq DEF Settled, Daemons
<1>8. PICK inFlight \in BOOLEAN : inFlight = (k.connectInFlight /\ down /\ k.pending # <<>>)
  OBVIOUS
<1>9. PICK pending : pending = IF Settled(k, down) # <<>> THEN <<>> ELSE k.pending
  OBVIOUS
<1>10. PICK g : g = [k EXCEPT !.connectInFlight = inFlight, !.pending = pending]
  OBVIOUS
<1>11. pending \in Seq(BOOLEAN)
  BY <1>4, <1>9, EmptySeq DEF Daemons
<1>12. /\ g \in Daemons
       /\ g.target = k.target /\ g.file = k.file /\ g.pending = pending
       /\ g.sent = k.sent /\ g.login = k.login /\ g.view = k.view
  BY <1>4, <1>10, <1>11 DEF Daemons
<1>13. tunnel_transition(k, down) = g
  BY <1>8, <1>9, <1>10 DEF tunnel_transition
<1>14. /\ e \in Daemons
       /\ e.target = g.target /\ e.file = g.file /\ e.pending = g.pending
       /\ e.sent = g.sent /\ e.login \in {g.login, "LoggedOut"} /\ e.view = g.view
  BY <1>6, <1>7, <1>12, <1>13, LogoutFields
<1>15. pending \in {d.pending, <<>>}
  BY <1>4, <1>9
<1> QED  BY <1>4, <1>12, <1>14, <1>15

LEMMA LoginFields ==
    ASSUME NEW d \in Daemons, NEW login \in Logins
    PROVE  LET e == [d EXCEPT !.login = login]
           IN  /\ e \in Daemons /\ e.target = d.target /\ e.file = d.file
               /\ e.pending = d.pending /\ e.login = login /\ e.sent = d.sent
BY DEF Daemons

LEMMA ReconnectHandled ==
    ASSUME NEW d \in Daemons, Keeps(d), d.sent = <<>>
    PROVE  Handled(d, on_reconnect(d))
<1>1. CASE on_reconnect(d) = d
  BY <1>1, KeptHandled
<1>2. CASE on_reconnect(d) = connect_tunnel(d)
  <2>1. CASE d.target = "Secured"
    BY <1>2, <2>1, ConnectHandled
  <2>2. CASE d.target # "Secured"
    <3>1. connect_tunnel(d) \in Daemons /\ connect_tunnel(d).target = "Unsecured"
      BY <2>2, ConnectFields DEF Same, Daemons
    <3> QED  BY <1>2, <3>1, UnsecuredHandled
  <2> QED  BY <2>1, <2>2
<1> QED  BY <1>1, <1>2 DEF on_reconnect

LEMMA DeviceEventHandled ==
    ASSUME NEW d \in Daemons, Keeps(d), d.sent = <<>>, NEW kind \in {"Login", "Logout", "Revoked"}
    PROVE  Handled(d, OnDeviceEvent(d, kind))
<1>0. d.target \in {"Secured", "Unsecured"} /\ d.login \in Logins
  BY DEF Daemons
<1>1. CASE kind = "Login"
  <2>1. PICK k : k = [d EXCEPT !.login = "LoggedIn"]
    OBVIOUS
  <2>2. /\ k \in Daemons /\ k.target = d.target /\ k.file = d.file
        /\ k.pending = d.pending /\ k.sent = d.sent
    BY <2>1, LoginFields DEF Logins
  <2>3. OnDeviceEvent(d, kind) = IF d.target = "Secured" THEN connect_tunnel(k) ELSE k
    BY <1>1, <2>1 DEF OnDeviceEvent
  <2> QED  BY <1>0, <2>2, <2>3, ConnectHandled, UnsecuredHandled
<1>2. CASE kind = "Logout"
  <2>1. PICK k : k = [d EXCEPT !.login = "LoggedOut"]
    OBVIOUS
  <2>2. k \in Daemons
    BY <2>1, LoginFields DEF Logins
  <2>3. OnDeviceEvent(d, kind) = set_target_state(k, "Unsecured")
    BY <1>2, <2>1 DEF OnDeviceEvent
  <2> QED  BY <2>2, <2>3, Unsecures, UnsecuredHandled
<1>3. CASE kind = "Revoked"
  <2>0. PICK login \in Logins : login = IF d.login = "LoggedOut" THEN d.login ELSE "Revoked"
    BY <1>0 DEF Logins
  <2>1. PICK k : k = [d EXCEPT !.login = login]
    OBVIOUS
  <2>2. /\ k \in Daemons /\ k.target = d.target /\ k.file = d.file
        /\ k.pending = d.pending /\ k.sent = d.sent
    BY <2>1, LoginFields
  <2>3. OnDeviceEvent(d, kind) = IF d.target = "Secured" THEN block_for(k, "Revoked") ELSE k
    BY <1>3, <2>0, <2>1 DEF OnDeviceEvent
  <2> QED  BY <1>0, <2>2, <2>3, BlockHandled, UnsecuredHandled DEF BlockCauses
<1> QED  BY <1>1, <1>2, <1>3

LEMMA ReportHandled ==
    ASSUME NEW d \in Daemons, Keeps(d), d.sent = <<>>
    PROVE  /\ \A expired \in BOOLEAN : Handled(d, OnExpiry(d, expired))
           /\ \A banned \in BOOLEAN : Handled(d, OnStanding(d, banned))
           /\ Handled(d, on_warren_session_tokens_at_hand(d))
<1>1. Handled(d, d)
  BY KeptHandled
<1>2. d.target = "Secured" => Handled(d, connect_tunnel(d))
  BY ConnectHandled
<1>3. ASSUME NEW expired \in BOOLEAN PROVE Handled(d, OnExpiry(d, expired))
  <2>1. d.target = "Secured" => Handled(d, Send(d, Command("Block", "Expired")))
    BY BlockHandled DEF BlockCauses
  <2>2. \/ OnExpiry(d, expired) = d
        \/ d.target = "Secured" /\ OnExpiry(d, expired) = Send(d, Command("Block", "Expired"))
        \/ d.target = "Secured" /\ OnExpiry(d, expired) = connect_tunnel(d)
    BY DEF OnExpiry
  <2> QED  BY <1>1, <1>2, <2>1, <2>2
<1>4. ASSUME NEW banned \in BOOLEAN PROVE Handled(d, OnStanding(d, banned))
  <2>1. PICK k : k = [d EXCEPT !.ban = banned]
    OBVIOUS
  <2>2. /\ k \in Daemons /\ k.target = d.target /\ k.file = d.file
        /\ k.pending = d.pending /\ k.login = d.login /\ k.sent = d.sent
    BY <2>1 DEF Daemons
  <2>3. \/ OnStanding(d, banned) = k
        \/ d.target = "Secured" /\ OnStanding(d, banned) = block_for(k, "Ban")
        \/ d.target = "Secured" /\ OnStanding(d, banned) = connect_tunnel(k)
    BY <2>1 DEF OnStanding
  <2>4. Handled(d, k)
    BY <2>2, KeptHandled
  <2>5. d.target = "Secured" => Handled(d, block_for(k, "Ban")) /\ Handled(d, connect_tunnel(k))
    BY <2>2, BlockHandled, ConnectHandled DEF BlockCauses
  <2> QED  BY <2>3, <2>4, <2>5
<1>5. Handled(d, on_warren_session_tokens_at_hand(d))
  BY <1>1, <1>2 DEF on_warren_session_tokens_at_hand
<1> QED  BY <1>3, <1>4, <1>5

LEMMA RevokedHandled ==
    ASSUME NEW d \in Daemons, Keeps(d), d.sent = <<>>
    PROVE  Handled(d, on_warren_device_revoked(d))
<1>1. CASE d.login # "LoggedIn"
  <2>1. on_warren_device_revoked(d) = d
    BY <1>1 DEF on_warren_device_revoked
  <2> QED  BY <2>1, KeptHandled
<1>2. CASE d.login = "LoggedIn"
  <2>1. PICK k : k = [d EXCEPT !.login = "Revoked"]
    OBVIOUS
  <2>2. PICK f : f = set_target_state(k, "Unsecured")
    OBVIOUS
  <2>3. f \in Daemons /\ f.target = "Unsecured"
    BY <2>1, <2>2, LoginFields, Unsecures DEF Logins
  <2>4. PICK data : data = IF f.data = "LoggedIn" THEN "Revoked" ELSE f.data
    OBVIOUS
  <2>5. PICK told : told = IF d.data = "LoggedIn" THEN Append(f.told, Event("Revoked")) ELSE f.told
    OBVIOUS
  <2>6. data \in Logins
    BY <2>3, <2>4 DEF Daemons, Logins
  <2>7. Event("Revoked") \in Events
    BY DEF Event, Events
  <2>8. told \in Seq(Events)
    BY <2>3, <2>5, <2>7, AppendProperties DEF Daemons
  <2>9. PICK e : e = [f EXCEPT !.ban = FALSE, !.identity = FALSE, !.data = data, !.told = told]
    OBVIOUS
  <2>10. on_warren_device_revoked(d) = e
    BY <1>2, <2>1, <2>2, <2>4, <2>5, <2>9 DEF on_warren_device_revoked
  <2>11. e \in Daemons /\ e.target = "Unsecured"
    BY <2>3, <2>6, <2>8, <2>9 DEF Daemons
  <2> QED  BY <2>10, <2>11, UnsecuredHandled
<1> QED  BY <1>1, <1>2

LEMMA LogoutHandled ==
    ASSUME NEW d \in Daemons, NEW wipe \in BOOLEAN, NEW e \in on_logout_account(d, wipe)
    PROVE  Handled(d, e)
<1>1. PICK asked : asked = set_target_state(d, "Unsecured")
  OBVIOUS
<1>2. asked \in Daemons /\ asked.target = "Unsecured"
  BY <1>1, Unsecures
<1>3. PICK c : c = IF ~Initiates(d, "Unsecured") /\ d.view.state # "Disconnected"
                   THEN disconnect_tunnel(asked) ELSE asked
  OBVIOUS
<1>4. c \in Daemons /\ c.target = "Unsecured"
  BY <1>2, <1>3, DisconnectFields DEF Same
<1>5. <<wipe>> \in Seq(BOOLEAN)
  OBVIOUS
<1>6. \/ e = [c EXCEPT !.pending = Append(c.pending, wipe)]
      \/ e \in LogoutResults(c, <<wipe>>)
      \/ e = [c EXCEPT !.pending = <<wipe>>, !.generation = c.generation + 1]
  BY <1>1, <1>3 DEF on_logout_account
<1>7. CASE e = [c EXCEPT !.pending = Append(c.pending, wipe)]
  <2>1. Append(c.pending, wipe) \in Seq(BOOLEAN)
    BY <1>4, AppendProperties DEF Daemons
  <2>2. e \in Daemons /\ e.target = "Unsecured"
    BY <1>4, <1>7, <2>1 DEF Daemons
  <2> QED  BY <2>2, UnsecuredHandled
<1>8. CASE e \in LogoutResults(c, <<wipe>>)
  BY <1>4, <1>5, <1>8, LogoutFields, UnsecuredHandled
<1>9. CASE e = [c EXCEPT !.pending = <<wipe>>, !.generation = c.generation + 1]
  <2>1. c.generation + 1 \in Nat
    BY <1>4 DEF Daemons
  <2>2. PICK n \in Nat : n = c.generation + 1
    BY <2>1
  <2>3. e = [c EXCEPT !.pending = <<wipe>>, !.generation = n]
    BY <1>9, <2>2
  <2>4. e \in Daemons /\ e.target = "Unsecured"
    BY <1>4, <1>5, <2>3 DEF Daemons
  <2> QED  BY <2>4, UnsecuredHandled
<1> QED  BY <1>6, <1>7, <1>8, <1>9

LEMMA DeadlineHandled ==
    ASSUME NEW d \in Daemons, Keeps(d), d.sent = <<>>, NEW generation
    PROVE  Handled(d, teardown_deadline(d, generation))
<1>1. PICK e : e = [d EXCEPT !.connectInFlight = FALSE, !.pending = <<>>]
  OBVIOUS
<1>2. /\ e \in Daemons /\ e.target = d.target /\ e.file = d.file /\ e.pending = <<>>
      /\ e.login = d.login /\ e.sent = d.sent
  BY <1>1, EmptySeq DEF Daemons
<1>3. Handled(d, e) /\ Handled(d, d)
  BY <1>2, KeptHandled
<1> QED  BY <1>1, <1>3 DEF teardown_deadline

LEMMA LockdownHandled ==
    ASSUME NEW d \in Daemons, NEW k \in Daemons, NEW on \in BOOLEAN, Keeps(d), d.sent = <<>>,
           Same(d, k), k.sent = d.sent
    PROVE  /\ Handled(d, SendLockdown(k, on))
           /\ SendLockdown(k, on) \in Daemons /\ Same(k, SendLockdown(k, on))
           /\ SendLockdown(k, on).sent = <<Plain(IF on THEN "LockdownOn" ELSE "LockdownOff")>>
<1>1. PICK kind \in {"LockdownOn", "LockdownOff"} :
         kind = IF on THEN "LockdownOn" ELSE "LockdownOff"
  OBVIOUS
<1>2. PICK e : e = SendLockdown(k, on)
  OBVIOUS
<1>3. e = Send(k, Plain(kind)) /\ Plain(kind) \in Commands
  BY <1>1, <1>2, CommandFields DEF SendLockdown
<1>4. e \in Daemons /\ Same(k, e) /\ e.sent = <<Plain(kind)>>
  <2>1. Append(k.sent, Plain(kind)) = <<Plain(kind)>>
    BY CommandFields
  <2> QED  BY <1>3, <2>1, SendFields
<1>5. Keeps(e)
  BY <1>4 DEF Keeps, Same
<1>6. Sends(d, e)
  BY <1>4 DEF Sends, Same, Daemons
<1> QED  BY <1>1, <1>2, <1>4, <1>5, <1>6 DEF Handled, Same

LEMMA RestartHandled ==
    ASSUME NEW d \in Daemons, Keeps(d), d.sent = <<>>
    PROVE  /\ Handled(d, PreparedRestart(d))
           /\ Handled(d, RestartGivenUp(d))
           /\ \A on \in BOOLEAN : Handled(d, ChangedLockdown(d, on))
<1>1. Handled(d, d)
  BY KeptHandled
<1>2. Handled(d, PreparedRestart(d))
  <2>1. PICK k : k = [d EXCEPT !.armed = TRUE, !.locked = TRUE]
    OBVIOUS
  <2>2. PICK e : e = [d EXCEPT !.locked = TRUE]
    OBVIOUS
  <2>3. k \in Daemons /\ Same(d, k) /\ k.sent = d.sent
    BY <2>1 DEF Daemons, Same
  <2>4. e \in Daemons /\ Same(d, e) /\ e.sent = d.sent
    BY <2>2 DEF Daemons, Same
  <2>5. Handled(d, SendLockdown(k, TRUE))
    BY <2>3, LockdownHandled
  <2>6. Handled(d, e)
    BY <2>4, KeptHandled DEF Same
  <2> QED  BY <2>1, <2>2, <2>5, <2>6 DEF PreparedRestart
<1>3. Handled(d, RestartGivenUp(d))
  <2>1. PICK k : k = [d EXCEPT !.armed = FALSE]
    OBVIOUS
  <2>2. k \in Daemons /\ Same(d, k) /\ k.sent = d.sent /\ d.setting \in BOOLEAN
    BY <2>1 DEF Daemons, Same
  <2>3. Handled(d, SendLockdown(k, d.setting))
    BY <2>2, LockdownHandled
  <2> QED  BY <1>1, <2>1, <2>3 DEF RestartGivenUp
<1>4. ASSUME NEW on \in BOOLEAN PROVE Handled(d, ChangedLockdown(d, on))
  <2>1. PICK k : k = [d EXCEPT !.setting = on]
    OBVIOUS
  <2>2. k \in Daemons /\ Same(d, k) /\ k.sent = d.sent
    BY <2>1 DEF Daemons, Same
  <2>3. Handled(d, SendLockdown(k, on))
    BY <2>2, LockdownHandled
  <2> QED  BY <1>1, <2>1, <2>3 DEF ChangedLockdown
<1> QED  BY <1>2, <1>3, <1>4
-----------------------------------------------------------------------------
(***************************************************************************)
(* The inductive invariant.  Wants is a machine that goes on, or goes back *)
(* to, dialling or blocking by itself; BlocksForGood one that only a       *)
(* Connect or a Disconnect ends.                                           *)
(***************************************************************************)
Wants ==
    \/ machine.state \in Up \cup {"Error"}
    \/ machine.state = "Disconnecting" /\ machine.after \in {"Block", "Reconnect"}
BlocksForGood ==
    /\ machine.cause # "Offline"
    /\ \/ machine.state = "Error"
       \/ machine.state = "Disconnecting" /\ machine.after = "Block"

\* A process that is gone leaves nothing to read, and blocks if it said so.
DeadInv ==
    proc = "Dead" => /\ daemon.pending = <<>> /\ commands = <<>>
                     /\ machine.state = "Disconnected" /\ machine.lockdown = daemon.setting
                     /\ promised => machine.blocked

\* The firewall filters in every state but Disconnected, and there under lockdown;
\* only a disconnecting machine has something to do after it.
FilterInv ==
    /\ machine.state = "Disconnecting" <=> machine.after # None
    /\ machine.state # "Disconnected" => machine.blocked
    /\ proc # "Dead" /\ machine.lockdown => machine.blocked

\* A shutdown that said that it blocks has sent the lockdown, and nothing that
\* lifts it.
PromiseInv ==
    proc \in {"Waiting", "Closing"} /\ promised
       => \/ Coming(commands, {"LockdownOn"}, {"LockdownOff"})
          \/ machine.lockdown /\ Clear(commands, {"LockdownOff"})

\* A secured target whose save reached the file is in it, or the file is torn and
\* reads as secured.
Reached(file) == file.stale \/ file.holds \in {"Secured", "Torn"}
FileInv == proc = "Running" /\ daemon.target = "Secured" => Reached(daemon.file)

\* With a secured target no logout waits, and of the connects and disconnects on
\* their way a connect is the last.
SecuredInv ==
    proc = "Running" /\ daemon.target = "Secured"
       => /\ Keeps(daemon)
          /\ \/ Coming(commands, {"Connect"}, {"Disconnect"})
             \/ Wants /\ Clear(commands, {"Disconnect"})

\* That of a revoked device: a block is the last.
RevokedInv ==
    proc = "Running" /\ daemon.target = "Secured" /\ daemon.login = "Revoked"
       => \/ Coming(commands, {"Block"}, Ends)
          \/ BlocksForGood /\ Clear(commands, Ends)

SessionInv ==
    Types /\ DeadInv /\ FilterInv /\ PromiseInv /\ FileInv /\ SecuredInv /\ RevokedInv

(***************************************************************************)
(* A handler of the running loop.                                          *)
(***************************************************************************)
\* What a save leaves, whichever way it ends.
LEMMA SavesFields ==
    ASSUME NEW file \in Files, NEW new \in {"Secured", "Unsecured"}, NEW g \in Saves(file, new)
    PROVE  g \in Files /\ (new = "Secured" => Reached(g))
<1>1. PICK end \in {"Written", "Torn", "Unopened"} : g = Saved(file, new, end)
  BY SaveEndsAssumption DEF Saves
<1>2. CASE end = "Written"
  BY <1>1, <1>2 DEF Saved, Files, Reached
<1>3. CASE end = "Torn"
  BY <1>1, <1>3 DEF Saved, Files, Reached
<1>4. CASE end = "Unopened"
  <2>1. PICK stale \in BOOLEAN : stale = (new = "Secured")
    OBVIOUS
  <2>2. g = [holds |-> file.holds, stale |-> stale]
    BY <1>1, <1>4, <2>1 DEF Saved
  <2> QED  BY <2>1, <2>2 DEF Files, Reached
<1> QED  BY <1>1, <1>2, <1>3, <1>4

LEMMA BecomesFields ==
    ASSUME Types, NEW e \in Daemons, NEW rest \in Seq(Events), Becomes(e, rest)
    PROVE  /\ daemon' \in Daemons /\ daemon'.sent = <<>> /\ daemon'.told = <<>>
           /\ daemon'.target = e.target /\ daemon'.pending = e.pending /\ daemon'.login = e.login
           /\ IF e.target = daemon.target THEN daemon'.file = e.file
                                          ELSE e.target = "Secured" => Reached(daemon'.file)
           /\ daemon'.setting = e.setting /\ daemon'.view = e.view
           /\ commands' \in Seq(Commands) /\ inbox' \in Seq(Events)
<1>1. PICK file \in IF e.target = daemon.target THEN {e.file} ELSE Saves(e.file, e.target) :
         daemon' = [e EXCEPT !.file = file, !.sent = <<>>, !.told = <<>>]
  BY DEF Becomes
<1>2. <<>> \in Seq(Commands) /\ <<>> \in Seq(Events)
  BY EmptySeq
<1>3. e.file \in Files /\ e.target \in {"Secured", "Unsecured"}
  BY DEF Daemons
<1>4. file \in Files /\ IF e.target = daemon.target THEN file = e.file
                        ELSE e.target = "Secured" => Reached(file)
  BY <1>1, <1>3, SavesFields
<1>5. /\ daemon' \in Daemons /\ daemon'.sent = <<>> /\ daemon'.told = <<>>
      /\ daemon'.target = e.target /\ daemon'.pending = e.pending /\ daemon'.login = e.login
      /\ daemon'.file = file /\ daemon'.setting = e.setting /\ daemon'.view = e.view
  BY <1>1, <1>2, <1>4 DEF Daemons
<1>6. e.sent \in Seq(Commands) /\ e.told \in Seq(Events)
  BY DEF Daemons
<1>7. commands' \in Seq(Commands) /\ inbox' \in Seq(Events)
  BY <1>6, ConcatProperties DEF Becomes, Types
<1> QED  BY <1>4, <1>5, <1>7

\* What one command that is sent says.
LEMMA SentOne ==
    ASSUME NEW c, NEW off
    PROVE  /\ c.kind \notin off => Clear(<<c>>, off)
           /\ \A on : c.kind \in on => \E i \in 1 .. Len(<<c>>) : <<c>>[i].kind \in on
<1>1. Len(<<c>>) = 1 /\ <<c>>[1] = c
  OBVIOUS
<1>2. c.kind \notin off => Clear(<<c>>, off)
  BY <1>1 DEF Clear
<1>3. \A on : c.kind \in on => \E i \in 1 .. Len(<<c>>) : <<c>>[i].kind \in on
  BY <1>1
<1> QED  BY <1>2, <1>3

\* The last of the connects and disconnects, and the last of what blocks or ends
\* a block, once a handler has sent what it sends.
LEMMA HandledChannel ==
    ASSUME NEW cs \in Seq(Commands), NEW d, NEW e \in Daemons, Sends(d, e), e.target = "Secured",
           NEW out, out = cs \o e.sent
    PROVE  \/ Coming(out, {"Connect"}, {"Disconnect"})
           \/ /\ d.target = "Secured"
              /\ Coming(cs, {"Connect"}, {"Disconnect"}) => Coming(out, {"Connect"}, {"Disconnect"})
              /\ Clear(cs, {"Disconnect"}) => Clear(out, {"Disconnect"})
<1>1. e.sent \in Seq(Commands)
  BY DEF Daemons
<1>2. CASE e.sent = <<Plain("Connect")>> /\ e.login # "Revoked"
  <2>1. Plain("Connect").kind = "Connect"
    BY CommandFields
  <2>2. Clear(e.sent, {"Disconnect"}) /\ \E i \in 1 .. Len(e.sent) : e.sent[i].kind \in {"Connect"}
    BY <1>2, <2>1, SentOne
  <2> QED  BY <1>1, <1>2, <2>2, SentAfter
<1>3. CASE e.sent = <<>>
  <2>1. out = cs
    BY <1>3, ConcatEmptySeq
  <2> QED  BY <1>3, <2>1, CommandFields DEF Sends
<1>4. CASE d.target = "Secured" /\ \E c : e.sent = <<c>> /\ c.kind # "Disconnect"
  <2>1. Clear(e.sent, {"Disconnect"})
    BY <1>4, SentOne
  <2> QED  BY <1>1, <1>4, <2>1, SentAfter
<1> QED  BY <1>2, <1>3, <1>4, CommandFields DEF Sends

LEMMA RevokedChannel ==
    ASSUME NEW cs \in Seq(Commands), NEW d, NEW e \in Daemons, Sends(d, e), e.target = "Secured",
           e.login = "Revoked", NEW out, out = cs \o e.sent
    PROVE  \/ Coming(out, {"Block"}, Ends)
           \/ /\ d.target = "Secured" /\ d.login = "Revoked"
              /\ Coming(cs, {"Block"}, Ends) => Coming(out, {"Block"}, Ends)
              /\ Clear(cs, Ends) => Clear(out, Ends)
<1>1. e.sent \in Seq(Commands)
  BY DEF Daemons
<1>2. CASE d.login = "Revoked" /\ d.target = "Secured" /\ e.sent = <<>>
  <2>1. out = cs
    BY <1>2, ConcatEmptySeq
  <2> QED  BY <1>2, <2>1
<1>3. CASE /\ d.login = "Revoked" /\ d.target = "Secured"
           /\ \E kind \in {"LockdownOn", "LockdownOff"} : e.sent = <<Plain(kind)>>
  <2>1. PICK c : e.sent = <<c>> /\ c.kind \in {"LockdownOn", "LockdownOff"}
    BY <1>3, CommandFields
  <2>2. c.kind \notin Ends
    BY <2>1 DEF Ends
  <2>3. Clear(e.sent, Ends)
    BY <2>1, <2>2, SentOne
  <2> QED  BY <1>1, <1>3, <2>3, SentAfter
<1>4. CASE \E cause \in BlockCauses : e.sent = <<Command("Block", cause)>>
  <2>1. PICK c : e.sent = <<c>> /\ c.kind = "Block"
    BY <1>4, CommandFields
  <2>2. c.kind \notin Ends
    BY <2>1 DEF Ends
  <2>3. Clear(e.sent, Ends)
    BY <2>1, <2>2, SentOne
  <2>4. \E i \in 1 .. Len(e.sent) : e.sent[i].kind \in {"Block"}
    BY <2>1, SentOne
  <2> QED  BY <1>1, <2>3, <2>4, SentAfter
<1> QED  BY <1>2, <1>3, <1>4 DEF Sends

\* What no handler of the running loop touches, or only counts.
LoopTypes ==
    /\ machine' = machine /\ promised' = promised
    /\ deadlines' \subseteq Nat /\ deadman' \in Nat /\ requests' \in 0 .. MaxRequests

LEMMA HandlerStep ==
    ASSUME SessionInv, proc = "Running", proc' = "Running", LoopTypes,
           NEW e, Handled(daemon, e), NEW rest \in Seq(Events), Becomes(e, rest)
    PROVE  SessionInv'
<1>1. /\ Types /\ FilterInv /\ FileInv /\ SecuredInv /\ RevokedInv
  BY DEF SessionInv
<1>2. /\ e \in Daemons /\ Keeps(e) /\ Sends(daemon, e)
      /\ e.target = "Secured" => e.file = daemon.file
  BY DEF Handled
<1>3. /\ daemon' \in Daemons /\ daemon'.sent = <<>> /\ daemon'.told = <<>>
      /\ daemon'.target = e.target /\ daemon'.pending = e.pending /\ daemon'.login = e.login
      /\ IF e.target = daemon.target THEN daemon'.file = e.file
                                     ELSE e.target = "Secured" => Reached(daemon'.file)
      /\ commands' \in Seq(Commands) /\ inbox' \in Seq(Events)
  BY <1>1, <1>2, BecomesFields
<1>4. Types'
  BY <1>1, <1>3 DEF Types, LoopTypes
<1>5. DeadInv' /\ PromiseInv' /\ FilterInv'
  BY <1>1 DEF DeadInv, PromiseInv, FilterInv, LoopTypes
<1>6. commands \in Seq(Commands) /\ commands' = commands \o e.sent
  BY <1>1 DEF Types, Becomes
<1>7. (Wants' <=> Wants) /\ (BlocksForGood' <=> BlocksForGood)
  BY DEF LoopTypes, Wants, BlocksForGood
<1>8. SecuredInv'
  <2> SUFFICES ASSUME e.target = "Secured"
               PROVE  /\ Keeps(e)
                      /\ \/ Coming(commands', {"Connect"}, {"Disconnect"})
                         \/ Wants /\ Clear(commands', {"Disconnect"})
    BY <1>3, <1>7 DEF SecuredInv, Keeps
  <2>1. \/ Coming(commands', {"Connect"}, {"Disconnect"})
        \/ /\ daemon.target = "Secured"
           /\ Coming(commands, {"Connect"}, {"Disconnect"})
                 => Coming(commands', {"Connect"}, {"Disconnect"})
           /\ Clear(commands, {"Disconnect"}) => Clear(commands', {"Disconnect"})
    BY <1>2, <1>6, HandledChannel
  <2> QED  BY <1>1, <1>2, <2>1 DEF SecuredInv
<1>9. RevokedInv'
  <2> SUFFICES ASSUME e.target = "Secured", e.login = "Revoked"
               PROVE  \/ Coming(commands', {"Block"}, Ends)
                      \/ BlocksForGood /\ Clear(commands', Ends)
    BY <1>3, <1>7 DEF RevokedInv
  <2>1. \/ Coming(commands', {"Block"}, Ends)
        \/ /\ daemon.target = "Secured" /\ daemon.login = "Revoked"
           /\ Coming(commands, {"Block"}, Ends) => Coming(commands', {"Block"}, Ends)
           /\ Clear(commands, Ends) => Clear(commands', Ends)
    BY <1>2, <1>6, RevokedChannel
  <2> QED  BY <1>1, <2>1 DEF RevokedInv
<1>10. FileInv'
  <2>1. CASE e.target = daemon.target
    BY <1>1, <1>2, <1>3, <2>1 DEF FileInv
  <2>2. CASE e.target # daemon.target
    BY <1>3, <2>2 DEF FileInv
  <2> QED  BY <2>1, <2>2
<1> QED  BY <1>4, <1>5, <1>8, <1>9, <1>10 DEF SessionInv

\* A step of another task, which sends the machine nothing.
LEMMA QuietStep ==
    ASSUME SessionInv, proc' = proc, LoopTypes, commands' = commands,
           daemon' \in Daemons, daemon'.sent = <<>>, daemon'.told = <<>>,
           Same(daemon, daemon'), daemon'.setting = daemon.setting, inbox' \in Seq(Events)
    PROVE  SessionInv'
<1>1. Types'
  BY DEF SessionInv, Types, LoopTypes
<1>2. DeadInv' /\ PromiseInv' /\ FilterInv'
  BY DEF SessionInv, DeadInv, PromiseInv, FilterInv, LoopTypes, Same
<1>3. (Wants' <=> Wants) /\ (BlocksForGood' <=> BlocksForGood)
  BY DEF LoopTypes, Wants, BlocksForGood
<1>4. FileInv' /\ SecuredInv' /\ RevokedInv'
  BY <1>3 DEF SessionInv, FileInv, SecuredInv, RevokedInv, Same, Keeps
<1> QED  BY <1>1, <1>2, <1>4 DEF SessionInv

LEMMA AskedTypes ==
    ASSUME Types, Asked, UNCHANGED <<proc, machine, promised>>,
           deadlines' \subseteq Nat, deadman' \in Nat
    PROVE  LoopTypes /\ proc = "Running" /\ proc' = "Running"
BY BoundsAssumption DEF Types, Asked, LoopTypes

LEMMA RequestStep ==
    ASSUME SessionInv,
           SetTargetState \/ Reconnect \/ LogoutAccount \/ LoginAccount \/ SetLockdownMode
               \/ PrepareRestart \/ Report
    PROVE  SessionInv'
<1>1. /\ Types /\ daemon \in Daemons /\ daemon.sent = <<>> /\ inbox \in Seq(Events)
      /\ proc = "Running" => Keeps(daemon)
  BY DEF SessionInv, Types, SecuredInv, Keeps
<1>2. CASE SetTargetState
  <2>1. LoopTypes /\ proc = "Running" /\ proc' = "Running"
    BY <1>1, <1>2, AskedTypes DEF SetTargetState, timers, Types
  <2>2. PICK new \in {"Secured", "Unsecured"} :
           /\ new = "Secured" => admit_connect(daemon)
           /\ Becomes(set_target_state(daemon, new), inbox)
    BY <1>2 DEF SetTargetState
  <2>3. Handled(daemon, set_target_state(daemon, new))
    BY <1>1, <2>1, <2>2, Secures, Unsecures, UnsecuredHandled
  <2> QED  BY <1>1, <2>1, <2>2, <2>3, HandlerStep
<1>3. CASE Reconnect
  <2>1. LoopTypes /\ proc = "Running" /\ proc' = "Running"
    BY <1>1, <1>3, AskedTypes DEF Reconnect, timers, Types
  <2>2. Becomes(on_reconnect(daemon), inbox)
    BY <1>3 DEF Reconnect
  <2> QED  BY <1>1, <2>1, <2>2, ReconnectHandled, HandlerStep
<1>4. CASE LogoutAccount
  <2>0. PICK wipe \in BOOLEAN : \E d \in on_logout_account(daemon, wipe) : Becomes(d, inbox)
    BY <1>4 DEF LogoutAccount
  <2>1. PICK d \in on_logout_account(daemon, wipe) : Becomes(d, inbox)
    BY <2>0
  <2>2. Handled(daemon, d)
    BY <1>1, LogoutHandled
  <2>3. daemon' \in Daemons
    BY <1>1, <2>1, <2>2, BecomesFields DEF Handled
  <2>4. daemon'.generation \in Nat
    BY <2>3 DEF Daemons
  <2>5. LoopTypes /\ proc = "Running" /\ proc' = "Running"
    BY <1>1, <1>4, <2>4, AskedTypes DEF LogoutAccount, Types
  <2> QED  BY <1>1, <2>1, <2>2, <2>5, HandlerStep
<1>5. CASE LoginAccount
  <2>1. LoopTypes /\ proc = "Running" /\ proc' = "Running"
    BY <1>1, <1>5, AskedTypes DEF LoginAccount, Types
  <2>2. daemon' = [daemon EXCEPT !.identity = TRUE] /\ UNCHANGED <<commands, inbox>>
    BY <1>5 DEF LoginAccount
  <2>3. daemon' \in Daemons
    BY <1>1, <2>2 DEF Daemons
  <2>4. /\ daemon'.sent = daemon.sent /\ daemon'.told = daemon.told /\ Same(daemon, daemon')
        /\ daemon'.setting = daemon.setting
    BY <1>1, <2>2 DEF Daemons, Same
  <2> QED  BY <1>1, <2>1, <2>2, <2>3, <2>4, QuietStep DEF Types
<1>6. CASE SetLockdownMode
  <2>1. LoopTypes /\ proc = "Running" /\ proc' = "Running"
    BY <1>1, <1>6, AskedTypes DEF SetLockdownMode, timers, Types
  <2>2. PICK on \in BOOLEAN : Becomes(ChangedLockdown(daemon, on), inbox)
    BY <1>6 DEF SetLockdownMode
  <2> QED  BY <1>1, <2>1, <2>2, RestartHandled, HandlerStep
<1>7. CASE PrepareRestart
  <2>1. deadman' \in Nat /\ deadlines' \subseteq Nat
    BY <1>1, <1>7 DEF PrepareRestart, Types
  <2>2. LoopTypes /\ proc = "Running" /\ proc' = "Running"
    BY <1>1, <1>7, <2>1, AskedTypes DEF PrepareRestart
  <2>3. PICK rest : rest \in {inbox, Append(inbox, Event("Shutdown"))}
                    /\ Becomes(PreparedRestart(daemon), rest)
    BY <1>7 DEF PrepareRestart
  <2>4. Event("Shutdown") \in Events
    BY DEF Event, Events
  <2>5. rest \in Seq(Events)
    BY <1>1, <2>3, <2>4, AppendProperties
  <2> QED  BY <1>1, <2>2, <2>3, <2>5, RestartHandled, HandlerStep
<1>8. CASE Report
  <2>1. LoopTypes /\ proc = "Running" /\ proc' = "Running"
    BY <1>1, <1>8, AskedTypes DEF Report, timers, Types
  <2>2. PICK e : Handled(daemon, e) /\ Becomes(e, inbox)
    BY <1>1, <1>8, <2>1, ReportHandled, RevokedHandled DEF Report
  <2> QED  BY <1>1, <2>1, <2>2, HandlerStep
<1> QED  BY <1>2, <1>3, <1>4, <1>5, <1>6, <1>7, <1>8

LEMMA OtherTasksStep ==
    ASSUME SessionInv,
           AccountManager \/ TeardownDeadline \/ RestartLockdownDeadman \/ RetryFires
    PROVE  SessionInv'
<1>1. /\ Types /\ daemon \in Daemons /\ daemon.sent = <<>> /\ daemon.told = <<>>
      /\ inbox \in Seq(Events)
      /\ proc = "Running" => Keeps(daemon)
  BY DEF SessionInv, Types, SecuredInv, Keeps
<1>2. \A kind \in {"Login", "Revoked", "Reconnect"} : Append(inbox, Event(kind)) \in Seq(Events)
  <2>1. \A kind \in {"Login", "Revoked", "Reconnect"} : Event(kind) \in Events
    BY DEF Event, Events
  <2> TAKE kind \in {"Login", "Revoked", "Reconnect"}
  <2>2. Event(kind) \in Events
    BY <2>1
  <2> QED  BY <1>1, <2>2, AppendProperties
<1>3. ASSUME NEW login \in Logins, NEW retry \in BOOLEAN, NEW d,
             d = [daemon EXCEPT !.data = login] \/ d = [daemon EXCEPT !.retry = retry]
                 \/ d = daemon
      PROVE  /\ d \in Daemons /\ d.sent = <<>> /\ d.told = <<>>
             /\ Same(daemon, d) /\ d.setting = daemon.setting
  <2>1. d \in Daemons
    BY <1>1, <1>3 DEF Daemons
  <2> QED  BY <1>1, <1>3, <2>1 DEF Daemons, Same
<1>4. CASE AccountManager
  <2>1. LoopTypes
    BY <1>1, <1>4, BoundsAssumption DEF AccountManager, LoopTypes, Types
  <2>2. \E login \in Logins : daemon' = [daemon EXCEPT !.data = login] \/ daemon' = daemon
    BY <1>4 DEF AccountManager, Logins
  <2>3. inbox' \in Seq(Events) /\ proc' = proc /\ commands' = commands
    BY <1>1, <1>2, <1>4 DEF AccountManager
  <2> QED  BY <1>3, <2>1, <2>2, <2>3, QuietStep
<1>5. CASE TeardownDeadline
  <2>1. PICK generation \in deadlines : /\ Becomes(teardown_deadline(daemon, generation), inbox)
                                        /\ deadlines' = deadlines \ {generation}
    BY <1>5 DEF TeardownDeadline
  <2>2. LoopTypes /\ proc = "Running" /\ proc' = "Running"
    BY <1>1, <1>5, <2>1 DEF TeardownDeadline, LoopTypes, Types
  <2>3. Handled(daemon, teardown_deadline(daemon, generation))
    BY <1>1, <2>2, DeadlineHandled
  <2> QED  BY <1>1, <2>1, <2>2, <2>3, HandlerStep
<1>6. CASE RestartLockdownDeadman
  <2>1. deadman' \in Nat
    BY <1>1, <1>6 DEF RestartLockdownDeadman, Types
  <2>2. LoopTypes /\ proc = "Running" /\ proc' = "Running"
    BY <1>1, <1>6, <2>1 DEF RestartLockdownDeadman, LoopTypes, Types
  <2>3. Becomes(RestartGivenUp(daemon), inbox)
    BY <1>6 DEF RestartLockdownDeadman
  <2>4. Handled(daemon, RestartGivenUp(daemon))
    BY <1>1, <2>2, RestartHandled
  <2> QED  BY <1>1, <2>2, <2>3, <2>4, HandlerStep
<1>7. CASE RetryFires
  <2>1. LoopTypes
    BY <1>1, <1>7 DEF RetryFires, timers, LoopTypes, Types
  <2>2. daemon' = [daemon EXCEPT !.retry = FALSE] /\ proc' = proc /\ commands' = commands
    BY <1>7 DEF RetryFires
  <2>3. inbox' \in Seq(Events)
    BY <1>2, <1>7 DEF RetryFires
  <2> QED  BY <1>3, <2>1, <2>2, <2>3, QuietStep DEF Logins
<1> QED  BY <1>4, <1>5, <1>6, <1>7

LEMMA HandleEventStep ==
    ASSUME SessionInv, HandleEvent
    PROVE  SessionInv'
<1>1. /\ Types /\ daemon \in Daemons /\ daemon.sent = <<>> /\ inbox \in Seq(Events)
      /\ proc = "Running" /\ Keeps(daemon) /\ inbox # <<>>
  BY DEF SessionInv, Types, SecuredInv, Keeps, HandleEvent
<1>2. LoopTypes /\ proc' = "Running"
  BY <1>1 DEF HandleEvent, timers, LoopTypes, Types
<1>3. PICK event : event = Head(inbox)
  OBVIOUS
<1>4. event \in Events /\ Tail(inbox) \in Seq(Events)
  BY <1>1, <1>3, HeadTailProperties
<1>5. PICK d \in CASE event.kind = "Transition" -> OnTransition(daemon, event)
                   [] event.kind = "Reconnect" -> {on_reconnect(daemon)}
                   [] OTHER -> {OnDeviceEvent(daemon, event.kind)} : Becomes(d, Tail(inbox))
  BY <1>3 DEF HandleEvent
<1>6. event.kind \in {"Transition", "Login", "Logout", "Revoked", "Reconnect"}
  BY <1>3, <1>4 DEF HandleEvent, Events
<1>7. Handled(daemon, d)
  <2>1. CASE event.kind = "Transition"
    <3>1. d \in OnTransition(daemon, event)
      BY <1>5, <2>1
    <3>2. /\ d \in Daemons
          /\ d.target = daemon.target /\ d.file = daemon.file /\ d.pending \in {daemon.pending, <<>>}
          /\ d.sent = daemon.sent /\ d.login \in {daemon.login, "LoggedOut"}
      BY <1>1, <1>4, <3>1, TransitionFields
    <3> QED  BY <1>1, <3>2, KeptHandled
  <2>2. CASE event.kind = "Reconnect"
    <3>1. d = on_reconnect(daemon)
      BY <1>5, <2>2
    <3> QED  BY <1>1, <3>1, ReconnectHandled
  <2>3. CASE event.kind \in {"Login", "Logout", "Revoked"}
    <3>1. d = OnDeviceEvent(daemon, event.kind)
      BY <1>5, <2>3
    <3> QED  BY <1>1, <2>3, <3>1, DeviceEventHandled
  <2> QED  BY <1>6, <2>1, <2>2, <2>3
<1> QED  BY <1>1, <1>2, <1>4, <1>5, <1>7, HandlerStep

(***************************************************************************)
(* The shutdown.                                                           *)
(***************************************************************************)
LEMMA FinalizedFields ==
    ASSUME NEW d \in Daemons, NEW e \in Finalized(d)
    PROVE  e \in Daemons /\ e.sent = d.sent
<1>1. PICK file \in IF d.locked THEN {d.file} ELSE {NoFile, d.file} :
         e \in LogoutResults([d EXCEPT !.pending = <<>>, !.file = file], d.pending)
  BY DEF Finalized
<1>2. PICK k : k = [d EXCEPT !.pending = <<>>, !.file = file]
  OBVIOUS
<1>3. file \in Files
  <2>1. d.file \in Files
    BY DEF Daemons
  <2>2. NoFile \in Files
    BY DEF NoFile, Files
  <2> QED  BY <1>1, <2>1, <2>2
<1>4. k \in Daemons /\ k.sent = d.sent
  BY <1>2, <1>3, EmptySeq DEF Daemons
<1>5. e \in LogoutResults(k, d.pending)
  BY <1>1, <1>2
<1>6. d.pending \in Seq(BOOLEAN)
  BY DEF Daemons
<1> QED  BY <1>4, <1>5, <1>6, LogoutFields

LEMMA ShuttingDown ==
    ASSUME SessionInv, proc' \in {"Waiting", "Closing"}, machine' = machine, proc # "Dead",
           UNCHANGED timers, requests' \in 0 .. MaxRequests, promised' \in BOOLEAN,
           NEW e \in Daemons, NEW rest \in Seq(Events), Becomes(e, rest),
           promised' => \/ Coming(commands', {"LockdownOn"}, {"LockdownOff"})
                        \/ machine.lockdown /\ Clear(commands', {"LockdownOff"})
    PROVE  SessionInv'
<1>1. Types'
  BY BecomesFields DEF SessionInv, Types, timers
<1>2. DeadInv' /\ FilterInv' /\ PromiseInv'
  BY DEF SessionInv, DeadInv, FilterInv, PromiseInv
<1>3. FileInv' /\ SecuredInv' /\ RevokedInv'
  BY DEF FileInv, SecuredInv, RevokedInv
<1> QED  BY <1>1, <1>2, <1>3 DEF SessionInv

\* Commands that lock down and do not lift it again.
LocksDown(s) ==
    Clear(s, {"LockdownOff"}) /\ \E i \in 1 .. Len(s) : s[i].kind \in {"LockdownOn"}

LEMMA DisconnectLocksDown ==
    ASSUME NEW s \in Seq(Commands), LocksDown(s)
    PROVE  LocksDown(Append(s, Plain("Disconnect")))
<1>1. Plain("Disconnect") \in Commands /\ Plain("Disconnect").kind = "Disconnect"
  BY CommandFields
<1>2. PICK t : t = Append(s, Plain("Disconnect"))
  OBVIOUS
<1>3. /\ Len(s) \in Nat /\ Len(t) = Len(s) + 1
      /\ \A i \in 1 .. Len(s) : t[i] = s[i]
      /\ t[Len(s) + 1].kind = "Disconnect"
  BY <1>1, <1>2, AppendProperties, LenProperties
<1>4. Clear(t, {"LockdownOff"})
  BY <1>3 DEF LocksDown, Clear
<1>5. \E i \in 1 .. Len(t) : t[i].kind \in {"LockdownOn"}
  BY <1>3 DEF LocksDown
<1> QED  BY <1>2, <1>4, <1>5 DEF LocksDown

\* on_trigger_shutdown sends the lockdown it promises.
LEMMA ShutdownSends ==
    ASSUME NEW d \in Daemons, d.sent = <<>>, NEW user \in BOOLEAN
    PROVE  LET e == on_trigger_shutdown(d, user)
           IN  e \in Daemons /\ (Blocks(d, user) => LocksDown(e.sent))
<1>1. CASE Blocks(d, user)
  <2>1. PICK k : k = SendLockdown(d, TRUE)
    OBVIOUS
  <2>2. k = Send(d, Plain("LockdownOn")) /\ Plain("LockdownOn") \in Commands
    BY <2>1, CommandFields DEF SendLockdown
  <2>3. k \in Daemons /\ k.sent = Append(d.sent, Plain("LockdownOn"))
    BY <2>2, SendFields
  <2>4. k.sent = <<Plain("LockdownOn")>>
    BY <2>3, CommandFields
  <2>5. Plain("LockdownOn").kind = "LockdownOn"
    BY CommandFields
  <2>6. LocksDown(k.sent)
    BY <2>4, <2>5, SentOne DEF LocksDown
  <2>7. on_trigger_shutdown(d, user) = disconnect_tunnel(k)
    BY <1>1, <2>1 DEF on_trigger_shutdown
  <2>8. k.sent \in Seq(Commands)
    BY <2>3 DEF Daemons
  <2> QED  BY <2>3, <2>6, <2>7, <2>8, DisconnectFields, DisconnectLocksDown
<1>2. CASE ~Blocks(d, user)
  <2>1. on_trigger_shutdown(d, user) = disconnect_tunnel(d)
    BY <1>2 DEF on_trigger_shutdown
  <2> QED  BY <1>2, <2>1, DisconnectFields
<1> QED  BY <1>1, <1>2

LEMMA ShutdownStep ==
    ASSUME SessionInv, proc = "Running", NEW user \in BOOLEAN, NEW rest \in Seq(Events),
           Shutdown(user, rest), requests' \in 0 .. MaxRequests
    PROVE  SessionInv'
<1>1. /\ daemon \in Daemons /\ daemon.sent = <<>> /\ commands \in Seq(Commands)
  BY DEF SessionInv, Types
<1>2. PICK t : t = on_trigger_shutdown(daemon, user)
  OBVIOUS
<1>3. t \in Daemons /\ (Blocks(daemon, user) => LocksDown(t.sent))
  BY <1>1, <1>2, ShutdownSends
<1>4. PICK e : /\ e \in Daemons /\ Becomes(e, rest) /\ (Blocks(daemon, user) => LocksDown(e.sent))
               /\ proc' \in {"Waiting", "Closing"}
  <2>1. CASE \E d \in Finalized(t) : Becomes(d, rest) /\ proc' = "Closing"
    BY <1>3, <2>1, FinalizedFields
  <2>2. CASE Becomes(disconnect_tunnel(t), rest) /\ proc' = "Waiting"
    <3>1. t.sent \in Seq(Commands)
      BY <1>3 DEF Daemons
    <3>2. PICK k : k = disconnect_tunnel(t)
      OBVIOUS
    <3>3. k \in Daemons /\ (Blocks(daemon, user) => LocksDown(k.sent))
      BY <1>3, <3>1, <3>2, DisconnectFields, DisconnectLocksDown
    <3> QED  BY <2>2, <3>2, <3>3
  <2> QED  BY <1>2, <2>1, <2>2 DEF Shutdown
<1>5. e.sent \in Seq(Commands) /\ commands' = commands \o e.sent
  BY <1>4 DEF Daemons, Becomes
<1>6. promised' = Blocks(daemon, user) /\ machine' = machine /\ UNCHANGED timers
  BY DEF Shutdown
<1>7. promised' \in BOOLEAN
  BY <1>6 DEF Blocks
<1>8. promised' => Coming(commands', {"LockdownOn"}, {"LockdownOff"})
  BY <1>1, <1>4, <1>5, <1>6, SentAfter DEF LocksDown
<1> QED  BY <1>4, <1>6, <1>7, <1>8, ShuttingDown

LEMMA TriggerStep ==
    ASSUME SessionInv, TriggerShutdown
    PROVE  SessionInv'
<1>1. inbox \in Seq(Events) /\ requests \in 0 .. MaxRequests
  BY DEF SessionInv, Types
<1>2. CASE \E user \in BOOLEAN : Asked /\ Shutdown(user, inbox)
  <2>1. requests' \in 0 .. MaxRequests /\ proc = "Running"
    BY <1>1, <1>2, BoundsAssumption DEF Asked
  <2> QED  BY <1>1, <1>2, <2>1, ShutdownStep
<1>3. CASE /\ proc = "Running" /\ inbox # <<>>
           /\ Shutdown(FALSE, Tail(inbox)) /\ UNCHANGED requests
  <2>1. Tail(inbox) \in Seq(Events)
    BY <1>1, <1>3, HeadTailProperties
  <2> QED  BY <1>1, <1>3, <2>1, ShutdownStep
<1> QED  BY <1>2, <1>3 DEF TriggerShutdown

LEMMA WaitStep ==
    ASSUME SessionInv, WaitForDisconnect
    PROVE  SessionInv'
<1>1. /\ Types /\ daemon \in Daemons /\ daemon.sent = <<>> /\ inbox \in Seq(Events) /\ inbox # <<>>
      /\ proc = "Waiting" /\ commands \in Seq(Commands)
  BY DEF SessionInv, Types, WaitForDisconnect
<1>2. PICK event : event = Head(inbox)
  OBVIOUS
<1>3. event \in Events /\ Tail(inbox) \in Seq(Events)
  BY <1>1, <1>2, HeadTailProperties
<1>4. PICK d \in IF event.kind = "Transition" THEN OnTransition(daemon, event) ELSE {daemon} :
         IF d.view.state = "Disconnected"
         THEN /\ proc' = "Closing"
              /\ \E end \in Finalized(d) : Becomes(end, Tail(inbox))
         ELSE proc' = proc /\ Becomes(d, Tail(inbox))
  BY <1>2 DEF WaitForDisconnect
<1>5. d \in Daemons /\ d.sent = <<>>
  BY <1>1, <1>3, <1>4, TransitionFields
<1>6. PICK e \in Daemons : /\ e.sent = <<>> /\ Becomes(e, Tail(inbox))
                           /\ proc' \in {"Waiting", "Closing"}
  BY <1>1, <1>4, <1>5, FinalizedFields
<1>7. commands' = commands
  BY <1>1, <1>6, ConcatEmptySeq DEF Becomes
<1>8. /\ machine' = machine /\ UNCHANGED timers /\ promised' = promised
      /\ requests' \in 0 .. MaxRequests /\ promised' \in BOOLEAN
  BY <1>1 DEF WaitForDisconnect, Types
<1>9. promised' => \/ Coming(commands', {"LockdownOn"}, {"LockdownOff"})
                   \/ machine.lockdown /\ Clear(commands', {"LockdownOff"})
  BY <1>1, <1>7, <1>8 DEF SessionInv, PromiseInv
<1> QED  BY <1>1, <1>3, <1>6, <1>8, <1>9, ShuttingDown
-----------------------------------------------------------------------------
(***************************************************************************)
(* The state machine.                                                      *)
(***************************************************************************)
LEMMA EnterFields ==
    ASSUME Types, NEW state \in MachineStates, NEW after \in {"Nothing", "Reconnect", "Block", None},
           NEW cause \in Causes \cup {None}, Enter(state, after, cause)
    PROVE  /\ machine' \in Machines /\ inbox' \in Seq(Events)
           /\ machine'.state = state /\ machine'.after = after /\ machine'.cause = cause
           /\ machine'.lockdown = machine.lockdown
           /\ machine'.blocked = (state # "Disconnected" \/ machine.lockdown)
<1>1. machine \in Machines /\ inbox \in Seq(Events)
  BY DEF Types
<1>2. PICK blocked \in BOOLEAN : blocked = (state # "Disconnected" \/ machine.lockdown)
  OBVIOUS
<1>3. machine' = [machine EXCEPT !.state = state, !.after = after, !.cause = cause,
                                 !.blocked = blocked]
  BY <1>2 DEF Enter
<1>4. /\ machine' \in Machines
      /\ machine'.state = state /\ machine'.after = after /\ machine'.cause = cause
      /\ machine'.lockdown = machine.lockdown /\ machine'.blocked = blocked
  BY <1>1, <1>3 DEF Machines
<1>5. PICK reported \in Causes \cup {None} : reported = IF state = "Error" THEN cause ELSE None
  OBVIOUS
<1>6. Transition(state, reported) \in Events
  BY DEF Transition, Events
<1>7. inbox' \in Seq(Events)
  BY <1>1, <1>5, <1>6, AppendProperties DEF Enter
<1> QED  BY <1>2, <1>4, <1>7

LEMMA ChangesFields ==
    ASSUME Types, NEW after \in {"Nothing", "Reconnect", "Block"},
           NEW cause \in Causes \cup {None}, Changes(after, cause)
    PROVE  /\ machine' \in Machines /\ inbox' \in Seq(Events)
           /\ machine'.state = machine.state /\ machine'.after = after /\ machine'.cause = cause
           /\ machine'.lockdown = machine.lockdown /\ machine'.blocked = machine.blocked
BY DEF Types, Changes, Machines

LEMMA DialMoves ==
    ASSUME Types, Dial
    PROVE  /\ machine' \in Machines /\ inbox' \in Seq(Events) /\ FilterInv' /\ Wants'
           /\ machine'.lockdown = machine.lockdown
<1>1. ASSUME NEW state \in {"Connecting", "Error"}, NEW cause \in Causes \cup {None},
             Enter(state, None, cause)
      PROVE  /\ machine' \in Machines /\ inbox' \in Seq(Events) /\ FilterInv' /\ Wants'
             /\ machine'.lockdown = machine.lockdown
  <2>1. /\ machine' \in Machines /\ inbox' \in Seq(Events)
        /\ machine'.state = state /\ machine'.after = None
        /\ machine'.lockdown = machine.lockdown /\ machine'.blocked
    BY <1>1, EnterFields DEF MachineStates, Up
  <2> QED  BY <2>1 DEF FilterInv, Wants, Up
<1>2. ExitCauses \subseteq Causes
  BY DEF Causes
<1> QED  BY <1>1, <1>2 DEF Dial

LEMMA CloseMoves ==
    ASSUME Types, NEW after \in {"Nothing", "Reconnect", "Block"}, NEW cause \in Causes \cup {None},
           Close(after, cause)
    PROVE  /\ machine' \in Machines /\ inbox' \in Seq(Events) /\ FilterInv'
           /\ machine'.state = "Disconnecting" /\ machine'.after = after /\ machine'.cause = cause
           /\ machine'.lockdown = machine.lockdown
<1>1. /\ machine' \in Machines /\ inbox' \in Seq(Events)
      /\ machine'.state = "Disconnecting" /\ machine'.after = after /\ machine'.cause = cause
      /\ machine'.lockdown = machine.lockdown /\ machine'.blocked
  <2>1. "Disconnecting" \in MachineStates /\ Enter("Disconnecting", after, cause)
    BY DEF Close, MachineStates
  <2>2. after \in {"Nothing", "Reconnect", "Block", None}
    OBVIOUS
  <2> QED  BY <2>1, <2>2, EnterFields
<1> QED  BY <1>1 DEF FilterInv, None

LEMMA ChangesMoves ==
    ASSUME Types, FilterInv, machine.state = "Disconnecting",
           NEW after \in {"Nothing", "Reconnect", "Block"}, NEW cause \in Causes \cup {None},
           Changes(after, cause)
    PROVE  /\ machine' \in Machines /\ inbox' \in Seq(Events) /\ FilterInv'
           /\ machine'.state = "Disconnecting" /\ machine'.after = after /\ machine'.cause = cause
           /\ machine'.lockdown = machine.lockdown
<1>1. /\ machine' \in Machines /\ inbox' \in Seq(Events)
      /\ machine'.state = "Disconnecting" /\ machine'.after = after /\ machine'.cause = cause
      /\ machine'.lockdown = machine.lockdown /\ machine'.blocked = machine.blocked
  BY ChangesFields
<1> QED  BY <1>1 DEF FilterInv, None

\* A way into the error state, or to Disconnected.
LEMMA EnterMoves ==
    ASSUME Types, NEW state \in {"Error", "Disconnected", "Connected"},
           NEW cause \in Causes \cup {None}, Enter(state, None, cause)
    PROVE  /\ machine' \in Machines /\ inbox' \in Seq(Events) /\ FilterInv'
           /\ machine'.state = state /\ machine'.cause = cause
           /\ machine'.lockdown = machine.lockdown
<1>1. /\ machine' \in Machines /\ inbox' \in Seq(Events)
      /\ machine'.state = state /\ machine'.after = None /\ machine'.cause = cause
      /\ machine'.lockdown = machine.lockdown
      /\ machine'.blocked = (state # "Disconnected" \/ machine.lockdown)
  BY EnterFields DEF MachineStates, Up
<1> QED  BY <1>1 DEF FilterInv

\* A step of the machine by itself.
LEMMA MoveStep ==
    ASSUME SessionInv, proc # "Dead", UNCHANGED <<proc, daemon, commands, timers, promised, requests>>,
           machine' \in Machines, inbox' \in Seq(Events), FilterInv',
           machine'.lockdown = machine.lockdown,
           proc = "Running" => (Wants => Wants') /\ (BlocksForGood => BlocksForGood')
    PROVE  SessionInv'
<1>1. Types'
  BY DEF SessionInv, Types, timers
<1>2. DeadInv' /\ PromiseInv'
  BY DEF SessionInv, DeadInv, PromiseInv
<1>3. FileInv' /\ SecuredInv'
  BY DEF SessionInv, FileInv, SecuredInv, Keeps
<1>4. RevokedInv'
  BY DEF SessionInv, RevokedInv
<1> QED  BY <1>1, <1>2, <1>3, <1>4 DEF SessionInv

LEMMA TunnelStep ==
    ASSUME SessionInv,
           TunnelUp \/ TunnelLost \/ TunnelClosed \/ TunnelClosedBlocking \/ BackOnline
               \/ ChannelClosed
    PROVE  SessionInv'
<1>1. Types /\ FilterInv /\ DeadInv
  BY DEF SessionInv
<1>2. UNCHANGED <<proc, daemon, commands, timers, promised, requests>> /\ proc # "Dead"
  BY <1>1 DEF DeadInv, TunnelUp, TunnelLost, TunnelClosed, TunnelClosedBlocking, BackOnline,
     ChannelClosed, Up
<1>3. ExitCauses \subseteq Causes
  BY DEF Causes
<1>4. CASE TunnelUp
  <2>1. ~BlocksForGood /\ Enter("Connected", None, None)
    BY <1>4 DEF TunnelUp, BlocksForGood
  <2>2. /\ machine' \in Machines /\ inbox' \in Seq(Events) /\ FilterInv'
        /\ machine'.state = "Connected" /\ machine'.lockdown = machine.lockdown
    BY <1>1, <2>1, EnterMoves
  <2> QED  BY <1>2, <2>1, <2>2, MoveStep DEF Wants, Up
<1>5. CASE TunnelLost
  <2>1. ~BlocksForGood
    BY <1>5 DEF TunnelLost, BlocksForGood, Up
  <2>2. /\ machine' \in Machines /\ inbox' \in Seq(Events) /\ FilterInv' /\ Wants'
        /\ machine'.lockdown = machine.lockdown
    <3>1. CASE Dial
      BY <1>1, <3>1, DialMoves
    <3>2. CASE \E after \in {"Reconnect", "Block"}, cause \in Causes \cup {None} :
                  Close(after, cause)
      BY <1>1, <3>2, CloseMoves DEF Wants
    <3> QED  BY <1>3, <1>5, <3>1, <3>2 DEF TunnelLost
  <2> QED  BY <1>2, <2>1, <2>2, MoveStep
<1>6. CASE TunnelClosed
  <2>1. machine.state = "Disconnecting" /\ machine.after \in {"Nothing", "Reconnect", "Block"}
    BY <1>1, <1>6 DEF TunnelClosed, FilterInv, Types, Machines
  <2>2. machine.cause \in Causes \cup {None}
    BY <1>1 DEF Types, Machines
  <2>3. CASE machine.after = "Nothing"
    <3>1. ~Wants /\ ~BlocksForGood /\ Enter("Disconnected", None, None)
      BY <1>6, <2>1, <2>3 DEF TunnelClosed, Wants, BlocksForGood, Up
    <3> QED  BY <1>1, <1>2, <3>1, EnterMoves, MoveStep
  <2>4. CASE machine.after = "Block"
    <3>1. Enter("Error", None, machine.cause)
      BY <1>6, <2>4 DEF TunnelClosed
    <3>2. /\ machine' \in Machines /\ inbox' \in Seq(Events) /\ FilterInv'
          /\ machine'.state = "Error" /\ machine'.cause = machine.cause
          /\ machine'.lockdown = machine.lockdown
      BY <1>1, <2>2, <3>1, EnterMoves
    <3>3. Wants' /\ (BlocksForGood => BlocksForGood')
      BY <3>2 DEF Wants, BlocksForGood
    <3> QED  BY <1>2, <3>2, <3>3, MoveStep
  <2>5. CASE machine.after = "Reconnect"
    <3>1. ~BlocksForGood /\ Dial
      BY <1>6, <2>1, <2>5 DEF TunnelClosed, BlocksForGood
    <3> QED  BY <1>1, <1>2, <3>1, DialMoves, MoveStep
  <2> QED  BY <2>1, <2>3, <2>4, <2>5
<1>7. CASE TunnelClosedBlocking
  <2>1. PICK cause \in ExitCauses \ {"Offline"} : Enter("Error", None, cause)
    BY <1>7 DEF TunnelClosedBlocking
  <2>2. /\ machine' \in Machines /\ inbox' \in Seq(Events) /\ FilterInv'
        /\ machine'.state = "Error" /\ machine'.cause = cause
        /\ machine'.lockdown = machine.lockdown
    BY <1>1, <1>3, <2>1, EnterMoves
  <2>3. Wants' /\ BlocksForGood'
    BY <2>2 DEF Wants, BlocksForGood
  <2> QED  BY <1>2, <2>2, <2>3, MoveStep
<1>8. CASE BackOnline
  <2>1. ~BlocksForGood
    BY <1>8 DEF BackOnline, BlocksForGood
  <2>2. CASE Dial
    BY <1>1, <1>2, <2>1, <2>2, DialMoves, MoveStep
  <2>3. CASE machine.state = "Disconnecting" /\ Changes("Reconnect", None)
    BY <1>1, <1>2, <2>1, <2>3, ChangesMoves, MoveStep DEF Wants
  <2> QED  BY <1>8, <2>2, <2>3 DEF BackOnline
<1>9. CASE ChannelClosed
  <2>1. proc # "Running"
    BY <1>9 DEF ChannelClosed
  <2>2. CASE Enter("Disconnected", None, None)
    BY <1>1, <1>2, <2>1, <2>2, EnterMoves, MoveStep
  <2>3. CASE Close("Nothing", None)
    BY <1>1, <1>2, <2>1, <2>3, CloseMoves, MoveStep
  <2>4. CASE machine.state = "Disconnecting" /\ Changes("Nothing", None)
    BY <1>1, <1>2, <2>1, <2>4, ChangesMoves, MoveStep
  <2> QED  BY <1>9, <2>2, <2>3, <2>4 DEF ChannelClosed
<1> QED  BY <1>4, <1>5, <1>6, <1>7, <1>8, <1>9

(***************************************************************************)
(* A command is read.                                                      *)
(***************************************************************************)
LEMMA LockdownMoves ==
    ASSUME Types, FilterInv, proc' = proc, NEW on \in BOOLEAN, TakeLockdown(on)
    PROVE  /\ machine' \in Machines /\ inbox' \in Seq(Events) /\ FilterInv'
           /\ machine'.state = machine.state /\ machine'.after = machine.after
           /\ machine'.cause = machine.cause /\ machine'.lockdown = on
<1>1. machine \in Machines /\ inbox \in Seq(Events)
  BY DEF Types
<1>2. CASE machine.state = "Disconnected" /\ machine.lockdown # on
  <2>1. machine' = [machine EXCEPT !.lockdown = on, !.blocked = on]
    BY <1>2 DEF TakeLockdown
  <2>2. /\ machine' \in Machines
        /\ machine'.state = machine.state /\ machine'.after = machine.after
        /\ machine'.cause = machine.cause /\ machine'.lockdown = on /\ machine'.blocked = on
    BY <1>1, <2>1 DEF Machines
  <2>3. Transition("Disconnected", None) \in Events
    BY DEF Transition, Events, MachineStates
  <2>4. inbox' \in Seq(Events)
    BY <1>1, <1>2, <2>3, AppendProperties DEF TakeLockdown
  <2> QED  BY <1>2, <2>2, <2>4 DEF FilterInv
<1>3. CASE ~(machine.state = "Disconnected" /\ machine.lockdown # on)
  <2>1. machine' = [machine EXCEPT !.lockdown = on] /\ inbox' = inbox
    BY <1>3 DEF TakeLockdown
  <2>2. /\ machine' \in Machines
        /\ machine'.state = machine.state /\ machine'.after = machine.after
        /\ machine'.cause = machine.cause /\ machine'.lockdown = on
        /\ machine'.blocked = machine.blocked
    BY <1>1, <2>1 DEF Machines
  <2> QED  BY <1>1, <1>3, <2>1, <2>2 DEF FilterInv
<1> QED  BY <1>2, <1>3

\* What is read of a command, whichever state reads it.
LEMMA ConnectMoves ==
    ASSUME Types, FilterInv, TakeConnect
    PROVE  /\ machine' \in Machines /\ inbox' \in Seq(Events) /\ FilterInv' /\ Wants'
           /\ machine'.lockdown = machine.lockdown
<1>1. CASE Dial
  BY <1>1, DialMoves
<1>2. CASE Close("Reconnect", None)
  BY <1>2, CloseMoves DEF Wants
<1>3. CASE machine.state = "Disconnecting" /\ Changes("Reconnect", None)
  BY <1>3, ChangesMoves DEF Wants
<1> QED  BY <1>1, <1>2, <1>3 DEF TakeConnect

LEMMA DisconnectMoves ==
    ASSUME Types, FilterInv, proc' = proc, TakeDisconnect
    PROVE  /\ machine' \in Machines /\ inbox' \in Seq(Events) /\ FilterInv'
           /\ machine'.lockdown = machine.lockdown
<1>1. CASE Stays
  BY <1>1 DEF Stays, Types, FilterInv
<1>2. CASE Enter("Disconnected", None, None)
  BY <1>2, EnterMoves
<1>3. CASE Close("Nothing", None)
  BY <1>3, CloseMoves
<1>4. CASE machine.state = "Disconnecting" /\ Changes("Nothing", None)
  BY <1>4, ChangesMoves
<1> QED  BY <1>1, <1>2, <1>3, <1>4 DEF TakeDisconnect

LEMMA BlockMoves ==
    ASSUME Types, FilterInv, proc' = proc, NEW cause \in BlockCauses, TakeBlock(cause)
    PROVE  /\ machine' \in Machines /\ inbox' \in Seq(Events) /\ FilterInv'
           /\ machine'.lockdown = machine.lockdown
           /\ Wants => Wants' /\ BlocksForGood'
           /\ BlocksForGood => BlocksForGood'
<1>1. cause \in Causes \cup {None} /\ cause # "Offline"
  BY DEF BlockCauses, Causes
<1>2. CASE Enter("Error", None, cause)
  <2>1. /\ machine' \in Machines /\ inbox' \in Seq(Events) /\ FilterInv'
        /\ machine'.state = "Error" /\ machine'.cause = cause
        /\ machine'.lockdown = machine.lockdown
    BY <1>1, <1>2, EnterMoves
  <2> QED  BY <1>1, <2>1 DEF Wants, BlocksForGood
<1>3. CASE Close("Block", cause)
  <2>1. /\ machine' \in Machines /\ inbox' \in Seq(Events) /\ FilterInv'
        /\ machine'.state = "Disconnecting" /\ machine'.after = "Block" /\ machine'.cause = cause
        /\ machine'.lockdown = machine.lockdown
    BY <1>1, <1>3, CloseMoves
  <2> QED  BY <1>1, <2>1 DEF Wants, BlocksForGood
<1>4. CASE machine.state = "Disconnecting" /\ Changes("Block", cause)
  <2>1. /\ machine' \in Machines /\ inbox' \in Seq(Events) /\ FilterInv'
        /\ machine'.state = "Disconnecting" /\ machine'.after = "Block" /\ machine'.cause = cause
        /\ machine'.lockdown = machine.lockdown
    BY <1>1, <1>4, ChangesMoves
  <2> QED  BY <1>1, <2>1 DEF Wants, BlocksForGood
<1>5. CASE (machine.state = "Disconnected" \/ machine.after = "Nothing") /\ Stays
  <2>1. ~Wants /\ ~BlocksForGood
    BY <1>5 DEF FilterInv, Wants, BlocksForGood, Up, None
  <2> QED  BY <1>5, <2>1 DEF Stays, Types, FilterInv
<1> QED  BY <1>2, <1>3, <1>4, <1>5 DEF TakeBlock

\* What reading a command of each kind leaves of the machine.
LEMMA HandleMoves ==
    ASSUME Types, FilterInv, proc' = proc, NEW c \in Commands, Handle(c)
    PROVE  /\ machine' \in Machines /\ inbox' \in Seq(Events) /\ FilterInv'
           /\ c.kind = "Connect" => Wants'
           /\ c.kind # "Disconnect" /\ Wants => Wants'
           /\ c.kind = "Block" /\ Wants => BlocksForGood'
           /\ c.kind \notin Ends /\ BlocksForGood => BlocksForGood'
           /\ c.kind = "LockdownOn" => machine'.lockdown
           /\ c.kind # "LockdownOff" /\ machine.lockdown => machine'.lockdown
<1>1. CASE c.kind \in {"LockdownOn", "LockdownOff"}
  <2>1. PICK on \in BOOLEAN : TakeLockdown(on) /\ (on <=> c.kind = "LockdownOn")
    BY <1>1 DEF Handle
  <2>2. /\ machine' \in Machines /\ inbox' \in Seq(Events) /\ FilterInv'
        /\ machine'.state = machine.state /\ machine'.after = machine.after
        /\ machine'.cause = machine.cause /\ machine'.lockdown = on
    BY <2>1, LockdownMoves
  <2>3. (Wants => Wants') /\ (BlocksForGood => BlocksForGood')
    BY <2>2 DEF Wants, BlocksForGood
  <2>4. machine'.lockdown <=> c.kind = "LockdownOn"
    BY <2>1, <2>2
  <2> QED  BY <1>1, <2>2, <2>3, <2>4
<1>2. CASE c.kind = "Connect"
  <2>1. TakeConnect
    BY <1>2 DEF Handle
  <2> QED  BY <1>2, <2>1, ConnectMoves DEF Ends
<1>3. CASE c.kind = "Disconnect"
  <2>1. TakeDisconnect
    BY <1>3 DEF Handle
  <2> QED  BY <1>3, <2>1, DisconnectMoves DEF Ends
<1>4. CASE c.kind = "Block"
  <2>1. TakeBlock(c.cause) /\ c.cause \in BlockCauses
    BY <1>4, CommandFields DEF Handle
  <2> QED  BY <1>4, <2>1, BlockMoves
<1> QED  BY <1>1, <1>2, <1>3, <1>4 DEF Handle

LEMMA ReadStep ==
    ASSUME SessionInv, ReadCommand
    PROVE  SessionInv'
<1>1. Types /\ DeadInv /\ FilterInv /\ commands \in Seq(Commands) /\ commands # <<>>
  BY DEF SessionInv, Types, ReadCommand
<1>2. proc # "Dead" /\ proc' = proc /\ daemon' = daemon /\ promised' = promised
  BY <1>1 DEF DeadInv, ReadCommand
<1>3. PICK c \in Commands : c = Head(commands) /\ Handle(c)
  BY <1>1, HeadTailProperties DEF ReadCommand
<1>4. commands' = Tail(commands) /\ Tail(commands) \in Seq(Commands)
  BY <1>1, HeadTailProperties DEF ReadCommand
<1>5. /\ machine' \in Machines /\ inbox' \in Seq(Events) /\ FilterInv'
      /\ c.kind = "Connect" => Wants'
      /\ c.kind # "Disconnect" /\ Wants => Wants'
      /\ c.kind = "Block" /\ Wants => BlocksForGood'
      /\ c.kind \notin Ends /\ BlocksForGood => BlocksForGood'
      /\ c.kind = "LockdownOn" => machine'.lockdown
      /\ c.kind # "LockdownOff" /\ machine.lockdown => machine'.lockdown
  BY <1>1, <1>2, <1>3, HandleMoves
<1>6. Types'
  BY <1>1, <1>2, <1>4, <1>5 DEF Types, ReadCommand, timers
<1>7. PromiseInv'
  <2> SUFFICES ASSUME proc \in {"Waiting", "Closing"}, promised
               PROVE  \/ Coming(commands', {"LockdownOn"}, {"LockdownOff"})
                      \/ machine'.lockdown /\ Clear(commands', {"LockdownOff"})
    BY <1>2 DEF PromiseInv
  <2>1. CASE Coming(commands, {"LockdownOn"}, {"LockdownOff"})
    BY <1>1, <1>3, <1>4, <1>5, <2>1, Reads
  <2>2. CASE machine.lockdown /\ Clear(commands, {"LockdownOff"})
    <3>1. c.kind # "LockdownOff" /\ Clear(Tail(commands), {"LockdownOff"})
      BY <1>1, <1>3, <2>2, Reads
    <3> QED  BY <1>4, <1>5, <2>2, <3>1
  <2> QED  BY <2>1, <2>2 DEF SessionInv, PromiseInv
<1>8. SecuredInv'
  <2> SUFFICES ASSUME proc = "Running", daemon.target = "Secured"
               PROVE  /\ Keeps(daemon)
                      /\ \/ Coming(commands', {"Connect"}, {"Disconnect"})
                         \/ Wants' /\ Clear(commands', {"Disconnect"})
    BY <1>2 DEF SecuredInv, Keeps
  <2>1. Keeps(daemon)
    BY DEF SessionInv, SecuredInv
  <2>2. CASE Coming(commands, {"Connect"}, {"Disconnect"})
    BY <1>1, <1>3, <1>4, <1>5, <2>1, <2>2, Reads
  <2>3. CASE Wants /\ Clear(commands, {"Disconnect"})
    <3>1. c.kind # "Disconnect" /\ Clear(Tail(commands), {"Disconnect"})
      BY <1>1, <1>3, <2>3, Reads
    <3> QED  BY <1>4, <1>5, <2>1, <2>3, <3>1
  <2> QED  BY <2>2, <2>3 DEF SessionInv, SecuredInv
<1>9. RevokedInv'
  <2> SUFFICES ASSUME proc = "Running", daemon.target = "Secured", daemon.login = "Revoked"
               PROVE  \/ Coming(commands', {"Block"}, Ends)
                      \/ BlocksForGood' /\ Clear(commands', Ends)
    BY <1>2 DEF RevokedInv
  <2>1. CASE Coming(commands, {"Block"}, Ends)
    <3> SUFFICES ASSUME c.kind = "Block", Clear(Tail(commands), Ends)
                 PROVE  BlocksForGood' /\ Clear(commands', Ends)
      BY <1>1, <1>3, <1>4, <2>1, Reads
    <3>1. ~Coming(Tail(commands), {"Connect"}, {"Disconnect"})
      BY Channels
    <3>2. ~Coming(commands, {"Connect"}, {"Disconnect"})
      BY <1>1, <1>3, <3>1, Reads
    <3>3. Wants
      BY <3>2 DEF SessionInv, SecuredInv
    <3> QED  BY <1>4, <1>5, <3>3
  <2>2. CASE BlocksForGood /\ Clear(commands, Ends)
    <3>1. c.kind \notin Ends /\ Clear(Tail(commands), Ends)
      BY <1>1, <1>3, <2>2, Reads
    <3> QED  BY <1>4, <1>5, <2>2, <3>1
  <2> QED  BY <2>1, <2>2 DEF SessionInv, RevokedInv
<1>10. DeadInv' /\ FileInv'
  BY <1>2 DEF SessionInv, DeadInv, FileInv
<1> QED  BY <1>5, <1>6, <1>7, <1>8, <1>9, <1>10 DEF SessionInv

-----------------------------------------------------------------------------
(***************************************************************************)
(* The process ends and starts.                                            *)
(***************************************************************************)
LEMMA LeavesFields ==
    ASSUME NEW disk \in Daemons, disk.sent = <<>>, disk.told = <<>>, NEW blocked \in BOOLEAN,
           Leaves(disk, blocked)
    PROVE  /\ proc' = "Dead" /\ daemon' \in Daemons /\ daemon'.sent = <<>> /\ daemon'.told = <<>>
           /\ daemon'.pending = <<>> /\ daemon'.setting = disk.setting
           /\ daemon'.file.holds = disk.file.holds /\ daemon'.auto = disk.auto
           /\ daemon'.target = disk.target
           /\ machine' \in Machines /\ machine'.state = "Disconnected" /\ machine'.after = None
           /\ machine'.lockdown = disk.setting /\ machine'.blocked = blocked
           /\ commands' = <<>> /\ inbox' = <<>>
           /\ deadlines' = {} /\ deadman' = 0
<1>1. NoView \in [state : MachineStates \cup {None}, cause : Causes \cup {None}]
  BY DEF NoView, MachineStates
<1>2. PICK view \in [state : MachineStates \cup {None}, cause : Causes \cup {None}] : view = NoView
  BY <1>1
<1>3. PICK login \in Logins : login = disk.data
  BY DEF Daemons
<1>4. <<>> \in Seq(BOOLEAN)
  BY EmptySeq
<1>0. PICK file \in Files : file = [holds |-> disk.file.holds, stale |-> FALSE]
  BY DEF Daemons, Files
<1>5. daemon' = [disk EXCEPT
                    !.file = file, !.login = login, !.view = view,
                    !.retry = FALSE, !.locked = FALSE, !.armed = FALSE, !.pending = <<>>,
                    !.generation = 0, !.connectInFlight = FALSE, !.ban = FALSE,
                    !.blockedForBan = FALSE]
  BY <1>0, <1>2, <1>3 DEF Leaves
<1>6. daemon' \in Daemons
  BY <1>4, <1>5 DEF Daemons
<1>7. /\ daemon'.sent = <<>> /\ daemon'.told = <<>>
      /\ daemon'.pending = <<>> /\ daemon'.setting = disk.setting
      /\ daemon'.file = file /\ daemon'.auto = disk.auto
      /\ daemon'.target = disk.target
  BY <1>5 DEF Daemons
<1>8. disk.setting \in BOOLEAN
  BY DEF Daemons
<1>9. /\ machine' \in Machines /\ machine'.state = "Disconnected" /\ machine'.after = None
      /\ machine'.lockdown = disk.setting /\ machine'.blocked = blocked
  BY <1>8 DEF Leaves, Machines, MachineStates
<1> QED  BY <1>0, <1>6, <1>7, <1>9 DEF Leaves

LEMMA LeavesStep ==
    ASSUME SessionInv, NEW disk \in Daemons, disk.sent = <<>>, disk.told = <<>>,
           NEW blocked \in BOOLEAN, Leaves(disk, blocked),
           requests' \in 0 .. MaxRequests, promised' \in BOOLEAN, promised' => blocked
    PROVE  SessionInv'
<1>1. /\ proc' = "Dead" /\ daemon' \in Daemons /\ daemon'.sent = <<>> /\ daemon'.told = <<>>
      /\ daemon'.pending = <<>> /\ daemon'.setting = disk.setting
      /\ machine' \in Machines /\ machine'.state = "Disconnected" /\ machine'.after = None
      /\ machine'.lockdown = disk.setting /\ machine'.blocked = blocked
      /\ commands' = <<>> /\ inbox' = <<>>
      /\ deadlines' = {} /\ deadman' = 0
  BY LeavesFields
<1>2. <<>> \in Seq(Commands) /\ <<>> \in Seq(Events)
  BY EmptySeq
<1>3. Types'
  BY <1>1, <1>2 DEF Types
<1>4. DeadInv' /\ FilterInv'
  BY <1>1 DEF DeadInv, FilterInv
<1>5. PromiseInv' /\ FileInv' /\ SecuredInv' /\ RevokedInv'
  BY <1>1 DEF PromiseInv, FileInv, SecuredInv, RevokedInv
<1> QED  BY <1>3, <1>4, <1>5 DEF SessionInv

LEMMA EndStep ==
    ASSUME SessionInv, Exit \/ Crash
    PROVE  SessionInv'
<1>1. /\ Types /\ daemon \in Daemons /\ daemon.sent = <<>> /\ daemon.told = <<>>
      /\ machine \in Machines /\ requests \in 0 .. MaxRequests /\ promised \in BOOLEAN
  BY DEF SessionInv, Types
<1>2. CASE Exit
  <2>1. PICK blocked \in BOOLEAN : blocked = (machine.blocked /\ machine.lockdown)
    OBVIOUS
  <2>2. /\ Leaves(daemon, blocked) /\ requests' = requests /\ promised' = promised
        /\ proc = "Closing" /\ commands = <<>>
    BY <1>2, <2>1 DEF Exit
  <2>3. ~Coming(commands, {"LockdownOn"}, {"LockdownOff"})
    BY <2>2, Channels
  <2>4. promised => machine.lockdown
    BY <2>2, <2>3 DEF SessionInv, PromiseInv
  <2>5. machine.lockdown => machine.blocked
    BY <2>2 DEF SessionInv, FilterInv
  <2>6. promised' => blocked
    BY <2>1, <2>2, <2>4, <2>5
  <2> QED  BY <1>1, <2>2, <2>6, LeavesStep
<1>3. CASE Crash
  <2>1. Leaves(daemon, machine.blocked)
    BY <1>3 DEF Crash
  <2>2. requests' \in 0 .. MaxRequests /\ promised' = FALSE
    BY <1>1, <1>3, BoundsAssumption DEF Crash
  <2>3. machine.blocked \in BOOLEAN
    BY <1>1 DEF Machines
  <2> QED  BY <1>1, <2>1, <2>2, <2>3, LeavesStep
<1> QED  BY <1>2, <1>3

\* What a start reads, and what it makes of it.
LEMMA BootFields ==
    ASSUME NEW d \in Daemons
    PROVE  LET target == StartTarget(d)
               login == StartLogin(d)
               boot == secured_boot(target, login)
           IN  /\ target \in {"Secured", "Unsecured"} /\ login \in Logins
               /\ \/ target = "Unsecured" /\ boot = None
                  \/ target = "Secured" /\ login = "LoggedOut" /\ boot = "DropLoggedOut"
                  \/ target = "Secured" /\ login = "Revoked" /\ boot = "BlockRevoked"
                  \/ target = "Secured" /\ login = "LoggedIn" /\ boot = "Connect"
<1>1. /\ d.file.holds \in {"Secured", "Unsecured", "Torn", None} /\ d.auto \in BOOLEAN
      /\ d.data \in Logins /\ d.identity \in BOOLEAN
  BY DEF Daemons, Files
<1>2. PICK target : target = StartTarget(d)
  OBVIOUS
<1>3. target \in {"Secured", "Unsecured"}
  <2>1. CASE d.auto \/ d.file.holds = "Torn"
    BY <1>2, <2>1 DEF StartTarget
  <2>2. CASE ~(d.auto \/ d.file.holds = "Torn")
    BY <1>1, <1>2, <2>2 DEF StartTarget
  <2> QED  BY <2>1, <2>2
<1>4. PICK login : login = StartLogin(d)
  OBVIOUS
<1>5. login \in Logins
  BY <1>1, <1>4 DEF StartLogin, Logins
<1>6. PICK boot : boot = secured_boot(target, login)
  OBVIOUS
<1>7. \/ target = "Unsecured" /\ boot = None
      \/ target = "Secured" /\ login = "LoggedOut" /\ boot = "DropLoggedOut"
      \/ target = "Secured" /\ login = "Revoked" /\ boot = "BlockRevoked"
      \/ target = "Secured" /\ login = "LoggedIn" /\ boot = "Connect"
  BY <1>3, <1>5, <1>6 DEF secured_boot, Logins
<1> QED  BY <1>2, <1>3, <1>4, <1>5, <1>6, <1>7

\* The file after the save of a start.
LEMMA StartFilesFields ==
    ASSUME NEW d \in Daemons, NEW first \in StartFiles(d)
    PROVE  first \in Files /\ (StartTarget(d) = "Secured" => Reached(first))
<1>1. d.file \in Files
  BY DEF Daemons
<1>2. CASE d.auto \/ d.file.holds = "Torn"
  BY <1>1, <1>2, SavesFields DEF StartFiles
<1>3. CASE ~(d.auto \/ d.file.holds = "Torn")
  BY <1>1, <1>3 DEF StartFiles, StartTarget, Reached, Files, None
<1> QED  BY <1>2, <1>3

\* The state after a start, by what its boot decided.
LEMMA StartFields ==
    ASSUME Types, DeadInv, FilterInv, Start
    PROVE  /\ proc = "Dead" /\ proc' = "Running"
           /\ daemon' \in Daemons /\ daemon'.sent = <<>> /\ daemon'.told = <<>>
           /\ machine' \in Machines /\ machine'.after = None
           /\ machine'.lockdown = machine.lockdown
           /\ machine.lockdown => machine'.blocked
           /\ inbox' \in Seq(Events)
           /\ promised' = FALSE /\ UNCHANGED <<timers, requests>>
           /\ \/ /\ daemon'.target = "Unsecured" /\ commands' = <<>>
                 /\ machine'.state = "Disconnected"
              \/ /\ daemon'.target = "Secured" /\ Reached(daemon'.file)
                 /\ daemon'.pending = <<>> /\ daemon'.login = "Revoked" /\ commands' = <<>>
                 /\ machine'.state = "Error" /\ machine'.cause = "Revoked" /\ machine'.blocked
              \/ /\ daemon'.target = "Secured" /\ Reached(daemon'.file)
                 /\ daemon'.pending = <<>> /\ daemon'.login = "LoggedIn"
                 /\ commands' = <<Plain("Connect")>>
                 /\ machine'.state = "Disconnected"
                 /\ machine.blocked => machine'.blocked
<1>1. /\ daemon \in Daemons /\ daemon.sent = <<>> /\ daemon.told = <<>> /\ machine \in Machines
  BY DEF Types
<1>2. PICK target \in {"Secured", "Unsecured"} : target = StartTarget(daemon)
  BY <1>1, BootFields
<1>3. PICK login \in Logins : login = StartLogin(daemon)
  BY <1>1, BootFields
<1>4. PICK boot : boot = secured_boot(target, login)
  OBVIOUS
<1>5. \/ target = "Unsecured" /\ boot = None
      \/ target = "Secured" /\ login = "LoggedOut" /\ boot = "DropLoggedOut"
      \/ target = "Secured" /\ login = "Revoked" /\ boot = "BlockRevoked"
      \/ target = "Secured" /\ login = "LoggedIn" /\ boot = "Connect"
  BY <1>1, <1>2, <1>3, <1>4, BootFields
<1>6. PICK settled \in {"Secured", "Unsecured"} :
         settled = IF boot = "DropLoggedOut" THEN "Unsecured" ELSE target
  OBVIOUS
<1>7. PICK dials \in BOOLEAN : dials = (boot = "Connect")
  OBVIOUS
<1>8. PICK first \in StartFiles(daemon) :
         \E file \in IF boot = "DropLoggedOut" THEN Saves(first, "Unsecured") ELSE {first} :
            daemon' = [daemon EXCEPT !.target = settled, !.file = file, !.login = login,
                                     !.data = login, !.connectInFlight = dials]
  BY <1>2, <1>3, <1>4, <1>6, <1>7 DEF Start
<1>9. PICK file \in IF boot = "DropLoggedOut" THEN Saves(first, "Unsecured") ELSE {first} :
         daemon' = [daemon EXCEPT !.target = settled, !.file = file, !.login = login,
                                  !.data = login, !.connectInFlight = dials]
  BY <1>8
<1>0. file \in Files /\ (settled = "Secured" => Reached(file))
  <2>1. first \in Files /\ (target = "Secured" => Reached(first))
    BY <1>1, <1>2, <1>8, StartFilesFields
  <2>2. CASE boot = "DropLoggedOut"
    BY <1>6, <1>9, <2>1, <2>2, SavesFields
  <2>3. CASE boot # "DropLoggedOut"
    BY <1>6, <1>9, <2>1, <2>3
  <2> QED  BY <2>2, <2>3
<1>10. /\ daemon' \in Daemons /\ daemon'.sent = <<>> /\ daemon'.told = <<>>
  BY <1>0, <1>1, <1>9 DEF Daemons
<1>11. /\ daemon'.target = settled /\ daemon'.login = login /\ daemon'.file = file
       /\ daemon'.pending = daemon.pending
  BY <1>1, <1>9 DEF Daemons
<1>12. PICK revoked \in BOOLEAN : revoked = (boot = "BlockRevoked")
  OBVIOUS
<1>13. PICK blocked \in BOOLEAN :
          blocked = (revoked \/ daemon.setting \/ (keeps_firewall_block(boot) /\ machine.blocked))
  OBVIOUS
<1>14. PICK state \in MachineStates : state = IF revoked THEN "Error" ELSE "Disconnected"
  BY DEF MachineStates
<1>15. PICK cause \in Causes \cup {None} : cause = IF revoked THEN "Revoked" ELSE None
  BY DEF Causes
<1>16. machine' = [machine EXCEPT !.state = state, !.cause = cause, !.blocked = blocked]
  BY <1>1, <1>2, <1>3, <1>4, <1>12, <1>13, <1>14, <1>15 DEF Start, Machines
<1>17. /\ machine' \in Machines /\ machine'.after = machine.after
       /\ machine'.lockdown = machine.lockdown /\ machine'.state = state
       /\ machine'.cause = cause /\ machine'.blocked = blocked
  BY <1>1, <1>16 DEF Machines
<1>18. /\ proc = "Dead" /\ proc' = "Running" /\ promised' = FALSE
       /\ UNCHANGED <<timers, requests>>
  BY DEF Start
<1>19. /\ daemon.pending = <<>> /\ machine.state = "Disconnected" /\ machine.after = None
       /\ machine.lockdown = daemon.setting
  BY <1>18 DEF DeadInv, FilterInv
<1>20. commands' = IF dials THEN <<Plain("Connect")>> ELSE <<>>
  BY <1>2, <1>3, <1>4, <1>7 DEF Start
<1>21. inbox' \in Seq(Events)
  <2>1. /\ Transition("Error", "Revoked") \in Events /\ Event("Logout") \in Events
    BY DEF Transition, Event, Events, MachineStates, Causes
  <2>2. PICK head \in Seq(Events) :
           head = IF revoked THEN <<Transition("Error", "Revoked")>> ELSE <<>>
    <3>1. <<>> \in Seq(Events) /\ <<Transition("Error", "Revoked")>> \in Seq(Events)
      BY <2>1, EmptySeq
    <3> QED  BY <3>1
  <2>3. PICK tail \in Seq(Events) :
           tail = IF login # daemon.data THEN <<Event("Logout")>> ELSE <<>>
    <3>1. <<>> \in Seq(Events) /\ <<Event("Logout")>> \in Seq(Events)
      BY <2>1, EmptySeq
    <3> QED  BY <3>1
  <2>4. inbox' = head \o tail
    BY <1>2, <1>3, <1>4, <1>12, <2>2, <2>3 DEF Start
  <2> QED  BY <2>2, <2>3, <2>4, ConcatProperties
<1>22. machine.lockdown => machine'.blocked
  BY <1>13, <1>17, <1>19
<1>23. CASE settled = "Unsecured"
  <2>1. boot # "Connect" /\ boot # "BlockRevoked"
    BY <1>5, <1>6, <1>23 DEF None
  <2> QED  BY <1>7, <1>10, <1>11, <1>12, <1>14, <1>17, <1>18, <1>19, <1>20, <1>21, <1>22,
              <1>23, <2>1
<1>24. CASE settled = "Secured" /\ revoked
  <2>1. login = "Revoked" /\ boot # "Connect" /\ Reached(file)
    BY <1>0, <1>5, <1>6, <1>12, <1>24 DEF None
  <2> QED  BY <1>7, <1>10, <1>11, <1>12, <1>13, <1>14, <1>15, <1>17, <1>18, <1>19, <1>20,
              <1>21, <1>22, <1>24, <2>1
<1>25. CASE settled = "Secured" /\ ~revoked
  <2>1. login = "LoggedIn" /\ boot = "Connect" /\ Reached(file)
    BY <1>0, <1>5, <1>6, <1>12, <1>25 DEF None
  <2>2. machine.blocked => machine'.blocked
    BY <1>13, <1>17, <2>1 DEF keeps_firewall_block
  <2> QED  BY <1>7, <1>10, <1>11, <1>14, <1>17, <1>18, <1>19, <1>20, <1>21, <1>22, <1>25,
              <2>1, <2>2
<1> QED  BY <1>23, <1>24, <1>25

LEMMA StartStep ==
    ASSUME SessionInv, Start
    PROVE  SessionInv'
<1>1. /\ proc' = "Running"
      /\ daemon' \in Daemons /\ daemon'.sent = <<>> /\ daemon'.told = <<>>
      /\ machine' \in Machines /\ machine'.after = None
      /\ machine.lockdown = machine'.lockdown
      /\ machine.lockdown => machine'.blocked
      /\ inbox' \in Seq(Events)
      /\ promised' = FALSE /\ UNCHANGED <<timers, requests>>
      /\ \/ /\ daemon'.target = "Unsecured" /\ commands' = <<>>
            /\ machine'.state = "Disconnected"
         \/ /\ daemon'.target = "Secured" /\ Reached(daemon'.file)
            /\ daemon'.pending = <<>> /\ daemon'.login = "Revoked" /\ commands' = <<>>
            /\ machine'.state = "Error" /\ machine'.cause = "Revoked" /\ machine'.blocked
         \/ /\ daemon'.target = "Secured" /\ Reached(daemon'.file)
            /\ daemon'.pending = <<>> /\ daemon'.login = "LoggedIn"
            /\ commands' = <<Plain("Connect")>>
            /\ machine'.state = "Disconnected"
  BY StartFields DEF SessionInv
<1>2. Plain("Connect") \in Commands /\ Plain("Connect").kind = "Connect"
  BY CommandFields
<1>3. <<>> \in Seq(Commands) /\ <<Plain("Connect")>> \in Seq(Commands)
  BY <1>2
<1>4. Types'
  BY <1>1, <1>3 DEF SessionInv, Types, timers
<1>5. DeadInv' /\ PromiseInv'
  BY <1>1 DEF DeadInv, PromiseInv
<1>6. FilterInv'
  BY <1>1 DEF FilterInv
<1>7. Coming(<<Plain("Connect")>>, {"Connect"}, {"Disconnect"})
  <2>1. /\ Len(<<Plain("Connect")>>) = 1 /\ <<Plain("Connect")>>[1].kind = "Connect"
    BY <1>2
  <2> QED  BY <2>1 DEF Coming
<1>8. Clear(<<>>, {"Disconnect"}) /\ Clear(<<>>, Ends)
  BY Channels
<1>9. SecuredInv'
  BY <1>1, <1>7, <1>8 DEF SecuredInv, Keeps, Wants, Up
<1>10. RevokedInv'
  BY <1>1, <1>8 DEF RevokedInv, BlocksForGood
<1>11. FileInv'
  BY <1>1 DEF FileInv
<1> QED  BY <1>4, <1>5, <1>6, <1>9, <1>10, <1>11 DEF SessionInv

LEMMA SessionInit ==
    ASSUME Init
    PROVE  SessionInv
<1>1. PICK data \in Logins, auto \in BOOLEAN, setting \in Lockdowns :
          /\ daemon = [target |-> "Unsecured", file |-> NoFile, locked |-> FALSE,
                       view |-> NoView, retry |-> FALSE, login |-> data,
                       pending |-> <<>>, generation |-> 0, connectInFlight |-> FALSE,
                       ban |-> FALSE, blockedForBan |-> FALSE,
                       armed |-> FALSE, setting |-> setting, auto |-> auto, data |-> data,
                       identity |-> data # "Revoked", sent |-> <<>>, told |-> <<>>]
          /\ machine = [state |-> "Disconnected", after |-> None, cause |-> None,
                        lockdown |-> setting, blocked |-> setting]
  BY DEF Init, Logins
<1>2. setting \in BOOLEAN
  BY LockdownsAssumption
<1>3. /\ <<>> \in Seq(Commands) /\ <<>> \in Seq(Events) /\ <<>> \in Seq(BOOLEAN)
  BY EmptySeq
<1>4. NoView \in [state : MachineStates \cup {None}, cause : Causes \cup {None}]
  BY DEF NoView, MachineStates
<1>0. NoFile \in Files
  BY DEF NoFile, Files
<1>5. daemon \in Daemons
  BY <1>0, <1>1, <1>2, <1>3, <1>4 DEF Daemons
<1>6. /\ daemon.sent = <<>> /\ daemon.told = <<>> /\ daemon.pending = <<>>
      /\ daemon.setting = setting /\ machine.lockdown = setting /\ machine.blocked = setting
      /\ machine.state = "Disconnected" /\ machine.after = None
  BY <1>1
<1>7. machine \in Machines
  BY <1>1, <1>2 DEF Machines, MachineStates
<1>8. /\ proc = "Dead" /\ commands = <<>> /\ inbox = <<>> /\ deadlines = {} /\ deadman = 0
      /\ promised = FALSE /\ requests = 0
  BY DEF Init
<1>9. Types
  <2>1. requests \in 0 .. MaxRequests /\ deadman \in Nat /\ deadlines \subseteq Nat
    BY <1>8, BoundsAssumption
  <2>2. commands \in Seq(Commands) /\ inbox \in Seq(Events)
    BY <1>3, <1>8
  <2>3. promised \in BOOLEAN /\ proc \in {"Running", "Waiting", "Closing", "Dead"}
    BY <1>8
  <2> QED  BY <1>5, <1>6, <1>7, <2>1, <2>2, <2>3 DEF Types
<1>10. DeadInv /\ FilterInv
  BY <1>6, <1>8 DEF DeadInv, FilterInv
<1>11. PromiseInv /\ FileInv /\ SecuredInv /\ RevokedInv
  BY <1>8 DEF PromiseInv, FileInv, SecuredInv, RevokedInv
<1> QED  BY <1>9, <1>10, <1>11 DEF SessionInv

-----------------------------------------------------------------------------
LEMMA SessionStep ==
    ASSUME SessionInv, [Next]_vars
    PROVE  SessionInv'
<1>1. CASE SetTargetState \/ Reconnect \/ LogoutAccount \/ LoginAccount \/ SetLockdownMode
             \/ PrepareRestart \/ Report
  BY <1>1, RequestStep
<1>2. CASE AccountManager \/ TeardownDeadline \/ RestartLockdownDeadman \/ RetryFires
  BY <1>2, OtherTasksStep
<1>3. CASE Daemon
  BY <1>3, HandleEventStep, TriggerStep, WaitStep DEF Daemon
<1>4. CASE TunnelUp \/ TunnelLost \/ TunnelClosed \/ TunnelClosedBlocking \/ BackOnline
             \/ ChannelClosed
  BY <1>4, TunnelStep
<1>5. CASE ReadCommand
  BY <1>5, ReadStep
<1>6. CASE Exit \/ Crash
  BY <1>6, EndStep
<1>7. CASE Start
  BY <1>7, StartStep
<1>8. CASE UNCHANGED vars
  <2>1. Types' /\ DeadInv' /\ FilterInv'
    BY <1>8 DEF SessionInv, Types, DeadInv, FilterInv, vars
  <2>2. PromiseInv' /\ FileInv' /\ SecuredInv' /\ RevokedInv'
    BY <1>8 DEF SessionInv, PromiseInv, FileInv, SecuredInv, RevokedInv, Keeps, Wants, BlocksForGood, vars
  <2> QED  BY <2>1, <2>2 DEF SessionInv
<1> QED  BY <1>1, <1>2, <1>3, <1>4, <1>5, <1>6, <1>7, <1>8 DEF Next, Machine

\* The inductive invariant of the session: the commands on their way agree with
\* what the daemon's own state asks for.
THEOREM Session == Spec => []SessionInv
<1>1. Init => SessionInv
  BY SessionInit
<1>2. SessionInv /\ [Next]_vars => SessionInv'
  BY SessionStep
<1> QED  BY <1>1, <1>2, PTL DEF Spec

\* The type of every variable, whatever is asked, reported, crashes and starts.
THEOREM SessionTypes == Spec => []TypeOK
<1>1. SessionInv => TypeOK
  BY DEF SessionInv, Types, TypeOK, Daemons, Files, Machines, Logins, MachineStates
<1> QED  BY <1>1, Session, PTL

\* A logout that waits for the tunnel is never overtaken by a connect
\* (SessionGate::admit_connect and own_connect).
THEOREM GateIsHeld == Spec => []LogoutHoldsTheGate
<1>1. SessionInv => LogoutHoldsTheGate
  BY DEF SessionInv, SecuredInv, Keeps, LogoutHoldsTheGate, Types, Daemons
<1> QED  BY <1>1, Session, PTL

\* A secured target is protected once the state machine has read what it was
\* sent, and that of a revoked device is blocked: no order of events and commands
\* leaves the two sides disagreeing.
THEOREM SecuredProtected == Spec => []SecuredIsProtected
<1>1. ASSUME SessionInv, proc = "Running", daemon.target = "Secured", commands = <<>>
      PROVE  /\ machine.state # "Disconnected" /\ machine.blocked
             /\ daemon.login = "Revoked" =>
                   \/ machine.state = "Error"
                   \/ machine.state = "Disconnecting" /\ machine.after = "Block"
  <2>1. \A on, off : ~Coming(commands, on, off)
    BY <1>1, Channels
  <2>2. Wants
    BY <1>1, <2>1 DEF SessionInv, SecuredInv
  <2>3. machine.state # "Disconnected" /\ machine.blocked
    BY <1>1, <2>2 DEF SessionInv, FilterInv, Wants, Up
  <2>4. daemon.login = "Revoked" => BlocksForGood
    BY <1>1, <2>1 DEF SessionInv, RevokedInv
  <2> QED  BY <2>3, <2>4 DEF BlocksForGood
<1>2. SessionInv => SecuredIsProtected
  BY <1>1 DEF SecuredIsProtected
<1> QED  BY <1>2, Session, PTL

\* A shutdown that said that it blocks leaves the firewall blocking: the lockdown
\* that on_trigger_shutdown sends is read before the process ends, and nothing
\* sent after it lifts it.
THEOREM ShutdownBlocks == Spec => []ShutdownStaysBlocked
<1>1. SessionInv => ShutdownStaysBlocked
  BY DEF SessionInv, DeadInv, ShutdownStaysBlocked
<1> QED  BY <1>1, Session, PTL

\* Who changes the process: a start one that is gone, a crash or a shutdown one
\* that runs.
LEMMA ProcMoves ==
    ASSUME SessionInv, Next
    PROVE  \/ proc = "Dead" /\ Start
           \/ proc = "Running" /\ (proc' = "Running" \/ Crash \/ TriggerShutdown)
           \/ proc \in {"Waiting", "Closing"}
<1>1. proc \in {"Running", "Waiting", "Closing", "Dead"} /\ DeadInv
  BY DEF SessionInv, Types
<1>2. CASE proc = "Dead"
  <2>1. commands = <<>> /\ machine.state = "Disconnected"
    BY <1>1, <1>2 DEF DeadInv
  <2>2. ~(Daemon \/ Machine \/ Crash)
    BY <1>2, <2>1 DEF Daemon, HandleEvent, TriggerShutdown, Asked, WaitForDisconnect, Machine,
       ReadCommand, ChannelClosed, TunnelClosed, Exit, Crash
  <2>3. ~(TunnelUp \/ TunnelLost \/ TunnelClosedBlocking \/ BackOnline)
    BY <2>1 DEF TunnelUp, TunnelLost, TunnelClosedBlocking, BackOnline, Up
  <2>4. ~(SetTargetState \/ Reconnect \/ LogoutAccount \/ LoginAccount \/ SetLockdownMode
             \/ PrepareRestart \/ Report)
    BY <1>2 DEF SetTargetState, Reconnect, LogoutAccount, LoginAccount, SetLockdownMode,
       PrepareRestart, Report, Asked
  <2>5. ~(AccountManager \/ TeardownDeadline \/ RestartLockdownDeadman \/ RetryFires)
    BY <1>2 DEF AccountManager, TeardownDeadline, RestartLockdownDeadman, RetryFires
  <2> QED  BY <1>2, <2>2, <2>3, <2>4, <2>5 DEF Next
<1>3. CASE proc = "Running"
  <2>1. CASE SetTargetState \/ Reconnect \/ LogoutAccount \/ LoginAccount \/ SetLockdownMode
               \/ PrepareRestart \/ Report
    BY <1>3, <2>1 DEF SetTargetState, Reconnect, LogoutAccount, LoginAccount, SetLockdownMode,
       PrepareRestart, Report
  <2>2. CASE AccountManager \/ TeardownDeadline \/ RestartLockdownDeadman \/ RetryFires
    BY <1>3, <2>2 DEF AccountManager, TeardownDeadline, RestartLockdownDeadman, RetryFires
  <2>3. CASE Daemon \/ Machine \/ Crash \/ Start
    BY <1>3, <2>3 DEF Daemon, HandleEvent, WaitForDisconnect, Machine, ReadCommand,
       ChannelClosed, TunnelClosed, Exit, Start
  <2>4. CASE TunnelUp \/ TunnelLost \/ TunnelClosedBlocking \/ BackOnline
    BY <1>3, <2>4 DEF TunnelUp, TunnelLost, TunnelClosedBlocking, BackOnline
  <2> QED  BY <1>3, <2>1, <2>2, <2>3, <2>4 DEF Next
<1> QED  BY <1>1, <1>2, <1>3

\* A firewall that filters for a secured target is not opened by the running loop
\* without a connect to come, by a crash, or by the start after it
\* (keeps_firewall_block).
THEOREM NeverOpensSecured == Spec => NeverOpensWhileSecured
<1> DEFINE Opens ==
       machine.blocked /\ ~machine'.blocked /\ daemon.target = "Secured" /\ daemon'.target = "Secured"
<1>1. ASSUME SessionInv, SessionInv', Next, Opens
      PROVE  \/ proc = "Running" /\ \E i \in DOMAIN commands' : commands'[i].kind = "Connect"
             \/ proc \in {"Waiting", "Closing"}
  <2>1. CASE proc = "Running" /\ proc' = "Running"
    <3>1. ~Wants'
      BY <1>1, <2>1 DEF SessionInv, FilterInv, Wants, Up
    <3>2. Coming(commands, {"Connect"}, {"Disconnect"})'
      BY <1>1, <2>1, <3>1 DEF SessionInv, SecuredInv
    <3>3. commands' \in Seq(Commands)
      BY <1>1 DEF SessionInv, Types
    <3>4. DOMAIN commands' = 1 .. Len(commands')
      BY <3>3, LenProperties
    <3> QED  BY <2>1, <3>2, <3>4 DEF Coming
  <2>2. CASE Crash
    <3>1. machine'.blocked = machine.blocked
      BY <2>2 DEF Crash, Leaves
    <3> QED  BY <1>1, <3>1
  <2>3. CASE TriggerShutdown
    <3>1. machine' = machine
      BY <2>3 DEF TriggerShutdown, Shutdown
    <3> QED  BY <1>1, <3>1
  <2>4. CASE proc = "Dead" /\ Start
    <3>1. machine.blocked => machine'.blocked
      BY <1>1, <2>4, StartFields DEF SessionInv
    <3> QED  BY <1>1, <3>1
  <2> QED  BY <1>1, <2>1, <2>2, <2>3, <2>4, ProcMoves
<1>2. SessionInv /\ SessionInv' /\ [Next]_vars
         => [Opens => \/ proc = "Running" /\ \E i \in DOMAIN commands' : commands'[i].kind = "Connect"
                      \/ proc \in {"Waiting", "Closing"}]_vars
  BY <1>1
<1> QED  BY <1>2, Session, PTL DEF Spec, NeverOpensWhileSecured

\* A crash does not lose the user's wish: the file was written with the target, or
\* it is torn, and PersistentTargetState::new takes a file it cannot parse for a
\* secured one.  What it does not cover is a save that could not open the file.
THEOREM WishSurvivesCrash == Spec => CrashKeepsWish
<1>1. ASSUME SessionInv, Next, proc = "Running", proc' = "Dead", daemon.target = "Secured",
             ~daemon.file.stale
      PROVE  StartTarget(daemon') = "Secured"
  <2>1. Leaves(daemon, machine.blocked)
    BY <1>1, ProcMoves DEF TriggerShutdown, Shutdown, Crash
  <2>2. daemon.file.holds \in {"Secured", "Torn"}
    BY <1>1 DEF SessionInv, FileInv, Reached
  <2>3. /\ daemon \in Daemons /\ daemon.sent = <<>> /\ daemon.told = <<>>
        /\ machine.blocked \in BOOLEAN
    BY <1>1 DEF SessionInv, Types, Machines
  <2>4. daemon'.file.holds \in {"Secured", "Torn"} /\ daemon' \in Daemons
    BY <2>1, <2>2, <2>3, LeavesFields
  <2>5. daemon'.auto \in BOOLEAN
    BY <2>4 DEF Daemons
  <2> QED  BY <2>4, <2>5 DEF StartTarget, None
<1>2. SessionInv /\ [Next]_vars
         => [(proc = "Running" /\ proc' = "Dead" /\ daemon.target = "Secured"
                /\ ~daemon.file.stale)
                => StartTarget(daemon') = "Secured"]_vars
  BY <1>1
<1> QED  BY <1>2, Session, PTL DEF Spec, CrashKeepsWish
=============================================================================
