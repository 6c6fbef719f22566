------------------------- MODULE AccountManagerProofs -------------------------
(***************************************************************************)
(* Proofs about the account manager, for every set of wallets and requests *)
(* and every number of logins.                                             *)
(***************************************************************************)
EXTENDS AccountManager, TLAPS

\* Why a late answer finds nothing to do: a daemon that is logged out runs no
\* call, because logout drops it, none starts without a wallet, and a restart
\* that reads a logged-out file starts without one.
NoCallLoggedOut == data = "LoggedOut" => call = NoCall

LoggedOutInv ==
    /\ TypeOK
    /\ LogoutSurvivesRestart
    /\ NoCallLoggedOut

-----------------------------------------------------------------------------
\* Draining answers the requests that wait and no other.
LEMMA DrainType ==
    ASSUME TypeOK, NEW answer \in Wallets \cup {"Error", "None"}, Drain(answer)
    PROVE  /\ waiting' \subseteq Requests
           /\ answered' \in [Requests -> Wallets \cup {"Error", "None"}]
BY DEF TypeOK, Drain

LEMMA RevokedType ==
    ASSUME TypeOK, revoke_device
    PROVE  /\ data' \in States /\ disk' \in States \cup {"Empty"} /\ half' \subseteq Wallets
           /\ waiting' \subseteq Requests
           /\ answered' \in [Requests -> Wallets \cup {"Error", "None"}]
<1>1. data' \in States /\ disk' \in States \cup {"Empty"} /\ half' \subseteq Wallets
  BY DEF TypeOK, revoke_device, Written, WriteFails, States
<1>2. Drain("Error")
  BY DEF revoke_device
<1> QED  BY <1>1, <1>2, DrainType

LEMMA TypeStep ==
    ASSUME TypeOK, [Next]_vars
    PROVE  TypeOK'
<1> USE LoginsAssumption
<1>1. CASE Login
  BY <1>1 DEF TypeOK, Login, Written, WriteFails, States
<1>2. CASE Logout
  BY <1>2 DEF TypeOK, Logout, Written, WriteFails, States
<1>3. CASE Revoke
  <2>1. CASE data \in Wallets
    <3>1. revoke_device /\ call' = NoCall /\ UNCHANGED <<asked, logins>>
      BY <1>3, <2>1 DEF Revoke
    <3> QED  BY <3>1, RevokedType DEF TypeOK
  <2>2. CASE data \notin Wallets
    BY <1>3, <2>2 DEF Revoke, TypeOK
  <2> QED  BY <2>1, <2>2
<1>4. CASE CheckExpiry
  BY <1>4 DEF TypeOK, CheckExpiry, CallFor, States
<1>5. CASE SubmitVoucher
  BY <1>5 DEF TypeOK, SubmitVoucher, CallFor
<1>6. CASE ApiAnswers
  <2>1. call \in [kind : {"Expiry", "Voucher"}, of : Wallets]
    BY <1>6 DEF ApiAnswers, TypeOK
  <2>2. CASE \E answer \in {call.of, "Error"} : Drain(answer)
    BY <1>6, <2>1, <2>2, DrainType DEF ApiAnswers, TypeOK
  <2>3. CASE UNCHANGED <<waiting, answered>>
    BY <1>6, <2>3 DEF ApiAnswers, TypeOK
  <2> QED  BY <1>6, <2>2, <2>3 DEF ApiAnswers
<1>7. CASE ApiRevokes
  BY <1>7, RevokedType DEF ApiRevokes, TypeOK
<1>8. CASE Restart
  BY <1>8 DEF TypeOK, Restart, Written, FromDisk, States
<1>9. CASE UNCHANGED vars
  BY <1>9 DEF vars, TypeOK
<1> QED  BY <1>1, <1>2, <1>3, <1>4, <1>5, <1>6, <1>7, <1>8, <1>9 DEF Next

-----------------------------------------------------------------------------
\* Every step keeps the file of a logged-out daemon logged out or at a login that
\* failed, and its call empty.
LEMMA LoggedOutStep ==
    ASSUME LoggedOutInv, [Next]_vars
    PROVE  LoggedOutInv'
<1> USE DEF LoggedOutInv
<1>1. TypeOK'
  BY TypeStep
<1>2. LogoutSurvivesRestart' /\ NoCallLoggedOut'
  <2> USE StatesAssumption DEF LogoutSurvivesRestart, NoCallLoggedOut, FromDisk, Written, WriteFails
  <2>1. CASE Login
    BY <2>1 DEF Login
  <2>2. CASE Logout
    BY <2>2 DEF Logout
  <2>3. CASE Revoke
    BY <2>3 DEF Revoke, revoke_device
  <2>4. CASE CheckExpiry
    BY <2>4 DEF CheckExpiry, NoCall
  <2>5. CASE SubmitVoucher
    BY <2>5 DEF SubmitVoucher
  <2>6. CASE ApiAnswers
    BY <2>6 DEF ApiAnswers
  <2>7. CASE ApiRevokes
    BY <2>7 DEF ApiRevokes, revoke_device
  <2>8. CASE Restart
    BY <2>8 DEF Restart
  <2>9. CASE UNCHANGED vars
    BY <2>9 DEF vars
  <2> QED  BY <2>1, <2>2, <2>3, <2>4, <2>5, <2>6, <2>7, <2>8, <2>9 DEF Next
<1> QED  BY <1>1, <1>2

\* The inductive invariant holds in every reachable state.
THEOREM LoggedOut == Spec => []LoggedOutInv
<1>1. Init => LoggedOutInv
  BY LoginsAssumption DEF Init, LoggedOutInv, TypeOK, States, LogoutSurvivesRestart,
     NoCallLoggedOut, FromDisk
<1>2. LoggedOutInv /\ [Next]_vars => LoggedOutInv'
  BY LoggedOutStep
<1> QED  BY <1>1, <1>2, PTL DEF Spec

\* A logout that was carried out is what the next daemon reads, whichever write of
\* device.json failed halfway before it (AccountManager::logout and
\* DeviceCacher::write); after it, only the wallet of a login whose own write
\* failed can be found there.
THEOREM LogoutIsDurable == Spec => []LogoutSurvivesRestart
<1>1. LoggedOutInv => LogoutSurvivesRestart
  BY DEF LoggedOutInv
<1> QED  BY <1>1, LoggedOut, PTL

\* No answer of the API, however late, logs a daemon in or revokes it once it is
\* logged out, and no restart brings back a wallet but that of a login made since:
\* only a login, carried out or cut short, ends that state.
THEOREM LateAnswersAreIgnored == Spec => LateAnswersChangeNothing
<1>1. LoggedOutInv /\ [Next]_vars
         => [(data = "LoggedOut" /\ data' # data) => logins' > logins \/ data' \in half]_vars
  <2> SUFFICES ASSUME LoggedOutInv, [Next]_vars, data = "LoggedOut", data' # data
               PROVE  logins' > logins \/ data' \in half
    OBVIOUS
  <2> USE DEF LoggedOutInv, TypeOK
  <2>1. call = NoCall /\ FromDisk(disk) \in {"LoggedOut"} \cup half /\ data \notin Wallets
    BY StatesAssumption DEF NoCallLoggedOut, LogoutSurvivesRestart
  <2>2. CASE Login
    BY <2>2 DEF Login
  <2>3. CASE Restart
    BY <2>1, <2>3 DEF Restart, FromDisk
  <2> QED  BY <2>1, <2>2, <2>3 DEF Next, Logout, Revoke, CheckExpiry, SubmitVoucher, ApiAnswers,
              ApiRevokes, vars
<1> QED  BY <1>1, LoggedOut, PTL DEF Spec, LateAnswersChangeNothing
===============================================================================
