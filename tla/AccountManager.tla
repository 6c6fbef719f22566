---------------------------- MODULE AccountManager ----------------------------
(***************************************************************************)
(* The account manager: the login state, its file device.json, and the one *)
(* call to the account API that it runs beside its commands.  A call is    *)
(* made for the wallet that is logged in when it starts; its answer comes  *)
(* whenever the API gives one, unless the call is dropped or replaced      *)
(* before.  Commands come one at a time from the daemon.                   *)
(***************************************************************************)
EXTENDS Naturals, FiniteSets

CONSTANTS
    Wallets,        \* wallets a user may log in with
    Requests,       \* expiry requests: the daemon's and its clients' tasks
    MaxLogins       \* bound on the logins

ASSUME LoginsAssumption == MaxLogins \in Nat
ASSUME StatesAssumption == {"LoggedOut", "Revoked", "None", "Empty"} \cap Wallets = {}

VARIABLES
    data,           \* PrivateDeviceState: a wallet, "LoggedOut" or "Revoked"
    disk,           \* device.json: a state, or "Empty" when it is empty or cut short
    half,           \* history: the wallets of logins whose writes failed, none written since
    call,           \* CurrentApiCall: its kind and the wallet it was made for
    waiting,        \* expiry_requests
    asked,          \* who an expiry request was made for, "None" before it is made
    answered,       \* what it was answered: a wallet's expiry, or "Error"
    logins          \* how many logins were made

vars == <<data, disk, half, call, waiting, asked, answered, logins>>

NoCall == [kind |-> "None", of |-> "None"]
CallFor(kind) == [kind |-> kind, of |-> data]
\* drain_requests
Drain(answer) ==
    /\ answered' = [r \in Requests |-> IF r \in waiting THEN answer ELSE answered[r]]
    /\ waiting' = {}

-----------------------------------------------------------------------------
(***************************************************************************)
(* DeviceCacher::write truncates the file, writes and syncs it.  A write   *)
(* that fails, or that a crash cuts, leaves the old state, nothing that    *)
(* can be parsed, or the new state that could not be synced.               *)
(***************************************************************************)
Written(new) == disk' = new /\ half' = {}
WriteFails(new) == disk' \in {disk, "Empty", new}

\* set, for a login: nothing for the wallet that is logged in already.  A write
\* that fails leaves the login state as it is; the call that runs goes on.
Login ==
    /\ logins < MaxLogins /\ logins' = logins + 1
    /\ \E wallet \in Wallets :
          \/ /\ wallet # data
             /\ data' = wallet /\ Written(wallet)
          \/ /\ wallet # data
             /\ WriteFails(wallet) /\ half' = half \cup {wallet}
             /\ UNCHANGED data
          \/ /\ wallet = data
             /\ UNCHANGED <<data, disk, half>>
    /\ UNCHANGED <<call, waiting, asked, answered>>

\* Seeded faults: the logout leaves the call alone; it does not look whether
\* device.json was written.
LogoutKeepsCall ==
    /\ data # "LoggedOut"
    /\ data' = "LoggedOut" /\ Written("LoggedOut")
    /\ UNCHANGED <<call, waiting, asked, answered, logins>>
LogoutIgnoresDisk ==
    /\ data # "LoggedOut" /\ call' = NoCall
    /\ data' = "LoggedOut" /\ WriteFails("LoggedOut")
    /\ UNCHANGED <<half, waiting, asked, answered, logins>>

\* logout: a write that fails leaves the login as it is.
Logout ==
    /\ call' = NoCall
    /\ \/ /\ data # "LoggedOut"
          /\ data' = "LoggedOut" /\ Written("LoggedOut")
       \/ /\ data # "LoggedOut"
          /\ WriteFails("LoggedOut") /\ UNCHANGED <<data, half>>
       \/ /\ data = "LoggedOut" /\ UNCHANGED <<data, disk, half>>
    /\ UNCHANGED <<waiting, asked, answered, logins>>

\* revoke_device: a write that fails is only logged.
revoke_device ==
    /\ data' = "Revoked"
    /\ Written("Revoked") \/ (WriteFails("Revoked") /\ UNCHANGED half)
    /\ Drain("Error")

\* AccountManagerCommand::Revoke
Revoke ==
    /\ call' = NoCall
    /\ IF data \in Wallets THEN revoke_device
       ELSE UNCHANGED <<data, disk, half, waiting, answered>>
    /\ UNCHANGED <<asked, logins>>

\* handle_expiry_request; the error of expiry_call goes to the new request only.
CheckExpiry ==
    \E r \in Requests :
       /\ asked[r] = "None"
       /\ asked' = [asked EXCEPT ![r] = data]
       /\ \/ /\ call.kind = "Expiry"
             /\ waiting' = waiting \cup {r}
             /\ UNCHANGED <<call, answered>>
          \/ /\ call.kind # "Expiry" /\ data \in Wallets
             /\ call' = CallFor("Expiry") /\ waiting' = waiting \cup {r}
             /\ UNCHANGED answered
          \/ /\ call.kind # "Expiry" /\ data \notin Wallets
             /\ answered' = [answered EXCEPT ![r] = "Error"]
             /\ UNCHANGED <<call, waiting>>
       /\ UNCHANGED <<data, disk, half, logins>>

\* handle_voucher_submission, which replaces the call that runs
SubmitVoucher ==
    /\ data \in Wallets
    /\ call' = CallFor("Voucher")
    /\ UNCHANGED <<data, disk, half, waiting, asked, answered, logins>>

-----------------------------------------------------------------------------
(***************************************************************************)
(* consume_api_result: the answer to the call that runs.                   *)
(***************************************************************************)
\* consume_expiry_result and consume_voucher_result, for an answer that is not
\* about the account being gone
ApiAnswers ==
    /\ call # NoCall /\ call' = NoCall
    /\ \/ /\ call.kind = "Expiry"
          /\ \E answer \in {call.of, "Error"} : Drain(answer)
       \/ call.kind = "Voucher" /\ UNCHANGED <<waiting, answered>>
    /\ UNCHANGED <<data, disk, half, asked, logins>>

\* InvalidAccount and InvalidDevice: the account API's client has them, and the
\* backend injected today never answers so.
ApiRevokes ==
    /\ call # NoCall /\ call' = NoCall
    /\ revoke_device
    /\ UNCHANGED <<asked, logins>>

-----------------------------------------------------------------------------
\* A crash, and the next daemon reads the file (DeviceCacher::new); it wipes one
\* that it cannot parse.
FromDisk(file) == IF file = "Empty" THEN "LoggedOut" ELSE file
Restart ==
    /\ data' = FromDisk(disk) /\ Written(FromDisk(disk))
    /\ call' = NoCall /\ waiting' = {}
    /\ answered' = [r \in Requests |-> IF r \in waiting THEN "Error" ELSE answered[r]]
    /\ UNCHANGED <<asked, logins>>

Init ==
    /\ data \in Wallets \cup {"LoggedOut", "Revoked"}
    /\ disk = data /\ half = {}
    /\ call = NoCall /\ waiting = {}
    /\ asked = [r \in Requests |-> "None"]
    /\ answered = [r \in Requests |-> "None"]
    /\ logins = 0

Next ==
    \/ Login \/ Logout \/ Revoke \/ CheckExpiry \/ SubmitVoucher
    \/ ApiAnswers \/ ApiRevokes \/ Restart

Spec == Init /\ [][Next]_vars

-----------------------------------------------------------------------------
\* The type of every variable.
States == Wallets \cup {"LoggedOut", "Revoked"}
TypeOK ==
    /\ data \in States /\ disk \in States \cup {"Empty"} /\ half \subseteq Wallets
    /\ call \in [kind : {"Expiry", "Voucher"}, of : Wallets] \cup {NoCall}
    /\ waiting \subseteq Requests
    /\ asked \in [Requests -> States \cup {"None"}]
    /\ answered \in [Requests -> Wallets \cup {"Error", "None"}]
    /\ logins \in 0 .. MaxLogins

\* Only a login ends the logged-out state: one that was carried out, or one whose
\* write failed and whose wallet the next daemon found.  No answer to a call made
\* before the logout, however late, and no other restart does.
LateAnswersChangeNothing ==
    [][(data = "LoggedOut" /\ data' # data) => logins' > logins \/ data' \in half]_vars

\* A logout survives a restart, whatever a failed write or a crash in the middle of
\* one did to the file before it or after it, unless a later login got as far as
\* the file: then it may be that login which is found.
LogoutSurvivesRestart == data = "LoggedOut" => FromDisk(disk) \in {"LoggedOut"} \cup half
===============================================================================
