--------------------------- MODULE MCReconnectLoop ---------------------------
(***************************************************************************)
(* ReconnectLoop with its clock scaled down (two detector laps per window, *)
(* a patience longer than the reuse of an answer, floors that double once) *)
(* in three worlds.                                                        *)
(***************************************************************************)
EXTENDS ReconnectLoop

Pending == [explained |-> FALSE, retryUnverified |-> FALSE]

MCWorlds ==
    {\* anything may happen
     [answers |-> {"Active", "Inactive", "Unknown"},
      refusals |-> [explained : BOOLEAN, retryUnverified : BOOLEAN]],
     \* an account the API knows, refused until the exit polls
     [answers |-> {"Active"}, refusals |-> {Pending}],
     \* an API that cannot be reached
     [answers |-> {"Unknown"}, refusals |-> {Pending}]}
=============================================================================
