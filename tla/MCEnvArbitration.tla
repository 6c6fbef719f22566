--------------------------- MODULE MCEnvArbitration ---------------------------
(***************************************************************************)
(* Two environments that connect by themselves above a third one, which    *)
(* has both settings to give up; its user may change them.                 *)
(***************************************************************************)
EXTENDS EnvArbitration

MCFirstSettings == {[e \in Envs |-> [auto |-> TRUE, lockdown |-> e = N]]}
===============================================================================
