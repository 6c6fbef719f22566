--------------------------- MODULE MCPortForwarding ---------------------------
(***************************************************************************)
(* PortForwarding on small instances.                                      *)
(***************************************************************************)
EXTENDS PortForwarding

CONSTANTS r1, r2

W(rules, tunnels, pushesMax, refusalsMax, signalsMax) ==
    [rules |-> rules, tunnels |-> tunnels, pushes |-> pushesMax,
     refusals |-> refusalsMax, signals |-> signalsMax]
MCWorlds == {W({r1}, 1, 2, 1, 2), W({r1, r2}, 1, 1, 0, 1), W({r1, r2}, 1, 0, 1, 1),
             W({r1}, 2, 1, 0, 1), W({r1}, 2, 0, 1, 1)}
===============================================================================
