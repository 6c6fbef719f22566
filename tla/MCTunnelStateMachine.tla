------------------------ MODULE MCTunnelStateMachine ------------------------
(***************************************************************************)
(* TunnelStateMachine on small sets of settings, with its refinement of    *)
(* TunnelLifecycle.                                                        *)
(***************************************************************************)
EXTENDS TunnelStateMachine, TLC

\* The settings of a kind are told apart by equality only.
SettingsSymmetry ==
    Permutations(LanSettings) \cup Permutations(Endpoints)
        \cup Permutations(DnsConfigs \ LocalDns)

Lifecycle == INSTANCE TunnelLifecycle
                 WITH wanted <- secured, blocked <- (fw # NoTable), alarm <- blockFailure

\* The detailed state machine implements the lifecycle the daemon relies on:
\* each step of a handler is a step of the lifecycle or changes nothing of it.
ImplementsLifecycle == Lifecycle!LifecycleSpec

\* With a tunnel thread that makes progress, it also implements its fairness:
\* a tunnel that is told to close is left behind.
ImplementsFairLifecycle == Lifecycle!LifecycleFairSpec
=============================================================================
