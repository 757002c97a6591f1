------------------------------ MODULE MC_Host -------------------------------
(***************************************************************************)
(* Host for TLC: it starts in a state in which every account has code.     *)
(***************************************************************************)
EXTENDS Host

CONSTANT Loaded   \* a value other than Cleared

MCInit == HostInit /\ world = [k \in Key |-> Loaded]

MCHostSpec == MCInit /\ [][HostStep \/ Stopped]_hostVars

=============================================================================
