---------------------------- MODULE MC_EvmBridge ----------------------------
(***************************************************************************)
(* EvmBridge for TLC.  Values are interchangeable, so they are a symmetry  *)
(* set.  They are interchangeable in each cell by itself, so that a block  *)
(* may start from the state in which all cells are equal.                  *)
(***************************************************************************)
EXTENDS EvmBridge, TLC

Symmetry == Permutations(Value)

MCInit == Init /\ \A k, l \in Key : world[k] = world[l]

MCSpec == MCInit /\ [][Next]_vars

=============================================================================
