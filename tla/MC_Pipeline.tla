---------------------------- MODULE MC_Pipeline -----------------------------
(***************************************************************************)
(* Pipeline for TLC: every account has code at the start, and nonces stay  *)
(* as they are (no stage treats them differently from balances that change *)
(* for an ordinary reason).  A second block is empty: Gate 1 refuses it    *)
(* whatever is in it.                                                      *)
(***************************************************************************)
EXTENDS Pipeline

CONSTANT Loaded   \* a value other than Cleared

NoncesKept == \A k \in Key : k.kind = "Nonce" => world'[k] = world[k]

SecondEmpty == blocks = 2 => txs' = 0

MCInit == Init /\ world = [k \in Key |-> Loaded]

MCNext == (Trace /\ NoncesKept /\ SecondEmpty) \/ Offline \/ Over

MCSpec == MCInit /\ [][MCNext]_vars /\ WF_vars(Offline)

=============================================================================
