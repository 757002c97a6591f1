------------------------------- MODULE Replay -------------------------------
(***************************************************************************)
(* Canonical semantic events (runtime/cse) and what it means to replay a   *)
(* sequence of them: the reference that the bridge and the builder are     *)
(* checked against.  Replaying is stated as a relation on the last write   *)
(* of each key rather than as a fold, so that the provers can use it.      *)
(***************************************************************************)
EXTENDS Emes

(***************************************************************************)
(* A CSE payload.  The four "...Changed/...Updated" payloads are one type, *)
(* "StateChanged", whose key carries the kind.                             *)
(***************************************************************************)
Payload ==
  [type : {"BeginTransaction", "EndTransaction"}]
    \cup [type : {"StateChanged"}, key : Key, before : Value, after : Value]
    \cup [type : {"ContractCreated", "ContractDestroyed"}, address : Address]

CseEvent ==
  [payload : Payload, sequence_number : Nat, block_number : Nat,
   transaction_hash : Nat, transaction_index : 0..U32_MAX,
   call_frame_id : 0..U32_MAX, call_depth : 0..U32_MAX]

\* Event i of q writes cell k.
Writes(q, i, k) ==
  /\ q[i].payload.type = "StateChanged"
  /\ q[i].payload.key = k

\* Replaying q on the state s ends in t: a cell that q never writes keeps its
\* value, any other holds what its last write left.
Yields(s, q, t) ==
  \A k \in Key :
    /\ (\A i \in 1..Len(q) : ~Writes(q, i, k)) => t[k] = s[k]
    /\ \A i \in 1..Len(q) :
         /\ Writes(q, i, k)
         /\ \A j \in i+1..Len(q) : ~Writes(q, j, k)
         => t[k] = q[i].payload.after

\* q can be replayed on s without a gap: the first write of a cell starts from
\* its value in s and every later one from what the previous write left.
Continues(s, q) ==
  \A k \in Key : \A j \in 1..Len(q) :
    Writes(q, j, k) =>
      /\ (\A i \in 1..j-1 : ~Writes(q, i, k)) => q[j].payload.before = s[k]
      /\ \A i \in 1..j-1 :
           /\ Writes(q, i, k)
           /\ \A m \in i+1..j-1 : ~Writes(q, m, k)
           => q[j].payload.before = q[i].payload.after

=============================================================================
