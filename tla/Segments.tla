------------------------------ MODULE Segments ------------------------------
(***************************************************************************)
(* Reading a stream of canonical semantic events as a whole: its           *)
(* boundaries are counted, and it is cut at them into transactions.  What  *)
(* the partition and the reduction of a stream are compared with.          *)
(***************************************************************************)
EXTENDS Replay, Integers, FiniteSets

\* The events of s of one type, and how many of them are among the first j.
Places(s, type) == {i \in DOMAIN s : s[i].payload.type = type}
Until(s, type, j) == Cardinality({i \in Places(s, type) : i <= j})

\* Transactions begun and not ended after event j.
Open(s, j) == Until(s, "BeginTransaction", j) - Until(s, "EndTransaction", j)

\* Every event lies in a transaction, and transactions do not nest.
Bracketed(s) ==
  \A j \in DOMAIN s : Open(s, j) = IF s[j].payload.type = "EndTransaction" THEN 0 ELSE 1

\* Boundary i of a type.
Nth(s, type, i) == CHOOSE j \in Places(s, type) : Until(s, type, j) = i

\* The events of transaction i of s.
SegmentOf(s, i) ==
  SubSeq(s, Nth(s, "BeginTransaction", i) + 1, Nth(s, "EndTransaction", i) - 1)

\* The gas refund changes of q follow one another without a gap.
RefundContinues(q) ==
  \A i, j \in DOMAIN q :
    /\ i < j
    /\ q[i].payload.type = "GasRefundChanged" /\ q[j].payload.type = "GasRefundChanged"
    /\ \A m \in i+1..j-1 : q[m].payload.type # "GasRefundChanged"
    => q[i].payload.after = q[j].payload.before

=============================================================================
