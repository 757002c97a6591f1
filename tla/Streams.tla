------------------------------ MODULE Streams -------------------------------
(***************************************************************************)
(* What a well-formed EMES-V1 stream is, said without a stack: by counting *)
(* (docs/emes_profile.md, sections 2 and 4; docs/emes/003, T1).  The       *)
(* reference that Gate 1 and the checks of the bridge are compared with.   *)
(***************************************************************************)
EXTENDS Emes, FiniteSets, Integers

Count(s, types, a, b) == Cardinality({i \in a..b : s[i].type \in types})

\* The number of transactions, respectively frames, open after event i.
TxDepth(s, i) ==
  Count(s, {"TransactionStart"}, 1, i) - Count(s, {"TransactionEnd"}, 1, i)
FrameDepth(s, i) == Count(s, {"FrameEnter"}, 1, i) - Count(s, {"FrameExit"}, 1, i)

\* Exit j closes the frame that enter i opened.
Closes(s, i, j) ==
  /\ i < j
  /\ s[i].type = "FrameEnter" /\ s[j].type = "FrameExit"
  /\ FrameDepth(s, j) = FrameDepth(s, i) - 1
  /\ \A m \in i..j-1 : FrameDepth(s, m) >= FrameDepth(s, i)

\* Enter i opens its frame directly inside the frame that enter h opened.
Encloses(s, h, i) ==
  /\ h < i
  /\ s[h].type = "FrameEnter"
  /\ FrameDepth(s, h) = FrameDepth(s, i) - 1
  /\ \A m \in h..i-1 : FrameDepth(s, m) >= FrameDepth(s, h)

\* Root frames entered in the transaction that event j ends.
RootsOf(s, j) ==
  {i \in 1..j : /\ s[i].type = "FrameEnter" /\ FrameDepth(s, i) = 1
                /\ \A m \in i..j-1 : s[m].type # "TransactionEnd"}

\* At event i transactions follow one another and frames nest inside them: an
\* exit names the frame it closes, and none is open when its transaction ends.
BalancedAt(s, i) ==
  /\ TxDepth(s, i) \in {0, 1}
  /\ s[i].type \in {"FrameEnter", "FrameExit"} => TxDepth(s, i) = 1
  /\ FrameDepth(s, i) >= 0
  /\ s[i].type = "TransactionEnd" => FrameDepth(s, i) = 0
  /\ s[i].type = "FrameExit" =>
       \E h \in 1..i : Closes(s, h, i) /\ s[h].frameID = s[i].frameID

Balanced(s) ==
  /\ \A i \in 1..Len(s) : BalancedAt(s, i)
  /\ TxDepth(s, Len(s)) = 0

\* The rules of event i that go beyond balance: the block encloses it, a frame
\* names its parent, and a transaction ends as its one root frame did.
TopologyAt(s, i) ==
  /\ s[i].type = "BlockStart" => i = 1
  /\ s[i].type = "BlockCommit" => i = Len(s)
  /\ s[i].type = "FrameEnter" =>
       \/ FrameDepth(s, i) = 1 /\ s[i].parentFrameID = NO_FRAME
       \/ \E h \in 1..i : Encloses(s, h, i) /\ s[h].frameID = s[i].parentFrameID
  /\ s[i].type = "TransactionEnd" =>
       /\ Cardinality(RootsOf(s, i)) <= 1
       /\ \A h \in RootsOf(s, i), j \in 1..i :
            Closes(s, h, j) => s[j].reverted = s[i].reverted

WellFormed(s) ==
  /\ Len(s) > 0
  /\ s[1].type = "BlockStart" /\ s[1].sequence = 0
  /\ s[Len(s)].type = "BlockCommit"
  /\ \A i \in 2..Len(s) : s[i].sequence > s[i-1].sequence
  /\ Balanced(s)
  /\ \A i \in 1..Len(s) : TopologyAt(s, i)

=============================================================================
