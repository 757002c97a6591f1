----------------------------- MODULE StreamFacts -----------------------------
(***************************************************************************)
(* What the proofs keep needing of streams.  Of canonical semantic events: *)
(* sequences joined and used as stacks; the events that the bridge makes,  *)
(* the buffers it keeps them in and the brackets around them; what the     *)
(* replay relations do on the sequences that it builds; and what the       *)
(* builder's tables hold of a stream that is partitioned and reduced.  Of  *)
(* lifecycles: lists in order and their canonical form; the generations    *)
(* that a history resolves to.                                             *)
(* Of EMES streams: how the number of open frames, which Streams counts,   *)
(* and the stack that Gate 1 and the bridge keep move together from one    *)
(* event to the next; and that Gate 1 judges each event as the counting    *)
(* definition does.                                                        *)
(***************************************************************************)
EXTENDS Bridge, Builder, Lifecycle, Segments, Gate1, Streams, SequenceTheorems,
        FiniteSetTheorems, WellFoundedInduction, TLAPS

\* Where the elements of a concatenation come from.
LEMMA ConcatElements ==
  ASSUME NEW S, NEW p \in Seq(S), NEW q \in Seq(S)
  PROVE  /\ p \o q \in Seq(S)
         /\ Len(p) \in Nat /\ Len(q) \in Nat
         /\ Len(p \o q) = Len(p) + Len(q)
         /\ \A i \in 1..Len(p) : (p \o q)[i] = p[i]
         /\ \A i \in 1..Len(q) : (p \o q)[Len(p) + i] = q[i]
  OBVIOUS

\* Popping a stack.
LEMMA Popped ==
  ASSUME NEW S, NEW q \in Seq(S), q # << >>
  PROVE  /\ SubSeq(q, 1, Len(q) - 1) \in Seq(S)
         /\ Len(SubSeq(q, 1, Len(q) - 1)) = Len(q) - 1
         /\ \A j \in 1..Len(q) - 1 : SubSeq(q, 1, Len(q) - 1)[j] = q[j]
         /\ q[Len(q)] \in S
         /\ Len(q) \in Nat \ {0}
<1>1. Len(q) \in Nat \ {0}
  OBVIOUS
<1>2. q[Len(q)] \in S
  BY <1>1
<1>3. \A j \in 1..Len(q) - 1 : q[j] \in S
  BY <1>1
<1> DEFINE n == Len(q) - 1
<1>4. n \in Int /\ n >= 0
  BY <1>1
<1>5. \A j \in 1..n : q[j] \in S
  BY <1>3
<1> HIDE DEF n
<1>6. /\ SubSeq(q, 1, n) \in Seq(S)
      /\ Len(SubSeq(q, 1, n)) = IF 1 <= n THEN n - 1 + 1 ELSE 0
      /\ \A j \in 1..n - 1 + 1 : SubSeq(q, 1, n)[j] = q[1 + j - 1]
  BY <1>4, <1>5, SubSeqProperties
<1>7. Len(SubSeq(q, 1, n)) = n /\ \A j \in 1..n : SubSeq(q, 1, n)[j] = q[j]
  BY <1>4, <1>6
<1> QED BY <1>1, <1>2, <1>6, <1>7 DEF n

\* Pushing on a stack.
LEMMA Pushed ==
  ASSUME NEW S, NEW q \in Seq(S), NEW x \in S
  PROVE  /\ Append(q, x) \in Seq(S)
         /\ Len(Append(q, x)) = Len(q) + 1
         /\ \A j \in 1..Len(q) : Append(q, x)[j] = q[j]
         /\ Append(q, x)[Len(q) + 1] = x
         /\ Len(q) \in Nat
  OBVIOUS

-----------------------------------------------------------------------------

\* An event keeps its type when it is given a number (emit, SetSequence).
LEMMA Stamped ==
  ASSUME NEW e \in EmesEvent, NEW n \in U64
  PROVE  /\ SetSequence(e, n) \in EmesEvent
         /\ SetSequence(e, n).sequence = n
         /\ SetSequence(e, n).type = e.type
<1>1. CASE e \in [type : {"BlockStart"}, sequence : U64, number : Nat]
  BY <1>1 DEF SetSequence, EmesEvent
<1>2. CASE e \in [type : {"BlockCommit"}, sequence : U64]
  BY <1>2 DEF SetSequence, EmesEvent
<1>3. CASE e \in [type : {"TransactionStart"}, sequence : U64, hash : Nat, txIndex : Nat]
  BY <1>3 DEF SetSequence, EmesEvent
<1>4. CASE e \in [type : {"TransactionEnd"}, sequence : U64, reverted : BOOLEAN]
  BY <1>4 DEF SetSequence, EmesEvent
<1>5. CASE e \in [type : {"FrameEnter"}, sequence : U64, frameID : U64,
                  parentFrameID : U64, depth : Nat]
  BY <1>5 DEF SetSequence, EmesEvent
<1>6. CASE e \in [type : {"FrameExit"}, sequence : U64, frameID : U64, reverted : BOOLEAN]
  BY <1>6 DEF SetSequence, EmesEvent
<1>7. CASE e \in [type : {"Mutation"}, sequence : U64, frameID : U64, key : Key,
                  before : Value, after : Value]
  BY <1>7 DEF SetSequence, EmesEvent
<1>8. CASE e \in [type : {"AccountCreated", "SelfDestruct"}, sequence : U64,
                  frameID : U64, address : Address]
  BY <1>8 DEF SetSequence, EmesEvent
<1> QED BY <1>1, <1>2, <1>3, <1>4, <1>5, <1>6, <1>7, <1>8 DEF EmesEvent

-----------------------------------------------------------------------------
(***************************************************************************)
(* The bridge.                                                             *)
(***************************************************************************)

\* The context a CSE event is stamped with has the types of the CSE ABI: the
\* cast of the transaction index keeps it in 32 bits.
LEMMA CseEventType ==
  ASSUME NEW payload \in Payload, NEW frame \in 0..U32_MAX, NEW depth \in 0..U32_MAX,
         NEW hash \in Nat, NEW index \in Nat, block_number \in Nat
  PROVE  /\ CseEventOf(payload, frame, depth, hash, index) \in CseEvent
         /\ CseEventOf(payload, frame, depth, hash, index).payload = payload
         /\ CseEventOf(payload, frame, depth, hash, index).transaction_hash = hash
<1>1. index % (U32_MAX + 1) \in 0..U32_MAX
  BY WidthAssumption
<1> QED BY <1>1 DEF CseEventOf, CseEvent

\* A transaction boundary is a CSE event, outside every frame.
LEMMA BoundaryType ==
  ASSUME NEW type \in {"BeginTransaction", "EndTransaction"},
         NEW hash \in Nat, NEW index \in Nat, block_number \in Nat
  PROVE  /\ boundary_event(type, hash, index) \in CseEvent
         /\ boundary_event(type, hash, index).payload.type = type
         /\ boundary_event(type, hash, index).transaction_hash = hash
<1>1. [type |-> type] \in Payload /\ U32_MAX \in 0..U32_MAX /\ 0 \in 0..U32_MAX
  BY WidthAssumption DEF Payload
<1>2. /\ boundary_event(type, hash, index) \in CseEvent
      /\ boundary_event(type, hash, index).payload = [type |-> type]
      /\ boundary_event(type, hash, index).transaction_hash = hash
  BY <1>1, CseEventType DEF boundary_event
<1> QED BY <1>2

\* r is q with other events in buffer m.
Refilled(q, m, es, r) == r = [q EXCEPT ![m].events = es]

\* A buffer that takes other events is still the buffer of its frame.
BufferOf(A, B) == [frame_id : A, depth : B, events : Seq(CseEvent)]

LEMMA BufferRefilled ==
  ASSUME NEW A, NEW B,
         NEW q \in Seq(BufferOf(A, B)), NEW m \in 1..Len(q), NEW es \in Seq(CseEvent),
         NEW r, Refilled(q, m, es, r)
  PROVE  /\ r \in Seq(BufferOf(A, B)) /\ Len(r) = Len(q)
         /\ \A j \in 1..Len(q) : /\ r[j].frame_id = q[j].frame_id
                                 /\ r[j].depth = q[j].depth
                                 /\ r[j].events = IF j = m THEN es ELSE q[j].events
<1> DEFINE f == [q[m] EXCEPT !.events = es]
<1> DEFINE F == BufferOf(A, B)
<1>1. Len(q) \in Nat /\ q[m] \in F
  <2> HIDE DEF f, F
  <2> QED BY ElementOfSeq DEF F
<1>2. q[m] = [frame_id |-> q[m].frame_id, depth |-> q[m].depth, events |-> q[m].events]
  BY <1>1 DEF BufferOf
<1>3. f \in F /\ f.frame_id = q[m].frame_id /\ f.depth = q[m].depth /\ f.events = es
  BY <1>1, <1>2 DEF BufferOf
<1>4. r = [q EXCEPT ![m] = f]
  BY <1>1 DEF Refilled
<1> HIDE DEF f, F
<1>5. /\ r \in Seq(F) /\ Len(r) = Len(q)
      /\ \A j \in 1..Len(q) : r[j] = IF j = m THEN f ELSE q[j]
  <2>0. q \in Seq(F)
    BY DEF F
  <2>1. /\ [q EXCEPT ![m] = f] \in Seq(F)
        /\ Len([q EXCEPT ![m] = f]) = Len(q)
        /\ \A j \in 1..Len(q) : [q EXCEPT ![m] = f][j] = IF j = m THEN f ELSE q[j]
    BY <1>1, <1>3, <2>0, ExceptSeq
  <2> QED BY <1>4, <2>1
<1>6. \A j \in 1..Len(q) : /\ r[j].frame_id = q[j].frame_id
                           /\ r[j].depth = q[j].depth
                           /\ r[j].events = IF j = m THEN es ELSE q[j].events
  <2> TAKE j \in 1..Len(q)
  <2>1. CASE j = m
    BY <2>1, <1>3, <1>5
  <2>2. CASE j # m
    BY <2>2, <1>5
  <2> QED BY <2>1, <2>2
<1> QED BY <1>5, <1>6 DEF F

LEMMA BufferChanged ==
  ASSUME NEW q, q \in Seq(FrameBuffer), NEW m, m \in 1..Len(q),
         NEW es, es \in Seq(CseEvent),
         NEW r, Refilled(q, m, es, r)
  PROVE  /\ r \in Seq(FrameBuffer) /\ Len(r) = Len(q)
         /\ \A j \in 1..Len(q) : r[j].frame_id = q[j].frame_id /\ r[j].depth = q[j].depth
<1> DEFINE W == 0..U64_MAX
<1>1. FrameBuffer = BufferOf(W, W)
  BY DEF FrameBuffer, BufferOf
<1>2. q \in Seq(BufferOf(W, W))
  BY <1>1
<1> HIDE DEF W
<1>3. /\ r \in Seq(BufferOf(W, W)) /\ Len(r) = Len(q)
      /\ \A j \in 1..Len(q) : r[j].frame_id = q[j].frame_id /\ r[j].depth = q[j].depth
  BY <1>2, BufferRefilled
<1> QED BY <1>1, <1>3

-----------------------------------------------------------------------------
(***************************************************************************)
(* Replaying the empty sequence, one more event, a concatenation and a     *)
(* renumbering.                                                            *)
(***************************************************************************)

\* Writes in a concatenation are the writes of its two parts.
LEMMA ConcatWrites ==
  ASSUME NEW p \in Seq(CseEvent), NEW q \in Seq(CseEvent), NEW k
  PROVE  /\ \A i \in 1..Len(p) : Writes(p \o q, i, k) <=> Writes(p, i, k)
         /\ \A i \in 1..Len(q) : Writes(p \o q, Len(p) + i, k) <=> Writes(q, i, k)
  BY ConcatElements DEF Writes

\* Replaying a concatenation is replaying its first part and then its second:
\* what merging a committed frame's buffer into its parent's rests on.
LEMMA YieldsConcat ==
  ASSUME NEW p \in Seq(CseEvent), NEW q \in Seq(CseEvent), NEW s, NEW t, NEW u,
         Yields(s, p, t), Yields(t, q, u)
  PROVE  Yields(s, p \o q, u)
<1> DEFINE r == p \o q
<1>0. /\ r \in Seq(CseEvent)
      /\ Len(p) \in Nat /\ Len(q) \in Nat
      /\ Len(r) = Len(p) + Len(q)
      /\ \A i \in 1..Len(p) : r[i] = p[i]
      /\ \A i \in 1..Len(q) : r[Len(p) + i] = q[i]
  BY ConcatElements
<1> SUFFICES ASSUME NEW k \in Key
             PROVE  /\ (\A i \in 1..Len(r) : ~Writes(r, i, k)) => u[k] = s[k]
                    /\ \A i \in 1..Len(r) :
                         /\ Writes(r, i, k)
                         /\ \A j \in i+1..Len(r) : ~Writes(r, j, k)
                         => u[k] = r[i].payload.after
  BY DEF Yields
<1>1. /\ \A i \in 1..Len(p) : Writes(r, i, k) <=> Writes(p, i, k)
      /\ \A i \in 1..Len(q) : Writes(r, Len(p) + i, k) <=> Writes(q, i, k)
  BY ConcatWrites
<1> HIDE DEF r
<1>2. (\A i \in 1..Len(q) : ~Writes(q, i, k)) => u[k] = t[k]
  BY DEF Yields
<1>3. ASSUME \A i \in 1..Len(r) : ~Writes(r, i, k)
      PROVE  u[k] = s[k]
  <2>1. \A i \in 1..Len(p) : ~Writes(p, i, k)
    BY <1>0, <1>1, <1>3
  <2>2. \A i \in 1..Len(q) : ~Writes(q, i, k)
    <3> TAKE i \in 1..Len(q)
    <3>1. Len(p) + i \in 1..Len(r)
      BY <1>0
    <3> QED BY <3>1, <1>1, <1>3
  <2> QED BY <2>1, <2>2, <1>2 DEF Yields
<1>4. ASSUME NEW i \in 1..Len(r), Writes(r, i, k),
             \A j \in i+1..Len(r) : ~Writes(r, j, k)
      PROVE  u[k] = r[i].payload.after
  <2>1. CASE i \in 1..Len(p)
    <3>1. \A j \in 1..Len(q) : ~Writes(q, j, k)
      <4> TAKE j \in 1..Len(q)
      <4>1. Len(p) + j \in i+1..Len(r)
        BY <1>0, <2>1
      <4> QED BY <4>1, <1>1, <1>4
    <3>2. Writes(p, i, k) /\ \A j \in i+1..Len(p) : ~Writes(p, j, k)
      BY <1>0, <1>1, <1>4, <2>1
    <3>3. t[k] = p[i].payload.after
      BY <3>2, <2>1 DEF Yields
    <3> QED BY <3>1, <3>3, <1>2, <1>0, <2>1
  <2>2. CASE i \notin 1..Len(p)
    <3> DEFINE m == i - Len(p)
    <3>1. m \in 1..Len(q) /\ i = Len(p) + m
      BY <1>0, <2>2
    <3> HIDE DEF m
    <3>2. Writes(q, m, k)
      BY <3>1, <1>1, <1>4
    <3>3. \A j \in m+1..Len(q) : ~Writes(q, j, k)
      <4> TAKE j \in m+1..Len(q)
      <4>1. j \in 1..Len(q) /\ Len(p) + j \in i+1..Len(r)
        BY <1>0, <3>1
      <4> QED BY <4>1, <1>1, <1>4
    <3>4. u[k] = q[m].payload.after
      BY <3>1, <3>2, <3>3 DEF Yields
    <3> QED BY <3>1, <3>4, <1>0
  <2> QED BY <2>1, <2>2
<1> QED BY <1>3, <1>4

\* A gapless sequence continued by one that is gapless on the state it left is
\* gapless.
LEMMA ContinuesConcat ==
  ASSUME NEW p \in Seq(CseEvent), NEW q \in Seq(CseEvent), NEW s, NEW t,
         Continues(s, p), Yields(s, p, t), Continues(t, q)
  PROVE  Continues(s, p \o q)
<1> DEFINE r == p \o q
<1>0. /\ r \in Seq(CseEvent)
      /\ Len(p) \in Nat /\ Len(q) \in Nat
      /\ Len(r) = Len(p) + Len(q)
      /\ \A i \in 1..Len(p) : r[i] = p[i]
      /\ \A i \in 1..Len(q) : r[Len(p) + i] = q[i]
  BY ConcatElements
<1> SUFFICES ASSUME NEW k \in Key, NEW j \in 1..Len(r), Writes(r, j, k)
             PROVE  /\ (\A i \in 1..j-1 : ~Writes(r, i, k)) => r[j].payload.before = s[k]
                    /\ \A i \in 1..j-1 :
                         /\ Writes(r, i, k)
                         /\ \A m \in i+1..j-1 : ~Writes(r, m, k)
                         => r[j].payload.before = r[i].payload.after
  BY DEF Continues
<1>1. /\ \A i \in 1..Len(p) : Writes(r, i, k) <=> Writes(p, i, k)
      /\ \A i \in 1..Len(q) : Writes(r, Len(p) + i, k) <=> Writes(q, i, k)
  BY ConcatWrites
<1> HIDE DEF r
<1>2. CASE j \in 1..Len(p)
  <2>1. Writes(p, j, k) /\ r[j] = p[j]
    BY <1>0, <1>1, <1>2
  <2>2. \A i \in 1..j-1 : (Writes(r, i, k) <=> Writes(p, i, k)) /\ r[i] = p[i]
    BY <1>0, <1>1, <1>2
  <2>3. (\A i \in 1..j-1 : ~Writes(p, i, k)) => p[j].payload.before = s[k]
    BY <2>1, <1>2 DEF Continues
  <2>4. ASSUME NEW i \in 1..j-1, Writes(r, i, k),
               \A m \in i+1..j-1 : ~Writes(r, m, k)
        PROVE  r[j].payload.before = r[i].payload.after
    <3>1. \A m \in i+1..j-1 : ~Writes(p, m, k)
      BY <2>2, <2>4
    <3>2. p[j].payload.before = p[i].payload.after
      BY <2>1, <2>2, <2>4, <3>1, <1>2 DEF Continues
    <3> QED BY <3>2, <2>1, <2>2
  <2> QED BY <2>1, <2>2, <2>3, <2>4
<1>3. CASE j \notin 1..Len(p)
  <2> DEFINE n == j - Len(p)
  <2>1. n \in 1..Len(q) /\ j = Len(p) + n
    BY <1>0, <1>3
  <2> HIDE DEF n
  <2>2. Writes(q, n, k) /\ r[j] = q[n]
    BY <1>0, <1>1, <2>1
  <2>3. (\A i \in 1..n-1 : ~Writes(q, i, k)) => q[n].payload.before = t[k]
    BY <2>1, <2>2 DEF Continues
  <2>4. ASSUME \A i \in 1..j-1 : ~Writes(r, i, k)
        PROVE  r[j].payload.before = s[k]
    <3>1. \A i \in 1..Len(p) : ~Writes(p, i, k)
      BY <1>0, <1>1, <2>1, <2>4
    <3>2. \A i \in 1..n-1 : ~Writes(q, i, k)
      <4> TAKE i \in 1..n-1
      <4>1. i \in 1..Len(q) /\ Len(p) + i \in 1..j-1
        BY <1>0, <2>1
      <4> QED BY <4>1, <1>1, <2>4
    <3>3. t[k] = s[k]
      BY <3>1 DEF Yields
    <3> QED BY <3>2, <3>3, <2>2, <2>3
  <2>5. ASSUME NEW i \in 1..j-1, Writes(r, i, k),
               \A m \in i+1..j-1 : ~Writes(r, m, k)
        PROVE  r[j].payload.before = r[i].payload.after
    <3>1. CASE i \in 1..Len(p)
      <4>1. \A m \in 1..n-1 : ~Writes(q, m, k)
        <5> TAKE m \in 1..n-1
        <5>1. m \in 1..Len(q) /\ Len(p) + m \in i+1..j-1
          BY <1>0, <2>1, <3>1
        <5> QED BY <5>1, <1>1, <2>5
      <4>2. \A m \in i+1..Len(p) : ~Writes(p, m, k)
        BY <1>0, <1>1, <2>1, <2>5, <3>1
      <4>3. t[k] = p[i].payload.after
        BY <4>2, <1>1, <2>5, <3>1 DEF Yields
      <4> QED BY <4>1, <4>3, <2>2, <2>3, <1>0, <3>1
    <3>2. CASE i \notin 1..Len(p)
      <4> DEFINE h == i - Len(p)
      <4>1. h \in 1..n-1 /\ h \in 1..Len(q) /\ i = Len(p) + h
        BY <1>0, <2>1, <3>2
      <4> HIDE DEF h
      <4>2. Writes(q, h, k) /\ r[i] = q[h]
        BY <1>0, <1>1, <2>5, <4>1
      <4>3. \A m \in h+1..n-1 : ~Writes(q, m, k)
        <5> TAKE m \in h+1..n-1
        <5>1. m \in 1..Len(q) /\ Len(p) + m \in i+1..j-1
          BY <1>0, <2>1, <4>1
        <5> QED BY <5>1, <1>1, <2>5
      <4>4. q[n].payload.before = q[h].payload.after
        BY <2>1, <2>2, <4>1, <4>2, <4>3 DEF Continues
      <4> QED BY <4>2, <4>4, <2>2
    <3> QED BY <3>1, <3>2
  <2> QED BY <2>4, <2>5
<1> QED BY <1>2, <1>3

-----------------------------------------------------------------------------

\* The empty sequence, which a fresh frame buffer is.
LEMMA ReplayEmpty ==
  ASSUME NEW s
  PROVE  Yields(s, << >>, s) /\ Continues(s, << >>)
  BY DEF Yields, Continues

\* One event that writes no cell: a boundary or a lifecycle event.
LEMMA ReplayOther ==
  ASSUME NEW s, NEW e \in CseEvent, e.payload.type # "StateChanged"
  PROVE  Yields(s, <<e>>, s) /\ Continues(s, <<e>>)
<1>1. Len(<<e>>) = 1 /\ <<e>>[1] = e
  OBVIOUS
<1>2. \A k \in Key, i \in 1..Len(<<e>>) : ~Writes(<<e>>, i, k)
  BY <1>1 DEF Writes
<1> QED BY <1>2 DEF Yields, Continues

\* One write, recorded with the value it found and the value it left.
LEMMA YieldsWrite ==
  ASSUME NEW s \in World, NEW e \in CseEvent, NEW k \in Key, NEW v \in Value,
         e.payload.type = "StateChanged", e.payload.key = k,
         e.payload.before = s[k], e.payload.after = v
  PROVE  Yields(s, <<e>>, [s EXCEPT ![k] = v]) /\ Continues(s, <<e>>)
<1>1. Len(<<e>>) = 1 /\ <<e>>[1] = e /\ <<e>> \in Seq(CseEvent)
  OBVIOUS
<1>2. \A l \in Key, i \in 1..Len(<<e>>) : i = 1 /\ (Writes(<<e>>, i, l) <=> l = k)
  BY <1>1 DEF Writes
<1>3. \A l \in Key : [s EXCEPT ![k] = v][l] = IF l = k THEN v ELSE s[l]
  BY DEF World
<1> DEFINE q == <<e>>
<1>4. Len(q) = 1 /\ q[1] = e
  BY <1>1
<1>5. \A l \in Key, i \in 1..Len(q) : i = 1 /\ (Writes(q, i, l) <=> l = k)
  BY <1>2
<1> HIDE DEF q
<1>6. Yields(s, q, [s EXCEPT ![k] = v])
  <2> SUFFICES ASSUME NEW l \in Key
               PROVE  /\ (\A i \in 1..Len(q) : ~Writes(q, i, l)) =>
                           [s EXCEPT ![k] = v][l] = s[l]
                      /\ \A i \in 1..Len(q) :
                           /\ Writes(q, i, l)
                           /\ \A j \in i+1..Len(q) : ~Writes(q, j, l)
                           => [s EXCEPT ![k] = v][l] = q[i].payload.after
    BY DEF Yields
  <2>1. CASE l = k
    BY <2>1, <1>3, <1>4, <1>5
  <2>2. CASE l # k
    BY <2>2, <1>3, <1>4, <1>5
  <2> QED BY <2>1, <2>2
<1>7. Continues(s, q)
  BY <1>4, <1>5 DEF Continues
<1> QED BY <1>6, <1>7 DEF q

\* Appending an event that writes no cell changes nothing.
LEMMA AppendOther ==
  ASSUME NEW q \in Seq(CseEvent), NEW s, NEW t, NEW e \in CseEvent,
         e.payload.type # "StateChanged", Yields(s, q, t), Continues(s, q)
  PROVE  Yields(s, Append(q, e), t) /\ Continues(s, Append(q, e))
<1>1. Yields(t, <<e>>, t) /\ Continues(t, <<e>>)
  BY ReplayOther
<1>2. Append(q, e) = q \o <<e>> /\ <<e>> \in Seq(CseEvent)
  BY AppendIsConcat
<1> QED BY <1>1, <1>2, YieldsConcat, ContinuesConcat

\* Appending a write moves the state it yields by that write.
LEMMA AppendWrite ==
  ASSUME NEW q \in Seq(CseEvent), NEW s, NEW t \in World, NEW e \in CseEvent,
         NEW k \in Key, NEW v \in Value,
         e.payload.type = "StateChanged", e.payload.key = k,
         e.payload.before = t[k], e.payload.after = v,
         Yields(s, q, t), Continues(s, q)
  PROVE  Yields(s, Append(q, e), [t EXCEPT ![k] = v]) /\ Continues(s, Append(q, e))
<1> DEFINE u == [t EXCEPT ![k] = v]
<1>1. Yields(t, <<e>>, u) /\ Continues(t, <<e>>)
  BY YieldsWrite
<1> HIDE DEF u
<1>2. Append(q, e) = q \o <<e>> /\ <<e>> \in Seq(CseEvent)
  BY AppendIsConcat
<1>3. Yields(s, q \o <<e>>, u)
  BY <1>1, <1>2, YieldsConcat
<1>4. Continues(s, q \o <<e>>)
  BY <1>1, <1>2, ContinuesConcat
<1> QED BY <1>2, <1>3, <1>4 DEF u

\* Two sequences with the same payloads replay alike: the dense renumbering at
\* the end of translate touches nothing else.
LEMMA ReplayPayloads ==
  ASSUME NEW p, NEW q, NEW s, NEW t,
         Len(p) = Len(q), \A i \in 1..Len(p) : q[i].payload = p[i].payload,
         Len(p) \in Nat
  PROVE  /\ Yields(s, p, t) => Yields(s, q, t)
         /\ Continues(s, p) => Continues(s, q)
<1>1. \A k \in Key, i \in 1..Len(p) : Writes(p, i, k) <=> Writes(q, i, k)
  BY DEF Writes
<1>2. ASSUME Yields(s, p, t) PROVE Yields(s, q, t)
  <2> SUFFICES ASSUME NEW k \in Key
               PROVE  /\ (\A i \in 1..Len(q) : ~Writes(q, i, k)) => t[k] = s[k]
                      /\ \A i \in 1..Len(q) :
                           /\ Writes(q, i, k)
                           /\ \A j \in i+1..Len(q) : ~Writes(q, j, k)
                           => t[k] = q[i].payload.after
    BY DEF Yields
  <2>1. (\A i \in 1..Len(q) : ~Writes(q, i, k)) => t[k] = s[k]
    BY <1>1, <1>2 DEF Yields
  <2>2. ASSUME NEW i \in 1..Len(q), Writes(q, i, k),
               \A j \in i+1..Len(q) : ~Writes(q, j, k)
        PROVE  t[k] = q[i].payload.after
    <3>1. Writes(p, i, k) /\ \A j \in i+1..Len(p) : ~Writes(p, j, k)
      BY <1>1, <2>2
    <3>2. t[k] = p[i].payload.after
      BY <1>2, <3>1 DEF Yields
    <3> QED BY <3>2
  <2> QED BY <2>1, <2>2
<1>3. ASSUME Continues(s, p) PROVE Continues(s, q)
  <2> SUFFICES ASSUME NEW k \in Key, NEW j \in 1..Len(q), Writes(q, j, k)
               PROVE  /\ (\A i \in 1..j-1 : ~Writes(q, i, k)) => q[j].payload.before = s[k]
                      /\ \A i \in 1..j-1 :
                           /\ Writes(q, i, k)
                           /\ \A m \in i+1..j-1 : ~Writes(q, m, k)
                           => q[j].payload.before = q[i].payload.after
    BY DEF Continues
  <2>1. Writes(p, j, k) /\ \A i \in 1..j-1 : Writes(p, i, k) <=> Writes(q, i, k)
    BY <1>1
  <2>2. ASSUME NEW i \in 1..j-1, Writes(q, i, k),
               \A m \in i+1..j-1 : ~Writes(q, m, k)
        PROVE  q[j].payload.before = q[i].payload.after
    <3>1. Writes(p, i, k) /\ \A m \in i+1..j-1 : ~Writes(p, m, k)
      BY <2>1, <2>2
    <3>2. p[j].payload.before = p[i].payload.after
      BY <1>3, <2>1, <3>1 DEF Continues
    <3> QED BY <3>2
  <2>3. (\A i \in 1..j-1 : ~Writes(q, i, k)) => q[j].payload.before = s[k]
    BY <1>3, <2>1 DEF Continues
  <2> QED BY <2>2, <2>3
<1> QED BY <1>2, <1>3

-----------------------------------------------------------------------------
(***************************************************************************)
(* Brackets: what the bridge produces of any events in any order.          *)
(***************************************************************************)

IsBoundary(x) == x.payload.type \in {"BeginTransaction", "EndTransaction"}

\* Brackets that alternate, enclose everything and hold one hash each.
Brackets(q) ==
  /\ q # << >> => /\ q[1].payload.type = "BeginTransaction"
                  /\ q[Len(q)].payload.type = "EndTransaction"
  /\ \A j \in 1..Len(q) - 1 :
       /\ q[j].payload.type = "EndTransaction" <=> q[j+1].payload.type = "BeginTransaction"
       /\ q[j].payload.type # "EndTransaction" =>
            q[j].transaction_hash = q[j+1].transaction_hash

\* Events of the transaction, none of them a bracket.
Inside(q, hash) ==
  \A j \in 1..Len(q) : ~IsBoundary(q[j]) /\ q[j].transaction_hash = hash

\* One bracket that is still open.
OpenBracket(q, hash) ==
  /\ Len(q) > 0
  /\ q[1].payload.type = "BeginTransaction"
  /\ \A j \in 1..Len(q) : q[j].transaction_hash = hash /\ (j > 1 => ~IsBoundary(q[j]))

LEMMA InsideConcat ==
  ASSUME NEW p \in Seq(CseEvent), NEW q \in Seq(CseEvent), NEW hash,
         Inside(p, hash), Inside(q, hash)
  PROVE  Inside(p \o q, hash)
<1> DEFINE r == p \o q
<1>1. /\ Len(p) \in Nat /\ Len(q) \in Nat /\ Len(r) = Len(p) + Len(q)
      /\ \A i \in 1..Len(p) : r[i] = p[i]
      /\ \A i \in 1..Len(q) : r[Len(p) + i] = q[i]
  BY ConcatElements
<1> HIDE DEF r
<1>2. ASSUME NEW j \in 1..Len(r) PROVE ~IsBoundary(r[j]) /\ r[j].transaction_hash = hash
  <2>1. CASE j \in 1..Len(p)
    BY <1>1, <2>1 DEF Inside
  <2>2. CASE j \notin 1..Len(p)
    <3>1. j - Len(p) \in 1..Len(q) /\ Len(p) + (j - Len(p)) = j
      BY <1>1, <2>2
    <3> QED BY <1>1, <3>1 DEF Inside
  <2> QED BY <2>1, <2>2
<1> QED BY <1>2 DEF Inside, r

LEMMA OpenBracketConcat ==
  ASSUME NEW p \in Seq(CseEvent), NEW q \in Seq(CseEvent), NEW hash,
         OpenBracket(p, hash), Inside(q, hash)
  PROVE  OpenBracket(p \o q, hash)
<1> DEFINE r == p \o q
<1>1. /\ Len(p) \in Nat /\ Len(q) \in Nat /\ Len(r) = Len(p) + Len(q)
      /\ \A i \in 1..Len(p) : r[i] = p[i]
      /\ \A i \in 1..Len(q) : r[Len(p) + i] = q[i]
  BY ConcatElements
<1> HIDE DEF r
<1>2. ASSUME NEW j \in 1..Len(r)
      PROVE  r[j].transaction_hash = hash /\ (j > 1 => ~IsBoundary(r[j]))
  <2>1. CASE j \in 1..Len(p)
    BY <1>1, <2>1 DEF OpenBracket
  <2>2. CASE j \notin 1..Len(p)
    <3>1. j - Len(p) \in 1..Len(q) /\ Len(p) + (j - Len(p)) = j
      BY <1>1, <2>2
    <3> QED BY <1>1, <3>1 DEF Inside
  <2> QED BY <2>1, <2>2
<1>3. Len(r) > 0 /\ r[1] = p[1]
  BY <1>1 DEF OpenBracket
<1> QED BY <1>2, <1>3 DEF OpenBracket, r

\* A bracket is closed behind others that are closed.
LEMMA BracketClosed ==
  ASSUME NEW p \in Seq(CseEvent), NEW q \in Seq(CseEvent), NEW x \in CseEvent, NEW hash,
         Brackets(p), OpenBracket(q, hash),
         x.payload.type = "EndTransaction", x.transaction_hash = hash
  PROVE  Brackets(p \o Append(q, x))
<1> DEFINE c == Append(q, x)
           r == p \o c
<1>1. /\ c \in Seq(CseEvent) /\ Len(c) = Len(q) + 1 /\ Len(q) \in Nat /\ Len(q) > 0
      /\ \A j \in 1..Len(q) : c[j] = q[j]
      /\ c[Len(q) + 1] = x
  BY Pushed DEF OpenBracket
<1> HIDE DEF c
<1>2. /\ Len(p) \in Nat /\ Len(c) \in Nat /\ Len(r) = Len(p) + Len(c)
      /\ \A i \in 1..Len(p) : r[i] = p[i]
      /\ \A i \in 1..Len(c) : r[Len(p) + i] = c[i]
  <2>1. c \in Seq(CseEvent)
    BY <1>1
  <2> QED BY <2>1, ConcatElements
<1>0. p # << >> <=> Len(p) > 0
  OBVIOUS
<1> HIDE DEF r
<1>3. /\ c[1].payload.type = "BeginTransaction"
      /\ c[Len(c)].payload.type = "EndTransaction"
      /\ \A j \in 1..Len(c) - 1 : /\ c[j].payload.type # "EndTransaction"
                                  /\ c[j+1].payload.type # "BeginTransaction"
                                  /\ c[j].transaction_hash = c[j+1].transaction_hash
  <2>1. ASSUME NEW j \in 1..Len(c) - 1
        PROVE  /\ c[j].payload.type # "EndTransaction"
               /\ c[j+1].payload.type # "BeginTransaction"
               /\ c[j].transaction_hash = c[j+1].transaction_hash
    <3>1. j \in 1..Len(q) /\ c[j] = q[j]
      BY <1>1
    <3>2. c[j].payload.type # "EndTransaction" /\ c[j].transaction_hash = hash
      BY <1>1, <3>1 DEF OpenBracket, IsBoundary
    <3>3. CASE j + 1 \in 1..Len(q)
      BY <1>1, <3>1, <3>2, <3>3 DEF OpenBracket, IsBoundary
    <3>4. CASE j + 1 \notin 1..Len(q)
      <4>1. j + 1 = Len(q) + 1
        BY <1>1, <3>1, <3>4
      <4> QED BY <1>1, <3>2, <4>1
    <3> QED BY <3>2, <3>3, <3>4
  <2>2. c[1] = q[1] /\ c[Len(c)] = x
    BY <1>1
  <2> QED BY <2>1, <2>2 DEF OpenBracket
<1>4. r[1].payload.type = "BeginTransaction"
  <2>1. CASE Len(p) = 0
    <3>1. 1 \in 1..Len(c) /\ Len(p) + 1 = 1
      BY <1>1, <2>1
    <3> QED BY <1>2, <1>3, <3>1
  <2>2. CASE Len(p) > 0
    <3>1. r[1] = p[1] /\ p # << >>
      BY <1>0, <1>2, <2>2
    <3> QED BY <3>1 DEF Brackets
  <2> QED BY <1>2, <2>1, <2>2
<1>5. r[Len(r)].payload.type = "EndTransaction"
  <2>1. Len(c) \in 1..Len(c)
    BY <1>1
  <2> QED BY <1>2, <1>3, <2>1
<1>6. ASSUME NEW j \in 1..Len(r) - 1
      PROVE  /\ r[j].payload.type = "EndTransaction" <=> r[j+1].payload.type = "BeginTransaction"
             /\ r[j].payload.type # "EndTransaction" =>
                  r[j].transaction_hash = r[j+1].transaction_hash
  <2>1. CASE j < Len(p)
    <3>1. j \in 1..Len(p) - 1 /\ r[j] = p[j] /\ r[j+1] = p[j+1]
      BY <1>2, <2>1
    <3> QED BY <3>1 DEF Brackets
  <2>2. CASE j = Len(p)
    <3>1. r[j] = p[Len(p)] /\ r[Len(p) + 1] = c[1]
      <4>1. Len(p) \in 1..Len(p) /\ 1 \in 1..Len(c) /\ j = Len(p)
        BY <1>1, <1>2, <2>2
      <4>2. r[Len(p)] = p[Len(p)]
        BY <4>1, <1>2
      <4>3. r[Len(p) + 1] = c[1]
        BY <4>1, <1>2
      <4> QED BY <4>1, <4>2, <4>3
    <3>2. r[j+1] = c[1]
      BY <2>2, <3>1
    <3>3. p # << >>
      BY <1>0, <1>2, <2>2
    <3> QED BY <1>3, <3>1, <3>2, <3>3 DEF Brackets
  <2>3. CASE j > Len(p)
    <3> DEFINE m == j - Len(p)
    <3>1. m \in 1..Len(c) - 1 /\ m \in 1..Len(c) /\ m + 1 \in 1..Len(c)
          /\ Len(p) + m = j /\ Len(p) + (m + 1) = j + 1
      BY <1>2, <2>3
    <3> HIDE DEF m
    <3>2. r[j] = c[m] /\ r[j+1] = c[m+1]
      BY <1>2, <3>1
    <3> QED BY <1>3, <3>1, <3>2
  <2> QED BY <1>2, <2>1, <2>2, <2>3
<1> QED BY <1>4, <1>5, <1>6 DEF Brackets, r, c

\* What the bridge holds, whatever it has read.
Bracketing ==
  /\ final_output \in Seq(CseEvent) /\ Brackets(final_output)
  /\ tx_output \in Seq(CseEvent) /\ (tx_open => OpenBracket(tx_output, tx_hash))
  /\ frame_stack \in Seq(BufferOf(Nat, Nat))
  /\ \A j \in 1..Len(frame_stack) : Inside(frame_stack[j].events, tx_hash)
  /\ ~tx_open => frame_stack = << >>
  /\ tx_open \in BOOLEAN /\ block_number \in Nat /\ tx_index \in Nat /\ tx_hash \in Nat

LEMMA BracketingKept ==
  ASSUME Bracketing, UNCHANGED <<final_output, tx_open, tx_output, frame_stack, bridgeContext>>
  PROVE  Bracketing'
  BY DEF Bracketing, bridgeContext

LEMMA TransactionStartBracketing ==
  ASSUME Bracketing, NEW e, e.hash \in Nat, e.txIndex \in Nat, TranslateTransactionStart(e)
  PROVE  Bracketing'
<1> DEFINE b == boundary_event("BeginTransaction", e.hash, e.txIndex)
<1>1. CASE BridgeFail("TransactionStartWhileOpen")
  BY <1>1, BracketingKept DEF BridgeFail
<1>2. CASE /\ tx_open' = TRUE /\ tx_index' = e.txIndex /\ tx_hash' = e.hash
           /\ tx_output' = <<b>> /\ frame_stack' = << >>
           /\ UNCHANGED <<final_output, block_number, bridge_result>>
  <2>1. b \in CseEvent /\ b.payload.type = "BeginTransaction" /\ b.transaction_hash = e.hash
    BY BoundaryType DEF Bracketing
  <2> HIDE DEF b
  <2>2. <<b>> \in Seq(CseEvent) /\ OpenBracket(<<b>>, e.hash)
    BY <2>1 DEF OpenBracket
  <2>3. << >> \in Seq(BufferOf(Nat, Nat)) /\ Len(<< >>) = 0
    OBVIOUS
  <2> QED BY <1>2, <2>2, <2>3 DEF Bracketing
<1> QED BY <1>1, <1>2 DEF TranslateTransactionStart

LEMMA TransactionEndBracketing ==
  ASSUME Bracketing, NEW e, TranslateTransactionEnd(e)
  PROVE  Bracketing'
<1> DEFINE b == boundary_event("EndTransaction", tx_hash, tx_index)
<1>1. CASE BridgeFail("EventOutsideTransaction") \/ BridgeFail("UnbalancedFrames")
  BY <1>1, BracketingKept DEF BridgeFail
<1>2. CASE /\ tx_open /\ frame_stack = << >>
           /\ final_output' = final_output \o Append(tx_output, b)
           /\ tx_output' = << >> /\ tx_open' = FALSE
           /\ UNCHANGED <<frame_stack, bridgeContext, bridge_result>>
  <2>1. b \in CseEvent /\ b.payload.type = "EndTransaction" /\ b.transaction_hash = tx_hash
    BY BoundaryType DEF Bracketing
  <2> HIDE DEF b
  <2>2. Brackets(final_output')
    BY <1>2, <2>1, BracketClosed DEF Bracketing
  <2>3. final_output' \in Seq(CseEvent) /\ tx_output' \in Seq(CseEvent)
    <3>1. Append(tx_output, b) \in Seq(CseEvent)
      BY <2>1, Pushed DEF Bracketing
    <3> QED BY <1>2, <3>1, ConcatElements DEF Bracketing
  <2> QED BY <1>2, <2>2, <2>3 DEF Bracketing, bridgeContext
<1> QED BY <1>1, <1>2 DEF TranslateTransactionEnd

LEMMA FrameEnterBracketing ==
  ASSUME Bracketing, NEW e, e.frameID \in Nat, e.depth \in Nat, TranslateFrameEnter(e)
  PROVE  Bracketing'
<1> DEFINE f == [frame_id |-> e.frameID, depth |-> e.depth, events |-> << >>]
<1>1. CASE BridgeFail("EventOutsideTransaction")
  BY <1>1, BracketingKept DEF BridgeFail
<1>2. CASE /\ tx_open /\ frame_stack' = Append(frame_stack, f)
           /\ UNCHANGED <<final_output, tx_open, tx_output, bridgeContext, bridge_result>>
  <2>1. f \in BufferOf(Nat, Nat) /\ f.events = << >>
    BY DEF BufferOf
  <2> HIDE DEF f
  <2>2. /\ frame_stack' \in Seq(BufferOf(Nat, Nat)) /\ Len(frame_stack') = Len(frame_stack) + 1
        /\ \A j \in 1..Len(frame_stack) : frame_stack'[j] = frame_stack[j]
        /\ frame_stack'[Len(frame_stack) + 1] = f /\ Len(frame_stack) \in Nat
    BY <1>2, <2>1, Pushed DEF Bracketing
  <2>3. \A j \in 1..Len(frame_stack') : Inside(frame_stack'[j].events, tx_hash)
    <3> TAKE j \in 1..Len(frame_stack')
    <3>1. CASE j \in 1..Len(frame_stack)
      BY <2>2, <3>1 DEF Bracketing
    <3>2. CASE j \notin 1..Len(frame_stack)
      <4>1. frame_stack'[j] = f
        BY <2>2, <3>2
      <4>2. Inside(<< >>, tx_hash)
        BY DEF Inside
      <4> QED BY <2>1, <4>1, <4>2
    <3> QED BY <3>1, <3>2
  <2> QED BY <1>2, <2>2, <2>3 DEF Bracketing, bridgeContext
<1> QED BY <1>1, <1>2 DEF TranslateFrameEnter

\* The innermost buffer and what remains without it.
LEMMA TopAndRest ==
  ASSUME Bracketing, frame_stack # << >>
  PROVE  /\ Top \in BufferOf(Nat, Nat) /\ Inside(Top.events, tx_hash)
         /\ Top.events \in Seq(CseEvent) /\ Len(frame_stack) \in Nat \ {0}
         /\ Pop \in Seq(BufferOf(Nat, Nat)) /\ Len(Pop) = Len(frame_stack) - 1
         /\ \A j \in 1..Len(Pop) : Pop[j] = frame_stack[j] /\ Inside(Pop[j].events, tx_hash)
<1>1. /\ Pop \in Seq(BufferOf(Nat, Nat)) /\ Len(Pop) = Len(frame_stack) - 1
      /\ \A j \in 1..Len(frame_stack) - 1 : Pop[j] = frame_stack[j]
      /\ Top \in BufferOf(Nat, Nat) /\ Len(frame_stack) \in Nat \ {0}
  BY Popped DEF Bracketing, Pop, Top
<1>2. Inside(Top.events, tx_hash)
  BY <1>1 DEF Bracketing, Top
<1>3. Top.events \in Seq(CseEvent)
  BY <1>1 DEF BufferOf
<1>4. \A j \in 1..Len(Pop) : Pop[j] = frame_stack[j] /\ Inside(Pop[j].events, tx_hash)
  <2> TAKE j \in 1..Len(Pop)
  <2>1. j \in 1..Len(frame_stack) - 1 /\ j \in 1..Len(frame_stack)
    BY <1>1
  <2>2. Pop[j] = frame_stack[j]
    BY <1>1, <2>1
  <2> QED BY <2>1, <2>2 DEF Bracketing
<1> QED BY <1>1, <1>2, <1>3, <1>4

LEMMA FrameExitBracketing ==
  ASSUME Bracketing, NEW e, TranslateFrameExit(e)
  PROVE  Bracketing'
<1> DEFINE n == Len(frame_stack)
<1>1. CASE BridgeFail("EventOutsideTransaction") \/ BridgeFail("UnbalancedFrames")
  BY <1>1, BracketingKept DEF BridgeFail
<1>2. CASE /\ tx_open /\ frame_stack # << >>
           /\ IF e.reverted THEN Discard ELSE Merge(Top.events)
           /\ UNCHANGED <<final_output, tx_open, bridgeContext, bridge_result>>
  <2>0. /\ Top.events \in Seq(CseEvent) /\ Inside(Top.events, tx_hash) /\ n \in Nat \ {0}
        /\ Pop \in Seq(BufferOf(Nat, Nat)) /\ Len(Pop) = n - 1
        /\ \A j \in 1..Len(Pop) : Inside(Pop[j].events, tx_hash)
    BY <1>2, TopAndRest
  <2> DEFINE child == Top.events
  <2>1. CASE frame_stack' = Pop /\ UNCHANGED tx_output
    BY <1>2, <2>0, <2>1 DEF Bracketing, bridgeContext
  <2>2. CASE frame_stack' = Pop /\ tx_output' = tx_output \o child
    <3>1. tx_output' \in Seq(CseEvent) /\ OpenBracket(tx_output', tx_hash)
      BY <1>2, <2>0, <2>2, ConcatElements, OpenBracketConcat DEF Bracketing
    <3> QED BY <1>2, <2>0, <2>2, <3>1 DEF Bracketing, bridgeContext
  <2>3. CASE n > 1 /\ frame_stack' = [Pop EXCEPT ![n - 1].events = @ \o child]
             /\ UNCHANGED tx_output
    <3> DEFINE m == n - 1
               es == Pop[m].events \o child
    <3>1. m \in 1..Len(Pop)
      BY <2>0, <2>3
    <3>2. Refilled(Pop, m, es, frame_stack')
      <4> HIDE DEF n, child
      <4> QED BY <2>3 DEF Refilled
    <3>3. Pop[m].events \in Seq(CseEvent) /\ Inside(Pop[m].events, tx_hash)
      <4>1. Pop[m] \in BufferOf(Nat, Nat)
        <5> HIDE DEF m
        <5> QED BY <2>0, <3>1, ElementOfSeq
      <4> HIDE DEF m
      <4> QED BY <2>0, <3>1, <4>1 DEF BufferOf
    <3> HIDE DEF m, n
    <3>4. es \in Seq(CseEvent) /\ Inside(es, tx_hash)
      BY <2>0, <3>3, ConcatElements, InsideConcat
    <3> HIDE DEF es, child
    <3>5. /\ frame_stack' \in Seq(BufferOf(Nat, Nat)) /\ Len(frame_stack') = Len(Pop)
          /\ \A j \in 1..Len(Pop) : frame_stack'[j].events = IF j = m THEN es ELSE Pop[j].events
      <4>1. Pop \in Seq(BufferOf(Nat, Nat)) /\ es \in Seq(CseEvent)
        BY <2>0, <3>4
      <4> QED BY <3>1, <3>2, <4>1, BufferRefilled
    <3>6. \A j \in 1..Len(frame_stack') : Inside(frame_stack'[j].events, tx_hash)
      BY <2>0, <3>4, <3>5
    <3> QED BY <1>2, <2>3, <3>5, <3>6 DEF Bracketing, bridgeContext
  <2>4. \/ frame_stack' = Pop /\ UNCHANGED tx_output
        \/ frame_stack' = Pop /\ tx_output' = tx_output \o child
        \/ n > 1 /\ frame_stack' = [Pop EXCEPT ![n - 1].events = @ \o child]
             /\ UNCHANGED tx_output
    BY <1>2 DEF Discard, Merge
  <2> HIDE DEF n, child
  <2> QED BY <2>1, <2>2, <2>3, <2>4
<1> QED BY <1>1, <1>2 DEF TranslateFrameExit

\* An event that is appended lies inside a bracket.
LEMMA OneInside ==
  ASSUME NEW q \in Seq(CseEvent), NEW x \in CseEvent, NEW hash,
         ~IsBoundary(x), x.transaction_hash = hash
  PROVE  /\ Append(q, x) \in Seq(CseEvent)
         /\ OpenBracket(q, hash) => OpenBracket(Append(q, x), hash)
         /\ Inside(q, hash) => Inside(Append(q, x), hash)
<1>1. <<x>> \in Seq(CseEvent) /\ Append(q, x) = q \o <<x>> /\ Append(q, x) \in Seq(CseEvent)
  BY AppendIsConcat, Pushed
<1>2. Inside(<<x>>, hash)
  BY DEF Inside
<1> QED BY <1>1, <1>2, OpenBracketConcat, InsideConcat

LEMMA AppendBracketing ==
  ASSUME Bracketing, NEW frameID, NEW payload \in Payload,
         payload.type \notin {"BeginTransaction", "EndTransaction"},
         append_mutation(frameID, payload)
  PROVE  Bracketing'
<1>1. CASE BridgeFail("UnbalancedFrames") \/ BridgeFail("FrameIdOverflow")
  BY <1>1, BracketingKept DEF BridgeFail
<1>2. CASE /\ tx_output' = Append(tx_output,
                                  CseEventOf(payload, U32_MAX, 0, tx_hash, tx_index))
           /\ UNCHANGED <<final_output, tx_open, frame_stack, bridgeContext, bridge_result>>
  <2> DEFINE x == CseEventOf(payload, U32_MAX, 0, tx_hash, tx_index)
  <2>1. U32_MAX \in 0..U32_MAX /\ 0 \in 0..U32_MAX
    BY WidthAssumption
  <2>2. x \in CseEvent /\ x.payload = payload /\ x.transaction_hash = tx_hash
    BY <2>1, CseEventType DEF Bracketing
  <2> HIDE DEF x
  <2>3. /\ tx_output' \in Seq(CseEvent)
        /\ OpenBracket(tx_output, tx_hash) => OpenBracket(tx_output', tx_hash)
    BY <1>2, <2>2, OneInside DEF Bracketing, IsBoundary, x
  <2> QED BY <1>2, <2>3 DEF Bracketing, bridgeContext
<1>3. CASE /\ frame_stack # << >> /\ Top.frame_id <= U32_MAX /\ Top.depth <= U32_MAX
           /\ frame_stack' = [frame_stack EXCEPT ![Len(frame_stack)].events =
                Append(@, CseEventOf(payload, Top.frame_id, Top.depth, tx_hash, tx_index))]
           /\ UNCHANGED <<final_output, tx_open, tx_output, bridgeContext, bridge_result>>
  <2> DEFINE n == Len(frame_stack)
             x == CseEventOf(payload, Top.frame_id, Top.depth, tx_hash, tx_index)
             es == Append(frame_stack[n].events, x)
  <2>1. /\ Top \in BufferOf(Nat, Nat) /\ Inside(Top.events, tx_hash)
        /\ Top.events \in Seq(CseEvent) /\ n \in 1..n /\ Top = frame_stack[n]
    <3>1. n \in Nat \ {0}
      BY <1>3, TopAndRest
    <3> QED BY <1>3, <3>1, TopAndRest DEF Top
  <2>2. Top.frame_id \in 0..U32_MAX /\ Top.depth \in 0..U32_MAX
    <3>1. Top.frame_id \in Nat /\ Top.depth \in Nat
      BY <2>1 DEF BufferOf
    <3> QED BY <1>3, <3>1, WidthAssumption
  <2>3. x \in CseEvent /\ x.payload = payload /\ x.transaction_hash = tx_hash
    <3>1. tx_hash \in Nat /\ tx_index \in Nat /\ block_number \in Nat
      BY DEF Bracketing
    <3> QED BY <2>2, <3>1, CseEventType
  <2>4. Refilled(frame_stack, n, es, frame_stack')
    <3> HIDE DEF x
    <3> QED BY <1>3 DEF Refilled, x
  <2> HIDE DEF x
  <2>5. es \in Seq(CseEvent) /\ Inside(es, tx_hash)
    BY <2>1, <2>3, OneInside DEF IsBoundary
  <2> HIDE DEF es, n
  <2>6. /\ frame_stack' \in Seq(BufferOf(Nat, Nat)) /\ Len(frame_stack') = Len(frame_stack)
        /\ \A j \in 1..Len(frame_stack) :
             frame_stack'[j].events = IF j = n THEN es ELSE frame_stack[j].events
    BY <2>1, <2>4, <2>5, BufferRefilled DEF Bracketing, n
  <2>7. \A j \in 1..Len(frame_stack') : Inside(frame_stack'[j].events, tx_hash)
    BY <2>5, <2>6 DEF Bracketing
  <2>8. ~tx_open => frame_stack' = << >>
    BY <1>3 DEF Bracketing
  <2> QED BY <1>3, <2>6, <2>7, <2>8 DEF Bracketing, bridgeContext
<1> QED BY <1>1, <1>2, <1>3 DEF append_mutation

\* The bridge keeps to brackets on any events in any order.
LEMMA TranslateBracketing ==
  ASSUME Bracketing, NEW e \in EmesEvent, Translate(e)
  PROVE  Bracketing'
<1>1. CASE e.type = "BlockStart"
  <2>1. e.number \in Nat
    BY <1>1 DEF EmesEvent
  <2> QED BY <1>1, <2>1 DEF Translate, TranslateBlockStart, Bracketing
<1>2. CASE e.type = "BlockCommit"
  BY <1>2, BracketingKept DEF Translate, TranslateBlockCommit, bridgeVars
<1>3. CASE e.type = "TransactionStart"
  <2>1. e.hash \in Nat /\ e.txIndex \in Nat
    BY <1>3 DEF EmesEvent
  <2> QED BY <1>3, <2>1, TransactionStartBracketing DEF Translate
<1>4. CASE e.type = "TransactionEnd"
  BY <1>4, TransactionEndBracketing DEF Translate
<1>5. CASE e.type = "FrameEnter"
  <2>1. e.frameID \in Nat /\ e.depth \in Nat
    BY <1>5, WidthAssumption DEF EmesEvent, U64
  <2> QED BY <1>5, <2>1, FrameEnterBracketing DEF Translate
<1>6. CASE e.type = "FrameExit"
  BY <1>6, FrameExitBracketing DEF Translate
<1>7. CASE e.type = "Mutation"
  <2> DEFINE p == [type |-> "StateChanged", key |-> e.key, before |-> e.before,
                   after |-> e.after]
  <2>1. p \in Payload /\ p.type = "StateChanged"
    BY <1>7 DEF EmesEvent, Payload
  <2>2. append_mutation(e.frameID, p)
    BY <1>7 DEF Translate, TranslateMutation
  <2> HIDE DEF p
  <2> QED BY <2>1, <2>2, AppendBracketing
<1>8. CASE e.type = "AccountCreated"
  <2> DEFINE p == [type |-> "ContractCreated", address |-> e.address]
  <2>1. p \in Payload /\ p.type = "ContractCreated"
    BY <1>8 DEF EmesEvent, Payload
  <2>2. append_mutation(e.frameID, p)
    BY <1>8 DEF Translate, TranslateAccountCreated
  <2> HIDE DEF p
  <2> QED BY <2>1, <2>2, AppendBracketing
<1>9. CASE e.type = "SelfDestruct"
  <2> DEFINE p == [type |-> "ContractDestroyed", address |-> e.address]
  <2>1. p \in Payload /\ p.type = "ContractDestroyed"
    BY <1>9 DEF EmesEvent, Payload
  <2>2. append_mutation(e.frameID, p)
    BY <1>9 DEF Translate, TranslateSelfDestruct
  <2> HIDE DEF p
  <2> QED BY <2>1, <2>2, AppendBracketing
<1> QED BY <1>1, <1>2, <1>3, <1>4, <1>5, <1>6, <1>7, <1>8, <1>9 DEF Translate

\* Numbering the events at the end changes no bracket.
LEMMA FinishBracketing ==
  ASSUME Bracketing, TranslateFinish
  PROVE  Bracketing'
<1>1. CASE BridgeFail("EventOutsideTransaction")
  BY <1>1, BracketingKept DEF BridgeFail
<1>2. CASE /\ final_output' = [i \in 1..Len(final_output) |->
                                 [final_output[i] EXCEPT !.sequence_number = i - 1]]
           /\ UNCHANGED <<tx_open, tx_output, frame_stack, bridgeContext>>
  <2> DEFINE n == Len(final_output)
  <2>1. n \in Nat /\ \A i \in 1..n : final_output[i] \in CseEvent
    BY DEF Bracketing
  <2>2. \A i \in 1..n : /\ final_output'[i] \in CseEvent
                        /\ final_output'[i].payload = final_output[i].payload
                        /\ final_output'[i].transaction_hash = final_output[i].transaction_hash
    <3> TAKE i \in 1..n
    <3>1. final_output'[i] = [final_output[i] EXCEPT !.sequence_number = i - 1]
      BY <1>2
    <3>2. i - 1 \in Nat /\ final_output[i] \in CseEvent
      BY <2>1
    <3> HIDE DEF n
    <3> QED BY <3>1, <3>2 DEF CseEvent
  <2>3. final_output' \in [1..n -> CseEvent]
    BY <1>2, <2>2
  <2> HIDE DEF n
  <2>4. final_output' \in Seq(CseEvent) /\ Len(final_output') = n
    BY <2>1, <2>3
  <2>5. Brackets(final_output')
    <3>1. Brackets(final_output) /\ (final_output' # << >> => n > 0) /\ n = Len(final_output)
          /\ (n > 0 => final_output # << >>)
      BY <2>1, <2>4 DEF Bracketing, n
    <3>2. \A i \in 1..n - 1 : i \in 1..n /\ i + 1 \in 1..n
      BY <2>1
    <3>3. n > 0 => 1 \in 1..n /\ n \in 1..n
      BY <2>1
    <3> DEFINE r == final_output'
    <3>4. \A i \in 1..n : /\ r[i].payload = final_output[i].payload
                          /\ r[i].transaction_hash = final_output[i].transaction_hash
      BY <2>2
    <3>5. Len(r) = n /\ (r # << >> => n > 0)
      BY <2>4, <3>1
    <3> HIDE DEF r
    <3>6. r # << >> => /\ r[1].payload.type = "BeginTransaction"
                       /\ r[Len(r)].payload.type = "EndTransaction"
      BY <3>1, <3>3, <3>4, <3>5 DEF Brackets
    <3>7. \A j \in 1..Len(r) - 1 :
            /\ r[j].payload.type = "EndTransaction" <=> r[j+1].payload.type = "BeginTransaction"
            /\ r[j].payload.type # "EndTransaction" =>
                 r[j].transaction_hash = r[j+1].transaction_hash
      <4>1. \A j \in 1..n - 1 :
              /\ final_output[j].payload.type = "EndTransaction"
                   <=> final_output[j+1].payload.type = "BeginTransaction"
              /\ final_output[j].payload.type # "EndTransaction" =>
                   final_output[j].transaction_hash = final_output[j+1].transaction_hash
        BY <3>1 DEF Brackets
      <4> TAKE j \in 1..Len(r) - 1
      <4>2. j \in 1..n - 1 /\ j \in 1..n /\ j + 1 \in 1..n
        BY <3>2, <3>5
      <4> QED BY <3>4, <4>1, <4>2
    <3>8. Brackets(r)
      BY <3>6, <3>7 DEF Brackets
    <3> QED BY <3>8 DEF r
  <2> QED BY <1>2, <2>4, <2>5 DEF Bracketing, bridgeContext
<1> QED BY <1>1, <1>2 DEF TranslateFinish

LEMMA InitBracketing ==
  ASSUME BridgeInit
  PROVE  Bracketing
<1>1. << >> \in Seq(CseEvent) /\ << >> \in Seq(BufferOf(Nat, Nat)) /\ Len(<< >>) = 0
  OBVIOUS
<1>2. Brackets(<< >>)
  BY DEF Brackets
<1>3. \A j \in 1..Len(<< >>) : FALSE
  OBVIOUS
<1>4. /\ final_output = << >> /\ tx_output = << >> /\ frame_stack = << >> /\ tx_open = FALSE
      /\ block_number = 0 /\ tx_index = 0 /\ tx_hash = 0
  BY DEF BridgeInit
<1> QED BY <1>1, <1>2, <1>3, <1>4 DEF Bracketing

-----------------------------------------------------------------------------
(***************************************************************************)
(* Streams of canonical semantic events, of whatever set E of events.      *)
(***************************************************************************)

TxBoundary == {"BeginTransaction", "EndTransaction"}

-----------------------------------------------------------------------------
(***************************************************************************)
(* Counting boundaries.                                                    *)
(***************************************************************************)

LEMMA UntilNat ==
  ASSUME NEW E, NEW s \in Seq(E), NEW type, NEW j
  PROVE  IsFiniteSet({i \in Places(s, type) : i <= j}) /\ Until(s, type, j) \in Nat
<1>1. IsFiniteSet(1..Len(s))
  BY FS_Interval
<1>2. {i \in Places(s, type) : i <= j} \in SUBSET (1..Len(s))
  BY DEF Places
<1> QED BY <1>1, <1>2, FS_Subset, FS_CardinalityType DEF Until

\* What is counted up to an event stays so when events follow.
LEMMA UntilKept ==
  ASSUME NEW E, NEW s \in Seq(E), NEW e \in E, NEW type, NEW j \in 0..Len(s)
  PROVE  Until(Append(s, e), type, j) = Until(s, type, j)
<1> DEFINE t == Append(s, e)
           n == Len(s)
<1>1. /\ n \in Nat /\ DOMAIN s = 1..n /\ DOMAIN t = 1..n + 1
      /\ \A i \in 1..n : t[i] = s[i]
  OBVIOUS
<1>2. \A i : i \in 1..n + 1 /\ i <= j <=> i \in 1..n /\ i <= j
  BY <1>1
<1> HIDE DEF t, n
<1>3. {i \in Places(t, type) : i <= j} = {i \in Places(s, type) : i <= j}
  BY <1>1, <1>2 DEF Places
<1>4. Until(t, type, j) = Until(s, type, j)
  BY <1>3 DEF Until
<1> QED BY <1>4 DEF t

\* An event more counts where it is.
LEMMA UntilNext ==
  ASSUME NEW E, NEW s \in Seq(E), NEW e \in E, NEW type
  PROVE  Until(Append(s, e), type, Len(s) + 1) =
           Until(s, type, Len(s)) + IF e.payload.type = type THEN 1 ELSE 0
<1> DEFINE t == Append(s, e)
           n == Len(s)
           p == {i \in Places(s, type) : i <= n}
           q == {i \in Places(t, type) : i <= n + 1}
<1>1. /\ n \in Nat /\ n + 1 \in 1..n + 1 /\ t[n + 1] = e
      /\ DOMAIN s = 1..n /\ DOMAIN t = 1..n + 1
      /\ \A i \in 1..n : t[i] = s[i] /\ i \in 1..n + 1
      /\ \A i \in 1..n + 1 : i \in 1..n \/ i = n + 1
      /\ \A i \in 1..n : i <= n /\ i # n + 1
      /\ \A i \in 1..n + 1 : i <= n + 1
  OBVIOUS
<1>2. IsFiniteSet(p) /\ Cardinality(p) \in Nat
  BY UntilNat DEF Until
<1> HIDE DEF t, n
<1>3. /\ e.payload.type = type => q = p \cup {n + 1}
      /\ e.payload.type # type => q = p
      /\ n + 1 \notin p
  BY <1>1 DEF Places
<1>4. Until(t, type, n + 1) = Cardinality(q) /\ Until(s, type, n) = Cardinality(p)
  BY DEF Until
<1> HIDE DEF p, q
<1>5. Cardinality(p \cup {n + 1}) = Cardinality(p) + 1
  BY <1>2, <1>3, FS_AddElement
<1>6. CASE e.payload.type = type
  BY <1>2, <1>3, <1>4, <1>5, <1>6 DEF t, n
<1>7. CASE e.payload.type # type
  BY <1>2, <1>3, <1>4, <1>7 DEF t, n
<1> QED BY <1>6, <1>7

LEMMA UntilEmpty ==
  ASSUME NEW type
  PROVE  Until(<< >>, type, 0) = 0
<1>1. {i \in Places(<< >>, type) : i <= 0} = {}
  BY DEF Places
<1> QED BY <1>1, FS_EmptySet DEF Until

\* No two events of a type have the same number.
LEMMA NthUnique ==
  ASSUME NEW E, NEW s \in Seq(E), NEW type,
         NEW x \in Places(s, type), NEW y \in Places(s, type),
         Until(s, type, x) = Until(s, type, y)
  PROVE  x = y
<1>1. ASSUME NEW a \in Places(s, type), NEW b \in Places(s, type), a < b,
             Until(s, type, a) = Until(s, type, b)
      PROVE  FALSE
  <2> DEFINE A == {i \in Places(s, type) : i <= a}
             B == {i \in Places(s, type) : i <= b}
  <2>1. a \in Int /\ b \in Int /\ \A i \in Places(s, type) : i \in Int
    BY DEF Places
  <2>2. b \notin A /\ A \cup {b} \in SUBSET B
    <3>1. \A i \in A : i \in Places(s, type) /\ i <= a /\ i \in Int
      BY <2>1
    <3>2. \A i \in A : i <= b /\ i # b
      BY <1>1, <2>1, <3>1
    <3>3. b \in B
      BY <2>1
    <3> QED BY <3>1, <3>2, <3>3
  <2>3. /\ IsFiniteSet(A) /\ Cardinality(A) \in Nat
        /\ IsFiniteSet(B) /\ Cardinality(B) \in Nat
        /\ Cardinality(A) = Cardinality(B)
    BY <1>1, UntilNat DEF Until
  <2> HIDE DEF A, B
  <2>4. Cardinality(A \cup {b}) = Cardinality(A) + 1
    BY <2>2, <2>3, FS_AddElement
  <2>5. Cardinality(A \cup {b}) <= Cardinality(B)
    BY <2>2, <2>3, FS_Subset
  <2> QED BY <2>3, <2>4, <2>5
<1>2. x \in Int /\ y \in Int
  BY DEF Places
<1> QED BY <1>1, <1>2

LEMMA NthIs ==
  ASSUME NEW E, NEW s \in Seq(E), NEW type, NEW x \in Places(s, type)
  PROVE  Nth(s, type, Until(s, type, x)) = x
<1>1. \E j \in Places(s, type) : Until(s, type, j) = Until(s, type, x)
  OBVIOUS
<1> DEFINE y == Nth(s, type, Until(s, type, x))
<1>2. y \in Places(s, type) /\ Until(s, type, y) = Until(s, type, x)
  BY <1>1, Zenon DEF Nth
<1> QED BY <1>2, NthUnique

-----------------------------------------------------------------------------
(***************************************************************************)
(* A timeline lists the events of a stream that stand in certain places.   *)
(***************************************************************************)

IsSequence(h) == h \in Seq(Range(h))

\* The timeline h holds the transitions of the events of s in the places W, in
\* order.
Lists(h, s, W) ==
  /\ IsSequence(h)
  /\ \E place \in [1..Len(h) -> W] :
       /\ \A m, n \in 1..Len(h) : m < n => place[m] < place[n]
       /\ \A j \in W : \E n \in 1..Len(h) : place[n] = j
       /\ \A n \in 1..Len(h) : h[n] = Transition(s[place[n]])

LEMMA SequenceAppend ==
  ASSUME NEW h, IsSequence(h), NEW x
  PROVE  /\ IsSequence(Append(h, x)) /\ h \o <<x>> = Append(h, x)
         /\ Len(h) \in Nat /\ Len(Append(h, x)) = Len(h) + 1
         /\ \A n \in 1..Len(h) : Append(h, x)[n] = h[n]
         /\ Append(h, x)[Len(h) + 1] = x
<1> DEFINE S == Range(h) \cup {x}
<1>1. h \in Seq(S)
  <2>1. /\ Len(h) \in Nat /\ h = [n \in 1..Len(h) |-> h[n]]
        /\ \A n \in 1..Len(h) : h[n] \in Range(h)
    BY DEF IsSequence
  <2>2. h \in [1..Len(h) -> S]
    BY <2>1
  <2> QED BY <2>1, <2>2, SeqDef
<1> HIDE DEF S
<1>2. /\ Append(h, x) \in [1..Len(h) + 1 -> Range(Append(h, x))]
      /\ Len(Append(h, x)) = Len(h) + 1
  <2>1. x \in S
    BY DEF S
  <2>2. Append(h, x) \in Seq(S) /\ Len(Append(h, x)) = Len(h) + 1 /\ Len(h) \in Nat
    BY <1>1, <2>1
  <2>3. DOMAIN Append(h, x) = 1..Len(h) + 1
    BY <2>2
  <2>4. Append(h, x) \in [1..Len(h) + 1 -> S]
    BY <2>2, LenProperties
  <2>5. \A n \in 1..Len(h) + 1 : Append(h, x)[n] \in Range(Append(h, x))
    BY <2>3 DEF Range
  <2> QED BY <2>2, <2>4, <2>5
<1>3. x \in S
  BY DEF S
<1>4. /\ h \o <<x>> = Append(h, x)
      /\ Len(h) \in Nat
      /\ \A n \in 1..Len(h) : Append(h, x)[n] = h[n]
      /\ Append(h, x)[Len(h) + 1] = x
  BY <1>1, <1>3
<1>5. IsSequence(Append(h, x))
  <2>1. Len(h) + 1 \in Nat
    BY <1>4
  <2> QED BY <1>2, <2>1, SeqDef DEF IsSequence
<1> QED BY <1>2, <1>4, <1>5

\* The stream goes on with an event that the timeline does not list.
LEMMA ListsOther ==
  ASSUME NEW E, NEW s \in Seq(E), NEW e \in E, NEW h,
         NEW W \in SUBSET (1..Len(s)), Lists(h, s, W)
  PROVE  Lists(h, Append(s, e), W)
<1>1. \A j \in W : Append(s, e)[j] = s[j]
  OBVIOUS
<1>2. PICK place \in [1..Len(h) -> W] :
        /\ \A m, n \in 1..Len(h) : m < n => place[m] < place[n]
        /\ \A j \in W : \E n \in 1..Len(h) : place[n] = j
        /\ \A n \in 1..Len(h) : h[n] = Transition(s[place[n]])
  BY DEF Lists
<1>3. \A n \in 1..Len(h) : h[n] = Transition(Append(s, e)[place[n]])
  BY <1>1, <1>2
<1> QED BY <1>2, <1>3 DEF Lists

\* The stream goes on with an event that the timeline takes in.
LEMMA ListsNext ==
  ASSUME NEW E, NEW s \in Seq(E), NEW e \in E, NEW h,
         NEW W \in SUBSET (1..Len(s)), Lists(h, s, W)
  PROVE  Lists(Append(h, Transition(e)), Append(s, e), W \cup {Len(s) + 1})
<1> DEFINE g == Append(h, Transition(e))
           t == Append(s, e)
           V == W \cup {Len(s) + 1}
           L == Len(h)
<1>1. PICK place \in [1..L -> W] :
        /\ \A m, n \in 1..L : m < n => place[m] < place[n]
        /\ \A j \in W : \E n \in 1..L : place[n] = j
        /\ \A n \in 1..L : h[n] = Transition(s[place[n]])
  BY DEF Lists
<1>2. /\ IsSequence(g) /\ L \in Nat /\ Len(g) = L + 1
      /\ \A n \in 1..L : g[n] = h[n]
      /\ g[L + 1] = Transition(e)
  BY SequenceAppend DEF Lists
<1>3. Len(s) \in Nat /\ t[Len(s) + 1] = e /\ \A j \in W : t[j] = s[j] /\ j < Len(s) + 1
  <2>1. \A j \in W : j \in 1..Len(s)
    OBVIOUS
  <2> QED BY <2>1
<1> DEFINE further == [n \in 1..L + 1 |-> IF n = L + 1 THEN Len(s) + 1 ELSE place[n]]
<1> HIDE DEF L, g, t
<1>4. /\ further[L + 1] = Len(s) + 1
      /\ \A n \in 1..L : further[n] = place[n] /\ place[n] \in W
  BY <1>1, <1>2
<1>5. L + 1 \in 1..L + 1 /\ \A n \in 1..L + 1 : n \in 1..L \/ n = L + 1
  BY <1>2
<1>6. further \in [1..L + 1 -> V]
  BY <1>4, <1>5
<1> HIDE DEF further
<1>7. ASSUME NEW m \in 1..L + 1, NEW n \in 1..L + 1, m < n
      PROVE  further[m] < further[n]
  <2>1. m \in 1..L
    BY <1>2, <1>7
  <2>2. place[m] \in W /\ further[m] = place[m] /\ place[m] < Len(s) + 1
    BY <1>3, <1>4, <2>1
  <2>3. n \in 1..L => place[m] < place[n] /\ further[n] = place[n]
    BY <1>1, <1>4, <1>7, <2>1
  <2> QED BY <1>4, <1>5, <2>2, <2>3
<1>8. \A j \in V : \E n \in 1..L + 1 : further[n] = j
  <2>1. \A j \in W : \E n \in 1..L : further[n] = j
    BY <1>1, <1>4
  <2>2. \A n \in 1..L : n \in 1..L + 1
    BY <1>2
  <2> QED BY <1>4, <1>5, <2>1, <2>2
<1>9. ASSUME NEW n \in 1..L + 1
      PROVE  g[n] = Transition(t[further[n]])
  <2>1. CASE n \in 1..L
    <3>1. g[n] = Transition(s[place[n]]) /\ further[n] = place[n] /\ place[n] \in W
      BY <1>1, <1>2, <1>4, <2>1
    <3> QED BY <1>3, <3>1
  <2>2. CASE n = L + 1
    BY <1>2, <1>3, <1>4, <2>2
  <2> QED BY <1>5, <2>1, <2>2
<1>10. IsSequence(g) /\ Len(g) = L + 1
  BY <1>2
<1> HIDE DEF V
<1>11. /\ \A m, n \in 1..L + 1 : m < n => further[m] < further[n]
       /\ \A n \in 1..L + 1 : g[n] = Transition(t[further[n]])
  BY <1>7, <1>9
<1>12. further \in [1..Len(g) -> V]
  BY <1>6, <1>10
<1>13. /\ \A m, n \in 1..Len(g) : m < n => further[m] < further[n]
       /\ \A j \in V : \E n \in 1..Len(g) : further[n] = j
       /\ \A n \in 1..Len(g) : g[n] = Transition(t[further[n]])
  BY <1>8, <1>10, <1>11
<1>14. Lists(g, t, V)
  BY <1>10, <1>12, <1>13, Zenon DEF Lists
<1> QED BY <1>14 DEF g, t, V

LEMMA ListsNone ==
  ASSUME NEW s
  PROVE  Lists(<< >>, s, {})
<1>1. IsSequence(<< >>) /\ Len(<< >>) = 0
  BY EmptySeq DEF IsSequence
<1>2. [n \in 1..0 |-> n] \in [1..0 -> {}]
  OBVIOUS
<1>3. 1..Len(<< >>) = 1..0 /\ \A n : n \notin 1..0
  BY <1>1
<1> QED BY <1>1, <1>2, <1>3 DEF Lists

\* Neighbours of the timeline are neighbours among the places.
Adjacent(W, i, j) == i \in W /\ j \in W /\ i < j /\ \A m \in W : ~(i < m /\ m < j)

\* What the timeline says of the events in the places W: which are neighbours, which
\* are first and last, and their numbers.
TimelineSays(h, s, W) ==
  /\ Len(h) \in Nat /\ (W # {} <=> Len(h) > 0)
  /\ \A i, j \in W : Adjacent(W, i, j) =>
       \E n \in 2..Len(h) : h[n-1] = Transition(s[i]) /\ h[n] = Transition(s[j])
  /\ \A n \in 2..Len(h) : \E i, j \in W :
       Adjacent(W, i, j) /\ h[n-1] = Transition(s[i]) /\ h[n] = Transition(s[j])
  /\ \A j \in W : (\A m \in W : m >= j) => h[1] = Transition(s[j])
  /\ \A j \in W : (\A m \in W : m <= j) => h[Len(h)] = Transition(s[j])
  /\ \A n \in 1..Len(h) : \E j \in W : h[n].event_id = s[j].sequence_number
  /\ \A j \in W : \E n \in 1..Len(h) : h[n].event_id = s[j].sequence_number

LEMMA ListsSay ==
  ASSUME NEW s, NEW h, NEW W \in SUBSET Nat, Lists(h, s, W)
  PROVE  TimelineSays(h, s, W)
<1> DEFINE L == Len(h)
<1>1. L \in Nat
  BY LenProperties DEF Lists, IsSequence
<1>2. PICK place \in [1..L -> W] :
        /\ \A m, n \in 1..L : m < n => place[m] < place[n]
        /\ \A j \in W : \E n \in 1..L : place[n] = j
        /\ \A n \in 1..L : h[n] = Transition(s[place[n]])
  BY DEF Lists
<1> HIDE DEF L
<1>3. \A n \in 1..L : place[n] \in W /\ place[n] \in Nat
  BY <1>2
<1>4. ASSUME NEW m \in 1..L, NEW n \in 1..L, place[m] < place[n]
      PROVE  m < n
  <2>1. CASE n < m
    BY <1>2, <1>3, <1>4, <2>1
  <2>2. CASE n = m
    BY <1>3, <1>4, <2>2
  <2> QED BY <1>1, <2>1, <2>2
<1>5. W # {} <=> L > 0
  <2>1. ASSUME NEW j \in W PROVE L > 0
    <3>1. PICK n \in 1..L : place[n] = j
      BY <1>2
    <3> QED BY <1>1
  <2>2. ASSUME L > 0 PROVE W # {}
    <3>1. 1 \in 1..L
      BY <1>1, <2>2
    <3> QED BY <1>3, <3>1
  <2> QED BY <2>1, <2>2
<1>6. ASSUME NEW i \in W, NEW j \in W, Adjacent(W, i, j)
      PROVE  \E n \in 2..L : h[n-1] = Transition(s[i]) /\ h[n] = Transition(s[j])
  <2>1. PICK m \in 1..L, n \in 1..L : place[m] = i /\ place[n] = j
    BY <1>2
  <2>2. m < n
    BY <1>4, <1>6, <2>1 DEF Adjacent
  <2>3. m + 1 \in 1..L
    BY <1>1, <2>2
  <2>4. m + 1 = n
    <3>1. SUFFICES ASSUME m + 1 < n PROVE FALSE
      BY <1>1, <2>2
    <3>2. i < place[m + 1] /\ place[m + 1] < j
      BY <1>1, <1>2, <2>1, <2>3, <3>1
    <3> QED BY <1>3, <1>6, <2>3, <3>2 DEF Adjacent
  <2>5. n \in 2..L /\ n - 1 = m
    BY <1>1, <2>4
  <2> QED BY <1>2, <2>1, <2>5
<1>7. ASSUME NEW n \in 2..L
      PROVE  \E i, j \in W :
               Adjacent(W, i, j) /\ h[n-1] = Transition(s[i]) /\ h[n] = Transition(s[j])
  <2>1. n \in 1..L /\ n - 1 \in 1..L /\ n - 1 < n
    BY <1>1
  <2>2. place[n-1] \in W /\ place[n] \in W /\ place[n-1] < place[n]
    BY <1>2, <1>3, <2>1
  <2>3. ASSUME NEW m \in W, place[n-1] < m, m < place[n]
        PROVE  FALSE
    <3>1. PICK l \in 1..L : place[l] = m
      BY <1>2
    <3>2. n - 1 < l /\ l < n
      BY <1>4, <2>1, <2>3, <3>1
    <3> QED BY <1>1, <3>2
  <2>4. Adjacent(W, place[n-1], place[n])
    BY <2>2, <2>3 DEF Adjacent
  <2> QED BY <1>2, <2>1, <2>2, <2>4
<1>8. ASSUME NEW j \in W, \A m \in W : m >= j
      PROVE  h[1] = Transition(s[j])
  <2>1. PICK n \in 1..L : place[n] = j
    BY <1>2
  <2>2. 1 \in 1..L /\ (1 < n \/ n = 1)
    BY <1>1
  <2>3. ~(1 < n)
    BY <1>2, <1>3, <1>8, <2>1, <2>2
  <2> QED BY <1>2, <2>1, <2>2, <2>3
<1>9. ASSUME NEW j \in W, \A m \in W : m <= j
      PROVE  h[L] = Transition(s[j])
  <2>1. PICK n \in 1..L : place[n] = j
    BY <1>2
  <2>2. L \in 1..L /\ (n < L \/ n = L)
    BY <1>1
  <2>3. ~(n < L)
    BY <1>2, <1>3, <1>9, <2>1, <2>2
  <2> QED BY <1>2, <2>1, <2>2, <2>3
<1>10. /\ \A n \in 1..L : \E j \in W : h[n].event_id = s[j].sequence_number
       /\ \A j \in W : \E n \in 1..L : h[n].event_id = s[j].sequence_number
  <2>1. \A x : Transition(x).event_id = x.sequence_number
    BY DEF Transition
  <2>2. \A n \in 1..L : place[n] \in W /\ h[n].event_id = s[place[n]].sequence_number
    BY <1>2, <1>3, <2>1
  <2>3. \A j \in W : \E n \in 1..L : h[n].event_id = s[j].sequence_number
    BY <1>2, <2>2
  <2> QED BY <2>2, <2>3
<1> QED BY <1>1, <1>5, <1>6, <1>7, <1>8, <1>9, <1>10 DEF L, TimelineSays

-----------------------------------------------------------------------------
(***************************************************************************)
(* What a bucket holds: the events of a stretch of the stream.             *)
(***************************************************************************)

\* The events after place x up to place y that write k, and the gas refunds.
WritesIn(s, k, x, y) == {j \in x+1..y : Writes(s, j, k)}
RefundsIn(s, x, y) == {j \in x+1..y : s[j].payload.type = "GasRefundChanged"}

LifecycleType == {"ContractCreated", "ContractDestroyed"}
LifecycleIn(s, x, y) == {j \in x+1..y : s[j].payload.type \in LifecycleType}

\* The ids that a lifecycle table holds, and that it holds those of the events
\* of s in the places W.
LifecycleIds(table) ==
  UNION {{table[a][i].event_id : i \in DOMAIN table[a]} : a \in DOMAIN table}

Observes(table, s, W) ==
  /\ \A a \in DOMAIN table : IsSequence(table[a])
  /\ LifecycleIds(table) = {s[j].sequence_number : j \in W}

\* The places in W of the events about address a.
About(s, W, a) == {j \in W : s[j].payload.address = a}

\* The history h holds the observations of the events of s in the places W, in order.
Records(h, s, W) ==
  \E m \in Nat : \E place \in [1..m -> W] :
    /\ h = [i \in 1..m |-> ObservedLifecycle(s[place[i]])]
    /\ \A i, j \in 1..m : i < j => place[i] < place[j]
    /\ \A x \in W : \E i \in 1..m : place[i] = x

\* The lifecycle table holds one such history for each address.
Keeps(table, s, W) ==
  /\ DOMAIN table = {s[j].payload.address : j \in W}
  /\ \A a \in DOMAIN table : Records(table[a], s, About(s, W, a))

Holds(b, s, x, y) ==
  /\ DOMAIN b.state_tables = {k \in Key : WritesIn(s, k, x, y) # {}}
  /\ \A k \in DOMAIN b.state_tables : Lists(b.state_tables[k], s, WritesIn(s, k, x, y))
  /\ Lists(b.gas_refund_timeline, s, RefundsIn(s, x, y))
  /\ Keeps(b.lifecycle_table, s, LifecycleIn(s, x, y))

\* The stretch stays what it is when the stream goes on.
LEMMA StretchKept ==
  ASSUME NEW E, NEW s \in Seq(E), NEW e \in E, NEW x \in Nat, NEW y \in 0..Len(s)
  PROVE  /\ \A k : /\ WritesIn(Append(s, e), k, x, y) = WritesIn(s, k, x, y)
                   /\ WritesIn(s, k, x, y) \in SUBSET (1..Len(s))
         /\ RefundsIn(Append(s, e), x, y) = RefundsIn(s, x, y)
         /\ RefundsIn(s, x, y) \in SUBSET (1..Len(s))
         /\ LifecycleIn(Append(s, e), x, y) = LifecycleIn(s, x, y)
         /\ LifecycleIn(s, x, y) \in SUBSET (1..Len(s))
<1>1. \A j \in x+1..y : Append(s, e)[j] = s[j] /\ j \in 1..Len(s)
  OBVIOUS
<1>2. ASSUME NEW k
      PROVE  /\ WritesIn(Append(s, e), k, x, y) = WritesIn(s, k, x, y)
             /\ WritesIn(s, k, x, y) \in SUBSET (1..Len(s))
  BY <1>1 DEF WritesIn, Writes
<1>3. /\ RefundsIn(Append(s, e), x, y) = RefundsIn(s, x, y)
      /\ RefundsIn(s, x, y) \in SUBSET (1..Len(s))
  BY <1>1 DEF RefundsIn
<1>4. /\ LifecycleIn(Append(s, e), x, y) = LifecycleIn(s, x, y)
      /\ LifecycleIn(s, x, y) \in SUBSET (1..Len(s))
  BY <1>1 DEF LifecycleIn
<1> QED BY <1>2, <1>3, <1>4

\* An event more, and the stretch grows by it.
LEMMA StretchNext ==
  ASSUME NEW E, NEW s \in Seq(E), NEW e \in E, NEW x \in 0..Len(s)
  PROVE  /\ \A k : WritesIn(Append(s, e), k, x, Len(s) + 1) =
                     IF e.payload.type = "StateChanged" /\ e.payload.key = k
                     THEN WritesIn(s, k, x, Len(s)) \cup {Len(s) + 1}
                     ELSE WritesIn(s, k, x, Len(s))
         /\ RefundsIn(Append(s, e), x, Len(s) + 1) =
              IF e.payload.type = "GasRefundChanged"
              THEN RefundsIn(s, x, Len(s)) \cup {Len(s) + 1}
              ELSE RefundsIn(s, x, Len(s))
         /\ LifecycleIn(Append(s, e), x, Len(s) + 1) =
              IF e.payload.type \in LifecycleType
              THEN LifecycleIn(s, x, Len(s)) \cup {Len(s) + 1}
              ELSE LifecycleIn(s, x, Len(s))
<1> DEFINE n == Len(s)
           t == Append(s, e)
<1>1. n \in Nat /\ x \in Nat /\ x <= n /\ t[n + 1] = e /\ \A j \in x+1..n : t[j] = s[j]
  OBVIOUS
<1> HIDE DEF n, t
<1>2. n + 1 \in x+1..n+1 /\ \A j : j \in x+1..n+1 <=> j \in x+1..n \/ j = n + 1
  BY <1>1
<1>3. ASSUME NEW k
      PROVE  WritesIn(t, k, x, n + 1) =
               IF e.payload.type = "StateChanged" /\ e.payload.key = k
               THEN WritesIn(s, k, x, n) \cup {n + 1} ELSE WritesIn(s, k, x, n)
  BY <1>1, <1>2 DEF WritesIn, Writes
<1>4. RefundsIn(t, x, n + 1) =
        IF e.payload.type = "GasRefundChanged" THEN RefundsIn(s, x, n) \cup {n + 1}
        ELSE RefundsIn(s, x, n)
  BY <1>1, <1>2 DEF RefundsIn
<1>5. LifecycleIn(t, x, n + 1) =
        IF e.payload.type \in LifecycleType THEN LifecycleIn(s, x, n) \cup {n + 1}
        ELSE LifecycleIn(s, x, n)
  BY <1>1, <1>2 DEF LifecycleIn
<1> QED BY <1>3, <1>4, <1>5 DEF n, t

\* The lifecycle table takes in an observation, or goes without it.
LEMMA RecordsOther ==
  ASSUME NEW s, NEW t, NEW W, \A j \in W : t[j] = s[j], NEW h, Records(h, s, W)
  PROVE  Records(h, t, W)
<1>1. PICK m \in Nat : \E place \in [1..m -> W] :
        /\ h = [i \in 1..m |-> ObservedLifecycle(s[place[i]])]
        /\ \A i, j \in 1..m : i < j => place[i] < place[j]
        /\ \A x \in W : \E i \in 1..m : place[i] = x
  BY DEF Records
<1>2. PICK place \in [1..m -> W] :
        /\ h = [i \in 1..m |-> ObservedLifecycle(s[place[i]])]
        /\ \A i, j \in 1..m : i < j => place[i] < place[j]
        /\ \A x \in W : \E i \in 1..m : place[i] = x
  BY <1>1
<1>3. h = [i \in 1..m |-> ObservedLifecycle(t[place[i]])]
  BY <1>2
<1> QED BY <1>2, <1>3 DEF Records

LEMMA RecordsNext ==
  ASSUME NEW s, NEW t, NEW n \in Nat, NEW W \in SUBSET (1..n), \A j \in W : t[j] = s[j],
         NEW h, Records(h, s, W)
  PROVE  Records(Append(h, ObservedLifecycle(t[n + 1])), t, W \cup {n + 1})
<1> DEFINE o == ObservedLifecycle(t[n + 1])
           V == W \cup {n + 1}
<1>1. PICK m \in Nat : \E place \in [1..m -> W] :
        /\ h = [i \in 1..m |-> ObservedLifecycle(s[place[i]])]
        /\ \A i, j \in 1..m : i < j => place[i] < place[j]
        /\ \A x \in W : \E i \in 1..m : place[i] = x
  BY DEF Records
<1>2. PICK place \in [1..m -> W] :
        /\ h = [i \in 1..m |-> ObservedLifecycle(s[place[i]])]
        /\ \A i, j \in 1..m : i < j => place[i] < place[j]
        /\ \A x \in W : \E i \in 1..m : place[i] = x
  BY <1>1
<1> DEFINE further == [i \in 1..m + 1 |-> IF i = m + 1 THEN n + 1 ELSE place[i]]
           g == [i \in 1..m + 1 |-> ObservedLifecycle(t[further[i]])]
           E == {ObservedLifecycle(t[j]) : j \in V}
<1>3. /\ \A i \in 1..m : i \in 1..m + 1 /\ i # m + 1 /\ place[i] \in W /\ place[i] \in 1..n
      /\ m + 1 \in 1..m + 1
      /\ \A i \in 1..m + 1 : i \in 1..m \/ i = m + 1
  <2>1. /\ \A i \in 1..m : i \in 1..m + 1 /\ i # m + 1
        /\ m + 1 \in 1..m + 1
        /\ \A i \in 1..m + 1 : i \in 1..m \/ i = m + 1
    BY <1>1
  <2>2. \A i \in 1..m : place[i] \in W
    BY <1>2
  <2>3. \A j \in W : j \in 1..n
    OBVIOUS
  <2> QED BY <2>1, <2>2, <2>3
<1>4. /\ further \in [1..m + 1 -> V] /\ further[m + 1] = n + 1
      /\ \A i \in 1..m : further[i] = place[i]
  BY <1>3
<1> HIDE DEF further
<1>5. \A i, j \in 1..m + 1 : i < j => further[i] < further[j]
  <2> SUFFICES ASSUME NEW i \in 1..m + 1, NEW j \in 1..m + 1, i < j
               PROVE  further[i] < further[j]
    OBVIOUS
  <2>1. i \in 1..m
    BY <1>1
  <2>2. CASE j \in 1..m
    BY <1>2, <1>4, <2>1, <2>2
  <2>3. CASE j = m + 1
    <3>1. further[i] \in 1..n /\ further[j] = n + 1
      BY <1>3, <1>4, <2>1, <2>3
    <3> QED BY <3>1
  <2> QED BY <1>3, <2>2, <2>3
<1>6. \A x \in V : \E i \in 1..m + 1 : further[i] = x
  <2> SUFFICES ASSUME NEW x \in V PROVE \E i \in 1..m + 1 : further[i] = x
    OBVIOUS
  <2>1. CASE x \in W
    <3>1. PICK i \in 1..m : place[i] = x
      BY <1>2, <2>1
    <3> QED BY <1>3, <1>4, <3>1
  <2>2. CASE x = n + 1
    BY <1>3, <1>4, <2>2
  <2> QED BY <2>1, <2>2
<1>7. h \in Seq(E) /\ Len(h) = m /\ o \in E
  <2>1. \A i \in 1..m : ObservedLifecycle(s[place[i]]) \in E
    BY <1>3
  <2>2. o \in E
    BY DEF E
  <2> HIDE DEF E, o
  <2>3. h \in [1..m -> E]
    BY <1>2, <2>1
  <2> QED BY <1>1, <2>2, <2>3, SeqDef, LenProperties
<1>8. Append(h, o) = g
  <2>1. /\ Append(h, o) \in Seq(E) /\ Len(Append(h, o)) = m + 1
        /\ \A i \in 1..m : Append(h, o)[i] = h[i]
        /\ Append(h, o)[m + 1] = o
    BY <1>1, <1>7
  <2>2. DOMAIN Append(h, o) = 1..m + 1 /\ Append(h, o) = [i \in 1..m + 1 |-> Append(h, o)[i]]
    BY <2>1, LenProperties
  <2>3. \A i \in 1..m + 1 : Append(h, o)[i] = ObservedLifecycle(t[further[i]])
    BY <1>2, <1>3, <1>4, <2>1
  <2> HIDE DEF o
  <2> QED BY <2>2, <2>3
<1> HIDE DEF o, V
<1>9. Records(Append(h, o), t, V)
  <2>1. m + 1 \in Nat
    BY <1>1
  <2> QED BY <1>4, <1>5, <1>6, <1>8, <2>1 DEF Records
<1> QED BY <1>9 DEF o, V

LEMMA RecordsNone ==
  ASSUME NEW s
  PROVE  Records(<< >>, s, {})
<1> DEFINE place == [i \in 1..0 |-> i]
<1>1. place \in [1..0 -> {}] /\ << >> = [i \in 1..0 |-> ObservedLifecycle(s[place[i]])]
  OBVIOUS
<1> HIDE DEF place
<1>2. 0 \in Nat /\ \A i \in 1..0 : FALSE
  OBVIOUS
<1> QED BY <1>1, <1>2 DEF Records

LEMMA KeepsOther ==
  ASSUME NEW E, NEW s \in Seq(E), NEW e \in E, NEW table,
         NEW W \in SUBSET (1..Len(s)), Keeps(table, s, W)
  PROVE  Keeps(table, Append(s, e), W)
<1> DEFINE t == Append(s, e)
<1>1. \A j \in W : t[j] = s[j]
  OBVIOUS
<1> HIDE DEF t
<1>2. {t[j].payload.address : j \in W} = {s[j].payload.address : j \in W}
  BY <1>1
<1>3. ASSUME NEW a \in DOMAIN table
      PROVE  Records(table[a], t, About(t, W, a))
  <2>1. About(t, W, a) = About(s, W, a) /\ \A j \in About(s, W, a) : t[j] = s[j]
    BY <1>1 DEF About
  <2>2. Records(table[a], s, About(s, W, a))
    BY DEF Keeps
  <2> QED BY <2>1, <2>2, RecordsOther
<1>4. Keeps(table, t, W)
  BY <1>2, <1>3 DEF Keeps
<1> QED BY <1>4 DEF t

LEMMA KeepsNext ==
  ASSUME NEW E, NEW s \in Seq(E), NEW e \in E, NEW table,
         NEW W \in SUBSET (1..Len(s)), Keeps(table, s, W)
  PROVE  Keeps(Push(table, e.payload.address, ObservedLifecycle(e)), Append(s, e),
               W \cup {Len(s) + 1})
<1> DEFINE a == e.payload.address
           o == ObservedLifecycle(e)
           u == Push(table, a, o)
           t == Append(s, e)
           n == Len(s)
           h == IF a \in DOMAIN table THEN table[a] ELSE << >>
           V == W \cup {n + 1}
<1>1. n \in Nat /\ t[n + 1] = e /\ \A j \in W : t[j] = s[j]
  OBVIOUS
<1>2. /\ DOMAIN u = DOMAIN table \cup {a} /\ u[a] = Append(h, o)
      /\ \A y \in DOMAIN table : y # a => u[y] = table[y]
  BY DEF Push
<1>3. Records(h, s, About(s, W, a))
  <2>1. CASE a \in DOMAIN table
    BY <2>1 DEF Keeps
  <2>2. CASE a \notin DOMAIN table
    <3>1. About(s, W, a) = {}
      BY <2>2 DEF Keeps, About
    <3> QED BY <2>2, <3>1, RecordsNone
  <2> QED BY <2>1, <2>2
<1>4. W \in SUBSET (1..n)
  OBVIOUS
<1>5. o = ObservedLifecycle(t[n + 1]) /\ t[n + 1].payload.address = a
  BY <1>1
<1> HIDE DEF h, o, t, n, u, a
<1>6. Records(Append(h, o), t, About(t, V, a))
  <2>1. About(t, V, a) = About(s, W, a) \cup {n + 1}
    BY <1>1, <1>5 DEF About
  <2>2. About(s, W, a) \in SUBSET (1..n) /\ \A j \in About(s, W, a) : t[j] = s[j]
    BY <1>1, <1>4 DEF About
  <2>3. Records(Append(h, ObservedLifecycle(t[n + 1])), t, About(s, W, a) \cup {n + 1})
    BY <1>1, <1>3, <2>2, RecordsNext
  <2> QED BY <1>5, <2>1, <2>3
<1>7. ASSUME NEW y \in DOMAIN table, y # a
      PROVE  Records(table[y], t, About(t, V, y))
  <2>1. About(t, V, y) = About(s, W, y) /\ \A j \in About(s, W, y) : t[j] = s[j]
    BY <1>1, <1>5, <1>7 DEF About
  <2>2. Records(table[y], s, About(s, W, y))
    BY DEF Keeps
  <2> QED BY <2>1, <2>2, RecordsOther
<1>8. DOMAIN u = {t[j].payload.address : j \in V}
  <2>1. DOMAIN table = {t[j].payload.address : j \in W}
    BY <1>1 DEF Keeps
  <2> QED BY <1>2, <1>5, <2>1
<1> HIDE DEF V
<1>9. Keeps(u, t, V)
  BY <1>2, <1>6, <1>7, <1>8 DEF Keeps
<1> QED BY <1>9 DEF u, t, n, V, o, a

LEMMA HoldsNone ==
  ASSUME NEW s, NEW e, NEW x \in Nat
  PROVE  Holds(EmptyBucket(e), s, x, x)
<1>1. \A j : j \notin x+1..x
  OBVIOUS
<1>2. RefundsIn(s, x, x) = {} /\ \A k : WritesIn(s, k, x, x) = {}
  BY <1>1 DEF RefundsIn, WritesIn
<1>3. /\ EmptyBucket(e).state_tables = << >> /\ EmptyBucket(e).gas_refund_timeline = << >>
      /\ EmptyBucket(e).lifecycle_table = << >>
  BY DEF EmptyBucket
<1>4. DOMAIN << >> = {}
  OBVIOUS
<1>5. Keeps(<< >>, s, LifecycleIn(s, x, x))
  <2>1. LifecycleIn(s, x, x) = {}
    BY <1>1 DEF LifecycleIn
  <2> QED BY <1>4, <2>1 DEF Keeps
<1> QED BY <1>2, <1>3, <1>4, <1>5, ListsNone DEF Holds

\* A bucket that is closed stays as it is.
LEMMA HoldsKept ==
  ASSUME NEW E, NEW s \in Seq(E), NEW e \in E, NEW b, NEW x \in Nat,
         NEW y \in 0..Len(s), Holds(b, s, x, y)
  PROVE  Holds(b, Append(s, e), x, y)
<1>1. Lists(b.gas_refund_timeline, Append(s, e), RefundsIn(Append(s, e), x, y))
  BY StretchKept, ListsOther DEF Holds
<1>2. ASSUME NEW k \in DOMAIN b.state_tables
      PROVE  Lists(b.state_tables[k], Append(s, e), WritesIn(Append(s, e), k, x, y))
  BY StretchKept, ListsOther DEF Holds
<1>3. DOMAIN b.state_tables = {k \in Key : WritesIn(Append(s, e), k, x, y) # {}}
  BY StretchKept DEF Holds
<1>4. Keeps(b.lifecycle_table, Append(s, e), LifecycleIn(Append(s, e), x, y))
  BY StretchKept, KeepsOther DEF Holds
<1> QED BY <1>1, <1>2, <1>3, <1>4 DEF Holds

\* An open bucket takes in the event that is filed.
LEMMA KeepsFiled ==
  ASSUME NEW E, NEW s \in Seq(E), NEW e \in E, NEW b, NEW x \in 0..Len(s),
         Keeps(b.lifecycle_table, s, LifecycleIn(s, x, Len(s)))
  PROVE  Keeps(File(b, e).lifecycle_table, Append(s, e),
               LifecycleIn(Append(s, e), x, Len(s) + 1))
<1> DEFINE n == Len(s)
           t == Append(s, e)
           c == File(b, e)
           W == LifecycleIn(s, x, n)
<1>1. n \in 0..n /\ x \in Nat
  OBVIOUS
<1>2. W \in SUBSET (1..Len(s)) /\ Keeps(b.lifecycle_table, s, W)
  BY <1>1, StretchKept
<1>3. LifecycleIn(t, x, n + 1) = IF e.payload.type \in LifecycleType THEN W \cup {n + 1} ELSE W
  BY StretchNext
<1> HIDE DEF W
<1>4. CASE e.payload.type \in LifecycleType
  <2>1. c.lifecycle_table = Push(b.lifecycle_table, e.payload.address, ObservedLifecycle(e))
    BY <1>4 DEF File, LifecycleType
  <2>2. Keeps(Push(b.lifecycle_table, e.payload.address, ObservedLifecycle(e)), t,
              W \cup {Len(s) + 1})
    BY <1>2, KeepsNext
  <2> QED BY <1>3, <1>4, <2>1, <2>2
<1>5. CASE e.payload.type \notin LifecycleType
  <2>1. c.lifecycle_table = b.lifecycle_table
    BY <1>5 DEF File, LifecycleType
  <2> QED BY <1>2, <1>3, <1>5, <2>1, KeepsOther
<1> QED BY <1>4, <1>5

LEMMA HoldsNext ==
  ASSUME NEW E, NEW s \in Seq(E), NEW e \in E, NEW b, NEW x \in 0..Len(s),
         e.payload.type = "StateChanged" => e.payload.key \in Key,
         Holds(b, s, x, Len(s))
  PROVE  Holds(File(b, e), Append(s, e), x, Len(s) + 1)
<1> DEFINE n == Len(s)
           t == Append(s, e)
           c == File(b, e)
           old(k) == WritesIn(s, k, x, n)
           new(k) == WritesIn(t, k, x, n + 1)
<1>1. n \in 0..n /\ x \in Nat
  OBVIOUS
<1>0. \A k : /\ old(k) \in SUBSET (1..n)
             /\ new(k) = IF e.payload.type = "StateChanged" /\ e.payload.key = k
                         THEN old(k) \cup {n + 1} ELSE old(k)
  <2>1. \A k : old(k) \in SUBSET (1..n)
    BY <1>1, StretchKept, Zenon
  <2>2. \A k : new(k) = IF e.payload.type = "StateChanged" /\ e.payload.key = k
                        THEN old(k) \cup {n + 1} ELSE old(k)
    BY StretchNext, Zenon
  <2> QED BY <2>1, <2>2
<1>2. Lists(c.gas_refund_timeline, t, RefundsIn(t, x, n + 1))
  <2>1. /\ RefundsIn(s, x, n) \in SUBSET (1..n)
        /\ Lists(b.gas_refund_timeline, s, RefundsIn(s, x, n))
    BY <1>1, StretchKept DEF Holds
  <2>2. CASE e.payload.type = "GasRefundChanged"
    <3>1. c.gas_refund_timeline = Append(b.gas_refund_timeline, Transition(e))
      BY <2>2 DEF File
    <3>2. RefundsIn(t, x, n + 1) = RefundsIn(s, x, n) \cup {n + 1}
      BY <2>2, StretchNext
    <3> QED BY <2>1, <3>1, <3>2, ListsNext
  <2>3. CASE e.payload.type # "GasRefundChanged"
    <3>1. c.gas_refund_timeline = b.gas_refund_timeline
      BY <2>3 DEF File
    <3>2. RefundsIn(t, x, n + 1) = RefundsIn(s, x, n)
      BY <2>3, StretchNext
    <3> QED BY <2>1, <3>1, <3>2, ListsOther
  <2> QED BY <2>2, <2>3
<1>3. ASSUME e.payload.type # "StateChanged"
      PROVE  /\ DOMAIN c.state_tables = {k \in Key : new(k) # {}}
             /\ \A k \in DOMAIN c.state_tables : Lists(c.state_tables[k], t, new(k))
  <2>1. c.state_tables = b.state_tables
    BY <1>3 DEF File
  <2>2. \A k : new(k) = old(k) /\ old(k) \in SUBSET (1..n)
    BY <1>0, <1>3
  <2> QED BY <2>1, <2>2, ListsOther DEF Holds
<1>4. ASSUME e.payload.type = "StateChanged"
      PROVE  /\ DOMAIN c.state_tables = {k \in Key : new(k) # {}}
             /\ \A k \in DOMAIN c.state_tables : Lists(c.state_tables[k], t, new(k))
  <2> DEFINE key == e.payload.key
             T == b.state_tables
             h == IF key \in DOMAIN T THEN T[key] ELSE << >>
  <2>1. key \in Key
    BY <1>4
  <2>2. c.state_tables = [k \in DOMAIN T \cup {key} |->
                            IF k # key THEN T[k] ELSE Append(h, Transition(e))]
    BY <1>4 DEF File, Push
  <2>3. \A k : /\ old(k) \in SUBSET (1..n)
               /\ new(k) = IF k = key THEN old(k) \cup {n + 1} ELSE old(k)
    BY <1>0, <1>4
  <2>4. /\ DOMAIN T = {k \in Key : old(k) # {}}
        /\ \A k \in DOMAIN T : Lists(T[k], s, old(k))
    BY DEF Holds
  <2>5. Lists(h, s, old(key))
    BY <2>1, <2>4, ListsNone
  <2> HIDE DEF h, T, key, old, new
  <2>6. Lists(Append(h, Transition(e)), t, old(key) \cup {n + 1})
    BY <2>3, <2>5, ListsNext
  <2>7. ASSUME NEW k \in DOMAIN T
        PROVE  Lists(T[k], t, old(k))
    BY <2>3, <2>4, ListsOther
  <2>8. DOMAIN c.state_tables = {k \in Key : new(k) # {}}
    BY <2>1, <2>2, <2>3, <2>4
  <2>9. ASSUME NEW k \in DOMAIN c.state_tables
        PROVE  Lists(c.state_tables[k], t, new(k))
    BY <2>2, <2>3, <2>6, <2>7
  <2> QED BY <2>8, <2>9 DEF new
<1>5. Keeps(c.lifecycle_table, t, LifecycleIn(t, x, n + 1))
  <2>1. Keeps(b.lifecycle_table, s, LifecycleIn(s, x, n))
    BY DEF Holds
  <2> QED BY <2>1, KeepsFiled
<1> QED BY <1>2, <1>3, <1>4, <1>5 DEF Holds

-----------------------------------------------------------------------------
(***************************************************************************)
(* The partition.                                                          *)
(***************************************************************************)

TxBegun(s, j) == Until(s, "BeginTransaction", j)
TxEnded(s, j) == Until(s, "EndTransaction", j)

\* The bucket b holds the finished transaction i of s, or the open one.
Complete(s, b, i) ==
  \E x, y \in 1..Len(s) :
    /\ x < y
    /\ s[x].payload.type = "BeginTransaction" /\ TxBegun(s, x) = i
    /\ s[y].payload.type = "EndTransaction" /\ TxEnded(s, y) = i
    /\ Holds(b, s, x, y - 1)

Ongoing(s, b, i) ==
  \E x \in 1..Len(s) :
    /\ s[x].payload.type = "BeginTransaction" /\ TxBegun(s, x) = i
    /\ Holds(b, s, x, Len(s))

AllComplete(s, finished) == \A i \in 1..Len(finished) : Complete(s, finished[i], i)

\* What the partition knows of the events read: s falls into the finished
\* transactions and the open one, if there is one.
Parted(s, finished, open) ==
  /\ IsSequence(finished) /\ (open = << >> \/ open = <<open[1]>>)
  /\ Bracketed(s)
  /\ TxBegun(s, Len(s)) = Len(finished) + IF open = << >> THEN 0 ELSE 1
  /\ TxEnded(s, Len(s)) = Len(finished)
  /\ AllComplete(s, finished)
  /\ open # << >> => Ongoing(s, open[1], Len(finished) + 1)

\* The boundaries counted before an event are counted the same with it.
LEMMA BoundariesKept ==
  ASSUME NEW E, NEW s \in Seq(E), NEW e \in E, NEW j \in 0..Len(s)
  PROVE  /\ TxBegun(Append(s, e), j) = TxBegun(s, j)
         /\ TxEnded(Append(s, e), j) = TxEnded(s, j)
BY UntilKept DEF TxBegun, TxEnded

LEMMA CompleteKept ==
  ASSUME NEW E, NEW s \in Seq(E), NEW e \in E, NEW b, NEW i, Complete(s, b, i)
  PROVE  Complete(Append(s, e), b, i)
<1> DEFINE t == Append(s, e)
<1>1. PICK x \in 1..Len(s), y \in 1..Len(s) :
        /\ x < y
        /\ s[x].payload.type = "BeginTransaction" /\ TxBegun(s, x) = i
        /\ s[y].payload.type = "EndTransaction" /\ TxEnded(s, y) = i
        /\ Holds(b, s, x, y - 1)
  BY DEF Complete
<1>2. /\ Len(s) \in Nat /\ Len(t) = Len(s) + 1 /\ t[x] = s[x] /\ t[y] = s[y]
      /\ x \in 0..Len(s) /\ y \in 0..Len(s) /\ x \in Nat /\ y - 1 \in 0..Len(s)
      /\ x \in 1..Len(t) /\ y \in 1..Len(t)
  OBVIOUS
<1>3. TxBegun(t, x) = i /\ TxEnded(t, y) = i
  <2>1. TxBegun(t, x) = TxBegun(s, x) /\ TxEnded(t, y) = TxEnded(s, y)
    BY <1>2, BoundariesKept
  <2> QED BY <1>1, <2>1
<1>4. Holds(b, t, x, y - 1)
  BY <1>1, <1>2, HoldsKept
<1> QED BY <1>1, <1>2, <1>3, <1>4 DEF Complete

\* The brackets read stay right with event e more, or not.
BracketStep(s, e) ==
  LET t == Append(s, e)
      n == Len(s)
  IN  /\ TxBegun(t, n + 1) = TxBegun(s, n) +
           IF e.payload.type = "BeginTransaction" THEN 1 ELSE 0
      /\ TxEnded(t, n + 1) = TxEnded(s, n) +
           IF e.payload.type = "EndTransaction" THEN 1 ELSE 0
      /\ TxBegun(t, n + 1) \in Nat /\ TxEnded(t, n + 1) \in Nat
      /\ TxBegun(s, n) \in Nat /\ TxEnded(s, n) \in Nat
      /\ Bracketed(t) <=>
           TxBegun(t, n + 1) - TxEnded(t, n + 1) =
             IF e.payload.type = "EndTransaction" THEN 0 ELSE 1

LEMMA BracketsNext ==
  ASSUME NEW E, NEW s \in Seq(E), NEW e \in E, Bracketed(s)
  PROVE  BracketStep(s, e)
<1> DEFINE t == Append(s, e)
           n == Len(s)
<1>1. /\ n \in Nat /\ t \in Seq(E) /\ t[n + 1] = e
      /\ DOMAIN s = 1..n /\ DOMAIN t = 1..n + 1
      /\ \A j \in 1..n : t[j] = s[j] /\ j \in 0..n
  OBVIOUS
<1>2. /\ TxBegun(t, n + 1) = TxBegun(s, n) + IF e.payload.type = "BeginTransaction" THEN 1 ELSE 0
      /\ TxEnded(t, n + 1) = TxEnded(s, n) + IF e.payload.type = "EndTransaction" THEN 1 ELSE 0
  BY UntilNext DEF TxBegun, TxEnded
<1>3. /\ TxBegun(t, n + 1) \in Nat /\ TxEnded(t, n + 1) \in Nat
      /\ TxBegun(s, n) \in Nat /\ TxEnded(s, n) \in Nat
  BY <1>1, UntilNat DEF TxBegun, TxEnded
<1>4. \A j \in 1..n : Open(t, j) = Open(s, j)
  <2>1. \A j \in 0..n : TxBegun(t, j) = TxBegun(s, j)
    BY BoundariesKept
  <2>2. \A j \in 0..n : TxEnded(t, j) = TxEnded(s, j)
    BY BoundariesKept
  <2> QED BY <1>1, <2>1, <2>2 DEF Open, TxBegun, TxEnded
<1>5. Open(t, n + 1) = TxBegun(t, n + 1) - TxEnded(t, n + 1)
  BY DEF Open, TxBegun, TxEnded
<1>6. ASSUME NEW j \in 1..n
      PROVE  Open(t, j) = IF t[j].payload.type = "EndTransaction" THEN 0 ELSE 1
  BY <1>1, <1>4 DEF Bracketed
<1>7. n + 1 \in 1..n + 1 /\ \A j \in 1..n + 1 : j \in 1..n \/ j = n + 1
  BY <1>1
<1> HIDE DEF n, t
<1>8. Bracketed(t) <=> Open(t, n + 1) = IF e.payload.type = "EndTransaction" THEN 0 ELSE 1
  BY <1>1, <1>6, <1>7 DEF Bracketed
<1> QED BY <1>2, <1>3, <1>5, <1>8 DEF n, t, BracketStep

LEMMA PartedBegin ==
  ASSUME NEW E, NEW s \in Seq(E), NEW e \in E, NEW finished,
         Parted(s, finished, << >>), e.payload.type = "BeginTransaction"
  PROVE  Parted(Append(s, e), finished, <<EmptyBucket(e)>>)
<1> DEFINE t == Append(s, e)
           n == Len(s)
           L == Len(finished)
           b == EmptyBucket(e)
<1>1. L \in Nat
  BY LenProperties DEF Parted, IsSequence
<1>2. /\ n \in Nat /\ n + 1 \in Nat /\ Len(t) = n + 1 /\ t[n + 1] = e /\ n + 1 \in 1..n + 1
      /\ <<b>>[1] = b /\ <<b>> # << >>
  OBVIOUS
<1>3. /\ TxBegun(s, n) = L /\ TxEnded(s, n) = L
      /\ TxBegun(t, n + 1) = L + 1 /\ TxEnded(t, n + 1) = L
      /\ Bracketed(t)
  <2>1. Bracketed(s) /\ TxBegun(s, n) = L /\ TxEnded(s, n) = L
    BY <1>1 DEF Parted
  <2>2. BracketStep(s, e)
    BY <2>1, BracketsNext, Zenon
  <2>3. TxBegun(t, n + 1) = L + 1 /\ TxEnded(t, n + 1) = L
    BY <1>1, <2>1, <2>2 DEF BracketStep
  <2>4. Bracketed(t) <=> TxBegun(t, n + 1) - TxEnded(t, n + 1) = 1
    BY <2>2 DEF BracketStep
  <2>5. (L + 1) - L = 1
    BY <1>1
  <2> QED BY <2>1, <2>3, <2>4, <2>5
<1>4. Ongoing(t, b, L + 1)
  <2>1. Holds(b, t, n + 1, n + 1)
    BY <1>2, HoldsNone
  <2> QED BY <1>2, <1>3, <2>1 DEF Ongoing
<1>5. AllComplete(t, finished)
  BY CompleteKept DEF Parted, AllComplete
<1>6. IsSequence(finished)
  BY DEF Parted
<1> HIDE DEF t, n, b, L
<1>7. Parted(t, finished, <<b>>)
  BY <1>1, <1>2, <1>3, <1>4, <1>5, <1>6 DEF Parted, L
<1> QED BY <1>7 DEF t, b

LEMMA PartedEnd ==
  ASSUME NEW E, NEW s \in Seq(E), NEW e \in E, NEW finished, NEW b,
         Parted(s, finished, <<b>>), e.payload.type = "EndTransaction"
  PROVE  Parted(Append(s, e), finished \o <<b>>, << >>)
<1> DEFINE t == Append(s, e)
           n == Len(s)
           L == Len(finished)
           all == Append(finished, b)
<1>1. /\ IsSequence(all) /\ finished \o <<b>> = all
      /\ L \in Nat /\ Len(all) = L + 1
      /\ \A i \in 1..L : all[i] = finished[i]
      /\ all[L + 1] = b
  BY SequenceAppend DEF Parted
<1>2. /\ n \in Nat /\ n + 1 \in Nat /\ Len(t) = n + 1 /\ t[n + 1] = e /\ n + 1 \in 1..n + 1
      /\ \A x \in 1..n : t[x] = s[x] /\ x \in 0..n /\ x < n + 1 /\ x \in 1..n + 1 /\ x \in Nat
      /\ n \in 0..n /\ (n + 1) - 1 = n
      /\ <<b>>[1] = b /\ <<b>> # << >>
  OBVIOUS
<1>3. /\ TxBegun(s, n) = L + 1 /\ TxEnded(s, n) = L
      /\ TxBegun(t, n + 1) = L + 1 /\ TxEnded(t, n + 1) = L + 1
      /\ Bracketed(t)
  <2>1. BracketStep(s, e)
    BY BracketsNext, Zenon DEF Parted
  <2> QED BY <1>1, <1>2, <2>1 DEF Parted, BracketStep
<1>4. Complete(t, b, L + 1)
  <2>1. PICK x \in 1..n : /\ s[x].payload.type = "BeginTransaction" /\ TxBegun(s, x) = L + 1
                          /\ Holds(b, s, x, n)
    BY <1>2 DEF Parted, Ongoing
  <2>2. TxBegun(t, x) = TxBegun(s, x)
    BY <1>2, BoundariesKept
  <2>3. Holds(b, t, x, n)
    BY <1>2, <2>1, HoldsKept
  <2> QED BY <1>2, <1>3, <2>1, <2>2, <2>3 DEF Complete
<1>5. \A i \in 1..L : Complete(t, all[i], i)
  BY <1>1, CompleteKept DEF Parted, AllComplete
<1> HIDE DEF t, n, L, all
<1>6. AllComplete(t, all)
  <2>1. \A i \in 1..L + 1 : i \in 1..L \/ i = L + 1
    BY <1>1
  <2> QED BY <1>1, <1>4, <1>5, <2>1 DEF AllComplete
<1>7. Parted(t, all, << >>)
  BY <1>1, <1>2, <1>3, <1>6 DEF Parted
<1> QED BY <1>1, <1>7 DEF t

LEMMA PartedOther ==
  ASSUME NEW E, NEW s \in Seq(E), NEW e \in E, NEW finished, NEW b,
         e.payload.type = "StateChanged" => e.payload.key \in Key,
         Parted(s, finished, <<b>>), e.payload.type \notin TxBoundary
  PROVE  Parted(Append(s, e), finished, <<File(b, e)>>)
<1> DEFINE t == Append(s, e)
           n == Len(s)
           L == Len(finished)
           c == File(b, e)
<1>1. L \in Nat
  BY LenProperties DEF Parted, IsSequence
<1>2. /\ n \in Nat /\ Len(t) = n + 1
      /\ \A x \in 1..n : t[x] = s[x] /\ x \in 0..n /\ x \in 1..n + 1
      /\ <<b>>[1] = b /\ <<b>> # << >> /\ <<c>>[1] = c /\ <<c>> # << >>
  OBVIOUS
<1>3. /\ TxBegun(s, n) = L + 1 /\ TxEnded(s, n) = L
      /\ TxBegun(t, n + 1) = L + 1 /\ TxEnded(t, n + 1) = L
      /\ Bracketed(t)
  <2>1. BracketStep(s, e)
    BY BracketsNext, Zenon DEF Parted
  <2> QED BY <1>1, <1>2, <2>1 DEF Parted, BracketStep, TxBoundary
<1>4. Ongoing(t, c, L + 1)
  <2>1. PICK x \in 1..n : /\ s[x].payload.type = "BeginTransaction" /\ TxBegun(s, x) = L + 1
                          /\ Holds(b, s, x, n)
    BY <1>2 DEF Parted, Ongoing
  <2>2. TxBegun(t, x) = TxBegun(s, x)
    BY <1>2, BoundariesKept
  <2>3. Holds(c, t, x, n + 1)
    BY <1>2, <2>1, HoldsNext
  <2> QED BY <1>2, <2>1, <2>2, <2>3 DEF Ongoing
<1>5. AllComplete(t, finished)
  BY CompleteKept DEF Parted, AllComplete
<1>6. IsSequence(finished)
  BY DEF Parted
<1> HIDE DEF t, n, c, L
<1>7. Parted(t, finished, <<c>>)
  BY <1>1, <1>2, <1>3, <1>4, <1>5, <1>6 DEF Parted, L
<1> QED BY <1>7 DEF t, c

LEMMA PartedNone == Parted(<< >>, << >>, << >>)
<1>1. IsSequence(<< >>) /\ Len(<< >>) = 0
  BY EmptySeq DEF IsSequence
<1>2. TxBegun(<< >>, 0) = 0 /\ TxEnded(<< >>, 0) = 0
  BY UntilEmpty DEF TxBegun, TxEnded
<1>3. DOMAIN << >> = {} /\ \A i : i \notin 1..0
  OBVIOUS
<1>4. Bracketed(<< >>)
  BY <1>3 DEF Bracketed
<1>5. AllComplete(<< >>, << >>)
  BY <1>1, <1>3 DEF AllComplete
<1> QED BY <1>1, <1>2, <1>4, <1>5 DEF Parted

\* How many transactions are open.
LEMMA PartedOpen ==
  ASSUME NEW E, NEW s \in Seq(E), NEW finished, NEW open, Parted(s, finished, open)
  PROVE  Open(s, Len(s)) = IF open = << >> THEN 0 ELSE 1
<1>1. Len(finished) \in Nat
  BY LenProperties DEF Parted, IsSequence
<1> QED BY <1>1 DEF Parted, Open, TxBegun, TxEnded

\* An event that the partition refuses is outside of a transaction or nests one.
LEMMA PartedRefuses ==
  ASSUME NEW E, NEW s \in Seq(E), NEW e \in E, NEW finished, NEW open,
         Parted(s, finished, open), e.payload.type = "BeginTransaction" <=> open # << >>
  PROVE  ~Bracketed(Append(s, e))
<1> DEFINE t == Append(s, e)
           n == Len(s)
           L == Len(finished)
<1>1. L \in Nat
  BY LenProperties DEF Parted, IsSequence
<1>2. /\ Bracketed(s) /\ TxEnded(s, n) = L
      /\ TxBegun(s, n) = L + IF open = << >> THEN 0 ELSE 1
  BY DEF Parted
<1>0. BracketStep(s, e)
  BY <1>2, BracketsNext, Zenon
<1> HIDE DEF t, n, L
<1>3. CASE e.payload.type = "BeginTransaction"
  <2>1. TxBegun(t, n + 1) = (L + 1) + 1 /\ TxEnded(t, n + 1) = L
    BY <1>1, <1>2, <1>3, <1>0 DEF BracketStep, t, n
  <2>2. ((L + 1) + 1) - L # 1
    BY <1>1
  <2> QED BY <1>2, <1>3, <2>1, <2>2, <1>0 DEF BracketStep, t, n
<1>4. CASE e.payload.type = "EndTransaction"
  <2> open = << >> /\ TxBegun(s, n) = L
    BY <1>1, <1>2, <1>4
  <2>1. TxBegun(t, n + 1) = L /\ TxEnded(t, n + 1) = L + 1
    BY <1>1, <1>2, <1>4, <1>0 DEF BracketStep, t, n
  <2>2. L - (L + 1) # 0
    BY <1>1
  <2> QED BY <1>2, <1>4, <2>1, <2>2, <1>0 DEF BracketStep, t, n
<1>5. CASE e.payload.type \notin TxBoundary
  <2> open = << >> /\ TxBegun(s, n) = L
    BY <1>1, <1>2, <1>5 DEF TxBoundary
  <2>1. TxBegun(t, n + 1) = L /\ TxEnded(t, n + 1) = L
    BY <1>1, <1>2, <1>5, <1>0 DEF BracketStep, t, n, TxBoundary
  <2>2. L - L # 1
    BY <1>1
  <2> QED BY <1>2, <1>5, <2>1, <2>2, <1>0 DEF BracketStep, t, n, TxBoundary
<1> QED BY <1>3, <1>4, <1>5 DEF TxBoundary

\* A timeline of a stretch of s is one of the segment q that is cut out of it.
LEMMA ListsShift ==
  ASSUME NEW s, NEW q, NEW x \in Nat, NEW W \in SUBSET Nat, NEW V \in SUBSET Nat,
         \A j \in W : j - x \in V /\ q[j - x] = s[j],
         \A j \in V : j + x \in W,
         NEW h, Lists(h, s, W)
  PROVE  Lists(h, q, V)
<1>1. PICK place \in [1..Len(h) -> W] :
        /\ \A m, n \in 1..Len(h) : m < n => place[m] < place[n]
        /\ \A j \in W : \E n \in 1..Len(h) : place[n] = j
        /\ \A n \in 1..Len(h) : h[n] = Transition(s[place[n]])
  BY DEF Lists
<1> DEFINE shifted == [n \in 1..Len(h) |-> place[n] - x]
<1>2. \A n \in 1..Len(h) : place[n] \in W /\ place[n] \in Nat /\ shifted[n] = place[n] - x
  BY <1>1
<1>3. shifted \in [1..Len(h) -> V]
  BY <1>2
<1> HIDE DEF shifted
<1>4. \A m, n \in 1..Len(h) : m < n => shifted[m] < shifted[n]
  BY <1>1, <1>2
<1>5. ASSUME NEW j \in V PROVE \E n \in 1..Len(h) : shifted[n] = j
  <2>1. PICK n \in 1..Len(h) : place[n] = j + x
    BY <1>1
  <2>2. (j + x) - x = j
    OBVIOUS
  <2> QED BY <1>2, <2>1, <2>2
<1>6. \A n \in 1..Len(h) : h[n] = Transition(q[shifted[n]])
  BY <1>1, <1>2
<1>7. IsSequence(h)
  BY DEF Lists
<1>8. \A j \in V : \E n \in 1..Len(h) : shifted[n] = j
  BY <1>5
<1> QED BY <1>3, <1>4, <1>6, <1>7, <1>8, Zenon DEF Lists

LEMMA RecordsShift ==
  ASSUME NEW s, NEW q, NEW x \in Nat, NEW W \in SUBSET Nat, NEW V \in SUBSET Nat,
         \A j \in W : j - x \in V /\ q[j - x] = s[j],
         \A j \in V : j + x \in W,
         NEW h, Records(h, s, W)
  PROVE  Records(h, q, V)
<1>1. PICK m \in Nat : \E place \in [1..m -> W] :
        /\ h = [i \in 1..m |-> ObservedLifecycle(s[place[i]])]
        /\ \A i, j \in 1..m : i < j => place[i] < place[j]
        /\ \A j \in W : \E i \in 1..m : place[i] = j
  BY DEF Records
<1>2. PICK place \in [1..m -> W] :
        /\ h = [i \in 1..m |-> ObservedLifecycle(s[place[i]])]
        /\ \A i, j \in 1..m : i < j => place[i] < place[j]
        /\ \A j \in W : \E i \in 1..m : place[i] = j
  BY <1>1
<1> DEFINE shifted == [i \in 1..m |-> place[i] - x]
<1>3. \A i \in 1..m : place[i] \in W /\ place[i] \in Nat /\ shifted[i] = place[i] - x
  BY <1>2
<1>4. shifted \in [1..m -> V]
  BY <1>3
<1> HIDE DEF shifted
<1>5. \A i, j \in 1..m : i < j => shifted[i] < shifted[j]
  BY <1>2, <1>3
<1>6. \A j \in V : \E i \in 1..m : shifted[i] = j
  <2> SUFFICES ASSUME NEW j \in V PROVE \E i \in 1..m : shifted[i] = j
    OBVIOUS
  <2>1. PICK i \in 1..m : place[i] = j + x
    BY <1>2
  <2>2. (j + x) - x = j
    OBVIOUS
  <2> QED BY <1>3, <2>1, <2>2
<1>7. h = [i \in 1..m |-> ObservedLifecycle(q[shifted[i]])]
  BY <1>2, <1>3
<1> QED BY <1>1, <1>4, <1>5, <1>6, <1>7 DEF Records

LEMMA KeepsShift ==
  ASSUME NEW s, NEW q, NEW x \in Nat, NEW W \in SUBSET Nat, NEW V \in SUBSET Nat,
         \A j \in W : j - x \in V /\ q[j - x] = s[j],
         \A j \in V : j + x \in W,
         NEW table, Keeps(table, s, W)
  PROVE  Keeps(table, q, V)
<1>1. \A j \in V : j + x \in W /\ q[j] = s[j + x]
  <2>1. \A j \in V : (j + x) - x = j
    OBVIOUS
  <2> QED BY <2>1
<1>2. {q[j].payload.address : j \in V} = {s[j].payload.address : j \in W}
  <2>1. ASSUME NEW j \in V
        PROVE  q[j].payload.address \in {s[i].payload.address : i \in W}
    <3>1. j + x \in W /\ q[j] = s[j + x]
      BY <1>1
    <3> QED BY <3>1
  <2>2. ASSUME NEW j \in W
        PROVE  s[j].payload.address \in {q[i].payload.address : i \in V}
    <3>1. j - x \in V /\ q[j - x] = s[j]
      OBVIOUS
    <3> QED BY <3>1
  <2>3. /\ {q[j].payload.address : j \in V} \subseteq {s[j].payload.address : j \in W}
        /\ {s[j].payload.address : j \in W} \subseteq {q[j].payload.address : j \in V}
    BY <2>1, <2>2
  <2> QED BY <2>3
<1>3. ASSUME NEW a \in DOMAIN table
      PROVE  Records(table[a], q, About(q, V, a))
  <2> DEFINE A == About(s, W, a)
             B == About(q, V, a)
  <2>1. /\ A \in SUBSET Nat /\ B \in SUBSET Nat
        /\ \A j \in A : j - x \in B /\ q[j - x] = s[j]
        /\ \A j \in B : j + x \in A
    BY <1>1 DEF About
  <2>2. Records(table[a], s, A)
    BY DEF Keeps
  <2> HIDE DEF A, B
  <2>3. Records(table[a], q, B)
    BY <2>1, <2>2, RecordsShift
  <2> QED BY <2>3 DEF B
<1> QED BY <1>2, <1>3 DEF Keeps

\* The ids that such a table holds.
LEMMA KeepsIds ==
  ASSUME NEW table, NEW s, NEW W, Keeps(table, s, W)
  PROVE  Observes(table, s, W)
<1>1. \A e : ObservedLifecycle(e).event_id = e.sequence_number
  BY DEF ObservedLifecycle
<1>2. ASSUME NEW a \in DOMAIN table
      PROVE  /\ IsSequence(table[a])
             /\ {table[a][i].event_id : i \in DOMAIN table[a]}
                  = {s[j].sequence_number : j \in About(s, W, a)}
  <2> DEFINE h == table[a]
             V == About(s, W, a)
  <2>1. Records(h, s, V)
    BY DEF Keeps
  <2> HIDE DEF h, V
  <2>2. PICK m \in Nat : \E place \in [1..m -> V] :
          /\ h = [i \in 1..m |-> ObservedLifecycle(s[place[i]])]
          /\ \A x \in V : \E i \in 1..m : place[i] = x
    BY <2>1 DEF Records
  <2>3. PICK place \in [1..m -> V] :
          /\ h = [i \in 1..m |-> ObservedLifecycle(s[place[i]])]
          /\ \A x \in V : \E i \in 1..m : place[i] = x
    BY <2>2
  <2>4. DOMAIN h = 1..m /\ \A i \in 1..m : h[i] = ObservedLifecycle(s[place[i]])
    BY <2>3
  <2>5. IsSequence(h)
    <3>1. h \in [1..m -> Range(h)]
      BY <2>3 DEF Range
    <3> QED BY <2>2, <3>1, SeqDef DEF IsSequence
  <2>6. \A i \in 1..m : h[i].event_id = s[place[i]].sequence_number /\ place[i] \in V
    BY <1>1, <2>3, <2>4
  <2>7. {h[i].event_id : i \in DOMAIN h} = {s[j].sequence_number : j \in V}
    <3>1. ASSUME NEW i \in DOMAIN h PROVE h[i].event_id \in {s[j].sequence_number : j \in V}
      BY <2>4, <2>6
    <3>2. ASSUME NEW j \in V PROVE s[j].sequence_number \in {h[i].event_id : i \in DOMAIN h}
      <4>1. PICK i \in 1..m : place[i] = j
        BY <2>3
      <4> QED BY <2>4, <2>6, <4>1
    <3> QED BY <3>1, <3>2
  <2> QED BY <2>5, <2>7 DEF h, V
<1>3. \A x : x \in LifecycleIds(table) <=>
               \E a \in DOMAIN table : \E j \in About(s, W, a) : x = s[j].sequence_number
  <2>1. \A x : x \in LifecycleIds(table) <=>
                 \E a \in DOMAIN table : x \in {table[a][i].event_id : i \in DOMAIN table[a]}
    BY DEF LifecycleIds
  <2> DEFINE ids(a) == {table[a][i].event_id : i \in DOMAIN table[a]}
             numbers(a) == {s[j].sequence_number : j \in About(s, W, a)}
  <2>2. \A a \in DOMAIN table : ids(a) = numbers(a)
    BY <1>2
  <2>3. \A a, x : x \in numbers(a) <=> \E j \in About(s, W, a) : x = s[j].sequence_number
    OBVIOUS
  <2>4. \A x : x \in LifecycleIds(table) <=> \E a \in DOMAIN table : x \in ids(a)
    BY <2>1
  <2> HIDE DEF ids, numbers
  <2> QED BY <2>2, <2>3, <2>4
<1>4. \A j \in W : s[j].payload.address \in DOMAIN table /\ j \in About(s, W, s[j].payload.address)
  BY DEF Keeps, About
<1>5. \A a : About(s, W, a) \subseteq W
  BY DEF About
<1>6. LifecycleIds(table) = {s[j].sequence_number : j \in W}
  <2>1. ASSUME NEW x \in LifecycleIds(table) PROVE x \in {s[j].sequence_number : j \in W}
    BY <1>3, <1>5, <2>1
  <2>2. ASSUME NEW j \in W PROVE s[j].sequence_number \in LifecycleIds(table)
    BY <1>3, <1>4
  <2> QED BY <2>1, <2>2
<1> QED BY <1>2, <1>6 DEF Observes

LEMMA HoldsSegment ==
  ASSUME NEW E, NEW s \in Seq(E), NEW x \in 1..Len(s), NEW y \in 1..Len(s), x < y,
         NEW b, Holds(b, s, x, y - 1)
  PROVE  LET q == SubSeq(s, x + 1, y - 1)
         IN  q \in Seq(E) /\ Holds(b, q, 0, Len(q))
<1> DEFINE q == SubSeq(s, x + 1, y - 1)
           z == y - 1
<1>1. /\ x \in Nat /\ z \in Nat /\ x <= z /\ x + 1 \in Int /\ z \in Int
      /\ \A j \in x+1..z : s[j] \in E
  OBVIOUS
<1>2. /\ q \in Seq(E) /\ Len(q) = z - x
      /\ \A j \in 1..z - x : q[j] = s[x + j]
  <2>1. /\ q \in Seq(E)
        /\ Len(q) = IF x + 1 <= z THEN z - (x + 1) + 1 ELSE 0
        /\ \A j \in 1..z - (x + 1) + 1 : q[j] = s[x + 1 + j - 1]
    BY <1>1, SubSeqProperties
  <2>2. z - (x + 1) + 1 = z - x /\ \A j \in Int : x + 1 + j - 1 = x + j
    BY <1>1
  <2>3. Len(q) = z - x
    BY <1>1, <2>1
  <2> QED BY <2>1, <2>2, <2>3
<1> HIDE DEF q, z
<1>3. \A j \in x+1..z : j - x \in 1..z - x /\ q[j - x] = s[j]
  <2>1. \A j \in x+1..z : j - x \in 1..z - x /\ x + (j - x) = j
    BY <1>1
  <2> QED BY <1>2, <2>1
<1>4. \A j \in 1..z - x : j + x \in x+1..z /\ q[j] = s[j + x]
  <2>1. \A j \in 1..z - x : j + x \in x+1..z /\ x + j = j + x
    BY <1>1
  <2> QED BY <1>2, <2>1
<1>5. 0 + 1 = 1 /\ Len(q) = z - x
  BY <1>2
<1>6. ASSUME NEW k
      PROVE  /\ \A j \in WritesIn(s, k, x, z) : j - x \in WritesIn(q, k, 0, Len(q))
                                                /\ q[j - x] = s[j]
             /\ \A j \in WritesIn(q, k, 0, Len(q)) : j + x \in WritesIn(s, k, x, z)
             /\ WritesIn(s, k, x, z) \in SUBSET Nat /\ WritesIn(q, k, 0, Len(q)) \in SUBSET Nat
  <2>1. \A j \in WritesIn(s, k, x, z) : j - x \in WritesIn(q, k, 0, Len(q)) /\ q[j - x] = s[j]
    BY <1>3, <1>5 DEF WritesIn, Writes
  <2>2. \A j \in WritesIn(q, k, 0, Len(q)) : j + x \in WritesIn(s, k, x, z)
    BY <1>4, <1>5 DEF WritesIn, Writes
  <2>3. WritesIn(s, k, x, z) \in SUBSET Nat /\ WritesIn(q, k, 0, Len(q)) \in SUBSET Nat
    BY <1>1, <1>5 DEF WritesIn
  <2> QED BY <2>1, <2>2, <2>3
<1>7. /\ \A j \in RefundsIn(s, x, z) : j - x \in RefundsIn(q, 0, Len(q)) /\ q[j - x] = s[j]
      /\ \A j \in RefundsIn(q, 0, Len(q)) : j + x \in RefundsIn(s, x, z)
      /\ RefundsIn(s, x, z) \in SUBSET Nat /\ RefundsIn(q, 0, Len(q)) \in SUBSET Nat
  <2>1. \A j \in RefundsIn(s, x, z) : j - x \in RefundsIn(q, 0, Len(q)) /\ q[j - x] = s[j]
    BY <1>3, <1>5 DEF RefundsIn
  <2>2. \A j \in RefundsIn(q, 0, Len(q)) : j + x \in RefundsIn(s, x, z)
    BY <1>4, <1>5 DEF RefundsIn
  <2>3. RefundsIn(s, x, z) \in SUBSET Nat /\ RefundsIn(q, 0, Len(q)) \in SUBSET Nat
    BY <1>1, <1>5 DEF RefundsIn
  <2> QED BY <2>1, <2>2, <2>3
<1>8. /\ DOMAIN b.state_tables = {k \in Key : WritesIn(s, k, x, z) # {}}
      /\ \A k \in DOMAIN b.state_tables : Lists(b.state_tables[k], s, WritesIn(s, k, x, z))
      /\ Lists(b.gas_refund_timeline, s, RefundsIn(s, x, z))
  BY DEF Holds, z
<1>9. DOMAIN b.state_tables = {k \in Key : WritesIn(q, k, 0, Len(q)) # {}}
  <2>1. \A k : WritesIn(s, k, x, z) # {} <=> WritesIn(q, k, 0, Len(q)) # {}
    BY <1>6
  <2> QED BY <1>8, <2>1
<1>10. ASSUME NEW k \in DOMAIN b.state_tables
       PROVE  Lists(b.state_tables[k], q, WritesIn(q, k, 0, Len(q)))
  <2> DEFINE W == WritesIn(s, k, x, z)
             V == WritesIn(q, k, 0, Len(q))
             h == b.state_tables[k]
  <2>1. Lists(h, s, W)
    BY <1>8
  <2>2. /\ W \in SUBSET Nat /\ V \in SUBSET Nat
        /\ \A j \in W : j - x \in V /\ q[j - x] = s[j]
        /\ \A j \in V : j + x \in W
    BY <1>6
  <2> HIDE DEF W, V, h
  <2>3. Lists(h, q, V)
    BY <1>1, <2>1, <2>2, ListsShift
  <2> QED BY <2>3 DEF V, h
<1>11. Lists(b.gas_refund_timeline, q, RefundsIn(q, 0, Len(q)))
  <2> DEFINE W == RefundsIn(s, x, z)
             V == RefundsIn(q, 0, Len(q))
  <2>1. /\ W \in SUBSET Nat /\ V \in SUBSET Nat
        /\ \A j \in W : j - x \in V /\ q[j - x] = s[j]
        /\ \A j \in V : j + x \in W
    BY <1>7
  <2> HIDE DEF W, V
  <2>2. Lists(b.gas_refund_timeline, q, V)
    BY <1>1, <1>8, <2>1, ListsShift DEF W
  <2> QED BY <2>2 DEF V
<1>12. Keeps(b.lifecycle_table, q, LifecycleIn(q, 0, Len(q)))
  <2> DEFINE W == LifecycleIn(s, x, z)
             V == LifecycleIn(q, 0, Len(q))
  <2>1. /\ \A j \in W : j - x \in V /\ q[j - x] = s[j]
        /\ \A j \in V : j + x \in W
        /\ W \in SUBSET Nat /\ V \in SUBSET Nat
    <3>1. \A j \in W : j - x \in V /\ q[j - x] = s[j]
      BY <1>3, <1>5 DEF LifecycleIn
    <3>2. \A j \in V : j + x \in W
      BY <1>4, <1>5 DEF LifecycleIn
    <3>3. W \in SUBSET Nat /\ V \in SUBSET Nat
      BY <1>1, <1>5 DEF LifecycleIn
    <3> QED BY <3>1, <3>2, <3>3
  <2>2. Keeps(b.lifecycle_table, s, W)
    BY DEF Holds, z
  <2> HIDE DEF W, V
  <2>3. Keeps(b.lifecycle_table, q, V)
    BY <1>1, <2>1, <2>2, KeepsShift
  <2> QED BY <2>3 DEF V
<1>13. Holds(b, q, 0, Len(q))
  BY <1>9, <1>10, <1>11, <1>12 DEF Holds
<1> QED BY <1>2, <1>13 DEF q, z

\* What a timeline without a gap says of the events it lists, and what one with a
\* gap does.
LEMMA TimelineReduced ==
  ASSUME NEW E, NEW q \in Seq(E), NEW h, NEW W \in SUBSET Nat, Lists(h, q, W)
  PROVE  /\ ~Discontinuous(h) =>
              \A i, j \in W : Adjacent(W, i, j) => q[i].payload.after = q[j].payload.before
         /\ Discontinuous(h) =>
              \E i, j \in W : Adjacent(W, i, j) /\ q[i].payload.after # q[j].payload.before
         /\ \A j \in W : (\A m \in W : m >= j) => q[j].payload.before = Reduced(h).initial
         /\ \A j \in W : (\A m \in W : m <= j) => q[j].payload.after = Reduced(h).terminal
         /\ Reduced(h).provenance = {q[j].sequence_number : j \in W}
<1>1. \A e : Transition(e).before = e.payload.before /\ Transition(e).after = e.payload.after
  BY DEF Transition
<1>7. TimelineSays(h, q, W)
  BY ListsSay
<1>2. ASSUME ~Discontinuous(h), NEW i \in W, NEW j \in W, Adjacent(W, i, j)
      PROVE  q[i].payload.after = q[j].payload.before
  <2>1. PICK n \in 2..Len(h) : h[n-1] = Transition(q[i]) /\ h[n] = Transition(q[j])
    BY <1>2, <1>7 DEF TimelineSays
  <2>2. h[n].before = h[n-1].after
    BY <1>2 DEF Discontinuous
  <2> QED BY <1>1, <2>1, <2>2
<1>3. ASSUME Discontinuous(h)
      PROVE  \E i, j \in W : Adjacent(W, i, j) /\ q[i].payload.after # q[j].payload.before
  <2>1. PICK n \in 2..Len(h) : h[n].before # h[n-1].after
    BY <1>3 DEF Discontinuous
  <2>2. PICK i \in W, j \in W :
          Adjacent(W, i, j) /\ h[n-1] = Transition(q[i]) /\ h[n] = Transition(q[j])
    BY <1>7, <2>1 DEF TimelineSays
  <2>3. h[n-1].after = q[i].payload.after /\ h[n].before = q[j].payload.before
    BY <1>1, <2>2
  <2>4. q[i].payload.after # q[j].payload.before
    BY <2>1, <2>3
  <2> QED BY <2>2, <2>4
<1>4. ASSUME NEW j \in W, \A m \in W : m >= j
      PROVE  q[j].payload.before = Reduced(h).initial
  <2>1. h[1] = Transition(q[j])
    BY <1>4, <1>7 DEF TimelineSays
  <2> QED BY <1>1, <2>1 DEF Reduced
<1>5. ASSUME NEW j \in W, \A m \in W : m <= j
      PROVE  q[j].payload.after = Reduced(h).terminal
  <2>1. h[Len(h)] = Transition(q[j])
    BY <1>5, <1>7 DEF TimelineSays
  <2> QED BY <1>1, <2>1 DEF Reduced
<1>6. Reduced(h).provenance = {q[j].sequence_number : j \in W}
  <2>1. DOMAIN h = 1..Len(h)
    BY LenProperties DEF Lists, IsSequence
  <2>2. Reduced(h).provenance = {h[n].event_id : n \in DOMAIN h}
    BY DEF Reduced
  <2>3. ASSUME NEW n \in DOMAIN h
        PROVE  h[n].event_id \in {q[j].sequence_number : j \in W}
    <3>1. PICK j \in W : h[n].event_id = q[j].sequence_number
      BY <1>7, <2>1, <2>3 DEF TimelineSays
    <3> QED BY <3>1
  <2>4. ASSUME NEW j \in W
        PROVE  q[j].sequence_number \in {h[n].event_id : n \in DOMAIN h}
    <3>1. PICK n \in DOMAIN h : h[n].event_id = q[j].sequence_number
      BY <1>7, <2>1, <2>4 DEF TimelineSays
    <3> QED BY <3>1
  <2> QED BY <2>2, <2>3, <2>4
<1> QED BY <1>2, <1>3, <1>4, <1>5, <1>6

\* The reduction of the bucket of segment q replays it.
ReplaysTo(t, q) ==
  LET any == CHOOSE v \in Value : TRUE
      s == [k \in Key |-> IF k \in DOMAIN t THEN t[k].initial ELSE any]
      z == [k \in Key |-> IF k \in DOMAIN t THEN t[k].terminal ELSE any]
  IN  /\ Continues(s, q) /\ Yields(s, q, z) /\ RefundContinues(q)
      /\ \A k \in Key : (k \in DOMAIN t) <=> \E j \in DOMAIN q : Writes(q, j, k)
      /\ \A k \in DOMAIN t :
           t[k].provenance = {q[j].sequence_number : j \in {m \in DOMAIN q : Writes(q, m, k)}}

LEMMA BucketReduced ==
  ASSUME NEW E, NEW q \in Seq(E), NEW b, Holds(b, q, 0, Len(q)),
         \A h \in Timelines(b) : ~Discontinuous(h)
  PROVE  ReplaysTo(ReducedBucket(b).state_table, q)
<1> DEFINE t == ReducedBucket(b).state_table
           T == b.state_tables
           any == CHOOSE v \in Value : TRUE
           s == [k \in Key |-> IF k \in DOMAIN t THEN t[k].initial ELSE any]
           z == [k \in Key |-> IF k \in DOMAIN t THEN t[k].terminal ELSE any]
           W(k) == WritesIn(q, k, 0, Len(q))
           G == RefundsIn(q, 0, Len(q))
<1>1. DOMAIN q = 1..Len(q) /\ Len(q) \in Nat /\ 0 + 1 = 1
  OBVIOUS
<1>2. t = [k \in DOMAIN T |-> Reduced(T[k])]
  BY DEF ReducedBucket
<1>3. /\ \A k : W(k) \in SUBSET Nat /\ \A j : j \in W(k) <=> j \in 1..Len(q) /\ Writes(q, j, k)
      /\ G \in SUBSET Nat
      /\ \A j : j \in G <=> j \in 1..Len(q) /\ q[j].payload.type = "GasRefundChanged"
  BY <1>1 DEF WritesIn, RefundsIn
<1>4. /\ DOMAIN T = {k \in Key : W(k) # {}}
      /\ \A k \in DOMAIN T : Lists(T[k], q, W(k)) /\ ~Discontinuous(T[k])
      /\ Lists(b.gas_refund_timeline, q, G) /\ ~Discontinuous(b.gas_refund_timeline)
  BY DEF Holds, Timelines
<1> HIDE DEF t, T, W, G, any
<1>5. ASSUME NEW k \in DOMAIN T
      PROVE  /\ \A i, j \in W(k) :
                  Adjacent(W(k), i, j) => q[i].payload.after = q[j].payload.before
             /\ \A j \in W(k) : (\A m \in W(k) : m >= j) => q[j].payload.before = t[k].initial
             /\ \A j \in W(k) : (\A m \in W(k) : m <= j) => q[j].payload.after = t[k].terminal
             /\ t[k].provenance = {q[j].sequence_number : j \in W(k)}
  <2> DEFINE h == T[k]
             V == W(k)
  <2>1. V \in SUBSET Nat /\ Lists(h, q, V) /\ ~Discontinuous(h) /\ t[k] = Reduced(h)
    BY <1>2, <1>3, <1>4
  <2> HIDE DEF h, V
  <2>2. /\ \A i, j \in V : Adjacent(V, i, j) => q[i].payload.after = q[j].payload.before
        /\ \A j \in V : (\A m \in V : m >= j) => q[j].payload.before = Reduced(h).initial
        /\ \A j \in V : (\A m \in V : m <= j) => q[j].payload.after = Reduced(h).terminal
        /\ Reduced(h).provenance = {q[j].sequence_number : j \in V}
    BY <2>1, TimelineReduced
  <2> QED BY <2>1, <2>2 DEF V
<1>6. \A k \in Key : /\ s[k] = IF k \in DOMAIN T THEN t[k].initial ELSE any
                     /\ z[k] = IF k \in DOMAIN T THEN t[k].terminal ELSE any
  BY <1>2
<1> HIDE DEF s, z
<1>7. Continues(s, q)
  <2> SUFFICES ASSUME NEW k \in Key, NEW j \in 1..Len(q), Writes(q, j, k)
               PROVE  /\ (\A i \in 1..j-1 : ~Writes(q, i, k)) => q[j].payload.before = s[k]
                      /\ \A i \in 1..j-1 :
                           /\ Writes(q, i, k)
                           /\ \A m \in i+1..j-1 : ~Writes(q, m, k)
                           => q[j].payload.before = q[i].payload.after
    BY DEF Continues
  <2>1. j \in W(k) /\ k \in DOMAIN T
    BY <1>3, <1>4
  <2>2. ASSUME \A i \in 1..j-1 : ~Writes(q, i, k)
        PROVE  q[j].payload.before = s[k]
    <3>1. \A m \in W(k) : m >= j
      BY <1>1, <1>3, <2>2
    <3> QED BY <1>5, <1>6, <2>1, <3>1
  <2>3. ASSUME NEW i \in 1..j-1, Writes(q, i, k), \A m \in i+1..j-1 : ~Writes(q, m, k)
        PROVE  q[j].payload.before = q[i].payload.after
    <3>1. i \in W(k) /\ i < j
      BY <1>1, <1>3, <2>3
    <3>2. \A m \in W(k) : ~(i < m /\ m < j)
      BY <1>1, <1>3, <2>3
    <3>3. Adjacent(W(k), i, j)
      BY <2>1, <3>1, <3>2 DEF Adjacent
    <3> QED BY <1>5, <2>1, <3>1, <3>3
  <2> QED BY <2>2, <2>3
<1>8. Yields(s, q, z)
  <2> SUFFICES ASSUME NEW k \in Key
               PROVE  /\ (\A i \in 1..Len(q) : ~Writes(q, i, k)) => z[k] = s[k]
                      /\ \A i \in 1..Len(q) :
                           /\ Writes(q, i, k)
                           /\ \A j \in i+1..Len(q) : ~Writes(q, j, k)
                           => z[k] = q[i].payload.after
    BY DEF Yields
  <2>1. ASSUME \A i \in 1..Len(q) : ~Writes(q, i, k)
        PROVE  z[k] = s[k]
    <3>1. k \notin DOMAIN T
      BY <1>3, <1>4, <2>1
    <3> QED BY <1>6, <3>1
  <2>2. ASSUME NEW i \in 1..Len(q), Writes(q, i, k), \A j \in i+1..Len(q) : ~Writes(q, j, k)
        PROVE  z[k] = q[i].payload.after
    <3>1. i \in W(k) /\ k \in DOMAIN T
      BY <1>3, <1>4, <2>2
    <3>2. \A m \in W(k) : m <= i
      BY <1>1, <1>3, <2>2
    <3> QED BY <1>5, <1>6, <3>1, <3>2
  <2> QED BY <2>1, <2>2
<1>9. RefundContinues(q)
  <2> SUFFICES ASSUME NEW i \in DOMAIN q, NEW j \in DOMAIN q, i < j,
                      q[i].payload.type = "GasRefundChanged",
                      q[j].payload.type = "GasRefundChanged",
                      \A m \in i+1..j-1 : q[m].payload.type # "GasRefundChanged"
               PROVE  q[i].payload.after = q[j].payload.before
    BY DEF RefundContinues
  <2>1. i \in G /\ j \in G
    BY <1>1, <1>3
  <2>2. \A m \in G : ~(i < m /\ m < j)
    BY <1>1, <1>3
  <2>3. Adjacent(G, i, j)
    BY <2>1, <2>2 DEF Adjacent
  <2> QED BY <1>3, <1>4, <2>1, <2>3, TimelineReduced
<1>10. DOMAIN t = DOMAIN T
  BY <1>2
<1>11. \A k \in Key : (k \in DOMAIN t) <=> \E j \in DOMAIN q : Writes(q, j, k)
  BY <1>1, <1>3, <1>4, <1>10
<1>12. ASSUME NEW k \in DOMAIN t
       PROVE  t[k].provenance =
                {q[j].sequence_number : j \in {m \in DOMAIN q : Writes(q, m, k)}}
  <2>1. {m \in DOMAIN q : Writes(q, m, k)} = W(k)
    BY <1>1, <1>3
  <2> QED BY <1>5, <1>10, <2>1
<1> QED BY <1>7, <1>8, <1>9, <1>11, <1>12 DEF ReplaysTo, s, z, any, t

\* A bucket with a gap holds a segment that no state can be replayed with, or a
\* gap in the gas refund.
LEMMA BucketFails ==
  ASSUME NEW E, NEW q \in Seq(E), NEW b, Holds(b, q, 0, Len(q)),
         NEW h \in Timelines(b), Discontinuous(h)
  PROVE  ~RefundContinues(q) \/ \A s \in World : ~Continues(s, q)
<1> DEFINE T == b.state_tables
           W(k) == WritesIn(q, k, 0, Len(q))
           G == RefundsIn(q, 0, Len(q))
<1>1. DOMAIN q = 1..Len(q) /\ Len(q) \in Nat /\ 0 + 1 = 1
  OBVIOUS
<1>2. /\ \A k : W(k) \in SUBSET Nat /\ \A j : j \in W(k) <=> j \in 1..Len(q) /\ Writes(q, j, k)
      /\ G \in SUBSET Nat
      /\ \A j : j \in G <=> j \in 1..Len(q) /\ q[j].payload.type = "GasRefundChanged"
  BY <1>1 DEF WritesIn, RefundsIn
<1>3. /\ DOMAIN T = {k \in Key : W(k) # {}}
      /\ \A k \in DOMAIN T : Lists(T[k], q, W(k))
      /\ Lists(b.gas_refund_timeline, q, G)
  BY DEF Holds
<1>4. h = b.gas_refund_timeline \/ \E k \in DOMAIN T : h = T[k]
  BY DEF Timelines
<1> HIDE DEF T, W, G
<1>5. CASE h = b.gas_refund_timeline
  <2>1. PICK i \in G, j \in G : Adjacent(G, i, j) /\ q[i].payload.after # q[j].payload.before
    BY <1>2, <1>3, <1>5, TimelineReduced
  <2>2. /\ i \in DOMAIN q /\ j \in DOMAIN q /\ i < j
        /\ q[i].payload.type = "GasRefundChanged" /\ q[j].payload.type = "GasRefundChanged"
    BY <1>1, <1>2, <2>1 DEF Adjacent
  <2>3. \A m \in i+1..j-1 : q[m].payload.type # "GasRefundChanged"
    <3>1. \A m \in i+1..j-1 : i < m /\ m < j /\ m \in 1..Len(q)
      BY <1>1, <2>2
    <3> QED BY <1>2, <2>1, <3>1 DEF Adjacent
  <2> QED BY <2>1, <2>2, <2>3 DEF RefundContinues
<1>6. ASSUME NEW k \in DOMAIN T, h = T[k], NEW s \in World, Continues(s, q)
      PROVE  FALSE
  <2>1. PICK i \in W(k), j \in W(k) :
          Adjacent(W(k), i, j) /\ q[i].payload.after # q[j].payload.before
    BY <1>2, <1>3, <1>6, TimelineReduced
  <2>2. /\ i \in 1..Len(q) /\ j \in 1..Len(q) /\ i < j /\ i \in 1..j-1
        /\ Writes(q, i, k) /\ Writes(q, j, k) /\ k \in Key
    BY <1>1, <1>2, <1>3, <2>1 DEF Adjacent
  <2>3. \A m \in i+1..j-1 : ~Writes(q, m, k)
    <3>1. \A m \in i+1..j-1 : i < m /\ m < j /\ m \in 1..Len(q)
      BY <1>1, <2>2
    <3> QED BY <1>2, <2>1, <3>1 DEF Adjacent
  <2>4. q[j].payload.before = q[i].payload.after
    BY <1>6, <2>2, <2>3 DEF Continues
  <2> QED BY <2>1, <2>4
<1> QED BY <1>4, <1>5, <1>6

\* The segment of a finished transaction, and what its bucket holds.
LEMMA SegmentHeld ==
  ASSUME NEW E, NEW s \in Seq(E), NEW b, NEW i, Complete(s, b, i)
  PROVE  LET q == SubSeq(s, Nth(s, "BeginTransaction", i) + 1, Nth(s, "EndTransaction", i) - 1)
         IN  q \in Seq(E) /\ Holds(b, q, 0, Len(q))
<1>1. PICK x \in 1..Len(s), y \in 1..Len(s) :
        /\ x < y
        /\ s[x].payload.type = "BeginTransaction" /\ TxBegun(s, x) = i
        /\ s[y].payload.type = "EndTransaction" /\ TxEnded(s, y) = i
        /\ Holds(b, s, x, y - 1)
  BY DEF Complete
<1>2. x \in Places(s, "BeginTransaction") /\ y \in Places(s, "EndTransaction")
  BY <1>1 DEF Places
<1>3. Nth(s, "BeginTransaction", i) = x /\ Nth(s, "EndTransaction", i) = y
  BY <1>1, <1>2, NthIs DEF TxBegun, TxEnded
<1> QED BY <1>1, <1>3, HoldsSegment


-----------------------------------------------------------------------------
(***************************************************************************)
(* Counting.                                                               *)
(***************************************************************************)

\* s and t have the same first n events.
SameTo(s, t, n) == \A i \in 1..n : s[i] = t[i]

\* A number of positions is finite, and goes up by one when another is added.
LEMMA CountNext ==
  ASSUME NEW s, NEW types, NEW n \in Nat
  PROVE  /\ Count(s, types, 1, 0) = 0
         /\ Count(s, types, 1, n) \in Nat
         /\ Count(s, types, 1, n + 1) =
              Count(s, types, 1, n) + IF s[n + 1].type \in types THEN 1 ELSE 0
<1> DEFINE C(m) == {i \in 1..m : s[i].type \in types}
<1>1. \A m \in Nat : IsFiniteSet(C(m)) /\ Cardinality(C(m)) \in Nat
  <2> TAKE m \in Nat
  <2>1. IsFiniteSet(1..m)
    BY FS_Interval
  <2>2. C(m) \in SUBSET (1..m)
    OBVIOUS
  <2> QED BY <2>1, <2>2, FS_Subset, FS_CardinalityType
<1>2. C(0) = {}
  OBVIOUS
<1>3. C(n + 1) = IF s[n + 1].type \in types THEN C(n) \cup {n + 1} ELSE C(n)
  OBVIOUS
<1>4. n + 1 \notin C(n)
  OBVIOUS
<1>5. \A m : Count(s, types, 1, m) = Cardinality(C(m))
  BY DEF Count
<1> HIDE DEF C
<1>6. Cardinality(C(n) \cup {n + 1}) = Cardinality(C(n)) + 1
  BY <1>1, <1>4, FS_AddElement
<1> QED BY <1>1, <1>2, <1>3, <1>5, <1>6, FS_EmptySet

LEMMA CountSame ==
  ASSUME NEW s, NEW t, NEW n \in Nat, SameTo(s, t, n), NEW types, NEW m \in 0..n
  PROVE  Count(s, types, 1, m) = Count(t, types, 1, m)
<1>1. {i \in 1..m : s[i].type \in types} = {i \in 1..m : t[i].type \in types}
  BY DEF SameTo
<1> QED BY <1>1 DEF Count

\* What one event does to the number of open frames, and of open transactions.
LEMMA FrameDepthNext ==
  ASSUME NEW s, NEW n \in Nat
  PROVE  /\ FrameDepth(s, n) \in Int
         /\ s[n + 1].type = "FrameEnter" => FrameDepth(s, n + 1) = FrameDepth(s, n) + 1
         /\ s[n + 1].type = "FrameExit" => FrameDepth(s, n + 1) = FrameDepth(s, n) - 1
         /\ s[n + 1].type \notin {"FrameEnter", "FrameExit"} =>
              FrameDepth(s, n + 1) = FrameDepth(s, n)
  BY CountNext DEF FrameDepth

LEMMA TxDepthNext ==
  ASSUME NEW s, NEW n \in Nat
  PROVE  /\ TxDepth(s, n) \in Int
         /\ s[n + 1].type = "TransactionStart" => TxDepth(s, n + 1) = TxDepth(s, n) + 1
         /\ s[n + 1].type = "TransactionEnd" => TxDepth(s, n + 1) = TxDepth(s, n) - 1
         /\ s[n + 1].type \notin {"TransactionStart", "TransactionEnd"} =>
              TxDepth(s, n + 1) = TxDepth(s, n)
  BY CountNext DEF TxDepth

LEMMA DepthAtStart ==
  ASSUME NEW s
  PROVE  TxDepth(s, 0) = 0 /\ FrameDepth(s, 0) = 0
<1>1. 0 \in Nat
  OBVIOUS
<1> QED BY <1>1, CountNext DEF TxDepth, FrameDepth

LEMMA DepthSame ==
  ASSUME NEW s, NEW t, NEW n \in Nat, SameTo(s, t, n), NEW m \in 0..n
  PROVE  TxDepth(s, m) = TxDepth(t, m) /\ FrameDepth(s, m) = FrameDepth(t, m)
  BY CountSame DEF TxDepth, FrameDepth

-----------------------------------------------------------------------------
(***************************************************************************)
(* Open frames.                                                            *)
(***************************************************************************)

\* Frame h is the j-th of those open after event n.
OpenFrame(s, h, j, n) ==
  /\ h \in 1..n
  /\ s[h].type = "FrameEnter"
  /\ FrameDepth(s, h) = j
  /\ \A m \in h..n : FrameDepth(s, m) >= j

\* No two frames are open at the same depth.
LEMMA OneFramePerDepth ==
  ASSUME NEW s, NEW n \in Nat, NEW j \in Int, NEW g, NEW h,
         OpenFrame(s, g, j, n), OpenFrame(s, h, j, n)
  PROVE  g = h
<1>1. ASSUME NEW a, NEW b, OpenFrame(s, a, j, n), OpenFrame(s, b, j, n)
      PROVE  ~(a < b)
  <2> SUFFICES ASSUME a < b PROVE FALSE
    OBVIOUS
  <2>1. a \in 1..n /\ b \in 1..n /\ b - 1 \in Nat /\ b - 1 \in a..n
    BY <1>1 DEF OpenFrame
  <2>2. FrameDepth(s, b - 1) >= j /\ s[b].type = "FrameEnter" /\ FrameDepth(s, b) = j
    BY <1>1, <2>1 DEF OpenFrame
  <2>3. FrameDepth(s, b - 1) \in Int /\ FrameDepth(s, (b - 1) + 1) = FrameDepth(s, b - 1) + 1
    BY <2>1, <2>2, FrameDepthNext
  <2> QED BY <2>1, <2>2, <2>3
<1>2. g \in 1..n /\ h \in 1..n
  BY DEF OpenFrame
<1> QED BY <1>1, <1>2

\* An exit closes the frame that is open at the current depth.
LEMMA ClosesInnermostFrame ==
  ASSUME NEW s, NEW n \in Nat, s[n + 1].type = "FrameExit", NEW h \in 1..n + 1
  PROVE  Closes(s, h, n + 1) <=> OpenFrame(s, h, FrameDepth(s, n), n)
<1>1. FrameDepth(s, n) \in Int /\ FrameDepth(s, n + 1) = FrameDepth(s, n) - 1
  BY FrameDepthNext
<1>2. h < n + 1 <=> h \in 1..n
  OBVIOUS
<1>3. FrameDepth(s, h) \in Int
  <2>1. h \in Nat
    OBVIOUS
  <2> QED BY <2>1, FrameDepthNext
<1>4. (FrameDepth(s, n + 1) = FrameDepth(s, h) - 1) <=> (FrameDepth(s, h) = FrameDepth(s, n))
  BY <1>1, <1>3
<1>5. (n + 1) - 1 = n
  OBVIOUS
<1> QED BY <1>2, <1>4, <1>5 DEF Closes, OpenFrame

\* A frame is entered inside the one that is open at the current depth.
LEMMA EnclosedByInnermost ==
  ASSUME NEW s, NEW n \in Nat, s[n + 1].type = "FrameEnter", NEW h \in 1..n + 1
  PROVE  Encloses(s, h, n + 1) <=> OpenFrame(s, h, FrameDepth(s, n), n)
<1>1. FrameDepth(s, n) \in Int /\ FrameDepth(s, n + 1) = FrameDepth(s, n) + 1
  BY FrameDepthNext
<1>2. h < n + 1 <=> h \in 1..n
  OBVIOUS
<1>3. FrameDepth(s, h) \in Int
  <2>1. h \in Nat
    OBVIOUS
  <2> QED BY <2>1, FrameDepthNext
<1>4. (FrameDepth(s, h) = FrameDepth(s, n + 1) - 1) <=> (FrameDepth(s, h) = FrameDepth(s, n))
  BY <1>1, <1>3
<1>5. (n + 1) - 1 = n
  OBVIOUS
<1>6. Encloses(s, h, n + 1) <=>
        /\ h < n + 1 /\ s[h].type = "FrameEnter"
        /\ FrameDepth(s, h) = FrameDepth(s, n + 1) - 1
        /\ \A m \in h..n : FrameDepth(s, m) >= FrameDepth(s, h)
  BY <1>5 DEF Encloses
<1>7. OpenFrame(s, h, FrameDepth(s, n), n) <=>
        /\ h \in 1..n /\ s[h].type = "FrameEnter"
        /\ FrameDepth(s, h) = FrameDepth(s, n)
        /\ \A m \in h..n : FrameDepth(s, m) >= FrameDepth(s, n)
  BY DEF OpenFrame
<1>8. CASE FrameDepth(s, h) = FrameDepth(s, n)
  BY <1>2, <1>4, <1>6, <1>7, <1>8
<1>9. CASE FrameDepth(s, h) # FrameDepth(s, n)
  BY <1>4, <1>6, <1>7, <1>9
<1> QED BY <1>8, <1>9

\* ids are the ids of the frames open after event n, innermost last.
Stacked(s, n, ids) ==
  /\ FrameDepth(s, n) = Len(ids)
  /\ \A j \in 1..Len(ids) : \E h \in 1..n : OpenFrame(s, h, j, n) /\ s[h].frameID = ids[j]

\* An event that is no frame's leaves the frames open that were.
LEMMA StackedKept ==
  ASSUME NEW s, NEW n \in Nat, NEW S, NEW ids \in Seq(S), Stacked(s, n, ids),
         s[n + 1].type \notin {"FrameEnter", "FrameExit"}
  PROVE  Stacked(s, n + 1, ids)
<1>1. FrameDepth(s, n + 1) = FrameDepth(s, n) /\ FrameDepth(s, n) = Len(ids) /\ Len(ids) \in Nat
  BY FrameDepthNext DEF Stacked
<1>2. ASSUME NEW j \in 1..Len(ids)
      PROVE  \E h \in 1..n + 1 : OpenFrame(s, h, j, n + 1) /\ s[h].frameID = ids[j]
  <2>1. PICK h \in 1..n : OpenFrame(s, h, j, n) /\ s[h].frameID = ids[j]
    BY DEF Stacked
  <2>2. OpenFrame(s, h, j, n + 1)
    BY <1>1, <2>1 DEF OpenFrame
  <2> QED BY <2>1, <2>2
<1> QED BY <1>1, <1>2 DEF Stacked

\* A frame that is entered is the innermost.
LEMMA StackedPushed ==
  ASSUME NEW s, NEW n \in Nat, NEW S, NEW ids \in Seq(S), Stacked(s, n, ids),
         s[n + 1].type = "FrameEnter", s[n + 1].frameID \in S
  PROVE  Stacked(s, n + 1, Append(ids, s[n + 1].frameID))
<1> DEFINE L == Len(ids)
           r == Append(ids, s[n + 1].frameID)
<1>1. /\ L \in Nat /\ Len(r) = L + 1 /\ r[L + 1] = s[n + 1].frameID
      /\ \A j \in 1..L : r[j] = ids[j]
  BY Pushed
<1>2. FrameDepth(s, n) = L /\ FrameDepth(s, n + 1) = L + 1
  BY FrameDepthNext DEF Stacked
<1> HIDE DEF r
<1>3. ASSUME NEW j \in 1..L + 1
      PROVE  \E h \in 1..n + 1 : OpenFrame(s, h, j, n + 1) /\ s[h].frameID = r[j]
  <2>1. CASE j \in 1..L
    <3>1. PICK h \in 1..n : OpenFrame(s, h, j, n) /\ s[h].frameID = ids[j]
      BY <2>1 DEF Stacked
    <3>2. OpenFrame(s, h, j, n + 1)
      BY <1>1, <1>2, <2>1, <3>1 DEF OpenFrame
    <3> QED BY <1>1, <2>1, <3>1, <3>2
  <2>2. CASE j = L + 1
    <3>1. OpenFrame(s, n + 1, j, n + 1)
      BY <1>1, <1>2, <2>2 DEF OpenFrame
    <3> QED BY <1>1, <2>2, <3>1
  <2> QED BY <1>1, <2>1, <2>2
<1> QED BY <1>1, <1>2, <1>3 DEF Stacked, r

\* A frame that is left was the innermost.
LEMMA StackedPopped ==
  ASSUME NEW s, NEW n \in Nat, NEW S, NEW ids \in Seq(S), Stacked(s, n, ids),
         s[n + 1].type = "FrameExit", ids # << >>
  PROVE  Stacked(s, n + 1, SubSeq(ids, 1, Len(ids) - 1))
<1> DEFINE L == Len(ids)
           r == SubSeq(ids, 1, Len(ids) - 1)
<1>1. L \in Nat \ {0} /\ Len(r) = L - 1 /\ \A j \in 1..L - 1 : r[j] = ids[j]
  BY Popped
<1>2. FrameDepth(s, n) = L /\ FrameDepth(s, n + 1) = L - 1
  BY FrameDepthNext DEF Stacked
<1> HIDE DEF r
<1>3. ASSUME NEW j \in 1..L - 1
      PROVE  \E h \in 1..n + 1 : OpenFrame(s, h, j, n + 1) /\ s[h].frameID = r[j]
  <2>1. j \in 1..L /\ r[j] = ids[j]
    BY <1>1
  <2>2. PICK h \in 1..n : OpenFrame(s, h, j, n) /\ s[h].frameID = ids[j]
    BY <2>1 DEF Stacked
  <2>3. FrameDepth(s, n + 1) >= j
    BY <1>1, <1>2
  <2>4. OpenFrame(s, h, j, n + 1)
    BY <2>2, <2>3 DEF OpenFrame
  <2> QED BY <2>1, <2>2, <2>4
<1> QED BY <1>1, <1>2, <1>3 DEF Stacked, r

-----------------------------------------------------------------------------
(***************************************************************************)
(* Scanning: a flag for the open transaction and a stack of ids decide     *)
(* balance, event by event.                                                *)
(***************************************************************************)

\* What a scan has established after n events.
Scanned(s, n, open, ids) ==
  /\ TxDepth(s, n) = IF open THEN 1 ELSE 0
  /\ ~open => ids = << >>
  /\ Stacked(s, n, ids)
  /\ \A i \in 1..n : BalancedAt(s, i)

\* What it asks of the next event.
Balances(e, open, ids) ==
  /\ e.type = "TransactionStart" => ~open
  /\ e.type = "TransactionEnd" => open /\ ids = << >>
  /\ e.type = "FrameEnter" => open
  /\ e.type = "FrameExit" => open /\ ids # << >> /\ e.frameID = ids[Len(ids)]

OpenAfter(e, open) ==
  IF e.type = "TransactionStart" THEN TRUE
  ELSE IF e.type = "TransactionEnd" THEN FALSE ELSE open

StackAfter(e, ids) ==
  IF e.type = "FrameEnter" THEN Append(ids, e.frameID)
  ELSE IF e.type = "FrameExit" THEN SubSeq(ids, 1, Len(ids) - 1) ELSE ids

\* Before the first event.
LEMMA ScannedAtStart ==
  ASSUME NEW s
  PROVE  Scanned(s, 0, FALSE, << >>)
  BY DepthAtStart DEF Scanned, Stacked

\* The ids that the exit at n + 1 may name: the one on top of the stack.
LEMMA ExitDecided ==
  ASSUME NEW s, NEW n \in Nat, NEW S, NEW ids \in Seq(S), Stacked(s, n, ids),
         \A i \in 1..n : FrameDepth(s, i) >= 0, s[n + 1].type = "FrameExit"
  PROVE  (\E h \in 1..n + 1 : Closes(s, h, n + 1) /\ s[h].frameID = s[n + 1].frameID)
           <=> (ids # << >> /\ s[n + 1].frameID = ids[Len(ids)])
<1> DEFINE L == Len(ids)
<1>1. L \in Nat /\ FrameDepth(s, n) = L
  BY DEF Stacked
<1>2. \A h \in 1..n + 1 : Closes(s, h, n + 1) <=> OpenFrame(s, h, L, n)
  BY <1>1, ClosesInnermostFrame
<1>3. CASE ids = << >>
  <2>1. L = 0
    BY <1>3
  <2>2. ASSUME NEW h \in 1..n + 1, OpenFrame(s, h, L, n) PROVE FALSE
    <3>1. h \in 1..n /\ s[h].type = "FrameEnter" /\ FrameDepth(s, h) = 0
          /\ h - 1 \in Nat /\ (h - 1) + 1 = h
      BY <2>1, <2>2 DEF OpenFrame
    <3>2. FrameDepth(s, h - 1) = 0 - 1
      BY <3>1, FrameDepthNext
    <3>3. FrameDepth(s, h - 1) >= 0
      <4>1. h - 1 = 0 \/ h - 1 \in 1..n
        BY <3>1
      <4> QED BY <4>1, DepthAtStart
    <3> QED BY <3>2, <3>3
  <2> QED BY <1>2, <1>3, <2>2
<1>4. CASE ids # << >>
  <2>1. L \in 1..L
    BY <1>1, <1>4
  <2>2. PICK h \in 1..n : OpenFrame(s, h, L, n) /\ s[h].frameID = ids[L]
    BY <2>1 DEF Stacked
  <2>3. h \in 1..n + 1 /\ Closes(s, h, n + 1)
    BY <1>2, <2>2
  <2>4. ASSUME NEW g \in 1..n + 1, Closes(s, g, n + 1)
        PROVE  g = h
    <3>1. OpenFrame(s, g, L, n)
      BY <1>2, <2>4
    <3> QED BY <1>1, <2>2, <3>1, OneFramePerDepth
  <2> QED BY <1>4, <2>2, <2>3, <2>4
<1> QED BY <1>3, <1>4

\* The next event balances exactly when the scan says so.
LEMMA BalanceDecided ==
  ASSUME NEW s, NEW n \in Nat, NEW S, NEW ids \in Seq(S), NEW open \in BOOLEAN,
         Scanned(s, n, open, ids)
  PROVE  BalancedAt(s, n + 1) <=> Balances(s[n + 1], open, ids)
<1> DEFINE e == s[n + 1]
           closed == \E h \in 1..n + 1 : Closes(s, h, n + 1) /\ s[h].frameID = e.frameID
<1>1. /\ TxDepth(s, n) = IF open THEN 1 ELSE 0
      /\ ~open => ids = << >>
      /\ FrameDepth(s, n) = Len(ids) /\ Len(ids) \in Nat
      /\ Len(ids) = 0 <=> ids = << >>
      /\ \A i \in 1..n : FrameDepth(s, i) >= 0
  BY DEF Scanned, Stacked, BalancedAt
<1>2. e.type = "FrameExit" => (closed <=> (ids # << >> /\ e.frameID = ids[Len(ids)]))
  BY <1>1, ExitDecided DEF Scanned
<1>3. BalancedAt(s, n + 1) <=>
        /\ TxDepth(s, n + 1) \in {0, 1}
        /\ e.type \in {"FrameEnter", "FrameExit"} => TxDepth(s, n + 1) = 1
        /\ FrameDepth(s, n + 1) >= 0
        /\ e.type = "TransactionEnd" => FrameDepth(s, n + 1) = 0
        /\ e.type = "FrameExit" => closed
  BY DEF BalancedAt
<1> HIDE DEF closed
<1>4. CASE e.type = "TransactionStart"
  BY <1>1, <1>3, <1>4, TxDepthNext, FrameDepthNext DEF Balances
<1>5. CASE e.type = "TransactionEnd"
  BY <1>1, <1>3, <1>5, TxDepthNext, FrameDepthNext DEF Balances
<1>6. CASE e.type = "FrameEnter"
  BY <1>1, <1>3, <1>6, TxDepthNext, FrameDepthNext DEF Balances
<1>7. CASE e.type = "FrameExit"
  BY <1>1, <1>2, <1>3, <1>7, TxDepthNext, FrameDepthNext DEF Balances
<1>8. CASE e.type \notin {"TransactionStart", "TransactionEnd", "FrameEnter", "FrameExit"}
  BY <1>1, <1>3, <1>8, TxDepthNext, FrameDepthNext DEF Balances
<1> QED BY <1>4, <1>5, <1>6, <1>7, <1>8

\* And then the scan goes on.
LEMMA ScannedNext ==
  ASSUME NEW s, NEW n \in Nat, NEW S, NEW ids \in Seq(S), NEW open \in BOOLEAN,
         Scanned(s, n, open, ids), Balances(s[n + 1], open, ids),
         s[n + 1].type = "FrameEnter" => s[n + 1].frameID \in S
  PROVE  Scanned(s, n + 1, OpenAfter(s[n + 1], open), StackAfter(s[n + 1], ids))
<1> DEFINE e == s[n + 1]
<1>1. \A i \in 1..n + 1 : BalancedAt(s, i)
  <2>1. BalancedAt(s, n + 1)
    BY BalanceDecided
  <2>2. \A i \in 1..n + 1 : i \in 1..n \/ i = n + 1
    OBVIOUS
  <2> QED BY <2>1, <2>2 DEF Scanned
<1>2. Stacked(s, n + 1, StackAfter(e, ids))
  <2>1. CASE e.type = "FrameEnter"
    BY <2>1, StackedPushed DEF Scanned, StackAfter
  <2>2. CASE e.type = "FrameExit"
    <3>1. ids # << >>
      BY <2>2 DEF Balances
    <3> QED BY <2>2, <3>1, StackedPopped DEF Scanned, StackAfter
  <2>3. CASE e.type \notin {"FrameEnter", "FrameExit"}
    BY <2>3, StackedKept DEF Scanned, StackAfter
  <2> QED BY <2>1, <2>2, <2>3
<1>3. TxDepth(s, n + 1) = IF OpenAfter(e, open) THEN 1 ELSE 0
  BY TxDepthNext DEF Scanned, Balances, OpenAfter
<1>4. ~OpenAfter(e, open) => StackAfter(e, ids) = << >>
  BY DEF Scanned, Balances, OpenAfter, StackAfter
<1> QED BY <1>1, <1>2, <1>3, <1>4 DEF Scanned

\* What is known of a stream is known of every other that begins like it.
LEMMA BalancedSame ==
  ASSUME NEW s, NEW t, NEW n \in Nat, SameTo(s, t, n), NEW i \in 1..n
  PROVE  BalancedAt(s, i) <=> BalancedAt(t, i)
<1>1. s[i] = t[i] /\ TxDepth(s, i) = TxDepth(t, i) /\ FrameDepth(s, i) = FrameDepth(t, i)
  BY DepthSame DEF SameTo
<1>2. ASSUME NEW h \in 1..i
      PROVE  s[h] = t[h] /\ (Closes(s, h, i) <=> Closes(t, h, i))
  <2>1. s[h] = t[h] /\ FrameDepth(s, h) = FrameDepth(t, h)
    BY DepthSame DEF SameTo
  <2>2. \A m \in h..i-1 : FrameDepth(s, m) = FrameDepth(t, m)
    BY DepthSame
  <2> QED BY <1>1, <2>1, <2>2 DEF Closes
<1> QED BY <1>1, <1>2 DEF BalancedAt

LEMMA ScannedSame ==
  ASSUME NEW s, NEW t, NEW n \in Nat, SameTo(s, t, n), NEW open, NEW ids,
         Scanned(s, n, open, ids)
  PROVE  Scanned(t, n, open, ids)
<1>1. \A i \in 1..n : BalancedAt(t, i)
  BY BalancedSame DEF Scanned
<1>2. TxDepth(t, n) = TxDepth(s, n) /\ FrameDepth(t, n) = FrameDepth(s, n)
  BY DepthSame
<1>3. ASSUME NEW j, NEW h \in 1..n, OpenFrame(s, h, j, n)
      PROVE  OpenFrame(t, h, j, n) /\ t[h].frameID = s[h].frameID
  <2>1. s[h] = t[h] /\ FrameDepth(s, h) = FrameDepth(t, h)
    BY DepthSame DEF SameTo
  <2>2. \A m \in h..n : FrameDepth(s, m) = FrameDepth(t, m)
    BY DepthSame
  <2> QED BY <1>3, <2>1, <2>2 DEF OpenFrame
<1>4. Stacked(t, n, ids)
  BY <1>2, <1>3 DEF Scanned, Stacked
<1> QED BY <1>1, <1>2, <1>4 DEF Scanned

-----------------------------------------------------------------------------
(***************************************************************************)
(* The rules of Gate 1 beyond balance.                                     *)
(***************************************************************************)

\* A frame that is entered names its parent: the id on top of the stack.
LEMMA EnterDecided ==
  ASSUME NEW s, NEW n \in Nat, NEW S, NEW ids \in Seq(S), Stacked(s, n, ids),
         \A i \in 1..n : FrameDepth(s, i) >= 0, s[n + 1].type = "FrameEnter"
  PROVE  (\/ FrameDepth(s, n + 1) = 1 /\ s[n + 1].parentFrameID = NO_FRAME
          \/ \E h \in 1..n + 1 : Encloses(s, h, n + 1)
                                 /\ s[h].frameID = s[n + 1].parentFrameID)
           <=> s[n + 1].parentFrameID = IF ids = << >> THEN NO_FRAME ELSE ids[Len(ids)]
<1> DEFINE L == Len(ids)
<1>1. L \in Nat /\ FrameDepth(s, n) = L /\ FrameDepth(s, n + 1) = L + 1
  BY FrameDepthNext DEF Stacked
<1>2. \A h \in 1..n + 1 : Encloses(s, h, n + 1) <=> OpenFrame(s, h, L, n)
  BY <1>1, EnclosedByInnermost
<1>3. CASE ids = << >>
  <2>1. L = 0
    BY <1>3
  <2>2. ASSUME NEW h \in 1..n + 1, OpenFrame(s, h, L, n) PROVE FALSE
    <3>1. h \in 1..n /\ s[h].type = "FrameEnter" /\ FrameDepth(s, h) = 0
          /\ h - 1 \in Nat /\ (h - 1) + 1 = h
      BY <2>1, <2>2 DEF OpenFrame
    <3>2. FrameDepth(s, h - 1) = 0 - 1
      BY <3>1, FrameDepthNext
    <3>3. FrameDepth(s, h - 1) >= 0
      <4>1. h - 1 = 0 \/ h - 1 \in 1..n
        BY <3>1
      <4> QED BY <4>1, DepthAtStart
    <3> QED BY <3>2, <3>3
  <2> QED BY <1>1, <1>2, <1>3, <2>1, <2>2
<1>4. CASE ids # << >>
  <2>1. L \in 1..L /\ L + 1 # 1
    BY <1>1, <1>4
  <2>2. PICK h \in 1..n : OpenFrame(s, h, L, n) /\ s[h].frameID = ids[L]
    BY <2>1 DEF Stacked
  <2>3. h \in 1..n + 1 /\ Encloses(s, h, n + 1)
    BY <1>2, <2>2
  <2>4. ASSUME NEW g \in 1..n + 1, Encloses(s, g, n + 1)
        PROVE  g = h
    <3>1. OpenFrame(s, g, L, n)
      BY <1>2, <2>4
    <3> QED BY <1>1, <2>2, <3>1, OneFramePerDepth
  <2> QED BY <1>1, <1>4, <2>1, <2>2, <2>3, <2>4
<1> QED BY <1>3, <1>4

\* Root frames entered after the last transaction that has ended.
Roots(s, n) ==
  {i \in 1..n : /\ s[i].type = "FrameEnter" /\ FrameDepth(s, i) = 1
                /\ \A m \in i..n : s[m].type # "TransactionEnd"}

LEMMA RootsFinite ==
  ASSUME NEW s, NEW n \in Nat
  PROVE  IsFiniteSet(Roots(s, n)) /\ Cardinality(Roots(s, n)) \in Nat
<1>1. IsFiniteSet(1..n) /\ Roots(s, n) \in SUBSET (1..n)
  BY FS_Interval DEF Roots
<1> QED BY <1>1, FS_Subset, FS_CardinalityType

\* What one event does to them.
LEMMA RootsNext ==
  ASSUME NEW s, NEW n \in Nat
  PROVE  /\ s[n + 1].type = "TransactionEnd" =>
              Roots(s, n + 1) = {} /\ RootsOf(s, n + 1) = Roots(s, n)
         /\ s[n + 1].type = "FrameEnter" /\ FrameDepth(s, n + 1) = 1 =>
              Roots(s, n + 1) = Roots(s, n) \cup {n + 1}
         /\ s[n + 1].type = "FrameEnter" /\ FrameDepth(s, n + 1) # 1 =>
              Roots(s, n + 1) = Roots(s, n)
         /\ s[n + 1].type \notin {"TransactionEnd", "FrameEnter"} =>
              Roots(s, n + 1) = Roots(s, n)
         /\ n + 1 \notin Roots(s, n)
<1>1. \A i \in 1..n + 1 : i \in 1..n \/ i = n + 1
  OBVIOUS
<1>2. \A i \in 1..n + 1 : n + 1 \in i..n + 1
  OBVIOUS
<1>3. s[n + 1].type = "TransactionEnd" => Roots(s, n + 1) = {}
  BY <1>2 DEF Roots
<1>4. s[n + 1].type = "TransactionEnd" => RootsOf(s, n + 1) = Roots(s, n)
  <2>1. (n + 1) - 1 = n
    OBVIOUS
  <2> QED BY <1>1, <2>1 DEF Roots, RootsOf
<1>5. s[n + 1].type # "TransactionEnd" =>
        \A i \in 1..n : (\A m \in i..n + 1 : s[m].type # "TransactionEnd")
                          <=> (\A m \in i..n : s[m].type # "TransactionEnd")
  OBVIOUS
<1>6. s[n + 1].type # "TransactionEnd" =>
        \A m \in n + 1..n + 1 : s[m].type # "TransactionEnd"
  OBVIOUS
<1>7. s[n + 1].type = "FrameEnter" /\ FrameDepth(s, n + 1) = 1 =>
        Roots(s, n + 1) = Roots(s, n) \cup {n + 1}
  BY <1>1, <1>5, <1>6 DEF Roots
<1>8. s[n + 1].type # "TransactionEnd"
        /\ ~(s[n + 1].type = "FrameEnter" /\ FrameDepth(s, n + 1) = 1) =>
        Roots(s, n + 1) = Roots(s, n)
  BY <1>1, <1>5 DEF Roots
<1>9. n + 1 \notin Roots(s, n)
  BY DEF Roots
<1> QED BY <1>3, <1>4, <1>7, <1>8, <1>9

\* What the gate's two counters of T1 stand for.
RootsKnown(s, n, open, ids, count, outcome) ==
  /\ IF open THEN Cardinality(Roots(s, n)) = count ELSE Roots(s, n) = {}
  /\ open /\ count = 1 =>
       /\ \A h \in Roots(s, n), j \in 1..n : Closes(s, h, j) => s[j].reverted = outcome
       /\ ids = << >> =>
            \E h \in Roots(s, n), j \in 1..n : Closes(s, h, j) /\ s[j].reverted = outcome

\* An exit that comes later is no other event's.
LEMMA ClosesOnlyAtExit ==
  ASSUME NEW s, NEW n \in Nat, s[n + 1].type # "FrameExit", NEW h, NEW j \in 1..n + 1,
         Closes(s, h, j)
  PROVE  j \in 1..n
  BY DEF Closes

\* An event that opens and closes nothing, and one that starts or ends a
\* transaction.
LEMMA RootsKept ==
  ASSUME NEW s, NEW n \in Nat, NEW open, NEW ids, NEW count, NEW outcome,
         RootsKnown(s, n, open, ids, count, outcome),
         s[n + 1].type \notin {"TransactionStart", "TransactionEnd", "FrameEnter", "FrameExit"}
  PROVE  RootsKnown(s, n + 1, open, ids, count, outcome)
<1>1. Roots(s, n + 1) = Roots(s, n)
  BY RootsNext
<1>2. \A j \in 1..n : j \in 1..n + 1
  OBVIOUS
<1>3. \A h, j : j \in 1..n + 1 /\ Closes(s, h, j) => j \in 1..n
  BY ClosesOnlyAtExit
<1> QED BY <1>1, <1>2, <1>3 DEF RootsKnown

LEMMA RootsAtTxStart ==
  ASSUME NEW s, NEW n \in Nat, NEW ids, NEW count, NEW outcome, NEW new,
         RootsKnown(s, n, FALSE, ids, count, outcome), s[n + 1].type = "TransactionStart"
  PROVE  RootsKnown(s, n + 1, TRUE, ids, 0, new)
<1>1. Roots(s, n + 1) = {}
  BY RootsNext DEF RootsKnown
<1>2. Cardinality(Roots(s, n + 1)) = 0
  BY <1>1, FS_EmptySet
<1> QED BY <1>2 DEF RootsKnown

LEMMA RootsAtTxEnd ==
  ASSUME NEW s, NEW n \in Nat, NEW ids, NEW count, NEW outcome,
         s[n + 1].type = "TransactionEnd"
  PROVE  RootsKnown(s, n + 1, FALSE, ids, count, outcome)
  BY RootsNext DEF RootsKnown

\* A frame is entered: it is a root frame when no other is open.
LEMMA RootsAtEnter ==
  ASSUME NEW s, NEW n \in Nat, NEW S, NEW ids \in Seq(S), NEW count \in Nat, NEW outcome,
         RootsKnown(s, n, TRUE, ids, count, outcome), Stacked(s, n, ids),
         s[n + 1].type = "FrameEnter", s[n + 1].frameID \in S
  PROVE  RootsKnown(s, n + 1, TRUE, Append(ids, s[n + 1].frameID),
                    IF ids = << >> THEN count + 1 ELSE count, outcome)
<1> DEFINE after == IF ids = << >> THEN count + 1 ELSE count
           pushed == Append(ids, s[n + 1].frameID)
<1>1. FrameDepth(s, n + 1) = Len(ids) + 1 /\ Len(ids) \in Nat /\ (Len(ids) = 0 <=> ids = << >>)
  BY FrameDepthNext DEF Stacked
<1>2. IsFiniteSet(Roots(s, n)) /\ Cardinality(Roots(s, n)) = count
  BY RootsFinite DEF RootsKnown
<1>3. Cardinality(Roots(s, n) \cup {n + 1}) = count + 1
  BY <1>2, RootsNext, FS_AddElement
<1>4. Cardinality(Roots(s, n + 1)) = after
  <2>1. CASE ids = << >>
    <3>1. Roots(s, n + 1) = Roots(s, n) \cup {n + 1}
      <4>1. FrameDepth(s, n + 1) = 1
        BY <1>1, <2>1
      <4> QED BY <4>1, RootsNext
    <3> QED BY <1>3, <2>1, <3>1
  <2>2. CASE ids # << >>
    <3>1. FrameDepth(s, n + 1) # 1
      BY <1>1, <2>2
    <3> QED BY <1>2, <2>2, <3>1, RootsNext
  <2> QED BY <2>1, <2>2
<1>5. pushed # << >>
  <2>1. Len(pushed) = Len(ids) + 1
    BY Pushed
  <2> HIDE DEF pushed
  <2> QED BY <1>1, <2>1
<1>6. ASSUME after = 1, NEW h \in Roots(s, n + 1), NEW j \in 1..n + 1, Closes(s, h, j)
      PROVE  s[j].reverted = outcome
  <2>1. j \in 1..n /\ h < j
    BY <1>6, ClosesOnlyAtExit DEF Closes
  <2>2. h \in Roots(s, n)
    <3>1. h # n + 1
      BY <2>1
    <3> QED BY <1>6, <3>1, RootsNext
  <2>3. count # 0
    <3>1. Roots(s, n) # {}
      BY <2>2
    <3> QED BY <1>2, <3>1, FS_EmptySet
  <2>4. count = 1
    BY <1>6, <2>3
  <2> QED BY <1>6, <2>1, <2>2, <2>4 DEF RootsKnown
<1> HIDE DEF after, pushed
<1>7. RootsKnown(s, n + 1, TRUE, pushed, after, outcome)
  BY <1>4, <1>5, <1>6 DEF RootsKnown
<1> QED BY <1>7 DEF after, pushed

\* A frame is left: when it was the last on the stack, a root frame.
LEMMA RootsAtExit ==
  ASSUME NEW s, NEW n \in Nat, NEW S, NEW ids \in Seq(S), NEW count, NEW outcome,
         RootsKnown(s, n, TRUE, ids, count, outcome), Stacked(s, n, ids),
         \A i \in 1..n : BalancedAt(s, i), s[n + 1].type = "FrameExit", ids # << >>
  PROVE  RootsKnown(s, n + 1, TRUE, SubSeq(ids, 1, Len(ids) - 1), count,
                    IF Len(ids) = 1 THEN s[n + 1].reverted ELSE outcome)
<1> DEFINE L == Len(ids)
           after == IF L = 1 THEN s[n + 1].reverted ELSE outcome
           popped == SubSeq(ids, 1, L - 1)
<1>1. L \in Nat \ {0} /\ FrameDepth(s, n) = L
  BY DEF Stacked
<1>2. Roots(s, n + 1) = Roots(s, n) /\ Cardinality(Roots(s, n)) = count
      /\ IsFiniteSet(Roots(s, n))
  BY RootsNext, RootsFinite DEF RootsKnown
<1>3. \A h \in Roots(s, n) : h \in 1..n /\ h \in 1..n + 1 /\ FrameDepth(s, h) = 1
  BY DEF Roots
<1>4. \A j \in 1..n + 1 : j \in 1..n \/ j = n + 1
  OBVIOUS
<1>5. CASE L # 1
  <2>1. popped # << >>
    <3>1. Len(popped) = L - 1
      BY Popped
    <3> HIDE DEF popped
    <3> QED BY <1>1, <1>5, <3>1
  <2>2. \A h \in Roots(s, n) : ~Closes(s, h, n + 1)
    <3> SUFFICES ASSUME NEW h \in Roots(s, n), Closes(s, h, n + 1) PROVE FALSE
      OBVIOUS
    <3>1. OpenFrame(s, h, L, n)
      BY <1>1, <1>3, ClosesInnermostFrame
    <3> QED BY <1>3, <1>5, <3>1 DEF OpenFrame
  <2> HIDE DEF popped, L
  <2>3. RootsKnown(s, n + 1, TRUE, popped, count, outcome)
    BY <1>2, <1>4, <2>1, <2>2 DEF RootsKnown
  <2> QED BY <1>5, <2>3 DEF popped, L
<1>6. CASE L = 1
  <2>1. PICK g \in 1..n : OpenFrame(s, g, 1, n)
    <3>1. 1 \in 1..Len(ids)
      BY <1>6
    <3> QED BY <3>1 DEF Stacked
  <2>2. g \in Roots(s, n)
    <3>1. ASSUME NEW m \in g..n PROVE s[m].type # "TransactionEnd"
      <4>1. m \in 1..n /\ FrameDepth(s, m) >= 1
        BY <2>1, <3>1 DEF OpenFrame
      <4>2. s[m].type = "TransactionEnd" => FrameDepth(s, m) = 0
        BY <4>1 DEF BalancedAt
      <4> QED BY <4>1, <4>2
    <3> QED BY <2>1, <3>1 DEF OpenFrame, Roots
  <2>3. Closes(s, g, n + 1)
    BY <1>1, <1>3, <1>6, <2>1, <2>2, ClosesInnermostFrame
  <2>4. ASSUME count = 1, NEW h \in Roots(s, n) PROVE h = g
    <3>1. PICK x : Roots(s, n) = {x}
      BY <1>2, <2>4, FS_Singleton
    <3> QED BY <2>2, <2>4, <3>1
  <2>5. ASSUME NEW j \in 1..n, Closes(s, g, j) PROVE FALSE
    <3>1. j \in g..n /\ FrameDepth(s, j) = FrameDepth(s, g) - 1
      BY <2>5, <2>1 DEF Closes
    <3>2. FrameDepth(s, j) >= 1 /\ FrameDepth(s, g) = 1
      BY <2>1, <3>1 DEF OpenFrame
    <3> QED BY <3>1, <3>2
  <2>6. n + 1 \in 1..n + 1
    OBVIOUS
  <2> HIDE DEF popped, L
  <2>7. RootsKnown(s, n + 1, TRUE, popped, count, s[n + 1].reverted)
    BY <1>2, <1>4, <2>2, <2>3, <2>4, <2>5, <2>6 DEF RootsKnown
  <2> QED BY <1>6, <2>7 DEF popped, L
<1> QED BY <1>5, <1>6

-----------------------------------------------------------------------------
(***************************************************************************)
(* One iteration of Gate 1's loop.                                         *)
(***************************************************************************)

\* All that a well-formed stream keeps at event i.
RulesAt(s, i) ==
  /\ i > 1 => s[i].sequence > s[i-1].sequence
  /\ BalancedAt(s, i)
  /\ TopologyAt(s, i)

\* A rule of event i is broken, or the stream ends there in a transaction.
BrokenAt(s, i) == ~RulesAt(s, i) \/ (i = Len(s) /\ TxDepth(s, i) # 0)

LEMMA BrokenIsIllFormed ==
  ASSUME NEW s, NEW i \in 1..Len(s), BrokenAt(s, i), Len(s) \in Nat
  PROVE  ~WellFormed(s)
<1> SUFFICES ASSUME WellFormed(s) PROVE FALSE
  OBVIOUS
<1>1. BalancedAt(s, i) /\ TopologyAt(s, i)
  BY DEF WellFormed, Balanced
<1>2. i > 1 => s[i].sequence > s[i-1].sequence
  BY DEF WellFormed
<1>3. i # Len(s) \/ TxDepth(s, i) = 0
  BY DEF WellFormed, Balanced
<1> QED BY <1>1, <1>2, <1>3 DEF BrokenAt, RulesAt

LEMMA UnbrokenIsWellFormed ==
  ASSUME NEW s, Len(s) \in Nat, Encapsulated(s), s # << >> => Len(s) > 0,
         \A i \in 1..Len(s) : RulesAt(s, i), TxDepth(s, Len(s)) = 0
  PROVE  WellFormed(s)
<1>1. \A i \in 2..Len(s) : i \in 1..Len(s) /\ i > 1
  OBVIOUS
<1>2. Balanced(s)
  BY DEF Balanced, RulesAt
<1> QED BY <1>1, <1>2 DEF WellFormed, RulesAt, Encapsulated

\* What the gate knows after n events; ids of frames are in S.
Knows(s, n, S, counted, prev, open, ids, count, outcome) ==
  /\ open \in BOOLEAN /\ ids \in Seq(S) /\ count \in Nat
  /\ Scanned(s, n, open, ids)
  /\ RootsKnown(s, n, open, ids, count, outcome)
  /\ counted <=> n > 0
  /\ n > 0 => prev = s[n].sequence

LEMMA KnowsAtStart ==
  ASSUME NEW s, NEW S
  PROVE  Knows(s, 0, S, FALSE, 0, FALSE, << >>, 0, FALSE)
<1>1. << >> \in Seq(S)
  OBVIOUS
<1>2. Roots(s, 0) = {}
  BY DEF Roots
<1>3. RootsKnown(s, 0, FALSE, << >>, 0, FALSE)
  BY <1>2 DEF RootsKnown
<1>4. ~(0 > 0) /\ 0 \in Nat
  OBVIOUS
<1>5. Scanned(s, 0, FALSE, << >>)
  BY ScannedAtStart
<1> QED BY <1>1, <1>3, <1>4, <1>5, Zenon DEF Knows

\* It knows the same of every stream that begins alike.
LEMMA KnowsSame ==
  ASSUME NEW s, NEW t, NEW n \in Nat, SameTo(s, t, n),
         NEW S, NEW counted, NEW prev, NEW open, NEW ids, NEW count, NEW outcome,
         Knows(s, n, S, counted, prev, open, ids, count, outcome)
  PROVE  Knows(t, n, S, counted, prev, open, ids, count, outcome)
<1>1. Scanned(t, n, open, ids)
  BY ScannedSame DEF Knows
<1>2. \A m \in 1..n : s[m] = t[m] /\ FrameDepth(s, m) = FrameDepth(t, m)
  BY DepthSame DEF SameTo
<1>3. Roots(s, n) = Roots(t, n)
  BY <1>2 DEF Roots
<1>4. ASSUME NEW h \in 1..n, NEW j \in 1..n
      PROVE  Closes(s, h, j) <=> Closes(t, h, j)
  <2>1. \A m \in h..j-1 : m \in 1..n
    OBVIOUS
  <2> QED BY <1>2, <2>1 DEF Closes
<1>5. \A h \in Roots(s, n) : h \in 1..n
  BY DEF Roots
<1>6. \A h \in Roots(s, n), j \in 1..n : Closes(s, h, j) <=> Closes(t, h, j)
  BY <1>4, <1>5
<1>7. RootsKnown(t, n, open, ids, count, outcome)
  BY <1>2, <1>3, <1>6 DEF Knows, RootsKnown
<1>8. n > 0 => prev = t[n].sequence
  BY <1>2 DEF Knows
<1> QED BY <1>1, <1>7, <1>8 DEF Knows

\* The gate has read n events of s.
GateKnows(s, n, S) ==
  Knows(s, n, S, seqInitialized, prevSeq, txOpen, gateFrames, rootFrameCount,
        rootFrameReverted)

\* Event n + 1 is accepted.
LEMMA AcceptedStep ==
  ASSUME NEW s, NEW n \in Nat, NEW S, GateKnows(s, n, S),
         Monotonic(s[n + 1]), Accept(s[n + 1]), Balances(s[n + 1], txOpen, gateFrames),
         s[n + 1].type = "FrameEnter" => s[n + 1].frameID \in S,
         txOpen' = OpenAfter(s[n + 1], txOpen), gateFrames' = StackAfter(s[n + 1], gateFrames),
         RootsKnown(s, n + 1, txOpen', gateFrames', rootFrameCount', rootFrameReverted'),
         rootFrameCount' \in Nat, TopologyAt(s, n + 1)
  PROVE  /\ RulesAt(s, n + 1)
         /\ Knows(s, n + 1, S, seqInitialized', prevSeq', txOpen', gateFrames',
                  rootFrameCount', rootFrameReverted')
<1>1. /\ Scanned(s, n, txOpen, gateFrames)
      /\ txOpen \in BOOLEAN /\ gateFrames \in Seq(S)
      /\ seqInitialized <=> n > 0
      /\ n > 0 => prevSeq = s[n].sequence
  BY DEF GateKnows, Knows
<1>2. BalancedAt(s, n + 1)
  BY <1>1, BalanceDecided
<1>3. Scanned(s, n + 1, txOpen', gateFrames')
  BY <1>1, ScannedNext
<1>4. n + 1 > 1 => s[n + 1].sequence > s[(n + 1) - 1].sequence
  <2>1. (n + 1) - 1 = n /\ (n + 1 > 1 <=> n > 0)
    OBVIOUS
  <2> QED BY <1>1, <2>1 DEF Monotonic
<1>5. seqInitialized' = TRUE /\ prevSeq' = s[n + 1].sequence /\ n + 1 > 0
  BY DEF Accept
<1>6. txOpen' \in BOOLEAN /\ gateFrames' \in Seq(S)
  <2>1. txOpen' \in BOOLEAN
    BY <1>1 DEF OpenAfter
  <2>2. gateFrames' \in Seq(S)
    <3>1. CASE s[n + 1].type = "FrameEnter"
      BY <1>1, <3>1, Pushed DEF StackAfter
    <3>2. CASE s[n + 1].type = "FrameExit"
      <4>1. gateFrames # << >>
        BY <3>2 DEF Balances
      <4> QED BY <1>1, <3>2, <4>1, Popped DEF StackAfter
    <3>3. CASE s[n + 1].type \notin {"FrameEnter", "FrameExit"}
      BY <1>1, <3>3 DEF StackAfter
    <3> QED BY <3>1, <3>2, <3>3
  <2> QED BY <2>1, <2>2
<1>7. RulesAt(s, n + 1)
  BY <1>2, <1>4 DEF RulesAt
<1> QED BY <1>3, <1>5, <1>6, <1>7 DEF Knows

\* A number that does not increase breaks the rule about numbers.
LEMMA SequenceRejected ==
  ASSUME NEW s, NEW n \in Nat, NEW S, GateKnows(s, n, S), ~Monotonic(s[n + 1])
  PROVE  BrokenAt(s, n + 1)
<1>1. n > 0 /\ ~(s[n + 1].sequence > s[n].sequence)
  BY DEF GateKnows, Knows, Monotonic
<1>2. (n + 1) - 1 = n /\ n + 1 > 1
  BY <1>1
<1> QED BY <1>1, <1>2 DEF BrokenAt, RulesAt

\* So does an event out of balance.
LEMMA BalanceRejected ==
  ASSUME NEW s, NEW n \in Nat, NEW S, GateKnows(s, n, S),
         ~Balances(s[n + 1], txOpen, gateFrames)
  PROVE  BrokenAt(s, n + 1)
<1>1. ~BalancedAt(s, n + 1)
  BY BalanceDecided DEF GateKnows, Knows
<1> QED BY <1>1 DEF BrokenAt, RulesAt

\* The gate is about to read event n + 1 of s, which it takes for its last
\* exactly when it is.
GateAt(s, n, S, N) ==
  /\ GateKnows(s, n, S)
  /\ verdict = "running"
  /\ Monotonic(s[n + 1])
  /\ s[n + 1].type = "FrameEnter" => s[n + 1].frameID \in S
  /\ n + 1 = N <=> n + 1 = Len(s)

\* Its verdict is right: it goes on where no rule is broken and keeps its
\* account of the stream, and names a rule where one is.
RightlyJudged(s, n, S) ==
  /\ verdict' = "running" =>
       /\ RulesAt(s, n + 1)
       /\ Knows(s, n + 1, S, seqInitialized', prevSeq', txOpen', gateFrames',
                rootFrameCount', rootFrameReverted')
  /\ verdict' # "running" => verdict' \in Rule /\ BrokenAt(s, n + 1)

\* One lemma for each case of the switch.
LEMMA MutationJudged ==
  ASSUME NEW s, NEW n \in Nat, NEW S, NEW N, GateAt(s, n, S, N),
         s[n + 1].type \in {"Mutation", "AccountCreated", "SelfDestruct"},
         GateMutation(s[n + 1])
  PROVE  RightlyJudged(s, n, S)
<1>1. GateKnows(s, n, S) /\ Monotonic(s[n + 1]) /\ Accept(s[n + 1]) /\ verdict' = "running"
      /\ UNCHANGED <<txOpen, gateFrames, rootFrameCount, rootFrameReverted>>
  BY DEF GateAt, GateMutation, Accept
<1>2. Balances(s[n + 1], txOpen, gateFrames) /\ TopologyAt(s, n + 1)
  BY DEF Balances, TopologyAt
<1>3. txOpen' = OpenAfter(s[n + 1], txOpen) /\ gateFrames' = StackAfter(s[n + 1], gateFrames)
  BY <1>1 DEF OpenAfter, StackAfter
<1>4. RootsKnown(s, n + 1, txOpen', gateFrames', rootFrameCount', rootFrameReverted')
      /\ rootFrameCount' \in Nat
  BY <1>1, RootsKept DEF GateKnows, Knows
<1> QED BY <1>1, <1>2, <1>3, <1>4, AcceptedStep DEF RightlyJudged

LEMMA BlockStartJudged ==
  ASSUME NEW s, NEW n \in Nat, NEW S, NEW N, GateAt(s, n, S, N),
         s[n + 1].type = "BlockStart", GateBlockStart(s[n + 1], n + 1)
  PROVE  RightlyJudged(s, n, S)
<1>1. CASE n + 1 # 1 /\ Reject("block-encapsulation")
  BY <1>1 DEF RightlyJudged, BrokenAt, RulesAt, TopologyAt, Reject, Rule
<1>2. CASE n + 1 = 1 /\ Accept(s[n + 1])
           /\ UNCHANGED <<txOpen, gateFrames, rootFrameCount, rootFrameReverted>>
  <2>1. GateKnows(s, n, S) /\ Monotonic(s[n + 1]) /\ verdict' = "running"
    BY <1>2 DEF GateAt, Accept
  <2>2. Balances(s[n + 1], txOpen, gateFrames) /\ TopologyAt(s, n + 1)
    BY <1>2 DEF Balances, TopologyAt
  <2>3. txOpen' = OpenAfter(s[n + 1], txOpen) /\ gateFrames' = StackAfter(s[n + 1], gateFrames)
    BY <1>2 DEF OpenAfter, StackAfter
  <2>4. RootsKnown(s, n + 1, txOpen', gateFrames', rootFrameCount', rootFrameReverted')
        /\ rootFrameCount' \in Nat
    BY <1>2, <2>1, RootsKept DEF GateKnows, Knows
  <2> QED BY <1>2, <2>1, <2>2, <2>3, <2>4, AcceptedStep DEF RightlyJudged
<1> QED BY <1>1, <1>2 DEF GateBlockStart

LEMMA BlockCommitJudged ==
  ASSUME NEW s, NEW n \in Nat, NEW S, NEW N, GateAt(s, n, S, N),
         s[n + 1].type = "BlockCommit", GateBlockCommit(s[n + 1], n + 1, N)
  PROVE  RightlyJudged(s, n, S)
<1>0. GateKnows(s, n, S) /\ Monotonic(s[n + 1]) /\ (n + 1 = N <=> n + 1 = Len(s))
  BY DEF GateAt
<1>1. CASE n + 1 # N /\ Reject("block-encapsulation")
  BY <1>0, <1>1 DEF RightlyJudged, BrokenAt, RulesAt, TopologyAt, Reject, Rule
<1>2. CASE n + 1 = N /\ txOpen /\ Reject("tx-encapsulation")
  <2>1. TxDepth(s, n + 1) # 0
    BY <1>0, <1>2, TxDepthNext DEF GateKnows, Knows, Scanned
  <2> QED BY <1>0, <1>2, <2>1 DEF RightlyJudged, BrokenAt, Reject, Rule
<1>3. CASE n + 1 = N /\ ~txOpen /\ Accept(s[n + 1])
           /\ UNCHANGED <<txOpen, gateFrames, rootFrameCount, rootFrameReverted>>
  <2>1. verdict' = "running"
    BY <1>3 DEF GateAt, Accept
  <2>2. Balances(s[n + 1], txOpen, gateFrames) /\ TopologyAt(s, n + 1)
    BY <1>0, <1>3 DEF Balances, TopologyAt
  <2>3. txOpen' = OpenAfter(s[n + 1], txOpen) /\ gateFrames' = StackAfter(s[n + 1], gateFrames)
    BY <1>3 DEF OpenAfter, StackAfter
  <2>4. RootsKnown(s, n + 1, txOpen', gateFrames', rootFrameCount', rootFrameReverted')
        /\ rootFrameCount' \in Nat
    BY <1>0, <1>3, RootsKept DEF GateKnows, Knows
  <2> QED BY <1>0, <1>3, <2>1, <2>2, <2>3, <2>4, AcceptedStep DEF RightlyJudged
<1> QED BY <1>1, <1>2, <1>3 DEF GateBlockCommit

LEMMA TransactionStartJudged ==
  ASSUME NEW s, NEW n \in Nat, NEW S, NEW N, GateAt(s, n, S, N),
         s[n + 1].type = "TransactionStart", GateTransactionStart(s[n + 1])
  PROVE  RightlyJudged(s, n, S)
<1>0. GateKnows(s, n, S) /\ Monotonic(s[n + 1])
  BY DEF GateAt
<1>1. CASE txOpen /\ Reject("tx-encapsulation")
  <2>1. ~Balances(s[n + 1], txOpen, gateFrames)
    BY <1>1 DEF Balances
  <2> QED BY <1>0, <1>1, <2>1, BalanceRejected DEF RightlyJudged, Reject, Rule
<1>2. CASE /\ ~txOpen /\ Accept(s[n + 1]) /\ txOpen' = TRUE /\ gateFrames' = << >>
           /\ rootFrameCount' = 0 /\ rootFrameReverted' = FALSE
  <2>1. verdict' = "running"
    BY <1>2 DEF GateAt, Accept
  <2>2. Balances(s[n + 1], txOpen, gateFrames) /\ TopologyAt(s, n + 1)
    BY <1>2 DEF Balances, TopologyAt
  <2>3. gateFrames = << >> /\ txOpen = FALSE
        /\ RootsKnown(s, n, FALSE, gateFrames, rootFrameCount, rootFrameReverted)
    BY <1>0, <1>2 DEF GateKnows, Knows, Scanned
  <2>4. txOpen' = OpenAfter(s[n + 1], txOpen) /\ gateFrames' = StackAfter(s[n + 1], gateFrames)
    BY <1>2, <2>3 DEF OpenAfter, StackAfter
  <2>5. RootsKnown(s, n + 1, TRUE, << >>, 0, FALSE)
    BY <2>3, RootsAtTxStart
  <2>6. RootsKnown(s, n + 1, txOpen', gateFrames', rootFrameCount', rootFrameReverted')
        /\ rootFrameCount' \in Nat
    BY <1>2, <2>5
  <2> QED BY <1>0, <1>2, <2>1, <2>2, <2>4, <2>6, AcceptedStep DEF RightlyJudged
<1> QED BY <1>1, <1>2 DEF GateTransactionStart

\* T1 as the gate checks it is T1 as the counting definition states it.
LEMMA OutcomeDecided ==
  ASSUME NEW s, NEW n \in Nat, NEW S, GateKnows(s, n, S), txOpen, gateFrames = << >>,
         s[n + 1].type = "TransactionEnd"
  PROVE  TopologyAt(s, n + 1) <=> T1Consistent(s[n + 1])
<1>1. /\ RootsKnown(s, n, TRUE, << >>, rootFrameCount, rootFrameReverted)
      /\ rootFrameCount \in Nat
  <2>1. txOpen = TRUE
    BY DEF GateKnows, Knows
  <2> QED BY <2>1 DEF GateKnows, Knows
<1>2. RootsOf(s, n + 1) = Roots(s, n)
  BY RootsNext
<1>3. \A h, j : j \in 1..n + 1 /\ Closes(s, h, j) => j \in 1..n
  BY ClosesOnlyAtExit
<1>4. TopologyAt(s, n + 1) <=>
        /\ Cardinality(Roots(s, n)) <= 1
        /\ \A h \in Roots(s, n), j \in 1..n :
             Closes(s, h, j) => s[j].reverted = s[n + 1].reverted
  <2>1. \A j \in 1..n : j \in 1..n + 1
    OBVIOUS
  <2> QED BY <1>2, <1>3, <2>1 DEF TopologyAt
<1>5. Cardinality(Roots(s, n)) = rootFrameCount
  BY <1>1 DEF RootsKnown
<1>6. CASE rootFrameCount = 0
  <2>1. Roots(s, n) = {}
    BY <1>5, <1>6, RootsFinite, FS_EmptySet
  <2> QED BY <1>4, <1>5, <1>6, <2>1 DEF T1Consistent
<1>7. CASE rootFrameCount = 1
  <2>1. /\ \A h \in Roots(s, n), j \in 1..n :
             Closes(s, h, j) => s[j].reverted = rootFrameReverted
        /\ \E h \in Roots(s, n), j \in 1..n :
             Closes(s, h, j) /\ s[j].reverted = rootFrameReverted
    BY <1>1, <1>7 DEF RootsKnown
  <2>2. (\A h \in Roots(s, n), j \in 1..n :
           Closes(s, h, j) => s[j].reverted = s[n + 1].reverted)
          <=> s[n + 1].reverted = rootFrameReverted
    BY <2>1
  <2>3. T1Consistent(s[n + 1]) <=> s[n + 1].reverted = rootFrameReverted
    BY <1>7 DEF T1Consistent
  <2> QED BY <1>4, <1>5, <1>7, <2>2, <2>3
<1>8. CASE rootFrameCount > 1
  BY <1>1, <1>4, <1>5, <1>8 DEF T1Consistent
<1> QED BY <1>1, <1>6, <1>7, <1>8

LEMMA TransactionEndJudged ==
  ASSUME NEW s, NEW n \in Nat, NEW S, NEW N, GateAt(s, n, S, N),
         s[n + 1].type = "TransactionEnd", GateTransactionEnd(s[n + 1])
  PROVE  RightlyJudged(s, n, S)
<1>0. GateKnows(s, n, S) /\ Monotonic(s[n + 1])
  BY DEF GateAt
<1>1. CASE \/ ~txOpen /\ Reject("tx-encapsulation")
           \/ txOpen /\ gateFrames # << >> /\ Reject("frame-balance")
  <2>1. ~Balances(s[n + 1], txOpen, gateFrames)
    BY <1>1 DEF Balances
  <2> QED BY <1>0, <1>1, <2>1, BalanceRejected DEF RightlyJudged, Reject, Rule
<1>2. CASE txOpen /\ gateFrames = << >> /\ ~T1Consistent(s[n + 1]) /\ Reject("t1-consistency")
  <2>1. ~TopologyAt(s, n + 1)
    BY <1>0, <1>2, OutcomeDecided
  <2> QED BY <1>2, <2>1 DEF RightlyJudged, BrokenAt, RulesAt, Reject, Rule
<1>3. CASE /\ txOpen /\ gateFrames = << >> /\ T1Consistent(s[n + 1])
           /\ Accept(s[n + 1]) /\ txOpen' = FALSE
           /\ UNCHANGED <<gateFrames, rootFrameCount, rootFrameReverted>>
  <2>1. verdict' = "running"
    BY <1>3 DEF GateAt, Accept
  <2>2. Balances(s[n + 1], txOpen, gateFrames)
    BY <1>3 DEF Balances
  <2>3. TopologyAt(s, n + 1)
    BY <1>0, <1>3, OutcomeDecided
  <2>4. txOpen' = OpenAfter(s[n + 1], txOpen) /\ gateFrames' = StackAfter(s[n + 1], gateFrames)
    BY <1>3 DEF OpenAfter, StackAfter
  <2>5. RootsKnown(s, n + 1, txOpen', gateFrames', rootFrameCount', rootFrameReverted')
        /\ rootFrameCount' \in Nat
    BY <1>0, <1>3, RootsAtTxEnd DEF GateKnows, Knows
  <2> QED BY <1>0, <1>3, <2>1, <2>2, <2>3, <2>4, <2>5, AcceptedStep DEF RightlyJudged
<1> QED BY <1>1, <1>2, <1>3 DEF GateTransactionEnd

LEMMA FrameEnterJudged ==
  ASSUME NEW s, NEW n \in Nat, NEW S, NEW N, GateAt(s, n, S, N),
         s[n + 1].type = "FrameEnter", GateFrameEnter(s[n + 1])
  PROVE  RightlyJudged(s, n, S)
<1>0. /\ GateKnows(s, n, S) /\ Monotonic(s[n + 1]) /\ s[n + 1].frameID \in S
      /\ Stacked(s, n, gateFrames) /\ gateFrames \in Seq(S) /\ rootFrameCount \in Nat
      /\ RootsKnown(s, n, txOpen, gateFrames, rootFrameCount, rootFrameReverted)
      /\ txOpen \in BOOLEAN
      /\ \A i \in 1..n : FrameDepth(s, i) >= 0
  BY DEF GateAt, GateKnows, Knows, Scanned, BalancedAt
<1>1. CASE ~txOpen /\ Reject("tx-encapsulation")
  <2>1. ~Balances(s[n + 1], txOpen, gateFrames)
    BY <1>1 DEF Balances
  <2> QED BY <1>0, <1>1, <2>1, BalanceRejected DEF RightlyJudged, Reject, Rule
<1>2. TopologyAt(s, n + 1) <=> ParentMatches(s[n + 1])
  BY <1>0, EnterDecided DEF TopologyAt, ParentMatches, InnermostFrame
<1>3. CASE txOpen /\ ~ParentMatches(s[n + 1]) /\ Reject("frame-topology")
  BY <1>2, <1>3 DEF RightlyJudged, BrokenAt, RulesAt, Reject, Rule
<1>4. CASE /\ txOpen /\ ParentMatches(s[n + 1]) /\ Accept(s[n + 1])
           /\ rootFrameCount' = IF gateFrames = << >> THEN rootFrameCount + 1
                                                      ELSE rootFrameCount
           /\ gateFrames' = Append(gateFrames, s[n + 1].frameID)
           /\ UNCHANGED <<txOpen, rootFrameReverted>>
  <2>1. verdict' = "running"
    BY <1>4 DEF GateAt, Accept
  <2>2. Balances(s[n + 1], txOpen, gateFrames)
    BY <1>4 DEF Balances
  <2>3. txOpen' = OpenAfter(s[n + 1], txOpen) /\ gateFrames' = StackAfter(s[n + 1], gateFrames)
    BY <1>4 DEF OpenAfter, StackAfter
  <2>4. txOpen = TRUE /\ rootFrameCount' \in Nat
    BY <1>0, <1>4
  <2>5. RootsKnown(s, n + 1, TRUE, Append(gateFrames, s[n + 1].frameID),
                   IF gateFrames = << >> THEN rootFrameCount + 1 ELSE rootFrameCount,
                   rootFrameReverted)
    BY <1>0, <2>4, RootsAtEnter
  <2>6. RootsKnown(s, n + 1, txOpen', gateFrames', rootFrameCount', rootFrameReverted')
    BY <1>4, <2>4, <2>5
  <2> QED BY <1>0, <1>2, <1>4, <2>1, <2>2, <2>3, <2>4, <2>6, AcceptedStep DEF RightlyJudged
<1> QED BY <1>1, <1>3, <1>4 DEF GateFrameEnter

LEMMA FrameExitJudged ==
  ASSUME NEW s, NEW n \in Nat, NEW S, NEW N, GateAt(s, n, S, N),
         s[n + 1].type = "FrameExit", GateFrameExit(s[n + 1])
  PROVE  RightlyJudged(s, n, S)
<1>0. /\ GateKnows(s, n, S) /\ Monotonic(s[n + 1])
      /\ Stacked(s, n, gateFrames) /\ gateFrames \in Seq(S) /\ rootFrameCount \in Nat
      /\ RootsKnown(s, n, txOpen, gateFrames, rootFrameCount, rootFrameReverted)
      /\ txOpen \in BOOLEAN
      /\ \A i \in 1..n : BalancedAt(s, i)
  BY DEF GateAt, GateKnows, Knows, Scanned
<1>1. CASE \/ ~txOpen /\ Reject("tx-encapsulation")
           \/ txOpen /\ ~ClosesInnermost(s[n + 1]) /\ Reject("frame-balance")
  <2>1. ~Balances(s[n + 1], txOpen, gateFrames)
    BY <1>1 DEF Balances, ClosesInnermost, InnermostFrame
  <2> QED BY <1>0, <1>1, <2>1, BalanceRejected DEF RightlyJudged, Reject, Rule
<1>2. CASE /\ txOpen /\ ClosesInnermost(s[n + 1]) /\ Accept(s[n + 1])
           /\ rootFrameReverted' = IF Len(gateFrames) = 1 THEN s[n + 1].reverted
                                                          ELSE rootFrameReverted
           /\ gateFrames' = SubSeq(gateFrames, 1, Len(gateFrames) - 1)
           /\ UNCHANGED <<txOpen, rootFrameCount>>
  <2>1. verdict' = "running"
    BY <1>2 DEF GateAt, Accept
  <2>2. Balances(s[n + 1], txOpen, gateFrames) /\ TopologyAt(s, n + 1)
    BY <1>2 DEF Balances, ClosesInnermost, InnermostFrame, TopologyAt
  <2>3. txOpen' = OpenAfter(s[n + 1], txOpen) /\ gateFrames' = StackAfter(s[n + 1], gateFrames)
    BY <1>2 DEF OpenAfter, StackAfter
  <2>4. txOpen = TRUE /\ gateFrames # << >>
    BY <1>0, <1>2 DEF ClosesInnermost
  <2>5. RootsKnown(s, n + 1, TRUE, SubSeq(gateFrames, 1, Len(gateFrames) - 1),
                   rootFrameCount,
                   IF Len(gateFrames) = 1 THEN s[n + 1].reverted ELSE rootFrameReverted)
    BY <1>0, <2>4, RootsAtExit
  <2>6. RootsKnown(s, n + 1, txOpen', gateFrames', rootFrameCount', rootFrameReverted')
        /\ rootFrameCount' \in Nat
    BY <1>0, <1>2, <2>4, <2>5
  <2> QED BY <1>0, <1>2, <2>1, <2>2, <2>3, <2>6, AcceptedStep DEF RightlyJudged
<1> QED BY <1>1, <1>2 DEF GateFrameExit

\* Gate 1 judges the event that it reads as the counting definition does.
LEMMA GateJudgesRightly ==
  ASSUME NEW s, NEW n \in Nat, NEW S, NEW N, GateKnows(s, n, S),
         s[n + 1].type = "FrameEnter" => s[n + 1].frameID \in S,
         n + 1 = N <=> n + 1 = Len(s), GateRead(s[n + 1], n + 1, N)
  PROVE  RightlyJudged(s, n, S)
<1>1. CASE ~Monotonic(s[n + 1]) /\ Reject("sequence-monotonic")
  BY <1>1, SequenceRejected DEF RightlyJudged, Reject, Rule
<1>2. CASE Monotonic(s[n + 1])
  <2>1. GateAt(s, n, S, N)
    BY <1>2 DEF GateAt, GateRead
  <2>2. \/ s[n + 1].type = "BlockStart" /\ GateBlockStart(s[n + 1], n + 1)
        \/ s[n + 1].type = "BlockCommit" /\ GateBlockCommit(s[n + 1], n + 1, N)
        \/ s[n + 1].type = "TransactionStart" /\ GateTransactionStart(s[n + 1])
        \/ s[n + 1].type = "TransactionEnd" /\ GateTransactionEnd(s[n + 1])
        \/ s[n + 1].type = "FrameEnter" /\ GateFrameEnter(s[n + 1])
        \/ s[n + 1].type = "FrameExit" /\ GateFrameExit(s[n + 1])
        \/ /\ s[n + 1].type \in {"Mutation", "AccountCreated", "SelfDestruct"}
           /\ GateMutation(s[n + 1])
    BY <1>2 DEF GateRead
  <2> QED BY <2>1, <2>2, BlockStartJudged, BlockCommitJudged, TransactionStartJudged,
             TransactionEndJudged, FrameEnterJudged, FrameExitJudged, MutationJudged
<1> QED BY <1>1, <1>2 DEF GateRead

\* What held of the events read holds of every stream of the same length that
\* begins with them.
LEMMA RulesSame ==
  ASSUME NEW s, NEW t, NEW n \in Nat, SameTo(s, t, n), Len(s) = Len(t), NEW i \in 1..n,
         RulesAt(s, i)
  PROVE  RulesAt(t, i)
<1>1. \A m \in 1..i : m \in 1..n /\ s[m] = t[m] /\ FrameDepth(s, m) = FrameDepth(t, m)
  BY DepthSame DEF SameTo
<1>2. i \in 1..i /\ (i > 1 => i - 1 \in 1..i)
  OBVIOUS
<1>3. BalancedAt(t, i)
  BY BalancedSame DEF RulesAt
<1>4. i > 1 => t[i].sequence > t[i-1].sequence
  BY <1>1, <1>2 DEF RulesAt
<1>5. ASSUME NEW h \in 1..i, NEW j \in 1..i
      PROVE  (Closes(s, h, j) <=> Closes(t, h, j)) /\ (Encloses(s, h, j) <=> Encloses(t, h, j))
  <2>1. \A m \in h..j-1 : m \in 1..i
    OBVIOUS
  <2> QED BY <1>1, <2>1 DEF Closes, Encloses
<1>6. RootsOf(s, i) = RootsOf(t, i)
  <2>1. \A h \in 1..i : \A m \in h..i-1 : m \in 1..i
    OBVIOUS
  <2> QED BY <1>1, <2>1 DEF RootsOf
<1>7. \A h \in RootsOf(s, i) : h \in 1..i
  BY DEF RootsOf
<1>8. TopologyAt(s, i)
  BY DEF RulesAt
<1>9. t[i] = s[i] /\ FrameDepth(t, i) = FrameDepth(s, i)
  BY <1>1, <1>2
<1>10. s[i].type = "FrameEnter" =>
         \/ FrameDepth(t, i) = 1 /\ t[i].parentFrameID = NO_FRAME
         \/ \E h \in 1..i : Encloses(t, h, i) /\ t[h].frameID = t[i].parentFrameID
  BY <1>1, <1>2, <1>5, <1>8, <1>9 DEF TopologyAt
<1>11. s[i].type = "TransactionEnd" =>
         /\ Cardinality(RootsOf(t, i)) <= 1
         /\ \A h \in RootsOf(t, i), j \in 1..i : Closes(t, h, j) => t[j].reverted = t[i].reverted
  <2> SUFFICES ASSUME s[i].type = "TransactionEnd"
               PROVE  /\ Cardinality(RootsOf(t, i)) <= 1
                      /\ \A h \in RootsOf(t, i), j \in 1..i :
                           Closes(t, h, j) => t[j].reverted = t[i].reverted
    OBVIOUS
  <2>1. /\ Cardinality(RootsOf(s, i)) <= 1
        /\ \A h \in RootsOf(s, i), j \in 1..i :
             Closes(s, h, j) => s[j].reverted = s[i].reverted
    BY <1>8 DEF TopologyAt
  <2> QED BY <1>1, <1>5, <1>6, <1>7, <1>9, <2>1
<1>12. TopologyAt(t, i)
  BY <1>8, <1>9, <1>10, <1>11 DEF TopologyAt
<1> QED BY <1>3, <1>4, <1>12 DEF RulesAt

-----------------------------------------------------------------------------
(***************************************************************************)
(* Natural numbers, with sets for predicates                               *)
(***************************************************************************)

\* A set of naturals that has 0 and is closed under successor has them all.
LEMMA AllNaturals ==
  ASSUME NEW S, 0 \in S, \A n \in Nat : n \in S => n + 1 \in S
  PROVE  \A n \in Nat : n \in S
<1> DEFINE missing == {n \in Nat : n \notin S}
           below   == {1..n : n \in missing}
<1>1. SUFFICES ASSUME missing # {} PROVE FALSE
  OBVIOUS
<1>2. below \subseteq FiniteSubsetsOf(Nat) /\ below # {}
  <2>1. \A n \in missing : 1..n \in SUBSET Nat /\ IsFiniteSet(1..n)
    BY FS_Interval
  <2> QED
    BY <1>1, <2>1 DEF FiniteSubsetsOf
<1> HIDE DEF below
<1>3. PICK least \in below : \A b \in below : <<b, least>> \notin StrictSubsetOrdering(Nat)
  BY <1>2, FS_StrictSubsetOrderingWellFounded, WFMin
<1>4. PICK m \in missing : least = 1..m
  BY <1>3 DEF below
<1>5. m \in Nat /\ m # 0
  BY <1>4
<1>6. m - 1 \in Nat /\ m - 1 + 1 = m
  BY <1>5
<1>7. m - 1 \in missing
  BY <1>4, <1>6
<1>8. 1..(m - 1) \in below
  BY <1>7 DEF below
<1>9. ~(1..(m - 1) \subseteq 1..m /\ 1..(m - 1) # 1..m)
  <2>1. <<1..(m - 1), 1..m>> \notin StrictSubsetOrdering(Nat)
    BY <1>3, <1>4, <1>8
  <2>2. 1..(m - 1) \in SUBSET Nat /\ 1..m \in SUBSET Nat
    BY <1>5, <1>6
  <2> QED
    BY <2>1, <2>2 DEF StrictSubsetOrdering
<1>10. 1..(m - 1) \subseteq 1..m /\ m \in 1..m /\ m \notin 1..(m - 1)
  BY <1>5
<1>11. 1..(m - 1) # 1..m
  BY <1>10
<1> QED BY <1>9, <1>10, <1>11

LEMMA OneLess ==
  ASSUME NEW S, IsFiniteSet(S), NEW x \in S, NEW n \in Nat, Cardinality(S) = n + 1
  PROVE  IsFiniteSet(S \ {x}) /\ Cardinality(S \ {x}) = n
<1>1. IsFiniteSet(S \ {x}) /\ Cardinality(S \ {x}) = Cardinality(S) - 1
  BY FS_RemoveElement
<1> QED BY <1>1

\* A finite set of numbers has a largest.
LEMMA LargestOfFinite ==
  ASSUME NEW S \in SUBSET Nat, IsFiniteSet(S), S # {}
  PROVE  \E m \in S : \A s \in S : s <= m
<1> DEFINE Settled == {n \in Nat : \A R \in SUBSET Nat :
                         IsFiniteSet(R) /\ Cardinality(R) = n /\ R # {} =>
                           \E m \in R : \A r \in R : r <= m}
<1>1. 0 \in Settled
  BY FS_EmptySet
<1>2. ASSUME NEW n \in Nat, n \in Settled PROVE n + 1 \in Settled
  <2>1. ASSUME NEW R \in SUBSET Nat, IsFiniteSet(R), Cardinality(R) = n + 1, R # {}
        PROVE  \E m \in R : \A r \in R : r <= m
    <3>1. PICK x \in R : TRUE
      BY <2>1
    <3>2. IsFiniteSet(R \ {x}) /\ Cardinality(R \ {x}) = n /\ R \ {x} \in SUBSET Nat
      BY <2>1, OneLess
    <3>3. CASE R \ {x} = {}
      BY <3>1, <3>3
    <3>4. CASE R \ {x} # {}
      <4>1. PICK m \in R \ {x} : \A r \in R \ {x} : r <= m
        BY <1>2, <3>2, <3>4
      <4>2. CASE m <= x
        <5>1. \A r \in R : r <= x
          BY <4>1, <4>2
        <5> QED
          BY <5>1
      <4>3. CASE ~(m <= x)
        <5>1. \A r \in R : r <= m
          BY <4>1, <4>3
        <5> QED
          BY <5>1
      <4> QED
        BY <4>2, <4>3
    <3> QED
      BY <3>3, <3>4
  <2> QED
    BY <2>1
<1> HIDE DEF Settled
<1>3. Cardinality(S) \in Settled
  BY <1>1, <1>2, AllNaturals, FS_CardinalityType
<1> QED BY <1>3 DEF Settled

LEMMA Largest ==
  ASSUME NEW n \in Nat, NEW S \in SUBSET (1..n), S # {}
  PROVE  \E m \in S : \A s \in S : s <= m
<1>1. IsFiniteSet(1..n)
  BY FS_Interval
<1>2. IsFiniteSet(S)
  BY <1>1, FS_Subset
<1>3. S \in SUBSET Nat
  OBVIOUS
<1> QED BY <1>2, <1>3, LargestOfFinite

-----------------------------------------------------------------------------
(***************************************************************************)
(* Lists in order.  R is a strict total order on S.                        *)
(***************************************************************************)

Orders(R, S) ==
  /\ \A x \in S : <<x, x>> \notin R
  /\ \A x, y, z \in S : <<x, y>> \in R /\ <<y, z>> \in R => <<x, z>> \in R
  /\ \A x, y \in S : x # y => <<x, y>> \in R \/ <<y, x>> \in R

Before(R, S, x) == {y \in S : <<y, x>> \in R}

LEMMA CountTo ==
  ASSUME NEW n \in Nat
  PROVE  IsFiniteSet(1..n) /\ Cardinality(1..n) = n
BY FS_Interval

\* Each element of a finite set has a rank, and each rank an element.
LEMMA Ranks ==
  ASSUME NEW S, IsFiniteSet(S), NEW R, Orders(R, S)
  PROVE  /\ \A x \in S : Cardinality(Before(R, S, x)) \in 0..Cardinality(S) - 1
         /\ \A x, y \in S : <<x, y>> \in R =>
              Cardinality(Before(R, S, x)) < Cardinality(Before(R, S, y))
         /\ \A r \in 1..Cardinality(S) :
              \E x \in S : Cardinality(Before(R, S, x)) = r - 1
<1>1. PICK n \in Nat : n = Cardinality(S)
  BY FS_CardinalityType
<1>2. \A x \in S : /\ IsFiniteSet(Before(R, S, x)) /\ Before(R, S, x) \subseteq S
                   /\ x \notin Before(R, S, x)
  BY FS_Subset DEF Before, Orders
<1>3. \A x \in S : Cardinality(Before(R, S, x)) \in 0..n-1
  <2>1. TAKE x \in S
  <2>2. Before(R, S, x) # S
    BY <1>2
  <2>3. Cardinality(Before(R, S, x)) \in Nat /\ Cardinality(Before(R, S, x)) < n
    BY <1>1, <1>2, <2>2, FS_Subset, FS_CardinalityType
  <2> QED BY <1>1, <2>3
<1>4. ASSUME NEW x \in S, NEW y \in S, <<x, y>> \in R
      PROVE  Cardinality(Before(R, S, x)) < Cardinality(Before(R, S, y))
  <2>1. Before(R, S, x) \subseteq Before(R, S, y)
    BY <1>4 DEF Before, Orders
  <2>2. x \in Before(R, S, y) /\ x \notin Before(R, S, x)
    BY <1>2, <1>4 DEF Before
  <2>3. Before(R, S, x) # Before(R, S, y)
    BY <2>2
  <2>4. /\ Cardinality(Before(R, S, x)) <= Cardinality(Before(R, S, y))
        /\ Cardinality(Before(R, S, x)) # Cardinality(Before(R, S, y))
    BY <1>2, <2>1, <2>3, FS_Subset
  <2>5. Cardinality(Before(R, S, x)) \in Nat /\ Cardinality(Before(R, S, y)) \in Nat
    BY <1>1, <1>3
  <2> QED BY <2>4, <2>5
<1> DEFINE rank == [x \in S |-> Cardinality(Before(R, S, x)) + 1]
<1>5. rank \in Injection(S, 1..n)
  <2>1. rank \in [S -> 1..n]
    BY <1>1, <1>3
  <2>2. ASSUME NEW x \in S, NEW y \in S, rank[x] = rank[y] PROVE x = y
    <3>1. Cardinality(Before(R, S, x)) = Cardinality(Before(R, S, y))
      BY <1>1, <1>3, <2>2
    <3>2. <<x, y>> \notin R /\ <<y, x>> \notin R
      <4>1. Cardinality(Before(R, S, x)) \in Nat
        BY <1>1, <1>3
      <4> QED BY <1>4, <3>1, <4>1
    <3> QED BY <3>2 DEF Orders
  <2> QED BY <2>1, <2>2 DEF Injection, IsInjective
<1>6. rank \in Surjection(S, 1..n)
  <2> QED BY <1>1, <1>5, CountTo, FS_Injection
<1>7. \A r \in 1..n : \E x \in S : rank[x] = r
  BY <1>6 DEF Surjection
<1>8. ASSUME NEW r \in 1..n
      PROVE  \E x \in S : Cardinality(Before(R, S, x)) = r - 1
  <2>1. PICK x \in S : rank[x] = r
    BY <1>7
  <2>2. Cardinality(Before(R, S, x)) \in 0..n-1 /\ Cardinality(Before(R, S, x)) + 1 = r
    BY <1>3, <2>1
  <2>3. Cardinality(Before(R, S, x)) = r - 1
    BY <1>1, <2>2
  <2> QED BY <2>3
<1> QED BY <1>1, <1>3, <1>4, <1>8

\* p gives for each rank an element that has it.
Ranked(p, R, S, n) ==
  /\ p = [r \in 1..n |-> p[r]]
  /\ \A r \in 1..n : p[r] \in S /\ Cardinality(Before(R, S, p[r])) = r - 1

\* p lists S in the order R, each element once.
InOrder(p, R, S, n) ==
  /\ p \in [1..n -> S]
  /\ \A i, j \in 1..n : i < j => <<p[i], p[j]>> \in R
  /\ \A i, j \in 1..n : p[i] = p[j] => i = j
  /\ \A x \in S : \E i \in 1..n : p[i] = x

LEMMA RankedIs ==
  ASSUME NEW S, IsFiniteSet(S), NEW R, Orders(R, S), NEW n \in Nat, n = Cardinality(S),
         NEW p, Ranked(p, R, S, n)
  PROVE  InOrder(p, R, S, n)
<1> USE DEF Ranked
<1>1. p \in [1..n -> S]
  OBVIOUS
<1>2. \A i, j \in 1..n : p[i] = p[j] => i = j
  <2>1. ASSUME NEW i \in 1..n, NEW j \in 1..n, p[i] = p[j] PROVE i = j
    <3>1. i - 1 = j - 1
      BY <2>1
    <3> QED BY <3>1
  <2> QED BY <2>1
<1>3. ASSUME NEW i \in 1..n, NEW j \in 1..n, i < j PROVE <<p[i], p[j]>> \in R
  <2>1. p[i] # p[j]
    BY <1>2, <1>3
  <2>2. <<p[j], p[i]>> \notin R
    <3>1. CASE <<p[j], p[i]>> \in R
      <4>1. j - 1 < i - 1
        BY <3>1, Ranks
      <4> QED BY <1>3, <4>1
    <3> QED BY <3>1
  <2> QED BY <1>1, <2>1, <2>2 DEF Orders
<1>4. p \in Surjection(1..n, S)
  <2>1. p \in Injection(1..n, S)
    BY <1>1, <1>2 DEF Injection, IsInjective
  <2> QED BY <2>1, CountTo, FS_Injection
<1> QED BY <1>1, <1>2, <1>3, <1>4 DEF Surjection, InOrder

\* Numbers in ascending order.
LEMMA AscendingIs ==
  ASSUME NEW S \in SUBSET Nat, IsFiniteSet(S)
  PROVE  /\ Cardinality(S) \in Nat
         /\ Ascending(S) \in [1..Cardinality(S) -> S]
         /\ \A i, j \in 1..Cardinality(S) : i < j => Ascending(S)[i] < Ascending(S)[j]
         /\ \A i, j \in 1..Cardinality(S) : Ascending(S)[i] = Ascending(S)[j] => i = j
         /\ \A x \in S : \E i \in 1..Cardinality(S) : Ascending(S)[i] = x
<1> DEFINE R == {w \in S \X S : w[1] < w[2]}
           p == Ascending(S)
<1>1. PICK n \in Nat : n = Cardinality(S)
  BY FS_CardinalityType
<1>2. \A x, y \in S : <<x, y>> \in R <=> x < y
  OBVIOUS
<1>3. Orders(R, S)
  BY <1>2 DEF Orders
<1>4. \A x \in S : Before(R, S, x) = {y \in S : y < x}
  BY <1>2 DEF Before
<1>5. p = [r \in 1..n |-> CHOOSE x \in S : Cardinality({y \in S : y < x}) = r - 1]
  BY <1>1 DEF Ascending, Listed
<1> HIDE DEF R, p
<1>6. \A r \in 1..n : p[r] \in S /\ Cardinality(Before(R, S, p[r])) = r - 1
  <2> TAKE r \in 1..n
  <2>1. PICK x \in S : Cardinality(Before(R, S, x)) = r - 1
    BY <1>1, <1>3, Ranks
  <2>2. Cardinality({y \in S : y < x}) = r - 1
    BY <1>4, <2>1
  <2>3. p[r] \in S /\ Cardinality({y \in S : y < p[r]}) = r - 1
    BY <1>5, <2>2
  <2> QED BY <1>4, <2>3
<1>7. Ranked(p, R, S, n)
  <2>1. p = [r \in 1..n |-> p[r]]
    BY <1>5
  <2> QED BY <1>6, <2>1 DEF Ranked
<1>8. /\ p \in [1..n -> S]
      /\ \A i, j \in 1..n : i < j => <<p[i], p[j]>> \in R
      /\ \A i, j \in 1..n : p[i] = p[j] => i = j
      /\ \A x \in S : \E i \in 1..n : p[i] = x
  BY <1>1, <1>3, <1>7, RankedIs DEF InOrder
<1>9. \A i, j \in 1..n : i < j => p[i] < p[j]
  BY <1>2, <1>8
<1> QED BY <1>1, <1>8, <1>9 DEF p

\* There is one list of S in the order R.
LEMMA InOrderOnce ==
  ASSUME NEW S, NEW R, Orders(R, S), NEW n \in Nat, NEW p, NEW q,
         InOrder(p, R, S, n), InOrder(q, R, S, n)
  PROVE  p = q
<1> DEFINE Same == {m \in Nat : \A r \in 1..n : r <= m => p[r] = q[r]}
<1>1. 0 \in Same
  OBVIOUS
<1>2. ASSUME NEW m \in Nat, m \in Same PROVE m + 1 \in Same
  <2>1. SUFFICES ASSUME m + 1 \in 1..n PROVE p[m + 1] = q[m + 1]
    BY <1>2
  <2>2. PICK i \in 1..n : p[i] = q[m + 1]
    BY <2>1 DEF InOrder
  <2>3. PICK j \in 1..n : q[j] = p[m + 1]
    BY <2>1 DEF InOrder
  <2>4. ~(i < m + 1)
    <3>1. CASE i < m + 1
      <4>1. p[i] = q[i]
        BY <1>2, <3>1
      <4>2. q[i] = q[m + 1]
        BY <2>2, <4>1
      <4> QED BY <2>1, <3>1, <4>2 DEF InOrder
    <3> QED BY <3>1
  <2>5. ~(j < m + 1)
    <3>1. CASE j < m + 1
      <4>1. p[j] = q[j]
        BY <1>2, <3>1
      <4>2. p[j] = p[m + 1]
        BY <2>3, <4>1
      <4> QED BY <2>1, <3>1, <4>2 DEF InOrder
    <3> QED BY <3>1
  <2>6. CASE i = m + 1
    BY <2>2, <2>6
  <2>7. CASE j = m + 1
    BY <2>3, <2>7
  <2>8. CASE m + 1 < i /\ m + 1 < j
    <3>1. <<p[m + 1], p[i]>> \in R /\ <<q[m + 1], q[j]>> \in R
      BY <2>1, <2>8 DEF InOrder
    <3>2. p[m + 1] \in S /\ q[m + 1] \in S
      BY <2>1 DEF InOrder
    <3>3. <<p[m + 1], q[m + 1]>> \in R /\ <<q[m + 1], p[m + 1]>> \in R
      BY <2>2, <2>3, <3>1
    <3>4. <<p[m + 1], p[m + 1]>> \in R
      BY <3>2, <3>3 DEF Orders
    <3> QED BY <3>2, <3>4 DEF Orders
  <2> QED BY <2>4, <2>5, <2>6, <2>7, <2>8
<1> HIDE DEF Same
<1>3. n \in Same
  BY <1>1, <1>2, AllNaturals
<1>4. \A r \in 1..n : p[r] = q[r]
  BY <1>3 DEF Same
<1> QED BY <1>4 DEF InOrder

\* W compares elements of T; some of them may compare equal.
Compares(W, T) ==
  /\ \A x \in T : <<x, x>> \notin W
  /\ \A x, y, z \in T : <<x, y>> \in W /\ <<y, z>> \in W => <<x, z>> \in W
  /\ \A x, y, z \in T : <<x, z>> \in W => <<x, y>> \in W \/ <<y, z>> \in W

\* What a stable sort orders the places of s by.
SortOrder(W, s) ==
  {w \in (1..Len(s)) \X (1..Len(s)) :
     \/ <<s[w[1]], s[w[2]]>> \in W
     \/ <<s[w[2]], s[w[1]]>> \notin W /\ w[1] < w[2]}

\* t is s, sorted.
Sorts(t, W, s) ==
  \E p \in [1..Len(s) -> 1..Len(s)] :
    /\ t = [r \in 1..Len(s) |-> s[p[r]]]
    /\ \A i, j \in 1..Len(s) : p[i] = p[j] => i = j
    /\ \A x \in 1..Len(s) : \E i \in 1..Len(s) : p[i] = x
    /\ \A i, j \in 1..Len(s) : i < j => <<p[i], p[j]>> \in SortOrder(W, s)

LEMMA SortOrders ==
  ASSUME NEW T, NEW W, Compares(W, T), NEW s \in Seq(T)
  PROVE  Orders(SortOrder(W, s), 1..Len(s))
<1> DEFINE n == Len(s)
           R == SortOrder(W, s)
<1>1. n \in Nat /\ DOMAIN s = 1..n /\ \A i \in 1..n : s[i] \in T
  OBVIOUS
<1>2. \A i, j \in 1..n : <<i, j>> \in R <=>
        \/ <<s[i], s[j]>> \in W
        \/ <<s[j], s[i]>> \notin W /\ i < j
  <2> TAKE i, j \in 1..n
  <2> DEFINE w == <<i, j>>
  <2>2. w \in (1..n) \X (1..n) /\ w[1] = i /\ w[2] = j
    OBVIOUS
  <2> HIDE DEF w
  <2>3. w \in R <=>
          \/ <<s[i], s[j]>> \in W
          \/ <<s[j], s[i]>> \notin W /\ i < j
    BY <2>2 DEF SortOrder
  <2> QED BY <2>3 DEF w
<1> HIDE DEF R
<1>3. \A i \in 1..n : <<i, i>> \notin R
  <2> TAKE i \in 1..n
  <2>1. <<s[i], s[i]>> \notin W /\ ~(i < i)
    BY <1>1 DEF Compares
  <2> QED BY <1>2, <2>1
<1>4. ASSUME NEW i \in 1..n, NEW j \in 1..n, NEW k \in 1..n, <<i, j>> \in R, <<j, k>> \in R
      PROVE  <<i, k>> \in R
  <2>0. s[i] \in T /\ s[j] \in T /\ s[k] \in T
    BY <1>1
  <2>a. \A x, y \in T : <<x, y>> \in W => <<y, x>> \notin W
    BY DEF Compares
  <2>b. /\ <<s[i], s[j]>> \in W \/ (<<s[j], s[i]>> \notin W /\ i < j)
        /\ <<s[j], s[k]>> \in W \/ (<<s[k], s[j]>> \notin W /\ j < k)
    BY <1>2, <1>4
  <2>1. <<s[j], s[i]>> \notin W /\ <<s[k], s[j]>> \notin W
    BY <2>0, <2>a, <2>b
  <2>2. <<s[k], s[i]>> \notin W
    BY <2>0, <2>1 DEF Compares
  <2>3. CASE <<s[i], s[j]>> \in W
    <3>1. <<s[i], s[k]>> \in W
      BY <2>0, <2>1, <2>3 DEF Compares
    <3> QED BY <1>2, <3>1
  <2>4. CASE <<s[j], s[k]>> \in W
    <3>1. <<s[i], s[k]>> \in W
      BY <2>0, <2>1, <2>4 DEF Compares
    <3> QED BY <1>2, <3>1
  <2>5. CASE i < j /\ j < k
    <3>1. i < k
      BY <2>5
    <3> QED BY <1>2, <2>2, <3>1
  <2> QED BY <1>2, <1>4, <2>3, <2>4, <2>5
<1>5. ASSUME NEW i \in 1..n, NEW j \in 1..n, i # j
      PROVE  <<i, j>> \in R \/ <<j, i>> \in R
  <2>1. i < j \/ j < i
    BY <1>5
  <2> QED BY <1>2, <2>1
<1> QED BY <1>3, <1>4, <1>5 DEF Orders, R

\* The places of s by their ranks sort s.
LEMMA RankingSorts ==
  ASSUME NEW T, NEW W, Compares(W, T), NEW s \in Seq(T), NEW p,
         Ranked(p, SortOrder(W, s), 1..Len(s), Len(s))
  PROVE  Sorts([r \in 1..Len(s) |-> s[p[r]]], W, s)
<1>1. Len(s) \in Nat
  OBVIOUS
<1>2. IsFiniteSet(1..Len(s)) /\ Cardinality(1..Len(s)) = Len(s)
  BY <1>1, CountTo
<1>3. Orders(SortOrder(W, s), 1..Len(s))
  BY SortOrders
<1>4. InOrder(p, SortOrder(W, s), 1..Len(s), Len(s))
  BY <1>1, <1>2, <1>3, RankedIs
<1> QED BY <1>4 DEF InOrder, Sorts

\* Nothing in t comes before something that W puts before it; the elements of t,
\* or at least their keys, are among those of s; no key comes twice in a row.
Ascends(t, W) == \A i, j \in 1..Len(t) : i < j => <<t[j], t[i]>> \notin W

From(t, s) == \A i \in 1..Len(t) : \E j \in 1..Len(s) : t[i] = s[j]

KeysFrom(t, s) == \A i \in 1..Len(t) : \E j \in 1..Len(s) : t[i].key = s[j].key

KeysChange(t) == \A i \in 1..Len(t) : i > 1 => t[i].key # t[i-1].key

\* What is in order already stays as it is.
LEMMA SortedStays ==
  ASSUME NEW T, NEW W, Compares(W, T), NEW s \in Seq(T), NEW t, Sorts(t, W, s), Ascends(s, W)
  PROVE  t = s
<1> DEFINE n == Len(s)
           R == SortOrder(W, s)
           q == [r \in 1..n |-> r]
<1>1. n \in Nat /\ s = [r \in 1..n |-> s[r]]
  OBVIOUS
<1>2. PICK p \in [1..n -> 1..n] :
        /\ t = [r \in 1..n |-> s[p[r]]]
        /\ InOrder(p, R, 1..n, n)
  BY DEF Sorts, InOrder
<1>3. InOrder(q, R, 1..n, n)
  <2>1. \A i, j \in 1..n : i < j => <<i, j>> \in R
    BY DEF SortOrder, Ascends
  <2> HIDE DEF R
  <2>2. q \in [1..n -> 1..n] /\ \A r \in 1..n : q[r] = r
    OBVIOUS
  <2> HIDE DEF q
  <2> QED BY <2>1, <2>2 DEF InOrder
<1>4. Orders(R, 1..n)
  BY SortOrders
<1>5. p = q
  BY <1>1, <1>2, <1>3, <1>4, InOrderOnce
<1>6. t = [r \in 1..n |-> s[r]]
  BY <1>2, <1>5
<1> QED BY <1>1, <1>6

\* No two places of s hold the same; W decides between any two elements of F.
Different(s) == \A i, j \in 1..Len(s) : s[i] = s[j] => i = j

Decides(W, F) == \A x, y \in F : x # y => <<x, y>> \in W \/ <<y, x>> \in W

Elements(s) == {s[i] : i \in 1..Len(s)}

\* Facts no two of which compare equal are listed in order.
LEMMA SortedInOrder ==
  ASSUME NEW T, NEW W, Compares(W, T), NEW s \in Seq(T), NEW u, Sorts(u, W, s),
         NEW n \in Nat, n = Len(s), Different(s), Decides(W, Elements(s))
  PROVE  Orders(W, Elements(s)) /\ InOrder(u, W, Elements(s), n)
<1> DEFINE F == Elements(s)
<1>1. F \subseteq T /\ \A i \in 1..n : s[i] \in F
  BY DEF Elements
<1>1a. \A x \in F : \E i \in 1..n : s[i] = x
  BY DEF Elements
<1> HIDE DEF F
<1>2. Orders(W, F)
  BY <1>1 DEF Compares, Orders, Decides, F
<1>3. PICK p \in [1..n -> 1..n] :
        /\ u = [r \in 1..n |-> s[p[r]]]
        /\ \A i, j \in 1..n : p[i] = p[j] => i = j
        /\ \A x \in 1..n : \E i \in 1..n : p[i] = x
        /\ \A i, j \in 1..n : i < j => <<p[i], p[j]>> \in SortOrder(W, s)
  BY DEF Sorts
<1>4a. \A r \in 1..n : p[r] \in 1..n /\ s[p[r]] \in F
  BY <1>1, <1>3
<1>4. u \in [1..n -> F] /\ \A r \in 1..n : p[r] \in 1..n /\ u[r] = s[p[r]]
  BY <1>3, <1>4a
<1>5. ASSUME NEW i \in 1..n, NEW j \in 1..n, u[i] = u[j] PROVE i = j
  <2>1. p[i] = p[j]
    BY <1>4, <1>5 DEF Different
  <2> QED BY <1>3, <2>1
<1>6. ASSUME NEW i \in 1..n, NEW j \in 1..n, i < j PROVE <<u[i], u[j]>> \in W
  <2>1. u[i] # u[j]
    BY <1>5, <1>6
  <2>1a. u[i] \in F /\ u[j] \in F
    BY <1>4
  <2>2. <<p[i], p[j]>> \in SortOrder(W, s)
    BY <1>3, <1>6
  <2>3. <<s[p[i]], s[p[j]]>> \in W \/ <<s[p[j]], s[p[i]]>> \notin W
    BY <2>2 DEF SortOrder
  <2>4. <<u[i], u[j]>> \in W \/ <<u[j], u[i]>> \notin W
    BY <1>4, <2>3
  <2> QED BY <2>1, <2>1a, <2>4 DEF Decides, F
<1>7. ASSUME NEW x \in F PROVE \E i \in 1..n : u[i] = x
  <2>1. PICK k \in 1..n : x = s[k]
    BY <1>1a, <1>7
  <2>2. PICK i \in 1..n : p[i] = k
    BY <1>3
  <2>3. u[i] = x
    BY <1>4, <2>1, <2>2
  <2> QED BY <2>3
<1> QED BY <1>2, <1>4, <1>5, <1>6, <1>7 DEF InOrder, F

\* There is one sorted list of them.
LEMMA SortedOnce ==
  ASSUME NEW T, NEW W, Compares(W, T), NEW s \in Seq(T), NEW t \in Seq(T),
         NEW u, Sorts(u, W, s), NEW v, Sorts(v, W, t), Len(s) = Len(t),
         Elements(s) = Elements(t), Different(s), Different(t), Decides(W, Elements(s))
  PROVE  u = v
<1>0. Len(s) \in Nat
  OBVIOUS
<1>1. Orders(W, Elements(s)) /\ InOrder(u, W, Elements(s), Len(s))
  BY <1>0, SortedInOrder
<1>2. InOrder(v, W, Elements(s), Len(s))
  BY <1>0, SortedInOrder
<1> QED BY <1>0, <1>1, <1>2, InOrderOnce

\* t has the elements of s at some of its places, in order.
Picks(t, s, places) ==
  \E m \in Nat : \E place \in [1..m -> places] :
    /\ t = [i \in 1..m |-> s[place[i]]]
    /\ \A i, j \in 1..m : i < j => place[i] < place[j]
    /\ \A x \in places : \E i \in 1..m : place[i] = x

LEMMA SublistIs ==
  ASSUME NEW T, NEW s \in Seq(T), NEW places \in SUBSET (1..Len(s))
  PROVE  Picks(Sublist(s, places), s, places)
<1>1. Len(s) \in Nat /\ IsFiniteSet(1..Len(s))
  BY CountTo
<1>2. IsFiniteSet(places)
  BY <1>1, FS_Subset
<1>2a. places \in SUBSET Nat
  OBVIOUS
<1>3. Cardinality(places) \in Nat
  BY <1>2, FS_CardinalityType
<1> QED BY <1>2, <1>2a, <1>3, AscendingIs DEF Sublist, Picks

-----------------------------------------------------------------------------
(***************************************************************************)
(* The canonical form of facts about generations: sorted, and without a    *)
(* key twice in a row.                                                     *)
(***************************************************************************)

Keys == [address : Nat, generation_id : Nat]

GenerationFact == [key : Keys, begin : Nat, end : Nat \cup {NoEnd}]

GenerationOrder == {w \in GenerationFact \X GenerationFact : GenerationLess(w[1], w[2])}

KeyOrder(T) == {w \in T \X T : KeyLess(w[1], w[2])}

LEMMA GenerationsCompare == Compares(GenerationOrder, GenerationFact)
<1> DEFINE T == GenerationFact
<1>1. \A x, y \in T : <<x, y>> \in GenerationOrder <=> GenerationLess(x, y)
  <2> TAKE x, y \in T
  <2> DEFINE w == <<x, y>>
  <2>1. w \in T \X T /\ w[1] = x /\ w[2] = y
    OBVIOUS
  <2> HIDE DEF w
  <2>2. w \in GenerationOrder <=> GenerationLess(x, y)
    BY <2>1 DEF GenerationOrder
  <2> QED BY <2>2 DEF w
<1>2. \A x \in T : x.key.address \in Nat /\ x.begin \in Nat /\ x.key.generation_id \in Nat
  BY DEF GenerationFact, Keys
<1> HIDE DEF T
<1>3. \A x \in T : ~GenerationLess(x, x)
  BY <1>2 DEF GenerationLess
<1>4. \A x, y, z \in T : GenerationLess(x, y) /\ GenerationLess(y, z) => GenerationLess(x, z)
  BY <1>2 DEF GenerationLess
<1>5. \A x, y, z \in T : GenerationLess(x, z) => GenerationLess(x, y) \/ GenerationLess(y, z)
  BY <1>2 DEF GenerationLess
<1> QED BY <1>1, <1>3, <1>4, <1>5 DEF Compares, T

LEMMA KeysCompare ==
  ASSUME NEW T, \A x \in T : x.key \in Keys
  PROVE  Compares(KeyOrder(T), T)
<1>1. \A x, y \in T : <<x, y>> \in KeyOrder(T) <=> KeyLess(x, y)
  <2> TAKE x, y \in T
  <2> DEFINE w == <<x, y>>
  <2>1. w \in T \X T /\ w[1] = x /\ w[2] = y
    OBVIOUS
  <2> HIDE DEF w
  <2>2. w \in KeyOrder(T) <=> KeyLess(x, y)
    BY <2>1 DEF KeyOrder
  <2> QED BY <2>2 DEF w
<1>2. \A x \in T : x.key.address \in Nat /\ x.key.generation_id \in Nat
  BY DEF Keys
<1>3. \A x \in T : ~KeyLess(x, x)
  BY <1>2 DEF KeyLess
<1>4. \A x, y, z \in T : KeyLess(x, y) /\ KeyLess(y, z) => KeyLess(x, z)
  BY <1>2 DEF KeyLess
<1>5. \A x, y, z \in T : KeyLess(x, z) => KeyLess(x, y) \/ KeyLess(y, z)
  BY <1>2 DEF KeyLess
<1> QED BY <1>1, <1>3, <1>4, <1>5 DEF Compares

LEMMA GenerationsSorted ==
  ASSUME NEW s \in Seq(GenerationFact)
  PROVE  Sorts(StableSort(s, GenerationLess), GenerationOrder, s)
<1> DEFINE T == GenerationFact
           W == GenerationOrder
           n == Len(s)
           R == SortOrder(W, s)
           before(i, j) == \/ GenerationLess(s[i], s[j])
                           \/ ~GenerationLess(s[j], s[i]) /\ i < j
           at(r) == CHOOSE x \in 1..n : Cardinality({y \in 1..n : before(y, x)}) = r - 1
           p == [r \in 1..n |-> at(r)]
<1>1. /\ n \in Nat /\ DOMAIN s = 1..n /\ \A i \in 1..n : s[i] \in T
      /\ IsFiniteSet(1..n) /\ Cardinality(1..n) = n
  BY CountTo
<1>2. StableSort(s, GenerationLess) = [r \in 1..n |-> s[p[r]]]
  BY <1>1 DEF StableSort, Listed
<1>3. \A i, j \in 1..n : <<s[i], s[j]>> \in W <=> GenerationLess(s[i], s[j])
  BY <1>1 DEF GenerationOrder
<1>4. \A x \in 1..n : Before(R, 1..n, x) = {y \in 1..n : before(y, x)}
  <2> TAKE x \in 1..n
  <2>1. \A y \in 1..n : <<y, x>> \in R <=> before(y, x)
    BY <1>1, <1>3 DEF SortOrder
  <2> QED BY <2>1 DEF Before
<1>5. Compares(W, T) /\ Orders(R, 1..n)
  BY <1>1, GenerationsCompare, SortOrders
<1> HIDE DEF before, R, at
<1>6. ASSUME NEW r \in 1..n PROVE p[r] \in 1..n /\ Cardinality(Before(R, 1..n, p[r])) = r - 1
  <2>1. PICK x \in 1..n : Cardinality(Before(R, 1..n, x)) = r - 1
    BY <1>1, <1>5, Ranks
  <2>2. Cardinality({y \in 1..n : before(y, x)}) = r - 1
    BY <1>4, <2>1
  <2>3. p[r] \in 1..n /\ Cardinality({y \in 1..n : before(y, p[r])}) = r - 1
    BY <2>2 DEF at
  <2> QED BY <1>4, <2>3
<1>7. p = [r \in 1..n |-> p[r]]
  OBVIOUS
<1> HIDE DEF p
<1>8. Ranked(p, R, 1..n, n)
  BY <1>6, <1>7 DEF Ranked
<1>9. Sorts([r \in 1..n |-> s[p[r]]], W, s)
  BY <1>5, <1>8, RankingSorts DEF R
<1> QED BY <1>2, <1>9

LEMMA KeysSorted ==
  ASSUME NEW T, \A x \in T : x.key \in Keys, NEW s \in Seq(T)
  PROVE  Sorts(StableSort(s, KeyLess), KeyOrder(T), s)
<1> DEFINE W == KeyOrder(T)
           n == Len(s)
           R == SortOrder(W, s)
           before(i, j) == \/ KeyLess(s[i], s[j])
                           \/ ~KeyLess(s[j], s[i]) /\ i < j
           at(r) == CHOOSE x \in 1..n : Cardinality({y \in 1..n : before(y, x)}) = r - 1
           p == [r \in 1..n |-> at(r)]
<1>1. /\ n \in Nat /\ DOMAIN s = 1..n /\ \A i \in 1..n : s[i] \in T
      /\ IsFiniteSet(1..n) /\ Cardinality(1..n) = n
  BY CountTo
<1>2. StableSort(s, KeyLess) = [r \in 1..n |-> s[p[r]]]
  BY <1>1 DEF StableSort, Listed
<1>3. \A i, j \in 1..n : <<s[i], s[j]>> \in W <=> KeyLess(s[i], s[j])
  BY <1>1 DEF KeyOrder
<1>4. \A x \in 1..n : Before(R, 1..n, x) = {y \in 1..n : before(y, x)}
  <2> TAKE x \in 1..n
  <2>1. \A y \in 1..n : <<y, x>> \in R <=> before(y, x)
    BY <1>1, <1>3 DEF SortOrder
  <2> QED BY <2>1 DEF Before
<1>5. Compares(W, T) /\ Orders(R, 1..n)
  BY <1>1, KeysCompare, SortOrders
<1> HIDE DEF before, R, at
<1>6. ASSUME NEW r \in 1..n PROVE p[r] \in 1..n /\ Cardinality(Before(R, 1..n, p[r])) = r - 1
  <2>1. PICK x \in 1..n : Cardinality(Before(R, 1..n, x)) = r - 1
    BY <1>1, <1>5, Ranks
  <2>2. Cardinality({y \in 1..n : before(y, x)}) = r - 1
    BY <1>4, <2>1
  <2>3. p[r] \in 1..n /\ Cardinality({y \in 1..n : before(y, p[r])}) = r - 1
    BY <2>2 DEF at
  <2> QED BY <1>4, <2>3
<1>7. p = [r \in 1..n |-> p[r]]
  OBVIOUS
<1> HIDE DEF p
<1>8. Ranked(p, R, 1..n, n)
  BY <1>6, <1>7 DEF Ranked
<1>9. Sorts([r \in 1..n |-> s[p[r]]], W, s)
  BY <1>5, <1>8, RankingSorts DEF R
<1> QED BY <1>2, <1>9

\* What a sorted list has to do with the list that was sorted.
LEMMA SortedFacts ==
  ASSUME NEW T, NEW W, Compares(W, T), NEW s \in Seq(T), NEW t, Sorts(t, W, s)
  PROVE  t \in Seq(T) /\ Len(t) = Len(s) /\ Ascends(t, W) /\ From(t, s) /\ From(s, t)
<1> DEFINE n == Len(s)
<1>1. n \in Nat /\ \A i \in 1..n : s[i] \in T
  OBVIOUS
<1>2. PICK p \in [1..n -> 1..n] :
        /\ t = [r \in 1..n |-> s[p[r]]]
        /\ \A x \in 1..n : \E i \in 1..n : p[i] = x
        /\ \A i, j \in 1..n : i < j => <<p[i], p[j]>> \in SortOrder(W, s)
  BY DEF Sorts
<1>3. t \in [1..n -> T] /\ \A i \in 1..n : p[i] \in 1..n /\ t[i] = s[p[i]]
  BY <1>1, <1>2
<1>4. t \in Seq(T) /\ Len(t) = n
  BY <1>1, <1>3, SeqDef
<1>5. ASSUME NEW i \in 1..n, NEW j \in 1..n, i < j PROVE <<t[j], t[i]>> \notin W
  <2>1. <<p[i], p[j]>> \in SortOrder(W, s)
    BY <1>2, <1>5
  <2>2. <<s[p[i]], s[p[j]]>> \in W \/ <<s[p[j]], s[p[i]]>> \notin W
    BY <2>1 DEF SortOrder
  <2>3. <<t[i], t[j]>> \in W \/ <<t[j], t[i]>> \notin W
    BY <1>3, <2>2
  <2>4. t[i] \in T /\ t[j] \in T
    BY <1>3
  <2>5. <<t[i], t[j]>> \in W /\ <<t[j], t[i]>> \in W => <<t[i], t[i]>> \in W
    BY <2>4 DEF Compares
  <2> QED BY <2>3, <2>4, <2>5 DEF Compares
<1>6. ASSUME NEW j \in 1..n PROVE \E i \in 1..n : s[j] = t[i]
  <2>1. PICK i \in 1..n : p[i] = j
    BY <1>2
  <2> QED BY <1>3, <2>1
<1>7. \A i \in 1..n : \E j \in 1..n : t[i] = s[j]
  BY <1>3
<1> QED BY <1>4, <1>5, <1>6, <1>7 DEF Ascends, From

\* The places of s at which another key begins.
NewKeys(s) == {i \in 1..Len(s) : i > 1 => s[i].key # s[i-1].key}

\* Between such places the key stays the same.
LEMMA KeyStays ==
  ASSUME NEW T, NEW s \in Seq(T), NEW u \in 1..Len(s), NEW v \in u..Len(s),
         \A w \in u+1..v : w \notin NewKeys(s)
  PROVE  s[v].key = s[u].key
<1> DEFINE Same == {d \in Nat : u + d <= v => s[u + d].key = s[u].key}
<1>1. 0 \in Same
  OBVIOUS
<1>2. ASSUME NEW d \in Nat, d \in Same PROVE d + 1 \in Same
  <2>1. SUFFICES ASSUME u + (d + 1) <= v PROVE s[u + (d + 1)].key = s[u].key
    OBVIOUS
  <2>2. s[u + d].key = s[u].key
    BY <1>2, <2>1
  <2> DEFINE w == u + (d + 1)
  <2>3. w \in u+1..v /\ w \in 1..Len(s) /\ w > 1 /\ w - 1 = u + d
    BY <2>1
  <2> HIDE DEF w
  <2>4. w \notin NewKeys(s)
    BY <2>3
  <2>5. s[w].key = s[w - 1].key
    BY <2>3, <2>4 DEF NewKeys
  <2> QED BY <2>2, <2>3, <2>5 DEF w
<1> HIDE DEF Same
<1>3. v - u \in Same /\ v - u \in Nat
  BY <1>1, <1>2, AllNaturals
<1>4. u + (v - u) = v
  OBVIOUS
<1> QED BY <1>3, <1>4 DEF Same

\* Before every place, or there, the last key began.
LEMMA NewKeyBefore ==
  ASSUME NEW T, NEW s \in Seq(T), NEW v \in 1..Len(s)
  PROVE  \E u \in NewKeys(s) : u <= v /\ s[v].key = s[u].key
<1> DEFINE S == {u \in NewKeys(s) : u <= v}
<1>1. 1 \in S
  BY DEF NewKeys
<1>2. S \in SUBSET (1..v) /\ S # {} /\ v \in Nat
  BY <1>1 DEF NewKeys
<1>3. PICK u \in S : \A w \in S : w <= u
  <2> HIDE DEF S
  <2> QED BY <1>2, Largest
<1>4. u \in NewKeys(s) /\ u \in 1..Len(s) /\ v \in u..Len(s)
  BY <1>3 DEF NewKeys
<1>5. ASSUME NEW w \in u+1..v PROVE w \notin NewKeys(s)
  <2>1. w \in NewKeys(s) => w <= u
    BY <1>3, <1>4, <1>5
  <2> QED BY <1>4, <1>5, <2>1
<1>5a. u \in 1..Len(s) /\ v \in u..Len(s) /\ \A w \in u+1..v : w \notin NewKeys(s)
  BY <1>4, <1>5
<1> HIDE DEF S
<1>6. s[v].key = s[u].key
  BY <1>5a, KeyStays
<1> QED BY <1>4, <1>6

LEMMA DedupIs ==
  ASSUME NEW T, NEW s \in Seq(T)
  PROVE  Picks(Dedup(s), s, NewKeys(s))
<1>1. DOMAIN s = 1..Len(s) /\ NewKeys(s) \in SUBSET (1..Len(s))
  BY DEF NewKeys
<1>2. Dedup(s) = Sublist(s, NewKeys(s))
  BY <1>1 DEF Dedup, NewKeys
<1> QED BY <1>1, <1>2, SublistIs

\* What Dedup keeps: the order, all keys, and no key twice in a row.
LEMMA DedupFacts ==
  ASSUME NEW T, NEW W, NEW s \in Seq(T), Ascends(s, W), NEW t, t = Dedup(s)
  PROVE  t \in Seq(T) /\ Ascends(t, W) /\ From(t, s) /\ KeysFrom(s, t) /\ KeysChange(t)
<1>a. Picks(t, s, NewKeys(s))
  BY DedupIs
<1>0. PICK m \in Nat : \E place \in [1..m -> NewKeys(s)] :
        /\ t = [i \in 1..m |-> s[place[i]]]
        /\ \A i, j \in 1..m : i < j => place[i] < place[j]
        /\ \A x \in NewKeys(s) : \E i \in 1..m : place[i] = x
  BY <1>a DEF Picks
<1>1. PICK place \in [1..m -> NewKeys(s)] :
        /\ t = [i \in 1..m |-> s[place[i]]]
        /\ \A i, j \in 1..m : i < j => place[i] < place[j]
        /\ \A x \in NewKeys(s) : \E i \in 1..m : place[i] = x
  BY <1>0
<1>2. /\ Len(s) \in Nat /\ \A i \in 1..Len(s) : s[i] \in T
      /\ NewKeys(s) \subseteq 1..Len(s)
  BY DEF NewKeys
<1>3. \A i \in 1..m : place[i] \in 1..Len(s) /\ place[i] \in NewKeys(s)
  BY <1>1, <1>2
<1>4. t \in [1..m -> T] /\ \A i \in 1..m : t[i] = s[place[i]]
  BY <1>1, <1>2, <1>3
<1>5. t \in Seq(T) /\ Len(t) = m
  BY <1>1, <1>4, SeqDef
<1>6. ASSUME NEW i \in 1..m, NEW j \in 1..m, i < j PROVE <<t[j], t[i]>> \notin W
  <2>1. place[i] < place[j]
    BY <1>1, <1>6
  <2>2. <<s[place[j]], s[place[i]]>> \notin W
    BY <1>3, <2>1 DEF Ascends
  <2> QED BY <1>4, <2>2
<1>7. \A i \in 1..m : \E j \in 1..Len(s) : t[i] = s[j]
  BY <1>3, <1>4
<1>8. ASSUME NEW j \in 1..Len(s) PROVE \E i \in 1..m : s[j].key = t[i].key
  <2>1. PICK u \in NewKeys(s) : s[j].key = s[u].key
    BY NewKeyBefore
  <2>2. PICK i \in 1..m : place[i] = u
    BY <1>1
  <2>3. s[j].key = t[i].key
    BY <1>4, <2>1, <2>2
  <2> QED BY <2>3
<1>9. ASSUME NEW i \in 1..m, i > 1 PROVE t[i].key # t[i-1].key
  <2>1. i - 1 \in 1..m /\ i - 1 < i
    BY <1>9
  <2> DEFINE u == place[i-1]
             v == place[i]
  <2>2. u < v /\ u \in 1..Len(s) /\ v \in 1..Len(s) /\ v \in NewKeys(s)
    BY <1>1, <1>3, <2>1
  <2>3. s[v].key # s[v-1].key
    BY <2>2 DEF NewKeys
  <2>4. ASSUME NEW w \in u+1..v-1 PROVE w \notin NewKeys(s)
    <3>1. SUFFICES ASSUME w \in NewKeys(s) PROVE FALSE
      OBVIOUS
    <3>2. PICK k \in 1..m : place[k] = w
      BY <1>1, <3>1
    <3>3. u < w /\ w < v
      BY <2>2
    <3>4. ~(k <= i - 1)
      <4>1. k < i - 1 => place[k] < u
        BY <1>1, <2>1
      <4> QED BY <2>2, <3>2, <3>3, <4>1
    <3>5. ~(i <= k)
      <4>1. i < k => v < place[k]
        BY <1>1, <2>1
      <4> QED BY <2>2, <3>2, <3>3, <4>1
    <3> QED BY <3>4, <3>5
  <2>5. v - 1 \in u..Len(s) /\ \A w \in u+1..v-1 : w \notin NewKeys(s)
    BY <2>2, <2>4
  <2>6. s[v-1].key = s[u].key
    BY <2>2, <2>5, KeyStays
  <2>7. t[i] = s[v] /\ t[i-1] = s[u]
    BY <1>4, <2>1
  <2> QED BY <2>3, <2>6, <2>7
<1>10. /\ \A i, j \in 1..m : i < j => <<t[j], t[i]>> \notin W
       /\ \A j \in 1..Len(s) : \E i \in 1..m : s[j].key = t[i].key
       /\ \A i \in 1..m : i > 1 => t[i].key # t[i-1].key
  BY <1>6, <1>8, <1>9
<1> QED BY <1>5, <1>7, <1>10 DEF Ascends, From, KeysFrom, KeysChange

\* Where no key comes twice in a row there is nothing to remove.
LEMMA DedupStays ==
  ASSUME NEW T, NEW s \in Seq(T), KeysChange(s)
  PROVE  Dedup(s) = s
<1> DEFINE n == Len(s)
           R == SortOrder({}, s)
           q == [r \in 1..n |-> r]
<1>1. n \in Nat /\ s = [r \in 1..n |-> s[r]] /\ DOMAIN s = 1..n
  OBVIOUS
<1>2. NewKeys(s) = 1..n
  BY DEF NewKeys, KeysChange
<1>2a. PICK m \in Nat : \E place \in [1..m -> 1..n] :
         /\ Dedup(s) = [i \in 1..m |-> s[place[i]]]
         /\ \A i, j \in 1..m : i < j => place[i] < place[j]
         /\ \A x \in 1..n : \E i \in 1..m : place[i] = x
  <2>1. Picks(Dedup(s), s, 1..n)
    BY <1>2, DedupIs
  <2> QED BY <2>1 DEF Picks
<1>3. PICK place \in [1..m -> 1..n] :
        /\ Dedup(s) = [i \in 1..m |-> s[place[i]]]
        /\ \A i, j \in 1..m : i < j => place[i] < place[j]
        /\ \A x \in 1..n : \E i \in 1..m : place[i] = x
  BY <1>2a
<1>4. \A i, j \in 1..n : <<i, j>> \in R <=> i < j
  BY DEF SortOrder
<1>5. Orders(R, 1..n)
  BY <1>4 DEF Orders
<1> HIDE DEF R
<1>6. \A i, j \in 1..m : place[i] = place[j] => i = j
  <2> TAKE i, j \in 1..m
  <2>1. place[i] \in 1..n /\ place[j] \in 1..n
    BY <1>3
  <2>2. (i < j => place[i] < place[j]) /\ (j < i => place[j] < place[i])
    BY <1>3
  <2> QED BY <2>1, <2>2
<1>7. m = n
  <2>1. place \in Surjection(1..m, 1..n) /\ place \in Injection(1..m, 1..n)
    BY <1>3, <1>6 DEF Surjection, Injection, IsInjective
  <2>2. IsFiniteSet(1..n) /\ Cardinality(1..n) = n /\ Cardinality(1..m) = m
    BY <1>1, <1>3, CountTo
  <2> QED BY <2>1, <2>2, FS_Injection
<1>8. InOrder(place, R, 1..n, n)
  BY <1>3, <1>4, <1>6, <1>7 DEF InOrder
<1>9. InOrder(q, R, 1..n, n)
  <2>1. q \in [1..n -> 1..n] /\ \A r \in 1..n : q[r] = r
    OBVIOUS
  <2> HIDE DEF q
  <2> QED BY <1>4, <2>1 DEF InOrder
<1>10. place = q
  BY <1>1, <1>5, <1>8, <1>9, InOrderOnce
<1>11. Dedup(s) = [i \in 1..n |-> s[i]]
  BY <1>3, <1>7, <1>10
<1> QED BY <1>1, <1>11

DistinctKeys(s) == \A i, j \in 1..Len(s) : s[i].key = s[j].key => i = j

\* What is in the form already stays as it is.
LEMMA GenerationsStay ==
  ASSUME NEW t \in Seq(GenerationFact), Ascends(t, GenerationOrder), KeysChange(t)
  PROVE  Dedup(StableSort(t, GenerationLess)) = t
<1> DEFINE u == StableSort(t, GenerationLess)
           W == GenerationOrder
<1>1. Sorts(u, W, t) /\ Compares(W, GenerationFact) /\ Ascends(t, W)
  BY GenerationsSorted, GenerationsCompare
<1> HIDE DEF u, W
<1>2. u = t
  BY <1>1, SortedStays
<1>3. Dedup(u) = t
  BY <1>2, DedupStays
<1> QED BY <1>3 DEF u

\* A form is made from the sorted facts alone.
FormOf(pre, t, c) ==
  [pre_states |-> pre, generations |-> t, balances |-> c,
   diagnostics |-> DuplicateKeys(t) \cup InvalidIntervals(t) \cup IntegrityBreaches(t, c)
                     \cup OrderBreaches(t) \cup Overlaps(t),
   keys_unique |-> DuplicateKeys(t) = {},
   referential_integrity |-> IntegrityBreaches(t, c) = {},
   deterministic_order |-> OrderBreaches(t) = {},
   intervals_valid |-> InvalidIntervals(t) \cup Overlaps(t) = {}]

LEMMA FormMade ==
  ASSUME NEW p, NEW g, NEW b
  PROVE  canonicalize(p, g, b) = FormOf(Dedup(StableSort(p, KeyLess)),
                                        Dedup(StableSort(g, GenerationLess)),
                                        Dedup(StableSort(b, KeyLess)))
BY DEF canonicalize, FormOf

-----------------------------------------------------------------------------
(***************************************************************************)
(* The resolution of the history of an address into generations.           *)
(***************************************************************************)

\* A history that is not empty, of observations with growing ordinals.
History(h) ==
  /\ Len(h) \in Nat /\ Len(h) > 0
  /\ \A i \in 1..Len(h) : h[i].payload \in LifecycleType /\ Ordinal(h[i]) \in Nat
  /\ \A i, j \in 1..Len(h) : i < j => Ordinal(h[i]) < Ordinal(h[j])

Initially(h) ==
  [current_gen_id |-> 0, begin |-> Ordinal(h[1]), gen_open |-> TRUE,
   generations |-> << >>, diagnostics |-> {}]

Observe(acc, o, a, existed) ==
  IF o.payload = "ContractCreated" THEN ObserveCreated(acc, o, a, existed)
  ELSE ObserveDestroyed(acc, o, a)

LEMMA ObservedIs ==
  ASSUME NEW a, NEW h, Len(h) \in Nat, NEW existed
  PROVE  LET acc == Observed(a, h, existed)
         IN  /\ acc[0] = Initially(h)
             /\ \A n \in Nat : n < Len(h) => acc[n + 1] = Observe(acc[n], h[n + 1], a, existed)
<1> DEFINE L == Len(h)
           Folded(f, m) ==
             f = [n \in 0..m |-> IF n = 0 THEN Initially(h)
                                 ELSE Observe(f[n - 1], h[n], a, existed)]
           Reached == {m \in Nat : \E f : Folded(f, m)}
<1>1. 0 \in Reached
  <2> DEFINE f == [n \in 0..0 |-> Initially(h)]
  <2>1. Folded(f, 0)
    OBVIOUS
  <2> QED
    BY <2>1
<1>2. ASSUME NEW m \in Nat, m \in Reached PROVE m + 1 \in Reached
  <2>1. PICK f : Folded(f, m)
    BY <1>2
  <2> DEFINE g == [n \in 0..m + 1 |-> IF n = m + 1 THEN Observe(f[m], h[n], a, existed)
                                      ELSE f[n]]
  <2>2. \A n \in 0..m + 1 :
          g[n] = IF n = 0 THEN Initially(h) ELSE Observe(g[n - 1], h[n], a, existed)
    <3>1. TAKE n \in 0..m + 1
    <3>2. CASE n = m + 1
      <4>1. n # 0 /\ n - 1 = m /\ m # m + 1 /\ m \in 0..m + 1
        BY <3>2
      <4>2. g[n] = Observe(f[m], h[n], a, existed) /\ g[m] = f[m]
        BY <3>2, <4>1
      <4> QED
        BY <4>1, <4>2
    <3>3. CASE n # m + 1
      <4>1. n \in 0..m /\ g[n] = f[n]
        BY <3>3
      <4>2. f[n] = IF n = 0 THEN Initially(h) ELSE Observe(f[n - 1], h[n], a, existed)
        BY <2>1, <4>1
      <4>3. ASSUME n # 0 PROVE g[n - 1] = f[n - 1]
        <5>1. n - 1 \in 0..m + 1 /\ n - 1 # m + 1
          BY <4>1, <4>3
        <5> QED
          BY <5>1
      <4> QED
        BY <4>1, <4>2, <4>3
    <3> QED
      BY <3>2, <3>3
  <2>3. g = [n \in 0..m + 1 |-> g[n]]
    OBVIOUS
  <2> HIDE DEF g
  <2>4. Folded(g, m + 1)
    BY <2>2, <2>3
  <2> QED
    BY <2>4
<1> HIDE DEF Reached
<1>3. \E f : Folded(f, L)
  <2>1. L \in Reached
    BY <1>1, <1>2, AllNaturals
  <2> QED
    BY <2>1 DEF Reached
<1> DEFINE acc == Observed(a, h, existed)
<1>4. acc = CHOOSE f : Folded(f, L)
  BY DEF Observed, Observe, Initially
<1> HIDE DEF acc
<1>5. Folded(acc, L)
  <2> HIDE DEF Folded
  <2> QED
    BY <1>3, <1>4
<1>6. acc[0] = Initially(h)
  <2>1. 0 \in 0..L
    OBVIOUS
  <2> QED
    BY <1>5, <2>1
<1>7. ASSUME NEW n \in Nat, n < L PROVE acc[n + 1] = Observe(acc[n], h[n + 1], a, existed)
  <2>1. n + 1 \in 0..L /\ n + 1 # 0 /\ (n + 1) - 1 = n
    BY <1>7
  <2>2. acc[n + 1] = Observe(acc[(n + 1) - 1], h[n + 1], a, existed)
    BY <1>5, <2>1
  <2> QED
    BY <2>1, <2>2
<1> QED BY <1>6, <1>7 DEF acc

AccFields == {"current_gen_id", "begin", "gen_open", "generations", "diagnostics"}

\* What an observation does to each of the locals.
Observing(acc, o, a, existed, next) ==
  /\ DOMAIN next = AccFields /\ next.begin = Ordinal(o)
  /\ o.payload = "ContractCreated" =>
       /\ next.current_gen_id = acc.current_gen_id
       /\ next.generations = acc.generations /\ next.gen_open = TRUE
       /\ next.diagnostics =
            IF acc.current_gen_id = 0 /\ existed
            THEN acc.diagnostics \cup {Diagnosed("Collision",
                   GenerationKey(a, acc.current_gen_id), Ordinal(o))}
            ELSE acc.diagnostics
  /\ o.payload # "ContractCreated" =>
       /\ next.current_gen_id = acc.current_gen_id + 1
       /\ next.generations = Append(acc.generations,
            Generation(a, acc.current_gen_id, acc.begin, Ordinal(o)))
       /\ next.gen_open = FALSE
       /\ next.diagnostics = acc.diagnostics

LEMMA ObserveIs ==
  ASSUME NEW acc, DOMAIN acc = AccFields, NEW o, NEW a, NEW existed
  PROVE  Observing(acc, o, a, existed, Observe(acc, o, a, existed))
<1> DEFINE next == Observe(acc, o, a, existed)
<1> DEFINE b == Ordinal(o)
           g == Generation(a, acc.current_gen_id, acc.begin, b)
           d == Diagnosed("Collision", GenerationKey(a, acc.current_gen_id), b)
<1>1. CASE o.payload = "ContractCreated"
  <2>1. next = [acc EXCEPT
           !.begin = b, !.gen_open = TRUE,
           !.diagnostics = IF acc.current_gen_id = 0 /\ existed THEN @ \cup {d} ELSE @]
    BY <1>1 DEF Observe, ObserveCreated
  <2> HIDE DEF b, g, d, next
  <2>2. /\ DOMAIN next = AccFields /\ next.begin = b
        /\ next.current_gen_id = acc.current_gen_id
        /\ next.generations = acc.generations /\ next.gen_open = TRUE
        /\ next.diagnostics = IF acc.current_gen_id = 0 /\ existed
                              THEN acc.diagnostics \cup {d} ELSE acc.diagnostics
    BY <2>1 DEF AccFields
  <2>3. Observing(acc, o, a, existed, next)
    BY <1>1, <2>2 DEF b, d, Observing
  <2> QED BY <2>3 DEF next
<1>2. CASE o.payload # "ContractCreated"
  <2>1. next = [acc EXCEPT
           !.generations = Append(@, g), !.current_gen_id = @ + 1, !.begin = b,
           !.gen_open = FALSE]
    BY <1>2 DEF Observe, ObserveDestroyed
  <2> HIDE DEF b, g, d, next
  <2>2. /\ DOMAIN next = AccFields /\ next.begin = b
        /\ next.current_gen_id = acc.current_gen_id + 1
        /\ next.generations = Append(acc.generations, g) /\ next.gen_open = FALSE
        /\ next.diagnostics = acc.diagnostics
    BY <2>1 DEF AccFields
  <2>3. Observing(acc, o, a, existed, next)
    BY <1>2, <2>2 DEF b, g, Observing
  <2> QED BY <2>3 DEF next
<1> QED BY <1>1, <1>2

\* The destructions among the first n observations, and the generation that the
\* one in place j closes.
DestroyedTo(h, n) == {j \in 1..n : h[j].payload = "ContractDestroyed"}

Closed(a, h, k, j) ==
  Generation(a, k - 1, Ordinal(h[IF j = 1 THEN 1 ELSE j - 1]), Ordinal(h[j]))

\* Destruction k closes generation k - 1.
ClosedTo(gens, m, a, h, n) ==
  \E place \in [1..m -> DestroyedTo(h, n)] :
    /\ gens = [k \in 1..m |-> Closed(a, h, k, place[k])]
    /\ \A k, l \in 1..m : k < l => place[k] < place[l]
    /\ \A j \in DestroyedTo(h, n) : \E k \in 1..m : place[k] = j

\* The locals after n observations.
Tracked(acc, n, a, h, existed) ==
  /\ DOMAIN acc = AccFields
  /\ acc.begin = Ordinal(h[IF n = 0 THEN 1 ELSE n])
  /\ acc.gen_open \in BOOLEAN
  /\ acc.gen_open <=> n = 0 \/ h[n].payload = "ContractCreated"
  /\ acc.current_gen_id \in Nat
  /\ ClosedTo(acc.generations, acc.current_gen_id, a, h, n)
  /\ acc.diagnostics = {} <=> ~(existed /\ n > 0 /\ h[1].payload = "ContractCreated")

LEMMA ClosedNext ==
  ASSUME NEW h, NEW n \in Nat, NEW a, NEW gens, NEW m \in Nat, ClosedTo(gens, m, a, h, n),
         h[n + 1].payload = "ContractDestroyed"
  PROVE  ClosedTo(Append(gens, Closed(a, h, m + 1, n + 1)), m + 1, a, h, n + 1)
<1> DEFINE D == DestroyedTo(h, n)
           E == DestroyedTo(h, n + 1)
           c == Closed(a, h, m + 1, n + 1)
<1>1. PICK place \in [1..m -> D] :
        /\ gens = [k \in 1..m |-> Closed(a, h, k, place[k])]
        /\ \A k, l \in 1..m : k < l => place[k] < place[l]
        /\ \A j \in D : \E k \in 1..m : place[k] = j
  BY DEF ClosedTo
<1>2. E = D \cup {n + 1} /\ \A j \in D : j \in 1..n
  BY DEF DestroyedTo
<1> HIDE DEF D, E
<1> DEFINE further == [k \in 1..m + 1 |-> IF k = m + 1 THEN n + 1 ELSE place[k]]
<1>3. /\ \A k \in 1..m : k \in 1..m + 1 /\ k # m + 1
      /\ m + 1 \in 1..m + 1
      /\ \A k \in 1..m + 1 : k \in 1..m \/ k = m + 1
  OBVIOUS
<1>4. /\ further \in [1..m + 1 -> E] /\ further[m + 1] = n + 1
      /\ \A k \in 1..m : further[k] = place[k] /\ place[k] \in D
  BY <1>1, <1>2, <1>3
<1> HIDE DEF further
<1>5. \A k, l \in 1..m + 1 : k < l => further[k] < further[l]
  <2> SUFFICES ASSUME NEW k \in 1..m + 1, NEW l \in 1..m + 1, k < l
               PROVE  further[k] < further[l]
    OBVIOUS
  <2>1. k \in 1..m
    OBVIOUS
  <2>2. CASE l \in 1..m
    BY <1>1, <1>4, <2>1, <2>2
  <2>3. CASE l = m + 1
    <3>1. further[k] \in 1..n /\ further[l] = n + 1
      BY <1>2, <1>4, <2>1, <2>3
    <3> QED BY <3>1
  <2> QED BY <1>3, <2>2, <2>3
<1>6. \A j \in E : \E k \in 1..m + 1 : further[k] = j
  <2> SUFFICES ASSUME NEW j \in E PROVE \E k \in 1..m + 1 : further[k] = j
    OBVIOUS
  <2>1. CASE j \in D
    <3>1. PICK k \in 1..m : place[k] = j
      BY <1>1, <2>1
    <3> QED BY <1>3, <1>4, <3>1
  <2>2. CASE j = n + 1
    BY <1>3, <1>4, <2>2
  <2> QED BY <1>2, <2>1, <2>2
<1> DEFINE G == {Closed(a, h, k, j) : k \in 1..m + 1, j \in E}
<1>7. gens \in Seq(G) /\ Len(gens) = m /\ c \in G
  <2>1. \A k \in 1..m : Closed(a, h, k, place[k]) \in G
    BY <1>2, <1>3, <1>4
  <2>2. c \in G
    BY <1>2, <1>3
  <2> HIDE DEF G, c
  <2>3. gens \in [1..m -> G]
    BY <1>1, <2>1
  <2> QED BY <2>2, <2>3, SeqDef, LenProperties
<1> HIDE DEF G
<1>8. Append(gens, c) = [k \in 1..m + 1 |-> Closed(a, h, k, further[k])]
  <2>1. /\ Append(gens, c) \in Seq(G) /\ Len(Append(gens, c)) = m + 1
        /\ \A k \in 1..m : Append(gens, c)[k] = gens[k]
        /\ Append(gens, c)[m + 1] = c
    BY <1>7
  <2>2. Append(gens, c) = [k \in 1..m + 1 |-> Append(gens, c)[k]]
    BY <2>1, LenProperties
  <2>3. ASSUME NEW k \in 1..m + 1
        PROVE  Append(gens, c)[k] = Closed(a, h, k, further[k])
    <3>1. CASE k \in 1..m
      <4>1. gens[k] = Closed(a, h, k, place[k])
        BY <1>1, <3>1
      <4> QED BY <1>4, <2>1, <3>1, <4>1
    <3>2. CASE k = m + 1
      BY <1>4, <2>1, <3>2
    <3> QED BY <1>3, <3>1, <3>2
  <2> HIDE DEF c
  <2> QED BY <2>2, <2>3
<1> QED BY <1>4, <1>5, <1>6, <1>8 DEF ClosedTo, E, c

LEMMA TrackedFrom ==
  ASSUME NEW h, NEW n \in Nat, NEW a, NEW existed \in BOOLEAN, NEW next,
         DOMAIN next = AccFields, next.begin = Ordinal(h[n + 1]),
         \/ next.gen_open = TRUE /\ h[n + 1].payload = "ContractCreated"
         \/ next.gen_open = FALSE /\ h[n + 1].payload = "ContractDestroyed",
         next.current_gen_id \in Nat,
         ClosedTo(next.generations, next.current_gen_id, a, h, n + 1),
         next.diagnostics = {} <=> ~(existed /\ h[1].payload = "ContractCreated")
  PROVE  Tracked(next, n + 1, a, h, existed)
<1>1. n + 1 # 0 /\ n + 1 > 0
  OBVIOUS
<1>2. next.begin = Ordinal(h[IF n + 1 = 0 THEN 1 ELSE n + 1])
  BY <1>1
<1>3. next.gen_open \in BOOLEAN
  OBVIOUS
<1>4. next.gen_open <=> n + 1 = 0 \/ h[n + 1].payload = "ContractCreated"
  BY <1>1
<1>5. next.diagnostics = {} <=> ~(existed /\ n + 1 > 0 /\ h[1].payload = "ContractCreated")
  BY <1>1
<1> QED BY <1>2, <1>3, <1>4, <1>5, Zenon DEF Tracked

LEMMA TrackedNext ==
  ASSUME NEW h, History(h), NEW n \in Nat, n < Len(h), NEW a, NEW existed \in BOOLEAN,
         NEW acc, Tracked(acc, n, a, h, existed)
  PROVE  Tracked(Observe(acc, h[n + 1], a, existed), n + 1, a, h, existed)
<1> DEFINE o == h[n + 1]
           next == Observe(acc, o, a, existed)
           D == DestroyedTo(h, n)
           E == DestroyedTo(h, n + 1)
           m == acc.current_gen_id
<1>1. DOMAIN acc = AccFields /\ m \in Nat /\ ClosedTo(acc.generations, m, a, h, n)
  BY DEF Tracked
<1>2. /\ n + 1 \in 1..Len(h) /\ n + 1 # 0
      /\ o.payload \in LifecycleType
  BY DEF History
<1>3. Observing(acc, o, a, existed, next)
  BY <1>1, ObserveIs
<1> HIDE DEF next
<1>4. CASE o.payload = "ContractCreated"
  <2>1. E = D
    BY <1>4 DEF DestroyedTo
  <2>2. ClosedTo(next.generations, next.current_gen_id, a, h, n + 1)
    <3>1. next.generations = acc.generations /\ next.current_gen_id = m
      BY <1>3, <1>4 DEF Observing
    <3> QED BY <1>1, <2>1, <3>1 DEF ClosedTo
  <2>3. n = 0 \/ n > 0
    OBVIOUS
  <2>4. next.diagnostics = {} <=> ~(existed /\ h[1].payload = "ContractCreated")
    <3>1. CASE m = 0 /\ existed
      <4>1. D = {}
        BY <1>1, <3>1 DEF ClosedTo
      <4>2. h[1].payload = "ContractCreated"
        <5>1. CASE n = 0
          BY <1>4, <5>1
        <5>2. CASE n > 0
          <6>1. 1 \in 1..n /\ 1 \in 1..Len(h)
            BY <1>2, <5>2
          <6>2. h[1].payload # "ContractDestroyed" /\ h[1].payload \in LifecycleType
            BY <4>1, <6>1 DEF DestroyedTo, History
          <6> QED BY <6>2 DEF LifecycleType
        <5> QED BY <2>3, <5>1, <5>2
      <4>3. next.diagnostics # {}
        BY <1>3, <1>4, <3>1 DEF Observing
      <4> QED BY <3>1, <4>2, <4>3
    <3>2. CASE ~existed
      <4>1. acc.diagnostics = {}
        BY <3>2 DEF Tracked
      <4> QED BY <1>3, <1>4, <3>2, <4>1 DEF Observing
    <3>3. CASE m # 0 /\ existed
      <4>1. n > 0
        <5>1. 1 \in 1..m
          BY <1>1, <3>3
        <5>2. D # {}
          BY <1>1, <5>1 DEF ClosedTo
        <5> QED BY <2>3, <5>2 DEF DestroyedTo
      <4>2. acc.diagnostics = {} <=> ~(existed /\ h[1].payload = "ContractCreated")
        BY <4>1 DEF Tracked
      <4> QED BY <1>3, <1>4, <3>3, <4>2 DEF Observing
    <3> QED BY <3>1, <3>2, <3>3
  <2>5. /\ next.current_gen_id \in Nat /\ DOMAIN next = AccFields /\ next.begin = Ordinal(o)
        /\ next.gen_open = TRUE
    BY <1>1, <1>3, <1>4 DEF Observing
  <2>6. Tracked(next, n + 1, a, h, existed)
    BY <1>4, <2>2, <2>4, <2>5, TrackedFrom
  <2> QED BY <2>6 DEF next
<1>5. CASE o.payload = "ContractDestroyed"
  <2>1. next.generations = Append(acc.generations, Closed(a, h, m + 1, n + 1))
    <3>1. acc.begin = Ordinal(h[IF n + 1 = 1 THEN 1 ELSE (n + 1) - 1])
      <4>1. n + 1 = 1 <=> n = 0
        OBVIOUS
      <4>2. (n + 1) - 1 = n
        OBVIOUS
      <4> QED BY <4>1, <4>2 DEF Tracked
    <3>2. (m + 1) - 1 = m
      BY <1>1
    <3>3. Closed(a, h, m + 1, n + 1)
            = Generation(a, (m + 1) - 1, Ordinal(h[IF n + 1 = 1 THEN 1 ELSE (n + 1) - 1]),
                         Ordinal(o))
      BY Zenon DEF Closed
    <3>4. next.generations = Append(acc.generations, Generation(a, m, acc.begin, Ordinal(o)))
      BY <1>3, <1>5 DEF Observing
    <3> QED BY <3>1, <3>2, <3>3, <3>4
  <2>2. ClosedTo(next.generations, m + 1, a, h, n + 1)
    BY <1>1, <1>5, <2>1, ClosedNext
  <2>3. next.diagnostics = {} <=> ~(existed /\ h[1].payload = "ContractCreated")
    <3>1. next.diagnostics = acc.diagnostics
      BY <1>3, <1>5 DEF Observing
    <3>2. CASE n = 0
      <4>1. acc.diagnostics = {} /\ h[1].payload = "ContractDestroyed"
        BY <1>5, <3>2 DEF Tracked
      <4> QED BY <3>1, <4>1
    <3>3. CASE n > 0
      BY <3>1, <3>3 DEF Tracked
    <3> QED BY <3>2, <3>3
  <2>4. m + 1 \in Nat /\ next.current_gen_id = m + 1 /\ next.gen_open = FALSE
    BY <1>1, <1>3, <1>5 DEF Observing
  <2>5. DOMAIN next = AccFields /\ next.begin = Ordinal(o) /\ next.gen_open = FALSE
    BY <1>3, <1>5 DEF Observing
  <2>6. ClosedTo(next.generations, next.current_gen_id, a, h, n + 1)
    BY <2>2, <2>4
  <2>7. next.current_gen_id \in Nat
    BY <2>4
  <2>8. \/ next.gen_open = TRUE /\ o.payload = "ContractCreated"
        \/ next.gen_open = FALSE /\ o.payload = "ContractDestroyed"
    BY <1>5, <2>5
  <2>9. Tracked(next, n + 1, a, h, existed)
    <3>1. DOMAIN next = AccFields /\ next.begin = Ordinal(h[n + 1])
      BY <2>5
    <3> QED BY <2>3, <2>6, <2>7, <2>8, <3>1, TrackedFrom
  <2> QED BY <2>9 DEF next
<1> QED BY <1>2, <1>4, <1>5 DEF LifecycleType, next

LEMMA ObservedTracked ==
  ASSUME NEW h, History(h), NEW a, NEW existed \in BOOLEAN
  PROVE  Tracked(Observed(a, h, existed)[Len(h)], Len(h), a, h, existed)
<1> DEFINE acc == Observed(a, h, existed)
           Good == {n \in Nat : n <= Len(h) => Tracked(acc[n], n, a, h, existed)}
<1>1. /\ Len(h) \in Nat
      /\ acc[0] = Initially(h)
      /\ \A n \in Nat : n < Len(h) => acc[n + 1] = Observe(acc[n], h[n + 1], a, existed)
  BY ObservedIs DEF History
<1> HIDE DEF acc
<1>2. 0 \in Good
  <2> DEFINE i == Initially(h)
  <2>1. /\ DOMAIN i = AccFields /\ i.begin = Ordinal(h[1]) /\ i.gen_open = TRUE
        /\ i.current_gen_id = 0 /\ i.generations = << >> /\ i.diagnostics = {}
    BY DEF Initially, AccFields
  <2> HIDE DEF i
  <2>2. ClosedTo(<< >>, 0, a, h, 0)
    <3>1. DestroyedTo(h, 0) = {}
      BY DEF DestroyedTo
    <3> DEFINE place == [k \in 1..0 |-> k]
    <3>2. place \in [1..0 -> {}] /\ << >> = [k \in 1..0 |-> Closed(a, h, k, place[k])]
      OBVIOUS
    <3> HIDE DEF place
    <3>3. \A k \in 1..0 : FALSE
      OBVIOUS
    <3> QED BY <3>1, <3>2, <3>3 DEF ClosedTo
  <2>3. Tracked(i, 0, a, h, existed)
    <3>1. i.begin = Ordinal(h[IF 0 = 0 THEN 1 ELSE 0]) /\ i.current_gen_id \in Nat
      BY <2>1
    <3>2. i.gen_open \in BOOLEAN
      BY <2>1
    <3>3. i.gen_open <=> 0 = 0 \/ h[0].payload = "ContractCreated"
      BY <2>1
    <3>4. i.diagnostics = {} <=> ~(existed /\ 0 > 0 /\ h[1].payload = "ContractCreated")
      BY <2>1
    <3>5. ClosedTo(i.generations, i.current_gen_id, a, h, 0)
      BY <2>1, <2>2
    <3> QED BY <2>1, <3>1, <3>2, <3>3, <3>4, <3>5, Zenon DEF Tracked
  <2> QED BY <1>1, <2>3 DEF i
<1>3. ASSUME NEW n \in Nat, n \in Good PROVE n + 1 \in Good
  <2>1. SUFFICES ASSUME n + 1 <= Len(h) PROVE Tracked(acc[n + 1], n + 1, a, h, existed)
    OBVIOUS
  <2>2. n < Len(h) /\ Tracked(acc[n], n, a, h, existed)
    BY <1>1, <1>3, <2>1
  <2> QED BY <1>1, <2>2, TrackedNext
<1> HIDE DEF Good
<1>4. Len(h) \in Good
  BY <1>1, <1>2, <1>3, AllNaturals
<1> QED BY <1>1, <1>4 DEF Good, acc

\* The generations of a, as its history h makes them.
IsOpen(h) == h[Len(h)].payload = "ContractCreated"

SpansFrom(R, a, h, m, place) ==
  /\ \A k, l \in 1..m : k < l => place[k] < place[l]
  /\ \A j \in DestroyedTo(h, Len(h)) : \E k \in 1..m : place[k] = j
  /\ R \in Seq(GenerationFact) /\ Len(R) = IF IsOpen(h) THEN m + 1 ELSE m
  /\ \A k \in 1..m : R[k] = Closed(a, h, k, place[k])
  /\ IsOpen(h) => R[m + 1] = Generation(a, m, Ordinal(h[Len(h)]), NoEnd)

Spans(R, a, h) ==
  \E m \in Nat : \E place \in [1..m -> DestroyedTo(h, Len(h))] : SpansFrom(R, a, h, m, place)

\* The generation c, number k - 1 of a, is closed in place j of its history.
ClosedBy(c, a, h, k, j) ==
  /\ j \in 1..Len(h) /\ c.key = GenerationKey(a, k - 1)
  /\ j = 1 => c.begin = Ordinal(h[1])
  /\ j # 1 => j - 1 \in 1..Len(h) /\ c.begin = Ordinal(h[j - 1])
  /\ c.end = Ordinal(h[j]) /\ c.end \in Nat /\ c.end # NoEnd

LEMMA ClosedFacts ==
  ASSUME NEW h, History(h), NEW a \in Nat, NEW k \in Nat \ {0},
         NEW j \in DestroyedTo(h, Len(h)), NEW c, c = Closed(a, h, k, j)
  PROVE  c \in GenerationFact /\ ClosedBy(c, a, h, k, j)
<1>1. j \in 1..Len(h) /\ Len(h) \in Nat /\ Len(h) > 0
  BY DEF DestroyedTo, History
<1> DEFINE i == IF j = 1 THEN 1 ELSE j - 1
<1>2. i \in 1..Len(h) /\ (j = 1 => i = 1) /\ (j # 1 => i = j - 1)
  BY <1>1
<1>3. c = Generation(a, k - 1, Ordinal(h[i]), Ordinal(h[j]))
  BY DEF Closed
<1> HIDE DEF i
<1>4. Ordinal(h[i]) \in Nat /\ Ordinal(h[j]) \in Nat
  BY <1>1, <1>2 DEF History
<1>5. k - 1 \in Nat
  OBVIOUS
<1>6. c.key = GenerationKey(a, k - 1) /\ c.begin = Ordinal(h[i]) /\ c.end = Ordinal(h[j])
  BY <1>3 DEF Generation
<1>7. c \in GenerationFact
  BY <1>3, <1>4, <1>5 DEF Generation, GenerationKey, GenerationFact, Keys
<1>8. c.end # NoEnd
  BY <1>4, <1>6, NoEndAssumption
<1> QED BY <1>1, <1>2, <1>4, <1>6, <1>7, <1>8 DEF ClosedBy

LEMMA ResolvedIs ==
  ASSUME NEW h, History(h), NEW a \in Nat, NEW existed \in BOOLEAN,
         NEW res, res = ResolveAddress(a, h, existed)
  PROVE  /\ Spans(res.generations, a, h)
         /\ res.diagnostics = {} <=> ~(existed /\ h[1].payload = "ContractCreated")
<1> DEFINE L == Len(h)
           acc == Observed(a, h, existed)[L]
           g == acc.generations
           m == acc.current_gen_id
           u == Generation(a, m, acc.begin, NoEnd)
           R == IF acc.gen_open THEN Append(g, u) ELSE g
           D == DestroyedTo(h, L)
<1>1. L \in Nat /\ L > 0 /\ Tracked(acc, L, a, h, existed)
  BY ObservedTracked DEF History
<1>2. res.generations = R /\ res.diagnostics = acc.diagnostics
  BY DEF ResolveAddress
<1> HIDE DEF acc
<1>3. L # 0
  BY <1>1
<1> HIDE DEF L
<1>4. /\ acc.begin = Ordinal(h[IF L = 0 THEN 1 ELSE L]) /\ acc.gen_open \in BOOLEAN
      /\ acc.gen_open <=> L = 0 \/ h[L].payload = "ContractCreated"
      /\ m \in Nat /\ ClosedTo(g, m, a, h, L)
      /\ acc.diagnostics = {} <=> ~(existed /\ L > 0 /\ h[1].payload = "ContractCreated")
  BY <1>1, Zenon DEF Tracked
<1>5. PICK place \in [1..m -> D] :
        /\ g = [k \in 1..m |-> Closed(a, h, k, place[k])]
        /\ \A k, l \in 1..m : k < l => place[k] < place[l]
        /\ \A j \in D : \E k \in 1..m : place[k] = j
  BY <1>4 DEF ClosedTo
<1>6. g \in [1..m -> GenerationFact] /\ \A k \in 1..m : g[k] = Closed(a, h, k, place[k])
  <2>1. ASSUME NEW k \in 1..m PROVE Closed(a, h, k, place[k]) \in GenerationFact
    <3>1. k \in Nat \ {0} /\ place[k] \in DestroyedTo(h, Len(h))
      BY <1>4, <1>5 DEF L
    <3> QED BY <3>1, ClosedFacts
  <2> QED BY <1>5, <2>1
<1>7. g \in Seq(GenerationFact) /\ Len(g) = m
  BY <1>4, <1>6, SeqDef
<1>8. u = Generation(a, m, Ordinal(h[L]), NoEnd) /\ u \in GenerationFact
  <2>1. acc.begin = Ordinal(h[L])
    BY <1>3, <1>4
  <2>2. Ordinal(h[L]) \in Nat
    BY <1>1 DEF History, L
  <2> QED BY <1>4, <2>1, <2>2 DEF Generation, GenerationKey, GenerationFact, Keys
<1>9. Spans(R, a, h)
  <2> HIDE DEF u, g, m
  <2>0. IsOpen(h) <=> h[L].payload = "ContractCreated"
    BY DEF IsOpen, L
  <2>1. CASE h[L].payload = "ContractCreated"
    <3>1. R = Append(g, u)
      BY <1>4, <2>1
    <3>2. /\ R \in Seq(GenerationFact) /\ Len(R) = m + 1 /\ R[m + 1] = u
          /\ \A k \in 1..m : R[k] = g[k]
      BY <1>7, <1>8, <3>1
    <3> HIDE DEF R
    <3> QED BY <1>4, <1>5, <1>6, <1>8, <2>0, <2>1, <3>2 DEF Spans, SpansFrom, L
  <2>2. CASE h[L].payload # "ContractCreated"
    <3>1. R = g
      BY <1>3, <1>4, <2>2, Zenon
    <3> HIDE DEF R
    <3> QED BY <1>4, <1>5, <1>6, <1>7, <2>0, <2>2, <3>1 DEF Spans, SpansFrom, L
  <2> QED BY <2>1, <2>2
<1> QED BY <1>1, <1>2, <1>4, <1>9

LEMMA ClosedIs ==
  ASSUME NEW h, History(h), NEW a \in Nat, NEW R, NEW m \in Nat,
         NEW place \in [1..m -> DestroyedTo(h, Len(h))], SpansFrom(R, a, h, m, place)
  PROVE  \A k \in 1..m : ClosedBy(R[k], a, h, k, place[k])
<1> TAKE k \in 1..m
<1> DEFINE j == place[k]
<1>1. j \in DestroyedTo(h, Len(h)) /\ R[k] = Closed(a, h, k, j) /\ k \in Nat \ {0}
  BY DEF SpansFrom
<1> HIDE DEF j
<1>2. ClosedBy(R[k], a, h, k, j)
  BY <1>1, ClosedFacts
<1> QED BY <1>2 DEF j

LEMMA OpenIs ==
  ASSUME NEW h, NEW a, NEW R, NEW m \in Nat, NEW place, SpansFrom(R, a, h, m, place), IsOpen(h)
  PROVE  /\ R[m + 1].key = GenerationKey(a, (m + 1) - 1)
         /\ R[m + 1].begin = Ordinal(h[Len(h)]) /\ R[m + 1].end = NoEnd
<1>1. (m + 1) - 1 = m
  OBVIOUS
<1> QED BY <1>1 DEF SpansFrom, Generation

LEMMA NeverNone ==
  ASSUME NEW h, History(h), NEW a, NEW R, NEW m \in Nat,
         NEW place \in [1..m -> DestroyedTo(h, Len(h))], SpansFrom(R, a, h, m, place)
  PROVE  Len(R) > 0
<1>1. CASE IsOpen(h)
  BY <1>1 DEF SpansFrom
<1>2. CASE ~IsOpen(h)
  <2>1. Len(h) \in DestroyedTo(h, Len(h))
    BY <1>2 DEF IsOpen, History, DestroyedTo, LifecycleType
  <2>2. PICK k \in 1..m : place[k] = Len(h)
    BY <2>1 DEF SpansFrom
  <2> QED BY <1>2, <2>2 DEF SpansFrom
<1> QED BY <1>1, <1>2

\* R lists generations of a, from 0 on, in the order in which they begin.
Generated(R, a) ==
  /\ R \in Seq(GenerationFact) /\ Len(R) > 0
  /\ \A k \in 1..Len(R) : R[k].key = GenerationKey(a, k - 1)
  /\ \A k, l \in 1..Len(R) : k < l => R[k].begin <= R[l].begin

LEMMA SpansGenerated ==
  ASSUME NEW h, History(h), NEW a \in Nat, NEW R, Spans(R, a, h)
  PROVE  Generated(R, a)
<1> DEFINE L == Len(h)
           open == IsOpen(h)
<1>1. PICK m \in Nat : \E place \in [1..m -> DestroyedTo(h, L)] : SpansFrom(R, a, h, m, place)
  BY DEF Spans
<1>2. PICK place \in [1..m -> DestroyedTo(h, L)] : SpansFrom(R, a, h, m, place)
  BY <1>1
<1>3. /\ L \in Nat /\ L > 0 /\ L \in 1..L
      /\ \A i \in 1..L : Ordinal(h[i]) \in Nat
      /\ \A i, j \in 1..L : i < j => Ordinal(h[i]) < Ordinal(h[j])
  BY DEF History
<1>4. /\ R \in Seq(GenerationFact) /\ Len(R) = IF open THEN m + 1 ELSE m
      /\ \A k, l \in 1..m : k < l => place[k] < place[l]
  BY <1>2 DEF SpansFrom
<1>5. \A k \in 1..m :
        /\ place[k] \in 1..L /\ R[k].key = GenerationKey(a, k - 1)
        /\ place[k] = 1 => R[k].begin = Ordinal(h[1])
        /\ place[k] # 1 => place[k] - 1 \in 1..L /\ R[k].begin = Ordinal(h[place[k] - 1])
  BY <1>2, ClosedIs DEF ClosedBy
<1>6. open => /\ R[m + 1].key = GenerationKey(a, (m + 1) - 1)
              /\ R[m + 1].begin = Ordinal(h[L])
  BY <1>2, OpenIs
<1>7. Len(R) > 0
  BY <1>2, NeverNone
<1>8. \A k \in 1..Len(R) : k \in 1..m \/ (open /\ k = m + 1)
  BY <1>4
<1> HIDE DEF L, open
<1>9. \A k \in 1..Len(R) : R[k].key = GenerationKey(a, k - 1)
  BY <1>5, <1>6, <1>8
<1>10. ASSUME NEW k \in 1..Len(R), NEW l \in 1..Len(R), k < l
       PROVE  R[k].begin <= R[l].begin
  <2>1. k \in 1..m
    BY <1>8, <1>10
  <2> DEFINE i == place[k]
  <2>2. PICK b \in 1..L : /\ R[k].begin = Ordinal(h[b])
                          /\ i = 1 => b = 1
                          /\ i # 1 => b = i - 1
    <3>1. CASE i = 1
      <4>1. 1 \in 1..L
        BY <1>3
      <4> QED BY <1>5, <2>1, <3>1, <4>1
    <3>2. CASE i # 1
      BY <1>5, <2>1, <3>2
    <3> QED BY <3>1, <3>2
  <2>3. i \in 1..L
    BY <1>5, <2>1
  <2>4. PICK c \in 1..L : R[l].begin = Ordinal(h[c]) /\ b <= c
    <3>1. CASE l \in 1..m
      <4> DEFINE j == place[l]
      <4>1. i < j /\ j \in 1..L
        BY <1>4, <1>5, <1>10, <2>1, <3>1
      <4>2. j # 1
        BY <2>3, <4>1
      <4>3. j - 1 \in 1..L /\ R[l].begin = Ordinal(h[j - 1])
        BY <1>5, <3>1, <4>2
      <4>4. b <= j - 1
        BY <2>2, <2>3, <4>1
      <4> QED BY <4>3, <4>4
    <3>2. CASE open /\ l = m + 1
      <4>1. L \in 1..L /\ b <= L /\ R[l].begin = Ordinal(h[L])
        BY <1>3, <1>6, <3>2
      <4> QED BY <4>1
    <3> QED BY <1>8, <3>1, <3>2
  <2> HIDE DEF i
  <2>5. CASE b = c
    <3>1. Ordinal(h[b]) \in Nat
      BY <1>3
    <3> QED BY <2>2, <2>4, <2>5, <3>1
  <2>6. CASE b < c
    <3>1. Ordinal(h[b]) \in Nat /\ Ordinal(h[c]) \in Nat /\ Ordinal(h[b]) < Ordinal(h[c])
      BY <1>3, <2>6
    <3> QED BY <2>2, <2>4, <3>1
  <2> QED BY <2>4, <2>5, <2>6
<1> QED BY <1>4, <1>7, <1>9, <1>10 DEF Generated

\* R has a generation that does not end after it begins, or one that does not
\* begin after the end of the one before it; h begins with a destruction, or has
\* two of them in a row.
Backward(R) == \E k \in 1..Len(R) : R[k].end # NoEnd /\ R[k].begin >= R[k].end

Crowded(R) ==
  \E k \in 1..Len(R) : k > 1 /\ R[k-1].end # NoEnd /\ R[k-1].end >= R[k].begin

DestroyedFirst(h) == h[1].payload = "ContractDestroyed"

DestroyedTwice(h) ==
  \E j \in 1..Len(h) : /\ j > 1 /\ h[j-1].payload = "ContractDestroyed"
                       /\ h[j].payload = "ContractDestroyed"

LEMMA BackwardIs ==
  ASSUME NEW h, History(h), NEW a \in Nat, NEW R, Spans(R, a, h)
  PROVE  Backward(R) <=> DestroyedFirst(h)
<1> DEFINE L == Len(h)
           D == DestroyedTo(h, L)
<1>1. PICK m \in Nat : \E place \in [1..m -> D] : SpansFrom(R, a, h, m, place)
  BY DEF Spans
<1>2. PICK place \in [1..m -> D] : SpansFrom(R, a, h, m, place)
  BY <1>1
<1>3. /\ L \in Nat /\ 1 \in 1..L
      /\ \A i \in 1..L : Ordinal(h[i]) \in Nat
      /\ \A i, j \in 1..L : i < j => Ordinal(h[i]) < Ordinal(h[j])
  BY DEF History
<1>4. /\ Len(R) = IF IsOpen(h) THEN m + 1 ELSE m
      /\ \A j \in D : \E k \in 1..m : place[k] = j
  BY <1>2 DEF SpansFrom
<1>5. \A k \in 1..m : ClosedBy(R[k], a, h, k, place[k])
  BY <1>2, ClosedIs
<1>6. IsOpen(h) => R[m + 1].end = NoEnd
  BY <1>2, OpenIs
<1>7. 1 \in D <=> DestroyedFirst(h)
  BY <1>3 DEF DestroyedTo, DestroyedFirst
<1>8. ASSUME DestroyedFirst(h) PROVE Backward(R)
  <2>1. PICK k \in 1..m : place[k] = 1
    BY <1>4, <1>7, <1>8
  <2>2. R[k].begin = Ordinal(h[1]) /\ R[k].end = Ordinal(h[1]) /\ R[k].end # NoEnd
    BY <1>5, <2>1 DEF ClosedBy
  <2>3. k \in 1..Len(R) /\ Ordinal(h[1]) \in Nat
    BY <1>3, <1>4
  <2> QED BY <2>2, <2>3 DEF Backward
<1>9. ASSUME Backward(R) PROVE DestroyedFirst(h)
  <2>1. PICK k \in 1..Len(R) : R[k].end # NoEnd /\ R[k].begin >= R[k].end
    BY <1>9 DEF Backward
  <2>2. k \in 1..m
    BY <1>4, <1>6, <2>1
  <2> DEFINE j == place[k]
  <2>3. j \in D /\ ClosedBy(R[k], a, h, k, j)
    BY <1>2, <1>5, <2>2
  <2> HIDE DEF j, D
  <2>4. CASE j # 1
    <3>1. /\ j \in 1..L /\ j - 1 \in 1..L /\ R[k].begin = Ordinal(h[j - 1])
          /\ R[k].end = Ordinal(h[j])
      BY <2>3, <2>4 DEF ClosedBy
    <3>2. Ordinal(h[j - 1]) < Ordinal(h[j])
      BY <1>3, <3>1
    <3>3. Ordinal(h[j - 1]) \in Nat /\ Ordinal(h[j]) \in Nat
      BY <1>3, <3>1
    <3> QED BY <2>1, <3>1, <3>2, <3>3
  <2> QED BY <1>7, <2>3, <2>4
<1> QED BY <1>8, <1>9

LEMMA CrowdedIs ==
  ASSUME NEW h, History(h), NEW a \in Nat, NEW R, Spans(R, a, h)
  PROVE  Crowded(R) <=> DestroyedTwice(h)
<1> DEFINE L == Len(h)
           D == DestroyedTo(h, L)
<1>1. PICK m \in Nat : \E place \in [1..m -> D] : SpansFrom(R, a, h, m, place)
  BY DEF Spans
<1>2. PICK place \in [1..m -> D] : SpansFrom(R, a, h, m, place)
  BY <1>1
<1>3. /\ L \in Nat /\ L \in 1..L
      /\ \A i \in 1..L : Ordinal(h[i]) \in Nat
      /\ \A i, j \in 1..L : i < j => Ordinal(h[i]) < Ordinal(h[j])
  BY DEF History
<1>4. /\ Len(R) = IF IsOpen(h) THEN m + 1 ELSE m
      /\ \A k, l \in 1..m : k < l => place[k] < place[l]
      /\ \A j \in D : \E k \in 1..m : place[k] = j
  BY <1>2 DEF SpansFrom
<1>5. \A k \in 1..m : place[k] \in D /\ ClosedBy(R[k], a, h, k, place[k])
  BY <1>2, ClosedIs
<1>6. IsOpen(h) => R[m + 1].begin = Ordinal(h[L]) /\ L \notin D
  BY <1>2, OpenIs DEF IsOpen, DestroyedTo
<1>7. \A j \in D : j \in 1..L /\ h[j].payload = "ContractDestroyed"
  BY DEF DestroyedTo
<1>7a. \A j \in 1..L : h[j].payload = "ContractDestroyed" => j \in D
  BY DEF DestroyedTo
<1> HIDE DEF D, L
<1>8. ASSUME DestroyedTwice(h) PROVE Crowded(R)
  <2>1. PICK j \in 1..L : j > 1 /\ j \in D /\ j - 1 \in D
    <3>1. PICK j \in 1..L : /\ j > 1 /\ h[j-1].payload = "ContractDestroyed"
                            /\ h[j].payload = "ContractDestroyed"
      BY <1>8 DEF DestroyedTwice, L
    <3>2. j - 1 \in 1..L
      BY <1>3, <3>1
    <3> QED BY <1>7a, <3>1, <3>2
  <2>2. PICK k \in 1..m : place[k] = j
    BY <1>4, <2>1
  <2>3. PICK l \in 1..m : place[l] = j - 1
    BY <1>4, <2>1
  <2>4. l < k
    <3>1. CASE k < l
      BY <1>4, <2>1, <2>2, <2>3, <3>1
    <3>2. CASE k = l
      BY <2>1, <2>2, <2>3, <3>2
    <3> QED BY <3>1, <3>2
  <2>5. l = k - 1
    <3>1. SUFFICES ASSUME l < k - 1 PROVE FALSE
      BY <2>4
    <3>2. k - 1 \in 1..m /\ l < k - 1 /\ k - 1 < k
      BY <3>1
    <3>3. place[l] < place[k - 1] /\ place[k - 1] < place[k] /\ place[k - 1] \in D
      BY <1>4, <1>5, <3>2
    <3>4. place[k - 1] \in 1..L
      BY <1>7, <3>3
    <3> QED BY <2>1, <2>2, <2>3, <3>3, <3>4
  <2>6. R[k].begin = Ordinal(h[j - 1])
    <3>1. j # 1
      BY <1>3, <2>1
    <3>2. ClosedBy(R[k], a, h, k, j)
      BY <1>5, <2>2
    <3> QED BY <3>1, <3>2 DEF ClosedBy
  <2>7. R[l].end = Ordinal(h[j - 1]) /\ R[l].end \in Nat /\ R[l].end # NoEnd
    BY <1>5, <2>3 DEF ClosedBy
  <2>8. k \in 1..Len(R) /\ k > 1
    BY <1>4, <2>4
  <2> QED BY <2>5, <2>6, <2>7, <2>8 DEF Crowded
<1>9. ASSUME Crowded(R) PROVE DestroyedTwice(h)
  <2>1. PICK k \in 1..Len(R) : k > 1 /\ R[k-1].end # NoEnd /\ R[k-1].end >= R[k].begin
    BY <1>9 DEF Crowded
  <2>2. k - 1 \in 1..m
    BY <1>4, <2>1
  <2> DEFINE i == place[k-1]
  <2>3. i \in D /\ ClosedBy(R[k-1], a, h, k-1, i)
    BY <1>5, <2>2
  <2> HIDE DEF i
  <2>4. R[k-1].end = Ordinal(h[i]) /\ i \in 1..L /\ Ordinal(h[i]) \in Nat
    BY <1>3, <1>7, <2>3 DEF ClosedBy
  <2>5. CASE k \in 1..m
    <3> DEFINE j == place[k]
    <3>1. j \in D /\ ClosedBy(R[k], a, h, k, j) /\ i < j
      BY <1>4, <1>5, <2>2, <2>5 DEF i
    <3> HIDE DEF j
    <3>2. j \in 1..L /\ j # 1
      BY <1>7, <2>4, <3>1
    <3>3. j - 1 \in 1..L /\ R[k].begin = Ordinal(h[j - 1])
      BY <3>1, <3>2 DEF ClosedBy, L
    <3>4. ~(i < j - 1)
      <4>1. i < j - 1 => Ordinal(h[i]) < Ordinal(h[j - 1])
        BY <1>3, <2>4, <3>3
      <4>2. Ordinal(h[j - 1]) \in Nat
        BY <1>3, <3>3
      <4> QED BY <2>1, <2>4, <3>3, <4>1, <4>2
    <3>5. i = j - 1 /\ j > 1
      BY <2>4, <3>1, <3>2, <3>4
    <3> QED BY <1>7, <2>3, <3>1, <3>2, <3>5 DEF DestroyedTwice, L
  <2>6. CASE k \notin 1..m
    <3>1. IsOpen(h) /\ k = m + 1
      BY <1>4, <2>1, <2>6
    <3>2. R[k].begin = Ordinal(h[L]) /\ i # L
      BY <1>6, <2>3, <3>1
    <3>3. Ordinal(h[i]) < Ordinal(h[L]) /\ Ordinal(h[L]) \in Nat
      BY <1>3, <2>4, <3>2
    <3> QED BY <2>1, <2>4, <3>2, <3>3
  <2> QED BY <2>5, <2>6
<1> QED BY <1>8, <1>9

-----------------------------------------------------------------------------
(***************************************************************************)
(* The generations of all addresses of a table.                            *)
(***************************************************************************)

\* G lists the facts in S in order.
ListsAll(G, S) ==
  /\ G \in Seq(GenerationFact) /\ Elements(G) = S
  /\ \A p, q \in 1..Len(G) : p < q => GenerationLess(G[p], G[q])

LEMMA GeneratedInOrder ==
  ASSUME NEW a \in Nat, NEW R, Generated(R, a)
  PROVE  ListsAll(R, Elements(R))
<1> SUFFICES ASSUME NEW k \in 1..Len(R), NEW l \in 1..Len(R), k < l
             PROVE  GenerationLess(R[k], R[l])
  BY DEF Generated, ListsAll
<1>1. R[k].key = GenerationKey(a, k - 1) /\ R[l].key = GenerationKey(a, l - 1)
  BY DEF Generated
<1>2. R[k] \in GenerationFact /\ R[l] \in GenerationFact /\ R[k].begin <= R[l].begin
  BY DEF Generated
<1>3. R[k].begin \in Nat /\ R[l].begin \in Nat
  BY <1>2 DEF GenerationFact
<1>4. k - 1 < l - 1
  OBVIOUS
<1> QED BY <1>1, <1>2, <1>3, <1>4 DEF GenerationLess, GenerationKey

LEMMA JoinedInOrder ==
  ASSUME NEW G, NEW S, ListsAll(G, S), NEW R, NEW T, ListsAll(R, T),
         \A x \in S, y \in T : GenerationLess(x, y)
  PROVE  ListsAll(G \o R, S \cup T)
<1> DEFINE m == Len(G)
           n == Len(R)
           J == G \o R
<1>1. /\ G \in Seq(GenerationFact) /\ R \in Seq(GenerationFact)
      /\ m \in Nat /\ n \in Nat
  BY DEF ListsAll
<1>2. /\ J \in Seq(GenerationFact) /\ Len(J) = m + n
      /\ \A k \in 1..m : J[k] = G[k]
      /\ \A k \in m+1..m+n : J[k] = R[k - m]
  BY <1>1
<1>3. /\ \A k \in 1..m : G[k] \in S
      /\ \A k \in 1..n : R[k] \in T
      /\ \A x \in S : \E k \in 1..m : G[k] = x
      /\ \A y \in T : \E k \in 1..n : R[k] = y
  BY DEF ListsAll, Elements
<1>3a. /\ \A p, q \in 1..m : p < q => GenerationLess(G[p], G[q])
       /\ \A p, q \in 1..n : p < q => GenerationLess(R[p], R[q])
  BY DEF ListsAll
<1> HIDE DEF J, m, n
<1>4. \A k \in 1..m + n : k \in 1..m \/ (k \in m+1..m+n /\ k - m \in 1..n)
  BY <1>1
<1>5. Elements(J) = S \cup T
  <2>1. ASSUME NEW k \in 1..m + n PROVE J[k] \in S \cup T
    BY <1>2, <1>3, <1>4, <2>1
  <2>2. ASSUME NEW x \in S PROVE \E k \in 1..m + n : J[k] = x
    <3>1. PICK k \in 1..m : G[k] = x
      BY <1>3, <2>2
    <3>2. k \in 1..m + n
      BY <1>1
    <3> QED BY <1>2, <3>1, <3>2
  <2>3. ASSUME NEW y \in T PROVE \E k \in 1..m + n : J[k] = y
    <3>1. PICK k \in 1..n : R[k] = y
      BY <1>3, <2>3
    <3>2. k + m \in m+1..m+n /\ (k + m) - m = k /\ k + m \in 1..m + n
      BY <1>1
    <3> QED BY <1>2, <3>1, <3>2
  <2> QED BY <1>2, <2>1, <2>2, <2>3 DEF Elements
<1>6. ASSUME NEW p \in 1..m + n, NEW q \in 1..m + n, p < q PROVE GenerationLess(J[p], J[q])
  <2>1. CASE q \in 1..m
    <3>1. p \in 1..m
      BY <1>1, <1>6, <2>1
    <3> QED BY <1>2, <1>3a, <1>6, <2>1, <3>1
  <2>2. CASE p \in m+1..m+n
    <3>1. q \in m+1..m+n /\ p - m \in 1..n /\ q - m \in 1..n /\ p - m < q - m
      BY <1>1, <1>6, <2>2
    <3> QED BY <1>2, <1>3a, <2>2, <3>1
  <2>3. CASE p \in 1..m /\ q \in m+1..m+n
    <3>1. q - m \in 1..n
      BY <1>1, <2>3
    <3>2. J[p] \in S /\ J[q] \in T
      BY <1>2, <1>3, <2>3, <3>1
    <3> QED BY <3>2
  <2> QED BY <1>4, <2>1, <2>2, <2>3
<1> QED BY <1>2, <1>5, <1>6 DEF ListsAll, J

LEMMA PushedIs ==
  ASSUME NEW table, NEW pre, Cardinality(DOMAIN table) \in Nat
  PROVE  LET acc == GenerationsPushed(table, pre)
         IN  /\ acc[0] = << >>
             /\ \A n \in Nat : n < Cardinality(DOMAIN table) =>
                  acc[n + 1] = acc[n] \o Resolved(table, pre, Addresses(table)[n + 1]).generations
<1> DEFINE N == Cardinality(DOMAIN table)
           R(n) == Resolved(table, pre, Addresses(table)[n]).generations
           Folded(f, m) == f = [n \in 0..m |-> IF n = 0 THEN << >> ELSE f[n - 1] \o R(n)]
           Reached == {m \in Nat : \E f : Folded(f, m)}
<1> DEFINE acc == GenerationsPushed(table, pre)
<1>0. acc = CHOOSE f : Folded(f, N)
  BY DEF GenerationsPushed
<1> HIDE DEF acc, R
<1>1. 0 \in Reached
  <2> DEFINE f == [n \in 0..0 |-> << >>]
  <2>1. Folded(f, 0)
    OBVIOUS
  <2> QED BY <2>1
<1>2. ASSUME NEW m \in Nat, m \in Reached PROVE m + 1 \in Reached
  <2>1. PICK f : Folded(f, m)
    BY <1>2
  <2> DEFINE g == [n \in 0..m + 1 |-> IF n = m + 1 THEN f[m] \o R(n) ELSE f[n]]
  <2>2. \A n \in 0..m + 1 : g[n] = IF n = 0 THEN << >> ELSE g[n - 1] \o R(n)
    <3>1. TAKE n \in 0..m + 1
    <3>2. CASE n = m + 1
      <4>1. n # 0 /\ n - 1 = m /\ m # m + 1 /\ m \in 0..m + 1
        BY <3>2
      <4>2. g[n] = f[m] \o R(n) /\ g[m] = f[m]
        BY <3>2, <4>1
      <4> QED BY <4>1, <4>2
    <3>3. CASE n # m + 1
      <4>1. n \in 0..m /\ g[n] = f[n]
        BY <3>3
      <4>2. f[n] = IF n = 0 THEN << >> ELSE f[n - 1] \o R(n)
        BY <2>1, <4>1
      <4>3. ASSUME n # 0 PROVE g[n - 1] = f[n - 1]
        <5>1. n - 1 \in 0..m + 1 /\ n - 1 # m + 1
          BY <4>1, <4>3
        <5> QED BY <5>1
      <4> QED BY <4>1, <4>2, <4>3
    <3> QED BY <3>2, <3>3
  <2>3. g = [n \in 0..m + 1 |-> g[n]]
    OBVIOUS
  <2> HIDE DEF g
  <2>4. Folded(g, m + 1)
    BY <2>2, <2>3
  <2> HIDE DEF Folded
  <2> QED BY <2>4
<1> HIDE DEF Reached
<1>3. \E f : Folded(f, N)
  <2>1. N \in Reached
    BY <1>1, <1>2, AllNaturals
  <2> QED BY <2>1 DEF Reached
<1> HIDE DEF N
<1>5. Folded(acc, N)
  <2> HIDE DEF Folded
  <2> QED BY <1>0, <1>3
<1>5a. N \in Nat
  BY DEF N
<1>6. acc[0] = << >>
  <2>1. 0 \in 0..N
    BY <1>5a
  <2> QED BY <1>5, <2>1
<1>7. ASSUME NEW n \in Nat, n < N PROVE acc[n + 1] = acc[n] \o R(n + 1)
  <2>1. n + 1 \in 0..N /\ n + 1 # 0 /\ (n + 1) - 1 = n
    BY <1>5a, <1>7
  <2>2. acc[n + 1] = acc[(n + 1) - 1] \o R(n + 1)
    BY <1>5, <2>1
  <2> QED BY <2>1, <2>2
<1> QED BY <1>6, <1>7 DEF acc, R, N

\* A table of histories, and all the facts that resolve makes of it.
Chronicled(table, pre) ==
  /\ IsFiniteSet(DOMAIN table) /\ DOMAIN table \in SUBSET Nat
  /\ \A a \in DOMAIN table : History(table[a]) /\ Existed(pre, a) \in BOOLEAN

Made(table, pre, a) == Elements(Resolved(table, pre, a).generations)

FactsOf(table, pre) == UNION {Made(table, pre, a) : a \in DOMAIN table}

LEMMA ResolvedFacts ==
  ASSUME NEW table, NEW pre, Chronicled(table, pre), NEW a \in DOMAIN table,
         NEW res, res = Resolved(table, pre, a)
  PROVE  /\ a \in Nat /\ Spans(res.generations, a, table[a]) /\ Generated(res.generations, a)
         /\ ListsAll(res.generations, Made(table, pre, a))
         /\ res.diagnostics = {} <=>
              ~(Existed(pre, a) /\ table[a][1].payload = "ContractCreated")
<1> DEFINE h == table[a]
<1>1. a \in Nat /\ History(h) /\ Existed(pre, a) \in BOOLEAN
  BY DEF Chronicled
<1>2. res = ResolveAddress(a, h, Existed(pre, a))
  BY DEF Resolved
<1> HIDE DEF h
<1>3. /\ Spans(res.generations, a, h)
      /\ res.diagnostics = {} <=> ~(Existed(pre, a) /\ h[1].payload = "ContractCreated")
  BY <1>1, <1>2, ResolvedIs
<1>4. Generated(res.generations, a)
  BY <1>1, <1>3, SpansGenerated
<1>5. ListsAll(res.generations, Made(table, pre, a))
  BY <1>1, <1>4, GeneratedInOrder DEF Made
<1> QED BY <1>1, <1>3, <1>4, <1>5 DEF h

LEMMA MadeAbout ==
  ASSUME NEW table, NEW pre, Chronicled(table, pre), NEW a \in DOMAIN table,
         NEW x \in Made(table, pre, a)
  PROVE  x \in GenerationFact /\ x.key.address = a
<1> DEFINE R == Resolved(table, pre, a).generations
<1>1. Generated(R, a)
  BY ResolvedFacts
<1>2. PICK k \in 1..Len(R) : x = R[k]
  BY DEF Made, Elements
<1>3. x.key = GenerationKey(a, k - 1)
  BY <1>1, <1>2 DEF Generated
<1>4. x \in GenerationFact
  BY <1>1, <1>2 DEF Generated
<1> QED BY <1>3, <1>4 DEF GenerationKey

LEMMA PushedInOrder ==
  ASSUME NEW table, NEW pre, Chronicled(table, pre)
  PROVE  ListsAll(resolve(table, pre).generations, FactsOf(table, pre))
<1> DEFINE D == DOMAIN table
           N == Cardinality(D)
           order == Addresses(table)
           acc == GenerationsPushed(table, pre)
           R(n) == Resolved(table, pre, order[n]).generations
           M(a) == Made(table, pre, a)
           Some(n) == UNION {M(order[i]) : i \in 1..n}
           Good == {n \in Nat : n <= N => ListsAll(acc[n], Some(n))}
<1>1. /\ N \in Nat /\ order \in [1..N -> D]
      /\ \A i, j \in 1..N : i < j => order[i] < order[j]
      /\ \A x \in D : \E i \in 1..N : order[i] = x
  BY AscendingIs DEF Addresses, Chronicled
<1>2. /\ acc[0] = << >>
      /\ \A n \in Nat : n < N => acc[n + 1] = acc[n] \o R(n + 1)
  BY <1>1, PushedIs
<1>3. resolve(table, pre).generations = acc[N]
  BY DEF resolve
<1>4. \A i \in 1..N : ListsAll(R(i), M(order[i]))
  <2> TAKE i \in 1..N
  <2>1. order[i] \in DOMAIN table
    BY <1>1
  <2> QED BY <2>1, ResolvedFacts
<1>5. \A i \in 1..N : \A x \in M(order[i]) : x \in GenerationFact /\ x.key.address = order[i]
  <2> TAKE i \in 1..N
  <2> TAKE x \in M(order[i])
  <2>1. order[i] \in DOMAIN table
    BY <1>1
  <2> QED BY <2>1, MadeAbout
<1>6. FactsOf(table, pre) = Some(N)
  <2> HIDE DEF order, M
  <2>1. FactsOf(table, pre) = UNION {M(a) : a \in D}
    BY DEF FactsOf, M
  <2> QED BY <1>1, <2>1
<1>7. D \in SUBSET Nat
  BY DEF Chronicled
<1> HIDE DEF D, N, order, acc, R, M
<1>8. 0 \in Good
  <2>1. ListsAll(<< >>, {})
    BY DEF ListsAll, Elements
  <2>2. Some(0) = {}
    OBVIOUS
  <2> QED BY <1>2, <2>1, <2>2
<1>9. ASSUME NEW n \in Nat, n \in Good PROVE n + 1 \in Good
  <2>1. SUFFICES ASSUME n + 1 <= N PROVE ListsAll(acc[n + 1], Some(n + 1))
    OBVIOUS
  <2>2. n < N /\ n + 1 \in 1..N /\ ListsAll(acc[n], Some(n))
    BY <1>1, <1>9, <2>1
  <2>3. ASSUME NEW x \in Some(n), NEW y \in M(order[n + 1]) PROVE GenerationLess(x, y)
    <3>1. PICK i \in 1..n : x \in M(order[i])
      OBVIOUS
    <3>2. i \in 1..N /\ i < n + 1
      BY <1>1, <2>2
    <3>3. x.key.address = order[i] /\ y.key.address = order[n + 1]
      BY <1>5, <2>2, <3>1, <3>2
    <3>4. order[i] < order[n + 1]
      BY <1>1, <2>2, <3>2
    <3> QED BY <3>3, <3>4 DEF GenerationLess
  <2>4. Some(n + 1) = Some(n) \cup M(order[n + 1])
    <3>1. n + 1 \in 1..n+1 /\ \A i : i \in 1..n+1 <=> i \in 1..n \/ i = n + 1
      OBVIOUS
    <3> QED BY <3>1
  <2>5. ListsAll(acc[n] \o R(n + 1), Some(n) \cup M(order[n + 1]))
    <3> HIDE DEF Some
    <3>1. ListsAll(R(n + 1), M(order[n + 1]))
      BY <1>4, <2>2
    <3> QED BY <2>2, <2>3, <3>1, JoinedInOrder
  <2> QED BY <1>2, <2>2, <2>4, <2>5
<1> HIDE DEF Good
<1>10. N \in Good
  BY <1>1, <1>8, <1>9, AllNaturals
<1> QED BY <1>1, <1>3, <1>6, <1>10 DEF Good

LEMMA LessIsIrreflexive ==
  ASSUME NEW x \in GenerationFact
  PROVE  ~GenerationLess(x, x)
<1>1. x.key.address \in Nat /\ x.begin \in Nat /\ x.key.generation_id \in Nat
  BY DEF GenerationFact, Keys
<1> QED BY <1>1 DEF GenerationLess

LEMMA LessIsAsymmetric ==
  ASSUME NEW x \in GenerationFact, NEW y \in GenerationFact, GenerationLess(x, y)
  PROVE  ~GenerationLess(y, x)
<1>1. /\ x.key.address \in Nat /\ x.begin \in Nat /\ x.key.generation_id \in Nat
      /\ y.key.address \in Nat /\ y.begin \in Nat /\ y.key.generation_id \in Nat
  BY DEF GenerationFact, Keys
<1> QED BY <1>1 DEF GenerationLess

\* No two facts that resolve makes have the same key.
LEMMA OneForEachKey ==
  ASSUME NEW table, NEW pre, Chronicled(table, pre), NEW x \in FactsOf(table, pre),
         NEW y \in FactsOf(table, pre), x.key = y.key
  PROVE  x = y
<1>1. PICK a \in DOMAIN table : x \in Made(table, pre, a)
  BY DEF FactsOf
<1>2. PICK b \in DOMAIN table : y \in Made(table, pre, b)
  BY DEF FactsOf
<1>3. a = b
  BY <1>1, <1>2, MadeAbout
<1> DEFINE R == Resolved(table, pre, a).generations
<1>4. Generated(R, a)
  BY ResolvedFacts
<1>5. PICK k \in 1..Len(R) : x = R[k]
  BY <1>1 DEF Made, Elements
<1>6. PICK l \in 1..Len(R) : y = R[l]
  BY <1>2, <1>3 DEF Made, Elements
<1> HIDE DEF R
<1>7. GenerationKey(a, k - 1) = GenerationKey(a, l - 1)
  BY <1>4, <1>5, <1>6 DEF Generated
<1>8. k - 1 = l - 1 /\ k \in Int /\ l \in Int
  BY <1>4, <1>7 DEF GenerationKey, Generated
<1> QED BY <1>5, <1>6, <1>8

LEMMA ListedOnce ==
  ASSUME NEW table, NEW pre, Chronicled(table, pre), NEW G, ListsAll(G, FactsOf(table, pre))
  PROVE  /\ G \in Seq(GenerationFact) /\ Ascends(G, GenerationOrder)
         /\ DistinctKeys(G) /\ KeysChange(G)
<1> DEFINE n == Len(G)
<1>1. /\ G \in Seq(GenerationFact) /\ n \in Nat
      /\ \A k \in 1..n : G[k] \in FactsOf(table, pre) /\ G[k] \in GenerationFact
      /\ \A p, q \in 1..n : p < q => GenerationLess(G[p], G[q])
  BY DEF ListsAll, Elements
<1> HIDE DEF n
<1>2. ASSUME NEW p \in 1..n, NEW q \in 1..n, p < q PROVE <<G[q], G[p]>> \notin GenerationOrder
  <2>1. ~GenerationLess(G[q], G[p])
    BY <1>1, <1>2, LessIsAsymmetric
  <2> QED BY <2>1 DEF GenerationOrder
<1>3. ASSUME NEW p \in 1..n, NEW q \in 1..n, G[p].key = G[q].key PROVE p = q
  <2>1. G[p] = G[q]
    BY <1>1, <1>3, OneForEachKey
  <2>2. ~GenerationLess(G[p], G[q]) /\ ~GenerationLess(G[q], G[p])
    BY <1>1, <2>1, LessIsIrreflexive
  <2>3. ~(p < q) /\ ~(q < p)
    BY <1>1, <2>2
  <2> QED BY <2>3
<1>4. ASSUME NEW p \in 1..n, p > 1 PROVE G[p].key # G[p-1].key
  <2>1. p - 1 \in 1..n /\ p - 1 # p
    BY <1>1, <1>4
  <2> QED BY <1>3, <2>1
<1> QED BY <1>1, <1>2, <1>3, <1>4 DEF Ascends, DistinctKeys, KeysChange, n

\* They are in their canonical form already.
LEMMA PassLists ==
  ASSUME NEW table, NEW pre, Chronicled(table, pre)
  PROVE  /\ LifecyclePass(table, pre).generations = resolve(table, pre).generations
         /\ ListsAll(LifecyclePass(table, pre).generations, FactsOf(table, pre))
<1> DEFINE G == resolve(table, pre).generations
           S == FactsOf(table, pre)
<1>1. ListsAll(G, S)
  BY PushedInOrder
<1>2. Dedup(StableSort(G, GenerationLess)) = G
  <2>1. G \in Seq(GenerationFact) /\ Ascends(G, GenerationOrder) /\ KeysChange(G)
    BY <1>1, ListedOnce
  <2> HIDE DEF G
  <2> QED BY <2>1, GenerationsStay
<1>3. \A p : canonicalize(p, G, << >>).generations = G
  <2> TAKE p
  <2>1. canonicalize(p, G, << >>)
          = FormOf(Dedup(StableSort(p, KeyLess)), Dedup(StableSort(G, GenerationLess)),
                   Dedup(StableSort(<< >>, KeyLess)))
    BY FormMade
  <2> HIDE DEF G
  <2> QED BY <1>2, <2>1 DEF FormOf
<1>4. LifecyclePass(table, pre).generations = G
  <2> DEFINE r == resolve(table, pre)
             P == [i \in DOMAIN r.pre_states |->
                     [key |-> GenerationKey(r.pre_states[i].address, 0),
                      existed_before_tx |-> r.pre_states[i].existed_before_tx]]
             c == canonicalize(P, r.generations, << >>)
  <2>1. LifecyclePass(table, pre) = [c EXCEPT !.diagnostics = @ \cup r.diagnostics]
    BY DEF LifecyclePass
  <2>2. c.generations = G
    BY <1>3
  <2> HIDE DEF c, r
  <2> QED BY <2>1, <2>2
<1> QED BY <1>1, <1>4

LEMMA PlacesCompare ==
  ASSUME NEW G, NEW S, ListsAll(G, S), NEW p \in 1..Len(G), NEW q \in 1..Len(G)
  PROVE  GenerationLess(G[p], G[q]) <=> p < q
<1>1. G[p] \in GenerationFact /\ G[q] \in GenerationFact /\ Len(G) \in Nat
  BY DEF ListsAll
<1>2. p < q => GenerationLess(G[p], G[q])
  BY DEF ListsAll
<1>3. q < p => GenerationLess(G[q], G[p])
  BY DEF ListsAll
<1>4. p < q \/ q < p \/ p = q
  OBVIOUS
<1>5. q < p => ~GenerationLess(G[p], G[q])
  BY <1>1, <1>3, LessIsAsymmetric
<1>6. p = q => ~GenerationLess(G[p], G[q])
  BY <1>1, LessIsIrreflexive
<1> QED BY <1>2, <1>4, <1>5, <1>6

LEMMA OwnFacts ==
  ASSUME NEW table, NEW pre, Chronicled(table, pre), NEW x \in FactsOf(table, pre),
         NEW a, x.key.address = a
  PROVE  a \in DOMAIN table /\ x \in Made(table, pre, a)
<1>1. PICK b \in DOMAIN table : x \in Made(table, pre, b)
  BY DEF FactsOf
<1>2. a = b
  BY <1>1, MadeAbout
<1> QED BY <1>1, <1>2

\* What follows one another in the list of an address does so in the whole list,
\* and the other way round.
LEMMA NeighboursStay ==
  ASSUME NEW table, NEW pre, Chronicled(table, pre), NEW G, ListsAll(G, FactsOf(table, pre)),
         NEW a \in DOMAIN table, NEW R, R = Resolved(table, pre, a).generations,
         NEW k \in 1..Len(R), k > 1
  PROVE  \E p \in 1..Len(G) : p > 1 /\ G[p] = R[k] /\ G[p-1] = R[k-1]
<1> DEFINE S == FactsOf(table, pre)
           M == Made(table, pre, a)
<1>1. ListsAll(R, M) /\ a \in Nat
  BY ResolvedFacts
<1>2. /\ Len(G) \in Nat /\ Len(R) \in Nat /\ k - 1 \in 1..Len(R)
      /\ \A x \in S : \E p \in 1..Len(G) : G[p] = x
      /\ \A p \in 1..Len(G) : G[p] \in S
  BY <1>1 DEF ListsAll, Elements
<1>3. R[k] \in M /\ R[k-1] \in M /\ (\A x \in M : \E l \in 1..Len(R) : R[l] = x)
  BY <1>1, <1>2 DEF ListsAll, Elements
<1>4. M \subseteq S
  BY DEF FactsOf
<1>5. \A x \in M : x \in GenerationFact /\ x.key.address = a
  BY MadeAbout
<1>6. \A x \in S : x \in GenerationFact
  <2> TAKE x \in S
  <2>1. PICK b \in DOMAIN table : x \in Made(table, pre, b)
    BY DEF FactsOf
  <2> QED BY <2>1, MadeAbout
<1>7. \A x \in S : x.key.address = a => x \in M
  BY OwnFacts
<1> HIDE DEF S, M
<1>8. PICK p \in 1..Len(G) : G[p] = R[k]
  BY <1>2, <1>3, <1>4
<1>9. PICK q \in 1..Len(G) : G[q] = R[k-1]
  BY <1>2, <1>3, <1>4
<1>10. GenerationLess(R[k-1], R[k])
  <2>1. k - 1 < k
    OBVIOUS
  <2>2. GenerationLess(R[k-1], R[k]) <=> k - 1 < k
    BY <1>1, <1>2, PlacesCompare
  <2> QED BY <2>1, <2>2
<1>11. q < p
  BY <1>8, <1>9, <1>10, PlacesCompare
<1>12. q = p - 1
  <2>1. SUFFICES ASSUME q < p - 1 PROVE FALSE
    BY <1>11
  <2>2. p - 1 \in 1..Len(G) /\ p - 1 < p
    BY <1>2, <2>1
  <2> DEFINE x == G[p-1]
  <2>3. GenerationLess(R[k-1], x) /\ GenerationLess(x, R[k]) /\ x \in S
    BY <1>2, <1>8, <1>9, <2>1, <2>2, PlacesCompare
  <2> HIDE DEF x
  <2>4. x.key.address = a
    <3>1. x.key.address \in Nat
      BY <1>6, <2>3 DEF GenerationFact, Keys
    <3>2. R[k].key.address = a /\ R[k-1].key.address = a
      BY <1>3, <1>5
    <3> QED BY <1>1, <2>3, <3>1, <3>2 DEF GenerationLess
  <2>5. PICK l \in 1..Len(R) : R[l] = x
    BY <1>3, <1>7, <2>3, <2>4
  <2>6. k - 1 < l /\ l < k
    BY <1>1, <1>2, <2>3, <2>5, PlacesCompare
  <2> QED BY <1>2, <2>6
<1> QED BY <1>2, <1>8, <1>9, <1>11, <1>12

LEMMA NeighboursWere ==
  ASSUME NEW table, NEW pre, Chronicled(table, pre), NEW G, ListsAll(G, FactsOf(table, pre)),
         NEW p \in 1..Len(G), p > 1, G[p-1].key.address = G[p].key.address
  PROVE  \E a \in DOMAIN table :
           LET R == Resolved(table, pre, a).generations
           IN  \E k \in 1..Len(R) : k > 1 /\ G[p] = R[k] /\ G[p-1] = R[k-1]
<1> DEFINE S == FactsOf(table, pre)
           a == G[p].key.address
           R == Resolved(table, pre, a).generations
           M == Made(table, pre, a)
<1>1. /\ Len(G) \in Nat /\ p - 1 \in 1..Len(G)
      /\ \A x \in S : \E q \in 1..Len(G) : G[q] = x
      /\ \A q \in 1..Len(G) : G[q] \in S
  BY DEF ListsAll, Elements
<1>2. a \in DOMAIN table /\ G[p] \in M /\ G[p-1] \in M
  BY <1>1, OwnFacts
<1>3. ListsAll(R, M)
  BY <1>2, ResolvedFacts
<1>4. M \subseteq S
  BY <1>2 DEF FactsOf
<1> HIDE DEF M, R, S, a
<1>5. /\ Len(R) \in Nat /\ \A x \in M : \E l \in 1..Len(R) : R[l] = x
      /\ \A l \in 1..Len(R) : R[l] \in M
  BY <1>3 DEF ListsAll, Elements
<1>6. PICK k \in 1..Len(R) : G[p] = R[k]
  BY <1>2, <1>5
<1>7. PICK l \in 1..Len(R) : G[p-1] = R[l]
  BY <1>2, <1>5
<1>8. p - 1 < p
  OBVIOUS
<1>9. GenerationLess(R[l], R[k])
  BY <1>1, <1>6, <1>7, <1>8, PlacesCompare
<1>10. l < k
  BY <1>3, <1>9, PlacesCompare
<1>11. l = k - 1
  <2>1. SUFFICES ASSUME l < k - 1 PROVE FALSE
    BY <1>10
  <2>2. k - 1 \in 1..Len(R) /\ k - 1 < k
    BY <1>5, <2>1
  <2>3. GenerationLess(R[l], R[k-1]) /\ GenerationLess(R[k-1], R[k])
    BY <1>3, <2>1, <2>2, PlacesCompare
  <2>4. PICK q \in 1..Len(G) : G[q] = R[k-1]
    BY <1>1, <1>4, <1>5, <2>2
  <2>5. p - 1 < q /\ q < p
    BY <1>1, <1>6, <1>7, <2>3, <2>4, PlacesCompare
  <2> QED BY <1>1, <2>5
<1>12. k > 1
  BY <1>10
<1> QED BY <1>2, <1>6, <1>7, <1>11, <1>12 DEF R

-----------------------------------------------------------------------------
(***************************************************************************)
(* The histories in the table of a transaction.                            *)
(***************************************************************************)

\* place goes along the numbers in W, n of them.
Along(place, n, W) ==
  /\ place \in [1..n -> W]
  /\ \A i, j \in 1..n : i < j => place[i] < place[j]
  /\ \A x \in W : \E i \in 1..n : place[i] = x

LEMMA InOrderCounts ==
  ASSUME NEW S, NEW R, NEW n \in Nat, NEW f, InOrder(f, R, S, n)
  PROVE  Cardinality(S) = n
<1>1. f \in Surjection(1..n, S) /\ f \in Injection(1..n, S)
  BY DEF InOrder, Surjection, Injection, IsInjective
<1>2. IsFiniteSet(1..n) /\ Cardinality(1..n) = n
  BY CountTo
<1> QED BY <1>1, <1>2, FS_Surjection

LEMMA AlongInOrder ==
  ASSUME NEW W \in SUBSET Nat, NEW R, \A x, y \in W : <<x, y>> \in R <=> x < y,
         NEW k \in Nat, NEW f, Along(f, k, W)
  PROVE  InOrder(f, R, W, k)
<1>1. ASSUME NEW i \in 1..k, NEW j \in 1..k, f[i] = f[j] PROVE i = j
  <2>1. f[i] \in W /\ f[j] \in W
    BY DEF Along
  <2>2. f[i] \in Nat /\ f[j] \in Nat
    BY <2>1
  <2>3. ~(i < j) /\ ~(j < i)
    BY <1>1, <2>2 DEF Along
  <2> QED BY <2>3
<1> QED BY <1>1 DEF Along, InOrder

LEMMA AlongCounts ==
  ASSUME NEW W \in SUBSET Nat, NEW n \in Nat, NEW p, Along(p, n, W)
  PROVE  Cardinality(W) = n
<1> DEFINE R == {w \in W \X W : w[1] < w[2]}
<1>1. \A x, y \in W : <<x, y>> \in R <=> x < y
  OBVIOUS
<1> HIDE DEF R
<1> QED BY <1>1, AlongInOrder, InOrderCounts

LEMMA AlongOnce ==
  ASSUME NEW W \in SUBSET Nat, NEW m \in Nat, NEW n \in Nat, NEW p, Along(p, m, W),
         NEW q, Along(q, n, W)
  PROVE  m = n /\ p = q
<1> DEFINE R == {w \in W \X W : w[1] < w[2]}
<1>1. \A x, y \in W : <<x, y>> \in R <=> x < y
  OBVIOUS
<1>2. Orders(R, W)
  BY <1>1 DEF Orders
<1> HIDE DEF R
<1>4. m = n
  BY AlongCounts
<1>5. InOrder(p, R, W, m) /\ InOrder(q, R, W, m)
  BY <1>1, <1>4, AlongInOrder
<1> QED BY <1>2, <1>4, <1>5, InOrderOnce

LEMMA AlongSome ==
  ASSUME NEW W, NEW n \in Nat, NEW p, Along(p, n, W)
  PROVE  W # {} <=> n > 0
<1>1. \A x \in W : \E i \in 1..n : p[i] = x
  BY DEF Along
<1>2. \A i \in 1..n : p[i] \in W
  BY DEF Along
<1>3. ASSUME W # {} PROVE n > 0
  <2>1. PICK x : x \in W
    BY <1>3
  <2>2. PICK i \in 1..n : p[i] = x
    BY <1>1, <2>1
  <2> QED BY <2>2
<1>4. ASSUME n > 0 PROVE W # {}
  <2>1. 1 \in 1..n
    BY <1>4
  <2> QED BY <1>2, <2>1
<1> QED BY <1>3, <1>4

LEMMA RecordsAlong ==
  ASSUME NEW h, NEW s, NEW W, Records(h, s, W)
  PROVE  \E m \in Nat : \E place : /\ Along(place, m, W)
                                   /\ h = [i \in 1..m |-> ObservedLifecycle(s[place[i]])]
BY DEF Records, Along

LEMMA PicksAlong ==
  ASSUME NEW t, NEW s, NEW W, Picks(t, s, W)
  PROVE  \E m \in Nat : \E place : Along(place, m, W) /\ t = [i \in 1..m |-> s[place[i]]]
BY DEF Picks, Along

PicksBy(place, t, s, W) ==
  Along(place, Len(t), W) /\ t = [i \in 1..Len(t) |-> s[place[i]]]

\* The elements of a sublist, of which there are some when there are places.
LEMMA SublistAlong ==
  ASSUME NEW T, NEW s \in Seq(T), NEW W \in SUBSET (1..Len(s)), NEW t, t = Sublist(s, W)
  PROVE  /\ t \in Seq(T) /\ (t = << >> <=> W = {})
         /\ \E place : PicksBy(place, t, s, W)
<1>1. PICK n \in Nat : \E place : Along(place, n, W) /\ t = [i \in 1..n |-> s[place[i]]]
  BY SublistIs, PicksAlong
<1>2. PICK q : Along(q, n, W) /\ t = [i \in 1..n |-> s[q[i]]]
  BY <1>1
<1>3. \A i \in 1..n : q[i] \in W /\ q[i] \in 1..Len(s)
  BY <1>2 DEF Along
<1>4. t \in [1..n -> T]
  BY <1>2, <1>3
<1>5. t \in Seq(T) /\ Len(t) = n
  BY <1>4, SeqDef, LenProperties
<1>6. t = << >> <=> n = 0
  BY <1>5
<1>7. W # {} <=> n > 0
  BY <1>2, AlongSome
<1>8. n > 0 <=> ~(n = 0)
  OBVIOUS
<1>9. t = << >> <=> W = {}
  BY <1>6, <1>7, <1>8, Zenon
<1>10. PicksBy(q, t, s, W)
  BY <1>2, <1>5 DEF PicksBy
<1> QED BY <1>5, <1>9, <1>10

\* A history records the events that a sublist picks.
LEMMA RecordsSublist ==
  ASSUME NEW T, NEW s \in Seq(T), NEW W \in SUBSET (1..Len(s)), NEW h, Records(h, s, W),
         NEW t, t = Sublist(s, W)
  PROVE  /\ Len(h) = Len(t)
         /\ \A k \in 1..Len(t) : h[k] = ObservedLifecycle(t[k]) /\ \E j \in W : t[k] = s[j]
<1>1. PICK m \in Nat : \E place : /\ Along(place, m, W)
                                  /\ h = [i \in 1..m |-> ObservedLifecycle(s[place[i]])]
  BY RecordsAlong
<1>2. PICK p : Along(p, m, W) /\ h = [i \in 1..m |-> ObservedLifecycle(s[p[i]])]
  BY <1>1
<1> DEFINE n == Len(t)
<1>3. t \in Seq(T) /\ \E place : PicksBy(place, t, s, W)
  BY SublistAlong
<1>3a. n \in Nat
  BY <1>3
<1> HIDE DEF n
<1>4. PICK q : Along(q, n, W) /\ t = [i \in 1..n |-> s[q[i]]]
  BY <1>3 DEF PicksBy, n
<1>5. W \in SUBSET Nat
  OBVIOUS
<1>6. m = n /\ p = q
  BY <1>2, <1>3a, <1>4, <1>5, AlongOnce
<1>7. Len(h) = n
  BY <1>2, <1>6
<1>8. \A i \in 1..n : q[i] \in W
  BY <1>4 DEF Along
<1>9. \A k \in 1..n : h[k] = ObservedLifecycle(t[k]) /\ \E j \in W : t[k] = s[j]
  BY <1>2, <1>4, <1>6, <1>8
<1> QED BY <1>7, <1>9 DEF n

\* Lifecycle events about numbered addresses, in places W, whose numbers grow.
Dated(s, W) ==
  /\ \A j \in W : /\ s[j].payload.type \in LifecycleType /\ s[j].payload.address \in Nat
                  /\ s[j].sequence_number \in Nat
  /\ \A i, j \in W : i < j => s[i].sequence_number < s[j].sequence_number

LEMMA RecordsHistory ==
  ASSUME NEW s, NEW W \in SUBSET Nat, Dated(s, W), W # {}, NEW h, Records(h, s, W)
  PROVE  History(h)
<1>1. PICK m \in Nat : \E place : /\ Along(place, m, W)
                                  /\ h = [i \in 1..m |-> ObservedLifecycle(s[place[i]])]
  BY RecordsAlong
<1>2. PICK p : Along(p, m, W) /\ h = [i \in 1..m |-> ObservedLifecycle(s[p[i]])]
  BY <1>1
<1>3. Len(h) = m /\ \A i \in 1..m : p[i] \in W /\ h[i] = ObservedLifecycle(s[p[i]])
  BY <1>2 DEF Along
<1>4. m > 0
  BY <1>2, AlongSome
<1>5. \A e : /\ ObservedLifecycle(e).payload = e.payload.type
             /\ Ordinal(ObservedLifecycle(e)) = e.sequence_number
  BY DEF ObservedLifecycle, trace_provenance_from, Ordinal
<1>6. \A i \in 1..m : /\ h[i].payload = s[p[i]].payload.type
                      /\ Ordinal(h[i]) = s[p[i]].sequence_number
  BY <1>3, <1>5
<1>7. \A i \in 1..m : h[i].payload \in LifecycleType /\ Ordinal(h[i]) \in Nat
  BY <1>3, <1>6 DEF Dated
<1>8. ASSUME NEW i \in 1..m, NEW j \in 1..m, i < j PROVE Ordinal(h[i]) < Ordinal(h[j])
  <2>1. p[i] < p[j] /\ p[i] \in W /\ p[j] \in W
    BY <1>2, <1>8 DEF Along
  <2>2. s[p[i]].sequence_number < s[p[j]].sequence_number
    BY <2>1 DEF Dated
  <2> QED BY <1>6, <2>2
<1> QED BY <1>3, <1>4, <1>7, <1>8 DEF History

LEMMA KeepsChronicled ==
  ASSUME NEW s, NEW n \in Nat, NEW W \in SUBSET (1..n), Dated(s, W),
         NEW table, Keeps(table, s, W), NEW pre,
         \A a \in DOMAIN table : Existed(pre, a) \in BOOLEAN
  PROVE  Chronicled(table, pre)
<1> DEFINE D == DOMAIN table
           f == [j \in W |-> s[j].payload.address]
<1>1. D = {s[j].payload.address : j \in W}
  BY DEF Keeps
<1>2. IsFiniteSet(D)
  <2>1. IsFiniteSet(W)
    BY CountTo, FS_Subset
  <2>2. f \in Surjection(W, D)
    BY <1>1 DEF Surjection
  <2> QED BY <2>1, <2>2, FS_Surjection
<1>3. D \in SUBSET Nat
  BY <1>1 DEF Dated
<1>4. ASSUME NEW a \in D PROVE History(table[a])
  <2> DEFINE V == About(s, W, a)
  <2>1. V \subseteq W /\ V # {}
    BY <1>1 DEF About
  <2>2. Records(table[a], s, V)
    BY DEF Keeps
  <2> HIDE DEF V
  <2>3. V \in SUBSET Nat
    BY <2>1
  <2>4. Dated(s, V)
    BY <2>1 DEF Dated
  <2> QED BY <2>1, <2>2, <2>3, <2>4, RecordsHistory
<1> QED BY <1>2, <1>3, <1>4 DEF Chronicled

\* Numbers that grow along s grow along its segments.
NumbersGrow(s) ==
  \A i, j \in 1..Len(s) : i < j => s[i].sequence_number < s[j].sequence_number

LEMMA SegmentNumbered ==
  ASSUME NEW E, NEW s \in Seq(E), NumbersGrow(s), NEW b, NEW i, Complete(s, b, i)
  PROVE  NumbersGrow(SegmentOf(s, i))
<1>1. PICK x \in 1..Len(s), y \in 1..Len(s) :
        /\ x < y
        /\ s[x].payload.type = "BeginTransaction" /\ TxBegun(s, x) = i
        /\ s[y].payload.type = "EndTransaction" /\ TxEnded(s, y) = i
        /\ Holds(b, s, x, y - 1)
  BY DEF Complete
<1>2. x \in Places(s, "BeginTransaction") /\ y \in Places(s, "EndTransaction")
  BY <1>1 DEF Places
<1>3. Nth(s, "BeginTransaction", i) = x /\ Nth(s, "EndTransaction", i) = y
  BY <1>1, <1>2, NthIs DEF TxBegun, TxEnded
<1> DEFINE q == SubSeq(s, x + 1, y - 1)
           z == y - 1
<1>4. SegmentOf(s, i) = q
  BY <1>3 DEF SegmentOf
<1>5. /\ x \in Nat /\ z \in Nat /\ x <= z /\ x + 1 \in Int /\ z \in Int /\ z < Len(s)
      /\ Len(s) \in Nat
      /\ \A j \in x+1..z : s[j] \in E
  BY <1>1
<1>6. Len(q) = z - x /\ \A j \in 1..z - x : q[j] = s[x + j]
  <2>1. /\ q \in Seq(E)
        /\ Len(q) = IF x + 1 <= z THEN z - (x + 1) + 1 ELSE 0
        /\ \A j \in 1..z - (x + 1) + 1 : q[j] = s[x + 1 + j - 1]
    BY <1>5, SubSeqProperties
  <2>2. z - (x + 1) + 1 = z - x /\ \A j \in Int : x + 1 + j - 1 = x + j
    BY <1>5
  <2>3. Len(q) = z - x
    BY <1>5, <2>1
  <2> QED BY <2>1, <2>2, <2>3
<1> HIDE DEF q, z
<1>7. ASSUME NEW j \in 1..z - x, NEW k \in 1..z - x, j < k
      PROVE  q[j].sequence_number < q[k].sequence_number
  <2>1. x + j \in 1..Len(s) /\ x + k \in 1..Len(s) /\ x + j < x + k
    BY <1>5, <1>7
  <2>2. s[x + j].sequence_number < s[x + k].sequence_number
    BY <2>1 DEF NumbersGrow
  <2> QED BY <1>6, <2>2
<1> QED BY <1>4, <1>6, <1>7 DEF NumbersGrow

-----------------------------------------------------------------------------
(***************************************************************************)
(* The generations of one address in the outcome of the pass.              *)
(***************************************************************************)

LEMMA OneListing ==
  ASSUME NEW S, NEW G, ListsAll(G, S), NEW H, ListsAll(H, S)
  PROVE  G = H
<1> DEFINE R == {w \in S \X S : GenerationLess(w[1], w[2])}
           m == Len(G)
           n == Len(H)
<1>1. \A x, y \in S : <<x, y>> \in R <=> GenerationLess(x, y)
  OBVIOUS
<1> HIDE DEF R
<1>2. /\ m \in Nat /\ n \in Nat /\ G \in Seq(GenerationFact) /\ H \in Seq(GenerationFact)
      /\ \A k \in 1..m : G[k] \in S
      /\ \A k \in 1..n : H[k] \in S
      /\ \A x \in S : \E k \in 1..m : G[k] = x
      /\ \A x \in S : \E k \in 1..n : H[k] = x
  BY DEF ListsAll, Elements
<1>3. /\ \A p, q \in 1..m : <<G[p], G[q]>> \in R <=> p < q
      /\ \A p, q \in 1..n : <<H[p], H[q]>> \in R <=> p < q
  BY <1>1, <1>2, PlacesCompare
<1> HIDE DEF m, n
<1>4. ASSUME NEW f, NEW k \in Nat, f \in [1..k -> S],
             \A p, q \in 1..k : <<f[p], f[q]>> \in R <=> p < q,
             \A x \in S : \E p \in 1..k : f[p] = x
      PROVE  InOrder(f, R, S, k)
  <2>1. ASSUME NEW p \in 1..k, NEW q \in 1..k, f[p] = f[q] PROVE p = q
    <3>1. /\ <<f[p], f[p]>> \in R <=> p < p
          /\ <<f[p], f[q]>> \in R <=> p < q
          /\ <<f[q], f[p]>> \in R <=> q < p
      BY <1>4
    <3>2. ~(p < p)
      OBVIOUS
    <3>3. ~(p < q) /\ ~(q < p)
      BY <2>1, <3>1, <3>2
    <3> QED BY <3>3
  <2> QED BY <1>4, <2>1 DEF InOrder
<1>5. InOrder(G, R, S, m) /\ InOrder(H, R, S, n)
  <2>1. G \in [1..m -> S]
    BY <1>2, LenProperties DEF m
  <2>2. H \in [1..n -> S]
    BY <1>2, LenProperties DEF n
  <2> QED BY <1>2, <1>3, <1>4, <2>1, <2>2
<1>6. Orders(R, S)
  <2>1. ASSUME NEW x \in S PROVE <<x, x>> \notin R
    <3>1. PICK p \in 1..m : G[p] = x
      BY <1>2
    <3> QED BY <1>3, <3>1
  <2>2. ASSUME NEW x \in S, NEW y \in S, NEW z \in S, <<x, y>> \in R, <<y, z>> \in R
        PROVE  <<x, z>> \in R
    <3>1. PICK p \in 1..m : G[p] = x
      BY <1>2
    <3>2. PICK q \in 1..m : G[q] = y
      BY <1>2
    <3>3. PICK r \in 1..m : G[r] = z
      BY <1>2
    <3>4. p < q /\ q < r
      BY <1>3, <2>2, <3>1, <3>2, <3>3
    <3>5. p < r
      BY <3>4
    <3> QED BY <1>3, <3>1, <3>3, <3>5
  <2>3. ASSUME NEW x \in S, NEW y \in S, x # y PROVE <<x, y>> \in R \/ <<y, x>> \in R
    <3>1. PICK p \in 1..m : G[p] = x
      BY <1>2
    <3>2. PICK q \in 1..m : G[q] = y
      BY <1>2
    <3>3. p < q \/ q < p
      BY <2>3, <3>1, <3>2
    <3> QED BY <1>3, <3>1, <3>2, <3>3
  <2> QED BY <2>1, <2>2, <2>3 DEF Orders
<1>7. m = n
  BY <1>2, <1>5, InOrderCounts
<1> QED BY <1>2, <1>5, <1>6, <1>7, InOrderOnce

\* They are the generations that its history resolves to.
LEMMA OwnGenerations ==
  ASSUME NEW table, NEW pre, Chronicled(table, pre), NEW a \in DOMAIN table,
         NEW G, G = LifecyclePass(table, pre).generations
  PROVE  Sublist(G, {j \in DOMAIN G : G[j].key.address = a})
           = Resolved(table, pre, a).generations
<1> DEFINE P == {j \in DOMAIN G : G[j].key.address = a}
           t == Sublist(G, P)
           n == Len(t)
           M == Made(table, pre, a)
<1>1. ListsAll(G, FactsOf(table, pre))
  BY PassLists
<1>2. G \in Seq(GenerationFact) /\ Len(G) \in Nat /\ DOMAIN G = 1..Len(G)
  BY <1>1 DEF ListsAll
<1>3. \A k \in 1..Len(G) : k \in P <=> G[k].key.address = a
  BY <1>2
<1>4. P \in SUBSET (1..Len(G))
  BY <1>2
<1>5. t = Sublist(G, P) /\ n = Len(t)
  OBVIOUS
<1> HIDE DEF P, t, n
<1>5a. t \in Seq(GenerationFact) /\ \E place : PicksBy(place, t, G, P)
  BY <1>2, <1>4, <1>5, SublistAlong
<1>6. n \in Nat
  BY <1>5, <1>5a
<1>7. PICK place : Along(place, n, P) /\ t = [i \in 1..n |-> G[place[i]]]
  BY <1>5, <1>5a DEF PicksBy
<1>8. /\ \A k \in 1..n : place[k] \in P /\ place[k] \in 1..Len(G)
      /\ \A j \in P : \E k \in 1..n : place[k] = j
      /\ \A k, l \in 1..n : k < l => place[k] < place[l]
  BY <1>4, <1>7 DEF Along
<1>9. /\ \A k \in 1..Len(G) : G[k] \in FactsOf(table, pre)
      /\ \A x \in FactsOf(table, pre) : \E k \in 1..Len(G) : G[k] = x
      /\ \A k, l \in 1..Len(G) : k < l => GenerationLess(G[k], G[l])
  BY <1>1 DEF ListsAll, Elements
<1>10. ASSUME NEW k \in 1..n PROVE t[k] \in M
  <2>1. t[k] \in FactsOf(table, pre) /\ t[k].key.address = a
    BY <1>3, <1>7, <1>8, <1>9
  <2> QED BY <2>1, OwnFacts
<1>11. ASSUME NEW x \in M PROVE \E k \in 1..n : t[k] = x
  <2>1. x \in FactsOf(table, pre)
    BY DEF FactsOf
  <2>2. x.key.address = a
    BY MadeAbout
  <2>3. PICK j \in 1..Len(G) : G[j] = x
    BY <1>9, <2>1
  <2>4. j \in P
    BY <1>3, <2>2, <2>3
  <2>5. PICK k \in 1..n : place[k] = j
    BY <1>8, <2>4
  <2> QED BY <1>7, <2>3, <2>5
<1> HIDE DEF M
<1>12. Elements(t) = M
  BY <1>5, <1>10, <1>11 DEF Elements
<1>13. ASSUME NEW k \in 1..n, NEW l \in 1..n, k < l PROVE GenerationLess(t[k], t[l])
  <2>1. place[k] < place[l] /\ place[k] \in 1..Len(G) /\ place[l] \in 1..Len(G)
    BY <1>8, <1>13
  <2>2. GenerationLess(G[place[k]], G[place[l]])
    BY <1>9, <2>1
  <2> QED BY <1>7, <2>2
<1>14. ListsAll(t, M)
  BY <1>5, <1>5a, <1>12, <1>13 DEF ListsAll
<1>15. ListsAll(Resolved(table, pre, a).generations, M)
  BY ResolvedFacts DEF M
<1>16. t = Resolved(table, pre, a).generations
  BY <1>14, <1>15, OneListing
<1> QED BY <1>16 DEF t, P

\* A history of creations and destructions in turn.
InTurn(h) ==
  \A j \in 1..Len(h) :
    h[j].payload = IF j % 2 = 1 THEN "ContractCreated" ELSE "ContractDestroyed"

LEMMA Halves ==
  ASSUME NEW n \in Nat
  PROVE  \E m \in Nat : \/ n = 2*m /\ n % 2 = 0 /\ (n + 1) \div 2 = m
                        \/ n = 2*m + 1 /\ n % 2 = 1 /\ (n + 1) \div 2 = m + 1
<1>1. n \div 2 \in Nat
  OBVIOUS
<1>2. CASE n % 2 = 0
  <2>1. n = 2*(n \div 2) /\ (n + 1) \div 2 = n \div 2
    BY <1>2
  <2> QED BY <1>1, <1>2, <2>1
<1>3. CASE n % 2 = 1
  <2>1. n = 2*(n \div 2) + 1 /\ (n + 1) \div 2 = (n \div 2) + 1
    BY <1>3
  <2> QED BY <1>1, <1>3, <2>1
<1>4. n % 2 = 0 \/ n % 2 = 1
  OBVIOUS
<1> QED BY <1>2, <1>3, <1>4

LEMMA Evens ==
  ASSUME NEW h, NEW L \in Nat, L = Len(h), InTurn(h), NEW m \in Nat, L = 2*m \/ L = 2*m + 1
  PROVE  Along([k \in 1..m |-> 2*k], m, DestroyedTo(h, L))
<1> DEFINE D == DestroyedTo(h, L)
<1>1. \A j \in 1..L : j \in D <=> j % 2 # 1
  BY DEF InTurn, DestroyedTo
<1>2. D \subseteq 1..L
  BY DEF DestroyedTo
<1> HIDE DEF D
<1>3. ASSUME NEW k \in 1..m PROVE 2*k \in D
  <2>1. 2*k \in 1..L /\ (2*k) % 2 # 1
    OBVIOUS
  <2> QED BY <1>1, <2>1
<1>4. ASSUME NEW j \in D PROVE \E k \in 1..m : 2*k = j
  <2>1. j \in 1..L /\ j % 2 # 1
    BY <1>1, <1>2
  <2>2. PICK k \in Nat : \/ j = 2*k /\ j % 2 = 0
                         \/ j = 2*k + 1 /\ j % 2 = 1
    BY <2>1, Halves
  <2>3. j = 2*k /\ k \in 1..m
    BY <2>1, <2>2
  <2> QED BY <2>3
<1> DEFINE place == [k \in 1..m |-> 2*k]
<1>5. place \in [1..m -> D] /\ \A k \in 1..m : place[k] = 2*k
  BY <1>3
<1> HIDE DEF place
<1>6. \A k, l \in 1..m : k < l => place[k] < place[l]
  BY <1>5
<1>7. \A j \in D : \E k \in 1..m : place[k] = j
  BY <1>4, <1>5
<1> QED BY <1>5, <1>6, <1>7 DEF Along, place, D

LEMMA ResolvedInTurn ==
  ASSUME NEW h, History(h), InTurn(h), NEW a \in Nat, NEW R, Spans(R, a, h)
  PROVE  R = [g \in 1..(Len(h) + 1) \div 2 |->
                Generation(a, g - 1, Ordinal(h[2*g - 1]),
                           IF 2*g <= Len(h) THEN Ordinal(h[2*g]) ELSE NoEnd)]
<1> DEFINE L == Len(h)
           D == DestroyedTo(h, L)
<1>1. L \in Nat /\ L > 0 /\ L \in 1..L
  BY DEF History
<1>2. PICK m \in Nat : \E place \in [1..m -> D] : SpansFrom(R, a, h, m, place)
  BY DEF Spans
<1>3. PICK place \in [1..m -> D] : SpansFrom(R, a, h, m, place)
  BY <1>2
<1>4. PICK n \in Nat : \/ L = 2*n /\ L % 2 = 0 /\ (L + 1) \div 2 = n
                       \/ L = 2*n + 1 /\ L % 2 = 1 /\ (L + 1) \div 2 = n + 1
  BY <1>1, Halves
<1>5. IsOpen(h) <=> L % 2 = 1
  BY <1>1 DEF IsOpen, InTurn
<1>6. Along(place, m, D)
  BY <1>3 DEF SpansFrom, Along
<1>7. Along([k \in 1..n |-> 2*k], n, D)
  BY <1>1, <1>4, Evens
<1>8. D \in SUBSET Nat
  BY DEF DestroyedTo
<1>9. m = n /\ place = [k \in 1..n |-> 2*k]
  BY <1>6, <1>7, <1>8, AlongOnce
<1> DEFINE N == (L + 1) \div 2
           Gen(g) == Generation(a, g - 1, Ordinal(h[2*g - 1]),
                                IF 2*g <= L THEN Ordinal(h[2*g]) ELSE NoEnd)
<1>10. R \in Seq(GenerationFact) /\ Len(R) = N
  <2>1. R \in Seq(GenerationFact) /\ Len(R) = IF IsOpen(h) THEN m + 1 ELSE m
    BY <1>3 DEF SpansFrom
  <2> QED BY <1>4, <1>5, <1>9, <2>1
<1>11. ASSUME NEW g \in 1..m PROVE R[g] = Gen(g)
  <2>1. R[g] = Closed(a, h, g, place[g])
    BY <1>3 DEF SpansFrom
  <2>2. place[g] = 2*g
    BY <1>9
  <2>3. 2*g # 1 /\ 2*g <= L
    BY <1>4, <1>9
  <2> QED BY <2>1, <2>2, <2>3 DEF Closed
<1>12. ASSUME IsOpen(h) PROVE R[m + 1] = Gen(m + 1)
  <2>1. R[m + 1] = Generation(a, m, Ordinal(h[L]), NoEnd)
    BY <1>3, <1>12 DEF SpansFrom
  <2>2. (m + 1) - 1 = m /\ 2*(m + 1) - 1 = L /\ ~(2*(m + 1) <= L)
    BY <1>4, <1>5, <1>9, <1>12
  <2> QED BY <2>1, <2>2
<1>13. \A g \in 1..N : g \in 1..m \/ (IsOpen(h) /\ g = m + 1)
  BY <1>4, <1>5, <1>9
<1>14. \A g \in 1..N : R[g] = Gen(g)
  BY <1>11, <1>12, <1>13
<1>15. R = [g \in 1..N |-> R[g]]
  BY <1>10, LenProperties
<1> HIDE DEF N, Gen
<1>16. R = [g \in 1..N |-> Gen(g)]
  BY <1>14, <1>15
<1> QED BY <1>16 DEF N, Gen, L

=============================================================================
