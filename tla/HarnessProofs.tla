--------------------------- MODULE HarnessProofs ----------------------------
(***************************************************************************)
(* What the tracer writes and logs when frame hooks are lost or repeated,  *)
(* and what the harness makes of it, for every number of hooks, blocks,    *)
(* calls and crashes and every capacity of the tracer's arrays.            *)
(***************************************************************************)
EXTENDS Harness, StreamFacts

-----------------------------------------------------------------------------
(***************************************************************************)
(* One hook emits at most one event here.                                  *)
(***************************************************************************)

\* emit puts e behind the events q and the diagnostics log, or panics.
Appended(q, log, e) ==
  /\ panicked' = FALSE
  /\ globalSequence < U64_MAX /\ globalSequence' \in U64
  /\ globalSequence' = globalSequence + 1
  /\ SetSequence(e, globalSequence) \in EmesEvent
  /\ SetSequence(e, globalSequence).sequence = globalSequence
  /\ SetSequence(e, globalSequence).type = e.type
  /\ events' = Append(q, SetSequence(e, globalSequence))
  /\ errorLog' = log

Overflowed(q, log) ==
  /\ panicked' = TRUE
  /\ globalSequence' \in U64
  /\ events' = q
  /\ \E frame : errorLog' = Append(log, Diagnostic("SequenceOverflow", frame))

LEMMA OneEmit ==
  ASSUME NEW STATE q, q \in Seq(EmesEvent), NEW STATE log, NEW STATE frame,
         NEW STATE e, e \in EmesEvent, globalSequence \in U64,
         EmitAfter(q, log, frame, <<e>>)
  PROVE  Appended(q, log, e) \/ Overflowed(q, log)
<1> DEFINE g == globalSequence
           room == U64_MAX - g
           count == IF Len(<<e>>) <= room THEN Len(<<e>>) ELSE room
           new == [j \in 1..count |-> SetSequence(<<e>>[j], g + j - 1)]
<1>1. /\ events' = q \o new
      /\ panicked' = (Len(<<e>>) > room)
      /\ globalSequence' = IF Len(<<e>>) > room THEN 0 ELSE g + Len(<<e>>)
      /\ errorLog' = IF Len(<<e>>) > room
                     THEN Append(log, Diagnostic("SequenceOverflow", frame))
                     ELSE log
  BY DEF EmitAfter
<1>2. g \in Nat /\ g <= U64_MAX /\ U64_MAX \in Nat /\ Len(<<e>>) = 1
  BY WidthAssumption DEF U64
<1>3. /\ SetSequence(e, g) \in EmesEvent /\ SetSequence(e, g).type = e.type
      /\ SetSequence(e, g).sequence = g
  BY Stamped
<1>4. CASE g = U64_MAX
  <2>1. count = 0
    BY <1>2, <1>4
  <2> HIDE DEF count
  <2>2. new = << >>
    BY <2>1
  <2> HIDE DEF new
  <2>3. events' = q
    BY <1>1, <2>2
  <2>4. Len(<<e>>) > room
    BY <1>2, <1>4
  <2> HIDE DEF room
  <2>5. panicked' = TRUE
    BY <1>1, <2>4, Zenon
  <2>6. globalSequence' = 0 /\ errorLog' = Append(log, Diagnostic("SequenceOverflow", frame))
    BY <1>1, <2>4, Zenon
  <2> QED BY <1>2, <2>3, <2>5, <2>6 DEF Overflowed, U64
<1>5. CASE g < U64_MAX
  <2>1. count = 1
    BY <1>2, <1>5
  <2> HIDE DEF count
  <2>2. new = [j \in 1..1 |-> SetSequence(e, g)]
    <3>1. \A j \in 1..1 : SetSequence(<<e>>[j], g + j - 1) = SetSequence(e, g)
      <4>1. \A j \in 1..1 : <<e>>[j] = e /\ g + j - 1 = g
        BY <1>2
      <4> QED BY <4>1
    <3> QED BY <2>1, <3>1
  <2> HIDE DEF new
  <2>3. events' = Append(q, SetSequence(e, g))
    <3> DEFINE x == SetSequence(e, g)
    <3> HIDE DEF x
    <3>1. new = <<x>>
      BY <2>2 DEF x
    <3>2. q \o <<x>> = Append(q, x)
      BY <1>3 DEF x
    <3> QED BY <1>1, <3>1, <3>2 DEF x
  <2>4. ~(Len(<<e>>) > room)
    BY <1>2, <1>5
  <2> HIDE DEF room
  <2>5. panicked' = FALSE
    <3>1. (Len(<<e>>) > room) = FALSE
      BY <2>4
    <3> QED BY <1>1, <3>1, Zenon
  <2>6. globalSequence' = g + Len(<<e>>) /\ errorLog' = log
    BY <1>1, <2>4, Zenon
  <2>7. globalSequence' \in U64 /\ globalSequence' = g + 1
    BY <1>2, <1>5, <2>6 DEF U64
  <2> QED BY <1>3, <1>5, <2>3, <2>5, <2>6, <2>7 DEF Appended
<1> QED BY <1>2, <1>4, <1>5

-----------------------------------------------------------------------------
(***************************************************************************)
(* Streams in which exits match enters.                                    *)
(***************************************************************************)

\* Event x does not concern the frame f.
Passes(x, f) ==
  /\ x.type # "TransactionStart"
  /\ x.type \in {"FrameEnter", "FrameExit"} => x.frameID # f

\* Frame f was entered in the transaction that is going on, and nothing more.
Live(s, f) ==
  \E i \in 1..Len(s) : /\ s[i].type = "FrameEnter" /\ s[i].frameID = f
                       /\ \A m \in i+1..Len(s) : Passes(s[m], f)

Matched(s) ==
  \A j \in 1..Len(s) : s[j].type = "FrameExit" =>
    \E i \in 1..j-1 : /\ s[i].type = "FrameEnter" /\ s[i].frameID = s[j].frameID
                      /\ \A m \in i+1..j-1 : Passes(s[m], s[j].frameID)

LEMMA MatchedMeans ==
  ASSUME events \in Seq(EmesEvent)
  PROVE  Matched(events) <=> ExitsMatchEnters
<1> DEFINE A(i, j) == /\ events[i].type = "FrameEnter"
                      /\ events[i].frameID = events[j].frameID
                      /\ \A m \in i+1..j-1 : Passes(events[m], events[j].frameID)
           B(i, j) == /\ events[i].type = "FrameEnter"
                      /\ events[i].frameID = events[j].frameID
                      /\ \A m \in i+1..j-1 :
                           /\ events[m].type # "TransactionStart"
                           /\ events[m].type \in {"FrameEnter", "FrameExit"}
                                => events[m].frameID # events[i].frameID
<1>1. \A i, j : A(i, j) <=> B(i, j)
  BY DEF Passes
<1>2. Matched(events) <=> \A j \in 1..Len(events) :
                            events[j].type = "FrameExit" => \E i \in 1..j-1 : A(i, j)
  BY DEF Matched
<1>3. DOMAIN events = 1..Len(events)
  OBVIOUS
<1>4. ExitsMatchEnters <=> \A j \in 1..Len(events) :
                            events[j].type = "FrameExit" => \E i \in 1..j-1 : B(i, j)
  BY <1>3 DEF ExitsMatchEnters
<1> HIDE DEF A, B
<1> QED BY <1>1, <1>2, <1>4

LEMMA LivePassed ==
  ASSUME NEW S, NEW s \in Seq(S), NEW x \in S, NEW f, Live(s, f), Passes(x, f)
  PROVE  Live(Append(s, x), f)
<1> DEFINE t == Append(s, x)
           n == Len(s)
<1>1. Len(t) = n + 1 /\ n \in Nat /\ t[n + 1] = x /\ \A j \in 1..n : t[j] = s[j]
  BY Pushed
<1> HIDE DEF t
<1>2. PICK i \in 1..n : /\ s[i].type = "FrameEnter" /\ s[i].frameID = f
                        /\ \A m \in i+1..n : Passes(s[m], f)
  BY DEF Live
<1> HIDE DEF n
<1>3. \A m \in i+1..n + 1 : Passes(t[m], f)
  <2> TAKE m \in i+1..n + 1
  <2>1. CASE m = n + 1
    BY <1>1, <2>1
  <2>2. CASE m # n + 1
    <3>1. m \in i+1..n /\ m \in 1..n
      BY <1>1, <1>2, <2>2
    <3> QED BY <1>1, <1>2, <3>1
  <2> QED BY <2>1, <2>2
<1>4. i \in 1..n + 1 /\ t[i] = s[i]
  BY <1>1, <1>2
<1>5. Live(t, f)
  BY <1>1, <1>2, <1>3, <1>4 DEF Live
<1> QED BY <1>5 DEF t

LEMMA LiveEntered ==
  ASSUME NEW S, NEW s \in Seq(S), NEW x \in S, x.type = "FrameEnter"
  PROVE  Live(Append(s, x), x.frameID)
<1> DEFINE t == Append(s, x)
<1>1. Len(t) = Len(s) + 1 /\ Len(s) \in Nat /\ t[Len(s) + 1] = x
  BY Pushed
<1> HIDE DEF t
<1>2. Len(s) + 1 \in 1..Len(t) /\ \A m \in Len(s) + 1 + 1..Len(t) : FALSE
  BY <1>1
<1>3. Live(t, x.frameID)
  BY <1>1, <1>2 DEF Live
<1> QED BY <1>3 DEF t

LEMMA MatchedNext ==
  ASSUME NEW S, NEW s \in Seq(S), NEW x \in S, Matched(s),
         x.type = "FrameExit" => Live(s, x.frameID)
  PROVE  Matched(Append(s, x))
<1> DEFINE t == Append(s, x)
           n == Len(s)
<1>1. Len(t) = n + 1 /\ n \in Nat /\ t[n + 1] = x /\ \A j \in 1..n : t[j] = s[j]
  BY Pushed
<1> HIDE DEF t
<1>2. ASSUME NEW j \in 1..n + 1, t[j].type = "FrameExit"
      PROVE  \E i \in 1..j-1 : /\ t[i].type = "FrameEnter" /\ t[i].frameID = t[j].frameID
                               /\ \A m \in i+1..j-1 : Passes(t[m], t[j].frameID)
  <2>1. CASE j = n + 1
    <3>1. PICK i \in 1..n : /\ s[i].type = "FrameEnter" /\ s[i].frameID = x.frameID
                            /\ \A m \in i+1..n : Passes(s[m], x.frameID)
      BY <1>1, <1>2, <2>1 DEF Live
    <3> HIDE DEF n
    <3>2. j - 1 = n /\ \A m \in i+1..n : m \in 1..n
      BY <1>1, <2>1, <3>1
    <3> QED BY <1>1, <2>1, <3>1, <3>2
  <2>2. CASE j # n + 1
    <3>1. j \in 1..n
      BY <1>1, <2>2
    <3>2. PICK i \in 1..j-1 : /\ s[i].type = "FrameEnter" /\ s[i].frameID = s[j].frameID
                              /\ \A m \in i+1..j-1 : Passes(s[m], s[j].frameID)
      BY <1>1, <1>2, <3>1 DEF Matched
    <3> HIDE DEF n
    <3>3. i \in 1..n /\ \A m \in i+1..j-1 : m \in 1..n
      BY <1>1, <3>1, <3>2
    <3> QED BY <1>1, <3>1, <3>2, <3>3
  <2> QED BY <2>1, <2>2
<1>3. Matched(t)
  BY <1>1, <1>2 DEF Matched
<1> QED BY <1>3 DEF t

-----------------------------------------------------------------------------
(***************************************************************************)
(* Counting the calls of a block.                                          *)
(***************************************************************************)

\* A number of occurrences goes up by one when another is added.
LEMMA OccurrencesNext ==
  ASSUME NEW c, NEW h, NEW a \in Nat, NEW n \in Nat
  PROVE  /\ Occurrences(c, h, a, n) \in Nat
         /\ a <= n + 1 => Occurrences(c, h, a, n + 1) =
                            Occurrences(c, h, a, n) + IF c[n + 1] = h THEN 1 ELSE 0
         /\ Occurrences(c, h, n + 1, n) = 0
<1> DEFINE P(b, m) == {i \in b..m : c[i] = h}
<1>1. IsFiniteSet(P(a, n))
  <2>1. IsFiniteSet(a..n)
    BY FS_Interval
  <2> QED BY <2>1, FS_Subset
<1>2. Cardinality(P(a, n)) \in Nat
  BY <1>1, FS_CardinalityType
<1>3. ASSUME a <= n + 1, c[n + 1] = h
      PROVE  Cardinality(P(a, n + 1)) = Cardinality(P(a, n)) + 1
  <2>1. P(a, n + 1) = P(a, n) \cup {n + 1} /\ n + 1 \notin P(a, n)
    BY <1>3
  <2> QED BY <1>1, <2>1, FS_AddElement
<1>4. ASSUME a <= n + 1, c[n + 1] # h
      PROVE  P(a, n + 1) = P(a, n)
  BY <1>4
<1>5. P(n + 1, n) = {}
  OBVIOUS
<1> QED BY <1>2, <1>3, <1>4, <1>5, FS_EmptySet DEF Occurrences

LEMMA OccurrencesSame ==
  ASSUME NEW c, NEW d, NEW n \in Nat, SameTo(c, d, n), NEW h,
         NEW a \in Nat \ {0}, NEW m \in 0..n
  PROVE  Occurrences(c, h, a, m) = Occurrences(d, h, a, m)
<1>1. {i \in a..m : c[i] = h} = {i \in a..m : d[i] = h}
  BY DEF SameTo
<1> QED BY <1>1 DEF Occurrences

\* Hook i belongs to the transaction that hook t began, and balances there.
InTx(c, t, i) == t \in 1..i /\ BeganTx(c, t, i)

CallBalanced(c, i) ==
  \A t : InTx(c, t, i) =>
    /\ c[i] = "exit" => Occurrences(c, "exit", t, i) <= Occurrences(c, "enter", t, i)
    /\ c[i] = "txEnd" => Occurrences(c, "exit", t, i) = Occurrences(c, "enter", t, i)

\* Exits and ends of transactions come in transactions.
CallsInside(c) ==
  \A i \in 1..Len(c) : c[i] \in {"exit", "txEnd"} => \E t : InTx(c, t, i)

LEMMA TxOfKnown ==
  ASSUME NEW c, NEW i \in Nat, NEW t, InTx(c, t, i)
  PROVE  TxOf(c, i) = t
<1>1. \A u \in 1..i : BeganTx(c, u, i) => u = t
  <2> TAKE u \in 1..i
  <2> SUFFICES ASSUME BeganTx(c, u, i) PROVE u = t
    OBVIOUS
  <2>1. ~(t < u) /\ ~(u < t)
    <3>1. t < u => u \in t+1..i
      BY DEF InTx
    <3>2. u < t => t \in u+1..i
      BY DEF InTx
    <3> QED BY <3>1, <3>2 DEF InTx, BeganTx
  <2> QED BY <2>1 DEF InTx
<1>2. t \in 1..i /\ BeganTx(c, t, i)
  BY DEF InTx
<1> QED BY <1>1, <1>2 DEF TxOf

LEMMA BalancedMeans ==
  ASSUME NEW S, NEW c \in Seq(S), CallsInside(c)
  PROVE  BalancedCalls(c) <=> \A i \in 1..Len(c) : CallBalanced(c, i)
<1> DEFINE B(i, t) ==
             /\ c[i] = "exit" => Occurrences(c, "exit", t, i) <= Occurrences(c, "enter", t, i)
             /\ c[i] = "txEnd" => Occurrences(c, "exit", t, i) = Occurrences(c, "enter", t, i)
<1>1. ASSUME NEW i \in 1..Len(c)
      PROVE  B(i, TxOf(c, i)) <=> CallBalanced(c, i)
  <2>1. CASE c[i] \in {"exit", "txEnd"}
    <3>1. PICK t : InTx(c, t, i)
      BY <2>1 DEF CallsInside
    <3>2. \A u : InTx(c, u, i) => TxOf(c, i) = u
      BY TxOfKnown
    <3>3. CallBalanced(c, i) <=> \A u : InTx(c, u, i) => B(i, u)
      BY DEF CallBalanced
    <3> HIDE DEF B
    <3> QED BY <3>1, <3>2, <3>3
  <2>2. CASE c[i] \notin {"exit", "txEnd"}
    BY <2>2 DEF CallBalanced
  <2> QED BY <2>1, <2>2
<1>2. BalancedCalls(c) <=> \A i \in 1..Len(c) : B(i, TxOf(c, i))
  <2>1. DOMAIN c = 1..Len(c)
    OBVIOUS
  <2> QED BY <2>1 DEF BalancedCalls
<1> HIDE DEF B
<1> QED BY <1>1, <1>2

\* One call more.
LEMMA CallAppended ==
  ASSUME NEW S, NEW c \in Seq(S), NEW h \in S, NEW t
  PROVE  /\ \A i \in 1..Len(c) : InTx(Append(c, h), t, i) <=> InTx(c, t, i)
         /\ h # "txStart" =>
              (InTx(Append(c, h), t, Len(c) + 1) <=> InTx(c, t, Len(c)))
         /\ h = "txStart" => (InTx(Append(c, h), t, Len(c) + 1) <=> t = Len(c) + 1)
<1> DEFINE d == Append(c, h)
           n == Len(c)
<1>1. n \in Nat /\ d[n + 1] = h /\ \A j \in 1..n : d[j] = c[j]
  BY Pushed
<1> HIDE DEF d, n
<1>2. ASSUME NEW i \in 1..n
      PROVE  InTx(d, t, i) <=> InTx(c, t, i)
  BY <1>1 DEF InTx, BeganTx
<1>3. ASSUME h # "txStart"
      PROVE  InTx(d, t, n + 1) <=> InTx(c, t, n)
  <2>1. ASSUME InTx(d, t, n + 1) PROVE InTx(c, t, n)
    <3>1. t \in 1..n
      BY <1>1, <1>3, <2>1 DEF InTx, BeganTx
    <3>2. \A m \in t+1..n : m \in t+1..n + 1 /\ m \in 1..n
      BY <1>1, <3>1
    <3> QED BY <1>1, <2>1, <3>1, <3>2 DEF InTx, BeganTx
  <2>2. ASSUME InTx(c, t, n) PROVE InTx(d, t, n + 1)
    <3>1. t \in 1..n /\ t \in 1..n + 1
      BY <1>1, <2>2 DEF InTx
    <3>2. \A m \in t+1..n + 1 : m = n + 1 \/ (m \in t+1..n /\ m \in 1..n)
      BY <1>1, <3>1
    <3> QED BY <1>1, <1>3, <2>2, <3>1, <3>2 DEF InTx, BeganTx
  <2> QED BY <2>1, <2>2
<1>4. ASSUME h = "txStart"
      PROVE  InTx(d, t, n + 1) <=> t = n + 1
  <2>1. ASSUME InTx(d, t, n + 1) PROVE t = n + 1
    <3>1. t \in 1..n + 1 /\ (t # n + 1 => n + 1 \in t+1..n + 1)
      BY <1>1, <2>1 DEF InTx
    <3> QED BY <1>1, <1>4, <2>1, <3>1 DEF InTx, BeganTx
  <2>2. ASSUME t = n + 1 PROVE InTx(d, t, n + 1)
    <3>1. t \in 1..n + 1 /\ \A m \in t+1..n + 1 : FALSE
      BY <1>1, <2>2
    <3> QED BY <1>1, <1>4, <2>2, <3>1 DEF InTx, BeganTx
  <2> QED BY <2>1, <2>2
<1> QED BY <1>2, <1>3, <1>4 DEF d, n

LEMMA OccurrencesAppended ==
  ASSUME NEW S, NEW c \in Seq(S), NEW h \in S, NEW x, NEW t, InTx(c, t, Len(c))
  PROVE  /\ Occurrences(c, x, t, Len(c)) \in Nat
         /\ Occurrences(Append(c, h), x, t, Len(c) + 1) =
              Occurrences(c, x, t, Len(c)) + IF h = x THEN 1 ELSE 0
<1> DEFINE d == Append(c, h)
           n == Len(c)
<1>1. n \in Nat /\ d[n + 1] = h /\ SameTo(c, d, n)
  BY Pushed DEF SameTo
<1> HIDE DEF d, n
<1>2. t \in Nat \ {0} /\ t <= n + 1 /\ n \in 0..n
  BY <1>1 DEF InTx, n
<1>3. Occurrences(d, x, t, n) = Occurrences(c, x, t, n)
  BY <1>1, <1>2, OccurrencesSame
<1>4. t \in Nat /\ n \in Nat
  BY <1>1, <1>2
<1>5. Occurrences(d, x, t, n) \in Nat
  BY <1>4, OccurrencesNext
<1>6. Occurrences(d, x, t, n + 1) =
        Occurrences(d, x, t, n) + IF d[n + 1] = x THEN 1 ELSE 0
  BY <1>2, <1>4, OccurrencesNext
<1> QED BY <1>1, <1>3, <1>5, <1>6 DEF d, n

\* The calls go on to balance as long as the next one does.
LEMMA BalancedNext ==
  ASSUME NEW S, NEW c \in Seq(S), NEW h \in S, CallsInside(c),
         h \in {"exit", "txEnd"} => \E t : InTx(c, t, Len(c))
  PROVE  /\ CallsInside(Append(c, h))
         /\ BalancedCalls(Append(c, h)) <=>
              BalancedCalls(c) /\ CallBalanced(Append(c, h), Len(c) + 1)
<1> DEFINE d == Append(c, h)
           n == Len(c)
<1>1. /\ n \in Nat /\ Len(d) = n + 1 /\ d[n + 1] = h /\ d \in Seq(S)
      /\ SameTo(c, d, n)
  BY Pushed DEF SameTo
<1>2. /\ \A t : \A i \in 1..n : InTx(d, t, i) <=> InTx(c, t, i)
      /\ h # "txStart" => \A t : InTx(d, t, n + 1) <=> InTx(c, t, n)
  BY CallAppended
<1> HIDE DEF d
<1>3. CallsInside(d)
  <2> SUFFICES ASSUME NEW i \in 1..n + 1, d[i] \in {"exit", "txEnd"}
               PROVE  \E t : InTx(d, t, i)
    BY <1>1 DEF CallsInside
  <2>1. CASE i = n + 1
    <3>1. h \in {"exit", "txEnd"}
      BY <1>1, <2>1
    <3> QED BY <1>2, <2>1, <3>1
  <2>2. CASE i # n + 1
    <3>1. i \in 1..n
      BY <1>1, <2>2
    <3>2. c[i] = d[i]
      BY <1>1, <3>1 DEF SameTo
    <3>3. \E t : InTx(c, t, i)
      BY <3>1, <3>2 DEF CallsInside
    <3> QED BY <1>2, <3>1, <3>3
  <2> QED BY <2>1, <2>2
<1>4. ASSUME NEW i \in 1..n
      PROVE  CallBalanced(d, i) <=> CallBalanced(c, i)
  <2>1. d[i] = c[i]
    BY <1>1 DEF SameTo
  <2>2. ASSUME NEW t, InTx(c, t, i), NEW x
        PROVE  Occurrences(d, x, t, i) = Occurrences(c, x, t, i)
    <3>1. t \in Nat \ {0} /\ i \in 0..n
      BY <1>1, <2>2 DEF InTx
    <3> QED BY <1>1, <3>1, OccurrencesSame
  <2>3. \A t : InTx(d, t, i) <=> InTx(c, t, i)
    BY <1>2
  <2> QED BY <2>1, <2>2, <2>3 DEF CallBalanced
<1>5. BalancedCalls(c) <=> \A i \in 1..n : CallBalanced(c, i)
  BY BalancedMeans
<1>6. BalancedCalls(d) <=> \A i \in 1..n + 1 : CallBalanced(d, i)
  BY <1>1, <1>3, BalancedMeans
<1>7. (\A i \in 1..n + 1 : CallBalanced(d, i)) <=>
        (\A i \in 1..n : CallBalanced(d, i)) /\ CallBalanced(d, n + 1)
  <2>1. \A i : i \in 1..n + 1 <=> i \in 1..n \/ i = n + 1
    BY <1>1
  <2> QED BY <2>1
<1> QED BY <1>3, <1>4, <1>5, <1>6, <1>7 DEF d

\* By the last call, k frames of its transaction were entered and not left.
FramesOpen(c, k) ==
  \A t : InTx(c, t, Len(c)) =>
    k = Occurrences(c, "enter", t, Len(c)) - Occurrences(c, "exit", t, Len(c))

LEMMA TxStartCounted ==
  ASSUME NEW S, NEW c \in Seq(S), "txStart" \in S
  PROVE  /\ CallBalanced(Append(c, "txStart"), Len(c) + 1)
         /\ FramesOpen(Append(c, "txStart"), 0)
         /\ InTx(Append(c, "txStart"), Len(c) + 1, Len(c) + 1)
<1> DEFINE d == Append(c, "txStart")
           n == Len(c)
<1>1. n \in Nat /\ Len(d) = n + 1 /\ d[n + 1] = "txStart"
  BY Pushed
<1>2. \A t : InTx(d, t, n + 1) <=> t = n + 1
  BY CallAppended
<1> HIDE DEF d, n
<1>3. \A x : x # "txStart" => Occurrences(d, x, n + 1, n + 1) = 0
  <2> TAKE x
  <2> HAVE x # "txStart"
  <2>1. Occurrences(d, x, n + 1, n + 1) =
          Occurrences(d, x, n + 1, n) + IF d[n + 1] = x THEN 1 ELSE 0
    BY <1>1, OccurrencesNext
  <2>2. Occurrences(d, x, n + 1, n) = 0
    BY <1>1, OccurrencesNext
  <2> QED BY <1>1, <2>1, <2>2
<1>4. CallBalanced(d, n + 1)
  BY <1>1 DEF CallBalanced
<1>5. FramesOpen(d, 0)
  BY <1>1, <1>2, <1>3 DEF FramesOpen
<1> QED BY <1>2, <1>4, <1>5 DEF d, n

LEMMA EnterCounted ==
  ASSUME NEW S, NEW c \in Seq(S), "enter" \in S, NEW k \in Nat, FramesOpen(c, k)
  PROVE  /\ CallBalanced(Append(c, "enter"), Len(c) + 1)
         /\ FramesOpen(Append(c, "enter"), k + 1)
<1> DEFINE d == Append(c, "enter")
           n == Len(c)
<1>1. n \in Nat /\ Len(d) = n + 1 /\ d[n + 1] = "enter"
  BY Pushed
<1>2. \A t : InTx(d, t, n + 1) <=> InTx(c, t, n)
  BY CallAppended
<1>3. \A t : InTx(c, t, n) =>
        /\ Occurrences(c, "enter", t, n) \in Nat /\ Occurrences(c, "exit", t, n) \in Nat
        /\ Occurrences(d, "enter", t, n + 1) = Occurrences(c, "enter", t, n) + 1
        /\ Occurrences(d, "exit", t, n + 1) = Occurrences(c, "exit", t, n)
  BY OccurrencesAppended
<1>4. \A t : InTx(c, t, n) =>
        k = Occurrences(c, "enter", t, n) - Occurrences(c, "exit", t, n)
  BY DEF FramesOpen
<1> HIDE DEF d, n
<1>5. CallBalanced(d, n + 1)
  BY <1>1 DEF CallBalanced
<1>6. FramesOpen(d, k + 1)
  BY <1>1, <1>2, <1>3, <1>4 DEF FramesOpen
<1> QED BY <1>5, <1>6 DEF d, n

LEMMA ExitCounted ==
  ASSUME NEW S, NEW c \in Seq(S), "exit" \in S, NEW k \in Nat, FramesOpen(c, k),
         \E t : InTx(c, t, Len(c))
  PROVE  /\ CallBalanced(Append(c, "exit"), Len(c) + 1) <=> k > 0
         /\ FramesOpen(Append(c, "exit"), k - 1)
<1> DEFINE d == Append(c, "exit")
           n == Len(c)
<1>1. n \in Nat /\ Len(d) = n + 1 /\ d[n + 1] = "exit"
  BY Pushed
<1>2. \A t : InTx(d, t, n + 1) <=> InTx(c, t, n)
  BY CallAppended
<1>3. \A t : InTx(c, t, n) =>
        /\ Occurrences(c, "enter", t, n) \in Nat /\ Occurrences(c, "exit", t, n) \in Nat
        /\ Occurrences(d, "exit", t, n + 1) = Occurrences(c, "exit", t, n) + 1
        /\ Occurrences(d, "enter", t, n + 1) = Occurrences(c, "enter", t, n)
  BY OccurrencesAppended
<1>4. \A t : InTx(c, t, n) =>
        k = Occurrences(c, "enter", t, n) - Occurrences(c, "exit", t, n)
  BY DEF FramesOpen
<1>5. PICK t0 : InTx(c, t0, n)
  OBVIOUS
<1> HIDE DEF d, n
<1>6. \A t : InTx(c, t, n) =>
        (Occurrences(d, "exit", t, n + 1) <= Occurrences(d, "enter", t, n + 1) <=> k > 0)
  BY <1>3, <1>4
<1>7. CallBalanced(d, n + 1) <=> k > 0
  BY <1>1, <1>2, <1>5, <1>6 DEF CallBalanced
<1>8. FramesOpen(d, k - 1)
  BY <1>1, <1>2, <1>3, <1>4 DEF FramesOpen
<1> QED BY <1>7, <1>8 DEF d, n

LEMMA TxEndCounted ==
  ASSUME NEW S, NEW c \in Seq(S), "txEnd" \in S, NEW k \in Nat, FramesOpen(c, k),
         \E t : InTx(c, t, Len(c))
  PROVE  CallBalanced(Append(c, "txEnd"), Len(c) + 1) <=> k = 0
<1> DEFINE d == Append(c, "txEnd")
           n == Len(c)
<1>1. n \in Nat /\ Len(d) = n + 1 /\ d[n + 1] = "txEnd"
  BY Pushed
<1>2. \A t : InTx(d, t, n + 1) <=> InTx(c, t, n)
  BY CallAppended
<1>3. \A t : InTx(c, t, n) =>
        /\ Occurrences(c, "enter", t, n) \in Nat /\ Occurrences(c, "exit", t, n) \in Nat
        /\ Occurrences(d, "exit", t, n + 1) = Occurrences(c, "exit", t, n)
        /\ Occurrences(d, "enter", t, n + 1) = Occurrences(c, "enter", t, n)
  BY OccurrencesAppended
<1>4. \A t : InTx(c, t, n) =>
        k = Occurrences(c, "enter", t, n) - Occurrences(c, "exit", t, n)
  BY DEF FramesOpen
<1>5. PICK t0 : InTx(c, t0, n)
  OBVIOUS
<1> HIDE DEF d, n
<1>6. \A t : InTx(c, t, n) =>
        (Occurrences(d, "exit", t, n + 1) = Occurrences(d, "enter", t, n + 1) <=> k = 0)
  BY <1>3, <1>4
<1>7. CallBalanced(d, n + 1) <=> k = 0
  BY <1>1, <1>2, <1>5, <1>6 DEF CallBalanced
<1> QED BY <1>7 DEF d, n

-----------------------------------------------------------------------------
(***************************************************************************)
(* The hooks.                                                              *)
(***************************************************************************)

HookName == {"txStart", "enter", "exit", "txEnd", "blockEnd"}

LogEntry ==
  [code : {"SequenceOverflow", "UnexpectedExit", "EmptyFrameStack"}, frameID : U64]

NoCommit(s) == \A i \in 1..Len(s) : s[i].type # "BlockCommit"

\* The tracer's stack holds frames that are live in the stream, each with an id
\* of its own, and as many as the calls say while nothing has been diagnosed.
StackRight ==
  /\ frameStack \in Seq(U64) /\ nextFrameID \in U64
  /\ calls \in Seq(HookName) /\ CallsInside(calls) /\ errorLog \in Seq(LogEntry)
  /\ where # "tx" => frameStack = << >>
  /\ where = "tx" => nextFrameID < Len(calls) /\ \E t : InTx(calls, t, Len(calls))
  /\ \A k \in 1..Len(frameStack) :
       frameStack[k] < nextFrameID /\ Live(events, frameStack[k])
  /\ \A k, l \in 1..Len(frameStack) : k < l => frameStack[k] < frameStack[l]
  /\ errorLog = << >> <=> BalancedCalls(calls)
  /\ where = "tx" /\ errorLog = << >> => FramesOpen(calls, Len(frameStack))

StreamRight ==
  /\ events \in Seq(EmesEvent)
  /\ Matched(events)
  /\ where # "end" \/ panicked => NoCommit(events)

\* The inductive invariant of the hooks.  No hook follows a panic.
HookRight ==
  /\ globalSequence \in U64 /\ panicked \in BOOLEAN /\ blocks \in Nat
  /\ StreamRight
  /\ ~panicked => StackRight

\* A hook that panics leaves the stream as it is, or empty.
LEMMA Panics ==
  ASSUME NEW STATE q, q \in Seq(EmesEvent), Matched(q), NoCommit(q), NEW STATE log,
         Overflowed(q, log), blocks' \in Nat
  PROVE  HookRight'
  BY DEF Overflowed, HookRight, StreamRight

\* One that does not panic appends an event.
LEMMA StreamNext ==
  ASSUME NEW STATE q, q \in Seq(EmesEvent), Matched(q), NoCommit(q), NEW STATE log,
         NEW STATE e, Appended(q, log, e), where' = "end" \/ e.type # "BlockCommit",
         e.type = "FrameExit" => Live(q, SetSequence(e, globalSequence).frameID)
  PROVE  StreamRight'
<1> DEFINE x == SetSequence(e, globalSequence)
<1>1. /\ x \in EmesEvent /\ x.type = e.type /\ events' = Append(q, x) /\ panicked' = FALSE
  BY DEF Appended
<1> HIDE DEF x
<1>2. events' \in Seq(EmesEvent) /\ Len(events') = Len(q) + 1 /\ Len(q) \in Nat
      /\ events'[Len(q) + 1] = x /\ \A j \in 1..Len(q) : events'[j] = q[j]
  BY <1>1, Pushed
<1>3. Matched(events')
  <2>1. x.type = "FrameExit" => Live(q, x.frameID)
    BY <1>1 DEF x
  <2>2. Matched(Append(q, x))
    BY <1>1, <2>1, MatchedNext
  <2> QED BY <1>1, <2>2
<1>4. ASSUME where' # "end"
      PROVE  NoCommit(events')
  <2> SUFFICES ASSUME NEW i \in 1..Len(q) + 1 PROVE events'[i].type # "BlockCommit"
    BY <1>2 DEF NoCommit
  <2>1. CASE i = Len(q) + 1
    BY <1>1, <1>2, <1>4, <2>1
  <2>2. CASE i # Len(q) + 1
    <3>1. i \in 1..Len(q)
      BY <1>2, <2>2
    <3> QED BY <1>2, <3>1 DEF NoCommit
  <2> QED BY <2>1, <2>2
<1> QED BY <1>1, <1>2, <1>3, <1>4 DEF StreamRight

\* Nothing has been written, nothing is to match.
LEMMA EmptyStream == << >> \in Seq(EmesEvent) /\ Matched(<< >>) /\ NoCommit(<< >>)
  BY DEF Matched, NoCommit

LEMMA NoCalls ==
  << >> \in Seq(HookName) /\ CallsInside(<< >>) /\ BalancedCalls(<< >>)
<1>1. << >> \in Seq(HookName) /\ CallsInside(<< >>)
  BY DEF CallsInside
<1>2. \A i \in 1..Len(<< >>) : CallBalanced(<< >>, i)
  OBVIOUS
<1> QED BY <1>1, <1>2, BalancedMeans

LEMMA BlockStartRight ==
  ASSUME HookRight, BlockStartHook
  PROVE  HookRight'
<1> DEFINE e == BlockStartEvent(blocks + 1)
<1>1. /\ where \in {"start", "end"} /\ where' = "block" /\ blocks' = blocks + 1
      /\ ~panicked /\ EmitAfter(<< >>, << >>, currentFrameID, <<e>>)
      /\ UNCHANGED <<nextFrameID, frameStack>> /\ calls' = << >>
  BY DEF BlockStartHook, OnBlockStart
<1>2. blocks' \in Nat /\ globalSequence \in U64 /\ StackRight
  BY <1>1 DEF HookRight
<1>3. e \in EmesEvent /\ e.type = "BlockStart"
  BY <1>1, <1>2, WidthAssumption DEF BlockStartEvent, EmesEvent, U64
<1> HIDE DEF e
<1>4. Appended(<< >>, << >>, e) \/ Overflowed(<< >>, << >>)
  BY <1>1, <1>2, <1>3, EmptyStream, OneEmit
<1>5. CASE Overflowed(<< >>, << >>)
  BY <1>2, <1>5, EmptyStream, Panics
<1>6. CASE Appended(<< >>, << >>, e)
  <2>1. StreamRight'
    BY <1>3, <1>6, EmptyStream, StreamNext
  <2>2. errorLog' = << >> /\ globalSequence' \in U64 /\ panicked' = FALSE
    BY <1>6 DEF Appended
  <2>3. frameStack' = << >> /\ frameStack' \in Seq(U64) /\ nextFrameID' \in U64
    BY <1>1, <1>2 DEF StackRight
  <2>4. StackRight'
    BY <1>1, <2>2, <2>3, NoCalls DEF StackRight
  <2> QED BY <1>2, <2>1, <2>2, <2>4 DEF HookRight
<1> QED BY <1>4, <1>5, <1>6

\* What the hooks inside a block find.
LEMMA InBlock ==
  ASSUME HookRight, ~panicked, where \in {"block", "tx"}
  PROVE  /\ globalSequence \in U64 /\ blocks \in Nat
         /\ events \in Seq(EmesEvent) /\ Matched(events) /\ NoCommit(events)
         /\ StackRight /\ Len(calls) \in Nat
  BY DEF HookRight, StreamRight, StackRight

LEMMA TxStartRight ==
  ASSUME HookRight, TxStartHook
  PROVE  HookRight'
<1> DEFINE e == TransactionStartEvent(1, 0)
<1>1. /\ where = "block" /\ where' = "tx" /\ blocks' = blocks /\ ~panicked
      /\ EmitAfter(events, errorLog, NO_FRAME, <<e>>)
      /\ nextFrameID' = 0 /\ frameStack' = << >> /\ calls' = Append(calls, "txStart")
  BY DEF TxStartHook, OnTxStart, Called
<1>2. /\ globalSequence \in U64 /\ blocks \in Nat
      /\ events \in Seq(EmesEvent) /\ Matched(events) /\ NoCommit(events)
      /\ StackRight /\ Len(calls) \in Nat
  BY <1>1, InBlock
<1>3. e \in EmesEvent /\ e.type = "TransactionStart"
  BY WidthAssumption DEF TransactionStartEvent, EmesEvent, U64
<1> HIDE DEF e
<1>4. Appended(events, errorLog, e) \/ Overflowed(events, errorLog)
  BY <1>1, <1>2, <1>3, OneEmit
<1>5. CASE Overflowed(events, errorLog)
  BY <1>1, <1>2, <1>5, Panics
<1>6. CASE Appended(events, errorLog, e)
  <2>1. StreamRight'
    BY <1>2, <1>3, <1>6, StreamNext
  <2>2. errorLog' = errorLog /\ globalSequence' \in U64 /\ panicked' = FALSE
    BY <1>6 DEF Appended
  <2>3. calls \in Seq(HookName) /\ CallsInside(calls) /\ "txStart" \in HookName
    BY <1>2 DEF StackRight, HookName
  <2>4. calls' \in Seq(HookName) /\ Len(calls') = Len(calls) + 1
    BY <1>1, <2>3, Pushed
  <2>5. /\ CallsInside(calls')
        /\ BalancedCalls(calls') <=> BalancedCalls(calls)
                                     /\ CallBalanced(calls', Len(calls) + 1)
    BY <1>1, <2>3, BalancedNext
  <2>6. /\ CallBalanced(calls', Len(calls) + 1) /\ FramesOpen(calls', 0)
        /\ InTx(calls', Len(calls) + 1, Len(calls) + 1)
    BY <1>1, <2>3, TxStartCounted
  <2>7. frameStack' \in Seq(U64) /\ Len(frameStack') = 0 /\ nextFrameID' \in U64
    BY <1>1, WidthAssumption DEF U64
  <2>8. nextFrameID' < Len(calls')
    BY <1>1, <1>2, <2>4
  <2>9. StackRight'
    BY <1>1, <1>2, <2>2, <2>4, <2>5, <2>6, <2>7, <2>8 DEF StackRight
  <2> QED BY <1>1, <1>2, <2>1, <2>2, <2>9 DEF HookRight
<1> QED BY <1>4, <1>5, <1>6

LEMMA BlockEndRight ==
  ASSUME HookRight, BlockEndHook
  PROVE  HookRight'
<1> DEFINE e == BlockCommitEvent
<1>1. /\ where = "block" /\ where' = "end" /\ blocks' = blocks /\ ~panicked
      /\ EmitAfter(events, errorLog, currentFrameID, <<e>>)
      /\ UNCHANGED <<nextFrameID, frameStack>> /\ calls' = Append(calls, "blockEnd")
  BY DEF BlockEndHook, OnBlockEnd, emit, Called
<1>2. /\ globalSequence \in U64 /\ blocks \in Nat
      /\ events \in Seq(EmesEvent) /\ Matched(events) /\ NoCommit(events)
      /\ StackRight /\ Len(calls) \in Nat
  BY <1>1, InBlock
<1>3. e \in EmesEvent /\ e.type = "BlockCommit"
  BY WidthAssumption DEF BlockCommitEvent, EmesEvent, U64
<1> HIDE DEF e
<1>4. Appended(events, errorLog, e) \/ Overflowed(events, errorLog)
  BY <1>1, <1>2, <1>3, OneEmit
<1>5. CASE Overflowed(events, errorLog)
  BY <1>1, <1>2, <1>5, Panics
<1>6. CASE Appended(events, errorLog, e)
  <2>1. StreamRight'
    BY <1>1, <1>2, <1>3, <1>6, StreamNext
  <2>2. errorLog' = errorLog /\ globalSequence' \in U64 /\ panicked' = FALSE
    BY <1>6 DEF Appended
  <2>3. calls \in Seq(HookName) /\ CallsInside(calls) /\ "blockEnd" \in HookName
    BY <1>2 DEF StackRight, HookName
  <2>4. calls' \in Seq(HookName) /\ calls'[Len(calls) + 1] = "blockEnd"
    BY <1>1, <2>3, Pushed
  <2>5. /\ CallsInside(calls')
        /\ BalancedCalls(calls') <=> BalancedCalls(calls)
                                     /\ CallBalanced(calls', Len(calls) + 1)
    BY <1>1, <2>3, BalancedNext
  <2>6. CallBalanced(calls', Len(calls) + 1)
    BY <2>4 DEF CallBalanced
  <2>7. frameStack' \in Seq(U64) /\ Len(frameStack') = 0 /\ frameStack' = << >>
        /\ nextFrameID' \in U64
    BY <1>1, <1>2 DEF StackRight
  <2>8. StackRight'
    BY <1>1, <1>2, <2>2, <2>4, <2>5, <2>6, <2>7 DEF StackRight
  <2> QED BY <1>1, <1>2, <2>1, <2>2, <2>8 DEF HookRight
<1> QED BY <1>4, <1>5, <1>6

LEMMA InnermostTyped ==
  ASSUME StackRight
  PROVE  currentFrameID \in U64
<1>1. CASE frameStack = << >>
  BY <1>1, WidthAssumption DEF currentFrameID, NO_FRAME, U64
<1>2. CASE frameStack # << >>
  <2>1. frameStack \in Seq(U64)
    BY DEF StackRight
  <2>2. frameStack[Len(frameStack)] \in U64
    BY <1>2, <2>1, Popped
  <2> QED BY <1>2, <2>2 DEF currentFrameID
<1> QED BY <1>1, <1>2

LEMMA EnterRight ==
  ASSUME HookRight, EnterHook
  PROVE  HookRight'
<1> DEFINE e == FrameEnterEvent(nextFrameID, currentFrameID, Len(frameStack))
           n == Len(frameStack)
           x == SetSequence(e, globalSequence)
<1>1. /\ where = "tx" /\ where' = "tx" /\ blocks' = blocks /\ ~panicked /\ More
      /\ EmitAfter(events, errorLog, nextFrameID, <<e>>)
      /\ frameStack' = Append(frameStack, nextFrameID)
      /\ nextFrameID' = (nextFrameID + 1) % (U64_MAX + 1)
      /\ calls' = Append(calls, "enter")
  BY DEF EnterHook, OnEnter, Called
<1>2. /\ globalSequence \in U64 /\ blocks \in Nat
      /\ events \in Seq(EmesEvent) /\ Matched(events) /\ NoCommit(events)
      /\ StackRight /\ Len(calls) \in Nat
  BY <1>1, InBlock
<1>3. /\ frameStack \in Seq(U64) /\ nextFrameID \in U64 /\ n \in Nat
      /\ calls \in Seq(HookName) /\ CallsInside(calls)
      /\ nextFrameID < Len(calls) /\ \E t : InTx(calls, t, Len(calls))
      /\ \A k \in 1..n : frameStack[k] < nextFrameID /\ Live(events, frameStack[k])
      /\ \A k, l \in 1..n : k < l => frameStack[k] < frameStack[l]
      /\ "enter" \in HookName
  BY <1>1, <1>2 DEF StackRight, HookName
<1>4. nextFrameID' = nextFrameID + 1 /\ nextFrameID' \in U64
  <2>1. Len(calls) < U64_MAX
    BY <1>1, <1>2, HookFaultsAssumption, WidthAssumption DEF More
  <2>2. nextFrameID \in Nat /\ nextFrameID + 1 < U64_MAX + 1
    BY <1>2, <1>3, <2>1, WidthAssumption DEF U64
  <2>3. (nextFrameID + 1) % (U64_MAX + 1) = nextFrameID + 1
    BY <2>2, WidthAssumption
  <2> QED BY <1>1, <2>2, <2>3, WidthAssumption DEF U64
<1>5. e \in EmesEvent /\ e.type = "FrameEnter"
  BY <1>2, <1>3, InnermostTyped, WidthAssumption DEF FrameEnterEvent, EmesEvent, U64
<1>6. x.frameID = nextFrameID /\ x.type = "FrameEnter"
  BY DEF FrameEnterEvent, SetSequence
<1> HIDE DEF e, n
<1>7. Appended(events, errorLog, e) \/ Overflowed(events, errorLog)
  BY <1>1, <1>2, <1>5, OneEmit DEF n
<1>8. CASE Overflowed(events, errorLog)
  BY <1>1, <1>2, <1>8, Panics
<1>9. CASE Appended(events, errorLog, e)
  <2>1. StreamRight'
    BY <1>2, <1>5, <1>9, StreamNext
  <2>2. /\ errorLog' = errorLog /\ globalSequence' \in U64 /\ panicked' = FALSE
        /\ x \in EmesEvent /\ events' = Append(events, x)
    BY <1>9 DEF Appended
  <2> HIDE DEF x
  <2>3. /\ frameStack' \in Seq(U64) /\ Len(frameStack') = n + 1
        /\ \A k \in 1..n : frameStack'[k] = frameStack[k]
        /\ frameStack'[n + 1] = nextFrameID
    BY <1>1, <1>3, Pushed DEF n
  <2>4. calls' \in Seq(HookName) /\ Len(calls') = Len(calls) + 1
    BY <1>1, <1>3, Pushed
  <2>5. /\ CallsInside(calls')
        /\ BalancedCalls(calls') <=> BalancedCalls(calls)
                                     /\ CallBalanced(calls', Len(calls) + 1)
    BY <1>1, <1>3, BalancedNext
  <2>6. CallBalanced(calls', Len(calls) + 1)
    <3>1. calls'[Len(calls) + 1] = "enter"
      BY <1>1, <1>3, Pushed
    <3> QED BY <3>1 DEF CallBalanced
  <2>7. \E t : InTx(calls', t, Len(calls'))
    BY <1>1, <1>3, <2>4, CallAppended
  <2>8. errorLog' = << >> => FramesOpen(calls', n + 1)
    <3>1. errorLog' = << >> => FramesOpen(calls, n)
      BY <1>1, <1>2, <2>2 DEF StackRight, n
    <3> QED BY <1>1, <1>3, <3>1, EnterCounted
  <2>9. ASSUME NEW k \in 1..n + 1
        PROVE  frameStack'[k] < nextFrameID' /\ Live(events', frameStack'[k])
    <3>1. CASE k = n + 1
      <4>1. Live(Append(events, x), x.frameID)
        BY <1>2, <1>6, <2>2, LiveEntered
      <4> QED BY <1>3, <1>4, <1>6, <2>2, <2>3, <3>1, <4>1 DEF U64
    <3>2. CASE k # n + 1
      <4>1. k \in 1..n
        BY <1>3, <3>2
      <4>2. frameStack[k] < nextFrameID /\ Live(events, frameStack[k])
        BY <1>3, <4>1 DEF n
      <4>3. frameStack[k] \in Nat /\ nextFrameID \in Nat
        <5>1. frameStack[k] \in U64
          BY <1>3, <4>1 DEF n
        <5> QED BY <1>3, <5>1, WidthAssumption DEF U64
      <4>4. Passes(x, frameStack[k])
        BY <1>6, <4>2, <4>3 DEF Passes
      <4>5. Live(Append(events, x), frameStack[k])
        BY <1>2, <2>2, <4>2, <4>4, LivePassed
      <4> QED BY <1>4, <2>2, <2>3, <4>1, <4>2, <4>3, <4>5
    <3> QED BY <3>1, <3>2
  <2>10. ASSUME NEW k \in 1..n + 1, NEW l \in 1..n + 1, k < l
         PROVE  frameStack'[k] < frameStack'[l]
    <3>1. k \in 1..n
      BY <1>3, <2>10
    <3>2. CASE l = n + 1
      BY <1>3, <2>3, <3>1, <3>2 DEF n
    <3>3. CASE l # n + 1
      <4>1. l \in 1..n
        BY <1>3, <3>3
      <4> QED BY <1>3, <2>3, <2>10, <3>1, <4>1 DEF n
    <3> QED BY <3>2, <3>3
  <2>11. nextFrameID' < Len(calls')
    BY <1>2, <1>3, <1>4, <2>4, WidthAssumption DEF U64
  <2>12. StackRight'
    <3>1. errorLog' \in Seq(LogEntry) /\ (errorLog' = << >> <=> BalancedCalls(calls'))
      BY <1>2, <2>2, <2>5, <2>6 DEF StackRight
    <3> QED BY <1>1, <1>4, <2>3, <2>4, <2>5, <2>7, <2>8, <2>9, <2>10, <2>11, <3>1
            DEF StackRight
  <2> QED BY <1>1, <1>2, <2>1, <2>2, <2>12 DEF HookRight
<1> QED BY <1>7, <1>8, <1>9

\* An exit with no frame to leave is diagnosed and writes nothing.
LEMMA EmptyExitRight ==
  ASSUME HookRight, NEW reverted, ExitHook(reverted), frameStack = << >>
  PROVE  HookRight'
<1> DEFINE x == Diagnostic("EmptyFrameStack", NO_FRAME)
<1>1. /\ where = "tx" /\ where' = "tx" /\ blocks' = blocks /\ ~panicked
      /\ errorLog' = Append(errorLog, x) /\ calls' = Append(calls, "exit")
      /\ UNCHANGED <<globalSequence, frameStack, events, panicked, nextFrameID>>
  BY DEF ExitHook, OnExit, Called
<1>2. /\ StackRight /\ calls \in Seq(HookName) /\ CallsInside(calls)
      /\ errorLog \in Seq(LogEntry) /\ nextFrameID < Len(calls)
      /\ \E t : InTx(calls, t, Len(calls))
      /\ nextFrameID \in U64 /\ Len(calls) \in Nat
  BY <1>1 DEF HookRight, StackRight
<1>3. x \in LogEntry
  BY WidthAssumption DEF Diagnostic, LogEntry, NO_FRAME, U64
<1> HIDE DEF x
<1>4. errorLog' \in Seq(LogEntry) /\ errorLog' # << >>
  <2>1. Len(errorLog') = Len(errorLog) + 1 /\ Len(errorLog) \in Nat
        /\ errorLog' \in Seq(LogEntry)
    BY <1>1, <1>2, <1>3, Pushed
  <2>2. Len(errorLog') # 0
    BY <2>1
  <2> QED BY <2>1, <2>2
<1>5. /\ calls' \in Seq(HookName) /\ Len(calls') = Len(calls) + 1 /\ "exit" \in HookName
  BY <1>1, <1>2, Pushed DEF HookName
<1>6. /\ CallsInside(calls')
      /\ BalancedCalls(calls') <=> BalancedCalls(calls)
                                   /\ CallBalanced(calls', Len(calls) + 1)
  BY <1>1, <1>2, <1>5, BalancedNext
<1>7. ~BalancedCalls(calls')
  <2>1. CASE errorLog = << >>
    <3>1. FramesOpen(calls, 0)
      BY <1>1, <1>2, <2>1 DEF StackRight
    <3>2. CallBalanced(Append(calls, "exit"), Len(calls) + 1) <=> 0 > 0
      BY <1>2, <1>5, <3>1, ExitCounted
    <3> QED BY <1>1, <1>6, <3>2
  <2>2. CASE errorLog # << >>
    BY <1>2, <1>6, <2>2 DEF StackRight
  <2> QED BY <2>1, <2>2
<1>8. \E t : InTx(calls', t, Len(calls'))
  BY <1>1, <1>2, <1>5, CallAppended
<1>9. nextFrameID' < Len(calls')
  BY <1>1, <1>2, <1>5, WidthAssumption DEF U64
<1>10. StackRight'
  BY <1>1, <1>2, <1>4, <1>5, <1>6, <1>7, <1>8, <1>9 DEF StackRight
<1>11. StreamRight'
  BY <1>1 DEF HookRight, StreamRight
<1> QED BY <1>1, <1>10, <1>11 DEF HookRight

\* Every other names the frame on top of the stack, which is live.
LEMMA ExitRight ==
  ASSUME HookRight, NEW reverted \in BOOLEAN, ExitHook(reverted), frameStack # << >>
  PROVE  HookRight'
<1> DEFINE e == FrameExitEvent(currentFrameID, reverted)
           n == Len(frameStack)
           x == SetSequence(e, globalSequence)
           rest == SubSeq(frameStack, 1, n - 1)
<1>1. /\ where = "tx" /\ where' = "tx" /\ blocks' = blocks /\ ~panicked
      /\ \E frame : EmitAfter(events, errorLog, frame, <<e>>)
      /\ frameStack' = rest
      /\ nextFrameID' = nextFrameID
      /\ calls' = Append(calls, "exit")
  BY DEF ExitHook, OnExit, Called
<1>2. /\ globalSequence \in U64 /\ blocks \in Nat
      /\ events \in Seq(EmesEvent) /\ Matched(events) /\ NoCommit(events)
      /\ StackRight /\ Len(calls) \in Nat
  BY <1>1, InBlock
<1>3. /\ frameStack \in Seq(U64) /\ nextFrameID \in U64
      /\ calls \in Seq(HookName) /\ CallsInside(calls)
      /\ nextFrameID < Len(calls) /\ \E t : InTx(calls, t, Len(calls))
      /\ \A k \in 1..n : frameStack[k] < nextFrameID /\ Live(events, frameStack[k])
      /\ \A k, l \in 1..n : k < l => frameStack[k] < frameStack[l]
      /\ "exit" \in HookName
  BY <1>1, <1>2 DEF StackRight, HookName
<1>4. /\ frameStack' \in Seq(U64) /\ Len(frameStack') = n - 1
      /\ \A k \in 1..n - 1 : frameStack'[k] = frameStack[k]
      /\ n \in Nat \ {0} /\ n \in 1..n
  BY <1>1, <1>3, Popped
<1>5. e \in EmesEvent /\ e.type = "FrameExit"
  BY <1>2, InnermostTyped, WidthAssumption DEF FrameExitEvent, EmesEvent, U64
<1>6. x.frameID = frameStack[n] /\ x.type = "FrameExit"
  BY DEF FrameExitEvent, SetSequence, currentFrameID
<1>7. Live(events, x.frameID)
  BY <1>3, <1>4, <1>6
<1> HIDE DEF e, n, rest
<1>8. Appended(events, errorLog, e) \/ Overflowed(events, errorLog)
  <2>1. EmitAfter(events, errorLog, IF rest = << >> THEN NO_FRAME ELSE rest[Len(rest)], <<e>>)
    BY DEF ExitHook, OnExit, rest, e, n
  <2> QED BY <1>2, <1>5, <2>1, OneEmit
<1>9. CASE Overflowed(events, errorLog)
  BY <1>1, <1>2, <1>9, Panics
<1>10. CASE Appended(events, errorLog, e)
  <2>1. StreamRight'
    BY <1>2, <1>5, <1>7, <1>10, StreamNext
  <2>2. /\ errorLog' = errorLog /\ globalSequence' \in U64 /\ panicked' = FALSE
        /\ x \in EmesEvent /\ events' = Append(events, x)
    BY <1>10 DEF Appended
  <2> HIDE DEF x
  <2>3. calls' \in Seq(HookName) /\ Len(calls') = Len(calls) + 1
    BY <1>1, <1>3, Pushed
  <2>4. /\ CallsInside(calls')
        /\ BalancedCalls(calls') <=> BalancedCalls(calls)
                                     /\ CallBalanced(calls', Len(calls) + 1)
    BY <1>1, <1>3, BalancedNext
  <2>5. \E t : InTx(calls', t, Len(calls'))
    BY <1>1, <1>3, <2>3, CallAppended
  <2>6. errorLog = << >> => /\ CallBalanced(calls', Len(calls) + 1)
                            /\ FramesOpen(calls', n - 1)
    <3>1. errorLog = << >> => FramesOpen(calls, n)
      BY <1>1, <1>2 DEF StackRight, n
    <3>2. n \in Nat /\ n > 0
      BY <1>4
    <3>3. ASSUME FramesOpen(calls, n)
          PROVE  /\ CallBalanced(Append(calls, "exit"), Len(calls) + 1)
                 /\ FramesOpen(Append(calls, "exit"), n - 1)
      BY <1>3, <3>2, <3>3, ExitCounted
    <3> QED BY <1>1, <3>1, <3>3
  <2>7. ASSUME NEW k \in 1..n - 1
        PROVE  frameStack'[k] < nextFrameID' /\ Live(events', frameStack'[k])
    <3>1. k \in 1..n /\ k < n
      BY <1>4
    <3>2. /\ frameStack[k] < nextFrameID /\ Live(events, frameStack[k])
          /\ frameStack[k] < frameStack[n]
      BY <1>3, <1>4, <3>1 DEF n
    <3>3. frameStack[k] \in Nat /\ frameStack[n] \in Nat
      <4>1. frameStack[k] \in U64 /\ frameStack[n] \in U64
        BY <1>3, <1>4, <3>1 DEF n
      <4> QED BY <4>1, WidthAssumption DEF U64
    <3>4. Passes(x, frameStack[k])
      BY <1>6, <3>2, <3>3 DEF Passes
    <3>5. Live(Append(events, x), frameStack[k])
      BY <1>2, <2>2, <3>2, <3>4, LivePassed
    <3> QED BY <1>1, <1>4, <2>2, <3>2, <3>5
  <2>8. ASSUME NEW k \in 1..n - 1, NEW l \in 1..n - 1, k < l
        PROVE  frameStack'[k] < frameStack'[l]
    <3>1. k \in 1..n /\ l \in 1..n
      BY <1>4
    <3> QED BY <1>3, <1>4, <2>8, <3>1 DEF n
  <2>9. nextFrameID' < Len(calls')
    BY <1>1, <1>2, <1>3, <2>3, WidthAssumption DEF U64
  <2>10. StackRight'
    <3>1. errorLog' \in Seq(LogEntry) /\ (errorLog' = << >> <=> BalancedCalls(calls'))
      BY <1>2, <2>2, <2>4, <2>6 DEF StackRight
    <3> QED BY <1>1, <1>3, <1>4, <2>2, <2>3, <2>4, <2>5, <2>6, <2>7, <2>8, <2>9, <3>1
            DEF StackRight
  <2> QED BY <1>1, <1>2, <2>1, <2>2, <2>10 DEF HookRight
<1> QED BY <1>8, <1>9, <1>10

LEMMA TxEndRight ==
  ASSUME HookRight, NEW failed \in BOOLEAN, TxEndHook(failed)
  PROVE  HookRight'
<1> DEFINE e == TransactionEndEvent(failed)
           n == Len(frameStack)
           x == Diagnostic("UnexpectedExit", currentFrameID)
           log == IF frameStack # << >> /\ globalSequence < U64_MAX
                  THEN Append(errorLog, x) ELSE errorLog
<1>1. /\ where = "tx" /\ where' = "block" /\ blocks' = blocks /\ ~panicked
      /\ EmitAfter(events, log, currentFrameID, <<e>>)
      /\ panicked' \/ frameStack' = << >>
      /\ nextFrameID' = nextFrameID /\ calls' = Append(calls, "txEnd")
  BY DEF TxEndHook, OnTxEnd, Called
<1>2. /\ globalSequence \in U64 /\ blocks \in Nat
      /\ events \in Seq(EmesEvent) /\ Matched(events) /\ NoCommit(events)
      /\ StackRight /\ Len(calls) \in Nat
  BY <1>1, InBlock
<1>3. /\ frameStack \in Seq(U64) /\ nextFrameID \in U64 /\ n \in Nat
      /\ calls \in Seq(HookName) /\ CallsInside(calls) /\ errorLog \in Seq(LogEntry)
      /\ \E t : InTx(calls, t, Len(calls))
      /\ "txEnd" \in HookName
  BY <1>1, <1>2 DEF StackRight, HookName
<1>4. e \in EmesEvent /\ e.type = "TransactionEnd"
  BY WidthAssumption DEF TransactionEndEvent, EmesEvent, U64
<1>5. x \in LogEntry
  BY <1>2, InnermostTyped DEF Diagnostic, LogEntry
<1> HIDE DEF e, x, n
<1>6. Appended(events, log, e) \/ Overflowed(events, log)
  <2> HIDE DEF log
  <2> QED BY <1>1, <1>2, <1>4, OneEmit
<1>7. CASE Overflowed(events, log)
  <2> HIDE DEF log
  <2> QED BY <1>1, <1>2, <1>7, Panics
<1>8. CASE Appended(events, log, e)
  <2>1. StreamRight'
    <3> HIDE DEF log
    <3> QED BY <1>2, <1>4, <1>8, StreamNext
  <2>2. /\ errorLog' = log /\ globalSequence' \in U64 /\ panicked' = FALSE
        /\ globalSequence < U64_MAX
    BY <1>8 DEF Appended
  <2>3. calls' \in Seq(HookName)
    BY <1>1, <1>3, Pushed
  <2>4. /\ CallsInside(calls')
        /\ BalancedCalls(calls') <=> BalancedCalls(calls)
                                     /\ CallBalanced(calls', Len(calls) + 1)
    BY <1>1, <1>3, BalancedNext
  <2>5. errorLog = << >> => (CallBalanced(calls', Len(calls) + 1) <=> n = 0)
    <3>1. errorLog = << >> => FramesOpen(calls, n)
      BY <1>1, <1>2 DEF StackRight, n
    <3>2. ASSUME FramesOpen(calls, n)
          PROVE  CallBalanced(Append(calls, "txEnd"), Len(calls) + 1) <=> n = 0
      BY <1>3, <3>2, TxEndCounted
    <3> QED BY <1>1, <3>1, <3>2
  <2>6. n = 0 <=> frameStack = << >>
    BY <1>3 DEF n
  <2>7. errorLog = << >> <=> BalancedCalls(calls)
    BY <1>2 DEF StackRight
  <2>8. /\ errorLog' \in Seq(LogEntry)
        /\ errorLog' = << >> <=> errorLog = << >> /\ frameStack = << >>
    <3>1. CASE frameStack = << >>
      BY <1>3, <2>2, <3>1
    <3>2. CASE frameStack # << >>
      <4>1. errorLog' = Append(errorLog, x)
        BY <2>2, <3>2
      <4>2. Len(errorLog') = Len(errorLog) + 1 /\ Len(errorLog) \in Nat
            /\ errorLog' \in Seq(LogEntry)
        BY <1>3, <1>5, <4>1, Pushed
      <4>3. Len(errorLog') # 0
        BY <4>2
      <4> QED BY <3>2, <4>2, <4>3
    <3> QED BY <3>1, <3>2
  <2>9. errorLog' = << >> <=> BalancedCalls(calls')
    BY <2>4, <2>5, <2>6, <2>7, <2>8
  <2>10. frameStack' \in Seq(U64) /\ frameStack' = << >> /\ Len(frameStack') = 0
    <3>1. frameStack' = << >>
      BY <1>1, <2>2, Zenon
    <3> QED BY <3>1
  <2>11. StackRight'
    BY <1>1, <1>3, <2>3, <2>4, <2>8, <2>9, <2>10 DEF StackRight
  <2> QED BY <1>1, <1>2, <2>1, <2>2, <2>11 DEF HookRight
<1> QED BY <1>6, <1>7, <1>8

LEMMA HookKeeps ==
  ASSUME HookRight, HookStep
  PROVE  HookRight'
<1>1. ASSUME NEW reverted \in BOOLEAN, ExitHook(reverted)
      PROVE  HookRight'
  BY <1>1, EmptyExitRight, ExitRight
<1>2. CASE \E reverted \in BOOLEAN : ExitHook(reverted)
  BY <1>1, <1>2
<1>3. CASE \E failed \in BOOLEAN : TxEndHook(failed)
  BY <1>3, TxEndRight
<1> QED BY <1>2, <1>3, BlockStartRight, TxStartRight, EnterRight, BlockEndRight DEF HookStep

-----------------------------------------------------------------------------
(***************************************************************************)
(* The tracer next to the harness, from one process to the next.           *)
(***************************************************************************)

\* A new tracer is right.
LEMMA FreshRight ==
  ASSUME globalSequence = 0, frameStack = << >>, nextFrameID = 0, events = << >>,
         errorLog = << >>, panicked = FALSE, where = "start", calls = << >>, blocks \in Nat
  PROVE  HookRight
<1>1. StreamRight
  BY EmptyStream DEF StreamRight
<1>2. 0 \in U64 /\ << >> \in Seq(U64) /\ << >> \in Seq(LogEntry) /\ Len(<< >>) = 0
  BY WidthAssumption DEF U64
<1>3. StackRight
  BY <1>2, NoCalls DEF StackRight
<1> QED BY <1>1, <1>2, <1>3 DEF HookRight

LEMMA CrashedRight ==
  ASSUME HookRight, Crash
  PROVE  HookRight'
<1>1. /\ globalSequence' = 0 /\ frameStack' = << >> /\ nextFrameID' = 0 /\ events' = << >>
      /\ errorLog' = << >> /\ panicked' = FALSE /\ where' = "start" /\ calls' = << >>
      /\ blocks' \in Nat
  BY DEF Crash, HookRight
<1>2. StreamRight'
  BY <1>1, EmptyStream DEF StreamRight
<1>3. 0 \in U64 /\ << >> \in Seq(U64) /\ << >> \in Seq(LogEntry) /\ Len(<< >>) = 0
  BY WidthAssumption DEF U64
<1>4. StackRight'
  BY <1>1, <1>3, NoCalls DEF StackRight
<1> QED BY <1>1, <1>2, <1>3, <1>4 DEF HookRight

\* The harness does not write to the tracer.
LEMMA HarnessReads ==
  ASSUME Next
  PROVE  Hook \/ Crash \/ UNCHANGED hookVars
  BY DEF Next, TakeEvents, ReadGate, Assemble, MakeDirectory, Encode, OpenFile, WriteData,
         Ended, Alongside, vars

LEMMA HooksInvariant == Spec => []HookRight
<1>1. Init => HookRight
  <2> SUFFICES ASSUME Init PROVE HookRight
    OBVIOUS
  <2>1. /\ globalSequence = 0 /\ frameStack = << >> /\ nextFrameID = 0 /\ events = << >>
        /\ errorLog = << >> /\ panicked = FALSE /\ where = "start" /\ calls = << >>
        /\ blocks \in Nat
    BY DEF Init, HooksInit, TracerInit
  <2> QED BY <2>1, FreshRight
<1>2. HookRight /\ [Next]_vars => HookRight'
  <2> SUFFICES ASSUME HookRight, [Next]_vars PROVE HookRight'
    OBVIOUS
  <2>1. CASE Hook
    BY <2>1, HookKeeps DEF Hook
  <2>2. CASE Crash
    BY <2>2, CrashedRight
  <2>3. CASE UNCHANGED hookVars
    BY <2>3 DEF hookVars, tracerVars, HookRight, StreamRight, StackRight
  <2> QED BY <2>1, <2>2, <2>3, HarnessReads DEF vars
<1> QED BY <1>1, <1>2, PTL DEF Spec

\* Up to a panic of emit, the error log tells a balanced block from one whose
\* frame hooks were lost or repeated, for any number of hooks
\* (kaysentinel_tracer.go, OnExit and OnTxEnd).
THEOREM FaultsAreDiagnosed == Spec => []FaultsDiagnosed
<1>1. HookRight => FaultsDiagnosed
  BY DEF HookRight, StackRight, FaultsDiagnosed
<1> QED BY <1>1, HooksInvariant, PTL

\* No exit is made up, however the hooks come (kaysentinel_tracer.go, OnTxStart
\* and OnTxEnd empty the stack).
THEOREM ExitsAreMatched == Spec => []ExitsMatchEnters
<1>1. HookRight => ExitsMatchEnters
  BY MatchedMeans DEF HookRight, StreamRight
<1> QED BY <1>1, HooksInvariant, PTL

-----------------------------------------------------------------------------
(***************************************************************************)
(* How the events are numbered: one after the other, across the blocks.    *)
(***************************************************************************)

\* The events of a block have consecutive numbers, the next one is the counter.
Dense ==
  ~panicked =>
    /\ Len(events) <= globalSequence
    /\ \A i \in 1..Len(events) : events[i].sequence = globalSequence - Len(events) + (i - 1)

\* A block starts: its first event is the whole stream, or emit panics.
Starts ==
  /\ blocks' # blocks
  /\ \/ \E x \in EmesEvent :
          /\ events' = <<x>> /\ x.sequence = globalSequence
          /\ globalSequence' = globalSequence + 1 /\ panicked' = FALSE
     \/ events' = << >> /\ panicked' = TRUE /\ DOMAIN errorLog' # {}

\* Another hook of the block: the stream is as it was, or one event longer.
Adds ==
  /\ blocks' = blocks /\ where \in {"block", "tx"}
  /\ \/ events' = events /\ (panicked' = TRUE \/ globalSequence' = globalSequence)
     \/ \E x \in EmesEvent :
          /\ events' = Append(events, x) /\ x.sequence = globalSequence
          /\ globalSequence' = globalSequence + 1 /\ panicked' = FALSE

LEMMA AddsOne ==
  ASSUME NEW STATE e, NEW STATE log,
         Appended(events, log, e) \/ Overflowed(events, log),
         blocks' = blocks, where \in {"block", "tx"}
  PROVE  Adds
<1>1. CASE Appended(events, log, e)
  BY <1>1 DEF Appended, Adds
<1>2. CASE Overflowed(events, log)
  BY <1>2 DEF Overflowed, Adds
<1> QED BY <1>1, <1>2

LEMMA StartWrites ==
  ASSUME HookRight, BlockStartHook
  PROVE  Starts
<1> DEFINE e == BlockStartEvent(blocks + 1)
<1>1. /\ blocks' = blocks + 1 /\ blocks \in Nat /\ globalSequence \in U64
      /\ EmitAfter(<< >>, << >>, currentFrameID, <<e>>)
  BY DEF BlockStartHook, OnBlockStart, HookRight
<1>2. e \in EmesEvent
  BY <1>1, WidthAssumption DEF BlockStartEvent, EmesEvent, U64
<1> HIDE DEF e
<1>3. Appended(<< >>, << >>, e) \/ Overflowed(<< >>, << >>)
  BY <1>1, <1>2, EmptyStream, OneEmit
<1>4. CASE Appended(<< >>, << >>, e)
  <2> DEFINE x == SetSequence(e, globalSequence)
  <2>1. /\ x \in EmesEvent /\ events' = Append(<< >>, x) /\ x.sequence = globalSequence
        /\ globalSequence' = globalSequence + 1 /\ panicked' = FALSE
    BY <1>4 DEF Appended
  <2> HIDE DEF x
  <2>2. events' = <<x>>
    BY <2>1
  <2> QED BY <1>1, <2>1, <2>2 DEF Starts
<1>5. CASE Overflowed(<< >>, << >>)
  <2>1. /\ events' = << >> /\ panicked' = TRUE
        /\ \E frame : errorLog' = Append(<< >>, Diagnostic("SequenceOverflow", frame))
    BY <1>5 DEF Overflowed
  <2>2. \A y : DOMAIN Append(<< >>, y) # {}
    OBVIOUS
  <2> QED BY <1>1, <2>1, <2>2 DEF Starts
<1> QED BY <1>3, <1>4, <1>5

LEMMA HookWrites ==
  ASSUME HookRight, HookStep
  PROVE  ~panicked /\ (Starts \/ Adds)
<1>1. ~panicked
  BY DEF HookStep, BlockStartHook, TxStartHook, EnterHook, ExitHook, TxEndHook, BlockEndHook,
         OnBlockStart, OnTxStart, OnEnter, OnExit, OnTxEnd, OnBlockEnd
<1>2. globalSequence \in U64 /\ events \in Seq(EmesEvent) /\ StackRight
  BY <1>1 DEF HookRight, StreamRight
<1>3. CASE TxStartHook
  <2> DEFINE e == TransactionStartEvent(1, 0)
  <2>1. e \in EmesEvent
    BY WidthAssumption DEF TransactionStartEvent, EmesEvent, U64
  <2>2. blocks' = blocks /\ where = "block" /\ EmitAfter(events, errorLog, NO_FRAME, <<e>>)
    BY <1>3 DEF TxStartHook, OnTxStart
  <2> HIDE DEF e
  <2> QED BY <1>1, <1>2, <2>1, <2>2, OneEmit, AddsOne
<1>4. CASE EnterHook
  <2> DEFINE e == FrameEnterEvent(nextFrameID, currentFrameID, Len(frameStack))
  <2>1. e \in EmesEvent
    <3>1. nextFrameID \in U64 /\ Len(frameStack) \in Nat
      BY <1>2 DEF StackRight
    <3> QED BY <1>2, <3>1, InnermostTyped, WidthAssumption DEF FrameEnterEvent, EmesEvent, U64
  <2>2. blocks' = blocks /\ where = "tx" /\ EmitAfter(events, errorLog, nextFrameID, <<e>>)
    BY <1>4 DEF EnterHook, OnEnter
  <2> HIDE DEF e
  <2> QED BY <1>1, <1>2, <2>1, <2>2, OneEmit, AddsOne
<1>5. ASSUME NEW reverted \in BOOLEAN, ExitHook(reverted)
      PROVE  Adds
  <2>1. CASE frameStack = << >>
    BY <1>5, <2>1 DEF ExitHook, OnExit, Adds
  <2>2. CASE frameStack # << >>
    <3> DEFINE e == FrameExitEvent(currentFrameID, reverted)
               rest == SubSeq(frameStack, 1, Len(frameStack) - 1)
               top == IF rest = << >> THEN NO_FRAME ELSE rest[Len(rest)]
    <3>1. e \in EmesEvent
      BY <1>2, InnermostTyped, WidthAssumption DEF FrameExitEvent, EmesEvent, U64
    <3>2. blocks' = blocks /\ where = "tx" /\ EmitAfter(events, errorLog, top, <<e>>)
      BY <1>5, <2>2 DEF ExitHook, OnExit
    <3> HIDE DEF e, top
    <3> QED BY <1>1, <1>2, <3>1, <3>2, OneEmit, AddsOne
  <2> QED BY <2>1, <2>2
<1>6. ASSUME NEW failed \in BOOLEAN, TxEndHook(failed)
      PROVE  Adds
  <2> DEFINE e == TransactionEndEvent(failed)
             log == IF frameStack # << >> /\ globalSequence < U64_MAX
                    THEN Append(errorLog, Diagnostic("UnexpectedExit", currentFrameID))
                    ELSE errorLog
  <2>1. e \in EmesEvent
    BY WidthAssumption DEF TransactionEndEvent, EmesEvent, U64
  <2>2. blocks' = blocks /\ where = "tx" /\ EmitAfter(events, log, currentFrameID, <<e>>)
    BY <1>6 DEF TxEndHook, OnTxEnd
  <2> HIDE DEF e, log
  <2> QED BY <1>1, <1>2, <2>1, <2>2, OneEmit, AddsOne
<1>7. CASE BlockEndHook
  <2> DEFINE e == BlockCommitEvent
  <2>1. e \in EmesEvent
    BY WidthAssumption DEF BlockCommitEvent, EmesEvent, U64
  <2>2. blocks' = blocks /\ where = "block" /\ EmitAfter(events, errorLog, currentFrameID, <<e>>)
    BY <1>7 DEF BlockEndHook, OnBlockEnd, emit
  <2> HIDE DEF e
  <2> QED BY <1>1, <1>2, <2>1, <2>2, OneEmit, AddsOne
<1> QED BY <1>1, <1>3, <1>4, <1>5, <1>6, <1>7, StartWrites DEF HookStep

LEMMA DenseKept ==
  ASSUME HookRight, Dense, HookStep
  PROVE  Dense'
<1>1. /\ ~panicked /\ (Starts \/ Adds) /\ globalSequence \in Nat
      /\ events \in Seq(EmesEvent) /\ Len(events) \in Nat
  BY HookWrites, WidthAssumption DEF HookRight, StreamRight, U64
<1>2. CASE panicked' = TRUE \/ (events' = events /\ globalSequence' = globalSequence)
  BY <1>1, <1>2 DEF Dense
<1>3. ASSUME NEW x \in EmesEvent, events' = <<x>>, x.sequence = globalSequence,
             globalSequence' = globalSequence + 1
      PROVE  Dense'
  <2>1. Len(events') = 1 /\ events'[1] = x
    BY <1>3
  <2> QED BY <1>1, <1>3, <2>1 DEF Dense
<1>4. ASSUME NEW x \in EmesEvent, events' = Append(events, x), x.sequence = globalSequence,
             globalSequence' = globalSequence + 1
      PROVE  Dense'
  <2>1. /\ Len(events') = Len(events) + 1 /\ events'[Len(events) + 1] = x
        /\ \A i \in 1..Len(events) : events'[i] = events[i]
    BY <1>1, <1>4, Pushed
  <2>2. /\ Len(events) <= globalSequence
        /\ \A i \in 1..Len(events) :
             events[i].sequence = globalSequence - Len(events) + (i - 1)
    BY <1>1 DEF Dense
  <2>3. ASSUME NEW i \in 1..Len(events) + 1
        PROVE  events'[i].sequence = globalSequence' - (Len(events) + 1) + (i - 1)
    <3>1. CASE i = Len(events) + 1
      BY <1>1, <1>4, <2>1, <3>1
    <3>2. CASE i # Len(events) + 1
      <4>1. i \in 1..Len(events)
        BY <1>1, <3>2
      <4> QED BY <1>1, <1>4, <2>1, <2>2, <4>1
    <3> QED BY <3>1, <3>2
  <2> QED BY <1>1, <1>4, <2>1, <2>2, <2>3 DEF Dense
<1> QED BY <1>1, <1>2, <1>3, <1>4 DEF Starts, Adds

-----------------------------------------------------------------------------
(***************************************************************************)
(* ProcessAndSerialize.                                                    *)
(***************************************************************************)

\* The file of the last call that succeeded is there, and what is about to be
\* written is the envelope of this call.
Attempted ==
  /\ step = "idle" /\ outcome = "nil" => fixture.state = "whole" /\ fixture.attempt = attempts
  /\ step \in {"open", "write"} => data.state = "whole" /\ data.attempt = attempts

\* A call that returned nil has written its file (harness.go, every error is
\* returned).
THEOREM NilIsWritten == Spec => []NilMeansWritten
<1>1. Init => Attempted
  BY DEF Init, Attempted
<1>2. Attempted /\ [Next]_vars => Attempted'
  <2> SUFFICES ASSUME Attempted, [Next]_vars PROVE Attempted'
    OBVIOUS
  <2> USE DEF Attempted
  <2>1. CASE Hook
    BY <2>1 DEF Hook, callVars
  <2>2. CASE TakeEvents
    BY <2>2 DEF TakeEvents
  <2>3. CASE ReadGate
    BY <2>3 DEF ReadGate, Continue, Return
  <2>4. CASE Assemble
    BY <2>4 DEF Assemble, Continue
  <2>5. CASE MakeDirectory
    BY <2>5 DEF MakeDirectory, Continue, Return
  <2>6. CASE Encode
    BY <2>6 DEF Encode, Continue
  <2>7. CASE OpenFile
    BY <2>7 DEF OpenFile, Continue, Return
  <2>8. CASE WriteData
    BY <2>8 DEF WriteData, Return
  <2>9. CASE Crash
    BY <2>9 DEF Crash, Return
  <2>10. CASE UNCHANGED vars
    BY <2>10 DEF vars, callVars
  <2> QED BY <2>1, <2>2, <2>3, <2>4, <2>5, <2>6, <2>7, <2>8, <2>9, <2>10 DEF Next, Ended
<1>3. Attempted => NilMeansWritten
  BY DEF Attempted, NilMeansWritten
<1> QED BY <1>1, <1>2, <1>3, PTL DEF Spec

-----------------------------------------------------------------------------
(***************************************************************************)
(* What the file holds.  The tracer may write a later block into the slice *)
(* at any time.  It begins with the first element, whose number is then    *)
(* not 0 and never 0 again: while it is, the slice is as it was taken.     *)
(***************************************************************************)

Intact == Len(stream) > 0 /\ stream[1].sequence = 0

Committed(s) == Len(s) > 0 /\ s[Len(s)].type = "BlockCommit"

\* What is true of the slice and of the tracer from Events() on.
InHand ==
  /\ Len(stream) = Len(taken)
  /\ undisturbed => /\ stream = taken /\ Len(taken) <= Len(events)
                    /\ \A i \in 1..Len(taken) : events[i] = taken[i]
  /\ undisturbed /\ Committed(taken) =>
       /\ where = "end" /\ ~panicked /\ shared /\ Len(events) = Len(taken)
       /\ diagnosable <=> ~BalancedCalls(calls)
  /\ ~undisturbed /\ Len(taken) > 0 /\ ~panicked => globalSequence > Len(events)
  /\ \A i \in 1..Len(taken) : stream[i] = taken[i] \/ stream[i].sequence # i - 1
  /\ Intact => stream = taken
  /\ ~undisturbed /\ Intact /\ Committed(taken) => panicked /\ DOMAIN errorLog # {}

\* The gate has not begun, or has read up to position and found nothing.
Scanning ==
  \/ /\ verdict = "pending" /\ position = 0
     /\ prevSeq = 0 /\ seqInitialized = FALSE /\ txOpen = FALSE
     /\ gateFrames = << >> /\ rootFrameCount = 0 /\ rootFrameReverted = FALSE
  \/ /\ verdict = "running" /\ position \in 0..Len(stream)
     /\ Encapsulated(stream)
     /\ GateKnows(stream, position, U64)
     /\ \A i \in 1..position : RulesAt(stream, i)

Verified == {"assemble", "directory", "encode", "open", "write"}

\* What the gate knows, and then the envelope holds, of a slice left as it was.
Judged ==
  /\ step = "gate" => verdict = "pending" \/ Len(taken) > 0
  /\ step = "gate" /\ (undisturbed \/ Intact) => Scanning
  /\ step \in Verified => /\ Len(taken) > 0
                          /\ undisturbed => Intact
                          /\ Intact => WellFormed(taken)
  /\ step \in Verified \ {"assemble"} => /\ Intact /\ diagnosable => DOMAIN errors # {}
                                         /\ undisturbed => errors = errorLog

\* The encoder has read up to position.
Encoding ==
  /\ data.events \in Seq(EmesEvent)
  /\ Len(data.events) = position /\ position <= Len(taken)
  /\ \A i \in 1..position : data.events[i] = taken[i] \/ data.events[i].sequence # i - 1
  /\ position > 0 /\ data.events[1].sequence = 0 =>
       WellFormed(taken) /\ (diagnosable => DOMAIN errors # {})
  /\ undisturbed => \A i \in 1..position : data.events[i] = taken[i]

\* What the envelope says of itself.
Good(d) ==
  /\ d.undisturbed => /\ Numbered(d.events) /\ WellFormed(d.events)
                      /\ d.errors # << >> => d.diagnosable
  /\ Numbered(d.events) => /\ d.events = d.taken /\ WellFormed(d.events)
                           /\ d.diagnosable => d.errors # << >>

SlicesTyped ==
  /\ capacity \in Nat \ {0}
  /\ stream \in Seq(EmesEvent) /\ taken \in Seq(EmesEvent)

\* The inductive invariant of the call, next to that of the hooks.
CallRight ==
  /\ Dense /\ SlicesTyped /\ InHand /\ Judged
  /\ step \in {"idle", "gate"} \cup Verified
  /\ step \in {"idle", "assemble", "directory"} => position = 0
  /\ step \in {"idle", "gate", "assemble", "directory"} => data = NoData
  /\ step = "encode" => Encoding
  /\ step \in {"open", "write"} => Good(data)
  /\ fixture.state = "whole" => Good(fixture)

-----------------------------------------------------------------------------
(***************************************************************************)
(* A hook next to the call.                                                *)
(***************************************************************************)

LEMMA Lengths ==
  ASSUME HookRight, SlicesTyped
  PROVE  /\ Len(events) \in Nat /\ Len(stream) \in Nat /\ Len(taken) \in Nat
         /\ globalSequence \in Nat
         /\ \A i \in 1..Len(events) : events[i] \in EmesEvent
         /\ \A i \in 1..Len(stream) : stream[i] \in EmesEvent
         /\ \A i \in 1..Len(taken) : taken[i] \in EmesEvent
         /\ DOMAIN events = 1..Len(events) /\ DOMAIN stream = 1..Len(stream)
         /\ DOMAIN taken = 1..Len(taken)
<1>1. /\ events \in Seq(EmesEvent) /\ stream \in Seq(EmesEvent) /\ taken \in Seq(EmesEvent)
      /\ globalSequence \in U64
  BY DEF HookRight, StreamRight, SlicesTyped
<1> QED BY <1>1, WidthAssumption DEF U64

\* A later block's events are numbered beyond their places.
LEMMA LaterNumbers ==
  ASSUME HookRight, Dense, SlicesTyped, InHand, Hook, ~undisturbed', Len(taken) > 0
  PROVE  /\ \A i \in 1..Len(events') : events'[i].sequence # i - 1
         /\ ~panicked' => globalSequence' > Len(events')
<1>1. /\ ~panicked /\ (Starts \/ Adds) /\ undisturbed' = (undisturbed /\ blocks' = blocks)
  BY HookWrites DEF Hook
<1>2. /\ Len(events) \in Nat /\ Len(taken) \in Nat /\ globalSequence \in Nat
      /\ events \in Seq(EmesEvent)
  BY Lengths DEF HookRight, StreamRight
<1>3. /\ Len(events) <= globalSequence
      /\ \A i \in 1..Len(events) :
           events[i].sequence = globalSequence - Len(events) + (i - 1)
  BY <1>1 DEF Dense
<1>4. globalSequence > 0
  BY <1>1, <1>2, <1>3 DEF InHand
<1>5. CASE Starts
  <2>1. CASE events' = << >> /\ panicked' = TRUE
    BY <2>1
  <2>2. ASSUME NEW x \in EmesEvent, events' = <<x>>, x.sequence = globalSequence,
               globalSequence' = globalSequence + 1
        PROVE  /\ \A i \in 1..Len(events') : events'[i].sequence # i - 1
               /\ globalSequence' > Len(events')
    <3>1. Len(events') = 1 /\ events'[1] = x
      BY <2>2
    <3> QED BY <1>2, <1>4, <2>2, <3>1
  <2> QED BY <1>5, <2>1, <2>2 DEF Starts
<1>6. CASE Adds
  <2>1. ~undisturbed /\ globalSequence > Len(events)
    BY <1>1, <1>6 DEF Adds, InHand
  <2>2. \A i \in 1..Len(events) : events[i].sequence # i - 1
    BY <1>2, <1>3, <2>1
  <2>3. CASE events' = events /\ (panicked' = TRUE \/ globalSequence' = globalSequence)
    BY <2>1, <2>2, <2>3
  <2>4. ASSUME NEW x \in EmesEvent, events' = Append(events, x), x.sequence = globalSequence,
               globalSequence' = globalSequence + 1
        PROVE  /\ \A i \in 1..Len(events') : events'[i].sequence # i - 1
               /\ globalSequence' > Len(events')
    <3>1. /\ Len(events') = Len(events) + 1 /\ events'[Len(events) + 1] = x
          /\ \A i \in 1..Len(events) : events'[i] = events[i]
      BY <1>2, <2>4, Pushed
    <3>2. ASSUME NEW i \in 1..Len(events) + 1
          PROVE  events'[i].sequence # i - 1
      <4>1. CASE i = Len(events) + 1
        BY <1>2, <2>1, <2>4, <3>1, <4>1
      <4>2. CASE i # Len(events) + 1
        <5>1. i \in 1..Len(events)
          BY <1>2, <4>2
        <5> QED BY <2>2, <3>1, <5>1
      <4> QED BY <4>1, <4>2
    <3> QED BY <1>2, <2>1, <2>4, <3>1, <3>2
  <2> QED BY <1>6, <2>3, <2>4 DEF Adds
<1> QED BY <1>1, <1>5, <1>6

\* Until a block starts, the slice and the events taken stay where they are.
LEMMA SliceKept ==
  ASSUME HookRight, SlicesTyped, InHand, Hook, undisturbed'
  PROVE  /\ undisturbed /\ Adds /\ stream' = stream
         /\ Len(taken) <= Len(events') /\ \A i \in 1..Len(taken) : events'[i] = taken[i]
<1>1. undisturbed /\ blocks' = blocks /\ (Starts \/ Adds)
  BY HookWrites DEF Hook
<1>2. Adds
  BY <1>1 DEF Starts
<1>3. /\ stream = taken /\ Len(taken) <= Len(events)
      /\ \A i \in 1..Len(taken) : events[i] = taken[i]
  BY <1>1 DEF InHand
<1>4. /\ Len(events) \in Nat /\ Len(taken) \in Nat /\ DOMAIN stream = 1..Len(stream)
      /\ events \in Seq(EmesEvent) /\ stream \in Seq(EmesEvent)
  BY Lengths DEF HookRight, StreamRight, SlicesTyped
<1>5. Len(events) <= Len(events') /\ \A i \in 1..Len(events) : events'[i] = events[i]
      /\ Len(events') \in Nat
  <2>1. CASE events' = events
    BY <1>4, <2>1
  <2>2. ASSUME NEW x \in EmesEvent, events' = Append(events, x)
        PROVE  /\ Len(events') = Len(events) + 1
               /\ \A i \in 1..Len(events) : events'[i] = events[i]
    BY <1>4, <2>2, Pushed
  <2> QED BY <1>2, <1>4, <2>1, <2>2 DEF Adds
<1>6. Len(taken) <= Len(events') /\ \A i \in 1..Len(taken) : events'[i] = taken[i]
  BY <1>3, <1>4, <1>5
<1>7. stream' = stream
  <2>1. stream' = stream \/ stream' = Overwritten(stream, events')
    BY DEF Hook
  <2>2. Overwritten(stream, events') = stream
    <3>1. Overwritten(stream, events') = [i \in 1..Len(stream) |-> stream[i]]
      BY <1>3, <1>4, <1>5, <1>6 DEF Overwritten
    <3> QED BY <1>4, <3>1
  <2> QED BY <2>1, <2>2
<1> QED BY <1>1, <1>2, <1>6, <1>7

\* Once one has started, what is left of the slice shows it.
LEMMA SliceShows ==
  ASSUME HookRight, HookRight', Dense, SlicesTyped, InHand, Hook, ~undisturbed'
  PROVE  /\ stream' \in Seq(EmesEvent) /\ Len(stream') = Len(stream)
         /\ \A i \in 1..Len(stream) : stream'[i] = stream[i] \/ stream'[i].sequence # i - 1
         /\ Intact' => stream' = stream
<1>1. /\ Len(stream) \in Nat /\ DOMAIN stream = 1..Len(stream) /\ stream \in Seq(EmesEvent)
      /\ Len(taken) = Len(stream) /\ \A i \in 1..Len(stream) : stream[i] \in EmesEvent
  <2>1. stream \in Seq(EmesEvent) /\ Len(taken) = Len(stream)
    BY DEF SlicesTyped, InHand
  <2> QED BY <2>1, Lengths
<1>2. CASE stream' = stream
  BY <1>1, <1>2
<1>3. CASE stream' = Overwritten(stream, events')
  <2>1. events' \in Seq(EmesEvent)
    BY DEF HookRight, StreamRight
  <2>2. Len(events') \in Nat /\ \A i \in 1..Len(events') : events'[i] \in EmesEvent
    BY <2>1
  <2>3. \A i \in 1..Len(stream) :
          stream'[i] = IF i <= Len(events') THEN events'[i] ELSE stream[i]
    BY <1>1, <1>3 DEF Overwritten
  <2>4. stream' \in [1..Len(stream) -> EmesEvent]
    <3>1. \A i \in 1..Len(stream) :
            (IF i <= Len(events') THEN events'[i] ELSE stream[i]) \in EmesEvent
      BY <1>1, <2>2
    <3> QED BY <1>1, <1>3, <3>1 DEF Overwritten
  <2>5. stream' \in Seq(EmesEvent) /\ Len(stream') = Len(stream)
    BY <1>1, <2>4
  <2>6. Len(stream) > 0 => \A i \in 1..Len(events') : events'[i].sequence # i - 1
    BY <1>1, LaterNumbers
  <2>7. \A i \in 1..Len(stream) : stream'[i] = stream[i] \/ stream'[i].sequence # i - 1
    BY <1>1, <2>2, <2>3, <2>6
  <2>8. ASSUME Intact'
        PROVE  stream' = stream
    <3>1. Len(stream) > 0 /\ stream'[1].sequence = 0
      BY <2>5, <2>8 DEF Intact
    <3>2. Len(events') = 0
      <4>1. CASE Len(events') > 0
        <5>1. stream'[1] = events'[1] /\ events'[1].sequence # 0
          BY <1>1, <2>2, <2>3, <2>6, <3>1, <4>1
        <5> QED BY <3>1, <5>1
      <4> QED BY <2>2, <4>1
    <3>3. \A i \in 1..Len(stream) : stream'[i] = stream[i]
      BY <1>1, <2>3, <3>2
    <3> QED BY <1>1, <2>4, <3>3
  <2> QED BY <2>5, <2>7, <2>8
<1> QED BY <1>2, <1>3 DEF Hook

LEMMA HookInHand ==
  ASSUME HookRight, HookRight', Dense, Dense', SlicesTyped, InHand, Hook
  PROVE  /\ SlicesTyped' /\ InHand'
         /\ undisturbed' => undisturbed /\ Adds
         /\ undisturbed' \/ Intact' => stream' = stream
<1>1. /\ taken' = taken /\ diagnosable' = diagnosable
      /\ capacity' = Grown(capacity, Len(events'))
      /\ shared' = (shared /\ capacity' = capacity)
      /\ stream' = IF shared' THEN Overwritten(stream, events') ELSE stream
      /\ undisturbed' = (undisturbed /\ blocks' = blocks)
      /\ ~panicked /\ (Starts \/ Adds)
  BY HookWrites DEF Hook, callVars
<1>2. /\ Len(stream) \in Nat /\ Len(taken) \in Nat /\ globalSequence \in Nat
      /\ Len(events) \in Nat /\ Len(stream) = Len(taken) /\ stream \in Seq(EmesEvent)
      /\ DOMAIN stream = 1..Len(stream)
  <2>1. stream \in Seq(EmesEvent) /\ Len(stream) = Len(taken)
    BY DEF SlicesTyped, InHand
  <2> QED BY <2>1, Lengths
<1>3. capacity' \in Nat \ {0}
  <2>1. events' \in Seq(EmesEvent)
    BY DEF HookRight, StreamRight
  <2>2. Len(events') \in Nat /\ capacity \in Nat \ {0}
    BY <2>1 DEF SlicesTyped
  <2> QED BY <1>1, <2>2 DEF Grown
<1>4. CASE undisturbed'
  <2>1. /\ undisturbed /\ Adds /\ stream' = stream
        /\ Len(taken) <= Len(events') /\ \A i \in 1..Len(taken) : events'[i] = taken[i]
    BY <1>4, SliceKept
  <2>2. stream = taken
    BY <2>1 DEF InHand
  <2>3. ~Committed(taken)
    BY <2>1 DEF InHand, Adds
  <2>4. InHand'
    BY <1>1, <1>2, <1>4, <2>1, <2>2, <2>3 DEF InHand, Intact, Committed
  <2> QED BY <1>1, <1>3, <2>1, <2>4 DEF SlicesTyped
<1>5. CASE ~undisturbed'
  <2>1. /\ stream' \in Seq(EmesEvent) /\ Len(stream') = Len(stream)
        /\ \A i \in 1..Len(stream) : stream'[i] = stream[i] \/ stream'[i].sequence # i - 1
        /\ Intact' => stream' = stream
    BY <1>5, SliceShows
  <2>2. Intact' => Intact
    BY <2>1 DEF Intact
  <2>3. \A i \in 1..Len(taken) : stream'[i] = taken[i] \/ stream'[i].sequence # i - 1
    <3>1. \A i \in 1..Len(taken) : stream[i] = taken[i] \/ stream[i].sequence # i - 1
      BY DEF InHand
    <3> QED BY <1>2, <2>1, <3>1
  <2>4. Intact' => stream' = taken
    BY <2>1, <2>2 DEF InHand
  <2>5. Len(taken) > 0 /\ ~panicked' => globalSequence' > Len(events')
    BY <1>5, LaterNumbers
  <2>6. ASSUME Intact', Committed(taken)
        PROVE  panicked' /\ DOMAIN errorLog' # {}
    <3>1. undisturbed
      BY <1>1, <2>2, <2>6 DEF InHand
    <3>2. shared /\ Len(taken) > 0
      BY <2>6, <3>1 DEF InHand, Committed
    <3>3. Starts
      BY <1>1, <1>5, <3>1 DEF Adds
    <3>4. ASSUME NEW x \in EmesEvent, events' = <<x>>
          PROVE  FALSE
      <4>1. Len(events') = 1 /\ events'[1] = x
        BY <3>4
      <4>2. capacity' = capacity
        BY <1>1, <4>1 DEF Grown, SlicesTyped
      <4>3. stream' = Overwritten(stream, events')
        BY <1>1, <3>2, <4>2
      <4>4. 1 \in DOMAIN stream
        BY <1>2, <3>2
      <4>5. stream'[1] = x
        BY <4>1, <4>3, <4>4 DEF Overwritten
      <4>6. x.sequence # 0
        BY <1>5, <3>2, <4>1, LaterNumbers
      <4> QED BY <2>6, <4>5, <4>6 DEF Intact
    <3> QED BY <3>3, <3>4 DEF Starts
  <2>7. InHand'
    BY <1>1, <1>2, <1>5, <2>1, <2>3, <2>4, <2>5, <2>6 DEF InHand, Committed
  <2> QED BY <1>1, <1>3, <1>5, <2>1, <2>7 DEF SlicesTyped
<1> QED BY <1>4, <1>5

LEMMA CommittedIs ==
  ASSUME NEW s, WellFormed(s)
  PROVE  Committed(s) /\ Len(s) > 0 /\ s[1].sequence = 0
  BY DEF WellFormed, Committed

LEMMA HookAlongside ==
  ASSUME HookRight, HookRight', CallRight, Hook
  PROVE  CallRight'
<1>1. /\ UNCHANGED <<step, position, data, fixture, taken, diagnosable, gateVars>> /\ HookStep
      /\ Dense /\ SlicesTyped /\ InHand /\ Judged
  BY DEF Hook, callVars, CallRight
<1>2. Dense'
  BY <1>1, DenseKept
<1>3. /\ SlicesTyped' /\ InHand'
      /\ undisturbed' => undisturbed /\ Adds
      /\ undisturbed' \/ Intact' => stream' = stream
  BY <1>1, <1>2, HookInHand
<1>4. DOMAIN errors' = DOMAIN errors /\ (Intact' => Intact)
  BY <1>3 DEF Hook, Overwritten, Intact
<1>5. step = "gate" /\ (undisturbed' \/ Intact') => Scanning'
  <2> SUFFICES ASSUME step = "gate", undisturbed' \/ Intact' PROVE Scanning'
    OBVIOUS
  <2>1. Scanning /\ stream' = stream
    BY <1>1, <1>3, <1>4 DEF Judged
  <2> QED BY <1>1, <2>1 DEF Scanning, gateVars, gateScan, Encapsulated, GateKnows
<1>6. ASSUME step \in Verified
      PROVE  ~undisturbed'
  <2> SUFFICES ASSUME undisturbed' PROVE FALSE
    OBVIOUS
  <2>1. Committed(taken) /\ undisturbed /\ Adds
    BY <1>1, <1>3, <1>6, CommittedIs DEF Judged
  <2> QED BY <1>1, <2>1 DEF InHand, Adds
<1>7. Judged'
  BY <1>1, <1>4, <1>5, <1>6 DEF Judged, gateVars
<1>8. step = "encode" => Encoding'
  BY <1>1, <1>4, <1>6 DEF CallRight, Encoding, Verified
<1> QED BY <1>1, <1>2, <1>3, <1>7, <1>8 DEF CallRight

-----------------------------------------------------------------------------
(***************************************************************************)
(* The steps of the call.                                                  *)
(***************************************************************************)

\* The call returns, and the file is as before, partial or what was encoded.
LEMMA Returns ==
  ASSUME CallRight, NEW r, Return(r), HookRight', Dense', capacity' \in Nat \ {0},
         \/ fixture' = fixture
         \/ fixture' = data /\ step \in {"open", "write"}
  PROVE  CallRight'
<1>1. /\ step' = "idle" /\ position' = 0 /\ data' = NoData
      /\ stream' = << >> /\ taken' = << >>
  BY DEF Return
<1>2. SlicesTyped' /\ Len(taken') = 0 /\ Len(stream') = 0
  BY <1>1 DEF SlicesTyped
<1>3. Len(events') \in Nat
  <2>1. events' \in Seq(EmesEvent)
    BY DEF HookRight, StreamRight
  <2> QED BY <2>1
<1>4. InHand'
  BY <1>1, <1>2, <1>3 DEF InHand, Intact, Committed
<1>5. Judged'
  BY <1>1 DEF Judged, Verified
<1>6. fixture'.state = "whole" => Good(fixture')
  BY DEF CallRight
<1> QED BY <1>1, <1>2, <1>4, <1>5, <1>6 DEF CallRight

\* The tracer is where it was.
LEMMA TracerStays ==
  ASSUME HookRight, CallRight, UNCHANGED <<hookVars, capacity>>
  PROVE  HookRight' /\ Dense' /\ capacity' \in Nat \ {0}
  BY DEF hookVars, tracerVars, HookRight, StreamRight, StackRight, CallRight, Dense, SlicesTyped

\* A step that goes on leaves the slice and what was taken.
LEMMA GoesOn ==
  ASSUME HookRight, CallRight, UNCHANGED <<hookVars, capacity>>, NEW next, Continue(next),
         stream' = stream
  PROVE  /\ step' = next /\ Dense' /\ SlicesTyped' /\ InHand'
         /\ UNCHANGED <<undisturbed, taken, diagnosable, errorLog>> /\ (Intact' <=> Intact)
<1>1. /\ step' = next /\ UNCHANGED <<undisturbed, taken, diagnosable, shared>>
  BY DEF Continue
<1>2. Dense' /\ SlicesTyped'
  BY <1>1, TracerStays DEF CallRight, SlicesTyped
<1> QED BY <1>1, <1>2 DEF CallRight, InHand, Intact, hookVars, tracerVars

LEMMA TakeRight ==
  ASSUME HookRight, CallRight, TakeEvents
  PROVE  CallRight'
<1>1. /\ step' = "gate" /\ stream' = events /\ taken' = events /\ shared' = TRUE
      /\ undisturbed' = TRUE /\ (diagnosable' <=> ~BalancedCalls(calls)) /\ GateReset
      /\ UNCHANGED <<hookVars, capacity, position, data, fixture>> /\ step = "idle"
  BY DEF TakeEvents, Alongside
<1>2. /\ UNCHANGED <<events, where, panicked, calls, globalSequence>>
      /\ events \in Seq(EmesEvent) /\ Len(events) \in Nat
      /\ \A i \in 1..Len(events) : events[i] = events'[i]
  BY <1>1 DEF hookVars, tracerVars, HookRight, StreamRight
<1>3. Dense' /\ SlicesTyped'
  BY <1>1, <1>2, TracerStays DEF CallRight, SlicesTyped
<1>4. Committed(events) => where = "end" /\ ~panicked
  <2> SUFFICES ASSUME Committed(events) PROVE where = "end" /\ ~panicked
    OBVIOUS
  <2>1. ~NoCommit(events)
    BY <1>2 DEF Committed, NoCommit
  <2> QED BY <2>1 DEF HookRight, StreamRight
<1>5. Committed(taken') => Committed(events)
  BY <1>1
<1>6. InHand'
  BY <1>1, <1>2, <1>4, <1>5 DEF InHand
<1>7. Scanning' /\ verdict' = "pending"
  BY <1>1 DEF CallRight, Scanning, GateReset
<1>8. Judged'
  BY <1>1, <1>7 DEF Judged, Verified
<1> QED BY <1>1, <1>3, <1>6, <1>8 DEF CallRight, Verified

\* One event is read: the gate goes on to know the stream, or rejects it.
LEMMA GateStepRight ==
  ASSUME SlicesTyped, Scanning, step = "gate", ReadGate, step' # "idle"
  PROVE  \/ step' = "gate" /\ Scanning'
         \/ step' = "assemble" /\ WellFormed(stream)
<1>1. /\ Scanning /\ stream' = stream /\ stream \in Seq(EmesEvent)
  BY DEF SlicesTyped, ReadGate, Continue, Return
<1>2. Len(stream) \in Nat /\ \A i \in 1..Len(stream) : stream[i] \in EmesEvent
  <2>1. stream \in Seq(EmesEvent)
    BY <1>1
  <2> QED BY <2>1
<1>3. CASE GateBegin(stream)
  <2>1. /\ verdict = "pending" /\ verdict' \in Rule \cup {"running"}
        /\ verdict' = "running" => Encapsulated(stream) /\ UNCHANGED gateScan
    BY <1>3 DEF GateBegin, Reject, Rule
  <2>2. verdict' = "running" /\ step' = "gate"
    BY <2>1 DEF ReadGate, Continue, Return, Rule
  <2>3. position' = position /\ position = 0
    <3>1. position' = position
      BY <2>1, <2>2 DEF ReadGate, GateRead, GateEnd
    <3> QED BY <1>1, <2>1, <3>1 DEF Scanning
  <2>4. GateKnows(stream, 0, U64)'
    <3>1. /\ prevSeq' = 0 /\ seqInitialized' = FALSE /\ txOpen' = FALSE
          /\ gateFrames' = << >> /\ rootFrameCount' = 0 /\ rootFrameReverted' = FALSE
      BY <1>1, <2>1, <2>2 DEF Scanning, gateScan
    <3>2. Knows(stream', 0, U64, FALSE, 0, FALSE, << >>, 0, FALSE)
      BY KnowsAtStart
    <3> QED BY <3>1, <3>2 DEF GateKnows
  <2>5. Encapsulated(stream)' /\ 0 \in 0..Len(stream') /\ \A i \in 1..0 : RulesAt(stream', i)
    BY <1>1, <1>2, <2>1, <2>2 DEF Encapsulated
  <2> QED BY <2>2, <2>3, <2>4, <2>5 DEF Scanning
<1>4. CASE verdict = "running" /\ position < Len(stream)
           /\ GateRead(stream[position + 1], position + 1, Len(stream))
           /\ (verdict' = "running" => position' = position + 1)
  <2>1. /\ position \in Nat /\ Encapsulated(stream) /\ GateKnows(stream, position, U64)
        /\ \A i \in 1..position : RulesAt(stream, i)
        /\ position + 1 \in 1..Len(stream)
    BY <1>1, <1>2, <1>4 DEF Scanning
  <2>2. stream[position + 1].type = "FrameEnter" => stream[position + 1].frameID \in U64
    <3>1. stream[position + 1] \in EmesEvent
      BY <1>2, <2>1
    <3> QED BY <3>1 DEF EmesEvent
  <2>3. RightlyJudged(stream, position, U64)
    BY <1>4, <2>1, <2>2, GateJudgesRightly
  <2>4. verdict' = "running" /\ step' = "gate"
    BY <2>3 DEF RightlyJudged, ReadGate, Continue, Return, Rule
  <2>5. position' = position + 1
    BY <1>4, <2>4
  <2>6. /\ RulesAt(stream, position + 1)
        /\ Knows(stream, position + 1, U64, seqInitialized', prevSeq', txOpen', gateFrames',
                 rootFrameCount', rootFrameReverted')
    BY <2>3, <2>4 DEF RightlyJudged
  <2>7. GateKnows(stream, position, U64)'
    BY <1>1, <2>5, <2>6 DEF GateKnows
  <2>8. \A i \in 1..position' : RulesAt(stream', i)
    <3>1. \A i \in 1..position + 1 : i \in 1..position \/ i = position + 1
      BY <2>1
    <3> QED BY <1>1, <2>1, <2>5, <2>6, <3>1
  <2>9. Encapsulated(stream)' /\ position' \in 0..Len(stream')
    BY <1>1, <1>2, <2>1, <2>5 DEF Encapsulated
  <2> QED BY <2>4, <2>7, <2>8, <2>9 DEF Scanning
<1>5. CASE verdict = "running" /\ position = Len(stream) /\ GateEnd
  <2>1. /\ Encapsulated(stream) /\ GateKnows(stream, position, U64)
        /\ \A i \in 1..Len(stream) : RulesAt(stream, i)
    BY <1>1, <1>5 DEF Scanning
  <2>2. verdict' = "ok" /\ ~txOpen
    BY <1>5 DEF GateEnd, ReadGate, Continue, Return
  <2>3. step' = "assemble"
    BY <2>2 DEF ReadGate, Continue, Rule
  <2>4. TxDepth(stream, Len(stream)) = 0
    BY <1>5, <2>1, <2>2 DEF GateKnows, Knows, Scanned
  <2>5. stream # << >> => Len(stream) > 0
    <3>1. stream \in Seq(EmesEvent)
      BY <1>1
    <3> QED BY <3>1
  <2>6. WellFormed(stream)
    BY <1>2, <2>1, <2>4, <2>5, UnbrokenIsWellFormed
  <2> QED BY <2>3, <2>6
<1> QED BY <1>3, <1>4, <1>5 DEF ReadGate, GateRead, GateEnd

\* No more is accepted of an empty slice than of one without a commit.
LEMMA NotEmpty ==
  ASSUME ReadGate, step' # "idle"
  PROVE  verdict = "running" \/ Encapsulated(stream)
<1>1. verdict' \notin Rule
  BY DEF ReadGate, Continue, Return, Rule
<1> QED BY <1>1 DEF ReadGate, GateBegin, GateRead, GateEnd, Reject, Rule

LEMMA GateRight ==
  ASSUME HookRight, CallRight, ReadGate
  PROVE  CallRight'
<1>1. step = "gate" /\ UNCHANGED <<hookVars, capacity, fixture>>
  BY DEF ReadGate, Alongside
<1>2. CASE Return("error")
  BY <1>1, <1>2, TracerStays, Returns
<1>3. ASSUME NEW next \in {"gate", "assemble"}, Continue(next), UNCHANGED <<stream, data>>,
             next = "gate" => verdict' = "running",
             next = "assemble" => position' = 0
      PROVE  CallRight'
  <2>1. /\ step' = next /\ step' # "idle" /\ Dense' /\ SlicesTyped' /\ InHand'
        /\ UNCHANGED <<undisturbed, taken>> /\ (Intact' <=> Intact)
    BY <1>1, <1>3, GoesOn
  <2>2. /\ SlicesTyped /\ InHand /\ Judged /\ data = NoData
    BY <1>1 DEF CallRight
  <2>3. Len(taken) > 0
    <3>1. stream \in Seq(EmesEvent) /\ Len(stream) = Len(taken)
      BY <2>2 DEF SlicesTyped, InHand
    <3>2. CASE verdict = "running"
      BY <1>1, <2>2, <3>2 DEF Judged
    <3>3. CASE Encapsulated(stream)
      <4>1. stream # << >>
        BY <3>3 DEF Encapsulated
      <4> QED BY <3>1, <4>1
    <3> QED BY <2>1, <3>2, <3>3, NotEmpty
  <2>4. ASSUME undisturbed \/ Intact
        PROVE  \/ step' = "gate" /\ Scanning'
               \/ step' = "assemble" /\ WellFormed(taken)
    <3>1. Scanning /\ stream = taken
      BY <1>1, <2>2, <2>4 DEF Judged, InHand
    <3> QED BY <1>1, <2>1, <2>2, <3>1, GateStepRight
  <2>5. step' = "assemble" /\ undisturbed => Intact
    <3> SUFFICES ASSUME step' = "assemble", undisturbed PROVE Intact
      OBVIOUS
    <3>1. WellFormed(taken) /\ stream = taken
      BY <2>2, <2>4 DEF InHand
    <3> QED BY <3>1, CommittedIs DEF Intact
  <2>6. Judged'
    BY <1>3, <2>1, <2>3, <2>4, <2>5 DEF Judged, Verified
  <2>7. CallRight'
    BY <1>1, <1>3, <2>1, <2>2, <2>6 DEF CallRight, Verified
  <2> QED BY <2>7
<1>4. \/ Return("error")
      \/ verdict' = "running" /\ Continue("gate") /\ UNCHANGED <<stream, data>>
      \/ Continue("assemble") /\ position' = 0 /\ UNCHANGED <<stream, data>>
  BY DEF ReadGate
<1> QED BY <1>2, <1>3, <1>4

\* The diagnostics that are fetched now are those of the block, or a panic's.
LEMMA LogDiagnoses ==
  ASSUME HookRight, InHand, Intact, Committed(taken)
  PROVE  diagnosable => DOMAIN errorLog # {}
<1>1. CASE undisturbed
  <2>1. ~panicked /\ (diagnosable => ~BalancedCalls(calls))
    BY <1>1 DEF InHand
  <2>2. errorLog \in Seq(LogEntry) /\ (errorLog = << >> <=> BalancedCalls(calls))
    BY <2>1 DEF HookRight, StackRight
  <2>3. errorLog # << >> => DOMAIN errorLog # {}
    BY <2>2
  <2> QED BY <2>1, <2>2, <2>3
<1>2. CASE ~undisturbed
  <2>1. DOMAIN errorLog # {}
    BY <1>2 DEF InHand
  <2> QED BY <2>1
<1> QED BY <1>1, <1>2

LEMMA AssembleRight ==
  ASSUME HookRight, CallRight, Assemble
  PROVE  CallRight'
<1>1. /\ step = "assemble" /\ Continue("directory") /\ errors' = errorLog
      /\ UNCHANGED <<hookVars, capacity, stream, data, position, fixture>>
  BY DEF Assemble, Alongside
<1>2. /\ step' = "directory" /\ Dense' /\ SlicesTyped' /\ InHand'
      /\ UNCHANGED <<undisturbed, taken, diagnosable, errorLog>> /\ (Intact' <=> Intact)
  BY <1>1, GoesOn
<1>3. InHand /\ Judged /\ position = 0 /\ data = NoData
  BY <1>1 DEF CallRight
<1>4. Intact /\ diagnosable => DOMAIN errorLog # {}
  <2>1. Intact => Committed(taken)
    BY <1>1, <1>3, CommittedIs DEF Judged, Verified
  <2> QED BY <1>3, <2>1, LogDiagnoses
<1>5. Judged'
  BY <1>1, <1>2, <1>3, <1>4 DEF Judged, Verified
<1> QED BY <1>1, <1>2, <1>3, <1>5 DEF CallRight, Verified

LEMMA DirectoryRight ==
  ASSUME HookRight, CallRight, MakeDirectory
  PROVE  CallRight'
<1>1. step = "directory" /\ UNCHANGED <<hookVars, capacity, fixture>>
  BY DEF MakeDirectory, Alongside
<1>2. CASE Return("error")
  BY <1>1, <1>2, TracerStays, Returns
<1>3. CASE Continue("encode") /\ UNCHANGED <<stream, errors, position, data>>
  <2>1. /\ step' = "encode" /\ Dense' /\ SlicesTyped' /\ InHand'
        /\ UNCHANGED <<undisturbed, taken, diagnosable, errorLog>> /\ (Intact' <=> Intact)
    BY <1>1, <1>3, GoesOn
  <2>2. InHand /\ Judged /\ SlicesTyped /\ position = 0 /\ data = NoData
    BY <1>1 DEF CallRight
  <2>3. Judged'
    BY <1>1, <1>3, <2>1, <2>2 DEF Judged, Verified
  <2>4. Encoding'
    <3>1. Len(taken) \in Nat
      BY <2>2 DEF SlicesTyped
    <3>2. data'.events = << >> /\ position' = 0 /\ taken' = taken
      BY <1>3, <2>1, <2>2 DEF NoData
    <3> QED BY <3>1, <3>2 DEF Encoding
  <2> QED BY <1>1, <1>3, <2>1, <2>3, <2>4 DEF CallRight, Verified
<1> QED BY <1>2, <1>3 DEF MakeDirectory

\* One more event is encoded.
LEMMA EncodesOne ==
  ASSUME HookRight, CallRight, Encode, position < Len(stream)
  PROVE  CallRight'
<1> DEFINE x == stream[position + 1]
<1>1. /\ step = "encode" /\ Continue("encode") /\ position' = position + 1
      /\ data' = [NoData EXCEPT !.events = Append(data.events, x)]
      /\ UNCHANGED <<hookVars, capacity, stream, errors, fixture>>
  BY DEF Encode, Alongside
<1>2. /\ step' = "encode" /\ Dense' /\ SlicesTyped' /\ InHand'
      /\ UNCHANGED <<undisturbed, taken, diagnosable, errorLog>> /\ (Intact' <=> Intact)
  BY <1>1, GoesOn
<1>3. InHand /\ Judged /\ Encoding /\ SlicesTyped
  BY <1>1 DEF CallRight
<1>4. /\ data.events \in Seq(EmesEvent) /\ Len(data.events) = position /\ position \in Nat
      /\ Len(stream) = Len(taken) /\ position + 1 \in 1..Len(taken) /\ x \in EmesEvent
      /\ x = taken[position + 1] \/ x.sequence # position
  <2>1. /\ data.events \in Seq(EmesEvent) /\ Len(data.events) = position
        /\ Len(stream) = Len(taken) /\ stream \in Seq(EmesEvent)
    BY <1>3 DEF Encoding, InHand, SlicesTyped
  <2>2. position \in Nat /\ position + 1 \in 1..Len(stream)
    BY <2>1
  <2>3. stream[position + 1] = taken[position + 1]
        \/ stream[position + 1].sequence # position + 1 - 1
    BY <1>3, <2>1, <2>2 DEF InHand
  <2> QED BY <2>1, <2>2, <2>3
<1>5. data'.events = Append(data.events, x)
  BY <1>1 DEF NoData
<1>6. (x.sequence = 0 /\ position = 0 => Intact) /\ (undisturbed => x = taken[position + 1])
  BY <1>3, <1>4 DEF Intact, InHand
<1>7. Intact => WellFormed(taken) /\ (diagnosable => DOMAIN errors # {})
  BY <1>1, <1>3 DEF Judged, Verified
<1> HIDE DEF x
<1>8. /\ data'.events \in Seq(EmesEvent) /\ Len(data'.events) = position + 1
      /\ data'.events[position + 1] = x
      /\ \A i \in 1..position : data'.events[i] = data.events[i]
  BY <1>4, <1>5, Pushed
<1>9. ASSUME NEW i \in 1..position + 1
      PROVE  /\ data'.events[i] = taken[i] \/ data'.events[i].sequence # i - 1
             /\ undisturbed => data'.events[i] = taken[i]
  <2>1. CASE i = position + 1
    BY <1>4, <1>6, <1>8, <2>1
  <2>2. CASE i # position + 1
    <3>1. i \in 1..position
      BY <1>4, <2>2
    <3> QED BY <1>3, <1>8, <3>1 DEF Encoding
  <2> QED BY <2>1, <2>2
<1>10. data'.events[1].sequence = 0 => WellFormed(taken) /\ (diagnosable => DOMAIN errors # {})
  <2>1. CASE position = 0
    BY <1>6, <1>7, <1>8, <2>1
  <2>2. CASE position # 0
    <3>1. position > 0 /\ 1 \in 1..position
      BY <1>4, <2>2
    <3> QED BY <1>3, <1>8, <3>1 DEF Encoding
  <2> QED BY <2>1, <2>2
<1>11. Encoding'
  BY <1>1, <1>2, <1>4, <1>8, <1>9, <1>10 DEF Encoding
<1>12. Judged'
  BY <1>1, <1>2, <1>3 DEF Judged, Verified
<1> QED BY <1>1, <1>2, <1>11, <1>12 DEF CallRight, Verified

\* While no block has started, the events taken are the tracer's, from 0 on.
LEMMA TakenNumbered ==
  ASSUME HookRight, Dense, SlicesTyped, InHand, undisturbed, WellFormed(taken)
  PROVE  Numbered(taken) /\ ~panicked /\ (diagnosable <=> ~BalancedCalls(calls))
<1>1. Committed(taken) /\ Len(taken) > 0 /\ taken[1].sequence = 0
  BY CommittedIs
<1>2. /\ ~panicked /\ Len(events) = Len(taken) /\ (diagnosable <=> ~BalancedCalls(calls))
      /\ \A i \in 1..Len(taken) : events[i] = taken[i]
  BY <1>1 DEF InHand
<1>3. /\ Len(events) \in Nat /\ globalSequence \in Nat /\ DOMAIN taken = 1..Len(taken)
  BY Lengths
<1>4. \A i \in 1..Len(taken) : taken[i].sequence = globalSequence - Len(taken) + (i - 1)
  BY <1>2 DEF Dense
<1>5. globalSequence - Len(taken) = 0
  BY <1>1, <1>2, <1>3, <1>4
<1> QED BY <1>2, <1>3, <1>4, <1>5 DEF Numbered

\* The envelope is complete.
LEMMA EncodesLast ==
  ASSUME HookRight, CallRight, Encode, position = Len(stream), ~(position < Len(stream))
  PROVE  CallRight'
<1>1. /\ step = "encode" /\ Continue("open")
      /\ data'.events = data.events /\ data'.errors = errors /\ data'.taken = taken
      /\ data'.undisturbed = undisturbed /\ data'.diagnosable = diagnosable
      /\ UNCHANGED <<hookVars, capacity, stream, errors, fixture>>
  BY DEF Encode, Alongside
<1>2. /\ step' = "open" /\ Dense' /\ SlicesTyped' /\ InHand'
      /\ UNCHANGED <<undisturbed, taken, diagnosable, errorLog>> /\ (Intact' <=> Intact)
  BY <1>1, GoesOn
<1>3. Dense /\ InHand /\ Judged /\ Encoding /\ SlicesTyped
  BY <1>1 DEF CallRight
<1>4. /\ data.events \in Seq(EmesEvent) /\ taken \in Seq(EmesEvent)
      /\ Len(data.events) = Len(taken) /\ position = Len(taken) /\ Len(taken) > 0
  BY <1>1, <1>3 DEF Encoding, InHand, SlicesTyped, Judged, Verified
<1>5. /\ Len(taken) \in Nat /\ 1 \in 1..Len(taken) /\ DOMAIN data.events = 1..Len(taken)
      /\ (\A i \in 1..Len(taken) : data.events[i] = taken[i]) => data.events = taken
  BY <1>4
<1>6. ASSUME undisturbed
      PROVE  /\ Numbered(data.events) /\ WellFormed(data.events)
             /\ errors # << >> => diagnosable
  <2>1. data.events = taken
    BY <1>3, <1>4, <1>5, <1>6 DEF Encoding
  <2>2. WellFormed(taken) /\ errors = errorLog
    BY <1>1, <1>3, <1>6 DEF Judged, Verified
  <2>3. Numbered(taken) /\ ~panicked /\ (diagnosable <=> ~BalancedCalls(calls))
    BY <1>3, <1>6, <2>2, TakenNumbered
  <2>4. errorLog = << >> <=> BalancedCalls(calls)
    BY <2>3 DEF HookRight, StackRight
  <2> QED BY <2>1, <2>2, <2>3, <2>4
<1>7. ASSUME Numbered(data.events)
      PROVE  /\ data.events = taken /\ WellFormed(data.events)
             /\ diagnosable => errors # << >>
  <2>1. \A i \in 1..Len(taken) : data.events[i].sequence = i - 1
    BY <1>5, <1>7 DEF Numbered
  <2>2. data.events = taken
    BY <1>3, <1>4, <1>5, <2>1 DEF Encoding
  <2>3. data.events[1].sequence = 0
    BY <1>5, <2>1
  <2>4. WellFormed(taken) /\ (diagnosable => DOMAIN errors # {})
    BY <1>3, <1>4, <2>3 DEF Encoding
  <2>5. DOMAIN << >> = {}
    OBVIOUS
  <2> QED BY <2>2, <2>4, <2>5
<1>8. Good(data')
  BY <1>1, <1>6, <1>7 DEF Good
<1>9. Judged'
  BY <1>1, <1>2, <1>3 DEF Judged, Verified
<1> QED BY <1>1, <1>2, <1>8, <1>9 DEF CallRight, Verified

LEMMA EncodeRight ==
  ASSUME HookRight, CallRight, Encode
  PROVE  CallRight'
<1>1. \/ position < Len(stream)
      \/ position = Len(stream) /\ ~(position < Len(stream))
  <2>1. stream \in Seq(EmesEvent)
    BY DEF CallRight, SlicesTyped
  <2> QED BY <2>1 DEF Encode
<1> QED BY <1>1, EncodesOne, EncodesLast

LEMMA OpenRight ==
  ASSUME HookRight, CallRight, OpenFile
  PROVE  CallRight'
<1>1. step = "open" /\ UNCHANGED <<hookVars, capacity>>
  BY DEF OpenFile, Alongside
<1>2. CASE Return("error") /\ UNCHANGED fixture
  BY <1>1, <1>2, TracerStays, Returns
<1>3. CASE Continue("write") /\ fixture' = Partial /\ UNCHANGED <<stream, errors, data>>
  <2>1. /\ step' = "write" /\ Dense' /\ SlicesTyped' /\ InHand'
        /\ UNCHANGED <<undisturbed, taken, diagnosable, errorLog>> /\ (Intact' <=> Intact)
    BY <1>1, <1>3, GoesOn
  <2>2. Judged'
    BY <1>1, <1>3, <2>1 DEF CallRight, Judged, Verified
  <2>3. fixture'.state # "whole"
    BY <1>3 DEF Partial
  <2> QED BY <1>1, <1>3, <2>1, <2>2, <2>3 DEF CallRight, Verified
<1> QED BY <1>2, <1>3 DEF OpenFile

LEMMA CrashRight ==
  ASSUME CallRight, HookRight', Crash
  PROVE  CallRight'
<1>1. \E r : Return(r)
  BY DEF Crash
<1>2. fixture' = fixture /\ events' = << >> /\ globalSequence' = 0 /\ capacity' = Capacity
  BY DEF Crash
<1>3. Dense' /\ capacity' \in Nat \ {0}
  BY <1>2, HarnessAssumption DEF Dense
<1> QED BY <1>1, <1>2, <1>3, Returns

LEMMA FreshCall ==
  ASSUME Init
  PROVE  CallRight
<1>1. /\ step = "idle" /\ position = 0 /\ data = NoData /\ fixture.state # "whole"
      /\ stream = << >> /\ taken = << >> /\ events = << >> /\ globalSequence = 0
      /\ capacity \in Nat \ {0}
  BY HarnessAssumption DEF Init, HooksInit, TracerInit, NoFile
<1>2. Dense /\ SlicesTyped
  BY <1>1 DEF Dense, SlicesTyped
<1>3. InHand
  BY <1>1 DEF InHand, Intact, Committed
<1>4. Judged
  BY <1>1 DEF Judged, Verified
<1> QED BY <1>1, <1>2, <1>3, <1>4 DEF CallRight

LEMMA CallsInvariant == Spec => []CallRight
<1>1. Init => CallRight
  BY FreshCall
<1>2. HookRight /\ HookRight' /\ CallRight /\ [Next]_vars => CallRight'
  <2> SUFFICES ASSUME HookRight, HookRight', CallRight, [Next]_vars PROVE CallRight'
    OBVIOUS
  <2>1. CASE WriteData
    <3>1. /\ \E r : Return(r)
          /\ \/ fixture' = fixture
             \/ fixture' = data /\ step \in {"open", "write"}
          /\ UNCHANGED <<hookVars, capacity>>
      BY <2>1 DEF WriteData, Alongside
    <3> QED BY <3>1, TracerStays, Returns
  <2>2. CASE UNCHANGED vars
    <3>1. UNCHANGED <<hookVars, gateVars, heldVars, callVars, undisturbed>>
      BY <2>2 DEF vars
    <3>2. Dense' /\ SlicesTyped' /\ InHand'
      BY <3>1 DEF hookVars, tracerVars, heldVars, callVars, CallRight, Dense, SlicesTyped,
                  InHand, Intact
    <3>3. Judged'
      BY <3>1 DEF hookVars, tracerVars, heldVars, callVars, gateVars, gateScan, CallRight,
                  Judged, Intact, Scanning, GateKnows, Encapsulated
    <3>4. step = "encode" => Encoding'
      BY <3>1 DEF heldVars, callVars, CallRight, Encoding
    <3> QED BY <3>1, <3>2, <3>3, <3>4 DEF heldVars, callVars, CallRight
  <2> QED BY <2>1, <2>2, HookAlongside, TakeRight, GateRight, AssembleRight, DirectoryRight,
             EncodeRight, OpenRight, CrashRight DEF Next, Ended
<1> QED BY <1>1, <1>2, HooksInvariant, PTL DEF Spec

\* A whole file has the numbers of a first block, if no block started during its
\* call, and if it has, it holds what Gate 1 verified, whenever the harness was
\* called and whatever hooks, blocks, failures and crashes came in between
\* (harness.go, ProcessAndSerialize; kaysentinel_tracer.go, OnBlockStart keeps the
\* counter).
THEOREM FixtureIsVerified == Spec => []FixtureVerified
<1>1. CallRight => FixtureVerified
  BY DEF CallRight, Good, FixtureVerified
<1> QED BY <1>1, CallsInvariant, PTL

\* The diagnostics in it are those of its stream, though they are fetched after
\* the gate has run and a later block may empty them (harness.go,
\* producer.ErrorLog() in the envelope).
THEOREM FixtureIsDiagnosed == Spec => []FixtureDiagnosed
<1>1. CallRight => FixtureDiagnosed
  BY DEF CallRight, Good, FixtureDiagnosed
<1> QED BY <1>1, CallsInvariant, PTL

=============================================================================
