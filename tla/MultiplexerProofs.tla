-------------------------- MODULE MultiplexerProofs --------------------------
(***************************************************************************)
(* Evictions add up and healthy sinks are served (Multiplexer); recorders  *)
(* miss nothing, and a comparison of what they recorded finds exactly the  *)
(* drift (Transcript), for any sinks, callers and hook calls.              *)
(***************************************************************************)
EXTENDS Transcript, WellFoundedInduction, FiniteSetTheorems, SequenceTheorems, TLAPS

\* A nonempty set of numbers has a least, as CHOOSE finds it.
LEMMA LeastIs ==
  ASSUME NEW S \in SUBSET Nat, S # {}
  PROVE  LET m == CHOOSE s \in S : \A t \in S : s <= t
         IN  m \in S /\ \A t \in S : m <= t
<1> DEFINE below == {1..s : s \in S}
<1>1. below \subseteq FiniteSubsetsOf(Nat) /\ below # {}
  <2>1. \A s \in S : 1..s \in SUBSET Nat /\ IsFiniteSet(1..s)
    BY FS_Interval
  <2> QED
    BY <2>1 DEF FiniteSubsetsOf
<1> HIDE DEF below
<1>2. PICK least \in below : \A b \in below : <<b, least>> \notin StrictSubsetOrdering(Nat)
  BY <1>1, FS_StrictSubsetOrderingWellFounded, WFMin
<1>3. PICK m \in S : least = 1..m
  BY DEF below
<1>4. ASSUME NEW t \in S PROVE m <= t
  <2>1. 1..t \in below /\ <<1..t, 1..m>> \notin StrictSubsetOrdering(Nat)
    BY <1>2, <1>3 DEF below
  <2>2. ~(1..t \subseteq 1..m /\ 1..t # 1..m)
    BY <2>1 DEF StrictSubsetOrdering
  <2>3. CASE t < m
    <3>1. 1..t \subseteq 1..m /\ m \in 1..m /\ m \notin 1..t
      BY <2>3
    <3> QED
      BY <3>1, <2>2
  <2> QED
    BY <2>3
<1> QED
  BY <1>4

\* A walk calls a sink that is left on its list (Foremost).
LEMMA ForemostOn ==
  ASSUME NEW list \in SUBSET Sink, list # {}
  PROVE  Foremost(list) \in list
<1>1. Sink \subseteq Nat
  BY MultiplexerAssumption DEF Sink
<1> QED
  BY <1>1, LeastIs DEF Foremost

\* A report adds its sink to those that panicked, and to no others
\* (recordAndEvacuate).
LEMMA Reported ==
  ASSUME NEW sink \in Sink, panicReports \in Seq(Sink),
         panicReports' = Append(panicReports, sink)
  PROVE  /\ panicReports' \in Seq(Sink)
         /\ Panicked' = Panicked \cup {sink}
         /\ \A s : Healthy(s)' <=> Healthy(s) /\ Name(sink) # Name(s)
<1>1. panicReports' \in Seq(Sink)
  OBVIOUS
<1>2. Panicked' = Panicked \cup {sink}
  BY DEF Panicked, Elements
<1>3. ASSUME NEW s PROVE Healthy(s)' <=> Healthy(s) /\ Name(sink) # Name(s)
  BY <1>2 DEF Healthy, Name
<1> QED
  BY <1>1, <1>2, <1>3

\* Nobody's health changes while nothing is reported.
LEMMA Unreported ==
  ASSUME panicReports' = panicReports
  PROVE  Panicked' = Panicked /\ \A s : Healthy(s)' <=> Healthy(s)
  BY DEF Healthy, Panicked, Elements, Name

\* The lists: what is active is what is healthy and what is being evicted, and the
\* holder of the mutex has loaded the active list.
Lists ==
  /\ active \subseteq Sink
  /\ panicReports \in Seq(Sink)
  /\ evicting \in [Caller -> SUBSET Sink]
  /\ loaded \in [Caller -> SUBSET Sink]
  /\ \A c, d \in Caller : evicting[c] # {} /\ evicting[d] # {} => c = d
  /\ \A c \in Caller : evicting[c] # {} => loaded[c] = active
  /\ \A c \in Caller : \A p \in evicting[c] : p \in Panicked
  /\ \A s \in Sink : Healthy(s) => s \in active
  /\ \A s \in active : Healthy(s) \/ \E c \in Caller : \E p \in evicting[c] : Name(p) = Name(s)

\* The walks: what a call has left behind without invoking it is not healthy.
Walks ==
  /\ strictMode \in BOOLEAN
  /\ walking \in [Caller -> SUBSET Sink]
  /\ served \in [Caller -> SUBSET Sink]
  /\ busy \subseteq Caller
  /\ \A c \in busy : \A s \in Sink : Healthy(s) => s \in served[c] \cup walking[c]

LEMMA InvariantIs == MultiplexerInvariant <=> Lists /\ Walks
  BY DEF MultiplexerInvariant, Lists, Walks

\* Whoever takes the mutex finds nothing else on the active list than what is
\* healthy, and loads it (recordAndEvacuate).
LEMMA Recorded ==
  ASSUME Lists, NEW c \in Caller, NEW sink \in Sink, record(c, sink), active' = active
  PROVE  Lists' /\ \A s : Healthy(s)' => Healthy(s) /\ Name(sink) # Name(s)
<1>1. /\ \A d \in Caller : evicting[d] = {}
      /\ panicReports' = Append(panicReports, sink)
      /\ evicting' = [evicting EXCEPT ![c] = {sink}]
      /\ loaded' = [loaded EXCEPT ![c] = active]
  BY DEF record, Locked
<1>2. /\ panicReports' \in Seq(Sink) /\ Panicked' = Panicked \cup {sink}
      /\ \A s : Healthy(s)' <=> Healthy(s) /\ Name(sink) # Name(s)
  BY <1>1, Reported DEF Lists
<1>3. /\ evicting' \in [Caller -> SUBSET Sink] /\ loaded' \in [Caller -> SUBSET Sink]
      /\ evicting'[c] = {sink} /\ \A d \in Caller : d # c => evicting'[d] = {}
      /\ loaded'[c] = active'
  BY <1>1 DEF Lists
<1>4. \A s \in active : Healthy(s)
  BY <1>1 DEF Lists
<1>5. ASSUME NEW s \in active'
      PROVE  Healthy(s)' \/ \E d \in Caller : \E p \in evicting'[d] : Name(p) = Name(s)
  BY <1>2, <1>3, <1>4
<1>6. \A s \in Sink : Healthy(s)' => s \in active'
  BY <1>2 DEF Lists
<1> QED
  BY <1>2, <1>3, <1>5, <1>6 DEF Lists, Sink, Name

\* Whoever gives the mutex back has stored the healthy sinks: the list is still the
\* one it loaded (recordAndEvacuate).
LEMMA Evicted ==
  ASSUME Lists, NEW c \in Caller, evacuate(c)
  PROVE  Lists' /\ \A s : Healthy(s)' <=> Healthy(s)
<1>1. /\ evicting[c] # {} /\ panicReports' = panicReports
      /\ active' = {s \in loaded[c] : \A p \in evicting[c] : Name(s) # Name(p)}
      /\ evicting' = [evicting EXCEPT ![c] = {}]
      /\ loaded' = [loaded EXCEPT ![c] = {}]
  BY DEF evacuate
<1>2. Panicked' = Panicked /\ \A s : Healthy(s)' <=> Healthy(s)
  BY <1>1, Unreported
<1>3. loaded[c] = active /\ \A d \in Caller : d # c => evicting[d] = {}
  BY <1>1 DEF Lists
<1>4. /\ evicting' \in [Caller -> SUBSET Sink] /\ loaded' \in [Caller -> SUBSET Sink]
      /\ \A d \in Caller : evicting'[d] = {}
  BY <1>1, <1>3 DEF Lists
<1>5. ASSUME NEW s \in active' PROVE Healthy(s)
  <2>1. s \in active /\ \A p \in evicting[c] : Name(s) # Name(p)
    BY <1>1, <1>3, <1>5
  <2>2. Healthy(s) \/ \E d \in Caller : \E p \in evicting[d] : Name(p) = Name(s)
    BY <2>1 DEF Lists
  <2> QED
    BY <1>3, <2>1, <2>2
<1>6. ASSUME NEW s \in Sink, Healthy(s) PROVE s \in active'
  <2>1. s \in active /\ \A p \in evicting[c] : Name(s) # Name(p)
    BY <1>6 DEF Lists, Healthy
  <2> QED
    BY <1>1, <1>3, <2>1
<1>7. active' \subseteq Sink /\ panicReports' \in Seq(Sink)
  BY <1>1, <1>3 DEF Lists
<1> QED
  BY <1>2, <1>4, <1>5, <1>6, <1>7 DEF Lists, Sink, Name

\* Nothing is reported or stored.
LEMMA ListsRest ==
  ASSUME Lists, UNCHANGED <<active, panicReports, guardVars>>
  PROVE  Lists' /\ \A s : Healthy(s)' <=> Healthy(s)
<1>1. Panicked' = Panicked /\ \A s : Healthy(s)' <=> Healthy(s)
  BY Unreported
<1> QED
  BY <1>1 DEF Lists, guardVars, Sink, Name

\* The inductive invariant of the multiplexer.
LEMMA MultiplexerInitially == Init => MultiplexerInvariant
<1> SUFFICES ASSUME Init PROVE Lists /\ Walks
  BY InvariantIs
<1>1. Panicked = {}
  BY DEF Init, Panicked, Elements
<1>2. Lists
  BY <1>1 DEF Init, Lists, Healthy
<1>3. Walks
  BY DEF Init, Walks
<1> QED
  BY <1>2, <1>3

LEMMA MultiplexerKept ==
  ASSUME MultiplexerInvariant, [Next]_vars
  PROVE  MultiplexerInvariant'
<1> SUFFICES Lists' /\ Walks'
  BY InvariantIs, PTL
<1>0. Lists /\ Walks
  BY InvariantIs
<1>1. ASSUME UNCHANGED vars PROVE Lists' /\ Walks'
  <2>1. Lists' /\ \A s : Healthy(s)' <=> Healthy(s)
    BY <1>0, <1>1, ListsRest DEF vars
  <2> QED
    BY <1>0, <1>1, <2>1 DEF vars, Walks, Sink
<1>2. ASSUME NEW c \in Caller, CallHook(c) PROVE Lists' /\ Walks'
  <2>1. Lists' /\ \A s : Healthy(s)' <=> Healthy(s)
    BY <1>0, <1>2, ListsRest DEF CallHook
  <2>2. active \subseteq Sink /\ \A s \in Sink : Healthy(s) => s \in walking'[c]
    BY <1>0, <1>2 DEF CallHook, Lists, Walks
  <2>3. ASSUME NEW d \in busy', NEW s \in Sink, Healthy(s)'
        PROVE  s \in served'[d] \cup walking'[d]
    BY <1>0, <1>2, <2>1, <2>2, <2>3 DEF CallHook, Walks
  <2> QED
    BY <1>0, <1>2, <2>1, <2>2, <2>3 DEF CallHook, Walks, Sink
<1>3. ASSUME NEW c \in Caller, SinkReturns(c) PROVE Lists' /\ Walks'
  <2>1. Lists' /\ \A s : Healthy(s)' <=> Healthy(s)
    BY <1>0, <1>3, ListsRest DEF SinkReturns
  <2>2. Foremost(walking[c]) \in walking[c] /\ walking[c] \subseteq Sink
    BY <1>0, <1>3, ForemostOn DEF SinkReturns, Walks
  <2>3. ASSUME NEW d \in busy', NEW s \in Sink, Healthy(s)'
        PROVE  s \in served'[d] \cup walking'[d]
    BY <1>0, <1>3, <2>1, <2>3 DEF SinkReturns, Walks
  <2> QED
    BY <1>0, <1>3, <2>1, <2>2, <2>3 DEF SinkReturns, Walks, Sink
<1>4. ASSUME NEW c \in Caller, SinkPanics(c) PROVE Lists' /\ Walks'
  <2>1. Foremost(walking[c]) \in walking[c] /\ walking[c] \subseteq Sink
    BY <1>0, <1>4, ForemostOn DEF SinkPanics, Walks
  <2>2. Lists' /\ \A s : Healthy(s)' => Healthy(s)
    BY <1>0, <1>4, <2>1, Recorded DEF SinkPanics
  <2>3. ASSUME NEW d \in busy', NEW s \in Sink, Healthy(s)'
        PROVE  s \in served'[d] \cup walking'[d]
    BY <1>0, <1>4, <2>2, <2>3 DEF SinkPanics, Walks
  <2> QED
    BY <1>0, <1>4, <2>1, <2>2, <2>3 DEF SinkPanics, Walks, Sink
<1>5. ASSUME NEW c \in Caller, Recovered(c) PROVE Lists' /\ Walks'
  <2>1. Lists' /\ \A s : Healthy(s)' <=> Healthy(s)
    BY <1>0, <1>5, Evicted DEF Recovered
  <2> QED
    BY <1>0, <1>5, <2>1 DEF Recovered, Walks, Sink
<1>6. ASSUME NEW c \in Caller, Rethrown(c) PROVE Lists' /\ Walks'
  <2>1. Lists' /\ \A s : Healthy(s)' <=> Healthy(s)
    BY <1>0, <1>6, Evicted DEF Rethrown
  <2>2. ASSUME NEW d \in busy', NEW s \in Sink, Healthy(s)'
        PROVE  s \in served'[d] \cup walking'[d]
    BY <1>0, <1>6, <2>1, <2>2 DEF Rethrown, Walks
  <2> QED
    BY <1>0, <1>6, <2>1, <2>2 DEF Rethrown, Walks, Sink
<1>7. ASSUME NEW c \in Caller, HookDone(c) PROVE Lists' /\ Walks'
  <2>1. Lists' /\ \A s : Healthy(s)' <=> Healthy(s)
    BY <1>0, <1>7, ListsRest DEF HookDone
  <2> QED
    BY <1>0, <1>7, <2>1 DEF HookDone, Walks, Sink
<1> QED
  BY <1>1, <1>2, <1>3, <1>4, <1>5, <1>6, <1>7 DEF Next, Quiet

LEMMA MultiplexerIsRight == Spec => []MultiplexerInvariant
<1> QED
  BY MultiplexerInitially, MultiplexerKept, PTL DEF Spec

\* No eviction is undone by another that overlaps it, and nothing but what shares
\* a name with a sink that panicked leaves the list: what recordAndEvacuate loads
\* under the mutex is still the active list when it stores its own.
THEOREM EvictionsAlwaysAddUp == Spec => []EvictionsAddUp
<1>1. MultiplexerInvariant => EvictionsAddUp
  BY DEF MultiplexerInvariant, EvictionsAddUp, Locked
<1> QED
  BY <1>1, MultiplexerIsRight, PTL

\* A call that ends has invoked every sink whose name never panicked: guard goes
\* on with the list the call took, whatever was evicted meanwhile.
THEOREM HealthySinksServed == Spec => []HealthyServed
<1>1. MultiplexerInvariant => HealthyServed
  BY DEF MultiplexerInvariant, HealthyServed
<1> QED
  BY <1>1, MultiplexerIsRight, PTL

-----------------------------------------------------------------------------
(***************************************************************************)
(* Transcripts.                                                            *)
(***************************************************************************)

\* A walk is to come to r yet.
Due(r) == \E c \in Caller : r \in walking[c]

\* The hook calls that r has had its turn in.
Passed(r) == IF Due(r) THEN Front(called) ELSE called

\* A transcript is numbered, and holds hook calls.
Numbered(t) ==
  \A i \in DOMAIN t : t[i] \in RawEvents /\ t[i].sequence = i - 1
                      /\ [t[i] EXCEPT !.sequence = 0] \in HookCalls

\* A recorder's transcript holds the hook calls it has had its turn in: none is
\* missing when panics are kept from the caller, and as many as were thrown out of
\* when they are not.
Right(r) ==
  /\ transcript[r] \in Seq(RawEvents) /\ Numbered(transcript[r])
  /\ ~strictMode =>
       /\ Len(transcript[r]) <= Len(called)
       /\ \A i \in DOMAIN transcript[r] : CallsIn(transcript[r])[i] = called[i]
       /\ Due(r) \/ Healthy(r) => Len(transcript[r]) = Len(Passed(r))
  /\ strictMode /\ Healthy(r) =>
       \E n \in 0..Cardinality(thrown) : WithoutSome(CallsIn(transcript[r]), Passed(r), n)

\* What makes RecordedAll and DriftFound inductive, besides MultiplexerInvariant:
\* at most one caller is in a call, and a sink that is still due has not recorded
\* it.
OneCall ==
  /\ \A c, d \in busy : c = d
  /\ \A c \in Caller \ busy : walking[c] = {} /\ evicting[c] = {}
  /\ busy # {} => called # << >>
  /\ IsFiniteSet(thrown) /\ busy \cap thrown = {}

TranscriptInvariant ==
  /\ called \in Seq(HookCalls)
  /\ OneCall
  /\ transcript \in [Recorders -> Seq(RawEvents)]
  /\ \A r \in Recorders : Right(r)

\* One call at a time is among the behaviours of concurrent callers.
LEMMA TranscriptStepIsNext ==
  ASSUME [TranscriptStep]_<<vars, transcriptVars>>
  PROVE  [Next]_vars
<1>1. ASSUME NEW c \in Caller, RecordedCall(c) PROVE Next
  BY <1>1 DEF RecordedCall, Next
<1>2. ASSUME NEW c \in Caller, Records(c) PROVE Next
  BY <1>2 DEF Records, Next
<1>3. ASSUME NEW c \in Caller, Fails(c) PROVE Next
  BY <1>3 DEF Fails, Next
<1>4. ASSUME NEW c \in Caller, Recovered(c) \/ Rethrown(c) \/ HookDone(c) PROVE Next
  BY <1>4 DEF Next
<1>5. Quiet => Next
  BY DEF Next
<1> QED
  BY <1>1, <1>2, <1>3, <1>4, <1>5 DEF TranscriptStep, vars

LEMMA Renumbered ==
  ASSUME NEW call \in RawEvents, call.sequence = 0, NEW n \in Nat
  PROVE  /\ [call EXCEPT !.sequence = n] \in RawEvents
         /\ [call EXCEPT !.sequence = n].sequence = n
         /\ [[call EXCEPT !.sequence = n] EXCEPT !.sequence = 0] = call
<1> DEFINE e == [call EXCEPT !.sequence = n]
           shape == [sequence : Nat, kind : DOMAIN Labels \cup {"Enter"}, opcode : STRING,
                     depth : Nat, args : Nat, reverted : BOOLEAN, errType : STRING,
                     detail : Nat]
<1>1. call \in shape
  BY DEF RawEvents
<1>2. /\ e \in shape /\ e.sequence = n /\ e.kind = call.kind /\ e.opcode = call.opcode
      /\ e.depth = call.depth
  BY <1>1
<1>3. [e EXCEPT !.sequence = 0] = call
  BY <1>1
<1> HIDE DEF e
<1>4. e \in RawEvents
  BY <1>2 DEF RawEvents
<1> QED
  BY <1>2, <1>3, <1>4 DEF e

\* An event that is recorded is the call with the next number (append).
LEMMA AppendedIs ==
  ASSUME NEW t \in Seq(RawEvents), Numbered(t), NEW call \in HookCalls
  PROVE  /\ append(t, call) \in Seq(RawEvents) /\ Numbered(append(t, call))
         /\ CallsIn(append(t, call)) = Append(CallsIn(t), call)
         /\ Len(append(t, call)) = Len(t) + 1
<1> DEFINE e == [call EXCEPT !.sequence = Len(t)]
           u == append(t, call)
<1>1. call \in RawEvents /\ call.sequence = 0
  BY HookCallsAssumption
<1>2. e \in RawEvents /\ e.sequence = Len(t) /\ [e EXCEPT !.sequence = 0] = call
  <2>1. Len(t) \in Nat
    OBVIOUS
  <2> QED
    BY <1>1, <2>1, Renumbered
<1> HIDE DEF e
<1>3. u = Append(t, e)
  BY DEF append, e
<1>4. /\ u \in Seq(RawEvents) /\ Len(u) = Len(t) + 1 /\ DOMAIN u = 1..Len(t) + 1
      /\ \A i \in 1..Len(t) : u[i] = t[i]
      /\ u[Len(t) + 1] = e
  BY <1>2, <1>3
<1> HIDE DEF u
<1>5. Numbered(u)
  <2> SUFFICES ASSUME NEW i \in 1..Len(t) + 1
               PROVE  /\ u[i] \in RawEvents /\ u[i].sequence = i - 1
                      /\ [u[i] EXCEPT !.sequence = 0] \in HookCalls
    BY <1>4 DEF Numbered
  <2>1. CASE i \in 1..Len(t)
    BY <1>4, <2>1 DEF Numbered
  <2>2. CASE i = Len(t) + 1
    BY <1>2, <1>4, <2>2
  <2> QED
    BY <2>1, <2>2
<1>6. CallsIn(u) = Append(CallsIn(t), call)
  <2>1. /\ CallsIn(u) = [i \in 1..Len(t) + 1 |-> [u[i] EXCEPT !.sequence = 0]]
        /\ CallsIn(t) = [i \in 1..Len(t) |-> [t[i] EXCEPT !.sequence = 0]]
    BY <1>4 DEF CallsIn
  <2>2. CallsIn(t) \in Seq(HookCalls) /\ Len(CallsIn(t)) = Len(t)
    BY <2>1 DEF Numbered
  <2>3. \A i \in 1..Len(t) : CallsIn(u)[i] = CallsIn(t)[i]
    BY <1>4, <2>1
  <2>4. CallsIn(u)[Len(t) + 1] = call
    BY <1>2, <1>4, <2>1
  <2>5. CallsIn(u) \in Seq(HookCalls) /\ Len(CallsIn(u)) = Len(t) + 1
    BY <1>4, <1>5, <2>1 DEF Numbered
  <2> QED
    BY <2>2, <2>3, <2>4, <2>5
<1> QED
  BY <1>4, <1>5, <1>6 DEF u

LEMMA CallsInIs ==
  ASSUME NEW t \in Seq(RawEvents), Numbered(t)
  PROVE  CallsIn(t) \in Seq(HookCalls) /\ Len(CallsIn(t)) = Len(t)
         /\ DOMAIN CallsIn(t) = DOMAIN t
  BY DEF CallsIn, Numbered

LEMMA FrontIs ==
  ASSUME NEW t \in Seq(HookCalls), t # << >>
  PROVE  /\ Front(t) \in Seq(HookCalls)
         /\ Len(Front(t)) = Len(t) - 1 /\ Len(t) \in Nat \ {0}
         /\ DOMAIN Front(t) = 1..Len(t) - 1 /\ DOMAIN t = 1..Len(t)
         /\ \A i \in 1..Len(t) - 1 : Front(t)[i] = t[i]
         /\ Append(Front(t), Last(t)) = t
<1>1. Len(t) \in Nat \ {0} /\ DOMAIN t = 1..Len(t)
  BY EmptySeq
<1>2. /\ Front(t) \in Seq(HookCalls) /\ Len(Front(t)) = Len(t) - 1
      /\ \A i \in 1..Len(t) - 1 : Front(t)[i] = t[i]
  <2>1. \A i \in 1..Len(t) - 1 : t[i] \in HookCalls
    BY <1>1
  <2>2. 1 \in Int /\ Len(t) - 1 \in Int /\ Len(t) - 1 - 1 + 1 = Len(t) - 1
    BY <1>1
  <2>3. /\ SubSeq(t, 1, Len(t) - 1) \in Seq(HookCalls)
        /\ Len(SubSeq(t, 1, Len(t) - 1)) = IF 1 <= Len(t) - 1 THEN Len(t) - 1 - 1 + 1 ELSE 0
        /\ \A i \in 1..Len(t) - 1 - 1 + 1 : SubSeq(t, 1, Len(t) - 1)[i] = t[1 + i - 1]
    BY <2>1, <2>2, SubSeqProperties
  <2>4. Front(t) \in Seq(HookCalls) /\ Len(Front(t)) = Len(t) - 1
    BY <1>1, <2>2, <2>3 DEF Front
  <2>5. ASSUME NEW i \in 1..Len(t) - 1 PROVE Front(t)[i] = t[i]
    <3>1. 1 + i - 1 = i /\ i \in 1..Len(t) - 1 - 1 + 1
      BY <2>2
    <3> QED
      BY <3>1, <2>3 DEF Front
  <2> QED
    BY <2>4, <2>5
<1> HIDE DEF Front
<1>3. DOMAIN Front(t) = 1..Len(t) - 1
  BY <1>2
<1>4. Append(Front(t), Last(t)) = t
  <2>1. Last(t) \in HookCalls /\ Last(t) = t[Len(t)]
    BY <1>1 DEF Last
  <2>2. /\ Append(Front(t), Last(t)) \in Seq(HookCalls)
        /\ Len(Append(Front(t), Last(t))) = Len(t)
        /\ \A i \in 1..Len(t) - 1 : Append(Front(t), Last(t))[i] = t[i]
        /\ Append(Front(t), Last(t))[Len(t)] = t[Len(t)]
    <3>1. PICK f \in Seq(HookCalls) : f = Front(t) /\ Len(f) = Len(t) - 1
      BY <1>2
    <3>2. /\ Append(f, Last(t)) \in Seq(HookCalls)
          /\ Len(Append(f, Last(t))) = Len(f) + 1
          /\ \A i \in 1..Len(f) : Append(f, Last(t))[i] = f[i]
          /\ Append(f, Last(t))[Len(f) + 1] = Last(t)
      BY <2>1, AppendProperties
    <3>3. Len(f) + 1 = Len(t)
      BY <1>1, <3>1
    <3> QED
      BY <1>2, <2>1, <3>1, <3>2, <3>3
  <2>3. \A i \in 1..Len(t) : Append(Front(t), Last(t))[i] = t[i]
    BY <1>1, <2>2
  <2> QED
    BY <2>2, <2>3, SeqEqual
<1> QED
  BY <1>1, <1>2, <1>3, <1>4

\* A call that is recorded keeps what was left out, and one that passes a
\* recorder by is left out too.
LEMMA NoneLeftOut ==
  ASSUME NEW s \in Seq(HookCalls)
  PROVE  WithoutSome(s, s, 0)
<1>1. PICK place \in [DOMAIN s -> DOMAIN s] : \A i \in DOMAIN s : place[i] = i
  <2>1. [i \in DOMAIN s |-> i] \in [DOMAIN s -> DOMAIN s]
    OBVIOUS
  <2> QED
    BY <2>1
<1>2. Len(s) = Len(s) - 0
  OBVIOUS
<1>3. \A i \in DOMAIN s : s[i] = s[place[i]]
  BY <1>1
<1>4. \A i, j \in DOMAIN s : i < j => place[i] < place[j]
  BY <1>1
<1> QED
  BY <1>2, <1>3, <1>4 DEF WithoutSome

LEMMA KeptAlso ==
  ASSUME NEW s \in Seq(HookCalls), NEW t \in Seq(HookCalls), NEW n \in Nat,
         WithoutSome(s, t, n), NEW call \in HookCalls
  PROVE  WithoutSome(Append(s, call), Append(t, call), n)
<1>1. PICK place \in [DOMAIN s -> DOMAIN t] :
        /\ \A i \in DOMAIN s : s[i] = t[place[i]]
        /\ \A i, j \in DOMAIN s : i < j => place[i] < place[j]
  BY DEF WithoutSome
<1> DEFINE u == Append(s, call)
           v == Append(t, call)
           q == [i \in 1..Len(s) + 1 |-> IF i = Len(s) + 1 THEN Len(t) + 1 ELSE place[i]]
<1>2. /\ DOMAIN u = 1..Len(s) + 1 /\ DOMAIN v = 1..Len(t) + 1
      /\ \A i \in 1..Len(s) : u[i] = s[i]
      /\ \A i \in 1..Len(t) : v[i] = t[i]
      /\ u[Len(s) + 1] = call /\ v[Len(t) + 1] = call
      /\ Len(u) = Len(s) + 1 /\ Len(v) = Len(t) + 1
  OBVIOUS
<1> HIDE DEF u, v
<1>3. \A i \in 1..Len(s) : place[i] \in 1..Len(t)
  BY <1>1
<1>4. q \in [1..Len(s) + 1 -> 1..Len(t) + 1]
  BY <1>3
<1>5. \A i \in 1..Len(s) + 1 : u[i] = v[q[i]]
  BY <1>1, <1>2, <1>3
<1>6. ASSUME NEW i \in 1..Len(s) + 1, NEW j \in 1..Len(s) + 1, i < j
      PROVE  q[i] < q[j]
  <2>1. i \in 1..Len(s) /\ q[i] = place[i] /\ q[i] \in 1..Len(t) /\ Len(t) \in Nat
    BY <1>3, <1>6
  <2>2. CASE j = Len(s) + 1
    BY <2>1, <2>2
  <2>3. CASE j \in 1..Len(s)
    <3>1. q[j] = place[j]
      BY <2>3
    <3> HIDE DEF q
    <3> QED
      BY <1>1, <1>6, <2>1, <2>3, <3>1
  <2> QED
    BY <2>2, <2>3
<1>7. Len(u) = Len(v) - n
  BY <1>2 DEF WithoutSome
<1> HIDE DEF q
<1> QED
  BY <1>2, <1>4, <1>5, <1>6, <1>7 DEF WithoutSome, u, v

LEMMA LeftOutAlso ==
  ASSUME NEW s \in Seq(HookCalls), NEW t \in Seq(HookCalls), t # << >>, NEW n \in Nat,
         WithoutSome(s, Front(t), n)
  PROVE  WithoutSome(s, t, n + 1)
<1>1. /\ Len(Front(t)) = Len(t) - 1 /\ Len(t) \in Nat \ {0}
      /\ DOMAIN Front(t) = 1..Len(t) - 1 /\ DOMAIN t = 1..Len(t)
      /\ \A i \in 1..Len(t) - 1 : Front(t)[i] = t[i]
  BY FrontIs
<1>2. PICK place \in [DOMAIN s -> DOMAIN Front(t)] :
        /\ \A i \in DOMAIN s : s[i] = Front(t)[place[i]]
        /\ \A i, j \in DOMAIN s : i < j => place[i] < place[j]
  BY DEF WithoutSome
<1>3. place \in [DOMAIN s -> DOMAIN t] /\ \A i \in DOMAIN s : s[i] = t[place[i]]
  BY <1>1, <1>2
<1>4. Len(s) = Len(t) - (n + 1)
  BY <1>1 DEF WithoutSome
<1> QED
  BY <1>2, <1>3, <1>4 DEF WithoutSome

\* A recorder to which nothing happened stays right while nobody else's call
\* begins, ends or is thrown.
LEMMA RightRests ==
  ASSUME NEW r \in Recorders, Right(r),
         UNCHANGED <<strictMode, called>>, transcript'[r] = transcript[r],
         Healthy(r)' => Healthy(r), Due(r)' <=> Due(r),
         thrown' = thrown
  PROVE  Right(r)'
<1>1. Passed(r)' = Passed(r)
  BY DEF Passed
<1> QED
  BY <1>1 DEF Right

\* A call begins for the sinks that are active (RecordedCall).
LEMMA CallBegins ==
  ASSUME NEW r \in Recorders, Right(r), NEW call \in HookCalls, called \in Seq(HookCalls),
         called' = Append(called, call), UNCHANGED <<strictMode, transcript, thrown>>,
         Healthy(r)' <=> Healthy(r), ~Due(r), Due(r)' <=> Healthy(r)
  PROVE  Right(r)'
<1>1. PICK t \in Seq(RawEvents) : t = transcript[r]
  BY DEF Right
<1>2. PICK d \in Seq(HookCalls) : d = Append(called, call)
  OBVIOUS
<1>3. Front(d) = called /\ Len(d) = Len(called) + 1 /\ d # << >>
  <2>1. Len(d) = Len(called) + 1 /\ \A i \in 1..Len(called) : d[i] = called[i]
    BY <1>2
  <2>2. d # << >>
    BY <2>1
  <2>3. Front(d) \in Seq(HookCalls) /\ Len(Front(d)) = Len(called)
        /\ \A i \in 1..Len(called) : Front(d)[i] = called[i]
    <3>1. Len(d) - 1 = Len(called)
      BY <2>1
    <3>2. Front(d) \in Seq(HookCalls) /\ Len(Front(d)) = Len(d) - 1
          /\ \A i \in 1..Len(d) - 1 : Front(d)[i] = d[i]
      BY <2>2, FrontIs
    <3> QED
      BY <2>1, <3>1, <3>2
  <2> QED
    BY <2>1, <2>2, <2>3, SeqEqual
<1>4. Passed(r) = called /\ (Healthy(r) => Passed(r)' = called)
  BY <1>2, <1>3 DEF Passed
<1>5. Numbered(t) /\ transcript'[r] = t /\ CallsIn(t)' = CallsIn(t) /\ (Numbered(t)' <=> Numbered(t))
  BY <1>1 DEF Right, CallsIn, Numbered
<1>6. ASSUME ~strictMode PROVE Right(r)'
  <2>1. /\ Len(t) <= Len(called)
        /\ \A i \in DOMAIN t : CallsIn(t)[i] = called[i]
        /\ Healthy(r) => Len(t) = Len(called)
    BY <1>1, <1>4, <1>6 DEF Right
  <2>2. Len(t) <= Len(d) /\ \A i \in DOMAIN t : CallsIn(t)[i] = d[i]
    <3>1. \A i \in DOMAIN t : i \in 1..Len(called)
      BY <2>1
    <3>2. \A i \in 1..Len(called) : d[i] = called[i]
      BY <1>2
    <3> QED
      BY <1>3, <2>1, <3>1, <3>2
  <2>3. Due(r)' \/ Healthy(r)' => Len(t) = Len(Passed(r)')
    BY <1>4, <2>1
  <2> QED
    BY <1>1, <1>2, <1>5, <1>6, <2>2, <2>3 DEF Right
<1>7. ASSUME strictMode PROVE Right(r)'
  <2>1. Healthy(r) => \E n \in 0..Cardinality(thrown) : WithoutSome(CallsIn(t), called, n)
    BY <1>1, <1>4, <1>7 DEF Right
  <2> QED
    BY <1>1, <1>4, <1>5, <1>7, <2>1 DEF Right
<1> QED
  BY <1>6, <1>7 DEF Right

\* A recorder whose turn it is records the call (Records, and Fails when the sink
\* panics afterwards).
LEMMA TurnTaken ==
  ASSUME NEW r \in Recorders, Right(r), called \in Seq(HookCalls), called # << >>,
         Due(r), ~Due(r)', UNCHANGED <<strictMode, called>>,
         transcript'[r] = append(transcript[r], Last(called)),
         Healthy(r)' => Healthy(r), thrown' = thrown \/ ~Healthy(r)'
  PROVE  Right(r)'
<1>1. PICK t \in Seq(RawEvents) : t = transcript[r] /\ Numbered(t)
  BY DEF Right
<1>2. PICK call \in HookCalls : call = Last(called)
  BY FrontIs DEF Last
<1>3. PICK u : u = append(t, call)
  OBVIOUS
<1>4. /\ u \in Seq(RawEvents) /\ Numbered(u) /\ Len(u) = Len(t) + 1
      /\ CallsIn(u) = Append(CallsIn(t), call)
  BY <1>1, <1>3, AppendedIs
<1>5. /\ transcript'[r] = u /\ CallsIn(u)' = CallsIn(u) /\ (Numbered(u)' <=> Numbered(u))
  BY <1>1, <1>2, <1>3 DEF CallsIn, Numbered
<1>6. Passed(r) = Front(called) /\ Passed(r)' = called
  BY DEF Passed
<1>7. PICK f \in Seq(HookCalls) :
        f = Front(called) /\ Append(f, call) = called /\ Len(called) = Len(f) + 1
  <2>1. Front(called) \in Seq(HookCalls) /\ Append(Front(called), Last(called)) = called
    BY FrontIs
  <2> QED
    BY <1>2, <2>1
<1>8. CallsIn(t) \in Seq(HookCalls) /\ Len(CallsIn(t)) = Len(t) /\ DOMAIN CallsIn(t) = DOMAIN t
  BY <1>1, CallsInIs
<1>9. ASSUME ~strictMode PROVE Right(r)'
  <2>1. Len(t) = Len(f) /\ \A i \in DOMAIN t : CallsIn(t)[i] = called[i]
    BY <1>1, <1>6, <1>7, <1>9 DEF Right
  <2>2. \A i \in 1..Len(t) + 1 : CallsIn(u)[i] = called[i]
    <3>1. \A i \in 1..Len(t) : CallsIn(u)[i] = CallsIn(t)[i]
      BY <1>4, <1>8
    <3>2. CallsIn(u)[Len(t) + 1] = call
      BY <1>4, <1>8
    <3>3. called[Len(t) + 1] = call
      BY <1>7, <2>1
    <3>4. ASSUME NEW i \in 1..Len(t) + 1 PROVE CallsIn(u)[i] = called[i]
      <4>1. CASE i \in 1..Len(t)
        BY <2>1, <3>1, <4>1
      <4>2. CASE i = Len(t) + 1
        BY <3>2, <3>3, <4>2
      <4> QED
        BY <4>1, <4>2
    <3> QED
      BY <3>4
  <2>3. Len(u) = Len(called) /\ \A i \in DOMAIN u : CallsIn(u)[i] = called[i]
    <3>1. DOMAIN u = 1..Len(t) + 1 /\ Len(u) = Len(called)
      BY <1>4, <1>7, <2>1
    <3> QED
      BY <2>2, <3>1
  <2>4. Len(u) <= Len(called)
    BY <2>3, <1>4
  <2> QED
    BY <1>4, <1>5, <1>6, <1>9, <2>3, <2>4 DEF Right
<1>10. ASSUME strictMode PROVE Right(r)'
  <2>1. ASSUME Healthy(r)'
        PROVE  \E n \in 0..Cardinality(thrown) : WithoutSome(CallsIn(u), called, n)
    <3>1. PICK n \in 0..Cardinality(thrown) : WithoutSome(CallsIn(t), f, n)
      BY <1>1, <1>6, <1>7, <1>10, <2>1 DEF Right
    <3>2. WithoutSome(Append(CallsIn(t), call), Append(f, call), n)
      BY <1>8, <3>1, KeptAlso
    <3> QED
      BY <1>4, <1>7, <3>2
  <2> QED
    BY <1>4, <1>5, <1>6, <1>10, <2>1 DEF Right
<1> QED
  BY <1>9, <1>10 DEF Right

\* A sink that panics before it has recorded the call is a recorder no longer.
LEMMA TurnLost ==
  ASSUME NEW r \in Recorders, Right(r), ~Due(r)', ~Healthy(r)',
         UNCHANGED <<strictMode, called>>, transcript'[r] = transcript[r]
  PROVE  Right(r)'
<1>1. PICK t \in Seq(RawEvents) : t = transcript[r] /\ Numbered(t)
  BY DEF Right
<1>2. transcript'[r] = t /\ CallsIn(t)' = CallsIn(t) /\ (Numbered(t)' <=> Numbered(t))
  BY <1>1 DEF CallsIn, Numbered
<1> QED
  BY <1>1, <1>2 DEF Right

\* A panic that is thrown on passes by the recorders that were still due, and
\* leaves one call out of their transcripts (Rethrown).
LEMMA PassedBy ==
  ASSUME NEW r \in Recorders, Right(r), called \in Seq(HookCalls), called # << >>,
         strictMode, UNCHANGED <<strictMode, called>>, transcript'[r] = transcript[r],
         Healthy(r)' => Healthy(r), ~Due(r)',
         Cardinality(thrown) \in Nat, Cardinality(thrown') = Cardinality(thrown) + 1
  PROVE  Right(r)'
<1>1. PICK t \in Seq(RawEvents) : t = transcript[r] /\ Numbered(t)
  BY DEF Right
<1>2. transcript'[r] = t /\ CallsIn(t)' = CallsIn(t) /\ (Numbered(t)' <=> Numbered(t))
  BY <1>1 DEF CallsIn, Numbered
<1>3. CallsIn(t) \in Seq(HookCalls)
  BY <1>1, CallsInIs
<1>4. ASSUME Healthy(r)'
      PROVE  \E n \in 0..Cardinality(thrown') : WithoutSome(CallsIn(t), called, n)
  <2>1. PICK n \in 0..Cardinality(thrown) : WithoutSome(CallsIn(t), Passed(r), n)
    BY <1>1, <1>4 DEF Right
  <2>2. CASE ~Due(r)
    <3>1. n \in 0..Cardinality(thrown') /\ Passed(r) = called
      BY <2>2 DEF Passed
    <3> QED
      BY <2>1, <3>1
  <2>3. CASE Due(r)
    <3>1. n + 1 \in 0..Cardinality(thrown') /\ Passed(r) = Front(called) /\ n \in Nat
      BY <2>3 DEF Passed
    <3>2. WithoutSome(CallsIn(t), called, n + 1)
      BY <1>3, <2>1, <3>1, LeftOutAlso
    <3> QED
      BY <3>1, <3>2
  <2> QED
    BY <2>2, <2>3
<1>5. Passed(r)' = called
  BY DEF Passed
<1> QED
  BY <1>1, <1>2, <1>4, <1>5 DEF Right

\* Only the caller that is in a call is walking, and its next sink alone leaves its
\* list (SinkReturns, SinkPanics).
LEMMA OneLessDue ==
  ASSUME MultiplexerInvariant, OneCall, NEW c \in Caller, walking[c] # {},
         walking' = [walking EXCEPT ![c] = @ \ {Foremost(@)}],
         NEW s, s = Foremost(walking[c])
  PROVE  /\ c \in busy /\ called # << >>
         /\ s \in Sink /\ Due(s) /\ ~Due(s)'
         /\ \A r : r # s => (Due(r)' <=> Due(r))
         /\ \A d \in Caller \ busy : walking'[d] = {}
<1>1. c \in busy /\ called # << >> /\ \A d \in Caller : d # c => walking[d] = {}
  BY DEF OneCall
<1>2. walking \in [Caller -> SUBSET Sink]
  BY DEF MultiplexerInvariant
<1>3. s \in walking[c]
  BY <1>2, ForemostOn
<1>4. walking'[c] = walking[c] \ {s} /\ \A d \in Caller : d # c => walking'[d] = {}
  BY <1>1, <1>2, <1>3
<1> QED
  BY <1>1, <1>2, <1>3, <1>4 DEF Due

LEMMA TranscriptInitially == Init /\ TranscriptInit => TranscriptInvariant
<1> SUFFICES ASSUME Init, TranscriptInit PROVE TranscriptInvariant
  OBVIOUS
<1>1. /\ called = << >> /\ called \in Seq(HookCalls) /\ thrown = {} /\ busy = {}
      /\ IsFiniteSet({}) /\ Cardinality({}) = 0
      /\ \A c \in Caller : walking[c] = {} /\ evicting[c] = {}
  BY FS_EmptySet DEF Init, TranscriptInit
<1>2. OneCall
  BY <1>1 DEF OneCall
<1>3. ASSUME NEW r \in Recorders PROVE Right(r)
  <2>1. PICK t \in Seq(RawEvents) : t = transcript[r] /\ t = << >>
    <3>1. transcript[r] = << >> /\ << >> \in Seq(RawEvents)
      BY DEF TranscriptInit
    <3> QED
      BY <3>1
  <2>2. Len(t) = 0 /\ DOMAIN t = {} /\ Numbered(t) /\ Passed(r) = called
    BY <1>1, <2>1 DEF Numbered, Passed, Due
  <2>3. PICK s \in Seq(HookCalls) : s = CallsIn(t) /\ Len(s) = 0
    BY <2>2, CallsInIs
  <2>4. s = called
    BY <1>1, <2>3
  <2>5. WithoutSome(CallsIn(t), Passed(r), 0)
    BY <2>2, <2>3, <2>4, NoneLeftOut
  <2>6. Len(called) = 0
    BY <1>1
  <2> QED
    BY <1>1, <2>1, <2>2, <2>5, <2>6 DEF Right
<1> QED
  BY <1>1, <1>2, <1>3 DEF TranscriptInvariant, TranscriptInit

LEMMA BeginKeeps ==
  ASSUME MultiplexerInvariant, MultiplexerInvariant', TranscriptInvariant,
         NEW c \in Caller, RecordedCall(c)
  PROVE  TranscriptInvariant'
<1>1. PICK call \in HookCalls : called' = Append(called, call)
  BY DEF RecordedCall
<1>2. /\ busy = {} /\ busy' = {c} /\ c \notin thrown /\ thrown' = thrown
      /\ walking' = [walking EXCEPT ![c] = active]
      /\ UNCHANGED <<active, panicReports, strictMode, transcript>>
      /\ called \in Seq(HookCalls) /\ called' \in Seq(HookCalls) /\ called' # << >>
  BY <1>1 DEF RecordedCall, CallHook, TranscriptInvariant
<1>3. \A d \in Caller : walking[d] = {} /\ evicting[d] = {} /\ evicting'[d] = {}
  BY <1>2 DEF TranscriptInvariant, OneCall, RecordedCall, CallHook, guardVars
<1>4. walking \in [Caller -> SUBSET Sink] /\ active = {s \in Sink : Healthy(s)}
  BY <1>3 DEF MultiplexerInvariant
<1>5. walking'[c] = active /\ \A d \in Caller : d # c => walking'[d] = {}
  BY <1>2, <1>3, <1>4
<1>6. OneCall'
  BY <1>2, <1>3, <1>5 DEF OneCall, TranscriptInvariant
<1>7. ASSUME NEW r \in Recorders PROVE Right(r)'
  <2>1. Healthy(r)' <=> Healthy(r)
    BY <1>2 DEF Healthy, Panicked, Elements, Name
  <2>2. ~Due(r) /\ (Due(r)' <=> r \in active)
    BY <1>3, <1>5 DEF Due
  <2>3. r \in Sink
    BY TranscriptAssumption
  <2> QED
    BY <1>1, <1>2, <1>4, <2>1, <2>2, <2>3, CallBegins DEF TranscriptInvariant
<1> QED
  BY <1>2, <1>6, <1>7 DEF TranscriptInvariant

LEMMA RecordsKeeps ==
  ASSUME MultiplexerInvariant, TranscriptInvariant, NEW c \in Caller, Records(c)
  PROVE  TranscriptInvariant'
<1>1. PICK s : s = Foremost(walking[c])
  OBVIOUS
<1>2. /\ walking[c] # {} /\ walking' = [walking EXCEPT ![c] = @ \ {Foremost(@)}]
      /\ UNCHANGED <<active, panicReports, strictMode, busy, thrown, called, evicting>>
      /\ transcript' = IF s \in Recorders
                        THEN [transcript EXCEPT ![s] = append(@, Last(called))]
                        ELSE transcript
      /\ called \in Seq(HookCalls) /\ transcript \in [Recorders -> Seq(RawEvents)] /\ OneCall
  BY <1>1 DEF Records, SinkReturns, TranscriptInvariant, guardVars
<1>3. /\ c \in busy /\ called # << >>
      /\ s \in Sink /\ Due(s) /\ ~Due(s)'
      /\ \A r : r # s => (Due(r)' <=> Due(r))
      /\ \A d \in Caller \ busy : walking'[d] = {}
  BY <1>1, <1>2, OneLessDue
<1>4. OneCall'
  BY <1>2, <1>3 DEF OneCall
<1>5. ASSUME NEW r \in Recorders PROVE Right(r)'
  <2>1. Healthy(r)' <=> Healthy(r)
    BY <1>2 DEF Healthy, Panicked, Elements, Name
  <2>2. Right(r)
    BY DEF TranscriptInvariant
  <2>3. CASE r = s
    <3>1. transcript'[r] = append(transcript[r], Last(called))
      BY <1>2, <2>3
    <3> QED
      BY <1>2, <1>3, <2>1, <2>2, <2>3, <3>1, TurnTaken
  <2>4. CASE r # s
    <3>1. transcript'[r] = transcript[r]
      BY <1>2, <2>4
    <3> QED
      BY <1>2, <1>3, <2>1, <2>2, <2>4, <3>1, RightRests
  <2> QED
    BY <2>3, <2>4
<1>6. transcript' \in [Recorders -> Seq(RawEvents)]
  BY <1>2, <1>5 DEF Right
<1> QED
  BY <1>2, <1>4, <1>5, <1>6 DEF TranscriptInvariant

LEMMA FailsKeeps ==
  ASSUME MultiplexerInvariant, TranscriptInvariant, NEW c \in Caller, Fails(c)
  PROVE  TranscriptInvariant'
<1>1. PICK s : s = Foremost(walking[c])
  OBVIOUS
<1>2. /\ walking[c] # {} /\ walking' = [walking EXCEPT ![c] = @ \ {Foremost(@)}]
      /\ record(c, s) /\ UNCHANGED <<active, strictMode, busy, thrown, called>>
      /\ \/ UNCHANGED transcript
         \/ /\ s \in Recorders
            /\ transcript' = [transcript EXCEPT ![s] = append(@, Last(called))]
      /\ called \in Seq(HookCalls) /\ transcript \in [Recorders -> Seq(RawEvents)] /\ OneCall
      /\ \A r \in Recorders : Right(r)
  BY <1>1 DEF Fails, SinkPanics, TranscriptInvariant
<1>3. /\ c \in busy /\ called # << >>
      /\ s \in Sink /\ Due(s) /\ ~Due(s)'
      /\ \A r : r # s => (Due(r)' <=> Due(r))
      /\ \A d \in Caller \ busy : walking'[d] = {}
  BY <1>1, <1>2, OneLessDue
<1>4. \A r : Healthy(r)' => Healthy(r) /\ r # s
  BY <1>2, <1>3, InvariantIs, Recorded
<1>5. OneCall'
  BY <1>2, <1>3 DEF OneCall, record
<1>6. ASSUME NEW r \in Recorders PROVE Right(r)'
  <2>1. CASE r # s
    <3>1. transcript'[r] = transcript[r]
      BY <1>2, <2>1
    <3> QED
      BY <1>2, <1>3, <1>4, <2>1, <3>1, RightRests
  <2>2. CASE r = s /\ transcript'[r] = transcript[r]
    BY <1>2, <1>3, <1>4, <2>2, TurnLost
  <2>3. CASE r = s /\ transcript'[r] = append(transcript[r], Last(called))
    BY <1>2, <1>3, <1>4, <2>3, TurnTaken
  <2> QED
    BY <1>2, <2>1, <2>2, <2>3
<1>7. transcript' \in [Recorders -> Seq(RawEvents)]
  BY <1>2, <1>6 DEF Right
<1> QED
  BY <1>2, <1>5, <1>6, <1>7 DEF TranscriptInvariant

LEMMA RethrownKeeps ==
  ASSUME MultiplexerInvariant, TranscriptInvariant, NEW c \in Caller, Rethrown(c),
         UNCHANGED transcriptVars
  PROVE  TranscriptInvariant'
<1>1. /\ strictMode /\ strictMode' = strictMode /\ evicting[c] # {}
      /\ walking' = [walking EXCEPT ![c] = {}]
      /\ evicting' = [evicting EXCEPT ![c] = {}]
      /\ busy' = busy \ {c} /\ thrown' = thrown \cup {c}
      /\ UNCHANGED <<panicReports, called, transcript>>
  BY DEF Rethrown, evacuate, transcriptVars
<1>2. /\ walking \in [Caller -> SUBSET Sink] /\ evicting \in [Caller -> SUBSET Sink]
      /\ called \in Seq(HookCalls) /\ transcript \in [Recorders -> Seq(RawEvents)] /\ OneCall
      /\ \A r \in Recorders : Right(r)
  BY DEF MultiplexerInvariant, TranscriptInvariant
<1>3. /\ c \in busy /\ called # << >> /\ c \notin thrown /\ IsFiniteSet(thrown)
      /\ \A d \in Caller : d # c => walking[d] = {} /\ evicting[d] = {}
  BY <1>1, <1>2 DEF OneCall
<1>4. \A d \in Caller : walking'[d] = {} /\ evicting'[d] = {}
  BY <1>1, <1>2, <1>3
<1>5. /\ IsFiniteSet(thrown') /\ Cardinality(thrown) \in Nat
      /\ Cardinality(thrown') = Cardinality(thrown) + 1
  BY <1>1, <1>3, FS_AddElement, FS_CardinalityType
<1>6. OneCall'
  BY <1>1, <1>2, <1>3, <1>4, <1>5 DEF OneCall
<1>7. ASSUME NEW r \in Recorders PROVE Right(r)'
  <2>1. ~Due(r)' /\ (Healthy(r)' => Healthy(r)) /\ transcript'[r] = transcript[r]
    BY <1>1, <1>4, Unreported DEF Due
  <2> QED
    BY <1>1, <1>2, <1>3, <1>5, <2>1, PassedBy
<1> QED
  BY <1>1, <1>2, <1>6, <1>7 DEF TranscriptInvariant

\* A sink that is evicted while its call goes on, a call that ends, and a step that
\* changes nothing.
LEMMA EndKeeps ==
  ASSUME MultiplexerInvariant, TranscriptInvariant, UNCHANGED transcriptVars,
         UNCHANGED <<panicReports, strictMode, walking, thrown>>,
         \A d \in Caller : evicting[d] = {} => evicting'[d] = {},
         \/ busy' = busy
         \/ \E c \in busy : busy' = busy \ {c} /\ walking[c] = {} /\ evicting[c] = {}
  PROVE  TranscriptInvariant'
<1>1. OneCall'
  BY DEF OneCall, TranscriptInvariant, transcriptVars
<1>2. ASSUME NEW r \in Recorders PROVE Right(r)'
  <2>1. (Healthy(r)' <=> Healthy(r)) /\ (Due(r)' <=> Due(r))
    BY DEF Healthy, Panicked, Elements, Name, Due
  <2> QED
    BY <2>1, RightRests DEF TranscriptInvariant, transcriptVars
<1> QED
  BY <1>1, <1>2 DEF TranscriptInvariant, transcriptVars

LEMMA TranscriptIsRight == TranscriptSpec => [](MultiplexerInvariant /\ TranscriptInvariant)
<1>1. Init /\ TranscriptInit => MultiplexerInvariant /\ TranscriptInvariant
  BY MultiplexerInitially, TranscriptInitially
<1>2. ASSUME MultiplexerInvariant, TranscriptInvariant,
             [TranscriptStep]_<<vars, transcriptVars>>
      PROVE  MultiplexerInvariant' /\ TranscriptInvariant'
  <2>1. MultiplexerInvariant'
    BY <1>2, TranscriptStepIsNext, MultiplexerKept
  <2>2. ASSUME NEW c \in Caller, RecordedCall(c) PROVE TranscriptInvariant'
    BY <1>2, <2>1, <2>2, BeginKeeps
  <2>3. ASSUME NEW c \in Caller, Records(c) PROVE TranscriptInvariant'
    BY <1>2, <2>3, RecordsKeeps
  <2>4. ASSUME NEW c \in Caller, Fails(c) PROVE TranscriptInvariant'
    BY <1>2, <2>4, FailsKeeps
  <2>5. ASSUME NEW c \in Caller, Rethrown(c), UNCHANGED transcriptVars PROVE TranscriptInvariant'
    BY <1>2, <2>5, RethrownKeeps
  <2>6. ASSUME NEW c \in Caller, Recovered(c), UNCHANGED transcriptVars PROVE TranscriptInvariant'
    <3>1. \A d \in Caller : evicting[d] = {} => evicting'[d] = {}
      BY <1>2, <2>6 DEF Recovered, evacuate, MultiplexerInvariant
    <3> QED
      BY <1>2, <2>6, <3>1, EndKeeps DEF Recovered, evacuate
  <2>7. ASSUME NEW c \in Caller, HookDone(c), UNCHANGED transcriptVars PROVE TranscriptInvariant'
    BY <1>2, <2>7, EndKeeps DEF HookDone, guardVars
  <2>8. ASSUME UNCHANGED <<vars, transcriptVars>> PROVE TranscriptInvariant'
    BY <1>2, <2>8, EndKeeps DEF vars, guardVars
  <2>9. Quiet /\ UNCHANGED transcriptVars => UNCHANGED <<vars, transcriptVars>>
    BY DEF Quiet
  <2> QED
    BY <1>2, <2>1, <2>2, <2>3, <2>4, <2>5, <2>6, <2>7, <2>8, <2>9 DEF TranscriptStep
<1> QED
  BY <1>1, <1>2, PTL DEF TranscriptSpec

LEMMA PrefixIs ==
  ASSUME NEW s \in Seq(HookCalls), NEW t \in Seq(HookCalls), Len(s) <= Len(t),
         \A i \in DOMAIN s : s[i] = t[i]
  PROVE  IsPrefix(s, t)
<1> DEFINE n == Len(s)
<1>1. n \in Nat /\ n \in Int /\ 1 \in Int /\ \A i \in 1..n : s[i] \in HookCalls /\ t[i] = s[i]
  OBVIOUS
<1> HIDE DEF n
<1>2. /\ SubSeq(s, 1, n) \in Seq(HookCalls)
      /\ Len(SubSeq(s, 1, n)) = IF 1 <= n THEN n - 1 + 1 ELSE 0
      /\ \A i \in 1..n - 1 + 1 : SubSeq(s, 1, n)[i] = s[1 + i - 1]
  BY <1>1, SubSeqProperties
<1>3. /\ SubSeq(t, 1, n) \in Seq(HookCalls)
      /\ Len(SubSeq(t, 1, n)) = IF 1 <= n THEN n - 1 + 1 ELSE 0
      /\ \A i \in 1..n - 1 + 1 : SubSeq(t, 1, n)[i] = t[1 + i - 1]
  BY <1>1, SubSeqProperties
<1>4. Len(SubSeq(s, 1, n)) = n /\ Len(SubSeq(t, 1, n)) = n
  BY <1>1, <1>2, <1>3
<1>5. ASSUME NEW i \in 1..n PROVE SubSeq(s, 1, n)[i] = SubSeq(t, 1, n)[i]
  <2>1. 1 + i - 1 = i /\ i \in 1..n - 1 + 1
    BY <1>1
  <2> QED
    BY <1>1, <1>2, <1>3, <2>1
<1>6. SubSeq(s, 1, n) = SubSeq(t, 1, n)
  BY <1>2, <1>3, <1>4, <1>5, SeqEqual
<1> QED
  BY <1>6 DEF IsPrefix, n

\* Between calls no recorder is due, and its transcript is what RecordedAll says.
LEMMA RightIsRecorded ==
  ASSUME NEW r \in Recorders, Right(r), called \in Seq(HookCalls), ~Due(r)
  PROVE  LET t == transcript[r] IN
         /\ \A i \in DOMAIN t : t[i].sequence = i - 1
         /\ ~strictMode => /\ IsPrefix(CallsIn(t), called)
                           /\ Healthy(r) => Len(t) = Len(called)
         /\ strictMode /\ Healthy(r) =>
              \E n \in 0..Cardinality(thrown) : WithoutSome(CallsIn(t), called, n)
<1>1. PICK t \in Seq(RawEvents) : t = transcript[r] /\ Numbered(t)
  BY DEF Right
<1>2. PICK s \in Seq(HookCalls) : s = CallsIn(t) /\ Len(s) = Len(t) /\ DOMAIN s = DOMAIN t
  BY <1>1, CallsInIs
<1>3. Passed(r) = called
  BY DEF Passed
<1>4. \A i \in DOMAIN t : t[i].sequence = i - 1
  BY <1>1 DEF Numbered
<1>5. ASSUME ~strictMode
      PROVE  IsPrefix(CallsIn(t), called) /\ (Healthy(r) => Len(t) = Len(called))
  <2>1. /\ Len(t) <= Len(called)
        /\ \A i \in DOMAIN t : CallsIn(t)[i] = called[i]
        /\ Healthy(r) => Len(t) = Len(called)
    BY <1>1, <1>3, <1>5 DEF Right
  <2>2. Len(s) <= Len(called) /\ \A i \in DOMAIN s : s[i] = called[i]
    BY <1>2, <2>1
  <2> QED
    BY <1>2, <2>1, <2>2, PrefixIs
<1>6. strictMode /\ Healthy(r) =>
        \E n \in 0..Cardinality(thrown) : WithoutSome(CallsIn(t), called, n)
  BY <1>1, <1>3 DEF Right
<1> QED
  BY <1>1, <1>4, <1>5, <1>6

\* A recorder beside which others fail misses no hook call, unless panics are
\* thrown on to the caller: then it misses at most those, and numbers what is left
\* as if it had missed none.
THEOREM RecordersMissNothing == TranscriptSpec => []RecordedAll
<1>1. ASSUME TranscriptInvariant, busy = {}, NEW r \in Recorders
      PROVE  Right(r) /\ called \in Seq(HookCalls) /\ ~Due(r)
  BY <1>1 DEF TranscriptInvariant, OneCall, Due
<1>2. TranscriptInvariant => RecordedAll
  BY <1>1, RightIsRecorded DEF RecordedAll
<1> QED
  BY <1>2, TranscriptIsRight, PTL

\* No two kinds have one label (NormalizeRaw).
LEMMA LabelsDiffer == \A k, m \in DOMAIN Labels : Labels[k] = Labels[m] => k = m
  BY DEF Labels

\* An opcode that is also a label is that of a self-destruct.
LEMMA LabelIsNoOpcode ==
  \A k \in DOMAIN Labels : Labels[k] \in FrameOpcodes =>
    k = "SelfDestruct" /\ Labels[k] = "SELFDESTRUCT"
  BY DEF Labels, FrameOpcodes

\* A comparison finds nothing when the fields that are compared are equal
\* (CompareSemanticFields).
LEMMA NothingFound ==
  ASSUME NEW l, NEW t
  PROVE  CompareSemanticFields(l, t) = "nil" <=>
           /\ l["sequence"] = t["sequence"] /\ l["opcode"] = t["opcode"]
           /\ l["depth"] = t["depth"] /\ l["args"] = t["args"]
           /\ l["reverted"] = t["reverted"] /\ l["errType"] = t["errType"]
<1> DEFINE fields == <<"sequence", "opcode", "depth", "args", "reverted", "errType">>
           differ == {i \in DOMAIN fields : l[fields[i]] # t[fields[i]]}
           least == CHOOSE i \in differ : \A j \in differ : i <= j
<1>1. /\ DOMAIN fields = 1..6 /\ fields[1] = "sequence" /\ fields[2] = "opcode"
      /\ fields[3] = "depth" /\ fields[4] = "args" /\ fields[5] = "reverted"
      /\ fields[6] = "errType"
  OBVIOUS
<1>2. CompareSemanticFields(l, t) = IF differ = {} THEN "nil" ELSE fields[least]
  BY DEF CompareSemanticFields
<1> HIDE DEF fields
<1>3. differ = {} <=> \A i \in 1..6 : l[fields[i]] = t[fields[i]]
  BY <1>1
<1>4. differ \subseteq 1..6 /\ differ \in SUBSET Nat
  BY <1>1
<1> HIDE DEF differ
<1>5. differ # {} => least \in differ
  BY <1>4, LeastIs
<1>6. differ # {} => fields[least] # "nil"
  <2>1. \A i \in 1..6 : fields[i] # "nil"
    BY <1>1
  <2> QED
    BY <1>4, <1>5, <2>1
<1>7. (\A i \in 1..6 : l[fields[i]] = t[fields[i]]) <=>
        /\ l["sequence"] = t["sequence"] /\ l["opcode"] = t["opcode"]
        /\ l["depth"] = t["depth"] /\ l["args"] = t["args"]
        /\ l["reverted"] = t["reverted"] /\ l["errType"] = t["errType"]
  BY <1>1
<1> QED
  BY <1>2, <1>3, <1>6, <1>7

\* Events of equal depth are labelled alike exactly when they are of one kind, and
\* when that is a frame's start, of one opcode (NormalizeRaw).
LEMMA LabelledAlike ==
  ASSUME NEW e \in RawEvents, NEW f \in RawEvents, e.depth = f.depth
  PROVE  NormalizeRaw(e).opcode = NormalizeRaw(f).opcode <=>
           e.kind = f.kind /\ (e.kind = "Enter" => e.opcode = f.opcode)
<1>1. /\ e.kind \in DOMAIN Labels \cup {"Enter"} /\ f.kind \in DOMAIN Labels \cup {"Enter"}
      /\ e.kind = "Enter" => e.opcode \in FrameOpcodes
      /\ f.kind = "Enter" => f.opcode \in FrameOpcodes
      /\ e.kind = "Enter" /\ e.opcode = "SELFDESTRUCT" => f.kind # "SelfDestruct"
      /\ f.kind = "Enter" /\ f.opcode = "SELFDESTRUCT" => e.kind # "SelfDestruct"
  BY DEF RawEvents
<1>2. "Enter" \notin DOMAIN Labels
  BY DEF Labels
<1>3. /\ NormalizeRaw(e).opcode = IF e.kind = "Enter" THEN e.opcode ELSE Labels[e.kind]
      /\ NormalizeRaw(f).opcode = IF f.kind = "Enter" THEN f.opcode ELSE Labels[f.kind]
  BY DEF NormalizeRaw
<1> QED
  BY <1>1, <1>2, <1>3, LabelsDiffer, LabelIsNoOpcode

\* A comparison of what was recorded with what a legacy tracer saw finds nothing,
\* exactly when the two are the same call but for the detail that SemanticEvent
\* leaves out.
THEOREM DriftAlwaysFound == TranscriptSpec => []DriftFound
<1>1. ASSUME TranscriptInvariant PROVE DriftFound
  <2> SUFFICES ASSUME NEW r \in Recorders, NEW i \in DOMAIN transcript[r],
                      NEW legacy \in LegacyCalls,
                      NEW recorded, recorded = transcript[r][i],
                      NEW expected, expected = [legacy EXCEPT !.sequence = i - 1]
               PROVE  CompareSemanticFields(NormalizeRaw(expected), NormalizeRaw(recorded))
                        = "nil" <=>
                      /\ legacy["kind"] = recorded["kind"]
                      /\ legacy["depth"] = recorded["depth"]
                      /\ legacy["args"] = recorded["args"]
                      /\ legacy["reverted"] = recorded["reverted"]
                      /\ legacy["errType"] = recorded["errType"]
                      /\ legacy.kind = "Enter" => legacy["opcode"] = recorded["opcode"]
    BY DEF DriftFound
  <2>1. recorded \in RawEvents /\ recorded.sequence = i - 1 /\ i - 1 \in Nat
    <3>1. PICK t \in Seq(RawEvents) : t = transcript[r] /\ Numbered(t)
      <4>1. transcript[r] \in Seq(RawEvents) /\ Numbered(transcript[r])
        BY <1>1 DEF TranscriptInvariant, Right
      <4> QED
        BY <4>1
    <3>2. i \in 1..Len(t)
      BY <3>1
    <3>3. t[i] \in RawEvents /\ t[i].sequence = i - 1 /\ recorded = t[i]
      BY <3>1, <3>2 DEF Numbered
    <3>4. i - 1 \in Nat
      BY <3>2
    <3> QED
      BY <3>3, <3>4
  <2>2. legacy \in RawEvents /\ legacy.sequence = 0
    BY HookCallsAssumption
  <2>3. /\ expected \in RawEvents /\ expected.sequence = i - 1
        /\ expected.kind = legacy.kind /\ expected.depth = legacy.depth
        /\ expected.args = legacy.args /\ expected.reverted = legacy.reverted
        /\ expected.errType = legacy.errType /\ expected.opcode = legacy.opcode
    <3>1. expected \in RawEvents /\ expected.sequence = i - 1
      BY <2>1, <2>2, Renumbered
    <3> QED
      BY <2>2, <3>1 DEF RawEvents
  <2>4. ASSUME NEW e PROVE
          /\ NormalizeRaw(e)["sequence"] = e.sequence /\ NormalizeRaw(e)["depth"] = e.depth
          /\ NormalizeRaw(e)["args"] = e.args /\ NormalizeRaw(e)["reverted"] = e.reverted
          /\ NormalizeRaw(e)["errType"] = e.errType
    BY DEF NormalizeRaw
  <2>5. CompareSemanticFields(NormalizeRaw(expected), NormalizeRaw(recorded)) = "nil" <=>
          /\ NormalizeRaw(expected).opcode = NormalizeRaw(recorded).opcode
          /\ expected.depth = recorded.depth /\ expected.args = recorded.args
          /\ expected.reverted = recorded.reverted /\ expected.errType = recorded.errType
    <3>1. PICK l, t : l = NormalizeRaw(expected) /\ t = NormalizeRaw(recorded)
      OBVIOUS
    <3>2. /\ l["sequence"] = expected.sequence /\ l["depth"] = expected.depth
          /\ l["args"] = expected.args /\ l["reverted"] = expected.reverted
          /\ l["errType"] = expected.errType
          /\ t["sequence"] = recorded.sequence /\ t["depth"] = recorded.depth
          /\ t["args"] = recorded.args /\ t["reverted"] = recorded.reverted
          /\ t["errType"] = recorded.errType
      BY <2>4, <3>1
    <3>3. CompareSemanticFields(l, t) = "nil" <=>
            /\ l["sequence"] = t["sequence"] /\ l["opcode"] = t["opcode"]
            /\ l["depth"] = t["depth"] /\ l["args"] = t["args"]
            /\ l["reverted"] = t["reverted"] /\ l["errType"] = t["errType"]
      BY NothingFound
    <3> QED
      BY <2>1, <2>3, <3>1, <3>2, <3>3
  <2>6. expected.depth = recorded.depth =>
          (NormalizeRaw(expected).opcode = NormalizeRaw(recorded).opcode <=>
             /\ expected.kind = recorded.kind
             /\ expected.kind = "Enter" => expected.opcode = recorded.opcode)
    BY <2>1, <2>3, LabelledAlike
  <2> QED
    BY <2>3, <2>5, <2>6
<1> QED
  BY <1>1, TranscriptIsRight, PTL

=============================================================================
