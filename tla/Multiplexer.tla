---------------------------- MODULE Multiplexer -----------------------------
(***************************************************************************)
(* multiplexer/broadcast.go: one hook call fanned out to every active      *)
(* sink, with panics isolated per sink.  A call takes the list of active   *)
(* sinks once and walks it; a sink that panics is reported and evicted     *)
(* under the mutex.  Only panicking callers take the mutex: others load    *)
(* the list whenever they are called.  Nothing confines the hooks to one   *)
(* goroutine, so several callers may be walking their lists at a time.     *)
(* A sink is its place among the initial sinks.  A list of sinks only ever *)
(* loses some and keeps its order, so it is the set of the places on it,   *)
(* and it is walked from the least.                                        *)
(***************************************************************************)
EXTENDS Naturals, Sequences, FiniteSets

CONSTANTS
  Names,       \* the names the initial sinks report, a sequence
  Caller,      \* goroutines that call hooks
  MaxHooks     \* hooks called in all

ASSUME MultiplexerAssumption == Names \in Seq(STRING) /\ MaxHooks \in Nat

VARIABLES
  active,        \* sinks that later calls will see
  panicReports,  \* the sinks of the reports, in order
  strictMode,    \* whether a panic is thrown on to the caller
  busy,          \* callers inside a hook call
  walking,       \* per caller: the rest of the list it took
  evicting,      \* per caller: the sink it evicts under the mutex, if any
  loaded,        \* per caller: the list it rebuilds under the mutex
  hooks,         \* hooks called so far
  served,        \* history: per caller, sinks its current call has invoked
  thrown         \* callers that a panic reached

guardVars == <<evicting, loaded>>

vars == <<active, panicReports, strictMode, busy, walking, hooks, served, thrown, guardVars>>

Sink == DOMAIN Names

Name(s) == Names[s]

\* The sink a walk calls next.
Foremost(list) == CHOOSE s \in list : \A t \in list : s <= t

\* A caller holds the mutex.
Locked == \E c \in Caller : evicting[c] # {}

\* NewBroadcastSink
Init ==
  /\ active = Sink
  /\ panicReports = << >>
  /\ strictMode \in BOOLEAN
  /\ busy = {}
  /\ walking = [c \in Caller |-> {}]
  /\ evicting = [c \in Caller |-> {}]
  /\ loaded = [c \in Caller |-> {}]
  /\ hooks = 0
  /\ served = [c \in Caller |-> {}]
  /\ thrown = {}

\* Mutant of record: the mutex is not taken.
recordUnlocked(c, sink) ==
  /\ panicReports' = Append(panicReports, sink)
  /\ evicting' = [evicting EXCEPT ![c] = {sink}]
  /\ loaded' = [loaded EXCEPT ![c] = active]

\* recordAndEvacuate takes the mutex, reports the sink and loads the active list.
record(c, sink) ==
  /\ ~Locked
  /\ panicReports' = Append(panicReports, sink)
  /\ evicting' = [evicting EXCEPT ![c] = {sink}]
  /\ loaded' = [loaded EXCEPT ![c] = active]

\* recordAndEvacuate stores the list without the sinks of that name, and gives the
\* mutex back.
evacuate(c) ==
  /\ evicting[c] # {}
  /\ active' = {s \in loaded[c] : \A sink \in evicting[c] : Name(s) # Name(sink)}
  /\ evicting' = [evicting EXCEPT ![c] = {}]
  /\ loaded' = [loaded EXCEPT ![c] = {}]
  /\ UNCHANGED panicReports

\* A hook is called: sinks() loads the list.
CallHook(c) ==
  /\ c \notin busy \cup thrown
  /\ hooks < MaxHooks
  /\ hooks' = hooks + 1
  /\ busy' = busy \cup {c}
  /\ walking' = [walking EXCEPT ![c] = active]
  /\ served' = [served EXCEPT ![c] = {}]
  /\ UNCHANGED <<active, panicReports, strictMode, thrown, guardVars>>

\* guard: the next sink returns.
SinkReturns(c) ==
  /\ walking[c] # {} /\ evicting[c] = {}
  /\ served' = [served EXCEPT ![c] = @ \cup {Foremost(walking[c])}]
  /\ walking' = [walking EXCEPT ![c] = @ \ {Foremost(@)}]
  /\ UNCHANGED <<active, panicReports, strictMode, busy, hooks, thrown, guardVars>>

\* guard: the next sink panics, and its caller gets the mutex.
SinkPanics(c) ==
  /\ walking[c] # {} /\ evicting[c] = {}
  /\ record(c, Foremost(walking[c]))
  /\ served' = [served EXCEPT ![c] = @ \cup {Foremost(walking[c])}]
  /\ walking' = [walking EXCEPT ![c] = @ \ {Foremost(@)}]
  /\ UNCHANGED <<active, strictMode, busy, hooks, thrown>>

\* Mutant of Recovered: the loop ends at the panic.
RecoveredBreaks(c) ==
  /\ ~strictMode
  /\ evacuate(c)
  /\ walking' = [walking EXCEPT ![c] = {}]
  /\ UNCHANGED <<strictMode, busy, hooks, served, thrown>>

\* guard: the sink is evicted and the loop goes on.
Recovered(c) ==
  /\ ~strictMode
  /\ evacuate(c)
  /\ UNCHANGED <<strictMode, busy, walking, hooks, served, thrown>>

\* guard: the sink is evicted and the panic goes on to the caller, past the sinks
\* that are left.
Rethrown(c) ==
  /\ strictMode
  /\ evacuate(c)
  /\ walking' = [walking EXCEPT ![c] = {}]
  /\ busy' = busy \ {c}
  /\ thrown' = thrown \cup {c}
  /\ UNCHANGED <<strictMode, hooks, served>>

HookDone(c) ==
  /\ c \in busy
  /\ walking[c] = {} /\ evicting[c] = {}
  /\ busy' = busy \ {c}
  /\ UNCHANGED <<active, panicReports, strictMode, walking, hooks, served, thrown, guardVars>>

Quiet ==
  /\ busy = {}
  /\ hooks = MaxHooks \/ thrown = Caller
  /\ UNCHANGED vars

Next ==
  \/ \E c \in Caller :
       \/ CallHook(c)
       \/ SinkReturns(c)
       \/ SinkPanics(c)
       \/ Recovered(c)
       \/ Rethrown(c)
       \/ HookDone(c)
  \/ Quiet

Spec == Init /\ [][Next]_vars

-----------------------------------------------------------------------------
(***************************************************************************)
(* Properties                                                              *)
(***************************************************************************)

Elements(s) == {s[i] : i \in DOMAIN s}

Panicked == Elements(panicReports)

\* No sink of its name has panicked.
Healthy(s) == \A p \in Panicked : Name(p) # Name(s)

\* Evictions by callers that overlap add up.  The active list never lacks a sink
\* whose name did not panic, and whenever the mutex is free it has no other: no
\* caller, storing the list it rebuilt from the one it loaded, brings back what
\* another evicted meanwhile (recordAndEvacuate, the mutex around Load and Store).
EvictionsAddUp ==
  /\ \A s \in Sink : Healthy(s) => s \in active
  /\ ~Locked => \A s \in active : Healthy(s)

\* A panic does not keep a hook from the others: when a call ends without being
\* thrown out of, every sink of a name that never panicked has been invoked,
\* whatever other callers evicted in between (guard).
HealthyServed ==
  \A c \in busy : walking[c] = {} => \A s \in Sink : Healthy(s) => s \in served[c]

\* What makes these two inductive.  The list that the holder of the mutex loaded is
\* still the active one when it stores its own; what is on it without being healthy
\* shares the name of the sink that is being evicted; and a sink that a walk has
\* left behind without invoking it had been evicted when the walk began.
MultiplexerInvariant ==
  /\ active \subseteq Sink
  /\ panicReports \in Seq(Sink)
  /\ strictMode \in BOOLEAN
  /\ walking \in [Caller -> SUBSET Sink]
  /\ served \in [Caller -> SUBSET Sink]
  /\ evicting \in [Caller -> SUBSET Sink]
  /\ loaded \in [Caller -> SUBSET Sink]
  /\ busy \subseteq Caller
  /\ \A c, d \in Caller : evicting[c] # {} /\ evicting[d] # {} => c = d
  /\ \A c \in Caller : evicting[c] # {} => loaded[c] = active
  /\ \A c \in Caller : \A p \in evicting[c] : p \in Panicked
  /\ \A s \in Sink : Healthy(s) => s \in active
  /\ \A s \in active : Healthy(s) \/ \E c \in Caller : \E p \in evicting[c] : Name(p) = Name(s)
  /\ \A c \in busy : \A s \in Sink : Healthy(s) => s \in served[c] \cup walking[c]

=============================================================================
