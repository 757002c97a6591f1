--------------------------- MODULE AtomicJournal ----------------------------
(***************************************************************************)
(* What the bridge promises, without buffers: a journal of state changes   *)
(* that takes in one whole transaction at a time.  Inside a transaction    *)
(* the state can be marked and rolled back to a mark, and none of it shows *)
(* in the log.  A commit appends to the log, and what it appends leads     *)
(* without a gap from the state of the commit before to that of this one.  *)
(***************************************************************************)
EXTENDS Replay

VARIABLES
  log,         \* the events handed on so far
  store,       \* the state that the log leads to
  view,        \* the state as the open transaction sees it
  savepoints,  \* states that can be rolled back to, innermost last
  open         \* whether a transaction is open

vars == <<log, store, view, savepoints, open>>

Init ==
  /\ log = << >>
  /\ store \in World
  /\ view = store
  /\ savepoints = << >>
  /\ open = FALSE

-----------------------------------------------------------------------------

Begin ==
  /\ ~open
  /\ open' = TRUE
  /\ UNCHANGED <<log, store, view, savepoints>>

Put(k, v) ==
  /\ open
  /\ view' = [view EXCEPT ![k] = v]
  /\ UNCHANGED <<log, store, savepoints, open>>

Mark ==
  /\ open
  /\ savepoints' = Append(savepoints, view)
  /\ UNCHANGED <<log, store, view, open>>

\* The innermost mark goes, and what was done since stays.
Release ==
  /\ savepoints # << >>
  /\ savepoints' = SubSeq(savepoints, 1, Len(savepoints) - 1)
  /\ UNCHANGED <<log, store, view, open>>

\* The innermost mark goes, and so does what was done since.
Rollback ==
  /\ savepoints # << >>
  /\ view' = savepoints[Len(savepoints)]
  /\ savepoints' = SubSeq(savepoints, 1, Len(savepoints) - 1)
  /\ UNCHANGED <<log, store, open>>

Commit ==
  /\ open
  /\ savepoints = << >>
  /\ open' = FALSE
  /\ store' = view
  /\ Len(log') >= Len(log)
  /\ SubSeq(log', 1, Len(log)) = log
  /\ LET added == SubSeq(log', Len(log) + 1, Len(log'))
     IN  Yields(store, added, view) /\ Continues(store, added)
  /\ UNCHANGED <<view, savepoints>>

Next ==
  \/ Begin
  \/ \E k \in Key, v \in Value : Put(k, v)
  \/ Mark
  \/ Release
  \/ Rollback
  \/ Commit

Spec == Init /\ [][Next]_vars

=============================================================================
