----------------------------- MODULE HookFaults -----------------------------
(***************************************************************************)
(* The tracer under a client adapter that loses or repeats frame hooks:    *)
(* inside a transaction OnEnter and OnExit come in any number and order.   *)
(* The tracer's diagnostics are for exactly this case                      *)
(* (tracer/kaysentinel_tracer.go, ErrorLog).                               *)
(***************************************************************************)
EXTENDS Tracer, FiniteSets

CONSTANTS
  MaxCalls,    \* hooks between the start and the end of the first block
  LaterCalls,  \* and of each later block
  MaxBlocks

\* Fewer than 2^64 hooks in a block: frame ids do not wrap.
ASSUME HookFaultsAssumption ==
  MaxCalls \in 0..U64_MAX /\ LaterCalls \in 0..U64_MAX /\ MaxBlocks \in Nat

VARIABLES
  where,   \* "start", "block", "tx" or "end"
  blocks,  \* blocks started so far
  calls    \* history: the hooks called in this block

hookVars == <<tracerVars, where, blocks, calls>>

HooksInit ==
  /\ TracerInit
  /\ where = "start"
  /\ blocks = 0
  /\ calls = << >>

Called(hook) == calls' = Append(calls, hook)

More == Len(calls) < IF blocks = 1 THEN MaxCalls ELSE LaterCalls

BlockStartHook ==
  /\ where \in {"start", "end"}
  /\ blocks < MaxBlocks
  /\ where' = "block"
  /\ blocks' = blocks + 1
  /\ OnBlockStart(blocks + 1)
  /\ calls' = << >>

TxStartHook ==
  /\ where = "block"
  /\ More
  /\ where' = "tx"
  /\ OnTxStart(1)
  /\ Called("txStart")
  /\ UNCHANGED blocks

EnterHook ==
  /\ where = "tx"
  /\ More
  /\ OnEnter(Len(frameStack))
  /\ Called("enter")
  /\ UNCHANGED <<where, blocks>>

ExitHook(reverted) ==
  /\ where = "tx"
  /\ More
  /\ OnExit(reverted)
  /\ Called("exit")
  /\ UNCHANGED <<where, blocks>>

TxEndHook(failed) ==
  /\ where = "tx"
  /\ where' = "block"
  /\ OnTxEnd(failed)
  /\ Called("txEnd")
  /\ UNCHANGED blocks

BlockEndHook ==
  /\ where = "block"
  /\ where' = "end"
  /\ OnBlockEnd
  /\ Called("blockEnd")
  /\ UNCHANGED blocks

HookStep ==
  \/ BlockStartHook
  \/ TxStartHook
  \/ EnterHook
  \/ \E reverted \in BOOLEAN : ExitHook(reverted)
  \/ \E failed \in BOOLEAN : TxEndHook(failed)
  \/ BlockEndHook

-----------------------------------------------------------------------------
(***************************************************************************)
(* Properties                                                              *)
(***************************************************************************)

\* Elements of s from a to b that are x.
Occurrences(s, x, a, b) == Cardinality({i \in a..b : s[i] = x})

\* Hook t began the transaction of hook i.
BeganTx(c, t, i) ==
  /\ c[t] = "txStart"
  /\ \A m \in t+1..i : c[m] # "txStart"

TxOf(c, i) == CHOOSE t \in 1..i : BeganTx(c, t, i)

\* In every transaction no exit comes before its enter, and at its end there
\* are as many of the one as of the other.
BalancedCalls(c) ==
  \A i \in DOMAIN c :
    LET t == TxOf(c, i)
        enters == Occurrences(c, "enter", t, i)
        exits  == Occurrences(c, "exit", t, i)
    IN  /\ c[i] = "exit" => exits <= enters
        /\ c[i] = "txEnd" => exits = enters

\* A lost or repeated frame hook is diagnosed when it can be known, and nothing
\* else is: up to a panic of emit, which logs itself, the error log is empty
\* exactly as long as the calls of the block, counted without a stack, balance.
FaultsDiagnosed == ~panicked => (errorLog = << >> <=> BalancedCalls(calls))

\* However the hooks come, an exit in the stream closes a frame entered in the
\* same transaction and not closed yet: ids of an earlier transaction, whose
\* frames a lost OnExit left open, do not come back.
ExitsMatchEnters ==
  \A j \in DOMAIN events : events[j].type = "FrameExit" =>
    \E i \in 1..j-1 :
      /\ events[i].type = "FrameEnter"
      /\ events[i].frameID = events[j].frameID
      /\ \A m \in i+1..j-1 :
           /\ events[m].type # "TransactionStart"
           /\ events[m].type \in {"FrameEnter", "FrameExit"}
                => events[m].frameID # events[i].frameID

=============================================================================
