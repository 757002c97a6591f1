--------------------------- MODULE MC_Multiplexer ---------------------------
(***************************************************************************)
(* The multiplexer for TLC: three sinks, two of them of one name, called   *)
(* by concurrent callers, or one call after the other with recorders among *)
(* the sinks.                                                              *)
(***************************************************************************)
EXTENDS Transcript

NamesAlike == <<"x", "y", "x">>

\* Calls that differ in what is compared, in what is not, and in a nil.
MCHookCalls ==
  {TxStart(1), TxEnd(2, TRUE, "revert"), Enter(1, "DELEGATECALL", << >>),
   Enter(1, "SELFDESTRUCT", <<2>>), Exit(1, 2, TRUE, "revert"),
   Fault(1, "CALL", 2, "oog"), Change("BalanceChange", 2, <<1>>)}

MCLegacyCalls ==
  MCHookCalls \cup
    {TxEnd(2, FALSE, ""), Enter(1, "CALL", <<0>>), Enter(1, "DELEGATECALL", <<0>>),
     Exit(1, 2, TRUE, "oog"), Exit(0, 2, TRUE, "revert"), Fault(1, "SLOAD", 2, "oog"),
     Fault(1, "SLOAD", 2, "revert"), Change("BalanceChange", 2, << >>), Change("NonceChange", 2, <<1>>),
     Change("SelfDestruct", 2, <<1>>)}

VARIABLE serial   \* one hook call at a time, with recorders

MCInit == Init /\ TranscriptInit /\ serial \in BOOLEAN

MCNext ==
  /\ \/ serial /\ TranscriptStep
     \/ ~serial /\ Next /\ UNCHANGED transcriptVars
  /\ UNCHANGED serial

MCSpec == MCInit /\ [][MCNext]_<<vars, transcriptVars, serial>>

=============================================================================
