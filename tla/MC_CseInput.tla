---------------------------- MODULE MC_CseInput -----------------------------
(***************************************************************************)
(* CseInput for TLC: the payloads that occur in a stream.                  *)
(***************************************************************************)
EXTENDS CseInput

CONSTANT StateAddress   \* the addresses whose balance changes

Boundaries == [type : {"BeginTransaction", "EndTransaction"}]

BalanceKeys == {k \in Key : k.kind = "Balance" /\ k.address \in StateAddress}

LifecyclePayloads ==
  Boundaries \cup [type : {"ContractCreated", "ContractDestroyed"}, address : Address]

AllPayloads ==
  LifecyclePayloads
    \cup [type : {"StateChanged"}, key : BalanceKeys, before : Value, after : Value]
    \cup [type : {"GasRefundChanged"}, before : {0}, after : {0, 1}]
    \cup [type : {"LogEmitted"}, address : StateAddress]
    \cup [type : {"AccessListTouched"}]

=============================================================================
