------------------------------- MODULE Gate2 --------------------------------
(***************************************************************************)
(* runtime/verify: Gate 2 replays the traces of a batch, from left to      *)
(* right and from nothing, and compares where that leads with the account  *)
(* certificates of the batch.                                              *)
(*                                                                         *)
(* An account is in replay_state once a trace touched it, and its cells    *)
(* are those that were written; reading another gives Zero, the default of *)
(* AccountState.  Errors are a set, for their order means nothing.         *)
(***************************************************************************)
EXTENDS Certificate

VARIABLES
  replay_state,   \* the accounts touched so far, each with the cells written
  gate2_errors,   \* errors found so far
  gate2_result    \* "replaying", "Ok" or "Err"

gate2Vars == <<replay_state, gate2_errors, gate2_result>>

Gate2Init ==
  /\ replay_state = << >>
  /\ gate2_errors = {}
  /\ gate2_result = "replaying"

\* state.entry(address).or_default()
Account(a) == IF a \in DOMAIN replay_state THEN replay_state[a] ELSE << >>

\* BTreeMap::insert
Insert(map, key, value) ==
  [x \in DOMAIN map \cup {key} |-> IF x = key THEN value ELSE map[x]]

CellOf(account, k) == IF k \in DOMAIN account THEN account[k] ELSE Zero

\* BalanceChanged, NonceUpdated, CodeUpdated, StorageSlotUpdated: the previous
\* value is looked at when the account was touched before, by whatever trace.
ReplayWrite(k, before, after) ==
  /\ gate2_errors' =
       IF k.address \in DOMAIN replay_state /\ CellOf(Account(k.address), k) # before
       THEN gate2_errors \cup {[error |-> "TraceInconsistency", address |-> k.address]}
       ELSE gate2_errors
  /\ replay_state' = Insert(replay_state, k.address, Insert(Account(k.address), k, after))
  /\ UNCHANGED gate2_result

\* ContractCreated, ContractDestroyed
ReplayTouch(a) ==
  /\ replay_state' = Insert(replay_state, a, Account(a))
  /\ UNCHANGED <<gate2_errors, gate2_result>>

\* Transient storage, boundaries, logs, refunds and access lists have no effect.
ReplayTrace(payload) ==
  /\ gate2_result = "replaying"
  /\ \/ /\ payload.type = "StateChanged" /\ payload.key.kind # "Transient"
        /\ ReplayWrite(payload.key, payload.before, payload.after)
     \/ /\ payload.type \in {"ContractCreated", "ContractDestroyed"}
        /\ ReplayTouch(payload.address)
     \/ /\ payload.type = "StateChanged" => payload.key.kind = "Transient"
        /\ payload.type \notin {"ContractCreated", "ContractDestroyed"}
        /\ UNCHANGED gate2Vars

-----------------------------------------------------------------------------

\* The storage that replay left in account a.
ReplayedSlots(a) ==
  LET key(s) == [kind |-> "Storage", address |-> a, slot |-> s]
  IN  [s \in {s \in Slot : key(s) \in DOMAIN Account(a)} |-> Account(a)[key(s)]]

\* The fields in which certificate c differs from what replay led to.
Mismatches(c) ==
  {f \in Field : c.fields[f] # CellOf(Account(c.address), FieldKey(c.address, f))}
    \cup {f \in {"StorageRoot"} :
            /\ c.storage_root # AwaitingDerivation
            /\ c.storage_root # Verified(derive(ReplayedSlots(c.address)))}

CertificateErrors(certificates) ==
  LET touched   == DOMAIN replay_state
      certified == {c.address : c \in certificates}
      compared  == {c \in certificates : c.address \in touched}
      report(error, addresses) == {[error |-> error, address |-> a] : a \in addresses}
  IN  report("MissingCertificate", touched \ certified)
        \cup report("UntouchedCertificate", certified \ touched)
        \cup report("UnresolvedStorageRoot",
                    {c.address : c \in {d \in compared : d.storage_root = AwaitingDerivation}})
        \cup report("CertificateMismatch",
                    {c.address : c \in {d \in compared : Mismatches(d) # {}}})

\* What follows the loop: inconsistent traces are returned without a look at
\* the certificates.
Compare(certificates) ==
  /\ gate2_result = "replaying"
  /\ gate2_errors' = IF gate2_errors # {} THEN gate2_errors
                                         ELSE CertificateErrors(certificates)
  /\ gate2_result' = IF gate2_errors' = {} THEN "Ok" ELSE "Err"
  /\ UNCHANGED replay_state

=============================================================================
