-------------------------------- MODULE Wire --------------------------------
(***************************************************************************)
(* The fixture file between the Go and the Rust half: the JSON that        *)
(* emes/types.go writes and that runtime/bridge/src/wire.rs reads.  An     *)
(* entry is a kind with the fields of its event; the strings that hashes   *)
(* and addresses are written as are in Hex.                                *)
(***************************************************************************)
EXTENDS Naturals, Sequences, Result

\* Every event type and the name it goes by.  What the model calls a Mutation
\* is four types in the source, told apart by the cell they are about.
MutationKind ==
  [Balance |-> "BalanceMutation", Nonce   |-> "NonceMutation",
   Code    |-> "CodeMutation",    Storage |-> "StorageMutation"]

Kind(e) == IF e.type = "Mutation" THEN MutationKind[e.key.kind] ELSE e.type

\* FixtureEnvelope.MarshalJSON: the name of the type goes beside its fields.
MarshalJSON(stream) ==
  [i \in DOMAIN stream |-> [type |-> Kind(stream[i]), data |-> stream[i]]]

\* The structs that serde fills, of the fields that translate reads.
DataFields ==
  [BlockStart       |-> {"number"},
   TransactionStart |-> {"txIndex", "hash"},
   FrameEnter       |-> {"frameID", "parentFrameID", "depth"},
   FrameExit        |-> {"frameID", "reverted"},
   TransactionEnd   |-> {"reverted"},
   BlockCommit      |-> {},
   BalanceMutation  |-> {"frameID", "key", "before", "after"},
   NonceMutation    |-> {"frameID", "key", "before", "after"},
   CodeMutation     |-> {"frameID", "key", "before", "after"},
   StorageMutation  |-> {"frameID", "key", "before", "after"},
   AccountCreated   |-> {"frameID", "address"},
   SelfDestruct     |-> {"frameID", "address"}]

Parses(entry) ==
  entry.type \in DOMAIN DataFields /\ DataFields[entry.type] \subseteq DOMAIN entry.data

\* The variant of GoEvent: the four mutations carry the cell they name.
GoEvent(entry) ==
  [f \in {"type"} \cup DataFields[entry.type] |->
     CASE f # "type" -> entry.data[f]
       [] f = "type" /\ "key" \in DataFields[entry.type] -> "Mutation"
       [] OTHER -> entry.type]

\* One entry that does not parse fails the document.
parse_event_stream(entries) ==
  IF \A i \in DOMAIN entries : Parses(entries[i])
  THEN Ok([i \in DOMAIN entries |-> GoEvent(entries[i])])
  ELSE Err("unknown event kind or missing field")

=============================================================================
