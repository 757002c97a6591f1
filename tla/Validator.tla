----------------------------- MODULE Validator ------------------------------
(***************************************************************************)
(* runtime/cse/src/validator.rs: CseValidator, which follows a CSE stream  *)
(* and refuses an event that is malformed, out of sequence or outside its  *)
(* transaction.  An event it refuses leaves its state alone.               *)
(***************************************************************************)
EXTENDS Naturals

VARIABLES
  expected_sequence,
  in_transaction,
  validation          \* "ok", or the ValidationError of the last event

validatorVars == <<expected_sequence, in_transaction, validation>>

ValidatorInit ==
  /\ expected_sequence = 0
  /\ in_transaction = FALSE
  /\ validation = "ok"

NullAddress == 0

\* CanonicalSemanticEvent::validate: balance and storage changes change
\* something, and nothing is deployed to the null address.  Other payloads
\* pass.
validate(payload) ==
  /\ payload.type = "StateChanged" /\ payload.key.kind \in {"Balance", "Storage"}
       => payload.before # payload.after
  /\ payload.type = "ContractCreated" => payload.address # NullAddress

\* The transaction boundary or the event is where it may be.
InEnvelope(payload) == in_transaction <=> payload.type # "BeginTransaction"

Refuse(error) ==
  /\ validation' = error
  /\ UNCHANGED <<expected_sequence, in_transaction>>

\* Mutant of validate_and_advance: EndTransaction does not leave the envelope.
validate_without_leaving(e) ==
  \/ /\ ~(validate(e.payload) /\ e.sequence_number = expected_sequence /\ InEnvelope(e.payload))
     /\ Refuse("InvalidBoundaryCondition")
  \/ /\ validate(e.payload) /\ e.sequence_number = expected_sequence /\ InEnvelope(e.payload)
     /\ in_transaction' = TRUE
     /\ expected_sequence' = expected_sequence + 1
     /\ validation' = "ok"

validate_and_advance(e) ==
  \/ /\ ~validate(e.payload)
     /\ Refuse("InvalidPayloadState")
  \/ /\ validate(e.payload)
     /\ e.sequence_number # expected_sequence
     /\ Refuse("SequenceBreakage")
  \/ /\ validate(e.payload)
     /\ e.sequence_number = expected_sequence
     /\ ~InEnvelope(e.payload)
     /\ Refuse("InvalidBoundaryCondition")
  \/ /\ validate(e.payload)
     /\ e.sequence_number = expected_sequence
     /\ InEnvelope(e.payload)
     /\ in_transaction' = (e.payload.type # "EndTransaction")
     /\ expected_sequence' = expected_sequence + 1
     /\ validation' = "ok"

=============================================================================
