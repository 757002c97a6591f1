---------------------------- MODULE MC_Canonical ----------------------------
(***************************************************************************)
(* The two canonical forms for TLC, one after the other in one run: that   *)
(* of lists of facts and that of bytes.  All lengths are those of the code *)
(* divided by four, so that elements and chunks overlap as they do there   *)
(* (a header of 12 bytes, elements of 68, chunks of 32).                   *)
(***************************************************************************)
EXTENDS CanonicalForm, CanonicalBytes

Word == {Zeros(WORD_LEN), [i \in 1..WORD_LEN |-> IF i = 2 THEN 3 ELSE 0]}

Summary(time, nonce, digest) ==
  [block_timestamp |-> time, sequence_nonce |-> nonce, actor_address |-> Zeros(ADDRESS_LEN),
   payload_digest |-> digest]

Summaries ==
  {Summary(0, 0, Zeros(WORD_LEN)), Summary(6, 1, Zeros(WORD_LEN)),
   Summary(0, 0, [i \in 1..WORD_LEN |-> i % Radix])}

MCSnapshots ==
  {[epoch_index |-> 9, event_summaries |-> s] : s \in UNION {[1..n -> Summaries] : n \in 0..4}}

MCCertificates ==
  {[address |-> a,
    generation |-> [key |-> [address |-> a, generation_id |-> g],
                    state_table_proof_root |-> Zeros(WORD_LEN)],
    nonce |-> n, balance |-> Zeros(WORD_LEN), code_hash |-> c, storage_root |-> r] :
     a \in {Zeros(ADDRESS_LEN), [i \in 1..ADDRESS_LEN |-> i % Radix]},
     g \in {0, 2}, n \in {0, 7}, c \in {Zeros(WORD_LEN)},
     r \in {<< >>} \cup {<<w>> : w \in Word}}

NoObject == [kind |-> "none"]

MCInit ==
  \/ FormInit /\ object = NoObject /\ bytes = << >> /\ edits = 0
  \/ BytesInit /\ FormInit

MCNext ==
  \/ object = NoObject /\ FormStep /\ UNCHANGED bytesVars
  \/ object # NoObject /\ BytesStep /\ UNCHANGED formVars

MCSpec == MCInit /\ [][MCNext]_<<formVars, bytesVars>>

=============================================================================
