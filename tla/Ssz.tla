-------------------------------- MODULE Ssz ---------------------------------
(***************************************************************************)
(* runtime/ssz and runtime/hash: the bytes of summaries, snapshots and     *)
(* certificates, their decoders, and the Merkle roots over them.  A byte   *)
(* string is a sequence of digits below Radix and the widths are           *)
(* parameters, so that all lengths can be scaled down together.  A hash is *)
(* a term: different inputs never share one.                               *)
(***************************************************************************)
EXTENDS Naturals, Sequences, SequencesExt, Ordering, Result

CONSTANTS
  Radix,                 \* 256 in the code
  U64_LEN, U32_LEN,      \* bytes of an integer
  ADDRESS_LEN,           \* bytes of an address
  WORD_LEN,              \* bytes of a word, a digest and a chunk
  MAX_EVENT_SUMMARIES    \* bound of the list in a snapshot

ENCODED_LEN == 2 * U64_LEN + ADDRESS_LEN + WORD_LEN
FIXED_HEADER_LEN == U64_LEN + U32_LEN
CERTIFICATE_ENCODED_LEN == 2 * ADDRESS_LEN + U32_LEN + U64_LEN + 4 * WORD_LEN

Powers(base) ==
  LET power[i \in Nat] == IF i = 0 THEN 1 ELSE base * power[i - 1]
  IN  power

\* What a digit counts that has i digits before it.
Weight == Powers(Radix)

ASSUME SszAssumption ==
  /\ {U64_LEN, U32_LEN, ADDRESS_LEN, WORD_LEN} \subseteq Nat \ {0}
  /\ MAX_EVENT_SUMMARIES \in Nat
  /\ Radix \in Nat \ {0, 1}
  /\ FIXED_HEADER_LEN < Weight[U32_LEN]
  /\ WORD_LEN > 2   \* no chunk is a pair, as hashes are here

to_le_bytes(n, width) == [i \in 1..width |-> (n \div Weight[i - 1]) % Radix]

\* The value of the first i digits, for all i.
Values(bytes) ==
  LET value[i \in 0..Len(bytes)] ==
        IF i = 0 THEN 0 ELSE value[i - 1] + bytes[i] * Weight[i - 1]
  IN  value

read_le(bytes) == Values(bytes)[Len(bytes)]

\* The types of what is encoded.
Byte == 0..Radix - 1
Fixed(n) == [1..n -> Byte]
u64 == 0..Weight[U64_LEN] - 1
u32 == 0..Weight[U32_LEN] - 1

EventSummary ==
  [block_timestamp : u64, sequence_nonce : u64, actor_address : Fixed(ADDRESS_LEN),
   payload_digest : Fixed(WORD_LEN)]

EpochStateSnapshot == [epoch_index : u64, event_summaries : Seq(EventSummary)]

CanonicalAccountCertificate ==
  [address : Fixed(ADDRESS_LEN),
   generation : [key : [address : Fixed(ADDRESS_LEN), generation_id : u32],
                 state_table_proof_root : Fixed(WORD_LEN)],
   nonce : u64, balance : Fixed(WORD_LEN), code_hash : Fixed(WORD_LEN),
   storage_root : {<< >>} \cup [1..1 -> Fixed(WORD_LEN)]]

\* bytes[from..to] of the code, which counts from 0 and excludes `to`.
Slice(bytes, from, to) == SubSeq(bytes, from + 1, to)

Zeros(n) == [i \in 1..n |-> 0]

-----------------------------------------------------------------------------
(***************************************************************************)
(* lib.rs and decode.rs: summaries and snapshots.                          *)
(***************************************************************************)

EncodeSummary(s) ==
  to_le_bytes(s.block_timestamp, U64_LEN) \o to_le_bytes(s.sequence_nonce, U64_LEN)
    \o s.actor_address \o s.payload_digest

\* The length check that both fixed-size decoders begin with.
WrongLength(bytes, length) ==
  IF Len(bytes) < length THEN "Truncated" ELSE "TrailingBytes"

DecodeSummary(bytes) ==
  IF Len(bytes) # ENCODED_LEN THEN Err(WrongLength(bytes, ENCODED_LEN))
  ELSE Ok([block_timestamp |-> read_le(Slice(bytes, 0, U64_LEN)),
           sequence_nonce  |-> read_le(Slice(bytes, U64_LEN, 2 * U64_LEN)),
           actor_address   |-> Slice(bytes, 2 * U64_LEN, 2 * U64_LEN + ADDRESS_LEN),
           payload_digest  |-> Slice(bytes, 2 * U64_LEN + ADDRESS_LEN, ENCODED_LEN)])

EncodeSnapshot(x) ==
  IF Len(x.event_summaries) > MAX_EVENT_SUMMARIES THEN Err("ListTooLong")
  ELSE Ok(to_le_bytes(x.epoch_index, U64_LEN) \o to_le_bytes(FIXED_HEADER_LEN, U32_LEN)
            \o FlattenSeq([i \in DOMAIN x.event_summaries |->
                             EncodeSummary(x.event_summaries[i])]))

\* Mutant of DecodeSnapshot: a rest of the body that is no element is ignored.
DecodeSnapshotMisaligned(bytes) ==
  LET body  == Slice(bytes, FIXED_HEADER_LEN, Len(bytes))
      count == Len(body) \div ENCODED_LEN
      element(i) == Slice(body, (i - 1) * ENCODED_LEN, i * ENCODED_LEN)
  IN  IF Len(bytes) < FIXED_HEADER_LEN THEN Err("Truncated")
      ELSE IF read_le(Slice(bytes, U64_LEN, FIXED_HEADER_LEN)) # FIXED_HEADER_LEN
        THEN Err("InvalidOffset")
      ELSE IF count > MAX_EVENT_SUMMARIES THEN Err("ListTooLong")
      ELSE Ok([epoch_index |-> read_le(Slice(bytes, 0, U64_LEN)),
               event_summaries |-> [i \in 1..count |-> DecodeSummary(element(i)).value]])

\* An element has the right length, so that its decoder cannot fail.
DecodeSnapshot(bytes) ==
  LET body  == Slice(bytes, FIXED_HEADER_LEN, Len(bytes))
      count == Len(body) \div ENCODED_LEN
      element(i) == Slice(body, (i - 1) * ENCODED_LEN, i * ENCODED_LEN)
  IN  IF Len(bytes) < FIXED_HEADER_LEN THEN Err("Truncated")
      ELSE IF read_le(Slice(bytes, U64_LEN, FIXED_HEADER_LEN)) # FIXED_HEADER_LEN
        THEN Err("InvalidOffset")
      ELSE IF Len(body) % ENCODED_LEN # 0 THEN Err("MisalignedList")
      ELSE IF count > MAX_EVENT_SUMMARIES THEN Err("ListTooLong")
      ELSE Ok([epoch_index |-> read_le(Slice(bytes, 0, U64_LEN)),
               event_summaries |-> [i \in 1..count |-> DecodeSummary(element(i)).value]])

-----------------------------------------------------------------------------
(***************************************************************************)
(* certificate.rs and decode.rs: certificates.  A storage root is << >>    *)
(* while it awaits its derivation and a 1-tuple when verified.             *)
(***************************************************************************)

EncodeCertificate(c) ==
  IF c.storage_root = << >> THEN Err("UnresolvedStorageRoot")
  ELSE Ok(c.address \o c.generation.key.address
            \o to_le_bytes(c.generation.key.generation_id, U32_LEN)
            \o c.generation.state_table_proof_root \o to_le_bytes(c.nonce, U64_LEN)
            \o c.balance \o c.code_hash \o c.storage_root[1])

DecodeCertificate(bytes) ==
  LET a == ADDRESS_LEN
      g == 2 * a + U32_LEN
      n == g + WORD_LEN
      b == n + U64_LEN
  IN  IF Len(bytes) # CERTIFICATE_ENCODED_LEN
      THEN Err(WrongLength(bytes, CERTIFICATE_ENCODED_LEN))
      ELSE Ok([address    |-> Slice(bytes, 0, a),
               generation |-> [key |-> [address       |-> Slice(bytes, a, 2 * a),
                                        generation_id |-> read_le(Slice(bytes, 2 * a, g))],
                               state_table_proof_root |-> Slice(bytes, g, n)],
               nonce      |-> read_le(Slice(bytes, n, b)),
               balance    |-> Slice(bytes, b, b + WORD_LEN),
               code_hash  |-> Slice(bytes, b + WORD_LEN, b + 2 * WORD_LEN),
               storage_root |-> <<Slice(bytes, b + 2 * WORD_LEN, b + 3 * WORD_LEN)>>])

-----------------------------------------------------------------------------
(***************************************************************************)
(* Merkle Profile MP1, and runtime/hash.                                   *)
(***************************************************************************)

derive_commitment(domain, content) == <<domain, content>>

chunkify(bytes) ==
  IF bytes = << >> THEN <<Zeros(WORD_LEN)>>
  ELSE [i \in 1..((Len(bytes) + WORD_LEN - 1) \div WORD_LEN) |->
          [j \in 1..WORD_LEN |->
             IF (i - 1) * WORD_LEN + j <= Len(bytes) THEN bytes[(i - 1) * WORD_LEN + j]
             ELSE 0]]

hash_pair(left, right) == derive_commitment("SsrRoot", <<left, right>>)

\* The width of a layer that lies k below the root.
Width == Powers(2)

\* The least height of a binary tree with n leaves.
HeightOf(n) == CHOOSE h \in 0..n : Width[h] >= n /\ \A k \in 0..h-1 : Width[k] < n

\* Mutant of Leaf: the layer is filled up with copies of the last chunk.
LeafDuplicated(chunks, i) ==
  IF i <= Len(chunks) THEN chunks[i]
  ELSE IF chunks = << >> THEN Zeros(WORD_LEN) ELSE chunks[Len(chunks)]

\* Leaf i of the tree: chunks are followed by zero chunks.
Leaf(chunks, i) == IF i <= Len(chunks) THEN chunks[i] ELSE Zeros(WORD_LEN)

\* The layer above: the hashes of its pairs.
Above(layer) == [i \in 1..(Len(layer) \div 2) |-> hash_pair(layer[2*i - 1], layer[2*i])]

merkleize(chunks) ==
  LET height == HeightOf(IF chunks = << >> THEN 1 ELSE Len(chunks))
      layer[h \in 0..height] ==
        IF h = 0 THEN [i \in 1..Width[height] |-> Leaf(chunks, i)] ELSE Above(layer[h - 1])
  IN  layer[height][1]

ssr_root(bytes) == merkleize(chunkify(bytes))

\* Mutant of commit_root: an unresolved storage root counts as a zero word.
commit_root_defaulted(c) ==
  LET resolved == IF c.storage_root = << >> THEN [c EXCEPT !.storage_root = <<Zeros(WORD_LEN)>>]
                  ELSE c
  IN  Ok(derive_commitment("LifeCert", EncodeCertificate(resolved).value))

commit_root(c) ==
  LET encoded == EncodeCertificate(c)
  IN  IF encoded.ok THEN Ok(derive_commitment("LifeCert", encoded.value)) ELSE encoded

\* A BTreeMap runs through its addresses in ascending order.
AddressLess(a, b) ==
  \E i \in DOMAIN a : a[i] < b[i] /\ \A j \in 1..i-1 : a[j] = b[j]

commit_certificate_batch(certificates) ==
  LET order == Listed(DOMAIN certificates, AddressLess)
      encoded(i) == EncodeCertificate(certificates[order[i]])
  IN  IF \E i \in DOMAIN order : ~encoded(i).ok THEN Err("UnresolvedStorageRoot")
      ELSE Ok(merkleize(FlattenSeq([i \in DOMAIN order |-> chunkify(encoded(i).value)])))

\* verify/src/lib.rs.
verify_envelope_integrity(bytes, expected) ==
  derive_commitment("Gate2Replay", bytes) = expected

=============================================================================
