--------------------------- MODULE CanonicalBytes ---------------------------
(***************************************************************************)
(* The canonical bytes of an object on their way from an encoder to a      *)
(* decoder, with bytes dropped, added and altered in between, and the      *)
(* roots and commitments made of the object.  The same for the characters  *)
(* of an address in a fixture.                                             *)
(***************************************************************************)
EXTENDS Ssz, Hex, FiniteSets

CONSTANTS
  Snapshots,     \* the EpochStateSnapshots that are encoded
  Certificates,  \* the CanonicalAccountCertificates
  MaxEdits       \* changes to the bytes

ASSUME CanonicalBytesAssumption ==
  /\ MaxEdits \in Nat
  /\ Snapshots \subseteq EpochStateSnapshot
  /\ Certificates \subseteq CanonicalAccountCertificate

VARIABLES
  object,  \* what was encoded: its kind and its value
  bytes,   \* << >> when the encoder refused
  edits

bytesVars == <<object, bytes, edits>>

\* Maps from an address to the certificate of that account.
Batches ==
  LET at(a) == {c \in Certificates : c.address = a}
  IN  UNION {{f \in [S -> Certificates] : \A a \in S : f[a] \in at(a)} :
               S \in {T \in SUBSET {c.address : c \in Certificates} : IsFiniteSet(T)}}

Encode(kind, value) ==
  CASE kind = "snapshot"    -> EncodeSnapshot(value)
    [] kind = "certificate" -> EncodeCertificate(value)
    [] kind = "address"     -> Ok(MarshalHex(value))
    [] OTHER                -> Err("NoBytes")

Decode(kind, b) ==
  IF kind = "snapshot" THEN DecodeSnapshot(b) ELSE DecodeCertificate(b)

BytesInit ==
  /\ object \in [kind : {"snapshot"}, value : Snapshots]
           \cup [kind : {"certificate"}, value : Certificates]
           \cup [kind : {"batch"}, value : Batches]
           \cup [kind : {"address"}, value : {c.address : c \in Certificates}]
  /\ LET encoded == Encode(object.kind, object.value)
     IN  bytes = IF encoded.ok THEN encoded.value ELSE << >>
  /\ edits = 0

\* What a byte may turn into, or a character where they are characters.
Symbols ==
  IF object.kind = "address"
  THEN {Lower(d) : d \in 0..HexBase-1} \cup {Upper(HexBase - 1), Plus, Other}
  ELSE 0..Radix-1

Zero == IF object.kind = "address" THEN Lower(0) ELSE 0

\* The bytes change on the way: one of them is another, the end is missing, or
\* something follows it.
Edit ==
  /\ bytes # << >>
  /\ edits < MaxEdits
  /\ edits' = edits + 1
  /\ \/ \E i \in DOMAIN bytes, b \in Symbols : bytes' = [bytes EXCEPT ![i] = b]
     \/ \E n \in {1, WORD_LEN, ENCODED_LEN} :
          n < Len(bytes) /\ bytes' = SubSeq(bytes, 1, Len(bytes) - n)
     \/ \E n \in {1, WORD_LEN, ENCODED_LEN} : bytes' = bytes \o [i \in 1..n |-> Zero]
  /\ UNCHANGED object

Sent == UNCHANGED bytesVars

BytesStep == Edit \/ Sent

BytesSpec == BytesInit /\ [][BytesStep]_bytesVars

-----------------------------------------------------------------------------
(***************************************************************************)
(* Properties                                                              *)
(***************************************************************************)

encoded == Encode(object.kind, object.value)

\* The decoders accept exactly the encodings: what an encoder made decodes to
\* the value it was made of, and what a decoder accepts is the encoding of what
\* it returns, so that no two byte strings decode to the same value (decode.rs,
\* SszDecodeError::TrailingBytes).
DecodesExactly ==
  object.kind \in {"snapshot", "certificate"} =>
    LET decoded == Decode(object.kind, bytes) IN
    /\ edits = 0 /\ encoded.ok => decoded = Ok(object.value)
    /\ decoded.ok => Encode(object.kind, decoded.value) = Ok(bytes)

Plain(s) == [i \in DOMAIN s |-> IF s[i] = Plus THEN Lower(0) ELSE s[i]]

\* The two readers of a fixture's hexadecimal strings agree with its writer and
\* with each other, with one exception: u8::from_str_radix takes a plus sign for
\* the first digit of a byte, so that Rust reads strings that Go refuses, and
\* reads them as if there was a zero (wire.rs, hex_decode).
HexReadersAgree ==
  object.kind = "address" =>
    LET go   == decodeFixedHex(bytes, ADDRESS_LEN)
        rust == decode_fixed_hex(bytes, ADDRESS_LEN)
        signs == {i \in DOMAIN bytes : bytes[i] = Plus}
    IN  /\ edits = 0 => go = Ok(object.value)
        /\ go.ok => rust = go
        /\ rust.ok /\ ~go.ok =>
             signs # {} /\ (\A i \in signs : i % 2 = 1)
             /\ rust = decodeFixedHex(Plain(bytes), ADDRESS_LEN)

\* A commitment is good for the bytes it was made of and for no others
\* (verify/src/lib.rs, verify_envelope_integrity), and nothing is committed to
\* that has no encoding: a batch has a root exactly when every storage root in
\* it is resolved, and no other batch has the same (certificate.rs,
\* commit_certificate_batch).
CommitmentsBind ==
  /\ encoded.ok =>
       (verify_envelope_integrity(bytes, derive_commitment("Gate2Replay", encoded.value))
          <=> bytes = encoded.value)
  /\ object.kind = "certificate" =>
       \A c \in Certificates :
         /\ commit_root(c).ok <=> EncodeCertificate(c).ok
         /\ commit_root(c).ok => (commit_root(object.value) = commit_root(c) <=> object.value = c)
  /\ object.kind = "batch" =>
       LET root == commit_certificate_batch(object.value) IN
       /\ root.ok <=> \A a \in DOMAIN object.value : object.value[a].storage_root # << >>
       /\ root.ok => \A other \in Batches :
                       commit_certificate_batch(other) = root => other = object.value

ZeroSummary ==
  [block_timestamp |-> 0, sequence_nonce |-> 0, actor_address |-> Zeros(ADDRESS_LEN),
   payload_digest |-> Zeros(WORD_LEN)]

\* y is x, or x with all-zero events behind it.
ZeroExtends(y, x) ==
  /\ x.epoch_index = y.epoch_index
  /\ IsPrefix(x.event_summaries, y.event_summaries)
  /\ \A i \in Len(x.event_summaries)+1..Len(y.event_summaries) :
       y.event_summaries[i] = ZeroSummary

Leaves(x) == Width[HeightOf(Len(chunkify(EncodeSnapshot(x).value)))]

\* What the root of a snapshot identifies.  The length of the list is not mixed
\* in and the width is not fixed: a snapshot shares its root with the one that
\* has all-zero events added as far as the padding reaches, and with no other
\* (lib.rs, merkleize).
RootIdentifies ==
  object.kind = "snapshot" /\ encoded.ok /\ edits = 0 =>
    \A y \in Snapshots : EncodeSnapshot(y).ok =>
      (ssr_root(bytes) = ssr_root(EncodeSnapshot(y).value) <=>
         /\ ZeroExtends(y, object.value) \/ ZeroExtends(object.value, y)
         /\ Leaves(y) = Leaves(object.value))

=============================================================================
