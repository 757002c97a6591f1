--------------------------------- MODULE Hex --------------------------------
(***************************************************************************)
(* The strings that hashes and addresses are written as in a fixture, and  *)
(* the two readers of them: that of Go (emes/types.go) and that of Rust    *)
(* (runtime/bridge/src/wire.rs).                                           *)
(***************************************************************************)
EXTENDS Naturals, Sequences, Result

CONSTANT HexBase   \* 16 in the code; a byte has two digits

ASSUME HexAssumption == HexBase \in Nat \ {0, 1}

(***************************************************************************)
(* Characters: the digits, their upper case, a plus sign, and others.      *)
(***************************************************************************)
Lower(d) == <<"lower", d>>
Upper(d) == <<"upper", d>>
Plus     == <<"plus">>
Other    == <<"other">>

IsDigit(ch) == ch[1] \in {"lower", "upper"}

Prefix == <<Lower(0), <<"x">>>>

\* Address.MarshalJSON, Hash.MarshalJSON
MarshalHex(bytes) ==
  Prefix \o [i \in 1..2 * Len(bytes) |->
               LET byte == bytes[(i + 1) \div 2]
               IN  Lower(IF i % 2 = 1 THEN byte \div HexBase ELSE byte % HexBase)]

Pairs(s) == [i \in 1..(Len(s) \div 2) |-> <<s[2*i - 1], s[2*i]>>]

\* Go's hex.DecodeString.
DecodeString(s) ==
  IF Len(s) % 2 # 0 \/ \E i \in DOMAIN s : ~IsDigit(s[i]) THEN Err("hex")
  ELSE Ok([i \in DOMAIN Pairs(s) |-> Pairs(s)[i][1][2] * HexBase + Pairs(s)[i][2][2]])

\* Rust's u8::from_str_radix of two characters, which takes a sign.
from_str_radix(pair) ==
  IF pair[1] = Plus THEN DecodeString(<<Lower(0), pair[2]>>) ELSE DecodeString(pair)

\* Mutant of hex_decode: a single character at the end is left out.
hex_decode_pairs(s) ==
  LET byte(i) == from_str_radix(Pairs(s)[i])
  IN  IF \E i \in DOMAIN Pairs(s) : ~byte(i).ok THEN Err("digit")
      ELSE Ok([i \in DOMAIN Pairs(s) |-> byte(i).value[1]])

hex_decode(s) ==
  LET byte(i) == from_str_radix(Pairs(s)[i])
  IN  IF Len(s) % 2 # 0 THEN Err("odd length")
      ELSE IF \E i \in DOMAIN Pairs(s) : ~byte(i).ok THEN Err("digit")
      ELSE Ok([i \in DOMAIN Pairs(s) |-> byte(i).value[1]])

\* decodeFixedHex of Go, into n bytes.
decodeFixedHex(s, n) ==
  LET decoded == DecodeString(SubSeq(s, 3, Len(s)))
  IN  IF Len(s) < 2 \/ SubSeq(s, 1, 2) # Prefix THEN Err("0x")
      ELSE IF decoded.ok /\ Len(decoded.value) # n THEN Err("length") ELSE decoded

\* decode_fixed_hex of Rust.
decode_fixed_hex(s, n) ==
  LET decoded == hex_decode(SubSeq(s, 3, Len(s)))
  IN  IF Len(s) < 2 \/ SubSeq(s, 1, 2) # Prefix THEN Err("0x")
      ELSE IF decoded.ok /\ Len(decoded.value) # n THEN Err("length") ELSE decoded

=============================================================================
