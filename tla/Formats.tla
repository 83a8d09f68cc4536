------------------------------- MODULE Formats -------------------------------
(***************************************************************************)
(* The functions on single identifiers side by side.  Of KSUIDs:           *)
(* construction and order (KsuidLayout), the string codec (Base62) and the *)
(* validation of characters (Base62Alphabet).  Of UUIDv7 identifiers:      *)
(* construction and order (Uuidv7Layout) and the string codec (HexCodec).  *)
(* They share no state, so a behaviour follows one caller of one of them,  *)
(* at the widths that suit it, while the others rest.                      *)
(***************************************************************************)
EXTENDS Integers

CONSTANTS
  LimbBase, Limbs, Radix, Digits, ByteSpan,               \* of Base62
  Samples, HeadChars,                                     \* of Base62Alphabet
  Byte, TsBytes, PayloadBytes, HeadBytes, Epoch, IntMax,  \* of KsuidLayout
  Uuids, Quads, Strings,                                  \* of HexCodec
  UuidByte, VerSpan, VarSpan, MsBytes, RandBytes, Version, Variant,
  Times, Words, Tails, UuidImages                         \* of Uuidv7Layout

VARIABLES
  part,                                      \* the component that is in use
  op, input, bp, n, buf, parsed, parse_ret,  \* of Base62
  text, kernel, digits, status,              \* of Base62Alphabet
  id, ret, arg, asked,                       \* of KsuidLayout
  hex_op, hex_input, hex_out, hex_id, hex_ret,  \* of HexCodec
  uuid, uuid_ret, parts                      \* of Uuidv7Layout

base62_vars == <<op, input, bp, n, buf, parsed, parse_ret>>
chars_vars  == <<text, kernel, digits, status>>
ksuid_vars  == <<id, ret, arg, asked>>
hex_vars    == <<hex_op, hex_input, hex_out, hex_id, hex_ret>>
uuid_vars   == <<uuid, uuid_ret, parts>>
vars == <<part, base62_vars, chars_vars, ksuid_vars, hex_vars, uuid_vars>>

Codec  == INSTANCE Base62 WITH id <- parsed, ret <- parse_ret
Chars  == INSTANCE Base62Alphabet WITH Texts <- Samples, Vector <- HeadChars, bp <- digits
Ksuid  == INSTANCE KsuidLayout WITH Vector <- HeadBytes
Hex    == INSTANCE HexCodec WITH op <- hex_op, input <- hex_input, out <- hex_out,
                                 id <- hex_id, ret <- hex_ret
Uuidv7 == INSTANCE Uuidv7Layout WITH Byte <- UuidByte, TsBytes <- MsBytes,
                                     Images <- UuidImages,
                                     id <- uuid, ret <- uuid_ret

ASSUME CodecFits  == Codec!ConstantsFit
ASSUME CharsFit   == Chars!ConstantsFit
ASSUME KsuidFits  == Ksuid!ConstantsFit
ASSUME HexFits    == Hex!ConstantsFit
ASSUME Uuidv7Fits == Uuidv7!ConstantsFit

Parts == {"base62", "chars", "ksuid", "hex", "uuidv7"}

Init ==
  /\ part \in Parts
  /\ Codec!Init
  /\ Chars!Init
  /\ Ksuid!Init
  /\ Hex!Init
  /\ Uuidv7!Init

Base62Step ==
  /\ part = "base62"
  /\ Codec!Next
  /\ UNCHANGED <<part, chars_vars, ksuid_vars, hex_vars, uuid_vars>>

CharsStep ==
  /\ part = "chars"
  /\ Chars!Next
  /\ UNCHANGED <<part, base62_vars, ksuid_vars, hex_vars, uuid_vars>>

KsuidStep ==
  /\ part = "ksuid"
  /\ Ksuid!Next
  /\ UNCHANGED <<part, base62_vars, chars_vars, hex_vars, uuid_vars>>

HexStep ==
  /\ part = "hex"
  /\ Hex!Next
  /\ UNCHANGED <<part, base62_vars, chars_vars, ksuid_vars, uuid_vars>>

Uuidv7Step ==
  /\ part = "uuidv7"
  /\ Uuidv7!Next
  /\ UNCHANGED <<part, base62_vars, chars_vars, ksuid_vars, hex_vars>>

Next == Base62Step \/ CharsStep \/ KsuidStep \/ HexStep \/ Uuidv7Step

Spec == Init /\ [][Next]_vars

-----------------------------------------------------------------------------
(* The scalar and the AVX2 encoder compute the same string, the full       *)
(* expansion of the identifier in base 62, and never run off its left end. *)
EncodeExact == Codec!TypeOK /\ Codec!EncodeExact

(* chronoid_ksuid_parse returns the number that the string denotes,        *)
(* refuses only characters outside the alphabet and numbers over 160 bits, *)
(* and leaves the caller's identifier alone when it does.                  *)
DecodeExact == Codec!DecodeExact

(* Every translation kernel accepts exactly the strings over the alphabet, *)
(* inverts the encoder's alphabet on them and marks all other characters.  *)
TranslatesExactly == Chars!TranslatesExactly

(* A KSUID reads back the second and payload of the last call that         *)
(* succeeded, and exactly the times of the 32-bit range are accepted.      *)
ConstructsExactly == Ksuid!TypeOK /\ Ksuid!ConstructsExactly

(* The three kernels of chronoid_ksuid_compare order identifiers by the    *)
(* time they were made for and then by payload.                            *)
ComparesByTime == Ksuid!ComparesByTime

(* The scalar, SSSE3 and AVX2 encoders of UUIDs write the canonical string *)
(* of every identifier they are given, in its place.                       *)
EncodersAgree == Hex!EncodersAgree

(* chronoid_uuidv7_parse accepts exactly the strings of 36 characters that *)
(* are, up to case, canonical, returns their identifier, blames the size   *)
(* or the value rightly when it refuses, and leaves the caller's alone.    *)
ParseExact == Hex!ParseExact

(* A composed UUIDv7 has well-typed bytes, as many as chronoid_uuidv7_t,   *)
(* and carries its timestamp, version and variant.                         *)
ReadsBack == Uuidv7!TypeOK /\ Uuidv7!ReadsBack

(* chronoid_uuidv7_compare orders composed identifiers by timestamp, then  *)
(* rand_a, then rand_b.                                                    *)
ComparesByParts == Uuidv7!ComparesByParts
=============================================================================
