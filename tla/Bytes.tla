-------------------------------- MODULE Bytes --------------------------------
(***************************************************************************)
(* The bitwise operators of C on uint8_t, bit by bit: what the character   *)
(* kernels (base62_sse2.c, base62_neon.c) and the hexadecimal decoder      *)
(* (hex.c) do to bytes.                                                    *)
(***************************************************************************)
EXTENDS Integers

Bit(x, weight) == (x \div weight) % 2
ByteOf(bit(_)) ==
  128 * bit(128) + 64 * bit(64) + 32 * bit(32) + 16 * bit(16)
    + 8 * bit(8) + 4 * bit(4) + 2 * bit(2) + bit(1)

And8(x, y) == ByteOf(LAMBDA w : IF Bit(x, w) = 1 /\ Bit(y, w) = 1 THEN 1 ELSE 0)
Or8(x, y)  == ByteOf(LAMBDA w : IF Bit(x, w) = 1 \/ Bit(y, w) = 1 THEN 1 ELSE 0)
Not8(x)    == 255 - x
=============================================================================
