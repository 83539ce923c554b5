---------------------------- MODULE LittleEndian ----------------------------
(***************************************************************************)
(* little_endian_decode (sgx_register_utils.rs, lines 82-97): the value of *)
(* a byte slice read least-significant byte first.  The code splits each   *)
(* byte into its two hexadecimal digits and weighs the lower digit by      *)
(* 16^(2i) and the upper digit by 16^(2i+1).  The loop runs once per byte  *)
(* and the code asserts that there are at most 8 bytes, so the loop is     *)
(* written out for the 8 iterations it can make; an iteration past the end *)
(* of the slice adds nothing.  The assertion of line 83 itself cannot fail *)
(* (every caller passes a 2- or 4-byte slice) and is not modelled.  No     *)
(* RECURSIVE operator is used, so the proofs can reason about the decoder. *)
(***************************************************************************)
EXTENDS Integers, Sequences

Byte == 0..255

\* Mutant: the digits weighed the wrong way round (upper digit by 16^(2i)).
DigitsTermNibbleSwap(encoded, i) ==
  IF i < Len(encoded)
  THEN LET digits == encoded[i + 1]
       IN  (digits % 16) * 16^(2 * i + 1) + (digits \div 16) * 16^(2 * i)
  ELSE 0

\* What iteration i (counted from 0) of the loop adds to `decoded`.
DigitsTerm(encoded, i) ==
  IF i < Len(encoded)
  THEN LET digits == encoded[i + 1]
       IN  (digits % 16) * 16^(2 * i) + (digits \div 16) * 16^(2 * i + 1)
  ELSE 0

LittleEndianDecode(encoded) ==
    DigitsTerm(encoded, 0) + DigitsTerm(encoded, 1)
  + DigitsTerm(encoded, 2) + DigitsTerm(encoded, 3)
  + DigitsTerm(encoded, 4) + DigitsTerm(encoded, 5)
  + DigitsTerm(encoded, 6) + DigitsTerm(encoded, 7)

\* The values of a Solidity uint16 / Rust u16 (the type of isvProdId and
\* isvSvn, lines 33-34, and of parsedDataSize and certType, lines 42, 48).
U16 == {n \in Nat : n < 65536}

\* The `as u16` casts of lines 145-146, 190 and 194.
AsU16(x) == x % 65536

=============================================================================
