------------------------ MODULE LittleEndianReference ------------------------
(***************************************************************************)
(* The reference reading of a little-endian byte string (spec section 8): *)
(* the sum of byte[k] * 256^k.  Written as a recursive function; it is the *)
(* yardstick TLC checks the code's digit-splitting reader against.        *)
(***************************************************************************)
EXTENDS Integers, Sequences

\* Section 8: the standard little-endian value of a byte string.
LittleEndianValue(s) ==
  LET v[k \in 0..Len(s)] == IF k = 0 THEN 0 ELSE v[k - 1] + s[k] * 256^(k - 1)
  IN  v[Len(s)]

=============================================================================
