---------------------------- MODULE QuoteDecoding ---------------------------
(***************************************************************************)
(* What the quote decoder promises (spec.md, sections 4.1-4.6 and 7),      *)
(* stated as one atomic step: from a raw quote, decide at once between     *)
(* one of the error kinds of section 7 and the decoded structure.  The     *)
(* step-wise decoder of QuoteDecoder implements this specification under  *)
(* the mapping of DecoderRefinement.                                       *)
(*                                                                         *)
(* Integers are read with the reference little-endian interpretation of   *)
(* section 8, sum of byte[i] * 256^i, not with the code's digit splitting.  *)
(***************************************************************************)
EXTENDS Integers, Sequences, LittleEndianReference

CONSTANT Quotes     \* the candidate inputs, as in QuoteDecoder

VARIABLES quote, verdict

Pending == [kind |-> "Pending"]
Failure(k) == [kind |-> k]

(***************************************************************************)
(* The verdict of sections 4.5 and 4.6, in the order the sections give the *)
(* checks.  Offsets are those of the spec: header [0,48), local report     *)
(* [48,432), auth-data size [432,436), auth data from 436 on; inside the   *)
(* auth data the QE auth-data size at [576,578), its payload, the 2-byte   *)
(* certificate type, the 4-byte certificate size and the bundle.           *)
(***************************************************************************)
SpecVerdict(q) ==
  LET n        == Len(q.bytes)
      Field(at, width) == LittleEndianValue(SubSeq(q.bytes, at + 1, at + width))
      authLen  == n - 436
      qeSize   == Field(436 + 576, 2)
      certAt   == 578 + qeSize
      certSize == Field(436 + certAt + 2, 4)
      \* Section 3: an enclave report at quote offset `at`; its isvProdId and
      \* isvSvn are the u16 little-endian values at report[256..260].
      Isv(at)  == [prodId |-> Field(at + 256, 2), svn |-> Field(at + 258, 2)]
  IN  IF ~q.hexOk THEN Failure("InvalidHex")
      ELSE IF n <= 48 \/ n < 436 THEN Failure("TruncatedInput")
      ELSE IF authLen # Field(432, 4) THEN Failure("LengthMismatch")
      ELSE IF \/ authLen < 578
              \/ authLen < certAt + 6
              \/ authLen < certAt + 6 + certSize
           THEN Failure("TruncatedInput")
      ELSE IF q.pem # 3 THEN Failure("CertificateChainError")
      ELSE [kind           |-> "Ok",
            parsedDataSize |-> qeSize,
            certType       |-> Field(436 + certAt, 2),
            certDataSize   |-> certSize,
            certStart      |-> certAt + 6,
            certificates   |-> <<1, 2, 3>>,
            reports        |-> [local |-> Isv(48), qe |-> Isv(436 + 128)]]

Init == quote \in Quotes /\ verdict = Pending

Decide ==
  /\ verdict = Pending
  /\ verdict' = SpecVerdict(quote)
  /\ UNCHANGED quote

Spec == Init /\ [][Decide]_<<quote, verdict>>

=============================================================================
