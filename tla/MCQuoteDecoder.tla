--------------------------- MODULE MCQuoteDecoder ---------------------------
(***************************************************************************)
(* QuoteDecoder on a finite set of quotes built around every bound the     *)
(* code checks: lengths just below, at and above 48, 432 and 436; auth     *)
(* data just too short for each length-prefixed section, exactly long      *)
(* enough, and one byte longer; a declared auth-data length that matches   *)
(* and one that is off by one; and the three PEM outcomes that matter.     *)
(* Bytes the decoder does not read as integers hold a filler value.        *)
(***************************************************************************)
EXTENDS DecoderRefinement, TLC

Filler == 171
CertTypeValue == 5
\* isvProdId and isvSvn of the local and the QE report, all different, with
\* bytes whose two digits differ.
LocalIsvBytes == 16^6 * 18 + 16^4 * 52 + 16^2 * 86 + 120
QeIsvBytes == 16^6 * 33 + 16^4 * 67 + 16^2 * 101 + 135

\* The little-endian bytes of v, placed at offsets at..at+width-1.
Encode(at, width, v) == [p \in at..(at + width - 1) |-> (v \div 256^(p - at)) % 256]

\* A quote of n bytes: auth-data size a, QE auth-data size q, bundle size c.
QuoteBytes(n, a, q, c) ==
  LET fields == Encode(304, 4, LocalIsvBytes) @@ Encode(820, 4, QeIsvBytes)
                  @@ Encode(432, 4, a) @@ Encode(1012, 2, q)
                  @@ Encode(1014 + q, 2, CertTypeValue) @@ Encode(1016 + q, 4, c)
  IN  [i \in 1..n |-> IF i - 1 \in DOMAIN fields THEN fields[i - 1] ELSE Filler]

MkQuote(h, n, a, q, c, p) == [hexOk |-> h, bytes |-> QuoteBytes(n, a, q, c), pem |-> p]

QeSizes == {0, 2}
CertSizes == {3, 300}
PemOutcomes == {MalformedPem, 2, 3}

\* Auth-data lengths one short of each section, exact, and one byte over.
AuthLens(q, c) == {577, 577 + q, 579 + q, 583 + q, 583 + q + c, 584 + q + c, 585 + q + c}

MCQuotes ==
  {MkQuote(FALSE, 0, 0, 0, 0, 3)}
  \cup {MkQuote(TRUE, n, 0, 0, 0, 3) : n \in {48, 49, 431, 432, 435}}
  \cup UNION {{MkQuote(TRUE, AuthDataStart + a, a + d, q, c, p) :
                  a \in AuthLens(q, c), d \in {0, 1}, p \in PemOutcomes} :
                q \in QeSizes, c \in CertSizes}

-----------------------------------------------------------------------------
(* Properties the code is expected to violate (see PROJECT.json findings). *)

\* Spec 4.2 and the assertion message of line 100 ("at least 48"): the
\* header decoder rejects only an input shorter than 48 bytes.
HeaderRejectsOnlyShortInput ==
  [][pc = "parse_header" /\ pc' = "panicked" => QuoteLen < 48]_vars

\* Spec 4.6 says the length check guards against padded inputs: an accepted
\* quote's certificate bundle ends exactly where the auth data ends.
AuthDataFullyConsumed ==
  pc = "done" => offset + certDataSize = AuthLen

=============================================================================
