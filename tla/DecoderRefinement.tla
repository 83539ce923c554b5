-------------------------- MODULE DecoderRefinement --------------------------
(***************************************************************************)
(* The step-wise decoder of QuoteDecoder seen through the atomic           *)
(* specification QuoteDecoding: the refinement mapping from the decoder's  *)
(* state to the abstract verdict, and the claim that parse_quote           *)
(* implements the specification.  MCQuoteDecoder checks the claim with    *)
(* TLC; DecoderRefinementProofs proves it for every set of quotes.         *)
(***************************************************************************)
EXTENDS QuoteDecoder

\* The error kinds of spec section 7 that each panic of the code stands for.
ErrorKind(s) ==
  CASE s = "hex_unwrap"                          -> "InvalidHex"
    [] s \in {"header_assert", "slice_index"}    -> "TruncatedInput"
    [] s = "length_assert"                       -> "LengthMismatch"
    [] s \in {"pem_unwrap", "pem_count"}         -> "CertificateChainError"

\* The refinement mapping: the decoder's outcome as the abstract verdict,
\* with the u16 casts the code applies when it builds the struct.
DecoderVerdict ==
  IF pc = "done"
  THEN [kind           |-> "Ok",
        parsedDataSize |-> AsU16(parsedDataSize),
        certType       |-> AsU16(certType),
        certDataSize   |-> certDataSize,
        certStart      |-> offset,
        certificates   |-> certs,
        reports        |-> [local |-> isv["local"], qe |-> isv["qe"]]]
  ELSE IF pc = "panicked" THEN [kind |-> ErrorKind(site)]
  ELSE [kind |-> "Pending"]

Abstract == INSTANCE QuoteDecoding WITH verdict <- DecoderVerdict

\* parse_quote implements the decoder of spec sections 4.1-4.6: every input
\* ends in the error kind the spec gives it, or in the structure the spec's
\* offsets and little-endian reading give, in the same steps.
DecoderImplementsSpec == Abstract!Spec


\* The inductive invariant behind DecoderImplementsSpec: what each step of
\* parse_quote has read, restated at the spec's offsets, and, once the
\* decoder has stopped, that its outcome is the spec's verdict.  Together
\* with WellFormedInv it is kept by every step.
RefinementInv ==
  /\ pc \notin {"hex_decode", "panicked"} => quote.hexOk
  /\ pc \in {"parse_local_report", "read_auth_size", "check_length",
            "read_qe_auth_data", "read_cert_header", "parse_cert_chain",
            "assemble", "done"} => QuoteLen > 48
  /\ pc \in {"read_auth_size", "check_length", "read_qe_auth_data",
            "read_cert_header", "parse_cert_chain", "assemble", "done"}
       => QuoteLen >= 432 /\ isv["local"] = ReportIsv(ReportAt["local"])
  /\ pc \in {"check_length", "read_qe_auth_data", "read_cert_header",
            "parse_cert_chain", "assemble", "done"}
       => authDataSize = LittleEndianDecode(Slice(432, AuthDataStart))
  /\ pc \in {"read_cert_header", "parse_cert_chain", "assemble", "done"}
       => /\ parsedDataSize = LittleEndianDecode(AuthSlice(QeSizeAt, QeDataAt))
          /\ AuthLen >= QeDataAt + parsedDataSize
  /\ pc \in {"parse_cert_chain", "assemble", "done"}
       => /\ certType = LittleEndianDecode(AuthSlice(offset - 6, offset - 4))
          /\ certDataSize = LittleEndianDecode(AuthSlice(offset - 4, offset))
          /\ AuthLen >= offset
  /\ pc \in {"assemble", "done"} => quote.pem = 3 /\ certs = [i \in 1..3 |-> i]
  /\ pc = "done" => isv["qe"] = ReportIsv(ReportAt["qe"])
  /\ pc \in {"done", "panicked"} => DecoderVerdict = Abstract!SpecVerdict(quote)

=============================================================================
