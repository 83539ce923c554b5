---------------------------- MODULE QuoteDecoder ----------------------------
(***************************************************************************)
(* parse_quote and the routines it calls (sgx_register_utils.rs, lines    *)
(* 99-225): the decoder of an ECDSA-P256 SGX quote, step by step along the *)
(* code.  Each action is one call of parse_quote, or one stretch of        *)
(* parse_quote_auth_data between two moves of its `offset` cursor.         *)
(*                                                                         *)
(* The input is abstracted to what the control depends on: whether the    *)
(* hex string decodes, the decoded bytes (a sequence, read through real    *)
(* offsets, so the length fields are genuine little-endian byte strings)  *)
(* and the outcome of pem::parse_many on the certificate bundle (either    *)
(* MalformedPem or the number of PEM blocks it finds).  Fields copied       *)
(* verbatim into the result (signatures, measurements, reserved bytes) are *)
(* left out: their slices lie inside ranges already bounds-checked.        *)
(*                                                                         *)
(* Every assert!, unwrap() and out-of-range slice of the code panics; the  *)
(* decoder then stops in pc = "panicked" with `site` naming the check.     *)
(***************************************************************************)
EXTENDS Integers, Sequences, LittleEndian

CONSTANTS
  Quotes,           \* the candidate inputs
  MalformedPem      \* the result of pem::parse_many on a malformed bundle

\* pem::parse_many on the bundle: an error, or the number of blocks found.
PemResults == {MalformedPem} \cup Nat

\* A PEM block, identified by its position (1, 2, ...) in the bundle.
PemBlock == Nat \ {0}

QuoteInput == [hexOk : BOOLEAN, bytes : Seq(Byte), pem : PemResults]

ASSUME PemAssumption == MalformedPem \notin Nat

ASSUME QuotesAssumption == Quotes \subseteq QuoteInput

VARIABLES
  quote,           \* the input: hex validity, quote_bytes, PEM parse result
  pc,              \* the next step of parse_quote
  site,            \* the check that panicked, once pc = "panicked"
  authDataSize,    \* local_auth_data_size (line 211)
  parsedDataSize,  \* parsed_data_size (line 166)
  offset,          \* the cursor `offset` of parse_quote_auth_data
  certType,        \* cert_type (line 171)
  certDataSize,    \* cert_data_size (line 173)
  certs,           \* decoded_cert_data_array (line 176)
  isv              \* isvProdId and isvSvn of the local and the QE report

dataVars == <<authDataSize, parsedDataSize, offset, certType, certDataSize, certs, isv>>
vars == <<quote, pc, site, dataVars>>

PCs == {"hex_decode", "parse_header", "parse_local_report", "read_auth_size",
        "check_length", "read_qe_auth_data", "read_cert_header",
        "parse_cert_chain", "assemble", "done", "panicked"}

Sites == {"hex_unwrap", "header_assert", "slice_index", "length_assert",
          "pem_unwrap", "pem_count"}
NoSite == "none"

\* Offsets the code uses as literals.
AuthDataStart == 436   \* quote_bytes[436..] is the auth data (line 218)
QeSizeAt == 576        \* parsed_data_size at auth[576..578] (line 166)
QeDataAt == 578        \* the QE auth data starts at auth[578] (line 167)

QuoteLen == Len(quote.bytes)
\* &quote_bytes[from..to]
Slice(from, to) == SubSeq(quote.bytes, from + 1, to)
\* The auth data, quote_bytes[436..], and a slice of it.
AuthLen == QuoteLen - AuthDataStart
AuthSlice(from, to) == Slice(AuthDataStart + from, AuthDataStart + to)

\* The two enclave reports parse_quote decodes: the local one at
\* quote_bytes[48..432] (line 209) and the QE one at auth[128..512] (line 180).
Reports == {"local", "qe"}
ReportAt == [r \in Reports |-> IF r = "local" THEN 48 ELSE AuthDataStart + 128]

\* The integer fields parse_quote_enclave_report decodes from the report
\* starting at quote_bytes[base]: isv_prod_id = report[256..258] and
\* isv_svn = report[258..260], read little-endian and cast to u16.  The
\* other fields are copied verbatim and left out.
ReportIsv(base) ==
  [prodId |-> AsU16(LittleEndianDecode(Slice(base + 256, base + 258))),
   svn    |-> AsU16(LittleEndianDecode(Slice(base + 258, base + 260)))]

\* A panic raised by the check `s`.
Panic(s) ==
  /\ pc' = "panicked"
  /\ site' = s
  /\ UNCHANGED <<quote, dataVars>>

Init ==
  /\ quote \in Quotes
  /\ pc = "hex_decode"
  /\ site = NoSite
  /\ authDataSize = 0
  /\ parsedDataSize = 0
  /\ offset = 0
  /\ certType = 0
  /\ certDataSize = 0
  /\ certs = <<>>
  /\ isv = [r \in Reports |-> [prodId |-> 0, svn |-> 0]]

\* hex::decode(quote_str).unwrap() (line 207).
HexDecode ==
  /\ pc = "hex_decode"
  /\ \/ /\ quote.hexOk
        /\ pc' = "parse_header"
        /\ UNCHANGED <<quote, site, dataVars>>
     \/ /\ ~quote.hexOk
        /\ Panic("hex_unwrap")

\* parse_quote_header (lines 99-118, called on line 208): the assertion
\* quote_bytes.len() > 48, then slices inside [0, 48).
ParseHeader ==
  /\ pc = "parse_header"
  /\ \/ /\ QuoteLen > 48
        /\ pc' = "parse_local_report"
        /\ UNCHANGED <<quote, site, dataVars>>
     \/ /\ QuoteLen <= 48
        /\ Panic("header_assert")

\* parse_quote_enclave_report(&quote_bytes[48..432]) (line 209, lines
\* 120-150): the window is exactly 384 bytes, so only the slice can fail.
ParseLocalReport ==
  /\ pc = "parse_local_report"
  /\ \/ /\ QuoteLen >= 432
        /\ isv' = [isv EXCEPT !["local"] = ReportIsv(ReportAt["local"])]
        /\ pc' = "read_auth_size"
        /\ UNCHANGED <<quote, site, authDataSize, parsedDataSize, offset,
                       certType, certDataSize, certs>>
     \/ /\ QuoteLen < 432
        /\ Panic("slice_index")

\* local_auth_data_size = little_endian_decode(&quote_bytes[432..436]) (line 211).
ReadAuthDataSize ==
  /\ pc = "read_auth_size"
  /\ \/ /\ QuoteLen >= 436
        /\ authDataSize' = LittleEndianDecode(Slice(432, 436))
        /\ pc' = "check_length"
        /\ UNCHANGED <<quote, site, parsedDataSize, offset, certType, certDataSize, certs, isv>>
     \/ /\ QuoteLen < 436
        /\ Panic("slice_index")

\* Mutant: the length check as a debug_assert_eq!, gone in release builds.
CheckQuoteLengthReleaseBuild ==
  /\ pc = "check_length"
  /\ pc' = "read_qe_auth_data"
  /\ UNCHANGED <<quote, site, dataVars>>

\* assert_eq!(quote_bytes.len() - 436, local_auth_data_size) (lines 212-216).
CheckQuoteLength ==
  /\ pc = "check_length"
  /\ \/ /\ QuoteLen - AuthDataStart = authDataSize
        /\ pc' = "read_qe_auth_data"
        /\ UNCHANGED <<quote, site, dataVars>>
     \/ /\ QuoteLen - AuthDataStart # authDataSize
        /\ Panic("length_assert")

\* parse_quote_auth_data, lines 166-170: parsed_data_size from auth[576..578],
\* the payload auth[578..578 + parsed_data_size], then offset = 578 + size.
ReadQeAuthData ==
  LET size == LittleEndianDecode(AuthSlice(QeSizeAt, QeDataAt))
      fits == AuthLen >= QeDataAt /\ AuthLen >= QeDataAt + size
  IN
  /\ pc = "read_qe_auth_data"
  /\ \/ /\ fits
        /\ parsedDataSize' = size
        /\ offset' = QeDataAt + size
        /\ pc' = "read_cert_header"
        /\ UNCHANGED <<quote, site, authDataSize, certType, certDataSize, certs, isv>>
     \/ /\ ~fits
        /\ Panic("slice_index")

\* Lines 171-174: cert_type from auth[offset..offset+2], offset += 2,
\* cert_data_size from auth[offset..offset+4], offset += 4.
ReadCertHeader ==
  /\ pc = "read_cert_header"
  /\ \/ /\ AuthLen >= offset + 2
        /\ AuthLen >= offset + 6
        /\ certType' = LittleEndianDecode(AuthSlice(offset, offset + 2))
        /\ certDataSize' = LittleEndianDecode(AuthSlice(offset + 2, offset + 6))
        /\ offset' = offset + 6
        /\ pc' = "parse_cert_chain"
        /\ UNCHANGED <<quote, site, authDataSize, parsedDataSize, certs, isv>>
     \/ /\ AuthLen < offset + 6
        /\ Panic("slice_index")

\* The bundle auth[offset..offset + cert_data_size] lies inside the auth
\* data, so the slice of line 175 does not panic.
CertBundleFits == AuthLen >= offset + certDataSize

\* Mutant: the PEM count assertion dropped; the blocks found are copied
\* into the three slots, a missing one staying vec![] (0), and a fourth
\* one indexing past the array.
ParseCertChainNoCountAssert ==
  /\ pc = "parse_cert_chain"
  /\ \/ /\ ~CertBundleFits
        /\ Panic("slice_index")
     \/ /\ CertBundleFits
        /\ quote.pem = MalformedPem
        /\ Panic("pem_unwrap")
     \/ /\ CertBundleFits
        /\ quote.pem \in Nat
        /\ quote.pem > 3
        /\ Panic("slice_index")
     \/ /\ CertBundleFits
        /\ quote.pem \in 0..3
        /\ certs' = [i \in 1..3 |-> IF i <= quote.pem THEN i ELSE 0]
        /\ pc' = "assemble"
        /\ UNCHANGED <<quote, site, authDataSize, parsedDataSize, offset, certType, certDataSize, isv>>

\* parse_cerification_chain_bytes (lines 152-160), called on line 176 once
\* the bundle is sliced (CertBundleFits): parse_many(..).unwrap(),
\* assert_eq!(pems.len(), 3), then the blocks copied in order.
ParseCertChain ==
  /\ pc = "parse_cert_chain"
  /\ \/ /\ ~CertBundleFits
        /\ Panic("slice_index")
     \/ /\ CertBundleFits
        /\ quote.pem = MalformedPem
        /\ Panic("pem_unwrap")
     \/ /\ CertBundleFits
        /\ quote.pem \in Nat \ {3}
        /\ Panic("pem_count")
     \/ /\ CertBundleFits
        /\ quote.pem = 3
        /\ certs' = [i \in 1..quote.pem |-> i]
        /\ pc' = "assemble"
        /\ UNCHANGED <<quote, site, authDataSize, parsedDataSize, offset, certType, certDataSize, isv>>

\* Lines 178-203 and 218-224: the fixed sections auth[0..576] and the QE
\* report parsed by parse_quote_enclave_report (line 181; inside the 578
\* bytes already checked), the conversion of the three blocks to bytes[3],
\* and the assembly of ParsedV3QuoteStruct.  None of these can fail once
\* the previous steps succeeded.
AssembleQuote ==
  /\ pc = "assemble"
  /\ isv' = [isv EXCEPT !["qe"] = ReportIsv(ReportAt["qe"])]
  /\ pc' = "done"
  /\ UNCHANGED <<quote, site, authDataSize, parsedDataSize, offset,
                 certType, certDataSize, certs>>

Next ==
  \/ HexDecode
  \/ ParseHeader
  \/ ParseLocalReport
  \/ ReadAuthDataSize
  \/ CheckQuoteLength
  \/ ReadQeAuthData
  \/ ReadCertHeader
  \/ ParseCertChain
  \/ AssembleQuote

Spec == Init /\ [][Next]_vars

-----------------------------------------------------------------------------
(* Properties.                                                             *)

\* Every variable holds a value of its type; an accepted certificate array
\* holds three parsed blocks and never the empty placeholder vec![].
TypeOK ==
  /\ quote \in Quotes
  /\ pc \in PCs
  /\ site \in Sites \cup {NoSite}
  /\ authDataSize \in Nat
  /\ parsedDataSize \in Nat
  /\ offset \in Nat
  /\ certType \in Nat
  /\ certDataSize \in Nat
  /\ certs \in {<<>>} \cup [1..3 -> PemBlock]
  /\ isv \in [Reports -> [prodId : U16, svn : U16]]

\* A quote parse_quote accepts (lines 206-225) has a declared auth-data
\* length equal to the bytes after offset 436, and its length-prefixed
\* sections (QE auth data, certificate header, certificate bundle) lie one
\* after the other inside that auth data, with three certificates.
AcceptedQuoteWellFormed ==
  pc = "done" =>
    /\ QuoteLen = AuthDataStart + authDataSize
    /\ offset = QeDataAt + parsedDataSize + 6
    /\ offset + certDataSize <= authDataSize
    /\ Len(certs) = 3

\* The inductive strengthening of AcceptedQuoteWellFormed: what each step
\* of parse_quote has established about the quote by the time it runs.
\* The first conjunct is why the usize subtraction of line 213 cannot wrap.
WellFormedInv ==
  /\ pc \in {"check_length", "read_qe_auth_data", "read_cert_header",
            "parse_cert_chain", "assemble", "done"}
       => QuoteLen >= AuthDataStart
  /\ pc \in {"read_qe_auth_data", "read_cert_header", "parse_cert_chain",
            "assemble", "done"}
       => QuoteLen = AuthDataStart + authDataSize
  /\ pc = "read_cert_header" => offset = QeDataAt + parsedDataSize
  /\ pc \in {"parse_cert_chain", "assemble", "done"}
       => offset = QeDataAt + parsedDataSize + 6
  /\ pc \in {"assemble", "done"}
       => offset + certDataSize <= authDataSize /\ Len(certs) = 3

=============================================================================
