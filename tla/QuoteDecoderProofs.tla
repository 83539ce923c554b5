------------------------- MODULE QuoteDecoderProofs -------------------------
(***************************************************************************)
(* Proofs about QuoteDecoder, for every set of candidate quotes: the type  *)
(* invariant, and that every quote parse_quote accepts is well formed.    *)
(***************************************************************************)
EXTENDS QuoteDecoder, SequenceTheorems, TLAPS

-----------------------------------------------------------------------------
(* Lemmas on the little-endian reader and on slices.                       *)

\* Each power of 16 that iterations 0-3 of the reader use is a natural
\* number.  (The backends evaluate 16^k for a literal k only up to 16^9;
\* every call of the decoder reads 2 or 4 bytes, so iterations 0-3 are all
\* that contribute.)
LEMMA PowerOf16Nat ==
  ASSUME NEW k \in 0..7
  PROVE  16^k \in Nat
<1>1. CASE k = 0 BY <1>1
<1>2. CASE k = 1 BY <1>2
<1>3. CASE k = 2 BY <1>3
<1>4. CASE k = 3 BY <1>4
<1>5. CASE k = 4 BY <1>5
<1>6. CASE k = 5 BY <1>6
<1>7. CASE k = 6 BY <1>7
<1>8. CASE k = 7 BY <1>8
<1>9. QED BY <1>1, <1>2, <1>3, <1>4, <1>5, <1>6, <1>7, <1>8

\* What one iteration of little_endian_decode adds is a natural number,
\* for a slice of at most 4 bytes.
LEMMA DigitsTermNat ==
  ASSUME NEW s \in Seq(Byte), Len(s) <= 4, NEW i \in 0..7
  PROVE  DigitsTerm(s, i) \in Nat
<1>1. CASE i < Len(s)
  <2>1. PICK b \in 0..255 : b = s[i + 1]
    <3>1. i + 1 \in 1..Len(s) BY <1>1
    <3>2. QED BY <3>1, ElementOfSeq DEF Byte
  <2>2. s[i + 1] % 16 \in Nat BY <2>1
  <2>5. s[i + 1] \div 16 \in Nat
    <3>1. b \div 16 \in Nat OBVIOUS
    <3>2. QED BY <2>1, <3>1, Zenon
  <2>3. 16^(2 * i) \in Nat /\ 16^(2 * i + 1) \in Nat
    <3>1. 2 * i \in 0..7 /\ 2 * i + 1 \in 0..7 BY <1>1
    <3>2. QED BY <3>1, PowerOf16Nat
  <2>4. QED BY <1>1, <2>2, <2>5, <2>3 DEF DigitsTerm
<1>2. CASE ~(i < Len(s)) BY <1>2 DEF DigitsTerm
<1>3. QED BY <1>1, <1>2

\* The sum the decoder accumulates is a natural number when every term is.
LEMMA DecodeOfNatTerms ==
  ASSUME NEW s,
         /\ DigitsTerm(s, 0) \in Nat /\ DigitsTerm(s, 1) \in Nat
         /\ DigitsTerm(s, 2) \in Nat /\ DigitsTerm(s, 3) \in Nat
         /\ DigitsTerm(s, 4) \in Nat /\ DigitsTerm(s, 5) \in Nat
         /\ DigitsTerm(s, 6) \in Nat /\ DigitsTerm(s, 7) \in Nat
  PROVE  LittleEndianDecode(s) \in Nat
BY DEF LittleEndianDecode

\* little_endian_decode of at most 4 bytes returns a natural number.
LEMMA LittleEndianDecodeNat ==
  ASSUME NEW s \in Seq(Byte), Len(s) <= 4
  PROVE  LittleEndianDecode(s) \in Nat
<1>1. /\ DigitsTerm(s, 0) \in Nat /\ DigitsTerm(s, 1) \in Nat
      /\ DigitsTerm(s, 2) \in Nat /\ DigitsTerm(s, 3) \in Nat
      /\ DigitsTerm(s, 4) \in Nat /\ DigitsTerm(s, 5) \in Nat
      /\ DigitsTerm(s, 6) \in Nat /\ DigitsTerm(s, 7) \in Nat
  BY DigitsTermNat
<1>2. QED BY <1>1, DecodeOfNatTerms

\* A slice of the quote that ends inside it is a byte string of to - from
\* bytes.
LEMMA SliceIsBytes ==
  ASSUME quote \in QuoteInput, NEW from \in Nat, NEW to \in Nat,
         from <= to, to <= Len(quote.bytes)
  PROVE  /\ Slice(from, to) \in Seq(Byte)
         /\ Len(Slice(from, to)) = to - from
<1>1. quote.bytes \in Seq(Byte) BY DEF QuoteInput
<1>2. \A i \in (from + 1)..to : quote.bytes[i] \in Byte
  BY <1>1, ElementOfSeq
<1>3. QED BY <1>2, SubSeqProperties DEF Slice

\* An integer read from at most 4 bytes inside the quote is a natural number.
LEMMA ReadIsNat ==
  ASSUME quote \in QuoteInput, NEW from \in Nat, NEW to \in Nat,
         from <= to, to <= Len(quote.bytes), to - from <= 4
  PROVE  LittleEndianDecode(Slice(from, to)) \in Nat
BY SliceIsBytes, LittleEndianDecodeNat

\* The u16 cast of a natural number is a u16.
LEMMA AsU16Range ==
  ASSUME NEW x \in Nat
  PROVE  AsU16(x) \in U16
BY DEF AsU16, U16

\* The isv fields of a report whose 260 bytes lie inside the quote are u16s.
LEMMA ReportIsvType ==
  ASSUME quote \in QuoteInput, NEW base \in Nat, base + 260 <= Len(quote.bytes)
  PROVE  ReportIsv(base) \in [prodId : U16, svn : U16]
<1>1. /\ LittleEndianDecode(Slice(base + 256, base + 258)) \in Nat
      /\ LittleEndianDecode(Slice(base + 258, base + 260)) \in Nat
  BY ReadIsNat
<1>2. QED BY <1>1, AsU16Range DEF ReportIsv

-----------------------------------------------------------------------------
(* Type correctness.                                                       *)

\* Each step of the decoder keeps every variable in its type.  The integer
\* reads are natural numbers because every slice the code decodes ends
\* inside the quote: the step's own bounds check says so, except for the
\* QE report read at assembly, which WellFormedInv places inside the quote.
LEMMA TypeStep ==
  ASSUME TypeOK, WellFormedInv, [Next]_vars
  PROVE  TypeOK'
<1> USE DEF TypeOK, PCs, Sites, NoSite, dataVars, vars
<1>0. /\ quote \in QuoteInput
      /\ QuoteLen \in Nat
  BY QuotesAssumption, LenProperties DEF QuoteInput, QuoteLen
<1>1. CASE HexDecode BY <1>1 DEF HexDecode, Panic
<1>2. CASE ParseHeader BY <1>2 DEF ParseHeader, Panic
<1>3. CASE ParseLocalReport
  <2>1. QuoteLen >= 432 => ReportIsv(ReportAt["local"]) \in [prodId : U16, svn : U16]
    BY <1>0, ReportIsvType DEF ReportAt, Reports, QuoteLen
  <2>2. QED BY <1>3, <2>1 DEF ParseLocalReport, Panic, Reports
<1>4. CASE ReadAuthDataSize
  <2>1. QuoteLen >= 436 => LittleEndianDecode(Slice(432, 436)) \in Nat
    BY <1>0, ReadIsNat DEF QuoteLen
  <2>2. QED BY <1>4, <2>1 DEF ReadAuthDataSize, Panic
<1>5. CASE CheckQuoteLength BY <1>5 DEF CheckQuoteLength, Panic
<1>6. CASE ReadQeAuthData
  <2> DEFINE size == LittleEndianDecode(AuthSlice(QeSizeAt, QeDataAt))
  <2>1. AuthLen >= QeDataAt => size \in Nat
    BY <1>0, ReadIsNat DEF AuthSlice, AuthLen, QeSizeAt, QeDataAt, AuthDataStart, QuoteLen
  <2>2. QED BY <1>6, <2>1 DEF ReadQeAuthData, Panic, QeDataAt
<1>7. CASE ReadCertHeader
  <2>1. AuthLen >= offset + 6 =>
          /\ LittleEndianDecode(AuthSlice(offset, offset + 2)) \in Nat
          /\ LittleEndianDecode(AuthSlice(offset + 2, offset + 6)) \in Nat
    BY <1>0, ReadIsNat DEF AuthSlice, AuthLen, AuthDataStart, QuoteLen
  <2>2. QED BY <1>7, <2>1 DEF ReadCertHeader, Panic
<1>8. CASE ParseCertChain
  <2>1. quote.pem = 3 => [i \in 1..quote.pem |-> i] \in [1..3 -> PemBlock]
    BY DEF PemBlock
  <2>2. CASE quote.pem = 3 BY <1>8, <2>1, <2>2 DEF ParseCertChain, Panic
  <2>3. CASE quote.pem # 3 BY <1>8, <2>3 DEF ParseCertChain, Panic
  <2>4. QED BY <2>2, <2>3
<1>9. CASE AssembleQuote
  <2>1. pc = "assemble" => QuoteLen >= AuthDataStart + 128 + 260
    BY <1>0 DEF WellFormedInv, AuthDataStart, QeDataAt
  <2>2. pc = "assemble" => ReportIsv(ReportAt["qe"]) \in [prodId : U16, svn : U16]
    BY <1>0, <2>1, ReportIsvType DEF ReportAt, Reports, QuoteLen, AuthDataStart
  <2>3. isv' \in [Reports -> [prodId : U16, svn : U16]]
    BY <1>9, <2>2 DEF AssembleQuote, Reports
  <2>4. QED BY <1>0, <1>9, <2>3 DEF AssembleQuote
<1>10. CASE UNCHANGED vars BY <1>0, <1>10
<1>11. QED BY <1>1, <1>2, <1>3, <1>4, <1>5, <1>6, <1>7, <1>8, <1>9, <1>10 DEF Next

-----------------------------------------------------------------------------
(* Accepted quotes are well formed.                                        *)

\* TypeOK /\ WellFormedInv holds initially and is kept by every step.
LEMMA WellFormedStep ==
  ASSUME TypeOK, WellFormedInv, [Next]_vars
  PROVE  WellFormedInv'
<1> USE DEF WellFormedInv, dataVars, vars
<1>0. QuoteLen \in Nat /\ QuoteLen' = QuoteLen
  <2>1. quote \in QuoteInput BY QuotesAssumption DEF TypeOK
  <2>2. quote' = quote
    BY DEF Next, HexDecode, ParseHeader, ParseLocalReport, ReadAuthDataSize,
           CheckQuoteLength, ReadQeAuthData, ReadCertHeader, ParseCertChain,
           AssembleQuote, Panic
  <2>3. QED BY <2>1, <2>2, LenProperties DEF QuoteInput, QuoteLen
<1>1. CASE HexDecode BY <1>1 DEF HexDecode, Panic
<1>2. CASE ParseHeader BY <1>2 DEF ParseHeader, Panic
<1>3. CASE ParseLocalReport BY <1>3 DEF ParseLocalReport, Panic
<1>4. CASE ReadAuthDataSize BY <1>0, <1>4 DEF ReadAuthDataSize, Panic, AuthDataStart
<1>5. CASE CheckQuoteLength
  BY <1>0, <1>5 DEF CheckQuoteLength, Panic, AuthDataStart, TypeOK
<1>6. CASE ReadQeAuthData
  BY <1>0, <1>6 DEF ReadQeAuthData, Panic
<1>7. CASE ReadCertHeader
  BY <1>0, <1>7 DEF ReadCertHeader, Panic
<1>8. CASE ParseCertChain
  <2>1. CASE quote.pem = 3
    <3>1. Len([i \in 1..quote.pem |-> i]) = 3 BY <2>1
    <3>2. QED BY <1>0, <1>8, <2>1, <3>1, PemAssumption, QuotesAssumption
            DEF ParseCertChain, CertBundleFits, Panic, AuthLen, AuthDataStart, TypeOK
  <2>2. CASE quote.pem # 3
    BY <1>0, <1>8, <2>2 DEF ParseCertChain, Panic
  <2>3. QED BY <2>1, <2>2
<1>9. CASE AssembleQuote BY <1>0, <1>9 DEF AssembleQuote
<1>10. CASE UNCHANGED vars BY <1>0, <1>10
<1>11. QED BY <1>1, <1>2, <1>3, <1>4, <1>5, <1>6, <1>7, <1>8, <1>9, <1>10 DEF Next

\* TypeOK holds in every state the decoder reaches.  It is proved together
\* with WellFormedInv, which the type of the QE report's fields needs.
THEOREM TypeCorrect == Spec => []TypeOK
<1>1. Init => TypeOK /\ WellFormedInv BY DEF Init, TypeOK, PCs, NoSite, WellFormedInv, U16, Reports
<1>2. TypeOK /\ WellFormedInv /\ [Next]_vars => TypeOK' /\ WellFormedInv'
  BY TypeStep, WellFormedStep
<1>3. QED BY <1>1, <1>2, PTL DEF Spec

\* A quote that parse_quote accepts is well formed: its declared auth-data
\* length matches the bytes after offset 436, and the QE auth data, the
\* certificate header and the certificate bundle lie inside that auth data.
THEOREM AcceptedQuotesWellFormed == Spec => []AcceptedQuoteWellFormed
<1>1. Init => WellFormedInv BY DEF Init, WellFormedInv
<1>2. TypeOK /\ WellFormedInv => AcceptedQuoteWellFormed
  BY DEF WellFormedInv, AcceptedQuoteWellFormed
<1>3. QED BY <1>1, <1>2, TypeCorrect, WellFormedStep, PTL DEF Spec

=============================================================================
