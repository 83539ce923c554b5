----------------------- MODULE DecoderRefinementProofs -----------------------
(***************************************************************************)
(* Proof that parse_quote, step by step (QuoteDecoder), implements the     *)
(* atomic specification QuoteDecoding under the mapping DecoderVerdict,   *)
(* for every set of input quotes.  The argument has two parts:             *)
(*   - the code's digit-splitting reader and the reference little-endian  *)
(*     value agree on the 2- and 4-byte fields the decoder reads;          *)
(*   - RefinementInv records, at each pc, what the decoder has read so far *)
(*     in terms of the spec's offsets, so that the step into "done" or     *)
(*     "panicked" produces exactly the spec's verdict.                     *)
(***************************************************************************)
EXTENDS DecoderRefinement, QuoteDecoderProofs

-----------------------------------------------------------------------------
(* The two readers of a little-endian field.                               *)

\* The value of the first k bytes of s, for a string of at most 4 bytes,
\* written out: the sum of byte[j] * 256^j of spec section 8.
ByteSum(s, k) ==
    (IF k >= 1 THEN s[1] ELSE 0)
  + (IF k >= 2 THEN s[2] * 256 ELSE 0)
  + (IF k >= 3 THEN s[3] * 65536 ELSE 0)
  + (IF k >= 4 THEN s[4] * 16777216 ELSE 0)

\* The reference value of section 8 (a recursive function) is the byte sum,
\* for a string of 1 to 4 bytes.  Recursion on a fixed, small domain needs
\* no induction: the partial sums are the only function the recursion
\* admits, and the reference value is their last one.
LEMMA ReferenceIsByteSum ==
  ASSUME NEW s \in Seq(Byte), Len(s) \in 1..4
  PROVE  Abstract!LittleEndianValue(s) = ByteSum(s, Len(s))
<1> DEFINE Eq(v) == v = [k \in 0..Len(s) |-> IF k = 0 THEN 0
                                             ELSE v[k - 1] + s[k] * 256^(k - 1)]
<1>1. \A k \in 1..Len(s) : s[k] \in Int
  <2> TAKE k \in 1..Len(s)
  <2>1. s[k] \in Byte BY ElementOfSeq
  <2>2. \A x \in Byte : x \in Int BY DEF Byte
  <2>3. QED BY <2>1, <2>2, Zenon
<1>2. \A k \in 1..Len(s) : ByteSum(s, k) = ByteSum(s, k - 1) + s[k] * 256^(k - 1)
  <2> TAKE k \in 1..Len(s)
  <2>1. CASE k = 1 BY <2>1, <1>1 DEF ByteSum
  <2>2. CASE k = 2 BY <2>2, <1>1 DEF ByteSum
  <2>3. CASE k = 3 BY <2>3, <1>1 DEF ByteSum
  <2>4. CASE k = 4 BY <2>4, <1>1 DEF ByteSum
  <2>5. QED BY <2>1, <2>2, <2>3, <2>4
<1>3. \E v : Eq(v)
  <2>1. ByteSum(s, 0) = 0 BY DEF ByteSum
  <2>2. Eq([k \in 0..Len(s) |-> ByteSum(s, k)]) BY <2>1, <1>2
  <2>3. QED BY <2>2
<1>4. PICK v : Eq(v) /\ Abstract!LittleEndianValue(s) = v[Len(s)]
  BY <1>3 DEF Abstract!LittleEndianValue
<1>5. \A k \in 0..Len(s) : v[k] = IF k = 0 THEN 0 ELSE v[k - 1] + s[k] * 256^(k - 1)
  <2> TAKE k \in 0..Len(s)
  <2>1. v[k] = [j \in 0..Len(s) |-> IF j = 0 THEN 0
                                    ELSE v[j - 1] + s[j] * 256^(j - 1)][k]
    BY <1>4, Zenon
  <2>2. QED BY <2>1, Zenon
<1>6. \A k \in 0..Len(s) : v[k] = ByteSum(s, k)
  <2>1. v[0] = ByteSum(s, 0) BY <1>5 DEF ByteSum
  <2>2. 1 <= Len(s) => v[1] = ByteSum(s, 1) BY <1>5, <2>1, <1>2
  <2>3. 2 <= Len(s) => v[2] = ByteSum(s, 2) BY <1>5, <2>2, <1>2
  <2>4. 3 <= Len(s) => v[3] = ByteSum(s, 3) BY <1>5, <2>3, <1>2
  <2>5. 4 <= Len(s) => v[4] = ByteSum(s, 4) BY <1>5, <2>4, <1>2
  <2> TAKE k \in 0..Len(s)
  <2>6. k \in {0, 1, 2, 3, 4} /\ k <= Len(s)
    <3>1. \A n \in 1..4 : \A j \in 0..n : j \in {0, 1, 2, 3, 4} /\ j <= n OBVIOUS
    <3>2. QED BY <3>1, Zenon
  <2>7. QED BY <2>1, <2>2, <2>3, <2>4, <2>5, <2>6, Zenon
<1>7. QED BY <1>4, <1>6

\* One iteration of little_endian_decode weighs a byte's two hexadecimal
\* digits so that together they count as the byte times 256^i.
LEMMA DigitsMakeByte ==
  ASSUME NEW d \in 0..255, NEW i \in 0..3
  PROVE  (d % 16) * 16^(2 * i) + (d \div 16) * 16^(2 * i + 1) = d * 256^i
<1>1. d = (d % 16) + 16 * (d \div 16) OBVIOUS
<1>2. CASE i = 0 BY <1>1, <1>2
<1>3. CASE i = 1 BY <1>1, <1>3
<1>4. CASE i = 2 BY <1>1, <1>4
<1>5. CASE i = 3 BY <1>1, <1>5
<1>6. QED BY <1>2, <1>3, <1>4, <1>5

\* little_endian_decode of 1 to 4 bytes is the byte sum of section 8.
LEMMA DecodeIsByteSum ==
  ASSUME NEW s \in Seq(Byte), Len(s) \in 1..4
  PROVE  LittleEndianDecode(s) = ByteSum(s, Len(s))
<1>1. \A i \in 0..7 : DigitsTerm(s, i) = IF i < Len(s) THEN s[i + 1] * 256^i ELSE 0
  <2> TAKE i \in 0..7
  <2>1. CASE i < Len(s)
    <3>1. i \in 0..3 /\ i + 1 \in 1..Len(s)
      <4>1. \A n \in 1..4 : \A j \in 0..7 : j < n => j \in 0..3 /\ j + 1 \in 1..n
        OBVIOUS
      <4>2. QED BY <2>1, <4>1, Zenon
    <3>2. PICK d \in 0..255 : d = s[i + 1] BY <3>1, ElementOfSeq DEF Byte
    <3>3. (d % 16) * 16^(2 * i) + (d \div 16) * 16^(2 * i + 1) = d * 256^i
      BY <3>1, DigitsMakeByte
    <3>4. QED BY <2>1, <3>2, <3>3, Zenon DEF DigitsTerm
  <2>2. CASE ~(i < Len(s)) BY <2>2 DEF DigitsTerm
  <2>3. QED BY <2>1, <2>2
<1>2. \A k \in 1..Len(s) : s[k] \in Int
  <2> TAKE k \in 1..Len(s)
  <2>1. s[k] \in Byte BY ElementOfSeq
  <2>2. \A x \in Byte : x \in Int BY DEF Byte
  <2>3. QED BY <2>1, <2>2, Zenon
<1>3. CASE Len(s) = 1 BY <1>1, <1>2, <1>3 DEF LittleEndianDecode, ByteSum
<1>4. CASE Len(s) = 2 BY <1>1, <1>2, <1>4 DEF LittleEndianDecode, ByteSum
<1>5. CASE Len(s) = 3 BY <1>1, <1>2, <1>5 DEF LittleEndianDecode, ByteSum
<1>6. CASE Len(s) = 4 BY <1>1, <1>2, <1>6 DEF LittleEndianDecode, ByteSum
<1>7. QED
  <2>1. \A n \in 1..4 : n \in {1, 2, 3, 4} OBVIOUS
  <2>2. QED BY <1>3, <1>4, <1>5, <1>6, <2>1, Zenon

\* The two readers agree on every byte string of 1 to 4 bytes.
LEMMA ReadersAgree ==
  ASSUME NEW s \in Seq(Byte), Len(s) \in 1..4
  PROVE  LittleEndianDecode(s) = Abstract!LittleEndianValue(s)
BY ReferenceIsByteSum, DecodeIsByteSum

\* Two bytes, low byte first, make a value below 65536.
LEMMA ByteSumOfWord ==
  ASSUME NEW t, NEW a \in Nat, NEW b \in Nat, a < 256, b < 256,
         t[1] = a, t[2] = b
  PROVE  /\ ByteSum(t, 2) = a + b * 256
         /\ a + b * 256 \in Nat
         /\ (a + b * 256) % 65536 = a + b * 256
<1>1. ByteSum(t, 2) = a + b * 256 BY DEF ByteSum
<1>2. a + b * 256 \in Nat /\ a + b * 256 < 65536 OBVIOUS
<1>3. QED BY <1>1, <1>2

\* A 2-byte field is a u16, so the `as u16` casts the code applies to it
\* change nothing.
LEMMA WordIsU16 ==
  ASSUME NEW s \in Seq(Byte), Len(s) = 2
  PROVE  /\ LittleEndianDecode(s) \in Nat
         /\ AsU16(LittleEndianDecode(s)) = LittleEndianDecode(s)
<1>1. 1 \in 1..Len(s) /\ 2 \in 1..Len(s) /\ Len(s) \in 1..4
  <2>1. \A n : n = 2 => 1 \in 1..n /\ 2 \in 1..n /\ n \in 1..4 OBVIOUS
  <2>2. QED BY <2>1, Zenon
<1>2. PICK a \in Nat, b \in Nat : a = s[1] /\ b = s[2] /\ a < 256 /\ b < 256
  <2>1. s[1] \in Byte /\ s[2] \in Byte BY <1>1, ElementOfSeq, Zenon
  <2>2. \A x \in Byte : x \in Nat /\ x < 256 BY DEF Byte
  <2>3. QED BY <2>1, <2>2, Zenon
<1>3. LittleEndianDecode(s) = ByteSum(s, 2)
  BY <1>1, DecodeIsByteSum, Zenon
<1>4. /\ ByteSum(s, 2) = a + b * 256
      /\ a + b * 256 \in Nat
      /\ (a + b * 256) % 65536 = a + b * 256
  BY <1>2, ByteSumOfWord
<1>5. QED BY <1>3, <1>4, SMTT(30) DEF AsU16

\* A field of the spec, read with the reference value at quote offset
\* `at`, is what the decoder's reader returns on the same bytes.
LEMMA FieldIsRead ==
  ASSUME quote \in QuoteInput, NEW at \in Nat, NEW w \in {2, 4},
         at + w <= QuoteLen
  PROVE  Abstract!LittleEndianValue(SubSeq(quote.bytes, at + 1, at + w))
           = LittleEndianDecode(Slice(at, at + w))
<1>1. Slice(at, at + w) \in Seq(Byte) /\ Len(Slice(at, at + w)) = w
  <2>1. at + w \in Nat /\ at <= at + w /\ (at + w) - at = w OBVIOUS
  <2>2. Slice(at, at + w) \in Seq(Byte) /\ Len(Slice(at, at + w)) = (at + w) - at
    BY <2>1, SliceIsBytes, Zenon DEF QuoteLen
  <2>3. QED BY <2>1, <2>2, Zenon
<1>2. Len(Slice(at, at + w)) \in 1..4
  <2>1. w \in 1..4 OBVIOUS
  <2>2. QED BY <1>1, <2>1, Zenon
<1>3. QED BY <1>1, <1>2, ReadersAgree, Zenon DEF Slice

-----------------------------------------------------------------------------
(* The spec's verdict, case by case, in terms of what the decoder reads.   *)

\* The verdict QuoteDecoding gives the decoder's input.
SV == Abstract!SpecVerdict(quote)

\* The integers parse_quote reads: the auth-data size (line 211), the QE
\* auth-data size (line 166), and the certificate type and size (lines 171
\* and 173) that follow a QE auth data of p bytes.
RdAuthSize == LittleEndianDecode(Slice(432, AuthDataStart))
RdQeSize == LittleEndianDecode(AuthSlice(QeSizeAt, QeDataAt))
RdCertType(p) == LittleEndianDecode(AuthSlice(QeDataAt + p, QeDataAt + p + 2))
RdCertSize(p) == LittleEndianDecode(AuthSlice(QeDataAt + p + 2, QeDataAt + p + 6))

\* parse_quote rejects an input that is not hex as InvalidHex.
LEMMA VerdictHex ==
  ASSUME ~quote.hexOk
  PROVE  SV = [kind |-> "InvalidHex"]
BY DEF SV, Abstract!SpecVerdict, Abstract!Failure

\* An input too short for the header, the local report or the auth-data
\* size is TruncatedInput.
LEMMA VerdictShort ==
  ASSUME quote.hexOk, QuoteLen <= 48 \/ QuoteLen < AuthDataStart
  PROVE  SV = [kind |-> "TruncatedInput"]
BY DEF SV, Abstract!SpecVerdict, Abstract!Failure, QuoteLen, AuthDataStart

\* A declared auth-data size other than the real one is LengthMismatch.
LEMMA VerdictLength ==
  ASSUME quote \in QuoteInput, quote.hexOk, QuoteLen >= AuthDataStart,
         AuthLen # RdAuthSize
  PROVE  SV = [kind |-> "LengthMismatch"]
<1>1. QuoteLen \in Nat BY LenProperties, Zenon DEF QuoteInput, QuoteLen
<1>2. Abstract!LittleEndianValue(SubSeq(quote.bytes, 432 + 1, 432 + 4)) = RdAuthSize
  <2>1. 432 + 4 <= QuoteLen BY <1>1 DEF AuthDataStart
  <2>2. QED BY <2>1, FieldIsRead DEF RdAuthSize, AuthDataStart
<1>3. QED BY <1>1, <1>2 DEF SV, Abstract!SpecVerdict, Abstract!Failure, QuoteLen, AuthLen, AuthDataStart

\* The QE auth-data size of the spec is the decoder's, once the auth data
\* holds it.
LEMMA QeSizeField ==
  ASSUME quote \in QuoteInput, QuoteLen >= AuthDataStart, AuthLen >= QeDataAt
  PROVE  /\ Abstract!LittleEndianValue(SubSeq(quote.bytes, 436 + 576 + 1, 436 + 576 + 2))
              = RdQeSize
         /\ RdQeSize \in Nat
<1>1. QuoteLen \in Nat BY LenProperties, Zenon DEF QuoteInput, QuoteLen
<1>2. 436 + 576 + 2 <= QuoteLen BY <1>1 DEF AuthLen, AuthDataStart, QeDataAt
<1>3. 436 + 576 \in Nat OBVIOUS
<1>4. Abstract!LittleEndianValue(SubSeq(quote.bytes, 436 + 576 + 1, 436 + 576 + 2))
        = LittleEndianDecode(Slice(436 + 576, 436 + 576 + 2))
  BY <1>2, <1>3, FieldIsRead
<1>5. Slice(436 + 576, 436 + 576 + 2) = AuthSlice(QeSizeAt, QeDataAt)
  BY DEF AuthSlice, AuthDataStart, QeSizeAt, QeDataAt
<1>6. LittleEndianDecode(Slice(436 + 576, 436 + 576 + 2)) \in Nat
  BY <1>2, <1>3, ReadIsNat DEF QuoteLen
<1>7. QED BY <1>4, <1>5, <1>6 DEF RdQeSize

\* The certificate type and size of the spec, after a QE auth data of p
\* bytes, are the decoder's, once the auth data holds them.
LEMMA CertHeaderFields ==
  ASSUME quote \in QuoteInput, NEW p \in Nat, QuoteLen >= AuthDataStart,
         AuthLen >= QeDataAt + p + 6
  PROVE  /\ Abstract!LittleEndianValue(SubSeq(quote.bytes, 436 + (578 + p) + 1,
                                                           436 + (578 + p) + 2))
              = RdCertType(p)
         /\ Abstract!LittleEndianValue(SubSeq(quote.bytes, 436 + (578 + p) + 2 + 1,
                                                           436 + (578 + p) + 2 + 4))
              = RdCertSize(p)
         /\ RdCertType(p) \in Nat
         /\ RdCertSize(p) \in Nat
<1>1. QuoteLen \in Nat BY LenProperties, Zenon DEF QuoteInput, QuoteLen
<1> DEFINE t == 436 + (578 + p)
<1>2. t \in Nat /\ t + 2 \in Nat /\ t + 2 <= QuoteLen /\ t + 2 + 4 <= QuoteLen
  BY <1>1 DEF AuthLen, AuthDataStart, QeDataAt
<1>3. Abstract!LittleEndianValue(SubSeq(quote.bytes, t + 1, t + 2))
        = LittleEndianDecode(Slice(t, t + 2))
  BY <1>2, FieldIsRead
<1>4. Abstract!LittleEndianValue(SubSeq(quote.bytes, t + 2 + 1, t + 2 + 4))
        = LittleEndianDecode(Slice(t + 2, t + 2 + 4))
  BY <1>2, FieldIsRead
<1>5. /\ Slice(t, t + 2) = AuthSlice(QeDataAt + p, QeDataAt + p + 2)
      /\ Slice(t + 2, t + 2 + 4) = AuthSlice(QeDataAt + p + 2, QeDataAt + p + 6)
  BY DEF AuthSlice, AuthDataStart, QeDataAt
<1>6. /\ LittleEndianDecode(Slice(t, t + 2)) \in Nat
      /\ LittleEndianDecode(Slice(t + 2, t + 2 + 4)) \in Nat
  <2>1. t <= t + 2 /\ t + 2 <= t + 2 + 4 /\ (t + 2) - t <= 4 /\ (t + 2 + 4) - (t + 2) <= 4
    BY <1>2
  <2>2. QED BY <1>2, <2>1, ReadIsNat DEF QuoteLen
<1>7. QED BY <1>3, <1>4, <1>5, <1>6 DEF RdCertType, RdCertSize

\* The facts every later case of the verdict starts from: the input is hex,
\* long enough for the fixed part, and declares its auth-data size right.
HeaderChecked ==
  /\ quote \in QuoteInput
  /\ quote.hexOk
  /\ QuoteLen >= AuthDataStart
  /\ AuthLen = RdAuthSize

\* Under HeaderChecked, the spec's auth-data size field is the real one.
LEMMA AuthSizeField ==
  ASSUME HeaderChecked
  PROVE  /\ QuoteLen \in Nat
         /\ Abstract!LittleEndianValue(SubSeq(quote.bytes, 432 + 1, 432 + 4)) = AuthLen
<1>1. QuoteLen \in Nat BY LenProperties, Zenon DEF HeaderChecked, QuoteInput, QuoteLen
<1>2. 432 + 4 <= QuoteLen BY <1>1 DEF HeaderChecked, AuthDataStart
<1>3. QED BY <1>1, <1>2, FieldIsRead DEF HeaderChecked, RdAuthSize, AuthDataStart

\* Auth data too short for the QE auth data, the certificate header or the
\* certificate bundle it announces is TruncatedInput.
LEMMA VerdictTruncatedAuth ==
  ASSUME HeaderChecked,
         \/ AuthLen < QeDataAt
         \/ AuthLen >= QeDataAt /\ AuthLen < QeDataAt + RdQeSize + 6
         \/ /\ AuthLen >= QeDataAt
            /\ AuthLen >= QeDataAt + RdQeSize + 6
            /\ AuthLen < QeDataAt + RdQeSize + 6 + RdCertSize(RdQeSize)
  PROVE  SV = [kind |-> "TruncatedInput"]
<1>1. /\ QuoteLen \in Nat
      /\ Abstract!LittleEndianValue(SubSeq(quote.bytes, 432 + 1, 432 + 4)) = AuthLen
  BY AuthSizeField
<1>2. CASE AuthLen < QeDataAt
  BY <1>1, <1>2 DEF HeaderChecked, SV, Abstract!SpecVerdict, Abstract!Failure,
                    QuoteLen, AuthLen, AuthDataStart, QeDataAt
<1>3. CASE AuthLen >= QeDataAt /\ AuthLen < QeDataAt + RdQeSize + 6
  <2>1. /\ Abstract!LittleEndianValue(SubSeq(quote.bytes, 436 + 576 + 1, 436 + 576 + 2))
             = RdQeSize
        /\ RdQeSize \in Nat
    BY <1>3, QeSizeField DEF HeaderChecked
  <2>2. QED
    BY <1>1, <1>3, <2>1 DEF HeaderChecked, SV, Abstract!SpecVerdict, Abstract!Failure,
                            QuoteLen, AuthLen, AuthDataStart, QeDataAt
<1>4. CASE /\ AuthLen >= QeDataAt
           /\ AuthLen >= QeDataAt + RdQeSize + 6
           /\ AuthLen < QeDataAt + RdQeSize + 6 + RdCertSize(RdQeSize)
  <2>1. /\ Abstract!LittleEndianValue(SubSeq(quote.bytes, 436 + 576 + 1, 436 + 576 + 2))
             = RdQeSize
        /\ RdQeSize \in Nat
    BY <1>4, QeSizeField DEF HeaderChecked
  <2>2. /\ Abstract!LittleEndianValue(SubSeq(quote.bytes, 436 + (578 + RdQeSize) + 2 + 1,
                                                          436 + (578 + RdQeSize) + 2 + 4))
             = RdCertSize(RdQeSize)
        /\ RdCertSize(RdQeSize) \in Nat
    BY <1>4, <2>1, CertHeaderFields DEF HeaderChecked
  <2> DEFINE Q == Abstract!LittleEndianValue(SubSeq(quote.bytes, 436 + 576 + 1, 436 + 576 + 2))
  <2>3. Abstract!LittleEndianValue(SubSeq(quote.bytes, 436 + (578 + Q) + 2 + 1,
                                                     436 + (578 + Q) + 2 + 4))
          = RdCertSize(RdQeSize)
    <3>1. Q = RdQeSize /\ Q \in Nat /\ AuthLen >= QeDataAt + Q + 6 BY <1>4, <2>1
    <3>2. Abstract!LittleEndianValue(SubSeq(quote.bytes, 436 + (578 + Q) + 2 + 1,
                                                       436 + (578 + Q) + 2 + 4))
            = RdCertSize(Q)
      BY <3>1, CertHeaderFields DEF HeaderChecked
    <3>3. QED BY <3>1, <3>2
  <2>4. QED
    BY <1>1, <1>4, <2>1, <2>3 DEF HeaderChecked, SV, Abstract!SpecVerdict, Abstract!Failure,
                                  QuoteLen, AuthLen, AuthDataStart, QeDataAt
<1>5. QED BY <1>2, <1>3, <1>4

\* The QE auth data, the certificate header and the bundle all lie inside
\* the auth data: the checks of lines 167-175 pass.
BundleFits ==
  /\ AuthLen >= QeDataAt
  /\ AuthLen >= QeDataAt + RdQeSize + 6
  /\ AuthLen >= QeDataAt + RdQeSize + 6 + RdCertSize(RdQeSize)

\* What the spec reads once the bundle fits, in the decoder's terms.
LEMMA FittingFields ==
  ASSUME HeaderChecked, BundleFits
  PROVE  LET Q == Abstract!LittleEndianValue(SubSeq(quote.bytes, 436 + 576 + 1, 436 + 576 + 2))
         IN  /\ QuoteLen \in Nat
             /\ Abstract!LittleEndianValue(SubSeq(quote.bytes, 432 + 1, 432 + 4)) = AuthLen
             /\ Q = RdQeSize
             /\ Q \in Nat
             /\ Abstract!LittleEndianValue(SubSeq(quote.bytes, 436 + (578 + Q) + 1,
                                                              436 + (578 + Q) + 2))
                  = RdCertType(Q)
             /\ Abstract!LittleEndianValue(SubSeq(quote.bytes, 436 + (578 + Q) + 2 + 1,
                                                              436 + (578 + Q) + 2 + 4))
                  = RdCertSize(Q)
             /\ RdCertSize(Q) \in Nat
<1> DEFINE Q == Abstract!LittleEndianValue(SubSeq(quote.bytes, 436 + 576 + 1, 436 + 576 + 2))
<1>1. /\ QuoteLen \in Nat
      /\ Abstract!LittleEndianValue(SubSeq(quote.bytes, 432 + 1, 432 + 4)) = AuthLen
  BY AuthSizeField
<1>2. Q = RdQeSize /\ RdQeSize \in Nat BY QeSizeField DEF HeaderChecked, BundleFits
<1>3. AuthLen >= QeDataAt + Q + 6 BY <1>2 DEF BundleFits
<1>4. /\ Abstract!LittleEndianValue(SubSeq(quote.bytes, 436 + (578 + Q) + 1,
                                                     436 + (578 + Q) + 2))
         = RdCertType(Q)
      /\ Abstract!LittleEndianValue(SubSeq(quote.bytes, 436 + (578 + Q) + 2 + 1,
                                                     436 + (578 + Q) + 2 + 4))
         = RdCertSize(Q)
      /\ RdCertSize(Q) \in Nat
  BY <1>2, <1>3, CertHeaderFields DEF HeaderChecked
<1>5. QED BY <1>1, <1>2, <1>4

\* A bundle that fits but does not parse into exactly three PEM blocks is
\* CertificateChainError.
LEMMA VerdictPem ==
  ASSUME HeaderChecked, BundleFits, quote.pem # 3
  PROVE  SV = [kind |-> "CertificateChainError"]
<1> DEFINE Q == Abstract!LittleEndianValue(SubSeq(quote.bytes, 436 + 576 + 1, 436 + 576 + 2))
<1>1. /\ QuoteLen \in Nat
      /\ Abstract!LittleEndianValue(SubSeq(quote.bytes, 432 + 1, 432 + 4)) = AuthLen
      /\ Q = RdQeSize
      /\ Q \in Nat
      /\ Abstract!LittleEndianValue(SubSeq(quote.bytes, 436 + (578 + Q) + 2 + 1,
                                                     436 + (578 + Q) + 2 + 4))
           = RdCertSize(Q)
      /\ RdCertSize(Q) \in Nat
  BY FittingFields
<1>2. AuthLen >= QeDataAt + Q + 6 + RdCertSize(Q) BY <1>1 DEF BundleFits
<1>3. quote.hexOk /\ QuoteLen >= AuthDataStart /\ AuthLen >= QeDataAt
  BY DEF HeaderChecked, BundleFits
<1> DEFINE n == Len(quote.bytes)
           certSize == Abstract!LittleEndianValue(SubSeq(quote.bytes, 436 + (578 + Q) + 2 + 1,
                                                                   436 + (578 + Q) + 2 + 4))
<1>4. ~(n <= 48 \/ n < 436) BY <1>1, <1>3 DEF QuoteLen, AuthDataStart
<1>5. ~(n - 436 # Abstract!LittleEndianValue(SubSeq(quote.bytes, 432 + 1, 432 + 4)))
  BY <1>1 DEF QuoteLen, AuthLen, AuthDataStart
<1>6. ~(\/ n - 436 < 578
       \/ n - 436 < 578 + Q + 6
       \/ n - 436 < 578 + Q + 6 + certSize)
  BY <1>1, <1>2, <1>3 DEF QuoteLen, AuthLen, AuthDataStart, QeDataAt
<1>7. QED
  BY <1>3, <1>4, <1>5, <1>6, SMTT(60) DEF SV, Abstract!SpecVerdict, Abstract!Failure

\* The isv fields parse_quote_enclave_report reads from a report inside the
\* quote, u16 casts included, are the spec's fields of that report.
LEMMA IsvIsSpecField ==
  ASSUME quote \in QuoteInput, NEW base \in Nat, base + 260 <= QuoteLen
  PROVE  ReportIsv(base) =
           [prodId |-> Abstract!LittleEndianValue(SubSeq(quote.bytes, base + 256 + 1,
                                                                     base + 256 + 2)),
            svn    |-> Abstract!LittleEndianValue(SubSeq(quote.bytes, base + 258 + 1,
                                                                     base + 258 + 2))]
<1> DEFINE lo == Slice(base + 256, base + 258)
           hi == Slice(base + 258, base + 260)
<1>1. /\ base + 256 \in Nat /\ base + 258 \in Nat /\ base + 260 \in Nat
      /\ base + 256 <= base + 258 /\ base + 258 <= base + 260
      /\ base + 258 <= QuoteLen /\ base + 260 <= QuoteLen
      /\ (base + 258) - (base + 256) = 2 /\ (base + 260) - (base + 258) = 2
  BY DEF QuoteLen
<1>2. lo \in Seq(Byte) /\ Len(lo) = 2
  <2>1. lo \in Seq(Byte) /\ Len(lo) = (base + 258) - (base + 256)
    <3>1. /\ base + 256 \in Nat /\ base + 258 \in Nat
          /\ base + 256 <= base + 258 /\ base + 258 <= Len(quote.bytes)
      BY <1>1 DEF QuoteLen
    <3>2. QED BY <3>1, SliceIsBytes
  <2>2. QED BY <1>1, <2>1, Zenon
<1>3. hi \in Seq(Byte) /\ Len(hi) = 2
  <2>1. hi \in Seq(Byte) /\ Len(hi) = (base + 260) - (base + 258)
    <3>1. /\ base + 258 \in Nat /\ base + 260 \in Nat
          /\ base + 258 <= base + 260 /\ base + 260 <= Len(quote.bytes)
      BY <1>1 DEF QuoteLen
    <3>2. QED BY <3>1, SliceIsBytes
  <2>2. QED BY <1>1, <2>1, Zenon
<1>4. AsU16(LittleEndianDecode(lo)) = LittleEndianDecode(lo) BY <1>2, WordIsU16
<1>5. AsU16(LittleEndianDecode(hi)) = LittleEndianDecode(hi) BY <1>3, WordIsU16
<1>6. Abstract!LittleEndianValue(SubSeq(quote.bytes, base + 256 + 1, base + 256 + 2))
        = LittleEndianDecode(lo)
  <2>1. base + 256 + 2 <= QuoteLen /\ base + 256 + 2 = base + 258 BY <1>1
  <2>2. Abstract!LittleEndianValue(SubSeq(quote.bytes, base + 256 + 1, base + 256 + 2))
          = LittleEndianDecode(Slice(base + 256, base + 256 + 2))
    BY <1>1, <2>1, FieldIsRead
  <2>3. QED BY <2>1, <2>2, Zenon
<1>7. Abstract!LittleEndianValue(SubSeq(quote.bytes, base + 258 + 1, base + 258 + 2))
        = LittleEndianDecode(hi)
  <2>1. base + 258 + 2 <= QuoteLen /\ base + 258 + 2 = base + 260 BY <1>1
  <2>2. Abstract!LittleEndianValue(SubSeq(quote.bytes, base + 258 + 1, base + 258 + 2))
          = LittleEndianDecode(Slice(base + 258, base + 258 + 2))
    BY <1>1, <2>1, FieldIsRead
  <2>3. QED BY <2>1, <2>2, Zenon
<1>8. QED BY <1>4, <1>5, <1>6, <1>7, Zenon DEF ReportIsv

\* The structure parse_quote assembles from a quote that passes every
\* check, stated with the decoder's reads.
OkVerdict ==
  [kind           |-> "Ok",
   parsedDataSize |-> RdQeSize,
   certType       |-> RdCertType(RdQeSize),
   certDataSize   |-> RdCertSize(RdQeSize),
   certStart      |-> QeDataAt + RdQeSize + 6,
   certificates   |-> <<1, 2, 3>>,
   reports        |-> [local |-> ReportIsv(48), qe |-> ReportIsv(AuthDataStart + 128)]]

\* A quote that passes every check and holds three PEM blocks is decoded
\* into the spec's structure.
LEMMA VerdictOk ==
  ASSUME HeaderChecked, BundleFits, quote.pem = 3
  PROVE  SV = OkVerdict
<1> DEFINE Q == Abstract!LittleEndianValue(SubSeq(quote.bytes, 436 + 576 + 1, 436 + 576 + 2))
<1>1. /\ QuoteLen \in Nat
      /\ Abstract!LittleEndianValue(SubSeq(quote.bytes, 432 + 1, 432 + 4)) = AuthLen
      /\ Q = RdQeSize
      /\ Q \in Nat
      /\ Abstract!LittleEndianValue(SubSeq(quote.bytes, 436 + (578 + Q) + 1,
                                                     436 + (578 + Q) + 2))
           = RdCertType(Q)
      /\ Abstract!LittleEndianValue(SubSeq(quote.bytes, 436 + (578 + Q) + 2 + 1,
                                                     436 + (578 + Q) + 2 + 4))
           = RdCertSize(Q)
      /\ RdCertSize(Q) \in Nat
  BY FittingFields
<1>2. AuthLen >= QeDataAt + Q + 6 + RdCertSize(Q) BY <1>1 DEF BundleFits
<1>3. quote.hexOk /\ QuoteLen >= AuthDataStart /\ AuthLen >= QeDataAt
  BY DEF HeaderChecked, BundleFits
<1>4. /\ ReportIsv(48) =
           [prodId |-> Abstract!LittleEndianValue(SubSeq(quote.bytes, 48 + 256 + 1, 48 + 256 + 2)),
            svn    |-> Abstract!LittleEndianValue(SubSeq(quote.bytes, 48 + 258 + 1, 48 + 258 + 2))]
      /\ ReportIsv(436 + 128) =
           [prodId |-> Abstract!LittleEndianValue(SubSeq(quote.bytes, 436 + 128 + 256 + 1,
                                                                     436 + 128 + 256 + 2)),
            svn    |-> Abstract!LittleEndianValue(SubSeq(quote.bytes, 436 + 128 + 258 + 1,
                                                                     436 + 128 + 258 + 2))]
  <2>1. 48 + 260 <= QuoteLen /\ 436 + 128 \in Nat /\ 436 + 128 + 260 <= QuoteLen
    BY <1>1, <1>3 DEF AuthLen, AuthDataStart, QeDataAt
  <2>2. QED BY <2>1, IsvIsSpecField DEF HeaderChecked
<1> DEFINE n == Len(quote.bytes)
           certSize == Abstract!LittleEndianValue(SubSeq(quote.bytes, 436 + (578 + Q) + 2 + 1,
                                                                   436 + (578 + Q) + 2 + 4))
<1>5. ~(n <= 48 \/ n < 436) BY <1>1, <1>3 DEF QuoteLen, AuthDataStart
<1>6. ~(n - 436 # Abstract!LittleEndianValue(SubSeq(quote.bytes, 432 + 1, 432 + 4)))
  BY <1>1 DEF QuoteLen, AuthLen, AuthDataStart
<1>7. ~(\/ n - 436 < 578
       \/ n - 436 < 578 + Q + 6
       \/ n - 436 < 578 + Q + 6 + certSize)
  BY <1>1, <1>2, <1>3, SMTT(30) DEF QuoteLen, AuthLen, AuthDataStart, QeDataAt
<1> DEFINE LV(at) == Abstract!LittleEndianValue(SubSeq(quote.bytes, at + 1, at + 2))
           SpecOk ==
             [kind           |-> "Ok",
              parsedDataSize |-> Q,
              certType       |-> LV(436 + (578 + Q)),
              certDataSize   |-> certSize,
              certStart      |-> 578 + Q + 6,
              certificates   |-> <<1, 2, 3>>,
              reports        |-> [local |-> [prodId |-> LV(48 + 256), svn |-> LV(48 + 258)],
                                  qe    |-> [prodId |-> LV(436 + 128 + 256),
                                             svn    |-> LV(436 + 128 + 258)]]]
<1>8. SV = SpecOk
  BY <1>3, <1>5, <1>6, <1>7, SMTT(60) DEF SV, Abstract!SpecVerdict
<1>9. SpecOk = OkVerdict
  BY <1>1, <1>4 DEF OkVerdict, AuthDataStart, QeDataAt
<1>10. QED BY <1>8, <1>9

-----------------------------------------------------------------------------
(* RefinementInv is inductive.                                             *)

\* The spec's verdict depends on the input alone.
LEMMA VerdictFrame ==
  ASSUME quote' = quote
  PROVE  SV' = SV
BY DEF SV

\* Once the length check has passed, the header facts hold.
LEMMA HeaderCheckedAfterLength ==
  ASSUME TypeOK, WellFormedInv, RefinementInv,
         pc \in {"read_qe_auth_data", "read_cert_header", "parse_cert_chain",
                "assemble", "done"}
  PROVE  HeaderChecked
<1>1. quote \in QuoteInput BY QuotesAssumption DEF TypeOK
<1>2. quote.hexOk BY DEF RefinementInv
<1>3. QuoteLen >= AuthDataStart /\ QuoteLen = AuthDataStart + authDataSize
  BY DEF WellFormedInv
<1>4. authDataSize = RdAuthSize BY DEF RefinementInv, RdAuthSize
<1>5. QED BY <1>1, <1>2, <1>3, <1>4 DEF HeaderChecked, AuthLen, TypeOK, AuthDataStart

\* Once the certificate header is read (line 170-172), certType and
\* certDataSize are the spec's reads of the two fields after the QE auth
\* data, and offset points past them.
LEMMA CertFieldsAreRead ==
  ASSUME TypeOK, WellFormedInv, RefinementInv,
         pc \in {"parse_cert_chain", "assemble", "done"}
  PROVE  /\ RdQeSize \in Nat
         /\ parsedDataSize = RdQeSize
         /\ offset = QeDataAt + RdQeSize + 6
         /\ certType = RdCertType(RdQeSize)
         /\ certDataSize = RdCertSize(RdQeSize)
         /\ AuthLen >= offset
<1>1. /\ parsedDataSize = RdQeSize
      /\ offset = QeDataAt + parsedDataSize + 6
      /\ certType = LittleEndianDecode(AuthSlice(offset - 6, offset - 4))
      /\ certDataSize = LittleEndianDecode(AuthSlice(offset - 4, offset))
      /\ AuthLen >= offset
  BY DEF RefinementInv, WellFormedInv, RdQeSize
<1>2. parsedDataSize \in Nat BY DEF TypeOK
<1>3. \A d \in Nat : /\ (QeDataAt + d + 6) - 6 = QeDataAt + d
                     /\ (QeDataAt + d + 6) - 4 = QeDataAt + d + 2
  BY DEF QeDataAt
<1>4. /\ offset - 6 = QeDataAt + parsedDataSize
      /\ offset - 4 = QeDataAt + parsedDataSize + 2
  BY <1>1, <1>2, <1>3, Zenon
<1>5. /\ certType = RdCertType(parsedDataSize)
      /\ certDataSize = RdCertSize(parsedDataSize)
  BY <1>1, <1>4, Zenon DEF RdCertType, RdCertSize
<1>6. QED BY <1>1, <1>2, <1>5, Zenon

\* A two-byte field read inside the quote is already a u16, so the `as u16`
\* casts of lines 221-222 leave parsed_data_size and cert_data_type alone.
LEMMA WordFieldIsU16 ==
  ASSUME quote \in QuoteInput, NEW a \in Nat, NEW b \in Nat, b = a + 2,
         b <= QuoteLen
  PROVE  AsU16(LittleEndianDecode(Slice(a, b))) = LittleEndianDecode(Slice(a, b))
<1>1. a <= b /\ b - a = 2 OBVIOUS
<1>2. Slice(a, b) \in Seq(Byte) /\ Len(Slice(a, b)) = 2
  BY <1>1, SliceIsBytes DEF QuoteLen
<1>3. QED BY <1>2, WordIsU16

\* RefinementInv holds initially: the decoder has not started.
LEMMA RefInit ==
  ASSUME Init
  PROVE  RefinementInv
BY DEF Init, RefinementInv

\* Each step of the decoder keeps RefinementInv: a step that stops the
\* decoder stops it with the spec's verdict.
LEMMA RefStep ==
  ASSUME TypeOK, WellFormedInv, RefinementInv, [Next]_vars
  PROVE  RefinementInv'
<1>0. quote \in QuoteInput /\ QuoteLen \in Nat
  <2>1. quote \in QuoteInput BY QuotesAssumption DEF TypeOK
  <2>2. QED BY <2>1, LenProperties, Zenon DEF QuoteInput, QuoteLen
<1>1. CASE HexDecode
  <2>1. CASE quote.hexOk /\ pc' = "parse_header" /\ UNCHANGED <<quote, site, dataVars>>
    BY <2>1 DEF RefinementInv
  <2>2. CASE ~quote.hexOk /\ Panic("hex_unwrap")
    <3>1. SV' = SV /\ SV = [kind |-> "InvalidHex"] BY <2>2, VerdictFrame, VerdictHex DEF Panic
    <3>2. DecoderVerdict' = [kind |-> "InvalidHex"]
      BY <2>2 DEF Panic, DecoderVerdict, ErrorKind
    <3>3. QED BY <2>2, <3>1, <3>2 DEF Panic, RefinementInv, SV
  <2>3. QED BY <1>1, <2>1, <2>2 DEF HexDecode
<1>2. CASE ParseHeader
  <2>0. quote.hexOk BY <1>2 DEF ParseHeader, RefinementInv
  <2>1. CASE QuoteLen > 48 /\ pc' = "parse_local_report" /\ UNCHANGED <<quote, site, dataVars>>
    BY <2>0, <2>1 DEF RefinementInv, QuoteLen
  <2>2. CASE QuoteLen <= 48 /\ Panic("header_assert")
    <3>1. SV' = SV /\ SV = [kind |-> "TruncatedInput"]
      BY <2>0, <2>2, VerdictFrame, VerdictShort DEF Panic
    <3>2. DecoderVerdict' = [kind |-> "TruncatedInput"]
      BY <2>2 DEF Panic, DecoderVerdict, ErrorKind
    <3>3. QED BY <2>2, <3>1, <3>2 DEF Panic, RefinementInv, SV
  <2>3. QED BY <1>2, <2>1, <2>2 DEF ParseHeader
<1>3. CASE ParseLocalReport
  <2>0. quote.hexOk /\ QuoteLen > 48 BY <1>3 DEF ParseLocalReport, RefinementInv
  <2>1. CASE /\ QuoteLen >= 432
             /\ isv' = [isv EXCEPT !["local"] = ReportIsv(ReportAt["local"])]
             /\ pc' = "read_auth_size"
             /\ UNCHANGED <<quote, site, authDataSize, parsedDataSize, offset,
                            certType, certDataSize, certs>>
    <3>1. isv \in [Reports -> [prodId : U16, svn : U16]] BY DEF TypeOK
    <3>2. isv'["local"] = ReportIsv(ReportAt["local"]) BY <2>1, <3>1 DEF Reports
    <3>3. ReportIsv(ReportAt["local"])' = ReportIsv(ReportAt["local"])
      BY <2>1 DEF ReportIsv, ReportAt, Slice
    <3>4. QED BY <2>0, <2>1, <3>2, <3>3 DEF RefinementInv, QuoteLen
  <2>2. CASE QuoteLen < 432 /\ Panic("slice_index")
    <3>0. quote' = quote /\ QuoteLen < AuthDataStart BY <1>0, <2>2 DEF Panic, AuthDataStart
    <3>1. SV' = SV /\ SV = [kind |-> "TruncatedInput"]
      BY <2>0, <3>0, VerdictFrame, VerdictShort
    <3>2. DecoderVerdict' = [kind |-> "TruncatedInput"]
      BY <2>2 DEF Panic, DecoderVerdict, ErrorKind
    <3>3. QED BY <2>2, <3>1, <3>2 DEF Panic, RefinementInv, SV
  <2>3. QED BY <1>3, <2>1, <2>2 DEF ParseLocalReport
<1>4. CASE ReadAuthDataSize
  <2>0. quote.hexOk /\ QuoteLen > 48 /\ QuoteLen >= 432
        /\ isv["local"] = ReportIsv(ReportAt["local"])
    BY <1>4 DEF ReadAuthDataSize, RefinementInv
  <2>1. CASE /\ QuoteLen >= 436
             /\ authDataSize' = LittleEndianDecode(Slice(432, 436))
             /\ pc' = "check_length"
             /\ UNCHANGED <<quote, site, parsedDataSize, offset, certType, certDataSize, certs, isv>>
    <3>1. ReportIsv(ReportAt["local"])' = ReportIsv(ReportAt["local"])
      BY <2>1 DEF ReportIsv, ReportAt, Slice
    <3>2. LittleEndianDecode(Slice(432, AuthDataStart))' = LittleEndianDecode(Slice(432, 436))
      BY <2>1 DEF Slice, AuthDataStart
    <3>3. QED BY <2>0, <2>1, <3>1, <3>2 DEF RefinementInv, QuoteLen
  <2>2. CASE QuoteLen < 436 /\ Panic("slice_index")
    <3>0. quote' = quote /\ QuoteLen < AuthDataStart BY <1>0, <2>2 DEF Panic, AuthDataStart
    <3>1. SV' = SV /\ SV = [kind |-> "TruncatedInput"]
      BY <2>0, <3>0, VerdictFrame, VerdictShort
    <3>2. DecoderVerdict' = [kind |-> "TruncatedInput"]
      BY <2>2 DEF Panic, DecoderVerdict, ErrorKind
    <3>3. QED BY <2>2, <3>1, <3>2 DEF Panic, RefinementInv, SV
  <2>3. QED BY <1>4, <2>1, <2>2 DEF ReadAuthDataSize
<1>5. CASE CheckQuoteLength
  <2>0. /\ quote.hexOk /\ QuoteLen > 48 /\ QuoteLen >= 432 /\ QuoteLen >= AuthDataStart
        /\ isv["local"] = ReportIsv(ReportAt["local"])
        /\ authDataSize = RdAuthSize
    BY <1>5 DEF CheckQuoteLength, RefinementInv, WellFormedInv, RdAuthSize
  <2>1. CASE QuoteLen - AuthDataStart = authDataSize /\ pc' = "read_qe_auth_data"
             /\ UNCHANGED <<quote, site, dataVars>>
    <3>1. ReportIsv(ReportAt["local"])' = ReportIsv(ReportAt["local"])
      BY <2>1 DEF ReportIsv, ReportAt, Slice
    <3>2. LittleEndianDecode(Slice(432, AuthDataStart))' = LittleEndianDecode(Slice(432, AuthDataStart))
      BY <2>1 DEF Slice
    <3>3. QED BY <2>0, <2>1, <3>1, <3>2 DEF RefinementInv, QuoteLen, dataVars, RdAuthSize
  <2>2. CASE QuoteLen - AuthDataStart # authDataSize /\ Panic("length_assert")
    <3>0. quote' = quote /\ AuthLen # RdAuthSize BY <2>0, <2>2 DEF Panic, AuthLen
    <3>1. SV' = SV /\ SV = [kind |-> "LengthMismatch"]
      BY <1>0, <2>0, <3>0, VerdictFrame, VerdictLength
    <3>2. DecoderVerdict' = [kind |-> "LengthMismatch"]
      BY <2>2 DEF Panic, DecoderVerdict, ErrorKind
    <3>3. QED BY <2>2, <3>1, <3>2 DEF Panic, RefinementInv, SV
  <2>3. QED BY <1>5, <2>1, <2>2 DEF CheckQuoteLength
<1>6. CASE ReadQeAuthData
  <2>0. HeaderChecked /\ isv["local"] = ReportIsv(ReportAt["local"])
        /\ authDataSize = RdAuthSize /\ QuoteLen > 48
    BY <1>6, HeaderCheckedAfterLength DEF ReadQeAuthData, RefinementInv, RdAuthSize
  <2>a. /\ ReportIsv(ReportAt["local"])' = ReportIsv(ReportAt["local"])
        /\ LittleEndianDecode(Slice(432, AuthDataStart))' = LittleEndianDecode(Slice(432, AuthDataStart))
        /\ RdQeSize' = RdQeSize
    BY <1>6 DEF ReadQeAuthData, Panic, ReportIsv, ReportAt, Slice, RdQeSize, AuthSlice
  <2>1. CASE /\ AuthLen >= QeDataAt /\ AuthLen >= QeDataAt + RdQeSize
             /\ parsedDataSize' = RdQeSize
             /\ offset' = QeDataAt + RdQeSize
             /\ pc' = "read_cert_header"
             /\ UNCHANGED <<quote, site, authDataSize, certType, certDataSize, certs, isv>>
    <3>1. quote'.hexOk /\ QuoteLen' > 48 /\ QuoteLen' >= 432 BY <2>0, <2>1 DEF HeaderChecked, QuoteLen, AuthDataStart
    <3>2. isv'["local"] = ReportIsv(ReportAt["local"])' BY <2>0, <2>a, <2>1
    <3>3. authDataSize' = LittleEndianDecode(Slice(432, AuthDataStart))'
      BY <2>0, <2>a, <2>1 DEF RdAuthSize
    <3>4. parsedDataSize' = LittleEndianDecode(AuthSlice(QeSizeAt, QeDataAt))'
      BY <2>a, <2>1 DEF RdQeSize
    <3>5. AuthLen' >= QeDataAt + parsedDataSize' BY <2>1 DEF AuthLen, QuoteLen
    <3>6. QED BY <2>1, <3>1, <3>2, <3>3, <3>4, <3>5 DEF RefinementInv
  <2>2. CASE ~(AuthLen >= QeDataAt /\ AuthLen >= QeDataAt + RdQeSize) /\ Panic("slice_index")
    <3>0. quote' = quote BY <2>2 DEF Panic
    <3>1. SV = [kind |-> "TruncatedInput"]
      <4>1. CASE AuthLen < QeDataAt BY <2>0, <4>1, VerdictTruncatedAuth
      <4>2. CASE AuthLen >= QeDataAt
        <5>1. RdQeSize \in Nat BY <2>0, <4>2, QeSizeField DEF HeaderChecked
        <5>2. AuthLen \in Int BY <1>0 DEF AuthLen, AuthDataStart
        <5>3. AuthLen < QeDataAt + RdQeSize + 6 BY <2>2, <4>2, <5>1, <5>2 DEF QeDataAt
        <5>4. QED BY <2>0, <4>2, <5>3, VerdictTruncatedAuth
      <4>3. QED BY <1>0, <4>1, <4>2 DEF AuthLen, QeDataAt, AuthDataStart
    <3>2. DecoderVerdict' = [kind |-> "TruncatedInput"]
      BY <2>2 DEF Panic, DecoderVerdict, ErrorKind
    <3>3. QED BY <2>2, <3>0, <3>1, <3>2, VerdictFrame DEF Panic, RefinementInv, SV
  <2>3. QED BY <1>6, <2>1, <2>2 DEF ReadQeAuthData, RdQeSize
<1>7. CASE ReadCertHeader
  <2>0. /\ HeaderChecked
        /\ isv["local"] = ReportIsv(ReportAt["local"])
        /\ authDataSize = RdAuthSize
        /\ QuoteLen > 48
        /\ parsedDataSize = RdQeSize
        /\ AuthLen >= QeDataAt + parsedDataSize
        /\ offset = QeDataAt + parsedDataSize
    BY <1>7, HeaderCheckedAfterLength
    DEF ReadCertHeader, RefinementInv, WellFormedInv, RdAuthSize, RdQeSize
  <2>1. parsedDataSize \in Nat /\ offset \in Nat /\ AuthLen \in Int
    BY <1>0 DEF TypeOK, AuthLen, AuthDataStart
  <2>2. AuthLen >= QeDataAt BY <2>0, <2>1 DEF QeDataAt
  <2>a. /\ ReportIsv(ReportAt["local"])' = ReportIsv(ReportAt["local"])
        /\ LittleEndianDecode(Slice(432, AuthDataStart))' = LittleEndianDecode(Slice(432, AuthDataStart))
        /\ RdQeSize' = RdQeSize
    BY <1>7 DEF ReadCertHeader, Panic, ReportIsv, ReportAt, Slice, RdQeSize, AuthSlice
  <2>3. CASE /\ AuthLen >= offset + 2
             /\ AuthLen >= offset + 6
             /\ certType' = LittleEndianDecode(AuthSlice(offset, offset + 2))
             /\ certDataSize' = LittleEndianDecode(AuthSlice(offset + 2, offset + 6))
             /\ offset' = offset + 6
             /\ pc' = "parse_cert_chain"
             /\ UNCHANGED <<quote, site, authDataSize, parsedDataSize, certs, isv>>
    <3>1. quote'.hexOk /\ QuoteLen' > 48 /\ QuoteLen' >= 432
      BY <2>0, <2>3 DEF HeaderChecked, QuoteLen, AuthDataStart
    <3>2. isv'["local"] = ReportIsv(ReportAt["local"])' BY <2>0, <2>a, <2>3
    <3>3. authDataSize' = LittleEndianDecode(Slice(432, AuthDataStart))'
      BY <2>0, <2>a, <2>3 DEF RdAuthSize
    <3>4. /\ parsedDataSize' = LittleEndianDecode(AuthSlice(QeSizeAt, QeDataAt))'
          /\ AuthLen' >= QeDataAt + parsedDataSize'
      BY <2>0, <2>a, <2>3 DEF RdQeSize, AuthLen, QuoteLen
    <3>5. /\ certType' = LittleEndianDecode(AuthSlice(offset - 6, offset - 4))'
          /\ certDataSize' = LittleEndianDecode(AuthSlice(offset - 4, offset))'
          /\ AuthLen' >= offset'
      <4>0. \A o \in Nat : (o + 6) - 6 = o /\ (o + 6) - 4 = o + 2 OBVIOUS
      <4>1. offset' - 6 = offset /\ offset' - 4 = offset + 2 /\ offset' = offset + 6
        BY <2>1, <2>3, <4>0, Zenon
      <4>2. /\ LittleEndianDecode(AuthSlice(offset - 6, offset - 4))'
               = LittleEndianDecode(AuthSlice(offset' - 6, offset' - 4))
            /\ LittleEndianDecode(AuthSlice(offset - 4, offset))'
               = LittleEndianDecode(AuthSlice(offset' - 4, offset'))
        BY <2>3, Zenon DEF AuthSlice, Slice
      <4>3. /\ LittleEndianDecode(AuthSlice(offset' - 6, offset' - 4))
               = LittleEndianDecode(AuthSlice(offset, offset + 2))
            /\ LittleEndianDecode(AuthSlice(offset' - 4, offset'))
               = LittleEndianDecode(AuthSlice(offset + 2, offset + 6))
        BY <4>1, Zenon
      <4>4. AuthLen' >= offset' BY <2>3 DEF AuthLen, QuoteLen
      <4>5. QED BY <2>3, <4>2, <4>3, <4>4, Zenon
    <3>6. QED BY <2>3, <3>1, <3>2, <3>3, <3>4, <3>5 DEF RefinementInv
  <2>4. CASE AuthLen < offset + 6 /\ Panic("slice_index")
    <3>0. quote' = quote BY <2>4 DEF Panic
    <3>1. SV = [kind |-> "TruncatedInput"]
      <4>1. AuthLen < QeDataAt + RdQeSize + 6 BY <2>0, <2>4
      <4>2. QED BY <2>0, <2>2, <4>1, VerdictTruncatedAuth
    <3>2. DecoderVerdict' = [kind |-> "TruncatedInput"]
      BY <2>4 DEF Panic, DecoderVerdict, ErrorKind
    <3>3. QED BY <2>4, <3>0, <3>1, <3>2, VerdictFrame DEF Panic, RefinementInv, SV
  <2>5. QED BY <1>7, <2>3, <2>4 DEF ReadCertHeader
<1>8. CASE ParseCertChain
  <2>0. /\ HeaderChecked
        /\ isv["local"] = ReportIsv(ReportAt["local"])
        /\ authDataSize = RdAuthSize
        /\ QuoteLen > 48
    BY <1>8, HeaderCheckedAfterLength DEF ParseCertChain, RefinementInv, RdAuthSize
  <2>1. /\ RdQeSize \in Nat
        /\ parsedDataSize = RdQeSize
        /\ offset = QeDataAt + RdQeSize + 6
        /\ certType = RdCertType(RdQeSize)
        /\ certDataSize = RdCertSize(RdQeSize)
        /\ AuthLen >= offset
    BY <1>8, CertFieldsAreRead DEF ParseCertChain
  <2>2. certDataSize \in Nat /\ AuthLen \in Int BY <1>0 DEF TypeOK, AuthLen, AuthDataStart
  <2>3. CertBundleFits => BundleFits
    BY <2>1, <2>2 DEF CertBundleFits, BundleFits, QeDataAt
  <2>4. CASE ~CertBundleFits /\ Panic("slice_index")
    <3>0. quote' = quote BY <2>4 DEF Panic
    <3>1. SV = [kind |-> "TruncatedInput"]
      <4>1. /\ AuthLen >= QeDataAt
            /\ AuthLen >= QeDataAt + RdQeSize + 6
            /\ AuthLen < QeDataAt + RdQeSize + 6 + RdCertSize(RdQeSize)
        BY <2>1, <2>2, <2>4 DEF CertBundleFits, QeDataAt
      <4>2. QED BY <2>0, <4>1, VerdictTruncatedAuth
    <3>2. DecoderVerdict' = [kind |-> "TruncatedInput"]
      BY <2>4 DEF Panic, DecoderVerdict, ErrorKind
    <3>3. QED BY <2>4, <3>0, <3>1, <3>2, VerdictFrame DEF Panic, RefinementInv, SV
  <2>5. CASE /\ CertBundleFits
             /\ \/ quote.pem = MalformedPem /\ Panic("pem_unwrap")
                \/ quote.pem \in Nat \ {3} /\ Panic("pem_count")
    <3>0. quote' = quote /\ site' \in {"pem_unwrap", "pem_count"} /\ pc' = "panicked"
      BY <2>5 DEF Panic
    <3>1. quote.pem # 3 BY <2>5, PemAssumption
    <3>2. SV = [kind |-> "CertificateChainError"] BY <2>0, <2>3, <2>5, <3>1, VerdictPem
    <3>3. DecoderVerdict' = [kind |-> "CertificateChainError"]
      BY <3>0 DEF DecoderVerdict, ErrorKind
    <3>4. QED BY <3>0, <3>2, <3>3, VerdictFrame DEF RefinementInv, SV
  <2>6. CASE /\ CertBundleFits
             /\ quote.pem = 3
             /\ certs' = [i \in 1..quote.pem |-> i]
             /\ pc' = "assemble"
             /\ UNCHANGED <<quote, site, authDataSize, parsedDataSize, offset, certType, certDataSize, isv>>
    <3>a. /\ ReportIsv(ReportAt["local"])' = ReportIsv(ReportAt["local"])
          /\ LittleEndianDecode(Slice(432, AuthDataStart))' = LittleEndianDecode(Slice(432, AuthDataStart))
          /\ LittleEndianDecode(AuthSlice(QeSizeAt, QeDataAt))' = LittleEndianDecode(AuthSlice(QeSizeAt, QeDataAt))
          /\ LittleEndianDecode(AuthSlice(offset - 6, offset - 4))' = LittleEndianDecode(AuthSlice(offset - 6, offset - 4))
          /\ LittleEndianDecode(AuthSlice(offset - 4, offset))' = LittleEndianDecode(AuthSlice(offset - 4, offset))
      BY <2>6 DEF ReportIsv, ReportAt, Slice, AuthSlice
    <3>1. quote'.hexOk /\ QuoteLen' > 48 /\ QuoteLen' >= 432
      BY <2>0, <2>6 DEF HeaderChecked, QuoteLen, AuthDataStart
    <3>2. isv'["local"] = ReportIsv(ReportAt["local"])' BY <2>0, <3>a, <2>6
    <3>3. authDataSize' = LittleEndianDecode(Slice(432, AuthDataStart))'
      BY <2>0, <3>a, <2>6 DEF RdAuthSize
    <3>4. /\ parsedDataSize' = LittleEndianDecode(AuthSlice(QeSizeAt, QeDataAt))'
          /\ AuthLen' >= QeDataAt + parsedDataSize'
      BY <2>1, <2>2, <3>a, <2>6 DEF RdQeSize, AuthLen, QuoteLen, QeDataAt
    <3>5. /\ certType' = LittleEndianDecode(AuthSlice(offset - 6, offset - 4))'
          /\ certDataSize' = LittleEndianDecode(AuthSlice(offset - 4, offset))'
          /\ AuthLen' >= offset'
      BY <1>8, <3>a, <2>6 DEF ParseCertChain, RefinementInv, AuthLen, QuoteLen
    <3>6. quote'.pem = 3 /\ certs' = [i \in 1..3 |-> i] BY <2>6
    <3>7. QED BY <2>6, <3>1, <3>2, <3>3, <3>4, <3>5, <3>6 DEF RefinementInv
  <2>7. QED BY <1>8, <2>4, <2>5, <2>6 DEF ParseCertChain
<1>9. CASE AssembleQuote
  <2>0. /\ HeaderChecked
        /\ isv["local"] = ReportIsv(ReportAt["local"])
        /\ authDataSize = RdAuthSize
        /\ QuoteLen > 48
        /\ quote.pem = 3 /\ certs = [i \in 1..3 |-> i]
    BY <1>9, HeaderCheckedAfterLength DEF AssembleQuote, RefinementInv, RdAuthSize
  <2>1. /\ RdQeSize \in Nat
        /\ parsedDataSize = RdQeSize
        /\ offset = QeDataAt + RdQeSize + 6
        /\ certType = RdCertType(RdQeSize)
        /\ certDataSize = RdCertSize(RdQeSize)
        /\ AuthLen >= offset
    BY <1>9, CertFieldsAreRead DEF AssembleQuote
  <2>2. /\ offset + certDataSize <= authDataSize
        /\ QuoteLen = AuthDataStart + authDataSize
    BY <1>9 DEF AssembleQuote, WellFormedInv
  <2>3. certDataSize \in Nat /\ authDataSize \in Nat /\ QuoteLen \in Nat
    BY <1>0 DEF TypeOK
  <2>4. BundleFits BY <2>1, <2>2, <2>3 DEF BundleFits, AuthLen, AuthDataStart, QeDataAt
  <2>5. SV = OkVerdict BY <2>0, <2>4, VerdictOk
  <2>6. /\ AsU16(parsedDataSize) = RdQeSize
        /\ AsU16(certType) = RdCertType(RdQeSize)
    <3>1. quote \in QuoteInput BY <2>0 DEF HeaderChecked
    <3>2. /\ 436 + 576 \in Nat /\ 436 + 578 = (436 + 576) + 2
          /\ 436 + 578 <= QuoteLen
          /\ 436 + (578 + RdQeSize) \in Nat
          /\ 436 + (578 + RdQeSize + 2) \in Nat
          /\ 436 + (578 + RdQeSize + 2) = (436 + (578 + RdQeSize)) + 2
          /\ 436 + (578 + RdQeSize + 2) <= QuoteLen
      BY <2>1, <2>3 DEF AuthLen, AuthDataStart, QeDataAt
    <3>3. AsU16(LittleEndianDecode(Slice(436 + 576, 436 + 578)))
            = LittleEndianDecode(Slice(436 + 576, 436 + 578))
      BY <3>1, <3>2, WordFieldIsU16
    <3>4. AsU16(LittleEndianDecode(Slice(436 + (578 + RdQeSize), 436 + (578 + RdQeSize + 2))))
            = LittleEndianDecode(Slice(436 + (578 + RdQeSize), 436 + (578 + RdQeSize + 2)))
      BY <3>1, <3>2, WordFieldIsU16
    <3>5. QED BY <2>1, <3>3, <3>4
      DEF RdQeSize, RdCertType, AuthSlice, AuthDataStart, QeSizeAt, QeDataAt
  <2>7. DecoderVerdict' = OkVerdict
    <3>1. /\ pc' = "done"
          /\ UNCHANGED <<parsedDataSize, offset, certType, certDataSize, certs>>
          /\ isv'["local"] = ReportIsv(48)
          /\ isv'["qe"] = ReportIsv(AuthDataStart + 128)
      BY <1>0, <1>9, <2>0 DEF AssembleQuote, TypeOK, Reports, ReportAt
    <3>2. [i \in 1..3 |-> i] = <<1, 2, 3>> OBVIOUS
    <3>3. QED BY <2>0, <2>1, <2>6, <3>1, <3>2 DEF DecoderVerdict, OkVerdict
  <2>8. /\ ReportIsv(ReportAt["local"])' = ReportIsv(ReportAt["local"])
        /\ ReportIsv(ReportAt["qe"])' = ReportIsv(ReportAt["qe"])
        /\ LittleEndianDecode(Slice(432, AuthDataStart))' = LittleEndianDecode(Slice(432, AuthDataStart))
        /\ LittleEndianDecode(AuthSlice(QeSizeAt, QeDataAt))' = LittleEndianDecode(AuthSlice(QeSizeAt, QeDataAt))
        /\ LittleEndianDecode(AuthSlice(offset - 6, offset - 4))' = LittleEndianDecode(AuthSlice(offset - 6, offset - 4))
        /\ LittleEndianDecode(AuthSlice(offset - 4, offset))' = LittleEndianDecode(AuthSlice(offset - 4, offset))
    BY <1>9 DEF AssembleQuote, ReportIsv, ReportAt, Slice, AuthSlice
  <2>9. /\ quote'.hexOk /\ QuoteLen' > 48 /\ QuoteLen' >= 432
        /\ isv'["local"] = ReportIsv(ReportAt["local"])'
        /\ isv'["qe"] = ReportIsv(ReportAt["qe"])'
    BY <1>0, <1>9, <2>0, <2>8 DEF AssembleQuote, HeaderChecked, QuoteLen, AuthDataStart, TypeOK, Reports
  <2>10. /\ authDataSize' = LittleEndianDecode(Slice(432, AuthDataStart))'
         /\ parsedDataSize' = LittleEndianDecode(AuthSlice(QeSizeAt, QeDataAt))'
         /\ AuthLen' >= QeDataAt + parsedDataSize'
         /\ certType' = LittleEndianDecode(AuthSlice(offset - 6, offset - 4))'
         /\ certDataSize' = LittleEndianDecode(AuthSlice(offset - 4, offset))'
         /\ AuthLen' >= offset'
    BY <1>9, <2>8 DEF AssembleQuote, RefinementInv, AuthLen, QuoteLen
  <2>11. quote'.pem = 3 /\ certs' = [i \in 1..3 |-> i] BY <1>9, <2>0 DEF AssembleQuote
  <2>12. DecoderVerdict' = SV' BY <1>9, <2>5, <2>7, VerdictFrame DEF AssembleQuote
  <2>13. pc' = "done" BY <1>9 DEF AssembleQuote
  <2>14. QED BY <2>9, <2>10, <2>11, <2>12, <2>13 DEF RefinementInv, SV
<1>10. CASE UNCHANGED vars
  <2>1. /\ quote' = quote /\ pc' = pc /\ site' = site
        /\ authDataSize' = authDataSize /\ parsedDataSize' = parsedDataSize
        /\ offset' = offset /\ certType' = certType
        /\ certDataSize' = certDataSize /\ certs' = certs /\ isv' = isv
    BY <1>10 DEF vars, dataVars
  <2>2. DecoderVerdict' = DecoderVerdict BY <2>1 DEF DecoderVerdict
  <2>3. /\ ReportIsv(ReportAt["local"])' = ReportIsv(ReportAt["local"])
        /\ ReportIsv(ReportAt["qe"])' = ReportIsv(ReportAt["qe"])
        /\ LittleEndianDecode(Slice(432, AuthDataStart))' = LittleEndianDecode(Slice(432, AuthDataStart))
        /\ LittleEndianDecode(AuthSlice(QeSizeAt, QeDataAt))' = LittleEndianDecode(AuthSlice(QeSizeAt, QeDataAt))
        /\ LittleEndianDecode(AuthSlice(offset - 6, offset - 4))' = LittleEndianDecode(AuthSlice(offset - 6, offset - 4))
        /\ LittleEndianDecode(AuthSlice(offset - 4, offset))' = LittleEndianDecode(AuthSlice(offset - 4, offset))
        /\ AuthLen' = AuthLen /\ QuoteLen' = QuoteLen
    BY <2>1 DEF ReportIsv, ReportAt, Slice, AuthSlice, AuthLen, QuoteLen
  <2>4. SV' = SV BY <2>1, VerdictFrame
  <2>5. QED BY <2>1, <2>2, <2>3, <2>4 DEF RefinementInv, SV
<1>11. QED BY <1>1, <1>2, <1>3, <1>4, <1>5, <1>6, <1>7, <1>8, <1>9, <1>10 DEF Next

-----------------------------------------------------------------------------
(* The refinement.                                                         *)

\* No step of parse_quote changes its input.
LEMMA QuoteFixed ==
  ASSUME [Next]_vars
  PROVE  quote' = quote
BY DEF Next, vars, HexDecode, ParseHeader, ParseLocalReport, ReadAuthDataSize,
       CheckQuoteLength, ReadQeAuthData, ReadCertHeader, ParseCertChain,
       AssembleQuote, Panic

\* Once parse_quote has returned or panicked it takes no further step.
LEMMA StoppedStutters ==
  ASSUME [Next]_vars, pc \in {"done", "panicked"}
  PROVE  UNCHANGED vars
BY DEF Next, HexDecode, ParseHeader, ParseLocalReport, ReadAuthDataSize,
       CheckQuoteLength, ReadQeAuthData, ReadCertHeader, ParseCertChain,
       AssembleQuote

\* Every step of the decoder is a step of the specification under the
\* mapping: the step that stops it (returning or panicking) is Decide, and
\* every other step leaves the quote and the pending verdict alone.
LEMMA StepMaps ==
  ASSUME RefinementInv, RefinementInv', [Next]_vars
  PROVE  [Abstract!Decide]_<<quote, DecoderVerdict>>
<1>1. quote' = quote BY QuoteFixed
<1>2. CASE pc \in {"done", "panicked"}
  <2>1. UNCHANGED vars BY <1>2, StoppedStutters
  <2>2. DecoderVerdict' = DecoderVerdict BY <2>1 DEF vars, dataVars, DecoderVerdict
  <2>3. QED BY <1>1, <2>2
<1>3. CASE pc \notin {"done", "panicked"} /\ pc' \in {"done", "panicked"}
  <2>1. DecoderVerdict = Abstract!Pending BY <1>3 DEF DecoderVerdict, Abstract!Pending
  <2>2. DecoderVerdict' = Abstract!SpecVerdict(quote)
    <3>1. DecoderVerdict' = SV' BY <1>3 DEF RefinementInv, SV
    <3>2. SV' = SV BY <1>1, VerdictFrame
    <3>3. QED BY <3>1, <3>2 DEF SV
  <2>3. QED BY <1>1, <2>1, <2>2 DEF Abstract!Decide
<1>4. CASE pc \notin {"done", "panicked"} /\ pc' \notin {"done", "panicked"}
  <2>1. DecoderVerdict' = DecoderVerdict BY <1>4 DEF DecoderVerdict
  <2>2. QED BY <1>1, <2>1
<1>5. QED BY <1>2, <1>3, <1>4

\* parse_quote implements the specification of sections 4.1-4.6: for every
\* set of input quotes, the decoder starts with the verdict pending, and
\* the one step that makes it return or panic produces exactly the verdict
\* (error kind, or decoded fields, certificates and report isvs) that the
\* spec's offsets and little-endian reading give; no other step changes it.
THEOREM DecoderRefinesSpec == Spec => DecoderImplementsSpec
<1>1. Init => Abstract!Init
  BY DEF Init, Abstract!Init, DecoderVerdict, Abstract!Pending
<1>2. Init => TypeOK /\ WellFormedInv /\ RefinementInv
  BY RefInit DEF Init, TypeOK, PCs, NoSite, WellFormedInv, U16, Reports
<1>3. TypeOK /\ WellFormedInv /\ RefinementInv /\ [Next]_vars
        => TypeOK' /\ WellFormedInv' /\ RefinementInv'
  BY TypeStep, WellFormedStep, RefStep
<1>4. RefinementInv /\ RefinementInv' /\ [Next]_vars
        => [Abstract!Decide]_<<quote, DecoderVerdict>>
  BY StepMaps
<1>5. QED BY <1>1, <1>2, <1>3, <1>4, PTL DEF Spec, DecoderImplementsSpec, Abstract!Spec

=============================================================================
