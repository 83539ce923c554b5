------------------------- MODULE RegistrationProofs -------------------------
(***************************************************************************)
(* Proofs about register_sgx_instance, for every set of candidate quotes:  *)
(* it is well typed, sends at most one request, and sends one only for a   *)
(* quote parse_quote accepted.                                             *)
(***************************************************************************)
EXTENDS Registration, QuoteDecoderProofs

\* A step of register_sgx_instance is a step of the decoder or leaves the
\* decoder's variables alone.
LEMMA DecoderStepOrStutter ==
  ASSUME [RegNext]_allVars
  PROVE  [Next]_vars
<1>1. CASE DecodeQuote BY <1>1 DEF DecodeQuote, Next
<1>2. CASE ~DecodeQuote
  BY <1>2 DEF RegNext, ClientNext, ParseWallet, BuildProvider, CallRegister,
              EndpointReply, allVars
<1>3. QED BY <1>1, <1>2

\* Every step keeps RegInv.
LEMMA RegStep ==
  ASSUME RegInv, [RegNext]_allVars
  PROVE  RegInv'
<1> USE DEF RegInv, Steps
<1>1. CASE ParseWallet BY <1>1 DEF ParseWallet, vars
<1>2. CASE DecodeQuote
  <2>1. quote' = quote
    BY <1>2 DEF DecodeQuote, HexDecode, ParseHeader, ParseLocalReport,
                ReadAuthDataSize, CheckQuoteLength, ReadQeAuthData,
                ReadCertHeader, ParseCertChain, AssembleQuote, Panic
  <2>2. QED BY <1>2, <2>1 DEF DecodeQuote, regVars
<1>3. CASE BuildProvider BY <1>3 DEF BuildProvider, vars
<1>4. CASE CallRegister BY <1>4 DEF CallRegister, vars
<1>5. CASE EndpointReply BY <1>5 DEF EndpointReply, vars
<1>6. CASE UNCHANGED allVars BY <1>6 DEF allVars, regVars, vars
<1>7. QED BY <1>1, <1>2, <1>3, <1>4, <1>5, <1>6 DEF RegNext, ClientNext

\* RegInv holds in every state.
LEMMA RegInvariant == RegSpec => []RegInv
<1>1. RegInit => RegInv BY DEF RegInit, Init, RegInv, Steps
<1>2. QED BY <1>1, RegStep, PTL DEF RegSpec

\* The decoder's type invariant holds in every state of the composition,
\* together with the well-formedness facts its proof needs.
LEMMA RegDecoderTypeOK == RegSpec => [](TypeOK /\ WellFormedInv)
<1>1. RegInit => TypeOK /\ WellFormedInv
  BY DEF RegInit, Init, TypeOK, PCs, NoSite, WellFormedInv, U16, Reports
<1>2. TypeOK /\ WellFormedInv /\ [RegNext]_allVars => TypeOK' /\ WellFormedInv'
  BY TypeStep, WellFormedStep, DecoderStepOrStutter
<1>3. QED BY <1>1, <1>2, PTL DEF RegSpec

\* register_sgx_instance keeps every variable in its type and sends at most
\* one eth_call: the code never retries the call.
THEOREM RegTypeCorrect == RegSpec => []RegTypeOK
<1>1. TypeOK /\ RegInv => RegTypeOK
  <2> SUFFICES ASSUME TypeOK, RegInv PROVE RegTypeOK OBVIOUS
  <2>1. EthCall(quote) \in [method : {"eth_call"}, arg : Quotes]
    BY DEF RegInv, EthCall
  <2>2. /\ rpcLog \in Seq([method : {"eth_call"}, arg : Quotes])
        /\ Len(rpcLog) <= 1
    <3>1. CASE rpcLog = <<>> BY <3>1
    <3>2. CASE rpcLog = <<EthCall(quote)>> BY <2>1, <3>2
    <3>3. QED BY <3>1, <3>2 DEF RegInv, Steps
  <2>3. QED BY <2>2 DEF RegTypeOK, RegInv
<1>2. QED BY <1>1, RegInvariant, RegDecoderTypeOK, PTL

\* register_sgx_instance sends a request only once parse_quote has accepted
\* the quote, and the request carries that quote.
THEOREM RequestsOnlyForAcceptedQuotes == RegSpec => []RequestOnlyForAcceptedQuote
<1>1. RegInv => RequestOnlyForAcceptedQuote
  BY DEF RegInv, Steps, RequestOnlyForAcceptedQuote
<1>2. QED BY <1>1, RegInvariant, PTL

=============================================================================
