---------------------------- MODULE Registration ----------------------------
(***************************************************************************)
(* register_sgx_instance (sgx_register_utils.rs, lines 227-249): parse the *)
(* built-in wallet key, decode the quote with parse_quote (the steps of    *)
(* QuoteDecoder), build an HTTP provider, then invoke registerInstance on  *)
(* the SgxVerifier contract with call() and await the endpoint's answer.   *)
(*                                                                         *)
(* The endpoint is the environment: it answers the request with a return   *)
(* value, a revert or a transport error, or does not answer at all.        *)
(* `registered` is the verifier contract's on-chain record of registered   *)
(* quotes: only a submitted transaction could change it.                   *)
(***************************************************************************)
EXTENDS QuoteDecoder

VARIABLES
  step,        \* where register_sgx_instance is
  result,      \* the Result it returns, once it has returned
  rpcLog,      \* the JSON-RPC requests sent to the endpoint, in order
  registered   \* the quotes the verifier contract holds as registered

regVars == <<step, result, rpcLog, registered>>
allVars == <<vars, regVars>>

Steps == {"parse_wallet", "decode", "call", "await_call", "returned"}

\* A bound on the requests a run may send, for the retrying mutant only.
MaxRequests == 2

\* The endpoint's answers to the eth_call of line 245.
Replies == {"value", "revert", "transport_error"}

\* The request `call_builder.call()` sends (line 245): an eth_call of
\* registerInstance with the decoded quote.
EthCall(q) == [method |-> "eth_call", arg |-> q]

RegInit ==
  /\ Init
  /\ step = "parse_wallet"
  /\ result = "pending"
  /\ rpcLog = <<>>
  /\ registered = {}

\* Lines 230-233: the wallet key is a literal, so .parse().unwrap() succeeds.
ParseWallet ==
  /\ step = "parse_wallet"
  /\ step' = "decode"
  /\ UNCHANGED <<vars, result, rpcLog, registered>>

\* Line 234: parse_quote(quote_str).  A panic of the decoder unwinds
\* register_sgx_instance too: it ends with pc = "panicked" and no result.
DecodeQuote ==
  /\ step = "decode"
  /\ \/ HexDecode \/ ParseHeader \/ ParseLocalReport \/ ReadAuthDataSize
     \/ CheckQuoteLength \/ ReadQeAuthData \/ ReadCertHeader
     \/ ParseCertChain \/ AssembleQuote
  /\ UNCHANGED regVars

\* Mutant: a caller that recovers from a failed decode (for instance by
\* substituting a default quote) and carries on to the provider.
BuildProviderIgnoringDecodeFailure ==
  /\ step = "decode"
  /\ pc \in {"done", "panicked"}
  /\ step' = "call"
  /\ UNCHANGED <<vars, result, rpcLog, registered>>

\* Lines 235-239: ProviderBuilder ... .on_builtin(url).await?  The URL is a
\* literal http:// URL, for which on_builtin builds the client without a
\* request and returns Ok.
BuildProvider ==
  /\ step = "decode"
  /\ pc = "done"
  /\ step' = "call"
  /\ UNCHANGED <<vars, result, rpcLog, registered>>

\* Mutant: the request sent again after a transport error (a retry).
EndpointReplyRetry ==
  /\ step = "await_call"
  /\ \E r \in Replies :
       \/ /\ r = "transport_error"
          /\ Len(rpcLog) < MaxRequests
          /\ step' = "await_call"
          /\ rpcLog' = Append(rpcLog, EthCall(quote))
          /\ UNCHANGED result
       \/ /\ r # "transport_error"
          /\ step' = "returned"
          /\ result' = IF r = "value" THEN "ok" ELSE "err"
          /\ UNCHANGED rpcLog
  /\ UNCHANGED <<vars, registered>>

\* Lines 240-245 up to the await: the contract binding, then call() sends
\* one eth_call carrying the decoded quote.
CallRegister ==
  /\ step = "call"
  /\ rpcLog' = Append(rpcLog, EthCall(quote))
  /\ step' = "await_call"
  /\ UNCHANGED <<vars, result, registered>>

\* Lines 245-248: the awaited answer.  A return value is printed and the
\* function returns Ok(()); a revert or a transport error is returned by `?`.
\* Nothing bounds the wait: no timeout is set on the provider or the call.
EndpointReply ==
  /\ step = "await_call"
  /\ \E r \in Replies :
       /\ step' = "returned"
       /\ result' = IF r = "value" THEN "ok" ELSE "err"
  /\ UNCHANGED <<vars, rpcLog, registered>>

\* The steps register_sgx_instance takes itself.
ClientNext == ParseWallet \/ DecodeQuote \/ BuildProvider \/ CallRegister

RegNext == ClientNext \/ EndpointReply

RegSpec == RegInit /\ [][RegNext]_allVars

\* The client's own steps are taken as long as they are enabled: the
\* function is straight-line code on one task.  The endpoint's answer is
\* not assumed.
ClientFairSpec == RegSpec /\ WF_allVars(ClientNext)

-----------------------------------------------------------------------------
(* Properties.                                                             *)

\* Every variable of register_sgx_instance keeps its type; in particular a
\* run sends at most one request, since the code never retries the call.
RegTypeOK ==
  /\ TypeOK
  /\ step \in Steps
  /\ result \in {"pending", "ok", "err"}
  /\ rpcLog \in Seq([method : {"eth_call"}, arg : Quotes])
  /\ Len(rpcLog) <= 1
  /\ registered \subseteq Quotes

\* No request reaches the verifier unless parse_quote accepted the quote,
\* and the request carries that quote: a malformed quote aborts
\* register_sgx_instance before the provider is built.
RequestOnlyForAcceptedQuote ==
  \A i \in DOMAIN rpcLog : pc = "done" /\ rpcLog[i] = EthCall(quote)

\* The comment of line 244 ("send tx") and the submission interface of the
\* spec: when register_sgx_instance returns Ok, the quote is registered on
\* the verifier contract.
OkMeansRegistered ==
  result = "ok" => quote \in registered

\* Every call of register_sgx_instance eventually returns or panics.
RegistrationTerminates ==
  <>(step = "returned" \/ pc = "panicked")

-----------------------------------------------------------------------------
(* The inductive invariant behind RegTypeOK and RequestOnlyForAcceptedQuote *)
(* (proved in RegistrationProofs): what each stage of register_sgx_instance *)
(* has established.  The decoder has not started before the wallet is      *)
(* parsed, has accepted the quote once the provider is built, and the one  *)
(* request is in the log exactly from the call on.                         *)
RegInv ==
  /\ quote \in Quotes
  /\ step \in Steps
  /\ result \in {"pending", "ok", "err"}
  /\ registered = {}
  /\ step = "parse_wallet" => pc = "hex_decode"
  /\ step \in {"call", "await_call", "returned"} => pc = "done"
  /\ step \in {"parse_wallet", "decode", "call"} => rpcLog = <<>>
  /\ step \in {"await_call", "returned"} => rpcLog = <<EthCall(quote)>>

=============================================================================
