-------------------------- MODULE TestRegistration --------------------------
(***************************************************************************)
(* test_register_sgx_instance (sgx_register_utils.rs, lines 274-335): the  *)
(* live-network test that registers SAMPLE_QUOTE with a real transaction.  *)
(* It reads the wallet's balance, nonce and the gas price, asserts that    *)
(* the balance pays for the gas, dry-runs the call with call(), sends the  *)
(* transaction, watches it for 2 confirmations under a 90 s timeout, then  *)
(* fetches the receipt and unwraps its first log.                          *)
(*                                                                         *)
(* The chain is the environment.  The wallet key is a literal of the       *)
(* repository, so another run of the same test may use the same account    *)
(* at any time: it takes the next nonce, spends balance and registers the  *)
(* same instance.  SAMPLE_QUOTE is public too, so another account may     *)
(* register the instance.  Blocks come one at a time; the gas price may    *)
(* rise; an RPC request may fail in transport, before or after the node    *)
(* acted on it.  The verifier contract rejects a second registration of   *)
(* an instance, so a registration executed after another one reverts.     *)
(***************************************************************************)
EXTENDS Naturals

CONSTANTS
  MaxHeight,     \* the blocks the model lets the chain produce
  InitBalances   \* the balances the wallet may hold when the test starts

ASSUME BoundsAssumption == MaxHeight \in Nat /\ InitBalances \subseteq Nat

\* U256::from(4000000u64) of line 296, in units of 10^6 gas.
GasLimit == 4
\* The price the other sender's registration costs, in the same units.
OtherCost == 4
\* The chain's gas price starts at 1 and may rise once, to 2.
GasPrices == {1, 2}
\* with_required_confirmations(2), line 318.
Confirmations == 2

TSteps == {"setup", "get_balance", "get_nonce", "get_gas_price",
           "check_balance", "call", "send", "watch", "get_receipt",
           "read_log", "returned", "panicked"}

PanicSites == {"none", "balance_assert", "receipt_expect", "logs_first_unwrap"}

TxStatus == {"none", "pending", "mined_ok", "mined_revert", "dropped"}

\* The test's transaction: its nonce, its gas price, its fate on chain and
\* the height of the block that included it.
TxRecords == [nonce : Nat, price : {0} \cup GasPrices, status : TxStatus, minedAt : Nat]

NoTx == [nonce |-> 0, price |-> 0, status |-> "none", minedAt |-> 0]

VARIABLES
  tstep,         \* where the test is
  tresult,       \* the Result it returns, once it has returned
  tsite,         \* the panic site, once tstep = "panicked"
  balance,       \* the locals read over RPC at lines 291-295
  nonce,
  gasPrice,
  chainNonce,    \* the wallet's account nonce on chain
  chainBalance,  \* the wallet's balance on chain
  chainPrice,    \* the chain's current gas price
  height,        \* the chain's height
  tx,            \* the test's transaction, once sent
  otherSent,     \* whether the other user of the key has sent its registration
  rivalSent,     \* whether another account has registered the instance
  registered     \* whether the instance is registered on the verifier

testVars  == <<tstep, tresult, tsite, balance, nonce, gasPrice>>
chainVars == <<chainNonce, chainBalance, chainPrice, height, tx, otherSent, rivalSent, registered>>
tvars     == <<testVars, chainVars>>

\* The number of blocks that include the test's transaction, counting its own.
Depth == height - tx.minedAt + 1

TInit ==
  /\ tstep = "setup" /\ tresult = "pending" /\ tsite = "none"
  /\ balance = 0 /\ nonce = 0 /\ gasPrice = 0
  /\ chainNonce = 0 /\ chainBalance \in InitBalances /\ chainPrice = 1
  /\ height = 0 /\ tx = NoTx /\ otherSent = FALSE /\ rivalSent = FALSE
  /\ registered \in BOOLEAN

\* An error returned by `?`: the test returns Err.
Fail == tstep' = "returned" /\ tresult' = "err" /\ UNCHANGED <<tsite, balance, nonce, gasPrice>>

TPanic(where) ==
  tstep' = "panicked" /\ tsite' = where /\ UNCHANGED <<tresult, balance, nonce, gasPrice>>

(* The test's own steps. *)

\* Lines 275-289: the HTTP transport, the literal wallet, parse_quote of
\* SAMPLE_QUOTE (accepted, as test_parse_quote shows), the provider and the
\* contract binding.  None of them sends a request.
Setup ==
  /\ tstep = "setup"
  /\ tstep' = "get_balance"
  /\ UNCHANGED <<tresult, tsite, balance, nonce, gasPrice, chainVars>>

\* Line 291: get_balance.
GetBalance ==
  /\ tstep = "get_balance"
  /\ balance' = chainBalance /\ tstep' = "get_nonce"
  /\ UNCHANGED <<tresult, tsite, nonce, gasPrice, chainVars>>

\* Lines 292-294: get_transaction_count.
GetNonce ==
  /\ tstep = "get_nonce"
  /\ nonce' = chainNonce /\ tstep' = "get_gas_price"
  /\ UNCHANGED <<tresult, tsite, balance, gasPrice, chainVars>>

\* Line 295: get_gas_price.
GetGasPrice ==
  /\ tstep = "get_gas_price"
  /\ gasPrice' = chainPrice /\ tstep' = "check_balance"
  /\ UNCHANGED <<tresult, tsite, balance, nonce, chainVars>>

\* Lines 296-309: the call is built from the values read, then the balance
\* read is asserted to pay for the gas.
CheckBalance ==
  /\ tstep = "check_balance"
  /\ \/ /\ balance > gasPrice * GasLimit
        /\ tstep' = "call"
        /\ UNCHANGED <<tresult, tsite, balance, nonce, gasPrice>>
     \/ /\ ~(balance > gasPrice * GasLimit)
        /\ TPanic("balance_assert")
  /\ UNCHANGED chainVars

\* The node refuses to execute the call: the instance is registered
\* already, or the balance no longer pays gas at the price read.
CallFails == registered \/ chainBalance < gasPrice * GasLimit

\* Lines 310-312: call() dry-runs registerInstance against the latest state.
Call ==
  /\ tstep = "call"
  /\ \/ /\ ~CallFails
        /\ tstep' = "send"
        /\ UNCHANGED <<tresult, tsite, balance, nonce, gasPrice>>
     \/ /\ CallFails
        /\ Fail
  /\ UNCHANGED chainVars

\* The node admits the transaction to its pool: its nonce is not used up
\* and the balance pays for its gas.
SendAccepted == nonce >= chainNonce /\ chainBalance >= gasPrice * GasLimit

\* Mutant: the builder's .gas_price(..) and .gas(..) arguments swapped.
PendingGasSwapped == [nonce |-> nonce, price |-> GasLimit, status |-> "pending", minedAt |-> 0]

\* Lines 298-304: the transaction the builder describes, with the nonce and
\* the gas price the test read.
Pending == [nonce |-> nonce, price |-> gasPrice, status |-> "pending", minedAt |-> 0]

\* Lines 314-317: send() submits the signed transaction.
Send ==
  /\ tstep = "send"
  /\ \/ /\ SendAccepted
        /\ tx' = Pending /\ tstep' = "watch"
        /\ UNCHANGED <<tresult, tsite, balance, nonce, gasPrice>>
     \/ /\ ~SendAccepted
        /\ Fail /\ UNCHANGED tx
  /\ UNCHANGED <<chainNonce, chainBalance, chainPrice, height, otherSent, rivalSent, registered>>

\* Lines 314-317: the node admits the transaction but its reply is lost;
\* send().await? returns Err while the transaction stays in the pool.
SendReplyLost ==
  /\ tstep = "send"
  /\ SendAccepted
  /\ tx' = Pending /\ Fail
  /\ UNCHANGED <<chainNonce, chainBalance, chainPrice, height, otherSent, rivalSent, registered>>

\* Mutant: with_required_confirmations(1).
WatchConfirmedOnInclusion ==
  /\ tstep = "watch"
  /\ tx.status \in {"mined_ok", "mined_revert"} /\ Depth >= 1
  /\ tstep' = "get_receipt"
  /\ UNCHANGED <<tresult, tsite, balance, nonce, gasPrice, chainVars>>

\* Lines 318-321: watch() returns the hash once the transaction has
\* Confirmations blocks, whether it succeeded or reverted.
WatchConfirmed ==
  /\ tstep = "watch"
  /\ tx.status \in {"mined_ok", "mined_revert"} /\ Depth >= Confirmations
  /\ tstep' = "get_receipt"
  /\ UNCHANGED <<tresult, tsite, balance, nonce, gasPrice, chainVars>>

\* Mutant: with_timeout(None), no timer on the watch.
WatchTimeoutNone == FALSE

\* Lines 319-321: the 90 s timer of with_timeout, or a transport error of
\* the polling, ends the watch with Err, whatever the transaction's state.
WatchTimeout ==
  /\ tstep = "watch"
  /\ Fail
  /\ UNCHANGED chainVars

\* Lines 291-317: a request of the test fails in transport; `?` returns it.
TransportError ==
  /\ tstep \in {"get_balance", "get_nonce", "get_gas_price", "call", "send"}
  /\ Fail
  /\ UNCHANGED chainVars

\* Lines 324-327: get_transaction_receipt; .expect panics on a transport
\* error.  The transaction is mined, so the receipt is Some.
GetReceipt ==
  /\ tstep = "get_receipt"
  /\ \/ /\ tstep' = "read_log"
        /\ UNCHANGED <<tresult, tsite, balance, nonce, gasPrice>>
     \/ TPanic("receipt_expect")
  /\ UNCHANGED chainVars

\* Lines 329-334: the first log of the receipt, the registration event, and
\* Ok(()).  A reverted transaction has no logs: logs.first().unwrap() panics.
ReadLog ==
  /\ tstep = "read_log"
  /\ \/ /\ tx.status = "mined_ok"
        /\ tstep' = "returned" /\ tresult' = "ok"
        /\ UNCHANGED <<tsite, balance, nonce, gasPrice>>
     \/ /\ tx.status = "mined_revert"
        /\ TPanic("logs_first_unwrap")
  /\ UNCHANGED chainVars

(* The chain. *)

\* A block that does not include the test's transaction.
NewBlock ==
  /\ height < MaxHeight
  /\ height' = height + 1
  /\ UNCHANGED <<testVars, chainNonce, chainBalance, chainPrice, tx, otherSent, rivalSent, registered>>

\* A block that includes the test's transaction: its nonce is next, it pays
\* the current price and its gas.  It reverts if the instance is registered.
MineTx ==
  /\ height < MaxHeight
  /\ tx.status = "pending" /\ tx.nonce = chainNonce
  /\ tx.price >= chainPrice /\ chainBalance >= tx.price * GasLimit
  /\ height' = height + 1
  /\ chainNonce' = chainNonce + 1
  /\ chainBalance' = chainBalance - tx.price * GasLimit
  /\ tx' = [tx EXCEPT !.status = IF registered THEN "mined_revert" ELSE "mined_ok",
                      !.minedAt = height + 1]
  /\ registered' = TRUE
  /\ UNCHANGED <<testVars, chainPrice, otherSent, rivalSent>>

\* Another run of the test, with the same key, gets its registration mined
\* first: it takes the next nonce, which drops the test's transaction if
\* that one was waiting for it.
OtherSender ==
  /\ height < MaxHeight /\ ~otherSent /\ chainBalance >= OtherCost
  /\ otherSent' = TRUE
  /\ height' = height + 1
  /\ chainNonce' = chainNonce + 1
  /\ chainBalance' = chainBalance - OtherCost
  /\ registered' = TRUE
  /\ tx' = IF tx.status = "pending" /\ tx.nonce = chainNonce
           THEN [tx EXCEPT !.status = "dropped"] ELSE tx
  /\ UNCHANGED <<testVars, chainPrice, rivalSent>>

\* Another account registers the instance of the public SAMPLE_QUOTE; the
\* wallet's nonce and balance are not touched.
Rival ==
  /\ height < MaxHeight /\ ~rivalSent
  /\ rivalSent' = TRUE /\ registered' = TRUE
  /\ height' = height + 1
  /\ UNCHANGED <<testVars, chainNonce, chainBalance, chainPrice, tx, otherSent>>

\* The chain's gas price rises above the one a transaction may carry.
PriceRise ==
  /\ chainPrice = 1 /\ chainPrice' = 2
  /\ UNCHANGED <<testVars, chainNonce, chainBalance, height, tx, otherSent, rivalSent, registered>>

\* The steps the test takes itself; the 90 s timer is among them.
TestStep ==
  \/ Setup \/ GetBalance \/ GetNonce \/ GetGasPrice \/ CheckBalance \/ Call
  \/ Send \/ WatchConfirmed \/ WatchTimeout \/ GetReceipt \/ ReadLog

TNext ==
  \/ TestStep \/ SendReplyLost \/ TransportError
  \/ NewBlock \/ MineTx \/ OtherSender \/ Rival \/ PriceRise

TSpec == TInit /\ [][TNext]_tvars

\* The test's own steps are taken while enabled: it runs alone on a tokio
\* runtime, and the timer fires.  Blocks, the node's answers and the other
\* sender are not assumed.
TFairSpec == TSpec /\ WF_tvars(TestStep)

-----------------------------------------------------------------------------
(* Properties.                                                             *)

TestTypeOK ==
  /\ tstep \in TSteps /\ tresult \in {"pending", "ok", "err"} /\ tsite \in PanicSites
  /\ balance \in Nat /\ nonce \in Nat /\ gasPrice \in {0} \cup GasPrices
  /\ chainNonce \in Nat /\ chainBalance \in Nat /\ chainPrice \in GasPrices
  /\ height \in 0..MaxHeight /\ otherSent \in BOOLEAN /\ rivalSent \in BOOLEAN
  /\ registered \in BOOLEAN
  /\ tx \in TxRecords

\* The test passes only for a registration of its own that succeeded and is
\* buried under Confirmations blocks: neither a reverted transaction nor one
\* just included is taken for a registration.
TestOkMeansConfirmedRegistration ==
  tresult = "ok" => tx.status = "mined_ok" /\ Depth >= Confirmations

\* Once the test watches its transaction, the watch ends, even when the
\* transaction is dropped or priced out and never mined: the timeout of
\* line 319 bounds it.
WatchEnds == tstep = "watch" ~> tstep # "watch"

\* The comment of line 310: the dry run catches the transaction's errors,
\* so a transaction sent after it does not revert.
DryRunCatchesErrors == tx.status # "mined_revert"

-----------------------------------------------------------------------------
(* The inductive invariant behind TestOkMeansConfirmedRegistration (proved *)
(* in TestRegistrationProofs).  Before send() there is no transaction; from *)
(* the receipt on, the transaction is mined under Confirmations blocks; Ok *)
(* is returned only for a successful one.  A mined transaction stays mined *)
(* and the chain only grows, so what watch() saw stays true.               *)
TInv ==
  /\ TestTypeOK
  /\ tstep \in {"setup", "get_balance", "get_nonce", "get_gas_price",
                 "check_balance", "call", "send"} => tx = NoTx
  /\ tstep \in {"get_receipt", "read_log"} \/ tresult = "ok" =>
        /\ tx.status \in {"mined_ok", "mined_revert"}
        /\ height >= tx.minedAt + Confirmations - 1
  /\ tresult = "ok" => tx.status = "mined_ok"

=============================================================================
