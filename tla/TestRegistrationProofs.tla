----------------------- MODULE TestRegistrationProofs -----------------------
(***************************************************************************)
(* Proofs about test_register_sgx_instance, for every chain length and    *)
(* every set of starting balances: the test returns Ok only for its own   *)
(* successful registration, buried under two blocks.                       *)
(***************************************************************************)
EXTENDS TestRegistration, TLAPS

\* The initial state satisfies the inductive invariant.
LEMMA TInitInv == TInit => TInv
<1> SUFFICES ASSUME TInit PROVE TInv OBVIOUS
<1>1. tstep \in TSteps /\ tresult \in {"pending", "ok", "err"} /\ tsite \in PanicSites
  BY DEF TInit, TSteps, PanicSites
<1>2. balance \in Nat /\ nonce \in Nat /\ gasPrice \in {0} \cup GasPrices
  BY DEF TInit, GasPrices
<1>3. chainNonce \in Nat /\ chainBalance \in Nat /\ chainPrice \in GasPrices
  BY BoundsAssumption DEF TInit, GasPrices
<1>4. height \in 0..MaxHeight BY BoundsAssumption DEF TInit
<1>5. otherSent \in BOOLEAN /\ rivalSent \in BOOLEAN /\ registered \in BOOLEAN
  BY DEF TInit
<1>6. tx \in TxRecords BY DEF TInit, NoTx, TxRecords, TxStatus, GasPrices
<1>7. QED BY <1>1, <1>2, <1>3, <1>4, <1>5, <1>6 DEF TInit, TInv, TestTypeOK

\* What MineTx makes of the test's transaction.
LEMMA MineTxRecord ==
  ASSUME TestTypeOK, MineTx
  PROVE  /\ tx' = [nonce |-> tx.nonce, price |-> tx.price,
                   status |-> IF registered THEN "mined_revert" ELSE "mined_ok",
                   minedAt |-> height + 1]
         /\ tx' \in TxRecords
<1>1. tx' = [nonce |-> tx.nonce, price |-> tx.price,
             status |-> IF registered THEN "mined_revert" ELSE "mined_ok",
             minedAt |-> height + 1]
  BY DEF MineTx, TestTypeOK, TxRecords
<1>2. QED BY <1>1, BoundsAssumption DEF TestTypeOK, TxRecords, TxStatus

\* Every step of the test or of the chain keeps TInv.
LEMMA TStep ==
  ASSUME TInv, [TNext]_tvars
  PROVE  TInv'
<1> USE BoundsAssumption
<1> USE DEF TInv, TestTypeOK, TSteps, PanicSites, TxStatus, GasPrices, Confirmations,
           TxRecords
<1>1. CASE Setup BY <1>1 DEF Setup, chainVars
<1>2. CASE GetBalance BY <1>2 DEF GetBalance, chainVars
<1>3. CASE GetNonce BY <1>3 DEF GetNonce, chainVars
<1>4. CASE GetGasPrice BY <1>4 DEF GetGasPrice, chainVars
<1>5. CASE CheckBalance BY <1>5 DEF CheckBalance, TPanic, chainVars
<1>6. CASE Call BY <1>6 DEF Call, Fail, chainVars
<1>7. CASE Send
  <2>1. Pending \in TxRecords BY DEF Pending, TxRecords
  <2>2. CASE SendAccepted
    <3>1. tx' = Pending /\ tstep' = "watch" /\ tresult' = tresult
      BY <1>7, <2>2 DEF Send, Fail
    <3>2. UNCHANGED <<tsite, balance, nonce, gasPrice, chainNonce, chainBalance,
                      chainPrice, height, otherSent, rivalSent, registered>>
      BY <1>7, <2>2 DEF Send, Fail
    <3>3. tresult # "ok" BY <1>7 DEF Send, NoTx
    <3>4. QED BY <2>1, <3>1, <3>2, <3>3 DEF Pending
  <2>3. CASE ~SendAccepted BY <1>7, <2>3 DEF Send, Fail
  <2>4. QED BY <2>2, <2>3
<1>8. CASE SendReplyLost
  <2>1. Pending \in TxRecords BY DEF Pending, TxRecords
  <2>2. QED BY <1>8, <2>1 DEF SendReplyLost, Fail
<1>9. CASE WatchConfirmed BY <1>9 DEF WatchConfirmed, Depth, chainVars
<1>10. CASE WatchTimeout BY <1>10 DEF WatchTimeout, Fail, chainVars
<1>11. CASE TransportError BY <1>11 DEF TransportError, Fail, chainVars
<1>12. CASE GetReceipt BY <1>12 DEF GetReceipt, TPanic, chainVars
<1>13. CASE ReadLog BY <1>13 DEF ReadLog, TPanic, chainVars
<1>14. CASE NewBlock BY <1>14 DEF NewBlock, testVars
<1>15. CASE MineTx
  \* The test's transaction is pending, so the test has not reached the
  \* receipt and has not returned Ok.
  <2>1. tx.status = "pending" BY <1>15 DEF MineTx
  <2>2. ~(tstep \in {"get_receipt", "read_log"} \/ tresult = "ok") BY <2>1
  <2>3. testVars' = testVars BY <1>15 DEF MineTx
  <2>4. ~(tstep \in {"setup", "get_balance", "get_nonce", "get_gas_price",
                     "check_balance", "call", "send"}) BY <2>1 DEF NoTx
  <2>5. tx' \in TxRecords BY <1>15, MineTxRecord
  <2>6. /\ chainBalance' \in Nat /\ chainNonce' \in Nat /\ height' \in 0..MaxHeight
        /\ chainPrice' \in GasPrices /\ otherSent' \in BOOLEAN
        /\ rivalSent' \in BOOLEAN /\ registered' \in BOOLEAN
    BY <1>15 DEF MineTx, GasLimit
  <2>7. TestTypeOK' BY <2>3, <2>5, <2>6 DEF testVars
  <2>8. QED BY <2>2, <2>3, <2>4, <2>7 DEF testVars
<1>16. CASE OtherSender
  \* Only a pending transaction is dropped; before send() there is none, and
  \* from the receipt on it is mined.
  <2>1. /\ chainBalance' \in Nat /\ chainNonce' \in Nat /\ height' \in 0..MaxHeight
        /\ chainPrice' \in GasPrices /\ otherSent' \in BOOLEAN
        /\ rivalSent' \in BOOLEAN /\ registered' \in BOOLEAN
        /\ height' = height + 1
    BY <1>16 DEF OtherSender, OtherCost
  <2>2. testVars' = testVars BY <1>16 DEF OtherSender
  <2>3. CASE tx.status = "pending" /\ tx.nonce = chainNonce
    <3>0. tx = [nonce |-> tx.nonce, price |-> tx.price, status |-> tx.status,
                minedAt |-> tx.minedAt]
      OBVIOUS
    <3>1. tx' = [nonce |-> tx.nonce, price |-> tx.price, status |-> "dropped",
                 minedAt |-> tx.minedAt]
      BY <1>16, <2>3, <3>0 DEF OtherSender
    <3>2. tx' \in TxRecords BY <3>1
    <3>3. ~(tstep \in {"setup", "get_balance", "get_nonce", "get_gas_price",
                       "check_balance", "call", "send", "get_receipt", "read_log"}
            \/ tresult = "ok")
      BY <2>3 DEF NoTx
    <3>4. QED BY <2>1, <2>2, <3>2, <3>3 DEF testVars
  <2>4. CASE ~(tx.status = "pending" /\ tx.nonce = chainNonce)
    <3>1. tx' = tx BY <1>16, <2>4 DEF OtherSender
    <3>2. QED BY <2>1, <2>2, <3>1 DEF testVars
  <2>5. QED BY <2>3, <2>4
<1>17. CASE Rival BY <1>17 DEF Rival, testVars
<1>18. CASE PriceRise BY <1>18 DEF PriceRise, testVars
<1>19. CASE UNCHANGED tvars BY <1>19 DEF tvars, testVars, chainVars, NoTx
<1>20. QED
  BY <1>1, <1>2, <1>3, <1>4, <1>5, <1>6, <1>7, <1>8, <1>9, <1>10, <1>11,
     <1>12, <1>13, <1>14, <1>15, <1>16, <1>17, <1>18, <1>19 DEF TNext, TestStep

\* test_register_sgx_instance returns Ok only when its own transaction
\* succeeded and has Confirmations blocks: watch() waited for the depth
\* and logs.first().unwrap() refused a reverted transaction.
THEOREM TestOkOnlyWhenConfirmed == TSpec => []TestOkMeansConfirmedRegistration
<1>1. TInv => TestOkMeansConfirmedRegistration
  BY BoundsAssumption DEF TInv, TestTypeOK, TestOkMeansConfirmedRegistration,
                          Depth, Confirmations, TxRecords
<1>2. QED BY <1>1, TInitInv, TStep, PTL DEF TSpec


\* test_register_sgx_instance keeps every local of the test and the chain
\* state it reads in its type: balances and nonces stay natural numbers, the
\* transaction record stays a record of the test's own send, through every
\* interleaving with blocks, other senders, rivals and price rises.
THEOREM TestTypeCorrect == TSpec => []TestTypeOK
<1>1. TInv => TestTypeOK BY DEF TInv
<1>2. QED BY <1>1, TInitInv, TStep, PTL DEF TSpec

=============================================================================
