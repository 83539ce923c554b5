# Formal model of the SGX quote decoder and registration client

This directory is a TLA+ verification development for
`src/provers/sgx/prover/src/sgx_register_utils.rs`. The file does two things:

- it decodes a hex-encoded SGX DCAP v3 quote into `ParsedV3QuoteStruct`;
- it submits the decoded quote to the `SgxVerifier` contract.

The modules model the decoder step by step, and the registration client
around it. The decoder implements an atomic specification of what it
promises. A TLC run checks this on a small input set, and TLAPS proves it
for every input set. TLAPS also proves the type invariants and the central
safety property of each part for every input set.

## The system

| Part | Code | State and operations |
|------|------|----------------------|
| little-endian reader | `little_endian_decode`, lines 82-97 | Pure. Asserts at most 8 bytes, then sums each byte's two nibbles weighted by powers of 16. |
| header decoder | `parse_quote_header`, 99-118 | Asserts `len > 48`, then copies seven fixed fields. |
| enclave report decoder | `parse_quote_enclave_report`, 120-150 | Slices 384 bytes into twelve fields. Two of them (`isvProdId`, `isvSvn`) go through the reader and are cast to `u16`. It is called on the local report (line 209) and on the QE report (line 181). |
| certification chain extractor | `parse_cerification_chain_bytes`, 152-160 | Runs `parse_many(..).unwrap()` and asserts three PEM blocks, then copies them in order. |
| auth data decoder | `parse_quote_auth_data`, 162-204 | Reads three untrusted length fields (QE data size, cert type, cert data size). Each one places the next slice. It then slices the fixed fields and builds the struct. |
| quote decoder | `parse_quote`, 206-225 | Hex-decodes, calls the header and report decoders, reads and asserts the auth-data length at [432,436), then decodes the auth data. |
| registration client | `register_sgx_instance`, 227-249 | Parses a fixed wallet key and the quote, builds a provider (await), then invokes `registerInstance` with `call()` (await). |
| ABI types | the `sol!` block, 11-80 | Generated structs and the contract binding. |
| tests | 251-335 | `test_parse_quote` decodes `SAMPLE_QUOTE`. `test_register_sgx_instance` registers it with a real transaction: it reads balance, nonce and gas price, asserts the balance, dry-runs with `call()`, sends, watches for 2 confirmations under a 90 s timeout, then unwraps the receipt's first log. |

Nothing in the production code runs concurrently. The decoder is a pure, sequential
function: each failure panics (assert, `unwrap`, an out-of-range slice), and
the first failure ends the run. What is hard to get right is therefore not
interleaving. It is the arithmetic of untrusted length fields: each field
positions the next read, and a panic must come before any read falls outside
the buffer.

The registration test is different. It shares a chain with everyone else, and
the wallet key is a literal of the repository, so any other run of the test
uses the same account. What it reads (nonce, balance, gas price) can be stale
when it sends, and the dry run and the transaction execute against different
states.

## Modules

- **`LittleEndian`** models `little_endian_decode` term by term:
  - `DigitsTerm(s, i)` is iteration `i` of the loop;
  - `LittleEndianDecode` is the sum over the at most 8 iterations the
    assertion of line 83 allows (it never fails: every caller passes 2 or 4 bytes);
  - `AsU16` is the `as u16` cast, and `U16` the values of a `u16`.

  The module uses no recursion, so proofs can use it.
- **`QuoteDecoding`** is the abstract specification. One atomic `Decide` step
  maps a quote to a verdict:
  - an error kind of spec section 7 (`InvalidHex`, `TruncatedInput`,
    `LengthMismatch`, `CertificateChainError`);
  - or the decoded fields, read with the reference little-endian value
    `Σ byte[k]·256^k`, a recursive function kept in `LittleEndianReference`
    so that no proof module reaches it.
- **`QuoteDecoder`** is the step-wise decoder. Its variables mirror the
  locals of the code:
  - `authDataSize`, `parsedDataSize`, `offset`, `certType`, `certDataSize` and `certs`;
  - `isv`, the `isvProdId` and `isvSvn` decoded from the local and the QE
    report (`ReportIsv` at `ReportAt[r]`);
  - a program counter `pc`;
  - the panic `site` once `pc = "panicked"`.

  Each action is one statement group of the code, in the code's order. Its
  success disjunct is guarded by the code's bounds check and its panic
  disjunct by the negation:

  | Action | Lines |
  |---|---|
  | `HexDecode` | 207 |
  | `ParseHeader` | 99-118 |
  | `ParseLocalReport` | 209, 120-150 |
  | `ReadAuthDataSize` | 211 |
  | `CheckQuoteLength` | 212-216 |
  | `ReadQeAuthData` | 166-170 |
  | `ReadCertHeader` | 171-174 |
  | `ParseCertChain` | 175-176, 152-160 |
  | `AssembleQuote` | 178-203, 218-224 |

  The input is a record:
  - whether the hex string decodes;
  - the decoded bytes;
  - the outcome of `parse_many` on the bundle, either `MalformedPem` or a
    block count.

  The PEM and hex parsers are library code. Only their outcomes matter to the
  decoder's control.
- **`MCQuoteDecoder`** instantiates the decoder for TLC:
  - `MCQuotes` builds quotes from little-endian-encoded length fields and
    filler bytes;
  - the violated properties behind the findings live here too.
- **`DecoderRefinement`** holds the refinement mapping. `DecoderVerdict` is
  the decoder's outcome as an abstract verdict: `Pending` while it runs, the
  error kind of its panic site (`ErrorKind`), or the struct it returns, with
  the code's `u16` casts. `DecoderImplementsSpec` is `QuoteDecoding`'s `Spec`
  under that mapping. `RefinementInv` is the inductive invariant of the
  proof, stated at the spec's offsets.
- **`QuoteDecoderProofs`** holds the TLAPS proofs about the decoder.
- **`DecoderRefinementProofs`** proves the refinement.
- **`Registration`** models `register_sgx_instance`. It extends
  `QuoteDecoder` and runs the decoder's actions inside its `DecodeQuote` step.
  Its own variables are:
  - `step`, where the function is: `parse_wallet`, `decode`, `call`,
    `await_call`, `returned`;
  - `result`, the returned `Result`;
  - `rpcLog`, the requests sent;
  - `registered`, the verifier contract's on-chain set. Only a transaction
    could change it.

  The actions:

  | Action | Lines | What it does |
  |---|---|---|
  | `ParseWallet` | 230-233 | Parses the literal key; it cannot fail. |
  | `DecodeQuote` | 234 | One decoder step. A decoder panic unwinds the caller. |
  | `BuildProvider` | 235-239 | Builds the client for a literal `http://` URL, with no request. |
  | `CallRegister` | 240-245 | Sends one `eth_call`. |
  | `EndpointReply` | 245-248 | The environment answers with a value, a revert or a transport error. It may also never answer. |
- **`MCRegistration`** runs it on the same quotes.
- **`RegistrationProofs`** holds the proofs about the composition.
- **`TestRegistration`** models `test_register_sgx_instance` (lines 274-335)
  and the chain it runs against. The test's variables are `tstep`, `tresult`,
  `tsite` and the locals `balance`, `nonce` and `gasPrice`. The chain's are the
  wallet's `chainNonce` and `chainBalance`, `chainPrice`, `height`, the test's
  transaction `tx`, and `registered`.

  | Action | Lines | What it does |
  |---|---|---|
  | `Setup` | 275-289 | Transport, wallet, `parse_quote(SAMPLE_QUOTE)`, provider; no request. |
  | `GetBalance`, `GetNonce`, `GetGasPrice` | 291-295 | Copy the chain's value into the local. |
  | `CheckBalance` | 296-309 | `assert!(balance > gas_price * gas_limit)`. |
  | `Call` | 310-312 | The dry run; it fails if the instance is registered or the balance no longer pays. |
  | `Send` | 314-317 | The node admits the transaction (`Pending`) or refuses it: nonce used up, balance short. |
  | `SendReplyLost` | 314-317 | The node admits it but the reply is lost: Err, with the transaction pending. |
  | `WatchConfirmed` | 318-321 | The transaction is mined, reverted or not, with `Depth >= 2`. |
  | `WatchTimeout` | 319-321 | The 90 s timer, or a polling error, ends the watch with Err. |
  | `TransportError` | 291-317 | `?` returns a transport error. |
  | `GetReceipt` | 324-327 | The receipt, or a panic of `.expect`. |
  | `ReadLog` | 329-334 | Ok for a successful transaction; `logs.first().unwrap()` panics for a reverted one. |

  The chain's actions are `NewBlock`, `MineTx` and `PriceRise`, plus two more:
  - `OtherSender`: another run of the test with the same key gets its
    registration mined. It takes the nonce, so a test transaction waiting for
    that nonce is dropped.
  - `Rival`: another account registers the public `SAMPLE_QUOTE`.

  The verifier rejects a second registration, so `MineTx` reverts the test's
  transaction when the instance is already registered. The constants
  `MaxHeight` and `InitBalances` bound the chain.
- **`MCTestRegistration`** gives them the values 4 and {6, 12}.
- **`TestRegistrationProofs`** holds the proof about the test.

## Runs

The decoder and registration runs use the same quote set `MCQuotes` (132 inputs):

- one quote whose hex does not decode;
- lengths 48, 49, 431, 432 and 435, one byte either side of each fixed-size cut;
- for each QE data size in {0, 2} and each certificate size in {3, 300}, auth
  data of 577, 577+q, 579+q, 583+q, 583+q+c, 584+q+c and 585+q+c bytes. These
  lengths put every bounds check just short of, exactly at and just past its
  boundary.
- a declared auth-data length equal to the real one or off by one;
- a PEM outcome of malformed, 2 blocks or 3 blocks.

A certificate size of 300 makes the size field use two non-zero bytes, which
exercises the byte weights. The filler byte 171 (0xAB) has both nibbles
non-zero, so every nibble weight counts. The two `isv` fields of each report
are filled with distinct byte values, so a swap of the two reports, or of the
two fields, changes the verdict.

The test runs use a chain of at most 4 blocks. That is enough for the other
registrations, the test's transaction and its second confirmation to happen
in every order. A balance of 6 pays for the gas only at price 1, and stops
paying once the other run of the test has spent 4. A balance of 12 pays at
both prices.

| Run | cfg | Expect | Shows |
|-----|-----|--------|-------|
| `decoder_wellformed` | `MCQuoteDecoder.cfg` | pass | `TypeOK`, and `AcceptedQuoteWellFormed`: an accepted quote's declared auth length equals its real length, and the QE data, certificate header and bundle lie inside the auth data. |
| `decoder_refines_spec` | `MC_DecoderImplementsSpec.cfg` | pass | The decoder implements `QuoteDecoding` under `DecoderVerdict`. Every input gets the spec's error kind or the spec's decoded fields. This includes the nibble-split reader agreeing with the reference little-endian value on every field read. |
| `header_48` | `MC_HeaderRejectsOnlyShortInput.cfg` | violation | `parse_quote_header` panics on a 48-byte input, although its message says "at least 48". |
| `auth_padding` | `MC_AuthDataFullyConsumed.cfg` | violation | Bytes after the certificate bundle inside the declared auth data are accepted. |
| `registration` | `MCRegistration.cfg` | pass | `RegTypeOK` (at most one request: the code never retries), and `RequestOnlyForAcceptedQuote`: a request reaches the verifier only after `parse_quote` accepted the quote, and carries it. |
| `ok_not_registered` | `MC_OkMeansRegistered.cfg` | violation | `register_sgx_instance` returns `Ok` while the quote is not registered. `call()` is an `eth_call`, although the comment says "send tx". |
| `call_never_answered` | `MC_RegistrationTerminates.cfg` | violation | Under weak fairness of the client's own steps, the registration can still wait forever on an endpoint that never answers. No timeout is set. |
| `test_registration` | `MCTestRegistration.cfg` | pass | `TestTypeOK`; `TestOkMeansConfirmedRegistration`: the test returns Ok only for its own successful transaction under 2 confirmations, whatever the other users of the chain do; `WatchEnds`: the watch always ends, even for a dropped or priced-out transaction. |
| `dry_run_then_revert` | `MC_DryRunCatchesErrors.cfg` | violation | A registration mined between the dry run and the transaction makes the transaction revert. The comment says the dry run catches errors. The test then panics at `logs.first().unwrap()` instead of returning Err. |

The decoder runs reach 940 distinct states, the registration runs 1104 and
the test run 2222. Together they fire every disjunct of every action.

Each property of a passing run has a mutant, a plausible bug that TLC catches:

- `ParseCertChainNoCountAssert` drops the PEM count assertion;
- `CheckQuoteLengthReleaseBuild` drops the length assertion;
- `DigitsTermNibbleSwap` swaps the nibble weights;
- `EndpointReplyRetry` resends the call after a transport error;
- `BuildProviderIgnoringDecodeFailure` carries on after a failed decode;
- `PendingGasSwapped` swaps the builder's gas price and gas limit;
- `WatchConfirmedOnInclusion` waits for 1 confirmation instead of 2;
- `WatchTimeoutNone` drops the watch's timeout.

The decoder needs no fairness: it either returns or panics.

Only `call_never_answered` assumes fairness. It uses `ClientFairSpec`,
which gives weak fairness to the client's own steps (`ClientNext`). That is
justified because the function is straight-line code on one task. The
endpoint's answer is deliberately not assumed fair, which is the point of
the run. `CHECK_DEADLOCK FALSE` is set because `done` and `panicked` are
terminal states of a function that has returned.

`test_registration` uses `TFairSpec`, with weak fairness on the test's own
steps (`TestStep`). That includes the 90 s timer: the test runs alone on its
tokio runtime, and the timer fires. Blocks, the node's answers and the other
users of the chain get no fairness. `WatchEnds` therefore holds only because
of the timer, which its mutant shows. `CHECK_DEADLOCK FALSE` is set because
the test returns and the chain stops at `MaxHeight`.

## What is proved

`QuoteDecoderProofs` proves, for every set `Quotes ⊆ QuoteInput`, two theorems.

**`TypeCorrect`: `Spec => []TypeOK`.** Every integer read is a natural
number. The argument rests on a few lemmas:

- `SliceIsBytes` and `ReadIsNat`: each slice the code decodes ends inside the
  quote, because the same step's bounds check guards it;
- `LittleEndianDecodeNat`: the reader's sum of nibble terms is natural for at
  most 4 bytes;
- `ReportIsvType`: both `isv` fields of a report inside the quote are `u16`
  values. For the QE report this needs `WellFormedInv`, which places it inside
  the quote at assembly. `TypeOK` and `WellFormedInv` are therefore proved
  inductive together.

**`AcceptedQuotesWellFormed`: `Spec => []AcceptedQuoteWellFormed`.** The
property is not inductive by itself. It is proved from the strengthening
`WellFormedInv`, which records what each completed check established for the
stages after it:

- `QuoteLen >= 436` from the length check on;
- `QuoteLen = 436 + authDataSize` after it;
- `offset = 578 + parsedDataSize`, then `+ 6`;
- the bundle bound and three certificates at assembly.

TLC checks `WellFormedInv` on the run's state space. TLAPS proves it
inductive together with `TypeOK`.

`DecoderRefinementProofs` proves, for every set `Quotes ⊆ QuoteInput`, that
the decoder implements its specification.

**`DecoderRefinesSpec`: `Spec => DecoderImplementsSpec`.** Under the mapping
`DecoderVerdict`, the decoder starts in the spec's initial state. Every step
that stops it, by returning or by panicking, is the spec's `Decide` step, and
every other step is a stutter. `DecoderImplementsSpec` uses the real
recursive reference value `Σ byte[k]·256^k` of `LittleEndianReference`. The
argument has three parts.

- **The two readers agree.** The recursive reference function is unfolded for
  lengths 1 to 4 (`ReferenceIsByteSum`): a witness function satisfies its
  defining equation, and its values are chained. No induction is needed.
  `DecodeIsByteSum` shows that the code's nibble reader gives the same sum of
  bytes, so `ReadersAgree` holds. `FieldIsRead` restates this for a field of
  the quote. `WordIsU16` shows that a 2-byte read is already a `u16`, so the
  casts of lines 221-222 lose nothing.
- **The spec's verdict, case by case.** Lemmas compute the spec's verdict from
  the facts each check of the code establishes: `VerdictHex`, `VerdictShort`,
  `VerdictLength`, `VerdictTruncatedAuth` (one case per bounds check of the
  auth data), `VerdictPem` and `VerdictOk`.
- **The inductive invariant.** `RefinementInv` states, for each `pc`, what
  the decoder has read so far, in the spec's terms:
  - the hex decoded;
  - the length checks passed;
  - `authDataSize`, `parsedDataSize`, `certType` and `certDataSize` equal
    the reads at the spec's offsets, and each lies inside the auth data;
  - three certificates before assembly;
  - once the decoder has stopped, `DecoderVerdict` is the spec's verdict.

  It is needed because the verdict is produced at the last step from values
  read many steps earlier. Without it, a step into `done` or `panicked` could
  not be related to the spec's verdict. `RefStep` proves that every step
  keeps it (one case per action, and one step per conjunct the action can
  disturb), together with `TypeOK` and `WellFormedInv`. TLC checked it too.
  `StepMaps` then maps each decoder step to `Decide` or a stutter.

`RegistrationProofs` proves two more theorems.

**`RegTypeCorrect`: `RegSpec => []RegTypeOK`.** It reuses `TypeStep`
through `DecoderStepOrStutter`: every registration step is a decoder step
or leaves the decoder alone.

**`RequestsOnlyForAcceptedQuotes`: `RegSpec => []RequestOnlyForAcceptedQuote`.**
Both theorems rest on the inductive invariant `RegInv`, which TLC also
checked. It states what each stage has established:

- the decoder has not started while the wallet is parsed;
- it has accepted the quote from the call on;
- the log is empty before the call and holds exactly `EthCall(quote)` after it.

`TestRegistrationProofs` proves, for every `MaxHeight` and every set of
starting balances (`BoundsAssumption`), two theorems. **`TestTypeCorrect`:
`TSpec => []TestTypeOK`** holds from the same invariant `TInv`.

**`TestOkOnlyWhenConfirmed`: `TSpec => []TestOkMeansConfirmedRegistration`.**
The invariant `TInv`, which TLC also checked, strengthens it:
- there is no transaction before `send()`;
- from the receipt on, and once Ok is returned, the transaction is mined with
  `height >= minedAt + 1`;
- Ok is returned only for a successful transaction.

It is inductive because a mined transaction is never touched again (only a
pending one is mined or dropped) and the height only grows. The proof has one
step per action. The chain's actions need that a pending transaction means
the test is between `send()` and the receipt.

The proofs assume only `QuotesAssumption`, `PemAssumption` and
`BoundsAssumption`, which TLC evaluates on every run.

Some things are model-checked only:

- **That the nibble reader equals the reference value for every length.**
  This is induction over data, out of the provers' reach. The proof needs the
  equality only for the 2- and 4-byte fields the decoder reads. It unfolds
  the recursion for those lengths.
- **`RegistrationTerminates`**, a liveness property, like `WatchEnds`.
- **Liveness.** `WatchEnds` needs fairness and ENABLED, which the provers do
  not handle.

The back-end provers evaluate `16^k` only for small literals, so the reader
lemmas are stated for slices of at most 4 bytes. That is every slice the code
decodes.

## Abstractions and what is not modelled

- **Hex decoding and PEM parsing.** These are library calls, modelled by their
  outcome. Certificate contents are the block numbers 1-3, so the property
  tells the order apart.
- **Field copies.** Only the bounds of the fixed-width field copies in the
  header and the reports are modelled. The values are copied verbatim and no
  property depends on them. The exception is the reports' `isvProdId` and
  `isvSvn`, which are decoded and kept in `isv`.
- **Integer casts.** TLC integers are 32-bit, so the `as usize` and `as u32`
  casts are the identity in the model. They are lossless here because every
  value comes from at most 4 bytes.
- **Registration client.** In `register_sgx_instance`, the provider's
  recommended layers (nonce, gas, chain id) are left out: `call()` uses none
  of them to change state. The printed return value is left out too.
- **ABI types.** The `sol!` types are generated code. Their `u16` widths are
  `U16` and `AsU16`.
- **The chain in the test model.** Gas accounting is abstracted:
  - a transaction is charged its full gas limit;
  - the gas price takes two values.

  The verifier contract is not in this repository. The model takes from it
  one assumption: a second registration of an instance reverts. Reorgs are
  not modelled, so a confirmed transaction's receipt is always found;
  `.unwrap()` on a `None` receipt (line 331) is therefore not reached.
  `test_parse_quote` only calls `parse_quote`, which `QuoteDecoder` models.

## Plan

1. Done:
   - `LittleEndian`, `QuoteDecoding`, `QuoteDecoder`, `MCQuoteDecoder`;
   - the well-formedness and refinement runs, and the two findings;
   - the type and well-formedness proofs.
2. Done: `Registration`, its runs and findings, and its two theorems.
3. Done: the `isv` fields of both reports, and `TestRegistration` with its
   runs, finding and theorem.
4. A TLC run that compares `LittleEndianDecode` with the reference value over
   all byte strings of length ≤ 2 over a small byte set, plus a mutant.
5. Done: the TLAPS proof of the refinement (`DecoderRefinesSpec`) and
   `TestTypeCorrect`.
