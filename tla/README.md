# A TLA+ verification of OnRe

OnRe sells and redeems the ONyc token at a price that its operator schedules in
advance. The repository holds a Solana program (`src/programs/onreapp`), the
operators' console and scripts (`src/scripts`), and the generated interface
between them (`src/target/types`). This directory holds TLA+ models of them, the
TLC runs that check the models on small instances, and TLAPS proofs of the
properties that matter most. Paths of Rust files below are relative to
`src/programs/onreapp/src/`, those of TypeScript files to `src/scripts/`.

## The system

### The program

Every instruction is a transaction: it runs alone, and a failure reverts all
of it. What is hard is therefore not concurrency inside an instruction but the
*order* in which the instructions of different actors arrive (users, the
redemption admin, the admins, the boss, whoever may upgrade the program), the
clock that moves between them, values that one instruction reads long after
another wrote them, integer widths and rounding.

| Part | State | Operations | Correct when |
|---|---|---|---|
| Pricing schedule (`instructions/offer`) | `Offer.vectors`, ten slots | `add_offer_vector` (with eviction), `delete_offer_vector`, `delete_all_offer_vectors` | vectors are identified by their start time; the eviction keeps the active and the previous vector and leaves room; the active vector only moves forward |
| NAV information (`instructions/market_info`) | none | `get_nav`, `get_nav_adjustment` | the price holds until the announced change; the adjustment holds as long as its vector is in force |
| Governance (`state.rs`, `instructions/state_operations`, `initialize`) | `State`: boss, proposed boss, kill switch, admins, approvers, redemption admin, cap, ONyc mint | one instruction each, two-step hand-over, `close_state` | a role ends when it is taken away; a proposal ends with the boss who made it |
| Token arithmetic (`utils/token_utils.rs`, `redemption_utils.rs`) | none | fee, amount bought, amount paid out | rounding favours the protocol and never blocks a trade |
| Token operations and mint authority | balances, supplies and authority of each mint (external token program) | transfer, burn, mint; `mint_to`, `transfer_mint_authority_to_*` | the cap bounds the supply that `mint_to` and trades create; payouts of redemptions are minted without it |
| Primary market | fee and flags of each offer, the offer vault, the permissionless intermediary | `make_offer`, `update_offer_fee`, `take_offer`, `take_offer_permissionless`, vault deposit and withdrawal | a payment counts once; both ways of trading have the same terms |
| Redemptions | redemption offers with running totals and a counter, open requests, one vault per mint | make, update fee, create, cancel, fulfil; vault deposit and withdrawal | each request settles once; totals and vault agree with the open requests |
| Approvals (`utils/approver`) | none (messages signed off chain) | verification | either approver, this user, not expired |

Every instruction reads `State` (boss, kill switch, roles). Trades and
redemptions read the schedule for the price and the mint's authority to choose
between minting or burning and transferring, and they share token accounts with
the boss's vault operations.

### Its clients

Scripts are processes: they read a chain, await, and act on what they read, while
the chain goes on without them. They die, and what they sent executes anyway.

| Part | State | Operations | Correct when |
|---|---|---|---|
| Console (`cli`) | one session: parameters, payer, transaction, chosen keypair | 42 commands; prompt, confirm, build, copy or sign and send, wait | what is built is what was asked, for the boss; nothing dangerous is sent unasked; success is not reported of what did not land; the session ends |
| Builders (`utils/script-helper.ts`) over the generated interface | none | one per instruction; Anchor's client derives the accounts that are not named | every account is named or derivable |
| Cross-chain transfers (`cross_chain_transfer`) | a run's place in its script; on chain: nonce, allowance, burns, attestations, mints | approve, burn, poll the attestation, mint; reclaim an event account | each burn is minted once; a script that ends well has delivered; every script ends |
| Upgrade (`programV3upgrade`) | the `State` account in its old or new layout, printed transactions | eight scripts, each printing one transaction that is executed later | the upgrade completes in whatever order the transactions execute; its offers find the accounts of the permissionless authority |

The console and the upgrade act on the `State` account, which is shared with the
program (module `Governance`); the transfers are independent of the program.

## Modules

| Module | Models | Extends |
|---|---|---|
| `Numeric` | the widths i64, u64, u128 scaled by one constant; the error value | |
| `OfferPricing` | selection of vectors, step prices, NAV, adjustment: pure operators | `Numeric` |
| `OfferSchedule` | the vector array of one offer, the clock, three instructions | `OfferPricing` |
| `Governance` | the `State` account and every instruction that changes it | |
| `TokenMath` | fees and amounts | `Numeric` |
| `TradeMath` | trades as inputs of `TokenMath`, and how trades relate | `TokenMath` |
| `TokenLedger` | balances and supplies; transfer, burn, mint | `Numeric` |
| `MintAuthority` | who may mint; the boss's three instructions; composes `Governance` | `TokenLedger`, `Governance` (INSTANCE) |
| `Exchange` | the primary market; composes `Governance` and `MintAuthority` | `MintAuthority`, `TokenMath` |
| `Redemption` | the redemption queue; composes the same | `MintAuthority`, `TokenMath` |
| `AccountResolver` | what Anchor's client derives from the accounts that a caller names (external) | |
| `Interface` | the accounts of every instruction of `target/types/onreapp.ts`, and of the one old instruction in use | `AccountResolver` |
| `ScriptHelper` | the builders: which accounts each names | `AccountResolver`, `Interface` (INSTANCE) |
| `Commands` | parameters, options and implementation of every command | `ScriptHelper` |
| `Console` | a session, step by step, with the program, the multisig and other parties | `Commands`, `Governance` (INSTANCE) |
| `CctpInterface` | the instructions of Circle's Solana programs that the scripts call, and the accounts they name | `AccountResolver` |
| `BridgeLedger` | abstract: USDC leaves one chain and enters the other once, in full | |
| `Bridge` | the four transfer scripts as processes over both chains, the mempool and the attestation service | `CctpInterface`, `BridgeLedger` (refinement) |
| `Upgrade` | the eight upgrade scripts and their printed transactions | `ScriptHelper`, `Governance` (INSTANCE) |
| `MC*` | constants of the small instances | |
| `TokenProofs` | lemmas about the ledger, fees and the composition with `Governance` | `MintAuthority`, `TokenMath`, TLAPS |
| `OfferSchedule-`, `Governance-`, `TradeMath-`, `Exchange-`, `Redemption-`, `BridgeProofs` | theorems | the component, and `TokenProofs` or TLAPS |
| `ClientProofs` | theorems about the console and the upgrade scripts | `Console`, `Upgrade` (INSTANCE), TLAPS |

Conventions that hold throughout:

- In the program's modules an action is one instruction. The constraints of its
  account structure (signer, `has_one`, `init`, kill switch) and its `require!`s
  are conjuncts; an instruction that fails changes nothing, so a failed guard
  disables the action. `Commit` (in `MintAuthority`) carries this to the token
  operations: each returns a ledger whose `ok` is false once one has failed.
- In the clients' modules an action is what happens between two awaits.
- Definitions keep the names of the code. `PROJECT.json` maps each to its
  lines. An entry marked external stands for code that is not in the repository.
- An absent account is a distinguished value: `NoKey` is `Pubkey::default()`, a
  `State` whose boss is `NoKey` does not exist, a vector whose `start_time` is 0
  is an empty slot (as in the code), an offer that is not `made` does not exist.
- `Numeric` keeps widths: `U64_MAX` and `U128_MAX` derive from `I64_MAX`, and each
  checked operation of the code is a comparison against them. The release
  profile of the program has `overflow-checks = true`, so plain arithmetic that
  overflows fails as well.
- Decimals enter as scales (`10^decimals`); a mint's scale is a constant.
- A sum (`Total`, in `TokenLedger`) is the number of single tokens, each a holder
  and a number from 1 to what is held. It is the sum of the values, and needs no
  recursion: a set grows by as many elements as tokens are added.
- `proposer` (`Governance`), `liquidity` (`Redemption`), `consents` and `bosses`
  (`Console`) are history variables: no guard reads them.
- `state`, `ledger` and `authority` are the shared state of the composed modules;
  `Gov!Next` leaves the other components alone and they leave `state` alone.
- In `Exchange` and `Redemption` the price of an offer is an input that may become
  any value of `Prices`, or none, at any time (`PriceMoves`). This
  over-approximates what `OfferSchedule` can do, so the safety properties carry
  over.
- Definitions marked *Mutant* are faulty variants of the definition after them;
  no specification uses them. Each shows that a property can fail.

How the clients' modules correspond to the code:

- **`Console`.** `step` is the await at which a session stands: the prompts
  (`promptForParams`), the count of `clear-admins`, the confirmation, the payer's
  read (`transaction-builder.ts:64`), the instruction's own reads and the builder,
  the choice in `handleTransaction`, the keypair, the question before sending, and
  the wait. A value is typed at a prompt, where a validator sees it, or given as a
  flag, where `transformValue` converts it unseen; numbers are in halves, so that
  a fraction can be typed. `Encoded` is what BN and the encoder make of a number.
  `Commands` holds one record for each implementation: who signs, who pays, what is
  asked, which mints are looked up. A copied transaction may be executed by the
  multisig much later, a sent one may land after the wait was given up.
- **`ScriptHelper` and `Interface`.** An instruction is four groups of accounts
  (signers, named by the caller only, fixed, derived from others). `Resolves` runs
  the client's derivation to its fixed point. Addresses themselves are abstracted.
- **`Bridge`.** A script is a sequence of steps (`transfer_eth2sol` and so on), `pc` a
  run's place in it. A transaction on Ethereum is three awaits: the nonce is read,
  the transaction is sent, the receipt is awaited; the version 1 script reads the
  *latest* count, which ignores pending transactions, all others the pending one.
  `Outcomes` gives the ledgers a transaction may leave. `Crash` ends a run at any
  await; what it had sent stays in the mempool or in flight.
- **`Upgrade`.** `Prints(n)` is what script *n* prints, from what it reads now;
  `Execute(n)` is what the chain does with it later, possibly nothing.

## Runs

| Run | Instance | Shows |
|---|---|---|
| `offer_schedule` | 3 slots, 5 seconds, explicit starts 1..5 or none, three base times, three shapes: growing, flat and one that overflows u64 | schedule properties below |
| `governance` | 3 keys (two interchangeable), 2 admin slots | role properties |
| `trade_math` | all combinations of 8 amounts, every split, 6 prices (0 too), 4 fees up to 100%, 3 scales | rounding properties |
| `redemption` | 2 offers in opposite directions over one vault, 2 requests each, mint control changing, a fee beyond the limit tried | queue and vault properties |
| `exchange` | one offer, direct and permissionless trades, fees 0%, 75% and an illegal 125%, cap 4, one approver, two messages, 2 seconds | market properties |
| `bridge` | every pair of five jobs (all four scripts, two amounts in one direction), 3 units of USDC, 2 polls | transfer properties, refinement, liveness |
| `console` | every command, three modes, with and without options, one unusual input, no State account or either boss, 2 steps of other parties | session properties, liveness |
| `upgrade` | eight scripts, accounts of the intermediary there or not, 2 transactions thrown away | upgrade properties, liveness |
| `redemption_locked`, `redemption_cancel`, `kill_switch`, `builders` | as above | each a statement in the repository that the code does not keep (see Findings) |

The properties, by module:

- `OfferSchedule`: `TypeOK` (a slot is empty throughout or holds a vector that
  can price); `UniqueStartTimes`; `RepriceNeverBlocked` (the eviction always
  leaves room for a vector that starts now); `HistoryKept` (adding or deleting a
  vector never changes which one was in force in the recent past);
  `ActiveOnlyMovesForward`; `NavHoldsUntilAnnouncedChange`;
  `PriceNeverFallsWithinVector`; `AdjustmentHoldsWhileActive` (neither time nor an
  eviction changes what the active vector is compared with).
- `Governance`: `ProposalIsCurrentBosses`, `RemovedAdminIsGone`,
  `RemovedApproverIsGone`.
- `TradeMath`: `FeeNeverExceedsAmount`, `SplittingSavesNoFee`,
  `SplittingBuysNoMore`, `RoundTripNeverProfits`.
- `Redemption`: `RequestedIsOpenTotal` (so `checked_sub` never blocks a refund),
  `VaultReconciles` (the vault holds exactly the locked tokens plus the net
  deposits less payouts, however mint control changes between creation and
  settlement), `NextIdIsFree`, `SettledOnce`, `KillSwitchFreezesUsers`.
- `Exchange`: `IntermediaryKeepsNothing`, `PermissionlessIsDirect` (each
  permissionless step is a step of `take_offer`), `PaymentCountsOnce`,
  `SupplyCapHolds` (of trades and `mint_to`; `fulfill_redemption_request` passes no cap).
- `Bridge`: `LedgerSpec` (the scripts with the chains implement `BridgeLedger`, under
  the mapping that sums balances by chain and takes what is burnt and not minted
  to be in flight); `DoneMeansMinted`; `LeftoverApprovalMeansUnfinishedRun`;
  `OnlyTheChainRefuses` (the accounts that the scripts
  name are enough for the client); `RunsEnd`.
- `Console`: `SentMeansLanded`; `DangerousNeedsConsent`; `PromptedNumberAsTyped`;
  `CopiedForTheBoss`; `SessionEnds`.
- `Upgrade`: `IntermediaryIsReady` (each offer finds both accounts of the permissionless
  authority), `UpgradeCompletes`.

**Bounds.** Three slots are the fewest with which the array can hold a
previous, an active and a future vector, so that the eviction must decide among
them and the array can be full. Five seconds let a fourth vector
arrive. Two admin slots show a hole and its reuse, three keys a boss, a
nominee and a bystander. Two requests per offer allow one to be open while
another settles, and two opposite offers are the fewest that contend for one
vault. Amounts and fees are chosen so that the fee rounds, up to the whole
amount; `MAX_BASIS_POINTS` is scaled to 4 or 5 for that. `MAX_REQUESTS`, `MAX_TIME`
and the widths are the only bounds in guards of the program's modules. The clock
is bounded, so behaviours end with time; deadlock is still checked there, since
the boss's instructions remain possible.

Two runs of a transfer script are what it takes to contend for a nonce, an
allowance or a wallet. `Funds` pays for one burn of 2 and not for two, or for two
of different size. `MaxRetries` is 2 in place of 40: a first poll, and one that is
the last. In `Console` one input per session is unusual, because parameters are
handled independently; two steps of other parties are one complete hand-over of
the boss role. `MaxBasisPoints` is 1, so that the typed values include ones beyond
it. In `Upgrade`, `MaxDiscards` lets the transactions of two scripts be lost, or
one's twice. Sessions, transfers and upgrades end, so deadlock is not checked in
these three.

**Fairness.** None is assumed of the program: each step is a transaction that
somebody chooses to send, or the price or the clock moving. What the code owes
its users is that an instruction is *possible*: `RepriceNeverBlocked`,
`NextIdIsFree` and `RedeemerCanCancel` say that.

The clients are processes, and weak fairness is assumed of them where the code or
its runtime drives the step. `Bridge`: a process that is alive takes its next step;
Ethereum mines what is next for a key, Solana lands or drops a transaction, the
service attests to a burn that is final. The version 2 loop polls without a bound
and so ends only because the service does. Nothing is assumed of
whoever delivers a message for a dead run, reclaims accounts or opens them.
`Console`: the operator answers a question, and `sendAndConfirmTransaction` returns
or throws, since a transaction's blockhash expires; nothing is assumed of landing.
`Upgrade`: operators go on printing and executing until the upgrade is done, and
lose transactions only finitely often.

## Findings

Four statements of the repository that its code does not keep; each has a run
that violates it.

- `LockedFundsCovered` (`create_redemption_request.rs:100`): the vault is shared and
  nothing reserves what requests have locked; withdrawals of the boss and payouts
  of the opposite offer spend it.
- `RedeemerCanCancel` (`cancel_redemption_request.rs:146`): cancelling needs a
  writable account equal to `state.redemption_admin`, which is the system program
  until the boss sets one.
- `KillSwitchAsAsked` (`cli/commands/state.ts:107`): `kill-switch --disable` enables
  the kill switch, as the implementation passes `enable: true` always.
- `BuildersResolve` (`utils/script-helper.ts:265`): the builders of
  `fulfillRedemptionRequest` and `cancelRedemptionRequest` name three accounts, from
  which the client cannot derive the rest; the two commands fail for every input.

## Proofs

All theorems hold for every value of the constants that meets the named
assumptions; the assumptions only say that the constants are what the code's
types make them.

- `OfferScheduleProofs` proves `TypeOK` and every property of the schedule, for any
  number of slots of at least two. `TypeOK /\ UniqueStartTimes` is inductive:
  `validate_inputs` makes a new start time exceed all others, and cleaning only
  empties slots, whole. The lemma about `LatestOf` (a latest slot exists, by well-founded
  induction on a set of integers) carries `RepriceNeverBlocked`, `HistoryKept` and
  `ActiveOnlyMovesForward`: after cleaning at the present second at most the previous
  vector is left of the past, which needs one slot of at least two; and a vector in
  force at a time from the start of the previous one on is never evicted.
  `AdjustmentHoldsWhileActive` follows, as the vector before the active one is the one
  in force a second before it started. The two properties of prices need that a
  vector's intervals are not empty, or the division by `price_fix_duration` means
  nothing, which `TypeOK` says, and four lemmas about quotients:
  that a quotient grows with its numerator makes both the end of the interval and
  the price grow, so a price that still fits at a later second fitted before; that
  it is the same within an interval makes the price hold until the announced change.
- `GovernanceProofs` proves `TypeOK`, `ProposalIsCurrentBosses`,
  `RemovedAdminIsGone` and `RemovedApproverIsGone`. The strengthening is that no
  admin is listed in two slots and no key is both approvers: removal clears one
  slot only.
- `TradeMathProofs` proves the four rounding properties from two facts about
  integer division (of a sum, and of a product), with no bound on amounts.
- `TokenProofs` holds what the two markets share. `Sound` ledgers have no negative
  balance, and the supply of a mint is what its holders hold. An operation that
  fails leaves a ledger without meaning, so the lemmas are about `Consistent`
  ledgers: sound unless an operation has failed. Each of `transfer_tokens`,
  `burn_tokens` and `mint_tokens` keeps a ledger consistent, a whole sequence is
  `ok` only if each operation was, and `Commit` makes a sound ledger of it. That
  supplies are totals is what allows a burn: the supply is at least what one
  owner holds.
- `ExchangeProofs` proves `TypeOK`, `PermissionlessIsDirect`, `PaymentCountsOnce`,
  `IntermediaryKeepsNothing` and `SupplyCapHolds`, and that supplies are always held.
  The inductive invariant is the types of offers, price and clock, the invariant of
  `GovernanceProofs` (a boss exists only with a declared mint), who may be the
  authority of a mint, and a sound ledger. One lemma, `ExecuteSpec`, says what
  `execute_token_operations` does to each balance and each supply and when it
  succeeds; the properties of trades are read off it.
- `RedemptionProofs` proves `TypeOK`, `RequestedIsOpenTotal`, `VaultReconciles`,
  `NextIdIsFree`, `SettledOnce`, `KillSwitchFreezesUsers` and that requests are
  distinct. The invariant bounds every open number by its offer's counter and says
  that an open request's offer exists, which is why `make_redemption_offer` never
  resets a counter in use; distinct numbers make a new request a new element of
  the set, without which neither total would grow by its amount. It adds a
  sound ledger, the pending totals of offers and of the vault, and that the set of
  open requests is finite.
- `BridgeProofs` proves `TypeOK`, `DoneMeansMinted`,
  `LeftoverApprovalMeansUnfinishedRun`, `OnlyTheChainRefuses` and that `Bridge`
  implements `BridgeLedger` (`LedgerSpec`), for any number of runs of any kinds. The
  invariant, beyond types: a nonce is in the mempool once for each key and not
  below the mined count; a run has at most one transaction out, the one its script
  waits for (`OneTransactionOut`); a good receipt is about that one, and nothing of
  the run is out any more (`ReceiptsAreCurrent`); a run whose burn executed is past
  sending it and has no burn out (`BurntOnce`); what is minted was attested and what
  is attested was burnt; an allowance is for a run that has not burnt yet, and is
  not above its amount (`AllowanceIsForABurn`). Without the second and the fourth a
  replaced or late transaction could burn twice; the last is stronger than the
  property, which speaks of unfinished runs. The fee of version 2 is covered by the
  burn because the messenger refuses a burn whose `maxFee` is not below its amount.
  The refinement reads the supplies off the balances and the transfers in flight off
  `burnt` and `minted`: an executed burn is a `Burn`, an executed or delivered mint a
  `Mint`, and every other step stutters.
- `ClientProofs` proves `SentMeansLanded`, `DangerousNeedsConsent`,
  `PromptedNumberAsTyped` and `CopiedForTheBoss` of `Console`, for any keys and any number
  of hand-overs. The properties speak of the end of a session, so the invariant says
  what is known at each `step` of it: how many questions have been answered with yes
  (`ConsentsCounted`), that the session is the one that was started, with at most one
  unusual input of the type that its parameter asks for (`SessionKnown`), that a
  transaction belongs to the session's builder and carries its number, and nothing is
  copied before the end (`TransactionKnown`), and that what was read as the boss, before
  any hand-over, is a boss of this session (`BossesKnown`). It rests on a fact about
  each of the registered commands, `GoodCommand`: it is confirmed exactly if what it
  builds is dangerous, its builder names the signer if the boss must sign, and its
  parameters have different names.
- `ClientProofs` also proves `IntermediaryIsReady` of `Upgrade`. The invariant adds that a
  printed transaction that makes an offer opens whatever accounts are missing
  (`OpensWhatIsMissing`): the script looked when it printed, and accounts are never
  closed. `Execute` says with ENABLED whether a transaction fails; the proof does not
  look inside, as the invariant holds either way.

The assumptions: `GovernanceAssumption` (the keys that the boss may name are keys, there is
an admin slot, caps are numbers), `LedgerAssumption` (finitely many owners, whose
first balances are numbers), `AuthorityAssumption` (keys own accounts, the program's
authority is no key, ONyc is a mint, amounts are u64), those of `Exchange` and
`Redemption` (vaults are no keys, an offer is between two mints, scales are positive,
amounts and prices are u64, fees are numbers: that they are at most 100 % is a guard),
and `BridgeAssumption` (a job has a kind, an amount and a fee; at least one poll).

Only model-checked, as liveness under fairness is out of the prover's reach:
`RunsEnd`, `SessionEnds` and `UpgradeCompletes`. Every other property of a passing run is
a theorem. The four expected violations are counterexamples that TLC finds.

## Not modelled

- `get_apy`, `get_tvl`, `get_circulating_supply`: read-only arithmetic.
- The Ed25519 instruction's position and bytes: a signed message is a record of
  approver, user and expiry. `initialize_permissionless_authority` stores a name.
- Token-2022 transfer fees: trades refuse such mints, redemptions do not check.
  Rent, account creation and token account addresses.
- Offers between a mint and itself.
- Promises the code does not make: `mint-authority to-boss` asks for an amount and
  drops it; a redemption is paid at the price and fee of its
  fulfilment, an approval may be used for any number of trades until it expires,
  and a vector that starts before its base time is in force without a price until
  then. The models do the same, and no property says otherwise.
- In the generated interfaces, the layouts of accounts, events and errors, and the
  instructions that nothing in the repository calls.
- `cli/utils/display.ts`, the reports of `vault_operations` and the smoke tests: they
  format or print; the values of `network-config.ts` and `load-env`.
- In `Console`, the effect of commands on accounts other than `State`: whether a
  trade or a redemption succeeds is the subject of `Exchange` and `Redemption`.
- In `Upgrade`, the other accounts that `take_offer` and `take_offer_permissionless`
  need: the offer vault's ONyc account and the boss's account of the stable coin.
  Neither `make_offer` nor a script creates them. The first vector of an offer comes
  with it in one transaction, and is in force without a price until its base time.
- In `Upgrade`, two copies of one transaction kept at a time: a second close
  transaction executed late would close the new account, and nothing in the
  scripts prevents it.

## Plan

Done: schedule and pricing, governance, arithmetic, ledger and mint authority,
redemptions, primary market; the interface and the builders, the console, the
cross-chain transfers with their abstract ledger, and the upgrade; the proofs above,
which cover every safety property of the passing runs.

Next:

1. A composition in which the schedule drives the price of both the market and
   the redemptions, with one ledger.
2. Transfer-fee mints in the redemption path.
