# Parashield: a TLA+ development of the contracts

Parashield sells parametric insurance on Stellar Soroban. A customer buys a policy
from the **policy engine**; when the **oracle verifier** confirms the policy's trigger,
the **claims processor** makes the policy engine pay the coverage and the **risk pool**
release the capital that was locked behind it. A **governance DAO** votes beside them.
This directory holds TLA+ modules translated from the Rust sources under
`src/contracts/`, the TLC configurations that check them on small instances, and
theorems about them that TLAPS checks for every value of the constants.

Soroban executes one transaction at a time and reverts all of it on a panic, cross
contract calls included. So **one action is one entry point call**, with every call it
makes into another contract as conjuncts of the same action: a callee that would panic
disables the action. What makes the system hard is not threads but the order of calls
by different parties (customers, keepers, the admin, anyone), the clock between them,
state kept twice (in two contracts, or in a record and an index), and decisions that
are acted on later.

## 1. Inventory

| Component | State | Operations | Hard part | Correct when |
|---|---|---|---|---|
| Product catalogue (policy-engine) | products, `(category, key)` and name indexes, `ActiveProducts`, a count per category | create, pause, deprecate | repeated deprecation, a successor that reuses a key or a name | a product on sale owns its name and is listed once |
| Policies and escrow (policy-engine) | policies, per-user lists, USDC balance, cooling-off times, pause | buy (4 ways), cancel, transfer; `pay_claim`, `expire_policy` for the claims processor | one balance for all coverages and refunds; lists rewritten by five operations | money leaves only by settling one Active policy; refunds only shrink; lists exact |
| Claims (claims-processor) | claims, policy-to-claim index, pending queue, cooldowns, payout delay, dispute windows, deadlines, pause | submit, process, multi-reading process, `auto_process`, dispute, resolve, reject, escalate, payout, installments, settings | two creators of a claim; a decision paid later, disputed and turned round meanwhile; the lock released ahead of the settlement | queue and index exact; paid only if confirmed, after the delay, once; lock released with the settlement; lapsed cover freed in the end |
| Fraud detector (claims-processor) | history per claimant, flags | scoring inside submission | burst windows | refuses or flags only |
| Capital locks (risk-pool) | locks, running total, total deposited, ceiling, status | lock, two releases, capacity, pause, wind down | locks against a total that moves | total exact and never above what is held |
| LP side (risk-pool) | positions, shares, yield per share, exit queue, compounding, NFTs | deposit, withdraw, request/claim/cancel exit, sweep, claim yield, transfer, liquidate, premiums | share price under truncation; reservations against withdrawals; liquidation under locks | shares conserved; reserved shares stay; locked capital backed |
| Admin side (risk-pool) | withdrawal request and approvals, parameter change, guardians, reinsurance | request/approve/execute/cancel | timelock against approvals | nothing executes early or unapproved |
| Oracle verifier | oracles and weights, readings, medians, outlier and freshness settings | register, submit (plain, batch, encrypted), verify | stale, reordered and offline readings; even splits of weight | a trigger is confirmed only by fresh readings of enough active oracles |
| Oracle stake and reputation | stakes, withdrawal requests, stale counts | stake, request, withdraw, slash | withdrawal against slash | stake conserved, no withdrawal inside the challenge period |
| Governance DAO | proposals, votes, token locks, delegations, deposits, content hashes, quorum decay | propose, vote, batch vote, finalize, execute, veto, cancel, reclaim, delegate | locks over several proposals; delegation counted twice; timelock against veto | one vote per token; deposits returned once; nothing executes unpassed or early |
| Admin handover, guardians, upgrades (all contracts) | pending admin, approvals, timestamps | propose, approve, accept, cancel | 48 h timelock, guardian removal while approvals are pending | no handover without approval and delay |

How they interact: the claims processor calls `get_policy`, `get_product`, `pay_claim`
and `expire_policy` of the policy engine, `release_for_claim` and `release_for_expiry`
of the risk pool, and `verify_trigger_fresh` or `batch_verify_fresh` of the oracle
verifier. The policy engine calls none of the others: in particular it never locks
capital, so locks are taken by the admin. The DAO calls no other contract of the
protocol but for the delegated shares it reads from the risk pool and the targets of
its proposals, among which its own governance token may be.

## 2. Plan

Done: the policy engine and the claims processor with their refinements, the lock
ledger and the rest of the risk pool, its administration, the oracle verifier and the
DAO. What is left, in this order:

1. The composition of `PoolShares` with `ClaimsProcessor`: a settlement while
   liquidity leaves, under one clock. `PoolShares` already carries the locks, and
   `ClaimsProcessor` an arbitrary environment for them.
2. The composition of `OracleVerifier` with `ClaimsProcessor`: today the verdict is
   arbitrary, which is more than the verifier can do.
3. Administration of the other four contracts as instances of `PoolAdministration`,
   with the oracle rotation of the policy engine.
4. Violation runs for known divergences of section 5 that have none yet
   (`OnSaleSlotsUnique`; policies with a rejected claim that never expire).

## 3. Modules

| Module | Models | Notes |
|---|---|---|
| `VecBag` | soroban `Vec<u128>` id lists | a list is how often each id occurs; push adds one, removal of the first occurrence takes one off, so a double push would survive one removal as in the code |
| `ProductCatalogue` | `create_product`, `pause_product`, `deprecate_product` | an absent index entry is 0; the validation of a product's fields is abstracted |
| `PolicyBook` | the policy half of `policy-engine/src/lib.rs` | extends the catalogue; `BookSpec` lets any caller of `pay_claim` and `expire_policy` act at any time |
| `PoolLocks` | `lock_for_policy`, the releases, `set_capacity`, pool status | `LockSpec` lets any caller act |
| `ClaimsProcessor` | `claims-processor/src/lib.rs`, settlement and all that leads to it | extends both; `Settle`, `ClaimPayout` and `AutoProcessExpire` conjoin `PayClaim`, `ExpirePolicy` and `Release` |
| `CoveragePromise` | what a policy promises, abstractly | sold, then paid, refunded or lapsed, once; the fund moves with these steps alone |
| `PoolShares` | the LP side of `risk-pool/src/lib.rs` | extends `PoolLocks`, whose `totalDeposited` now moves; deposits, withdrawals, transfers, the exit queue and its sweep, premiums, emergency withdrawals, liquidations, reinsurance, the admin's transfers |
| `PoolAdministration` | who decides about the pool | guardians and their removal, upgrades, the handover of the admin, timelocked withdrawals and parameter changes |
| `Aggregation` | the outlier filter and the four aggregation methods | pure operators on a set of readings; what the code finds by sorting is said by rank and by the weight up to a value, so it can be proved about; values have the width of i128: averages saturate, in the order they are summed in, and medians panic |
| `OracleRegistry` | registrations, stake, challenge period, slashing, silent oracles | the half of `oracle-verifier/src/lib.rs` that says who reports |
| `OracleVerifier` | submissions, penalties, verdicts, reputations, settings | extends both; one action per submission and verification entry point |
| `AdaptiveQuorum` | quorum decay and the outcome of a tally | pure operators |
| `VotingPower` | tokens, delegation, checkpoints | delegation is two records that must agree |
| `Governance` | proposals, votes, locks, deposits, duplicates, execution | extends both |
| `MC*` | TLC instances | records a cfg cannot write; symmetry of users, LPs, contents and equal oracles |
| `SumTheorems` | sums over finite sets | lemmas the proofs share, section 6 |
| `*Proofs` | theorems | section 6 |

State and code: `policy[p]`, `claim[c]`, `lock[i]`, `product[g]` are the persistent
entries `Policy(id)`, `Claim(id)`, `Lock(policy_id)`, `Product(id)`; `listed`,
`activeProducts` and `queued` are `UserPolicies`, `ActiveProducts` and
`PendingClaims`; `policyClaim`, `autoLast`, `lastClaim`, `lastPurchase` and
`disputeDeadline` are the entries of those names; `windows` collects `ClaimDeadline`,
`DisputeWindow` and `EscalationThreshold`; `escrow` is the contract's token balance.
An absent `Option` is `NoTime`, `NoAmount` or 0. Every action keeps the name of its
entry point in CamelCase. The internal `Settle(c, cl, queue, met, bps)` receives the
record and the queue as the caller has prepared them, because `auto_process` may have
created both in the same transaction.

Definitions whose comment begins with "A bug" are mutated forms of the operation that
follows them; each shows that a property depends on that operation.

Abstractions that matter:

* The oracle's answer is arbitrary (met, not met, or no answer, which reverts the call).
  What is checked of settlement therefore holds whatever the oracles do.
* Authentication is the actor of the action. The keeper whitelist is not state.
* The four ways to buy differ in the start time; a batch is several purchases at one
  instant. A batch of claims of one customer fails on the cooldown, so submissions are
  single. `batch_process_claims` is a sequence of `process_claim`, and
  `batch_auto_process` calls the contract itself, which the host refuses.
* Every product expects the USDC the contract holds. A product with another
  `expected_token` would take premiums in one token and refund in another.
* Storage lifetimes, events, evidence, references and identity attestations do not
  influence a settlement and are left out.
* `total_deposited` is constant in `PoolLocks` alone; `PoolShares` moves it.
* In `PoolShares` a matured admin withdrawal is one action; how it matures is in
  `PoolAdministration`, which in turn takes the liquidity at that moment as an input.
  Variables the code does not have are marked in the modules (`slack`, what left the
  books by the admin's hand; `seized`; `spent`; `forfeited`; `removedAgain`; `early`): they only
  say in a property what has happened before.
* An oracle's readings of a key are a set, one per oracle, which is itself a property
  (`OneVoice`). Encrypted readings are readings without a value that is read. The cap
  of 100 readings per key lies above the number of oracles a type may have.
* A proposal's title and analysis do not matter; its target, function and arguments are
  one content. `proposal_content_hash` hashes the payloads of its `Val`s, which for a host
  object are handles of the invocation, so a content has a set of hashes (`HashesOf`) and
  each call that computes one finds any of them; a content whose name and arguments fit
  into their `Val`s has one hash of its own.
* The called target reverts or reports how much it completed. Of its effects those on the
  governance tokens the DAO holds are modelled (`Calls`): a `transfer` moves them, an
  `approve` lets its spender draw them later (`DrawAllowance`). `update_config` may name
  another token (`Tokens`), of which the holders then have what they have
  (`Distributions`); the DAO keeps the old one and pays with the new one.
  `finalize_batch` is a sequence of `finalize`.
* `Limit` stands for the largest i128. A batch may carry a value of that size, since
  `submit_data_batch` bounds none.
* In `PoolAdministration` a deadline is the time left to it, so no bound on the time is
  needed. A guardian list is a set of seats: `set_guardians` accepts an address twice.
  The hash an approval names is that of the pending upgrade.

## 4. Runs

Every run finishes in two minutes or less with two workers, but for `oracle`, which takes
two and a half. The bounds (`MaxTime`,
`MaxPolicies`, `MaxClaims`, `MaxProducts`, `MaxProposals`, `MaxActs`, `MaxSettings`,
`MaxApprovals`, `MaxScan`) stand in guards, so the runs stop at them: deadlock is not
checked, since the contracts may simply not be called.

| Run | Instance | Shows |
|---|---|---|
| `policy_book` | 2 products, 2 names, 1 key, a customer and an admin, 2 policies, time 0..4, two-day cover that may start late, a balance that may not hold a coverage | `BookInv`, `OnSaleOwnsName`, `ActiveListExact`, `ListedExactly`, `MoneyLeavesBySettlement`, `RefundOnlyShrinks` |
| `claims_one` | 2 interchangeable customers, 1 policy, 1 claim, delay 0 or 1, admin who rejects, releases and sets deadlines | `QueueExact`, `PaidOnlyIfConfirmed`, `DecidedMeansSettled`, `SettledReleasesLock`, `PayoutDelayHolds`, `ReleasedIsFrozen`, `KeepsPromise` |
| `claims_pair` | 1 customer, 2 policies, 2 claims; a pool of 7 for locks of 4, a balance that pays one coverage, an admin who also releases locks directly | `TypeOK`, `ClaimIndexExact`, `LockedTotalExact`, `NeverOverbooked` |
| `claims_live` | 1 policy, fair keeper, pauses, two settings of the windows, two ceilings, an installment plan | `LapsedIsFreed` |
| `governance` | 2 holders (one can afford two deposits, one can only vote), 2 proposals of 2 contents that may be equal: one with a hash of its own, one with two hashes that transfers a governance token of the DAO; time 0..3, 2 administrative acts, another configuration or another token, a decaying quorum, two ramps | `CustodyCovers`, `TallyBacked`, `DelegationSound`, `GuardLostOnlyToExpiry` |
| `governance_live` | 1 proposal of 3 contents: one calls the DAO itself, one transfers and one approves a governance token; a deposit that escalates, another token; time 0..4 | `CustodyCovers`, `LocksComeBack` |
| `pool_shares` | 2 interchangeable LPs, 1 lock of 3, deposits of 2 and 3, any 5 transactions, a withdrawal delay of 1 | `SharesExact`, `LocksCovered`, `Solvent`, `PriceKept` |
| `oracle` | 3 oracles (one as heavy as the other two), 3 data types, 1 key, any 3 transactions and one changed setting, time 2..4 | `TypeOK`, `RegistryExact`, `StakeBacked`, `ChallengeServed`, `OneVoice`, `WithinReadings`, `MinorityCannotMove` |
| `pool_administration` | an owner and 2 guardians, lists of 2 seats that both or one of them fill, thresholds 0..2, timelocks of 1 | `CommitteeSound`, `GuardiansHold`, `TransferCompletes` |
| `rejected_is_not_paid` | 1 policy, delay | violated, section 5 |
| `payout_is_its_share` | 1 policy, half payouts | violated, section 5 |
| `batch_tokens_stay_locked` | 2 holders, 2 proposals, as in `governance` | violated, section 5 |

Why these bounds are enough for the questions asked: the claim and payment properties
speak of one policy and its claim, and claims of different policies meet only in the
queue, the index, the balance and the pool, which `claims_pair` makes scarce with two.
Time 0..3 with covers, delays, windows and cooldowns of one unit reaches each side of
each comparison (before, at and after the end; inside and outside a window). Two
products are what it takes to reuse a name while the first owner is deprecated again.
Coverage 4 and half payouts distinguish the share from the whole; a premium over two
days passes through an intermediate refund on its way to none, and the balance lies
below and above a coverage depending on how many policies were sold.

For the DAO, two proposals are what a batch vote, a duplicate content and an escalating
deposit need, two holders what delegation needs; three or four units of time hold a
voting period, the timelock, the execution window and the reclaim timeout in turn. The
pool's amounts are chosen so that every division leaves a remainder (a price of a share that
is no integer, a premium that three parties do not share evenly), and five transactions
are a deposit of each LP, a premium or a lock, and two operations that interfere. Three
oracles of weights 4, 2 and 2 make every comparison of the median possible: an exact
half, a majority and a minority; readings have five values, one of them negative and one
the largest there is (`Limit`, 200000, far above what the other readings, weights and
scores multiply to), and are fresh, stale, late or early; a batch has at most two of
them, in either order. A reading at the limit of weight 2 or 4 saturates the averages
and, at an even split, makes the median panic. The
outlier filter starts at 3 readings in the code and at 2 in the run (`MinSample`), so
that samples with and without an outlier occur in three transactions. A removal that
must leave `MIN_GUARDIANS` needs one more; with the code's 2 it takes three guardians,
with the run's 1 it takes two and threshold 1.

Fairness. Claims (`FairSpec`): time passes, and a keeper calls `auto_process` on every
policy again and again (weak fairness of the whole call, in whichever of its outcomes).
The architecture document names the keeper as the one who drives policies to their end.
No verdict is ever forced, no customer and no admin is assumed to act. `LapsedIsFreed`
excuses the policies the code itself takes out of the keeper's hands, and instants so
late that the cooldown reaches past `MaxTime`. DAO: time passes, and whoever may have
tokens or a deposit back asks for them; nobody is assumed to finalize, veto or execute,
and `LocksComeBack` speaks of proposals whose windows end before `MaxTime`. It excuses a
DAO that holds less of the token it pays with than it owes (`Short`), which executed
proposals and a new token can bring about; a voter is then not paid whoever asks.
Administration: time passes, and a nominee whose wait is over accepts; the admin and the
guardians may do anything or nothing meanwhile.

## 5. Where code and comments disagree

Three runs end in a counterexample:

* `RejectedIsNotPaid`. Under a payout delay a claim is decided positively
  (`PartiallyPaid`, `payout_ready_at` set), disputed, re-queued and decided negatively.
  The record is `Rejected` and still carries `paid_amount` and `payout_ready_at`;
  `claim_payout` looks at these and not at the status, and pays.
* `PayoutIsItsShare`. `partial_payout_bps` changes `paid_amount` in the claim;
  `pay_claim` transfers the coverage of the policy.

* `BatchTokensStayLocked`. A batch vote locks its tokens under the first proposal; when
  that one is cancelled the tokens are withdrawn while the second still counts them.

Met on the way and listed as findings without a run of their own, each with the line it
quotes: in the claims processor, installments that move no money and can be collected
once, `ClaimResult::OracleUnavailable` that is never returned, a policy with a rejected
claim that never expires; in the policy engine, the premium formula and a transfer to
the admin; in the risk pool, a plain withdrawal beside the exit queue, the yield of a
compounding deposit, the ratio that wraps, what becomes of seized shares, the release for
a paid claim that leaves the price of a share alone, the transfers outside the timelock,
a threshold the admin can lower alone, a nominee who inherits another's wait; in the DAO, the quorum that leaves abstentions out, the configuration
that applies to open proposals and the governance token it replaces under them, the
duplicate guard that an expiry takes along or that hashes handles, the calls that
spend custodied tokens; in the oracle verifier, the stake that may be asked back before
a registration, the values of a batch that saturate the averages, the oracle that
cannot return, the second removal that frees an address, the reset of a stale count by
an empty batch, the two weightings of one value, the range that is half checked, the
consensus threshold nothing reads and the looser checks of encrypted readings.

Met without being anybody's claim: the cap on the threshold in
`approve_remove_guardian` is never in effect, because the approvals that meet a
threshold come from guardians who stay (`CommitteeSound`); an approved upgrade is not
compared with the version again; approvals of an upgrade or of a new admin survive
their guardian; `approve_admin_withdrawal` counts calls and not guardians.

## 6. Proofs

`CatalogueInv`, `BookInv`, `LockInv` and `ClaimsInv` are inductive, each relative to the
contract that owns the state; `Inv` is the conjunction of the last three.

* `SumTheorems`: what `SumFunctionOnSet` returns and how it changes when the set or the
  function changes in one place (`SumTakeOut`, `SumPutIn`, `SumUpdate`, `SumMonotone`,
  `SumAdd`, `SumScale`, `SumWhere`, `SumCovers`). The community modules define the sum by
  recursion on the set. The library's induction theorems cannot be applied here, because
  they take an operator; so that the recursion has one solution is proved by taking a
  smallest set for which it fails (`SmallestSubset`), and a statement about the first k
  steps of something by taking the least k for which it fails (`LeastIndex`,
  `StepByStep`). Every sum of the contracts (locks, shares, stakes, tokens, votes) rests on these lemmas.
* `PolicyBookProofs`: `CatalogueExact`: that a new product is listed once needs that it
  overwrites none that was listed (`ProductsInOrder`); that a deprecation leaves a
  successor's name alone is the comparison in `deprecate_product`. Then `BookInvariant`
  (`BookSpec => []BookInv`), `ListingExact`, `MoneyLeaves`, `RefundsShrink` (truncating
  division is monotone, `DivMonotone`, and the terms of an Active policy stay,
  `TermsStay`), `CatalogueHolds` (the policy engine implements the catalogue). Types
  alone are not inductive: that the balance stays non-negative after a refund needs that
  a refund lies between zero and the balance, hence that covers have a length by which
  the refund can divide (`CoverHasLength`); that a purchase creates a policy and
  overwrites none needs `SoldInOrder`.
* `PoolLocksProofs`: `LocksAreBacked`, from the guard of `lock_for_policy`; the proof
  needs that held amounts are natural numbers, so that a release only lowers the total.
  `LockedTotalIsTheLocksHeld`: the running total is the sum of the locks held, since a
  lock is taken for an id that holds none and released by an id that holds one.
* `PoolSharesProofs`: `PoolInvariant` and from it `SharesAddUp`, `LocksStayCovered` and
  `DepositsAndYieldAreBacked`; `PriceOnlyFallsToTheAdmin`, of each step. One transaction
  may settle several exits before or after what it was called for, so the invariant is
  stated of *books* (the record of totals, positions, requests and money): `Sound`
  (types, shares, reservations, yield) and `Covered`. Each operation on books keeps both and lowers no
  price; a sweep does so because each of the books between its settlements does
  (`LeastIndex`). `SharesExact` is
  inductive with the types of the books: that no position and no total goes below zero
  is each operation's own comparison, and that the burned shares never leave is
  `BurnedExist`. `LocksCovered` needs that what is locked is the sum of the locks, so that
  releasing one lowers it by what is released and no further, and its half about the
  USDC follows from `Solvent`: the balance is at least the books, up to what left off
  them. `Solvent`
  needs the yield of each position in units of the precision, less than one unit from
  what is paid (`SettledYield`, `FreshYield`), and a premium's parts add up to at most the
  premium (`PremiumParts`). The price is kept because what is redeemed and what is minted
  are both rounded down (`WorthBounded`, `MintedBounded`).
* `ClaimsProcessorProofs`: `Invariance` (`Spec => []Inv`), `TypeCorrect`,
  `ClaimsFiledOnce`, `SettlementsAgree` (with `OneClaimPerPolicy`, `PaymentsConfirmed` and
  `DecisionsSettled`, one property each), `PayoutsWait`, `ReleaseFreezes`, and
  `ImplementsBackends`: every step of the composition is a step of the policy engine and
  of the lock ledger or leaves it alone, so that what holds of each alone holds in the
  composition (`BackendsHold`). The four relations between claims and policies are
  inductive only together with the queue and index facts: `DecidedMeansSettled` for a
  policy paid by its own claim needs that no second claim points to it
  (`ClaimIndexExact`), and that again needs that ids are fresh (`ClaimsInOrder`). There
  is one lemma per entry point and in it one step per part of the invariant.
  `PromiseKept` (`Spec => KeepsPromise`) is the refinement. The mapping shows of a policy
  how far its status has come (`stageBar`), its terms (`termsBar`) and whether its claim
  was ever found met (`confirmedBar`). A payout by `claim_payout` needs that the claim
  that is paid is the one the policy points to (`ClaimIndexExact`), a refund that it
  lies between nothing and the premium (`DivShare`, on truncating division), an expiry
  only the comparison with the end. Which verdicts a step may move is one fact about
  the record it writes (`OneVerdict`), proved for records replaced and created.
* `GovernanceProofs`: `DelegationIsSound`, inductive with its types; that no chain forms
  is the pair of guards in `delegate` that looks at both records. `GuardIsKept`: for
  contents with one hash of their own, the guard's entry and the open proposals agree
  except behind an expiry, whatever the other contents hash to; the proof needs
  that an expired proposal stays so and records keep their content (`RecordsOK`), one
  lemma per kind of step (`QuietStep`, `ClearingStep`, `CreateKeeps`). `DecayIsBounded`,
  on the quorum alone. `CustodyIsCovered` and `TalliesAreBacked`, from `BooksInv`, which
  is `DelegationInv` with `DaoInv`: the balances of all governance tokens cover locks and
  deposits up to what executed proposals took (`spent`, which their transfers and what is
  drawn on their approvals raise, and nothing else), each tally is
  the sum of the vote records behind it (`VotesTallied`), and a vote counted for the
  voter alone weighs no more than the tokens he locked for it (`LoneVotesLocked`).
  `TallyBacked` speaks of totals and is not inductive: that a total is covered needs that
  each vote is, since votes and withdrawals change them one by one. Sums over proposals and
  holders change in one place per step, or, for a batch, in one place per proposal named.
* `OracleProofs`: `TypeCorrect`, `RegistryCorrect`, `ChallengeCorrect`, `VoiceCorrect`
  from one invariant of four parts. `RegistryExact` is inductive with types and the fact
  that an entry never made is the one `add_oracle` looks for. `ChallengeServed` speaks of
  requests made after a registration and is not inductive: it needs that an entry is made
  once per type (`NoReturn`), so that who waits for stake cannot report again. `OneVoice`
  needs that the stored reading of an oracle carries its newest timestamp, kept through
  each prefix of a batch.
  `StakesAreBacked`: what a submission takes from the stakes of its type is what it
  forfeits (`DeskMoney`), through each prefix of a batch. `ValuesStayWithinReadings` and
  `MajorityHoldsMedian`: of any sample, a non-empty finite set of readings with positive
  weights, the weighted median is a value between two readings, and so is each average if
  every value times the sum of the shares is an i128 (`SumsFit`): then no step saturates,
  in whatever order the readings are summed (`AccumulatedExact`), and a sum of products
  lies between the extremes times the shares (`AveragedBetween`). This is
  `AggregatesBetween`; the weighted median is also one between two readings of any majority
  (`MedianBetween`), and the outlier filter leaves some of a sample (`OutliersLeaveSome`).
  That what the contract combines is a sample is an invariant of its own (`SampleInv`):
  an active registration never has weight 0, reputations are no less than 0, settings
  keep their ranges and readings are numbers; that two readings are of two oracles, so
  that a weight counts once, is `OneVoice` again.
* `PoolAdministrationProofs`: `CommitteeIsSound` and `GuardiansAreHeld`, from an
  invariant of three independent parts: committee, handover, timelocks. That whoever
  approves a removal stays needs that `set_guardians` drops nobody. The size of a
  filtered list is a natural number by the library's theorems on finite sets.

The proofs assume what the named assumptions of the modules state: naturals where the
code has unsigned integers or positive amounts, finite sets of holders, providers,
oracles and data types (whoever ever called), that locks are asked for policy ids, and
that the shares burned at the first deposit are more than none. They hold for any number
of users, policies, claims, proposals and products, and for any times and amounts;
arithmetic is unbounded but in `Aggregation`, which is sound for the guards concerned
because the code checks its multiplications and the amounts are capped. Values of
readings are not capped, and `Aggregation` saturates and panics where the code does. A
batch of readings may have any length in the theorems; the runs use batches of at most two.

Every invariant and action property of the passing runs is stated by a theorem. Checked
by TLC only: the liveness properties `LapsedIsFreed`, `LocksComeBack` and
`TransferCompletes` (fairness and ENABLED are beyond the provers), and the three runs
that end in a counterexample.

## 7. Not modelled

Listed per component in `PROJECT.json`. In short:

* Administration of the policy engine, the claims processor, the oracle verifier and the
  DAO: the pattern is that of `PoolAdministration` without removals; the oracle rotation
  of the policy engine is planned.
* The fraud detector, which refuses or flags and decides nothing else; product category
  registries; expiry warnings.
* In the risk pool: fee tiers, the dynamic fee, `toggle_compound` (an input of
  `Deposit`), NFTs beyond their existence.
* In the oracle verifier: regional weights, temporal decay, confidence intervals and
  freshness reports (queries), `batch_verify_fresh` (a repetition of
  `verify_trigger_fresh`), the change of the stake token.
* In the DAO: comments, templates, the LP weight query that no vote adds, the
  guardians' approval of an upgrade.
* Storage lifetimes, events, migrations (empty in the code) and the deployment scripts.

The hazards no property covers are in `PROJECT.json` with the reason.
