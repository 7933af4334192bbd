# A verification development for the Gora protocol contracts

The repository is a template for Algorand applications that use the Gora oracle. Its own core logic is
the oracle protocol in `src/template_content/protocol/assets`: PyTeal contracts through which a
requester pays for a question, node runners vote on the answer with a weight drawn from their stake,
and a contract of the requester's choice receives the answer that enough of them gave. This directory
holds TLA+ modules that model those contracts, TLC configurations that check them on small instances,
and theorems that TLAPS proves for instances of every size.

Paths below are relative to `src/template_content/protocol/` unless they start with `src/`.

## 1. Inventory

| component | source | state it keeps | operations | module |
|---|---|---|---|---|
| main contract: accounts and staking | `assets/main_approval.py`, `main_clear.py` | per account: stake array `ls`, stake time lock `ust`, key `pk` and its round `psts`, balances `at` `aa` `lt`; global: stake array `ts`, settings | opt in, clear, deposit, withdraw, stake, unstake, subscribe, (un)register key, update settings | `Accounts`, `StakeHistory` |
| main contract: requests | `assets/main_approval.py` | a box per open or completed request; fee sinks `af`, `tf` | request, refund, tally, status update, rewards and vote refunds | `Requests` |
| voting contracts | `assets/voting_approval.py` | round, current request, a box per proposal, a box per voter with its last vote | deploy, register, deregister, vote, delete box, reset vote | `Voting` |
| request lifecycle | the two contracts together | stage of one request box, its votes, what it owes | - | `RequestLifecycle` (abstract) |
| vote count sortition | `voting_approval.py:verify_vote_count`, `utils/gora_utils.ts:approxCDF`, `helpers/z_table.py` | none | compute a vote count from a VRF output, check a claimed one | `Sortition` |
| stake delegator | `assets/stake_delegator/` | per member: stake, what is not staked, last pending amount, rewards; global: aggregation round, pooled stake, pending sums, stake time | opt in, stake, unstake, claim, withdraw, aggregate, configure | `StakeDelegator` |
| vesting | `assets/vesting/` | a box per vestee and key hash, a list of delegators | vest, claim, stake to a delegator and back, list a delegator | `Vesting`, `DelegatedVesting` |
| default consumer and default app | `assets/default_consumer/`, `src/template_content/default_app/` | name of the box an answer goes to | send a request, receive its answer | not modelled |
| VRF logic signature | `assets/vote_verify_lsig.py` | none | verify a VRF proof | not modelled: cryptography |
| PyTeal helpers, clients, scripts, examples, template | `utils/`, `cli.ts`, `assets/transactions/`, `examples/` | none of the protocol's | assemble transactions | not modelled |

**How they interact.** Everything happens in atomic transaction groups, one after the other, in numbered
rounds (blocks). The main contract deploys voting contracts and is the creator that it later checks
callers for. A vote is a group of two calls: `claim_rewards_vote_verify` on the main contract settles the
voter's previous vote and adds the new vote count to the request's box; `vote` on the voting contract
reads stake and key from the main contract's local state, starts a voting round if it has to (an inner
call of `update_request_status` on the main contract), checks the vote count the voter claims, tallies,
and, when the tally reaches the threshold, calls the destination contract and has the request's box replaced by the winning proposal
(another inner call). A claim is a group of `claim_rewards` (main) and `reset_previous_vote` (voting).

A stake delegator is an account of the main contract that stakes for its members. Every method of it may
run an aggregation as its last (or first) part, in which it withdraws its rewards from the main contract
and stakes or unstakes the net of what is pending, all by inner calls. The vesting contract calls the
delegator's `stake` and `withdraw_non_stake` on behalf of a vestee, again by inner calls. Those two methods
and `unstake` have a parameter for the member they act for, and anybody may send them for any member; once
an application has staked or withdrawn for a member, others may unstake for it and do nothing else.

**What is hard.** There is no concurrency inside a group, but groups of many parties interleave freely
within a round and across rounds. The hazards, each with its line, are listed under `hazards` in
`PROJECT.json`; they are about

- *snapshots*: a vote reads the voter's stake now, for a request that recorded the total rounds ago;
  stakes change before, during and after that round;
- *voting twice*: with a rotated or a shared key, with moved stake, after the vote box was reset, for the
  same request in two voting contracts;
- *boundaries of time*: votes until the end of the time lock, refunds strictly after it, a new round of
  another request from its last round on, so that a request can be displaced while it is votable;
- *order of settlement*: rewards, refunds of fees, refunds of votes and box deposits are claimed by
  different parties in any order, long after the vote, from whatever box has the key by then;
- *money*: unsigned subtractions that reject a group, rewards that round down, a clear-state that throws
  a balance away, fees read from settings that may have changed;
- *progress*: a destination that rejects the answer, a requester or voter that cleared its state, a net
  amount that the main contract refuses;
- *late folding*: a delegator's members act in rounds of their own, long after the aggregation that moved
  their tokens, and the sums of the pool must agree with records that lag behind it;
- *transfers taken for granted*: the delegator and the vesting contract look at the asset and the amount of
  the transfer beside their call and not at its receiver;
- *one balance, two books*: vested tokens sit in the vesting contract's books and the delegator's;
- *integer arithmetic*: truncated quantiles, unsigned subtractions, and a client that computes the same
  thing in floating point.

**What makes each component correct.** Accounts: what accounts can show for a round sums to no more than
the total does; a snapshot never changes; balances are covered by the vault. Requests: a fee is refunded
or shared out, not both, and is always claimable. Voting: stake counts once per request; a request has
one voting contract; the book of a completed request balances. Whole: each request box follows the
request lifecycle and ends. Delegator: its stake is what the main contract holds for it and what its
members own, however late they act; what is on record is backed by tokens, but for what the code is known
to let through; a share of the rewards is a share. Vesting: claims keep to the schedule, the vault covers
the boxes with the same reservation, and what was lent to a delegator stays on record there. Sortition:
every draw counts, better draws count for no less, and both sides compute the same count.

## 2. Modules

| module | stands on | content |
|---|---|---|
| `Sums` | | the sum of a function over a finite set |
| `StakeHistory` | | the two-entry stake array as pure operators |
| `Accounts` | `StakeHistory` | the main contract as a bank; an action per method |
| `Requests` | `Accounts` | request boxes, fee sinks, refunds; settlement of a vote as operators |
| `Voting` | `Requests` | voting contracts; composes both contracts' part of the vote and claim groups |
| `RequestLifecycle` | | abstract specification of one request box |
| `Sortition` | | the vote count: the contract's check and the voter's computation |
| `StakeDelegator` | | the delegator with its account at the main contract |
| `Vesting` | | vesting boxes, claims, and the part of staking that is the vesting contract's |
| `DelegatedVesting` | `Vesting`, an instance of `StakeDelegator` | both contracts on one chain; a call on behalf of a vestee is one step of both |
| `MCAccounts`, `MCVoting`, `MCPool`, `MCVesting`, `MCSortition` | the modules above | constants, and reduced next-state relations where needed, for TLC |
| `SumsProofs` | `Sums` | the laws of sums that the proofs cite |
| `AccountsProofs`, `VotingProofs`, `StakeDelegatorProofs`, `StakeDelegatorSums`, `VestingProofs`, `SortitionProofs` | the modules above | theorems |
| `RewardsProofs` | `VotingProofs` | the theorems about the book of a completed request, the fees in the vault, and the refinement of the lifecycle |

An action is one transaction group (the whole handler with every inner call); a failed assert, an
unsigned underflow, a division by zero or a read of missing state rejects the group and is a guard. A
stake array `<<(r0, s0), (r1, s1)>>` is the record `[hist, cur]`. Boxes are functions from names to
records with a `NoBox` value. A box name (a hash of requester and key) is the pair itself, a request's
transaction id is a number in order of creation, and a vote hash is a request id with an answer, since
the response body contains the id. The vote count, an output of the sortition, is any element of
`VoteCount`. A destination either rejects every answer to requests of a key (`RejectingKey`) or none.
Faulty variants of a definition, next to it and named as such, serve only to show that a property
notices the fault.

Points where the translation is not obvious:

- `settings` are read when they are used, as the code does (fees at payout too).
- `ReadAsHistory` is the bit that the contract reads, not what it means: byte 96 of the box, which in a
  `RequestInfo` is inside `requester_algo_fee`.
- `MayStartRound` has the conjunct `req.app \in {None, v}` because `update_request_status` refers to the
  contract that the box names (`main_approval.py:357-361`) and, in the AVM version the contracts are
  compiled for (8), an inner call may refer to no application but those it lists: the voting contract
  itself. Release note 1.0.2 announces this ("invalid App reference").
- `LeaseGranted`: the chain refuses a second transaction of the same sender and lease until the first
  one's last valid round; the contract fixes lease and last valid round.
- `ClearState` drops local state whatever the clear program does: that is the chain's rule.
- In a vote the order is: settle the previous vote, tally on the box, start the round, check, record.
  `RequestAt` is the box after the settlement.

- In `StakeDelegator` a call works on three records: the pool as the method leaves it (`p`), the caller's
  account after `update_stake_time` (`Updated`), and both after the aggregation that may follow
  (`PostPool`, `PostAccounts`). `user_claim` aggregates first and folds after that; all other methods
  fold first. The guard of `assertActionTiming` compares the timestamp kept in the tracker with the
  number of the aggregation round (`ActionTiming`): it holds in every round but the first.
- `age` is the number of rounds since the aggregation started, capped one beyond the timeout;
  `Timestamp` stands for any timestamp, a number above every aggregation round.
- `stake` and `withdraw_non_stake` are two actions each, for the member itself and on behalf of it: the code
  has a branch for each. `caller` is `Global.caller_app_id()`, 0 (`TopLevel`) for a call that no
  application makes; `MayActFor` is the assertion on it. `unstake` on behalf of a member does the same as
  the member's own, without an assertion, so the action `Unstake` stands for both.
- A transfer that a contract does not check is an outcome, not a given: `arrives` is FALSE when the tokens
  went elsewhere, and the record is credited all the same (`TakeStake`, `VestTokens`). The payer of a
  member's own stake is taken to be the member; another payer changes wallets only.
- `RefundRequest(s, r)` lets any account `r` ask, since the contract compares the sender with the requester
  it is told and neither with the box; `ClaimRewards(v, a, payee)` pays any opted-in account.
- `WithdrawFromDelegator(s, returned)` is what the vesting contract does by itself. With the delegator that
  is modelled it is `WithdrawVested`; with `returned = 0` it is a call to an application that gives
  nothing, as neither the list nor the staking is looked up.
- The delegator's account at the main contract is `main`: its stake, the rounds until its stake may change
  again, and its rewards. `AboveMinimum` and `MainAccepts` are the guards of the main contract's `stake`
  and `unstake`, which `Accounts` models for any account.
- In `Sortition` the table's entries matter only by their order and the quantile by its place among them,
  so 2^63 is the constant `Half`. `NodeScore` is what the doubles of the client give, found by evaluating
  its formula at all 50 indexes: it falls one short at the three in `Short`.

**History variables.** Some things the properties speak of are in no variable of the code. `resumed` are the
requests that were displaced and taken up again; `unbacked` is what the delegator has on record without
tokens behind it; `lent` is what the vesting contract sent to delegators less what came back, and `short`
what its boxes promise with nothing behind it; `earned`, `paid`, `left`, `overdrawn` and `vestedTotal` sum
up what happened. No guard reads them, except that bounds of the exploration do (`MaxEarned`,
`MaxUnbacked`, `MaxVested`).

**Assumptions.** Groups are atomic and serialized. A vote's arguments belong together (body, box name and
requester of one request), as in the client code here, and so do the two calls of its group: `vote` rejects
a group whose preceding call is not the settlement of the same voter's own last vote
(`voting_approval.py:306-345`), so where a vote succeeds the action `Vote` is what both calls do. The main
contract makes no such check of the call that follows (`main_approval.py:823`); a settlement that no vote
follows is outside the model. The `GORACLE_DEV_*` compile flags are off. The contract is
not updated. Transaction fees, the algo lent to voting contracts and minimum balances are not tracked.
Amounts are naturals: with 10^19 base units in 64 bits, sums of the chain's whole supply do not
overflow, while every subtraction is guarded as in the AVM. Products that can overflow are guarded by
`MaxUint`: new rewards times stake time and rewards times the manager's share in the delegator
(`CanUpdate`, `CutFits`), amount times time elapsed in the vesting contract (`ProductFits`). Those of the
main and the voting contract multiply by percentages, thousandths, millionths or table scores; that they
overflow, for fees beyond 10^13 or stakes beyond 10^17 base units, is not modelled.

## 3. Runs

Passing runs (state counts are distinct states):

| run | states | question |
|---|---|---|
| `MCStaking` | 14 thousand | Do stakes shown for a round stay within the total, never change, and stay put for a time lock? `SnapshotsWithinTotal`, `SnapshotFrozen`, `StakeHeldForTimeLock` |
| `MCVote` | 48 thousand | Two requests, overlapping or in sequence, two voting contracts, a destination that rejects: `VotingTypeOK`, `RewardsBalanced`, `FeesCovered`, `SinksCoverRefunds`, `OneContractPerRequest`, `TallyWithinStake`, and the refinement `RequestsFollowLifecycle` |
| `MCParticipation` | 324 thousand | Keys and stakes change during a vote, and the destination rejects: `TallyWithinStake`, and the liveness `RequestsSettle` |
| `MCWhole` | 154 thousand | One account in every role, every operation, from the creation of the contract on: `TypeOK`, `FeesCovered` |
| `MCPool` | 276 thousand | A delegator with two members, calls on their behalf, deposits that do not arrive: `PoolMirrorsMain`, `StakeBelongsToMembers`, `PrincipalConserved`, `StakeTimeCovered`, `DepositsWait`, and the liveness `PendingSettles` |
| `MCVesting` | 215 thousand | Two boxes of one vestee, with a delegator, another member and callers on behalf of both: `VestingTypeOK`, `ClaimedWithinSchedule`, `VaultCoversBoxes`, `LentOnRecord` |
| `MCSortition` | 69 thousand | Every quantile, index and nine stakes: `EveryDrawCounts`, `BetterDrawCountsNoLess`, `VoterNearlyAgrees` |

Every property has a faulty variant of the modelled code that violates it (`mutants` in `PROJECT.json`).

**Bounds.** `MaxRound` is long enough for a request to be made, voted on in each round of its time lock
(2 rounds in the voting runs) and refunded after it, with a later request voted on after that
(7 rounds in `MCVote`);
`MCStaking` has five rounds with a time lock of one, so that two stake changes of one account fit, and
two accounts for changes of the total in one round. Two voters are enough for a tally by
different proposals and for first and last claims; two requests and two contracts for a request to be
displaced, to be taken up again or taken up by the other contract, and for a box name to be used again after
its first request. Vote counts 1 and 3 with a threshold of 66% of a committee of 4 give undecided,
decided-by-one and decided-by-two votes. `algoFee = 3` is not a multiple of a vote refund of 2, so that
the last refund is the rest of the fee. The voting runs start from `MCInit`, the state that opt-ins,
deposits, key registrations and stakes of rounds 1 to 3 lead to, to spend the bound on votes; `MCWhole`
starts from the creation of the contract. `NameSymmetry` permutes answers and voting contracts in
`MCVote`, `HashSymmetry` the two boxes in `MCVesting`, and `VoterSymmetry` voters that `MCInit` treats alike
in `MCDepositTwice`; runs with a liveness property have no symmetry. Deadlock is not checked: at the last round, and when money has
run out, nothing is left to do.

`MCPool` has three aggregation rounds: one to deposit in, one in which the deposit is staked and earns, one
to fold, unstake and claim in. Member `m1` manages the pool and has a cut of the rewards; `m2` may clear
its state. All amounts are 2, the minimum stake; wallets of 2 and 1, and up to 2 tokens that are on record
and did not arrive, give net deposits and withdrawals that the main contract takes and refuses, and an
aggregation that lacks the tokens. The manager's share is 500, 0 or 2000 thousandths. Calls on behalf of
members come from no application (`Caller = {0}`). `MCPoolShares`, which is to find a shortest trace, has
neither those nor missing tokens, and amounts 1 and 2.
`MCVesting` has two boxes under one vestee because the delegator keeps one vested amount for all of a
vestee's boxes; amounts of 2 over a time of 2 give a claim before, in the middle and after the schedule.
The callers are the vesting contract (7) and accounts (0); wallets are empty, so all tokens there are come
from the boxes.
`MCSortition` has the real table size and `max_z`, three quantiles between entries, so that each entry,
its neighbours and a quantile strictly between entries occur, and stakes on both sides of the values where
the root, and with it the deviation, jumps, one of them (12200000) with a deviation above 100, where a
score that is one short costs two votes. `MaxRound`, `MaxEarned`, `MaxPending`, `MaxVested`, `MaxTime`
and `MaxMean` are bounds of the exploration and not of the code.

**Restrictions that matter.** Nothing restricts the behaviours of `VotingSpec` but the reduced next-state
relations of the runs, and the theorems are about all of it. Three properties say for which requests they
hold, by way of the history variable `resumed`. The code lets another request displace one that is still
votable in its last round (`voting_approval.py:465` has `>=` where refunds have `<`). A request that is
displaced and left alone keeps to everything. One that is taken up again in that same round is tallied with
votes of a voting round that is over, whose voters can vote, and claim, twice over: its book can be
overdrawn (`MCDisplaced`), and as the tokens of all requests lie in one vault, others pay for it. So
`RewardsBalanced` and `RequestsFollowLifecycle` except the requests in `resumed`, and `FeesCovered` is
claimed until there is one. `MCVote` reaches such states, and the other properties hold in them. The balance
properties also need settings that do not change while requests are open, as fees are read when they are
paid out.

`PrincipalConserved` and `VaultCoversBoxes` are balances with an explicit gap. `unbacked` and `short` count
what the code lets on record without tokens (deposits and vested amounts that did not arrive, vested amounts
paid back that stay on a member's record, claims made again claimable by a staking), and the properties say
that there is no other way to open one. `StakeTimeCovered` is stated for members that unstake no more than
they have: `unstake` does not check that, and anybody may make it for a member. `PendingSettles` excludes
what the main contract refuses for its minimum stake, pools that paid rewards out of deposits (finding
`MCPoolShares`) or lack tokens that did not arrive, and a manager's cut of more than there is.
`LentOnRecord` says nothing once a vestee may clear its state.

**Fairness.** `ParticipationSpec` assumes that blocks keep being added (`WF_vars(Clock)`) and that a
requester whose refund is possible asks for it at last (`WF_vars(Refunding(s))`), which is what the release
notes ask of users ("refund creep"). Nothing is assumed of voters. `RequestsSettle` is about requests made early
enough to expire within `MaxRound`; with the clock stopped by the bound later ones cannot settle.
`FairSpec` of the delegator assumes rounds and that, as long as it is possible, some member calls
`manual_process_aggregation` at last: the method exists for this, any member may call it, and no other
call is assumed of anyone.

### Findings

Runs with `expect: violation` check what a note, a comment or an assertion of the repository says
against what the code does. `PROJECT.json` quotes the lines.

| run | what the trace shows |
|---|---|
| `MCDisplaced` | a request is displaced while it can be voted on, taken up again in the same round, and its winners may claim more than its box holds |
| `MCDepositTwice` | the box deposit is credited on completion and again with the last reward |
| `MCPoolShares` | a member that folds a deposit after two aggregations is credited more than the pool collected, as the deposit is taken off the divisor of its share too |
| `MCVestedTwice` | a vestee ends up with vested tokens in its own wallet, taken from the delegator past the vesting contract |
| `MCVoterCount` | at index 35 and a stake of 120500 the count of `approxCDF` is one off and the contract rejects the vote |

Further places where notes or comments and code differ, which the modules have as the code does it and no
run is about: a proposed request is refunded at `refund_request_made_percentage`, not at "10%"
(`release_notes.txt:50`, `main_approval.py:291`, `:317`); a refunded box whose voters claimed first is
never deleted (`release_notes.txt:43`, `main_approval.py:324`); rewards go by vote count, not by stake
(`release_notes.txt:95`, `main_approval.py:688`); `is_history` has the same index in
both tuples and not the same byte (`abi_types.py:33`, `main_approval.py:76`), so with an algo fee of 40000
a request that was just made is taken for a completed one; the contract does not ask for the closest table index (below
the median it takes any nearer the median, above it any farther from it), so the count a voter may claim is
not unique; below the
median a larger stake may count for fewer votes, since the deviation jumps where the root does.

Settlement finds the request of an old vote by the key in the box name alone, so a requester that uses a
key again also pays the vote refunds of its earlier, lapsed request out of the new fee. The model has
this behaviour (`BoxOf`, `Lapsed`), and the balance properties hold with it; no note speaks about it.

## 4. Proofs

A theorem holds for every value of the constants that satisfies the named assumptions of the modules
(`AmountAssumption`, `SettingsAssumption`, `VotingAssumption` and so on: amounts are naturals, the sets
of accounts, members, keys, answers and voting contracts are finite); what a theorem assumes beyond
these is in its `ASSUME`. Three kinds of hypothesis occur there, and each is about the manager or a table:
`FixedTimeLock` and `FixedFees` say that new settings leave the time lock, or the fees too, as they were,
`SoundFees` that no more than the fee is refunded and that `RefillFee` divides, and `EvenTable` that the
table's size divides 100 (the code's has 50 entries). No theorem restricts the behaviours: each is about the
whole specification of its module.

**Sums** (`SumsProofs`). Most of what could go wrong here is a sum that a change of one summand throws
off. `SumOver` is defined by a recursive choice function of the community modules, whose recursion is
shown to have a value by induction on cardinality with `WellFoundedInduction` (`SumsExist`). From it
follow the laws the other proofs cite: `SumRemove`, `SumInsert`, `SumChange`, `SumLeq`, `SumPlus`,
`SumPart`, `SumShift`, `SumFalls`.

**Accounts** (`AccountsProofs`).

- `TypeCorrect`: `Spec => []TypeOK`. `TypeOK` is inductive. As types are naturals, the content is that
  each unsigned subtraction is guarded where it is made.
- `SnapshotsFrozen`: `Spec => SnapshotFrozen`. Rests on `UpdatedKeepsSnapshots`, the fact about
  `update_stake` that makes two entries enough: after an update in round r the only round up to r that
  can still be read is r itself, and the historical entry is the stake at its start, whether or not the
  array was already written in r.
- `StakeHeld`: `Spec => []StakeHeldForTimeLock`, under `FixedTimeLock`. The property is about the
  historical entry and not inductive; `HeldInv` adds that the lock of a non-zero current entry reaches a
  time lock beyond its round, which is what makes the current entry fit to become historical.
- `SnapshotsWithin`: `Spec => []SnapshotsWithinTotal`. Accounts and total are written at different times,
  so what they show differs by who wrote when. `StakesInv` adds to the property that the members' current
  stakes sum to no more than the total's current one, and that no array is written ahead of the present
  round; the total is written in every round in which a member is.

**Votes and requests** (`VotingProofs`), about both contracts and the accounts.

- `VotingTypeCorrect`: `VotingSpec => []VotingTypeOK`; with it, no settlement, refund or claim draws a
  fee, a sink or a balance below zero.
- `OneContract`: `VotingSpec => []OneContractPerRequest`. The inductive `LedgerInv` says that request ids
  are distinct and in the past (`DistinctIds`), that proposals and current requests have ids of
  requests that were made, that a contract's current request agrees with the box it came from (`CurrentAgrees`), and that a box
  names the contract that holds proposals for it.
- `TallyWithin`: `VotingSpec => TallyWithinStake`, under `FixedTimeLock`. This is the theorem the protocol
  is about: no stake votes twice. The inductive `TallyInv` says that what is behind the proposals of a
  request, with what the accounts may still vote for it, stays within the total it recorded. A vote moves
  its stake from the one side to the other: the lease keeps the voter's key from voting again until the
  time lock is over, a change of key makes the account wait as long as any request made before, a clear
  or unstake leaves the snapshot or makes it unreadable, and what all accounts show when the request is
  made is within the total by `SnapshotsWithin`.
- `SinksCoverAll`: `VotingSpec => []SinksCoverRefunds`, under `FixedFees` and `SoundFees`. No refund is
  blocked. `SinksInv` adds that a refunded request is past its time lock, so no vote makes it refundable
  again (`NothingReopens`).

**Rewards** (`RewardsProofs`).

- `BooksBalance`: `VotingSpec => []RewardsBalanced`, under `FixedTimeLock`. A completed request that was not
  resumed pays each winner once and no more in all than it has, however votes, claims and settlements of
  several requests and keys interleave and whoever is paid. Until completion the book is the tally of a
  proposal, so the inductive part is about open requests (`VotesInv`): the proposals of a request that is
  not in `resumed` and the votes that voters keep for it are all of one voting round, also after another
  request displaced it, since nobody votes on it then, and a proposal's tally is at least the
  sum of the votes kept for it (`VotesCounted`). A new vote adds the same to both sides; a settlement or
  claim forgets one vote and takes no more from the book than that vote put in (`SettlingOld`,
  `VoteBalances`); every other action only forgets votes or boxes (`BooksGoOn`).
- `FeesAreCovered`: `VotingSpec => []FeesCovered`, under `FixedFees` and `SoundFees`.
  The vault holds what the accounts own and what the requests owe. Every balance is a summand of
  `Holding` and every debt of `Due`, and the inductive `FeesInv` says that the two sums are within the
  vault; each action moves tokens between them or into or out of the vault (`AccountsCovered`,
  `TokensMove`). Completion turns a debt of one fee into shares of it that are rounded down twice: they
  sum to no more than the fee (`RoundedShares`, `WinnersShare`), and this needs the book to balance. A
  claim or settlement pays no more than the request then owes less (`OwesLess`, `PaymentCovered`), to
  whatever account. The invariant speaks of states in which no request was resumed.
- `LifecycleImplemented`: `VotingSpec => RequestsFollowLifecycle`, under the same hypotheses. The mapping takes a box to its stage, the votes counted on it and the tokens owed for it. Steps that do
  not touch a box are stutters of it (`OthersFollow`); a settlement may change other boxes than the one
  voted on, so what may become of a box is stated once (`LifeKept`) and shown to be a step (`KeptFollows`).
  A vote is a proposal, a count or a completion (`VotedLife`, `VoteFollows`). `LifeInv` is `BooksInv`,
  `SinksInv` and that a contract is in the round of a request only when that was proposed (`Proposed`).

**Delegator** (`StakeDelegatorProofs`, `StakeDelegatorSums`), for any members, wallets, amounts, shares and
numbers of aggregation rounds.

- `DelegatorTypeCorrect`: `Spec => []TypeOK`. `TypeOK` is inductive. The argument follows a call: folding
  (`FoldTyped`, `ShareTyped`, `UpdateTyped`), then the aggregation (`CutTyped`, `AggregationTyped`,
  `CreditTyped`, `PostTyped`), then one lemma per method. A manager's cut of more than there is does not
  aggregate (`CutFits`): its share has no bound.
- `PoolMirrors`: `Spec => []PoolMirrorsMain`. Only an aggregation changes either side, and by the same net.
- `DepositsHaveWaited`: `Spec => DepositsWait`. The guard on timing does not give it; `FoldWaits` does: a
  fold in the round of the deposit would make the stake time negative, a subtraction the chain refuses.
- `BooksKept`: `Spec => []BooksInv`. The pool is aggregated in one call and the members follow when they
  act next, so its sums agree with the members' records only after what each of them has not folded yet.
  `BooksInv` says it of the folded records: stakes, pending amounts and stake time, and that the tokens at
  hand and at the main contract, with `unbacked`, are what is on record plus unpaid rewards (`Funded`).
  From it:
  `StakeBelongs` (`[]StakeBelongsToMembers`), `PrincipalIsConserved` (`[]PrincipalConserved`) and
  `StakeTimeIsCovered` (`[]StakeTimeCovered`).

**Vesting** (`VestingProofs`).

- `ScheduleKept`: `Spec => []ClaimedWithinSchedule`, with a delegator. The inductive invariant
  `ScheduleInv` says that each entry started and is claimed no further than its schedule; that time alone
  keeps it rests on the monotony of division (`DivMonotone`).
- `VaultCovers`: `Spec => []VaultCoversBoxes`. The inductive `VaultInv` is the property with the finiteness of
  the boxes: a claim takes off a box what it takes out of the vault, a box that is overwritten owes nothing
  any more, and a staking moves its amount from the vault to `lent` and what was claimed to `short`.
- `LentStaysOnRecord`: `Spec => []LentOnRecord`, about the two contracts together. The inductive `RecordInv`
  says more: what was lent is within what is on record under the vesting contract's own application
  (`OnRecord`). An application that acts for a member closes it to all other callers (`MayActFor`), the vesting
  contract's calls move both by the same amount, and a member's own calls leave the record as it is.
- `VestedStakeKept`: `Spec => []Pool!StakeBelongsToMembers`, the delegator's property in the composition. A
  step of the composition is a step of the delegator or leaves it alone, so the delegator's laws carry over:
  `Laws` is an instance of the delegator's proofs with the variables of the composition, and `PoolInv` its
  invariant.
- `VestingTypeCorrect`: `Spec => []VestingTypeOK`, for the vesting contract's variables.

**Sortition** (`SortitionProofs`), for every table, root and set of stakes.

- `SortitionTypeCorrect` and `DrawsCount`: below the median index 0 is always a way out, as its entry is
  the median and its deviation nothing; from the median on the last entry covers every quantile.
- `BetterDraws`: `Spec => []BetterDrawCountsNoLess`, about the fewest votes a draw is worth.
- `LookupNearlyAgrees`: `Spec => []VoterNearlyAgrees`, under `EvenTable`: the index the client finds is one
  the contract takes, and its count errs by no more than the one point of a score that floating point
  loses, hence towards the mean and by at most one for each begun hundred of the deviation. While the
  deviation is below 100 that is one vote.
- `OnlyShortScoresDiffer`: for the draws whose score is not short, the two counts are equal. The finding
  `MCVoterCount` has no other cause.

**Only model-checked.** Every invariant and action property that a passing run checks is proved, and the
refinement. Out of the prover's reach and left to TLC is liveness under fairness (`RequestsSettle`,
`PendingSettles`). Nothing is proved about the tables and the square root themselves, which are constants
with assumptions.

## 5. Not modelled

- The algo lent to voting contracts for transaction fees, their refills and minimum balances: a voting
  contract that cannot pay is a vote that is not made. `RefillFeeDefined` keeps the division in it.
- The default consumer and the default app: their one state is the name of the last request's box. An
  answer to an earlier request fails, as the box it would write is not among those the request listed; for
  the protocol that is a destination that rejects (`RejectingKey`).
- The algo rewards of a delegator (same code as the token rewards), its `register_participation_key` (a
  forwarded call), the algo deposits for vesting boxes and `optin_asset`.
- The VRF logic signature (cryptography), the PyTeal helpers that assemble transactions, the command line
  client and transaction builders, the examples, and the template's build files. Of the examples one thing
  was noted: the price predictor stores a choice in its ABI encoding and compares it with the raw outcome
  (`example_dapp_approval.py:127`, `:150`).
- Changed settings and cleared requesters while their requests are open: the actions are there
  (`UpdateProtocolSettings`, `ClearState`) and part of `MCWhole` for one account, but the books of rewards
  and fees are stated without them.
