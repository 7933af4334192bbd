--------------------------- MODULE StakeDelegator ---------------------------
(***************************************************************************)
(* The stake delegator: a contract that stakes for its members under one   *)
(* account of the main contract.  Members' deposits and withdrawals wait   *)
(* for the next aggregation, which nets them, stakes or unstakes the       *)
(* difference at the main contract and collects the rewards the votes      *)
(* earned.  No call is scheduled: whichever call comes after the timeout   *)
(* runs the aggregation within itself.  A member's deposit or withdrawal   *)
(* becomes part of its stake the next time this very member calls, and     *)
(* that call also works out its share of the rewards, from stake time:     *)
(* stake times the aggregation rounds it was held for.                     *)
(*                                                                         *)
(* Three calls have a form on behalf of a member, which anybody may send,  *)
(* directly or from an application such as the vesting contract.           *)
(*                                                                         *)
(* The algo rewards follow the same code as the token rewards, with the    *)
(* same divisor, and are not kept apart.  Of the main contract only the    *)
(* delegator's own account is kept (module Accounts has all of it).        *)
(***************************************************************************)
EXTENDS Sums

CONSTANTS
    Member,           \* accounts that may opt in to the delegator
    Leaver,           \* the members that may clear their local state
    Manager,          \* the members that may be its manager
    FirstManager,     \* manager_address given to init_app
    FirstShare,       \* manager_gora_share given to init_app, in thousandths
    ManagerShare,     \* the shares configure_settings may choose
    Caller,           \* Global.caller_app_id() of calls on behalf of members
    Timeout,          \* goracle_timeout: rounds an aggregation round lasts
    MinimumStake,     \* of the main contract
    TimeLock,         \* of the main contract: rounds a stake change locks
    Timestamp,        \* any Global.latest_timestamp(): above every round
    MaxUint,          \* the largest uint64
    InitialToken,     \* tokens in each member's wallet at the start
    Amount,           \* amounts that are staked and unstaked
    Reward,           \* amounts that votes earn
    MaxRound,         \* bound: aggregation rounds explored
    MaxEarned,        \* bound: tokens the votes earn
    MaxPending,       \* bound: withdrawals pending at once
    MaxUnbacked       \* bound: tokens credited that did not arrive

VARIABLES
    age,              \* Global.round() - aggregation_round_start, capped
    pool,             \* the delegator's global state and token balance
    optedIn,          \* members that hold local state
    acct,             \* local state of each member
    main,             \* the delegator's account at the main contract
    wallet,           \* tokens the members hold themselves
    earned,           \* history: tokens ever earned by votes
    paid,             \* history: rewards ever paid to members
    left,             \* history: what members left behind as they cleared
    overdrawn,        \* history: some member unstaked more than its stake
    unbacked          \* history: what is on record without tokens behind it

history == <<earned, paid, left, overdrawn, unbacked>>
vars == <<age, pool, optedIn, acct, main, wallet, history>>

ASSUME DelegatorAssumption ==
    /\ IsFiniteSet(Member)
    /\ Leaver \subseteq Member /\ Manager \subseteq Member /\ FirstManager \in Manager
    /\ ManagerShare \subseteq Nat /\ FirstShare \in Nat
    /\ Timeout \in Nat /\ TimeLock \in Nat /\ MinimumStake \in Nat
    /\ MaxRound \in Nat /\ MaxEarned \in Nat /\ MaxPending \in Nat /\ MaxUint \in Nat
    /\ MaxUnbacked \in Nat
    /\ Timestamp \in Nat /\ Timestamp > MaxRound + 1
    /\ InitialToken \in [Member -> Nat]
    /\ Amount \subseteq Nat /\ Reward \subseteq Nat

-----------------------------------------------------------------------------
\* The caller of a call that no application makes
TopLevel == 0

\* The type of the records.  time is execution_time: 0 until the member's
\* first action, 1 until the first aggregation, then a timestamp.
Trackers == [time : Nat, rewards : Nat, amount : Nat, isStake : BOOLEAN]
AccountRecords == [last : Nat, stake : Nat, rewards : Nat, nonStake : Nat,
                   tracker : Trackers, vested : Nat, app : Caller \cup {TopLevel}]
PoolRecords == [round : Nat, time : Nat, rewards : Nat, stakeTime : Nat,
                stake : Nat, deposits : Nat, withdrawals : Nat, tokens : Nat,
                manager : Manager, share : Nat]
MainRecords == [stake : Nat, lock : Nat, token : Nat]

\* The defaults of the local state, as opt_in leaves them in this round
Fresh(round) ==
    [last |-> round, stake |-> 0, rewards |-> 0, nonStake |-> 0,
     vested |-> 0, app |-> TopLevel,
     tracker |-> [time |-> 0, rewards |-> 0, amount |-> 0, isStake |-> FALSE]]

\* create and init_app, which also opts in to the main contract
Init ==
    /\ age = 0
    /\ pool = [round |-> 1, time |-> 1, rewards |-> 0, stakeTime |-> 0,
               stake |-> 0, deposits |-> 0, withdrawals |-> 0, tokens |-> 0,
               manager |-> FirstManager, share |-> FirstShare]
    /\ optedIn = {}
    /\ acct = [m \in Member |-> Fresh(0)]
    /\ main = [stake |-> 0, lock |-> 1, token |-> 0]
    /\ wallet = InitialToken
    /\ earned = 0
    /\ paid = 0
    /\ left = [stake |-> 0, principal |-> 0]
    /\ overdrawn = FALSE
    /\ unbacked = 0

-----------------------------------------------------------------------------
(***************************************************************************)
(* What a call does to the caller's account.                               *)
(***************************************************************************)

\* update_local_aggreagtion_tracker
Tracked(p, amount, isStake) ==
    [time |-> p.time, rewards |-> p.rewards, amount |-> amount,
     isStake |-> isStake]

\* assertActionTiming compares the TIME of the tracked aggregation with the
\* current aggregation ROUND
ActionTiming(p, a) == a.tracker.time # 0 => a.tracker.time # p.round

\* handle_pending: an account's last amount becomes part of its stake, or
\* leaves it.  The subtractions are unsigned.
HasTracker(a) == a.tracker.time # 0
Deposited(a) == IF HasTracker(a) /\ a.tracker.isStake THEN a.tracker.amount ELSE 0
Withdrawn(a) == IF HasTracker(a) /\ ~a.tracker.isStake THEN a.tracker.amount ELSE 0
CanFold(a) == Deposited(a) <= a.nonStake /\ Withdrawn(a) <= a.stake
FoldedStake(a) == a.stake + Deposited(a) - Withdrawn(a)
NonStakeKept(a) == a.nonStake + Withdrawn(a)     \* faulty: a deposit stays in
FoldedNonStake(a) == a.nonStake - Deposited(a) + Withdrawn(a)
TrackerKept(p, a) == a.tracker                   \* faulty: folded once more
FoldedTracker(p, a) ==
    IF HasTracker(a) THEN Tracked(p, 0, FALSE) ELSE a.tracker

\* What is the member's own, staked or not
Principal(a) == a.stake + a.nonStake

\* Faulty form: a deposit counts from the round it was made in
StakeTimeAtOnce(p, a) == FoldedStake(a) * (p.round - a.last)

\* calculate_rewards: stake times rounds, less the round a deposit waited
StakeTime(p, a) == FoldedStake(a) * (p.round - a.last) - Deposited(a)

\* Rewards collected since this account last worked out its share
NewRewards(p, a) == IF p.round = 1 THEN 0 ELSE p.rewards - a.tracker.rewards

Share(p, a) ==
    IF p.stakeTime > Deposited(a)
    THEN (NewRewards(p, a) * StakeTime(p, a)) \div (p.stakeTime - Deposited(a))
    ELSE 0

\* reset_global_stake_time
Spent(p, a) == [p EXCEPT !.stakeTime = @ - StakeTime(p, a)]

\* Faulty form: the stake is not compared with what is taken off it
CanUpdateOverdrawn(p, a) ==
    /\ NewRewards(p, a) >= 0
    /\ 0 <= StakeTime(p, a) /\ StakeTime(p, a) <= p.stakeTime

\* The unsigned subtractions of update_stake_time and below, and the product
\* that must fit a uint64
CanUpdate(p, a) ==
    /\ CanFold(a)
    /\ NewRewards(p, a) >= 0
    /\ 0 <= StakeTime(p, a) /\ StakeTime(p, a) <= p.stakeTime
    /\ p.stakeTime > Deposited(a) => NewRewards(p, a) * StakeTime(p, a) <= MaxUint

\* update_stake_time
Updated(p, a) ==
    [a EXCEPT !.stake = FoldedStake(a),
              !.nonStake = FoldedNonStake(a),
              !.tracker = FoldedTracker(p, a),
              !.rewards = @ + Share(p, a),
              !.last = p.round]

-----------------------------------------------------------------------------
(***************************************************************************)
(* process_aggregation, on the pool p as the calling method left it.  The  *)
(* main contract's account is not touched by the methods themselves.       *)
(***************************************************************************)

NetDeposit(p) == IF p.deposits > p.withdrawals THEN p.deposits - p.withdrawals ELSE 0
NetWithdrawal(p) == IF p.withdrawals > p.deposits THEN p.withdrawals - p.deposits ELSE 0

\* stake and unstake of the main contract, sent by the delegator: what would
\* leave less than the minimum is refused, and so is any change while the
\* last one is locked
AboveMinimum(p) ==
    /\ NetDeposit(p) > 0 => main.stake + NetDeposit(p) >= MinimumStake
    /\ NetWithdrawal(p) > 0 =>
          /\ NetWithdrawal(p) <= main.stake
          /\ \/ main.stake - NetWithdrawal(p) >= MinimumStake
             \/ main.stake = NetWithdrawal(p)
MainAccepts(p) ==
    /\ NetDeposit(p) + NetWithdrawal(p) > 0 => main.lock = 0
    /\ AboveMinimum(p)

\* goracle_claim: all the rewards are withdrawn from the main contract, and
\* the manager has its cut of them if it is a member too
ManagerCut(p) ==
    IF p.manager \in optedIn THEN (main.token * p.share) \div 1000 ELSE 0
Credited(p, accts) ==
    [accts EXCEPT ![p.manager].rewards = @ + ManagerCut(p)]

\* A share may be any number: the product must fit a uint64, and a cut beyond
\* what was ever collected fails the unsigned subtraction
CutFits(p) ==
    /\ p.manager \in optedIn => main.token * p.share <= MaxUint
    /\ ManagerCut(p) <= p.rewards + main.token

CanAggregate(p) ==
    /\ p.round < MaxRound
    /\ CutFits(p)
    /\ MainAccepts(p)
    /\ NetDeposit(p) <= p.tokens + main.token
    /\ NetWithdrawal(p) <= p.stake

\* Faulty form: what a net withdrawal moves is not booked
AggregatedGross(p) ==
    [p EXCEPT !.round = @ + 1, !.time = Timestamp,
              !.rewards = @ + main.token - ManagerCut(p),
              !.tokens = @ + main.token - NetDeposit(p) + NetWithdrawal(p),
              !.stake = @ + NetDeposit(p),
              !.stakeTime = @ + p.stake,
              !.deposits = 0, !.withdrawals = 0]

\* Faulty form: what was deposited pends again
AggregatedAgain(p) ==
    [p EXCEPT !.round = @ + 1, !.time = Timestamp,
              !.rewards = @ + main.token - ManagerCut(p),
              !.tokens = @ + main.token - NetDeposit(p) + NetWithdrawal(p),
              !.stake = @ + NetDeposit(p) - NetWithdrawal(p),
              !.stakeTime = @ + p.stake - NetWithdrawal(p),
              !.withdrawals = 0]

\* A net deposit counts from the next aggregation on, a net withdrawal at once
Aggregated(p) ==
    [p EXCEPT !.round = @ + 1, !.time = Timestamp,
              !.rewards = @ + main.token - ManagerCut(p),
              !.tokens = @ + main.token - NetDeposit(p) + NetWithdrawal(p),
              !.stake = @ + NetDeposit(p) - NetWithdrawal(p),
              !.stakeTime = @ + p.stake - NetWithdrawal(p),
              !.deposits = 0, !.withdrawals = 0]

MainAfter(p) ==
    [stake |-> main.stake + NetDeposit(p) - NetWithdrawal(p),
     lock |-> IF p.deposits = p.withdrawals THEN main.lock ELSE TimeLock + 1,
     token |-> 0]

\* post_action_update: Global.round() - aggregation_round_start > goracle_timeout
Due == age > Timeout

CanPost(p) == Due => CanAggregate(p)
PostPool(p) == IF Due THEN Aggregated(p) ELSE p
PostAccounts(p, accts) == IF Due THEN Credited(p, accts) ELSE accts
PostMain(p) ==
    /\ main' = IF Due THEN MainAfter(p) ELSE main
    /\ age' = IF Due THEN 0 ELSE age

-----------------------------------------------------------------------------
(***************************************************************************)
(* The calls.                                                              *)
(***************************************************************************)

\* opt_in: last_update_time of the caller is the current aggregation round
OptIn(m) ==
    /\ m \notin optedIn
    /\ optedIn' = optedIn \cup {m}
    /\ acct' = [acct EXCEPT ![m] = Fresh(pool.round)]
    /\ UNCHANGED <<age, pool, main, wallet, history>>

\* A clear-state transaction: the chain drops the local state
ClearState(m) ==
    /\ m \in optedIn \cap Leaver
    /\ optedIn' = optedIn \ {m}
    /\ acct' = [acct EXCEPT ![m] = Fresh(0)]
    /\ left' = [stake |-> left.stake + FoldedStake(acct[m]),
                principal |-> left.principal + Principal(acct[m])]
    /\ UNCHANGED <<age, pool, main, wallet, earned, paid, overdrawn, unbacked>>

\* The transfer in the group of a stake.  Its receiver is not checked: the
\* tokens arrive, or they stay with the payer.
Transfer(payer, amount, arrives) ==
    /\ amount <= wallet[payer]
    /\ wallet' = IF arrives THEN [wallet EXCEPT ![payer] = @ - amount] ELSE wallet

\* What every stake does: the older amount of m is folded, the new one is
\* tracked and pends whether or not it arrived, the aggregation may be due.
\* vestedNow and app are what vesting_tracker comes to say.
TakeStake(m, amount, vestedNow, app, arrives) ==
    LET a == acct[m]
        moved == IF arrives THEN amount ELSE 0
        p == [Spent(pool, a) EXCEPT !.deposits = @ + amount,
                                    !.tokens = @ + moved]
        b == [Updated(pool, a) EXCEPT !.nonStake = @ + amount,
                                      !.tracker = Tracked(pool, amount, TRUE),
                                      !.vested = @ + vestedNow, !.app = app]
    IN  /\ m \in optedIn
        /\ arrives \/ unbacked + amount <= MaxUnbacked
        /\ ActionTiming(pool, a)
        /\ CanUpdate(pool, a)
        /\ CanPost(p)
        /\ pool' = PostPool(p)
        /\ acct' = PostAccounts(p, [acct EXCEPT ![m] = b])
        /\ PostMain(p)
        /\ unbacked' = unbacked + (amount - moved)
        /\ UNCHANGED <<optedIn, earned, paid, left, overdrawn>>

\* stake
Stake(m, amount, arrives) ==
    /\ TakeStake(m, amount, 0, acct[m].app, arrives)
    /\ Transfer(m, amount, arrives)

\* Faulty form: whoever calls may act for m
MayActForAny(m, caller) == TRUE

\* An account that one application acted for is closed to the others
MayActFor(m, caller) == acct[m].app \in {TopLevel, caller}

\* stake on behalf of m.  An application stakes its own tokens.
StakeVested(m, amount, caller, arrives) ==
    /\ MayActFor(m, caller)
    /\ TakeStake(m, amount, amount, caller, arrives)
    /\ IF caller = TopLevel
       THEN \E payer \in Member : Transfer(payer, amount, arrives)
       ELSE UNCHANGED wallet

\* unstake, by the member or by anybody on its behalf: the amount is compared
\* with the stake only when it is folded
Unstake(m, amount) ==
    LET a == acct[m]
        p == [Spent(pool, a) EXCEPT !.withdrawals = @ + amount]
        b == [Updated(pool, a) EXCEPT !.tracker = Tracked(pool, amount, FALSE)]
    IN  /\ m \in optedIn
        /\ p.withdrawals <= MaxPending
        /\ ActionTiming(pool, a)
        /\ CanUpdate(pool, a)
        /\ CanPost(p)
        /\ pool' = PostPool(p)
        /\ acct' = PostAccounts(p, [acct EXCEPT ![m] = b])
        /\ PostMain(p)
        /\ overdrawn' = (overdrawn \/ amount > FoldedStake(a))
        /\ UNCHANGED <<optedIn, wallet, earned, paid, left, unbacked>>

\* user_claim: here the aggregation comes first, the share after it
UserClaim(m) ==
    LET p == PostPool(pool)
        accts == PostAccounts(pool, acct)
        a == accts[m]
        due == Updated(p, a).rewards
    IN  /\ m \in optedIn
        /\ CanPost(pool)
        /\ CanUpdate(p, a)
        /\ due <= p.tokens
        /\ pool' = [Spent(p, a) EXCEPT !.tokens = @ - due]
        /\ acct' = [accts EXCEPT ![m] = [Updated(p, a) EXCEPT !.rewards = 0,
                                            !.tracker = Tracked(p, 0, FALSE)]]
        /\ PostMain(pool)
        /\ wallet' = [wallet EXCEPT ![m] = @ + due]
        /\ paid' = paid + due
        /\ UNCHANGED <<optedIn, earned, left, overdrawn, unbacked>>

\* withdraw_non_stake, for the member itself: all that is not staked, except
\* what is vested.  The record goes to zero.
WithdrawNonStake(m) ==
    LET a == acct[m]
        p == Spent(pool, a)
        accts == PostAccounts(p, [acct EXCEPT ![m] = Updated(pool, a)])
        due == accts[m].nonStake - a.vested
    IN  /\ m \in optedIn
        /\ ActionTiming(pool, a)
        /\ CanUpdate(pool, a)
        /\ CanPost(p)
        /\ 0 <= due /\ due <= PostPool(p).tokens
        /\ pool' = [PostPool(p) EXCEPT !.tokens = @ - due]
        /\ acct' = [accts EXCEPT ![m].nonStake = 0]
        /\ PostMain(p)
        /\ wallet' = [wallet EXCEPT ![m] = @ + due]
        /\ unbacked' = unbacked - a.vested
        /\ UNCHANGED <<optedIn, earned, paid, left, overdrawn>>

\* withdraw_non_stake on behalf of m: the vested amount goes to the caller,
\* whether or not it was unstaked, and what is not staked keeps its value
WithdrawVested(m, caller) ==
    LET a == acct[m]
        p == Spent(pool, a)
        accts == PostAccounts(p, [acct EXCEPT ![m] = Updated(pool, a)])
    IN  /\ m \in optedIn
        /\ MayActFor(m, caller)
        /\ ActionTiming(pool, a)
        /\ CanUpdate(pool, a)
        /\ CanPost(p)
        /\ a.vested <= PostPool(p).tokens
        /\ pool' = [PostPool(p) EXCEPT !.tokens = @ - a.vested]
        /\ acct' = [accts EXCEPT ![m].vested = 0, ![m].app = caller]
        /\ PostMain(p)
        /\ IF caller = TopLevel
           THEN \E sender \in Member : wallet' = [wallet EXCEPT ![sender] = @ + a.vested]
           ELSE UNCHANGED wallet
        /\ unbacked' = unbacked + a.vested
        /\ UNCHANGED <<optedIn, earned, paid, left, overdrawn>>

\* manual_process_aggregation; before the timeout it changes nothing
ManualProcessAggregation(m) ==
    /\ m \in optedIn
    /\ Due /\ CanAggregate(pool)
    /\ pool' = Aggregated(pool)
    /\ acct' = Credited(pool, acct)
    /\ PostMain(pool)
    /\ UNCHANGED <<optedIn, wallet, history>>

\* configure_settings
ConfigureSettings(sender, manager, share) ==
    /\ sender = pool.manager
    /\ pool' = [pool EXCEPT !.manager = manager, !.share = share]
    /\ UNCHANGED <<age, optedIn, acct, main, wallet, history>>

-----------------------------------------------------------------------------
(***************************************************************************)
(* What happens around the delegator.                                      *)
(***************************************************************************)

\* A block is added to the chain.  Rounds past the timeout make no difference.
NextRound ==
    /\ age' = IF age <= Timeout THEN age + 1 ELSE age
    /\ main' = [main EXCEPT !.lock = IF @ > 0 THEN @ - 1 ELSE 0]
    /\ UNCHANGED <<pool, optedIn, acct, wallet, history>>

\* Votes with the delegator's stake are rewarded at the main contract
EarnRewards(amount) ==
    /\ main.stake > 0
    /\ earned + amount <= MaxEarned
    /\ main' = [main EXCEPT !.token = @ + amount]
    /\ earned' = earned + amount
    /\ UNCHANGED <<age, pool, optedIn, acct, wallet, paid, left, overdrawn, unbacked>>

MemberStep(m) ==
    \/ OptIn(m)
    \/ ClearState(m)
    \/ UserClaim(m)
    \/ WithdrawNonStake(m)
    \/ ManualProcessAggregation(m)
    \/ \E amount \in Amount :
          Unstake(m, amount) \/ \E arrives \in BOOLEAN : Stake(m, amount, arrives)
    \/ \E b \in Manager, share \in ManagerShare : ConfigureSettings(m, b, share)

\* Whoever calls on behalf of m, but for unstake
BehalfStep(m, caller) ==
    \/ \E amount \in Amount, arrives \in BOOLEAN : StakeVested(m, amount, caller, arrives)
    \/ WithdrawVested(m, caller)

Next ==
    \/ NextRound
    \/ \E amount \in Reward : EarnRewards(amount)
    \/ \E m \in Member : MemberStep(m)
    \/ \E m \in Member, caller \in Caller : BehalfStep(m, caller)

Spec == Init /\ [][Next]_vars

\* Rounds pass whoever calls, and as long as there is a member one of them
\* calls manual_process_aggregation, which any member may
FairSpec ==
    /\ Spec
    /\ WF_vars(NextRound)
    /\ WF_vars(\E m \in Member : ManualProcessAggregation(m))

-----------------------------------------------------------------------------
\* The type invariant
TypeOK ==
    /\ age \in 0..(Timeout + 1)
    /\ pool \in PoolRecords
    /\ optedIn \subseteq Member
    /\ acct \in [Member -> AccountRecords]
    /\ main \in MainRecords
    /\ wallet \in [Member -> Nat]
    /\ earned \in Nat
    /\ paid \in Nat
    /\ left \in [stake : Int, principal : Int]
    /\ overdrawn \in BOOLEAN
    /\ unbacked \in Int

SumOf(f(_)) == SumOver([m \in Member |-> f(acct[m])], Member)

\* The delegator's own record of its stake is what the main contract holds for
\* it: no aggregation books an amount it did not move, and none moves an
\* amount it did not book.  (process_aggregation)
PoolMirrorsMain == pool.stake = main.stake

\* Once every pending amount is folded, the pool's stake is exactly what its
\* members own and what those that cleared left behind, whatever was netted
\* and however long the members' own calls lag behind the aggregations.
\* (process_aggregation, handle_pending)
StakeBelongsToMembers ==
    pool.stake + pool.deposits - pool.withdrawals = SumOf(FoldedStake) + left.stake

\* What members have on record is held by the delegator or staked by it, and
\* what comes on top is rewards that were collected and not paid, except for what
\* is known to be unbacked: deposits that did not arrive, and vested amounts paid
\* back on a member's behalf that stay on its record, less those that left the
\* record and were not paid back.  No other call opens a gap.
\* (stake, withdraw_non_stake, user_claim, process_aggregation)
PrincipalConserved ==
    pool.tokens + main.stake + unbacked - (earned - main.token - paid)
        = SumOf(Principal) + left.principal

\* The global stake time covers what every member would now take off it, so
\* that no member's call fails because of what the others did.  It needs
\* members that unstake no more than they have: unstake does not check that.
\* (calculate_rewards, reset_global_stake_time, process_aggregation)
StakeTimeCovered ==
    ~overdrawn =>
        SumOver([m \in Member |-> StakeTime(pool, acct[m])], optedIn) <= pool.stakeTime

\* A deposit is never folded into a stake in the aggregation round it was made
\* in, although assertActionTiming lets its owner act again in that round.
\* (assertActionTiming, calculate_rewards, handle_pending)
DepositsWait ==
    [][\A m \in Member :
          acct'[m].stake > acct[m].stake => acct'[m].last > acct[m].last]_vars

\* A member's share is a share of what was collected: together the members
\* are not credited more than the aggregations collected.  (calculate_rewards)
SharesWithinRewards ==
    paid + SumOver([m \in Member |-> acct[m].rewards], Member)
        <= earned - main.token

\* Pending amounts do not pend for ever, unless their net is one the main
\* contract refuses for the minimum stake, no member is left to call, rewards
\* were paid out of the deposits (SharesWithinRewards says when), more is on
\* record than arrived, or the manager's cut is more than was ever collected.
\* Amounts that pend when the bound MaxRound ends the model are not meant.
\* (post_action_update, process_aggregation)
Pending == NetDeposit(pool) + NetWithdrawal(pool) > 0
PendingSettles ==
    Pending /\ pool.round < MaxRound
    ~> \/ ~Pending
       \/ ~AboveMinimum(pool)
       \/ optedIn = {}
       \/ ~SharesWithinRewards
       \/ unbacked > 0
       \/ ~CutFits(pool)

=============================================================================
