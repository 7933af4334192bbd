--------------------------- MODULE VestingProofs ---------------------------
(***************************************************************************)
(* Proofs about the vesting contract with a stake delegator at work, for   *)
(* any amounts, times to vest, vestees, members and delegator: the         *)
(* schedule, the vault, the types, and the books of the delegator.         *)
(***************************************************************************)
EXTENDS DelegatedVesting, SumsProofs

LEMMA DivBounds ==
    ASSUME NEW a \in Nat, NEW d \in Nat, d > 0
    PROVE  /\ a \div d \in Nat
           /\ d * (a \div d) <= a
           /\ a < d * (a \div d) + d
OBVIOUS

\* Division by a positive number is monotone.
LEMMA DivMonotone ==
    ASSUME NEW a \in Nat, NEW b \in Nat, NEW d \in Nat, d > 0, a <= b
    PROVE  a \div d <= b \div d
<1> DEFINE q == a \div d
           r == b \div d
<1>1. q \in Nat /\ r \in Nat /\ d * q <= a /\ b < d * r + d
  BY DivBounds
<1> HIDE DEF q, r
<1>2. d * q < d * (r + 1)
  <2>1. d * (r + 1) = d * r + d
    BY <1>1
  <2>2. d * q \in Nat /\ d * r \in Nat
    BY <1>1
  <2> QED BY <1>1, <2>1, <2>2
<1>3. q < r + 1
  <2>1. q >= r + 1 => d * q >= d * (r + 1)
    BY <1>1
  <2>2. d * q \in Nat /\ d * (r + 1) \in Nat
    BY <1>1
  <2> QED BY <1>1, <1>2, <2>1, <2>2
<1> QED BY <1>1, <1>3 DEF q, r

\* The part of n that is due after i of k steps, i short of k, is at most n.
LEMMA PartWithin ==
    ASSUME NEW n \in Nat, NEW i \in Nat, NEW k \in Nat, i < k
    PROVE  (n * i) \div k \in Nat /\ (n * i) \div k <= n
<1>1. n * i \in Nat /\ n * k \in Nat /\ n * i <= n * k
  OBVIOUS
<1>2. (n * i) \div k <= (n * k) \div k
  BY <1>1, DivMonotone
<1>3. (n * k) \div k = n
  OBVIOUS
<1>4. (n * i) \div k \in Nat
  BY <1>1, DivBounds
<1> QED BY <1>2, <1>3, <1>4

-----------------------------------------------------------------------------
\* What the schedule of e has unlocked by now; Unlocked is this at time
DueAt(e, now) ==
    IF e.unlock > now
    THEN (e.amount * (now - e.start)) \div (e.unlock - e.start)
    ELSE e.amount

\* An entry whose claims keep to its schedule
Scheduled(e, now) ==
    e \in Entries /\ e.start <= now /\ e.claimed <= DueAt(e, now)

\* The inductive invariant
ScheduleInv ==
    /\ time \in Nat
    /\ DOMAIN box \subseteq Slot
    /\ \A s \in DOMAIN box : Scheduled(box[s], time)

LEMMA EntryTyped ==
    ASSUME NEW e \in Entries
    PROVE  /\ e.start \in Nat /\ e.unlock \in Nat /\ e.amount \in Nat
           /\ e.claimed \in Nat /\ e.staked \in BOOLEAN
BY DEF Entries

\* No more is due than was vested.
LEMMA DueTyped ==
    ASSUME NEW e \in Entries, NEW now \in Nat, e.start <= now
    PROVE  DueAt(e, now) \in Nat /\ DueAt(e, now) <= e.amount
<1>1. CASE e.unlock > now
  <2> DEFINE i == now - e.start
             k == e.unlock - e.start
             n == e.amount
  <2>1. n \in Nat /\ i \in Nat /\ k \in Nat /\ i < k
    BY <1>1, EntryTyped
  <2>2. DueAt(e, now) = (n * i) \div k
    BY <1>1 DEF DueAt
  <2> HIDE DEF n, i, k
  <2>3. DueAt(e, now) \in Nat /\ DueAt(e, now) <= n
    BY <2>1, <2>2, PartWithin
  <2> QED BY <2>3 DEF n
<1>2. CASE ~(e.unlock > now)
  BY <1>2, EntryTyped DEF DueAt
<1> QED BY <1>1, <1>2

\* What is due never shrinks.
LEMMA DueGrows ==
    ASSUME NEW e \in Entries, NEW now \in Nat, NEW later \in Nat,
           e.start <= now, now <= later
    PROVE  DueAt(e, now) <= DueAt(e, later)
<1>1. CASE e.unlock > later
  <2> DEFINE i == now - e.start
             j == later - e.start
             k == e.unlock - e.start
             n == e.amount
  <2>1. /\ n \in Nat /\ i \in Nat /\ j \in Nat /\ k \in Nat
        /\ i <= j /\ k > 0
    BY <1>1, EntryTyped
  <2>2. /\ DueAt(e, now) = (n * i) \div k
        /\ DueAt(e, later) = (n * j) \div k
    BY <1>1, EntryTyped DEF DueAt
  <2> HIDE DEF n, i, j, k
  <2>3. n * i \in Nat /\ n * j \in Nat /\ n * i <= n * j
    BY <2>1
  <2>4. (n * i) \div k <= (n * j) \div k
    BY <2>1, <2>3, DivMonotone
  <2> QED BY <2>2, <2>4
<1>2. CASE ~(e.unlock > later)
  BY <1>2, DueTyped, EntryTyped DEF DueAt
<1> QED BY <1>1, <1>2

\* Time alone breaks no schedule.
LEMMA ScheduledLater ==
    ASSUME NEW e, NEW now \in Nat, NEW later \in Nat, now <= later,
           Scheduled(e, now)
    PROVE  Scheduled(e, later)
<1>1. e \in Entries /\ e.start <= now /\ e.claimed <= DueAt(e, now)
  BY DEF Scheduled
<1>2. DueAt(e, now) <= DueAt(e, later)
  BY <1>1, DueGrows
<1>3. DueAt(e, now) \in Nat /\ e.start <= later
  BY <1>1, DueTyped, EntryTyped
<1>4. DueAt(e, later) \in Nat
  BY <1>1, <1>3, DueTyped
<1>5. e.claimed <= DueAt(e, later)
  BY <1>1, <1>2, <1>3, <1>4, EntryTyped
<1> QED BY <1>1, <1>3, <1>5 DEF Scheduled

\* A box that is written with a scheduled entry leaves all boxes scheduled.
LEMMA PutKeeps ==
    ASSUME ScheduleInv, NEW s \in Slot, NEW e, Scheduled(e, time),
           time' = time, box' = Put(s, e)
    PROVE  ScheduleInv'
BY DEF ScheduleInv, Put

LEMMA VestTokensKeeps ==
    ASSUME ScheduleInv, NEW s \in Slot, NEW amount \in VestAmount,
           NEW span \in TimeToVest, NEW arrives \in BOOLEAN,
           VestTokens(s, amount, span, arrives)
    PROVE  ScheduleInv'
<1> DEFINE e == [start |-> time, unlock |-> time + span, amount |-> amount,
                 claimed |-> 0, staked |-> FALSE]
<1>1. time \in Nat /\ amount \in Nat /\ span \in Nat
  BY VestingAssumption DEF ScheduleInv
<1>2. e \in Entries /\ e.start = time /\ e.claimed = 0
  BY <1>1 DEF Entries
<1>3. time' = time /\ box' = Put(s, e)
  BY DEF VestTokens
<1> HIDE DEF e
<1>4. Scheduled(e, time)
  BY <1>1, <1>2, DueTyped DEF Scheduled
<1> QED BY <1>3, <1>4, PutKeeps

LEMMA ClaimKeeps ==
    ASSUME ScheduleInv, NEW s \in Slot, Claim(s)
    PROVE  ScheduleInv'
<1> DEFINE e == box[s]
           d == Unlocked(e)
           f == [e EXCEPT !.claimed = @ + (d - e.claimed)]
<1>1. s \in DOMAIN box /\ time' = time
  BY DEF Claim, Exists
<1>2. time \in Nat /\ Scheduled(e, time) /\ e \in Entries
  BY <1>1 DEF ScheduleInv, Scheduled
<1>3. d = DueAt(e, time)
  BY DEF Unlocked, DueAt
<1>4. d \in Nat
  BY <1>2, <1>3, DueTyped DEF Scheduled
<1>5. box' = Without(s) \/ box' = Put(s, f)
  BY DEF Claim
<1>6. CASE box' = Without(s)
  BY <1>1, <1>6 DEF ScheduleInv, Without
<1>7. CASE box' = Put(s, f)
  <2> HIDE DEF d, e
  <2>1. e.claimed + (d - e.claimed) = d
    BY <1>2, <1>4, EntryTyped
  <2>2. f = [e EXCEPT !.claimed = d]
    BY <2>1
  <2>3. /\ f \in Entries /\ f.start = e.start /\ f.unlock = e.unlock
        /\ f.amount = e.amount /\ f.claimed = d
    BY <1>2, <1>4, <2>2 DEF Entries
  <2>4. DueAt(f, time) = DueAt(e, time)
    BY <2>3 DEF DueAt
  <2>5. Scheduled(f, time)
    BY <1>2, <1>3, <1>4, <2>3, <2>4 DEF Scheduled
  <2> HIDE DEF f
  <2> QED BY <1>1, <1>7, <2>5, PutKeeps
<1> QED BY <1>5, <1>6, <1>7

LEMMA StakeKeeps ==
    ASSUME ScheduleInv, NEW s \in Slot, NEW d, StakeToDelegator(s, d)
    PROVE  ScheduleInv'
<1> DEFINE e == box[s]
           f == Restarted(e)
<1>1. s \in DOMAIN box /\ time' = time /\ box' = Put(s, f)
  BY DEF StakeToDelegator, Exists
<1>2. time \in Nat /\ e \in Entries
  BY <1>1 DEF ScheduleInv, Scheduled
<1>3. f \in Entries /\ f.start = time /\ f.claimed = 0
  BY <1>2 DEF Entries, Restarted
<1> HIDE DEF f
<1>4. Scheduled(f, time)
  BY <1>2, <1>3, DueTyped DEF Scheduled
<1> QED BY <1>1, <1>4, PutKeeps

LEMMA WithdrawKeeps ==
    ASSUME ScheduleInv, NEW s \in Slot, NEW back, WithdrawFromDelegator(s, back)
    PROVE  ScheduleInv'
<1> DEFINE e == box[s]
           f == [e EXCEPT !.staked = FALSE]
<1>1. s \in DOMAIN box /\ time' = time /\ box' = Put(s, f)
  BY DEF WithdrawFromDelegator, Exists
<1>2. time \in Nat /\ e \in Entries /\ Scheduled(e, time)
  BY <1>1 DEF ScheduleInv, Scheduled
<1>3. /\ f \in Entries /\ f.start = e.start /\ f.unlock = e.unlock
      /\ f.amount = e.amount /\ f.claimed = e.claimed
  BY <1>2 DEF Entries
<1>4. DueAt(f, time) = DueAt(e, time)
  BY <1>3 DEF DueAt
<1>5. Scheduled(f, time)
  BY <1>2, <1>3, <1>4 DEF Scheduled
<1> HIDE DEF f
<1> QED BY <1>1, <1>5, PutKeeps

LEMMA TimeKeeps ==
    ASSUME ScheduleInv, TimePasses
    PROVE  ScheduleInv'
<1>1. time \in Nat /\ time' \in Nat /\ time <= time' /\ box' = box
  BY VestingAssumption DEF ScheduleInv, TimePasses
<1> QED BY <1>1, ScheduledLater DEF ScheduleInv

LEMMA StepKeeps ==
    ASSUME ScheduleInv, [Next]_vars
    PROVE  ScheduleInv'
<1>1. CASE Block
  BY <1>1, TimeKeeps DEF Block
<1>2. CASE VestingStep /\ UNCHANGED poolVars
  <2>1. ASSUME NEW s \in Slot, NEW amount \in VestAmount,
               NEW span \in TimeToVest, NEW arrives \in BOOLEAN,
               VestTokens(s, amount, span, arrives)
        PROVE  ScheduleInv'
    BY <2>1, VestTokensKeeps
  <2>2. ASSUME NEW s \in Slot, Claim(s)
        PROVE  ScheduleInv'
    BY <2>2, ClaimKeeps
  <2>3. ASSUME NEW d \in Delegator, AddWhitelistedApp(d)
        PROVE  ScheduleInv'
    BY <2>3 DEF AddWhitelistedApp, ScheduleInv
  <2>4. ASSUME NEW s \in Slot, WithdrawFromDelegator(s, 0)
        PROVE  ScheduleInv'
    BY <2>4, WithdrawKeeps
  <2> QED BY <1>2, <2>1, <2>2, <2>3, <2>4 DEF VestingStep
<1>3. ASSUME NEW s \in DOMAIN box, StakeVested(s) \/ WithdrawVested(s)
      PROVE  ScheduleInv'
  <2>1. s \in Slot
    BY DEF ScheduleInv
  <2>2. CASE StakeVested(s)
    BY <2>1, <2>2, StakeKeeps DEF StakeVested
  <2>3. CASE WithdrawVested(s)
    BY <2>1, <2>3, WithdrawKeeps DEF WithdrawVested
  <2> QED BY <1>3, <2>2, <2>3
<1>4. CASE UNCHANGED vestingVars
  BY <1>4 DEF vestingVars, ScheduleInv
<1>5. UNCHANGED vars => UNCHANGED vestingVars
  BY DEF vars
<1> QED BY <1>1, <1>2, <1>3, <1>4, <1>5 DEF Next

\* No claim runs ahead of its schedule and none fails on its subtraction,
\* whatever is vested, claimed, staked and withdrawn, in whatever order: the
\* bound on claim_vesting that stake_to_delegator's restart has to respect.
THEOREM ScheduleKept == Spec => []ClaimedWithinSchedule
<1>1. Init => ScheduleInv
  BY DEF Init, VestingInit, ScheduleInv
<1>2. ScheduleInv /\ [Next]_vars => ScheduleInv'
  BY StepKeeps
<1>3. ScheduleInv => ClaimedWithinSchedule
  BY DEF ScheduleInv, Scheduled, ClaimedWithinSchedule, DueAt, Unlocked
<1> QED BY <1>1, <1>2, <1>3, PTL DEF Spec

-----------------------------------------------------------------------------
(***************************************************************************)
(* The two contracts together.  What StakeDelegatorSums shows of each call *)
(* of the delegator is used of the calls that are made here; the Same      *)
(* lemmas say that its actions are the ones DelegatedVesting composes.     *)
(***************************************************************************)
Laws == INSTANCE StakeDelegatorSums

LEMMA SameFinite == \A S : Laws!IsFiniteSet(S) <=> IsFiniteSet(S)
BY DEF Laws!IsFiniteSet, IsFiniteSet

\* What an account and the pool show
LEMMA SamePending ==
    ASSUME NEW a
    PROVE  /\ Pool!HasTracker(a) <=> Laws!HasTracker(a)
           /\ Pool!Deposited(a) = Laws!Deposited(a)
           /\ Pool!Withdrawn(a) = Laws!Withdrawn(a)
BY DEF Pool!HasTracker, Laws!HasTracker, Pool!Deposited, Laws!Deposited,
       Pool!Withdrawn, Laws!Withdrawn

LEMMA SameFold ==
    ASSUME NEW p, NEW a
    PROVE  /\ Pool!CanFold(a) <=> Laws!CanFold(a)
           /\ Pool!FoldedStake(a) = Laws!FoldedStake(a)
           /\ Pool!FoldedNonStake(a) = Laws!FoldedNonStake(a)
           /\ Pool!FoldedTracker(p, a) = Laws!FoldedTracker(p, a)
           /\ Pool!ActionTiming(p, a) <=> Laws!ActionTiming(p, a)
           /\ Pool!NewRewards(p, a) = Laws!NewRewards(p, a)
<1>1. Pool!Tracked(p, 0, FALSE) = Laws!Tracked(p, 0, FALSE)
  BY DEF Pool!Tracked, Laws!Tracked
<1> QED BY <1>1, SamePending DEF Pool!CanFold, Laws!CanFold,
          Pool!FoldedStake, Laws!FoldedStake, Pool!FoldedNonStake, Laws!FoldedNonStake,
          Pool!FoldedTracker, Laws!FoldedTracker, Pool!ActionTiming, Laws!ActionTiming,
          Pool!NewRewards, Laws!NewRewards

LEMMA SameUpdate ==
    ASSUME NEW p, NEW a
    PROVE  /\ Pool!CanUpdate(p, a) <=> Laws!CanUpdate(p, a)
           /\ Pool!Spent(p, a) = Laws!Spent(p, a)
           /\ Pool!Updated(p, a) = Laws!Updated(p, a)
<1>1. Pool!StakeTime(p, a) = Laws!StakeTime(p, a)
  BY SamePending, SameFold DEF Pool!StakeTime, Laws!StakeTime
<1>2. Pool!Share(p, a) = Laws!Share(p, a)
  BY <1>1, SamePending, SameFold DEF Pool!Share, Laws!Share
<1>3. Pool!CanUpdate(p, a) <=> Laws!CanUpdate(p, a)
  BY <1>1, SamePending, SameFold DEF Pool!CanUpdate, Laws!CanUpdate
<1>4. Pool!Updated(p, a) = Laws!Updated(p, a)
  BY <1>2, SameFold DEF Pool!Updated, Laws!Updated
<1>5. Pool!Spent(p, a) = Laws!Spent(p, a)
  BY <1>1 DEF Pool!Spent, Laws!Spent
<1> QED BY <1>3, <1>4, <1>5

LEMMA SameAggregation ==
    ASSUME NEW p, NEW acs
    PROVE  /\ Pool!CanAggregate(p) <=> Laws!CanAggregate(p)
           /\ Pool!Aggregated(p) = Laws!Aggregated(p)
           /\ Pool!Credited(p, acs) = Laws!Credited(p, acs)
           /\ Pool!MainAfter(p) = Laws!MainAfter(p)
           /\ Pool!Due <=> Laws!Due
<1>1. /\ Pool!NetDeposit(p) = Laws!NetDeposit(p)
      /\ Pool!NetWithdrawal(p) = Laws!NetWithdrawal(p)
      /\ Pool!ManagerCut(p) = Laws!ManagerCut(p)
  BY DEF Pool!NetDeposit, Laws!NetDeposit, Pool!NetWithdrawal, Laws!NetWithdrawal,
         Pool!ManagerCut, Laws!ManagerCut
<1>2. Pool!MainAccepts(p) <=> Laws!MainAccepts(p)
  BY <1>1 DEF Pool!MainAccepts, Laws!MainAccepts, Pool!AboveMinimum, Laws!AboveMinimum
<1>3. Pool!CanAggregate(p) <=> Laws!CanAggregate(p)
  BY <1>1, <1>2 DEF Pool!CanAggregate, Laws!CanAggregate, Pool!CutFits, Laws!CutFits
<1>4. Pool!Aggregated(p) = Laws!Aggregated(p)
  BY <1>1 DEF Pool!Aggregated, Laws!Aggregated
<1>5. Pool!Credited(p, acs) = Laws!Credited(p, acs)
  BY <1>1 DEF Pool!Credited, Laws!Credited
<1>6. Pool!MainAfter(p) = Laws!MainAfter(p)
  BY <1>1 DEF Pool!MainAfter, Laws!MainAfter
<1>7. Pool!Due <=> Laws!Due
  BY DEF Pool!Due, Laws!Due
<1> QED BY <1>3, <1>4, <1>5, <1>6, <1>7

LEMMA SamePost ==
    ASSUME NEW p, NEW acs
    PROVE  /\ Pool!CanPost(p) <=> Laws!CanPost(p)
           /\ Pool!PostPool(p) = Laws!PostPool(p)
           /\ Pool!PostAccounts(p, acs) = Laws!PostAccounts(p, acs)
           /\ Pool!PostMain(p) <=> Laws!PostMain(p)
BY SameAggregation DEF Pool!CanPost, Laws!CanPost, Pool!PostPool, Laws!PostPool,
   Pool!PostAccounts, Laws!PostAccounts, Pool!PostMain, Laws!PostMain

\* The calls
LEMMA SameTakeStake ==
    ASSUME NEW m, NEW amount, NEW vestedNow, NEW by, NEW arrives
    PROVE  Pool!TakeStake(m, amount, vestedNow, by, arrives)
             => Laws!TakeStake(m, amount, vestedNow, by, arrives)
<1>1. Pool!Tracked(pool, amount, TRUE) = Laws!Tracked(pool, amount, TRUE)
  BY DEF Pool!Tracked, Laws!Tracked
<1> QED BY <1>1, SameFold, SameUpdate, SamePost DEF Pool!TakeStake, Laws!TakeStake

LEMMA SameUnstake ==
    ASSUME NEW m, NEW amount
    PROVE  Pool!Unstake(m, amount) => Laws!Unstake(m, amount)
<1>1. Pool!Tracked(pool, amount, FALSE) = Laws!Tracked(pool, amount, FALSE)
  BY DEF Pool!Tracked, Laws!Tracked
<1> QED BY <1>1, SameFold, SameUpdate, SamePost DEF Pool!Unstake, Laws!Unstake

LEMMA SameUserClaim ==
    ASSUME NEW m
    PROVE  Pool!UserClaim(m) => Laws!UserClaim(m)
<1>1. \A p : Pool!Tracked(p, 0, FALSE) = Laws!Tracked(p, 0, FALSE)
  BY DEF Pool!Tracked, Laws!Tracked
<1> QED BY <1>1, SameUpdate, SamePost DEF Pool!UserClaim, Laws!UserClaim

LEMMA SameWithdrawals ==
    ASSUME NEW m, NEW caller
    PROVE  /\ Pool!WithdrawNonStake(m) => Laws!WithdrawNonStake(m)
           /\ Pool!WithdrawVested(m, caller) => Laws!WithdrawVested(m, caller)
<1>1. Pool!WithdrawNonStake(m) => Laws!WithdrawNonStake(m)
  BY SameFold, SameUpdate, SamePost DEF Pool!WithdrawNonStake, Laws!WithdrawNonStake
<1>2. Pool!TopLevel = Laws!TopLevel
  BY DEF Pool!TopLevel, Laws!TopLevel
<1>3. Pool!MayActFor(m, caller) <=> Laws!MayActFor(m, caller)
  BY <1>2 DEF Pool!MayActFor, Laws!MayActFor
<1>4. Pool!WithdrawVested(m, caller) => Laws!WithdrawVested(m, caller)
  BY <1>2, <1>3, SameFold, SameUpdate, SamePost DEF Pool!WithdrawVested, Laws!WithdrawVested
<1> QED BY <1>1, <1>4

LEMMA SameMemberStep ==
    ASSUME NEW m
    PROVE  Pool!MemberStep(m) => Laws!MemberStep(m)
<1>1. \A round : Pool!Fresh(round) = Laws!Fresh(round)
  BY DEF Pool!Fresh, Laws!Fresh, Pool!TopLevel, Laws!TopLevel
<1>2. Pool!OptIn(m) => Laws!OptIn(m)
  BY <1>1 DEF Pool!OptIn, Laws!OptIn, Pool!history, Laws!history
<1>3. Pool!ClearState(m) => Laws!ClearState(m)
  BY <1>1, SameFold DEF Pool!ClearState, Laws!ClearState, Pool!Principal, Laws!Principal
<1>4. Pool!ManualProcessAggregation(m) => Laws!ManualProcessAggregation(m)
  BY SameAggregation, SamePost DEF Pool!ManualProcessAggregation,
     Laws!ManualProcessAggregation, Pool!history, Laws!history
<1>5. \A amount, arrives : Pool!Stake(m, amount, arrives) => Laws!Stake(m, amount, arrives)
  BY SameTakeStake DEF Pool!Stake, Laws!Stake, Pool!Transfer, Laws!Transfer
<1>6. \A b, share : Pool!ConfigureSettings(m, b, share) => Laws!ConfigureSettings(m, b, share)
  BY DEF Pool!ConfigureSettings, Laws!ConfigureSettings, Pool!history, Laws!history
<1> QED BY <1>2, <1>3, <1>4, <1>5, <1>6, SameUnstake, SameUserClaim, SameWithdrawals
        DEF Pool!MemberStep, Laws!MemberStep

LEMMA SameBehalfStep ==
    ASSUME NEW m, NEW caller
    PROVE  /\ \A amount, arrives : Pool!StakeVested(m, amount, caller, arrives)
                                    => Laws!StakeVested(m, amount, caller, arrives)
           /\ Pool!BehalfStep(m, caller) => Laws!BehalfStep(m, caller)
<1>1. ASSUME NEW amount, NEW arrives, Pool!StakeVested(m, amount, caller, arrives)
      PROVE  Laws!StakeVested(m, amount, caller, arrives)
  <2>1. Laws!TakeStake(m, amount, amount, caller, arrives)
    BY <1>1, SameTakeStake DEF Pool!StakeVested
  <2> QED BY <1>1, <2>1 DEF Pool!StakeVested, Laws!StakeVested, Pool!MayActFor,
          Laws!MayActFor, Pool!TopLevel, Laws!TopLevel, Pool!Transfer, Laws!Transfer
<1> QED BY <1>1, SameWithdrawals DEF Pool!BehalfStep, Laws!BehalfStep

LEMMA SameNextRound == Pool!NextRound => Laws!NextRound
BY DEF Pool!NextRound, Laws!NextRound, Pool!history, Laws!history

LEMMA SameInit == Pool!Init => Laws!Init
BY DEF Pool!Init, Laws!Init, Pool!Fresh, Laws!Fresh, Pool!TopLevel, Laws!TopLevel

\* The property
LEMMA SameSum == ASSUME NEW f, NEW S PROVE Pool!SumOver(f, S) = Laws!SumOver(f, S)
BY DEF Pool!SumOver, Laws!SumOver, Pool!MapThenSumSet, Laws!MapThenSumSet,
       Pool!MapThenFoldSet, Laws!MapThenFoldSet

LEMMA SameStakeBelongs == Laws!StakeBelongsToMembers => Pool!StakeBelongsToMembers
<1>1. [m \in Member |-> Pool!FoldedStake(acct[m])]
        = [m \in Member |-> Laws!FoldedStake(acct[m])]
  BY SameFold
<1> QED BY <1>1, SameSum DEF Pool!StakeBelongsToMembers, Laws!StakeBelongsToMembers,
        Pool!SumOf, Laws!SumOf

-----------------------------------------------------------------------------
\* The inductive invariant of the delegator: its types and its books
PoolInv ==
    /\ Laws!TypeOK
    /\ Laws!Books(pool, acct, left.stake, ~overdrawn)

LEMMA PoolStepKeeps ==
    ASSUME PoolInv, (\E m \in Member : Pool!MemberStep(m)) \/ Pool!NextRound
    PROVE  PoolInv'
<1>1. Laws!Next
  BY SameMemberStep, SameNextRound DEF Laws!Next
<1>2. Laws!TypeOK'
  BY <1>1, Laws!StepKeeps, PoolAssumption, SameFinite DEF PoolInv, Laws!Kept
<1>3. ASSUME NEW m \in Member, Pool!MemberStep(m)
      PROVE  Laws!Books(pool, acct, left.stake, ~overdrawn)'
  BY <1>3, SameMemberStep, Laws!MemberStepBooks, PoolAssumption, SameFinite DEF PoolInv
<1>4. CASE Pool!NextRound
  BY <1>2, <1>4 DEF PoolInv, Pool!NextRound, Pool!history, Laws!Books
<1> QED BY <1>2, <1>3, <1>4 DEF PoolInv

LEMMA BehalfStepKeeps ==
    ASSUME PoolInv, NEW m \in Member, NEW caller \in Caller, Pool!BehalfStep(m, caller)
    PROVE  PoolInv'
<1>1. Laws!BehalfStep(m, caller)
  BY SameBehalfStep
<1>2. Laws!TypeOK'
  BY <1>1, Laws!BehalfKeeps, PoolAssumption, SameFinite DEF PoolInv, Laws!Kept
<1>3. Laws!Books(pool, acct, left.stake, ~overdrawn)'
  BY <1>1, Laws!BehalfStepBooks, PoolAssumption, SameFinite DEF PoolInv
<1> QED BY <1>2, <1>3 DEF PoolInv

\* What is staked here need not be one of the amounts members stake.
LEMMA StakeVestedKeeps ==
    ASSUME PoolInv, NEW m \in Member, NEW amount \in Nat, NEW caller \in Caller,
           Pool!StakeVested(m, amount, caller, TRUE)
    PROVE  PoolInv'
<1>1. Laws!StakeVested(m, amount, caller, TRUE)
  BY SameBehalfStep
<1>2. Laws!TakeStake(m, amount, amount, caller, TRUE) /\ caller \in Caller \cup {Laws!TopLevel}
  BY <1>1 DEF Laws!StakeVested
<1>3. Laws!TypeOK'
  BY <1>1, Laws!StakeVestedKeeps, PoolAssumption, SameFinite DEF PoolInv, Laws!Kept
<1>4. Laws!Books(pool', acct', left.stake, ~overdrawn)
  BY <1>2, Laws!TakeStakeBooks, PoolAssumption, SameFinite DEF PoolInv
<1>5. UNCHANGED <<optedIn, left, overdrawn>>
  BY <1>2 DEF Laws!TakeStake
<1>6. Laws!Books(pool, acct, left.stake, ~overdrawn)'
  BY <1>4, <1>5 DEF Laws!Books
<1> QED BY <1>3, <1>6 DEF PoolInv

LEMMA PoolKept == ASSUME ScheduleInv, PoolInv, [Next]_vars PROVE PoolInv'
<1>1. CASE Block
  BY <1>1, PoolStepKeeps DEF Block
<1>2. CASE \E m \in Member : Pool!MemberStep(m)
  BY <1>2, PoolStepKeeps
<1>6. ASSUME NEW m \in Member, NEW caller \in Caller, Pool!BehalfStep(m, caller)
      PROVE  PoolInv'
  BY <1>6, BehalfStepKeeps
<1>3. CASE UNCHANGED poolVars
  BY <1>3 DEF poolVars, PoolInv, Laws!TypeOK, Laws!Books
<1>4. ASSUME NEW s \in DOMAIN box, StakeVested(s) \/ WithdrawVested(s)
      PROVE  PoolInv'
  <2>1. s[1] \in Member /\ box[s].amount \in Nat /\ VestingApp \in Caller
    BY CompositionAssumption, EntryTyped DEF ScheduleInv, Scheduled, Slot
  <2>2. CASE StakeVested(s)
    BY <2>1, <2>2, StakeVestedKeeps DEF StakeVested
  <2>3. CASE WithdrawVested(s)
    BY <2>1, <2>3, BehalfStepKeeps DEF WithdrawVested, Pool!BehalfStep
  <2> QED BY <1>4, <2>2, <2>3
<1>5. UNCHANGED vars => UNCHANGED poolVars
  BY DEF vars
<1> QED BY <1>1, <1>2, <1>3, <1>4, <1>5, <1>6 DEF Next

LEMMA InvInit == Init => ScheduleInv /\ PoolInv
<1> SUFFICES ASSUME Init PROVE ScheduleInv /\ PoolInv
  OBVIOUS
<1>1. ScheduleInv
  BY DEF Init, VestingInit, ScheduleInv
<1>2. Laws!Init
  BY SameInit DEF Init
<1>3. Laws!TypeOK
  BY <1>2, Laws!InitTyped, PoolAssumption, SameFinite
<1>4. Laws!BooksInv
  BY <1>2, Laws!InitBooks, PoolAssumption, SameFinite
<1> QED BY <1>1, <1>3, <1>4 DEF PoolInv, Laws!BooksInv

\* The vesting contract's calls keep the delegator's books, however they and the
\* members' own calls and aggregations interleave: the pool's stake is what its
\* members own, what was staked for vestees included.
\* (stake, withdraw_non_stake on behalf)
THEOREM VestedStakeKept == Spec => []Pool!StakeBelongsToMembers
<1>1. ScheduleInv /\ PoolInv /\ [Next]_vars => (ScheduleInv /\ PoolInv)'
  BY StepKeeps, PoolKept
<1>2. PoolInv => Pool!StakeBelongsToMembers
  <2> SUFFICES ASSUME PoolInv PROVE Pool!StakeBelongsToMembers
    OBVIOUS
  <2>1. Laws!StakeBelongsToMembers
    BY Laws!BooksBelong, PoolAssumption, SameFinite DEF PoolInv
  <2> QED BY <2>1, SameStakeBelongs
<1> QED BY <1>1, <1>2, InvInit, PTL DEF Spec

-----------------------------------------------------------------------------
\* The amounts of the vesting contract.  What comes back from the delegator is
\* typed because the delegator's record of it is.
AmountsTyped ==
    /\ listed \subseteq Delegator
    /\ vault \in Nat
    /\ received \in [Vestee -> Nat]
    /\ vestedTotal \in Nat
    /\ lent \in Int
    /\ short \in Nat

LEMMA AmountsKept ==
    ASSUME ScheduleInv, PoolInv, AmountsTyped, [Next]_vars
    PROVE  AmountsTyped'
<1> USE DEF AmountsTyped
<1>1. CASE Block
  BY <1>1 DEF Block, TimePasses
<1>2. ASSUME NEW s \in Slot, NEW amount \in VestAmount, NEW span \in TimeToVest,
             NEW arrives \in BOOLEAN, VestTokens(s, amount, span, arrives)
      PROVE  AmountsTyped'
  BY <1>2, VestingAssumption DEF VestTokens
<1>3. ASSUME NEW s \in Slot, Claim(s)
      PROVE  AmountsTyped'
  <2> DEFINE e == box[s]
             c == Unlocked(e) - e.claimed
  <2>1. /\ s \in DOMAIN box /\ 0 <= c /\ c <= vault
        /\ vault' = vault - c
        /\ received' = [received EXCEPT ![s[1]] = @ + c]
        /\ UNCHANGED <<listed, vestedTotal, lent, short>>
    BY <1>3 DEF Claim, Exists, Holds
  <2>2. e \in Entries /\ time \in Nat /\ e.start <= time
    BY <2>1 DEF ScheduleInv, Scheduled
  <2>3. Unlocked(e) = DueAt(e, time)
    BY DEF Unlocked, DueAt
  <2>4. c \in Nat
    BY <2>1, <2>2, <2>3, DueTyped, EntryTyped
  <2> HIDE DEF c
  <2>5. s[1] \in Vestee
    BY DEF Slot
  <2> QED BY <2>1, <2>4, <2>5
<1>4. ASSUME NEW d \in Delegator, AddWhitelistedApp(d)
      PROVE  AmountsTyped'
  BY <1>4 DEF AddWhitelistedApp
<1>8. ASSUME NEW s \in Slot, WithdrawFromDelegator(s, 0)
      PROVE  AmountsTyped'
  BY <1>8 DEF WithdrawFromDelegator
<1>5. ASSUME NEW s \in DOMAIN box, StakeVested(s) \/ WithdrawVested(s)
      PROVE  AmountsTyped'
  <2>1. s[1] \in Member /\ box[s].amount \in Nat /\ box[s].claimed \in Nat
    BY CompositionAssumption, EntryTyped DEF ScheduleInv, Scheduled, Slot
  <2>2. CASE StakeVested(s)
    BY <2>1, <2>2 DEF StakeVested, StakeToDelegator, Holds
  <2>3. CASE WithdrawVested(s)
    <3>1. acct[s[1]].vested \in Nat
      BY <2>1 DEF PoolInv, Laws!TypeOK, Laws!AccountRecords
    <3> QED BY <2>3, <3>1 DEF WithdrawVested, WithdrawFromDelegator
  <2> QED BY <1>5, <2>2, <2>3
<1>6. CASE UNCHANGED vestingVars
  BY <1>6 DEF vestingVars
<1>7. UNCHANGED vars => UNCHANGED vestingVars
  BY DEF vars
<1> QED BY <1>1, <1>2, <1>3, <1>4, <1>5, <1>6, <1>7, <1>8 DEF Next, VestingStep

LEMMA AmountsInit == Init => AmountsTyped
BY DEF Init, VestingInit, AmountsTyped

\* Type correctness of the vesting contract: the balance is never drawn below
\* zero, by a claim or by a stake at the delegator.
THEOREM VestingTypeCorrect == Spec => []VestingTypeOK
<1>2. ScheduleInv /\ PoolInv /\ AmountsTyped /\ [Next]_vars
        => (ScheduleInv /\ PoolInv /\ AmountsTyped)'
  BY StepKeeps, PoolKept, AmountsKept
<1>3. ScheduleInv /\ AmountsTyped => VestingTypeOK
  BY DEF ScheduleInv, Scheduled, AmountsTyped, VestingTypeOK
<1> QED BY <1>2, <1>3, InvInit, AmountsInit, PTL DEF Spec

-----------------------------------------------------------------------------
\* What a box still owes, and what all boxes do
Owed == [s \in DOMAIN box |-> box[s].amount - box[s].claimed]

\* The inductive invariant of the vault
VaultInv ==
    /\ IsFiniteSet(DOMAIN box)
    /\ VaultCoversBoxes

\* An entry that keeps to its schedule owes no negative amount.
LEMMA OwedIsNat ==
    ASSUME ScheduleInv
    PROVE  \A s \in DOMAIN box : Owed[s] \in Nat
<1> SUFFICES ASSUME NEW s \in DOMAIN box PROVE Owed[s] \in Nat
  OBVIOUS
<1>1. Owed[s] = box[s].amount - box[s].claimed
  BY DEF Owed
<1> DEFINE e == box[s]
<1>2. e \in Entries /\ time \in Nat /\ e.start <= time /\ e.claimed <= DueAt(e, time)
  BY DEF ScheduleInv, Scheduled
<1> HIDE DEF e
<1>3. DueAt(e, time) \in Nat /\ DueAt(e, time) <= e.amount
  BY <1>2, DueTyped
<1>4. e.amount - e.claimed \in Nat
  BY <1>2, <1>3, EntryTyped
<1> QED BY <1>1, <1>4 DEF e

\* What all boxes owe when the entry of one of them is replaced
LEMMA PutOwes ==
    ASSUME ScheduleInv, IsFiniteSet(DOMAIN box), NEW s \in DOMAIN box, NEW e,
           e.amount \in Nat, e.claimed \in Nat, box' = Put(s, e)
    PROVE  /\ DOMAIN box' = DOMAIN box
           /\ SumOver(Owed', DOMAIN box')
                = SumOver(Owed, DOMAIN box) - (box[s].amount - box[s].claimed)
                    + (e.amount - e.claimed)
<1> DEFINE D == DOMAIN box
           f == Owed
           g == Owed'
<1>1. /\ DOMAIN box' = D /\ box'[s] = e
      /\ \A t \in D \ {s} : box'[t] = box[t]
  BY DEF Put
<1>2. /\ g[s] = e.amount - e.claimed /\ f[s] = box[s].amount - box[s].claimed
      /\ \A t \in D \ {s} : g[t] = f[t]
  BY <1>1 DEF Owed
<1>3. \A t \in D : f[t] \in Int
  BY OwedIsNat
<1>4. \A t \in D : g[t] \in Int
  BY <1>2, <1>3
<1> HIDE DEF f, g
<1>5. SumOver(g, D) = SumOver(f, D) - f[s] + g[s]
  BY <1>2, <1>3, <1>4, SumChange
<1> QED BY <1>1, <1>2, <1>5 DEF f, g

\* A new box owes what came with it; an overwritten one owes nothing any more.
LEMMA VestTokensCovered ==
    ASSUME ScheduleInv, AmountsTyped, VaultInv, NEW s \in Slot, NEW amount \in VestAmount,
           NEW span \in TimeToVest, NEW arrives \in BOOLEAN,
           VestTokens(s, amount, span, arrives)
    PROVE  VaultInv'
<1> DEFINE D == DOMAIN box
           e == [start |-> time, unlock |-> time + span, amount |-> amount,
                 claimed |-> 0, staked |-> FALSE]
<1>1. amount \in Nat
  BY VestingAssumption
<1>2. /\ box' = Put(s, e) /\ lent' = lent
      /\ vault' + short' = vault + short + amount
  BY <1>1 DEF VestTokens, AmountsTyped
<1>3. e.amount = amount /\ e.claimed = 0
  OBVIOUS
<1> HIDE DEF e
<1>4. /\ DOMAIN box' = D \cup {s}
      /\ \A t \in D \cup {s} : box'[t] = IF t = s THEN e ELSE box[t]
  BY <1>2 DEF Put
<1>5. /\ Owed'[s] = amount
      /\ \A t \in D \ {s} : Owed'[t] = Owed[t]
  BY <1>1, <1>3, <1>4 DEF Owed
<1>6. IsFiniteSet(D) /\ IsFiniteSet(D \cup {s})
  BY FS_AddElement DEF VaultInv
<1>7. \A t \in D : Owed[t] \in Nat
  BY OwedIsNat
<1>8. SumOver(Owed', D \cup {s}) <= SumOver(Owed, D) + amount
  <2> DEFINE f == Owed
             g == Owed'
  <2>1. /\ g[s] = amount /\ \A t \in D \ {s} : g[t] = f[t]
        /\ \A t \in D : f[t] \in Nat
    BY <1>5, <1>7
  <2> HIDE DEF f, g
  <2>2. CASE s \in D
    <3>1. \A t \in D : f[t] \in Int /\ g[t] \in Int
      BY <1>1, <2>1
    <3>2. g[s] <= f[s] + amount /\ \A t \in D \ {s} : g[t] <= f[t]
      BY <1>1, <2>1, <2>2
    <3>3. SumOver(g, D) <= SumOver(f, D) + amount
      BY <1>1, <1>6, <2>2, <3>1, <3>2, SumShift
    <3>4. D \cup {s} = D
      BY <2>2
    <3> QED BY <3>3, <3>4 DEF f, g
  <2>3. CASE s \notin D
    <3>1. \A t \in D : f[t] \in Int /\ g[t] = f[t]
      BY <2>1, <2>3
    <3>2. SumOver(g, D \cup {s}) = SumOver(f, D) + g[s]
      BY <1>1, <1>6, <2>1, <2>3, <3>1, SumJoin
    <3>3. SumOver(f, D) \in Nat
      BY <1>6, <2>1, SumNat
    <3> QED BY <1>1, <2>1, <3>2, <3>3 DEF f, g
  <2> QED BY <2>2, <2>3
<1>9. SumOver(Owed, D) <= vault + lent + short
  BY DEF VaultInv, VaultCoversBoxes, Owed
<1>10. SumOver(Owed', DOMAIN box') <= vault' + lent' + short'
  <2>1. SumOver(Owed', D \cup {s}) \in Nat /\ SumOver(Owed, D) \in Nat
    <3>1. \A t \in D \cup {s} : Owed'[t] \in Nat
      BY <1>1, <1>5, <1>7
    <3> QED BY <1>6, <1>7, <3>1, SumNat
  <2>2. vault' \in Int /\ short' \in Int /\ vault \in Int /\ short \in Int /\ lent \in Int
    BY <1>1 DEF VestTokens, AmountsTyped
  <2> DEFINE x == SumOver(Owed, D)
             y == SumOver(Owed', DOMAIN box')
  <2>3. y <= x + amount /\ x <= vault + lent + short /\ x \in Int /\ y \in Int
    BY <1>4, <1>8, <1>9, <2>1
  <2> HIDE DEF x, y
  <2>4. y <= (vault' + short') + lent'
    <3>1. lent' = lent /\ vault' + short' = vault + short + amount
      BY <1>2
    <3>2. vault + lent + short + amount = (vault + short + amount) + lent
      BY <1>1, <2>2
    <3>3. x + amount <= vault + lent + short + amount
      BY <1>1, <2>2, <2>3
    <3>4. y <= vault + lent + short + amount
      BY <1>1, <2>2, <2>3, <3>3
    <3> QED BY <3>1, <3>2, <3>4
  <2>5. vault' + lent' + short' = (vault' + short') + lent'
    BY <1>2, <2>2
  <2> QED BY <2>4, <2>5 DEF y
<1> QED BY <1>4, <1>6, <1>10 DEF VaultInv, VaultCoversBoxes, Owed

\* A claim takes off the box exactly what it takes out of the vault.
LEMMA ClaimCovered ==
    ASSUME ScheduleInv, AmountsTyped, VaultInv, NEW s \in Slot, Claim(s)
    PROVE  VaultInv'
<1> DEFINE D == DOMAIN box
           e == box[s]
           d == Unlocked(e)
           f == [e EXCEPT !.claimed = @ + (d - e.claimed)]
           f1 == Owed
           g1 == Owed'
<1>1. /\ s \in D /\ UNCHANGED <<lent, short>> /\ vault' = vault - (d - e.claimed)
      /\ box' = IF e.claimed + (d - e.claimed) = e.amount THEN Without(s)
                ELSE Put(s, f)
  BY DEF Claim, Exists
<1>2. time \in Nat /\ Scheduled(e, time) /\ e \in Entries
  BY <1>1 DEF ScheduleInv, Scheduled
<1>3. d = DueAt(e, time)
  BY DEF Unlocked, DueAt
<1>4. d \in Nat /\ e.claimed <= d
  BY <1>2, <1>3, DueTyped DEF Scheduled
<1>5. f1[s] = e.amount - e.claimed /\ e.amount \in Nat /\ e.claimed \in Nat
  BY <1>1, <1>2, EntryTyped DEF Owed
<1>6. f.amount = e.amount /\ f.claimed = e.claimed + (d - e.claimed)
  BY <1>2 DEF Entries
<1>7. IsFiniteSet(D) /\ IsFiniteSet(D \ {s})
  BY FS_Subset DEF VaultInv
<1>8. \A t \in D : f1[t] \in Nat
  BY OwedIsNat
<1> HIDE DEF d, f, f1, g1
<1>9. e.claimed + (d - e.claimed) = d
  BY <1>4, <1>5
<1>10. /\ IsFiniteSet(DOMAIN box')
       /\ SumOver(g1, DOMAIN box') = SumOver(f1, D) - (d - e.claimed)
  <2>1. CASE d = e.amount
    <3>1. box' = [t \in D \ {s} |-> box[t]]
      BY <1>1, <1>9, <2>1 DEF Without
    <3>2. DOMAIN box' = D \ {s} /\ \A t \in D \ {s} : box'[t] = box[t]
      BY <3>1
    <3>3. \A t \in D \ {s} : g1[t] = f1[t]
      BY <3>2 DEF Owed, f1, g1
    <3>4. f1[s] = d - e.claimed /\ \A t \in D : f1[t] \in Int
      BY <1>5, <1>8, <2>1
    <3>5. SumOver(g1, D \ {s}) = SumOver(f1, D) - f1[s]
      <4>1. IsFiniteSet(D) /\ s \in D
        BY <1>1, <1>7
      <4>2. \A t \in D : f1[t] \in Int
        BY <3>4
      <4>3. f1[s] \in Int /\ SumOver(f1, D) \in Int
        BY <4>1, <4>2, SumInt
      <4> HIDE DEF D
      <4> QED BY <3>3, <4>1, <4>2, <4>3, SumLeave
    <3> QED BY <1>7, <3>2, <3>4, <3>5
  <2>2. CASE d # e.amount
    <3>1. box' = Put(s, f) /\ f.amount \in Nat /\ f.claimed \in Nat /\ f.claimed = d
      BY <1>1, <1>4, <1>5, <1>6, <1>9, <2>2
    <3>2. /\ DOMAIN box' = D
          /\ SumOver(g1, DOMAIN box') = SumOver(f1, D) - (e.amount - e.claimed)
                                          + (f.amount - f.claimed)
      BY <1>1, <1>7, <3>1, PutOwes DEF f1, g1
    <3>3. SumOver(f1, D) \in Int
      BY <1>7, <1>8, SumNat
    <3> HIDE DEF e
    <3>4. SumOver(g1, DOMAIN box') = SumOver(f1, D) - (d - e.claimed)
      BY <1>4, <1>5, <1>6, <3>1, <3>2, <3>3
    <3> QED BY <1>7, <3>2, <3>4
  <2> QED BY <2>1, <2>2
<1>11. SumOver(g1, DOMAIN box') <= vault' + lent' + short'
  <2>1. SumOver(f1, D) \in Int
    BY <1>7, <1>8, SumNat
  <2>2. SumOver(f1, D) <= vault + lent + short
    BY DEF VaultInv, VaultCoversBoxes, Owed, f1
  <2>3. vault \in Int /\ lent \in Int /\ short \in Int
    BY DEF AmountsTyped
  <2> HIDE DEF e
  <2> QED BY <1>1, <1>4, <1>5, <1>10, <2>1, <2>2, <2>3
<1> QED BY <1>10, <1>11 DEF VaultInv, VaultCoversBoxes, Owed, g1

\* Staking promises once more what was claimed; what is sent is lent.
LEMMA StakeCovered ==
    ASSUME ScheduleInv, AmountsTyped, VaultInv, NEW s \in Slot, NEW d,
           StakeToDelegator(s, d)
    PROVE  VaultInv'
<1> DEFINE e == box[s]
           f == Restarted(e)
<1>1. /\ s \in DOMAIN box /\ box' = Put(s, f)
      /\ vault' = vault - e.amount /\ lent' = lent + e.amount /\ short' = short + e.claimed
  BY DEF StakeToDelegator, Exists
<1>2. e \in Entries
  BY <1>1 DEF ScheduleInv, Scheduled
<1>3. e.amount \in Nat /\ e.claimed \in Nat /\ f.amount = e.amount /\ f.claimed = 0
  BY <1>2, EntryTyped DEF Restarted, Entries
<1> HIDE DEF f
<1>4. IsFiniteSet(DOMAIN box) /\ SumOver(Owed, DOMAIN box) <= vault + lent + short
  BY DEF VaultInv, VaultCoversBoxes, Owed
<1>5. /\ DOMAIN box' = DOMAIN box
      /\ SumOver(Owed', DOMAIN box')
           = SumOver(Owed, DOMAIN box) - (e.amount - e.claimed) + (f.amount - f.claimed)
  BY <1>1, <1>3, <1>4, PutOwes
<1>6. SumOver(Owed, DOMAIN box) \in Int
  BY <1>4, OwedIsNat, SumNat
<1> HIDE DEF e
<1>7. vault \in Int /\ lent \in Int /\ short \in Int
  BY DEF AmountsTyped
<1>8. SumOver(Owed', DOMAIN box') <= vault' + lent' + short'
  <2> DEFINE x == SumOver(Owed, DOMAIN box)
             y == SumOver(Owed', DOMAIN box')
  <2>1. x \in Int /\ x <= vault + lent + short
        /\ y = x - (e.amount - e.claimed) + (f.amount - f.claimed)
    BY <1>4, <1>5, <1>6
  <2> HIDE DEF x, y
  <2>2. y <= vault' + lent' + short'
    BY <1>1, <1>3, <1>7, <2>1
  <2> QED BY <2>2 DEF y
<1> QED BY <1>4, <1>5, <1>8 DEF VaultInv, VaultCoversBoxes, Owed

\* What comes back is no longer lent, and the box owes what it owed.
LEMMA WithdrawCovered ==
    ASSUME ScheduleInv, AmountsTyped, VaultInv, NEW s \in Slot, NEW back \in Nat,
           WithdrawFromDelegator(s, back)
    PROVE  VaultInv'
<1> DEFINE e == box[s]
           f == [e EXCEPT !.staked = FALSE]
<1>1. /\ s \in DOMAIN box /\ box' = Put(s, f)
      /\ vault' = vault + back /\ lent' = lent - back /\ short' = short
  BY DEF WithdrawFromDelegator, Exists
<1>2. e \in Entries
  BY <1>1 DEF ScheduleInv, Scheduled
<1>3. /\ e.amount \in Nat /\ e.claimed \in Nat
      /\ f.amount = e.amount /\ f.claimed = e.claimed
  BY <1>2, EntryTyped DEF Entries
<1> HIDE DEF f
<1>4. IsFiniteSet(DOMAIN box) /\ SumOver(Owed, DOMAIN box) <= vault + lent + short
  BY DEF VaultInv, VaultCoversBoxes, Owed
<1>5. /\ DOMAIN box' = DOMAIN box
      /\ SumOver(Owed', DOMAIN box')
           = SumOver(Owed, DOMAIN box) - (e.amount - e.claimed) + (f.amount - f.claimed)
  BY <1>1, <1>3, <1>4, PutOwes
<1>6. SumOver(Owed, DOMAIN box) \in Int
  BY <1>4, OwedIsNat, SumNat
<1> HIDE DEF e
<1>7. vault \in Int /\ lent \in Int /\ short \in Int
  BY DEF AmountsTyped
<1>8. SumOver(Owed', DOMAIN box') <= vault' + lent' + short'
  <2> DEFINE x == SumOver(Owed, DOMAIN box)
             y == SumOver(Owed', DOMAIN box')
  <2>1. x \in Int /\ x <= vault + lent + short
        /\ y = x - (e.amount - e.claimed) + (f.amount - f.claimed)
    BY <1>4, <1>5, <1>6
  <2> HIDE DEF x, y
  <2>2. y <= vault' + lent' + short'
    BY <1>1, <1>3, <1>7, <2>1
  <2> QED BY <2>2 DEF y
<1> QED BY <1>4, <1>5, <1>8 DEF VaultInv, VaultCoversBoxes, Owed

LEMMA StepCovered ==
    ASSUME ScheduleInv, PoolInv, AmountsTyped, VaultInv, [Next]_vars
    PROVE  VaultInv'
<1>1. CASE Block
  BY <1>1 DEF Block, TimePasses, VaultInv, VaultCoversBoxes
<1>2. CASE VestingStep /\ UNCHANGED poolVars
  <2>1. ASSUME NEW s \in Slot, NEW amount \in VestAmount,
               NEW span \in TimeToVest, NEW arrives \in BOOLEAN,
               VestTokens(s, amount, span, arrives)
        PROVE  VaultInv'
    BY <2>1, VestTokensCovered
  <2>2. ASSUME NEW s \in Slot, Claim(s)
        PROVE  VaultInv'
    BY <2>2, ClaimCovered
  <2>3. ASSUME NEW d \in Delegator, AddWhitelistedApp(d)
        PROVE  VaultInv'
    BY <2>3 DEF AddWhitelistedApp, VaultInv, VaultCoversBoxes
  <2>4. ASSUME NEW s \in Slot, WithdrawFromDelegator(s, 0)
        PROVE  VaultInv'
    BY <2>4, WithdrawCovered
  <2> QED BY <1>2, <2>1, <2>2, <2>3, <2>4 DEF VestingStep
<1>3. ASSUME NEW s \in DOMAIN box, StakeVested(s) \/ WithdrawVested(s)
      PROVE  VaultInv'
  <2>1. s \in Slot /\ s[1] \in Member
    BY CompositionAssumption DEF ScheduleInv, Slot
  <2>2. CASE StakeVested(s)
    BY <2>1, <2>2, StakeCovered DEF StakeVested
  <2>3. CASE WithdrawVested(s)
    <3>1. acct[s[1]].vested \in Nat
      BY <2>1 DEF PoolInv, Laws!TypeOK, Laws!AccountRecords
    <3> QED BY <2>1, <2>3, <3>1, WithdrawCovered DEF WithdrawVested
  <2> QED BY <1>3, <2>2, <2>3
<1>4. CASE UNCHANGED vestingVars
  BY <1>4 DEF vestingVars, VaultInv, VaultCoversBoxes
<1>5. UNCHANGED vars => UNCHANGED vestingVars
  BY DEF vars
<1> QED BY <1>1, <1>2, <1>3, <1>4, <1>5 DEF Next

\* The one token balance of the contract covers all that its boxes owe, whatever
\* is vested, overwritten, claimed, staked and withdrawn, but for exactly what is
\* with delegators, what never arrived and what a staking made claimable again.
THEOREM VaultCovers == Spec => []VaultCoversBoxes
<1>1. Init => VaultInv
  <2> SUFFICES ASSUME Init PROVE VaultInv
    OBVIOUS
  <2>1. DOMAIN box = {} /\ vault = 0 /\ lent = 0 /\ short = 0
    BY DEF Init, VestingInit
  <2>2. IsFiniteSet(DOMAIN box)
    BY <2>1, FS_EmptySet
  <2>3. SumOver(Owed, DOMAIN box) = 0
    BY <2>1, SumEmpty
  <2> QED BY <2>1, <2>2, <2>3 DEF VaultInv, VaultCoversBoxes, Owed
<1>2. ScheduleInv /\ PoolInv /\ AmountsTyped /\ VaultInv /\ [Next]_vars
        => (ScheduleInv /\ PoolInv /\ AmountsTyped /\ VaultInv)'
  BY StepKeeps, PoolKept, AmountsKept, StepCovered
<1>3. VaultInv => VaultCoversBoxes
  BY DEF VaultInv
<1> QED BY <1>1, <1>2, <1>3, InvInit, AmountsInit, PTL DEF Spec

-----------------------------------------------------------------------------
\* What is on record at the delegator for v as lent by the vesting contract
OnRecord ==
    [v \in Vestee |-> IF acct[v].app = VestingApp THEN acct[v].vested ELSE 0]

\* The inductive invariant: whatever else was staked on a vestee's behalf, what
\* the vesting contract lent is on record under its own application.
RecordInv ==
    Vestee \cap Leaver = {} => lent <= SumOver(OnRecord, Vestee)

LEMMA RecordTyped ==
    ASSUME PoolInv
    PROVE  /\ IsFiniteSet(Vestee) /\ Vestee \subseteq Member
           /\ \A v \in Vestee : /\ acct[v].vested \in Nat /\ OnRecord[v] \in Nat
                                 /\ OnRecord[v] <= acct[v].vested
<1>1. IsFiniteSet(Vestee) /\ Vestee \subseteq Member
  BY CompositionAssumption, PoolAssumption, FS_Subset
<1>2. \A v \in Vestee : acct[v].vested \in Nat
  BY <1>1 DEF PoolInv, Laws!TypeOK, Laws!AccountRecords
<1> QED BY <1>1, <1>2 DEF OnRecord

\* Steps that leave the vestees' records as they are
LEMMA RecordSame ==
    ASSUME RecordInv, lent' = lent,
           Vestee \cap Leaver = {} => \A v \in Vestee : OnRecord'[v] = OnRecord[v]
    PROVE  RecordInv'
<1> SUFFICES ASSUME Vestee \cap Leaver = {} PROVE lent' <= SumOver(OnRecord', Vestee)
  BY DEF RecordInv
<1>1. OnRecord' = OnRecord
  BY DEF OnRecord
<1> QED BY <1>1 DEF RecordInv

\* Only one vestee's record changes, by the change of what is lent or more
LEMMA RecordMoves ==
    ASSUME PoolInv, PoolInv', RecordInv, lent \in Int, NEW v \in Vestee,
           \A w \in Vestee \ {v} : OnRecord'[w] = OnRecord[w],
           lent' \in Int, lent' - lent <= OnRecord'[v] - OnRecord[v]
    PROVE  RecordInv'
<1> DEFINE f == OnRecord
           g == OnRecord'
<1>1. IsFiniteSet(Vestee) /\ \A w \in Vestee : f[w] \in Nat
  BY RecordTyped
<1>2. \A w \in Vestee : g[w] \in Nat
  <2>1. \A w \in Vestee : acct'[w].vested \in Nat
    BY CompositionAssumption DEF PoolInv, Laws!TypeOK, Laws!AccountRecords
  <2> QED BY <2>1 DEF OnRecord
<1>3. SumOver(g, Vestee) = SumOver(f, Vestee) - f[v] + g[v]
  <2> HIDE DEF f, g
  <2>1. \A w \in Vestee \ {v} : g[w] = f[w]
    BY DEF f, g
  <2> QED BY <1>1, <1>2, <2>1, SumChange
<1>4. SumOver(f, Vestee) \in Int /\ SumOver(g, Vestee) \in Int
  BY <1>1, <1>2, SumNat
<1>5. lent' - lent <= g[v] - f[v]
  OBVIOUS
<1>6. lent <= SumOver(f, Vestee) => lent' <= SumOver(g, Vestee)
  <2> HIDE DEF f, g
  <2> QED BY <1>1, <1>2, <1>3, <1>4, <1>5
<1> QED BY <1>6 DEF RecordInv

LEMMA StepOnRecord ==
    ASSUME ScheduleInv, PoolInv, PoolInv', AmountsTyped, AmountsTyped', RecordInv,
           [Next]_vars
    PROVE  RecordInv'
<1>0. /\ lent \in Int /\ lent' \in Int /\ Vestee \subseteq Member
      /\ VestingApp \in Caller /\ VestingApp # Laws!TopLevel
  BY RecordTyped, CompositionAssumption DEF AmountsTyped, Pool!TopLevel, Laws!TopLevel
<1>1. ASSUME UNCHANGED <<acct, lent>> PROVE RecordInv'
  BY <1>1, RecordSame DEF OnRecord
<1>2. CASE Block
  BY <1>1, <1>2 DEF Block, TimePasses, Pool!NextRound
<1>3. CASE VestingStep /\ UNCHANGED poolVars
  <2>1. lent' = lent
    <3>1. CASE \E s \in Slot : WithdrawFromDelegator(s, 0)
      <4>1. lent' = lent - 0
        BY <3>1 DEF WithdrawFromDelegator
      <4> QED BY <1>0, <4>1
    <3>2. CASE \E s \in Slot, amount \in VestAmount, span \in TimeToVest,
                 arrives \in BOOLEAN : VestTokens(s, amount, span, arrives)
      BY <3>2 DEF VestTokens
    <3>3. CASE \E s \in Slot : Claim(s)
      BY <3>3 DEF Claim
    <3>4. CASE \E d \in Delegator : AddWhitelistedApp(d)
      BY <3>4 DEF AddWhitelistedApp
    <3> QED BY <1>3, <3>1, <3>2, <3>3, <3>4 DEF VestingStep
  <2>2. acct' = acct
    BY <1>3 DEF poolVars
  <2> QED BY <1>1, <2>1, <2>2
<1>4. ASSUME NEW m \in Member, Pool!MemberStep(m), UNCHANGED vestingVars
      PROVE  RecordInv'
  <2>1. lent' = lent
    BY <1>4 DEF vestingVars
  <2>2. \A k \in Member \ Leaver :
           acct'[k].vested = acct[k].vested /\ acct'[k].app = acct[k].app
    BY <1>4, SameMemberStep, Laws!MemberStepRecorded, PoolAssumption, SameFinite
       DEF PoolInv, Laws!Books
  <2>3. Vestee \cap Leaver = {} => \A v \in Vestee : OnRecord'[v] = OnRecord[v]
    BY <1>0, <2>2 DEF OnRecord
  <2> QED BY <2>1, <2>3, RecordSame
<1>5. ASSUME NEW m \in Member, NEW caller \in Caller \ {VestingApp},
             Pool!BehalfStep(m, caller), UNCHANGED vestingVars
      PROVE  RecordInv'
  <2>1. lent' = lent
    BY <1>5 DEF vestingVars
  <2>2. PICK v \in Nat : Laws!MayActFor(m, caller) /\ Laws!Recorded(m, v, caller)
    BY <1>5, SameBehalfStep, Laws!BehalfKeeps, PoolAssumption, SameFinite DEF PoolInv
  <2>3. acct[m].app # VestingApp /\ acct'[m].app # VestingApp
    BY <1>0, <2>2 DEF Laws!MayActFor, Laws!Recorded
  <2>4. \A w \in Vestee : OnRecord'[w] = OnRecord[w]
    BY <1>0, <2>2, <2>3 DEF OnRecord, Laws!Recorded
  <2> QED BY <2>1, <2>4, RecordSame
<1>6. ASSUME NEW s \in DOMAIN box, StakeVested(s) PROVE RecordInv'
  <2> DEFINE v == s[1]
             n == box[s].amount
  <2>1. v \in Vestee /\ n \in Nat
    BY EntryTyped DEF ScheduleInv, Scheduled, Slot
  <2>2. lent' = lent + n /\ Laws!StakeVested(v, n, VestingApp, TRUE)
    BY <1>6, SameBehalfStep DEF StakeVested, StakeToDelegator
  <2>3. Laws!Recorded(v, acct[v].vested + n, VestingApp)
    BY <1>0, <2>1, <2>2, Laws!StakeVestedKeeps, PoolAssumption, SameFinite DEF PoolInv
  <2> HIDE DEF v, n
  <2>4. \A w \in Vestee \ {v} : OnRecord'[w] = OnRecord[w]
    BY <1>0, <2>1, <2>3 DEF OnRecord, Laws!Recorded
  <2>5. OnRecord'[v] = acct[v].vested + n
    BY <1>0, <2>1, <2>3 DEF OnRecord, Laws!Recorded
  <2>6. /\ acct[v].vested \in Nat /\ OnRecord[v] \in Nat /\ OnRecord[v] <= acct[v].vested
    BY <2>1, RecordTyped
  <2>7. lent' - lent <= OnRecord'[v] - OnRecord[v]
    BY <1>0, <2>1, <2>2, <2>5, <2>6
  <2> QED BY <1>0, <2>1, <2>4, <2>7, RecordMoves
<1>7. ASSUME NEW s \in DOMAIN box, WithdrawVested(s) PROVE RecordInv'
  <2> DEFINE v == s[1]
  <2>1. v \in Vestee
    BY DEF ScheduleInv, Slot
  <2>2. lent' = lent - acct[v].vested /\ Laws!WithdrawVested(v, VestingApp)
    BY <1>7, SameWithdrawals DEF WithdrawVested, WithdrawFromDelegator
  <2>3. Laws!Recorded(v, 0, VestingApp)
    BY <1>0, <2>1, <2>2, Laws!WithdrawVestedKeeps, PoolAssumption, SameFinite DEF PoolInv
  <2> HIDE DEF v
  <2>4. \A w \in Vestee \ {v} : OnRecord'[w] = OnRecord[w]
    BY <1>0, <2>1, <2>3 DEF OnRecord, Laws!Recorded
  <2>5. OnRecord'[v] = 0
    BY <1>0, <2>1, <2>3 DEF OnRecord, Laws!Recorded
  <2>6. /\ acct[v].vested \in Nat /\ OnRecord[v] \in Nat /\ OnRecord[v] <= acct[v].vested
    BY <2>1, RecordTyped
  <2>7. lent' - lent <= OnRecord'[v] - OnRecord[v]
    BY <1>0, <2>2, <2>5, <2>6
  <2> QED BY <1>0, <2>1, <2>4, <2>7, RecordMoves
<1>8. UNCHANGED vars => UNCHANGED <<acct, lent>>
  BY DEF vars, poolVars, vestingVars
<1> QED BY <1>1, <1>2, <1>3, <1>4, <1>5, <1>6, <1>7, <1>8 DEF Next

\* What the vesting contract lent stays on record at the delegator until the
\* vesting contract takes it back, whoever acts for the vestees first and however
\* often, and whatever they call themselves.  (stake, withdraw_non_stake on behalf)
THEOREM LentStaysOnRecord == Spec => []LentOnRecord
<1>1. Init => RecordInv
  <2> SUFFICES ASSUME Init PROVE RecordInv
    OBVIOUS
  <2>1. PoolInv
    BY InvInit
  <2>2. lent = 0
    BY DEF Init, VestingInit
  <2>3. SumOver(OnRecord, Vestee) \in Nat
    BY <2>1, RecordTyped, SumNat
  <2> QED BY <2>2, <2>3 DEF RecordInv
<1>2. ScheduleInv /\ PoolInv /\ AmountsTyped /\ RecordInv /\ [Next]_vars
        => (ScheduleInv /\ PoolInv /\ AmountsTyped /\ RecordInv)'
  BY StepKeeps, PoolKept, AmountsKept, StepOnRecord
<1>3. PoolInv /\ AmountsTyped /\ RecordInv => LentOnRecord
  <2> SUFFICES ASSUME PoolInv, AmountsTyped, RecordInv, Vestee \cap Leaver = {}
               PROVE  lent <= SumOver([v \in Vestee |-> acct[v].vested], Vestee)
    BY DEF LentOnRecord
  <2> DEFINE f == OnRecord
             g == [v \in Vestee |-> acct[v].vested]
  <2>1. IsFiniteSet(Vestee) /\ \A v \in Vestee : f[v] \in Int /\ g[v] \in Int /\ f[v] <= g[v]
    BY RecordTyped
  <2>2. lent <= SumOver(f, Vestee) /\ lent \in Int
    BY DEF RecordInv, AmountsTyped
  <2> HIDE DEF f, g
  <2>3. SumOver(f, Vestee) <= SumOver(g, Vestee)
    BY <2>1, SumLeq
  <2>4. SumOver(f, Vestee) \in Int /\ SumOver(g, Vestee) \in Int
    BY <2>1, SumInt
  <2>5. lent <= SumOver(g, Vestee)
    BY <2>2, <2>3, <2>4
  <2> QED BY <2>5 DEF g
<1> QED BY <1>1, <1>2, <1>3, InvInit, AmountsInit, PTL DEF Spec

=============================================================================
