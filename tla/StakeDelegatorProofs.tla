------------------------ MODULE StakeDelegatorProofs ------------------------
(***************************************************************************)
(* Proofs about StakeDelegator, for any members, amounts, rewards, shares, *)
(* timeouts and number of rounds.                                          *)
(***************************************************************************)
EXTENDS StakeDelegator, TLAPS

\* What can be folded is natural, and a share divides by a positive number.
LEMMA FoldTyped ==
    ASSUME NEW p \in PoolRecords, NEW a \in AccountRecords, CanFold(a)
    PROVE  /\ Deposited(a) \in Nat /\ Withdrawn(a) \in Nat
           /\ FoldedStake(a) \in Nat /\ FoldedNonStake(a) \in Nat
           /\ FoldedTracker(p, a) \in Trackers
           /\ StakeTime(p, a) \in Int
<1>1. Deposited(a) \in Nat /\ Withdrawn(a) \in Nat
  BY DEF AccountRecords, Trackers, Deposited, Withdrawn
<1>2. a.stake \in Nat /\ a.nonStake \in Nat /\ a.last \in Nat /\ p.round \in Nat
  BY DEF AccountRecords, PoolRecords
<1>3. FoldedStake(a) \in Nat /\ FoldedNonStake(a) \in Nat
  BY <1>1, <1>2 DEF CanFold, FoldedStake, FoldedNonStake
<1>4. FoldedTracker(p, a) \in Trackers
  BY DEF AccountRecords, PoolRecords, Trackers, FoldedTracker, Tracked
<1>5. FoldedStake(a) * (p.round - a.last) \in Int
  BY <1>2, <1>3
<1>6. StakeTime(p, a) \in Int
  BY <1>1, <1>5 DEF StakeTime
<1> QED BY <1>1, <1>3, <1>4, <1>6

LEMMA ShareTyped ==
    ASSUME NEW p \in PoolRecords, NEW a \in AccountRecords, CanUpdate(p, a)
    PROVE  Share(p, a) \in Nat
<1>1. Deposited(a) \in Nat /\ StakeTime(p, a) \in Nat
  BY FoldTyped DEF CanUpdate
<1>2. NewRewards(p, a) \in Nat
  BY DEF CanUpdate, NewRewards, PoolRecords, AccountRecords, Trackers
<1>3. NewRewards(p, a) * StakeTime(p, a) \in Nat
  BY <1>1, <1>2
<1>4. p.stakeTime \in Nat
  BY DEF PoolRecords
<1> DEFINE product == NewRewards(p, a) * StakeTime(p, a)
           divisor == p.stakeTime - Deposited(a)
<1>5. divisor > 0 => product \div divisor \in Nat
  <2> SUFFICES ASSUME divisor > 0 PROVE product \div divisor \in Nat
    OBVIOUS
  <2>1. product \in Nat /\ divisor \in Nat /\ divisor > 0
    BY <1>1, <1>3, <1>4
  <2> HIDE DEF product, divisor
  <2> QED BY <2>1
<1>6. p.stakeTime > Deposited(a) => divisor > 0
  BY <1>1, <1>4
<1> QED BY <1>5, <1>6 DEF Share

\* update_stake_time keeps the records typed and does not touch the pool's stake.
LEMMA UpdateTyped ==
    ASSUME NEW p \in PoolRecords, NEW a \in AccountRecords, CanUpdate(p, a)
    PROVE  /\ Spent(p, a) \in PoolRecords
           /\ Spent(p, a).stake = p.stake
           /\ Updated(p, a) \in AccountRecords
           /\ Updated(p, a).vested = a.vested /\ Updated(p, a).app = a.app
<1>1. /\ FoldedStake(a) \in Nat /\ FoldedNonStake(a) \in Nat
      /\ FoldedTracker(p, a) \in Trackers /\ StakeTime(p, a) \in Nat
  BY FoldTyped DEF CanUpdate
<1>2. Share(p, a) \in Nat
  BY ShareTyped
<1>3. Spent(p, a) \in PoolRecords /\ Spent(p, a).stake = p.stake
  BY <1>1 DEF CanUpdate, Spent, PoolRecords
<1>4. p.round \in Nat /\ a.rewards + Share(p, a) \in Nat
  BY <1>2 DEF PoolRecords, AccountRecords
<1>5. Updated(p, a) \in AccountRecords
  <2> DEFINE r == a.rewards + Share(p, a)
             s == FoldedStake(a)
             n == FoldedNonStake(a)
             t == FoldedTracker(p, a)
  <2>1. Updated(p, a) = [a EXCEPT !.stake = s, !.nonStake = n, !.tracker = t,
                                  !.rewards = r, !.last = p.round]
    BY DEF Updated
  <2>2. s \in Nat /\ n \in Nat /\ t \in Trackers /\ r \in Nat
    BY <1>1, <1>4
  <2> HIDE DEF r, s, n, t
  <2> QED BY <1>4, <2>1, <2>2 DEF AccountRecords
<1>6. Updated(p, a).vested = a.vested /\ Updated(p, a).app = a.app
  BY DEF Updated, AccountRecords
<1> QED BY <1>3, <1>5, <1>6

\* A stake that grows when it is folded has waited for an aggregation round:
\* in the round of the deposit the unsigned subtraction in the stake time fails.
LEMMA FoldWaits ==
    ASSUME NEW p \in PoolRecords, NEW a \in AccountRecords, CanUpdate(p, a)
    PROVE  /\ Updated(p, a).stake > a.stake => Updated(p, a).last > a.last
           /\ Updated(p, a).stake = FoldedStake(a)
<1>1. /\ Deposited(a) \in Nat /\ Withdrawn(a) \in Nat /\ FoldedStake(a) \in Nat
      /\ StakeTime(p, a) >= 0
  BY FoldTyped DEF CanUpdate
<1>2. a.stake \in Nat /\ a.last \in Nat /\ p.round \in Nat
  BY DEF AccountRecords, PoolRecords
<1>3. Updated(p, a).stake = FoldedStake(a) /\ Updated(p, a).last = p.round
  BY DEF Updated, AccountRecords
<1>4. ASSUME FoldedStake(a) > a.stake
      PROVE  p.round > a.last
  <2>1. Deposited(a) > 0
    BY <1>1, <1>2, <1>4 DEF FoldedStake
  <2>2. FoldedStake(a) * (p.round - a.last) > 0
    BY <1>1, <1>2, <2>1 DEF StakeTime
  <2>3. p.round - a.last <= 0 => FoldedStake(a) * (p.round - a.last) <= 0
    BY <1>1, <1>2
  <2> QED BY <1>2, <1>1, <2>2, <2>3
<1> QED BY <1>3, <1>4

-----------------------------------------------------------------------------
LEMMA NetsTyped ==
    ASSUME NEW p \in PoolRecords
    PROVE  /\ NetDeposit(p) \in Nat /\ NetWithdrawal(p) \in Nat
           /\ NetDeposit(p) = 0 \/ NetWithdrawal(p) = 0
BY DEF PoolRecords, NetDeposit, NetWithdrawal

\* The manager's cut is natural, whatever its share.
LEMMA CutTyped ==
    ASSUME NEW p \in PoolRecords, main \in MainRecords
    PROVE  ManagerCut(p) \in Nat
<1> DEFINE n == main.token
           k == p.share
<1>1. n \in Nat /\ k \in Nat
  BY DEF MainRecords, PoolRecords
<1>2. ManagerCut(p) = IF p.manager \in optedIn THEN (n * k) \div 1000 ELSE 0
  BY DEF ManagerCut
<1>3. (n * k) \div 1000 \in Nat
  <2> HIDE DEF n, k
  <2>1. n * k \in Nat
    BY <1>1
  <2> QED BY <2>1
<1> QED BY <1>2, <1>3

\* process_aggregation keeps the records typed, and books what it moves.
LEMMA AggregationTyped ==
    ASSUME NEW p \in PoolRecords, main \in MainRecords, CanAggregate(p)
    PROVE  /\ Aggregated(p) \in PoolRecords
           /\ MainAfter(p) \in MainRecords
           /\ p.stake = main.stake => Aggregated(p).stake = MainAfter(p).stake
<1>1. /\ NetDeposit(p) \in Nat /\ NetWithdrawal(p) \in Nat
      /\ NetDeposit(p) <= p.tokens + main.token
      /\ NetWithdrawal(p) <= p.stake
  BY NetsTyped DEF CanAggregate
<1>2. NetWithdrawal(p) <= main.stake
  BY <1>1 DEF CanAggregate, MainAccepts, AboveMinimum, MainRecords
<1>3. ManagerCut(p) \in Nat /\ ManagerCut(p) <= p.rewards + main.token
  BY CutTyped DEF CanAggregate, CutFits
<1>4. Timestamp \in Nat /\ TimeLock \in Nat
  BY DelegatorAssumption
<1>5. Aggregated(p) \in PoolRecords
  <2> DEFINE t == p.tokens + main.token - NetDeposit(p) + NetWithdrawal(p)
             s == p.stake + NetDeposit(p) - NetWithdrawal(p)
             r == p.rewards + main.token - ManagerCut(p)
             u == p.stakeTime + p.stake - NetWithdrawal(p)
  <2>1. t \in Nat /\ s \in Nat /\ r \in Nat /\ u \in Nat /\ p.round + 1 \in Nat
    BY <1>1, <1>3 DEF PoolRecords, MainRecords
  <2> DEFINE q == [p EXCEPT !.round = p.round + 1, !.time = Timestamp,
                            !.rewards = r, !.tokens = t]
             o == [q EXCEPT !.stake = s, !.stakeTime = u]
  <2>2. Aggregated(p) = [o EXCEPT !.deposits = 0, !.withdrawals = 0]
    BY DEF Aggregated, PoolRecords
  <2> HIDE DEF t, s, r, u
  <2>3. q \in PoolRecords
    BY <1>4, <2>1 DEF PoolRecords
  <2> HIDE DEF q
  <2>4. o \in PoolRecords
    BY <2>1, <2>3 DEF PoolRecords
  <2> HIDE DEF o
  <2>5. [o EXCEPT !.deposits = 0, !.withdrawals = 0] \in PoolRecords
    BY <2>4 DEF PoolRecords
  <2> QED BY <2>2, <2>5
<1>6. MainAfter(p) \in MainRecords
  BY <1>1, <1>2, <1>4 DEF MainAfter, MainRecords
<1>7. p.stake = main.stake => Aggregated(p).stake = MainAfter(p).stake
  BY DEF Aggregated, MainAfter, PoolRecords
<1> QED BY <1>5, <1>6, <1>7

LEMMA CreditTyped ==
    ASSUME NEW p \in PoolRecords, main \in MainRecords,
           NEW accts \in [Member -> AccountRecords]
    PROVE  /\ Credited(p, accts) \in [Member -> AccountRecords]
           /\ \A m \in Member :
                 /\ Credited(p, accts)[m].stake = accts[m].stake
                 /\ Credited(p, accts)[m].last = accts[m].last
                 /\ Credited(p, accts)[m].nonStake = accts[m].nonStake
                 /\ Credited(p, accts)[m].vested = accts[m].vested
                 /\ Credited(p, accts)[m].app = accts[m].app
<1>1. ManagerCut(p) \in Nat
  BY CutTyped
<1>2. p.manager \in Member
  BY DelegatorAssumption DEF PoolRecords
<1> DEFINE b == [accts[p.manager] EXCEPT !.rewards = @ + ManagerCut(p)]
<1>3. /\ b \in AccountRecords
      /\ b.stake = accts[p.manager].stake /\ b.last = accts[p.manager].last
      /\ b.nonStake = accts[p.manager].nonStake
      /\ b.vested = accts[p.manager].vested /\ b.app = accts[p.manager].app
  BY <1>1, <1>2 DEF AccountRecords
<1>4. Credited(p, accts) = [accts EXCEPT ![p.manager] = b]
  BY DEF Credited
<1> HIDE DEF b
<1> QED BY <1>2, <1>3, <1>4

\* What post_action_update keeps, whether or not the aggregation is due.
LEMMA PostTyped ==
    ASSUME NEW p \in PoolRecords, NEW accts \in [Member -> AccountRecords],
           main \in MainRecords, age \in 0..(Timeout + 1), CanPost(p), PostMain(p)
    PROVE  /\ PostPool(p) \in PoolRecords
           /\ PostAccounts(p, accts) \in [Member -> AccountRecords]
           /\ main' \in MainRecords
           /\ age' \in 0..(Timeout + 1)
           /\ p.stake = main.stake => PostPool(p).stake = main'.stake
           /\ \A m \in Member :
                 /\ PostAccounts(p, accts)[m].stake = accts[m].stake
                 /\ PostAccounts(p, accts)[m].last = accts[m].last
                 /\ PostAccounts(p, accts)[m].nonStake = accts[m].nonStake
                 /\ PostAccounts(p, accts)[m].vested = accts[m].vested
                 /\ PostAccounts(p, accts)[m].app = accts[m].app
<1>1. CASE Due
  <2>1. CanAggregate(p)
    BY <1>1 DEF CanPost
  <2>2. PostPool(p) = Aggregated(p) /\ PostAccounts(p, accts) = Credited(p, accts)
    BY <1>1 DEF PostPool, PostAccounts
  <2>3. main' = MainAfter(p) /\ age' = 0
    BY <1>1 DEF PostMain
  <2>4. Timeout \in Nat
    BY DelegatorAssumption
  <2> QED BY <2>1, <2>2, <2>3, <2>4, AggregationTyped, CreditTyped
<1>2. CASE ~Due
  <2>1. PostPool(p) = p /\ PostAccounts(p, accts) = accts
    BY <1>2 DEF PostPool, PostAccounts
  <2>2. main' = main /\ age' = age
    BY <1>2 DEF PostMain
  <2> QED BY <2>1, <2>2
<1> QED BY <1>1, <1>2

\* The accounts after a call of m that left it with record b
LEMMA AccountReplaced ==
    ASSUME NEW m \in Member, NEW b \in AccountRecords,
           acct \in [Member -> AccountRecords]
    PROVE  /\ [acct EXCEPT ![m] = b] \in [Member -> AccountRecords]
           /\ \A k \in Member : [acct EXCEPT ![m] = b][k] = IF k = m THEN b ELSE acct[k]
OBVIOUS

-----------------------------------------------------------------------------
(***************************************************************************)
(* Every step keeps the types and, when they hold before it, the agreement *)
(* with the main contract and the wait of a deposit.  The three are proved *)
(* together, call by call, as they rest on the same facts.                 *)
(***************************************************************************)

Kept ==
    /\ TypeOK'
    /\ PoolMirrorsMain => PoolMirrorsMain'
    /\ \A m \in Member :
          acct'[m].stake > acct[m].stake => acct'[m].last > acct[m].last

\* Of the vested amounts and of the applications that act for the members, m's
\* come to be v and x, and the others stay
Recorded(m, v, x) ==
    \A k \in Member :
        /\ acct'[k].vested = IF k = m THEN v ELSE acct[k].vested
        /\ acct'[k].app = IF k = m THEN x ELSE acct[k].app

LEMMA TakeStakeKeeps ==
    ASSUME TypeOK, NEW m \in Member, NEW amount \in Nat, NEW vestedNow \in Nat,
           NEW app \in Caller \cup {TopLevel}, NEW arrives \in BOOLEAN,
           TakeStake(m, amount, vestedNow, app, arrives),
           wallet' \in [Member -> Nat]
    PROVE  Kept /\ Recorded(m, acct[m].vested + vestedNow, app)
<1> DEFINE a == acct[m]
           moved == IF arrives THEN amount ELSE 0
           p == [Spent(pool, a) EXCEPT !.deposits = @ + amount, !.tokens = @ + moved]
           b == [Updated(pool, a) EXCEPT !.nonStake = @ + amount,
                                         !.tracker = Tracked(pool, amount, TRUE),
                                         !.vested = @ + vestedNow, !.app = app]
<1>1. /\ pool \in PoolRecords /\ a \in AccountRecords /\ main \in MainRecords
      /\ acct \in [Member -> AccountRecords] /\ age \in 0..(Timeout + 1)
  BY DEF TypeOK
<1>2. CanUpdate(pool, a) /\ CanPost(p) /\ PostMain(p)
  BY DEF TakeStake
<1>3. pool' = PostPool(p) /\ acct' = PostAccounts(p, [acct EXCEPT ![m] = b])
  BY DEF TakeStake
<1>4. p \in PoolRecords /\ p.stake = pool.stake
  <2> DEFINE q == Spent(pool, a)
  <2>1. q \in PoolRecords /\ q.stake = pool.stake
    BY <1>1, <1>2, UpdateTyped
  <2> DEFINE d == q.deposits + amount
             t == q.tokens + moved
  <2> HIDE DEF q
  <2>2. d \in Nat /\ t \in Nat
    BY <2>1 DEF PoolRecords
  <2> HIDE DEF d, t
  <2>3. [q EXCEPT !.deposits = d, !.tokens = t] \in PoolRecords
    BY <2>1, <2>2 DEF PoolRecords
  <2>4. [q EXCEPT !.deposits = d, !.tokens = t].stake = q.stake
    BY <2>1 DEF PoolRecords
  <2>5. p = [q EXCEPT !.deposits = d, !.tokens = t]
    BY DEF q, d, t
  <2> HIDE DEF p
  <2> QED BY <2>1, <2>3, <2>4, <2>5
<1>5. /\ b \in AccountRecords
      /\ b.stake > a.stake => b.last > a.last
      /\ b.vested = a.vested + vestedNow /\ b.app = app
  <2> DEFINE u == Updated(pool, a)
  <2>1. /\ u \in AccountRecords /\ (u.stake > a.stake => u.last > a.last)
        /\ u.vested = a.vested
    BY <1>1, <1>2, UpdateTyped, FoldWaits
  <2>2. Tracked(pool, amount, TRUE) \in Trackers
    BY <1>1 DEF Tracked, Trackers, PoolRecords
  <2> DEFINE n == u.nonStake + amount
             v == u.vested + vestedNow
             t == Tracked(pool, amount, TRUE)
             r == [u EXCEPT !.nonStake = n, !.tracker = t, !.vested = v, !.app = app]
  <2> HIDE DEF u
  <2>3. t \in Trackers
    BY <2>2
  <2> HIDE DEF t
  <2>7. n \in Nat /\ v \in Nat /\ v = a.vested + vestedNow
    BY <2>1 DEF AccountRecords
  <2> HIDE DEF n, v
  <2>4. r \in AccountRecords
    BY <2>1, <2>3, <2>7 DEF AccountRecords
  <2>5. r.stake = u.stake /\ r.last = u.last /\ r.vested = v /\ r.app = app
    BY <2>1 DEF AccountRecords
  <2>6. b = r
    BY DEF u, n, v, t
  <2> HIDE DEF b, r
  <2> QED BY <2>1, <2>4, <2>5, <2>6, <2>7
<1> HIDE DEF p, b
<1>6. /\ [acct EXCEPT ![m] = b] \in [Member -> AccountRecords]
      /\ \A k \in Member : [acct EXCEPT ![m] = b][k] = IF k = m THEN b ELSE acct[k]
  BY <1>1, <1>5, AccountReplaced
<1>7. /\ pool' \in PoolRecords /\ acct' \in [Member -> AccountRecords]
      /\ main' \in MainRecords /\ age' \in 0..(Timeout + 1)
      /\ pool.stake = main.stake => pool'.stake = main'.stake
      /\ \A k \in Member : /\ acct'[k].stake = [acct EXCEPT ![m] = b][k].stake
                            /\ acct'[k].last = [acct EXCEPT ![m] = b][k].last
                            /\ acct'[k].vested = [acct EXCEPT ![m] = b][k].vested
                            /\ acct'[k].app = [acct EXCEPT ![m] = b][k].app
  BY <1>1, <1>2, <1>3, <1>4, <1>6, PostTyped
<1>8. TypeOK'
  <2>1. UNCHANGED <<optedIn, earned, paid, left, overdrawn>>
    BY DEF TakeStake
  <2>2. unbacked' \in Int
    BY DEF TakeStake, TypeOK
  <2> QED BY <1>7, <2>1, <2>2 DEF TypeOK
<1>9. \A k \in Member : acct'[k].stake > acct[k].stake => acct'[k].last > acct[k].last
  <2> SUFFICES ASSUME NEW k \in Member, acct'[k].stake > acct[k].stake
               PROVE  acct'[k].last > acct[k].last
    OBVIOUS
  <2>1. acct[k].stake \in Nat
    BY <1>1 DEF AccountRecords
  <2>2. CASE k = m
    BY <1>5, <1>6, <1>7, <2>2
  <2>3. CASE k # m
    BY <1>6, <1>7, <2>1, <2>3
  <2> QED BY <2>2, <2>3
<1>10. Recorded(m, acct[m].vested + vestedNow, app)
  BY <1>5, <1>6, <1>7 DEF Recorded
<1> QED BY <1>7, <1>8, <1>9, <1>10 DEF Kept, PoolMirrorsMain

LEMMA UnstakeKeeps ==
    ASSUME TypeOK, NEW m \in Member, NEW amount \in Nat, Unstake(m, amount)
    PROVE  Kept /\ Recorded(m, acct[m].vested, acct[m].app)
<1> DEFINE a == acct[m]
           p == [Spent(pool, a) EXCEPT !.withdrawals = @ + amount]
           b == [Updated(pool, a) EXCEPT !.tracker = Tracked(pool, amount, FALSE)]
<1>1. /\ pool \in PoolRecords /\ a \in AccountRecords /\ main \in MainRecords
      /\ acct \in [Member -> AccountRecords] /\ age \in 0..(Timeout + 1)
  BY DEF TypeOK
<1>2. CanUpdate(pool, a) /\ CanPost(p) /\ PostMain(p)
  BY DEF Unstake
<1>3. pool' = PostPool(p) /\ acct' = PostAccounts(p, [acct EXCEPT ![m] = b])
  BY DEF Unstake
<1>4. p \in PoolRecords /\ p.stake = pool.stake
  <2> DEFINE q == Spent(pool, a)
             w == q.withdrawals + amount
  <2>1. q \in PoolRecords /\ q.stake = pool.stake
    BY <1>1, <1>2, UpdateTyped
  <2> HIDE DEF q
  <2>2. w \in Nat
    BY <2>1 DEF PoolRecords
  <2>3. p = [q EXCEPT !.withdrawals = w]
    BY DEF q
  <2> HIDE DEF p, w
  <2> QED BY <2>1, <2>2, <2>3 DEF PoolRecords
<1>5. /\ b \in AccountRecords
      /\ b.stake > a.stake => b.last > a.last
      /\ b.vested = a.vested /\ b.app = a.app
  <2> DEFINE u == Updated(pool, a)
             t == Tracked(pool, amount, FALSE)
  <2>1. /\ u \in AccountRecords /\ (u.stake > a.stake => u.last > a.last)
        /\ u.vested = a.vested /\ u.app = a.app
    BY <1>1, <1>2, UpdateTyped, FoldWaits
  <2>2. t \in Trackers
    BY <1>1 DEF Tracked, Trackers, PoolRecords
  <2>3. b = [u EXCEPT !.tracker = t]
    OBVIOUS
  <2> HIDE DEF u, t, b
  <2> QED BY <2>1, <2>2, <2>3 DEF AccountRecords
<1> HIDE DEF p, b
<1>6. /\ [acct EXCEPT ![m] = b] \in [Member -> AccountRecords]
      /\ \A k \in Member : [acct EXCEPT ![m] = b][k] = IF k = m THEN b ELSE acct[k]
  BY <1>1, <1>5, AccountReplaced
<1>7. /\ pool' \in PoolRecords /\ acct' \in [Member -> AccountRecords]
      /\ main' \in MainRecords /\ age' \in 0..(Timeout + 1)
      /\ pool.stake = main.stake => pool'.stake = main'.stake
      /\ \A k \in Member : /\ acct'[k].stake = [acct EXCEPT ![m] = b][k].stake
                            /\ acct'[k].last = [acct EXCEPT ![m] = b][k].last
                            /\ acct'[k].vested = [acct EXCEPT ![m] = b][k].vested
                            /\ acct'[k].app = [acct EXCEPT ![m] = b][k].app
  BY <1>1, <1>2, <1>3, <1>4, <1>6, PostTyped
<1>8. TypeOK'
  <2>1. UNCHANGED <<optedIn, wallet, earned, paid, left, unbacked>>
    BY DEF Unstake
  <2>2. overdrawn' \in BOOLEAN
    BY DEF Unstake, TypeOK
  <2> QED BY <1>7, <2>1, <2>2 DEF TypeOK
<1>9. \A k \in Member : acct'[k].stake > acct[k].stake => acct'[k].last > acct[k].last
  <2> SUFFICES ASSUME NEW k \in Member, acct'[k].stake > acct[k].stake
               PROVE  acct'[k].last > acct[k].last
    OBVIOUS
  <2>1. acct[k].stake \in Nat
    BY <1>1 DEF AccountRecords
  <2>2. CASE k = m
    BY <1>5, <1>6, <1>7, <2>2
  <2>3. CASE k # m
    BY <1>6, <1>7, <2>1, <2>3
  <2> QED BY <2>2, <2>3
<1>10. Recorded(m, acct[m].vested, acct[m].app)
  BY <1>5, <1>6, <1>7 DEF Recorded
<1> QED BY <1>7, <1>8, <1>9, <1>10 DEF Kept, PoolMirrorsMain

LEMMA UserClaimKeeps ==
    ASSUME TypeOK, NEW m \in Member, UserClaim(m)
    PROVE  Kept /\ Recorded(m, acct[m].vested, acct[m].app)
<1> DEFINE p == PostPool(pool)
           accts == PostAccounts(pool, acct)
           a == accts[m]
           due == Updated(p, a).rewards
           b == [Updated(p, a) EXCEPT !.rewards = 0, !.tracker = Tracked(p, 0, FALSE)]
<1>1. /\ pool \in PoolRecords /\ main \in MainRecords
      /\ acct \in [Member -> AccountRecords] /\ age \in 0..(Timeout + 1)
      /\ wallet \in [Member -> Nat] /\ paid \in Nat
  BY DEF TypeOK
<1>2. CanPost(pool) /\ PostMain(pool) /\ CanUpdate(p, a) /\ due <= p.tokens
  BY DEF UserClaim
<1>3. /\ p \in PoolRecords /\ accts \in [Member -> AccountRecords]
      /\ main' \in MainRecords /\ age' \in 0..(Timeout + 1)
      /\ pool.stake = main.stake => p.stake = main'.stake
      /\ \A k \in Member : /\ accts[k].stake = acct[k].stake
                            /\ accts[k].last = acct[k].last
                            /\ accts[k].vested = acct[k].vested
                            /\ accts[k].app = acct[k].app
  BY <1>1, <1>2, PostTyped
<1>4. /\ pool' = [Spent(p, a) EXCEPT !.tokens = @ - due]
      /\ acct' = [accts EXCEPT ![m] = b]
      /\ wallet' = [wallet EXCEPT ![m] = @ + due]
      /\ paid' = paid + due
      /\ UNCHANGED <<optedIn, earned, left, overdrawn, unbacked>>
  BY DEF UserClaim
<1> HIDE DEF p, accts
<1>5. a \in AccountRecords
  BY <1>3
<1>6. /\ Spent(p, a) \in PoolRecords /\ Spent(p, a).stake = p.stake
      /\ Updated(p, a) \in AccountRecords
      /\ Updated(p, a).stake > a.stake => Updated(p, a).last > a.last
      /\ Updated(p, a).vested = a.vested /\ Updated(p, a).app = a.app
  BY <1>2, <1>3, <1>5, UpdateTyped, FoldWaits
<1>7. Spent(p, a).tokens = p.tokens /\ p.tokens \in Nat
  BY <1>3 DEF Spent, PoolRecords
<1>8. due \in Nat
  BY <1>6 DEF AccountRecords
<1>9. pool' \in PoolRecords /\ pool'.stake = p.stake
  <2> DEFINE q == Spent(p, a)
             t == q.tokens - due
  <2>1. t \in Nat /\ q \in PoolRecords /\ q.stake = p.stake
    BY <1>2, <1>6, <1>7, <1>8
  <2>2. pool' = [q EXCEPT !.tokens = t]
    BY <1>4
  <2> HIDE DEF q, t
  <2> QED BY <2>1, <2>2 DEF PoolRecords
<1>10. /\ b \in AccountRecords /\ (b.stake > a.stake => b.last > a.last)
       /\ b.vested = a.vested /\ b.app = a.app
  <2> DEFINE u == Updated(p, a)
             t == Tracked(p, 0, FALSE)
  <2>1. /\ u \in AccountRecords /\ (u.stake > a.stake => u.last > a.last)
        /\ u.vested = a.vested /\ u.app = a.app
    BY <1>6
  <2>2. t \in Trackers
    BY <1>3 DEF Tracked, Trackers, PoolRecords
  <2>3. b = [u EXCEPT !.rewards = 0, !.tracker = t]
    OBVIOUS
  <2> HIDE DEF u, t, b
  <2> QED BY <2>1, <2>2, <2>3 DEF AccountRecords
<1>11. wallet' \in [Member -> Nat] /\ paid' \in Nat
  BY <1>1, <1>4, <1>8
<1> HIDE DEF b, due
<1>12. acct' \in [Member -> AccountRecords]
  BY <1>3, <1>4, <1>10
<1>13. TypeOK'
  BY <1>3, <1>4, <1>9, <1>11, <1>12 DEF TypeOK
<1>14. \A k \in Member : acct'[k].stake > acct[k].stake => acct'[k].last > acct[k].last
  <2> SUFFICES ASSUME NEW k \in Member, acct'[k].stake > acct[k].stake
               PROVE  acct'[k].last > acct[k].last
    OBVIOUS
  <2>1. acct[k].stake \in Nat
    BY <1>1 DEF AccountRecords
  <2>2. CASE k = m
    BY <1>3, <1>4, <1>10, <2>2
  <2>3. CASE k # m
    BY <1>3, <1>4, <2>1, <2>3
  <2> QED BY <2>2, <2>3
<1>15. Recorded(m, acct[m].vested, acct[m].app)
  BY <1>3, <1>4, <1>10 DEF Recorded
<1> QED BY <1>3, <1>9, <1>13, <1>14, <1>15 DEF Kept, PoolMirrorsMain

LEMMA WithdrawNonStakeKeeps ==
    ASSUME TypeOK, NEW m \in Member, WithdrawNonStake(m)
    PROVE  Kept /\ Recorded(m, acct[m].vested, acct[m].app)
<1> DEFINE a == acct[m]
           p == Spent(pool, a)
           b == Updated(pool, a)
           accts == PostAccounts(p, [acct EXCEPT ![m] = b])
           due == accts[m].nonStake - a.vested
           c == [accts[m] EXCEPT !.nonStake = 0]
<1>1. /\ pool \in PoolRecords /\ a \in AccountRecords /\ main \in MainRecords
      /\ acct \in [Member -> AccountRecords] /\ age \in 0..(Timeout + 1)
      /\ wallet \in [Member -> Nat]
  BY DEF TypeOK
<1>2. CanUpdate(pool, a) /\ CanPost(p) /\ PostMain(p)
  BY DEF WithdrawNonStake
<1>3. 0 <= due /\ due <= PostPool(p).tokens
  BY DEF WithdrawNonStake
<1>4. /\ pool' = [PostPool(p) EXCEPT !.tokens = @ - due]
      /\ acct' = [accts EXCEPT ![m].nonStake = 0]
      /\ wallet' = [wallet EXCEPT ![m] = @ + due]
      /\ UNCHANGED <<optedIn, earned, paid, left, overdrawn>>
      /\ unbacked' = unbacked - a.vested
  BY DEF WithdrawNonStake
<1>5. /\ p \in PoolRecords /\ p.stake = pool.stake /\ b \in AccountRecords
      /\ b.stake > a.stake => b.last > a.last
      /\ b.vested = a.vested /\ b.app = a.app
  BY <1>1, <1>2, UpdateTyped, FoldWaits
<1> HIDE DEF p, b
<1>6. /\ [acct EXCEPT ![m] = b] \in [Member -> AccountRecords]
      /\ \A k \in Member : [acct EXCEPT ![m] = b][k] = IF k = m THEN b ELSE acct[k]
  BY <1>1, <1>5, AccountReplaced
<1>7. /\ PostPool(p) \in PoolRecords /\ accts \in [Member -> AccountRecords]
      /\ main' \in MainRecords /\ age' \in 0..(Timeout + 1)
      /\ pool.stake = main.stake => PostPool(p).stake = main'.stake
      /\ \A k \in Member : /\ accts[k].stake = [acct EXCEPT ![m] = b][k].stake
                            /\ accts[k].last = [acct EXCEPT ![m] = b][k].last
                            /\ accts[k].vested = [acct EXCEPT ![m] = b][k].vested
                            /\ accts[k].app = [acct EXCEPT ![m] = b][k].app
  BY <1>1, <1>2, <1>5, <1>6, PostTyped
<1> HIDE DEF accts
<1>8. due \in Nat
  BY <1>1, <1>3, <1>7 DEF AccountRecords
<1>9. pool' \in PoolRecords /\ pool'.stake = PostPool(p).stake
  <2> DEFINE q == PostPool(p)
             t == q.tokens - due
  <2> HIDE DEF due
  <2>1. q \in PoolRecords /\ t \in Nat
    BY <1>3, <1>7, <1>8 DEF PoolRecords
  <2>2. pool' = [q EXCEPT !.tokens = t]
    BY <1>4
  <2> HIDE DEF q, t
  <2>3. pool'.stake = q.stake /\ pool' \in PoolRecords
    BY <2>1, <2>2 DEF PoolRecords
  <2> QED BY <2>3 DEF q
<1>10. /\ c \in AccountRecords /\ c.stake = accts[m].stake /\ c.last = accts[m].last
       /\ c.vested = accts[m].vested /\ c.app = accts[m].app
  BY <1>7 DEF AccountRecords
<1>11. acct' = [accts EXCEPT ![m] = c]
  BY <1>4
<1>12. wallet' \in [Member -> Nat]
  BY <1>1, <1>4, <1>8
<1> HIDE DEF c, due
<1>13. /\ acct' \in [Member -> AccountRecords]
       /\ \A k \in Member : /\ acct'[k].stake = accts[k].stake
                             /\ acct'[k].last = accts[k].last
  BY <1>7, <1>10, <1>11
<1>16. unbacked' \in Int
  BY <1>1, <1>4 DEF TypeOK, AccountRecords
<1>14. TypeOK'
  BY <1>4, <1>7, <1>9, <1>12, <1>13, <1>16 DEF TypeOK
<1>15. \A k \in Member : acct'[k].stake > acct[k].stake => acct'[k].last > acct[k].last
  <2> SUFFICES ASSUME NEW k \in Member, acct'[k].stake > acct[k].stake
               PROVE  acct'[k].last > acct[k].last
    OBVIOUS
  <2>1. acct[k].stake \in Nat
    BY <1>1 DEF AccountRecords
  <2>2. CASE k = m
    BY <1>5, <1>6, <1>7, <1>13, <2>2
  <2>3. CASE k # m
    BY <1>6, <1>7, <1>13, <2>1, <2>3
  <2> QED BY <2>2, <2>3
<1>17. Recorded(m, acct[m].vested, acct[m].app)
  BY <1>5, <1>6, <1>7, <1>10, <1>11 DEF Recorded
<1> QED BY <1>7, <1>9, <1>14, <1>15, <1>17 DEF Kept, PoolMirrorsMain

\* The call on behalf of m: it takes what was vested, and only that
LEMMA WithdrawVestedKeeps ==
    ASSUME TypeOK, NEW m \in Member, NEW caller \in Caller,
           WithdrawVested(m, caller)
    PROVE  Kept /\ Recorded(m, 0, caller)
<1> DEFINE a == acct[m]
           p == Spent(pool, a)
           b == Updated(pool, a)
           accts == PostAccounts(p, [acct EXCEPT ![m] = b])
           due == a.vested
           c == [accts[m] EXCEPT !.vested = 0, !.app = caller]
<1>1. /\ pool \in PoolRecords /\ a \in AccountRecords /\ main \in MainRecords
      /\ acct \in [Member -> AccountRecords] /\ age \in 0..(Timeout + 1)
      /\ wallet \in [Member -> Nat]
  BY DEF TypeOK
<1>2. CanUpdate(pool, a) /\ CanPost(p) /\ PostMain(p)
  BY DEF WithdrawVested
<1>3. due <= PostPool(p).tokens
  BY DEF WithdrawVested
<1>4. /\ pool' = [PostPool(p) EXCEPT !.tokens = @ - due]
      /\ acct' = [accts EXCEPT ![m].vested = 0, ![m].app = caller]
      /\ \/ wallet' = wallet
         \/ \E sender \in Member : wallet' = [wallet EXCEPT ![sender] = @ + due]
      /\ UNCHANGED <<optedIn, earned, paid, left, overdrawn>>
      /\ unbacked' = unbacked + a.vested
  BY DEF WithdrawVested
<1>5. /\ p \in PoolRecords /\ p.stake = pool.stake /\ b \in AccountRecords
      /\ b.stake > a.stake => b.last > a.last
      /\ b.vested = a.vested /\ b.app = a.app
  BY <1>1, <1>2, UpdateTyped, FoldWaits
<1> HIDE DEF p, b
<1>6. /\ [acct EXCEPT ![m] = b] \in [Member -> AccountRecords]
      /\ \A k \in Member : [acct EXCEPT ![m] = b][k] = IF k = m THEN b ELSE acct[k]
  BY <1>1, <1>5, AccountReplaced
<1>7. /\ PostPool(p) \in PoolRecords /\ accts \in [Member -> AccountRecords]
      /\ main' \in MainRecords /\ age' \in 0..(Timeout + 1)
      /\ pool.stake = main.stake => PostPool(p).stake = main'.stake
      /\ \A k \in Member : /\ accts[k].stake = [acct EXCEPT ![m] = b][k].stake
                            /\ accts[k].last = [acct EXCEPT ![m] = b][k].last
                            /\ accts[k].vested = [acct EXCEPT ![m] = b][k].vested
                            /\ accts[k].app = [acct EXCEPT ![m] = b][k].app
  BY <1>1, <1>2, <1>5, <1>6, PostTyped
<1> HIDE DEF accts
<1>8. due \in Nat
  BY <1>1 DEF AccountRecords
<1>9. pool' \in PoolRecords /\ pool'.stake = PostPool(p).stake
  <2> DEFINE q == PostPool(p)
             t == q.tokens - due
  <2> HIDE DEF due
  <2>1. q \in PoolRecords /\ t \in Nat
    BY <1>3, <1>7, <1>8 DEF PoolRecords
  <2>2. pool' = [q EXCEPT !.tokens = t]
    BY <1>4
  <2> HIDE DEF q, t
  <2>3. pool'.stake = q.stake /\ pool' \in PoolRecords
    BY <2>1, <2>2 DEF PoolRecords
  <2> QED BY <2>3 DEF q
<1>10. /\ c \in AccountRecords /\ c.stake = accts[m].stake /\ c.last = accts[m].last
       /\ c.vested = 0 /\ c.app = caller
  BY <1>7 DEF AccountRecords
<1>11. acct' = [accts EXCEPT ![m] = c]
  BY <1>4, <1>7
<1>12. wallet' \in [Member -> Nat]
  BY <1>1, <1>4, <1>8
<1> HIDE DEF c, due
<1>13. /\ acct' \in [Member -> AccountRecords]
       /\ \A k \in Member : /\ acct'[k].stake = accts[k].stake
                             /\ acct'[k].last = accts[k].last
  BY <1>7, <1>10, <1>11
<1>16. unbacked' \in Int
  BY <1>1, <1>4 DEF TypeOK, AccountRecords
<1>14. TypeOK'
  BY <1>4, <1>7, <1>9, <1>12, <1>13, <1>16 DEF TypeOK
<1>15. \A k \in Member : acct'[k].stake > acct[k].stake => acct'[k].last > acct[k].last
  <2> SUFFICES ASSUME NEW k \in Member, acct'[k].stake > acct[k].stake
               PROVE  acct'[k].last > acct[k].last
    OBVIOUS
  <2>1. acct[k].stake \in Nat
    BY <1>1 DEF AccountRecords
  <2>2. CASE k = m
    BY <1>5, <1>6, <1>7, <1>13, <2>2
  <2>3. CASE k # m
    BY <1>6, <1>7, <1>13, <2>1, <2>3
  <2> QED BY <2>2, <2>3
<1>17. Recorded(m, 0, caller)
  BY <1>5, <1>6, <1>7, <1>10, <1>11 DEF Recorded
<1> QED BY <1>7, <1>9, <1>14, <1>15, <1>17 DEF Kept, PoolMirrorsMain

\* Aggregation by hand is the one of the other calls, without a call.
LEMMA ManualKeeps ==
    ASSUME TypeOK, NEW m \in Member, ManualProcessAggregation(m)
    PROVE  Kept /\ Recorded(m, acct[m].vested, acct[m].app)
<1>1. /\ pool \in PoolRecords /\ main \in MainRecords
      /\ acct \in [Member -> AccountRecords] /\ age \in 0..(Timeout + 1)
  BY DEF TypeOK
<1>2. CanPost(pool) /\ PostMain(pool)
  BY DEF ManualProcessAggregation, CanPost
<1>3. pool' = PostPool(pool) /\ acct' = PostAccounts(pool, acct)
  BY DEF ManualProcessAggregation, PostPool, PostAccounts
<1>4. /\ pool' \in PoolRecords /\ acct' \in [Member -> AccountRecords]
      /\ main' \in MainRecords /\ age' \in 0..(Timeout + 1)
      /\ pool.stake = main.stake => pool'.stake = main'.stake
      /\ \A k \in Member : /\ acct'[k].stake = acct[k].stake
                            /\ acct'[k].vested = acct[k].vested
                            /\ acct'[k].app = acct[k].app
  BY <1>1, <1>2, <1>3, PostTyped
<1>5. TypeOK'
  BY <1>4 DEF TypeOK, ManualProcessAggregation, history
<1>6. \A k \in Member : ~(acct'[k].stake > acct[k].stake)
  BY <1>1, <1>4 DEF AccountRecords
<1> QED BY <1>4, <1>5, <1>6 DEF Kept, PoolMirrorsMain, Recorded

\* The calls that fold nothing.
LEMMA OtherStepsKeep ==
    ASSUME TypeOK, [Next]_vars,
           ~ \E m \in Member :
               \/ UserClaim(m) \/ WithdrawNonStake(m) \/ ManualProcessAggregation(m)
               \/ \E amount \in Amount :
                     Unstake(m, amount) \/ \E arrives \in BOOLEAN : Stake(m, amount, arrives)
               \/ \E caller \in Caller : BehalfStep(m, caller)
    PROVE  Kept
<1>1. /\ pool \in PoolRecords /\ main \in MainRecords /\ Timeout \in Nat
      /\ acct \in [Member -> AccountRecords] /\ age \in 0..(Timeout + 1)
  BY DelegatorAssumption DEF TypeOK
<1>2. \A round \in Nat : Fresh(round) \in AccountRecords /\ Fresh(round).stake = 0
  BY DEF Fresh, AccountRecords, Trackers, TopLevel
<1>3. ASSUME NEW m \in Member, NEW round \in Nat, acct' = [acct EXCEPT ![m] = Fresh(round)]
      PROVE  /\ acct' \in [Member -> AccountRecords]
             /\ \A k \in Member : ~(acct'[k].stake > acct[k].stake)
  <2> DEFINE b == Fresh(round)
  <2>1. b \in AccountRecords /\ b.stake = 0
    BY <1>2
  <2>2. \A k \in Member : acct[k].stake \in Nat
    BY <1>1 DEF AccountRecords
  <2> HIDE DEF b
  <2>3. acct' = [acct EXCEPT ![m] = b]
    BY <1>3 DEF b
  <2> QED BY <1>1, <2>1, <2>2, <2>3
<1>4. ASSUME acct' = acct
      PROVE  \A k \in Member : ~(acct'[k].stake > acct[k].stake)
  BY <1>1, <1>4 DEF AccountRecords
<1>5. ASSUME NEW m \in Member, OptIn(m)
      PROVE  Kept
  <2>1. acct' = [acct EXCEPT ![m] = Fresh(pool.round)] /\ pool.round \in Nat
    BY <1>1, <1>5 DEF OptIn, PoolRecords
  <2>2. UNCHANGED <<age, pool, main, wallet, history>> /\ optedIn' = optedIn \cup {m}
    BY <1>5 DEF OptIn
  <2> QED BY <1>3, <2>1, <2>2 DEF Kept, TypeOK, PoolMirrorsMain, history
<1>6. ASSUME NEW m \in Member, ClearState(m)
      PROVE  Kept
  <2>1. /\ acct' = [acct EXCEPT ![m] = Fresh(0)]
        /\ UNCHANGED <<age, pool, main, wallet, earned, paid, overdrawn, unbacked>>
        /\ optedIn' = optedIn \ {m}
    BY <1>6 DEF ClearState
  <2>2. left' \in [stake : Int, principal : Int]
    <3> DEFINE a == acct[m]
    <3>1. a.stake \in Nat /\ a.nonStake \in Nat
      BY <1>1 DEF AccountRecords
    <3>2. Deposited(a) \in Nat /\ Withdrawn(a) \in Nat
      BY <1>1 DEF AccountRecords, Trackers, Deposited, Withdrawn
    <3>3. FoldedStake(a) \in Int /\ Principal(a) \in Int
      BY <3>1, <3>2 DEF FoldedStake, Principal
    <3> QED BY <1>6, <3>3 DEF ClearState, TypeOK
  <2> QED BY <1>3, <2>1, <2>2 DEF Kept, TypeOK, PoolMirrorsMain
<1>7. ASSUME NEW m \in Member, NEW b \in Manager, NEW share \in ManagerShare,
             ConfigureSettings(m, b, share)
      PROVE  Kept
  <2>1. share \in Nat
    BY DelegatorAssumption
  <2>2. pool' = [pool EXCEPT !.manager = b, !.share = share]
    BY <1>7 DEF ConfigureSettings
  <2>4. pool' \in PoolRecords
    <3> DEFINE q == [pool EXCEPT !.manager = b]
    <3>1. q \in PoolRecords
      BY <1>1 DEF PoolRecords
    <3>2. pool' = [q EXCEPT !.share = share]
      BY <1>1, <2>2 DEF PoolRecords
    <3> HIDE DEF q
    <3>3. [q EXCEPT !.share = share] \in PoolRecords
      BY <2>1, <3>1 DEF PoolRecords
    <3> QED BY <3>2, <3>3
  <2>5. pool'.stake = pool.stake
    BY <1>1, <2>2 DEF PoolRecords
  <2>3. UNCHANGED <<age, optedIn, acct, main, wallet, history>>
    BY <1>7 DEF ConfigureSettings
  <2> QED BY <1>4, <2>3, <2>4, <2>5 DEF Kept, TypeOK, PoolMirrorsMain, history
<1>8. ASSUME NextRound
      PROVE  Kept
  <2>1. age' \in 0..(Timeout + 1)
    BY <1>1, <1>8 DEF NextRound
  <2>2. main' \in MainRecords /\ main'.stake = main.stake
    BY <1>1, <1>8 DEF NextRound, MainRecords
  <2>3. UNCHANGED <<pool, optedIn, acct, wallet, history>>
    BY <1>8 DEF NextRound
  <2> QED BY <1>4, <2>1, <2>2, <2>3 DEF Kept, TypeOK, PoolMirrorsMain, history
<1>9. ASSUME NEW amount \in Reward, EarnRewards(amount)
      PROVE  Kept
  <2>1. amount \in Nat
    BY DelegatorAssumption
  <2>2. main' \in MainRecords /\ main'.stake = main.stake
    BY <1>1, <1>9, <2>1 DEF EarnRewards, MainRecords
  <2>3. UNCHANGED <<age, pool, optedIn, acct, wallet, paid, left, overdrawn, unbacked>>
    BY <1>9 DEF EarnRewards
  <2>4. earned' \in Nat
    BY <1>9, <2>1 DEF EarnRewards, TypeOK
  <2> QED BY <1>4, <2>2, <2>3, <2>4 DEF Kept, TypeOK, PoolMirrorsMain
<1>10. ASSUME UNCHANGED vars
       PROVE  Kept
  BY <1>4, <1>10 DEF Kept, TypeOK, PoolMirrorsMain, vars, history
<1> QED BY <1>5, <1>6, <1>7, <1>8, <1>9, <1>10 DEF Next, MemberStep

\* A transfer moves tokens out of a wallet, or none.
LEMMA TransferTyped ==
    ASSUME TypeOK, NEW payer \in Member, NEW amount \in Nat, NEW arrives \in BOOLEAN,
           Transfer(payer, amount, arrives)
    PROVE  wallet' \in [Member -> Nat]
<1>1. wallet \in [Member -> Nat] /\ amount <= wallet[payer]
  BY DEF TypeOK, Transfer
<1>2. wallet[payer] - amount \in Nat
  BY <1>1
<1> QED BY <1>1, <1>2 DEF Transfer

LEMMA StakeKeeps ==
    ASSUME TypeOK, NEW m \in Member, NEW amount \in Nat, NEW arrives \in BOOLEAN,
           Stake(m, amount, arrives)
    PROVE  Kept /\ Recorded(m, acct[m].vested, acct[m].app)
<1>1. acct[m].app \in Caller \cup {TopLevel}
  BY DEF TypeOK, AccountRecords
<1>2. TakeStake(m, amount, 0, acct[m].app, arrives) /\ wallet' \in [Member -> Nat]
  BY TransferTyped DEF Stake
<1>3. Kept /\ Recorded(m, acct[m].vested + 0, acct[m].app)
  BY <1>1, <1>2, TakeStakeKeeps
<1>4. acct[m].vested + 0 = acct[m].vested
  BY DEF TypeOK, AccountRecords
<1> QED BY <1>3, <1>4

LEMMA StakeVestedKeeps ==
    ASSUME TypeOK, NEW m \in Member, NEW amount \in Nat, NEW caller \in Caller,
           NEW arrives \in BOOLEAN, StakeVested(m, amount, caller, arrives)
    PROVE  Kept /\ Recorded(m, acct[m].vested + amount, caller)
<1>1. TakeStake(m, amount, amount, caller, arrives) /\ caller \in Caller \cup {TopLevel}
  BY DEF StakeVested
<1>2. wallet' \in [Member -> Nat]
  BY TransferTyped DEF StakeVested, TypeOK
<1> QED BY <1>1, <1>2, TakeStakeKeeps

LEMMA BehalfKeeps ==
    ASSUME TypeOK, NEW m \in Member, NEW caller \in Caller, BehalfStep(m, caller)
    PROVE  /\ Kept
           /\ MayActFor(m, caller)
           /\ \E v \in Nat : Recorded(m, v, caller)
<1>1. ASSUME NEW amount \in Amount, NEW arrives \in BOOLEAN,
             StakeVested(m, amount, caller, arrives)
      PROVE  /\ Kept
             /\ MayActFor(m, caller)
             /\ \E v \in Nat : Recorded(m, v, caller)
  <2>1. amount \in Nat /\ acct[m].vested + amount \in Nat
    BY DelegatorAssumption DEF TypeOK, AccountRecords
  <2>2. Kept /\ Recorded(m, acct[m].vested + amount, caller)
    BY <1>1, <2>1, StakeVestedKeeps
  <2>3. MayActFor(m, caller)
    BY <1>1 DEF StakeVested
  <2> QED BY <2>1, <2>2, <2>3
<1>2. ASSUME WithdrawVested(m, caller)
      PROVE  /\ Kept
             /\ MayActFor(m, caller)
             /\ \E v \in Nat : Recorded(m, v, caller)
  <2>1. MayActFor(m, caller)
    BY <1>2 DEF WithdrawVested
  <2> QED BY <1>2, <2>1, WithdrawVestedKeeps
<1> QED BY <1>1, <1>2 DEF BehalfStep

\* One step of the specification
LEMMA StepKeeps ==
    ASSUME TypeOK, [Next]_vars
    PROVE  Kept
<1>1. ASSUME NEW m \in Member, NEW amount \in Amount, NEW arrives \in BOOLEAN,
             Stake(m, amount, arrives)
      PROVE  Kept
  <2>1. amount \in Nat
    BY DelegatorAssumption
  <2> QED BY <1>1, <2>1, StakeKeeps
<1>2. ASSUME NEW m \in Member, NEW amount \in Amount, Unstake(m, amount)
      PROVE  Kept
  <2>1. amount \in Nat
    BY DelegatorAssumption
  <2> QED BY <1>2, <2>1, UnstakeKeeps
<1> QED BY <1>1, <1>2, UserClaimKeeps, WithdrawNonStakeKeeps, ManualKeeps, BehalfKeeps,
           OtherStepsKeep

\* The calls that members send for themselves leave what is vested as it is, but
\* for a clear-state.
LEMMA MemberStepRecorded ==
    ASSUME TypeOK, NEW m \in Member, MemberStep(m),
           \A k \in Member \ optedIn : acct[k] = Fresh(0)
    PROVE  \A k \in Member \ Leaver :
              acct'[k].vested = acct[k].vested /\ acct'[k].app = acct[k].app
<1> DEFINE Same == \A k \in Member \ Leaver :
                      acct'[k].vested = acct[k].vested /\ acct'[k].app = acct[k].app
<1>1. ASSUME Recorded(m, acct[m].vested, acct[m].app) PROVE Same
  BY <1>1 DEF Recorded
<1>2. CASE OptIn(m)
  <2>1. /\ m \notin optedIn /\ acct \in [Member -> AccountRecords]
        /\ acct' = [acct EXCEPT ![m] = Fresh(pool.round)]
    BY <1>2 DEF OptIn, TypeOK
  <2>2. /\ acct[m].vested = 0 /\ acct[m].app = TopLevel
        /\ acct'[m].vested = 0 /\ acct'[m].app = TopLevel
    BY <2>1 DEF Fresh
  <2> QED BY <2>1, <2>2
<1>3. CASE ClearState(m)
  BY <1>3 DEF ClearState, TypeOK
<1>4. CASE UserClaim(m)
  BY <1>1, <1>4, UserClaimKeeps
<1>5. CASE WithdrawNonStake(m)
  BY <1>1, <1>5, WithdrawNonStakeKeeps
<1>6. CASE ManualProcessAggregation(m)
  BY <1>1, <1>6, ManualKeeps
<1>7. ASSUME NEW amount \in Amount, NEW arrives \in BOOLEAN, Stake(m, amount, arrives)
      PROVE  Same
  BY <1>1, <1>7, StakeKeeps, DelegatorAssumption
<1>8. ASSUME NEW amount \in Amount, Unstake(m, amount) PROVE Same
  BY <1>1, <1>8, UnstakeKeeps, DelegatorAssumption
<1>9. ASSUME NEW b \in Manager, NEW share \in ManagerShare, ConfigureSettings(m, b, share)
      PROVE  Same
  BY <1>9 DEF ConfigureSettings
<1> QED BY <1>2, <1>3, <1>4, <1>5, <1>6, <1>7, <1>8, <1>9 DEF MemberStep

LEMMA InitTyped == Init => TypeOK
<1> SUFFICES ASSUME Init PROVE TypeOK
  OBVIOUS
<1>1. acct \in [Member -> AccountRecords]
  BY DEF Init, Fresh, AccountRecords, Trackers, TopLevel
<1>2. pool \in PoolRecords /\ main \in MainRecords
  BY DelegatorAssumption DEF Init, PoolRecords, MainRecords
<1>3. /\ Timeout \in Nat /\ age \in 0..(Timeout + 1)
      /\ wallet \in [Member -> Nat] /\ optedIn \subseteq Member
  BY DelegatorAssumption DEF Init
<1>4. earned \in Nat /\ paid \in Nat /\ unbacked \in Int
  BY DEF Init
<1>6. overdrawn \in BOOLEAN
  BY DEF Init
<1>5. left \in [stake : Int, principal : Int]
  BY DEF Init
<1> QED BY <1>1, <1>2, <1>3, <1>4, <1>5, <1>6 DEF TypeOK

-----------------------------------------------------------------------------
\* Type correctness: no unsigned subtraction of the delegator goes below zero,
\* as each is guarded where it is made or by what process_aggregation compares.
THEOREM DelegatorTypeCorrect == Spec => []TypeOK
<1>1. TypeOK /\ [Next]_vars => TypeOK'
  BY StepKeeps DEF Kept
<1> QED BY <1>1, InitTyped, PTL DEF Spec

\* The stake the delegator books for its members is the stake it has at the main
\* contract, after any interleaving of calls, aggregations and rewards.
THEOREM PoolMirrors == Spec => []PoolMirrorsMain
<1>1. Init => PoolMirrorsMain
  BY DEF Init, PoolMirrorsMain
<1>2. TypeOK /\ PoolMirrorsMain /\ [Next]_vars => PoolMirrorsMain'
  BY StepKeeps DEF Kept
<1> QED BY <1>1, <1>2, DelegatorTypeCorrect, PTL DEF Spec

\* A deposit becomes part of a stake only in a later aggregation round.
THEOREM DepositsHaveWaited == Spec => DepositsWait
<1>1. TypeOK /\ [Next]_vars =>
        [\A m \in Member :
            acct'[m].stake > acct[m].stake => acct'[m].last > acct[m].last]_vars
  BY StepKeeps DEF Kept
<1> QED BY <1>1, DelegatorTypeCorrect, PTL DEF Spec, DepositsWait
=============================================================================
