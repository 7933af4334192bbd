------------------------- MODULE StakeDelegatorSums -------------------------
(***************************************************************************)
(* The stake delegator's books: what the pool holds, stakes and has        *)
(* pending, against the sums of what its members have, for any number of   *)
(* members, amounts, rewards, shares, timeouts and rounds.                 *)
(***************************************************************************)
EXTENDS StakeDelegatorProofs, SumsProofs

(***************************************************************************)
(* A call changes the pool and the caller's account and may then aggregate *)
(* (or, user_claim, the other way round), so what the books say is stated  *)
(* for any pool p, accounts acs and main account mn.                       *)
(***************************************************************************)

\* A deposit of this aggregation round: no stake time until the next one
Waiting(p, a) == IF a.last = p.round THEN Deposited(a) ELSE 0

\* The stake time a call of the account would take off the pool's, but for
\* the round its deposit waits in
Owed(p, a) == StakeTime(p, a) + Waiting(p, a)

StakesOf(acs)     == [m \in Member |-> FoldedStake(acs[m])]
PrincipalsOf(acs) == [m \in Member |-> Principal(acs[m])]
WaitingOf(p, acs) == [m \in Member |-> Waiting(p, acs[m])]
OwedOf(p, acs)    == [m \in Member |-> Owed(p, acs[m])]

\* What the pool has staked and pending beyond its members' stakes
Unowned(p, acs) ==
    p.stake + p.deposits - p.withdrawals - SumOver(StakesOf(acs), Member)

\* The tokens held and staked beyond the members' principals
Surplus(p, acs, mn) ==
    p.tokens + mn.stake + mn.token - SumOver(PrincipalsOf(acs), Member)

\* No account withdraws more than its stake, and none has been updated in a
\* round to come
Sound(p, a) == Withdrawn(a) <= a.stake /\ a.last <= p.round

\* Members own no more than the pool has, deposits that are not staked yet are
\* the members' or a leaver's, and the stake time covers what they are owed
Covered(p, acs) ==
    /\ 0 <= Unowned(p, acs)
    /\ p.deposits <= SumOver(WaitingOf(p, acs), Member) + Unowned(p, acs)
    /\ SumOver(OwedOf(p, acs), Member) <= p.stakeTime

\* The books of the pool when leavers left the given stake behind; the stake
\* time is covered only while no member unstaked more than its stake
Books(p, acs, stakeLeft, sober) ==
    /\ p.time # 0
    /\ \A m \in Member \ optedIn : acs[m] = Fresh(0)
    /\ Unowned(p, acs) = stakeLeft
    /\ sober => Covered(p, acs) /\ \A m \in Member : Sound(p, acs[m])

\* What the pool has beyond its members' principals is what leavers left
\* behind and rewards that were not paid, less what is known to be unbacked
Funded == Surplus(pool, acct, main) = left.principal + earned - paid - unbacked

\* The inductive invariant
BooksInv ==
    /\ Books(pool, acct, left.stake, ~overdrawn)
    /\ Funded

-----------------------------------------------------------------------------
(* One account *)

LEMMA BooksTyped ==
    ASSUME NEW p \in PoolRecords, NEW a \in AccountRecords
    PROVE  /\ Deposited(a) \in Nat /\ Withdrawn(a) \in Nat
           /\ FoldedStake(a) \in Int /\ Principal(a) \in Int
           /\ Waiting(p, a) \in Nat /\ StakeTime(p, a) \in Int /\ Owed(p, a) \in Int
<1>1. Deposited(a) \in Nat /\ Withdrawn(a) \in Nat
  BY DEF AccountRecords, Trackers, Deposited, Withdrawn
<1>2. a.stake \in Nat /\ a.nonStake \in Nat /\ a.last \in Nat /\ p.round \in Nat
  BY DEF AccountRecords, PoolRecords
<1>3. FoldedStake(a) \in Int /\ Principal(a) \in Int /\ Waiting(p, a) \in Nat
  BY <1>1, <1>2 DEF FoldedStake, Principal, Waiting
<1>4. FoldedStake(a) * (p.round - a.last) \in Int
  BY <1>2, <1>3
<1>5. StakeTime(p, a) \in Int
  BY <1>1, <1>4 DEF StakeTime
<1> QED BY <1>1, <1>3, <1>5 DEF Owed

\* An account that is updated in this round owes nothing until it is next
\* updated, whatever it deposits or withdraws now
LEMMA OwesNothing ==
    ASSUME NEW p \in PoolRecords, NEW a \in AccountRecords, a.last = p.round
    PROVE  Owed(p, a) = 0 /\ Waiting(p, a) = Deposited(a)
<1>1. Deposited(a) \in Nat /\ FoldedStake(a) \in Int /\ p.round \in Nat
  BY BooksTyped DEF PoolRecords
<1>2. FoldedStake(a) * (p.round - a.last) = 0
  BY <1>1
<1> QED BY <1>1, <1>2 DEF Owed, Waiting, StakeTime

\* update_stake_time folds what is pending and changes nothing the books count
LEMMA UpdatedBooks ==
    ASSUME NEW p \in PoolRecords, NEW a \in AccountRecords, CanUpdate(p, a)
    PROVE  /\ Updated(p, a) \in AccountRecords
           /\ Updated(p, a).stake = FoldedStake(a)
           /\ Updated(p, a).last = p.round
           /\ Updated(p, a).vested = a.vested
           /\ Deposited(Updated(p, a)) = 0 /\ Withdrawn(Updated(p, a)) = 0
           /\ Principal(Updated(p, a)) = Principal(a)
           /\ Waiting(p, a) = 0 /\ Owed(p, a) = StakeTime(p, a)
<1> DEFINE u == Updated(p, a)
<1>1. u \in AccountRecords
  BY UpdateTyped
<1>2. /\ u.stake = FoldedStake(a) /\ u.nonStake = FoldedNonStake(a)
      /\ u.last = p.round /\ u.vested = a.vested /\ u.tracker = FoldedTracker(p, a)
  BY DEF Updated, AccountRecords
<1> HIDE DEF u
<1>3. Deposited(u) = 0 /\ Withdrawn(u) = 0
  BY <1>2 DEF Deposited, Withdrawn, FoldedTracker, Tracked, HasTracker
<1>4. /\ Deposited(a) \in Nat /\ Withdrawn(a) \in Nat /\ a.stake \in Nat
      /\ a.nonStake \in Nat /\ StakeTime(p, a) \in Int
  BY BooksTyped DEF AccountRecords
<1>5. Principal(u) = Principal(a)
  BY <1>2, <1>4 DEF Principal, FoldedStake, FoldedNonStake
<1>6. Waiting(p, a) = 0
  <2>1. CASE a.last = p.round
    <3>1. StakeTime(p, a) + Deposited(a) = 0
      BY <2>1, OwesNothing DEF Owed, Waiting
    <3> QED BY <1>4, <2>1, <3>1 DEF CanUpdate, Waiting
  <2>2. CASE a.last # p.round
    BY <2>2 DEF Waiting
  <2> QED BY <2>1, <2>2
<1>7. Owed(p, a) = StakeTime(p, a)
  BY <1>4, <1>6 DEF Owed
<1> QED BY <1>1, <1>2, <1>3, <1>5, <1>6, <1>7 DEF u

\* One aggregation round later the account is owed its whole stake more
LEMMA OwedNext ==
    ASSUME NEW p \in PoolRecords, NEW q \in PoolRecords, q.round = p.round + 1,
           NEW a \in AccountRecords, a.last <= p.round
    PROVE  /\ Waiting(q, a) = 0
           /\ Owed(q, a) = Owed(p, a) - Waiting(p, a) + FoldedStake(a)
<1> DEFINE f == FoldedStake(a)
           i == p.round - a.last
<1>1. /\ p.round \in Nat /\ a.last \in Nat /\ f \in Int /\ i \in Int
      /\ Deposited(a) \in Nat /\ Waiting(p, a) \in Nat
  BY BooksTyped DEF PoolRecords, AccountRecords
<1>2. q.round - a.last = i + 1 /\ a.last # q.round
  BY <1>1
<1>3. Waiting(q, a) = 0
  BY <1>2 DEF Waiting
<1>4. StakeTime(q, a) = f * (i + 1) - Deposited(a) /\ StakeTime(p, a) = f * i - Deposited(a)
  BY <1>2 DEF StakeTime
<1> HIDE DEF f, i
<1>5. f * (i + 1) = f * i + f /\ f * i \in Int
  BY <1>1
<1>6. StakeTime(q, a) = StakeTime(p, a) + f /\ StakeTime(p, a) \in Int
  BY <1>1, <1>4, <1>5
<1>7. Owed(q, a) = Owed(p, a) - Waiting(p, a) + f
  BY <1>1, <1>3, <1>6 DEF Owed
<1> QED BY <1>3, <1>7 DEF f

-----------------------------------------------------------------------------
(* All accounts *)

LEMMA BookSumsTyped ==
    ASSUME NEW p \in PoolRecords, NEW acs \in [Member -> AccountRecords]
    PROVE  /\ SumOver(StakesOf(acs), Member) \in Int
           /\ SumOver(PrincipalsOf(acs), Member) \in Int
           /\ SumOver(WaitingOf(p, acs), Member) \in Nat
           /\ SumOver(OwedOf(p, acs), Member) \in Int
<1>1. IsFiniteSet(Member)
  BY DelegatorAssumption
<1>2. \A m \in Member :
         /\ StakesOf(acs)[m] \in Int /\ PrincipalsOf(acs)[m] \in Int
         /\ WaitingOf(p, acs)[m] \in Nat /\ OwedOf(p, acs)[m] \in Int
  BY BooksTyped DEF StakesOf, PrincipalsOf, WaitingOf, OwedOf
<1> QED BY <1>1, <1>2, SumInt, SumNat

\* A call that leaves the caller's account as b
LEMMA ReplacedSums ==
    ASSUME NEW p \in PoolRecords, NEW acs \in [Member -> AccountRecords],
           NEW m \in Member, NEW b \in AccountRecords
    PROVE  LET bcs == [acs EXCEPT ![m] = b]
           IN  /\ SumOver(StakesOf(bcs), Member)
                    = SumOver(StakesOf(acs), Member) - FoldedStake(acs[m]) + FoldedStake(b)
               /\ SumOver(PrincipalsOf(bcs), Member)
                    = SumOver(PrincipalsOf(acs), Member) - Principal(acs[m]) + Principal(b)
               /\ SumOver(WaitingOf(p, bcs), Member)
                    = SumOver(WaitingOf(p, acs), Member) - Waiting(p, acs[m]) + Waiting(p, b)
               /\ SumOver(OwedOf(p, bcs), Member)
                    = SumOver(OwedOf(p, acs), Member) - Owed(p, acs[m]) + Owed(p, b)
<1> DEFINE bcs == [acs EXCEPT ![m] = b]
<1>1. IsFiniteSet(Member)
  BY DelegatorAssumption
<1>2. bcs \in [Member -> AccountRecords] /\ bcs[m] = b /\ \A k \in Member \ {m} : bcs[k] = acs[k]
  OBVIOUS
<1> HIDE DEF bcs
<1>3. \A k \in Member :
         /\ FoldedStake(acs[k]) \in Int /\ FoldedStake(bcs[k]) \in Int
         /\ Principal(acs[k]) \in Int /\ Principal(bcs[k]) \in Int
         /\ Waiting(p, acs[k]) \in Int /\ Waiting(p, bcs[k]) \in Int
         /\ Owed(p, acs[k]) \in Int /\ Owed(p, bcs[k]) \in Int
  BY <1>2, BooksTyped
<1>4. SumOver(StakesOf(bcs), Member)
        = SumOver(StakesOf(acs), Member) - FoldedStake(acs[m]) + FoldedStake(b)
  <2> DEFINE f == StakesOf(acs)
             g == StakesOf(bcs)
  <2>1. /\ \A k \in Member : f[k] \in Int /\ g[k] \in Int
        /\ \A k \in Member \ {m} : g[k] = f[k]
        /\ f[m] = FoldedStake(acs[m]) /\ g[m] = FoldedStake(b)
    BY <1>2, <1>3 DEF StakesOf
  <2> HIDE DEF f, g
  <2>2. SumOver(g, Member) = SumOver(f, Member) - f[m] + g[m]
    BY <1>1, <2>1, SumChange
  <2> QED BY <2>1, <2>2 DEF f, g
<1>5. SumOver(PrincipalsOf(bcs), Member)
        = SumOver(PrincipalsOf(acs), Member) - Principal(acs[m]) + Principal(b)
  <2> DEFINE f == PrincipalsOf(acs)
             g == PrincipalsOf(bcs)
  <2>1. /\ \A k \in Member : f[k] \in Int /\ g[k] \in Int
        /\ \A k \in Member \ {m} : g[k] = f[k]
        /\ f[m] = Principal(acs[m]) /\ g[m] = Principal(b)
    BY <1>2, <1>3 DEF PrincipalsOf
  <2> HIDE DEF f, g
  <2>2. SumOver(g, Member) = SumOver(f, Member) - f[m] + g[m]
    BY <1>1, <2>1, SumChange
  <2> QED BY <2>1, <2>2 DEF f, g
<1>6. SumOver(WaitingOf(p, bcs), Member)
        = SumOver(WaitingOf(p, acs), Member) - Waiting(p, acs[m]) + Waiting(p, b)
  <2> DEFINE f == WaitingOf(p, acs)
             g == WaitingOf(p, bcs)
  <2>1. /\ \A k \in Member : f[k] \in Int /\ g[k] \in Int
        /\ \A k \in Member \ {m} : g[k] = f[k]
        /\ f[m] = Waiting(p, acs[m]) /\ g[m] = Waiting(p, b)
    BY <1>2, <1>3 DEF WaitingOf
  <2> HIDE DEF f, g
  <2>2. SumOver(g, Member) = SumOver(f, Member) - f[m] + g[m]
    BY <1>1, <2>1, SumChange
  <2> QED BY <2>1, <2>2 DEF f, g
<1>7. SumOver(OwedOf(p, bcs), Member)
        = SumOver(OwedOf(p, acs), Member) - Owed(p, acs[m]) + Owed(p, b)
  <2> DEFINE f == OwedOf(p, acs)
             g == OwedOf(p, bcs)
  <2>1. /\ \A k \in Member : f[k] \in Int /\ g[k] \in Int
        /\ \A k \in Member \ {m} : g[k] = f[k]
        /\ f[m] = Owed(p, acs[m]) /\ g[m] = Owed(p, b)
    BY <1>2, <1>3 DEF OwedOf
  <2> HIDE DEF f, g
  <2>2. SumOver(g, Member) = SumOver(f, Member) - f[m] + g[m]
    BY <1>1, <2>1, SumChange
  <2> QED BY <2>1, <2>2 DEF f, g
<1> QED BY <1>4, <1>5, <1>6, <1>7 DEF bcs

-----------------------------------------------------------------------------
(* The aggregation *)

\* What the books count of the accounts is the same
Alike(acs, bcs) ==
    \A m \in Member :
        /\ bcs[m].stake = acs[m].stake /\ bcs[m].nonStake = acs[m].nonStake
        /\ bcs[m].last = acs[m].last /\ bcs[m].tracker = acs[m].tracker
        /\ bcs[m].vested = acs[m].vested /\ bcs[m].app = acs[m].app
        /\ m \notin optedIn => bcs[m] = acs[m]

\* Accounts that are alike have the same stakes, principals and stake times
LEMMA AlikeSame ==
    ASSUME NEW acs, NEW bcs, Alike(acs, bcs), NEW p
    PROVE  /\ StakesOf(bcs) = StakesOf(acs) /\ PrincipalsOf(bcs) = PrincipalsOf(acs)
           /\ WaitingOf(p, bcs) = WaitingOf(p, acs) /\ OwedOf(p, bcs) = OwedOf(p, acs)
           /\ \A m \in Member : Sound(p, acs[m]) => Sound(p, bcs[m])
BY DEF Alike, StakesOf, PrincipalsOf, WaitingOf, OwedOf, Owed, Waiting, StakeTime, Sound,
       FoldedStake, Principal, Deposited, Withdrawn, HasTracker

\* The manager's cut changes rewards only, and only a member's
LEMMA CreditAlike ==
    ASSUME NEW p \in PoolRecords, main \in MainRecords,
           NEW acs \in [Member -> AccountRecords]
    PROVE  Credited(p, acs) \in [Member -> AccountRecords] /\ Alike(acs, Credited(p, acs))
<1> DEFINE a == acs[p.manager]
           r == a.rewards + ManagerCut(p)
           b == [a EXCEPT !.rewards = r]
<1>1. Credited(p, acs) \in [Member -> AccountRecords]
  BY CreditTyped
<1>2. p.manager \in Member
  BY DelegatorAssumption DEF PoolRecords
<1>3. Credited(p, acs) = [acs EXCEPT ![p.manager] = b]
  BY DEF Credited
<1>4. p.manager \notin optedIn => r = a.rewards
  BY <1>2 DEF ManagerCut, AccountRecords
<1>5. a \in AccountRecords
  BY <1>2
<1> HIDE DEF r
<1>6. /\ b.stake = a.stake /\ b.nonStake = a.nonStake /\ b.last = a.last
      /\ b.tracker = a.tracker /\ b.vested = a.vested /\ b.app = a.app
      /\ p.manager \notin optedIn => b = a
  BY <1>4, <1>5 DEF AccountRecords
<1> HIDE DEF b
<1>7. \A m \in Member : Credited(p, acs)[m] = IF m = p.manager THEN b ELSE acs[m]
  BY <1>2, <1>3
<1> QED BY <1>1, <1>6, <1>7 DEF Alike

\* The fields of the pool and of the main account after an aggregation
LEMMA AggregatedFields ==
    ASSUME NEW p \in PoolRecords, main \in MainRecords, CanAggregate(p)
    PROVE  /\ Aggregated(p) \in PoolRecords /\ MainAfter(p) \in MainRecords
           /\ Aggregated(p).round = p.round + 1 /\ Aggregated(p).time # 0
           /\ Aggregated(p).deposits = 0 /\ Aggregated(p).withdrawals = 0
           /\ Aggregated(p).stake = p.stake + NetDeposit(p) - NetWithdrawal(p)
           /\ Aggregated(p).stakeTime = p.stakeTime + p.stake - NetWithdrawal(p)
           /\ Aggregated(p).tokens
                = p.tokens + main.token - NetDeposit(p) + NetWithdrawal(p)
           /\ MainAfter(p).stake = main.stake + NetDeposit(p) - NetWithdrawal(p)
           /\ MainAfter(p).token = 0
<1>1. Timestamp # 0
  BY DelegatorAssumption
<1>2. Aggregated(p) \in PoolRecords /\ MainAfter(p) \in MainRecords
  BY AggregationTyped
<1>3. /\ Aggregated(p).round = p.round + 1 /\ Aggregated(p).time = Timestamp
      /\ Aggregated(p).deposits = 0 /\ Aggregated(p).withdrawals = 0
  BY DEF Aggregated, PoolRecords
<1>4. /\ Aggregated(p).stake = p.stake + NetDeposit(p) - NetWithdrawal(p)
      /\ Aggregated(p).stakeTime = p.stakeTime + p.stake - NetWithdrawal(p)
      /\ Aggregated(p).tokens = p.tokens + main.token - NetDeposit(p) + NetWithdrawal(p)
  BY DEF Aggregated, PoolRecords
<1>5. /\ MainAfter(p).stake = main.stake + NetDeposit(p) - NetWithdrawal(p)
      /\ MainAfter(p).token = 0
  BY DEF MainAfter
<1> QED BY <1>1, <1>2, <1>3, <1>4, <1>5

\* An aggregation moves what it books: nobody's stake and no token is lost, and
\* the stake time grows by what the members' stake times grow by
LEMMA AggregatedBooks ==
    ASSUME NEW p \in PoolRecords, NEW acs \in [Member -> AccountRecords],
           main \in MainRecords, CanAggregate(p)
    PROVE  LET q == Aggregated(p)
               bcs == Credited(p, acs)
           IN  /\ Unowned(q, bcs) = Unowned(p, acs)
               /\ Surplus(q, bcs, MainAfter(p)) = Surplus(p, acs, main)
               /\ Covered(p, acs) /\ (\A m \in Member : Sound(p, acs[m]))
                    => Covered(q, bcs) /\ \A m \in Member : Sound(q, bcs[m])
<1> DEFINE q == Aggregated(p)
           bcs == Credited(p, acs)
           stakes == SumOver(StakesOf(acs), Member)
           principals == SumOver(PrincipalsOf(acs), Member)
           waiting == SumOver(WaitingOf(p, acs), Member)
           owed == SumOver(OwedOf(p, acs), Member)
<1>0. /\ q \in PoolRecords /\ q.round = p.round + 1
      /\ q.deposits = 0 /\ q.withdrawals = 0
      /\ q.stake = p.stake + NetDeposit(p) - NetWithdrawal(p)
      /\ q.stakeTime = p.stakeTime + p.stake - NetWithdrawal(p)
      /\ q.tokens = p.tokens + main.token - NetDeposit(p) + NetWithdrawal(p)
      /\ MainAfter(p).stake = main.stake + NetDeposit(p) - NetWithdrawal(p)
      /\ MainAfter(p).token = 0
  BY AggregatedFields
<1>1. bcs \in [Member -> AccountRecords] /\ Alike(acs, bcs)
  BY CreditAlike
<1> HIDE DEF q, bcs
<1>2. /\ StakesOf(bcs) = StakesOf(acs) /\ PrincipalsOf(bcs) = PrincipalsOf(acs)
      /\ WaitingOf(q, bcs) = WaitingOf(q, acs) /\ OwedOf(q, bcs) = OwedOf(q, acs)
      /\ \A m \in Member : Sound(q, acs[m]) => Sound(q, bcs[m])
  BY <1>1, AlikeSame
<1>3. /\ p.stake \in Nat /\ p.deposits \in Nat /\ p.withdrawals \in Nat
      /\ p.tokens \in Nat /\ p.stakeTime \in Nat /\ p.round \in Nat
      /\ main.stake \in Nat /\ main.token \in Nat
      /\ NetDeposit(p) \in Nat /\ NetWithdrawal(p) \in Nat
      /\ NetDeposit(p) - NetWithdrawal(p) = p.deposits - p.withdrawals
      /\ NetDeposit(p) <= p.deposits
  BY DEF PoolRecords, MainRecords, NetDeposit, NetWithdrawal
<1>4. stakes \in Int /\ principals \in Int /\ waiting \in Nat /\ owed \in Int
  BY BookSumsTyped
<1>5. Unowned(q, bcs) = Unowned(p, acs)
  BY <1>0, <1>2, <1>3, <1>4 DEF Unowned
<1>6. Surplus(q, bcs, MainAfter(p)) = Surplus(p, acs, main)
  BY <1>0, <1>2, <1>3, <1>4 DEF Surplus
<1>7. ASSUME Covered(p, acs), \A m \in Member : Sound(p, acs[m])
      PROVE  Covered(q, bcs) /\ \A m \in Member : Sound(q, bcs[m])
  <2>1. \A m \in Member : Sound(q, acs[m])
    BY <1>0, <1>3, <1>7 DEF Sound, AccountRecords
  <2>2. \A m \in Member : /\ WaitingOf(q, acs)[m] = 0
                           /\ OwedOf(q, acs)[m] = OwedOf(p, acs)[m] - WaitingOf(p, acs)[m]
                                                    + StakesOf(acs)[m]
    BY <1>0, <1>7, OwedNext DEF Sound, WaitingOf, OwedOf, StakesOf
  <2>3. SumOver(WaitingOf(q, acs), Member) = 0
    BY <2>2, SumZero, DelegatorAssumption
  <2>4. SumOver(OwedOf(q, acs), Member) = owed - waiting + stakes
    <3> DEFINE rest == [m \in Member |-> OwedOf(p, acs)[m] - WaitingOf(p, acs)[m]]
               fo == OwedOf(p, acs)
               fn == OwedOf(q, acs)
               fw == WaitingOf(p, acs)
               fs == StakesOf(acs)
    <3>1. \A m \in Member : fo[m] \in Int /\ fw[m] \in Int /\ fs[m] \in Int
      BY BooksTyped DEF OwedOf, WaitingOf, StakesOf
    <3>2. \A m \in Member : /\ rest[m] \in Int
                             /\ fo[m] = rest[m] + fw[m] /\ fn[m] = rest[m] + fs[m]
      BY <2>2, <3>1
    <3>3. IsFiniteSet(Member)
      BY DelegatorAssumption
    <3> HIDE DEF rest, fo, fn, fw, fs
    <3>4. SumOver(fo, Member) = SumOver(rest, Member) + SumOver(fw, Member)
      BY <3>1, <3>2, <3>3, SumPlus
    <3>5. SumOver(fn, Member) = SumOver(rest, Member) + SumOver(fs, Member)
      BY <3>1, <3>2, <3>3, SumPlus
    <3>6. /\ SumOver(rest, Member) \in Int /\ SumOver(fw, Member) \in Int
          /\ SumOver(fs, Member) \in Int
      BY <3>1, <3>2, <3>3, SumInt
    <3>7. SumOver(fn, Member) = SumOver(fo, Member) - SumOver(fw, Member) + SumOver(fs, Member)
      BY <3>4, <3>5, <3>6
    <3> QED BY <3>7 DEF fo, fn, fw, fs
  <2>5. /\ p.deposits <= waiting + (p.stake + p.deposits - p.withdrawals - stakes)
        /\ 0 <= Unowned(p, acs) /\ owed <= p.stakeTime
    BY <1>7 DEF Covered, Unowned
  <2>6. owed - waiting + stakes <= q.stakeTime
    <3> HIDE DEF owed, waiting, stakes
    <3> QED BY <1>0, <1>3, <1>4, <2>5
  <2>7. Unowned(p, acs) \in Int
    BY <1>3, <1>4 DEF Unowned
  <2>8. Covered(q, bcs)
    <3> HIDE DEF owed, waiting, stakes
    <3>1. 0 <= Unowned(q, bcs) /\ q.deposits <= 0 + Unowned(q, bcs)
      BY <1>0, <1>5, <2>5, <2>7
    <3> QED BY <1>2, <2>3, <2>4, <2>6, <3>1 DEF Covered
  <2> QED BY <1>2, <2>1, <2>8
<1> QED BY <1>5, <1>6, <1>7 DEF q, bcs

\* post_action_update leaves the books as they were, aggregation or not
LEMMA PostBooks ==
    ASSUME NEW p \in PoolRecords, NEW acs \in [Member -> AccountRecords],
           main \in MainRecords, CanPost(p), PostMain(p),
           NEW stakeLeft, NEW sober, Books(p, acs, stakeLeft, sober)
    PROVE  /\ Books(PostPool(p), PostAccounts(p, acs), stakeLeft, sober)
           /\ Surplus(PostPool(p), PostAccounts(p, acs), main') = Surplus(p, acs, main)
           /\ Alike(acs, PostAccounts(p, acs))
<1>1. CASE Due
  <2>1. /\ CanAggregate(p) /\ main' = MainAfter(p)
        /\ PostPool(p) = Aggregated(p) /\ PostAccounts(p, acs) = Credited(p, acs)
    BY <1>1 DEF CanPost, PostMain, PostPool, PostAccounts
  <2>2. Alike(acs, Credited(p, acs)) /\ Aggregated(p).time # 0
    BY <2>1, CreditAlike, AggregatedFields
  <2>3. \A m \in Member \ optedIn : Credited(p, acs)[m] = Fresh(0)
    BY <2>2 DEF Alike, Books
  <2> QED BY <2>1, <2>2, <2>3, AggregatedBooks DEF Books
<1>2. CASE ~Due
  BY <1>2 DEF PostMain, PostPool, PostAccounts, Alike
<1> QED BY <1>1, <1>2

-----------------------------------------------------------------------------
(* The calls *)

\* Stake times depend on the pool's round only
LEMMA SameRound ==
    ASSUME NEW p, NEW q, q.round = p.round, NEW acs
    PROVE  /\ WaitingOf(q, acs) = WaitingOf(p, acs) /\ OwedOf(q, acs) = OwedOf(p, acs)
           /\ \A m \in Member : Sound(q, acs[m]) <=> Sound(p, acs[m])
BY DEF WaitingOf, OwedOf, Owed, Waiting, StakeTime, Sound

\* A call that updates the caller's account and has a new amount pend: the pool
\* books what the account tracks
LEMMA CallBooks ==
    ASSUME NEW p \in PoolRecords, NEW acs \in [Member -> AccountRecords],
           NEW m \in Member, m \in optedIn, CanUpdate(p, acs[m]),
           NEW b \in AccountRecords, b.stake = FoldedStake(acs[m]), b.last = p.round,
           NEW q \in PoolRecords, q.round = p.round, q.time = p.time, q.stake = p.stake,
           q.stakeTime = p.stakeTime - StakeTime(p, acs[m]),
           q.deposits = p.deposits + Deposited(b),
           q.withdrawals = p.withdrawals + Withdrawn(b),
           NEW stakeLeft, NEW sober, NEW soberNext, Books(p, acs, stakeLeft, sober),
           soberNext => sober /\ Withdrawn(b) <= b.stake
    PROVE  Books(q, [acs EXCEPT ![m] = b], stakeLeft, soberNext)
<1> DEFINE a == acs[m]
           bcs == [acs EXCEPT ![m] = b]
           stakes == SumOver(StakesOf(acs), Member)
           waiting == SumOver(WaitingOf(p, acs), Member)
           owed == SumOver(OwedOf(p, acs), Member)
<1>1. a \in AccountRecords /\ bcs[m] = b /\ \A k \in Member : k # m => bcs[k] = acs[k]
  OBVIOUS
<1>2. /\ Waiting(p, a) = 0 /\ Owed(p, a) = StakeTime(p, a)
      /\ Waiting(p, b) = Deposited(b) /\ Owed(p, b) = 0
  BY <1>1, UpdatedBooks, OwesNothing
<1>3. /\ SumOver(StakesOf(bcs), Member) = stakes - FoldedStake(a) + FoldedStake(b)
      /\ SumOver(WaitingOf(p, bcs), Member) = waiting - Waiting(p, a) + Waiting(p, b)
      /\ SumOver(OwedOf(p, bcs), Member) = owed - Owed(p, a) + Owed(p, b)
  BY ReplacedSums
<1> HIDE DEF bcs
<1>4. /\ stakes \in Int /\ waiting \in Int /\ owed \in Int
      /\ FoldedStake(a) \in Int /\ Deposited(b) \in Nat /\ Withdrawn(b) \in Nat
      /\ StakeTime(p, a) \in Int
      /\ p.stake \in Nat /\ p.deposits \in Nat /\ p.withdrawals \in Nat
      /\ p.stakeTime \in Nat /\ b.stake \in Nat /\ p.round \in Nat
  BY <1>1, BookSumsTyped, BooksTyped DEF PoolRecords, AccountRecords
<1>5. FoldedStake(b) = FoldedStake(a) + Deposited(b) - Withdrawn(b)
  BY DEF FoldedStake
<1> HIDE DEF a, stakes, waiting, owed
<1>6. Unowned(q, bcs) = Unowned(p, acs) /\ Unowned(p, acs) \in Int
  BY <1>3, <1>4, <1>5 DEF Unowned, stakes, a
<1>7. WaitingOf(q, bcs) = WaitingOf(p, bcs) /\ OwedOf(q, bcs) = OwedOf(p, bcs)
  BY SameRound
<1>8. ASSUME Covered(p, acs) PROVE Covered(q, bcs)
  <2>1. 0 <= Unowned(p, acs) /\ p.deposits <= waiting + Unowned(p, acs) /\ owed <= p.stakeTime
    BY <1>8 DEF Covered, waiting, owed
  <2>2. q.deposits <= SumOver(WaitingOf(q, bcs), Member) + Unowned(q, bcs)
    BY <1>2, <1>3, <1>4, <1>6, <1>7, <2>1
  <2>3. SumOver(OwedOf(q, bcs), Member) <= q.stakeTime
    BY <1>2, <1>3, <1>4, <1>7, <2>1 DEF a
  <2> QED BY <1>6, <2>1, <2>2, <2>3 DEF Covered
<1>9. ASSUME soberNext, \A k \in Member : Sound(p, acs[k])
      PROVE  \A k \in Member : Sound(q, bcs[k])
  <2>1. Sound(q, b)
    BY <1>4, <1>9 DEF Sound
  <2> QED BY <1>1, <1>9, <2>1 DEF Sound
<1>10. \A k \in Member \ optedIn : bcs[k] = Fresh(0)
  BY <1>1 DEF Books
<1> QED BY <1>6, <1>8, <1>9, <1>10 DEF Books, bcs

\* A payment out of the pool that is no member's stake
LEMMA PaidBooks ==
    ASSUME NEW p \in PoolRecords, NEW acs \in [Member -> AccountRecords],
           NEW m \in Member, m \in optedIn,
           NEW b \in AccountRecords, b.stake = acs[m].stake, b.last = acs[m].last,
           b.tracker = acs[m].tracker,
           NEW q \in PoolRecords, q.round = p.round, q.time = p.time, q.stake = p.stake,
           q.stakeTime = p.stakeTime, q.deposits = p.deposits,
           q.withdrawals = p.withdrawals,
           NEW stakeLeft, NEW sober, Books(p, acs, stakeLeft, sober)
    PROVE  Books(q, [acs EXCEPT ![m] = b], stakeLeft, sober)
<1> DEFINE bcs == [acs EXCEPT ![m] = b]
<1>1. bcs[m] = b /\ \A k \in Member : k # m => bcs[k] = acs[k]
  OBVIOUS
<1>2. /\ FoldedStake(b) = FoldedStake(acs[m]) /\ Withdrawn(b) = Withdrawn(acs[m])
      /\ Waiting(p, b) = Waiting(p, acs[m]) /\ Owed(p, b) = Owed(p, acs[m])
  BY DEF FoldedStake, Deposited, Withdrawn, Owed, Waiting, StakeTime, HasTracker
<1> HIDE DEF bcs
<1>3. /\ StakesOf(bcs) = StakesOf(acs) /\ WaitingOf(p, bcs) = WaitingOf(p, acs)
      /\ OwedOf(p, bcs) = OwedOf(p, acs)
  BY <1>1, <1>2 DEF StakesOf, WaitingOf, OwedOf
<1>4. \A k \in Member : Sound(p, acs[k]) => Sound(p, bcs[k])
  BY <1>1, <1>2 DEF Sound
<1>5. /\ WaitingOf(q, bcs) = WaitingOf(p, bcs) /\ OwedOf(q, bcs) = OwedOf(p, bcs)
      /\ \A k \in Member : Sound(q, bcs[k]) <=> Sound(p, bcs[k])
  BY SameRound
<1>6. Unowned(q, bcs) = Unowned(p, acs)
  BY <1>3 DEF Unowned
<1>7. Covered(p, acs) => Covered(q, bcs)
  BY <1>3, <1>5, <1>6 DEF Covered
<1>8. \A k \in Member \ optedIn : bcs[k] = Fresh(0)
  BY <1>1 DEF Books
<1> QED BY <1>4, <1>5, <1>6, <1>7, <1>8 DEF Books, bcs

\* How either changes the surplus
LEMMA SurplusChange ==
    ASSUME NEW p \in PoolRecords, NEW acs \in [Member -> AccountRecords],
           NEW mn \in MainRecords, NEW m \in Member, NEW b \in AccountRecords,
           NEW q \in PoolRecords
    PROVE  Surplus(q, [acs EXCEPT ![m] = b], mn)
             = Surplus(p, acs, mn) + (q.tokens - p.tokens) - (Principal(b) - Principal(acs[m]))
<1> DEFINE bcs == [acs EXCEPT ![m] = b]
           principals == SumOver(PrincipalsOf(acs), Member)
<1>1. SumOver(PrincipalsOf(bcs), Member) = principals - Principal(acs[m]) + Principal(b)
  BY ReplacedSums
<1>2. /\ principals \in Int /\ Principal(acs[m]) \in Int /\ Principal(b) \in Int
      /\ p.tokens \in Nat /\ q.tokens \in Nat /\ mn.stake \in Nat /\ mn.token \in Nat
  BY BookSumsTyped, BooksTyped DEF PoolRecords, MainRecords
<1> HIDE DEF bcs
<1> QED BY <1>1, <1>2 DEF Surplus, bcs

\* reset_global_stake_time changes the stake time only
LEMMA SpentFields ==
    ASSUME NEW p \in PoolRecords, NEW a \in AccountRecords, CanUpdate(p, a)
    PROVE  /\ Spent(p, a) \in PoolRecords
           /\ Spent(p, a).stakeTime = p.stakeTime - StakeTime(p, a)
           /\ Spent(p, a).round = p.round /\ Spent(p, a).time = p.time
           /\ Spent(p, a).stake = p.stake /\ Spent(p, a).deposits = p.deposits
           /\ Spent(p, a).withdrawals = p.withdrawals /\ Spent(p, a).tokens = p.tokens
<1>1. Spent(p, a) \in PoolRecords
  BY UpdateTyped
<1> QED BY <1>1 DEF Spent, PoolRecords

LEMMA TrackedTyped ==
    ASSUME NEW p \in PoolRecords, NEW amount \in Nat, NEW isStake \in BOOLEAN
    PROVE  Tracked(p, amount, isStake) \in Trackers
BY DEF Tracked, Trackers, PoolRecords

\* stake books the deposit it tracks, for the member itself or on its behalf
LEMMA TakeStakeBooks ==
    ASSUME TypeOK, NEW m \in Member, NEW amount \in Nat, NEW vestedNow \in Nat,
           NEW app \in Caller \cup {TopLevel}, NEW arrives \in BOOLEAN,
           TakeStake(m, amount, vestedNow, app, arrives),
           NEW stakeLeft, NEW sober, Books(pool, acct, stakeLeft, sober)
    PROVE  /\ Books(pool', acct', stakeLeft, sober)
           /\ Surplus(pool', acct', main')
                = Surplus(pool, acct, main) - (unbacked' - unbacked)
<1> DEFINE a == acct[m]
           moved == IF arrives THEN amount ELSE 0
           p == [Spent(pool, a) EXCEPT !.deposits = @ + amount, !.tokens = @ + moved]
           b == [Updated(pool, a) EXCEPT !.nonStake = @ + amount,
                                         !.tracker = Tracked(pool, amount, TRUE),
                                         !.vested = @ + vestedNow, !.app = app]
           bcs == [acct EXCEPT ![m] = b]
<1>1. /\ pool \in PoolRecords /\ a \in AccountRecords /\ main \in MainRecords
      /\ acct \in [Member -> AccountRecords] /\ pool.time # 0 /\ unbacked \in Int
  BY DEF TypeOK, Books
<1>2. /\ m \in optedIn /\ CanUpdate(pool, a) /\ CanPost(p) /\ PostMain(p)
      /\ pool' = PostPool(p) /\ acct' = PostAccounts(p, bcs)
      /\ unbacked' = unbacked + (amount - moved)
  BY DEF TakeStake
<1>0. moved \in Nat
  OBVIOUS
<1>3. /\ p \in PoolRecords /\ p.stakeTime = pool.stakeTime - StakeTime(pool, a)
      /\ p.round = pool.round /\ p.time = pool.time /\ p.stake = pool.stake
      /\ p.deposits = pool.deposits + amount /\ p.withdrawals = pool.withdrawals
      /\ p.tokens = pool.tokens + moved
  <2> DEFINE q == Spent(pool, a)
             d == q.deposits + amount
             t == q.tokens + moved
  <2>1. /\ q \in PoolRecords /\ q.stakeTime = pool.stakeTime - StakeTime(pool, a)
        /\ q.round = pool.round /\ q.time = pool.time /\ q.stake = pool.stake
        /\ q.deposits = pool.deposits /\ q.withdrawals = pool.withdrawals
        /\ q.tokens = pool.tokens
    BY <1>1, <1>2, SpentFields
  <2> DEFINE r == [q EXCEPT !.deposits = d]
  <2>2. p = [r EXCEPT !.tokens = t]
    OBVIOUS
  <2> HIDE DEF q, p
  <2>3. d \in Nat /\ t \in Nat /\ d = pool.deposits + amount /\ t = pool.tokens + moved
    BY <1>0, <1>1, <2>1 DEF PoolRecords
  <2> HIDE DEF d, t
  <2>4. /\ r \in PoolRecords /\ r.stakeTime = q.stakeTime /\ r.round = q.round
        /\ r.time = q.time /\ r.stake = q.stake /\ r.deposits = d
        /\ r.withdrawals = q.withdrawals
    BY <2>1, <2>3 DEF PoolRecords
  <2> HIDE DEF r
  <2>5. /\ p \in PoolRecords /\ p.stakeTime = r.stakeTime /\ p.round = r.round
        /\ p.time = r.time /\ p.stake = r.stake /\ p.deposits = r.deposits
        /\ p.withdrawals = r.withdrawals /\ p.tokens = t
    BY <2>2, <2>3, <2>4 DEF PoolRecords
  <2> QED BY <2>1, <2>3, <2>4, <2>5
<1>4. /\ b \in AccountRecords /\ b.stake = FoldedStake(a) /\ b.last = pool.round
      /\ b.vested = a.vested + vestedNow
      /\ Deposited(b) = amount /\ Withdrawn(b) = 0
      /\ Principal(b) = Principal(a) + amount
  <2> DEFINE u == Updated(pool, a)
             n == u.nonStake + amount
             v == u.vested + vestedNow
             t == Tracked(pool, amount, TRUE)
  <2>1. /\ u \in AccountRecords /\ u.stake = FoldedStake(a) /\ u.last = pool.round
        /\ u.vested = a.vested /\ Principal(u) = Principal(a)
    BY <1>1, <1>2, UpdatedBooks
  <2>2. b = [u EXCEPT !.nonStake = n, !.tracker = t, !.vested = v, !.app = app]
    OBVIOUS
  <2> HIDE DEF u, b
  <2>3. n \in Nat /\ v \in Nat /\ n = u.nonStake + amount /\ v = a.vested + vestedNow
    BY <2>1 DEF AccountRecords
  <2>4. t \in Trackers
    BY <1>1, TrackedTyped
  <2> HIDE DEF n, v, t
  <2>5. /\ b \in AccountRecords /\ b.stake = u.stake /\ b.last = u.last /\ b.vested = v
        /\ b.tracker = t /\ b.nonStake = n
    BY <2>1, <2>2, <2>3, <2>4 DEF AccountRecords
  <2>6. Deposited(b) = amount /\ Withdrawn(b) = 0
    BY <1>1, <2>5 DEF t, Tracked, Deposited, Withdrawn, HasTracker
  <2>7. Principal(b) = Principal(a) + amount
    BY <2>1, <2>3, <2>5 DEF Principal, AccountRecords
  <2> QED BY <2>1, <2>3, <2>5, <2>6, <2>7
<1> HIDE DEF p, b, moved
<1>5. bcs \in [Member -> AccountRecords]
  BY <1>1, <1>4
<1>6. Books(p, bcs, stakeLeft, sober)
  <2>1. /\ p.withdrawals = pool.withdrawals + Withdrawn(b)
        /\ sober => Withdrawn(b) <= b.stake
    BY <1>1, <1>3, <1>4 DEF PoolRecords, AccountRecords
  <2> QED BY <1>1, <1>2, <1>3, <1>4, <2>1, CallBooks
<1>7. Surplus(p, bcs, main) = Surplus(pool, acct, main) - (unbacked' - unbacked)
  <2>1. Surplus(pool, acct, main) \in Int /\ Principal(a) \in Int /\ pool.tokens \in Int
    BY <1>1, BookSumsTyped, BooksTyped DEF Surplus, PoolRecords, MainRecords
  <2>2. Surplus(p, bcs, main) = Surplus(pool, acct, main) + (p.tokens - pool.tokens)
                                  - (Principal(b) - Principal(a))
    BY <1>1, <1>3, <1>4, SurplusChange
  <2> HIDE DEF a, bcs
  <2> QED BY <1>0, <1>1, <1>2, <1>3, <1>4, <2>1, <2>2
<1>8. /\ Books(pool', acct', stakeLeft, sober)
      /\ Surplus(pool', acct', main') = Surplus(p, bcs, main)
      /\ Alike(bcs, acct')
  BY <1>1, <1>2, <1>3, <1>5, <1>6, PostBooks
<1> QED BY <1>7, <1>8

\* unstake books the withdrawal it tracks
LEMMA UnstakeBooks ==
    ASSUME TypeOK, NEW m \in Member, NEW amount \in Nat, Unstake(m, amount),
           NEW stakeLeft, Books(pool, acct, stakeLeft, ~overdrawn)
    PROVE  /\ Books(pool', acct', stakeLeft, ~overdrawn')
           /\ Surplus(pool', acct', main') = Surplus(pool, acct, main)
<1> DEFINE a == acct[m]
           p == [Spent(pool, a) EXCEPT !.withdrawals = @ + amount]
           b == [Updated(pool, a) EXCEPT !.tracker = Tracked(pool, amount, FALSE)]
           bcs == [acct EXCEPT ![m] = b]
<1>1. /\ pool \in PoolRecords /\ a \in AccountRecords /\ main \in MainRecords
      /\ acct \in [Member -> AccountRecords] /\ pool.time # 0
  BY DEF TypeOK, Books
<1>2. /\ m \in optedIn /\ CanUpdate(pool, a) /\ CanPost(p) /\ PostMain(p)
      /\ pool' = PostPool(p) /\ acct' = PostAccounts(p, bcs)
      /\ overdrawn' = (overdrawn \/ amount > FoldedStake(a))
  BY DEF Unstake
<1>3. /\ p \in PoolRecords /\ p.stakeTime = pool.stakeTime - StakeTime(pool, a)
      /\ p.round = pool.round /\ p.time = pool.time /\ p.stake = pool.stake
      /\ p.deposits = pool.deposits /\ p.withdrawals = pool.withdrawals + amount
      /\ p.tokens = pool.tokens
  <2> DEFINE q == Spent(pool, a)
             w == q.withdrawals + amount
  <2>1. /\ q \in PoolRecords /\ q.stakeTime = pool.stakeTime - StakeTime(pool, a)
        /\ q.round = pool.round /\ q.time = pool.time /\ q.stake = pool.stake
        /\ q.deposits = pool.deposits /\ q.withdrawals = pool.withdrawals
        /\ q.tokens = pool.tokens
    BY <1>1, <1>2, SpentFields
  <2>2. p = [q EXCEPT !.withdrawals = w]
    OBVIOUS
  <2> HIDE DEF q, p
  <2>3. w \in Nat /\ w = pool.withdrawals + amount
    BY <1>1, <2>1 DEF PoolRecords
  <2> HIDE DEF w
  <2> QED BY <2>1, <2>2, <2>3 DEF PoolRecords
<1>4. /\ b \in AccountRecords /\ b.stake = FoldedStake(a) /\ b.last = pool.round
      /\ b.vested = a.vested
      /\ Deposited(b) = 0 /\ Withdrawn(b) = amount
      /\ Principal(b) = Principal(a)
  <2> DEFINE u == Updated(pool, a)
             t == Tracked(pool, amount, FALSE)
  <2>1. /\ u \in AccountRecords /\ u.stake = FoldedStake(a) /\ u.last = pool.round
        /\ u.vested = a.vested /\ Principal(u) = Principal(a)
    BY <1>1, <1>2, UpdatedBooks
  <2>2. b = [u EXCEPT !.tracker = t]
    OBVIOUS
  <2> HIDE DEF u, b
  <2>3. t \in Trackers
    BY <1>1, TrackedTyped
  <2> HIDE DEF t
  <2>4. /\ b \in AccountRecords /\ b.stake = u.stake /\ b.last = u.last
        /\ b.vested = u.vested /\ b.tracker = t /\ b.nonStake = u.nonStake
    BY <2>1, <2>2, <2>3 DEF AccountRecords
  <2>5. Deposited(b) = 0 /\ Withdrawn(b) = amount
    BY <1>1, <2>4 DEF t, Tracked, Deposited, Withdrawn, HasTracker
  <2> QED BY <2>1, <2>4, <2>5 DEF Principal
<1> HIDE DEF p, b
<1>5. bcs \in [Member -> AccountRecords]
  BY <1>1, <1>4
<1>6. Books(p, bcs, stakeLeft, ~overdrawn')
  <2>1. p.deposits = pool.deposits + Deposited(b)
    BY <1>1, <1>3, <1>4 DEF PoolRecords
  <2>3. FoldedStake(a) \in Nat
    BY <1>4 DEF AccountRecords
  <2>4. ASSUME ~overdrawn' PROVE ~overdrawn /\ Withdrawn(b) <= b.stake
    <3>1. ~overdrawn /\ ~(amount > FoldedStake(a))
      BY <1>2, <2>4
    <3> QED BY <1>4, <2>3, <3>1
  <2> QED BY <1>1, <1>2, <1>3, <1>4, <2>1, <2>4, CallBooks
<1>7. Surplus(p, bcs, main) = Surplus(pool, acct, main)
  <2>1. Surplus(pool, acct, main) \in Int /\ Principal(a) \in Int /\ pool.tokens \in Int
    BY <1>1, BookSumsTyped, BooksTyped DEF Surplus, PoolRecords, MainRecords
  <2>3. p \in PoolRecords /\ b \in AccountRecords
    BY <1>3, <1>4
  <2>2. Surplus(p, bcs, main) = Surplus(pool, acct, main) + (p.tokens - pool.tokens)
                                  - (Principal(b) - Principal(a))
    BY <1>1, <2>3, SurplusChange
  <2> HIDE DEF a, bcs
  <2> QED BY <1>3, <1>4, <2>1, <2>2
<1>8. /\ Books(pool', acct', stakeLeft, ~overdrawn')
      /\ Surplus(pool', acct', main') = Surplus(p, bcs, main)
      /\ Alike(bcs, acct')
  BY <1>1, <1>2, <1>3, <1>5, <1>6, PostBooks
<1> QED BY <1>7, <1>8

\* user_claim pays rewards, which are nobody's principal
LEMMA UserClaimBooks ==
    ASSUME TypeOK, NEW m \in Member, UserClaim(m),
           NEW stakeLeft, NEW sober, Books(pool, acct, stakeLeft, sober)
    PROVE  /\ Books(pool', acct', stakeLeft, sober)
           /\ Surplus(pool', acct', main') = Surplus(pool, acct, main) - (paid' - paid)
<1> DEFINE p == PostPool(pool)
           acs == PostAccounts(pool, acct)
           a == acs[m]
           due == Updated(p, a).rewards
           q == [Spent(p, a) EXCEPT !.tokens = @ - due]
           b == [Updated(p, a) EXCEPT !.rewards = 0, !.tracker = Tracked(p, 0, FALSE)]
           bcs == [acs EXCEPT ![m] = b]
<1>1. /\ pool \in PoolRecords /\ main \in MainRecords /\ age \in 0..(Timeout + 1)
      /\ acct \in [Member -> AccountRecords] /\ paid \in Nat
  BY DEF TypeOK
<1>2. /\ m \in optedIn /\ CanPost(pool) /\ PostMain(pool) /\ CanUpdate(p, a)
      /\ due <= p.tokens /\ pool' = q /\ acct' = bcs /\ paid' = paid + due
  BY DEF UserClaim
<1>3. /\ p \in PoolRecords /\ acs \in [Member -> AccountRecords] /\ main' \in MainRecords
      /\ Books(p, acs, stakeLeft, sober) /\ Alike(acct, acs)
      /\ Surplus(p, acs, main') = Surplus(pool, acct, main)
  BY <1>1, <1>2, PostTyped, PostBooks
<1> HIDE DEF p, acs
<1>4. a \in AccountRecords /\ p.time # 0
  BY <1>3 DEF Books
<1> HIDE DEF a
<1>5. /\ b \in AccountRecords /\ b.stake = FoldedStake(a) /\ b.last = p.round
      /\ b.vested = a.vested /\ due \in Nat
      /\ Deposited(b) = 0 /\ Withdrawn(b) = 0 /\ Principal(b) = Principal(a)
  <2> DEFINE u == Updated(p, a)
             t == Tracked(p, 0, FALSE)
  <2>1. /\ u \in AccountRecords /\ u.stake = FoldedStake(a) /\ u.last = p.round
        /\ u.vested = a.vested /\ Principal(u) = Principal(a)
    BY <1>2, <1>3, <1>4, UpdatedBooks
  <2>2. b = [u EXCEPT !.rewards = 0, !.tracker = t] /\ due = u.rewards
    OBVIOUS
  <2> HIDE DEF u, b, due
  <2>3. t \in Trackers
    BY <1>3, TrackedTyped
  <2> HIDE DEF t
  <2>4. /\ b \in AccountRecords /\ b.stake = u.stake /\ b.last = u.last
        /\ b.vested = u.vested /\ b.tracker = t /\ b.nonStake = u.nonStake /\ due \in Nat
    BY <2>1, <2>2, <2>3 DEF AccountRecords
  <2>5. Deposited(b) = 0 /\ Withdrawn(b) = 0
    BY <1>4, <2>4 DEF t, Tracked, Deposited, Withdrawn, HasTracker
  <2> QED BY <2>1, <2>4, <2>5 DEF Principal
<1> HIDE DEF due, b
<1>6. /\ q \in PoolRecords /\ q.stakeTime = p.stakeTime - StakeTime(p, a)
      /\ q.round = p.round /\ q.time = p.time /\ q.stake = p.stake
      /\ q.deposits = p.deposits /\ q.withdrawals = p.withdrawals
      /\ q.tokens = p.tokens - due
  <2> DEFINE r == Spent(p, a)
             t == r.tokens - due
  <2>1. /\ r \in PoolRecords /\ r.stakeTime = p.stakeTime - StakeTime(p, a)
        /\ r.round = p.round /\ r.time = p.time /\ r.stake = p.stake
        /\ r.deposits = p.deposits /\ r.withdrawals = p.withdrawals
        /\ r.tokens = p.tokens
    BY <1>2, <1>3, <1>4, SpentFields
  <2>2. q = [r EXCEPT !.tokens = t]
    OBVIOUS
  <2> HIDE DEF r, q
  <2>3. t \in Nat /\ t = p.tokens - due
    BY <1>2, <1>3, <1>5, <2>1 DEF PoolRecords
  <2> HIDE DEF t
  <2> QED BY <2>1, <2>2, <2>3 DEF PoolRecords
<1> HIDE DEF q
<1>7. Books(q, bcs, stakeLeft, sober)
  <2>1. /\ q.deposits = p.deposits + Deposited(b) /\ q.withdrawals = p.withdrawals + Withdrawn(b)
        /\ Withdrawn(b) <= b.stake
    BY <1>3, <1>5, <1>6 DEF PoolRecords, AccountRecords
  <2> QED BY <1>2, <1>3, <1>5, <1>6, <2>1, CallBooks DEF a
<1>8. Surplus(q, bcs, main') = Surplus(pool, acct, main) - due
  <2>1. Surplus(p, acs, main') \in Int /\ Principal(a) \in Int /\ p.tokens \in Int
    BY <1>3, <1>4, BookSumsTyped, BooksTyped DEF Surplus, PoolRecords, MainRecords
  <2>2. Surplus(q, bcs, main') = Surplus(p, acs, main') + (q.tokens - p.tokens)
                                   - (Principal(b) - Principal(a))
    BY <1>3, <1>5, <1>6, SurplusChange DEF a
  <2> HIDE DEF bcs
  <2> QED BY <1>3, <1>5, <1>6, <2>1, <2>2
<1> HIDE DEF bcs
<1> QED BY <1>1, <1>2, <1>5, <1>7, <1>8

\* The two forms of withdraw_non_stake up to the payment: the account is updated,
\* nothing new pends, and the aggregation may be due
LEMMA UpdateAndPostBooks ==
    ASSUME TypeOK, NEW m \in Member, m \in optedIn, CanUpdate(pool, acct[m]),
           CanPost(Spent(pool, acct[m])), PostMain(Spent(pool, acct[m])),
           NEW stakeLeft, NEW sober, Books(pool, acct, stakeLeft, sober)
    PROVE  LET p == Spent(pool, acct[m])
               q == PostPool(p)
               acs == PostAccounts(p, [acct EXCEPT ![m] = Updated(pool, acct[m])])
           IN  /\ q \in PoolRecords /\ acs \in [Member -> AccountRecords]
               /\ main' \in MainRecords
               /\ Books(q, acs, stakeLeft, sober)
               /\ Surplus(q, acs, main') = Surplus(pool, acct, main)
               /\ \A k \in Member : acs[k].vested = acct[k].vested
<1> DEFINE a == acct[m]
           p == Spent(pool, a)
           b == Updated(pool, a)
           bcs == [acct EXCEPT ![m] = b]
           q == PostPool(p)
           acs == PostAccounts(p, bcs)
<1>1. /\ pool \in PoolRecords /\ main \in MainRecords /\ age \in 0..(Timeout + 1)
      /\ acct \in [Member -> AccountRecords] /\ a \in AccountRecords
  BY DEF TypeOK
<1>2. /\ p \in PoolRecords /\ p.stakeTime = pool.stakeTime - StakeTime(pool, a)
      /\ p.round = pool.round /\ p.time = pool.time /\ p.stake = pool.stake
      /\ p.deposits = pool.deposits /\ p.withdrawals = pool.withdrawals
      /\ p.tokens = pool.tokens
  BY <1>1, SpentFields
<1>3. /\ b \in AccountRecords /\ b.stake = FoldedStake(a) /\ b.last = pool.round
      /\ b.vested = a.vested /\ Deposited(b) = 0 /\ Withdrawn(b) = 0
      /\ Principal(b) = Principal(a)
  BY <1>1, UpdatedBooks
<1> HIDE DEF p, b
<1>4. bcs \in [Member -> AccountRecords]
  BY <1>1, <1>3
<1>5. Books(p, bcs, stakeLeft, sober)
  <2>1. /\ p.deposits = pool.deposits + Deposited(b)
        /\ p.withdrawals = pool.withdrawals + Withdrawn(b) /\ Withdrawn(b) <= b.stake
    BY <1>1, <1>2, <1>3 DEF PoolRecords, AccountRecords
  <2> QED BY <1>1, <1>2, <1>3, <2>1, CallBooks
<1>6. Surplus(p, bcs, main) = Surplus(pool, acct, main)
  <2>1. Surplus(pool, acct, main) \in Int /\ Principal(a) \in Int /\ pool.tokens \in Int
    BY <1>1, BookSumsTyped, BooksTyped DEF Surplus, PoolRecords, MainRecords
  <2>2. Surplus(p, bcs, main) = Surplus(pool, acct, main) + (p.tokens - pool.tokens)
                                  - (Principal(b) - Principal(a))
    BY <1>1, <1>2, <1>3, SurplusChange
  <2> HIDE DEF a, bcs
  <2> QED BY <1>2, <1>3, <2>1, <2>2
<1>7. \A k \in Member : bcs[k].vested = acct[k].vested
  BY <1>1, <1>3
<1> HIDE DEF bcs
<1>8. CanPost(p) /\ PostMain(p)
  BY DEF p
<1>9. q \in PoolRecords /\ acs \in [Member -> AccountRecords] /\ main' \in MainRecords
  BY <1>1, <1>2, <1>4, <1>8, PostTyped
<1>10. /\ Books(q, acs, stakeLeft, sober) /\ Alike(bcs, acs)
       /\ Surplus(q, acs, main') = Surplus(p, bcs, main)
  BY <1>1, <1>2, <1>4, <1>5, <1>8, PostBooks
<1>11. \A k \in Member : acs[k].vested = acct[k].vested
  BY <1>7, <1>10 DEF Alike
<1> QED BY <1>6, <1>9, <1>10, <1>11 DEF p, b, bcs

LEMMA WithdrawNonStakeBooks ==
    ASSUME TypeOK, NEW m \in Member, WithdrawNonStake(m),
           NEW stakeLeft, NEW sober, Books(pool, acct, stakeLeft, sober)
    PROVE  /\ Books(pool', acct', stakeLeft, sober)
           /\ Surplus(pool', acct', main')
                = Surplus(pool, acct, main) - (unbacked' - unbacked)
<1> DEFINE a == acct[m]
           p == PostPool(Spent(pool, a))
           acs == PostAccounts(Spent(pool, a), [acct EXCEPT ![m] = Updated(pool, a)])
           due == acs[m].nonStake - a.vested
           b == [acs[m] EXCEPT !.nonStake = 0]
           t == p.tokens - due
           q == [p EXCEPT !.tokens = t]
           bcs == [acs EXCEPT ![m] = b]
<1>1. /\ m \in optedIn /\ CanUpdate(pool, a) /\ CanPost(Spent(pool, a))
      /\ PostMain(Spent(pool, a)) /\ 0 <= due /\ due <= p.tokens
      /\ pool' = q /\ acct' = bcs
  BY DEF WithdrawNonStake
<1>2. /\ p \in PoolRecords /\ acs \in [Member -> AccountRecords] /\ main' \in MainRecords
      /\ Books(p, acs, stakeLeft, sober)
      /\ Surplus(p, acs, main') = Surplus(pool, acct, main)
      /\ \A k \in Member : acs[k].vested = acct[k].vested
  BY <1>1, UpdateAndPostBooks
<1> HIDE DEF p, acs
<1>3. acs[m] \in AccountRecords /\ a.vested = acs[m].vested
  BY <1>2
<1>4. t \in Nat /\ t = p.tokens - due /\ due \in Int
  BY <1>1, <1>2, <1>3 DEF PoolRecords, AccountRecords
<1>5. due = acs[m].nonStake - acs[m].vested
  BY <1>3
<1> HIDE DEF due, t
<1>6. /\ q \in PoolRecords /\ q.round = p.round /\ q.time = p.time /\ q.stake = p.stake
      /\ q.stakeTime = p.stakeTime /\ q.deposits = p.deposits
      /\ q.withdrawals = p.withdrawals /\ q.tokens = t
  BY <1>2, <1>4 DEF PoolRecords
<1>7. /\ b \in AccountRecords /\ b.stake = acs[m].stake /\ b.last = acs[m].last
      /\ b.tracker = acs[m].tracker /\ b.vested = acs[m].vested /\ b.nonStake = 0
  BY <1>3 DEF AccountRecords
<1>8. Principal(b) - Principal(acs[m]) = 0 - acs[m].nonStake
  BY <1>3, <1>7 DEF Principal, AccountRecords
<1> HIDE DEF q, b
<1>9. Books(q, bcs, stakeLeft, sober)
  BY <1>1, <1>2, <1>6, <1>7, PaidBooks
<1>10. Surplus(q, bcs, main') = Surplus(pool, acct, main) + acct[m].vested
  <2>1. /\ Surplus(p, acs, main') \in Int /\ p.tokens \in Int
        /\ acs[m].nonStake \in Nat /\ acs[m].vested \in Nat
    BY <1>2, <1>3, BookSumsTyped DEF Surplus, PoolRecords, MainRecords, AccountRecords
  <2>2. Surplus(q, bcs, main') = Surplus(p, acs, main') + (q.tokens - p.tokens)
                                   - (Principal(b) - Principal(acs[m]))
    BY <1>2, <1>6, <1>7, SurplusChange
  <2> HIDE DEF bcs
  <2> QED BY <1>2, <1>3, <1>4, <1>5, <1>6, <1>8, <2>1, <2>2
<1>11. unbacked' = unbacked - a.vested /\ unbacked \in Int /\ a.vested \in Nat
  BY DEF WithdrawNonStake, TypeOK, AccountRecords
<1>12. Surplus(pool, acct, main) \in Int
  BY BookSumsTyped DEF TypeOK, Surplus, PoolRecords, MainRecords
<1> HIDE DEF bcs
<1> QED BY <1>1, <1>9, <1>10, <1>11, <1>12

\* What is paid back on a member's behalf stays on its record
LEMMA WithdrawVestedBooks ==
    ASSUME TypeOK, NEW m \in Member, NEW caller \in Caller,
           WithdrawVested(m, caller),
           NEW stakeLeft, NEW sober, Books(pool, acct, stakeLeft, sober)
    PROVE  /\ Books(pool', acct', stakeLeft, sober)
           /\ Surplus(pool', acct', main')
                = Surplus(pool, acct, main) - (unbacked' - unbacked)
<1> DEFINE a == acct[m]
           p == PostPool(Spent(pool, a))
           acs == PostAccounts(Spent(pool, a), [acct EXCEPT ![m] = Updated(pool, a)])
           due == a.vested
           b == [acs[m] EXCEPT !.vested = 0, !.app = caller]
           t == p.tokens - due
           q == [p EXCEPT !.tokens = t]
           bcs == [acs EXCEPT ![m] = b]
<1>1. /\ m \in optedIn /\ CanUpdate(pool, a) /\ CanPost(Spent(pool, a))
      /\ PostMain(Spent(pool, a)) /\ due <= p.tokens
      /\ pool' = q /\ acct' = bcs
  BY DEF WithdrawVested
<1>2. /\ p \in PoolRecords /\ acs \in [Member -> AccountRecords] /\ main' \in MainRecords
      /\ Books(p, acs, stakeLeft, sober)
      /\ Surplus(p, acs, main') = Surplus(pool, acct, main)
      /\ \A k \in Member : acs[k].vested = acct[k].vested
  BY <1>1, UpdateAndPostBooks
<1> HIDE DEF p, acs
<1>3. acs[m] \in AccountRecords /\ a.vested = acs[m].vested
  BY <1>2
<1>4. t \in Nat /\ t = p.tokens - due /\ due \in Int
  BY <1>1, <1>2, <1>3 DEF PoolRecords, AccountRecords
<1>5. due = acs[m].vested
  BY <1>3
<1> HIDE DEF due, t
<1>6. /\ q \in PoolRecords /\ q.round = p.round /\ q.time = p.time /\ q.stake = p.stake
      /\ q.stakeTime = p.stakeTime /\ q.deposits = p.deposits
      /\ q.withdrawals = p.withdrawals /\ q.tokens = t
  BY <1>2, <1>4 DEF PoolRecords
<1>7. /\ b \in AccountRecords /\ b.stake = acs[m].stake /\ b.last = acs[m].last
      /\ b.tracker = acs[m].tracker /\ b.nonStake = acs[m].nonStake
  BY <1>3 DEF AccountRecords
<1>8. Principal(b) - Principal(acs[m]) = 0
  BY <1>3, <1>7 DEF Principal, AccountRecords
<1> HIDE DEF q, b
<1>9. Books(q, bcs, stakeLeft, sober)
  BY <1>1, <1>2, <1>6, <1>7, PaidBooks
<1>10. Surplus(q, bcs, main') = Surplus(pool, acct, main) - acct[m].vested
  <2>1. /\ Surplus(p, acs, main') \in Int /\ p.tokens \in Int
        /\ acs[m].nonStake \in Nat /\ acs[m].vested \in Nat
    BY <1>2, <1>3, BookSumsTyped DEF Surplus, PoolRecords, MainRecords, AccountRecords
  <2>2. Surplus(q, bcs, main') = Surplus(p, acs, main') + (q.tokens - p.tokens)
                                   - (Principal(b) - Principal(acs[m]))
    BY <1>2, <1>6, <1>7, SurplusChange
  <2> HIDE DEF bcs
  <2> QED BY <1>2, <1>3, <1>4, <1>5, <1>6, <1>8, <2>1, <2>2
<1>11. unbacked' = unbacked + a.vested /\ unbacked \in Int /\ a.vested \in Nat
  BY DEF WithdrawVested, TypeOK, AccountRecords
<1>12. Surplus(pool, acct, main) \in Int
  BY BookSumsTyped DEF TypeOK, Surplus, PoolRecords, MainRecords
<1> HIDE DEF bcs
<1> QED BY <1>1, <1>9, <1>10, <1>11, <1>12

LEMMA ManualBooks ==
    ASSUME TypeOK, NEW m \in Member, ManualProcessAggregation(m),
           NEW stakeLeft, NEW sober, Books(pool, acct, stakeLeft, sober)
    PROVE  /\ Books(pool', acct', stakeLeft, sober)
           /\ Surplus(pool', acct', main') = Surplus(pool, acct, main)
<1>1. /\ pool \in PoolRecords /\ main \in MainRecords
      /\ acct \in [Member -> AccountRecords]
  BY DEF TypeOK
<1>2. /\ CanPost(pool) /\ PostMain(pool)
      /\ pool' = PostPool(pool) /\ acct' = PostAccounts(pool, acct)
  BY DEF ManualProcessAggregation, CanPost, PostPool, PostAccounts
<1> QED BY <1>1, <1>2, PostBooks

\* A member without any stake
LEMMA FreshBooks ==
    ASSUME NEW p \in PoolRecords, NEW round \in Nat
    PROVE  /\ Fresh(round) \in AccountRecords
           /\ FoldedStake(Fresh(round)) = 0 /\ Principal(Fresh(round)) = 0
           /\ Waiting(p, Fresh(round)) = 0 /\ Owed(p, Fresh(round)) = 0
           /\ round <= p.round => Sound(p, Fresh(round))
<1> DEFINE a == Fresh(round)
<1>1. /\ a \in AccountRecords /\ a.stake = 0 /\ a.nonStake = 0 /\ a.last = round
      /\ Deposited(a) = 0 /\ Withdrawn(a) = 0
  BY DEF Fresh, AccountRecords, Trackers, TopLevel, Deposited, Withdrawn, HasTracker
<1> HIDE DEF a
<1>2. FoldedStake(a) = 0 /\ Principal(a) = 0 /\ Waiting(p, a) = 0
  BY <1>1 DEF FoldedStake, Principal, Waiting
<1>3. Owed(p, a) = 0
  <2>1. p.round - a.last \in Int
    BY <1>1 DEF PoolRecords
  <2>2. 0 * (p.round - a.last) = 0
    BY <2>1
  <2> QED BY <1>1, <1>2, <2>2 DEF Owed, StakeTime
<1> QED BY <1>1, <1>2, <1>3 DEF Sound, a

\* A new member has no stake
LEMMA OptInBooks ==
    ASSUME TypeOK, NEW m \in Member, OptIn(m), Books(pool, acct, left.stake, ~overdrawn)
    PROVE  /\ Books(pool, acct, left.stake, ~overdrawn)'
           /\ Surplus(pool', acct', main') = Surplus(pool, acct, main)
<1> DEFINE b == Fresh(pool.round)
<1>1. /\ pool \in PoolRecords /\ acct \in [Member -> AccountRecords] /\ pool.round \in Nat
  BY DEF TypeOK, PoolRecords
<1>2. /\ m \notin optedIn /\ optedIn' = optedIn \cup {m} /\ acct' = [acct EXCEPT ![m] = b]
      /\ UNCHANGED <<pool, main, left, overdrawn>>
  BY DEF OptIn, history
<1>3. acct[m] = Fresh(0) /\ acct'[m] = b /\ \A k \in Member : k # m => acct'[k] = acct[k]
  BY <1>1, <1>2 DEF Books
<1>4. /\ FoldedStake(b) = 0 /\ Principal(b) = 0 /\ Waiting(pool, b) = 0
      /\ Owed(pool, b) = 0 /\ Sound(pool, b)
  BY <1>1, FreshBooks
<1>5. /\ FoldedStake(acct[m]) = 0 /\ Principal(acct[m]) = 0 /\ Waiting(pool, acct[m]) = 0
      /\ Owed(pool, acct[m]) = 0
  BY <1>1, <1>3, FreshBooks
<1> HIDE DEF b
<1>6. /\ StakesOf(acct') = StakesOf(acct) /\ PrincipalsOf(acct') = PrincipalsOf(acct)
      /\ WaitingOf(pool, acct') = WaitingOf(pool, acct)
      /\ OwedOf(pool, acct') = OwedOf(pool, acct)
  BY <1>3, <1>4, <1>5 DEF StakesOf, PrincipalsOf, WaitingOf, OwedOf
<1>7. Unowned(pool', acct') = Unowned(pool, acct) /\ Surplus(pool', acct', main') = Surplus(pool, acct, main)
  BY <1>2, <1>6 DEF Unowned, Surplus
<1>8. Covered(pool, acct) => Covered(pool', acct')
  BY <1>2, <1>6, <1>7 DEF Covered
<1>9. \A k \in Member : Sound(pool, acct[k]) => Sound(pool', acct'[k])
  BY <1>2, <1>3, <1>4
<1>10. \A k \in Member \ optedIn' : acct'[k] = Fresh(0)
  BY <1>2, <1>3 DEF Books
<1> QED BY <1>2, <1>7, <1>8, <1>9, <1>10 DEF Books

\* A member that clears its state leaves what it owned behind
LEMMA ClearStateBooks ==
    ASSUME TypeOK, NEW m \in Member, ClearState(m),
           Books(pool, acct, left.stake, ~overdrawn)
    PROVE  /\ Books(pool, acct, left.stake, ~overdrawn)'
           /\ Surplus(pool', acct', main')
                = Surplus(pool, acct, main) + (left'.principal - left.principal)
<1> DEFINE a == acct[m]
           b == Fresh(0)
           stakes == SumOver(StakesOf(acct), Member)
           waiting == SumOver(WaitingOf(pool, acct), Member)
           owed == SumOver(OwedOf(pool, acct), Member)
<1>1. /\ pool \in PoolRecords /\ acct \in [Member -> AccountRecords] /\ a \in AccountRecords
      /\ main \in MainRecords
      /\ left \in [stake : Int, principal : Int] /\ pool.round \in Nat
      /\ pool.stake \in Nat /\ pool.deposits \in Nat /\ pool.withdrawals \in Nat
      /\ pool.stakeTime \in Nat
  BY DEF TypeOK, PoolRecords
<1>2. /\ optedIn' = optedIn \ {m} /\ acct' = [acct EXCEPT ![m] = b]
      /\ left' = [stake |-> left.stake + FoldedStake(a),
                  principal |-> left.principal + Principal(a)]
      /\ UNCHANGED <<pool, main, overdrawn>>
  BY DEF ClearState
<1>3. acct'[m] = b /\ \A k \in Member : k # m => acct'[k] = acct[k]
  BY <1>1, <1>2
<1>4. /\ b \in AccountRecords /\ FoldedStake(b) = 0 /\ Principal(b) = 0
      /\ Waiting(pool, b) = 0 /\ Owed(pool, b) = 0 /\ Sound(pool, b)
  BY <1>1, FreshBooks
<1>5. b = Fresh(0)
  OBVIOUS
<1> HIDE DEF b
<1>6. /\ SumOver(StakesOf(acct'), Member) = stakes - FoldedStake(a) + FoldedStake(b)
      /\ SumOver(WaitingOf(pool, acct'), Member) = waiting - Waiting(pool, a) + Waiting(pool, b)
      /\ SumOver(OwedOf(pool, acct'), Member) = owed - Owed(pool, a) + Owed(pool, b)
  BY <1>1, <1>2, <1>4, ReplacedSums
<1>7. /\ stakes \in Int /\ waiting \in Int /\ owed \in Int
      /\ FoldedStake(a) \in Int /\ Principal(a) \in Int /\ Waiting(pool, a) \in Nat
      /\ Owed(pool, a) \in Int /\ StakeTime(pool, a) \in Int
      /\ Deposited(a) \in Nat /\ Withdrawn(a) \in Nat
  BY <1>1, BookSumsTyped, BooksTyped
<1>8. Surplus(pool', acct', main')
        = Surplus(pool, acct, main) + (left'.principal - left.principal)
  <2>1. Surplus(pool, acct, main) \in Int /\ pool.tokens \in Int
    BY <1>1, BookSumsTyped DEF Surplus, PoolRecords, MainRecords
  <2>2. Surplus(pool, acct', main) = Surplus(pool, acct, main) + (pool.tokens - pool.tokens)
                                       - (Principal(b) - Principal(a))
    BY <1>1, <1>2, <1>4, SurplusChange
  <2>3. left'.principal = left.principal + Principal(a) /\ left.principal \in Int
    BY <1>1, <1>2
  <2> QED BY <1>2, <1>4, <1>7, <2>1, <2>2, <2>3
<1> HIDE DEF a, stakes, waiting, owed
<1>9. /\ Unowned(pool', acct') = Unowned(pool, acct) + FoldedStake(a)
      /\ Unowned(pool, acct) \in Int
      /\ left'.stake = left.stake + FoldedStake(a)
  BY <1>1, <1>2, <1>4, <1>6, <1>7 DEF Unowned, stakes
<1>10. ASSUME Covered(pool, acct), \A k \in Member : Sound(pool, acct[k])
       PROVE  Covered(pool', acct')
  <2>1. /\ 0 <= Unowned(pool, acct) /\ pool.deposits <= waiting + Unowned(pool, acct)
        /\ owed <= pool.stakeTime
    BY <1>10 DEF Covered, waiting, owed
  <2>2. Withdrawn(a) <= a.stake /\ a.last <= pool.round /\ a.stake \in Nat /\ a.last \in Nat
    BY <1>1, <1>10 DEF Sound, a, AccountRecords
  <2>3. Waiting(pool, a) <= FoldedStake(a) /\ 0 <= FoldedStake(a)
    BY <1>7, <2>2 DEF Waiting, FoldedStake
  <2>4. 0 <= Owed(pool, a)
    <3>1. CASE a.last = pool.round
      BY <1>1, <3>1, OwesNothing
    <3>2. CASE a.last # pool.round
      <4> DEFINE f == FoldedStake(a)
                 i == pool.round - a.last - 1
      <4>1. i \in Nat /\ f \in Nat /\ pool.round - a.last = i + 1
        BY <1>1, <1>7, <2>2, <2>3, <3>2
      <4>2. f * (i + 1) = f * i + f /\ f * i \in Nat
        <5> HIDE DEF f, i
        <5> QED BY <4>1
      <4>3. Deposited(a) <= f
        BY <1>7, <2>2 DEF FoldedStake
      <4>4. StakeTime(pool, a) = f * (i + 1) - Deposited(a)
        BY <4>1 DEF StakeTime
      <4> HIDE DEF f, i
      <4>5. 0 <= StakeTime(pool, a)
        BY <1>7, <4>1, <4>2, <4>3, <4>4
      <4> QED BY <1>7, <4>5 DEF Owed
    <3> QED BY <3>1, <3>2
  <2>5. /\ 0 <= Unowned(pool', acct')
        /\ pool.deposits <= SumOver(WaitingOf(pool, acct'), Member) + Unowned(pool', acct')
        /\ SumOver(OwedOf(pool, acct'), Member) <= pool.stakeTime
    BY <1>1, <1>4, <1>6, <1>7, <1>9, <2>1, <2>3, <2>4
  <2> QED BY <1>2, <2>5 DEF Covered
<1>11. \A k \in Member : Sound(pool, acct[k]) => Sound(pool', acct'[k])
  BY <1>2, <1>3, <1>4
<1>12. \A k \in Member \ optedIn' : acct'[k] = Fresh(0)
  BY <1>2, <1>3, <1>5 DEF Books
<1> QED BY <1>2, <1>8, <1>9, <1>10, <1>11, <1>12 DEF Books

-----------------------------------------------------------------------------
(* Every step *)

\* configure_settings touches nothing the books count
LEMMA ConfigureBooks ==
    ASSUME TypeOK, NEW m, NEW b, NEW share, ConfigureSettings(m, b, share),
           Books(pool, acct, left.stake, ~overdrawn)
    PROVE  /\ Books(pool, acct, left.stake, ~overdrawn)'
           /\ Surplus(pool', acct', main') = Surplus(pool, acct, main)
<1> DEFINE q == [pool EXCEPT !.manager = b, !.share = share]
<1>1. /\ pool' = q /\ UNCHANGED <<optedIn, acct, main, left, overdrawn>>
  BY DEF ConfigureSettings, history
<1>2. /\ q.round = pool.round /\ q.time = pool.time /\ q.stake = pool.stake
      /\ q.stakeTime = pool.stakeTime /\ q.deposits = pool.deposits
      /\ q.withdrawals = pool.withdrawals /\ q.tokens = pool.tokens
  BY DEF TypeOK, PoolRecords
<1> HIDE DEF q
<1>3. /\ WaitingOf(q, acct) = WaitingOf(pool, acct) /\ OwedOf(q, acct) = OwedOf(pool, acct)
      /\ \A k \in Member : Sound(q, acct[k]) <=> Sound(pool, acct[k])
  BY <1>2, SameRound
<1>4. /\ Unowned(q, acct) = Unowned(pool, acct) /\ Surplus(q, acct, main) = Surplus(pool, acct, main)
  BY <1>2 DEF Unowned, Surplus
<1>5. Covered(pool, acct) => Covered(q, acct)
  BY <1>2, <1>3, <1>4 DEF Covered
<1> QED BY <1>1, <1>2, <1>3, <1>4, <1>5 DEF Books

\* A call of a member keeps the books
LEMMA MemberStepBooks ==
    ASSUME TypeOK, NEW m \in Member, MemberStep(m),
           Books(pool, acct, left.stake, ~overdrawn)
    PROVE  Books(pool, acct, left.stake, ~overdrawn)'
<1>1. CASE OptIn(m)
  BY <1>1, OptInBooks
<1>2. CASE ClearState(m)
  BY <1>2, ClearStateBooks
<1>3. CASE UserClaim(m)
  BY <1>3, UserClaimBooks DEF UserClaim, Books
<1>4. CASE WithdrawNonStake(m)
  BY <1>4, WithdrawNonStakeBooks DEF WithdrawNonStake, Books
<1>5. CASE ManualProcessAggregation(m)
  BY <1>5, ManualBooks DEF ManualProcessAggregation, Books, history
<1>6. ASSUME NEW amount \in Amount, NEW arrives \in BOOLEAN, Stake(m, amount, arrives)
      PROVE  Books(pool, acct, left.stake, ~overdrawn)'
  <2>1. amount \in Nat /\ acct[m].app \in Caller \cup {TopLevel}
    BY DelegatorAssumption DEF TypeOK, AccountRecords
  <2>2. TakeStake(m, amount, 0, acct[m].app, arrives)
    BY <1>6 DEF Stake
  <2>4. UNCHANGED <<optedIn, left, overdrawn>>
    BY <2>2 DEF TakeStake
  <2>3. Books(pool', acct', left.stake, ~overdrawn)
    BY <2>1, <2>2, TakeStakeBooks
  <2> QED BY <2>4, <2>3 DEF Books
<1>7. ASSUME NEW amount \in Amount, Unstake(m, amount)
      PROVE  Books(pool, acct, left.stake, ~overdrawn)'
  <2>1. amount \in Nat
    BY DelegatorAssumption
  <2>2. UNCHANGED <<optedIn, left>>
    BY <1>7 DEF Unstake
  <2>3. Books(pool', acct', left.stake, ~overdrawn')
    BY <1>7, <2>1, UnstakeBooks
  <2> QED BY <2>2, <2>3 DEF Books
<1>8. ASSUME NEW b \in Manager, NEW share \in ManagerShare, ConfigureSettings(m, b, share)
      PROVE  Books(pool, acct, left.stake, ~overdrawn)'
  BY <1>8, ConfigureBooks
<1> QED BY <1>1, <1>2, <1>3, <1>4, <1>5, <1>6, <1>7, <1>8 DEF MemberStep

\* A call of a member keeps the tokens and the principals together
LEMMA MemberStepFunds ==
    ASSUME TypeOK, NEW m \in Member, MemberStep(m),
           Books(pool, acct, left.stake, ~overdrawn), Funded
    PROVE  Funded'
<1>0. /\ earned \in Nat /\ paid \in Nat /\ left.principal \in Int /\ unbacked \in Int
      /\ Surplus(pool, acct, main) \in Int
  BY BookSumsTyped DEF TypeOK, Surplus, PoolRecords, MainRecords
<1>1. CASE OptIn(m)
  <2>1. UNCHANGED <<left, earned, paid, unbacked>>
    BY <1>1 DEF OptIn, history
  <2> QED BY <1>1, <2>1, OptInBooks DEF Funded
<1>2. CASE ClearState(m)
  <2>1. UNCHANGED <<earned, paid, unbacked>> /\ left'.principal = left.principal + Principal(acct[m])
    BY <1>2 DEF ClearState
  <2>2. Principal(acct[m]) \in Int
    BY BooksTyped DEF TypeOK
  <2> QED BY <1>0, <1>2, <2>1, <2>2, ClearStateBooks DEF Funded
<1>3. CASE UserClaim(m)
  <2>2. [Next]_vars
    BY DEF Next
  <2>3. TypeOK'
    BY <2>2, StepKeeps DEF Kept
  <2>1. UNCHANGED <<left, earned, unbacked>> /\ paid' \in Int
    BY <1>3, <2>3 DEF UserClaim, TypeOK
  <2> QED BY <1>0, <1>3, <2>1, UserClaimBooks DEF Funded
<1>4. CASE WithdrawNonStake(m)
  <2>1. UNCHANGED <<left, earned, paid>> /\ unbacked' \in Int
    BY <1>4, WithdrawNonStakeKeeps DEF WithdrawNonStake, Kept, TypeOK
  <2> QED BY <1>0, <1>4, <2>1, WithdrawNonStakeBooks DEF Funded
<1>5. CASE ManualProcessAggregation(m)
  <2>1. UNCHANGED <<left, earned, paid, unbacked>>
    BY <1>5 DEF ManualProcessAggregation, history
  <2> QED BY <1>5, <2>1, ManualBooks DEF Funded
<1>6. ASSUME NEW amount \in Amount, NEW arrives \in BOOLEAN, Stake(m, amount, arrives)
      PROVE  Funded'
  <2>1. amount \in Nat /\ acct[m].app \in Caller \cup {TopLevel}
    BY DelegatorAssumption DEF TypeOK, AccountRecords
  <2>2. TakeStake(m, amount, 0, acct[m].app, arrives)
    BY <1>6 DEF Stake
  <2>3. UNCHANGED <<left, earned, paid>> /\ unbacked' \in Int
    BY <1>6, <2>1, <2>2, StakeKeeps DEF TakeStake, Kept, TypeOK
  <2> QED BY <1>0, <2>1, <2>2, <2>3, TakeStakeBooks DEF Funded
<1>7. ASSUME NEW amount \in Amount, Unstake(m, amount)
      PROVE  Funded'
  <2>1. amount \in Nat
    BY DelegatorAssumption
  <2>2. UNCHANGED <<left, earned, paid, unbacked>>
    BY <1>7 DEF Unstake
  <2> QED BY <1>7, <2>1, <2>2, UnstakeBooks DEF Funded
<1>8. ASSUME NEW b \in Manager, NEW share \in ManagerShare, ConfigureSettings(m, b, share)
      PROVE  Funded'
  <2>1. UNCHANGED <<acct, left, earned, paid, unbacked>>
    BY <1>8 DEF ConfigureSettings, history
  <2> QED BY <1>8, <2>1, ConfigureBooks DEF Funded
<1> QED BY <1>1, <1>2, <1>3, <1>4, <1>5, <1>6, <1>7, <1>8 DEF MemberStep

\* So does a call on behalf of a member
LEMMA BehalfStepBooks ==
    ASSUME TypeOK, NEW m \in Member, NEW caller \in Caller, BehalfStep(m, caller),
           Books(pool, acct, left.stake, ~overdrawn)
    PROVE  /\ Books(pool, acct, left.stake, ~overdrawn)'
           /\ Funded => Funded'
<1>0. /\ earned \in Nat /\ paid \in Nat /\ left.principal \in Int /\ unbacked \in Int
      /\ Surplus(pool, acct, main) \in Int
  BY BookSumsTyped DEF TypeOK, Surplus, PoolRecords, MainRecords
<1>1. unbacked' \in Int
  BY BehalfKeeps DEF Kept, TypeOK
<1>2. ASSUME NEW amount \in Amount, NEW arrives \in BOOLEAN,
             StakeVested(m, amount, caller, arrives)
      PROVE  /\ UNCHANGED <<optedIn, left, overdrawn, earned, paid>>
             /\ Books(pool', acct', left.stake, ~overdrawn)
             /\ Surplus(pool', acct', main')
                  = Surplus(pool, acct, main) - (unbacked' - unbacked)
  <2>1. amount \in Nat /\ caller \in Caller \cup {TopLevel}
    BY DelegatorAssumption
  <2>2. TakeStake(m, amount, amount, caller, arrives)
    BY <1>2 DEF StakeVested
  <2>3. UNCHANGED <<optedIn, left, overdrawn, earned, paid>>
    BY <2>2 DEF TakeStake
  <2> QED BY <2>1, <2>2, <2>3, TakeStakeBooks
<1>3. ASSUME WithdrawVested(m, caller)
      PROVE  /\ UNCHANGED <<optedIn, left, overdrawn, earned, paid>>
             /\ Books(pool', acct', left.stake, ~overdrawn)
             /\ Surplus(pool', acct', main')
                  = Surplus(pool, acct, main) - (unbacked' - unbacked)
  BY <1>3, WithdrawVestedBooks DEF WithdrawVested
<1>4. /\ UNCHANGED <<optedIn, left, overdrawn, earned, paid>>
      /\ Books(pool', acct', left.stake, ~overdrawn)
      /\ Surplus(pool', acct', main') = Surplus(pool, acct, main) - (unbacked' - unbacked)
  BY <1>2, <1>3 DEF BehalfStep
<1>5. Books(pool, acct, left.stake, ~overdrawn)'
  BY <1>4 DEF Books
<1> QED BY <1>0, <1>1, <1>4, <1>5 DEF Funded

LEMMA StepBooks == TypeOK /\ BooksInv /\ [Next]_vars => BooksInv'
<1> SUFFICES ASSUME TypeOK, BooksInv, [Next]_vars PROVE BooksInv'
  OBVIOUS
<1>0. Books(pool, acct, left.stake, ~overdrawn) /\ Funded
  BY DEF BooksInv
<1>1. ASSUME NEW m \in Member, MemberStep(m) PROVE BooksInv'
  BY <1>0, <1>1, MemberStepBooks, MemberStepFunds DEF BooksInv
<1>5. ASSUME NEW m \in Member, NEW caller \in Caller, BehalfStep(m, caller) PROVE BooksInv'
  BY <1>0, <1>5, BehalfStepBooks DEF BooksInv
<1>2. CASE NextRound
  <2>1. UNCHANGED <<pool, optedIn, acct, left, overdrawn, earned, paid, unbacked>>
    BY <1>2 DEF NextRound, history
  <2>2. main'.stake = main.stake /\ main'.token = main.token
    BY <1>2 DEF NextRound, TypeOK, MainRecords
  <2>3. Surplus(pool', acct', main') = Surplus(pool, acct, main)
    BY <2>1, <2>2 DEF Surplus
  <2> QED BY <1>0, <2>1, <2>3 DEF BooksInv, Books, Funded
<1>3. ASSUME NEW amount \in Reward, EarnRewards(amount) PROVE BooksInv'
  <2>1. UNCHANGED <<pool, optedIn, acct, left, overdrawn, paid, unbacked>>
    BY <1>3 DEF EarnRewards
  <2>2. /\ amount \in Nat /\ main'.stake = main.stake /\ main'.token = main.token + amount
        /\ earned' = earned + amount
    BY <1>3, DelegatorAssumption DEF EarnRewards, TypeOK, MainRecords
  <2>3. /\ pool.tokens \in Nat /\ main.stake \in Nat /\ main.token \in Nat
        /\ SumOver(PrincipalsOf(acct), Member) \in Int
        /\ left.principal \in Int /\ earned \in Nat /\ paid \in Nat /\ unbacked \in Int
    BY BookSumsTyped DEF TypeOK, PoolRecords, MainRecords
  <2>4. Surplus(pool', acct', main') = Surplus(pool, acct, main) + amount
    BY <2>1, <2>2, <2>3 DEF Surplus
  <2>5. Funded'
    BY <1>0, <2>1, <2>2, <2>3, <2>4 DEF Funded, Surplus
  <2> QED BY <1>0, <2>1, <2>5 DEF BooksInv, Books, Funded
<1>4. CASE UNCHANGED vars
  BY <1>0, <1>4 DEF BooksInv, Books, Funded, vars, history
<1> QED BY <1>1, <1>2, <1>3, <1>4, <1>5 DEF Next

LEMMA InitBooks == Init => BooksInv
<1> SUFFICES ASSUME Init PROVE BooksInv
  OBVIOUS
<1> USE DEF Init
<1>1. pool \in PoolRecords /\ IsFiniteSet(Member)
  BY DelegatorAssumption DEF PoolRecords
<1>2. \A m \in Member : acct[m] = Fresh(0)
  OBVIOUS
<1>3. \A m \in Member :
         /\ FoldedStake(acct[m]) = 0 /\ Principal(acct[m]) = 0
         /\ Waiting(pool, acct[m]) = 0 /\ Owed(pool, acct[m]) = 0
         /\ Sound(pool, acct[m])
  BY <1>1, <1>2, FreshBooks DEF PoolRecords
<1>4. /\ \A m \in Member : StakesOf(acct)[m] = 0 /\ PrincipalsOf(acct)[m] = 0
      /\ \A m \in Member : WaitingOf(pool, acct)[m] = 0 /\ OwedOf(pool, acct)[m] = 0
  BY <1>3 DEF StakesOf, PrincipalsOf, WaitingOf, OwedOf
<1>5. /\ SumOver(StakesOf(acct), Member) = 0 /\ SumOver(PrincipalsOf(acct), Member) = 0
      /\ SumOver(WaitingOf(pool, acct), Member) = 0 /\ SumOver(OwedOf(pool, acct), Member) = 0
  BY <1>1, <1>4, SumZero
<1>6. Unowned(pool, acct) = 0 /\ Surplus(pool, acct, main) = 0
  BY <1>5 DEF Unowned, Surplus
<1>7. Covered(pool, acct)
  BY <1>5, <1>6 DEF Covered
<1> QED BY <1>2, <1>3, <1>6, <1>7 DEF BooksInv, Books, Funded

\* The invariant holds in every reachable state
THEOREM BooksKept == Spec => []BooksInv
BY InitBooks, StepBooks, DelegatorTypeCorrect, PTL DEF Spec

LEMMA BooksBelong ==
    ASSUME TypeOK, Books(pool, acct, left.stake, ~overdrawn)
    PROVE  StakeBelongsToMembers
<1>1. SumOver(StakesOf(acct), Member) \in Int
  BY BookSumsTyped DEF TypeOK
<1>2. /\ pool.stake \in Nat /\ pool.deposits \in Nat /\ pool.withdrawals \in Nat
      /\ left.stake \in Int
  BY DEF TypeOK, PoolRecords
<1>3. pool.stake + pool.deposits - pool.withdrawals - SumOver(StakesOf(acct), Member) = left.stake
  BY DEF Books, Unowned
<1>4. pool.stake + pool.deposits - pool.withdrawals = SumOver(StakesOf(acct), Member) + left.stake
  BY <1>1, <1>2, <1>3
<1> QED BY <1>4 DEF StakeBelongsToMembers, SumOf, StakesOf

\* The pool's stake is its members' own, to the unit: once what pends is folded
\* it is what the members own and what leavers left, however many members there
\* are and however long their calls lag behind the aggregations.
THEOREM StakeBelongs == Spec => []StakeBelongsToMembers
<1>1. TypeOK /\ BooksInv => StakeBelongsToMembers
  BY BooksBelong DEF BooksInv
<1> QED BY <1>1, BooksKept, DelegatorTypeCorrect, PTL

\* What the delegator holds and has staked is what its members have on record
\* and rewards that were collected and not paid, but for exactly what is known to
\* be unbacked: deposits that did not arrive and vested amounts paid back.
THEOREM PrincipalIsConserved == Spec => []PrincipalConserved
<1>1. TypeOK /\ BooksInv => PrincipalConserved
  <2> SUFFICES ASSUME TypeOK, BooksInv PROVE PrincipalConserved
    OBVIOUS
  <2>1. SumOver(PrincipalsOf(acct), Member) \in Int
    BY BookSumsTyped DEF TypeOK
  <2>2. /\ pool.tokens \in Nat /\ main.stake \in Nat /\ main.token \in Nat
        /\ left.principal \in Int /\ earned \in Nat /\ paid \in Nat /\ unbacked \in Int
    BY DEF TypeOK, PoolRecords, MainRecords
  <2>3. pool.tokens + main.stake + main.token - SumOver(PrincipalsOf(acct), Member)
          = left.principal + earned - paid - unbacked
    BY DEF BooksInv, Funded, Surplus
  <2> DEFINE principals == SumOver(PrincipalsOf(acct), Member)
  <2>4. pool.tokens + main.stake + unbacked - (earned - main.token - paid)
          = principals + left.principal
    <3>1. principals \in Int /\ pool.tokens + main.stake + main.token - principals
                                 = left.principal + earned - paid - unbacked
      BY <2>1, <2>3
    <3> HIDE DEF principals
    <3> QED BY <2>2, <3>1
  <2> QED BY <2>4 DEF PrincipalConserved, SumOf, PrincipalsOf
<1> QED BY <1>1, BooksKept, DelegatorTypeCorrect, PTL

\* As long as nobody unstaked more than it had, the pool's stake time covers
\* what all its members together could take off it, so that nobody's call can
\* fail on that subtraction for what the others did.
THEOREM StakeTimeIsCovered == Spec => []StakeTimeCovered
<1>1. TypeOK /\ BooksInv => StakeTimeCovered
  <2> SUFFICES ASSUME TypeOK, BooksInv, ~overdrawn
               PROVE  SumOver([m \in Member |-> StakeTime(pool, acct[m])], optedIn) <= pool.stakeTime
    BY DEF StakeTimeCovered
  <2> DEFINE f == [m \in Member |-> StakeTime(pool, acct[m])]
             g == [m \in Member |-> IF m \in optedIn THEN StakeTime(pool, acct[m]) ELSE 0]
             h == OwedOf(pool, acct)
  <2>1. /\ pool \in PoolRecords /\ optedIn \in SUBSET Member
        /\ acct \in [Member -> AccountRecords] /\ IsFiniteSet(Member) /\ pool.stakeTime \in Int
    BY DelegatorAssumption DEF TypeOK, PoolRecords
  <2>2. ASSUME NEW m \in Member
        PROVE  /\ f[m] \in Int /\ g[m] \in Int /\ h[m] \in Int /\ g[m] <= h[m]
               /\ g[m] = IF m \in optedIn THEN f[m] ELSE 0
    <3>1. /\ StakeTime(pool, acct[m]) \in Int /\ Waiting(pool, acct[m]) \in Nat
          /\ h[m] = StakeTime(pool, acct[m]) + Waiting(pool, acct[m])
      BY <2>1, BooksTyped DEF OwedOf, Owed
    <3>2. m \notin optedIn => h[m] = 0
      BY <2>1, FreshBooks DEF BooksInv, Books, OwedOf
    <3> QED BY <3>1, <3>2
  <2>3. SumOver(h, Member) <= pool.stakeTime
    BY DEF BooksInv, Books, Covered
  <2> HIDE DEF f, g, h
  <2>4. SumOver(g, Member) = SumOver(f, optedIn)
    BY <2>1, <2>2, SumPart
  <2>5. SumOver(g, Member) <= SumOver(h, Member)
    BY <2>1, <2>2, SumLeq
  <2>6. SumOver(g, Member) \in Int /\ SumOver(h, Member) \in Int
    BY <2>1, <2>2, SumInt
  <2>7. SumOver(f, optedIn) <= pool.stakeTime
    BY <2>1, <2>3, <2>4, <2>5, <2>6
  <2> QED BY <2>7 DEF f
<1> QED BY <1>1, BooksKept, DelegatorTypeCorrect, PTL

=============================================================================
