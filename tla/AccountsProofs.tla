--------------------------- MODULE AccountsProofs ---------------------------
(***************************************************************************)
(* What holds of the main contract's accounts for every set of accounts,   *)
(* every amount and every number of rounds.                                *)
(***************************************************************************)
EXTENDS Accounts, SumsProofs

-----------------------------------------------------------------------------
(* Stake arrays *)

\* A fresh array is an array
LEMMA InitArrayType ==
    ASSUME NEW r \in Nat, NEW total \in Nat
    PROVE  InitArray(r, total) \in StakeArrays
BY DEF InitArray, Entry, StakeArrays, StakeEntries

\* update_stake keeps an array an array
LEMMA UpdatedType ==
    ASSUME NEW arr \in StakeArrays, NEW r \in Nat, NEW stake \in Nat
    PROVE  Updated(arr, r, stake) \in StakeArrays
BY DEF Updated, Entry, StakeArrays, StakeEntries

\* An update in round r leaves every stake that can still be read for a round
\* up to r as it was: it is the stake at the start of r, and no other
LEMMA UpdatedKeepsSnapshots ==
    ASSUME NEW arr \in StakeArrays, NEW r \in Nat, NEW stake \in Nat,
           Updatable(arr, r),
           NEW q \in 0..r,
           Readable(Updated(arr, r, stake), q)
    PROVE  StakeAt(Updated(arr, r, stake), q) = StakeAt(arr, q)
<1>1. Updated(arr, r, stake).cur.round = r
  BY DEF Updated, Entry
<1>2. q = r
  BY <1>1 DEF Readable
<1>3. StakeAt(Updated(arr, r, stake), q) = Updated(arr, r, stake).hist.stake
  BY <1>1, <1>2 DEF StakeAt
<1>4. CASE arr.cur.round < r
  <2>1. Updated(arr, r, stake).hist = arr.cur
    BY <1>4 DEF Updated
  <2> QED
    BY <1>2, <1>3, <1>4, <2>1 DEF StakeAt
<1>5. CASE ~(arr.cur.round < r)
  <2>1. Updated(arr, r, stake).hist = arr.hist
    BY <1>5 DEF Updated
  <2> QED
    BY <1>2, <1>3, <1>5, <2>1 DEF StakeAt
<1> QED
  BY <1>4, <1>5

\* A change of an account's stake leaves the stake arrays and locks well typed
LEMMA ChangeStakeType ==
    ASSUME TypeOK, NEW a \in Account, NEW ls \in Nat, NEW gs \in Nat,
           ChangeStake(a, ls, gs)
    PROVE  /\ stakeArray' \in [Account -> StakeArrays]
           /\ stakeTimeout' \in [Account -> Nat]
           /\ totalStake' \in StakeArrays
<1>1. Updated(stakeArray[a], now, ls) \in StakeArrays
  BY UpdatedType DEF TypeOK
<1>2. Updated(totalStake, now, gs) \in StakeArrays
  BY UpdatedType DEF TypeOK
<1>3. now + settings.timeLock \in Nat
  BY DEF TypeOK, SettingsType
<1> QED
  BY <1>1, <1>2, <1>3 DEF TypeOK, ChangeStake

-----------------------------------------------------------------------------
(* Types *)

\* The state the contract is created in is well typed
LEMMA InitTyped == Init => TypeOK
<1> SUFFICES ASSUME Init PROVE TypeOK
  OBVIOUS
<1>1. InitArray(0, 0) \in StakeArrays /\ InitArray(1, 0) \in StakeArrays
  BY InitArrayType
<1> QED
  BY <1>1, AmountAssumption, SettingsAssumption DEF Init, TypeOK, NoStake

\* Every group leaves the state well typed
LEMMA StepTyped == TypeOK /\ [Next]_accountVars => TypeOK'
<1> SUFFICES ASSUME TypeOK, [Next]_accountVars PROVE TypeOK'
  OBVIOUS
<1> USE DEF stakeVars, keyVars, balanceVars, assetVars
<1>1. CASE NextRound
  BY <1>1 DEF NextRound, TypeOK
<1>2. ASSUME NEW a \in Account, OptIn(a) PROVE TypeOK'
  <2>1. InitArray(now, 0) \in StakeArrays
    BY InitArrayType DEF TypeOK
  <2> QED
    BY <1>2, <2>1 DEF OptIn, TypeOK
<1>3. ASSUME NEW a \in Account, ClearState(a) PROVE TypeOK'
  <2>1. NoStake \in StakeArrays
    BY InitArrayType DEF NoStake
  <2> QED
    BY <1>3, <2>1 DEF ClearState, TypeOK
<1>4. ASSUME NEW a \in Account, Subscribe(a) PROVE TypeOK'
  <2>1. settings.subLock \in Nat
    BY DEF TypeOK, SettingsType
  <2>2. accountToken[a] - settings.subLock \in Nat
    BY <1>4, <2>1 DEF Subscribe, TypeOK
  <2>3. lockedTokens[a] + settings.subLock \in Nat
    BY <2>1 DEF TypeOK
  <2> QED
    BY <1>4, <2>2, <2>3 DEF Subscribe, TypeOK
<1>5. ASSUME NEW a \in Account, UnregisterKey(a) PROVE TypeOK'
  BY <1>5 DEF UnregisterKey, TypeOK
<1>6. ASSUME NEW a \in Account, NEW k \in PublicKey, RegisterKey(a, k)
      PROVE TypeOK'
  BY <1>6 DEF RegisterKey, TypeOK
<1>7. ASSUME NEW a \in Account, NEW amount \in StakeAmount, Stake(a, amount)
      PROVE TypeOK'
  <2>1. /\ amount \in Nat
        /\ stakeArray[a].cur.stake \in Nat /\ totalStake.cur.stake \in Nat
    BY AmountAssumption DEF TypeOK, StakeArrays, StakeEntries
  <2>2. ChangeStake(a, stakeArray[a].cur.stake + amount, totalStake.cur.stake + amount)
    BY <1>7 DEF Stake
  <2>3. /\ stakeArray' \in [Account -> StakeArrays]
        /\ stakeTimeout' \in [Account -> Nat]
        /\ totalStake' \in StakeArrays
    BY <2>1, <2>2, ChangeStakeType
  <2>4. walletToken[a] - amount \in Nat
    BY <1>7, <2>1 DEF Stake, TypeOK
  <2>5. walletToken' \in [Account -> Nat] /\ vaultToken' \in Nat
    BY <1>7, <2>1, <2>4 DEF Stake, TypeOK
  <2>6. UNCHANGED <<now, settings, optedIn, keyVars, balanceVars, walletAlgo, vaultAlgo>>
    BY <1>7 DEF Stake
  <2> QED
    BY <2>3, <2>5, <2>6 DEF TypeOK
<1>8. ASSUME NEW a \in Account, NEW amount \in StakeAmount, Unstake(a, amount)
      PROVE TypeOK'
  <2>1. /\ amount \in Nat
        /\ stakeArray[a].cur.stake \in Nat /\ totalStake.cur.stake \in Nat
    BY AmountAssumption DEF TypeOK, StakeArrays, StakeEntries
  <2>2. /\ ChangeStake(a, stakeArray[a].cur.stake - amount, totalStake.cur.stake - amount)
        /\ stakeArray[a].cur.stake - amount \in Nat
        /\ totalStake.cur.stake - amount \in Nat
    BY <1>8, <2>1 DEF Unstake
  <2>3. /\ stakeArray' \in [Account -> StakeArrays]
        /\ stakeTimeout' \in [Account -> Nat]
        /\ totalStake' \in StakeArrays
    BY <2>2, ChangeStakeType
  <2>4. vaultToken - amount \in Nat
    BY <1>8, <2>1 DEF Unstake, TypeOK
  <2>5. walletToken' \in [Account -> Nat] /\ vaultToken' \in Nat
    BY <1>8, <2>1, <2>4 DEF Unstake, TypeOK
  <2>6. UNCHANGED <<now, settings, optedIn, keyVars, balanceVars, walletAlgo, vaultAlgo>>
    BY <1>8 DEF Unstake
  <2> QED
    BY <2>3, <2>5, <2>6 DEF TypeOK
<1>9. ASSUME NEW a \in Account, NEW amount \in DepositAmount,
             WithdrawToken(a, amount) \/ WithdrawAlgo(a, amount)
      PROVE TypeOK'
  <2>1. amount \in Nat
    BY AmountAssumption
  <2>2. CASE WithdrawToken(a, amount)
    BY <2>1, <2>2 DEF WithdrawToken, Enough, TypeOK
  <2>3. CASE WithdrawAlgo(a, amount)
    BY <2>1, <2>3 DEF WithdrawAlgo, Enough, TypeOK
  <2> QED
    BY <1>9, <2>2, <2>3
<1>10. ASSUME NEW payer \in Account, NEW a \in Account, NEW amount \in DepositAmount,
              DepositToken(payer, a, amount) \/ DepositAlgo(payer, a, amount)
       PROVE TypeOK'
  <2>1. amount \in Nat
    BY AmountAssumption
  <2>2. CASE DepositToken(payer, a, amount)
    BY <2>1, <2>2 DEF DepositToken, TypeOK
  <2>3. CASE DepositAlgo(payer, a, amount)
    BY <2>1, <2>3 DEF DepositAlgo, TypeOK
  <2> QED
    BY <1>10, <2>2, <2>3
<1>11. ASSUME NEW a \in Account, NEW s \in Settings, UpdateProtocolSettings(a, s)
       PROVE TypeOK'
  BY <1>11, SettingsAssumption DEF UpdateProtocolSettings, TypeOK
<1>12. CASE UNCHANGED accountVars
  BY <1>12 DEF accountVars, TypeOK
<1> QED
  BY <1>1, <1>2, <1>3, <1>4, <1>5, <1>6, <1>7, <1>8, <1>9, <1>10, <1>11, <1>12
     DEF Next, AccountStep

\* The main contract's state is well typed in every reachable state.  Since the
\* types are naturals, this says that no balance, stake or vault is ever drawn
\* below zero: each unsigned subtraction is guarded where it is made.
THEOREM TypeCorrect == Spec => []TypeOK
<1>1. Init => TypeOK
  BY InitTyped
<1>2. TypeOK /\ [Next]_accountVars => TypeOK'
  BY StepTyped
<1> QED
  BY <1>1, <1>2, PTL DEF Spec

-----------------------------------------------------------------------------
(* Stakes as of a round *)

\* A change of one stake rewrites no stake of a round that has begun
LEMMA ChangeStakeFrozen ==
    ASSUME TypeOK, NEW a \in Account, NEW ls \in Nat, NEW gs \in Nat,
           ChangeStake(a, ls, gs), NEW r \in 0..now
    PROVE  /\ \A b \in Account :
                 Readable(stakeArray'[b], r) =>
                    StakeAt(stakeArray'[b], r) = StakeAt(stakeArray[b], r)
           /\ Readable(totalStake', r) =>
                 StakeAt(totalStake', r) = StakeAt(totalStake, r)
<1>1. /\ stakeArray[a] \in StakeArrays /\ totalStake \in StakeArrays
      /\ now \in Nat
    BY DEF TypeOK
<1>2. /\ Updatable(stakeArray[a], now) /\ Updatable(totalStake, now)
      /\ totalStake' = Updated(totalStake, now, gs)
    BY DEF ChangeStake
<1>3. stakeArray' = [stakeArray EXCEPT ![a] = Updated(stakeArray[a], now, ls)]
    BY DEF ChangeStake
<1>4. ASSUME NEW b \in Account, Readable(stakeArray'[b], r)
      PROVE  StakeAt(stakeArray'[b], r) = StakeAt(stakeArray[b], r)
  <2>1. CASE b = a
    <3>1. stakeArray'[b] = Updated(stakeArray[a], now, ls)
      BY <1>3, <2>1 DEF TypeOK
    <3>2. Readable(Updated(stakeArray[a], now, ls), r)
      BY <1>4, <3>1
    <3> QED
      BY <1>1, <1>2, <2>1, <3>1, <3>2, UpdatedKeepsSnapshots
  <2>2. CASE b # a
    <3>1. stakeArray'[b] = stakeArray[b]
      BY <1>3, <2>2 DEF TypeOK
    <3> QED
      BY <3>1
  <2> QED
    BY <2>1, <2>2
<1>5. Readable(totalStake', r) => StakeAt(totalStake', r) = StakeAt(totalStake, r)
  BY <1>1, <1>2, UpdatedKeepsSnapshots
<1> QED
  BY <1>4, <1>5

\* What an account or the contract shows as its stake for a round that has
\* begun never changes again, for any number of accounts, amounts and rounds:
\* nobody can add to a vote once the request it is for is known.
THEOREM SnapshotsFrozen == Spec => SnapshotFrozen
<1> DEFINE Frozen ==
      /\ \A a \in optedIn \cap optedIn' : \A r \in 0..now :
            Readable(stakeArray'[a], r) =>
               StakeAt(stakeArray'[a], r) = StakeAt(stakeArray[a], r)
      /\ \A r \in 0..now :
            Readable(totalStake', r) =>
               StakeAt(totalStake', r) = StakeAt(totalStake, r)
<1>1. ASSUME TypeOK, [Next]_accountVars PROVE [Frozen]_accountVars
  <2>1. CASE UNCHANGED <<stakeArray, totalStake>>
    BY <2>1
  <2>2. ASSUME NEW a \in Account, NEW amount \in StakeAmount,
               Stake(a, amount) \/ Unstake(a, amount)
        PROVE  Frozen
    <3>1. /\ amount \in Nat
          /\ stakeArray[a].cur.stake \in Nat /\ totalStake.cur.stake \in Nat
      BY <1>1, AmountAssumption DEF TypeOK, StakeArrays, StakeEntries
    <3>2. PICK ls \in Nat, gs \in Nat : ChangeStake(a, ls, gs)
      BY <2>2, <3>1 DEF Stake, Unstake
    <3>3. optedIn \subseteq Account
      BY <1>1 DEF TypeOK
    <3> QED
      BY <1>1, <3>2, <3>3, ChangeStakeFrozen
  <2>3. ASSUME NEW a \in Account, OptIn(a) \/ ClearState(a) PROVE Frozen
    <3>1. a \notin optedIn \cap optedIn'
      BY <2>3 DEF OptIn, ClearState
    <3>2. \A b \in Account : b # a => stakeArray'[b] = stakeArray[b]
      BY <1>1, <2>3 DEF OptIn, ClearState, TypeOK
    <3>3. totalStake' = totalStake
      BY <2>3 DEF OptIn, ClearState, stakeVars
    <3>4. optedIn \subseteq Account
      BY <1>1 DEF TypeOK
    <3> QED
      BY <3>1, <3>2, <3>3, <3>4
  <2>4. \/ UNCHANGED <<stakeArray, totalStake>>
        \/ \E a \in Account : OptIn(a) \/ ClearState(a)
        \/ \E a \in Account, amount \in StakeAmount : Stake(a, amount) \/ Unstake(a, amount)
    BY <1>1 DEF Next, AccountStep, NextRound, Subscribe, UnregisterKey, RegisterKey,
                WithdrawToken, WithdrawAlgo, DepositToken, DepositAlgo,
                UpdateProtocolSettings, stakeVars, accountVars
  <2> QED
    BY <2>1, <2>2, <2>3, <2>4
<1>2. Spec => []TypeOK
  BY TypeCorrect
<1> QED
  BY <1>1, <1>2, PTL DEF Spec, SnapshotFrozen

-----------------------------------------------------------------------------
(* The time lock of a stake *)

\* StakeHeldForTimeLock is not inductive: it speaks of the historical entry,
\* which was current before.  The strengthening says what the current entry
\* needs to become a historical one: the lock outlasts its round.
HeldInv ==
    /\ settings.timeLock = InitialSettings.timeLock
    /\ \A a \in Account :
          /\ stakeArray[a].cur.stake # 0 =>
                stakeTimeout[a] >= stakeArray[a].cur.round + settings.timeLock
          /\ stakeArray[a].hist.stake # 0 =>
                stakeArray[a].cur.round > stakeArray[a].hist.round + settings.timeLock

\* The manager never changes the time lock
FixedTimeLock == \A s \in Settings : s.timeLock = InitialSettings.timeLock

\* A change of stake in an unlocked account keeps the strengthened invariant
LEMMA ChangeStakeHeld ==
    ASSUME TypeOK, HeldInv, NEW a \in Account, NEW ls \in Nat, NEW gs \in Nat,
           ChangeStake(a, ls, gs), settings' = settings
    PROVE  HeldInv'
<1> DEFINE HeldBy(arr, timeout) ==
      /\ arr.cur.stake # 0 => timeout >= arr.cur.round + settings.timeLock
      /\ arr.hist.stake # 0 => arr.cur.round > arr.hist.round + settings.timeLock
<1>1. /\ stakeArray[a] \in StakeArrays /\ stakeTimeout[a] \in Nat
      /\ now \in Nat /\ settings.timeLock \in Nat
      /\ HeldBy(stakeArray[a], stakeTimeout[a])
  BY DEF TypeOK, SettingsType, HeldInv
<1>2. /\ stakeTimeout[a] < now /\ stakeArray[a].cur.round <= now
      /\ stakeArray' = [stakeArray EXCEPT ![a] = Updated(stakeArray[a], now, ls)]
      /\ stakeTimeout' = [stakeTimeout EXCEPT ![a] = now + settings.timeLock]
  BY DEF ChangeStake, StakeUnlocked, Updatable
<1>3. HeldBy(Updated(stakeArray[a], now, ls), now + settings.timeLock)
  <2>1. CASE stakeArray[a].cur.round < now
    BY <1>1, <1>2, <2>1 DEF Updated, Entry, StakeArrays, StakeEntries
  <2>2. CASE stakeArray[a].cur.round = now
    BY <1>1, <1>2, <2>2 DEF Updated, Entry, StakeArrays, StakeEntries
  <2> QED
    BY <1>1, <1>2, <2>1, <2>2 DEF StakeArrays, StakeEntries
<1>4. ASSUME NEW b \in Account PROVE HeldBy(stakeArray'[b], stakeTimeout'[b])
  <2>1. CASE b = a
    BY <1>2, <1>3, <2>1 DEF TypeOK
  <2>2. CASE b # a
    <3>1. stakeArray'[b] = stakeArray[b] /\ stakeTimeout'[b] = stakeTimeout[b]
      BY <1>2, <2>2 DEF TypeOK
    <3> QED
      BY <3>1 DEF HeldInv
  <2> QED
    BY <2>1, <2>2
<1> QED
  BY <1>4 DEF HeldInv

\* Whatever stake an account shows in its history was held for more than a time
\* lock before it changed, as long as the manager leaves the time lock alone:
\* one stake cannot be moved from account to account between votes that
\* overlap.
THEOREM StakeHeld == ASSUME FixedTimeLock PROVE Spec => []StakeHeldForTimeLock
<1>1. Init => HeldInv
  BY DEF Init, HeldInv, NoStake, InitArray, Entry
<1>2. TypeOK /\ HeldInv /\ [Next]_accountVars => HeldInv'
  <2> SUFFICES ASSUME TypeOK, HeldInv, [Next]_accountVars PROVE HeldInv'
    OBVIOUS
  <2>1. ASSUME NEW a \in Account, NEW amount \in StakeAmount,
               Stake(a, amount) \/ Unstake(a, amount)
        PROVE  HeldInv'
    <3>1. /\ amount \in Nat
          /\ stakeArray[a].cur.stake \in Nat /\ totalStake.cur.stake \in Nat
      BY AmountAssumption DEF TypeOK, StakeArrays, StakeEntries
    <3>2. PICK ls \in Nat, gs \in Nat : ChangeStake(a, ls, gs)
      BY <2>1, <3>1 DEF Stake, Unstake
    <3>3. settings' = settings
      BY <2>1 DEF Stake, Unstake
    <3> QED
      BY <3>2, <3>3, ChangeStakeHeld
  <2>2. ASSUME NEW a \in Account, OptIn(a) \/ ClearState(a) PROVE HeldInv'
    <3>1. /\ stakeArray'[a].cur.stake = 0 /\ stakeArray'[a].hist.stake = 0
          /\ settings' = settings
      BY <2>2 DEF OptIn, ClearState, NoStake, InitArray, Entry, TypeOK
    <3>2. ASSUME NEW b \in Account, b # a
          PROVE  stakeArray'[b] = stakeArray[b] /\ stakeTimeout'[b] = stakeTimeout[b]
      BY <2>2, <3>2 DEF OptIn, ClearState, TypeOK
    <3> QED
      BY <3>1, <3>2 DEF HeldInv
  <2>3. CASE UNCHANGED <<stakeArray, stakeTimeout, settings>>
    BY <2>3 DEF HeldInv
  <2>4. ASSUME NEW a \in Account, NEW s \in Settings, UpdateProtocolSettings(a, s)
        PROVE  HeldInv'
    <3>1. settings'.timeLock = settings.timeLock
      BY <2>4, FixedTimeLock DEF UpdateProtocolSettings, HeldInv, FixedTimeLock
    <3>2. UNCHANGED <<stakeArray, stakeTimeout>>
      BY <2>4 DEF UpdateProtocolSettings, stakeVars
    <3> QED
      BY <3>1, <3>2 DEF HeldInv
  <2>5. \/ UNCHANGED <<stakeArray, stakeTimeout, settings>>
        \/ \E a \in Account : OptIn(a) \/ ClearState(a)
        \/ \E a \in Account, amount \in StakeAmount : Stake(a, amount) \/ Unstake(a, amount)
        \/ \E a \in Account, s \in Settings : UpdateProtocolSettings(a, s)
    BY DEF Next, AccountStep, NextRound, Subscribe, UnregisterKey, RegisterKey,
           WithdrawToken, WithdrawAlgo, DepositToken, DepositAlgo,
           UpdateProtocolSettings, stakeVars, accountVars
  <2> QED
    BY <2>1, <2>2, <2>3, <2>4, <2>5
<1>3. TypeOK /\ HeldInv => StakeHeldForTimeLock
  BY DEF HeldInv, StakeHeldForTimeLock, TypeOK
<1>4. Spec => []TypeOK
  BY TypeCorrect
<1> QED
  BY <1>1, <1>2, <1>3, <1>4, PTL DEF Spec

-----------------------------------------------------------------------------
(* Stakes and the total *)

\* SnapshotsWithinTotal speaks of the stakes at the start of this round.  The
\* strengthening says the same of the stakes from the next round on, which are
\* the current ones, as no entry is of a round that has not begun.
CurrentStake == [a \in Account |-> stakeArray[a].cur.stake]

StakesInv ==
    /\ totalStake.cur.round <= now
    /\ \A a \in Account : stakeArray[a].cur.round <= now
    /\ SumOver(CurrentStake, optedIn) <= totalStake.cur.stake
    /\ SnapshotsWithinTotal

\* The stakes that can be shown for this round
ShownNow == [a \in Account |-> StakeAt(stakeArray[a], now)]

StakesType ==
    /\ CurrentStake \in [Account -> Nat] /\ ShownNow \in [Account -> Nat]
    /\ IsFiniteSet(optedIn)
    /\ totalStake.cur.stake \in Nat /\ StakeAt(totalStake, now) \in Nat
    /\ SumOver(CurrentStake, optedIn) \in Int
    /\ SumOver(ShownNow, optedIn) \in Int

\* What is summed is natural, and so is what it is compared with
LEMMA StakesTyped == TypeOK => StakesType
<1> SUFFICES ASSUME TypeOK PROVE StakesType
  OBVIOUS
<1>1. CurrentStake \in [Account -> Nat] /\ ShownNow \in [Account -> Nat]
  BY DEF TypeOK, StakeArrays, StakeEntries, CurrentStake, ShownNow, StakeAt
<1>2. IsFiniteSet(optedIn) /\ optedIn \subseteq Account
  BY AccountAssumption, FS_Subset DEF TypeOK
<1>3. totalStake.cur.stake \in Nat /\ StakeAt(totalStake, now) \in Nat
  BY DEF TypeOK, StakeArrays, StakeEntries, StakeAt
<1>4. SumOver(CurrentStake, optedIn) \in Int /\ SumOver(ShownNow, optedIn) \in Int
  BY <1>1, <1>2, SumInt
<1> QED BY <1>1, <1>2, <1>3, <1>4 DEF StakesType

LEMMA StakesTypedNext == TypeOK' => StakesType'
BY StakesTyped, PTL

\* A stake and the total change by the same amount
LEMMA ChangeStakeWithin ==
    ASSUME TypeOK, TypeOK', StakesInv, NEW a \in optedIn, NEW ls \in Nat, NEW gs \in Nat,
           ChangeStake(a, ls, gs),
           ls - stakeArray[a].cur.stake = gs - totalStake.cur.stake,
           UNCHANGED <<now, optedIn>>
    PROVE  StakesInv'
<1>0. a \in Account /\ optedIn \subseteq Account
  BY DEF TypeOK
<1>1. /\ stakeArray[a] \in StakeArrays /\ totalStake \in StakeArrays /\ now \in Nat
      /\ Updatable(stakeArray[a], now) /\ Updatable(totalStake, now)
      /\ stakeArray' = [stakeArray EXCEPT ![a] = Updated(stakeArray[a], now, ls)]
      /\ totalStake' = Updated(totalStake, now, gs)
  BY <1>0 DEF TypeOK, ChangeStake
<1>2. \A b \in Account : stakeArray'[b] =
         IF b = a THEN Updated(stakeArray[a], now, ls) ELSE stakeArray[b]
  BY <1>0, <1>1 DEF TypeOK
<1>3. /\ totalStake'.cur.round = now /\ totalStake'.cur.stake = gs
      /\ stakeArray'[a].cur.round = now /\ stakeArray'[a].cur.stake = ls
  BY <1>0, <1>1, <1>2 DEF Updated, Entry
<1>4. \A b \in Account : stakeArray'[b].cur.round <= now
  BY <1>1, <1>2, <1>3 DEF StakesInv
<1>5. /\ StakeAt(totalStake', now) = StakeAt(totalStake, now)
      /\ \A b \in Account : StakeAt(stakeArray'[b], now) = StakeAt(stakeArray[b], now)
  <2>1. now \in 0..now
    BY <1>1
  <2>2. Readable(totalStake', now) /\ \A b \in Account : Readable(stakeArray'[b], now)
    BY <1>1, <1>3, <1>4 DEF Readable
  <2> QED BY <1>0, <2>1, <2>2, ChangeStakeFrozen
<1>6. ShownNow' = ShownNow
  BY <1>5 DEF ShownNow
<1>7. SumOver(CurrentStake', optedIn) <= totalStake'.cur.stake
  <2> DEFINE f == CurrentStake
             g == CurrentStake'
  <2>1. /\ f \in [Account -> Nat] /\ g \in [Account -> Nat] /\ IsFiniteSet(optedIn)
        /\ totalStake.cur.stake \in Nat /\ SumOver(f, optedIn) \in Int
    BY StakesTyped, StakesTypedNext DEF StakesType, TypeOK, StakeArrays, StakeEntries, CurrentStake
  <2>2. /\ f[a] = stakeArray[a].cur.stake /\ g[a] = ls
        /\ \A b \in optedIn \ {a} : g[b] = f[b]
    BY <1>0, <1>2, <1>3 DEF CurrentStake
  <2>3. SumOver(f, optedIn) <= totalStake.cur.stake
    BY DEF StakesInv
  <2> HIDE DEF f, g
  <2>4. SumOver(g, optedIn) = SumOver(f, optedIn) - f[a] + g[a]
    BY <1>0, <2>1, <2>2, SumChange
  <2>5. SumOver(g, optedIn) <= totalStake'.cur.stake
    BY <1>0, <1>3, <2>1, <2>2, <2>3, <2>4
  <2> QED BY <2>5 DEF g
<1> QED
  BY <1>1, <1>3, <1>4, <1>5, <1>6, <1>7 DEF StakesInv, SnapshotsWithinTotal, ShownNow

\* An account joins with no stake or leaves with what it has
LEMMA MembershipWithin ==
    ASSUME TypeOK, TypeOK', StakesInv, NEW a \in Account, OptIn(a) \/ ClearState(a)
    PROVE  StakesInv'
<1> DEFINE f == CurrentStake
           g == CurrentStake'
           p == ShownNow
           q == ShownNow'
<1>1. /\ f \in [Account -> Nat] /\ p \in [Account -> Nat]
      /\ g \in [Account -> Nat] /\ q \in [Account -> Nat]
      /\ IsFiniteSet(optedIn) /\ optedIn \subseteq Account
      /\ SumOver(f, optedIn) \in Int /\ SumOver(p, optedIn) \in Int
      /\ totalStake.cur.stake \in Nat /\ StakeAt(totalStake, now) \in Nat
  BY StakesTyped, StakesTypedNext DEF StakesType, TypeOK
<1>2. UNCHANGED <<now, totalStake>>
  BY DEF OptIn, ClearState
<1>3. /\ stakeArray'[a].cur.stake = 0 /\ stakeArray'[a].hist.stake = 0
      /\ stakeArray'[a].cur.round <= now
      /\ \A b \in Account \ {a} : stakeArray'[b] = stakeArray[b]
  BY DEF OptIn, ClearState, NoStake, InitArray, Entry, TypeOK
<1>4. /\ g[a] = 0 /\ q[a] = 0
      /\ \A b \in Account \ {a} : g[b] = f[b] /\ q[b] = p[b]
  BY <1>2, <1>3 DEF CurrentStake, ShownNow, StakeAt
<1>5. /\ SumOver(f, optedIn) <= totalStake.cur.stake
      /\ SumOver(p, optedIn) <= StakeAt(totalStake, now)
  BY DEF StakesInv, SnapshotsWithinTotal, ShownNow
<1>6. /\ SumOver(g, optedIn') <= SumOver(f, optedIn)
      /\ SumOver(q, optedIn') <= SumOver(p, optedIn)
  <2> HIDE DEF f, g, p, q
  <2>1. CASE OptIn(a)
    <3>1. a \notin optedIn /\ optedIn' = optedIn \cup {a}
      BY <2>1 DEF OptIn
    <3>2. /\ SumOver(g, optedIn \cup {a}) = SumOver(f, optedIn) + g[a]
          /\ SumOver(q, optedIn \cup {a}) = SumOver(p, optedIn) + q[a]
      BY <1>1, <1>4, <3>1, SumJoin
    <3> QED BY <1>1, <1>4, <3>1, <3>2
  <2>2. CASE ClearState(a)
    <3>1. a \in optedIn /\ optedIn' = optedIn \ {a}
      BY <2>2 DEF ClearState
    <3>2. /\ SumOver(g, optedIn \ {a}) = SumOver(f, optedIn) - f[a]
          /\ SumOver(q, optedIn \ {a}) = SumOver(p, optedIn) - p[a]
      BY <1>1, <1>4, <3>1, SumLeave
    <3> QED BY <1>1, <3>1, <3>2
  <2> QED BY <2>1, <2>2
<1>7. /\ SumOver(g, optedIn') \in Int /\ SumOver(q, optedIn') \in Int
  BY StakesTypedNext DEF StakesType
<1>8. /\ SumOver(g, optedIn') <= totalStake.cur.stake
      /\ SumOver(q, optedIn') <= StakeAt(totalStake, now)
  <2> HIDE DEF f, g, p, q
  <2> QED BY <1>1, <1>5, <1>6, <1>7
<1>9. \A b \in Account : stakeArray'[b].cur.round <= now
  BY <1>3 DEF StakesInv
<1> QED BY <1>2, <1>8, <1>9 DEF StakesInv, SnapshotsWithinTotal, ShownNow

\* In the next round the stakes at its start are the current ones
LEMMA RoundWithin ==
    ASSUME TypeOK, StakesInv, now' = now + 1, UNCHANGED <<optedIn, stakeArray, totalStake>>
    PROVE  StakesInv'
<1>1. now \in Nat /\ totalStake \in StakeArrays /\ \A a \in Account : stakeArray[a] \in StakeArrays
  BY DEF TypeOK
<1>2. /\ StakeAt(totalStake', now') = totalStake.cur.stake
      /\ \A a \in Account : StakeAt(stakeArray'[a], now') = stakeArray[a].cur.stake
  BY <1>1 DEF StakesInv, StakeAt, StakeArrays, StakeEntries
<1>3. [a \in Account |-> StakeAt(stakeArray'[a], now')] = CurrentStake
  BY <1>2 DEF CurrentStake
<1>4. CurrentStake' = CurrentStake
  BY DEF CurrentStake
<1>5. /\ totalStake'.cur.round <= now'
      /\ \A a \in Account : stakeArray'[a].cur.round <= now'
  BY <1>1 DEF StakesInv, StakeArrays, StakeEntries
<1> QED BY <1>2, <1>3, <1>4, <1>5 DEF StakesInv, SnapshotsWithinTotal

\* What else happens does not matter
LEMMA StakesUntouched ==
    ASSUME StakesInv, UNCHANGED <<now, optedIn, stakeArray, totalStake>>
    PROVE  StakesInv'
BY DEF StakesInv, SnapshotsWithinTotal, CurrentStake

\* Every group keeps the stakes within the total
LEMMA StepWithin == TypeOK /\ StakesInv /\ [Next]_accountVars => StakesInv'
<1> SUFFICES ASSUME TypeOK, StakesInv, [Next]_accountVars PROVE StakesInv'
  OBVIOUS
<1>0. TypeOK'
  BY StepTyped
<1>1. ASSUME NEW a \in Account, NEW amount \in StakeAmount,
             Stake(a, amount) \/ Unstake(a, amount)
      PROVE  StakesInv'
  <2>1. /\ amount \in Nat /\ a \in optedIn
        /\ stakeArray[a].cur.stake \in Nat /\ totalStake.cur.stake \in Nat
    BY <1>1, AmountAssumption DEF TypeOK, StakeArrays, StakeEntries, Stake, Unstake
  <2>2. PICK ls \in Nat, gs \in Nat :
           /\ ChangeStake(a, ls, gs)
           /\ ls - stakeArray[a].cur.stake = gs - totalStake.cur.stake
    BY <1>1, <2>1 DEF Stake, Unstake
  <2>3. UNCHANGED <<now, optedIn>>
    BY <1>1 DEF Stake, Unstake
  <2> QED BY <1>0, <2>1, <2>2, <2>3, ChangeStakeWithin
<1>2. ASSUME NEW a \in Account, OptIn(a) \/ ClearState(a) PROVE StakesInv'
  BY <1>0, <1>2, MembershipWithin
<1>3. CASE NextRound
  BY <1>3, RoundWithin DEF NextRound, stakeVars
<1>4. CASE UNCHANGED <<now, optedIn, stakeArray, totalStake>>
  BY <1>4, StakesUntouched
<1>5. \/ NextRound
      \/ UNCHANGED <<now, optedIn, stakeArray, totalStake>>
      \/ \E a \in Account : OptIn(a) \/ ClearState(a)
      \/ \E a \in Account, amount \in StakeAmount : Stake(a, amount) \/ Unstake(a, amount)
  BY DEF Next, AccountStep, Subscribe, UnregisterKey, RegisterKey, WithdrawToken,
         WithdrawAlgo, DepositToken, DepositAlgo, UpdateProtocolSettings, stakeVars,
         accountVars
<1> QED BY <1>1, <1>2, <1>3, <1>4, <1>5

LEMMA InitWithin == Init => StakesInv
<1> SUFFICES ASSUME Init PROVE StakesInv
  OBVIOUS
<1>1. SumOver(CurrentStake, optedIn) = 0
  BY SumEmpty DEF Init
<1>2. SumOver([a \in Account |-> StakeAt(stakeArray[a], now)], optedIn) = 0
  BY SumEmpty DEF Init
<1>3. /\ totalStake.cur.stake = 0 /\ StakeAt(totalStake, now) = 0
      /\ totalStake.cur.round <= now
      /\ \A a \in Account : stakeArray[a].cur.round <= now
  BY DEF Init, InitArray, Entry, NoStake, StakeAt
<1> QED BY <1>1, <1>2, <1>3 DEF StakesInv, SnapshotsWithinTotal

\* For any number of accounts, what they can show for a request made now sums
\* up to no more than the total the request records, whoever staked, unstaked,
\* opted in or cleared its state, and in whatever order within a round.
THEOREM SnapshotsWithin == Spec => []SnapshotsWithinTotal
<1>1. StakesInv => SnapshotsWithinTotal
  BY DEF StakesInv
<1> QED BY <1>1, InitWithin, StepWithin, TypeCorrect, PTL DEF Spec

=============================================================================
