------------------------------ MODULE Accounts ------------------------------
(***************************************************************************)
(* The main contract as a bank: accounts opt in, deposit and withdraw algo *)
(* and tokens, stake and unstake, lock tokens for a subscription, register *)
(* the key they vote with, and may clear their local state; the manager    *)
(* tunes the protocol settings.  Every action is one transaction group: it *)
(* happens as a whole in a round, or (a failed assert, a uint64 underflow) *)
(* not at all.  Requests, fees and rewards are added by module Requests.   *)
(***************************************************************************)
EXTENDS StakeHistory, Sums

CONSTANTS
    Account,          \* chain accounts that may opt in to the main contract
    PublicKey,        \* addresses that may be registered as participation keys
    ZeroAddress,      \* the value of a key that is not registered
    MinimumStake,     \* compile-time parameter MINIMUM_STAKE
    InitialSettings,  \* the settings handle_creation and init write
    Settings,         \* the settings the manager may choose from
    InitialToken,     \* tokens in each account's wallet at the start
    InitialAlgo,      \* algo in each account's wallet at the start
    StakeAmount,      \* amounts that are staked and unstaked
    DepositAmount,    \* amounts that are deposited and withdrawn
    MaxRound          \* bound: the last round that is explored

VARIABLES
    now,              \* Global.round()
    settings,         \* the tunable part of the global state
    optedIn,          \* the accounts that hold local state
    stakeArray,       \* local "ls"
    stakeTimeout,     \* local "ust"
    totalStake,       \* global "ts"
    publicKey,        \* local "pk"
    keyTimestamp,     \* local "psts"
    accountToken,     \* local "at"
    accountAlgo,      \* local "aa"
    lockedTokens,     \* local "lt"
    walletToken,      \* tokens the accounts hold themselves
    walletAlgo,       \* algo the accounts hold themselves
    vaultToken,       \* tokens the main contract's address holds
    vaultAlgo         \* algo the main contract's address received for accounts

stakeVars   == <<stakeArray, stakeTimeout, totalStake>>
keyVars     == <<publicKey, keyTimestamp>>
balanceVars == <<accountToken, accountAlgo, lockedTokens>>
assetVars   == <<walletToken, walletAlgo, vaultToken, vaultAlgo>>
accountVars == <<now, settings, optedIn, stakeVars, keyVars, balanceVars,
                 assetVars>>

SettingsType ==
    [manager : Account, madePct : Nat, procPct : Nat, algoFee : Nat,
     goraFee : Nat, threshold : Nat, timeLock : Nat, refillThreshold : Nat,
     refillAmount : Nat, subLock : Nat]

ASSUME AccountAssumption == IsFiniteSet(Account)

ASSUME AmountAssumption ==
    /\ MinimumStake \in Nat
    /\ InitialToken \in [Account -> Nat]
    /\ InitialAlgo \in [Account -> Nat]
    /\ StakeAmount \subseteq Nat
    /\ DepositAmount \subseteq Nat \ {0}
    /\ MaxRound \in Nat

ASSUME SettingsAssumption ==
    /\ InitialSettings \in SettingsType
    /\ Settings \subseteq SettingsType

ASSUME KeyAssumption == ZeroAddress \notin PublicKey

-----------------------------------------------------------------------------
\* What a local state holds before opt-in and after a clear
NoStake == InitArray(0, 0)

Init ==
    /\ now = 1
    /\ settings = InitialSettings
    /\ optedIn = {}
    /\ stakeArray = [a \in Account |-> NoStake]
    /\ stakeTimeout = [a \in Account |-> 0]
    /\ totalStake = InitArray(1, 0)
    /\ publicKey = [a \in Account |-> ZeroAddress]
    /\ keyTimestamp = [a \in Account |-> 0]
    /\ accountToken = [a \in Account |-> 0]
    /\ accountAlgo = [a \in Account |-> 0]
    /\ lockedTokens = [a \in Account |-> 0]
    /\ walletToken = InitialToken
    /\ walletAlgo = InitialAlgo
    /\ vaultToken = 0
    /\ vaultAlgo = 0

\* A block is added to the chain
NextRound ==
    /\ now < MaxRound
    /\ now' = now + 1
    /\ UNCHANGED <<settings, optedIn, stakeVars, keyVars, balanceVars, assetVars>>

\* handle_optin
OptIn(a) ==
    /\ a \notin optedIn
    /\ optedIn' = optedIn \cup {a}
    /\ stakeArray' = [stakeArray EXCEPT ![a] = InitArray(now, 0)]
    /\ stakeTimeout' = [stakeTimeout EXCEPT ![a] = now]
    /\ UNCHANGED <<now, settings, totalStake, keyVars, balanceVars, assetVars>>

\* A clear-state transaction: main_clear approves, and the chain would drop
\* the local state even if it did not.  The global state keeps what it had.
ClearState(a) ==
    /\ a \in optedIn
    /\ optedIn' = optedIn \ {a}
    /\ stakeArray' = [stakeArray EXCEPT ![a] = NoStake]
    /\ stakeTimeout' = [stakeTimeout EXCEPT ![a] = 0]
    /\ publicKey' = [publicKey EXCEPT ![a] = ZeroAddress]
    /\ keyTimestamp' = [keyTimestamp EXCEPT ![a] = 0]
    /\ accountToken' = [accountToken EXCEPT ![a] = 0]
    /\ accountAlgo' = [accountAlgo EXCEPT ![a] = 0]
    /\ lockedTokens' = [lockedTokens EXCEPT ![a] = 0]
    /\ UNCHANGED <<now, settings, totalStake, assetVars>>

\* update_protocol_settings, sent by the current manager
UpdateProtocolSettings(sender, s) ==
    /\ sender = settings.manager
    /\ settings' = s
    /\ UNCHANGED <<now, optedIn, stakeVars, keyVars, balanceVars, assetVars>>

-----------------------------------------------------------------------------
\* Faulty form: the lock ends a round early
StakeUnlockedEarly(a) == stakeTimeout[a] <= now

\* CheckTimeLock on the last change of this account's stake
StakeUnlocked(a) == stakeTimeout[a] < now

\* update_stake on the local and on the global array, and the new time lock
ChangeStake(a, localStake, globalStake) ==
    /\ StakeUnlocked(a)
    /\ Updatable(stakeArray[a], now)
    /\ Updatable(totalStake, now)
    /\ stakeArray' = [stakeArray EXCEPT ![a] = Updated(@, now, localStake)]
    /\ totalStake' = Updated(totalStake, now, globalStake)
    /\ stakeTimeout' = [stakeTimeout EXCEPT ![a] = now + settings.timeLock]

\* stake, grouped with the transfer of the tokens
Stake(a, amount) ==
    /\ a \in optedIn
    /\ amount > 0 /\ amount <= walletToken[a]
    /\ amount + stakeArray[a].cur.stake >= MinimumStake
    /\ ChangeStake(a, stakeArray[a].cur.stake + amount,
                      totalStake.cur.stake + amount)
    /\ walletToken' = [walletToken EXCEPT ![a] = @ - amount]
    /\ vaultToken' = vaultToken + amount
    /\ UNCHANGED <<now, settings, optedIn, keyVars, balanceVars, walletAlgo,
                   vaultAlgo>>

\* unstake: the subtractions are unsigned, and the inner transfer needs tokens
Unstake(a, amount) ==
    /\ a \in optedIn
    /\ amount <= stakeArray[a].cur.stake
    /\ \/ stakeArray[a].cur.stake - amount >= MinimumStake
       \/ stakeArray[a].cur.stake = amount
    /\ amount <= totalStake.cur.stake
    /\ amount <= vaultToken
    /\ ChangeStake(a, stakeArray[a].cur.stake - amount,
                      totalStake.cur.stake - amount)
    /\ walletToken' = [walletToken EXCEPT ![a] = @ + amount]
    /\ vaultToken' = vaultToken - amount
    /\ UNCHANGED <<now, settings, optedIn, keyVars, balanceVars, walletAlgo,
                   vaultAlgo>>

-----------------------------------------------------------------------------
\* The unsigned subtraction of a withdrawal, and the faulty form without it
EnoughUnchecked(balance, amount) == TRUE
Enough(balance, amount) == amount <= balance

\* deposit, token branch: payer may deposit for any account that opted in
DepositToken(payer, a, amount) ==
    /\ a \in optedIn
    /\ amount <= walletToken[payer]
    /\ accountToken' = [accountToken EXCEPT ![a] = @ + amount]
    /\ walletToken' = [walletToken EXCEPT ![payer] = @ - amount]
    /\ vaultToken' = vaultToken + amount
    /\ UNCHANGED <<now, settings, optedIn, stakeVars, keyVars, accountAlgo,
                   lockedTokens, walletAlgo, vaultAlgo>>

\* deposit, algo branch
DepositAlgo(payer, a, amount) ==
    /\ a \in optedIn
    /\ amount <= walletAlgo[payer]
    /\ accountAlgo' = [accountAlgo EXCEPT ![a] = @ + amount]
    /\ walletAlgo' = [walletAlgo EXCEPT ![payer] = @ - amount]
    /\ vaultAlgo' = vaultAlgo + amount
    /\ UNCHANGED <<now, settings, optedIn, stakeVars, keyVars, accountToken,
                   lockedTokens, walletToken, vaultToken>>

\* withdraw, token branch
WithdrawToken(a, amount) ==
    /\ a \in optedIn
    /\ Enough(accountToken[a], amount) /\ amount <= vaultToken
    /\ accountToken' = [accountToken EXCEPT ![a] = @ - amount]
    /\ walletToken' = [walletToken EXCEPT ![a] = @ + amount]
    /\ vaultToken' = vaultToken - amount
    /\ UNCHANGED <<now, settings, optedIn, stakeVars, keyVars, accountAlgo,
                   lockedTokens, walletAlgo, vaultAlgo>>

\* withdraw, algo branch
WithdrawAlgo(a, amount) ==
    /\ a \in optedIn
    /\ Enough(accountAlgo[a], amount) /\ amount <= vaultAlgo
    /\ accountAlgo' = [accountAlgo EXCEPT ![a] = @ - amount]
    /\ walletAlgo' = [walletAlgo EXCEPT ![a] = @ + amount]
    /\ vaultAlgo' = vaultAlgo - amount
    /\ UNCHANGED <<now, settings, optedIn, stakeVars, keyVars, accountToken,
                   lockedTokens, walletToken, vaultToken>>

\* Faulty form: the lock is not taken from the balance
SubscribeForFree(a) ==
    /\ a \in optedIn
    /\ accountToken[a] > settings.subLock
    /\ lockedTokens' = [lockedTokens EXCEPT ![a] = @ + settings.subLock]
    /\ UNCHANGED <<now, settings, optedIn, stakeVars, keyVars, accountToken,
                   accountAlgo, assetVars>>

\* subscribe: the assert wants a balance that stays above zero; no method
\* ever gives locked tokens back
Subscribe(a) ==
    /\ a \in optedIn
    /\ accountToken[a] > settings.subLock
    /\ accountToken' = [accountToken EXCEPT ![a] = @ - settings.subLock]
    /\ lockedTokens' = [lockedTokens EXCEPT ![a] = @ + settings.subLock]
    /\ UNCHANGED <<now, settings, optedIn, stakeVars, keyVars, accountAlgo,
                   assetVars>>

\* register_participation_account
RegisterKey(a, k) ==
    /\ a \in optedIn
    /\ \/ now >= keyTimestamp[a] + settings.timeLock
       \/ keyTimestamp[a] = 0
    /\ publicKey' = [publicKey EXCEPT ![a] = k]
    /\ keyTimestamp' = [keyTimestamp EXCEPT ![a] = now]
    /\ UNCHANGED <<now, settings, optedIn, stakeVars, balanceVars, assetVars>>

\* unregister_participation_account
UnregisterKey(a) ==
    /\ a \in optedIn
    /\ publicKey' = [publicKey EXCEPT ![a] = ZeroAddress]
    /\ keyTimestamp' = [keyTimestamp EXCEPT ![a] = now]
    /\ UNCHANGED <<now, settings, optedIn, stakeVars, balanceVars, assetVars>>

-----------------------------------------------------------------------------
AccountStep(a) ==
    \/ OptIn(a)
    \/ ClearState(a)
    \/ Subscribe(a)
    \/ UnregisterKey(a)
    \/ \E k \in PublicKey : RegisterKey(a, k)
    \/ \E amount \in StakeAmount : Stake(a, amount) \/ Unstake(a, amount)
    \/ \E amount \in DepositAmount :
          \/ WithdrawToken(a, amount)
          \/ WithdrawAlgo(a, amount)
          \/ \E b \in Account : DepositToken(a, b, amount) \/ DepositAlgo(a, b, amount)
    \/ \E s \in Settings : UpdateProtocolSettings(a, s)

Next == NextRound \/ \E a \in Account : AccountStep(a)

Spec == Init /\ [][Next]_accountVars

-----------------------------------------------------------------------------
\* The type invariant
TypeOK ==
    /\ now \in Nat
    /\ settings \in SettingsType
    /\ optedIn \subseteq Account
    /\ stakeArray \in [Account -> StakeArrays]
    /\ stakeTimeout \in [Account -> Nat]
    /\ totalStake \in StakeArrays
    /\ publicKey \in [Account -> PublicKey \cup {ZeroAddress}]
    /\ keyTimestamp \in [Account -> Nat]
    /\ accountToken \in [Account -> Nat]
    /\ accountAlgo \in [Account -> Nat]
    /\ lockedTokens \in [Account -> Nat]
    /\ walletToken \in [Account -> Nat]
    /\ walletAlgo \in [Account -> Nat]
    /\ vaultToken \in Nat
    /\ vaultAlgo \in Nat

\* The two sides of a vote agree on who owns what: the stakes that the accounts
\* could present for a request made now never add up to more than the total
\* the request records, in whatever order the stakes of this round changed
\* and whoever cleared their state.  (request, get_local_stake, update_stake)
SnapshotsWithinTotal ==
    SumOver([a \in Account |-> StakeAt(stakeArray[a], now)], optedIn)
        <= StakeAt(totalStake, now)

\* The stake an account or the contract shows for a round is fixed once that
\* round has begun: a later stake or unstake can make it unreadable but can
\* never make it read differently, so a vote cannot be inflated after the
\* request is known.  (update_stake keeps the right one of two entries)
SnapshotFrozen ==
    [][ /\ \A a \in optedIn \cap optedIn' : \A r \in 0..now :
              Readable(stakeArray'[a], r) =>
                 StakeAt(stakeArray'[a], r) = StakeAt(stakeArray[a], r)
        /\ \A r \in 0..now :
              Readable(totalStake', r) =>
                 StakeAt(totalStake', r) = StakeAt(totalStake, r)
      ]_accountVars

\* A stake that counts in votes was held for a whole time lock: between the
\* round a non-zero stake was set and the round it was changed lies more than
\* the time lock.  It needs a time lock that the manager does not change.
StakeHeldForTimeLock ==
    \A a \in optedIn :
        stakeArray[a].hist.stake # 0 =>
            stakeArray[a].cur.round > stakeArray[a].hist.round + settings.timeLock

=============================================================================
