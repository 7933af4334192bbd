------------------------------ MODULE Vesting ------------------------------
(***************************************************************************)
(* The vesting contract: a vester locks tokens for a vestee in a box, the  *)
(* vestee's share of them grows with time, and whoever calls claims it for *)
(* the vestee.  Meanwhile the vestee may lend the tokens of a box to a     *)
(* stake delegator the creator listed.  All boxes share one token balance. *)
(* What the delegator does with the tokens is module StakeDelegator; the   *)
(* two are put together in DelegatedVesting.                               *)
(***************************************************************************)
EXTENDS Sums

CONSTANTS
    Vestee,           \* accounts tokens are vested to
    Hash,             \* key hashes: asset, vester and vesting key
    Delegator,        \* delegator contracts the creator may list
    VestAmount,       \* amounts that are vested
    TimeToVest,       \* time_to_vest
    MaxUint,          \* the largest uint64
    MaxTime,          \* bound: the last timestamp explored
    MaxVested         \* bound: tokens ever vested

VARIABLES
    time,             \* Global.latest_timestamp()
    box,              \* vesting_box: the entries, by vestee and key hash
    listed,           \* whitelisted_delegation_apps
    vault,            \* tokens the contract holds
    received,         \* tokens claimed by each vestee
    vestedTotal,      \* history: tokens ever vested
    lent,             \* history: tokens sent to delegators less those returned
    short             \* history: tokens promised with nothing behind them

vestingVars == <<time, box, listed, vault, received, vestedTotal, lent, short>>

ASSUME VestingAssumption ==
    /\ VestAmount \subseteq Nat /\ TimeToVest \subseteq Nat
    /\ MaxTime \in Nat /\ MaxVested \in Nat /\ MaxUint \in Nat

Slot == Vestee \X Hash            \* VestingKey

\* VestingEntry, without the token's id and the vester's address
Entries == [start : Nat, unlock : Nat, amount : Nat, claimed : Nat,
            staked : BOOLEAN]

VestingInit ==
    /\ time = 1
    /\ box = [s \in {} |-> s]
    /\ listed = {}
    /\ vault = 0
    /\ received = [v \in Vestee |-> 0]
    /\ vestedTotal = 0
    /\ lent = 0
    /\ short = 0

Exists(s) == s \in DOMAIN box
Put(s, entry) == [t \in DOMAIN box \cup {s} |-> IF t = s THEN entry ELSE box[t]]
Without(s) == [t \in DOMAIN box \ {s} |-> box[t]]

-----------------------------------------------------------------------------
\* vest_tokens, grouped with the vester's transfer, whose receiver is not checked:
\* the tokens arrive or they do not.  A box of the same key is overwritten, and
\* what was left in it is in no box any more.
VestTokens(s, amount, span, arrives) ==
    /\ vestedTotal + amount <= MaxVested
    /\ box' = Put(s, [start |-> time, unlock |-> time + span, amount |-> amount,
                      claimed |-> 0, staked |-> FALSE])
    /\ vault' = IF arrives THEN vault + amount ELSE vault
    /\ short' = IF arrives THEN short ELSE short + amount
    /\ vestedTotal' = vestedTotal + amount
    /\ UNCHANGED <<time, listed, received, lent>>

\* What the schedule has unlocked by now: linear until unlock_time
Unlocked(e) ==
    IF e.unlock > time
    THEN (e.amount * (time - e.start)) \div (e.unlock - e.start)
    ELSE e.amount

\* The product in it must fit a uint64
ProductFits(e) == e.unlock > time => e.amount * (time - e.start) <= MaxUint

\* The chain refuses a transfer of more tokens than the contract holds
HoldsAny(amount) == TRUE                  \* faulty: it pays on credit
Holds(amount) == amount <= vault

\* Faulty form: the amount is paid and not recorded
ClaimForgotten(s) ==
    LET claimable == Unlocked(box[s]) - box[s].claimed
    IN  /\ Exists(s)
        /\ 0 <= claimable /\ Holds(claimable)
        /\ vault' = vault - claimable
        /\ received' = [received EXCEPT ![s[1]] = @ + claimable]
        /\ UNCHANGED <<time, box, listed, vestedTotal, lent, short>>

\* claim_vesting: the box goes with its last token.  It may be staked.
Claim(s) ==
    LET e == box[s]
        claimable == Unlocked(e) - e.claimed
    IN  /\ Exists(s)
        /\ ProductFits(e)
        /\ 0 <= claimable /\ Holds(claimable)
        /\ vault' = vault - claimable
        /\ received' = [received EXCEPT ![s[1]] = @ + claimable]
        /\ box' = IF e.claimed + claimable = e.amount THEN Without(s)
                  ELSE Put(s, [e EXCEPT !.claimed = @ + claimable])
        /\ UNCHANGED <<time, listed, vestedTotal, lent, short>>

\* Faulty form: time starts again and what was claimed still counts
RestartedHalf(e) == [e EXCEPT !.start = time, !.staked = TRUE]

\* The entry stake_to_delegator writes back: time starts again and nothing
\* counts as claimed
Restarted(e) == [e EXCEPT !.start = time, !.claimed = 0, !.staked = TRUE]

\* stake_to_delegator: the whole amount leaves, whatever was claimed of it, and
\* what was claimed is promised once more
StakeToDelegator(s, d) ==
    LET e == box[s]
    IN  /\ d \in listed
        /\ Exists(s)
        /\ ~e.staked
        /\ Holds(e.amount)
        /\ vault' = vault - e.amount
        /\ box' = Put(s, Restarted(e))
        /\ lent' = lent + e.amount
        /\ short' = short + e.claimed
        /\ UNCHANGED <<time, listed, received, vestedTotal>>

\* withdraw_from_delegator, from the application that the vestee names.  The
\* delegator gives back what it holds for this vestee, of all the entries it
\* staked.  Neither the list nor the staking is looked up: another application
\* need not give anything, and the entry is no longer staked all the same.
WithdrawFromDelegator(s, returned) ==
    /\ Exists(s)
    /\ box[s].staked
    /\ vault' = vault + returned
    /\ box' = Put(s, [box[s] EXCEPT !.staked = FALSE])
    /\ lent' = lent - returned
    /\ UNCHANGED <<time, listed, received, vestedTotal, short>>

\* add_whitelisted_app, for the creator; nothing takes an app off the list
AddWhitelistedApp(d) ==
    /\ listed' = listed \cup {d}
    /\ UNCHANGED <<time, box, vault, received, vestedTotal, lent, short>>

\* The timestamp of the next block
TimePasses ==
    /\ time' = IF time < MaxTime THEN time + 1 ELSE time
    /\ UNCHANGED <<box, listed, vault, received, vestedTotal, lent, short>>

\* The steps that concern no delegator that is modelled
VestingStep ==
    \/ \E s \in Slot :
          \/ \E amount \in VestAmount, span \in TimeToVest, arrives \in BOOLEAN :
                VestTokens(s, amount, span, arrives)
          \/ Claim(s)
          \/ WithdrawFromDelegator(s, 0)
    \/ \E d \in Delegator : AddWhitelistedApp(d)

-----------------------------------------------------------------------------
\* The type invariant
VestingTypeOK ==
    /\ time \in Nat
    /\ DOMAIN box \subseteq Slot
    /\ \A s \in DOMAIN box : box[s] \in Entries
    /\ listed \subseteq Delegator
    /\ vault \in Nat
    /\ received \in [Vestee -> Nat]
    /\ vestedTotal \in Nat
    /\ lent \in Int
    /\ short \in Nat

\* No claim fails on its unsigned subtraction, and none that was made ran ahead
\* of the schedule, even where staking started the schedule again: what counts
\* as claimed is at most what is unlocked, now and at any later time.
\* (claim_vesting, stake_to_delegator)
ClaimedWithinSchedule ==
    \A s \in DOMAIN box :
        /\ box[s].start <= time
        /\ box[s].claimed <= Unlocked(box[s])

\* The one balance of the contract covers what every box still owes, boxes that
\* were overwritten and entries that were claimed while they were staked
\* included, but for what is known to be missing: tokens that delegators have and
\* did not return, those that never arrived, and those that were claimed before
\* a staking made them claimable again.  No other call opens a gap.
\* (vest_tokens, claim_vesting, stake_to_delegator, withdraw_from_delegator)
VaultCoversBoxes ==
    SumOver([s \in DOMAIN box |-> box[s].amount - box[s].claimed], DOMAIN box)
        <= vault + lent + short

=============================================================================
