-------------------------- MODULE DelegatedVesting --------------------------
(***************************************************************************)
(* The vesting contract and a stake delegator on one chain.  The vestees   *)
(* are members of the delegator: they stake and unstake there themselves,  *)
(* and the vesting contract stakes and withdraws on their behalf, each     *)
(* time within one transaction group that changes both contracts.  Others   *)
(* may act on behalf of the members too.  Here no vote earns the delegator  *)
(* anything: rewards are module StakeDelegator's.                          *)
(***************************************************************************)
EXTENDS Vesting

CONSTANTS Member, Leaver, Manager, FirstManager, FirstShare, ManagerShare,
          Caller, Timeout, MinimumStake, TimeLock, Timestamp, InitialToken,
          Amount, Reward, MaxRound, MaxEarned, MaxPending, MaxUnbacked,
          App,              \* the delegator's application
          VestingApp        \* the vesting contract's application

VARIABLES age, pool, optedIn, acct, main, wallet, earned, paid, left, overdrawn,
          unbacked

Pool == INSTANCE StakeDelegator

poolVars == <<age, pool, optedIn, acct, main, wallet, earned, paid, left,
              overdrawn, unbacked>>
vars == <<vestingVars, poolVars>>

ASSUME CompositionAssumption ==
    /\ Vestee \subseteq Member /\ App \in Delegator
    /\ VestingApp \in Caller \ {Pool!TopLevel}

\* What module StakeDelegator assumes of its constants
ASSUME PoolAssumption ==
    /\ IsFiniteSet(Member)
    /\ Leaver \subseteq Member /\ Manager \subseteq Member /\ FirstManager \in Manager
    /\ ManagerShare \subseteq Nat /\ FirstShare \in Nat
    /\ Timeout \in Nat /\ TimeLock \in Nat /\ MinimumStake \in Nat
    /\ MaxRound \in Nat /\ MaxEarned \in Nat /\ MaxPending \in Nat /\ MaxUint \in Nat
    /\ MaxUnbacked \in Nat
    /\ Timestamp \in Nat /\ Timestamp > MaxRound + 1
    /\ InitialToken \in [Member -> Nat]
    /\ Amount \subseteq Nat /\ Reward \subseteq Nat

Init == VestingInit /\ Pool!Init

\* A block: a round and a timestamp
Block == TimePasses /\ Pool!NextRound

\* stake_to_delegator, with the delegator's stake in an inner transaction
StakeVested(s) ==
    /\ StakeToDelegator(s, App)
    /\ Pool!StakeVested(s[1], box[s].amount, VestingApp, TRUE)

\* withdraw_from_delegator, with withdraw_non_stake in an inner transaction
WithdrawVested(s) ==
    /\ WithdrawFromDelegator(s, acct[s[1]].vested)
    /\ Pool!WithdrawVested(s[1], VestingApp)

Next ==
    \/ Block
    \/ VestingStep /\ UNCHANGED poolVars
    \/ \E s \in DOMAIN box : StakeVested(s) \/ WithdrawVested(s)
    \/ \E m \in Member :
          /\ \/ Pool!MemberStep(m)
             \/ \E caller \in Caller \ {VestingApp} : Pool!BehalfStep(m, caller)
          /\ UNCHANGED vestingVars

Spec == Init /\ [][Next]_vars

-----------------------------------------------------------------------------
\* What the vesting contract lent the delegator stays on record there, in the
\* vestees' names, until it is given back to the vesting contract: nobody else who
\* acts on a vestee's behalf gets at it, whoever came first, and none of the
\* vestee's own calls does.  A vestee's clear-state wipes the record.
\* (stake, withdraw_non_stake on behalf)
LentOnRecord ==
    Vestee \cap Leaver = {} =>
        lent <= SumOver([v \in Vestee |-> acct[v].vested], Vestee)

\* Vested tokens leave the delegator only by way of the vesting contract: as
\* long as votes earn nothing, no member takes more out of the delegator than
\* it put in.  (withdraw_non_stake)
VestedStaysLocked == \A m \in Member : wallet[m] <= InitialToken[m]

=============================================================================
