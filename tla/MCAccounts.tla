----------------------------- MODULE MCAccounts -----------------------------
(* Small instances of Accounts for TLC. *)
EXTENDS Accounts, TLC

CONSTANTS a1, a2, k1

MCSettings(tl) ==
    [manager |-> a1, madePct |-> 100, procPct |-> 10, algoFee |-> 10,
     goraFee |-> 6, threshold |-> 66, timeLock |-> tl, refillThreshold |-> 2,
     refillAmount |-> 4, subLock |-> 1]

MCShortLock == MCSettings(1)
MCTokens    == (a1 :> 3 @@ a2 :> 2)
MCNothing   == [a \in Account |-> 0]

\* The part of Next that the stakes depend on
StakingNext ==
    \/ NextRound
    \/ \E a \in Account :
          \/ OptIn(a)
          \/ ClearState(a)
          \/ \E amount \in StakeAmount : Stake(a, amount) \/ Unstake(a, amount)

StakingSpec == Init /\ [][StakingNext]_accountVars
=============================================================================
