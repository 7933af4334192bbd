------------------------------- MODULE MCPool -------------------------------
(***************************************************************************)
(* Small instances of the stake delegator.                                 *)
(***************************************************************************)
EXTENDS StakeDelegator, TLC

CONSTANTS m1, m2

MCMember == {m1, m2}
MCManager == {m1}
MCLeaver == {m2}
MCWallet == [m \in MCMember |-> IF m = m1 THEN 2 ELSE 1]
=============================================================================
