----------------------------- MODULE MCVesting -----------------------------
(***************************************************************************)
(* Small instances of the vesting contract with its delegator.             *)
(***************************************************************************)
EXTENDS DelegatedVesting, TLC

CONSTANTS u1, u2, h1, h2, app

MCVestee == {u1}
MCMember == {u1, u2}
MCNobody == {}
MCEmpty == [m \in MCMember |-> 0]
\* Nothing tells the two boxes of the vestee apart
HashSymmetry == Permutations(Hash)
MCWallet == [m \in MCMember |-> IF m = u2 THEN 2 ELSE 0]
=============================================================================
