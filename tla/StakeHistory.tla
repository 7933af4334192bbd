---------------------------- MODULE StakeHistory ----------------------------
(***************************************************************************)
(* The two-entry stake arrays of the main contract.  One such array is     *)
(* kept in every account's local state ("ls") and one in the global state  *)
(* ("ts").  The current entry holds the stake since the round it was       *)
(* written; the historical entry holds the stake before that round, so     *)
(* that a stake can be read as it was at the START of a round, whatever    *)
(* was staked during it.                                                   *)
(***************************************************************************)
EXTENDS Integers

Entry(r, s) == [round |-> r, stake |-> s]

\* init_total_stake_array: nothing before round r, total from round r on
InitArray(r, total) == [hist |-> Entry(0, 0), cur |-> Entry(r, total)]

\* update_stake rejects an array that was written in a later round
Updatable(arr, r) == arr.cur.round <= r

\* Faulty forms, checked to be caught: history lost, history overwritten twice
\* in one round, and a stake read with what was staked in the very round
UpdatedWithoutHistory(arr, r, newStake) == [arr EXCEPT !.cur = Entry(r, newStake)]
UpdatedAlwaysShifting(arr, r, newStake) ==
    [hist |-> arr.cur, cur |-> Entry(r, newStake)]
StakeAtEndOf(arr, r) == IF arr.cur.round <= r THEN arr.cur.stake ELSE arr.hist.stake

\* update_stake: the current entry becomes history unless it is of this very
\* round, in which case the older history is the one worth keeping
Updated(arr, r, newStake) ==
    [hist |-> IF arr.cur.round < r THEN arr.cur ELSE arr.hist,
     cur  |-> Entry(r, newStake)]

\* Both readers (request for the total, get_local_stake for one account)
\* fail on an array that was written after the round they ask for
Readable(arr, r) == arr.cur.round <= r

\* The stake at the start of round r
StakeAt(arr, r) == IF arr.cur.round < r THEN arr.cur.stake ELSE arr.hist.stake

StakeEntries == [round : Nat, stake : Nat]
StakeArrays  == [hist : StakeEntries, cur : StakeEntries]

=============================================================================
