----------------------------- MODULE Sortition -----------------------------
(***************************************************************************)
(* How many votes a stake has on a request.  The first eight bytes of the  *)
(* voter's VRF output are a quantile of the binomial distribution of votes *)
(* with p = 0.001.  The voter looks its quantile up in a table of the      *)
(* normal distribution and sends the index with the count that follows     *)
(* from it (approxCDF); the voting contract checks the index against the   *)
(* same table and computes the count again (verify_vote_count).  Both work *)
(* in integers, but not in the same ones.                                  *)
(*                                                                         *)
(* Of the table only the order of its entries matters, and of the quantile *)
(* only where it lies among them, so 2^63 is the constant Half.            *)
(***************************************************************************)
EXTENDS Integers

CONSTANTS
    Half,       \* uint64_half of the contract, 2^63: the median
    Size,       \* table_size
    Table,      \* z_table: the quantile of each index
    MaxZ,       \* max_z: the deviations the whole table spans
    Short,      \* indexes whose score comes out one short in floating point
    Stake,      \* stakes of the voter in the request's round
    MaxMean,    \* bound: the largest mean of these stakes
    Root        \* the sqrt opcode, on 0..MaxMean

VARIABLES
    stake,      \* the voter's stake in the request's round
    hash,       \* its quantile, drawn by the VRF
    vote        \* the vote the contract accepted, once it has

vars == <<stake, hash, vote>>

MaxHash == 2 * Half - 1
Hash == 0..MaxHash
Index == 0..(Size - 1)
NoVote == [index |-> Size, count |-> 0]

\* The table starts at the median, ends at the largest quantile, and its entries
\* grow, being values of a distribution function (make_table).
ASSUME TableAssumption ==
    /\ Half \in Nat \ {0}
    /\ Size \in Nat \ {0, 1}
    /\ Table \in [Index -> Hash]
    /\ Table[0] = Half
    /\ Table[Size - 1] = MaxHash
    /\ \A i, j \in Index : i < j => Table[i] < Table[j]
    /\ MaxZ \in Nat
    /\ Short \subseteq Index \ {0}

ASSUME RootAssumption ==
    /\ MaxMean \in Nat
    /\ Stake \subseteq 0..(1000 * MaxMean)
    /\ Root \in [0..MaxMean -> Nat]
    /\ \A n \in 0..MaxMean : Root[n] * Root[n] <= n /\ n < (Root[n] + 1) * (Root[n] + 1)

-----------------------------------------------------------------------------
(* verify_vote_count *)

Mean(s) == s \div 1000
Std(s) == Root[(Mean(s) * 999) \div 1000]

\* A score is counted in hundredths of a standard deviation
Score(i) == ((i * 100) \div Size) * MaxZ
Deviation(i, s) == (Score(i) * Std(s)) \div 100

\* A quantile below the median is mirrored; that of zero does not fit 64 bits
Mirrored(q) == Half + (Half - q)
Low(q) == q < Half

\* Faulty form: the entry must lie beyond the quantile
IndexFitsBeyond(q, i) ==
    IF Low(q) THEN Mirrored(q) <= MaxHash /\ Mirrored(q) > Table[i] ELSE q < Table[i]

\* Below the median an entry up to the mirrored quantile, above it one from the
\* quantile on: the contract does not ask for the closest
IndexFits(q, i) ==
    IF Low(q) THEN Mirrored(q) <= MaxHash /\ Mirrored(q) >= Table[i] ELSE q <= Table[i]

\* Faulty form: the subtraction wraps below zero
CountDefinedUnchecked(q, i, s) == TRUE
CountDefined(q, i, s) == Low(q) => Deviation(i, s) <= Mean(s)

\* Faulty form: deviations are subtracted on both sides of the median
CountAtBelow(q, i, s) == Mean(s) - Deviation(i, s)
CountAt(q, i, s) ==
    IF Low(q) THEN Mean(s) - Deviation(i, s) ELSE Mean(s) + Deviation(i, s)

Accepts(q, s, i, count) ==
    IndexFits(q, i) /\ CountDefined(q, i, s) /\ count = CountAt(q, i, s)

-----------------------------------------------------------------------------
(* approxCDF *)

\* uint64Half of the voter is rounded down, that of the contract up
NodeHalf == Half - 1
NodeMirrored(q) == NodeHalf + (NodeHalf - q)

\* Faulty form: the first entry beyond the mirrored quantile
NodeIndexBeyond(q) ==
    IF q < NodeHalf
    THEN CHOOSE i \in Index : Table[i] > NodeMirrored(q)
                           /\ \A j \in Index : Table[j] > NodeMirrored(q) => i <= j
    ELSE CHOOSE i \in Index : q <= Table[i] /\ \A j \in Index : q <= Table[j] => i <= j

\* The last entry up to the mirrored quantile, or the first from it on
NodeIndex(q) ==
    IF q < NodeHalf
    THEN CHOOSE i \in Index : Table[i] <= NodeMirrored(q)
                           /\ \A j \in Index : Table[j] <= NodeMirrored(q) => j <= i
    ELSE CHOOSE i \in Index : q <= Table[i] /\ \A j \in Index : q <= Table[j] => i <= j

\* Math.floor(zIndex / zTable.length * 7 * 100), where a quotient that is not
\* represented exactly may fall below a whole number
NodeScore(i) == (i * MaxZ * 100) \div Size - (IF i \in Short THEN 1 ELSE 0)

\* Negative when the deviation exceeds the mean
NodeCount(q, s) ==
    LET deviation == (NodeScore(NodeIndex(q)) * Std(s)) \div 100
    IN IF q < NodeHalf THEN Mean(s) - deviation ELSE Mean(s) + deviation

-----------------------------------------------------------------------------
Init ==
    /\ stake \in Stake
    /\ hash \in Hash
    /\ vote = NoVote

\* A vote with any index and count the contract takes
CastVote(i) ==
    /\ vote = NoVote
    /\ Accepts(hash, stake, i, CountAt(hash, i, stake))
    /\ vote' = [index |-> i, count |-> CountAt(hash, i, stake)]
    /\ UNCHANGED <<stake, hash>>

Next == \E i \in Index : CastVote(i)

Spec == Init /\ [][Next]_vars

-----------------------------------------------------------------------------
\* The type invariant: a count is never negative
SortitionTypeOK ==
    /\ stake \in Stake
    /\ hash \in Hash
    /\ vote \in {NoVote} \cup [index : Index, count : Nat]

\* No draw shuts a voter out: whatever its stake, and whatever the VRF yields
\* except zero, there is a vote that the contract accepts.
EveryDrawCounts ==
    hash # 0 /\ vote = NoVote =>
        \E i \in Index : Accepts(hash, stake, i, CountAt(hash, i, stake))

\* What a draw is worth at the least does not fall as draws get better: an accepted
\* count is no lower than the fewest that the next worse draw of the VRF is worth.
\* Other accepted counts may fall, as the index is not unique.  (verify_vote_count)
BetterDrawCountsNoLess ==
    vote # NoVote /\ hash > 1 =>
        \E i \in Index :
           /\ IndexFits(hash - 1, i) /\ CountDefined(hash - 1, i, stake)
           /\ CountAt(hash - 1, i, stake) <= vote.count

\* The voter's table lookup, with its own median, always yields an index that
\* the contract takes, and a count that errs towards the mean, by at most one
\* for each begun hundred of the deviation.  (approxCDF, verify_vote_count)
VoterNearlyAgrees ==
    hash # 0 =>
       LET off == CountAt(hash, NodeIndex(hash), stake) - NodeCount(hash, stake)
       IN  /\ IndexFits(hash, NodeIndex(hash))
           /\ (IF Low(hash) THEN -off ELSE off) \in 0..(1 + Std(stake) \div 100)

\* "to calculate vote_count and z_index refer to the function approxCDF": what
\* it calculates is accepted, when the count is not negative.
VoterAgrees ==
    hash # 0 /\ NodeCount(hash, stake) >= 0 =>
        Accepts(hash, stake, NodeIndex(hash), NodeCount(hash, stake))

=============================================================================
