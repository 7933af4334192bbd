-------------------------- MODULE SortitionProofs --------------------------
(***************************************************************************)
(* Proofs about Sortition, for every table that grows from the median to   *)
(* the largest quantile, every set of stakes and every square root.        *)
(***************************************************************************)
EXTENDS Sortition, WellFoundedInduction, TLAPS

\* Means, deviations and scores are naturals.
LEMMA CountsTyped ==
    ASSUME NEW s \in Stake, NEW i \in Index
    PROVE  /\ Mean(s) \in 0..MaxMean
           /\ Std(s) \in Nat
           /\ Score(i) \in Nat
           /\ Deviation(i, s) \in Nat
<1>0. MaxMean \in Nat /\ s \in 0..(1000 * MaxMean) /\ Root \in [0..MaxMean -> Nat]
  BY RootAssumption, Zenon
<1>1. Mean(s) \in 0..MaxMean
  BY <1>0 DEF Mean
<1>2. (Mean(s) * 999) \div 1000 \in 0..MaxMean
  BY <1>0, <1>1
<1>3. Std(s) \in Nat
  BY <1>0, <1>2 DEF Std
<1>4. Score(i) \in Nat
  <2>1. i \in Nat /\ Size \in Nat /\ Size > 0
    BY TableAssumption DEF Index
  <2>2. (i * 100) \div Size \in Nat
    BY <2>1
  <2> QED BY <2>2, TableAssumption DEF Score
<1>5. Score(i) * Std(s) \in Nat
  BY <1>3, <1>4
<1>6. Deviation(i, s) \in Nat
  BY <1>5 DEF Deviation
<1> QED BY <1>1, <1>3, <1>4, <1>6

\* An accepted count is a natural number: the subtraction below the median is
\* the only one, and CountDefined guards it.
LEMMA AcceptedCountIsNatural ==
    ASSUME NEW s \in Stake, NEW i \in Index, NEW q \in Hash,
           CountDefined(q, i, s)
    PROVE  CountAt(q, i, s) \in Nat
<1>1. Mean(s) \in Nat /\ Deviation(i, s) \in Nat
  BY CountsTyped, RootAssumption
<1>2. CASE Low(q)
  <2>1. Deviation(i, s) <= Mean(s)
    BY <1>2 DEF CountDefined
  <2> QED BY <1>1, <1>2, <2>1 DEF CountAt
<1>3. CASE ~Low(q)
  BY <1>1, <1>3 DEF CountAt
<1> QED BY <1>2, <1>3

\* The first entry of the table is no deviation at all.
LEMMA MedianHasNoDeviation ==
    ASSUME NEW s \in Stake
    PROVE  0 \in Index /\ Deviation(0, s) = 0
<1>1. Size \in Nat /\ Size > 1 /\ 0 \in Index
  BY TableAssumption DEF Index
<1>2. (0 * 100) \div Size = 0
  BY <1>1
<1>3. Score(0) = 0
  BY <1>2, TableAssumption DEF Score
<1>4. Std(s) \in Nat
  BY <1>1, CountsTyped
<1>5. Score(0) * Std(s) = 0
  BY <1>3, <1>4
<1> QED BY <1>1, <1>5 DEF Deviation

-----------------------------------------------------------------------------
\* Type correctness, and with it that no accepted count is negative.
THEOREM SortitionTypeCorrect == Spec => []SortitionTypeOK
<1>1. Init => SortitionTypeOK
  BY DEF Init, SortitionTypeOK
<1>2. SortitionTypeOK /\ [Next]_vars => SortitionTypeOK'
  <2> SUFFICES ASSUME SortitionTypeOK, [Next]_vars
               PROVE  SortitionTypeOK'
    OBVIOUS
  <2>1. ASSUME NEW i \in Index, CastVote(i)
        PROVE  SortitionTypeOK'
    <3>1. stake \in Stake /\ hash \in Hash /\ CountDefined(hash, i, stake)
      BY <2>1 DEF SortitionTypeOK, CastVote, Accepts
    <3>2. CountAt(hash, i, stake) \in Nat
      BY <3>1, AcceptedCountIsNatural
    <3> QED BY <2>1, <3>1, <3>2 DEF SortitionTypeOK, CastVote
  <2>2. CASE UNCHANGED vars
    BY <2>2 DEF vars, SortitionTypeOK
  <2> QED BY <2>1, <2>2 DEF Next
<1> QED BY <1>1, <1>2, PTL DEF Spec

\* No draw but zero shuts a voter out: below the median the first entry of the
\* table is always taken, above it the last.
THEOREM DrawsCount == Spec => []EveryDrawCounts
<1>1. SortitionTypeOK => EveryDrawCounts
  <2> SUFFICES ASSUME SortitionTypeOK, hash # 0
               PROVE  \E i \in Index : Accepts(hash, stake, i, CountAt(hash, i, stake))
    BY DEF EveryDrawCounts
  <2>1. stake \in Stake /\ hash \in 1..MaxHash /\ Half \in Nat
    BY TableAssumption DEF SortitionTypeOK, Hash, MaxHash
  <2>2. CASE Low(hash)
    <3>1. IndexFits(hash, 0)
      BY <2>1, <2>2, TableAssumption DEF IndexFits, Low, Mirrored, MaxHash
    <3>2. CountDefined(hash, 0, stake)
      <4>1. Deviation(0, stake) = 0 /\ 0 \in Index
        BY <2>1, MedianHasNoDeviation
      <4>2. Mean(stake) \in Nat
        BY <2>1, <4>1, CountsTyped, RootAssumption
      <4> QED BY <4>1, <4>2 DEF CountDefined
    <3>3. 0 \in Index
      BY <2>1, MedianHasNoDeviation
    <3> QED BY <3>1, <3>2, <3>3 DEF Accepts
  <2>3. CASE ~Low(hash)
    <3>1. Size - 1 \in Index
      BY TableAssumption DEF Index
    <3>2. IndexFits(hash, Size - 1)
      BY <2>1, <2>3, TableAssumption DEF IndexFits, MaxHash
    <3>3. CountDefined(hash, Size - 1, stake)
      BY <2>3 DEF CountDefined
    <3> QED BY <3>1, <3>2, <3>3 DEF Accepts
  <2> QED BY <2>2, <2>3
<1> QED BY <1>1, SortitionTypeCorrect, PTL

-----------------------------------------------------------------------------
\* A vote that was accepted has an index that fits the draw.
VoteFits ==
    vote # NoVote => \E i \in Index : Accepts(hash, stake, i, vote.count)

\* The next worse draw is worth no more: the same index fits it, or, across the
\* median, the first one, which is worth the mean.
LEMMA WorseDraw ==
    ASSUME NEW s \in Stake, NEW q \in Hash, q > 1,
           NEW i \in Index, IndexFits(q, i), CountDefined(q, i, s)
    PROVE  \E j \in Index : /\ IndexFits(q - 1, j) /\ CountDefined(q - 1, j, s)
                            /\ CountAt(q - 1, j, s) <= CountAt(q, i, s)
<1>0. Half \in Nat /\ q \in Nat /\ Table \in [Index -> Hash] /\ Table[0] = Half
  BY TableAssumption DEF Hash, MaxHash
<1>1. Table[i] \in Int /\ Mean(s) \in Nat /\ Deviation(i, s) \in Nat
  BY <1>0, CountsTyped, RootAssumption DEF Hash
<1>2. CASE Low(q)
  <2>1. Low(q - 1) /\ IndexFits(q - 1, i)
    BY <1>0, <1>1, <1>2 DEF Low, IndexFits, Mirrored, MaxHash
  <2>2. CountDefined(q - 1, i, s) /\ CountAt(q - 1, i, s) = CountAt(q, i, s)
    BY <1>2, <2>1 DEF CountDefined, CountAt
  <2> QED BY <1>1, <1>2, <2>1, <2>2 DEF CountAt
<1>3. CASE ~Low(q) /\ ~Low(q - 1)
  <2>1. IndexFits(q - 1, i)
    BY <1>0, <1>1, <1>3 DEF IndexFits
  <2>2. CountDefined(q - 1, i, s) /\ CountAt(q - 1, i, s) = CountAt(q, i, s)
    BY <1>3 DEF CountDefined, CountAt
  <2> QED BY <1>1, <1>3, <2>1, <2>2 DEF CountAt
<1>4. CASE ~Low(q) /\ Low(q - 1)
  <2>1. q = Half
    BY <1>0, <1>4 DEF Low
  <2>2. 0 \in Index /\ Deviation(0, s) = 0
    BY MedianHasNoDeviation
  <2>3. IndexFits(q - 1, 0)
    BY <1>0, <1>4, <2>1 DEF IndexFits, Mirrored, MaxHash
  <2>4. CountDefined(q - 1, 0, s) /\ CountAt(q - 1, 0, s) = Mean(s)
    BY <1>1, <1>4, <2>2 DEF CountDefined, CountAt
  <2>5. CountAt(q, i, s) = Mean(s) + Deviation(i, s)
    BY <1>4 DEF CountAt
  <2> QED BY <1>1, <2>2, <2>3, <2>4, <2>5
<1> QED BY <1>2, <1>3, <1>4

\* The fewest votes that are accepted for a draw do not fall as draws of the VRF
\* get better, on both sides of the median and across it, where the comparison of
\* verify_vote_count turns around.
THEOREM BetterDraws == Spec => []BetterDrawCountsNoLess
<1>1. Init => VoteFits
  BY DEF Init, VoteFits
<1>2. VoteFits /\ [Next]_vars => VoteFits'
  <2> SUFFICES ASSUME VoteFits, [Next]_vars PROVE VoteFits'
    OBVIOUS
  <2>1. ASSUME NEW i \in Index, CastVote(i) PROVE VoteFits'
    <3>1. /\ Accepts(hash, stake, i, CountAt(hash, i, stake))
          /\ vote'.count = CountAt(hash, i, stake) /\ stake' = stake /\ hash' = hash
      BY <2>1 DEF CastVote
    <3> QED BY <3>1 DEF VoteFits
  <2>2. CASE UNCHANGED vars
    BY <2>2 DEF vars, VoteFits
  <2> QED BY <2>1, <2>2 DEF Next
<1>3. SortitionTypeOK /\ VoteFits => BetterDrawCountsNoLess
  <2> SUFFICES ASSUME SortitionTypeOK, VoteFits, vote # NoVote, hash > 1
               PROVE  \E j \in Index :
                         /\ IndexFits(hash - 1, j) /\ CountDefined(hash - 1, j, stake)
                         /\ CountAt(hash - 1, j, stake) <= vote.count
    BY DEF BetterDrawCountsNoLess
  <2>1. stake \in Stake /\ hash \in Hash
    BY DEF SortitionTypeOK
  <2>2. PICK i \in Index : Accepts(hash, stake, i, vote.count)
    BY DEF VoteFits
  <2>3. /\ IndexFits(hash, i) /\ CountDefined(hash, i, stake)
        /\ vote.count = CountAt(hash, i, stake)
    BY <2>2 DEF Accepts
  <2> QED BY <2>1, <2>3, WorseDraw
<1> QED BY <1>1, <1>2, <1>3, SortitionTypeCorrect, PTL DEF Spec

-----------------------------------------------------------------------------
(* The voter's lookup *)

LEMMA LeastExists ==
    ASSUME NEW S \in SUBSET Nat, S # {}
    PROVE  \E m \in S : \A k \in S : m <= k
<1>1. PICK m \in S : \A k \in S : ~ (<<k, m>> \in OpToRel(<, Nat))
  BY NatLessThanWellFounded, WFMin
<1>2. \A k \in S : ~ (k < m)
  BY <1>1 DEF OpToRel
<1> QED BY <1>2

LEMMA GreatestExists ==
    ASSUME NEW S \in SUBSET Index, S # {}
    PROVE  \E m \in S : \A k \in S : k <= m
<1> DEFINE T == {Size - 1 - i : i \in S}
<1>1. Size \in Nat /\ S \subseteq 0..(Size - 1)
  BY TableAssumption DEF Index
<1>2. T \in SUBSET Nat /\ T # {}
  <2>1. \A i \in S : Size - 1 - i \in Nat
    BY <1>1
  <2>2. \E i \in S : Size - 1 - i \in T
    OBVIOUS
  <2> QED BY <2>1, <2>2
<1>3. PICK t \in T : \A k \in T : t <= k
  BY <1>2, LeastExists
<1>4. PICK m \in S : t = Size - 1 - m
  BY <1>3
<1>5. ASSUME NEW k \in S PROVE k <= m
  <2>1. t <= Size - 1 - k
    BY <1>3
  <2> QED BY <1>1, <1>4, <2>1
<1> QED BY <1>5

\* A draw below the voter's median is looked up downwards, any other upwards;
\* the one draw at which the medians differ finds the first index.
LEMMA LookupFits ==
    ASSUME NEW q \in Hash, q # 0
    PROVE  /\ NodeIndex(q) \in Index
           /\ IndexFits(q, NodeIndex(q))
           /\ q < NodeHalf => Low(q)
           /\ Low(q) /\ ~(q < NodeHalf) => NodeIndex(q) = 0
<1>0. /\ Half \in Nat /\ q \in 1..MaxHash /\ MaxHash = 2 * Half - 1
      /\ Table \in [Index -> Hash] /\ Table[0] = Half /\ Table[Size - 1] = MaxHash
      /\ 0 \in Index /\ Size - 1 \in Index /\ Index \subseteq Nat
  BY TableAssumption DEF Hash, MaxHash, Index
<1>1. \A i \in Index : Table[i] \in Nat
  BY <1>0 DEF Hash
<1>2. CASE q < NodeHalf
  <2> DEFINE S == {i \in Index : Table[i] <= NodeMirrored(q)}
  <2>1. 0 \in S
    BY <1>0, <1>2 DEF NodeMirrored, NodeHalf
  <2>2. \E i \in S : \A j \in S : j <= i
    BY <2>1, GreatestExists
  <2>3. \E i \in Index : /\ Table[i] <= NodeMirrored(q)
                         /\ \A j \in Index : Table[j] <= NodeMirrored(q) => j <= i
    BY <2>2
  <2>4. NodeIndex(q) \in Index /\ Table[NodeIndex(q)] <= NodeMirrored(q)
    BY <1>2, <2>3 DEF NodeIndex
  <2>5. Low(q) /\ Mirrored(q) <= MaxHash /\ NodeMirrored(q) <= Mirrored(q)
    BY <1>0, <1>2 DEF Low, Mirrored, NodeMirrored, NodeHalf
  <2>6. NodeMirrored(q) \in Int /\ Mirrored(q) \in Int
    BY <1>0 DEF Mirrored, NodeMirrored, NodeHalf
  <2>7. IndexFits(q, NodeIndex(q))
    BY <1>1, <2>4, <2>5, <2>6 DEF IndexFits
  <2> QED BY <1>2, <2>4, <2>5, <2>7
<1>3. CASE ~(q < NodeHalf)
  <2> DEFINE S == {i \in Index : q <= Table[i]}
  <2>1. Size - 1 \in S
    BY <1>0
  <2>2. \E i \in S : \A j \in S : i <= j
    BY <1>0, <2>1, LeastExists
  <2>3. \E i \in Index : q <= Table[i] /\ \A j \in Index : q <= Table[j] => i <= j
    BY <2>2
  <2>4. /\ NodeIndex(q) \in Index /\ q <= Table[NodeIndex(q)]
        /\ \A j \in Index : q <= Table[j] => NodeIndex(q) <= j
    BY <1>3, <2>3 DEF NodeIndex
  <2>5. CASE Low(q)
    <3>1. q = Half - 1
      BY <1>0, <1>3, <2>5 DEF Low, NodeHalf
    <3>2. NodeIndex(q) <= 0
      BY <1>0, <2>4, <3>1
    <3>3. NodeIndex(q) = 0
      <4>1. \A i \in Index : i <= 0 => i = 0
        BY <1>0
      <4> QED BY <2>4, <3>2, <4>1
    <3>4. IndexFits(q, 0)
      BY <1>0, <2>5, <3>1 DEF IndexFits, Mirrored
    <3> QED BY <1>3, <2>4, <3>3, <3>4
  <2>6. CASE ~Low(q)
    BY <1>3, <2>4, <2>6 DEF IndexFits
  <2> QED BY <2>5, <2>6
<1> QED BY <1>2, <1>3

\* Of the size of the table, 50 in z_table.json: a hundredth of the table is a
\* whole number of hundredths of the deviations it spans.
EvenTable == 100 % Size = 0

\* The voter's score is the contract's, or one less.
LEMMA ScoresNearlySame ==
    ASSUME EvenTable, NEW i \in Index
    PROVE  /\ i \in Short => NodeScore(i) = Score(i) - 1
           /\ i \notin Short => NodeScore(i) = Score(i)
<1>0. Size \in Nat /\ Size > 0 /\ i \in Nat /\ MaxZ \in Nat
  BY TableAssumption DEF Index
<1>1. \A x \in Nat : (x * Size) \div Size = x
  BY <1>0
<1> DEFINE k == 100 \div Size
<1>2. k \in Nat /\ 100 = k * Size
  BY <1>0 DEF EvenTable
<1> HIDE DEF k
<1>3. i * 100 = (i * k) * Size /\ i * MaxZ * 100 = ((i * k) * MaxZ) * Size
  BY <1>0, <1>2
<1>4. i * k \in Nat /\ (i * k) * MaxZ \in Nat
  BY <1>0, <1>2
<1>5. (i * 100) \div Size = i * k /\ (i * MaxZ * 100) \div Size = (i * k) * MaxZ
  BY <1>1, <1>3, <1>4
<1> QED BY <1>4, <1>5 DEF NodeScore, Score

\* A difference d of a dividend is one of at most d \div 100 + 1 of the quotient.
LEMMA QuotientsNear ==
    ASSUME NEW a \in Int, NEW d \in Nat
    PROVE  a \div 100 - (a - d) \div 100 \in 0..(1 + d \div 100)
OBVIOUS

\* The voter's count is the contract's, except at the indexes whose score came
\* out short, and there it is off by the deviation's share of that hundredth.
LEMMA CountsNearlySame ==
    ASSUME EvenTable, NEW s \in Stake, NEW q \in Hash, q # 0
    PROVE  LET i == NodeIndex(q)
               off == CountAt(q, i, s) - NodeCount(q, s)
           IN  /\ (IF Low(q) THEN -off ELSE off) \in 0..(1 + Std(s) \div 100)
               /\ i \notin Short => NodeCount(q, s) = CountAt(q, i, s)
<1> DEFINE i == NodeIndex(q)
           near == (NodeScore(i) * Std(s)) \div 100
           far == Deviation(i, s)
           off == CountAt(q, i, s) - NodeCount(q, s)
<1>1. /\ i \in Index
      /\ q < NodeHalf => Low(q)
      /\ Low(q) /\ ~(q < NodeHalf) => i = 0
  BY LookupFits
<1>2. /\ Mean(s) \in Nat /\ Std(s) \in Nat /\ Score(i) \in Nat /\ far \in Nat
      /\ far = (Score(i) * Std(s)) \div 100
  <2>1. Mean(s) \in 0..MaxMean /\ Std(s) \in Nat /\ Score(i) \in Nat /\ far \in Nat
    BY <1>1, CountsTyped
  <2>2. far = (Score(i) * Std(s)) \div 100
    BY DEF Deviation
  <2> QED BY <2>1, <2>2, RootAssumption
<1>3. i \notin Short => near = far
  <2>1. i \notin Short => NodeScore(i) = Score(i)
    BY <1>1, ScoresNearlySame
  <2> QED BY <1>2, <2>1
<1>4. near \in Int /\ far - near \in 0..(1 + Std(s) \div 100)
  <2>1. CASE i \notin Short
    BY <1>2, <1>3, <2>1
  <2>2. CASE i \in Short
    <3> DEFINE a == Score(i) * Std(s)
    <3>1. a \in Int /\ (Score(i) - 1) * Std(s) = a - Std(s)
      BY <1>2
    <3>2. near = (a - Std(s)) \div 100 /\ far = a \div 100
      <4>1. NodeScore(i) = Score(i) - 1
        BY <1>1, <2>2, ScoresNearlySame
      <4> QED BY <1>2, <3>1, <4>1
    <3> HIDE DEF a, near, far
    <3>3. far - near \in 0..(1 + Std(s) \div 100)
      BY <1>2, <3>1, <3>2, QuotientsNear
    <3>4. near \in Int
      BY <1>2, <3>1, <3>2
    <3> QED BY <3>3, <3>4
  <2> QED BY <2>1, <2>2
<1>5. Low(q) /\ ~(q < NodeHalf) => near = 0 /\ far = 0
  <2>1. 0 \notin Short
    BY TableAssumption
  <2> QED BY <1>1, <1>3, <2>1, MedianHasNoDeviation
<1>6. /\ CountAt(q, i, s) = IF Low(q) THEN Mean(s) - far ELSE Mean(s) + far
      /\ NodeCount(q, s) = IF q < NodeHalf THEN Mean(s) - near ELSE Mean(s) + near
  BY DEF CountAt, NodeCount
<1> HIDE DEF near, far
<1>7. NodeCount(q, s) = IF Low(q) THEN Mean(s) - near ELSE Mean(s) + near
  <2>1. Low(q) /\ ~(q < NodeHalf) => Mean(s) + near = Mean(s) - near
    BY <1>2, <1>5
  <2> QED BY <1>1, <1>6, <2>1
<1>8. (IF Low(q) THEN -off ELSE off) = far - near
  BY <1>2, <1>4, <1>6, <1>7
<1> HIDE DEF i
<1>9. (IF Low(q) THEN -off ELSE off) \in 0..(1 + Std(s) \div 100)
  BY <1>4, <1>8
<1>10. i \notin Short => NodeCount(q, s) = CountAt(q, i, s)
  BY <1>3, <1>6, <1>7
<1> QED BY <1>9, <1>10 DEF i

\* approxCDF always finds an index that verify_vote_count takes, and its count
\* errs towards the mean, by at most one for each begun hundred of the deviation.
THEOREM LookupNearlyAgrees ==
    ASSUME EvenTable
    PROVE  Spec => []VoterNearlyAgrees
<1>1. SortitionTypeOK => VoterNearlyAgrees
  <2> SUFFICES ASSUME SortitionTypeOK, hash # 0
               PROVE  LET off == CountAt(hash, NodeIndex(hash), stake) - NodeCount(hash, stake)
                      IN  /\ IndexFits(hash, NodeIndex(hash))
                          /\ (IF Low(hash) THEN -off ELSE off)
                                \in 0..(1 + Std(stake) \div 100)
    BY DEF VoterNearlyAgrees
  <2>1. stake \in Stake /\ hash \in Hash
    BY DEF SortitionTypeOK
  <2> QED BY <2>1, LookupFits, CountsNearlySame
<1> QED BY <1>1, SortitionTypeCorrect, PTL

\* What VoterAgrees says, of every draw but those whose score came out short
AgreesOffShort == NodeIndex(hash) \notin Short => VoterAgrees

\* The scores of approxCDF that fall one short in floating point are all that
\* stands between the voter's count and the contract's.
THEOREM OnlyShortScoresDiffer ==
    ASSUME EvenTable
    PROVE  Spec => []AgreesOffShort
<1>1. SortitionTypeOK => AgreesOffShort
  <2> SUFFICES ASSUME SortitionTypeOK, NodeIndex(hash) \notin Short, hash # 0,
                      NodeCount(hash, stake) >= 0
               PROVE  Accepts(hash, stake, NodeIndex(hash), NodeCount(hash, stake))
    BY DEF AgreesOffShort, VoterAgrees
  <2> DEFINE i == NodeIndex(hash)
  <2>1. stake \in Stake /\ hash \in Hash
    BY DEF SortitionTypeOK
  <2>2. i \in Index /\ IndexFits(hash, i)
    BY <2>1, LookupFits
  <2>3. NodeCount(hash, stake) = CountAt(hash, i, stake)
    BY <2>1, CountsNearlySame
  <2>4. Mean(stake) \in Nat /\ Deviation(i, stake) \in Nat
    BY <2>1, <2>2, CountsTyped, RootAssumption
  <2> HIDE DEF i
  <2>5. CountDefined(hash, i, stake)
    BY <2>3, <2>4 DEF CountDefined, CountAt
  <2> QED BY <2>2, <2>3, <2>5 DEF Accepts, i
<1> QED BY <1>1, SortitionTypeCorrect, PTL

=============================================================================
