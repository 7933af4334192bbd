---------------------------- MODULE VotingProofs ----------------------------
(***************************************************************************)
(* What holds of requests and votes for every set of accounts, requests,   *)
(* contracts and answers, with all that accounts may do in between.        *)
(***************************************************************************)
EXTENDS Voting, AccountsProofs

-----------------------------------------------------------------------------
(* Types *)

Boxes == {NoBox} \cup RequestInfo \cup CompletedInfo

LEMMA BoxKinds ==
    ASSUME NEW b \in Boxes
    PROVE  /\ IsRequest(b) => b \in RequestInfo
           /\ IsHistory(b) => b \in CompletedInfo
           /\ ~(IsRequest(b) /\ IsHistory(b))
           /\ b = NoBox => ~IsRequest(b) /\ ~IsHistory(b)
BY DEF Boxes, NoBox, None, RequestInfo, CompletedInfo, IsRequest, IsHistory

LEMMA QuotientTyped ==
    ASSUME NEW n \in Nat, NEW d \in Nat, d > 0
    PROVE  n \div d \in Nat
OBVIOUS

LEMMA ProductTyped == ASSUME NEW m \in Nat, NEW n \in Nat PROVE m * n \in Nat
OBVIOUS

\* The fees of a request are natural, and so is what comes back of them
LEMMA FeesTyped ==
    ASSUME VotingTypeOK
    PROVE  /\ settings.algoFee \in Nat /\ settings.goraFee \in Nat
           /\ settings.timeLock \in Nat /\ BoxCost \in Nat /\ MinFee \in Nat
           /\ Refund(settings.algoFee) \in Nat /\ Refund(settings.goraFee) \in Nat
           /\ RefillFeeDefined => RefillFee \in Nat
<1>1. /\ settings.algoFee \in Nat /\ settings.goraFee \in Nat
      /\ settings.timeLock \in Nat /\ settings.madePct \in Nat
      /\ settings.refillAmount \in Nat /\ settings.refillThreshold \in Nat
      /\ BoxCost \in Nat /\ MinFee \in Nat
  BY RequestAssumption DEF VotingTypeOK, TypeOK, SettingsType
<1>2. Refund(settings.algoFee) \in Nat /\ Refund(settings.goraFee) \in Nat
  BY <1>1, ProductTyped, QuotientTyped DEF Refund
<1>3. ASSUME RefillFeeDefined, ~(settings.refillAmount < settings.refillThreshold)
      PROVE  RefillFee \in Nat
  <2>1. /\ settings.refillAmount * MinFee \in Nat
        /\ settings.refillAmount - settings.refillThreshold \in Nat
        /\ settings.refillAmount - settings.refillThreshold > 0
    BY <1>1, <1>3, ProductTyped DEF RefillFeeDefined
  <2> QED BY <1>3, <2>1, QuotientTyped DEF RefillFee
<1> QED BY <1>1, <1>2, <1>3 DEF RefillFee

\* A vote is settled against its box
LEMMA VoteKinds ==
    ASSUME VotingTypeOK, NEW vote \in Votes
    PROVE  /\ BoxOf(vote) \in Boxes
           /\ IsRequest(BoxOf(vote)) \/ IsHistory(BoxOf(vote)) =>
                 /\ vote.slot \in Slot /\ vote.slot[1] \in Account
                 /\ vote.hash \in VoteHash
                 /\ BoxOf(vote) = box[vote.slot]
           /\ vote.count \in Nat /\ vote.stake \in Nat /\ vote.round \in Nat
<1>1. CASE vote = EmptyVote
  BY <1>1 DEF BoxOf, EmptyVote, NoBox, None, IsRequest, IsHistory, Boxes
<1>2. CASE vote # EmptyVote
  <2>1. vote \in [slot : Slot, hash : VoteHash, count : Nat, stake : Nat, round : Nat]
    BY <1>2 DEF Votes
  <2>2. vote.slot \in Slot /\ BoxOf(vote) = box[vote.slot]
    BY <1>2, <2>1 DEF BoxOf
  <2>3. vote.slot[1] \in Account
    BY <2>2, RequestAssumption DEF Slot
  <2> QED BY <2>1, <2>2, <2>3 DEF VotingTypeOK, Boxes
<1> QED BY <1>1, <1>2

LEMMA RewardTyped ==
    ASSUME VotingTypeOK, NEW vote \in Votes, Won(vote), Settleable(vote), NEW fee \in Nat
    PROVE  RewardOf(vote, fee) \in Nat
<1>1. /\ BoxOf(vote).count \in Nat /\ BoxOf(vote).count > 0 /\ vote.count \in Nat
  BY VoteKinds, BoxKinds DEF Won, Settleable, CompletedInfo
<1>2. PPM \in Nat /\ PPM > 0
  BY DEF PPM
<1>3. RewardPoints(vote) \in Nat
  BY <1>1, <1>2, ProductTyped, QuotientTyped DEF RewardPoints
<1> QED BY <1>2, <1>3, ProductTyped, QuotientTyped DEF RewardOf

LEMMA VoteRefundTyped ==
    ASSUME VotingTypeOK, NEW vote \in Votes, Lapsed(vote)
    PROVE  /\ VoteRefund(vote) \in Nat /\ BoxOf(vote) \in RequestInfo
           /\ BoxOf(vote).fee - VoteRefund(vote) \in Nat
<1>1. BoxOf(vote) \in RequestInfo
  BY VoteKinds, BoxKinds DEF Lapsed, ReadAsRequest
<1>2. BoxOf(vote).fee \in Nat /\ MinFee \in Nat
  BY <1>1, RequestAssumption DEF RequestInfo
<1> QED BY <1>1, <1>2 DEF VoteRefund

\* What a settlement leaves of the boxes
LEMMA SettledBoxesTyped ==
    ASSUME VotingTypeOK, NEW vote \in Votes
    PROVE  SettledBoxes(vote) \in [Slot -> Boxes]
<1>0. box \in [Slot -> Boxes] /\ NoBox \in Boxes
  BY DEF VotingTypeOK, Boxes
<1>1. CASE ClosesBox(vote)
  BY <1>0, <1>1 DEF SettledBoxes
<1>2. CASE ~ClosesBox(vote) /\ Won(vote)
  <2>1. /\ BoxOf(vote) \in CompletedInfo /\ BoxOf(vote) = box[vote.slot]
        /\ vote.slot \in Slot /\ vote.stake \in Nat
    BY <1>2, VoteKinds, BoxKinds DEF Won
  <2> DEFINE b == [box[vote.slot] EXCEPT !.payed = @ + vote.stake]
  <2>2. b \in CompletedInfo
    BY <2>1 DEF CompletedInfo
  <2>3. SettledBoxes(vote) = [box EXCEPT ![vote.slot] = b]
    BY <1>2 DEF SettledBoxes
  <2>4. b \in Boxes
    BY <2>2 DEF Boxes
  <2> HIDE DEF b
  <2> QED BY <1>0, <2>1, <2>3, <2>4
<1>3. CASE ~ClosesBox(vote) /\ ~Won(vote) /\ Lapsed(vote)
  <2>1. /\ BoxOf(vote) \in RequestInfo /\ BoxOf(vote) = box[vote.slot]
        /\ vote.slot \in Slot /\ vote.count \in Nat
        /\ box[vote.slot].fee - VoteRefund(vote) \in Nat
    BY <1>3, VoteKinds, BoxKinds, VoteRefundTyped DEF Lapsed, ReadAsRequest
  <2> DEFINE b1 == [box[vote.slot] EXCEPT !.fee = @ - VoteRefund(vote)]
             b2 == [b1 EXCEPT !.refunded = @ + vote.count]
  <2>2. b1 \in RequestInfo
    BY <2>1 DEF RequestInfo
  <2>3. b2 \in RequestInfo
    <3> HIDE DEF b1
    <3> QED BY <2>1, <2>2 DEF RequestInfo
  <2>4. SettledBoxes(vote) = [box EXCEPT ![vote.slot] = b2]
    BY <1>0, <1>3, <2>1 DEF SettledBoxes
  <2>5. b2 \in Boxes
    BY <2>3 DEF Boxes
  <2> HIDE DEF b2
  <2> QED BY <1>0, <2>1, <2>4, <2>5
<1>4. CASE ~ClosesBox(vote) /\ ~Won(vote) /\ ~Lapsed(vote)
  BY <1>0, <1>4 DEF SettledBoxes
<1> QED BY <1>1, <1>2, <1>3, <1>4

\* ... and of the balances
LEMMA SettledBalancesTyped ==
    ASSUME VotingTypeOK, NEW vote \in Votes, Settleable(vote), NEW payee \in Account
    PROVE  /\ SettledAlgo(vote, payee) \in [Account -> Nat]
           /\ SettledToken(vote, payee) \in [Account -> Nat]
<1>0. /\ accountAlgo \in [Account -> Nat] /\ accountToken \in [Account -> Nat]
      /\ settings.algoFee \in Nat /\ settings.goraFee \in Nat /\ BoxCost \in Nat
  BY FeesTyped DEF VotingTypeOK, TypeOK
<1>1. VoterAlgo(vote) \in Nat
  <2>1. CASE Won(vote)
    BY <1>0, <2>1, RewardTyped DEF VoterAlgo
  <2>2. CASE ~Won(vote)
    BY <2>2, VoteRefundTyped DEF VoterAlgo
  <2> QED BY <2>1, <2>2
<1>2. ClosesBox(vote) => RequesterAlgo(vote) \in Nat /\ vote.slot[1] \in Account
  <2> SUFFICES ASSUME ClosesBox(vote)
               PROVE  RequesterAlgo(vote) \in Nat /\ vote.slot[1] \in Account
    OBVIOUS
  <2>1. CASE Won(vote)
    BY <1>0, <2>1, VoteKinds DEF RequesterAlgo, Won
  <2>2. CASE ~Won(vote)
    <3>1. Lapsed(vote)
      BY <2>2 DEF ClosesBox
    <3>2. VoteRefund(vote) \in Nat /\ BoxOf(vote).fee \in Nat
          /\ BoxOf(vote).fee - VoteRefund(vote) \in Nat
      BY <3>1, VoteRefundTyped DEF RequestInfo
    <3>3. vote.slot[1] \in Account
      BY <3>1, VoteKinds DEF Lapsed, ReadAsRequest
    <3> QED BY <1>0, <2>2, <3>2, <3>3 DEF RequesterAlgo
  <2> QED BY <2>1, <2>2
<1>3. SettledAlgo(vote, payee) \in [Account -> Nat]
  <2> DEFINE paid == [accountAlgo EXCEPT ![payee] = @ + VoterAlgo(vote)]
  <2>1. paid \in [Account -> Nat]
    BY <1>0, <1>1
  <2>2. SettledAlgo(vote, payee) =
          IF ClosesBox(vote) THEN [paid EXCEPT ![vote.slot[1]] = @ + RequesterAlgo(vote)]
          ELSE paid
    BY DEF SettledAlgo
  <2> HIDE DEF paid
  <2> QED BY <1>2, <2>1, <2>2
<1>4. SettledToken(vote, payee) \in [Account -> Nat]
  <2>1. Won(vote) => RewardOf(vote, settings.goraFee) \in Nat
    BY <1>0, RewardTyped
  <2> QED BY <1>0, <2>1 DEF SettledToken
<1> QED BY <1>3, <1>4

\* A new request and its refund
LEMMA RequestStepTyped ==
    ASSUME VotingTypeOK, NEW s \in Slot, NEW r \in Account, UNCHANGED votingVars,
           MakeRequest(s[1], s[2]) \/ RefundRequest(s, r)
    PROVE  VotingTypeOK'
<1> USE DEF stakeVars, keyVars, assetVars
<1>0. /\ s[1] \in Account /\ s = <<s[1], s[2]>>
      /\ box \in [Slot -> Boxes] /\ NoBox \in Boxes
      /\ accountAlgo \in [Account -> Nat] /\ accountToken \in [Account -> Nat]
      /\ algoSink \in Nat /\ tokenSink \in Nat
  BY RequestAssumption DEF VotingTypeOK, TypeOK, Slot, Boxes
<1>1. CASE MakeRequest(s[1], s[2])
  <2>1. /\ settings.algoFee \in Nat /\ settings.goraFee \in Nat /\ BoxCost \in Nat
        /\ RefillFee \in Nat /\ RefillFee <= settings.algoFee
    BY <1>1, FeesTyped DEF MakeRequest
  <2>2. lastId' \in RequestId /\ lastId' \in 0..MaxRequests /\ lastId' = lastId + 1
    BY <1>1, RequestAssumption DEF MakeRequest, VotingTypeOK, RequestId
  <2>3. now \in Nat /\ StakeAt(totalStake, now) \in Nat
    BY DEF VotingTypeOK, TypeOK, StakeArrays, StakeEntries, StakeAt
  <2> DEFINE b == [kind |-> "request", id |-> lastId + 1, app |-> None, round |-> now,
                   status |-> "request_made", total |-> StakeAt(totalStake, now),
                   fee |-> settings.algoFee, votes |-> 0, refunded |-> 0]
  <2>4. b \in Boxes
    BY <2>1, <2>2, <2>3 DEF Boxes, RequestInfo
  <2>5. box' = [box EXCEPT ![s] = b]
    BY <1>0, <1>1 DEF MakeRequest
  <2> HIDE DEF b
  <2>6. box' \in [Slot -> Boxes]
    BY <1>0, <2>4, <2>5
  <2>7. accountAlgo' \in [Account -> Nat] /\ accountToken' \in [Account -> Nat]
    <3>1. /\ accountAlgo[s[1]] - settings.algoFee - BoxCost \in Nat
          /\ accountToken[s[1]] - settings.goraFee \in Nat
      BY <1>0, <1>1, <2>1 DEF MakeRequest
    <3> QED BY <1>0, <1>1, <3>1 DEF MakeRequest
  <2>8. algoSink' \in Nat /\ tokenSink' \in Nat
    BY <1>0, <1>1, <2>1 DEF MakeRequest
  <2>9. TypeOK'
    BY <1>1, <2>7 DEF MakeRequest, VotingTypeOK, TypeOK
  <2> QED BY <2>2, <2>6, <2>8, <2>9 DEF VotingTypeOK, votingVars, Boxes
<1>2. CASE RefundRequest(s, r)
  <2>1. /\ Refund(settings.algoFee) \in Nat /\ Refund(settings.goraFee) \in Nat
        /\ BoxCost \in Nat /\ box[s] \in RequestInfo
    BY <1>0, <1>2, FeesTyped, BoxKinds DEF RefundRequest, ReadAsRequest
  <2>2. /\ box' \in [Slot -> Boxes]
        /\ accountAlgo' \in [Account -> Nat] /\ accountToken' \in [Account -> Nat]
        /\ algoSink' \in Nat /\ tokenSink' \in Nat
    <3>1. CASE RefundUnproposed(s, r)
      <4>1. RefillFee \in Nat
        BY <3>1, FeesTyped DEF RefundUnproposed
      <4>2. algoSink' \in Nat /\ tokenSink' \in Nat
        BY <1>0, <2>1, <3>1, <4>1 DEF RefundUnproposed
      <4>3. /\ accountAlgo[r] + Refund(settings.algoFee) + BoxCost \in Nat
            /\ accountToken[r] + Refund(settings.goraFee) \in Nat
        BY <1>0, <2>1
      <4>4. accountAlgo' \in [Account -> Nat] /\ accountToken' \in [Account -> Nat]
        BY <1>0, <3>1, <4>3 DEF RefundUnproposed
      <4> QED BY <1>0, <3>1, <4>2, <4>4 DEF RefundUnproposed
    <3>2. CASE RefundProposed(s, r)
      <4> DEFINE b == [box[s] EXCEPT !.status = "refunded"]
      <4>1. b \in Boxes
        BY <2>1 DEF RequestInfo, Boxes
      <4>2. box' = [box EXCEPT ![s] = b]
        BY <3>2 DEF RefundProposed, MarkedRefunded
      <4> HIDE DEF b
      <4>3. box' \in [Slot -> Boxes]
        BY <1>0, <4>1, <4>2
      <4>4. tokenSink' \in Nat /\ algoSink' \in Nat
        BY <1>0, <2>1, <3>2 DEF RefundProposed
      <4>5. accountToken[r] + Refund(settings.goraFee) \in Nat
        BY <1>0, <2>1
      <4>6. accountAlgo' \in [Account -> Nat] /\ accountToken' \in [Account -> Nat]
        BY <1>0, <3>2, <4>5 DEF RefundProposed
      <4> QED BY <4>3, <4>4, <4>6
    <3> QED BY <1>2, <3>1, <3>2 DEF RefundRequest
  <2>3. TypeOK'
    BY <1>2, <2>2 DEF RefundRequest, VotingTypeOK, TypeOK
  <2>4. lastId' = lastId
    BY <1>2 DEF RefundRequest
  <2> QED BY <2>2, <2>3, <2>4 DEF VotingTypeOK, votingVars, Boxes
<1> QED BY <1>1, <1>2

\* The voting contract's own boxes
LEMMA ProposalsTyped ==
    ASSUME VotingTypeOK, NEW v \in VotingApp, NEW vote
    PROVE  WithoutProposalOf(v, vote) \in [VoteHash -> {NoProposal} \cup Proposals]
BY DEF VotingTypeOK, WithoutProposalOf

LEMMA EmptyVoteTyped == EmptyVote \in Votes /\ NotRegistered \notin Votes
BY DEF Votes, EmptyVote, NotRegistered

LEMMA DeregisterTyped ==
    ASSUME VotingTypeOK, NEW v \in VotingApp, NEW a \in Voter, DeregisterVoter(v, a)
    PROVE  VotingTypeOK'
<1>1. proposal' \in [VotingApp -> [VoteHash -> {NoProposal} \cup Proposals]]
  BY ProposalsTyped DEF DeregisterVoter, VotingTypeOK
<1>2. history' \in [VotingApp -> [Voter -> Votes \cup {NotRegistered}]]
  BY DEF DeregisterVoter, VotingTypeOK
<1>3. UNCHANGED <<accountVars, ledgerVars, deployed, voteRound, current, lease,
                   resumed>>
  BY DEF DeregisterVoter
<1>4. TypeOK'
  BY <1>3, StepTyped DEF VotingTypeOK
<1> QED BY <1>1, <1>2, <1>3, <1>4 DEF VotingTypeOK, accountVars, ledgerVars

LEMMA BoxesKeptTyped ==
    ASSUME VotingTypeOK, NEW v \in VotingApp,
           \/ DeployVotingContract(v)
           \/ \E h \in VoteHash : DeleteBox(v, h)
           \/ \E a \in Voter : RegisterVoter(v, a)
    PROVE  VotingTypeOK'
<1>1. CASE DeployVotingContract(v)
  <2>1. TypeOK'
    BY <1>1, StepTyped DEF VotingTypeOK, DeployVotingContract
  <2> QED BY <1>1, <2>1 DEF DeployVotingContract, VotingTypeOK, accountVars, ledgerVars
<1>2. ASSUME NEW h \in VoteHash, DeleteBox(v, h) PROVE VotingTypeOK'
  <2>1. TypeOK'
    BY <1>2, StepTyped DEF VotingTypeOK, DeleteBox
  <2>2. proposal' \in [VotingApp -> [VoteHash -> {NoProposal} \cup Proposals]]
    BY <1>2 DEF DeleteBox, VotingTypeOK
  <2> QED BY <1>2, <2>1, <2>2 DEF DeleteBox, VotingTypeOK, accountVars, ledgerVars
<1>3. ASSUME NEW a \in Voter, RegisterVoter(v, a) PROVE VotingTypeOK'
  <2>1. TypeOK'
    BY <1>3, StepTyped DEF VotingTypeOK, RegisterVoter
  <2>2. history' \in [VotingApp -> [Voter -> Votes \cup {NotRegistered}]]
    BY <1>3, EmptyVoteTyped DEF RegisterVoter, VotingTypeOK
  <2> QED BY <1>3, <2>1, <2>2 DEF RegisterVoter, VotingTypeOK, accountVars, ledgerVars
<1> QED BY <1>1, <1>2, <1>3

LEMMA ClaimTyped ==
    ASSUME VotingTypeOK, NEW v \in VotingApp, NEW a \in Voter, NEW payee \in Account,
           ClaimRewards(v, a, payee)
    PROVE  VotingTypeOK'
<1> DEFINE vote == history[v][a]
<1>1. vote \in Votes
  BY DEF ClaimRewards, Registered, VotingTypeOK
<1>2. /\ box' = SettledBoxes(vote) /\ accountAlgo' = SettledAlgo(vote, payee)
      /\ accountToken' = SettledToken(vote, payee) /\ Settleable(vote)
  BY DEF ClaimRewards
<1>3. history' \in [VotingApp -> [Voter -> Votes \cup {NotRegistered}]]
  <2>1. ResetVote(v, a) \in Votes \cup {NotRegistered}
    BY EmptyVoteTyped DEF ResetVote
  <2> QED BY <2>1 DEF ClaimRewards, VotingTypeOK
<1> HIDE DEF vote
<1>4. /\ box' \in [Slot -> Boxes] /\ accountAlgo' \in [Account -> Nat]
      /\ accountToken' \in [Account -> Nat]
  BY <1>1, <1>2, SettledBoxesTyped, SettledBalancesTyped
<1>5. UNCHANGED <<now, settings, optedIn, stakeVars, keyVars, lockedTokens,
                   assetVars, algoSink, tokenSink, lastId, deployed, voteRound,
                   current, proposal, lease, resumed>>
  BY DEF ClaimRewards
<1>6. TypeOK'
  BY <1>4, <1>5 DEF VotingTypeOK, TypeOK, stakeVars, keyVars, assetVars
<1> QED BY <1>3, <1>4, <1>5, <1>6 DEF VotingTypeOK, Boxes

-----------------------------------------------------------------------------
(* What a vote is made of *)

Before(v, a)     == history[v][a]
Asked(v, a, s)   == RequestAt(s, Before(v, a))
About(v, a, s)   == Subject(v, s, Asked(v, a, s))
RoundOf(v, a, s) ==
    IF StartsRound(v, Asked(v, a, s)) THEN voteRound[v] + 1 ELSE voteRound[v]
HashOf(v, a, s, answer) == [id |-> Asked(v, a, s).id, answer |-> answer]
StakeOf(v, a, s) == StakeAt(stakeArray[a], About(v, a, s).round)
Others(v, a)     == WithoutProposalOf(v, Before(v, a))
Tally(v, a, s, answer, count) ==
    [count |-> Others(v, a)[HashOf(v, a, s, answer)].count + count,
     stake |-> Others(v, a)[HashOf(v, a, s, answer)].stake + StakeOf(v, a, s),
     round |-> RoundOf(v, a, s)]
Decides(v, a, s, answer, count) ==
    Decided(Tally(v, a, s, answer, count), About(v, a, s).total)
NewBox(v, a, s, answer, count) ==
    VotedBox(v, s, Asked(v, a, s), HashOf(v, a, s, answer), count,
             Tally(v, a, s, answer, count), About(v, a, s).total)

\* The guards of a vote
VoteAllowed(v, a, s, answer, count) ==
    /\ v \in deployed /\ HasKey(a) /\ Registered(v, a)
    /\ Settleable(Before(v, a))
    /\ ReadAsRequest(Asked(v, a, s))
    /\ StartsRound(v, Asked(v, a, s)) => MayStartRound(v, Asked(v, a, s))
    /\ LeaseGranted(publicKey[a], Asked(v, a, s).id, About(v, a, s).round)
    /\ ValidParticipant(a, About(v, a, s).round)
    /\ Before(v, a).round < RoundOf(v, a, s)
    /\ Decides(v, a, s, answer, count) => s[1] \in optedIn

\* ... and its effects
VoteCounts(v, a, s, answer, count) ==
    /\ box' = [SettledBoxes(Before(v, a)) EXCEPT ![s] = NewBox(v, a, s, answer, count)]
    /\ accountAlgo' =
          IF Decides(v, a, s, answer, count)
          THEN [SettledAlgo(Before(v, a), a) EXCEPT ![s[1]] = @ + BoxCost]
          ELSE SettledAlgo(Before(v, a), a)
    /\ accountToken' = SettledToken(Before(v, a), a)
    /\ proposal' = [proposal EXCEPT ![v] =
          [Others(v, a) EXCEPT ![HashOf(v, a, s, answer)] = Tally(v, a, s, answer, count)]]
    /\ history' = [history EXCEPT ![v][a] =
          [slot |-> s, hash |-> HashOf(v, a, s, answer), count |-> count,
           stake |-> StakeOf(v, a, s), round |-> RoundOf(v, a, s)]]
    /\ voteRound' = [voteRound EXCEPT ![v] = RoundOf(v, a, s)]
    /\ current' = [current EXCEPT ![v] =
          IF Decides(v, a, s, answer, count) THEN NoRequest ELSE About(v, a, s)]
    /\ lease' = [lease EXCEPT ![publicKey[a]][Asked(v, a, s).id] =
                    About(v, a, s).round + settings.timeLock]
    /\ resumed' = resumed \cup ResumedBy(v, Asked(v, a, s))
    /\ UNCHANGED <<now, settings, optedIn, stakeVars, keyVars, lockedTokens,
                   assetVars, algoSink, tokenSink, lastId, deployed>>

LEMMA VoteUnfolds ==
    ASSUME NEW v, NEW a, NEW s, NEW answer, NEW count, Vote(v, a, s, answer, count)
    PROVE  VoteAllowed(v, a, s, answer, count) /\ VoteCounts(v, a, s, answer, count)
BY Zenon DEF Vote, VoteAllowed, VoteCounts, Before, Asked, About, RoundOf, HashOf, StakeOf,
       Others, Tally, Decides, NewBox

\* The types of the parts
LEMMA VoteTyped ==
    ASSUME VotingTypeOK, NEW v \in VotingApp, NEW a \in Voter, NEW s \in Slot,
           NEW answer \in Answer, NEW count \in VoteCount,
           VoteAllowed(v, a, s, answer, count)
    PROVE  /\ a \in Account /\ s[1] \in Account /\ count \in Nat
           /\ Before(v, a) \in Votes
           /\ Asked(v, a, s) \in RequestInfo
           /\ About(v, a, s).round \in Nat /\ About(v, a, s).total \in Nat
           /\ About(v, a, s) \in [id : RequestId, round : Nat, total : Nat, slot : Slot]
           /\ About(v, a, s).id = Asked(v, a, s).id
           /\ HashOf(v, a, s, answer) \in VoteHash
           /\ RoundOf(v, a, s) \in Nat \ {0}
           /\ StakeOf(v, a, s) \in Nat
           /\ Others(v, a) \in [VoteHash -> {NoProposal} \cup Proposals]
           /\ Tally(v, a, s, answer, count) \in Proposals
           /\ NewBox(v, a, s, answer, count) \in Boxes
           /\ publicKey[a] \in PublicKey
<1>1. a \in Account /\ s[1] \in Account /\ count \in Nat
  BY VotingAssumption, RequestAssumption DEF Slot
<1>2. Before(v, a) \in Votes
  BY DEF VoteAllowed, Before, Registered, VotingTypeOK
<1>3. Asked(v, a, s) \in RequestInfo
  BY <1>2, SettledBoxesTyped, BoxKinds DEF VoteAllowed, Asked, RequestAt, ReadAsRequest
<1>4. /\ About(v, a, s) \in [id : RequestId, round : Nat, total : Nat, slot : Slot]
      /\ About(v, a, s).id = Asked(v, a, s).id
  <2>1. CASE StartsRound(v, Asked(v, a, s))
    BY <1>3, <2>1 DEF About, Subject, RequestInfo
  <2>2. CASE ~StartsRound(v, Asked(v, a, s))
    <3>1. /\ current[v].id \in RequestId /\ About(v, a, s) = current[v]
          /\ current[v].id = Asked(v, a, s).id
      BY <1>3, <2>2 DEF About, Subject, StartsRound, RequestInfo
    <3>2. current[v] # NoRequest
      BY <3>1, RequestAssumption DEF NoRequest, RequestId
    <3> QED BY <3>1, <3>2 DEF VotingTypeOK
  <2> QED BY <2>1, <2>2
<1>5. HashOf(v, a, s, answer) \in VoteHash
  BY <1>3 DEF HashOf, VoteHash, RequestInfo
<1>6. RoundOf(v, a, s) \in Nat \ {0}
  <2>1. Before(v, a).round \in Nat
    BY <1>2, VoteKinds
  <2>2. RoundOf(v, a, s) \in Nat
    BY DEF RoundOf, VotingTypeOK
  <2>3. Before(v, a).round < RoundOf(v, a, s)
    BY DEF VoteAllowed
  <2> QED BY <2>1, <2>2, <2>3
<1>7. StakeOf(v, a, s) \in Nat
  BY <1>1, <1>4 DEF StakeOf, VotingTypeOK, TypeOK, StakeArrays, StakeEntries, StakeAt
<1>8. Others(v, a) \in [VoteHash -> {NoProposal} \cup Proposals]
  BY ProposalsTyped DEF Others
<1>9. Tally(v, a, s, answer, count) \in Proposals
  <2> DEFINE h == HashOf(v, a, s, answer)
             old == Others(v, a)[h]
  <2>1. old \in {NoProposal} \cup Proposals
    BY <1>5, <1>8
  <2>2. Tally(v, a, s, answer, count) =
           [count |-> old.count + count, stake |-> old.stake + StakeOf(v, a, s),
            round |-> RoundOf(v, a, s)]
    BY DEF Tally
  <2> HIDE DEF old
  <2>3. old.count \in Nat /\ old.stake \in Nat
    BY <2>1 DEF NoProposal, Proposals
  <2> QED BY <1>1, <1>6, <1>7, <2>2, <2>3 DEF Proposals
<1>10. NewBox(v, a, s, answer, count) \in Boxes
  <2> DEFINE req == Asked(v, a, s)
             tally == Tally(v, a, s, answer, count)
  <2>1. CASE Decides(v, a, s, answer, count)
    <3> DEFINE b == [kind |-> "history", hash |-> HashOf(v, a, s, answer),
                     count |-> tally.count, stake |-> tally.stake,
                     round |-> tally.round, payed |-> 0]
    <3>1. NewBox(v, a, s, answer, count) = b
      BY <2>1 DEF NewBox, VotedBox, Decides
    <3>2. tally.count \in Nat /\ tally.stake \in Nat /\ tally.round \in Nat
      BY <1>9 DEF Proposals
    <3>3. b \in CompletedInfo
      <4> HIDE DEF tally
      <4> QED BY <1>5, <3>2 DEF CompletedInfo
    <3> QED BY <3>1, <3>3 DEF Boxes
  <2>2. CASE ~Decides(v, a, s, answer, count)
    <3> HIDE DEF req
    <3>1. req \in RequestInfo
      BY <1>3 DEF req
    <3> DEFINE b1 == [req EXCEPT !.votes = @ + count]
               b2 == [b1 EXCEPT !.status = "processing"]
               b3 == [b2 EXCEPT !.app = v]
    <3>2. b1 \in RequestInfo
      BY <1>1, <3>1 DEF RequestInfo
    <3>3. b2 \in RequestInfo
      <4> HIDE DEF b1
      <4> QED BY <3>2 DEF RequestInfo
    <3>4. b3 \in RequestInfo
      <4> HIDE DEF b2
      <4> QED BY <3>3 DEF RequestInfo
    <3>5. b3 = [req EXCEPT !.votes = @ + count, !.status = "processing", !.app = v]
      BY <3>1 DEF RequestInfo
    <3>6. NewBox(v, a, s, answer, count) \in {b1, b3}
      BY <2>2, <3>5 DEF NewBox, VotedBox, Decides, req
    <3> QED BY <3>2, <3>4, <3>6 DEF Boxes
  <2> QED BY <2>1, <2>2
<1>11. publicKey[a] \in PublicKey
  BY <1>1 DEF VoteAllowed, HasKey, VotingTypeOK, TypeOK
<1> QED BY <1>1, <1>2, <1>3, <1>4, <1>5, <1>6, <1>7, <1>8, <1>9, <1>10, <1>11

LEMMA VoteStepTyped ==
    ASSUME VotingTypeOK, NEW v \in VotingApp, NEW a \in Voter, NEW s \in Slot,
           NEW answer \in Answer, NEW count \in VoteCount, Vote(v, a, s, answer, count)
    PROVE  VotingTypeOK'
<1> DEFINE h == HashOf(v, a, s, answer)
           nb == NewBox(v, a, s, answer, count)
           t == Tally(v, a, s, answer, count)
           id == Asked(v, a, s).id
<1>0. VoteAllowed(v, a, s, answer, count) /\ VoteCounts(v, a, s, answer, count)
  BY VoteUnfolds
<1>1. /\ a \in Account /\ s[1] \in Account /\ count \in Nat
      /\ Before(v, a) \in Votes /\ Settleable(Before(v, a))
      /\ About(v, a, s) \in [id : RequestId, round : Nat, total : Nat, slot : Slot]
      /\ About(v, a, s).round \in Nat
      /\ h \in VoteHash /\ t \in Proposals /\ nb \in Boxes /\ id \in RequestId
      /\ RoundOf(v, a, s) \in Nat /\ StakeOf(v, a, s) \in Nat
      /\ Others(v, a) \in [VoteHash -> {NoProposal} \cup Proposals]
      /\ publicKey[a] \in PublicKey
  BY <1>0, VoteTyped DEF VoteAllowed, RequestInfo
<1> HIDE DEF h, nb, t, id
<1>2. box' \in [Slot -> Boxes]
  <2>1. SettledBoxes(Before(v, a)) \in [Slot -> Boxes]
    BY <1>1, SettledBoxesTyped
  <2> QED BY <1>0, <1>1, <2>1 DEF VoteCounts, nb
<1>3. accountAlgo' \in [Account -> Nat] /\ accountToken' \in [Account -> Nat]
  <2>1. /\ SettledAlgo(Before(v, a), a) \in [Account -> Nat]
        /\ SettledToken(Before(v, a), a) \in [Account -> Nat]
    BY <1>1, SettledBalancesTyped
  <2>2. SettledAlgo(Before(v, a), a)[s[1]] + BoxCost \in Nat
    BY <1>1, <2>1, FeesTyped
  <2>3. [SettledAlgo(Before(v, a), a) EXCEPT ![s[1]] = @ + BoxCost] \in [Account -> Nat]
    BY <2>1, <2>2
  <2> QED BY <1>0, <2>1, <2>3 DEF VoteCounts
<1>4. proposal' \in [VotingApp -> [VoteHash -> {NoProposal} \cup Proposals]]
  <2>1. [Others(v, a) EXCEPT ![h] = t] \in [VoteHash -> {NoProposal} \cup Proposals]
    BY <1>1
  <2>2. proposal' = [proposal EXCEPT ![v] = [Others(v, a) EXCEPT ![h] = t]]
    BY <1>0 DEF VoteCounts, h, t
  <2> QED BY <2>1, <2>2 DEF VotingTypeOK
<1>5. history' \in [VotingApp -> [Voter -> Votes \cup {NotRegistered}]]
  <2> DEFINE vote == [slot |-> s, hash |-> h, count |-> count,
                      stake |-> StakeOf(v, a, s), round |-> RoundOf(v, a, s)]
  <2>1. vote \in Votes
    BY <1>1 DEF Votes
  <2>2. history' = [history EXCEPT ![v][a] = vote]
    BY <1>0 DEF VoteCounts, h
  <2> HIDE DEF vote
  <2> QED BY <2>1, <2>2 DEF VotingTypeOK
<1>6. voteRound' \in [VotingApp -> Nat]
  BY <1>0, <1>1 DEF VoteCounts, VotingTypeOK
<1>7. current' \in [VotingApp -> {NoRequest} \cup
          [id : RequestId, round : Nat, total : Nat, slot : Slot]]
  <2> DEFINE now2 == IF Decides(v, a, s, answer, count) THEN NoRequest ELSE About(v, a, s)
             C == {NoRequest} \cup [id : RequestId, round : Nat, total : Nat, slot : Slot]
  <2>1. now2 \in C
    BY <1>1
  <2>2. current' = [current EXCEPT ![v] = now2] /\ current \in [VotingApp -> C]
    BY <1>0 DEF VoteCounts, VotingTypeOK
  <2> HIDE DEF now2, C
  <2>3. current' \in [VotingApp -> C]
    BY <2>1, <2>2
  <2> QED BY <2>3 DEF C
<1>8. lease' \in [PublicKey -> [RequestId -> Nat]]
  <2>1. About(v, a, s).round + settings.timeLock \in Nat
    BY <1>1, FeesTyped
  <2>2. lease' = [lease EXCEPT ![publicKey[a]][id] = About(v, a, s).round + settings.timeLock]
    BY <1>0 DEF VoteCounts, id
  <2> QED BY <1>1, <2>1, <2>2 DEF VotingTypeOK
<1>9. UNCHANGED <<now, settings, optedIn, stakeVars, keyVars, lockedTokens,
                   assetVars, algoSink, tokenSink, lastId, deployed>>
  BY <1>0 DEF VoteCounts
<1>10. TypeOK'
  BY <1>3, <1>9 DEF VotingTypeOK, TypeOK, stakeVars, keyVars, assetVars
<1>11. resumed' \subseteq RequestId
  BY <1>0, <1>1 DEF VoteCounts, ResumedBy, VotingTypeOK, id
<1> QED
  BY <1>2, <1>4, <1>5, <1>6, <1>7, <1>8, <1>9, <1>10, <1>11 DEF VotingTypeOK, Boxes

LEMMA VotingInitTyped == VotingInit => VotingTypeOK
<1> SUFFICES ASSUME VotingInit PROVE VotingTypeOK
  OBVIOUS
<1>1. TypeOK
  BY InitTyped DEF VotingInit, RequestsInit
<1>2. NotRegistered \in Votes \cup {NotRegistered}
  OBVIOUS
<1> QED BY <1>1, <1>2, RequestAssumption DEF VotingInit, RequestsInit, VotingTypeOK

\* What happens in a step, told apart by the part of the state it changes
LEMMA VotingSteps ==
    ASSUME [VotingNext]_vars
    PROVE  \/ [Next]_accountVars /\ UNCHANGED <<ledgerVars, votingVars>>
           \/ \E s \in Slot, r \in Account : /\ MakeRequest(s[1], s[2]) \/ RefundRequest(s, r)
                                             /\ UNCHANGED votingVars
           \/ \E v \in VotingApp :
                \/ DeployVotingContract(v)
                \/ \E h \in VoteHash : DeleteBox(v, h)
                \/ \E a \in Voter : RegisterVoter(v, a)
                \/ \E a \in Voter : DeregisterVoter(v, a)
                \/ \E a \in Voter, payee \in Account : ClaimRewards(v, a, payee)
                \/ \E a \in Voter, s \in Slot, answer \in Answer, count \in VoteCount :
                      Vote(v, a, s, answer, count)
<1>1. \A s \in Slot : s[1] \in Account
  BY RequestAssumption DEF Slot
<1> QED BY <1>1, Zenon DEF VotingNext, RequestStep, VotingStep, vars

LEMMA VotingStepTyped == VotingTypeOK /\ [VotingNext]_vars => VotingTypeOK'
<1> SUFFICES ASSUME VotingTypeOK, [VotingNext]_vars PROVE VotingTypeOK'
  OBVIOUS
<1>1. CASE [Next]_accountVars /\ UNCHANGED <<ledgerVars, votingVars>>
  BY <1>1, StepTyped DEF VotingTypeOK, ledgerVars, votingVars
<1>2. ASSUME NEW s \in Slot, NEW r \in Account,
             MakeRequest(s[1], s[2]) \/ RefundRequest(s, r), UNCHANGED votingVars
      PROVE  VotingTypeOK'
  BY <1>2, RequestStepTyped
<1>3. ASSUME NEW v \in VotingApp, NEW a \in Voter, NEW s \in Slot,
             NEW answer \in Answer, NEW count \in VoteCount, Vote(v, a, s, answer, count)
      PROVE  VotingTypeOK'
  BY <1>3, VoteStepTyped
<1> QED
  BY <1>1, <1>2, <1>3, VotingSteps, BoxesKeptTyped, DeregisterTyped, ClaimTyped

\* Requests, proposals, votes, leases and the fee sinks are well typed in every
\* reachable state of the main contract and its voting contracts.  As the types
\* are naturals, no refund, reward or settlement draws a sink, a fee or a
\* balance below zero.
THEOREM VotingTypeCorrect == VotingSpec => []VotingTypeOK
<1>1. VotingInit => VotingTypeOK
  BY VotingInitTyped
<1>2. VotingTypeOK /\ [VotingNext]_vars => VotingTypeOK'
  BY VotingStepTyped
<1> QED BY <1>1, <1>2, PTL DEF VotingSpec

-----------------------------------------------------------------------------
(* One contract per request *)

\* A request box names the contract that took the request up.  That no other
\* contract knows of the request needs ids that name one request only, and
\* contracts that know of no request that is still to be made.
OpenRequests ==
    \A s \in Slot : IsRequest(box[s]) => box[s].id <= lastId /\ box[s].round <= now
DistinctIds ==
    \A s, t \in Slot :
       IsRequest(box[s]) /\ IsRequest(box[t]) /\ box[s].id = box[t].id => s = t
KnownRequests ==
    /\ \A v \in VotingApp : current[v].id <= lastId
    /\ \A v \in VotingApp, h \in VoteHash : proposal[v][h] # NoProposal => h.id <= lastId
\* A contract counts the stakes of the round the request was made in
CurrentAgrees ==
    \A s \in Slot, v \in VotingApp :
       IsRequest(box[s]) /\ current[v].id = box[s].id => current[v].round = box[s].round
\* Leases are held for votes, and votes come after the round of the request
LeasesHeld ==
    /\ \A k \in PublicKey, id \in RequestId : id > lastId => lease[k][id] = 0
    /\ \A s \in Slot, k \in PublicKey :
          IsRequest(box[s]) /\ lease[k][box[s].id] # 0 => box[s].round < now

LedgerInv ==
    /\ now >= 1
    /\ OpenRequests /\ DistinctIds /\ KnownRequests /\ OneContractPerRequest
    /\ CurrentAgrees /\ LeasesHeld

\* Box c is still the request that box b was, for the same contract
SameRequest(b, c) ==
    IsRequest(b) /\ c.id = b.id /\ c.round = b.round /\ c.total = b.total
KeptFor(b, c) == SameRequest(b, c) /\ c.app = b.app

\* A settlement leaves a request as it is, but for its votes' refunds
LEMMA SettlementKeeps ==
    ASSUME VotingTypeOK, NEW vote \in Votes, NEW t \in Slot,
           IsRequest(SettledBoxes(vote)[t])
    PROVE  /\ KeptFor(box[t], SettledBoxes(vote)[t])
           /\ SettledBoxes(vote)[t].status = box[t].status
<1>0. box \in [Slot -> Boxes] /\ ~IsRequest(NoBox)
  BY DEF VotingTypeOK, Boxes, IsRequest, NoBox, None
<1>1. CASE ClosesBox(vote)
  <2>1. SettledBoxes(vote)[t] \in {NoBox, box[t]}
    BY <1>0, <1>1 DEF SettledBoxes
  <2> QED BY <1>0, <2>1 DEF KeptFor, SameRequest
<1>2. CASE ~ClosesBox(vote) /\ Won(vote)
  <2>1. /\ SettledBoxes(vote) = [box EXCEPT ![vote.slot].payed = @ + vote.stake]
        /\ BoxOf(vote) = box[vote.slot] /\ BoxOf(vote) \in CompletedInfo
    BY <1>2, VoteKinds, BoxKinds DEF SettledBoxes, Won
  <2>2. CASE t = vote.slot
    <3>1. SettledBoxes(vote)[t] = [box[t] EXCEPT !.payed = @ + vote.stake]
      BY <1>0, <2>1, <2>2
    <3>2. SettledBoxes(vote)[t].kind = "history"
      BY <2>1, <2>2, <3>1 DEF CompletedInfo
    <3> QED BY <3>2 DEF IsRequest
  <2>3. CASE t # vote.slot
    <3>1. SettledBoxes(vote)[t] = box[t]
      BY <1>0, <2>1, <2>3
    <3> QED BY <3>1 DEF KeptFor, SameRequest
  <2> QED BY <2>2, <2>3
<1>3. CASE ~ClosesBox(vote) /\ ~Won(vote) /\ Lapsed(vote)
  <2>1. /\ SettledBoxes(vote) = [box EXCEPT
             ![vote.slot].fee = @ - VoteRefund(vote),
             ![vote.slot].refunded = @ + vote.count]
        /\ BoxOf(vote) = box[vote.slot] /\ BoxOf(vote) \in RequestInfo
    BY <1>3, VoteKinds, BoxKinds DEF SettledBoxes, Lapsed, ReadAsRequest
  <2>2. CASE t = vote.slot
    <3>1. SettledBoxes(vote)[t] =
             [box[t] EXCEPT !.fee = @ - VoteRefund(vote), !.refunded = @ + vote.count]
      BY <1>0, <2>1, <2>2
    <3> QED BY <2>1, <2>2, <3>1 DEF RequestInfo, KeptFor, SameRequest, IsRequest
  <2>3. CASE t # vote.slot
    <3>1. SettledBoxes(vote)[t] = box[t]
      BY <1>0, <2>1, <2>3
    <3> QED BY <3>1 DEF KeptFor, SameRequest
  <2> QED BY <2>2, <2>3
<1>4. CASE ~ClosesBox(vote) /\ ~Won(vote) /\ ~Lapsed(vote)
  BY <1>4 DEF SettledBoxes, KeptFor, SameRequest
<1> QED BY <1>1, <1>2, <1>3, <1>4

\* A group that neither makes a request nor votes only takes away
Shrinks ==
    /\ \A t \in Slot : IsRequest(box'[t]) => KeptFor(box[t], box'[t])
    /\ \A v \in VotingApp, h \in VoteHash : proposal'[v][h] \in {NoProposal, proposal[v][h]}
    /\ UNCHANGED <<lastId, current, lease, now, settings, optedIn, stakeVars, keyVars>>

LEMMA SettlingShrinks ==
    ASSUME VotingTypeOK, NEW v \in VotingApp,
           \/ DeployVotingContract(v)
           \/ \E h \in VoteHash : DeleteBox(v, h)
           \/ \E a \in Voter : RegisterVoter(v, a)
           \/ \E a \in Voter : DeregisterVoter(v, a)
           \/ \E a \in Voter, payee \in Account : ClaimRewards(v, a, payee)
    PROVE  Shrinks
<1> USE DEF accountVars, ledgerVars, KeptFor, SameRequest
<1>1. CASE DeployVotingContract(v) \/ \E a \in Voter : RegisterVoter(v, a)
  BY <1>1 DEF DeployVotingContract, RegisterVoter, Shrinks
<1>2. ASSUME NEW h \in VoteHash, DeleteBox(v, h) PROVE Shrinks
  <2>1. \A w \in VotingApp, g \in VoteHash : proposal'[w][g] \in {NoProposal, proposal[w][g]}
    BY <1>2 DEF DeleteBox, VotingTypeOK
  <2> QED BY <1>2, <2>1 DEF DeleteBox, Shrinks
<1>3. ASSUME NEW a \in Voter, DeregisterVoter(v, a) PROVE Shrinks
  <2>1. \A w \in VotingApp, g \in VoteHash : proposal'[w][g] \in {NoProposal, proposal[w][g]}
    BY <1>3 DEF DeregisterVoter, WithoutProposalOf, VotingTypeOK
  <2> QED BY <1>3, <2>1 DEF DeregisterVoter, Shrinks
<1>4. ASSUME NEW a \in Voter, NEW payee \in Account, ClaimRewards(v, a, payee) PROVE Shrinks
  <2>1. history[v][a] \in Votes /\ box' = SettledBoxes(history[v][a])
    BY <1>4 DEF ClaimRewards, Registered, VotingTypeOK
  <2>2. \A t \in Slot : IsRequest(box'[t]) => KeptFor(box[t], box'[t])
    BY <2>1, SettlementKeeps
  <2> QED BY <1>4, <2>2 DEF ClaimRewards, Shrinks
<1> QED BY <1>1, <1>2, <1>3, <1>4

LEMMA RefundShrinks ==
    ASSUME VotingTypeOK, NEW s \in Slot, NEW r \in Account, RefundRequest(s, r), UNCHANGED votingVars
    PROVE  Shrinks
<1>0. box \in [Slot -> Boxes] /\ ~IsRequest(NoBox) /\ IsRequest(box[s]) /\ box[s] \in RequestInfo
  BY BoxKinds DEF VotingTypeOK, Boxes, IsRequest, NoBox, None, RefundRequest, ReadAsRequest
<1>1. \A t \in Slot : IsRequest(box'[t]) => KeptFor(box[t], box'[t])
  <2>1. CASE RefundUnproposed(s, r)
    BY <1>0, <2>1 DEF RefundUnproposed, KeptFor, SameRequest
  <2>2. CASE RefundProposed(s, r)
    <3>1. box' = [box EXCEPT ![s] = [box[s] EXCEPT !.status = "refunded"]]
      BY <1>0, <2>2 DEF RefundProposed, MarkedRefunded
    <3>2. KeptFor(box[s], [box[s] EXCEPT !.status = "refunded"])
      BY <1>0 DEF KeptFor, SameRequest, RequestInfo
    <3> QED BY <1>0, <3>1, <3>2 DEF KeptFor, SameRequest
  <2> QED BY <2>1, <2>2 DEF RefundRequest
<1> QED BY <1>1 DEF RefundRequest, votingVars, Shrinks

\* What the ledger invariant needs to know of a vote
LEMMA VoteOnRequest ==
    ASSUME VotingTypeOK, LedgerInv, NEW v \in VotingApp, NEW a \in Voter, NEW s \in Slot,
           NEW answer \in Answer, NEW count \in VoteCount, Vote(v, a, s, answer, count)
    PROVE  /\ IsRequest(box[s]) /\ box[s].app \in {None, v}
           /\ About(v, a, s).id = box[s].id /\ About(v, a, s).round = box[s].round
           /\ Asked(v, a, s).id = box[s].id /\ Asked(v, a, s).app = box[s].app
           /\ HashOf(v, a, s, answer).id = box[s].id
           /\ box[s].id \in RequestId /\ box[s].round \in Nat
           /\ \A t \in Slot : IsRequest(box'[t]) =>
                 /\ SameRequest(box[t], box'[t])
                 /\ box'[t].app = IF t = s THEN v ELSE box[t].app
<1> DEFINE req == Asked(v, a, s)
           prev == Before(v, a)
           nb == NewBox(v, a, s, answer, count)
<1>0. VoteAllowed(v, a, s, answer, count) /\ VoteCounts(v, a, s, answer, count)
  BY VoteUnfolds
<1>1. /\ prev \in Votes /\ req \in RequestInfo /\ req = SettledBoxes(prev)[s]
      /\ SettledBoxes(prev) \in [Slot -> Boxes] /\ IsRequest(req)
  BY <1>0, VoteTyped, SettledBoxesTyped DEF Asked, RequestAt, VoteAllowed, ReadAsRequest
<1>2. IsRequest(box[s]) /\ KeptFor(box[s], req)
  BY <1>1, SettlementKeeps DEF KeptFor, SameRequest
<1>3. req.id \in RequestId /\ req.round \in Nat /\ req.id # 0
  BY <1>1, RequestAssumption DEF RequestInfo, RequestId
<1> DEFINE Facts ==
      /\ req.app \in {None, v}
      /\ About(v, a, s).id = req.id /\ About(v, a, s).round = req.round
      /\ IsRequest(nb) => SameRequest(req, nb) /\ nb.app = v
<1>4. ASSUME StartsRound(v, req) PROVE Facts
  <2>1. About(v, a, s).id = req.id /\ About(v, a, s).round = req.round
    BY <1>4 DEF About, Subject
  <2>2. req.app \in {None, v}
    BY <1>0, <1>4 DEF VoteAllowed, MayStartRound
  <2>3. IsRequest(nb) => SameRequest(req, nb) /\ nb.app = v
    <3>1. CASE Decides(v, a, s, answer, count)
      <4>1. nb.kind = "history"
        BY <3>1 DEF NewBox, VotedBox, Decides
      <4> QED BY <4>1 DEF IsRequest
    <3>2. CASE ~Decides(v, a, s, answer, count)
      <4>1. nb = [req EXCEPT !.votes = @ + count, !.status = "processing", !.app = v]
        BY <1>4, <3>2 DEF NewBox, VotedBox, Decides
      <4> HIDE DEF req, nb
      <4> QED BY <1>1, <4>1 DEF SameRequest, RequestInfo
    <3> QED BY <3>1, <3>2
  <2> QED BY <2>1, <2>2, <2>3
<1>5. ASSUME ~StartsRound(v, req) PROVE Facts
  <2>1. About(v, a, s) = current[v] /\ current[v].id = req.id
    BY <1>5 DEF About, Subject, StartsRound
  <2>2. req.app = v
    BY <1>2, <2>1 DEF LedgerInv, OneContractPerRequest, KeptFor, SameRequest
  <2>3. About(v, a, s).id = req.id /\ About(v, a, s).round = req.round
    BY <1>2, <2>1 DEF LedgerInv, CurrentAgrees, KeptFor, SameRequest
  <2>4. IsRequest(nb) => SameRequest(req, nb) /\ nb.app = v
    <3>1. CASE Decides(v, a, s, answer, count)
      <4>1. nb.kind = "history"
        BY <3>1 DEF NewBox, VotedBox, Decides
      <4> QED BY <4>1 DEF IsRequest
    <3>2. CASE ~Decides(v, a, s, answer, count)
      <4>1. nb = [req EXCEPT !.votes = @ + count]
        BY <1>5, <3>2 DEF NewBox, VotedBox, Decides
      <4> HIDE DEF req, nb
      <4> QED BY <1>1, <2>2, <4>1 DEF SameRequest, RequestInfo
    <3> QED BY <3>1, <3>2
  <2> QED BY <2>2, <2>3, <2>4
<1>6. Facts
  BY <1>4, <1>5
<1>7. HashOf(v, a, s, answer).id = req.id
  BY DEF HashOf
<1>8. ASSUME NEW t \in Slot, IsRequest(box'[t])
      PROVE  /\ SameRequest(box[t], box'[t])
             /\ box'[t].app = IF t = s THEN v ELSE box[t].app
  <2>1. box' = [SettledBoxes(prev) EXCEPT ![s] = nb]
    BY <1>0 DEF VoteCounts
  <2>2. CASE t = s
    <3>1. box'[t] = nb
      BY <1>1, <2>1, <2>2
    <3> QED BY <1>2, <1>6, <1>8, <2>2, <3>1 DEF KeptFor, SameRequest
  <2>3. CASE t # s
    <3>1. box'[t] = SettledBoxes(prev)[t]
      BY <1>1, <2>1, <2>3
    <3>2. KeptFor(box[t], box'[t])
      BY <1>1, <1>8, <3>1, SettlementKeeps
    <3> QED BY <2>3, <3>2 DEF KeptFor
  <2> QED BY <2>2, <2>3
<1> HIDE DEF req
<1> QED BY <1>2, <1>3, <1>6, <1>7, <1>8 DEF KeptFor, SameRequest, req

\* Rounds only pass
LEMMA RoundsPass ==
    ASSUME TypeOK, [Next]_accountVars
    PROVE  now \in Nat /\ now' \in Nat /\ now <= now'
<1>1. now \in Nat /\ now' \in {now, now + 1}
  BY DEF TypeOK, Next, AccountStep, NextRound, OptIn, ClearState, Subscribe, UnregisterKey,
         RegisterKey, Stake, Unstake, WithdrawToken, WithdrawAlgo, DepositToken, DepositAlgo,
         UpdateProtocolSettings, accountVars
<1> QED BY <1>1

LEMMA IdsTyped ==
    ASSUME VotingTypeOK
    PROVE  /\ lastId \in Nat /\ now \in Nat
           /\ \A s \in Slot : IsRequest(box[s]) =>
                 /\ box[s].id \in Nat /\ box[s].id > 0 /\ box[s].id \in RequestId
                 /\ box[s].round \in Nat
           /\ \A v \in VotingApp : current[v].id \in Nat
<1>1. \A s \in Slot : IsRequest(box[s]) => box[s] \in RequestInfo
  BY BoxKinds DEF VotingTypeOK, Boxes
<1>2. \A id \in RequestId : id \in Nat /\ id > 0
  BY RequestAssumption DEF RequestId
<1>3. \A v \in VotingApp : current[v].id \in Nat
  BY <1>2 DEF VotingTypeOK, NoRequest
<1> QED BY <1>1, <1>2, <1>3, RequestAssumption DEF RequestInfo, VotingTypeOK, TypeOK

LEMMA LedgerWaits ==
    ASSUME VotingTypeOK, LedgerInv, [Next]_accountVars, UNCHANGED <<ledgerVars, votingVars>>
    PROVE  LedgerInv'
<1>1. now \in Nat /\ now' \in Nat /\ now <= now'
  BY RoundsPass DEF VotingTypeOK
<1>2. UNCHANGED <<box, lastId, current, proposal, lease>>
  BY DEF ledgerVars, votingVars
<1>3. OpenRequests' /\ LeasesHeld'
  BY <1>1, <1>2, IdsTyped DEF LedgerInv, OpenRequests, LeasesHeld
<1> QED BY <1>1, <1>2, <1>3 DEF LedgerInv, DistinctIds, KnownRequests, OneContractPerRequest,
                               CurrentAgrees, ProposalsFor

LEMMA LedgerShrinks == ASSUME LedgerInv, Shrinks PROVE LedgerInv'
<1>1. \A t \in Slot : IsRequest(box'[t]) =>
         /\ IsRequest(box[t]) /\ box'[t].id = box[t].id /\ box'[t].round = box[t].round
         /\ box'[t].app = box[t].app
  BY DEF Shrinks, KeptFor, SameRequest
<1>2. \A v \in VotingApp, h \in VoteHash : proposal'[v][h] # NoProposal => proposal[v][h] # NoProposal
  BY DEF Shrinks
<1>3. UNCHANGED <<lastId, current, lease, now>>
  BY DEF Shrinks
<1>4. OpenRequests' /\ DistinctIds' /\ KnownRequests'
  BY <1>1, <1>2, <1>3 DEF LedgerInv, OpenRequests, DistinctIds, KnownRequests
<1>5. OneContractPerRequest' /\ CurrentAgrees' /\ LeasesHeld'
  BY <1>1, <1>2, <1>3
     DEF LedgerInv, OneContractPerRequest, CurrentAgrees, LeasesHeld, ProposalsFor
<1> QED BY <1>3, <1>4, <1>5 DEF LedgerInv

\* A new request is one that no contract has heard of
LEMMA MadeBox ==
    ASSUME VotingTypeOK, NEW s \in Slot, MakeRequest(s[1], s[2])
    PROVE  /\ IsRequest(box'[s]) /\ box'[s].id = lastId + 1 /\ box'[s].round = now
           /\ box'[s].total = StakeAt(totalStake, now) /\ lastId' = lastId + 1
           /\ box'[s].status = "request_made"
           /\ \A t \in Slot \ {s} : box'[t] = box[t]
           /\ box[s] = NoBox
<1>1. s = <<s[1], s[2]>> /\ box \in [Slot -> Boxes]
  BY DEF Slot, VotingTypeOK, Boxes
<1> QED BY <1>1 DEF MakeRequest, IsRequest

LEMMA LedgerMakes ==
    ASSUME VotingTypeOK, LedgerInv, NEW s \in Slot, MakeRequest(s[1], s[2]), UNCHANGED votingVars
    PROVE  LedgerInv'
<1>1. /\ IsRequest(box'[s]) /\ box'[s].id = lastId + 1 /\ box'[s].round = now
      /\ lastId' = lastId + 1 /\ \A t \in Slot \ {s} : box'[t] = box[t]
  BY MadeBox
<1>2. now' = now /\ UNCHANGED <<current, proposal, lease>>
  BY DEF MakeRequest, votingVars
<1>3. /\ lastId \in Nat /\ now \in Nat
      /\ \A t \in Slot : IsRequest(box[t]) => box[t].id \in Nat /\ box[t].round \in Nat
      /\ \A v \in VotingApp : current[v].id \in Nat
  BY IdsTyped
<1>4. \A h \in VoteHash : h.id \in Nat
  BY RequestAssumption DEF VoteHash, RequestId
<1>5. OpenRequests'
  BY <1>1, <1>2, <1>3 DEF LedgerInv, OpenRequests
<1>6. DistinctIds'
  BY <1>1, <1>3 DEF LedgerInv, OpenRequests, DistinctIds
<1>7. KnownRequests'
  BY <1>1, <1>2, <1>3, <1>4 DEF LedgerInv, KnownRequests
<1>8. OneContractPerRequest'
  <2> SUFFICES ASSUME NEW t \in Slot, NEW v \in VotingApp, IsRequest(box'[t]),
                      \/ current[v].id = box'[t].id
                      \/ \E h \in ProposalsFor(box'[t].id) : proposal[v][h] # NoProposal
               PROVE  box'[t].app = v
    BY <1>2 DEF OneContractPerRequest, ProposalsFor
  <2>1. t # s
    BY <1>1, <1>3, <1>4 DEF LedgerInv, KnownRequests, ProposalsFor
  <2> QED BY <1>1, <2>1 DEF LedgerInv, OneContractPerRequest
<1>9. CurrentAgrees'
  BY <1>1, <1>2, <1>3 DEF LedgerInv, KnownRequests, CurrentAgrees
<1>10. LeasesHeld'
  <2>1. lastId + 1 \in RequestId
    BY <1>3, RequestAssumption DEF MakeRequest, RequestId
  <2>2. \A k \in PublicKey : lease[k][lastId + 1] = 0
    BY <1>3, <2>1 DEF LedgerInv, LeasesHeld
  <2>3. \A k \in PublicKey, id \in RequestId : id > lastId + 1 => lease[k][id] = 0
    BY <1>3, RequestAssumption DEF LedgerInv, LeasesHeld, RequestId
  <2> QED BY <1>1, <1>2, <2>2, <2>3 DEF LedgerInv, LeasesHeld
<1> QED BY <1>2, <1>5, <1>6, <1>7, <1>8, <1>9, <1>10 DEF LedgerInv

LEMMA LedgerVotes ==
    ASSUME VotingTypeOK, LedgerInv, NEW v \in VotingApp, NEW a \in Voter, NEW s \in Slot,
           NEW answer \in Answer, NEW count \in VoteCount, Vote(v, a, s, answer, count)
    PROVE  LedgerInv'
<1> DEFINE g == HashOf(v, a, s, answer)
<1>0. VoteAllowed(v, a, s, answer, count) /\ VoteCounts(v, a, s, answer, count)
  BY VoteUnfolds
<1>1. /\ IsRequest(box[s]) /\ box[s].app \in {None, v} /\ g.id = box[s].id
      /\ About(v, a, s).id = box[s].id /\ About(v, a, s).round = box[s].round
      /\ Asked(v, a, s).id = box[s].id /\ box[s].id \in RequestId /\ box[s].round \in Nat
      /\ \A t \in Slot : IsRequest(box'[t]) =>
            /\ SameRequest(box[t], box'[t])
            /\ box'[t].app = IF t = s THEN v ELSE box[t].app
  BY VoteOnRequest
<1>2. UNCHANGED <<now, lastId>>
  BY <1>0 DEF VoteCounts
<1>3. /\ lastId \in Nat /\ now \in Nat
      /\ \A t \in Slot : IsRequest(box[t]) =>
            box[t].id \in Nat /\ box[t].id > 0 /\ box[t].round \in Nat
      /\ \A w \in VotingApp : current[w].id \in Nat
  BY IdsTyped
<1>4. g \in VoteHash /\ publicKey[a] \in PublicKey
  BY <1>0, VoteTyped
<1>5. /\ \A w \in VotingApp \ {v} : proposal'[w] = proposal[w] /\ current'[w] = current[w]
      /\ \A h \in VoteHash \ {g} : proposal'[v][h] # NoProposal => proposal[v][h] # NoProposal
      /\ current'[v] \in {NoRequest, About(v, a, s)}
  <2>1. proposal' = [proposal EXCEPT ![v] =
            [Others(v, a) EXCEPT ![g] = Tally(v, a, s, answer, count)]]
    BY <1>0 DEF VoteCounts
  <2>2. proposal'[v] = [Others(v, a) EXCEPT ![g] = Tally(v, a, s, answer, count)]
    BY <2>1 DEF VotingTypeOK
  <2>3. Others(v, a) = [h \in VoteHash |-> IF h = Before(v, a).hash THEN NoProposal
                                           ELSE proposal[v][h]]
    BY DEF Others, WithoutProposalOf
  <2>4. current' = [current EXCEPT ![v] =
          IF Decides(v, a, s, answer, count) THEN NoRequest ELSE About(v, a, s)]
    BY <1>0 DEF VoteCounts
  <2>5. \A h \in VoteHash \ {g} : proposal'[v][h] # NoProposal => proposal[v][h] # NoProposal
    <3> HIDE DEF g
    <3> QED BY <2>2, <2>3
  <2> QED BY <2>1, <2>4, <2>5 DEF VotingTypeOK
<1>6. /\ lease'[publicKey[a]][box[s].id] = box[s].round + settings.timeLock
      /\ \A k \in PublicKey, id \in RequestId :
            id # box[s].id => lease'[k][id] = lease[k][id]
      /\ \A k \in PublicKey, id \in RequestId :
            k # publicKey[a] => lease'[k][id] = lease[k][id]
  BY <1>0, <1>1, <1>4 DEF VoteCounts, VotingTypeOK
<1> HIDE DEF g
<1>7. OpenRequests' /\ DistinctIds'
  BY <1>1, <1>2, <1>3 DEF LedgerInv, OpenRequests, DistinctIds, SameRequest
<1>8. KnownRequests'
  <2>1. box[s].id <= lastId /\ 0 <= lastId
    BY <1>1, <1>3 DEF LedgerInv, OpenRequests
  <2>2. \A w \in VotingApp : current'[w].id <= lastId
    BY <1>1, <1>5, <2>1 DEF LedgerInv, KnownRequests, NoRequest
  <2>3. \A w \in VotingApp, h \in VoteHash : proposal'[w][h] # NoProposal => h.id <= lastId
    BY <1>1, <1>5, <2>1 DEF LedgerInv, KnownRequests
  <2> QED BY <1>2, <2>2, <2>3 DEF KnownRequests
<1>9. \A t \in Slot : IsRequest(box'[t]) /\ t # s => box[t].id # box[s].id
  BY <1>1 DEF LedgerInv, DistinctIds, SameRequest
<1>10. OneContractPerRequest'
  <2> SUFFICES ASSUME NEW t \in Slot, NEW w \in VotingApp, IsRequest(box'[t]),
                      \/ current'[w].id = box'[t].id
                      \/ \E h \in ProposalsFor(box'[t].id) : proposal'[w][h] # NoProposal
               PROVE  box'[t].app = w
    BY DEF OneContractPerRequest, ProposalsFor
  <2>1. IsRequest(box[t]) /\ box'[t].id = box[t].id
    BY <1>1 DEF SameRequest
  <2>2. CASE w # v
    <3>1. box[t].app = w
      BY <1>5, <2>1, <2>2 DEF LedgerInv, OneContractPerRequest
    <3>2. w # None
      BY RequestAssumption
    <3> QED BY <1>1, <2>2, <3>1, <3>2
  <2>3. CASE w = v /\ t # s
    <3>1. box[t].id # box[s].id
      BY <1>9, <2>3
    <3>2. current'[v].id = box[t].id => current[v].id = box[t].id
      BY <1>1, <1>3, <1>5, <2>1, <3>1 DEF NoRequest
    <3>3. \A h \in ProposalsFor(box[t].id) : h \in VoteHash \ {g}
      BY <1>1, <3>1 DEF ProposalsFor
    <3>4. current'[v].id # box[t].id
      BY <1>1, <1>3, <1>5, <2>1, <3>1 DEF NoRequest
    <3>5. PICK h \in ProposalsFor(box[t].id) : proposal'[v][h] # NoProposal
      BY <2>1, <2>3, <3>4
    <3>6. proposal[v][h] # NoProposal
      BY <1>5, <3>3, <3>5
    <3>7. box[t].app = v
      BY <2>1, <3>6 DEF LedgerInv, OneContractPerRequest
    <3> QED BY <1>1, <2>3, <3>7
  <2>4. CASE w = v /\ t = s
    BY <1>1, <2>4
  <2> QED BY <2>2, <2>3, <2>4
<1>11. CurrentAgrees'
  <2> SUFFICES ASSUME NEW t \in Slot, NEW w \in VotingApp, IsRequest(box'[t]),
                      current'[w].id = box'[t].id
               PROVE  current'[w].round = box'[t].round
    BY DEF CurrentAgrees
  <2>1. IsRequest(box[t]) /\ box'[t].id = box[t].id /\ box'[t].round = box[t].round
    BY <1>1 DEF SameRequest
  <2>2. CASE w # v
    BY <1>5, <2>1, <2>2 DEF LedgerInv, CurrentAgrees
  <2>3. CASE w = v
    <3>1. current'[v] = About(v, a, s)
      BY <1>3, <1>5, <2>1, <2>3 DEF NoRequest
    <3>2. t = s
      BY <1>1, <1>9, <2>1, <2>3, <3>1
    <3> QED BY <1>1, <2>1, <2>3, <3>1, <3>2
  <2> QED BY <2>2, <2>3
<1>12. LeasesHeld'
  <2>1. box[s].id <= lastId /\ box[s].round < now
    BY <1>0, <1>1 DEF LedgerInv, OpenRequests, VoteAllowed, LeaseGranted
  <2>2. \A id \in RequestId : id > lastId => id # box[s].id
    BY <1>3, <2>1, RequestAssumption DEF RequestId
  <2>3. \A k \in PublicKey, id \in RequestId : id > lastId' => lease'[k][id] = 0
    BY <1>2, <1>6, <2>2 DEF LedgerInv, LeasesHeld
  <2>4. ASSUME NEW t \in Slot, NEW k \in PublicKey, IsRequest(box'[t]),
               lease'[k][box'[t].id] # 0
        PROVE  box'[t].round < now
    <3>1. IsRequest(box[t]) /\ box'[t].id = box[t].id /\ box'[t].round = box[t].round
      BY <1>1, <2>4 DEF SameRequest
    <3>2. CASE t = s
      BY <2>1, <3>1, <3>2
    <3>3. CASE t # s
      <4>1. box[t].id # box[s].id /\ box[t].id \in RequestId
        BY <1>9, <2>4, <3>1, <3>3, IdsTyped
      <4>2. lease[k][box[t].id] # 0
        BY <1>6, <2>4, <3>1, <4>1
      <4> QED BY <3>1, <4>2 DEF LedgerInv, LeasesHeld
    <3> QED BY <3>2, <3>3
  <2> QED BY <1>2, <2>3, <2>4 DEF LeasesHeld
<1> QED BY <1>2, <1>7, <1>8, <1>10, <1>11, <1>12 DEF LedgerInv

LEMMA LedgerInit == VotingInit => LedgerInv
<1> SUFFICES ASSUME VotingInit PROVE LedgerInv
  OBVIOUS
<1>1. \A s \in Slot : ~IsRequest(box[s])
  BY DEF VotingInit, RequestsInit, NoBox, None, IsRequest
<1>2. /\ now = 1 /\ lastId = 0
      /\ \A v \in VotingApp : current[v].id = 0
      /\ \A v \in VotingApp, h \in VoteHash : proposal[v][h] = NoProposal
      /\ \A k \in PublicKey, id \in RequestId : lease[k][id] = 0
  BY DEF VotingInit, RequestsInit, Init, NoRequest
<1> QED BY <1>1, <1>2 DEF LedgerInv, OpenRequests, DistinctIds, KnownRequests,
                         OneContractPerRequest, CurrentAgrees, LeasesHeld

LEMMA LedgerStep == VotingTypeOK /\ LedgerInv /\ [VotingNext]_vars => LedgerInv'
<1> SUFFICES ASSUME VotingTypeOK, LedgerInv, [VotingNext]_vars PROVE LedgerInv'
  OBVIOUS
<1>1. CASE [Next]_accountVars /\ UNCHANGED <<ledgerVars, votingVars>>
  BY <1>1, LedgerWaits
<1>2. ASSUME NEW s \in Slot, NEW r \in Account,
             MakeRequest(s[1], s[2]) \/ RefundRequest(s, r), UNCHANGED votingVars
      PROVE  LedgerInv'
  BY <1>2, LedgerMakes, RefundShrinks, LedgerShrinks
<1>3. ASSUME NEW v \in VotingApp, NEW a \in Voter, NEW s \in Slot,
             NEW answer \in Answer, NEW count \in VoteCount, Vote(v, a, s, answer, count)
      PROVE  LedgerInv'
  BY <1>3, LedgerVotes
<1>4. CASE Shrinks
  BY <1>4, LedgerShrinks
<1> QED
  BY <1>1, <1>2, <1>3, <1>4, VotingSteps, SettlingShrinks

\* A request is voted on by the one contract its box names, for any number of
\* requests that are open at once, any number of contracts and any order of
\* rounds: no second contract holds a proposal for it or is voting on it.
THEOREM OneContract == VotingSpec => []OneContractPerRequest
<1>1. LedgerInv => OneContractPerRequest
  BY DEF LedgerInv
<1> QED BY <1>1, LedgerInit, LedgerStep, VotingTypeCorrect, PTL DEF VotingSpec

-----------------------------------------------------------------------------
(* No stake votes twice *)

\* TallyWithinStake is not inductive: it does not say who may still vote.  An
\* account's stake is spent on a request when its key holds the lease of the
\* request, and a key that is newer than the request cannot vote on it in time;
\* what the proposals have and what is not spent stay within the total.
Spent(a, s) ==
    \/ /\ publicKey[a] # ZeroAddress
       /\ lease[publicKey[a]][box[s].id] >= box[s].round + settings.timeLock
    \/ keyTimestamp[a] > box[s].round

Remaining(s) ==
    [a \in Account |->
        IF Readable(stakeArray[a], box[s].round) /\ ~Spent(a, s)
        THEN StakeAt(stakeArray[a], box[s].round) ELSE 0]

Stakes(v) == [h \in VoteHash |-> proposal[v][h].stake]
Cast(v, id) == SumOver(Stakes(v), ProposalsFor(id))

KeysPast == \A a \in Account : keyTimestamp[a] <= now

TallyInv ==
    \A s \in Slot, v \in VotingApp :
       IsRequest(box[s]) =>
          Cast(v, box[s].id) + SumOver(Remaining(s), optedIn) <= box[s].total

LEMMA HashesFinite ==
    /\ IsFiniteSet(VoteHash)
    /\ \A id : IsFiniteSet(ProposalsFor(id)) /\ ProposalsFor(id) \subseteq VoteHash
<1>1. IsFiniteSet(RequestId)
  BY FS_Interval, RequestAssumption DEF RequestId
<1>2. IsFiniteSet(RequestId \X Answer)
  BY <1>1, FS_Product, RequestAssumption
<1> DEFINE f == [p \in RequestId \X Answer |-> [id |-> p[1], answer |-> p[2]]]
<1>3. f \in Surjection(RequestId \X Answer, VoteHash)
  <2>1. ASSUME NEW h \in VoteHash PROVE \E p \in RequestId \X Answer : f[p] = h
    <3>1. h.id \in RequestId /\ h.answer \in Answer /\ h = [id |-> h.id, answer |-> h.answer]
      BY DEF VoteHash
    <3>2. <<h.id, h.answer>> \in RequestId \X Answer /\ f[<<h.id, h.answer>>] = h
      BY <3>1
    <3> QED BY <3>2
  <2>2. f \in [RequestId \X Answer -> VoteHash]
    BY DEF VoteHash
  <2> QED BY <2>1, <2>2 DEF Surjection
<1>4. IsFiniteSet(VoteHash)
  <2> HIDE DEF f
  <2> QED BY <1>2, <1>3, FS_Surjection
<1> QED BY <1>4, FS_Subset DEF ProposalsFor

\* The sums are of naturals
LEMMA StakesNat ==
    ASSUME VotingTypeOK, NEW v \in VotingApp
    PROVE  /\ \A h \in VoteHash : Stakes(v)[h] \in Nat
           /\ \A id : Cast(v, id) \in Nat
<1>1. \A h \in VoteHash : proposal[v][h] \in {NoProposal} \cup Proposals
  BY DEF VotingTypeOK
<1>2. \A p \in {NoProposal} \cup Proposals : p.stake \in Nat
  BY DEF NoProposal, Proposals
<1>3. \A h \in VoteHash : Stakes(v)[h] \in Nat
  BY <1>1, <1>2 DEF Stakes
<1> HIDE DEF Stakes
<1>4. ASSUME NEW id PROVE Cast(v, id) \in Nat
  BY <1>3, HashesFinite, SumNat DEF Cast
<1> QED BY <1>3, <1>4

LEMMA RemainingNat ==
    ASSUME VotingTypeOK, NEW s \in Slot, IsRequest(box[s])
    PROVE  /\ \A a \in Account : Remaining(s)[a] \in Nat
           /\ IsFiniteSet(optedIn) /\ optedIn \subseteq Account
           /\ SumOver(Remaining(s), optedIn) \in Nat
<1>1. \A a \in Account : StakeAt(stakeArray[a], box[s].round) \in Nat
  BY DEF VotingTypeOK, TypeOK, StakeArrays, StakeEntries, StakeAt
<1>2. \A a \in Account : Remaining(s)[a] \in Nat
  BY <1>1 DEF Remaining
<1>3. IsFiniteSet(optedIn) /\ optedIn \subseteq Account
  BY AccountAssumption, FS_Subset DEF VotingTypeOK, TypeOK
<1> HIDE DEF Remaining
<1> QED BY <1>2, <1>3, SumNat

TallyType ==
    /\ \A v \in VotingApp : \A h \in VoteHash : Stakes(v)[h] \in Nat
    /\ \A s \in Slot : IsRequest(box[s]) => \A a \in Account : Remaining(s)[a] \in Nat
    /\ IsFiniteSet(optedIn) /\ optedIn \subseteq Account

LEMMA TallyTyped == VotingTypeOK => TallyType
<1>1. VotingTypeOK => IsFiniteSet(optedIn) /\ optedIn \subseteq Account
  BY AccountAssumption, FS_Subset DEF VotingTypeOK, TypeOK
<1> QED BY <1>1, StakesNat, RemainingNat DEF TallyType

LEMMA TallyTypedNext == VotingTypeOK' => TallyType'
BY TallyTyped, PTL

\* Whatever the accounts do, none of them gains a stake for a request
LEMMA AccountsGainNothing ==
    ASSUME VotingTypeOK, LedgerInv, KeysPast, [Next]_accountVars,
           UNCHANGED <<box, lease>>, settings'.timeLock = settings.timeLock,
           NEW s \in Slot, IsRequest(box[s])
    PROVE  /\ \A a \in optedIn' \cap optedIn : Remaining(s)'[a] <= Remaining(s)[a]
           /\ \A a \in optedIn' \ optedIn : Remaining(s)'[a] = 0
<1> DEFINE r == box[s].round
           tl == settings.timeLock
           id == box[s].id
<1>0. /\ r \in Nat /\ now \in Nat /\ r <= now /\ now >= 1 /\ tl \in Nat /\ id \in RequestId
      /\ \A a \in Account : stakeArray[a] \in StakeArrays
      /\ \A a \in Account : keyTimestamp[a] \in Nat /\ keyTimestamp[a] <= now
      /\ optedIn \subseteq Account
  BY IdsTyped, FeesTyped DEF VotingTypeOK, TypeOK, LedgerInv, OpenRequests, KeysPast
<1>1. \A a \in Account : Remaining(s)[a] \in Nat
  BY RemainingNat
<1>2. /\ \A a \in Account : Remaining(s)[a] =
            IF /\ Readable(stakeArray[a], r)
               /\ ~(publicKey[a] # ZeroAddress /\ lease[publicKey[a]][id] >= r + tl)
               /\ ~(keyTimestamp[a] > r)
            THEN StakeAt(stakeArray[a], r) ELSE 0
      /\ \A a \in Account : Remaining(s)'[a] =
            IF /\ Readable(stakeArray'[a], r)
               /\ ~(publicKey'[a] # ZeroAddress /\ lease[publicKey'[a]][id] >= r + tl)
               /\ ~(keyTimestamp'[a] > r)
            THEN StakeAt(stakeArray'[a], r) ELSE 0
  BY DEF Remaining, Spent
<1>3. \A a \in Account : UNCHANGED <<stakeArray[a], publicKey[a], keyTimestamp[a]>>
                             => Remaining(s)'[a] = Remaining(s)[a]
  BY <1>2
<1> HIDE DEF r, tl, id
<1>4. CASE UNCHANGED <<optedIn, stakeArray, publicKey, keyTimestamp>>
  <2>1. optedIn' = optedIn
    BY <1>4
  <2> QED BY <1>0, <1>1, <1>3, <1>4, <2>1
<1>5. ASSUME NEW b \in Account, NEW ls \in Nat, NEW gs \in Nat, ChangeStake(b, ls, gs),
             UNCHANGED <<optedIn, publicKey, keyTimestamp>>
      PROVE  \A a \in optedIn : Remaining(s)'[a] <= Remaining(s)[a]
  <2>1. TypeOK /\ r \in 0..now
    BY <1>0 DEF VotingTypeOK
  <2>2. \A a \in Account : Readable(stakeArray'[a], r) =>
              StakeAt(stakeArray'[a], r) = StakeAt(stakeArray[a], r)
    BY <1>5, <2>1, ChangeStakeFrozen
  <2>3. ASSUME NEW a \in Account, Readable(stakeArray'[a], r) PROVE Readable(stakeArray[a], r)
    <3>1. CASE a = b
      <4>1. /\ stakeArray'[a] = Updated(stakeArray[a], now, ls)
            /\ stakeArray[a].cur.round <= now
        BY <1>5, <2>1, <3>1 DEF ChangeStake, TypeOK, Updatable
      <4>2. stakeArray'[a].cur.round = now
        BY <4>1 DEF Updated, Entry
      <4>3. r = now
        BY <1>0, <2>3, <4>2 DEF Readable
      <4> QED BY <4>1, <4>3 DEF Readable
    <3>2. CASE a # b
      <4>1. stakeArray'[a] = stakeArray[a]
        BY <1>5, <2>1, <3>2 DEF ChangeStake, TypeOK
      <4> QED BY <2>3, <4>1
    <3> QED BY <3>1, <3>2
  <2>4. \A a \in Account : Remaining(s)'[a] = Remaining(s)[a] \/ Remaining(s)'[a] = 0
    BY <1>2, <1>5, <2>2, <2>3
  <2> QED BY <1>0, <1>1, <2>4
<1>6. ASSUME NEW b \in Account, OptIn(b)
      PROVE  /\ \A a \in optedIn : Remaining(s)'[a] <= Remaining(s)[a]
             /\ optedIn' = optedIn \cup {b} /\ Remaining(s)'[b] = 0
  <2>1. stakeArray'[b] = InitArray(now, 0)
    BY <1>6 DEF OptIn, VotingTypeOK, TypeOK
  <2>2. StakeAt(stakeArray'[b], r) = 0
    BY <1>0, <2>1 DEF InitArray, Entry, StakeAt
  <2>3. \A a \in optedIn : UNCHANGED <<stakeArray[a], publicKey[a], keyTimestamp[a]>>
    BY <1>0, <1>6 DEF OptIn, keyVars, VotingTypeOK, TypeOK
  <2>4. Remaining(s)'[b] = 0
    BY <1>2, <2>2
  <2> QED BY <1>0, <1>1, <1>3, <1>6, <2>3, <2>4 DEF OptIn
<1>7. ASSUME NEW b \in Account, ClearState(b)
      PROVE  /\ \A a \in optedIn' : Remaining(s)'[a] <= Remaining(s)[a]
             /\ optedIn' \subseteq optedIn
  <2>1. \A a \in optedIn' : UNCHANGED <<stakeArray[a], publicKey[a], keyTimestamp[a]>>
    BY <1>0, <1>7 DEF ClearState, VotingTypeOK, TypeOK
  <2> QED BY <1>0, <1>1, <1>3, <1>7, <2>1 DEF ClearState
<1>8. ASSUME NEW b \in Account, NEW k \in PublicKey \cup {ZeroAddress},
             publicKey' = [publicKey EXCEPT ![b] = k],
             keyTimestamp' = [keyTimestamp EXCEPT ![b] = now],
             UNCHANGED <<optedIn, stakeArray>>
      PROVE  \A a \in optedIn : Remaining(s)'[a] <= Remaining(s)[a]
  <2>1. \A a \in Account \ {b} : UNCHANGED <<stakeArray[a], publicKey[a], keyTimestamp[a]>>
    BY <1>8 DEF VotingTypeOK, TypeOK
  <2>2. keyTimestamp'[b] = now /\ stakeArray'[b] = stakeArray[b]
    BY <1>8 DEF VotingTypeOK, TypeOK
  <2>3. CASE r < now
    <3>1. Remaining(s)'[b] = 0
      BY <1>0, <1>2, <2>2, <2>3
    <3> QED BY <1>0, <1>1, <1>3, <2>1, <3>1
  <2>4. CASE r = now
    <3>1. \A j \in PublicKey : lease[j][id] = 0
      BY <1>0, <2>4 DEF LedgerInv, LeasesHeld, r, id
    <3>2. publicKey[b] \in PublicKey \cup {ZeroAddress}
      BY DEF VotingTypeOK, TypeOK
    <3>3. ~(publicKey[b] # ZeroAddress /\ lease[publicKey[b]][id] >= r + tl)
      BY <1>0, <2>4, <3>1, <3>2
    <3>4. ~(keyTimestamp[b] > r)
      BY <1>0, <2>4
    <3>5. /\ StakeAt(stakeArray[b], r) \in Nat
          /\ Remaining(s)[b] = IF Readable(stakeArray[b], r) THEN StakeAt(stakeArray[b], r) ELSE 0
      BY <1>0, <1>2, <3>3, <3>4 DEF StakeArrays, StakeEntries, StakeAt
    <3>6. Remaining(s)'[b] \in {0, Remaining(s)[b]}
      BY <1>2, <2>2, <3>5
    <3> QED BY <1>0, <1>1, <1>3, <2>1, <3>6
  <2> QED BY <1>0, <2>3, <2>4
<1>9. ASSUME NEW b \in Account, NEW amount \in StakeAmount, Stake(b, amount) \/ Unstake(b, amount)
      PROVE  \E ls \in Nat, gs \in Nat :
                ChangeStake(b, ls, gs) /\ UNCHANGED <<optedIn, publicKey, keyTimestamp>>
  <2>1. /\ amount \in Nat
        /\ stakeArray[b].cur.stake \in Nat /\ totalStake.cur.stake \in Nat
    BY AmountAssumption DEF VotingTypeOK, TypeOK, StakeArrays, StakeEntries
  <2> QED BY <1>9, <2>1 DEF Stake, Unstake, keyVars
<1>10. \/ UNCHANGED <<optedIn, stakeArray, publicKey, keyTimestamp>>
       \/ \E b \in Account, amount \in StakeAmount : Stake(b, amount) \/ Unstake(b, amount)
       \/ \E b \in Account : OptIn(b) \/ ClearState(b)
       \/ \E b \in Account, k \in PublicKey \cup {ZeroAddress} :
             /\ publicKey' = [publicKey EXCEPT ![b] = k]
             /\ keyTimestamp' = [keyTimestamp EXCEPT ![b] = now]
             /\ UNCHANGED <<optedIn, stakeArray>>
  BY DEF Next, AccountStep, NextRound, Subscribe, UnregisterKey, RegisterKey, WithdrawToken,
         WithdrawAlgo, DepositToken, DepositAlgo, UpdateProtocolSettings, stakeVars, keyVars,
         accountVars
<1> QED
  <2>1. ASSUME NEW b \in Account, NEW amount \in StakeAmount, Stake(b, amount) \/ Unstake(b, amount)
        PROVE  optedIn' = optedIn /\ \A a \in optedIn : Remaining(s)'[a] <= Remaining(s)[a]
    BY <1>5, <1>9, <2>1
  <2> QED BY <1>4, <1>6, <1>7, <1>8, <1>10, <2>1

LEMMA AccountsKeepTally ==
    ASSUME VotingTypeOK, VotingTypeOK', LedgerInv, KeysPast, TallyInv, [Next]_accountVars,
           UNCHANGED <<ledgerVars, votingVars>>, settings'.timeLock = settings.timeLock
    PROVE  TallyInv'
<1>1. UNCHANGED <<box, lease, proposal>>
  BY DEF ledgerVars, votingVars
<1> SUFFICES ASSUME NEW s \in Slot, NEW v \in VotingApp, IsRequest(box[s])
             PROVE  Cast(v, box[s].id) + SumOver(Remaining(s)', optedIn') <= box[s].total
  BY <1>1 DEF TallyInv, Cast, Stakes, ProposalsFor
<1> DEFINE f == Remaining(s)
           g == Remaining(s)'
           c == Cast(v, box[s].id)
<1>2. /\ \A a \in optedIn' \cap optedIn : g[a] <= f[a]
      /\ \A a \in optedIn' \ optedIn : g[a] = 0
  BY <1>1, AccountsGainNothing
<1>3. /\ \A a \in optedIn : f[a] \in Nat
      /\ \A a \in optedIn' : g[a] \in Nat
      /\ IsFiniteSet(optedIn) /\ IsFiniteSet(optedIn') /\ c \in Nat
      /\ SumOver(f, optedIn) \in Nat
  BY <1>1, TallyTyped, TallyTypedNext, StakesNat, RemainingNat DEF TallyType
<1>4. c + SumOver(f, optedIn) <= box[s].total /\ box[s].total \in Nat
  BY BoxKinds DEF TallyInv, VotingTypeOK, Boxes, RequestInfo
<1> HIDE DEF f, g, c
<1>5. SumOver(g, optedIn') <= SumOver(f, optedIn)
  BY <1>2, <1>3, SumFalls
<1>6. SumOver(g, optedIn') \in Nat
  BY <1>3, SumNat
<1>7. c + SumOver(g, optedIn') <= box[s].total
  BY <1>3, <1>4, <1>5, <1>6
<1> QED BY <1>7 DEF c, g

\* What only takes away leaves no proposal with more
LEMMA ShrinkingCast ==
    ASSUME VotingTypeOK, VotingTypeOK', Shrinks, NEW v \in VotingApp, NEW id
    PROVE  SumOver(Stakes(v)', ProposalsFor(id)) <= Cast(v, id)
<1> DEFINE f == Stakes(v)
           g == Stakes(v)'
<1>1. \A h \in VoteHash : f[h] \in Nat /\ g[h] \in Nat
  BY TallyTyped, TallyTypedNext DEF TallyType
<1>2. \A h \in VoteHash : proposal'[v][h].stake = 0 \/ proposal'[v][h].stake = proposal[v][h].stake
  BY DEF Shrinks, NoProposal
<1>3. \A h \in VoteHash : g[h] <= f[h]
  BY <1>1, <1>2 DEF Stakes
<1> HIDE DEF f, g
<1>4. SumOver(g, ProposalsFor(id)) <= SumOver(f, ProposalsFor(id))
  BY <1>1, <1>3, HashesFinite, SumLeq
<1> QED BY <1>4 DEF f, g, Cast

LEMMA ShrinkingKeepsTally ==
    ASSUME VotingTypeOK, VotingTypeOK', Shrinks, TallyInv
    PROVE  TallyInv'
<1>1. UNCHANGED <<lease, now, settings, optedIn, stakeArray, publicKey, keyTimestamp>>
  BY DEF Shrinks, stakeVars, keyVars
<1> SUFFICES ASSUME NEW s \in Slot, NEW v \in VotingApp, IsRequest(box'[s])
             PROVE  Cast(v, box[s].id)' + SumOver(Remaining(s)', optedIn') <= box'[s].total
  BY DEF TallyInv
<1>2. /\ IsRequest(box[s]) /\ box'[s].id = box[s].id /\ box'[s].round = box[s].round
      /\ box'[s].total = box[s].total
  BY DEF Shrinks, KeptFor, SameRequest
<1>3. Remaining(s)' = Remaining(s)
  BY <1>1, <1>2 DEF Remaining, Spent
<1> DEFINE c == Cast(v, box[s].id)
           d == SumOver(Stakes(v)', ProposalsFor(box[s].id))
           r == SumOver(Remaining(s), optedIn)
<1>4. Cast(v, box[s].id)' = d
  BY <1>2 DEF Cast, ProposalsFor
<1>5. d <= c
  BY ShrinkingCast
<1>6. c \in Nat /\ r \in Nat /\ d \in Nat
  <2>1. \A h \in VoteHash : Stakes(v)'[h] \in Nat
    BY TallyTypedNext DEF TallyType
  <2>2. d \in Nat
    <3> HIDE DEF Stakes
    <3> QED BY <2>1, HashesFinite, SumNat
  <2> QED BY <1>2, <2>2, StakesNat, RemainingNat
<1>7. c + r <= box[s].total /\ box[s].total \in Nat
  BY <1>2, BoxKinds DEF TallyInv, VotingTypeOK, Boxes, RequestInfo
<1> HIDE DEF c, d, r
<1>8. d + r <= box[s].total
  BY <1>5, <1>6, <1>7
<1> QED BY <1>1, <1>2, <1>3, <1>4, <1>8 DEF r

\* A new request has no votes, and all stakes can still be cast
LEMMA MakingKeepsTally ==
    ASSUME VotingTypeOK, VotingTypeOK', LedgerInv, StakesInv, TallyInv,
           NEW t \in Slot, MakeRequest(t[1], t[2]), UNCHANGED votingVars
    PROVE  TallyInv'
<1>1. /\ IsRequest(box'[t]) /\ box'[t].id = lastId + 1 /\ box'[t].round = now
      /\ box'[t].total = StakeAt(totalStake, now)
      /\ \A s \in Slot \ {t} : box'[s] = box[s]
  BY MadeBox
<1>2. UNCHANGED <<lease, now, settings, optedIn, stakeArray, publicKey, keyTimestamp, proposal>>
  BY DEF MakeRequest, votingVars, stakeVars, keyVars
<1> SUFFICES ASSUME NEW s \in Slot, NEW v \in VotingApp, IsRequest(box'[s])
             PROVE  Cast(v, box[s].id)' + SumOver(Remaining(s)', optedIn') <= box'[s].total
  BY DEF TallyInv
<1>3. CASE s # t
  <2>1. box'[s] = box[s] /\ IsRequest(box[s])
    BY <1>1, <1>3
  <2>2. Remaining(s)' = Remaining(s) /\ Cast(v, box[s].id)' = Cast(v, box[s].id)
    BY <1>2, <2>1 DEF Remaining, Spent, Cast, Stakes, ProposalsFor
  <2> QED BY <1>2, <2>1, <2>2 DEF TallyInv
<1>4. CASE s = t
  <2> DEFINE f == ShownNow
             g == Remaining(s)'
  <2>1. /\ \A a \in Account : f[a] \in Nat
        /\ \A a \in Account : g[a] \in Nat
        /\ IsFiniteSet(optedIn) /\ optedIn \subseteq Account
        /\ StakeAt(totalStake, now) \in Nat
    <3>1. StakesType
      BY StakesTyped DEF VotingTypeOK
    <3>2. \A a \in Account : g[a] \in Nat
      BY <1>1, <1>4, TallyTypedNext DEF TallyType
    <3> QED BY <3>1, <3>2 DEF StakesType, VotingTypeOK, TypeOK
  <2>2. \A a \in Account : g[a] \in {0, f[a]}
    BY <1>1, <1>2, <1>4 DEF Remaining, ShownNow
  <2>3. SumOver(f, optedIn) <= StakeAt(totalStake, now)
    BY DEF StakesInv, SnapshotsWithinTotal, ShownNow
  <2>4. Cast(v, box[s].id)' = 0
    <3>1. \A h \in ProposalsFor(lastId + 1) : proposal[v][h] = NoProposal
      <4>1. \A h \in VoteHash : h.id \in Nat
        BY RequestAssumption DEF VoteHash, RequestId
      <4> QED BY <4>1, IdsTyped DEF LedgerInv, KnownRequests, ProposalsFor
    <3>2. \A h \in ProposalsFor(lastId + 1) : Stakes(v)[h] = 0
      BY <3>1 DEF Stakes, NoProposal, ProposalsFor
    <3>3. Cast(v, box[s].id)' = SumOver(Stakes(v), ProposalsFor(lastId + 1))
      BY <1>1, <1>2, <1>4 DEF Cast, Stakes, ProposalsFor
    <3> HIDE DEF Stakes
    <3> QED BY <3>2, <3>3, HashesFinite, SumZero
  <2> HIDE DEF f, g
  <2>5. \A a \in optedIn : f[a] \in Int /\ g[a] \in Int /\ g[a] <= f[a]
    BY <2>1, <2>2
  <2>6. SumOver(g, optedIn) <= SumOver(f, optedIn)
    BY <2>1, <2>5, SumLeq
  <2>7. SumOver(g, optedIn) \in Int /\ SumOver(f, optedIn) \in Int
    BY <2>1, <2>5, SumInt
  <2>8. SumOver(g, optedIn') <= box'[s].total
    BY <1>1, <1>2, <1>4, <2>1, <2>3, <2>6, <2>7
  <2> QED BY <1>2, <2>4, <2>7, <2>8 DEF g
<1> QED BY <1>3, <1>4

\* A vote adds its stake to one proposal, and to none of another request
LEMMA VoteCast ==
    ASSUME VotingTypeOK, VotingTypeOK', LedgerInv,
           NEW v \in VotingApp, NEW a \in Voter, NEW s \in Slot,
           NEW answer \in Answer, NEW count \in VoteCount, Vote(v, a, s, answer, count),
           NEW w \in VotingApp, NEW t \in Slot, IsRequest(box[t])
    PROVE  /\ SumOver(Stakes(w)', ProposalsFor(box[t].id)) <=
                 Cast(w, box[t].id) + IF t = s THEN StakeOf(v, a, s) ELSE 0
           /\ SumOver(Stakes(w)', ProposalsFor(box[t].id)) \in Nat
<1> DEFINE g == HashOf(v, a, s, answer)
           f1 == Stakes(w)
           f2 == Stakes(w)'
           H == ProposalsFor(box[t].id)
           d == StakeOf(v, a, s)
<1>0. VoteAllowed(v, a, s, answer, count) /\ VoteCounts(v, a, s, answer, count)
  BY VoteUnfolds
<1>1. /\ g \in VoteHash /\ d \in Nat /\ g.id = box[s].id /\ IsRequest(box[s])
      /\ Others(v, a) \in [VoteHash -> {NoProposal} \cup Proposals]
  BY <1>0, VoteTyped, VoteOnRequest
<1>2. /\ \A h \in VoteHash : f1[h] \in Nat
      /\ \A h \in VoteHash : f2[h] \in Nat
      /\ IsFiniteSet(H) /\ H \subseteq VoteHash
  BY TallyTyped, TallyTypedNext, HashesFinite DEF TallyType
<1>3. /\ \A h \in VoteHash \ {g} : f2[h] <= f1[h]
      /\ f2[g] <= f1[g] + d
  <2>1. \A h \in VoteHash : f2[h] = proposal'[w][h].stake /\ f1[h] = proposal[w][h].stake
    BY DEF Stakes
  <2>2. CASE w # v
    <3>1. proposal'[w] = proposal[w]
      BY <1>0, <2>2 DEF VoteCounts, VotingTypeOK
    <3>2. \A h \in VoteHash : f2[h] = f1[h]
      BY <2>1, <3>1
    <3> HIDE DEF f1, f2, g, d
    <3> QED BY <1>1, <1>2, <3>2
  <2>3. CASE w = v
    <3>1. proposal'[v] = [Others(v, a) EXCEPT ![g] = Tally(v, a, s, answer, count)]
      BY <1>0 DEF VoteCounts, VotingTypeOK
    <3>2. Others(v, a) = [h \in VoteHash |-> IF h = Before(v, a).hash THEN NoProposal
                                             ELSE proposal[v][h]]
      BY DEF Others, WithoutProposalOf
    <3>3. \A h \in VoteHash : Others(v, a)[h].stake \in {0, f1[h]}
      BY <2>1, <2>3, <3>2 DEF NoProposal
    <3>4. proposal'[v][g] = Tally(v, a, s, answer, count)
      <4> HIDE DEF g
      <4> QED BY <1>1, <3>1
    <3>5. f2[g] = Others(v, a)[g].stake + d
      BY <1>1, <2>1, <2>3, <3>4 DEF Tally
    <3>6. \A h \in VoteHash \ {g} : f2[h] = Others(v, a)[h].stake
      <4> HIDE DEF g
      <4> QED BY <1>1, <2>1, <2>3, <3>1
    <3> HIDE DEF f1, f2, g, d
    <3> QED BY <1>1, <1>2, <3>3, <3>5, <3>6
  <2> QED BY <2>2, <2>3
<1>4. t # s => g \notin H
  BY <1>1 DEF LedgerInv, DistinctIds, ProposalsFor
<1>5. t = s => g \in H
  BY <1>1 DEF ProposalsFor
<1>6. Cast(w, box[t].id) = SumOver(f1, H)
  BY DEF Cast
<1> HIDE DEF f1, f2, g, d, H
<1>7. CASE t = s
  <2>1. SumOver(f2, H) <= SumOver(f1, H) + d
    BY <1>1, <1>2, <1>3, <1>5, <1>7, SumShift
  <2>2. SumOver(f2, H) \in Nat
    BY <1>2, SumNat
  <2>3. SumOver(f2, H) <= Cast(w, box[t].id) + IF t = s THEN d ELSE 0
    BY <1>6, <1>7, <2>1
  <2> QED BY <2>2, <2>3 DEF f2, H, d
<1>8. CASE t # s
  <2>1. SumOver(f2, H) <= SumOver(f1, H)
    BY <1>2, <1>3, <1>4, <1>8, SumLeq
  <2>2. SumOver(f2, H) \in Nat /\ SumOver(f1, H) \in Nat
    BY <1>2, SumNat
  <2>3. SumOver(f2, H) <= Cast(w, box[t].id) + IF t = s THEN d ELSE 0
    BY <1>6, <1>8, <2>1, <2>2
  <2> QED BY <2>2, <2>3 DEF f2, H, d
<1> QED BY <1>7, <1>8

\* The stake of a vote was not spent, and is now
LEMMA VoteSpends ==
    ASSUME VotingTypeOK, VotingTypeOK', LedgerInv,
           NEW v \in VotingApp, NEW a \in Voter, NEW s \in Slot,
           NEW answer \in Answer, NEW count \in VoteCount, Vote(v, a, s, answer, count)
    PROVE  /\ StakeOf(v, a, s) <= SumOver(Remaining(s), optedIn)
           /\ \A t \in Slot : IsRequest(box'[t]) =>
                 SumOver(Remaining(t)', optedIn') <=
                    SumOver(Remaining(t), optedIn) - IF t = s THEN StakeOf(v, a, s) ELSE 0
<1> DEFINE k == publicKey[a]
           id == box[s].id
           d == StakeOf(v, a, s)
           tl == settings.timeLock
<1>0. VoteAllowed(v, a, s, answer, count) /\ VoteCounts(v, a, s, answer, count)
  BY VoteUnfolds
<1>1. /\ IsRequest(box[s]) /\ id \in RequestId /\ box[s].round \in Nat /\ k \in PublicKey
      /\ About(v, a, s).round = box[s].round /\ Asked(v, a, s).id = id
      /\ tl \in Nat /\ now \in Nat /\ d \in Nat /\ a \in Account /\ a \in optedIn
      /\ \A t \in Slot : IsRequest(box'[t]) => SameRequest(box[t], box'[t])
  BY <1>0, VoteTyped, VoteOnRequest, FeesTyped, IdsTyped DEF VoteAllowed, HasKey
<1>2. UNCHANGED <<settings, optedIn, stakeArray, publicKey, keyTimestamp>>
  BY <1>0 DEF VoteCounts, stakeVars, keyVars
<1>3. /\ lease'[k][id] = box[s].round + tl
      /\ \A j \in PublicKey, i \in RequestId : j # k \/ i # id => lease'[j][i] = lease[j][i]
  BY <1>0, <1>1 DEF VoteCounts, VotingTypeOK
<1>4. Remaining(s)[a] = d
  <2>1. /\ Readable(stakeArray[a], box[s].round) /\ now >= keyTimestamp[a] + tl
        /\ now <= box[s].round + tl /\ lease[k][id] < now
    BY <1>0, <1>1 DEF VoteAllowed, ValidParticipant, LeaseGranted
  <2>2. keyTimestamp[a] \in Nat /\ lease[k][id] \in Nat
    BY <1>1 DEF VotingTypeOK, TypeOK
  <2>3. ~(keyTimestamp[a] > box[s].round) /\ ~(lease[k][id] >= box[s].round + tl)
    <3> HIDE DEF k, id, tl
    <3> QED BY <1>1, <2>1, <2>2
  <2> QED BY <1>1, <2>1, <2>3 DEF Remaining, Spent, StakeOf
<1>5. Remaining(s)'[a] = 0 \/ ~IsRequest(box'[s])
  <2> SUFFICES ASSUME IsRequest(box'[s]) PROVE Remaining(s)'[a] = 0
    OBVIOUS
  <2>1. box'[s].id = id /\ box'[s].round = box[s].round
    BY <1>1 DEF SameRequest
  <2>2. k # ZeroAddress /\ lease'[k][id] >= box[s].round + tl
    BY <1>1, <1>3, KeyAssumption
  <2>3. Spent(a, s)'
    BY <1>2, <2>1, <2>2 DEF Spent
  <2> QED BY <1>1, <2>3 DEF Remaining
<1>6. ASSUME NEW t \in Slot, IsRequest(box'[t])
      PROVE  \A b \in Account : Remaining(t)'[b] \in {0, Remaining(t)[b]}
  <2>1. IsRequest(box[t]) /\ box'[t].id = box[t].id /\ box'[t].round = box[t].round
    BY <1>1, <1>6 DEF SameRequest
  <2>2. box[t].id \in RequestId /\ (box[t].id = id => t = s)
    BY <1>1, <2>1, IdsTyped DEF LedgerInv, DistinctIds
  <2>3. ASSUME NEW b \in Account, Spent(b, t) PROVE Spent(b, t)'
    <3>1. CASE keyTimestamp[b] > box[t].round
      BY <1>2, <2>1, <3>1 DEF Spent
    <3>2. CASE /\ publicKey[b] # ZeroAddress
               /\ lease[publicKey[b]][box[t].id] >= box[t].round + tl
      <4>1. publicKey[b] \in PublicKey
        BY <3>2 DEF VotingTypeOK, TypeOK
      <4>2. lease'[publicKey[b]][box[t].id] >= box[t].round + tl
        <5>1. CASE publicKey[b] = k /\ box[t].id = id
          BY <1>1, <1>3, <2>2, <5>1
        <5>2. CASE publicKey[b] # k \/ box[t].id # id
          BY <1>3, <2>2, <3>2, <4>1, <5>2
        <5> QED BY <5>1, <5>2
      <4> QED BY <1>2, <2>1, <3>2, <4>2 DEF Spent
    <3> QED BY <2>3, <3>1, <3>2 DEF Spent
  <2> QED BY <1>2, <2>1, <2>3 DEF Remaining
<1>7. IsFiniteSet(optedIn) /\ optedIn \subseteq Account
  BY TallyTyped DEF TallyType
<1>8. d <= SumOver(Remaining(s), optedIn)
  <2> DEFINE f == Remaining(s)
             z == [f EXCEPT ![a] = 0]
  <2>1. \A b \in Account : f[b] \in Nat
    BY <1>1, TallyTyped DEF TallyType
  <2>2. \A b \in Account : z[b] = IF b = a THEN 0 ELSE f[b]
    BY DEF Remaining
  <2> HIDE DEF f, z, d
  <2>3. \A b \in optedIn : f[b] \in Int /\ z[b] \in Int /\ z[b] \in Nat
    BY <1>7, <2>1, <2>2
  <2>4. SumOver(z, optedIn) = SumOver(f, optedIn) - f[a] + z[a]
    BY <1>1, <1>7, <2>2, <2>3, SumChange
  <2>5. SumOver(z, optedIn) \in Nat /\ SumOver(f, optedIn) \in Int
    BY <1>7, <2>3, SumNat, SumInt
  <2>6. f[a] = d /\ z[a] = 0
    BY <1>1, <1>4, <2>2 DEF f
  <2> QED BY <1>1, <2>4, <2>5, <2>6 DEF f
<1>9. ASSUME NEW t \in Slot, IsRequest(box'[t])
      PROVE  SumOver(Remaining(t)', optedIn') <=
                SumOver(Remaining(t), optedIn) - IF t = s THEN d ELSE 0
  <2> DEFINE f == Remaining(t)
             g == Remaining(t)'
  <2>1. \A b \in Account : f[b] \in Nat
    BY <1>1, <1>9, TallyTyped DEF TallyType, SameRequest
  <2>2. \A b \in Account : g[b] \in {0, f[b]}
    BY <1>6, <1>9
  <2>3. t = s => f[a] = d /\ g[a] = 0
    BY <1>4, <1>5, <1>9
  <2>4. optedIn' = optedIn
    BY <1>2
  <2> HIDE DEF f, g, d
  <2>5. \A b \in optedIn : f[b] \in Int /\ g[b] \in Int /\ g[b] <= f[b]
    BY <1>7, <2>1, <2>2
  <2>6. SumOver(f, optedIn) \in Int /\ SumOver(g, optedIn) \in Int
    BY <1>7, <2>5, SumInt
  <2>7. CASE t = s
    <3>1. -d \in Int /\ g[a] <= f[a] + (-d)
      BY <1>1, <2>3, <2>7
    <3>2. SumOver(g, optedIn) <= SumOver(f, optedIn) + (-d)
      BY <1>1, <1>7, <2>5, <3>1, SumShift
    <3>3. SumOver(g, optedIn') <= SumOver(f, optedIn) - IF t = s THEN d ELSE 0
      BY <1>1, <2>4, <2>6, <2>7, <3>2
    <3> QED BY <3>3 DEF f, g
  <2>8. CASE t # s
    <3>1. SumOver(g, optedIn) <= SumOver(f, optedIn)
      BY <1>7, <2>5, SumLeq
    <3>2. SumOver(g, optedIn') <= SumOver(f, optedIn) - IF t = s THEN d ELSE 0
      BY <2>4, <2>6, <2>8, <3>1
    <3> QED BY <3>2 DEF f, g
  <2> QED BY <2>7, <2>8
<1> QED BY <1>8, <1>9

LEMMA VotingKeepsTally ==
    ASSUME VotingTypeOK, VotingTypeOK', LedgerInv, TallyInv,
           NEW v \in VotingApp, NEW a \in Voter, NEW s \in Slot,
           NEW answer \in Answer, NEW count \in VoteCount, Vote(v, a, s, answer, count)
    PROVE  /\ TallyInv'
           /\ \A t \in Slot, w \in VotingApp : IsRequest(box[t]) =>
                 SumOver(Stakes(w)', ProposalsFor(box[t].id)) <= box[t].total
<1>1. \A t \in Slot : IsRequest(box'[t]) => SameRequest(box[t], box'[t])
  BY VoteOnRequest
<1>2. VoteAllowed(v, a, s, answer, count) /\ StakeOf(v, a, s) \in Nat
  BY VoteUnfolds, VoteTyped
<1>3. ASSUME NEW t \in Slot, NEW w \in VotingApp, IsRequest(box[t])
      PROVE  /\ SumOver(Stakes(w)', ProposalsFor(box[t].id)) <= box[t].total
             /\ IsRequest(box'[t]) =>
                   SumOver(Stakes(w)', ProposalsFor(box[t].id))
                      + SumOver(Remaining(t)', optedIn') <= box[t].total
  <2> DEFINE d == IF t = s THEN StakeOf(v, a, s) ELSE 0
             c == Cast(w, box[t].id)
             e == SumOver(Stakes(w)', ProposalsFor(box[t].id))
             r == SumOver(Remaining(t), optedIn)
             q == SumOver(Remaining(t)', optedIn')
  <2>1. e <= c + d /\ e \in Nat
    BY <1>3, VoteCast
  <2>2. d <= r /\ (IsRequest(box'[t]) => q <= r - d)
    BY <1>3, VoteSpends, RemainingNat
  <2>3. c \in Nat /\ r \in Nat /\ d \in Nat
    BY <1>2, <1>3, StakesNat, RemainingNat
  <2>4. IsRequest(box'[t]) => q \in Nat
    <3> SUFFICES ASSUME IsRequest(box'[t]) PROVE q \in Nat
      OBVIOUS
    <3> DEFINE g == Remaining(t)'
    <3>1. \A b \in optedIn' : g[b] \in Nat
      BY TallyTypedNext DEF TallyType
    <3>2. IsFiniteSet(optedIn')
      BY TallyTypedNext DEF TallyType
    <3> HIDE DEF g
    <3>3. SumOver(g, optedIn') \in Nat
      BY <3>1, <3>2, SumNat
    <3> QED BY <3>3 DEF g
  <2>5. c + r <= box[t].total /\ box[t].total \in Nat
    BY <1>3, BoxKinds DEF TallyInv, VotingTypeOK, Boxes, RequestInfo
  <2> HIDE DEF c, d, e, q, r
  <2>6. e <= box[t].total /\ (IsRequest(box'[t]) => e + q <= box[t].total)
    BY <2>1, <2>2, <2>3, <2>4, <2>5
  <2> QED BY <2>6 DEF e, q
<1>4. ASSUME NEW t \in Slot, NEW w \in VotingApp, IsRequest(box'[t])
      PROVE  Cast(w, box[t].id)' + SumOver(Remaining(t)', optedIn') <= box'[t].total
  <2>1. IsRequest(box[t]) /\ box'[t].id = box[t].id /\ box'[t].total = box[t].total
    BY <1>1, <1>4 DEF SameRequest
  <2>2. Cast(w, box[t].id)' = SumOver(Stakes(w)', ProposalsFor(box[t].id))
    BY <2>1 DEF Cast, ProposalsFor
  <2> QED BY <1>3, <1>4, <2>1, <2>2
<1> QED BY <1>3, <1>4 DEF TallyInv

\* The rest of the strengthened invariant
TallyHolds ==
    /\ LedgerInv /\ StakesInv /\ KeysPast /\ TallyInv
    /\ settings.timeLock = InitialSettings.timeLock

\* Outside of the account's own calls, stakes, keys and rounds stay
LEMMA OthersKeepAccounts ==
    ASSUME VotingTypeOK, [VotingNext]_vars
    PROVE  \/ [Next]_accountVars /\ UNCHANGED <<ledgerVars, votingVars>>
           \/ UNCHANGED <<now, settings, optedIn, stakeVars, keyVars>>
<1>1. ASSUME NEW s \in Slot, NEW r \in Account,
             MakeRequest(s[1], s[2]) \/ RefundRequest(s, r)
      PROVE  UNCHANGED <<now, settings, optedIn, stakeVars, keyVars>>
  BY <1>1 DEF MakeRequest, RefundRequest
<1>2. ASSUME NEW v \in VotingApp, NEW a \in Voter, NEW s \in Slot,
             NEW answer \in Answer, NEW count \in VoteCount, Vote(v, a, s, answer, count)
      PROVE  UNCHANGED <<now, settings, optedIn, stakeVars, keyVars>>
  BY <1>2, VoteUnfolds DEF VoteCounts
<1>3. Shrinks => UNCHANGED <<now, settings, optedIn, stakeVars, keyVars>>
  BY DEF Shrinks
<1> QED BY <1>1, <1>2, <1>3, VotingSteps, SettlingShrinks

LEMMA KeysStayPast ==
    ASSUME VotingTypeOK, KeysPast, [VotingNext]_vars
    PROVE  KeysPast'
<1>0. TypeOK /\ now \in Nat /\ \A a \in Account : keyTimestamp[a] \in Nat
  BY DEF VotingTypeOK, TypeOK
<1>1. CASE UNCHANGED <<now, settings, optedIn, stakeVars, keyVars>>
  BY <1>1 DEF KeysPast, keyVars
<1>2. CASE [Next]_accountVars
  <2>1. now' \in Nat /\ now <= now'
    BY <1>0, <1>2, RoundsPass
  <2>2. \A a \in Account : keyTimestamp'[a] \in {0, now, keyTimestamp[a]}
    BY <1>0, <1>2 DEF TypeOK, Next, AccountStep, NextRound, OptIn, ClearState, Subscribe,
       UnregisterKey, RegisterKey, Stake, Unstake, WithdrawToken, WithdrawAlgo,
       DepositToken, DepositAlgo, UpdateProtocolSettings, keyVars, accountVars
  <2> QED BY <1>0, <2>1, <2>2 DEF KeysPast
<1> QED BY <1>1, <1>2, OthersKeepAccounts

LEMMA TimeLockKept ==
    ASSUME FixedTimeLock, VotingTypeOK, [VotingNext]_vars,
           settings.timeLock = InitialSettings.timeLock
    PROVE  settings'.timeLock = settings.timeLock
<1>1. CASE settings' = settings
  BY <1>1
<1>2. CASE [Next]_accountVars
  <2>1. settings' = settings \/ settings' \in Settings
    BY <1>2 DEF Next, AccountStep, NextRound, OptIn, ClearState, Subscribe,
       UnregisterKey, RegisterKey, Stake, Unstake, WithdrawToken, WithdrawAlgo,
       DepositToken, DepositAlgo, UpdateProtocolSettings, accountVars
  <2> QED BY <2>1, FixedTimeLock DEF FixedTimeLock
<1> QED BY <1>1, <1>2, OthersKeepAccounts

LEMMA StakesStayWithin ==
    VotingTypeOK /\ StakesInv /\ [VotingNext]_vars => StakesInv'
<1> SUFFICES ASSUME VotingTypeOK, StakesInv, [VotingNext]_vars PROVE StakesInv'
  OBVIOUS
<1>1. CASE [Next]_accountVars
  BY <1>1, StepWithin DEF VotingTypeOK
<1>2. CASE UNCHANGED <<now, settings, optedIn, stakeVars, keyVars>>
  BY <1>2, StakesUntouched DEF stakeVars
<1> QED BY <1>1, <1>2, OthersKeepAccounts

\* A step keeps the invariant, and its proposals are within the totals before it
LEMMA TallyStep ==
    ASSUME FixedTimeLock, VotingTypeOK, VotingTypeOK', TallyHolds, [VotingNext]_vars
    PROVE  /\ TallyInv'
           /\ \A t \in Slot, w \in VotingApp : IsRequest(box[t]) =>
                 SumOver(Stakes(w)', ProposalsFor(box[t].id)) <= box[t].total
<1> DEFINE Within == \A t \in Slot, w \in VotingApp : IsRequest(box[t]) =>
                        SumOver(Stakes(w)', ProposalsFor(box[t].id)) <= box[t].total
<1>0. LedgerInv /\ StakesInv /\ KeysPast /\ TallyInv
  BY DEF TallyHolds
<1>1. ASSUME NEW t \in Slot, NEW w \in VotingApp, IsRequest(box[t])
      PROVE  Cast(w, box[t].id) <= box[t].total
  <2> DEFINE c == Cast(w, box[t].id)
             r == SumOver(Remaining(t), optedIn)
  <2>1. c + r <= box[t].total /\ c \in Nat /\ r \in Nat /\ box[t].total \in Nat
    BY <1>0, <1>1, StakesNat, RemainingNat, BoxKinds
       DEF TallyInv, VotingTypeOK, Boxes, RequestInfo
  <2> HIDE DEF c, r
  <2>2. c <= box[t].total
    BY <2>1
  <2> QED BY <2>2 DEF c
<1>2. ASSUME UNCHANGED proposal PROVE Within
  <2>1. \A w \in VotingApp : Stakes(w)' = Stakes(w)
    BY <1>2 DEF Stakes
  <2> QED BY <1>1, <2>1 DEF Cast
<1>3. CASE Shrinks
  <2>1. ASSUME NEW t \in Slot, NEW w \in VotingApp, IsRequest(box[t])
        PROVE  SumOver(Stakes(w)', ProposalsFor(box[t].id)) <= box[t].total
    <3> DEFINE c == Cast(w, box[t].id)
               e == SumOver(Stakes(w)', ProposalsFor(box[t].id))
    <3>1. e <= c /\ c <= box[t].total /\ c \in Nat /\ box[t].total \in Nat
      BY <1>1, <1>3, <2>1, ShrinkingCast, StakesNat, BoxKinds
         DEF VotingTypeOK, Boxes, RequestInfo
    <3>2. e \in Int
      <4>1. \A h \in VoteHash : Stakes(w)'[h] \in Nat
        BY TallyTypedNext DEF TallyType
      <4> HIDE DEF Stakes
      <4> QED BY <4>1, HashesFinite, SumInt
    <3> HIDE DEF c, e
    <3>3. e <= box[t].total
      BY <3>1, <3>2
    <3> QED BY <3>3 DEF e
  <2> QED BY <1>0, <1>3, <2>1, ShrinkingKeepsTally
<1>4. CASE [Next]_accountVars /\ UNCHANGED <<ledgerVars, votingVars>>
  <2>1. settings'.timeLock = settings.timeLock
    BY TimeLockKept DEF TallyHolds
  <2> QED BY <1>0, <1>2, <1>4, <2>1, AccountsKeepTally DEF votingVars
<1>5. ASSUME NEW s \in Slot, MakeRequest(s[1], s[2]), UNCHANGED votingVars
      PROVE  TallyInv' /\ Within
  BY <1>0, <1>2, <1>5, MakingKeepsTally DEF votingVars
<1>6. ASSUME NEW s \in Slot, NEW r \in Account, RefundRequest(s, r), UNCHANGED votingVars
      PROVE  TallyInv' /\ Within
  BY <1>3, <1>6, RefundShrinks
<1>7. ASSUME NEW v \in VotingApp, NEW a \in Voter, NEW s \in Slot,
             NEW answer \in Answer, NEW count \in VoteCount, Vote(v, a, s, answer, count)
      PROVE  TallyInv' /\ Within
  BY <1>0, <1>7, VotingKeepsTally
<1> QED BY <1>3, <1>4, <1>5, <1>6, <1>7, VotingSteps, SettlingShrinks

LEMMA TallyHoldsStep ==
    ASSUME FixedTimeLock
    PROVE  /\ VotingInit => TallyHolds
           /\ VotingTypeOK /\ TallyHolds /\ [VotingNext]_vars => TallyHolds'
<1>1. ASSUME VotingInit PROVE TallyHolds
  <2>1. Init /\ \A s \in Slot : ~IsRequest(box[s])
    BY <1>1 DEF VotingInit, RequestsInit, NoBox, None, IsRequest
  <2>2. KeysPast /\ settings.timeLock = InitialSettings.timeLock
    BY <2>1 DEF Init, KeysPast
  <2> QED BY <1>1, <2>1, <2>2, LedgerInit, InitWithin DEF TallyHolds, TallyInv
<1>2. ASSUME VotingTypeOK, TallyHolds, [VotingNext]_vars PROVE TallyHolds'
  <2>1. VotingTypeOK'
    BY <1>2, VotingStepTyped
  <2>2. TallyInv'
    BY <1>2, <2>1, TallyStep
  <2>3. LedgerInv' /\ StakesInv' /\ KeysPast'
    BY <1>2, LedgerStep, StakesStayWithin, KeysStayPast DEF TallyHolds
  <2>4. settings'.timeLock = settings.timeLock
    BY <1>2, TimeLockKept DEF TallyHolds
  <2> QED BY <1>2, <2>2, <2>3, <2>4 DEF TallyHolds
<1> QED BY <1>1, <1>2

\* No stake votes twice, for any number of accounts, keys, contracts, requests
\* and answers, while stakes and keys change, accounts leave and join again and
\* blocks pass, as long as the manager leaves the time lock alone: in no step do
\* the stakes behind the proposals of a request exceed what the request recorded.
THEOREM TallyWithin == ASSUME FixedTimeLock PROVE VotingSpec => TallyWithinStake
<1> DEFINE Within == \A s \in Slot, v \in VotingApp : IsRequest(box[s]) =>
                        SumOver([h \in VoteHash |-> proposal'[v][h].stake],
                                ProposalsFor(box[s].id)) <= box[s].total
<1>1. VotingInit => TallyHolds
  BY TallyHoldsStep
<1>2. VotingTypeOK /\ TallyHolds /\ [VotingNext]_vars => TallyHolds'
  BY TallyHoldsStep
<1>3. VotingTypeOK /\ VotingTypeOK' /\ TallyHolds /\ [VotingNext]_vars => [Within]_vars
  BY TallyStep DEF Stakes
<1>4. VotingSpec => []VotingTypeOK
  BY VotingTypeCorrect
<1> QED BY <1>1, <1>2, <1>3, <1>4, PTL DEF VotingSpec, TallyWithinStake

-----------------------------------------------------------------------------
(* Refunds and the fee sinks *)

\* The manager changes neither what is paid for a request nor when it expires
SameFees(s) ==
    /\ s.algoFee = InitialSettings.algoFee /\ s.goraFee = InitialSettings.goraFee
    /\ s.madePct = InitialSettings.madePct /\ s.timeLock = InitialSettings.timeLock
    /\ s.refillAmount = InitialSettings.refillAmount
    /\ s.refillThreshold = InitialSettings.refillThreshold
FixedFees == \A s \in Settings : SameFees(s)

\* A refund gives back no more than was paid, and a request can be paid for
SoundFees ==
    /\ InitialSettings.madePct <= 100
    /\ InitialSettings.refillAmount # InitialSettings.refillThreshold

\* SinksCoverRefunds is not inductive: a vote on a refunded request would make
\* it refundable again.  No such vote comes in time.
RefundedLate ==
    \A s \in Slot : IsRequest(box[s]) /\ box[s].status = "refunded" => Expired(box[s])

SinksInv == RefundedLate /\ SinksCoverRefunds /\ SameFees(settings)

Refundable(statuses) == {s \in Slot : IsRequest(box[s]) /\ box[s].status \in statuses}
TokenBack == Refund(settings.goraFee)
AlgoBack  == Refund(settings.algoFee) - RefillFee

LEMMA SlotsFinite == IsFiniteSet(Slot)
<1>1. IsFiniteSet(Requester)
  BY AccountAssumption, RequestAssumption, FS_Subset
<1> QED BY <1>1, RequestAssumption, FS_Product DEF Slot

LEMMA RefundableFinite ==
    ASSUME NEW statuses
    PROVE  /\ IsFiniteSet(Refundable(statuses))
           /\ Cardinality(Refundable(statuses)) \in Nat
<1>1. IsFiniteSet(Refundable(statuses))
  BY SlotsFinite, FS_Subset DEF Refundable
<1> QED BY <1>1, FS_CardinalityType

LEMMA ProductMonotone ==
    ASSUME NEW m \in Nat, NEW n \in Nat, NEW c \in Nat, m <= n
    PROVE  m * c <= n * c
OBVIOUS

LEMMA RefundBounded ==
    ASSUME VotingTypeOK, SameFees(settings), SoundFees, NEW fee \in Nat
    PROVE  Refund(fee) \in Nat /\ Refund(fee) <= fee
<1> DEFINE p == settings.madePct
           n == p * fee
           q == n \div 100
<1>1. p \in Nat /\ p <= 100
  BY DEF VotingTypeOK, TypeOK, SettingsType, SameFees, SoundFees
<1>2. n \in Nat /\ n <= 100 * fee
  BY <1>1, ProductMonotone, ProductTyped
<1> HIDE DEF n
<1>3. q \in Nat /\ 100 * q <= n
  BY <1>2
<1>4. Refund(fee) = q
  BY DEF Refund, n
<1> HIDE DEF q, p
<1> QED BY <1>2, <1>3, <1>4

\* The same sums of money in the next state
LEMMA FeesStay ==
    ASSUME SameFees(settings), SameFees(settings')
    PROVE  TokenBack' = TokenBack /\ AlgoBack' = AlgoBack /\ RefillFee' = RefillFee
BY DEF SameFees, TokenBack, AlgoBack, Refund, RefillFee

LEMMA BackTyped ==
    ASSUME VotingTypeOK, SameFees(settings), SoundFees
    PROVE  /\ TokenBack \in Nat /\ TokenBack <= settings.goraFee
           /\ AlgoBack \in Int /\ RefillFee \in Nat /\ RefillFeeDefined
           /\ AlgoBack <= settings.algoFee - RefillFee
           /\ settings.algoFee \in Nat /\ settings.goraFee \in Nat
<1>1. /\ settings.algoFee \in Nat /\ settings.goraFee \in Nat
      /\ RefillFeeDefined => RefillFee \in Nat
  BY FeesTyped
<1>2. RefillFeeDefined
  BY DEF RefillFeeDefined, SameFees, SoundFees
<1>3. /\ Refund(settings.algoFee) \in Nat /\ Refund(settings.algoFee) <= settings.algoFee
      /\ Refund(settings.goraFee) \in Nat /\ Refund(settings.goraFee) <= settings.goraFee
  BY <1>1, RefundBounded
<1> QED BY <1>1, <1>2, <1>3 DEF TokenBack, AlgoBack

SinksCover ==
    /\ Cardinality(Refundable({"request_made", "processing"})) * TokenBack <= tokenSink
    /\ Cardinality(Refundable({"request_made"})) * AlgoBack <= algoSink

LEMMA SinksDefined == SinksCover <=> SinksCoverRefunds
BY DEF SinksCover, SinksCoverRefunds, Refundable, TokenBack, AlgoBack

\* The arithmetic of a sink that covers n refunds of c each
LEMMA CoverLess ==
    ASSUME NEW m \in Nat, NEW n \in Nat, m <= n, NEW c \in Int, NEW sink \in Nat,
           n * c <= sink
    PROVE  m * c <= sink
<1>1. CASE c >= 0
  <2>1. c \in Nat /\ m * c <= n * c
    BY <1>1, ProductMonotone
  <2>2. m * c \in Int /\ n * c \in Int
    OBVIOUS
  <2> QED BY <2>1, <2>2
<1>2. CASE c < 0
  <2>1. m * c <= 0
    BY <1>2
  <2>2. m * c \in Int
    OBVIOUS
  <2> QED BY <2>1, <2>2
<1> QED BY <1>1, <1>2

LEMMA CoverMore ==
    ASSUME NEW n \in Nat, NEW c \in Int, NEW d \in Int, NEW sink \in Nat,
           n * c <= sink, c <= d
    PROVE  (n + 1) * c <= sink + d
<1>1. (n + 1) * c = n * c + c /\ n * c \in Int
  OBVIOUS
<1> DEFINE p == n * c
<1>2. p \in Int /\ p <= sink /\ (n + 1) * c = p + c
  BY <1>1
<1> HIDE DEF p
<1> QED BY <1>2

LEMMA CoverOneLess ==
    ASSUME NEW n \in Nat, NEW c \in Int, NEW sink \in Nat, n * c <= sink
    PROVE  (n - 1) * c <= sink - c
<1>1. (n - 1) * c = n * c - c /\ n * c \in Int
  OBVIOUS
<1> DEFINE p == n * c
<1>2. p \in Int /\ p <= sink /\ (n - 1) * c = p - c
  BY <1>1
<1> HIDE DEF p
<1> QED BY <1>2

Made == {"request_made"}
Open == {"request_made", "processing"}

SinksType ==
    /\ \A statuses \in {Made, Open} : Cardinality(Refundable(statuses)) \in Nat
    /\ algoSink \in Nat /\ tokenSink \in Nat

LEMMA SinksTyped == VotingTypeOK => SinksType
BY RefundableFinite DEF VotingTypeOK, SinksType

LEMMA SinksTypedNext == VotingTypeOK' => SinksType'
BY SinksTyped, PTL

\* With no new refundable requests the sinks still cover all
LEMMA FewerCovered ==
    ASSUME VotingTypeOK, VotingTypeOK', SinksInv, SoundFees, SameFees(settings'),
           UNCHANGED <<algoSink, tokenSink>>,
           \A t \in Slot : IsRequest(box'[t]) =>
              /\ IsRequest(box[t])
              /\ box'[t].status \in Made => box[t].status \in Made
              /\ box'[t].status \in Open => box[t].status \in Open
    PROVE  SinksCoverRefunds'
<1> DEFINE n1 == Cardinality(Refundable(Made))
           n2 == Cardinality(Refundable(Open))
           m1 == Cardinality(Refundable(Made)')
           m2 == Cardinality(Refundable(Open)')
<1>1. /\ n1 \in Nat /\ n2 \in Nat /\ m1 \in Nat /\ m2 \in Nat
      /\ algoSink \in Nat /\ tokenSink \in Nat
  BY SinksTyped, SinksTypedNext DEF SinksType
<1>2. m1 <= n1 /\ m2 <= n2
  <2>1. Refundable(Made)' \subseteq Refundable(Made) /\ Refundable(Open)' \subseteq Refundable(Open)
    BY DEF Refundable
  <2> QED BY <2>1, RefundableFinite, FS_Subset
<1>3. n2 * TokenBack <= tokenSink /\ n1 * AlgoBack <= algoSink
  BY SinksDefined DEF SinksInv, SinksCover, Made, Open
<1>4. TokenBack \in Int /\ AlgoBack \in Int /\ TokenBack' = TokenBack /\ AlgoBack' = AlgoBack
  BY BackTyped, FeesStay DEF SinksInv
<1> HIDE DEF n1, n2, m1, m2
<1>5. m2 * TokenBack <= tokenSink /\ m1 * AlgoBack <= algoSink
  BY <1>1, <1>2, <1>3, <1>4, CoverLess
<1>6. m2 * TokenBack' <= tokenSink' /\ m1 * AlgoBack' <= algoSink'
  BY <1>4, <1>5
<1>7. SinksCover'
  BY <1>6 DEF SinksCover, m1, m2, Made, Open
<1>8. SinksCover' <=> SinksCoverRefunds'
  BY SinksDefined, PTL
<1> QED BY <1>7, <1>8

\* A new request pays for its own refund
LEMMA MakingCovered ==
    ASSUME VotingTypeOK, VotingTypeOK', SinksInv, SoundFees, NEW s \in Slot,
           MakeRequest(s[1], s[2])
    PROVE  SinksCoverRefunds'
<1> DEFINE n1 == Cardinality(Refundable(Made))
           n2 == Cardinality(Refundable(Open))
           m1 == Cardinality(Refundable(Made)')
           m2 == Cardinality(Refundable(Open)')
           e == settings.algoFee - RefillFee
           f == settings.goraFee
<1>1. /\ n1 \in Nat /\ n2 \in Nat /\ algoSink \in Nat /\ tokenSink \in Nat
  BY SinksTyped DEF SinksType
<1>2. m1 = n1 + 1 /\ m2 = n2 + 1
  <2>1. /\ IsRequest(box'[s]) /\ box'[s].status = "request_made" /\ box[s] = NoBox
        /\ \A t \in Slot \ {s} : box'[t] = box[t]
    BY MadeBox
  <2>2. s \notin Refundable(Made) /\ s \notin Refundable(Open)
    BY <2>1 DEF Refundable, NoBox, None, IsRequest
  <2>3. Refundable(Made)' = Refundable(Made) \cup {s} /\ Refundable(Open)' = Refundable(Open) \cup {s}
    BY <2>1, <2>2 DEF Refundable, Made, Open
  <2> QED BY <2>2, <2>3, RefundableFinite, FS_AddElement
<1>3. n2 * TokenBack <= tokenSink /\ n1 * AlgoBack <= algoSink
  BY SinksDefined DEF SinksInv, SinksCover, Made, Open
<1>4. /\ TokenBack \in Int /\ AlgoBack \in Int
      /\ AlgoBack <= e /\ TokenBack <= f /\ e \in Int /\ f \in Int
      /\ algoSink + settings.algoFee - RefillFee = algoSink + e
  BY <1>1, BackTyped DEF SinksInv
<1>5. TokenBack' = TokenBack /\ AlgoBack' = AlgoBack
  BY FeesStay DEF SinksInv, MakeRequest
<1>6. algoSink' = algoSink + e /\ tokenSink' = tokenSink + f
  BY <1>4 DEF MakeRequest
<1> HIDE DEF n1, n2, m1, m2, e, f
<1>7. (n2 + 1) * TokenBack <= tokenSink + f /\ (n1 + 1) * AlgoBack <= algoSink + e
  BY <1>1, <1>3, <1>4, CoverMore
<1>8. SinksCover'
  BY <1>2, <1>5, <1>6, <1>7 DEF SinksCover, m1, m2, Made, Open
<1>9. SinksCover' <=> SinksCoverRefunds'
  BY SinksDefined, PTL
<1> QED BY <1>8, <1>9

\* A refund takes its own share
LEMMA RefundCovered ==
    ASSUME VotingTypeOK, VotingTypeOK', SinksInv, SoundFees, NEW s \in Slot, NEW r \in Account,
           RefundRequest(s, r)
    PROVE  SinksCoverRefunds'
<1> DEFINE n1 == Cardinality(Refundable(Made))
           n2 == Cardinality(Refundable(Open))
           m1 == Cardinality(Refundable(Made)')
           m2 == Cardinality(Refundable(Open)')
<1>1. /\ n1 \in Nat /\ n2 \in Nat /\ algoSink \in Nat /\ tokenSink \in Nat
  BY SinksTyped DEF SinksType
<1>2. n2 * TokenBack <= tokenSink /\ n1 * AlgoBack <= algoSink
  BY SinksDefined DEF SinksInv, SinksCover, Made, Open
<1>3. TokenBack \in Int /\ AlgoBack \in Int /\ RefillFee \in Int
  BY BackTyped DEF SinksInv
<1>4. TokenBack' = TokenBack /\ AlgoBack' = AlgoBack
  BY FeesStay DEF SinksInv, RefundRequest
<1>5. IsRequest(box[s]) /\ box \in [Slot -> Boxes] /\ box[s] \in RequestInfo
  BY BoxKinds DEF RefundRequest, ReadAsRequest, VotingTypeOK, Boxes
<1>6. SinksCover' <=> SinksCoverRefunds'
  BY SinksDefined, PTL
<1>7. CASE RefundUnproposed(s, r)
  <2>1. Refundable(Made)' = Refundable(Made) \ {s} /\ Refundable(Open)' = Refundable(Open) \ {s}
    <3>1. box' = [box EXCEPT ![s] = NoBox] /\ ~IsRequest(NoBox)
      BY <1>7 DEF RefundUnproposed, IsRequest, NoBox, None
    <3>2. ~IsRequest(box'[s]) /\ \A t \in Slot \ {s} : box'[t] = box[t]
      BY <1>5, <3>1
    <3> QED BY <3>2 DEF Refundable
  <2>2. s \in Refundable(Made) /\ s \in Refundable(Open)
    BY <1>5, <1>7 DEF RefundUnproposed, Refundable, Made, Open
  <2>3. m1 = n1 - 1 /\ m2 = n2 - 1
    BY <2>1, <2>2, RefundableFinite, FS_RemoveElement
  <2>4. algoSink' = algoSink - AlgoBack /\ tokenSink' = tokenSink - TokenBack
    BY <1>7 DEF RefundUnproposed, AlgoBack, TokenBack
  <2> HIDE DEF n1, n2, m1, m2
  <2>5. (n2 - 1) * TokenBack <= tokenSink - TokenBack /\ (n1 - 1) * AlgoBack <= algoSink - AlgoBack
    BY <1>1, <1>2, <1>3, CoverOneLess
  <2>6. SinksCover'
    BY <1>4, <2>3, <2>4, <2>5 DEF SinksCover, m1, m2, Made, Open
  <2> QED BY <1>6, <2>6
<1>8. CASE RefundProposed(s, r)
  <2>1. Refundable(Made)' = Refundable(Made) /\ Refundable(Open)' = Refundable(Open) \ {s}
    <3>1. box' = [box EXCEPT ![s] = [box[s] EXCEPT !.status = "refunded"]]
      BY <1>5, <1>8 DEF RefundProposed, MarkedRefunded
    <3>2. box'[s].status = "refunded" /\ \A t \in Slot \ {s} : box'[t] = box[t]
      BY <1>5, <3>1 DEF RequestInfo
    <3>3. box[s].status = "processing"
      BY <1>8 DEF RefundProposed
    <3> QED BY <3>2, <3>3 DEF Refundable, Made, Open
  <2>2. s \in Refundable(Open)
    BY <1>5, <1>8 DEF RefundProposed, Refundable, Open
  <2>3. m1 = n1 /\ m2 = n2 - 1
    BY <2>1, <2>2, RefundableFinite, FS_RemoveElement
  <2>4. algoSink' = algoSink /\ tokenSink' = tokenSink - TokenBack
    BY <1>8 DEF RefundProposed, TokenBack
  <2> HIDE DEF n1, n2, m1, m2
  <2>5. (n2 - 1) * TokenBack <= tokenSink - TokenBack
    BY <1>1, <1>2, <1>3, CoverOneLess
  <2>6. SinksCover'
    BY <1>2, <1>4, <2>3, <2>4, <2>5 DEF SinksCover, m1, m2, Made, Open
  <2> QED BY <1>6, <2>6
<1> QED BY <1>7, <1>8 DEF RefundRequest

\* No settlement and no vote makes a refunded request refundable again
NothingReopens ==
    \A t \in Slot : IsRequest(box'[t]) =>
       /\ IsRequest(box[t]) /\ box'[t].round = box[t].round
       /\ \/ box'[t].status = box[t].status
          \/ box'[t].status = "processing" /\ box[t].status \in Open

LEMMA VoteReopensNothing ==
    ASSUME VotingTypeOK, LedgerInv, RefundedLate,
           NEW v \in VotingApp, NEW a \in Voter, NEW s \in Slot,
           NEW answer \in Answer, NEW count \in VoteCount, Vote(v, a, s, answer, count)
    PROVE  NothingReopens
<1> DEFINE req == Asked(v, a, s)
           nb == NewBox(v, a, s, answer, count)
           old == SettledBoxes(Before(v, a))
<1>0. VoteAllowed(v, a, s, answer, count) /\ VoteCounts(v, a, s, answer, count)
  BY VoteUnfolds
<1>1. /\ Before(v, a) \in Votes /\ req \in RequestInfo /\ IsRequest(req) /\ req = old[s]
      /\ old \in [Slot -> Boxes] /\ box' = [old EXCEPT ![s] = nb]
      /\ IsRequest(box[s]) /\ About(v, a, s).round = box[s].round /\ box[s].round \in Nat
      /\ \A t \in Slot : IsRequest(box'[t]) => SameRequest(box[t], box'[t])
  BY <1>0, VoteTyped, VoteOnRequest, SettledBoxesTyped
     DEF VoteAllowed, VoteCounts, ReadAsRequest, Asked, RequestAt
<1>2. \A t \in Slot : IsRequest(old[t]) => old[t].status = box[t].status
  BY <1>1, SettlementKeeps
<1>3. box[s].status \in Open
  <2>1. now <= box[s].round + settings.timeLock /\ now \in Nat /\ settings.timeLock \in Nat
    BY <1>0, <1>1, FeesTyped, IdsTyped DEF VoteAllowed, LeaseGranted
  <2>2. ~Expired(box[s])
    BY <1>1, <2>1 DEF Expired
  <2>3. box[s].status \in {"request_made", "processing", "refunded"}
    BY <1>1, BoxKinds DEF VotingTypeOK, Boxes, RequestInfo
  <2> QED BY <1>1, <2>2, <2>3 DEF RefundedLate, Open
<1>4. IsRequest(nb) => nb.status \in {req.status, "processing"}
  <2>1. CASE Decides(v, a, s, answer, count)
    <3>1. nb.kind = "history"
      BY <2>1 DEF NewBox, VotedBox, Decides
    <3> QED BY <3>1 DEF IsRequest
  <2>2. CASE ~Decides(v, a, s, answer, count)
    <3>1. nb \in {[req EXCEPT !.votes = @ + count, !.status = "processing", !.app = v],
                  [req EXCEPT !.votes = @ + count]}
      BY <2>2 DEF NewBox, VotedBox, Decides
    <3> HIDE DEF req, nb
    <3> QED BY <1>1, <3>1 DEF RequestInfo
  <2> QED BY <2>1, <2>2
<1> HIDE DEF req, nb, old
<1> SUFFICES ASSUME NEW t \in Slot, IsRequest(box'[t])
             PROVE  /\ IsRequest(box[t]) /\ box'[t].round = box[t].round
                    /\ \/ box'[t].status = box[t].status
                       \/ box'[t].status = "processing" /\ box[t].status \in Open
  BY DEF NothingReopens
<1>5. CASE t = s
  <2>1. box'[t] = nb /\ req.status = box[s].status
    BY <1>1, <1>2, <1>5
  <2> QED BY <1>1, <1>3, <1>4, <1>5, <2>1 DEF SameRequest
<1>6. CASE t # s
  <2>1. box'[t] = old[t]
    BY <1>1, <1>6
  <2> QED BY <1>1, <1>2, <2>1 DEF SameRequest
<1> QED BY <1>5, <1>6

LEMMA SettlingReopensNothing ==
    ASSUME VotingTypeOK, NEW v \in VotingApp,
           \/ DeployVotingContract(v)
           \/ \E h \in VoteHash : DeleteBox(v, h)
           \/ \E a \in Voter : RegisterVoter(v, a)
           \/ \E a \in Voter : DeregisterVoter(v, a)
           \/ \E a \in Voter, payee \in Account : ClaimRewards(v, a, payee)
    PROVE  /\ NothingReopens
           /\ UNCHANGED <<now, settings, algoSink, tokenSink>>
<1>1. CASE box' = box /\ UNCHANGED <<accountVars, ledgerVars>>
  BY <1>1 DEF NothingReopens, ledgerVars, accountVars
<1>2. ASSUME NEW a \in Voter, NEW payee \in Account, ClaimRewards(v, a, payee)
      PROVE  /\ NothingReopens
             /\ UNCHANGED <<now, settings, algoSink, tokenSink>>
  <2>1. history[v][a] \in Votes /\ box' = SettledBoxes(history[v][a])
    BY <1>2 DEF ClaimRewards, Registered, VotingTypeOK
  <2>2. \A t \in Slot : IsRequest(box'[t]) =>
           KeptFor(box[t], box'[t]) /\ box'[t].status = box[t].status
    BY <2>1, SettlementKeeps
  <2> QED BY <1>2, <2>2 DEF ClaimRewards, NothingReopens, KeptFor, SameRequest
<1> QED BY <1>1, <1>2 DEF DeployVotingContract, DeleteBox, RegisterVoter, DeregisterVoter, ledgerVars

LEMMA SinksKept ==
    ASSUME VotingTypeOK, VotingTypeOK', SinksInv, SoundFees, NothingReopens,
           SameFees(settings'), now' \in Nat, now <= now', UNCHANGED <<algoSink, tokenSink>>
    PROVE  SinksInv'
<1>1. settings'.timeLock = settings.timeLock /\ settings.timeLock \in Nat /\ now \in Nat
  BY FeesTyped DEF SinksInv, SameFees, VotingTypeOK, TypeOK
<1>2. RefundedLate'
  <2> SUFFICES ASSUME NEW t \in Slot, IsRequest(box'[t]), box'[t].status = "refunded"
               PROVE  box'[t].round + settings'.timeLock < now'
    BY DEF RefundedLate, Expired
  <2>1. /\ IsRequest(box[t]) /\ box'[t].round = box[t].round
        /\ box[t].status = "refunded" /\ box[t].round \in Nat
    BY IdsTyped DEF NothingReopens
  <2>2. box[t].round + settings.timeLock < now
    BY <2>1 DEF SinksInv, RefundedLate, Expired
  <2> QED BY <1>1, <2>1, <2>2
<1>3. SinksCoverRefunds'
  BY FewerCovered DEF NothingReopens, Made, Open
<1> QED BY <1>2, <1>3 DEF SinksInv

LEMMA FeesFixed ==
    ASSUME FixedFees, VotingTypeOK, [VotingNext]_vars, SameFees(settings)
    PROVE  SameFees(settings')
<1>1. CASE settings' = settings
  BY <1>1
<1>2. CASE [Next]_accountVars
  <2>1. settings' = settings \/ settings' \in Settings
    BY <1>2 DEF Next, AccountStep, NextRound, OptIn, ClearState, Subscribe,
       UnregisterKey, RegisterKey, Stake, Unstake, WithdrawToken, WithdrawAlgo,
       DepositToken, DepositAlgo, UpdateProtocolSettings, accountVars
  <2> QED BY <2>1, FixedFees DEF FixedFees
<1> QED BY <1>1, <1>2, OthersKeepAccounts

LEMMA SinksStep ==
    ASSUME FixedFees, SoundFees, VotingTypeOK, VotingTypeOK', LedgerInv, SinksInv,
           [VotingNext]_vars
    PROVE  SinksInv'
<1>0. SameFees(settings') /\ now \in Nat /\ RefundedLate
  BY FeesFixed DEF SinksInv, VotingTypeOK, TypeOK
<1>1. CASE [Next]_accountVars /\ UNCHANGED <<ledgerVars, votingVars>>
  <2>1. NothingReopens /\ UNCHANGED <<algoSink, tokenSink>>
    BY <1>1 DEF NothingReopens, ledgerVars
  <2> QED BY <1>0, <1>1, <2>1, RoundsPass, SinksKept DEF VotingTypeOK
<1>2. ASSUME NEW s \in Slot, MakeRequest(s[1], s[2]) PROVE SinksInv'
  <2>1. /\ box'[s].status = "request_made" /\ \A t \in Slot \ {s} : box'[t] = box[t]
        /\ UNCHANGED <<now, settings>>
    BY <1>2, MadeBox DEF MakeRequest
  <2>2. RefundedLate'
    BY <1>0, <2>1 DEF RefundedLate, Expired
  <2> QED BY <1>0, <1>2, <2>2, MakingCovered DEF SinksInv
<1>3. ASSUME NEW s \in Slot, NEW r \in Account, RefundRequest(s, r) PROVE SinksInv'
  <2>1. box \in [Slot -> Boxes] /\ Expired(box[s]) /\ UNCHANGED <<now, settings>>
    BY <1>3 DEF RefundRequest, VotingTypeOK, Boxes
  <2>2. \A t \in Slot \ {s} : box'[t] = box[t]
    BY <1>3, <2>1 DEF RefundRequest, RefundUnproposed, RefundProposed, MarkedRefunded
  <2>3. IsRequest(box'[s]) => Expired(box'[s])
    <3>1. CASE RefundUnproposed(s, r)
      <4>1. box'[s] = NoBox
        BY <2>1, <3>1 DEF RefundUnproposed
      <4> QED BY <4>1 DEF IsRequest, NoBox, None
    <3>2. CASE RefundProposed(s, r)
      <4>1. box'[s] = [box[s] EXCEPT !.status = "refunded"]
        BY <2>1, <3>2 DEF RefundProposed, MarkedRefunded
      <4>2. box[s] \in RequestInfo
        BY <1>3, <2>1, BoxKinds DEF RefundRequest, ReadAsRequest
      <4>3. box'[s].round = box[s].round
        BY <4>1, <4>2 DEF RequestInfo
      <4> QED BY <2>1, <4>3 DEF Expired
    <3> QED BY <1>3, <3>1, <3>2 DEF RefundRequest
  <2>4. RefundedLate'
    BY <1>0, <2>1, <2>2, <2>3 DEF RefundedLate, Expired
  <2> QED BY <1>0, <1>3, <2>4, RefundCovered DEF SinksInv
<1>4. ASSUME NEW v \in VotingApp, NEW a \in Voter, NEW s \in Slot,
             NEW answer \in Answer, NEW count \in VoteCount, Vote(v, a, s, answer, count)
      PROVE  SinksInv'
  <2>1. UNCHANGED <<now, algoSink, tokenSink>>
    BY <1>4, VoteUnfolds DEF VoteCounts
  <2>2. NothingReopens
    BY <1>0, <1>4, VoteReopensNothing
  <2> QED BY <1>0, <2>1, <2>2, SinksKept
<1>5. CASE NothingReopens /\ UNCHANGED <<now, settings, algoSink, tokenSink>>
  BY <1>0, <1>5, SinksKept
<1> QED BY <1>1, <1>2, <1>3, <1>4, <1>5, VotingSteps, SettlingReopensNothing

LEMMA SinksInit ==
    ASSUME SoundFees PROVE VotingInit => SinksInv
<1> SUFFICES ASSUME VotingInit PROVE SinksInv
  OBVIOUS
<1>1. \A s \in Slot : ~IsRequest(box[s])
  BY DEF VotingInit, RequestsInit, NoBox, None, IsRequest
<1>2. algoSink = 0 /\ tokenSink = 0 /\ SameFees(settings)
  BY DEF VotingInit, RequestsInit, Init, SameFees
<1>3. TokenBack \in Int /\ AlgoBack \in Int
  BY <1>2, VotingInitTyped, BackTyped
<1>4. Refundable(Made) = {} /\ Refundable(Open) = {}
  BY <1>1 DEF Refundable
<1>5. 0 * TokenBack = 0 /\ 0 * AlgoBack = 0
  BY <1>3
<1>6. SinksCover
  BY <1>2, <1>4, <1>5, FS_EmptySet DEF SinksCover, Made, Open
<1> QED BY <1>1, <1>2, <1>6, SinksDefined DEF SinksInv, RefundedLate

\* No refund is blocked: the fee sinks hold the refunds of all requests that may
\* still ask for one, for any number of requests and any order of votes, refunds
\* and settlements, as long as the manager leaves the fees and the time lock
\* alone and refunds no more than was paid.
THEOREM SinksCoverAll ==
    ASSUME FixedFees, SoundFees PROVE VotingSpec => []SinksCoverRefunds
<1>1. VotingInit => SinksInv /\ LedgerInv
  BY SinksInit, LedgerInit
<1>2. VotingTypeOK /\ VotingTypeOK' /\ LedgerInv /\ SinksInv /\ [VotingNext]_vars => SinksInv'
  BY SinksStep
<1>3. VotingTypeOK /\ LedgerInv /\ [VotingNext]_vars => LedgerInv'
  BY LedgerStep
<1>4. SinksInv => SinksCoverRefunds
  BY DEF SinksInv
<1>5. VotingSpec => []VotingTypeOK
  BY VotingTypeCorrect
<1> QED BY <1>1, <1>2, <1>3, <1>4, <1>5, PTL DEF VotingSpec

=============================================================================
