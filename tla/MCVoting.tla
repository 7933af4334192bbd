------------------------------ MODULE MCVoting ------------------------------
(* Small instances of Voting for TLC. *)
EXTENDS Voting, TLC

CONSTANTS r1, p1, p2, k1, k2, v1, v2

MCSettings ==
    [manager |-> r1, madePct |-> 100, procPct |-> 10, algoFee |-> 3,
     goraFee |-> 12, threshold |-> 66, timeLock |-> 2, refillThreshold |-> 2,
     refillAmount |-> 4, subLock |-> 1]

MCSmallSettings ==
    [MCSettings EXCEPT !.manager = p1, !.algoFee = 1, !.goraFee = 1,
                       !.timeLock = 1, !.refillAmount = 0]
MCNewSubscription == {[MCSmallSettings EXCEPT !.subLock = 0]}
MCTwo     == [a \in Account |-> 2]
MCNothing == [a \in Account |-> 0]
MCSpareStake == [a \in Account |-> IF a = p1 THEN 2000 ELSE 0]

\* The contract in use, at the end of round 3: the requester has deposited the
\* fees and box deposits of its requests, the voters opted in and registered a
\* key in round 1, staked in round 2 and registered with the contracts.
MCStake == 2000
\* A voter may sign with its own address, or with another participation key
MCKey == [a \in Voter |-> IF a \in PublicKey THEN a ELSE k1]
MCFees == [algo  |-> MaxRequests * (InitialSettings.algoFee + BoxCost),
           token |-> MaxRequests * InitialSettings.goraFee]

MCInit ==
    /\ now = 4
    /\ settings = InitialSettings
    /\ optedIn = Voter \cup Requester
    /\ stakeArray = [a \in Account |->
          IF a \in Voter THEN [hist |-> Entry(1, 0), cur |-> Entry(2, MCStake)]
          ELSE InitArray(1, 0)]
    /\ stakeTimeout = [a \in Account |-> IF a \in Voter THEN 4 ELSE 1]
    /\ totalStake = [hist |-> Entry(1, 0),
                     cur |-> Entry(2, MCStake * Cardinality(Voter))]
    /\ publicKey = [a \in Account |-> IF a \in Voter THEN MCKey[a] ELSE ZeroAddress]
    /\ keyTimestamp = [a \in Account |-> IF a \in Voter THEN 1 ELSE 0]
    /\ accountToken = [a \in Account |-> IF a \in Requester THEN MCFees.token ELSE 0]
    /\ accountAlgo = [a \in Account |-> IF a \in Requester THEN MCFees.algo ELSE 0]
    /\ lockedTokens = [a \in Account |-> 0]
    /\ walletToken = InitialToken
    /\ walletAlgo = InitialAlgo
    /\ vaultToken = Cardinality(Requester) * MCFees.token
                       + MCStake * Cardinality(Voter)
    /\ vaultAlgo = Cardinality(Requester) * MCFees.algo
    /\ box = [s \in Slot |-> NoBox]
    /\ algoSink = 0
    /\ tokenSink = 0
    /\ lastId = 0
    /\ deployed = VotingApp
    /\ voteRound = [v \in VotingApp |-> 0]
    /\ current = [v \in VotingApp |-> NoRequest]
    /\ proposal = [v \in VotingApp |-> [h \in VoteHash |-> NoProposal]]
    /\ history = [v \in VotingApp |-> [a \in Voter |-> EmptyVote]]
    /\ lease = [k \in PublicKey |-> [id \in RequestId |-> 0]]
    /\ resumed = {}

\* Requests and votes, with accounts as they are
RequestsNext ==
    \/ NextRound /\ UNCHANGED <<ledgerVars, votingVars>>
    \/ RequestStep /\ UNCHANGED votingVars
    \/ \E v \in VotingApp : VotingStep(v)

\* MCInit treats voters alike, and nothing tells answers or contracts apart
VoterSymmetry == Permutations(Voter)
NameSymmetry == Permutations(Answer) \cup Permutations(VotingApp)

RequestsSpec == MCInit /\ [][RequestsNext]_vars

\* One request, while voters change their keys and stakes
ParticipationNext ==
    \/ /\ \/ NextRound
          \/ \E a \in Voter :
                \/ UnregisterKey(a)
                \/ \E k \in PublicKey : RegisterKey(a, k)
                \/ \E amount \in StakeAmount : Stake(a, amount) \/ Unstake(a, amount)
       /\ UNCHANGED <<ledgerVars, votingVars>>
    \/ RequestStep /\ UNCHANGED votingVars
    \/ \E v \in VotingApp, a \in Voter, s \in Slot, answer \in Answer,
          count \in VoteCount : Vote(v, a, s, answer, count)

\* Blocks keep coming, and a requester keeps asking for its refund
Clock == NextRound /\ UNCHANGED <<ledgerVars, votingVars>>
Refunding(s) == RefundRequest(s, s[1]) /\ UNCHANGED votingVars

ParticipationSpec ==
    /\ MCInit /\ [][ParticipationNext]_vars
    /\ WF_vars(Clock)
    /\ \A s \in Slot : WF_vars(Refunding(s))
=============================================================================
