------------------------------- MODULE Voting -------------------------------
(***************************************************************************)
(* The voting contracts, composed with the main contract that deploys      *)
(* them.  A vote is one group: the main contract settles the voter's       *)
(* previous vote and counts the new one, then the voting contract starts a *)
(* round if it must, records the vote, and when the tally reaches the      *)
(* threshold calls the destination and has the request completed.          *)
(*                                                                         *)
(* A vote's arguments belong together (the request of the body, its box,   *)
(* its requester), as in the client code of the repository.  The two calls *)
(* of its group do too: `vote` rejects a group in which the call before it *)
(* is not the settlement of the same voter's own last vote, so where it    *)
(* succeeds, what both calls do is the action Vote.  The main contract     *)
(* checks no such thing of the call after its own; a settlement that no    *)
(* vote follows is not modelled.  The algo that the main contract lends to *)
(* voting contracts for their fees is not tracked.                         *)
(***************************************************************************)
EXTENDS Requests

CONSTANTS
    Voter,            \* primary accounts that vote
    VoteCount,        \* vote counts the sortition may yield
    RejectingKey      \* keys of requests whose destination app rejects

VARIABLES
    deployed,         \* the voting contracts that exist
    voteRound,        \* per contract: global "r"
    current,          \* per contract: current_request_info
    proposal,         \* per contract: the proposal boxes
    history,          \* per contract: the voters' boxes, their last votes
    lease,            \* per sender and request: last round its lease is held
    resumed           \* history variable: requests whose vote was taken up again
                      \* after their contract had turned to another request

votingVars == <<deployed, voteRound, current, proposal, history, lease, resumed>>
vars == <<accountVars, ledgerVars, votingVars>>

NoRequest  == [id |-> 0, round |-> 0, total |-> 0, slot |-> NoSlot]
NoProposal == [count |-> 0, stake |-> 0, round |-> 0]
Proposals  == [count : Nat, stake : Nat, round : Nat \ {0}]
\* No box: told apart from a vote by its round
NotRegistered == [EmptyVote EXCEPT !.round = -1]

ASSUME VotingAssumption ==
    /\ Voter \subseteq Account
    /\ VoteCount \subseteq Nat
    /\ RejectingKey \subseteq Key

VotingInit ==
    /\ RequestsInit
    /\ deployed = {}
    /\ voteRound = [v \in VotingApp |-> 0]
    /\ current = [v \in VotingApp |-> NoRequest]
    /\ proposal = [v \in VotingApp |-> [h \in VoteHash |-> NoProposal]]
    /\ history = [v \in VotingApp |-> [a \in Voter |-> NotRegistered]]
    /\ lease = [k \in PublicKey |-> [id \in RequestId |-> 0]]
    /\ resumed = {}

Registered(v, a) == history[v][a] # NotRegistered

\* deploy_voting_contract, sent by the manager
DeployVotingContract(v) ==
    /\ v \notin deployed
    /\ deployed' = deployed \cup {v}
    /\ UNCHANGED <<accountVars, ledgerVars, voteRound, current, proposal,
                   history, lease, resumed>>

\* get_primary_account: the transaction is signed by the account's key
HasKey(a) == a \in optedIn /\ publicKey[a] # ZeroAddress

\* register_voter, paid for with the deposits of two boxes
RegisterVoter(v, a) ==
    /\ v \in deployed
    /\ HasKey(a)
    /\ ~Registered(v, a)
    /\ history' = [history EXCEPT ![v][a] = EmptyVote]
    /\ UNCHANGED <<accountVars, ledgerVars, deployed, voteRound, current,
                   proposal, lease, resumed>>

\* The proposal boxes of v without the one the vote is for
WithoutProposalOf(v, vote) ==
    [h \in VoteHash |-> IF h = vote.hash THEN NoProposal ELSE proposal[v][h]]

\* deregister_voter
DeregisterVoter(v, a) ==
    /\ v \in deployed
    /\ HasKey(a)
    /\ Registered(v, a)
    /\ history[v][a].round < voteRound[v]
    /\ proposal' = [proposal EXCEPT ![v] = WithoutProposalOf(v, history[v][a])]
    /\ history' = [history EXCEPT ![v][a] = NotRegistered]
    /\ UNCHANGED <<accountVars, ledgerVars, deployed, voteRound, current, lease,
                   resumed>>

\* delete_box: anybody may delete a proposal of an earlier round
DeleteBox(v, h) ==
    /\ v \in deployed
    /\ proposal[v][h] # NoProposal
    /\ proposal[v][h].round < voteRound[v]
    /\ proposal' = [proposal EXCEPT ![v][h] = NoProposal]
    /\ UNCHANGED <<accountVars, ledgerVars, deployed, voteRound, current,
                   history, lease, resumed>>

\* What reset_previous_vote leaves of a vote
ResetVote(v, a) == IF a \in optedIn THEN EmptyVote ELSE NotRegistered

\* claim_rewards and reset_previous_vote in one group, sent by any account.  Each
\* call checks that the other is there and names the same vote; neither that the
\* account to be paid is the voter.
ClaimRewards(v, a, payee) ==
    LET vote == history[v][a] IN
    /\ v \in deployed
    /\ Registered(v, a)
    /\ vote.round < voteRound[v]
    /\ payee \in optedIn
    /\ Settleable(vote)
    /\ box' = SettledBoxes(vote)
    /\ accountAlgo' = SettledAlgo(vote, payee)
    /\ accountToken' = SettledToken(vote, payee)
    /\ history' = [history EXCEPT ![v][a] = ResetVote(v, a)]
    /\ UNCHANGED <<now, settings, optedIn, stakeVars, keyVars, lockedTokens,
                   assetVars, algoSink, tokenSink, lastId, deployed, voteRound,
                   current, proposal, lease, resumed>>

-----------------------------------------------------------------------------
(* vote, with claim_rewards_vote_verify before it in the group *)

\* The request box after the main contract has settled the voter's last vote
RequestAt(s, vote) == SettledBoxes(vote)[s]

\* populate_request_info: a round starts unless the contract is already voting
\* on this request
StartsRound(v, req) == current[v].id # req.id

\* Faulty form: any contract may take any request up
MayStartAnywhere(v, req) ==
    current[v] # NoRequest => now >= current[v].round + settings.timeLock

\* start_new_round: the contract is idle or its request is past its time lock,
\* and no other contract has taken the request up
MayStartRound(v, req) ==
    /\ current[v] # NoRequest => now >= current[v].round + settings.timeLock
    /\ req.app \in {None, v}

\* What the contract knows of the request it votes on
Subject(v, s, req) ==
    IF StartsRound(v, req)
    THEN [id |-> req.id, round |-> req.round, total |-> req.total, slot |-> s]
    ELSE current[v]

\* A request that v takes up for the second time was displaced before
ResumedBy(v, req) == IF StartsRound(v, req) /\ req.app = v THEN {req.id} ELSE {}

\* Faulty form: the vote transaction is not leased
LeaseIgnored(k, id, round) == round < now /\ now <= round + settings.timeLock

\* validate_lease: first_valid is after the request's round, last_valid is the
\* end of its time lock, and the chain holds the lease until then
LeaseGranted(k, id, round) ==
    /\ round < now
    /\ now <= round + settings.timeLock
    /\ lease[k][id] < now

\* get_local_stake and is_valid_participant
ValidParticipant(a, round) ==
    /\ Readable(stakeArray[a], round)
    /\ StakeAt(stakeArray[a], round) > 0
    /\ now >= keyTimestamp[a] + settings.timeLock

\* The committee is expected to be a thousandth of the stake
Decided(tally, total) ==
    tally.count * 100 >= (settings.threshold * total) \div 1000

\* update_request_vote_tally and update_request_status on the request's box
VotedBox(v, s, req, h, count, tally, total) ==
    IF Decided(tally, total)
    THEN [kind |-> "history", hash |-> h, count |-> tally.count,
          stake |-> tally.stake, round |-> tally.round, payed |-> 0]
    ELSE IF StartsRound(v, req)
         THEN [req EXCEPT !.votes = @ + count, !.status = "processing", !.app = v]
    ELSE [req EXCEPT !.votes = @ + count]

Vote(v, a, s, answer, count) ==
    LET prev    == history[v][a]
        req     == RequestAt(s, prev)
        subject == Subject(v, s, req)
        round   == IF StartsRound(v, req) THEN voteRound[v] + 1 ELSE voteRound[v]
        hash    == [id |-> req.id, answer |-> answer]
        stake   == StakeAt(stakeArray[a], subject.round)
        others  == WithoutProposalOf(v, prev)
        tally   == [count |-> others[hash].count + count,
                    stake |-> others[hash].stake + stake, round |-> round]
        done    == Decided(tally, subject.total)
    IN
    /\ v \in deployed
    /\ HasKey(a)
    /\ Registered(v, a)
    /\ Settleable(prev)
    /\ ReadAsRequest(req)
    /\ StartsRound(v, req) => MayStartRound(v, req)
    /\ LeaseGranted(publicKey[a], req.id, subject.round)
    /\ ValidParticipant(a, subject.round)
    /\ prev.round < round
    /\ subject.total > 0
    /\ done => s[2] \notin RejectingKey /\ s[1] \in optedIn
    /\ box' = [SettledBoxes(prev) EXCEPT ![s] =
                  VotedBox(v, s, req, hash, count, tally, subject.total)]
    /\ accountAlgo' =
          IF done THEN [SettledAlgo(prev, a) EXCEPT ![s[1]] = @ + BoxCost]
          ELSE SettledAlgo(prev, a)
    /\ accountToken' = SettledToken(prev, a)
    /\ proposal' = [proposal EXCEPT ![v] = [others EXCEPT ![hash] = tally]]
    /\ history' = [history EXCEPT ![v][a] =
          [slot |-> s, hash |-> hash, count |-> count, stake |-> stake,
           round |-> round]]
    /\ voteRound' = [voteRound EXCEPT ![v] = round]
    /\ current' = [current EXCEPT ![v] = IF done THEN NoRequest ELSE subject]
    /\ lease' = [lease EXCEPT ![publicKey[a]][req.id] =
                    subject.round + settings.timeLock]
    /\ resumed' = resumed \cup ResumedBy(v, req)
    /\ UNCHANGED <<now, settings, optedIn, stakeVars, keyVars, lockedTokens,
                   assetVars, algoSink, tokenSink, lastId, deployed>>

-----------------------------------------------------------------------------
VotingStep(v) ==
    \/ DeployVotingContract(v)
    \/ \E h \in VoteHash : DeleteBox(v, h)
    \/ \E a \in Voter :
          \/ RegisterVoter(v, a)
          \/ DeregisterVoter(v, a)
          \/ \E payee \in Account : ClaimRewards(v, a, payee)
          \/ \E s \in Slot, answer \in Answer, count \in VoteCount :
                Vote(v, a, s, answer, count)

VotingNext ==
    \/ Next /\ UNCHANGED <<ledgerVars, votingVars>>
    \/ RequestStep /\ UNCHANGED votingVars
    \/ \E v \in VotingApp : VotingStep(v)

VotingSpec == VotingInit /\ [][VotingNext]_vars

-----------------------------------------------------------------------------
\* The type invariant
VotingTypeOK ==
    /\ TypeOK
    /\ box \in [Slot -> {NoBox} \cup RequestInfo \cup CompletedInfo]
    /\ algoSink \in Nat /\ tokenSink \in Nat
    /\ lastId \in 0..MaxRequests
    /\ deployed \subseteq VotingApp
    /\ voteRound \in [VotingApp -> Nat]
    /\ current \in [VotingApp -> {NoRequest} \cup
          [id : RequestId, round : Nat, total : Nat, slot : Slot]]
    /\ proposal \in [VotingApp -> [VoteHash -> {NoProposal} \cup Proposals]]
    /\ history \in [VotingApp -> [Voter -> Votes \cup {NotRegistered}]]
    /\ lease \in [PublicKey -> [RequestId -> Nat]]
    /\ resumed \subseteq RequestId

ProposalsFor(id) == {h \in VoteHash : h.id = id}

\* No stake votes twice: the stakes behind all proposals for a request never
\* add up to more than the stake the request recorded when it was made.  It
\* rests on the lease a vote takes on the voter's key, on the lock of a new key,
\* which outlasts every request made before, and on the stakes being read as of
\* the request's round.
TallyWithinStake ==
    [][ \A s \in Slot, v \in VotingApp :
          IsRequest(box[s]) =>
             SumOver([h \in VoteHash |-> proposal'[v][h].stake],
                     ProposalsFor(box[s].id)) <= box[s].total ]_vars

\* A request is voted on by the one contract its box names.
OneContractPerRequest ==
    \A s \in Slot, v \in VotingApp :
       /\ IsRequest(box[s])
       /\ \/ current[v].id = box[s].id
          \/ \E h \in ProposalsFor(box[s].id) : proposal[v][h] # NoProposal
       => box[s].app = v

\* The votes that voters have at the contracts, and those among them that may
\* still claim from the completed box s
Voters == VotingApp \X Voter
VoteOf(c) == history[c[1]][c[2]]
Unclaimed(s) == {c \in Voters : VoteOf(c).slot = s /\ Won(VoteOf(c))}

\* What was paid for the completed request s, and what its winners may still
\* claim, stay within the winning stake and vote count.
Balanced(s) ==
    /\ box[s].payed + SumOver([c \in Voters |-> VoteOf(c).stake], Unclaimed(s))
          <= box[s].stake
    /\ SumOver([c \in Voters |-> VoteOf(c).count], Unclaimed(s)) <= box[s].count

\* The book of a completed request is never overdrawn, so that its box is deleted
\* at the last claim or never, and not before.  Excepted are requests that were
\* displaced in the last round of their vote and taken up again in that round,
\* as the code allows: DisplacedHaveExpired.
RewardsBalanced ==
    \A s \in Slot : IsHistory(box[s]) /\ box[s].hash.id \notin resumed => Balanced(s)

\* The rewards out of a fee that the winners of a completed request may still
\* claim: none when the winners were drawn no votes, as nothing can be divided
RewardsDue(s, fee) ==
    IF IsHistory(box[s]) /\ box[s].count > 0
    THEN SumOver([c \in Voters |-> RewardOf(VoteOf(c), fee)], Unclaimed(s))
    ELSE 0

\* Tokens that a request still has to pay: its fee, or its winners' rewards
TokensDue(s) ==
    IF IsRequest(box[s]) /\ box[s].status # "refunded" THEN settings.goraFee
    ELSE RewardsDue(s, settings.goraFee)

\* A fee is refunded or shared out, never both and never twice: balances,
\* stakes and what requests still owe stay within the tokens in the vault.
\* It needs settings that do not change while requests are open, and books that
\* balance: the tokens are common to all requests, so one overdrawn book is
\* paid by the others.
FeesCovered ==
    resumed = {} =>
       SumOver([a \in Account |-> stakeArray[a].cur.stake + accountToken[a]
                                     + lockedTokens[a]], optedIn)
         + SumOver([s \in Slot |-> TokensDue(s)], Slot)
           <= vaultToken

\* No refund is blocked by an unsigned subtraction: the fee sinks hold the
\* refunds of all requests that may still ask for one.
SinksCoverRefunds ==
    LET open(statuses) == {s \in Slot : IsRequest(box[s]) /\ box[s].status \in statuses}
    IN /\ Cardinality(open({"request_made", "processing"})) * Refund(settings.goraFee)
             <= tokenSink
       /\ Cardinality(open({"request_made"})) * (Refund(settings.algoFee) - RefillFee)
             <= algoSink

-----------------------------------------------------------------------------
(* Each box is a request life, with what the request still owes *)
StageOf(s) ==
    IF IsRequest(box[s]) THEN box[s].status
    ELSE IF IsHistory(box[s]) THEN "completed" ELSE "none"

Life(s) == INSTANCE RequestLifecycle WITH
    Fee   <- InitialSettings.goraFee,
    stage <- StageOf(s),
    votes <- IF IsRequest(box[s]) THEN box[s].votes ELSE 0,
    owed  <- TokensDue(s)

\* The request of a box, if any
RequestOf(s) ==
    IF IsRequest(box[s]) THEN {box[s].id}
    ELSE IF IsHistory(box[s]) THEN {box[s].hash.id} ELSE {}

\* Neither the request that is in box s nor the one that comes to be there was
\* taken up again
NotResumed(s) == (RequestOf(s) \cup RequestOf(s)') \cap resumed' = {}

\* Every request box implements the request lifecycle, whatever other groups
\* happen between the steps of its own, and whether or not its request was
\* displaced: only one that is taken up again leaves it.
RequestsFollowLifecycle ==
    /\ \A s \in Slot : Life(s)!LifeInit
    /\ [][\A s \in Slot : NotResumed(s) => Life(s)!LifeStep]_vars

\* A request that is not decided is refundable: if its requester keeps asking,
\* it is completed or refunded in the end and the fee is never stuck.  Requests
\* that the bound on rounds leaves no time to expire are not meant.
RequestsSettle ==
    \A s \in Slot :
       /\ StageOf(s) \in {"request_made", "processing"}
       /\ box[s].round + settings.timeLock < MaxRound
       ~> StageOf(s) \notin {"request_made", "processing"}

-----------------------------------------------------------------------------
(* Statements of the release notes that the code contradicts *)

\* "The contract will ensure that the old request has actually expired" before a
\* round is started for another: no votes are added to a request then, and its
\* book balances like any other.
DisplacedHaveExpired == \A s \in Slot : IsHistory(box[s]) => Balanced(s)

\* "the amount needed to pay for the box is deducted from their account algo"
\* and refunded "when a request completes": the algo of the accounts, with what
\* open requests and unclaimed rewards still owe, is algo that was deposited.
AlgoDue(s) ==
    IF IsRequest(box[s]) THEN BoxCost + box[s].fee ELSE RewardsDue(s, settings.algoFee)

BoxDepositReturnedOnce ==
    SumOver(accountAlgo, optedIn) + SumOver([s \in Slot |-> AlgoDue(s)], Slot)
        <= vaultAlgo

=============================================================================
