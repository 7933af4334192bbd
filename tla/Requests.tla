------------------------------ MODULE Requests ------------------------------
(***************************************************************************)
(* The request ledger of the main contract: a request is a box named by    *)
(* the hash of its requester and a key of the requester's choice.  The     *)
(* requester pays for it when it is made, may take the fee back when it    *)
(* has expired, and the voters are paid from what the box says.  What a    *)
(* vote does to the ledger is given here as operators; module Voting       *)
(* combines them with the voting contract's side of the same group.        *)
(***************************************************************************)
EXTENDS Accounts

CONSTANTS
    Requester,      \* accounts that make requests
    Key,            \* the keys a requester tells its requests apart by
    Answer,         \* response bodies that voters may propose
    VotingApp,      \* voting contracts
    BoxCost,        \* the box deposit: calc_box_cost of hash_type and RequestInfo
    MinFee,         \* Global.min_txn_fee()
    MaxRequests     \* bound: how many requests are ever made

VARIABLES
    box,            \* the request boxes of the main contract
    algoSink,       \* global "af"
    tokenSink,      \* global "tf"
    lastId          \* how many requests were made; names the next txid

ledgerVars == <<box, algoSink, tokenSink, lastId>>

\* A box name: sha512_256 of the requester's address and its key
Slot == Requester \X Key
RequestId == 1..MaxRequests

\* A vote hash covers the response body, which holds the request's id, and
\* the destination and requester, which the id determines
VoteHash == [id : RequestId, answer : Answer]

None == "none"
NoHash == [id |-> 0, answer |-> None]
NoSlot == <<None, None>>
NoBox == [kind |-> None]

\* RequestInfo, and the ProposalsEntry that replaces it on completion.  The
\* key_hash is the slot, is_history is the kind.
RequestInfo ==
    [kind : {"request"}, id : RequestId, app : VotingApp \cup {None},
     round : Nat, status : {"request_made", "processing", "refunded"},
     total : Nat, fee : Nat, votes : Nat, refunded : Nat]
CompletedInfo ==
    [kind : {"history"}, hash : VoteHash, count : Nat, stake : Nat,
     round : Nat, payed : Nat]

\* A key and an answer are arguments of a transaction, whose size is limited
ASSUME RequestAssumption ==
    /\ Requester \subseteq Account
    /\ IsFiniteSet(Key) /\ IsFiniteSet(Answer) /\ IsFiniteSet(VotingApp)
    /\ BoxCost \in Nat /\ MinFee \in Nat /\ MaxRequests \in Nat
    /\ None \notin VotingApp

-----------------------------------------------------------------------------
\* vote_refill_fund_fee: what a request sets aside to refill voting contracts.
\* The division is undefined, and the group rejected, when the two are equal.
RefillFee ==
    IF settings.refillAmount < settings.refillThreshold THEN 0
    ELSE (settings.refillAmount * MinFee)
            \div (settings.refillAmount - settings.refillThreshold)

RefillFeeDefined == settings.refillAmount # settings.refillThreshold

\* Faulty forms: refunds from the last round of the vote on, or in one round only
ExpiredEarly(b) == b.round + settings.timeLock <= now
ExpiredOnce(b) == b.round + settings.timeLock + 1 = now

\* A request may be refunded, and its votes may be, strictly after this
Expired(b) == b.round + settings.timeLock < now

IsRequest(b) == b.kind = "request"
IsHistory(b) == b.kind = "history"

\* How the contract tells the two: by the first bit of the byte in which a
\* ProposalsEntry keeps is_history.  In a RequestInfo, whose fields have other
\* widths, that bit is bit 15 of requester_algo_fee.
ReadAsHistory(b) == IsHistory(b) \/ (IsRequest(b) /\ (b.fee \div 2^15) % 2 = 1)
ReadAsRequest(b) == IsRequest(b) /\ ~ReadAsHistory(b)

\* request
MakeRequest(r, key) ==
    LET s == <<r, key>> IN
    /\ lastId < MaxRequests
    /\ r \in optedIn
    /\ Readable(totalStake, now)
    /\ accountAlgo[r] >= settings.algoFee + BoxCost
    /\ accountToken[r] >= settings.goraFee
    /\ RefillFeeDefined /\ RefillFee <= settings.algoFee
    /\ box[s] = NoBox
    /\ box' = [box EXCEPT ![s] =
          [kind |-> "request", id |-> lastId + 1, app |-> None, round |-> now,
           status |-> "request_made", total |-> StakeAt(totalStake, now),
           fee |-> settings.algoFee, votes |-> 0, refunded |-> 0]]
    /\ lastId' = lastId + 1
    /\ accountAlgo' = [accountAlgo EXCEPT ![r] = @ - settings.algoFee - BoxCost]
    /\ accountToken' = [accountToken EXCEPT ![r] = @ - settings.goraFee]
    /\ algoSink' = algoSink + settings.algoFee - RefillFee
    /\ tokenSink' = tokenSink + settings.goraFee
    /\ UNCHANGED <<now, settings, optedIn, stakeVars, keyVars, lockedTokens,
                   assetVars>>

\* The refund of a fee; requests that were proposed use this percentage too
Refund(fee) == (settings.madePct * fee) \div 100

\* refund_request, status request_made: fees and box deposit come back, to r
RefundUnproposed(s, r) ==
    LET algo == Refund(settings.algoFee)
        token == Refund(settings.goraFee)
    IN
    /\ box[s].status = "request_made"
    /\ RefillFeeDefined /\ RefillFee <= algo
    /\ algo - RefillFee <= algoSink
    /\ token <= tokenSink
    /\ accountAlgo' = [accountAlgo EXCEPT ![r] = @ + algo + BoxCost]
    /\ accountToken' = [accountToken EXCEPT ![r] = @ + token]
    /\ algoSink' = algoSink - (algo - RefillFee)
    /\ tokenSink' = tokenSink - token
    /\ box' = [box EXCEPT ![s] = NoBox]

\* The box is marked refunded; the faulty form forgets to
MarkedForgotten(s) == box
MarkedRefunded(s) == [box EXCEPT ![s].status = "refunded"]

\* refund_request, status processing: the box stays for the voters' refunds
RefundProposed(s, r) ==
    LET token == Refund(settings.goraFee) IN
    /\ box[s].status = "processing"
    /\ token <= tokenSink
    /\ accountToken' = [accountToken EXCEPT ![r] = @ + token]
    /\ tokenSink' = tokenSink - token
    /\ box' = MarkedRefunded(s)
    /\ UNCHANGED <<accountAlgo, algoSink>>

\* refund_request, sent by any account r: the contract compares the sender with
\* the requester that it is told, and neither with the box
RefundRequest(s, r) ==
    /\ r \in optedIn
    /\ ReadAsRequest(box[s])
    /\ Expired(box[s])
    /\ RefundUnproposed(s, r) \/ RefundProposed(s, r)
    /\ UNCHANGED <<now, settings, optedIn, stakeVars, keyVars, lockedTokens,
                   assetVars, lastId>>

-----------------------------------------------------------------------------
(* update_rewards: the settlement of an account's previous vote, made when it *)
(* votes again or claims.  A vote is what the voting contract keeps of it.    *)

PPM == 1000000

EmptyVote == [slot |-> NoSlot, hash |-> NoHash, count |-> 0, stake |-> 0,
              round |-> 0]
Votes == {EmptyVote} \cup
    [slot : Slot, hash : VoteHash, count : Nat, stake : Nat, round : Nat]

BoxOf(vote) == IF vote = EmptyVote THEN NoBox ELSE box[vote.slot]

\* Faulty form: a vote for any proposal wins
WonByAny(vote) == IsHistory(BoxOf(vote))

\* The request was completed with this very proposal
Won(vote) == IsHistory(BoxOf(vote)) /\ BoxOf(vote).hash = vote.hash

\* The request's vote ended without a decision
Lapsed(vote) ==
    /\ ReadAsRequest(BoxOf(vote))
    /\ Expired(BoxOf(vote))
    /\ BoxOf(vote).status \in {"refunded", "processing"}

RewardPoints(vote) == (vote.count * PPM) \div BoxOf(vote).count
RewardOf(vote, fee) == (RewardPoints(vote) * fee) \div PPM

\* The last winner to be paid: the box goes
LastReward(vote) == BoxOf(vote).payed + vote.stake = BoxOf(vote).stake

\* Faulty forms: the refund is not limited to what is left of the fee, and the
\* box goes with the last vote refund whether or not the fee was refunded
VoteRefundInFull(vote) == 2 * MinFee
LastRefundAnyStatus(vote) == BoxOf(vote).refunded + vote.count >= BoxOf(vote).votes

\* A lapsed vote gives back the two transaction fees it cost, while they last
VoteRefund(vote) == IF BoxOf(vote).fee >= 2 * MinFee THEN 2 * MinFee ELSE BoxOf(vote).fee
LastRefund(vote) ==
    /\ BoxOf(vote).status = "refunded"
    /\ \/ BoxOf(vote).refunded + vote.count >= BoxOf(vote).votes
       \/ BoxOf(vote).fee = VoteRefund(vote)

ClosesBox(vote) == (Won(vote) /\ LastReward(vote)) \/ (Lapsed(vote) /\ LastRefund(vote))

\* A division by zero, or a credit to a requester without local state, rejects
Settleable(vote) ==
    /\ Won(vote) => BoxOf(vote).count > 0
    /\ ClosesBox(vote) => vote.slot[1] \in optedIn

\* The boxes, and the algo and token balances, after the settlement
SettledBoxes(vote) ==
    IF ClosesBox(vote) THEN [box EXCEPT ![vote.slot] = NoBox]
    ELSE IF Won(vote) THEN [box EXCEPT ![vote.slot].payed = @ + vote.stake]
    ELSE IF Lapsed(vote)
         THEN [box EXCEPT ![vote.slot].fee = @ - VoteRefund(vote),
                          ![vote.slot].refunded = @ + vote.count]
    ELSE box

VoterAlgo(vote) ==
    IF Won(vote) THEN RewardOf(vote, settings.algoFee)
    ELSE IF Lapsed(vote) THEN VoteRefund(vote) ELSE 0

RequesterAlgo(vote) ==
    IF Won(vote) THEN BoxCost ELSE BoxCost + BoxOf(vote).fee - VoteRefund(vote)

SettledAlgo(vote, payee) ==
    LET paid == [accountAlgo EXCEPT ![payee] = @ + VoterAlgo(vote)] IN
    IF ClosesBox(vote)
    THEN [paid EXCEPT ![vote.slot[1]] = @ + RequesterAlgo(vote)]
    ELSE paid

SettledToken(vote, payee) ==
    IF Won(vote)
    THEN [accountToken EXCEPT ![payee] = @ + RewardOf(vote, settings.goraFee)]
    ELSE accountToken

-----------------------------------------------------------------------------
RequestsInit ==
    /\ Init
    /\ box = [s \in Slot |-> NoBox]
    /\ algoSink = 0
    /\ tokenSink = 0
    /\ lastId = 0

RequestStep ==
    \E s \in Slot :
       \/ MakeRequest(s[1], s[2])
       \/ \E r \in Account : RefundRequest(s, r)

=============================================================================
