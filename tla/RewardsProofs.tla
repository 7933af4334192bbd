--------------------------- MODULE RewardsProofs ---------------------------
(***************************************************************************)
(* What a request pays and how it lives, for every set of accounts,        *)
(* requests, contracts and answers: the books of rewards balance, the      *)
(* vault holds what is owed, and every box implements RequestLifecycle.  A *)
(* request may be displaced while it can be voted on; what is said of a    *)
(* request is said as long as its vote is not taken up again after that.   *)
(***************************************************************************)
EXTENDS VotingProofs

-----------------------------------------------------------------------------
(* The inductive invariant *)

\* Votes on a request count until its time lock is over.  Requests that were
\* taken up again are left aside.
Votable(s) == IsRequest(box[s]) /\ ~Expired(box[s])
Live(s) == Votable(s) /\ box[s].id \notin resumed

\* The votes that were given for a proposal, and what is behind it
Backers(h)  == {c \in Voters : VoteOf(c).hash = h}
VotedStake  == [c \in Voters |-> VoteOf(c).stake]
VotedCount  == [c \in Voters |-> VoteOf(c).count]

KnownVotes == \A c \in Voters : VoteOf(c).hash.id <= lastId

\* While a contract is in the round of a request that can be voted on, the votes
\* and proposals for it are of this round; all its votes are at the contract
\* named in its box
LiveVotes ==
    \A s \in Slot, c \in Voters : Live(s) /\ VoteOf(c).hash.id = box[s].id =>
       /\ box[s].app = c[1]
       /\ current[c[1]].id = box[s].id => VoteOf(c).round = voteRound[c[1]]
LiveProposals ==
    \A s \in Slot, v \in VotingApp, h \in VoteHash :
       Live(s) /\ h.id = box[s].id /\ current[v].id = box[s].id
          /\ proposal[v][h] # NoProposal => proposal[v][h].round = voteRound[v]

\* and a proposal's tally has all the votes that voters keep for it
Counted(v, h) ==
    /\ SumOver(VotedStake, Backers(h)) <= proposal[v][h].stake
    /\ SumOver(VotedCount, Backers(h)) <= proposal[v][h].count
VotesCounted ==
    \A s \in Slot, h \in VoteHash, v \in VotingApp :
       Live(s) /\ h.id = box[s].id /\ box[s].app = v /\ current[v].id = box[s].id
          => Counted(v, h)

VotesInv == KnownVotes /\ LiveVotes /\ LiveProposals /\ VotesCounted

\* What RewardsBalanced says of one box
BookBalanced(s) ==
    /\ box[s].payed + SumOver(VotedStake, Unclaimed(s)) <= box[s].stake
    /\ SumOver(VotedCount, Unclaimed(s)) <= box[s].count

LEMMA BalancedBoxes ==
    RewardsBalanced <=>
       \A s \in Slot : IsHistory(box[s]) /\ box[s].hash.id \notin resumed => BookBalanced(s)
BY DEF RewardsBalanced, Balanced, BookBalanced, VotedStake, VotedCount

LEMMA BalancedBoxesNext ==
    RewardsBalanced' <=>
       \A s \in Slot : IsHistory(box'[s]) /\ box'[s].hash.id \notin resumed' => BookBalanced(s)'
BY DEF RewardsBalanced, Balanced, BookBalanced, VotedStake, VotedCount, Voters, VoteOf

-----------------------------------------------------------------------------
(* Votes and their sums *)

LEMMA VotersFinite ==
    /\ IsFiniteSet(Voters)
    /\ \A T \in SUBSET Voters : IsFiniteSet(T)
    /\ \A c \in Voters : c[1] \in VotingApp /\ c[2] \in Voter /\ c = <<c[1], c[2]>>
<1>1. IsFiniteSet(Voter)
  BY FS_Subset, VotingAssumption, AccountAssumption
<1>2. IsFiniteSet(Voters)
  BY <1>1, FS_Product, RequestAssumption DEF Voters
<1> QED BY <1>2, FS_Subset DEF Voters

NoVotes == Votes \cup {NotRegistered}

LEMMA VoteFields ==
    ASSUME NEW w \in NoVotes
    PROVE  /\ w.stake \in Nat /\ w.count \in Nat /\ w.round \in Int /\ w.hash.id \in Nat
           /\ w.hash \in VoteHash => w \in Votes /\ w # EmptyVote
           /\ w # EmptyVote /\ w # NotRegistered => w.hash \in VoteHash /\ w.slot \in Slot
<1>0. \A id \in RequestId : id \in Nat /\ id > 0
  BY RequestAssumption DEF RequestId
<1>1. NoHash \notin VoteHash
  <2>1. ASSUME NEW h \in VoteHash PROVE h.id # 0
    BY <1>0 DEF VoteHash
  <2> QED BY <2>1 DEF NoHash
<1>2. CASE w = EmptyVote
  BY <1>1, <1>2 DEF EmptyVote, NoHash, Votes
<1>3. CASE w = NotRegistered
  BY <1>1, <1>3 DEF NotRegistered, EmptyVote, NoHash
<1>4. CASE w # EmptyVote /\ w # NotRegistered
  <2>1. w \in [slot : Slot, hash : VoteHash, count : Nat, stake : Nat, round : Nat]
    BY <1>4 DEF NoVotes, Votes
  <2>2. w.hash.id \in Nat
    BY <1>0, <2>1 DEF VoteHash
  <2> QED BY <1>4, <2>1, <2>2 DEF NoVotes
<1> QED BY <1>2, <1>3, <1>4

LEMMA VotesTyped ==
    ASSUME VotingTypeOK
    PROVE  /\ \A c \in Voters : /\ VoteOf(c) \in NoVotes
                                /\ VotedStake[c] = VoteOf(c).stake /\ VotedStake[c] \in Nat
                                /\ VotedCount[c] = VoteOf(c).count /\ VotedCount[c] \in Nat
           /\ \A v \in VotingApp, h \in VoteHash :
                 proposal[v][h].stake \in Nat /\ proposal[v][h].count \in Nat
<1>1. \A c \in Voters : VoteOf(c) \in NoVotes
  BY VotersFinite DEF VotingTypeOK, VoteOf, NoVotes
<1>2. \A p \in {NoProposal} \cup Proposals : p.stake \in Nat /\ p.count \in Nat
  BY DEF NoProposal, Proposals
<1> QED BY <1>1, <1>2, VoteFields DEF VotedStake, VotedCount, VotingTypeOK

LEMMA VotesTypedNext ==
    ASSUME VotingTypeOK'
    PROVE  /\ \A c \in Voters : /\ VoteOf(c)' \in NoVotes
                                /\ VotedStake'[c] = VoteOf(c)'.stake /\ VotedStake'[c] \in Nat
                                /\ VotedCount'[c] = VoteOf(c)'.count /\ VotedCount'[c] \in Nat
           /\ \A v \in VotingApp, h \in VoteHash :
                 proposal'[v][h].stake \in Nat /\ proposal'[v][h].count \in Nat
<1>1. \A c \in Voters : VoteOf(c)' \in NoVotes
  BY VotersFinite DEF VotingTypeOK, VoteOf, NoVotes
<1>2. \A p \in {NoProposal} \cup Proposals : p.stake \in Nat /\ p.count \in Nat
  BY DEF NoProposal, Proposals
<1> QED BY <1>1, <1>2, VoteFields DEF VotedStake, VotedCount, VotingTypeOK

\* A vote won whose proposal completed the box
WinnersOf(s) == {c \in Voters : VoteOf(c).slot = s /\ VoteOf(c).hash = box[s].hash}

LEMMA UnclaimedVotes ==
    ASSUME VotingTypeOK, NEW s \in Slot, IsHistory(box[s])
    PROVE  Unclaimed(s) = WinnersOf(s)
<1>1. box[s].hash \in VoteHash
  BY BoxKinds DEF VotingTypeOK, Boxes, CompletedInfo
<1> SUFFICES ASSUME NEW c \in Voters, VoteOf(c).slot = s
             PROVE  Won(VoteOf(c)) <=> VoteOf(c).hash = box[s].hash
  BY DEF Unclaimed, WinnersOf
<1>2. VoteOf(c) \in NoVotes
  BY VotesTyped
<1>3. CASE VoteOf(c) = EmptyVote
  <2>1. VoteOf(c).hash \notin VoteHash /\ ~IsHistory(BoxOf(VoteOf(c)))
    BY <1>2, <1>3, VoteFields DEF BoxOf, IsHistory, NoBox, None
  <2> QED BY <1>1, <2>1 DEF Won
<1>4. CASE VoteOf(c) # EmptyVote
  BY <1>4 DEF BoxOf, Won
<1> QED BY <1>3, <1>4

LEMMA UnclaimedVotesNext ==
    ASSUME VotingTypeOK', NEW s \in Slot, IsHistory(box'[s])
    PROVE  Unclaimed(s)' = WinnersOf(s)'
<1>1. box'[s].hash \in VoteHash
  BY BoxKinds DEF VotingTypeOK, Boxes, CompletedInfo
<1> SUFFICES ASSUME NEW c \in Voters, VoteOf(c)'.slot = s
             PROVE  Won(VoteOf(c))' <=> VoteOf(c)'.hash = box'[s].hash
  BY DEF Unclaimed, WinnersOf, Voters
<1>2. VoteOf(c)' \in NoVotes
  BY VotesTypedNext
<1>3. CASE VoteOf(c)' = EmptyVote
  <2>1. VoteOf(c)'.hash \notin VoteHash /\ ~IsHistory(BoxOf(VoteOf(c))')
    BY <1>2, <1>3, VoteFields DEF BoxOf, IsHistory, NoBox, None
  <2> QED BY <1>1, <2>1 DEF Won
<1>4. CASE VoteOf(c)' # EmptyVote
  BY <1>4 DEF BoxOf, Won
<1> QED BY <1>3, <1>4

-----------------------------------------------------------------------------
(* The book of one completed request *)

\* Between two states the book of a box goes on: it is the same request, and
\* what is paid out of it is paid to the voter whose vote goes
BookGoesOn(t, c) ==
    /\ IsHistory(box[t]) /\ box'[t].hash = box[t].hash
    /\ box'[t].stake = box[t].stake /\ box'[t].count = box[t].count
    /\ box'[t].payed <= box[t].payed
          + (IF VoteOf(c).slot = t /\ VoteOf(c).hash = box[t].hash THEN VoteOf(c).stake ELSE 0)
    /\ \A d \in Voters \ {c} : VoteOf(d)' = VoteOf(d)
    /\ ~(VoteOf(c)'.slot = t /\ VoteOf(c)'.hash = box[t].hash)

\* A book from which claims only go stays balanced.
LEMMA BookKept ==
    ASSUME VotingTypeOK, VotingTypeOK', NEW t \in Slot, NEW c \in Voters,
           BookGoesOn(t, c), IsHistory(box'[t]), BookBalanced(t)
    PROVE  BookBalanced(t)'
<1> DEFINE U == WinnersOf(t)
           W == WinnersOf(t)'
<1>1. Unclaimed(t) = U /\ Unclaimed(t)' = W
  BY UnclaimedVotes, UnclaimedVotesNext DEF BookGoesOn
<1>2. W = U \ {c}
  BY DEF BookGoesOn, WinnersOf, Voters
<1>3. U \in SUBSET Voters /\ IsFiniteSet(U) /\ IsFiniteSet(U \ {c})
  BY VotersFinite DEF WinnersOf
<1>4. /\ \A d \in U : VotedStake[d] \in Nat /\ VotedCount[d] \in Nat
      /\ \A d \in U \ {c} : /\ VotedStake'[d] \in Nat /\ VotedStake'[d] = VotedStake[d]
                            /\ VotedCount'[d] \in Nat /\ VotedCount'[d] = VotedCount[d]
  BY <1>3, VotesTyped, VotesTypedNext DEF BookGoesOn
<1>5. /\ box[t].payed \in Nat /\ box[t].stake \in Nat /\ box[t].count \in Nat
      /\ box'[t].payed \in Nat
  BY BoxKinds DEF VotingTypeOK, Boxes, CompletedInfo, BookGoesOn
<1>6. c \in U <=> VoteOf(c).slot = t /\ VoteOf(c).hash = box[t].hash
  BY DEF WinnersOf
<1>7. VoteOf(c).stake = VotedStake[c] /\ VotedStake[c] \in Nat /\ VotedCount[c] \in Nat
  BY VotesTyped
<1> DEFINE f == SumOver(VotedStake, U)
           g == SumOver(VotedCount, U)
           f2 == SumOver(VotedStake', W)
           g2 == SumOver(VotedCount', W)
<1>8. f \in Nat /\ g \in Nat /\ f2 \in Nat /\ g2 \in Nat
  <2> HIDE DEF U, W
  <2> QED BY <1>2, <1>3, <1>4, SumNat
<1>9. c \in U => f2 = f - VotedStake[c] /\ g2 = g - VotedCount[c]
  <2> HIDE DEF U, W, f, g, f2, g2
  <2> SUFFICES ASSUME c \in U
               PROVE  f2 = f - VotedStake[c] /\ g2 = g - VotedCount[c]
    OBVIOUS
  <2> DEFINE p == VotedStake
             p2 == VotedStake'
             q == VotedCount
             q2 == VotedCount'
  <2>1. /\ \A d \in U : p[d] \in Int /\ q[d] \in Int
        /\ \A d \in U \ {c} : p2[d] = p[d] /\ q2[d] = q[d]
    BY <1>4
  <2>0. p[c] \in Int /\ SumOver(p, U) \in Int /\ q[c] \in Int /\ SumOver(q, U) \in Int
    BY <1>7, <1>8 DEF f, g
  <2> HIDE DEF p, p2, q, q2
  <2>2. /\ SumOver(p2, U \ {c}) = SumOver(p, U) - p[c]
        /\ SumOver(q2, U \ {c}) = SumOver(q, U) - q[c]
    BY <1>3, <2>0, <2>1, SumLeave
  <2> QED BY <1>2, <2>2 DEF p, p2, q, q2, f, g, f2, g2
<1>10. c \notin U => f2 = f /\ g2 = g
  <2> HIDE DEF U, W
  <2> SUFFICES ASSUME c \notin U PROVE f2 = f /\ g2 = g
    OBVIOUS
  <2>1. W = U
    BY <1>2
  <2>2. \A d \in U : /\ VotedStake'[d] \in Int /\ VotedStake'[d] = VotedStake[d]
                     /\ VotedCount'[d] \in Int /\ VotedCount'[d] = VotedCount[d]
    BY <1>4
  <2> QED BY <1>3, <2>1, <2>2, SumSame
<1>11. box[t].payed + f <= box[t].stake /\ g <= box[t].count
  BY <1>1 DEF BookBalanced
<1>12. /\ box'[t].payed <= box[t].payed + (IF c \in U THEN VotedStake[c] ELSE 0)
       /\ box'[t].stake = box[t].stake /\ box'[t].count = box[t].count
  BY <1>6, <1>7 DEF BookGoesOn
<1> HIDE DEF f, g, f2, g2
<1>13. box'[t].payed + f2 <= box'[t].stake /\ g2 <= box'[t].count
  BY <1>5, <1>7, <1>8, <1>9, <1>10, <1>11, <1>12
<1> QED BY <1>1, <1>13 DEF BookBalanced, f2, g2

\* A settlement enters a reward in the book of the winning vote, and leaves all
\* other books as they are.
LEMMA SettledHistory ==
    ASSUME VotingTypeOK, NEW vote \in Votes, NEW t \in Slot,
           IsHistory(SettledBoxes(vote)[t])
    PROVE  LET b == SettledBoxes(vote)[t] IN
           /\ IsHistory(box[t]) /\ b.hash = box[t].hash
           /\ b.stake = box[t].stake /\ b.count = box[t].count
           /\ b.payed = box[t].payed
                 + (IF vote.slot = t /\ vote.hash = box[t].hash THEN vote.stake ELSE 0)
<1> DEFINE b == SettledBoxes(vote)[t]
<1>0. box \in [Slot -> Boxes] /\ ~IsHistory(NoBox)
  BY DEF VotingTypeOK, Boxes, IsHistory, NoBox, None
<1>1. IsHistory(box[t]) => box[t].payed \in Nat /\ box[t].hash \in VoteHash /\ box[t] \in CompletedInfo
  BY <1>0, BoxKinds DEF CompletedInfo
<1>2. IsHistory(box[t]) /\ vote.slot = t /\ vote.hash = box[t].hash => Won(vote)
  <2> SUFFICES ASSUME IsHistory(box[t]), vote.slot = t, vote.hash = box[t].hash PROVE Won(vote)
    OBVIOUS
  <2>1. vote # EmptyVote
    BY <1>1, VoteFields DEF NoVotes
  <2> QED BY <2>1 DEF Won, BoxOf
<1>3. Won(vote) => BoxOf(vote) = box[vote.slot] /\ vote.slot \in Slot
  BY VoteKinds DEF Won
<1>4. CASE ClosesBox(vote)
  <2>1. SettledBoxes(vote) = [box EXCEPT ![vote.slot] = NoBox]
    BY <1>4 DEF SettledBoxes
  <2>2. t # vote.slot /\ b = box[t]
    BY <1>0, <2>1
  <2> QED BY <1>1, <2>2
<1>5. CASE ~ClosesBox(vote) /\ Won(vote)
  <2>1. SettledBoxes(vote) = [box EXCEPT ![vote.slot].payed = @ + vote.stake]
    BY <1>5 DEF SettledBoxes
  <2>2. CASE t = vote.slot
    <3>1. b = [box[t] EXCEPT !.payed = @ + vote.stake] /\ IsHistory(box[t])
          /\ vote.hash = box[t].hash
      BY <1>0, <1>3, <1>5, <2>1, <2>2 DEF Won
    <3> QED BY <1>1, <2>2, <3>1 DEF CompletedInfo
  <2>3. CASE t # vote.slot
    <3>1. b = box[t]
      BY <1>0, <2>1, <2>3
    <3> QED BY <1>1, <2>3, <3>1
  <2> QED BY <2>2, <2>3
<1>6. CASE ~ClosesBox(vote) /\ ~Won(vote) /\ Lapsed(vote)
  <2>1. /\ SettledBoxes(vote) = [box EXCEPT
             ![vote.slot].fee = @ - VoteRefund(vote),
             ![vote.slot].refunded = @ + vote.count]
        /\ BoxOf(vote) = box[vote.slot] /\ box[vote.slot] \in RequestInfo
    BY <1>6, VoteKinds, BoxKinds DEF SettledBoxes, Lapsed, ReadAsRequest
  <2>2. CASE t = vote.slot
    <3>1. b = [box[t] EXCEPT !.fee = @ - VoteRefund(vote), !.refunded = @ + vote.count]
      BY <1>0, <2>1, <2>2
    <3>2. b.kind = "request"
      BY <2>1, <2>2, <3>1 DEF RequestInfo
    <3> QED BY <3>2 DEF IsHistory
  <2>3. CASE t # vote.slot
    <3>1. b = box[t]
      BY <1>0, <2>1, <2>3
    <3> QED BY <1>1, <2>3, <3>1
  <2> QED BY <2>2, <2>3
<1>7. CASE ~ClosesBox(vote) /\ ~Won(vote) /\ ~Lapsed(vote)
  <2>1. b = box[t]
    BY <1>7 DEF SettledBoxes
  <2> QED BY <1>1, <1>2, <1>7, <2>1
<1> QED BY <1>4, <1>5, <1>6, <1>7

-----------------------------------------------------------------------------
(* All groups but votes *)

\* Only votes and proposals of earlier voting rounds go, and a request that is
\* new is one that nobody has voted on
OldGoes ==
    /\ UNCHANGED <<current, voteRound, resumed>> /\ lastId' \in Nat /\ lastId <= lastId'
    /\ \A t \in Slot : Votable(t)' =>
          \/ Votable(t) /\ box'[t].id = box[t].id /\ box'[t].app = box[t].app
          \/ box'[t].id > lastId /\ box'[t].app = None
    /\ \A c \in Voters :
          \/ VoteOf(c)' = VoteOf(c)
          \/ VoteOf(c).round < voteRound[c[1]] /\ VoteOf(c)'.hash.id = 0
    /\ \A v \in VotingApp, h \in VoteHash :
          \/ proposal'[v][h] = proposal[v][h]
          \/ /\ proposal'[v][h] = NoProposal
             /\ \/ proposal[v][h].round < voteRound[v]
                \/ \E a \in Voter : /\ history[v][a].hash = h
                                    /\ history[v][a].round < voteRound[v]

\* Sums over the same backers with the same votes
LEMMA SameBackers ==
    ASSUME VotingTypeOK, VotingTypeOK', NEW h, Backers(h)' = Backers(h),
           \A c \in Backers(h) : VoteOf(c)' = VoteOf(c)
    PROVE  /\ SumOver(VotedStake', Backers(h)') = SumOver(VotedStake, Backers(h))
           /\ SumOver(VotedCount', Backers(h)') = SumOver(VotedCount, Backers(h))
<1> DEFINE p == VotedStake
           p2 == VotedStake'
           q == VotedCount
           q2 == VotedCount'
           U == Backers(h)
<1>1. IsFiniteSet(U) /\ U \in SUBSET Voters
  BY VotersFinite DEF Backers
<1>2. \A c \in U : /\ p2[c] \in Int /\ p2[c] = p[c]
                   /\ q2[c] \in Int /\ q2[c] = q[c]
  BY <1>1, VotesTyped, VotesTypedNext
<1> HIDE DEF p, p2, q, q2, U
<1>3. SumOver(p2, U) = SumOver(p, U) /\ SumOver(q2, U) = SumOver(q, U)
  BY <1>1, <1>2, SumSame
<1> QED BY <1>3 DEF p, p2, q, q2, U

LEMMA OldGoesKeeps ==
    ASSUME VotingTypeOK, VotingTypeOK', LedgerInv, VotesInv, OldGoes
    PROVE  VotesInv'
<1>0. /\ lastId \in Nat
      /\ \A t \in Slot : IsRequest(box[t]) => box[t].id \in Nat /\ box[t].id > 0
      /\ \A v \in VotingApp : voteRound[v] \in Nat
      /\ \A c \in Voters : voteRound[c[1]] \in Nat
  BY IdsTyped, VotersFinite DEF VotingTypeOK
<1>a. \A c \in Voters : /\ VoteOf(c).round \in Int /\ VoteOf(c).hash.id \in Nat
                        /\ VoteOf(c)'.hash.id \in Nat
  BY VotesTyped, VotesTypedNext, VoteFields
<1>b. \A h \in VoteHash : h.id \in Nat /\ h.id > 0
  BY RequestAssumption DEF VoteHash, RequestId
<1>1. KnownVotes'
  <2>1. lastId' \in Nat /\ lastId <= lastId'
    BY DEF OldGoes
  <2>2. \A c \in Voters : VoteOf(c)'.hash.id \in {0, VoteOf(c).hash.id}
    BY DEF OldGoes
  <2>3. \A c \in Voters : VoteOf(c).hash.id <= lastId
    BY DEF VotesInv, KnownVotes
  <2>4. \A c \in Voters : VoteOf(c)'.hash.id <= lastId'
    BY <1>0, <1>a, <2>1, <2>2, <2>3
  <2> QED BY <2>4 DEF KnownVotes, Voters
<1>2. ASSUME NEW t \in Slot, Live(t)', ~(Live(t) /\ box'[t].id = box[t].id)
      PROVE  /\ box'[t].app = None
             /\ \A c \in Voters : VoteOf(c)'.hash.id # box'[t].id
             /\ \A v \in VotingApp, h \in VoteHash : h.id = box'[t].id => proposal'[v][h] = NoProposal
  <2>1. box'[t].id > lastId /\ box'[t].app = None /\ box'[t].id \in Nat
    <3>1. box'[t] \in RequestInfo
      BY <1>2, BoxKinds DEF VotingTypeOK, Boxes, Live, Votable
    <3>2. Votable(t)' /\ box'[t].id \notin resumed' /\ resumed' = resumed
      BY <1>2 DEF OldGoes, Live
    <3>3. ~(Votable(t) /\ box'[t].id = box[t].id)
      BY <1>2, <3>2 DEF Live
    <3> QED BY <3>1, <3>2, <3>3, RequestAssumption DEF OldGoes, RequestInfo, RequestId
  <2>2. \A c \in Voters : VoteOf(c)'.hash.id # box'[t].id
    <3>1. \A c \in Voters : VoteOf(c)'.hash.id \in {0, VoteOf(c).hash.id}
      BY DEF OldGoes
    <3>2. \A c \in Voters : VoteOf(c).hash.id <= lastId
      BY DEF VotesInv, KnownVotes
    <3> QED BY <1>0, <1>a, <2>1, <3>1, <3>2
  <2>3. \A v \in VotingApp, h \in VoteHash : h.id > lastId => proposal[v][h] = NoProposal
    BY <1>0, <1>b DEF LedgerInv, KnownRequests
  <2> QED BY <2>1, <2>2, <2>3 DEF OldGoes
<1>3. ASSUME NEW t \in Slot, Live(t)', Live(t), box'[t].id = box[t].id
      PROVE  /\ box'[t].app = box[t].app
             /\ \A c \in Voters : VoteOf(c)'.hash.id = box[t].id => VoteOf(c)' = VoteOf(c)
             /\ \A c \in Voters : VoteOf(c).hash.id = box[t].id /\ current[c[1]].id = box[t].id
                   => VoteOf(c)' = VoteOf(c)
             /\ \A v \in VotingApp, h \in VoteHash : h.id = box[t].id /\ current[v].id = box[t].id
                   => proposal'[v][h] = proposal[v][h]
             /\ \A v \in VotingApp, h \in VoteHash :
                   proposal'[v][h] # NoProposal => proposal'[v][h] = proposal[v][h]
  <2>0. box[t].id \in Nat /\ box[t].id > 0 /\ box[t].id <= lastId
    BY <1>0, <1>3 DEF Live, Votable, LedgerInv, OpenRequests
  <2>1. box'[t].app = box[t].app
    BY <1>0, <1>3, <2>0 DEF OldGoes, Live
  <2>2. ASSUME NEW c \in Voters, VoteOf(c).hash.id = box[t].id, current[c[1]].id = box[t].id
        PROVE  VoteOf(c)' = VoteOf(c) /\ VoteOf(c).round = voteRound[c[1]]
    <3>1. VoteOf(c).round = voteRound[c[1]] /\ voteRound[c[1]] \in Nat
      BY <1>0, <1>3, <2>2 DEF VotesInv, LiveVotes
    <3>2. ~(VoteOf(c).round < voteRound[c[1]])
      BY <3>1
    <3> QED BY <3>1, <3>2 DEF OldGoes
  <2>3. \A c \in Voters : VoteOf(c)'.hash.id = box[t].id => VoteOf(c)' = VoteOf(c)
    BY <2>0 DEF OldGoes
  <2>4. ASSUME NEW v \in VotingApp, NEW h \in VoteHash, h.id = box[t].id,
               current[v].id = box[t].id
        PROVE  proposal'[v][h] = proposal[v][h]
    <3>1. CASE proposal[v][h] # NoProposal
      <4>0. voteRound[v] \in Nat
        BY <1>0
      <4>1. proposal[v][h].round = voteRound[v]
        BY <1>3, <2>4, <3>1 DEF VotesInv, LiveProposals
      <4>2. ASSUME NEW a \in Voter, history[v][a].hash = h
            PROVE  ~(history[v][a].round < voteRound[v])
        <5> DEFINE c == <<v, a>>
        <5>1. c \in Voters /\ VoteOf(c) = history[v][a] /\ c[1] = v
          BY DEF Voters, VoteOf
        <5> HIDE DEF c
        <5>2. VoteOf(c).round = voteRound[v]
          BY <2>2, <2>4, <4>2, <5>1
        <5> QED BY <4>0, <5>1, <5>2
      <4>3. ~(proposal[v][h].round < voteRound[v])
        BY <4>0, <4>1
      <4> QED BY <4>2, <4>3 DEF OldGoes
    <3>2. CASE proposal[v][h] = NoProposal
      BY <3>2 DEF OldGoes
    <3> QED BY <3>1, <3>2
  <2>5. \A v \in VotingApp, h \in VoteHash :
           proposal'[v][h] # NoProposal => proposal'[v][h] = proposal[v][h]
    BY DEF OldGoes
  <2> QED BY <2>1, <2>2, <2>3, <2>4, <2>5
<1>4. UNCHANGED <<current, voteRound>> /\ Voters' = Voters
  BY DEF OldGoes, Voters
<1>5. LiveVotes'
  <2> SUFFICES ASSUME NEW t \in Slot, NEW c \in Voters, Live(t)', VoteOf(c)'.hash.id = box'[t].id
               PROVE  /\ box'[t].app = c[1]
                      /\ current[c[1]].id = box'[t].id => VoteOf(c)'.round = voteRound[c[1]]
    BY <1>4 DEF LiveVotes
  <2>1. Live(t) /\ box'[t].id = box[t].id
    BY <1>2
  <2>2. VoteOf(c)' = VoteOf(c) /\ box'[t].app = box[t].app
    BY <1>3, <2>1
  <2> QED BY <2>1, <2>2 DEF VotesInv, LiveVotes
<1>6. LiveProposals'
  <2> SUFFICES ASSUME NEW t \in Slot, NEW v \in VotingApp, NEW h \in VoteHash, Live(t)',
                      h.id = box'[t].id, current[v].id = box'[t].id, proposal'[v][h] # NoProposal
               PROVE  proposal'[v][h].round = voteRound[v]
    BY <1>4 DEF LiveProposals
  <2>1. Live(t) /\ box'[t].id = box[t].id
    BY <1>2
  <2>2. proposal'[v][h] = proposal[v][h]
    BY <1>3, <2>1
  <2> QED BY <2>1, <2>2 DEF VotesInv, LiveProposals
<1>7. VotesCounted'
  <2> SUFFICES ASSUME NEW t \in Slot, NEW h \in VoteHash, NEW v \in VotingApp, Live(t)',
                      h.id = box'[t].id, box'[t].app = v, current[v].id = box'[t].id
               PROVE  Counted(v, h)'
    BY <1>4 DEF VotesCounted
  <2>1. Live(t) /\ box'[t].id = box[t].id
    BY <1>2, RequestAssumption
  <2>2. /\ proposal'[v][h] = proposal[v][h] /\ box[t].app = v
        /\ \A c \in Voters : VoteOf(c)'.hash.id = h.id => VoteOf(c)' = VoteOf(c)
    BY <1>3, <2>1
  <2>3. \A c \in Voters : VoteOf(c).hash.id = h.id => VoteOf(c)' = VoteOf(c)
    <3> SUFFICES ASSUME NEW c \in Voters, VoteOf(c).hash.id = h.id PROVE VoteOf(c)' = VoteOf(c)
      OBVIOUS
    <3>1. c[1] = v
      BY <2>1, <2>2 DEF VotesInv, LiveVotes
    <3> QED BY <1>3, <2>1, <3>1
  <2>4. Backers(h)' = Backers(h) /\ \A c \in Backers(h) : VoteOf(c)' = VoteOf(c)
    BY <1>4, <2>2, <2>3 DEF Backers
  <2>5. Counted(v, h)
    BY <2>1, <2>2 DEF VotesInv, VotesCounted
  <2> QED BY <2>2, <2>4, <2>5, SameBackers DEF Counted
<1> QED BY <1>1, <1>5, <1>6, <1>7 DEF VotesInv


LEMMA AccountsOld ==
    ASSUME VotingTypeOK, VotingTypeOK', [Next]_accountVars, UNCHANGED <<ledgerVars, votingVars>>,
           settings'.timeLock = settings.timeLock, RewardsBalanced
    PROVE  OldGoes /\ RewardsBalanced'
<1>1. now \in Nat /\ now' \in Nat /\ now <= now' /\ settings.timeLock \in Nat /\ lastId \in Nat
  BY RoundsPass, FeesTyped, IdsTyped DEF VotingTypeOK
<1>2. UNCHANGED <<box, lastId, current, voteRound, proposal, history, resumed>>
  BY DEF ledgerVars, votingVars
<1>3. ASSUME NEW t \in Slot, Votable(t)' PROVE Votable(t)
  BY <1>1, <1>2, <1>3, IdsTyped DEF Votable, Expired
<1>4. OldGoes
  BY <1>1, <1>2, <1>3 DEF OldGoes, VoteOf
<1>5. RewardsBalanced'
  BY <1>2 DEF RewardsBalanced, Balanced, Unclaimed, Voters, VoteOf, Won, BoxOf
<1> QED BY <1>4, <1>5

\* Books that a group leaves alone
LEMMA BooksUntouched ==
    ASSUME VotingTypeOK, VotingTypeOK', RewardsBalanced, UNCHANGED <<history, resumed>>,
           \A t \in Slot : IsHistory(box'[t]) => box'[t] = box[t]
    PROVE  RewardsBalanced'
<1> SUFFICES ASSUME NEW t \in Slot, IsHistory(box'[t]), box'[t].hash.id \notin resumed'
             PROVE  BookBalanced(t)'
  BY BalancedBoxesNext
<1>1. box'[t] = box[t] /\ BookBalanced(t)
  BY BalancedBoxes
<1>2. Unclaimed(t)' = Unclaimed(t)
  <2>1. WinnersOf(t)' = WinnersOf(t)
    BY <1>1 DEF WinnersOf, VoteOf, Voters
  <2>2. Unclaimed(t) = WinnersOf(t) /\ Unclaimed(t)' = WinnersOf(t)'
    BY <1>1, UnclaimedVotes, UnclaimedVotesNext
  <2> QED BY <2>1, <2>2
<1>3. VotedStake' = VotedStake /\ VotedCount' = VotedCount
  BY DEF VotedStake, VotedCount, VoteOf, Voters
<1> QED BY <1>1, <1>2, <1>3 DEF BookBalanced

\* Books when the vote of c goes
LEMMA BooksGoOn ==
    ASSUME VotingTypeOK, VotingTypeOK', RewardsBalanced, resumed' = resumed, NEW c \in Voters,
           \A t \in Slot : IsHistory(box'[t]) => BookGoesOn(t, c)
    PROVE  RewardsBalanced'
<1> SUFFICES ASSUME NEW t \in Slot, IsHistory(box'[t]), box'[t].hash.id \notin resumed'
             PROVE  BookBalanced(t)'
  BY BalancedBoxesNext
<1>1. BookBalanced(t)
  BY BalancedBoxes DEF BookGoesOn
<1> QED BY <1>1, BookKept

LEMMA RequestsOld ==
    ASSUME VotingTypeOK, VotingTypeOK', NEW s \in Slot, RewardsBalanced,
           NEW r \in Account, MakeRequest(s[1], s[2]) \/ RefundRequest(s, r), UNCHANGED votingVars
    PROVE  OldGoes /\ RewardsBalanced'
<1>0. /\ lastId \in Nat /\ UNCHANGED <<current, voteRound, proposal, history, resumed>>
      /\ box \in [Slot -> Boxes]
  BY IdsTyped DEF votingVars, VotingTypeOK, Boxes
<1>1. CASE MakeRequest(s[1], s[2])
  <2>1. /\ IsRequest(box'[s]) /\ box'[s].id = lastId + 1 /\ lastId' = lastId + 1
        /\ \A t \in Slot \ {s} : box'[t] = box[t]
    BY <1>1, MadeBox
  <2>5. box'[s].app = None
    BY <1>0, <1>1 DEF MakeRequest, Slot
  <2>2. UNCHANGED <<now, settings>>
    BY <1>1 DEF MakeRequest
  <2>3. \A t \in Slot : IsHistory(box'[t]) => box'[t] = box[t]
    BY <2>1 DEF IsHistory, IsRequest
  <2>4. OldGoes
    BY <1>0, <2>1, <2>2, <2>5 DEF OldGoes, Votable, Expired, VoteOf
  <2> QED BY <1>0, <2>3, <2>4, BooksUntouched
<1>2. CASE RefundRequest(s, r)
  <2>1. Shrinks
    BY <1>2, RefundShrinks
  <2>2. \A t \in Slot : Votable(t)' =>
          Votable(t) /\ box'[t].id = box[t].id /\ box'[t].app = box[t].app
    BY <2>1 DEF Shrinks, Votable, KeptFor, SameRequest, Expired
  <2>3. OldGoes
    BY <1>0, <2>1, <2>2 DEF OldGoes, Shrinks, VoteOf
  <2>4. \A t \in Slot : IsHistory(box'[t]) => box'[t] = box[t]
    <3>1. CASE RefundUnproposed(s, r)
      BY <1>0, <3>1 DEF RefundUnproposed, IsHistory, NoBox, None
    <3>2. CASE RefundProposed(s, r)
      <4>1. box' = [box EXCEPT ![s] = [box[s] EXCEPT !.status = "refunded"]]
        BY <1>0, <3>2 DEF RefundProposed, MarkedRefunded
      <4>2. box[s] \in RequestInfo
        BY <1>0, <1>2, BoxKinds DEF RefundRequest, ReadAsRequest
      <4>3. box'[s].kind = "request"
        BY <1>0, <4>1, <4>2 DEF RequestInfo
      <4> QED BY <1>0, <4>1, <4>3 DEF IsHistory
    <3> QED BY <1>2, <3>1, <3>2 DEF RefundRequest
  <2> QED BY <1>0, <2>3, <2>4, BooksUntouched
<1> QED BY <1>1, <1>2

\* A vote that is given up
LEMMA VoteReset ==
    ASSUME VotingTypeOK, NEW v \in VotingApp, NEW a \in Voter,
           NEW w \in {EmptyVote, NotRegistered}, history' = [history EXCEPT ![v][a] = w]
    PROVE  /\ <<v, a>> \in Voters /\ VoteOf(<<v, a>>) = history[v][a]
           /\ VoteOf(<<v, a>>)' = w /\ w.hash.id = 0 /\ w.hash \notin VoteHash
           /\ \A d \in Voters \ {<<v, a>>} : VoteOf(d)' = VoteOf(d)
<1>1. w.hash.id = 0 /\ w.hash \notin VoteHash
  <2>1. w.hash = NoHash
    BY DEF EmptyVote, NotRegistered
  <2>2. w \in NoVotes /\ w \in {EmptyVote, NotRegistered}
    BY EmptyVoteTyped DEF NoVotes
  <2>3. \A h \in VoteHash : h.id # 0
    BY RequestAssumption DEF VoteHash, RequestId
  <2> QED BY <2>1, <2>3 DEF NoHash
<1>2. \A d \in Voters : d = <<d[1], d[2]>> /\ d[1] \in VotingApp /\ d[2] \in Voter
  BY VotersFinite
<1>3. history'[v][a] = w
  BY DEF VotingTypeOK
<1>4. ASSUME NEW d \in Voters \ {<<v, a>>} PROVE VoteOf(d)' = VoteOf(d)
  <2>1. d[1] # v \/ d[2] # a
    BY <1>2
  <2> QED BY <1>2, <2>1 DEF VotingTypeOK, VoteOf
<1> QED BY <1>1, <1>3, <1>4 DEF Voters, VoteOf

\* A voter registers, or gives its old vote up
VoterActs(v, a) ==
    \/ RegisterVoter(v, a)
    \/ DeregisterVoter(v, a)
    \/ \E payee \in Account : ClaimRewards(v, a, payee)

LEMMA VoterOld ==
    ASSUME VotingTypeOK, VotingTypeOK', NEW v \in VotingApp, NEW a \in Voter, VoterActs(v, a)
    PROVE  /\ OldGoes /\ resumed' = resumed
           /\ \A t \in Slot : IsHistory(box'[t]) => BookGoesOn(t, <<v, a>>)
<1> DEFINE Kept == \A w \in VotingApp, h \in VoteHash : proposal'[w][h] = proposal[w][h]
           Shown == UNCHANGED <<current, voteRound, resumed>>
<1>0. /\ Shrinks /\ lastId \in Nat
      /\ \A w \in VotingApp : voteRound[w] \in Nat
  BY SettlingShrinks, IdsTyped DEF VotingTypeOK, VoterActs
<1>1. \A t \in Slot : Votable(t)' =>
          Votable(t) /\ box'[t].id = box[t].id /\ box'[t].app = box[t].app
  BY <1>0 DEF Shrinks, Votable, KeptFor, SameRequest, Expired
<1>2. lastId' = lastId
  BY <1>0 DEF Shrinks
<1>3. ASSUME NEW w \in {EmptyVote, NotRegistered}, Shown,
             history' = [history EXCEPT ![v][a] = w], history[v][a].round < voteRound[v],
             \A u \in VotingApp, h \in VoteHash :
                \/ proposal'[u][h] = proposal[u][h]
                \/ u = v /\ h = history[v][a].hash /\ proposal'[u][h] = NoProposal,
             \A t \in Slot : IsHistory(box'[t]) =>
                /\ IsHistory(box[t]) /\ box'[t].hash = box[t].hash
                /\ box'[t].stake = box[t].stake /\ box'[t].count = box[t].count
                /\ box'[t].payed <= box[t].payed
                      + (IF history[v][a].slot = t /\ history[v][a].hash = box[t].hash
                         THEN history[v][a].stake ELSE 0)
      PROVE  OldGoes /\ \A t \in Slot : IsHistory(box'[t]) => BookGoesOn(t, <<v, a>>)
  <2> DEFINE c == <<v, a>>
  <2>1. /\ c \in Voters /\ VoteOf(c) = history[v][a] /\ c[1] = v
        /\ VoteOf(c)' = w /\ w.hash.id = 0 /\ w.hash \notin VoteHash
        /\ \A d \in Voters \ {c} : VoteOf(d)' = VoteOf(d)
    BY <1>3, VoteReset
  <2> HIDE DEF c
  <2>2. \A d \in Voters : \/ VoteOf(d)' = VoteOf(d)
                          \/ VoteOf(d).round < voteRound[d[1]] /\ VoteOf(d)'.hash.id = 0
    BY <1>3, <2>1
  <2>3. \A u \in VotingApp, h \in VoteHash :
          \/ proposal'[u][h] = proposal[u][h]
          \/ /\ proposal'[u][h] = NoProposal
             /\ \E e \in Voter : history[u][e].hash = h /\ history[u][e].round < voteRound[u]
    BY <1>3
  <2>4. OldGoes
    BY <1>0, <1>1, <1>2, <1>3, <2>2, <2>3 DEF OldGoes
  <2>5. ASSUME NEW t \in Slot, IsHistory(box'[t]) PROVE BookGoesOn(t, c)
    <3>1. box[t].hash \in VoteHash
      BY <1>3, <2>5, BoxKinds DEF VotingTypeOK, Boxes, CompletedInfo
    <3> QED BY <1>3, <2>1, <2>5, <3>1 DEF BookGoesOn
  <2> QED BY <2>4, <2>5 DEF c
<1>4. \A t \in Slot : IsHistory(box[t]) => box[t].payed \in Nat
  BY BoxKinds DEF VotingTypeOK, Boxes, CompletedInfo
<1>5. CASE RegisterVoter(v, a)
  <2>1. history[v][a] = NotRegistered /\ history[v][a].round = -1 /\ history[v][a].stake = 0
    BY <1>5 DEF RegisterVoter, Registered, NotRegistered, EmptyVote
  <2>2. -1 < voteRound[v]
    BY <1>0
  <2>3. history' = [history EXCEPT ![v][a] = EmptyVote] /\ Shown /\ box' = box /\ Kept
    BY <1>5 DEF RegisterVoter, ledgerVars
  <2>4. \A t \in Slot : IsHistory(box[t]) => box[t].payed <= box[t].payed
                      + (IF history[v][a].slot = t /\ history[v][a].hash = box[t].hash
                         THEN history[v][a].stake ELSE 0)
    BY <1>4, <2>1
  <2>5. history[v][a].round < voteRound[v]
    BY <2>1, <2>2
  <2> QED BY <1>3, <2>3, <2>4, <2>5
<1>6. CASE DeregisterVoter(v, a)
  <2>1. history[v][a] \in NoVotes /\ history[v][a].stake \in Nat
    BY VoteFields DEF VotingTypeOK, NoVotes
  <2>2. \A u \in VotingApp, h \in VoteHash :
           \/ proposal'[u][h] = proposal[u][h]
           \/ u = v /\ h = history[v][a].hash /\ proposal'[u][h] = NoProposal
    BY <1>6 DEF DeregisterVoter, WithoutProposalOf, VotingTypeOK
  <2>3. /\ history' = [history EXCEPT ![v][a] = NotRegistered] /\ Shown /\ box' = box
        /\ history[v][a].round < voteRound[v]
    BY <1>6 DEF DeregisterVoter, ledgerVars
  <2>4. \A t \in Slot : IsHistory(box[t]) => box[t].payed <= box[t].payed
                      + (IF history[v][a].slot = t /\ history[v][a].hash = box[t].hash
                         THEN history[v][a].stake ELSE 0)
    BY <1>4, <2>1
  <2> QED BY <1>3, <2>2, <2>3, <2>4
<1>7. ASSUME NEW payee \in Account, ClaimRewards(v, a, payee)
      PROVE  OldGoes /\ \A t \in Slot : IsHistory(box'[t]) => BookGoesOn(t, <<v, a>>)
  <2> DEFINE vote == history[v][a]
  <2>1. /\ vote \in Votes /\ box' = SettledBoxes(vote) /\ vote.round < voteRound[v]
        /\ vote.stake \in Nat
    <3>1. vote \in Votes /\ box' = SettledBoxes(vote) /\ vote.round < voteRound[v]
      BY <1>7 DEF ClaimRewards, Registered, VotingTypeOK
    <3> QED BY <3>1, VoteKinds
  <2>2. /\ history' = [history EXCEPT ![v][a] = ResetVote(v, a)]
        /\ ResetVote(v, a) \in {EmptyVote, NotRegistered} /\ Shown /\ Kept
    BY <1>7 DEF ClaimRewards, ResetVote
  <2> HIDE DEF vote
  <2>3. ASSUME NEW t \in Slot, IsHistory(box'[t])
        PROVE  /\ IsHistory(box[t]) /\ box'[t].hash = box[t].hash
               /\ box'[t].stake = box[t].stake /\ box'[t].count = box[t].count
               /\ box'[t].payed <= box[t].payed
                     + (IF vote.slot = t /\ vote.hash = box[t].hash THEN vote.stake ELSE 0)
    <3>1. /\ IsHistory(box[t]) /\ box'[t].hash = box[t].hash
          /\ box'[t].stake = box[t].stake /\ box'[t].count = box[t].count
          /\ box'[t].payed = box[t].payed
                     + (IF vote.slot = t /\ vote.hash = box[t].hash THEN vote.stake ELSE 0)
      BY <2>1, <2>3, SettledHistory
    <3> QED BY <1>4, <2>1, <3>1
  <2> QED BY <1>3, <2>1, <2>2, <2>3 DEF vote
<1>8. OldGoes => resumed' = resumed
  BY DEF OldGoes
<1> QED BY <1>5, <1>6, <1>7, <1>8 DEF VoterActs

LEMMA SettlingOld ==
    ASSUME VotingTypeOK, VotingTypeOK', RewardsBalanced, NEW v \in VotingApp,
           \/ DeployVotingContract(v)
           \/ \E h \in VoteHash : DeleteBox(v, h)
           \/ \E a \in Voter : RegisterVoter(v, a)
           \/ \E a \in Voter : DeregisterVoter(v, a)
           \/ \E a \in Voter, payee \in Account : ClaimRewards(v, a, payee)
    PROVE  OldGoes /\ RewardsBalanced'
<1> DEFINE Shown == UNCHANGED <<current, voteRound, resumed>>
<1>0. /\ Shrinks /\ lastId \in Nat
      /\ \A w \in VotingApp : voteRound[w] \in Nat
  BY SettlingShrinks, IdsTyped DEF VotingTypeOK
<1>1. \A t \in Slot : Votable(t)' =>
          Votable(t) /\ box'[t].id = box[t].id /\ box'[t].app = box[t].app
  BY <1>0 DEF Shrinks, Votable, KeptFor, SameRequest, Expired
<1>2. lastId' = lastId
  BY <1>0 DEF Shrinks
<1>3. ASSUME UNCHANGED <<box, history>>, Shown,
             \A w \in VotingApp, h \in VoteHash :
                \/ proposal'[w][h] = proposal[w][h]
                \/ proposal'[w][h] = NoProposal /\ proposal[w][h].round < voteRound[w]
      PROVE  OldGoes /\ RewardsBalanced'
  <2>1. OldGoes
    BY <1>0, <1>1, <1>2, <1>3 DEF OldGoes, VoteOf
  <2> QED BY <1>3, <2>1, BooksUntouched
<1>4. ASSUME NEW a \in Voter, VoterActs(v, a) PROVE OldGoes /\ RewardsBalanced'
  <2>1. /\ OldGoes /\ resumed' = resumed
        /\ \A t \in Slot : IsHistory(box'[t]) => BookGoesOn(t, <<v, a>>)
    BY <1>4, VoterOld
  <2>2. <<v, a>> \in Voters
    BY DEF Voters
  <2> QED BY <2>1, <2>2, BooksGoOn
<1>5. CASE DeployVotingContract(v)
  BY <1>3, <1>5 DEF DeployVotingContract, ledgerVars
<1>6. ASSUME NEW h \in VoteHash, DeleteBox(v, h) PROVE OldGoes /\ RewardsBalanced'
  <2>1. \A u \in VotingApp, g \in VoteHash :
           \/ proposal'[u][g] = proposal[u][g]
           \/ proposal'[u][g] = NoProposal /\ proposal[u][g].round < voteRound[u]
    BY <1>6 DEF DeleteBox, VotingTypeOK
  <2> QED BY <1>3, <1>6, <2>1 DEF DeleteBox, ledgerVars
<1> QED BY <1>4, <1>5, <1>6 DEF VoterActs

-----------------------------------------------------------------------------
(* A vote *)

\* Voter c votes at contract v with hash h on the request of box s.  If that is
\* not taken up again, either it is the one that v is voting on, and the vote
\* that c gave before is not for it, or nobody has voted on it.
VoteMoves(v, c, s, h) ==
    /\ c \in Voters /\ c[1] = v /\ h \in VoteHash /\ h.id = box[s].id
    /\ Votable(s) /\ box[s].app \in {None, v} /\ lastId' = lastId
    /\ resumed \subseteq resumed'
    /\ \A t \in Slot : Votable(t)' =>
          Votable(t) /\ box'[t].id = box[t].id /\ box'[t].app = IF t = s THEN v ELSE box[t].app
    /\ h.id \notin resumed' =>
          /\ VoteOf(c).hash.id # h.id
          /\ \/ box[s].app = None
             \/ box[s].app = v /\ current[v].id = h.id /\ voteRound'[v] = voteRound[v]
          /\ proposal'[v][h] = [count |-> proposal[v][h].count + VoteOf(c)'.count,
                                stake |-> proposal[v][h].stake + VoteOf(c)'.stake,
                                round |-> voteRound'[v]]
    /\ current'[v].id \in {0, h.id}
    /\ VoteOf(c)'.slot = s /\ VoteOf(c)'.hash = h /\ VoteOf(c)'.round = voteRound'[v]
    /\ \A d \in Voters \ {c} : VoteOf(d)' = VoteOf(d)
    /\ \A w \in VotingApp \ {v} :
          /\ current'[w] = current[w] /\ voteRound'[w] = voteRound[w]
          /\ \A g \in VoteHash : proposal'[w][g] = proposal[w][g]
    /\ \A g \in VoteHash \ {h} :
          \/ proposal'[v][g] = proposal[v][g]
          \/ proposal'[v][g] = NoProposal /\ g = VoteOf(c).hash
    /\ IsHistory(box'[s]) =>
          /\ box'[s].hash = h /\ box'[s].payed = 0
          /\ box'[s].stake = proposal'[v][h].stake /\ box'[s].count = proposal'[v][h].count
    /\ \A t \in Slot \ {s} : IsHistory(box'[t]) => BookGoesOn(t, c)

LEMMA VoteMoved ==
    ASSUME VotingTypeOK, VotingTypeOK', LedgerInv, VotesInv,
           NEW v \in VotingApp, NEW a \in Voter, NEW s \in Slot,
           NEW answer \in Answer, NEW count \in VoteCount, Vote(v, a, s, answer, count)
    PROVE  VoteMoves(v, <<v, a>>, s, HashOf(v, a, s, answer))
<1> DEFINE c == <<v, a>>
           h == HashOf(v, a, s, answer)
           prev == Before(v, a)
           req == Asked(v, a, s)
           tally == Tally(v, a, s, answer, count)
           nb == NewBox(v, a, s, answer, count)
           settled == SettledBoxes(prev)
<1>0. VoteAllowed(v, a, s, answer, count) /\ VoteCounts(v, a, s, answer, count)
  BY VoteUnfolds
<1>1. /\ prev \in Votes /\ h \in VoteHash /\ count \in Nat /\ StakeOf(v, a, s) \in Nat
      /\ Others(v, a) \in [VoteHash -> {NoProposal} \cup Proposals]
      /\ settled \in [Slot -> Boxes] /\ req = settled[s]
      /\ prev.round \in Nat /\ prev.stake \in Nat
  BY <1>0, VoteTyped, VoteKinds, SettledBoxesTyped DEF Asked, RequestAt
<1>2. /\ IsRequest(box[s]) /\ box[s].app \in {None, v}
      /\ About(v, a, s).id = box[s].id /\ About(v, a, s).round = box[s].round
      /\ req.id = box[s].id /\ req.app = box[s].app /\ h.id = box[s].id
      /\ box[s].id \in RequestId /\ box[s].round \in Nat
      /\ \A t \in Slot : IsRequest(box'[t]) =>
            /\ SameRequest(box[t], box'[t])
            /\ box'[t].app = IF t = s THEN v ELSE box[t].app
  BY VoteOnRequest
<1>3. /\ now \in Nat /\ settings.timeLock \in Nat /\ UNCHANGED <<now, settings, lastId>>
      /\ \A w \in VotingApp : voteRound[w] \in Nat
  BY <1>0, FeesTyped, IdsTyped DEF VoteCounts, VotingTypeOK
<1>4. Votable(s)
  <2>1. now <= box[s].round + settings.timeLock
    BY <1>0, <1>2 DEF VoteAllowed, LeaseGranted
  <2> QED BY <1>2, <1>3, <2>1 DEF Votable, Expired
<1>5. \A t \in Slot : Votable(t)' =>
          Votable(t) /\ box'[t].id = box[t].id /\ box'[t].app = IF t = s THEN v ELSE box[t].app
  BY <1>2, <1>3 DEF Votable, SameRequest, Expired
<1>6. /\ voteRound'[v] = RoundOf(v, a, s) /\ RoundOf(v, a, s) \in Nat
      /\ \A w \in VotingApp \ {v} : voteRound'[w] = voteRound[w] /\ current'[w] = current[w]
      /\ current'[v] = IF Decides(v, a, s, answer, count) THEN NoRequest ELSE About(v, a, s)
  BY <1>0, VoteTyped DEF VoteCounts, VotingTypeOK
<1>7. /\ resumed' = resumed \cup ResumedBy(v, req)
      /\ req.id \notin resumed' /\ StartsRound(v, req) => box[s].app = None
  <2>1. resumed' = resumed \cup ResumedBy(v, req)
    BY <1>0 DEF VoteCounts
  <2> QED BY <1>2, <2>1 DEF ResumedBy
<1>8. c \in Voters /\ c[1] = v /\ VoteOf(c) = prev
  BY DEF Voters, VoteOf, Before
<1>9. /\ VoteOf(c)' = [slot |-> s, hash |-> h, count |-> count,
                       stake |-> StakeOf(v, a, s), round |-> RoundOf(v, a, s)]
      /\ \A d \in Voters \ {c} : VoteOf(d)' = VoteOf(d)
  <2> DEFINE w == [slot |-> s, hash |-> h, count |-> count,
                   stake |-> StakeOf(v, a, s), round |-> RoundOf(v, a, s)]
  <2>1. history' = [history EXCEPT ![v][a] = w]
    BY <1>0 DEF VoteCounts
  <2> HIDE DEF w
  <2>2. history'[v][a] = w
    BY <2>1 DEF VotingTypeOK
  <2>3. ASSUME NEW d \in Voters \ {c} PROVE VoteOf(d)' = VoteOf(d)
    <3>1. d = <<d[1], d[2]>> /\ d[1] \in VotingApp /\ d[2] \in Voter
      BY VotersFinite
    <3>2. d[1] # v \/ d[2] # a
      BY <3>1
    <3> QED BY <2>1, <3>1, <3>2 DEF VotingTypeOK, VoteOf
  <2> QED BY <2>2, <2>3 DEF w, VoteOf
<1> HIDE DEF c, h, prev, req, tally, nb, settled
<1>10. ASSUME h.id \notin resumed'
       PROVE  /\ prev.hash.id # h.id
              /\ \/ box[s].app = None
                 \/ box[s].app = v /\ current[v].id = h.id /\ voteRound'[v] = voteRound[v]
  <2>0. Live(s) /\ h.id = box[s].id /\ h.id = req.id
    BY <1>2, <1>4, <1>7, <1>10 DEF Live
  <2>1. CASE StartsRound(v, req)
    <3>1. box[s].app = None
      BY <1>7, <1>10, <2>0, <2>1
    <3>2. prev.hash.id # h.id
      BY <1>8, <2>0, <3>1, RequestAssumption DEF VotesInv, LiveVotes
    <3> QED BY <3>1, <3>2
  <2>2. CASE ~StartsRound(v, req)
    <3>1. current[v].id = h.id /\ box[s].app = v
      BY <1>2, <2>0, <2>2 DEF StartsRound, LedgerInv, OneContractPerRequest
    <3>2. RoundOf(v, a, s) = voteRound[v]
      BY <2>2 DEF RoundOf, req
    <3>3. prev.round < voteRound[v]
      BY <1>0, <3>2 DEF VoteAllowed, prev
    <3>4. prev.hash.id # h.id
      <4>1. prev.hash.id = box[s].id => prev.round = voteRound[v]
        BY <1>8, <2>0, <3>1 DEF VotesInv, LiveVotes
      <4>2. prev.round # voteRound[v]
        BY <1>1, <1>3, <3>3
      <4> QED BY <2>0, <4>1, <4>2
    <3> QED BY <1>6, <3>1, <3>2, <3>4
  <2> QED BY <2>1, <2>2
<1>12. /\ proposal'[v][h] = tally
       /\ \A g \in VoteHash \ {h} : proposal'[v][g] = Others(v, a)[g]
       /\ \A w \in VotingApp \ {v}, g \in VoteHash : proposal'[w][g] = proposal[w][g]
  <2>1. proposal' = [proposal EXCEPT ![v] = [Others(v, a) EXCEPT ![h] = tally]]
    BY <1>0 DEF VoteCounts, h, tally
  <2>2. proposal'[v] = [Others(v, a) EXCEPT ![h] = tally]
    BY <2>1 DEF VotingTypeOK
  <2>3. \A w \in VotingApp \ {v} : proposal'[w] = proposal[w]
    BY <2>1 DEF VotingTypeOK
  <2> QED BY <1>1, <2>2, <2>3
<1>13. \A g \in VoteHash : Others(v, a)[g] = IF g = prev.hash THEN NoProposal ELSE proposal[v][g]
  BY DEF Others, WithoutProposalOf, prev
<1>14. h.id \notin resumed' =>
         tally = [count |-> proposal[v][h].count + count,
                  stake |-> proposal[v][h].stake + StakeOf(v, a, s),
                  round |-> RoundOf(v, a, s)]
  <2> SUFFICES ASSUME h.id \notin resumed'
               PROVE  tally = [count |-> proposal[v][h].count + count,
                               stake |-> proposal[v][h].stake + StakeOf(v, a, s),
                               round |-> RoundOf(v, a, s)]
    OBVIOUS
  <2>1. prev.hash # h
    BY <1>10
  <2> QED BY <1>1, <1>13, <2>1 DEF Tally, tally, h
<1>15. /\ box'[s] = nb /\ \A t \in Slot \ {s} : box'[t] = settled[t]
  BY <1>0, <1>1 DEF VoteCounts, nb, settled, prev
<1>16. Decides(v, a, s, answer, count) => nb = [kind |-> "history", hash |-> h,
          count |-> tally.count, stake |-> tally.stake, round |-> tally.round, payed |-> 0]
  BY DEF NewBox, VotedBox, Decides, nb, h, tally
<1>17. IsHistory(nb) => Decides(v, a, s, answer, count)
  <2> SUFFICES ASSUME ~Decides(v, a, s, answer, count) PROVE ~IsHistory(nb)
    OBVIOUS
  <2>1. req \in RequestInfo
    BY <1>0, VoteTyped DEF req
  <2>2. nb = [req EXCEPT !.votes = @ + count, !.status = "processing", !.app = v]
        \/ nb = [req EXCEPT !.votes = @ + count]
    BY DEF NewBox, VotedBox, Decides, nb, req
  <2>3. nb.kind = "request"
    BY <2>1, <2>2 DEF RequestInfo
  <2> QED BY <2>3 DEF IsHistory
<1>18. current'[v].id \in {0, h.id}
  BY <1>2, <1>6 DEF NoRequest
<1>19. ASSUME NEW t \in Slot \ {s}, IsHistory(box'[t]) PROVE BookGoesOn(t, c)
  <2>1. IsHistory(settled[t]) /\ box'[t] = settled[t]
    BY <1>15, <1>19
  <2>2. /\ IsHistory(box[t]) /\ box'[t].hash = box[t].hash
        /\ box'[t].stake = box[t].stake /\ box'[t].count = box[t].count
        /\ box'[t].payed = box[t].payed
               + (IF prev.slot = t /\ prev.hash = box[t].hash THEN prev.stake ELSE 0)
    BY <1>1, <2>1, SettledHistory DEF settled
  <2>3. box[t].payed \in Nat
    BY <2>2, BoxKinds DEF VotingTypeOK, Boxes, CompletedInfo
  <2>4. box'[t].payed <= box[t].payed
               + (IF prev.slot = t /\ prev.hash = box[t].hash THEN prev.stake ELSE 0)
    BY <1>1, <2>2, <2>3
  <2>5. VoteOf(c)'.slot # t
    BY <1>9
  <2> QED BY <1>8, <1>9, <2>2, <2>4, <2>5 DEF BookGoesOn
<1>20. IsHistory(box'[s]) =>
          /\ box'[s].hash = h /\ box'[s].payed = 0
          /\ box'[s].stake = proposal'[v][h].stake /\ box'[s].count = proposal'[v][h].count
  BY <1>12, <1>15, <1>16, <1>17
<1>21. VoteMoves(v, c, s, h)
  <2>1. \A g \in VoteHash \ {h} :
          \/ proposal'[v][g] = proposal[v][g]
          \/ proposal'[v][g] = NoProposal /\ g = VoteOf(c).hash
    BY <1>8, <1>12, <1>13
  <2>2. h.id \notin resumed' =>
          proposal'[v][h] = [count |-> proposal[v][h].count + VoteOf(c)'.count,
                             stake |-> proposal[v][h].stake + VoteOf(c)'.stake,
                             round |-> voteRound'[v]]
    BY <1>6, <1>9, <1>12, <1>14
  <2>3. VoteOf(c)'.slot = s /\ VoteOf(c)'.hash = h /\ VoteOf(c)'.round = voteRound'[v]
    BY <1>6, <1>9
  <2>4. resumed \subseteq resumed'
    BY <1>7
  <2> QED
    BY <1>1, <1>2, <1>3, <1>4, <1>5, <1>6, <1>8, <1>9, <1>10, <1>12, <1>18, <1>19,
       <1>20, <2>1, <2>2, <2>3, <2>4 DEF VoteMoves
<1> QED BY <1>21 DEF c, h

\* The tally of the proposal voted for has the new vote too
LEMMA VoteCounted ==
    ASSUME VotingTypeOK, VotingTypeOK', VotesInv, NEW v \in VotingApp, NEW c, NEW s \in Slot,
           NEW h, VoteMoves(v, c, s, h), h.id \notin resumed'
    PROVE  /\ \A g \in VoteHash : g.id = box[s].id => Counted(v, g)
           /\ Counted(v, h)'
<1> DEFINE p == VotedStake
           p2 == VotedStake'
           q == VotedCount
           q2 == VotedCount'
           U == Backers(h)
<1>0. /\ c \in Voters /\ h \in VoteHash /\ h.id = box[s].id /\ Live(s)
      /\ box[s].app = None \/ (box[s].app = v /\ current[v].id = box[s].id)
  BY DEF VoteMoves, Live
<1>1. ASSUME NEW g \in VoteHash, g.id = box[s].id PROVE Counted(v, g)
  <2>1. CASE box[s].app = v /\ current[v].id = box[s].id
    BY <1>0, <1>1, <2>1 DEF VotesInv, VotesCounted
  <2>2. CASE box[s].app = None
    <3>1. Backers(g) = {}
      <4> SUFFICES ASSUME NEW d \in Voters, VoteOf(d).hash = g PROVE FALSE
        BY DEF Backers
      <4>1. box[s].app = d[1] /\ d[1] \in VotingApp
        BY <1>0, <1>1, VotersFinite DEF VotesInv, LiveVotes
      <4> QED BY <2>2, <4>1, RequestAssumption
    <3>2. SumOver(VotedStake, {}) = 0 /\ SumOver(VotedCount, {}) = 0
      BY SumEmpty
    <3>3. proposal[v][g].stake \in Nat /\ proposal[v][g].count \in Nat
      BY VotesTyped
    <3> QED BY <3>1, <3>2, <3>3 DEF Counted
  <2> QED BY <1>0, <2>1, <2>2
<1>2. Counted(v, h)
  BY <1>0, <1>1
<1>3. Backers(h)' = U \cup {c} /\ c \notin U
  <2>1. VoteOf(c)'.hash = h /\ VoteOf(c).hash # h /\ \A d \in Voters \ {c} : VoteOf(d)' = VoteOf(d)
    BY DEF VoteMoves
  <2> QED BY <1>0, <2>1 DEF Backers, Voters
<1>4. IsFiniteSet(U) /\ U \in SUBSET Voters
  BY VotersFinite DEF Backers
<1>5. /\ \A d \in U : /\ p[d] \in Int /\ p2[d] = p[d]
                      /\ q[d] \in Int /\ q2[d] = q[d]
      /\ p2[c] = VoteOf(c)'.stake /\ p2[c] \in Int /\ p2[c] \in Nat
      /\ q2[c] = VoteOf(c)'.count /\ q2[c] \in Int /\ q2[c] \in Nat
  <2>1. \A d \in U : d \in Voters /\ VoteOf(d)' = VoteOf(d)
    BY <1>3, <1>4 DEF VoteMoves
  <2> QED BY <1>0, <2>1, VotesTyped, VotesTypedNext
<1>6. /\ proposal'[v][h].stake = proposal[v][h].stake + VoteOf(c)'.stake
      /\ proposal'[v][h].count = proposal[v][h].count + VoteOf(c)'.count
  BY DEF VoteMoves
<1>7. proposal[v][h].stake \in Nat /\ proposal[v][h].count \in Nat
  BY <1>0, VotesTyped
<1> HIDE DEF p, p2, q, q2, U
<1>8. SumOver(p, U) \in Int /\ SumOver(q, U) \in Int
  BY <1>4, <1>5, SumInt
<1>9. SumOver(p2, U \cup {c}) = SumOver(p, U) + p2[c]
  BY <1>3, <1>4, <1>5, <1>8, SumJoin
<1>10. SumOver(q2, U \cup {c}) = SumOver(q, U) + q2[c]
  BY <1>3, <1>4, <1>5, <1>8, SumJoin
<1>11. SumOver(p, U) <= proposal[v][h].stake /\ SumOver(q, U) <= proposal[v][h].count
  BY <1>2 DEF Counted, p, q, U
<1>12. /\ SumOver(p2, U \cup {c}) <= proposal'[v][h].stake
       /\ SumOver(q2, U \cup {c}) <= proposal'[v][h].count
  BY <1>5, <1>6, <1>7, <1>8, <1>9, <1>10, <1>11
<1> QED BY <1>1, <1>3, <1>12 DEF Counted, p2, q2

LEMMA VoteKeeps ==
    ASSUME VotingTypeOK, VotingTypeOK', LedgerInv, VotesInv, NEW v \in VotingApp, NEW c,
           NEW s \in Slot, NEW h, VoteMoves(v, c, s, h)
    PROVE  VotesInv'
<1>0. /\ c \in Voters /\ c[1] = v /\ h \in VoteHash /\ h.id = box[s].id
      /\ Votable(s) /\ box[s].app \in {None, v} /\ lastId' = lastId
      /\ VoteOf(c)'.hash = h /\ VoteOf(c)'.round = voteRound'[v]
      /\ \A d \in Voters \ {c} : VoteOf(d)' = VoteOf(d)
  BY DEF VoteMoves
\* Only the request voted on can be the one that v is then in the round of
<1>1. ASSUME NEW t \in Slot, Live(t)'
      PROVE  /\ Live(t) /\ box'[t].id = box[t].id
             /\ box'[t].app = (IF t = s THEN v ELSE box[t].app)
             /\ t # s => box[t].id # h.id /\ current'[v].id # box[t].id
             /\ t = s => /\ VoteOf(c).hash.id # h.id
                        /\ \/ box[s].app = None
                           \/ /\ box[s].app = v /\ current[v].id = h.id
                              /\ voteRound'[v] = voteRound[v]
                        /\ proposal'[v][h].round = voteRound'[v]
                        /\ h.id \notin resumed'
  <2>1. Live(t) /\ box'[t].id = box[t].id /\ box'[t].app = (IF t = s THEN v ELSE box[t].app)
    BY <1>1 DEF VoteMoves, Live
  <2>2. t # s => box[t].id # h.id
    BY <1>0, <2>1 DEF LedgerInv, DistinctIds, Live, Votable
  <2>3. box[t].id > 0 /\ box[t].id \in Nat /\ current'[v].id \in {0, h.id}
    BY <2>1, IdsTyped DEF VoteMoves, Live, Votable
  <2>4. t = s => h.id \notin resumed'
    BY <1>0, <1>1, <2>1 DEF Live
  <2> QED BY <2>1, <2>2, <2>3, <2>4 DEF VoteMoves
<1>2. \A w \in VotingApp \ {v} : current'[w] = current[w] /\ voteRound'[w] = voteRound[w]
  BY DEF VoteMoves
<1>3. KnownVotes'
  <2>1. h.id <= lastId
    BY <1>0 DEF LedgerInv, OpenRequests, Votable
  <2>2. \A d \in Voters : VoteOf(d)'.hash.id <= lastId'
    BY <1>0, <2>1 DEF VotesInv, KnownVotes
  <2> QED BY <2>2 DEF KnownVotes, Voters
<1>4. LiveVotes'
  <2> SUFFICES ASSUME NEW t \in Slot, NEW d \in Voters, Live(t)', VoteOf(d)'.hash.id = box'[t].id
               PROVE  /\ box'[t].app = d[1]
                      /\ current'[d[1]].id = box'[t].id => VoteOf(d)'.round = voteRound'[d[1]]
    BY DEF LiveVotes, Voters
  <2>1. CASE d = c
    <3>1. t = s
      BY <1>0, <1>1, <2>1
    <3> QED BY <1>0, <1>1, <2>1, <3>1
  <2>2. CASE d # c
    <3>1. /\ VoteOf(d)' = VoteOf(d) /\ Live(t) /\ box'[t].id = box[t].id
          /\ d[1] \in VotingApp /\ d[1] # None
      BY <1>0, <1>1, <2>2, VotersFinite, RequestAssumption
    <3>2. /\ box[t].app = d[1]
          /\ current[d[1]].id = box[t].id => VoteOf(d).round = voteRound[d[1]]
      BY <3>1 DEF VotesInv, LiveVotes
    <3>3. box'[t].app = d[1]
      BY <1>0, <1>1, <3>1, <3>2
    <3>4. ASSUME d[1] = v, current'[v].id = box'[t].id PROVE VoteOf(d)'.round = voteRound'[v]
      <4>1. t = s
        BY <1>1, <3>4
      <4>2. box[s].app = v /\ current[v].id = box[s].id /\ voteRound'[v] = voteRound[v]
        BY <1>0, <1>1, <3>1, <3>2, <3>4, <4>1
      <4> QED BY <3>1, <3>2, <3>4, <4>1, <4>2
    <3>5. CASE d[1] # v
      BY <1>2, <3>1, <3>2, <3>3, <3>5
    <3> QED BY <3>3, <3>4, <3>5
  <2> QED BY <2>1, <2>2
<1>5. LiveProposals'
  <2> SUFFICES ASSUME NEW t \in Slot, NEW w \in VotingApp, NEW g \in VoteHash, Live(t)',
                      g.id = box'[t].id, current'[w].id = box'[t].id, proposal'[w][g] # NoProposal
               PROVE  proposal'[w][g].round = voteRound'[w]
    BY DEF LiveProposals
  <2>0. Live(t) /\ g.id = box[t].id /\ box'[t].id = box[t].id
    BY <1>1
  <2>1. CASE w = v /\ g = h
    BY <1>1, <2>0, <2>1
  <2>2. CASE w = v /\ g # h
    <3>1. proposal'[v][g] = proposal[v][g] /\ proposal[v][g] # NoProposal
      BY <2>2 DEF VoteMoves
    <3>2. t = s /\ box[s].app = v
      <4>1. t = s
        BY <1>1, <2>0, <2>2
      <4>2. g \in ProposalsFor(box[s].id)
        BY <2>0, <4>1 DEF ProposalsFor
      <4> QED BY <1>0, <3>1, <4>1, <4>2 DEF LedgerInv, OneContractPerRequest, Votable
    <3>3. current[v].id = box[t].id /\ voteRound'[v] = voteRound[v]
      BY <1>0, <1>1, <3>2, RequestAssumption
    <3>4. proposal[v][g].round = voteRound[v]
      BY <2>0, <3>1, <3>3 DEF VotesInv, LiveProposals
    <3> QED BY <2>2, <3>1, <3>3, <3>4
  <2>3. CASE w # v
    <3>1. proposal'[w][g] = proposal[w][g]
      BY <2>3 DEF VoteMoves
    <3> QED BY <1>2, <2>0, <2>3, <3>1 DEF VotesInv, LiveProposals
  <2> QED BY <2>1, <2>2, <2>3
<1>6. VotesCounted'
  <2> SUFFICES ASSUME NEW t \in Slot, NEW g \in VoteHash, NEW w \in VotingApp, Live(t)',
                      g.id = box'[t].id, box'[t].app = w, current'[w].id = box'[t].id
               PROVE  Counted(w, g)'
    BY DEF VotesCounted
  <2>0. Live(t) /\ g.id = box[t].id /\ box'[t].id = box[t].id
    BY <1>1
  <2>1. CASE g = h
    <3>1. t = s /\ w = v /\ h.id \notin resumed'
      BY <1>1, <2>0, <2>1
    <3> QED BY <2>1, <3>1, VoteCounted
  <2>2. CASE g # h
    <3>0. VoteOf(c).hash # g
      <4>1. CASE t = s
        BY <1>0, <1>1, <2>0, <4>1
      <4>2. CASE t # s
        <5>1. w # v /\ box[t].app = w
          BY <1>1, <2>0, <4>2
        <5> QED BY <1>0, <2>0, <5>1 DEF VotesInv, LiveVotes
      <4> QED BY <4>1, <4>2
    <3>1. Backers(g)' = Backers(g) /\ \A d \in Backers(g) : VoteOf(d)' = VoteOf(d)
      <4>1. c \notin Backers(g) /\ c \notin Backers(g)'
        BY <1>0, <2>2, <3>0 DEF Backers
      <4>2. \A d \in Voters \ {c} : d \in Backers(g)' <=> d \in Backers(g)
        BY <1>0 DEF Backers, Voters
      <4>3. Backers(g) \subseteq Voters /\ Backers(g)' \subseteq Voters
        BY DEF Backers, Voters
      <4>4. \A d \in Backers(g) : d \in Voters \ {c}
        BY <4>1, <4>3
      <4>5. Backers(g)' = Backers(g)
        BY <4>1, <4>2, <4>3
      <4> QED BY <1>0, <4>4, <4>5
    <3>2. proposal'[w][g] = proposal[w][g]
      BY <2>2, <3>0 DEF VoteMoves
    <3>3. Counted(w, g)
      <4>1. CASE t = s
        BY <1>0, <1>1, <2>0, <4>1, VoteCounted
      <4>2. CASE t # s
        BY <1>1, <1>2, <2>0, <4>2 DEF VotesInv, VotesCounted
      <4> QED BY <4>1, <4>2
    <3> QED BY <3>1, <3>2, <3>3, SameBackers DEF Counted
  <2> QED BY <2>1, <2>2
<1> QED BY <1>3, <1>4, <1>5, <1>6 DEF VotesInv

LEMMA VoteBalances ==
    ASSUME VotingTypeOK, VotingTypeOK', VotesInv, RewardsBalanced, NEW v \in VotingApp, NEW c,
           NEW s \in Slot, NEW h, VoteMoves(v, c, s, h)
    PROVE  RewardsBalanced'
<1>0. c \in Voters /\ h \in VoteHash
  BY DEF VoteMoves
<1>1. ASSUME NEW t \in Slot \ {s}, IsHistory(box'[t]), box'[t].hash.id \notin resumed'
      PROVE  BookBalanced(t)'
  <2>1. BookGoesOn(t, c) /\ box[t].hash.id \notin resumed
    BY <1>1 DEF VoteMoves, BookGoesOn
  <2> QED BY <1>0, <1>1, <2>1, BalancedBoxes, BookKept DEF BookGoesOn
<1>2. ASSUME IsHistory(box'[s]), box'[s].hash.id \notin resumed' PROVE BookBalanced(s)'
  <2> DEFINE p2 == VotedStake'
             q2 == VotedCount'
             U == Backers(h)'
             W == WinnersOf(s)'
  <2>1. /\ box'[s].hash = h /\ box'[s].payed = 0
        /\ box'[s].stake = proposal'[v][h].stake /\ box'[s].count = proposal'[v][h].count
    BY <1>2 DEF VoteMoves
  <2>2. Unclaimed(s)' = W /\ W \in SUBSET U
    BY <1>2, <2>1, UnclaimedVotesNext DEF WinnersOf, Backers, Voters
  <2>3. IsFiniteSet(U) /\ \A d \in U : p2[d] \in Nat /\ q2[d] \in Nat
    <3>1. U \in SUBSET Voters
      BY DEF Backers, Voters
    <3> QED BY <3>1, VotersFinite, VotesTypedNext
  <2>4. SumOver(p2, U) <= proposal'[v][h].stake /\ SumOver(q2, U) <= proposal'[v][h].count
    BY <1>2, <2>1, VoteCounted DEF Counted
  <2>5. proposal'[v][h].stake \in Nat /\ proposal'[v][h].count \in Nat
    BY <1>0, VotesTypedNext
  <2> HIDE DEF p2, q2, U, W
  <2>6. SumOver(p2, W) <= SumOver(p2, U) /\ SumOver(q2, W) <= SumOver(q2, U)
    BY <2>2, <2>3, SumFewer
  <2>7. /\ SumOver(p2, W) \in Nat /\ SumOver(p2, U) \in Nat
        /\ SumOver(q2, W) \in Nat /\ SumOver(q2, U) \in Nat
    <3>1. IsFiniteSet(W) /\ \A d \in W : p2[d] \in Nat /\ q2[d] \in Nat
      BY <2>2, <2>3, FS_Subset
    <3> QED BY <2>3, <3>1, SumNat
  <2>8. 0 + SumOver(p2, W) <= proposal'[v][h].stake /\ SumOver(q2, W) <= proposal'[v][h].count
    BY <2>4, <2>5, <2>6, <2>7
  <2> QED BY <2>1, <2>2, <2>8 DEF BookBalanced, p2, q2
<1> QED BY <1>1, <1>2, BalancedBoxesNext

-----------------------------------------------------------------------------
(* The books of rewards *)

BooksInv ==
    LedgerInv /\ VotesInv /\ RewardsBalanced /\ settings.timeLock = InitialSettings.timeLock

LEMMA BooksInit == VotingInit => BooksInv
<1> SUFFICES ASSUME VotingInit PROVE BooksInv
  OBVIOUS
<1>0. VotingTypeOK /\ LedgerInv /\ settings.timeLock = InitialSettings.timeLock
  BY VotingInitTyped, LedgerInit DEF VotingInit, RequestsInit, Init
<1>1. \A s \in Slot : ~IsRequest(box[s]) /\ ~IsHistory(box[s])
  BY DEF VotingInit, RequestsInit, NoBox, None, IsRequest, IsHistory
<1>2. KnownVotes
  <2>1. \A c \in Voters : VoteOf(c).hash.id = 0
    BY VotersFinite DEF VotingInit, VoteOf, NotRegistered, EmptyVote, NoHash
  <2> QED BY <2>1 DEF KnownVotes, VotingInit, RequestsInit
<1>3. LiveVotes /\ LiveProposals /\ VotesCounted
  BY <1>1 DEF LiveVotes, LiveProposals, VotesCounted, Live, Votable
<1>4. RewardsBalanced
  BY <1>1 DEF RewardsBalanced
<1> QED BY <1>0, <1>2, <1>3, <1>4 DEF BooksInv, VotesInv

LEMMA BooksStep ==
    ASSUME FixedTimeLock, VotingTypeOK, VotingTypeOK', BooksInv, [VotingNext]_vars
    PROVE  BooksInv'
<1>0. LedgerInv /\ VotesInv /\ RewardsBalanced
  BY DEF BooksInv
<1>1. settings'.timeLock = settings.timeLock
  BY TimeLockKept DEF BooksInv
<1>2. LedgerInv'
  BY <1>0, LedgerStep
<1>3. OldGoes /\ RewardsBalanced' => VotesInv' /\ RewardsBalanced'
  BY <1>0, OldGoesKeeps
<1>4. ASSUME [Next]_accountVars, UNCHANGED <<ledgerVars, votingVars>>
      PROVE  VotesInv' /\ RewardsBalanced'
  <2>1. OldGoes /\ RewardsBalanced'
    BY <1>0, <1>1, <1>4, AccountsOld
  <2> QED BY <1>3, <2>1
<1>5. ASSUME NEW s \in Slot, NEW r \in Account,
             MakeRequest(s[1], s[2]) \/ RefundRequest(s, r), UNCHANGED votingVars
      PROVE  VotesInv' /\ RewardsBalanced'
  BY <1>0, <1>3, <1>5, RequestsOld
<1>6. ASSUME NEW v \in VotingApp, NEW a \in Voter, NEW s \in Slot,
             NEW answer \in Answer, NEW count \in VoteCount, Vote(v, a, s, answer, count)
      PROVE  VotesInv' /\ RewardsBalanced'
  <2> DEFINE c == <<v, a>>
             h == HashOf(v, a, s, answer)
  <2>1. VoteMoves(v, c, s, h)
    BY <1>0, <1>6, VoteMoved
  <2> HIDE DEF c, h
  <2> QED BY <1>0, <2>1, VoteKeeps, VoteBalances
<1>7. ASSUME NEW v \in VotingApp,
             \/ DeployVotingContract(v)
             \/ \E h \in VoteHash : DeleteBox(v, h)
             \/ \E a \in Voter : RegisterVoter(v, a)
             \/ \E a \in Voter : DeregisterVoter(v, a)
             \/ \E a \in Voter, payee \in Account : ClaimRewards(v, a, payee)
      PROVE  VotesInv' /\ RewardsBalanced'
  <2>1. OldGoes /\ RewardsBalanced'
    BY <1>0, <1>7, SettlingOld
  <2> QED BY <1>3, <2>1
<1>8. VotesInv' /\ RewardsBalanced'
  BY <1>4, <1>5, <1>6, <1>7, VotingSteps
<1> QED BY <1>1, <1>2, <1>8 DEF BooksInv

\* No request pays out more than was won: for any number of accounts, requests,
\* contracts and answers, however votes, claims, refunds and deregistrations
\* follow each other, what a completed request has paid and what its winners may
\* still claim stay within the winning stake, so its box cannot go while a
\* winner has yet to be paid.  The manager leaves the time lock alone.  Of
\* requests whose vote was taken up again the theorem says nothing, and any
\* number of them may be open or completed beside the others.
THEOREM BooksBalance ==
    ASSUME FixedTimeLock
    PROVE  VotingSpec => []RewardsBalanced
<1>1. VotingInit => BooksInv
  BY BooksInit
<1>2. VotingTypeOK /\ VotingTypeOK' /\ BooksInv /\ [VotingNext]_vars => BooksInv'
  BY BooksStep
<1>3. BooksInv => RewardsBalanced
  BY DEF BooksInv
<1>4. VotingSpec => []VotingTypeOK
  BY VotingTypeCorrect
<1> QED BY <1>1, <1>2, <1>3, <1>4, PTL DEF VotingSpec

-----------------------------------------------------------------------------
(* The shares of a fee *)

Points(n, total)     == (n * PPM) \div total
Share(n, total, fee) == (Points(n, total) * fee) \div PPM

LEMMA QuotientBounded ==
    ASSUME NEW n \in Nat, NEW d \in Nat, d > 0
    PROVE  n \div d \in Nat /\ (n \div d) * d <= n
OBVIOUS

LEMMA ShareBounds ==
    ASSUME NEW n \in Nat, NEW total \in Nat, total > 0, NEW fee \in Nat
    PROVE  /\ Points(n, total) \in Nat /\ Points(n, total) * total <= n * PPM
           /\ Share(n, total, fee) \in Nat
           /\ Share(n, total, fee) * PPM <= Points(n, total) * fee
<1>1. PPM \in Nat /\ PPM > 0
  BY DEF PPM
<1>2. n * PPM \in Nat
  BY <1>1, ProductTyped
<1>3. Points(n, total) \in Nat /\ Points(n, total) * total <= n * PPM
  BY <1>2, QuotientBounded DEF Points
<1>4. Points(n, total) * fee \in Nat
  BY <1>3, ProductTyped
<1> QED BY <1>1, <1>3, <1>4, QuotientBounded DEF Share

LEMMA AddedProduct ==
    ASSUME NEW a \in Nat, NEW b \in Nat, NEW c \in Nat, NEW d \in Nat, NEW k \in Nat,
           NEW m \in Nat, a * k <= b * m, c * k <= d * m
    PROVE  (a + c) * k <= (b + d) * m
<1>1. (a + c) * k = a * k + c * k /\ (b + d) * m = b * m + d * m
  OBVIOUS
<1>2. a * k \in Nat /\ b * m \in Nat /\ c * k \in Nat /\ d * m \in Nat
  BY ProductTyped
<1> DEFINE ak == a * k
           bm == b * m
           ck == c * k
           dm == d * m
<1>3. /\ ak \in Nat /\ bm \in Nat /\ ck \in Nat /\ dm \in Nat
      /\ ak <= bm /\ ck <= dm /\ (a + c) * k = ak + ck /\ (b + d) * m = bm + dm
  BY <1>1, <1>2
<1> HIDE DEF ak, bm, ck, dm
<1> QED BY <1>3

LEMMA ProductCancels ==
    ASSUME NEW a \in Nat, NEW b \in Nat, NEW k \in Nat, k > 0, a * k <= b * k
    PROVE  a <= b
<1> SUFFICES ASSUME b + 1 <= a PROVE FALSE
  OBVIOUS
<1>1. (b + 1) * k <= a * k
  BY ProductMonotone
<1>2. (b + 1) * k = b * k + k /\ b * k \in Nat /\ a * k \in Nat
  BY ProductTyped
<1> DEFINE bk == b * k
           ak == a * k
<1>3. bk + k <= ak /\ ak <= bk /\ bk \in Nat /\ ak \in Nat
  BY <1>1, <1>2
<1> HIDE DEF bk, ak
<1> QED BY <1>3

\* Shares are rounded down twice, so they add up to no more than the fee.
LEMMA RoundedShares ==
    ASSUME NEW U, IsFiniteSet(U), NEW n, NEW r, NEW total \in Nat, total > 0, NEW fee \in Nat,
           \A c \in U : n[c] \in Nat /\ r[c] = Share(n[c], total, fee),
           SumOver(n, U) <= total
    PROVE  SumOver(r, U) <= fee
<1> DEFINE p == [c \in U |-> Points(n[c], total)]
           Good == {T \in SUBSET U :
                       /\ SumOver(p, T) * total <= SumOver(n, T) * PPM
                       /\ SumOver(r, T) * PPM <= SumOver(p, T) * fee}
<1>0. PPM \in Nat /\ PPM > 0
  BY DEF PPM
<1>1. \A c \in U : /\ n[c] \in Nat /\ p[c] \in Nat /\ r[c] \in Nat
                   /\ p[c] * total <= n[c] * PPM /\ r[c] * PPM <= p[c] * fee
  <2>1. \A m \in Nat :
           /\ Points(m, total) \in Nat /\ Points(m, total) * total <= m * PPM
           /\ Share(m, total, fee) \in Nat /\ Share(m, total, fee) * PPM <= Points(m, total) * fee
    BY ShareBounds
  <2>2. \A c \in U : p[c] = Points(n[c], total) /\ r[c] = Share(n[c], total, fee)
    OBVIOUS
  <2> HIDE DEF p
  <2> QED BY <2>1, <2>2
<1> HIDE DEF p
<1>2. \A T \in SUBSET U : /\ SumOver(p, T) \in Nat /\ SumOver(n, T) \in Nat
                          /\ SumOver(r, T) \in Nat /\ IsFiniteSet(T)
  BY <1>1, SumNat, FS_Subset
<1>3. {} \in Good
  <2>1. SumOver(p, {}) = 0 /\ SumOver(n, {}) = 0 /\ SumOver(r, {}) = 0
    BY SumEmpty
  <2> QED BY <1>0, <2>1
<1>4. ASSUME NEW T \in SUBSET U, NEW x \in U \ T, T \in Good
      PROVE  T \cup {x} \in Good
  <2>1. /\ SumOver(p, T \cup {x}) = SumOver(p, T) + p[x]
        /\ SumOver(n, T \cup {x}) = SumOver(n, T) + n[x]
        /\ SumOver(r, T \cup {x}) = SumOver(r, T) + r[x]
    <3>1. \A y \in T \cup {x} : p[y] \in Int /\ n[y] \in Int /\ r[y] \in Int
      BY <1>1
    <3> QED BY <1>2, <3>1, SumInsert
  <2>2. /\ SumOver(p, T) * total <= SumOver(n, T) * PPM
        /\ SumOver(r, T) * PPM <= SumOver(p, T) * fee
    BY <1>4
  <2>3. /\ (SumOver(p, T) + p[x]) * total <= (SumOver(n, T) + n[x]) * PPM
        /\ (SumOver(r, T) + r[x]) * PPM <= (SumOver(p, T) + p[x]) * fee
    BY <1>0, <1>1, <1>2, <2>2, AddedProduct
  <2> QED BY <2>1, <2>3
<1>5. U \in Good
  <2> HIDE DEF Good
  <2> QED BY <1>3, <1>4, ElementInduction
<1> DEFINE P == SumOver(p, U)
           N == SumOver(n, U)
           R == SumOver(r, U)
<1>6. /\ P * total <= N * PPM /\ R * PPM <= P * fee
      /\ P \in Nat /\ N \in Nat /\ R \in Nat /\ N <= total
  BY <1>2, <1>5
<1> HIDE DEF P, N, R, Good
<1>7. P <= PPM
  <2>1. N * PPM <= total * PPM /\ total * PPM = PPM * total
    BY <1>0, <1>6, ProductMonotone
  <2>2. P * total <= PPM * total
    <3>1. P * total \in Nat /\ N * PPM \in Nat /\ PPM * total \in Nat
      BY <1>0, <1>6, ProductTyped
    <3> QED BY <1>6, <2>1, <3>1
  <2> QED BY <1>0, <1>6, <2>2, ProductCancels
<1>8. R * PPM <= fee * PPM
  <2>1. P * fee <= PPM * fee /\ PPM * fee = fee * PPM
    BY <1>0, <1>6, <1>7, ProductMonotone
  <2>2. R * PPM \in Nat /\ P * fee \in Nat /\ PPM * fee \in Nat
    BY <1>0, <1>6, ProductTyped
  <2> QED BY <1>6, <2>1, <2>2
<1>9. R <= fee
  BY <1>0, <1>6, <1>8, ProductCancels
<1> QED BY <1>9 DEF R

-----------------------------------------------------------------------------
(* What a request owes *)

Rewards == [c \in Voters |-> RewardOf(VoteOf(c), settings.goraFee)]

\* What the book of box t pays for the vote of c
Paid(t, c) ==
    IF IsHistory(box[t]) /\ box[t].count > 0 /\ c \in Unclaimed(t) THEN Rewards[c] ELSE 0

RewardsShared ==
    \A s \in Slot, c \in Voters :
       IsHistory(box[s]) /\ box[s].count > 0 /\ c \in Unclaimed(s) =>
          /\ Rewards[c] = Share(VotedCount[c], box[s].count, settings.goraFee)
          /\ Rewards[c] \in Nat

LEMMA RewardShares == VotingTypeOK => RewardsShared
<1> SUFFICES ASSUME VotingTypeOK, NEW s \in Slot, NEW c \in Voters,
                    IsHistory(box[s]), box[s].count > 0, c \in Unclaimed(s)
             PROVE  /\ Rewards[c] = Share(VotedCount[c], box[s].count, settings.goraFee)
                    /\ Rewards[c] \in Nat
  BY DEF RewardsShared
<1>1. BoxOf(VoteOf(c)) = box[s] /\ VoteOf(c).count \in Nat
  <2>1. VoteOf(c).slot = s /\ IsHistory(BoxOf(VoteOf(c)))
    BY DEF Unclaimed, Won
  <2>2. VoteOf(c) # EmptyVote
    BY <2>1 DEF BoxOf, IsHistory, NoBox, None
  <2> QED BY <2>1, <2>2, VotesTyped DEF BoxOf
<1>2. box[s].count \in Nat /\ settings.goraFee \in Nat
  BY FeesTyped, BoxKinds DEF VotingTypeOK, Boxes, CompletedInfo
<1>3. Rewards[c] = Share(VoteOf(c).count, box[s].count, settings.goraFee)
  BY <1>1 DEF Rewards, RewardOf, RewardPoints, Share, Points
<1>4. Share(VoteOf(c).count, box[s].count, settings.goraFee) \in Nat
  BY <1>1, <1>2, ShareBounds
<1> QED BY <1>3, <1>4 DEF VotedCount

LEMMA RewardSharesNext == VotingTypeOK' => RewardsShared'
BY RewardShares, PTL

LEMMA DueUnfolds ==
    ASSUME NEW s \in Slot
    PROVE  RewardsDue(s, settings.goraFee) =
              IF IsHistory(box[s]) /\ box[s].count > 0 THEN SumOver(Rewards, Unclaimed(s)) ELSE 0
BY DEF RewardsDue, Rewards

LEMMA DueTyped ==
    VotingTypeOK =>
       \A s \in Slot : TokensDue(s) \in Nat /\ RewardsDue(s, settings.goraFee) \in Nat
<1> SUFFICES ASSUME VotingTypeOK, NEW s \in Slot
             PROVE  TokensDue(s) \in Nat /\ RewardsDue(s, settings.goraFee) \in Nat
  OBVIOUS
<1>1. settings.goraFee \in Nat
  BY FeesTyped
<1>2. RewardsDue(s, settings.goraFee) \in Nat
  <2>1. CASE IsHistory(box[s]) /\ box[s].count > 0
    <3>1. IsFiniteSet(Unclaimed(s)) /\ Unclaimed(s) \in SUBSET Voters
      BY VotersFinite DEF Unclaimed
    <3>2. \A c \in Unclaimed(s) : Rewards[c] \in Nat
      BY <2>1, <3>1, RewardShares DEF RewardsShared
    <3>3. SumOver(Rewards, Unclaimed(s)) \in Nat
      BY <3>1, <3>2, SumNat
    <3> QED BY <2>1, <3>3, DueUnfolds
  <2>2. CASE ~(IsHistory(box[s]) /\ box[s].count > 0)
    BY <2>2, DueUnfolds
  <2> QED BY <2>1, <2>2
<1> QED BY <1>1, <1>2 DEF TokensDue

\* The winners of a completed request share at most its fee, unless its vote was
\* taken up again
WinnersShared ==
    \A s \in Slot : (IsHistory(box[s]) => box[s].hash.id \notin resumed) =>
       RewardsDue(s, settings.goraFee) <= settings.goraFee

LEMMA WinnersShare == VotingTypeOK /\ RewardsBalanced => WinnersShared
<1> SUFFICES ASSUME VotingTypeOK, RewardsBalanced, NEW s \in Slot,
                    IsHistory(box[s]) => box[s].hash.id \notin resumed
             PROVE  RewardsDue(s, settings.goraFee) <= settings.goraFee
  BY DEF WinnersShared
<1>1. settings.goraFee \in Nat
  BY FeesTyped
<1>2. CASE IsHistory(box[s]) /\ box[s].count > 0
  <2>1. IsFiniteSet(Unclaimed(s)) /\ Unclaimed(s) \in SUBSET Voters
    BY VotersFinite DEF Unclaimed
  <2>2. \A c \in Unclaimed(s) : /\ VotedCount[c] \in Nat
                                /\ Rewards[c] = Share(VotedCount[c], box[s].count, settings.goraFee)
    BY <1>2, <2>1, RewardShares, VotesTyped DEF RewardsShared
  <2>3. box[s].count \in Nat /\ SumOver(VotedCount, Unclaimed(s)) <= box[s].count
    BY <1>2, BalancedBoxes, BoxKinds DEF BookBalanced, VotingTypeOK, Boxes, CompletedInfo
  <2>4. SumOver(Rewards, Unclaimed(s)) <= settings.goraFee
    BY <1>1, <1>2, <2>1, <2>2, <2>3, RoundedShares
  <2> QED BY <1>2, <2>4, DueUnfolds
<1>3. CASE ~(IsHistory(box[s]) /\ box[s].count > 0)
  BY <1>1, <1>3, DueUnfolds
<1> QED BY <1>2, <1>3

LEMMA WinnersShareNext == VotingTypeOK' /\ RewardsBalanced' => WinnersShared'
BY WinnersShare, PTL

LEMMA PaidIsDue ==
    ASSUME VotingTypeOK, NEW t \in Slot, NEW c \in Voters
    PROVE  Paid(t, c) \in Nat /\ Paid(t, c) <= TokensDue(t)
<1>0. TokensDue(t) \in Nat
  BY DueTyped
<1>1. CASE IsHistory(box[t]) /\ box[t].count > 0 /\ c \in Unclaimed(t)
  <2>1. IsFiniteSet(Unclaimed(t)) /\ Unclaimed(t) \in SUBSET Voters
    BY VotersFinite DEF Unclaimed
  <2>2. \A d \in Unclaimed(t) : Rewards[d] \in Nat
    BY <1>1, <2>1, RewardShares DEF RewardsShared
  <2>3. SumOver(Rewards, {c}) <= SumOver(Rewards, Unclaimed(t))
    BY <1>1, <2>1, <2>2, SumFewer
  <2>4. SumOver(Rewards, {c}) = Rewards[c] /\ Rewards[c] \in Nat
    <3> DEFINE p == Rewards
    <3>1. p[c] \in Nat /\ IsFiniteSet({}) /\ {} \cup {c} = {c}
      BY <1>1, <2>2, FS_EmptySet
    <3> HIDE DEF p
    <3>2. \A x \in {} \cup {c} : p[x] \in Int
      BY <3>1
    <3>3. SumOver(p, {} \cup {c}) = SumOver(p, {}) + p[c]
      BY <3>1, <3>2, SumInsert
    <3> QED BY <3>1, <3>3, SumEmpty DEF p
  <2>5. TokensDue(t) = SumOver(Rewards, Unclaimed(t))
    BY <1>1, BoxKinds, DueUnfolds DEF TokensDue, VotingTypeOK, Boxes
  <2> QED BY <1>1, <2>3, <2>4, <2>5 DEF Paid
<1>2. CASE ~(IsHistory(box[t]) /\ box[t].count > 0 /\ c \in Unclaimed(t))
  BY <1>0, <1>2 DEF Paid
<1> QED BY <1>1, <1>2

\* The book of a box that goes on owes less by what it paid
LEMMA DueFalls ==
    ASSUME VotingTypeOK, VotingTypeOK', settings'.goraFee = settings.goraFee,
           NEW t \in Slot, NEW c \in Voters, BookGoesOn(t, c), IsHistory(box'[t])
    PROVE  TokensDue(t)' <= TokensDue(t) - Paid(t, c)
<1> DEFINE U == Unclaimed(t)
           W == Unclaimed(t)'
           p == Rewards
           p2 == Rewards'
           pays == box[t].count > 0
<1>1. /\ TokensDue(t) = IF pays THEN SumOver(p, U) ELSE 0
      /\ TokensDue(t)' = IF pays THEN SumOver(p2, W) ELSE 0
  <2>1. IsHistory(box[t]) /\ ~IsRequest(box[t]) /\ ~IsRequest(box'[t])
        /\ box'[t].count = box[t].count
    BY BoxKinds DEF BookGoesOn, VotingTypeOK, Boxes
  <2>2. TokensDue(t) = RewardsDue(t, settings.goraFee)
    BY <2>1 DEF TokensDue
  <2>3. TokensDue(t)' = RewardsDue(t, settings.goraFee)'
    BY <2>1 DEF TokensDue
  <2>4. RewardsDue(t, settings.goraFee)' = IF pays THEN SumOver(p2, W) ELSE 0
    BY <2>1 DEF RewardsDue, Rewards
  <2> QED BY <2>1, <2>2, <2>3, <2>4, DueUnfolds
<1>2. W = U \ {c}
  <2>1. WinnersOf(t)' = WinnersOf(t) \ {c}
    BY DEF BookGoesOn, WinnersOf, Voters
  <2> QED BY <2>1, UnclaimedVotes, UnclaimedVotesNext DEF BookGoesOn
<1>3. U \in SUBSET Voters /\ IsFiniteSet(U) /\ IsFiniteSet(U \ {c})
  BY VotersFinite DEF Unclaimed
<1>4. ASSUME pays
      PROVE  /\ \A d \in U : p[d] \in Nat
             /\ \A d \in U \ {c} : p2[d] = p[d]
  <2>1. \A d \in U : p[d] \in Nat /\ p[d] = Share(VotedCount[d], box[t].count, settings.goraFee)
    BY <1>3, <1>4, RewardShares DEF RewardsShared, BookGoesOn
  <2>2. ASSUME NEW d \in U \ {c} PROVE p2[d] = p[d]
    <3>1. VoteOf(d)' = VoteOf(d) /\ VotedCount'[d] = VotedCount[d]
      BY <1>3, <2>2, VotesTyped, VotesTypedNext DEF BookGoesOn
    <3>2. p2[d] = Share(VotedCount'[d], box'[t].count, settings'.goraFee)
      <4>1. \A s \in Slot, e \in Voters :
               IsHistory(box'[s]) /\ box'[s].count > 0 /\ e \in Unclaimed(s)' =>
                  Rewards'[e] = Share(VotedCount'[e], box'[s].count, settings'.goraFee)
        BY RewardSharesNext DEF RewardsShared, Voters
      <4>2. box'[t].count = box[t].count /\ d \in W /\ d \in Voters
        BY <1>2, <1>3, <2>2 DEF BookGoesOn
      <4> QED BY <1>4, <4>1, <4>2
    <3>3. box'[t].count = box[t].count
      BY DEF BookGoesOn
    <3> QED BY <2>1, <2>2, <3>1, <3>2, <3>3
  <2> QED BY <2>1, <2>2
<1>5. Paid(t, c) = IF pays /\ c \in U THEN p[c] ELSE 0
  BY DEF Paid, BookGoesOn
<1> HIDE DEF U, W, p, p2, pays
<1>6. CASE ~pays
  BY <1>1, <1>5, <1>6
<1>7. CASE pays /\ c \in U
  <2>1. \A d \in U : p[d] \in Int
    BY <1>4, <1>7
  <2>2. SumOver(p, U) \in Int /\ p[c] \in Int
    BY <1>3, <1>7, <2>1, SumInt
  <2>3. SumOver(p2, U \ {c}) = SumOver(p, U) - p[c]
    <3>1. \A d \in U \ {c} : p2[d] = p[d]
      BY <1>4, <1>7
    <3> QED BY <1>3, <1>7, <2>1, <2>2, <3>1, SumLeave
  <2> QED BY <1>1, <1>2, <1>5, <1>7, <2>2, <2>3
<1>8. CASE pays /\ c \notin U
  <2>1. W = U /\ \A d \in U : p2[d] \in Int /\ p2[d] = p[d]
    BY <1>2, <1>4, <1>8
  <2>2. SumOver(p2, U) = SumOver(p, U) /\ SumOver(p, U) \in Int
    BY <1>3, <2>1, SumSame, SumInt
  <2> QED BY <1>1, <1>5, <1>8, <2>1, <2>2
<1> QED BY <1>6, <1>7, <1>8

-----------------------------------------------------------------------------
(* The tokens of accounts *)

\* What an account has at the contract: stake, balance and locked tokens
Holding == [a \in Account |-> stakeArray[a].cur.stake + accountToken[a] + lockedTokens[a]]

HoldingsType ==
    \A a \in Account :
       /\ stakeArray[a].cur.stake \in Nat /\ accountToken[a] \in Nat /\ lockedTokens[a] \in Nat
       /\ Holding[a] = stakeArray[a].cur.stake + accountToken[a] + lockedTokens[a]
       /\ Holding[a] \in Nat

LEMMA HoldingsTyped == TypeOK => HoldingsType
<1> SUFFICES ASSUME TypeOK, NEW a \in Account
             PROVE  /\ stakeArray[a].cur.stake \in Nat /\ accountToken[a] \in Nat
                    /\ lockedTokens[a] \in Nat
  BY DEF HoldingsType, Holding
<1>1. stakeArray[a] \in StakeArrays
  BY DEF TypeOK
<1> QED BY <1>1 DEF TypeOK, StakeArrays, StakeEntries

LEMMA HoldingsTypedNext == TypeOK' => HoldingsType'
BY HoldingsTyped, PTL

\* One account gains d at most, the others nothing
LEMMA HoldingGains ==
    ASSUME TypeOK, TypeOK', NEW a \in Account, NEW d \in Int,
           \A b \in Account \ {a} : Holding'[b] <= Holding[b],
           Holding'[a] <= Holding[a] + d
    PROVE  SumOver(Holding', Account) <= SumOver(Holding, Account) + d
<1> DEFINE f == Holding
           g == Holding'
<1>1. \A b \in Account : f[b] \in Int /\ g[b] \in Int
  BY HoldingsTyped, HoldingsTypedNext DEF HoldingsType
<1>2. /\ \A b \in Account \ {a} : g[b] <= f[b]
      /\ g[a] <= f[a] + d
  OBVIOUS
<1> HIDE DEF f, g
<1>3. SumOver(g, Account) <= SumOver(f, Account) + d
  BY <1>1, <1>2, SumShift, AccountAssumption
<1> QED BY <1>3 DEF f, g

\* No group of the main contract gives accounts more than comes into the vault.
LEMMA AccountsCovered ==
    ASSUME TypeOK, TypeOK', [Next]_accountVars
    PROVE  SumOver(Holding', Account) - vaultToken' <= SumOver(Holding, Account) - vaultToken
<1> DEFINE Covered == SumOver(Holding', Account) - vaultToken'
                         <= SumOver(Holding, Account) - vaultToken
<1>0. /\ SumOver(Holding, Account) \in Int /\ SumOver(Holding', Account) \in Int
      /\ vaultToken \in Nat /\ vaultToken' \in Nat
  <2>1. \A a \in Account : Holding[a] \in Int /\ Holding'[a] \in Int
    BY HoldingsTyped, HoldingsTypedNext DEF HoldingsType
  <2> QED BY <2>1, AccountAssumption, SumInt DEF TypeOK
<1>1. ASSUME NEW a \in Account, NEW d \in Int, vaultToken' = vaultToken + d,
             \A b \in Account \ {a} :
                stakeArray'[b] = stakeArray[b] /\ accountToken'[b] = accountToken[b]
                   /\ lockedTokens'[b] = lockedTokens[b],
             stakeArray'[a].cur.stake + accountToken'[a] + lockedTokens'[a]
                <= stakeArray[a].cur.stake + accountToken[a] + lockedTokens[a] + d
      PROVE  Covered
  <2>1. /\ \A b \in Account \ {a} : Holding'[b] <= Holding[b]
        /\ Holding'[a] <= Holding[a] + d
    BY <1>1, HoldingsTyped, HoldingsTypedNext DEF HoldingsType
  <2>2. SumOver(Holding', Account) <= SumOver(Holding, Account) + d
    BY <2>1, HoldingGains
  <2> QED BY <1>0, <1>1, <2>2
<1>2. ASSUME UNCHANGED <<stakeArray, accountToken, lockedTokens, vaultToken>> PROVE Covered
  <2>1. Holding' = Holding
    BY <1>2 DEF Holding
  <2> QED BY <1>0, <1>2, <2>1
<1> HIDE DEF Covered
<1>3. \A b \in Account : /\ stakeArray[b].cur.stake \in Nat /\ accountToken[b] \in Nat
                         /\ lockedTokens[b] \in Nat
  BY HoldingsTyped DEF HoldingsType
<1>4. /\ StakeAmount \subseteq Nat /\ DepositAmount \subseteq Nat /\ settings.subLock \in Nat
      /\ stakeArray \in [Account -> StakeArrays] /\ accountToken \in [Account -> Nat]
      /\ lockedTokens \in [Account -> Nat]
  BY AmountAssumption DEF TypeOK, SettingsType
<1>5. ASSUME NEW a \in Account, OptIn(a) PROVE Covered
  <2>1. stakeArray'[a].cur.stake = 0
    BY <1>4, <1>5 DEF OptIn, InitArray, Entry
  <2>2. \A b \in Account \ {a} : stakeArray'[b] = stakeArray[b]
    BY <1>4, <1>5 DEF OptIn
  <2>3. vaultToken' = vaultToken + 0 /\ accountToken' = accountToken /\ lockedTokens' = lockedTokens
    BY <1>0, <1>5 DEF OptIn, balanceVars, assetVars
  <2> QED BY <1>1, <1>3, <2>1, <2>2, <2>3
<1>6. ASSUME NEW a \in Account, ClearState(a) PROVE Covered
  <2>1. stakeArray'[a].cur.stake = 0 /\ accountToken'[a] = 0 /\ lockedTokens'[a] = 0
    BY <1>4, <1>6 DEF ClearState, NoStake, InitArray, Entry
  <2>2. \A b \in Account \ {a} : /\ stakeArray'[b] = stakeArray[b]
                                 /\ accountToken'[b] = accountToken[b]
                                 /\ lockedTokens'[b] = lockedTokens[b]
    BY <1>4, <1>6 DEF ClearState
  <2> QED BY <1>0, <1>1, <1>3, <1>6, <2>1, <2>2 DEF ClearState, assetVars
<1>7. ASSUME NEW a \in Account, Subscribe(a) PROVE Covered
  <2>1. /\ accountToken'[a] = accountToken[a] - settings.subLock
        /\ lockedTokens'[a] = lockedTokens[a] + settings.subLock
        /\ \A b \in Account \ {a} : /\ accountToken'[b] = accountToken[b]
                                    /\ lockedTokens'[b] = lockedTokens[b]
        /\ stakeArray' = stakeArray /\ vaultToken' = vaultToken
    BY <1>4, <1>7 DEF Subscribe, stakeVars, assetVars
  <2> QED BY <1>0, <1>1, <1>3, <1>4, <2>1
<1>8. ASSUME NEW a \in Account, NEW n \in Nat, NEW m \in Nat, ChangeStake(a, n, m)
      PROVE  /\ stakeArray'[a].cur.stake = n
             /\ \A b \in Account \ {a} : stakeArray'[b] = stakeArray[b]
  BY <1>4, <1>8 DEF ChangeStake, Updated, Entry
<1>9. totalStake.cur.stake \in Nat
  BY DEF TypeOK, StakeArrays, StakeEntries
<1>10. ASSUME NEW a \in Account, NEW amount \in StakeAmount, Stake(a, amount) PROVE Covered
  <2>1. /\ stakeArray[a].cur.stake + amount \in Nat /\ totalStake.cur.stake + amount \in Nat
        /\ ChangeStake(a, stakeArray[a].cur.stake + amount, totalStake.cur.stake + amount)
    BY <1>3, <1>4, <1>9, <1>10 DEF Stake
  <2>2. /\ stakeArray'[a].cur.stake = stakeArray[a].cur.stake + amount
        /\ \A b \in Account \ {a} : stakeArray'[b] = stakeArray[b]
    BY <1>8, <2>1
  <2>3. vaultToken' = vaultToken + amount /\ accountToken' = accountToken
        /\ lockedTokens' = lockedTokens
    BY <1>10 DEF Stake, balanceVars
  <2> QED BY <1>1, <1>3, <1>4, <2>2, <2>3
<1>11. ASSUME NEW a \in Account, NEW amount \in StakeAmount, Unstake(a, amount) PROVE Covered
  <2>1. /\ stakeArray[a].cur.stake - amount \in Nat /\ totalStake.cur.stake - amount \in Nat
        /\ ChangeStake(a, stakeArray[a].cur.stake - amount, totalStake.cur.stake - amount)
    BY <1>3, <1>4, <1>9, <1>11 DEF Unstake
  <2>2. /\ stakeArray'[a].cur.stake = stakeArray[a].cur.stake - amount
        /\ \A b \in Account \ {a} : stakeArray'[b] = stakeArray[b]
    BY <1>8, <2>1
  <2>3. vaultToken' = vaultToken + (-amount) /\ accountToken' = accountToken
        /\ lockedTokens' = lockedTokens /\ -amount \in Int
    BY <1>0, <1>4, <1>11 DEF Unstake, balanceVars
  <2> QED BY <1>1, <1>3, <1>4, <2>2, <2>3
<1>12. ASSUME NEW a \in Account, NEW b \in Account, NEW amount \in DepositAmount,
              DepositToken(a, b, amount)
       PROVE  Covered
  <2>1. /\ accountToken'[b] = accountToken[b] + amount
        /\ \A e \in Account \ {b} : accountToken'[e] = accountToken[e]
        /\ vaultToken' = vaultToken + amount
        /\ stakeArray' = stakeArray /\ lockedTokens' = lockedTokens
    BY <1>4, <1>12 DEF DepositToken, stakeVars
  <2> QED BY <1>1, <1>3, <1>4, <2>1
<1>13. ASSUME NEW a \in Account, NEW amount \in DepositAmount, WithdrawToken(a, amount)
       PROVE  Covered
  <2>1. /\ accountToken'[a] = accountToken[a] - amount
        /\ \A e \in Account \ {a} : accountToken'[e] = accountToken[e]
        /\ vaultToken' = vaultToken + (-amount) /\ -amount \in Int
        /\ stakeArray' = stakeArray /\ lockedTokens' = lockedTokens
    BY <1>0, <1>4, <1>13 DEF WithdrawToken, stakeVars
  <2> QED BY <1>1, <1>3, <1>4, <2>1
<1>14. ASSUME NEW a \in Account,
              \/ UnregisterKey(a)
              \/ \E k \in PublicKey : RegisterKey(a, k)
              \/ \E amount \in DepositAmount :
                    \/ WithdrawAlgo(a, amount)
                    \/ \E b \in Account : DepositAlgo(a, b, amount)
              \/ \E s \in Settings : UpdateProtocolSettings(a, s)
       PROVE  Covered
  BY <1>2, <1>14 DEF UnregisterKey, RegisterKey, WithdrawAlgo, DepositAlgo,
     UpdateProtocolSettings, stakeVars, balanceVars, assetVars
<1>15. ASSUME NextRound \/ UNCHANGED accountVars PROVE Covered
  BY <1>2, <1>15 DEF NextRound, accountVars, stakeVars, balanceVars, assetVars
<1>16. Covered
  BY <1>5, <1>6, <1>7, <1>10, <1>11, <1>12, <1>13, <1>14, <1>15 DEF Next, AccountStep
<1> QED BY <1>16 DEF Covered

-----------------------------------------------------------------------------
(* Fees *)

Due == [s \in Slot |-> TokensDue(s)]

\* What the accounts own and what open and completed requests owe is in the vault
FeesInv == SumOver(Holding, Account) + SumOver(Due, Slot) <= vaultToken

SumsType ==
    /\ SumOver(Holding, Account) \in Int /\ SumOver(Due, Slot) \in Int /\ vaultToken \in Nat
    /\ \A s \in Slot : Due[s] = TokensDue(s) /\ Due[s] \in Nat

LEMMA SumsTyped == VotingTypeOK => SumsType
<1> SUFFICES ASSUME VotingTypeOK PROVE SumsType
  OBVIOUS
<1>1. \A a \in Account : Holding[a] \in Int
  BY HoldingsTyped DEF HoldingsType, VotingTypeOK
<1>2. \A s \in Slot : Due[s] = TokensDue(s) /\ Due[s] \in Nat
  BY DueTyped DEF Due
<1>3. SumOver(Due, Slot) \in Int
  BY <1>2, SlotsFinite, SumInt
<1> QED BY <1>1, <1>2, <1>3, SumInt, AccountAssumption DEF SumsType, VotingTypeOK, TypeOK

LEMMA SumsTypedNext == VotingTypeOK' => SumsType'
BY SumsTyped, PTL

\* One request owes less by d, the others owe no more
LEMMA DueShifts ==
    ASSUME VotingTypeOK, VotingTypeOK', NEW s \in Slot, NEW d \in Int,
           \A t \in Slot \ {s} : TokensDue(t)' <= TokensDue(t),
           TokensDue(s)' <= TokensDue(s) + d
    PROVE  SumOver(Due', Slot) <= SumOver(Due, Slot) + d
<1> DEFINE f == Due
           g == Due'
<1>1. \A t \in Slot : /\ f[t] \in Int /\ g[t] \in Int
                      /\ f[t] = TokensDue(t) /\ g[t] = TokensDue(t)'
  BY SumsTyped, SumsTypedNext DEF SumsType, Slot
<1> HIDE DEF f, g
<1>2. \A t \in Slot \ {s} : g[t] <= f[t]
  BY <1>1
<1>3. g[s] <= f[s] + d
  BY <1>1
<1>4. SumOver(g, Slot) <= SumOver(f, Slot) + d
  BY <1>1, <1>2, <1>3, SlotsFinite, SumShift
<1> QED BY <1>4 DEF f, g

LEMMA DueStays ==
    ASSUME VotingTypeOK, VotingTypeOK', \A t \in Slot : TokensDue(t)' <= TokensDue(t)
    PROVE  SumOver(Due', Slot) <= SumOver(Due, Slot)
<1> DEFINE f == Due
           g == Due'
<1>1. \A t \in Slot : f[t] \in Int /\ g[t] \in Int /\ g[t] <= f[t]
  BY SumsTyped, SumsTypedNext DEF SumsType, Slot
<1> HIDE DEF f, g
<1>2. SumOver(g, Slot) <= SumOver(f, Slot)
  BY <1>1, SlotsFinite, SumLeq
<1> QED BY <1>2 DEF f, g

\* A box that is left alone, while no vote changes, owes what it owed
LEMMA DueUntouched ==
    ASSUME VotingTypeOK, VotingTypeOK', settings'.goraFee = settings.goraFee,
           history' = history, NEW t \in Slot, box'[t] = box[t]
    PROVE  TokensDue(t)' = TokensDue(t)
<1> DEFINE U == Unclaimed(t)
           p == Rewards
           p2 == Rewards'
<1>1. CASE IsHistory(box[t]) /\ box[t].count > 0
  <2>1. Unclaimed(t)' = U
    <3>1. WinnersOf(t)' = WinnersOf(t)
      BY DEF WinnersOf, VoteOf, Voters
    <3> QED BY <1>1, <3>1, UnclaimedVotes, UnclaimedVotesNext
  <2>2. U \in SUBSET Voters /\ IsFiniteSet(U)
    BY VotersFinite DEF Unclaimed
  <2>3. \A d \in U : p[d] \in Int /\ p[d] = Share(VotedCount[d], box[t].count, settings.goraFee)
    BY <1>1, <2>2, RewardShares DEF RewardsShared
  <2>4. \A d \in U : p2[d] = Share(VotedCount'[d], box'[t].count, settings'.goraFee)
    <3>1. \A d \in U : d \in Voters /\ d \in Unclaimed(t)' /\ IsHistory(box'[t]) /\ box'[t].count > 0
      BY <1>1, <2>1, <2>2
    <3>2. \A d \in Voters : IsHistory(box'[t]) /\ box'[t].count > 0 /\ d \in Unclaimed(t)' =>
             Rewards'[d] = Share(VotedCount'[d], box'[t].count, settings'.goraFee)
      BY RewardSharesNext DEF RewardsShared, Voters
    <3> QED BY <3>1, <3>2
  <2>5. VotedCount' = VotedCount
    BY DEF VotedCount, VoteOf, Voters
  <2>6. TokensDue(t) = SumOver(p, U) /\ TokensDue(t)' = SumOver(p2, U)
    <3>1. ~IsRequest(box[t])
      BY <1>1 DEF IsRequest, IsHistory
    <3>2. TokensDue(t) = RewardsDue(t, settings.goraFee)
      BY <3>1 DEF TokensDue
    <3>3. TokensDue(t)' = RewardsDue(t, settings.goraFee)'
      BY <3>1 DEF TokensDue
    <3>4. RewardsDue(t, settings.goraFee)' = SumOver(p2, Unclaimed(t)')
      BY <1>1 DEF RewardsDue, Rewards
    <3> QED BY <1>1, <2>1, <3>2, <3>3, <3>4, DueUnfolds
  <2>7. \A d \in U : p2[d] = p[d]
    BY <2>3, <2>4, <2>5
  <2> HIDE DEF U, p, p2
  <2>8. SumOver(p, U) = SumOver(p2, U)
    BY <2>2, <2>3, <2>7, SumSame
  <2> QED BY <2>6, <2>8
<1>2. CASE ~(IsHistory(box[t]) /\ box[t].count > 0)
  BY <1>2 DEF TokensDue, RewardsDue
<1> QED BY <1>1, <1>2

\* When the vote of c is settled, a box owes less by what it pays for it: a book
\* goes on, and a request that completes owes its fee to its winners.
LEMMA OwesLess ==
    ASSUME VotingTypeOK, VotingTypeOK', settings'.goraFee = settings.goraFee,
           NEW c \in Voters, NothingReopens, NEW t \in Slot,
           IsHistory(box'[t]) =>
              \/ BookGoesOn(t, c)
              \/ /\ IsRequest(box[t]) /\ box[t].status # "refunded"
                 /\ RewardsDue(t, settings.goraFee)' <= settings.goraFee
    PROVE  TokensDue(t)' <= TokensDue(t) - Paid(t, c)
<1>0. /\ TokensDue(t) \in Nat /\ Paid(t, c) \in Nat /\ Paid(t, c) <= TokensDue(t)
      /\ settings.goraFee \in Nat
  BY DueTyped, PaidIsDue, FeesTyped
<1>1. ASSUME IsRequest(box[t]), box[t].status # "refunded"
      PROVE  TokensDue(t) = settings.goraFee /\ Paid(t, c) = 0
  BY <1>1 DEF TokensDue, Paid, IsRequest, IsHistory
<1>2. CASE IsHistory(box'[t])
  <2>1. CASE BookGoesOn(t, c)
    BY <1>2, <2>1, DueFalls
  <2>2. CASE ~BookGoesOn(t, c)
    <3>1. /\ IsRequest(box[t]) /\ box[t].status # "refunded"
          /\ RewardsDue(t, settings.goraFee)' <= settings.goraFee
      BY <1>2, <2>2
    <3>2. TokensDue(t)' = RewardsDue(t, settings.goraFee)'
      BY <1>2 DEF TokensDue, IsRequest, IsHistory
    <3> QED BY <1>0, <1>1, <3>1, <3>2
  <2> QED BY <2>1, <2>2
<1>3. CASE IsRequest(box'[t]) /\ box'[t].status # "refunded"
  <2>1. IsRequest(box[t]) /\ box[t].status # "refunded"
    BY <1>3 DEF NothingReopens, Open
  <2>2. TokensDue(t)' = settings.goraFee
    BY <1>3 DEF TokensDue
  <2> QED BY <1>0, <1>1, <2>1, <2>2
<1>4. CASE ~IsHistory(box'[t]) /\ ~(IsRequest(box'[t]) /\ box'[t].status # "refunded")
  <2>1. TokensDue(t)' = 0
    BY <1>4 DEF TokensDue, RewardsDue
  <2> QED BY <1>0, <2>1
<1> QED BY <1>2, <1>3, <1>4

\* The reward that the settlement of a vote pays comes out of what its box owes.
LEMMA PaymentCovered ==
    ASSUME VotingTypeOK, VotingTypeOK', FeesInv, NEW c \in Voters, NEW payee \in Account,
           VoteOf(c) \in Votes, Settleable(VoteOf(c)),
           accountToken' = SettledToken(VoteOf(c), payee),
           UNCHANGED <<stakeArray, lockedTokens, vaultToken>>,
           \A t \in Slot : TokensDue(t)' <= TokensDue(t) - Paid(t, c)
    PROVE  FeesInv'
<1> DEFINE w == VoteOf(c)
           d == RewardOf(w, settings.goraFee)
<1>0. /\ SumsType /\ SumsType' /\ TypeOK /\ TypeOK' /\ HoldingsType /\ HoldingsType'
      /\ settings.goraFee \in Nat
      /\ \A t \in Slot : TokensDue(t) \in Nat /\ TokensDue(t)' \in Nat /\ Paid(t, c) \in Nat
  BY SumsTyped, SumsTypedNext, HoldingsTyped, HoldingsTypedNext, FeesTyped, PaidIsDue
     DEF VotingTypeOK, SumsType, Slot
<1>1. \A t \in Slot : TokensDue(t)' <= TokensDue(t)
  BY <1>0
<1>2. CASE Won(w)
  <2> PICK s \in Slot : /\ w.slot = s /\ IsHistory(box[s]) /\ box[s].count > 0
                        /\ c \in Unclaimed(s)
    <3>1. IsHistory(BoxOf(w)) /\ BoxOf(w).count > 0
      BY <1>2 DEF Won, Settleable
    <3>2. w.slot \in Slot /\ BoxOf(w) = box[w.slot]
      BY <3>1, VoteKinds
    <3> QED BY <1>2, <3>1, <3>2 DEF Unclaimed
  <2>1. d \in Nat
    BY <1>0, <1>2, RewardTyped
  <2>2. Paid(s, c) = d
    BY DEF Paid, Rewards
  <2>3. accountToken' = [accountToken EXCEPT ![payee] = @ + d]
    BY <1>2 DEF SettledToken
  <2> HIDE DEF d, w
  <2>4. /\ \A b \in Account \ {payee} : accountToken'[b] = accountToken[b]
        /\ accountToken'[payee] = accountToken[payee] + d
    BY <1>0, <2>3 DEF TypeOK
  <2>5. /\ \A b \in Account \ {payee} : Holding'[b] <= Holding[b]
        /\ Holding'[payee] <= Holding[payee] + d
    BY <1>0, <2>1, <2>4 DEF HoldingsType
  <2>6. SumOver(Holding', Account) <= SumOver(Holding, Account) + d
    BY <1>0, <2>1, <2>5, HoldingGains
  <2>7. -d \in Int /\ TokensDue(s)' <= TokensDue(s) + (-d)
    <3>1. TokensDue(s)' <= TokensDue(s) - d
      BY <2>2
    <3> QED BY <1>0, <2>1, <3>1
  <2>8. SumOver(Due', Slot) <= SumOver(Due, Slot) + (-d)
    BY <1>1, <2>1, <2>7, DueShifts
  <2> QED BY <1>0, <2>1, <2>6, <2>8 DEF FeesInv, SumsType
<1>3. CASE ~Won(w)
  <2>1. Holding' = Holding
    BY <1>3 DEF SettledToken, Holding
  <2>2. SumOver(Due', Slot) <= SumOver(Due, Slot)
    BY <1>1, DueStays
  <2> QED BY <1>0, <2>1, <2>2 DEF FeesInv, SumsType
<1> QED BY <1>2, <1>3

\* Tokens that go between an account and one box, with nothing left over
LEMMA TokensMove ==
    ASSUME VotingTypeOK, VotingTypeOK', FeesInv, NEW a \in Account, NEW s \in Slot,
           NEW d \in Int, NEW e \in Int, d + e <= 0,
           accountToken' = [accountToken EXCEPT ![a] = @ + d],
           UNCHANGED <<stakeArray, lockedTokens, vaultToken>>,
           \A t \in Slot \ {s} : TokensDue(t)' <= TokensDue(t),
           TokensDue(s)' <= TokensDue(s) + e
    PROVE  FeesInv'
<1>0. /\ SumsType /\ SumsType' /\ TypeOK /\ TypeOK' /\ HoldingsType /\ HoldingsType'
  BY SumsTyped, SumsTypedNext, HoldingsTyped, HoldingsTypedNext DEF VotingTypeOK
<1>1. /\ \A b \in Account \ {a} : accountToken'[b] = accountToken[b]
      /\ accountToken'[a] = accountToken[a] + d
  BY <1>0 DEF TypeOK
<1>2. /\ \A b \in Account \ {a} : Holding'[b] <= Holding[b]
      /\ Holding'[a] <= Holding[a] + d
  BY <1>0, <1>1 DEF HoldingsType
<1>3. SumOver(Holding', Account) <= SumOver(Holding, Account) + d
  BY <1>0, <1>2, HoldingGains
<1>4. SumOver(Due', Slot) <= SumOver(Due, Slot) + e
  BY DueShifts
<1> QED BY <1>0, <1>3, <1>4 DEF FeesInv, SumsType

LEMMA RequestsCovered ==
    ASSUME VotingTypeOK, VotingTypeOK', FeesInv, SameFees(settings), SoundFees, NEW s \in Slot,
           NEW r \in Account, MakeRequest(s[1], s[2]) \/ RefundRequest(s, r), UNCHANGED votingVars
    PROVE  FeesInv'
<1>0. /\ settings.goraFee \in Nat /\ TokenBack \in Nat /\ TokenBack <= settings.goraFee
      /\ history' = history /\ s[1] \in Account
      /\ box \in [Slot -> Boxes] /\ accountToken \in [Account -> Nat]
  BY BackTyped, RequestAssumption DEF votingVars, VotingTypeOK, TypeOK, Boxes, Slot
<1>1. /\ settings' = settings
      /\ UNCHANGED <<stakeArray, lockedTokens, vaultToken>>
      /\ \A t \in Slot \ {s} : box'[t] = box[t]
  <2>1. CASE MakeRequest(s[1], s[2])
    BY <2>1, MadeBox DEF MakeRequest, stakeVars, assetVars
  <2>2. CASE RefundRequest(s, r)
    BY <1>0, <2>2 DEF RefundRequest, RefundUnproposed, RefundProposed, MarkedRefunded,
       stakeVars, assetVars
  <2> QED BY <2>1, <2>2
<1>2. \A t \in Slot \ {s} : TokensDue(t)' = TokensDue(t) /\ TokensDue(t) \in Nat
  BY <1>0, <1>1, DueUntouched, DueTyped
<1>3. \A t \in Slot \ {s} : TokensDue(t)' <= TokensDue(t)
  BY <1>2
<1>4. CASE MakeRequest(s[1], s[2])
  <2>1. TokensDue(s)' = settings.goraFee
    BY <1>1, <1>4, MadeBox DEF TokensDue
  <2>2. TokensDue(s) = 0
    BY <1>4, MadeBox DEF TokensDue, RewardsDue, IsRequest, IsHistory, NoBox, None
  <2>3. accountToken' = [accountToken EXCEPT ![s[1]] = @ + (-settings.goraFee)]
    <3>1. accountToken' = [accountToken EXCEPT ![s[1]] = @ - settings.goraFee]
      BY <1>4 DEF MakeRequest
    <3>2. accountToken[s[1]] - settings.goraFee = accountToken[s[1]] + (-settings.goraFee)
      BY <1>0
    <3> QED BY <3>1, <3>2
  <2>4. /\ -settings.goraFee \in Int /\ (-settings.goraFee) + settings.goraFee <= 0
        /\ settings.goraFee \in Int
    BY <1>0
  <2>5. TokensDue(s)' <= TokensDue(s) + settings.goraFee
    BY <1>0, <2>1, <2>2
  <2> QED BY <1>0, <1>1, <1>3, <2>3, <2>4, <2>5, TokensMove
<1>5. CASE RefundRequest(s, r)
  <2>1. IsRequest(box[s]) /\ box[s].status # "refunded" /\ box[s] \in RequestInfo
    BY <1>0, <1>5, BoxKinds DEF RefundRequest, RefundUnproposed, RefundProposed, ReadAsRequest
  <2>2. TokensDue(s) = settings.goraFee
    BY <2>1 DEF TokensDue
  <2>3. TokensDue(s)' = 0
    <3>1. CASE RefundUnproposed(s, r)
      <4>1. box'[s] = NoBox
        BY <1>0, <3>1 DEF RefundUnproposed
      <4> QED BY <4>1 DEF TokensDue, RewardsDue, IsRequest, IsHistory, NoBox, None
    <3>2. CASE RefundProposed(s, r)
      <4>1. box'[s] = [box[s] EXCEPT !.status = "refunded"]
        BY <1>0, <3>2 DEF RefundProposed, MarkedRefunded
      <4>2. box'[s].status = "refunded" /\ box'[s].kind = "request"
        BY <2>1, <4>1 DEF RequestInfo
      <4> QED BY <4>2 DEF TokensDue, RewardsDue, IsHistory
    <3> QED BY <1>5, <3>1, <3>2 DEF RefundRequest
  <2>4. accountToken' = [accountToken EXCEPT ![r] = @ + TokenBack]
    <3>1. CASE RefundUnproposed(s, r)
      BY <3>1 DEF RefundUnproposed, TokenBack
    <3>2. CASE RefundProposed(s, r)
      BY <3>2 DEF RefundProposed, TokenBack
    <3> QED BY <1>5, <3>1, <3>2 DEF RefundRequest
  <2>5. /\ TokenBack \in Int /\ -settings.goraFee \in Int /\ TokenBack + (-settings.goraFee) <= 0
        /\ TokensDue(s)' <= TokensDue(s) + (-settings.goraFee)
    BY <1>0, <2>2, <2>3
  <2> QED BY <1>0, <1>1, <1>3, <2>4, <2>5, TokensMove
<1> QED BY <1>4, <1>5

\* A group without payments that leaves the boxes alone, while no vote goes
LEMMA AccountsKeepFees ==
    ASSUME VotingTypeOK, VotingTypeOK', FeesInv, [Next]_accountVars,
           settings'.goraFee = settings.goraFee, UNCHANGED <<ledgerVars, votingVars>>
    PROVE  FeesInv'
<1>0. SumsType /\ SumsType' /\ TypeOK /\ TypeOK' /\ UNCHANGED <<box, history>>
  BY SumsTyped, SumsTypedNext DEF VotingTypeOK, ledgerVars, votingVars
<1>1. SumOver(Holding', Account) - vaultToken' <= SumOver(Holding, Account) - vaultToken
  BY <1>0, AccountsCovered
<1>2. \A t \in Slot : TokensDue(t)' = TokensDue(t) /\ TokensDue(t) \in Nat
  BY <1>0, DueUntouched, DueTyped
<1>3. SumOver(Due', Slot) <= SumOver(Due, Slot)
  BY <1>2, DueStays
<1> QED BY <1>0, <1>1, <1>3 DEF FeesInv, SumsType

\* What is owed when a voter acts, and when it votes: a request that it takes up
\* again may come to owe more
LEMMA VoterOwes ==
    ASSUME VotingTypeOK, VotingTypeOK', NEW v \in VotingApp, NEW a \in Voter, VoterActs(v, a)
    PROVE  \A t \in Slot : TokensDue(t)' <= TokensDue(t) - Paid(t, <<v, a>>)
<1> DEFINE c == <<v, a>>
<1>0. c \in Voters
  BY DEF Voters
<1>1. NothingReopens /\ settings' = settings
  BY SettlingReopensNothing DEF VoterActs
<1>2. \A t \in Slot : IsHistory(box'[t]) => BookGoesOn(t, c)
  BY VoterOld
<1> HIDE DEF c
<1>3. \A t \in Slot : TokensDue(t)' <= TokensDue(t) - Paid(t, c)
  BY <1>0, <1>1, <1>2, OwesLess
<1> QED BY <1>3 DEF c

LEMMA VoteOwes ==
    ASSUME VotingTypeOK, VotingTypeOK', LedgerInv, VotesInv, RewardsBalanced', RefundedLate,
           NEW v \in VotingApp, NEW a \in Voter, NEW s \in Slot,
           NEW answer \in Answer, NEW count \in VoteCount, Vote(v, a, s, answer, count)
    PROVE  \A t \in Slot : (t = s => box[s].id \notin resumed') =>
              TokensDue(t)' <= TokensDue(t) - Paid(t, <<v, a>>)
<1> DEFINE c == <<v, a>>
           h == HashOf(v, a, s, answer)
<1>0. c \in Voters
  BY DEF Voters
<1>1. NothingReopens /\ settings' = settings
  BY VoteReopensNothing, VoteUnfolds DEF VoteCounts
<1>2. VoteMoves(v, c, s, h)
  BY VoteMoved
<1> HIDE DEF c, h
<1>3. ASSUME NEW t \in Slot \ {s} PROVE TokensDue(t)' <= TokensDue(t) - Paid(t, c)
  <2>1. IsHistory(box'[t]) => BookGoesOn(t, c)
    BY <1>2 DEF VoteMoves
  <2> QED BY <1>0, <1>1, <2>1, OwesLess
<1>4. ASSUME box[s].id \notin resumed' PROVE TokensDue(s)' <= TokensDue(s) - Paid(s, c)
  <2>1. IsRequest(box[s]) /\ box[s].status # "refunded"
    BY <1>2 DEF VoteMoves, Votable, RefundedLate
  <2>2. IsHistory(box'[s]) => box'[s].hash.id \notin resumed'
    BY <1>2, <1>4 DEF VoteMoves
  <2>3. RewardsDue(s, settings.goraFee)' <= settings.goraFee
    BY <1>1, <2>2, WinnersShareNext DEF WinnersShared, Slot
  <2> QED BY <1>0, <1>1, <2>1, <2>3, OwesLess
<1> QED BY <1>3, <1>4 DEF c

LEMMA VoterKeepsFees ==
    ASSUME VotingTypeOK, VotingTypeOK', FeesInv, NEW v \in VotingApp, NEW a \in Voter,
           VoterActs(v, a)
    PROVE  FeesInv'
<1> DEFINE c == <<v, a>>
<1>0. /\ c \in Voters /\ VoteOf(c) = history[v][a]
      /\ SumsType /\ SumsType'
      /\ \A t \in Slot : TokensDue(t) \in Nat /\ TokensDue(t)' \in Nat
      /\ \A t \in Slot : TokensDue(t)' <= TokensDue(t) - Paid(t, c)
  BY SumsTyped, SumsTypedNext, VoterOwes DEF Voters, VoteOf, SumsType, Slot
<1> HIDE DEF c
<1>1. CASE UNCHANGED accountVars
  <2>1. Holding' = Holding /\ vaultToken' = vaultToken
    BY <1>1 DEF Holding, accountVars, stakeVars, balanceVars, assetVars
  <2>2. \A t \in Slot : TokensDue(t)' <= TokensDue(t)
    BY <1>0, PaidIsDue
  <2>3. SumOver(Due', Slot) <= SumOver(Due, Slot)
    BY <2>2, DueStays
  <2> QED BY <1>0, <2>1, <2>3 DEF FeesInv, SumsType
<1>2. ASSUME NEW payee \in Account, ClaimRewards(v, a, payee) PROVE FeesInv'
  <2>1. /\ VoteOf(c) \in Votes /\ Settleable(VoteOf(c))
        /\ accountToken' = SettledToken(VoteOf(c), payee)
        /\ UNCHANGED <<stakeArray, lockedTokens, vaultToken>>
    BY <1>0, <1>2 DEF ClaimRewards, Registered, VotingTypeOK, stakeVars, assetVars
  <2> QED BY <1>0, <2>1, PaymentCovered
<1> QED BY <1>1, <1>2 DEF VoterActs, RegisterVoter, DeregisterVoter

LEMMA VoteKeepsFees ==
    ASSUME VotingTypeOK, VotingTypeOK', FeesInv, LedgerInv, VotesInv, RewardsBalanced',
           RefundedLate, NEW v \in VotingApp, NEW a \in Voter, NEW s \in Slot,
           NEW answer \in Answer, NEW count \in VoteCount, Vote(v, a, s, answer, count),
           resumed' = {}
    PROVE  FeesInv'
<1> DEFINE c == <<v, a>>
<1>0. /\ c \in Voters /\ VoteOf(c) = history[v][a] /\ a \in Account
      /\ \A t \in Slot : TokensDue(t)' <= TokensDue(t) - Paid(t, c)
  BY VoteOwes, VotingAssumption DEF Voters, VoteOf
<1>1. VoteAllowed(v, a, s, answer, count) /\ VoteCounts(v, a, s, answer, count)
  BY VoteUnfolds
<1>2. /\ VoteOf(c) \in Votes /\ Settleable(VoteOf(c))
      /\ accountToken' = SettledToken(VoteOf(c), a)
      /\ UNCHANGED <<stakeArray, lockedTokens, vaultToken>>
  BY <1>0, <1>1 DEF VoteAllowed, VoteCounts, Before, Registered, VotingTypeOK, stakeVars, assetVars
<1> HIDE DEF c
<1> QED BY <1>0, <1>2, PaymentCovered

\* As long as no vote is taken up again
FeesKept == resumed = {} => FeesInv

LEMMA FeesInit == VotingInit => FeesKept
<1> SUFFICES ASSUME VotingInit PROVE FeesInv
  BY DEF FeesKept
<1>0. VotingTypeOK
  BY VotingInitTyped
<1>1. \A a \in Account : Holding[a] = 0
  <2>1. \A a \in Account : /\ stakeArray[a].cur.stake = 0 /\ accountToken[a] = 0
                           /\ lockedTokens[a] = 0
    BY DEF VotingInit, RequestsInit, Init, NoStake, InitArray, Entry
  <2> QED BY <2>1 DEF Holding
<1>2. \A s \in Slot : Due[s] = 0
  <2>1. \A s \in Slot : ~IsRequest(box[s]) /\ ~IsHistory(box[s])
    BY DEF VotingInit, RequestsInit, NoBox, None, IsRequest, IsHistory
  <2> QED BY <2>1 DEF Due, TokensDue, RewardsDue
<1>3. SumOver(Holding, Account) = 0 /\ SumOver(Due, Slot) = 0
  BY <1>1, <1>2, SumZero, AccountAssumption, SlotsFinite
<1>4. vaultToken \in Nat
  BY <1>0 DEF VotingTypeOK, TypeOK
<1> QED BY <1>3, <1>4 DEF FeesInv

\* What was taken up again stays so
LEMMA ResumedStay == [VotingNext]_vars => resumed \subseteq resumed'
<1> SUFFICES ASSUME [VotingNext]_vars PROVE resumed \subseteq resumed'
  OBVIOUS
<1>1. ASSUME NEW v \in VotingApp, VotingStep(v) PROVE resumed \subseteq resumed'
  <2>1. CASE DeployVotingContract(v) \/ \E h \in VoteHash : DeleteBox(v, h)
    BY <2>1 DEF DeployVotingContract, DeleteBox
  <2>2. ASSUME NEW a \in Voter, RegisterVoter(v, a) \/ DeregisterVoter(v, a)
        PROVE  resumed \subseteq resumed'
    BY <2>2 DEF RegisterVoter, DeregisterVoter
  <2>3. ASSUME NEW a \in Voter, NEW payee \in Account, ClaimRewards(v, a, payee)
        PROVE  resumed \subseteq resumed'
    BY <2>3 DEF ClaimRewards
  <2>4. ASSUME NEW a \in Voter, NEW s \in Slot, NEW answer \in Answer, NEW count \in VoteCount,
               Vote(v, a, s, answer, count)
        PROVE  resumed \subseteq resumed'
    <3>1. resumed' = resumed \cup ResumedBy(v, Asked(v, a, s))
      BY <2>4, VoteUnfolds DEF VoteCounts
    <3> QED BY <3>1
  <2> QED BY <1>1, <2>1, <2>2, <2>3, <2>4 DEF VotingStep
<1> QED BY <1>1 DEF VotingNext, vars, votingVars

LEMMA FeesStep ==
    ASSUME FixedFees, SoundFees, VotingTypeOK, VotingTypeOK', BooksInv, BooksInv', SinksInv,
           FeesKept, [VotingNext]_vars
    PROVE  FeesKept'
<1> SUFFICES ASSUME resumed' = {} PROVE FeesInv'
  BY DEF FeesKept
<1> USE ResumedStay DEF FeesKept
<1>0. FeesInv /\ LedgerInv /\ VotesInv /\ RewardsBalanced' /\ RefundedLate /\ SameFees(settings)
  BY DEF BooksInv, SinksInv
<1>1. settings'.goraFee = settings.goraFee
  BY <1>0, FeesFixed DEF SameFees
<1>2. ASSUME [Next]_accountVars, UNCHANGED <<ledgerVars, votingVars>> PROVE FeesInv'
  BY <1>0, <1>1, <1>2, AccountsKeepFees
<1>3. ASSUME NEW s \in Slot, NEW r \in Account,
             MakeRequest(s[1], s[2]) \/ RefundRequest(s, r), UNCHANGED votingVars
      PROVE  FeesInv'
  BY <1>0, <1>3, RequestsCovered
<1>4. ASSUME NEW v \in VotingApp, NEW a \in Voter, NEW s \in Slot,
             NEW answer \in Answer, NEW count \in VoteCount, Vote(v, a, s, answer, count)
      PROVE  FeesInv'
  BY <1>0, <1>4, VoteKeepsFees
<1>5. ASSUME NEW v \in VotingApp, NEW a \in Voter, VoterActs(v, a) PROVE FeesInv'
  BY <1>0, <1>5, VoterKeepsFees
<1>6. ASSUME NEW v \in VotingApp, DeployVotingContract(v) \/ \E h \in VoteHash : DeleteBox(v, h)
      PROVE  FeesInv'
  <2>1. UNCHANGED <<accountVars, ledgerVars, history>>
    BY <1>6 DEF DeployVotingContract, DeleteBox
  <2>2. \A t \in Slot : TokensDue(t)' = TokensDue(t) /\ TokensDue(t) \in Nat
    BY <1>1, <2>1, DueUntouched, DueTyped DEF ledgerVars
  <2>3. SumOver(Due', Slot) <= SumOver(Due, Slot)
    BY <2>2, DueStays
  <2>4. Holding' = Holding /\ vaultToken' = vaultToken
    BY <2>1 DEF Holding, accountVars, stakeVars, balanceVars, assetVars
  <2>5. SumsType /\ SumsType'
    BY SumsTyped, SumsTypedNext
  <2> QED BY <1>0, <2>3, <2>4, <2>5 DEF FeesInv, SumsType
<1> QED BY <1>2, <1>3, <1>4, <1>5, <1>6, VotingSteps DEF VoterActs

\* What accounts opted in have is at most what all accounts have.
LEMMA FeesCover == VotingTypeOK /\ FeesKept => FeesCovered
<1> SUFFICES ASSUME VotingTypeOK, FeesInv PROVE FeesCovered
  BY DEF FeesKept, FeesCovered
<1>1. optedIn \in SUBSET Account /\ \A a \in Account : Holding[a] \in Nat
  BY HoldingsTyped DEF HoldingsType, VotingTypeOK, TypeOK
<1>2. SumOver(Holding, optedIn) <= SumOver(Holding, Account)
  BY <1>1, SumFewer, AccountAssumption
<1>3. SumOver(Holding, optedIn) \in Nat
  <2>1. IsFiniteSet(optedIn) /\ \A a \in optedIn : Holding[a] \in Nat
    BY <1>1, AccountAssumption, FS_Subset
  <2> QED BY <2>1, SumNat
<1>4. SumsType
  BY SumsTyped
<1>5. SumOver(Holding, optedIn) + SumOver(Due, Slot) <= vaultToken
  BY <1>2, <1>3, <1>4 DEF FeesInv, SumsType
<1> QED BY <1>5 DEF FeesCovered, Holding, Due

LEMMA FixedFeesLock == FixedFees => FixedTimeLock
BY DEF FixedFees, SameFees, FixedTimeLock

LEMMA AllBooksStep ==
    ASSUME FixedFees, SoundFees, VotingTypeOK, VotingTypeOK', BooksInv, SinksInv, FeesKept,
           [VotingNext]_vars
    PROVE  BooksInv' /\ SinksInv' /\ FeesKept'
<1>1. BooksInv'
  BY FixedFeesLock, BooksStep
<1>2. SinksInv'
  BY SinksStep DEF BooksInv
<1> QED BY <1>1, <1>2, FeesStep

\* A fee is refunded or shared out, never both and never twice: for any number of
\* accounts, requests, contracts and answers, the tokens in the vault cover all
\* stakes and balances together with every fee that may still be refunded and
\* every reward that may still be claimed, as long as no vote is taken up again
\* after its contract turned to another request.  It rests on the books of
\* rewards: the winners' shares of a fee, each rounded down twice, stay within it
\* because the winners' votes stay within the count the box was completed with.
THEOREM FeesAreCovered ==
    ASSUME FixedFees, SoundFees
    PROVE  VotingSpec => []FeesCovered
<1>1. VotingInit => BooksInv /\ SinksInv /\ FeesKept
  BY BooksInit, SinksInit, FeesInit
<1>2. VotingTypeOK /\ VotingTypeOK' /\ BooksInv /\ SinksInv /\ FeesKept /\ [VotingNext]_vars
         => BooksInv' /\ SinksInv' /\ FeesKept'
  BY AllBooksStep
<1>3. VotingTypeOK /\ FeesKept => FeesCovered
  BY FeesCover
<1>4. VotingSpec => []VotingTypeOK
  BY VotingTypeCorrect
<1> QED BY <1>1, <1>2, <1>3, <1>4, PTL DEF VotingSpec

-----------------------------------------------------------------------------
(* The request lifecycle *)

\* What a box says of the request it stands for
StagesShown ==
    \A t \in Slot :
       /\ IsRequest(box[t]) =>
             /\ ~IsHistory(box[t]) /\ StageOf(t) = box[t].status
             /\ box[t].status \in {"request_made", "processing", "refunded"}
             /\ TokensDue(t) = IF box[t].status = "refunded" THEN 0 ELSE settings.goraFee
             /\ box[t].votes \in Nat
       /\ IsHistory(box[t]) => ~IsRequest(box[t]) /\ StageOf(t) = "completed"
       /\ ~IsRequest(box[t]) /\ ~IsHistory(box[t]) => StageOf(t) = "none" /\ TokensDue(t) = 0
       /\ TokensDue(t) \in Nat

LEMMA StagesAreShown == VotingTypeOK => StagesShown
<1> SUFFICES ASSUME VotingTypeOK, NEW t \in Slot
             PROVE  /\ IsRequest(box[t]) =>
                          /\ ~IsHistory(box[t]) /\ StageOf(t) = box[t].status
                          /\ box[t].status \in {"request_made", "processing", "refunded"}
                          /\ TokensDue(t) = IF box[t].status = "refunded" THEN 0 ELSE settings.goraFee
                          /\ box[t].votes \in Nat
                    /\ IsHistory(box[t]) => ~IsRequest(box[t]) /\ StageOf(t) = "completed"
                    /\ ~IsRequest(box[t]) /\ ~IsHistory(box[t])
                          => StageOf(t) = "none" /\ TokensDue(t) = 0
                    /\ TokensDue(t) \in Nat
  BY DEF StagesShown
<1>1. TokensDue(t) \in Nat
  BY DueTyped
<1>2. IsRequest(box[t]) => box[t] \in RequestInfo /\ ~IsHistory(box[t])
  BY BoxKinds DEF VotingTypeOK, Boxes, IsRequest, IsHistory
<1>3. CASE IsRequest(box[t])
  BY <1>1, <1>2, <1>3 DEF RequestInfo, StageOf, TokensDue, RewardsDue
<1>4. CASE ~IsRequest(box[t])
  BY <1>1, <1>4 DEF StageOf, TokensDue, RewardsDue
<1> QED BY <1>3, <1>4

LEMMA StagesAreShownNext == VotingTypeOK' => StagesShown'
BY StagesAreShown, PTL

\* A box that gains nothing by a group: b is before it, c after it
LifeKept(b, c) ==
    \/ ~IsRequest(b) /\ ~IsHistory(b) /\ ~IsRequest(c) /\ ~IsHistory(c)
    \/ IsHistory(b) /\ ~IsRequest(c)
    \/ IsRequest(b) /\ IsRequest(c) /\ c.status = b.status /\ c.votes = b.votes
    \/ IsRequest(b) /\ b.status = "refunded" /\ ~IsRequest(c) /\ ~IsHistory(c)

\* Each step of a kept box is a payment, the end of a refunded request, or none
LEMMA KeptFollows ==
    ASSUME VotingTypeOK, VotingTypeOK', settings'.goraFee = settings.goraFee, NEW t \in Slot,
           LifeKept(box[t], box'[t]), TokensDue(t)' <= TokensDue(t)
    PROVE  Life(t)!LifeStep
<1>0. StagesShown /\ StagesShown' /\ settings.goraFee \in Nat
  BY StagesAreShown, StagesAreShownNext, FeesTyped
<1> DEFINE b == box[t]
           c == box'[t]
<1>1. CASE ~IsRequest(b) /\ ~IsHistory(b) /\ ~IsRequest(c) /\ ~IsHistory(c)
  <2>1. StageOf(t)' = StageOf(t) /\ TokensDue(t)' = TokensDue(t)
    BY <1>0, <1>1 DEF StagesShown, Slot
  <2> QED BY <1>1, <2>1 DEF Life!LifeStep, Life!LifeVars
<1>2. CASE IsHistory(b) /\ ~IsRequest(c)
  <2>1. /\ StageOf(t) = "completed" /\ StageOf(t)' \in {"completed", "none"} /\ ~IsRequest(b)
        /\ StageOf(t)' = "none" => TokensDue(t)' = 0
    BY <1>0, <1>2 DEF StagesShown, Slot
  <2> QED BY <1>2, <2>1 DEF Life!LifeStep, Life!LifeNext, Life!Pay
<1>3. CASE IsRequest(b) /\ IsRequest(c) /\ c.status = b.status /\ c.votes = b.votes
  <2>1. StageOf(t)' = StageOf(t) /\ TokensDue(t)' = TokensDue(t)
    BY <1>0, <1>3 DEF StagesShown, Slot
  <2> QED BY <1>3, <2>1 DEF Life!LifeStep, Life!LifeVars
<1>4. CASE IsRequest(b) /\ b.status = "refunded" /\ ~IsRequest(c) /\ ~IsHistory(c)
  <2>1. StageOf(t) = "refunded" /\ StageOf(t)' = "none" /\ TokensDue(t)' = 0
    BY <1>0, <1>4 DEF StagesShown, Slot
  <2> QED BY <1>4, <2>1 DEF Life!LifeStep, Life!LifeNext, Life!Close
<1> QED BY <1>1, <1>2, <1>3, <1>4 DEF LifeKept

\* A settlement pays a winner, refunds a voter, or closes the box
LEMMA SettledLife ==
    ASSUME VotingTypeOK, NEW vote \in Votes, NEW t \in Slot
    PROVE  LifeKept(box[t], SettledBoxes(vote)[t])
<1>0. /\ box \in [Slot -> Boxes] /\ ~IsRequest(NoBox) /\ ~IsHistory(NoBox)
      /\ \A b \in Boxes : IsRequest(b) => ~IsHistory(b)
  BY DEF VotingTypeOK, Boxes, IsRequest, IsHistory, NoBox, None
<1>1. LifeKept(box[t], box[t])
  BY DEF LifeKept, IsRequest, IsHistory
<1>2. CASE ClosesBox(vote)
  <2>1. SettledBoxes(vote) = [box EXCEPT ![vote.slot] = NoBox]
    BY <1>2 DEF SettledBoxes
  <2>2. \/ IsHistory(BoxOf(vote))
        \/ IsRequest(BoxOf(vote)) /\ BoxOf(vote).status = "refunded"
    BY <1>2 DEF ClosesBox, Won, Lapsed, LastRefund, ReadAsRequest
  <2>3. vote.slot \in Slot /\ BoxOf(vote) = box[vote.slot]
    BY <2>2, VoteKinds
  <2>4. CASE t = vote.slot
    BY <1>0, <2>1, <2>2, <2>3, <2>4 DEF LifeKept
  <2>5. CASE t # vote.slot
    <3>1. SettledBoxes(vote)[t] = box[t]
      BY <1>0, <2>1, <2>5
    <3> QED BY <1>1, <3>1
  <2> QED BY <2>4, <2>5
<1>3. CASE ~ClosesBox(vote) /\ Won(vote)
  <2>1. /\ SettledBoxes(vote) = [box EXCEPT ![vote.slot].payed = @ + vote.stake]
        /\ BoxOf(vote) = box[vote.slot] /\ BoxOf(vote) \in CompletedInfo
    BY <1>3, VoteKinds, BoxKinds DEF SettledBoxes, Won
  <2>2. CASE t = vote.slot
    <3>1. SettledBoxes(vote)[t] = [box[t] EXCEPT !.payed = @ + vote.stake]
      BY <1>0, <2>1, <2>2
    <3>2. SettledBoxes(vote)[t].kind = "history" /\ box[t].kind = "history"
      BY <2>1, <2>2, <3>1 DEF CompletedInfo
    <3> QED BY <3>2 DEF LifeKept, IsRequest, IsHistory
  <2>3. CASE t # vote.slot
    <3>1. SettledBoxes(vote)[t] = box[t]
      BY <1>0, <2>1, <2>3
    <3> QED BY <1>1, <3>1
  <2> QED BY <2>2, <2>3
<1>4. CASE ~ClosesBox(vote) /\ ~Won(vote) /\ Lapsed(vote)
  <2>1. /\ SettledBoxes(vote) = [box EXCEPT
             ![vote.slot].fee = @ - VoteRefund(vote),
             ![vote.slot].refunded = @ + vote.count]
        /\ BoxOf(vote) = box[vote.slot] /\ BoxOf(vote) \in RequestInfo
    BY <1>4, VoteKinds, BoxKinds DEF SettledBoxes, Lapsed, ReadAsRequest
  <2>2. CASE t = vote.slot
    <3>1. SettledBoxes(vote)[t] =
             [box[t] EXCEPT !.fee = @ - VoteRefund(vote), !.refunded = @ + vote.count]
      BY <1>0, <2>1, <2>2
    <3>2. box[t] \in RequestInfo
      BY <2>1, <2>2
    <3>3. /\ box[t].kind = "request" /\ SettledBoxes(vote)[t].kind = "request"
          /\ SettledBoxes(vote)[t].status = box[t].status
          /\ SettledBoxes(vote)[t].votes = box[t].votes
      BY <3>1, <3>2 DEF RequestInfo
    <3> QED BY <3>3 DEF LifeKept, IsRequest
  <2>3. CASE t # vote.slot
    <3>1. SettledBoxes(vote)[t] = box[t]
      BY <1>0, <2>1, <2>3
    <3> QED BY <1>1, <3>1
  <2> QED BY <2>2, <2>3
<1>5. CASE ~ClosesBox(vote) /\ ~Won(vote) /\ ~Lapsed(vote)
  BY <1>1, <1>5 DEF SettledBoxes
<1> QED BY <1>2, <1>3, <1>4, <1>5

\* A contract is in a round of a request only when that was proposed
Proposed ==
    \A s \in Slot, v \in VotingApp :
       IsRequest(box[s]) /\ current[v].id = box[s].id => box[s].status # "request_made"

\* What becomes of the box that is voted on
LEMMA VotedLife ==
    ASSUME VotingTypeOK, VotingTypeOK', LedgerInv, RefundedLate, Proposed,
           NEW v \in VotingApp, NEW a \in Voter, NEW s \in Slot,
           NEW answer \in Answer, NEW count \in VoteCount, Vote(v, a, s, answer, count)
    PROVE  /\ IsRequest(box[s]) /\ box[s].status \in Open
           /\ \/ IsHistory(box'[s]) /\ current'[v] = NoRequest
              \/ /\ IsRequest(box'[s]) /\ box'[s].status = "processing"
                 /\ box'[s].votes >= box[s].votes
                 /\ current'[v].id = box[s].id
           /\ \A w \in VotingApp \ {v} : current'[w] = current[w]
           /\ \A t \in Slot \ {s} : LifeKept(box[t], box'[t])
<1> DEFINE req == Asked(v, a, s)
           nb == NewBox(v, a, s, answer, count)
           old == SettledBoxes(Before(v, a))
<1>0. VoteAllowed(v, a, s, answer, count) /\ VoteCounts(v, a, s, answer, count)
  BY VoteUnfolds
<1>1. /\ Before(v, a) \in Votes /\ req \in RequestInfo /\ IsRequest(req) /\ req = old[s]
      /\ old \in [Slot -> Boxes] /\ box' = [old EXCEPT ![s] = nb] /\ count \in Nat
      /\ About(v, a, s).id = req.id
      /\ current' = [current EXCEPT ![v] =
            IF Decides(v, a, s, answer, count) THEN NoRequest ELSE About(v, a, s)]
  BY <1>0, VoteTyped, SettledBoxesTyped
     DEF VoteAllowed, VoteCounts, ReadAsRequest, Asked, RequestAt
<1>2. /\ IsRequest(box[s]) /\ About(v, a, s).round = box[s].round /\ box[s].round \in Nat
      /\ req.id = box[s].id
  BY VoteOnRequest
<1>3. req.status = box[s].status /\ req.votes = box[s].votes /\ box[s].votes \in Nat
  <2>1. LifeKept(box[s], req)
    BY <1>1, SettledLife
  <2>2. ~IsHistory(box[s]) /\ ~IsHistory(req) /\ box[s].votes \in Nat
    BY <1>1, <1>2, StagesAreShown DEF StagesShown, IsRequest, IsHistory
  <2> QED BY <1>1, <1>2, <2>1, <2>2 DEF LifeKept
<1>4. box[s].status \in Open
  <2>1. now <= box[s].round + settings.timeLock /\ now \in Nat /\ settings.timeLock \in Nat
    BY <1>0, <1>2, FeesTyped, IdsTyped DEF VoteAllowed, LeaseGranted
  <2>2. ~Expired(box[s])
    BY <1>2, <2>1 DEF Expired
  <2>3. box[s].status \in {"request_made", "processing", "refunded"}
    BY <1>2, StagesAreShown DEF StagesShown
  <2> QED BY <1>2, <2>2, <2>3 DEF RefundedLate, Open
<1>5. /\ current'[v] = IF Decides(v, a, s, answer, count) THEN NoRequest ELSE About(v, a, s)
      /\ \A w \in VotingApp \ {v} : current'[w] = current[w]
  BY <1>1 DEF VotingTypeOK
<1>6. CASE Decides(v, a, s, answer, count)
  <2>1. nb.kind = "history"
    BY <1>6 DEF NewBox, VotedBox, Decides
  <2>2. IsHistory(box'[s]) /\ current'[v] = NoRequest
    BY <1>1, <1>5, <1>6, <2>1 DEF IsHistory
  <2>3. \A t \in Slot \ {s} : LifeKept(box[t], box'[t])
    BY <1>1, SettledLife
  <2> QED BY <1>2, <1>4, <1>5, <2>2, <2>3
<1>7. CASE ~Decides(v, a, s, answer, count)
  <2>1. nb = IF StartsRound(v, req)
             THEN [req EXCEPT !.votes = @ + count, !.status = "processing", !.app = v]
             ELSE [req EXCEPT !.votes = @ + count]
    BY <1>7 DEF NewBox, VotedBox, Decides
  <2>2. ~StartsRound(v, req) => req.status = "processing"
    BY <1>2, <1>3, <1>4 DEF StartsRound, Proposed, Open
  <2>3. nb.kind = "request" /\ nb.status = "processing" /\ nb.votes = req.votes + count
    <3> HIDE DEF req, nb
    <3>1. CASE StartsRound(v, req)
      BY <1>1, <2>1, <3>1 DEF RequestInfo
    <3>2. CASE ~StartsRound(v, req)
      BY <1>1, <2>1, <2>2, <3>2 DEF RequestInfo
    <3> QED BY <3>1, <3>2
  <2> HIDE DEF nb, req, old
  <2>4. box'[s] = nb
    BY <1>1
  <2>5. /\ IsRequest(box'[s]) /\ box'[s].status = "processing"
        /\ box'[s].votes >= box[s].votes /\ current'[v].id = box[s].id
    BY <1>1, <1>2, <1>3, <1>5, <1>7, <2>3, <2>4 DEF IsRequest
  <2>6. \A t \in Slot \ {s} : LifeKept(box[t], box'[t])
    BY <1>1, SettledLife DEF old
  <2> QED BY <1>2, <1>4, <1>5, <2>5, <2>6
<1> QED BY <1>6, <1>7

LEMMA VoteFollows ==
    ASSUME VotingTypeOK, VotingTypeOK', LedgerInv, VotesInv, RewardsBalanced', RefundedLate,
           Proposed, NEW v \in VotingApp, NEW a \in Voter, NEW s \in Slot,
           NEW answer \in Answer, NEW count \in VoteCount, Vote(v, a, s, answer, count),
           NEW t \in Slot, NotResumed(t)
    PROVE  Life(t)!LifeStep
<1>0. settings' = settings
  BY VoteUnfolds DEF VoteCounts
<1>1. TokensDue(t)' <= TokensDue(t)
  <2>0. t = s => box[s].id \notin resumed'
    BY VotedLife DEF NotResumed, RequestOf
  <2>1. TokensDue(t)' <= TokensDue(t) - Paid(t, <<v, a>>)
    BY <2>0, VoteOwes
  <2>2. TokensDue(t) \in Nat /\ TokensDue(t)' \in Nat /\ Paid(t, <<v, a>>) \in Nat
    BY PaidIsDue, SumsTyped, SumsTypedNext DEF Voters, SumsType, Slot
  <2> QED BY <2>1, <2>2
<1>2. StagesShown /\ StagesShown'
  BY StagesAreShown, StagesAreShownNext
<1>3. CASE t # s
  BY <1>0, <1>1, <1>3, VotedLife, KeptFollows
<1>4. CASE t = s
  <2>0. /\ IsRequest(box[s]) /\ box[s].status \in Open
        /\ \/ IsHistory(box'[s])
           \/ /\ IsRequest(box'[s]) /\ box'[s].status = "processing"
              /\ box'[s].votes >= box[s].votes
    BY VotedLife
  <2>1. StageOf(s) \in {"request_made", "processing"} /\ TokensDue(s) = settings.goraFee
    BY <1>2, <2>0 DEF StagesShown, Open
  <2>2. CASE IsHistory(box'[s])
    <3>1. StageOf(s)' = "completed" /\ ~IsRequest(box'[s])
      BY <1>2, <2>2 DEF StagesShown, Slot
    <3> QED BY <1>1, <1>4, <2>1, <3>1
       DEF Life!LifeStep, Life!LifeNext, Life!Complete, Life!Open
  <2>3. CASE /\ IsRequest(box'[s]) /\ box'[s].status = "processing"
             /\ box'[s].votes >= box[s].votes
    <3>1. StageOf(s)' = "processing" /\ TokensDue(s)' = TokensDue(s)
      BY <1>0, <1>2, <2>1, <2>3 DEF StagesShown, Slot
    <3> QED BY <1>4, <2>0, <2>1, <2>3, <3>1
       DEF Life!LifeStep, Life!LifeNext, Life!Propose, Life!Open
  <2> QED BY <2>0, <2>2, <2>3
<1> QED BY <1>3, <1>4

\* A contract that is in no round of a request made knows of none to be made
LEMMA ProposedStep ==
    ASSUME VotingTypeOK, VotingTypeOK', LedgerInv, RefundedLate, Proposed, [VotingNext]_vars
    PROVE  Proposed'
<1>0. /\ lastId \in Nat
      /\ \A s \in Slot : IsRequest(box[s]) => box[s].id \in Nat /\ box[s].id > 0
      /\ \A v \in VotingApp : current[v].id \in Nat /\ current[v].id <= lastId
  BY IdsTyped DEF LedgerInv, KnownRequests
<1>1. CASE NothingReopens /\ current' = current
           /\ \A t \in Slot : IsRequest(box'[t]) => box'[t].id = box[t].id
  BY <1>1 DEF Proposed, NothingReopens
<1>2. CASE [Next]_accountVars /\ UNCHANGED <<ledgerVars, votingVars>>
  BY <1>2 DEF Proposed, ledgerVars, votingVars
<1>3. ASSUME NEW s \in Slot, MakeRequest(s[1], s[2]), UNCHANGED votingVars PROVE Proposed'
  <2>1. current' = current /\ box'[s].id = lastId + 1 /\ \A t \in Slot \ {s} : box'[t] = box[t]
    BY <1>3, MadeBox DEF votingVars
  <2> QED BY <1>0, <2>1 DEF Proposed
<1>4. ASSUME NEW s \in Slot, NEW r \in Account, RefundRequest(s, r), UNCHANGED votingVars PROVE Proposed'
  <2>1. \A t \in Slot : IsRequest(box'[t]) => KeptFor(box[t], box'[t])
    BY <1>4, RefundShrinks DEF Shrinks
  <2>2. box \in [Slot -> Boxes] /\ current' = current /\ box[s] \in RequestInfo
    BY <1>4, BoxKinds DEF RefundRequest, ReadAsRequest, VotingTypeOK, Boxes, votingVars
  <2>3. \A t \in Slot \ {s} : box'[t] = box[t]
    BY <1>4, <2>2 DEF RefundRequest, RefundUnproposed, RefundProposed, MarkedRefunded
  <2>4. IsRequest(box'[s]) => box'[s].status = "refunded"
    <3>1. CASE RefundUnproposed(s, r)
      BY <2>2, <3>1 DEF RefundUnproposed, IsRequest, NoBox, None
    <3>2. CASE RefundProposed(s, r)
      <4>1. box'[s] = [box[s] EXCEPT !.status = "refunded"]
        BY <2>2, <3>2 DEF RefundProposed, MarkedRefunded
      <4> QED BY <2>2, <4>1 DEF RequestInfo
    <3> QED BY <1>4, <3>1, <3>2 DEF RefundRequest
  <2> QED BY <2>2, <2>3, <2>4 DEF Proposed
<1>5. ASSUME NEW v \in VotingApp, NEW a \in Voter, NEW s \in Slot,
             NEW answer \in Answer, NEW count \in VoteCount, Vote(v, a, s, answer, count)
      PROVE  Proposed'
  <2> SUFFICES ASSUME NEW t \in Slot, NEW w \in VotingApp, IsRequest(box'[t]),
                      current'[w].id = box'[t].id
               PROVE  box'[t].status # "request_made"
    BY DEF Proposed
  <2>0. /\ IsRequest(box[s]) /\ NoRequest.id = 0
        /\ \/ IsHistory(box'[s]) /\ current'[v] = NoRequest
           \/ IsRequest(box'[s]) /\ box'[s].status = "processing" /\ current'[v].id = box[s].id
        /\ \A u \in VotingApp \ {v} : current'[u] = current[u]
    BY <1>5, VotedLife DEF NoRequest
  <2>1. /\ IsRequest(box[t]) /\ box'[t].id = box[t].id
        /\ box'[t].status \in {box[t].status, "processing"}
    BY <1>5, VoteOnRequest, VoteReopensNothing DEF NothingReopens, SameRequest
  <2>2. CASE t = s
    <3>1. ~IsHistory(box'[s])
      BY <2>2 DEF IsRequest, IsHistory
    <3> QED BY <2>0, <2>2, <3>1
  <2>3. CASE t # s
    <3>1. box[t].id # box[s].id /\ box[t].id # 0
      BY <1>0, <2>0, <2>1, <2>3 DEF LedgerInv, DistinctIds
    <3>2. w # v
      BY <2>0, <2>1, <3>1
    <3> QED BY <2>0, <2>1, <3>2 DEF Proposed
  <2> QED BY <2>2, <2>3
<1>6. ASSUME NEW v \in VotingApp,
             \/ DeployVotingContract(v)
             \/ \E h \in VoteHash : DeleteBox(v, h)
             \/ \E a \in Voter : RegisterVoter(v, a)
             \/ \E a \in Voter : DeregisterVoter(v, a)
             \/ \E a \in Voter, payee \in Account : ClaimRewards(v, a, payee)
      PROVE  Proposed'
  <2>1. NothingReopens /\ Shrinks
    BY <1>6, SettlingReopensNothing, SettlingShrinks
  <2> QED BY <1>1, <2>1 DEF Shrinks, KeptFor, SameRequest
<1> QED BY <1>2, <1>3, <1>4, <1>5, <1>6, VotingSteps

LEMMA RequestsFollow ==
    ASSUME VotingTypeOK, VotingTypeOK', SameFees(settings), NEW s \in Slot,
           NEW r \in Account, MakeRequest(s[1], s[2]) \/ RefundRequest(s, r),
           UNCHANGED votingVars, NEW t \in Slot
    PROVE  Life(t)!LifeStep
<1>0. /\ StagesShown /\ StagesShown' /\ settings.goraFee \in Nat
      /\ settings.goraFee = InitialSettings.goraFee
      /\ box \in [Slot -> Boxes] /\ history' = history
  BY StagesAreShown, StagesAreShownNext, FeesTyped DEF SameFees, VotingTypeOK, Boxes, votingVars
<1>1. settings' = settings /\ \A u \in Slot \ {s} : box'[u] = box[u]
  <2>1. CASE MakeRequest(s[1], s[2])
    BY <2>1, MadeBox DEF MakeRequest
  <2>2. CASE RefundRequest(s, r)
    BY <1>0, <2>2 DEF RefundRequest, RefundUnproposed, RefundProposed, MarkedRefunded
  <2> QED BY <2>1, <2>2
<1>2. CASE t # s
  <2>1. box'[t] = box[t] /\ TokensDue(t)' = TokensDue(t)
    BY <1>0, <1>1, <1>2, DueUntouched
  <2>2. StageOf(t)' = StageOf(t)
    BY <2>1 DEF StageOf
  <2> QED BY <2>1, <2>2 DEF Life!LifeStep, Life!LifeVars
<1>3. CASE t = s /\ MakeRequest(s[1], s[2])
  <2>1. /\ ~IsRequest(box[s]) /\ ~IsHistory(box[s]) /\ IsRequest(box'[s])
        /\ box'[s].status = "request_made"
    BY <1>3, MadeBox DEF NoBox, None, IsRequest, IsHistory
  <2>2. box'[s].votes = 0
    BY <1>0, <1>3 DEF MakeRequest, Slot
  <2>3. /\ StageOf(s) = "none" /\ StageOf(s)' = "request_made"
        /\ TokensDue(s)' = InitialSettings.goraFee
    BY <1>0, <1>1, <2>1 DEF StagesShown, Slot
  <2> QED BY <1>3, <2>1, <2>2, <2>3 DEF Life!LifeStep, Life!LifeNext, Life!Make
<1>4. CASE t = s /\ RefundRequest(s, r)
  <2>1. IsRequest(box[s]) /\ box[s] \in RequestInfo
    BY <1>0, <1>4, BoxKinds DEF RefundRequest, ReadAsRequest
  <2>2. CASE RefundUnproposed(s, r)
    <3>1. box[s].status = "request_made" /\ ~IsRequest(box'[s]) /\ ~IsHistory(box'[s])
      BY <1>0, <2>2 DEF RefundUnproposed, IsRequest, IsHistory, NoBox, None
    <3>2. StageOf(s) = "request_made" /\ StageOf(s)' = "none" /\ TokensDue(s)' = 0
      BY <1>0, <2>1, <3>1 DEF StagesShown, Slot
    <3> QED BY <1>4, <3>1, <3>2 DEF Life!LifeStep, Life!LifeNext, Life!RefundUnproposed
  <2>3. CASE RefundProposed(s, r)
    <3>1. box[s].status = "processing" /\ box'[s] = [box[s] EXCEPT !.status = "refunded"]
      BY <1>0, <2>3 DEF RefundProposed, MarkedRefunded
    <3>2. IsRequest(box'[s]) /\ box'[s].status = "refunded" /\ box'[s].votes = box[s].votes
      BY <2>1, <3>1 DEF RequestInfo, IsRequest
    <3>3. StageOf(s) = "processing" /\ StageOf(s)' = "refunded" /\ TokensDue(s)' = 0
      BY <1>0, <2>1, <3>1, <3>2 DEF StagesShown, Slot
    <3> QED BY <1>4, <2>1, <3>2, <3>3 DEF Life!LifeStep, Life!LifeNext, Life!RefundProposed
  <2> QED BY <1>4, <2>2, <2>3 DEF RefundRequest
<1> QED BY <1>2, <1>3, <1>4

LEMMA VoterFollows ==
    ASSUME VotingTypeOK, VotingTypeOK', NEW v \in VotingApp, NEW a \in Voter, VoterActs(v, a),
           NEW t \in Slot
    PROVE  Life(t)!LifeStep
<1>1. TokensDue(t)' <= TokensDue(t)
  <2>1. TokensDue(t)' <= TokensDue(t) - Paid(t, <<v, a>>)
    BY VoterOwes
  <2>2. TokensDue(t) \in Nat /\ TokensDue(t)' \in Nat /\ Paid(t, <<v, a>>) \in Nat
    BY PaidIsDue, SumsTyped, SumsTypedNext DEF Voters, SumsType, Slot
  <2> QED BY <2>1, <2>2
<1>2. settings' = settings
  BY SettlingReopensNothing DEF VoterActs
<1>3. LifeKept(box[t], box'[t])
  <2>1. CASE box' = box
    BY <2>1 DEF LifeKept, IsRequest, IsHistory
  <2>2. ASSUME NEW payee \in Account, ClaimRewards(v, a, payee)
        PROVE  LifeKept(box[t], box'[t])
    <3>1. history[v][a] \in Votes /\ box' = SettledBoxes(history[v][a])
      BY <2>2 DEF ClaimRewards, Registered, VotingTypeOK
    <3> QED BY <3>1, SettledLife
  <2> QED BY <2>1, <2>2 DEF VoterActs, RegisterVoter, DeregisterVoter, ledgerVars
<1> QED BY <1>1, <1>2, <1>3, KeptFollows

\* Where neither boxes nor votes change, lives stand still
LEMMA OthersFollow ==
    ASSUME VotingTypeOK, VotingTypeOK', settings'.goraFee = settings.goraFee,
           UNCHANGED <<box, history>>, NEW t \in Slot
    PROVE  Life(t)!LifeStep
<1>1. TokensDue(t)' = TokensDue(t) /\ StageOf(t)' = StageOf(t)
  BY DueUntouched DEF StageOf
<1> QED BY <1>1 DEF Life!LifeStep, Life!LifeVars

\* The strengthening under which each group is a step of the lifecycle
LifeInv == BooksInv /\ SinksInv /\ Proposed

LEMMA LivesFollow ==
    ASSUME FixedFees, SoundFees, VotingTypeOK, VotingTypeOK', LifeInv,
           [VotingNext]_vars
    PROVE  LifeInv' /\ \A t \in Slot : NotResumed(t) => Life(t)!LifeStep
<1>0. LedgerInv /\ VotesInv /\ RefundedLate /\ SameFees(settings) /\ Proposed
  BY DEF LifeInv, BooksInv, SinksInv
<1>1. BooksInv'
  BY FixedFeesLock, BooksStep DEF LifeInv
<1>2. SinksInv'
  BY SinksStep DEF LifeInv, BooksInv
<1>3. Proposed'
  BY <1>0, ProposedStep
<1>4. settings'.goraFee = settings.goraFee
  BY <1>0, FeesFixed DEF SameFees
<1> SUFFICES ASSUME NEW t \in Slot, NotResumed(t) PROVE Life(t)!LifeStep
  BY <1>1, <1>2, <1>3 DEF LifeInv
<1>5. CASE UNCHANGED <<box, history>>
  BY <1>4, <1>5, OthersFollow
<1>6. ASSUME NEW s \in Slot, NEW r \in Account,
             MakeRequest(s[1], s[2]) \/ RefundRequest(s, r), UNCHANGED votingVars
      PROVE  Life(t)!LifeStep
  BY <1>0, <1>6, RequestsFollow
<1>7. ASSUME NEW v \in VotingApp, NEW a \in Voter, NEW s \in Slot,
             NEW answer \in Answer, NEW count \in VoteCount, Vote(v, a, s, answer, count)
      PROVE  Life(t)!LifeStep
  <2>1. RewardsBalanced'
    BY <1>1 DEF BooksInv
  <2> QED BY <1>0, <1>7, <2>1, VoteFollows
<1>8. ASSUME NEW v \in VotingApp, NEW a \in Voter, VoterActs(v, a) PROVE Life(t)!LifeStep
  BY <1>8, VoterFollows
<1>9. ASSUME NEW v \in VotingApp, DeployVotingContract(v) \/ \E h \in VoteHash : DeleteBox(v, h)
      PROVE  UNCHANGED <<box, history>>
  BY <1>9 DEF DeployVotingContract, DeleteBox, ledgerVars
<1> QED BY <1>5, <1>6, <1>7, <1>8, <1>9, VotingSteps DEF VoterActs, ledgerVars, votingVars

LEMMA LivesBegin ==
    ASSUME SoundFees, VotingInit
    PROVE  LifeInv /\ \A t \in Slot : Life(t)!LifeInit
<1>1. \A t \in Slot : ~IsRequest(box[t]) /\ ~IsHistory(box[t])
  BY DEF VotingInit, RequestsInit, NoBox, None, IsRequest, IsHistory
<1>2. BooksInv /\ SinksInv
  BY BooksInit, SinksInit
<1>3. \A t \in Slot : Life(t)!LifeInit
  BY <1>1 DEF Life!LifeInit, StageOf, TokensDue, RewardsDue
<1> QED BY <1>1, <1>2, <1>3 DEF LifeInv, Proposed

\* Every request box implements the request lifecycle, for any number of boxes,
\* contracts, voters and answers and in any order of groups: initial states map
\* to initial states, and each group is for each box a step of the lifecycle or
\* none.  A request is decided or refunded but not both, no vote counts on it
\* once it is refunded, its fee is owed until then, and a box is free again only
\* when nothing is owed.  A request that is displaced keeps to it as well, unless
\* its vote is taken up again.
THEOREM LifecycleImplemented ==
    ASSUME FixedFees, SoundFees
    PROVE  VotingSpec => RequestsFollowLifecycle
<1> DEFINE LivesInit == \A s \in Slot : Life(s)!LifeInit
           LivesStep == \A s \in Slot : NotResumed(s) => Life(s)!LifeStep
<1>1. VotingInit => LifeInv /\ LivesInit
  BY LivesBegin
<1>2. VotingTypeOK /\ VotingTypeOK' /\ LifeInv /\ [VotingNext]_vars
         => LifeInv' /\ LivesStep
  BY LivesFollow
<1>3. VotingSpec => []VotingTypeOK
  BY VotingTypeCorrect
<1>4. RequestsFollowLifecycle <=> LivesInit /\ [][LivesStep]_vars
  BY DEF RequestsFollowLifecycle
<1> HIDE DEF LivesInit, LivesStep
<1> QED BY <1>1, <1>2, <1>3, <1>4, PTL DEF VotingSpec

=============================================================================
