-------------------------- MODULE RequestLifecycle --------------------------
(***************************************************************************)
(* What the protocol promises the owner of one request box: a request is   *)
(* made, voted on, and then either completed or refunded but not both; its *)
(* fee is owed until it is refunded or shared out among the winners; once  *)
(* refunded it gathers no more votes; and a name can be used again only    *)
(* when the request it stood for is settled.                               *)
(***************************************************************************)
EXTENDS Integers

CONSTANT Fee      \* the token fee of a request

VARIABLES
    stage,        \* what became of the request
    votes,        \* the votes counted on it while it is open
    owed          \* what is still to be refunded or shared out of its fee

Stage == {"none", "request_made", "processing", "refunded", "completed"}

Open == {"request_made", "processing"}

LifeInit == stage = "none" /\ votes = 0 /\ owed = 0

Make ==
    /\ stage = "none" /\ stage' = "request_made"
    /\ votes' = 0 /\ owed' = Fee

\* A vote that does not decide the request
Propose ==
    /\ stage \in Open /\ stage' = "processing"
    /\ votes' >= votes /\ owed' = owed

\* A vote that does: the winners share at most the fee
Complete ==
    /\ stage \in Open /\ stage' = "completed"
    /\ votes' = 0 /\ owed' <= owed

\* A winner is paid, or gives its claim up
Pay ==
    /\ stage = "completed" /\ stage' \in {"completed", "none"}
    /\ votes' = 0 /\ owed' <= owed
    /\ stage' = "none" => owed' = 0

\* A request that nobody proposed is refunded at once; one that was proposed
\* stays until its voters have their transaction fees back
RefundUnproposed == stage = "request_made" /\ stage' = "none" /\ votes' = 0 /\ owed' = 0
RefundProposed == stage = "processing" /\ stage' = "refunded" /\ votes' = votes /\ owed' = 0
Close == stage = "refunded" /\ stage' = "none" /\ votes' = 0 /\ owed' = 0

LifeNext ==
    \/ Make \/ Propose \/ Complete \/ Pay
    \/ RefundUnproposed \/ RefundProposed \/ Close

LifeVars == <<stage, votes, owed>>
LifeStep == [LifeNext]_LifeVars

LifeSpec == LifeInit /\ [][LifeNext]_LifeVars

=============================================================================
