---------------------------- MODULE BidLifecycle ----------------------------
(***************************************************************************)
(* What the execution engine promises, whatever the chain, the nodes and   *)
(* the clock do: opportunities are executed one at a time; each is bid for *)
(* under one nonce, with a first price and then at most MaxRaises          *)
(* strictly higher ones; and its outcome, once there, is final.            *)
(***************************************************************************)
EXTENDS Integers

CONSTANTS Opps, NoOpp, MaxRaises, Outcomes

VARIABLES
    active,   \* the opportunity being executed
    raises,   \* how often its bid has been raised
    bids,     \* every bid made so far
    status    \* what became of each opportunity

vars == <<active, raises, bids, status>>

BidsFor(o) == {b \in bids : b.opp = o}

Init ==
    /\ active = NoOpp /\ raises = 0 /\ bids = {}
    /\ status = [o \in Opps |-> "new"]

\* The first bid for an opportunity nobody has bid for.
Open(o) ==
    /\ active = NoOpp /\ status[o] = "new"
    /\ \E b \in bids' : b.opp = o /\ bids' = bids \cup {b}
    /\ active' = o /\ raises' = 0
    /\ status' = [status EXCEPT ![o] = "running"]

\* A higher bid for the active opportunity, under the nonce of the others.
Raise ==
    /\ active # NoOpp /\ raises < MaxRaises
    /\ \E b \in bids' :
         /\ b.opp = active
         /\ \A c \in BidsFor(active) : c.nonce = b.nonce /\ c.price < b.price
         /\ bids' = bids \cup {b}
    /\ raises' = raises + 1
    /\ UNCHANGED <<active, status>>

\* The active opportunity gets its outcome.
Close ==
    /\ active # NoOpp
    /\ \E outcome \in Outcomes : status' = [status EXCEPT ![active] = outcome]
    /\ active' = NoOpp /\ raises' = 0
    /\ UNCHANGED bids

\* An opportunity is turned away before any bid.
Decline(o) ==
    /\ active = NoOpp /\ status[o] = "new"
    /\ \E outcome \in Outcomes : status' = [status EXCEPT ![o] = outcome]
    /\ UNCHANGED <<active, raises, bids>>

Next == Raise \/ Close \/ \E o \in Opps : Open(o) \/ Decline(o)

Spec == Init /\ [][Next]_vars

=============================================================================
