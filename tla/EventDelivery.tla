---------------------------- MODULE EventDelivery ----------------------------
(***************************************************************************)
(* What the outbox promises those who queue events in it, one atomic step  *)
(* per decision about an event: the events of a run are queued together,   *)
(* only queued events that can be built are published, an event is called  *)
(* delivered only once it is published, it is given up only when it cannot *)
(* be built or its attempts are used up, and a delivered one is settled    *)
(* for good.                                                               *)
(*                                                                         *)
(* Outbox implements this with snapshots of rows that nobody locks, passes *)
(* that overlap, lost replies and kills.                                   *)
(***************************************************************************)
EXTENDS Naturals

CONSTANTS
    Batches,      \* sets of events, each queued in one transaction
    Defective,    \* events whose payload _attempt may refuse for good
    MaxAttempts   \* BackoffPolicy.max_attempts

VARIABLES
    state,        \* event -> none, pending, delivered or dead
    charged,      \* event -> the attempts charged to it
    published     \* events on the knowledge stream

deliveryVars == <<state, charged, published>>

Queueable == UNION Batches

\* A row that is not delivered may still be decided upon, a dead one by a pass
\* that read it before.
Open(e) == state[e] \in {"pending", "dead"}

Decide(e, s) ==
    /\ Open(e)
    /\ state' = [state EXCEPT ![e] = s]
    /\ charged' = [charged EXCEPT ![e] = @ + 1]
    /\ UNCHANGED published

-----------------------------------------------------------------------------
\* The stream may hold events of the direct path that preceded the outbox.
Init ==
    /\ state = [e \in Queueable |-> "none"]
    /\ charged = [e \in Queueable |-> 0]
    /\ published \in SUBSET Queueable

Queue(batch) ==
    /\ \A e \in batch : state[e] = "none"
    /\ state' = [e \in Queueable |-> IF e \in batch THEN "pending" ELSE state[e]]
    /\ UNCHANGED <<charged, published>>

\* Delivery is at least once: also an event that is settled may be published,
\* by a pass that is late.
PublishEvent(e) ==
    /\ state[e] # "none" /\ e \notin Defective
    /\ published' = published \cup {e}
    /\ UNCHANGED <<state, charged>>

MarkDelivered(e) == e \in published /\ Decide(e, "delivered")

PutOff(e) == (e \notin Defective \/ e \in published) /\ Decide(e, "pending")

GiveUp(e) == (e \in Defective \/ charged[e] + 1 >= MaxAttempts) /\ Decide(e, "dead")

Next ==
    \/ \E batch \in Batches : Queue(batch)
    \/ \E e \in Queueable : PublishEvent(e) \/ MarkDelivered(e) \/ PutOff(e) \/ GiveUp(e)

Spec == Init /\ [][Next]_deliveryVars
=============================================================================
