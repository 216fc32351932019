---------------------------- MODULE RequestDesk ----------------------------
(***************************************************************************)
(* What the fleet queue promises those who submit work under a request     *)
(* key, one atomic step per decision about a request: it is accepted once, *)
(* however often it is submitted; one container at most is started for it; *)
(* it leaves the queue only when its answer is known or was lost, never    *)
(* comes back, and is not called open again.                               *)
(*                                                                         *)
(* FleetQueue implements this with two lanes, a job board, dispatch        *)
(* threads, kills and restarts, and calls of Redis that raise.             *)
(***************************************************************************)
CONSTANTS
    Requests,     \* request keys
    Containers    \* containers the broker may start

VARIABLES
    stage,        \* request -> new, waiting, running or settled
    containers,   \* request -> the containers started for it
    answer        \* request -> what its row says: open, completed, failed, or
                  \* lost when the row cannot be written

deskVars == <<stage, containers, answer>>

Final == {"completed", "failed"}
Answers == {"open", "lost"} \cup Final

Init ==
    /\ stage = [k \in Requests |-> "new"]
    /\ containers = [k \in Requests |-> {}]
    /\ answer = [k \in Requests |-> "open"]

AcceptRequest(k) ==
    /\ stage[k] = "new"
    /\ stage' = [stage EXCEPT ![k] = "waiting"]
    /\ UNCHANGED <<containers, answer>>

Start(k) ==
    /\ stage[k] = "waiting" /\ containers[k] = {}
    /\ stage' = [stage EXCEPT ![k] = "running"]
    /\ \E c \in Containers : containers' = [containers EXCEPT ![k] = {c}]
    /\ UNCHANGED answer

\* The row of a request in the queue may be written over, by a sweep or by the
\* dispatch; a settled request gets no other than a final answer.
Note(k, a) ==
    /\ stage[k] # "new"
    /\ answer[k] = "lost" => a # "open"
    /\ stage[k] = "settled" => a \in Final
    /\ answer' = [answer EXCEPT ![k] = a]
    /\ UNCHANGED <<stage, containers>>

Settle(k) ==
    /\ stage[k] \in {"waiting", "running"} /\ answer[k] # "open"
    /\ stage' = [stage EXCEPT ![k] = "settled"]
    /\ UNCHANGED <<containers, answer>>

Next ==
    \E k \in Requests :
        \/ AcceptRequest(k) \/ Start(k) \/ Settle(k)
        \/ \E a \in Answers : Note(k, a)

Spec == Init /\ [][Next]_deskVars
=============================================================================
