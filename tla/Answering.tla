----------------------------- MODULE Answering -----------------------------
(***************************************************************************)
(* What the inspector's worker pool promises the sender of a message,      *)
(* whatever the queue, its workers and its clock do: a task handed to      *)
(* Submit is answered once, with one reason, and is eventually answered.   *)
(* Pool.tla is shown to implement this module.                             *)
(***************************************************************************)
EXTENDS Naturals

CONSTANTS
    NumTasks,   \* how many messages arrive
    Reasons     \* the reasons an answer may carry

Tasks == 1..NumTasks

VARIABLE status     \* status[t]: "new", "pending" or the reason of the answer

Init == status = [t \in Tasks |-> "new"]

(* Messages reach the pool one after another, in order. *)
Receive(t) ==
    /\ status[t] = "new"
    /\ \A u \in Tasks : u < t => status[u] # "new"
    /\ status' = [status EXCEPT ![t] = "pending"]

Answer(t) ==
    /\ status[t] = "pending"
    /\ \E r \in Reasons : status' = [status EXCEPT ![t] = r]

Next == \E t \in Tasks : Receive(t) \/ Answer(t)

(* Only the answers are promised: messages may stop arriving. *)
Spec == Init /\ [][Next]_status /\ \A t \in Tasks : WF_status(Answer(t))
=============================================================================
