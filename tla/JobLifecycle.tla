---------------------------- MODULE JobLifecycle ----------------------------
(***************************************************************************)
(* What the server promises about a job (one run of an action), without    *)
(* its threads, queues and connections.  Jobs are numbered in the order    *)
(* they are accepted in, are started in that order, run at most once, and  *)
(* give their result away at most once.                                    *)
(***************************************************************************)
EXTENDS Integers

CONSTANT Ids        (* the numbers of the jobs                             *)

VARIABLE status     (* how far each job has come                           *)

Statuses == {"none", "accepted", "running", "done", "handed"}

Init == status = [id \in Ids |-> "none"]

Move(id, from, to) ==
  /\ status[id] = from
  /\ status' = [status EXCEPT ![id] = to]

Earlier(id) == {other \in Ids : other < id}

Accept(id) ==
  /\ \A other \in Earlier(id) : status[other] # "none"
  /\ Move(id, "none", "accepted")

Start(id) ==
  /\ \A other \in Earlier(id) : status[other] # "accepted"
  /\ Move(id, "accepted", "running")

Finish(id) == Move(id, "running", "done")

HandOver(id) == Move(id, "done", "handed")

Next == \E id \in Ids : Accept(id) \/ Start(id) \/ Finish(id) \/ HandOver(id)

Spec == Init /\ [][Next]_status

=============================================================================
