---------------------------- MODULE TaskLifecycle ----------------------------
(***************************************************************************)
(* What the somatic loop promises about every piece of work, said without  *)
(* queues, tiers or threads: a task is queued once, at most one task runs  *)
(* at a time, a queued task leaves the queue only by being run, a task     *)
(* that has run is never run again, and only a crash of the run itself     *)
(* loses one.                                                              *)
(***************************************************************************)
CONSTANT Ids

VARIABLE status

Statuses == {"none", "dropped", "queued", "running", "completed", "failed", "lost"}

Init == status = [id \in Ids |-> "none"]

Queue(id) == status[id] = "none" /\ status' = [status EXCEPT ![id] = "queued"]

Drop(id) == status[id] = "none" /\ status' = [status EXCEPT ![id] = "dropped"]

Start(id) ==
    /\ status[id] = "queued"
    /\ \A other \in Ids : status[other] # "running"
    /\ status' = [status EXCEPT ![id] = "running"]

End(id, how) ==
    /\ status[id] = "running"
    /\ status' = [status EXCEPT ![id] = how]

Next == \E id \in Ids :
            \/ Queue(id) \/ Drop(id) \/ Start(id)
            \/ \E how \in {"completed", "failed", "lost"} : End(id, how)

Spec == Init /\ [][Next]_status
=============================================================================
