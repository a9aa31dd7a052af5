---------------------------- MODULE JobLifecycle ----------------------------
(***************************************************************************)
(* What an indexing job promises the clients that poll its row: a job is   *)
(* created pending, starts once, and ends once, completed or failed.       *)
(***************************************************************************)
CONSTANT Jobs
VARIABLE status

Active == {"pending", "running"}
Settled == {"completed", "failed"}

Init == status = [j \in Jobs |-> "absent"]

Move(j, from, to) ==
    /\ status[j] \in from
    /\ status' = [status EXCEPT ![j] = to]

Create(j) == Move(j, {"absent"}, "pending")
Start(j) == Move(j, {"pending"}, "running")
Complete(j) == Move(j, {"running"}, "completed")
Fail(j) == Move(j, Active, "failed")

Next == \E j \in Jobs : Create(j) \/ Start(j) \/ Complete(j) \/ Fail(j)

Spec == Init /\ [][Next]_status
=============================================================================
