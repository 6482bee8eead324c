------------------------------ MODULE TaskMutex ------------------------------
(***************************************************************************)
(* What with_idempotency (backend/app/tasks/helpers.py) promises to the    *)
(* body of a task: while one delivery is in the body for a key, no other   *)
(* delivery of that key enters it.                                         *)
(***************************************************************************)
CONSTANT Deliveries

VARIABLE inside  \* the deliveries that are in the body

Init == inside = {}

Enter(d) == inside = {} /\ inside' = {d}

Leave(d) == inside = {d} /\ inside' = {}

Next == \E d \in Deliveries : Enter(d) \/ Leave(d)

Spec == Init /\ [][Next]_inside
=============================================================================
