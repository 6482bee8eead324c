---------------------------- MODULE MCJobLifecycle ----------------------------
(* Model-checking instances of the job lifecycle. *)
EXTENDS JobLifecycle

CONSTANTS j1, j2, w1

OneJob == {j1}
TwoJobs == {j1, j2}
OneWindow == {w1}
SameWindow == [j \in Jobs |-> w1]

AllFetch == [j \in Jobs |-> "fetch"]
PresetAndSchedule == [j \in Jobs |-> IF j = j1 THEN "preset" ELSE "schedule"]
FetchAndSchedule == [j \in Jobs |-> IF j = j1 THEN "fetch" ELSE "schedule"]

NoFaults == {}
UserFaults == {"retryable", "crash", "revoke", "redis"}
LossFaults == {"dispatch", "rollback", "crash", "lost_ack", "timeout", "error"}

CancelOnly == {"cancel"}
SweepOnly == {"sweep"}
SweepAndDelete == {"sweep", "delete"}
=============================================================================
