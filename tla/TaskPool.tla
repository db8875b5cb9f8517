------------------------------ MODULE TaskPool ------------------------------
(***************************************************************************)
(* What a pool of goroutines promises to the function that starts it:      *)
(* every task is run once, a task waits for the tasks it depends on, two   *)
(* tasks that share a repository never overlap, and the caller gets an     *)
(* answer only after the last task has finished: an error exactly when     *)
(* some task failed.  NetworkHalf and LocalHalf implement this.            *)
(***************************************************************************)
EXTENDS Naturals

CONSTANTS Tasks,      \* the projects of one sync
          Before,     \* Before[t]: the tasks that finish before t starts
          Conflict    \* Conflict[t]: the tasks that may not overlap with t

VARIABLES status,     \* progress of each task
          result      \* what the caller was told: "none" until it returns

poolVars == <<status, result>>

Finished == {"ok", "failed"}

PoolInit ==
    /\ status = [t \in Tasks |-> "pending"]
    /\ result = "none"

Start(t) ==
    /\ status[t] = "pending"
    /\ \A b \in Before[t] : status[b] \in Finished
    /\ \A c \in Conflict[t] : status[c] # "running"
    /\ status' = [status EXCEPT ![t] = "running"]
    /\ UNCHANGED result

Finish(t) ==
    /\ status[t] = "running"
    /\ \E r \in Finished : status' = [status EXCEPT ![t] = r]
    /\ UNCHANGED result

Return ==
    /\ result = "none"
    /\ \A t \in Tasks : status[t] \in Finished
    /\ result' = IF \E t \in Tasks : status[t] = "failed" THEN "error" ELSE "nil"
    /\ UNCHANGED status

PoolNext ==
    \/ \E t \in Tasks : Start(t) \/ Finish(t)
    \/ Return

\* The promise without the part that it is kept some day.
PoolSafe == PoolInit /\ [][PoolNext]_poolVars

PoolSpec == PoolSafe /\ WF_poolVars(PoolNext)
=============================================================================
