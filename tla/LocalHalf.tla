----------------------------- MODULE LocalHalf -----------------------------
(***************************************************************************)
(* The checkout pool of `git-repo-go sync`: syncCommand.LocalHalf in       *)
(* cmd/sync.go.  Workers take trees of projects from a buffered channel,   *)
(* check the project of the tree out, and start a goroutine that sends the *)
(* subtrees; a WaitGroup counts the projects, and the main goroutine       *)
(* closes the channel when the count is zero.                              *)
(*                                                                         *)
(* Node 0 is the root tree, which has no project; node p > 0 is the        *)
(* project that comes p-th in the sorted list of paths.                    *)
(***************************************************************************)
EXTENDS Integers, Sequences, FiniteSets

CONSTANTS N,        \* number of projects
          Parent,   \* Parent[p]: the node under which ProjectsTree hangs p
          Jobs      \* the --jobs option, at least 1 when the pool starts

Projects == 1..N
Nodes    == 0..N
Workers  == 1..Jobs

\* A parent sorts before the projects below it.
ASSUME LocalAssumption ==
    /\ N \in Nat
    /\ Jobs \in Nat \ {0}
    /\ Parent \in [Projects -> Nodes]
    /\ \A p \in Projects : Parent[p] < p

VARIABLES jobTasks,    \* buffered channel of trees
          tasksClosed, \* jobTasks has been closed
          sending,     \* sending[t]: subtrees of t its goroutine has still to send
          wpc,         \* where each worker is
          tree,        \* the tree each worker is busy with
          seen,        \* the value of errs a worker read when it began append
          status,      \* progress of each project
          wg,          \* counter of the WaitGroup
          errs,        \* the shared slice of errors
          mpc,         \* where the main goroutine is
          result       \* what LocalHalf returned

vars == <<jobTasks, tasksClosed, sending, wpc, tree, seen, status, wg, errs,
          mpc, result>>

mainVars == <<mpc, result, tasksClosed>>

Children(t) == {p \in Projects : Parent[p] = t}

First(S) == CHOOSE p \in S : \A q \in S : p <= q

Init ==
    /\ jobTasks = <<>>
    /\ tasksClosed = FALSE
    /\ sending = [t \in Nodes |-> {}]
    /\ wpc = [w \in Workers |-> "range"]
    /\ tree = [w \in Workers |-> 0]
    /\ seen = [w \in Workers |-> {}]
    /\ status = [p \in Projects |-> "pending"]
    /\ wg = N
    /\ errs = {}
    /\ mpc = "send"
    /\ result = "none"

-----------------------------------------------------------------------------
(* A worker goroutine. *)

\* A worker that starts the goroutine for the subtrees before the checkout.
TakeTreeSpawnFirst(w) ==
    /\ wpc[w] = "range"
    /\ jobTasks # <<>>
    /\ jobTasks' = Tail(jobTasks)
    /\ tree' = [tree EXCEPT ![w] = Head(jobTasks)]
    /\ sending' = [sending EXCEPT ![Head(jobTasks)] = Children(Head(jobTasks))]
    /\ \/ /\ Head(jobTasks) = 0
          /\ wpc' = [wpc EXCEPT ![w] = "spawn"]
          /\ UNCHANGED status
       \/ /\ Head(jobTasks) # 0
          /\ wpc' = [wpc EXCEPT ![w] = "checkout"]
          /\ status' = [status EXCEPT ![Head(jobTasks)] = "running"]
    /\ UNCHANGED <<seen, wg, errs, mainVars>>

\* `for tree = range jobTasks`: the root tree has nothing to check out.
TakeTree(w) ==
    /\ wpc[w] = "range"
    /\ jobTasks # <<>>
    /\ jobTasks' = Tail(jobTasks)
    /\ tree' = [tree EXCEPT ![w] = Head(jobTasks)]
    /\ \/ /\ Head(jobTasks) = 0
          /\ wpc' = [wpc EXCEPT ![w] = "spawn"]
          /\ UNCHANGED status
       \/ /\ Head(jobTasks) # 0
          /\ wpc' = [wpc EXCEPT ![w] = "checkout"]
          /\ status' = [status EXCEPT ![Head(jobTasks)] = "running"]
    /\ UNCHANGED <<sending, seen, wg, errs, mainVars>>

WorkerExit(w) ==
    /\ wpc[w] = "range"
    /\ jobTasks = <<>>
    /\ tasksClosed
    /\ wpc' = [wpc EXCEPT ![w] = "exit"]
    /\ UNCHANGED <<jobTasks, sending, tree, seen, status, wg, errs, mainVars>>

\* p.SyncLocalHalf returns nil or an error.
EndCheckout(w) ==
    /\ wpc[w] = "checkout"
    /\ \E r \in {"ok", "failed"} :
        /\ status' = [status EXCEPT ![tree[w]] = r]
        /\ wpc' = [wpc EXCEPT ![w] = IF r = "ok" THEN "spawn" ELSE "append"]
    /\ UNCHANGED <<jobTasks, sending, tree, seen, wg, errs, mainVars>>

\* errs = append(errs, err) without a lock: the slice is read ...
ReadErrs(w) ==
    /\ wpc[w] = "append"
    /\ seen' = [seen EXCEPT ![w] = errs]
    /\ wpc' = [wpc EXCEPT ![w] = "store"]
    /\ UNCHANGED <<jobTasks, sending, tree, status, wg, errs, mainVars>>

\* A worker that stores the slice it read without the new element.
WriteSeen(w) ==
    /\ wpc[w] = "store"
    /\ errs' = seen[w]
    /\ seen' = [seen EXCEPT ![w] = {}]
    /\ wpc' = [wpc EXCEPT ![w] = "spawn"]
    /\ UNCHANGED <<jobTasks, sending, tree, status, wg, mainVars>>

\* A worker that records the error under the root tree.
WriteErrsAtRoot(w) ==
    /\ wpc[w] = "store"
    /\ errs' = seen[w] \cup {0}
    /\ seen' = [seen EXCEPT ![w] = {}]
    /\ wpc' = [wpc EXCEPT ![w] = "spawn"]
    /\ UNCHANGED <<jobTasks, sending, tree, status, wg, mainVars>>

\* ... and the longer slice is stored, over what others stored meanwhile.
WriteErrs(w) ==
    /\ wpc[w] = "store"
    /\ errs' = seen[w] \cup {tree[w]}
    /\ seen' = [seen EXCEPT ![w] = {}]
    /\ wpc' = [wpc EXCEPT ![w] = "spawn"]
    /\ UNCHANGED <<jobTasks, sending, tree, status, wg, mainVars>>

\* A worker that calls wg.Done for the root tree too.
SpawnCountRoot(w) ==
    /\ wpc[w] = "spawn"
    /\ sending' = [sending EXCEPT ![tree[w]] = Children(tree[w])]
    /\ wpc' = [wpc EXCEPT ![w] = "done"]
    /\ UNCHANGED <<jobTasks, tree, seen, status, wg, errs, mainVars>>

\* `go func(tree project.Tree)`; the root tree is not counted by the WaitGroup.
Spawn(w) ==
    /\ wpc[w] = "spawn"
    /\ sending' = [sending EXCEPT ![tree[w]] = Children(tree[w])]
    /\ wpc' = [wpc EXCEPT ![w] = IF tree[w] = 0 THEN "range" ELSE "done"]
    /\ UNCHANGED <<jobTasks, tree, seen, status, wg, errs, mainVars>>

WgDone(w) ==
    /\ wpc[w] = "done"
    /\ wg' = wg - 1
    /\ wpc' = [wpc EXCEPT ![w] = "range"]
    /\ UNCHANGED <<jobTasks, sending, tree, seen, status, errs, mainVars>>

Worker(w) ==
    \/ TakeTree(w) \/ WorkerExit(w) \/ EndCheckout(w)
    \/ ReadErrs(w) \/ WriteErrs(w) \/ Spawn(w) \/ WgDone(w)

-----------------------------------------------------------------------------
\* The goroutine that sends the subtrees of t, in order.
SendSubtree(t) ==
    /\ sending[t] # {}
    /\ Len(jobTasks) < Jobs
    /\ jobTasks' = Append(jobTasks, First(sending[t]))
    /\ sending' = [sending EXCEPT ![t] = @ \ {First(sending[t])}]
    /\ UNCHANGED <<wpc, tree, seen, status, wg, errs, mainVars>>

-----------------------------------------------------------------------------
(* The main goroutine. *)

SendRoot ==
    /\ mpc = "send"
    /\ Len(jobTasks) < Jobs
    /\ jobTasks' = Append(jobTasks, 0)
    /\ mpc' = "wait"
    /\ UNCHANGED <<tasksClosed, sending, wpc, tree, seen, status, wg, errs, result>>

\* A main goroutine that closes the channel when the last tree has been taken.
CloseWhenTaken ==
    /\ mpc = "wait"
    /\ jobTasks = <<>>
    /\ tasksClosed' = TRUE
    /\ result' = IF errs = {} THEN "nil" ELSE "error"
    /\ mpc' = "returned"
    /\ UNCHANGED <<jobTasks, sending, wpc, tree, seen, status, wg, errs>>

\* A main goroutine that forgets close(jobTasks).
WaitWithoutClose ==
    /\ mpc = "wait"
    /\ wg = 0
    /\ result' = IF errs = {} THEN "nil" ELSE "error"
    /\ mpc' = "returned"
    /\ UNCHANGED <<jobTasks, tasksClosed, sending, wpc, tree, seen, status, wg, errs>>

\* wg.Wait(), close(jobTasks), and the error built from errs.
WaitAndReturn ==
    /\ mpc = "wait"
    /\ wg = 0
    /\ tasksClosed' = TRUE
    /\ result' = IF errs = {} THEN "nil" ELSE "error"
    /\ mpc' = "returned"
    /\ UNCHANGED <<jobTasks, sending, wpc, tree, seen, status, wg, errs>>

Next ==
    \/ \E w \in Workers : Worker(w)
    \/ \E t \in Nodes : SendSubtree(t)
    \/ SendRoot
    \/ WaitAndReturn

\* The Go scheduler runs every goroutine that can run, and a git command ends.
Fairness ==
    /\ \A w \in Workers : WF_vars(Worker(w))
    /\ \A t \in Nodes : WF_vars(SendSubtree(t))
    /\ WF_vars(SendRoot)
    /\ WF_vars(WaitAndReturn)

Spec == Init /\ [][Next]_vars /\ Fairness

-----------------------------------------------------------------------------
TypeOK ==
    /\ jobTasks \in Seq(Nodes)
    /\ tasksClosed \in BOOLEAN
    /\ sending \in [Nodes -> SUBSET Projects]
    /\ wpc \in [Workers -> {"range", "checkout", "append", "store", "spawn",
                            "done", "exit"}]
    /\ tree \in [Workers -> Nodes]
    /\ seen \in [Workers -> SUBSET Projects]
    /\ status \in [Projects -> {"pending", "running", "ok", "failed"}]
    /\ wg \in Int
    /\ errs \subseteq Projects
    /\ mpc \in {"send", "wait", "returned"}
    /\ result \in {"none", "nil", "error"}

\* The main goroutine never closes jobTasks under a goroutine that has still a
\* subtree to send: a send on a closed channel would end the process.
NoSendOnClosedChannel ==
    tasksClosed => \A t \in Nodes : sending[t] = {}

\* The WaitGroup never goes below zero, which would end the process.
WaitGroupNotNegative == wg >= 0

\* A project nested in the worktree of another one is checked out only after
\* the outer checkout is over, so that the two never touch the outer worktree
\* at the same time.
ParentFirst ==
    \A p \in Projects :
        Parent[p] # 0 /\ status[p] # "pending" => status[Parent[p]] \in {"ok", "failed"}

\* A failed checkout makes LocalHalf fail, although the workers append to errs
\* without a lock and may overwrite each other's errors.
FailureIsReported ==
    result # "none" =>
        /\ \A p \in Projects : status[p] \in {"ok", "failed"}
        /\ (result = "error") <=> (\E p \in Projects : status[p] = "failed")

\* After the return all workers leave: the closed channel wakes them up.
WorkersExit == <>(\A w \in Workers : wpc[w] = "exit")

-----------------------------------------------------------------------------
(* The inductive invariant behind the safety properties: a tree is in one    *)
(* place only, with the goroutine that is to send it, in the channel, with   *)
(* one worker, or done with; and the WaitGroup counts those not done with.   *)

Held(w) == wpc[w] \in {"checkout", "append", "store", "spawn", "done"}

\* What a worker knows of its tree.
HeldInv ==
    \A w \in Workers :
        /\ Held(w) /\ wpc[w] # "spawn" => tree[w] # 0
        /\ Held(w) /\ tree[w] = 0 => mpc # "send" /\ \A i \in 1..Len(jobTasks) : jobTasks[i] # 0
        /\ wpc[w] = "checkout" => status[tree[w]] = "running"
        /\ wpc[w] \in {"append", "store"} => status[tree[w]] = "failed"
        /\ wpc[w] \in {"spawn", "done"} /\ tree[w] # 0 => status[tree[w]] \in {"ok", "failed"}

\* No two workers have the same tree.
OneWorkerPerTree ==
    \A v, w \in Workers : v # w /\ Held(v) /\ Held(w) => tree[v] # tree[w]

\* A tree in the channel is there once and has not been taken before.
QueueInv ==
    \A i \in 1..Len(jobTasks) :
        /\ jobTasks[i] = 0 => mpc # "send"
        /\ jobTasks[i] # 0 => status[jobTasks[i]] = "pending"
        /\ \A t \in Nodes : jobTasks[i] \notin sending[t]
        /\ \A j \in 1..Len(jobTasks) : jobTasks[i] = jobTasks[j] => i = j

SendingInv ==
    \A t \in Nodes : \A p \in sending[t] : Parent[p] = t /\ status[p] = "pending"

\* A worker has started the goroutine that sends the subtrees of t.
Spawned(t) ==
    /\ IF t = 0 THEN mpc # "send" ELSE status[t] \in {"ok", "failed"}
    /\ \A i \in 1..Len(jobTasks) : jobTasks[i] # t
    /\ \A w \in Workers : wpc[w] \in {"append", "store", "spawn"} => tree[w] # t

\* A project is sent, taken and checked out after that.
SpawnedInv ==
    \A p \in Projects :
        \/ status[p] # "pending"
        \/ p \in sending[Parent[p]]
        \/ \E i \in 1..Len(jobTasks) : jobTasks[i] = p
        => Spawned(Parent[p])

\* The projects for which wg.Done has still to be called.
Outstanding ==
    {p \in Projects : \/ status[p] \in {"pending", "running"}
                      \/ \E w \in Workers : Held(w) /\ tree[w] = p}

CountInv == wg = Cardinality(Outstanding)

\* Errors may be overwritten, but not all of them.
ErrsInv ==
    /\ \A p \in errs : status[p] = "failed"
    /\ \A w \in Workers : \A p \in seen[w] : status[p] = "failed"
    /\ \A p \in Projects :
          status[p] = "failed" => \/ errs # {}
                                 \/ \E w \in Workers : /\ wpc[w] \in {"append", "store"}
                                                       /\ tree[w] = p

ReturnedInv ==
    /\ tasksClosed => mpc = "returned"
    /\ result # "none" => mpc = "returned"
    /\ mpc = "returned" => /\ Outstanding = {}
                           /\ result = IF errs = {} THEN "nil" ELSE "error"

LocalInv ==
    /\ TypeOK /\ HeldInv /\ OneWorkerPerTree /\ QueueInv /\ SendingInv
    /\ SpawnedInv /\ CountInv /\ ErrsInv /\ ReturnedInv

-----------------------------------------------------------------------------
Pool == INSTANCE TaskPool WITH
    Tasks    <- Projects,
    Before   <- [p \in Projects |-> {Parent[p]} \ {0}],
    Conflict <- [p \in Projects |-> {}]

\* LocalHalf is a TaskPool: each checkout runs once, after the checkout it is
\* nested in, and the caller hears of a failure only after the last checkout.
ImplementsTaskPool == Pool!PoolSpec
=============================================================================
