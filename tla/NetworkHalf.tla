---------------------------- MODULE NetworkHalf ----------------------------
(***************************************************************************)
(* The fetch pool of `git-repo-go sync`: syncCommand.NetworkHalf in        *)
(* cmd/sync.go.  A feeder goroutine sends the project names, `jobs`        *)
(* workers fetch the projects of a name one after the other and send one   *)
(* result per project, and the main goroutine collects results.            *)
(*                                                                         *)
(* A project is its index in allProjects.  git-fetch itself is a step that *)
(* begins and ends, and ends well or badly.                                *)
(***************************************************************************)
EXTENDS Naturals, Sequences, FiniteSets

CONSTANTS N,          \* number of projects to fetch
          Names,      \* the names of those projects
          NameOf,     \* name of each project: several may share one
          Jobs        \* the --jobs option, at least 1 when the pool starts

Projects == 1..N
Workers  == 1..Jobs

ASSUME NetworkAssumption ==
    /\ N \in Nat
    /\ Jobs \in Nat \ {0}
    /\ NameOf \in [Projects -> Names]
    /\ IsFiniteSet(Names)
    /\ \A n \in Names : \E p \in Projects : NameOf[p] = n

VARIABLES jobTasks,    \* buffered channel of names
          tasksClosed, \* jobTasks has been closed
          fed,         \* names the feeder has sent
          jobResults,  \* buffered channel of results
          wpc,         \* where each worker is
          cur,         \* the project each worker is busy with (0: none)
          todo,        \* the projects of its name it has still to fetch
          status,      \* progress of each project
          received,    \* results collected by the main goroutine
          errs,        \* projects whose error the main goroutine collected
          result       \* what NetworkHalf returned

vars == <<jobTasks, tasksClosed, fed, jobResults, wpc, cur, todo, status,
          received, errs, result>>

feederVars == <<tasksClosed, fed>>
workerVars == <<wpc, cur, todo>>
mainVars   == <<received, errs, result>>

\* The projects of a name, fetched in the order of the list.
IndexByName(n) == {p \in Projects : NameOf[p] = n}

First(S) == CHOOSE p \in S : \A q \in S : p <= q

Init ==
    /\ jobTasks = <<>>
    /\ tasksClosed = FALSE
    /\ fed = {}
    /\ jobResults = <<>>
    /\ wpc = [w \in Workers |-> "range"]
    /\ cur = [w \in Workers |-> 0]
    /\ todo = [w \in Workers |-> {}]
    /\ status = [p \in Projects |-> "pending"]
    /\ received = 0
    /\ errs = {}
    /\ result = "none"

-----------------------------------------------------------------------------
(* The feeder goroutine. *)

\* A feeder that does not remember what it has sent.
FeedAgain(n) ==
    /\ ~tasksClosed
    /\ Len(jobTasks) < Jobs
    /\ jobTasks' = Append(jobTasks, n)
    /\ fed' = fed \cup {n}
    /\ UNCHANGED <<tasksClosed, jobResults, workerVars, status, mainVars>>

\* Go iterates over the map in any order; a send blocks on a full channel.
Feed(n) ==
    /\ n \notin fed
    /\ Len(jobTasks) < Jobs
    /\ jobTasks' = Append(jobTasks, n)
    /\ fed' = fed \cup {n}
    /\ UNCHANGED <<tasksClosed, jobResults, workerVars, status, mainVars>>

CloseTasks ==
    /\ fed = Names
    /\ ~tasksClosed
    /\ tasksClosed' = TRUE
    /\ UNCHANGED <<jobTasks, fed, jobResults, workerVars, status, mainVars>>

-----------------------------------------------------------------------------
(* A worker goroutine. *)

\* Begin p.SyncNetworkHalf for the first of the projects in S.
BeginFetch(w, S) ==
    /\ cur' = [cur EXCEPT ![w] = First(S)]
    /\ todo' = [todo EXCEPT ![w] = S \ {First(S)}]
    /\ status' = [status EXCEPT ![First(S)] = "running"]
    /\ wpc' = [wpc EXCEPT ![w] = "fetch"]

TakeName(w) ==
    /\ wpc[w] = "range"
    /\ jobTasks # <<>>
    /\ jobTasks' = Tail(jobTasks)
    /\ BeginFetch(w, IndexByName(Head(jobTasks)))
    /\ UNCHANGED <<feederVars, jobResults, mainVars>>

\* `for name = range jobTasks` ends when the channel is closed and drained.
WorkerExit(w) ==
    /\ wpc[w] = "range"
    /\ jobTasks = <<>>
    /\ tasksClosed
    /\ wpc' = [wpc EXCEPT ![w] = "exit"]
    /\ UNCHANGED <<jobTasks, feederVars, jobResults, cur, todo, status, mainVars>>

EndFetch(w) ==
    /\ wpc[w] = "fetch"
    /\ \E r \in {"ok", "failed"} : status' = [status EXCEPT ![cur[w]] = r]
    /\ wpc' = [wpc EXCEPT ![w] = "send"]
    /\ UNCHANGED <<jobTasks, feederVars, jobResults, cur, todo, mainVars>>

\* A worker that sends only the errors.
SendErrorOnly(w) ==
    /\ wpc[w] = "send"
    /\ Len(jobResults) < Jobs
    /\ jobResults' = IF status[cur[w]] = "failed" THEN Append(jobResults, cur[w])
                     ELSE jobResults
    /\ \/ /\ todo[w] # {}
          /\ BeginFetch(w, todo[w])
       \/ /\ todo[w] = {}
          /\ wpc' = [wpc EXCEPT ![w] = "range"]
          /\ cur' = [cur EXCEPT ![w] = 0]
          /\ UNCHANGED <<todo, status>>
    /\ UNCHANGED <<jobTasks, feederVars, mainVars>>

\* A worker that forgets its project before it sends the result.
SendCleared(w) ==
    /\ wpc[w] = "send"
    /\ Len(jobResults) < Jobs
    /\ jobResults' = Append(jobResults, 0)
    /\ wpc' = [wpc EXCEPT ![w] = "range"]
    /\ cur' = [cur EXCEPT ![w] = 0]
    /\ UNCHANGED <<todo, status, jobTasks, feederVars, mainVars>>

\* `jobResults <- err`, which blocks while the buffer is full, then the next
\* project of the name or the next name.
SendResult(w) ==
    /\ wpc[w] = "send"
    /\ Len(jobResults) < Jobs
    /\ jobResults' = Append(jobResults, cur[w])
    /\ \/ /\ todo[w] # {}
          /\ BeginFetch(w, todo[w])
       \/ /\ todo[w] = {}
          /\ wpc' = [wpc EXCEPT ![w] = "range"]
          /\ cur' = [cur EXCEPT ![w] = 0]
          /\ UNCHANGED <<todo, status>>
    /\ UNCHANGED <<jobTasks, feederVars, mainVars>>

Worker(w) == TakeName(w) \/ WorkerExit(w) \/ EndFetch(w) \/ SendResult(w)

-----------------------------------------------------------------------------
(* The main goroutine. *)

\* One result is expected for each key of projectsByName.
Collect ==
    /\ result = "none"
    /\ received < Cardinality(Names)
    /\ jobResults # <<>>
    /\ received' = received + 1
    /\ errs' = IF status[Head(jobResults)] = "failed"
               THEN errs \cup {Head(jobResults)} ELSE errs
    /\ jobResults' = Tail(jobResults)
    /\ UNCHANGED <<jobTasks, feederVars, workerVars, status, result>>

Return ==
    /\ result = "none"
    /\ received = Cardinality(Names)
    /\ result' = IF errs = {} THEN "nil" ELSE "error"
    /\ UNCHANGED <<jobTasks, feederVars, jobResults, workerVars, status, received, errs>>

Next ==
    \/ \E n \in Names : Feed(n)
    \/ CloseTasks
    \/ \E w \in Workers : Worker(w)
    \/ Collect
    \/ Return

\* The Go scheduler runs every goroutine that can run, and a git command ends.
Fairness ==
    /\ WF_vars((\E n \in Names : Feed(n)) \/ CloseTasks)
    /\ \A w \in Workers : WF_vars(Worker(w))
    /\ WF_vars(Collect \/ Return)

Spec == Init /\ [][Next]_vars /\ Fairness

-----------------------------------------------------------------------------
TypeOK ==
    /\ jobTasks \in Seq(Names)
    /\ tasksClosed \in BOOLEAN
    /\ fed \subseteq Names
    /\ jobResults \in Seq(Projects)
    /\ wpc \in [Workers -> {"range", "fetch", "send", "exit"}]
    /\ cur \in [Workers -> 0..N]
    /\ todo \in [Workers -> SUBSET Projects]
    /\ status \in [Projects -> {"pending", "running", "ok", "failed"}]
    /\ received \in Nat
    /\ errs \subseteq Projects
    /\ result \in {"none", "nil", "error"}

\* Two projects of the same name share one objects repository
\* (project/repository.go: "Several projects may share the same repository"):
\* git never fetches into it twice at the same time, however many workers run.
SharedRepositoryExclusive ==
    \A p, q \in Projects :
        p # q /\ NameOf[p] = NameOf[q] => ~(status[p] = "running" /\ status[q] = "running")

\* No project is fetched twice in one sync: the outcome of a fetch is final.
FetchedOnce ==
    [][\A p \in Projects : status[p] \in {"ok", "failed"} => status'[p] = status[p]]_vars

\* NetworkHalf always returns: nobody waits for a result that never comes.
NetworkHalfReturns == <>(result # "none")

-----------------------------------------------------------------------------
(* The inductive invariant behind SharedRepositoryExclusive and FetchedOnce: *)
(* a name is in one place only, not sent yet, in the channel, with one       *)
(* worker, or done with.                                                     *)

Busy(w) == wpc[w] \in {"fetch", "send"}

\* A worker is busy with a project whose siblings it has still to fetch.
BusyInv ==
    \A w \in Workers :
        /\ Busy(w) => cur[w] \in Projects /\ NameOf[cur[w]] \in fed
        /\ wpc[w] = "fetch" => status[cur[w]] = "running"
        /\ \A q \in todo[w] : /\ Busy(w) /\ q # cur[w]
                              /\ NameOf[q] = NameOf[cur[w]]
                              /\ status[q] = "pending"

\* No two workers are busy with the same name.
OneWorkerPerName ==
    \A v, w \in Workers :
        v # w /\ Busy(v) /\ Busy(w) => NameOf[cur[v]] # NameOf[cur[w]]

\* A name in the channel is there once, and no worker is busy with it.
QueueInv ==
    \A i \in 1..Len(jobTasks) :
        /\ jobTasks[i] \in fed
        /\ \A w \in Workers : Busy(w) => NameOf[cur[w]] # jobTasks[i]
        /\ \A j \in 1..Len(jobTasks) : jobTasks[i] = jobTasks[j] => i = j

\* A project whose name no worker has taken yet is pending.
PendingInv ==
    \A p \in Projects :
        \/ NameOf[p] \notin fed
        \/ \E i \in 1..Len(jobTasks) : jobTasks[i] = NameOf[p]
        => status[p] = "pending"

\* Only a worker runs a fetch.
RunningInv ==
    \A p \in Projects :
        status[p] = "running" => \E w \in Workers : wpc[w] = "fetch" /\ cur[w] = p

NetworkInv ==
    TypeOK /\ BusyInv /\ OneWorkerPerName /\ QueueInv /\ PendingInv /\ RunningInv

\* The fetches whose result the main goroutine has received: over, and the result
\* is neither in the channel nor with a worker.
Unsent == {p \in Projects : \E w \in Workers : wpc[w] = "send" /\ cur[w] = p}
Queued == {p \in Projects : \E i \in 1..Len(jobResults) : jobResults[i] = p}
Collected == {p \in Projects : status[p] \in {"ok", "failed"}} \ (Unsent \cup Queued)

\* A result is sent once, after its fetch, and the main goroutine has counted those
\* it has received and kept the errors among them.
ResultInv ==
    /\ \A w \in Workers : wpc[w] = "send" => status[cur[w]] \in {"ok", "failed"}
    /\ \A i \in 1..Len(jobResults) :
          /\ status[jobResults[i]] \in {"ok", "failed"} /\ jobResults[i] \notin Unsent
          /\ \A j \in 1..Len(jobResults) : jobResults[i] = jobResults[j] => i = j
    /\ received = Cardinality(Collected)
    /\ errs = {p \in Collected : status[p] = "failed"}

\* One project per name: NetworkHalf waits for as many results as there are names.
DistinctNames == \A p, q \in Projects : NameOf[p] = NameOf[q] => p = q

-----------------------------------------------------------------------------
\* The pool implements the abstract pool, with the projects of a name excluding
\* each other.
Pool == INSTANCE TaskPool WITH
    Tasks    <- Projects,
    Before   <- [p \in Projects |-> {}],
    Conflict <- [p \in Projects |-> IndexByName(NameOf[p]) \ {p}]

\* NetworkHalf is a TaskPool: each fetch runs once, never beside a fetch into
\* the same repository, and the caller hears of every failure.
ImplementsTaskPool == Pool!PoolSpec
=============================================================================
