------------------------- MODULE NetworkHalfProofs --------------------------
(***************************************************************************)
(* For any number of projects, names and jobs: NetworkHalf is type         *)
(* correct, never fetches twice at a time into one repository, and fetches *)
(* no project twice; when names are distinct it does what TaskPool allows. *)
(***************************************************************************)
EXTENDS NetworkHalf, NatSets, TLAPS, SequenceTheorems, FiniteSetTheorems

(* A set of projects has a first element, and First finds it. *)
LEMMA FirstIsFirst ==
    ASSUME NEW S, S \subseteq Projects, S # {}
    PROVE  First(S) \in S
<1>1. S \subseteq Nat
  BY NetworkAssumption DEF Projects
<1> QED
  BY <1>1, LeastElement DEF First

(* Every name has a project, so that a worker that takes it has one to fetch. *)
LEMMA IndexByNameFacts ==
    ASSUME NEW n \in Names
    PROVE  /\ IndexByName(n) \subseteq Projects
           /\ IndexByName(n) # {}
           /\ First(IndexByName(n)) \in IndexByName(n)
<1>1. IndexByName(n) \subseteq Projects /\ IndexByName(n) # {}
  BY NetworkAssumption DEF IndexByName
<1> QED
  BY <1>1, FirstIsFirst

(* What taking the head of the channel leaves in it. *)
LEMMA TailOfTasks ==
    ASSUME jobTasks \in Seq(Names), jobTasks # <<>>
    PROVE  /\ Len(jobTasks) \in Nat /\ Len(jobTasks) >= 1
           /\ Head(jobTasks) = jobTasks[1]
           /\ Head(jobTasks) \in Names
           /\ Tail(jobTasks) \in Seq(Names)
           /\ Len(Tail(jobTasks)) = Len(jobTasks) - 1
           /\ \A i \in 1..Len(Tail(jobTasks)) :
                 i + 1 \in 1..Len(jobTasks) /\ Tail(jobTasks)[i] = jobTasks[i + 1]
<1>1. Len(jobTasks) \in Nat /\ Len(jobTasks) >= 1
  BY EmptySeq, LenProperties
<1>2. Head(jobTasks) = jobTasks[1]
  OBVIOUS
<1> QED
  BY <1>1, <1>2, HeadTailProperties

(* At the start nothing has been sent and nobody is busy. *)
LEMMA InitInv == Init => NetworkInv
<1> USE NetworkAssumption DEF Init
<1>1. Init => TypeOK
  <2>1. <<>> \in Seq(Names) /\ <<>> \in Seq(Projects)
    OBVIOUS
  <2>2. Init => tasksClosed \in BOOLEAN
    BY Zenon
  <2>3. Init => cur \in [Workers -> 0..N] /\ received \in Nat
    OBVIOUS
  <2>4. Init => /\ wpc \in [Workers -> {"range", "fetch", "send", "exit"}]
                /\ todo \in [Workers -> SUBSET Projects]
                /\ status \in [Projects -> {"pending", "running", "ok", "failed"}]
    OBVIOUS
  <2>5. Init => fed \subseteq Names /\ errs \subseteq Projects
    OBVIOUS
  <2> QED
    BY <2>1, <2>2, <2>3, <2>4, <2>5, Zenon DEF TypeOK
<1>2. Init => BusyInv /\ OneWorkerPerName
  BY DEF BusyInv, OneWorkerPerName, Busy
<1>3. Init => QueueInv
  BY DEF QueueInv
<1>4. Init => PendingInv /\ RunningInv
  BY DEF PendingInv, RunningInv
<1> QED
  BY <1>1, <1>2, <1>3, <1>4 DEF NetworkInv

(* The feeder sends a name that was nowhere before. *)
LEMMA FeedInv ==
    ASSUME NetworkInv, NEW n \in Names, Feed(n)
    PROVE  NetworkInv'
<1> USE NetworkAssumption DEF NetworkInv
<1> USE DEF Feed, workerVars, mainVars, Busy
<1>0. /\ jobTasks \in Seq(Names) /\ jobTasks' \in Seq(Names)
      /\ Len(jobTasks) \in Nat /\ Len(jobTasks') = Len(jobTasks) + 1
      /\ \A i \in 1..Len(jobTasks) : jobTasks'[i] = jobTasks[i]
      /\ jobTasks'[Len(jobTasks) + 1] = n
  BY AppendProperties, LenProperties DEF TypeOK
<1>1. TypeOK'
  BY <1>0 DEF TypeOK
<1>2. BusyInv'
  BY DEF BusyInv
<1>3. OneWorkerPerName'
  BY DEF OneWorkerPerName
<1>4. QueueInv'
  BY <1>0 DEF QueueInv, BusyInv
<1>5. PendingInv'
  BY <1>0 DEF PendingInv
<1>6. RunningInv'
  BY DEF RunningInv
<1> QED
  BY <1>1, <1>2, <1>3, <1>4, <1>5, <1>6

(* Closing the channel moves no name. *)
LEMMA CloseTasksInv ==
    ASSUME NetworkInv, CloseTasks
    PROVE  NetworkInv'
  BY DEF NetworkInv, CloseTasks, workerVars, mainVars, TypeOK, BusyInv, Busy,
         OneWorkerPerName, QueueInv, PendingInv, RunningInv

(* A worker takes a name, whose projects are all pending. *)
LEMMA TakeNameInv ==
    ASSUME NetworkInv, NEW w \in Workers, TakeName(w)
    PROVE  NetworkInv'
<1> DEFINE n == Head(jobTasks)
           p == First(IndexByName(n))
<1> USE NetworkAssumption DEF NetworkInv
<1>0. /\ Len(jobTasks) \in Nat /\ Len(jobTasks) >= 1
      /\ n = jobTasks[1] /\ n \in Names
      /\ jobTasks' = Tail(jobTasks)
      /\ jobTasks' \in Seq(Names)
      /\ Len(jobTasks') = Len(jobTasks) - 1
      /\ \A i \in 1..Len(jobTasks') :
            i + 1 \in 1..Len(jobTasks) /\ jobTasks'[i] = jobTasks[i + 1]
  BY TailOfTasks DEF TakeName, TypeOK
<1>1. /\ p \in Projects /\ NameOf[p] = n
      /\ IndexByName(n) = {q \in Projects : NameOf[q] = n}
  BY <1>0, IndexByNameFacts DEF IndexByName
<1>2. /\ wpc[w] = "range"
      /\ cur' = [cur EXCEPT ![w] = p]
      /\ todo' = [todo EXCEPT ![w] = IndexByName(n) \ {p}]
      /\ status' = [status EXCEPT ![p] = "running"]
      /\ wpc' = [wpc EXCEPT ![w] = "fetch"]
      /\ UNCHANGED <<tasksClosed, fed, jobResults, received, errs, result>>
  BY DEF TakeName, BeginFetch, feederVars, mainVars
<1>3. n \in fed /\ \A q \in Projects : NameOf[q] = n => status[q] = "pending"
  BY <1>0 DEF QueueInv, PendingInv
<1>4. \A v \in Workers : Busy(v) => v # w /\ NameOf[cur[v]] # n /\ cur[v] # p
  BY <1>0, <1>1, <1>2 DEF QueueInv, Busy
<1> HIDE DEF n, p
<1>5. \A v \in Workers : v # w => /\ wpc'[v] = wpc[v] /\ cur'[v] = cur[v]
                                  /\ todo'[v] = todo[v] /\ Busy(v)' = Busy(v)
  BY <1>2 DEF TypeOK, Busy
<1>6. Busy(w)' /\ wpc'[w] = "fetch" /\ cur'[w] = p /\ todo'[w] = IndexByName(n) \ {p}
  BY <1>2 DEF TypeOK, Busy
<1>7. \A q \in Projects : q # p => status'[q] = status[q]
  BY <1>2 DEF TypeOK
<1>8. status'[p] = "running"
  BY <1>1, <1>2 DEF TypeOK
<1>11. TypeOK'
  <2>1. p \in 0..N
    BY <1>1 DEF Projects
  <2>2. /\ cur' \in [Workers -> 0..N]
        /\ todo' \in [Workers -> SUBSET Projects]
    BY <2>1, <1>1, <1>2 DEF TypeOK
  <2>3. /\ wpc' \in [Workers -> {"range", "fetch", "send", "exit"}]
        /\ status' \in [Projects -> {"pending", "running", "ok", "failed"}]
    BY <1>1, <1>2 DEF TypeOK
  <2> QED
    BY <2>2, <2>3, <1>0, <1>2 DEF TypeOK
<1>12. BusyInv'
  <2> SUFFICES ASSUME NEW v \in Workers
               PROVE  /\ Busy(v)' => cur'[v] \in Projects /\ NameOf[cur'[v]] \in fed'
                      /\ wpc'[v] = "fetch" => status'[cur'[v]] = "running"
                      /\ \A q \in todo'[v] : /\ Busy(v)' /\ q # cur'[v]
                                             /\ NameOf[q] = NameOf[cur'[v]]
                                             /\ status'[q] = "pending"
    BY DEF BusyInv
  <2>1. CASE v = w
    BY <2>1, <1>1, <1>2, <1>3, <1>6, <1>7, <1>8
  <2>2. CASE v # w
    <3>1. Busy(v) => cur[v] # p /\ cur[v] \in Projects
      BY <1>4 DEF BusyInv
    <3>2. \A q \in todo[v] : q \in Projects /\ q # p
      BY <1>1, <1>4 DEF BusyInv, TypeOK
    <3> QED
      BY <2>2, <3>1, <3>2, <1>2, <1>5, <1>7 DEF BusyInv, Busy
  <2> QED
    BY <2>1, <2>2
<1>13. OneWorkerPerName'
  BY <1>1, <1>4, <1>5, <1>6 DEF OneWorkerPerName
<1>14. QueueInv'
  <2> SUFFICES ASSUME NEW i \in 1..Len(jobTasks')
               PROVE  /\ jobTasks'[i] \in fed'
                      /\ \A v \in Workers : Busy(v)' => NameOf[cur'[v]] # jobTasks'[i]
                      /\ \A j \in 1..Len(jobTasks') : jobTasks'[i] = jobTasks'[j] => i = j
    BY DEF QueueInv
  <2>1. i + 1 \in 1..Len(jobTasks) /\ jobTasks'[i] = jobTasks[i + 1] /\ i + 1 # 1
    BY <1>0
  <2>2. jobTasks'[i] # n
    BY <1>0, <2>1 DEF QueueInv
  <2>3. jobTasks'[i] \in fed'
    BY <1>2, <2>1 DEF QueueInv
  <2>4. \A v \in Workers : Busy(v)' => NameOf[cur'[v]] # jobTasks'[i]
    BY <2>1, <2>2, <1>1, <1>5, <1>6 DEF QueueInv
  <2>5. \A j \in 1..Len(jobTasks') : jobTasks'[i] = jobTasks'[j] => i = j
    BY <1>0, <2>1 DEF QueueInv
  <2> QED
    BY <2>3, <2>4, <2>5
<1>15. PendingInv'
  <2> SUFFICES ASSUME NEW q \in Projects,
                      \/ NameOf[q] \notin fed'
                      \/ \E i \in 1..Len(jobTasks') : jobTasks'[i] = NameOf[q]
               PROVE  status'[q] = "pending"
    BY DEF PendingInv
  <2>1. \A i \in 1..Len(jobTasks') : jobTasks'[i] # n
    BY <1>0 DEF QueueInv
  <2>2. q # p
    BY <2>1, <1>1, <1>2, <1>3
  <2>3. status[q] = "pending"
    BY <1>0, <1>2 DEF PendingInv
  <2> QED
    BY <2>2, <2>3, <1>7
<1>16. RunningInv'
  BY <1>2, <1>5, <1>6, <1>7 DEF RunningInv
<1> QED
  BY <1>11, <1>12, <1>13, <1>14, <1>15, <1>16

(* A worker that leaves is busy with nothing. *)
LEMMA WorkerExitInv ==
    ASSUME NetworkInv, NEW w \in Workers, WorkerExit(w)
    PROVE  NetworkInv'
<1> USE DEF NetworkInv, WorkerExit, feederVars, mainVars, TypeOK
<1>1. \A v \in Workers : Busy(v)' = Busy(v) /\ (wpc'[v] = "fetch" <=> wpc[v] = "fetch")
  BY DEF Busy
<1>2. TypeOK'
  OBVIOUS
<1>3. BusyInv' /\ OneWorkerPerName' /\ RunningInv'
  BY <1>1 DEF BusyInv, OneWorkerPerName, RunningInv
<1>4. QueueInv' /\ PendingInv'
  BY <1>1 DEF QueueInv, PendingInv
<1> QED
  BY <1>2, <1>3, <1>4

(* A fetch that ends makes the status of its project final. *)
LEMMA EndFetchInv ==
    ASSUME NetworkInv, NEW w \in Workers, EndFetch(w)
    PROVE  NetworkInv'
<1> DEFINE p == cur[w]
<1> USE DEF NetworkInv
<1>1. /\ wpc[w] = "fetch" /\ p \in Projects /\ status[p] = "running"
      /\ wpc' = [wpc EXCEPT ![w] = "send"]
      /\ UNCHANGED <<jobTasks, tasksClosed, fed, jobResults, cur, todo, received, errs, result>>
  BY DEF EndFetch, BusyInv, Busy, feederVars, mainVars
<1>2. PICK r \in {"ok", "failed"} : status' = [status EXCEPT ![p] = r]
  BY DEF EndFetch
<1> HIDE DEF p
<1>3. \A v \in Workers : /\ Busy(v)' = Busy(v)
                         /\ wpc'[v] = "fetch" <=> wpc[v] = "fetch" /\ v # w
  BY <1>1 DEF Busy, TypeOK
<1>4. \A q \in Projects : q # p => status'[q] = status[q]
  BY <1>2 DEF TypeOK
<1>5. status'[p] \notin {"pending", "running"}
  BY <1>1, <1>2 DEF TypeOK
<1>6. \A v \in Workers : v # w /\ Busy(v) => cur[v] # p
  BY <1>1 DEF OneWorkerPerName, Busy, p
<1>11. TypeOK'
  BY <1>1, <1>2 DEF TypeOK
<1>12. BusyInv'
  <2> SUFFICES ASSUME NEW v \in Workers
               PROVE  /\ Busy(v)' => cur'[v] \in Projects /\ NameOf[cur'[v]] \in fed'
                      /\ wpc'[v] = "fetch" => status'[cur'[v]] = "running"
                      /\ \A q \in todo'[v] : /\ Busy(v)' /\ q # cur'[v]
                                             /\ NameOf[q] = NameOf[cur'[v]]
                                             /\ status'[q] = "pending"
    BY DEF BusyInv
  <2>1. Busy(v)' => cur'[v] \in Projects /\ NameOf[cur'[v]] \in fed'
    BY <1>1, <1>3 DEF BusyInv
  <2>2. wpc'[v] = "fetch" => status'[cur'[v]] = "running"
    BY <1>1, <1>3, <1>4, <1>6 DEF BusyInv, Busy
  <2>3. \A q \in todo[v] : q \in Projects /\ q # p
    BY <1>1 DEF BusyInv, TypeOK
  <2>4. \A q \in todo'[v] : /\ Busy(v)' /\ q # cur'[v]
                            /\ NameOf[q] = NameOf[cur'[v]]
                            /\ status'[q] = "pending"
    BY <2>3, <1>1, <1>3, <1>4 DEF BusyInv
  <2> QED
    BY <2>1, <2>2, <2>4
<1>13. OneWorkerPerName' /\ QueueInv'
  BY <1>1, <1>3 DEF OneWorkerPerName, QueueInv
<1>14. PendingInv'
  BY <1>1, <1>4 DEF PendingInv
<1>15. RunningInv'
  <2> SUFFICES ASSUME NEW q \in Projects, status'[q] = "running"
               PROVE  \E v \in Workers : wpc'[v] = "fetch" /\ cur'[v] = q
    BY DEF RunningInv
  <2>1. q # p /\ status[q] = "running"
    BY <1>4, <1>5
  <2>2. PICK v \in Workers : wpc[v] = "fetch" /\ cur[v] = q
    BY <2>1 DEF RunningInv
  <2> QED
    BY <2>1, <2>2, <1>1, <1>3 DEF p
<1> QED
  BY <1>11, <1>12, <1>13, <1>14, <1>15

(* A worker sends a result and goes on with a sibling of its project ... *)
LEMMA SendAndFetchInv ==
    ASSUME NetworkInv, NEW w \in Workers, SendResult(w), todo[w] # {}
    PROVE  NetworkInv'
<1> DEFINE p == First(todo[w])
<1> USE DEF NetworkInv
<1>0. p \in todo[w] /\ p \in Projects
  BY FirstIsFirst DEF TypeOK
<1>1. /\ wpc[w] = "send"
      /\ jobResults' = Append(jobResults, cur[w])
      /\ cur' = [cur EXCEPT ![w] = p]
      /\ todo' = [todo EXCEPT ![w] = todo[w] \ {p}]
      /\ status' = [status EXCEPT ![p] = "running"]
      /\ wpc' = [wpc EXCEPT ![w] = "fetch"]
      /\ UNCHANGED <<jobTasks, tasksClosed, fed, received, errs, result>>
  BY DEF SendResult, BeginFetch, feederVars, mainVars
<1>2. /\ Busy(w) /\ cur[w] \in Projects /\ NameOf[cur[w]] \in fed
      /\ NameOf[p] = NameOf[cur[w]] /\ status[p] = "pending"
  BY <1>0, <1>1 DEF BusyInv, Busy
<1> HIDE DEF p
<1>3. \A v \in Workers : Busy(v)' = Busy(v)
  BY <1>1 DEF Busy, TypeOK
<1>4. \A v \in Workers : v # w => /\ wpc'[v] = wpc[v] /\ cur'[v] = cur[v]
                                  /\ todo'[v] = todo[v]
  BY <1>1 DEF TypeOK
<1>5. wpc'[w] = "fetch" /\ cur'[w] = p /\ todo'[w] = todo[w] \ {p}
  BY <1>1 DEF TypeOK
<1>6. /\ status'[p] = "running"
      /\ \A q \in Projects : q # p => status'[q] = status[q]
  BY <1>0, <1>1 DEF TypeOK
<1>7. \A v \in Workers : Busy(v)' => NameOf[cur'[v]] = NameOf[cur[v]]
  BY <1>2, <1>4, <1>5
<1>11. TypeOK'
  <2>1. p \in 0..N
    BY <1>0, NetworkAssumption DEF Projects
  <2>2. /\ cur' \in [Workers -> 0..N]
        /\ todo' \in [Workers -> SUBSET Projects]
    BY <2>1, <1>1 DEF TypeOK
  <2>3. /\ wpc' \in [Workers -> {"range", "fetch", "send", "exit"}]
        /\ status' \in [Projects -> {"pending", "running", "ok", "failed"}]
    BY <1>0, <1>1 DEF TypeOK
  <2>4. jobResults' \in Seq(Projects)
    BY <1>1, <1>2, AppendProperties DEF TypeOK
  <2> QED
    BY <2>2, <2>3, <2>4, <1>1 DEF TypeOK
<1>12. BusyInv'
  <2> SUFFICES ASSUME NEW v \in Workers
               PROVE  /\ Busy(v)' => cur'[v] \in Projects /\ NameOf[cur'[v]] \in fed'
                      /\ wpc'[v] = "fetch" => status'[cur'[v]] = "running"
                      /\ \A q \in todo'[v] : /\ Busy(v)' /\ q # cur'[v]
                                             /\ NameOf[q] = NameOf[cur'[v]]
                                             /\ status'[q] = "pending"
    BY DEF BusyInv
  <2>0. \A q \in todo[v] : q \in Projects
    BY DEF TypeOK
  <2>1. CASE v = w
    BY <2>0, <2>1, <1>0, <1>1, <1>2, <1>3, <1>5, <1>6 DEF BusyInv
  <2>2. CASE v # w
    <3>1. Busy(v) => NameOf[cur[v]] # NameOf[p] /\ cur[v] \in Projects
      BY <2>2, <1>2 DEF OneWorkerPerName, BusyInv
    <3>2. \A q \in todo[v] : q # p
      BY <3>1 DEF BusyInv
    <3> QED
      BY <2>0, <2>2, <3>1, <3>2, <1>1, <1>3, <1>4, <1>6 DEF BusyInv, Busy
  <2> QED
    BY <2>1, <2>2
<1>13. OneWorkerPerName' /\ QueueInv'
  BY <1>1, <1>3, <1>7 DEF OneWorkerPerName, QueueInv
<1>14. PendingInv'
  <2> SUFFICES ASSUME NEW q \in Projects,
                      \/ NameOf[q] \notin fed
                      \/ \E i \in 1..Len(jobTasks) : jobTasks[i] = NameOf[q]
               PROVE  status'[q] = "pending"
    BY <1>1 DEF PendingInv
  <2>1. q # p
    BY <1>2 DEF QueueInv
  <2> QED
    BY <2>1, <1>6 DEF PendingInv
<1>15. RunningInv'
  BY <1>1, <1>4, <1>5, <1>6 DEF RunningInv
<1> QED
  BY <1>11, <1>12, <1>13, <1>14, <1>15

(* ... or, when there is none, with the next name. *)
LEMMA SendAndRangeInv ==
    ASSUME NetworkInv, NEW w \in Workers, SendResult(w), todo[w] = {}
    PROVE  NetworkInv'
<1> USE DEF NetworkInv
<1>1. /\ wpc[w] = "send" /\ cur[w] \in Projects
      /\ jobResults' = Append(jobResults, cur[w])
      /\ wpc' = [wpc EXCEPT ![w] = "range"]
      /\ cur' = [cur EXCEPT ![w] = 0]
      /\ UNCHANGED <<jobTasks, tasksClosed, fed, todo, status, received, errs, result>>
  BY DEF SendResult, BusyInv, Busy, feederVars, mainVars
<1>2. /\ ~ Busy(w)' /\ wpc'[w] # "fetch" /\ wpc[w] # "fetch"
      /\ \A v \in Workers : v # w => /\ Busy(v)' = Busy(v)
                                     /\ wpc'[v] = wpc[v] /\ cur'[v] = cur[v]
  BY <1>1 DEF Busy, TypeOK
<1>3. TypeOK'
  <2>1. jobResults' \in Seq(Projects)
    BY <1>1, AppendProperties DEF TypeOK
  <2>2. cur' \in [Workers -> 0..N]
    BY <1>1, NetworkAssumption DEF TypeOK
  <2> QED
    BY <2>1, <2>2, <1>1 DEF TypeOK
<1>4. BusyInv'
  <2> SUFFICES ASSUME NEW v \in Workers
               PROVE  /\ Busy(v)' => cur'[v] \in Projects /\ NameOf[cur'[v]] \in fed'
                      /\ wpc'[v] = "fetch" => status'[cur'[v]] = "running"
                      /\ \A q \in todo'[v] : /\ Busy(v)' /\ q # cur'[v]
                                             /\ NameOf[q] = NameOf[cur'[v]]
                                             /\ status'[q] = "pending"
    BY DEF BusyInv
  <2>1. CASE v = w
    BY <2>1, <1>1, <1>2
  <2>2. CASE v # w
    BY <2>2, <1>1, <1>2 DEF BusyInv
  <2> QED
    BY <2>1, <2>2
<1>5. OneWorkerPerName' /\ QueueInv' /\ PendingInv'
  BY <1>1, <1>2 DEF OneWorkerPerName, QueueInv, PendingInv
<1>6. RunningInv'
  BY <1>1, <1>2 DEF RunningInv
<1> QED
  BY <1>3, <1>4, <1>5, <1>6

(* The main goroutine disturbs nothing but its own variables. *)
LEMMA CollectInv ==
    ASSUME NetworkInv, Collect \/ Return
    PROVE  NetworkInv'
<1> USE DEF NetworkInv
<1>1. UNCHANGED <<jobTasks, tasksClosed, fed, wpc, cur, todo, status>>
  BY DEF Collect, Return, feederVars, workerVars
<1>2. TypeOK'
  <2>1. CASE Collect
    <3>1. jobResults' \in Seq(Projects) /\ Head(jobResults) \in Projects
      BY <2>1, HeadTailProperties DEF Collect, TypeOK
    <3> QED
      BY <2>1, <3>1, <1>1 DEF Collect, TypeOK
  <2>2. CASE Return
    BY <2>2, <1>1 DEF Return, TypeOK
  <2> QED
    BY <2>1, <2>2
<1>3. BusyInv' /\ OneWorkerPerName' /\ QueueInv'
  BY <1>1 DEF BusyInv, OneWorkerPerName, QueueInv, Busy
<1>4. PendingInv' /\ RunningInv'
  BY <1>1 DEF PendingInv, RunningInv
<1> QED
  BY <1>2, <1>3, <1>4

(* Every step keeps the invariant. *)
LEMMA NextInv ==
    ASSUME NetworkInv, [Next]_vars
    PROVE  NetworkInv'
<1>1. ASSUME NEW n \in Names, Feed(n)
      PROVE  NetworkInv'
  BY <1>1, FeedInv
<1>2. ASSUME NEW w \in Workers, Worker(w)
      PROVE  NetworkInv'
  BY <1>2, TakeNameInv, WorkerExitInv, EndFetchInv, SendAndFetchInv, SendAndRangeInv
     DEF Worker
<1>3. CASE UNCHANGED vars
  BY <1>3 DEF vars, NetworkInv, TypeOK, BusyInv, Busy, OneWorkerPerName, QueueInv,
              PendingInv, RunningInv
<1> QED
  BY <1>1, <1>2, <1>3, CloseTasksInv, CollectInv DEF Next

-----------------------------------------------------------------------------

(* Type correctness of the pool, for every number of projects and jobs.    *)
THEOREM TypeCorrect == Spec => []TypeOK
<1>1. NetworkInv => TypeOK
  BY DEF NetworkInv
<1> QED
  BY InitInv, NextInv, <1>1, PTL DEF Spec

(* The invariant has that fetches of one name exclude each other.          *)
LEMMA ExclusiveByInv == NetworkInv => SharedRepositoryExclusive
<1> SUFFICES ASSUME NetworkInv, NEW p \in Projects, NEW q \in Projects,
                    p # q, NameOf[p] = NameOf[q],
                    status[p] = "running", status[q] = "running"
             PROVE  FALSE
  BY DEF SharedRepositoryExclusive
<1>1. PICK v \in Workers : wpc[v] = "fetch" /\ cur[v] = p
  BY DEF NetworkInv, RunningInv
<1>2. PICK w \in Workers : wpc[w] = "fetch" /\ cur[w] = q
  BY DEF NetworkInv, RunningInv
<1> QED
  BY <1>1, <1>2 DEF NetworkInv, OneWorkerPerName, Busy

(* Two projects that share an objects repository are never fetched at the  *)
(* same time, however names are shared and however many workers run.       *)
THEOREM Exclusive == Spec => []SharedRepositoryExclusive
BY InitInv, NextInv, ExclusiveByInv, PTL DEF Spec

(* A project that has been fetched is in no channel and no worker's list.  *)
LEMMA FetchIsFinal ==
    ASSUME NetworkInv, [Next]_vars,
           NEW p \in Projects, status[p] \in {"ok", "failed"}
    PROVE  status'[p] = status[p]
<1> USE DEF NetworkInv
<1>1. CASE UNCHANGED status
  BY <1>1
<1>2. ASSUME NEW w \in Workers, TakeName(w)
      PROVE  status'[p] = status[p]
  <2>1. /\ Len(jobTasks) >= 1 /\ Len(jobTasks) \in Nat
        /\ Head(jobTasks) = jobTasks[1] /\ Head(jobTasks) \in Names
    BY <1>2, TailOfTasks DEF TakeName, TypeOK
  <2>2. NameOf[p] # Head(jobTasks)
    BY <2>1 DEF PendingInv
  <2>3. p # First(IndexByName(Head(jobTasks)))
    BY <2>1, <2>2, IndexByNameFacts DEF IndexByName
  <2> QED
    BY <1>2, <2>3 DEF TakeName, BeginFetch, TypeOK
<1>3. ASSUME NEW w \in Workers, EndFetch(w)
      PROVE  status'[p] = status[p]
  BY <1>3 DEF EndFetch, BusyInv, TypeOK
<1>4. ASSUME NEW w \in Workers, SendResult(w), todo[w] # {}
      PROVE  status'[p] = status[p]
  <2>1. First(todo[w]) \in todo[w]
    BY <1>4, FirstIsFirst DEF TypeOK
  <2>2. p # First(todo[w])
    BY <2>1 DEF BusyInv
  <2> QED
    BY <1>4, <2>2 DEF SendResult, BeginFetch, TypeOK
<1>5. ASSUME NEW w \in Workers, SendResult(w), todo[w] = {}
      PROVE  UNCHANGED status
  BY <1>5 DEF SendResult
<1>6. ASSUME \/ \E n \in Names : Feed(n)
             \/ CloseTasks \/ Collect \/ Return \/ UNCHANGED vars
             \/ \E w \in Workers : WorkerExit(w)
      PROVE  UNCHANGED status
  BY <1>6 DEF Feed, CloseTasks, Collect, Return, WorkerExit, vars
<1> QED
  BY <1>1, <1>2, <1>3, <1>4, <1>5, <1>6 DEF Next, Worker

(* The outcome of a fetch is final: no sync fetches a project twice.       *)
THEOREM Once == Spec => FetchedOnce
<1>1. NetworkInv /\ [Next]_vars =>
        [\A p \in Projects : status[p] \in {"ok", "failed"} => status'[p] = status[p]]_vars
  BY FetchIsFinal
<1> QED
  BY InitInv, NextInv, <1>1, PTL DEF Spec, FetchedOnce

-----------------------------------------------------------------------------
(* The results, and the refinement of TaskPool, step by step *)

(* Nothing has been sent or counted at first.                              *)
LEMMA InitResult == Init => ResultInv
<1> SUFFICES ASSUME Init PROVE ResultInv
  OBVIOUS
<1> USE DEF Init
<1>1. Collected = {}
  BY DEF Collected
<1> QED
  BY <1>1, FS_EmptySet DEF ResultInv

(* The projects counted are finitely many.                                 *)
LEMMA CollectedFinite == IsFiniteSet(Collected)
<1>1. IsFiniteSet(Projects)
  BY FS_Interval, NetworkAssumption DEF Projects
<1> QED
  BY <1>1, FS_Subset DEF Collected

(* What has been counted stays counted.                                    *)
LEMMA SameCollected ==
    ASSUME NetworkInv, ResultInv, [Next]_vars, Collected' = Collected,
           UNCHANGED <<received, errs>>
    PROVE  /\ received' = Cardinality(Collected')
           /\ errs' = {p \in Collected' : status'[p] = "failed"}
<1>1. \A p \in Collected : status'[p] = status[p]
  BY FetchIsFinal DEF Collected
<1> QED
  BY <1>1 DEF ResultInv

(* What the feeder, the workers that exit and the return leave alone.      *)
LEMMA ElsewhereResult ==
    ASSUME NetworkInv, ResultInv, [Next]_vars,
           UNCHANGED <<jobResults, cur, status, received, errs>>,
           \A w \in Workers : wpc'[w] = "send" <=> wpc[w] = "send"
    PROVE  ResultInv'
<1>1. Unsent' = Unsent /\ Queued' = Queued
  BY DEF Unsent, Queued
<1>2. Collected' = Collected
  BY <1>1 DEF Collected
<1>3. /\ received' = Cardinality(Collected')
      /\ errs' = {p \in Collected' : status'[p] = "failed"}
  BY <1>2, SameCollected
<1> QED
  BY <1>1, <1>3 DEF ResultInv

(* A worker that begins a name has no result to send.                      *)
LEMMA TakeNameResult ==
    ASSUME NetworkInv, ResultInv, NEW w \in Workers, TakeName(w)
    PROVE  ResultInv'
<1> DEFINE h == First(IndexByName(Head(jobTasks)))
<1> USE DEF NetworkInv
<1>0. [Next]_vars
  BY DEF Next, Worker
<1>1. /\ h \in Projects /\ status[h] = "pending"
  <2>1. /\ Len(jobTasks) >= 1 /\ Len(jobTasks) \in Nat
        /\ Head(jobTasks) = jobTasks[1] /\ Head(jobTasks) \in Names
    BY TailOfTasks DEF TakeName, TypeOK
  <2>2. h \in Projects /\ NameOf[h] = Head(jobTasks)
    BY <2>1, IndexByNameFacts DEF IndexByName
  <2> QED
    BY <2>1, <2>2 DEF PendingInv
<1> HIDE DEF h
<1>2. /\ wpc[w] = "range" /\ wpc' = [wpc EXCEPT ![w] = "fetch"]
      /\ cur' = [cur EXCEPT ![w] = h]
      /\ status' = [status EXCEPT ![h] = "running"]
      /\ UNCHANGED <<jobResults, received, errs>>
  BY DEF TakeName, BeginFetch, mainVars, h
<1>3. /\ \A v \in Workers : wpc'[v] = "send" <=> wpc[v] = "send"
      /\ \A v \in Workers : v # w => cur'[v] = cur[v]
      /\ \A p \in Projects : p # h => status'[p] = status[p]
      /\ status'[h] = "running"
  BY <1>1, <1>2 DEF TypeOK
<1>4. Unsent' = Unsent /\ Queued' = Queued
  BY <1>2, <1>3 DEF Unsent, Queued
<1>5. Collected' = Collected
  BY <1>1, <1>3, <1>4 DEF Collected
<1>6. /\ received' = Cardinality(Collected')
      /\ errs' = {p \in Collected' : status'[p] = "failed"}
  BY <1>0, <1>2, <1>5, SameCollected
<1>7. \A v \in Workers : wpc'[v] = "send" => status'[cur'[v]] \in {"ok", "failed"}
  BY <1>1, <1>2, <1>3 DEF ResultInv, BusyInv, Busy
<1>8. \A i \in 1..Len(jobResults) : status'[jobResults[i]] = status[jobResults[i]]
  <2> SUFFICES ASSUME NEW i \in 1..Len(jobResults)
               PROVE  status'[jobResults[i]] = status[jobResults[i]]
    OBVIOUS
  <2>1. jobResults[i] \in Projects
    BY ElementOfSeq DEF TypeOK
  <2> QED
    BY <2>1, <1>1, <1>3 DEF ResultInv
<1> QED
  BY <1>2, <1>4, <1>6, <1>7, <1>8 DEF ResultInv

(* The end of a fetch: its result is with the worker.                      *)
LEMMA EndFetchResult ==
    ASSUME NetworkInv, ResultInv, NEW w \in Workers, EndFetch(w)
    PROVE  ResultInv'
<1> DEFINE h == cur[w]
<1> USE DEF NetworkInv
<1>0. [Next]_vars
  BY DEF Next, Worker
<1>1. h \in Projects /\ status[h] = "running"
  BY DEF EndFetch, BusyInv, Busy
<1>2. PICK r \in {"ok", "failed"} : status' = [status EXCEPT ![h] = r]
  BY DEF EndFetch
<1>3. /\ wpc[w] = "fetch" /\ wpc' = [wpc EXCEPT ![w] = "send"]
      /\ UNCHANGED <<cur, jobResults, received, errs>>
  BY DEF EndFetch, mainVars
<1>4. /\ \A v \in Workers : v # w => wpc'[v] = wpc[v]
      /\ wpc'[w] = "send"
      /\ \A p \in Projects : p # h => status'[p] = status[p]
      /\ status'[h] = r
  BY <1>1, <1>2, <1>3 DEF TypeOK
<1>5. /\ Queued' = Queued
      /\ Unsent' = Unsent \cup {h}
  BY <1>1, <1>3, <1>4 DEF Unsent, Queued
<1>6. Collected' = Collected
  BY <1>1, <1>4, <1>5 DEF Collected
<1>7. /\ received' = Cardinality(Collected')
      /\ errs' = {p \in Collected' : status'[p] = "failed"}
  BY <1>0, <1>3, <1>6, SameCollected
<1>8. \A v \in Workers : wpc'[v] = "send" => status'[cur'[v]] \in {"ok", "failed"}
  BY <1>1, <1>3, <1>4 DEF ResultInv, BusyInv, Busy
<1>9. \A i \in 1..Len(jobResults) :
         status'[jobResults[i]] = status[jobResults[i]] /\ jobResults[i] # h
  <2> SUFFICES ASSUME NEW i \in 1..Len(jobResults)
               PROVE  status'[jobResults[i]] = status[jobResults[i]] /\ jobResults[i] # h
    OBVIOUS
  <2>1. jobResults[i] \in Projects
    BY ElementOfSeq DEF TypeOK
  <2> QED
    BY <2>1, <1>1, <1>4 DEF ResultInv
<1> QED
  BY <1>3, <1>5, <1>7, <1>8, <1>9 DEF ResultInv

(* A result goes from the worker to the channel, whatever the worker does  *)
(* next.                                                                   *)
LEMMA SendResultResult ==
    ASSUME NetworkInv, ResultInv, NEW w \in Workers, SendResult(w)
    PROVE  ResultInv'
<1> DEFINE h == cur[w]
<1> USE DEF NetworkInv
<1>0. [Next]_vars
  BY DEF Next, Worker
<1>1. /\ wpc[w] = "send" /\ h \in Projects /\ status[h] \in {"ok", "failed"}
      /\ jobResults' = Append(jobResults, h)
      /\ UNCHANGED <<received, errs>>
  BY DEF SendResult, BusyInv, Busy, ResultInv, mainVars
<1>2. wpc'[w] # "send" /\ \A v \in Workers : v # w => wpc'[v] = wpc[v] /\ cur'[v] = cur[v]
  BY DEF SendResult, BeginFetch, TypeOK
<1>3. \A p \in Projects : \/ status'[p] = status[p]
                          \/ status[p] = "pending" /\ status'[p] = "running"
  <2>1. CASE todo[w] = {}
    BY <2>1 DEF SendResult
  <2>2. CASE todo[w] # {}
    <3>1. First(todo[w]) \in todo[w]
      BY <2>2, FirstIsFirst DEF TypeOK
    <3>2. First(todo[w]) \in Projects /\ status[First(todo[w])] = "pending"
      BY <3>1 DEF BusyInv, TypeOK
    <3> QED
      BY <2>2, <3>2 DEF SendResult, BeginFetch, TypeOK
  <2> QED
    BY <2>1, <2>2
<1>4. /\ Len(jobResults) \in Nat /\ Len(jobResults') = Len(jobResults) + 1
      /\ \A i \in 1..Len(jobResults) : jobResults'[i] = jobResults[i] /\ jobResults[i] \in Projects
      /\ jobResults'[Len(jobResults) + 1] = h
  BY <1>1, AppendProperties, LenProperties, ElementOfSeq DEF TypeOK
<1>5. \A v \in Workers : v # w /\ wpc[v] = "send" => cur[v] # h
  BY <1>1 DEF OneWorkerPerName, Busy
<1>6. h \in Unsent /\ Unsent' = Unsent \ {h}
  BY <1>1, <1>2, <1>5 DEF Unsent
<1>7. Queued' = Queued \cup {h}
  <2>1. ASSUME NEW p \in Projects
        PROVE  p \in Queued' <=> p \in Queued \cup {h}
    <3>1. p \in Queued \cup {h} => p \in Queued'
      BY <1>4 DEF Queued
    <3>2. p \in Queued' => p \in Queued \cup {h}
      BY <1>4 DEF Queued
    <3> QED
      BY <3>1, <3>2
  <2> QED
    BY <1>1, <2>1 DEF Queued
<1>8. Collected' = Collected
  <2>1. ASSUME NEW p \in Projects
        PROVE  p \in Collected' <=> p \in Collected
    BY <1>3, <1>6, <1>7 DEF Collected
  <2> QED
    BY <2>1 DEF Collected
<1>9. /\ received' = Cardinality(Collected')
      /\ errs' = {p \in Collected' : status'[p] = "failed"}
  BY <1>0, <1>1, <1>8, SameCollected
<1>10. \A v \in Workers : wpc'[v] = "send" => status'[cur'[v]] \in {"ok", "failed"}
  <2> SUFFICES ASSUME NEW v \in Workers, wpc'[v] = "send"
               PROVE  status'[cur'[v]] \in {"ok", "failed"}
    OBVIOUS
  <2>1. wpc[v] = "send" /\ cur'[v] = cur[v] /\ cur[v] \in Projects
    BY <1>2 DEF BusyInv, Busy
  <2> QED
    BY <2>1, <1>3 DEF ResultInv
<1>11. ASSUME NEW i \in 1..Len(jobResults')
       PROVE  /\ status'[jobResults'[i]] \in {"ok", "failed"} /\ jobResults'[i] \notin Unsent'
              /\ \A j \in 1..Len(jobResults') : jobResults'[i] = jobResults'[j] => i = j
  <2>1. \A j \in 1..Len(jobResults) : jobResults[j] # h
    BY <1>6 DEF ResultInv
  <2>2. CASE i = Len(jobResults) + 1
    <3>1. status'[h] = status[h]
      BY <1>1, <1>3
    <3>2. \A j \in 1..Len(jobResults') : jobResults'[j] = h => j = i
      BY <1>4, <2>1, <2>2
    <3> QED
      BY <2>2, <3>1, <3>2, <1>1, <1>4, <1>6
  <2>3. CASE i \in 1..Len(jobResults)
    <3>1. jobResults'[i] = jobResults[i] /\ jobResults[i] # h /\ jobResults[i] \in Projects
      BY <2>1, <2>3, <1>4
    <3>2. status'[jobResults'[i]] \in {"ok", "failed"}
      BY <2>3, <3>1, <1>3 DEF ResultInv
    <3>3. jobResults'[i] \notin Unsent'
      BY <2>3, <3>1, <1>6 DEF ResultInv
    <3>4. \A j \in 1..Len(jobResults') : jobResults'[i] = jobResults'[j] => i = j
      BY <1>4, <2>3, <3>1 DEF ResultInv
    <3> QED
      BY <3>2, <3>3, <3>4
  <2> QED
    BY <2>2, <2>3, <1>4
<1> QED
  BY <1>9, <1>10, <1>11 DEF ResultInv

(* The main goroutine counts one result more.                              *)
LEMMA CollectResult ==
    ASSUME NetworkInv, ResultInv, Collect
    PROVE  ResultInv'
<1> DEFINE h == Head(jobResults)
<1> USE DEF NetworkInv
<1>1. /\ Len(jobResults) \in Nat /\ Len(jobResults) >= 1
      /\ h = jobResults[1] /\ h \in Projects
      /\ Len(jobResults') = Len(jobResults) - 1
      /\ \A i \in 1..Len(jobResults') :
            i + 1 \in 1..Len(jobResults) /\ jobResults'[i] = jobResults[i + 1]
  <2>1. jobResults \in Seq(Projects) /\ jobResults # <<>> /\ jobResults' = Tail(jobResults)
    BY DEF Collect, TypeOK
  <2>2. Len(jobResults) \in Nat /\ Len(jobResults) >= 1
    BY <2>1, EmptySeq, LenProperties
  <2> QED
    BY <2>1, <2>2, HeadTailProperties
<1>2. UNCHANGED <<wpc, cur, status>> /\ received' = received + 1
      /\ errs' = IF status[h] = "failed" THEN errs \cup {h} ELSE errs
  BY DEF Collect, workerVars
<1>3. /\ status[h] \in {"ok", "failed"} /\ h \notin Unsent /\ h \in Queued
      /\ \A i \in 1..Len(jobResults) : jobResults[i] = h => i = 1
  BY <1>1 DEF ResultInv, Queued
<1>4. Unsent' = Unsent
  BY <1>2 DEF Unsent
<1>5. h \notin Queued'
  BY <1>1, <1>3 DEF Queued
<1>6. ASSUME NEW p \in Projects, p # h
      PROVE  p \in Queued' <=> p \in Queued
  <2>1. p \in Queued' => p \in Queued
    BY <1>1 DEF Queued
  <2>2. ASSUME p \in Queued
        PROVE  p \in Queued'
    <3>1. PICK i \in 1..Len(jobResults) : jobResults[i] = p
      BY <2>2 DEF Queued
    <3>2. i # 1 /\ i - 1 \in 1..Len(jobResults') /\ (i - 1) + 1 = i
      BY <1>1, <1>6, <3>1
    <3> QED
      BY <1>1, <3>1, <3>2 DEF Queued
  <2> QED
    BY <2>1, <2>2
<1>7. Collected' = Collected \cup {h} /\ h \notin Collected
  <2>1. ASSUME NEW p \in Projects
        PROVE  p \in Collected' <=> p \in Collected \cup {h}
    BY <1>2, <1>3, <1>4, <1>5, <1>6 DEF Collected
  <2>2. h \notin Collected
    BY <1>3 DEF Collected
  <2> QED
    BY <1>1, <2>1, <2>2 DEF Collected
<1>8. IsFiniteSet(Collected)
  BY CollectedFinite
<1>9. received' = Cardinality(Collected')
  BY <1>2, <1>7, <1>8, FS_AddElement DEF ResultInv
<1>10. errs' = {p \in Collected' : status'[p] = "failed"}
  BY <1>2, <1>7 DEF ResultInv
<1>11. \A i \in 1..Len(jobResults') :
          /\ status'[jobResults'[i]] \in {"ok", "failed"} /\ jobResults'[i] \notin Unsent'
          /\ \A j \in 1..Len(jobResults') : jobResults'[i] = jobResults'[j] => i = j
  BY <1>1, <1>2, <1>4 DEF ResultInv
<1> QED
  BY <1>2, <1>9, <1>10, <1>11 DEF ResultInv

(* Every step keeps both invariants.                                       *)
LEMMA NextResult ==
    ASSUME NetworkInv, ResultInv, [Next]_vars
    PROVE  ResultInv'
<1>1. ASSUME \/ \E n \in Names : Feed(n)
             \/ CloseTasks \/ Return \/ UNCHANGED vars
             \/ \E w \in Workers : WorkerExit(w)
      PROVE  ResultInv'
  <2>1. UNCHANGED <<jobResults, cur, status, received, errs>>
    BY <1>1 DEF Feed, CloseTasks, Return, WorkerExit, workerVars, mainVars, vars
  <2>2. \A w \in Workers : wpc'[w] = "send" <=> wpc[w] = "send"
    BY <1>1 DEF Feed, CloseTasks, Return, WorkerExit, workerVars, vars, NetworkInv, TypeOK
  <2> QED
    BY <2>1, <2>2, ElsewhereResult
<1> QED
  BY <1>1, TakeNameResult, EndFetchResult, SendResultResult, CollectResult DEF Next, Worker

(* With one project per name there are as many names as projects.          *)
LEMMA AsManyNames ==
    ASSUME DistinctNames
    PROVE  Cardinality(Names) = Cardinality(Projects)
<1>1. NameOf \in Bijection(Projects, Names)
  BY NetworkAssumption DEF DistinctNames, Bijection, Injection, Surjection, IsInjective
<1>2. IsFiniteSet(Projects)
  BY FS_Interval, NetworkAssumption DEF Projects
<1> QED
  BY <1>1, <1>2, FS_Bijection DEF ExistsBijection

(* The main goroutine returns when all fetches are over.                   *)
LEMMA ReturnReturns ==
    ASSUME DistinctNames, NetworkInv, ResultInv, Return
    PROVE  Pool!PoolNext
<1> USE DEF NetworkInv
<1>1. Collected = Projects
  <2>1. Cardinality(Collected) = Cardinality(Projects)
    BY AsManyNames DEF Return, ResultInv
  <2>2. IsFiniteSet(Projects) /\ Collected \subseteq Projects
    BY FS_Interval, NetworkAssumption DEF Projects, Collected
  <2> QED
    BY <2>1, <2>2, FS_Subset
<1>2. \A p \in Projects : status[p] \in {"ok", "failed"}
  BY <1>1 DEF Collected
<1>3. errs = {p \in Projects : status[p] = "failed"}
  BY <1>1 DEF ResultInv
<1>4. Pool!Return
  BY <1>2, <1>3 DEF Return, Pool!Return, Pool!Finished
<1> QED
  BY <1>4 DEF Pool!PoolNext

(* A fetch begins beside none of its name.                                 *)
LEMMA BeginStarts ==
    ASSUME NetworkInv, [Next]_vars, NEW p \in Projects, status[p] = "pending",
           status' = [status EXCEPT ![p] = "running"], UNCHANGED result
    PROVE  Pool!PoolNext
<1>1. \A c \in IndexByName(NameOf[p]) \ {p} : status[c] # "running"
  <2> SUFFICES ASSUME NEW c \in Projects, NameOf[c] = NameOf[p], c # p, status[c] = "running"
               PROVE  FALSE
    BY DEF IndexByName
  <2>1. status'[p] = "running" /\ status'[c] = "running"
    BY DEF NetworkInv, TypeOK
  <2>2. NetworkInv'
    BY NextInv
  <2>3. SharedRepositoryExclusive'
    BY <2>2, ExclusiveByInv, PTL
  <2> QED
    BY <2>1, <2>3 DEF SharedRepositoryExclusive
<1>2. Pool!Start(p)
  BY <1>1 DEF Pool!Start
<1> QED
  BY <1>2 DEF Pool!PoolNext

(* When names are distinct, NetworkHalf is a TaskPool in all that it does:  *)
(* a fetch runs once, and the caller is told once, after the last fetch, of *)
(* a failure exactly when there was one.                                    *)
THEOREM ImplementsPool ==
    ASSUME DistinctNames
    PROVE  Spec => Pool!PoolSafe
<1>1. Init => Pool!PoolInit
  BY DEF Init, Pool!PoolInit
<1>2. ASSUME NetworkInv, ResultInv, [Next]_vars
      PROVE  [Pool!PoolNext]_Pool!poolVars
  <2> USE <1>2 DEF NetworkInv
  <2>1. ASSUME NEW w \in Workers, TakeName(w)
        PROVE  Pool!PoolNext
    <3> DEFINE h == First(IndexByName(Head(jobTasks)))
    <3>1. /\ Len(jobTasks) >= 1 /\ Len(jobTasks) \in Nat
          /\ Head(jobTasks) = jobTasks[1] /\ Head(jobTasks) \in Names
      BY <2>1, TailOfTasks DEF TakeName, TypeOK
    <3>2. h \in Projects /\ NameOf[h] = Head(jobTasks)
      BY <3>1, IndexByNameFacts DEF IndexByName
    <3>3. status[h] = "pending"
      BY <3>1, <3>2 DEF PendingInv
    <3>4. status' = [status EXCEPT ![h] = "running"] /\ UNCHANGED result
      BY <2>1 DEF TakeName, BeginFetch, mainVars
    <3> HIDE DEF h
    <3> QED
      BY <3>2, <3>3, <3>4, BeginStarts
  <2>2. ASSUME NEW w \in Workers, SendResult(w), todo[w] # {}
        PROVE  Pool!PoolNext
    <3> DEFINE h == First(todo[w])
    <3>1. h \in todo[w]
      BY <2>2, FirstIsFirst DEF TypeOK
    <3>2. h \in Projects /\ status[h] = "pending"
      BY <3>1 DEF BusyInv, TypeOK
    <3>3. status' = [status EXCEPT ![h] = "running"] /\ UNCHANGED result
      BY <2>2 DEF SendResult, BeginFetch, mainVars
    <3> HIDE DEF h
    <3> QED
      BY <3>2, <3>3, BeginStarts
  <2>3. ASSUME NEW w \in Workers, EndFetch(w)
        PROVE  Pool!PoolNext
    <3>1. cur[w] \in Projects /\ status[cur[w]] = "running"
      BY <2>3 DEF EndFetch, BusyInv, Busy
    <3>2. Pool!Finish(cur[w])
      BY <2>3, <3>1 DEF EndFetch, Pool!Finish, Pool!Finished, mainVars
    <3> QED
      BY <3>1, <3>2 DEF Pool!PoolNext
  <2>4. ASSUME \/ \E n \in Names : Feed(n)
               \/ CloseTasks \/ Collect \/ UNCHANGED vars
               \/ \E w \in Workers : WorkerExit(w) \/ (SendResult(w) /\ todo[w] = {})
        PROVE  UNCHANGED <<status, result>>
    BY <2>4 DEF Feed, CloseTasks, Collect, WorkerExit, SendResult, vars, mainVars
  <2> QED
    BY <2>1, <2>2, <2>3, <2>4, ReturnReturns DEF Next, Worker, Pool!poolVars
<1> QED
  BY <1>1, <1>2, InitInv, NextInv, InitResult, NextResult, PTL DEF Spec, Pool!PoolSafe
=============================================================================
