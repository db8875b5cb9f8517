-------------------------- MODULE LocalHalfProofs ---------------------------
(***************************************************************************)
(* For any tree of projects and any number of jobs: LocalHalf never panics *)
(* (no send on a closed channel, no negative WaitGroup), checks a nested   *)
(* project out after the outer one, and reports a failed checkout although *)
(* errs is not protected by a lock.                                        *)
(***************************************************************************)
EXTENDS LocalHalf, NatSets, SequenceTheorems, FiniteSetTheorems

(* A goroutine that has subtrees to send has a first one. *)
LEMMA FirstIsFirst ==
    ASSUME NEW S, S \subseteq Projects, S # {}
    PROVE  First(S) \in S
<1>1. S \subseteq Nat
  BY LocalAssumption DEF Projects
<1> QED
  BY <1>1, LeastElement DEF First

(* The WaitGroup counts a finite set of projects. *)
LEMMA OutstandingFinite ==
    IsFiniteSet(Outstanding) /\ Cardinality(Outstanding) \in Nat
<1>1. IsFiniteSet(Projects)
  BY FS_Interval, LocalAssumption DEF Projects
<1>2. Outstanding \subseteq Projects
  BY DEF Outstanding
<1> QED
  BY <1>1, <1>2, FS_Subset, FS_CardinalityType

(* Nodes and the projects among them. *)
LEMMA NodeFacts ==
    /\ 0 \in Nodes /\ 0 \notin Projects /\ Projects \subseteq Nodes
    /\ \A t \in Nodes : t # 0 => t \in Projects
    /\ \A p \in Projects : Parent[p] \in Nodes
  BY LocalAssumption DEF Nodes, Projects

(* What taking the head of the channel leaves in it. *)
LEMMA TailOfTasks ==
    ASSUME jobTasks \in Seq(Nodes), jobTasks # <<>>
    PROVE  /\ Len(jobTasks) \in Nat /\ Len(jobTasks) >= 1
           /\ Head(jobTasks) = jobTasks[1]
           /\ Head(jobTasks) \in Nodes
           /\ Tail(jobTasks) \in Seq(Nodes)
           /\ Len(Tail(jobTasks)) = Len(jobTasks) - 1
           /\ \A i \in 1..Len(Tail(jobTasks)) :
                 i + 1 \in 1..Len(jobTasks) /\ Tail(jobTasks)[i] = jobTasks[i + 1]
<1>1. Len(jobTasks) \in Nat /\ Len(jobTasks) >= 1
  BY EmptySeq, LenProperties
<1>2. Head(jobTasks) = jobTasks[1]
  OBVIOUS
<1> QED
  BY <1>1, <1>2, HeadTailProperties

(* What a send adds to it. *)
LEMMA AppendToTasks ==
    ASSUME jobTasks \in Seq(Nodes), NEW t \in Nodes
    PROVE  /\ Append(jobTasks, t) \in Seq(Nodes)
           /\ Len(jobTasks) \in Nat
           /\ Len(Append(jobTasks, t)) = Len(jobTasks) + 1
           /\ \A i \in 1..Len(jobTasks) : Append(jobTasks, t)[i] = jobTasks[i]
           /\ Append(jobTasks, t)[Len(jobTasks) + 1] = t
           /\ \A i \in 1..(Len(jobTasks) + 1) :
                 i \in 1..Len(jobTasks) \/ i = Len(jobTasks) + 1
  BY AppendProperties, LenProperties

(* Taking the first tree leaves the queue as it should be, as long as it is *)
(* the only one whose status changes.                                       *)
LEMMA TailQueueInv ==
    ASSUME QueueInv, Len(jobTasks) \in Nat, Len(jobTasks) >= 1,
           Len(jobTasks') = Len(jobTasks) - 1,
           \A i \in 1..Len(jobTasks') :
              i + 1 \in 1..Len(jobTasks) /\ jobTasks'[i] = jobTasks[i + 1],
           \A i \in 1..Len(jobTasks) :
              jobTasks[i] # 0 /\ jobTasks[i] # jobTasks[1]
                => status'[jobTasks[i]] = status[jobTasks[i]],
           UNCHANGED <<mpc, sending>>
    PROVE  QueueInv' /\ \A i \in 1..Len(jobTasks') : jobTasks'[i] # jobTasks[1]
<1> SUFFICES ASSUME NEW i \in 1..Len(jobTasks')
             PROVE  /\ jobTasks'[i] = 0 => mpc' # "send"
                    /\ jobTasks'[i] # 0 => status'[jobTasks'[i]] = "pending"
                    /\ \A t \in Nodes : jobTasks'[i] \notin sending'[t]
                    /\ \A j \in 1..Len(jobTasks') : jobTasks'[i] = jobTasks'[j] => i = j
                    /\ jobTasks'[i] # jobTasks[1]
  BY DEF QueueInv
<1>1. /\ i + 1 \in 1..Len(jobTasks) /\ 1 \in 1..Len(jobTasks)
      /\ i + 1 # 1 /\ jobTasks'[i] = jobTasks[i + 1]
  OBVIOUS
<1>2. jobTasks'[i] # jobTasks[1]
  BY <1>1 DEF QueueInv
<1>3. /\ jobTasks'[i] = 0 => mpc' # "send"
      /\ jobTasks'[i] # 0 => status'[jobTasks'[i]] = "pending"
  BY <1>1, <1>2 DEF QueueInv
<1>4. \A t \in Nodes : jobTasks'[i] \notin sending'[t]
  BY <1>1 DEF QueueInv
<1>5. \A j \in 1..Len(jobTasks') : jobTasks'[i] = jobTasks'[j] => i = j
  BY <1>1 DEF QueueInv
<1> QED
  BY <1>2, <1>3, <1>4, <1>5

(* At the start every project is counted and no tree is anywhere. *)
LEMMA InitInv == Init => LocalInv
<1> SUFFICES ASSUME Init PROVE LocalInv
  OBVIOUS
<1> USE LocalAssumption DEF Init
<1>1. TypeOK
  <2>1. <<>> \in Seq(Nodes)
    OBVIOUS
  <2>2. tasksClosed \in BOOLEAN
    BY Zenon
  <2>3. /\ sending \in [Nodes -> SUBSET Projects]
        /\ seen \in [Workers -> SUBSET Projects]
        /\ errs \subseteq Projects
    OBVIOUS
  <2>4. /\ wpc \in [Workers -> {"range", "checkout", "append", "store", "spawn",
                                "done", "exit"}]
        /\ status \in [Projects -> {"pending", "running", "ok", "failed"}]
    OBVIOUS
  <2>5. tree \in [Workers -> Nodes]
    BY NodeFacts
  <2>6. wg \in Int
    OBVIOUS
  <2> QED
    BY <2>1, <2>2, <2>3, <2>4, <2>5, <2>6, Zenon DEF TypeOK
<1>2. HeldInv /\ OneWorkerPerTree
  BY DEF HeldInv, OneWorkerPerTree, Held
<1>3. QueueInv /\ SendingInv
  BY DEF QueueInv, SendingInv
<1>4. SpawnedInv
  BY NodeFacts DEF SpawnedInv
<1>5. CountInv
  <2>1. Outstanding = 1..N
    BY DEF Outstanding, Held, Projects
  <2>2. Cardinality(1..N) = N
    BY FS_Interval
  <2> QED
    BY <2>1, <2>2 DEF CountInv
<1>6. ErrsInv
  BY DEF ErrsInv
<1>7. ReturnedInv
  BY DEF ReturnedInv
<1> QED
  BY <1>1, <1>2, <1>3, <1>4, <1>5, <1>6, <1>7 DEF LocalInv

(* A worker takes the root tree ... *)
LEMMA TakeRootInv ==
    ASSUME LocalInv, NEW w \in Workers, TakeTree(w), Head(jobTasks) = 0
    PROVE  LocalInv'
<1> USE DEF LocalInv
<1>0. /\ Len(jobTasks) \in Nat /\ Len(jobTasks) >= 1
      /\ jobTasks[1] = 0
      /\ jobTasks' \in Seq(Nodes)
      /\ Len(jobTasks') = Len(jobTasks) - 1
      /\ \A i \in 1..Len(jobTasks') :
            i + 1 \in 1..Len(jobTasks) /\ jobTasks'[i] = jobTasks[i + 1]
  BY TailOfTasks DEF TakeTree, TypeOK
<1>1. /\ wpc[w] = "range"
      /\ wpc' = [wpc EXCEPT ![w] = "spawn"]
      /\ tree' = [tree EXCEPT ![w] = 0]
      /\ UNCHANGED <<status, sending, seen, wg, errs, mpc, result, tasksClosed>>
  BY DEF TakeTree, mainVars
<1>2. /\ mpc # "send"
      /\ \A i \in 1..Len(jobTasks') : jobTasks'[i] # 0
  BY <1>0 DEF QueueInv
<1>3. \A v \in Workers : Held(v) => v # w /\ tree[v] # 0
  BY <1>0, <1>1 DEF HeldInv, Held
<1>4. /\ wpc'[w] = "spawn" /\ tree'[w] = 0
      /\ \A v \in Workers : v # w => wpc'[v] = wpc[v] /\ tree'[v] = tree[v]
  BY <1>1 DEF TypeOK
<1>5. Held(w)' /\ \A v \in Workers : v # w => Held(v)' = Held(v)
  BY <1>4 DEF Held
<1>6. Outstanding' = Outstanding
  BY <1>1, <1>3, <1>4, <1>5, NodeFacts DEF Outstanding
<1>11. TypeOK'
  BY <1>0, <1>1, NodeFacts DEF TypeOK
<1>12. HeldInv'
  <2> SUFFICES ASSUME NEW v \in Workers
               PROVE  (/\ Held(v) /\ wpc[v] # "spawn" => tree[v] # 0
                       /\ Held(v) /\ tree[v] = 0 =>
                             mpc # "send" /\ \A i \in 1..Len(jobTasks) : jobTasks[i] # 0
                       /\ wpc[v] = "checkout" => status[tree[v]] = "running"
                       /\ wpc[v] \in {"append", "store"} => status[tree[v]] = "failed"
                       /\ wpc[v] \in {"spawn", "done"} /\ tree[v] # 0
                             => status[tree[v]] \in {"ok", "failed"})'
    BY DEF HeldInv
  <2>1. CASE v = w
    BY <2>1, <1>1, <1>2, <1>4
  <2>2. CASE v # w
    BY <2>2, <1>1, <1>2, <1>4, <1>5 DEF HeldInv
  <2> QED
    BY <2>1, <2>2
<1>13. OneWorkerPerTree'
  BY <1>3, <1>4, <1>5 DEF OneWorkerPerTree
<1>14. QueueInv' /\ SendingInv'
  BY <1>0, <1>1, TailQueueInv DEF SendingInv
<1>15. SpawnedInv'
  <2> SUFFICES ASSUME NEW p \in Projects,
                      (\/ status[p] # "pending"
                       \/ p \in sending[Parent[p]]
                       \/ \E i \in 1..Len(jobTasks) : jobTasks[i] = p)'
               PROVE  Spawned(Parent[p])'
    BY DEF SpawnedInv
  <2>1. Spawned(Parent[p])
    BY <1>0, <1>1 DEF SpawnedInv
  <2>2. Parent[p] # 0
    BY <2>1, <1>0 DEF Spawned
  <2> QED
    BY <2>1, <2>2, <1>0, <1>1, <1>4 DEF Spawned
<1>16. CountInv' /\ ReturnedInv'
  BY <1>1, <1>6 DEF CountInv, ReturnedInv
<1>17. ErrsInv'
  BY <1>1, <1>4 DEF ErrsInv
<1> QED
  BY <1>11, <1>12, <1>13, <1>14, <1>15, <1>16, <1>17

(* ... or a project, which was pending until now. *)
LEMMA TakeProjectInv ==
    ASSUME LocalInv, NEW w \in Workers, TakeTree(w), Head(jobTasks) # 0
    PROVE  LocalInv'
<1> DEFINE h == Head(jobTasks)
<1> USE DEF LocalInv
<1>0. /\ Len(jobTasks) \in Nat /\ Len(jobTasks) >= 1
      /\ jobTasks[1] = h /\ h \in Projects
      /\ jobTasks' \in Seq(Nodes)
      /\ Len(jobTasks') = Len(jobTasks) - 1
      /\ \A i \in 1..Len(jobTasks') :
            i + 1 \in 1..Len(jobTasks) /\ jobTasks'[i] = jobTasks[i + 1]
  BY TailOfTasks, NodeFacts DEF TakeTree, TypeOK
<1>1. /\ wpc[w] = "range"
      /\ wpc' = [wpc EXCEPT ![w] = "checkout"]
      /\ tree' = [tree EXCEPT ![w] = h]
      /\ status' = [status EXCEPT ![h] = "running"]
      /\ UNCHANGED <<sending, seen, wg, errs, mpc, result, tasksClosed>>
  BY DEF TakeTree, mainVars
<1>2. status[h] = "pending" /\ \A t \in Nodes : h \notin sending[t]
  BY <1>0, NodeFacts DEF QueueInv
<1> HIDE DEF h
<1>3. \A v \in Workers : Held(v) => v # w /\ tree[v] # h
  BY <1>0, <1>1, <1>2, NodeFacts DEF HeldInv, Held
<1>4. /\ wpc'[w] = "checkout" /\ tree'[w] = h
      /\ \A v \in Workers : v # w => wpc'[v] = wpc[v] /\ tree'[v] = tree[v]
  BY <1>1 DEF TypeOK
<1>5. Held(w)' /\ \A v \in Workers : v # w => Held(v)' = Held(v)
  BY <1>4 DEF Held
<1>6. /\ status'[h] = "running"
      /\ \A q \in Projects : q # h => status'[q] = status[q]
  BY <1>0, <1>1 DEF TypeOK
<1>7. Outstanding' = Outstanding
  BY <1>0, <1>2, <1>3, <1>4, <1>5, <1>6 DEF Outstanding
<1>8. \A i \in 1..Len(jobTasks) : jobTasks[i] # 0 => jobTasks[i] \in Projects
  BY NodeFacts DEF TypeOK
<1>11. TypeOK'
  BY <1>0, <1>1, NodeFacts DEF TypeOK
<1>12. HeldInv'
  <2> SUFFICES ASSUME NEW v \in Workers
               PROVE  (/\ Held(v) /\ wpc[v] # "spawn" => tree[v] # 0
                       /\ Held(v) /\ tree[v] = 0 =>
                             mpc # "send" /\ \A i \in 1..Len(jobTasks) : jobTasks[i] # 0
                       /\ wpc[v] = "checkout" => status[tree[v]] = "running"
                       /\ wpc[v] \in {"append", "store"} => status[tree[v]] = "failed"
                       /\ wpc[v] \in {"spawn", "done"} /\ tree[v] # 0
                             => status[tree[v]] \in {"ok", "failed"})'
    BY DEF HeldInv
  <2>1. CASE v = w
    BY <2>1, <1>0, <1>4, <1>6, NodeFacts
  <2>2. CASE v # w
    <3>1. Held(v) /\ tree[v] # 0 => status'[tree[v]] = status[tree[v]]
      BY <1>3, <1>6, NodeFacts DEF TypeOK
    <3>2. Held(v) /\ tree[v] = 0 => \A i \in 1..Len(jobTasks') : jobTasks'[i] # 0
      BY <1>0 DEF HeldInv
    <3> QED
      BY <2>2, <3>1, <3>2, <1>1, <1>4, <1>5 DEF HeldInv, Held
  <2> QED
    BY <2>1, <2>2
<1>13. OneWorkerPerTree'
  BY <1>3, <1>4, <1>5 DEF OneWorkerPerTree
<1>14. QueueInv'
  BY <1>0, <1>1, <1>6, <1>8, TailQueueInv
<1>15. SendingInv'
  BY <1>1, <1>2, <1>6 DEF SendingInv, TypeOK
<1>16. SpawnedInv'
  <2> SUFFICES ASSUME NEW p \in Projects,
                      (\/ status[p] # "pending"
                       \/ p \in sending[Parent[p]]
                       \/ \E i \in 1..Len(jobTasks) : jobTasks[i] = p)'
               PROVE  Spawned(Parent[p])'
    BY DEF SpawnedInv
  <2>1. Spawned(Parent[p])
    <3>1. CASE p = h
      BY <3>1, <1>0 DEF SpawnedInv
    <3>2. CASE p # h
      BY <3>2, <1>0, <1>1, <1>6 DEF SpawnedInv
    <3> QED
      BY <3>1, <3>2
  <2>2. Parent[p] # h
    BY <2>1, <1>0 DEF Spawned
  <2>3. Parent[p] # 0 => status'[Parent[p]] = status[Parent[p]]
    BY <2>2, <1>6, NodeFacts
  <2> QED
    BY <2>1, <2>2, <2>3, <1>0, <1>1, <1>4 DEF Spawned
<1>17. CountInv' /\ ReturnedInv'
  BY <1>1, <1>7 DEF CountInv, ReturnedInv
<1>18. ErrsInv'
  <2>1. \A q \in Projects : status'[q] = "failed" <=> status[q] = "failed"
    BY <1>2, <1>6
  <2>2. \A v \in Workers : wpc[v] \in {"append", "store"} =>
            wpc'[v] = wpc[v] /\ tree'[v] = tree[v]
    BY <1>1, <1>4
  <2> QED
    BY <2>1, <2>2, <1>1 DEF ErrsInv, TypeOK
<1> QED
  BY <1>11, <1>12, <1>13, <1>14, <1>15, <1>16, <1>17, <1>18

(* A worker that leaves has no tree. *)
LEMMA WorkerExitInv ==
    ASSUME LocalInv, NEW w \in Workers, WorkerExit(w)
    PROVE  LocalInv'
<1> USE DEF LocalInv
<1>1. /\ wpc[w] = "range" /\ wpc' = [wpc EXCEPT ![w] = "exit"]
      /\ UNCHANGED <<jobTasks, sending, tree, seen, status, wg, errs, mpc, result, tasksClosed>>
  BY DEF WorkerExit, mainVars
<1>2. /\ wpc'[w] = "exit"
      /\ \A v \in Workers : v # w => wpc'[v] = wpc[v]
      /\ \A v \in Workers : Held(v)' = Held(v)
  BY <1>1 DEF TypeOK, Held
<1>3. Outstanding' = Outstanding
  BY <1>1, <1>2 DEF Outstanding
<1>4. TypeOK'
  BY <1>1 DEF TypeOK
<1>5. HeldInv' /\ OneWorkerPerTree'
  BY <1>1, <1>2 DEF HeldInv, OneWorkerPerTree
<1>6. QueueInv' /\ SendingInv'
  BY <1>1 DEF QueueInv, SendingInv
<1>7. SpawnedInv'
  BY <1>1, <1>2 DEF SpawnedInv, Spawned
<1>8. CountInv' /\ ReturnedInv'
  BY <1>1, <1>3 DEF CountInv, ReturnedInv
<1>9. ErrsInv'
  BY <1>1, <1>2 DEF ErrsInv
<1> QED
  BY <1>4, <1>5, <1>6, <1>7, <1>8, <1>9

(* The end of a checkout makes its status final. *)
LEMMA EndCheckoutInv ==
    ASSUME LocalInv, NEW w \in Workers, EndCheckout(w)
    PROVE  LocalInv'
<1> DEFINE h == tree[w]
<1> USE DEF LocalInv
<1>0. PICK r \in {"ok", "failed"} :
         /\ status' = [status EXCEPT ![h] = r]
         /\ wpc' = [wpc EXCEPT ![w] = IF r = "ok" THEN "spawn" ELSE "append"]
  BY DEF EndCheckout
<1>1. /\ wpc[w] = "checkout"
      /\ UNCHANGED <<jobTasks, sending, tree, seen, wg, errs, mpc, result, tasksClosed>>
  BY DEF EndCheckout, mainVars
<1>2. h \in Projects /\ status[h] = "running" /\ Held(w)
  BY <1>1, NodeFacts DEF HeldInv, Held, TypeOK
<1>3. \A v \in Workers : v # w /\ Held(v) => tree[v] # h
  BY <1>2 DEF OneWorkerPerTree
<1>4. tree[w] = h
  OBVIOUS
<1> HIDE DEF h
<1>5. /\ wpc'[w] = IF r = "ok" THEN "spawn" ELSE "append"
      /\ \A v \in Workers : v # w => wpc'[v] = wpc[v]
  BY <1>0 DEF TypeOK
<1>6. \A v \in Workers : Held(v)' = Held(v)
  BY <1>2, <1>5 DEF Held
<1>7. /\ status'[h] = r
      /\ \A q \in Projects : q # h => status'[q] = status[q]
  BY <1>0, <1>2 DEF TypeOK
<1>8. Outstanding' = Outstanding
  BY <1>1, <1>2, <1>4, <1>6, <1>7 DEF Outstanding
<1>9. \A i \in 1..Len(jobTasks) :
         jobTasks[i] # h /\ (jobTasks[i] # 0 => jobTasks[i] \in Projects)
  BY <1>2, NodeFacts DEF QueueInv, TypeOK
<1>11. TypeOK'
  BY <1>0, <1>1, <1>2 DEF TypeOK
<1>12. HeldInv'
  <2> SUFFICES ASSUME NEW v \in Workers
               PROVE  (/\ Held(v) /\ wpc[v] # "spawn" => tree[v] # 0
                       /\ Held(v) /\ tree[v] = 0 =>
                             mpc # "send" /\ \A i \in 1..Len(jobTasks) : jobTasks[i] # 0
                       /\ wpc[v] = "checkout" => status[tree[v]] = "running"
                       /\ wpc[v] \in {"append", "store"} => status[tree[v]] = "failed"
                       /\ wpc[v] \in {"spawn", "done"} /\ tree[v] # 0
                             => status[tree[v]] \in {"ok", "failed"})'
    BY DEF HeldInv
  <2>1. CASE v = w
    BY <2>1, <1>1, <1>2, <1>4, <1>5, <1>7, NodeFacts
  <2>2. CASE v # w
    <3>1. Held(v) /\ tree[v] # 0 => status'[tree[v]] = status[tree[v]]
      BY <2>2, <1>3, <1>7, NodeFacts DEF TypeOK
    <3> QED
      BY <2>2, <3>1, <1>1, <1>5, <1>6 DEF HeldInv, Held
  <2> QED
    BY <2>1, <2>2
<1>13. OneWorkerPerTree'
  BY <1>1, <1>6 DEF OneWorkerPerTree
<1>14. QueueInv'
  BY <1>1, <1>7, <1>9 DEF QueueInv
<1>15. SendingInv'
  BY <1>1, <1>2, <1>7 DEF SendingInv, TypeOK
<1>16. SpawnedInv'
  <2> SUFFICES ASSUME NEW p \in Projects,
                      (\/ status[p] # "pending"
                       \/ p \in sending[Parent[p]]
                       \/ \E i \in 1..Len(jobTasks) : jobTasks[i] = p)'
               PROVE  Spawned(Parent[p])'
    BY DEF SpawnedInv
  <2>1. Spawned(Parent[p])
    BY <1>1, <1>2, <1>7 DEF SpawnedInv
  <2>2. Parent[p] # h
    BY <2>1, <1>2, NodeFacts DEF Spawned
  <2>3. Parent[p] # 0 => status'[Parent[p]] = status[Parent[p]]
    BY <2>2, <1>7, NodeFacts
  <2> QED
    BY <2>1, <2>2, <2>3, <1>1, <1>4, <1>5 DEF Spawned
<1>17. CountInv' /\ ReturnedInv'
  BY <1>1, <1>8 DEF CountInv, ReturnedInv
<1>18. ErrsInv'
  <2>1. /\ \A q \in errs' : status'[q] = "failed"
        /\ \A v \in Workers : \A q \in seen'[v] : status'[q] = "failed"
    BY <1>1, <1>2, <1>7 DEF ErrsInv, TypeOK
  <2>2. ASSUME NEW q \in Projects, status'[q] = "failed"
        PROVE  errs' # {} \/ \E v \in Workers : wpc'[v] \in {"append", "store"} /\ tree'[v] = q
    <3>1. CASE q = h
      BY <3>1, <2>2, <1>1, <1>4, <1>5, <1>7
    <3>2. CASE q # h
      <4>1. status[q] = "failed"
        BY <3>2, <2>2, <1>7
      <4>2. CASE errs # {}
        BY <4>2, <1>1
      <4>3. ASSUME NEW v \in Workers, wpc[v] \in {"append", "store"}, tree[v] = q
            PROVE  wpc'[v] \in {"append", "store"} /\ tree'[v] = q
        BY <4>3, <3>2, <1>1, <1>4, <1>5
      <4> QED
        BY <4>1, <4>2, <4>3 DEF ErrsInv
    <3> QED
      BY <3>1, <3>2
  <2> QED
    BY <2>1, <2>2 DEF ErrsInv
<1> QED
  BY <1>11, <1>12, <1>13, <1>14, <1>15, <1>16, <1>17, <1>18

(* The two halves of the append to errs: what was read holds only failures, *)
(* and what is stored is not empty.                                         *)
LEMMA AppendInv ==
    ASSUME LocalInv, NEW w \in Workers, ReadErrs(w) \/ WriteErrs(w)
    PROVE  LocalInv'
<1> USE DEF LocalInv
<1>1. UNCHANGED <<jobTasks, sending, tree, status, wg, mpc, result, tasksClosed>>
  BY DEF ReadErrs, WriteErrs, mainVars
<1>2. /\ wpc[w] \in {"append", "store"} /\ Held(w)
      /\ wpc' \in {[wpc EXCEPT ![w] = "store"], [wpc EXCEPT ![w] = "spawn"]}
  BY DEF ReadErrs, WriteErrs, Held
<1>3. tree[w] \in Projects /\ status[tree[w]] = "failed"
  BY <1>2, NodeFacts DEF HeldInv, TypeOK
<1>4. /\ wpc'[w] \in {"store", "spawn"}
      /\ \A v \in Workers : v # w => wpc'[v] = wpc[v]
  BY <1>2 DEF TypeOK
<1>5. \A v \in Workers : Held(v)' = Held(v)
  BY <1>2, <1>4 DEF Held
<1>6. Outstanding' = Outstanding
  BY <1>1, <1>5 DEF Outstanding
<1>7. /\ errs' \subseteq Projects /\ seen' \in [Workers -> SUBSET Projects]
      /\ \A q \in errs' : status[q] = "failed"
      /\ \A v \in Workers : \A q \in seen'[v] : status[q] = "failed"
      /\ (errs' = errs /\ wpc'[w] = "store") \/ errs' # {}
  <2>1. CASE ReadErrs(w)
    BY <2>1, <1>4 DEF ReadErrs, ErrsInv, TypeOK
  <2>2. CASE WriteErrs(w)
    <3>1. errs' = seen[w] \cup {tree[w]} /\ seen' = [seen EXCEPT ![w] = {}]
      BY <2>2 DEF WriteErrs
    <3> QED
      BY <3>1, <1>3 DEF ErrsInv, TypeOK
  <2> QED
    BY <2>1, <2>2
<1>11. TypeOK'
  BY <1>1, <1>2, <1>7 DEF TypeOK
<1>12. HeldInv'
  BY <1>1, <1>3, <1>4, <1>5, NodeFacts DEF HeldInv
<1>13. OneWorkerPerTree'
  BY <1>1, <1>5 DEF OneWorkerPerTree
<1>14. QueueInv' /\ SendingInv'
  BY <1>1 DEF QueueInv, SendingInv
<1>15. SpawnedInv'
  <2>1. \A t : Spawned(t) => Spawned(t)'
    BY <1>1, <1>2, <1>4 DEF Spawned
  <2> QED
    BY <2>1, <1>1 DEF SpawnedInv
<1>16. CountInv'
  BY <1>1, <1>6 DEF CountInv
<1>17. ReturnedInv'
  <2>1. tree[w] \in Outstanding
    BY <1>2, <1>3 DEF Outstanding
  <2>2. mpc # "returned"
    BY <2>1 DEF ReturnedInv
  <2> QED
    BY <2>2, <1>1 DEF ReturnedInv
<1>18. ErrsInv'
  <2>1. ASSUME NEW q \in Projects, status'[q] = "failed", errs' = {}
        PROVE  \E v \in Workers : wpc'[v] \in {"append", "store"} /\ tree'[v] = q
    <3>1. errs = {} /\ wpc'[w] = "store"
      BY <2>1, <1>7
    <3>2. PICK v \in Workers : wpc[v] \in {"append", "store"} /\ tree[v] = q
      BY <3>1, <2>1, <1>1 DEF ErrsInv
    <3> QED
      BY <3>1, <3>2, <1>1, <1>4
  <2> QED
    BY <2>1, <1>1, <1>7 DEF ErrsInv
<1> QED
  BY <1>11, <1>12, <1>13, <1>14, <1>15, <1>16, <1>17, <1>18

(* The goroutine for the subtrees of a tree is started once, when they are *)
(* in no other place.                                                      *)
LEMMA SpawnInv ==
    ASSUME LocalInv, NEW w \in Workers, Spawn(w)
    PROVE  LocalInv'
<1> DEFINE t == tree[w]
<1> USE DEF LocalInv
<1>1. /\ wpc[w] = "spawn" /\ t \in Nodes
      /\ sending' = [sending EXCEPT ![t] = Children(t)]
      /\ wpc' = [wpc EXCEPT ![w] = IF t = 0 THEN "range" ELSE "done"]
      /\ UNCHANGED <<jobTasks, tree, seen, status, wg, errs, mpc, result, tasksClosed>>
  BY DEF Spawn, mainVars, TypeOK
<1>2. /\ Held(w) /\ tree[w] = t
      /\ t = 0 => mpc # "send" /\ \A i \in 1..Len(jobTasks) : jobTasks[i] # 0
      /\ t # 0 => status[t] \in {"ok", "failed"}
  BY <1>1 DEF HeldInv, Held
<1>3. \A v \in Workers : v # w /\ Held(v) => tree[v] # t
  BY <1>2 DEF OneWorkerPerTree
<1>4. \A p \in Projects : Parent[p] = t =>
         /\ status[p] = "pending"
         /\ \A i \in 1..Len(jobTasks) : jobTasks[i] # p
  <2>1. ~ Spawned(t)
    BY <1>1 DEF Spawned
  <2> QED
    BY <2>1 DEF SpawnedInv
<1> HIDE DEF t
<1>5. /\ wpc'[w] = IF t = 0 THEN "range" ELSE "done"
      /\ \A v \in Workers : v # w => wpc'[v] = wpc[v]
  BY <1>1 DEF TypeOK
<1>6. /\ Held(w)' = (t # 0)
      /\ \A v \in Workers : v # w => Held(v)' = Held(v)
      /\ \A v \in Workers : Held(v)' => Held(v)
  BY <1>2, <1>5 DEF Held
<1>7. /\ sending'[t] = Children(t)
      /\ \A s \in Nodes : s # t => sending'[s] = sending[s]
  BY <1>1 DEF TypeOK
<1>8. Outstanding' = Outstanding
  BY <1>1, <1>2, <1>6, NodeFacts DEF Outstanding
<1>11. TypeOK'
  <2>1. Children(t) \subseteq Projects
    BY DEF Children
  <2>2. sending' \in [Nodes -> SUBSET Projects]
    BY <1>1, <2>1 DEF TypeOK
  <2>3. wpc' \in [Workers -> {"range", "checkout", "append", "store", "spawn",
                              "done", "exit"}]
    BY <1>1 DEF TypeOK
  <2> QED
    BY <1>1, <2>2, <2>3 DEF TypeOK
<1>12. HeldInv'
  <2> SUFFICES ASSUME NEW v \in Workers
               PROVE  (/\ Held(v) /\ wpc[v] # "spawn" => tree[v] # 0
                       /\ Held(v) /\ tree[v] = 0 =>
                             mpc # "send" /\ \A i \in 1..Len(jobTasks) : jobTasks[i] # 0
                       /\ wpc[v] = "checkout" => status[tree[v]] = "running"
                       /\ wpc[v] \in {"append", "store"} => status[tree[v]] = "failed"
                       /\ wpc[v] \in {"spawn", "done"} /\ tree[v] # 0
                             => status[tree[v]] \in {"ok", "failed"})'
    BY DEF HeldInv
  <2>1. CASE v = w
    <3>1. CASE t = 0
      BY <2>1, <3>1, <1>5, <1>6
    <3>2. CASE t # 0
      BY <2>1, <3>2, <1>1, <1>2, <1>5
    <3> QED
      BY <3>1, <3>2
  <2>2. CASE v # w
    BY <2>2, <1>1, <1>5, <1>6 DEF HeldInv
  <2> QED
    BY <2>1, <2>2
<1>13. OneWorkerPerTree'
  BY <1>1, <1>6 DEF OneWorkerPerTree
<1>14. SendingInv'
  <2> SUFFICES ASSUME NEW s \in Nodes, NEW p \in sending'[s]
               PROVE  Parent[p] = s /\ status'[p] = "pending"
    BY DEF SendingInv
  <2>1. CASE s = t
    BY <2>1, <1>1, <1>4, <1>7 DEF Children
  <2>2. CASE s # t
    BY <2>2, <1>1, <1>7 DEF SendingInv
  <2> QED
    BY <2>1, <2>2
<1>15. QueueInv'
  <2>1. ASSUME NEW i \in 1..Len(jobTasks), NEW s \in Nodes
        PROVE  jobTasks[i] \notin sending'[s]
    <3>1. CASE s = t
      BY <3>1, <1>4, <1>7 DEF Children
    <3>2. CASE s # t
      BY <3>2, <1>7 DEF QueueInv
    <3> QED
      BY <3>1, <3>2
  <2> QED
    BY <2>1, <1>1 DEF QueueInv
<1>16. SpawnedInv'
  <2> SUFFICES ASSUME NEW p \in Projects,
                      (\/ status[p] # "pending"
                       \/ p \in sending[Parent[p]]
                       \/ \E i \in 1..Len(jobTasks) : jobTasks[i] = p)'
               PROVE  Spawned(Parent[p])'
    BY DEF SpawnedInv
  <2>1. CASE Parent[p] = t
    <3>1. \A i \in 1..Len(jobTasks) : jobTasks[i] # t
      BY <1>2, <1>1 DEF QueueInv
    <3>2. \A v \in Workers : wpc'[v] \in {"append", "store", "spawn"} => tree[v] # t
      BY <1>3, <1>5 DEF Held
    <3> QED
      BY <2>1, <3>1, <3>2, <1>1, <1>2 DEF Spawned
  <2>2. CASE Parent[p] # t
    <3>1. Spawned(Parent[p])
      BY <2>2, <1>1, <1>7, NodeFacts DEF SpawnedInv
    <3> QED
      BY <3>1, <1>1, <1>5 DEF Spawned
  <2> QED
    BY <2>1, <2>2
<1>17. CountInv' /\ ReturnedInv'
  BY <1>1, <1>8 DEF CountInv, ReturnedInv
<1>18. ErrsInv'
  <2>1. \A v \in Workers : wpc[v] \in {"append", "store"} => wpc'[v] = wpc[v]
    BY <1>1, <1>5
  <2> QED
    BY <2>1, <1>1 DEF ErrsInv
<1> QED
  BY <1>11, <1>12, <1>13, <1>14, <1>15, <1>16, <1>17, <1>18

(* wg.Done is called for a project that is counted, once. *)
LEMMA WgDoneInv ==
    ASSUME LocalInv, NEW w \in Workers, WgDone(w)
    PROVE  LocalInv'
<1> DEFINE t == tree[w]
<1> USE DEF LocalInv
<1>1. /\ wpc[w] = "done" /\ wg' = wg - 1
      /\ wpc' = [wpc EXCEPT ![w] = "range"]
      /\ UNCHANGED <<jobTasks, sending, tree, seen, status, errs, mpc, result, tasksClosed>>
  BY DEF WgDone, mainVars
<1>2. Held(w) /\ tree[w] = t /\ t \in Projects /\ status[t] \in {"ok", "failed"}
  BY <1>1, NodeFacts DEF HeldInv, Held, TypeOK
<1>3. \A v \in Workers : v # w /\ Held(v) => tree[v] # t
  BY <1>2 DEF OneWorkerPerTree
<1> HIDE DEF t
<1>4. /\ wpc'[w] = "range"
      /\ \A v \in Workers : v # w => wpc'[v] = wpc[v]
  BY <1>1 DEF TypeOK
<1>5. ~ Held(w)' /\ \A v \in Workers : v # w => Held(v)' = Held(v)
  BY <1>4 DEF Held
<1>6. t \in Outstanding /\ Outstanding' = Outstanding \ {t}
  <2>1. t \in Outstanding
    BY <1>2 DEF Outstanding
  <2>2. ASSUME NEW q \in Projects
        PROVE  q \in Outstanding' <=> q \in Outstanding \ {t}
    <3>1. CASE q = t
      BY <3>1, <1>1, <1>2, <1>3, <1>5 DEF Outstanding
    <3>2. CASE q # t
      BY <3>2, <1>1, <1>2, <1>5 DEF Outstanding
    <3> QED
      BY <3>1, <3>2
  <2>3. Outstanding \subseteq Projects /\ Outstanding' \subseteq Projects
    BY DEF Outstanding
  <2> QED
    BY <2>1, <2>2, <2>3
<1>11. TypeOK'
  BY <1>1 DEF TypeOK
<1>12. HeldInv' /\ OneWorkerPerTree'
  BY <1>1, <1>4, <1>5 DEF HeldInv, OneWorkerPerTree
<1>13. QueueInv' /\ SendingInv'
  BY <1>1 DEF QueueInv, SendingInv
<1>14. SpawnedInv'
  <2>1. \A s : Spawned(s) => Spawned(s)'
    BY <1>1, <1>4 DEF Spawned
  <2> QED
    BY <2>1, <1>1 DEF SpawnedInv
<1>15. CountInv'
  <2>1. Cardinality(Outstanding \ {t}) = Cardinality(Outstanding) - 1
    BY <1>6, OutstandingFinite, FS_RemoveElement
  <2> QED
    BY <2>1, <1>1, <1>6 DEF CountInv
<1>16. ReturnedInv'
  BY <1>1, <1>6 DEF ReturnedInv
<1>17. ErrsInv'
  <2>1. \A v \in Workers : wpc[v] \in {"append", "store"} => wpc'[v] = wpc[v]
    BY <1>1, <1>4
  <2> QED
    BY <2>1, <1>1 DEF ErrsInv
<1> QED
  BY <1>11, <1>12, <1>13, <1>14, <1>15, <1>16, <1>17

(* What is appended to the queue was nowhere else. *)
LEMMA AppendQueueInv ==
    ASSUME QueueInv, jobTasks \in Seq(Nodes), NEW t \in Nodes,
           jobTasks' = Append(jobTasks, t),
           \A i \in 1..Len(jobTasks) : jobTasks[i] # t,
           t = 0 => mpc' # "send",
           t # 0 => status[t] = "pending",
           \A s \in Nodes : t \notin sending'[s] /\ sending'[s] \subseteq sending[s],
           mpc # "send" => mpc' # "send",
           UNCHANGED status
    PROVE  QueueInv'
<1>0. /\ Len(jobTasks) \in Nat /\ Len(jobTasks') = Len(jobTasks) + 1
      /\ \A i \in 1..Len(jobTasks) : jobTasks'[i] = jobTasks[i]
      /\ jobTasks'[Len(jobTasks) + 1] = t
      /\ \A i \in 1..Len(jobTasks') : i \in 1..Len(jobTasks) \/ i = Len(jobTasks) + 1
  BY AppendToTasks
<1> SUFFICES ASSUME NEW i \in 1..Len(jobTasks')
             PROVE  /\ jobTasks'[i] = 0 => mpc' # "send"
                    /\ jobTasks'[i] # 0 => status'[jobTasks'[i]] = "pending"
                    /\ \A s \in Nodes : jobTasks'[i] \notin sending'[s]
                    /\ \A j \in 1..Len(jobTasks') : jobTasks'[i] = jobTasks'[j] => i = j
  BY DEF QueueInv
<1>1. CASE i = Len(jobTasks) + 1
  BY <1>0, <1>1
<1>2. CASE i \in 1..Len(jobTasks)
  BY <1>0, <1>2 DEF QueueInv
<1> QED
  BY <1>0, <1>1, <1>2

(* A goroutine sends a subtree: it moves from sending to the channel. *)
LEMMA SendSubtreeInv ==
    ASSUME LocalInv, NEW t \in Nodes, SendSubtree(t)
    PROVE  LocalInv'
<1> DEFINE h == First(sending[t])
<1> USE DEF LocalInv
<1>1. h \in sending[t] /\ h \in Projects /\ h \in Nodes /\ h # 0
  BY FirstIsFirst, NodeFacts DEF SendSubtree, TypeOK
<1>2. /\ jobTasks' = Append(jobTasks, h)
      /\ sending' = [sending EXCEPT ![t] = sending[t] \ {h}]
      /\ UNCHANGED <<wpc, tree, seen, status, wg, errs, mpc, result, tasksClosed>>
  BY DEF SendSubtree, mainVars
<1>3. Parent[h] = t /\ status[h] = "pending"
  BY <1>1 DEF SendingInv
<1>4. \A i \in 1..Len(jobTasks) : jobTasks[i] # h
  BY <1>1 DEF QueueInv
<1> HIDE DEF h
<1>5. /\ sending'[t] = sending[t] \ {h}
      /\ \A s \in Nodes : s # t => sending'[s] = sending[s]
  BY <1>2 DEF TypeOK
<1>6. \A s \in Nodes : h \notin sending'[s] /\ sending'[s] \subseteq sending[s]
  BY <1>3, <1>5 DEF SendingInv
<1>7. Outstanding' = Outstanding
  BY <1>2 DEF Outstanding, Held
<1>8. \A i \in 1..Len(jobTasks') :
         jobTasks'[i] = h \/ \E j \in 1..Len(jobTasks) : jobTasks[j] = jobTasks'[i]
  BY <1>1, <1>2, AppendToTasks DEF TypeOK
<1>11. TypeOK'
  BY <1>1, <1>2, AppendToTasks DEF TypeOK
<1>12. HeldInv' /\ OneWorkerPerTree'
  BY <1>1, <1>2, <1>8 DEF HeldInv, OneWorkerPerTree, Held
<1>13. QueueInv'
  BY <1>1, <1>2, <1>3, <1>4, <1>6, AppendQueueInv DEF TypeOK
<1>14. SendingInv'
  BY <1>2, <1>6 DEF SendingInv
<1>15. SpawnedInv'
  <2> SUFFICES ASSUME NEW p \in Projects,
                      (\/ status[p] # "pending"
                       \/ p \in sending[Parent[p]]
                       \/ \E i \in 1..Len(jobTasks) : jobTasks[i] = p)'
               PROVE  Spawned(Parent[p])'
    BY DEF SpawnedInv
  <2>1. Spawned(Parent[p])
    <3>1. CASE p = h
      BY <3>1, <1>1, <1>3 DEF SpawnedInv
    <3>2. CASE p # h
      BY <3>2, <1>2, <1>6, <1>8, NodeFacts DEF SpawnedInv
    <3> QED
      BY <3>1, <3>2
  <2>2. Parent[p] # h
    BY <2>1, <1>1, <1>3 DEF Spawned
  <2> QED
    BY <2>1, <2>2, <1>2, <1>8 DEF Spawned
<1>16. CountInv' /\ ReturnedInv'
  BY <1>2, <1>7 DEF CountInv, ReturnedInv
<1>17. ErrsInv'
  BY <1>2 DEF ErrsInv
<1> QED
  BY <1>11, <1>12, <1>13, <1>14, <1>15, <1>16, <1>17

(* The main goroutine sends the root tree, the only one with node 0. *)
LEMMA SendRootInv ==
    ASSUME LocalInv, SendRoot
    PROVE  LocalInv'
<1> USE DEF LocalInv
<1>1. /\ mpc = "send" /\ mpc' = "wait"
      /\ jobTasks' = Append(jobTasks, 0)
      /\ UNCHANGED <<tasksClosed, sending, wpc, tree, seen, status, wg, errs, result>>
  BY DEF SendRoot
<1>2. \A i \in 1..Len(jobTasks) : jobTasks[i] # 0
  BY <1>1 DEF QueueInv
<1>3. \A v \in Workers : Held(v) => tree[v] # 0
  BY <1>1 DEF HeldInv
<1>4. \A s \in Nodes : 0 \notin sending[s]
  BY NodeFacts DEF TypeOK
<1>5. \A i \in 1..Len(jobTasks') :
         jobTasks'[i] = 0 \/ \E j \in 1..Len(jobTasks) : jobTasks[j] = jobTasks'[i]
  BY <1>1, NodeFacts, AppendToTasks DEF TypeOK
<1>6. Outstanding' = Outstanding
  BY <1>1 DEF Outstanding, Held
<1>11. TypeOK'
  BY <1>1, NodeFacts, AppendToTasks DEF TypeOK
<1>12. HeldInv' /\ OneWorkerPerTree'
  BY <1>1, <1>3 DEF HeldInv, OneWorkerPerTree, Held
<1>13. QueueInv'
  BY <1>1, <1>2, <1>4, NodeFacts, AppendQueueInv DEF TypeOK
<1>14. SendingInv'
  BY <1>1 DEF SendingInv
<1>15. SpawnedInv'
  <2> SUFFICES ASSUME NEW p \in Projects,
                      (\/ status[p] # "pending"
                       \/ p \in sending[Parent[p]]
                       \/ \E i \in 1..Len(jobTasks) : jobTasks[i] = p)'
               PROVE  Spawned(Parent[p])'
    BY DEF SpawnedInv
  <2>1. Spawned(Parent[p])
    BY <1>1, <1>5, NodeFacts DEF SpawnedInv
  <2>2. Parent[p] # 0
    BY <2>1, <1>1 DEF Spawned
  <2> QED
    BY <2>1, <2>2, <1>1, <1>5 DEF Spawned
<1>16. CountInv' /\ ReturnedInv'
  BY <1>1, <1>6 DEF CountInv, ReturnedInv
<1>17. ErrsInv'
  BY <1>1 DEF ErrsInv
<1> QED
  BY <1>11, <1>12, <1>13, <1>14, <1>15, <1>16, <1>17

(* A WaitGroup at zero means that no project is left. *)
LEMMA WaitAndReturnInv ==
    ASSUME LocalInv, WaitAndReturn
    PROVE  LocalInv'
<1> USE DEF LocalInv
<1>1. /\ mpc = "wait" /\ mpc' = "returned" /\ wg = 0 /\ tasksClosed' = TRUE
      /\ result' = IF errs = {} THEN "nil" ELSE "error"
      /\ UNCHANGED <<jobTasks, sending, wpc, tree, seen, status, wg, errs>>
  BY DEF WaitAndReturn
<1>2. Outstanding' = Outstanding
  BY <1>1 DEF Outstanding, Held
<1>3. Outstanding = {}
  BY <1>1, OutstandingFinite, FS_EmptySet DEF CountInv
<1>11. TypeOK'
  <2>1. tasksClosed' \in BOOLEAN
    BY <1>1, Zenon
  <2> QED
    BY <2>1, <1>1 DEF TypeOK
<1>12. HeldInv' /\ OneWorkerPerTree'
  BY <1>1 DEF HeldInv, OneWorkerPerTree, Held
<1>13. QueueInv' /\ SendingInv'
  BY <1>1 DEF QueueInv, SendingInv
<1>14. SpawnedInv'
  BY <1>1 DEF SpawnedInv, Spawned
<1>15. CountInv' /\ ReturnedInv'
  BY <1>1, <1>2, <1>3 DEF CountInv, ReturnedInv
<1>16. ErrsInv'
  BY <1>1 DEF ErrsInv
<1> QED
  BY <1>11, <1>12, <1>13, <1>14, <1>15, <1>16

(* Every step keeps the invariant. *)
LEMMA NextInv ==
    ASSUME LocalInv, [Next]_vars
    PROVE  LocalInv'
<1>1. ASSUME NEW w \in Workers, Worker(w)
      PROVE  LocalInv'
  BY <1>1, TakeRootInv, TakeProjectInv, WorkerExitInv, EndCheckoutInv, AppendInv,
     SpawnInv, WgDoneInv DEF Worker
<1>2. ASSUME NEW t \in Nodes, SendSubtree(t)
      PROVE  LocalInv'
  BY <1>2, SendSubtreeInv
<1>3. CASE UNCHANGED vars
  <2> USE <1>3 DEF LocalInv, vars
  <2>1. Outstanding' = Outstanding
    BY DEF Outstanding, Held
  <2>2. TypeOK' /\ HeldInv' /\ OneWorkerPerTree'
    BY DEF TypeOK, HeldInv, OneWorkerPerTree, Held
  <2>3. QueueInv' /\ SendingInv' /\ SpawnedInv'
    BY DEF QueueInv, SendingInv, SpawnedInv, Spawned
  <2>4. CountInv' /\ ReturnedInv' /\ ErrsInv'
    BY <2>1 DEF CountInv, ReturnedInv, ErrsInv
  <2> QED
    BY <2>2, <2>3, <2>4
<1> QED
  BY <1>1, <1>2, <1>3, SendRootInv, WaitAndReturnInv DEF Next

-----------------------------------------------------------------------------

(* Type correctness of the checkout pool, for every tree and any jobs.     *)
THEOREM TypeCorrect == Spec => []TypeOK
<1>1. LocalInv => TypeOK
  BY DEF LocalInv
<1> QED
  BY InitInv, NextInv, <1>1, PTL DEF Spec

(* close(jobTasks) in LocalHalf comes after the last send: no goroutine    *)
(* panics, although nobody waits for the goroutines that send subtrees.    *)
THEOREM ClosedAfterLastSend == Spec => []NoSendOnClosedChannel
<1>1. LocalInv => NoSendOnClosedChannel
  <2> SUFFICES ASSUME LocalInv, tasksClosed, NEW t \in Nodes, NEW p \in sending[t]
               PROVE  FALSE
    BY DEF NoSendOnClosedChannel
  <2>1. p \in Projects /\ status[p] = "pending"
    BY DEF LocalInv, SendingInv, TypeOK
  <2>2. p \in Outstanding
    BY <2>1 DEF Outstanding
  <2> QED
    BY <2>2 DEF LocalInv, ReturnedInv
<1> QED
  BY InitInv, NextInv, <1>1, PTL DEF Spec

(* wg.Done is never called once too often.                                 *)
THEOREM CountedOnce == Spec => []WaitGroupNotNegative
<1>1. LocalInv => WaitGroupNotNegative
  BY OutstandingFinite DEF LocalInv, CountInv, WaitGroupNotNegative
<1> QED
  BY InitInv, NextInv, <1>1, PTL DEF Spec

(* A nested project is checked out after the project around it.            *)
THEOREM Nested == Spec => []ParentFirst
<1>1. LocalInv => ParentFirst
  BY DEF LocalInv, SpawnedInv, Spawned, ParentFirst
<1> QED
  BY InitInv, NextInv, <1>1, PTL DEF Spec

(* The invariant has what the caller is told.                              *)
LEMMA ReportedByInv == LocalInv => FailureIsReported
<1> SUFFICES ASSUME LocalInv, result # "none"
             PROVE  /\ \A p \in Projects : status[p] \in {"ok", "failed"}
                    /\ (result = "error") <=> (\E p \in Projects : status[p] = "failed")
  BY DEF FailureIsReported
<1>1. Outstanding = {} /\ result = IF errs = {} THEN "nil" ELSE "error"
  BY DEF LocalInv, ReturnedInv
<1>2. \A p \in Projects : status[p] \in {"ok", "failed"}
  BY <1>1 DEF Outstanding, LocalInv, TypeOK
<1>3. \A w \in Workers : \A p \in Projects :
         ~ (wpc[w] \in {"append", "store"} /\ tree[w] = p)
  BY <1>1 DEF Outstanding, Held
<1>4. errs # {} <=> \E p \in Projects : status[p] = "failed"
  BY <1>3 DEF LocalInv, ErrsInv, TypeOK
<1> QED
  BY <1>1, <1>2, <1>4

(* LocalHalf returns an error exactly when a checkout failed, and not      *)
(* before the last one is over, in spite of the race on errs.              *)
THEOREM Reported == Spec => []FailureIsReported
BY InitInv, NextInv, ReportedByInv, PTL DEF Spec

-----------------------------------------------------------------------------
(* The refinement of TaskPool, step by step *)

(* A worker that takes a tree starts a task, none for the root tree.       *)
LEMMA TakeTreeStarts ==
    ASSUME LocalInv, NEW w \in Workers, TakeTree(w)
    PROVE  [Pool!PoolNext]_Pool!poolVars
<1> DEFINE h == Head(jobTasks)
<1> USE DEF LocalInv
<1>1. Len(jobTasks) \in Nat /\ Len(jobTasks) >= 1 /\ jobTasks[1] = h /\ h \in Nodes
  BY TailOfTasks DEF TakeTree, TypeOK
<1>2. UNCHANGED result
  BY DEF TakeTree, mainVars
<1>3. CASE h = 0
  BY <1>2, <1>3 DEF TakeTree, Pool!poolVars
<1>4. CASE h # 0
  <2>1. h \in Projects /\ status[h] = "pending" /\ status' = [status EXCEPT ![h] = "running"]
    BY <1>1, <1>4, NodeFacts DEF TakeTree, QueueInv
  <2>2. Spawned(Parent[h])
    BY <1>1, <2>1 DEF SpawnedInv
  <2>3. \A b \in {Parent[h]} \ {0} : status[b] \in {"ok", "failed"}
    BY <2>2 DEF Spawned
  <2>4. Pool!Start(h)
    BY <1>2, <2>1, <2>3 DEF Pool!Start, Pool!Finished
  <2> QED
    BY <2>1, <2>4 DEF Pool!PoolNext
<1> QED
  BY <1>3, <1>4

(* The end of a checkout is the end of a task.                             *)
LEMMA EndCheckoutFinishes ==
    ASSUME LocalInv, NEW w \in Workers, EndCheckout(w)
    PROVE  Pool!PoolNext
<1> USE DEF LocalInv
<1>1. tree[w] \in Projects /\ status[tree[w]] = "running"
  BY NodeFacts DEF EndCheckout, HeldInv, Held, TypeOK
<1>2. Pool!Finish(tree[w])
  BY <1>1 DEF EndCheckout, Pool!Finish, Pool!Finished, mainVars
<1> QED
  BY <1>1, <1>2 DEF Pool!PoolNext

(* The caller hears of the end when all tasks are over, and of a failure   *)
(* if there was one.                                                       *)
LEMMA WaitAndReturnReturns ==
    ASSUME LocalInv, WaitAndReturn
    PROVE  Pool!PoolNext
<1> USE DEF LocalInv
<1>1. LocalInv'
  BY WaitAndReturnInv
<1>2. result = "none" /\ UNCHANGED status
  BY DEF WaitAndReturn, ReturnedInv
<1>3. result' # "none"
  BY DEF WaitAndReturn
<1>4. FailureIsReported'
  BY <1>1, ReportedByInv, PTL
<1>5. /\ \A p \in Projects : status[p] \in {"ok", "failed"}
      /\ (result' = "error") <=> (\E p \in Projects : status[p] = "failed")
  BY <1>2, <1>3, <1>4 DEF FailureIsReported
<1>6. result' \in {"nil", "error"}
  BY DEF WaitAndReturn
<1>7. Pool!Return
  BY <1>2, <1>5, <1>6 DEF Pool!Return, Pool!Finished
<1> QED
  BY <1>7 DEF Pool!PoolNext

(* LocalHalf is a TaskPool in all that it does: a checkout runs once, after *)
(* the one it is nested in, and the caller is told once, after the last     *)
(* checkout, of a failure exactly when there was one.                       *)
THEOREM ImplementsPool == Spec => Pool!PoolSafe
<1>1. Init => Pool!PoolInit
  BY DEF Init, Pool!PoolInit
<1>2. ASSUME LocalInv, [Next]_vars
      PROVE  [Pool!PoolNext]_Pool!poolVars
  <2>1. ASSUME NEW w \in Workers, WorkerExit(w) \/ ReadErrs(w) \/ WriteErrs(w) \/ Spawn(w) \/ WgDone(w)
        PROVE  UNCHANGED <<status, result>>
    BY <2>1 DEF WorkerExit, ReadErrs, WriteErrs, Spawn, WgDone, mainVars
  <2>2. ASSUME NEW t \in Nodes, SendSubtree(t)
        PROVE  UNCHANGED <<status, result>>
    BY <2>2 DEF SendSubtree, mainVars
  <2>3. SendRoot \/ UNCHANGED vars => UNCHANGED <<status, result>>
    BY DEF SendRoot, vars
  <2> QED
    BY <1>2, <2>1, <2>2, <2>3, TakeTreeStarts, EndCheckoutFinishes, WaitAndReturnReturns
       DEF Next, Worker, Pool!poolVars
<1> QED
  BY <1>1, <1>2, InitInv, NextInv, PTL DEF Spec, Pool!PoolSafe
=============================================================================
