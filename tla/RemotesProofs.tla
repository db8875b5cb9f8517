--------------------------- MODULE RemotesProofs ----------------------------
(***************************************************************************)
(* For any number of processes, remotes, addresses and answers: through    *)
(* both caches no remote is handled as another server said or by an answer *)
(* that is too old, none is lost, and the cache file loses answers only to *)
(* writers that overlap.                                                   *)
(***************************************************************************)
EXTENDS Remotes, TLAPS, SequenceTheorems

-----------------------------------------------------------------------------
(* Addresses and caches *)

(* Addresses with the same key are the same but for a standard port. *)
LEMMA SameKey ==
    ASSUME NEW a, NEW b, urlToKey(b) # NoKey, urlToKey(a) = urlToKey(b)
    PROVE  /\ a.proto = b.proto /\ a.host = b.host
           /\ {a.port, b.port} \subseteq {0, 22, 80, 443} \/ a.port = b.port
<1>1. /\ a.proto = b.proto /\ a.host = b.host
      /\ (IF a.port \in (IF a.proto = "ssh" THEN {22} ELSE {80, 443}) THEN 0 ELSE a.port) =
         (IF b.port \in (IF b.proto = "ssh" THEN {22} ELSE {80, 443}) THEN 0 ELSE b.port)
  BY DEF urlToKey, NoKey
<1> QED
  BY <1>1

(* An entry is added to a cache or to the remotes, or replaced. *)
LEMMA PutCache ==
    ASSUME NEW f \in Caches, NEW k \in Keys, NEW v \in Entries
    PROVE  Put(f, k, v) \in Caches
<1>1. PICK K \in SUBSET Keys : f \in [K -> Entries]
  BY DEF Caches
<1>2. Put(f, k, v) \in [K \cup {k} -> Entries] /\ K \cup {k} \in SUBSET Keys
  BY <1>1 DEF Put
<1> QED
  BY <1>2 DEF Caches

LEMMA PutRemote ==
    ASSUME NEW f \in RemoteMaps, NEW n \in Names, NEW v \in Entries
    PROVE  Put(f, n, v) \in RemoteMaps
<1>1. PICK R \in SUBSET Names : f \in [R -> Entries]
  BY DEF RemoteMaps
<1>2. Put(f, n, v) \in [R \cup {n} -> Entries] /\ R \cup {n} \in SUBSET Names
  BY <1>1 DEF Put
<1> QED
  BY <1>2 DEF RemoteMaps

(* What is found in a cache or for a remote is an answer. *)
LEMMA EntryFacts ==
    /\ \A f \in Caches : \A k \in DOMAIN f : k \in Keys /\ f[k] \in Entries
    /\ \A f \in RemoteMaps : \A n \in DOMAIN f : n \in Names /\ f[n] \in Entries
  BY DEF Caches, RemoteMaps

LEMMA NoFileFacts == NoFile \in Caches /\ NoFile \in RemoteMaps /\ DOMAIN NoFile = {}
<1>1. NoFile \in [{} -> Entries] /\ DOMAIN NoFile = {}
  BY DEF NoFile
<1> QED
  BY <1>1 DEF Caches, RemoteMaps

(* Every query has an answer, an error or not. *)
LEMMA InfoFacts ==
    /\ Failure \in Infos /\ Failure.ok = FALSE
    /\ \A n \in Names : Info(Type[n], "") \in Infos /\ querySSHInfo(Review[n]) \in Infos
    /\ Info("", "") \in Infos
<1>0. TRUE \in BOOLEAN /\ FALSE \in BOOLEAN
  BY Zenon
<1>1. Failure \in Infos /\ Failure.ok = FALSE
  BY <1>0 DEF Failure, Infos
<1>2. /\ \A n \in Names : Info(Type[n], "") \in Infos /\ Info("gerrit", Review[n].host) \in Infos
      /\ {Info("gerrit", ""), Info("gerrit", "other"), Info("agit", ""), Info("", "")} \subseteq Infos
  <2> DEFINE T == {"", "gerrit", "agit"} \cup {Type[n] : n \in Names}
             H == {"", "other"} \cup {Review[n].host : n \in Names}
  <2>1. \A t \in T, h \in H : Info(t, h) \in Infos
    <3> HIDE DEF T, H
    <3>1. \A t \in T, h \in H : Info(t, h) \in [ok : BOOLEAN, type : T, host : H]
      BY <1>0 DEF Info
    <3> QED
      BY <3>1 DEF Infos, T, H
  <2>2. {"", "gerrit", "agit"} \subseteq T /\ {"", "other"} \subseteq H
        /\ \A n \in Names : Type[n] \in T /\ Review[n].host \in H
    OBVIOUS
  <2> HIDE DEF T, H
  <2> QED
    BY <2>1, <2>2
<1>3. \A d : sshInfoFromString(d) \in Infos
  BY <1>1, <1>2 DEF sshInfoFromString
<1>4. ASSUME NEW n \in Names
      PROVE  querySSHInfo(Review[n]) \in Infos
  <2>1. QueryHost(Review[n].host) \in Infos
    BY <1>3 DEF QueryHost, sshInfoFromAPI
  <2>2. sshInfoFromCommand(Review[n]) \in Infos
    <3>1. Info("gerrit", Review[n].host) \in Infos
      BY <1>2
    <3>2. \/ sshInfoFromCommand(Review[n]) = sshInfoFromString(server[Review[n].host]["ssh"])
          \/ sshInfoFromCommand(Review[n]) = Info("gerrit", Review[n].host)
          \/ sshInfoFromCommand(Review[n]) = QueryHost(Review[n].host)
      BY DEF sshInfoFromCommand
    <3> QED
      BY <1>3, <2>1, <3>1, <3>2
  <2> QED
    BY <1>2, <1>3, <2>2 DEF querySSHInfo, sshInfoFromAPI
<1> QED
  BY <1>1, <1>2, <1>4

(* An answer with who gave it and when. *)
LEMMA GotFacts ==
    ASSUME NEW info \in Infos, NEW a \in Addresses, NEW t \in Nat
    PROVE  /\ Got(info, a, t) \in Entries /\ Got(info, a, t).info = info
           /\ Got(info, a, t).from = a /\ Got(info, a, t).got = t
  BY DEF Got, Entries

LEMMA NoAddressFacts == NoAddress \in Addresses /\ NoAnswer \in Entries
<1>1. NoAddress \in Addresses
  BY DEF Addresses
<1> QED
  BY <1>1, InfoFacts, GotFacts DEF NoAnswer

LEMMA NamesFacts ==
    /\ ManifestRemotes \subseteq Names /\ ConfigRemotes \subseteq Names
    /\ \A n \in Names : Review[n] \in Addresses /\ urlToKey(Review[n]) \in Keys
    /\ \A i \in DOMAIN ManifestOrder : ManifestOrder[i] \in ManifestRemotes
    /\ DOMAIN ManifestOrder = 1..Len(ManifestOrder) /\ Len(ManifestOrder) \in Nat
<1>1. DOMAIN ManifestOrder = 1..Len(ManifestOrder) /\ Len(ManifestOrder) \in Nat
  BY RemotesAssumption, LenProperties
<1> QED
  BY <1>1 DEF Names, ManifestRemotes, Keys, Addresses

(* An actor that rests, and a process that has not begun, are of their types. *)
LEMMA RestingFacts ==
    /\ Resting \in Actor /\ Resting.pc = "rest" /\ Resting.cfg = NoFile /\ Resting.base = 0
    /\ Idle \in Process /\ Idle.pc = "idle" /\ Idle.internal = NoFile /\ Idle.remoteMap = NoFile
    /\ Idle.remotes = NoFile /\ Idle.failed = {} /\ Idle.started = 0 /\ Idle.next = 1
    /\ Idle.actor = [a \in Actors |-> Resting]
<1>1. Resting \in Actor
  BY NoFileFacts, NoAddressFacts DEF Resting, Actor
<1>2. FALSE \in BOOLEAN
  BY Zenon
<1>3. Idle \in Process
  BY <1>1, <1>2, NoFileFacts DEF Idle, Process
<1> QED
  BY <1>1, <1>3 DEF Resting, Idle

-----------------------------------------------------------------------------
(* Steps of one process *)

LEMMA InitInv == Init => RemotesInv
<1> SUFFICES ASSUME Init
             PROVE  RemotesInv
  OBVIOUS
<1>1. TypeOK
  BY RestingFacts, NoFileFacts, RemotesAssumption DEF Init, TypeOK
<1>2. FileInv
  BY NoFileFacts DEF Init, FileInv, Keyed, Past
<1>3. /\ OwnInv(Idle) /\ AgeInv(Idle) /\ CopyInv(Idle) /\ PhaseInv(Idle)
  <2>1. CopyInv(Idle)
    BY RestingFacts DEF Init, CopyInv, SSHInfoCacheFile, CacheFiles
  <2> QED
    BY <2>1, RestingFacts, NoFileFacts DEF Init, OwnInv, AgeInv, PhaseInv, Keyed, Past, Own, Fresh
<1> QED
  BY <1>1, <1>2, <1>3 DEF RemotesInv, ProcessInv, Init

(* The cache file of an actor. *)
LEMMA FileFacts ==
    ASSUME RemotesInv, NEW a \in Actors
    PROVE  LET f == SSHInfoCacheFile(a)
           IN  /\ f \in CacheFiles /\ file[f] \in Caches /\ saves[f] \in Nat
               /\ Keyed(file[f]) /\ Past(file[f], now) /\ (saves[f] = 0 => file[f] = NoFile)
<1>1. SSHInfoCacheFile(a) \in CacheFiles
  BY DEF SSHInfoCacheFile, CacheFiles
<1> QED
  BY <1>1 DEF RemotesInv, TypeOK, FileInv

(* A step of one process that leaves the files alone. *)
LEMMA LocalStep ==
    ASSUME RemotesInv, NEW p \in Procs, NEW r \in Process, ProcessInv(r),
           proc' = [proc EXCEPT ![p] = r], UNCHANGED <<now, file, saves>>
    PROVE  RemotesInv'
<1>1. TypeOK /\ FileInv
  BY DEF RemotesInv
<1>2. TypeOK'
  BY <1>1 DEF TypeOK
<1>3. FileInv'
  BY <1>1 DEF FileInv, Keyed, Past
<1>4. ASSUME NEW q \in Procs
      PROVE  ProcessInv(proc[q])'
  <2>1. ProcessInv(proc'[q])
    BY <1>1 DEF TypeOK, RemotesInv
  <2> QED
    BY <2>1 DEF ProcessInv, OwnInv, AgeInv, CopyInv, PhaseInv
<1> QED
  BY <1>2, <1>3, <1>4 DEF RemotesInv

(* A process begins with a copy of the file. *)
LEMMA BeginInv ==
    ASSUME RemotesInv, NEW p \in Procs, NEW noCache \in BOOLEAN, Begin(p, noCache)
    PROVE  RemotesInv'
<1>0. TypeOK /\ "main" \in Actors
  BY DEF RemotesInv, Actors
<1> DEFINE f == SSHInfoCacheFile("main")
           m == NewSSHInfoQuery([Resting EXCEPT !.pc = "next"], "main")
           r == [Idle EXCEPT !.pc = "manifest", !.noCache = noCache, !.started = now,
                             !.actor["main"] = m]
<1>1. m \in Actor /\ m.pc = "next" /\ m.cfg = file[f] /\ m.base = saves[f]
  <2>1. file[f] \in Caches /\ saves[f] \in Nat
    BY <1>0, FileFacts
  <2> HIDE DEF f
  <2>2. m = [Resting EXCEPT !.pc = "next", !.cfg = file[f], !.base = saves[f]]
    BY RestingFacts DEF NewSSHInfoQuery, f, Actor
  <2> HIDE DEF m
  <2> QED
    BY <2>1, <2>2, RestingFacts DEF Actor
<1> HIDE DEF m, f
<1>2. /\ r \in Process /\ r.pc = "manifest" /\ r.started = now /\ r.next = 1
      /\ r.internal = NoFile /\ r.remoteMap = NoFile /\ r.remotes = NoFile
      /\ r.actor["main"] = m /\ \A a \in ConfigRemotes : r.actor[a] = Resting
  <2>1. "main" \in Actors /\ now \in Nat
    BY <1>0, RemotesAssumption DEF TypeOK, Actors
  <2>2. ASSUME NEW b \in BOOLEAN, b = TRUE \/ b = FALSE,
               NEW x, x = [Idle EXCEPT !.pc = "manifest", !.noCache = b, !.started = now,
                                       !.actor["main"] = m]
        PROVE  /\ x \in Process /\ x.pc = "manifest" /\ x.started = now /\ x.next = 1
               /\ x.internal = NoFile /\ x.remoteMap = NoFile /\ x.remotes = NoFile
               /\ x.actor["main"] = m /\ \A a \in ConfigRemotes : x.actor[a] = Resting
    <3>1. CASE b = TRUE
      BY <1>1, <2>1, <2>2, <3>1, RestingFacts, RemotesAssumption DEF Process, Actors
    <3>2. CASE b = FALSE
      BY <1>1, <2>1, <2>2, <3>2, RestingFacts, RemotesAssumption DEF Process, Actors
    <3> QED
      BY <2>2, <3>1, <3>2
  <2>3. noCache = TRUE \/ noCache = FALSE
    BY Zenon
  <2> HIDE DEF r
  <2> QED
    BY <2>2, <2>3 DEF r
<1>3. proc' = [proc EXCEPT ![p] = r] /\ UNCHANGED <<now, file, saves>>
  BY DEF Begin, m
<1> HIDE DEF r
<1>4. OwnInv(r)
  <2>1. Keyed(file[f])
    BY <1>0, FileFacts DEF f
  <2> QED
    BY <1>0, <1>1, <1>2, <2>1, RestingFacts, NoFileFacts DEF OwnInv, Keyed, Own, Actors
<1>5. AgeInv(r)
  <2>1. Past(file[f], now)
    BY <1>0, FileFacts DEF f
  <2> QED
    BY <1>0, <1>1, <1>2, <2>1, RestingFacts, NoFileFacts DEF AgeInv, Past, Fresh, Actors, TypeOK
<1>6. CopyInv(r)
  BY <1>1, <1>2, FileFacts, RestingFacts DEF CopyInv, Actors, f
<1>7. PhaseInv(r)
  BY <1>1, <1>2, NamesFacts DEF PhaseInv
<1> QED
  BY <1>2, <1>3, <1>4, <1>5, <1>6, <1>7, LocalStep DEF ProcessInv

(* Which phase an actor that does not rest is in, and which remote it is about. *)
LEMMA PhaseFacts ==
    ASSUME RemotesInv, NEW p \in Procs, NEW a \in Actors, Act(p, a).pc # "rest"
    PROVE  /\ a = "main" => proc[p].pc = "manifest" /\ Act(p, a).pc # "config"
           /\ a # "main" => /\ proc[p].pc = "project" /\ a \in ConfigRemotes /\ a \in Names
                            /\ Act(p, a).name = a /\ Act(p, a).pc # "next"
           /\ Act(p, a).pc \notin {"next", "config"} => Act(p, a).name \in Names
<1>1. PhaseInv(proc[p]) /\ proc[p] \in Process /\ Act(p, a) = proc[p].actor[a]
  BY DEF RemotesInv, ProcessInv, TypeOK, Act
<1>2. proc[p].pc \in {"idle", "manifest", "project", "done"}
  BY <1>1 DEF Process
<1>3. Act(p, a) # Resting /\ (a # "main" => a \in ConfigRemotes)
  BY RestingFacts DEF Actors
<1>4. CASE a = "main"
  <2>1. proc[p].pc = "manifest"
    BY <1>1, <1>2, <1>3, <1>4 DEF PhaseInv
  <2> QED
    BY <1>1, <1>4, <2>1, NamesFacts DEF PhaseInv
<1>5. CASE a # "main"
  <2>1. proc[p].pc = "project"
    BY <1>1, <1>2, <1>3, <1>5 DEF PhaseInv
  <2> QED
    BY <1>1, <1>3, <1>5, <2>1, NamesFacts DEF PhaseInv
<1> QED
  BY <1>4, <1>5

(* An actor goes on with its query. *)
LEMMA ActorMove ==
    ASSUME RemotesInv, NEW p \in Procs, NEW a \in Actors, NEW x \in Actor,
           Act(p, a).pc # "rest", x.pc \in {"get", "query", "store"},
           Keyed(x.cfg), Past(x.cfg, now),
           x.base <= saves[SSHInfoCacheFile(a)],
           x.base = saves[SSHInfoCacheFile(a)] => x.cfg = file[SSHInfoCacheFile(a)],
           x.pc \in {"query", "store"} => urlToKey(Review[x.name]) # NoKey,
           x.pc = "store" => x.answer.from = Review[x.name],
           a = "main" => proc[p].next \in DOMAIN ManifestOrder /\ x.name = ManifestOrder[proc[p].next],
           a # "main" => x.name = a
    PROVE  LET r == [proc[p] EXCEPT !.actor[a] = x] IN r \in Process /\ ProcessInv(r)
<1> DEFINE q == proc[p]
           r == [q EXCEPT !.actor[a] = x]
<1>1. q \in Process /\ OwnInv(q) /\ AgeInv(q) /\ CopyInv(q) /\ PhaseInv(q)
  BY DEF RemotesInv, ProcessInv, TypeOK
<1>2. /\ r \in Process /\ r.pc = q.pc /\ r.started = q.started /\ r.noCache = q.noCache
      /\ r.next = q.next /\ r.internal = q.internal /\ r.remoteMap = q.remoteMap
      /\ r.failed = q.failed /\ r.remotes = q.remotes
      /\ r.actor[a] = x /\ \A b \in Actors : b # a => r.actor[b] = q.actor[b]
  BY <1>1 DEF Process
<1>3. /\ a = "main" => q.pc = "manifest"
      /\ a # "main" => q.pc = "project" /\ a \in ConfigRemotes
  BY PhaseFacts
<1> HIDE DEF r, q
<1>4. OwnInv(r)
  BY <1>1, <1>2 DEF OwnInv
<1>5. AgeInv(r)
  <2>1. \A e : Fresh(q, e) => Fresh(r, e)
    BY <1>2 DEF Fresh
  <2> QED
    BY <1>1, <1>2, <2>1 DEF AgeInv, q
<1>6. CopyInv(r)
  BY <1>1, <1>2 DEF CopyInv
<1>7. PhaseInv(r)
  <2>1. CASE a = "main"
    <3>1. \A b \in ConfigRemotes : b # "main" /\ b \in Actors /\ q.actor[b] = Resting
      BY <1>1, <1>3, <2>1, RemotesAssumption DEF PhaseInv, Actors
    <3>2. \A b \in ConfigRemotes : r.actor[b] = Resting
      BY <1>2, <2>1, <3>1
    <3>3. \A i \in DOMAIN ManifestOrder :
             i < q.next => ManifestOrder[i] \in DOMAIN q.remoteMap \cup q.failed
      BY <1>1, <1>3, <2>1 DEF PhaseInv
    <3>4. q.next \in DOMAIN ManifestOrder /\ x.name = ManifestOrder[q.next]
      BY <2>1 DEF q
    <3> QED
      BY <1>2, <1>3, <2>1, <3>2, <3>3, <3>4 DEF PhaseInv
  <2>2. CASE a # "main"
    <3>1. q.pc = "project" /\ r.pc = "project" /\ x.pc \in {"get", "query", "store"} /\ x.name = a
      BY <1>2, <1>3, <2>2
    <3>2. r.actor["main"] = Resting /\ ManifestRemotes \subseteq DOMAIN r.remoteMap \cup r.failed
      BY <1>1, <1>2, <2>2, <3>1 DEF PhaseInv, Actors
    <3>3. ASSUME NEW b \in ConfigRemotes
          PROVE  \/ r.actor[b] = Resting /\ (b \in HasURL => b \in DOMAIN r.remotes)
                 \/ r.actor[b].pc \in {"config", "get", "query", "store"} /\ r.actor[b].name = b
      <4>1. CASE b = a
        BY <1>2, <3>1, <4>1
      <4>2. CASE b # a
        <5>1. r.actor[b] = q.actor[b] /\ r.remotes = q.remotes
          BY <1>2, <4>2 DEF Actors
        <5>2. \/ q.actor[b] = Resting /\ (b \in HasURL => b \in DOMAIN q.remotes)
              \/ q.actor[b].pc \in {"config", "get", "query", "store"} /\ q.actor[b].name = b
          BY <1>1, <3>1 DEF PhaseInv
        <5> QED
          BY <5>1, <5>2
      <4> QED
        BY <4>1, <4>2
    <3> QED
      BY <3>1, <3>2, <3>3 DEF PhaseInv
  <2> QED
    BY <2>1, <2>2
<1> QED
  BY <1>2, <1>4, <1>5, <1>6, <1>7 DEF ProcessInv, r, q

(* RepoWorkSpace.LoadRemotes has an answer for a remote of the manifest. *)
LEMMA MainReturn ==
    ASSUME RemotesInv, NEW p \in Procs, Act(p, "main").pc \in {"get", "store"},
           NEW answer \in Entries, Own(Act(p, "main").name, answer), Fresh(proc[p], answer)
    PROVE  LET r == Return(p, "main", answer)
           IN  /\ r \in Process /\ ProcessInv(r) /\ r.internal = proc[p].internal
               /\ r.started = proc[p].started /\ r.actor["main"].pc = "next"
               /\ r.actor["main"].cfg = Act(p, "main").cfg
               /\ r.actor["main"].base = Act(p, "main").base
<1> DEFINE q == proc[p]
           n == Act(p, "main").name
           r == Return(p, "main", answer)
           m == [q.actor["main"] EXCEPT !.pc = "next", !.answer = NoAnswer]
<1>1. q \in Process /\ OwnInv(q) /\ AgeInv(q) /\ CopyInv(q) /\ PhaseInv(q) /\ "main" \in Actors
      /\ Act(p, "main") = q.actor["main"] /\ q.actor["main"] \in Actor
  BY DEF RemotesInv, ProcessInv, TypeOK, Act, Process, Actors
<1>2. q.pc = "manifest" /\ n \in Names /\ q.next \in DOMAIN ManifestOrder /\ n = ManifestOrder[q.next]
  <2>1. q.pc = "manifest" /\ n \in Names
    BY <1>1, PhaseFacts
  <2> QED
    BY <1>1, <2>1 DEF PhaseInv
<1>3. /\ m \in Actor /\ m.pc = "next" /\ m.name = q.actor["main"].name /\ m.cfg = q.actor["main"].cfg
      /\ m.base = q.actor["main"].base
  BY <1>1, NoAddressFacts DEF Actor
<1>4. /\ r \in Process /\ r.pc = q.pc /\ r.started = q.started /\ r.noCache = q.noCache
      /\ r.next = q.next + 1 /\ r.internal = q.internal /\ r.remotes = q.remotes
      /\ r.actor["main"] = m /\ (\A b \in Actors : b # "main" => r.actor[b] = q.actor[b])
      /\ \/ r.failed = q.failed \cup {n} /\ r.remoteMap = q.remoteMap
         \/ r.failed = q.failed /\ r.remoteMap = Put(q.remoteMap, n, answer)
  <2>1. CASE answer.info.ok
    <3>1. r = [q EXCEPT !.actor["main"] = m, !.next = @ + 1, !.remoteMap = Put(@, n, answer)]
      BY <1>1, <2>1 DEF Return, Process
    <3>2. Put(q.remoteMap, n, answer) \in RemoteMaps /\ q.next + 1 \in Nat \ {0}
      BY <1>1, <1>2, PutRemote DEF Process
    <3> HIDE DEF r, m
    <3> QED
      BY <1>1, <1>3, <3>1, <3>2 DEF Process
  <2>2. CASE ~answer.info.ok
    <3>1. r = [q EXCEPT !.actor["main"] = m, !.next = @ + 1, !.failed = @ \cup {n}]
      BY <1>1, <2>2 DEF Return, Process
    <3>2. q.failed \cup {n} \in SUBSET Names /\ q.next + 1 \in Nat \ {0}
      BY <1>1, <1>2 DEF Process
    <3> HIDE DEF r, m
    <3> QED
      BY <1>1, <1>3, <3>1, <3>2 DEF Process
  <2> QED
    BY <2>1, <2>2
<1> HIDE DEF r, m
<1>5. /\ DOMAIN r.remoteMap \cup r.failed = DOMAIN q.remoteMap \cup q.failed \cup {n}
      /\ \A x \in DOMAIN r.remoteMap : \/ x = n /\ r.remoteMap[x] = answer
                                       \/ x \in DOMAIN q.remoteMap /\ r.remoteMap[x] = q.remoteMap[x]
  <2>1. /\ DOMAIN Put(q.remoteMap, n, answer) = DOMAIN q.remoteMap \cup {n}
        /\ Put(q.remoteMap, n, answer)[n] = answer
        /\ \A x \in DOMAIN q.remoteMap : x # n => Put(q.remoteMap, n, answer)[x] = q.remoteMap[x]
    BY DEF Put
  <2>2. CASE r.failed = q.failed \cup {n} /\ r.remoteMap = q.remoteMap
    BY <2>2
  <2>3. CASE r.failed = q.failed /\ r.remoteMap = Put(q.remoteMap, n, answer)
    BY <2>1, <2>3
  <2> QED
    BY <1>4, <2>2, <2>3
<1>6. OwnInv(r)
  BY <1>1, <1>3, <1>4, <1>5 DEF OwnInv
<1>7. AgeInv(r)
  <2>1. \A e : Fresh(q, e) => Fresh(r, e)
    BY <1>4 DEF Fresh
  <2> QED
    BY <1>1, <1>3, <1>4, <1>5, <2>1 DEF AgeInv
<1>8. CopyInv(r)
  BY <1>1, <1>3, <1>4 DEF CopyInv
<1>9. PhaseInv(r)
  <2>1. \A i \in DOMAIN ManifestOrder : i < q.next + 1 => i < q.next \/ i = q.next
    BY <1>2, NamesFacts
  <2>2. r.pc = "manifest" /\ r.actor["main"].pc = "next"
    BY <1>2, <1>3, <1>4
  <2>3. \A b \in ConfigRemotes : r.actor[b] = Resting
    <3>1. \A b \in ConfigRemotes : b # "main" /\ b \in Actors /\ q.actor[b] = Resting
      BY <1>1, <1>2, RemotesAssumption DEF PhaseInv, Actors
    <3> QED
      BY <1>4, <3>1
  <2>4. ASSUME NEW i \in DOMAIN ManifestOrder, i < r.next
        PROVE  ManifestOrder[i] \in DOMAIN r.remoteMap \cup r.failed
    <3>1. i < q.next \/ i = q.next
      BY <1>4, <2>1, <2>4
    <3>2. i < q.next => ManifestOrder[i] \in DOMAIN q.remoteMap \cup q.failed
      BY <1>1, <1>2 DEF PhaseInv
    <3> QED
      BY <1>2, <1>5, <3>1, <3>2
  <2> QED
    BY <2>2, <2>3, <2>4 DEF PhaseInv
<1> QED
  BY <1>1, <1>3, <1>4, <1>6, <1>7, <1>8, <1>9 DEF ProcessInv, r

(* A goroutine has an answer, and adds its remote. *)
LEMMA GoroutineReturn ==
    ASSUME RemotesInv, NEW p \in Procs, NEW a \in Actors, a # "main",
           Act(p, a).pc \in {"config", "get", "store"},
           NEW answer \in Entries, Own(a, answer), Fresh(proc[p], answer)
    PROVE  LET r == Return(p, a, answer)
           IN  /\ r \in Process /\ ProcessInv(r) /\ r.internal = proc[p].internal
               /\ r.started = proc[p].started /\ r.actor[a] = Resting
<1> DEFINE q == proc[p]
           r == Return(p, a, answer)
<1>1. q \in Process /\ OwnInv(q) /\ AgeInv(q) /\ CopyInv(q) /\ PhaseInv(q)
      /\ Act(p, a) = q.actor[a] /\ q.actor[a] \in Actor
  BY DEF RemotesInv, ProcessInv, TypeOK, Act, Process
<1>2. q.pc = "project" /\ a \in Names /\ a \in ConfigRemotes /\ q.actor[a].name = a
  BY <1>1, PhaseFacts
<1>3. /\ r \in Process /\ r.pc = q.pc /\ r.started = q.started /\ r.noCache = q.noCache
      /\ r.next = q.next /\ r.internal = q.internal /\ r.remoteMap = q.remoteMap
      /\ r.actor[a] = Resting /\ (\A b \in Actors : b # a => r.actor[b] = q.actor[b])
      /\ r.failed = q.failed /\ r.remotes = Put(q.remotes, a, answer)
  <2>1. r = [q EXCEPT !.actor[a] = Resting, !.remotes = Put(@, a, answer)]
    BY <1>1, <1>2 DEF Return
  <2>2. Put(q.remotes, a, answer) \in RemoteMaps
    BY <1>1, <1>2, PutRemote DEF Process
  <2> HIDE DEF r
  <2> QED
    BY <1>1, <2>1, <2>2, RestingFacts DEF Process
<1> HIDE DEF r
<1>4. /\ DOMAIN r.remotes = DOMAIN q.remotes \cup {a}
      /\ \A x \in DOMAIN r.remotes : \/ x = a /\ r.remotes[x] = answer
                                     \/ x \in DOMAIN q.remotes /\ r.remotes[x] = q.remotes[x]
  <2>1. /\ DOMAIN Put(q.remotes, a, answer) = DOMAIN q.remotes \cup {a}
        /\ Put(q.remotes, a, answer)[a] = answer
        /\ \A x \in DOMAIN q.remotes : x # a => Put(q.remotes, a, answer)[x] = q.remotes[x]
    BY DEF Put
  <2> QED
    BY <1>3, <2>1
<1>5. OwnInv(r)
  BY <1>1, <1>3, <1>4, RestingFacts, NoFileFacts DEF OwnInv, Keyed
<1>6. AgeInv(r)
  <2>1. \A e : Fresh(q, e) => Fresh(r, e)
    BY <1>3 DEF Fresh
  <2>2. Past(NoFile, now)
    BY NoFileFacts DEF Past
  <2> QED
    BY <1>1, <1>3, <1>4, <2>1, <2>2, RestingFacts DEF AgeInv
<1>7. CopyInv(r)
  BY <1>1, <1>3, FileFacts, RestingFacts DEF CopyInv
<1>8. PhaseInv(r)
  <2>1. r.pc = "project" /\ r.actor["main"] = Resting
        /\ ManifestRemotes \subseteq DOMAIN r.remoteMap \cup r.failed
    BY <1>1, <1>2, <1>3 DEF PhaseInv, Actors
  <2>2. ASSUME NEW b \in ConfigRemotes
        PROVE  \/ r.actor[b] = Resting /\ (b \in HasURL => b \in DOMAIN r.remotes)
               \/ r.actor[b].pc \in {"config", "get", "query", "store"} /\ r.actor[b].name = b
    <3>1. CASE b = a
      BY <1>3, <1>4, <3>1
    <3>2. CASE b # a
      BY <1>1, <1>2, <1>3, <1>4, <3>2 DEF PhaseInv, Actors
    <3> QED
      BY <3>1, <3>2
  <2> QED
    BY <2>1, <2>2 DEF PhaseInv
<1> QED
  BY <1>3, <1>5, <1>6, <1>7, <1>8 DEF ProcessInv, r

-----------------------------------------------------------------------------
(* LoadRemotes *)

(* main goes to the next remote of the manifest. *)
LEMMA NextRemoteInv ==
    ASSUME RemotesInv, NEW p \in Procs, NextRemote(p)
    PROVE  RemotesInv'
<1> DEFINE q == proc[p]
           n == ManifestOrder[q.next]
<1>1. q \in Process /\ OwnInv(q) /\ AgeInv(q) /\ CopyInv(q) /\ PhaseInv(q) /\ "main" \in Actors
      /\ Act(p, "main") = q.actor["main"] /\ q.actor["main"] \in Actor /\ now \in Nat
  <2>1. TypeOK /\ ProcessInv(q) /\ "main" \in Actors
    BY DEF RemotesInv, Actors
  <2>2. q \in Process /\ now \in Nat
    BY <2>1, RemotesAssumption DEF TypeOK
  <2> QED
    BY <2>1, <2>2 DEF ProcessInv, Act, Process
<1>2. Act(p, "main").pc = "next" /\ q.next <= Len(ManifestOrder) /\ UNCHANGED <<now, file, saves>>
  BY DEF NextRemote
<1>3. q.pc = "manifest"
  BY <1>1, <1>2, PhaseFacts
<1>4. q.next \in Nat \ {0}
  BY <1>1 DEF Process
<1>5. CASE /\ Review[n] = NoAddress
           /\ proc' = [proc EXCEPT ![p] =
                 [q EXCEPT !.next = @ + 1, !.remoteMap = Put(@, n, Got(Info("", ""), NoAddress, now))]]
  <2> DEFINE e == Got(Info("", ""), NoAddress, now)
             r == [q EXCEPT !.next = @ + 1, !.remoteMap = Put(@, n, e)]
  <2>1. e \in Entries /\ e.from = NoAddress
    <3>1. Info("", "") \in Infos /\ NoAddress \in Addresses
      BY InfoFacts, NoAddressFacts
    <3> QED
      BY <1>1, <3>1 DEF Got, Entries
  <2> HIDE DEF e
  <2>2. CASE q.next \in DOMAIN ManifestOrder
    <3>1. n \in Names
      BY <2>2, NamesFacts
    <3>2. Put(q.remoteMap, n, e) \in RemoteMaps /\ q.next + 1 \in Nat \ {0}
      BY <1>1, <1>4, <2>1, <3>1, PutRemote DEF Process
    <3>3. /\ r \in Process /\ r.pc = q.pc /\ r.started = q.started /\ r.noCache = q.noCache
          /\ r.next = q.next + 1 /\ r.internal = q.internal /\ r.remotes = q.remotes
          /\ r.actor = q.actor /\ r.failed = q.failed /\ r.remoteMap = Put(q.remoteMap, n, e)
      BY <1>1, <3>2 DEF Process
    <3>4. /\ DOMAIN Put(q.remoteMap, n, e) = DOMAIN q.remoteMap \cup {n}
          /\ Put(q.remoteMap, n, e)[n] = e
          /\ \A x \in DOMAIN q.remoteMap : x # n => Put(q.remoteMap, n, e)[x] = q.remoteMap[x]
      BY DEF Put
    <3> HIDE DEF r
    <3>5. OwnInv(r)
      <4>1. Own(n, e)
        BY <2>1 DEF Own, Asked
      <4>2. \A x \in DOMAIN r.remoteMap : Own(x, r.remoteMap[x])
        BY <1>1, <3>3, <3>4, <4>1 DEF OwnInv
      <4> QED
        BY <1>1, <3>3, <4>2 DEF OwnInv
    <3>6. AgeInv(r)
      <4>1. (\A x : Fresh(q, x) => Fresh(r, x)) /\ Fresh(r, e)
        BY <2>1, <3>3 DEF Fresh, Asked
      <4> QED
        BY <1>1, <3>3, <3>4, <4>1 DEF AgeInv
    <3>7. CopyInv(r)
      BY <1>1, <3>3 DEF CopyInv
    <3>8. PhaseInv(r)
      <4>1. r.pc = "manifest" /\ r.actor["main"].pc = "next"
            /\ \A b \in ConfigRemotes : r.actor[b] = Resting
        BY <1>1, <1>2, <1>3, <3>3 DEF PhaseInv
      <4>2. ASSUME NEW i \in DOMAIN ManifestOrder, i < r.next
            PROVE  ManifestOrder[i] \in DOMAIN r.remoteMap \cup r.failed
        <5>1. i < q.next \/ i = q.next
          BY <1>4, <3>3, <4>2, NamesFacts
        <5>2. i < q.next => ManifestOrder[i] \in DOMAIN q.remoteMap \cup q.failed
          BY <1>1, <1>3 DEF PhaseInv
        <5> QED
          BY <3>3, <3>4, <5>1, <5>2
      <4> QED
        BY <4>1, <4>2 DEF PhaseInv
    <3>9. proc' = [proc EXCEPT ![p] = r]
      BY <1>5 DEF r, e
    <3> QED
      BY <1>2, <3>3, <3>5, <3>6, <3>7, <3>8, <3>9, LocalStep DEF ProcessInv
  <2> QED
    BY <1>2, <1>4, <2>2, NamesFacts
<1>6. CASE /\ Review[n] # NoAddress
           /\ proc' = [proc EXCEPT ![p] =
                 [q EXCEPT !.actor["main"].pc = "get", !.actor["main"].name = n]]
  <2> DEFINE x == [q.actor["main"] EXCEPT !.pc = "get", !.name = n]
             r == [q EXCEPT !.actor["main"] = x]
  <2>1. q.next \in DOMAIN ManifestOrder /\ n \in Names
    BY <1>2, <1>4, NamesFacts
  <2>2. x \in Actor /\ x.pc = "get" /\ x.name = n /\ x.cfg = q.actor["main"].cfg
        /\ x.base = q.actor["main"].base
    BY <1>1, <2>1 DEF Actor
  <2>3. proc' = [proc EXCEPT ![p] = r]
    BY <1>1, <1>6 DEF Process
  <2>4. /\ Keyed(x.cfg) /\ Past(x.cfg, now)
        /\ x.base <= saves[SSHInfoCacheFile("main")]
        /\ x.base = saves[SSHInfoCacheFile("main")] => x.cfg = file[SSHInfoCacheFile("main")]
    BY <1>1, <2>2 DEF OwnInv, AgeInv, CopyInv
  <2> HIDE DEF x
  <2>5. r \in Process /\ ProcessInv(r)
    BY <1>1, <1>2, <2>1, <2>2, <2>4, ActorMove
  <2> HIDE DEF r
  <2> QED
    BY <1>2, <2>3, <2>5, LocalStep
<1> QED
  <2>2. CASE Review[n] = NoAddress
    <3>1. proc' = [proc EXCEPT ![p] = [q EXCEPT !.next = @ + 1,
                               !.remoteMap = Put(@, n, Got(Info("", ""), NoAddress, now))]]
      BY <2>2 DEF NextRemote
    <3> QED
      BY <1>5, <2>2, <3>1
  <2>3. CASE Review[n] # NoAddress
    <3>1. proc' = [proc EXCEPT ![p] =
                     [q EXCEPT !.actor["main"].pc = "get", !.actor["main"].name = n]]
      BY <2>3 DEF NextRemote
    <3> QED
      BY <1>6, <2>3, <3>1
  <2> QED
    BY <2>2, <2>3

(* The goroutines start when main has gone through the manifest. *)
LEMMA StartProjectInv ==
    ASSUME RemotesInv, NEW p \in Procs, StartProject(p)
    PROVE  RemotesInv'
<1> DEFINE q == proc[p]
           c(a) == [Resting EXCEPT !.pc = "config", !.name = a]
           f == [a \in Actors |-> IF a \in ConfigRemotes THEN c(a) ELSE Resting]
           r == [q EXCEPT !.pc = "project", !.actor = f]
<1>1. q \in Process /\ OwnInv(q) /\ AgeInv(q) /\ CopyInv(q) /\ PhaseInv(q) /\ "main" \in Actors
      /\ Act(p, "main") = q.actor["main"] /\ TypeOK
  BY DEF RemotesInv, ProcessInv, TypeOK, Act, Actors
<1>2. Act(p, "main").pc = "next" /\ q.next > Len(ManifestOrder) /\ UNCHANGED <<now, file, saves>>
  BY DEF StartProject
<1>3. q.pc = "manifest"
  BY <1>1, <1>2, PhaseFacts
<1>4. \A a \in ConfigRemotes : /\ c(a) \in Actor /\ c(a).pc = "config" /\ c(a).name = a
                               /\ c(a).cfg = NoFile /\ c(a).base = 0
  BY RestingFacts, NamesFacts DEF Actor
<1> HIDE DEF c
<1>5. /\ f \in [Actors -> Actor] /\ f["main"] = Resting
      /\ \A a \in Actors : f[a].pc \in {"rest", "config"} /\ f[a].cfg = NoFile /\ f[a].base = 0
      /\ \A a \in ConfigRemotes : f[a].pc = "config" /\ f[a].name = a
  BY <1>1, <1>4, RestingFacts, RemotesAssumption DEF Actors
<1>6. proc' = [proc EXCEPT ![p] = r]
  BY <1>1 DEF StartProject, c, Process
<1> HIDE DEF f
<1>7. /\ r \in Process /\ r.pc = "project" /\ r.started = q.started /\ r.noCache = q.noCache
      /\ r.next = q.next /\ r.internal = q.internal /\ r.remoteMap = q.remoteMap
      /\ r.failed = q.failed /\ r.remotes = q.remotes /\ r.actor = f
  BY <1>1, <1>5 DEF Process
<1> HIDE DEF r
<1>8. OwnInv(r)
  BY <1>1, <1>5, <1>7, NoFileFacts DEF OwnInv, Keyed
<1>9. AgeInv(r)
  <2>1. (\A e : Fresh(q, e) => Fresh(r, e)) /\ Past(NoFile, now)
    BY <1>7, NoFileFacts DEF Fresh, Past
  <2> QED
    BY <1>1, <1>5, <1>7, <2>1 DEF AgeInv
<1>10. CopyInv(r)
  BY <1>5, <1>7, FileFacts DEF CopyInv
<1>11. PhaseInv(r)
  <2>1. ASSUME NEW n \in ManifestRemotes
        PROVE  n \in DOMAIN q.remoteMap \cup q.failed
    <3>1. PICK i \in DOMAIN ManifestOrder : n = ManifestOrder[i]
      BY DEF ManifestRemotes
    <3>2. i < q.next
      BY <1>1, <1>2, NamesFacts DEF Process
    <3> QED
      BY <1>1, <1>3, <3>1, <3>2 DEF PhaseInv
  <2> QED
    BY <1>5, <1>7, <2>1 DEF PhaseInv
<1> QED
  BY <1>2, <1>6, <1>7, <1>8, <1>9, <1>10, <1>11, LocalStep DEF ProcessInv

(* All goroutines are done, and the remote of the manifest is added. *)
LEMMA FinishInv ==
    ASSUME RemotesInv, NEW p \in Procs, Finish(p)
    PROVE  RemotesInv'
<1> DEFINE q == proc[p]
           n == ProjectRemote
           g == IF n \notin DOMAIN q.remotes /\ n \in DOMAIN q.remoteMap
                THEN Put(q.remotes, n, q.remoteMap[n]) ELSE q.remotes
           r == [q EXCEPT !.pc = "done", !.internal = NoFile, !.remoteMap = NoFile, !.remotes = g]
<1>1. q \in Process /\ OwnInv(q) /\ AgeInv(q) /\ CopyInv(q) /\ PhaseInv(q) /\ TypeOK
  BY DEF RemotesInv, ProcessInv, TypeOK
<1>2. /\ q.pc = "project" /\ UNCHANGED <<now, file, saves>>
      /\ \A a \in ConfigRemotes : q.actor[a] = Resting
  BY DEF Finish, Act
<1>3. /\ \A a \in Actors : q.actor[a] = Resting
      /\ HasURL \subseteq DOMAIN q.remotes
      /\ n \in DOMAIN q.remoteMap \cup q.failed /\ n \in Names
  <2>1. q.actor["main"] = Resting /\ ManifestRemotes \subseteq DOMAIN q.remoteMap \cup q.failed
    BY <1>1, <1>2 DEF PhaseInv
  <2>2. \A a \in ConfigRemotes : a \in HasURL => a \in DOMAIN q.remotes
    BY <1>1, <1>2, RestingFacts DEF PhaseInv
  <2> QED
    BY <1>2, <2>1, <2>2, RemotesAssumption, NamesFacts DEF Actors
<1>4. /\ g \in RemoteMaps /\ DOMAIN q.remotes \subseteq DOMAIN g
      /\ n \in DOMAIN q.remoteMap => n \in DOMAIN g
      /\ \A x \in DOMAIN g : \/ x \in DOMAIN q.remotes /\ g[x] = q.remotes[x]
                             \/ x \in DOMAIN q.remoteMap /\ g[x] = q.remoteMap[x]
  <2>0. q.remotes \in RemoteMaps /\ q.remoteMap \in RemoteMaps
    BY <1>1 DEF Process
  <2>1. CASE n \notin DOMAIN q.remotes /\ n \in DOMAIN q.remoteMap
    <3>1. g = Put(q.remotes, n, q.remoteMap[n])
      BY <2>1
    <3>2. q.remoteMap[n] \in Entries
      BY <2>0, <2>1, EntryFacts
    <3>3. Put(q.remotes, n, q.remoteMap[n]) \in RemoteMaps
      BY <1>3, <2>0, <3>2, PutRemote
    <3>4. /\ DOMAIN Put(q.remotes, n, q.remoteMap[n]) = DOMAIN q.remotes \cup {n}
          /\ Put(q.remotes, n, q.remoteMap[n])[n] = q.remoteMap[n]
          /\ \A x \in DOMAIN q.remotes : x # n => Put(q.remotes, n, q.remoteMap[n])[x] = q.remotes[x]
      BY DEF Put
    <3> QED
      BY <2>1, <3>1, <3>3, <3>4
  <2>2. CASE ~ (n \notin DOMAIN q.remotes /\ n \in DOMAIN q.remoteMap)
    BY <2>0, <2>2
  <2> QED
    BY <2>1, <2>2
<1>5. proc' = [proc EXCEPT ![p] = r]
  BY <1>1 DEF Finish, Process
<1> HIDE DEF g
<1>6. /\ r \in Process /\ r.pc = "done" /\ r.started = q.started /\ r.noCache = q.noCache
      /\ r.next = q.next /\ r.internal = NoFile /\ r.remoteMap = NoFile
      /\ r.failed = q.failed /\ r.remotes = g /\ r.actor = q.actor
  BY <1>1, <1>4, NoFileFacts DEF Process
<1> HIDE DEF r
<1>7. OwnInv(r)
  BY <1>1, <1>4, <1>6, NoFileFacts DEF OwnInv, Keyed
<1>8. AgeInv(r)
  <2>1. \A e : Fresh(q, e) => Fresh(r, e)
    BY <1>6 DEF Fresh
  <2> QED
    BY <1>1, <1>4, <1>6, <2>1, NoFileFacts DEF AgeInv
<1>9. CopyInv(r)
  BY <1>1, <1>6 DEF CopyInv
<1>10. PhaseInv(r)
  BY <1>3, <1>4, <1>6 DEF PhaseInv
<1> QED
  BY <1>2, <1>5, <1>6, <1>7, <1>8, <1>9, <1>10, LocalStep DEF ProcessInv

(* Time passes. *)
LEMMA TickInv ==
    ASSUME RemotesInv, Tick
    PROVE  RemotesInv'
<1>1. TypeOK /\ FileInv
  BY DEF RemotesInv
<1>2. now' = now + 1 /\ now < MaxTime /\ UNCHANGED <<file, saves, proc>>
  BY DEF Tick
<1>3. now \in Nat /\ TypeOK'
  BY <1>1, <1>2, RemotesAssumption DEF TypeOK
<1>4. \A f \in Caches : Past(f, now) => Past(f, now')
  BY <1>2, <1>3, EntryFacts DEF Past, Entries
<1>5. FileInv'
  <2>1. \A f \in CacheFiles : Past(file[f], now')
    BY <1>1, <1>4 DEF FileInv, TypeOK
  <2> QED
    BY <1>1, <1>2, <2>1 DEF FileInv, Keyed
<1>6. ASSUME NEW p \in Procs
      PROVE  ProcessInv(proc[p])'
  <2> DEFINE q == proc[p]
  <2>1. q \in Process /\ OwnInv(q) /\ AgeInv(q) /\ CopyInv(q) /\ PhaseInv(q) /\ proc'[p] = q
    BY <1>1, <1>2 DEF RemotesInv, ProcessInv, TypeOK
  <2>2. OwnInv(q)' /\ CopyInv(q)' /\ PhaseInv(q)'
    BY <1>2, <2>1 DEF OwnInv, CopyInv, PhaseInv
  <2>3. AgeInv(q)'
    <3>1. q.started \in Nat /\ q.started <= now'
      BY <1>2, <1>3, <2>1 DEF AgeInv, Process
    <3>2. ASSUME NEW a \in Actors
          PROVE  Past(q.actor[a].cfg, now')
      <4>1. q.actor[a].cfg \in Caches
        BY <2>1 DEF Process, Actor
      <4> QED
        BY <1>4, <2>1, <4>1 DEF AgeInv
    <3> QED
      BY <1>2, <2>1, <3>1, <3>2 DEF AgeInv
  <2> QED
    BY <1>2, <2>2, <2>3 DEF ProcessInv
<1> QED
  BY <1>3, <1>5, <1>6 DEF RemotesInv

(* A goroutine leaves its remote out, has its answer, or asks. *)
LEMMA ConfigInv ==
    ASSUME RemotesInv, NEW p \in Procs, NEW a \in ConfigRemotes, Config(p, a)
    PROVE  RemotesInv'
<1> DEFINE q == proc[p]
<1>1. q \in Process /\ OwnInv(q) /\ AgeInv(q) /\ CopyInv(q) /\ PhaseInv(q) /\ TypeOK
      /\ Act(p, a) = q.actor[a] /\ a \in Actors /\ a # "main"
  BY RemotesAssumption DEF RemotesInv, ProcessInv, TypeOK, Act, Actors
<1>2. Act(p, a).pc = "config" /\ UNCHANGED <<now, file, saves>>
  BY DEF Config
<1>3. q.pc = "project" /\ a \in Names /\ q.actor[a].name = a
  BY <1>1, <1>2, PhaseFacts
<1>4. q.actor[a] \in Actor /\ now \in Nat /\ q.remoteMap \in RemoteMaps
  BY <1>1, RemotesAssumption DEF Process, TypeOK
<1>5. ASSUME NEW answer \in Entries, Own(a, answer), Fresh(q, answer),
             proc' = [proc EXCEPT ![p] = Return(p, a, answer)]
      PROVE  RemotesInv'
  <2> DEFINE r == Return(p, a, answer)
  <2>1. r \in Process /\ ProcessInv(r)
    BY <1>1, <1>2, <1>5, GoroutineReturn
  <2> HIDE DEF r
  <2>2. proc' = [proc EXCEPT ![p] = r]
    BY <1>5 DEF r
  <2> QED
    BY <1>2, <2>1, <2>2, LocalStep
<1>6. CASE a \notin HasURL
  <2> DEFINE r == [q EXCEPT !.actor[a] = Resting]
  <2>1. proc' = [proc EXCEPT ![p] = r]
    BY <1>6 DEF Config
  <2>2. /\ r \in Process /\ r.pc = q.pc /\ r.started = q.started /\ r.noCache = q.noCache
        /\ r.next = q.next /\ r.internal = q.internal /\ r.remoteMap = q.remoteMap
        /\ r.actor[a] = Resting /\ (\A b \in Actors : b # a => r.actor[b] = q.actor[b])
        /\ r.failed = q.failed /\ r.remotes = q.remotes
    BY <1>1, RestingFacts DEF Process
  <2> HIDE DEF r
  <2>3. OwnInv(r)
    BY <1>1, <2>2, RestingFacts, NoFileFacts DEF OwnInv, Keyed
  <2>4. AgeInv(r)
    <3>1. (\A e : Fresh(q, e) => Fresh(r, e)) /\ Past(NoFile, now)
      BY <2>2, NoFileFacts DEF Fresh, Past
    <3> QED
      BY <1>1, <2>2, <3>1, RestingFacts DEF AgeInv
  <2>5. CopyInv(r)
    BY <1>1, <2>2, FileFacts, RestingFacts DEF CopyInv
  <2>6. PhaseInv(r)
    <3>1. r.pc = "project" /\ r.actor["main"] = Resting
          /\ ManifestRemotes \subseteq DOMAIN r.remoteMap \cup r.failed
      BY <1>1, <1>3, <2>2 DEF PhaseInv, Actors
    <3>2. ASSUME NEW b \in ConfigRemotes
          PROVE  \/ r.actor[b] = Resting /\ (b \in HasURL => b \in DOMAIN r.remotes)
                 \/ r.actor[b].pc \in {"config", "get", "query", "store"} /\ r.actor[b].name = b
      <4>1. CASE b = a
        BY <1>6, <2>2, <4>1
      <4>2. CASE b # a
        <5>1. r.actor[b] = q.actor[b] /\ r.remotes = q.remotes
          BY <2>2, <4>2 DEF Actors
        <5>2. \/ q.actor[b] = Resting /\ (b \in HasURL => b \in DOMAIN q.remotes)
              \/ q.actor[b].pc \in {"config", "get", "query", "store"} /\ q.actor[b].name = b
          BY <1>1, <1>3 DEF PhaseInv
        <5> QED
          BY <5>1, <5>2
      <4> QED
        BY <4>1, <4>2
    <3> QED
      BY <3>1, <3>2 DEF PhaseInv
  <2> QED
    BY <1>2, <2>1, <2>2, <2>3, <2>4, <2>5, <2>6, LocalStep DEF ProcessInv
<1>7. CASE a \in HasURL /\ a \in DOMAIN q.remoteMap
  <2>1. proc' = [proc EXCEPT ![p] = Return(p, a, q.remoteMap[a])]
    BY <1>7 DEF Config
  <2>2. q.remoteMap[a] \in Entries /\ Own(a, q.remoteMap[a]) /\ Fresh(q, q.remoteMap[a])
    BY <1>1, <1>4, <1>7, EntryFacts DEF OwnInv, AgeInv
  <2> QED
    BY <1>5, <2>1, <2>2
<1>8. CASE /\ a \in HasURL /\ a \notin DOMAIN q.remoteMap
           /\ Review[a] = NoAddress \/ Type[a] # ""
  <2> DEFINE e == Got(IF Review[a] = NoAddress THEN Failure ELSE Info(Type[a], ""), NoAddress, now)
  <2>1. proc' = [proc EXCEPT ![p] = Return(p, a, e)]
    BY <1>8 DEF Config
  <2>2. e \in Entries /\ e.from = NoAddress
    <3>1. (IF Review[a] = NoAddress THEN Failure ELSE Info(Type[a], "")) \in Infos
      BY <1>3, InfoFacts
    <3> QED
      BY <1>4, <3>1, NoAddressFacts DEF Got, Entries
  <2> HIDE DEF e
  <2>3. Own(a, e) /\ Fresh(q, e)
    BY <2>2 DEF Own, Fresh, Asked
  <2> QED
    BY <1>5, <2>1, <2>2, <2>3
<1>9. CASE /\ a \in HasURL /\ a \notin DOMAIN q.remoteMap
           /\ ~ (Review[a] = NoAddress \/ Type[a] # "")
  <2> DEFINE f == SSHInfoCacheFile(a)
             x == NewSSHInfoQuery([q.actor[a] EXCEPT !.pc = "get"], a)
             r == [q EXCEPT !.actor[a] = x]
  <2>2. proc' = [proc EXCEPT ![p] = r]
    BY <1>9 DEF Config, Act
  <2>4. Keyed(file[f]) /\ Past(file[f], now) /\ saves[f] \in Nat /\ file[f] \in Caches
    BY <1>1, FileFacts
  <2>3. x \in Actor /\ x.pc = "get" /\ x.name = a /\ x.cfg = file[f] /\ x.base = saves[f]
    <3> HIDE DEF f
    <3>1. x = [q.actor[a] EXCEPT !.pc = "get", !.cfg = file[f], !.base = saves[f]]
      BY <1>4 DEF NewSSHInfoQuery, f, Actor
    <3> HIDE DEF x
    <3> QED
      BY <1>1, <1>3, <1>4, <2>4, <3>1 DEF Actor
  <2> HIDE DEF x
  <2>5. r \in Process /\ ProcessInv(r)
    BY <1>1, <1>2, <2>3, <2>4, ActorMove
  <2> HIDE DEF r
  <2> QED
    BY <1>2, <2>2, <2>5, LocalStep
<1> QED
  BY <1>6, <1>7, <1>8, <1>9

-----------------------------------------------------------------------------
(* GetSSHInfo *)

(* An answer from a cache is of the same server, and not too old. *)
LEMMA GetInv ==
    ASSUME RemotesInv, NEW p \in Procs, NEW a \in Actors, GetSSHInfo(p, a)
    PROVE  RemotesInv'
<1> DEFINE q == proc[p]
           n == Act(p, a).name
           k == urlToKey(Review[n])
<1>1. q \in Process /\ OwnInv(q) /\ AgeInv(q) /\ CopyInv(q) /\ PhaseInv(q) /\ TypeOK
      /\ Act(p, a) = q.actor[a]
  BY DEF RemotesInv, ProcessInv, TypeOK, Act
<1>2. Act(p, a).pc = "get" /\ UNCHANGED <<now, file, saves>>
  BY DEF GetSSHInfo
<1>3. n \in Names /\ (a # "main" => n = a)
  BY <1>2, PhaseFacts
<1>4. q.actor[a] \in Actor /\ now \in Nat /\ q.internal \in Caches /\ q.actor[a].cfg \in Caches
      /\ q.started \in Nat
  <2>1. q.actor[a] \in Actor /\ now \in Nat /\ q.internal \in Caches /\ q.started \in Nat
    BY <1>1, RemotesAssumption DEF Process, TypeOK
  <2> QED
    BY <2>1 DEF Actor
<1>5. ASSUME NEW answer \in Entries, Own(n, answer), Fresh(q, answer),
             proc' = [proc EXCEPT ![p] = Return(p, a, answer)]
      PROVE  RemotesInv'
  <2> DEFINE r == Return(p, a, answer)
  <2>1. r \in Process /\ ProcessInv(r)
    <3>1. CASE a = "main"
      BY <1>2, <1>5, <3>1, MainReturn
    <3>2. CASE a # "main"
      BY <1>2, <1>3, <1>5, <3>2, GoroutineReturn
    <3> QED
      BY <3>1, <3>2
  <2> HIDE DEF r
  <2>2. proc' = [proc EXCEPT ![p] = r]
    BY <1>5 DEF r
  <2> QED
    BY <1>2, <2>1, <2>2, LocalStep
<1>0. CASE k = NoKey
  <2> DEFINE e == Got(Failure, Review[n], now)
  <2>1. proc' = [proc EXCEPT ![p] = Return(p, a, e)]
    BY <1>0 DEF GetSSHInfo
  <2>2. e \in Entries /\ e.info = Failure
    <3>1. Failure \in Infos /\ Review[n] \in Addresses
      BY <1>3, InfoFacts, NamesFacts
    <3> QED
      BY <1>4, <3>1, GotFacts
  <2> HIDE DEF e
  <2>3. Own(n, e) /\ Fresh(q, e)
    BY <2>2, InfoFacts DEF Own, Fresh, Asked
  <2> QED
    BY <1>5, <2>1, <2>2, <2>3
<1>6. CASE k # NoKey /\ k \in DOMAIN q.internal
  <2>1. proc' = [proc EXCEPT ![p] = Return(p, a, q.internal[k])]
    BY <1>6 DEF GetSSHInfo
  <2>2. /\ q.internal[k] \in Entries /\ urlToKey(q.internal[k].from) = k
        /\ q.started <= q.internal[k].got
    BY <1>1, <1>4, <1>6, EntryFacts DEF OwnInv, AgeInv, Keyed
  <2>3. Own(n, q.internal[k]) /\ Fresh(q, q.internal[k])
    BY <1>4, <1>6, <2>2 DEF Own, Fresh, Entries
  <2> QED
    BY <1>5, <2>1, <2>2, <2>3
<1>7. CASE k # NoKey /\ k \notin DOMAIN q.internal /\ FileHit(p, a, k)
  <2>1. proc' = [proc EXCEPT ![p] = Return(p, a, q.actor[a].cfg[k])]
    BY <1>1, <1>7 DEF GetSSHInfo
  <2> DEFINE e == q.actor[a].cfg[k]
  <2>2. ~q.noCache /\ k \in DOMAIN q.actor[a].cfg /\ e.got + Expire + Zone > now
    BY <1>1, <1>7 DEF FileHit, Unexpired
  <2>3. e \in Entries /\ urlToKey(e.from) = k /\ q.started <= now
    BY <1>1, <1>4, <2>2, EntryFacts DEF OwnInv, AgeInv, Keyed
  <2>4. q.started < e.got + Expire + Zone
    <3>1. e.got \in Nat
      BY <2>3 DEF Entries
    <3>2. q.started \in Nat /\ now \in Nat /\ Expire \in Nat /\ Zone \in Int
      BY <1>1, <1>4, RemotesAssumption DEF RemotesInv, TypeOK, Process
    <3> HIDE DEF e, q
    <3> QED
      BY <2>2, <2>3, <3>1, <3>2
  <2>5. Own(n, e) /\ Fresh(q, e)
    BY <1>7, <2>2, <2>3, <2>4 DEF Own, Fresh
  <2> HIDE DEF e
  <2>6. proc' = [proc EXCEPT ![p] = Return(p, a, e)]
    BY <2>1 DEF e
  <2> QED
    BY <1>5, <2>3, <2>5, <2>6
<1>8. CASE k # NoKey /\ k \notin DOMAIN q.internal /\ ~FileHit(p, a, k)
  <2> DEFINE x == [q.actor[a] EXCEPT !.pc = "query"]
             r == [q EXCEPT !.actor[a] = x]
  <2>1. proc' = [proc EXCEPT ![p] = [q EXCEPT !.actor[a].pc = "query"]]
    BY <1>8 DEF GetSSHInfo
  <2>2. proc' = [proc EXCEPT ![p] = r]
    BY <1>1, <2>1 DEF Process
  <2>3. x \in Actor /\ x.pc = "query" /\ x.name = n /\ x.cfg = q.actor[a].cfg
        /\ x.base = q.actor[a].base
    BY <1>1, <1>4 DEF Actor
  <2>4. /\ Keyed(x.cfg) /\ Past(x.cfg, now)
        /\ x.base <= saves[SSHInfoCacheFile(a)]
        /\ x.base = saves[SSHInfoCacheFile(a)] => x.cfg = file[SSHInfoCacheFile(a)]
    BY <1>1, <2>3 DEF OwnInv, AgeInv, CopyInv
  <2>5. a = "main" => q.next \in DOMAIN ManifestOrder /\ x.name = ManifestOrder[q.next]
    BY <1>1, <1>2, <2>3, PhaseFacts DEF PhaseInv
  <2> HIDE DEF x
  <2>6. r \in Process /\ ProcessInv(r)
    BY <1>1, <1>2, <1>3, <1>8, <2>3, <2>4, <2>5, ActorMove
  <2> HIDE DEF r
  <2> QED
    BY <1>2, <2>2, <2>6, LocalStep
<1> QED
  BY <1>0, <1>6, <1>7, <1>8

(* The server is asked. *)
LEMMA QueryInv ==
    ASSUME RemotesInv, NEW p \in Procs, NEW a \in Actors, Query(p, a)
    PROVE  RemotesInv'
<1> DEFINE q == proc[p]
           n == Act(p, a).name
           e == Got(querySSHInfo(Review[n]), Review[n], now)
           x == [q.actor[a] EXCEPT !.pc = "store", !.answer = e]
           r == [q EXCEPT !.actor[a] = x]
<1>1. q \in Process /\ OwnInv(q) /\ AgeInv(q) /\ CopyInv(q) /\ PhaseInv(q) /\ TypeOK
      /\ Act(p, a) = q.actor[a]
  BY DEF RemotesInv, ProcessInv, TypeOK, Act
<1>2. Act(p, a).pc = "query" /\ UNCHANGED <<now, file, saves>>
  BY DEF Query
<1>3. n \in Names /\ (a # "main" => n = a)
  BY <1>2, PhaseFacts
<1>4. q.actor[a] \in Actor /\ now \in Nat /\ q.started \in Nat /\ q.started <= now
  BY <1>1, RemotesAssumption DEF Process, TypeOK, AgeInv
<1>5. e \in Entries /\ e.from = Review[n] /\ e.got = now
  <2>1. querySSHInfo(Review[n]) \in Infos /\ Review[n] \in Addresses
    BY <1>3, InfoFacts, NamesFacts
  <2> QED
    BY <1>4, <2>1 DEF Got, Entries
<1>6. proc' = [proc EXCEPT ![p] = [q EXCEPT !.actor[a].pc = "store", !.actor[a].answer = e]]
  BY <1>1 DEF Query, Process
<1> HIDE DEF e
<1>7. proc' = [proc EXCEPT ![p] = r]
  BY <1>1, <1>6 DEF Process
<1>8. x \in Actor /\ x.pc = "store" /\ x.name = n /\ x.cfg = q.actor[a].cfg
      /\ x.base = q.actor[a].base /\ x.answer = e
  BY <1>1, <1>4, <1>5 DEF Actor
<1>9. /\ Keyed(x.cfg) /\ Past(x.cfg, now)
      /\ x.base <= saves[SSHInfoCacheFile(a)]
      /\ x.base = saves[SSHInfoCacheFile(a)] => x.cfg = file[SSHInfoCacheFile(a)]
      /\ urlToKey(Review[n]) # NoKey
  BY <1>1, <1>2, <1>8 DEF OwnInv, AgeInv, CopyInv
<1>10. a = "main" => q.next \in DOMAIN ManifestOrder /\ x.name = ManifestOrder[q.next]
  BY <1>1, <1>2, <1>8, PhaseFacts DEF PhaseInv
<1> HIDE DEF x
<1>12. r \in Process /\ ProcessInv(r)
  BY <1>1, <1>2, <1>3, <1>5, <1>8, <1>9, <1>10, ActorMove
<1> HIDE DEF r
<1> QED
  BY <1>2, <1>7, <1>12, LocalStep

(* An actor that stores its answer returns it too. *)
LEMMA StoreReturn ==
    ASSUME RemotesInv, NEW p \in Procs, NEW a \in Actors, Store(p, a)
    PROVE  LET q == proc[p]
               n == Act(p, a).name
               k == urlToKey(Review[n])
               e == Got(Act(p, a).answer.info, Act(p, a).answer.from, now)
               r == Return(p, a, e)
           IN  /\ k \in Keys /\ e \in Entries /\ e.got = now /\ q.actor[a].cfg \in Caches
               /\ urlToKey(e.from) = k /\ q.started <= now
               /\ r \in Process /\ OwnInv(r) /\ AgeInv(r) /\ CopyInv(r) /\ PhaseInv(r)
               /\ r.internal = q.internal /\ r.started = q.started
               /\ r.actor[a].pc = IF a = "main" THEN "next" ELSE "rest"
               /\ a = "main" => /\ r.actor[a].cfg = q.actor[a].cfg
                                /\ r.actor[a].base = q.actor[a].base
<1> DEFINE q == proc[p]
           n == Act(p, a).name
           k == urlToKey(Review[n])
           e == Got(Act(p, a).answer.info, Act(p, a).answer.from, now)
           r == Return(p, a, e)
<1>1. q \in Process /\ OwnInv(q) /\ AgeInv(q) /\ CopyInv(q) /\ PhaseInv(q) /\ TypeOK
      /\ Act(p, a) = q.actor[a]
  BY DEF RemotesInv, ProcessInv, TypeOK, Act
<1>2. Act(p, a).pc = "store"
  BY DEF Store
<1>3. n \in Names /\ (a # "main" => n = a) /\ k \in Keys
  BY <1>2, PhaseFacts, NamesFacts
<1>4. q.actor[a] \in Actor /\ now \in Nat /\ q.internal \in Caches /\ q.started \in Nat
  BY <1>1, RemotesAssumption DEF Process, TypeOK
<1>5. /\ e \in Entries /\ e.got = now /\ q.actor[a].cfg \in Caches
      /\ e.from = Review[n] /\ urlToKey(e.from) = k /\ k # NoKey /\ q.started <= now
  <2>1. q.actor[a].answer \in Entries /\ q.actor[a].cfg \in Caches
    BY <1>4 DEF Actor
  <2>2. e \in Entries /\ e.got = now /\ e.from = q.actor[a].answer.from
    BY <1>1, <1>4, <2>1, GotFacts DEF Entries
  <2>3. q.actor[a].answer.from = Review[n] /\ k # NoKey
    BY <1>1, <1>2 DEF OwnInv
  <2> HIDE DEF e
  <2> QED
    BY <1>1, <2>1, <2>2, <2>3 DEF AgeInv
<1> HIDE DEF e
<1>6. Own(n, e) /\ Fresh(q, e)
  BY <1>4, <1>5 DEF Own, Fresh
<1>7. CASE a = "main"
  <2>1. /\ r \in Process /\ ProcessInv(r) /\ r.internal = q.internal
        /\ r.started = q.started /\ r.actor["main"].pc = "next"
        /\ r.actor["main"].cfg = q.actor["main"].cfg
        /\ r.actor["main"].base = q.actor["main"].base
    BY <1>1, <1>2, <1>5, <1>6, <1>7, MainReturn
  <2> HIDE DEF r
  <2> QED
    BY <1>3, <1>5, <1>7, <2>1 DEF ProcessInv, r, e
<1>8. CASE a # "main"
  <2>1. r.actor[a] = Resting /\ r \in Process /\ ProcessInv(r) /\ r.internal = q.internal
        /\ r.started = q.started
    BY <1>1, <1>2, <1>3, <1>5, <1>6, <1>8, GoroutineReturn
  <2> HIDE DEF r
  <2>2. r.actor[a].pc = "rest"
    BY <2>1, RestingFacts
  <2> QED
    BY <1>3, <1>5, <1>8, <2>1, <2>2 DEF ProcessInv, r, e
<1> QED
  BY <1>7, <1>8

(* The answer is stored: the file is the copy of the actor with the answer. *)
LEMMA StoreInv ==
    ASSUME RemotesInv, NEW p \in Procs, NEW a \in Actors, Store(p, a)
    PROVE  RemotesInv'
<1> DEFINE q == proc[p]
           n == Act(p, a).name
           k == urlToKey(Review[n])
           f == SSHInfoCacheFile(a)
           e == Got(Act(p, a).answer.info, Act(p, a).answer.from, now)
           cfg == Put(Act(p, a).cfg, k, e)
           r == Return(p, a, e)
           t == [r EXCEPT !.internal = Put(@, k, e)]
<1>1. q \in Process /\ OwnInv(q) /\ AgeInv(q) /\ CopyInv(q) /\ PhaseInv(q) /\ TypeOK
      /\ Act(p, a) = q.actor[a]
  BY DEF RemotesInv, ProcessInv, TypeOK, Act
<1>2. Act(p, a).pc = "store" /\ now' = now
  BY DEF Store
<1>4. q.actor[a] \in Actor /\ now \in Nat /\ q.internal \in Caches /\ q.started \in Nat
      /\ saves \in [CacheFiles -> Nat] /\ f \in CacheFiles /\ saves[f] \in Nat
  BY <1>1, RemotesAssumption, FileFacts DEF Process, TypeOK
<1>3. k \in Keys
  BY StoreReturn
<1>5. /\ e \in Entries /\ e.got = now /\ q.actor[a].cfg \in Caches
      /\ urlToKey(e.from) = k /\ q.started <= now
  BY StoreReturn
<1>7. /\ r \in Process /\ OwnInv(r) /\ AgeInv(r) /\ CopyInv(r) /\ PhaseInv(r)
      /\ r.internal = q.internal /\ r.started = q.started
      /\ a = "main" => /\ r.actor[a].pc = "next" /\ r.actor[a].cfg = q.actor[a].cfg
                       /\ r.actor[a].base = q.actor[a].base
  BY StoreReturn
<1> HIDE DEF r, e, f
<1>8. /\ cfg \in Caches /\ Keyed(cfg) /\ Past(cfg, now)
  <2>1. cfg \in Caches
    BY <1>1, <1>3, <1>5, PutCache
  <2>2. Keyed(q.actor[a].cfg) /\ Past(q.actor[a].cfg, now)
    BY <1>1 DEF OwnInv, AgeInv
  <2> QED
    <3>1. now <= now
      BY <1>4
    <3>2. \A j \in DOMAIN cfg : \/ j = k /\ cfg[j] = e
                                \/ j \in DOMAIN q.actor[a].cfg /\ cfg[j] = q.actor[a].cfg[j]
      BY <1>1 DEF Put
    <3> HIDE DEF cfg
    <3> QED
      BY <1>5, <2>1, <2>2, <3>1, <3>2 DEF Keyed, Past
<1>9. /\ Put(q.internal, k, e) \in Caches /\ Keyed(Put(q.internal, k, e))
      /\ \A j \in DOMAIN Put(q.internal, k, e) : q.started <= Put(q.internal, k, e)[j].got
  <2>1. Put(q.internal, k, e) \in Caches
    BY <1>3, <1>4, <1>5, PutCache
  <2>2. Keyed(q.internal) /\ \A j \in DOMAIN q.internal : q.started <= q.internal[j].got
    BY <1>1 DEF OwnInv, AgeInv
  <2> QED
    BY <1>5, <2>1, <2>2 DEF Put, Keyed
<1>10. /\ t \in Process /\ t.pc = r.pc /\ t.started = r.started /\ t.noCache = r.noCache
       /\ t.next = r.next /\ t.internal = Put(q.internal, k, e) /\ t.remoteMap = r.remoteMap
       /\ t.failed = r.failed /\ t.remotes = r.remotes /\ t.actor = r.actor
  <2>1. t = [r EXCEPT !.internal = Put(q.internal, k, e)]
    BY <1>7
  <2> HIDE DEF t
  <2> QED
    BY <1>7, <1>9, <2>1 DEF Process
<1> HIDE DEF t, cfg
<1>11. OwnInv(t)
  BY <1>7, <1>9, <1>10 DEF OwnInv
<1>12. AgeInv(t)
  <2>1. \A x : Fresh(r, x) => Fresh(t, x)
    BY <1>10 DEF Fresh
  <2> QED
    BY <1>7, <1>9, <1>10, <2>1 DEF AgeInv
<1>13. CopyInv(t) /\ PhaseInv(t)
  BY <1>7, <1>10 DEF CopyInv, PhaseInv
<1>14. CASE ~e.info.ok
  <2>1. proc' = [proc EXCEPT ![p] = t] /\ UNCHANGED <<file, saves>>
    BY <1>14 DEF Store, t, e, r
  <2> QED
    BY <1>2, <1>10, <1>11, <1>12, <1>13, <2>1, LocalStep DEF ProcessInv
<1>15. CASE e.info.ok
  <2> DEFINE b == q.actor[a].base
             c1 == IF b = saves[f] THEN b + 1 ELSE b
             m == [t.actor[a] EXCEPT !.cfg = cfg, !.base = c1]
  <2>0. PICK u : u = IF a # "main" THEN t ELSE [t EXCEPT !.actor[a] = m]
    OBVIOUS
  <2>1. file' = [file EXCEPT ![f] = cfg] /\ saves' = [saves EXCEPT ![f] = @ + 1]
    BY <1>15 DEF Store, Written, cfg, e, f
  <2>2. proc' = [proc EXCEPT ![p] = u]
    <3>1. CASE a # "main"
      BY <1>15, <2>0, <3>1 DEF Store, t, e, r
    <3>2. CASE a = "main"
      <4>1. proc' = [proc EXCEPT ![p] =
                       [t EXCEPT !.actor[a].cfg = cfg,
                                 !.actor[a].base = IF @ = saves[f] THEN @ + 1 ELSE @]]
        BY <1>15, <3>2 DEF Store, Written, cfg, t, e, r, f
      <4>2. t.actor \in [Actors -> Actor] /\ t.actor[a].base = b
        BY <1>7, <1>10, <3>2 DEF Process
      <4>3. proc' = [proc EXCEPT ![p] = [t EXCEPT !.actor[a].cfg = cfg, !.actor[a].base = c1]]
        BY <1>10, <4>1, <4>2 DEF Process, Actor
      <4> HIDE DEF c1
      <4>4. [t EXCEPT !.actor[a].cfg = cfg, !.actor[a].base = c1] = [t EXCEPT !.actor[a] = m]
        BY <1>10, <4>2 DEF Process, Actor
      <4> QED
        BY <2>0, <3>2, <4>3, <4>4
    <3> QED
      BY <3>1, <3>2
  <2>3. b \in Nat /\ b <= saves[f] /\ t.actor[a] \in Actor
    BY <1>1, <1>4, <1>10 DEF CopyInv, Actor, Process, f
  <2>a. /\ file'[f] = cfg /\ saves'[f] = saves[f] + 1
        /\ \A g \in CacheFiles : g # f => file'[g] = file[g] /\ saves'[g] = saves[g]
        /\ file' \in [CacheFiles -> Caches] /\ saves' \in [CacheFiles -> Nat]
    BY <1>1, <1>4, <1>8, <2>1 DEF TypeOK
  <2>4. m \in Actor /\ m.cfg = cfg /\ m.base = c1
        /\ m.pc = t.actor[a].pc /\ m.name = t.actor[a].name
    <3>1. c1 \in Nat
      BY <1>4, <2>3
    <3> HIDE DEF c1
    <3> QED
      BY <1>8, <2>3, <3>1 DEF Actor
  <2> HIDE DEF m
  <2>5. /\ u \in Process /\ u.pc = t.pc /\ u.started = t.started /\ u.noCache = t.noCache
        /\ u.next = t.next /\ u.internal = t.internal /\ u.remoteMap = t.remoteMap
        /\ u.failed = t.failed /\ u.remotes = t.remotes
        /\ a = "main" => u.actor[a] = m
        /\ \A c \in Actors : c # a \/ a # "main" => u.actor[c] = t.actor[c]
    <3>1. CASE a # "main"
      BY <1>10, <2>0, <3>1
    <3>2. CASE a = "main"
      BY <1>10, <2>0, <2>4, <3>2 DEF Process
    <3> QED
      BY <3>1, <3>2
  <2>6. OwnInv(u)
    BY <1>7, <1>8, <1>10, <1>11, <2>4, <2>5 DEF OwnInv
  <2>7. AgeInv(u)
    <3>1. \A x : Fresh(t, x) => Fresh(u, x)
      BY <2>5 DEF Fresh
    <3> QED
      BY <1>7, <1>8, <1>10, <1>12, <2>4, <2>5, <3>1 DEF AgeInv
  <2>8. PhaseInv(u)
    <3>1. CASE a # "main"
      BY <1>13, <2>0, <3>1
    <3>2. CASE a = "main"
      <4>1. u.actor["main"].pc = "next" /\ t.actor["main"].pc = "next"
            /\ \A c \in ConfigRemotes : u.actor[c] = t.actor[c]
        BY <1>7, <1>10, <2>4, <2>5, <3>2, RemotesAssumption DEF Actors
      <4>2. t.pc = "manifest"
        <5>1. t.actor["main"] # Resting /\ "main" \in Actors
          BY <4>1, RestingFacts DEF Actors
        <5> QED
          BY <1>10, <1>13, <5>1 DEF PhaseInv, Process
      <4> QED
        BY <1>13, <2>5, <4>1, <4>2 DEF PhaseInv
    <3> QED
      BY <3>1, <3>2
  <2>9. CopyInv(u)'
    <3>1. ASSUME NEW c \in Actors, NEW g, g = SSHInfoCacheFile(c)
          PROVE  u.actor[c].base <= saves'[g] /\ (u.actor[c].base = saves'[g] => u.actor[c].cfg = file'[g])
      <4>0. g \in CacheFiles /\ saves[g] \in Nat
        BY <3>1, FileFacts
      <4>1. CASE c = a /\ a = "main"
        <5>1. u.actor[c].base = c1 /\ u.actor[c].cfg = cfg /\ g = f
          BY <2>4, <2>5, <3>1, <4>1 DEF f
        <5> QED
          BY <1>4, <2>3, <2>a, <5>1
      <4>2. CASE c # a \/ a # "main"
        <5>1. /\ u.actor[c] = t.actor[c] /\ t.actor[c].base <= saves[g] /\ t.actor[c].base \in Nat
              /\ t.actor[c].base = saves[g] => t.actor[c].cfg = file[g]
          BY <1>10, <1>13, <2>5, <3>1, <4>2 DEF CopyInv, Process, Actor
        <5> QED
          BY <1>4, <2>a, <4>0, <5>1
      <4> QED
        BY <4>1, <4>2
    <3> QED
      BY <3>1 DEF CopyInv
  <2>10. TypeOK'
    BY <1>1, <1>2, <2>2, <2>5, <2>a DEF TypeOK
  <2>11. FileInv'
    <3>1. ASSUME NEW g \in CacheFiles
          PROVE  Keyed(file'[g]) /\ Past(file'[g], now) /\ (saves'[g] = 0 => file'[g] = NoFile)
      <4>1. CASE g = f
        BY <1>4, <1>8, <2>a, <4>1
      <4>2. CASE g # f
        BY <2>a, <4>2 DEF RemotesInv, FileInv
      <4> QED
        BY <4>1, <4>2
    <3> QED
      BY <1>2, <3>1 DEF FileInv, Keyed, Past
  <2>12. ASSUME NEW x \in Procs
         PROVE  ProcessInv(proc[x])'
    <3>1. CASE x = p
      <4>1. proc'[x] = u
        BY <1>1, <2>2, <3>1 DEF TypeOK
      <4>2. OwnInv(u)' /\ AgeInv(u)' /\ PhaseInv(u)'
        BY <1>2, <2>6, <2>7, <2>8 DEF OwnInv, AgeInv, PhaseInv
      <4> QED
        BY <2>9, <4>1, <4>2 DEF ProcessInv
    <3>2. CASE x # p
      <4>1. proc'[x] = proc[x] /\ ProcessInv(proc[x]) /\ proc[x] \in Process
        BY <1>1, <2>2, <3>2 DEF TypeOK, RemotesInv
      <4>2. (OwnInv(proc[x]) /\ AgeInv(proc[x]) /\ PhaseInv(proc[x]))'
        BY <1>2, <4>1 DEF ProcessInv, OwnInv, AgeInv, PhaseInv
      <4>3. ASSUME NEW c \in Actors, NEW g, g = SSHInfoCacheFile(c)
            PROVE  /\ proc[x].actor[c].base <= saves'[g]
                   /\ proc[x].actor[c].base = saves'[g] => proc[x].actor[c].cfg = file'[g]
        <5>1. /\ proc[x].actor[c].base \in Nat /\ proc[x].actor[c].base <= saves[g]
              /\ proc[x].actor[c].base = saves[g] => proc[x].actor[c].cfg = file[g]
          BY <4>1, <4>3 DEF ProcessInv, CopyInv, Process, Actor
        <5>2. g \in CacheFiles /\ saves[g] \in Nat
          BY <4>3, FileFacts
        <5> QED
          BY <2>a, <5>1, <5>2
      <4>4. CopyInv(proc[x])'
        BY <4>1, <4>3 DEF CopyInv
      <4> QED
        BY <4>2, <4>4 DEF ProcessInv
    <3> QED
      BY <3>1, <3>2
  <2> QED
    BY <2>10, <2>11, <2>12 DEF RemotesInv
<1> QED
  BY <1>14, <1>15

-----------------------------------------------------------------------------
(* Every step keeps the invariant. *)
LEMMA NextInv == RemotesInv /\ [Next]_vars => RemotesInv'
<1> SUFFICES ASSUME RemotesInv, [Next]_vars
             PROVE  RemotesInv'
  OBVIOUS
<1>1. CASE UNCHANGED vars
  <2>1. UNCHANGED <<now, file, saves, proc>>
    BY <1>1 DEF vars
  <2> QED
    BY <2>1 DEF RemotesInv, TypeOK, FileInv, ProcessInv, OwnInv, AgeInv, CopyInv, PhaseInv, Keyed, Past
<1>2. ASSUME NEW p \in Procs, NEW noCache \in BOOLEAN, Begin(p, noCache)
      PROVE  RemotesInv'
  BY <1>2, BeginInv
<1>3. ASSUME NEW p \in Procs, Step(p)
      PROVE  RemotesInv'
  BY <1>3, NextRemoteInv, StartProjectInv, FinishInv, GetInv, QueryInv, StoreInv, ConfigInv DEF Step
<1>4. CASE Tick
  BY <1>4, TickInv
<1> QED
  BY <1>1, <1>2, <1>3, <1>4 DEF Next

(* The inductive invariant: what the caches hold is by the key of who said it and *)
(* never from the future, a copy is the file until somebody writes, and each      *)
(* goroutine has its remote until it has added it.                                *)
THEOREM Invariant == Spec => []RemotesInv
  BY InitInv, NextInv, PTL DEF Spec

(* Caches and remotes are of their types. *)
THEOREM TypeCorrect == Spec => []TypeOK
<1>1. RemotesInv => TypeOK
  BY DEF RemotesInv
<1> QED
  BY Invariant, <1>1, PTL

(* No remote is handled as another server said, and none is lost when LoadRemotes *)
(* ends, through both caches and in any order of the goroutines.                  *)
THEOREM RemotesRight == Spec => []RemotesMean
<1>1. RemotesInv => AnswerOwn
  <2> SUFFICES ASSUME RemotesInv, NEW p \in Procs, NEW x \in Answers(p), Asked(x[2])
               PROVE  /\ x[2].from.proto = Review[x[1]].proto
                      /\ x[2].from.host = Review[x[1]].host
                      /\ {x[2].from.port, Review[x[1]].port} \subseteq {0, 22, 80, 443}
                         \/ x[2].from.port = Review[x[1]].port
    BY DEF AnswerOwn
  <2>1. OwnInv(proc[p])
    BY DEF RemotesInv, ProcessInv
  <2>2. Own(x[1], x[2])
    BY <2>1 DEF Answers, OwnInv
  <2>3. urlToKey(x[2].from) = urlToKey(Review[x[1]]) /\ urlToKey(Review[x[1]]) # NoKey
    BY <2>2 DEF Own
  <2> QED
    BY <2>3, SameKey
<1>2. RemotesInv => RemotesComplete
  BY DEF RemotesInv, ProcessInv, PhaseInv, RemotesComplete, Done
<1> QED
  BY Invariant, <1>1, <1>2, PTL DEF RemotesMean

(* No answer that is used was saved longer ago than an answer is good for, unless *)
(* local time is ahead of universal time, and with --no-cache none is older than  *)
(* the process.                                                                   *)
THEOREM NeverStale == Spec => []AnswerFresh
<1>1. RemotesInv => AnswerFresh
  <2> SUFFICES ASSUME RemotesInv, NEW p \in Procs, NEW x \in Answers(p),
                      Asked(x[2]), x[2].got < proc[p].started
               PROVE  ~proc[p].noCache /\ (Zone <= 0 => proc[p].started < x[2].got + Expire)
    BY DEF AnswerFresh
  <2>1. AgeInv(proc[p])
    BY DEF RemotesInv, ProcessInv
  <2>2. Fresh(proc[p], x[2])
    BY <2>1 DEF Answers, AgeInv
  <2>3. proc[p] \in Process /\ x[2] \in Entries
    <3>1. proc[p] \in Process
      BY DEF RemotesInv, TypeOK
    <3> QED
      BY <3>1, EntryFacts DEF Answers, Process
  <2>4. proc[p].started \in Nat /\ x[2].got \in Nat /\ Expire \in Nat /\ Zone \in Int
    BY <2>3, RemotesAssumption DEF Process, Entries
  <2>5. ~proc[p].noCache /\ proc[p].started < x[2].got + Expire + Zone
    BY <2>2 DEF Fresh
  <2> QED
    BY <2>4, <2>5
<1> QED
  BY Invariant, <1>1, PTL

(* An actor that has stored its answer goes on. *)
LEMMA AfterStore ==
    ASSUME RemotesInv, NEW p \in Procs, NEW a \in Actors, Store(p, a)
    PROVE  proc'[p].actor[a].pc \in {"next", "rest"}
<1> DEFINE f == SSHInfoCacheFile(a)
           e == Got(Act(p, a).answer.info, Act(p, a).answer.from, now)
           k == urlToKey(Review[Act(p, a).name])
           c == Written(p, a, k, e)
           r == Return(p, a, e)
           i == Put(r.internal, k, e)
           t == [r EXCEPT !.internal = i]
<1>1. proc \in [Procs -> Process]
  BY DEF RemotesInv, TypeOK
<1>2. r \in Process /\ r.actor[a].pc \in {"next", "rest"}
  BY StoreReturn
<1>3. \/ proc' = [proc EXCEPT ![p] = t]
      \/ proc' = [proc EXCEPT ![p] =
                     [t EXCEPT !.actor[a].cfg = c,
                               !.actor[a].base = IF @ = saves[f] THEN @ + 1 ELSE @]]
  <2>1. [r EXCEPT !.internal = Put(@, k, e)] = t
    BY <1>2 DEF Process
  <2> QED
    BY <2>1 DEF Store
<1> HIDE DEF r, i, c
<1>4. t.actor = r.actor /\ t \in [DOMAIN r -> {t[x] : x \in DOMAIN r}] /\ "actor" \in DOMAIN r
      /\ t.actor \in [Actors -> Actor]
  BY <1>2 DEF Process
<1> HIDE DEF t
<1>5. CASE proc' = [proc EXCEPT ![p] = t]
  BY <1>1, <1>2, <1>4, <1>5
<1>6. CASE proc' = [proc EXCEPT ![p] =
                      [t EXCEPT !.actor[a].cfg = c,
                                !.actor[a].base = IF @ = saves[f] THEN @ + 1 ELSE @]]
  <2>1. proc'[p].actor = [t.actor EXCEPT ![a].cfg = c,
                                         ![a].base = IF @ = saves[f] THEN @ + 1 ELSE @]
    BY <1>1, <1>4, <1>6
  <2>2. proc'[p].actor[a].pc = t.actor[a].pc
    BY <1>4, <2>1 DEF Actor
  <2> QED
    BY <1>2, <1>4, <2>2
<1> QED
  BY <1>3, <1>5, <1>6

(* A writer that has read the file since the last write loses nothing. *)
LEMMA StoreKeeps ==
    ASSUME RemotesInv, NEW p \in Procs, NEW a \in Actors, Store(p, a),
           ~ (Act(p, a).base < saves[SSHInfoCacheFile(a)]),
           NEW f \in CacheFiles, NEW k \in DOMAIN file[f]
    PROVE  k \in DOMAIN file'[f] /\ ~ (file'[f][k].got < file[f][k].got)
<1> DEFINE q == proc[p]
           j == urlToKey(Review[Act(p, a).name])
           e == Got(Act(p, a).answer.info, Act(p, a).answer.from, now)
           g == SSHInfoCacheFile(a)
<1>1. q \in Process /\ OwnInv(q) /\ AgeInv(q) /\ CopyInv(q) /\ TypeOK
      /\ Act(p, a) = q.actor[a] /\ q.actor[a] \in Actor
  BY DEF RemotesInv, ProcessInv, TypeOK, Act, Process
<1>2. Act(p, a).cfg = file[g]
  <2>1. Act(p, a).base \in Nat /\ saves[g] \in Nat
    BY <1>1, FileFacts DEF Actor
  <2>2. Act(p, a).base <= saves[g] /\ (Act(p, a).base = saves[g] => Act(p, a).cfg = file[g])
    BY <1>1 DEF CopyInv
  <2> QED
    BY <2>1, <2>2
<1>3. file[f][k].got <= now /\ file[f][k].got \in Nat /\ now \in Nat /\ e.got = now
  <2>1. Past(file[f], now) /\ file[f] \in Caches /\ now \in Nat
    BY <1>1, RemotesAssumption DEF RemotesInv, FileInv, TypeOK
  <2>2. file[f][k] \in Entries /\ e.got = now
    BY <2>1, EntryFacts DEF Got
  <2> QED
    BY <2>1, <2>2 DEF Past, Entries
<1>4. file' = file \/ file' = [file EXCEPT ![g] = Put(file[g], j, e)]
  BY <1>2 DEF Store, Written
<1>5. file \in [CacheFiles -> Caches]
  BY <1>1 DEF TypeOK
<1> HIDE DEF e, j, g
<1>6. file'[f] = file[f] \/ file'[f] = Put(file[f], j, e)
  BY <1>4, <1>5
<1> QED
  BY <1>3, <1>6 DEF Put

(* A cache file loses an answer, or gets an older one back, only through somebody *)
(* who writes it although another has written it since he read it.                *)
THEOREM CacheLosesNothing == Spec => CacheKept
<1> DEFINE Good == \A f \in CacheFiles : \A k \in DOMAIN file[f] :
                     (k \notin DOMAIN file'[f] \/ file'[f][k].got < file[f][k].got) =>
                        \E p \in Procs, a \in Actors :
                            /\ SSHInfoCacheFile(a) = f /\ Act(p, a).base < saves[f]
                            /\ Act(p, a).pc = "store"
                            /\ Act(p, a) # proc'[p].actor[a]
<1>1. RemotesInv /\ [Next]_vars => [Good]_vars
  <2> SUFFICES ASSUME RemotesInv, Next, NEW f \in CacheFiles, NEW k \in DOMAIN file[f],
                      k \notin DOMAIN file'[f] \/ file'[f][k].got < file[f][k].got
               PROVE  \E p \in Procs, a \in Actors :
                          /\ SSHInfoCacheFile(a) = f /\ Act(p, a).base < saves[f]
                          /\ Act(p, a).pc = "store"
                          /\ Act(p, a) # proc'[p].actor[a]
    OBVIOUS
  <2>0. TypeOK
    BY DEF RemotesInv
  <2>1. file'[f] # file[f]
    <3>1. file[f][k].got \in Nat
      BY <2>0, EntryFacts DEF TypeOK, Entries
    <3> QED
      BY <3>1
  <2>2. PICK p \in Procs, a \in Actors : Store(p, a)
    <3>1. ~Tick /\ ~(\E p \in Procs, noCache \in BOOLEAN : Begin(p, noCache))
      BY <2>1 DEF Tick, Begin
    <3>2. PICK p \in Procs : Step(p)
      BY <3>1 DEF Next
    <3>3. ~NextRemote(p) /\ ~StartProject(p) /\ ~Finish(p)
      BY <2>1 DEF NextRemote, StartProject, Finish
    <3>4. ~(\E a \in ConfigRemotes : Config(p, a))
      BY <2>1 DEF Config
    <3>5. ~(\E a \in Actors : GetSSHInfo(p, a) \/ Query(p, a))
      BY <2>1 DEF GetSSHInfo, Query
    <3> QED
      BY <3>2, <3>3, <3>4, <3>5 DEF Step
  <2>a. SSHInfoCacheFile(a) = f
    <3>1. file \in [CacheFiles -> Caches]
      BY <2>0 DEF TypeOK
    <3>2. PICK c : file' = file \/ file' = [file EXCEPT ![SSHInfoCacheFile(a)] = c]
      BY <2>2 DEF Store
    <3> QED
      BY <2>1, <3>1, <3>2
  <2>3. Act(p, a).base < saves[f]
    BY <2>2, <2>a, StoreKeeps
  <2>4. Act(p, a).pc = "store"
    BY <2>2 DEF Store
  <2>5. Act(p, a) # proc'[p].actor[a]
    <3>1. RemotesInv' /\ proc[p] \in Process /\ proc'[p] \in Process
      <4>1. RemotesInv'
        BY NextInv
      <4> QED
        BY <2>0, <4>1 DEF RemotesInv, TypeOK
    <3>2. proc'[p].actor[a].pc \in {"next", "rest"}
      BY <2>2, AfterStore
    <3> QED
      BY <2>4, <3>2
  <2> QED
    BY <2>3, <2>4, <2>5, <2>a
<1> QED
  BY Invariant, <1>1, PTL DEF Spec, CacheKept
=============================================================================
