------------------------------ MODULE Remotes -------------------------------
(***************************************************************************)
(* Where a project pushes to, and how: ssh_info (helper/ssh-info.go) with  *)
(* its two caches, and LoadRemotes of workspace/remote.go and              *)
(* project/remote.go.                                                      *)
(*                                                                         *)
(* A process asks about the remotes of the manifest one after the other,   *)
(* with one copy of the manifest project's cache file; then a goroutine    *)
(* for each remote in the configuration of a project takes the answer      *)
(* over, or asks by itself, with a copy of its own of the project's cache  *)
(* file.  Processes share the files, all of a process its internal cache.  *)
(*                                                                         *)
(* An address is a record of its parts.  Time passes in hours.  A remote   *)
(* and its alias are one name here.                                        *)
(***************************************************************************)
EXTENDS Integers, FiniteSets, Sequences

CONSTANTS Procs,          \* processes
          ManifestOrder,  \* the remotes of the manifest, a sequence of names
          ConfigRemotes,  \* the remotes in .git/config of the project
          Review,         \* review address of each remote, NoAddress if none
          Type,           \* remote.<name>.type of each remote, "" if none
          HasURL,         \* the remotes of the configuration with a URL
          ProjectRemote,  \* the remote of the project in the manifest
          Servers,        \* the answers of all hosts: what they may be
          Environments,   \* "none", "info": REPO_HOST_PORT_INFO, "ignore":
                          \* REPO_IGNORE_SSH_INFO is set
          Zone,           \* offset of local time
          Expire,         \* hours a saved answer is good for
          MaxTime         \* bound on the time

NoAddress == [proto |-> "", user |-> "", host |-> "", port |-> 0]
ManifestRemotes == {ManifestOrder[i] : i \in DOMAIN ManifestOrder}
Names == ManifestRemotes \cup ConfigRemotes

ASSUME RemotesAssumption ==
    /\ HasURL \subseteq ConfigRemotes /\ ProjectRemote \in ManifestRemotes
    /\ ManifestOrder \in Seq(ManifestRemotes)
    /\ "main" \notin ConfigRemotes     \* the name of an actor here
    /\ Zone \in Int /\ Expire \in Nat /\ MaxTime \in Nat

VARIABLES now, server, environment,
          file,      \* the cache files: the entry of a key, if there is one
          saves,     \* how often each was written, for the properties alone
          proc       \* the processes

vars == <<now, server, environment, file, saves, proc>>

-----------------------------------------------------------------------------
(* One query. *)

Failure == [ok |-> FALSE, type |-> "", host |-> ""]
Info(type, host) == [ok |-> TRUE, type |-> type, host |-> host]

\* sshInfoFromString: nothing and HTML are errors, NOT_AVAILABLE and "host port"
\* mean gerrit, JSON may name a type, or have a host that Validate refuses.
sshInfoFromString(data) ==
    CASE data = "NOT_AVAILABLE" -> Info("gerrit", "")
      [] data = "host port"     -> Info("gerrit", "other")
      [] data = "agit"          -> Info("agit", "")
      [] data = "untyped"       -> Info("", "")
      [] OTHER                  -> Failure      \* "", "<html>", "bad host", no answer

\* sshInfoFromAPI, with GetRootURL and the HTTP client
sshInfoFromAPI(proto, host) == sshInfoFromString(server[host][proto])

\* querySSHInfo of a host name: https, then http
QueryHost(host) ==
    LET secure == sshInfoFromAPI("https", host)
    IN  IF secure.ok THEN secure ELSE sshInfoFromAPI("http", host)

\* sshInfoFromCommand: what `ssh host ssh_info` says within its time; else a
\* well-known port, else HTTP
sshInfoFromCommand(a) ==
    LET info == sshInfoFromString(server[a.host]["ssh"])
    IN  IF info.ok THEN info
        ELSE IF a.port = 29418 THEN Info("gerrit", a.host)
        ELSE QueryHost(a.host)

querySSHInfo(a) ==
    IF environment = "info" THEN sshInfoFromString("host port")
    ELSE IF environment = "ignore" \/ a.proto = "sso" THEN Info("gerrit", "")
    ELSE IF a.proto = "ssh" THEN sshInfoFromCommand(a)
    ELSE sshInfoFromAPI(a.proto, a.host)

\* Variant of urlToKey: only the host counts.
urlToKeyHost(a) == <<"", a.host, 0>>

\* urlToKey: protocol, host and port, unless it is a standard one; nothing for an
\* address that is neither http nor ssh.
NoKey == <<"", "", 0>>
urlToKey(a) ==
    IF a.proto \notin {"http", "https", "ssh"} THEN NoKey
    ELSE <<a.proto, a.host,
           IF a.port \in (IF a.proto = "ssh" THEN {22} ELSE {80, 443}) THEN 0 ELSE a.port>>

Keys == {urlToKey(Review[n]) : n \in Names}

\* NewProtoHelper: the type of the helper for an answer.
HelperType(info) == IF info.ok THEN info.type ELSE ""

-----------------------------------------------------------------------------
(* The state of a process. *)

\* An answer, with who gave it and when.
Got(info, a, t) == [info |-> info, from |-> a, got |-> t]
NoAnswer == Got(Failure, NoAddress, 0)

\* main, and a goroutine for each remote of the configuration.
Actors == {"main"} \cup ConfigRemotes

\* Each repository has a cache file: main uses the manifest project's, a goroutine
\* its project's.
CacheFiles == {"manifest", "project"}
SSHInfoCacheFile(a) == IF a = "main" THEN "manifest" ELSE "project"

NoFile == [k \in {} |-> 0]

\* What an actor does: the remote it asks about, and its copy of the file.
Resting == [pc |-> "rest", name |-> "", cfg |-> NoFile, base |-> 0, answer |-> NoAnswer]

Idle == [pc |-> "idle", noCache |-> FALSE, started |-> 0, next |-> 1,
         internal |-> NoFile, remoteMap |-> NoFile, failed |-> {}, remotes |-> NoFile,
         actor |-> [a \in Actors |-> Resting]]

Init ==
    /\ now = 0
    /\ server \in Servers
    /\ environment \in Environments
    /\ file = [f \in CacheFiles |-> NoFile] /\ saves = [f \in CacheFiles |-> 0]
    /\ proc = [p \in Procs |-> Idle]

Put(f, k, v) == [x \in DOMAIN f \cup {k} |-> IF x = k THEN v ELSE f[x]]
Act(p, a) == proc[p].actor[a]

\* NewSSHInfoQuery: the actor reads its cache file.
NewSSHInfoQuery(x, a) ==
    [x EXCEPT !.cfg = file[SSHInfoCacheFile(a)], !.base = saves[SSHInfoCacheFile(a)]]

Begin(p, noCache) ==
    /\ proc[p].pc = "idle"
    /\ proc' = [proc EXCEPT ![p] =
                  [Idle EXCEPT !.pc = "manifest", !.noCache = noCache, !.started = now,
                               !.actor["main"] = NewSSHInfoQuery([Resting EXCEPT !.pc = "next"], "main")]]
    /\ UNCHANGED <<now, server, environment, file, saves>>

\* The actor has its answer.  RepoWorkSpace.LoadRemotes adds the remote to its map
\* or notes the failure; a goroutine adds the remote anyway.
Return(p, a, answer) ==
    LET n == Act(p, a).name
    IN  IF a = "main"
        THEN [proc[p] EXCEPT !.actor[a].pc = "next", !.actor[a].answer = NoAnswer, !.next = @ + 1,
                             !.failed = IF answer.info.ok THEN @ ELSE @ \cup {n},
                             !.remoteMap = IF answer.info.ok THEN Put(@, n, answer) ELSE @]
        ELSE [proc[p] EXCEPT !.actor[a] = Resting, !.remotes = Put(@, n, answer)]

\* Without a review address the answer is an empty one.
NextRemote(p) ==
    /\ Act(p, "main").pc = "next" /\ proc[p].next <= Len(ManifestOrder)
    /\ LET n == ManifestOrder[proc[p].next]
       IN  proc' = [proc EXCEPT ![p] =
             IF Review[n] = NoAddress
             THEN [proc[p] EXCEPT !.next = @ + 1,
                                  !.remoteMap = Put(@, n, Got(Info("", ""), NoAddress, now))]
             ELSE [proc[p] EXCEPT !.actor["main"].pc = "get", !.actor["main"].name = n]]
    /\ UNCHANGED <<now, server, environment, file, saves>>

\* Project.LoadRemotes starts the goroutines.
StartProject(p) ==
    /\ Act(p, "main").pc = "next" /\ proc[p].next > Len(ManifestOrder)
    /\ proc' = [proc EXCEPT ![p].pc = "project",
                  ![p].actor = [a \in Actors |-> IF a \in ConfigRemotes
                                  THEN [Resting EXCEPT !.pc = "config", !.name = a] ELSE Resting]]
    /\ UNCHANGED <<now, server, environment, file, saves>>

\* A goroutine: a remote without URL is left out, one of the manifest has its
\* helper; otherwise AddRemote, for which a type in the configuration is enough.
Config(p, a) ==
    /\ Act(p, a).pc = "config"
    /\ LET known == a \in DOMAIN proc[p].remoteMap
           declared == Got(IF Review[a] = NoAddress THEN Failure ELSE Info(Type[a], ""), NoAddress, now)
       IN  proc' = [proc EXCEPT ![p] =
             IF a \notin HasURL THEN [proc[p] EXCEPT !.actor[a] = Resting]
             ELSE IF known THEN Return(p, a, proc[p].remoteMap[a])
             ELSE IF Review[a] = NoAddress \/ Type[a] # "" THEN Return(p, a, declared)
             ELSE [proc[p] EXCEPT
                     !.actor[a] = NewSSHInfoQuery([Act(p, a) EXCEPT !.pc = "get"], a)]]
    /\ UNCHANGED <<now, server, environment, file, saves>>

-----------------------------------------------------------------------------
(* GetSSHInfo *)

\* Variant of Unexpired: the time is not compared.
UnexpiredEver(e) == TRUE

\* The time is written as local time and read as universal time.
Unexpired(e) == e.got + Expire + Zone > now

\* The copy of the file has an answer that can be used, and it may be.
FileHit(p, a, k) ==
    /\ ~proc[p].noCache
    /\ k \in DOMAIN Act(p, a).cfg
    /\ Unexpired(Act(p, a).cfg[k]) /\ Act(p, a).cfg[k].info.type # ""

\* An address without key is an error.  The internal cache, whatever it holds, then
\* the file, then the server.
GetSSHInfo(p, a) ==
    /\ Act(p, a).pc = "get"
    /\ LET address == Review[Act(p, a).name]
           k == urlToKey(address)
       IN  proc' = [proc EXCEPT ![p] =
             IF k = NoKey THEN Return(p, a, Got(Failure, address, now))
             ELSE IF k \in DOMAIN proc[p].internal THEN Return(p, a, proc[p].internal[k])
             ELSE IF FileHit(p, a, k) THEN Return(p, a, Act(p, a).cfg[k])
             ELSE [proc[p] EXCEPT !.actor[a].pc = "query"]]
    /\ UNCHANGED <<now, server, environment, file, saves>>

Query(p, a) ==
    /\ Act(p, a).pc = "query"
    /\ LET address == Review[Act(p, a).name]
       IN  proc' = [proc EXCEPT ![p].actor[a].pc = "store",
                                ![p].actor[a].answer = Got(querySSHInfo(address), address, now)]
    /\ UNCHANGED <<now, server, environment, file, saves>>

\* Variant of Written: nothing but the new answer is written.
WrittenAlone(p, a, k, answer) == Put(NoFile, k, answer)

\* The copy of the file with the new answer: all of it is written.
Written(p, a, k, answer) == Put(Act(p, a).cfg, k, answer)

\* The answer goes to the internal cache, an error too; and what is not an error
\* to the file of the actor, good from now on.
Store(p, a) ==
    /\ Act(p, a).pc = "store"
    /\ LET f == SSHInfoCacheFile(a)
           k == urlToKey(Review[Act(p, a).name])
           answer == Got(Act(p, a).answer.info, Act(p, a).answer.from, now)
           cfg == Written(p, a, k, answer)
           q == [Return(p, a, answer) EXCEPT !.internal = Put(@, k, answer)]
       IN  IF answer.info.ok
           THEN /\ file' = [file EXCEPT ![f] = cfg] /\ saves' = [saves EXCEPT ![f] = @ + 1]
                /\ proc' = [proc EXCEPT ![p] = IF a # "main" THEN q
                        ELSE [q EXCEPT !.actor[a].cfg = cfg,
                                       !.actor[a].base = IF @ = saves[f] THEN @ + 1 ELSE @]]
           ELSE /\ proc' = [proc EXCEPT ![p] = q]
                /\ UNCHANGED <<file, saves>>
    /\ UNCHANGED <<now, server, environment>>

\* All goroutines are done: the remote of the manifest is added if the
\* configuration does not have it, and becomes the default.
Finish(p) ==
    /\ proc[p].pc = "project"
    /\ \A a \in ConfigRemotes : Act(p, a) = Resting
    /\ LET n == ProjectRemote
       IN  proc' = [proc EXCEPT ![p].pc = "done",
             ![p].internal = NoFile, ![p].remoteMap = NoFile,
             ![p].remotes = IF n \notin DOMAIN @ /\ n \in DOMAIN proc[p].remoteMap
                            THEN Put(@, n, proc[p].remoteMap[n]) ELSE @]
    /\ UNCHANGED <<now, server, environment, file, saves>>

\* Time passes, and what the hosts answer changes.
Tick ==
    /\ now < MaxTime
    /\ now' = now + 1
    /\ server' \in Servers
    /\ UNCHANGED <<environment, file, saves, proc>>

Step(p) ==
    \/ NextRemote(p) \/ StartProject(p) \/ Finish(p)
    \/ \E a \in Actors : GetSSHInfo(p, a) \/ Query(p, a) \/ Store(p, a)
    \/ \E a \in ConfigRemotes : Config(p, a)

Next ==
    \/ \E p \in Procs, noCache \in BOOLEAN : Begin(p, noCache)
    \/ \E p \in Procs : Step(p)
    \/ Tick

Spec == Init /\ [][Next]_vars

-----------------------------------------------------------------------------
(* Properties. *)

Done(p) == proc[p].pc = "done"

Addresses == {NoAddress} \cup {Review[n] : n \in Names}
Infos == [ok : BOOLEAN, type : {"", "gerrit", "agit"} \cup {Type[n] : n \in Names},
          host : {"", "other"} \cup {Review[n].host : n \in Names}]
Entries == [info : Infos, from : Addresses, got : Nat]
Caches == UNION {[K -> Entries] : K \in SUBSET Keys}
RemoteMaps == UNION {[R -> Entries] : R \in SUBSET Names}

Actor == [pc : {"rest", "next", "config", "get", "query", "store"}, name : Names \cup {""},
          cfg : Caches, base : Nat, answer : Entries]
Process == [pc : {"idle", "manifest", "project", "done"}, noCache : BOOLEAN, started : Nat,
            next : Nat \ {0}, internal : Caches, remoteMap : RemoteMaps, failed : SUBSET Names,
            remotes : RemoteMaps, actor : [Actors -> Actor]]

\* Type correctness: caches are by the keys of review addresses, and the remotes by
\* their names.
TypeOK ==
    /\ now \in 0..MaxTime /\ saves \in [CacheFiles -> Nat]
    /\ file \in [CacheFiles -> Caches]
    /\ proc \in [Procs -> Process]

\* The answers of a process: of the manifest and of the project, with their remote.
Answers(p) == {<<n, proc[p].remoteMap[n]>> : n \in DOMAIN proc[p].remoteMap}
              \cup {<<n, proc[p].remotes[n]>> : n \in DOMAIN proc[p].remotes}

Asked(answer) == answer.info.ok /\ answer.from # NoAddress

\* A remote is handled as the server at its own review address said.
\* (The standard ports count as one: http on port 443 is taken for port 80.)
AnswerOwn ==
    \A p \in Procs : \A x \in Answers(p) :
        Asked(x[2]) => /\ x[2].from.proto = Review[x[1]].proto
                       /\ x[2].from.host = Review[x[1]].host
                       /\ {x[2].from.port, Review[x[1]].port} \subseteq {0, 22, 80, 443}
                          \/ x[2].from.port = Review[x[1]].port

\* No answer that is used was saved longer ago, when the process starts, than an
\* answer is good for, by whatever slow writer it was put back into the file; and
\* with --no-cache none from before the process is used.  (Where local time is
\* ahead of universal time the code keeps answers for longer than it says.)
AnswerFresh ==
    \A p \in Procs : \A x \in Answers(p) :
        Asked(x[2]) /\ x[2].got < proc[p].started =>
            ~proc[p].noCache /\ (Zone <= 0 => proc[p].started < x[2].got + Expire)

\* When LoadRemotes ends, every remote of the configuration that has a URL is
\* there, and the default one too unless the query for it has failed.
RemotesComplete ==
    \A p \in Procs : Done(p) =>
        /\ HasURL \subseteq DOMAIN proc[p].remotes
        /\ ProjectRemote \notin proc[p].failed => ProjectRemote \in DOMAIN proc[p].remotes

\* Through both caches and in any order of the goroutines, no remote is handled as
\* another server said, and none is lost.
RemotesMean == AnswerOwn /\ RemotesComplete

\* A cache file loses an answer, or gets an older one back, only through somebody
\* who writes it although another has written it since he read it.
CacheKept ==
    [][\A f \in CacheFiles : \A k \in DOMAIN file[f] :
          (k \notin DOMAIN file'[f] \/ file'[f][k].got < file[f][k].got) =>
              \E p \in Procs, a \in Actors : /\ SSHInfoCacheFile(a) = f /\ Act(p, a).base < saves[f]
                                             /\ Act(p, a).pc = "store"
                                             /\ Act(p, a) # proc'[p].actor[a]]_vars

-----------------------------------------------------------------------------
(* The inductive invariant behind them, for each process q. *)

\* Every answer in a cache is from an address with the key it is found by, and the
\* answer that is taken for a remote from one with the key of its own address; an
\* address without key is never asked.
Keyed(f) == \A k \in DOMAIN f : urlToKey(f[k].from) = k
Own(n, answer) ==
    Asked(answer) => urlToKey(Review[n]) # NoKey /\ urlToKey(answer.from) = urlToKey(Review[n])

OwnInv(q) ==
    /\ Keyed(q.internal)
    /\ \A a \in Actors :
          /\ Keyed(q.actor[a].cfg)
          /\ q.actor[a].pc \in {"query", "store"} => urlToKey(Review[q.actor[a].name]) # NoKey
          /\ q.actor[a].pc = "store" => q.actor[a].answer.from = Review[q.actor[a].name]
    /\ \A n \in DOMAIN q.remoteMap : Own(n, q.remoteMap[n])
    /\ \A n \in DOMAIN q.remotes : Own(n, q.remotes[n])

\* No answer is from the future; what is in the internal cache the process has asked
\* itself, and so knows at least as much as the copy of the file.
Past(f, t) == \A k \in DOMAIN f : f[k].got <= t
Fresh(q, answer) ==
    Asked(answer) /\ answer.got < q.started =>
        ~q.noCache /\ q.started < answer.got + Expire + Zone

AgeInv(q) ==
    /\ q.started <= now
    /\ \A k \in DOMAIN q.internal : q.started <= q.internal[k].got
    /\ \A a \in Actors : Past(q.actor[a].cfg, now)
    /\ \A n \in DOMAIN q.remoteMap : Fresh(q, q.remoteMap[n])
    /\ \A n \in DOMAIN q.remotes : Fresh(q, q.remotes[n])

\* A copy of a file is the file as long as nobody writes it.
CopyInv(q) ==
    \A a \in Actors :
        LET f == SSHInfoCacheFile(a)
        IN  q.actor[a].base <= saves[f] /\ (q.actor[a].base = saves[f] => q.actor[a].cfg = file[f])

\* main goes through the manifest, then each goroutine has its remote until it has
\* added it.
PhaseInv(q) ==
    /\ q.pc \in {"idle", "done"} => \A a \in Actors : q.actor[a] = Resting
    /\ q.pc = "manifest" =>
          /\ \A a \in ConfigRemotes : q.actor[a] = Resting
          /\ q.actor["main"].pc \in {"next", "get", "query", "store"}
          /\ \A i \in DOMAIN ManifestOrder :
                i < q.next => ManifestOrder[i] \in DOMAIN q.remoteMap \cup q.failed
          /\ q.actor["main"].pc # "next" => /\ q.next \in DOMAIN ManifestOrder
                                            /\ q.actor["main"].name = ManifestOrder[q.next]
    /\ q.pc = "project" =>
          /\ q.actor["main"] = Resting
          /\ ManifestRemotes \subseteq DOMAIN q.remoteMap \cup q.failed
          /\ \A a \in ConfigRemotes :
                \/ q.actor[a] = Resting /\ (a \in HasURL => a \in DOMAIN q.remotes)
                \/ q.actor[a].pc \in {"config", "get", "query", "store"} /\ q.actor[a].name = a
    /\ q.pc = "done" =>
          /\ HasURL \subseteq DOMAIN q.remotes
          /\ ProjectRemote \notin q.failed => ProjectRemote \in DOMAIN q.remotes

ProcessInv(q) == OwnInv(q) /\ AgeInv(q) /\ CopyInv(q) /\ PhaseInv(q)

FileInv ==
    \A f \in CacheFiles :
        Keyed(file[f]) /\ Past(file[f], now) /\ (saves[f] = 0 => file[f] = NoFile)

RemotesInv ==
    /\ TypeOK
    /\ FileInv
    /\ \A p \in Procs : ProcessInv(proc[p])
=============================================================================
