---------------------------- MODULE SyncCommand -----------------------------
(***************************************************************************)
(* `git repo sync` as a whole: Execute in cmd/sync.go, and the project     *)
(* list it keeps (UpdateProjectList in workspace/repo-workspace.go).       *)
(*                                                                         *)
(* The phases are steps: manifest, selection, fetch, project list,         *)
(* checkout.  Several syncs may run in one workspace, each may be killed   *)
(* at any point, and `git repo init` may change the groups meanwhile.      *)
(* What the fetch and the checkout of one project do is in NetworkHalf,    *)
(* LocalHalf and ProjectSync; here they succeed or fail.                   *)
(*                                                                         *)
(* Paths are numbers: only their order matters.                            *)
(***************************************************************************)
EXTENDS Sorting

CONSTANTS Syncs,             \* syncs that may run at the same time
          Paths,             \* paths of projects, a set of numbers
          Versions,          \* commits of the manifest, 1..n
          GroupSettings,     \* what manifest.groups may be set to
          Selected(_, _, _), \* the paths in a version and file for a group setting
          HasFile(_, _),     \* whether a version has a manifest of that name
          ProjectName(_),    \* the name of the project at a path
          OptionSet,         \* the command lines that are tried
          MaxSyncs           \* bound on the syncs of one behaviour

Names == {"default", "alt"}

VARIABLES server,     \* version of the manifest on the server
          fetched,    \* version last fetched to .repo/manifests
          checkedOut, \* version in the worktree .repo/manifests
          settings,   \* manifest.groups and repo.mirror
          list,       \* the lines of project.list, <<>> if there is none
          lock,       \* project.list.lock: <<>>, or <<[owner, lines]>>
          worktree,   \* the paths with a directory in the workspace
          gitdir,     \* the paths with a repository in .repo/projects
          proc,       \* the syncs
          runs,       \* number of syncs started
          overlap     \* a sync has run beside another one or beside an init

disk == <<server, fetched, checkedOut, settings, list, lock, worktree, gitdir>>
vars == <<disk, proc, runs, overlap>>

Options ==
    [networkOnly : BOOLEAN, localOnly : BOOLEAN, detach : BOOLEAN, name : {"", "alt"},
     smart : BOOLEAN, args : {"all", "one", "unknown"}]

ASSUME SyncAssumption ==
    /\ Paths \subseteq Nat /\ IsFiniteSet(Paths)
    /\ Versions \subseteq Nat /\ 1 \in Versions
    /\ \A v \in Versions, n \in Names, g \in GroupSettings : Selected(v, n, g) \subseteq Paths
    /\ OptionSet \subseteq Options

\* Execute refuses some combinations.
ValidOptions(o) ==
    /\ ~ (o.networkOnly /\ o.detach)
    /\ ~ (o.networkOnly /\ o.localOnly)
    /\ ~ (o.name # "" /\ o.smart)

Idle == [pc |-> "idle", result |-> "none", o |-> <<>>, version |-> 0, name |-> "default",
         groups |-> "", projects |-> {}, late |-> {}, obsolete |-> <<>>, remains |-> <<>>, new |-> <<>>]

Ended(r) == [Idle EXCEPT !.result = r]
Running(s) == proc[s].pc # "idle"

Init ==
    /\ server = 1 /\ fetched = 1 /\ checkedOut = 1
    /\ settings \in [groups : GroupSettings, mirror : BOOLEAN]
    /\ list = <<>> /\ lock = <<>>
    /\ worktree = {}
    /\ gitdir = {}
    /\ proc = [s \in Syncs |-> Idle]
    /\ runs = 0
    /\ overlap = FALSE

-----------------------------------------------------------------------------
(* The manifest and the selection. *)

\* RepoWorkSpace.load and, with -m, Override, whose error is ignored.
Loaded(q, v) ==
    [q EXCEPT !.version = v, !.groups = settings.groups,
              !.name = IF q.o.name # "" /\ HasFile(v, q.o.name) THEN q.o.name ELSE "default"]

\* The command starts; smart sync is not implemented and panics.
Begin(s, o) ==
    /\ ~Running(s) /\ runs < MaxSyncs
    /\ ValidOptions(o)
    /\ runs' = runs + 1
    /\ proc' = [proc EXCEPT ![s] =
                   IF o.smart THEN Ended("failed")
                   ELSE Loaded([Idle EXCEPT !.pc = "manifest", !.o = o], checkedOut)]
    /\ overlap' = (overlap \/ \E t \in Syncs \ {s} : Running(t))
    /\ UNCHANGED disk

\* updateManifestProject; ManifestProject has its steps.  The manifest is loaded
\* again only when there was something new.
updateManifestProject(s) ==
    LET new == IF proc[s].o.localOnly THEN fetched ELSE server
    IN  /\ proc[s].pc = "manifest"
        /\ \/ /\ fetched' \in {fetched, new}
              /\ checkedOut' = checkedOut
              /\ proc' = [proc EXCEPT ![s] = Ended("failed")]
           \/ /\ new <= checkedOut
              /\ fetched' = new /\ checkedOut' = checkedOut
              /\ proc' = [proc EXCEPT ![s].pc = "select"]
           \/ /\ new > checkedOut
              /\ fetched' = new /\ checkedOut' = new
              /\ proc' = [proc EXCEPT ![s] = Loaded([proc[s] EXCEPT !.pc = "select"], new)]
        /\ UNCHANGED <<server, settings, list, lock, worktree, gitdir, runs, overlap>>

\* GetProjects with the arguments; its error is overwritten by what follows.
Select(s) ==
    /\ proc[s].pc = "select"
    /\ LET q == proc[s]
           all == Selected(q.version, q.name, q.groups)
       IN  \E ps \in SUBSET all :
             /\ CASE q.o.args = "all" -> ps = all
                  [] q.o.args = "one" -> Cardinality(ps) = 1 \/ (ps = {} /\ all = {})
                  [] OTHER -> ps = {}
             /\ proc' = [proc EXCEPT ![s].projects = ps,
                            ![s].pc = IF q.o.localOnly THEN "fetched" ELSE "fetch"]
    /\ UNCHANGED <<disk, runs, overlap>>

\* NetworkHalf waits for one result per name: a failed one ends the sync, with some
\* projects fetched; when projects share a name it may return before all are.
NetworkHalf(s) ==
    /\ proc[s].pc = "fetch"
    /\ \E done \in SUBSET proc[s].projects :
          /\ gitdir' = gitdir \cup done
          /\ \/ proc' = [proc EXCEPT ![s] = Ended("failed")]
             \/ /\ Cardinality(done) >= Cardinality({ProjectName(p) : p \in proc[s].projects})
                /\ proc' = [proc EXCEPT ![s].pc = "fetched",
                               ![s].late = proc[s].projects \ done]
    /\ UNCHANGED <<server, fetched, checkedOut, settings, list, lock, worktree, runs, overlap>>

\* A worker of NetworkHalf that nobody waits for fetches a project, or fails.
LateFetch(s) ==
    \E p \in proc[s].late :
        /\ gitdir' \in {gitdir, gitdir \cup {p}}
        /\ proc' = [proc EXCEPT ![s].late = @ \ {p}]
        /\ UNCHANGED <<server, fetched, checkedOut, settings, list, lock, worktree, runs, overlap>>

\* --network-only and mirrors stop here; an error of LoadRemotes is only logged.
Fetched(s) ==
    /\ proc[s].pc = "fetched"
    /\ proc' = [proc EXCEPT ![s] = IF proc[s].o.networkOnly \/ settings.mirror
                                   THEN Ended("ok") ELSE [proc[s] EXCEPT !.pc = "list"]]
    /\ UNCHANGED <<disk, runs, overlap>>

-----------------------------------------------------------------------------
(* UpdateProjectList *)

\* Variant of findObsoletePaths: what is left of the old list is forgotten.
findObsoletePathsShort(old, new) ==
    LET o == Sorted(old)
        n == Sorted(new)
        from[at \in (1..Len(o) + 1) \X (1..Len(n) + 1)] ==
            LET i == at[1]
                j == at[2]
            IN  IF i > Len(o) \/ j > Len(n) THEN <<>>
                ELSE IF o[i] < n[j] THEN <<o[i]>> \o from[<<i + 1, j>>]
                ELSE IF o[i] > n[j] THEN from[<<i, j + 1>>]
                ELSE from[<<i + 1, j + 1>>]
    IN  from[<<1, 1>>]

\* The two sorted lists are merged; what only the old one has is obsolete.
findObsoletePaths(old, new) ==
    LET o == Sorted(old)
        n == Sorted(new)
        from[at \in (1..Len(o) + 1) \X (1..Len(n) + 1)] ==
            LET i == at[1]
                j == at[2]
            IN  IF i > Len(o) THEN <<>>
                ELSE IF j > Len(n) THEN SubSeq(o, i, Len(o))
                ELSE IF o[i] < n[j] THEN <<o[i]>> \o from[<<i + 1, j>>]
                ELSE IF o[i] > n[j] THEN from[<<i, j + 1>>]
                ELSE from[<<i + 1, j + 1>>]
    IN  from[<<1, 1>>]

\* All projects of the manifest, whatever the arguments, for the groups the
\* configuration has now; and the old list.
ReadList(s) ==
    /\ proc[s].pc = "list"
    /\ LET new == SortedSeq(Selected(proc[s].version, proc[s].name, settings.groups))
       IN  proc' = [proc EXCEPT ![s].new = new,
                                ![s].obsolete = findObsoletePaths(list, new),
                                ![s].pc = "obsolete"]
    /\ UNCHANGED <<disk, runs, overlap>>

Keep(q) == [q EXCEPT !.obsolete = Tail(@), !.remains = Append(@, Head(q.obsolete)), !.pc = "obsolete"]
Drop(q) == [q EXCEPT !.obsolete = Tail(@), !.pc = "obsolete"]

\* removeObsoletePaths, one path: without a worktree its repository will go; a
\* directory that is not a worktree, a dirty and (for now) a clean one remain.
ObsoletePath(s) ==
    /\ proc[s].pc = "obsolete" /\ proc[s].obsolete # <<>>
    /\ LET p == Head(proc[s].obsolete)
       IN  proc' = [proc EXCEPT ![s] = IF p \in worktree THEN Keep(proc[s])
                                       ELSE IF p \in gitdir THEN [proc[s] EXCEPT !.pc = "remove"]
                                       ELSE Drop(proc[s])]
    /\ UNCHANGED <<disk, runs, overlap>>

\* os.RemoveAll of the repository and its empty parents; the path remains if it fails.
RemoveGitDir(s) ==
    /\ proc[s].pc = "remove"
    /\ \/ /\ gitdir' = gitdir \ {Head(proc[s].obsolete)}
          /\ proc' = [proc EXCEPT ![s] = Drop(proc[s])]
       \/ /\ proc' = [proc EXCEPT ![s] = Keep(proc[s])]
          /\ UNCHANGED gitdir
    /\ UNCHANGED <<server, fetched, checkedOut, settings, list, lock, worktree, runs, overlap>>

\* Variant of TakeLock: the lock file is opened without O_EXCL.
TakeLockShared(s) ==
    /\ proc[s].pc = "obsolete" /\ proc[s].obsolete = <<>>
    /\ lock' = <<[owner |-> s, lines |-> <<>>]>>
    /\ proc' = [proc EXCEPT ![s].pc = "write"]
    /\ UNCHANGED <<server, fetched, checkedOut, settings, list, worktree, gitdir, runs, overlap>>

\* The lock file is created, or is there already: log.Fatal.
TakeLock(s) ==
    /\ proc[s].pc = "obsolete" /\ proc[s].obsolete = <<>>
    /\ \/ /\ lock = <<>>
          /\ lock' = <<[owner |-> s, lines |-> <<>>]>>
          /\ proc' = [proc EXCEPT ![s].pc = "write"]
       \/ /\ lock # <<>>
          /\ proc' = [proc EXCEPT ![s] = Ended("failed")]
          /\ UNCHANGED lock
    /\ UNCHANGED <<server, fetched, checkedOut, settings, list, worktree, gitdir, runs, overlap>>

\* The paths of the manifest, then the obsolete ones that remain.  A write that
\* fails leaves the lock file behind.
WriteLock(s) ==
    /\ proc[s].pc \in {"write", "writeRemains"} /\ lock # <<>>
    /\ \/ /\ lock' = <<[lock[1] EXCEPT !.lines =
                         @ \o IF proc[s].pc = "write" THEN proc[s].new ELSE proc[s].remains]>>
          /\ proc' = [proc EXCEPT ![s].pc = IF @ = "write" THEN "writeRemains" ELSE "rename"]
       \/ /\ proc' = [proc EXCEPT ![s] = Ended("failed")]
          /\ UNCHANGED lock
    /\ UNCHANGED <<server, fetched, checkedOut, settings, list, worktree, gitdir, runs, overlap>>

RenameLock(s) ==
    /\ proc[s].pc = "rename" /\ lock # <<>>
    /\ \/ /\ list' = lock[1].lines
          /\ lock' = <<>>
          /\ proc' = [proc EXCEPT ![s].pc = "checkout"]
       \/ /\ proc' = [proc EXCEPT ![s] = Ended("failed")]
          /\ UNCHANGED <<list, lock>>
    /\ UNCHANGED <<server, fetched, checkedOut, settings, worktree, gitdir, runs, overlap>>

-----------------------------------------------------------------------------
(* The checkout, and the others. *)

\* Variant of LocalHalf: obsolete paths that remain are only logged.
LocalHalfLenient(s) ==
    /\ proc[s].pc = "checkout"
    /\ worktree' = worktree \cup proc[s].projects
    /\ proc' = [proc EXCEPT ![s] = Ended("ok")]
    /\ UNCHANGED <<server, fetched, checkedOut, settings, list, lock, gitdir, runs, overlap>>

\* LocalHalf makes the directory of a project first, and fails when it has no
\* repository; afterwards obsolete paths that remain make the sync fail.
LocalHalf(s) ==
    /\ proc[s].pc = "checkout"
    /\ \E made \in SUBSET proc[s].projects :
          /\ worktree' = worktree \cup made
          /\ \/ proc' = [proc EXCEPT ![s] = Ended("failed")]
             \/ /\ made = proc[s].projects /\ made \subseteq gitdir
                /\ proc' = [proc EXCEPT ![s] =
                               Ended(IF proc[s].remains # <<>> THEN "failed" ELSE "ok")]
    /\ UNCHANGED <<server, fetched, checkedOut, settings, list, lock, gitdir, runs, overlap>>

\* The process is killed; a lock file it has made stays.
Kill(s) ==
    /\ Running(s)
    /\ proc' = [proc EXCEPT ![s] = Ended("failed")]
    /\ UNCHANGED <<disk, runs, overlap>>

\* ManifestProject.SaveSettings: repo.mirror is set but never unset.
SaveSettings(q) == settings' = [q EXCEPT !.mirror = @ \/ settings.mirror]

\* git repo init -g, with the other options as they were: --mirror and --archive
\* are refused in a workspace that exists.
InitGroups(g) ==
    /\ g # settings.groups
    /\ SaveSettings([settings EXCEPT !.groups = g])
    /\ overlap' = (overlap \/ \E s \in Syncs : Running(s))
    /\ UNCHANGED <<server, fetched, checkedOut, list, lock, worktree, gitdir, proc, runs>>

\* A new manifest is pushed.
ServerPush ==
    /\ server + 1 \in Versions
    /\ server' = server + 1
    /\ UNCHANGED <<fetched, checkedOut, settings, list, lock, worktree, gitdir, proc, runs, overlap>>

\* The user removes a worktree, or a lock file that nobody holds.
UserRemoves(p) ==
    /\ p \in worktree
    /\ worktree' = worktree \ {p}
    /\ UNCHANGED <<server, fetched, checkedOut, settings, list, lock, gitdir, proc, runs, overlap>>

Stale == lock # <<>> /\ proc[lock[1].owner].pc \notin {"write", "writeRemains", "rename"}

UserRemovesLock ==
    /\ Stale
    /\ lock' = <<>>
    /\ UNCHANGED <<server, fetched, checkedOut, settings, list, worktree, gitdir, proc, runs, overlap>>

\* One step of a sync.
Step(s) ==
    \/ updateManifestProject(s) \/ Select(s) \/ NetworkHalf(s) \/ LateFetch(s) \/ Fetched(s)
    \/ ReadList(s) \/ ObsoletePath(s) \/ RemoveGitDir(s)
    \/ TakeLock(s) \/ WriteLock(s) \/ RenameLock(s) \/ LocalHalf(s)

Next ==
    \/ \E s \in Syncs : (\E o \in OptionSet : Begin(s, o)) \/ Step(s) \/ Kill(s)
    \/ \E g \in GroupSettings : InitGroups(g)
    \/ ServerPush
    \/ \E p \in Paths : UserRemoves(p)
    \/ UserRemovesLock

Spec == Init /\ [][Next]_vars

-----------------------------------------------------------------------------
(* Properties. *)

Process ==
    [pc : {"idle", "manifest", "select", "fetch", "fetched", "list", "obsolete", "remove",
           "write", "writeRemains", "rename", "checkout"},
     result : {"none", "ok", "failed"}, o : Options \cup {<<>>}, version : Versions \cup {0},
     name : Names, groups : GroupSettings \cup {""}, projects : SUBSET Paths,
     late : SUBSET Paths, obsolete : Seq(Paths), remains : Seq(Paths), new : Seq(Paths)]

\* Type correctness: what is in project.list and its lock file are paths, and a sync
\* holds only paths of projects.
TypeOK ==
    /\ {server, fetched, checkedOut} \subseteq Versions
    /\ settings \in [groups : GroupSettings, mirror : BOOLEAN]
    /\ list \in Seq(Paths)
    /\ lock \in Seq([owner : Syncs, lines : Seq(Paths)]) /\ Len(lock) <= 1
    /\ worktree \in SUBSET Paths /\ gitdir \in SUBSET Paths
    /\ proc \in [Syncs -> Process]
    /\ runs \in Nat /\ overlap \in BOOLEAN

\* Every worktree that sync has made is on project.list until the user removes
\* it, through kills, failures, other manifests and other groups: else it would
\* never be reported as obsolete.  Only overlapping commands lose one.
WorktreeListed ==
    ~overlap => worktree \subseteq ToSet(list)

\* project.list is replaced as a whole, also by syncs at the same time: by the
\* paths of the sync that replaces it and nothing else.
ListWhole ==
    [][list' # list => \E s \in Syncs : /\ proc[s].pc = "rename"
                                        /\ list' = proc[s].new \o proc[s].remains]_vars

\* A sync of all projects that reports success leaves exactly the worktrees of
\* its manifest, whatever was in the workspace before.
SuccessMeansSynced ==
    [][\A s \in Syncs :
          /\ proc[s].pc = "checkout" /\ proc'[s].result = "ok" /\ proc[s].o.args = "all"
          /\ ~overlap
          => worktree' = Selected(proc[s].version, proc[s].name, settings.groups)]_vars

-----------------------------------------------------------------------------
(* The inductive invariant behind them. *)

Writing == {"write", "writeRemains", "rename"}
Listing == {"obsolete", "remove", "checkout"} \cup Writing

\* All projects of the manifest a sync has loaded.
All(q) == Selected(q.version, q.name, q.groups)

\* What a sync q has chosen: from the selection on, projects of its manifest.  It has
\* a result only when it has ended.
ChoiceInv(q) ==
    /\ q.pc # "idle" => /\ q.result = "none" /\ q.o \in Options
                        /\ q.version \in Versions /\ q.groups \in GroupSettings
    /\ q.pc \in Listing \cup {"fetch", "fetched", "list"} =>
          q.projects \subseteq All(q) /\ (q.o.args = "all" => q.projects = All(q))
    /\ q.pc = "remove" => q.obsolete # <<>>
    /\ q.pc \in Writing \cup {"checkout"} => q.obsolete = <<>>

\* A sync that writes holds the lock file, with what it has written so far.
WrittenLines(q) ==
    IF q.pc = "write" THEN <<>> ELSE IF q.pc = "writeRemains" THEN q.new ELSE q.new \o q.remains
LockInv ==
    \A s \in Syncs : proc[s].pc \in Writing =>
        lock = <<[owner |-> s, lines |-> WrittenLines(proc[s])]>>

\* Without overlap one sync runs at most, with the groups of the configuration.
AloneInv ==
    ~overlap => \A s \in Syncs : Running(s) =>
        /\ proc[s].groups = settings.groups
        /\ \A t \in Syncs : Running(t) => t = s

\* A sync q that is past reading the list still has every worktree on one of its own
\* lists; a repository it is about to remove has none.
ListedInv(q) ==
    /\ q.pc \in Listing =>
          /\ ToSet(q.new) = All(q)
          /\ worktree \subseteq ToSet(q.new) \cup ToSet(q.remains) \cup ToSet(q.obsolete)
    /\ q.pc = "remove" => Head(q.obsolete) \notin worktree
    /\ q.pc = "checkout" => ToSet(q.new) \cup ToSet(q.remains) \subseteq ToSet(list)

SyncInv ==
    /\ TypeOK /\ LockInv /\ AloneInv /\ WorktreeListed
    /\ \A s \in Syncs : ChoiceInv(proc[s]) /\ (~overlap => ListedInv(proc[s]))
=============================================================================
