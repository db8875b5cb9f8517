# A TLA+ verification of git-repo-go

git-repo-go keeps a workspace of many git repositories in step with a manifest.
This directory models the parts of it in which order, failure, concurrency or
an intricate rule matter, checks them with TLC on small instances, and proves the safety of the
two sync pools, of one project, of the manifest project, of topic branches, of the
sync command, of forall and status, of the remotes and of upgrade with TLAPS for every
instance.

All paths below are relative to `src/`.

## 1. The system

| Component | State it keeps | Operations | Where |
|---|---|---|---|
| Fetch pool | channels of names and results, workers | `NetworkHalf` | `cmd/sync.go` |
| Checkout pool | channel of trees, WaitGroup, slice of errors | `LocalHalf` | `cmd/sync.go` |
| Project | one git repository: refs, tracking, HEAD, worktree | `SyncNetworkHalf`, `SyncLocalHalf`, `StartBranch`, `CleanPublishedCache` | `project/*.go` |
| Manifest project | `.repo/manifests`: the same, and whether it exists | `init`, `updateManifestProject` | `cmd/init.go`, `cmd/sync.go`, `project/manifest_project.go` |
| Sync command, project list | `.repo/project.list`, its lock file, worktrees, repositories | `Execute`, `UpdateProjectList`, removal of obsolete repositories | `cmd/sync.go`, `workspace/repo-workspace.go` |
| Topic branches | local branches, `refs/published` | `start`, `prune`, `abandon`, `upload` | `cmd/*.go`, `project/upload.go` |
| Project tree | paths of projects | `ProjectsTree` | `project/project.go` |
| Manifest | projects, remotes, groups, includes | load, include, merge, extend, remove | `manifest/manifest.go`, `project/group.go` |
| forall, status | channels, workers, the environment of the process | `RunCommand`, `Status` | `cmd/forall.go`, `cmd/status.go`, `project/status.go` |
| download | one repository | fetch of a review, then checkout, cherry-pick, revert or fast forward | `cmd/download.go`, `project/download.go` |
| Remotes | caches of ssh_info answers, one in the process and a file per repository, with an expiry | `LoadRemotes` | `workspace/remote.go`, `helper/` |
| upgrade | installed program, the file `<program>-new` | check, download, verify, install | `cmd/upgrade.go` |
| Protocol helpers, configuration, hooks, paths, editor, command line | none of their own | text and files | the other packages |

How they meet. `sync` first updates the manifest project (it is an ordinary
project with a checkout of its own), reloads the manifest, hands all projects
to the fetch pool, removes what the manifest no longer names, and hands all
projects to the checkout pool. A pool runs the methods of `Project`, one
project per worker; projects of one name share one objects repository, and a
project may be nested in the worktree of another. The user works in the same
worktrees, at the same time, with plain git; the server moves branches at any
time.

What is hard in it:

- bounded channels between feeder, workers and collector, where the number of
  results expected and the number sent must agree;
- goroutines that send to the channel they are fed from, and a WaitGroup that
  decides when it may be closed;
- a slice of errors to which all workers append without a lock;
- `SyncLocalHalf` decides on what it has read and then runs a git command on
  what is there by then;
- long histories: a rebase stopped by a conflict, a manifest that switches
  between branches and tags, branches that vanish on the server, over many
  syncs;
- `init` and `sync` that fail or are interrupted half way and are run again;
- files replaced as a whole by processes that do not know of each other:
  `project.list`, the cache of ssh_info answers, the program itself;
- rules with many cases: includes, merge, groups, nested paths, versions.

## 2. Modules

| Module | Models | Role |
|---|---|---|
| `TaskPool` | what a pool promises | abstract specification |
| `NetworkHalf` | `syncCommand.NetworkHalf` | implements `TaskPool` when names are distinct |
| `LocalHalf` | `syncCommand.LocalHalf` | implements `TaskPool` |
| `GitProject` | one repository, the user, the server | state and environment, no specification |
| `ProjectSync` | fetch, `SyncLocalHalf`, `StartBranch` | extends `GitProject` |
| `ManifestProject` | `init` and `updateManifestProject` | composes `ProjectSync` with the two commands |
| `TopicBranches` | `upload`, `prune`, `abandon` of one project | composes `ProjectSync` with the three commands |
| `SyncCommand` | `syncCommand.Execute`, `UpdateProjectList` | the phases of `sync`, for several syncs at a time |
| `Manifest` | `manifest/manifest.go` | pure operators, no specification |
| `Workspace` | `loadProjects`, `GetProjects`, `ProjectsTree`, `FreezeManifest` | extends `Manifest` |
| `CommandPool` | `forall`, `status` | a third pool, with what its workers do |
| `Sorting` | `sort.Strings` (external) | used by `SyncCommand` and `CommandPool` |
| `Remotes` | `LoadRemotes`, `GetSSHInfo` | processes and goroutines around two cache files |
| `Upgrade` | `upgrade` | processes around one installed program |
| `NetworkHalfProofs`, `LocalHalfProofs`, `SyncCommandProofs`, `CommandPoolProofs`, `RemotesProofs`, `UpgradeProofs` | | theorems about the module of that name |
| `ProjectProofs` | | theorems about `ProjectSync`, `ManifestProject` and `TopicBranches` |
| `NatSets` | | facts the proofs share: least and greatest elements, induction, what sorting returns |
| `MC*` | | instances for TLC |

### TaskPool

A task is pending, running, then ok or failed. It starts after the tasks in
`Before`, never beside one in `Conflict`; the caller hears `error` or `nil`
once, after the last task. Both pools are mapped to it by their own variables
`status` and `result`.

### NetworkHalf

A project is its index in `allProjects`. `jobTasks` and `jobResults` are the
two channels with their capacity `Jobs`; a send waits for room, a receive for an
element. `Feed` and `CloseTasks` are the feeder; Go iterates over a map in any
order, so any unsent name may be next. `TakeName`, `EndFetch`, `SendResult`,
`WorkerExit` are a worker: it fetches the projects of a name one by one (`todo`
is what is left of them) and sends one result each. `Collect` receives one result
per *name* (`len(projectsByName)`), then `Return`. A fetch is one step to begin
and one to end, well or badly.

### LocalHalf

Node 0 is the root tree; `Parent` gives any tree of projects. `TakeTree`,
`EndCheckout`, `Spawn`, `WgDone` follow the worker. The goroutine that `Spawn`
starts for tree `t` is `sending[t]`, the subtrees it has still to send.
`errs = append(errs, err)` is a data race: it is split into a read (`ReadErrs`)
and a write (`WriteErrs`) of the slice, so that one worker may overwrite what
another wrote in between. The order and number of errors are abstracted to a set;
a torn read of the three words of a slice header is not modelled.

### GitProject and ProjectSync

A commit is the set of changes in its history; a change has an identity and the
identities it was made on, so that a rebased change is another commit with the
same identity. `rev-list a --not b` is set difference. `{}` is a reference that
does not resolve. What git does (commit, merge, rebase, with or without a
conflict) is external and modelled from how the code calls it.

`SyncRead` is `SyncLocalHalf` up to its git command: `Decide` follows the
tests and early returns in their order. `SyncRun` is that command and the
closing `PostUpdate`; the user may act in between. A `rev-list` may fail (`bad`
is the one that does); the code goes on with an empty list, and `sync.blind`
records that the command was chosen by it. While a rebase is stopped, edits and
unresolved paths may be in the way of a checkout (`InTheWay`), but once they are staged
git lets the user, `start` and `sync` move HEAD, with the rebase still stopped
behind it. `CleanPublishedCache`, which `SyncLocalHalf` calls first, is part of
`SyncRead`. `PostUpdate` sets the
tracking branch of the branch that *was* current; its other steps (submodules,
hooks, copied and linked files) may fail and are otherwise left out. `FetchRefs`
has the options that decide which references move: prune, current branch only,
no tags. `LocalHalfOptions` are the checkout options `sync` passes on, of which
`CheckPublished` is not one. Not modelled: archive checkouts, clone depth,
references and submodules.

### ManifestProject

`run` is the command in progress. `InitBegin`, `ManifestFetch` or
`ManifestFetchFails`, `InitCheckout`, `RunCommand`, `InitStart` are the stages
of `initCommand.Execute`; `SyncBegin`, the fetch, `SyncCheckout`, `RunCommand`
those of `updateManifestProject`. Each may be interrupted (`Interrupt`) and
followed by any other command. The user edits and commits beside them, and moves HEAD
between commands only (`Bystanders`). `SyncCheckout` has the look at new commits of
`updateManifestProject`, which fails when the reference does not resolve. `run.work`,
what only a branch holds when `SyncLocalHalf` begins, is a history variable. The settings `init` stores, mirrors, archives,
groups and its questions to the user are left out.

### TopicBranches

`up` is the upload in progress, `pr` the prune or abandon, `pushed[b]` the commits
of branch `b` that the review server has got. `NoChange`, `UploadSkip` and `UploadRead` are `GetUploadableBranch`;
`UploadConfirm` the questions (`UploadForReviewWithEditor` only asks one of
them, by its script); `UploadPush` is `UploadAndReport` up to the end of
`git push`, which may fail; `UploadResolve` and `UploadMark` are `UpdateRef`, which
resolves the branch and then sets `refs/published` to that.
`PruneRead` reads the branches and compares the current one with its upstream,
`PruneDetach` detaches HEAD, `PruneChoose` tells the branches for `git branch -D`
from those for `-d`, `PruneForce` and `PruneDelete` are the two calls, `PruneReport`
the look at what is left, `PruneScan` and `PruneClean` the two halves of
`CleanPublishedCache`. Every one of these steps may be followed by one of `sync`, `start`,
the user and the server, or by an interrupt, with one exception: HEAD is not detached
between the reads and the git command of a sync of the same project. `UploadReadSingle` is an upload with `--single`, which goes by `--dest` and the
tracking branch and ends with `UploadScan` and `UploadClean`; `UploadEdit` is the
answer given in the editor. `raced` and `pr.loose` are history variables: the branches
that moved between their push and the look at them for its mark, and those that were
abandoned with `--force` or tracked nothing when prune looked. One branch is uploaded at a time; `--change`, the options
file of the editor and the options of `git push` are left out.

### SyncCommand

`proc[s]` is a sync, `pc` the phase it is in: `updateManifestProject`, `Select`,
`NetworkHalf`, `Fetched`, then `UpdateProjectList` in its steps (`ReadList`,
`ObsoletePath` and `RemoveGitDir` per obsolete path, `TakeLock`, `WriteLock`
twice, `RenameLock`), then `LocalHalf`. A version of the manifest, a manifest
file (`-m`) and a group setting give the selected paths (`Selected`).
`findObsoletePaths` is the merge of two sorted lists; `Sorted` (`sort.Strings`) is an
order of the list, chosen, which for numbers is the only one. Each phase may fail and
each sync may be killed (`Kill`), with the lock file left behind. When projects share a
name (`ProjectName`) `NetworkHalf` may return before all are fetched, and `LateFetch`
is a worker that goes on. `InitGroups` is
`git repo init -g`, which other syncs may or may not notice; `overlap` is a
history variable that records that commands ran at the same time. Archives
and submodules are left out, and so are paths on the list that the code ignores as
malformed.

### Manifest and Workspace

A path or name is a sequence of tokens with the order of their characters, so
that prefixes, joins and sorting are those of the strings. `parseXML`, `Merge` and
the steps of it, `LoadFile` and `AllProjects` follow the functions of
`manifest.go`; an error is a value, and so is the end of the program by
`log.Fatal` or by a nil pointer. `Workspace` has one step per stage: `Load`,
then `Select`, then `MakeTree` for the checkout pool, or `Freeze` for
`manifest -r`. `Manifest` uses `RECURSIVE` operators, so nothing is proved
about these two.

### CommandPool

The pool of `forall` and `status` (`Feed`, `TakeTask`, `SendResult`, `Collect`)
with capacity `jobs`. `SetEnv` is `os.Setenv`, three times, on variables of
the whole process; `ExecuteCommand` records what the command then sees.
`StatusRebase`, `DiffIndex`, `DiffFiles`, `ListOthers` are `Project.Status`;
the output of git is a sequence of tokens, `Encode` writes it (external) and
`parseGitStatus` and `combineGitStatus` read it; an entry has two paths when it is a
copy or a rename, and an unmerged path is listed twice by `git diff-files`. `Missing`
says which projects may have no worktree. A git command may fail, with a message on
stderr or without one, and a user may edit between two of them. Two differences between the commands are
kept: `forall` sends nil for a project that is not there, `status` an error.

### Remotes

`proc[p]` is a process. `NextRemote` goes through the remotes of the manifest, then
the goroutines of `Project.LoadRemotes` run, one per remote of the
configuration, then `Finish` adds the default remote. Each goes through
`GetSSHInfo`: the cache of the process, the cache file as it was when the query
object was made (`FileHit`), the server (`Query`), and `Store`, which writes the
whole file. A repository has a cache file of its own (`SSHInfoCacheFile`,
`project/repository.go:304-307`): the main goroutine uses that of the manifest
project, the goroutines of a project share the project's. A process works on one
project here. An address that is neither http nor ssh has no key, which is an error.
Time is in units of hours; `Zone` is the offset between the time that
is written and the time that is read. What a server answers is a small set of
kinds of text (`sshInfoFromString`). `saves` and `base` count the writes of a file and
remember when a copy was made; only properties read them.

### Upgrade

Files are inodes with two blocks, so that a rename, a write to an open file and a
kill between two writes are told apart. `GetUpgradeInfo`, `Decide`, `NextURL`,
`Download` with `ShowProgress`, `StatFails`, `CopyEnds` and `WaitProgress`,
`ExtractAndVerify`, `AskUser`, `OpenNew`, `WriteBlock`, `Rename` are the steps of
`Execute`. A package is a sequence of entries, each good or damaged; a
version is a sequence of components, a number or a word each.

## 3. Runs

Eleven runs pass; `workspace_extend` shows a difference between documentation and code.

| Run | Instance | States | Shows |
|---|---|---|---|
| `network_distinct` | 3 projects, 3 names, 2 jobs | 2,946 | the pool implements `TaskPool`: it returns, after the last fetch, with an error exactly when one failed |
| `network_shared` | 4 projects, 3 names, 2 jobs | 10,034 | no two fetches into one repository, none twice; it returns |
| `local_half` | 5 projects in a tree of depth 3, 2 jobs | 28,440 | implements `TaskPool`; no panic, no deadlock, no lost failure, no worker left behind |
| `project_sync` | a branch, a tag, one local branch, two changes of the server, one of the user, with fairness | 324,224 | committed and uncommitted work survives; a stopped rebase is the user's; a success means the revision is there; repeated syncs converge |
| `manifest_project` | two branches, `default` | 1,618,903 | a successful `init` that knows its branch leaves a tracking branch; local commits are kept unless the list of them is missing |
| `topic_branches` | a branch, a local branch, one change of each side, two commands at a time | 846,156 | work leaves the branches only where the server or HEAD has it, or where `-D` is meant; an upload skips only what the server has |
| `workspace` | 6,385 layouts of files, 3 group settings, 4 argument lists | 229,364 | merge, include, selection, tree and frozen manifest agree with their reference definitions |
| `workspace_extend` | the same | violated | an `extend-project` without `path` does not change all projects of its name |
| `sync_command` | 2 syncs of 8 kinds, 3 paths, 2 names, 2 versions, 2 group settings | 416,336 | `project.list` is whole and forgets no worktree; success means a workspace in step |
| `command_pool` | 3 projects, 1 or 2 jobs, 5 kinds of worktree, one failure, one edit | 747,149 | every project once; status prints what is there; the pool returns |
| `remotes` | 2 processes, 2 remotes of the manifest and 2 of the configuration, one host, 3 points in time | 1,221,035 | answers belong to their server and expire; no remote is lost; a cache file is lost only one way |
| `upgrade` | 2 upgrades, 3 versions, 6 kinds of package each | 42,074 | the program is whole at every moment, verified and newer; the command ends |

Bounds. The pools need more tasks than the channel holds (`Jobs` = 2, the
channels too), a name with two projects beside others, and a tree in which a
node has more children than the channel holds. In the repository models every
identity is made once, so `UpIds` and `LocalIds` bound the changes: with one
of the user and one of the server the two can diverge, conflict, be rebased or
merged and be accepted by review; the number of syncs, fetches, switches and
interrupts is not bounded. One tag gives immutable revisions, two
branches a switch. The theorems cover several local branches; the runs have one, and
in `project_sync` HEAD still leaves it, for a commit and in a stopped rebase.
`topic_branches` lets two of upload, prune and sync run at a
time (`MaxRunning`), besides the user, `start` and the server. No state constraint is used;
its view `Live` leaves out what no later step and no state property can tell: `last`,
what a command holds but is done with, and which commit a published reference names
once the server has it or the branch is in `raced` (sync looks at that only for the
manifest project).

In `workspace` the files cover shared and nested names, `.git` suffixes,
immutable and missing revisions, a circle of includes, and each of remove, extend
and override in a later file; `MaxDepth` is 2 instead of 10. In `sync_command`
two syncs may follow each other or overlap; the second version moves one
project, which makes its old path obsolete, and only one version has the file of
`-m`. Two of its projects share a name, so that a fetch is left to nobody. In `command_pool`
two jobs and three projects fill both channels; the
worktrees have a rename followed by another entry, a file that is deleted
from the index and still there, and an unmerged path. In `remotes` time passes the
expiry once (`Expire` is 2 instead of 12), one host has several ports and protocols,
and one remote has an address without key; two processes, with and without
`--no-cache`, write both files. Other answers, environments and zones are in the
theorems only. In `upgrade` the versions are 1.0.rc, 1.0
and 1.0.1. `MaxSyncs` and `MaxRuns` bound the commands of one behaviour,
`MaxFaults` and `MaxEdits` the failures and edits, `MaxTime` the clock.

Symmetry is used in `sync_command` and `remotes`, where no liveness is checked.

Deadlock is checked in `manifest_project` and `topic_branches`. It is off where
the processes end (the pools, `workspace`, `sync_command`, `remotes`, `upgrade`)
and for `ProjectSync`, where the server may always act and the check says nothing.

Fairness. In the pools, weak fairness of each goroutine: the Go scheduler runs
what can run, and a git command ends. Channels are first come first served
among the receivers, but no property needs it. In `LiveSpec`, the user goes on
to run `sync`, and network and git work again and again: strong fairness of a plain
fetch and of a `SyncRead` in which no `rev-list` fails, weak fairness of `SyncRun`;
server, manifest and user are not fair. In `CommandPool`, weak fairness of the feeder, the collector and
each worker. In `Upgrade`, weak fairness of both goroutines: a transfer ends,
well or badly, and the user answers a question; kills are not fair, nor is
`StatFails`, so the goroutine that shows the progress ends because it is told.

Properties with a condition. Five properties hold only while commands do not overlap
(`WorktreeListed`, `SuccessMeansSynced`, `ProgramWhole`,
`NoSilentDowngrade` and `InstallsVerified` by their `~overlap`), the environment in
`RunOnce` for one job, `StatusMeans` without an edit meanwhile and of projects in which
no git command failed unheard. `SyncReachesRevision` and `ManifestWorkKept` do not
speak of a sync that was `blind`, `SkipOnlyUploaded` not of a branch that `raced`,
`AnswerFresh` gives no bound where local time is ahead of universal time, and
`MergeMeans` no projects for the files of `Undocumented`. In each of these cases the code
does otherwise, and has no lock or look that would give more (below); the steps are
in the model, and the properties
without the condition (`ListWhole`, `CacheKept`, the rest of `RunOnce`,
all liveness) are checked through them. That prune leaves no published reference
without its branch, that it never deletes tracked work that was committed late, or that a
repository in use is never removed is not claimed: an interrupt, a commit or another
sync between two steps breaks it.

`ImplementsTaskPool` says in one property that a pool returns, after the last task,
with an error exactly when one failed, and that a nested project waits for the one
around it. Type invariants are run for the two pools; those of the other modules with
a proof module are proved, as parts of their inductive invariants.

### What the code does otherwise

Met while translating; the properties are stated so that they say what does hold.

Sync:
- The fetch collector expects one result per name and the workers send one per
  project (`cmd/sync.go:331`, `:311-315`). With a shared name `NetworkHalf`
  returns early, even with `nil` when a later fetch fails, and workers may stay
  blocked; `ImplementsTaskPool` is checked for distinct names only.
- The errors of `Override` (`cmd/sync.go:457`) and of `GetProjects` (`:494`) are
  lost: an unknown project name syncs nothing and reports success.
- `--check-published` does not reach `SyncLocalHalf` (`:363`), where the test for
  it is.
- `project.list` is read before the lock is taken, so overlapping syncs lose
  lines; a lock file left by a kill makes every later sync fail until it is
  removed by hand. Overlapping syncs may remove a repository that was just
  checked out (`workspace/repo-workspace.go:531`).
- A `rev-list` that fails is logged and taken for nothing new
  (`project/local-half.go:302`): the sync reports success without updating.
- A stopped rebase is only looked for while HEAD is detached
  (`project/local-half.go:246-248`); after a checkout in the middle of it a sync moves
  the branch that is current.
- `sync -l` makes the directory of a project that has no repository, then fails.
- In the tree of projects a nested project is separated from its parent by a path
  with `-` or `.` in between (`project/project.go:624`): of `a`, `a-b` and `a/c` the last
  is at the root, and may be checked out before the first. `TreeMeans` allows a
  separated project at the root (`Adjoining`) and also its right place.

Manifest project:
- When the first `init` is interrupted after the checkout, or its checkout
  fails, the next one is no longer `isNew` and has no revision
  (`cmd/init.go:372`); it succeeds with a branch that tracks nothing, and `sync`
  never updates the manifest. `InitTracks` is about an `init` that knows its branch.
- The errors of `ResolveRemoteTracking` and `Revlist` are overwritten
  (`project/local-half.go:351-352`): when the old tracking reference is gone or
  `rev-list` fails, local commits are reset away, although the error message (`:354`)
  makes `--detach` the way to throw them away. `ManifestWorkKept` speaks of the other
  resets, those that are not `blind`. What the user edits or commits between the look and the
  reset is lost as well.
- A later `init` with HEAD detached recreates `default` there with `git checkout -B`
  (`cmd/init.go:376-384`), whatever commits it had.
- `init --archive` is never stored (`cmd/init.go:296-303`).

Manifests:
- `remove-project` acts on the projects of its own file too
  (`manifest/manifest.go:496`), so a project removed and defined in one file is
  gone, or a duplicate path, although `docs/manifest-format.md:353-355` offers
  this to replace it; of two `extend-project` for one name in a file the last one
  counts. `extend-project` without a path applies only to a project
  whose path is its name (`:515`), although `docs/manifest-format.md:319-320` has it for all
  projects of the name: `workspace_extend`.
- A manifest without `<default>` may end the program with a nil pointer
  (`project/project.go:456`). A project named by two arguments is returned twice.
- `manifest -r` leaves projects without a worktree as they are, silently.

Topic branches:
- A branch without tracking information is deleted with `-D` without `--force`
  (`cmd/prune.go:198`), merged or not, and reported as "Pruned branches (already
  merged)" (`:264`).
- A prune that is interrupted before `CleanPublishedCache`, or an upload that marks a
  branch that has just been deleted, leaves a published reference without its branch
  until the next clean-up.
- `refs/published/<branch>` gets the branch as it is after the push
  (`project/upload.go:232`); a commit made meanwhile counts as uploaded.
- A no to the second question of `upload` comes when the branch is already on the
  list, and it is pushed (`cmd/upload.go:499`, `:510`); with
  `review.<url>.autoupload` set the branch never gets on the list.

forall and status:
- `os.Setenv` is for the whole process: with several jobs a command may run with the
  variables of another project (`cmd/forall.go:283`). `--abort-on-errors` is not
  used, and the command always succeeds.
- An error of `git ls-files` is dropped (`project/status.go:192`), and a
  project whose untracked files could not be listed passes for clean; so does one
  where a git command died without a word on stderr (`cmd/status.go:179`).

Remotes and upgrade:
- The expiry of a cached answer is written in local time and read as UTC
  (`helper/ssh-info.go:178`, `:144`), so the 12 hours of `:31` are longer or shorter by
  the time zone; an `sso` address has no key and fails (`:120-123`) before
  `querySSHInfo` could answer gerrit for it; the cache file is written as it was when read,
  plus one answer; http on ports 80 and 443 has one key.
- Overlapping upgrades write to one `<program>-new` (`cmd/upgrade.go:682`) and can
  install a mixture. Errors of unpacking are ignored (`:578`); a digest must
  be SHA-256 to match (`:355`).

## 4. Proofs

Seven modules hold theorems about the models, for every value of their constants, and
`NatSets` the facts they share: a non-empty set of numbers has a least element, a
bounded one a greatest; induction up and down a range in a form the provers can use;
every list of numbers can be sorted, and sorting keeps each element as often as it
was there.

| Theorem | States |
|---|---|
| `NetworkHalfProofs!TypeCorrect` | `Spec => []TypeOK` |
| `NetworkHalfProofs!Exclusive` | `Spec => []SharedRepositoryExclusive` |
| `NetworkHalfProofs!Once` | `Spec => FetchedOnce` |
| `NetworkHalfProofs!ImplementsPool` | `DistinctNames` implies `Spec => Pool!PoolSafe` |
| `LocalHalfProofs!TypeCorrect` | `Spec => []TypeOK` |
| `LocalHalfProofs!ClosedAfterLastSend` | `Spec => []NoSendOnClosedChannel` |
| `LocalHalfProofs!CountedOnce` | `Spec => []WaitGroupNotNegative` |
| `LocalHalfProofs!Nested` | `Spec => []ParentFirst` |
| `LocalHalfProofs!Reported` | `Spec => []FailureIsReported` |
| `LocalHalfProofs!ImplementsPool` | `Spec => Pool!PoolSafe` |
| `ProjectProofs!Invariant`, `TypeCorrect` | `Spec => [](ProjectInv /\ NoReset)`, `[]TypeOK` |
| `ProjectProofs!WorkKept` | `Spec => BranchWorkKept` |
| `ProjectProofs!EditsKept` | `Spec => UncommittedKept` |
| `ProjectProofs!RebaseLeftAlone` | `Spec => StoppedRebaseKept` |
| `ProjectProofs!SyncReaches` | `Spec => SyncReachesRevision` |
| `ProjectProofs!TInvariant`, `TopicTypeCorrect` | `TSpec => [](TopicInv /\ NoReset)`, `[]TTypeOK` |
| `ProjectProofs!SkipsOnlyUploaded` | `TSpec => []SkipOnlyUploaded` |
| `ProjectProofs!TopicKeepsWork` | `TSpec => TopicWorkKept` |
| `ProjectProofs!MInvariant`, `ManifestTypeCorrect` | `MSpec => []ManifestInv`, `[]MTypeOK` |
| `ProjectProofs!InitLeavesTracking` | `MSpec => InitTracks` |
| `ProjectProofs!ManifestKeepsWork` | `MSpec => ManifestWorkKept` |
| `SyncCommandProofs!Invariant`, `TypeCorrect` | `Spec => []SyncInv`, `[]TypeOK` |
| `SyncCommandProofs!WorktreesListed` | `Spec => []WorktreeListed` |
| `SyncCommandProofs!ListReplacedWhole` | `Spec => ListWhole` |
| `SyncCommandProofs!SuccessIsSynced` | `Spec => SuccessMeansSynced` |
| `CommandPoolProofs!CommandInvariant`, `CommandTypeCorrect` | `Spec => []CommandInv`, `[]TypeOK` |
| `CommandPoolProofs!RunsOnce` | `Spec => []RunOnce` |
| `CommandPoolProofs!StatusSays` | `Spec => []StatusMeans` |
| `RemotesProofs!Invariant`, `TypeCorrect` | `Spec => []RemotesInv`, `[]TypeOK` |
| `RemotesProofs!RemotesRight` | `Spec => []RemotesMean` |
| `RemotesProofs!NeverStale` | `Spec => []AnswerFresh` |
| `RemotesProofs!CacheLosesNothing` | `Spec => CacheKept` |
| `UpgradeProofs!Invariant`, `TypeCorrect` | `Spec => []UpgradeInv`, `[]TypeOK` |
| `UpgradeProofs!AlwaysWhole` | `Spec => []ProgramWhole` |
| `UpgradeProofs!VerifiedOnly` | `Spec => InstallsVerified` |
| `UpgradeProofs!NeverDowngrades` | `PackagesOfVersion` implies `Spec => NoSilentDowngrade` |

Assumptions. Each module names what it assumes of its constants: types, that a pool
has a worker, and in `SyncCommand` that the paths are finitely many (numbers, in the order
of their strings), in `Remotes` that no remote has the name `main`, which stands
for the main goroutine. `CommandPool` has two: `CommandAssumption`, at least one project
and one worker, and patterns and arguments that name projects; and
`WorktreeAssumption`, what git promises of its output: each of the three lists has a
path once, but an unmerged path is twice in that of `git diff-files`, and an untracked
path is in the index only as a deleted one. Two theorems have a hypothesis: `DistinctNames`, without
which the collector of `NetworkHalf` stops early (section 3), and `PackagesOfVersion`,
that the package behind the URL of a version is of that version, which the code
does not check; `MCUpgrade` assumes it too, so that TLC evaluates it.

`NetworkInv`. That two fetches of one repository never overlap does not follow
from itself: one must know that a name is in one place only. `QueueInv`: a name is
in the channel once and no worker is busy with it; `OneWorkerPerName`: no two
workers are busy with one; `BusyInv`: what a worker has still to fetch has its
name and is pending; `PendingInv`: the projects of a name nobody took are
pending; `RunningInv`: a running fetch has its worker. `FetchedOnce` is an
action property that follows from the same parts. For the refinement, `ResultInv`
adds the way of a result: `received` is the number of the fetches that are over and
whose result is neither with a worker nor in the channel, and `errs` the failed ones
among them. It holds for shared names too; with distinct names as many results as
names are all of them.

`LocalInv`. A tree is with the goroutine that sends it, in the channel, with
one worker, or done with (`SendingInv`, `QueueInv`, `HeldInv`,
`OneWorkerPerTree`). `CountInv` ties the WaitGroup to the set `Outstanding` of
projects for which `wg.Done` has still to be called: when it is zero, nothing is
pending, so no goroutine has a subtree left, which is why closing the channel is safe
although nobody waits for the senders. `SpawnedInv`: a project is sent only
after its parent's checkout. `ErrsInv`: workers may overwrite each other's
errors, but a slice that was stored is never empty again, and a failed checkout
whose error is not stored yet is still counted.

`ProjectInv`. The git command of a sync runs on what is there, not on what was read.
`PlanInv` is what stays true of a plan whatever user and server do meanwhile: it has
a commit to go to, does not find HEAD where a stopped rebase left it, and a rebase or
merge finds HEAD on a branch, though not always on the one that was read. `WorktreeInv`:
the branch that is checked out has a commit, and a stopped rebase knows where its branch
was. `FreshInv`: while nobody else acted and no `rev-list` failed, a
plan that does nothing has nothing to do, which `SyncReachesRevision` needs, and a
reset drops nothing that the tracked branch lacks. `NoReset`: only the manifest project
is reset.

`TopicInv`. `ProjectInv` holds through the steps of upload and prune as well.
`HeldInv`: between the push and the mark the server has the branch as it is, and then
as it was resolved, unless it moved, and `git branch -D` gets only branches that may
lose work; `PublishedInv`: so the server got what a published reference names. For
`TopicWorkKept`, `TNextInv` shows that of all steps only the user's and the two calls of
`git branch` take a commit from a branch, and `-d` only what is merged into the upstream
or HEAD. The actions of `ProjectSync` are cited as lemmas, not proved again.

`ManifestInv`. `ProjectInv` again, through the steps of `init` and of the manifest
update. `RunInv`: a plan is fresh only while `SyncLocalHalf` runs, so a step of another
command never follows one. `TrackInv`: an `init` that finds HEAD on a branch has read
that branch, because the user edits and commits in `.repo/manifests` at any time but
moves HEAD only between commands; the branch it ends on tracks the revision it knows.
`WorkInv`: what a reset that is not blind must not lose is on other branches, because
the tracked branch had all of the current one and was fetched.

`SyncInv`. `LockInv`: a sync that writes holds the lock file, with the lines it has
written so far; a lock left by a kill stops the next one. `AloneInv`: without
overlap there is one sync, with the groups that are configured. `ListedInv`: past
reading the list, every worktree is on one of the three lists of the sync (new,
remaining, obsolete), and a repository it is about to remove has none. A fetch that
nobody waits for adds repositories, never worktrees.
This rests on what sorting and `findObsoletePaths` compute for every list: every
list has an order, sorting keeps its elements, and every old path is a new one or
in the result. These facts need induction over lists; it is done by a least
counterexample (`LeastElement`), which the provers can follow.

`CommandInv`. `WorkerInv`: no two workers have one project, and a worker is on the
way of its command only. `PoolInv`: what was taken off the channel is with a worker or
answered, never both, and each answer once; so as many answers as projects are one for
each. `RanInv`: the command has run where it is done. `EnvInv`: with one job the
variables are those of the project at hand. `StatusInv`: what a worker has seen so far
(`Partial`) and what an answer holds (`Faithful`) is what git prints of that worktree,
as long as nobody edits, and which git command failed is known. `StatusMeans` follows
from what the operators compute for every worktree: `ParseEncode`, the parser returns
the entries that git wrote, whatever mixture of one and two paths (an entry at a time,
along the recursive functions of both); `CombineMeans`, the lines are the paths with a
change, in order, as often as they should be, which rests on counting the elements of a
list before and after sorting.

`RemotesInv`. `OwnInv`: an answer in a cache is from an address with the key it is
found by, and an address without key is never asked. `AgeInv`: no answer is from the
future, what the process has asked itself is newer than its start, and what it uses from
before was good when it started. `CopyInv`: the copy of a cache file that an actor
has is that file as long as nobody wrote it. `PhaseInv`: each remote of the
configuration is with its goroutine or has been added.

`UpgradeInv`. `PackageInv`: only a checked package gets to `InstallImage`.
`InodeInv`, `AloneInv`: while upgrades do not overlap, the file being written is not the
program and holds the blocks written so far, through kills that leave
`<program>-new` behind. For `NoSilentDowngrade` the version that an upgrade is for is
after the installed one (`NewerFor`); `NewerVersion` shows that what `CompareVersion`
takes for newer is newer in the order of versions, whatever their lengths.

Each inductive invariant was checked by TLC on the instance of its run before it was
proved; only `TypeOK` of `Remotes` has a set that TLC cannot enumerate.

What only TLC checks:

- liveness under fairness (`NetworkHalfReturns`, `WorkersExit`, `SyncConverges`,
  `Returns`, `UpgradeEnds`, and the fairness in `ImplementsTaskPool`, whose safety is
  proved), which is out of this prover's reach;
- `MergeMeans`, `IncludeDepth`, `SelectionMeans`, `TreeMeans` and `FreezeRoundTrip` of
  `Workspace`. Elements of a manifest nest in each other and files include files, so
  `FixupProject`, `GoodProject`, `AllProjectsOf`, `parseXML` and `treeAppend` are
  `RECURSIVE` operators, in whose presence the prover has no SMT backend, and what they
  compute for every manifest is an induction over the shape of the elements. These five
  relate pure operators to reference definitions; there is no interleaving in them,
  and the run covers each rule of merge, include, groups, paths and freezing.

Every other safety property of a run is proved.

## 5. What could follow

1. `Manifest` with recursive functions over a bounded nesting instead of operators,
   which would open `IncludeDepth` and `SelectionMeans` to proof.
2. `download`, with the state a stopped cherry-pick leaves behind.

`CommandPool` is not stated as a third implementation of `TaskPool`: there the tasks
are a constant, while `forall` and `status` select theirs when they start, and
`RunOnce` says the same of the selection.

## 6. Not modelled

Text and files without control of their own: protocol helpers (command lines
and environments), configuration, hooks, editor, paths, colours, option parsing,
`list`, `version`. `download`: one fetch and one git command per change; what a
stopped cherry-pick or revert leaves behind is state of git that `GitProject`
does not have. Of `upload`: `--change`, the options file, the arguments of
`git push`. Of projects: archives, clone depth, references, submodules (a
sync with `--fetch-submodules` ends the program, `project/project.go:367`), hooks
and copied files. Of remotes: the push URL and the choice of a default remote.
