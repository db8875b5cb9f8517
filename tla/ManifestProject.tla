-------------------------- MODULE ManifestProject ---------------------------
(***************************************************************************)
(* .repo/manifests, the project that holds the manifest: what              *)
(* `git repo init` (cmd/init.go) and the first part of `git repo sync`     *)
(* (updateManifestProject in cmd/sync.go) do to it.  Both may be           *)
(* interrupted at any point and run again.                                 *)
(***************************************************************************)
EXTENDS ProjectSync

CONSTANTS Default,   \* the local branch "default"
          Master     \* the branch `init` takes when it is given none

ASSUME ManifestAssumption ==
    /\ Default \in LBranches
    /\ Master \in RBranches

VARIABLES exists,   \* .repo/manifests/.git is there: workspace.Exists
          run       \* the command that runs, and its options

mvars == <<vars, exists, run>>

Pcs == {"idle", "fetch", "checkout", "run", "start"}
\* work: the user's commits that only a branch holds when SyncLocalHalf begins
Stopped == [pc |-> "idle", kind |-> "none", detach |-> FALSE, isNew |-> FALSE, work |-> {}]
Failure == [Stopped EXCEPT !.kind = "failed"]
Success == [Stopped EXCEPT !.kind = "ok"]

MTypeOK ==
    /\ TypeOK
    /\ exists \in BOOLEAN
    /\ run \in [pc : Pcs, kind : {"none", "failed", "ok", "init", "sync"},
                detach : BOOLEAN, isNew : BOOLEAN, work : SUBSET LocalIds]

MInit ==
    /\ GitInit
    /\ revision = ""
    /\ sync = Idle
    /\ last = "other"
    /\ exists = FALSE
    /\ run = Stopped

\* NewManifestProject takes the branch that HEAD tracks for its revision.
TrackBranch == IF head = "" THEN "" ELSE track[head]

-----------------------------------------------------------------------------

\* initCommand.Execute up to the fetch; b is the option -b, "" if not given.
InitBegin(b, d) ==
    /\ run.pc = "idle"
    /\ revision' = IF b # "" THEN b ELSE IF exists THEN TrackBranch ELSE Master
    /\ run' = [Stopped EXCEPT !.pc = "fetch", !.kind = "init", !.detach = d, !.isNew = ~exists]
    /\ last' = "other"
    /\ UNCHANGED <<upstream, made, localVars, worktree, sync, exists>>

\* updateManifestProject up to the fetch
SyncBegin ==
    /\ run.pc = "idle" /\ exists
    /\ revision' = TrackBranch
    /\ run' = IF TrackBranch = "" THEN Success
              ELSE [Stopped EXCEPT !.pc = "fetch", !.kind = "sync"]
    /\ last' = "other"
    /\ UNCHANGED <<upstream, made, localVars, worktree, sync, exists>>

\* Neither command prunes.  Without a revision, all branches are fetched.
ManifestFetch ==
    /\ run.pc = "fetch"
    /\ \E o \in FetchOptions : ~o.prune /\ (o.current => revision # "") /\ FetchRefs(o)
    /\ run' = [run EXCEPT !.pc = "checkout"]
    /\ UNCHANGED exists

\* A first init removes the repository it made; a later one goes on; a sync
\* goes on only with --local-only.
ManifestFetchFails ==
    /\ run.pc = "fetch"
    /\ \/ /\ run.isNew
          /\ remotes' = [r \in Refs |-> {}]
          /\ run' = Failure
       \/ /\ ~run.isNew
          /\ run' = [run EXCEPT !.pc = "checkout"]
          /\ UNCHANGED remotes
       \/ /\ run.kind = "sync"
          /\ run' = Failure
          /\ UNCHANGED remotes
    /\ last' = "other"
    /\ UNCHANGED <<heads, published, track, worktree, world, sync, exists>>

\* SyncLocalHalf, which first makes the worktree, up to its command
Checkout(o, bad) ==
    /\ SyncRead(o, bad)
    /\ run' = [run EXCEPT !.pc = "run", !.work = BranchWork \ Fetched]

InitCheckout(bad) ==
    /\ run.pc = "checkout" /\ run.kind = "init"
    /\ Checkout([detach |-> run.detach, isManifest |-> TRUE, checkPublished |-> FALSE,
                 rebase |-> TRUE], bad)
    /\ exists' = TRUE

\* updateManifestProject looks for new commits itself, before SyncLocalHalf; a
\* reference that does not resolve makes its rev-list fail.
SyncCheckout(bad) ==
    LET oldrev == HeadId
        newrev == ResolveRemoteTracking(revision)
    IN  /\ run.pc = "checkout" /\ run.kind = "sync"
        /\ \/ /\ Revlist(newrev, oldrev) # {} /\ oldrev # {}
              /\ Checkout(PlainSync(TRUE), bad)
           \/ /\ oldrev = newrev \/ (newrev # {} /\ Revlist(newrev, oldrev) = {})
              /\ run' = Success
              /\ last' = "other"
              /\ UNCHANGED <<gitVars, sync>>
           \/ /\ oldrev # newrev
              /\ run' = Failure
              /\ last' = "other"
              /\ UNCHANGED <<gitVars, sync>>
        /\ UNCHANGED exists

RunCommand ==
    /\ run.pc = "run"
    /\ SyncRun
    /\ run' = IF last' = "syncFailed" THEN Failure
              ELSE IF run.kind = "init" THEN [run EXCEPT !.pc = "start"] ELSE Success
    /\ UNCHANGED exists

\* Variant of NeedsDefault: only a first init makes the branch.
NeedsDefaultWhenNew == ~run.detach /\ revision \notin Tags /\ run.isNew

\* A branch is wanted, and this is a first init or HEAD is detached.
NeedsDefault ==
    /\ ~run.detach
    /\ revision \notin Tags
    /\ run.isNew \/ (head = "" /\ HeadId # {})

\* StartBranch("default", "", force) where needed, git checkout -B default at HEAD,
\* then LinkManifest, which wants a manifest in the worktree.
InitStart ==
    /\ run.pc = "start"
    /\ \/ /\ NeedsDefault /\ head # Default
          /\ CheckoutTo(Default, HeadId)
          /\ track' = [track EXCEPT ![Default] = TrackingOf(revision)]
          /\ run' = Success
       \/ /\ NeedsDefault /\ head # Default
          /\ CheckoutRefused
          /\ run' = Failure
       \/ /\ NeedsDefault => head = Default
          /\ run' = IF HeadId = {} THEN Failure ELSE Success
          /\ UNCHANGED <<heads, track, worktree>>
    /\ last' = "other"
    /\ UNCHANGED <<remotes, published, world, sync, exists>>

\* The command is interrupted.
Interrupt ==
    /\ run.pc # "idle"
    /\ run' = Failure
    /\ sync' = Idle
    /\ last' = "other"
    /\ UNCHANGED <<gitVars, exists>>

-----------------------------------------------------------------------------

\* git remote prune origin
UserPrune(r) ==
    /\ upstream[r] = {} /\ remotes[r] # {}
    /\ remotes' = [remotes EXCEPT ![r] = {}]
    /\ last' = "user"
    /\ UNCHANGED <<heads, published, track, worktree, world, sync>>

\* The user edits and commits at any time, but moves HEAD only between commands.
Bystanders ==
    /\ \/ User /\ (run.pc = "idle" \/ head' = head)
       \/ \E r \in RBranches : UserPrune(r)
       \/ Server /\ revision' = revision
    /\ UNCHANGED <<exists, run>>

MNext ==
    \/ \E b \in Refs \cup {""}, d \in BOOLEAN : InitBegin(b, d)
    \/ SyncBegin
    \/ ManifestFetch
    \/ ManifestFetchFails
    \/ \E bad \in Failing : InitCheckout(bad) \/ SyncCheckout(bad)
    \/ RunCommand
    \/ InitStart
    \/ Interrupt
    \/ Bystanders

MSpec == MInit /\ [][MNext]_mvars

-----------------------------------------------------------------------------
(* Properties. *)

\* An init without --detach that knows its branch and reports success leaves
\* HEAD on a branch that tracks it, whatever failed or interrupted runs came
\* before: without tracking, sync never updates the manifest again.
InitTracks ==
    [][run.pc = "start" /\ run' = Success /\ ~run.detach /\ revision \in RBranches
          => head' # "" /\ track'[head'] = revision]_mvars

\* A commit in .repo/manifests that no fetched branch holds when SyncLocalHalf begins
\* stays on a branch, also when init or sync goes to another branch of the manifest
\* and whatever the user does meanwhile, unless the branch that HEAD tracks does not
\* resolve or its rev-list fails.
ManifestWorkKept ==
    [][run.pc = "run" /\ last' \in {"synced", "syncFailed"} /\ ~sync.blind
          => run.work \cap BranchWork \subseteq BranchWork']_mvars

-----------------------------------------------------------------------------
(* The inductive invariant behind them, beside that of ProjectSync. *)

\* A plan is fresh only while SyncLocalHalf runs; a command that is past its
\* checkout is an init; a plan that skips has no revision.
RunInv ==
    /\ last = "planned" => run.pc = "run"
    /\ run.pc = "start" => run.kind = "init"
    /\ run.pc = "run" /\ sync.cmd = "skip" => revision = ""

\* An init without --detach that finds HEAD on a branch has read that branch,
\* whatever the user commits meanwhile, and makes it track the manifest branch.
TrackInv ==
    ~run.detach /\ revision \in RBranches /\ head # "" =>
        /\ run.pc = "run" /\ run.kind = "init" => sync.branch = head /\ sync.defaultTrack = revision
        /\ run.pc = "start" => track[head] = revision

\* What a reset that was not chosen blindly must not lose is on other branches.
WorkInv ==
    run.pc = "run" /\ sync.cmd = "reset" /\ ~sync.blind =>
        run.work \subseteq UNION {IdsOf(heads[b]) : b \in LBranches \ {head}}

ManifestInv == MTypeOK /\ ProjectInv /\ RunInv /\ TrackInv /\ WorkInv
=============================================================================
