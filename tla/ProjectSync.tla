---------------------------- MODULE ProjectSync -----------------------------
(***************************************************************************)
(* What `git repo sync` and `git repo start` do to one project:            *)
(* project/network-half.go, project/local-half.go, project/branch.go.      *)
(*                                                                         *)
(* SyncLocalHalf reads the repository, decides on one git command, and     *)
(* runs it.  The user may act between the reads and the command, so the    *)
(* two are separate actions, SyncRead and SyncRun; what was read is in     *)
(* `sync`, which survives as the local variables of the Go function do.    *)
(* A `git rev-list` may fail, and the code then goes on with an empty list. *)
(***************************************************************************)
EXTENDS GitProject

VARIABLES sync,   \* what SyncLocalHalf has read and decided
          last    \* the step taken last; of a sync, how it ended

vars == <<gitVars, sync, last>>

Commands == {"error", "skip", "none", "checkout", "reset", "rebase", "merge"}
Outcomes == {"user", "planned", "synced", "syncFailed", "other"}

\* blind: the command was chosen because a list of commits was missing.
Idle == [cmd |-> "idle", revid |-> {}, branch |-> "", defaultTrack |-> "", blind |-> FALSE]

TypeOK ==
    /\ GitTypeOK
    /\ sync \in [cmd : Commands \cup {"idle"}, revid : Commit,
                 branch : LBranches \cup {""}, defaultTrack : RBranches \cup {""},
                 blind : BOOLEAN]
    /\ last \in Outcomes

Init ==
    /\ GitInit
    /\ revision \in Refs
    /\ sync = Idle
    /\ last = "other"

-----------------------------------------------------------------------------
(* Project.SyncNetworkHalf. *)

\* FetchOptions: prune, current (CurrentBranchOnly), noTags.
FetchOptions == [prune : BOOLEAN, current : BOOLEAN, noTags : BOOLEAN]

\* The tag is here already: there is nothing to fetch.
FetchNotNeeded(o) == o.current /\ revision \in Tags /\ remotes[revision] # {}

\* refs/remotes and refs/tags after git fetch.
FetchedRef(r, o) ==
    CASE r \in Tags /\ o.noTags /\ ~ (o.current /\ r = revision) -> remotes[r]
      [] r \in RBranches /\ o.current /\ r # revision -> remotes[r]
      [] r \in RBranches /\ upstream[r] = {} /\ ~o.prune -> remotes[r]
      [] OTHER -> upstream[r]

FetchRefs(o) ==
    /\ ~ FetchNotNeeded(o)
    /\ o.current => upstream[revision] # {}
    /\ remotes' = [r \in Refs |-> FetchedRef(r, o)]
    /\ last' = "other"
    /\ UNCHANGED <<heads, published, track, worktree, world, sync>>

\* Nothing to fetch, the network fails, or the server has no such branch.
FetchNothing(o) ==
    /\ last' = "other"
    /\ UNCHANGED <<gitVars, sync>>

SyncNetworkHalf(o) == FetchRefs(o) \/ FetchNothing(o)

-----------------------------------------------------------------------------
(* Project.SyncLocalHalf. *)

\* rebase: what Project.IsRebase says, the attribute of the project in the manifest
CheckoutOptions == [detach : BOOLEAN, isManifest : BOOLEAN, checkPublished : BOOLEAN,
                    rebase : BOOLEAN]

\* The options syncCommand.LocalHalf passes on: --check-published is not one.
LocalHalfOptions == {o \in CheckoutOptions : ~o.isManifest /\ ~o.checkPublished}

\* The rev-lists whose failure matters, "" when all of them work.
Failing == {"", "remoteChanges", "notMerged", "localChanges"}

\* GetHead and ResolveRevision: a detached HEAD has neither name nor id here.
CurrentBranch == IF head # "" /\ heads[head] # {} THEN head ELSE ""
CurrentId == IF CurrentBranch = "" THEN {} ELSE heads[CurrentBranch]

\* Variant of SwitchCommand: the commits of the branch are not looked at.
SwitchAlways(current, bad) == "reset"

\* The manifest project switches branch: its commits decide, or nothing does
\* when the tracked branch does not resolve or rev-list fails.
SwitchCommand(current, bad) ==
    IF /\ bad # "localChanges"
       /\ ResolveRemoteTracking(current) # {}
       /\ Revlist(CurrentId, ResolveRemoteTracking(current)) # {}
    THEN "error" ELSE "reset"

\* Variant of IsRebaseInProgress: the directory git now uses is not looked at.
RebaseUnseen == FALSE

IsRebaseInProgress == Rebasing

\* Variant of Decide: rev-list the wrong way round.
DecideAhead(o, bad) ==
    IF ResolveRemoteTracking(revision) = {} THEN "error"
    ELSE IF CurrentBranch # "" /\ Revlist(CurrentId, ResolveRemoteTracking(revision)) = {}
         THEN "none" ELSE "checkout"

\* With CheckPublished, the published reference of the branch holds it back.
PublishedCounts(o, pub) == ~o.isManifest /\ o.checkPublished /\ pub # {}

\* The branch that the current branch tracks
CurrentTrack == IF CurrentBranch = "" THEN "" ELSE track[CurrentBranch]

\* The command SyncLocalHalf decides on, in the order of its tests; bad is the
\* rev-list that fails.
Decide(o, bad) ==
    LET revid  == ResolveRemoteTracking(revision)
        behind == bad # "remoteChanges" /\ Revlist(revid, CurrentId) # {}
        pub    == IF CurrentBranch = "" THEN {} ELSE published[CurrentBranch]
    IN  IF revision = "" THEN "skip"
        ELSE IF revid = {} THEN "error"
        ELSE IF CurrentBranch = "" \/ o.detach THEN
            IF IsRebaseInProgress THEN "error"
            ELSE IF CurrentId = revid /\ ~o.detach THEN "none" ELSE "checkout"
        ELSE IF CurrentId = revid THEN "none"
        ELSE IF CurrentTrack = "" THEN "checkout"
        ELSE IF (~o.isManifest \/ DefaultTrackingBranch = CurrentTrack) /\ ~behind THEN "none"
        ELSE IF PublishedCounts(o, pub) /\ (bad = "notMerged" \/ Revlist(pub, revid) # {})
             THEN "error"
        ELSE IF PublishedCounts(o, pub) /\ pub = CurrentId THEN "merge"
        ELSE IF dirty THEN "error"
        ELSE IF o.isManifest /\ revision # CurrentTrack THEN SwitchCommand(CurrentTrack, bad)
        ELSE IF o.rebase THEN "rebase" ELSE "merge"

\* The decision rests on a list that a rev-list failed to give.
Blind(o, bad) ==
    \/ Decide(o, bad) # Decide(o, "")
    \/ Decide(o, bad) = "reset" /\ ResolveRemoteTracking(CurrentTrack) = {}

SyncRead(o, bad) ==
    /\ sync = Idle
    /\ published' = IF revision = "" THEN published ELSE CleanPublishedCache(heads)
    /\ sync' = [cmd |-> Decide(o, bad),
                revid |-> ResolveRemoteTracking(revision),
                branch |-> CurrentBranch,
                defaultTrack |-> DefaultTrackingBranch,
                blind |-> Blind(o, bad)]
    /\ last' = "planned"
    /\ UNCHANGED <<remotes, heads, track, worktree, world>>

\* PostUpdate: the branch that was current follows the manifest.  Its other
\* steps (submodules, hooks, copied and linked files) may fail.
PostUpdate ==
    /\ track' = IF sync.branch = "" THEN track
                ELSE [track EXCEPT ![sync.branch] = sync.defaultTrack]
    /\ last' \in {"synced", "syncFailed"}

Failed ==
    /\ last' = "syncFailed"
    /\ UNCHANGED track

\* Variant of CheckoutRevision: git checkout --force.
CheckoutForced ==
    /\ sync.cmd = "checkout"
    /\ head' = ""
    /\ detached' = sync.revid
    /\ dirty' = FALSE
    /\ PostUpdate
    /\ UNCHANGED <<heads, rebasing, merging>>

\* git checkout <revid>
CheckoutRevision ==
    /\ sync.cmd = "checkout"
    /\ \/ /\ MoveHead("", sync.revid)
          /\ PostUpdate
       \/ /\ InTheWay
          /\ Failed
          /\ UNCHANGED worktree
    /\ UNCHANGED heads

\* git reset --hard <revid>, which also forgets a stopped merge
HardReset ==
    /\ sync.cmd = "reset"
    /\ heads' = [heads EXCEPT ![head] = sync.revid]
    /\ dirty' = FALSE
    /\ merging' = {}
    /\ PostUpdate
    /\ UNCHANGED <<head, detached, rebasing>>

\* The current branch and the commit both have changes of their own.
Diverged == Revlist(heads[head], sync.revid) # {} /\ Revlist(sync.revid, heads[head]) # {}

\* Variants of Rebase and FastForward: the branch is moved, not its changes.
MoveBranch ==
    /\ sync.cmd \in {"rebase", "merge"}
    /\ heads' = [heads EXCEPT ![head] = sync.revid]
    /\ PostUpdate
    /\ UNCHANGED worktree

\* git rebase <revid>, of the branch that is current now; edits and a rebase that
\* is stopped already are in its way.
Rebase ==
    /\ sync.cmd = "rebase"
    /\ \/ /\ ~dirty /\ ~Rebasing
          /\ heads' = [heads EXCEPT ![head] =
                          IF sync.revid \subseteq @ THEN @ ELSE RebaseOf(@, sync.revid)]
          /\ PostUpdate
          /\ UNCHANGED <<head, detached, rebasing>>
       \/ /\ ~dirty /\ ~Rebasing /\ Diverged        \* stopped by a conflict
          /\ rebasing' = [branch |-> head, orig |-> heads[head]]
          /\ head' = ""
          /\ detached' = sync.revid
          /\ Failed
          /\ UNCHANGED heads
       \/ /\ dirty \/ Rebasing
          /\ Failed
          /\ UNCHANGED <<heads, head, detached, rebasing>>
    /\ UNCHANGED <<dirty, merging>>

\* Project.FastForward: git merge <revid>, into the branch that is current now
FastForward ==
    /\ sync.cmd = "merge"
    /\ \/ /\ heads' = [heads EXCEPT ![head] = MergeOf(sync.revid, @)]
          /\ PostUpdate
          /\ UNCHANGED <<dirty, merging>>
       \/ /\ ~dirty /\ Diverged        \* stopped by a conflict
          /\ merging' = sync.revid
          /\ dirty' = TRUE
          /\ Failed
          /\ UNCHANGED heads
       \/ /\ dirty
          /\ Failed
          /\ UNCHANGED <<heads, dirty, merging>>
    /\ UNCHANGED <<head, detached, rebasing>>

NoCommand ==
    /\ \/ sync.cmd = "none" /\ PostUpdate
       \/ sync.cmd = "skip" /\ last' = "synced" /\ UNCHANGED track
       \/ sync.cmd = "error" /\ Failed
    /\ UNCHANGED <<heads, worktree>>

SyncRun ==
    /\ sync # Idle
    /\ \/ NoCommand
       \/ CheckoutRevision
       \/ HardReset
       \/ Rebase
       \/ FastForward
    /\ sync' = Idle
    /\ UNCHANGED <<remotes, published, world>>

-----------------------------------------------------------------------------
(* Project.StartBranch, which `git repo start` calls without force. *)

\* git checkout <branch>, or git checkout -b <branch> [<commit>]
CheckoutTo(b, c) ==
    /\ HeadId # {}
    /\ heads' = [heads EXCEPT ![b] = c]
    /\ MoveHead(b, {})

\* Refused when there is no worktree yet, or for what is in the way.
CheckoutRefused ==
    /\ HeadId = {} \/ InTheWay
    /\ UNCHANGED <<heads, track, worktree>>

\* git checkout -b starts at the manifest revision, if it was fetched.
StartCommit ==
    LET revid == ResolveRemoteTracking(revision)
    IN  IF revid # {} THEN revid ELSE HeadId

StartBranch(b) ==
    /\ \/ /\ head = b
          /\ UNCHANGED <<heads, track, worktree>>
       \/ /\ head # b /\ heads[b] # {}
          /\ CheckoutTo(b, heads[b])
          /\ UNCHANGED track
       \/ /\ head # b /\ heads[b] = {}
          /\ CheckoutTo(b, StartCommit)
          /\ track' = [track EXCEPT ![b] = DefaultTrackingBranch]
       \/ /\ head # b
          /\ CheckoutRefused
    /\ last' = "other"
    /\ UNCHANGED <<remotes, published, sync, world>>

-----------------------------------------------------------------------------

User ==
    /\ \/ Edit
       \/ \E i \in LocalIds : UserCommit(i)
       \/ \E b \in LBranches : UserCheckout(b) \/ UserBranch(b)
       \/ UserContinueRebase
       \/ UserAbortRebase
       \/ UserAbortMerge
    /\ last' = "user"
    /\ UNCHANGED sync

Server ==
    /\ \/ \E r \in RBranches, i \in UpIds : ServerCommit(r, i)
       \/ \E r \in RBranches : ServerDeleteBranch(r)
       \/ \E r \in RBranches, b \in LBranches : ServerAccept(r, heads[b])
       \/ \E r \in Refs : ManifestSwitch(r)
    /\ last' = "other"
    /\ UNCHANGED sync

Next ==
    \/ \E o \in FetchOptions : SyncNetworkHalf(o)
    \/ \E o \in LocalHalfOptions, bad \in Failing : SyncRead(o, bad)
    \/ SyncRun
    \/ \E b \in LBranches : StartBranch(b)
    \/ User
    \/ Server

Spec == Init /\ [][Next]_vars

\* The user keeps running `git repo sync`; the network, and git, work now and then.
PlainFetch == [prune |-> FALSE, current |-> FALSE, noTags |-> FALSE]
PlainSync(rebase) == [detach |-> FALSE, isManifest |-> FALSE, checkPublished |-> FALSE,
                      rebase |-> rebase]

LiveSpec ==
    /\ Spec
    /\ SF_vars(FetchRefs(PlainFetch))
    /\ SF_vars(\E rebase \in BOOLEAN : SyncRead(PlainSync(rebase), ""))
    /\ WF_vars(SyncRun)

-----------------------------------------------------------------------------
(* Properties. *)

BranchWork == LocalIds \cap UNION {IdsOf(heads[b]) : b \in LBranches}

\* A change the user committed on a branch stays on a branch: no sync, fetch or
\* start, stopped by a conflict or not, loses it.
BranchWorkKept == [][last' # "user" => BranchWork \subseteq BranchWork']_vars

\* Uncommitted changes go only when the user commits or drops them, even if
\* they were made after SyncLocalHalf found the worktree clean.
UncommittedKept == [][dirty /\ ~dirty' => last' = "user"]_vars

\* A rebase that stopped on a conflict is the user's to finish: no sync or start
\* ends it or begins another one over it, and while HEAD is where the rebase left
\* it a sync reports it and touches neither HEAD nor a branch.
StoppedRebaseKept ==
    [][Rebasing /\ last' # "user" =>
          /\ rebasing' = rebasing
          /\ head = "" /\ last' \in {"synced", "syncFailed"} => UNCHANGED <<heads, worktree>>]_vars

\* A sync that reports success left HEAD at or on top of the manifest
\* revision it resolved, unless the user acted meanwhile or the rev-list that
\* looks for new commits failed.
SyncReachesRevision ==
    [][last = "planned" /\ last' = "synced" /\ ~sync.blind => sync.revid \subseteq HeadId']_vars

\* Syncing again and again gets there: once the user leaves a clean worktree
\* alone and the manifest stays as it is, HEAD holds all of the server's branch,
\* unless the branch is gone.
Quiet == last # "user" /\ ~dirty /\ ~Rebasing /\ merging = {}

SyncConverges ==
    \A r \in Refs :
        <>[](Quiet /\ revision = r) => []<>(upstream[r] \subseteq HeadId)

-----------------------------------------------------------------------------
(* The inductive invariant behind the safety properties. *)

\* The branch that is checked out has a commit; a stopped rebase knows where its
\* branch was, and HEAD is at a commit meanwhile.
WorktreeInv ==
    /\ head # "" => heads[head] # {}
    /\ Rebasing => rebasing.orig # {} /\ HeadId # {}

\* Between SyncRead and SyncRun: a command that moves HEAD or a branch has a
\* commit to go to and does not find HEAD where a stopped rebase left it; one that
\* moves a branch finds HEAD on a branch, though not always on the one that was
\* read.
PlanInv ==
    /\ sync.cmd \in {"checkout", "reset", "rebase", "merge"} =>
          sync.revid # {} /\ (Rebasing => head # "")
    /\ sync.cmd \in {"reset", "rebase", "merge"} => head # ""

\* As long as nobody else acted, a plan that does nothing has nothing to do, and
\* a reset leaves no commit behind that the tracked branch lacks, unless a
\* rev-list failed.
FreshInv ==
    last = "planned" /\ ~sync.blind =>
        /\ sync.cmd = "none" => sync.revid \subseteq HeadId
        /\ sync.cmd = "skip" => sync.revid = {}
        /\ sync.cmd = "reset" => HeadId \subseteq ResolveRemoteTracking(track[head])

ProjectInv == TypeOK /\ WorktreeInv /\ PlanInv /\ FreshInv

\* Only the manifest project is ever reset.
NoReset == sync.cmd # "reset"
=============================================================================
