--------------------------- MODULE TopicBranches ----------------------------
(***************************************************************************)
(* What `git repo upload` (cmd/upload.go, project/upload.go), `git repo    *)
(* prune` and `git repo abandon` (cmd/prune.go, cmd/abandon.go) do to the  *)
(* branches of one project, beside sync, start, the user and the server.   *)
(*                                                                         *)
(* Each command reads the repository first and acts on it later, without a *)
(* lock: an upload waits for the user's answers in between, a prune runs   *)
(* git several times.  Each may be interrupted between any two steps.      *)
(***************************************************************************)
EXTENDS ProjectSync

CONSTANT MaxRunning   \* bound: so many of upload, prune and sync run at a time

VARIABLES up,      \* the upload in progress
          pr,      \* the prune or abandon in progress
          pushed,  \* per branch, the commits the review server got
          raced    \* the branches that moved between their push and its mark

tvars == <<vars, up, pr, pushed, raced>>

\* base: what the branch resolved to; obsolete: published references to remove
UpIdle == [pc |-> "idle", branch |-> "", track |-> "", single |-> FALSE, moved |-> FALSE,
           base |-> {}, obsolete |-> {}]

\* drop: the branches that git branch -D gets; failed, clean: !allDropSuccess, needToClean;
\* loose, for the properties alone: those that were abandoned with --force or tracked
\* nothing when prune looked
PrIdle == [pc |-> "idle", branches |-> {}, current |-> "", force |-> FALSE, drop |-> {},
           loose |-> {}, failed |-> FALSE, clean |-> FALSE, obsolete |-> {}]

\* Type correctness: HEAD, tracking and what the commands hold are branch names,
\* whatever order upload, prune, sync and the user act in.
TTypeOK ==
    /\ TypeOK
    /\ up \in [pc : {"idle", "confirm", "push", "resolve", "mark", "scan", "clean"},
               branch : LBranches \cup {""}, track : RBranches \cup {""},
               single : BOOLEAN, moved : BOOLEAN, base : Commit, obsolete : SUBSET LBranches]
    /\ pr \in [pc : {"idle", "detach", "choose", "force", "delete", "report", "scan", "clean"},
               branches : SUBSET LBranches, current : LBranches \cup {""}, force : BOOLEAN,
               drop : SUBSET LBranches, loose : SUBSET LBranches, failed : BOOLEAN,
               clean : BOOLEAN, obsolete : SUBSET LBranches]
    /\ pushed \in [LBranches -> SUBSET Commit]
    /\ raced \subseteq LBranches

TInit ==
    /\ Init
    /\ up = UpIdle
    /\ pr = PrIdle
    /\ pushed = [b \in LBranches |-> {}]
    /\ raced = {}

-----------------------------------------------------------------------------
(* upload *)

\* Project.CleanPublishedCache: the references it finds without a branch, and the
\* published references without them
Obsolete == {b \in LBranches : published[b] # {} /\ heads[b] = {}}
Without(obsolete) == [b \in LBranches |-> IF b \in obsolete THEN {} ELSE published[b]]

\* Another command may begin.
CanBegin ==
    Cardinality({c \in {"upload", "prune", "sync"} :
        \/ c = "upload" /\ up # UpIdle
        \/ c = "prune" /\ pr # PrIdle
        \/ c = "sync" /\ sync # Idle}) < MaxRunning

\* No upload is in progress.
UpReady == up = UpIdle /\ CanBegin

\* ReviewableBranch.Commits, against the branch it goes to
HasCommitsFor(b, r) ==
    /\ heads[b] # {}
    /\ ResolveRemoteTracking(r) # {}
    /\ Revlist(heads[b], ResolveRemoteTracking(r)) # {}

\* Project.GetUploadableBranch up to the look at the published reference
HasCommits(b) ==
    /\ revision \in Tags => remotes[revision] \notin {{}, heads[b]}
    /\ HasCommitsFor(b, track[b])

\* Variant of NoChange: any earlier upload of the branch will do.
NoChangeOnce(b) == HasCommits(b) /\ published[b] # {}

\* "no change in project since last upload"
NoChange(b) == HasCommits(b) /\ published[b] = heads[b]

\* Nothing is uploaded then, unless --re-run.
UploadSkip(b) ==
    /\ UpReady
    /\ NoChange(b)
    /\ last' = "other"
    /\ UNCHANGED <<gitVars, sync, up, pr, pushed, raced>>

UploadRead(b, rerun) ==
    /\ UpReady
    /\ HasCommits(b) /\ (rerun \/ ~NoChange(b))
    /\ up' = [UpIdle EXCEPT !.pc = "confirm", !.branch = b, !.track = track[b]]
    /\ last' = "other"
    /\ UNCHANGED <<gitVars, sync, pr, pushed, raced>>

\* With --single the manifest plays no part: the branch goes to --dest or else to
\* what it tracks, and the published references are cleaned at the end.
UploadReadSingle(b, dest, rerun) ==
    LET to == IF dest = "" THEN track[b] ELSE dest
    IN  /\ UpReady
        /\ HasCommitsFor(b, to) /\ (rerun \/ published[b] # heads[b])
        /\ up' = [UpIdle EXCEPT !.pc = "confirm", !.branch = b, !.track = to, !.single = TRUE]
        /\ last' = "other"
        /\ UNCHANGED <<gitVars, sync, pr, pushed, raced>>

\* UploadForReviewWithEditor: a branch goes if its line is not commented out when
\* the editor ends; with no such line the command fails.
UploadEdit ==
    /\ up.pc = "confirm"
    /\ up' \in {[up EXCEPT !.pc = "push"], UpIdle}
    /\ last' = "other"
    /\ UNCHANGED <<gitVars, sync, pr, pushed, raced>>

\* UploadForReviewWithConfirm, with --no-edit or without an editor.  It asks again
\* when the commits are many, but by then the branch is on the list; a branch that
\* review.<url>.autoupload decides about never gets there.
UploadConfirm ==
    /\ up.pc = "confirm"
    /\ up' \in {[up EXCEPT !.pc = "push"], UpIdle}
    /\ last' = "other"
    /\ UNCHANGED <<gitVars, sync, pr, pushed, raced>>

\* uploadCommand.getDestBranch: --dest, or else the revision
DestBranch(dest) == IF dest # "" THEN dest ELSE revision

\* What is left to do when UploadAndReport returns.
UploadEnd == IF up.single THEN [UpIdle EXCEPT !.pc = "scan"] ELSE UpIdle

\* UploadAndReport: without --dest the merge branch must be the destination; a dirty
\* worktree makes it ask once more; git push sends the branch as it is now, or fails.
UploadPush(dest) ==
    /\ up.pc = "push"
    /\ \/ /\ up.single \/ dest # "" \/ up.track = DestBranch(dest)
          /\ heads[up.branch] # {}
          /\ pushed' = [pushed EXCEPT ![up.branch] = @ \cup {heads[up.branch]}]
          /\ up' = [up EXCEPT !.pc = "resolve"]
       \/ /\ dirty
          /\ up' = UploadEnd
          /\ UNCHANGED pushed
       \/ /\ up' = UpIdle
          /\ UNCHANGED pushed
    /\ last' = "other"
    /\ UNCHANGED <<gitVars, sync, pr, raced>>

\* Repository.UpdateRef resolves the branch as it is now; when it is gone, the
\* upload ends with an error.
UploadResolve ==
    /\ up.pc = "resolve"
    /\ up' = IF heads[up.branch] = {} THEN UploadEnd
             ELSE [up EXCEPT !.pc = "mark", !.base = heads[up.branch]]
    /\ last' = "other"
    /\ UNCHANGED <<gitVars, sync, pr, pushed, raced>>

\* It then sets refs/published/<branch> to that.
UploadMark ==
    /\ up.pc = "mark"
    /\ published' = [published EXCEPT ![up.branch] = up.base]
    /\ raced' = IF up.moved THEN raced \cup {up.branch} ELSE raced \ {up.branch}
    /\ up' = UploadEnd
    /\ last' = "other"
    /\ UNCHANGED <<remotes, heads, track, worktree, world, sync, pr, pushed>>

\* uploadCommand.Execute ends with CleanPublishedCache if --single was given.
UploadScan ==
    /\ up.pc = "scan"
    /\ up' = [UpIdle EXCEPT !.pc = "clean", !.obsolete = Obsolete]
    /\ last' = "other"
    /\ UNCHANGED <<gitVars, sync, pr, pushed, raced>>

UploadClean ==
    /\ up.pc = "clean"
    /\ published' = Without(up.obsolete)
    /\ up' = UpIdle
    /\ last' = "other"
    /\ UNCHANGED <<remotes, heads, track, worktree, world, sync, pr, pushed, raced>>

\* The upload is interrupted.
UploadInterrupt ==
    /\ up.pc # "idle"
    /\ up' = UpIdle
    /\ last' = "other"
    /\ UNCHANGED <<gitVars, sync, pr, pushed, raced>>

-----------------------------------------------------------------------------
(* prune and abandon *)

\* The current branch goes when it has nothing its upstream lacks, or when
\* there is no upstream to compare with.  LocalTrackBranch, or else a remote
\* branch of the same name.
ShouldPruneCurrent(force) ==
    LET tb == IF track[head] # "" THEN track[head]
              ELSE IF head \in RBranches THEN head ELSE ""
    IN  \/ force
        \/ ~dirty /\ (ResolveRemoteTracking(tb) = {}
                         \/ Revlist(heads[head], ResolveRemoteTracking(tb)) = {})

\* S is all branches, or the one of --branch.
PruneRead(S, force) ==
    /\ pr.pc = "idle" /\ CanBegin
    /\ LET current == head \in S /\ heads[head] # {} /\ ShouldPruneCurrent(force)
       IN  pr' = [PrIdle EXCEPT !.pc = IF current THEN "detach" ELSE "choose",
                                !.branches = {b \in S \ {head} : heads[b] # {}},
                                !.current = IF current THEN head ELSE "",
                                !.force = force]
    /\ last' = "other"
    /\ UNCHANGED <<gitVars, sync, up, pushed, raced>>

\* Project.DetachHead: git checkout HEAD^0.  When it is refused the branch stays.  A
\* sync of this project is not between its reads and its git command at this moment.
PruneDetach ==
    /\ pr.pc = "detach" /\ sync = Idle
    /\ \/ /\ MoveHead("", HeadId)
          /\ pr' = [pr EXCEPT !.pc = "choose", !.branches = @ \cup {pr.current}]
       \/ /\ InTheWay
          /\ pr' = [pr EXCEPT !.pc = "choose"]
          /\ UNCHANGED worktree
    /\ last' = "other"
    /\ UNCHANGED <<localVars, world, sync, up, pushed, raced>>

\* Variant of Untracked: what prune has looked at is deleted with -D.
UntrackedAll(b) == TRUE

Untracked(b) == track[b] = ""

\* The branches for git branch -D are told from those for git branch -d.
PruneChoose ==
    /\ pr.pc = "choose"
    /\ pr' = IF pr.branches = {} THEN PrIdle
             ELSE [pr EXCEPT !.pc = "force",
                             !.drop = {b \in pr.branches : pr.force \/ Untracked(b)},
                             !.loose = {b \in pr.branches : pr.force \/ track[b] = ""}]
    /\ last' = "other"
    /\ UNCHANGED <<gitVars, sync, up, pushed, raced>>

\* Neither form of git branch deletes one that is checked out or being rebased.
Deletable(b) == heads[b] # {} /\ head # b /\ rebasing.branch # b

\* git branch -d wants it merged to its upstream, or to HEAD if there is none.
Merged(b) ==
    LET tb == ResolveRemoteTracking(track[b])
    IN  Revlist(heads[b], IF tb # {} THEN tb ELSE HeadId) = {}

\* git branch deletes those of S that are in D, with their configuration, and
\* fails if it leaves one; without a branch it is not called.
GitBranch(S, D, pc) ==
    /\ heads' = [b \in LBranches |-> IF b \in D THEN {} ELSE heads[b]]
    /\ track' = [b \in LBranches |-> IF b \in D THEN "" ELSE track[b]]
    /\ pr' = [pr EXCEPT !.pc = pc, !.failed = @ \/ D # S,
                        !.clean = @ \/ (S # {} /\ D = S)]
    /\ last' = "other"
    /\ UNCHANGED <<published, remotes, worktree, world, sync, up, pushed, raced>>

\* git branch -D
PruneForce ==
    /\ pr.pc = "force"
    /\ GitBranch(pr.drop, {b \in pr.drop : Deletable(b)}, "delete")

\* git branch -d
PruneDelete ==
    /\ pr.pc = "delete"
    /\ LET S == pr.branches \ pr.drop
       IN  GitBranch(S, {b \in S : Deletable(b) /\ Merged(b)}, "report")

\* When one failed, Heads says which of the branches are gone.
PruneReport ==
    /\ pr.pc = "report"
    /\ pr' = IF pr.clean \/ (pr.failed /\ \E b \in pr.branches : heads[b] = {})
             THEN [PrIdle EXCEPT !.pc = "scan"] ELSE PrIdle
    /\ last' = "other"
    /\ UNCHANGED <<gitVars, sync, up, pushed, raced>>

\* CleanPublishedCache
PruneScan ==
    /\ pr.pc = "scan"
    /\ pr' = [PrIdle EXCEPT !.pc = "clean", !.obsolete = Obsolete]
    /\ last' = "other"
    /\ UNCHANGED <<gitVars, sync, up, pushed, raced>>

PruneClean ==
    /\ pr.pc = "clean"
    /\ published' = Without(pr.obsolete)
    /\ pr' = PrIdle
    /\ last' = "other"
    /\ UNCHANGED <<remotes, heads, track, worktree, world, sync, up, pushed, raced>>

\* The prune is interrupted.
PruneInterrupt ==
    /\ pr.pc # "idle"
    /\ pr' = PrIdle
    /\ last' = "other"
    /\ UNCHANGED <<gitVars, sync, up, pushed, raced>>

-----------------------------------------------------------------------------

\* The server takes a review as it got it, an older version of it too, and drops
\* a branch.
ReviewServer ==
    /\ \/ \E r \in RBranches, b \in LBranches : \E c \in pushed[b] : ServerAccept(r, c)
       \/ \E r \in RBranches : ServerDeleteBranch(r)
       \/ \E r \in RBranches, i \in UpIds : ServerCommit(r, i)
    /\ last' = "other"
    /\ UNCHANGED sync

\* sync fetches, with --prune or without.
Others ==
    /\ \/ \E p \in BOOLEAN : FetchRefs([PlainFetch EXCEPT !.prune = p])
       \/ \E bad \in Failing : CanBegin /\ SyncRead(PlainSync(TRUE), bad)
       \/ SyncRun
       \/ \E b \in LBranches : StartBranch(b)
       \/ User
       \/ ReviewServer
    /\ up' = [up EXCEPT !.moved = @ \/ /\ up.pc = "resolve"
                                        /\ heads'[up.branch] # heads[up.branch]]
    /\ UNCHANGED <<pr, pushed, raced>>

TNext ==
    \/ \E b \in LBranches : UploadSkip(b)
    \/ \E b \in LBranches, rerun \in BOOLEAN : UploadRead(b, rerun)
    \/ \E b \in LBranches, dest \in RBranches \cup {""}, rerun \in BOOLEAN :
          UploadReadSingle(b, dest, rerun)
    \/ UploadEdit
    \/ UploadConfirm
    \/ \E dest \in RBranches \cup {""} : UploadPush(dest)
    \/ UploadResolve
    \/ UploadMark
    \/ UploadScan
    \/ UploadClean
    \/ UploadInterrupt
    \/ \E S \in {LBranches} \cup {{b} : b \in LBranches}, force \in BOOLEAN : PruneRead(S, force)
    \/ PruneDetach
    \/ PruneChoose
    \/ PruneForce
    \/ PruneDelete
    \/ PruneReport
    \/ PruneScan
    \/ PruneClean
    \/ PruneInterrupt
    \/ Others

TSpec == TInit /\ [][TNext]_tvars

-----------------------------------------------------------------------------
(* Properties. *)

\* Whatever sync, start, upload and prune do and in whatever order, a commit of the
\* user leaves the branches only if the user drops it, its branch is abandoned with
\* --force, or its branch tracked nothing when prune looked, though it was not merged;
\* otherwise it is still in HEAD or in a branch of the server.
TopicWorkKept ==
    [][\A i \in BranchWork \ BranchWork' :
          \/ last' = "user"
          \/ i \in IdsOf(HeadId') \cup Fetched'
          \/ pr.pc = "force" /\ \E b \in pr.loose : i \in IdsOf(heads[b])]_tvars

\* "no change since last upload" is said only of a commit that the server got,
\* unless the branch moved between the push and the look at it for the mark: a push
\* that failed or was interrupted, a prune or a sync in between never make upload
\* skip a change.
SkipOnlyUploaded == \A b \in LBranches \ raced : NoChange(b) => heads[b] \in pushed[b]

-----------------------------------------------------------------------------
(* The inductive invariant behind them, beside that of ProjectSync. *)

\* What upload and prune hold on to is a branch, and git branch -D gets only those
\* that may lose work; between the push and the mark
\* the server has the branch as it is, or as it was resolved, unless it moved or was
\* deleted.
HeldInv ==
    /\ up.pc \in {"confirm", "push", "resolve", "mark"} => up.branch \in LBranches
    /\ pr.pc = "detach" => pr.current \in LBranches
    /\ pr.pc = "force" => pr.drop \subseteq pr.loose
    /\ up.pc = "resolve" /\ ~up.moved =>
          heads[up.branch] = {} \/ heads[up.branch] \in pushed[up.branch]
    /\ up.pc = "mark" /\ ~up.moved => up.base \in pushed[up.branch]

\* The server got what a published reference names.
PublishedInv == \A b \in LBranches \ raced : published[b] # {} => published[b] \in pushed[b]

TopicInv == TTypeOK /\ ProjectInv /\ HeldInv /\ PublishedInv
=============================================================================
