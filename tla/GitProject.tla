----------------------------- MODULE GitProject -----------------------------
(***************************************************************************)
(* One project of a workspace: its git repository, the branches of the     *)
(* server it is fetched from, and what the user and the server do to them. *)
(* The commands of git-repo-go that act on it are in the modules that      *)
(* extend this one.                                                        *)
(*                                                                         *)
(* A commit is the set of the changes its history holds, so that           *)
(* `git rev-list a --not b` lists something exactly when a is not a subset *)
(* of b.  A change carries the identities of the changes it was made on: a *)
(* rebased change is a new commit with the same identity.  The empty set   *)
(* stands for a reference that does not resolve ("" in the code).          *)
(***************************************************************************)
EXTENDS Naturals, FiniteSets

CONSTANTS RBranches,   \* branches of the server
          Tags,        \* tags of the server, which never move
          LBranches,   \* local branches
          UpIds,       \* identities of changes made by others
          LocalIds,    \* identities of changes made by the user
          Fallback     \* the branch that upstream or the default revision of
                       \* the manifest names, "" if none; no dest-branch is set

\* "" is the empty string the code uses for "no branch".
ASSUME GitAssumption ==
    /\ "" \notin RBranches \cup LBranches \cup Tags
    /\ RBranches \cap Tags = {}
    /\ UpIds \cap LocalIds = {}
    /\ Fallback \in RBranches \cup {""}
    /\ {"base", "merge"} \cap (UpIds \cup LocalIds) = {}

VARIABLES upstream,   \* branches and tags on the server
          remotes,    \* refs/remotes/<remote>/* and refs/tags/*
          heads,      \* refs/heads/*
          published,  \* refs/published/*
          track,      \* branch.<name>.merge
          head,       \* branch HEAD points to, "" when HEAD is detached
          detached,   \* commit of a detached HEAD, {} when HEAD is unborn
          dirty,      \* the worktree has uncommitted changes
          rebasing,   \* the stopped rebase: its branch, and where that was
          merging,    \* commit a stopped merge brings in, {} if none
          revision,   \* revision of the project in the manifest
          made        \* identities of the changes made so far

gitVars == <<upstream, remotes, heads, published, track, head, detached,
             dirty, rebasing, merging, revision, made>>

worktree  == <<head, detached, dirty, rebasing, merging>>
localVars == <<remotes, heads, published, track>>
world     == <<upstream, revision, made>>

Refs == RBranches \cup Tags
Ids == UpIds \cup LocalIds \cup {"base", "merge"}
Change == [id : Ids, on : SUBSET Ids]
Commit == SUBSET Change

IdsOf(c) == {x.id : x \in c}
Base == {[id |-> "base", on |-> {}]}

\* What git makes of commit c.
Grow(c, i) == c \cup {[id |-> i, on |-> IdsOf(c)]}
MergeOf(c, d) == IF c \subseteq d THEN d
                 ELSE IF d \subseteq c THEN c ELSE Grow(c \cup d, "merge")
RebaseOf(c, onto) ==
    onto \cup {[id |-> x.id, on |-> IdsOf(onto) \cup x.on] :
                  x \in {y \in c \ onto : y.id \notin IdsOf(onto) \cup {"merge"}}}

\* Revlist(a, "--not", b)
Revlist(a, b) == a \ b

HeadId == IF head = "" THEN detached ELSE heads[head]

NoRebase == [branch |-> "", orig |-> {}]
Rebasing == rebasing.branch # ""

GitTypeOK ==
    /\ upstream \in [Refs -> Commit]
    /\ remotes \in [Refs -> Commit]
    /\ heads \in [LBranches -> Commit]
    /\ published \in [LBranches -> Commit]
    /\ track \in [LBranches -> RBranches \cup {""}]
    /\ head \in LBranches \cup {""}
    /\ detached \in Commit
    /\ dirty \in BOOLEAN
    /\ rebasing \in [branch : LBranches \cup {""}, orig : Commit]
    /\ merging \in Commit
    /\ revision \in Refs \cup {""}
    /\ made \subseteq UpIds \cup LocalIds

\* A repository just created by GitInit, before the first fetch; what its
\* revision is depends on the project.
GitInit ==
    /\ upstream = [r \in Refs |-> Base]
    /\ remotes = [r \in Refs |-> {}]
    /\ heads = [b \in LBranches |-> {}]
    /\ published = [b \in LBranches |-> {}]
    /\ track = [b \in LBranches |-> ""]
    /\ head = ""
    /\ detached = {}
    /\ dirty = FALSE
    /\ rebasing = NoRebase
    /\ merging = {}
    /\ made = {}

-----------------------------------------------------------------------------
(* References. *)

\* Project.ResolveRemoteTracking
ResolveRemoteTracking(r) == IF r = "" THEN {} ELSE remotes[r]

\* The changes that the fetched branches and tags hold.
Fetched == UNION {IdsOf(remotes[r]) : r \in Refs}

\* Project.UpdateBranchTracking: a tag or a commit is not tracked.
TrackingOf(r) == IF r \in RBranches THEN r ELSE ""

\* The revision, or when it is immutable the branch the manifest names instead.
DefaultTrackingBranch == IF revision \in RBranches THEN revision ELSE Fallback

\* Project.CleanPublishedCache: a published reference without its branch goes.
CleanPublishedCache(hs) == [b \in LBranches |-> IF hs[b] = {} THEN {} ELSE published[b]]

-----------------------------------------------------------------------------
(* HEAD. *)

\* git checkout moves HEAD to branch b, or to commit c if b is "".  What is
\* staged of a stopped rebase goes along and the rebase waits; a merge whose
\* conflicts are staged is forgotten.
MoveHead(b, c) ==
    /\ head' = b
    /\ detached' = c
    /\ dirty' \in {dirty, dirty \/ (Rebasing /\ head = "")}
    /\ merging' = {}
    /\ UNCHANGED rebasing

\* Edits, or conflicts that are not resolved and staged, may be in its way.
InTheWay == dirty \/ merging # {} \/ (Rebasing /\ head = "")

-----------------------------------------------------------------------------
(* The user. *)

\* The worktree exists and no conflict waits to be resolved in it.
Workable == HeadId # {} /\ merging = {} /\ (Rebasing => head # "")

Edit ==
    /\ Workable /\ ~dirty
    /\ dirty' = TRUE
    /\ UNCHANGED <<head, detached, rebasing, merging, localVars, world>>

\* git commit -a, which also concludes a merge
UserCommit(i) ==
    /\ HeadId # {} /\ (Rebasing => head # "") /\ dirty
    /\ i \notin made
    /\ made' = made \cup {i}
    /\ dirty' = FALSE
    /\ merging' = {}
    /\ \/ /\ head # ""
          /\ heads' = [heads EXCEPT ![head] = Grow(@ \cup merging, i)]
          /\ UNCHANGED detached
       \/ /\ head = ""
          /\ detached' = Grow(detached, i)
          /\ UNCHANGED heads
    /\ UNCHANGED <<remotes, published, track, head, rebasing, upstream, revision>>

\* git checkout <branch>, also in the middle of a stopped rebase
UserCheckout(b) ==
    /\ HeadId # {} /\ ~dirty /\ merging = {}
    /\ b # head /\ heads[b] # {}
    /\ MoveHead(b, {})
    /\ UNCHANGED <<localVars, world>>

\* git checkout -b <branch>: a branch without tracking information
UserBranch(b) ==
    /\ HeadId # {} /\ merging = {}
    /\ heads[b] = {}
    /\ heads' = [heads EXCEPT ![b] = HeadId]
    /\ MoveHead(b, {})
    /\ UNCHANGED <<remotes, published, track, world>>

\* git rebase --continue, with the conflicts resolved.  The branch is written
\* only if nothing has moved it.
UserContinueRebase ==
    /\ Rebasing /\ head = ""
    /\ heads[rebasing.branch] = rebasing.orig
    /\ heads' = [heads EXCEPT ![rebasing.branch] = RebaseOf(@, detached)]
    /\ head' = rebasing.branch
    /\ detached' = {}
    /\ dirty' = FALSE
    /\ rebasing' = NoRebase
    /\ UNCHANGED <<remotes, published, track, merging, world>>

\* git rebase --abort, from wherever HEAD is now
UserAbortRebase ==
    /\ Rebasing
    /\ heads' = [heads EXCEPT ![rebasing.branch] = rebasing.orig]
    /\ head' = rebasing.branch
    /\ detached' = {}
    /\ dirty' = FALSE
    /\ merging' = {}
    /\ rebasing' = NoRebase
    /\ UNCHANGED <<remotes, published, track, world>>

\* git merge --abort
UserAbortMerge ==
    /\ merging # {}
    /\ merging' = {}
    /\ dirty' = FALSE
    /\ UNCHANGED <<head, detached, rebasing, localVars, world>>

-----------------------------------------------------------------------------
(* The server and the manifest. *)

\* Somebody else's change enters branch r.
ServerCommit(r, i) ==
    /\ upstream[r] # {}
    /\ i \notin made
    /\ made' = made \cup {i}
    /\ upstream' = [upstream EXCEPT ![r] = Grow(@, i)]
    /\ UNCHANGED <<worktree, localVars, revision>>

\* Branch r is deleted on the server.
ServerDeleteBranch(r) ==
    /\ upstream[r] # {}
    /\ upstream' = [upstream EXCEPT ![r] = {}]
    /\ UNCHANGED <<worktree, localVars, revision, made>>

\* The review of commit c is accepted: the server rebases it on branch r.
ServerAccept(r, c) ==
    /\ upstream[r] # {}
    /\ IdsOf(c) \cap LocalIds # {}
    /\ ~ (IdsOf(c) \ {"merge"} \subseteq IdsOf(upstream[r]))
    /\ upstream' = [upstream EXCEPT ![r] = RebaseOf(c, @)]
    /\ UNCHANGED <<worktree, localVars, revision, made>>

\* The manifest names another branch or tag for the project.
ManifestSwitch(r) ==
    /\ r # revision
    /\ revision' = r
    /\ UNCHANGED <<worktree, localVars, upstream, made>>
=============================================================================
