--------------------------- MODULE ProjectProofs ----------------------------
(***************************************************************************)
(* The proofs about one project, for any branches, tags and changes and    *)
(* with the user and the server acting between any two steps.              *)
(*   1. ProjectSync: a sync is type correct, loses no committed and no     *)
(*      uncommitted work whichever rev-list fails, leaves a stopped rebase *)
(*      to the user, and does not report success short of the manifest     *)
(*      revision unless it could not look for new commits.                 *)
(*   2. TopicBranches: upload skips no change the server never got, and    *)
(*      prune and abandon delete work nobody else holds only of branches   *)
(*      they chose for git branch -D.                                      *)
(*   3. ManifestProject: init and sync of .repo/manifests keep the commits *)
(*      made there unless they reset without having compared them, and an  *)
(*      init that succeeds leaves HEAD on a branch that tracks the         *)
(*      manifest branch.                                                   *)
(***************************************************************************)
EXTENDS TopicBranches, ManifestProject, TLAPS

(* A commit lists the changes of its history: a longer history lists more. *)
LEMMA IdsGrow ==
    ASSUME NEW c, NEW d, c \subseteq d
    PROVE  IdsOf(c) \subseteq IdsOf(d)
BY DEF IdsOf

(* The changes of a commit have identities. *)
LEMMA IdsType ==
    ASSUME NEW c \in Commit
    PROVE  IdsOf(c) \subseteq Ids
BY DEF IdsOf, Commit, Change

(* git commit adds one change to the history. *)
LEMMA GrowFacts ==
    ASSUME NEW c \in Commit, NEW i \in Ids
    PROVE  Grow(c, i) \in Commit /\ c \subseteq Grow(c, i) /\ Grow(c, i) # {}
<1>1. [id |-> i, on |-> IdsOf(c)] \in Change
  BY IdsType DEF Change
<1> QED
  BY <1>1 DEF Grow, Commit

(* git merge leaves both histories in the result. *)
LEMMA MergeFacts ==
    ASSUME NEW c \in Commit, NEW d \in Commit
    PROVE  MergeOf(c, d) \in Commit /\ c \subseteq MergeOf(c, d) /\ d \subseteq MergeOf(c, d)
<1>1. c \cup d \in Commit /\ "merge" \in Ids
  BY DEF Commit, Ids
<1>2. Grow(c \cup d, "merge") \in Commit /\ c \cup d \subseteq Grow(c \cup d, "merge")
  BY <1>1, GrowFacts
<1> QED
  BY <1>2 DEF MergeOf

(* git rebase leaves the commit it rebases on, and the identities of all   *)
(* changes but the merges it flattens.                                     *)
LEMMA RebaseFacts ==
    ASSUME NEW c \in Commit, NEW onto \in Commit
    PROVE  /\ RebaseOf(c, onto) \in Commit
           /\ onto \subseteq RebaseOf(c, onto)
           /\ IdsOf(c) \ {"merge"} \subseteq IdsOf(RebaseOf(c, onto))
<1> DEFINE new(x) == [id |-> x.id, on |-> IdsOf(onto) \cup x.on]
           M == {y \in c \ onto : y.id \notin IdsOf(onto) \cup {"merge"}}
<1>1. RebaseOf(c, onto) = onto \cup {new(x) : x \in M}
  BY DEF RebaseOf
<1>2. ASSUME NEW x \in M
      PROVE  new(x) \in Change
  <2>1. x.id \in Ids /\ x.on \in SUBSET Ids
    BY DEF Commit, Change
  <2> QED
    BY <2>1, IdsType DEF Change
<1>3. ASSUME NEW i \in IdsOf(c), i # "merge"
      PROVE  i \in IdsOf(RebaseOf(c, onto))
  <2>1. PICK x \in c : x.id = i
    BY DEF IdsOf
  <2>2. CASE i \in IdsOf(onto)
    BY <1>1, <2>2 DEF IdsOf
  <2>3. CASE i \notin IdsOf(onto)
    <3>1. x \in M
      BY <2>1, <2>3, <1>3 DEF IdsOf
    <3>2. new(x) \in RebaseOf(c, onto) /\ new(x).id = i
      BY <3>1, <1>1, <2>1
    <3> HIDE DEF new
    <3> QED
      BY <3>2 DEF IdsOf
  <2> QED
    BY <2>2, <2>3
<1>4. RebaseOf(c, onto) \in Commit
  <2> HIDE DEF new, M
  <2> QED
    BY <1>1, <1>2 DEF Commit
<1> QED
  BY <1>1, <1>3, <1>4

-----------------------------------------------------------------------------
(* Branches keep their work. *)

(* What only the user and prune do to a branch: take its commit or one of   *)
(* the user's changes away.                                                 *)
HeadsKept ==
    \A b \in LBranches :
        /\ heads[b] # {} => heads'[b] # {}
        /\ LocalIds \cap IdsOf(heads[b]) \subseteq IdsOf(heads'[b])

(* A branch that keeps its commits keeps its work. *)
LEMMA SupersetKept ==
    ASSUME NEW c, NEW d, c \subseteq d
    PROVE  (c # {} => d # {}) /\ LocalIds \cap IdsOf(c) \subseteq IdsOf(d)
BY IdsGrow

(* A rebase on a commit keeps the user's changes, none of which is a merge. *)
LEMMA RebaseKept ==
    ASSUME NEW c \in Commit, NEW onto \in Commit, onto # {}
    PROVE  RebaseOf(c, onto) # {} /\ LocalIds \cap IdsOf(c) \subseteq IdsOf(RebaseOf(c, onto))
BY RebaseFacts, GitAssumption

(* One branch moves and keeps its work. *)
LEMMA OneBranchKept ==
    ASSUME NEW b \in LBranches, NEW c, heads \in [LBranches -> Commit],
           heads' = [heads EXCEPT ![b] = c],
           heads[b] # {} => c # {},
           LocalIds \cap IdsOf(heads[b]) \subseteq IdsOf(c)
    PROVE  HeadsKept
BY DEF HeadsKept

(* git checkout moves HEAD, and drops no edit and no stopped rebase. *)
LEMMA MoveHeadFacts ==
    ASSUME GitTypeOK, NEW b \in LBranches \cup {""}, NEW c \in Commit, MoveHead(b, c)
    PROVE  /\ head' = b /\ detached' = c
           /\ head' \in LBranches \cup {""} /\ detached' \in Commit
           /\ dirty' \in BOOLEAN /\ (dirty => dirty') /\ merging' \in Commit
           /\ UNCHANGED rebasing /\ rebasing' \in [branch : LBranches \cup {""}, orig : Commit]
<1>1. dirty \in BOOLEAN /\ (Rebasing /\ head = "") \in BOOLEAN
  BY DEF GitTypeOK
<1>2. dirty' \in {dirty, dirty \/ (Rebasing /\ head = "")}
  BY DEF MoveHead
<1>3. dirty' \in BOOLEAN /\ (dirty => dirty')
  BY <1>1, <1>2, Zenon
<1>4. /\ head' = b /\ detached' = c /\ merging' = {} /\ UNCHANGED rebasing
  BY DEF MoveHead
<1> QED
  BY <1>3, <1>4 DEF GitTypeOK, Commit

(* A rebase that nobody has begun. *)
LEMMA NoRebaseFacts ==
    NoRebase \in [branch : LBranches \cup {""}, orig : Commit] /\ NoRebase.branch = ""
BY DEF NoRebase, Commit

(* The commits of a new repository. *)
LEMMA InitTypes == Base \in Commit /\ {} \in Commit
<1>1. [id |-> "base", on |-> {}] \in Change
  BY DEF Change, Ids
<1> QED
  BY <1>1 DEF Base, Commit

(* Without a plan, no reset is planned. *)
LEMMA IdleNoReset == sync = Idle => NoReset
<1>1. Idle.cmd = "idle"
  BY DEF Idle
<1> QED
  BY <1>1 DEF NoReset

(* A new repository: nothing is checked out, nothing is planned. *)
LEMMA InitInv == Init => ProjectInv
<1> SUFFICES ASSUME Init
             PROVE  ProjectInv
  OBVIOUS
<1> USE DEF Init, GitInit, Idle
<1>1. Base \in Commit
  BY InitTypes
<1>2. {} \in Commit
  BY InitTypes
<1>3. dirty \in BOOLEAN
  BY Zenon
<1>4. GitTypeOK
  BY <1>1, <1>2, <1>3, NoRebaseFacts, GitAssumption DEF GitTypeOK
<1>5. TypeOK
  BY <1>2, <1>4 DEF TypeOK, Commands, Outcomes
<1> QED
  BY <1>5, NoRebaseFacts DEF ProjectInv, WorktreeInv, PlanInv, FreshInv, Rebasing

-----------------------------------------------------------------------------
(* The server and fetch leave the worktree and the branches alone. *)

(* A step that touches only what is not read before a command is run. *)
LEMMA ElsewhereInv ==
    ASSUME ProjectInv, GitTypeOK', last' \in {"other", "user"},
           UNCHANGED <<heads, worktree, sync>>
    PROVE  ProjectInv'
<1>1. TypeOK'
  BY DEF ProjectInv, TypeOK, Outcomes
<1>2. WorktreeInv' /\ PlanInv' /\ FreshInv'
  BY DEF ProjectInv, WorktreeInv, PlanInv, FreshInv, worktree, Rebasing, HeadId
<1> QED
  BY <1>1, <1>2 DEF ProjectInv

(* A fetch gives a tracking reference its own or the server's commit. *)
LEMMA FetchInv ==
    ASSUME ProjectInv, NEW o, FetchRefs(o)
    PROVE  ProjectInv'
<1> USE DEF FetchRefs, world, worktree
<1>1. GitTypeOK
  BY DEF ProjectInv, TypeOK
<1>2. ASSUME NEW r \in Refs
      PROVE  FetchedRef(r, o) \in Commit
  BY <1>1, GitAssumption DEF FetchedRef, GitTypeOK, Refs
<1>3. remotes' \in [Refs -> Commit]
  BY <1>2
<1>4. GitTypeOK'
  BY <1>1, <1>3 DEF GitTypeOK
<1> QED
  BY <1>4, ElsewhereInv

(* Somebody's change enters the server. *)
LEMMA ServerCommitInv ==
    ASSUME ProjectInv, NEW r \in RBranches, NEW i \in UpIds, ServerCommit(r, i),
           last' = "other", UNCHANGED sync
    PROVE  ProjectInv'
<1> USE DEF ServerCommit, localVars, worktree
<1>1. GitTypeOK
  BY DEF ProjectInv, TypeOK
<1>2. Grow(upstream[r], i) \in Commit
  BY <1>1, GrowFacts DEF GitTypeOK, Refs, Ids
<1>3. upstream' \in [Refs -> Commit] /\ made' \subseteq UpIds \cup LocalIds
  BY <1>1, <1>2 DEF GitTypeOK
<1>4. GitTypeOK'
  BY <1>1, <1>3 DEF GitTypeOK
<1> QED
  BY <1>4, ElsewhereInv

(* The server drops a branch. *)
LEMMA ServerDeleteInv ==
    ASSUME ProjectInv, NEW r \in RBranches, ServerDeleteBranch(r),
           last' = "other", UNCHANGED sync
    PROVE  ProjectInv'
<1> USE DEF ServerDeleteBranch, localVars, worktree
<1>1. GitTypeOK
  BY DEF ProjectInv, TypeOK
<1>2. {} \in Commit
  BY DEF Commit
<1>3. upstream' \in [Refs -> Commit]
  BY <1>1, <1>2 DEF GitTypeOK
<1>4. GitTypeOK'
  BY <1>1, <1>3 DEF GitTypeOK
<1> QED
  BY <1>4, ElsewhereInv

(* A review is accepted. *)
LEMMA ServerAcceptInv ==
    ASSUME ProjectInv, NEW r \in RBranches, NEW c \in Commit, ServerAccept(r, c),
           last' = "other", UNCHANGED sync
    PROVE  ProjectInv'
<1> USE DEF ServerAccept, localVars, worktree
<1>1. GitTypeOK
  BY DEF ProjectInv, TypeOK
<1>2. RebaseOf(c, upstream[r]) \in Commit
  BY <1>1, RebaseFacts DEF GitTypeOK, Refs
<1>3. upstream' \in [Refs -> Commit]
  BY <1>1, <1>2 DEF GitTypeOK
<1>4. GitTypeOK'
  BY <1>1, <1>3 DEF GitTypeOK
<1> QED
  BY <1>4, ElsewhereInv

(* Another revision in the manifest. *)
LEMMA ManifestSwitchInv ==
    ASSUME ProjectInv, NEW r \in Refs, ManifestSwitch(r),
           last' = "other", UNCHANGED sync
    PROVE  ProjectInv'
<1> USE DEF ManifestSwitch, localVars, worktree
<1>1. GitTypeOK'
  BY DEF ProjectInv, TypeOK, GitTypeOK
<1> QED
  BY <1>1, ElsewhereInv

(* What the server and the manifest do. *)
LEMMA ServerInv ==
    ASSUME ProjectInv, Server
    PROVE  ProjectInv' /\ UNCHANGED <<heads, worktree>> /\ last' = "other"
<1>1. \A b \in LBranches : heads[b] \in Commit
  BY DEF ProjectInv, TypeOK, GitTypeOK
<1>2. ProjectInv'
  BY <1>1, ServerCommitInv, ServerDeleteInv, ServerAcceptInv, ManifestSwitchInv DEF Server
<1> QED
  BY <1>2 DEF Server, ServerCommit, ServerDeleteBranch, ServerAccept, ManifestSwitch,
              localVars, worktree

-----------------------------------------------------------------------------
(* The user acts at any time, between SyncRead and SyncRun too. *)

(* An edit. *)
LEMMA EditInv ==
    ASSUME ProjectInv, Edit, last' = "user", UNCHANGED sync
    PROVE  ProjectInv'
<1> USE DEF Edit, localVars, world
<1>1. dirty' \in BOOLEAN
  BY Zenon
<1>2. GitTypeOK'
  BY <1>1 DEF ProjectInv, TypeOK, GitTypeOK
<1>3. TypeOK'
  BY <1>2 DEF ProjectInv, TypeOK, Outcomes
<1>4. WorktreeInv' /\ PlanInv' /\ FreshInv'
  BY DEF ProjectInv, WorktreeInv, PlanInv, FreshInv, Rebasing, HeadId
<1> QED
  BY <1>3, <1>4 DEF ProjectInv

(* A commit, on the branch or on the detached HEAD. *)
LEMMA UserCommitInv ==
    ASSUME ProjectInv, NEW i \in LocalIds, UserCommit(i), last' = "user", UNCHANGED sync
    PROVE  ProjectInv'
<1> USE DEF UserCommit
<1>0. GitTypeOK /\ WorktreeInv /\ PlanInv /\ i \in Ids
  BY DEF ProjectInv, TypeOK, Ids
<1>1. dirty' \in BOOLEAN /\ merging' \in Commit
  <2>1. dirty' \in BOOLEAN
    BY Zenon
  <2> QED
    BY <2>1 DEF Commit
<1>2. CASE head # ""
  <2> DEFINE c == Grow(heads[head] \cup merging, i)
  <2>1. head \in LBranches /\ heads[head] \cup merging \in Commit
    BY <1>0, <1>2 DEF GitTypeOK, Commit
  <2>2. c \in Commit /\ c # {}
    BY <1>0, <2>1, GrowFacts
  <2>3. heads' = [heads EXCEPT ![head] = c] /\ UNCHANGED detached
    BY <1>2
  <2> HIDE DEF c
  <2>4. heads' \in [LBranches -> Commit] /\ heads'[head] = c
    BY <2>1, <2>2, <2>3, <1>0 DEF GitTypeOK
  <2>5. GitTypeOK'
    BY <1>0, <1>1, <2>4, <2>3 DEF GitTypeOK
  <2>6. HeadId' = c
    BY <1>2, <2>4 DEF HeadId
  <2>7. WorktreeInv' /\ PlanInv'
    BY <1>0, <1>2, <2>2, <2>4, <2>6 DEF WorktreeInv, PlanInv, Rebasing
  <2> QED
    BY <2>5, <2>7 DEF ProjectInv, TypeOK, Outcomes, FreshInv
<1>3. CASE head = ""
  <2>1. Grow(detached, i) \in Commit /\ Grow(detached, i) # {}
    BY <1>0, GrowFacts DEF GitTypeOK
  <2>2. detached' = Grow(detached, i) /\ UNCHANGED heads
    BY <1>3
  <2>3. GitTypeOK'
    BY <1>0, <1>1, <2>1, <2>2 DEF GitTypeOK
  <2>4. WorktreeInv' /\ PlanInv'
    BY <1>0, <1>3, <2>1, <2>2 DEF WorktreeInv, PlanInv, Rebasing, HeadId
  <2> QED
    BY <2>3, <2>4 DEF ProjectInv, TypeOK, Outcomes, FreshInv
<1> QED
  BY <1>2, <1>3

(* A branch that has a commit is checked out, or one is made at a commit. *)
LEMMA BranchOutInv ==
    ASSUME ProjectInv, NEW b \in LBranches, NEW c \in Commit, c # {}, MoveHead(b, {}),
           heads' = [heads EXCEPT ![b] = c], track' \in [LBranches -> RBranches \cup {""}],
           last' \in {"user", "other"}, UNCHANGED <<remotes, published, world, sync>>
    PROVE  ProjectInv'
<1> USE DEF world
<1>0. GitTypeOK /\ WorktreeInv /\ PlanInv /\ {} \in Commit
  BY DEF ProjectInv, TypeOK, Commit
<1>1. b # ""
  BY GitAssumption
<1>2. /\ head' = b /\ head' \in LBranches \cup {""} /\ detached' \in Commit
      /\ dirty' \in BOOLEAN /\ merging' \in Commit
      /\ UNCHANGED rebasing /\ rebasing' \in [branch : LBranches \cup {""}, orig : Commit]
  BY <1>0, MoveHeadFacts
<1>3. heads' \in [LBranches -> Commit] /\ heads'[b] = c
  BY <1>0 DEF GitTypeOK
<1>4. GitTypeOK'
  BY <1>0, <1>2, <1>3 DEF GitTypeOK
<1>5. HeadId' = c
  BY <1>1, <1>2, <1>3 DEF HeadId
<1>6. WorktreeInv' /\ PlanInv'
  BY <1>0, <1>1, <1>2, <1>3, <1>5 DEF WorktreeInv, PlanInv, Rebasing
<1> QED
  BY <1>4, <1>6 DEF ProjectInv, TypeOK, Outcomes, FreshInv

(* The user's git checkout. *)
LEMMA UserSwitchInv ==
    ASSUME ProjectInv, NEW b \in LBranches, UserCheckout(b) \/ UserBranch(b),
           last' = "user", UNCHANGED sync
    PROVE  ProjectInv'
<1>0. GitTypeOK
  BY DEF ProjectInv, TypeOK
<1>1. CASE UserCheckout(b)
  <2> USE DEF UserCheckout, localVars
  <2>1. heads[b] \in Commit /\ heads[b] # {} /\ MoveHead(b, {})
    BY <1>0, <1>1 DEF GitTypeOK
  <2>2. heads' = [heads EXCEPT ![b] = heads[b]] /\ track' \in [LBranches -> RBranches \cup {""}]
    BY <1>0, <1>1 DEF GitTypeOK
  <2>3. UNCHANGED <<remotes, published, world, sync>>
    BY <1>1
  <2> QED
    BY <2>1, <2>2, <2>3, BranchOutInv
<1>2. CASE UserBranch(b)
  <2> USE DEF UserBranch
  <2>1. HeadId \in Commit /\ HeadId # {} /\ MoveHead(b, {})
    BY <1>0, <1>2 DEF GitTypeOK, HeadId
  <2>2. heads' = [heads EXCEPT ![b] = HeadId] /\ track' \in [LBranches -> RBranches \cup {""}]
    BY <1>0, <1>2 DEF GitTypeOK
  <2>3. UNCHANGED <<remotes, published, world, sync>>
    BY <1>2
  <2> QED
    BY <2>1, <2>2, <2>3, BranchOutInv
<1> QED
  BY <1>1, <1>2

(* A rebase ends on its branch, at a commit. *)
LEMMA RebaseEndInv ==
    ASSUME ProjectInv, Rebasing, NEW c \in Commit, c # {},
           heads' = [heads EXCEPT ![rebasing.branch] = c], head' = rebasing.branch,
           detached' = {}, dirty' = FALSE, merging' \in Commit, rebasing' = NoRebase,
           last' = "user", UNCHANGED <<remotes, published, track, world, sync>>
    PROVE  ProjectInv'
<1> USE DEF world
<1>0. GitTypeOK /\ PlanInv /\ {} \in Commit
  BY DEF ProjectInv, TypeOK, Commit
<1>1. rebasing.branch \in LBranches /\ head' # ""
  BY <1>0 DEF GitTypeOK, Rebasing
<1>2. heads' \in [LBranches -> Commit] /\ heads'[head'] = c
  BY <1>0, <1>1 DEF GitTypeOK
<1>3. dirty' \in BOOLEAN
  BY Zenon
<1>4. GitTypeOK'
  BY <1>0, <1>1, <1>2, <1>3, NoRebaseFacts DEF GitTypeOK
<1>5. ~Rebasing'
  BY NoRebaseFacts DEF Rebasing
<1>6. WorktreeInv' /\ PlanInv'
  BY <1>0, <1>1, <1>2, <1>5 DEF WorktreeInv, PlanInv
<1> QED
  BY <1>4, <1>6 DEF ProjectInv, TypeOK, Outcomes, FreshInv

(* A stopped rebase is finished or given up, a stopped merge given up. *)
LEMMA UserResolveInv ==
    ASSUME ProjectInv, UserContinueRebase \/ UserAbortRebase \/ UserAbortMerge,
           last' = "user", UNCHANGED sync
    PROVE  ProjectInv'
<1>0. GitTypeOK /\ WorktreeInv /\ PlanInv /\ {} \in Commit
  BY DEF ProjectInv, TypeOK, Commit
<1>1. Rebasing => rebasing.branch \in LBranches /\ rebasing.orig \in Commit /\ rebasing.orig # {}
  BY <1>0 DEF GitTypeOK, Rebasing, WorktreeInv
<1>2. CASE UserContinueRebase
  <2> USE DEF UserContinueRebase
  <2> DEFINE c == RebaseOf(heads[rebasing.branch], detached)
  <2>1. detached # {} /\ detached \in Commit /\ heads[rebasing.branch] \in Commit
    BY <1>0, <1>1, <1>2 DEF WorktreeInv, HeadId, GitTypeOK
  <2>2. c \in Commit /\ c # {}
    BY <2>1, RebaseFacts, RebaseKept
  <2>3. heads' = [heads EXCEPT ![rebasing.branch] = c]
    BY <1>2
  <2> HIDE DEF c
  <2>4. merging' \in Commit /\ UNCHANGED <<remotes, published, track, world, sync>>
    BY <1>0, <1>2 DEF GitTypeOK
  <2> QED
    BY <1>2, <2>2, <2>3, <2>4, RebaseEndInv
<1>3. CASE UserAbortRebase
  <2> USE DEF UserAbortRebase
  <2>1. /\ heads' = [heads EXCEPT ![rebasing.branch] = rebasing.orig]
        /\ merging' \in Commit /\ UNCHANGED <<remotes, published, track, world, sync>>
    BY <1>0, <1>3
  <2> QED
    BY <1>1, <1>3, <2>1, RebaseEndInv
<1>4. CASE UserAbortMerge
  <2> USE DEF UserAbortMerge, world, localVars
  <2>1. dirty' \in BOOLEAN
    BY <1>4, Zenon
  <2>2. GitTypeOK'
    BY <1>0, <1>4, <2>1 DEF GitTypeOK
  <2>3. WorktreeInv' /\ PlanInv'
    BY <1>0, <1>4 DEF WorktreeInv, PlanInv, Rebasing, HeadId
  <2> QED
    BY <1>4, <2>2, <2>3 DEF ProjectInv, TypeOK, Outcomes, FreshInv
<1> QED
  BY <1>2, <1>3, <1>4

(* What the user does. *)
LEMMA UserInv ==
    ASSUME ProjectInv, User
    PROVE  ProjectInv' /\ last' = "user"
<1>1. last' = "user" /\ UNCHANGED sync
  BY DEF User
<1> QED
  BY <1>1, EditInv, UserCommitInv, UserSwitchInv, UserResolveInv DEF User

-----------------------------------------------------------------------------
(* A sync reads and decides, then runs its command. *)

(* The parts of the decision. *)
Held(o, bad, revid) ==
    LET pub == IF CurrentBranch = "" THEN {} ELSE published[CurrentBranch]
    IN  PublishedCounts(o, pub) /\ (bad = "notMerged" \/ Revlist(pub, revid) # {})
Same(o) ==
    LET pub == IF CurrentBranch = "" THEN {} ELSE published[CurrentBranch]
    IN  PublishedCounts(o, pub) /\ pub = CurrentId
Behind(bad, revid) == bad # "remoteChanges" /\ Revlist(revid, CurrentId) # {}
UpToDate(o, bad, revid) ==
    (~o.isManifest \/ DefaultTrackingBranch = CurrentTrack) /\ ~Behind(bad, revid)
Switches(o) == o.isManifest /\ revision # CurrentTrack

(* What the decision says about the repository it was read from. *)
LEMMA DecideFacts ==
    ASSUME ProjectInv, NEW o \in CheckoutOptions, NEW bad
    PROVE  LET revid == ResolveRemoteTracking(revision)
           IN  /\ revid \in Commit
               /\ Decide(o, bad) \in Commands
               /\ Decide(o, bad) \in {"checkout", "reset", "rebase", "merge"} =>
                     revid # {} /\ (Rebasing => head # "")
               /\ Decide(o, bad) \in {"reset", "rebase", "merge"} => head # ""
               /\ Decide(o, bad) = "skip" => revid = {}
               /\ Decide(o, bad) = "none" /\ bad # "remoteChanges" => revid \subseteq HeadId
               /\ Decide(o, bad) = "reset" => o.isManifest
               /\ Decide(o, bad) = "reset" /\ bad # "localChanges" =>
                     LET current == ResolveRemoteTracking(track[head])
                     IN  current = {} \/ HeadId \subseteq current
<1> DEFINE revid == ResolveRemoteTracking(revision)
           switch == SwitchCommand(CurrentTrack, bad)
<1>0. GitTypeOK /\ WorktreeInv
  BY DEF ProjectInv, TypeOK
<1>1. revid \in Commit /\ (revision = "" => revid = {})
  BY <1>0 DEF ResolveRemoteTracking, GitTypeOK, Commit
<1>2. switch \in {"error", "reset"}
  BY DEF SwitchCommand
<1>3. CurrentBranch = head /\ (head # "" => CurrentTrack = track[head])
  BY <1>0 DEF CurrentBranch, CurrentTrack, WorktreeInv
<1>4. (head # "" => CurrentId = HeadId) /\ (head = "" => CurrentId = {})
  BY <1>0, <1>3 DEF CurrentId, HeadId, WorktreeInv
<1>5. Decide(o, bad) =
        IF revision = "" THEN "skip"
        ELSE IF revid = {} THEN "error"
        ELSE IF head = "" \/ o.detach THEN
            IF Rebasing THEN "error"
            ELSE IF CurrentId = revid /\ ~o.detach THEN "none" ELSE "checkout"
        ELSE IF CurrentId = revid THEN "none"
        ELSE IF CurrentTrack = "" THEN "checkout"
        ELSE IF UpToDate(o, bad, revid) THEN "none"
        ELSE IF Held(o, bad, revid) THEN "error"
        ELSE IF Same(o) THEN "merge"
        ELSE IF dirty THEN "error"
        ELSE IF Switches(o) THEN switch
        ELSE IF o.rebase THEN "rebase" ELSE "merge"
  <2> HIDE DEF revid, switch
  <2> QED
    BY <1>3, Zenon DEF Decide, revid, switch, IsRebaseInProgress, UpToDate, Behind, Held, Same, Switches
<1>6. switch = "reset" /\ bad # "localChanges" /\ head # "" =>
         ResolveRemoteTracking(track[head]) = {} \/ HeadId \subseteq ResolveRemoteTracking(track[head])
  BY <1>3, <1>4 DEF SwitchCommand, Revlist
<1>7. UpToDate(o, bad, revid) /\ bad # "remoteChanges" => revid \subseteq CurrentId
  BY DEF UpToDate, Behind, Revlist
<1>8. Switches(o) => o.isManifest
  BY DEF Switches
<1> HIDE DEF revid, switch
<1>9. /\ Decide(o, bad) \in Commands
      /\ Decide(o, bad) \in {"checkout", "reset", "rebase", "merge"} =>
            revid # {} /\ (Rebasing => head # "")
      /\ Decide(o, bad) \in {"reset", "rebase", "merge"} => head # ""
  BY <1>2, <1>5 DEF Commands
<1>10. /\ Decide(o, bad) = "none" /\ bad # "remoteChanges" => revid \subseteq HeadId
       /\ Decide(o, bad) = "skip" => revid = {}
  BY <1>1, <1>2, <1>4, <1>5, <1>7
<1>11. Decide(o, bad) = "reset" => switch = "reset" /\ head # "" /\ Switches(o)
  BY <1>2, <1>5
<1> QED
  BY <1>1, <1>6, <1>8, <1>9, <1>10, <1>11 DEF revid

(* A decision that is not blind is the one without a failure. *)
LEMMA SeenFacts ==
    ASSUME ProjectInv, NEW o \in CheckoutOptions, NEW bad, ~Blind(o, bad)
    PROVE  LET revid == ResolveRemoteTracking(revision)
           IN  /\ Decide(o, bad) = "none" => revid \subseteq HeadId
               /\ Decide(o, bad) = "skip" => revid = {}
               /\ Decide(o, bad) = "reset" => HeadId \subseteq ResolveRemoteTracking(track[head])
<1>1. Decide(o, bad) = Decide(o, "")
  BY DEF Blind
<1>2. /\ Decide(o, "") = "none" => ResolveRemoteTracking(revision) \subseteq HeadId
      /\ Decide(o, "") = "skip" => ResolveRemoteTracking(revision) = {}
      /\ Decide(o, "") = "reset" =>
            /\ head # ""
            /\ \/ ResolveRemoteTracking(track[head]) = {}
               \/ HeadId \subseteq ResolveRemoteTracking(track[head])
  BY DecideFacts
<1>3. head # "" => CurrentTrack = track[head]
  BY DEF ProjectInv, WorktreeInv, CurrentBranch, CurrentTrack
<1>4. Decide(o, bad) = "reset" => ResolveRemoteTracking(CurrentTrack) # {}
  BY DEF Blind
<1> QED
  BY <1>1, <1>2, <1>3, <1>4

(* The decision is taken; the published references are cleaned. *)
LEMMA SyncReadInv ==
    ASSUME ProjectInv, NEW o \in CheckoutOptions, NEW bad, SyncRead(o, bad)
    PROVE  ProjectInv' /\ (NoReset' \/ o.isManifest)
<1> USE DEF SyncRead, worktree, world
<1>0. GitTypeOK /\ WorktreeInv /\ {} \in Commit
  BY DEF ProjectInv, TypeOK, Commit
<1>1. published' \in [LBranches -> Commit]
  BY <1>0 DEF GitTypeOK, CleanPublishedCache
<1>2. GitTypeOK'
  BY <1>0, <1>1 DEF GitTypeOK
<1>3. /\ sync'.cmd = Decide(o, bad)
      /\ sync'.revid = ResolveRemoteTracking(revision)
      /\ sync'.branch = CurrentBranch
      /\ sync'.defaultTrack = DefaultTrackingBranch
      /\ sync'.blind = Blind(o, bad)
  OBVIOUS
<1>4. CurrentBranch \in LBranches \cup {""} /\ DefaultTrackingBranch \in RBranches \cup {""}
  BY <1>0, GitAssumption DEF GitTypeOK, CurrentBranch, DefaultTrackingBranch
<1>5. Decide(o, bad) \in Commands /\ ResolveRemoteTracking(revision) \in Commit
  BY DecideFacts
<1>6. Blind(o, bad) \in BOOLEAN
  BY Zenon DEF Blind
<1>7. sync' \in [cmd : Commands \cup {"idle"}, revid : Commit,
                 branch : LBranches \cup {""}, defaultTrack : RBranches \cup {""},
                 blind : BOOLEAN]
  BY <1>4, <1>5, <1>6
<1>8. TypeOK'
  BY <1>2, <1>7 DEF TypeOK, Outcomes
<1>9. WorktreeInv'
  BY <1>0 DEF WorktreeInv, Rebasing, HeadId
<1>10. PlanInv'
  <2>1. Rebasing' = Rebasing
    BY DEF Rebasing
  <2> QED
    BY <1>3, <2>1, DecideFacts DEF PlanInv
<1>11. FreshInv'
  <2>1. HeadId' = HeadId
    BY DEF HeadId
  <2>2. ResolveRemoteTracking(track[head])' = ResolveRemoteTracking(track[head])
    BY DEF ResolveRemoteTracking
  <2> QED
    BY <1>3, <2>1, <2>2, SeenFacts DEF FreshInv
<1>12. NoReset' \/ o.isManifest
  BY <1>3, DecideFacts DEF NoReset
<1> QED
  BY <1>8, <1>9, <1>10, <1>11, <1>12 DEF ProjectInv

(* What running the command promises. *)
RunPromise ==
    /\ HeadsKept
    /\ dirty => dirty'
    /\ Rebasing => UNCHANGED rebasing
    /\ Rebasing /\ head = "" => UNCHANGED <<heads, worktree>>
    /\ last = "planned" /\ last' = "synced" /\ ~sync.blind => sync.revid \subseteq HeadId'

(* How a sync ends, whatever its command. *)
LEMMA EndInv ==
    ASSUME ProjectInv, sync' = Idle, PostUpdate \/ Failed \/ (last' = "synced" /\ UNCHANGED track),
           UNCHANGED <<remotes, published, world>>,
           heads' \in [LBranches -> Commit],
           head' \in LBranches \cup {""}, detached' \in Commit, dirty' \in BOOLEAN,
           rebasing' \in [branch : LBranches \cup {""}, orig : Commit], merging' \in Commit,
           WorktreeInv'
    PROVE  ProjectInv'
<1> USE DEF world
<1>0. TypeOK
  BY DEF ProjectInv
<1>1. sync.branch \in LBranches \cup {""} /\ sync.defaultTrack \in RBranches \cup {""}
  BY <1>0 DEF TypeOK
<1>2. track' \in [LBranches -> RBranches \cup {""}]
  BY <1>0, <1>1 DEF TypeOK, GitTypeOK, PostUpdate, Failed
<1>3. GitTypeOK'
  BY <1>0, <1>2 DEF TypeOK, GitTypeOK
<1>4. last' \in {"synced", "syncFailed"}
  BY DEF PostUpdate, Failed
<1>5. sync' \in [cmd : Commands \cup {"idle"}, revid : Commit,
                 branch : LBranches \cup {""}, defaultTrack : RBranches \cup {""},
                 blind : BOOLEAN]
  <2>1. FALSE \in BOOLEAN
    BY Zenon
  <2> QED
    BY <2>1 DEF Idle, Commit
<1>6. TypeOK'
  BY <1>3, <1>4, <1>5 DEF TypeOK, Outcomes
<1>7. PlanInv' /\ FreshInv'
  BY <1>4 DEF PlanInv, FreshInv, Idle
<1> QED
  BY <1>6, <1>7 DEF ProjectInv

(* Nothing to do, or nothing that can be done. *)
LEMMA NoCommandInv ==
    ASSUME ProjectInv, NoCommand, sync' = Idle, UNCHANGED <<remotes, published, world>>
    PROVE  ProjectInv' /\ RunPromise
<1> USE DEF NoCommand, worktree
<1>0. GitTypeOK /\ WorktreeInv /\ FreshInv
  BY DEF ProjectInv, TypeOK
<1>1. WorktreeInv'
  BY <1>0 DEF WorktreeInv, Rebasing, HeadId
<1>2. ProjectInv'
  <2>1. /\ heads' \in [LBranches -> Commit]
        /\ head' \in LBranches \cup {""} /\ detached' \in Commit /\ dirty' \in BOOLEAN
        /\ rebasing' \in [branch : LBranches \cup {""}, orig : Commit] /\ merging' \in Commit
    BY <1>0 DEF GitTypeOK
  <2>2. PostUpdate \/ Failed \/ (last' = "synced" /\ UNCHANGED track)
    OBVIOUS
  <2> QED
    BY <1>1, <2>1, <2>2, EndInv
<1>3. HeadsKept
  BY DEF HeadsKept
<1>4. last = "planned" /\ last' = "synced" /\ ~sync.blind => sync.revid \subseteq HeadId'
  BY <1>0 DEF FreshInv, HeadId, Failed
<1> QED
  BY <1>2, <1>3, <1>4 DEF RunPromise

(* git checkout <revid> *)
LEMMA CheckoutInv ==
    ASSUME ProjectInv, CheckoutRevision, sync' = Idle, UNCHANGED <<remotes, published, world>>
    PROVE  ProjectInv' /\ RunPromise
<1> USE DEF CheckoutRevision
<1>0. TypeOK /\ GitTypeOK /\ WorktreeInv /\ PlanInv
  BY DEF ProjectInv, TypeOK
<1>1. /\ sync.revid # {} /\ (Rebasing => head # "") /\ sync.revid \in Commit
      /\ heads' \in [LBranches -> Commit]
  BY <1>0 DEF PlanInv, TypeOK, GitTypeOK
<1>2. HeadsKept
  BY DEF HeadsKept
<1>3. CASE MoveHead("", sync.revid) /\ PostUpdate
  <2>1. /\ head' = "" /\ detached' = sync.revid
        /\ head' \in LBranches \cup {""} /\ detached' \in Commit
        /\ dirty' \in BOOLEAN /\ (dirty => dirty') /\ merging' \in Commit
        /\ UNCHANGED rebasing /\ rebasing' \in [branch : LBranches \cup {""}, orig : Commit]
    BY <1>0, <1>1, <1>3, MoveHeadFacts
  <2>2. HeadId' = sync.revid
    BY <2>1 DEF HeadId
  <2>3. WorktreeInv'
    BY <1>0, <1>1, <2>1, <2>2 DEF WorktreeInv, Rebasing
  <2>4. ProjectInv'
    BY <1>1, <1>3, <2>1, <2>3, EndInv
  <2> QED
    BY <1>1, <1>2, <2>1, <2>2, <2>4 DEF RunPromise
<1>4. CASE Failed /\ UNCHANGED worktree
  <2> USE DEF worktree
  <2>1. WorktreeInv'
    BY <1>0, <1>4 DEF WorktreeInv, Rebasing, HeadId
  <2>2. /\ head' \in LBranches \cup {""} /\ detached' \in Commit /\ dirty' \in BOOLEAN
        /\ rebasing' \in [branch : LBranches \cup {""}, orig : Commit] /\ merging' \in Commit
    BY <1>0, <1>4 DEF GitTypeOK
  <2>3. ProjectInv'
    BY <1>1, <1>4, <2>1, <2>2, EndInv
  <2> QED
    BY <1>2, <1>4, <2>3 DEF RunPromise, Failed
<1> QED
  BY <1>3, <1>4

(* git rebase <revid>, to the end, stopped or refused *)
LEMMA RebaseInv ==
    ASSUME ProjectInv, Rebase, sync' = Idle, UNCHANGED <<remotes, published, world>>
    PROVE  ProjectInv' /\ RunPromise
<1>0. TypeOK /\ GitTypeOK /\ WorktreeInv /\ PlanInv
  BY DEF ProjectInv, TypeOK
<1>1. /\ sync.revid # {} /\ sync.revid \in Commit /\ {} \in Commit
      /\ head # "" /\ head \in LBranches /\ heads[head] \in Commit /\ heads[head] # {}
  BY <1>0 DEF PlanInv, TypeOK, GitTypeOK, WorktreeInv, Rebase, Commit
<1>2. /\ dirty' \in BOOLEAN /\ merging' \in Commit /\ UNCHANGED <<dirty, merging>>
      /\ PostUpdate \/ Failed
  BY <1>0 DEF GitTypeOK, Rebase
<1> DEFINE c == IF sync.revid \subseteq heads[head] THEN heads[head]
                ELSE RebaseOf(heads[head], sync.revid)
<1>3. CASE /\ ~Rebasing /\ heads' = [heads EXCEPT ![head] = c]
           /\ UNCHANGED <<head, detached, rebasing>>
  <2>1. /\ c \in Commit /\ c # {} /\ sync.revid \subseteq c
        /\ LocalIds \cap IdsOf(heads[head]) \subseteq IdsOf(c)
    BY <1>1, RebaseFacts, RebaseKept
  <2> HIDE DEF c
  <2>2. HeadsKept
    BY <1>0, <1>1, <1>3, <2>1, OneBranchKept DEF GitTypeOK
  <2>3. heads' \in [LBranches -> Commit] /\ heads'[head] = c
    BY <1>0, <1>1, <1>3, <2>1 DEF GitTypeOK
  <2>4. WorktreeInv'
    BY <1>0, <1>1, <1>3, <2>1, <2>3 DEF WorktreeInv, Rebasing
  <2>5. /\ head' \in LBranches \cup {""} /\ detached' \in Commit
        /\ rebasing' \in [branch : LBranches \cup {""}, orig : Commit]
    BY <1>0, <1>3 DEF GitTypeOK
  <2>6. ProjectInv'
    BY <1>2, <2>3, <2>4, <2>5, EndInv
  <2>7. sync.revid \subseteq HeadId'
    BY <1>1, <1>3, <2>1, <2>3 DEF HeadId
  <2> QED
    BY <1>2, <1>3, <2>2, <2>6, <2>7 DEF RunPromise
<1>4. CASE /\ ~Rebasing /\ rebasing' = [branch |-> head, orig |-> heads[head]]
           /\ head' = "" /\ detached' = sync.revid /\ Failed /\ UNCHANGED heads
  <2>1. WorktreeInv'
    BY <1>0, <1>1, <1>4 DEF WorktreeInv, HeadId
  <2>2. /\ heads' \in [LBranches -> Commit] /\ head' \in LBranches \cup {""}
        /\ detached' \in Commit /\ rebasing' \in [branch : LBranches \cup {""}, orig : Commit]
    BY <1>0, <1>1, <1>4 DEF GitTypeOK
  <2>3. ProjectInv'
    BY <1>2, <1>4, <2>1, <2>2, EndInv
  <2> QED
    BY <1>2, <1>4, <2>3 DEF RunPromise, HeadsKept, Failed
<1>5. CASE Failed /\ UNCHANGED <<heads, head, detached, rebasing>>
  <2>1. WorktreeInv'
    BY <1>0, <1>5 DEF WorktreeInv, Rebasing, HeadId
  <2>2. /\ heads' \in [LBranches -> Commit] /\ head' \in LBranches \cup {""}
        /\ detached' \in Commit /\ rebasing' \in [branch : LBranches \cup {""}, orig : Commit]
    BY <1>0, <1>5 DEF GitTypeOK
  <2>3. ProjectInv'
    BY <1>2, <1>5, <2>1, <2>2, EndInv
  <2> QED
    BY <1>1, <1>2, <1>5, <2>3 DEF RunPromise, HeadsKept, Failed
<1> QED
  BY <1>3, <1>4, <1>5 DEF Rebase

(* git merge <revid>, to the end, stopped or refused *)
LEMMA FastForwardInv ==
    ASSUME ProjectInv, FastForward, sync' = Idle, UNCHANGED <<remotes, published, world>>
    PROVE  ProjectInv' /\ RunPromise
<1>0. TypeOK /\ GitTypeOK /\ WorktreeInv /\ PlanInv
  BY DEF ProjectInv, TypeOK
<1>1. /\ sync.revid # {} /\ sync.revid \in Commit
      /\ head # "" /\ head \in LBranches /\ heads[head] \in Commit /\ heads[head] # {}
  BY <1>0 DEF PlanInv, TypeOK, GitTypeOK, WorktreeInv, FastForward
<1>2. /\ UNCHANGED <<head, detached, rebasing>>
      /\ head' \in LBranches \cup {""} /\ detached' \in Commit
      /\ rebasing' \in [branch : LBranches \cup {""}, orig : Commit]
      /\ PostUpdate \/ Failed
  BY <1>0 DEF GitTypeOK, FastForward
<1> DEFINE c == MergeOf(sync.revid, heads[head])
<1>3. CASE heads' = [heads EXCEPT ![head] = c] /\ UNCHANGED <<dirty, merging>>
  <2>1. c \in Commit /\ heads[head] \subseteq c /\ sync.revid \subseteq c
    BY <1>1, MergeFacts
  <2> HIDE DEF c
  <2>2. (heads[head] # {} => c # {}) /\ LocalIds \cap IdsOf(heads[head]) \subseteq IdsOf(c)
    BY <2>1, SupersetKept
  <2>3. HeadsKept
    BY <1>0, <1>1, <1>3, <2>2, OneBranchKept DEF GitTypeOK
  <2>4. heads' \in [LBranches -> Commit] /\ heads'[head] = c
    BY <1>0, <1>1, <1>3, <2>1 DEF GitTypeOK
  <2>5. HeadId' = c
    BY <1>1, <1>2, <2>4 DEF HeadId
  <2>6. WorktreeInv'
    BY <1>0, <1>1, <1>2, <2>2, <2>4, <2>5 DEF WorktreeInv, Rebasing
  <2>7. dirty' \in BOOLEAN /\ merging' \in Commit
    BY <1>0, <1>3 DEF GitTypeOK
  <2>8. ProjectInv'
    BY <1>2, <2>4, <2>6, <2>7, EndInv
  <2> QED
    BY <1>1, <1>2, <1>3, <2>1, <2>3, <2>5, <2>8 DEF RunPromise
<1>4. ASSUME UNCHANGED heads, merging' \in Commit, dirty' \in BOOLEAN, Failed, dirty => dirty'
      PROVE  ProjectInv' /\ RunPromise
  <2>1. WorktreeInv'
    BY <1>0, <1>2, <1>4 DEF WorktreeInv, Rebasing, HeadId
  <2>2. heads' \in [LBranches -> Commit]
    BY <1>0, <1>4 DEF GitTypeOK
  <2>3. ProjectInv'
    BY <1>2, <1>4, <2>1, <2>2, EndInv
  <2> QED
    BY <1>1, <1>2, <1>4, <2>3 DEF RunPromise, HeadsKept, Failed
<1>5. CASE merging' = sync.revid /\ dirty' = TRUE /\ Failed /\ UNCHANGED heads
  <2>1. dirty' \in BOOLEAN /\ (dirty => dirty')
    BY <1>5, Zenon
  <2> QED
    BY <1>1, <1>4, <1>5, <2>1
<1>6. CASE Failed /\ UNCHANGED <<heads, dirty, merging>>
  <2>1. merging' \in Commit /\ dirty' \in BOOLEAN /\ (dirty => dirty')
    BY <1>0, <1>6 DEF GitTypeOK
  <2> QED
    BY <1>4, <1>6, <2>1
<1> QED
  BY <1>3, <1>5, <1>6 DEF FastForward

(* git reset --hard <revid>: the branch that is current loses its commits and *)
(* the worktree what is not committed.                                        *)
LEMMA HardResetInv ==
    ASSUME ProjectInv, HardReset, sync' = Idle, UNCHANGED <<remotes, published, world>>
    PROVE  /\ ProjectInv' /\ UNCHANGED <<head, rebasing>>
           /\ heads' = [heads EXCEPT ![head] = sync.revid]
<1> USE DEF HardReset
<1>0. TypeOK /\ GitTypeOK /\ WorktreeInv /\ PlanInv
  BY DEF ProjectInv, TypeOK
<1>1. sync.revid # {} /\ sync.revid \in Commit /\ head \in LBranches /\ head # ""
  BY <1>0 DEF PlanInv, TypeOK, GitTypeOK
<1>2. heads' \in [LBranches -> Commit] /\ heads'[head] = sync.revid
  BY <1>0, <1>1 DEF GitTypeOK
<1>3. WorktreeInv'
  BY <1>0, <1>1, <1>2 DEF WorktreeInv, Rebasing, HeadId
<1>4. dirty' \in BOOLEAN /\ merging' \in Commit
  <2>1. dirty' \in BOOLEAN
    BY Zenon
  <2> QED
    BY <2>1 DEF Commit
<1>5. /\ head' \in LBranches \cup {""} /\ detached' \in Commit
      /\ rebasing' \in [branch : LBranches \cup {""}, orig : Commit]
  BY <1>0 DEF GitTypeOK
<1> QED
  BY <1>2, <1>3, <1>4, <1>5, EndInv

(* The command runs, on a repository that may not be the one it was chosen for. *)
LEMMA SyncRunInv ==
    ASSUME ProjectInv, SyncRun
    PROVE  ProjectInv' /\ NoReset' /\ (RunPromise \/ HardReset)
<1>1. sync' = Idle /\ UNCHANGED <<remotes, published, world>>
  BY DEF SyncRun
<1>2. NoReset'
  BY <1>1 DEF NoReset, Idle
<1> QED
  BY <1>1, <1>2, NoCommandInv, CheckoutInv, HardResetInv, RebaseInv, FastForwardInv DEF SyncRun

(* Without a reset, nothing is lost. *)
LEMMA SafeRun ==
    ASSUME ProjectInv, NoReset, SyncRun
    PROVE  ProjectInv' /\ NoReset' /\ RunPromise
BY SyncRunInv DEF NoReset, HardReset

-----------------------------------------------------------------------------
(* git repo start *)

(* A branch is checked out, made at a commit of its own, or refused; a rebase *)
(* that is stopped is left as it is.                                          *)
LEMMA StartBranchInv ==
    ASSUME ProjectInv, NEW b \in LBranches, StartBranch(b)
    PROVE  ProjectInv' /\ HeadsKept /\ (dirty => dirty') /\ UNCHANGED rebasing /\ last' = "other"
<1> USE DEF StartBranch
<1>0. GitTypeOK /\ WorktreeInv /\ b # "" /\ {} \in Commit
  BY GitAssumption DEF ProjectInv, TypeOK, Commit
<1>1. last' = "other" /\ UNCHANGED <<remotes, published, sync, world>>
  OBVIOUS
<1>2. CASE UNCHANGED <<heads, track, worktree>>
  <2>1. GitTypeOK'
    BY <1>0, <1>1, <1>2 DEF GitTypeOK, worktree, world
  <2>2. UNCHANGED <<dirty, rebasing>>
    BY <1>2 DEF worktree
  <2> QED
    BY <1>1, <1>2, <2>1, <2>2, ElsewhereInv DEF HeadsKept
<1>3. ASSUME NEW c \in Commit, c # {}, heads[b] \in {c, {}}, CheckoutTo(b, c),
             track' \in [LBranches -> RBranches \cup {""}]
      PROVE  ProjectInv' /\ HeadsKept /\ (dirty => dirty') /\ UNCHANGED rebasing
  <2>1. heads' = [heads EXCEPT ![b] = c] /\ MoveHead(b, {})
    BY <1>3 DEF CheckoutTo
  <2>2. (dirty => dirty') /\ UNCHANGED rebasing
    BY <1>0, <2>1, MoveHeadFacts
  <2>3. LocalIds \cap IdsOf(heads[b]) \subseteq IdsOf(c)
    BY <1>3, SupersetKept
  <2>4. HeadsKept
    BY <1>0, <1>3, <2>1, <2>3, OneBranchKept DEF GitTypeOK
  <2>5. ProjectInv'
    BY <1>1, <1>3, <2>1, BranchOutInv
  <2> QED
    BY <2>2, <2>4, <2>5
<1>4. CASE heads[b] # {} /\ CheckoutTo(b, heads[b]) /\ UNCHANGED track
  BY <1>0, <1>1, <1>3, <1>4 DEF GitTypeOK
<1>5. CASE /\ heads[b] = {} /\ CheckoutTo(b, StartCommit)
           /\ track' = [track EXCEPT ![b] = DefaultTrackingBranch]
  <2>1. StartCommit \in Commit /\ StartCommit # {}
    BY <1>0, <1>5 DEF StartCommit, ResolveRemoteTracking, CheckoutTo, HeadId, GitTypeOK
  <2>2. DefaultTrackingBranch \in RBranches \cup {""}
    BY <1>0, GitAssumption DEF DefaultTrackingBranch, GitTypeOK
  <2>3. track' \in [LBranches -> RBranches \cup {""}]
    BY <1>0, <1>5, <2>2 DEF GitTypeOK
  <2> QED
    BY <1>1, <1>3, <1>5, <2>1, <2>3
<1> QED
  BY <1>1, <1>2, <1>4, <1>5 DEF CheckoutRefused

-----------------------------------------------------------------------------
(* The theorems. *)

(* A fetch that brings nothing. *)
LEMMA FetchNothingInv ==
    ASSUME ProjectInv, NEW o, FetchNothing(o)
    PROVE  ProjectInv'
<1>1. GitTypeOK' /\ UNCHANGED <<heads, worktree, sync>> /\ last' = "other"
  BY DEF ProjectInv, TypeOK, GitTypeOK, FetchNothing, gitVars, worktree
<1> QED
  BY <1>1, ElsewhereInv

(* What no step but the user's does to a project. *)
Untouched ==
    /\ HeadsKept
    /\ dirty => dirty'
    /\ Rebasing => UNCHANGED rebasing

(* A step that leaves branches and worktree alone. *)
LEMMA StillUntouched ==
    ASSUME UNCHANGED <<heads, dirty, rebasing>>
    PROVE  Untouched
BY DEF Untouched, HeadsKept

(* Every step keeps the invariant and, but for the user's, the work on the branches and *)
(* in the worktree.                                                                     *)
LEMMA NextInv ==
    ASSUME ProjectInv, NoReset, Next
    PROVE  ProjectInv' /\ NoReset' /\ (last' # "user" => Untouched)
<1>1. ASSUME NEW o \in FetchOptions, SyncNetworkHalf(o)
      PROVE  ProjectInv' /\ NoReset' /\ Untouched
  <2>1. UNCHANGED <<heads, dirty, rebasing, sync>>
    BY <1>1 DEF SyncNetworkHalf, FetchRefs, FetchNothing, gitVars, worktree
  <2>2. ProjectInv'
    BY <1>1, FetchInv, FetchNothingInv DEF SyncNetworkHalf
  <2> QED
    BY <2>1, <2>2, StillUntouched DEF NoReset
<1>2. ASSUME NEW o \in LocalHalfOptions, NEW bad \in Failing, SyncRead(o, bad)
      PROVE  ProjectInv' /\ NoReset' /\ Untouched
  <2>1. UNCHANGED <<heads, dirty, rebasing>>
    BY <1>2 DEF SyncRead, worktree
  <2>2. ProjectInv' /\ NoReset'
    BY <1>2, SyncReadInv DEF LocalHalfOptions
  <2> QED
    BY <2>1, <2>2, StillUntouched
<1>3. CASE SyncRun
  BY <1>3, SafeRun DEF RunPromise, Untouched
<1>4. ASSUME NEW b \in LBranches, StartBranch(b)
      PROVE  ProjectInv' /\ NoReset' /\ Untouched
  <2>1. NoReset'
    BY <1>4 DEF StartBranch, NoReset
  <2> QED
    BY <1>4, <2>1, StartBranchInv DEF Untouched
<1>5. CASE User
  BY <1>5, UserInv DEF User, NoReset
<1>6. CASE Server
  <2>1. ProjectInv' /\ UNCHANGED <<heads, dirty, rebasing, sync>>
    BY <1>6, ServerInv DEF Server, worktree
  <2> QED
    BY <2>1, StillUntouched DEF NoReset
<1> QED
  BY <1>1, <1>2, <1>3, <1>4, <1>5, <1>6 DEF Next

(* The invariant holds in every reachable state. *)
THEOREM Invariant == Spec => [](ProjectInv /\ NoReset)
<1>1. ProjectInv /\ NoReset /\ [Next]_vars => ProjectInv' /\ NoReset'
  <2>1. ASSUME ProjectInv, NoReset, UNCHANGED vars
        PROVE  ProjectInv' /\ NoReset'
    BY <2>1 DEF vars, gitVars, ProjectInv, TypeOK, GitTypeOK, WorktreeInv, PlanInv, FreshInv,
                HeadId, Rebasing, ResolveRemoteTracking, NoReset
  <2> QED
    BY <2>1, NextInv
<1>2. Init => NoReset
  BY IdleNoReset DEF Init
<1> QED
  BY <1>1, <1>2, InitInv, PTL DEF Spec

(* Type correctness: HEAD, what a branch tracks and what a sync has read are *)
(* branches, commits are sets of changes, whatever is fetched, rebased,      *)
(* merged or accepted.                                                       *)
THEOREM TypeCorrect == Spec => []TypeOK
BY Invariant, PTL DEF ProjectInv

(* A change committed on a branch stays on a branch through every sync,     *)
(* start, rebase and merge of project/local-half.go and project/branch.go,  *)
(* stopped by a conflict or not, and whichever rev-list fails.              *)
THEOREM WorkKept == Spec => BranchWorkKept
<1>1. ASSUME ProjectInv, NoReset, [Next]_vars
      PROVE  [last' # "user" => BranchWork \subseteq BranchWork']_vars
  <2>1. CASE Next
    <3>1. HeadsKept => BranchWork \subseteq BranchWork'
      BY DEF HeadsKept, BranchWork
    <3> QED
      BY <1>1, <2>1, <3>1, NextInv DEF Untouched
  <2>2. CASE UNCHANGED vars
    BY <2>2
  <2> QED
    BY <1>1, <2>1, <2>2
<1> QED
  BY <1>1, Invariant, PTL DEF Spec, BranchWorkKept

(* Uncommitted changes go only by what the user does: neither the checkout  *)
(* nor the rebase nor the merge that SyncLocalHalf chose when the worktree  *)
(* was clean drops what was edited since.                                   *)
THEOREM EditsKept == Spec => UncommittedKept
<1> DEFINE Kept == dirty /\ ~dirty' => last' = "user"
<1>1. ASSUME ProjectInv, NoReset, [Next]_vars
      PROVE  [Kept]_vars
  <2>1. CASE Next
    <3>1. last' # "user" => (dirty => dirty')
      BY <1>1, <2>1, NextInv DEF Untouched
    <3> QED
      BY <3>1, Zenon
  <2>2. CASE UNCHANGED vars
    BY <2>2
  <2> QED
    BY <1>1, <2>1, <2>2
<1> QED
  BY <1>1, Invariant, PTL DEF Spec, UncommittedKept

(* A rebase stopped by a conflict is the user's to finish: no sync or start ends    *)
(* it or begins another over it, even after a checkout in the middle of it, and     *)
(* while HEAD is where it stopped a sync touches neither HEAD nor a branch.         *)
THEOREM RebaseLeftAlone == Spec => StoppedRebaseKept
<1> DEFINE Kept == Rebasing /\ last' # "user" =>
                      /\ rebasing' = rebasing
                      /\ head = "" /\ last' \in {"synced", "syncFailed"}
                            => UNCHANGED <<heads, worktree>>
<1>1. ASSUME ProjectInv, NoReset, [Next]_vars
      PROVE  [Kept]_vars
  <2>1. CASE SyncRun
    BY <1>1, <2>1, SafeRun DEF RunPromise
  <2>2. CASE Next /\ ~SyncRun
    <3>1. last' \in {"other", "planned", "user"}
      BY <2>2 DEF Next, SyncNetworkHalf, FetchRefs, FetchNothing, SyncRead, StartBranch, User, Server
    <3>2. Rebasing /\ last' # "user" => rebasing' = rebasing
      BY <1>1, <2>2, NextInv DEF Untouched
    <3> QED
      BY <3>1, <3>2
  <2> QED
    BY <1>1, <2>1, <2>2
<1> QED
  BY <1>1, Invariant, PTL DEF Spec, StoppedRebaseKept

(* A sync that nobody disturbed, whose look for new commits worked and that reports *)
(* success left HEAD at or on top of the revision it resolved.                      *)
THEOREM SyncReaches == Spec => SyncReachesRevision
<1> DEFINE Reaches == last = "planned" /\ last' = "synced" /\ ~sync.blind
                         => sync.revid \subseteq HeadId'
<1>1. ASSUME ProjectInv, NoReset, [Next]_vars
      PROVE  [Reaches]_vars
  <2>1. CASE SyncRun
    BY <1>1, <2>1, SafeRun DEF RunPromise
  <2>2. CASE Next /\ ~SyncRun
    <3>1. last' \in {"other", "planned", "user"}
      BY <2>2 DEF Next, SyncNetworkHalf, FetchRefs, FetchNothing, SyncRead, StartBranch, User, Server
    <3> QED
      BY <3>1
  <2> QED
    BY <1>1, <2>1, <2>2
<1> QED
  BY <1>1, Invariant, PTL DEF Spec, SyncReachesRevision

-----------------------------------------------------------------------------
(* upload, prune and abandon *)

UpType == [pc : {"idle", "confirm", "push", "resolve", "mark", "scan", "clean"},
           branch : LBranches \cup {""}, track : RBranches \cup {""},
           single : BOOLEAN, moved : BOOLEAN, base : Commit, obsolete : SUBSET LBranches]
PrType == [pc : {"idle", "detach", "choose", "force", "delete", "report", "scan", "clean"},
           branches : SUBSET LBranches, current : LBranches \cup {""}, force : BOOLEAN,
           drop : SUBSET LBranches, loose : SUBSET LBranches, failed : BOOLEAN,
           clean : BOOLEAN, obsolete : SUBSET LBranches]

(* Of the branch that is on its way, the server has what it should. *)
UpHeld ==
    /\ up.pc \in {"confirm", "push", "resolve", "mark"} => up.branch \in LBranches
    /\ up.pc = "resolve" /\ ~up.moved =>
          heads[up.branch] = {} \/ heads[up.branch] \in pushed[up.branch]
    /\ up.pc = "mark" /\ ~up.moved => up.base \in pushed[up.branch]
PrHeld ==
    /\ pr.pc = "detach" => pr.current \in LBranches
    /\ pr.pc = "force" => pr.drop \subseteq pr.loose

(* The parts of the invariant. *)
LEMMA TopicParts ==
    TopicInv <=> /\ ProjectInv /\ UpHeld /\ PrHeld /\ PublishedInv
                 /\ up \in UpType /\ pr \in PrType
                 /\ pushed \in [LBranches -> SUBSET Commit] /\ raced \subseteq LBranches
<1>1. HeldInv <=> UpHeld /\ PrHeld
  BY DEF HeldInv, UpHeld, PrHeld
<1> QED
  BY <1>1 DEF TopicInv, TTypeOK, UpType, PrType, ProjectInv

(* The same of the next state. *)
LEMMA TopicPartsNext ==
    ASSUME ProjectInv', UpHeld', PrHeld', PublishedInv', up' \in UpType, pr' \in PrType,
           pushed' \in [LBranches -> SUBSET Commit], raced' \subseteq LBranches
    PROVE  TopicInv'
<1>1. HeldInv'
  BY DEF HeldInv, UpHeld, PrHeld
<1> QED
  BY <1>1 DEF TopicInv, TTypeOK, UpType, PrType, ProjectInv

(* What the commands of TopicBranches leave alone. *)
LEMMA UploadOnlyInv ==
    ASSUME ProjectInv, last' = "other", UNCHANGED <<gitVars, sync>>
    PROVE  ProjectInv'
<1>1. GitTypeOK' /\ UNCHANGED <<heads, worktree, sync>>
  BY DEF ProjectInv, TypeOK, GitTypeOK, gitVars, worktree
<1> QED
  BY <1>1, ElsewhereInv

(* The records upload keeps are of their type. *)
LEMMA UpTypes ==
    /\ UpIdle \in UpType /\ UpIdle.pc = "idle"
    /\ UploadEnd \in UpType /\ UploadEnd.pc \in {"idle", "scan"}
    /\ \A S \in SUBSET LBranches :
          /\ [UpIdle EXCEPT !.pc = "clean", !.obsolete = S] \in UpType
          /\ [UpIdle EXCEPT !.pc = "clean", !.obsolete = S].pc = "clean"
<1>1. {} \in Commit /\ FALSE \in BOOLEAN
  BY DEF Commit
<1> QED
  BY <1>1 DEF UpIdle, UploadEnd, UpType

(* And those of prune. *)
LEMMA PrTypes ==
    /\ PrIdle \in PrType /\ PrIdle.pc = "idle"
    /\ [PrIdle EXCEPT !.pc = "scan"] \in PrType
    /\ \A S \in SUBSET LBranches : [PrIdle EXCEPT !.pc = "clean", !.obsolete = S] \in PrType
<1>1. FALSE \in BOOLEAN
  BY Zenon
<1> QED
  BY <1>1 DEF PrIdle, PrType

(* A command starts with no upload, no prune and nothing pushed. *)
LEMMA TInitInv == TInit => TopicInv
<1> SUFFICES ASSUME TInit
             PROVE  TopicInv
  OBVIOUS
<1> USE DEF TInit
<1>1. ProjectInv
  BY InitInv
<1>2. up \in UpType /\ pr \in PrType /\ up.pc = "idle" /\ pr.pc = "idle"
  BY UpTypes, PrTypes
<1>3. PublishedInv
  BY DEF Init, GitInit, PublishedInv
<1> QED
  BY <1>1, <1>2, <1>3, TopicParts DEF UpHeld, PrHeld

-----------------------------------------------------------------------------
(* upload *)

(* A step of upload that touches nothing but its own record. *)
LEMMA UploadStepInv ==
    ASSUME TopicInv, last' = "other", UNCHANGED <<gitVars, sync, pr, pushed, raced>>,
           up' \in UpType, UpHeld'
    PROVE  TopicInv' /\ UNCHANGED heads
<1>1. ProjectInv'
  BY TopicParts, UploadOnlyInv
<1>2. PublishedInv' /\ PrHeld'
  BY TopicParts DEF PublishedInv, PrHeld, gitVars
<1> QED
  BY <1>1, <1>2, TopicParts, TopicPartsNext DEF gitVars

(* Where nothing is pushed yet, or all is done, upload only needs its branch. *)
LEMMA UploadMovesInv ==
    ASSUME TopicInv, last' = "other", UNCHANGED <<gitVars, sync, pr, pushed, raced>>,
           up' \in UpType, up'.pc \in {"idle", "confirm", "push", "scan", "clean"},
           up'.pc \in {"confirm", "push"} => up'.branch \in LBranches
    PROVE  TopicInv' /\ UNCHANGED heads
<1>1. UpHeld'
  BY DEF UpHeld
<1> QED
  BY <1>1, UploadStepInv

(* A branch is chosen, whether the manifest has a say in it or not. *)
LEMMA UploadReadInv ==
    ASSUME TopicInv, NEW b \in LBranches, NEW r \in RBranches \cup {""}, NEW s \in BOOLEAN,
           up' = [UpIdle EXCEPT !.pc = "confirm", !.branch = b, !.track = r, !.single = s],
           last' = "other", UNCHANGED <<gitVars, sync, pr, pushed, raced>>
    PROVE  TopicInv' /\ UNCHANGED heads
<1>1. {} \in Commit /\ FALSE \in BOOLEAN
  BY DEF Commit
<1>2. up' \in UpType /\ up'.pc = "confirm" /\ up'.branch = b
  BY <1>1 DEF UpIdle, UpType
<1> QED
  BY <1>2, UploadMovesInv

(* The user answers, or the upload is interrupted. *)
LEMMA UploadAnswerInv ==
    ASSUME TopicInv, UploadEdit \/ UploadConfirm \/ UploadInterrupt
    PROVE  TopicInv' /\ UNCHANGED heads
<1>1. last' = "other" /\ UNCHANGED <<gitVars, sync, pr, pushed, raced>>
  BY DEF UploadEdit, UploadConfirm, UploadInterrupt
<1>2. CASE up' = UpIdle
  BY <1>1, <1>2, UpTypes, UploadMovesInv
<1>3. CASE up.pc = "confirm" /\ up' = [up EXCEPT !.pc = "push"]
  <2>1. up' \in UpType /\ up'.pc = "push" /\ up'.branch = up.branch
    BY <1>3, TopicParts DEF UpType
  <2>2. up'.branch \in LBranches
    BY <1>3, <2>1, TopicParts DEF UpHeld
  <2> QED
    BY <1>1, <2>1, <2>2, UploadMovesInv
<1> QED
  BY <1>2, <1>3 DEF UploadEdit, UploadConfirm, UploadInterrupt

(* The push, of the branch as it is. *)
LEMMA UploadPushInv ==
    ASSUME TopicInv, NEW dest, UploadPush(dest)
    PROVE  TopicInv' /\ UNCHANGED heads
<1> USE DEF UploadPush
<1>1. last' = "other" /\ UNCHANGED <<gitVars, sync, pr, raced>>
  OBVIOUS
<1>2. CASE up' \in {UpIdle, UploadEnd} /\ UNCHANGED pushed
  BY <1>1, <1>2, UpTypes, UploadMovesInv
<1>3. CASE /\ up.pc = "push"
           /\ pushed' = [pushed EXCEPT ![up.branch] = @ \cup {heads[up.branch]}]
           /\ up' = [up EXCEPT !.pc = "resolve"]
  <2>1. up.branch \in LBranches /\ heads[up.branch] \in Commit
    BY <1>3, TopicParts DEF UpHeld, ProjectInv, TypeOK, GitTypeOK
  <2>2. pushed' \in [LBranches -> SUBSET Commit] /\ heads[up.branch] \in pushed'[up.branch]
        /\ \A b \in LBranches : pushed[b] \subseteq pushed'[b]
    BY <1>3, <2>1, TopicParts
  <2>3. up' \in UpType /\ up'.branch = up.branch /\ up'.pc = "resolve"
    BY <1>3, TopicParts DEF UpType
  <2>4. ProjectInv'
    BY <1>1, TopicParts, UploadOnlyInv
  <2>5. UpHeld' /\ PrHeld' /\ UNCHANGED heads
    BY <1>1, <2>1, <2>2, <2>3, TopicParts DEF UpHeld, PrHeld, gitVars
  <2>6. PublishedInv'
    BY <1>1, <2>2, TopicParts DEF PublishedInv, gitVars
  <2>7. pr' \in PrType /\ raced' \subseteq LBranches
    BY <1>1, TopicParts
  <2> QED
    BY <2>2, <2>3, <2>4, <2>5, <2>6, <2>7, TopicPartsNext
<1> QED
  BY <1>2, <1>3

(* The branch is looked at once more, and may be gone or have moved. *)
LEMMA UploadResolveInv ==
    ASSUME TopicInv, UploadResolve
    PROVE  TopicInv' /\ UNCHANGED heads
<1> USE DEF UploadResolve
<1>1. last' = "other" /\ UNCHANGED <<gitVars, sync, pr, pushed, raced>>
  OBVIOUS
<1>2. CASE up' = UploadEnd
  BY <1>1, <1>2, UpTypes, UploadMovesInv
<1>3. CASE heads[up.branch] # {} /\ up' = [up EXCEPT !.pc = "mark", !.base = heads[up.branch]]
  <2>1. up.branch \in LBranches /\ heads[up.branch] \in Commit
    BY <1>3, TopicParts DEF UpHeld, ProjectInv, TypeOK, GitTypeOK
  <2>2. /\ up' \in UpType /\ up'.pc = "mark" /\ up'.branch = up.branch
        /\ up'.base = heads[up.branch] /\ up'.moved = up.moved
    BY <1>3, <2>1, TopicParts DEF UpType
  <2>3. UpHeld'
    BY <1>1, <1>3, <2>1, <2>2, TopicParts DEF UpHeld
  <2> QED
    BY <1>1, <2>2, <2>3, UploadStepInv
<1> QED
  BY <1>2, <1>3

(* The mark names what was pushed, or the race is on record. *)
LEMMA UploadMarkInv ==
    ASSUME TopicInv, UploadMark
    PROVE  TopicInv' /\ UNCHANGED heads
<1> USE DEF UploadMark
<1>0. /\ UpHeld /\ PrHeld /\ ProjectInv /\ GitTypeOK /\ PublishedInv
      /\ pushed \in [LBranches -> SUBSET Commit] /\ raced \subseteq LBranches
  BY TopicParts DEF ProjectInv, TypeOK
<1> DEFINE b0 == up.branch
<1>1. b0 \in LBranches /\ up.base \in Commit /\ raced' \subseteq LBranches
  BY <1>0, TopicParts DEF UpHeld, UpType
<1>2. /\ published' \in [LBranches -> Commit] /\ published'[b0] = up.base
      /\ \A b \in LBranches \ {b0} : published'[b] = published[b]
  BY <1>0, <1>1 DEF GitTypeOK
<1>3. GitTypeOK'
  BY <1>0, <1>2 DEF GitTypeOK, worktree, world
<1>4. ProjectInv'
  BY <1>0, <1>3, ElsewhereInv
<1>5. /\ up' \in UpType /\ up'.pc \in {"idle", "scan"} /\ UNCHANGED <<pr, pushed>>
  BY UpTypes
<1>6. UpHeld' /\ PrHeld'
  BY <1>0, <1>5 DEF UpHeld, PrHeld
<1>7. PublishedInv'
  <2> SUFFICES ASSUME NEW b \in LBranches, b \notin raced', published'[b] # {}
               PROVE  published'[b] \in pushed[b]
    BY <1>5 DEF PublishedInv
  <2>1. CASE b # b0
    BY <1>0, <1>2, <2>1 DEF PublishedInv
  <2>2. CASE b = b0
    BY <1>0, <1>2, <2>2 DEF UpHeld
  <2> QED
    BY <2>1, <2>2
<1> QED
  BY <1>0, <1>1, <1>4, <1>5, <1>6, <1>7, TopicParts, TopicPartsNext

(* CleanPublishedCache looks for references without a branch. *)
LEMMA UploadScanInv ==
    ASSUME TopicInv, UploadScan
    PROVE  TopicInv' /\ UNCHANGED heads
<1>1. Obsolete \in SUBSET LBranches
  BY DEF Obsolete
<1>2. /\ last' = "other" /\ UNCHANGED <<gitVars, sync, pr, pushed, raced>>
      /\ up' = [UpIdle EXCEPT !.pc = "clean", !.obsolete = Obsolete]
  BY DEF UploadScan
<1>3. up' \in UpType /\ up'.pc = "clean"
  BY <1>1, <1>2, UpTypes
<1> QED
  BY <1>2, <1>3, UploadMovesInv

(* Published references are dropped, by upload or by prune, also of a branch that was *)
(* made again since.                                                                  *)
LEMMA CleanInv ==
    ASSUME TopicInv, NEW obsolete, published' = Without(obsolete), last' = "other",
           UNCHANGED <<remotes, heads, track, worktree, world, sync, pushed, raced>>,
           up' \in UpType, pr' \in PrType, UpHeld', PrHeld'
    PROVE  TopicInv'
<1>0. ProjectInv /\ GitTypeOK /\ PublishedInv /\ {} \in Commit
  BY TopicParts DEF ProjectInv, TypeOK, Commit
<1>1. published' \in [LBranches -> Commit]
      /\ \A b \in LBranches : published'[b] \in {published[b], {}}
  BY <1>0 DEF GitTypeOK, Without
<1>2. GitTypeOK'
  BY <1>0, <1>1 DEF GitTypeOK, worktree, world
<1>3. ProjectInv'
  BY <1>0, <1>2, ElsewhereInv
<1>4. PublishedInv'
  BY <1>0, <1>1 DEF PublishedInv
<1> QED
  BY <1>3, <1>4, TopicParts, TopicPartsNext

LEMMA UploadCleanInv ==
    ASSUME TopicInv, UploadClean
    PROVE  TopicInv' /\ UNCHANGED heads
<1> USE DEF UploadClean
<1>1. up' \in UpType /\ UpHeld'
  BY UpTypes DEF UpHeld
<1>2. pr' \in PrType /\ PrHeld'
  BY TopicParts DEF PrHeld
<1> QED
  BY <1>1, <1>2, CleanInv

-----------------------------------------------------------------------------
(* prune and abandon *)

(* A step of prune that touches nothing but its own record. *)
LEMMA PruneStepInv ==
    ASSUME TopicInv, last' = "other", UNCHANGED <<gitVars, sync, up, pushed, raced>>,
           pr' \in PrType, PrHeld'
    PROVE  TopicInv' /\ UNCHANGED heads
<1>1. ProjectInv'
  BY TopicParts, UploadOnlyInv
<1>2. PublishedInv' /\ UpHeld'
  BY TopicParts DEF PublishedInv, UpHeld, gitVars
<1> QED
  BY <1>1, <1>2, TopicParts, TopicPartsNext DEF gitVars

(* The repository is read: the current branch goes on the list only by name. *)
LEMMA PruneReadInv ==
    ASSUME TopicInv, NEW S \in SUBSET LBranches, NEW force \in BOOLEAN, PruneRead(S, force)
    PROVE  TopicInv' /\ UNCHANGED heads
<1> DEFINE list == {b \in S \ {head} : heads[b] # {}}
           current == head \in S /\ heads[head] # {} /\ ShouldPruneCurrent(force)
           next(p, c) == [PrIdle EXCEPT !.pc = p, !.branches = list, !.current = c, !.force = force]
<1>1. last' = "other" /\ UNCHANGED <<gitVars, sync, up, pushed, raced>>
  BY Zenon DEF PruneRead
<1>2. \/ head \in LBranches /\ pr' = next("detach", head)
      \/ pr' = next("choose", "")
  <2>1. pr' = next(IF current THEN "detach" ELSE "choose", IF current THEN head ELSE "")
    BY Zenon DEF PruneRead
  <2>2. current => head \in LBranches
    OBVIOUS
  <2> HIDE DEF current
  <2> QED
    BY <2>1, <2>2, Zenon
<1>3. list \in SUBSET LBranches /\ FALSE \in BOOLEAN
  OBVIOUS
<1> HIDE DEF list
<1>4. \A p \in {"detach", "choose"}, c \in LBranches \cup {""} :
         next(p, c) \in PrType /\ next(p, c).pc = p /\ next(p, c).current = c
  BY <1>3 DEF PrIdle, PrType
<1> HIDE DEF next
<1>5. pr' \in PrType /\ pr'.pc # "force" /\ (pr'.pc = "detach" => pr'.current \in LBranches)
  <2>1. CASE head \in LBranches /\ pr' = next("detach", head)
    <3>1. head \in LBranches \cup {""}
      BY <2>1
    <3>2. /\ next("detach", head) \in PrType /\ next("detach", head).current = head
          /\ next("detach", head).pc = "detach"
      BY <1>4, <3>1, Zenon
    <3> QED
      BY <2>1, <3>2, Zenon
  <2>2. CASE pr' = next("choose", "")
    <3>1. next("choose", "") \in PrType /\ next("choose", "").pc = "choose"
      BY <1>4, Zenon
    <3> QED
      BY <2>2, <3>1, Zenon
  <2> QED
    BY <1>2, <2>1, <2>2
<1>6. PrHeld'
  BY <1>5 DEF PrHeld
<1> QED
  BY <1>1, <1>5, <1>6, PruneStepInv

(* Prune goes on with a list of branches. *)
LEMMA ChooseType ==
    ASSUME pr \in PrType, NEW B \in SUBSET LBranches
    PROVE  /\ [pr EXCEPT !.pc = "choose"] \in PrType
           /\ [pr EXCEPT !.pc = "choose"].pc = "choose"
           /\ [pr EXCEPT !.pc = "choose", !.branches = B] \in PrType
           /\ [pr EXCEPT !.pc = "choose", !.branches = B].pc = "choose"
BY DEF PrType

(* And with those that git branch -D gets. *)
LEMMA ForceType ==
    ASSUME pr \in PrType, NEW D \in SUBSET LBranches, NEW L \in SUBSET LBranches,
           pr' = [pr EXCEPT !.pc = "force", !.drop = D, !.loose = L]
    PROVE  pr' \in PrType /\ pr'.pc = "force" /\ pr'.drop = D /\ pr'.loose = L
BY DEF PrType

(* HEAD is detached where it was, when no sync is about to run a command. *)
LEMMA PruneDetachInv ==
    ASSUME TopicInv, PruneDetach
    PROVE  TopicInv' /\ UNCHANGED heads
<1> USE DEF PruneDetach, localVars, world
<1>0. /\ ProjectInv /\ GitTypeOK /\ WorktreeInv /\ PublishedInv /\ UpHeld /\ PrHeld
      /\ pr \in PrType
  BY TopicParts DEF ProjectInv, TypeOK
<1>1. pr.current \in LBranches
  BY <1>0 DEF PrHeld
<1>2. pr' \in PrType /\ pr'.pc = "choose"
  <2> DEFINE B == pr.branches \cup {pr.current}
  <2>1. B \in SUBSET LBranches
    BY <1>0, <1>1 DEF PrType
  <2>2. pr' = [pr EXCEPT !.pc = "choose", !.branches = B] \/ pr' = [pr EXCEPT !.pc = "choose"]
    BY Zenon
  <2> HIDE DEF B
  <2>3. CASE pr' = [pr EXCEPT !.pc = "choose", !.branches = B]
    BY <1>0, <2>1, <2>3, ChooseType
  <2>4. CASE pr' = [pr EXCEPT !.pc = "choose"]
    BY <1>0, <2>4, ChooseType
  <2> QED
    BY <2>2, <2>3, <2>4
<1>3. CASE UNCHANGED worktree
  <2>1. last' = "other" /\ UNCHANGED <<gitVars, sync, up, pushed, raced>>
    BY <1>3 DEF gitVars, worktree
  <2> QED
    BY <1>2, <2>1, PruneStepInv DEF PrHeld
<1>4. CASE MoveHead("", HeadId)
  <2>1. HeadId \in Commit
    BY <1>0 DEF GitTypeOK, HeadId
  <2>2. /\ head' = "" /\ detached' = HeadId
        /\ head' \in LBranches \cup {""} /\ detached' \in Commit
        /\ dirty' \in BOOLEAN /\ merging' \in Commit
        /\ UNCHANGED rebasing /\ rebasing' \in [branch : LBranches \cup {""}, orig : Commit]
    BY <1>0, <1>4, <2>1, MoveHeadFacts
  <2>3. GitTypeOK'
    BY <1>0, <2>2 DEF GitTypeOK
  <2>4. TypeOK'
    BY <1>0, <2>3 DEF ProjectInv, TypeOK, Outcomes
  <2>5. HeadId' = HeadId
    BY <2>2 DEF HeadId
  <2>6. WorktreeInv'
    BY <1>0, <2>2, <2>5 DEF WorktreeInv, Rebasing
  <2>7. PlanInv' /\ FreshInv'
    BY DEF PlanInv, FreshInv, Idle
  <2>8. ProjectInv'
    BY <2>4, <2>6, <2>7 DEF ProjectInv
  <2>9. UpHeld' /\ PrHeld' /\ PublishedInv'
    BY <1>0, <1>2 DEF UpHeld, PrHeld, PublishedInv
  <2> QED
    BY <1>2, <2>8, <2>9, TopicParts, TopicPartsNext
<1> QED
  BY <1>3, <1>4

(* What prune looks at, and what it does at the end or when it is interrupted. *)
LEMMA PruneMovesInv ==
    ASSUME TopicInv, PruneChoose \/ PruneReport \/ PruneScan \/ PruneInterrupt
    PROVE  TopicInv' /\ UNCHANGED heads
<1>1. last' = "other" /\ UNCHANGED <<gitVars, sync, up, pushed, raced>>
  BY DEF PruneChoose, PruneReport, PruneScan, PruneInterrupt
<1>2. pr' \in PrType /\ pr'.pc # "detach" /\ (pr'.pc = "force" => pr'.drop \subseteq pr'.loose)
  <2>1. CASE PruneChoose
    <3> DEFINE D == {b \in pr.branches : pr.force \/ Untracked(b)}
               L == {b \in pr.branches : pr.force \/ track[b] = ""}
    <3>1. pr \in PrType /\ D \in SUBSET LBranches /\ L \in SUBSET LBranches /\ D \subseteq L
      BY TopicParts DEF PrType, Untracked
    <3>2. pr' = PrIdle \/ pr' = [pr EXCEPT !.pc = "force", !.drop = D, !.loose = L]
      BY <2>1, Zenon DEF PruneChoose
    <3> HIDE DEF D, L
    <3>3. CASE pr' = PrIdle
      BY <3>3, PrTypes DEF PrIdle
    <3>4. CASE pr' = [pr EXCEPT !.pc = "force", !.drop = D, !.loose = L]
      BY <3>1, <3>4, ForceType
    <3> QED
      BY <3>2, <3>3, <3>4
  <2>2. CASE PruneReport
    <3>1. pr' \in {PrIdle, [PrIdle EXCEPT !.pc = "scan"]}
      BY <2>2 DEF PruneReport
    <3> QED
      BY <3>1, PrTypes DEF PrIdle
  <2>3. CASE PruneScan
    <3>1. Obsolete \in SUBSET LBranches
      BY DEF Obsolete
    <3>2. pr' = [PrIdle EXCEPT !.pc = "clean", !.obsolete = Obsolete]
      BY <2>3 DEF PruneScan
    <3> QED
      BY <3>1, <3>2, PrTypes DEF PrIdle
  <2>4. CASE PruneInterrupt
    BY <2>4, PrTypes DEF PruneInterrupt
  <2> QED
    BY <2>1, <2>2, <2>3, <2>4
<1>3. PrHeld'
  BY <1>2 DEF PrHeld
<1> QED
  BY <1>1, <1>2, <1>3, PruneStepInv

(* git branch: the branch that is checked out or being rebased stays. *)
LEMMA GitBranchInv ==
    ASSUME TopicInv, NEW S, NEW D \in SUBSET LBranches, \A b \in D : Deletable(b),
           NEW p \in {"delete", "report"}, GitBranch(S, D, p)
    PROVE  /\ TopicInv' /\ UNCHANGED <<remotes, sync>> /\ HeadId' = HeadId
           /\ \A b \in LBranches \ D : heads'[b] = heads[b]
<1> USE DEF GitBranch, worktree, world
<1>0. /\ ProjectInv /\ TypeOK /\ GitTypeOK /\ WorktreeInv /\ PlanInv /\ UpHeld
      /\ PublishedInv /\ {} \in Commit /\ pr \in PrType /\ up \in UpType
  BY TopicParts DEF ProjectInv, TypeOK, Commit
<1>1. /\ heads' \in [LBranches -> Commit]
      /\ \A b \in LBranches : heads'[b] = (IF b \in D THEN {} ELSE heads[b])
      /\ track' \in [LBranches -> RBranches \cup {""}]
  BY <1>0 DEF GitTypeOK
<1>2. head # "" => head \in LBranches /\ heads'[head] = heads[head]
  BY <1>0, <1>1 DEF Deletable, GitTypeOK
<1>3. HeadId' = HeadId
  BY <1>2 DEF HeadId
<1>4. ProjectInv'
  <2>1. GitTypeOK'
    BY <1>0, <1>1 DEF GitTypeOK
  <2>2. TypeOK'
    BY <1>0, <2>1 DEF TypeOK, Outcomes
  <2>3. WorktreeInv'
    BY <1>0, <1>2, <1>3 DEF WorktreeInv, Rebasing
  <2>4. PlanInv' /\ FreshInv'
    BY <1>0 DEF PlanInv, FreshInv, Rebasing
  <2> QED
    BY <2>2, <2>3, <2>4 DEF ProjectInv
<1>5. pr' \in PrType /\ pr'.pc = p
  <2> DEFINE f == pr.failed \/ D # S
             c == pr.clean \/ (S # {} /\ D = S)
  <2>1. f \in BOOLEAN /\ c \in BOOLEAN
    BY Zenon
  <2>2. pr' = [pr EXCEPT !.pc = p, !.failed = f, !.clean = c]
    BY Zenon
  <2> HIDE DEF f, c
  <2> QED
    BY <1>0, <2>1, <2>2 DEF PrType
<1>6. PrHeld' /\ PublishedInv'
  BY <1>0, <1>5 DEF PrHeld, PublishedInv
<1>7. UpHeld'
  BY <1>0, <1>1 DEF UpHeld
<1> QED
  BY <1>0, <1>1, <1>3, <1>4, <1>5, <1>6, <1>7, TopicParts, TopicPartsNext

LEMMA PruneCleanInv ==
    ASSUME TopicInv, PruneClean
    PROVE  TopicInv' /\ UNCHANGED heads
<1> USE DEF PruneClean
<1>1. pr' \in PrType /\ PrHeld'
  BY PrTypes DEF PrHeld
<1>2. up' \in UpType /\ UpHeld'
  BY TopicParts DEF UpHeld
<1> QED
  BY <1>1, <1>2, CleanInv

-----------------------------------------------------------------------------
(* sync, start, the user and the server *)

(* None of them but the user takes a commit off a branch, and none writes a *)
(* published reference.                                                     *)
LEMMA OthersKept ==
    ASSUME TopicInv, NoReset, Others
    PROVE  /\ ProjectInv' /\ NoReset' /\ (last' # "user" => HeadsKept)
           /\ \A b \in LBranches : published'[b] \in {published[b], {}}
<1>0. ProjectInv /\ \A b \in LBranches : pushed[b] \subseteq Commit
  BY TopicParts
<1>1. CASE \E p \in BOOLEAN : FetchRefs([PlainFetch EXCEPT !.prune = p])
  <2>1. ProjectInv'
    BY <1>0, <1>1, FetchInv
  <2> QED
    BY <1>1, <2>1 DEF FetchRefs, HeadsKept, NoReset
<1>2. ASSUME NEW bad \in Failing, SyncRead(PlainSync(TRUE), bad)
      PROVE  /\ ProjectInv' /\ NoReset' /\ HeadsKept
             /\ \A b \in LBranches : published'[b] \in {published[b], {}}
  <2>1. PlainSync(TRUE) \in CheckoutOptions /\ ~PlainSync(TRUE).isManifest
    BY DEF PlainSync, CheckoutOptions
  <2>2. ProjectInv' /\ NoReset'
    BY <1>0, <1>2, <2>1, SyncReadInv
  <2>3. UNCHANGED heads /\ published' \in {published, CleanPublishedCache(heads)}
    BY <1>2 DEF SyncRead
  <2> QED
    BY <2>2, <2>3 DEF HeadsKept, CleanPublishedCache
<1>3. CASE SyncRun
  BY <1>0, <1>3, SafeRun DEF RunPromise, SyncRun
<1>4. CASE \E b \in LBranches : StartBranch(b)
  BY <1>0, <1>4, StartBranchInv DEF StartBranch, NoReset
<1>5. CASE User
  <2>1. UNCHANGED published
    BY <1>5 DEF User, Edit, UserCommit, UserCheckout, UserBranch, UserContinueRebase,
                UserAbortRebase, UserAbortMerge, localVars
  <2> QED
    BY <1>0, <1>5, <2>1, UserInv DEF User, NoReset
<1>6. CASE ReviewServer
  <2>1. ProjectInv'
    BY <1>0, <1>6, ServerCommitInv, ServerDeleteInv, ServerAcceptInv DEF ReviewServer
  <2> QED
    BY <1>6, <2>1 DEF ReviewServer, ServerCommit, ServerDeleteBranch, ServerAccept,
                      localVars, HeadsKept, NoReset
<1> QED
  BY <1>1, <1>2, <1>3, <1>4, <1>5, <1>6 DEF Others

(* A branch that moves between its push and the look at it is seen to move. *)
LEMMA OthersInv ==
    ASSUME TopicInv, NoReset, Others
    PROVE  TopicInv'
<1>0. UpHeld /\ PrHeld /\ PublishedInv /\ up \in UpType
  BY TopicParts
<1>1. ProjectInv' /\ \A b \in LBranches : published'[b] \in {published[b], {}}
  BY OthersKept
<1>2. UNCHANGED <<pr, pushed, raced>>
  BY DEF Others
<1> DEFINE m == up.moved \/ (up.pc = "resolve" /\ heads'[up.branch] # heads[up.branch])
<1>3. up' = [up EXCEPT !.moved = m] /\ m \in BOOLEAN
  BY Zenon DEF Others
<1>4. /\ ~m => ~up.moved
      /\ ~m => up.pc # "resolve" \/ heads'[up.branch] = heads[up.branch]
  BY Zenon
<1> HIDE DEF m
<1>5. /\ up' \in UpType /\ up'.pc = up.pc /\ up'.branch = up.branch /\ up'.base = up.base
      /\ up'.moved = m
  BY <1>0, <1>3 DEF UpType
<1>6. UpHeld'
  BY <1>0, <1>2, <1>4, <1>5 DEF UpHeld
<1>7. PrHeld' /\ PublishedInv'
  BY <1>0, <1>1, <1>2 DEF PrHeld, PublishedInv
<1> QED
  BY <1>1, <1>2, <1>5, <1>6, <1>7, TopicParts, TopicPartsNext

-----------------------------------------------------------------------------
(* The theorems. *)

(* What git branch deletes. *)
Dropped == {b \in pr.drop : Deletable(b)}
Safe == {b \in pr.branches \ pr.drop : Deletable(b) /\ Merged(b)}

(* Only the two calls of git branch take a branch away, and only the user else a *)
(* commit of one.                                                                *)
LEMMA TNextInv ==
    ASSUME TopicInv, NoReset, TNext
    PROVE  /\ TopicInv' /\ NoReset'
           /\ \/ last' = "user"
              \/ HeadsKept
              \/ /\ pr.pc = "force"
                 /\ \A b \in LBranches \ Dropped : heads'[b] = heads[b]
              \/ /\ HeadId' = HeadId /\ UNCHANGED remotes
                 /\ \A b \in LBranches \ Safe : heads'[b] = heads[b]
<1>0. /\ \A b \in LBranches : track[b] \in RBranches \cup {""}
      /\ pr \in PrType
  BY TopicParts DEF ProjectInv, TypeOK, GitTypeOK
<1>14. UNCHANGED <<heads, sync>> => HeadsKept /\ NoReset'
  BY DEF HeadsKept, NoReset
<1>1. ASSUME NEW b \in LBranches, UploadSkip(b)
      PROVE  TopicInv' /\ UNCHANGED <<heads, sync>>
  <2>1. UpHeld'
    BY <1>1, TopicParts DEF UploadSkip, UpHeld, gitVars
  <2>2. up' \in UpType
    BY <1>1, TopicParts DEF UploadSkip
  <2> QED
    BY <1>1, <2>1, <2>2, UploadStepInv DEF UploadSkip
<1>2. ASSUME NEW b \in LBranches, NEW rerun \in BOOLEAN, UploadRead(b, rerun)
      PROVE  TopicInv' /\ UNCHANGED <<heads, sync>>
  <2>1. /\ up' = [UpIdle EXCEPT !.pc = "confirm", !.branch = b, !.track = track[b]]
        /\ last' = "other" /\ UNCHANGED <<gitVars, sync, pr, pushed, raced>>
    BY <1>2 DEF UploadRead
  <2>2. {} \in Commit /\ FALSE \in BOOLEAN
    BY DEF Commit
  <2>3. up' \in UpType /\ up'.pc = "confirm" /\ up'.branch = b
    BY <1>0, <2>1, <2>2 DEF UpIdle, UpType
  <2> QED
    BY <2>1, <2>3, UploadMovesInv
<1>3. ASSUME NEW b \in LBranches, NEW dest \in RBranches \cup {""}, NEW rerun \in BOOLEAN,
             UploadReadSingle(b, dest, rerun)
      PROVE  TopicInv' /\ UNCHANGED <<heads, sync>>
  <2> DEFINE to == IF dest = "" THEN track[b] ELSE dest
  <2>1. /\ up' = [UpIdle EXCEPT !.pc = "confirm", !.branch = b, !.track = to, !.single = TRUE]
        /\ last' = "other" /\ UNCHANGED <<gitVars, sync, pr, pushed, raced>>
    BY <1>3 DEF UploadReadSingle
  <2>2. to \in RBranches \cup {""}
    BY <1>0
  <2>3. TRUE \in BOOLEAN
    BY Zenon
  <2> HIDE DEF to
  <2> QED
    BY <2>1, <2>2, <2>3, UploadReadInv, Zenon
<1>4. CASE UploadEdit \/ UploadConfirm \/ UploadInterrupt
  <2>1. UNCHANGED sync
    BY <1>4 DEF UploadEdit, UploadConfirm, UploadInterrupt
  <2> QED
    BY <1>4, <1>14, <2>1, UploadAnswerInv
<1>5. ASSUME NEW dest \in RBranches \cup {""}, UploadPush(dest)
      PROVE  TopicInv' /\ UNCHANGED <<heads, sync>>
  <2>1. UNCHANGED sync
    BY <1>5 DEF UploadPush
  <2> QED
    BY <1>5, <2>1, UploadPushInv
<1>6. CASE UploadResolve \/ UploadMark \/ UploadScan \/ UploadClean
  <2>1. UNCHANGED sync
    BY <1>6 DEF UploadResolve, UploadMark, UploadScan, UploadClean
  <2> QED
    BY <1>6, <1>14, <2>1, UploadResolveInv, UploadMarkInv, UploadScanInv, UploadCleanInv
<1>7. ASSUME NEW S \in {LBranches} \cup {{b} : b \in LBranches}, NEW force \in BOOLEAN,
             PruneRead(S, force)
      PROVE  TopicInv' /\ UNCHANGED <<heads, sync>>
  <2>1. S \in SUBSET LBranches
    OBVIOUS
  <2> QED
    BY <1>7, <2>1, PruneReadInv DEF PruneRead
<1>8. CASE PruneDetach
  <2>1. UNCHANGED sync
    BY <1>8 DEF PruneDetach
  <2> QED
    BY <1>8, <1>14, <2>1, PruneDetachInv
<1>9. CASE PruneChoose \/ PruneReport \/ PruneScan \/ PruneInterrupt
  <2>1. UNCHANGED sync
    BY <1>9 DEF PruneChoose, PruneReport, PruneScan, PruneInterrupt
  <2> QED
    BY <1>9, <1>14, <2>1, PruneMovesInv
<1>10. CASE PruneClean
  <2>1. UNCHANGED sync
    BY <1>10 DEF PruneClean
  <2> QED
    BY <1>10, <1>14, <2>1, PruneCleanInv
<1>11. CASE PruneForce
  <2>1. Dropped \in SUBSET LBranches /\ \A b \in Dropped : Deletable(b)
    BY <1>0 DEF Dropped, PrType
  <2>2. pr.pc = "force" /\ GitBranch(pr.drop, Dropped, "delete")
    BY <1>11 DEF PruneForce, Dropped
  <2> QED
    BY <2>1, <2>2, GitBranchInv DEF NoReset
<1>12. CASE PruneDelete
  <2>1. Safe \in SUBSET LBranches /\ \A b \in Safe : Deletable(b)
    BY <1>0 DEF Safe, PrType
  <2>2. GitBranch(pr.branches \ pr.drop, Safe, "report")
    BY <1>12 DEF PruneDelete, Safe
  <2> QED
    BY <2>1, <2>2, GitBranchInv DEF NoReset
<1>13. CASE Others
  BY <1>13, OthersInv, OthersKept
<1> QED
  BY <1>1, <1>2, <1>3, <1>4, <1>5, <1>6, <1>7, <1>8, <1>9, <1>10, <1>11, <1>12, <1>13, <1>14
     DEF TNext

(* The invariant holds in every reachable state. *)
THEOREM TInvariant == TSpec => [](TopicInv /\ NoReset)
<1>1. TopicInv /\ NoReset /\ [TNext]_tvars => TopicInv' /\ NoReset'
  <2>1. ASSUME TopicInv, NoReset, UNCHANGED tvars
        PROVE  TopicInv' /\ NoReset'
    <3>1. ProjectInv' /\ NoReset'
      BY <2>1 DEF tvars, vars, gitVars, TopicInv, ProjectInv, TypeOK, GitTypeOK, WorktreeInv,
                  PlanInv, FreshInv, HeadId, Rebasing, ResolveRemoteTracking, NoReset
    <3>2. UpHeld' /\ PrHeld' /\ PublishedInv'
      BY <2>1, TopicParts DEF tvars, vars, gitVars, UpHeld, PrHeld, PublishedInv
    <3>3. /\ up' \in UpType /\ pr' \in PrType
          /\ pushed' \in [LBranches -> SUBSET Commit] /\ raced' \subseteq LBranches
      BY <2>1, TopicParts DEF tvars
    <3> QED
      BY <3>1, <3>2, <3>3, TopicPartsNext
  <2> QED
    BY <2>1, TNextInv
<1>2. TInit => NoReset
  BY IdleNoReset DEF TInit, Init
<1> QED
  BY <1>1, <1>2, TInitInv, PTL DEF TSpec

(* What upload, prune and abandon hold, and what they leave of the          *)
(* repository, is of its type.                                              *)
THEOREM TopicTypeCorrect == TSpec => []TTypeOK
BY TInvariant, PTL DEF TopicInv

(* "no change in project since last upload" is said only of a commit that the *)
(* server got, unless the branch moved between the push and the look at it    *)
(* for the mark, whichever of upload and prune is interrupted and where.      *)
THEOREM SkipsOnlyUploaded == TSpec => []SkipOnlyUploaded
<1>1. TopicInv => SkipOnlyUploaded
  BY DEF TopicInv, PublishedInv, SkipOnlyUploaded, NoChange, HasCommits, HasCommitsFor
<1> QED
  BY <1>1, TInvariant, PTL

(* Between prune's look at the branches, its two calls of git branch and its *)
(* clean-up, with sync, start, upload, the user and the server in between, a *)
(* commit of the user leaves the branches only if the user drops it, if      *)
(* its branch was abandoned with --force or tracked nothing when prune       *)
(* looked, or if HEAD or a fetched branch holds it.                          *)
THEOREM TopicKeepsWork == TSpec => TopicWorkKept
<1> DEFINE Lost == BranchWork \ BranchWork'
           Kept == \A i \in Lost :
                      \/ last' = "user"
                      \/ i \in IdsOf(HeadId') \cup Fetched'
                      \/ pr.pc = "force" /\ \E b \in pr.loose : i \in IdsOf(heads[b])
<1>1. ASSUME TopicInv, NoReset, [TNext]_tvars
      PROVE  [Kept]_tvars
  <2> SUFFICES ASSUME TNext, NEW i \in Lost
               PROVE  \/ last' = "user"
                      \/ i \in IdsOf(HeadId') \cup Fetched'
                      \/ pr.pc = "force" /\ \E b \in pr.loose : i \in IdsOf(heads[b])
    BY <1>1
  <2>1. PICK b \in LBranches : i \in IdsOf(heads[b]) /\ i \notin IdsOf(heads'[b]) /\ i \in LocalIds
    BY DEF BranchWork
  <2>2. HeadsKept => FALSE
    BY <2>1 DEF HeadsKept
  <2>3. ASSUME pr.pc = "force", \A c \in LBranches \ Dropped : heads'[c] = heads[c]
        PROVE  b \in pr.loose
    BY <1>1, <2>1, <2>3, TopicParts DEF Dropped, PrHeld
  <2>4. ASSUME HeadId' = HeadId, UNCHANGED remotes,
               \A c \in LBranches \ Safe : heads'[c] = heads[c]
        PROVE  i \in IdsOf(HeadId') \cup Fetched'
    <3> DEFINE tb == ResolveRemoteTracking(track[b])
    <3>1. Revlist(heads[b], IF tb # {} THEN tb ELSE HeadId) = {}
      BY <2>1, <2>4 DEF Safe, Merged
    <3>2. CASE tb # {}
      <4>1. heads[b] \subseteq tb
        BY <3>1, <3>2 DEF Revlist
      <4>2. track[b] \in RBranches /\ tb = remotes[track[b]]
        BY <1>1, <2>1, <3>2, TopicParts DEF ResolveRemoteTracking, ProjectInv, TypeOK, GitTypeOK
      <4>3. i \in IdsOf(remotes[track[b]])
        BY <2>1, <4>1, <4>2, IdsGrow
      <4> QED
        BY <2>4, <4>2, <4>3 DEF Fetched, Refs
    <3>3. CASE tb = {}
      <4>1. heads[b] \subseteq HeadId
        BY <3>1, <3>3 DEF Revlist
      <4> QED
        BY <2>1, <2>4, <4>1, IdsGrow
    <3> QED
      BY <3>2, <3>3
  <2> QED
    BY <1>1, <2>1, <2>2, <2>3, <2>4, TNextInv
<1> QED
  BY <1>1, TInvariant, PTL DEF TSpec, TopicWorkKept

-----------------------------------------------------------------------------
(* The manifest project *)

RunTypeOK == [pc : Pcs, kind : {"none", "failed", "ok", "init", "sync"},
              detach : BOOLEAN, isNew : BOOLEAN, work : SUBSET LocalIds]

(* The records of a command that runs or has ended. *)
LEMMA RunTypes ==
    /\ Stopped \in RunTypeOK /\ Failure \in RunTypeOK /\ Success \in RunTypeOK
    /\ Stopped.pc = "idle" /\ Failure.pc = "idle" /\ Success.pc = "idle"
    /\ Failure # Success
<1>1. FALSE \in BOOLEAN
  BY Zenon
<1>2. Stopped \in RunTypeOK /\ Stopped.pc = "idle"
  BY <1>1 DEF Stopped, RunTypeOK, Pcs
<1>3. Failure \in RunTypeOK /\ Failure.pc = "idle" /\ Failure.kind = "failed"
  BY <1>2 DEF Failure, RunTypeOK
<1>4. Success \in RunTypeOK /\ Success.pc = "idle" /\ Success.kind = "ok"
  BY <1>2 DEF Success, RunTypeOK
<1> QED
  BY <1>2, <1>3, <1>4

(* A command goes on at another place. *)
LEMMA RunGoesOn ==
    ASSUME run \in RunTypeOK, NEW pc \in Pcs, run' = [run EXCEPT !.pc = pc]
    PROVE  /\ run' \in RunTypeOK
           /\ run'.pc = pc /\ run'.kind = run.kind /\ run'.detach = run.detach
BY DEF RunTypeOK

(* SyncLocalHalf begins. *)
LEMMA RunBegins ==
    ASSUME run \in RunTypeOK, NEW W \in SUBSET LocalIds,
           run' = [run EXCEPT !.pc = "run", !.work = W]
    PROVE  /\ run' \in RunTypeOK /\ run'.pc = "run" /\ run'.work = W
           /\ run'.kind = run.kind /\ run'.detach = run.detach
BY DEF RunTypeOK, Pcs

(* Nothing is there yet. *)
LEMMA MInitInv == MInit => ManifestInv
<1> SUFFICES ASSUME MInit
             PROVE  ManifestInv
  OBVIOUS
<1>1. ProjectInv
  <2>1. Base \in Commit /\ {} \in Commit
    BY InitTypes
  <2>2. dirty \in BOOLEAN
    BY Zenon DEF MInit, GitInit
  <2>3. GitTypeOK
    BY <2>1, <2>2, NoRebaseFacts, GitAssumption DEF MInit, GitInit, GitTypeOK
  <2>4. TypeOK
    BY <2>1, <2>3 DEF MInit, TypeOK, Commands, Outcomes, Idle
  <2> QED
    BY <2>4, NoRebaseFacts
       DEF MInit, GitInit, ProjectInv, WorktreeInv, PlanInv, FreshInv, Idle, Rebasing
<1>2. exists \in BOOLEAN
  BY Zenon DEF MInit
<1>3. MTypeOK
  BY <1>1, <1>2, RunTypes DEF MInit, MTypeOK, ProjectInv, RunTypeOK
<1>4. RunInv /\ TrackInv /\ WorkInv
  BY DEF MInit, GitInit, RunInv, TrackInv, WorkInv, Stopped
<1> QED
  BY <1>1, <1>3, <1>4 DEF ManifestInv

(* init and sync begin: the revision is a branch, a tag or "". *)
LEMMA BeginInv ==
    ASSUME ManifestInv, \/ \E b \in Refs \cup {""}, d \in BOOLEAN : InitBegin(b, d)
                        \/ SyncBegin
    PROVE  ManifestInv' /\ UNCHANGED heads
<1>0. MTypeOK /\ ProjectInv /\ TypeOK /\ GitTypeOK /\ run \in RunTypeOK /\ exists \in BOOLEAN
  BY DEF ManifestInv, MTypeOK, TypeOK, RunTypeOK
<1>1. /\ UNCHANGED <<upstream, made, localVars, worktree, sync, exists>> /\ last' = "other"
      /\ run.pc = "idle"
  BY DEF InitBegin, SyncBegin
<1>2. TrackBranch \in Refs \cup {""}
  BY <1>0 DEF TrackBranch, GitTypeOK, Refs
<1>3. revision' \in Refs \cup {""}
  BY <1>2, ManifestAssumption DEF InitBegin, SyncBegin, Refs
<1>4. run' \in RunTypeOK /\ run'.pc \in {"fetch", "idle"}
  <2>1. ASSUME NEW b \in Refs \cup {""}, NEW d \in BOOLEAN, InitBegin(b, d)
        PROVE  run' \in RunTypeOK /\ run'.pc = "fetch"
    <3>1. (~exists) \in BOOLEAN
      BY <1>0
    <3> DEFINE n == ~exists
               goal == [Stopped EXCEPT !.pc = "fetch", !.kind = "init", !.detach = d, !.isNew = n]
    <3>2. run' = goal
      BY <2>1, Zenon DEF InitBegin
    <3> HIDE DEF n
    <3>3. n \in BOOLEAN
      BY <3>1 DEF n
    <3>4. goal \in RunTypeOK /\ goal.pc = "fetch"
      BY <3>3, RunTypes DEF RunTypeOK, Pcs
    <3> QED
      BY <3>2, <3>4, Zenon
  <2>2. CASE SyncBegin
    <3>1. run' = Success \/ run' = [Stopped EXCEPT !.pc = "fetch", !.kind = "sync"]
      BY <2>2, Zenon DEF SyncBegin
    <3>2. [Stopped EXCEPT !.pc = "fetch", !.kind = "sync"] \in RunTypeOK
          /\ [Stopped EXCEPT !.pc = "fetch", !.kind = "sync"].pc = "fetch"
      BY RunTypes DEF RunTypeOK, Pcs
    <3> QED
      BY <3>1, <3>2, RunTypes
  <2> QED
    BY <2>1, <2>2
<1>5. GitTypeOK'
  BY <1>0, <1>1, <1>3 DEF GitTypeOK, localVars, worktree
<1>6. ProjectInv'
  BY <1>0, <1>1, <1>5, ElsewhereInv DEF localVars
<1>7. MTypeOK'
  BY <1>0, <1>1, <1>4, <1>6 DEF MTypeOK, ProjectInv, RunTypeOK
<1>8. RunInv' /\ TrackInv' /\ WorkInv'
  BY <1>1, <1>4 DEF RunInv, TrackInv, WorkInv
<1> QED
  BY <1>1, <1>6, <1>7, <1>8 DEF ManifestInv, localVars

(* The fetch, and what comes of one that fails. *)
LEMMA ManifestFetchInv ==
    ASSUME ManifestInv, ManifestFetch \/ ManifestFetchFails
    PROVE  ManifestInv' /\ UNCHANGED heads
<1>0. /\ MTypeOK /\ ProjectInv /\ TypeOK /\ GitTypeOK /\ run \in RunTypeOK
      /\ exists \in BOOLEAN /\ {} \in Commit
  BY InitTypes DEF ManifestInv, MTypeOK, TypeOK, RunTypeOK
<1>1. /\ UNCHANGED <<heads, published, track, worktree, world, sync, exists>> /\ last' = "other"
  BY DEF ManifestFetch, ManifestFetchFails, FetchRefs
<1>2. ProjectInv'
  <2>1. CASE ManifestFetch
    BY <1>0, <2>1, FetchInv DEF ManifestFetch
  <2>2. CASE ManifestFetchFails
    <3>1. remotes' \in [Refs -> Commit]
      BY <1>0, <2>2 DEF ManifestFetchFails, GitTypeOK
    <3>2. GitTypeOK'
      BY <1>0, <1>1, <3>1 DEF GitTypeOK, worktree, world
    <3> QED
      BY <1>0, <1>1, <3>2, ElsewhereInv
  <2> QED
    BY <2>1, <2>2
<1>3. run' \in RunTypeOK /\ run'.pc \in {"checkout", "idle"}
  <2>1. CASE run' = Failure
    BY <2>1, RunTypes
  <2>2. CASE run' = [run EXCEPT !.pc = "checkout"]
    <3>1. "checkout" \in Pcs
      BY DEF Pcs
    <3> QED
      BY <1>0, <2>2, <3>1, RunGoesOn
  <2> QED
    BY <2>1, <2>2 DEF ManifestFetch, ManifestFetchFails
<1>4. MTypeOK'
  BY <1>0, <1>1, <1>2, <1>3 DEF MTypeOK, ProjectInv, RunTypeOK
<1>5. RunInv' /\ TrackInv' /\ WorkInv'
  BY <1>1, <1>3 DEF RunInv, TrackInv, WorkInv
<1> QED
  BY <1>1, <1>2, <1>4, <1>5 DEF ManifestInv

(* Nothing is decided only without a revision. *)
LEMMA SkipFacts ==
    ASSUME ProjectInv, NEW o \in CheckoutOptions, NEW bad, Decide(o, bad) = "skip"
    PROVE  revision = ""
<1>1. SwitchCommand(CurrentTrack, bad) \in {"error", "reset"}
  BY DEF SwitchCommand
<1> QED
  BY <1>1 DEF Decide

(* The plan is made, of the branch HEAD is on and the revision of the command; a *)
(* reset that is not blind leaves the fetched branches with what it drops.       *)
LEMMA PlanMade ==
    ASSUME ManifestInv, NEW o \in CheckoutOptions, NEW bad, Checkout(o, bad), exists' \in BOOLEAN
    PROVE  ManifestInv' /\ UNCHANGED heads
<1> DEFINE W == BranchWork \ Fetched
<1>0. /\ ProjectInv /\ TypeOK /\ GitTypeOK /\ WorktreeInv /\ run \in RunTypeOK
      /\ W \in SUBSET LocalIds
  BY DEF ManifestInv, MTypeOK, ProjectInv, TypeOK, RunTypeOK, BranchWork
<1>1. ProjectInv' /\ SyncRead(o, bad)
  BY <1>0, SyncReadInv DEF Checkout
<1>2. run' \in RunTypeOK /\ run'.pc = "run" /\ run'.work = W
  BY <1>0, RunBegins DEF Checkout
<1>3. /\ sync'.cmd = Decide(o, bad) /\ sync'.branch = CurrentBranch
      /\ sync'.defaultTrack = DefaultTrackingBranch /\ sync'.blind = Blind(o, bad)
      /\ UNCHANGED <<heads, track, head, revision>>
  BY <1>1 DEF SyncRead, worktree, world
<1>4. CurrentBranch = head
  BY <1>0 DEF CurrentBranch, WorktreeInv
<1>5. revision \in RBranches => DefaultTrackingBranch = revision
  BY DEF DefaultTrackingBranch
<1>6. RunInv'
  <2>1. Decide(o, bad) = "skip" => revision = ""
    BY <1>0, SkipFacts
  <2> QED
    BY <1>2, <1>3, <2>1 DEF RunInv
<1>7. TrackInv'
  BY <1>2, <1>3, <1>4, <1>5 DEF TrackInv
<1>8. WorkInv'
  <2> SUFFICES ASSUME Decide(o, bad) = "reset", ~Blind(o, bad), NEW i \in W
               PROVE  \E b \in LBranches \ {head} : i \in IdsOf(heads[b])
    BY <1>2, <1>3 DEF WorkInv
  <2>1. PICK b \in LBranches : i \in IdsOf(heads[b]) /\ i \notin Fetched
    BY DEF BranchWork
  <2>2. CASE b = head
    <3>1. HeadId \subseteq ResolveRemoteTracking(track[head])
      BY <1>0, SeenFacts
    <3>2. head # "" /\ heads[head] # {} /\ HeadId = heads[head]
      BY <1>0, <2>1, <2>2, GitAssumption DEF HeadId, WorktreeInv
    <3>3. track[head] \in Refs /\ heads[head] \subseteq remotes[track[head]]
      BY <1>0, <2>1, <2>2, <3>1, <3>2 DEF ResolveRemoteTracking, GitTypeOK, Refs
    <3>4. i \in IdsOf(remotes[track[head]])
      BY <2>1, <2>2, <3>3, IdsGrow
    <3> QED
      BY <2>1, <3>3, <3>4 DEF Fetched
  <2> QED
    BY <2>1, <2>2
<1>9. MTypeOK'
  BY <1>1, <1>2 DEF MTypeOK, ProjectInv, RunTypeOK
<1> QED
  BY <1>1, <1>3, <1>6, <1>7, <1>8, <1>9 DEF ManifestInv

(* No plan. *)
LEMMA IdleType ==
    /\ Idle.cmd = "idle" /\ {} \in Commit
    /\ Idle \in [cmd : Commands \cup {"idle"}, revid : Commit,
                 branch : LBranches \cup {""}, defaultTrack : RBranches \cup {""},
                 blind : BOOLEAN]
<1>1. FALSE \in BOOLEAN
  BY Zenon
<1> QED
  BY <1>1 DEF Idle, Commit

(* Nothing but the command itself changes. *)
LEMMA CommandEnds ==
    ASSUME ManifestInv, run' \in {Success, Failure}, last' = "other",
           UNCHANGED <<gitVars, exists>>, sync' \in {sync, Idle}
    PROVE  ManifestInv' /\ UNCHANGED heads
<1>0. /\ ProjectInv /\ TypeOK /\ GitTypeOK /\ WorktreeInv /\ PlanInv /\ exists \in BOOLEAN
  BY DEF ManifestInv, MTypeOK, ProjectInv, TypeOK
<1>1. run' \in RunTypeOK /\ run'.pc = "idle"
  BY RunTypes
<1>2. ProjectInv'
  <2>1. GitTypeOK' /\ WorktreeInv'
    BY <1>0 DEF gitVars, GitTypeOK, WorktreeInv, Rebasing, HeadId
  <2>2. /\ Idle.cmd = "idle" /\ {} \in Commit
        /\ Idle \in [cmd : Commands \cup {"idle"}, revid : Commit,
                     branch : LBranches \cup {""}, defaultTrack : RBranches \cup {""},
                     blind : BOOLEAN]
    BY IdleType
  <2>3. TypeOK'
    BY <1>0, <2>1, <2>2 DEF TypeOK, Outcomes
  <2>4. PlanInv'
    BY <1>0, <2>2 DEF PlanInv, gitVars, Rebasing
  <2>5. FreshInv'
    BY DEF FreshInv
  <2> QED
    BY <2>1, <2>3, <2>4, <2>5 DEF ProjectInv
<1>3. MTypeOK'
  BY <1>0, <1>1, <1>2 DEF MTypeOK, ProjectInv, RunTypeOK
<1>4. RunInv' /\ TrackInv' /\ WorkInv'
  BY <1>1 DEF RunInv, TrackInv, WorkInv
<1> QED
  BY <1>2, <1>3, <1>4 DEF ManifestInv, gitVars

(* SyncLocalHalf up to its command, no new commits, or a rev-list that fails. *)
LEMMA ManifestCheckoutInv ==
    ASSUME ManifestInv, NEW bad \in Failing, InitCheckout(bad) \/ SyncCheckout(bad)
    PROVE  ManifestInv' /\ UNCHANGED heads
<1>0. run.detach \in BOOLEAN /\ exists \in BOOLEAN
  BY DEF ManifestInv, MTypeOK
<1>1. CASE InitCheckout(bad)
  <2> DEFINE o == [detach |-> run.detach, isManifest |-> TRUE, checkPublished |-> FALSE,
                   rebase |-> TRUE]
  <2>1. o \in CheckoutOptions
    BY <1>0 DEF CheckoutOptions
  <2>2. exists' \in BOOLEAN
    BY <1>1, Zenon DEF InitCheckout
  <2>3. Checkout(o, bad)
    BY <1>1 DEF InitCheckout
  <2> HIDE DEF o
  <2> QED
    BY <2>1, <2>2, <2>3, PlanMade
<1>2. CASE Checkout(PlainSync(TRUE), bad) /\ UNCHANGED exists
  <2>1. PlainSync(TRUE) \in CheckoutOptions
    BY DEF PlainSync, CheckoutOptions
  <2> QED
    BY <1>0, <1>2, <2>1, PlanMade
<1>3. CASE run' \in {Success, Failure} /\ last' = "other" /\ UNCHANGED <<gitVars, sync, exists>>
  BY <1>3, CommandEnds
<1> QED
  BY <1>1, <1>2, <1>3 DEF SyncCheckout

(* The command of the plan: an init that goes on has HEAD on a branch that    *)
(* tracks the revision, or on none.                                           *)
LEMMA RunCommandInv ==
    ASSUME ManifestInv, RunCommand
    PROVE  ManifestInv'
<1>0. /\ ProjectInv /\ TypeOK /\ GitTypeOK /\ run \in RunTypeOK /\ exists \in BOOLEAN
      /\ "start" \in Pcs /\ RunInv /\ TrackInv
  BY DEF ManifestInv, MTypeOK, ProjectInv, TypeOK, RunTypeOK, Pcs
<1>1. ProjectInv'
  BY <1>0, SyncRunInv DEF RunCommand
<1>2. run.pc = "run" /\ SyncRun /\ UNCHANGED <<exists, revision>>
  BY DEF RunCommand, SyncRun, world
<1>3. last' \in {"synced", "syncFailed"}
  BY <1>2 DEF SyncRun, NoCommand, CheckoutRevision, HardReset, Rebase, FastForward,
              PostUpdate, Failed
<1>4. CASE run' \in {Failure, Success}
  <2>1. run' \in RunTypeOK /\ run'.pc = "idle"
    BY <1>4, RunTypes
  <2>2. MTypeOK' /\ RunInv' /\ TrackInv' /\ WorkInv'
    BY <1>0, <1>1, <1>2, <1>3, <2>1 DEF MTypeOK, ProjectInv, RunTypeOK, RunInv, TrackInv, WorkInv
  <2> QED
    BY <1>1, <2>2 DEF ManifestInv
<1>5. CASE run.kind = "init" /\ run' = [run EXCEPT !.pc = "start"] /\ last' # "syncFailed"
  <2>1. /\ run' \in RunTypeOK /\ run'.pc = "start" /\ run'.kind = "init"
        /\ run'.detach = run.detach
    BY <1>0, <1>5, RunGoesOn
  <2>2. MTypeOK' /\ RunInv' /\ WorkInv'
    BY <1>0, <1>1, <1>2, <1>3, <2>1 DEF MTypeOK, ProjectInv, RunTypeOK, RunInv, WorkInv
  <2>3. ASSUME ~run.detach, revision \in RBranches, head' # ""
        PROVE  track'[head'] = revision
    <3>1. UNCHANGED head /\ PostUpdate
      BY <1>0, <1>2, <1>5, <2>3, GitAssumption
         DEF SyncRun, NoCommand, CheckoutRevision, MoveHead, HardReset, Rebase, FastForward,
             Failed, RunInv, worktree
    <3>2. sync.branch = head /\ sync.defaultTrack = revision
      BY <1>0, <1>2, <1>5, <2>3, <3>1 DEF TrackInv
    <3>3. head \in LBranches
      BY <1>0, <2>3, <3>1 DEF GitTypeOK
    <3> QED
      BY <1>0, <2>3, <3>1, <3>2, <3>3 DEF PostUpdate, GitTypeOK
  <2>4. TrackInv'
    BY <1>2, <2>1, <2>3 DEF TrackInv
  <2> QED
    BY <1>1, <2>2, <2>4 DEF ManifestInv
<1> QED
  BY <1>4, <1>5 DEF RunCommand

(* The branch "default", where it is needed *)
LEMMA InitStartInv ==
    ASSUME ManifestInv, InitStart
    PROVE  ManifestInv'
<1> USE DEF InitStart
<1>0. ProjectInv /\ TypeOK /\ GitTypeOK /\ exists \in BOOLEAN /\ run \in RunTypeOK
  BY DEF ManifestInv, MTypeOK, ProjectInv, TypeOK, RunTypeOK
<1>1. run' \in {Success, Failure} /\ last' = "other" /\ UNCHANGED <<remotes, published, world, sync, exists>>
  OBVIOUS
<1>2. CASE UNCHANGED <<heads, track, worktree>>
  BY <1>1, <1>2, CommandEnds DEF gitVars, world, worktree
<1>3. CASE CheckoutTo(Default, HeadId) /\ track' = [track EXCEPT ![Default] = TrackingOf(revision)]
  <2>1. Default \in LBranches
    BY ManifestAssumption
  <2>2. HeadId \in Commit /\ HeadId # {} /\ MoveHead(Default, {})
        /\ heads' = [heads EXCEPT ![Default] = HeadId]
    BY <1>0, <1>3 DEF CheckoutTo, HeadId, GitTypeOK
  <2>3. track' \in [LBranches -> RBranches \cup {""}]
    BY <1>0, <1>3, <2>1 DEF GitTypeOK, TrackingOf
  <2>4. ProjectInv'
    BY <1>0, <1>1, <2>1, <2>2, <2>3, BranchOutInv
  <2>5. run' \in RunTypeOK /\ run'.pc = "idle"
    BY <1>1, RunTypes
  <2>6. MTypeOK' /\ RunInv' /\ TrackInv' /\ WorkInv'
    BY <1>0, <1>1, <2>4, <2>5 DEF MTypeOK, ProjectInv, RunTypeOK, RunInv, TrackInv, WorkInv
  <2> QED
    BY <2>4, <2>6 DEF ManifestInv
<1> QED
  BY <1>2, <1>3 DEF CheckoutRefused

(* A user who leaves HEAD on its branch leaves the other branches. *)
LEMMA UserOnlyHead ==
    ASSUME ProjectInv, User, head' = head, head # ""
    PROVE  \A b \in LBranches \ {head} : heads'[b] = heads[b]
<1>0. GitTypeOK /\ WorktreeInv
  BY DEF ProjectInv, TypeOK
<1>1. ASSUME NEW c \in LBranches, UserCheckout(c) \/ UserBranch(c)
      PROVE  FALSE
  <2>1. head' = c
    BY <1>1 DEF UserCheckout, UserBranch, MoveHead
  <2> QED
    BY <1>0, <1>1, <2>1 DEF UserCheckout, UserBranch, WorktreeInv
<1>2. ASSUME NEW i \in LocalIds, UserCommit(i)
      PROVE  \A b \in LBranches \ {head} : heads'[b] = heads[b]
  BY <1>0, <1>2 DEF UserCommit, GitTypeOK
<1>3. CASE Edit \/ UserAbortMerge
  BY <1>3 DEF Edit, UserAbortMerge, localVars
<1>4. CASE UserContinueRebase \/ UserAbortRebase
  <2>1. rebasing.branch = head
    BY <1>4 DEF UserContinueRebase, UserAbortRebase
  <2> QED
    BY <1>0, <1>4, <2>1 DEF UserContinueRebase, UserAbortRebase, GitTypeOK
<1> QED
  BY <1>1, <1>2, <1>3, <1>4 DEF User

(* Whoever else acts leaves HEAD, while a command runs, what HEAD tracks, and the *)
(* other branches.                                                                *)
LEMMA BystandersInv ==
    ASSUME ManifestInv, Bystanders
    PROVE  ManifestInv' /\ last' \in {"user", "other"}
<1>0. /\ ProjectInv /\ TypeOK /\ GitTypeOK /\ PlanInv /\ {} \in Commit /\ MTypeOK
      /\ RunInv /\ TrackInv /\ WorkInv
  BY InitTypes DEF ManifestInv, MTypeOK, ProjectInv, TypeOK
<1>1. /\ ProjectInv' /\ last' \in {"user", "other"}
      /\ UNCHANGED <<sync, track, revision>>
      /\ run.pc = "idle" \/ UNCHANGED head
      /\ run.pc # "idle" /\ head # "" => \A b \in LBranches \ {head} : heads'[b] = heads[b]
  <2>1. CASE User /\ (run.pc = "idle" \/ head' = head)
    <3>1. UNCHANGED <<sync, track, revision>>
      BY <2>1 DEF User, Edit, UserCommit, UserCheckout, UserBranch, UserContinueRebase,
                  UserAbortRebase, UserAbortMerge, localVars, world
    <3> QED
      BY <1>0, <2>1, <3>1, UserInv, UserOnlyHead
  <2>2. CASE \E r \in RBranches : UserPrune(r)
    <3>1. remotes' \in [Refs -> Commit]
      BY <1>0, <2>2 DEF UserPrune, GitTypeOK
    <3>2. /\ UNCHANGED <<heads, published, track, worktree, world, sync>> /\ last' = "user"
      BY <2>2 DEF UserPrune
    <3>3. GitTypeOK'
      BY <1>0, <3>1, <3>2 DEF GitTypeOK, worktree, world
    <3>4. ProjectInv'
      BY <1>0, <3>2, <3>3, ElsewhereInv
    <3> QED
      BY <3>2, <3>4 DEF worktree, world
  <2>3. CASE Server /\ revision' = revision
    <3>1. UNCHANGED <<sync, track>>
      BY <2>3 DEF Server, ServerCommit, ServerDeleteBranch, ServerAccept, ManifestSwitch, localVars
    <3> QED
      BY <1>0, <2>3, <3>1, ServerInv DEF worktree
  <2> QED
    BY <2>1, <2>2, <2>3 DEF Bystanders
<1>2. UNCHANGED <<exists, run>>
  BY DEF Bystanders
<1>3. MTypeOK'
  BY <1>0, <1>1, <1>2 DEF MTypeOK, ProjectInv
<1>4. RunInv' /\ TrackInv'
  BY <1>0, <1>1, <1>2 DEF RunInv, TrackInv
<1>5. WorkInv'
  <2> SUFFICES ASSUME run.pc = "run", sync.cmd = "reset", ~sync.blind, NEW i \in run.work
               PROVE  \E b \in LBranches \ {head'} : i \in IdsOf(heads'[b])
    BY <1>1, <1>2 DEF WorkInv
  <2>1. head # "" /\ head' = head
    BY <1>0, <1>1 DEF PlanInv
  <2>2. PICK b \in LBranches \ {head} : i \in IdsOf(heads[b])
    BY <1>0 DEF WorkInv
  <2> QED
    BY <1>1, <2>1, <2>2
<1> QED
  BY <1>1, <1>3, <1>4, <1>5 DEF ManifestInv

(* Every step keeps the invariant. *)
LEMMA MNextInv ==
    ASSUME ManifestInv, MNext
    PROVE  ManifestInv'
<1>1. CASE Interrupt
  BY <1>1, CommandEnds DEF Interrupt
<1> QED
  BY <1>1, BeginInv, ManifestFetchInv, ManifestCheckoutInv, RunCommandInv, InitStartInv,
     BystandersInv DEF MNext

(* The invariant holds in every reachable state. *)
THEOREM MInvariant == MSpec => []ManifestInv
<1>1. ManifestInv /\ [MNext]_mvars => ManifestInv'
  <2>1. ASSUME ManifestInv, UNCHANGED mvars
        PROVE  ManifestInv'
    <3>1. ProjectInv'
      BY <2>1 DEF mvars, vars, gitVars, ManifestInv, ProjectInv, TypeOK, GitTypeOK, WorktreeInv,
                  PlanInv, FreshInv, HeadId, Rebasing, ResolveRemoteTracking
    <3>2. MTypeOK' /\ RunInv' /\ TrackInv' /\ WorkInv'
      BY <2>1, <3>1 DEF mvars, vars, gitVars, ManifestInv, MTypeOK, ProjectInv, RunInv, TrackInv,
                        WorkInv
    <3> QED
      BY <3>1, <3>2 DEF ManifestInv
  <2> QED
    BY <2>1, MNextInv
<1> QED
  BY <1>1, MInitInv, PTL DEF MSpec

(* The state of .repo/manifests and of the command that works on it is of its *)
(* type, however often init and sync are interrupted.                         *)
THEOREM ManifestTypeCorrect == MSpec => []MTypeOK
BY MInvariant, PTL DEF ManifestInv

(* Only an init that goes on reports success from its last step. *)
LEMMA StartEnds ==
    ASSUME ManifestInv, MNext, run.pc = "start", run' = Success
    PROVE  InitStart
<1>1. ~ (\E b \in Refs \cup {""}, d \in BOOLEAN : InitBegin(b, d))
  BY DEF InitBegin
<1>2. /\ ~SyncBegin /\ ~ManifestFetch /\ ~ManifestFetchFails
      /\ ~ (\E bad \in Failing : InitCheckout(bad) \/ SyncCheckout(bad))
  BY DEF SyncBegin, ManifestFetch, ManifestFetchFails, InitCheckout, SyncCheckout
<1>3. ~RunCommand
  BY DEF RunCommand
<1>4. ~Interrupt
  BY RunTypes DEF Interrupt
<1>5. ~Bystanders
  BY RunTypes DEF Bystanders
<1> QED
  BY <1>1, <1>2, <1>3, <1>4, <1>5 DEF MNext

(* An init without --detach that succeeds leaves HEAD on a branch that tracks *)
(* the manifest branch, whatever earlier runs failed or were interrupted and  *)
(* whatever the user commits meanwhile: initCommand.Execute makes the branch  *)
(* "default" whenever HEAD ends up detached, and SyncLocalHalf has renewed    *)
(* the tracking of the branch HEAD was on.                                    *)
THEOREM InitLeavesTracking == MSpec => InitTracks
<1> DEFINE Tracks == run.pc = "start" /\ run' = Success /\ ~run.detach /\ revision \in RBranches
                        => head' # "" /\ track'[head'] = revision
<1>1. ASSUME ManifestInv, [MNext]_mvars
      PROVE  [Tracks]_mvars
  <2>1. CASE MNext
    <3> SUFFICES ASSUME run.pc = "start", run' = Success, ~run.detach, revision \in RBranches
                 PROVE  head' # "" /\ track'[head'] = revision
      OBVIOUS
    <3>0. InitStart /\ TrackInv /\ GitTypeOK
      BY <1>1, <2>1, StartEnds DEF ManifestInv, MTypeOK, TypeOK
    <3>1. Default \in LBranches /\ Default # "" /\ revision \notin Tags
      BY ManifestAssumption, GitAssumption
    <3>2. CASE /\ CheckoutTo(Default, HeadId)
               /\ track' = [track EXCEPT ![Default] = TrackingOf(revision)]
      <4>1. head' = Default
        BY <3>2 DEF CheckoutTo, MoveHead
      <4> QED
        BY <3>0, <3>1, <3>2, <4>1 DEF GitTypeOK, TrackingOf
    <3>3. CASE /\ NeedsDefault => head = Default
               /\ HeadId # {} /\ UNCHANGED <<heads, track, worktree>>
      <4> USE DEF worktree
      <4>1. head # ""
        BY <3>1, <3>3 DEF NeedsDefault
      <4> QED
        BY <3>0, <3>3, <4>1 DEF TrackInv
    <3> QED
      BY <3>0, <3>2, <3>3, RunTypes DEF InitStart
  <2>2. CASE UNCHANGED mvars
    BY <2>2
  <2> QED
    BY <1>1, <2>1, <2>2
<1> QED
  BY <1>1, MInvariant, PTL DEF MSpec, InitTracks

(* What only a branch of .repo/manifests holds when SyncLocalHalf begins stays on a *)
(* branch, whatever the user commits until git runs: git reset --hard follows only  *)
(* when the tracked branch holds the commits of the current one, unless that branch *)
(* does not resolve or rev-list fails; every other command keeps them.              *)
THEOREM ManifestKeepsWork == MSpec => ManifestWorkKept
<1> DEFINE Kept == run.pc = "run" /\ last' \in {"synced", "syncFailed"} /\ ~sync.blind
                      => run.work \cap BranchWork \subseteq BranchWork'
<1>1. ASSUME ManifestInv, [MNext]_mvars
      PROVE  [Kept]_mvars
  <2>0. ProjectInv /\ GitTypeOK /\ WorkInv
    BY <1>1 DEF ManifestInv, MTypeOK, TypeOK
  <2>1. CASE RunCommand /\ HardReset
    <3> SUFFICES ASSUME run.pc = "run", ~sync.blind, NEW i \in run.work \cap BranchWork
                 PROVE  i \in BranchWork'
      OBVIOUS
    <3>1. /\ sync' = Idle /\ UNCHANGED <<remotes, published, world>> /\ sync.cmd = "reset"
      BY <2>1 DEF RunCommand, SyncRun, HardReset
    <3>2. heads' = [heads EXCEPT ![head] = sync.revid]
      BY <2>0, <2>1, <3>1, HardResetInv
    <3>3. PICK b \in LBranches \ {head} : i \in IdsOf(heads[b])
      BY <2>0, <3>1 DEF WorkInv
    <3>4. i \in LocalIds /\ heads'[b] = heads[b]
      BY <2>0, <3>2, <3>3 DEF GitTypeOK, BranchWork
    <3> QED
      BY <3>3, <3>4 DEF BranchWork
  <2>2. CASE RunCommand /\ ~HardReset
    <3>1. HeadsKept
      BY <2>0, <2>2, SyncRunInv DEF RunCommand, RunPromise
    <3> QED
      BY <3>1 DEF HeadsKept, BranchWork
  <2>3. CASE MNext /\ ~RunCommand
    <3>1. last' \in {"other", "planned", "user"}
      BY <1>1, <2>3, BystandersInv
         DEF MNext, InitBegin, SyncBegin, ManifestFetch, FetchRefs, ManifestFetchFails, InitCheckout,
             SyncCheckout, Checkout, SyncRead, InitStart, Interrupt
    <3> QED
      BY <3>1
  <2>4. CASE UNCHANGED mvars
    BY <2>4
  <2> QED
    BY <1>1, <2>1, <2>2, <2>3, <2>4
<1> QED
  BY <1>1, MInvariant, PTL DEF MSpec, ManifestWorkKept
=============================================================================
