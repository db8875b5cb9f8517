-------------------------- MODULE MCTopicBranches ---------------------------
(* An instance of TopicBranches for TLC.  States are one that differ only in   *)
(* what no later step and no state property can tell: `last`, what a command   *)
(* holds but is done with, and which commit a published reference names once   *)
(* it is one that the server got or that SkipOnlyUploaded leaves out (only the *)
(* manifest project's sync reads more of it than that it is there).            *)
EXTENDS TopicBranches

LiveSync ==
    IF sync = Idle THEN Idle ELSE
    [sync EXCEPT !.blind = FALSE,
                 !.revid = IF sync.cmd \in {"error", "none"} THEN {} ELSE @,
                 !.branch = IF sync.cmd = "error" THEN "" ELSE @,
                 !.defaultTrack = IF sync.cmd = "error" THEN "" ELSE @]

LiveUpload ==
    IF up.pc = "mark" /\ (up.moved \/ up.base \in pushed[up.branch])
    THEN [up EXCEPT !.base = Base, !.moved = FALSE] ELSE up

LivePrune ==
    IF pr.pc = "idle" THEN PrIdle ELSE
    IF pr.pc = "choose" /\ pr.branches = {} THEN [PrIdle EXCEPT !.pc = "choose"] ELSE
    [pr EXCEPT !.force = @ /\ pr.pc \in {"detach", "choose"},
               !.current = IF pr.pc = "detach" THEN @ ELSE "",
               !.drop = IF pr.pc = "report" THEN {} ELSE @,
               !.loose = IF pr.pc = "force" THEN @ ELSE {},
               !.branches = IF pr.pc = "report" /\ ~pr.failed THEN {} ELSE @]

LivePublished ==
    [b \in LBranches |->
        IF published[b] # {} /\ (b \in raced \/ published[b] \in pushed[b])
        THEN Base ELSE published[b]]

Live == <<upstream, remotes, heads, LivePublished, track, worktree, revision, made,
          LiveSync, LiveUpload, LivePrune, pushed>>
=============================================================================
