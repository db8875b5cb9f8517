--------------------------- MODULE MCCommandPool ----------------------------
EXTENDS CommandPool

MCPatterns == {{1, 2}, {2}}

Clean == [staged |-> <<>>, unstaged |-> <<>>, others |-> <<>>, rebasing |-> FALSE]

\* A rename with a change to the new file and to another one; a file deleted
\* from the index and still there; a path that is unmerged and was edited; a
\* stopped rebase.
MCWorktrees ==
    {Clean,
     [Clean EXCEPT !.staged = <<Entry("R", 3, 1), Entry("A", 0, 2)>>,
                   !.unstaged = <<Entry("M", 0, 1), Entry("M", 0, 4)>>],
     [Clean EXCEPT !.staged = <<Entry("D", 0, 2)>>, !.others = <<1, 2>>],
     [Clean EXCEPT !.staged = <<Entry("U", 0, 1)>>,
                   !.unstaged = <<Entry("U", 0, 1), Entry("M", 0, 1)>>],
     [Clean EXCEPT !.rebasing = TRUE]}
=============================================================================
