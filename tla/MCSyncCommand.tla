--------------------------- MODULE MCSyncCommand ----------------------------
EXTENDS SyncCommand

\* The second version moves a project, the other manifest and the other groups
\* leave projects out; only the first version has the other manifest.
MCSelected(v, n, g) ==
    IF n = "alt" THEN {2} ELSE IF g = "some" THEN {v} ELSE {v, v + 1}
MCHasFile(v, n) == n = "default" \/ v = 1

\* The projects at 2 and 3 share a name.
MCProjectName(p) == IF p = 1 THEN "a" ELSE "b"

MCSymmetry == Permutations(Syncs)

Plain == [networkOnly |-> FALSE, localOnly |-> FALSE, detach |-> FALSE, name |-> "",
          smart |-> FALSE, args |-> "all"]
MCOptions == {Plain, [Plain EXCEPT !.networkOnly = TRUE, !.detach = TRUE],
              [Plain EXCEPT !.networkOnly = TRUE], [Plain EXCEPT !.localOnly = TRUE],
              [Plain EXCEPT !.name = "alt"], [Plain EXCEPT !.smart = TRUE],
              [Plain EXCEPT !.args = "one"], [Plain EXCEPT !.args = "unknown"]}
=============================================================================
