----------------------------- MODULE Workspace ------------------------------
(***************************************************************************)
(* workspace/repo-workspace.go, with project/project.go and                *)
(* project/group.go: the projects of a workspace.  A command loads the     *)
(* manifest, makes a project of each element, selects by group and by      *)
(* argument, and groups the selection by path for the checkout pool;       *)
(* `git repo manifest -r` writes the manifest back with fixed revisions.   *)
(***************************************************************************)
EXTENDS Manifest

CONSTANTS Disks,        \* the states .repo may be in
          Content(_),   \* what it holds then: a function from files to manifests
          Main,         \* the file manifest.xml stands for
          Locals,       \* local_manifest.xml and local_manifests/*.xml, in order
          Groups,       \* what -g or manifest.groups may say: sequences of words
          ArgLists,     \* projects named on the command line
          Immutable,    \* revisions that are tags or commits
          Missing       \* paths whose repository may not exist yet

VARIABLES disk,      \* the manifest files
          phase,     \* how far the command has come
          manifest,  \* the merged manifest, err # "" when loading failed
          mirror,    \* repo.mirror
          loaded,    \* [err, projects]: RepoWorkSpace.Projects
          query,     \* groups, arguments and options of GetProjects
          selected,  \* [err, projects]: what GetProjects returned
          tree       \* edges <<parent, path>> of the tree, or of the frozen manifest

vars == <<disk, phase, manifest, mirror, loaded, query, selected, tree>>

Nothing == [err |-> "", projects |-> <<>>]
NoQuery == [groups |-> <<>>, args |-> <<>>, missingOK |-> TRUE, missing |-> {},
            submodulesOK |-> FALSE]
Root == <<Slash>>

-----------------------------------------------------------------------------
(* loadProjects *)

\* The manifests project, which a mirror has too.
ManifestsProject ==
    [ProjectElement(<<"manifests">>, <<"manifests">>, "", <<>>) EXCEPT !.remote = "origin"]

\* NewProject and NewMirrorProject look into <default> for what is not set, and
\* for a branch when the revision is immutable.
NeedsDefaultElement(p) == "" \in {p.dest, p.upstream} \/ p.revision \in Immutable \cup {""}

\* A mirror keeps the repository under the name, a workspace under the path.
GitDir(p, mir) == IF mir THEN p.name ELSE p.path

\* The branch to track when the revision cannot be tracked itself.
ManifestDefaultRevision(m, p, mir) ==
    LET d == m.default[1].revision
    IN  IF p.revision \in Immutable \cup {""} /\ (mir \/ d \notin Immutable) THEN d ELSE ""

NewProject(m, p, mir) ==
    [name |-> p.name, path |-> p.path, groups |-> p.groups, syncs |-> p.syncs,
     revision |-> IF p.revision # "" THEN p.revision ELSE m.default[1].revision,
     fallback |-> ManifestDefaultRevision(m, p, mir),
     gitDir |-> GitDir(p, mir), objects |-> p.name]

\* A mirror keeps one project of each name.
KeepProject(ps, p, mir) == ~mir \/ \A i \in DOMAIN ps : ps[i].name # p.name

\* Without <default> the program may end with a nil pointer.
loadProjects(m, mir) ==
    LET all == AllProjects(m)
        elements == IF mir THEN Append(all.projects, ManifestsProject) ELSE all.projects
        Add(ps, p) == IF KeepProject(ps, p, mir) THEN Append(ps, NewProject(m, p, mir)) ELSE ps
    IN  CASE all.err # "" -> all
          [] /\ all.err = "" /\ m.default = <<>>
             /\ \E i \in DOMAIN elements : NeedsDefaultElement(elements[i]) ->
                [Nothing EXCEPT !.err = "panic"]
          [] OTHER -> [err |-> "", projects |-> FoldLeft(Add, <<>>, elements)]

-----------------------------------------------------------------------------
(* MatchGroups.  A word of the expected groups is [name, inverse]. *)

ProjectGroups(gs) ==
    {"all"} \cup ToSet(gs) \cup (IF Contains(gs, "notdefault") THEN {} ELSE {"default"})

\* Variant of MatchGroups: one matching word is enough.
MatchAnyGroup(words, gs) ==
    \E i \in DOMAIN words : words[i].name \in ProjectGroups(gs) /\ ~words[i].inverse

MatchGroups(words, gs) ==
    FoldLeft(LAMBDA matched, w : IF w.name \in ProjectGroups(gs) THEN ~w.inverse ELSE matched,
             FALSE, words)

-----------------------------------------------------------------------------
(* GetProjects *)

GetProjectsWithName(ps, n) == SelectSeq(ps, LAMBDA p : p.name = n)
GetProjectWithPath(ps, n) ==
    LET i == SelectLastInSeq(ps, LAMBDA p : p.path = n) IN IF i = 0 THEN <<>> ELSE <<ps[i]>>

\* An argument is a name, or else a path.
ByArg(ps, arg) ==
    IF GetProjectsWithName(ps, arg) # <<>> THEN GetProjectsWithName(ps, arg)
    ELSE GetProjectWithPath(ps, arg)

Candidates(ps, args) ==
    IF args = <<>> THEN ps ELSE FlattenSeq(MapSeq(LAMBDA a : ByArg(ps, a), args))

\* The first candidate that does not fit is an error if it was asked for, and is
\* left out otherwise.
Pick(q, acc, p) ==
    LET wrong == IF ~q.missingOK /\ p.path \in q.missing THEN "noexist"
                 ELSE IF ~MatchGroups(q.groups, p.groups) THEN "groups" ELSE ""
    IN  CASE acc.err # "" -> acc
          [] acc.err = "" /\ wrong = "" -> [acc EXCEPT !.projects = Append(@, p)]
          [] OTHER -> IF q.args # <<>> THEN [err |-> wrong, projects |-> <<>>] ELSE acc

\* Submodules are not implemented: asking for them ends the program.
GetProjects(ps, q) ==
    LET cs == Candidates(ps, q.args)
    IN  CASE \E i \in DOMAIN q.args : ByArg(ps, q.args[i]) = <<>> -> [Nothing EXCEPT !.err = "nosuch"]
          [] \E i \in DOMAIN cs : q.submodulesOK \/ cs[i].syncs = "true" ->
                [Nothing EXCEPT !.err = "fatal"]
          [] OTHER -> FoldLeft(LAMBDA acc, p : Pick(q, acc, p), Nothing, cs)

-----------------------------------------------------------------------------
(* ProjectsTree *)

\* Variant of BlockEnd: the block ends after its first path.
BlockEndShort(paths, i) == i + 1

\* The end of the block of paths that lie under paths[i - 1], which starts at i.
BlockEnd(paths, i) ==
    LET out == {j \in i + 1..Len(paths) : ~Under(paths[j], paths[i - 1])}
    IN  IF out = {} THEN Len(paths) + 1 ELSE Min(out)

\* The loop of treeAppend from index i on: old is the last entry of the tree of
\* node, and a block under the path before i belongs to it.
RECURSIVE treeAppend(_, _, _, _)
treeAppend(node, paths, i, old) ==
    IF i > Len(paths) THEN <<>>
    ELSE IF i > 1 /\ Under(paths[i], paths[i - 1])
    THEN LET j == BlockEnd(paths, i)
         IN  treeAppend(old, SubSeq(paths, i, j - 1), 1, old) \o treeAppend(node, paths, j, old)
    ELSE <<<<node, paths[i]>>>> \o treeAppend(node, paths, i + 1, paths[i])

ProjectsTree(ps) ==
    LET paths == SortSeq(MapSeq(LAMBDA p : p.path, ps), StringLess)
    IN  treeAppend(Root, paths, 1, Root)

-----------------------------------------------------------------------------
(* FreezeManifest *)

\* Variant of FreezeProject: a commit that is not found is not noticed.
FreezeUnchecked(ps, missing, p) ==
    [p EXCEPT !.revision = IF p.path \in missing THEN "" ELSE "commit"]

\* freezeProject.Process: the commit the worktree has; what has none is left as
\* it is, with a warning.
FreezeProject(ps, missing, p) ==
    IF GetProjectWithPath(ps, p.path) = <<>> \/ p.path \in missing THEN p
    ELSE [p EXCEPT !.revision = "commit"]

FreezeManifest(m, ps, missing) ==
    [m EXCEPT !.projects = MapSeq(LAMBDA p : FreezeProject(ps, missing, p), @)]

-----------------------------------------------------------------------------

Init ==
    /\ disk \in Disks
    /\ phase = "start"
    /\ manifest = EmptyManifest
    /\ mirror \in BOOLEAN
    /\ loaded = Nothing
    /\ query = NoQuery
    /\ selected = Nothing
    /\ tree = <<>>

\* RepoWorkSpace.load; an error ends the command.
Load ==
    /\ phase = "start"
    /\ manifest' = LoadFile(Content(disk), Main, Locals)
    /\ loaded' = IF manifest'.err = "" THEN loadProjects(manifest', mirror) ELSE Nothing
    /\ phase' = IF manifest'.err = "" /\ loaded'.err = "" THEN "loaded" ELSE "failed"
    /\ UNCHANGED <<disk, mirror, query, selected, tree>>

Select ==
    /\ phase = "loaded"
    /\ query' \in [groups : Groups, args : ArgLists, missingOK : BOOLEAN,
                   missing : SUBSET Missing, submodulesOK : BOOLEAN]
    /\ query'.submodulesOK => query' = [NoQuery EXCEPT !.submodulesOK = TRUE, !.groups = query'.groups]
    /\ selected' = GetProjects(loaded.projects, query')
    /\ phase' = IF selected'.err = "" THEN "selected" ELSE "failed"
    /\ UNCHANGED <<disk, manifest, mirror, loaded, tree>>

\* sync groups its projects for the checkout; a mirror has no worktrees.
MakeTree ==
    /\ phase = "selected" /\ ~mirror
    /\ tree' = ProjectsTree(selected.projects)
    /\ phase' = "tree"
    /\ UNCHANGED <<disk, manifest, mirror, loaded, query, selected>>

\* git repo manifest -r; in a mirror the revision of the project is resolved.
Freeze ==
    /\ phase = "loaded"
    /\ \E missing \in SUBSET Missing :
          /\ query' = [NoQuery EXCEPT !.missing = missing]
          /\ manifest' = FreezeManifest(manifest, loaded.projects, missing)
    /\ phase' = "frozen"
    /\ UNCHANGED <<disk, mirror, loaded, selected, tree>>

Next == Load \/ Select \/ MakeTree \/ Freeze

Spec == Init /\ [][Next]_vars

-----------------------------------------------------------------------------
(* Properties. *)

\* Type correctness: the phases, and that what a failed step returns is empty.
TypeOK ==
    /\ disk \in Disks
    /\ phase \in {"start", "loaded", "selected", "tree", "frozen", "failed"}
    /\ manifest.err \in {"", "nofile", "element", "missing", "depth", "notice", "remote", "default",
                         "server", "path"}
    /\ loaded.err \in {"", "fatal", "panic"}
    /\ selected.err \in {"", "nosuch", "noexist", "groups", "fatal"}
    /\ \A r \in {loaded, selected} : r.err # "" => r.projects = <<>>

\* No two projects share a git directory: they would overwrite each other's HEAD.
GitDirsUnique ==
    \A i, j \in DOMAIN loaded.projects :
        i # j => loaded.projects[i].gitDir # loaded.projects[j].gitDir

\* The parsed files of the workspace, in the order they are merged
Parsed == ParseFiles(Content(disk), Main, Locals).ms

\* What docs/manifest-format.md says of extend-project: with a path it changes the
\* project of that name there, without one (the path is then the name) all of them.
Extends(x, p) == x.name = p.name /\ x.path \in {x.name, p.path}

ExtendedBy(p, m) ==
    FoldLeft(LAMBDA q, x :
                 IF ~Extends(x, q) THEN q
                 ELSE [q EXCEPT !.groups = @ \o x.groups,
                                !.revision = IF x.revision # "" THEN x.revision ELSE @],
             p, m.extends)

\* Reference, after the documentation: a project of file i is there unless a later
\* file removes its name, and what these files say in extend-project has been done.
Expected ==
    LET Kept(i) == SelectSeq(allProjects(Parsed[i]),
                      LAMBDA p : \A j \in i + 1..Len(Parsed) : ~Contains(Parsed[j].removes, p.name))
        Later(i, p) == FoldLeft(ExtendedBy, p, SubSeq(Parsed, i, Len(Parsed)))
    IN  FlattenSeq([i \in DOMAIN Parsed |-> MapSeq(LAMBDA p : Later(i, p), Kept(i))])

\* The manifests the code merges otherwise: a file that removes a project and has
\* one of that name, two extend-projects for one name in a file, and one without
\* path for a name that some project does not have for its path.
Undocumented ==
    \E i \in DOMAIN Parsed :
        LET m == Parsed[i]
        IN  \/ \E p \in ToSet(allProjects(m)) : Contains(m.removes, p.name)
            \/ ~NoDuplicates(MapSeq(LAMBDA x : x.name, m.extends))
            \/ \E x \in ToSet(m.extends), j \in DOMAIN Parsed :
                  \E p \in ToSet(allProjects(Parsed[j])) :
                      p.name = x.name /\ x.path = x.name /\ p.path # x.name

\* Merging one file at a time gives the projects of the reference, in the order
\* of the files, unless a file is of the kinds the code treats otherwise; and in
\* any case the projects of the workspace or mirror have a git directory each,
\* however many files and nested elements the manifest is made of.
MergeMeans ==
    /\ phase = "loaded" /\ ~Undocumented => manifest.projects = Expected
    /\ GitDirsUnique

\* docs/manifest-format.md:319-320, of the last file merged, if it has one for a name:
\* an extend-project without path changes all projects with the given name.
ExtendsAllOfName ==
    LET m == Last(Parsed)
    IN  phase = "loaded" /\ NoDuplicates(MapSeq(LAMBDA x : x.name, m.extends)) =>
            \A x \in ToSet(m.extends), p \in ToSet(manifest.projects) :
                Extends(x, p) => ToSet(x.groups) \subseteq ToSet(p.groups)

\* The files that are n includes away from f.
IncludedAt(n, f) ==
    LET files == Content(disk)
        step[k \in 0..n] ==
            IF k = 0 THEN {f}
            ELSE UNION {{IncludePath(g, files[g].includes[i]) : i \in DOMAIN files[g].includes} :
                           g \in step[k - 1] \cap DOMAIN files}
    IN  step[n]

\* Includes may be nested MaxDepth deep and no deeper; a circle of includes is
\* such an error and never a loop.
IncludeDepth ==
    LET tooDeep == \E f \in {Main} \cup ToSet(Locals) : IncludedAt(MaxDepth + 1, f) # {}
    IN  /\ phase = "loaded" => ~tooDeep
        /\ manifest.err = "depth" => tooDeep

\* Reference: the last word about a group of the project decides.
Wanted(words, gs) ==
    \E i \in DOMAIN words :
        /\ words[i].name \in ProjectGroups(gs) /\ ~words[i].inverse
        /\ \A j \in i + 1..Len(words) : words[j].name \notin ProjectGroups(gs)
                                          \/ ~words[j].inverse

\* Without arguments exactly the projects of the groups that exist are selected,
\* each once; with arguments, each argument has brought at least one project,
\* and none is outside the groups.
SelectionMeans ==
    phase \in {"selected", "tree"} =>
        LET got == MapSeq(LAMBDA p : p.path, selected.projects)
            fits == {p \in ToSet(loaded.projects) :
                        /\ Wanted(query.groups, p.groups)
                        /\ query.missingOK \/ p.path \notin query.missing}
        IN  /\ ToSet(selected.projects) \subseteq fits
            /\ query.args = <<>> => ToSet(selected.projects) = fits
            /\ Len(query.args) < 2 => NoDuplicates(selected.projects)
            /\ \A i \in DOMAIN query.args :
                  \E p \in ToSet(selected.projects) : query.args[i] \in {p.name, p.path}

\* The selected projects that hold the worktree of p, and of these the ones no
\* other path separates from p in the order of the strings.
Holders(p) == {q \in ToSet(selected.projects) : Under(p.path, q.path)}
Adjoining(p) ==
    {q \in Holders(p) : \A r \in ToSet(selected.projects) :
        StringLess(q.path, r.path) /\ StringLess(r.path, p.path) => Under(r.path, q.path)}

\* Every selected project is in the tree once, at the root or under one whose
\* worktree holds it, and then under none farther than the nearest that adjoins
\* it.  One whose holders are all separated from it may be at the root.
TreeMeans ==
    phase = "tree" /\ NoDuplicates(selected.projects) =>
        /\ Len(tree) = Len(selected.projects)
        /\ \A p \in ToSet(selected.projects) : \E i \in DOMAIN tree :
              /\ tree[i][2] = p.path
              /\ \/ tree[i][1] = Root /\ Adjoining(p) = {}
                 \/ \E q \in Holders(p) :
                        /\ tree[i][1] = q.path
                        /\ \A r \in Adjoining(p) : Len(r.path) <= Len(q.path)

\* The manifest that `manifest -r` writes, used as the only file of a workspace,
\* gives the same projects; those whose worktree was there have their commit.
\* It must have a <default>: with a fixed revision NewProject looks into it.
FreezeRoundTrip ==
    phase = "frozen" /\ manifest.default # <<>> =>
        LET again == loadProjects(LoadFile(Main :> manifest, Main, <<>>), mirror)
            Pinned(p) == p.path \notin query.missing
        IN  /\ again.err = "" /\ Len(again.projects) = Len(loaded.projects)
            /\ \A i \in DOMAIN loaded.projects :
                  LET p == loaded.projects[i]
                      q == again.projects[i]
                  IN  /\ q.name = p.name /\ q.gitDir = p.gitDir /\ q.groups = p.groups
                      /\ ~mirror => q.revision = IF Pinned(p) THEN "commit" ELSE p.revision
=============================================================================
