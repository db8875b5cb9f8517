------------------------------ MODULE Manifest ------------------------------
(***************************************************************************)
(* manifest/manifest.go: how the XML files of a workspace become one       *)
(* manifest.  Pure operators: parse a file and what it includes, merge the *)
(* files in order, fill what a project leaves out.                         *)
(*                                                                         *)
(* A name or a path is a sequence of tokens, ordered as in Alphabet, so    *)
(* that "a", "a-b" and "a/c" sort as the strings do; <<>> is the empty     *)
(* string, and ".git" is a token of its own.  An optional element is a     *)
(* sequence of at most one.                                                *)
(***************************************************************************)
EXTENDS SequencesExt

CONSTANTS Alphabet,    \* the tokens in the order of the characters
          MaxDepth     \* maxRecursiveDepth, 10 in the code

Slash == "/"
Git == ".git"

Join(s, t) == s \o <<Slash>> \o t
HasPrefix(s, t) == IsPrefix(t, s)
Under(s, t) == HasPrefix(s, t \o <<Slash>>)

Rank(t) == CHOOSE i \in 1..Len(Alphabet) : Alphabet[i] = t
StringLess(s, t) ==
    \/ IsStrictPrefix(s, t)
    \/ \E i \in 1..Min({Len(s), Len(t)}) :
          /\ SubSeq(s, 1, i - 1) = SubSeq(t, 1, i - 1)
          /\ Rank(s[i]) < Rank(t[i])

TrimSuffix(s, t) == IF s # <<>> /\ Last(s) = t THEN Front(s) ELSE s

\* filepath.Clean, of the paths that occur: a slash at the end goes, and the
\* empty path is the directory itself.
Clean(s) == IF s = <<>> THEN <<".">> ELSE TrimSuffix(s, Slash)
cleanPath(s) == Clean(TrimSuffix(s, Git))

MapSeq(Op(_), s) == [i \in DOMAIN s |-> Op(s[i])]
NoDuplicates(s) == \A i, j \in DOMAIN s : i # j => s[i] # s[j]

-----------------------------------------------------------------------------
(* Elements. *)

RemoteElement(n, rev, o) == [name |-> n, revision |-> rev, override |-> o]
DefaultElement(r, rev, o) ==
    [remote |-> r, revision |-> rev, dest |-> "", upstream |-> "", syncs |-> "",
     override |-> o]

\* links: of each copyfile and linkfile, whether it has src and dest
ProjectElement(n, p, rev, gs) ==
    [name |-> n, path |-> p, remote |-> "", revision |-> rev, dest |-> "",
     upstream |-> "", syncs |-> "", groups |-> gs, links |-> <<>>, projects |-> <<>>]

ExtendElement(n, p, rev, gs) == [name |-> n, path |-> p, revision |-> rev, groups |-> gs]

\* One file, or what is merged from several.
EmptyManifest ==
    [err |-> "", notice |-> "", remotes |-> <<>>, default |-> <<>>, server |-> <<>>,
     projects |-> <<>>, removes |-> <<>>, extends |-> <<>>, includes |-> <<>>]

Failed(e) == [EmptyManifest EXCEPT !.err = e]

-----------------------------------------------------------------------------
(* CheckAndFixup *)

RECURSIVE FixupProject(_)
FixupProject(p) ==
    [p EXCEPT !.name = cleanPath(@),
              !.path = IF @ = <<>> THEN cleanPath(p.name) ELSE cleanPath(@),
              !.projects = MapSeq(FixupProject, @)]

RECURSIVE GoodProject(_)
GoodProject(p) ==
    /\ p.name # <<>>
    /\ \A i \in DOMAIN p.links : p.links[i]
    /\ \A i \in DOMAIN p.projects : GoodProject(p.projects[i])

FixupExtend(x) ==
    [x EXCEPT !.name = cleanPath(@),
              !.path = IF @ = <<>> THEN cleanPath(x.name) ELSE cleanPath(@)]

GoodManifest(m) ==
    /\ \A i \in DOMAIN m.remotes : m.remotes[i].name # ""
    /\ \A i \in DOMAIN m.projects : GoodProject(m.projects[i])
    /\ \A i \in DOMAIN m.removes : m.removes[i] # <<>>
    /\ \A i \in DOMAIN m.extends : m.extends[i].name # <<>>
    /\ \A i \in DOMAIN m.includes : m.includes[i] # <<>>

CheckAndFixup(m) ==
    IF ~GoodManifest(m) THEN Failed("element")
    ELSE [m EXCEPT !.projects = MapSeq(FixupProject, @),
                   !.removes = MapSeq(cleanPath, @),
                   !.extends = MapSeq(FixupExtend, @)]

-----------------------------------------------------------------------------
(* Nested projects. *)

\* Project.AllProjects: a project and those nested in it, with their names
\* and paths joined.
RECURSIVE AllProjectsOf(_, _, _)
AllProjectsOf(p, pname, ppath) ==
    LET joinedName == IF pname # <<>> THEN Join(pname, p.name) ELSE p.name
        joinedPath == IF ppath # <<>> THEN Join(ppath, p.path) ELSE p.path
        name == Clean(TrimSuffix(joinedName, Git))
        path == Clean(joinedPath)
        Sub(q) == AllProjectsOf(q, name, path)
    IN  <<[p EXCEPT !.name = name, !.path = path, !.projects = <<>>]>>
            \o FlattenSeq(MapSeq(Sub, p.projects))

\* Manifest.allProjects
allProjects(m) == FlattenSeq(MapSeq(LAMBDA p : AllProjectsOf(p, <<>>, <<>>), m.projects))

-----------------------------------------------------------------------------
(* Merge: v is what has been merged so far, m the next file. *)

MergeNotice(v, m) ==
    IF v.err # "" \/ m.notice = "" THEN v
    ELSE IF v.notice = "" THEN [v EXCEPT !.notice = m.notice] ELSE Failed("notice")

\* A remote of the same name is replaced only with override.
MergeRemote(v, r) ==
    LET i == SelectInSeq(v.remotes, LAMBDA x : x.name = r.name)
    IN  CASE v.err # "" -> v
          [] i = 0 -> [v EXCEPT !.remotes = Append(@, r)]
          [] i # 0 /\ r.override -> [v EXCEPT !.remotes[i] = r]
          [] OTHER -> IF v.remotes[i] = r THEN v ELSE Failed("remote")

MergeRemotes(v, m) == FoldLeft(MergeRemote, v, m.remotes)

MergeDefault(v, m) ==
    CASE v.err # "" \/ m.default = <<>> \/ m.default = v.default -> v
      [] v.default = <<>> \/ m.default[1].override -> [v EXCEPT !.default = m.default]
      [] OTHER -> Failed("default")

MergeServer(v, m) ==
    CASE v.err # "" \/ m.server = <<>> \/ m.server = v.server -> v
      [] v.server = <<>> \/ m.server[1].override -> [v EXCEPT !.server = m.server]
      [] OTHER -> Failed("server")

\* No two projects may have the same path.
MergeProjects(v, m) ==
    LET ps == allProjects(v) \o allProjects(m)
    IN  CASE v.err # "" -> v
          [] NoDuplicates(MapSeq(LAMBDA p : p.path, ps)) -> [v EXCEPT !.projects = ps]
          [] OTHER -> Failed("path")

\* Variant of RemoveProjects: a project is removed with those nested in it.
RemoveNestedProjects(v, m) ==
    IF v.err # "" THEN v
    ELSE [v EXCEPT !.projects = SelectSeq(allProjects(v),
              LAMBDA p : \A i \in DOMAIN m.removes :
                             p.name # m.removes[i] /\ ~Under(p.name, m.removes[i]))]

\* remove-project goes by name, and takes the projects of its own file too.
RemoveProjects(v, m) ==
    IF v.err # "" THEN v
    ELSE [v EXCEPT !.projects =
              SelectSeq(allProjects(v), LAMBDA p : ~Contains(m.removes, p.name))]

\* What an extend-project of file m does to p: the last one with its name counts,
\* if it has the path of p.
ExtendProject(p, m) ==
    LET i == SelectLastInSeq(m.extends, LAMBDA x : x.name = p.name)
    IN  IF i = 0 \/ m.extends[i].path # p.path THEN p
        ELSE [p EXCEPT !.groups = @ \o m.extends[i].groups,
                       !.revision = IF m.extends[i].revision # ""
                                    THEN m.extends[i].revision ELSE @]

ExtendProjects(v, m) ==
    IF v.err # "" THEN v
    ELSE [v EXCEPT !.projects = MapSeq(LAMBDA p : ExtendProject(p, m), @)]

Merge(v, m) ==
    ExtendProjects(RemoveProjects(MergeProjects(MergeServer(MergeDefault(
        MergeRemotes(MergeNotice(v, m), m), m), m), m), m), m)

mergeManifests(ms) == FoldLeft(Merge, EmptyManifest, ms)

-----------------------------------------------------------------------------
(* Files. *)

\* An include is looked for beside the file that has it.
IncludePath(file, name) == Front(file) \o name

\* Variant of TooDeep: one level less.
TooDeepEarly(depth) == depth >= MaxDepth

TooDeep(depth) == depth > MaxDepth

\* The file, then what it includes, depth first.  err is "" or what went wrong.
RECURSIVE parseXML(_, _, _)
parseXML(disk, file, depth) ==
    LET m == CheckAndFixup(disk[file])
        Included(acc, name) ==
            IF acc.err # "" THEN acc
            ELSE IF TooDeep(depth) THEN [err |-> "depth", ms |-> <<>>]
            ELSE LET sub == parseXML(disk, IncludePath(file, name), depth + 1)
                 IN  [err |-> sub.err, ms |-> acc.ms \o sub.ms]
    IN  IF file \notin DOMAIN disk THEN [err |-> "missing", ms |-> <<>>]
        ELSE IF m.err # "" THEN [err |-> m.err, ms |-> <<>>]
        ELSE FoldLeft(Included, [err |-> "", ms |-> <<m>>], m.includes)

\* The parsed files in the order they are merged: the manifest, then the local
\* manifests that exist.
ParseFiles(disk, main, locals) ==
    LET there == SelectSeq(locals, LAMBDA f : f \in DOMAIN disk)
        Step(acc, f) == IF acc.err # "" THEN acc
                        ELSE LET r == parseXML(disk, f, 1)
                             IN  [err |-> r.err, ms |-> acc.ms \o r.ms]
    IN  FoldLeft(Step, [err |-> "", ms |-> <<>>], <<main>> \o there)

\* Load, then LoadFile: a workspace without manifest is an error.
LoadFile(disk, main, locals) ==
    LET r == ParseFiles(disk, main, locals)
    IN  IF main \notin DOMAIN disk THEN Failed("nofile")
        ELSE IF r.err # "" THEN Failed(r.err) ELSE mergeManifests(r.ms)

-----------------------------------------------------------------------------
(* Manifest.AllProjects: what a project leaves out comes from its remote and  *)
(* from <default>; what cannot be found ends the program.                     *)

RemoteOf(m, p) ==
    IF p.remote # "" THEN p.remote
    ELSE IF m.default # <<>> THEN m.default[1].remote ELSE ""

RevisionOf(m, p) ==
    LET r == SelectLastInSeq(m.remotes, LAMBDA x : x.name = RemoteOf(m, p))
    IN  CASE p.revision # "" -> p.revision
          [] m.remotes[r].revision # "" -> m.remotes[r].revision
          [] OTHER -> IF m.default # <<>> THEN m.default[1].revision ELSE ""

\* sync-c and sync-tags are filled in the same way.
FillProject(m, p) ==
    LET Default(own, f) == IF own = "" /\ m.default # <<>> THEN m.default[1][f] ELSE own
    IN  [p EXCEPT !.remote = RemoteOf(m, p),
                  !.revision = RevisionOf(m, p),
                  !.dest = Default(@, "dest"),
                  !.upstream = Default(@, "upstream"),
                  !.syncs = Default(@, "syncs")]

\* log.Fatalf: no remote, an unknown remote, no revision
Fillable(m, p) ==
    /\ \E i \in DOMAIN m.remotes : m.remotes[i].name = RemoteOf(m, p)
    /\ RevisionOf(m, p) # ""

AllProjects(m) ==
    LET ps == allProjects(m)
    IN  IF \A i \in DOMAIN ps : Fillable(m, ps[i])
        THEN [err |-> "", projects |-> MapSeq(LAMBDA p : FillProject(m, p), ps)]
        ELSE [err |-> "fatal", projects |-> <<>>]
=============================================================================
