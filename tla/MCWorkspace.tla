---------------------------- MODULE MCWorkspace -----------------------------
(* Manifests for TLC: nested and shared projects, includes, local manifests. *)
EXTENDS Workspace

MCAlphabet == <<"-", ".", ".git", "/", "a", "b", "c", "manifests">>

A  == <<"a">>
AB == <<"a", "-", "b">>
AC == <<"a", "/", "c">>
ABC == <<"a", "/", "b", "/", "c">>
C  == <<"c">>

MCMain   == <<"manifests", "default">>
Inc(n)   == <<"manifests", n>>
Local(n) == <<"local", n>>
MCLocals == <<Local("1"), Local("2")>>

P(n, p, gs) == ProjectElement(n, p, "", gs)

\* The projects of the main file: plain, shared name, nested, fixed revision, bad.
Bodies ==
    << <<P(A, <<>>, <<>>), P(C, AB, <<"notdefault">>)>>,
       <<P(A, <<>>, <<"x">>), P(AB, <<>>, <<>>), P(A, AC, <<>>)>>,
       <<[P(<<"a", ".git">>, <<>>, <<>>) EXCEPT !.projects =
             <<[P(<<"b">>, <<>>, <<"x">>) EXCEPT !.projects = <<P(C, <<>>, <<>>)>>], P(C, <<>>, <<>>)>>]>>,
       <<[P(A, <<>>, <<>>) EXCEPT !.revision = "tag", !.dest = "m", !.upstream = "m"], P(AC, <<>>, <<"x">>)>>,
       <<[P(A, <<>>, <<>>) EXCEPT !.revision = "m", !.dest = "m", !.upstream = "m"]>>,
       <<P(A, <<>>, <<>>), P(C, A, <<>>)>>,
       <<P(A, <<>>, <<>>), [P(AC, <<>>, <<>>) EXCEPT !.links = <<FALSE>>]>> >>

Revisions == <<"", "n">>
Incs == << <<>>, <<<<"x">>>>, <<<<"default">>>> >>

\* Body b, with or without a revision of the remote, with or without <default>.
MainFile(b, r, default, inc) ==
    [EmptyManifest EXCEPT
        !.remotes = <<RemoteElement("r", Revisions[r], FALSE)>>,
        !.default = IF default THEN <<DefaultElement("r", "m", FALSE)>> ELSE <<>>,
        !.projects = IF default THEN Bodies[b]
                     ELSE [i \in DOMAIN Bodies[b] |-> [Bodies[b][i] EXCEPT !.remote = "r"]],
        !.includes = Incs[inc]]

\* x may include y, and y may include z or x again: one level too many.
Chain(n) ==
    (Inc("x") :> [EmptyManifest EXCEPT !.notice = "n", !.projects = <<P(ABC, <<>>, <<>>)>>,
                     !.includes = IF n > 1 THEN <<<<"y">>>> ELSE <<>>])
    @@ (Inc("y") :> [EmptyManifest EXCEPT !.includes =
                        IF n = 3 THEN <<<<"z">>>> ELSE IF n = 4 THEN <<<<"x">>>> ELSE <<>>])

Added    == << <<>>, <<P(AC, <<>>, <<"x">>)>>, <<P(A, C, <<>>)>> >>
Removed  == << <<>>, <<A>>, <<AC>> >>
Extended == << <<>>, <<ExtendElement(A, <<>>, "tag", <<"x">>)>>,
               <<ExtendElement(A, <<>>, "", <<"notdefault">>), ExtendElement(A, C, "n", <<>>)>> >>

Local1(p, r, x) ==
    [EmptyManifest EXCEPT !.projects = Added[p], !.removes = Removed[r], !.extends = Extended[x]]

Local2 ==
    << [EmptyManifest EXCEPT !.projects = <<P(A, <<>>, <<>>)>>],
       [EmptyManifest EXCEPT !.remotes = <<RemoteElement("r", "tag", TRUE)>>,
                             !.default = <<DefaultElement("r", "n", TRUE)>>],
       [EmptyManifest EXCEPT !.default = <<DefaultElement("r", "n", FALSE)>>, !.notice = "n",
                             !.server = <<[url |-> "s", override |-> FALSE]>>] >>

\* A disk names the variants of its files; <<>> or 0 for a file that is not there.
MCContent(d) ==
    (IF d.main = <<>> THEN <<>>
     ELSE MCMain :> MainFile(d.main[1], d.main[2], d.main[3], d.main[4]))
    @@ Chain(d.chain)
    @@ (IF d.one = <<>> THEN <<>> ELSE Local("1") :> Local1(d.one[1], d.one[2], d.one[3]))
    @@ (IF d.two = 0 THEN <<>> ELSE Local("2") :> Local2[d.two])

MCDisks ==
    [main : {<<>>}, chain : {1}, one : {<<>>}, two : {0}]
    \cup [main : (1..7) \X (1..2) \X BOOLEAN \X (1..3), chain : 1..4, one : {<<>>}, two : {0}]
    \cup [main : (1..7) \X (1..2) \X BOOLEAN \X (1..2), chain : {1},
          one : (1..3) \X (1..3) \X (1..3), two : 0..3]

W(n) == [name |-> n, inverse |-> FALSE]
Not(n) == [name |-> n, inverse |-> TRUE]
MCGroups == {<<W("default")>>, <<W("all"), Not("x")>>, <<Not("x"), W("x"), W("notdefault")>>}
MCArgLists == {<<>>, <<A>>, <<AC>>, <<C, A>>}
MCMissing == {A}
=============================================================================
