----------------------------- MODULE MCUpgrade ------------------------------
EXTENDS Upgrade

\* 1.0.rc, 1.0 and 1.0.1
MCInitial == <<<<1, 1>>, <<1, 0>>>>
MCVersions == {MCInitial, Append(MCInitial, <<0, 0>>), Append(MCInitial, <<1, 1>>)}

Plain == [test |-> FALSE, version |-> <<>>, dryRun |-> FALSE]
MCOptions == {Plain, [Plain EXCEPT !.dryRun = TRUE],
              [Plain EXCEPT !.version = Append(MCInitial, <<0, 0>>)],
              [Plain EXCEPT !.version = MCInitial, !.test = TRUE]}

File(kind, v, good) == [kind |-> kind, v |-> v, good |-> good]

\* A good package; without signature; with a bad one; with a damaged program, cut
\* off; with another digest; with an entry that ends the extraction early.
MCPackages(v) ==
    LET bin == File("bin", v, TRUE)
        sha == File("sha", v, TRUE)
        gpg == File("gpg", v, TRUE)
    IN  {<<bin, sha, gpg>>, <<File("bin", v, FALSE), sha, gpg>>, <<sha, gpg>>,
         <<bin, sha, File("gpg", v, FALSE)>>, <<bin, File("sha", v, FALSE), gpg>>,
         <<bin, sha, File("special", v, TRUE), gpg>>}

ASSUME MCPackagesFit == PackagesOfVersion
=============================================================================
