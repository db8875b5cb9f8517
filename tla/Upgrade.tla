------------------------------ MODULE Upgrade -------------------------------
(***************************************************************************)
(* `git repo upgrade` (cmd/upgrade.go): the program looks for a version,   *)
(* downloads a package, verifies it and replaces itself.  Upgrades may     *)
(* overlap, fail at each step, and be killed.                              *)
(*                                                                         *)
(* A program is a sequence of blocks.  Files are inodes, so that a file    *)
(* can be renamed while somebody writes to it.  A component of a version   *)
(* is <<1, n>> for the number n and <<0, n>> for the n-th word.            *)
(***************************************************************************)
EXTENDS Integers, Sequences

CONSTANTS Upgrades,     \* upgrades that may run at the same time
          Versions,     \* versions there are
          Initial,      \* the version that is installed at first
          Packages(_),  \* the packages there may be for a version
          OptionSet,    \* the command lines that are tried
          URLs,         \* number of addresses of a package
          MaxRuns       \* bound on the upgrades of one behaviour

Blocks == 1..2
Inodes == 0..MaxRuns

\* A file of a package: of a version, and good unless it was damaged or tampered with.
FileOf == [kind : {"bin", "sha", "gpg", "special"}, v : Versions, good : BOOLEAN]

ASSUME UpgradeAssumption ==
    /\ Initial \in Versions /\ URLs \in Nat \ {0} /\ MaxRuns \in Nat
    /\ OptionSet \subseteq [test : BOOLEAN, version : Versions \cup {<<>>}, dryRun : BOOLEAN]
    /\ Versions \subseteq Seq({0, 1} \X Nat)
    /\ \A v \in Versions : Packages(v) \subseteq Seq(FileOf)

VARIABLES target,   \* inode of the program
          newFile,  \* inode of the file <program>-new, -1 if there is none
          data,     \* the blocks of each inode
          proc,     \* the upgrades
          runs,     \* how many have been started
          overlap   \* two of them ran at the same time

files == <<target, newFile, data>>
vars == <<files, proc, runs, overlap>>

Hole == <<>>
Empty == [b \in Blocks |-> Hole]
Image(v) == [b \in Blocks |-> <<v, b>>]
Damaged(v) == [Image(v) EXCEPT ![2] = Hole]

NoPackage == <<>>
Idle == [pc |-> "idle", id |-> 0, o |-> <<>>, running |-> Initial, new |-> Initial, url |-> 1,
         progress |-> "none", done |-> FALSE, copied |-> FALSE, package |-> NoPackage,
         consent |-> FALSE, tmp |-> FALSE, inode |-> -1, block |-> 1]

Running(p) == proc[p].pc # "idle"

Installed == data[target]
VersionOf(image) == image[1][1]

Init ==
    /\ target = 0 /\ newFile = -1
    /\ data = [i \in Inodes |-> IF i = 0 THEN Image(Initial) ELSE Empty]
    /\ proc = [p \in Upgrades |-> Idle]
    /\ runs = 0 /\ overlap = FALSE

-----------------------------------------------------------------------------
(* Which version. *)

\* Variant of CompareVersion: the longer version is the newer one.
CompareLength(left, right) ==
    LET differ == {i \in DOMAIN left \cap DOMAIN right : left[i] # right[i]}
        less(x, y) == x[1] < y[1] \/ (x[1] = y[1] /\ x[2] < y[2])
    IN  IF differ # {}
        THEN LET i == CHOOSE k \in differ : \A j \in differ : k <= j
             IN  IF less(left[i], right[i]) THEN -1 ELSE 1
        ELSE IF Len(left) > Len(right) THEN 1 ELSE IF Len(left) < Len(right) THEN -1 ELSE 0

\* CompareVersion: the first components that differ decide, a word comes before a
\* number; else the rest of the longer one does, older if it starts with a word.
CompareVersion(left, right) ==
    LET differ == {i \in DOMAIN left \cap DOMAIN right : left[i] # right[i]}
        less(x, y) == x[1] < y[1] \/ (x[1] = y[1] /\ x[2] < y[2])
        sign(longer, n) == IF longer[n + 1][1] = 1 THEN 1 ELSE -1
    IN  IF differ # {}
        THEN LET i == CHOOSE k \in differ : \A j \in differ : k <= j
             IN  IF less(left[i], right[i]) THEN -1 ELSE 1
        ELSE IF Len(left) > Len(right) THEN sign(left, Len(right))
        ELSE IF Len(left) < Len(right) THEN -sign(right, Len(left)) ELSE 0

End(p) == proc' = [proc EXCEPT ![p] = Idle]

\* Execute goes on with a newer version, or with the one the user asks for.
Decide(p, new) ==
    IF CompareVersion(new, proc[p].running) <= 0 /\ proc[p].o.version = <<>>
    THEN End(p)
    ELSE proc' = [proc EXCEPT ![p].new = new, ![p].running = Initial,
                                   ![p].pc = "download"]

\* The program that runs is the one that is installed when the command starts.
\* --test and --version exclude each other.
Begin(p, o) ==
    /\ ~Running(p) /\ runs < MaxRuns
    /\ runs' = runs + 1
    /\ overlap' = (overlap \/ \E q \in Upgrades : Running(q))
    /\ ~ (o.test /\ o.version # <<>>)
    /\ \E v \in Versions :
          /\ Installed = Image(v)
          /\ proc' = [proc EXCEPT ![p] = [Idle EXCEPT !.pc = "info", !.id = runs', !.o = o,
                                                      !.running = v]]
    /\ UNCHANGED files

\* What version.yml says, unless it cannot be read; --version needs none.
GetUpgradeInfo(p) ==
    /\ proc[p].pc = "info"
    /\ IF proc[p].o.version # <<>> THEN Decide(p, proc[p].o.version)
       ELSE End(p) \/ \E v \in Versions : Decide(p, v)
    /\ UNCHANGED <<files, runs, overlap>>

-----------------------------------------------------------------------------
(* Download, with a goroutine that shows the progress. *)

NextURL(p) ==
    IF proc[p].url = URLs THEN End(p)
    ELSE proc' = [proc EXCEPT ![p].url = @ + 1, ![p].pc = "download",
                              ![p].progress = "none", ![p].done = FALSE]

\* The address cannot be opened, or the body is read, beside a goroutine that ends
\* at once when it does not know how much there is.
Download(p) ==
    /\ proc[p].pc = "download"
    /\ \/ NextURL(p)
       \/ \E g \in {"polls", "ended"} :
             proc' = [proc EXCEPT ![p].progress = g, ![p].pc = "copy"]
    /\ UNCHANGED <<files, runs, overlap>>

\* The goroutine polls until it is told to stop,
ShowProgress(p) ==
    /\ proc[p].progress = "polls" /\ proc[p].done
    /\ proc' = [proc EXCEPT ![p].progress = "ended", ![p].done = FALSE]
    /\ UNCHANGED <<files, runs, overlap>>

\* or does not find the file.
StatFails(p) ==
    /\ proc[p].progress = "polls"
    /\ proc' = [proc EXCEPT ![p].progress = "ended"]
    /\ UNCHANGED <<files, runs, overlap>>

\* Variant of CopyEnds: after an error the goroutine is not told.
CopyEndsUntold(p) ==
    /\ proc[p].pc = "copy"
    /\ \E ok \in BOOLEAN :
          proc' = [proc EXCEPT ![p].pc = "wait", ![p].done = ok, ![p].copied = ok]
    /\ UNCHANGED <<files, runs, overlap>>

\* The body has been read, or not all of it; `done` has room for one value.
CopyEnds(p) ==
    /\ proc[p].pc = "copy"
    /\ \E ok \in BOOLEAN :
          proc' = [proc EXCEPT ![p].pc = "wait", ![p].done = TRUE, ![p].copied = ok]
    /\ UNCHANGED <<files, runs, overlap>>

\* wg.Wait; after an error the next address is tried.
WaitProgress(p) ==
    /\ proc[p].pc = "wait" /\ proc[p].progress = "ended"
    /\ IF proc[p].copied
       THEN \E k \in Packages(proc[p].new) :
               proc' = [proc EXCEPT ![p].package = k, ![p].pc = "extract", ![p].done = FALSE,
                                       ![p].copied = FALSE, ![p].progress = "none", ![p].url = 1]
       ELSE NextURL(p)
    /\ UNCHANGED <<files, runs, overlap>>

-----------------------------------------------------------------------------
(* The package: entries [kind, v, good]. *)

\* ExtractTar and ExtractZip end at an entry they do not expect; their error is
\* not looked at.
Extracted(k) ==
    {i \in DOMAIN k : \A j \in 1..i : k[j].kind # "special"}

\* The last entry of a kind, <<>> if there is none.
Entry(k, kind) ==
    LET at == {i \in Extracted(k) : k[i].kind = kind}
    IN  IF at = {} THEN <<>> ELSE <<k[CHOOSE i \in at : \A j \in at : j <= i]>>

\* verifyChecksum: 64 digits are compared, so only a SHA-256 digest can match.
verifyChecksum(bin, sha) == sha.good /\ bin.good /\ bin.v = sha.v

\* verifySignature: of the file with the digest.
verifySignature(sha, gpg) == gpg.good /\ gpg.v = sha.v

\* Variant of Signed: that there is a signature is enough.
SignedSomehow(k) == Entry(k, "gpg") # <<>>

Signed(k) == Entry(k, "gpg") # <<>> /\ verifySignature(Entry(k, "sha")[1], Entry(k, "gpg")[1])
Contents(k) == LET bin == Entry(k, "bin")[1] IN IF bin.good THEN Image(bin.v) ELSE Damaged(bin.v)

\* Without a good signature the user is asked; a dry run ends here.
ExtractAndVerify(p) ==
    LET k == proc[p].package
        bin == Entry(k, "bin")
        sha == Entry(k, "sha")
    IN  /\ proc[p].pc = "extract"
        /\ IF bin = <<>> \/ sha = <<>> THEN End(p)
           ELSE IF ~verifyChecksum(bin[1], sha[1]) THEN End(p)
           ELSE IF ~Signed(k) THEN proc' = [proc EXCEPT ![p].pc = "ask"]
           ELSE IF proc[p].o.dryRun THEN End(p)
           ELSE proc' = [proc EXCEPT ![p].pc = "open"]
        /\ UNCHANGED <<files, runs, overlap>>

AskUser(p) ==
    /\ proc[p].pc = "ask"
    /\ \/ End(p)
       \/ /\ ~proc[p].o.dryRun
          /\ proc' = [proc EXCEPT ![p].pc = "open", ![p].consent = TRUE]
    /\ UNCHANGED <<files, runs, overlap>>

-----------------------------------------------------------------------------
(* InstallImage *)

\* Variant of OpenNew: the program itself is opened for writing.
OpenTarget(p) ==
    /\ proc[p].pc = "open"
    /\ data' = [data EXCEPT ![target] = Empty]
    /\ proc' = [proc EXCEPT ![p].inode = target, ![p].pc = "write"]
    /\ UNCHANGED <<target, newFile, runs, overlap>>

\* <program>-new is created, or truncated if it is there; without permission
\* a file in a new directory serves.
OpenNew(p) ==
    /\ proc[p].pc = "open"
    /\ LET own == proc[p].id
           i == IF newFile # -1 THEN newFile ELSE own
       IN  \/ /\ newFile' = i
              /\ data' = [data EXCEPT ![i] = Empty]
              /\ proc' = [proc EXCEPT ![p].inode = i, ![p].pc = "write"]
           \/ /\ proc' = [proc EXCEPT ![p].inode = own, ![p].tmp = TRUE, ![p].pc = "write"]
              /\ data' = [data EXCEPT ![own] = Empty]
              /\ UNCHANGED newFile
    /\ UNCHANGED <<target, runs, overlap>>

\* One block is written, or cannot be.
WriteBlock(p) ==
    LET b == proc[p].block
    IN  /\ proc[p].pc = "write"
        /\ \/ /\ data' = [data EXCEPT ![proc[p].inode][b] = Contents(proc[p].package)[b]]
              /\ proc' = [proc EXCEPT ![p].block = b + 1,
                                      ![p].pc = IF b + 1 \in Blocks THEN "write" ELSE "rename"]
           \/ End(p) /\ UNCHANGED data
        /\ UNCHANGED <<target, newFile, runs, overlap>>

\* The file by its name: <program>-new may be another file by now, or gone.
\* If it fails the user is told what to copy.
Rename(p) ==
    /\ proc[p].pc = "rename"
    /\ End(p)
    /\ \/ /\ proc[p].tmp
          /\ target' = proc[p].inode
          /\ UNCHANGED newFile
       \/ /\ ~proc[p].tmp /\ newFile # -1
          /\ target' = newFile /\ newFile' = -1
       \/ UNCHANGED <<target, newFile>>
    /\ UNCHANGED <<data, runs, overlap>>

\* The upgrade is killed.
Kill(p) ==
    /\ Running(p)
    /\ End(p)
    /\ UNCHANGED <<files, runs, overlap>>

\* A step of the main goroutine.
Step(p) ==
    \/ GetUpgradeInfo(p) \/ Download(p) \/ CopyEnds(p) \/ WaitProgress(p)
    \/ ExtractAndVerify(p) \/ AskUser(p) \/ OpenNew(p) \/ WriteBlock(p) \/ Rename(p)

Next ==
    \E p \in Upgrades :
        \/ \E o \in OptionSet : Begin(p, o)
        \/ Step(p) \/ ShowProgress(p) \/ StatFails(p) \/ Kill(p)

\* Both goroutines go on, transfers end, and the user answers; but no file need be
\* missing.
Spec ==
    /\ Init /\ [][Next]_vars
    /\ \A p \in Upgrades : WF_vars(Step(p)) /\ WF_vars(ShowProgress(p))

-----------------------------------------------------------------------------
(* Properties. *)

Cells == {Hole} \cup (Versions \X Blocks)

Early == {"info", "download", "copy", "wait", "extract", "ask", "open"}

Process ==
    [pc : Early \cup {"idle", "write", "rename"}, id : Inodes, o : OptionSet \cup {<<>>},
     running : Versions, new : Versions, url : 1..URLs,
     progress : {"none", "polls", "ended"}, done : BOOLEAN, copied : BOOLEAN,
     package : Seq(FileOf), consent : BOOLEAN, tmp : BOOLEAN,
     inode : Inodes \cup {-1}, block : 1..3]

\* Type correctness: inodes are numbered by the runs, and blocks are of a version.
TypeOK ==
    /\ target \in Inodes /\ newFile \in Inodes \cup {-1}
    /\ data \in [Inodes -> [Blocks -> Cells]]
    /\ runs \in 0..MaxRuns /\ overlap \in BOOLEAN
    /\ proc \in [Upgrades -> Process]

\* The program can be run at every moment: it is the whole of some version,
\* through failures and kills.  Only upgrades at the same time, which share the
\* file <program>-new, break it.
ProgramWhole ==
    ~overlap => \E v \in Versions : Installed = Image(v)

\* The order of versions: a version that ends is after one that goes on with a
\* word and before one that goes on with a number.
Older(v, w) ==
    LET at(x, i) == IF i \in DOMAIN x THEN x[i] ELSE <<1, -1>>
        n == IF Len(v) > Len(w) THEN Len(v) ELSE Len(w)
        less(x, y) == x[1] < y[1] \/ (x[1] = y[1] /\ x[2] < y[2])
    IN  \E i \in 1..n : /\ less(at(v, i), at(w, i))
                        /\ \A j \in 1..i - 1 : at(v, j) = at(w, j)

\* Nobody gets an older version, or the same one again, unless it was asked for:
\* pre-releases (1.0.rc) and longer versions (1.0.1) included.
NoSilentDowngrade ==
    [][~overlap /\ target' # target =>
          \E p \in Upgrades : /\ proc[p].pc = "rename"
                              /\ \/ Older(VersionOf(Installed), VersionOf(data'[target']))
                                 \/ proc[p].o.version # <<>>]_vars

\* Package k has a program with a digest that fits it, and it would be installed.
Checked(k) ==
    \E i, j \in DOMAIN k :
        /\ k[i].kind = "bin" /\ k[i].good
        /\ k[j].kind = "sha" /\ k[j].good /\ k[j].v = k[i].v
        /\ Contents(k) = Image(k[i].v)

\* It has a good signature, of a digest it has.
GoodSignature(k) ==
    \E i, j \in DOMAIN k :
        k[i].kind = "gpg" /\ k[i].good /\ k[j].kind = "sha" /\ k[j].v = k[i].v

\* What is installed is the program of a package, with the right digest and signed,
\* or with the consent of the user; however the package is made up, and although the
\* errors of unpacking are ignored.
InstallsVerified ==
    [][~overlap /\ target' # target =>
          \E p \in Upgrades :
              /\ Checked(proc[p].package)
              /\ data'[target'] = Contents(proc[p].package)
              /\ proc[p].consent \/ GoodSignature(proc[p].package)]_vars

\* An upgrade ends: in particular the goroutine that shows the progress of the
\* download is always told to end, and there is room to tell it when it has ended.
UpgradeEnds == \A p \in Upgrades : Running(p) ~> ~Running(p)

-----------------------------------------------------------------------------
(* The inductive invariant behind ProgramWhole and InstallsVerified. *)

\* An upgrade that runs has its command line, and only a checked package gets to
\* InstallImage, signed or with consent.
PackageInv ==
    \A p \in Upgrades :
        /\ Running(p) => proc[p].o \in OptionSet
        /\ proc[p].pc \in {"ask", "open", "write", "rename"} => Checked(proc[p].package)
        /\ proc[p].pc \in {"open", "write", "rename"} =>
              proc[p].consent \/ GoodSignature(proc[p].package)

\* Inodes in use are those of upgrades that have begun.
InodeInv ==
    /\ target <= runs /\ newFile <= runs
    /\ \A p \in Upgrades : proc[p].id <= runs
    /\ \A p \in Upgrades :
          /\ proc[p].pc \in Early => proc[p].block = 1 /\ ~proc[p].tmp
          /\ proc[p].pc \in {"write", "rename"} => proc[p].inode \in Inodes /\ proc[p].inode <= runs
          /\ proc[p].pc = "write" => proc[p].block \in Blocks
          /\ proc[p].pc = "rename" => proc[p].block = 3

\* While upgrades do not overlap: the one that runs has an inode of its own until it
\* opens its file, which then is not the program, and holds the blocks written so far.
AloneInv ==
    ~overlap =>
        /\ \A p, q \in Upgrades : Running(p) /\ Running(q) => p = q
        /\ \E v \in Versions : Installed = Image(v)
        /\ target # newFile
        /\ \A p \in Upgrades :
              /\ proc[p].pc \in Early => target < proc[p].id /\ newFile < proc[p].id
              /\ proc[p].pc \in {"write", "rename"} =>
                    /\ proc[p].inode # target
                    /\ proc[p].tmp <=> proc[p].inode # newFile
                    /\ \A b \in Blocks : b < proc[p].block =>
                          data[proc[p].inode][b] = Contents(proc[p].package)[b]

UpgradeInv == TypeOK /\ PackageInv /\ InodeInv /\ AloneInv

\* And behind NoSilentDowngrade: the package is one of the version the upgrade is for,
\* and that one is after the one installed, unless it was asked for.
NewerFor(p) ==
    /\ proc[p].pc \in {"extract", "ask", "open", "write", "rename"} =>
          proc[p].package \in Packages(proc[p].new)
    /\ ~overlap /\ proc[p].pc = "info" => Installed = Image(proc[p].running)
    /\ ~overlap /\ proc[p].pc \notin {"idle", "info"} /\ proc[p].o.version = <<>> =>
          Older(VersionOf(Installed), proc[p].new)

NewerInv == \A p \in Upgrades : NewerFor(p)

\* The program in a package at the address of a version is of that version.
PackagesOfVersion ==
    \A v \in Versions : \A k \in Packages(v) : \A i \in DOMAIN k : k[i].kind = "bin" => k[i].v = v
=============================================================================
