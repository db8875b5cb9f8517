--------------------------- MODULE UpgradeProofs ----------------------------
(***************************************************************************)
(* For any versions, packages and number of upgrades one after the other,  *)
(* failing or killed at any step: the program is the whole of some version *)
(* at every moment, and what is installed has been verified.               *)
(***************************************************************************)
EXTENDS Upgrade, NatSets, TLAPS, SequenceTheorems

(* An entry that is found is a file of the package, of that kind. *)
LEMMA EntryFacts ==
    ASSUME NEW k \in Seq(FileOf), NEW kind, Entry(k, kind) # <<>>
    PROVE  \E i \in DOMAIN k : k[i].kind = kind /\ Entry(k, kind) = <<k[i]>>
<1> DEFINE at == {i \in Extracted(k) : k[i].kind = kind}
<1>1. Len(k) \in Nat /\ DOMAIN k = 1..Len(k)
  BY LenProperties
<1>2. at \subseteq 0..Len(k) /\ at # {}
  BY <1>1 DEF Entry, Extracted
<1>3. \E i \in at : \A j \in at : j <= i
  <2> HIDE DEF at
  <2> QED
    BY <1>1, <1>2, GreatestElement
<1> DEFINE m == CHOOSE i \in at : \A j \in at : j <= i
<1>4. m \in at
  BY <1>3
<1>5. Entry(k, kind) = <<k[m]>>
  BY <1>2 DEF Entry
<1>6. m \in DOMAIN k /\ k[m].kind = kind
  BY <1>4 DEF Extracted
<1> HIDE DEF m
<1> QED
  BY <1>5, <1>6

(* verifyChecksum accepts a package only for a program and a digest in it. *)
LEMMA CheckedFacts ==
    ASSUME NEW k \in Seq(FileOf), Entry(k, "bin") # <<>>, Entry(k, "sha") # <<>>,
           verifyChecksum(Entry(k, "bin")[1], Entry(k, "sha")[1])
    PROVE  Checked(k)
<1>1. PICK i \in DOMAIN k : k[i].kind = "bin" /\ Entry(k, "bin") = <<k[i]>>
  BY EntryFacts
<1>2. PICK j \in DOMAIN k : k[j].kind = "sha" /\ Entry(k, "sha") = <<k[j]>>
  BY EntryFacts
<1>3. k[j].good /\ k[i].good /\ k[i].v = k[j].v
  BY <1>1, <1>2 DEF verifyChecksum
<1>4. Contents(k) = Image(k[i].v)
  BY <1>1, <1>3 DEF Contents
<1> QED
  BY <1>1, <1>2, <1>3, <1>4 DEF Checked

(* verifySignature accepts a package only for a signature in it. *)
LEMMA SignedFacts ==
    ASSUME NEW k \in Seq(FileOf), Entry(k, "sha") # <<>>, Signed(k)
    PROVE  GoodSignature(k)
<1>1. PICK i \in DOMAIN k : k[i].kind = "gpg" /\ Entry(k, "gpg") = <<k[i]>>
  BY EntryFacts DEF Signed
<1>2. PICK j \in DOMAIN k : k[j].kind = "sha" /\ Entry(k, "sha") = <<k[j]>>
  BY EntryFacts
<1>3. k[i].good /\ k[i].v = k[j].v
  BY <1>1, <1>2 DEF Signed, verifySignature
<1> QED
  BY <1>1, <1>2, <1>3 DEF GoodSignature

(* A checked package holds the whole program of a version. *)
LEMMA CheckedContents ==
    ASSUME NEW k \in Seq(FileOf), Checked(k)
    PROVE  /\ \E v \in Versions : Contents(k) = Image(v)
           /\ Contents(k) \in [Blocks -> Cells]
<1>1. PICK i \in DOMAIN k : Contents(k) = Image(k[i].v)
  BY DEF Checked
<1>2. k[i] \in FileOf
  BY ElementOfSeq, LenProperties
<1>3. k[i].v \in Versions
  BY <1>2 DEF FileOf
<1> QED
  BY <1>1, <1>3 DEF Image, Cells

(* The state of an upgrade that does not run is of its type. *)
LEMMA IdleType == Idle \in Process
<1>1. <<>> \in Seq(FileOf)
  OBVIOUS
<1>2. FALSE \in BOOLEAN
  BY Zenon
<1> QED
  BY <1>1, <1>2, UpgradeAssumption DEF Idle, Process, NoPackage, Inodes, Early

-----------------------------------------------------------------------------
(* Steps that leave the files alone. *)

(* The program of the first version is installed, and nobody upgrades it. *)
LEMMA InitInv == Init => UpgradeInv
<1> SUFFICES ASSUME Init
             PROVE  UpgradeInv
  OBVIOUS
<1> USE UpgradeAssumption
<1>1. \A p \in Upgrades : proc[p] = Idle /\ ~Running(p)
  BY DEF Init, Running, Idle
<1>2. data \in [Inodes -> [Blocks -> Cells]] /\ Installed = Image(Initial) /\ target \in Inodes
  BY DEF Init, Inodes, Image, Empty, Cells, Installed
<1>3. overlap \in BOOLEAN
  BY Zenon DEF Init
<1>4. TypeOK
  BY <1>2, <1>3, IdleType DEF TypeOK, Init
<1>5. PackageInv /\ InodeInv
  BY <1>1 DEF Init, PackageInv, InodeInv, Idle, Early
<1>6. AloneInv
  BY <1>1, <1>2 DEF Init, AloneInv, Idle, Early
<1> QED
  BY <1>4, <1>5, <1>6 DEF UpgradeInv

(* An upgrade goes on towards its file, or ends. *)
LEMMA QuietInv ==
    ASSUME UpgradeInv, NEW p \in Upgrades, Running(p),
           proc' \in [Upgrades -> Process],
           \A q \in Upgrades \ {p} : proc'[q] = proc[q],
           proc'[p].pc \in Early \cup {"idle"}, proc'[p].id <= runs,
           proc'[p].pc \in Early =>
              /\ proc[p].pc \in Early
              /\ proc'[p].id = proc[p].id /\ proc'[p].o \in OptionSet
              /\ proc'[p].block = 1 /\ ~proc'[p].tmp,
           proc'[p].pc \in {"ask", "open"} => Checked(proc'[p].package),
           proc'[p].pc = "open" => proc'[p].consent \/ GoodSignature(proc'[p].package),
           UNCHANGED <<files, runs, overlap>>
    PROVE  UpgradeInv'
<1> USE DEF files
<1>0. TypeOK /\ PackageInv /\ InodeInv /\ AloneInv
  BY DEF UpgradeInv
<1>1. TypeOK'
  BY <1>0 DEF TypeOK
<1>2. /\ proc'[p].pc \notin {"write", "rename"} /\ "idle" \notin Early
      /\ proc'[p].pc # "idle" => proc'[p].pc \in Early
  BY DEF Early
<1>3. PackageInv'
  <2> SUFFICES ASSUME NEW q \in Upgrades
               PROVE  (/\ Running(q) => proc[q].o \in OptionSet
                       /\ proc[q].pc \in {"ask", "open", "write", "rename"} => Checked(proc[q].package)
                       /\ proc[q].pc \in {"open", "write", "rename"} =>
                             proc[q].consent \/ GoodSignature(proc[q].package))'
    BY DEF PackageInv
  <2>1. CASE q = p
    BY <1>2, <2>1 DEF Running
  <2>2. CASE q # p
    <3>1. proc'[q] = proc[q]
      BY <2>2
    <3> QED
      BY <1>0, <3>1 DEF PackageInv, Running
  <2> QED
    BY <2>1, <2>2
<1>4. InodeInv'
  BY <1>0, <1>2 DEF InodeInv
<1>5. AloneInv'
  <2> SUFFICES ASSUME ~overlap
               PROVE  AloneInv'
    BY DEF AloneInv
  <2>1. \A q \in Upgrades : Running(q)' => Running(q)
    BY DEF Running
  <2>2. Installed' = Installed
    BY DEF Installed
  <2> QED
    BY <1>0, <1>2, <2>1, <2>2 DEF AloneInv
<1> QED
  BY <1>1, <1>3, <1>4, <1>5 DEF UpgradeInv

(* An upgrade ends, by itself or killed, and leaves its file behind. *)
LEMMA EndInv ==
    ASSUME UpgradeInv, NEW p \in Upgrades, Running(p), End(p), UNCHANGED <<files, runs, overlap>>
    PROVE  UpgradeInv'
<1>0. TypeOK
  BY DEF UpgradeInv
<1>1. proc' \in [Upgrades -> Process] /\ proc'[p] = Idle
      /\ \A q \in Upgrades \ {p} : proc'[q] = proc[q]
  BY <1>0, IdleType DEF TypeOK, End
<1>2. Idle.pc = "idle" /\ Idle.id = 0 /\ "idle" \notin Early /\ 0 <= runs
  BY <1>0 DEF Idle, Early, TypeOK
<1> QED
  BY <1>1, <1>2, QuietInv

(* An upgrade begins: its inode is not in use yet. *)
LEMMA BeginInv ==
    ASSUME UpgradeInv, NEW p \in Upgrades, NEW o \in OptionSet, Begin(p, o)
    PROVE  UpgradeInv'
<1> USE UpgradeAssumption
<1>0. TypeOK /\ PackageInv /\ InodeInv /\ AloneInv
  BY DEF UpgradeInv
<1>1. /\ runs' = runs + 1 /\ runs < MaxRuns /\ UNCHANGED files /\ ~Running(p)
      /\ \E v \in Versions :
            /\ Installed = Image(v)
            /\ proc' = [proc EXCEPT ![p] = [Idle EXCEPT !.pc = "info", !.id = runs', !.o = o,
                                                        !.running = v]]
  BY DEF Begin
<1>2. overlap' \in BOOLEAN /\ (~overlap' => ~overlap /\ \A q \in Upgrades : ~Running(q))
  BY Zenon DEF Begin
<1>3. PICK v \in Versions : proc' = [proc EXCEPT ![p] =
                                [Idle EXCEPT !.pc = "info", !.id = runs', !.o = o, !.running = v]]
  BY <1>1
<1> DEFINE r == [Idle EXCEPT !.pc = "info", !.id = runs', !.o = o, !.running = v]
<1>4. runs \in Nat /\ runs' \in Inodes /\ runs' \in 0..MaxRuns
  BY <1>0, <1>1 DEF TypeOK, Inodes
<1>5. /\ r \in Process
      /\ r.pc = "info" /\ r.id = runs' /\ r.o = o /\ r.block = 1 /\ r.tmp = FALSE
  <2>1. r \in Process /\ r.pc = "info" /\ r.id = runs' /\ r.o = o
    BY <1>4, IdleType DEF Process, Early
  <2> QED
    BY <2>1 DEF Idle
<1> HIDE DEF r
<1>6. proc' \in [Upgrades -> Process] /\ proc'[p] = r
      /\ \A q \in Upgrades \ {p} : proc'[q] = proc[q]
  BY <1>0, <1>3, <1>5 DEF TypeOK, r
<1>7. TypeOK'
  BY <1>0, <1>1, <1>2, <1>4, <1>6 DEF TypeOK, files
<1>8. r.pc \in Early /\ r.pc # "idle" /\ r.pc \notin {"ask", "open", "write", "rename"} /\ ~r.tmp
  BY <1>5 DEF Early
<1>9. PackageInv'
  BY <1>0, <1>5, <1>6, <1>8 DEF PackageInv, Running
<1>10. InodeInv'
  <2>1. /\ target \in Int /\ newFile \in Int
        /\ \A q \in Upgrades : proc[q].id \in Int
    BY <1>0 DEF TypeOK, Process, Inodes
  <2>2. (target <= runs /\ newFile <= runs)'
    BY <1>0, <1>1, <1>4, <2>1 DEF InodeInv, files
  <2>3. \A q \in Upgrades : proc'[q].id <= runs'
    BY <1>0, <1>1, <1>4, <1>5, <1>6, <2>1 DEF InodeInv
  <2>4. ASSUME NEW q \in Upgrades
        PROVE  (/\ proc[q].pc \in Early => proc[q].block = 1 /\ ~proc[q].tmp
                /\ proc[q].pc \in {"write", "rename"} => proc[q].inode \in Inodes /\ proc[q].inode <= runs
                /\ proc[q].pc = "write" => proc[q].block \in Blocks
                /\ proc[q].pc = "rename" => proc[q].block = 3)'
    <3>1. CASE q = p
      BY <1>5, <1>6, <1>8, <3>1
    <3>2. CASE q # p
      <4>1. proc'[q] = proc[q]
        BY <1>6, <3>2
      <4>2. /\ proc[q].pc \in Early => proc[q].block = 1 /\ ~proc[q].tmp
            /\ proc[q].pc \in {"write", "rename"} => proc[q].inode \in Inodes /\ proc[q].inode <= runs
            /\ proc[q].pc = "write" => proc[q].block \in Blocks
            /\ proc[q].pc = "rename" => proc[q].block = 3
        BY <1>0 DEF InodeInv
      <4>3. \A n \in Inodes : n <= runs => n <= runs'
        BY <1>1, <1>4 DEF Inodes
      <4> QED
        BY <4>1, <4>2, <4>3
    <3> QED
      BY <3>1, <3>2
  <2> QED
    BY <2>2, <2>3, <2>4 DEF InodeInv
<1>11. AloneInv'
  <2> SUFFICES ASSUME ~overlap'
               PROVE  AloneInv'
    BY DEF AloneInv
  <2>1. ~overlap /\ \A q \in Upgrades : proc[q].pc = "idle"
    BY <1>2 DEF Running
  <2>2. \A q \in Upgrades : q # p => proc'[q].pc = "idle"
    BY <1>6, <2>1
  <2>3. target < runs' /\ newFile < runs'
    BY <1>0, <1>1, <1>4 DEF InodeInv, TypeOK, Inodes
  <2>4. Installed' = Installed /\ target' = target /\ newFile' = newFile
    BY <1>1 DEF Installed, files
  <2>5. "idle" \notin Early
    BY DEF Early
  <2> QED
    BY <1>0, <1>5, <1>6, <1>8, <2>1, <2>2, <2>3, <2>4, <2>5 DEF AloneInv, Running
<1> QED
  BY <1>7, <1>9, <1>10, <1>11 DEF UpgradeInv

(* The version is chosen. *)
LEMMA GetUpgradeInfoInv ==
    ASSUME UpgradeInv, NEW p \in Upgrades, GetUpgradeInfo(p)
    PROVE  UpgradeInv'
<1>0. TypeOK /\ PackageInv /\ InodeInv
  BY DEF UpgradeInv
<1>1. proc[p].pc = "info" /\ UNCHANGED <<files, runs, overlap>>
  BY DEF GetUpgradeInfo
<1>2. Running(p) /\ proc[p].o \in OptionSet /\ proc[p].pc \in Early
  BY <1>0, <1>1 DEF Running, PackageInv, Early
<1>3. CASE End(p)
  BY <1>1, <1>2, <1>3, EndInv
<1>4. ASSUME NEW v \in Versions,
             proc' = [proc EXCEPT ![p].new = v, ![p].running = Initial, ![p].pc = "download"]
      PROVE  UpgradeInv'
  <2>1. proc[p] \in Process
    BY <1>0 DEF TypeOK
  <2>2. /\ proc' \in [Upgrades -> Process]
        /\ \A q \in Upgrades \ {p} : proc'[q] = proc[q]
        /\ proc'[p].pc = "download" /\ proc'[p].id = proc[p].id /\ proc'[p].o = proc[p].o
        /\ proc'[p].block = proc[p].block /\ proc'[p].tmp = proc[p].tmp
    BY <1>0, <1>4, <2>1, UpgradeAssumption DEF TypeOK, Process, Early
  <2>3. /\ proc'[p].pc \in Early /\ proc'[p].pc \notin {"ask", "open"}
        /\ proc[p].id <= runs /\ proc[p].block = 1 /\ ~proc[p].tmp
    BY <1>0, <1>2, <2>2 DEF InodeInv, Early
  <2> QED
    BY <1>1, <1>2, <2>2, <2>3, QuietInv
<1>5. proc[p].o.version \in Versions \cup {<<>>}
  BY <1>2, UpgradeAssumption
<1> QED
  BY <1>3, <1>4, <1>5 DEF GetUpgradeInfo, Decide

(* A step of an upgrade that has no file yet. *)
LEMMA EarlyInv ==
    ASSUME UpgradeInv, NEW p \in Upgrades, proc[p].pc \in Early, UNCHANGED <<files, runs, overlap>>,
           proc' \in [Upgrades -> Process],
           \A q \in Upgrades \ {p} : proc'[q] = proc[q],
           proc'[p].pc \in Early, proc'[p].id = proc[p].id, proc'[p].o = proc[p].o,
           proc'[p].block = proc[p].block, proc'[p].tmp = proc[p].tmp,
           proc'[p].pc \in {"ask", "open"} => Checked(proc'[p].package),
           proc'[p].pc = "open" => proc'[p].consent \/ GoodSignature(proc'[p].package)
    PROVE  UpgradeInv'
<1>1. PackageInv /\ InodeInv
  BY DEF UpgradeInv
<1>2. Running(p) /\ proc[p].o \in OptionSet
  BY <1>1 DEF Running, PackageInv, Early
<1>3. proc[p].id <= runs /\ proc[p].block = 1 /\ ~proc[p].tmp
  BY <1>1 DEF InodeInv
<1> QED
  BY <1>2, <1>3, QuietInv

(* The next address is tried, or there is none. *)
LEMMA NextURLInv ==
    ASSUME UpgradeInv, NEW p \in Upgrades, proc[p].pc \in {"download", "wait"}, NextURL(p),
           UNCHANGED <<files, runs, overlap>>
    PROVE  UpgradeInv'
<1>0. TypeOK /\ proc[p].pc \in Early /\ Running(p)
  BY DEF UpgradeInv, Early, Running
<1>1. CASE End(p)
  BY <1>0, <1>1, EndInv
<1>2. CASE /\ proc[p].url # URLs
           /\ proc' = [proc EXCEPT ![p].url = @ + 1, ![p].pc = "download",
                                   ![p].progress = "none", ![p].done = FALSE]
  <2>1. proc[p] \in Process /\ proc[p].url + 1 \in 1..URLs
    BY <1>0, <1>2, UpgradeAssumption DEF TypeOK, Process
  <2>2. /\ proc' \in [Upgrades -> Process]
        /\ \A q \in Upgrades \ {p} : proc'[q] = proc[q]
        /\ proc'[p].pc = "download" /\ proc'[p].id = proc[p].id /\ proc'[p].o = proc[p].o
        /\ proc'[p].block = proc[p].block /\ proc'[p].tmp = proc[p].tmp
    BY <1>0, <1>2, <2>1 DEF TypeOK, Process, Early
  <2>3. proc'[p].pc \in Early /\ proc'[p].pc \notin {"ask", "open"}
    BY <2>2 DEF Early
  <2> QED
    BY <1>0, <2>2, <2>3, EarlyInv
<1> QED
  BY <1>1, <1>2 DEF NextURL

(* The download begins, goes on and ends. *)
LEMMA DownloadInv ==
    ASSUME UpgradeInv, NEW p \in Upgrades, Download(p) \/ CopyEnds(p)
    PROVE  UpgradeInv'
<1>0. /\ TypeOK /\ proc[p].pc \in Early /\ Running(p) /\ UNCHANGED <<files, runs, overlap>>
      /\ proc[p] \in Process
  BY DEF UpgradeInv, TypeOK, Early, Running, Download, CopyEnds
<1>1. CASE NextURL(p) /\ Download(p)
  BY <1>0, <1>1, NextURLInv DEF Download
<1>2. ASSUME NEW g \in {"polls", "ended"},
             proc' = [proc EXCEPT ![p].progress = g, ![p].pc = "copy"]
      PROVE  UpgradeInv'
  <2>1. /\ proc' \in [Upgrades -> Process]
        /\ \A q \in Upgrades \ {p} : proc'[q] = proc[q]
        /\ proc'[p].pc = "copy" /\ proc'[p].id = proc[p].id /\ proc'[p].o = proc[p].o
        /\ proc'[p].block = proc[p].block /\ proc'[p].tmp = proc[p].tmp
    BY <1>0, <1>2 DEF TypeOK, Process, Early
  <2>2. proc'[p].pc \in Early /\ proc'[p].pc \notin {"ask", "open"}
    BY <2>1 DEF Early
  <2> QED
    BY <1>0, <2>1, <2>2, EarlyInv
<1>3. ASSUME NEW ok \in BOOLEAN,
             proc' = [proc EXCEPT ![p].pc = "wait", ![p].done = TRUE, ![p].copied = ok]
      PROVE  UpgradeInv'
  <2>0. \/ proc' = [proc EXCEPT ![p].pc = "wait", ![p].done = TRUE, ![p].copied = TRUE]
        \/ proc' = [proc EXCEPT ![p].pc = "wait", ![p].done = TRUE, ![p].copied = FALSE]
    BY <1>3, Zenon
  <2>1. /\ proc' \in [Upgrades -> Process]
        /\ \A q \in Upgrades \ {p} : proc'[q] = proc[q]
        /\ proc'[p].pc = "wait" /\ proc'[p].id = proc[p].id /\ proc'[p].o = proc[p].o
        /\ proc'[p].block = proc[p].block /\ proc'[p].tmp = proc[p].tmp
    <3>1. CASE proc' = [proc EXCEPT ![p].pc = "wait", ![p].done = TRUE, ![p].copied = TRUE]
      BY <1>0, <3>1 DEF TypeOK, Process, Early
    <3>2. CASE proc' = [proc EXCEPT ![p].pc = "wait", ![p].done = TRUE, ![p].copied = FALSE]
      BY <1>0, <3>2 DEF TypeOK, Process, Early
    <3> QED
      BY <2>0, <3>1, <3>2
  <2>2. proc'[p].pc \in Early /\ proc'[p].pc \notin {"ask", "open"}
    BY <2>1 DEF Early
  <2> QED
    BY <1>0, <2>1, <2>2, EarlyInv
<1> QED
  BY <1>1, <1>2, <1>3 DEF Download, CopyEnds

(* A package has arrived, whatever is in it. *)
LEMMA WaitProgressInv ==
    ASSUME UpgradeInv, NEW p \in Upgrades, WaitProgress(p)
    PROVE  UpgradeInv'
<1>0. /\ TypeOK /\ proc[p].pc = "wait" /\ proc[p].pc \in Early
      /\ UNCHANGED <<files, runs, overlap>> /\ proc[p] \in Process
  BY DEF UpgradeInv, TypeOK, Early, WaitProgress
<1>1. CASE NextURL(p)
  BY <1>0, <1>1, NextURLInv
<1>2. ASSUME NEW k \in Packages(proc[p].new),
             proc' = [proc EXCEPT ![p].package = k, ![p].pc = "extract", ![p].done = FALSE,
                                  ![p].copied = FALSE, ![p].progress = "none", ![p].url = 1]
      PROVE  UpgradeInv'
  <2>1. k \in Seq(FileOf) /\ 1 \in 1..URLs
    BY <1>0, UpgradeAssumption DEF Process
  <2>2. /\ proc' \in [Upgrades -> Process]
        /\ \A q \in Upgrades \ {p} : proc'[q] = proc[q]
        /\ proc'[p].pc = "extract" /\ proc'[p].id = proc[p].id /\ proc'[p].o = proc[p].o
        /\ proc'[p].block = proc[p].block /\ proc'[p].tmp = proc[p].tmp
    <3> DEFINE r == [proc[p] EXCEPT !.package = k, !.pc = "extract", !.done = FALSE,
                                    !.copied = FALSE, !.progress = "none", !.url = 1]
    <3>1. /\ r \in Process /\ r.pc = "extract" /\ r.id = proc[p].id /\ r.o = proc[p].o
          /\ r.block = proc[p].block /\ r.tmp = proc[p].tmp
      BY <1>0, <2>1 DEF Process, Early
    <3>2. proc \in [Upgrades -> Process] /\ proc' = [proc EXCEPT ![p] = r]
      BY <1>0, <1>2 DEF TypeOK
    <3> HIDE DEF r
    <3> QED
      BY <3>1, <3>2
  <2>3. proc'[p].pc \in Early /\ proc'[p].pc \notin {"ask", "open"}
    BY <2>2 DEF Early
  <2> QED
    BY <1>0, <2>2, <2>3, EarlyInv
<1> QED
  BY <1>1, <1>2 DEF WaitProgress

(* Only a checked package goes on, and without a good signature the user is *)
(* asked.                                                                   *)
LEMMA ExtractInv ==
    ASSUME UpgradeInv, NEW p \in Upgrades, ExtractAndVerify(p)
    PROVE  UpgradeInv'
<1> DEFINE k == proc[p].package
<1>0. /\ TypeOK /\ proc[p].pc \in Early /\ Running(p)
      /\ UNCHANGED <<files, runs, overlap>> /\ proc[p] \in Process /\ k \in Seq(FileOf)
  BY DEF UpgradeInv, TypeOK, Early, Running, ExtractAndVerify, Process
<1>1. CASE End(p)
  BY <1>0, <1>1, EndInv
<1>2. CASE ~End(p)
  <2>1. Entry(k, "bin") # <<>> /\ Entry(k, "sha") # <<>>
    BY <1>2 DEF ExtractAndVerify
  <2>2. Checked(k)
    BY <1>0, <1>2, <2>1, CheckedFacts DEF ExtractAndVerify
  <2>3. \/ proc' = [proc EXCEPT ![p].pc = "ask"]
        \/ Signed(k) /\ proc' = [proc EXCEPT ![p].pc = "open"]
    BY <1>2, <2>1 DEF ExtractAndVerify
  <2>4. Signed(k) => GoodSignature(k)
    BY <1>0, <2>1, SignedFacts
  <2>5. /\ proc' \in [Upgrades -> Process]
        /\ \A q \in Upgrades \ {p} : proc'[q] = proc[q]
        /\ proc'[p].pc \in {"ask", "open"} /\ proc'[p].id = proc[p].id /\ proc'[p].o = proc[p].o
        /\ proc'[p].block = proc[p].block /\ proc'[p].tmp = proc[p].tmp /\ proc'[p].package = k
        /\ proc'[p].pc = "open" => Signed(k)
    <3>1. CASE proc' = [proc EXCEPT ![p].pc = "ask"]
      BY <1>0, <3>1 DEF TypeOK, Process, Early
    <3>2. CASE Signed(k) /\ proc' = [proc EXCEPT ![p].pc = "open"]
      BY <1>0, <3>2 DEF TypeOK, Process, Early
    <3> QED
      BY <2>3, <3>1, <3>2
  <2>6. proc'[p].pc \in Early
    BY <2>5 DEF Early
  <2> QED
    BY <1>0, <2>2, <2>4, <2>5, <2>6, EarlyInv
<1> QED
  BY <1>1, <1>2

(* The user gives consent, or not. *)
LEMMA AskUserInv ==
    ASSUME UpgradeInv, NEW p \in Upgrades, AskUser(p)
    PROVE  UpgradeInv'
<1>0. /\ TypeOK /\ PackageInv /\ proc[p].pc = "ask" /\ proc[p].pc \in Early /\ Running(p)
      /\ UNCHANGED <<files, runs, overlap>> /\ proc[p] \in Process
  BY DEF UpgradeInv, TypeOK, Early, Running, AskUser
<1>1. CASE End(p)
  BY <1>0, <1>1, EndInv
<1>2. CASE proc' = [proc EXCEPT ![p].pc = "open", ![p].consent = TRUE]
  <2>1. /\ proc' \in [Upgrades -> Process]
        /\ \A q \in Upgrades \ {p} : proc'[q] = proc[q]
        /\ proc'[p].pc = "open" /\ proc'[p].id = proc[p].id /\ proc'[p].o = proc[p].o
        /\ proc'[p].block = proc[p].block /\ proc'[p].tmp = proc[p].tmp
        /\ proc'[p].package = proc[p].package /\ proc'[p].consent
    BY <1>0, <1>2 DEF TypeOK, Process, Early
  <2>2. Checked(proc[p].package) /\ proc'[p].pc \in Early
    BY <1>0, <2>1 DEF PackageInv, Early
  <2> QED
    BY <1>0, <2>1, <2>2, EarlyInv
<1> QED
  BY <1>1, <1>2 DEF AskUser

(* The goroutine that shows the progress ends, at whatever step the upgrade is. *)
LEMMA ShowProgressInv ==
    ASSUME UpgradeInv, NEW p \in Upgrades, ShowProgress(p) \/ StatFails(p)
    PROVE  UpgradeInv'
<1> USE DEF files
<1>0. TypeOK /\ PackageInv /\ InodeInv /\ AloneInv /\ UNCHANGED <<files, runs, overlap>>
      /\ proc[p] \in Process
  BY DEF UpgradeInv, TypeOK, ShowProgress, StatFails
<1>1. proc[p].done \in BOOLEAN
  BY <1>0 DEF Process
<1>2. PICK d \in BOOLEAN : proc' = [proc EXCEPT ![p].progress = "ended", ![p].done = d]
  <2>1. CASE ShowProgress(p)
    BY <2>1 DEF ShowProgress
  <2>2. CASE StatFails(p)
    <3>1. proc' = [proc EXCEPT ![p].progress = "ended"]
      BY <2>2 DEF StatFails
    <3>2. proc' = [proc EXCEPT ![p].progress = "ended", ![p].done = proc[p].done]
      BY <1>0, <3>1 DEF TypeOK, Process
    <3> QED
      BY <1>1, <3>2
  <2> QED
    BY <2>1, <2>2
<1>3. /\ proc' \in [Upgrades -> Process]
      /\ \A q \in Upgrades :
            /\ proc'[q].pc = proc[q].pc /\ proc'[q].id = proc[q].id /\ proc'[q].o = proc[q].o
            /\ proc'[q].block = proc[q].block /\ proc'[q].inode = proc[q].inode
            /\ proc'[q].package = proc[q].package
  BY <1>0, <1>2 DEF TypeOK, Process
<1>4. \A q \in Upgrades : proc'[q].tmp = proc[q].tmp /\ proc'[q].consent = proc[q].consent
  BY <1>0, <1>2 DEF TypeOK, Process
<1>5. TypeOK'
  BY <1>0, <1>3 DEF TypeOK
<1>6. PackageInv'
  BY <1>0, <1>3, <1>4 DEF PackageInv, Running
<1>7. InodeInv'
  BY <1>0, <1>3, <1>4 DEF InodeInv
<1>8. AloneInv'
  BY <1>0, <1>3, <1>4 DEF AloneInv, Running, Installed
<1> QED
  BY <1>5, <1>6, <1>7, <1>8 DEF UpgradeInv

-----------------------------------------------------------------------------
(* InstallImage *)

(* The file is opened: <program>-new, which is not the program, or an inode *)
(* that is not in use yet.                                                  *)
LEMMA OpenNewInv ==
    ASSUME UpgradeInv, NEW p \in Upgrades, OpenNew(p)
    PROVE  UpgradeInv'
<1> USE UpgradeAssumption
<1>0. TypeOK /\ PackageInv /\ InodeInv /\ AloneInv /\ proc[p] \in Process
      /\ proc[p].pc = "open" /\ UNCHANGED <<target, runs, overlap>>
  BY DEF UpgradeInv, TypeOK, OpenNew
<1>1. PICK i \in Inodes, t \in {TRUE, FALSE} :
        /\ data' = [data EXCEPT ![i] = Empty]
        /\ ~t => newFile' = i /\ proc' = [proc EXCEPT ![p].inode = i, ![p].pc = "write"]
                 /\ i = IF newFile # -1 THEN newFile ELSE proc[p].id
        /\ t => newFile' = newFile /\ i = proc[p].id
                /\ proc' = [proc EXCEPT ![p].inode = i, ![p].tmp = TRUE, ![p].pc = "write"]
  <2>1. proc[p].id \in Inodes /\ (newFile # -1 => newFile \in Inodes)
    BY <1>0 DEF TypeOK, Process
  <2>2. CASE LET i == IF newFile # -1 THEN newFile ELSE proc[p].id
             IN  /\ newFile' = i
                 /\ data' = [data EXCEPT ![i] = Empty]
                 /\ proc' = [proc EXCEPT ![p].inode = i, ![p].pc = "write"]
    BY <2>1, <2>2
  <2>3. CASE /\ proc' = [proc EXCEPT ![p].inode = proc[p].id, ![p].tmp = TRUE, ![p].pc = "write"]
             /\ data' = [data EXCEPT ![proc[p].id] = Empty]
             /\ UNCHANGED newFile
    BY <2>1, <2>3
  <2> QED
    BY <2>2, <2>3 DEF OpenNew
<1>2. proc[p].block = 1 /\ ~proc[p].tmp /\ Checked(proc[p].package) /\ proc[p].id <= runs
      /\ (proc[p].consent \/ GoodSignature(proc[p].package)) /\ proc[p].o \in OptionSet
  BY <1>0 DEF InodeInv, PackageInv, Early, Running
<1>3. /\ proc' \in [Upgrades -> Process]
      /\ \A q \in Upgrades \ {p} : proc'[q] = proc[q]
      /\ proc'[p].pc = "write" /\ proc'[p].id = proc[p].id /\ proc'[p].o = proc[p].o
      /\ proc'[p].block = proc[p].block /\ proc'[p].inode = i
      /\ proc'[p].package = proc[p].package /\ proc'[p].consent = proc[p].consent
      /\ proc'[p].tmp <=> t
  <2>1. CASE t
    <3>1. proc' = [proc EXCEPT ![p].inode = i, ![p].tmp = TRUE, ![p].pc = "write"]
      BY <1>1, <2>1
    <3> QED
      BY <1>0, <2>1, <3>1 DEF TypeOK, Process
  <2>2. CASE ~t
    <3>1. proc' = [proc EXCEPT ![p].inode = i, ![p].pc = "write"]
      BY <1>1, <2>2
    <3> QED
      BY <1>0, <1>2, <2>2, <3>1 DEF TypeOK, Process
  <2> QED
    BY <2>1, <2>2
<1>6. data' \in [Inodes -> [Blocks -> Cells]] /\ \A j \in Inodes : j # i => data'[j] = data[j]
  BY <1>0, <1>1 DEF TypeOK, Empty, Cells
<1>7. newFile' \in Inodes \cup {-1} /\ newFile' <= runs
  BY <1>0, <1>1, <1>2 DEF TypeOK, InodeInv
<1>8. TypeOK'
  BY <1>0, <1>3, <1>6, <1>7 DEF TypeOK
<1>9. PackageInv'
  BY <1>0, <1>2, <1>3 DEF PackageInv, Running
<1>10. InodeInv'
  <2>1. i <= runs
    BY <1>0, <1>1, <1>2 DEF InodeInv
  <2>2. "write" \notin Early /\ 1 \in Blocks
    BY DEF Early, Blocks
  <2> QED
    <3>1. (target <= runs /\ newFile <= runs)' /\ \A q \in Upgrades : proc'[q].id <= runs'
      BY <1>0, <1>2, <1>3, <1>7 DEF InodeInv
    <3>2. ASSUME NEW q \in Upgrades
          PROVE  (/\ proc[q].pc \in Early => proc[q].block = 1 /\ ~proc[q].tmp
                  /\ proc[q].pc \in {"write", "rename"} => proc[q].inode \in Inodes /\ proc[q].inode <= runs
                  /\ proc[q].pc = "write" => proc[q].block \in Blocks
                  /\ proc[q].pc = "rename" => proc[q].block = 3)'
      <4>1. CASE q = p
        BY <1>0, <1>2, <1>3, <2>1, <2>2, <4>1
      <4>2. CASE q # p
        <5>1. proc'[q] = proc[q] /\ runs' = runs
          BY <1>0, <1>3, <4>2
        <5> QED
          BY <1>0, <5>1 DEF InodeInv
      <4> QED
        BY <4>1, <4>2
    <3> QED
      BY <3>1, <3>2 DEF InodeInv
<1>11. AloneInv'
  <2> SUFFICES ASSUME ~overlap
               PROVE  AloneInv'
    BY <1>0 DEF AloneInv
  <2>1. \A q \in Upgrades : q # p => proc[q].pc = "idle"
    BY <1>0 DEF AloneInv, Running
  <2>2. target < proc[p].id /\ newFile < proc[p].id /\ target # newFile
    BY <1>0 DEF AloneInv, Early
  <2>3. i # target /\ target # newFile' /\ (t <=> i # newFile')
    BY <1>0, <1>1, <2>2 DEF TypeOK, Process, Inodes
  <2>4. Installed' = Installed
    BY <1>0, <1>6, <2>3 DEF Installed, TypeOK
  <2>5. \A q \in Upgrades : q # p => proc'[q].pc = "idle"
    BY <1>3, <2>1
  <2>6. "idle" \notin Early /\ "write" \notin Early
    BY DEF Early
  <2>7. \A b \in Blocks : ~ (b < 1)
    BY DEF Blocks
  <2> QED
    BY <1>0, <1>1, <1>2, <1>3, <2>3, <2>4, <2>5, <2>6, <2>7 DEF AloneInv, Running
<1> QED
  BY <1>8, <1>9, <1>10, <1>11 DEF UpgradeInv

(* A block is written to a file that is not the program. *)
LEMMA WriteBlockInv ==
    ASSUME UpgradeInv, NEW p \in Upgrades, WriteBlock(p)
    PROVE  UpgradeInv'
<1> DEFINE b == proc[p].block
           i == proc[p].inode
           k == proc[p].package
<1>0. /\ TypeOK /\ PackageInv /\ InodeInv /\ AloneInv /\ proc[p] \in Process
      /\ proc[p].pc = "write" /\ UNCHANGED <<target, newFile, runs, overlap>> /\ Running(p)
  BY DEF UpgradeInv, TypeOK, WriteBlock, Running
<1>1. CASE End(p) /\ UNCHANGED data
  BY <1>0, <1>1, EndInv DEF files
<1>2. CASE /\ data' = [data EXCEPT ![i][b] = Contents(k)[b]]
           /\ proc' = [proc EXCEPT ![p].block = b + 1,
                                   ![p].pc = IF b + 1 \in Blocks THEN "write" ELSE "rename"]
  <2>1. i \in Inodes /\ b \in Blocks /\ k \in Seq(FileOf) /\ Checked(k)
        /\ proc[p].o \in OptionSet
        /\ (proc[p].consent \/ GoodSignature(k))
    BY <1>0 DEF InodeInv, PackageInv, Process, Running
  <2>2. Contents(k) \in [Blocks -> Cells]
    BY <2>1, CheckedContents
  <2>3. /\ proc' \in [Upgrades -> Process]
        /\ \A q \in Upgrades \ {p} : proc'[q] = proc[q]
        /\ proc'[p].id = proc[p].id /\ proc'[p].o = proc[p].o
        /\ proc'[p].block = b + 1 /\ proc'[p].inode = i /\ proc'[p].package = k
        /\ \/ proc'[p].pc = "write" /\ b + 1 \in Blocks
           \/ proc'[p].pc = "rename" /\ b + 1 = 3
    <3>1. CASE b = 1
      <4>1. proc' = [proc EXCEPT ![p].block = 2, ![p].pc = "write"]
        BY <1>2, <3>1 DEF Blocks
      <4>2. 2 \in 1..3 /\ 2 \in Blocks /\ 1 + 1 = 2
        BY DEF Blocks
      <4> QED
        BY <1>0, <3>1, <4>1, <4>2 DEF TypeOK, Process
    <3>2. CASE b = 2
      <4>1. proc' = [proc EXCEPT ![p].block = 3, ![p].pc = "rename"]
        BY <1>2, <3>2 DEF Blocks
      <4> QED
        BY <1>0, <3>2, <4>1 DEF TypeOK, Process, Blocks
    <3> QED
      BY <2>1, <3>1, <3>2 DEF Blocks
  <2>4. proc'[p].tmp = proc[p].tmp /\ proc'[p].consent = proc[p].consent
    BY <1>0, <1>2 DEF TypeOK, Process
  <2>5. /\ data' \in [Inodes -> [Blocks -> Cells]]
        /\ \A j \in Inodes : j # i => data'[j] = data[j]
        /\ data'[i][b] = Contents(k)[b]
        /\ \A c \in Blocks : c # b => data'[i][c] = data[i][c]
    BY <1>0, <1>2, <2>1, <2>2 DEF TypeOK
  <2>6. TypeOK'
    BY <1>0, <2>3, <2>5 DEF TypeOK
  <2>7. PackageInv'
    BY <1>0, <2>1, <2>3, <2>4 DEF PackageInv, Running
  <2>8. InodeInv'
    BY <1>0, <2>1, <2>3, <2>4 DEF InodeInv, Early
  <2>9. AloneInv'
    <3> SUFFICES ASSUME ~overlap
                 PROVE  AloneInv'
      BY <1>0 DEF AloneInv
    <3>1. \A q \in Upgrades : q # p => proc'[q].pc = "idle"
      BY <1>0, <2>3 DEF AloneInv, Running
    <3>2. i # target /\ (proc[p].tmp <=> i # newFile)
          /\ \A c \in Blocks : c < b => data[i][c] = Contents(k)[c]
      BY <1>0 DEF AloneInv
    <3>3. Installed' = Installed
      BY <1>0, <2>5, <3>2 DEF Installed, TypeOK
    <3>4. \A c \in Blocks : c < b + 1 => data'[i][c] = Contents(k)[c]
      BY <2>1, <2>5, <3>2 DEF Blocks
    <3>5. "idle" \notin Early /\ proc'[p].pc \notin Early
      BY <2>3 DEF Early
    <3> QED
      BY <1>0, <2>3, <2>4, <3>1, <3>2, <3>3, <3>4, <3>5 DEF AloneInv, Running
  <2> QED
    BY <2>6, <2>7, <2>8, <2>9 DEF UpgradeInv
<1> QED
  BY <1>1, <1>2 DEF WriteBlock

(* An upgrade that is alone renames its own file, with all its blocks. *)
LEMMA RenameFacts ==
    ASSUME UpgradeInv, NEW p \in Upgrades, Rename(p), ~overlap, target' # target
    PROVE  /\ target' = proc[p].inode /\ newFile' # target'
           /\ Checked(proc[p].package) /\ data' = data
           /\ data[target'] = Contents(proc[p].package)
           /\ proc[p].consent \/ GoodSignature(proc[p].package)
<1> DEFINE i == proc[p].inode
           k == proc[p].package
<1>0. TypeOK /\ PackageInv /\ InodeInv /\ AloneInv /\ proc[p] \in Process
      /\ proc[p].pc = "rename" /\ data' = data
  BY DEF UpgradeInv, TypeOK, Rename
<1>1. /\ k \in Seq(FileOf) /\ Checked(k) /\ i \in Inodes /\ proc[p].block = 3
      /\ (proc[p].consent \/ GoodSignature(k))
  BY <1>0 DEF PackageInv, InodeInv, Process
<1>2. /\ proc[p].tmp <=> i # newFile
      /\ \A c \in Blocks : c < 3 => data[i][c] = Contents(k)[c]
  BY <1>0, <1>1 DEF AloneInv
<1>3. target' = i /\ newFile' # i
  BY <1>1, <1>2 DEF Rename, Inodes
<1>4. data[i] = Contents(k)
  <2>1. data[i] \in [Blocks -> Cells] /\ Contents(k) \in [Blocks -> Cells]
    BY <1>0, <1>1, CheckedContents DEF TypeOK
  <2>2. \A c \in Blocks : data[i][c] = Contents(k)[c]
    BY <1>2 DEF Blocks
  <2> QED
    BY <2>1, <2>2
<1> QED
  BY <1>0, <1>1, <1>3, <1>4

(* The new program takes the place of the old one, or stays where it is. *)
LEMMA RenameInv ==
    ASSUME UpgradeInv, NEW p \in Upgrades, Rename(p)
    PROVE  UpgradeInv'
<1>0. /\ TypeOK /\ PackageInv /\ InodeInv /\ AloneInv /\ proc[p] \in Process
      /\ proc[p].pc = "rename" /\ UNCHANGED <<data, runs, overlap>> /\ Running(p) /\ End(p)
  BY DEF UpgradeInv, TypeOK, Rename, Running
<1>1. CASE UNCHANGED <<target, newFile>>
  BY <1>0, <1>1, EndInv DEF files
<1>2. CASE ~UNCHANGED <<target, newFile>>
  <2>1. /\ proc' \in [Upgrades -> Process] /\ proc'[p] = Idle
        /\ \A q \in Upgrades \ {p} : proc'[q] = proc[q]
    BY <1>0, IdleType DEF TypeOK, End
  <2>2. Idle.pc = "idle" /\ Idle.id = 0 /\ "idle" \notin Early /\ 0 <= runs
    BY <1>0 DEF Idle, Early, TypeOK
  <2>3. \/ target' = proc[p].inode /\ newFile' = newFile
        \/ target' = newFile /\ newFile # -1 /\ newFile' = -1
    BY <1>2 DEF Rename
  <2>4. target' \in Inodes /\ newFile' \in Inodes \cup {-1}
    BY <1>0, <2>3 DEF TypeOK, InodeInv
  <2>5. target' <= runs /\ newFile' <= runs
    BY <1>0, <2>2, <2>3 DEF TypeOK, InodeInv, Inodes
  <2>6. TypeOK'
    BY <1>0, <2>1, <2>4 DEF TypeOK
  <2>7. PackageInv'
    BY <1>0, <2>1, <2>2 DEF PackageInv, Running
  <2>8. InodeInv'
    BY <1>0, <2>1, <2>2, <2>5 DEF InodeInv
  <2>9. AloneInv'
    <3> SUFFICES ASSUME ~overlap
                 PROVE  AloneInv'
      BY <1>0 DEF AloneInv
    <3>1. \A q \in Upgrades : proc'[q].pc = "idle"
      BY <1>0, <2>1, <2>2 DEF AloneInv, Running
    <3>2. target' # newFile' /\ \E v \in Versions : Installed' = Image(v)
      <4>1. CASE target' = target
        BY <1>0, <1>2, <2>3, <4>1 DEF AloneInv, Installed
      <4>2. CASE target' # target
        <5>1. /\ newFile' # target' /\ Checked(proc[p].package)
              /\ data'[target'] = Contents(proc[p].package)
          BY <4>2, RenameFacts
        <5> QED
          BY <1>0, <5>1, CheckedContents DEF Installed, Process
      <4> QED
        BY <4>1, <4>2
    <3> QED
      BY <2>2, <3>1, <3>2 DEF AloneInv, Running
  <2> QED
    BY <2>6, <2>7, <2>8, <2>9 DEF UpgradeInv
<1> QED
  BY <1>1, <1>2

-----------------------------------------------------------------------------
(* Every step keeps the invariant. *)
LEMMA NextInv == UpgradeInv /\ [Next]_vars => UpgradeInv'
<1> SUFFICES ASSUME UpgradeInv, [Next]_vars
             PROVE  UpgradeInv'
  OBVIOUS
<1>1. CASE UNCHANGED vars
  BY <1>1 DEF vars, files, UpgradeInv, TypeOK, PackageInv, InodeInv, AloneInv, Running, Installed
<1>2. ASSUME NEW p \in Upgrades, NEW o \in OptionSet, Begin(p, o)
      PROVE  UpgradeInv'
  BY <1>2, BeginInv
<1>3. ASSUME NEW p \in Upgrades, Step(p)
      PROVE  UpgradeInv'
  BY <1>3, GetUpgradeInfoInv, DownloadInv, WaitProgressInv, ExtractInv, AskUserInv, OpenNewInv,
     WriteBlockInv, RenameInv DEF Step
<1>4. ASSUME NEW p \in Upgrades, ShowProgress(p) \/ StatFails(p)
      PROVE  UpgradeInv'
  BY <1>4, ShowProgressInv
<1>5. ASSUME NEW p \in Upgrades, Kill(p)
      PROVE  UpgradeInv'
  BY <1>5, EndInv DEF Kill
<1> QED
  BY <1>1, <1>2, <1>3, <1>4, <1>5 DEF Next

(* The inductive invariant: packages are checked before they are installed, inodes *)
(* belong to upgrades that have begun, and an upgrade that is alone writes to a    *)
(* file that is not the program.                                                   *)
THEOREM Invariant == Spec => []UpgradeInv
  BY InitInv, NextInv, PTL DEF Spec

(* The state of the upgrades and of the files is of its type. *)
THEOREM TypeCorrect == Spec => []TypeOK
<1>1. UpgradeInv => TypeOK
  BY DEF UpgradeInv
<1> QED
  BY Invariant, <1>1, PTL

(* The program can be run at every moment, for any versions and packages, and any   *)
(* number of upgrades that fail or are killed at any step, one after the other.     *)
THEOREM AlwaysWhole == Spec => []ProgramWhole
<1>1. UpgradeInv => ProgramWhole
  BY DEF UpgradeInv, AloneInv, ProgramWhole
<1> QED
  BY Invariant, <1>1, PTL

(* Only Rename changes what the program is. *)
LEMMA OnlyRename ==
    ASSUME Next, target' # target
    PROVE  \E p \in Upgrades : Rename(p)
<1>1. PICK p \in Upgrades :
         (\E o \in OptionSet : Begin(p, o)) \/ Step(p) \/ ShowProgress(p) \/ StatFails(p) \/ Kill(p)
  BY DEF Next
<1>2. ~(\E o \in OptionSet : Begin(p, o)) /\ ~ShowProgress(p) /\ ~StatFails(p) /\ ~Kill(p)
  BY DEF Begin, ShowProgress, StatFails, Kill, files
<1>3. ~GetUpgradeInfo(p) /\ ~Download(p) /\ ~CopyEnds(p) /\ ~WaitProgress(p)
  BY DEF GetUpgradeInfo, Download, CopyEnds, WaitProgress, files
<1>4. ~ExtractAndVerify(p) /\ ~AskUser(p)
  BY DEF ExtractAndVerify, AskUser, files
<1>5. ~OpenNew(p) /\ ~WriteBlock(p)
  BY DEF OpenNew, WriteBlock, files
<1> QED
  BY <1>1, <1>2, <1>3, <1>4, <1>5 DEF Step

(* What is installed is the program of a package, with the right digest, and signed *)
(* or with the consent of the user, whatever the packages hold.                     *)
THEOREM VerifiedOnly == Spec => InstallsVerified
<1> DEFINE Good == ~overlap /\ target' # target =>
                      \E p \in Upgrades :
                          /\ Checked(proc[p].package)
                          /\ data'[target'] = Contents(proc[p].package)
                          /\ proc[p].consent \/ GoodSignature(proc[p].package)
<1>1. UpgradeInv /\ [Next]_vars => [Good]_vars
  <2> SUFFICES ASSUME UpgradeInv, Next, ~overlap, target' # target
               PROVE  \E p \in Upgrades :
                          /\ Checked(proc[p].package)
                          /\ data'[target'] = Contents(proc[p].package)
                          /\ proc[p].consent \/ GoodSignature(proc[p].package)
    OBVIOUS
  <2>1. PICK p \in Upgrades : Rename(p)
    BY OnlyRename
  <2> QED
    BY <2>1, RenameFacts
<1> QED
  BY Invariant, <1>1, PTL DEF Spec, InstallsVerified

-----------------------------------------------------------------------------
(* Versions *)

(* What CompareVersion takes for newer is newer in the order of versions, for *)
(* versions of any length with words and numbers in any place.                *)
LEMMA NewerVersion ==
    ASSUME NEW v \in Seq({0, 1} \X Nat), NEW w \in Seq({0, 1} \X Nat), CompareVersion(w, v) > 0
    PROVE  Older(v, w)
<1> DEFINE differ == {i \in DOMAIN w \cap DOMAIN v : w[i] # v[i]}
           less(x, y) == x[1] < y[1] \/ (x[1] = y[1] /\ x[2] < y[2])
           at(x, i) == IF i \in DOMAIN x THEN x[i] ELSE <<1, -1>>
           n == IF Len(v) > Len(w) THEN Len(v) ELSE Len(w)
<1>1. /\ Len(v) \in Nat /\ DOMAIN v = 1..Len(v) /\ \A i \in 1..Len(v) : v[i] \in {0, 1} \X Nat
      /\ Len(w) \in Nat /\ DOMAIN w = 1..Len(w) /\ \A i \in 1..Len(w) : w[i] \in {0, 1} \X Nat
  BY LenProperties, ElementOfSeq
<1>2. SUFFICES \E i \in 1..n : less(at(v, i), at(w, i)) /\ \A j \in 1..i - 1 : at(v, j) = at(w, j)
  BY DEF Older
<1>3. CASE differ # {}
  <2> DEFINE m == CHOOSE k \in differ : \A j \in differ : k <= j
  <2>1. \E k \in differ : \A j \in differ : k <= j
    <3>1. differ \subseteq Nat
      BY <1>1
    <3> HIDE DEF differ
    <3> QED
      BY <1>3, <3>1, LeastElement
  <2>2. m \in differ /\ \A j \in differ : m <= j
    BY <2>1
  <2>3. ~less(w[m], v[m])
    <3>1. CompareVersion(w, v) = IF less(w[m], v[m]) THEN -1 ELSE 1
      BY <1>3 DEF CompareVersion
    <3> QED
      BY <3>1
  <2> HIDE DEF m
  <2>4. m \in 1..Len(v) /\ m \in 1..Len(w) /\ w[m] # v[m]
    BY <1>1, <2>2
  <2>5. v[m] \in {0, 1} \X Nat /\ w[m] \in {0, 1} \X Nat
    BY <1>1, <2>4
  <2>6. less(v[m], w[m])
    <3>1. ASSUME NEW x \in {0, 1} \X Nat, NEW y \in {0, 1} \X Nat, x # y, ~less(x, y)
          PROVE  less(y, x)
      <4>1. x[1] # y[1] \/ x[2] # y[2]
        BY <3>1
      <4>2. {x[1], y[1]} \subseteq Nat /\ {x[2], y[2]} \subseteq Nat
        OBVIOUS
      <4> QED
        BY <3>1, <4>1, <4>2
    <3> HIDE DEF less
    <3> QED
      BY <2>3, <2>4, <2>5, <3>1
  <2>7. ASSUME NEW j \in 1..m - 1
        PROVE  at(v, j) = at(w, j)
    <3>0. j \in 1..Len(v) /\ j \in 1..Len(w) /\ j < m
      BY <1>1, <2>4
    <3>1. j \in DOMAIN v /\ j \in DOMAIN w /\ j \notin differ
      <4> HIDE DEF differ
      <4> QED
        BY <1>1, <2>2, <2>4, <3>0
    <3> QED
      BY <3>1
  <2>8. m \in 1..n /\ at(v, m) = v[m] /\ at(w, m) = w[m]
    BY <1>1, <2>4
  <2> HIDE DEF less, at, n
  <2> QED
    BY <2>6, <2>7, <2>8
<1>4. CASE differ = {}
  <2>1. \A j \in 1..Len(v) : j \in 1..Len(w) => v[j] = w[j]
    BY <1>1, <1>4
  <2>2. CASE Len(w) > Len(v)
    <3> DEFINE m == Len(v) + 1
    <3>1. w[m][1] = 1
      BY <1>4, <2>2 DEF CompareVersion
    <3>2. w[m] \in {0, 1} \X Nat /\ m \in 1..n /\ at(w, m) = w[m] /\ at(v, m) = <<1, -1>>
      BY <1>1, <2>2
    <3>3. \A j \in 1..m - 1 : at(v, j) = at(w, j)
      BY <1>1, <2>1, <2>2
    <3>4. less(at(v, m), at(w, m))
      BY <3>1, <3>2
    <3> HIDE DEF less, at, n, m
    <3> QED
      BY <3>2, <3>3, <3>4
  <2>3. CASE Len(w) < Len(v)
    <3> DEFINE m == Len(w) + 1
    <3>1. v[m][1] # 1
      BY <1>1, <1>4, <2>3 DEF CompareVersion
    <3>2. v[m] \in {0, 1} \X Nat /\ m \in 1..n /\ at(v, m) = v[m] /\ at(w, m) = <<1, -1>>
      BY <1>1, <2>3
    <3>3. \A j \in 1..m - 1 : at(v, j) = at(w, j)
      BY <1>1, <2>1, <2>3
    <3>4. less(at(v, m), at(w, m))
      BY <3>1, <3>2
    <3> HIDE DEF less, at, n, m
    <3> QED
      BY <3>2, <3>3, <3>4
  <2>4. CASE Len(w) = Len(v)
    <3>1. CompareVersion(w, v) = 0
      BY <1>1, <1>4, <2>4 DEF CompareVersion
    <3> QED
      BY <3>1
  <2>5. Len(w) > Len(v) \/ Len(w) < Len(v) \/ Len(w) = Len(v)
    <3>1. \A a, b \in Nat : a > b \/ a < b \/ a = b
      OBVIOUS
    <3>2. Len(v) \in Nat /\ Len(w) \in Nat
      BY LenProperties, Zenon
    <3> QED
      BY <3>1, <3>2, Zenon
  <2> HIDE DEF differ, less, at, n
  <2> QED
    BY <2>2, <2>3, <2>4, <2>5, Zenon
<1> QED
  BY <1>3, <1>4

(* What the upgrades other than p know stays true: while nothing overlaps there *)
(* is no other.                                                                 *)
LEMMA NewerStep ==
    ASSUME UpgradeInv, NewerInv, NEW p \in Upgrades, Running(p), overlap' = overlap,
           \A q \in Upgrades \ {p} : proc'[q] = proc[q], NewerFor(p)'
    PROVE  NewerInv'
<1> SUFFICES ASSUME NEW q \in Upgrades, q # p
             PROVE  NewerFor(q)'
  BY DEF NewerInv
<1>1. proc'[q] = proc[q] /\ NewerFor(q)
  BY DEF NewerInv
<1>2. ~overlap => proc[q].pc = "idle"
  BY DEF UpgradeInv, AloneInv, Running
<1> QED
  BY <1>1, <1>2 DEF NewerFor

(* An upgrade ends, with or without the program replaced. *)
LEMMA NewerEnd ==
    ASSUME UpgradeInv, NewerInv, NEW p \in Upgrades, Running(p), overlap' = overlap, End(p)
    PROVE  NewerInv'
<1>1. proc'[p] = Idle /\ \A q \in Upgrades \ {p} : proc'[q] = proc[q]
  BY DEF UpgradeInv, TypeOK, End
<1>2. NewerFor(p)'
  BY <1>1 DEF NewerFor, Idle
<1> QED
  BY <1>1, <1>2, NewerStep

(* An upgrade that has chosen its version goes on. *)
LEMMA NewerOn ==
    ASSUME UpgradeInv, NewerInv, NEW p \in Upgrades, overlap' = overlap,
           ~overlap => Installed' = Installed,
           \A q \in Upgrades \ {p} : proc'[q] = proc[q],
           proc[p].pc \notin {"idle", "info"}, proc'[p].pc \notin {"idle", "info"},
           proc'[p].new = proc[p].new, proc'[p].o = proc[p].o,
           proc'[p].pc \in {"extract", "ask", "open", "write", "rename"} =>
              proc'[p].package \in Packages(proc[p].new)
    PROVE  NewerInv'
<1>1. NewerFor(p) /\ Running(p)
  BY DEF NewerInv, Running
<1>2. NewerFor(p)'
  BY <1>1 DEF NewerFor
<1> QED
  BY <1>1, <1>2, NewerStep

(* A file that an upgrade opens or writes to is not the program. *)
LEMMA InstalledKept ==
    ASSUME UpgradeInv, NEW p \in Upgrades, OpenNew(p) \/ WriteBlock(p), ~overlap
    PROVE  Installed' = Installed
<1>0. TypeOK /\ InodeInv /\ AloneInv /\ proc[p] \in Process /\ target' = target
  BY DEF UpgradeInv, TypeOK, OpenNew, WriteBlock
<1>1. CASE OpenNew(p)
  <2>1. target < proc[p].id /\ newFile < proc[p].id /\ target # newFile
    BY <1>0, <1>1 DEF AloneInv, Early, OpenNew
  <2>2. proc[p].id \in Int /\ target \in Int /\ newFile \in Int
    BY <1>0 DEF TypeOK, Process, Inodes
  <2>3. \E i : i # target /\ data' = [data EXCEPT ![i] = Empty]
    BY <1>1, <2>1, <2>2 DEF OpenNew
  <2> QED
    BY <1>0, <2>3 DEF Installed, TypeOK
<1>2. CASE WriteBlock(p)
  <2>1. proc[p].inode # target
    BY <1>0, <1>2 DEF AloneInv, WriteBlock
  <2>2. \/ data' = data
        \/ data' = [data EXCEPT ![proc[p].inode][proc[p].block] =
                                    Contents(proc[p].package)[proc[p].block]]
    BY <1>2 DEF WriteBlock
  <2> QED
    BY <1>0, <2>1, <2>2 DEF Installed, TypeOK
<1> QED
  BY <1>1, <1>2

(* The version is chosen: the one asked for, or one that is newer. *)
LEMMA NewerInfo ==
    ASSUME UpgradeInv, NewerInv, NEW p \in Upgrades, GetUpgradeInfo(p)
    PROVE  NewerInv'
<1>0. TypeOK /\ proc[p] \in Process /\ UNCHANGED <<files, runs, overlap>> /\ proc[p].pc = "info"
      /\ Running(p) /\ NewerFor(p) /\ proc[p].o \in OptionSet
  BY DEF UpgradeInv, TypeOK, PackageInv, NewerInv, GetUpgradeInfo, Running
<1>1. CASE End(p)
  BY <1>0, <1>1, NewerEnd
<1>2. ASSUME NEW v \in Versions, Decide(p, v), ~End(p)
      PROVE  NewerInv'
  <2>1. /\ proc' = [proc EXCEPT ![p].new = v, ![p].running = Initial, ![p].pc = "download"]
        /\ ~ (CompareVersion(v, proc[p].running) <= 0) \/ proc[p].o.version # <<>>
    BY <1>2 DEF Decide
  <2>2. /\ proc'[p].pc = "download" /\ proc'[p].new = v /\ proc'[p].o = proc[p].o
        /\ \A q \in Upgrades \ {p} : proc'[q] = proc[q]
    BY <1>0, <2>1 DEF TypeOK, Process
  <2>3. proc[p].running \in Versions /\ Versions \subseteq Seq({0, 1} \X Nat)
    BY <1>0, UpgradeAssumption DEF Process
  <2>4. ASSUME ~overlap, proc[p].o.version = <<>>
        PROVE  Older(VersionOf(Installed), v)
    <3>1. Installed = Image(proc[p].running)
      BY <1>0, <2>4 DEF NewerFor
    <3>2. VersionOf(Installed) = proc[p].running
      BY <3>1 DEF VersionOf, Image, Blocks
    <3>3. CompareVersion(v, proc[p].running) > 0
      <4>1. ~ (CompareVersion(v, proc[p].running) <= 0)
        BY <2>1, <2>4
      <4>2. CompareVersion(v, proc[p].running) \in Int
        BY DEF CompareVersion
      <4> QED
        BY <4>1, <4>2
    <3>4. Older(proc[p].running, v)
      BY <2>3, <3>3, NewerVersion
    <3> QED
      BY <3>2, <3>4
  <2>5. Installed' = Installed
    BY <1>0 DEF Installed, files
  <2>6. NewerFor(p)'
    BY <1>0, <2>2, <2>4, <2>5 DEF NewerFor
  <2> QED
    BY <1>0, <2>2, <2>6, NewerStep
<1>3. proc[p].o.version \in Versions \cup {<<>>}
  BY <1>0, UpgradeAssumption
<1> QED
  BY <1>1, <1>2, <1>3 DEF GetUpgradeInfo

(* The package that arrives is one of the version the upgrade is for. *)
LEMMA NewerDownload ==
    ASSUME UpgradeInv, NewerInv, NEW p \in Upgrades, Download(p) \/ CopyEnds(p) \/ WaitProgress(p)
    PROVE  NewerInv'
<1>0. /\ TypeOK /\ proc[p] \in Process /\ UNCHANGED <<files, runs, overlap>>
      /\ proc[p].pc \in {"download", "copy", "wait"} /\ Running(p)
  BY DEF UpgradeInv, TypeOK, Download, CopyEnds, WaitProgress, Running
<1>1. Installed' = Installed
  BY <1>0 DEF Installed, files
<1>2. CASE End(p)
  BY <1>0, <1>2, NewerEnd
<1>3. ASSUME NEW k \in Packages(proc[p].new),
             proc' = [proc EXCEPT ![p].package = k, ![p].pc = "extract", ![p].done = FALSE,
                                  ![p].copied = FALSE, ![p].progress = "none", ![p].url = 1]
      PROVE  NewerInv'
  <2>1. /\ \A q \in Upgrades \ {p} : proc'[q] = proc[q]
        /\ proc'[p].pc = "extract" /\ proc'[p].package = k
        /\ proc'[p].new = proc[p].new /\ proc'[p].o = proc[p].o
    BY <1>0, <1>3 DEF TypeOK, Process
  <2> QED
    BY <1>0, <1>1, <2>1, NewerOn
<1>4. ASSUME NextURL(p)
      PROVE  NewerInv'
  <2>1. CASE proc' = [proc EXCEPT ![p].url = @ + 1, ![p].pc = "download",
                                  ![p].progress = "none", ![p].done = FALSE]
    <3>1. /\ \A q \in Upgrades \ {p} : proc'[q] = proc[q]
          /\ proc'[p].pc = "download" /\ proc'[p].new = proc[p].new /\ proc'[p].o = proc[p].o
      BY <1>0, <2>1 DEF TypeOK, Process
    <3> QED
      BY <1>0, <1>1, <3>1, NewerOn
  <2> QED
    BY <1>2, <1>4, <2>1 DEF NextURL
<1>5. ASSUME NEW g, proc' = [proc EXCEPT ![p].progress = g, ![p].pc = "copy"]
      PROVE  NewerInv'
  <2>1. /\ \A q \in Upgrades \ {p} : proc'[q] = proc[q]
        /\ proc'[p].pc = "copy" /\ proc'[p].new = proc[p].new /\ proc'[p].o = proc[p].o
    BY <1>0, <1>5 DEF TypeOK, Process
  <2> QED
    BY <1>0, <1>1, <2>1, NewerOn
<1>6. ASSUME NEW ok, proc' = [proc EXCEPT ![p].pc = "wait", ![p].done = TRUE, ![p].copied = ok]
      PROVE  NewerInv'
  <2>1. /\ \A q \in Upgrades \ {p} : proc'[q] = proc[q]
        /\ proc'[p].pc = "wait" /\ proc'[p].new = proc[p].new /\ proc'[p].o = proc[p].o
    BY <1>0, <1>6 DEF TypeOK, Process
  <2> QED
    BY <1>0, <1>1, <2>1, NewerOn
<1> QED
  BY <1>3, <1>4, <1>5, <1>6 DEF Download, CopyEnds, WaitProgress

(* The package stays the same until it is installed. *)
LEMMA NewerInstall ==
    ASSUME UpgradeInv, NewerInv, NEW p \in Upgrades,
           ExtractAndVerify(p) \/ AskUser(p) \/ OpenNew(p) \/ WriteBlock(p)
    PROVE  NewerInv'
<1>0. /\ TypeOK /\ proc[p] \in Process /\ overlap' = overlap /\ NewerFor(p) /\ Running(p)
      /\ proc[p].pc \in {"extract", "ask", "open", "write"}
  BY DEF UpgradeInv, TypeOK, NewerInv, Running, ExtractAndVerify, AskUser, OpenNew, WriteBlock
<1>1. ~overlap => Installed' = Installed
  <2>1. CASE ExtractAndVerify(p) \/ AskUser(p)
    BY <2>1 DEF ExtractAndVerify, AskUser, Installed, files
  <2>2. CASE OpenNew(p) \/ WriteBlock(p)
    BY <2>2, InstalledKept
  <2> QED
    BY <2>1, <2>2
<1>2. CASE End(p)
  BY <1>0, <1>2, NewerEnd
<1>3. CASE ~End(p)
  <2>1. /\ \A q \in Upgrades \ {p} : proc'[q] = proc[q]
        /\ proc'[p].pc \in {"ask", "open", "write", "rename"}
        /\ proc'[p].new = proc[p].new /\ proc'[p].o = proc[p].o
        /\ proc'[p].package = proc[p].package
    <3>1. CASE ExtractAndVerify(p)
      <4>1. \E x \in {"ask", "open"} : proc' = [proc EXCEPT ![p].pc = x]
        BY <1>3, <3>1 DEF ExtractAndVerify
      <4> QED
        BY <1>0, <4>1 DEF TypeOK, Process
    <3>2. CASE AskUser(p)
      <4>1. proc' = [proc EXCEPT ![p].pc = "open", ![p].consent = TRUE]
        BY <1>3, <3>2 DEF AskUser
      <4> QED
        BY <1>0, <4>1 DEF TypeOK, Process
    <3>3. CASE OpenNew(p)
      <4>1. \/ \E i : proc' = [proc EXCEPT ![p].inode = i, ![p].pc = "write"]
            \/ \E i : proc' = [proc EXCEPT ![p].inode = i, ![p].tmp = TRUE, ![p].pc = "write"]
        BY <3>3 DEF OpenNew
      <4>2. CASE \E i : proc' = [proc EXCEPT ![p].inode = i, ![p].pc = "write"]
        BY <1>0, <4>2 DEF TypeOK, Process
      <4>3. CASE \E i : proc' = [proc EXCEPT ![p].inode = i, ![p].tmp = TRUE, ![p].pc = "write"]
        BY <1>0, <4>3 DEF TypeOK, Process
      <4> QED
        BY <4>1, <4>2, <4>3
    <3>4. CASE WriteBlock(p)
      <4>1. \E x \in {"write", "rename"} : \E b : proc' = [proc EXCEPT ![p].block = b, ![p].pc = x]
        BY <1>3, <3>4 DEF WriteBlock
      <4> QED
        BY <1>0, <4>1 DEF TypeOK, Process
    <3> QED
      BY <3>1, <3>2, <3>3, <3>4
  <2>2. proc[p].package \in Packages(proc[p].new) \/ proc[p].pc \notin {"extract", "ask", "open", "write"}
    BY <1>0 DEF NewerFor
  <2> QED
    BY <1>0, <1>1, <2>1, <2>2, NewerOn
<1> QED
  BY <1>2, <1>3

(* Every step keeps the version an upgrade is for newer than what it replaces. *)
LEMMA NewerNext == UpgradeInv /\ NewerInv /\ [Next]_vars => NewerInv'
<1> SUFFICES ASSUME UpgradeInv, NewerInv, [Next]_vars
             PROVE  NewerInv'
  OBVIOUS
<1>0. TypeOK
  BY DEF UpgradeInv
<1>1. CASE UNCHANGED vars
  BY <1>1 DEF vars, files, NewerInv, NewerFor, Installed
<1>2. ASSUME NEW p \in Upgrades, NEW o \in OptionSet, Begin(p, o)
      PROVE  NewerInv'
  <2>1. UNCHANGED files /\ ~overlap' => ~overlap /\ \A q \in Upgrades : ~Running(q)
    BY <1>2, Zenon DEF Begin
  <2>2. PICK v \in Versions :
          /\ Installed = Image(v)
          /\ proc' = [proc EXCEPT ![p] = [Idle EXCEPT !.pc = "info", !.id = runs', !.o = o,
                                                      !.running = v]]
    BY <1>2 DEF Begin
  <2>3. /\ proc'[p].pc = "info" /\ proc'[p].running = v
        /\ \A q \in Upgrades \ {p} : proc'[q] = proc[q]
    BY <1>0, <2>2 DEF TypeOK, Idle
  <2>4. Installed' = Installed /\ UNCHANGED files
    BY <1>2 DEF Begin, Installed, files
  <2>5. \A q \in Upgrades : NewerFor(q)
    BY DEF NewerInv
  <2>6. NewerFor(p)'
    BY <2>2, <2>3, <2>4 DEF NewerFor
  <2>7. ASSUME NEW q \in Upgrades, q # p
        PROVE  NewerFor(q)'
    <3>1. proc'[q] = proc[q] /\ (~overlap' => proc[q].pc = "idle")
      BY <2>1, <2>3, <2>4, <2>7 DEF Running
    <3> QED
      BY <2>5, <3>1 DEF NewerFor
  <2> QED
    BY <2>6, <2>7 DEF NewerInv
<1>3. ASSUME NEW p \in Upgrades, Step(p)
      PROVE  NewerInv'
  <2>1. ASSUME Rename(p)
        PROVE  NewerInv'
    BY <2>1, NewerEnd DEF Rename, Running
  <2> QED
    BY <1>3, <2>1, NewerInfo, NewerDownload, NewerInstall DEF Step
<1>4. ASSUME NEW p \in Upgrades, ShowProgress(p) \/ StatFails(p)
      PROVE  NewerInv'
  <2>1. \A q \in Upgrades : proc[q] \in Process
    BY <1>0 DEF TypeOK
  <2>2. \A q \in Upgrades :
            /\ proc'[q].pc = proc[q].pc /\ proc'[q].new = proc[q].new /\ proc'[q].o = proc[q].o
            /\ proc'[q].package = proc[q].package /\ proc'[q].running = proc[q].running
    <3>1. CASE ShowProgress(p)
      <4>1. proc' = [proc EXCEPT ![p].progress = "ended", ![p].done = FALSE]
        BY <3>1 DEF ShowProgress
      <4> QED
        BY <1>0, <2>1, <4>1 DEF TypeOK, Process
    <3>2. CASE StatFails(p)
      <4>1. proc' = [proc EXCEPT ![p].progress = "ended"]
        BY <3>2 DEF StatFails
      <4> QED
        BY <1>0, <2>1, <4>1 DEF TypeOK, Process
    <3> QED
      BY <1>4, <3>1, <3>2
  <2>3. Installed' = Installed /\ overlap' = overlap
    BY <1>4 DEF ShowProgress, StatFails, Installed, files
  <2> QED
    BY <2>2, <2>3 DEF NewerInv, NewerFor
<1>5. ASSUME NEW p \in Upgrades, Kill(p)
      PROVE  NewerInv'
  BY <1>5, NewerEnd DEF Kill
<1> QED
  BY <1>1, <1>2, <1>3, <1>4, <1>5 DEF Next

(* Nobody gets an older version, or the same one again, without asking for it, if  *)
(* the package at the address of a version holds that version.                     *)
THEOREM NeverDowngrades ==
    ASSUME PackagesOfVersion
    PROVE  Spec => NoSilentDowngrade
<1> DEFINE Good == ~overlap /\ target' # target =>
                      \E p \in Upgrades :
                          /\ proc[p].pc = "rename"
                          /\ \/ Older(VersionOf(Installed), VersionOf(data'[target']))
                             \/ proc[p].o.version # <<>>
<1>1. UpgradeInv /\ NewerInv /\ [Next]_vars => [Good]_vars
  <2> SUFFICES ASSUME UpgradeInv, NewerInv, Next, ~overlap, target' # target
               PROVE  \E p \in Upgrades :
                          /\ proc[p].pc = "rename"
                          /\ \/ Older(VersionOf(Installed), VersionOf(data'[target']))
                             \/ proc[p].o.version # <<>>
    OBVIOUS
  <2>1. PICK p \in Upgrades : Rename(p)
    BY OnlyRename
  <2> DEFINE k == proc[p].package
  <2>2. Checked(k) /\ data'[target'] = Contents(k) /\ proc[p].pc = "rename"
    BY <2>1, RenameFacts DEF Rename
  <2>3. PICK i \in DOMAIN k : k[i].kind = "bin" /\ Contents(k) = Image(k[i].v)
    BY <2>2 DEF Checked
  <2>4. k \in Packages(proc[p].new) /\ proc[p].new \in Versions
    BY <2>2 DEF NewerInv, NewerFor, UpgradeInv, TypeOK, Process
  <2>5. VersionOf(data'[target']) = proc[p].new
    <3>1. k[i].v = proc[p].new
      BY <2>3, <2>4 DEF PackagesOfVersion
    <3> QED
      BY <2>2, <2>3, <3>1 DEF VersionOf, Image, Blocks
  <2>6. proc[p].o.version = <<>> => Older(VersionOf(Installed), proc[p].new)
    BY <2>2 DEF NewerInv, NewerFor
  <2> QED
    BY <2>2, <2>5, <2>6
<1>2. Init => NewerInv
  <2>1. Idle.pc = "idle"
    BY DEF Idle
  <2> QED
    BY <2>1 DEF Init, NewerInv, NewerFor
<1> QED
  BY Invariant, NewerNext, <1>1, <1>2, PTL DEF Spec, NoSilentDowngrade
=============================================================================
