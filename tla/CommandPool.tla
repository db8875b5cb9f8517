---------------------------- MODULE CommandPool -----------------------------
(***************************************************************************)
(* `git repo forall` and `git repo status`: RunCommand of cmd/forall.go    *)
(* and cmd/status.go, with project/status.go.                              *)
(*                                                                         *)
(* A feeder sends the indices of the projects, `jobs` workers run the      *)
(* command in a project or examine it, and the main goroutine collects one *)
(* result per project.  forall hands the project over to the command in    *)
(* environment variables of the whole process; status runs three git       *)
(* commands in a row and combines what they print.                         *)
(*                                                                         *)
(* Paths of files are numbers: only their order matters.                   *)
(***************************************************************************)
EXTENDS Sorting

CONSTANTS N,          \* number of projects in the workspace
          MaxJobs,    \* bound on --jobs
          Patterns,   \* the projects a pattern of --regex matches
          Arguments,  \* the projects named to status, {} for all
          Missing,    \* the projects that may have no worktree
          Worktrees,  \* what status may find in a project
          MaxFaults,  \* bound on the git commands that fail
          MaxEdits    \* bound on what users change during the command

Projects == 1..N
Workers  == 1..MaxJobs

ASSUME CommandAssumption ==
    /\ N \in Nat \ {0} /\ MaxJobs \in Nat \ {0}
    /\ MaxFaults \in Nat /\ MaxEdits \in Nat
    /\ \A m \in Patterns \cup Arguments \cup Missing : m \subseteq Projects

VARIABLES cmd,         \* "forall" or "status"
          jobs,        \* number of workers
          projects,    \* the projects selected, in order
          missing,     \* projects that have no worktree
          worktree,    \* the worktree of each project
          jobTasks,    \* buffered channel of indices
          fed,         \* how many indices have been sent
          tasksClosed, \* jobTasks has been closed
          jobResults,  \* buffered channel of results
          worker,      \* the workers
          env,         \* REPO_PROJECT, REPO_PATH and REPO_REMOTE: whose they are
          ran,         \* the environment of each command that was run
          received,    \* the results the main goroutine has collected
          faults,      \* git commands that failed, and what they said on stderr
          edits,       \* changes by users
          result       \* "none" until RunCommand returns

settings == <<cmd, jobs, projects, missing>>
feeder   == <<jobTasks, fed, tasksClosed>>
history  == <<faults, edits>>
vars == <<settings, worktree, feeder, jobResults, worker, env, ran, received, history, result>>

-----------------------------------------------------------------------------
(* The projects. *)

\* forall: patterns that do not compile are skipped, and with none left every
\* project is selected.  A project matches when one of the patterns does.
Filter(patterns, inverse) ==
    IF patterns = {} THEN Projects
    ELSE {p \in Projects : inverse # (\E m \in patterns : p \in m)}

\* What the git commands printed stands for what Status makes of it.
Result(p, di, df, do, error) == [p |-> p, di |-> di, df |-> df, do |-> do, error |-> error]
NoResult == Result(0, <<>>, <<>>, <<>>, "nil")

\* A worker: where it is, in which project, what git has printed, and its result
State(pc, p, di, df, r) == [pc |-> pc, p |-> p, di |-> di, df |-> df, r |-> r]
Idle == State("range", 0, <<>>, <<>>, NoResult)

Init ==
    /\ jobs \in Workers
    /\ \/ /\ cmd = "forall"
          /\ \E ms \in SUBSET Patterns, inverse \in BOOLEAN :
                projects = SortedSeq(Filter(ms, inverse))
          /\ worktree = [p \in Projects |-> CHOOSE t \in Worktrees : TRUE]
       \/ /\ cmd = "status"
          /\ \E ps \in Arguments : projects = SortedSeq(IF ps = {} THEN Projects ELSE ps)
          /\ worktree \in [Projects -> Worktrees]
          /\ \A p \in Projects \ ToSet(projects) : worktree[p] = CHOOSE t \in Worktrees : TRUE
    /\ missing \in Missing
    /\ jobTasks = <<>> /\ fed = 0 /\ tasksClosed = FALSE
    /\ jobResults = <<>>
    /\ worker = [w \in Workers |-> IF w <= jobs THEN Idle
                                    ELSE State("exit", 0, <<>>, <<>>, NoResult)]
    /\ env = [k \in 1..3 |-> 0]
    /\ ran = [p \in Projects |-> <<>>]
    /\ received = <<>>
    /\ faults = {} /\ edits = 0
    /\ result = "none"

-----------------------------------------------------------------------------
(* The pool. *)

\* The feeder sends the next index; a send waits while the channel is full.
Feed ==
    /\ fed < Len(projects)
    /\ Len(jobTasks) < jobs
    /\ fed' = fed + 1
    /\ jobTasks' = Append(jobTasks, projects[fed'])
    /\ UNCHANGED <<settings, worktree, tasksClosed, jobResults, worker, env, ran, received,
                   history, result>>

CloseTasks ==
    /\ fed = Len(projects) /\ ~tasksClosed
    /\ tasksClosed' = TRUE
    /\ UNCHANGED <<settings, worktree, jobTasks, fed, jobResults, worker, env, ran, received,
                   history, result>>

Goto(w, pc) == worker' = [worker EXCEPT ![w].pc = pc]
Answer(w, do, error) ==
    LET q == worker[w]
    IN  worker' = [worker EXCEPT ![w] = State("send", q.p, q.di, q.df,
                                              Result(q.p, q.di, q.df, do, error))]

\* A worker takes an index and looks for the worktree: forall skips a project
\* without one, status reports it.
TakeTask(w) ==
    /\ worker[w].pc = "range" /\ jobTasks # <<>>
    /\ jobTasks' = Tail(jobTasks)
    /\ LET p == Head(jobTasks)
       IN  worker' = [worker EXCEPT ![w] =
              IF p \notin missing
              THEN State(IF cmd = "forall" THEN "env1" ELSE "rebase", p, <<>>, <<>>, NoResult)
              ELSE State("send", p, <<>>, <<>>, Result(p, <<>>, <<>>, <<>>,
                                                 IF cmd = "forall" THEN "nil" ELSE "missing"))]
    /\ UNCHANGED <<settings, worktree, fed, tasksClosed, jobResults, env, ran, received,
                   history, result>>

\* Variant of SendResult: nothing is sent for a project that was skipped.
SendSome(w) ==
    /\ worker[w].pc = "send" /\ Len(jobResults) < jobs
    /\ jobResults' = IF worker[w].r.error = "nil" THEN jobResults ELSE Append(jobResults, worker[w].r)
    /\ worker' = [worker EXCEPT ![w] = Idle]
    /\ UNCHANGED <<settings, worktree, feeder, env, ran, received, history, result>>

\* A result is sent for every index, nil for a project that was skipped.
SendResult(w) ==
    /\ worker[w].pc = "send" /\ Len(jobResults) < jobs
    /\ jobResults' = Append(jobResults, worker[w].r)
    /\ worker' = [worker EXCEPT ![w] = Idle]
    /\ UNCHANGED <<settings, worktree, feeder, env, ran, received, history, result>>

WorkerExit(w) ==
    /\ worker[w].pc = "range" /\ jobTasks = <<>> /\ tasksClosed
    /\ Goto(w, "exit")
    /\ UNCHANGED <<settings, worktree, feeder, jobResults, env, ran, received, history, result>>

\* Variant of Collect: as many results as there are workers are awaited.
CollectJobs ==
    /\ result = "none"
    /\ \/ /\ Len(received) < jobs
          /\ jobResults # <<>>
          /\ received' = Append(received, Head(jobResults))
          /\ jobResults' = Tail(jobResults)
          /\ UNCHANGED result
       \/ /\ Len(received) = jobs
          /\ result' = "nil"
          /\ UNCHANGED <<received, jobResults>>
    /\ UNCHANGED <<settings, worktree, feeder, worker, env, ran, history>>

\* The main goroutine collects a result for each project, and returns nil
\* whatever they say.
Collect ==
    /\ result = "none"
    /\ \/ /\ Len(received) < Len(projects)
          /\ jobResults # <<>>
          /\ received' = Append(received, Head(jobResults))
          /\ jobResults' = Tail(jobResults)
          /\ UNCHANGED result
       \/ /\ Len(received) = Len(projects)
          /\ result' = "nil"
          /\ UNCHANGED <<received, jobResults>>
    /\ UNCHANGED <<settings, worktree, feeder, worker, env, ran, history>>

-----------------------------------------------------------------------------
(* forall: the environment, and the command. *)

EnvStep == [env1 |-> 1, env2 |-> 2, env3 |-> 3]
NextEnv == [env1 |-> "env2", env2 |-> "env3", env3 |-> "run"]

\* os.Setenv, one variable after the other
SetEnv(w) ==
    /\ worker[w].pc \in DOMAIN EnvStep
    /\ env' = [env EXCEPT ![EnvStep[worker[w].pc]] = worker[w].p]
    /\ Goto(w, NextEnv[worker[w].pc])
    /\ UNCHANGED <<settings, worktree, feeder, jobResults, ran, received, history, result>>

\* The command starts with the environment as it is, and prints or fails.
ExecuteCommand(w) ==
    /\ worker[w].pc = "run"
    /\ ran' = [ran EXCEPT ![worker[w].p] = Append(@, env)]
    /\ Answer(w, <<>>, "none")
    /\ UNCHANGED <<settings, worktree, feeder, jobResults, env, received, history, result>>

-----------------------------------------------------------------------------
(* status: what git prints, and what is made of it. *)

Entry(mode, src, path) == [mode |-> mode, src |-> src, path |-> path]
Token(mode, path) == [mode |-> mode, path |-> path]

\* The letters of git diff, and those that come with two paths
Modes    == {"A", "C", "D", "M", "R", "T", "U"}
TwoPaths == {"C", "R"}

\* An entry of git diff-index -z or diff-files -z: a mode, then one path or, for a
\* copy or a rename, two.
TokensOf(e) ==
    IF e.mode \in TwoPaths
    THEN <<Token(e.mode, 0), Token("path", e.src), Token("path", e.path)>>
    ELSE <<Token(e.mode, 0), Token("path", e.path)>>

Encode(entries) ==
    LET from[i \in 1..Len(entries) + 1] ==
            IF i > Len(entries) THEN <<>> ELSE TokensOf(entries[i]) \o from[i + 1]
    IN  from[1]

\* The number of tokens of an entry, by its mode; and a variant that has one path
\* for each.
TokensOfOne(mode) == 2
Tokens(mode) == IF mode \in TwoPaths THEN 3 ELSE 2

\* The entry whose mode is token i
EntryAt(out, i) ==
    LET n == Tokens(out[i].mode)
    IN  Entry(out[i].mode, IF n = 3 THEN out[i + 1].path ELSE 0, out[i + n - 1].path)

\* parseGitStatus: it stops where no mode is, and forgets an entry that is cut off.
parseGitStatus(out) ==
    LET end == Len(out) + 1
        from[i \in 1..end] ==
            IF i = end \/ out[i].mode = "path" \/ i + Tokens(out[i].mode) > end THEN <<>>
            ELSE <<EntryAt(out, i)>> \o from[i + Tokens(out[i].mode)]
    IN  from[1]

\* combineGitStatus: one line per path of the index and the files, then one per
\* untracked path, in the order of the paths.
PathsOf(entries) == [i \in DOMAIN entries |-> entries[i].path]
ModeOf(entries, p) ==
    LET at == {i \in DOMAIN entries : entries[i].path = p}
    IN  IF at = {} THEN Entry("-", 0, p) ELSE entries[Max(at)]

\* The keys, before they are sorted: fresh are the entries that only stf has.
Keys(sti, stf, sto) ==
    LET fresh == SetToSeq({k \in DOMAIN stf : stf[k].path \notin ToSet(PathsOf(sti))})
    IN  PathsOf(sti) \o [k \in DOMAIN fresh |-> stf[fresh[k]].path] \o sto

combineGitStatus(sti, stf, sto) ==
    LET line(p) == [i |-> ModeOf(sti, p).mode, f |-> ModeOf(stf, p).mode,
                    src |-> ModeOf(sti, p).src, path |-> p]
        sorted == Sorted(Keys(sti, stf, sto))
    IN  [k \in DOMAIN sorted |-> line(sorted[k])]

\* What is in a worktree, as git reports it: each list has a path once, but
\* diff-files has an unmerged path, which diff-index has too, as U and again as
\* what became of its file; and an untracked path is in no other list, unless it
\* was only deleted from the index.
Entries == {e \in [mode : Modes, src : Nat, path : Nat] : e.mode \notin TwoPaths => e.src = 0}
Deleted(t) == {t.staged[i].path : i \in {j \in DOMAIN t.staged : t.staged[j].mode = "D"}}
Changed(t) == ToSet(PathsOf(t.staged)) \cup ToSet(PathsOf(t.unstaged)) \cup ToSet(t.others)
Unmerged(t, path) == \E i \in DOMAIN t.staged : t.staged[i] = Entry("U", 0, path)

ASSUME WorktreeAssumption ==
    /\ Worktrees # {}
    /\ \A t \in Worktrees :
          /\ t.staged \in Seq(Entries) /\ t.unstaged \in Seq(Entries) /\ t.others \in Seq(Nat)
          /\ t.rebasing \in BOOLEAN
          /\ IsInjective(PathsOf(t.staged)) /\ IsInjective(t.others)
          /\ \A i, j \in DOMAIN t.unstaged :
                i < j /\ t.unstaged[i].path = t.unstaged[j].path =>
                    t.unstaged[i].mode = "U" /\ Unmerged(t, t.unstaged[j].path)
          /\ ToSet(t.others) \cap ToSet(PathsOf(t.unstaged)) = {}
          /\ ToSet(t.others) \cap ToSet(PathsOf(t.staged)) \subseteq Deleted(t)

Lines(r) == combineGitStatus(parseGitStatus(r.di), parseGitStatus(r.df), r.do)

\* CmdExecResult.Empty goes by the text of an error, and a silent one has none; a
\* nil result is skipped
Empty(r) == Lines(r) = <<>> /\ r.error \in {"none", "nil", "silent"}

\* The note that there is nothing to commit
isClean == result = "nil" /\ \A i \in DOMAIN received : Empty(received[i])

\* A stopped rebase is an error.
StatusRebase(w) ==
    /\ worker[w].pc = "rebase"
    /\ IF worktree[worker[w].p].rebasing THEN Answer(w, <<>>, "rebase")
                                         ELSE Goto(w, "diffIndex")
    /\ UNCHANGED <<settings, worktree, feeder, jobResults, env, ran, received, history, result>>

\* A git command prints all, or fails and prints nothing: with a message on
\* stderr, or without one, when it was killed.
Texts == {"message", "nothing"}
Runs(w, name, tokens, out) ==
    \/ out = tokens /\ UNCHANGED faults
    \/ /\ out = <<>> /\ Cardinality(faults) < MaxFaults
       /\ \E text \in Texts : faults' = faults \cup {<<worker[w].p, name, text>>}

DiffIndex(w) ==
    LET tokens == Encode(worktree[worker[w].p].staged)
    IN  /\ worker[w].pc = "diffIndex"
        /\ \E out \in {tokens, <<>>} :
              /\ Runs(w, "diff", tokens, out)
              /\ worker' = [worker EXCEPT ![w] = State("diffFiles", worker[w].p, out, <<>>, NoResult)]
        /\ UNCHANGED <<settings, worktree, feeder, jobResults, env, ran, received, edits, result>>

DiffFiles(w) ==
    LET tokens == Encode(worktree[worker[w].p].unstaged)
    IN  /\ worker[w].pc = "diffFiles"
        /\ \E out \in {tokens, <<>>} :
              /\ Runs(w, "diff", tokens, out)
              /\ worker' = [worker EXCEPT ![w] = State("others", worker[w].p, worker[w].di, out,
                                                       NoResult)]
        /\ UNCHANGED <<settings, worktree, feeder, jobResults, env, ran, received, edits, result>>

\* The error of Status: that of diff-index and diff-files, never of ls-files; and
\* none if nothing was printed, on stderr either.
StatusError(p, quiet, fs) ==
    IF <<p, "diff", "message">> \in fs THEN "failed"
    ELSE IF <<p, "diff", "nothing">> \notin fs THEN "none"
    ELSE IF quiet /\ <<p, "others", "message">> \notin fs THEN "none" ELSE "silent"

\* ls-files, and the result.
ListOthers(w) ==
    LET names == worktree[worker[w].p].others
    IN  /\ worker[w].pc = "others"
        /\ \E out \in {names, <<>>} :
              /\ Runs(w, "others", names, out)
              /\ Answer(w, out, StatusError(worker[w].p,
                                   <<worker[w].di, worker[w].df, out>> = <<<<>>, <<>>, <<>>>>,
                                   faults'))
        /\ UNCHANGED <<settings, worktree, feeder, jobResults, env, ran, received, edits, result>>

\* A user changes a worktree while status looks at it.
UserEdits(p) ==
    /\ p \in ToSet(projects) /\ cmd = "status" /\ result = "none" /\ edits < MaxEdits
    /\ \E t \in Worktrees \ {worktree[p]} : worktree' = [worktree EXCEPT ![p] = t]
    /\ edits' = edits + 1
    /\ UNCHANGED <<settings, feeder, jobResults, worker, env, ran, received, faults, result>>

-----------------------------------------------------------------------------
\* A step of a worker.
Work(w) ==
    \/ TakeTask(w) \/ SendResult(w) \/ WorkerExit(w)
    \/ SetEnv(w) \/ ExecuteCommand(w)
    \/ StatusRebase(w) \/ DiffIndex(w) \/ DiffFiles(w) \/ ListOthers(w)

Next ==
    \/ Feed \/ CloseTasks \/ Collect
    \/ \E w \in Workers : Work(w)
    \/ \E p \in Projects : UserEdits(p)

\* Go runs every goroutine that can go on, and the commands end.
Spec ==
    /\ Init /\ [][Next]_vars
    /\ WF_vars(Feed) /\ WF_vars(CloseTasks) /\ WF_vars(Collect)
    /\ \A w \in Workers : WF_vars(Work(w))

-----------------------------------------------------------------------------
(* Properties. *)

Selection == ToSet(projects)
Reported(p) == {i \in DOMAIN received : received[i].p = p}

\* Type correctness, the channels within their capacity.
Outputs == Seq([mode : Modes \cup {"path"}, path : Nat])
Results == [p : Projects \cup {0}, di : Outputs, df : Outputs, do : Seq(Nat),
            error : {"nil", "none", "missing", "rebase", "failed", "silent"}]
ForallSteps == {"env1", "env2", "env3", "run"}
StatusSteps == {"rebase", "diffIndex", "diffFiles", "others"}
WorkerStates == [pc : ForallSteps \cup StatusSteps \cup {"range", "send", "exit"},
                 p : Projects \cup {0}, di : Outputs, df : Outputs, r : Results]
TypeOK ==
    /\ cmd \in {"forall", "status"} /\ jobs \in Workers
    /\ projects \in Seq(Projects) /\ IsInjective(projects)
    /\ missing \subseteq Projects /\ worktree \in [Projects -> Worktrees]
    /\ jobTasks \in Seq(Projects) /\ Len(jobTasks) <= jobs
    /\ fed \in 0..Len(projects) /\ tasksClosed \in BOOLEAN
    /\ jobResults \in Seq(Results) /\ Len(jobResults) <= jobs
    /\ worker \in [Workers -> WorkerStates]
    /\ env \in [1..3 -> Projects \cup {0}]
    /\ ran \in [Projects -> Seq([1..3 -> Projects \cup {0}])]
    /\ received \in Seq(Results)
    /\ faults \subseteq Projects \X {"diff", "others"} \X Texts /\ edits \in 0..MaxEdits
    /\ result \in {"none", "nil"}

\* forall: when it returns, the command has run exactly once in each selected
\* project that is there, and nowhere else, and each has been reported.  With one
\* job it has seen the name, the path and the remote of its own project; with
\* more they may be another's, for os.Setenv is for the whole process.
RunOnce ==
    result = "nil" =>
        /\ \A p \in Selection : Cardinality(Reported(p)) = 1
        /\ cmd = "forall" =>
              \A p \in Projects :
                  /\ Len(ran[p]) = IF p \in Selection \ missing THEN 1 ELSE 0
                  /\ jobs = 1 => \A i \in DOMAIN ran[p] : ran[p][i] = [k \in 1..3 |-> p]

\* The lines of a project are its paths with a change, in order, renames with both
\* paths, each path once; only one deleted from the index that is still there is
\* printed twice.  A line has the change to the index, and the last to the file.
Says(lines, t) ==
    LET count(x) == Cardinality({k \in DOMAIN lines : lines[k].path = x})
        last(j) == \A i \in DOMAIN t.unstaged : t.unstaged[i].path = t.unstaged[j].path => i <= j
    IN  /\ \A x \in Changed(t) : count(x) = IF x \in Deleted(t) \cap ToSet(t.others) THEN 2 ELSE 1
        /\ {lines[k].path : k \in DOMAIN lines} = Changed(t)
        /\ \A k \in 1..Len(lines) - 1 : lines[k].path <= lines[k + 1].path
        /\ \A j \in DOMAIN t.staged : \E k \in DOMAIN lines :
              /\ lines[k].path = t.staged[j].path
              /\ lines[k].i = t.staged[j].mode /\ lines[k].src = t.staged[j].src
        /\ \A j \in DOMAIN t.unstaged : last(j) => \E k \in DOMAIN lines :
              lines[k].path = t.unstaged[j].path /\ lines[k].f = t.unstaged[j].mode

\* A git command has failed in p and nobody was told: the error of ls-files is
\* dropped, and one without a message is no error to Empty.
Unheard(p) == \E f \in faults : f[1] = p /\ (f[2] = "others" \/ f[3] = "nothing")

LinesMean ==
    \A i \in DOMAIN received :
        LET r == received[i]
        IN  r.error = "none" /\ ~Unheard(r.p) => Says(Lines(r), worktree[r.p])

\* Nothing is to be said of p: it is there, has no change and no stopped rebase, and
\* no git command has complained.
Quiet(p) ==
    /\ p \notin missing /\ ~worktree[p].rebasing /\ Changed(worktree[p]) = {}
    /\ <<p, "diff", "message">> \notin faults

\* The note that there is nothing to commit is printed when all projects are quiet,
\* and otherwise only when git has failed unheard in those that are not.
NoteMeans ==
    /\ (\A p \in Selection : Quiet(p)) => isClean
    /\ isClean => \A p \in Selection : Quiet(p) \/ Unheard(p)

\* What status prints, line by line and in its note, is what is in the worktrees,
\* if nobody changes them meanwhile.
StatusMeans ==
    cmd = "status" /\ result = "nil" /\ edits = 0 => LinesMean /\ NoteMeans

\* RunCommand returns: no goroutine waits for ever on a channel.
Returns == <>(result = "nil")

-----------------------------------------------------------------------------
(* Why: an inductive invariant. *)

\* The indices that workers have taken off the channel
taken == fed - Len(jobTasks)
Taken == {projects[i] : i \in 1..taken}
Held  == {worker[w].p : w \in Workers} \ {0}

\* The results, collected or still in their channel
Answers  == received \o jobResults
Answered == {Answers[i].p : i \in DOMAIN Answers}

\* A worker that is on its way has a project, no other has the same, and only the
\* steps of its command are open to it.
WorkerInv ==
    /\ \A w \in Workers :
          /\ worker[w].p = 0 <=> worker[w].pc \in {"range", "exit"}
          /\ worker[w].pc = "send" => worker[w].r.p = worker[w].p
          /\ worker[w].pc \in ForallSteps => cmd = "forall" /\ worker[w].p \notin missing
          /\ worker[w].pc \in StatusSteps => cmd = "status" /\ worker[w].p \notin missing
          /\ w > jobs => worker[w].pc = "exit"
    /\ \A v, w \in Workers : worker[v].p = worker[w].p /\ worker[v].p # 0 => v = w

\* What was taken is with one worker, or answered once.
PoolInv ==
    /\ taken \in 0..fed
    /\ \A i \in DOMAIN jobTasks : jobTasks[i] = projects[taken + i]
    /\ Taken = Held \cup Answered /\ Held \cap Answered = {}
    /\ \A i, j \in DOMAIN Answers : Answers[i].p = Answers[j].p => i = j
    /\ result = "nil" => Len(received) = Len(projects)

\* The command has run in the projects that were there and are done.
Done == Answered \cup {worker[w].p : w \in {v \in Workers : worker[v].pc = "send"}}
RanInv ==
    cmd = "forall" =>
        \A p \in Projects : Len(ran[p]) = IF p \in Done \ missing THEN 1 ELSE 0

\* With one job, the environment is that of the project at hand.
EnvInv ==
    jobs = 1 =>
        /\ \A w \in Workers :
              /\ worker[w].pc \in {"env2", "env3", "run"} => env[1] = worker[w].p
              /\ worker[w].pc \in {"env3", "run"} => env[2] = worker[w].p
              /\ worker[w].pc = "run" => env[3] = worker[w].p
        /\ \A p \in Projects : \A i \in DOMAIN ran[p] : ran[p][i] = [k \in 1..3 |-> p]

\* A command that has not failed has printed all.
Failed(p, name, fs) == \E text \in Texts : <<p, name, text>> \in fs
Printed(out, tokens, failed) == out = tokens \/ (out = <<>> /\ failed)

\* A result says what is in a worktree t, as far as git could tell; gone and fs are
\* missing and faults.
Faithful(r, t, gone, fs) ==
    \/ r.error = "missing" /\ r.p \in gone
    \/ r.error = "rebase" /\ r.p \notin gone /\ t.rebasing
    \/ /\ r.error = StatusError(r.p, <<r.di, r.df, r.do>> = <<<<>>, <<>>, <<>>>>, fs)
       /\ r.p \notin gone /\ ~t.rebasing
       /\ Printed(r.di, Encode(t.staged), Failed(r.p, "diff", fs))
       /\ Printed(r.df, Encode(t.unstaged), Failed(r.p, "diff", fs))
       /\ Printed(r.do, t.others, Failed(r.p, "others", fs))

\* And what a worker has seen of it so far
Partial(s, t, gone, fs) ==
    /\ s.pc \in {"diffIndex", "diffFiles", "others"} => ~t.rebasing
    /\ s.pc \in StatusSteps => ~Failed(s.p, "others", fs)
    /\ s.pc \in {"rebase", "diffIndex"} => ~Failed(s.p, "diff", fs)
    /\ s.pc \in {"diffFiles", "others"} =>
          Printed(s.di, Encode(t.staged), Failed(s.p, "diff", fs))
    /\ s.pc = "others" => Printed(s.df, Encode(t.unstaged), Failed(s.p, "diff", fs))
    /\ s.pc = "send" => Faithful(s.r, t, gone, fs)

StatusInv ==
    cmd = "status" =>
        /\ \A f \in faults : f[1] \in Taken
        /\ edits = 0 =>
              /\ \A w \in Workers : Partial(worker[w], worktree[worker[w].p], missing, faults)
              /\ \A i \in DOMAIN Answers :
                    Faithful(Answers[i], worktree[Answers[i].p], missing, faults)

CommandInv == TypeOK /\ WorkerInv /\ PoolInv /\ RanInv /\ EnvInv /\ StatusInv
=============================================================================
