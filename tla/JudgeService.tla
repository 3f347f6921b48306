----------------------------- MODULE JudgeService ------------------------------
(***************************************************************************)
(* The judging queue of src/judge/judge_service.cpp.  HTTP handler threads *)
(* call Submit; one worker thread (WorkerLoop and RunTask) serves the      *)
(* queue in order; the main thread destroys the service after the HTTP     *)
(* server has stopped listening.  Every critical section of mu_ is one     *)
(* action.  Waiting on the condition variable is the control point         *)
(* "Waiting", which only a notification (or a spurious wake-up) leaves.    *)
(*                                                                         *)
(* What the worker meets outside the process is chosen by the environment: *)
(* the rows its two SELECTs return, the compilers' verdicts and the        *)
(* outcome of each sandboxed run.  The steps that read the database take   *)
(* what they read as a parameter, so that a composition can supply it.     *)
(***************************************************************************)
EXTENDS Verdict, FiniteSets

CONSTANTS
  Users,        \* user ids
  Problems,     \* problem ids
  Codes,        \* submitted sources, abstracted to their length (0: empty)
  MaxCodeLen,   \* 512 * 1024 in the code
  CaseLists,    \* what the SELECT on test_cases may return
  RunResults,   \* outcomes of RunCommand on the user's program
  SpjRuns,      \* outcomes of RunCommand on the special judge
  MaxId,        \* bound: submissions accepted in a behaviour
  MayStay       \* bound: ids of the directories that may be there at first or may
                \* resist their removal

NoRow == [judge_type |-> "none"]    \* no such problem, or the query failed
ProblemRows == [judge_type : {"exact", "special"}]
TestCases == UNION {{cs[i] : i \in DOMAIN cs} : cs \in CaseLists}

ASSUME CodesAssumption == Codes \subseteq Nat /\ MaxCodeLen \in Nat
ASSUME MaxIdAssumption == MaxId \in Nat /\ MayStay \subseteq Nat
ASSUME RunsAssumption ==
  /\ \A r \in RunResults : IsRunResult(r)
  /\ \A r \in SpjRuns : IsRunResult(r)
ASSUME CasesAssumption ==
  \A cs \in CaseLists : cs \in Seq(TestCases) /\ \A i \in DOMAIN cs : cs[i].order_no \in Nat

VARIABLES
  next_id_, queue_, results_, stop_,     \* the members guarded by mu_
  pc,          \* control point of the worker
  db_ok,       \* the worker's own connection was made
  task,        \* the task being judged
  res,         \* its result, still local to RunTask
  judge_type,  \* of the problem row RunTask read
  cases,       \* the test cases RunTask read
  workdirs,    \* ids n whose directory oj_n exists
  unremoved,   \* history: those of them whose removal was tried and failed
  main         \* control point of the main thread

members == <<next_id_, queue_, results_, stop_>>
locals  == <<task, res, judge_type, cases>>
dirs    == <<workdirs, unremoved>>
vars    == <<members, pc, db_ok, locals, dirs, main>>

--------------------------------------------------------------------------------
\* Types

Task == [id : Nat, user_id : Users, problem_id : Problems, code : Nat]
CaseResult == [order_no : Nat, status : CaseStatus, time_ms : Nat]
SubmissionResult ==
  [user_id : Users, problem_id : Problems, code : Nat, status : Verdicts \cup {""},
   cases : Seq(CaseResult), time_ms : Nat, done : BOOLEAN]

None == [none |-> TRUE]    \* task and res between two tasks

Judging == {"LoadProblem", "Compile", "CompileSpj", "LoadCases", "RunCase", "Hung",
            "RemoveDir"}
Busy    == pc \in Judging \cup {"Store"}
Control == {"Start", "Check", "Waiting", "Exited", "Store"} \cup Judging

TypeOK ==
  /\ next_id_ \in Nat \ {0}
  /\ queue_ \in Seq(Task)
  /\ results_ \in [1..(next_id_ - 1) -> SubmissionResult]
  /\ stop_ \in BOOLEAN
  /\ pc \in Control
  /\ db_ok \in BOOLEAN
  /\ Busy => task \in Task /\ res \in SubmissionResult
  /\ judge_type \in {"exact", "special"}
  /\ cases \in Seq(TestCases)
  /\ workdirs \subseteq Nat /\ unremoved \subseteq Nat
  /\ main \in {"listening", "notify", "join", "gone"}

--------------------------------------------------------------------------------
\* What Submit publishes for t.
Placeholder(t) ==
  [user_id |-> t.user_id, problem_id |-> t.problem_id, code |-> t.code, status |-> "",
   cases |-> <<>>, time_ms |-> 0, done |-> FALSE]

\* What the worker starts from: a system error until something better is known.
ResultNoOwner(t, code) ==
  [user_id |-> CHOOSE u \in Users : TRUE, problem_id |-> t.problem_id, code |-> code,
   status |-> "SE", cases |-> <<>>, time_ms |-> 0, done |-> TRUE]
NewResult(t, code) ==
  [user_id |-> t.user_id, problem_id |-> t.problem_id, code |-> code, status |-> "SE",
   cases |-> <<>>, time_ms |-> 0, done |-> TRUE]

\* A fresh process: nothing in memory, and the work directories a killed
\* predecessor may have left.
Init ==
  /\ next_id_ = 1 /\ queue_ = <<>> /\ results_ = <<>> /\ stop_ = FALSE
  /\ pc = "Start" /\ db_ok = FALSE
  /\ task = None /\ res = None /\ judge_type = "exact" /\ cases = <<>>
  /\ workdirs \in SUBSET MayStay /\ unremoved = {}
  /\ main = "listening"

\* cv_.notify_one / notify_all: there is one waiter at most.
NotifyNobody == pc' = pc
Notify == pc' = IF pc = "Waiting" THEN "Check" ELSE pc

NewTask(u, p, c) == [id |-> next_id_, user_id |-> u, problem_id |-> p, code |-> c]

\* Mutant of Submit: the worker publishes the result, nothing does before.
SubmitNoPlaceholder(u, p, c) ==
  /\ main = "listening"
  /\ next_id_ <= MaxId
  /\ c \in 1..MaxCodeLen
  /\ queue_' = Append(queue_, NewTask(u, p, c))
  /\ next_id_' = next_id_ + 1
  /\ Notify
  /\ UNCHANGED <<results_, stop_, db_ok, locals, dirs, main>>
\* Queue the task and publish a placeholder, in one critical section.
Submit(u, p, c) ==
  /\ main = "listening"
  /\ next_id_ <= MaxId
  /\ c \in 1..MaxCodeLen
  /\ queue_' = Append(queue_, NewTask(u, p, c))
  /\ results_' = [id \in 1..next_id_ |->
                    IF id = next_id_ THEN Placeholder(NewTask(u, p, c))
                    ELSE results_[id]]
  /\ next_id_' = next_id_ + 1
  /\ Notify
  /\ UNCHANGED <<stop_, db_ok, locals, dirs, main>>

--------------------------------------------------------------------------------
\* The worker

\* The directories of a previous process are cleared as far as the base directory can
\* be read and the file system lets them go: no error of opendir, unlink or rmdir is
\* looked at.
CleanupStaleDirs ==
  /\ workdirs' \in SUBSET workdirs
  /\ unremoved' = workdirs'

\* Connect (or not), then prepare the base directory.
StartWorker(ok) ==
  /\ pc = "Start"
  /\ db_ok' = ok
  /\ CleanupStaleDirs
  /\ pc' = "Check"
  /\ UNCHANGED <<members, locals, main>>

\* mu_ held: the predicate of the wait is false.
Wait ==
  /\ pc = "Check" /\ ~stop_ /\ queue_ = <<>>
  /\ pc' = "Waiting"
  /\ UNCHANGED <<members, db_ok, locals, dirs, main>>

SpuriousWakeup ==
  /\ pc = "Waiting"
  /\ pc' = "Check"
  /\ UNCHANGED <<members, db_ok, locals, dirs, main>>

ExitAtOnce ==
  /\ pc = "Check" /\ stop_
  /\ pc' = "Exited"
  /\ UNCHANGED <<members, db_ok, locals, dirs, main>>
ExitWorker ==
  /\ pc = "Check" /\ stop_ /\ queue_ = <<>>
  /\ pc' = "Exited"
  /\ UNCHANGED <<members, db_ok, locals, dirs, main>>

\* Mutants of Take: the newest task first; the task is not removed.
TakeNewest ==
  /\ pc = "Check" /\ queue_ # <<>>
  /\ LET n == Len(queue_)
     IN  /\ task' = queue_[n]
         /\ queue_' = SubSeq(queue_, 1, n - 1)
         /\ res' = NewResult(queue_[n], IF db_ok THEN queue_[n].code ELSE 0)
  /\ pc' = IF db_ok THEN "LoadProblem" ELSE "Store"
  /\ UNCHANGED <<next_id_, results_, stop_, db_ok, judge_type, cases, dirs, main>>
TakePeek ==
  /\ pc = "Check" /\ queue_ # <<>>
  /\ task' = Head(queue_)
  /\ res' = NewResult(Head(queue_), IF db_ok THEN Head(queue_).code ELSE 0)
  /\ pc' = IF db_ok THEN "LoadProblem" ELSE "Store"
  /\ UNCHANGED <<members, db_ok, judge_type, cases, dirs, main>>

\* Without a database the result is made here, and without the source text.
Take ==
  /\ pc = "Check" /\ queue_ # <<>>
  /\ task' = Head(queue_)
  /\ queue_' = Tail(queue_)
  /\ res' = NewResult(Head(queue_), IF db_ok THEN Head(queue_).code ELSE 0)
  /\ pc' = IF db_ok THEN "LoadProblem" ELSE "Store"
  /\ UNCHANGED <<next_id_, results_, stop_, db_ok, judge_type, cases, dirs, main>>

\* mkdir, whose failure goes unnoticed, then the SELECT on problems.
LoadProblem(row) ==
  /\ pc = "LoadProblem"
  /\ workdirs' \in {workdirs, workdirs \cup {task.id}}
  /\ IF row = NoRow
     THEN pc' = "RemoveDir" /\ UNCHANGED judge_type
     ELSE pc' = "Compile" /\ judge_type' = row.judge_type
  /\ UNCHANGED <<members, db_ok, task, res, cases, unremoved, main>>

\* There is nothing to compile, nor a place for the program, without a directory.
Compile(ok) ==
  /\ pc = "Compile"
  /\ ok => task.id \in workdirs
  /\ res' = IF ok THEN res ELSE [res EXCEPT !.status = "CE"]
  /\ pc' = IF ~ok THEN "RemoveDir"
           ELSE IF judge_type = "special" THEN "CompileSpj" ELSE "LoadCases"
  /\ UNCHANGED <<members, db_ok, task, judge_type, cases, dirs, main>>

CompileSpjKeepDir(ok) ==
  /\ pc = "CompileSpj"
  /\ pc' = IF ok THEN "LoadCases" ELSE "Store"
  /\ UNCHANGED <<members, db_ok, locals, dirs, main>>
CompileSpj(ok) ==
  /\ pc = "CompileSpj"
  /\ pc' = IF ok THEN "LoadCases" ELSE "RemoveDir"
  /\ UNCHANGED <<members, db_ok, locals, dirs, main>>

\* The SELECT on test_cases; a failed query is the same as no rows.
LoadCases(cs) ==
  /\ pc = "LoadCases"
  /\ cases' = cs
  /\ pc' = IF cs = <<>> THEN "RemoveDir" ELSE "RunCase"
  /\ UNCHANGED <<members, db_ok, task, res, judge_type, dirs, main>>

\* The loop over the cases has come to its end.
IsLastOneEarly(n) == n >= Len(cases) - 1
IsLast(n) == n = Len(cases)

\* max_time after a case that took t.
WorstLatest(t) == t
Worst(t) == IF t > res.time_ms THEN t ELSE res.time_ms

\* The result after case result cr.
AfterCaseNoVerdict(cr) ==
  [res EXCEPT !.cases = Append(res.cases, cr), !.time_ms = Worst(cr.time_ms),
              !.status = IF IsLast(Len(res.cases) + 1) THEN "AC" ELSE res.status]
AfterCase(cr) ==
  [res EXCEPT !.cases = Append(res.cases, cr), !.time_ms = Worst(cr.time_ms),
              !.status = IF cr.status # "AC" THEN cr.status
                         ELSE IF IsLast(Len(res.cases) + 1) THEN "AC" ELSE res.status]

\* One iteration of the loop, ended by run and, for a special problem, by the
\* judge's run spj.  A failure of the judge itself drops the case.
RunCase(run, spj) ==
  /\ pc = "RunCase"
  /\ LET c      == cases[Len(res.cases) + 1]
         status == StatusOf(judge_type, run, c.expected, spj)
     IN  \/ /\ status = "abort"
            /\ pc' = "RemoveDir"
            /\ UNCHANGED res
         \/ /\ status # "abort"
            /\ res' = AfterCase([order_no |-> c.order_no, status |-> status,
                                 time_ms |-> run.cpu_ms])
            /\ pc' = IF status = "AC" /\ ~IsLast(Len(res.cases) + 1)
                     THEN "RunCase" ELSE "RemoveDir"
  /\ UNCHANGED <<members, db_ok, task, judge_type, cases, dirs, main>>

\* RunCommand need not return (module Sandbox): the program keeps its output open
\* and sleeps.  Nor need the compiler of the special judge, which unlike that of
\* the program runs without a time limit.
Hang ==
  /\ pc \in {"RunCase", "CompileSpj"}
  /\ pc' = "Hung"
  /\ UNCHANGED <<members, db_ok, locals, dirs, main>>

\* The directory may resist (it may have a subdirectory that cannot be opened), and no
\* error is looked at.
RemoveDir ==
  /\ pc = "RemoveDir"
  /\ \/ workdirs' = workdirs \ {task.id} /\ UNCHANGED unremoved
     \/ /\ task.id \in workdirs \cap MayStay
        /\ unremoved' = unremoved \cup {task.id}
        /\ UNCHANGED workdirs
  /\ pc' = "Store"
  /\ UNCHANGED <<members, db_ok, locals, main>>

\* The result replaces the placeholder; the locals of RunTask go out of scope.
StoreResult ==
  /\ pc = "Store"
  /\ results_' = [results_ EXCEPT ![task.id] = res]
  /\ pc' = "Check"
  /\ task' = None /\ res' = None /\ judge_type' = "exact" /\ cases' = <<>>
  /\ UNCHANGED <<next_id_, queue_, stop_, db_ok, dirs, main>>

--------------------------------------------------------------------------------
\* The main thread: listen returns, all handlers are finished, ~JudgeService runs

SetStop ==
  /\ main = "listening"
  /\ stop_' = TRUE
  /\ main' = "notify"
  /\ UNCHANGED <<next_id_, queue_, results_, pc, db_ok, locals, dirs>>

NotifyAll ==
  /\ main = "notify"
  /\ main' = "join"
  /\ Notify
  /\ UNCHANGED <<members, db_ok, locals, dirs>>

Join ==
  /\ main = "join" /\ pc = "Exited"
  /\ main' = "gone"
  /\ UNCHANGED <<members, pc, db_ok, locals, dirs>>

\* The process has ended, or a run never returns.
Stopped == (main = "gone" \/ pc = "Hung") /\ UNCHANGED vars

--------------------------------------------------------------------------------
AnyRunCase == \E run \in RunResults, spj \in SpjRuns : RunCase(run, spj)

\* The worker's steps that do not read the database.
OwnStep ==
  \/ \E ok \in BOOLEAN : StartWorker(ok) \/ Compile(ok) \/ CompileSpj(ok)
  \/ Wait \/ ExitWorker \/ Take \/ AnyRunCase \/ Hang \/ RemoveDir \/ StoreResult

WorkerStep ==
  \/ OwnStep
  \/ \E row \in ProblemRows \cup {NoRow} : LoadProblem(row)
  \/ \E cs \in CaseLists : LoadCases(cs)

Submissions == \E u \in Users, p \in Problems, c \in Codes : Submit(u, p, c)

Next ==
  \/ Submissions
  \/ WorkerStep
  \/ SpuriousWakeup
  \/ SetStop \/ NotifyAll \/ Join
  \/ Stopped

Spec == Init /\ [][Next]_vars

\* The worker and the destructor are threads that the operating system schedules.
FairSpec == Spec /\ WF_vars(WorkerStep) /\ WF_vars(NotifyAll) /\ WF_vars(Join)

--------------------------------------------------------------------------------
\* What the readers of results_ return

Pending(id) == id \in DOMAIN results_ /\ ~results_[id].done
Finished(id) == id \in DOMAIN results_ /\ results_[id].done

GetUserStats(u) ==
  LET mine == {id \in DOMAIN results_ : results_[id].user_id = u /\ results_[id].done}
      ac   == {id \in mine : results_[id].status = "AC"}
  IN  [total |-> Cardinality(mine), accepted |-> Cardinality(ac),
       solved |-> {results_[id].problem_id : id \in ac}]

--------------------------------------------------------------------------------
\* Properties

Taken == IF Busy THEN 1 ELSE 0
\* the oldest submission without a verdict
FirstPending == next_id_ - Len(queue_) - Taken

\* No submission is lost, judged twice or overtaken: the finished ones are exactly
\* those older than the task in hand, which is older than the queue, which holds
\* all the others in the order of their ids (results_, queue_ and the worker's
\* local task agree at every step of Submit, Take and StoreResult).
InOrder ==
  /\ DOMAIN results_ = 1..(next_id_ - 1)
  /\ FirstPending >= 1
  /\ Busy => task.id = FirstPending
  /\ \A i \in 1..Len(queue_) : queue_[i].id = FirstPending + Taken + i - 1
  /\ \A id \in 1..(next_id_ - 1) : results_[id].done <=> id < FirstPending

\* A queued or taken task and the result being built belong to the user and the
\* problem of the placeholder that Submit published under the same id.
SameOwner ==
  /\ \A i \in 1..Len(queue_) :
       /\ queue_[i].user_id = results_[queue_[i].id].user_id
       /\ queue_[i].problem_id = results_[queue_[i].id].problem_id
  /\ Busy => /\ res.user_id = results_[task.id].user_id
             /\ res.problem_id = results_[task.id].problem_id

\* The status of a result is what its case list says: every case before the last
\* is AC, a run that failed gives its status to the submission, and a wrong answer
\* or a limit is never reported without the case that shows it.
StatusFromCases(r) ==
  LET n == Len(r.cases)
  IN  /\ \A i \in 1..(n - 1) : r.cases[i].status = "AC"
      /\ r.status \in {"AC", "WA", "TLE", "MLE", "RE"} => n > 0 /\ r.cases[n].status = r.status
      /\ r.status = "CE" => n = 0
      /\ r.status = "SE" /\ n > 0 => r.cases[n].status \in {"AC", "SE"}

\* Every published final result obeys StatusFromCases (the loop of RunTask with
\* its four early returns).
VerdictExplained == \A id \in DOMAIN results_ : Finished(id) => StatusFromCases(results_[id])

\* A result about to be stored as AC has one AC for every test case that was read,
\* and there was at least one (the loop may not stop early, nor run on nothing).
AcceptedMeansAllCases ==
  pc \in {"RemoveDir", "Store"} /\ res.status = "AC" =>
    /\ cases # <<>>
    /\ Len(res.cases) = Len(cases)
    /\ \A i \in 1..Len(cases) : /\ res.cases[i].status = "AC"
                                /\ res.cases[i].order_no = cases[i].order_no

\* The reported time is that of the slowest case that was run.
WorstTime ==
  \A id \in DOMAIN results_ : Finished(id) =>
    /\ \A i \in DOMAIN results_[id].cases : results_[id].cases[i].time_ms <= results_[id].time_ms
    /\ results_[id].cases # <<>> =>
         \E i \in DOMAIN results_[id].cases : results_[id].cases[i].time_ms = results_[id].time_ms

\* Whichever path RunTask took, the directory of its task has been given back when
\* the result is stored, or its removal has been tried and failed; so a task that
\* is about to make its directory finds one of that id only after a failed removal.
NoStaleDir ==
  pc # "Start" =>
    workdirs \subseteq unremoved \cup (IF pc \in Judging \ {"LoadProblem"} THEN {task.id}
                                        ELSE {})

\* What a client has been told stays true: a submission never disappears, keeps its
\* user and problem, and a final result is never changed or taken back to pending.
AnswerKept ==
  \A id \in DOMAIN results_ :
    /\ id \in DOMAIN results_'
    /\ results_'[id].user_id = results_[id].user_id
    /\ results_'[id].problem_id = results_[id].problem_id
    /\ results_[id].done => results_'[id] = results_[id]

\* AnswerKept holds of every step: placeholders are replaced once, by StoreResult.
AnswersAreFinal == [][AnswerKept]_vars

\* The profile page's numbers only grow while the process lives.
StatsNeverShrink ==
  [][\A u \in Users :
       /\ GetUserStats(u)'.total >= GetUserStats(u).total
       /\ GetUserStats(u)'.accepted >= GetUserStats(u).accepted
       /\ GetUserStats(u).solved \subseteq GetUserStats(u)'.solved]_vars

\* A submission that was accepted is judged, unless a run hangs: no wake-up is lost
\* between Submit, the wait and the destructor, and stopping drains the queue.
EventuallyJudged == \A id \in 1..MaxId : Pending(id) ~> (Finished(id) \/ pc = "Hung")

\* Ctrl-C ends the process, unless a run hangs.
StopEnds == stop_ ~> (main = "gone" \/ pc = "Hung")

--------------------------------------------------------------------------------
\* The inductive invariant of the proofs (JudgeService_proofs)

\* RunTask's locals: the pessimistic status SE stands until a verdict is reached,
\* and the loop runs case number Len(res.cases) + 1.
LoopState ==
  /\ pc = "RunCase" => Len(res.cases) < Len(cases)
  /\ Busy => res.done /\ res.status # ""
  /\ pc \in Judging \ {"RemoveDir"} =>
       res.status = "SE" /\ \A i \in 1..Len(res.cases) : res.cases[i].status = "AC"
  /\ pc \in {"LoadProblem", "Compile", "CompileSpj", "LoadCases"} => res.cases = <<>>
  /\ pc \in {"RemoveDir", "Store"} => StatusFromCases(res)

\* The destructor and the worker: the worker exits only from an empty queue and
\* after the stop, and the main thread goes on only after the worker.
ShutdownState ==
  /\ stop_ <=> main # "listening"
  /\ pc = "Exited" => stop_ /\ queue_ = <<>>
  /\ main = "gone" => pc = "Exited"

IInv == TypeOK /\ InOrder /\ SameOwner /\ LoopState /\ ShutdownState /\ VerdictExplained

--------------------------------------------------------------------------------
\* IMPROVEMENTS.md: the record of a submission keeps its source, for the detail page.
SourceKept == \A id \in DOMAIN results_ : results_[id].code # 0

\* The service seen as the abstract queue of verdicts.
LogOf(r, n) == [id \in 1..n |-> [user_id |-> r[id].user_id, problem_id |-> r[id].problem_id]]
VerdictsOf(r, n) == [id \in 1..n |-> r[id].status]
LogView     == LogOf(results_, next_id_ - 1)
VerdictView == VerdictsOf(results_, FirstPending - 1)

Service == INSTANCE SubmissionService
             WITH log <- LogView, verdicts <- VerdictView, open <- main # "gone"

\* Queue, placeholders, worker and destructor together implement the abstract
\* service: verdicts come one by one in submission order, and all before the end.
ImplementsService == Service!Spec
================================================================================
