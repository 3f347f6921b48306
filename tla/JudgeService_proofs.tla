-------------------------- MODULE JudgeService_proofs --------------------------
(***************************************************************************)
(* Proofs about JudgeService, for every set of users, problems, sources,   *)
(* case lists and run outcomes, and every bound on the submissions.        *)
(***************************************************************************)
EXTENDS JudgeService, TLAPS, SequenceTheorems, FiniteSetTheorems

(***************************************************************************)
(* The verdict on a case is one of the six case statuses, or the request   *)
(* to give the submission up (ClassifyRun, CompareExact and RunSpj).       *)
(***************************************************************************)
LEMMA StatusRange ==
  ASSUME NEW jt, NEW run, NEW spj, NEW expected, run.kind \in ExitKind
  PROVE  StatusOf(jt, run, expected, spj) \in CaseStatus \cup {"abort"}
BY DEF StatusOf, ClassifyRun, Compare, SpjResult, CompareExact, CaseStatus, ExitKind,
       MemorySignal

(***************************************************************************)
(* The test case the loop of RunTask is at.                                *)
(***************************************************************************)
LEMMA CurrentCase ==
  ASSUME TypeOK, LoopState, pc = "RunCase"
  PROVE  /\ Len(res.cases) + 1 \in 1..Len(cases)
         /\ cases[Len(res.cases) + 1].order_no \in Nat
<1>1. res \in SubmissionResult /\ cases \in Seq(TestCases)
  BY DEF TypeOK, Busy, Judging
<1>2. res.cases \in Seq(CaseResult) /\ Len(res.cases) \in Nat /\ Len(cases) \in Nat
  BY <1>1, LenProperties DEF SubmissionResult
<1>3. Len(res.cases) + 1 \in 1..Len(cases)
  <2>1. Len(res.cases) < Len(cases)
    BY DEF LoopState
  <2> QED BY <1>2, <2>1
<1>4. cases[Len(res.cases) + 1] \in TestCases
  BY <1>1, <1>3, ElementOfSeq
<1>5. \A c \in TestCases : c.order_no \in Nat
  BY CasesAssumption DEF TestCases
<1> QED BY <1>3, <1>4, <1>5

(***************************************************************************)
(* A result made for a task of the right type is a result.                 *)
(***************************************************************************)
LEMMA ResultType ==
  ASSUME NEW t \in Task, NEW code \in Nat
  PROVE  Placeholder(t) \in SubmissionResult /\ NewResult(t, code) \in SubmissionResult
BY EmptySeq DEF Placeholder, NewResult, SubmissionResult, Task, Verdicts, CaseStatus

(***************************************************************************)
(* The result after one more case.                                         *)
(***************************************************************************)
LEMMA AfterCaseType ==
  ASSUME res \in SubmissionResult, NEW cr \in CaseResult
  PROVE  /\ AfterCase(cr) \in SubmissionResult
         /\ AfterCase(cr).cases = Append(res.cases, cr)
         /\ Len(AfterCase(cr).cases) = Len(res.cases) + 1
         /\ \A i \in 1..Len(res.cases) : AfterCase(cr).cases[i] = res.cases[i]
         /\ AfterCase(cr).cases[Len(res.cases) + 1] = cr
<1>1. res.cases \in Seq(CaseResult) /\ cr.time_ms \in Nat /\ res.time_ms \in Nat
  BY DEF SubmissionResult, CaseResult
<1>2. Append(res.cases, cr) \in Seq(CaseResult)
  BY <1>1
<1>3. AfterCase(cr).cases = Append(res.cases, cr)
  BY DEF AfterCase, SubmissionResult
<1>4. cr.status \in Verdicts \cup {""} /\ "AC" \in Verdicts \cup {""}
  BY DEF CaseResult, Verdicts, CaseStatus
<1>5. Worst(cr.time_ms) \in Nat
  BY <1>1 DEF Worst
<1>6. AfterCase(cr) \in SubmissionResult
  BY <1>2, <1>4, <1>5 DEF AfterCase, SubmissionResult
<1> QED BY <1>1, <1>3, <1>6

LEMMA TypeInit == Init => TypeOK
<1> SUFFICES ASSUME Init PROVE TypeOK
  OBVIOUS
<1>1. results_ \in [1..(next_id_ - 1) -> SubmissionResult]
  <2>1. <<>> \in [1..0 -> SubmissionResult]
    BY EmptySeq, LenProperties
  <2> QED BY <2>1 DEF Init
<1>2. queue_ \in Seq(Task) /\ cases \in Seq(TestCases)
  BY EmptySeq DEF Init
<1>3. workdirs \subseteq Nat /\ unremoved \subseteq Nat
  BY MaxIdAssumption DEF Init
<1>4. next_id_ \in Nat \ {0}
  BY DEF Init
<1>5. stop_ \in BOOLEAN /\ db_ok \in BOOLEAN
  BY DEF Init
<1> QED BY <1>1, <1>2, <1>3, <1>4, <1>5 DEF Init, TypeOK, Control, Busy, Judging

(***************************************************************************)
(* Every step keeps the types.                                             *)
(***************************************************************************)
LEMMA TypeStep == TypeOK /\ LoopState /\ [Next]_vars => TypeOK'
<1> SUFFICES ASSUME TypeOK, LoopState, [Next]_vars PROVE TypeOK'
  OBVIOUS
<1> USE DEF TypeOK, Busy, Judging, Control, members, locals, dirs
<1>1. CASE Submissions
  <2>1. PICK u \in Users, p \in Problems, c \in Codes : Submit(u, p, c)
    BY <1>1 DEF Submissions
  <2> DEFINE t == NewTask(u, p, c)
  <2>2. t \in Task
    BY CodesAssumption DEF NewTask, Task
  <2> HIDE DEF t
  <2>3. queue_' \in Seq(Task)
    BY <2>1, <2>2, AppendProperties DEF Submit, t
  <2>4. Placeholder(t) \in SubmissionResult
    BY <2>2, ResultType, CodesAssumption
  <2>6. pc' \in Control /\ (pc' \in Judging \cup {"Store"} => pc \in Judging \cup {"Store"})
    BY <2>1 DEF Submit, Notify
  <2>7. UNCHANGED <<stop_, db_ok, locals, dirs, main>>
    BY <2>1 DEF Submit
  <2>8. next_id_' = next_id_ + 1
    BY <2>1 DEF Submit
  <2>5. results_' \in [1..(next_id_' - 1) -> SubmissionResult]
    <3>1. next_id_' - 1 = next_id_
      BY <2>8
    <3>2. \A id \in 1..next_id_ : id # next_id_ => results_[id] \in SubmissionResult
      OBVIOUS
    <3>3. results_' = [id \in 1..next_id_ |-> IF id = next_id_ THEN Placeholder(t)
                                             ELSE results_[id]]
      BY <2>1 DEF Submit, t
    <3>4. results_' \in [1..next_id_ -> SubmissionResult]
      BY <2>4, <3>2, <3>3
    <3> QED BY <3>1, <3>4
  <2>9. Busy' => task' \in Task /\ res' \in SubmissionResult
    BY <2>6, <2>7
  <2>10. stop_' \in BOOLEAN /\ db_ok' \in BOOLEAN
    BY <2>7
  <2>11. cases' \in Seq(TestCases) /\ judge_type' \in {"exact", "special"}
        /\ workdirs' \subseteq Nat /\ unremoved' \subseteq Nat
    BY <2>7
  <2>12. main' \in {"listening", "notify", "join", "gone"}
    BY <2>7
  <2> QED BY <2>3, <2>5, <2>6, <2>8, <2>9, <2>10, <2>11, <2>12 DEF TypeOK
<1>2. ASSUME NEW ok \in BOOLEAN, StartWorker(ok) PROVE TypeOK'
  BY <1>2 DEF StartWorker, CleanupStaleDirs
<1>3. ASSUME NEW ok \in BOOLEAN, Compile(ok) PROVE TypeOK'
  BY <1>3 DEF Compile, SubmissionResult, Verdicts
<1>4. ASSUME NEW ok \in BOOLEAN, CompileSpj(ok) PROVE TypeOK'
  BY <1>4 DEF CompileSpj
<1>5. CASE Wait
  BY <1>5 DEF Wait
<1>6. CASE ExitWorker
  BY <1>6 DEF ExitWorker
<1>7. CASE Take
  <2>1. Head(queue_) \in Task /\ Tail(queue_) \in Seq(Task)
    BY <1>7, HeadTailProperties DEF Take
  <2>2. (IF db_ok THEN Head(queue_).code ELSE 0) \in Nat
    BY <2>1 DEF Task
  <2>3. res' \in SubmissionResult
    BY <1>7, <2>1, <2>2, ResultType DEF Take, Verdicts, CaseStatus
  <2> QED BY <1>7, <2>1, <2>3 DEF Take
<1>8. CASE AnyRunCase
  <2>1. PICK run \in RunResults, spj \in SpjRuns : RunCase(run, spj)
    BY <1>8 DEF AnyRunCase
  <2> DEFINE c      == cases[Len(res.cases) + 1]
             status == StatusOf(judge_type, run, c.expected, spj)
             cr     == [order_no |-> c.order_no, status |-> status, time_ms |-> run.cpu_ms]
  <2>2. c.order_no \in Nat
    BY <2>1, CurrentCase DEF RunCase
  <2>3. run.kind \in ExitKind /\ run.cpu_ms \in Nat
    BY RunsAssumption DEF IsRunResult
  <2>4. status \in CaseStatus \cup {"abort"}
    BY <2>3, StatusRange
  <2>5. status # "abort" => cr \in CaseResult
    BY <2>2, <2>3, <2>4 DEF CaseResult
  <2>6. res \in SubmissionResult
    BY <2>1 DEF RunCase
  <2>7. res' \in SubmissionResult
    BY <2>1, <2>5, <2>6, AfterCaseType DEF RunCase
  <2> QED BY <2>1, <2>7 DEF RunCase
<1>9. CASE Hang
  BY <1>9 DEF Hang
<1>10. CASE RemoveDir
  BY <1>10 DEF RemoveDir
<1>11. CASE StoreResult
  BY <1>11, EmptySeq DEF StoreResult
<1>12. ASSUME NEW row \in ProblemRows \cup {NoRow}, LoadProblem(row) PROVE TypeOK'
  <2>1. task.id \in Nat
    BY <1>12 DEF LoadProblem, Task
  <2> QED BY <1>12, <2>1 DEF LoadProblem, ProblemRows
<1>13. ASSUME NEW cs \in CaseLists, LoadCases(cs) PROVE TypeOK'
  BY <1>13, CasesAssumption DEF LoadCases
<1>14. CASE SpuriousWakeup
  BY <1>14 DEF SpuriousWakeup
<1>15. CASE SetStop
  BY <1>15 DEF SetStop
<1>16. CASE NotifyAll
  BY <1>16 DEF NotifyAll, Notify
<1>17. CASE Join
  BY <1>17 DEF Join
<1>18. CASE UNCHANGED vars
  BY <1>18 DEF vars
<1> QED
  BY <1>1, <1>2, <1>3, <1>4, <1>5, <1>6, <1>7, <1>8, <1>9, <1>10, <1>11, <1>12, <1>13,
     <1>14, <1>15, <1>16, <1>17, <1>18
  DEF Next, WorkerStep, OwnStep, Stopped

(***************************************************************************)
(* What the lemmas about the order of the queue need of the types: they    *)
(* are cited again where the service is composed with the tables.          *)
(***************************************************************************)
QueueTyped == next_id_ \in Nat \ {0} /\ queue_ \in Seq(Task)

LEMMA TypedQueue == TypeOK => QueueTyped
BY DEF TypeOK, QueueTyped

(***************************************************************************)
(* What Submit, Take and StoreResult do to the members, spelled out.       *)
(***************************************************************************)
LEMMA SubmitEffect ==
  ASSUME QueueTyped, NEW u \in Users, NEW p \in Problems, NEW c \in Codes, Submit(u, p, c)
  PROVE  /\ next_id_' = next_id_ + 1
         /\ Len(queue_') = Len(queue_) + 1
         /\ \A i \in 1..Len(queue_) : queue_'[i] = queue_[i]
         /\ queue_'[Len(queue_) + 1] = NewTask(u, p, c)
         /\ DOMAIN results_' = 1..next_id_
         /\ \A id \in 1..(next_id_ - 1) : results_'[id] = results_[id]
         /\ results_'[next_id_] = Placeholder(NewTask(u, p, c))
         /\ pc' = IF pc = "Waiting" THEN "Check" ELSE pc
         /\ UNCHANGED <<stop_, db_ok, locals, dirs, main>>
<1> DEFINE t == NewTask(u, p, c)
           r == Placeholder(t)
<1>1. t \in Task
  BY CodesAssumption DEF NewTask, Task, QueueTyped
<1>2. queue_' = Append(queue_, t) /\ next_id_' = next_id_ + 1
  BY DEF Submit
<1>3. results_' = [id \in 1..next_id_ |-> IF id = next_id_ THEN r ELSE results_[id]]
  BY DEF Submit
<1>4. pc' = IF pc = "Waiting" THEN "Check" ELSE pc
  BY DEF Submit, Notify
<1>5. UNCHANGED <<stop_, db_ok, locals, dirs, main>>
  BY DEF Submit
<1>6. next_id_ \in Nat \ {0} /\ queue_ \in Seq(Task)
  BY DEF QueueTyped
<1> HIDE DEF t, r
<1>7. /\ Len(queue_') = Len(queue_) + 1
      /\ \A i \in 1..Len(queue_) : queue_'[i] = queue_[i]
      /\ queue_'[Len(queue_) + 1] = t
  BY <1>1, <1>2, <1>6, AppendProperties
<1>8. /\ DOMAIN results_' = 1..next_id_
      /\ \A id \in 1..(next_id_ - 1) : results_'[id] = results_[id]
      /\ results_'[next_id_] = r
  BY <1>3, <1>6
<1> QED BY <1>2, <1>4, <1>5, <1>7, <1>8 DEF t, r

LEMMA TakeEffect ==
  ASSUME QueueTyped, Take
  PROVE  /\ Len(queue_) \in Nat \ {0}
         /\ Len(queue_') = Len(queue_) - 1
         /\ \A i \in 1..Len(queue_') : queue_'[i] = queue_[i + 1]
         /\ task' = queue_[1]
         /\ task' \in Task
         /\ res' = NewResult(queue_[1], IF db_ok THEN queue_[1].code ELSE 0)
         /\ pc = "Check" /\ pc' \in {"LoadProblem", "Store"}
         /\ UNCHANGED <<next_id_, results_, stop_, main>>
<1>1. queue_ \in Seq(Task) /\ queue_ # <<>>
  BY DEF QueueTyped, Take
<1>2. /\ Len(queue_) \in Nat \ {0}
      /\ Head(queue_) = queue_[1]
      /\ Head(queue_) \in Task
      /\ Len(Tail(queue_)) = Len(queue_) - 1
      /\ \A i \in 1..Len(Tail(queue_)) : Tail(queue_)[i] = queue_[i + 1]
  BY <1>1, HeadTailProperties, EmptySeq
<1>3. /\ task' = Head(queue_) /\ queue_' = Tail(queue_)
      /\ res' = NewResult(Head(queue_), IF db_ok THEN Head(queue_).code ELSE 0)
      /\ pc = "Check" /\ pc' \in {"LoadProblem", "Store"}
      /\ UNCHANGED <<next_id_, results_, stop_, main>>
  BY DEF Take
<1> QED BY <1>2, <1>3

(***************************************************************************)
(* A step that leaves the members and the task in hand alone keeps the     *)
(* order.                                                                  *)
(***************************************************************************)
LEMMA OrderQuiet ==
  ASSUME InOrder, UNCHANGED <<next_id_, queue_, results_, task>>, Busy' <=> Busy
  PROVE  InOrder'
<1>1. Taken' = Taken
  BY DEF Taken
<1>2. FirstPending' = FirstPending
  BY <1>1 DEF FirstPending
<1> QED BY <1>1, <1>2 DEF InOrder

(***************************************************************************)
(* Submit puts the newest id at the end of the queue, and a placeholder    *)
(* under it.                                                               *)
(***************************************************************************)
LEMMA SubmitKeepsOrder ==
  ASSUME QueueTyped, InOrder, NEW u \in Users, NEW p \in Problems, NEW c \in Codes, Submit(u, p, c)
  PROVE  InOrder'
<1>0. next_id_ \in Nat \ {0} /\ Len(queue_) \in Nat
  BY LenProperties DEF QueueTyped
<1> DEFINE t == NewTask(u, p, c)
           r == Placeholder(t)
<1>2. /\ next_id_' = next_id_ + 1
      /\ Len(queue_') = Len(queue_) + 1
      /\ \A i \in 1..Len(queue_) : queue_'[i] = queue_[i]
      /\ queue_'[Len(queue_) + 1] = t
      /\ DOMAIN results_' = 1..next_id_
      /\ \A id \in 1..(next_id_ - 1) : results_'[id] = results_[id]
      /\ results_'[next_id_] = r
      /\ pc' = IF pc = "Waiting" THEN "Check" ELSE pc
      /\ task' = task
  BY SubmitEffect DEF locals
<1>3. Busy' <=> Busy
  BY <1>2 DEF Busy, Judging
<1>4. Taken' = Taken /\ Taken \in {0, 1}
  BY <1>3 DEF Taken
<1>5. FirstPending' = FirstPending /\ FirstPending \in Int
  BY <1>0, <1>2, <1>4 DEF FirstPending
<1>6. t.id = next_id_ /\ r.done = FALSE
  BY DEF NewTask, Placeholder
<1> HIDE DEF t, r
<1>7. \A i \in 1..Len(queue_') : queue_'[i].id = FirstPending + Taken + i - 1
  <2>1. next_id_ = FirstPending + Taken + (Len(queue_) + 1) - 1
    BY <1>0, <1>4 DEF FirstPending
  <2>2. \A i \in 1..Len(queue_) : queue_'[i].id = FirstPending + Taken + i - 1
    BY <1>2 DEF InOrder
  <2>3. queue_'[Len(queue_) + 1].id = FirstPending + Taken + (Len(queue_) + 1) - 1
    BY <1>2, <1>6, <2>1
  <2>4. \A i \in 1..Len(queue_') : i \in 1..Len(queue_) \/ i = Len(queue_) + 1
    BY <1>0, <1>2
  <2> QED BY <2>2, <2>3, <2>4
<1>8. \A id \in 1..next_id_ : results_'[id].done <=> id < FirstPending
  <2>1. ~(next_id_ < FirstPending)
    BY <1>0, <1>4 DEF FirstPending
  <2>2. \A id \in 1..(next_id_ - 1) : results_'[id].done <=> id < FirstPending
    BY <1>2 DEF InOrder
  <2>3. ~results_'[next_id_].done
    BY <1>2, <1>6
  <2>4. \A id \in 1..next_id_ : id \in 1..(next_id_ - 1) \/ id = next_id_
    BY <1>0
  <2> QED BY <2>1, <2>2, <2>3, <2>4
<1>9. next_id_' - 1 = next_id_
  BY <1>0, <1>2
<1> QED BY <1>2, <1>3, <1>4, <1>5, <1>7, <1>8, <1>9 DEF InOrder

(***************************************************************************)
(* Take moves the oldest submission without a verdict into the hand of the *)
(* worker.                                                                 *)
(***************************************************************************)
LEMMA TakeKeepsOrder ==
  ASSUME QueueTyped, InOrder, Take
  PROVE  InOrder'
<1>0. next_id_ \in Nat \ {0} /\ Len(queue_) \in Nat
  BY LenProperties DEF QueueTyped
<1>1. Taken = 0 /\ Taken' = 1 /\ Busy' /\ ~Busy
  BY TakeEffect DEF Taken, Busy, Judging
<1>2. FirstPending' = FirstPending /\ FirstPending \in Int
  BY <1>0, <1>1, TakeEffect DEF FirstPending
<1>3. task'.id = FirstPending
  BY <1>0, <1>1, <1>2, TakeEffect DEF InOrder
<1>4. \A i \in 1..Len(queue_') : queue_'[i].id = FirstPending' + Taken' + i - 1
  <2>1. \A i \in 1..Len(queue_) : queue_[i].id = FirstPending + i - 1
    BY <1>1, <1>2 DEF InOrder
  <2>2. /\ Len(queue_') = Len(queue_) - 1
        /\ \A i \in 1..Len(queue_') : queue_'[i] = queue_[i + 1]
    BY TakeEffect
  <2>3. ASSUME NEW i \in 1..Len(queue_')
        PROVE  queue_'[i].id = FirstPending' + Taken' + i - 1
    <3>1. i + 1 \in 1..Len(queue_) /\ i \in Nat
      BY <1>0, <2>2
    <3>2. queue_'[i].id = FirstPending + (i + 1) - 1
      BY <2>1, <2>2, <3>1
    <3> QED BY <1>1, <1>2, <3>1, <3>2
  <2> QED BY <2>3
<1>5. next_id_' = next_id_ /\ results_' = results_
  BY TakeEffect
<1> QED BY <1>1, <1>2, <1>3, <1>4, <1>5 DEF InOrder

(***************************************************************************)
(* StoreResult finishes exactly the oldest submission without a verdict.   *)
(***************************************************************************)
LEMMA StoreKeepsOrder ==
  ASSUME QueueTyped, InOrder, res.done, StoreResult
  PROVE  InOrder'
<1>0. next_id_ \in Nat \ {0} /\ Len(queue_) \in Nat
  BY LenProperties DEF QueueTyped
<1>1. /\ results_' = [results_ EXCEPT ![task.id] = res]
      /\ next_id_' = next_id_ /\ queue_' = queue_
      /\ pc = "Store" /\ pc' = "Check"
  BY DEF StoreResult
<1>2. Taken = 1 /\ Taken' = 0 /\ Busy /\ ~Busy'
  BY <1>1 DEF Taken, Busy, Judging
<1>3. FirstPending' = FirstPending + 1 /\ FirstPending \in Int /\ FirstPending <= next_id_ - 1
  BY <1>0, <1>1, <1>2 DEF FirstPending
<1>4. task.id = FirstPending /\ res.done
  BY <1>2 DEF InOrder
<1>5. DOMAIN results_' = 1..(next_id_ - 1)
  BY <1>1 DEF InOrder
<1>6. \A id \in 1..(next_id_ - 1) : results_'[id] = IF id = FirstPending THEN res ELSE results_[id]
  BY <1>1, <1>4 DEF InOrder
<1>7. \A id \in 1..(next_id_ - 1) : results_'[id].done <=> id < FirstPending + 1
  <2> SUFFICES ASSUME NEW id \in 1..(next_id_ - 1)
               PROVE  results_'[id].done <=> id < FirstPending + 1
    OBVIOUS
  <2>1. CASE id = FirstPending
    <3>1. id < FirstPending + 1
      BY <2>1, <1>3
    <3> QED BY <1>4, <1>6, <2>1, <3>1
  <2>2. CASE id # FirstPending
    <3>1. id < FirstPending <=> id < FirstPending + 1
      BY <1>0, <1>3, <2>2
    <3> QED BY <1>6, <2>2, <3>1 DEF InOrder
  <2> QED BY <2>1, <2>2
<1>8. \A i \in 1..Len(queue_) : queue_[i].id = FirstPending' + Taken' + i - 1
  BY <1>0, <1>2, <1>3 DEF InOrder
<1>9. FirstPending' >= 1
  BY <1>3 DEF InOrder
<1> QED BY <1>1, <1>2, <1>3, <1>5, <1>7, <1>8, <1>9 DEF InOrder

(***************************************************************************)
(* Every step keeps the order.                                             *)
(***************************************************************************)
LEMMA OrderStep == TypeOK /\ LoopState /\ InOrder /\ [Next]_vars => InOrder'
<1> SUFFICES ASSUME TypeOK, LoopState, InOrder, [Next]_vars PROVE InOrder'
  OBVIOUS
<1>0. QueueTyped
  BY TypedQueue
<1>1. CASE Submissions
  BY <1>0, <1>1, SubmitKeepsOrder DEF Submissions
<1>2. CASE Take
  BY <1>0, <1>2, TakeKeepsOrder
<1>3. CASE StoreResult
  <2>1. res.done
    BY <1>3 DEF StoreResult, LoopState, Busy
  <2> QED BY <1>0, <1>3, <2>1, StoreKeepsOrder
<1>4. CASE ~Submissions /\ ~Take /\ ~StoreResult
  <2>1. UNCHANGED <<next_id_, queue_, results_, task>> /\ (Busy' <=> Busy)
    <3> USE DEF Busy, Judging, members, locals, dirs
    <3>1. ASSUME NEW ok \in BOOLEAN, StartWorker(ok) PROVE <2>1
      BY <3>1 DEF StartWorker
    <3>2. ASSUME NEW ok \in BOOLEAN, Compile(ok) PROVE <2>1
      BY <3>2 DEF Compile
    <3>3. ASSUME NEW ok \in BOOLEAN, CompileSpj(ok) PROVE <2>1
      BY <3>3 DEF CompileSpj
    <3>4. CASE Wait
      BY <3>4 DEF Wait
    <3>5. CASE ExitWorker
      BY <3>5 DEF ExitWorker
    <3>6. CASE AnyRunCase
      <4>1. PICK run \in RunResults, spj \in SpjRuns : RunCase(run, spj)
        BY <3>6 DEF AnyRunCase
      <4> QED BY <4>1 DEF RunCase
    <3>7. CASE Hang
      BY <3>7 DEF Hang
    <3>8. CASE RemoveDir
      BY <3>8 DEF RemoveDir
    <3>9. ASSUME NEW row \in ProblemRows \cup {NoRow}, LoadProblem(row) PROVE <2>1
      BY <3>9 DEF LoadProblem
    <3>10. ASSUME NEW cs \in CaseLists, LoadCases(cs) PROVE <2>1
      BY <3>10 DEF LoadCases
    <3>11. CASE SpuriousWakeup
      BY <3>11 DEF SpuriousWakeup
    <3>12. CASE SetStop
      BY <3>12 DEF SetStop
    <3>13. CASE NotifyAll
      BY <3>13 DEF NotifyAll, Notify
    <3>14. CASE Join
      BY <3>14 DEF Join
    <3>15. CASE UNCHANGED vars
      BY <3>15 DEF vars
    <3> QED
      BY <1>4, <3>1, <3>2, <3>3, <3>4, <3>5, <3>6, <3>7, <3>8, <3>9, <3>10, <3>11, <3>12,
         <3>13, <3>14, <3>15 DEF Next, WorkerStep, OwnStep, Stopped
  <2> QED BY <2>1, OrderQuiet
<1> QED BY <1>1, <1>2, <1>3, <1>4

(***************************************************************************)
(* The ids that are queued or in the hand of the worker have a             *)
(* placeholder.                                                            *)
(***************************************************************************)
LEMMA KnownIds ==
  ASSUME QueueTyped, InOrder
  PROVE  /\ next_id_ \in Nat \ {0} /\ Len(queue_) \in Nat /\ Taken \in {0, 1}
         /\ \A i \in 1..Len(queue_) : queue_[i].id \in 1..(next_id_ - 1)
         /\ Busy => task.id \in 1..(next_id_ - 1)
<1>1. next_id_ \in Nat \ {0} /\ Len(queue_) \in Nat /\ Taken \in {0, 1}
  BY LenProperties DEF QueueTyped, Taken
<1>2. \A i \in 1..Len(queue_) : queue_[i].id \in 1..(next_id_ - 1)
  BY <1>1 DEF InOrder, FirstPending
<1>3. Busy => task.id \in 1..(next_id_ - 1)
  BY <1>1 DEF InOrder, FirstPending, Taken
<1> QED BY <1>1, <1>2, <1>3

(***************************************************************************)
(* The new task and its placeholder have the same owner.                   *)
(***************************************************************************)
LEMMA SubmitKeepsOwner ==
  ASSUME QueueTyped, InOrder, SameOwner,
         NEW u \in Users, NEW p \in Problems, NEW c \in Codes, Submit(u, p, c)
  PROVE  SameOwner'
<1>0. next_id_ \in Nat \ {0} /\ Len(queue_) \in Nat
  BY KnownIds
<1>a. \A i \in 1..Len(queue_) : queue_[i].id \in 1..(next_id_ - 1)
  BY KnownIds
<1>b. Busy => task.id \in 1..(next_id_ - 1)
  BY KnownIds
<1> DEFINE t == NewTask(u, p, c)
           r == Placeholder(t)
<1>2. /\ Len(queue_') = Len(queue_) + 1
      /\ \A i \in 1..Len(queue_) : queue_'[i] = queue_[i]
      /\ queue_'[Len(queue_) + 1] = t
      /\ \A id \in 1..(next_id_ - 1) : results_'[id] = results_[id]
      /\ results_'[next_id_] = r
      /\ pc' = IF pc = "Waiting" THEN "Check" ELSE pc
      /\ task' = task /\ res' = res
  BY SubmitEffect DEF locals
<1>3. Busy' <=> Busy
  BY <1>2 DEF Busy, Judging
<1>4. t.id = next_id_ /\ r.user_id = t.user_id /\ r.problem_id = t.problem_id
  BY DEF NewTask, Placeholder
<1> HIDE DEF t, r
<1>5. \A i \in 1..Len(queue_') : i \in 1..Len(queue_) \/ i = Len(queue_) + 1
  BY <1>0, <1>2
<1>6. \A i \in 1..Len(queue_') :
        /\ queue_'[i].user_id = results_'[queue_'[i].id].user_id
        /\ queue_'[i].problem_id = results_'[queue_'[i].id].problem_id
  BY <1>a, <1>2, <1>4, <1>5 DEF SameOwner
<1>7. Busy' => /\ res'.user_id = results_'[task'.id].user_id
               /\ res'.problem_id = results_'[task'.id].problem_id
  BY <1>b, <1>2, <1>3 DEF SameOwner
<1> QED BY <1>6, <1>7 DEF SameOwner

(***************************************************************************)
(* The result that Take makes belongs to the owner of the task.            *)
(***************************************************************************)
LEMMA TakeKeepsOwner ==
  ASSUME QueueTyped, SameOwner, Take
  PROVE  SameOwner'
<1>1. /\ Len(queue_) \in Nat \ {0}
      /\ Len(queue_') = Len(queue_) - 1
      /\ \A i \in 1..Len(queue_') : queue_'[i] = queue_[i + 1]
      /\ task' = queue_[1]
      /\ res' = NewResult(queue_[1], IF db_ok THEN queue_[1].code ELSE 0)
      /\ results_' = results_
  BY TakeEffect
<1>2. res'.user_id = queue_[1].user_id /\ res'.problem_id = queue_[1].problem_id
  BY <1>1 DEF NewResult
<1>3. 1 \in 1..Len(queue_) /\ \A i \in 1..Len(queue_') : i + 1 \in 1..Len(queue_)
  BY <1>1
<1> QED BY <1>1, <1>2, <1>3 DEF SameOwner

(***************************************************************************)
(* The result replaces a placeholder of the same owner.                    *)
(***************************************************************************)
LEMMA StoreKeepsOwner ==
  ASSUME QueueTyped, InOrder, SameOwner, StoreResult
  PROVE  SameOwner'
<1>a. \A i \in 1..Len(queue_) : queue_[i].id \in 1..(next_id_ - 1)
  BY KnownIds
<1>1. /\ results_' = [results_ EXCEPT ![task.id] = res]
      /\ queue_' = queue_ /\ ~Busy' /\ Busy
  BY DEF StoreResult, Busy, Judging
<1>2. \A id \in 1..(next_id_ - 1) : results_'[id].user_id = results_[id].user_id
                                  /\ results_'[id].problem_id = results_[id].problem_id
  BY <1>1 DEF SameOwner, InOrder
<1> QED BY <1>a, <1>1, <1>2 DEF SameOwner

(***************************************************************************)
(* Tasks and the result being built keep the owner of their placeholder.   *)
(***************************************************************************)
LEMMA OwnerStep == TypeOK /\ LoopState /\ InOrder /\ SameOwner /\ [Next]_vars => SameOwner'
<1> SUFFICES ASSUME TypeOK, LoopState, InOrder, SameOwner, [Next]_vars PROVE SameOwner'
  OBVIOUS
<1>0. QueueTyped
  BY TypedQueue
<1>1. CASE Submissions
  BY <1>0, <1>1, SubmitKeepsOwner DEF Submissions
<1>2. CASE Take
  BY <1>0, <1>2, TakeKeepsOwner
<1>3. CASE StoreResult
  BY <1>0, <1>3, StoreKeepsOwner
<1>4. CASE AnyRunCase
  <2>1. PICK run \in RunResults, spj \in SpjRuns : RunCase(run, spj)
    BY <1>4 DEF AnyRunCase
  <2>2. res \in SubmissionResult
    BY <2>1 DEF RunCase, TypeOK, Busy, Judging
  <2>3. \A cr : AfterCase(cr).user_id = res.user_id /\ AfterCase(cr).problem_id = res.problem_id
    BY <2>2 DEF AfterCase, SubmissionResult
  <2>4. /\ UNCHANGED <<results_, queue_, task>>
        /\ Busy
        /\ res'.user_id = res.user_id /\ res'.problem_id = res.problem_id
    BY <2>1, <2>3 DEF RunCase, members, Busy, Judging
  <2> QED BY <2>4 DEF SameOwner
<1>5. CASE \E ok \in BOOLEAN : Compile(ok)
  <2>1. res \in SubmissionResult
    BY <1>5 DEF Compile, TypeOK, Busy, Judging
  <2>2. /\ UNCHANGED <<results_, queue_, task>>
        /\ Busy
        /\ res'.user_id = res.user_id /\ res'.problem_id = res.problem_id
    BY <1>5, <2>1 DEF Compile, members, Busy, Judging, SubmissionResult
  <2> QED BY <2>2 DEF SameOwner
<1>6. CASE /\ UNCHANGED <<queue_, results_, task, res>>
           /\ Busy' <=> Busy
  BY <1>6 DEF SameOwner
<1>7. \/ Submissions \/ Take \/ StoreResult \/ AnyRunCase \/ \E ok \in BOOLEAN : Compile(ok)
      \/ UNCHANGED <<queue_, results_, task, res>> /\ (Busy' <=> Busy)
  <2> DEFINE Quiet == UNCHANGED <<queue_, results_, task, res>> /\ (Busy' <=> Busy)
  <2> USE DEF Busy, Judging, members, locals, dirs
  <2>1. ASSUME NEW ok \in BOOLEAN, StartWorker(ok) PROVE Quiet
    BY <2>1 DEF StartWorker
  <2>2. ASSUME NEW ok \in BOOLEAN, CompileSpj(ok) PROVE Quiet
    BY <2>2 DEF CompileSpj
  <2>3. Wait \/ ExitWorker \/ Hang \/ RemoveDir \/ SpuriousWakeup => Quiet
    BY DEF Wait, ExitWorker, Hang, RemoveDir, SpuriousWakeup
  <2>4. ASSUME NEW row \in ProblemRows \cup {NoRow}, LoadProblem(row) PROVE Quiet
    BY <2>4 DEF LoadProblem
  <2>5. ASSUME NEW cs \in CaseLists, LoadCases(cs) PROVE Quiet
    BY <2>5 DEF LoadCases
  <2>6. SetStop \/ NotifyAll \/ Join \/ UNCHANGED vars => Quiet
    BY DEF SetStop, NotifyAll, Notify, Join, vars
  <2> HIDE DEF Quiet
  <2>7. Submissions \/ Take \/ StoreResult \/ AnyRunCase \/ (\E ok \in BOOLEAN : Compile(ok)) \/ Quiet
    BY <2>1, <2>2, <2>3, <2>4, <2>5, <2>6 DEF Next, WorkerStep, OwnStep, Stopped
  <2> QED BY <2>7 DEF Quiet
<1> QED BY <1>1, <1>2, <1>3, <1>4, <1>5, <1>6, <1>7

(***************************************************************************)
(* The destructor's steps and the worker's exit.                           *)
(***************************************************************************)
LEMMA ShutdownStep == TypeOK /\ ShutdownState /\ [Next]_vars => ShutdownState'
<1> SUFFICES ASSUME TypeOK, ShutdownState, [Next]_vars PROVE ShutdownState'
  OBVIOUS
<1> USE DEF ShutdownState, members, locals, dirs
<1>1. CASE Submissions
  <2>1. PICK u \in Users, p \in Problems, c \in Codes : Submit(u, p, c)
    BY <1>1 DEF Submissions
  <2>2. main = "listening" /\ stop_' = stop_ /\ main' = main
        /\ pc' = IF pc = "Waiting" THEN "Check" ELSE pc
    BY <2>1 DEF Submit, Notify
  <2> QED BY <2>2
<1>2. ASSUME NEW ok \in BOOLEAN, StartWorker(ok) PROVE ShutdownState'
  BY <1>2 DEF StartWorker
<1>3. ASSUME NEW ok \in BOOLEAN, Compile(ok) PROVE ShutdownState'
  BY <1>3 DEF Compile
<1>4. ASSUME NEW ok \in BOOLEAN, CompileSpj(ok) PROVE ShutdownState'
  BY <1>4 DEF CompileSpj
<1>5. CASE Wait
  BY <1>5 DEF Wait
<1>6. CASE ExitWorker
  BY <1>6 DEF ExitWorker
<1>7. CASE Take
  BY <1>7, TakeEffect, TypedQueue
<1>8. CASE AnyRunCase
  <2>1. PICK run \in RunResults, spj \in SpjRuns : RunCase(run, spj)
    BY <1>8 DEF AnyRunCase
  <2> QED BY <2>1 DEF RunCase
<1>9. CASE Hang
  BY <1>9 DEF Hang
<1>10. CASE RemoveDir
  BY <1>10 DEF RemoveDir
<1>11. CASE StoreResult
  BY <1>11 DEF StoreResult
<1>12. ASSUME NEW row \in ProblemRows \cup {NoRow}, LoadProblem(row) PROVE ShutdownState'
  BY <1>12 DEF LoadProblem
<1>13. ASSUME NEW cs \in CaseLists, LoadCases(cs) PROVE ShutdownState'
  BY <1>13 DEF LoadCases
<1>14. CASE SpuriousWakeup
  BY <1>14 DEF SpuriousWakeup
<1>15. CASE SetStop
  BY <1>15 DEF SetStop
<1>16. CASE NotifyAll
  BY <1>16 DEF NotifyAll, Notify
<1>17. CASE Join
  BY <1>17 DEF Join
<1>18. CASE UNCHANGED vars
  BY <1>18 DEF vars
<1> QED
  BY <1>1, <1>2, <1>3, <1>4, <1>5, <1>6, <1>7, <1>8, <1>9, <1>10, <1>11, <1>12, <1>13,
     <1>14, <1>15, <1>16, <1>17, <1>18
  DEF Next, WorkerStep, OwnStep, Stopped

(***************************************************************************)
(* A system error found before the first case explains itself.             *)
(***************************************************************************)
LEMMA SystemErrorExplained ==
  ASSUME NEW r, r \in SubmissionResult, r.status = "SE",
         \A i \in 1..Len(r.cases) : r.cases[i].status = "AC"
  PROVE  StatusFromCases(r)
<1>1. Len(r.cases) \in Nat
  BY LenProperties DEF SubmissionResult
<1>2. \A i \in 1..(Len(r.cases) - 1) : i \in 1..Len(r.cases)
  BY <1>1
<1>3. Len(r.cases) > 0 => r.cases[Len(r.cases)].status = "AC"
  BY <1>1
<1> QED BY <1>2, <1>3 DEF StatusFromCases

(***************************************************************************)
(* One iteration of the loop over the cases keeps its invariant.           *)
(***************************************************************************)
LEMMA RunCaseKeepsLoop ==
  ASSUME TypeOK, LoopState, AnyRunCase
  PROVE  LoopState'
<1>1. PICK run \in RunResults, spj \in SpjRuns : RunCase(run, spj)
  BY DEF AnyRunCase
<1> DEFINE c      == cases[Len(res.cases) + 1]
           status == StatusOf(judge_type, run, c.expected, spj)
           cr     == [order_no |-> c.order_no, status |-> status, time_ms |-> run.cpu_ms]
           n      == Len(res.cases)
<1>2. pc = "RunCase" /\ cases' = cases
  BY <1>1 DEF RunCase
<1>3. /\ res \in SubmissionResult /\ res.done /\ res.status = "SE"
      /\ \A i \in 1..n : res.cases[i].status = "AC"
      /\ n < Len(cases) /\ n \in Nat /\ Len(cases) \in Nat
  <2>1. res \in SubmissionResult /\ cases \in Seq(TestCases)
    BY <1>2 DEF TypeOK, Busy, Judging
  <2>2. n \in Nat /\ Len(cases) \in Nat
    BY <2>1, LenProperties DEF SubmissionResult
  <2> QED BY <1>2, <2>1, <2>2 DEF LoopState, Busy, Judging
<1>4. c.order_no \in Nat
  BY <1>2, CurrentCase
<1>5. status \in CaseStatus \cup {"abort"} /\ run.cpu_ms \in Nat
  <2>1. run.kind \in ExitKind /\ run.cpu_ms \in Nat
    BY RunsAssumption DEF IsRunResult
  <2> QED BY <2>1, StatusRange
<1>6. CASE status = "abort"
  <2>1. res' = res /\ pc' = "RemoveDir"
    BY <1>1, <1>6 DEF RunCase
  <2> QED BY <1>3, <2>1, SystemErrorExplained DEF LoopState, Busy, Judging
<1>7. CASE status # "abort"
  <2>1. /\ res' = AfterCase(cr)
        /\ pc' = IF status = "AC" /\ ~IsLast(n + 1) THEN "RunCase" ELSE "RemoveDir"
    BY <1>1, <1>7 DEF RunCase
  <2>2. cr \in CaseResult /\ cr.status = status
    BY <1>4, <1>5, <1>7 DEF CaseResult
  <2> HIDE DEF cr, status, c
  <2>3. /\ res' \in SubmissionResult
        /\ Len(res'.cases) = n + 1
        /\ \A i \in 1..n : res'.cases[i] = res.cases[i]
        /\ res'.cases[n + 1] = cr
    BY <1>3, <2>1, <2>2, AfterCaseType
  <2>4. /\ res'.status = IF status # "AC" THEN status ELSE IF IsLast(n + 1) THEN "AC" ELSE "SE"
        /\ res'.done = res.done
    BY <1>3, <2>1, <2>2 DEF AfterCase, SubmissionResult
  <2>5. \A i \in 1..((n + 1) - 1) : res'.cases[i].status = "AC"
    BY <1>3, <2>3
  <2>6. CASE status = "AC" /\ ~IsLast(n + 1)
    <3>1. n + 1 < Len(cases)
      BY <1>3, <2>6 DEF IsLast
    <3>2. \A i \in 1..(n + 1) : i \in 1..n \/ i = n + 1
      BY <1>3
    <3>3. \A i \in 1..(n + 1) : res'.cases[i].status = "AC"
      BY <1>3, <2>2, <2>3, <2>6, <3>2
    <3>4. pc' = "RunCase" /\ res'.status = "SE"
      BY <2>1, <2>4, <2>6
    <3> QED BY <1>2, <1>3, <2>3, <2>4, <3>1, <3>3, <3>4 DEF LoopState, Busy, Judging
  <2>7. CASE ~(status = "AC" /\ ~IsLast(n + 1))
    <3>1. pc' = "RemoveDir" /\ res'.status = status
      BY <2>1, <2>4, <2>7
    <3>2. res'.cases[n + 1].status = res'.status /\ n + 1 > 0
      BY <1>3, <2>2, <2>3, <3>1
    <3>3. status \in CaseStatus
      BY <1>5, <1>7
    <3>4. StatusFromCases(res')
      BY <2>3, <2>5, <3>1, <3>2, <3>3 DEF StatusFromCases, CaseStatus
    <3>5. res'.status # ""
      BY <3>1, <3>3 DEF CaseStatus
    <3> QED BY <1>3, <2>4, <3>1, <3>4, <3>5 DEF LoopState, Busy, Judging
  <2> QED BY <2>6, <2>7
<1> QED BY <1>6, <1>7

LEMMA LoopStep == TypeOK /\ LoopState /\ [Next]_vars => LoopState'
<1> SUFFICES ASSUME TypeOK, LoopState, [Next]_vars PROVE LoopState'
  OBVIOUS
<1> USE DEF Busy, Judging, members, locals, dirs
<1>0. /\ Busy => res \in SubmissionResult
      /\ pc \in {"LoadProblem", "Compile", "CompileSpj", "LoadCases"} =>
           /\ res.cases = <<>> /\ Len(res.cases) = 0 /\ StatusFromCases(res)
           /\ res.done /\ res.status = "SE"
  <2>1. Busy => res \in SubmissionResult
    BY DEF TypeOK
  <2>2. Len(<<>>) = 0
    BY EmptySeq
  <2> QED BY <2>1, <2>2, SystemErrorExplained DEF LoopState
<1>1. CASE Submissions
  <2>1. PICK u \in Users, p \in Problems, c \in Codes : Submit(u, p, c)
    BY <1>1 DEF Submissions
  <2>2. UNCHANGED <<res, cases>> /\ pc' = IF pc = "Waiting" THEN "Check" ELSE pc
    BY <2>1 DEF Submit, Notify
  <2> QED BY <2>2 DEF LoopState
<1>2. ASSUME NEW ok \in BOOLEAN, StartWorker(ok) PROVE LoopState'
  BY <1>2 DEF StartWorker, LoopState
<1>3. ASSUME NEW ok \in BOOLEAN, Compile(ok) PROVE LoopState'
  <2>1. CASE ok
    <3>1. res' = res /\ cases' = cases /\ pc = "Compile" /\ pc' \in {"CompileSpj", "LoadCases"}
      BY <1>3, <2>1 DEF Compile
    <3> QED BY <1>0, <3>1 DEF LoopState
  <2>2. CASE ~ok
    <3>1. res' = [res EXCEPT !.status = "CE"] /\ pc = "Compile" /\ pc' = "RemoveDir"
      BY <1>3, <2>2 DEF Compile
    <3>2. res'.status = "CE" /\ res'.cases = <<>> /\ res'.done
      BY <1>0, <3>1 DEF SubmissionResult
    <3>3. StatusFromCases(res')
      BY <3>2, EmptySeq DEF StatusFromCases
    <3> QED BY <3>1, <3>2, <3>3 DEF LoopState
  <2> QED BY <2>1, <2>2
<1>4. ASSUME NEW ok \in BOOLEAN, CompileSpj(ok) PROVE LoopState'
  BY <1>0, <1>4 DEF CompileSpj, LoopState
<1>5. CASE Wait
  BY <1>5 DEF Wait, LoopState
<1>6. CASE ExitWorker
  BY <1>6 DEF ExitWorker, LoopState
<1>7. CASE Take
  <2>1. res' = NewResult(queue_[1], IF db_ok THEN queue_[1].code ELSE 0)
        /\ pc' \in {"LoadProblem", "Store"}
    BY <1>7, TakeEffect, TypedQueue
  <2>2. res'.status = "SE" /\ res'.cases = <<>> /\ res'.done
    BY <2>1 DEF NewResult
  <2>3. StatusFromCases(res')
    BY <2>2, EmptySeq DEF StatusFromCases
  <2>4. \A i \in 1..Len(res'.cases) : res'.cases[i].status = "AC"
    BY <2>2, EmptySeq
  <2> QED BY <2>1, <2>2, <2>3, <2>4 DEF LoopState
<1>8. CASE AnyRunCase
  BY <1>8, RunCaseKeepsLoop
<1>9. CASE Hang
  BY <1>9 DEF Hang, LoopState
<1>10. CASE RemoveDir
  BY <1>10 DEF RemoveDir, LoopState
<1>11. CASE StoreResult
  BY <1>11 DEF StoreResult, LoopState
<1>12. ASSUME NEW row \in ProblemRows \cup {NoRow}, LoadProblem(row) PROVE LoopState'
  <2>1. UNCHANGED <<res, cases>> /\ pc = "LoadProblem" /\ pc' \in {"RemoveDir", "Compile"}
    BY <1>12 DEF LoadProblem
  <2> QED BY <1>0, <2>1 DEF LoopState
<1>13. ASSUME NEW cs \in CaseLists, LoadCases(cs) PROVE LoopState'
  <2>1. /\ res' = res /\ cases' = cs /\ pc = "LoadCases"
        /\ pc' = IF cs = <<>> THEN "RemoveDir" ELSE "RunCase"
    BY <1>13 DEF LoadCases
  <2>2. cs # <<>> => 0 < Len(cs)
    BY CasesAssumption, EmptySeq
  <2> QED BY <1>0, <2>1, <2>2 DEF LoopState
<1>14. CASE SpuriousWakeup
  BY <1>14 DEF SpuriousWakeup, LoopState
<1>15. CASE SetStop
  BY <1>15 DEF SetStop, LoopState
<1>16. CASE NotifyAll
  BY <1>16 DEF NotifyAll, Notify, LoopState
<1>17. CASE Join
  BY <1>17 DEF Join, LoopState
<1>18. CASE UNCHANGED vars
  BY <1>18 DEF vars, LoopState
<1> QED
  BY <1>1, <1>2, <1>3, <1>4, <1>5, <1>6, <1>7, <1>8, <1>9, <1>10, <1>11, <1>12, <1>13,
     <1>14, <1>15, <1>16, <1>17, <1>18
  DEF Next, WorkerStep, OwnStep, Stopped

(***************************************************************************)
(* Only StoreResult publishes a final result, and RunTask explained it.    *)
(***************************************************************************)
LEMMA VerdictStep ==
  TypeOK /\ InOrder /\ LoopState /\ VerdictExplained /\ [Next]_vars => VerdictExplained'
<1> SUFFICES ASSUME TypeOK, InOrder, LoopState, VerdictExplained, [Next]_vars
             PROVE  VerdictExplained'
  OBVIOUS
<1>1. CASE Submissions
  <2>1. PICK u \in Users, p \in Problems, c \in Codes : Submit(u, p, c)
    BY <1>1 DEF Submissions
  <2> DEFINE r == Placeholder(NewTask(u, p, c))
  <2>2. /\ DOMAIN results_' = 1..next_id_
        /\ \A id \in 1..(next_id_ - 1) : results_'[id] = results_[id]
        /\ results_'[next_id_] = r
    BY <2>1, SubmitEffect, TypedQueue
  <2>3. r.done = FALSE
    BY DEF Placeholder
  <2> HIDE DEF r
  <2>4. \A id \in 1..next_id_ : id \in 1..(next_id_ - 1) \/ id = next_id_
    BY DEF TypeOK
  <2> QED BY <2>2, <2>3, <2>4 DEF VerdictExplained, Finished, InOrder
<1>2. CASE StoreResult
  <2>1. results_' = [results_ EXCEPT ![task.id] = res] /\ pc = "Store"
    BY <1>2 DEF StoreResult
  <2>2. StatusFromCases(res)
    BY <2>1 DEF LoopState
  <2>3. \A id \in DOMAIN results_' : id \in DOMAIN results_ /\ results_'[id] \in {res, results_[id]}
    BY <2>1
  <2> QED BY <2>2, <2>3 DEF VerdictExplained, Finished
<1>3. CASE results_' = results_
  BY <1>3 DEF VerdictExplained, Finished
<1>4. Submissions \/ StoreResult \/ results_' = results_
  BY DEF Next, WorkerStep, OwnStep, Stopped, StartWorker, Compile, CompileSpj, Wait, ExitWorker,
         Take, AnyRunCase, RunCase, Hang, RemoveDir, LoadProblem, LoadCases, SpuriousWakeup,
         SetStop, NotifyAll, Join, vars, members
<1> QED BY <1>1, <1>2, <1>3, <1>4

(***************************************************************************)
(* The inductive invariant holds initially and is kept by every step.      *)
(***************************************************************************)
LEMMA InvInit == Init => IInv
<1> SUFFICES ASSUME Init PROVE IInv
  OBVIOUS
<1>1. next_id_ = 1 /\ queue_ = <<>> /\ results_ = <<>> /\ pc = "Start" /\ main = "listening" /\ ~stop_
  BY DEF Init
<1>2. ~Busy /\ Taken = 0
  BY <1>1 DEF Busy, Judging, Taken
<1>3. Len(<<>>) = 0 /\ DOMAIN results_ = 1..0
  BY <1>1, EmptySeq, LenProperties
<1>4. FirstPending = 1
  BY <1>1, <1>2, <1>3 DEF FirstPending
<1>5. InOrder
  BY <1>1, <1>2, <1>3, <1>4 DEF InOrder
<1>6. SameOwner
  BY <1>1, <1>2, <1>3 DEF SameOwner
<1>7. LoopState /\ ShutdownState
  BY <1>1, <1>2 DEF LoopState, ShutdownState, Judging
<1>8. VerdictExplained
  BY <1>3 DEF VerdictExplained
<1> QED BY <1>5, <1>6, <1>7, <1>8, TypeInit DEF IInv

LEMMA InvStep == IInv /\ [Next]_vars => IInv'
BY TypeStep, OrderStep, OwnerStep, LoopStep, ShutdownStep, VerdictStep DEF IInv

LEMMA Invariance == Spec => []IInv
BY InvInit, InvStep, PTL DEF Spec

(***************************************************************************)
(* The state of the service is well typed for every set of users,          *)
(* problems, sources and case lists: in particular each id below next_id_  *)
(* has a result (IMPROVEMENTS.md: no 404 for a submission just made).      *)
(***************************************************************************)
THEOREM TypeCorrect == Spec => []TypeOK
BY Invariance, PTL DEF IInv

(***************************************************************************)
(* No submission is lost, judged twice or overtaken.                       *)
(***************************************************************************)
THEOREM OrderCorrect == Spec => [](InOrder /\ SameOwner)
BY Invariance, PTL DEF IInv

(***************************************************************************)
(* Every published verdict is explained by its list of cases.              *)
(***************************************************************************)
THEOREM VerdictsCorrect == Spec => []VerdictExplained
BY Invariance, PTL DEF IInv

(***************************************************************************)
(* Facts about the numbers of InOrder, for the two theorems below.         *)
(***************************************************************************)
LEMMA Numbers ==
  ASSUME QueueTyped, InOrder
  PROVE  /\ next_id_ \in Nat \ {0} /\ Len(queue_) \in Nat /\ Taken \in {0, 1}
         /\ FirstPending \in Int /\ FirstPending >= 1 /\ FirstPending <= next_id_
         /\ Busy => FirstPending <= next_id_ - 1
<1>1. next_id_ \in Nat \ {0} /\ Len(queue_) \in Nat /\ Taken \in {0, 1}
  BY KnownIds
<1>2. FirstPending \in Int /\ FirstPending <= next_id_
  BY <1>1 DEF FirstPending
<1>3. Busy => FirstPending <= next_id_ - 1
  BY <1>1 DEF FirstPending, Taken
<1>4. FirstPending >= 1
  BY DEF InOrder
<1> QED BY <1>1, <1>2, <1>3, <1>4

(***************************************************************************)
(* A new submission changes no answer, and a stored result only an answer  *)
(* that was still pending.                                                 *)
(***************************************************************************)
LEMMA SubmitKeepsAnswers ==
  ASSUME QueueTyped, InOrder, NEW u \in Users, NEW p \in Problems, NEW c \in Codes, Submit(u, p, c)
  PROVE  AnswerKept
<1> DEFINE r == Placeholder(NewTask(u, p, c))
<1>2. /\ DOMAIN results_' = 1..next_id_
      /\ \A id \in 1..(next_id_ - 1) : results_'[id] = results_[id]
  BY SubmitEffect
<1>3. \A id \in 1..(next_id_ - 1) : id \in 1..next_id_
  BY DEF QueueTyped
<1> QED BY <1>2, <1>3 DEF AnswerKept, InOrder

LEMMA StoreKeepsAnswers ==
  ASSUME QueueTyped, InOrder, SameOwner, StoreResult
  PROVE  AnswerKept
<1>1. results_' = [results_ EXCEPT ![task.id] = res] /\ Busy
  BY DEF StoreResult, Busy
<1>2. task.id = FirstPending /\ task.id \in 1..(next_id_ - 1) /\ task.id \in DOMAIN results_
  BY <1>1, Numbers DEF InOrder
<1>3. ~(FirstPending < FirstPending)
  BY Numbers
<1>4. ~results_[task.id].done
  BY <1>2, <1>3 DEF InOrder
<1>5. results_'[task.id] = res /\ \A id \in DOMAIN results_ : id # task.id => results_'[id] = results_[id]
  BY <1>1, <1>2
<1>6. DOMAIN results_' = DOMAIN results_
  BY <1>1
<1>7. res.user_id = results_[task.id].user_id /\ res.problem_id = results_[task.id].problem_id
  BY <1>1 DEF SameOwner
<1> QED BY <1>4, <1>5, <1>6, <1>7 DEF AnswerKept

LEMMA AnswerStep == IInv /\ [Next]_vars => AnswerKept \/ UNCHANGED vars
<1> SUFFICES ASSUME IInv, [Next]_vars PROVE AnswerKept
  OBVIOUS
<1>0. QueueTyped /\ InOrder /\ SameOwner
  BY TypedQueue DEF IInv
<1>1. CASE Submissions
  BY <1>0, <1>1, SubmitKeepsAnswers DEF Submissions
<1>2. CASE StoreResult
  BY <1>0, <1>2, StoreKeepsAnswers
<1>3. CASE results_' = results_
  BY <1>3 DEF AnswerKept
<1>4. Submissions \/ StoreResult \/ results_' = results_
  BY DEF Next, WorkerStep, OwnStep, Stopped, StartWorker, Compile, CompileSpj, Wait, ExitWorker,
         Take, AnyRunCase, RunCase, Hang, RemoveDir, LoadProblem, LoadCases, SpuriousWakeup,
         SetStop, NotifyAll, Join, vars, members
<1> QED BY <1>1, <1>2, <1>3, <1>4

(***************************************************************************)
(* What a client has been told stays true: no answer disappears, changes   *)
(* owner, or changes once it is final.                                     *)
(***************************************************************************)
THEOREM AnswersCorrect == Spec => AnswersAreFinal
<1>1. IInv /\ [Next]_vars => [AnswerKept]_vars
  BY AnswerStep
<1> QED BY <1>1, Invariance, PTL DEF Spec, AnswersAreFinal

(***************************************************************************)
(* The sets that the profile counts, as a function of the results.         *)
(***************************************************************************)
MineIn(r, u) == {id \in DOMAIN r : r[id].user_id = u /\ r[id].done}
AcceptedIn(r, u) == {id \in MineIn(r, u) : r[id].status = "AC"}

LEMMA StatsOf ==
  ASSUME NEW u
  PROVE  /\ GetUserStats(u).total = Cardinality(MineIn(results_, u))
         /\ GetUserStats(u).accepted = Cardinality(AcceptedIn(results_, u))
         /\ GetUserStats(u).solved = {results_[id].problem_id : id \in AcceptedIn(results_, u)}
BY DEF GetUserStats, MineIn, AcceptedIn

LEMMA StatsOfNext ==
  ASSUME NEW CONSTANT u
  PROVE  /\ GetUserStats(u)'.total = Cardinality(MineIn(results_', u))
         /\ GetUserStats(u)'.accepted = Cardinality(AcceptedIn(results_', u))
         /\ GetUserStats(u)'.solved = {results_'[id].problem_id : id \in AcceptedIn(results_', u)}
BY DEF GetUserStats, MineIn, AcceptedIn

(***************************************************************************)
(* When every answer is kept, what is counted stays counted.               *)
(***************************************************************************)
LEMMA CountsGrow ==
  ASSUME AnswerKept, NEW n \in Nat, DOMAIN results_' = 1..n, NEW u
  PROVE  /\ MineIn(results_, u) \subseteq MineIn(results_', u)
         /\ AcceptedIn(results_, u) \subseteq AcceptedIn(results_', u)
         /\ Cardinality(MineIn(results_, u)) <= Cardinality(MineIn(results_', u))
         /\ Cardinality(AcceptedIn(results_, u)) <= Cardinality(AcceptedIn(results_', u))
<1>1. MineIn(results_, u) \subseteq MineIn(results_', u)
  BY DEF AnswerKept, MineIn
<1>2. AcceptedIn(results_, u) \subseteq AcceptedIn(results_', u)
  BY <1>1 DEF AnswerKept, MineIn, AcceptedIn
<1>3. IsFiniteSet(1..n)
  BY FS_Interval
<1>4. MineIn(results_', u) \subseteq 1..n /\ AcceptedIn(results_', u) \subseteq 1..n
  BY DEF MineIn, AcceptedIn
<1>5. IsFiniteSet(MineIn(results_', u)) /\ IsFiniteSet(AcceptedIn(results_', u))
  BY <1>3, <1>4, FS_Subset
<1> QED BY <1>1, <1>2, <1>5, FS_Subset

LEMMA StatsStep ==
  ASSUME IInv, [Next]_vars, NEW CONSTANT u \in Users
  PROVE  /\ GetUserStats(u)'.total >= GetUserStats(u).total
         /\ GetUserStats(u)'.accepted >= GetUserStats(u).accepted
         /\ GetUserStats(u).solved \subseteq GetUserStats(u)'.solved
<1>1. IInv' /\ AnswerKept
  <2>1. UNCHANGED vars => AnswerKept
    BY DEF vars, members, AnswerKept
  <2> QED BY <2>1, InvStep, AnswerStep
<1>2. PICK n \in Nat : DOMAIN results_' = 1..n
  <2>1. PICK m \in Nat \ {0} : m = next_id_'
    BY <1>1 DEF IInv, TypeOK
  <2>2. DOMAIN results_' = 1..(m - 1)
    BY <1>1, <2>1 DEF IInv, InOrder
  <2>3. m - 1 \in Nat
    OBVIOUS
  <2> QED BY <2>2, <2>3
<1>3. /\ MineIn(results_, u) \subseteq MineIn(results_', u)
      /\ AcceptedIn(results_, u) \subseteq AcceptedIn(results_', u)
      /\ Cardinality(MineIn(results_, u)) <= Cardinality(MineIn(results_', u))
      /\ Cardinality(AcceptedIn(results_, u)) <= Cardinality(AcceptedIn(results_', u))
  BY <1>1, <1>2, CountsGrow
<1>4. IsFiniteSet(1..n)
  BY <1>2, FS_Interval
<1>5. /\ Cardinality(MineIn(results_', u)) >= Cardinality(MineIn(results_, u))
      /\ Cardinality(AcceptedIn(results_', u)) >= Cardinality(AcceptedIn(results_, u))
  <2>1. MineIn(results_', u) \subseteq 1..n /\ AcceptedIn(results_', u) \subseteq 1..n
    BY <1>2 DEF MineIn, AcceptedIn
  <2>2. MineIn(results_, u) \subseteq 1..n /\ AcceptedIn(results_, u) \subseteq 1..n
    BY <1>3, <2>1
  <2>3. /\ IsFiniteSet(MineIn(results_, u)) /\ IsFiniteSet(MineIn(results_', u))
        /\ IsFiniteSet(AcceptedIn(results_, u)) /\ IsFiniteSet(AcceptedIn(results_', u))
    BY <1>4, <2>1, <2>2, FS_Subset
  <2>4. /\ Cardinality(MineIn(results_, u)) \in Nat /\ Cardinality(MineIn(results_', u)) \in Nat
        /\ Cardinality(AcceptedIn(results_, u)) \in Nat
        /\ Cardinality(AcceptedIn(results_', u)) \in Nat
    BY <2>3, FS_CardinalityType
  <2> QED BY <1>3, <2>4
<1>6. {results_[id].problem_id : id \in AcceptedIn(results_, u)}
        \subseteq {results_'[id].problem_id : id \in AcceptedIn(results_', u)}
  <2>1. \A id \in AcceptedIn(results_, u) : results_'[id] = results_[id]
    BY <1>1 DEF AcceptedIn, MineIn, AnswerKept
  <2> QED BY <1>3, <2>1
<1> QED BY <1>5, <1>6, StatsOf, StatsOfNext

(***************************************************************************)
(* The numbers of the profile page never shrink while the process lives.   *)
(***************************************************************************)
THEOREM StatsGrow == Spec => StatsNeverShrink
<1> DEFINE Grown(u) == /\ GetUserStats(u)'.total >= GetUserStats(u).total
                       /\ GetUserStats(u)'.accepted >= GetUserStats(u).accepted
                       /\ GetUserStats(u).solved \subseteq GetUserStats(u)'.solved
<1>1. IInv /\ [Next]_vars => [\A u \in Users : Grown(u)]_vars
  BY StatsStep
<1> QED BY <1>1, Invariance, PTL DEF Spec, StatsNeverShrink

(***************************************************************************)
(* The views that the refinement is made of are sequences.                 *)
(***************************************************************************)
LEMMA FunctionIsSeq ==
  ASSUME NEW n \in Nat, NEW S, NEW f \in [1..n -> S]
  PROVE  f \in Seq(S) /\ Len(f) = n
OBVIOUS

LEMMA Views ==
  ASSUME NEW n \in Nat, NEW r, \A id \in 1..n : r[id] \in SubmissionResult
  PROVE  /\ LogOf(r, n) \in Seq(Service!Entry) /\ Len(LogOf(r, n)) = n
         /\ \A id \in 1..n : LogOf(r, n)[id] =
                             [user_id |-> r[id].user_id, problem_id |-> r[id].problem_id]
         /\ VerdictsOf(r, n) \in Seq(Verdicts \cup {""}) /\ Len(VerdictsOf(r, n)) = n
         /\ \A id \in 1..n : VerdictsOf(r, n)[id] = r[id].status
<1>1. \A id \in 1..n :
        /\ [user_id |-> r[id].user_id, problem_id |-> r[id].problem_id] \in Service!Entry
        /\ r[id].status \in Verdicts \cup {""}
  BY DEF SubmissionResult, Service!Entry
<1>2. LogOf(r, n) \in [1..n -> Service!Entry]
  BY <1>1 DEF LogOf
<1>3. VerdictsOf(r, n) \in [1..n -> Verdicts \cup {""}]
  BY <1>1 DEF VerdictsOf
<1>4. \A id \in 1..n : LogOf(r, n)[id] =
                       [user_id |-> r[id].user_id, problem_id |-> r[id].problem_id]
  BY DEF LogOf
<1>5. \A id \in 1..n : VerdictsOf(r, n)[id] = r[id].status
  BY DEF VerdictsOf
<1> QED BY <1>2, <1>3, <1>4, <1>5, FunctionIsSeq

(***************************************************************************)
(* The same for the two views of a state.                                  *)
(***************************************************************************)
LEMMA StateViews ==
  TypeOK /\ InOrder =>
    /\ LogView \in Seq(Service!Entry) /\ Len(LogView) = next_id_ - 1
    /\ \A id \in 1..(next_id_ - 1) : LogView[id] =
          [user_id |-> results_[id].user_id, problem_id |-> results_[id].problem_id]
    /\ VerdictView \in Seq(Verdicts \cup {""}) /\ Len(VerdictView) = FirstPending - 1
    /\ \A id \in 1..(FirstPending - 1) : VerdictView[id] = results_[id].status
<1> SUFFICES ASSUME TypeOK, InOrder
             PROVE  /\ LogView \in Seq(Service!Entry) /\ Len(LogView) = next_id_ - 1
                    /\ \A id \in 1..(next_id_ - 1) : LogView[id] =
                          [user_id |-> results_[id].user_id, problem_id |-> results_[id].problem_id]
                    /\ VerdictView \in Seq(Verdicts \cup {""}) /\ Len(VerdictView) = FirstPending - 1
                    /\ \A id \in 1..(FirstPending - 1) : VerdictView[id] = results_[id].status
  OBVIOUS
<1>1. next_id_ - 1 \in Nat /\ FirstPending - 1 \in Nat
      /\ 1..(FirstPending - 1) \subseteq 1..(next_id_ - 1)
  BY Numbers, TypedQueue
<1>2. \A id \in 1..(next_id_ - 1) : results_[id] \in SubmissionResult
  BY DEF TypeOK
<1>3. LogView = LogOf(results_, next_id_ - 1) /\ VerdictView = VerdictsOf(results_, FirstPending - 1)
  BY DEF LogView, VerdictView
<1>4. \A id \in 1..(FirstPending - 1) : results_[id] \in SubmissionResult
  BY <1>1, <1>2
<1>5. /\ LogOf(results_, next_id_ - 1) \in Seq(Service!Entry)
      /\ Len(LogOf(results_, next_id_ - 1)) = next_id_ - 1
      /\ \A id \in 1..(next_id_ - 1) : LogOf(results_, next_id_ - 1)[id] =
            [user_id |-> results_[id].user_id, problem_id |-> results_[id].problem_id]
  <2> DEFINE n == next_id_ - 1
             r == results_
  <2>1. n \in Nat /\ \A id \in 1..n : r[id] \in SubmissionResult
    BY <1>1, <1>2
  <2> HIDE DEF n, r
  <2>2. /\ LogOf(r, n) \in Seq(Service!Entry) /\ Len(LogOf(r, n)) = n
        /\ \A id \in 1..n : LogOf(r, n)[id] =
                            [user_id |-> r[id].user_id, problem_id |-> r[id].problem_id]
    BY <2>1, Views, ZenonT(30)
  <2> QED BY <2>2 DEF n, r
<1>6. /\ VerdictsOf(results_, FirstPending - 1) \in Seq(Verdicts \cup {""})
      /\ Len(VerdictsOf(results_, FirstPending - 1)) = FirstPending - 1
      /\ \A id \in 1..(FirstPending - 1) :
            VerdictsOf(results_, FirstPending - 1)[id] = results_[id].status
  <2> DEFINE n == FirstPending - 1
             r == results_
  <2>1. n \in Nat /\ \A id \in 1..n : r[id] \in SubmissionResult
    BY <1>1, <1>4
  <2> HIDE DEF n, r
  <2>2. /\ VerdictsOf(r, n) \in Seq(Verdicts \cup {""}) /\ Len(VerdictsOf(r, n)) = n
        /\ \A id \in 1..n : VerdictsOf(r, n)[id] = r[id].status
    BY <2>1, Views, ZenonT(30)
  <2> QED BY <2>2 DEF n, r
<1> QED BY <1>3, <1>5, <1>6

LEMMA StateViewsNext ==
  ASSUME TypeOK', InOrder'
  PROVE  /\ LogView' \in Seq(Service!Entry) /\ Len(LogView') = next_id_' - 1
         /\ \A id \in 1..(next_id_' - 1) : LogView'[id] =
               [user_id |-> results_'[id].user_id, problem_id |-> results_'[id].problem_id]
         /\ VerdictView' \in Seq(Verdicts \cup {""}) /\ Len(VerdictView') = FirstPending' - 1
         /\ \A id \in 1..(FirstPending' - 1) : VerdictView'[id] = results_'[id].status
<1>1. next_id_' - 1 \in Nat /\ FirstPending' - 1 \in Nat
      /\ 1..(FirstPending' - 1) \subseteq 1..(next_id_' - 1)
  <2>1. next_id_' \in Nat \ {0} /\ Len(queue_') \in Nat /\ Taken' \in {0, 1}
    BY LenProperties DEF TypeOK, Taken
  <2>2. FirstPending' >= 1 /\ FirstPending' = next_id_' - Len(queue_') - Taken'
    BY DEF InOrder, FirstPending
  <2>3. FirstPending' \in Int /\ FirstPending' <= next_id_'
    BY <2>1, <2>2
  <2> DEFINE n == next_id_'
             f == FirstPending'
  <2>4. n \in Nat \ {0} /\ f \in Int /\ f >= 1 /\ f <= n
    BY <2>1, <2>2, <2>3
  <2> HIDE DEF n, f
  <2>5. n - 1 \in Nat /\ f - 1 \in Nat /\ 1..(f - 1) \subseteq 1..(n - 1)
    BY <2>4
  <2> QED BY <2>5 DEF n, f
<1>2. \A id \in 1..(next_id_' - 1) : results_'[id] \in SubmissionResult
  BY DEF TypeOK, SubmissionResult, CaseResult
<1>3. LogView' = LogOf(results_', next_id_' - 1) /\ VerdictView' = VerdictsOf(results_', FirstPending' - 1)
  BY DEF LogView, VerdictView
<1>4. \A id \in 1..(FirstPending' - 1) : results_'[id] \in SubmissionResult
  BY <1>1, <1>2
<1>5. /\ LogOf(results_', next_id_' - 1) \in Seq(Service!Entry)
      /\ Len(LogOf(results_', next_id_' - 1)) = next_id_' - 1
      /\ \A id \in 1..(next_id_' - 1) : LogOf(results_', next_id_' - 1)[id] =
            [user_id |-> results_'[id].user_id, problem_id |-> results_'[id].problem_id]
  <2> DEFINE n == next_id_' - 1
             r == results_'
  <2>1. n \in Nat /\ \A id \in 1..n : r[id] \in SubmissionResult
    BY <1>1, <1>2
  <2> HIDE DEF n, r
  <2>2. /\ LogOf(r, n) \in Seq(Service!Entry) /\ Len(LogOf(r, n)) = n
        /\ \A id \in 1..n : LogOf(r, n)[id] =
                            [user_id |-> r[id].user_id, problem_id |-> r[id].problem_id]
    BY <2>1, Views, ZenonT(30)
  <2> QED BY <2>2 DEF n, r
<1>6. /\ VerdictsOf(results_', FirstPending' - 1) \in Seq(Verdicts \cup {""})
      /\ Len(VerdictsOf(results_', FirstPending' - 1)) = FirstPending' - 1
      /\ \A id \in 1..(FirstPending' - 1) :
            VerdictsOf(results_', FirstPending' - 1)[id] = results_'[id].status
  <2> DEFINE n == FirstPending' - 1
             r == results_'
  <2>1. n \in Nat /\ \A id \in 1..n : r[id] \in SubmissionResult
    BY <1>1, <1>4
  <2> HIDE DEF n, r
  <2>2. /\ VerdictsOf(r, n) \in Seq(Verdicts \cup {""}) /\ Len(VerdictsOf(r, n)) = n
        /\ \A id \in 1..n : VerdictsOf(r, n)[id] = r[id].status
    BY <2>1, Views, ZenonT(30)
  <2> QED BY <2>2 DEF n, r
<1> QED BY <1>3, <1>5, <1>6

(***************************************************************************)
(* A step that leaves every published field of the results alone, and the  *)
(* number of finished ones, is a stutter of the abstract service.          *)
(***************************************************************************)
LEMMA ViewsQuiet ==
  ASSUME UNCHANGED <<next_id_, queue_, results_>>, Busy' <=> Busy
  PROVE  LogView' = LogView /\ VerdictView' = VerdictView
<1>1. FirstPending' = FirstPending
  BY DEF FirstPending, Taken
<1> QED BY <1>1 DEF LogView, VerdictView, LogOf, VerdictsOf

LEMMA RefineInit == Init => Service!Init
<1> SUFFICES ASSUME Init PROVE Service!Init
  OBVIOUS
<1>1. IInv
  BY InvInit
<1>2. next_id_ = 1 /\ queue_ = <<>> /\ pc = "Start" /\ main = "listening"
  BY DEF Init
<1>3. FirstPending = 1
  BY <1>2, EmptySeq DEF FirstPending, Taken, Busy, Judging
<1>4. Len(LogView) = 0 /\ LogView \in Seq(Service!Entry)
      /\ Len(VerdictView) = 0 /\ VerdictView \in Seq(Verdicts \cup {""})
  BY <1>1, <1>2, <1>3, StateViews DEF IInv
<1>5. LogView = <<>> /\ VerdictView = <<>>
  BY <1>4, EmptySeq
<1> QED BY <1>2, <1>5 DEF Service!Init

(***************************************************************************)
(* Submit is Accept.                                                       *)
(***************************************************************************)
LEMMA RefineSubmit ==
  ASSUME IInv, IInv', NEW u \in Users, NEW p \in Problems, NEW c \in Codes, Submit(u, p, c)
  PROVE  Service!Accept([user_id |-> u, problem_id |-> p])
<1> DEFINE r == Placeholder(NewTask(u, p, c))
           e == [user_id |-> u, problem_id |-> p]
<1>1. TypeOK /\ InOrder /\ TypeOK' /\ InOrder'
  BY DEF IInv
<1>2. /\ next_id_' = next_id_ + 1
      /\ Len(queue_') = Len(queue_) + 1
      /\ \A id \in 1..(next_id_ - 1) : results_'[id] = results_[id]
      /\ results_'[next_id_] = r
      /\ pc' = IF pc = "Waiting" THEN "Check" ELSE pc
      /\ main' = main
  BY <1>1, SubmitEffect, TypedQueue
<1>3. r.user_id = u /\ r.problem_id = p
  BY DEF Placeholder, NewTask
<1>4. main = "listening"
  BY DEF Submit
<1> HIDE DEF r
<1>5. Taken' = Taken
  BY <1>2 DEF Taken, Busy, Judging
<1>6. FirstPending' = FirstPending
  BY <1>1, <1>2, <1>5, Numbers, TypedQueue DEF FirstPending
<1>7. LogView' = Append(LogView, e)
  <2>1. e \in Service!Entry
    BY DEF Service!Entry
  <2> HIDE DEF e
  <2>2. LogView \in Seq(Service!Entry) /\ Len(LogView) = next_id_ - 1
    BY <1>1, StateViews
  <2>3. LogView' \in Seq(Service!Entry) /\ Len(LogView') = next_id_' - 1
    BY <1>1, StateViewsNext
  <2>4. Append(LogView, e) \in Seq(Service!Entry) /\ Len(Append(LogView, e)) = next_id_
        /\ \A id \in 1..(next_id_ - 1) : Append(LogView, e)[id] = LogView[id]
        /\ Append(LogView, e)[next_id_] = e
    BY <1>1, <2>1, <2>2, AppendProperties, Numbers, TypedQueue
  <2>5. next_id_' - 1 = next_id_
    BY <1>1, <1>2, Numbers, TypedQueue
  <2>6. \A id \in 1..(next_id_ - 1) : LogView'[id] = LogView[id]
    BY <1>1, <1>2, Numbers, TypedQueue DEF LogView, LogOf
  <2>7. LogView'[next_id_] = e
    BY <1>1, <1>2, <1>3, Numbers, TypedQueue DEF LogView, LogOf, e
  <2>8. \A id \in 1..next_id_ : id \in 1..(next_id_ - 1) \/ id = next_id_
    BY <1>1, Numbers, TypedQueue
  <2>9. \A id \in 1..next_id_ : LogView'[id] = Append(LogView, e)[id]
    BY <2>4, <2>6, <2>7, <2>8
  <2> QED BY <2>3, <2>4, <2>5, <2>9, SeqEqual
<1>8. VerdictView' = VerdictView
  <2>1. 1..(FirstPending - 1) \subseteq 1..(next_id_ - 1)
    BY <1>1, Numbers, TypedQueue
  <2> QED BY <1>2, <1>6, <2>1 DEF VerdictView, VerdictsOf
<1> QED BY <1>2, <1>4, <1>7, <1>8 DEF Service!Accept

(***************************************************************************)
(* StoreResult is Judge, of the verdict RunTask found.                     *)
(***************************************************************************)
LEMMA RefineStore ==
  ASSUME IInv, IInv', StoreResult
  PROVE  \E v \in Verdicts : Service!Judge(v)
<1>1. TypeOK /\ InOrder /\ SameOwner /\ LoopState /\ ShutdownState /\ TypeOK' /\ InOrder'
  BY DEF IInv
<1>2. /\ results_' = [results_ EXCEPT ![task.id] = res]
      /\ next_id_' = next_id_ /\ queue_' = queue_ /\ main' = main
      /\ pc = "Store" /\ pc' = "Check"
  BY DEF StoreResult
<1>3. Busy /\ ~Busy' /\ Taken = 1 /\ Taken' = 0
  BY <1>2 DEF Busy, Judging, Taken
<1>4. res \in SubmissionResult /\ res.status # ""
  BY <1>1, <1>3 DEF TypeOK, LoopState
<1>5. res.status \in Verdicts
  BY <1>4 DEF SubmissionResult
<1>6. main # "gone"
  BY <1>1, <1>2 DEF ShutdownState
<1> DEFINE F == FirstPending
<1>7. F \in Int /\ F >= 1 /\ F <= next_id_ - 1 /\ next_id_ \in Nat \ {0}
  BY <1>1, <1>3, Numbers, TypedQueue
<1>8. task.id = F /\ DOMAIN results_ = 1..(next_id_ - 1)
  BY <1>1, <1>3 DEF InOrder
<1>9. FirstPending' = F + 1
  BY <1>1, <1>2, <1>3, Numbers, TypedQueue DEF FirstPending
<1> HIDE DEF F
<1>10. \A id \in 1..(next_id_ - 1) : results_'[id] = IF id = F THEN res ELSE results_[id]
  BY <1>2, <1>8
<1>11. LogView' = LogView
  <2>1. res.user_id = results_[F].user_id /\ res.problem_id = results_[F].problem_id
    BY <1>1, <1>3, <1>8 DEF SameOwner
  <2>2. \A id \in 1..(next_id_ - 1) : /\ results_'[id].user_id = results_[id].user_id
                                     /\ results_'[id].problem_id = results_[id].problem_id
    BY <1>10, <2>1
  <2> QED BY <1>2, <2>2 DEF LogView, LogOf
<1>12. VerdictView' = Append(VerdictView, res.status)
  <2> DEFINE S == Verdicts \cup {""}
             v == res.status
  <2>1. v \in S
    BY <1>5
  <2>2. /\ VerdictView \in Seq(S) /\ Len(VerdictView) = F - 1
        /\ \A id \in 1..(F - 1) : VerdictView[id] = results_[id].status
    BY <1>1, StateViews DEF F
  <2>3. /\ VerdictView' \in Seq(S) /\ Len(VerdictView') = FirstPending' - 1
        /\ \A id \in 1..(FirstPending' - 1) : VerdictView'[id] = results_'[id].status
    BY <1>1, StateViewsNext
  <2>4. results_'[F].status = v
    BY <1>7, <1>10
  <2>5. \A id \in 1..(F - 1) : results_'[id].status = results_[id].status
    BY <1>7, <1>10
  <2> HIDE DEF S, v
  <2>6. /\ Append(VerdictView, v) \in Seq(S) /\ Len(Append(VerdictView, v)) = F
        /\ \A id \in 1..(F - 1) : Append(VerdictView, v)[id] = VerdictView[id]
        /\ Append(VerdictView, v)[F] = v
    BY <1>7, <2>1, <2>2, AppendProperties
  <2>7. FirstPending' - 1 = F
    BY <1>7, <1>9
  <2>8. \A id \in 1..F : id \in 1..(F - 1) \/ id = F
    BY <1>7
  <2>9. \A id \in 1..F : VerdictView'[id] = Append(VerdictView, v)[id]
    BY <2>2, <2>3, <2>4, <2>5, <2>6, <2>7, <2>8
  <2>10. VerdictView' = Append(VerdictView, v)
    BY <2>3, <2>6, <2>7, <2>9, SeqEqual
  <2> QED BY <2>10 DEF v
<1>13. Len(VerdictView) < Len(LogView)
  <2>1. Len(VerdictView) = F - 1 /\ Len(LogView) = next_id_ - 1
    BY <1>1, StateViews DEF F
  <2> QED BY <1>7, <2>1
<1>14. Service!Judge(res.status)
  BY <1>2, <1>6, <1>11, <1>12, <1>13 DEF Service!Judge
<1> QED BY <1>5, <1>14

(***************************************************************************)
(* Join is Close: the worker has exited, so nothing is queued or in hand.  *)
(***************************************************************************)
LEMMA RefineJoin ==
  ASSUME IInv, IInv', Join
  PROVE  Service!Close
<1>1. TypeOK /\ InOrder /\ ShutdownState
  BY DEF IInv
<1>2. /\ main = "join" /\ main' = "gone" /\ pc = "Exited" /\ pc' = pc
      /\ UNCHANGED <<next_id_, queue_, results_>>
  BY DEF Join, members
<1>3. queue_ = <<>> /\ Len(queue_) = 0 /\ Taken = 0 /\ (Busy' <=> Busy)
  BY <1>1, <1>2, EmptySeq DEF ShutdownState, Taken, Busy, Judging
<1>4. FirstPending = next_id_
  BY <1>1, <1>3, Numbers, TypedQueue DEF FirstPending
<1>5. Len(VerdictView) = Len(LogView)
  BY <1>1, <1>4, StateViews
<1>6. LogView' = LogView /\ VerdictView' = VerdictView
  BY <1>2, <1>3, ViewsQuiet
<1> QED BY <1>2, <1>5, <1>6 DEF Service!Close

LEMMA RefineStep == IInv /\ IInv' /\ [Next]_vars => [Service!Next]_(Service!vars)
<1> SUFFICES ASSUME IInv, IInv', [Next]_vars PROVE [Service!Next]_(Service!vars)
  OBVIOUS
<1>1. CASE Submissions
  <2>1. PICK u \in Users, p \in Problems, c \in Codes : Submit(u, p, c)
    BY <1>1 DEF Submissions
  <2>2. Service!Accept([user_id |-> u, problem_id |-> p])
    BY <2>1, RefineSubmit
  <2>3. [user_id |-> u, problem_id |-> p] \in Service!Entry
    BY DEF Service!Entry
  <2> QED BY <2>2, <2>3 DEF Service!Next
<1>2. CASE StoreResult
  BY <1>2, RefineStore DEF Service!Next
<1>3. CASE Join
  BY <1>3, RefineJoin DEF Service!Next
<1>4. CASE Take
  <2>1. TypeOK /\ InOrder
    BY DEF IInv
  <2>2. /\ Len(queue_') = Len(queue_) - 1 /\ Taken = 0 /\ Taken' = 1
        /\ UNCHANGED <<next_id_, results_, main>>
    BY <1>4, <2>1, TakeEffect, TypedQueue DEF Taken, Busy, Judging
  <2>3. FirstPending' = FirstPending
    BY <2>1, <2>2, Numbers, TypedQueue DEF FirstPending
  <2> QED BY <2>2, <2>3 DEF Service!vars, LogView, VerdictView
<1>5. CASE /\ UNCHANGED <<next_id_, queue_, results_>> /\ (Busy' <=> Busy)
           /\ (main' = "gone") <=> (main = "gone")
  <2>1. LogView' = LogView /\ VerdictView' = VerdictView
    BY <1>5, ViewsQuiet
  <2> QED BY <1>5, <2>1 DEF Service!vars
<1>6. \/ Submissions \/ StoreResult \/ Join \/ Take
      \/ /\ UNCHANGED <<next_id_, queue_, results_>> /\ (Busy' <=> Busy)
         /\ (main' = "gone") <=> (main = "gone")
  <2> DEFINE Quiet == /\ UNCHANGED <<next_id_, queue_, results_>> /\ (Busy' <=> Busy)
                      /\ (main' = "gone") <=> (main = "gone")
  <2> USE DEF Busy, Judging, members, locals, dirs
  <2>1. ASSUME NEW ok \in BOOLEAN, StartWorker(ok) PROVE Quiet
    BY <2>1 DEF StartWorker
  <2>2. ASSUME NEW ok \in BOOLEAN, Compile(ok) PROVE Quiet
    BY <2>2 DEF Compile
  <2>3. ASSUME NEW ok \in BOOLEAN, CompileSpj(ok) PROVE Quiet
    BY <2>3 DEF CompileSpj
  <2>4. Wait \/ ExitWorker \/ Hang \/ RemoveDir \/ SpuriousWakeup => Quiet
    BY DEF Wait, ExitWorker, Hang, RemoveDir, SpuriousWakeup
  <2>5. AnyRunCase => Quiet
    BY DEF AnyRunCase, RunCase
  <2>6. ASSUME NEW row \in ProblemRows \cup {NoRow}, LoadProblem(row) PROVE Quiet
    BY <2>6 DEF LoadProblem
  <2>7. ASSUME NEW cs \in CaseLists, LoadCases(cs) PROVE Quiet
    BY <2>7 DEF LoadCases
  <2>8. SetStop \/ NotifyAll \/ UNCHANGED vars => Quiet
    BY DEF SetStop, NotifyAll, Notify, vars
  <2> HIDE DEF Quiet
  <2>9. Submissions \/ StoreResult \/ Join \/ Take \/ Quiet
    BY <2>1, <2>2, <2>3, <2>4, <2>5, <2>6, <2>7, <2>8 DEF Next, WorkerStep, OwnStep, Stopped
  <2> QED BY <2>9 DEF Quiet
<1> QED BY <1>1, <1>2, <1>3, <1>4, <1>5, <1>6

(***************************************************************************)
(* The queue, the placeholders, the worker and the destructor together     *)
(* implement the abstract service: verdicts are given one by one in the    *)
(* order of submission, and all of them before the service is gone.        *)
(***************************************************************************)
THEOREM Refinement == Spec => ImplementsService
<1>1. Init => Service!Init
  BY RefineInit
<1>2. IInv /\ IInv' /\ [Next]_vars => [Service!Next]_(Service!vars)
  BY RefineStep
<1> QED BY <1>1, <1>2, Invariance, PTL DEF Spec, ImplementsService, Service!Spec

--------------------------------------------------------------------------------
(***************************************************************************)
(* The task that the worker is judging (RunTask in                         *)
(* src/judge/judge_service.cpp): what an accepted result, a reported time  *)
(* and the work directory can be, on every path through RunTask.  The      *)
(* theorems rest on IInv and on a second inductive invariant, TaskState,   *)
(* about the locals of RunTask.                                            *)
(***************************************************************************)
\* The result's first cases are those of the database, in that order.
CasesFollow ==
  pc = "RunCase" =>
    \A i \in 1..Len(res.cases) : res.cases[i].order_no = cases[i].order_no

\* The time of r is the largest of its cases' times, and 0 while it has none.
SlowestTime(r) ==
  /\ \A i \in DOMAIN r.cases : r.cases[i].time_ms <= r.time_ms
  /\ r.cases # <<>> => \E i \in DOMAIN r.cases : r.cases[i].time_ms = r.time_ms
  /\ r.cases = <<>> => r.time_ms = 0

TaskState ==
  /\ CasesFollow /\ AcceptedMeansAllCases
  /\ Busy => SlowestTime(res)
  /\ WorstTime
  /\ NoStaleDir
--------------------------------------------------------------------------------
(***************************************************************************)
(* One iteration of the loop: the judge failed and the result stays, or    *)
(* one case result, of the case the loop is at, is added.                  *)
(***************************************************************************)
LEMMA Iteration ==
  ASSUME TypeOK, LoopState, AnyRunCase
  PROVE  /\ pc = "RunCase" /\ UNCHANGED <<results_, task, cases>>
         /\ res \in SubmissionResult /\ res.status = "SE"
         /\ Len(res.cases) \in Nat /\ Len(cases) \in Nat /\ Len(res.cases) < Len(cases)
         /\ \/ res' = res /\ pc' = "RemoveDir"
            \/ \E cr \in CaseResult :
                 /\ res' = AfterCase(cr)
                 /\ cr.order_no = cases[Len(res.cases) + 1].order_no
                 /\ pc' = IF cr.status = "AC" /\ ~IsLast(Len(res.cases) + 1)
                          THEN "RunCase" ELSE "RemoveDir"
<1>1. PICK run \in RunResults, spj \in SpjRuns : RunCase(run, spj)
  BY DEF AnyRunCase
<1> DEFINE c      == cases[Len(res.cases) + 1]
           status == StatusOf(judge_type, run, c.expected, spj)
           cr     == [order_no |-> c.order_no, status |-> status, time_ms |-> run.cpu_ms]
<1>2. pc = "RunCase" /\ UNCHANGED <<results_, task, cases>>
  BY <1>1 DEF RunCase, members
<1>3. res \in SubmissionResult /\ cases \in Seq(TestCases)
  BY <1>2 DEF TypeOK, Busy, Judging
<1>4. Len(res.cases) \in Nat /\ Len(cases) \in Nat
  BY <1>3, LenProperties DEF SubmissionResult
<1>5. Len(res.cases) < Len(cases) /\ res.status = "SE"
  BY <1>2 DEF LoopState, Judging
<1>6. c.order_no \in Nat
  BY <1>2, CurrentCase
<1>7. status \in CaseStatus \cup {"abort"} /\ run.cpu_ms \in Nat
  <2>1. run.kind \in ExitKind /\ run.cpu_ms \in Nat
    BY RunsAssumption DEF IsRunResult
  <2> QED BY <2>1, StatusRange
<1>8. CASE status = "abort"
  <2>1. res' = res /\ pc' = "RemoveDir"
    BY <1>1, <1>8 DEF RunCase
  <2> QED BY <1>2, <1>3, <1>4, <1>5, <2>1
<1>9. CASE status # "abort"
  <2>1. /\ res' = AfterCase(cr)
        /\ pc' = IF status = "AC" /\ ~IsLast(Len(res.cases) + 1) THEN "RunCase" ELSE "RemoveDir"
    BY <1>1, <1>9 DEF RunCase
  <2>2. cr \in CaseResult /\ cr.status = status /\ cr.order_no = c.order_no
    BY <1>6, <1>7, <1>9 DEF CaseResult
  <2> HIDE DEF cr, status
  <2> QED BY <1>2, <1>3, <1>4, <1>5, <2>1, <2>2
<1> QED BY <1>8, <1>9

(***************************************************************************)
(* The case results follow the cases that were read, one by one, and the   *)
(* loop ends with AC only after the last.                                  *)
(***************************************************************************)
LEMMA AcceptedByLoop ==
  ASSUME TypeOK, LoopState, CasesFollow, AnyRunCase
  PROVE  CasesFollow' /\ AcceptedMeansAllCases'
<1> DEFINE n == Len(res.cases)
<1>1. /\ pc = "RunCase" /\ cases' = cases
      /\ res \in SubmissionResult /\ res.status = "SE"
      /\ n \in Nat /\ Len(cases) \in Nat /\ n < Len(cases)
  BY Iteration
<1>2. CASE res' = res /\ pc' = "RemoveDir"
  BY <1>1, <1>2 DEF CasesFollow, AcceptedMeansAllCases
<1>3. ASSUME NEW cr \in CaseResult,
             res' = AfterCase(cr), cr.order_no = cases[n + 1].order_no,
             pc' = IF cr.status = "AC" /\ ~IsLast(n + 1) THEN "RunCase" ELSE "RemoveDir"
      PROVE  CasesFollow' /\ AcceptedMeansAllCases'
  <2>1. /\ Len(res'.cases) = n + 1
        /\ \A i \in 1..n : res'.cases[i] = res.cases[i]
        /\ res'.cases[n + 1] = cr
    BY <1>1, <1>3, AfterCaseType
  <2>2. res'.status = IF cr.status # "AC" THEN cr.status ELSE IF IsLast(n + 1) THEN "AC" ELSE "SE"
    BY <1>1, <1>3 DEF AfterCase, SubmissionResult
  <2>3. \A i \in 1..n : res.cases[i].status = "AC" /\ res.cases[i].order_no = cases[i].order_no
    BY <1>1 DEF LoopState, Judging, CasesFollow
  <2> HIDE DEF n
  <2>4. \A i \in 1..(n + 1) : i \in 1..n \/ i = n + 1
    BY <1>1
  <2>5. \A i \in 1..(n + 1) : res'.cases[i].order_no = cases'[i].order_no
    BY <1>1, <1>3, <2>1, <2>3, <2>4
  <2>6. CasesFollow'
    BY <2>1, <2>5 DEF CasesFollow
  <2>7. ASSUME pc' \in {"RemoveDir", "Store"}, res'.status = "AC"
        PROVE  /\ cases' # <<>> /\ Len(res'.cases) = Len(cases')
               /\ \A i \in 1..Len(cases') : res'.cases[i].status = "AC"
    <3>1. cr.status = "AC" /\ IsLast(n + 1)
      BY <1>3, <2>2, <2>7
    <3>2. n + 1 = Len(cases)
      BY <3>1 DEF IsLast
    <3>3. \A i \in 1..(n + 1) : res'.cases[i].status = "AC"
      BY <2>1, <2>3, <2>4, <3>1
    <3>4. cases # <<>>
      BY <1>1, EmptySeq
    <3> QED BY <1>1, <2>1, <3>2, <3>3, <3>4
  <2>8. AcceptedMeansAllCases'
    <3>1. Len(res'.cases) = Len(cases') => \A i \in 1..Len(cases') : res'.cases[i].order_no = cases'[i].order_no
      BY <2>1, <2>5
    <3> QED BY <2>7, <3>1 DEF AcceptedMeansAllCases
  <2> QED BY <2>6, <2>8
<1>4. \/ res' = res /\ pc' = "RemoveDir"
      \/ \E cr \in CaseResult :
           /\ res' = AfterCase(cr)
           /\ cr.order_no = cases[n + 1].order_no
           /\ pc' = IF cr.status = "AC" /\ ~IsLast(n + 1) THEN "RunCase" ELSE "RemoveDir"
  BY Iteration
<1> QED BY <1>2, <1>3, <1>4

(***************************************************************************)
(* Every path of RunTask: a result with the status AC comes from the loop. *)
(***************************************************************************)
LEMMA AcceptedStep ==
  ASSUME TypeOK, LoopState, CasesFollow, AcceptedMeansAllCases, [Next]_vars
  PROVE  CasesFollow' /\ AcceptedMeansAllCases'
<1> USE DEF CasesFollow, AcceptedMeansAllCases, members, locals, dirs
<1>0. Len(<<>>) = 0
  BY EmptySeq
<1>1. CASE Submissions
  <2>1. PICK u \in Users, p \in Problems, c \in Codes : Submit(u, p, c)
    BY <1>1 DEF Submissions
  <2>2. UNCHANGED <<res, cases>> /\ pc' = IF pc = "Waiting" THEN "Check" ELSE pc
    BY <2>1 DEF Submit, Notify
  <2> QED BY <2>2
<1>2. ASSUME NEW ok \in BOOLEAN, StartWorker(ok) PROVE CasesFollow' /\ AcceptedMeansAllCases'
  BY <1>2 DEF StartWorker
<1>3. ASSUME NEW ok \in BOOLEAN, Compile(ok) PROVE CasesFollow' /\ AcceptedMeansAllCases'
  <2>1. CASE ok
    <3>1. pc' \in {"CompileSpj", "LoadCases"}
      BY <1>3, <2>1 DEF Compile
    <3> QED BY <3>1
  <2>2. CASE ~ok
    <3>1. res \in SubmissionResult
      BY <1>3 DEF Compile, TypeOK, Busy, Judging
    <3>2. res'.status = "CE" /\ pc' = "RemoveDir"
      BY <1>3, <2>2, <3>1 DEF Compile, SubmissionResult
    <3> QED BY <3>2
  <2> QED BY <2>1, <2>2
<1>4. ASSUME NEW ok \in BOOLEAN, CompileSpj(ok) PROVE CasesFollow' /\ AcceptedMeansAllCases'
  <2>1. res' = res /\ pc = "CompileSpj" /\ pc' \in {"LoadCases", "RemoveDir"}
    BY <1>4 DEF CompileSpj
  <2>2. res.status = "SE"
    BY <2>1 DEF LoopState, Judging
  <2> QED BY <2>1, <2>2
<1>5. CASE Wait
  BY <1>5 DEF Wait
<1>6. CASE ExitWorker
  BY <1>6 DEF ExitWorker
<1>7. CASE Take
  <2>1. res'.status = "SE" /\ pc' \in {"LoadProblem", "Store"}
    BY <1>7 DEF Take, NewResult
  <2> QED BY <2>1
<1>8. CASE AnyRunCase
  BY <1>8, AcceptedByLoop
<1>9. CASE Hang
  BY <1>9 DEF Hang
<1>10. CASE RemoveDir
  BY <1>10 DEF RemoveDir
<1>11. CASE StoreResult
  BY <1>11 DEF StoreResult
<1>12. ASSUME NEW row \in ProblemRows \cup {NoRow}, LoadProblem(row)
       PROVE  CasesFollow' /\ AcceptedMeansAllCases'
  <2>1. res' = res /\ pc = "LoadProblem" /\ pc' \in {"RemoveDir", "Compile"}
    BY <1>12 DEF LoadProblem
  <2>2. res.status = "SE"
    BY <2>1 DEF LoopState, Judging
  <2> QED BY <2>1, <2>2
<1>13. ASSUME NEW cs \in CaseLists, LoadCases(cs) PROVE CasesFollow' /\ AcceptedMeansAllCases'
  <2>1. res' = res /\ pc = "LoadCases" /\ pc' \in {"RemoveDir", "RunCase"}
    BY <1>13 DEF LoadCases
  <2>2. res.status = "SE" /\ Len(res.cases) = 0
    BY <1>0, <2>1 DEF LoopState, Judging
  <2> QED BY <2>1, <2>2
<1>14. CASE SpuriousWakeup
  BY <1>14 DEF SpuriousWakeup
<1>15. CASE SetStop
  BY <1>15 DEF SetStop
<1>16. CASE NotifyAll
  BY <1>16 DEF NotifyAll, Notify
<1>17. CASE Join
  BY <1>17 DEF Join
<1>18. CASE UNCHANGED vars
  BY <1>18 DEF vars
<1> QED
  BY <1>1, <1>2, <1>3, <1>4, <1>5, <1>6, <1>7, <1>8, <1>9, <1>10, <1>11, <1>12, <1>13,
     <1>14, <1>15, <1>16, <1>17, <1>18
  DEF Next, WorkerStep, OwnStep, Stopped

--------------------------------------------------------------------------------
(***************************************************************************)
(* max_time after one more case is again the slowest time.                 *)
(***************************************************************************)
LEMMA SlowestAfterCase ==
  ASSUME res \in SubmissionResult, SlowestTime(res), NEW cr \in CaseResult
  PROVE  SlowestTime(AfterCase(cr))
<1> DEFINE r == AfterCase(cr)
           n == Len(res.cases)
<1>1. res.cases \in Seq(CaseResult) /\ n \in Nat /\ DOMAIN res.cases = 1..n
  BY LenProperties DEF SubmissionResult
<1>2. /\ r.cases \in Seq(CaseResult) /\ Len(r.cases) = n + 1
      /\ \A i \in 1..n : r.cases[i] = res.cases[i]
      /\ r.cases[n + 1] = cr
  BY AfterCaseType DEF SubmissionResult
<1>3. r.time_ms = Worst(cr.time_ms)
  BY DEF AfterCase, SubmissionResult
<1>4. cr.time_ms \in Nat /\ res.time_ms \in Nat
  BY DEF CaseResult, SubmissionResult
<1>5. \A i \in 1..n : res.cases[i].time_ms \in Nat
  <2>1. \A i \in 1..n : res.cases[i] \in CaseResult
    BY <1>1, ElementOfSeq
  <2> QED BY <2>1 DEF CaseResult
<1>6. r.cases # <<>> /\ DOMAIN r.cases = 1..(n + 1)
  BY <1>1, <1>2, EmptySeq, LenProperties
<1> HIDE DEF r, n
<1>7. \A i \in 1..(n + 1) : i \in 1..n \/ i = n + 1
  BY <1>1
<1>8. r.time_ms \in Nat /\ r.time_ms >= cr.time_ms /\ r.time_ms >= res.time_ms
      /\ r.time_ms \in {cr.time_ms, res.time_ms}
  BY <1>3, <1>4 DEF Worst
<1>9. \A i \in 1..(n + 1) : r.cases[i].time_ms <= r.time_ms
  <2>1. \A i \in 1..n : res.cases[i].time_ms <= res.time_ms
    BY <1>1 DEF SlowestTime
  <2> QED BY <1>2, <1>4, <1>5, <1>7, <1>8, <2>1
<1>10. \E i \in 1..(n + 1) : r.cases[i].time_ms = r.time_ms
  <2>1. n + 1 \in 1..(n + 1) /\ \A i \in 1..n : i \in 1..(n + 1)
    BY <1>1
  <2>2. CASE r.time_ms = cr.time_ms
    BY <1>2, <2>1, <2>2
  <2>3. CASE r.time_ms = res.time_ms /\ r.time_ms # cr.time_ms
    <3>1. res.cases # <<>>
      BY <1>4, <1>8, <2>3 DEF SlowestTime
    <3>2. PICK i \in 1..n : res.cases[i].time_ms = res.time_ms
      BY <1>1, <3>1 DEF SlowestTime
    <3> QED BY <1>2, <2>1, <2>3, <3>2
  <2> QED BY <1>8, <2>2, <2>3
<1>11. SlowestTime(r)
  BY <1>6, <1>9, <1>10 DEF SlowestTime
<1> QED BY <1>11 DEF r

(***************************************************************************)
(* The result of the task in hand carries the slowest time at every step.  *)
(***************************************************************************)
LEMMA TimeStep ==
  ASSUME TypeOK, LoopState, Busy => SlowestTime(res), [Next]_vars
  PROVE  Busy' => SlowestTime(res)'
<1> USE DEF Busy, Judging, members, locals, dirs
<1>1. CASE Take
  <2>1. res'.time_ms = 0 /\ res'.cases = <<>>
    BY <1>1 DEF Take, NewResult
  <2>2. DOMAIN <<>> = {}
    OBVIOUS
  <2> QED BY <2>1, <2>2 DEF SlowestTime
<1>2. CASE AnyRunCase
  <2>1. pc = "RunCase" /\ res \in SubmissionResult
        /\ (res' = res \/ \E cr \in CaseResult : res' = AfterCase(cr))
    BY <1>2, Iteration
  <2>2. ASSUME NEW cr \in CaseResult, res' = AfterCase(cr) PROVE SlowestTime(res')
    BY <2>1, <2>2, SlowestAfterCase
  <2>3. SlowestTime(res')
    BY <2>1, <2>2
  <2> QED BY <2>3 DEF SlowestTime
<1>3. ASSUME NEW ok \in BOOLEAN, Compile(ok) PROVE SlowestTime(res)'
  <2>1. res \in SubmissionResult /\ SlowestTime(res)
    BY <1>3 DEF Compile, TypeOK
  <2>2. res'.cases = res.cases /\ res'.time_ms = res.time_ms
    BY <1>3, <2>1 DEF Compile, SubmissionResult
  <2> QED BY <2>1, <2>2 DEF SlowestTime
<1>4. CASE StoreResult
  BY <1>4 DEF StoreResult
<1>5. CASE res' = res /\ (Busy' => Busy)
  BY <1>5 DEF SlowestTime
<1>6. \/ Take \/ AnyRunCase \/ StoreResult \/ \E ok \in BOOLEAN : Compile(ok)
      \/ res' = res /\ (Busy' => Busy)
  BY DEF Next, WorkerStep, OwnStep, Stopped, Submissions, Submit, StartWorker, CompileSpj, Wait,
         ExitWorker, Hang, RemoveDir, LoadProblem, LoadCases, SpuriousWakeup, SetStop, NotifyAll,
         Notify, Join, vars
<1> QED BY <1>1, <1>2, <1>3, <1>4, <1>5, <1>6

(***************************************************************************)
(* Only StoreResult publishes a time.                                      *)
(***************************************************************************)
LEMMA WorstTimeStep ==
  ASSUME TypeOK, InOrder, Busy => SlowestTime(res), WorstTime, [Next]_vars
  PROVE  WorstTime'
<1>1. CASE Submissions
  <2>1. PICK u \in Users, p \in Problems, c \in Codes : Submit(u, p, c)
    BY <1>1 DEF Submissions
  <2> DEFINE r == Placeholder(NewTask(u, p, c))
  <2>2. /\ DOMAIN results_' = 1..next_id_
        /\ \A id \in 1..(next_id_ - 1) : results_'[id] = results_[id]
        /\ results_'[next_id_] = r
    BY <2>1, SubmitEffect, TypedQueue
  <2>3. r.done = FALSE
    BY DEF Placeholder
  <2> HIDE DEF r
  <2>4. \A id \in 1..next_id_ : id \in 1..(next_id_ - 1) \/ id = next_id_
    BY DEF TypeOK
  <2> QED BY <2>2, <2>3, <2>4 DEF WorstTime, Finished, InOrder
<1>2. CASE StoreResult
  <2>1. results_' = [results_ EXCEPT ![task.id] = res] /\ SlowestTime(res)
    BY <1>2 DEF StoreResult, Busy
  <2>2. \A id \in DOMAIN results_' : id \in DOMAIN results_ /\ results_'[id] \in {res, results_[id]}
    BY <2>1
  <2> QED BY <2>1, <2>2 DEF WorstTime, Finished, SlowestTime
<1>3. CASE results_' = results_
  BY <1>3 DEF WorstTime, Finished
<1>4. Submissions \/ StoreResult \/ results_' = results_
  BY DEF Next, WorkerStep, OwnStep, Stopped, StartWorker, Compile, CompileSpj, Wait, ExitWorker,
         Take, AnyRunCase, RunCase, Hang, RemoveDir, LoadProblem, LoadCases, SpuriousWakeup,
         SetStop, NotifyAll, Join, vars, members
<1> QED BY <1>1, <1>2, <1>3, <1>4

--------------------------------------------------------------------------------
(***************************************************************************)
(* mkdir and RemoveDir name the directory of the same task, because the    *)
(* task in hand does not change between them.                              *)
(***************************************************************************)
LEMMA DirStep ==
  ASSUME NoStaleDir, [Next]_vars
  PROVE  NoStaleDir'
<1> DEFINE Owning == Judging \ {"LoadProblem"}
           Steady == /\ UNCHANGED <<workdirs, unremoved, task>>
                     /\ pc' \in Owning <=> pc \in Owning
                     /\ pc' = "Start" <=> pc = "Start"
<1> USE DEF NoStaleDir, Judging, members, locals, dirs
<1>1. ASSUME NEW ok \in BOOLEAN, StartWorker(ok) PROVE NoStaleDir'
  BY <1>1 DEF StartWorker, CleanupStaleDirs
<1>2. CASE Take
  <2>1. UNCHANGED dirs /\ pc = "Check" /\ pc' \in {"LoadProblem", "Store"}
    BY <1>2 DEF Take
  <2> QED BY <2>1
<1>3. CASE RemoveDir
  <2>1. workdirs \subseteq unremoved \cup {task.id} /\ pc' = "Store"
    BY <1>3 DEF RemoveDir
  <2>2. CASE workdirs' = workdirs \ {task.id} /\ unremoved' = unremoved
    BY <2>1, <2>2
  <2>3. CASE workdirs' = workdirs /\ unremoved' = unremoved \cup {task.id}
    BY <2>1, <2>3
  <2> QED BY <1>3, <2>2, <2>3 DEF RemoveDir
<1>4. CASE StoreResult
  BY <1>4 DEF StoreResult
<1>5. ASSUME NEW row \in ProblemRows \cup {NoRow}, LoadProblem(row) PROVE NoStaleDir'
  <2>1. /\ workdirs \subseteq unremoved /\ workdirs' \subseteq workdirs \cup {task.id}
        /\ UNCHANGED <<task, unremoved>> /\ pc' \in {"RemoveDir", "Compile"}
    BY <1>5 DEF LoadProblem
  <2> QED BY <2>1
<1>6. CASE Steady
  BY <1>6
<1>7. \/ Take \/ RemoveDir \/ StoreResult \/ \E ok \in BOOLEAN : StartWorker(ok)
      \/ \E row \in ProblemRows \cup {NoRow} : LoadProblem(row)
      \/ Steady
  BY DEF Next, WorkerStep, OwnStep, Stopped, Submissions, Submit, Compile, CompileSpj, Wait,
         ExitWorker, AnyRunCase, RunCase, Hang, LoadCases, SpuriousWakeup, SetStop, NotifyAll,
         Notify, Join, vars
<1> QED BY <1>1, <1>2, <1>3, <1>4, <1>5, <1>6, <1>7

--------------------------------------------------------------------------------
(***************************************************************************)
(* TaskState holds in every state, next to the invariant of the queue.     *)
(***************************************************************************)
LEMMA TaskInit == Init => TaskState
<1> SUFFICES ASSUME Init PROVE TaskState
  OBVIOUS
<1>1. pc = "Start" /\ results_ = <<>>
  BY DEF Init
<1>2. DOMAIN results_ = {}
  BY <1>1
<1> QED BY <1>1, <1>2
        DEF TaskState, CasesFollow, AcceptedMeansAllCases, WorstTime, NoStaleDir, Busy, Judging

LEMMA TaskStep == IInv /\ TaskState /\ [Next]_vars => TaskState'
<1> SUFFICES ASSUME IInv, TaskState, [Next]_vars PROVE TaskState'
  OBVIOUS
<1>1. TypeOK /\ InOrder /\ LoopState
  BY DEF IInv
<1>2. /\ CasesFollow /\ AcceptedMeansAllCases /\ WorstTime /\ NoStaleDir
      /\ Busy => SlowestTime(res)
  BY DEF TaskState
<1>3. CasesFollow' /\ AcceptedMeansAllCases'
  BY <1>1, <1>2, AcceptedStep
<1>4. Busy' => SlowestTime(res)'
  BY <1>1, <1>2, TimeStep
<1>5. WorstTime'
  BY <1>1, <1>2, WorstTimeStep
<1>6. NoStaleDir'
  BY <1>2, DirStep
<1> QED BY <1>3, <1>4, <1>5, <1>6 DEF TaskState

LEMMA TaskInvariance == Spec => []TaskState
BY TaskInit, TaskStep, Invariance, PTL DEF Spec

(***************************************************************************)
(* A queued or taken task and its result belong to the user and the        *)
(* problem of the placeholder that Submit published under the same id.     *)
(***************************************************************************)
THEOREM OwnerKept == Spec => []SameOwner
BY Invariance, PTL DEF IInv

(***************************************************************************)
(* A result is stored as AC only when every test case that was read, and   *)
(* at least one, was run and accepted, in the order of the cases.          *)
(***************************************************************************)
THEOREM AcceptedIsEarned == Spec => []AcceptedMeansAllCases
BY TaskInvariance, PTL DEF TaskState

(***************************************************************************)
(* The time of a finished submission is that of its slowest case.          *)
(***************************************************************************)
THEOREM TimesCorrect == Spec => []WorstTime
BY TaskInvariance, PTL DEF TaskState

(***************************************************************************)
(* Whichever path RunTask takes, and whatever a killed predecessor left, a *)
(* directory outlives its task only when its removal, then or when the     *)
(* worker started, was tried and failed.                                   *)
(***************************************************************************)
THEOREM DirectoriesRemoved == Spec => []NoStaleDir
BY TaskInvariance, PTL DEF TaskState
================================================================================
