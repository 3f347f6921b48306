------------------------------ MODULE JudgeSystem ------------------------------
(***************************************************************************)
(* The running system: the judging service (JudgeService) over the tables  *)
(* that the administrator's handlers write (ProblemStore), the handlers of *)
(* src/routes/submission_routes.cpp between them and the browsers, and the *)
(* pages of static/js/api.js that submit and poll.  The worker reads the   *)
(* tables on a connection of its own while a request of the administrator  *)
(* is between two statements; every other handler waits for DbLock.  The   *)
(* process may be killed at any moment and started again: what is in       *)
(* memory is lost, the tables, the work directories and the open pages     *)
(* stay.  Sessions survive as well (module Sessions) and are taken as      *)
(* valid here.  Leaving by SIGINT is in JudgeService and left out here.    *)
(***************************************************************************)
EXTENDS JudgeService

CONSTANTS
  SeedCases,    \* the array of test cases of the seeded problem 1
  Bodies, MaxCases, MaxRequests,  \* of ProblemStore
  JudgeTypes,   \* judge types that the administrator's requests carry
  ListLimit,    \* 50 in the code
  MaxPages,     \* bound: submissions made in a behaviour, over all restarts
  MaxRestarts   \* bound: times the process is killed

VARIABLES
  problems, test_cases, next_pid, reqs, op, at, pid, type, body, next_order, reply, before,
  pages,     \* one page for each submission a browser made
  epoch,     \* history: how often the process was started again
  replaced   \* history: problem -> the last request that replaced its cases with success

store  == <<problems, test_cases, next_pid, reqs, op, at, pid, type, body, next_order, reply,
            before>>
sysvars == <<vars, store, pages, epoch, replaced>>

Store == INSTANCE ProblemStore WITH judge_type <- type

ASSUME RequestsAssumption == Problems \subseteq Nat /\ JudgeTypes \subseteq {"exact", "special"}
ASSUME StoreAssumption ==
  /\ Bodies \subseteq Seq(Store!CaseContent)
  /\ MaxCases \in Nat \ {0} /\ MaxRequests \in Nat \ {0}
ASSUME SeedAssumption == SeedCases \in Seq(Store!CaseContent) /\ Len(SeedCases) <= MaxCases
ASSUME ListLimitAssumption == ListLimit \in Nat

\* scripts/seed.sql, as if stored by request 1.
SeedRows ==
  {[problem_id |-> 1, order_no |-> i, content |-> SeedCases[i], req |-> 1, nth |-> i,
    of |-> Len(SeedCases)] : i \in DOMAIN SeedCases}
SeedProblems == <<[judge_type |-> "exact", req |-> 1]>>

SystemInit ==
  /\ Init
  /\ problems = SeedProblems /\ test_cases = SeedRows /\ next_pid = 2
  /\ reqs = 1 /\ op = "none" /\ at = "free"
  /\ pid = 0 /\ type = "exact" /\ body = Store!NoArray /\ next_order = 1 /\ reply = 200
  /\ before = [problems |-> SeedProblems, test_cases |-> SeedRows]
  /\ pages = <<>> /\ epoch = 0 /\ replaced = <<1>>

DbLockFree == at = "free"

--------------------------------------------------------------------------------
\* The worker on its own connection

\* The numbers of a set, the smallest first: a std::map by key, a SELECT by its order.
Ascending(S) ==
  [k \in 1..Cardinality(S) |-> CHOOSE x \in S : Cardinality({y \in S : y < x}) = k - 1]

\* The rows of one SELECT ... ORDER BY order_no, as the worker keeps them.
AsCase(row) == [order_no |-> row.order_no, expected |-> <<"x">>, req |-> row.req,
                nth |-> row.nth, of |-> row.of]
Orders(p) == {row.order_no : row \in Store!CasesOf(p)}
Cases(p) ==
  LET orders == Ascending(Orders(p))
  IN  [i \in DOMAIN orders |->
         AsCase(CHOOSE row \in Store!CasesOf(p) : row.order_no = orders[i])]

ReadProblem ==
  \/ LoadProblem(NoRow)
  \/ /\ pc = "LoadProblem" /\ task.problem_id \in DOMAIN problems
     /\ LoadProblem([judge_type |-> problems[task.problem_id].judge_type])

ReadCases ==
  \/ LoadCases(<<>>)
  \/ pc = "LoadCases" /\ LoadCases(Cases(task.problem_id))

Worker ==
  /\ OwnStep \/ ReadProblem \/ ReadCases
  /\ UNCHANGED <<store, pages, epoch, replaced>>

--------------------------------------------------------------------------------
\* The administrator's requests

AdminRequest ==
  /\ \E o \in Store!Ops, p \in Problems, t \in JudgeTypes, b \in Bodies \cup {Store!NoArray} :
       Store!Begin(o, p, t, b)
  /\ UNCHANGED <<vars, pages, epoch, replaced>>

IsReplacement == op \in {"PUT", "IMPORT"} /\ body \notin {<<>>, Store!NoArray}

AdminStatement ==
  /\ Store!Handler
  /\ replaced' = IF next_pid' # next_pid
                 THEN Append(replaced, reqs)
                 ELSE IF reply' = 200 /\ IsReplacement THEN [replaced EXCEPT ![pid] = reqs]
                 ELSE replaced
  /\ UNCHANGED <<vars, pages, epoch>>

--------------------------------------------------------------------------------
\* The browsers

NewPage(u, p) ==
  [user_id |-> u, problem_id |-> p, id |-> next_id_, epoch |-> epoch,
   since |-> replaced[p], shows |-> "waiting", record |-> None, seen |-> epoch]
Waiting(i) == i \in DOMAIN pages /\ pages[i].shows = "waiting"

\* POST /api/submissions: under DbLock, for a problem that exists.  The answer
\* carries the id; pollSubmission begins with it.
PostSubmission(u, p, c) ==
  /\ DbLockFree
  /\ p \in DOMAIN problems
  /\ Len(pages) < MaxPages
  /\ Submit(u, p, c)
  /\ pages' = Append(pages, NewPage(u, p))
  /\ UNCHANGED <<store, epoch, replaced>>

Show(i, what, record) ==
  pages' = [pages EXCEPT ![i].shows = what, ![i].record = record, ![i].seen = epoch]

\* The check of the owner in GET /api/submissions/{id}; the mutant has none.
AnyoneMay(r, u) == TRUE
MayRead(r, u) == r.user_id = u

\* GET /api/submissions/{id}, and what the page makes of the answer: an error and a
\* final result end the polling, a pending one does not.  (A page that gives up after
\* maxMs is one that is not polled again.)
Poll(i) ==
  /\ Waiting(i)
  /\ DbLockFree
  /\ LET id == pages[i].id
     IN  \/ id \notin DOMAIN results_ /\ Show(i, "404", None)
         \/ /\ id \in DOMAIN results_ /\ ~MayRead(results_[id], pages[i].user_id)
            /\ Show(i, "403", None)
         \/ /\ id \in DOMAIN results_ /\ MayRead(results_[id], pages[i].user_id)
            /\ results_[id].done
            /\ Show(i, "result", results_[id])
  /\ UNCHANGED <<vars, store, epoch, replaced>>

--------------------------------------------------------------------------------
\* The process is killed, wherever it is, and started again.

Restart ==
  /\ epoch < MaxRestarts
  /\ epoch' = epoch + 1
  /\ next_id_' = 1 /\ queue_' = <<>> /\ results_' = <<>> /\ stop_' = FALSE
  /\ pc' = "Start" /\ db_ok' = FALSE
  /\ task' = None /\ res' = None /\ judge_type' = "exact" /\ cases' = <<>>
  /\ IF DbLockFree THEN UNCHANGED store ELSE Store!Crash
  /\ UNCHANGED <<dirs, main, pages, replaced>>

Idle ==
  /\ pc \in {"Waiting", "Hung"}
  /\ UNCHANGED sysvars

Pages == DOMAIN pages

SystemNext ==
  \/ Worker
  \/ AdminRequest \/ AdminStatement
  \/ \E u \in Users, p \in Problems, c \in Codes : PostSubmission(u, p, c)
  \/ \E i \in Pages : Poll(i)
  \/ Restart \/ Idle

SystemSpec == SystemInit /\ [][SystemNext]_sysvars

\* The threads of the process run, and a page that waits asks again.
FairSystem ==
  /\ SystemSpec
  /\ WF_sysvars(Worker) /\ WF_sysvars(AdminStatement)
  /\ \A i \in 1..MaxPages : WF_sysvars(Poll(i))

--------------------------------------------------------------------------------
\* What the other readers return

\* GET /api/submissions: the user's newest submissions, the newest first.  The
\* mutant walks over results_ from its beginning.
IdsOf(u) == {id \in DOMAIN results_ : results_[id].user_id = u}
Fitting(n, limit) == IF limit < n THEN limit ELSE n

ListOldest(u, limit) ==
  LET ids == Ascending(IdsOf(u)) IN [k \in 1..Fitting(Len(ids), limit) |-> ids[k]]
ListByUser(u, limit) ==
  LET ids == Ascending(IdsOf(u))
  IN  [k \in 1..Fitting(Len(ids), limit) |-> ids[Len(ids) + 1 - k]]

--------------------------------------------------------------------------------
\* Properties

ShowsResult(i) == pages[i].shows = "result"

\* A page never shows the result of another user, also when ids are given out again
\* after a restart; and while the process that took the submission lives, polling
\* finds it at once, and finds this submission and not another one.
PageShowsOwn ==
  \A i \in Pages :
    /\ ShowsResult(i) => pages[i].record.user_id = pages[i].user_id
    /\ pages[i].seen = pages[i].epoch =>
         /\ pages[i].shows \notin {"404", "403"}
         /\ ShowsResult(i) => pages[i].record.problem_id = pages[i].problem_id

\* A shown result stands in the list of submissions, unless ListLimit newer ones push
\* it out.
ShownInList(i) ==
  LET list == ListByUser(pages[i].user_id, ListLimit)
      ids  == {list[k] : k \in DOMAIN list}
  IN  \/ pages[i].id \in ids
      \/ Len(list) = ListLimit /\ \A id \in ids : id > pages[i].id

\* A shown result is still the record, and an accepted one counts as solved.
ShownIsKept(i) ==
  LET r == pages[i].record
  IN  /\ pages[i].id \in DOMAIN results_ /\ results_[pages[i].id] = r
      /\ r.status = "AC" => r.problem_id \in GetUserStats(pages[i].user_id).solved

\* The three views of a user's work agree while the process lives: a result shown on
\* a page stands in the list of submissions and does not change, and an accepted one
\* counts as solved in the profile.
ViewsAgree ==
  \A i \in Pages : ShowsResult(i) /\ pages[i].seen = epoch => ShownInList(i) /\ ShownIsKept(i)

\* The page of the task in hand.
PageOf(id) == {i \in Pages : pages[i].epoch = epoch /\ pages[i].id = id}

\* A submission made after a replacement of the test cases was confirmed is never
\* judged on older ones, and what it is judged on is made of whole arrays in their
\* order, although the worker's SELECT may fall between the statements of a request.
JudgedOnCurrentCases ==
  pc = "RunCase" =>
    /\ \A i \in DOMAIN cases, g \in PageOf(task.id) : cases[i].req >= pages[g].since
    /\ \A i \in DOMAIN cases :
         /\ cases[i].order_no = i
         /\ i - cases[i].nth >= 0 /\ i - cases[i].nth + cases[i].of <= Len(cases)
         /\ \A k \in 1..cases[i].of : cases[i - cases[i].nth + k].req = cases[i].req

\* A page that goes on polling gets a final answer, unless a program hangs the
\* worker: DbLock, the queue and the worker never wait for one another in a circle,
\* and a restart leaves no page with a submission that stays pending.
PageAnswered == \A i \in 1..MaxPages : Waiting(i) ~> (~Waiting(i) \/ pc = "Hung")
================================================================================
