----------------------------- MODULE ProblemStore ------------------------------
(***************************************************************************)
(* The administrator's handlers of src/routes/problem_routes.cpp and the   *)
(* two tables they write.  DbLock lets one handler at a time use the       *)
(* shared connection, so there is one request in hand; each SQL statement  *)
(* of it is a step of its own, committed at once (there is no              *)
(* transaction), and is visible to the worker's own connection.  A         *)
(* statement may fail, also after it has taken effect: mysql_query gives   *)
(* an error as well when the connection is lost before the answer.  The    *)
(* process may be killed between two statements.                           *)
(*                                                                         *)
(* A test case in a request is reduced to what the handlers look at:       *)
(* whether its input or its answer exceeds 64 KB.  A stored row carries,   *)
(* as a history, the request that stored it, its index in the array of     *)
(* that request and the length of the array.                               *)
(***************************************************************************)
EXTENDS Integers, Sequences, FiniteSets

CONSTANTS
  Bodies,      \* test_cases arrays of requests, as sequences of CaseContent
  MaxCases,    \* kMaxCases
  MaxRequests  \* bound: requests served in a behaviour

CaseContent == {"small", "big_input", "big_answer"}
NoArray == <<"no array">>

ASSUME BodiesAssumption == Bodies \subseteq Seq(CaseContent)
ASSUME BoundsAssumption == MaxCases \in Nat \ {0} /\ MaxRequests \in Nat

VARIABLES
  problems,    \* table problems: id -> row
  test_cases,  \* table test_cases: a set of rows
  next_pid,    \* AUTO_INCREMENT of problems
  reqs,        \* requests begun so far; the number of the one in hand
  op, at,      \* its handler, and the statement it comes to next
  pid, judge_type, body,  \* its problem and its fields
  next_order,  \* order_no its insertion begins with
  reply,       \* the status it was answered with, 0 before
  before       \* history: both tables as the request found them

tables  == <<problems, test_cases, next_pid>>
request == <<reqs, op, pid, judge_type, body, before>>
vars    == <<tables, request, at, next_order, reply>>

Row(type)  == [judge_type |-> type, req |-> reqs]
CasesOf(p) == {c \in test_cases : c.problem_id = p}

Ops == {"POST", "PUT", "DELETE", "ADD", "IMPORT"}
Statements == {"InsertProblem", "Exists", "Update", "DeleteCases", "InsertCases", "Rollback",
               "DeleteProblem", "MaxOrder"}

TypeOK ==
  /\ next_pid \in 1..(MaxRequests + 1) /\ reqs \in 0..MaxRequests
  /\ DOMAIN problems \subseteq 1..(next_pid - 1)
  /\ \A p \in DOMAIN problems : problems[p] \in [judge_type : {"exact", "special"}, req : 1..reqs]
  /\ test_cases \subseteq [problem_id : 1..(next_pid - 1), order_no : Nat \ {0},
                           content : CaseContent, req : 1..reqs, nth : Nat, of : Nat]
  /\ op \in Ops \cup {"none"}
  /\ at \in Statements \cup {"free"}
  /\ pid \in Nat /\ judge_type \in {"exact", "special"} /\ next_order \in Nat
  /\ body \in Bodies \cup {NoArray}
  /\ reply \in {0, 200, 400, 404, 500}

Init ==
  /\ problems = <<>> /\ test_cases = {} /\ next_pid = 1
  /\ reqs = 0 /\ op = "none" /\ at = "free"
  /\ pid = 0 /\ judge_type = "exact" /\ body = NoArray /\ next_order = 1
  /\ reply = 0 /\ before = [problems |-> <<>>, test_cases |-> {}]

--------------------------------------------------------------------------------
\* The handler answers and gives DbLock back.
Answer(status) == reply' = status /\ at' = "free"
GoOn(statement) == at' = statement /\ UNCHANGED reply

\* ValidCaseContent for every element, after the test of the array's size.
ValidCaseContent(c, exact) == c # "big_input" /\ (exact => c # "big_answer")
\* The mutant lets an array that is one too long pass.
ValidCasesOffByOne(exact) ==
  Len(body) <= MaxCases + 1 /\ \A i \in DOMAIN body : ValidCaseContent(body[i], exact)
ValidCases(exact) ==
  Len(body) <= MaxCases /\ \A i \in DOMAIN body : ValidCaseContent(body[i], exact)
HasArray == body # NoArray

\* A request that got past the checks of its fields.  The first statement of each
\* handler; ADD refuses an empty array before it looks at the database.
FirstStatement(o) ==
  CASE o = "POST" -> "InsertProblem"
    [] o = "ADD" -> "MaxOrder"
    [] o = "DELETE" -> "DeleteProblem"
    [] OTHER -> "Exists"

\* ParseZipCases and ADD's first test leave no empty array; the absent array is
\* that of POST and PUT.
BodiesFor(o) ==
  IF o \in {"POST", "PUT"} THEN Bodies \cup {NoArray}
  ELSE IF o = "DELETE" THEN {NoArray} ELSE Bodies \ {<<>>}

Begin(o, p, type, b) ==
  /\ at = "free" /\ reqs < MaxRequests
  /\ b \in BodiesFor(o)
  /\ reqs' = reqs + 1 /\ op' = o /\ pid' = p /\ judge_type' = type /\ body' = b
  /\ before' = [problems |-> problems, test_cases |-> test_cases]
  /\ at' = FirstStatement(o) /\ next_order' = 1 /\ reply' = 0
  /\ UNCHANGED tables

--------------------------------------------------------------------------------
\* The statements

\* The new id is known only from a statement that reported success.
InsertProblem ==
  /\ at = "InsertProblem"
  /\ \/ /\ problems' = [p \in DOMAIN problems \cup {next_pid} |->
                          IF p = next_pid THEN Row(judge_type) ELSE problems[p]]
        /\ next_pid' = next_pid + 1
        /\ \/ /\ pid' = next_pid
              /\ \/ (~HasArray \/ body = <<>>) /\ Answer(200)
                 \/ HasArray /\ body # <<>> /\ ~ValidCases(judge_type = "exact") /\ Answer(400)
                 \/ /\ HasArray /\ body # <<>> /\ ValidCases(judge_type = "exact")
                    /\ GoOn("InsertCases")
           \/ Answer(500) /\ UNCHANGED pid
     \/ Answer(500) /\ UNCHANGED <<problems, next_pid, pid>>
  /\ UNCHANGED <<test_cases, reqs, op, judge_type, body, before, next_order>>

\* The mutant appends at the greatest order_no instead of after it.
AppendAtMax(m) == m
AppendAt(m) == m + 1

\* SELECT COALESCE(MAX(order_no), 0), before the test that the problem exists.
MaxOrder ==
  /\ at = "MaxOrder"
  /\ \/ /\ \E m \in {c.order_no : c \in CasesOf(pid)} \cup {0} :
             /\ \A c \in CasesOf(pid) : c.order_no <= m
             /\ next_order' = AppendAt(m)
        /\ GoOn("Exists")
     \/ GoOn("Exists") /\ UNCHANGED next_order    \* the result cannot be read
     \/ Answer(500) /\ UNCHANGED next_order
  /\ UNCHANGED <<tables, request>>

\* PUT goes on to its UPDATE; ADD and IMPORT validate the array first.
Exists ==
  /\ at = "Exists"
  /\ \/ Answer(500)
     \/ (pid \notin DOMAIN problems \/ op # "ADD") /\ Answer(404)  \* or no result
     \/ op = "IMPORT" /\ pid \in DOMAIN problems /\ Answer(400)   \* no cases in the zip
     \/ /\ pid \in DOMAIN problems
        /\ \/ op = "PUT" /\ GoOn("Update")
           \/ op # "PUT" /\ ~ValidCases(TRUE) /\ Answer(400)
           \/ op = "ADD" /\ ValidCases(TRUE) /\ GoOn("InsertCases")
           \/ op = "IMPORT" /\ ValidCases(TRUE) /\ GoOn("DeleteCases")
  /\ UNCHANGED <<tables, request, next_order>>

Update ==
  /\ at = "Update"
  /\ \/ /\ problems' = [problems EXCEPT ![pid] = Row(judge_type)]
        /\ \/ ~HasArray /\ Answer(200)
           \/ HasArray /\ ~ValidCases(judge_type = "exact") /\ Answer(400)
           \/ HasArray /\ ValidCases(judge_type = "exact") /\ GoOn("DeleteCases")
           \/ Answer(500)
     \/ Answer(500) /\ UNCHANGED problems
  /\ UNCHANGED <<test_cases, next_pid, request, next_order>>

\* A failure is only logged, whether it took effect or not.
DeleteCases ==
  /\ at = "DeleteCases"
  /\ \/ test_cases' = test_cases \ CasesOf(pid)
     \/ UNCHANGED test_cases
  /\ IF body = <<>> THEN Answer(200) ELSE GoOn("InsertCases")
  /\ UNCHANGED <<problems, next_pid, request, next_order>>

\* The rows of one multi-row INSERT.  The mutant loses the first one.
StoredCase(p, first, i) ==
  [problem_id |-> p, order_no |-> first + i - 1, content |-> body[i], req |-> reqs,
   nth |-> i, of |-> Len(body)]
RowsButFirst(p, first) == {StoredCase(p, first, i) : i \in 2..Len(body)}
Rows(p, first) == {StoredCase(p, first, i) : i \in DOMAIN body}

\* It is refused as a whole when the foreign key or uk_problem_order is violated.
\* The mutant is a schema without that key.
NoUniqueKey(rows) == pid \in DOMAIN problems
KeysAreFree(rows) ==
  /\ pid \in DOMAIN problems
  /\ \A r \in rows : \A c \in CasesOf(pid) : r.order_no # c.order_no

InsertionFailed == IF op = "POST" THEN GoOn("Rollback") ELSE Answer(500)

InsertCases ==
  /\ at = "InsertCases"
  /\ \/ /\ KeysAreFree(Rows(pid, next_order))
        /\ test_cases' = test_cases \cup Rows(pid, next_order)
        /\ Answer(200) \/ InsertionFailed
     \/ UNCHANGED test_cases /\ InsertionFailed
  /\ UNCHANGED <<problems, next_pid, request, next_order>>

\* DELETE FROM problems; ON DELETE CASCADE takes its test cases.
Remove(p) ==
  /\ problems' = [q \in DOMAIN problems \ {p} |-> problems[q]]
  /\ test_cases' = test_cases \ CasesOf(p)
  /\ UNCHANGED next_pid

\* POST after a failed insertion; its own result is not looked at.
Rollback ==
  /\ at = "Rollback"
  /\ Remove(pid) \/ UNCHANGED tables
  /\ Answer(500)
  /\ UNCHANGED <<request, next_order>>

DeleteProblem ==
  /\ at = "DeleteProblem"
  /\ \/ pid \in DOMAIN problems /\ Remove(pid) /\ (Answer(200) \/ Answer(500))
     \/ pid \notin DOMAIN problems /\ Answer(404) /\ UNCHANGED tables
     \/ Answer(500) /\ UNCHANGED tables
  /\ UNCHANGED <<request, next_order>>

\* The process is killed in the middle of a request; the tables are what remains.
Crash ==
  /\ at # "free"
  /\ at' = "free"
  /\ UNCHANGED <<tables, request, next_order, reply>>

Done == at = "free" /\ reqs = MaxRequests /\ UNCHANGED vars

Handler ==
  \/ InsertProblem \/ MaxOrder \/ Exists \/ Update \/ DeleteCases \/ InsertCases
  \/ Rollback \/ DeleteProblem

Requests ==
  \E o \in Ops, p \in 0..MaxRequests, type \in {"exact", "special"}, b \in Bodies \cup {NoArray} :
    Begin(o, p, type, b)

Next == Requests \/ Handler \/ Crash \/ Done

Spec == Init /\ [][Next]_vars

--------------------------------------------------------------------------------
\* Properties

\* Whatever fails and wherever the process is killed: every test case belongs to an
\* existing problem, and the cases of a problem are numbered 1..n without a gap or
\* a repetition (appending after a replacement that was lost half-way included).
CasesNumbered ==
  /\ \A c \in test_cases : c.problem_id \in DOMAIN problems
  /\ \A p \in DOMAIN problems :
       {c.order_no : c \in CasesOf(p)} = 1..Cardinality(CasesOf(p))

\* What the worker can read at any moment is made of whole arrays, in the order of
\* the requests that sent them: a replacement never mixes with what it replaces,
\* and no array is stored in part.
ArraysWhole ==
  \A c \in test_cases :
    /\ \A i \in 1..c.of : \E d \in CasesOf(c.problem_id) :
         d.req = c.req /\ d.nth = i /\ d.order_no - c.order_no = i - c.nth
    /\ \A d \in CasesOf(c.problem_id) : d.req < c.req => d.order_no < c.order_no

Had   == {c \in before.test_cases : c.problem_id = pid}
New   == {c \in CasesOf(pid) : c.req = reqs}
Total == IF HasArray THEN Len(body) ELSE 0

\* An answer of success means the effect is there, except that PUT with an empty
\* array may have cleared nothing (a failure of DeleteCases is only logged).
SuccessEffect ==
  /\ op \in {"POST", "PUT"} => pid \in DOMAIN problems /\ problems[pid] = Row(judge_type)
  /\ op = "DELETE" => pid \notin DOMAIN problems
  /\ op \in {"POST", "ADD", "IMPORT"} => Cardinality(New) = Total
  /\ op \in {"POST", "IMPORT"} => CasesOf(pid) = New
  /\ op = "ADD" => CasesOf(pid) = Had \cup New
  /\ op = "PUT" => \/ ~HasArray /\ CasesOf(pid) = Had
                   \/ HasArray /\ CasesOf(pid) = New /\ Cardinality(New) = Total
                   \/ body = <<>> /\ CasesOf(pid) = Had

\* An answer of refusal means that no test case was stored or lost; all that is done
\* then is that a refused array of POST or PUT leaves the problem's fields written.
RefusalEffect ==
  /\ New = {} /\ CasesOf(pid) = Had
  /\ IF op \in {"POST", "PUT"} /\ reply = 400
     THEN pid \in DOMAIN problems /\ problems[pid] = Row(judge_type)
     ELSE problems = before.problems

\* After an answer of failure the request's array is there as a whole or not at all,
\* beside the old cases where it was to be appended and in their place where it was
\* to replace them; a problem is gone only with its cases.
FailureEffect ==
  /\ New = {} \/ Cardinality(New) = Total
  /\ op \in {"POST", "ADD"} => CasesOf(pid) = Had \cup New
  /\ op \in {"PUT", "IMPORT"} => CasesOf(pid) \in {Had, New}
  /\ op = "DELETE" => CasesOf(pid) = Had \/ (CasesOf(pid) = {} /\ pid \notin DOMAIN problems)
  /\ op \in {"ADD", "IMPORT"} => problems = before.problems
  /\ op = "PUT" => \/ problems = before.problems
                   \/ pid \in DOMAIN problems /\ problems[pid] = Row(judge_type)

\* The status of the answer tells what the statements of the request have done, and
\* no other problem is touched.
ReplyTellsEffect ==
  reply # 0 =>
    /\ reply = 200 => SuccessEffect
    /\ reply \in {400, 404} => RefusalEffect
    /\ reply = 500 => FailureEffect
    /\ test_cases \ CasesOf(pid) = before.test_cases \ Had
    /\ \A p \in DOMAIN before.problems \ {pid} :
         p \in DOMAIN problems /\ problems[p] = before.problems[p]

\* No request stores more than kMaxCases cases, whichever handler checked it, so a
\* problem exceeds the limit (which appending to it may do) only by several arrays.
ArrayCap ==
  \A p \in DOMAIN problems, r \in 1..reqs :
    Cardinality({c \in CasesOf(p) : c.req = r}) <= MaxCases
================================================================================
