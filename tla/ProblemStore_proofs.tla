-------------------------- MODULE ProblemStore_proofs ---------------------------
(***************************************************************************)
(* Theorems about ProblemStore, for any arrays, any limit and any number   *)
(* of requests.  IInv says how the rows of a problem are numbered and fit  *)
(* together (Stored), what an insertion may rely on (Appends, Checked),    *)
(* and how the tables differ, at each statement of a request, from what    *)
(* the request found (Progress).                                           *)
(***************************************************************************)
EXTENDS ProblemStore, TLAPS, FiniteSetTheorems, SequenceTheorems

\* The counters: a request inserts at most one problem.
Counted ==
  /\ next_pid <= reqs + 1
  /\ at = "InsertProblem" => next_pid <= reqs

\* The rows of a problem have the numbers 1..n, each once.
OrderNos(p) == {c.order_no : c \in CasesOf(p)}
Numbered ==
  /\ \A c \in test_cases : c.problem_id \in DOMAIN problems
  /\ \A p \in DOMAIN problems : \E n \in Nat : OrderNos(p) = 1..n
  /\ \A c, d \in test_cases : c.problem_id = d.problem_id /\ c.order_no = d.order_no => c = d

\* Rows of one array lie as they lay in the array, and none is missing; arrays of
\* later requests come after.
SameArray(c, d) == c.problem_id = d.problem_id /\ c.req = d.req
Blocks ==
  /\ \A c \in test_cases : c.nth \in 1..c.of /\ c.of <= MaxCases
  /\ \A c \in test_cases : \A i \in 1..c.of : \E d \in test_cases : SameArray(c, d) /\ d.nth = i
  /\ \A c, d \in test_cases :
       SameArray(c, d) => c.of = d.of /\ d.order_no - c.order_no = d.nth - c.nth
  /\ \A c, d \in test_cases :
       c.problem_id = d.problem_id /\ d.req < c.req => d.order_no < c.order_no
Stored == Numbered /\ Blocks

\* Where an insertion begins: at 1, or just after the greatest number.
AfterLast ==
  /\ next_order - 1 \in OrderNos(pid) \cup {0}
  /\ \A c \in CasesOf(pid) : c.order_no < next_order
Appends == at # "free" => next_order = 1 \/ (op = "ADD" /\ AfterLast)

\* The statements each handler comes to.
StatementsOf(o) ==
  CASE o = "POST" -> {"InsertProblem", "InsertCases", "Rollback"}
    [] o = "PUT" -> {"Exists", "Update", "DeleteCases", "InsertCases"}
    [] o = "DELETE" -> {"DeleteProblem"}
    [] o = "ADD" -> {"MaxOrder", "Exists", "InsertCases"}
    [] OTHER -> {"Exists", "DeleteCases", "InsertCases"}

\* What has been checked before a statement.
Checked ==
  at # "free" =>
    /\ op \in Ops /\ at \in StatementsOf(op) /\ reply = 0
    /\ at # "Rollback" => \A c \in test_cases : c.req < reqs
    /\ op \in {"ADD", "IMPORT"} => HasArray /\ body # <<>>
    /\ at \in {"Update", "DeleteCases", "InsertCases", "Rollback"} => pid \in DOMAIN problems
    /\ at \in {"DeleteCases", "InsertCases"} => HasArray /\ Len(body) <= MaxCases
    /\ at = "InsertCases" => body # <<>>

\* What the request has changed when it comes to a statement.
Untouched == problems = before.problems /\ test_cases = before.test_cases
OthersKept ==
  /\ test_cases \ CasesOf(pid) = before.test_cases \ Had
  /\ \A p \in DOMAIN before.problems \ {pid} :
       p \in DOMAIN problems /\ problems[p] = before.problems[p]
AllOrNothing == New = {} \/ Cardinality(New) = Total
Progress ==
  at # "free" =>
    /\ OthersKept
    /\ at \in {"InsertProblem", "MaxOrder", "Exists", "Update", "DeleteProblem"} => Untouched
    /\ op \in {"ADD", "IMPORT"} => problems = before.problems
    /\ op \in {"POST", "PUT"} /\ at \in {"DeleteCases", "InsertCases", "Rollback"} =>
         problems[pid] = Row(judge_type)
    /\ op = "POST" /\ at # "InsertProblem" => Had = {}
    /\ at = "Rollback" => CasesOf(pid) = New /\ AllOrNothing
    /\ at # "Rollback" =>
         CasesOf(pid) = Had \/ (op \in {"PUT", "IMPORT"} /\ at = "InsertCases" /\ CasesOf(pid) = {})

IInv == TypeOK /\ Counted /\ Stored /\ Appends /\ Checked /\ Progress /\ ReplyTellsEffect

--------------------------------------------------------------------------------
\* Rows and arrays

\* The fields of a row.
LEMMA CaseTypes ==
  ASSUME TypeOK, NEW c \in test_cases
  PROVE  /\ c.problem_id \in 1..(next_pid - 1) /\ c.order_no \in Nat \ {0}
         /\ c.content \in CaseContent /\ c.req \in 1..reqs /\ c.nth \in Nat /\ c.of \in Nat
BY DEF TypeOK

\* An array of a request, and what is not one.
LEMMA ArrayShape ==
  ASSUME TypeOK, HasArray
  PROVE  /\ body \in Seq(CaseContent) /\ Len(body) \in Nat /\ DOMAIN body = 1..Len(body)
         /\ \A i \in 1..Len(body) : body[i] \in CaseContent
         /\ body # <<>> => Len(body) >= 1
  <1>1. body \in Seq(CaseContent)
    BY BodiesAssumption DEF TypeOK, HasArray
  <1> HIDE DEF CaseContent
  <1>2. \A i \in 1..Len(body) : body[i] \in CaseContent
    BY <1>1
  <1>3. body # <<>> => Len(body) >= 1
    BY <1>1
  <1> QED BY <1>1, <1>2, <1>3

\* An absent array is not an array.
LEMMA NoArrayIsNoBody == NoArray \notin Bodies
  <1> SUFFICES ASSUME NoArray \in Seq(CaseContent) PROVE FALSE
    BY BodiesAssumption
  <1>1. NoArray[1] = "no array"
    BY DEF NoArray
  <1>2. NoArray[1] \in CaseContent
    <2>1. Len(NoArray) = 1
      BY DEF NoArray
    <2>2. 1 \in 1..Len(NoArray)
      BY <2>1
    <2> QED BY <2>2, ElementOfSeq
  <1> QED BY <1>1, <1>2 DEF CaseContent

\* Counting by a numbering.
LEMMA Counting ==
  ASSUME NEW S, NEW n \in Nat, NEW f \in [S -> 1..n],
         \A c, d \in S : f[c] = f[d] => c = d
  PROVE  /\ IsFiniteSet(S) /\ Cardinality(S) <= n
         /\ (\A i \in 1..n : \E c \in S : f[c] = i) => Cardinality(S) = n
  <1>1. f \in Injection(S, 1..n)
    BY DEF Injection, IsInjective
  <1>2. IsFiniteSet(1..n) /\ Cardinality(1..n) = n
    BY FS_Interval
  <1>3. IsFiniteSet(S) /\ Cardinality(S) <= n /\ (Cardinality(S) = n <=> f \in Surjection(S, 1..n))
    BY <1>1, <1>2, FS_Injection
  <1>4. (\A i \in 1..n : \E c \in S : f[c] = i) => f \in Surjection(S, 1..n)
    BY DEF Surjection
  <1> QED BY <1>3, <1>4

--------------------------------------------------------------------------------
\* The tables

\* Nothing is stored or removed; at most a problem is added that has no cases.
LEMMA CasesKept ==
  ASSUME TypeOK, Stored, test_cases' = test_cases, DOMAIN problems \subseteq DOMAIN problems'
  PROVE  Stored'
  <1>1. Blocks'
    BY DEF Stored, Blocks, SameArray
  <1>2. \A p \in DOMAIN problems' : \E n \in Nat : OrderNos(p)' = 1..n
    <2> TAKE p \in DOMAIN problems'
    <2>1. OrderNos(p)' = OrderNos(p)
      BY DEF OrderNos, CasesOf
    <2>2. CASE p \in DOMAIN problems
      BY <2>1, <2>2 DEF Stored, Numbered
    <2>3. CASE p \notin DOMAIN problems
      <3>1. OrderNos(p) = {}
        BY <2>3 DEF Stored, Numbered, OrderNos, CasesOf
      <3>2. 1..0 = {} /\ 0 \in Nat
        OBVIOUS
      <3> QED BY <2>1, <3>1, <3>2
    <2> QED BY <2>2, <2>3
  <1>3. Numbered'
    BY <1>2 DEF Stored, Numbered
  <1> QED BY <1>1, <1>3 DEF Stored

\* All cases of one problem are removed, perhaps with the problem.
LEMMA CasesRemoved ==
  ASSUME TypeOK, Stored, NEW p, test_cases' = test_cases \ CasesOf(p),
         DOMAIN problems' = DOMAIN problems \/ DOMAIN problems' = DOMAIN problems \ {p}
  PROVE  Stored'
  <1>1. \A c : c \in test_cases' <=> c \in test_cases /\ c.problem_id # p
    BY DEF CasesOf
  <1>2. Blocks'
    <2>1. \A c \in test_cases' : \A i \in 1..c.of : \E d \in test_cases' : SameArray(c, d) /\ d.nth = i
      BY <1>1 DEF Stored, Blocks, SameArray
    <2> QED BY <1>1, <2>1 DEF Stored, Blocks, SameArray
  <1>3. \A q \in DOMAIN problems' : \E n \in Nat : OrderNos(q)' = 1..n
    <2> TAKE q \in DOMAIN problems'
    <2>1. CASE q = p
      <3>1. OrderNos(q)' = {}
        BY <1>1, <2>1 DEF OrderNos, CasesOf
      <3>2. 1..0 = {} /\ 0 \in Nat
        OBVIOUS
      <3> QED BY <3>1, <3>2
    <2>2. CASE q # p
      <3>1. CasesOf(q)' = CasesOf(q)
        BY <1>1, <2>2 DEF CasesOf
      <3> QED BY <2>2, <3>1 DEF OrderNos, Stored, Numbered
    <2> QED BY <2>1, <2>2
  <1>4. Numbered'
    <2>1. \A c \in test_cases' : c.problem_id \in DOMAIN problems'
      BY <1>1 DEF Stored, Numbered
    <2> QED BY <1>1, <1>3, <2>1 DEF Stored, Numbered
  <1> QED BY <1>2, <1>4 DEF Stored

\* Where the keys are free the insertion begins just after the last case.
LEMMA NextFree ==
  ASSUME TypeOK, Stored, next_order = 1 \/ AfterLast,
         HasArray, body # <<>>, KeysAreFree(Rows(pid, next_order))
  PROVE  /\ pid \in DOMAIN problems
         /\ \E m \in Nat : OrderNos(pid) = 1..m /\ next_order = m + 1
         /\ next_order = 1 => CasesOf(pid) = {}
  <1>1. pid \in DOMAIN problems
    BY DEF KeysAreFree
  <1>2. PICK m \in Nat : OrderNos(pid) = 1..m
    BY <1>1 DEF Stored, Numbered
  <1>3. CASE next_order = 1
    <2>1. 1 \in DOMAIN body
      BY ArrayShape
    <2>2. StoredCase(pid, next_order, 1) \in Rows(pid, next_order)
      BY <2>1 DEF Rows
    <2>3. StoredCase(pid, next_order, 1).order_no = 1
      BY <1>3 DEF StoredCase
    <2>4. \A c \in CasesOf(pid) : c.order_no # 1
      BY <2>2, <2>3 DEF KeysAreFree
    <2>5. 1 \notin 1..m
      BY <1>2, <2>4 DEF OrderNos
    <2>6. m = 0
      BY <2>5
    <2>7. CasesOf(pid) = {}
      <3>1. 1..m = {}
        BY <2>6
      <3> QED BY <1>2, <3>1 DEF OrderNos
    <2> QED BY <1>1, <1>2, <1>3, <2>6, <2>7
  <1>4. CASE AfterLast /\ next_order # 1
    <2>1. next_order - 1 \in 1..m
      BY <1>2, <1>4 DEF AfterLast, TypeOK
    <2>2. \A k \in 1..m : k < next_order
      BY <1>2, <1>4 DEF AfterLast, OrderNos
    <2>3. next_order = m + 1
      BY <2>1, <2>2 DEF TypeOK
    <2> QED BY <1>1, <1>2, <1>4, <2>3
  <1> QED BY <1>3, <1>4

\* What the insertion adds.
LEMMA RowShape ==
  ASSUME TypeOK, HasArray, NEW first \in Nat
  PROVE  /\ \A i \in 1..Len(body) : StoredCase(pid, first, i) \in Rows(pid, first)
         /\ \A r \in Rows(pid, first) :
              /\ r.problem_id = pid /\ r.req = reqs /\ r.of = Len(body)
              /\ r.nth \in 1..Len(body) /\ r.order_no = first + r.nth - 1
              /\ r = StoredCase(pid, first, r.nth)
  <1>1. Len(body) \in Nat /\ DOMAIN body = 1..Len(body)
    BY ArrayShape
  <1>2. \A i \in 1..Len(body) : StoredCase(pid, first, i) \in Rows(pid, first)
    BY <1>1 DEF Rows
  <1>3. ASSUME NEW r \in Rows(pid, first)
        PROVE  /\ r.problem_id = pid /\ r.req = reqs /\ r.of = Len(body)
               /\ r.nth \in 1..Len(body) /\ r.order_no = first + r.nth - 1
               /\ r = StoredCase(pid, first, r.nth)
    <2>1. PICK i \in 1..Len(body) : r = StoredCase(pid, first, i)
      BY <1>1 DEF Rows
    <2>2. /\ r.problem_id = pid /\ r.req = reqs /\ r.of = Len(body) /\ r.nth = i
          /\ r.order_no = first + i - 1
      BY <2>1 DEF StoredCase
    <2> QED BY <2>1, <2>2
  <1> QED BY <1>2, <1>3

\* The insertion of a whole array after the last case.
LEMMA CasesAdded ==
  ASSUME TypeOK, Stored, Checked, at = "InsertCases", next_order = 1 \/ AfterLast,
         KeysAreFree(Rows(pid, next_order)),
         test_cases' = test_cases \cup Rows(pid, next_order), problems' = problems
  PROVE  Stored'
  <1> DEFINE new == Rows(pid, next_order)
             L == Len(body)
  <1>1. HasArray /\ body # <<>> /\ L <= MaxCases /\ \A c \in test_cases : c.req < reqs
    BY DEF Checked
  <1>2. L \in Nat \ {0} /\ DOMAIN body = 1..L
    BY <1>1, ArrayShape
  <1>3. PICK m \in Nat : OrderNos(pid) = 1..m /\ next_order = m + 1
    BY <1>1, NextFree
  <1>4. pid \in DOMAIN problems
    BY DEF KeysAreFree
  <1>5. /\ \A i \in 1..L : StoredCase(pid, next_order, i) \in new
        /\ \A r \in new :
             /\ r.problem_id = pid /\ r.req = reqs /\ r.of = L
             /\ r.nth \in 1..L /\ r.order_no = m + r.nth
             /\ r = StoredCase(pid, next_order, r.nth)
    <2>1. next_order \in Nat
      BY <1>3
    <2>2. /\ \A i \in 1..L : StoredCase(pid, next_order, i) \in new
          /\ \A r \in new :
               /\ r.problem_id = pid /\ r.req = reqs /\ r.of = L
               /\ r.nth \in 1..L /\ r.order_no = next_order + r.nth - 1
               /\ r = StoredCase(pid, next_order, r.nth)
      BY <1>1, <2>1, RowShape
    <2> HIDE DEF new, L
    <2>3. \A k \in 1..L : next_order + k - 1 = m + k
      BY <1>2, <1>3
    <2> QED BY <2>2, <2>3
  <1>6. \A i \in 1..L : StoredCase(pid, next_order, i).nth = i /\ StoredCase(pid, next_order, i).order_no = m + i
    BY <1>2, <1>3 DEF StoredCase
  <1>7. \A c \in test_cases : c.problem_id = pid => c.order_no \in 1..m
    BY <1>3 DEF OrderNos, CasesOf
  <1>8. \A c \in test_cases : c.order_no \in Nat /\ c.req \in Nat /\ c.nth \in Nat /\ c.of \in Nat
    BY CaseTypes
  <1>9. \A c \in test_cases' : c \in test_cases \/ c \in new
    OBVIOUS
  <1> HIDE DEF new, L
  <1>10. reqs \in Nat /\ MaxCases \in Nat
    BY BoundsAssumption DEF TypeOK
  <1>11. Numbered'
    <2>1. \A c \in test_cases' : c.problem_id \in DOMAIN problems'
      BY <1>4, <1>5, <1>9 DEF Stored, Numbered
    <2>2. \A p \in DOMAIN problems' : \E n \in Nat : OrderNos(p)' = 1..n
      <3> TAKE p \in DOMAIN problems'
      <3>1. CASE p = pid
        <4>1. ASSUME NEW k \in OrderNos(p)' PROVE k \in 1..(m + L)
          <5>1. PICK c \in test_cases' : c.problem_id = p /\ k = c.order_no
            BY DEF OrderNos, CasesOf
          <5>2. CASE c \in test_cases
            BY <1>2, <1>3, <1>7, <3>1, <5>1, <5>2
          <5>3. CASE c \in new
            BY <1>2, <1>3, <1>5, <5>1, <5>3
          <5> QED BY <1>9, <5>2, <5>3
        <4>2. ASSUME NEW k \in 1..(m + L) PROVE k \in OrderNos(p)'
          <5>1. CASE k \in 1..m
            <6>1. PICK c \in test_cases : c.problem_id = pid /\ c.order_no = k
              BY <1>3, <5>1 DEF OrderNos, CasesOf
            <6>2. c \in test_cases'
              BY <6>1
            <6> QED BY <3>1, <6>1, <6>2 DEF OrderNos, CasesOf
          <5>2. CASE k \notin 1..m
            <6>1. k - m \in 1..L /\ m + (k - m) = k
              BY <1>2, <1>3, <5>2
            <6> DEFINE c == StoredCase(pid, next_order, k - m)
            <6>2. c \in new /\ c.order_no = k
              BY <1>5, <1>6, <6>1
            <6>3. c \in test_cases' /\ c.problem_id = pid
              BY <1>5, <6>2 DEF new
            <6> HIDE DEF c
            <6> QED BY <3>1, <6>2, <6>3 DEF OrderNos, CasesOf
          <5> QED BY <5>1, <5>2
        <4>3. OrderNos(p)' = 1..(m + L)
          BY <4>1, <4>2, Zenon
        <4>4. m + L \in Nat
          BY <1>2, <1>3
        <4> QED BY <4>3, <4>4
      <3>2. CASE p # pid
        <4>1. CasesOf(p)' = CasesOf(p)
          BY <1>5, <1>9, <3>2 DEF CasesOf
        <4>2. OrderNos(p)' = OrderNos(p)
          BY <4>1 DEF OrderNos
        <4> QED BY <4>2 DEF Stored, Numbered
      <3> QED BY <3>1, <3>2
    <2>3. ASSUME NEW c \in test_cases', NEW d \in test_cases',
                 c.problem_id = d.problem_id, c.order_no = d.order_no
          PROVE  c = d
      <3>1. CASE c \in test_cases /\ d \in test_cases
        BY <2>3, <3>1 DEF Stored, Numbered
      <3>2. CASE c \in new /\ d \in new
        <4>1. c.nth \in Int /\ d.nth \in Int /\ m + c.nth = m + d.nth
          BY <1>2, <1>5, <2>3, <3>2
        <4>2. c.nth = d.nth
          BY <1>3, <4>1
        <4> QED BY <1>5, <3>2, <4>2
      <3>3. CASE c \in new /\ d \in test_cases
        BY <1>2, <1>3, <1>5, <1>7, <2>3, <3>3
      <3>4. CASE c \in test_cases /\ d \in new
        BY <1>2, <1>3, <1>5, <1>7, <2>3, <3>4
      <3> QED BY <1>9, <3>1, <3>2, <3>3, <3>4
    <2> QED BY <2>1, <2>2, <2>3 DEF Numbered
  <1>12. Blocks'
    <2>1. \A c \in test_cases' : c.nth \in 1..c.of /\ c.of <= MaxCases
      BY <1>1, <1>5, <1>9 DEF Stored, Blocks, L
    <2>2. \A c \in test_cases' : \A i \in 1..c.of : \E d \in test_cases' : SameArray(c, d) /\ d.nth = i
      <3> TAKE c \in test_cases'
      <3> TAKE i \in 1..c.of
      <3>1. CASE c \in test_cases
        <4>1. PICK d \in test_cases : SameArray(c, d) /\ d.nth = i
          BY <3>1 DEF Stored, Blocks
        <4> QED BY <4>1
      <3>2. CASE c \in new
        <4> DEFINE d == StoredCase(pid, next_order, i)
        <4>1. i \in 1..L
          BY <1>5, <3>2
        <4>2. d \in new /\ d.nth = i
          BY <1>5, <1>6, <4>1
        <4>3. d \in test_cases' /\ SameArray(c, d)
          BY <1>5, <3>2, <4>2 DEF SameArray, new
        <4> HIDE DEF d
        <4> QED BY <4>2, <4>3
      <3> QED BY <1>9, <3>1, <3>2
    <2>3. ASSUME NEW c \in test_cases', NEW d \in test_cases', c.problem_id = d.problem_id
          PROVE  /\ c.req = d.req => c.of = d.of /\ d.order_no - c.order_no = d.nth - c.nth
                 /\ d.req < c.req => d.order_no < c.order_no
      <3>1. CASE c \in test_cases /\ d \in test_cases
        BY <2>3, <3>1 DEF Stored, Blocks, SameArray
      <3>2. CASE c \in new /\ d \in new
        BY <1>2, <1>3, <1>5, <1>10, <3>2
      <3>3. CASE c \in new /\ d \in test_cases
        <4>1. d.req < c.req /\ d.req # c.req
          BY <1>1, <1>5, <1>8, <1>10, <3>3
        <4>2. d.order_no < c.order_no
          BY <1>2, <1>3, <1>5, <1>7, <2>3, <3>3
        <4> QED BY <4>1, <4>2
      <3>4. CASE c \in test_cases /\ d \in new
        <4>1. ~(d.req < c.req) /\ d.req # c.req
          BY <1>1, <1>5, <1>8, <1>10, <3>4
        <4> QED BY <4>1
      <3> QED BY <1>9, <3>1, <3>2, <3>3, <3>4
    <2> QED BY <2>1, <2>2, <2>3 DEF Blocks, SameArray
  <1> QED BY <1>11, <1>12 DEF Stored

--------------------------------------------------------------------------------
\* The steps

\* Empty tables satisfy the invariant.
LEMMA Initial == Init => IInv
  <1> SUFFICES ASSUME Init PROVE IInv
    OBVIOUS
  <1>1. DOMAIN problems = {} /\ test_cases = {}
    BY DEF Init
  <1>2. TypeOK
    BY <1>1, BoundsAssumption DEF Init, TypeOK
  <1>3. Counted /\ Appends /\ Checked /\ Progress /\ ReplyTellsEffect
    BY DEF Init, Counted, Appends, Checked, Progress, ReplyTellsEffect
  <1>4. Stored
    BY <1>1 DEF Stored, Numbered, Blocks
  <1> QED BY <1>2, <1>3, <1>4 DEF IInv

\* In a request no case is its own before its insertion.
LEMMA NothingNew ==
  ASSUME TypeOK, Checked, at \notin {"free", "Rollback"}
  PROVE  New = {} /\ reply = 0
  <1>1. \A c \in test_cases : c.req \in Int /\ c.req < reqs
    BY CaseTypes DEF Checked
  <1>2. reqs \in Int
    BY DEF TypeOK
  <1> QED BY <1>1, <1>2 DEF Checked, New, CasesOf

\* An answer that changes no table, refusal or failure, tells what Progress says.
LEMMA FailureTold ==
  ASSUME TypeOK, Checked, Progress, at # "free", UNCHANGED tables, UNCHANGED request,
         \/ reply' = 500
         \/ reply' \in {400, 404} /\ Untouched /\ at # "Rollback"
            /\ ~(op \in {"POST", "PUT"} /\ reply' = 400)
  PROVE  ReplyTellsEffect'
  <1>1. UNCHANGED <<problems, test_cases, reqs, op, pid, judge_type, body, before>>
    BY DEF tables, request
  <1>2. New' = New /\ Had' = Had /\ CasesOf(pid)' = CasesOf(pid) /\ Total' = Total
        /\ Row(judge_type)' = Row(judge_type)
    BY <1>1 DEF New, Had, CasesOf, Total, HasArray, Row
  <1>3. at # "Rollback" => New = {}
    BY NothingNew
  <1>4. reply' \in {400, 404} => RefusalEffect'
    <2>1. Untouched => CasesOf(pid) = Had
      BY DEF Untouched, CasesOf, Had
    <2> QED BY <1>1, <1>2, <1>3, <2>1 DEF RefusalEffect, Untouched
  <1>5. FailureEffect'
    <2>1. AllOrNothing
      BY <1>3 DEF Progress, AllOrNothing
    <2>2. op \in {"POST", "ADD"} => CasesOf(pid) = Had \cup New
      BY <1>3 DEF Progress, Checked, StatementsOf
    <2>3. op \in {"PUT", "IMPORT"} => CasesOf(pid) \in {Had, New}
      BY <1>3 DEF Progress, Checked, StatementsOf
    <2>4. op = "DELETE" => CasesOf(pid) = Had
      BY DEF Progress, Checked, StatementsOf
    <2>5. op \in {"ADD", "IMPORT"} => problems = before.problems
      BY DEF Progress
    <2>6. op = "PUT" => \/ problems = before.problems
                        \/ pid \in DOMAIN problems /\ problems[pid] = Row(judge_type)
      BY DEF Progress, Checked, StatementsOf, Untouched
    <2> QED BY <1>1, <1>2, <2>1, <2>2, <2>3, <2>4, <2>5, <2>6 DEF FailureEffect, AllOrNothing
  <1>6. OthersKept'
    BY <1>1, <1>2 DEF Progress, OthersKept
  <1>7. reply' # 200
    OBVIOUS
  <1> QED BY <1>4, <1>5, <1>6, <1>7 DEF ReplyTellsEffect, OthersKept

\* A statement that answers, or goes on, and changes nothing else.
LEMMA TypeKept ==
  ASSUME TypeOK, UNCHANGED tables, UNCHANGED request, next_order' \in Nat,
         at' \in Statements \cup {"free"}, reply' \in {0, 200, 400, 404, 500}
  PROVE  TypeOK'
BY DEF TypeOK, tables, request

\* A handler begins with a request that passed the checks of its fields.
LEMMA BeginStep ==
  ASSUME IInv, NEW o \in Ops, NEW p \in Nat, NEW type \in {"exact", "special"},
         NEW b \in Bodies \cup {NoArray}, Begin(o, p, type, b)
  PROVE  IInv'
  <1>1. /\ at = "free" /\ reqs < MaxRequests /\ b \in BodiesFor(o)
        /\ reqs' = reqs + 1 /\ op' = o /\ pid' = p /\ judge_type' = type /\ body' = b
        /\ before' = [problems |-> problems, test_cases |-> test_cases]
        /\ at' = FirstStatement(o) /\ next_order' = 1 /\ reply' = 0
        /\ problems' = problems /\ test_cases' = test_cases /\ next_pid' = next_pid
    BY DEF Begin, tables
  <1>2. reqs \in Nat /\ reqs' \in 0..MaxRequests /\ 1..reqs \subseteq 1..reqs'
    BY <1>1, BoundsAssumption DEF IInv, TypeOK
  <1>3. at' \in {"InsertProblem", "MaxOrder", "Exists", "DeleteProblem"} /\ at' \in StatementsOf(o)
        /\ (o = "ADD" \/ at' # "MaxOrder") /\ (o = "POST" <=> at' = "InsertProblem")
    BY <1>1 DEF FirstStatement, StatementsOf, Ops
  <1>4. TypeOK'
    <2>1. \A c \in test_cases' : c \in [problem_id : 1..(next_pid - 1), order_no : Nat \ {0},
                                        content : CaseContent, req : 1..reqs', nth : Nat, of : Nat]
      BY <1>1, <1>2 DEF IInv, TypeOK
    <2>2. \A q \in DOMAIN problems' : problems'[q] \in [judge_type : {"exact", "special"}, req : 1..reqs']
      BY <1>1, <1>2 DEF IInv, TypeOK
    <2>3. pid' \in Nat /\ at' \in Statements \cup {"free"} /\ op' \in Ops \cup {"none"}
      BY <1>1, <1>3, BoundsAssumption DEF Statements
    <2>4. judge_type' \in {"exact", "special"} /\ next_order' \in Nat /\ body' \in Bodies \cup {NoArray}
          /\ reply' \in {0, 200, 400, 404, 500}
      BY <1>1
    <2>5. next_pid' \in 1..(MaxRequests + 1) /\ DOMAIN problems' \subseteq 1..(next_pid' - 1)
      BY <1>1 DEF IInv, TypeOK
    <2> QED BY <1>1, <1>2, <2>1, <2>2, <2>3, <2>4, <2>5 DEF TypeOK
  <1>5. Counted'
    BY <1>1, <1>2 DEF IInv, Counted, TypeOK
  <1>6. Stored'
    BY <1>1, CasesKept DEF IInv
  <1>7. Appends'
    BY <1>1 DEF Appends
  <1>8. Checked'
    <2>1. \A c \in test_cases' : c.req < reqs'
      BY <1>1, <1>2, CaseTypes DEF IInv
    <2>2. o \in {"ADD", "IMPORT"} => b # NoArray /\ b # <<>>
      BY <1>1, NoArrayIsNoBody DEF BodiesFor
    <2> QED BY <1>1, <1>3, <2>1, <2>2 DEF Checked, HasArray
  <1>9. Progress'
    <2>1. CasesOf(pid)' = Had'
      BY <1>1 DEF CasesOf, Had
    <2>2. Untouched' /\ OthersKept'
      BY <1>1, <2>1 DEF Untouched, OthersKept
    <2>3. op' = "POST" => at' = "InsertProblem"
      BY <1>1, <1>3
    <2> QED BY <1>1, <1>3, <2>1, <2>2, <2>3 DEF Progress, Untouched
  <1>10. ReplyTellsEffect'
    BY <1>1 DEF ReplyTellsEffect
  <1> QED BY <1>4, <1>5, <1>6, <1>7, <1>8, <1>9, <1>10 DEF IInv

\* POST inserts its problem: a number nobody has, and no cases yet.
LEMMA InsertProblemStep ==
  ASSUME IInv, InsertProblem
  PROVE  IInv'
  <1>1. /\ at = "InsertProblem" /\ op = "POST" /\ reply = 0 /\ Untouched
        /\ UNCHANGED <<test_cases, reqs, op, judge_type, body, before, next_order>>
    BY DEF IInv, InsertProblem, Checked, StatementsOf, Progress, Ops
  <1>2. CASE Answer(500) /\ UNCHANGED <<problems, next_pid, pid>>
    <2>1. UNCHANGED tables /\ UNCHANGED request /\ reply' = 500 /\ at' = "free" /\ next_order' = next_order
      BY <1>1, <1>2 DEF tables, request, Answer
    <2>2. TypeOK'
      BY <2>1, TypeKept DEF IInv, TypeOK
    <2>3. Stored' /\ Counted'
      BY <2>1, CasesKept DEF IInv, Counted, tables, request
    <2>4. ReplyTellsEffect'
      BY <1>1, <2>1, FailureTold DEF IInv
    <2> QED BY <2>1, <2>2, <2>3, <2>4 DEF IInv, Appends, Checked, Progress
  <1>3. CASE /\ problems' = [p \in DOMAIN problems \cup {next_pid} |->
                               IF p = next_pid THEN Row(judge_type) ELSE problems[p]]
             /\ next_pid' = next_pid + 1
             /\ pid' = next_pid
             /\ \/ (~HasArray \/ body = <<>>) /\ Answer(200)
                \/ HasArray /\ body # <<>> /\ ~ValidCases(judge_type = "exact") /\ Answer(400)
                \/ HasArray /\ body # <<>> /\ ValidCases(judge_type = "exact") /\ GoOn("InsertCases")
    <2>1. next_pid \in Nat \ {0} /\ next_pid <= reqs /\ reqs \in 1..MaxRequests
      BY <1>1, BoundsAssumption DEF IInv, Counted, TypeOK
    <2>2. DOMAIN problems \subseteq 1..(next_pid - 1) /\ next_pid \notin DOMAIN problems
          /\ 1..(next_pid - 1) \subseteq 1..(next_pid' - 1) /\ next_pid \in 1..(next_pid' - 1)
      BY <1>3, <2>1 DEF IInv, TypeOK
    <2>3. DOMAIN problems' = DOMAIN problems \cup {next_pid} /\ problems'[next_pid] = Row(judge_type)
          /\ \A p \in DOMAIN problems : problems'[p] = problems[p]
      BY <1>3, <2>2
    <2>4. \A c \in test_cases : c.problem_id # next_pid
      BY <2>1, CaseTypes DEF IInv
    <2>5. CasesOf(pid)' = {} /\ Had' = {} /\ New' = {}
      BY <1>1, <1>3, <2>4 DEF CasesOf, Had, New, Untouched
    <2>6. at' \in {"free", "InsertCases"} /\ reply' \in {0, 200, 400}
      BY <1>1, <1>3 DEF Answer, GoOn
    <2>7. TypeOK'
      <3>1. \A c \in test_cases' : c \in [problem_id : 1..(next_pid' - 1), order_no : Nat \ {0},
                                          content : CaseContent, req : 1..reqs', nth : Nat, of : Nat]
        BY <1>1, <2>2 DEF IInv, TypeOK
      <3>2. Row(judge_type) \in [judge_type : {"exact", "special"}, req : 1..reqs']
        BY <1>1, <2>1 DEF IInv, TypeOK, Row
      <3>3. \A q \in DOMAIN problems' : problems'[q] \in [judge_type : {"exact", "special"}, req : 1..reqs']
        BY <1>1, <2>3, <3>2 DEF IInv, TypeOK
      <3>4. next_pid' \in 1..(MaxRequests + 1) /\ pid' \in Nat
        BY <1>3, <2>1, BoundsAssumption
      <3>5. DOMAIN problems' \subseteq 1..(next_pid' - 1)
        BY <2>2, <2>3
      <3>6. at' \in Statements \cup {"free"} /\ reply' \in {0, 200, 400, 404, 500}
        BY <2>6 DEF Statements
      <3> QED BY <1>1, <3>1, <3>3, <3>4, <3>6, <3>5 DEF IInv, TypeOK
    <2>8. Counted'
      BY <1>1, <1>3, <2>1, <2>6 DEF Counted
    <2>9. Stored'
      BY <1>1, <2>3, CasesKept DEF IInv
    <2>10. Appends'
      BY <1>1, <2>6 DEF IInv, Appends
    <2>11. Checked'
      <3>1. at' # "free" => HasArray /\ body # <<>> /\ ValidCases(judge_type = "exact") /\ reply' = 0
        BY <1>1, <1>3 DEF Answer, GoOn
      <3>2. ValidCases(judge_type = "exact") => Len(body) <= MaxCases
        BY DEF ValidCases
      <3>3. \A c \in test_cases' : c.req < reqs'
        BY <1>1 DEF IInv, Checked
      <3>4. HasArray' <=> HasArray
        BY <1>1 DEF HasArray
      <3> QED BY <1>1, <1>3, <2>3, <2>6, <3>1, <3>2, <3>3, <3>4 DEF Checked, Ops, StatementsOf
    <2>12. OthersKept'
      BY <1>1, <1>3, <2>3, <2>5 DEF OthersKept, Untouched
    <2>13. pid' \in DOMAIN problems' /\ problems'[pid'] = Row(judge_type)'
      BY <1>1, <1>3, <2>3 DEF Row
    <2>14. Progress'
      BY <1>1, <2>5, <2>6, <2>12, <2>13 DEF Progress
    <2>15. ReplyTellsEffect'
      <3>1. reply' = 200 => SuccessEffect'
        <4> SUFFICES ASSUME reply' = 200 PROVE SuccessEffect'
          OBVIOUS
        <4>1. ~HasArray \/ body = <<>>
          BY <1>1, <1>3 DEF Answer, GoOn
        <4>2. Total' = 0
          BY <1>1, <4>1 DEF Total, HasArray
        <4>3. Cardinality(New') = 0
          BY <2>5, FS_EmptySet
        <4> QED BY <1>1, <2>5, <2>13, <4>2, <4>3 DEF SuccessEffect
      <3>2. reply' = 400 => RefusalEffect'
        BY <1>1, <2>5, <2>13 DEF RefusalEffect
      <3> QED BY <2>6, <2>12, <3>1, <3>2 DEF ReplyTellsEffect, OthersKept
    <2> QED BY <2>7, <2>8, <2>9, <2>10, <2>11, <2>14, <2>15 DEF IInv
  <1>4. CASE /\ problems' = [p \in DOMAIN problems \cup {next_pid} |->
                               IF p = next_pid THEN Row(judge_type) ELSE problems[p]]
             /\ next_pid' = next_pid + 1 /\ Answer(500) /\ UNCHANGED pid
    <2>1. next_pid \in Nat \ {0} /\ next_pid <= reqs /\ reqs \in 1..MaxRequests
      BY <1>1, BoundsAssumption DEF IInv, Counted, TypeOK
    <2>2. DOMAIN problems \subseteq 1..(next_pid - 1) /\ next_pid \notin DOMAIN problems
          /\ 1..(next_pid - 1) \subseteq 1..(next_pid' - 1) /\ next_pid \in 1..(next_pid' - 1)
      BY <1>4, <2>1 DEF IInv, TypeOK
    <2>3. DOMAIN problems' = DOMAIN problems \cup {next_pid} /\ problems'[next_pid] = Row(judge_type)
          /\ \A p \in DOMAIN problems : problems'[p] = problems[p]
      BY <1>4, <2>2
    <2>4. at' = "free" /\ reply' = 500
      BY <1>4 DEF Answer
    <2>5. TypeOK'
      <3>1. \A c \in test_cases' : c \in [problem_id : 1..(next_pid' - 1), order_no : Nat \ {0},
                                          content : CaseContent, req : 1..reqs', nth : Nat, of : Nat]
        BY <1>1, <2>2 DEF IInv, TypeOK
      <3>2. Row(judge_type) \in [judge_type : {"exact", "special"}, req : 1..reqs']
        BY <1>1, <2>1 DEF IInv, TypeOK, Row
      <3>3. \A q \in DOMAIN problems' : problems'[q] \in [judge_type : {"exact", "special"}, req : 1..reqs']
        BY <1>1, <2>3, <3>2 DEF IInv, TypeOK
      <3>4. next_pid' \in 1..(MaxRequests + 1) /\ pid' \in Nat
        BY <1>4, <2>1, BoundsAssumption DEF IInv, TypeOK
      <3>5. DOMAIN problems' \subseteq 1..(next_pid' - 1)
        BY <2>2, <2>3
      <3> QED BY <1>1, <2>4, <3>1, <3>3, <3>4, <3>5 DEF IInv, TypeOK
    <2>6. Counted'
      BY <1>1, <1>4, <2>1, <2>4 DEF Counted
    <2>7. Stored'
      BY <1>1, <2>3, CasesKept DEF IInv
    <2>8. Appends' /\ Checked' /\ Progress'
      BY <2>4 DEF Appends, Checked, Progress
    <2>9. New' = {} /\ CasesOf(pid)' = CasesOf(pid) /\ Had' = Had /\ CasesOf(pid) = Had
      BY <1>1, <1>4, NothingNew DEF IInv, New, CasesOf, Had, Untouched
    <2>10. FailureEffect'
      BY <1>1, <2>9 DEF FailureEffect
    <2>11. OthersKept'
      BY <1>1, <1>4, <2>3, <2>9 DEF OthersKept, Untouched
    <2>12. ReplyTellsEffect'
      BY <2>4, <2>10, <2>11 DEF ReplyTellsEffect, OthersKept
    <2> QED BY <2>5, <2>6, <2>7, <2>8, <2>12 DEF IInv
  <1> QED BY <1>1, <1>2, <1>3, <1>4 DEF InsertProblem

\* ADD reads where to append; the cases cannot change before it appends.
LEMMA MaxOrderStep ==
  ASSUME IInv, MaxOrder
  PROVE  IInv'
  <1>1. at = "MaxOrder" /\ op = "ADD" /\ reply = 0 /\ Untouched /\ UNCHANGED tables /\ UNCHANGED request
    BY DEF IInv, MaxOrder, Checked, StatementsOf, Progress, Ops
  <1>2. UNCHANGED <<problems, test_cases, next_pid, reqs, op, pid, judge_type, body, before>>
    BY <1>1 DEF tables, request
  <1>3. \/ at' = "Exists" /\ reply' = reply
        \/ at' = "free" /\ reply' = 500
    BY DEF MaxOrder, Answer, GoOn
  <1>4. next_order' \in Nat /\ (next_order' = next_order \/ AfterLast')
    <2>1. CASE next_order' = next_order
      BY <2>1 DEF IInv, TypeOK
    <2>2. CASE \E m \in {c.order_no : c \in CasesOf(pid)} \cup {0} :
                 /\ \A c \in CasesOf(pid) : c.order_no <= m
                 /\ next_order' = AppendAt(m)
      <3>1. PICK m \in OrderNos(pid) \cup {0} :
              /\ \A c \in CasesOf(pid) : c.order_no <= m
              /\ next_order' = m + 1
        BY <2>2 DEF OrderNos, AppendAt
      <3>2. \A c \in CasesOf(pid) : c.order_no \in Nat
        BY CaseTypes DEF IInv, CasesOf
      <3>3. m \in Nat /\ m + 1 - 1 = m
        BY <3>1, <3>2 DEF OrderNos
      <3>4. next_order' - 1 = m /\ \A c \in CasesOf(pid) : c.order_no < next_order'
        BY <3>1, <3>2, <3>3
      <3>5. CasesOf(pid)' = CasesOf(pid) /\ OrderNos(pid)' = OrderNos(pid)
        BY <1>2 DEF CasesOf, OrderNos
      <3> QED BY <3>1, <3>3, <3>4, <3>5 DEF AfterLast
    <2> QED BY <2>1, <2>2 DEF MaxOrder
  <1>5. TypeOK'
    BY <1>1, <1>3, <1>4, TypeKept DEF IInv, Statements
  <1>6. Counted' /\ Stored'
    BY <1>2, <1>3, CasesKept DEF IInv, Counted
  <1>7. Appends'
    <2>1. next_order' = 1 \/ AfterLast'
      BY <1>1, <1>2, <1>4 DEF IInv, Appends, AfterLast, OrderNos, CasesOf
    <2> QED BY <1>1, <1>2, <2>1 DEF Appends
  <1>8. Checked'
    BY <1>1, <1>2, <1>3 DEF IInv, Checked, StatementsOf, HasArray, Ops
  <1>9. Progress'
    BY <1>1, <1>2, <1>3 DEF IInv, Progress, OthersKept, Untouched, CasesOf, Had
  <1>10. ReplyTellsEffect'
    <2>1. CASE reply' = 500
      BY <1>1, <2>1, FailureTold DEF IInv
    <2>2. CASE reply' = 0
      BY <2>2 DEF ReplyTellsEffect
    <2> QED BY <1>1, <1>3, <2>1, <2>2
  <1> QED BY <1>5, <1>6, <1>7, <1>8, <1>9, <1>10 DEF IInv

\* PUT, ADD and IMPORT ask whether the problem exists, and validate the array.
LEMMA ExistsStep ==
  ASSUME IInv, Exists
  PROVE  IInv'
  <1>1. /\ at = "Exists" /\ op \in {"PUT", "ADD", "IMPORT"} /\ reply = 0 /\ Untouched
        /\ UNCHANGED tables /\ UNCHANGED request /\ next_order' = next_order
    BY DEF IInv, Exists, Checked, StatementsOf, Progress, Ops
  <1>2. UNCHANGED <<problems, test_cases, next_pid, reqs, op, pid, judge_type, body, before>>
    BY <1>1 DEF tables, request
  <1>3. \/ at' = "free" /\ reply' \in {404, 500}
        \/ at' = "free" /\ reply' = 400 /\ op # "PUT"
        \/ /\ pid \in DOMAIN problems /\ reply' = 0
           /\ \/ op = "PUT" /\ at' = "Update"
              \/ op = "ADD" /\ ValidCases(TRUE) /\ at' = "InsertCases"
              \/ op = "IMPORT" /\ ValidCases(TRUE) /\ at' = "DeleteCases"
    <2>1. CASE Answer(500) \/ Answer(404)
      BY <2>1 DEF Answer
    <2>2. CASE Answer(400) /\ (op = "IMPORT" \/ op # "PUT")
      BY <2>2 DEF Answer
    <2>3. CASE /\ pid \in DOMAIN problems
               /\ \/ op = "PUT" /\ GoOn("Update")
                  \/ op = "ADD" /\ ValidCases(TRUE) /\ GoOn("InsertCases")
                  \/ op = "IMPORT" /\ ValidCases(TRUE) /\ GoOn("DeleteCases")
      BY <1>1, <2>3 DEF GoOn
    <2>4. \/ Answer(500) \/ Answer(404)
          \/ Answer(400) /\ (op = "IMPORT" \/ op # "PUT")
          \/ /\ pid \in DOMAIN problems
             /\ \/ op = "PUT" /\ GoOn("Update")
                \/ op = "ADD" /\ ValidCases(TRUE) /\ GoOn("InsertCases")
                \/ op = "IMPORT" /\ ValidCases(TRUE) /\ GoOn("DeleteCases")
      BY Zenon DEF Exists
    <2> QED BY <2>1, <2>2, <2>3, <2>4, Zenon
  <1>4. ValidCases(TRUE) => Len(body) <= MaxCases
    BY DEF ValidCases
  <1>5. TypeOK'
    <2>1. at' # "free" => reply' = 0 /\ at' \in {"Update", "InsertCases", "DeleteCases"}
      BY <1>3
    <2>2. reply' = 0 \/ reply' \in {400, 404, 500}
      BY <1>3
    <2>3. at' \in Statements \cup {"free"} /\ reply' \in {0, 200, 400, 404, 500}
      BY <2>1, <2>2 DEF Statements
    <2>4. next_order' \in Nat
      BY <1>1 DEF IInv, TypeOK
    <2> QED BY <1>1, <2>4, <2>3, TypeKept DEF IInv
  <1>6. Counted' /\ Stored'
    BY <1>2, <1>3, CasesKept DEF IInv, Counted
  <1>7. Appends'
    BY <1>1, <1>2 DEF IInv, Appends, AfterLast, OrderNos, CasesOf
  <1>8. Checked'
    <2>1. op \in {"ADD", "IMPORT"} => HasArray /\ body # <<>>
      BY <1>1 DEF IInv, Checked
    <2>2. at' # "free" => reply' = 0 /\ at' \in StatementsOf(op) /\ pid \in DOMAIN problems
      BY <1>3 DEF StatementsOf
    <2>3. at' \in {"DeleteCases", "InsertCases"} => op \in {"ADD", "IMPORT"} /\ Len(body) <= MaxCases
      BY <1>3, <1>4
    <2>4. op \in Ops /\ \A c \in test_cases : c.req < reqs
      BY <1>1 DEF IInv, Checked
    <2> QED BY <1>2, <2>1, <2>2, <2>3, <2>4 DEF Checked, HasArray
  <1>9. Progress'
    <2>1. at' # "free" => at' \in {"Update", "InsertCases", "DeleteCases"}
          /\ ~(op \in {"POST", "PUT"} /\ at' \in {"DeleteCases", "InsertCases", "Rollback"}) /\ op # "POST"
      BY <1>1, <1>3
    <2>2. CasesOf(pid) = Had /\ OthersKept
      BY <1>1 DEF IInv, Progress
    <2>3. CasesOf(pid)' = CasesOf(pid) /\ Had' = Had /\ Untouched' /\ OthersKept'
      BY <1>1, <1>2, <2>2 DEF CasesOf, Had, Untouched, OthersKept
    <2> QED BY <1>1, <1>2, <2>1, <2>2, <2>3 DEF Progress, Untouched
  <1>10. ReplyTellsEffect'
    <2>1. CASE reply' \in {400, 404, 500}
      <3>1. reply' = 400 => op \notin {"POST", "PUT"}
        BY <1>1, <1>3
      <3>2. at \notin {"free", "Rollback"}
        BY <1>1
      <3> QED BY <1>1, <2>1, <3>1, <3>2, FailureTold DEF IInv
    <2>2. CASE reply' = 0
      BY <2>2 DEF ReplyTellsEffect
    <2>3. reply' = 0 \/ reply' \in {400, 404, 500}
      BY <1>3
    <2> QED BY <2>1, <2>2, <2>3
  <1> QED BY <1>5, <1>6, <1>7, <1>8, <1>9, <1>10 DEF IInv

\* PUT changes the row of its problem.
LEMMA UpdateStep ==
  ASSUME IInv, Update
  PROVE  IInv'
  <1>1. /\ at = "Update" /\ op = "PUT" /\ reply = 0 /\ Untouched /\ pid \in DOMAIN problems
        /\ CasesOf(pid) = Had /\ OthersKept
        /\ UNCHANGED <<test_cases, next_pid>> /\ UNCHANGED request /\ next_order' = next_order
    BY DEF IInv, Update, Checked, StatementsOf, Progress, Ops
  <1>2. UNCHANGED <<reqs, op, pid, judge_type, body, before>>
    BY <1>1 DEF request
  <1>3. CASE Answer(500) /\ UNCHANGED problems
    <2>1. UNCHANGED tables /\ reply' = 500 /\ at' = "free"
      BY <1>1, <1>3 DEF tables, Answer
    <2>2. TypeOK'
      BY <1>1, <2>1, TypeKept DEF IInv, TypeOK
    <2>3. Stored' /\ Counted'
      BY <1>1, <1>2, <1>3, <2>1, CasesKept DEF IInv, Counted
    <2>4. ReplyTellsEffect'
      BY <1>1, <2>1, FailureTold DEF IInv
    <2> QED BY <2>1, <2>2, <2>3, <2>4 DEF IInv, Appends, Checked, Progress
  <1>4. CASE /\ problems' = [problems EXCEPT ![pid] = Row(judge_type)]
             /\ \/ ~HasArray /\ Answer(200)
                \/ HasArray /\ ~ValidCases(judge_type = "exact") /\ Answer(400)
                \/ HasArray /\ ValidCases(judge_type = "exact") /\ GoOn("DeleteCases")
                \/ Answer(500)
    <2>1. /\ DOMAIN problems' = DOMAIN problems /\ problems'[pid] = Row(judge_type)
          /\ \A p \in DOMAIN problems \ {pid} : problems'[p] = problems[p]
      BY <1>1, <1>4
    <2>2. \/ at' = "free" /\ reply' = 200 /\ ~HasArray
          \/ at' = "free" /\ reply' \in {400, 500}
          \/ at' = "DeleteCases" /\ reply' = 0 /\ HasArray /\ Len(body) <= MaxCases
      BY <1>1, <1>4 DEF Answer, GoOn, ValidCases
    <2>3. CasesOf(pid)' = CasesOf(pid) /\ Had' = Had /\ New' = {} /\ Row(judge_type)' = Row(judge_type)
      BY <1>1, <1>2, NothingNew DEF IInv, CasesOf, Had, New, Row
    <2>4. OthersKept'
      BY <1>1, <1>2, <2>1, <2>3 DEF OthersKept, Untouched
    <2>5. TypeOK'
      <3>1. Row(judge_type) \in [judge_type : {"exact", "special"}, req : 1..reqs']
        BY <1>1, <1>2 DEF IInv, TypeOK, Row
      <3>2. \A q \in DOMAIN problems' : problems'[q] \in [judge_type : {"exact", "special"}, req : 1..reqs']
        BY <1>2, <2>1, <3>1 DEF IInv, TypeOK
      <3>3. at' \in Statements \cup {"free"} /\ reply' \in {0, 200, 400, 404, 500}
        BY <2>2 DEF Statements
      <3> QED BY <1>1, <1>2, <2>1, <3>2, <3>3 DEF IInv, TypeOK
    <2>6. Counted' /\ Stored'
      BY <1>1, <1>2, <2>1, <2>2, CasesKept DEF IInv, Counted
    <2>7. Appends'
      BY <1>1, <1>2 DEF IInv, Appends, AfterLast, OrderNos, CasesOf
    <2>8. Checked'
      <3>1. \A c \in test_cases : c.req < reqs
        BY <1>1 DEF IInv, Checked
      <3> QED BY <1>1, <1>2, <2>1, <2>2, <3>1 DEF Checked, StatementsOf, HasArray, Ops
    <2>9. Progress'
      BY <1>1, <1>2, <2>1, <2>2, <2>3, <2>4 DEF Progress
    <2>10. ReplyTellsEffect'
      <3>1. reply' = 200 => SuccessEffect'
        BY <1>1, <1>2, <2>1, <2>2, <2>3 DEF SuccessEffect, HasArray
      <3>2. FailureEffect'
        BY <1>1, <1>2, <2>1, <2>3 DEF FailureEffect
      <3>3. reply' = 400 => RefusalEffect'
        BY <1>1, <1>2, <2>1, <2>3 DEF RefusalEffect
      <3> QED BY <2>2, <2>4, <3>1, <3>2, <3>3 DEF ReplyTellsEffect, OthersKept
    <2> QED BY <2>5, <2>6, <2>7, <2>8, <2>9, <2>10 DEF IInv
  <1> QED BY <1>3, <1>4 DEF Update

\* A replacement removes the old cases, or silently fails to.
LEMMA DeleteCasesStep ==
  ASSUME IInv, DeleteCases
  PROVE  IInv'
  <1>1. /\ at = "DeleteCases" /\ op \in {"PUT", "IMPORT"} /\ reply = 0 /\ pid \in DOMAIN problems
        /\ HasArray /\ Len(body) <= MaxCases /\ (op = "IMPORT" => body # <<>>)
        /\ CasesOf(pid) = Had /\ OthersKept
        /\ (op = "PUT" => problems[pid] = Row(judge_type)) /\ (op = "IMPORT" => problems = before.problems)
    BY DEF IInv, DeleteCases, Checked, StatementsOf, Progress, Ops
  <1>2. UNCHANGED <<problems, next_pid, reqs, op, pid, judge_type, body, before, next_order>>
    BY DEF DeleteCases, request
  <1>3. test_cases' = test_cases \/ test_cases' = test_cases \ CasesOf(pid)
    BY DEF DeleteCases
  <1>4. IF body = <<>> THEN at' = "free" /\ reply' = 200 ELSE at' = "InsertCases" /\ reply' = 0
    BY <1>1 DEF DeleteCases, Answer, GoOn
  <1>5. Had' = Had /\ (HasArray <=> HasArray') /\ Row(judge_type)' = Row(judge_type)
        /\ test_cases' \subseteq test_cases
    BY <1>2, <1>3 DEF Had, HasArray, Row
  <1>6. CasesOf(pid)' = Had \/ CasesOf(pid)' = {}
    BY <1>1, <1>2, <1>3 DEF CasesOf
  <1>7. test_cases' \ CasesOf(pid)' = test_cases \ CasesOf(pid)
    BY <1>2, <1>3 DEF CasesOf
  <1>8. OthersKept'
    BY <1>1, <1>2, <1>5, <1>7 DEF OthersKept
  <1>9. New' = {}
    BY <1>1, <1>2, <1>5, NothingNew DEF IInv, New, CasesOf
  <1>10. TypeOK'
    <2>1. at' \in Statements \cup {"free"} /\ reply' \in {0, 200, 400, 404, 500}
      BY <1>4 DEF Statements
    <2> QED BY <1>2, <1>5, <2>1 DEF IInv, TypeOK
  <1>11. Counted'
    BY <1>2, <1>4 DEF IInv, Counted
  <1>12. Stored'
    BY <1>2, <1>3, CasesKept, CasesRemoved DEF IInv
  <1>13. Appends'
    BY <1>1, <1>2 DEF IInv, Appends
  <1>14. Checked'
    <2>1. \A c \in test_cases' : c.req < reqs
      BY <1>1, <1>5 DEF IInv, Checked
    <2> QED BY <1>1, <1>2, <1>4, <1>5, <2>1 DEF Checked, StatementsOf, Ops
  <1>15. Progress'
    BY <1>1, <1>2, <1>4, <1>5, <1>6, <1>8 DEF Progress
  <1>16. ReplyTellsEffect'
    <2>1. reply' # 0 => reply' = 200 /\ op = "PUT" /\ body = <<>>
      BY <1>1, <1>4
    <2>2. reply' # 0 => SuccessEffect'
      <3> SUFFICES ASSUME reply' # 0 PROVE SuccessEffect'
        OBVIOUS
      <3>1. Total' = 0 /\ Cardinality(New') = 0
        BY <1>1, <1>2, <1>5, <1>9, <2>1, FS_EmptySet DEF Total
      <3>2. problems'[pid'] = Row(judge_type)'
        BY <1>1, <1>2, <1>5, <2>1
      <3> QED BY <1>1, <1>2, <1>5, <1>6, <1>9, <2>1, <3>1, <3>2 DEF SuccessEffect
    <2> QED BY <1>8, <2>1, <2>2 DEF ReplyTellsEffect, OthersKept
  <1> QED BY <1>10, <1>11, <1>12, <1>13, <1>14, <1>15, <1>16 DEF IInv

\* The array is stored as a whole, or refused as a whole.
LEMMA InsertCasesStep ==
  ASSUME IInv, InsertCases
  PROVE  IInv'
  <1>1. /\ at = "InsertCases" /\ op \in {"POST", "PUT", "ADD", "IMPORT"} /\ reply = 0
        /\ pid \in DOMAIN problems
        /\ HasArray /\ body # <<>> /\ Len(body) <= MaxCases /\ OthersKept
        /\ (op \in {"POST", "PUT"} => problems[pid] = Row(judge_type))
        /\ (op \in {"ADD", "IMPORT"} => problems = before.problems)
        /\ (op = "POST" => CasesOf(pid) = {} /\ Had = {})
        /\ (CasesOf(pid) = Had \/ (op \in {"PUT", "IMPORT"} /\ CasesOf(pid) = {}))
        /\ (next_order = 1 \/ (op = "ADD" /\ AfterLast))
    BY DEF IInv, InsertCases, Checked, StatementsOf, Progress, Appends, Ops
  <1>2. UNCHANGED <<problems, next_pid, reqs, op, pid, judge_type, body, before, next_order>>
    BY DEF InsertCases, request
  <1>3. Had' = Had /\ (HasArray <=> HasArray') /\ Row(judge_type)' = Row(judge_type) /\ Total' = Len(body)
    BY <1>1, <1>2 DEF Had, HasArray, Row, Total
  <1>4. CASE UNCHANGED test_cases /\ InsertionFailed
    <2>1. UNCHANGED tables /\ UNCHANGED request
      BY <1>2, <1>4 DEF tables, request
    <2>2. IF op = "POST" THEN at' = "Rollback" /\ reply' = 0 ELSE at' = "free" /\ reply' = 500
      BY <1>1, <1>4 DEF InsertionFailed, GoOn, Answer
    <2>3. TypeOK'
      <3>1. at' \in Statements \cup {"free"} /\ reply' \in {0, 200, 400, 404, 500}
        BY <2>2 DEF Statements
      <3> QED BY <1>2, <2>1, <3>1, TypeKept DEF IInv, TypeOK
    <2>4. Counted' /\ Stored'
      BY <1>2, <1>4, <2>2, CasesKept DEF IInv, Counted
    <2>5. Appends'
      BY <1>1, <1>2, <2>2 DEF Appends
    <2>6. Checked'
      <3>1. \A c \in test_cases : c.req < reqs
        BY <1>1 DEF IInv, Checked
      <3> QED BY <1>1, <1>2, <1>4, <2>2, <3>1 DEF Checked, StatementsOf, Ops
    <2>7. Progress'
      <3>1. OthersKept' /\ CasesOf(pid)' = CasesOf(pid)
        BY <1>1, <1>2, <1>3, <1>4 DEF OthersKept, CasesOf
      <3>2. New' = {}
        BY <1>1, <1>2, <1>4, NothingNew DEF IInv, New, CasesOf
      <3> QED BY <1>1, <1>2, <1>3, <2>2, <3>1, <3>2 DEF Progress, AllOrNothing
    <2>8. ReplyTellsEffect'
      <3>1. CASE op = "POST"
        BY <2>2, <3>1 DEF ReplyTellsEffect
      <3>2. CASE op # "POST"
        BY <1>1, <2>1, <2>2, <3>2, FailureTold DEF IInv
      <3> QED BY <3>1, <3>2
    <2> QED BY <2>3, <2>4, <2>5, <2>6, <2>7, <2>8 DEF IInv
  <1>5. CASE /\ KeysAreFree(Rows(pid, next_order))
             /\ test_cases' = test_cases \cup Rows(pid, next_order)
             /\ Answer(200) \/ InsertionFailed
    <2> DEFINE new == Rows(pid, next_order)
               L == Len(body)
    <2>1. \/ at' = "free" /\ reply' = 200
          \/ at' = "free" /\ reply' = 500 /\ op # "POST"
          \/ at' = "Rollback" /\ reply' = 0 /\ op = "POST"
      BY <1>1, <1>5 DEF Answer, InsertionFailed, GoOn
    <2>2. next_order = 1 => CasesOf(pid) = {}
      BY <1>1, <1>5, NextFree DEF IInv
    <2>3. next_order \in Nat /\ L \in Nat /\ reqs \in 1..MaxRequests /\ pid \in 1..(next_pid - 1)
      <3>1. L \in Nat /\ next_order \in Nat /\ pid \in 1..(next_pid - 1)
        BY <1>1, ArrayShape DEF IInv, TypeOK
      <3>2. reqs \in 1..MaxRequests
        BY <1>1, <3>1, BoundsAssumption DEF IInv, TypeOK, Counted
      <3> QED BY <3>1, <3>2
    <2>4. next_order >= 1
      BY <1>1, <1>5, NextFree DEF IInv
    <2>5. /\ \A i \in 1..L : StoredCase(pid, next_order, i) \in new
          /\ \A r \in new :
               /\ r.problem_id = pid /\ r.req = reqs /\ r.of = L
               /\ r.nth \in 1..L /\ r.order_no = next_order + r.nth - 1
               /\ r = StoredCase(pid, next_order, r.nth)
      BY <1>1, <2>3, RowShape DEF IInv
    <2>6. Stored'
      BY <1>1, <1>2, <1>5, CasesAdded DEF IInv
    <2> HIDE DEF new, L
    <2>7. TypeOK'
      <3>1. \A c \in new : c \in [problem_id : 1..(next_pid' - 1), order_no : Nat \ {0},
                                  content : CaseContent, req : 1..reqs', nth : Nat, of : Nat]
        <4> TAKE c \in new
        <4>1. c.nth \in 1..L /\ c = StoredCase(pid, next_order, c.nth)
          BY <2>5
        <4>2. body[c.nth] \in CaseContent
          BY <1>1, <4>1, ArrayShape DEF IInv, L
        <4>3. next_order + c.nth - 1 \in Nat \ {0} /\ c.nth \in Nat
          BY <2>3, <2>4, <4>1
        <4> DEFINE n == c.nth
        <4>4. c = [problem_id |-> pid, order_no |-> next_order + n - 1, content |-> body[n],
                   req |-> reqs, nth |-> n, of |-> L]
          BY <4>1 DEF StoredCase, L
        <4>5. reqs \in 1..reqs
          BY <2>3
        <4> HIDE DEF n
        <4> QED BY <1>2, <2>3, <4>2, <4>3, <4>4, <4>5 DEF n
      <3>2. test_cases' \subseteq [problem_id : 1..(next_pid' - 1), order_no : Nat \ {0},
                                   content : CaseContent, req : 1..reqs', nth : Nat, of : Nat]
        BY <1>2, <1>5, <3>1 DEF IInv, TypeOK, new
      <3>3. at' \in Statements \cup {"free"} /\ reply' \in {0, 200, 400, 404, 500}
        BY <2>1 DEF Statements
      <3> QED BY <1>2, <3>2, <3>3 DEF IInv, TypeOK
    <2>8. Counted' /\ Appends' /\ Checked'
      BY <1>1, <1>2, <1>3, <2>1 DEF IInv, Counted, Appends, Checked, StatementsOf, Ops
    <2>9. CasesOf(pid)' = CasesOf(pid) \cup new /\ test_cases' \ CasesOf(pid)' = test_cases \ CasesOf(pid)
      BY <1>2, <1>5, <2>5 DEF CasesOf, new
    <2>10. New' = new
      BY <1>1, <1>2, <2>5, <2>9, NothingNew DEF IInv, New
    <2>11. Cardinality(new) = L
      <3> DEFINE f == [r \in new |-> r.nth]
      <3>1. f \in [new -> 1..L]
        BY <2>5
      <3>2. \A c, d \in new : f[c] = f[d] => c = d
        BY <2>5
      <3>3. \A i \in 1..L : \E c \in new : f[c] = i
        <4> TAKE i \in 1..L
        <4>1. StoredCase(pid, next_order, i) \in new /\ StoredCase(pid, next_order, i).nth = i
          BY <2>5 DEF StoredCase
        <4> QED BY <4>1
      <3> HIDE DEF f
      <3> QED BY <2>3, <3>1, <3>2, <3>3, Counting
    <2>12. op \in {"POST", "PUT", "IMPORT"} => CasesOf(pid)' = new
      BY <1>1, <2>2, <2>9
    <2>13. op = "ADD" => CasesOf(pid)' = Had \cup new
      BY <1>1, <2>9
    <2>14. Cardinality(New') = Total'
      BY <1>3, <2>10, <2>11 DEF L
    <2>15. op \in {"POST", "PUT"} => pid' \in DOMAIN problems' /\ problems'[pid'] = Row(judge_type)'
      BY <1>1, <1>2, <1>3
    <2>16. SuccessEffect'
      BY <1>1, <1>2, <1>3, <2>10, <2>12, <2>13, <2>14, <2>15 DEF SuccessEffect
    <2>17. FailureEffect'
      BY <1>1, <1>2, <1>3, <2>10, <2>12, <2>13, <2>14, <2>15 DEF FailureEffect
    <2>18. OthersKept'
      BY <1>1, <1>2, <1>3, <2>9 DEF OthersKept
    <2>19. Progress'
      <3>1. CASE at' = "free"
        BY <3>1 DEF Progress
      <3>2. CASE at' = "Rollback" /\ op = "POST"
        BY <1>1, <1>2, <1>3, <2>10, <2>12, <2>14, <2>15, <2>18, <3>2 DEF Progress, AllOrNothing
      <3> QED BY <2>1, <3>1, <3>2
    <2>20. ReplyTellsEffect'
      BY <2>1, <2>16, <2>17, <2>18 DEF ReplyTellsEffect, OthersKept
    <2> QED BY <2>6, <2>7, <2>8, <2>19, <2>20 DEF IInv
  <1> QED BY <1>4, <1>5 DEF InsertCases

\* A problem leaves the tables with its cases.
LEMMA RemoveEffect ==
  ASSUME TypeOK, Stored, Remove(pid), UNCHANGED request, UNCHANGED next_order,
         at' = "free", reply' \in {200, 500}
  PROVE  /\ TypeOK' /\ Stored'
         /\ DOMAIN problems' = DOMAIN problems \ {pid}
         /\ \A p \in DOMAIN problems \ {pid} : problems'[p] = problems[p]
         /\ CasesOf(pid)' = {} /\ test_cases' = test_cases \ CasesOf(pid) /\ next_pid' = next_pid
  <1>1. /\ problems' = [q \in DOMAIN problems \ {pid} |-> problems[q]]
        /\ test_cases' = test_cases \ CasesOf(pid)
        /\ UNCHANGED <<next_pid, reqs, op, pid, judge_type, body, before, next_order>>
    BY DEF Remove, request
  <1>2. DOMAIN problems' = DOMAIN problems \ {pid} /\ \A p \in DOMAIN problems \ {pid} : problems'[p] = problems[p]
    BY <1>1
  <1>3. CasesOf(pid)' = {}
    BY <1>1 DEF CasesOf
  <1>4. Stored'
    BY <1>1, <1>2, CasesRemoved
  <1>5. TypeOK'
    <2>1. \A p \in DOMAIN problems' : problems'[p] \in [judge_type : {"exact", "special"}, req : 1..reqs']
      BY <1>1, <1>2 DEF TypeOK
    <2> QED BY <1>1, <1>2, <2>1 DEF TypeOK
  <1> QED BY <1>1, <1>2, <1>3, <1>4, <1>5

\* POST takes back its problem, or silently fails to.
LEMMA RollbackStep ==
  ASSUME IInv, Rollback
  PROVE  IInv'
  <1>1. /\ at = "Rollback" /\ op = "POST" /\ reply = 0 /\ Had = {} /\ OthersKept
        /\ UNCHANGED request /\ next_order' = next_order /\ at' = "free" /\ reply' = 500
    BY DEF IInv, Rollback, Checked, StatementsOf, Progress, Ops, Answer
  <1>2. UNCHANGED <<reqs, op, pid, judge_type, body, before>>
    BY <1>1 DEF request
  <1>3. CASE Remove(pid)
    <2>1. /\ TypeOK' /\ Stored'
          /\ DOMAIN problems' = DOMAIN problems \ {pid}
          /\ \A p \in DOMAIN problems \ {pid} : problems'[p] = problems[p]
          /\ CasesOf(pid)' = {} /\ test_cases' = test_cases \ CasesOf(pid) /\ next_pid' = next_pid
      BY <1>1, <1>3, RemoveEffect DEF IInv
    <2>2. Counted' /\ Appends' /\ Checked' /\ Progress'
      BY <1>1, <1>2, <2>1 DEF IInv, Counted, Appends, Checked, Progress
    <2>3. test_cases' \ CasesOf(pid)' = before'.test_cases \ Had' /\ New' = {} /\ Had' = {}
      BY <1>1, <1>2, <2>1 DEF OthersKept, Had, New
    <2>4. FailureEffect'
      BY <1>1, <1>2, <2>1, <2>3 DEF FailureEffect
    <2>5. \A p \in DOMAIN before'.problems \ {pid'} :
            p \in DOMAIN problems' /\ problems'[p] = before'.problems[p]
      BY <1>1, <1>2, <2>1 DEF OthersKept
    <2>6. ReplyTellsEffect'
      BY <1>1, <2>3, <2>4, <2>5 DEF ReplyTellsEffect
    <2> QED BY <2>1, <2>2, <2>6 DEF IInv
  <1>4. CASE UNCHANGED tables
    <2>1. TypeOK'
      BY <1>1, <1>4, TypeKept DEF IInv, TypeOK
    <2>2. Counted' /\ Appends' /\ Checked' /\ Progress'
      BY <1>1, <1>2, <1>4 DEF tables, IInv, Counted, Appends, Checked, Progress
    <2>3. Stored'
      BY <1>4, CasesKept DEF IInv, tables
    <2>4. ReplyTellsEffect'
      BY <1>1, <1>4, FailureTold DEF IInv
    <2> QED BY <2>1, <2>2, <2>3, <2>4 DEF IInv
  <1> QED BY <1>3, <1>4 DEF Rollback

\* DELETE, with its cascade.
LEMMA DeleteProblemStep ==
  ASSUME IInv, DeleteProblem
  PROVE  IInv'
  <1>1. /\ at = "DeleteProblem" /\ op = "DELETE" /\ reply = 0 /\ Untouched
        /\ CasesOf(pid) = Had /\ OthersKept
        /\ UNCHANGED request /\ next_order' = next_order /\ at' = "free"
    BY DEF IInv, DeleteProblem, Checked, StatementsOf, Progress, Ops, Answer
  <1>2. UNCHANGED <<reqs, op, pid, judge_type, body, before>>
    BY <1>1 DEF request
  <1>3. CASE pid \in DOMAIN problems /\ Remove(pid) /\ (Answer(200) \/ Answer(500))
    <2>1. reply' \in {200, 500}
      BY <1>3 DEF Answer
    <2>2. /\ TypeOK' /\ Stored'
          /\ DOMAIN problems' = DOMAIN problems \ {pid}
          /\ \A p \in DOMAIN problems \ {pid} : problems'[p] = problems[p]
          /\ CasesOf(pid)' = {} /\ test_cases' = test_cases \ CasesOf(pid) /\ next_pid' = next_pid
      BY <1>1, <1>3, <2>1, RemoveEffect DEF IInv
    <2>3. Counted' /\ Appends' /\ Checked' /\ Progress'
      BY <1>1, <1>2, <2>2 DEF IInv, Counted, Appends, Checked, Progress
    <2>4. Had' = Had
      BY <1>2 DEF Had
    <2>5. SuccessEffect'
      BY <1>1, <1>2, <2>2 DEF SuccessEffect
    <2>6. test_cases' \ CasesOf(pid)' = before'.test_cases \ Had'
      BY <1>1, <1>2, <2>2, <2>4 DEF OthersKept
    <2>7. \A p \in DOMAIN before'.problems \ {pid'} :
            p \in DOMAIN problems' /\ problems'[p] = before'.problems[p]
      BY <1>1, <1>2, <2>2 DEF OthersKept
    <2>8. FailureEffect'
      <3>1. New' = {}
        BY <2>2 DEF New
      <3> QED BY <1>1, <1>2, <2>2, <3>1 DEF FailureEffect
    <2>9. ReplyTellsEffect'
      BY <2>1, <2>5, <2>6, <2>7, <2>8 DEF ReplyTellsEffect
    <2> QED BY <2>2, <2>3, <2>9 DEF IInv
  <1>4. CASE UNCHANGED tables /\ (Answer(404) \/ Answer(500))
    <2>1. reply' \in {404, 500}
      BY <1>4 DEF Answer
    <2>2. TypeOK'
      BY <1>1, <1>4, <2>1, TypeKept DEF IInv, TypeOK
    <2>3. Counted' /\ Appends' /\ Checked' /\ Progress'
      BY <1>1, <1>2, <1>4 DEF tables, IInv, Counted, Appends, Checked, Progress
    <2>4. Stored'
      BY <1>4, CasesKept DEF IInv, tables
    <2>5. ReplyTellsEffect'
      BY <1>1, <1>4, <2>1, FailureTold DEF IInv
    <2> QED BY <2>2, <2>3, <2>4, <2>5 DEF IInv
  <1> QED BY <1>3, <1>4 DEF DeleteProblem

\* The process is killed: the tables stay as the last statement left them.
LEMMA CrashStep ==
  ASSUME IInv, Crash
  PROVE  IInv'
  <1>1. at # "free" /\ at' = "free" /\ reply = 0 /\ reply' = 0 /\ UNCHANGED tables /\ UNCHANGED request
        /\ next_order' = next_order
    BY DEF IInv, Crash, Checked
  <1>2. TypeOK'
    BY <1>1, TypeKept DEF IInv, TypeOK
  <1>3. Counted' /\ Appends' /\ Checked' /\ Progress' /\ ReplyTellsEffect'
    BY <1>1 DEF tables, request, IInv, Counted, Appends, Checked, Progress, ReplyTellsEffect
  <1>4. Stored'
    BY <1>1, CasesKept DEF IInv, tables
  <1> QED BY <1>2, <1>3, <1>4 DEF IInv

\* A step of something else.
LEMMA StutterStep ==
  ASSUME IInv, UNCHANGED vars
  PROVE  IInv'
  <1>1. UNCHANGED <<problems, test_cases, next_pid, reqs, op, pid, judge_type, body, before, at,
                    next_order, reply>>
    BY DEF vars, tables, request
  <1>2. TypeOK' /\ Counted' /\ Stored'
    BY <1>1, TypeKept, CasesKept DEF IInv, TypeOK, Counted, tables, request
  <1>3. Appends' /\ Checked'
    BY <1>1 DEF IInv, Appends, AfterLast, OrderNos, CasesOf, Checked, HasArray
  <1>4. Had' = Had /\ CasesOf(pid)' = CasesOf(pid) /\ New' = New /\ (HasArray' <=> HasArray)
        /\ Total' = Total /\ Row(judge_type)' = Row(judge_type)
    BY <1>1 DEF Had, CasesOf, New, HasArray, Total, Row
  <1>5. Progress'
    BY <1>1, <1>4 DEF IInv, Progress, OthersKept, Untouched, AllOrNothing
  <1>6. ReplyTellsEffect'
    <2>1. SuccessEffect => SuccessEffect'
      BY <1>1, <1>4 DEF SuccessEffect
    <2>2. (FailureEffect => FailureEffect') /\ (RefusalEffect => RefusalEffect')
      BY <1>1, <1>4 DEF FailureEffect, RefusalEffect
    <2> QED BY <1>1, <1>4, <2>1, <2>2 DEF IInv, ReplyTellsEffect
  <1> QED BY <1>2, <1>3, <1>5, <1>6 DEF IInv

\* IInv is inductive.
LEMMA Inductive == IInv /\ [Next]_vars => IInv'
BY BeginStep, InsertProblemStep, MaxOrderStep, ExistsStep, UpdateStep, DeleteCasesStep,
   InsertCasesStep, RollbackStep, DeleteProblemStep, CrashStep, StutterStep
   DEF Next, Requests, Handler, Done

\* IInv holds in every state.
LEMMA Invariance == Spec => []IInv
BY Initial, Inductive, PTL DEF Spec

--------------------------------------------------------------------------------
\* From the invariant to the properties.

\* The numbers of a problem's cases are as many as its cases.
LEMMA AllNumbers == IInv => CasesNumbered
  <1> SUFFICES ASSUME IInv, NEW p \in DOMAIN problems PROVE OrderNos(p) = 1..Cardinality(CasesOf(p))
    BY DEF CasesNumbered, OrderNos, IInv, Stored, Numbered
  <1> DEFINE f == [c \in CasesOf(p) |-> c.order_no]
  <1>1. PICK n \in Nat : OrderNos(p) = 1..n
    BY DEF IInv, Stored, Numbered
  <1>2. f \in [CasesOf(p) -> 1..n]
    BY <1>1 DEF OrderNos
  <1>3. \A c, d \in CasesOf(p) : f[c] = f[d] => c = d
    BY DEF IInv, Stored, Numbered, CasesOf
  <1>4. \A i \in 1..n : \E c \in CasesOf(p) : f[c] = i
    BY <1>1 DEF OrderNos
  <1> HIDE DEF f
  <1>5. Cardinality(CasesOf(p)) = n
    BY <1>2, <1>3, <1>4, Counting
  <1> QED BY <1>1, <1>5

\* Arrays are stored whole and one after the other.
LEMMA AllWhole == IInv => ArraysWhole
  <1> SUFFICES ASSUME IInv, NEW c \in test_cases
               PROVE  /\ \A i \in 1..c.of : \E d \in CasesOf(c.problem_id) :
                           d.req = c.req /\ d.nth = i /\ d.order_no - c.order_no = i - c.nth
                      /\ \A d \in CasesOf(c.problem_id) : d.req < c.req => d.order_no < c.order_no
    BY DEF ArraysWhole
  <1>1. ASSUME NEW i \in 1..c.of
        PROVE  \E d \in CasesOf(c.problem_id) :
                 d.req = c.req /\ d.nth = i /\ d.order_no - c.order_no = i - c.nth
    <2>1. PICK d \in test_cases : SameArray(c, d) /\ d.nth = i
      BY DEF IInv, Stored, Blocks
    <2>2. d \in CasesOf(c.problem_id) /\ d.req = c.req /\ d.order_no - c.order_no = i - c.nth
      BY <2>1 DEF IInv, Stored, Blocks, SameArray, CasesOf
    <2> QED BY <2>1, <2>2
  <1>2. \A d \in CasesOf(c.problem_id) : d.req < c.req => d.order_no < c.order_no
    BY DEF IInv, Stored, Blocks, CasesOf
  <1> QED BY <1>1, <1>2

\* The rows of one request about one problem are numbered by their places in its array.
LEMMA CappedByArray == IInv => ArrayCap
  <1> SUFFICES ASSUME IInv, NEW p \in DOMAIN problems, NEW r \in 1..reqs
               PROVE  Cardinality({c \in CasesOf(p) : c.req = r}) <= MaxCases
    BY DEF ArrayCap
  <1> DEFINE S == {c \in CasesOf(p) : c.req = r}
             f == [c \in S |-> c.nth]
  <1>1. MaxCases \in Nat
    BY BoundsAssumption
  <1>2. \A c \in S : c \in test_cases /\ c.problem_id = p /\ c.req = r
    BY DEF CasesOf
  <1>3. \A c \in S : c.nth \in 1..MaxCases
    <2> TAKE c \in S
    <2>1. c.nth \in 1..c.of /\ c.of <= MaxCases /\ c.of \in Nat
      BY <1>2, CaseTypes DEF IInv, Stored, Blocks
    <2> QED BY <1>1, <2>1
  <1>4. \A c, d \in S : c.nth = d.nth => c = d
    <2> SUFFICES ASSUME NEW c \in S, NEW d \in S, c.nth = d.nth PROVE c = d
      OBVIOUS
    <2>1. d.order_no - c.order_no = d.nth - c.nth
      BY <1>2 DEF IInv, Stored, Blocks, SameArray
    <2>2. c.order_no \in Nat /\ d.order_no \in Nat /\ c.nth \in Nat
      BY <1>2, CaseTypes DEF IInv
    <2>3. c.order_no = d.order_no
      BY <2>1, <2>2
    <2> QED BY <1>2, <2>3 DEF IInv, Stored, Numbered
  <1>5. f \in [S -> 1..MaxCases] /\ \A c, d \in S : f[c] = f[d] => c = d
    BY <1>3, <1>4
  <1>6. Cardinality(S) <= MaxCases
    <2> HIDE DEF S, f
    <2> QED BY <1>1, <1>5, Counting
  <1> QED BY <1>6

\* Every row keeps its type, whatever fails: problem_routes.cpp never stores a case of
\* a problem that was not created, nor one without a number.
THEOREM TypeCorrect == Spec => []TypeOK
  <1>1. IInv => TypeOK
    BY DEF IInv
  <1> QED BY <1>1, Invariance, PTL

\* Whatever statement of the handlers of problem_routes.cpp fails and wherever the
\* process is killed, the cases of every problem are numbered 1..n.
THEOREM NumberedWithoutGaps == Spec => []CasesNumbered
  <1> QED BY AllNumbers, Invariance, PTL

\* The worker never reads a part of an array, nor arrays in another order than that of
\* the requests that sent them: one multi-row INSERT stores each.
THEOREM WholeArrays == Spec => []ArraysWhole
  <1> QED BY AllWhole, Invariance, PTL

\* The status that an administrator's request is answered with tells what its
\* statements have done to the tables, and that they touched no other problem.
THEOREM RepliesTellEffect == Spec => []ReplyTellsEffect
  <1>1. IInv => ReplyTellsEffect
    BY DEF IInv
  <1> QED BY <1>1, Invariance, PTL

\* Whichever handler validated it, no request stores more than kMaxCases cases.
THEOREM ArraysCapped == Spec => []ArrayCap
  <1> QED BY CappedByArray, Invariance, PTL
================================================================================
