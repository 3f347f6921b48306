--------------------------- MODULE JudgeSystem_proofs ---------------------------
(***************************************************************************)
(* Theorems about JudgeSystem: the pages of the browsers over the judging  *)
(* service, the tables and the restarts, for any number of each.           *)
(*                                                                         *)
(* The steps on the queue keep the order and the owners by the lemmas of   *)
(* JudgeService_proofs.  Its invariant IInv is not used, because it bounds *)
(* the test cases by the constant CaseLists and here they are rows of the  *)
(* tables: SystemInv asks only what the pages depend on.                   *)
(***************************************************************************)
EXTENDS JudgeSystem, JudgeService_proofs

Elements(s) == {s[i] : i \in DOMAIN s}
ResultFields == {"user_id", "problem_id", "code", "status", "cases", "time_ms", "done"}
PageFields == {"user_id", "problem_id", "id", "epoch", "since", "shows", "record", "seen"}

\* What the worker holds is a task and a final result.
InHand == Busy => task \in Task /\ DOMAIN res = ResultFields /\ res.done

\* The pages form a sequence, and none comes from a start still to come.
PagesTyped ==
  /\ epoch \in Nat
  /\ pages \in Seq(Elements(pages))
  /\ \A i \in Pages : /\ DOMAIN pages[i] = PageFields
                      /\ pages[i].epoch \in 0..epoch /\ pages[i].seen \in 0..epoch

\* The id on a page made since the last start is that of its submission.
PagesKnown ==
  \A i \in Pages : pages[i].epoch = epoch =>
    /\ pages[i].id \in DOMAIN results_
    /\ results_[pages[i].id].user_id = pages[i].user_id
    /\ results_[pages[i].id].problem_id = pages[i].problem_id

\* What a page has been shown since the last start is the final record.
ShownFinal ==
  \A i \in Pages : ShowsResult(i) /\ pages[i].seen = epoch =>
    /\ pages[i].id \in DOMAIN results_
    /\ results_[pages[i].id] = pages[i].record
    /\ pages[i].record.done

QueueInv  == QueueTyped /\ InHand /\ InOrder /\ SameOwner
PageInv   == PagesTyped /\ PagesKnown /\ PageShowsOwn /\ ShownFinal
SystemInv == QueueInv /\ PageInv

--------------------------------------------------------------------------------
(***************************************************************************)
(* A sequence after Append, and after a change of one element.             *)
(***************************************************************************)
LEMMA AppendElement ==
  ASSUME NEW s, s \in Seq(Elements(s)), NEW e
  PROVE  /\ Append(s, e) \in Seq(Elements(Append(s, e)))
         /\ DOMAIN Append(s, e) = DOMAIN s \cup {Len(s) + 1}
         /\ \A i \in DOMAIN s : Append(s, e)[i] = s[i]
         /\ Append(s, e)[Len(s) + 1] = e
<1> DEFINE S == Elements(s) \cup {e}
<1>1. s \in Seq(S)
  OBVIOUS
<1>2. Len(s) \in Nat /\ DOMAIN s = 1..Len(s)
  OBVIOUS
<1>3. \A i \in 1..Len(s) : Append(s, e)[i] = s[i]
  BY <1>1
<1>4. /\ Append(s, e)[Len(s) + 1] = e
      /\ DOMAIN Append(s, e) = 1..(Len(s) + 1)
  BY <1>1
<1>5. Elements(Append(s, e)) = S
  BY <1>2, <1>3, <1>4 DEF Elements
<1>6. DOMAIN Append(s, e) = DOMAIN s \cup {Len(s) + 1}
  BY <1>2, <1>4
<1> QED BY <1>1, <1>2, <1>3, <1>4, <1>5, <1>6

LEMMA ChangeElement ==
  ASSUME NEW s, s \in Seq(Elements(s)), NEW i \in DOMAIN s, NEW e
  PROVE  /\ [s EXCEPT ![i] = e] \in Seq(Elements([s EXCEPT ![i] = e]))
         /\ DOMAIN [s EXCEPT ![i] = e] = DOMAIN s
         /\ [s EXCEPT ![i] = e][i] = e
         /\ \A k \in DOMAIN s : k # i => [s EXCEPT ![i] = e][k] = s[k]
<1> DEFINE t == [s EXCEPT ![i] = e]
<1>1. Len(s) \in Nat /\ DOMAIN s = 1..Len(s) /\ DOMAIN t = DOMAIN s
  OBVIOUS
<1>2. t \in [1..Len(s) -> Elements(t)]
  BY <1>1 DEF Elements
<1>3. /\ DOMAIN t = DOMAIN s /\ t[i] = e
      /\ \A k \in DOMAIN s : k # i => t[k] = s[k]
  OBVIOUS
<1> HIDE DEF t
<1>4. t \in Seq(Elements(t))
  BY <1>1, <1>2
<1>5. /\ t \in Seq(Elements(t))
      /\ DOMAIN t = DOMAIN s /\ t[i] = e
      /\ \A k \in DOMAIN s : k # i => t[k] = s[k]
  BY <1>3, <1>4
<1> QED BY <1>5 DEF t

--------------------------------------------------------------------------------
\* The rank of a number in a set.
Below(S, x) == {y \in S : y < x}
Rank(S, x)  == Cardinality(Below(S, x)) + 1

(***************************************************************************)
(* Ranks number a set from 1, in its order.                                *)
(***************************************************************************)
LEMMA RankOrder ==
  ASSUME NEW S \in SUBSET Nat, IsFiniteSet(S)
  PROVE  /\ \A x \in S : Rank(S, x) \in 1..Cardinality(S)
         /\ \A x, y \in S : x < y => Rank(S, x) < Rank(S, y)
<1>1. ASSUME NEW x \in S
      PROVE  /\ IsFiniteSet(Below(S, x)) /\ Cardinality(Below(S, x)) \in Nat
             /\ Rank(S, x) \in 1..Cardinality(S)
  <2>1. Below(S, x) \in SUBSET (S \ {x})
    BY DEF Below
  <2>2. IsFiniteSet(S \ {x}) /\ Cardinality(S \ {x}) = Cardinality(S) - 1
    BY FS_RemoveElement
  <2>3. IsFiniteSet(Below(S, x)) /\ Cardinality(Below(S, x)) <= Cardinality(S) - 1
    BY <2>1, <2>2, FS_Subset
  <2>4. Cardinality(Below(S, x)) \in Nat /\ Cardinality(S) \in Nat
    BY <2>3, FS_CardinalityType
  <2> QED BY <2>3, <2>4 DEF Rank
<1>2. ASSUME NEW x \in S, NEW y \in S, x < y PROVE Rank(S, x) < Rank(S, y)
  <2> DEFINE B == Below(S, x) \cup {x}
  <2>1. x \notin Below(S, x) /\ B \in SUBSET Below(S, y)
    <3>1. x \in Nat /\ y \in Nat
      OBVIOUS
    <3>2. ~(x < x) /\ \A z \in S : z < x => z < y
      BY <1>2, <3>1
    <3> QED BY <1>2, <3>2 DEF Below
  <2>2. Cardinality(B) = Cardinality(Below(S, x)) + 1
    BY <1>1, <2>1, FS_AddElement
  <2>3. Cardinality(B) <= Cardinality(Below(S, y))
    BY <1>1, <2>1, FS_Subset
  <2>4. Cardinality(Below(S, x)) \in Nat /\ Cardinality(Below(S, y)) \in Nat
    BY <1>1
  <2> HIDE DEF B
  <2> QED BY <2>2, <2>3, <2>4 DEF Rank
<1> QED BY <1>1, <1>2

(***************************************************************************)
(* Ascending puts every number of a finite set at its rank.                *)
(***************************************************************************)
LEMMA AscendingRanks ==
  ASSUME NEW S \in SUBSET Nat, IsFiniteSet(S)
  PROVE  /\ Cardinality(S) \in Nat
         /\ Ascending(S) \in Seq(S) /\ Len(Ascending(S)) = Cardinality(S)
         /\ \A k \in 1..Cardinality(S) : Rank(S, Ascending(S)[k]) = k
         /\ \A x \in S : Ascending(S)[Rank(S, x)] = x
<1> DEFINE n == Cardinality(S)
           f == [x \in S |-> Rank(S, x)]
<1>1. n \in Nat
  BY FS_CardinalityType
<1>2. \A x, y \in S : Rank(S, x) = Rank(S, y) => x = y
  <2>1. ASSUME NEW x \in S, NEW y \in S, Rank(S, x) = Rank(S, y) PROVE x = y
    <3>1. x \in Nat /\ y \in Nat /\ Rank(S, x) \in Int
      BY RankOrder
    <3>2. ~(x < y) /\ ~(y < x)
      BY <2>1, <3>1, RankOrder
    <3> QED BY <3>1, <3>2
  <2> QED BY <2>1
<1>3. f \in Injection(S, 1..n)
  <2>1. f \in [S -> 1..n]
    BY RankOrder
  <2> QED BY <1>2, <2>1 DEF Injection, IsInjective
<1>4. f \in Surjection(S, 1..n)
  <2>1. IsFiniteSet(1..n) /\ Cardinality(1..n) = n
    BY <1>1, FS_Interval
  <2> HIDE DEF f
  <2> QED BY <1>3, <2>1, FS_Injection
<1>5. \A k \in 1..n : \E x \in S : Rank(S, x) = k
  BY <1>4 DEF Surjection
<1>6. ASSUME NEW k \in 1..n
      PROVE  Ascending(S)[k] \in S /\ Rank(S, Ascending(S)[k]) = k
  <2>1. \E x \in S : Cardinality({y \in S : y < x}) = k - 1
    <3>1. PICK x \in S : Rank(S, x) = k
      BY <1>5
    <3>2. Cardinality(Below(S, x)) \in Nat
      <4>1. Below(S, x) \in SUBSET S
        BY DEF Below
      <4> QED BY <4>1, FS_Subset, FS_CardinalityType
    <3>3. Cardinality(Below(S, x)) = k - 1
      BY <1>1, <3>1, <3>2 DEF Rank
    <3> QED BY <3>3 DEF Below
  <2>2. Ascending(S)[k] = CHOOSE x \in S : Cardinality({y \in S : y < x}) = k - 1
    BY DEF Ascending
  <2>3. /\ Ascending(S)[k] \in S
        /\ Cardinality({y \in S : y < Ascending(S)[k]}) = k - 1
    BY <2>1, <2>2
  <2> QED BY <1>1, <2>3 DEF Rank, Below
<1>7. Ascending(S) \in Seq(S) /\ Len(Ascending(S)) = n
  <2> DEFINE s == [k \in 1..n |-> CHOOSE x \in S : Cardinality({y \in S : y < x}) = k - 1]
  <2>1. Ascending(S) = s
    BY DEF Ascending
  <2>2. \A k \in 1..n : s[k] \in S
    BY <1>6, <2>1
  <2>3. s \in [1..n -> S]
    BY <2>2
  <2> HIDE DEF s
  <2> QED BY <1>1, <2>1, <2>3
<1>8. ASSUME NEW x \in S PROVE Ascending(S)[Rank(S, x)] = x
  <2>1. Rank(S, x) \in 1..n
    BY RankOrder
  <2> QED BY <1>2, <1>6, <2>1
<1> QED BY <1>1, <1>6, <1>7, <1>8

--------------------------------------------------------------------------------
(***************************************************************************)
(* The worker's steps between Take and StoreResult change neither the      *)
(* members nor the owner of the result, whatever the tables hold.          *)
(***************************************************************************)
Quiet ==
  /\ UNCHANGED <<next_id_, queue_, results_, task>>
  /\ Busy' <=> Busy
  /\ Busy => /\ DOMAIN res' = DOMAIN res
             /\ res'.user_id = res.user_id /\ res'.problem_id = res.problem_id
             /\ res'.done = res.done

LEMMA QuietSteps ==
  ASSUME InHand, Worker
  PROVE  Take \/ StoreResult \/ Quiet
<1> USE DEF Busy, Judging, members, locals
<1>1. \A cr : Busy => /\ DOMAIN AfterCase(cr) = DOMAIN res
                      /\ AfterCase(cr).user_id = res.user_id
                      /\ AfterCase(cr).problem_id = res.problem_id
                      /\ AfterCase(cr).done = res.done
  BY DEF AfterCase, InHand, ResultFields
<1>2. Busy => LET r == [res EXCEPT !.status = "CE"]
              IN  /\ DOMAIN r = DOMAIN res /\ r.user_id = res.user_id
                  /\ r.problem_id = res.problem_id /\ r.done = res.done
  BY DEF InHand, ResultFields
<1>3. ASSUME NEW ok \in BOOLEAN, StartWorker(ok) PROVE Quiet
  BY <1>3 DEF StartWorker, Quiet
<1>4. ASSUME NEW ok \in BOOLEAN, Compile(ok) PROVE Quiet
  BY <1>2, <1>4 DEF Compile, Quiet
<1>5. ASSUME NEW ok \in BOOLEAN, CompileSpj(ok) PROVE Quiet
  BY <1>5 DEF CompileSpj, Quiet
<1>6. Wait \/ ExitWorker \/ Hang \/ RemoveDir => Quiet
  BY DEF Wait, ExitWorker, Hang, RemoveDir, Quiet
<1>7. ASSUME NEW run \in RunResults, NEW spj \in SpjRuns, RunCase(run, spj) PROVE Quiet
  <2>1. /\ pc = "RunCase" /\ pc' \in {"RunCase", "RemoveDir"}
        /\ UNCHANGED <<next_id_, queue_, results_, task>>
        /\ res' = res \/ \E cr : res' = AfterCase(cr)
    BY <1>7 DEF RunCase
  <2> QED BY <1>1, <2>1 DEF Quiet
<1>8. ASSUME NEW row, LoadProblem(row) PROVE Quiet
  BY <1>8 DEF LoadProblem, Quiet
<1>9. ASSUME NEW cs, LoadCases(cs) PROVE Quiet
  BY <1>9 DEF LoadCases, Quiet
<1> HIDE DEF Busy, Judging, members, locals
<1>10. ReadProblem => Quiet
  BY <1>8 DEF ReadProblem
<1>11. ReadCases => Quiet
  BY <1>9 DEF ReadCases
<1>12. AnyRunCase => Quiet
  BY <1>7 DEF AnyRunCase
<1> QED BY <1>3, <1>4, <1>5, <1>6, <1>10, <1>11, <1>12 DEF Worker, OwnStep

(***************************************************************************)
(* The worker keeps the queue in order, and changes no answer but by       *)
(* making a pending one final.                                             *)
(***************************************************************************)
LEMMA WorkerKeepsQueue ==
  ASSUME QueueInv, Worker
  PROVE  QueueInv' /\ AnswerKept
<1>1. QueueTyped /\ InHand /\ InOrder /\ SameOwner
  BY DEF QueueInv
<1>2. CASE Take
  <2>1. InOrder' /\ SameOwner'
    BY <1>1, <1>2, TakeKeepsOrder, TakeKeepsOwner
  <2>2. QueueTyped'
    <3>1. next_id_' = next_id_ /\ queue_' = Tail(queue_) /\ queue_ \in Seq(Task) /\ queue_ # <<>>
      BY <1>1, <1>2 DEF Take, QueueTyped
    <3> QED BY <1>1, <3>1, HeadTailProperties DEF QueueTyped
  <2>3. InHand'
    <3>1. /\ task' \in Task
          /\ res' = NewResult(queue_[1], IF db_ok THEN queue_[1].code ELSE 0)
      BY <1>1, <1>2, TakeEffect
    <3> QED BY <3>1 DEF InHand, NewResult, ResultFields
  <2>4. results_' = results_
    BY <1>1, <1>2, TakeEffect
  <2>5. AnswerKept
    BY <2>4 DEF AnswerKept
  <2> QED BY <2>1, <2>2, <2>3, <2>5 DEF QueueInv
<1>3. CASE StoreResult
  <2>1. Busy /\ ~Busy'
    BY <1>3 DEF StoreResult, Busy, Judging
  <2>2. res.done
    BY <1>1, <2>1 DEF InHand
  <2>3. InOrder' /\ SameOwner' /\ AnswerKept
    BY <1>1, <1>3, <2>2, StoreKeepsOrder, StoreKeepsOwner, StoreKeepsAnswers
  <2>4. QueueTyped' /\ InHand'
    BY <1>1, <1>3, <2>1 DEF StoreResult, QueueTyped, InHand
  <2> QED BY <2>3, <2>4 DEF QueueInv
<1>4. CASE Quiet
  <2>1. /\ UNCHANGED <<next_id_, queue_, results_, task>>
        /\ Busy' <=> Busy
        /\ Busy => /\ DOMAIN res' = DOMAIN res
                   /\ res'.user_id = res.user_id /\ res'.problem_id = res.problem_id
                   /\ res'.done = res.done
    BY <1>4 DEF Quiet
  <2>2. InOrder'
    BY <1>1, <2>1, OrderQuiet
  <2>3. SameOwner'
    BY <1>1, <2>1 DEF SameOwner
  <2>4. QueueTyped' /\ InHand'
    BY <1>1, <2>1 DEF QueueTyped, InHand
  <2>5. AnswerKept
    BY <2>1 DEF AnswerKept
  <2> QED BY <2>2, <2>3, <2>4, <2>5 DEF QueueInv
<1> QED BY <1>1, <1>2, <1>3, <1>4, QuietSteps

(***************************************************************************)
(* A step of the service that keeps the answers keeps what the pages show. *)
(***************************************************************************)
LEMMA AnswersKeepPages ==
  ASSUME PageInv, AnswerKept, UNCHANGED <<pages, epoch>>
  PROVE  PageInv'
<1>1. PagesTyped' /\ PageShowsOwn'
  BY DEF PageInv, PagesTyped, PageShowsOwn, Pages, ShowsResult
<1>2. PagesKnown'
  BY DEF PageInv, PagesKnown, AnswerKept, Pages
<1>3. ShownFinal'
  BY DEF PageInv, ShownFinal, AnswerKept, Pages, ShowsResult
<1> QED BY <1>1, <1>2, <1>3 DEF PageInv

--------------------------------------------------------------------------------
(***************************************************************************)
(* A new submission gets a new id, and its page carries it.                *)
(***************************************************************************)
LEMMA PostStep ==
  ASSUME SystemInv, NEW u \in Users, NEW p \in Problems, NEW c \in Codes, PostSubmission(u, p, c)
  PROVE  SystemInv'
<1>1. QueueTyped /\ InHand /\ InOrder /\ SameOwner
  BY DEF SystemInv, QueueInv
<1>2. PagesTyped /\ PagesKnown /\ PageShowsOwn /\ ShownFinal
  BY DEF SystemInv, PageInv
<1>3. Submit(u, p, c) /\ pages' = Append(pages, NewPage(u, p)) /\ epoch' = epoch
  BY DEF PostSubmission
<1>4. InOrder' /\ SameOwner' /\ AnswerKept
  BY <1>1, <1>3, SubmitKeepsOrder, SubmitKeepsOwner, SubmitKeepsAnswers
<1>5. /\ results_'[next_id_] = Placeholder(NewTask(u, p, c)) /\ DOMAIN results_' = 1..next_id_
      /\ next_id_' = next_id_ + 1 /\ pc' = (IF pc = "Waiting" THEN "Check" ELSE pc)
      /\ UNCHANGED <<task, res>>
  BY <1>1, <1>3, SubmitEffect DEF locals
<1>6. QueueTyped'
  <2>1. NewTask(u, p, c) \in Task
    BY <1>1, CodesAssumption DEF NewTask, Task, QueueTyped
  <2>2. queue_' = Append(queue_, NewTask(u, p, c))
    BY <1>3 DEF Submit
  <2> QED BY <1>1, <1>5, <2>1, <2>2, AppendProperties DEF QueueTyped
<1>7. InHand'
  BY <1>1, <1>5 DEF InHand, Busy, Judging
<1> DEFINE g == NewPage(u, p)
           n == Len(pages) + 1
<1>8. /\ DOMAIN g = PageFields
      /\ g.epoch = epoch /\ g.seen = epoch /\ g.shows = "waiting" /\ g.id = next_id_
      /\ g.user_id = u /\ g.problem_id = p
  BY DEF NewPage, PageFields
<1>9. /\ pages' \in Seq(Elements(pages'))
      /\ DOMAIN pages' = DOMAIN pages \cup {n}
      /\ \A i \in DOMAIN pages : pages'[i] = pages[i]
      /\ pages'[n] = g
  BY <1>2, <1>3, AppendElement DEF PagesTyped
<1> HIDE DEF g, n
<1>10. PagesTyped'
  BY <1>2, <1>3, <1>8, <1>9 DEF PagesTyped, Pages
<1>11. PagesKnown'
  <2>1. /\ next_id_ \in DOMAIN results_'
        /\ results_'[next_id_].user_id = u /\ results_'[next_id_].problem_id = p
    <3>1. next_id_ \in 1..next_id_
      BY <1>1 DEF QueueTyped
    <3>2. results_'[next_id_].user_id = u /\ results_'[next_id_].problem_id = p
      <4> DEFINE t == NewTask(u, p, c)
      <4>1. t.user_id = u /\ t.problem_id = p
        BY DEF NewTask
      <4> HIDE DEF t
      <4>2. Placeholder(t).user_id = t.user_id /\ Placeholder(t).problem_id = t.problem_id
        BY DEF Placeholder
      <4>3. results_'[next_id_] = Placeholder(t)
        BY <1>5 DEF t
      <4> QED BY <4>1, <4>2, <4>3
    <3> QED BY <1>5, <3>1, <3>2
  <2>2. ASSUME NEW i \in DOMAIN pages, pages[i].epoch = epoch
        PROVE  /\ pages[i].id \in DOMAIN results_'
               /\ results_'[pages[i].id].user_id = pages[i].user_id
               /\ results_'[pages[i].id].problem_id = pages[i].problem_id
    BY <1>2, <1>4, <2>2 DEF PagesKnown, AnswerKept, Pages
  <2> QED BY <1>3, <1>8, <1>9, <2>1, <2>2 DEF PagesKnown, Pages
<1>12. PageShowsOwn'
  BY <1>2, <1>8, <1>9 DEF PageShowsOwn, Pages, ShowsResult
<1>13. ShownFinal'
  <2>1. ASSUME NEW i \in DOMAIN pages, pages[i].shows = "result", pages[i].seen = epoch
        PROVE  /\ pages[i].id \in DOMAIN results_'
               /\ results_'[pages[i].id] = pages[i].record
               /\ pages[i].record.done
    BY <1>2, <1>4, <2>1 DEF ShownFinal, AnswerKept, Pages, ShowsResult
  <2> QED BY <1>3, <1>8, <1>9, <2>1 DEF ShownFinal, Pages, ShowsResult
<1> QED BY <1>4, <1>6, <1>7, <1>10, <1>11, <1>12, <1>13 DEF SystemInv, QueueInv, PageInv

(***************************************************************************)
(* A poll puts on the page what the service answers: a final result of the *)
(* same user, or an error, which a submission of this process never gets.  *)
(***************************************************************************)
LEMMA PollStep ==
  ASSUME SystemInv, NEW i \in Pages, Poll(i)
  PROVE  SystemInv'
<1>1. QueueInv /\ PagesTyped /\ PagesKnown /\ PageShowsOwn /\ ShownFinal
  BY DEF SystemInv, PageInv
<1>2. UNCHANGED vars /\ epoch' = epoch
  BY DEF Poll
<1>3. QueueInv'
  <2>1. UNCHANGED <<next_id_, queue_, results_, task, res, pc>>
    BY <1>2 DEF vars, members, locals
  <2> QED BY <1>1, <2>1 DEF QueueInv, QueueTyped, InHand, InOrder, SameOwner, Busy, Judging,
                            Taken, FirstPending
<1>4. results_' = results_
  BY <1>2 DEF vars, members
<1> DEFINE id == pages[i].id
<1>5. PICK what, record :
        /\ Show(i, what, record)
        /\ \/ what = "404" /\ id \notin DOMAIN results_
           \/ /\ what = "403" /\ id \in DOMAIN results_
              /\ results_[id].user_id # pages[i].user_id
           \/ /\ what = "result" /\ id \in DOMAIN results_
              /\ results_[id].user_id = pages[i].user_id
              /\ results_[id].done /\ record = results_[id]
  BY DEF Poll, MayRead
<1> DEFINE g == [pages[i] EXCEPT !.shows = what, !.record = record, !.seen = epoch]
<1>6. pages' = [pages EXCEPT ![i] = g]
  BY <1>5 DEF Show
<1>7. DOMAIN pages[i] = PageFields /\ pages \in Seq(Elements(pages)) /\ i \in DOMAIN pages
      /\ epoch \in Nat /\ pages[i].epoch \in 0..epoch
  BY <1>1 DEF PagesTyped, Pages
<1>8. /\ DOMAIN g = PageFields
      /\ g.shows = what /\ g.record = record /\ g.seen = epoch
      /\ g.epoch = pages[i].epoch /\ g.id = id
      /\ g.user_id = pages[i].user_id /\ g.problem_id = pages[i].problem_id
  BY <1>7 DEF PageFields
<1>9. /\ pages' \in Seq(Elements(pages'))
      /\ DOMAIN pages' = DOMAIN pages
      /\ pages'[i] = g
      /\ \A k \in DOMAIN pages : k # i => pages'[k] = pages[k]
  BY <1>6, <1>7, ChangeElement
<1>10. pages[i].epoch = epoch =>
         /\ id \in DOMAIN results_
         /\ results_[id].user_id = pages[i].user_id
         /\ results_[id].problem_id = pages[i].problem_id
  BY <1>1 DEF PagesKnown
<1> HIDE DEF g, id
<1>11. PagesTyped'
  BY <1>1, <1>2, <1>7, <1>8, <1>9 DEF PagesTyped, Pages
<1>12. PagesKnown'
  BY <1>1, <1>2, <1>4, <1>8, <1>9, <1>10 DEF PagesKnown, Pages
<1>13. PageShowsOwn'
  <2>1. /\ g.shows = "result" => g.record.user_id = g.user_id
        /\ g.seen = g.epoch => /\ g.shows \notin {"404", "403"}
                               /\ g.shows = "result" => g.record.problem_id = g.problem_id
    BY <1>5, <1>8, <1>10
  <2> QED BY <1>1, <1>9, <2>1 DEF PageShowsOwn, Pages, ShowsResult
<1>14. ShownFinal'
  <2>1. g.shows = "result" => g.id \in DOMAIN results_ /\ results_[g.id] = g.record /\ g.record.done
    BY <1>5, <1>8
  <2> QED BY <1>1, <1>2, <1>4, <1>9, <2>1 DEF ShownFinal, Pages, ShowsResult
<1> QED BY <1>3, <1>11, <1>12, <1>13, <1>14 DEF SystemInv, PageInv

(***************************************************************************)
(* After a restart no page belongs to the new process.                     *)
(***************************************************************************)
LEMMA RestartStep ==
  ASSUME SystemInv, Restart
  PROVE  SystemInv'
<1>1. PagesTyped /\ PageShowsOwn
  BY DEF SystemInv, PageInv
<1>2. /\ next_id_' = 1 /\ queue_' = <<>> /\ results_' = <<>> /\ pc' = "Start"
      /\ epoch' = epoch + 1 /\ pages' = pages
  BY DEF Restart
<1>3. ~Busy' /\ Taken' = 0 /\ Len(<<>>) = 0 /\ DOMAIN results_' = 1..0
  BY <1>2, EmptySeq, LenProperties DEF Busy, Judging, Taken
<1>4. FirstPending' = 1
  BY <1>2, <1>3 DEF FirstPending
<1>5. InOrder'
  BY <1>2, <1>3, <1>4 DEF InOrder
<1>6. QueueTyped' /\ InHand' /\ SameOwner'
  BY <1>2, <1>3, EmptySeq DEF QueueTyped, InHand, SameOwner
<1>7. epoch \in Nat /\ \A i \in Pages : pages[i].epoch \in 0..epoch /\ pages[i].seen \in 0..epoch
  BY <1>1 DEF PagesTyped
<1>8. \A i \in Pages : /\ pages[i].epoch # epoch + 1 /\ pages[i].epoch \in 0..(epoch + 1)
                       /\ pages[i].seen # epoch + 1 /\ pages[i].seen \in 0..(epoch + 1)
  BY <1>7
<1>9. PagesTyped' /\ PagesKnown' /\ PageShowsOwn' /\ ShownFinal'
  BY <1>1, <1>2, <1>7, <1>8 DEF PagesTyped, PagesKnown, PageShowsOwn, ShownFinal, ShowsResult, Pages
<1> QED BY <1>5, <1>6, <1>9 DEF SystemInv, QueueInv, PageInv

(***************************************************************************)
(* The administrator's requests touch the tables only.                     *)
(***************************************************************************)
LEMMA OtherStep ==
  ASSUME SystemInv, UNCHANGED <<vars, pages, epoch>>
  PROVE  SystemInv'
<1>1. UNCHANGED <<next_id_, queue_, results_, task, res, pc>>
  BY DEF vars, members, locals
<1>2. QueueInv'
  BY <1>1 DEF SystemInv, QueueInv, QueueTyped, InHand, InOrder, SameOwner, Busy, Judging, Taken,
              FirstPending
<1>3. AnswerKept
  BY <1>1 DEF AnswerKept
<1> QED BY <1>2, <1>3, AnswersKeepPages DEF SystemInv

--------------------------------------------------------------------------------
LEMMA SystemInvInit == SystemInit => SystemInv
<1> SUFFICES ASSUME SystemInit PROVE SystemInv
  OBVIOUS
<1>1. InOrder /\ SameOwner
  BY InvInit DEF SystemInit, IInv
<1>2. QueueTyped /\ InHand
  BY EmptySeq DEF SystemInit, Init, QueueTyped, InHand, Busy, Judging
<1>3. pages = <<>> /\ epoch = 0 /\ DOMAIN pages = {}
  BY DEF SystemInit
<1>4. pages \in Seq(Elements(pages))
  BY <1>3, EmptySeq
<1>5. PageInv
  BY <1>3, <1>4 DEF PageInv, PagesTyped, PagesKnown, PageShowsOwn, ShownFinal, Pages
<1> QED BY <1>1, <1>2, <1>5 DEF SystemInv, QueueInv

LEMMA SystemInvStep == SystemInv /\ [SystemNext]_sysvars => SystemInv'
<1> SUFFICES ASSUME SystemInv, [SystemNext]_sysvars PROVE SystemInv'
  OBVIOUS
<1>1. CASE Worker
  <2>1. UNCHANGED <<pages, epoch>>
    BY <1>1 DEF Worker
  <2>2. QueueInv' /\ AnswerKept
    BY <1>1, WorkerKeepsQueue DEF SystemInv
  <2> QED BY <2>1, <2>2, AnswersKeepPages DEF SystemInv
<1>2. CASE AdminRequest
  BY <1>2, OtherStep DEF AdminRequest
<1>3. CASE AdminStatement
  BY <1>3, OtherStep DEF AdminStatement
<1>4. ASSUME NEW u \in Users, NEW p \in Problems, NEW c \in Codes, PostSubmission(u, p, c)
      PROVE  SystemInv'
  BY <1>4, PostStep
<1>5. ASSUME NEW i \in Pages, Poll(i) PROVE SystemInv'
  BY <1>5, PollStep
<1>6. CASE Restart
  BY <1>6, RestartStep
<1>7. CASE UNCHANGED sysvars
  BY <1>7, OtherStep DEF sysvars
<1> QED BY <1>1, <1>2, <1>3, <1>4, <1>5, <1>6, <1>7 DEF SystemNext, Idle

LEMMA SystemInvariance == SystemSpec => []SystemInv
BY SystemInvInit, SystemInvStep, PTL DEF SystemSpec

(***************************************************************************)
(* Composed with the tables and through any number of restarts, the queue  *)
(* still loses, repeats and overtakes no submission of the process, and    *)
(* every task and result belongs to the owner of its placeholder.          *)
(***************************************************************************)
THEOREM QueueStaysInOrder == SystemSpec => [](InOrder /\ SameOwner)
<1>1. SystemInv => InOrder /\ SameOwner
  BY DEF SystemInv, QueueInv
<1> QED BY <1>1, SystemInvariance, PTL

(***************************************************************************)
(* A page never shows another user's result, although a restart gives the  *)
(* ids out again; and a page whose process still lives always finds its    *)
(* submission.                                                             *)
(***************************************************************************)
THEOREM PagesShowOwn == SystemSpec => []PageShowsOwn
<1>1. SystemInv => PageShowsOwn
  BY DEF SystemInv, PageInv
<1> QED BY <1>1, SystemInvariance, PTL

(***************************************************************************)
(* The list of a user is the upper end of the user's ids: what is not in   *)
(* it is older than everything in it, and the list is full.                *)
(***************************************************************************)
LEMMA ListIsNewest ==
  ASSUME QueueTyped, InOrder, NEW u, NEW id \in IdsOf(u)
  PROVE  LET list == ListByUser(u, ListLimit)
             ids  == {list[k] : k \in DOMAIN list}
         IN  id \in ids \/ (Len(list) = ListLimit /\ \A x \in ids : x > id)
<1> DEFINE S == IdsOf(u)
           n == Cardinality(S)
           asc == Ascending(S)
           list == ListByUser(u, ListLimit)
           m == Fitting(n, ListLimit)
           ids == {list[k] : k \in DOMAIN list}
<1>1. S \in SUBSET Nat /\ IsFiniteSet(S)
  <2>1. S \in SUBSET (1..(next_id_ - 1)) /\ next_id_ \in Nat
    BY DEF IdsOf, InOrder, QueueTyped
  <2> HIDE DEF S
  <2>2. IsFiniteSet(1..(next_id_ - 1))
    BY <2>1, FS_Interval
  <2>3. IsFiniteSet(S)
    BY <2>1, <2>2, FS_Subset
  <2> QED BY <2>1, <2>3
<1>2. /\ n \in Nat /\ Len(asc) = n
      /\ \A k \in 1..n : asc[k] \in S /\ Rank(S, asc[k]) = k
      /\ \A x \in S : asc[Rank(S, x)] = x
  <2> HIDE DEF S
  <2>1. n \in Nat /\ asc \in Seq(S) /\ Len(asc) = n
    BY <1>1, AscendingRanks
  <2>2. \A k \in 1..n : asc[k] \in S
    BY <2>1
  <2> QED BY <1>1, <2>1, <2>2, AscendingRanks
<1>3. list = [k \in 1..m |-> asc[n + 1 - k]]
  BY <1>2 DEF ListByUser
<1>4. Rank(S, id) \in 1..n /\ \A x, y \in S : x < y => Rank(S, x) < Rank(S, y)
  <2> HIDE DEF S
  <2> QED BY <1>1, RankOrder DEF S
<1> DEFINE r == Rank(S, id)
<1>5. m \in Nat /\ m <= n /\ (m < n => m = ListLimit)
  BY <1>2, ListLimitAssumption DEF Fitting
<1>6. id \in S /\ S \subseteq Nat
  BY <1>1
<1> HIDE DEF S, n, asc, list, m
<1>7. ASSUME r >= n + 1 - m PROVE id \in ids
  <2>1. n + 1 - r \in 1..m /\ n + 1 - (n + 1 - r) = r
    BY <1>2, <1>4, <1>5, <1>7
  <2>2. list[n + 1 - r] = id
    BY <1>2, <1>3, <1>6, <2>1
  <2> QED BY <1>3, <2>1, <2>2
<1>8. ASSUME r < n + 1 - m PROVE Len(list) = ListLimit /\ \A x \in ids : x > id
  <2>1. ASSUME NEW k \in 1..m PROVE list[k] > id
    <3>1. n + 1 - k \in 1..n /\ n + 1 - k > r
      BY <1>2, <1>4, <1>5, <1>8
    <3>2. PICK x \in S : x = list[k] /\ Rank(S, x) = n + 1 - k
      BY <1>2, <1>3, <3>1
    <3>3. ~(Rank(S, x) < r) /\ Rank(S, x) # r
      BY <1>4, <3>1, <3>2
    <3>4. ~(x < id) /\ x # id
      BY <1>4, <1>6, <3>3
    <3> QED BY <1>6, <3>2, <3>4
  <2>2. m = ListLimit
    BY <1>2, <1>4, <1>5, <1>8
  <2>3. Len(list) = ListLimit /\ DOMAIN list = 1..m
    BY <1>3, <1>5, <2>2
  <2> QED BY <2>1, <2>3
<1> HIDE DEF ids
<1>9. r >= n + 1 - m \/ r < n + 1 - m
  BY <1>2, <1>4, <1>5
<1>10. id \in ids \/ (Len(list) = ListLimit /\ \A x \in ids : x > id)
  BY <1>7, <1>8, <1>9
<1> QED BY <1>10 DEF ids, list

(***************************************************************************)
(* The three views of a user's work agree: a result shown since the last   *)
(* start is the record, stands in the list of submissions unless the list  *)
(* is full of newer ones, and counts as solved when it was accepted.       *)
(***************************************************************************)
THEOREM ViewsNeverDiffer == SystemSpec => []ViewsAgree
<1>1. SystemInv => ViewsAgree
  <2> SUFFICES ASSUME SystemInv, NEW i \in Pages, ShowsResult(i), pages[i].seen = epoch
               PROVE  ShownInList(i) /\ ShownIsKept(i)
    BY DEF ViewsAgree
  <2>1. /\ pages[i].id \in DOMAIN results_ /\ results_[pages[i].id] = pages[i].record
        /\ pages[i].record.done
    BY DEF SystemInv, PageInv, ShownFinal
  <2>2. pages[i].record.user_id = pages[i].user_id
    BY DEF SystemInv, PageInv, PageShowsOwn
  <2>3. ASSUME pages[i].record.status = "AC"
        PROVE  pages[i].record.problem_id \in GetUserStats(pages[i].user_id).solved
    BY <2>1, <2>2, <2>3 DEF GetUserStats
  <2>4. ShownIsKept(i)
    BY <2>1, <2>3 DEF ShownIsKept
  <2>5. pages[i].id \in IdsOf(pages[i].user_id)
    BY <2>1, <2>2 DEF IdsOf
  <2>6. ShownInList(i)
    BY <2>5, ListIsNewest DEF SystemInv, QueueInv, ShownInList
  <2> QED BY <2>4, <2>6
<1> QED BY <1>1, SystemInvariance, PTL

--------------------------------------------------------------------------------
(***************************************************************************)
(* What needs both halves of the system: which test cases a submission is  *)
(* judged on, while the administrator's handlers change them statement by  *)
(* statement.                                                              *)
(*                                                                         *)
(* The tables keep the invariant of ProblemStore_proofs, whose lemmas are  *)
(* taken through StoreP; it is started from the seeded tables here, and    *)
(* its requests and statements come between the steps of everybody else.   *)
(* NoneOlder ties the rows to the history of replacements, PagesSince the  *)
(* pages to that history, and OneProblem the SELECT of the worker to the   *)
(* problem of the page.                                                    *)
(***************************************************************************)
\* The theorems about the tables, on the variables of the running system.
StoreP == INSTANCE ProblemStore_proofs WITH judge_type <- type

\* The history of replacements: one request for each problem there ever was.
Replacements ==
  /\ replaced \in Seq(Nat) /\ Len(replaced) = next_pid - 1
  /\ \A p \in DOMAIN replaced : replaced[p] <= reqs

\* No row is older than the last confirmed replacement of its problem.
NoneOlder == \A c \in test_cases : c.req >= replaced[c.problem_id]

\* Nor did a page know of a later one when it submitted.
PagesSince ==
  \A i \in Pages : /\ pages[i].problem_id \in DOMAIN replaced /\ pages[i].since \in Nat
                   /\ pages[i].since <= replaced[pages[i].problem_id]

\* The worker reads the cases of the problem that its result is about.
OneProblem == Busy => res.problem_id = task.problem_id

TablesInv  == StoreP!IInv /\ Replacements /\ NoneOlder
CurrentInv == SystemInv /\ TablesInv /\ PagesSince /\ OneProblem /\ JudgedOnCurrentCases

--------------------------------------------------------------------------------
(***************************************************************************)
(* The instance of ProblemStore that JudgeSystem takes its actions from is *)
(* the one that StoreP proves about.                                       *)
(***************************************************************************)
LEMMA SameConstants ==
  /\ Bodies \subseteq Seq(StoreP!CaseContent)
  /\ MaxCases \in Nat \ {0} /\ MaxRequests \in Nat
  /\ SeedCases \in Seq(StoreP!CaseContent) /\ Len(SeedCases) <= MaxCases
  /\ Store!NoArray = StoreP!NoArray /\ Store!Ops = StoreP!Ops
<1>1. Store!CaseContent = StoreP!CaseContent
  BY DEF Store!CaseContent, StoreP!CaseContent
<1>2. Store!NoArray = StoreP!NoArray /\ Store!Ops = StoreP!Ops
  BY DEF Store!NoArray, StoreP!NoArray, Store!Ops, StoreP!Ops
<1> QED BY <1>1, <1>2, StoreAssumption, SeedAssumption

LEMMA SameCases == \A p : Store!CasesOf(p) = StoreP!CasesOf(p)
BY DEF Store!CasesOf, StoreP!CasesOf

LEMMA SameCardinality == \A S : Store!Cardinality(S) = StoreP!Cardinality(S)
BY DEF Store!Cardinality, StoreP!Cardinality

LEMMA SameBegin ==
  ASSUME NEW o, NEW p, NEW t, NEW b, Store!Begin(o, p, t, b)
  PROVE  StoreP!Begin(o, p, t, b)
BY DEF Store!Begin, StoreP!Begin, Store!BodiesFor, StoreP!BodiesFor, Store!NoArray,
       StoreP!NoArray, Store!FirstStatement, StoreP!FirstStatement, Store!tables, StoreP!tables

LEMMA SameHandler == Store!Handler => StoreP!Handler
<1>1. /\ \A m : Store!AppendAt(m) = StoreP!AppendAt(m)
      /\ \A p, f : Store!Rows(p, f) = StoreP!Rows(p, f)
      /\ \A r : Store!KeysAreFree(r) <=> StoreP!KeysAreFree(r)
  BY DEF Store!AppendAt, StoreP!AppendAt, Store!Rows, StoreP!Rows, Store!StoredCase,
         StoreP!StoredCase, Store!KeysAreFree, StoreP!KeysAreFree, Store!CasesOf, StoreP!CasesOf
<1>2. /\ \A s : Store!Answer(s) <=> StoreP!Answer(s)
      /\ \A s : Store!GoOn(s) <=> StoreP!GoOn(s)
      /\ \A p : Store!Remove(p) <=> StoreP!Remove(p)
  BY SameCases DEF Store!Answer, StoreP!Answer, Store!GoOn, StoreP!GoOn, Store!Remove, StoreP!Remove
<1> USE DEF Store!tables, StoreP!tables, Store!request, StoreP!request
<1>3. Store!InsertProblem => StoreP!InsertProblem
  BY DEF Store!InsertProblem, StoreP!InsertProblem, Store!Answer, StoreP!Answer, Store!GoOn,
         StoreP!GoOn, Store!Row, StoreP!Row, Store!HasArray, StoreP!HasArray, Store!NoArray,
         StoreP!NoArray, Store!ValidCases, StoreP!ValidCases, Store!ValidCaseContent,
         StoreP!ValidCaseContent
<1>4. Store!MaxOrder => StoreP!MaxOrder
  BY <1>1, <1>2, SameCases DEF Store!MaxOrder, StoreP!MaxOrder
<1>5. Store!Exists => StoreP!Exists
  BY DEF Store!Exists, StoreP!Exists, Store!Answer, StoreP!Answer, Store!GoOn,
         StoreP!GoOn, Store!Row, StoreP!Row, Store!HasArray, StoreP!HasArray, Store!NoArray,
         StoreP!NoArray, Store!ValidCases, StoreP!ValidCases, Store!ValidCaseContent,
         StoreP!ValidCaseContent
<1>6. Store!Update => StoreP!Update
  BY DEF Store!Update, StoreP!Update, Store!Answer, StoreP!Answer, Store!GoOn,
         StoreP!GoOn, Store!Row, StoreP!Row, Store!HasArray, StoreP!HasArray, Store!NoArray,
         StoreP!NoArray, Store!ValidCases, StoreP!ValidCases, Store!ValidCaseContent,
         StoreP!ValidCaseContent
<1>7. Store!DeleteCases => StoreP!DeleteCases
  BY <1>1, <1>2, SameCases DEF Store!DeleteCases, StoreP!DeleteCases
<1>8. Store!InsertCases => StoreP!InsertCases
  BY <1>1, <1>2 DEF Store!InsertCases, StoreP!InsertCases, Store!InsertionFailed,
                    StoreP!InsertionFailed
<1>9. Store!Rollback => StoreP!Rollback
  BY <1>1, <1>2 DEF Store!Rollback, StoreP!Rollback
<1>10. Store!DeleteProblem => StoreP!DeleteProblem
  BY <1>1, <1>2 DEF Store!DeleteProblem, StoreP!DeleteProblem
<1> QED BY <1>3, <1>4, <1>5, <1>6, <1>7, <1>8, <1>9, <1>10 DEF Store!Handler, StoreP!Handler

LEMMA SameCrash == Store!Crash => StoreP!Crash
BY DEF Store!Crash, StoreP!Crash, Store!tables, StoreP!tables, Store!request, StoreP!request

(***************************************************************************)
(* The tables of the running system keep the invariant of ProblemStore.    *)
(***************************************************************************)
LEMMA StoreBegins ==
  ASSUME StoreP!IInv, AdminRequest PROVE StoreP!IInv'
<1>1. PICK o \in Store!Ops, p \in Problems, t \in JudgeTypes, b \in Bodies \cup {Store!NoArray} :
        Store!Begin(o, p, t, b)
  BY DEF AdminRequest
<1>2. /\ o \in StoreP!Ops /\ p \in Nat /\ t \in {"exact", "special"}
      /\ b \in Bodies \cup {StoreP!NoArray}
  BY SameConstants, RequestsAssumption
<1>3. StoreP!Begin(o, p, t, b)
  BY <1>1, SameBegin
<1> QED BY <1>2, <1>3, SameConstants, StoreP!BeginStep

LEMMA StoreHandles ==
  ASSUME StoreP!IInv, AdminStatement \/ Store!Crash PROVE StoreP!IInv'
<1>1. StoreP!Handler \/ StoreP!Crash
  BY SameHandler, SameCrash DEF AdminStatement
<1> QED BY <1>1, SameConstants, StoreP!Inductive DEF StoreP!Next

LEMMA StoreStays ==
  ASSUME StoreP!IInv, UNCHANGED store PROVE StoreP!IInv'
<1>1. UNCHANGED StoreP!vars
  BY DEF store, StoreP!vars, StoreP!tables, StoreP!request
<1> QED BY <1>1, SameConstants, StoreP!StutterStep

--------------------------------------------------------------------------------
(***************************************************************************)
(* The numbers 1..n in ascending order are 1, 2, ..., n.                   *)
(***************************************************************************)
LEMMA AscendingInterval ==
  ASSUME NEW n \in Nat
  PROVE  /\ Ascending(1..n) \in Seq(1..n) /\ Len(Ascending(1..n)) = n
         /\ \A i \in 1..n : Ascending(1..n)[i] = i
<1>1. IsFiniteSet(1..n) /\ Cardinality(1..n) = n /\ (1..n) \in SUBSET Nat
  BY FS_Interval
<1>2. ASSUME NEW i \in 1..n PROVE Rank(1..n, i) = i
  <2>1. Below(1..n, i) = 1..(i - 1)
    BY DEF Below
  <2>2. Cardinality(1..(i - 1)) = i - 1
    BY FS_Interval
  <2> QED BY <2>1, <2>2 DEF Rank
<1> QED BY <1>1, <1>2, AscendingRanks

(***************************************************************************)
(* What a SELECT on test_cases returns: the i-th case is the row with the  *)
(* number i, and every row of the problem is there.                        *)
(***************************************************************************)
LEMMA CasesAreRows ==
  ASSUME StoreP!IInv, NEW p
  PROVE  \E n \in Nat :
           /\ Len(Cases(p)) = n /\ DOMAIN Cases(p) = 1..n
           /\ \A i \in 1..n : \E row \in test_cases :
                row.problem_id = p /\ row.order_no = i /\ Cases(p)[i] = AsCase(row)
           /\ \A row \in test_cases : row.problem_id = p => row.order_no \in 1..n
<1>1. StoreP!Numbered
  BY DEF StoreP!IInv, StoreP!Stored
<1>2. Orders(p) = StoreP!OrderNos(p)
  BY SameCases DEF Orders, StoreP!OrderNos
<1>3. PICK n \in Nat : Orders(p) = 1..n
  <2>1. CASE p \in DOMAIN problems
    BY <1>1, <1>2, <2>1 DEF StoreP!Numbered
  <2>2. CASE p \notin DOMAIN problems
    <3>1. Orders(p) = {}
      BY <1>1, <1>2, <2>2 DEF StoreP!Numbered, StoreP!OrderNos, StoreP!CasesOf
    <3> QED BY <3>1
  <2> QED BY <2>1, <2>2
<1>4. /\ Ascending(1..n) \in Seq(1..n) /\ Len(Ascending(1..n)) = n
      /\ \A i \in 1..n : Ascending(1..n)[i] = i
  BY AscendingInterval
<1>5. DOMAIN Ascending(1..n) = 1..n
  BY <1>4
<1>6. Cases(p) = [i \in 1..n |-> AsCase(CHOOSE row \in Store!CasesOf(p) : row.order_no = i)]
  <2>1. Cases(p) = [i \in DOMAIN Ascending(1..n) |->
                     AsCase(CHOOSE row \in Store!CasesOf(p) : row.order_no = Ascending(1..n)[i])]
    BY <1>3 DEF Cases
  <2> QED BY <1>4, <1>5, <2>1
<1>7. ASSUME NEW i \in 1..n
      PROVE  \E row \in test_cases :
               row.problem_id = p /\ row.order_no = i /\ Cases(p)[i] = AsCase(row)
  <2> DEFINE row == CHOOSE row \in Store!CasesOf(p) : row.order_no = i
  <2>1. \E r \in Store!CasesOf(p) : r.order_no = i
    BY <1>3 DEF Orders
  <2>2. row \in Store!CasesOf(p) /\ row.order_no = i
    BY <2>1
  <2>3. Cases(p)[i] = AsCase(row)
    BY <1>6
  <2> HIDE DEF row
  <2> QED BY <2>2, <2>3 DEF Store!CasesOf
<1>8. \A row \in test_cases : row.problem_id = p => row.order_no \in 1..n
  BY <1>3 DEF Orders, Store!CasesOf
<1>9. Len(Cases(p)) = n /\ DOMAIN Cases(p) = 1..n
  <2> DEFINE e(i) == AsCase(CHOOSE row \in Store!CasesOf(p) : row.order_no = i)
  <2> HIDE DEF e
  <2>1. Cases(p) = [i \in 1..n |-> e(i)]
    BY <1>6 DEF e
  <2>2. [i \in 1..n |-> e(i)] \in Seq({e(i) : i \in 1..n})
    OBVIOUS
  <2>3. DOMAIN [i \in 1..n |-> e(i)] = 1..n
    OBVIOUS
  <2> QED BY <2>1, <2>2, <2>3, LenProperties
<1> QED BY <1>7, <1>8, <1>9

(***************************************************************************)
(* They are whole arrays, in the order of the arrays.                      *)
(***************************************************************************)
ArraysInOrder(cs) ==
  \A i \in DOMAIN cs :
    /\ cs[i].order_no = i
    /\ i - cs[i].nth >= 0 /\ i - cs[i].nth + cs[i].of <= Len(cs)
    /\ \A k \in 1..cs[i].of : cs[i - cs[i].nth + k].req = cs[i].req

LEMMA CasesAreWhole ==
  ASSUME StoreP!IInv, NEW p
  PROVE  ArraysInOrder(Cases(p))
<1>1. PICK n \in Nat :
        /\ Len(Cases(p)) = n /\ DOMAIN Cases(p) = 1..n
        /\ \A i \in 1..n : \E row \in test_cases :
             row.problem_id = p /\ row.order_no = i /\ Cases(p)[i] = AsCase(row)
        /\ \A row \in test_cases : row.problem_id = p => row.order_no \in 1..n
  BY CasesAreRows
<1>2. StoreP!Numbered /\ StoreP!Blocks /\ StoreP!TypeOK
  BY DEF StoreP!IInv, StoreP!Stored
<1>3. SUFFICES ASSUME NEW i \in 1..n
      PROVE  /\ Cases(p)[i].order_no = i
             /\ i - Cases(p)[i].nth >= 0 /\ i - Cases(p)[i].nth + Cases(p)[i].of <= n
             /\ \A k \in 1..Cases(p)[i].of :
                  Cases(p)[i - Cases(p)[i].nth + k].req = Cases(p)[i].req
  BY <1>1 DEF ArraysInOrder
<1>4. PICK c \in test_cases : c.problem_id = p /\ c.order_no = i /\ Cases(p)[i] = AsCase(c)
  BY <1>1
<1>5. /\ Cases(p)[i].order_no = c.order_no /\ Cases(p)[i].req = c.req
      /\ Cases(p)[i].nth = c.nth /\ Cases(p)[i].of = c.of
  BY <1>4 DEF AsCase
<1>6. c.nth \in Nat /\ c.of \in Nat /\ c.nth \in 1..c.of
  BY <1>2 DEF StoreP!TypeOK, StoreP!Blocks
<1>7. ASSUME NEW k \in 1..c.of
      PROVE  \E d \in test_cases :
               d.problem_id = p /\ d.req = c.req /\ d.order_no = i - c.nth + k /\ d.order_no \in 1..n
  <2>1. PICK d \in test_cases : StoreP!SameArray(c, d) /\ d.nth = k
    BY <1>2 DEF StoreP!Blocks
  <2>2. d.problem_id = p /\ d.req = c.req
    BY <1>4, <2>1 DEF StoreP!SameArray
  <2>3. d.order_no - c.order_no = d.nth - c.nth
    BY <1>2, <2>1 DEF StoreP!Blocks
  <2>4. d.order_no \in 1..n
    BY <1>1, <2>2
  <2>5. d.order_no = i - c.nth + k
    BY <1>4, <1>6, <2>1, <2>3, <2>4
  <2> QED BY <2>2, <2>4, <2>5
<1>8. i - c.nth >= 0
  <2>1. i - c.nth + 1 \in 1..n
    BY <1>6, <1>7
  <2> QED BY <1>6, <2>1
<1>9. i - c.nth + c.of <= n
  <2>1. i - c.nth + c.of \in 1..n
    BY <1>6, <1>7
  <2> QED BY <2>1
<1>10. ASSUME NEW k \in 1..c.of PROVE Cases(p)[i - c.nth + k].req = c.req
  <2>1. PICK d \in test_cases :
          d.problem_id = p /\ d.req = c.req /\ d.order_no = i - c.nth + k /\ d.order_no \in 1..n
    BY <1>7
  <2>2. PICK e \in test_cases : /\ e.problem_id = p /\ e.order_no = i - c.nth + k
                                /\ Cases(p)[i - c.nth + k] = AsCase(e)
    BY <1>1, <2>1
  <2>3. d = e
    BY <1>2, <2>1, <2>2 DEF StoreP!Numbered
  <2> QED BY <2>1, <2>2, <2>3 DEF AsCase
<1> QED BY <1>4, <1>5, <1>8, <1>9, <1>10

--------------------------------------------------------------------------------
(***************************************************************************)
(* What a statement of a request does to the rows: those of the request    *)
(* are new, and after a confirmed replacement the problem has no others.   *)
(***************************************************************************)
LEMMA StatementEffect ==
  ASSUME StoreP!IInv, Store!Handler
  PROVE  /\ reqs' = reqs /\ (next_pid' = next_pid \/ next_pid' = next_pid + 1)
         /\ \A c \in test_cases' : c \in test_cases \/ c.req = reqs
         /\ next_pid' # next_pid => test_cases' = test_cases
         /\ reply' = 200 /\ IsReplacement /\ next_pid' = next_pid =>
              \A c \in test_cases' : c.problem_id = pid => c.req = reqs
<1> USE DEF StoreP!tables, StoreP!request
<1>1. StoreP!Handler
  BY SameHandler
<1>2. /\ reqs' = reqs /\ op' = op /\ body' = body
      /\ next_pid' = next_pid \/ next_pid' = next_pid + 1
      /\ next_pid' # next_pid => test_cases' = test_cases
      /\ at # "free" /\ (at = "InsertProblem" \/ pid' = pid)
  <2>1. reqs' = reqs /\ op' = op /\ body' = body /\ at # "free"
    BY <1>1 DEF StoreP!Handler, StoreP!InsertProblem, StoreP!MaxOrder, StoreP!Exists, StoreP!Update,
                StoreP!DeleteCases, StoreP!InsertCases, StoreP!Rollback, StoreP!DeleteProblem
  <2>2. at = "InsertProblem" \/ (pid' = pid /\ next_pid' = next_pid)
    BY <1>1 DEF StoreP!Handler, StoreP!InsertProblem, StoreP!MaxOrder, StoreP!Exists, StoreP!Update,
                StoreP!DeleteCases, StoreP!InsertCases, StoreP!Rollback, StoreP!DeleteProblem,
                StoreP!Remove
  <2>3. ASSUME at = "InsertProblem"
        PROVE  (next_pid' = next_pid \/ next_pid' = next_pid + 1) /\ test_cases' = test_cases
    <3>1. StoreP!InsertProblem
      BY <1>1, <2>3 DEF StoreP!Handler, StoreP!InsertProblem, StoreP!MaxOrder, StoreP!Exists,
                  StoreP!Update, StoreP!DeleteCases, StoreP!InsertCases, StoreP!Rollback,
                  StoreP!DeleteProblem
    <3> QED BY <3>1 DEF StoreP!InsertProblem
  <2> QED BY <2>1, <2>2, <2>3
<1>3. \A c \in test_cases' : c \in test_cases \/ c.req = reqs
  <2>1. \A p, f : \A c \in StoreP!Rows(p, f) : c.req = reqs
    BY DEF StoreP!Rows, StoreP!StoredCase
  <2>2. \/ test_cases' \subseteq test_cases
        \/ test_cases' = test_cases \cup StoreP!Rows(pid, next_order)
    BY <1>1 DEF StoreP!Handler, StoreP!InsertProblem, StoreP!MaxOrder, StoreP!Exists, StoreP!Update,
                StoreP!DeleteCases, StoreP!InsertCases, StoreP!Rollback, StoreP!DeleteProblem,
                StoreP!Remove
  <2> QED BY <2>1, <2>2
<1>4. ASSUME reply' = 200, IsReplacement, NEW c \in test_cases', c.problem_id = pid
      PROVE  c.req = reqs
  <2>1. op \in {"PUT", "IMPORT"} /\ body # <<>> /\ body # StoreP!NoArray
    BY <1>4, SameConstants DEF IsReplacement
  <2>2. pid' = pid
    BY <1>2, <2>1 DEF StoreP!IInv, StoreP!Checked, StoreP!StatementsOf
  <2>3. StoreP!SuccessEffect'
    <3>1. StoreP!ReplyTellsEffect'
      BY <1>1, SameConstants, StoreP!Inductive DEF StoreP!Next, StoreP!IInv
    <3> QED BY <1>4, <3>1 DEF StoreP!ReplyTellsEffect
  <2>4. StoreP!CasesOf(pid)' = StoreP!New'
    BY <1>2, <2>1, <2>3 DEF StoreP!SuccessEffect, StoreP!HasArray
  <2> QED BY <1>2, <1>4, <2>2, <2>4 DEF StoreP!CasesOf, StoreP!New
<1> QED BY <1>2, <1>3, <1>4

(***************************************************************************)
(* The tables and the history of replacements under each kind of step.     *)
(***************************************************************************)
LEMMA StatementKeepsTables ==
  ASSUME TablesInv, AdminStatement
  PROVE  /\ TablesInv'
         /\ DOMAIN replaced \subseteq DOMAIN replaced'
         /\ \A p \in DOMAIN replaced : replaced'[p] >= replaced[p]
<1>1. StoreP!IInv /\ Replacements /\ NoneOlder /\ StoreP!TypeOK
  BY DEF TablesInv, StoreP!IInv
<1>2. /\ reqs' = reqs /\ (next_pid' = next_pid \/ next_pid' = next_pid + 1)
      /\ \A c \in test_cases' : c \in test_cases \/ c.req = reqs
      /\ next_pid' # next_pid => test_cases' = test_cases
      /\ reply' = 200 /\ IsReplacement /\ next_pid' = next_pid =>
           \A c \in test_cases' : c.problem_id = pid => c.req = reqs
  BY <1>1, StatementEffect DEF AdminStatement
<1>3. /\ replaced \in Seq(Nat) /\ Len(replaced) = next_pid - 1 /\ DOMAIN replaced = 1..(next_pid - 1)
      /\ \A p \in DOMAIN replaced : replaced[p] \in Nat /\ replaced[p] <= reqs
  BY <1>1 DEF Replacements
<1>4. next_pid \in Nat \ {0} /\ reqs \in Nat
  BY <1>1 DEF StoreP!TypeOK
<1>5. \A c \in test_cases : c.problem_id \in DOMAIN replaced /\ c.req \in Nat /\ c.req >= replaced[c.problem_id]
  <2>1. \A c \in test_cases : c.problem_id \in 1..(next_pid - 1) /\ c.req \in 1..reqs
    BY <1>1 DEF StoreP!TypeOK
  <2> QED BY <1>1, <1>3, <1>4, <2>1 DEF NoneOlder
<1>6. StoreP!IInv'
  BY <1>1, StoreHandles
<1>7. CASE next_pid' # next_pid
  <2>1. next_pid' = next_pid + 1 /\ replaced' = Append(replaced, reqs) /\ test_cases' = test_cases
    BY <1>2, <1>7 DEF AdminStatement
  <2>2. /\ replaced' \in Seq(Nat) /\ Len(replaced') = next_pid
        /\ DOMAIN replaced' = 1..next_pid
        /\ \A p \in 1..(next_pid - 1) : replaced'[p] = replaced[p]
        /\ replaced'[next_pid] = reqs
    BY <1>3, <1>4, <2>1, AppendProperties
  <2>3. Replacements'
    BY <1>2, <1>3, <1>4, <2>1, <2>2 DEF Replacements
  <2>4. NoneOlder'
    BY <1>3, <1>5, <2>1, <2>2 DEF NoneOlder
  <2> QED BY <1>3, <1>4, <1>6, <2>2, <2>3, <2>4 DEF TablesInv
<1>8. CASE next_pid' = next_pid /\ reply' = 200 /\ IsReplacement
  <2>1. replaced' = [replaced EXCEPT ![pid] = reqs]
    BY <1>8 DEF AdminStatement
  <2>2. /\ DOMAIN replaced' = DOMAIN replaced
        /\ \A p \in DOMAIN replaced : replaced'[p] = IF p = pid THEN reqs ELSE replaced[p]
    BY <2>1
  <2>3. replaced' \in Seq(Nat) /\ Len(replaced') = Len(replaced)
    <3>1. \A p \in 1..(next_pid - 1) : replaced'[p] \in Nat
      BY <1>3, <1>4, <2>2
    <3>2. replaced' = [p \in 1..(next_pid - 1) |-> replaced'[p]]
      BY <1>3, <2>1
    <3>3. replaced' \in [1..(next_pid - 1) -> Nat]
      BY <3>1, <3>2
    <3> QED BY <1>3, <1>4, <3>3
  <2>4. Replacements'
    <3>1. \A p \in DOMAIN replaced' : replaced'[p] <= reqs
      BY <1>3, <1>4, <2>2
    <3> QED BY <1>2, <1>3, <1>8, <2>3, <3>1 DEF Replacements
  <2>5. NoneOlder'
    <3>1. ASSUME NEW c \in test_cases' PROVE c.req >= replaced'[c.problem_id]
      <4>1. CASE c.problem_id = pid
        <5>1. c.req = reqs
          BY <1>2, <1>8, <4>1
        <5>2. c.problem_id \in DOMAIN replaced'
          <6>1. c.problem_id \in 1..(next_pid' - 1)
            BY <1>6 DEF StoreP!IInv, StoreP!TypeOK
          <6> QED BY <1>3, <1>8, <2>2, <6>1
        <5> QED BY <1>4, <2>2, <4>1, <5>1, <5>2
      <4>2. CASE c.problem_id # pid
        <5>1. c.problem_id \in DOMAIN replaced /\ c.req \in Nat
          <6>1. c.problem_id \in 1..(next_pid' - 1) /\ c.req \in 1..reqs'
            BY <1>6 DEF StoreP!IInv, StoreP!TypeOK
          <6> QED BY <1>2, <1>3, <1>4, <1>8, <6>1
        <5>2. replaced'[c.problem_id] = replaced[c.problem_id]
          BY <2>2, <4>2, <5>1
        <5> QED BY <1>2, <1>3, <1>4, <1>5, <5>1, <5>2
      <4> QED BY <4>1, <4>2
    <3> QED BY <3>1 DEF NoneOlder
  <2> QED BY <1>3, <1>4, <1>6, <2>2, <2>4, <2>5 DEF TablesInv
<1>9. CASE next_pid' = next_pid /\ ~(reply' = 200 /\ IsReplacement)
  <2>1. replaced' = replaced
    BY <1>9 DEF AdminStatement
  <2>2. Replacements'
    BY <1>2, <1>3, <1>9, <2>1 DEF Replacements
  <2>3. NoneOlder'
    <3>1. ASSUME NEW c \in test_cases' PROVE c.req >= replaced[c.problem_id]
      <4>1. c.problem_id \in DOMAIN replaced
        <5>1. c.problem_id \in 1..(next_pid' - 1)
          BY <1>6 DEF StoreP!IInv, StoreP!TypeOK
        <5> QED BY <1>3, <1>9, <5>1
      <4> QED BY <1>2, <1>3, <1>4, <1>5, <4>1
    <3> QED BY <2>1, <3>1 DEF NoneOlder
  <2> QED BY <1>3, <1>6, <2>1, <2>2, <2>3 DEF TablesInv
<1> QED BY <1>7, <1>8, <1>9

LEMMA BeginKeepsTables ==
  ASSUME TablesInv, AdminRequest
  PROVE  TablesInv'
<1>1. /\ reqs' = reqs + 1 /\ next_pid' = next_pid /\ test_cases' = test_cases
      /\ replaced' = replaced
  BY DEF AdminRequest, Store!Begin, Store!tables
<1>2. StoreP!IInv'
  BY StoreBegins DEF TablesInv
<1>3. reqs \in Nat /\ replaced \in Seq(Nat)
  BY DEF TablesInv, StoreP!IInv, StoreP!TypeOK, Replacements
<1>4. Replacements' /\ NoneOlder'
  BY <1>1, <1>3 DEF TablesInv, Replacements, NoneOlder
<1> QED BY <1>2, <1>4 DEF TablesInv

LEMMA OthersKeepTables ==
  ASSUME TablesInv, UNCHANGED store \/ Store!Crash, replaced' = replaced
  PROVE  TablesInv'
<1>1. StoreP!IInv'
  BY StoreStays, StoreHandles DEF TablesInv
<1>2. UNCHANGED <<test_cases, next_pid, reqs>>
  BY DEF store, Store!Crash, Store!tables, Store!request
<1> QED BY <1>1, <1>2 DEF TablesInv, Replacements, NoneOlder

--------------------------------------------------------------------------------
(***************************************************************************)
(* The worker reads what the tables hold, for the problem that the page of *)
(* its task was made for.                                                  *)
(***************************************************************************)
CasesCurrent(cs, t) ==
  \A i \in DOMAIN cs, g \in PageOf(t.id) : cs[i].req >= pages[g].since

LEMMA CurrentWhenRead ==
  ASSUME CurrentInv, Busy
  PROVE  CasesCurrent(Cases(task.problem_id), task) /\ ArraysInOrder(Cases(task.problem_id))
<1> DEFINE p == task.problem_id
<1>1. StoreP!IInv /\ Replacements /\ NoneOlder /\ PagesSince /\ StoreP!TypeOK
  BY DEF CurrentInv, TablesInv, StoreP!IInv
<1>2. ASSUME NEW g \in PageOf(task.id) PROVE pages[g].problem_id = p
  <2>1. g \in Pages /\ pages[g].epoch = epoch /\ pages[g].id = task.id
    BY DEF PageOf
  <2>2. results_[task.id].problem_id = pages[g].problem_id
    BY <2>1 DEF CurrentInv, SystemInv, PageInv, PagesKnown
  <2>3. results_[task.id].problem_id = res.problem_id
    BY DEF CurrentInv, SystemInv, QueueInv, SameOwner
  <2> QED BY <2>2, <2>3 DEF CurrentInv, OneProblem
<1>3. ASSUME NEW i \in DOMAIN Cases(p), NEW g \in PageOf(task.id)
      PROVE  Cases(p)[i].req >= pages[g].since
  <2>1. PICK row \in test_cases : row.problem_id = p /\ Cases(p)[i] = AsCase(row)
    BY <1>1, CasesAreRows
  <2>2. Cases(p)[i].req = row.req
    BY <2>1 DEF AsCase
  <2>3. row.req \in Nat /\ row.req >= replaced[p]
    <3>1. row.req \in 1..reqs
      BY <1>1 DEF StoreP!TypeOK
    <3> QED BY <1>1, <2>1, <3>1 DEF NoneOlder
  <2>4. p \in DOMAIN replaced /\ pages[g].since \in Nat /\ pages[g].since <= replaced[p]
    BY <1>1, <1>2 DEF PagesSince, PageOf
  <2>5. replaced[p] \in Nat
    BY <1>1, <2>4 DEF Replacements
  <2> HIDE DEF p
  <2> QED BY <2>2, <2>3, <2>4, <2>5
<1>4. ArraysInOrder(Cases(p))
  BY <1>1, CasesAreWhole
<1> QED BY <1>3, <1>4 DEF CasesCurrent

LEMMA Judged ==
  JudgedOnCurrentCases <=>
    (pc = "RunCase" => CasesCurrent(cases, task) /\ ArraysInOrder(cases))
BY DEF JudgedOnCurrentCases, CasesCurrent, ArraysInOrder

(***************************************************************************)
(* How the worker comes to run a case.                                     *)
(***************************************************************************)
LEMMA ComesToRun ==
  ASSUME Worker, pc' = "RunCase"
  PROVE  /\ task' = task /\ Busy
         /\ \/ pc = "RunCase" /\ cases' = cases
            \/ cases' = <<>> \/ cases' = Cases(task.problem_id)
<1> USE DEF Busy, Judging, members, locals
<1>1. ~(\E ok \in BOOLEAN : StartWorker(ok)) /\ ~Wait /\ ~Take /\ ~StoreResult /\ ~ExitWorker
      /\ ~Hang /\ ~RemoveDir
  BY DEF StartWorker, Wait, Take, StoreResult, ExitWorker, Hang, RemoveDir
<1>2. ~(\E ok \in BOOLEAN : Compile(ok)) /\ ~(\E ok \in BOOLEAN : CompileSpj(ok)) /\ ~ReadProblem
  BY DEF Compile, CompileSpj, ReadProblem, LoadProblem
<1>3. AnyRunCase \/ ReadCases
  BY <1>1, <1>2 DEF Worker, OwnStep
<1>4. AnyRunCase => pc = "RunCase" /\ task' = task /\ cases' = cases
  BY DEF AnyRunCase, RunCase
<1>5. ReadCases => /\ pc = "LoadCases" /\ task' = task
                   /\ cases' = <<>> \/ cases' = Cases(task.problem_id)
  BY DEF ReadCases, LoadCases
<1> QED BY <1>3, <1>4, <1>5

--------------------------------------------------------------------------------
(***************************************************************************)
(* CurrentInv holds at the start and is kept by every step.                *)
(***************************************************************************)
LEMMA WorkerKeepsCurrent ==
  ASSUME CurrentInv, Worker
  PROVE  PagesSince' /\ OneProblem' /\ JudgedOnCurrentCases'
<1>1. UNCHANGED <<pages, epoch, replaced>>
  BY DEF Worker
<1>2. PagesSince'
  BY <1>1 DEF CurrentInv, PagesSince, Pages
<1>3. QueueTyped /\ InHand /\ OneProblem
  BY DEF CurrentInv, SystemInv, QueueInv
<1>4. OneProblem'
  <2>1. CASE Take
    <3>1. /\ task' = queue_[1]
          /\ res' = NewResult(queue_[1], IF db_ok THEN queue_[1].code ELSE 0)
      BY <1>3, <2>1, TakeEffect
    <3> QED BY <3>1 DEF OneProblem, NewResult
  <2>2. CASE StoreResult
    BY <2>2 DEF StoreResult, OneProblem, Busy, Judging
  <2>3. CASE Quiet
    BY <1>3, <2>3 DEF Quiet, OneProblem
  <2> QED BY <1>3, <2>1, <2>2, <2>3, QuietSteps
<1>5. JudgedOnCurrentCases'
  <2> SUFFICES ASSUME pc' = "RunCase"
               PROVE  (CasesCurrent(cases, task) /\ ArraysInOrder(cases))'
    BY DEF JudgedOnCurrentCases, CasesCurrent, ArraysInOrder
  <2>1. /\ task' = task /\ Busy
        /\ \/ pc = "RunCase" /\ cases' = cases
           \/ cases' = <<>> \/ cases' = Cases(task.problem_id)
    BY ComesToRun
  <2>2. PageOf(task.id)' = PageOf(task.id)
    BY <1>1, <2>1 DEF PageOf, Pages
  <2>3. \/ pc = "RunCase" /\ cases' = cases
        \/ cases' = <<>>
        \/ CasesCurrent(cases', task) /\ ArraysInOrder(cases')
    BY <2>1, CurrentWhenRead
  <2>4. CasesCurrent(cases', task) /\ ArraysInOrder(cases')
    <3>1. CASE pc = "RunCase" /\ cases' = cases
      BY <3>1, Judged DEF CurrentInv
    <3>2. CASE cases' = <<>>
      BY <3>2 DEF CasesCurrent, ArraysInOrder
    <3> QED BY <2>3, <3>1, <3>2
  <2> QED BY <1>1, <2>1, <2>2, <2>4 DEF CasesCurrent, ArraysInOrder
<1> QED BY <1>2, <1>4, <1>5

LEMMA PostKeepsCurrent ==
  ASSUME CurrentInv, NEW u \in Users, NEW p \in Problems, NEW c \in Codes, PostSubmission(u, p, c)
  PROVE  PagesSince' /\ OneProblem' /\ JudgedOnCurrentCases'
<1>1. /\ QueueTyped /\ InOrder /\ OneProblem /\ PagesTyped /\ PagesSince /\ Replacements
      /\ StoreP!TypeOK
  BY DEF CurrentInv, SystemInv, QueueInv, PageInv, TablesInv, StoreP!IInv
<1>2. /\ Submit(u, p, c) /\ pages' = Append(pages, NewPage(u, p)) /\ p \in DOMAIN problems
      /\ UNCHANGED <<epoch, replaced>>
  BY DEF PostSubmission
<1>3. UNCHANGED <<task, res, cases>> /\ pc' = (IF pc = "Waiting" THEN "Check" ELSE pc)
  BY <1>1, <1>2, SubmitEffect DEF locals
<1> DEFINE g == NewPage(u, p)
           n == Len(pages) + 1
<1>4. g.id = next_id_ /\ g.problem_id = p /\ g.since = replaced[p]
  BY DEF NewPage
<1>5. /\ DOMAIN pages' = DOMAIN pages \cup {n}
      /\ \A i \in DOMAIN pages : pages'[i] = pages[i]
      /\ pages'[n] = g
  BY <1>1, <1>2, AppendElement DEF PagesTyped
<1> HIDE DEF g, n
<1>6. PagesSince'
  <2>1. p \in DOMAIN replaced
    BY <1>1, <1>2 DEF Replacements, StoreP!TypeOK
  <2>2. replaced[p] \in Nat
    BY <1>1, <2>1 DEF Replacements
  <2>3. g.problem_id \in DOMAIN replaced /\ g.since \in Nat /\ g.since <= replaced[g.problem_id]
    BY <1>4, <2>1, <2>2
  <2> QED BY <1>1, <1>2, <1>5, <2>3 DEF PagesSince, Pages
<1>7. OneProblem'
  BY <1>1, <1>3 DEF OneProblem, Busy, Judging
<1>8. JudgedOnCurrentCases'
  <2> SUFFICES ASSUME pc' = "RunCase"
               PROVE  (CasesCurrent(cases, task) /\ ArraysInOrder(cases))'
    BY DEF JudgedOnCurrentCases, CasesCurrent, ArraysInOrder
  <2>1. pc = "RunCase" /\ Busy
    BY <1>3 DEF Busy, Judging
  <2>2. task.id # next_id_
    <3>1. task.id = next_id_ - Len(queue_) - 1
      BY <1>1, <2>1 DEF InOrder, FirstPending, Taken
    <3>2. Len(queue_) \in Nat /\ next_id_ \in Nat
      BY <1>1 DEF QueueTyped
    <3> QED BY <3>1, <3>2
  <2>3. \A i \in PageOf(task.id)' : i \in PageOf(task.id) /\ pages'[i] = pages[i]
    BY <1>2, <1>3, <1>4, <1>5, <2>2 DEF PageOf, Pages
  <2>4. CasesCurrent(cases, task) /\ ArraysInOrder(cases)
    BY <2>1, Judged DEF CurrentInv
  <2> QED BY <1>3, <2>3, <2>4 DEF CasesCurrent, ArraysInOrder
<1> QED BY <1>6, <1>7, <1>8

LEMMA PollKeepsCurrent ==
  ASSUME CurrentInv, NEW i \in Pages, Poll(i)
  PROVE  PagesSince' /\ OneProblem' /\ JudgedOnCurrentCases'
<1>1. OneProblem /\ PagesTyped /\ PagesSince
  BY DEF CurrentInv, SystemInv, PageInv
<1>2. UNCHANGED <<vars, epoch, replaced>>
  BY DEF Poll
<1>3. UNCHANGED <<task, res, cases, pc>>
  BY <1>2 DEF vars, locals
<1>4. PICK what, record : Show(i, what, record)
  BY DEF Poll
<1>5. DOMAIN pages' = DOMAIN pages
      /\ \A k \in DOMAIN pages : /\ pages'[k].id = pages[k].id /\ pages'[k].epoch = pages[k].epoch
                                 /\ pages'[k].since = pages[k].since
                                 /\ pages'[k].problem_id = pages[k].problem_id
  BY <1>1, <1>4 DEF Show, PagesTyped, PageFields, Pages
<1>6. PagesSince'
  BY <1>1, <1>2, <1>5 DEF PagesSince, Pages
<1>7. OneProblem'
  BY <1>1, <1>3 DEF OneProblem, Busy, Judging
<1>8. PageOf(task.id)' = PageOf(task.id)
  BY <1>2, <1>3, <1>5 DEF PageOf, Pages
<1>9. JudgedOnCurrentCases'
  <2>1. pc = "RunCase" => CasesCurrent(cases, task)' /\ ArraysInOrder(cases)'
    BY <1>3, <1>5, <1>8, Judged DEF CurrentInv, CasesCurrent, ArraysInOrder, PageOf, Pages
  <2> QED BY <1>3, <2>1 DEF JudgedOnCurrentCases, CasesCurrent, ArraysInOrder
<1> QED BY <1>6, <1>7, <1>9

LEMMA RestartKeepsCurrent ==
  ASSUME CurrentInv, Restart
  PROVE  PagesSince' /\ OneProblem' /\ JudgedOnCurrentCases'
<1>1. pc' = "Start" /\ UNCHANGED <<pages, replaced>>
  BY DEF Restart
<1>2. ~Busy'
  BY <1>1 DEF Busy, Judging
<1> QED BY <1>1, <1>2 DEF CurrentInv, PagesSince, Pages, OneProblem, JudgedOnCurrentCases

\* The administrator's requests, and steps of nobody.
LEMMA OthersKeepCurrent ==
  ASSUME CurrentInv, UNCHANGED <<vars, pages, epoch>>, DOMAIN replaced \subseteq DOMAIN replaced',
         \A p \in DOMAIN replaced : replaced'[p] >= replaced[p], Replacements'
  PROVE  PagesSince' /\ OneProblem' /\ JudgedOnCurrentCases'
<1>1. UNCHANGED <<task, res, cases, pc>>
  BY DEF vars, locals
<1>2. PagesSince'
  <2>1. ASSUME NEW k \in Pages
        PROVE  /\ pages[k].problem_id \in DOMAIN replaced' /\ pages[k].since \in Nat
               /\ pages[k].since <= replaced'[pages[k].problem_id]
    <3> DEFINE q == pages[k].problem_id
    <3>1. q \in DOMAIN replaced /\ pages[k].since \in Nat /\ pages[k].since <= replaced[q]
      BY DEF CurrentInv, PagesSince
    <3>2. q \in DOMAIN replaced' /\ replaced[q] \in Nat /\ replaced'[q] \in Nat
      <4>1. replaced \in Seq(Nat) /\ replaced' \in Seq(Nat)
        BY DEF CurrentInv, TablesInv, Replacements
      <4>2. q \in DOMAIN replaced'
        BY <3>1
      <4> HIDE DEF q
      <4> QED BY <3>1, <4>1, <4>2
    <3>3. replaced'[q] >= replaced[q]
      BY <3>1
    <3> HIDE DEF q
    <3>4. pages[k].since <= replaced'[q]
      BY <3>1, <3>2, <3>3
    <3> QED BY <3>1, <3>2, <3>4 DEF q
  <2> QED BY <2>1 DEF PagesSince, Pages
<1>3. OneProblem'
  BY <1>1 DEF CurrentInv, OneProblem, Busy, Judging
<1>4. JudgedOnCurrentCases'
  BY <1>1 DEF CurrentInv, JudgedOnCurrentCases, PageOf, Pages
<1> QED BY <1>2, <1>3, <1>4

LEMMA CurrentStep == CurrentInv /\ [SystemNext]_sysvars => CurrentInv'
<1> SUFFICES ASSUME CurrentInv, [SystemNext]_sysvars PROVE CurrentInv'
  OBVIOUS
<1>1. SystemInv' /\ TablesInv
  BY SystemInvStep DEF CurrentInv
<1>2. \A p \in DOMAIN replaced : replaced[p] >= replaced[p]
  BY <1>1 DEF TablesInv, Replacements
<1>3. CASE Worker
  <2>1. TablesInv'
    BY <1>1, <1>3, OthersKeepTables DEF Worker
  <2> QED BY <1>1, <1>3, <2>1, WorkerKeepsCurrent DEF CurrentInv
<1>4. CASE AdminRequest
  <2>1. TablesInv' /\ UNCHANGED <<vars, pages, epoch, replaced>>
    BY <1>1, <1>4, BeginKeepsTables DEF AdminRequest
  <2>2. Replacements'
    BY <2>1 DEF TablesInv
  <2> QED BY <1>1, <1>2, <2>1, <2>2, OthersKeepCurrent DEF CurrentInv
<1>5. CASE AdminStatement
  <2>1. /\ TablesInv' /\ UNCHANGED <<vars, pages, epoch>>
        /\ DOMAIN replaced \subseteq DOMAIN replaced'
        /\ \A p \in DOMAIN replaced : replaced'[p] >= replaced[p]
    BY <1>1, <1>5, StatementKeepsTables DEF AdminStatement
  <2>2. Replacements'
    BY <2>1 DEF TablesInv
  <2> QED BY <1>1, <2>1, <2>2, OthersKeepCurrent DEF CurrentInv
<1>6. ASSUME NEW u \in Users, NEW p \in Problems, NEW c \in Codes, PostSubmission(u, p, c)
      PROVE  CurrentInv'
  <2>1. TablesInv'
    BY <1>1, <1>6, OthersKeepTables DEF PostSubmission
  <2> QED BY <1>1, <1>6, <2>1, PostKeepsCurrent DEF CurrentInv
<1>7. ASSUME NEW i \in Pages, Poll(i) PROVE CurrentInv'
  <2>1. TablesInv'
    BY <1>1, <1>7, OthersKeepTables DEF Poll
  <2> QED BY <1>1, <1>7, <2>1, PollKeepsCurrent DEF CurrentInv
<1>8. CASE Restart
  <2>1. TablesInv'
    BY <1>1, <1>8, OthersKeepTables DEF Restart
  <2> QED BY <1>1, <1>8, <2>1, RestartKeepsCurrent DEF CurrentInv
<1>9. CASE UNCHANGED sysvars
  <2>1. UNCHANGED <<vars, pages, epoch, replaced>>
    BY <1>9 DEF sysvars
  <2>2. TablesInv'
    BY <1>1, <1>9, OthersKeepTables DEF sysvars
  <2>3. Replacements'
    BY <2>2 DEF TablesInv
  <2> QED BY <1>1, <1>2, <2>1, <2>2, <2>3, OthersKeepCurrent DEF CurrentInv
<1> QED BY <1>3, <1>4, <1>5, <1>6, <1>7, <1>8, <1>9 DEF SystemNext, Idle

\* The seeded problem is as if a request had stored it.
LEMMA SeedIsStored == SystemInit => TablesInv
<1> SUFFICES ASSUME SystemInit PROVE TablesInv
  OBVIOUS
<1> DEFINE n == Len(SeedCases)
<1>1. /\ n \in Nat /\ n <= MaxCases /\ DOMAIN SeedCases = 1..n
      /\ \A i \in 1..n : SeedCases[i] \in StoreP!CaseContent
  <2> DEFINE S == StoreP!CaseContent
  <2> HIDE DEF S
  <2>1. SeedCases \in Seq(S) /\ n <= MaxCases
    BY SameConstants DEF S
  <2>2. n \in Nat /\ DOMAIN SeedCases = 1..n /\ \A i \in 1..n : SeedCases[i] \in S
    BY <2>1
  <2> QED BY <2>1, <2>2 DEF S
<1> HIDE DEF n
<1>2. /\ problems = <<[judge_type |-> "exact", req |-> 1]>> /\ test_cases = SeedRows
      /\ next_pid = 2 /\ reqs = 1 /\ op = "none" /\ at = "free" /\ pid = 0 /\ type = "exact"
      /\ body = StoreP!NoArray /\ next_order = 1 /\ reply = 200
      /\ before = [problems |-> problems, test_cases |-> test_cases] /\ replaced = <<1>>
  BY SameConstants DEF SystemInit, SeedProblems
<1>3. DOMAIN problems = {1} /\ problems[1] = [judge_type |-> "exact", req |-> 1]
  BY <1>2
<1>4. MaxRequests \in Nat \ {0}
  BY StoreAssumption
<1>5. \A c \in test_cases : \E i \in 1..n :
        /\ c = [problem_id |-> 1, order_no |-> i, content |-> SeedCases[i], req |-> 1, nth |-> i,
                of |-> n]
        /\ SeedCases[i] \in StoreP!CaseContent
  BY <1>1, <1>2 DEF SeedRows, n
<1>6. \A i \in 1..n : \E c \in test_cases : c.problem_id = 1 /\ c.order_no = i /\ c.nth = i /\ c.req = 1
  <2>1. ASSUME NEW i \in 1..n
        PROVE  [problem_id |-> 1, order_no |-> i, content |-> SeedCases[i], req |-> 1, nth |-> i,
                of |-> n] \in test_cases
    BY <1>1, <1>2 DEF SeedRows, n
  <2> QED BY <2>1
<1>7. \A c \in test_cases : /\ c.problem_id = 1 /\ c.order_no \in 1..n /\ c.nth = c.order_no
                            /\ c.of = n /\ c.req = 1
  BY <1>5
<1>8. StoreP!TypeOK
  <2>1. test_cases \subseteq [problem_id : 1..1, order_no : Nat \ {0},
                              content : StoreP!CaseContent, req : 1..1, nth : Nat, of : Nat]
    BY <1>1, <1>5
  <2> QED BY <1>2, <1>3, <1>4, <2>1 DEF StoreP!TypeOK, StoreP!Ops, StoreP!Statements
<1>9. StoreP!Stored
  <2>1. \E k \in Nat : StoreP!OrderNos(1) = 1..k
    <3>1. StoreP!OrderNos(1) = 1..n
      BY <1>6, <1>7 DEF StoreP!OrderNos, StoreP!CasesOf
    <3> QED BY <1>1, <3>1
  <2>2. \A c, d \in test_cases : c.order_no = d.order_no => c = d
    BY <1>5
  <2>3. StoreP!Numbered
    BY <1>3, <1>7, <2>1, <2>2 DEF StoreP!Numbered
  <2>4. StoreP!Blocks
    BY <1>1, <1>6, <1>7 DEF StoreP!Blocks, StoreP!SameArray
  <2> QED BY <2>3, <2>4 DEF StoreP!Stored
<1>10. StoreP!CasesOf(0) = {} /\ StoreP!Had = {} /\ before.test_cases = test_cases
       /\ before.problems = problems
  BY <1>2, <1>7 DEF StoreP!CasesOf, StoreP!Had
<1>11. StoreP!Counted /\ StoreP!Appends /\ StoreP!Checked /\ StoreP!Progress
  BY <1>2 DEF StoreP!Counted, StoreP!Appends, StoreP!Checked, StoreP!Progress
<1>12. StoreP!ReplyTellsEffect
  <2>1. StoreP!SuccessEffect
    BY <1>2 DEF StoreP!SuccessEffect
  <2> QED BY <1>2, <1>10, <2>1 DEF StoreP!ReplyTellsEffect
<1>13. Replacements /\ NoneOlder
  <2>1. replaced \in Seq(Nat) /\ Len(replaced) = 1 /\ replaced[1] = 1 /\ DOMAIN replaced = 1..1
    BY <1>2
  <2> QED BY <1>2, <1>7, <2>1 DEF Replacements, NoneOlder
<1> QED BY <1>8, <1>9, <1>11, <1>12, <1>13 DEF TablesInv, StoreP!IInv

LEMMA CurrentInit == SystemInit => CurrentInv
<1> SUFFICES ASSUME SystemInit PROVE CurrentInv
  OBVIOUS
<1>1. pc = "Start" /\ pages = <<>>
  BY DEF SystemInit, Init
<1>2. PagesSince /\ OneProblem /\ JudgedOnCurrentCases
  BY <1>1 DEF PagesSince, Pages, OneProblem, Busy, Judging, JudgedOnCurrentCases
<1> QED BY <1>2, SystemInvInit, SeedIsStored DEF CurrentInv

LEMMA CurrentInvariance == SystemSpec => []CurrentInv
BY CurrentInit, CurrentStep, PTL DEF SystemSpec

(***************************************************************************)
(* A submission made after a replacement of the cases was confirmed is     *)
(* never judged on older ones, and is judged on whole arrays in their      *)
(* order, although the worker reads the tables between the statements of   *)
(* the administrator's requests, any of which may fail or be the last one  *)
(* before the process is killed.                                           *)
(***************************************************************************)
THEOREM JudgedOnCurrent == SystemSpec => []JudgedOnCurrentCases
<1>1. CurrentInv => JudgedOnCurrentCases
  BY DEF CurrentInv
<1> QED BY <1>1, CurrentInvariance, PTL

(***************************************************************************)
(* The tables that the running system reads and writes, through any number *)
(* of restarts, hold cases numbered without a gap, in whole arrays, and    *)
(* every answer of the administrator's handlers tells what was done.       *)
(***************************************************************************)
THEOREM TablesStayWhole ==
  SystemSpec => [](Store!CasesNumbered /\ Store!ArraysWhole /\ Store!ReplyTellsEffect)
<1>1. StoreP!IInv => StoreP!CasesNumbered /\ StoreP!ArraysWhole /\ StoreP!ReplyTellsEffect
  BY SameConstants, StoreP!AllNumbers, StoreP!AllWhole DEF StoreP!IInv
<1>2. StoreP!CasesNumbered => Store!CasesNumbered
  <2> SUFFICES ASSUME StoreP!CasesNumbered, NEW p \in DOMAIN problems
               PROVE  {c.order_no : c \in Store!CasesOf(p)}
                        = 1..Store!Cardinality(Store!CasesOf(p))
    BY DEF Store!CasesNumbered, StoreP!CasesNumbered
  <2>1. Store!CasesOf(p) = StoreP!CasesOf(p)
    BY SameCases
  <2>2. {c.order_no : c \in StoreP!CasesOf(p)} = 1..StoreP!Cardinality(StoreP!CasesOf(p))
    BY DEF StoreP!CasesNumbered
  <2> QED BY <2>1, <2>2, SameCardinality
<1>3. StoreP!ArraysWhole => Store!ArraysWhole
  BY DEF Store!ArraysWhole, StoreP!ArraysWhole, Store!CasesOf, StoreP!CasesOf
<1>4. StoreP!ReplyTellsEffect => Store!ReplyTellsEffect
  <2>1. /\ Store!Had = StoreP!Had /\ Store!New = StoreP!New /\ Store!Total = StoreP!Total
        /\ Store!Row(type) = StoreP!Row(type) /\ (Store!HasArray <=> StoreP!HasArray)
    BY DEF Store!Row, StoreP!Row, Store!New, StoreP!New, Store!Had, StoreP!Had, Store!Total,
           StoreP!Total, Store!HasArray, StoreP!HasArray, Store!NoArray, StoreP!NoArray,
           Store!CasesOf, StoreP!CasesOf
  <2>2. Store!CasesOf(pid) = StoreP!CasesOf(pid)
    BY SameCases
  <2>3. StoreP!SuccessEffect => Store!SuccessEffect
    BY <2>1, <2>2, SameCardinality DEF Store!SuccessEffect, StoreP!SuccessEffect
  <2>4. StoreP!FailureEffect => Store!FailureEffect
    BY <2>1, <2>2, SameCardinality DEF Store!FailureEffect, StoreP!FailureEffect
  <2>5. StoreP!RefusalEffect => Store!RefusalEffect
    BY <2>1, <2>2 DEF Store!RefusalEffect, StoreP!RefusalEffect
  <2> QED BY <2>1, <2>2, <2>3, <2>4, <2>5 DEF Store!ReplyTellsEffect, StoreP!ReplyTellsEffect
<1>5. CurrentInv => StoreP!IInv
  BY DEF CurrentInv, TablesInv
<1> QED BY <1>1, <1>2, <1>3, <1>4, <1>5, CurrentInvariance, PTL
================================================================================
