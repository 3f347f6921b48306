--------------------------- MODULE SubmissionService ---------------------------
(***************************************************************************)
(* What the judging service promises to the HTTP handlers, with no queue,  *)
(* no worker and no placeholder: submissions are numbered 1, 2, 3, ... in  *)
(* the order they are accepted, each receives exactly one verdict, the     *)
(* verdicts arrive in the same order, and the service closes only when     *)
(* every accepted submission has its verdict.  JudgeService implements     *)
(* this specification.                                                     *)
(***************************************************************************)
EXTENDS Naturals, Sequences

CONSTANTS Users,      \* user ids (sessions.user_id)
          Problems,   \* problem ids
          Verdicts    \* the 7 final statuses

VARIABLES log,        \* log[id]: who submitted id, and to which problem
          verdicts,   \* verdicts[id]: the final status of submission id
          open        \* the service object exists

vars == <<log, verdicts, open>>

Entry == [user_id : Users, problem_id : Problems]

TypeOK ==
  /\ log \in Seq(Entry)
  /\ verdicts \in Seq(Verdicts)
  /\ open \in BOOLEAN

Init ==
  /\ log = <<>>
  /\ verdicts = <<>>
  /\ open = TRUE

Accept(e) ==
  /\ open
  /\ log' = Append(log, e)
  /\ UNCHANGED <<verdicts, open>>

\* Only the oldest submission without a verdict can receive one.
Judge(v) ==
  /\ open
  /\ Len(verdicts) < Len(log)
  /\ verdicts' = Append(verdicts, v)
  /\ UNCHANGED <<log, open>>

Close ==
  /\ open
  /\ Len(verdicts) = Len(log)
  /\ open' = FALSE
  /\ UNCHANGED <<log, verdicts>>

Next ==
  \/ \E e \in Entry : Accept(e)
  \/ \E v \in Verdicts : Judge(v)
  \/ Close

Spec == Init /\ [][Next]_vars
================================================================================
