-------------------------------- MODULE Verdict --------------------------------
(***************************************************************************)
(* The pure part of judging: how one sandboxed run (RunResult of           *)
(* sandbox.h) becomes the status of one test case.  ClassifyRun of         *)
(* judge_service.cpp decides on abnormal ends; a normal end goes to the    *)
(* byte comparison or to the special judge (comparator.cpp).               *)
(*                                                                         *)
(* A text is a sequence over a small alphabet that contains NL.  Whether   *)
(* the output carries a trace of a failed allocation (the three substrings *)
(* of LooksLikeMemoryError) is the field oom_hint.                         *)
(***************************************************************************)
EXTENDS Naturals, Sequences

NL == "nl"

ExitKind == {"kFinished", "kTimedOut", "kOutputLimit", "kCrash", "kError"}
Signal   == {"SIGXCPU", "SIGSYS", "SIGSEGV", "SIGABRT", "SIGKILL", "none"}

CompareResult == {"kMatch", "kMismatch", "kJudgeError"}

CaseStatus == {"AC", "WA", "TLE", "MLE", "RE", "SE"}
Verdicts   == CaseStatus \cup {"CE"}

IsRunResult(r) ==
  /\ DOMAIN r = {"kind", "exit_status", "signal_no", "oom_hint", "output", "cpu_ms"}
  /\ r.kind \in ExitKind
  /\ r.exit_status \in 0..255
  /\ r.signal_no \in Signal
  /\ r.oom_hint \in BOOLEAN
  /\ r.cpu_ms \in Nat

\* A signal that ends the run as a memory failure when the output says so.
MemorySignal == {"SIGSEGV", "SIGABRT"}

\* "compare" stands for the return value false: the run ended normally and the
\* caller compares its output.
ClassifyRun(r) ==
  CASE r.kind = "kError"       -> "SE"
    [] r.kind = "kTimedOut"    -> "TLE"
    [] r.kind = "kOutputLimit" -> "RE"
    [] r.kind = "kCrash"       ->
         IF r.signal_no = "SIGXCPU" THEN "TLE"
         ELSE IF r.signal_no \in MemorySignal /\ r.oom_hint THEN "MLE"
         ELSE "RE"
    [] r.kind = "kFinished"    -> IF r.exit_status # 0 THEN "RE" ELSE "compare"

\* At most one trailing newline is dropped.
StripNewline(s) ==
  IF s # <<>> /\ s[Len(s)] = NL THEN SubSeq(s, 1, Len(s) - 1) ELSE s

CompareExact(user, expected) ==
  IF expected = <<>> \/ StripNewline(user) = StripNewline(expected)
  THEN "kMatch" ELSE "kMismatch"

\* RunSpj after its own RunCommand returned r.
SpjResult(r) ==
  IF r.kind # "kFinished" THEN "kJudgeError"
  ELSE IF r.exit_status = 0 THEN "kMatch" ELSE "kMismatch"

\* The comparison that RunTask makes after a normal end: run is the user's
\* program, spj the run of the special judge (looked at for special problems).
Compare(judge_type, run, expected, spj) ==
  IF judge_type = "special" THEN SpjResult(spj)
  ELSE CompareExact(run.output, expected)

\* The status of one test case, or "abort" when the special judge itself failed
\* and RunTask gives the whole submission up as a system error.
StatusOf(judge_type, run, expected, spj) ==
  LET c == Compare(judge_type, run, expected, spj)
  IN  IF ClassifyRun(run) # "compare" THEN ClassifyRun(run)
      ELSE IF c = "kMatch" THEN "AC"
      ELSE IF c = "kMismatch" THEN "WA"
      ELSE "abort"
================================================================================
