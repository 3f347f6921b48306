---------------------------- MODULE MCJudgeService -----------------------------
(***************************************************************************)
(* Small instances of JudgeService.  Texts are over the alphabet {x, NL};  *)
(* a test case expects <<"x">> or, for case 2 of a special problem, has no *)
(* stored answer.                                                          *)
(***************************************************************************)
EXTENDS JudgeService

CONSTANTS u1, u2, p1, p2

Run(kind, exit, sig, oom, out, cpu) ==
  [kind |-> kind, exit_status |-> exit, signal_no |-> sig, oom_hint |-> oom,
   output |-> out, cpu_ms |-> cpu]

Right      == Run("kFinished", 0, "none", FALSE, <<"x", NL>>, 1)
SlowRight  == Run("kFinished", 0, "none", FALSE, <<"x">>, 2)
Wrong      == Run("kFinished", 0, "none", FALSE, <<NL>>, 1)
ExitOne    == Run("kFinished", 1, "none", FALSE, <<"x">>, 1)
WallLimit  == Run("kTimedOut", 0, "none", FALSE, <<>>, 2)
CpuLimit   == Run("kCrash", 0, "SIGXCPU", FALSE, <<>>, 2)
NoMemory   == Run("kCrash", 0, "SIGABRT", TRUE, <<"x">>, 1)
BadAccess  == Run("kCrash", 0, "SIGSEGV", FALSE, <<>>, 1)
Forbidden  == Run("kCrash", 0, "SIGSYS", TRUE, <<>>, 1)
TooMuch    == Run("kOutputLimit", 0, "none", FALSE, <<"x", "x">>, 1)
NoProcess  == Run("kError", 0, "none", FALSE, <<>>, 0)

AllRuns == {Right, SlowRight, Wrong, ExitOne, WallLimit, CpuLimit, NoMemory, BadAccess,
            Forbidden, TooMuch, NoProcess}
FewRuns == {Right, Wrong, NoProcess}
AllSpjRuns == {Right, ExitOne, WallLimit}
FewSpjRuns == {Right, WallLimit}

CaseNo(n) == [order_no |-> n, expected |-> <<"x">>]
OpenCase(n) == [order_no |-> n, expected |-> <<>>]

MCCaseLists  == {<<>>, <<CaseNo(1)>>, <<CaseNo(1), CaseNo(3)>>, <<CaseNo(2), OpenCase(3)>>}
FewCaseLists == {<<>>, <<CaseNo(1)>>, <<CaseNo(1), CaseNo(2)>>}
OneCaseList  == {<<CaseNo(1)>>}
================================================================================
