----------------------------- MODULE MCJudgeSystem -----------------------------
(* One seeded problem with two cases; its programs are right.               *)
EXTENDS JudgeSystem

CONSTANTS u1, u2

Run(kind, out) ==
  [kind |-> kind, exit_status |-> 0, signal_no |-> "none", oom_hint |-> FALSE,
   output |-> out, cpu_ms |-> 1]

MCRuns      == {Run("kFinished", <<"x">>)}
MCSpjRuns   == {Run("kFinished", <<>>)}
MCCaseLists == {<<>>}
MCSeed      == <<"small", "small">>
MCBodies    == {<<"small">>}
================================================================================
