---------------------------- MODULE Sandbox_proofs ----------------------------
(***************************************************************************)
(* Theorems about Sandbox, for any size of the pipes, of the buffer and of *)
(* the input and any limits.  IInv adds to the properties the conservation *)
(* of the program's output (Bytes) and what the calling thread has opened, *)
(* started and collected when it comes to its next step (Phase).           *)
(***************************************************************************)
EXTENDS Sandbox, TLAPS

Started == {"setup", "running", "zombie"}

\* No byte of the output is lost or invented on its way from the program to the
\* caller, and the loop has ended for one of two reasons: the limit, or the end of
\* the output.
Bytes ==
  /\ got + outq = emitted
  /\ limit_hit <=> got > MaxOut
  /\ got <= MaxOut + ReadBuf
  /\ pc \in {"Pipe", "Fork", "Read"} => ~limit_hit
  /\ pc # "Read" /\ ~limit_hit => outq = 0 /\ ~child_out
  /\ pc = "Return" => /\ kind \in {"kFinished", "kCrash"} => ~limit_hit
                      /\ kind = "kOutputLimit" => limit_hit

WriterEnd == IF writer = "writing" THEN {"in_w"} ELSE {}

Phase ==
  /\ pc = "Pipe" => child = "none" /\ writer = "none" /\ fds = {}
  /\ pc = "Fork" => child = "none" /\ writer = "none" /\ fds = AllFds
  /\ pc = "Read" =>
       child \in Started /\ writer \in {"writing", "done"} /\ fds = {"out_r"} \cup WriterEnd
  /\ pc = "Join" =>
       child \in Started /\ writer \in {"writing", "done"} /\ fds = WriterEnd
  /\ pc \in {"Poll", "Deadline", "WaitKilled"} =>
       child \in Started /\ writer = "done" /\ fds = {}

IInv == TypeOK /\ Bytes /\ Phase /\ Released

\* The invariant holds when RunCommand is called.
LEMMA Initial == Init => IInv
<1> SUFFICES ASSUME Init PROVE IInv
  OBVIOUS
<1>1. TypeOK
  <2>1. {child_in, child_out, stubborn, killed, setup_failed, limit_hit, late} \subseteq BOOLEAN
    BY Zenon DEF Init
  <2> QED BY <2>1, SandboxAssumption DEF Init, TypeOK
<1>2. Bytes
  BY SandboxAssumption DEF Init, Bytes
<1>3. Phase /\ Released
  BY DEF Init, Phase, Released
<1> QED BY <1>1, <1>2, <1>3 DEF IInv

\* One read takes at least one byte and at most a buffer.
LEMMA ReadSome ==
  ASSUME NEW n \in Nat, n > 0
  PROVE  ReadCount(n) \in 1..n /\ ReadCount(n) <= ReadBuf
BY SandboxAssumption DEF ReadCount

\* pipe() succeeds twice, or the call fails and opens nothing (or the first pair).
LEMMA PipesStep ==
  ASSUME IInv, Pipes
  PROVE  IInv'
BY SandboxAssumption, ReadSome DEF Pipes, pipes, prog, outcome, IInv, TypeOK, Bytes, Phase, Released,
   Started, WriterEnd, AllFds

\* fork fails and both pipes are closed.
LEMMA ForkFailsStep ==
  ASSUME IInv, ForkFails
  PROVE  IInv'
BY DEF ForkFails, pipes, prog, IInv, TypeOK, Bytes, Phase, Released

\* The child and the writer thread start with the ends of the pipes that are theirs.
LEMMA ForkStep ==
  ASSUME IInv, Fork
  PROVE  IInv'
BY DEF Fork, pipes, outcome, IInv, TypeOK, Bytes, Phase, Released, Started, WriterEnd,
   AllFds

\* A read moves bytes from the pipe to the caller; what goes over the limit ends the loop.
LEMMA ReadDataStep ==
  ASSUME IInv, ReadData
  PROVE  IInv'
<1>0. Alive \in BOOLEAN /\ outq > 0 /\ ReadCount(outq) \in 1..outq /\ ReadCount(outq) <= ReadBuf
  BY ReadSome DEF IInv, TypeOK, Alive, ReadData
<1>1. TypeOK'
  <2>1. limit_hit' \in BOOLEAN /\ killed' \in BOOLEAN /\ pc' \in {"Read", "Join"} /\ fds' \subseteq fds
    <3>1. CASE OverLimit(got + ReadCount(outq))
      BY <1>0, <3>1 DEF ReadData, MayRead, Kill
    <3>2. CASE ~OverLimit(got + ReadCount(outq))
      BY <1>0, <3>2 DEF ReadData, MayRead, IInv, TypeOK
    <3> QED BY <3>1, <3>2
  <2>2. got' = got + ReadCount(outq) /\ outq' = outq - ReadCount(outq)
    BY DEF ReadData
  <2> QED BY <1>0, <2>1, <2>2, SandboxAssumption DEF IInv, TypeOK, Bytes, ReadData, prog, outcome
<1>2. Bytes'
  BY <1>0, SandboxAssumption DEF IInv, TypeOK, Bytes, ReadData, MayRead, OverLimit, Kill, prog, pipes, outcome
<1>3. Phase'
  BY DEF IInv, TypeOK, Phase, Started, WriterEnd, ReadData, MayRead, OverLimit, Kill, prog, pipes, outcome
<1>4. Released'
  BY DEF IInv, Phase, Released, Started, ReadData, MayRead, OverLimit, Kill, prog, pipes, outcome
<1> QED BY <1>1, <1>2, <1>3, <1>4 DEF IInv

\* End of file: nobody can write any more and the pipe is empty, so nothing is missing.
LEMMA ReadEofStep ==
  ASSUME IInv, ReadEof
  PROVE  IInv'
BY DEF ReadEof, MayRead, pipes, prog, outcome, IInv, TypeOK, Bytes, Phase, Released,
   WriterEnd

\* The writer thread has closed its end, the last one that was open.
LEMMA JoinStep ==
  ASSUME IInv, JoinWriter
  PROVE  IInv'
BY DEF JoinWriter, pipes, prog, outcome, IInv, TypeOK, Bytes, Phase, Released, WriterEnd

\* The child is collected, and how it ended decides the result.
LEMMA PollReapStep ==
  ASSUME IInv, PollReap
  PROVE  IInv'
BY DEF PollReap, pipes, prog, IInv, TypeOK, Bytes, Phase, Released

\* The deadline loop turns without collecting the child.
LEMMA PollStep ==
  ASSUME IInv, PollMiss \/ NotYet \/ TooLate
  PROVE  IInv'
<1>0. Alive \in BOOLEAN
  BY DEF Alive
<1>1. TypeOK'
  BY <1>0, SandboxAssumption DEF IInv, TypeOK, Bytes, PollMiss, NotYet, TooLate, Kill, prog, pipes, outcome
<1>2. Bytes'
  BY SandboxAssumption DEF IInv, TypeOK, Bytes, PollMiss, NotYet, TooLate, Kill, prog, pipes, outcome
<1>3. Phase'
  BY DEF IInv, TypeOK, Phase, Started, WriterEnd, PollMiss, NotYet, TooLate, Kill, prog, pipes, outcome
<1>4. Released'
  BY DEF IInv, Phase, Released, Started, PollMiss, NotYet, TooLate, Kill, prog, pipes, outcome
<1> QED BY <1>1, <1>2, <1>3, <1>4 DEF IInv

\* The child that was killed is collected.
LEMMA WaitKilledStep ==
  ASSUME IInv, WaitKilled
  PROVE  IInv'
BY DEF WaitKilled, pipes, prog, IInv, TypeOK, Bytes, Phase, Released

\* The writer thread writes to the child.
LEMMA FeedStep ==
  ASSUME IInv, Feed
  PROVE  IInv'
BY SandboxAssumption DEF Feed, prog, outcome, IInv, TypeOK, Bytes, Phase, Released,
   WriterEnd

\* The writer thread closes its end of the pipe.
LEMMA FeedEndsStep ==
  ASSUME IInv, FeedEnds
  PROVE  IInv'
BY DEF FeedEnds, pipes, prog, outcome, IInv, TypeOK, Bytes, Phase, Released, WriterEnd

\* The child executes the program, or leaves because its preparation failed.
LEMMA SetupStep ==
  ASSUME IInv, Setup
  PROVE  IInv'
<1>1. TypeOK'
  <2>1. /\ UNCHANGED <<pc, writer, fds, cpu, stubborn, limit_hit, late, kind>>
        /\ UNCHANGED <<inq, outq, fed, emitted, got>>
    BY DEF Setup, pipes, outcome
  <2>2. child' \in {"running", "zombie"} /\ want' \in {want, "none"}
    BY DEF Setup, Die
  <2>3. {child_in', child_out', killed', setup_failed'}
          \subseteq {child_in, child_out, killed, setup_failed} \cup BOOLEAN
    BY DEF Setup, Die
  <2>4. TypeOK
    BY DEF IInv
  <2> QED BY <2>1, <2>2, <2>3, <2>4 DEF TypeOK
<1>2. Bytes'
  BY SandboxAssumption DEF IInv, TypeOK, Bytes, Setup, Die, pipes, outcome
<1>3. Phase'
  BY DEF IInv, TypeOK, Phase, Started, WriterEnd, Setup, Die, pipes, outcome
<1>4. Released'
  BY DEF IInv, Phase, Released, Started, Setup, Die, pipes, outcome
<1> QED BY <1>1, <1>2, <1>3, <1>4 DEF IInv

\* What the program does by itself moves no byte.
LEMMA ChooseStep ==
  ASSUME IInv, Choose \/ WakeUp \/ Compute
  PROVE  IInv'
<1>1. TypeOK'
  BY SandboxAssumption DEF IInv, TypeOK, Bytes, Choose, WakeUp, Compute, Tick, prog, pipes, outcome
<1>2. Bytes'
  BY SandboxAssumption DEF IInv, TypeOK, Bytes, Choose, WakeUp, Compute, Tick, prog, pipes, outcome
<1>3. Phase'
  BY DEF IInv, TypeOK, Phase, Started, WriterEnd, Choose, WakeUp, Compute, Tick, prog, pipes, outcome
<1>4. Released'
  BY DEF IInv, Phase, Released, Started, Choose, WakeUp, Compute, Tick, prog, pipes, outcome
<1> QED BY <1>1, <1>2, <1>3, <1>4 DEF IInv

\* The program reads its input.
LEMMA ReadStep ==
  ASSUME IInv, Read
  PROVE  IInv'
BY SandboxAssumption DEF Read, Tick, outcome, IInv, TypeOK, Bytes, Phase, Released,
   WriterEnd

\* The program writes: the pipe and the count of what was written grow alike.
LEMMA WriteStep ==
  ASSUME IInv, Write
  PROVE  IInv'
BY SandboxAssumption DEF Write, Tick, outcome, IInv, TypeOK, Bytes, Phase, Released,
   WriterEnd

\* The child ends, by itself or by a signal; what it wrote stays in the pipe.
LEMMA DeathStep ==
  ASSUME IInv, BrokenPipe \/ End \/ DeliverKill \/ CpuSignal
  PROVE  IInv'
<1>0. /\ child \in {"setup", "running"} /\ child' = "zombie"
      /\ child_in' = FALSE /\ child_out' = FALSE /\ want' = "none" /\ killed' = FALSE
      /\ UNCHANGED <<pc, writer, fds, cpu, stubborn, pipes, setup_failed, limit_hit, late, outcome>>
  BY DEF BrokenPipe, End, DeliverKill, CpuSignal, Die, Alive
<1>1. TypeOK'
  BY <1>0 DEF IInv, TypeOK, Bytes, pipes, outcome
<1>2. Bytes'
  BY <1>0 DEF IInv, TypeOK, Bytes, pipes, outcome
<1>3. Phase'
  BY <1>0 DEF IInv, TypeOK, Phase, Started, WriterEnd, pipes, outcome
<1>4. Released'
  BY <1>0 DEF IInv, Phase, Released, Started, pipes, outcome
<1> QED BY <1>1, <1>2, <1>3, <1>4 DEF IInv

\* The program closes one of its streams.
LEMMA CloseStep ==
  ASSUME IInv, CloseStream
  PROVE  IInv'
<1>1. TypeOK'
  <2>1. child_in' \in BOOLEAN /\ child_out' \in BOOLEAN
    BY Zenon DEF IInv, TypeOK, CloseStream
  <2> QED BY <2>1, SandboxAssumption DEF IInv, TypeOK, CloseStream, outcome
<1>2. Bytes'
  BY SandboxAssumption DEF IInv, TypeOK, Bytes, CloseStream, prog, pipes, outcome
<1>3. Phase'
  BY DEF IInv, TypeOK, Phase, Started, WriterEnd, CloseStream, prog, pipes, outcome
<1>4. Released'
  BY DEF IInv, Phase, Released, Started, CloseStream, prog, pipes, outcome
<1> QED BY <1>1, <1>2, <1>3, <1>4 DEF IInv

\* The clock passes the deadline.
LEMMA LateStep ==
  ASSUME IInv, DeadlinePasses
  PROVE  IInv'
BY DEF DeadlinePasses, pipes, prog, outcome, IInv, TypeOK, Bytes, Phase, Released

\* A step of something else.
LEMMA StutterStep ==
  ASSUME IInv, UNCHANGED vars
  PROVE  IInv'
BY DEF vars, pipes, prog, outcome, IInv, TypeOK, Bytes, Phase, Released, WriterEnd

\* IInv is inductive.
LEMMA Inductive == IInv /\ [Next]_vars => IInv'
BY PipesStep, ForkFailsStep, ForkStep, ReadDataStep, ReadEofStep, JoinStep, PollReapStep, PollStep,
   WaitKilledStep, FeedStep, FeedEndsStep, SetupStep, ChooseStep, ReadStep, WriteStep, DeathStep,
   CloseStep, LateStep, StutterStep
   DEF Next, Caller, Writer, Program, Kernel, Returned

\* IInv holds in every state.
LEMMA Invariance == Spec => []IInv
BY Initial, Inductive, PTL DEF Spec

\* Every variable keeps its type; in particular a pipe never holds more than it can,
\* and the caller never has more output than the program has written.
THEOREM TypeCorrect == Spec => []TypeOK
<1>1. IInv => TypeOK
  BY DEF IInv
<1> QED BY <1>1, Invariance, PTL

\* When RunCommand (sandbox.cpp) returns, the child has been reaped, the writer thread
\* has ended and the pipe ends are closed, except after the failure of the second
\* pipe().
THEOREM NothingLeft == Spec => []Released
<1>1. IInv => Released
  BY DEF IInv
<1> QED BY <1>1, Invariance, PTL

\* The output handed to the comparison is all of what the program wrote and within the
\* limit; only a run whose output exceeded the limit is given up for it; and the
\* server never holds more than one buffer beyond the limit (sandbox.cpp).
THEOREM OutputsComplete == Spec => []OutputComplete
<1>1. IInv => OutputComplete
  BY SandboxAssumption DEF IInv, TypeOK, Bytes, OutputComplete
<1> QED BY <1>1, Invariance, PTL
================================================================================
