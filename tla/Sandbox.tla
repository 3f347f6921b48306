-------------------------------- MODULE Sandbox --------------------------------
(***************************************************************************)
(* One call of RunCommand (src/judge/sandbox.cpp): the calling thread, the *)
(* thread that feeds the input, the forked child and the kernel.           *)
(*                                                                         *)
(* Bytes are counted, not spelled: a pipe is the number of bytes in it.    *)
(* The child's program is unknown; it chooses each system call and is      *)
(* blocked in it (want) until the kernel can serve it.  Time is the CPU    *)
(* time of the child in ticks and one event, the wall-clock deadline.      *)
(***************************************************************************)
EXTENDS Integers, FiniteSets

CONSTANTS
  PipeCap,      \* bytes a pipe holds
  ReadBuf,      \* kReadBufSize
  InputLen,     \* input.size()
  MaxOut,       \* max_output_bytes
  CpuLimit,     \* cpu_limit_ms, in ticks
  TicksPerSec,  \* RLIMIT_CPU counts seconds
  MaxEmit       \* bound: bytes the program writes in a behaviour

ASSUME SandboxAssumption ==
  /\ PipeCap \in Nat \ {0} /\ ReadBuf \in Nat \ {0} /\ InputLen \in Nat
  /\ MaxOut \in Nat \ {0} /\ CpuLimit \in Nat \ {0} /\ TicksPerSec \in Nat \ {0}
  /\ MaxEmit \in Nat

VARIABLES
  pc,        \* control point of RunCommand
  writer,    \* the input thread: "none", "writing", "done"
  fds,       \* pipe ends the server has open
  child,     \* "none", "setup", "running", "zombie", "reaped"
  want,      \* system call the program is in: "none", "read", "write", "sleep"
  child_in,  \* the child's stdin is open
  child_out, \* the child's stdout (and stderr, its duplicate) is open
  inq, fed,  \* bytes in the input pipe; bytes fed so far
  outq,      \* bytes in the output pipe
  emitted,   \* bytes the program has written
  got,       \* out.size()
  cpu,       \* CPU ticks the program has used
  stubborn,  \* the program ignores SIGXCPU
  killed,    \* SIGKILL was sent and not yet delivered
  ending,    \* how the child ended: its wait status
  setup_failed, limit_hit, late,
  kind, exit_status, signal_no   \* of the RunResult

pipes == <<inq, fed, outq, emitted, got>>
prog  == <<want, child_in, child_out, cpu, stubborn>>
outcome == <<kind, exit_status, signal_no>>
vars  == <<pc, writer, fds, child, prog, pipes, killed, ending, setup_failed, limit_hit, late,
           outcome>>

AllFds == {"in_r", "in_w", "out_r", "out_w"}
Alive  == child \in {"setup", "running"}
NoEnd  == [by |-> "none", n |-> 0]

TypeOK ==
  /\ pc \in {"Pipe", "Fork", "Read", "Join", "Poll", "Deadline", "WaitKilled", "Return"}
  /\ writer \in {"none", "writing", "done"}
  /\ fds \subseteq AllFds
  /\ child \in {"none", "setup", "running", "zombie", "reaped"}
  /\ want \in {"none", "read", "write", "sleep"}
  /\ {child_in, child_out, stubborn, killed, setup_failed, limit_hit, late} \subseteq BOOLEAN
  /\ inq \in 0..PipeCap /\ outq \in 0..PipeCap
  /\ fed \in 0..InputLen /\ emitted \in 0..MaxEmit
  /\ got \in 0..emitted
  /\ cpu \in Nat
  /\ kind \in {"none", "kFinished", "kTimedOut", "kCrash", "kOutputLimit", "kError"}

Init ==
  /\ pc = "Pipe" /\ writer = "none" /\ fds = {} /\ child = "none"
  /\ want = "none" /\ child_in = FALSE /\ child_out = FALSE /\ cpu = 0 /\ stubborn \in BOOLEAN
  /\ inq = 0 /\ fed = 0 /\ outq = 0 /\ emitted = 0 /\ got = 0
  /\ killed = FALSE /\ ending = NoEnd
  /\ setup_failed = FALSE /\ limit_hit = FALSE /\ late = FALSE
  /\ kind = "none" /\ exit_status = 0 /\ signal_no = "none"

--------------------------------------------------------------------------------
\* The child ends: the kernel closes its ends of the pipes; what is in the output
\* pipe stays readable.
Die(by, n) ==
  /\ child' = "zombie"
  /\ ending' = [by |-> by, n |-> n]
  /\ child_in' = FALSE /\ child_out' = FALSE /\ want' = "none" /\ killed' = FALSE

\* kill(pid, SIGKILL) has an effect on a live child only; a zombie ignores it.
Kill == killed' = Alive

--------------------------------------------------------------------------------
\* The calling thread

\* pipe() || pipe(): when the second one fails the first pair stays open.
Pipes ==
  /\ pc = "Pipe"
  /\ \/ /\ fds' = AllFds /\ pc' = "Fork" /\ UNCHANGED kind
     \/ /\ fds' \in {{}, {"in_r", "in_w"}}
        /\ pc' = "Return" /\ kind' = "kError"
  /\ UNCHANGED <<writer, child, prog, pipes, killed, ending, setup_failed, limit_hit, late,
                 exit_status, signal_no>>

ForkFails ==
  /\ pc = "Fork"
  /\ fds' = {} /\ pc' = "Return" /\ kind' = "kError"
  /\ UNCHANGED <<writer, child, prog, pipes, killed, ending, setup_failed, limit_hit, late,
                 exit_status, signal_no>>

\* fork, close the child's ends, start the writer thread.
Fork ==
  /\ pc = "Fork"
  /\ child' = "setup" /\ child_in' = TRUE /\ child_out' = TRUE
  /\ fds' = {"in_w", "out_r"}
  /\ writer' = "writing"
  /\ pc' = "Read"
  /\ UNCHANGED <<want, cpu, stubborn, pipes, killed, ending, setup_failed, limit_hit, late,
                 outcome>>

\* The thread that feeds the input runs beside the read loop.  The mutant feeds
\* all of it first.
MayReadAfterFeeding == pc = "Read" /\ writer = "done"
MayRead == pc = "Read"

\* Bytes that one read takes out of a pipe that holds n.  The mutant counts the
\* buffer, not what was read.
ReadWholeBuf(n) == ReadBuf
ReadCount(n) == IF n < ReadBuf THEN n ELSE ReadBuf

\* More than MaxOut bytes end the loop and the child.
OverLimitLoose(n) == n >= MaxOut
OverLimit(n) == n > MaxOut

ReadData ==
  /\ MayRead /\ outq > 0
  /\ LET n == ReadCount(outq)
     IN  /\ got' = got + n
         /\ outq' = outq - n
         /\ IF OverLimit(got + n)
            THEN /\ limit_hit' = TRUE /\ Kill /\ fds' = fds \ {"out_r"} /\ pc' = "Join"
            ELSE UNCHANGED <<limit_hit, killed, fds, pc>>
  /\ UNCHANGED <<writer, child, prog, inq, fed, emitted, ending, setup_failed, late, outcome>>

\* read returns 0: no process has the writing end open.
ReadEof ==
  /\ MayRead /\ outq = 0 /\ ~child_out
  /\ fds' = fds \ {"out_r"}
  /\ pc' = "Join"
  /\ UNCHANGED <<writer, child, prog, pipes, killed, ending, setup_failed, limit_hit, late, outcome>>

\* writer.join(); only now the deadline is set.
JoinWriter ==
  /\ pc = "Join" /\ writer = "done"
  /\ pc' = "Poll"
  /\ UNCHANGED <<writer, fds, child, prog, pipes, killed, ending, setup_failed, limit_hit, late,
                 outcome>>

\* wait4(WNOHANG) returns the child.
PollReap ==
  /\ pc = "Poll" /\ child = "zombie"
  /\ child' = "reaped"
  /\ pc' = "Return"
  /\ IF limit_hit THEN kind' = "kOutputLimit" /\ UNCHANGED <<exit_status, signal_no>>
     ELSE IF ending.by = "exit"
     THEN kind' = "kFinished" /\ exit_status' = ending.n /\ UNCHANGED signal_no
     ELSE kind' = "kCrash" /\ signal_no' = ending.by /\ UNCHANGED exit_status
  /\ UNCHANGED <<writer, fds, prog, pipes, killed, ending, setup_failed, limit_hit, late>>

\* wait4(WNOHANG) returns 0, then the clock is looked at.
PollMiss ==
  /\ pc = "Poll" /\ child # "zombie"
  /\ pc' = "Deadline"
  /\ UNCHANGED <<writer, fds, child, prog, pipes, killed, ending, setup_failed, limit_hit, late,
                 outcome>>

NotYet ==
  /\ pc = "Deadline" /\ ~late
  /\ pc' = "Poll"
  /\ UNCHANGED <<writer, fds, child, prog, pipes, killed, ending, setup_failed, limit_hit, late,
                 outcome>>

\* The child may have ended since wait4 looked.
TooLate ==
  /\ pc = "Deadline" /\ late
  /\ Kill
  /\ pc' = "WaitKilled"
  /\ UNCHANGED <<writer, fds, child, prog, pipes, ending, setup_failed, limit_hit, late, outcome>>

\* The blocking wait4.  The mutant returns without it.
WaitKilledNoReap ==
  /\ pc = "WaitKilled"
  /\ pc' = "Return" /\ kind' = "kTimedOut"
  /\ UNCHANGED <<writer, fds, child, prog, pipes, killed, ending, setup_failed, limit_hit, late,
                 exit_status, signal_no>>
WaitKilled ==
  /\ pc = "WaitKilled" /\ child = "zombie"
  /\ child' = "reaped"
  /\ pc' = "Return" /\ kind' = "kTimedOut"
  /\ UNCHANGED <<writer, fds, prog, pipes, killed, ending, setup_failed, limit_hit, late,
                 exit_status, signal_no>>

Caller ==
  \/ Pipes \/ ForkFails \/ Fork \/ ReadData \/ ReadEof \/ JoinWriter
  \/ PollReap \/ PollMiss \/ NotYet \/ TooLate \/ WaitKilled

--------------------------------------------------------------------------------
\* The writer thread (WriteAll): write blocks on a full pipe, and fails with EPIPE
\* when nobody can read (SIGPIPE is ignored in the server); every end closes in_w.
Feed ==
  /\ writer = "writing" /\ fed < InputLen /\ inq < PipeCap /\ child_in
  /\ inq' = inq + 1 /\ fed' = fed + 1
  /\ UNCHANGED <<pc, writer, fds, child, prog, outq, emitted, got, killed, ending, setup_failed,
                 limit_hit, late, outcome>>

FeedEnds ==
  /\ writer = "writing" /\ (fed = InputLen \/ ~child_in)
  /\ fds' = fds \ {"in_w"}
  /\ writer' = "done"
  /\ UNCHANGED <<pc, child, prog, pipes, killed, ending, setup_failed, limit_hit, late, outcome>>

Writer == Feed \/ FeedEnds

--------------------------------------------------------------------------------
\* The child

\* The child's own part of RunCommand: dup2, chdir, SetupChild, seccomp, execv.
\* A failure of any of them is an _exit with a status of its own.
SetupExit == 124..127

Setup ==
  /\ child = "setup"
  /\ \/ /\ child' = "running"
        /\ UNCHANGED <<want, child_in, child_out, killed, ending, setup_failed>>
     \/ /\ \E n \in SetupExit : Die("exit", n)
        /\ setup_failed' = TRUE
  /\ UNCHANGED <<pc, writer, fds, cpu, stubborn, pipes, limit_hit, late, outcome>>

\* RLIMIT_CPU: whole seconds, rounded up, at least one; the hard limit is one more.
SoftCpu == TicksPerSec * ((CpuLimit + TicksPerSec - 1) \div TicksPerSec)
HardCpu == SoftCpu + TicksPerSec

\* A tick of CPU time; calls that transfer nothing cost one too, so that a program
\* that repeats them meets the limit.
Tick == cpu < HardCpu /\ cpu' = cpu + 1

\* The program decides what to do next.
Choose ==
  /\ child = "running" /\ want = "none"
  /\ want' \in {"read", "write", "sleep"}
  /\ UNCHANGED <<pc, writer, fds, child, child_in, child_out, cpu, stubborn, pipes, killed, ending,
                 setup_failed, limit_hit, late, outcome>>

\* read: data, end of file (no writer is left), or EBADF.
Read ==
  /\ child = "running" /\ want = "read"
  /\ \/ inq > 0 /\ child_in /\ inq' = inq - 1 /\ UNCHANGED cpu
     \/ (~child_in \/ (inq = 0 /\ "in_w" \notin fds)) /\ Tick /\ UNCHANGED inq
  /\ want' = "none"
  /\ UNCHANGED <<pc, writer, fds, child, child_in, child_out, stubborn, fed, outq, emitted,
                 got, killed, ending, setup_failed, limit_hit, late, outcome>>

\* write: into the pipe, or EBADF on a closed stdout.
Write ==
  /\ child = "running" /\ want = "write"
  /\ \/ /\ child_out /\ "out_r" \in fds /\ outq < PipeCap /\ emitted < MaxEmit
        /\ outq' = outq + 1 /\ emitted' = emitted + 1 /\ UNCHANGED cpu
     \/ (~child_out \/ emitted = MaxEmit) /\ Tick /\ UNCHANGED <<outq, emitted>>
  /\ want' = "none"
  /\ UNCHANGED <<pc, writer, fds, child, child_in, child_out, stubborn, inq, fed, got, killed,
                 ending, setup_failed, limit_hit, late, outcome>>

\* write into a pipe without a reader.
BrokenPipe ==
  /\ child = "running" /\ want = "write" /\ child_out /\ "out_r" \notin fds
  /\ Die("SIGPIPE", 0)
  /\ UNCHANGED <<pc, writer, fds, cpu, stubborn, pipes, setup_failed, limit_hit, late, outcome>>

CloseStream ==
  /\ child = "running" /\ want = "none"
  /\ \/ child_in' = FALSE /\ inq' = 0 /\ UNCHANGED child_out
     \/ child_out' = FALSE /\ UNCHANGED <<child_in, inq>>
  /\ UNCHANGED <<pc, writer, fds, child, want, cpu, stubborn, fed, outq, emitted, got, killed,
                 ending, setup_failed, limit_hit, late, outcome>>

Compute ==
  /\ child = "running" /\ want = "none"
  /\ Tick
  /\ UNCHANGED <<pc, writer, fds, child, want, child_in, child_out, stubborn, pipes, killed, ending,
                 setup_failed, limit_hit, late, outcome>>

\* Normal end, a fault of the program, or a forbidden system call.
End ==
  /\ child = "running" /\ want = "none"
  /\ Die("exit", 0) \/ Die("exit", 1) \/ Die("SIGSEGV", 0) \/ Die("SIGSYS", 0)
  /\ UNCHANGED <<pc, writer, fds, cpu, stubborn, pipes, setup_failed, limit_hit, late, outcome>>

\* A sleep may last any time: no fairness is assumed of its end.
WakeUp ==
  /\ child = "running" /\ want = "sleep"
  /\ want' = "none"
  /\ UNCHANGED <<pc, writer, fds, child, child_in, child_out, cpu, stubborn, pipes, killed, ending,
                 setup_failed, limit_hit, late, outcome>>

Program == Choose \/ Read \/ Write \/ BrokenPipe \/ CloseStream \/ Compute \/ End

--------------------------------------------------------------------------------
\* The kernel and the clock

DeliverKill ==
  /\ killed /\ Alive
  /\ Die("SIGKILL", 0)
  /\ UNCHANGED <<pc, writer, fds, cpu, stubborn, pipes, setup_failed, limit_hit, late, outcome>>

CpuSignal ==
  /\ child = "running"
  /\ \/ cpu >= SoftCpu /\ ~stubborn /\ Die("SIGXCPU", 0)
     \/ cpu >= HardCpu /\ Die("SIGKILL", 0)
  /\ UNCHANGED <<pc, writer, fds, cpu, stubborn, pipes, setup_failed, limit_hit, late, outcome>>

DeadlinePasses ==
  /\ pc \in {"Poll", "Deadline"} /\ ~late
  /\ late' = TRUE
  /\ UNCHANGED <<pc, writer, fds, child, prog, pipes, killed, ending, setup_failed, limit_hit,
                 outcome>>

Kernel == DeliverKill \/ CpuSignal

--------------------------------------------------------------------------------
\* RunCommand has returned.
Returned == pc = "Return" /\ UNCHANGED vars

Next == Caller \/ Writer \/ Setup \/ Program \/ WakeUp \/ Kernel \/ DeadlinePasses \/ Returned

Spec == Init /\ [][Next]_vars

\* Threads, kernel and clock go on; the program goes on unless it sleeps.
FairSpec ==
  Spec /\ WF_vars(Caller) /\ WF_vars(Writer) /\ WF_vars(Setup) /\ WF_vars(Program)
       /\ WF_vars(Kernel) /\ WF_vars(DeadlinePasses)

--------------------------------------------------------------------------------
\* Properties

\* When RunCommand returns, the child has been reaped, the writer thread has ended
\* and every pipe end is closed; the one exception is the failure of the second
\* pipe(), which leaves the first pair open.
Released ==
  pc = "Return" =>
    /\ child \in {"none", "reaped"}
    /\ writer # "writing"
    /\ child = "reaped" => fds = {}
    /\ child = "none" => fds \in {{}, {"in_r", "in_w"}} /\ kind = "kError"

\* An output that is compared is all of what the program wrote and within the
\* limit; a run is given up for its output only when that exceeded the limit.
OutputComplete ==
  pc = "Return" =>
    /\ kind \in {"kFinished", "kCrash"} => got = emitted /\ outq = 0 /\ got <= MaxOut
    /\ kind = "kOutputLimit" => got > MaxOut
    /\ got <= MaxOut + ReadBuf

\* A program asleep with its output open, or asleep before it has read an input
\* larger than the pipe.
AsleepOnPipe == child = "running" /\ want = "sleep" /\ (child_out \/ writer = "writing")

\* Every run returns, unless the program sleeps on a pipe for ever (or again and
\* again): the reading loop, the writer thread and the program never all wait for
\* each other, and a program that computes for ever, or that sleeps after it has
\* closed its output, is ended.
RunReturns == []<>AsleepOnPipe \/ (pc = "Fork" ~> pc = "Return")

\* sandbox.h: the parent's wall-clock limit ends every run.
WallClockLimit == pc = "Fork" ~> pc = "Return"

\* sandbox.h: kError for a failure of fork, pipe, setrlimit or exec.
SetupFailureIsError == pc = "Return" /\ setup_failed => kind = "kError"
================================================================================
