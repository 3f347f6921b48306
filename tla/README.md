# A TLA+ model of the OJ server

This directory specifies and checks the online judge of this repository: an HTTP
server that keeps problems in MySQL, queues submitted C++ programs in memory and
judges them one by one in a sandbox. Paths below are relative to the C++ sources
(`src/` of the repository) unless they name another directory.

`MC*.cfg` files are run with TLC (`tlc -config X.cfg M`), `*_proofs.tla` with
`tlapm`. `PROJECT.json` relates every definition to the lines it stands for.

## 1. Inventory

| component | state it keeps | operations | talks to |
|---|---|---|---|
| judging service, `judge/judge_service.*` | `queue_`, `results_`, `next_id_`, `stop_` (all under `mu_`); the worker's locals; work directories `oj_N` | `Submit`, `Get`, `ListByUser`, `GetUserStats`, `WorkerLoop`, `RunTask`, `StoreResult`, destructor | HTTP handlers call it; its worker reads MySQL on a connection of its own, runs g++, calls the sandbox |
| verdict of a case, `ClassifyRun` and `judge/comparator.*` | none | classify a run, compare bytes, run the special judge | sandbox (for the special judge) |
| sandbox, `judge/sandbox.*` | one child process, two pipes, one feeding thread per run | `RunCommand` | kernel |
| rate limiter, `util/ratelimit.h` | a deque of stamps per client address | `Allow` | called by registration and both logins |
| problem administration, `routes/problem_routes.cpp` | tables `problems`, `test_cases` | create, change, delete, append cases, import cases, list, show | sessions, JSON, zip; the judge's worker reads the same tables |
| sessions, `auth/session.cpp` | table `sessions`; map of administrator sessions | create, look up (and clean up), destroy | every route |
| authentication routes, `routes/auth_routes.cpp` | table `users`; two limiters | register, log in (user, administrator), log out | limiter, sessions, passwords |
| submission and user routes | none | submit, poll, list, statistics | sessions, judging service |
| database connection, `db/db_conn.*` | one shared connection under `DbLock` | lock, escape | all routes; not the worker |
| start and stop, `main.cpp` | none | connect, build routes, construct the judge, `listen`, destroy | everything |
| JSON, zip, password hashing, user lookup | none | parse, print, inflate, hash | routes |
| front end, `static/` | the page being polled | submit, poll every second | routes |

### What is hard here

* **Threads.** Handlers of the HTTP pool, the worker and the main thread share the
  members under `mu_`; the condition variable is signalled by `Submit` inside and by
  the destructor outside the critical section. Handlers that use the shared
  connection are serialised by `DbLock`; the administrator's login is not, and the
  worker's connection is not.
* **Two processes and two threads around two pipes** in each sandboxed run, with a
  CPU limit, a deadline, a kill and a wait that race.
* **No transactions.** The administrator's handlers run several statements, each of
  which may fail, also after it has taken effect, may be the last one before the process
  is killed, and is visible to the worker.
* **Many early returns** in `RunTask`, each with its own clean-up and result; system calls
  on the work directory whose failure nobody looks at.
* **Two kinds of session** with two clocks, one in the tables and one in memory, looked
  up by the same function; statements that fail, some after they have taken effect.
* **Restarts.** Submissions live in memory and their ids begin at 1 again; tables, work
  directories, sessions of users and open pages survive.
* **Hand-written encodings**: surrogates, UTF-8, escapes, names in archives.

### What makes each component correct

* Judging service: no submission is lost, judged twice or overtaken; a client's
  answer is never taken back; the verdict is the one its cases give; the process stops.
* Sandbox: everything is given back (but for the first pipe when the second `pipe()`
  fails), the output that is compared is complete, and the run returns.
* Limiters: never more registrations than the limit in a window, no more logins than the
  callers outside the lock explain, never a refusal of a registration without cause.
* Problem administration: cases stay numbered and whole, answers tell what was done.
* Sessions and accounts: a request is let in only with a token that was handed to that
  user, is not over and was not ended, and has the role asked for, and is turned away only
  for a reason; the answers of registration and login are true.
* The system: a page shows its own result and gets one, the views of a user's work
  agree, a verdict rests on whole and current test cases.
* Formats: a text is read back as the value it was written from, an accepted body is
  one value, an archive of test cases gives the pairs its layout means.

## 2. Modules

| module | models | proved about |
|---|---|---|
| `SubmissionService` | the promise of the judging service: numbered submissions, one verdict each, in order, none open at the end | as the target of a refinement |
| `Verdict` | `ClassifyRun`, `CompareExact`, `RunSpj`'s outcome, as operators | through `JudgeService` |
| `JudgeService` | queue, worker, results, shutdown | `JudgeService_proofs`: queue, answers, refinement, what one task does |
| `Sandbox` | one call of `RunCommand` with feeding thread, child and kernel | `Sandbox_proofs` |
| `RateLimiter` | both limiters, their callers and the clock | `RateLimiter_proofs` |
| `ProblemStore` | the five writing handlers and the two tables | `ProblemStore_proofs` |
| `Sessions` | users, user and administrator sessions, registration, logins, logout, look-up | `Sessions_proofs` |
| `JudgeSystem` | `JudgeService` over the tables of `ProblemStore`, the submission routes, the pages that poll, restarts | `JudgeSystem_proofs`: pages and test cases |
| `JsonString` | strings of `util/json.h`: `EscapeString`, one iteration of `parse_string` | through `StringExchange` |
| `StringExchange` | a string written by the server or a client, sent whole or in part, read by the loop of `parse_string` | `StringExchange_proofs` |
| `JsonText` | the rest of the writer and parser of `util/json.h` | no (recursive operators) |
| `Bodies` | texts and values built up piece by piece, over `JsonText` | no |
| `CaseArchive` | an archive of test cases: which entries are read, and the loop that pairs them | `CaseArchive_proofs` |
| `MCJudgeService`, `MCRateLimiter`, `MCProblemStore`, `MCSessions`, `MCJudgeSystem`, `MCFormats` | values for small instances; `MCFormats` joins `StringExchange`, `CaseArchive` and `Bodies` into one | |

An operator whose name is that of its neighbour with a suffix (`TakeNewest` before
`Take`, `NoUniqueKey` before `KeysAreFree`) is that neighbour with a plausible
mistake. No specification uses it; putting it in its neighbour's place must make a
property of a run fail, which is how the properties were tried.

### JudgeService

One action per critical section of `mu_` or per step of `RunTask`: `Submit`,
`StartWorker`, `Wait`, `Take`, `LoadProblem`, `Compile`, `CompileSpj`, `LoadCases`,
`RunCase`, `RemoveDir`, `StoreResult`, `ExitWorker`, and `SetStop`, `NotifyAll`, `Join`
of the main thread. `pc` is the worker's control point; at `"Waiting"` only a
notification or a spurious wake-up moves it, so a lost wake-up would show. `results_`
is a function on `1..next_id_-1`, as ids are never skipped. The result that `RunTask`
builds is `res`, local until `StoreResult`; `task`, `res`, `cases` are reset there
because the code's locals go out of scope. A source is its length, a text a short
sequence over two letters, a run of a program a record of `RunResult`.

The environment decides what the SELECTs return, whether g++ succeeds and how each
run ends. `LoadProblem(row)` and `LoadCases(cs)` take what was read as a parameter so
that a composition can supply it. `Hang` is a run that never returns, which
`Sandbox` shows to be possible, or g++ that never ends the compilation of a special judge
(`comparator.cpp:43`; only that of the submitted program is under `timeout`).

`workdirs` are the directories `oj_N` in the file system. mkdir, opendir, unlink and rmdir
may fail without a notice: `CleanupStaleDirs` leaves any of the directories, `LoadProblem` may
make none, and `RemoveDir` may fail, as when the directory has a subdirectory that cannot be opened.
`unremoved` is the history of those failures; `NoStaleDir`
says that they are the only reason for a directory to be left after its task.

### Sandbox

The calling thread's control points are the system calls of `RunCommand`; the
feeding thread, the child (set-up, then a program that chooses freely among reading,
writing, closing, computing, sleeping and ending), the kernel's signals and the
deadline are separate actions. Pipes are byte counts: capacity 2, read buffer 2,
input of 3 bytes (more than a pipe), limit of 2 bytes of output, a program that
writes up to 4. With these a blocked write, a full pipe in both directions, a read of
more than one byte, and an output at, over and far over the limit all occur. CPU
time is in ticks of half a second with a limit of one tick, so that the rounding up
to a second shows.

### RateLimiter

A key is a client address at one of the two limiters: those of `LoginKeys` are at
`g_login_limit`, the others at `g_register_limit`. The limiters share no data and have the
same window (`auth_routes.cpp:19`), so their maps are one function, and `MaxHits` gives the limit
of each key (in the code 20 and 30). `Stamp` takes `DbLock` if the handler does (`Locked`:
registration, login of users) and reads the clock; the administrator's login does without
and calls only the limiter of logins. `Decide` is the critical section of `Allow`; `Return`
ends the handler. Time advances between any two. `admitted` remembers the stamps that were
allowed.

### ProblemStore

`DbLock` allows one handler at a time, so the state has one request in hand: its kind
(`op`), its next statement (`at`) and its fields. Every statement is an action that
may fail, before it took effect or after (`mysql_query` also gives an error when the connection
is lost before the answer); `Crash` drops the request between two statements. Rows remember the request
and the array they came from. The unique key and the foreign key with its cascade
are those of `db/schema.sql`. The sizes of inputs and answers are three kinds of test
case: small, with a long input, with a long answer. Requests refused by the checks of
title, description and special-judge source change nothing and are left out.

### Sessions

`users` is a sequence of rows, `sessions` a function from tokens to rows,
`g_admin_sessions` one from tokens to expiries; tokens are numbered in the order in which
`RndHex32` gives them, so that no two are equal, and `Forged` is one it never gave. All
handlers but the administrator's login hold `DbLock`, so one of them is in hand (`op`,
`at`); its steps are its SQL statements and its critical sections of `g_admin_mu`:
`CheckName`, `InsertUser`; `FindUser`, `InsertSession`; `AdminMap`, `SelectSession`,
`Cleanup` (together `GetSession`); `EraseAdmin`, `DeleteSession` (`DestroySession`). `Use` is a
handler behind `RequireSession`, `UseAdmin` one behind `RequireAdmin`, which also looks at
the role (`RoleFits`).
`AdminLogin` is one step beside them. A statement may fail; an INSERT may also be
reported as failed after it took effect. `Key` is the collation of the column
`username`: names that differ in case only are equal to MySQL. `now` is the clock of
`NOW()`, which `SetClockBack` may turn back, `steady` that of the process; `Restart`
empties the map. `issued`, `given`, `ended`, `told` and `fault` are histories: what each
token was made for, which were handed out, which were ended, and what was confirmed.

### JudgeSystem

Extends `JudgeService` and takes its actions as they are; `Store` is an instance of
`ProblemStore`. `ReadProblem` and `ReadCases` give `LoadProblem` and `LoadCases` the rows
that are in the tables at that moment (or none, when the SELECT fails), between any two
statements of an administrator's request. `PostSubmission` and `Poll` are handlers and
need `DbLockFree`; a page (`NewPage`) holds what the browser knows: the id it was given,
and what it shows. `Poll` is the answer of GET (404, 403, the result) and what
`pollSubmission` makes of it; an answer that is still pending changes nothing. `Restart`
sets what is in memory back to its initial state, wherever the worker and the request in
hand were. A `SELECT ... ORDER BY` and a walk over the map `results_` are both `Ascending`,
which puts each number of a set at its rank: the provers can reason about ranks. `epoch`,
`since`, `seen` and `replaced` are histories. The shutdown by SIGINT is left to
`JudgeService`: pages of a server that stays down wait for ever. That a page gives up after
`maxMs` is a page that is not polled again, which the safety properties cover and the
liveness property excludes.

### JsonString, StringExchange, JsonText, Bodies

A text is a sequence of bytes; the operators have the names of the parser's functions
and give the value with the position after it, or `Fail`. A number is a ratio in lowest terms:
integers are written whole, fractions with the six significant digits of `os << num_`
(`json.h:100`), and a decimal fraction is read as its ratio. A number that needs an exponent is
left out: such a literal is recognised to its end and kept, and `RoundTrip` says nothing of it.
The one fraction the handlers answer with, `ac_rate` (`user_routes.cpp:45`), needs none.

`StringExchange` is one string on its way. `Write` appends a character as one of the three
kinds of writer would: `dump` of this server for any byte, a client that escapes any
character as `\uXXXX` (two halves beyond 65536, digits in small or capital letters), a
client that uses a letter escape. `Close` adds the quote; `Cut` lets only a beginning of
the text arrive, cut at any byte. `ReadNext`, `ReadQuote` and `Unterminated` are the
iterations and the two ends of the loop in `parse_string`, over `ReadChar` of `JsonString`.
The bytes of the code are appended to one `std::string`; here `out` has them by
iteration, so that each can be compared with what was written. `pieces` and `starts` are
histories.

`Bodies` is a state machine only in that it builds inputs piece by piece, each state being
one input on which the properties evaluate the writer and the parser of `JsonText`.

### CaseArchive

An entry is directory, stem, extension and fault; its index stands for its content. `Read`
is `zip::Parse` on an archive of any entries, in any order, with duplicates (the bounds that
`zip.h:100-120` checks of the central directory are left out, and so are files named by an
extension alone, such as `.in`); `PairNext` is
the loop of `ParseZipCases` over its map, through the entries of one stem at a time in the
order of the map, and `EndLoop` its end, with the refusal of an archive that gave no case.

## 3. Runs

| run | module, cfg | shows |
|---|---|---|
| `judge_queue` | `MCJudgeService`, `MCJudgeQueue` | three submissions, two users, worker and shutdown in every order, with and without a connection: types, `InOrder`, `SameOwner`, `AnswersAreFinal`, `StatsNeverShrink`, `ImplementsService`, `EventuallyJudged`, `StopEnds` |
| `judge_verdicts` | `MCJudgeService`, `MCJudgeVerdicts` | two submissions through every path of `RunTask` with eleven kinds of run, three of special-judge run and four case lists, with directories that are there at first, that cannot be made or cannot be removed: `NoStaleDir`, `VerdictExplained`, `AcceptedMeansAllCases`, `WorstTime` |
| `sandbox` | `Sandbox`, `MCSandbox` | `Released`, `OutputComplete`, `RunReturns` against every program |
| `limits` | `MCRateLimiter`, `MCLimits` | two threads under `DbLock` and one without, an address at each limiter: `WindowBound`, `RefusalJustified` |
| `problem_store` | `MCProblemStore`, `MCProblemStore` | three requests with failures before and after a statement took effect, and kills: `CasesNumbered`, `ArraysWhole`, `ArrayCap`, `ReplyTellsEffect` |
| `sessions` | `MCSessions`, `MCSessions` | two names that are one to the collation, two passwords, one token per login up to the bound, failures, a restart, requests behind `RequireSession` and `RequireAdmin`, a clock that goes back: `EndedStaysEnded`, `RegisterAnswers`, `LoginAnswers`, `AcceptedRightly`, `RefusalExplained` |
| `system` | `MCJudgeSystem`, `MCJudgeSystem` | two users submit and poll while the administrator's statements run and the process is killed once: `PageShowsOwn`, `ViewsAgree`, `JudgedOnCurrentCases`, `PageAnswered` |
| `formats` | `MCFormats`, `MCFormats` | every string of up to two characters, bytes and escapes on both sides of every bound of UTF-8 and UTF-16, whole and cut at every byte: `CharactersKept`; every archive of up to four of twenty entries, out of both layouts and of none, with files without an extension, directories and entries that cannot be read: `PairsMatch`, `ConventionImported`; every text of up to five of fourteen fragments and every value, fractions among them, wrapped twice: `RoundTrip`, `OneValue` |

In `formats` a behaviour is one of `StringExchange`, `CaseArchive` or `Bodies`, while the
variables of the other two stay as they begin: its states are those of the three together.

Four runs show that the program does not do what a comment or a document says:

| run | says | does |
|---|---|---|
| `judge_source` | IMPROVEMENTS.md:43: a result keeps the source for the detail page | the result made when the worker has no connection replaces the placeholder without it (`judge_service.cpp:340-350`) |
| `sandbox_wall` | sandbox.h:22, :46: the parent's wall-clock limit ends a run | the deadline is set after the reading loop; a program that sleeps with its output open blocks the only worker for ever, and `~JudgeService` with it |
| `sandbox_setup` | sandbox.h:25: `kError` for failures of setrlimit and exec | the child's `_exit(124..127)` is taken for the program's own end |
| `login_limit` (`LoginWindowBound`) | ratelimit.h:20: at most `max_hits` in a window | the clock is read before the mutex and the administrator's login is outside `DbLock`: a late caller misses stamps an earlier one has dropped |

### Differences read in the code, without a run

* A case with an empty stored answer matches any output (`comparator.cpp:17`) also in
  a byte-compared problem; SPEC.md:103 lets only special problems do without one.
* The CPU limit is rounded up to whole seconds (`sandbox.cpp:131`); SPEC.md:90 gives it
  in milliseconds. sandbox.h:44 says seconds.
* ratelimit.h:4 speaks of a `CheckAndTrim` that does not exist.
* PUT with an empty array answers with success when its DELETE failed
  (`problem_routes.cpp:498`); `SuccessEffect` names this exception.
* An array that is refused after the INSERT or UPDATE (`problem_routes.cpp:385`, `:392`) leaves
  the problem, of POST without cases, behind a 400: `RefusalEffect` says so. A failed rollback of
  POST (`:402`) leaves the problem behind a 500, and so does any statement that took effect and
  was reported as failed; then the array may be stored as a whole (`FailureEffect`), and a
  client that appends it again after the 500 has it twice.
* No error of mkdir, opendir, unlink or rmdir on a work directory is looked at
  (`judge_service.cpp:149-199`, `:374`): a directory that resists stays, and the submission that
  gets its id after a restart finds it. `NoStaleDir` claims no more than that.
* g++ for the special judge has no time limit (`comparator.cpp:43`); that for submissions has.
* problem_routes.cpp:33 limits the cases of a problem, but appending tests the new
  array only (`:579`); `ArrayCap` states what the code keeps.
* A logout whose DELETE fails answers ok and clears the cookie; the session stays valid
  until it expires (`session.cpp:167`). `AcceptedRightly` counts it as not ended.
* Login never cleans up, an expired administrator session stays in the map until its own
  token comes again, and user sessions are cleaned by any look-up that reaches the
  database.
* After a restart a page that polls an old id may show another submission of the same
  user (`PageShowsOwn` claims less then), or 403 or 404.
* The body limit of 1 MB (`main.cpp:60`) is met before the 8 MB of `kMaxZipBytes`.
* Pairing of an archive (`problem_routes.cpp:165-214`): files of `inputs/` and `outputs/`
  that have no extension never pair, as their whole path is their key, so that an archive of
  `inputs/1` and `outputs/1` is refused although problem_routes.cpp:125 and admin.html:88 name
  only the directories (`ConventionImported` says so); `x.IN` is an input
  but finds only `x.ans`; `.OUT` is never found; in the second layout the directory is
  ignored, so that of two files of the same name the last one counts, even if its
  partner is in the other directory. Cases are in the order of the names as text:
  `case_10` before `case_2`.
* json.h:213 says that surrogate pairs are not needed; the code decodes them, and takes a
  low half on its own. `-` alone is the number 0, and raw control bytes are accepted.
* The filter by tag does not escape `%` and `_` (`problem_routes.cpp:245`).
* The profile may count more solved problems than exist, after one was deleted.
* `results_` and the limiter's map of addresses only grow (`judge_service.h:101`,
  `ratelimit.h:28`); no operation removes anything from them.
* `problem_id` is a double cut to an integer (`submission_routes.cpp:88`), and `dump` writes
  fractions with six digits (`json.h:100`), so that an `ac_rate` of a third comes as 33.3333.

### Bounds

Every bound is a CONSTANT. `MaxId` (submissions), `MaxTime` (clock) and `MaxRequests`
appear only as guards of the action that starts something new; `MayStay` are the ids whose
directories may be there at first or resist their removal, both of two in `judge_verdicts`, one
in `judge_queue` and none in `system`, where nothing depends on them. Three submissions are
enough for one being judged, one queued and one arriving, which is every relation of
two tasks in the queue. Two cases distinguish the first, a middle and the last
iteration of the loop (the second case is reached only after the first was AC). In
`limits` three threads and four instants with a window of two let a call wait for its
decision while another one, a window later, drops what it should have counted; the limits are
two registrations and three logins. `login_limit` has two threads and five instants.
Three requests allow creating, replacing or appending, and one more on what a failed one
left. `Sessions` has names and passwords that collide or not, and enough tokens for a
session of each kind beside one that ends; its clocks have room for a session to expire and
for the wall clock to be set back over the end of it. `JudgeSystem` has one seeded problem
of two cases, two submissions over all restarts, one restart, and one replacement of the
cases by another array; two users are enough for an id that another user gets after a
restart, and a list limit of one makes the second submission push the first out. In
`formats` five fragments are a complete object with one member; two levels of wrapping
put arrays into objects and objects into arrays. Two characters of a string are one that
ends where the other begins. Four entries are two complete pairs,
or one with a duplicate and a stray file. The code points are the smallest and the
largest of each length, and the corners of the surrogates. The range of surrogates
itself is left out: it holds no characters.

`CHECK_DEADLOCK` is off in `formats`, where an input is complete at
its bound and its reading ends, and on in every other run; `Stopped`, `Returned`, `Done` and `Idle` are
the states in which the system may rest.

### Fairness

`JudgeService`: weak fairness of the worker as one process and of the two steps of the
destructor: they are threads which the operating system schedules and whose steps end
(g++ for a submission runs under `timeout`; a run that does not end, or g++ for a special
judge, which has no limit, is the explicit step `Hang`, and liveness is claimed up to it). Clients and SIGINT are not fair.
`Sandbox`: weak fairness of the calling thread, the feeding thread, the kernel and the
program taken as a whole, of the deadline, and none of a program's waking up: a sleep
may last for ever. `JudgeSystem`: the worker and the statements of a request that has
`DbLock` are fair, being threads; each page is fair, as `pollSubmission` asks again in a
loop with a timer. A page needs `DbLock`, which is free again after every request; with
the bound on requests it is free from some point on, so weak fairness suffices and
nothing is assumed of the order in which `std::mutex` lets threads in. The
administrator, submissions and the restart are not fair. The other modules have safety
properties only.

## 4. Proofs

`tlapm` checks every theorem for all values of the constants that satisfy the named
assumptions of the modules; these say what kind of values the constants have, no more
(`CodesAssumption`, `MaxIdAssumption`, `RunsAssumption`, `CasesAssumption`,
`SandboxAssumption`, `BodiesAssumption`, `BoundsAssumption`, `KeyAssumption`,
`StemOrderAssumption`, `EntriesAssumption`, `BytesAssumption`, `CodePointsAssumption`, ...). Every
inductive invariant was checked by TLC, as an invariant of the instance of the run that
checks the property, before it was proved; the state counts below are of those checks.

| module | theorem | states |
|---|---|---|
| `JudgeService_proofs` | `TypeCorrect` | `Spec => []TypeOK` |
| | `OrderCorrect` | `Spec => [](InOrder /\ SameOwner)` |
| | `VerdictsCorrect` | `Spec => []VerdictExplained` |
| | `AnswersCorrect` | `Spec => AnswersAreFinal` |
| | `StatsGrow` | `Spec => StatsNeverShrink` |
| | `Refinement` | `Spec => ImplementsService` |
| | `OwnerKept` | `Spec => []SameOwner` |
| | `AcceptedIsEarned` | `Spec => []AcceptedMeansAllCases` |
| | `TimesCorrect` | `Spec => []WorstTime` |
| | `DirectoriesRemoved` | `Spec => []NoStaleDir` |
| `Sandbox_proofs` | `TypeCorrect` | `Spec => []TypeOK` |
| | `NothingLeft` | `Spec => []Released` |
| | `OutputsComplete` | `Spec => []OutputComplete` |
| `RateLimiter_proofs` | `TypeCorrect` | `Spec => []TypeOK` |
| | `WindowKept` | `Spec => []WindowBound` |
| | `RefusalsJustified` | `Spec => []RefusalJustified` |
| `ProblemStore_proofs` | `TypeCorrect` | `Spec => []TypeOK` |
| | `NumberedWithoutGaps` | `Spec => []CasesNumbered` |
| | `WholeArrays` | `Spec => []ArraysWhole` |
| | `RepliesTellEffect` | `Spec => []ReplyTellsEffect` |
| | `ArraysCapped` | `Spec => []ArrayCap` |
| `Sessions_proofs` | `TypeCorrect` | `Spec => []TypeOK` |
| | `EndedSessionsStayEnded` | `Spec => []EndedStaysEnded` |
| | `AcceptedOnlyRightly` | `Spec => AcceptedRightly` |
| | `RefusedOnlyRightly` | `Spec => RefusalExplained` |
| | `LoginsAnsweredRightly` | `Spec => LoginAnswers` |
| | `RegistrationsAnsweredRightly` | `Spec => RegisterAnswers` |
| `JudgeSystem_proofs` | `QueueStaysInOrder` | `SystemSpec => [](InOrder /\ SameOwner)` |
| | `PagesShowOwn` | `SystemSpec => []PageShowsOwn` |
| | `ViewsNeverDiffer` | `SystemSpec => []ViewsAgree` |
| | `JudgedOnCurrent` | `SystemSpec => []JudgedOnCurrentCases` |
| | `TablesStayWhole` | `SystemSpec => [](Store!CasesNumbered /\ Store!ArraysWhole /\ Store!ReplyTellsEffect)` |
| `StringExchange_proofs` | `StringsKept` | `Spec => []CharactersKept` |
| `CaseArchive_proofs` | `AnswersBelong` | `Spec => []PairsMatch` |
| | `Conventions` | `Spec => []ConventionImported` |

### JudgeService

The properties alone are not inductive; `IInv` is. `InOrder` says that finished
submissions, the task in hand and the queue partition the ids in order; it is kept by
`StoreResult` only because the result carries the task's id and is `done` (`LoopState`),
and `AnswerKept` follows from it because the id being stored is the first pending one.
`VerdictExplained` needs to know what `RunTask` has built before it is published:
`LoopState` says that the status is SE and all cases AC as long as the loop runs, and that
the finished local result is explained. `ShutdownState` (the worker exits only from an
empty queue after the stop) is what the refinement needs for the abstract `Close`. The
refinement maps the log to the owners in `results_`, the verdicts to the statuses of the
ids before the first pending one; `Submit` is `Accept`, `StoreResult` is `Judge`, `Join` is
`Close`, every other step stutters. `StatsGrow` follows from the same step: as an answer
that is final is kept, the user's finished and accepted submissions before a step are a
subset of those after it, and a finite set is no smaller than its subset.

`TaskState` is added to `IInv` for what one task does (488780 states). `CasesFollow` says that the cases
of the result in hand are those of the list that was read, in order, so that a loop that
ended without a failure has run them all; that is what `AcceptedMeansAllCases` needs
besides the status. `SlowestTime` for the local result becomes `WorstTime` when it is
published. `NoStaleDir` says that besides the directory of the task in hand there are only those
whose removal was tried and failed; it holds as all six paths of `RunTask` come through
`RemoveDir`.

### Sandbox

`IInv` (57942 states) adds two facts to the properties. `Bytes`: what was received and what is
in the pipe is what the program wrote; the loop has stopped at the limit or at the end of
the output, and in the second case nothing is left. `Phase`: which descriptors are open,
whether the child exists and whether the writer runs, at each system call of the caller.
`Released` and `OutputComplete` are then read off at `Return`, for pipes, buffers and
limits of any size.

### RateLimiter

The theorems are about both limiters at once, for any number of threads inside and outside
`DbLock`; `WindowBound` gives each limiter its own bound. `IInv` (3215805 states) has two halves.

`RegisterInv` is about registrations. All their callers hold `DbLock` (`OwnKeys`, `OneCall`),
so one call is between clock and decision at a time, whatever logins go on beside it, and
the stamps come in order (`Sorted`). `Spaced` is what is counted: of `MaxHits + 1` admissions
in a row, the last came a window after the first, since the first had been dropped when
the last was admitted (`Past`). A window that held more than `MaxHits` admissions would hold
two such. `Refused` says what a refused call found.

`LockInv` holds for every limiter. The deque is the end of the list of admissions
(`Suffix`), although a login's stamps may be out of order. What ratelimit.h promises is false
of logins (run `login_limit`), and `Overrun` is what remains of it. As long as nothing of a
window was dropped, all its admissions are in the deque, which is within the limit
(`KeptFew`). The call that drops the first of them has a stamp at least a window later, so
for the clock the window is over: no later call reads a clock inside it, and what can still
be admitted there are the calls that had read theirs before (`Pending`). Of these and the one
that drops, at most one holds `DbLock`, so there are no more of them than threads without
it (`OthersFew`); from then on each admission makes one less to come.

### ProblemStore

`IInv` (56744 states). `Stored`: the numbers of a problem's rows are `1..n`, each once
(`Numbered`); rows of one array lie as in the array and none is missing, and arrays of later
requests come after (`Blocks`). An insertion keeps this because it begins at 1 or after the
last number (`Appends`) and is refused as a whole when a number is taken: from 1 it can
only succeed in a problem without cases, whatever the failed DELETE or SELECT before it
was. `Checked` says what a statement may rely on after the early returns before it.
`Progress` says, for each statement a request may be at, how the tables differ from those it
found (`before`), which at the answer becomes `ReplyTellsEffect`. As a statement that is reported
as failed may have taken effect, the answer of a failure is left with `AllOrNothing`: an
INSERT of many rows stores them all or none.

### Sessions

`IInv` says what the histories mean. `Rows`: an entry of either store is what its
token was issued for, so a token is never in both. `Accounted`: a token that was handed
out is in a store or has ended; this is what explains a refusal. `EndedStaysEnded` needs
that a new token is one never seen before (`NewTokenFresh`) and that whatever a clean-up,
a logout or a restart ends has left both stores in the same step (`LostRows`,
`LostEntries`); the logout can delete the row only because it has erased the entry
first. `Confirmed`: a confirmed registration has its row. `Control` says what a handler
has established when it comes to its next step, while logins of the administrator, the
clocks and a restart come in between; `AnswerStep` finds for each answer the steps that
may give it.

### JudgeSystem

The composition uses the lemmas of the parts: those of `JudgeService_proofs` about `Submit`,
`Take` and `StoreResult` (which ask only that the queue is a queue of tasks, `QueueTyped`),
and the whole invariant of `ProblemStore_proofs`, through the instance `StoreP`.

`SystemInv` (291635 states) is about the pages. The `IInv` of `JudgeService` is not used, as it
takes the test cases from the constant `CaseLists` and here they come from the tables.
`PagesKnown`: the id on a page of the running process is that of its own submission.
`ShownFinal`: what a page was shown since the last start is still the record, because
`AnswerKept` holds of every step of the service. After a restart no page belongs to the new
process, so both are empty, and `PageShowsOwn` is left with the owner that the handler
compares. `ViewsAgree` also needs what `Ascending` returns (`AscendingRanks`: the ranks of a
finite set number it from 1, a use of the pigeonhole principle).

`CurrentInv` (291635 states) adds the tables. The seeded tables satisfy the invariant of
`ProblemStore` (`SeedIsStored`), each request of the administrator begins and goes on as there,
and a kill is its `Crash`. `NoneOlder`: no row is older than the last confirmed replacement
of its problem; a confirmed replacement keeps it because `ReplyTellsEffect` says that no other
row is left. `PagesSince`: the replacement a page knew of is no later than that. When the
worker reads (`CurrentWhenRead`), `OneProblem` and `SameOwner` say that it reads the problem of
the page, and `Numbered` and `Blocks` that it gets whole arrays (`CasesAreWhole`); while the
cases run nothing of this changes.

### StringExchange

`CharactersKept` speaks of what was read so far; what it says is inductive only with the
text as it lies between writer and reader. `IInv` (182415 states): `Laid`, each piece begins
where the one before it ends; `Held`, the text agrees with each piece as far as it arrived;
`Whole`, with the closing quote nothing is missing, and without it something may be;
`InStep`, `parse_string` stands at the beginning of a piece, and what it has read are the
pieces before it, each with its meaning.

A step of the loop keeps `InStep` by one lemma, `PieceReads`: where a piece begins, `ReadChar`
consumes exactly this piece and gives what it means, and if the text ends inside the
piece it fails, so that the reader can never stand in the middle of an escape and take
its letters for characters. Every way of writing a character is one of four forms (a byte
as it is, a letter escape, one unit, two halves), and each has its lemma. They rest on
arithmetic for every number and not for the corners the run has: four digits written by
`Hex4` are read back by `parse_hex4` (`HexRead`), the halves of a character beyond 65536 are a
high and a low surrogate that give it again (`Halves`), and `Utf8` gives the shortest form of
every code point, which read backwards by the definition of UTF-8 is that code point
(`Utf8Right`). Strings, texts and cuts are of any length.

### CaseArchive

`PairsMatch` and `ConventionImported` are about an archive of any number of entries with any
names. `IInv` (887086 states): `Collected`, the cases are what was found for the stems the
loop has been through, no more and no less; `Ordered`, they come in the order of the
stems, but for the two cases that one stem can give (from `x.IN` and `x.in`); `Stages`, what
the control point says about `Readable` and about an empty list. From `Collected` follows that
each case fits (`CasesFit`) and, when an archive keeps to a convention and the names of
its files that have an extension differ, that what is found for a stem is its pair if it has one (`ConventionFound`), so that
all pairs are imported and nothing else. No entry is the input of two cases because
an entry has one stem, and the two inputs of one stem differ in their extensions.

### Only model-checked

* Liveness: `EventuallyJudged`, `StopEnds`, `RunReturns`, `PageAnswered`. They need fairness
  and ENABLED, which the prover does not handle.
* `RoundTrip` and `OneValue`: the parser and the writer call themselves on the members of
  arrays and objects, and the library's induction theorems take an operator as a
  parameter, which no installed prover can instantiate. Their leaves that are strings
  are proved (`StringsKept`).

## 5. Not modelled

Truncation of texts, titles and timestamps; memory accounting (`memory_mb` is computed
like `time_ms`); the list of system calls of the filter and the switch to another user;
g++ itself; the HTTP library; the byte layout of an archive and inflate; the digits of a
stored password and the Cookie header; numbers with an exponent in JSON; the reading routes for
problems with their filters, which change nothing; what the pages display besides the
result of a submission; the checks of the shape of names, passwords, titles and limits.

## 6. Plan

1. Done: all modules, and the proofs about them. Every safety property and every action
   property of the passing runs is a theorem, except `RoundTrip` and `OneValue`.
2. Open: what section 5 leaves out, the filters of the reading routes first, as they would
   join problems and submissions in one answer.
