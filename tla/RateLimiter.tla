------------------------------ MODULE RateLimiter ------------------------------
(***************************************************************************)
(* The sliding windows of src/util/ratelimit.h as the authentication       *)
(* routes use them: handler threads call Allow on g_register_limit and     *)
(* g_login_limit.  A thread of Locked (registration, login of users) calls *)
(* it while it holds DbLock, which its handler keeps to the end; the       *)
(* others (the administrator's login) hold only the limiter's own mutex,   *)
(* and that not yet when they read the clock.                              *)
(*                                                                         *)
(* A key is a client address at one of the limiters.  Allow is one step    *)
(* under the mutex and two limiters share no data, so their two maps are   *)
(* one.  The clock is discrete; Window is window_sec in its ticks.         *)
(***************************************************************************)
EXTENDS Integers, Sequences, FiniteSets

CONSTANTS
  Threads,   \* threads of the HTTP server that call Allow
  Locked,    \* those whose handler holds DbLock
  Keys,      \* client addresses, at each limiter
  LoginKeys, \* those at g_login_limit; the administrator's login calls no other
  MaxHits,   \* max_hits_ of the limiter of each key
  Window,    \* window_sec_, the same for both
  MaxTime    \* bound: last instant of a behaviour

ASSUME LockedAssumption == Locked \subseteq Threads /\ IsFiniteSet(Threads)
ASSUME LimitAssumption ==
  /\ LoginKeys \subseteq Keys /\ MaxHits \in [Keys -> Nat \ {0}]
  /\ Window \in Nat \ {0} /\ MaxTime \in Nat

VARIABLES
  clock,     \* steady_clock
  entries_,  \* the deque of each key (a key that never called has an empty one)
  db_lock,   \* the thread that holds DbLock, as a set of at most one
  pc,        \* of each thread: "idle", "stamped", "allowed", "refused"
  key, now,  \* of each thread: argument and local variable of its call
  admitted   \* history: the stamps of the calls that were allowed, per key

vars == <<clock, entries_, db_lock, pc, key, now, admitted>>

TypeOK ==
  /\ clock \in 0..MaxTime
  /\ entries_ \in [Keys -> Seq(0..clock)]
  /\ \A k \in Keys : Len(entries_[k]) <= MaxHits[k]
  /\ db_lock \subseteq Locked /\ \A t, u \in db_lock : t = u
  /\ pc \in [Threads -> {"idle", "stamped", "allowed", "refused"}]
  /\ key \in [Threads -> Keys]
  /\ now \in [Threads -> 0..clock]
  /\ admitted \in [Keys -> Seq(0..clock)]

Init ==
  /\ clock = 0
  /\ entries_ = [k \in Keys |-> <<>>] /\ admitted = [k \in Keys |-> <<>>]
  /\ db_lock = {}
  /\ pc = [t \in Threads |-> "idle"]
  /\ key \in [Threads -> Keys] /\ now = [t \in Threads |-> 0]

--------------------------------------------------------------------------------
Tick ==
  /\ clock < MaxTime
  /\ clock' = clock + 1
  /\ UNCHANGED <<entries_, db_lock, pc, key, now, admitted>>

\* A handler begins, takes DbLock if it is one of those that do, and reads the
\* clock; the limiter's mutex comes later.  The mutant never takes DbLock.
StampUnlocked(t, k) ==
  /\ pc[t] = "idle" /\ (t \in Locked \/ k \in LoginKeys)
  /\ key' = [key EXCEPT ![t] = k]
  /\ now' = [now EXCEPT ![t] = clock]
  /\ pc' = [pc EXCEPT ![t] = "stamped"]
  /\ UNCHANGED <<clock, entries_, db_lock, admitted>>
Stamp(t, k) ==
  /\ pc[t] = "idle" /\ (t \in Locked \/ k \in LoginKeys)
  /\ IF t \in Locked THEN db_lock = {} /\ db_lock' = {t} ELSE UNCHANGED db_lock
  /\ key' = [key EXCEPT ![t] = k]
  /\ now' = [now EXCEPT ![t] = clock]
  /\ pc' = [pc EXCEPT ![t] = "stamped"]
  /\ UNCHANGED <<clock, entries_, admitted>>

\* Stamps are dropped from the front, up to the first one inside the window.  The
\* mutant keeps the stamp that is exactly one window old.
FromFirst(w, cutoff) ==
  LET inside == {i \in DOMAIN w : w[i] > cutoff}
  IN  IF inside = {} THEN <<>>
      ELSE SubSeq(w, CHOOSE i \in inside : \A j \in inside : i <= j, Len(w))
DropExpiredLate(w, n) == FromFirst(w, n - Window - 1)
DropExpired(w, n) == FromFirst(w, n - Window)

FullLoose(w, k) == Len(w) > MaxHits[k]
Full(w, k) == Len(w) >= MaxHits[k]

\* The critical section of Allow.
Decide(t) ==
  /\ pc[t] = "stamped"
  /\ LET k == key[t]
         w == DropExpired(entries_[k], now[t])
     IN  IF Full(w, k)
         THEN /\ entries_' = [entries_ EXCEPT ![k] = w]
              /\ pc' = [pc EXCEPT ![t] = "refused"]
              /\ UNCHANGED admitted
         ELSE /\ entries_' = [entries_ EXCEPT ![k] = Append(w, now[t])]
              /\ pc' = [pc EXCEPT ![t] = "allowed"]
              /\ admitted' = [admitted EXCEPT ![k] = Append(@, now[t])]
  /\ UNCHANGED <<clock, db_lock, key, now>>

\* The handler returns; its DbLock goes out of scope.
Return(t) ==
  /\ pc[t] \in {"allowed", "refused"}
  /\ pc' = [pc EXCEPT ![t] = "idle"]
  /\ db_lock' = db_lock \ {t}
  /\ UNCHANGED <<clock, entries_, key, now, admitted>>

Next ==
  \/ Tick
  \/ \E t \in Threads : (\E k \in Keys : Stamp(t, k)) \/ Decide(t) \/ Return(t)

Spec == Init /\ [][Next]_vars

--------------------------------------------------------------------------------
\* Properties

\* Calls of key k that were allowed with a stamp among the Window instants from s.
AllowedFrom(k, s) == {i \in DOMAIN admitted[k] : admitted[k][i] \in s..(s + Window - 1)}

\* However the calls of all threads interleave with time, no window (beginning at
\* an admission; others hold no more) contains more registrations than the limit, as
\* every caller of g_register_limit holds DbLock; and at most one login more than the
\* limit for each caller that does without.  A call that read the clock, and waited while
\* the stamps it should count were dropped for a later one, is the last of its thread in
\* the window.
FreeCallers(k) == IF k \in LoginKeys THEN Threads \ Locked ELSE {}
WindowBound ==
  \A k \in Keys : \A i \in DOMAIN admitted[k] :
    Cardinality(AllowedFrom(k, admitted[k][i])) <= MaxHits[k] + Cardinality(FreeCallers(k))

\* What ratelimit.h says of every limiter, and the administrator's login breaks.
LoginWindowBound ==
  \A k \in LoginKeys : \A i \in DOMAIN admitted[k] :
    Cardinality(AllowedFrom(k, admitted[k][i])) <= MaxHits[k]

\* A registration is refused only when as many calls of the same client as the limit
\* were allowed in the window that ends with it.
RefusalJustified ==
  \A t \in Threads : pc[t] = "refused" /\ key[t] \notin LoginKeys =>
    Cardinality(AllowedFrom(key[t], now[t] - Window + 1)) >= MaxHits[key[t]]
================================================================================
