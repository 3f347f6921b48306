-------------------------- MODULE RateLimiter_proofs ---------------------------
(***************************************************************************)
(* Theorems about RateLimiter, for any threads, addresses, limits and      *)
(* window: the limiter whose callers all hold DbLock keeps its promise,    *)
(* because a call is decided before the next one reads the clock; the      *)
(* other one admits too much, but not more than its free callers explain.  *)
(***************************************************************************)
EXTENDS RateLimiter, TLAPS, SequenceTheorems, FiniteSetTheorems, WellFoundedInduction

\* The keys of g_register_limit: only threads of Locked call it, and whoever of them is
\* in a call holds DbLock.
RegisterKeys == Keys \ LoginKeys
OwnKeys == \A t \in Threads : pc[t] # "idle" => t \in Locked \/ key[t] \in LoginKeys
OneCall == \A t \in Locked : pc[t] # "idle" => t \in db_lock

\* The deque is the end of the list of what was admitted.
Dropped(k) == Len(admitted[k]) - Len(entries_[k])
Suffix ==
  \A k \in Keys :
    /\ Dropped(k) >= 0
    /\ \A i \in 1..Len(entries_[k]) : entries_[k][i] = admitted[k][Dropped(k) + i]

\* The calls of a window that are not decided yet.
Pending(k, s) ==
  {t \in Threads : pc[t] = "stamped" /\ key[t] = k /\ now[t] \in s..(s + Window - 1)}

\* Of a window nothing was dropped, or it is over and what it has and will have is
\* within the limit but for the calls without DbLock.
Overrun ==
  \A k \in Keys, s \in 0..MaxTime :
    \/ \A i \in AllowedFrom(k, s) : i > Dropped(k)
    \/ /\ clock >= s + Window
       /\ Cardinality(AllowedFrom(k, s)) + Cardinality(Pending(k, s))
            <= MaxHits[k] + Cardinality(Threads \ Locked)

LockInv == OwnKeys /\ OneCall /\ Suffix /\ Overrun

Sorted ==
  \A k \in RegisterKeys : \A i, j \in 1..Len(admitted[k]) :
    i <= j => admitted[k][i] <= admitted[k][j]

\* Of MaxHits + 1 admissions in a row the last came a window after the first.
Spaced ==
  \A k \in RegisterKeys : \A i \in 1..Len(admitted[k]) :
    i + MaxHits[k] <= Len(admitted[k]) =>
      admitted[k][i] + Window <= admitted[k][i + MaxHits[k]]

\* Seen from instant x all admissions are past, and the dropped ones by a window.
SeenFrom(x) ==
  \A k \in RegisterKeys : \A i \in 1..Len(admitted[k]) :
    /\ admitted[k][i] <= x
    /\ i <= Dropped(k) => admitted[k][i] + Window <= x
Past == SeenFrom(clock) /\ \A t \in Locked : pc[t] # "idle" => SeenFrom(now[t])

\* Who is refused found the deque full of stamps inside the window.
Refused ==
  \A t \in Threads : pc[t] = "refused" /\ key[t] \in RegisterKeys =>
    /\ Len(entries_[key[t]]) >= MaxHits[key[t]]
    /\ \A i \in 1..Len(entries_[key[t]]) : entries_[key[t]][i] > now[t] - Window

RegisterInv == Sorted /\ Spaced /\ Past /\ Refused
IInv == LockInv /\ RegisterInv

--------------------------------------------------------------------------------
\* A set of natural numbers that is not empty has a least element.
LEMMA LeastElement ==
  ASSUME NEW S, S \subseteq Nat, S # {}
  PROVE  \E x \in S : \A y \in S : x <= y
  <1>1. PICK x \in S : \A y \in S : <<y, x>> \notin OpToRel(<, Nat)
    BY NatLessThanWellFounded, WFMin
  <1>2. ASSUME NEW y \in S PROVE x <= y
    <2>1. x \in Nat /\ y \in Nat
      OBVIOUS
    <2>2. ~(y < x)
      BY <1>1, <2>1 DEF OpToRel
    <2> QED BY <2>1, <2>2
  <1> QED BY <1>2

\* What DropExpired leaves: the deque without its first j stamps, all of them
\* expired; the next one, if there is one, is not.
LEMMA DropFront ==
  ASSUME NEW S, S \subseteq Int, NEW w \in Seq(S), NEW cutoff \in Int
  PROVE  /\ FromFirst(w, cutoff) \in Seq(S)
         /\ \E j \in 0..Len(w) :
              /\ Len(FromFirst(w, cutoff)) = Len(w) - j
              /\ \A i \in 1..(Len(w) - j) : FromFirst(w, cutoff)[i] = w[j + i]
              /\ \A i \in 1..j : w[i] <= cutoff
              /\ j < Len(w) => w[j + 1] > cutoff
  <1> DEFINE Left(j) ==
               /\ Len(FromFirst(w, cutoff)) = Len(w) - j
               /\ \A i \in 1..(Len(w) - j) : FromFirst(w, cutoff)[i] = w[j + i]
               /\ \A i \in 1..j : w[i] <= cutoff
               /\ j < Len(w) => w[j + 1] > cutoff
  <1> DEFINE inside == {i \in DOMAIN w : w[i] > cutoff}
  <1>1. Len(w) \in Nat /\ DOMAIN w = 1..Len(w) /\ \A i \in 1..Len(w) : w[i] \in S /\ w[i] \in Int
    BY ElementOfSeq, LenProperties
  <1>2. CASE inside = {}
    <2>1. FromFirst(w, cutoff) = <<>>
      BY <1>2 DEF FromFirst
    <2>2. \A i \in 1..Len(w) : w[i] <= cutoff
      BY <1>1, <1>2
    <2> QED
      <3>1. <<>> \in Seq(S) /\ Len(<<>>) = 0
        OBVIOUS
      <3>2. Len(w) \in 0..Len(w)
        BY <1>1
      <3>3. Left(Len(w))
        BY <1>1, <2>1, <2>2, <3>1
      <3> QED BY <2>1, <3>1, <3>2, <3>3
  <1>3. CASE inside # {}
    <2> DEFINE m == CHOOSE i \in inside : \A j \in inside : i <= j
    <2>1. \E i \in inside : \A j \in inside : i <= j
      <3>1. inside \subseteq Nat
        BY <1>1
      <3> HIDE DEF inside
      <3> QED BY <1>3, <3>1, LeastElement
    <2>2. m \in inside /\ \A j \in inside : m <= j
      BY <2>1
    <2>3. FromFirst(w, cutoff) = SubSeq(w, m, Len(w))
      BY <1>3 DEF FromFirst
    <2> HIDE DEF m
    <2>4. m \in 1..Len(w) /\ w[m] > cutoff
      BY <1>1, <2>2
    <2>5. \A i \in 1..(m - 1) : w[i] <= cutoff
      BY <1>1, <2>2, <2>4
    <2>6. /\ SubSeq(w, m, Len(w)) \in Seq(S)
          /\ Len(SubSeq(w, m, Len(w))) = Len(w) - m + 1
          /\ \A i \in 1..(Len(w) - m + 1) : SubSeq(w, m, Len(w))[i] = w[m + i - 1]
      <3>1. \A i \in m..Len(w) : w[i] \in S
        BY <1>1, <2>4
      <3>2. m \in Int /\ Len(w) \in Int /\ m <= Len(w)
        BY <1>1, <2>4
      <3> QED BY <3>1, <3>2, SubSeqProperties
    <2>7. m - 1 \in 0..Len(w)
      BY <1>1, <2>4
    <2>8. \A i \in 1..(Len(w) - (m - 1)) : SubSeq(w, m, Len(w))[i] = w[(m - 1) + i]
      <3> TAKE i \in 1..(Len(w) - (m - 1))
      <3>1. i \in 1..(Len(w) - m + 1) /\ m + i - 1 = (m - 1) + i
        BY <1>1, <2>4
      <3> QED BY <2>6, <3>1
    <2>9. Len(w) - m + 1 = Len(w) - (m - 1) /\ (m - 1) + 1 = m
      BY <1>1, <2>4
    <2>10. Left(m - 1)
      BY <2>3, <2>4, <2>5, <2>6, <2>8, <2>9
    <2> QED BY <2>3, <2>6, <2>7, <2>10
  <1> QED BY <1>2, <1>3

--------------------------------------------------------------------------------
\* What the critical section of Allow does to the deque of its key and to the list
\* of what was admitted, stamp by stamp: j stamps leave at the front, and a call
\* that is allowed adds its own at the end.
Leaves(t, j) ==
  LET k == key[t]
  IN  /\ \A i \in 1..j : entries_[k][i] <= now[t] - Window
      /\ j < Len(entries_[k]) => entries_[k][j + 1] > now[t] - Window
      /\ \A i \in 1..(Len(entries_[k]) - j) : entries_'[k][i] = entries_[k][j + i]
Denies(t, j) ==
  LET k == key[t]
  IN  /\ Len(entries_[k]) - j >= MaxHits[k]
      /\ Len(entries_'[k]) = Len(entries_[k]) - j
      /\ admitted' = admitted
      /\ pc' = [pc EXCEPT ![t] = "refused"]
Admits(t, j) ==
  LET k == key[t]
      n == Len(entries_[k]) - j + 1
  IN  /\ n <= MaxHits[k]
      /\ Len(entries_'[k]) = n
      /\ entries_'[k][n] = now[t]
      /\ Len(admitted'[k]) = Len(admitted[k]) + 1
      /\ \A i \in 1..Len(admitted[k]) : admitted'[k][i] = admitted[k][i]
      /\ admitted'[k][Len(admitted[k]) + 1] = now[t]
      /\ pc' = [pc EXCEPT ![t] = "allowed"]

\* The types of the variables that Decide handles, in the form its proof uses.
LEMMA Shapes ==
  ASSUME TypeOK, NEW k \in Keys
  PROVE  /\ clock \in Nat /\ MaxHits[k] \in Nat \ {0} /\ Len(entries_[k]) <= MaxHits[k]
         /\ entries_[k] \in Seq(0..clock) /\ admitted[k] \in Seq(0..clock)
         /\ Len(entries_[k]) \in Nat /\ Len(admitted[k]) \in Nat
         /\ DOMAIN admitted[k] = 1..Len(admitted[k])
         /\ \A i \in 1..Len(entries_[k]) : entries_[k][i] \in 0..clock /\ entries_[k][i] \in Int
         /\ \A i \in 1..Len(admitted[k]) : admitted[k][i] \in 0..clock /\ admitted[k][i] \in Int
  <1>1. clock \in Nat /\ entries_[k] \in Seq(0..clock) /\ admitted[k] \in Seq(0..clock)
    BY DEF TypeOK
  <1>2. 0..clock \subseteq Int
    BY <1>1
  <1>3. MaxHits[k] \in Nat \ {0} /\ Len(entries_[k]) <= MaxHits[k]
    BY LimitAssumption DEF TypeOK
  <1> QED BY <1>1, <1>2, <1>3, LenProperties, ElementOfSeq

\* Decide, unfolded; the deque and the list keep their types.
LEMMA DecideEffect ==
  ASSUME TypeOK, NEW t \in Threads, Decide(t)
  PROVE  LET k == key[t]
         IN  /\ k \in Keys /\ now[t] \in 0..clock /\ pc[t] = "stamped"
             /\ UNCHANGED <<clock, db_lock, key, now>>
             /\ entries_' \in [Keys -> Seq(0..clock)] /\ admitted' \in [Keys -> Seq(0..clock)]
             /\ \A q \in Keys \ {k} : entries_'[q] = entries_[q] /\ admitted'[q] = admitted[q]
             /\ \E j \in 0..Len(entries_[k]) : Leaves(t, j) /\ (Denies(t, j) \/ Admits(t, j))
  <1> DEFINE k == key[t]
             S == 0..clock
             w == DropExpired(entries_[k], now[t])
  <1>1. /\ k \in Keys /\ now[t] \in S /\ pc[t] = "stamped"
        /\ entries_ \in [Keys -> Seq(S)] /\ admitted \in [Keys -> Seq(S)]
        /\ UNCHANGED <<clock, db_lock, key, now>>
    BY DEF TypeOK, Decide
  <1>2. /\ entries_[k] \in Seq(S) /\ admitted[k] \in Seq(S) /\ S \subseteq Int
        /\ Len(entries_[k]) \in Nat /\ Len(admitted[k]) \in Nat /\ MaxHits[k] \in Nat
        /\ now[t] - Window \in Int
    BY <1>1, Shapes, LimitAssumption
  <1>3. PICK j \in 0..Len(entries_[k]) :
          /\ Len(w) = Len(entries_[k]) - j
          /\ \A i \in 1..(Len(entries_[k]) - j) : w[i] = entries_[k][j + i]
          /\ \A i \in 1..j : entries_[k][i] <= now[t] - Window
          /\ j < Len(entries_[k]) => entries_[k][j + 1] > now[t] - Window
    BY <1>2, DropFront DEF DropExpired
  <1>4. w \in Seq(S)
    BY <1>2, DropFront DEF DropExpired
  <1>5. CASE Full(w, k)
    <2>1. entries_' = [entries_ EXCEPT ![k] = w] /\ admitted' = admitted
          /\ pc' = [pc EXCEPT ![t] = "refused"]
      BY <1>5 DEF Decide
    <2>2. Len(w) >= MaxHits[k]
      BY <1>5 DEF Full
    <2> HIDE DEF w, S
    <2>3. entries_'[k] = w
      BY <1>1, <2>1
    <2>4. Leaves(t, j) /\ Denies(t, j)
      BY <1>3, <2>1, <2>2, <2>3 DEF Leaves, Denies
    <2>5. entries_' \in [Keys -> Seq(S)] /\ admitted' \in [Keys -> Seq(S)]
          /\ \A q \in Keys \ {k} : entries_'[q] = entries_[q] /\ admitted'[q] = admitted[q]
      BY <1>1, <1>4, <2>1
    <2> QED BY <1>1, <2>4, <2>5 DEF S
  <1>6. CASE ~Full(w, k)
    <2>1. entries_' = [entries_ EXCEPT ![k] = Append(w, now[t])]
          /\ admitted' = [admitted EXCEPT ![k] = Append(@, now[t])]
          /\ pc' = [pc EXCEPT ![t] = "allowed"]
      BY <1>6 DEF Decide
    <2>2. Len(w) < MaxHits[k]
      BY <1>2, <1>3, <1>6 DEF Full
    <2> HIDE DEF w, S
    <2>3. entries_'[k] = Append(w, now[t]) /\ admitted'[k] = Append(admitted[k], now[t])
      BY <1>1, <2>1
    <2>4. /\ Append(w, now[t]) \in Seq(S) /\ Len(Append(w, now[t])) = Len(w) + 1
          /\ \A i \in 1..Len(w) : Append(w, now[t])[i] = w[i]
          /\ Append(w, now[t])[Len(w) + 1] = now[t]
      BY <1>1, <1>4, AppendProperties
    <2>5. /\ Append(admitted[k], now[t]) \in Seq(S)
          /\ Len(Append(admitted[k], now[t])) = Len(admitted[k]) + 1
          /\ \A i \in 1..Len(admitted[k]) : Append(admitted[k], now[t])[i] = admitted[k][i]
          /\ Append(admitted[k], now[t])[Len(admitted[k]) + 1] = now[t]
      BY <1>1, <1>2, AppendProperties
    <2>6. Leaves(t, j)
      BY <1>2, <1>3, <2>3, <2>4 DEF Leaves
    <2>7. Admits(t, j)
      <3>1. Len(entries_[k]) - j + 1 = Len(w) + 1 /\ Len(w) + 1 <= MaxHits[k]
        BY <1>2, <1>3, <2>2
      <3>2. /\ Len(entries_'[k]) = Len(w) + 1 /\ entries_'[k][Len(w) + 1] = now[t]
            /\ Len(admitted'[k]) = Len(admitted[k]) + 1
            /\ \A i \in 1..Len(admitted[k]) : admitted'[k][i] = admitted[k][i]
            /\ admitted'[k][Len(admitted[k]) + 1] = now[t]
        BY <1>2, <1>3, <2>3, <2>4, <2>5
      <3> HIDE DEF k
      <3> QED BY <2>1, <3>1, <3>2 DEF Admits, k
    <2>8. entries_' \in [Keys -> Seq(S)] /\ admitted' \in [Keys -> Seq(S)]
          /\ \A q \in Keys \ {k} : entries_'[q] = entries_[q] /\ admitted'[q] = admitted[q]
      BY <1>1, <2>1, <2>4, <2>5
    <2> QED BY <1>1, <2>6, <2>7, <2>8 DEF S
  <1> QED BY <1>5, <1>6

--------------------------------------------------------------------------------
\* Type invariant: Init and every step.
LEMMA TypeInit == Init => TypeOK
  <1> SUFFICES ASSUME Init PROVE TypeOK
    OBVIOUS
  <1>1. clock \in 0..MaxTime /\ 0 \in 0..clock
    BY LimitAssumption DEF Init
  <1>2. <<>> \in Seq(0..clock) /\ Len(<<>>) = 0
    OBVIOUS
  <1>3. \A k \in Keys : Len(entries_[k]) <= MaxHits[k]
    BY <1>2, LimitAssumption DEF Init
  <1> QED BY <1>1, <1>2, <1>3 DEF Init, TypeOK

LEMMA TypeStep == TypeOK /\ [Next]_vars => TypeOK'
  <1> SUFFICES ASSUME TypeOK, [Next]_vars PROVE TypeOK'
    OBVIOUS
  <1>1. CASE Tick
    <2>1. clock \in Nat /\ clock' \in 0..MaxTime /\ clock' = clock + 1
      BY <1>1, LimitAssumption DEF TypeOK, Tick
    <2>2. 0..clock \subseteq 0..clock'
      BY <2>1
    <2>3. entries_' \in [Keys -> Seq(0..clock')] /\ admitted' \in [Keys -> Seq(0..clock')]
      <3>1. entries_ \in [Keys -> Seq(0..clock)] /\ admitted \in [Keys -> Seq(0..clock)]
            /\ entries_' = entries_ /\ admitted' = admitted
        BY <1>1 DEF TypeOK, Tick
      <3>2. \A s \in Seq(0..clock) : s \in Seq(0..clock')
        BY <2>2, SeqMonotonic
      <3> QED BY <3>1, <3>2
    <2>4. now' \in [Threads -> 0..clock']
      BY <1>1, <2>2 DEF TypeOK, Tick
    <2> QED BY <1>1, <2>1, <2>3, <2>4 DEF TypeOK, Tick
  <1>2. ASSUME NEW t \in Threads, NEW k \in Keys, Stamp(t, k) PROVE TypeOK'
    <2>1. clock \in 0..clock
      BY LimitAssumption DEF TypeOK
    <2>2. db_lock' \subseteq Locked /\ \A u, v \in db_lock' : u = v
      BY <1>2 DEF TypeOK, Stamp
    <2>3. now' \in [Threads -> 0..clock'] /\ key' \in [Threads -> Keys]
      BY <1>2, <2>1 DEF TypeOK, Stamp
    <2> QED BY <1>2, <2>2, <2>3 DEF TypeOK, Stamp
  <1>3. ASSUME NEW t \in Threads, Decide(t) PROVE TypeOK'
    <2>1. \A q \in Keys : Len(entries_'[q]) <= MaxHits[q]
      <3> TAKE q \in Keys
      <3>1. CASE q # key[t]
        BY <1>3, <3>1, DecideEffect DEF TypeOK
      <3>2. CASE q = key[t]
        <4>1. PICK j \in 0..Len(entries_[q]) : Denies(t, j) \/ Admits(t, j)
          BY <1>3, <3>2, DecideEffect
        <4>2. Len(entries_[q]) \in Nat /\ Len(entries_[q]) <= MaxHits[q] /\ MaxHits[q] \in Nat
          BY Shapes, LimitAssumption DEF TypeOK
        <4>3. Denies(t, j) => Len(entries_'[q]) = Len(entries_[q]) - j
          BY <3>2 DEF Denies
        <4>4. Admits(t, j) => Len(entries_'[q]) <= MaxHits[q]
          BY <3>2 DEF Admits
        <4> QED BY <4>1, <4>2, <4>3, <4>4
      <3> QED BY <3>1, <3>2
    <2>2. pc' \in [Threads -> {"idle", "stamped", "allowed", "refused"}]
      BY <1>3 DEF TypeOK, Decide
    <2>3. UNCHANGED <<clock, db_lock, key, now>>
          /\ entries_' \in [Keys -> Seq(0..clock')] /\ admitted' \in [Keys -> Seq(0..clock')]
      BY <1>3, DecideEffect
    <2> QED BY <2>1, <2>2, <2>3 DEF TypeOK
  <1>4. ASSUME NEW t \in Threads, Return(t) PROVE TypeOK'
    BY <1>4 DEF TypeOK, Return
  <1>5. CASE UNCHANGED vars
    BY <1>5 DEF TypeOK, vars
  <1> QED BY <1>1, <1>2, <1>3, <1>4, <1>5 DEF Next

\* Every state of the limiter has its type, whoever calls it: in particular the
\* deque of a client (entries_ of ratelimit.h) never holds more than max_hits_ stamps.
THEOREM TypeCorrect == Spec => []TypeOK
  <1> QED BY TypeInit, TypeStep, PTL DEF Spec

--------------------------------------------------------------------------------
\* What holds for every limiter: Init and every step.
LEMMA LockInit == Init => LockInv
  <1> SUFFICES ASSUME Init PROVE LockInv
    OBVIOUS
  <1>1. \A k \in Keys : Len(admitted[k]) = 0 /\ Len(entries_[k]) = 0 /\ DOMAIN admitted[k] = {}
    BY DEF Init
  <1>2. \A t \in Threads : pc[t] = "idle"
    BY DEF Init
  <1>3. Suffix
    <2>1. \A k \in Keys : 1..Len(entries_[k]) = {} /\ Dropped(k) = 0
      BY <1>1 DEF Dropped
    <2> QED BY <2>1 DEF Suffix
  <1>4. Overrun
    <2>1. \A k \in Keys, s \in 0..MaxTime : AllowedFrom(k, s) = {}
      BY <1>1 DEF AllowedFrom
    <2> QED BY <2>1 DEF Overrun
  <1>5. OwnKeys /\ OneCall
    BY <1>2, LockedAssumption DEF OwnKeys, OneCall
  <1> QED BY <1>3, <1>4, <1>5 DEF LockInv

\* What was admitted and dropped is not disturbed by a step that leaves the deques and
\* the list alone; such a step adds no call to a window that is over.
LEMMA QuietSuffix ==
  ASSUME UNCHANGED <<entries_, admitted>>, Suffix
  PROVE  Suffix'
  BY DEF Suffix, Dropped

LEMMA QuietOverrun ==
  ASSUME UNCHANGED <<entries_, admitted>>, Overrun, clock \in Nat, clock' \in Nat, clock <= clock',
         \A k \in Keys, s \in 0..MaxTime : clock >= s + Window => Pending(k, s)' = Pending(k, s)
  PROVE  Overrun'
  <1> SUFFICES ASSUME NEW k \in Keys, NEW s \in 0..MaxTime
               PROVE  \/ \A i \in AllowedFrom(k, s)' : i > Dropped(k)'
                      \/ /\ clock' >= s + Window
                         /\ Cardinality(AllowedFrom(k, s)') + Cardinality(Pending(k, s)')
                              <= MaxHits[k] + Cardinality(Threads \ Locked)
    BY DEF Overrun
  <1>1. AllowedFrom(k, s)' = AllowedFrom(k, s) /\ Dropped(k)' = Dropped(k)
    BY DEF AllowedFrom, Dropped
  <1>2. CASE \A i \in AllowedFrom(k, s) : i > Dropped(k)
    BY <1>1, <1>2
  <1>3. CASE /\ clock >= s + Window
             /\ Cardinality(AllowedFrom(k, s)) + Cardinality(Pending(k, s))
                  <= MaxHits[k] + Cardinality(Threads \ Locked)
    <2>1. Pending(k, s)' = Pending(k, s)
      BY <1>3
    <2>2. clock' >= s + Window
      BY <1>3, LimitAssumption
    <2> QED BY <1>1, <1>3, <2>1, <2>2
  <1> QED BY <1>2, <1>3 DEF Overrun

\* Besides one call there are no more others than callers without DbLock: at most one
\* of all that are in a call holds it.
LEMMA OthersFew ==
  ASSUME TypeOK, OneCall, NEW t \in Threads, pc[t] # "idle",
         NEW S, S \subseteq Threads \ {t}, \A u \in S : pc[u] # "idle"
  PROVE  /\ IsFiniteSet(S) /\ Cardinality(S) \in Nat /\ Cardinality(Threads \ Locked) \in Nat
         /\ Cardinality(S) <= Cardinality(Threads \ Locked)
  <1> DEFINE U == Threads \ Locked
  <1>1. IsFiniteSet(U) /\ IsFiniteSet(S) /\ Cardinality(U) \in Nat /\ Cardinality(S) \in Nat
    <2>1. IsFiniteSet(U) /\ IsFiniteSet(S)
      BY LockedAssumption, FS_Subset
    <2> HIDE DEF U
    <2> QED BY <2>1, FS_CardinalityType
  <1>2. \A u, v \in Locked : pc[u] # "idle" /\ pc[v] # "idle" => u = v
    BY DEF OneCall, TypeOK
  <1>3. CASE S \subseteq U
    <2> HIDE DEF U
    <2> QED BY <1>1, <1>3, FS_Subset DEF U
  <1>4. CASE ~(S \subseteq U)
    <2>1. PICK v \in S : v \in Locked
      BY <1>4
    <2>2. t \in U /\ S \subseteq (U \ {t}) \cup {v} /\ v \notin U \ {t}
      BY <1>2, <2>1
    <2> DEFINE R == U \ {t}
    <2>3. IsFiniteSet(R) /\ Cardinality(R) = Cardinality(U) - 1
      <3> HIDE DEF U
      <3> QED BY <1>1, <2>2, FS_RemoveElement
    <2>4. IsFiniteSet(R \cup {v}) /\ Cardinality(R \cup {v}) = Cardinality(R) + 1
      <3>1. v \notin R
        BY <2>2
      <3> HIDE DEF R
      <3> QED BY <2>3, <3>1, FS_AddElement
    <2>5. Cardinality(S) <= Cardinality(R \cup {v})
      <3>1. S \subseteq R \cup {v}
        BY <2>2
      <3> HIDE DEF R
      <3> QED BY <2>4, <3>1, FS_Subset
    <2> HIDE DEF R, U
    <2>6. Cardinality(S) <= Cardinality(U)
      BY <1>1, <2>3, <2>4, <2>5
    <2> QED BY <1>1, <2>6 DEF U
  <1> QED BY <1>3, <1>4

\* A window of which nothing was dropped is in the deque, which is within the limit.
LEMMA KeptFew ==
  ASSUME TypeOK, Suffix, NEW k \in Keys, NEW s \in Int,
         \A i \in AllowedFrom(k, s) : i > Dropped(k)
  PROVE  Cardinality(AllowedFrom(k, s)) <= MaxHits[k]
  <1> DEFINE A == AllowedFrom(k, s)
             m == Len(entries_[k])
             n == Len(admitted[k])
             first == n - m + 1
  <1>1. m \in Nat /\ n \in Nat /\ n - m >= 0 /\ m <= MaxHits[k] /\ MaxHits[k] \in Nat
    BY Shapes DEF Suffix, Dropped
  <1>2. A \subseteq 1..n /\ \A i \in A : i > n - m
    BY Shapes DEF AllowedFrom, Dropped
  <1> HIDE DEF A, m, n
  <1>3. A \subseteq first..n
    BY <1>1, <1>2
  <1>4. IsFiniteSet(first..n) /\ Cardinality(first..n) = m
    <2>1. first \in Int /\ n \in Int /\ (first > n => m = 0) /\ n - first + 1 = m
      BY <1>1
    <2> HIDE DEF first
    <2> QED BY <2>1, FS_Interval
  <1>5. IsFiniteSet(A) /\ Cardinality(A) \in Nat /\ Cardinality(A) <= m
    <2> HIDE DEF first
    <2> QED BY <1>3, <1>4, FS_Subset, FS_CardinalityType
  <1>6. Cardinality(A) <= MaxHits[k]
    BY <1>1, <1>5
  <1> QED BY <1>6 DEF A

\* Both sets that are counted are finite.
LEMMA CountedFinite ==
  ASSUME TypeOK, NEW k \in Keys, NEW s \in Int
  PROVE  /\ IsFiniteSet(AllowedFrom(k, s)) /\ Cardinality(AllowedFrom(k, s)) \in Nat
         /\ IsFiniteSet(Pending(k, s)) /\ Cardinality(Pending(k, s)) \in Nat
         /\ Cardinality(Threads \ Locked) \in Nat
  <1>1. Len(admitted[k]) \in Nat /\ AllowedFrom(k, s) \subseteq 1..Len(admitted[k])
    BY Shapes DEF AllowedFrom
  <1>2. IsFiniteSet(1..Len(admitted[k]))
    BY <1>1, FS_Interval
  <1>3. Pending(k, s) \subseteq Threads /\ Threads \ Locked \subseteq Threads
    BY DEF Pending
  <1> QED BY <1>1, <1>2, <1>3, LockedAssumption, FS_Subset, FS_CardinalityType

\* The decision of a call: the deque stays the end of the list.
LEMMA DecideSuffix ==
  ASSUME TypeOK, Suffix, NEW t \in Threads, Decide(t)
  PROVE  Suffix'
  <1>1. PICK k \in Keys : k = key[t]
    BY DecideEffect
  <1> DEFINE m == Len(entries_[k])
             n == Len(admitted[k])
             d == n - m
  <1>2. \A q \in Keys \ {k} : entries_'[q] = entries_[q] /\ admitted'[q] = admitted[q]
    BY <1>1, DecideEffect
  <1>3. PICK j \in 0..m : Leaves(t, j) /\ (Denies(t, j) \/ Admits(t, j))
    BY <1>1, DecideEffect
  <1>4. m \in Nat /\ n \in Nat /\ d \in Int /\ d = n - m /\ j \in 0..m /\ j \in Nat
    BY <1>3, Shapes
  <1>5. d >= 0 /\ \A i \in 1..m : entries_[k][i] = admitted[k][d + i]
    BY DEF Suffix, Dropped
  <1>6. \A i \in 1..(m - j) : entries_'[k][i] = entries_[k][j + i]
    BY <1>1, <1>3 DEF Leaves
  <1>7. Denies(t, j) => Len(entries_'[k]) = m - j /\ admitted' = admitted
    BY <1>1 DEF Denies
  <1>8. Admits(t, j) =>
          /\ Len(entries_'[k]) = m - j + 1 /\ entries_'[k][m - j + 1] = now[t]
          /\ Len(admitted'[k]) = n + 1 /\ admitted'[k][n + 1] = now[t]
          /\ \A i \in 1..n : admitted'[k][i] = admitted[k][i]
    BY <1>1 DEF Admits
  <1>9. Len(entries_[k]) = m /\ Len(admitted[k]) = n
    OBVIOUS
  <1> HIDE DEF m, n, d
  <1> SUFFICES ASSUME NEW q \in Keys
               PROVE  /\ Dropped(q)' >= 0
                      /\ \A i \in 1..Len(entries_'[q]) : entries_'[q][i] = admitted'[q][Dropped(q)' + i]
    BY DEF Suffix
  <1>10. CASE q # k
    BY <1>2, <1>10 DEF Suffix, Dropped
  <1>11. CASE q = k /\ Denies(t, j)
    <2>1. Len(entries_'[k]) = m - j /\ admitted' = admitted
      BY <1>7, <1>11
    <2>2. Dropped(q)' = d + j
      BY <1>4, <1>9, <1>11, <2>1 DEF Dropped
    <2>3. ASSUME NEW i \in 1..(m - j) PROVE entries_'[k][i] = admitted[k][(d + j) + i]
      <3>1. j + i \in 1..m /\ d + (j + i) = (d + j) + i
        BY <1>4
      <3> QED BY <1>5, <1>6, <3>1
    <2> QED BY <1>4, <1>5, <1>11, <2>1, <2>2, <2>3
  <1>12. CASE q = k /\ Admits(t, j)
    <2> DEFINE e == m - j + 1
    <2>1. /\ Len(entries_'[k]) = e /\ entries_'[k][e] = now[t]
          /\ Len(admitted'[k]) = n + 1 /\ admitted'[k][n + 1] = now[t]
          /\ \A i \in 1..n : admitted'[k][i] = admitted[k][i]
      BY <1>8, <1>12
    <2>2. Dropped(q)' = d + j
      BY <1>4, <1>12, <2>1 DEF Dropped
    <2>3. ASSUME NEW i \in 1..e PROVE entries_'[k][i] = admitted'[k][(d + j) + i]
      <3>1. CASE i = e
        <4>1. (d + j) + i = n + 1
          BY <1>4, <3>1
        <4> QED BY <2>1, <3>1, <4>1
      <3>2. CASE i # e
        <4>1. i \in 1..(m - j) /\ j + i \in 1..m /\ d + (j + i) = (d + j) + i /\ (d + j) + i \in 1..n
          BY <1>4, <1>5, <3>2
        <4> QED BY <1>5, <1>6, <2>1, <4>1
      <3> QED BY <3>1, <3>2
    <2>4. d + j >= 0
      BY <1>4, <1>5
    <2> QED BY <1>12, <2>1, <2>2, <2>3, <2>4
  <1> QED BY <1>3, <1>10, <1>11, <1>12

\* The decision of a call, for one window of its client: the stamp it adds may be in
\* the window, and it drops stamps of the window only when that is over for itself.
LEMMA DecideWindow ==
  ASSUME TypeOK, Suffix, NEW t \in Threads, Decide(t), NEW k \in Keys, k = key[t],
         NEW s \in 0..MaxTime
  PROVE  LET inside == now[t] \in s..(s + Window - 1)
             A == AllowedFrom(k, s)
             n == Len(admitted[k])
         IN  /\ A' = A \/ (inside /\ A' = A \cup {n + 1})
             /\ n + 1 \notin A
             /\ Pending(k, s)' = Pending(k, s) \ {t}
             /\ inside <=> t \in Pending(k, s)
             /\ \/ \A i \in A : i > Dropped(k) => i > Dropped(k)'
                \/ clock >= s + Window /\ ~inside
             /\ n + 1 > Dropped(k)'
  <1> DEFINE m == Len(entries_[k])
             n == Len(admitted[k])
             d == n - m
             A == AllowedFrom(k, s)
             inside == now[t] \in s..(s + Window - 1)
  <1>1. now[t] \in 0..clock /\ pc[t] = "stamped" /\ UNCHANGED <<clock, key, now>>
    BY DecideEffect
  <1>2. PICK j \in 0..m : Leaves(t, j) /\ (Denies(t, j) \/ Admits(t, j))
    BY DecideEffect
  <1>3. /\ m \in Nat /\ n \in Nat /\ d \in Int /\ d = n - m /\ j \in 0..m /\ j \in Nat
        /\ now[t] \in Nat /\ clock \in Nat /\ now[t] <= clock /\ Window \in Nat \ {0} /\ s \in Nat
    BY <1>1, <1>2, Shapes, LimitAssumption
  <1>4. d >= 0 /\ \A i \in 1..m : entries_[k][i] = admitted[k][d + i]
    BY DEF Suffix, Dropped
  <1>5. A = {i \in 1..n : admitted[k][i] \in s..(s + Window - 1)}
    BY Shapes DEF AllowedFrom
  <1>6. Dropped(k) = d
    BY DEF Dropped
  <1>7. \A i \in 1..j : entries_[k][i] <= now[t] - Window
    BY <1>2 DEF Leaves
  <1>8. \/ pc' = [pc EXCEPT ![t] = "refused"] /\ admitted' = admitted /\ Len(entries_'[k]) = m - j
        \/ /\ pc' = [pc EXCEPT ![t] = "allowed"]
           /\ Len(entries_'[k]) = m - j + 1
           /\ Len(admitted'[k]) = n + 1 /\ admitted'[k][n + 1] = now[t]
           /\ \A i \in 1..n : admitted'[k][i] = admitted[k][i]
    BY <1>2 DEF Denies, Admits
  <1>9. \A u \in Threads \ {t} : pc'[u] = pc[u]
    BY <1>8 DEF TypeOK
  <1>10. pc'[t] # "stamped"
    BY <1>8 DEF TypeOK
  <1>11. Pending(k, s)' = Pending(k, s) \ {t} /\ (inside <=> t \in Pending(k, s))
    BY <1>1, <1>9, <1>10 DEF Pending
  <1>12. DOMAIN admitted'[k] = 1..Len(admitted'[k])
    <2>1. admitted'[k] \in Seq(0..clock)
      BY DecideEffect
    <2> QED BY <2>1, LenProperties
  <1>13. Len(admitted[k]) = n /\ Len(entries_[k]) = m
    OBVIOUS
  <1>14. AllowedFrom(k, s)' = {i \in 1..Len(admitted'[k]) : admitted'[k][i] \in s..(s + Window - 1)}
    BY <1>12 DEF AllowedFrom
  <1> HIDE DEF m, n, d, A
  <1>15. A' = A \/ (inside /\ A' = A \cup {n + 1})
    <2>1. CASE admitted' = admitted
      BY <2>1 DEF A, AllowedFrom
    <2>2. CASE /\ Len(admitted'[k]) = n + 1 /\ admitted'[k][n + 1] = now[t]
               /\ \A i \in 1..n : admitted'[k][i] = admitted[k][i]
      <3>1. 1..(n + 1) = (1..n) \cup {n + 1} /\ n + 1 \notin 1..n
        BY <1>3
      <3>2. AllowedFrom(k, s)' = A \cup {i \in {n + 1} : inside}
        BY <1>5, <1>14, <2>2, <3>1
      <3> QED BY <3>2 DEF A
    <2> QED BY <1>8, <2>1, <2>2
  <1>16. Dropped(k)' = d + j
    <2>1. CASE admitted' = admitted /\ Len(entries_'[k]) = m - j
      <3>1. Len(admitted'[k]) = n
        BY <1>13, <2>1
      <3> QED BY <1>3, <2>1, <3>1 DEF Dropped
    <2>2. CASE Len(admitted'[k]) = n + 1 /\ Len(entries_'[k]) = m - j + 1
      BY <1>3, <2>2 DEF Dropped
    <2> QED BY <1>8, <2>1, <2>2
  <1>17. n + 1 > d + j
    BY <1>3
  <1>18. n + 1 \notin A
    BY <1>3, <1>5
  <1>19. \/ \A i \in A : i > d => i > d + j
         \/ clock >= s + Window /\ ~inside
    <2> SUFFICES ASSUME NEW i \in A, i > d, ~(i > d + j)
                 PROVE  clock >= s + Window /\ ~inside
      OBVIOUS
    <2>1. i \in 1..n /\ admitted[k][i] \in Int /\ admitted[k][i] >= s
      BY <1>3, <1>5
    <2>2. i - d \in 1..j /\ i - d \in 1..m /\ d + (i - d) = i
      BY <1>3, <2>1
    <2>3. admitted[k][i] <= now[t] - Window
      BY <1>4, <1>7, <2>2
    <2>4. now[t] >= s + Window
      BY <1>3, <2>1, <2>3
    <2> QED BY <1>3, <2>4
  <1> QED BY <1>6, <1>11, <1>15, <1>16, <1>17, <1>18, <1>19 DEF A, n

\* Of the call that drops stamps of a window, and of those that wait for it: they
\* explain what is more than the limit.
LEMMA DecideOverrun ==
  ASSUME TypeOK, OneCall, Suffix, Overrun, NEW t \in Threads, Decide(t)
  PROVE  Overrun'
  <1> SUFFICES ASSUME NEW k \in Keys, NEW s \in 0..MaxTime
               PROVE  \/ \A i \in AllowedFrom(k, s)' : i > Dropped(k)'
                      \/ /\ clock' >= s + Window
                         /\ Cardinality(AllowedFrom(k, s)') + Cardinality(Pending(k, s)')
                              <= MaxHits[k] + Cardinality(Threads \ Locked)
    BY DEF Overrun
  <1>1. UNCHANGED <<clock, key, now>> /\ pc[t] = "stamped" /\ key[t] \in Keys
    BY DecideEffect
  <1>2. s \in Int /\ MaxHits[k] \in Nat /\ clock \in Nat /\ Window \in Nat
    BY Shapes, LimitAssumption
  <1>3. \/ \A i \in AllowedFrom(k, s) : i > Dropped(k)
        \/ /\ clock >= s + Window
           /\ Cardinality(AllowedFrom(k, s)) + Cardinality(Pending(k, s))
                <= MaxHits[k] + Cardinality(Threads \ Locked)
    BY DEF Overrun
  <1>4. CASE k # key[t]
    <2>1. entries_'[k] = entries_[k] /\ admitted'[k] = admitted[k]
      BY <1>4, DecideEffect
    <2>2. AllowedFrom(k, s)' = AllowedFrom(k, s) /\ Dropped(k)' = Dropped(k)
      BY <2>1 DEF AllowedFrom, Dropped
    <2>3. \A u \in Threads \ {t} : pc'[u] = pc[u]
      BY DEF Decide, TypeOK
    <2>4. Pending(k, s)' = Pending(k, s)
      BY <1>1, <1>4, <2>3 DEF Pending
    <2> QED BY <1>1, <1>3, <2>2, <2>4
  <1>5. CASE k = key[t]
    <2> DEFINE inside == now[t] \in s..(s + Window - 1)
               A == AllowedFrom(k, s)
               P == Pending(k, s)
               next == Len(admitted[k]) + 1
               free == Cardinality(Threads \ Locked)
    <2>1. /\ A' = A \/ (inside /\ A' = A \cup {next})
          /\ next \notin A /\ P' = P \ {t} /\ (inside <=> t \in P)
          /\ (\A i \in A : i > Dropped(k) => i > Dropped(k)') \/ (clock >= s + Window /\ ~inside)
          /\ next > Dropped(k)'
      BY <1>5, DecideWindow
    <2>2. /\ IsFiniteSet(A) /\ Cardinality(A) \in Nat /\ IsFiniteSet(P) /\ Cardinality(P) \in Nat
          /\ free \in Nat
      BY <1>2, CountedFinite
    <2>3. /\ P \subseteq Threads /\ \A u \in P : pc[u] # "idle"
      BY DEF Pending
    <2>4. (\A i \in A : i > Dropped(k)) => Cardinality(A) <= MaxHits[k]
      BY <1>2, KeptFew
    <2>5. P \ {t} \subseteq Threads \ {t} /\ \A u \in P \ {t} : pc[u] # "idle"
      BY <2>3
    <2>6. Cardinality(P \ {t}) \in Nat /\ Cardinality(P \ {t}) <= free
      BY <1>1, <2>5, OthersFew
    <2> SUFFICES \/ \A i \in A' : i > Dropped(k)'
                 \/ /\ clock >= s + Window
                    /\ Cardinality(A') + Cardinality(P') <= MaxHits[k] + free
      BY <1>1
    <2> HIDE DEF A, P, free, inside, next
    <2>7. CASE (\A i \in A : i > Dropped(k)) /\ \A i \in A : i > Dropped(k) => i > Dropped(k)'
      BY <2>1, <2>7
    <2>8. CASE (\A i \in A : i > Dropped(k)) /\ clock >= s + Window /\ ~inside
      <3>1. A' = A /\ P' = P \ {t} /\ Cardinality(A) <= MaxHits[k]
        BY <2>1, <2>4, <2>8
      <3> QED BY <1>2, <2>2, <2>6, <2>8, <3>1
    <2>9. CASE clock >= s + Window /\ Cardinality(A) + Cardinality(P) <= MaxHits[k] + free
      <3>1. CASE inside
        <4>1. Cardinality(P') = Cardinality(P) - 1
          BY <2>1, <2>2, <3>1, FS_RemoveElement
        <4>2. Cardinality(A') <= Cardinality(A) + 1 /\ Cardinality(A') \in Nat
          <5>1. Cardinality(A \cup {next}) = Cardinality(A) + 1
            BY <2>1, <2>2, FS_AddElement
          <5> QED BY <2>1, <2>2, <5>1
        <4> QED BY <1>2, <2>2, <2>9, <4>1, <4>2
      <3>2. CASE ~inside
        <4>1. A' = A /\ P' = P
          BY <2>1, <3>2
        <4> QED BY <2>9, <4>1
      <3> QED BY <3>1, <3>2
    <2> QED BY <1>3, <2>1, <2>7, <2>8, <2>9 DEF A, P, free
  <1> QED BY <1>4, <1>5

\* A step of any thread, or of time.
LEMMA LockStep == TypeOK /\ LockInv /\ [Next]_vars => LockInv'
  <1> SUFFICES ASSUME TypeOK, LockInv, [Next]_vars PROVE LockInv'
    OBVIOUS
  <1>1. OwnKeys /\ OneCall /\ Suffix /\ Overrun /\ clock \in Nat
    BY LimitAssumption DEF LockInv, TypeOK
  <1>2. CASE UNCHANGED vars
    <2>1. \A k \in Keys, s \in 0..MaxTime : Pending(k, s)' = Pending(k, s)
      BY <1>2 DEF vars, Pending
    <2>2. Suffix' /\ Overrun'
      BY <1>1, <1>2, <2>1, QuietSuffix, QuietOverrun DEF vars
    <2> QED BY <1>1, <1>2, <2>2 DEF vars, LockInv, OwnKeys, OneCall
  <1>3. CASE Tick
    <2>1. clock' \in Nat /\ clock <= clock' /\ UNCHANGED <<entries_, db_lock, pc, key, now, admitted>>
      BY <1>1, <1>3 DEF Tick
    <2>2. \A k \in Keys, s \in 0..MaxTime : Pending(k, s)' = Pending(k, s)
      BY <2>1 DEF Pending
    <2>3. Suffix' /\ Overrun'
      BY <1>1, <2>1, <2>2, QuietSuffix, QuietOverrun
    <2> QED BY <1>1, <2>1, <2>3 DEF LockInv, OwnKeys, OneCall
  <1>4. ASSUME NEW t \in Threads, NEW k \in Keys, Stamp(t, k) PROVE LockInv'
    <2>1. /\ pc[t] = "idle" /\ (t \in Locked \/ k \in LoginKeys)
          /\ key' = [key EXCEPT ![t] = k] /\ now' = [now EXCEPT ![t] = clock]
          /\ pc' = [pc EXCEPT ![t] = "stamped"] /\ UNCHANGED <<clock, entries_, admitted>>
      BY <1>4 DEF Stamp
    <2>2. \A u \in Threads \ {t} : pc'[u] = pc[u] /\ key'[u] = key[u] /\ now'[u] = now[u]
      BY <2>1 DEF TypeOK
    <2>3. key'[t] = k /\ now'[t] = clock
      BY <2>1 DEF TypeOK
    <2>4. ASSUME NEW q \in Keys, NEW s \in 0..MaxTime, clock >= s + Window
          PROVE  Pending(q, s)' = Pending(q, s)
      <3>1. now'[t] \notin s..(s + Window - 1)
        BY <1>1, <2>3, <2>4, LimitAssumption
      <3> QED BY <2>1, <2>2, <3>1 DEF Pending
    <2>5. Suffix' /\ Overrun'
      BY <1>1, <2>1, <2>4, QuietSuffix, QuietOverrun
    <2>6. OwnKeys'
      BY <1>1, <2>1, <2>2, <2>3 DEF OwnKeys
    <2>7. OneCall'
      <3>1. CASE t \in Locked
        <4>1. db_lock = {} /\ db_lock' = {t}
          BY <1>4, <3>1 DEF Stamp
        <4>2. \A u \in Locked : pc[u] = "idle"
          BY <1>1, <4>1 DEF OneCall
        <4> QED BY <2>2, <4>1, <4>2, LockedAssumption DEF OneCall
      <3>2. CASE t \notin Locked
        <4>1. db_lock' = db_lock
          BY <1>4, <3>2 DEF Stamp
        <4> QED BY <1>1, <2>2, <3>2, <4>1, LockedAssumption DEF OneCall
      <3> QED BY <3>1, <3>2
    <2> QED BY <2>5, <2>6, <2>7 DEF LockInv
  <1>5. ASSUME NEW t \in Threads, Decide(t) PROVE LockInv'
    <2>1. Suffix' /\ Overrun'
      BY <1>1, <1>5, DecideSuffix, DecideOverrun
    <2>2. UNCHANGED <<db_lock, key>> /\ \A u \in Threads : pc'[u] # "idle" => pc[u] # "idle"
      BY <1>5 DEF Decide, TypeOK
    <2> QED BY <1>1, <2>1, <2>2, LockedAssumption DEF LockInv, OwnKeys, OneCall
  <1>6. ASSUME NEW t \in Threads, Return(t) PROVE LockInv'
    <2>1. /\ UNCHANGED <<clock, entries_, key, now, admitted>> /\ db_lock' = db_lock \ {t}
          /\ pc[t] # "stamped" /\ pc' = [pc EXCEPT ![t] = "idle"]
      BY <1>6 DEF Return
    <2>2. pc'[t] = "idle" /\ \A u \in Threads \ {t} : pc'[u] = pc[u]
      BY <2>1 DEF TypeOK
    <2>3. \A k \in Keys, s \in 0..MaxTime : Pending(k, s)' = Pending(k, s)
      BY <2>1, <2>2 DEF Pending
    <2>4. Suffix' /\ Overrun'
      BY <1>1, <2>1, <2>3, QuietSuffix, QuietOverrun
    <2>5. OwnKeys' /\ OneCall'
      BY <1>1, <2>1, <2>2, LockedAssumption DEF OwnKeys, OneCall
    <2> QED BY <2>4, <2>5 DEF LockInv
  <1> QED BY <1>2, <1>3, <1>4, <1>5, <1>6 DEF Next
--------------------------------------------------------------------------------
\* What holds for registrations: Init and every step.
LEMMA RegisterInit == Init => RegisterInv
  <1> SUFFICES ASSUME Init PROVE RegisterInv
    OBVIOUS
  <1>1. \A k \in Keys : Len(admitted[k]) = 0 /\ Len(entries_[k]) = 0
    BY DEF Init
  <1>2. \A t \in Threads : pc[t] = "idle"
    BY DEF Init
  <1>3. Sorted /\ Spaced
    <2>1. \A k \in RegisterKeys : 1..Len(admitted[k]) = {}
      BY <1>1 DEF RegisterKeys
    <2> QED BY <2>1 DEF Sorted, Spaced
  <1>4. Past /\ Refused
    BY <1>1, <1>2, LockedAssumption DEF Past, SeenFrom, Refused, RegisterKeys
  <1> QED BY <1>3, <1>4 DEF RegisterInv

\* What was admitted and seen is not disturbed by a step that leaves alone the deque
\* and the list of every registration key.
LEMMA Undisturbed ==
  ASSUME \A k \in RegisterKeys : entries_'[k] = entries_[k] /\ admitted'[k] = admitted[k],
         Sorted, Spaced
  PROVE  Sorted' /\ Spaced' /\ \A x : SeenFrom(x) => SeenFrom(x)'
  BY DEF Sorted, Spaced, SeenFrom, Dropped

\* Time passes.
LEMMA TickRegister ==
  ASSUME TypeOK, RegisterInv, Tick
  PROVE  RegisterInv'
  <1>1. UNCHANGED <<entries_, db_lock, pc, key, now, admitted>> /\ clock' = clock + 1
    BY DEF Tick
  <1>2. Sorted' /\ Spaced' /\ \A x : SeenFrom(x) => SeenFrom(x)'
    BY <1>1, Undisturbed DEF RegisterInv
  <1>3. SeenFrom(clock + 1)
    <2> SUFFICES ASSUME NEW k \in RegisterKeys, NEW i \in 1..Len(admitted[k])
                 PROVE  /\ admitted[k][i] <= clock + 1
                        /\ i <= Dropped(k) => admitted[k][i] + Window <= clock + 1
      BY DEF SeenFrom
    <2>1. admitted[k][i] \in Int /\ clock \in Int /\ Window \in Int
      BY Shapes, LimitAssumption DEF RegisterKeys
    <2>2. admitted[k][i] <= clock /\ (i <= Dropped(k) => admitted[k][i] + Window <= clock)
      BY DEF RegisterInv, Past, SeenFrom
    <2> QED BY <2>1, <2>2
  <1>4. Past'
    BY <1>1, <1>2, <1>3 DEF RegisterInv, Past
  <1>5. Refused'
    BY <1>1 DEF RegisterInv, Refused
  <1> QED BY <1>2, <1>4, <1>5 DEF RegisterInv

\* A handler begins: it sees what has been admitted so far.
LEMMA StampRegister ==
  ASSUME TypeOK, RegisterInv, NEW t \in Threads, NEW k \in Keys, Stamp(t, k)
  PROVE  RegisterInv'
  <1>1. /\ UNCHANGED <<clock, entries_, admitted>>
        /\ key' = [key EXCEPT ![t] = k] /\ now' = [now EXCEPT ![t] = clock]
        /\ pc' = [pc EXCEPT ![t] = "stamped"]
    BY DEF Stamp
  <1>2. Sorted' /\ Spaced' /\ \A x : SeenFrom(x) => SeenFrom(x)'
    BY <1>1, Undisturbed DEF RegisterInv
  <1>3. /\ \A u \in Threads \ {t} : pc'[u] = pc[u] /\ key'[u] = key[u] /\ now'[u] = now[u]
        /\ pc'[t] = "stamped" /\ now'[t] = clock
    BY <1>1 DEF TypeOK
  <1>4. Past'
    <2>1. SeenFrom(clock)' /\ clock' = clock
      BY <1>1, <1>2 DEF RegisterInv, Past
    <2>2. ASSUME NEW u \in Locked, pc'[u] # "idle" PROVE SeenFrom(now[u])'
      <3>1. CASE u = t
        BY <1>1, <1>2, <1>3, <3>1 DEF RegisterInv, Past, SeenFrom, Dropped
      <3>2. CASE u # t
        <4>1. now'[u] = now[u] /\ SeenFrom(now[u])
          BY <1>3, <2>2, <3>2, LockedAssumption DEF RegisterInv, Past
        <4> QED BY <1>1, <4>1 DEF SeenFrom, Dropped
      <3> QED BY <3>1, <3>2
    <2> QED BY <2>1, <2>2 DEF Past
  <1>5. Refused'
    <2> SUFFICES ASSUME NEW u \in Threads, pc'[u] = "refused", key'[u] \in RegisterKeys
                 PROVE  /\ Len(entries_'[key'[u]]) >= MaxHits[key'[u]]
                        /\ \A i \in 1..Len(entries_'[key'[u]]) : entries_'[key'[u]][i] > now'[u] - Window
      BY DEF Refused
    <2>1. u # t
      BY <1>3
    <2> QED BY <1>1, <1>3, <2>1 DEF RegisterInv, Refused
  <1> QED BY <1>2, <1>4, <1>5 DEF RegisterInv

\* A handler returns.
LEMMA ReturnRegister ==
  ASSUME TypeOK, RegisterInv, NEW t \in Threads, Return(t)
  PROVE  RegisterInv'
  <1>1. UNCHANGED <<clock, entries_, key, now, admitted>>
    BY DEF Return
  <1>2. Sorted' /\ Spaced' /\ \A x : SeenFrom(x) => SeenFrom(x)'
    BY <1>1, Undisturbed DEF RegisterInv
  <1>3. \A u \in Threads : pc'[u] # "idle" => u # t /\ pc'[u] = pc[u]
    BY DEF Return, TypeOK
  <1>4. Past'
    BY <1>1, <1>2, <1>3, LockedAssumption DEF RegisterInv, Past
  <1>5. Refused'
    BY <1>1, <1>3 DEF RegisterInv, Refused
  <1> QED BY <1>2, <1>4, <1>5 DEF RegisterInv

\* A login is decided: no registration notices.
LEMMA LoginDecided ==
  ASSUME TypeOK, RegisterInv, NEW t \in Threads, Decide(t), key[t] \in LoginKeys
  PROVE  RegisterInv'
  <1>1. UNCHANGED <<clock, db_lock, key, now>>
    BY DecideEffect
  <1>2. \A q \in RegisterKeys : entries_'[q] = entries_[q] /\ admitted'[q] = admitted[q]
    BY DecideEffect DEF RegisterKeys
  <1>3. Sorted' /\ Spaced' /\ \A x : SeenFrom(x) => SeenFrom(x)'
    BY <1>2, Undisturbed DEF RegisterInv
  <1>4. \A u \in Threads : (pc'[u] # "idle" => pc[u] # "idle") /\ (u # t => pc'[u] = pc[u])
    BY DEF Decide, TypeOK
  <1>5. Past'
    BY <1>1, <1>3, <1>4, LockedAssumption DEF RegisterInv, Past
  <1>6. Refused'
    <2> SUFFICES ASSUME NEW u \in Threads, pc'[u] = "refused", key'[u] \in RegisterKeys
                 PROVE  /\ Len(entries_'[key'[u]]) >= MaxHits[key'[u]]
                        /\ \A i \in 1..Len(entries_'[key'[u]]) : entries_'[key'[u]][i] > now'[u] - Window
      BY DEF Refused
    <2>1. u # t /\ pc[u] = "refused" /\ key[u] \in RegisterKeys
      BY <1>1, <1>4 DEF RegisterKeys
    <2>2. entries_'[key[u]] = entries_[key[u]]
      BY <1>2, <2>1
    <2> QED BY <1>1, <2>1, <2>2 DEF RegisterInv, Refused
  <1> QED BY <1>3, <1>5, <1>6 DEF RegisterInv

\* A registration is decided: its handler holds DbLock, so no other one is in a call,
\* and it has seen all admissions.
LEMMA RegistrationDecided ==
  ASSUME TypeOK, LockInv, RegisterInv, NEW t \in Threads, Decide(t), key[t] \in RegisterKeys
  PROVE  RegisterInv'
  <1>1. PICK k \in RegisterKeys : k = key[t]
    OBVIOUS
  <1> DEFINE m == Len(entries_[k])
             n == Len(admitted[k])
             d == n - m
             max == MaxHits[k]
  <1>2. /\ k \in Keys /\ RegisterKeys \subseteq Keys /\ now[t] \in 0..clock /\ pc[t] = "stamped"
        /\ clock' = clock /\ db_lock' = db_lock /\ key' = key /\ now' = now
        /\ \A q \in Keys \ {k} : entries_'[q] = entries_[q] /\ admitted'[q] = admitted[q]
    BY <1>1, DecideEffect DEF RegisterKeys
  <1>3. PICK j \in 0..m : Leaves(t, j) /\ (Denies(t, j) \/ Admits(t, j))
    BY <1>1, DecideEffect
  <1>4. /\ m \in Nat /\ n \in Nat /\ max \in Nat \ {0} /\ Window \in Nat \ {0}
        /\ now[t] \in Nat /\ clock \in Nat /\ now[t] <= clock
        /\ d \in Int /\ d = n - m /\ j \in 0..m /\ j \in Nat
    BY <1>2, <1>3, Shapes, LimitAssumption
  <1>5. /\ \A i \in 1..m : entries_[k][i] \in Int
        /\ \A i \in 1..n : admitted[k][i] \in Int
    BY <1>2, Shapes
  <1>6. /\ d >= 0 /\ \A i \in 1..m : entries_[k][i] = admitted[k][d + i]
        /\ \A a, b \in 1..n : a <= b => admitted[k][a] <= admitted[k][b]
        /\ \A i \in 1..n : i + max <= n => admitted[k][i] + Window <= admitted[k][i + max]
    BY <1>1, <1>2 DEF LockInv, RegisterInv, Suffix, Dropped, Sorted, Spaced
  <1>7. \A q \in RegisterKeys : \A i \in 1..Len(admitted[q]) :
          /\ admitted[q][i] <= now[t]
          /\ i <= Dropped(q) => admitted[q][i] + Window <= now[t]
    <2>1. t \in Locked
      BY <1>1, <1>2 DEF LockInv, OwnKeys, RegisterKeys
    <2> QED BY <1>2, <2>1 DEF RegisterInv, Past, SeenFrom
  <1>8. \A i \in 1..n : admitted[k][i] <= now[t] /\ (i <= d => admitted[k][i] + Window <= now[t])
    BY <1>1, <1>7 DEF Dropped
  <1>9. /\ Len(entries_[k]) = m /\ Len(admitted[k]) = n /\ Dropped(k) = d
    BY DEF Dropped
  <1>10. /\ \A i \in 1..j : entries_[k][i] <= now[t] - Window
         /\ j < m => entries_[k][j + 1] > now[t] - Window
         /\ \A i \in 1..(m - j) : entries_'[k][i] = entries_[k][j + i]
    BY <1>1, <1>3 DEF Leaves
  <1>11. Denies(t, j) =>
           m - j >= max /\ Len(entries_'[k]) = m - j /\ admitted' = admitted
    BY <1>1 DEF Denies
  <1>12. Admits(t, j) =>
           /\ m - j + 1 <= max /\ Len(entries_'[k]) = m - j + 1
           /\ entries_'[k][m - j + 1] = now[t]
           /\ Len(admitted'[k]) = n + 1 /\ admitted'[k][n + 1] = now[t]
           /\ \A i \in 1..n : admitted'[k][i] = admitted[k][i]
    BY <1>1 DEF Admits
  <1>13. d >= 0
    BY <1>6
  <1> HIDE DEF m, n, d, max
  <1>14. \A i \in 1..n : i <= d + j => admitted[k][i] + Window <= now[t]
    <2> SUFFICES ASSUME NEW i \in 1..n, i <= d + j, i > d
                 PROVE  admitted[k][i] + Window <= now[t]
      BY <1>4, <1>8
    <2>1. i - d \in 1..j /\ i - d \in 1..m /\ d + (i - d) = i
      BY <1>4
    <2>2. entries_[k][i - d] <= now[t] - Window /\ entries_[k][i - d] = admitted[k][i]
      BY <1>6, <1>10, <2>1
    <2>3. admitted[k][i] \in Int
      BY <1>5
    <2> QED BY <1>4, <2>2, <2>3
  <1>15. \A i \in 1..(m - j) : entries_[k][j + i] > now[t] - Window
    <2> TAKE i \in 1..(m - j)
    <2>1. j + 1 \in 1..m /\ j + i \in 1..m /\ d + (j + 1) \in 1..n /\ d + (j + i) \in 1..n
      BY <1>4, <1>6
    <2>2. entries_[k][j + 1] > now[t] - Window
      BY <1>4, <1>10, <2>1
    <2>3. entries_[k][j + 1] = admitted[k][d + (j + 1)] /\ entries_[k][j + i] = admitted[k][d + (j + i)]
      BY <1>6, <2>1
    <2>4. d + (j + 1) <= d + (j + i)
      BY <1>4
    <2>5. admitted[k][d + (j + 1)] <= admitted[k][d + (j + i)]
      BY <1>6, <2>1, <2>4
    <2>6. admitted[k][d + (j + 1)] \in Int /\ admitted[k][d + (j + i)] \in Int
      BY <1>5, <2>1
    <2> QED BY <1>4, <2>2, <2>3, <2>5, <2>6
  <1>16. t \in Locked /\ \A u \in Locked \ {t} : pc[u] = "idle"
    <2>1. t \in Locked
      BY <1>1, <1>2 DEF LockInv, OwnKeys, RegisterKeys
    <2> QED BY <1>2, <2>1 DEF LockInv, OneCall, TypeOK
  <1>17. /\ \A u \in Locked : pc'[u] # "idle" => u = t
         /\ \A u \in Threads : pc'[u] # "idle" /\ key[u] \in RegisterKeys => u = t
    <2>1. \A u \in Threads : pc'[u] # "idle" => pc[u] # "idle"
      BY DEF Decide, TypeOK
    <2> QED BY <1>16, <2>1, LockedAssumption DEF LockInv, OwnKeys, RegisterKeys
  <1>18. CASE Denies(t, j)
    <2>1. /\ m - j >= max /\ Len(entries_'[k]) = m - j /\ admitted' = admitted
          /\ \A i \in 1..(m - j) : entries_'[k][i] = entries_[k][j + i]
      BY <1>18, <1>10, <1>11
    <2>2. Dropped(k)' = d + j
      BY <1>4, <1>9, <2>1 DEF Dropped
    <2>3. Sorted' /\ Spaced'
      BY <2>1 DEF RegisterInv, Sorted, Spaced
    <2>4. Past'
      <3>1. SeenFrom(now[t])'
        <4> SUFFICES ASSUME NEW q \in RegisterKeys, NEW i \in 1..Len(admitted[q])
                     PROVE  /\ admitted[q][i] <= now[t]
                            /\ i <= Dropped(q)' => admitted[q][i] + Window <= now[t]
          BY <1>2, <2>1 DEF SeenFrom
        <4>1. CASE q # k
          BY <1>2, <1>7, <2>1, <4>1 DEF Dropped
        <4>2. CASE q = k
          <5>1. Dropped(q)' = d + j
            BY <2>2, <4>2
          <5> QED BY <1>8, <1>14, <1>9, <4>2, <5>1
        <4> QED BY <4>1, <4>2
      <3>2. SeenFrom(clock)'
        <4> SUFFICES ASSUME NEW q \in RegisterKeys, NEW i \in 1..Len(admitted[q])
                     PROVE  /\ admitted[q][i] <= clock
                            /\ i <= Dropped(q)' => admitted[q][i] + Window <= clock
          BY <1>2, <2>1 DEF SeenFrom
        <4>1. admitted[q][i] <= now[t] /\ (i <= Dropped(q)' => admitted[q][i] + Window <= now[t])
          BY <1>2, <2>1, <3>1 DEF SeenFrom
        <4>2. admitted[q][i] \in Int
          BY <1>2, Shapes
        <4> QED BY <1>4, <4>1, <4>2
      <3> QED BY <1>2, <1>17, <3>1, <3>2 DEF Past
    <2>5. Refused'
      BY <1>1, <1>2, <1>15, <1>17, <2>1 DEF Refused, max
    <2> QED BY <2>3, <2>4, <2>5 DEF RegisterInv
  <1>19. CASE Admits(t, j)
    <2> DEFINE e == m - j + 1
    <2>1. /\ e <= max /\ Len(entries_'[k]) = e /\ entries_'[k][e] = now[t]
          /\ Len(admitted'[k]) = n + 1 /\ admitted'[k][n + 1] = now[t]
          /\ \A i \in 1..n : admitted'[k][i] = admitted[k][i]
          /\ \A i \in 1..(m - j) : entries_'[k][i] = entries_[k][j + i]
      BY <1>4, <1>19, <1>10, <1>12
    <2>2. Dropped(k)' = d + j
      BY <1>4, <1>9, <2>1 DEF Dropped
    <2>3. Sorted'
      <3> SUFFICES ASSUME NEW q \in RegisterKeys, NEW a \in 1..Len(admitted'[q]), NEW b \in 1..Len(admitted'[q]), a <= b
                   PROVE  admitted'[q][a] <= admitted'[q][b]
        BY DEF Sorted
      <3>1. CASE q # k
        BY <1>2, <3>1 DEF RegisterInv, Sorted
      <3>2. CASE q = k
        <4>1. CASE b \in 1..n
          <5>1. a \in 1..n
            BY <1>4, <2>1, <3>2, <4>1
          <5> QED BY <1>6, <2>1, <3>2, <4>1, <5>1
        <4>2. CASE b = n + 1
          <5>1. a = n + 1 \/ a \in 1..n
            BY <1>4, <2>1, <3>2
          <5>2. admitted'[k][a] <= now[t]
            <6>1. CASE a = n + 1
              BY <1>4, <2>1, <6>1
            <6>2. CASE a \in 1..n
              BY <1>8, <2>1, <6>2
            <6> QED BY <5>1, <6>1, <6>2
          <5> QED BY <2>1, <3>2, <4>2, <5>2
        <4> QED BY <1>4, <2>1, <3>2, <4>1, <4>2
      <3> QED BY <3>1, <3>2
    <2>4. Spaced'
      <3> SUFFICES ASSUME NEW q \in RegisterKeys, NEW i \in 1..Len(admitted'[q]), i + MaxHits[q] <= Len(admitted'[q])
                   PROVE  admitted'[q][i] + Window <= admitted'[q][i + MaxHits[q]]
        BY DEF Spaced
      <3>1. CASE q # k
        BY <1>2, <3>1 DEF RegisterInv, Spaced
      <3>2. CASE q = k
        <4>1. Len(admitted'[q]) = n + 1 /\ MaxHits[q] = max
          BY <2>1, <3>2 DEF max
        <4>2. i \in 1..n /\ i + max \in 1..(n + 1)
          <5>1. i \in 1..(n + 1) /\ i + max <= n + 1
            BY <4>1
          <5> QED BY <1>4, <5>1
        <4>3. CASE i + max \in 1..n
          <5>1. i + max <= n
            BY <1>4, <4>3
          <5>2. admitted[k][i] + Window <= admitted[k][i + max]
            BY <1>6, <4>2, <5>1
          <5>3. admitted'[q][i] = admitted[k][i] /\ admitted'[q][i + max] = admitted[k][i + max]
            BY <2>1, <3>2, <4>2, <4>3
          <5> QED BY <4>1, <5>2, <5>3
        <4>4. CASE i + max = n + 1
          <5>1. i <= d + j
            BY <1>4, <2>1, <4>4
          <5>2. admitted[k][i] + Window <= now[t]
            BY <1>14, <4>2, <5>1
          <5>3. admitted'[q][i] = admitted[k][i] /\ admitted'[q][i + MaxHits[q]] = now[t]
            BY <2>1, <3>2, <4>1, <4>2, <4>4
          <5> QED BY <5>2, <5>3
        <4>5. i + max \in 1..n \/ i + max = n + 1
          BY <1>4, <4>2
        <4> QED BY <4>3, <4>4, <4>5
      <3> QED BY <3>1, <3>2
    <2>5. SeenFrom(now[t])'
      <3> SUFFICES ASSUME NEW q \in RegisterKeys, NEW i \in 1..Len(admitted'[q])
                   PROVE  /\ admitted'[q][i] <= now[t]
                          /\ i <= Dropped(q)' => admitted'[q][i] + Window <= now[t]
        BY <1>2 DEF SeenFrom
      <3>1. CASE q # k
        BY <1>2, <1>7, <3>1 DEF Dropped
      <3>2. CASE q = k
        <4>1. i = n + 1 \/ i \in 1..n
          BY <1>4, <2>1, <3>2
        <4>2. CASE i \in 1..n
          BY <1>8, <1>14, <2>1, <2>2, <3>2, <4>2
        <4>3. CASE i = n + 1
          <5>1. ~(i <= d + j)
            BY <1>4, <4>3
          <5> QED BY <1>4, <2>1, <2>2, <3>2, <4>3, <5>1
        <4> QED BY <4>1, <4>2, <4>3
      <3> QED BY <3>1, <3>2
    <2>6. SeenFrom(clock)'
      <3> SUFFICES ASSUME NEW q \in RegisterKeys, NEW i \in 1..Len(admitted'[q])
                   PROVE  /\ admitted'[q][i] <= clock
                          /\ i <= Dropped(q)' => admitted'[q][i] + Window <= clock
        BY <1>2 DEF SeenFrom
      <3>1. admitted'[q][i] <= now[t] /\ (i <= Dropped(q)' => admitted'[q][i] + Window <= now[t])
        BY <1>2, <2>5 DEF SeenFrom
      <3>2. admitted'[q][i] \in Int
        <4>1. CASE q # k
          BY <1>2, <4>1, Shapes
        <4>2. CASE q = k
          <5>1. i = n + 1 \/ i \in 1..n
            BY <1>4, <2>1, <4>2
          <5>2. admitted'[k][n + 1] \in Int
            BY <1>4, <2>1
          <5> QED BY <1>5, <2>1, <4>2, <5>1, <5>2
        <4> QED BY <4>1, <4>2
      <3> QED BY <1>4, <3>1, <3>2
    <2>7. Past'
      BY <1>2, <1>17, <2>5, <2>6 DEF Past
    <2>8. Refused'
      BY <1>2, <1>17, <1>19 DEF Refused, Admits, TypeOK
    <2> QED BY <2>3, <2>4, <2>7, <2>8 DEF RegisterInv
  <1> QED BY <1>3, <1>18, <1>19

\* The invariant is inductive, for registrations and logins together.
LEMMA RegisterStep == TypeOK /\ LockInv /\ RegisterInv /\ [Next]_vars => RegisterInv'
  <1> SUFFICES ASSUME TypeOK, LockInv, RegisterInv, [Next]_vars PROVE RegisterInv'
    OBVIOUS
  <1>1. CASE UNCHANGED vars
    <2>1. Sorted' /\ Spaced' /\ \A x : SeenFrom(x) => SeenFrom(x)'
      BY <1>1, Undisturbed DEF RegisterInv, vars
    <2> QED BY <1>1, <2>1 DEF RegisterInv, vars, Past, Refused
  <1>2. ASSUME NEW t \in Threads, Decide(t) PROVE RegisterInv'
    BY <1>2, DecideEffect, LoginDecided, RegistrationDecided DEF RegisterKeys
  <1> QED BY <1>1, <1>2, TickRegister, StampRegister, ReturnRegister DEF Next

LEMMA Invariance == Spec => [](TypeOK /\ IInv)
  <1>1. Init => TypeOK /\ IInv
    BY TypeInit, LockInit, RegisterInit DEF IInv
  <1>2. TypeOK /\ IInv /\ [Next]_vars => (TypeOK /\ IInv)'
    BY TypeStep, LockStep, RegisterStep DEF IInv
  <1> QED BY <1>1, <1>2, PTL DEF Spec

--------------------------------------------------------------------------------
\* From the invariant to the properties of the window.

\* The admissions of a window are fewer than MaxHits + 1 places of the list.
LEMMA RegistrationsBounded ==
  ASSUME TypeOK, IInv, NEW k \in RegisterKeys, NEW i \in DOMAIN admitted[k]
  PROVE  Cardinality(AllowedFrom(k, admitted[k][i])) <= MaxHits[k]
  <1> DEFINE s == admitted[k][i]
             n == Len(admitted[k])
             A == AllowedFrom(k, s)
             max == MaxHits[k]
  <1>1. /\ n \in Nat /\ DOMAIN admitted[k] = 1..n /\ \A a \in 1..n : admitted[k][a] \in Int
        /\ s \in Int /\ max \in Nat \ {0} /\ Window \in Nat \ {0}
    BY Shapes, LimitAssumption DEF RegisterKeys
  <1>2. A = {a \in 1..n : admitted[k][a] \in s..(s + Window - 1)}
    BY <1>1 DEF AllowedFrom
  <1>3. i \in A
    <2>1. s \in s..(s + Window - 1)
      <3> HIDE DEF s
      <3> QED BY <1>1
    <2> QED BY <1>1, <1>2, <2>1
  <1>4. PICK lo \in A : \A a \in A : lo <= a
    <2>1. A \subseteq Nat /\ A # {}
      BY <1>2, <1>3
    <2> HIDE DEF A
    <2> QED BY <2>1, LeastElement
  <1>5. lo \in 1..n /\ admitted[k][lo] >= s
    BY <1>1, <1>2
  <1> HIDE DEF max, s, n, A
  <1>6. A \subseteq lo..(lo + max - 1)
    <2> SUFFICES ASSUME NEW a \in A, a >= lo + max PROVE FALSE
      <3>1. \A a \in A : a \in Int /\ lo <= a
        BY <1>2, <1>4
      <3> QED BY <1>1, <1>5, <3>1
    <2>1. a \in 1..n /\ admitted[k][a] < s + Window
      BY <1>1, <1>2
    <2>2. lo + max \in 1..n
      BY <1>1, <1>5, <2>1
    <2>3. admitted[k][lo] + Window <= admitted[k][lo + max]
      BY <1>5, <2>2 DEF IInv, RegisterInv, Spaced, max, n
    <2>4. admitted[k][lo + max] <= admitted[k][a]
      BY <2>1, <2>2 DEF IInv, RegisterInv, Sorted, n
    <2>5. admitted[k][lo] \in Int /\ admitted[k][lo + max] \in Int /\ admitted[k][a] \in Int
      BY <1>1, <1>5, <2>1, <2>2
    <2>6. \A x, y, z \in Int : x + Window <= y /\ y <= z /\ z < s + Window => ~(x >= s)
      BY <1>1
    <2> QED BY <1>5, <2>1, <2>3, <2>4, <2>5, <2>6
  <1>7. IsFiniteSet(lo..(lo + max - 1)) /\ Cardinality(lo..(lo + max - 1)) = max
    <2> DEFINE hi == lo + max - 1
    <2>1. lo \in Int /\ hi \in Int /\ ~(lo > hi) /\ hi - lo + 1 = max
      BY <1>1, <1>5
    <2> HIDE DEF hi
    <2>2. IsFiniteSet(lo..hi) /\ Cardinality(lo..hi) = hi - lo + 1
      BY <2>1, FS_Interval
    <2> QED BY <2>1, <2>2 DEF hi
  <1>8. Cardinality(A) <= max
    <2> DEFINE hi == lo + max - 1
    <2> HIDE DEF hi
    <2>1. Cardinality(A) <= Cardinality(lo..hi)
      BY <1>6, <1>7, FS_Subset DEF hi
    <2> QED BY <1>7, <2>1 DEF hi
  <1> QED BY <1>8 DEF max, s, A

\* The stamps that a refused call found in the deque are admissions of its window.
LEMMA FullFromRefused == TypeOK /\ IInv => RefusalJustified
  <1> SUFFICES ASSUME TypeOK, IInv, NEW t \in Threads, pc[t] = "refused", key[t] \notin LoginKeys
               PROVE  Cardinality(AllowedFrom(key[t], now[t] - Window + 1)) >= MaxHits[key[t]]
    BY DEF RefusalJustified
  <1> DEFINE k == key[t]
             m == Len(entries_[k])
             n == Len(admitted[k])
             A == AllowedFrom(k, now[t] - Window + 1)
  <1>1. k \in Keys /\ k \in RegisterKeys /\ now[t] \in Int /\ Window \in Nat \ {0} /\ MaxHits[k] \in Nat
    BY LimitAssumption DEF TypeOK, RegisterKeys
  <1>2. /\ m \in Nat /\ n \in Nat /\ DOMAIN admitted[k] = 1..n
        /\ \A a \in 1..n : admitted[k][a] \in Int
    BY <1>1, Shapes
  <1>3. m >= MaxHits[k] /\ \A i \in 1..m : entries_[k][i] > now[t] - Window
    BY <1>1 DEF IInv, RegisterInv, Refused
  <1>4. n - m >= 0 /\ \A i \in 1..m : entries_[k][i] = admitted[k][(n - m) + i]
    BY <1>1 DEF IInv, LockInv, Suffix, Dropped
  <1>5. \A a \in 1..n : admitted[k][a] <= now[t]
    <2>1. t \in Locked
      BY <1>1 DEF IInv, LockInv, OwnKeys, RegisterKeys
    <2>2. SeenFrom(now[t])
      BY <2>1 DEF IInv, RegisterInv, Past
    <2> QED BY <1>1, <2>2 DEF SeenFrom
  <1>6. A = {a \in 1..n : admitted[k][a] \in (now[t] - Window + 1)..((now[t] - Window + 1) + Window - 1)}
    BY <1>2 DEF AllowedFrom
  <1> HIDE DEF m, n
  <1>7. (n - m + 1)..n \subseteq A
    <2> SUFFICES ASSUME NEW a \in (n - m + 1)..n PROVE a \in A
      OBVIOUS
    <2>1. a \in 1..n /\ a - (n - m) \in 1..m /\ (n - m) + (a - (n - m)) = a
      BY <1>2, <1>4
    <2>2. admitted[k][a] > now[t] - Window
      BY <1>3, <1>4, <2>1
    <2>3. admitted[k][a] <= now[t]
      BY <1>5, <2>1
    <2>4. admitted[k][a] \in (now[t] - Window + 1)..((now[t] - Window + 1) + Window - 1)
      BY <1>1, <1>2, <2>1, <2>2, <2>3
    <2> QED BY <1>6, <2>1, <2>4
  <1>8. Cardinality((n - m + 1)..n) = m
    <2> DEFINE first == n - m + 1
    <2>1. first \in Int /\ n \in Int /\ (first > n => m = 0) /\ n - first + 1 = m
      BY <1>2
    <2> HIDE DEF first
    <2>2. Cardinality(first..n) = m
      BY <2>1, FS_Interval
    <2> QED BY <2>2 DEF first
  <1>9. IsFiniteSet(A) /\ Cardinality(A) \in Nat
    <2>1. IsFiniteSet(1..n) /\ A \subseteq 1..n
      BY <1>2, <1>6, FS_Interval
    <2> QED BY <2>1, FS_Subset, FS_CardinalityType
  <1>10. m <= Cardinality(A)
    <2> HIDE DEF A
    <2> QED BY <1>7, <1>8, <1>9, FS_Subset
  <1> QED BY <1>1, <1>2, <1>3, <1>9, <1>10

\* The two disjuncts of Overrun: nothing of the window was dropped, or what is in it
\* beyond the limit came from calls without DbLock.
LEMMA OverrunsBounded ==
  ASSUME TypeOK, IInv, NEW k \in Keys, NEW i \in DOMAIN admitted[k]
  PROVE  Cardinality(AllowedFrom(k, admitted[k][i])) <= MaxHits[k] + Cardinality(Threads \ Locked)
  <1>1. PICK s \in 0..MaxTime : s = admitted[k][i]
    <2>1. admitted[k][i] \in 0..clock
      BY Shapes
    <2> QED BY <2>1, LimitAssumption DEF TypeOK
  <1>2. /\ s \in Int /\ MaxHits[k] \in Nat /\ Suffix /\ Overrun
        /\ Cardinality(AllowedFrom(k, s)) \in Nat /\ Cardinality(Pending(k, s)) \in Nat
        /\ Cardinality(Threads \ Locked) \in Nat
    BY <1>1, Shapes, CountedFinite DEF IInv, LockInv
  <1>3. CASE \A a \in AllowedFrom(k, s) : a > Dropped(k)
    <2>1. Cardinality(AllowedFrom(k, s)) <= MaxHits[k]
      BY <1>2, <1>3, KeptFew
    <2> QED BY <1>1, <1>2, <2>1
  <1>4. CASE Cardinality(AllowedFrom(k, s)) + Cardinality(Pending(k, s))
               <= MaxHits[k] + Cardinality(Threads \ Locked)
    BY <1>1, <1>2, <1>4
  <1> QED BY <1>2, <1>3, <1>4 DEF Overrun

\* Allow of ratelimit.h, as registration uses it (g_register_limit), admits at most
\* max_hits_ calls of a client in any window_sec_, however the handler threads, those of
\* the logins among them, interleave: every caller holds DbLock.  The limiter of the
\* logins (g_login_limit), which the administrator's login calls without DbLock, admits
\* in any window at most one call more for each caller of that kind.
THEOREM WindowKept == Spec => []WindowBound
  <1>1. TypeOK /\ IInv => WindowBound
    <2> SUFFICES ASSUME TypeOK, IInv, NEW k \in Keys, NEW i \in DOMAIN admitted[k]
                 PROVE  Cardinality(AllowedFrom(k, admitted[k][i])) <= MaxHits[k] + Cardinality(FreeCallers(k))
      BY DEF WindowBound
    <2>1. CASE k \in LoginKeys
      BY <2>1, OverrunsBounded DEF FreeCallers
    <2>2. CASE k \in RegisterKeys
      <3>1. Cardinality(FreeCallers(k)) = 0
        BY <2>2, FS_EmptySet DEF FreeCallers, RegisterKeys
      <3>2. MaxHits[k] + 0 = MaxHits[k]
        BY LimitAssumption
      <3> QED BY <2>2, <3>1, <3>2, RegistrationsBounded
    <2> QED BY <2>1, <2>2 DEF RegisterKeys
  <1> QED BY <1>1, Invariance, PTL

\* A registration is refused only when max_hits_ calls of the same client were allowed in
\* the window that ends with it.
THEOREM RefusalsJustified == Spec => []RefusalJustified
  <1>1. TypeOK /\ IInv => RefusalJustified
    BY FullFromRefused
  <1> QED BY <1>1, Invariance, PTL
================================================================================
