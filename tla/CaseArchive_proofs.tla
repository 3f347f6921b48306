--------------------------- MODULE CaseArchive_proofs ----------------------------
(***************************************************************************)
(* Theorems about CaseArchive, for any names, any entries and any number   *)
(* of them: what ParseZipCases pairs belongs together, and an archive that *)
(* keeps to a documented layout is imported in full.                       *)
(***************************************************************************)
EXTENDS CaseArchive, TLAPS, SequenceTheorems, WellFoundedInduction

CaseOf == [in : Files, out : Files]

\* Both entries have the stem s and stand on their side.
Fits(c, s) ==
  /\ c \in CaseOf
  /\ archive[c.in].stem = s /\ archive[c.out].stem = s
  /\ \/ InDir(archive[c.in]) /\ OutDir(archive[c.out])
     \/ Lower(archive[c.in].ext) = "in" /\ archive[c.out].ext \in {"out", "ans"}

Elements(s) == {s[k] : k \in DOMAIN s}
RankOf(c) == Rank(archive[c.in].stem)

Typed ==
  /\ archive \in Seq(Entries)
  /\ stage \in {"upload", "pair", "imported", "refused"}
  /\ looked \in 0..Len(StemOrder)
  /\ cases \in Seq(CaseOf)

Stages ==
  /\ stage = "upload" => looked = 0 /\ cases = <<>>
  /\ stage \in {"pair", "imported"} => Readable
  /\ stage = "imported" => cases # <<>> /\ looked = Len(StemOrder)
  /\ stage = "refused" => cases = <<>> /\ (Readable => looked = Len(StemOrder))

\* The loop has collected what it found for the stems it has been through, in order;
\* two cases of one stem come from x.IN and x.in.
Collected == Elements(cases) = UNION {Elements(Found(StemOrder[r])) : r \in 1..looked}
Ordered ==
  \A j, k \in DOMAIN cases : j < k =>
    \/ RankOf(cases[j]) < RankOf(cases[k])
    \/ /\ ~HasBothDirs
       /\ archive[cases[j].in].ext = "IN" /\ archive[cases[k].in].ext = "in"

IInv == Typed /\ Stages /\ Collected /\ Ordered

--------------------------------------------------------------------------------
(***************************************************************************)
(* The entry that a map keeps for a key is one of those with that key.     *)
(***************************************************************************)
LEMMA LatestIn ==
  ASSUME NEW len \in Nat, NEW ns \in SUBSET (1..len), ns # {}
  PROVE  Latest(ns) \in ns
<1> DEFINE S == {len - n : n \in ns}
<1>1. S \subseteq Nat /\ S # {}
  <2>1. \A n \in ns : n \in Int /\ n <= len
    OBVIOUS
  <2>2. \A n \in ns : len - n \in Nat
    BY <2>1
  <2> QED BY <2>2
<1>2. PICK x \in S : \A y \in S : <<y, x>> \notin OpToRel(<, Nat)
  <2> HIDE DEF S
  <2> QED BY <1>1, NatLessThanWellFounded, WFMin
<1>3. PICK n \in ns : x = len - n
  BY <1>2
<1>4. ASSUME NEW m \in ns PROVE m <= n
  <2>1. len - m \in S /\ len - m \in Nat /\ x \in Nat
    BY <1>1, <1>2
  <2>2. ~(len - m < x)
    <3> HIDE DEF S
    <3> QED BY <1>2, <2>1 DEF OpToRel
  <2> QED BY <1>3, <2>2
<1> QED BY <1>4 DEF Latest

(***************************************************************************)
(* Case gives one pair, or none when a set is empty.                       *)
(***************************************************************************)
LEMMA CaseGives ==
  ASSUME archive \in Seq(Entries), NEW ins \in SUBSET Files, NEW outs \in SUBSET Files
  PROVE  \/ /\ Case(ins, outs) = <<>> /\ (ins = {} \/ outs = {})
         \/ \E c \in CaseOf : Case(ins, outs) = <<c>> /\ c.in \in ins /\ c.out \in outs
<1>1. Len(archive) \in Nat /\ Files \in SUBSET (1..Len(archive))
  BY LenProperties DEF Files
<1>2. ASSUME ins # {}, outs # {}
      PROVE  /\ Case(ins, outs) = <<[in |-> Latest(ins), out |-> Latest(outs)]>>
             /\ Latest(ins) \in ins /\ Latest(outs) \in outs
  BY <1>1, <1>2, LatestIn DEF Case
<1> QED BY <1>2 DEF Case, CaseOf

(***************************************************************************)
(* What is found for a stem: at most two cases, which fit; two of them     *)
(* come from x.IN and x.in.                                                *)
(***************************************************************************)
LEMMA FoundFits ==
  ASSUME archive \in Seq(Entries), NEW s \in Stems
  PROVE  /\ \A c \in Elements(Found(s)) : Fits(c, s)
         /\ \/ Found(s) = <<>>
            \/ \E c : Found(s) = <<c>>
            \/ \E c, d : /\ Found(s) = <<c, d>> /\ ~HasBothDirs
                         /\ archive[c.in].ext = "IN" /\ archive[d.in].ext = "in"
<1>1. CASE HasBothDirs
  <2> DEFINE keyed == {n \in Files : StemKey(archive[n]) = <<s>>}
             ins == {n \in keyed : InDir(archive[n])}
             outs == {n \in keyed : OutDir(archive[n])}
  <2>1. Found(s) = Case(ins, outs)
    BY <1>1 DEF Found, ByDirectory
  <2>2. \A n \in keyed : archive[n].stem = s
    BY DEF StemKey
  <2>3. ins \in SUBSET Files /\ outs \in SUBSET Files
    OBVIOUS
  <2>4. \/ Case(ins, outs) = <<>>
        \/ \E c \in CaseOf : Case(ins, outs) = <<c>> /\ c.in \in ins /\ c.out \in outs
    <3> HIDE DEF ins, outs
    <3> QED BY <2>3, CaseGives
  <2>5. ASSUME NEW c \in CaseOf, Found(s) = <<c>>, c.in \in ins, c.out \in outs
        PROVE  /\ Fits(c, s) /\ Elements(Found(s)) = {c}
    <3>1. Fits(c, s)
      BY <2>2, <2>5 DEF Fits
    <3>2. Elements(<<c>>) = {c}
      BY DEF Elements
    <3> QED BY <2>5, <3>1, <3>2
  <2>6. Elements(<<>>) = {}
    BY DEF Elements
  <2> HIDE DEF ins, outs
  <2> QED BY <2>1, <2>4, <2>5, <2>6
<1>2. CASE ~HasBothDirs
  <2> DEFINE f(x) == Case(Named(s, x), Answer(s, x))
  <2>1. Found(s) = f("IN") \o f("in")
    BY <1>2 DEF Found, ByExtension
  <2>2. ASSUME NEW x \in {"IN", "in"}
        PROVE  \/ f(x) = <<>>
               \/ \E c \in CaseOf : f(x) = <<c>> /\ Fits(c, s) /\ archive[c.in].ext = x
    <3>1. Named(s, x) \in SUBSET Files /\ Answer(s, x) \in SUBSET Files
      BY DEF Named, Answer
    <3>2. CASE f(x) = <<>>
      BY <3>2
    <3>3. ASSUME NEW c \in CaseOf, f(x) = <<c>>, c.in \in Named(s, x), c.out \in Answer(s, x)
          PROVE  Fits(c, s) /\ archive[c.in].ext = x
      <4>1. archive[c.in].stem = s /\ archive[c.in].ext = x
        BY <3>3 DEF Named
      <4>2. archive[c.out].stem = s /\ archive[c.out].ext \in {"out", "ans"}
        BY <3>3 DEF Named, Answer
      <4>3. Lower(x) = "in"
        BY DEF Lower
      <4> QED BY <4>1, <4>2, <4>3 DEF Fits
    <3> QED BY <3>1, <3>2, <3>3, CaseGives
  <2>3. Elements(<<>>) = {} /\ \A c, d : Elements(<<c>>) = {c} /\ Elements(<<c, d>>) = {c, d}
    BY DEF Elements
  <2>4. \A c, d : /\ <<>> \o <<>> = <<>> /\ <<>> \o <<c>> = <<c>> /\ <<c>> \o <<>> = <<c>>
                  /\ <<c>> \o <<d>> = <<c, d>>
    <3> TAKE c, d
    <3>1. <<>> \in Seq({c, d}) /\ <<c>> \in Seq({c, d}) /\ <<d>> \in Seq({c, d})
      OBVIOUS
    <3>2. <<c>> \o <<d>> = <<c, d>>
      <4>1. <<c, d>> \in Seq({c, d}) /\ Len(<<c, d>>) = 2
        OBVIOUS
      <4>2. <<c>> \o <<d>> \in Seq({c, d}) /\ Len(<<c>> \o <<d>>) = 2
        BY <3>1, ConcatProperties
      <4>3. (<<c>> \o <<d>>)[1] = c /\ (<<c>> \o <<d>>)[2] = d
        <5>1. \A i \in 1..2 : (<<c>> \o <<d>>)[i] =
                              IF i <= Len(<<c>>) THEN <<c>>[i] ELSE <<d>>[i - Len(<<c>>)]
          BY <3>1, <4>2, ConcatProperties
        <5>2. Len(<<c>>) = 1
          OBVIOUS
        <5> QED BY <5>1, <5>2
      <4>4. \A i \in 1..Len(<<c>> \o <<d>>) : (<<c>> \o <<d>>)[i] = <<c, d>>[i]
        BY <4>2, <4>3
      <4>5. Len(<<c>> \o <<d>>) = Len(<<c, d>>)
        BY <4>1, <4>2
      <4> QED BY <4>1, <4>2, <4>4, <4>5, SeqEqual
    <3> QED BY <3>1, <3>2, ConcatEmptySeq
  <2> HIDE DEF f
  <2>6. CASE f("IN") = <<>> /\ f("in") = <<>>
    BY <2>1, <2>3, <2>4, <2>6
  <2>7. ASSUME f("IN") = <<>>, NEW c \in CaseOf, f("in") = <<c>>, Fits(c, s)
        PROVE  Found(s) = <<c>> /\ Elements(Found(s)) = {c}
    BY <2>1, <2>3, <2>4, <2>7
  <2>8. ASSUME f("in") = <<>>, NEW c \in CaseOf, f("IN") = <<c>>, Fits(c, s)
        PROVE  Found(s) = <<c>> /\ Elements(Found(s)) = {c}
    BY <2>1, <2>3, <2>4, <2>8
  <2>9. ASSUME NEW c \in CaseOf, f("IN") = <<c>>, NEW d \in CaseOf, f("in") = <<d>>
        PROVE  Found(s) = <<c, d>> /\ Elements(Found(s)) = {c, d}
    <3>1. Found(s) = <<c, d>>
      BY <2>1, <2>4, <2>9
    <3>2. Elements(<<c, d>>) = {c, d}
      BY <2>3
    <3> QED BY <3>1, <3>2
  <2> QED BY <1>2, <2>2, <2>6, <2>7, <2>8, <2>9
<1> QED BY <1>1, <1>2

\* A stem has one rank.
LEMMA RankIs ==
  ASSUME NEW r \in DOMAIN StemOrder
  PROVE  Rank(StemOrder[r]) = r
BY StemOrderAssumption DEF Rank

\* The stems are numbered from 1.
LEMMA StemsLength == Len(StemOrder) \in Nat /\ DOMAIN StemOrder = 1..Len(StemOrder)
BY StemOrderAssumption, LenProperties

(***************************************************************************)
(* What is found depends on the archive alone.                             *)
(***************************************************************************)
LEMMA SameArchive ==
  ASSUME archive' = archive
  PROVE  /\ Files' = Files /\ CaseOf' = CaseOf /\ Readable' = Readable
         /\ HasBothDirs' = HasBothDirs
         /\ \A s : Found(s)' = Found(s)
         /\ \A c : RankOf(c)' = RankOf(c)
         /\ \A c, s : Fits(c, s)' <=> Fits(c, s)
<1>1. Files' = Files
  BY DEF Files
<1>2. CaseOf' = CaseOf
  BY <1>1 DEF CaseOf
<1>3. Readable' = Readable
  BY <1>1 DEF Readable
<1>0. HasBothDirs' = HasBothDirs
  BY <1>1 DEF HasBothDirs
<1>4. ASSUME NEW s PROVE Found(s)' = Found(s)
  <2>2. \A x : Named(s, x)' = Named(s, x) /\ Answer(s, x)' = Answer(s, x)
    BY <1>1 DEF Named, Answer
  <2>3. ByExtension(s)' = ByExtension(s)
    BY <2>2 DEF ByExtension
  <2>4. ByDirectory(s)' = ByDirectory(s)
    BY <1>1 DEF ByDirectory
  <2> QED BY <1>0, <2>3, <2>4 DEF Found
<1>5. \A c : RankOf(c)' = RankOf(c)
  BY DEF RankOf
<1>6. \A c, s : Fits(c, s)' <=> Fits(c, s)
  BY <1>2 DEF Fits
<1> QED BY <1>0, <1>1, <1>2, <1>3, <1>4, <1>5, <1>6

--------------------------------------------------------------------------------
\* The empty archive satisfies the invariant.
LEMMA InitInv == ArchiveInit => IInv
<1> SUFFICES ASSUME ArchiveInit PROVE IInv
  OBVIOUS
<1>1. Typed
  BY StemsLength, EmptySeq DEF ArchiveInit, Typed
<1>2. Stages
  BY DEF ArchiveInit, Stages
<1>3. Collected /\ Ordered
  BY DEF ArchiveInit, Collected, Ordered, Elements
<1> QED BY <1>1, <1>2, <1>3 DEF IInv

(***************************************************************************)
(* One iteration of the loop adds what is found for the next stem.         *)
(***************************************************************************)
LEMMA Iteration ==
  ASSUME IInv, PairNext
  PROVE  IInv'
<1> DEFINE r == looked + 1
           s == StemOrder[r]
           f == Found(s)
<1>1. /\ archive' = archive /\ stage' = "pair" /\ stage = "pair" /\ looked' = r
      /\ cases' = cases \o f
      /\ archive \in Seq(Entries) /\ cases \in Seq(CaseOf)
      /\ looked \in Nat /\ r \in DOMAIN StemOrder
  BY StemsLength DEF IInv, Typed, PairNext
<1>2. s \in Stems
  BY <1>1 DEF Stems
<1>3. \A c \in Elements(f) : Fits(c, s)
  BY <1>1, <1>2, FoundFits
<1>4. /\ f \in Seq(CaseOf)
      /\ \A j, k \in DOMAIN f : j < k =>
           ~HasBothDirs /\ archive[f[j].in].ext = "IN" /\ archive[f[k].in].ext = "in"
  <2>1. \/ f = <<>>
        \/ \E c : f = <<c>>
        \/ \E c, d : /\ f = <<c, d>> /\ ~HasBothDirs
                     /\ archive[c.in].ext = "IN" /\ archive[d.in].ext = "in"
    BY <1>1, <1>2, FoundFits
  <2>2. \A j \in DOMAIN f : f[j] \in CaseOf
    BY <1>3 DEF Elements, Fits
  <2> HIDE DEF f
  <2>3. CASE f = <<>>
    BY <2>3
  <2>4. ASSUME NEW c, f = <<c>> PROVE <1>4
    <3>1. DOMAIN f = {1} /\ f[1] = c
      BY <2>4
    <3>2. c \in CaseOf
      BY <2>2, <3>1
    <3> QED BY <2>4, <3>1, <3>2
  <2>5. ASSUME NEW c, NEW d, f = <<c, d>>, ~HasBothDirs,
               archive[c.in].ext = "IN", archive[d.in].ext = "in"
        PROVE  <1>4
    <3>1. DOMAIN f = {1, 2} /\ f[1] = c /\ f[2] = d
      BY <2>5
    <3>2. c \in CaseOf /\ d \in CaseOf
      BY <2>2, <3>1
    <3>3. f \in Seq(CaseOf)
      BY <2>5, <3>2
    <3> QED BY <2>5, <3>1, <3>3
  <2> QED BY <2>1, <2>3, <2>4, <2>5
<1>5. /\ cases' \in Seq(CaseOf) /\ Len(cases') = Len(cases) + Len(f)
      /\ Len(cases) \in Nat /\ Len(f) \in Nat
      /\ DOMAIN cases = 1..Len(cases) /\ DOMAIN f = 1..Len(f)
      /\ DOMAIN cases' = 1..(Len(cases) + Len(f))
      /\ \A k \in 1..Len(cases) : cases'[k] = cases[k]
      /\ \A k \in 1..Len(f) : cases'[Len(cases) + k] = f[k]
  <2> HIDE DEF f
  <2>1. /\ cases' \in Seq(CaseOf) /\ Len(cases') = Len(cases) + Len(f)
        /\ \A k \in 1..(Len(cases) + Len(f)) :
             cases'[k] = IF k <= Len(cases) THEN cases[k] ELSE f[k - Len(cases)]
    BY <1>1, <1>4, ConcatProperties
  <2>2. Len(cases) \in Nat /\ Len(f) \in Nat
    BY <1>1, <1>4, LenProperties
  <2>3. DOMAIN cases = 1..Len(cases) /\ DOMAIN f = 1..Len(f) /\ DOMAIN cases' = 1..Len(cases')
    BY <1>1, <1>4, <2>1, LenProperties
  <2>4. ASSUME NEW k \in 1..Len(f) PROVE cases'[Len(cases) + k] = f[k]
    <3>1. /\ Len(cases) + k \in 1..(Len(cases) + Len(f))
          /\ ~(Len(cases) + k <= Len(cases)) /\ Len(cases) + k - Len(cases) = k
      BY <2>2
    <3> QED BY <2>1, <3>1
  <2>5. ASSUME NEW k \in 1..Len(cases) PROVE cases'[k] = cases[k]
    BY <2>1, <2>2
  <2> QED BY <2>1, <2>2, <2>3, <2>4, <2>5
<1>6. Typed'
  BY <1>1, <1>5, StemsLength, SameArchive DEF IInv, Typed
<1>7. Stages'
  BY <1>1, SameArchive DEF IInv, Stages
<1>8. Collected'
  <2>1. Elements(cases') = Elements(cases) \cup Elements(f)
    <3> HIDE DEF f
    <3>1. \A k \in 1..(Len(cases) + Len(f)) :
            k \in 1..Len(cases) \/ \E m \in 1..Len(f) : k = Len(cases) + m
      <4>1. ASSUME NEW k \in 1..(Len(cases) + Len(f)), k \notin 1..Len(cases)
            PROVE  k - Len(cases) \in 1..Len(f) /\ k = Len(cases) + (k - Len(cases))
        BY <1>5, <4>1
      <4> QED BY <4>1
    <3>2. \A m \in 1..Len(f) : Len(cases) + m \in 1..(Len(cases) + Len(f))
      BY <1>5
    <3>3. \A k \in 1..Len(cases) : k \in 1..(Len(cases) + Len(f))
      BY <1>5
    <3>4. ASSUME NEW x \in Elements(cases') PROVE x \in Elements(cases) \cup Elements(f)
      <4>1. PICK k \in 1..(Len(cases) + Len(f)) : x = cases'[k]
        BY <1>5 DEF Elements
      <4> QED BY <1>5, <3>1, <4>1 DEF Elements
    <3>5. ASSUME NEW x \in Elements(cases) PROVE x \in Elements(cases')
      BY <1>5, <3>3 DEF Elements
    <3>6. ASSUME NEW x \in Elements(f) PROVE x \in Elements(cases')
      BY <1>5, <3>2 DEF Elements
    <3> QED BY <3>4, <3>5, <3>6
  <2>2. 1..looked' = (1..looked) \cup {r}
    BY <1>1
  <2> DEFINE F(q) == Elements(Found(StemOrder[q]))
  <2>3. Elements(cases) = UNION {F(q) : q \in 1..looked}
    BY DEF IInv, Collected
  <2>4. UNION {F(q) : q \in (1..looked) \cup {r}} = (UNION {F(q) : q \in 1..looked}) \cup F(r)
    <3> HIDE DEF F, r
    <3> QED OBVIOUS
  <2>5. Collected' <=> Elements(cases') = UNION {F(q) : q \in 1..looked'}
    <3>1. \A q : Found(StemOrder[q])' = Found(StemOrder[q])
      BY <1>1, SameArchive
    <3>2. \A q : Elements(Found(StemOrder[q]))' = F(q)
      BY <3>1 DEF Elements
    <3>3. Elements(cases)' = Elements(cases')
      BY DEF Elements
    <3> QED BY <3>2, <3>3 DEF Collected
  <2> QED BY <2>1, <2>2, <2>3, <2>4, <2>5
<1>9. \A c \in Elements(f) : RankOf(c) = r
  BY <1>1, <1>3, RankIs DEF RankOf, Fits
<1>10. \A c \in Elements(cases) : RankOf(c) \in 1..looked
  <2>1. ASSUME NEW c \in Elements(cases) PROVE RankOf(c) \in 1..looked
    <3> DEFINE F(q) == Elements(Found(StemOrder[q]))
    <3>0. Elements(cases) = UNION {F(q) : q \in 1..looked}
      BY DEF IInv, Collected
    <3>1. PICK q \in 1..looked : c \in F(q)
      <4> HIDE DEF F
      <4> QED BY <3>0
    <3>2. q \in DOMAIN StemOrder /\ StemOrder[q] \in Stems
      <4>1. q \in DOMAIN StemOrder
        BY <1>1, StemsLength
      <4> QED BY <4>1 DEF Stems
    <3>3. archive[c.in].stem = StemOrder[q]
      BY <1>1, <3>1, <3>2, FoundFits DEF Fits
    <3> QED BY <3>2, <3>3, RankIs DEF RankOf
  <2> QED BY <2>1
<1>11. Ordered'
  <2> HIDE DEF f, r
  <2>1. \A k \in DOMAIN cases' : \/ k \in DOMAIN cases
                                 \/ \E m \in DOMAIN f : k = Len(cases) + m
    <3> SUFFICES ASSUME NEW k \in 1..(Len(cases) + Len(f)), k \notin 1..Len(cases)
                 PROVE  \E m \in 1..Len(f) : k = Len(cases) + m
      BY <1>5
    <3>1. k - Len(cases) \in 1..Len(f) /\ k = Len(cases) + (k - Len(cases))
      BY <1>5
    <3> QED BY <3>1
  <2>2. ASSUME NEW j \in DOMAIN cases', NEW k \in DOMAIN cases', j < k
        PROVE  \/ RankOf(cases'[j]) < RankOf(cases'[k])
               \/ /\ ~HasBothDirs
                  /\ archive[cases'[j].in].ext = "IN" /\ archive[cases'[k].in].ext = "in"
    <3>1. CASE j \in DOMAIN cases /\ k \in DOMAIN cases
      BY <1>5, <2>2, <3>1 DEF IInv, Ordered
    <3>2. ASSUME j \in DOMAIN cases, NEW m \in DOMAIN f, k = Len(cases) + m
          PROVE  RankOf(cases'[j]) < RankOf(cases'[k])
      <4>1. cases'[j] \in Elements(cases) /\ cases'[k] \in Elements(f)
        BY <1>5, <3>2 DEF Elements
      <4>2. RankOf(cases'[j]) \in 1..looked /\ RankOf(cases'[k]) = looked + 1
        BY <1>9, <1>10, <4>1 DEF r
      <4> QED BY <1>1, <4>2
    <3>3. ASSUME NEW l \in DOMAIN f, j = Len(cases) + l, NEW m \in DOMAIN f, k = Len(cases) + m
          PROVE  /\ ~HasBothDirs
                 /\ archive[cases'[j].in].ext = "IN" /\ archive[cases'[k].in].ext = "in"
      <4>1. l < m
        BY <1>5, <2>2, <3>3
      <4> QED BY <1>4, <1>5, <3>3, <4>1
    <3>4. ASSUME k \in DOMAIN cases, NEW m \in DOMAIN f, j = Len(cases) + m PROVE FALSE
      BY <1>5, <2>2, <3>4
    <3> QED BY <2>1, <3>1, <3>2, <3>3, <3>4
  <2> QED BY <1>1, <2>2, SameArchive DEF Ordered
<1> QED BY <1>6, <1>7, <1>8, <1>11 DEF IInv

\* Every step keeps the invariant; Iteration is the one of the loop.
LEMMA StepInv == IInv /\ [ArchiveNext]_archiveVars => IInv'
<1> SUFFICES ASSUME IInv, [ArchiveNext]_archiveVars PROVE IInv'
  OBVIOUS
<1>1. CASE AddEntry
  <2>1. PICK e \in Entries : archive' = Append(archive, e)
    BY <1>1 DEF AddEntry
  <2>2. UNCHANGED <<stage, looked, cases>> /\ stage = "upload" /\ looked = 0 /\ cases = <<>>
    BY <1>1 DEF AddEntry, IInv, Stages
  <2>3. Typed'
    <3>1. archive' \in Seq(Entries)
      BY <2>1, AppendProperties DEF IInv, Typed
    <3> QED BY <2>2, <3>1, EmptySeq DEF IInv, Typed
  <2>4. Stages'
    BY <2>2 DEF Stages
  <2>5. Collected' /\ Ordered'
    BY <2>2 DEF Collected, Ordered, Elements
  <2> QED BY <2>3, <2>4, <2>5 DEF IInv
<1>2. CASE Read \/ EndLoop \/ UNCHANGED archiveVars
  <2>1. UNCHANGED <<archive, looked, cases>>
    BY <1>2 DEF Read, EndLoop, archiveVars
  <2>2. Typed'
    BY <1>2, <2>1, SameArchive DEF IInv, Typed, Read, EndLoop, archiveVars
  <2>3. Stages'
    BY <1>2, <2>1, SameArchive DEF IInv, Stages, Read, EndLoop, archiveVars
  <2>4. Collected'
    <3>1. \A q : Found(StemOrder[q])' = Found(StemOrder[q])
      BY <2>1, SameArchive
    <3>2. UNION {Elements(Found(StemOrder[r])) : r \in 1..looked}'
            = UNION {Elements(Found(StemOrder[r])) : r \in 1..looked}
      BY <2>1, <3>1 DEF Elements
    <3>3. Elements(cases)' = Elements(cases)
      BY <2>1 DEF Elements
    <3> QED BY <3>2, <3>3 DEF IInv, Collected
  <2>5. Ordered'
    BY <2>1, SameArchive DEF IInv, Ordered
  <2> QED BY <2>2, <2>3, <2>4, <2>5 DEF IInv
<1>3. CASE PairNext
  BY <1>3, Iteration
<1> QED BY <1>1, <1>2, <1>3 DEF ArchiveNext

(***************************************************************************)
(* The invariant holds in every state that the reader of an archive can   *)
(* be in: between any two stems it has paired, and at its answer.          *)
(***************************************************************************)
THEOREM Invariance == ArchiveSpec => []IInv
<1> QED BY InitInv, StepInv, PTL DEF ArchiveSpec

--------------------------------------------------------------------------------
(***************************************************************************)
(* The cases collected so far fit, each with the stem of its input.        *)
(***************************************************************************)
LEMMA CasesFit ==
  ASSUME IInv, NEW k \in DOMAIN cases
  PROVE  cases[k] \in CaseOf /\ Fits(cases[k], archive[cases[k].in].stem)
<1> DEFINE F(q) == Elements(Found(StemOrder[q]))
<1>1. Elements(cases) = UNION {F(q) : q \in 1..looked}
  BY DEF IInv, Collected
<1>2. PICK q \in 1..looked : cases[k] \in F(q)
  <2>1. cases[k] \in Elements(cases)
    BY DEF Elements
  <2> HIDE DEF F
  <2> QED BY <1>1, <2>1
<1>3. q \in DOMAIN StemOrder
  BY StemsLength DEF IInv, Typed
<1>4. Fits(cases[k], StemOrder[q])
  BY <1>2, <1>3, FoundFits DEF IInv, Typed, Stems
<1> QED BY <1>4 DEF Fits

(***************************************************************************)
(* No archive, however large, gives a case an answer that is not its own   *)
(* or serves an entry as input twice, and none is imported in part: the    *)
(* loop of ParseZipCases, after the refusals of zip::Parse.                *)
(***************************************************************************)
THEOREM AnswersBelong == ArchiveSpec => []PairsMatch
<1>1. IInv => PairsMatch
  <2> SUFFICES ASSUME IInv PROVE PairsMatch
    OBVIOUS
  <2>1. stage = "imported" => Readable /\ cases # <<>>
    BY DEF IInv, Stages
  <2>2. ASSUME NEW k \in DOMAIN cases
        PROVE  LET input == archive[cases[k].in]
                   answer == archive[cases[k].out]
               IN  /\ input.stem = answer.stem
                   /\ \/ InDir(input) /\ OutDir(answer)
                      \/ Lower(input.ext) = "in" /\ answer.ext \in {"out", "ans"}
    BY CasesFit DEF Fits
  <2>3. ASSUME NEW j \in DOMAIN cases, NEW k \in DOMAIN cases, j < k
        PROVE  cases[j].in # cases[k].in
    <3>1. CASE RankOf(cases[j]) < RankOf(cases[k])
      <4>1. RankOf(cases[k]) \in Int
        <5>1. cases[k] \in CaseOf
          BY CasesFit
        <5>2. archive[cases[k].in] \in Entries /\ archive[cases[k].in].stem # ""
          BY <5>1, ElementOfSeq, LenProperties DEF CaseOf, Files, IInv, Typed
        <5>3. PICK r \in DOMAIN StemOrder : archive[cases[k].in].stem = StemOrder[r]
          BY <5>2, EntriesAssumption DEF Stems
        <5> QED BY <5>3, RankIs, StemsLength DEF RankOf
      <4>2. cases[j].in = cases[k].in => RankOf(cases[j]) = RankOf(cases[k])
        BY DEF RankOf
      <4> QED BY <3>1, <4>1, <4>2
    <3>2. CASE archive[cases[j].in].ext = "IN" /\ archive[cases[k].in].ext = "in"
      BY <3>2
    <3> QED BY <2>3, <3>1, <3>2 DEF IInv, Ordered
  <2>4. DOMAIN cases \subseteq Nat
    BY LenProperties DEF IInv, Typed
  <2>5. \A j, k \in DOMAIN cases : cases[j].in = cases[k].in => j = k
    <3> SUFFICES ASSUME NEW j \in DOMAIN cases, NEW k \in DOMAIN cases,
                        cases[j].in = cases[k].in
                 PROVE  j = k
      OBVIOUS
    <3>1. ~(j < k) /\ ~(k < j)
      BY <2>3
    <3> QED BY <2>4, <3>1
  <2> QED BY <2>1, <2>2, <2>5 DEF PairsMatch
<1> QED BY <1>1, Invariance, PTL

--------------------------------------------------------------------------------
(***************************************************************************)
(* When names differ, the entries of one stem on either side give the one  *)
(* pair of that stem, or none.                                             *)
(***************************************************************************)
LEMMA CaseIsPair ==
  ASSUME archive \in Seq(Entries), NamesDiffer, NEW s,
         NEW ins, ins = {n \in Extended : archive[n].stem = s /\ IsInput(n)},
         NEW outs, outs = {n \in Extended : archive[n].stem = s /\ ~IsInput(n)}
  PROVE  Elements(Case(ins, outs)) = {c \in Pairs : archive[c.in].stem = s}
<1>1. ins \in SUBSET Files /\ outs \in SUBSET Files
  BY DEF Extended
<1>2. ASSUME NEW d \in Pairs, archive[d.in].stem = s
      PROVE  d \in CaseOf /\ d.in \in ins /\ d.out \in outs
  BY <1>2 DEF Pairs, CaseOf, Extended
<1>3. CASE Case(ins, outs) = <<>> /\ (ins = {} \/ outs = {})
  BY <1>2, <1>3 DEF Elements
<1>4. ASSUME NEW c \in CaseOf, Case(ins, outs) = <<c>>, c.in \in ins, c.out \in outs
      PROVE  Elements(Case(ins, outs)) = {d \in Pairs : archive[d.in].stem = s}
  <2>1. Elements(Case(ins, outs)) = {c}
    <3>1. Elements(<<c>>) = {c}
      BY DEF Elements
    <3> QED BY <1>4, <3>1
  <2>2. c \in Pairs /\ archive[c.in].stem = s
    BY <1>4 DEF Pairs, CaseOf, Extended
  <2>3. ASSUME NEW d \in Pairs, archive[d.in].stem = s PROVE d = c
    <3>1. d \in CaseOf /\ d.in \in ins /\ d.out \in outs
      BY <1>2, <2>3
    <3>2. /\ c.in \in Extended /\ archive[c.in].stem = s /\ IsInput(c.in)
          /\ d.in \in Extended /\ archive[d.in].stem = s /\ IsInput(d.in)
          /\ c.out \in Extended /\ archive[c.out].stem = s /\ ~IsInput(c.out)
          /\ d.out \in Extended /\ archive[d.out].stem = s /\ ~IsInput(d.out)
      BY <1>4, <3>1
    <3>3. d.in = c.in /\ d.out = c.out
      BY <3>2 DEF NamesDiffer, IsInput
    <3> QED BY <1>4, <3>1, <3>3 DEF CaseOf
  <2> QED BY <2>1, <2>2, <2>3
<1> QED BY <1>1, <1>3, <1>4, CaseGives

(***************************************************************************)
(* In both layouts one iteration of the loop finds the pair of its stem.   *)
(***************************************************************************)
LEMMA ConventionFound ==
  ASSUME archive \in Seq(Entries), SameLevel \/ TwoDirectories, NamesDiffer, NEW s
  PROVE  /\ Elements(Found(s)) = {c \in Pairs : archive[c.in].stem = s}
         /\ HasBothDirs \/ \A n \in Files : archive[n].ext # "IN"
<1> DEFINE ins == {n \in Extended : archive[n].stem = s /\ IsInput(n)}
           outs == {n \in Extended : archive[n].stem = s /\ ~IsInput(n)}
<1>1. Elements(Case(ins, outs)) = {c \in Pairs : archive[c.in].stem = s}
  BY CaseIsPair
<1>2. CASE TwoDirectories
  <2>1. /\ \A n \in Files : archive[n].dir \in {"inputs", "outputs"}
        /\ \E n \in Files : archive[n].dir = "inputs"
        /\ \E n \in Files : archive[n].dir = "outputs"
    BY <1>2 DEF TwoDirectories
  <2>2. \A n \in Files : /\ InDir(archive[n]) <=> archive[n].dir = "inputs"
                         /\ OutDir(archive[n]) <=> archive[n].dir = "outputs"
    BY <2>1 DEF InDir, OutDir, Lower
  <2>3. HasBothDirs
    BY <2>1, <2>2 DEF HasBothDirs
  <2>4. \A n \in Files : StemKey(archive[n]) = <<s>> <=> n \in Extended /\ archive[n].stem = s
    BY DEF StemKey, Extended
  <2>5. \A n \in Files : /\ IsInput(n) <=> InDir(archive[n])
                         /\ ~IsInput(n) <=> OutDir(archive[n])
    BY <1>2, <2>1, <2>2 DEF IsInput
  <2> DEFINE keyed == {n \in Files : StemKey(archive[n]) = <<s>>}
  <2>6. /\ {n \in keyed : InDir(archive[n])} = ins
        /\ {n \in keyed : OutDir(archive[n])} = outs
    BY <2>4, <2>5 DEF Extended
  <2>7. Found(s) = Case(ins, outs)
    <3>1. Found(s) = Case({n \in keyed : InDir(archive[n])}, {n \in keyed : OutDir(archive[n])})
      BY <2>3 DEF Found, ByDirectory
    <3> HIDE DEF keyed, ins, outs
    <3> QED BY <2>6, <3>1
  <2> QED BY <1>1, <2>3, <2>7
<1>3. CASE SameLevel /\ ~TwoDirectories
  <2>1. /\ \A n \in Files : archive[n].ext \in {"in", "out"}
        /\ \A m, n \in Files : archive[m].dir = archive[n].dir
    BY <1>3 DEF SameLevel
  <2>2. ~HasBothDirs
    BY <2>1 DEF HasBothDirs, InDir, OutDir
  <2>3. \A n \in Files : /\ IsInput(n) <=> archive[n].ext = "in"
                         /\ ~IsInput(n) <=> archive[n].ext = "out"
    BY <1>3, <2>1 DEF IsInput
  <2>4. /\ Named(s, "IN") = {} /\ Named(s, "ans") = {}
        /\ Named(s, "in") = ins /\ Named(s, "out") = outs
    BY <2>1, <2>3 DEF Named, Extended
  <2>5. Answer(s, "in") = outs
    <3> HIDE DEF outs
    <3> QED BY <2>4 DEF Answer
  <2>6. Case(Named(s, "IN"), Answer(s, "IN")) = <<>>
    BY <2>4 DEF Case
  <2>7. Found(s) = <<>> \o Case(ins, outs)
    <3> HIDE DEF ins, outs
    <3> QED BY <2>2, <2>4, <2>5, <2>6 DEF Found, ByExtension
  <2>8. Case(ins, outs) \in Seq(CaseOf)
    <3>1. ins \in SUBSET Files /\ outs \in SUBSET Files
      BY DEF Extended
    <3>2. Case(ins, outs) = <<>> \/ \E c \in CaseOf : Case(ins, outs) = <<c>>
      <4> HIDE DEF ins, outs
      <4> QED BY <3>1, CaseGives
    <3>3. <<>> \in Seq(CaseOf) /\ \A c \in CaseOf : <<c>> \in Seq(CaseOf)
      OBVIOUS
    <3> HIDE DEF ins, outs
    <3> QED BY <3>2, <3>3
  <2>9. Found(s) = Case(ins, outs)
    <3> HIDE DEF ins, outs
    <3> QED BY <2>7, <2>8, ConcatEmptySeq
  <2> QED BY <1>1, <2>1, <2>9
<1> QED BY <1>2, <1>3

(***************************************************************************)
(* An archive of any size that keeps to one of the two conventions above   *)
(* ParseZipCases gives every pair of files that have an extension, in the  *)
(* order of the names, and nothing else; it is refused exactly when it has *)
(* no such pair, as inputs/1 with outputs/1 is.                            *)
(***************************************************************************)
THEOREM Conventions == ArchiveSpec => []ConventionImported
<1>1. IInv => ConventionImported
  <2> SUFFICES ASSUME IInv, stage \in {"imported", "refused"}, Readable,
                      SameLevel \/ TwoDirectories, NamesDiffer
               PROVE  /\ (stage = "imported") = (Pairs # {})
                      /\ {cases[k] : k \in DOMAIN cases} = Pairs
                      /\ \A j, k \in DOMAIN cases : j < k =>
                           Rank(archive[cases[j].in].stem) < Rank(archive[cases[k].in].stem)
    BY DEF ConventionImported
  <2> DEFINE F(q) == Elements(Found(StemOrder[q]))
  <2>1. archive \in Seq(Entries) /\ looked = Len(StemOrder)
    BY DEF IInv, Typed, Stages
  <2>2. Elements(cases) = UNION {F(q) : q \in DOMAIN StemOrder}
    BY <2>1, StemsLength DEF IInv, Collected
  <2>3. \A q : F(q) = {c \in Pairs : archive[c.in].stem = StemOrder[q]}
    BY <2>1, ConventionFound
  <2>4. ASSUME NEW c \in Pairs PROVE \E q \in DOMAIN StemOrder : c \in F(q)
    <3>1. c.in \in Files
      BY DEF Pairs, Extended
    <3>2. archive[c.in] \in Entries /\ archive[c.in].stem # ""
      BY <2>1, <3>1, ElementOfSeq, LenProperties DEF Files
    <3>3. PICK q \in DOMAIN StemOrder : archive[c.in].stem = StemOrder[q]
      BY <3>2, EntriesAssumption DEF Stems
    <3> QED BY <2>3, <3>3
  <2>5. Elements(cases) = Pairs
    <3> HIDE DEF F
    <3>1. UNION {F(q) : q \in DOMAIN StemOrder} \subseteq Pairs
      BY <2>3
    <3>2. Pairs \subseteq UNION {F(q) : q \in DOMAIN StemOrder}
      BY <2>4
    <3> QED BY <2>2, <3>1, <3>2
  <2>6. cases = <<>> <=> Pairs = {}
    <3>1. cases \in Seq(CaseOf)
      BY DEF IInv, Typed
    <3>2. cases = <<>> <=> DOMAIN cases = {}
      BY <3>1, LenProperties, EmptySeq
    <3>3. DOMAIN cases = {} <=> Elements(cases) = {}
      BY DEF Elements
    <3> QED BY <2>5, <3>2, <3>3
  <2>7. (stage = "imported") = (Pairs # {})
    BY <2>6 DEF IInv, Stages
  <2>8. ASSUME NEW j \in DOMAIN cases, NEW k \in DOMAIN cases, j < k
        PROVE  RankOf(cases[j]) < RankOf(cases[k])
    <3>1. cases[j].in \in Files
      BY CasesFit DEF CaseOf
    <3>2. HasBothDirs \/ archive[cases[j].in].ext # "IN"
      BY <2>1, <3>1, ConventionFound
    <3> QED BY <2>8, <3>2 DEF IInv, Ordered
  <2> QED BY <2>5, <2>7, <2>8 DEF Elements, RankOf
<1> QED BY <1>1, Invariance, PTL
================================================================================
