------------------------------ MODULE CaseArchive -------------------------------
(***************************************************************************)
(* An archive of test cases: zip::Parse of src/util/zip.h, entry by entry, *)
(* and ParseZipCases of src/routes/problem_routes.cpp, which pairs the     *)
(* entries in a loop over a map.  An entry of the central directory has    *)
(*   dir, stem, ext   the parts of its name: before the last '/', up to    *)
(*                    the last '.', after it ("none" when there is no '.');*)
(*                    only a directory's own entry has the stem "" (files  *)
(*                    that are named by an extension alone are left out)   *)
(*   fault            what zip::Parse finds wrong with it, or "none"       *)
(* and its index in the archive stands for its content.                    *)
(***************************************************************************)
EXTENDS Integers, Sequences

CONSTANTS
  StemOrder,           \* the stems (digits and letters), in the order of std::string
  Entries, MaxEntries  \* entries of an archive; bound: their number

Stems == {StemOrder[r] : r \in DOMAIN StemOrder}

ASSUME StemOrderAssumption ==
  /\ StemOrder \in Seq(Stems) /\ "" \notin Stems
  /\ \A q, r \in DOMAIN StemOrder : StemOrder[q] = StemOrder[r] => q = r
ASSUME EntriesAssumption == \A e \in Entries : e.stem \in Stems \cup {""}

VARIABLES
  archive,
  stage,   \* "upload", then "pair", then "imported" or "refused"
  looked,  \* the loop has been through this many stems
  cases    \* pairs of entries, an input and its answer
archiveVars == <<archive, stage, looked, cases>>

ArchiveInit == archive = <<>> /\ stage = "upload" /\ looked = 0 /\ cases = <<>>

AddEntry ==
  /\ stage = "upload" /\ Len(archive) < MaxEntries
  /\ \E e \in Entries : archive' = Append(archive, e)
  /\ UNCHANGED <<stage, looked, cases>>

\* Directories are skipped before anything of them is looked at; one bad entry
\* refuses the archive: an absolute path or "..", a bad local header, truncated
\* data, an unknown method, a stream that does not inflate to its size.
Files == {n \in DOMAIN archive : archive[n].stem # ""}
Readable == \A n \in Files : archive[n].fault = "none"

Read ==
  /\ stage = "upload"
  /\ stage' = IF Readable THEN "pair" ELSE "refused"
  /\ UNCHANGED <<archive, looked, cases>>

--------------------------------------------------------------------------------
\* ParseZipCases.  A map from keys to entries keeps the last entry of a key.

Lower(word) ==
  CASE word \in {"Inputs", "INPUTS"} -> "inputs"
    [] word = "IN"  -> "in"
    [] word = "OUT" -> "out"
    [] OTHER -> word

Latest(ns) == CHOOSE n \in ns : \A m \in ns : m <= n

InDir(e)  == Lower(e.dir) \in {"inputs", "in"}
OutDir(e) == Lower(e.dir) \in {"outputs", "out", "answers"}

\* The mutant does not look at directories.
NeverBothDirs == FALSE
HasBothDirs == (\E n \in Files : InDir(archive[n])) /\ (\E n \in Files : OutDir(archive[n]))

\* The case that two sets of entries with fitting keys give, if both have one.
Case(ins, outs) ==
  IF ins = {} \/ outs = {} THEN <<>> ELSE <<[in |-> Latest(ins), out |-> Latest(outs)]>>

\* stem: the base name up to its last '.', but all of the path when it has none.
StemKey(e) == IF e.ext = "none" THEN <<e.dir, e.stem>> ELSE <<e.stem>>

\* Plan A: the entries of the input directories by stem, with those of the answer
\* directories.
ByDirectory(s) ==
  LET keyed == {n \in Files : StemKey(archive[n]) = <<s>>}
  IN  Case({n \in keyed : InDir(archive[n])}, {n \in keyed : OutDir(archive[n])})

\* Plan B: base names, in whatever directory.  x.in looks for x.out, then for x.ans;
\* an extension in other letters is an input too, but finds only x.ans, and an
\* answer is found only in small letters.  "IN" comes before "in" in the map.
\* The mutant takes an answer of any name.
Named(s, x) == {n \in Files : archive[n].stem = s /\ archive[n].ext = x}
AnyAnswer(s, x) == {n \in Files : archive[n].ext \in {"out", "ans"}}
Answer(s, x) == IF x = "in" /\ Named(s, "out") # {} THEN Named(s, "out") ELSE Named(s, "ans")
ByExtension(s) ==
  Case(Named(s, "IN"), Answer(s, "IN")) \o Case(Named(s, "in"), Answer(s, "in"))

Found(s) == IF HasBothDirs THEN ByDirectory(s) ELSE ByExtension(s)

\* The loop over the map, through the entries of one stem at a time.
PairNext ==
  /\ stage = "pair" /\ looked < Len(StemOrder)
  /\ cases' = cases \o Found(StemOrder[looked + 1])
  /\ looked' = looked + 1
  /\ UNCHANGED <<archive, stage>>

EndLoop ==
  /\ stage = "pair" /\ looked = Len(StemOrder)
  /\ stage' = IF cases = <<>> THEN "refused" ELSE "imported"
  /\ UNCHANGED <<archive, looked, cases>>

ArchiveNext == AddEntry \/ Read \/ PairNext \/ EndLoop
ArchiveSpec == ArchiveInit /\ [][ArchiveNext]_archiveVars

--------------------------------------------------------------------------------
(* The answer of a case belongs to its input: both entries have the same   *)
(* stem and stand on their side, no entry is the input of two cases, and   *)
(* an archive with an entry that cannot be read imports nothing.           *)
PairsMatch ==
  /\ stage = "imported" => Readable /\ cases # <<>>
  /\ \A k \in DOMAIN cases :
       LET input  == archive[cases[k].in]
           answer == archive[cases[k].out]
       IN
       /\ input.stem = answer.stem
       /\ \/ InDir(input) /\ OutDir(answer)
          \/ Lower(input.ext) = "in" /\ answer.ext \in {"out", "ans"}
  /\ \A j, k \in DOMAIN cases : cases[j].in = cases[k].in => j = k

(* The two conventions named above ParseZipCases: files case_N.in and      *)
(* case_N.out of one directory, or the directories inputs/ and outputs/.   *)
(* Of an archive that keeps to one of them every pair of files that have   *)
(* an extension is imported, once, in the order of the names, and nothing  *)
(* else: a file without an extension, such as inputs/1 beside outputs/1,   *)
(* is in no case (its key is its whole path), though the convention names  *)
(* no extension for the files of the two directories.  The archive is      *)
(* refused exactly when it has no such pair.                               *)
SameLevel ==
  /\ \A n \in Files : archive[n].ext \in {"in", "out"}
  /\ \A m, n \in Files : archive[m].dir = archive[n].dir
TwoDirectories == {archive[n].dir : n \in Files} = {"inputs", "outputs"}

Extended == {n \in Files : archive[n].ext # "none"}
IsInput(n) == IF TwoDirectories THEN archive[n].dir = "inputs" ELSE archive[n].ext = "in"
NamesDiffer ==
  \A m, n \in Extended : archive[m].stem = archive[n].stem /\ IsInput(m) = IsInput(n) => m = n
Pairs ==
  {c \in [in : Extended, out : Extended] :
     archive[c.in].stem = archive[c.out].stem /\ IsInput(c.in) /\ ~IsInput(c.out)}
Rank(s) == CHOOSE r \in DOMAIN StemOrder : StemOrder[r] = s

ConventionImported ==
  stage \in {"imported", "refused"} /\ Readable /\ (SameLevel \/ TwoDirectories) /\ NamesDiffer =>
    /\ (stage = "imported") = (Pairs # {})
    /\ {cases[k] : k \in DOMAIN cases} = Pairs
    /\ \A j, k \in DOMAIN cases :
         j < k => Rank(archive[cases[j].in].stem) < Rank(archive[cases[k].in].stem)
================================================================================
