-------------------------------- MODULE MCFormats --------------------------------
(***************************************************************************)
(* What a client can send, in one instance: a body as a text or a value,   *)
(* one string of a body, or an archive.  A behaviour handles one of them;  *)
(* the machines of the others stay where they begin.                       *)
(***************************************************************************)
EXTENDS StringExchange, CaseArchive, Bodies

FormatsInit == Init /\ ArchiveInit /\ BodyInit
FormatsNext ==
  \/ ArchiveInit /\ BodyInit /\ Next /\ UNCHANGED <<archiveVars, bodyVars>>
  \/ Init /\ BodyInit /\ ArchiveNext /\ UNCHANGED <<vars, bodyVars>>
  \/ Init /\ ArchiveInit /\ BodyNext /\ UNCHANGED <<vars, archiveVars>>
FormatsSpec == FormatsInit /\ [][FormatsNext]_<<vars, archiveVars, bodyVars>>

--------------------------------------------------------------------------------
\* The bytes with an escape of their own, the other control bytes at both ends, plain
\* bytes, bytes of UTF-8, and both sides of every bound of UTF-8 and UTF-16.
MCBytes == {0, 8, 9, 10, 12, 13, 31, 32, 34, 47, 92, 117, 127, 195, 255}
MCCodePoints ==
  {0, 31, 34, 92, 127, 128, 2047, 2048, 4095, 4096, 55295, 57344, 65535, 65536, 65537,
   66559, 66560, 131071, 131072, 1048575, 1048576, 1114111}

\* Entries of both layouts of an archive, and of none.
MCStemOrder == <<"1", "10", "2">>
File(dir, stem, ext) == [dir |-> dir, stem |-> stem, ext |-> ext, fault |-> "none"]
MCEntries ==
  [dir : {"inputs", "outputs"}, stem : {"1", "10", "2"}, ext : {"txt"}, fault : {"none"}]
  \cup [dir : {"tests"}, stem : {"1", "10"}, ext : {"in", "out"}, fault : {"none"}]
  \cup {File("", "1", "in"), File("inputs", "1", "IN"), File("Inputs", "1", "in"),
        File("inputs", "1", "none"), File("outputs", "1", "none"), File("answers", "1", "none"), File("tests", "1", "ans"), File("inputs", "", "none"),
        [File("tests", "2", "out") EXCEPT !.fault = "unsafe path"],
        [File("tests", "", "none") EXCEPT !.fault = "unsafe path"]}

\* Pieces of JSON: " \ [ ] { } , : space 1 -2 1. null "a"
MCFragments ==
  {<<34>>, <<92>>, <<91>>, <<93>>, <<123>>, <<125>>, <<44>>, <<58>>, <<32>>, <<49>>,
   <<45, 50>>, <<49, 46>>, NullWord, <<34, 97, 34>>}

\* Small values: in strings, a quote and a backslash, a newline, NUL and 0x1f, a byte of
\* UTF-8, "u".  Of fractions a third, a tie of the seventh digit, a negative and a small one.
MCLeaves ==
  {Null, Bool(TRUE), Bool(FALSE), Number(0), Number(-120), Array(<<>>), Object(<<>>),
   Ratio(100, 3), Ratio(25, 128), Ratio(-5, 2), Ratio(1, 600),
   String(<<>>), String(<<34, 92>>), String(<<10>>), String(<<0, 31>>), String(<<195, 169, 117>>)}
MCKeys == {<<97>>, <<97, 34>>}
================================================================================
