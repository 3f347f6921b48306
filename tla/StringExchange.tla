----------------------------- MODULE StringExchange -----------------------------
(***************************************************************************)
(* A string on its way through a body: the server (EscapeString) or a      *)
(* client writes it, character by character, the body arrives whole or cut *)
(* short, and parse_string of src/util/json.h reads it in its loop.  The   *)
(* text begins after the opening quote.                                    *)
(***************************************************************************)
EXTENDS JsonString

CONSTANTS
  Bytes,       \* bytes of the strings the server writes
  CodePoints,  \* characters a client escapes as \uXXXX, or as a pair of them
  MaxPieces    \* bound: characters of a string

ASSUME BytesAssumption == \A c \in Bytes : c \in Nat /\ c < 256
ASSUME CodePointsAssumption ==
  \A cp \in CodePoints : cp \in Nat /\ cp < 1114112 /\ ~High(cp) /\ ~Low(cp)
ASSUME MaxPiecesAssumption == MaxPieces \in Nat

VARIABLES
  text,
  pieces, starts,  \* history: what was written, and where each piece begins
  closed,          \* the text has its closing quote
  pc,              \* "write", "read", then "accepted" or "failed"
  i, out           \* parse_string: the next byte, and what it has read, by iteration
vars == <<text, pieces, starts, closed, pc, i, out>>

Piece ==
  [by : {"dump"}, char : Bytes]
  \cup [by : {"escape"}, char : CodePoints, ten : {65, 97}]
  \cup [by : {"letter"}, char : DOMAIN Escapes]

\* A character beyond the first 65536 is written as two halves (UTF-16).
Utf16(cp, ten) ==
  LET Unit(u) == <<92, 117>> \o Hex4(u, ten)
  IN  IF cp < 65536 THEN Unit(cp)
      ELSE Unit(55296 + (cp - 65536) \div 1024) \o Unit(56320 + ((cp - 65536) % 1024))

Form(p) ==
  CASE p.by = "dump"   -> EscapeByte(p.char)
    [] p.by = "escape" -> Utf16(p.char, p.ten)
    [] p.by = "letter" -> <<92, p.char>>

Init ==
  /\ text = <<>> /\ pieces = <<>> /\ starts = <<1>> /\ closed = FALSE
  /\ pc = "write" /\ i = 1 /\ out = <<>>

Write ==
  /\ pc = "write" /\ Len(pieces) < MaxPieces
  /\ \E p \in Piece : /\ text' = text \o Form(p)
                      /\ pieces' = Append(pieces, p)
  /\ starts' = Append(starts, Len(text') + 1)
  /\ UNCHANGED <<closed, pc, i, out>>

Close ==
  /\ pc = "write"
  /\ text' = Append(text, 34) /\ closed' = TRUE
  /\ pc' = "read"
  /\ UNCHANGED <<pieces, starts, i, out>>

\* Of the body only a part arrives.
Cut ==
  /\ pc = "write"
  /\ \E m \in 0..Len(text) : text' = SubSeq(text, 1, m)
  /\ pc' = "read"
  /\ UNCHANGED <<pieces, starts, closed, i, out>>

--------------------------------------------------------------------------------
\* parse_string

ReadNext ==
  /\ pc = "read" /\ At(text, i) \notin {-1, 34}
  /\ LET r == ReadChar(text, i) IN
       \/ /\ r.ok
          /\ i' = r.i /\ out' = Append(out, r.v)
          /\ UNCHANGED pc
       \/ ~r.ok /\ pc' = "failed" /\ UNCHANGED <<i, out>>
  /\ UNCHANGED <<text, pieces, starts, closed>>

ReadQuote ==
  /\ pc = "read" /\ At(text, i) = 34
  /\ i' = i + 1 /\ pc' = "accepted"
  /\ UNCHANGED <<text, pieces, starts, closed, out>>

Unterminated ==
  /\ pc = "read" /\ At(text, i) = -1
  /\ pc' = "failed"
  /\ UNCHANGED <<text, pieces, starts, closed, i, out>>

Next == Write \/ Close \/ Cut \/ ReadNext \/ ReadQuote \/ Unterminated
Spec == Init /\ [][Next]_vars

--------------------------------------------------------------------------------
\* UTF-8 as the standard defines it, read backwards: the shortest form, a first byte
\* that tells the length, and six bits in each byte after it.
Shortest(cp) == IF cp < 128 THEN 1 ELSE IF cp < 2048 THEN 2 ELSE IF cp < 65536 THEN 3 ELSE 4
IsUtf8(b, cp) ==
  /\ Len(b) = Shortest(cp)
  /\ \A k \in 2..Len(b) : 128 <= b[k] /\ b[k] < 192
  /\ \/ Len(b) = 1 /\ 0 <= b[1] /\ b[1] < 128 /\ cp = b[1]
     \/ /\ Len(b) = 2 /\ 192 <= b[1] /\ b[1] < 224
        /\ cp = 64 * (b[1] - 192) + (b[2] - 128)
     \/ /\ Len(b) = 3 /\ 224 <= b[1] /\ b[1] < 240
        /\ cp = 4096 * (b[1] - 224) + 64 * (b[2] - 128) + (b[3] - 128)
     \/ /\ Len(b) = 4 /\ 240 <= b[1] /\ b[1] < 248
        /\ cp = 262144 * (b[1] - 240) + 4096 * (b[2] - 128) + 64 * (b[3] - 128) + (b[4] - 128)

Means(b, p) ==
  CASE p.by = "dump"   -> b = <<p.char>>
    [] p.by = "escape" -> IsUtf8(b, p.char)
    [] p.by = "letter" -> b = <<Escapes[p.char]>>

(* A string is read as it was written: the bytes the server wrote, and the *)
(* UTF-8 of what a client escaped, surrogate pairs included.  A whole text *)
(* is accepted up to its closing quote and no further; one that was cut,   *)
(* wherever, is refused.                                                   *)
CharactersKept ==
  /\ \A k \in DOMAIN out : k \in DOMAIN pieces /\ Means(out[k], pieces[k])
  /\ pc = "accepted" => closed /\ Len(out) = Len(pieces) /\ i = Len(text) + 1
  /\ pc = "failed" => ~closed
================================================================================
