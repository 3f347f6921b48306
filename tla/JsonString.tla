------------------------------- MODULE JsonString -------------------------------
(***************************************************************************)
(* The strings of src/util/json.h: what EscapeString writes for a byte,    *)
(* and one iteration of the loop of parse_string.  A text is a sequence of *)
(* bytes; a position is the index of the next byte, from 1.                *)
(***************************************************************************)
EXTENDS Integers, Sequences

\* The letter after the backslash, and the byte it stands for; '/' is only read.
Escapes ==
  [e \in {34, 92, 47, 98, 102, 110, 114, 116} |->
     CASE e = 98 -> 8 [] e = 102 -> 12 [] e = 110 -> 10 [] e = 114 -> 13 [] e = 116 -> 9
       [] OTHER -> e]
Written == DOMAIN Escapes \ {47}

\* Four hexadecimal digits; ten is the letter for 10, 'a' or 'A'.
HexDigit(d, ten) == IF d < 10 THEN 48 + d ELSE ten + (d - 10)
Hex4(n, ten) ==
  <<HexDigit((n \div 4096) % 16, ten), HexDigit((n \div 256) % 16, ten),
    HexDigit((n \div 16) % 16, ten), HexDigit(n % 16, ten)>>

\* Mutant of EscapeByte: control bytes are written as they are, and so is the
\* backslash.
EscapeQuoteOnly(c) == IF c = 34 THEN <<92, 34>> ELSE <<c>>
EscapeByte(c) ==
  IF \E e \in Written : Escapes[e] = c THEN <<92, CHOOSE e \in Written : Escapes[e] = c>>
  ELSE IF c < 32 THEN <<92, 117>> \o Hex4(c, 97)
  ELSE <<c>>

--------------------------------------------------------------------------------
\* Reading.  A step of the parser gives the value and the position after it, or fails.

Fail == [ok |-> FALSE]
Got(v, i) == [ok |-> TRUE, v |-> v, i |-> i]

At(s, i) == IF i <= Len(s) THEN s[i] ELSE -1

HexValue(c) ==
  IF c \in 48..57 THEN c - 48 ELSE IF c \in 97..102 THEN c - 87
  ELSE IF c \in 65..70 THEN c - 55 ELSE -1
\* parse_hex4; -1 when it fails.
ParseHex4(s, i) ==
  IF i + 3 > Len(s) \/ \E k \in i..(i + 3) : HexValue(s[k]) = -1 THEN -1
  ELSE 4096 * HexValue(s[i]) + 256 * HexValue(s[i + 1]) + 16 * HexValue(s[i + 2])
         + HexValue(s[i + 3])

High(cp) == 55296 <= cp /\ cp < 56320    \* 0xD800 to 0xDBFF
Low(cp)  == 56320 <= cp /\ cp < 57344    \* 0xDC00 to 0xDFFF

\* The code point of the escape whose digits begin at i: a high surrogate needs its
\* second half, a low one alone is taken as it is.
CodePoint(s, i) ==
  LET hi == ParseHex4(s, i)
      lo == IF At(s, i + 4) = 92 /\ At(s, i + 5) = 117 THEN ParseHex4(s, i + 6) ELSE -1
  IN  IF hi = -1 THEN Fail
      ELSE IF ~High(hi) THEN Got(hi, i + 4)
      ELSE IF Low(lo) THEN Got(65536 + (hi - 55296) * 1024 + (lo - 56320), i + 10)
      ELSE Fail

\* The mutant takes the two-byte form for 0x800 as well.
Utf8OffByOne(cp) ==
  IF cp < 128 THEN <<cp>>
  ELSE IF cp <= 2048 THEN <<192 + ((cp \div 64) % 64), 128 + (cp % 64)>>
  ELSE IF cp < 65536 THEN <<224 + cp \div 4096, 128 + ((cp \div 64) % 64), 128 + (cp % 64)>>
  ELSE <<240 + cp \div 262144, 128 + ((cp \div 4096) % 64), 128 + ((cp \div 64) % 64), 128 + (cp % 64)>>
Utf8(cp) ==
  IF cp < 128 THEN <<cp>>
  ELSE IF cp < 2048 THEN <<192 + cp \div 64, 128 + (cp % 64)>>
  ELSE IF cp < 65536 THEN <<224 + cp \div 4096, 128 + ((cp \div 64) % 64), 128 + (cp % 64)>>
  ELSE <<240 + cp \div 262144, 128 + ((cp \div 4096) % 64), 128 + ((cp \div 64) % 64), 128 + (cp % 64)>>

\* One iteration of parse_string on a byte that is not the closing quote: the bytes
\* it adds to the string.
ReadChar(s, i) ==
  LET c  == At(s, i)
      e  == At(s, i + 1)
      cp == CodePoint(s, i + 2)
  IN  IF c # 92 THEN Got(<<c>>, i + 1)
      ELSE IF e = 117 THEN IF cp.ok THEN Got(Utf8(cp.v), cp.i) ELSE Fail
      ELSE IF e \in DOMAIN Escapes THEN Got(<<Escapes[e]>>, i + 2)
      ELSE Fail
================================================================================
