-------------------------- MODULE StringExchange_proofs --------------------------
(***************************************************************************)
(* Theorems about StringExchange, for any bytes, any characters and        *)
(* strings of any length: parse_string reads what was written, the UTF-8   *)
(* it makes of an escape is right, and a text that was cut is refused.     *)
(***************************************************************************)
EXTENDS StringExchange, TLAPS, SequenceTheorems

(***************************************************************************)
(* Four hexadecimal digits read back, in small or capital letters.         *)
(***************************************************************************)
LEMMA DigitRead ==
  ASSUME NEW d \in 0..15, NEW ten \in {65, 97}
  PROVE  HexValue(HexDigit(d, ten)) = d /\ HexDigit(d, ten) \in Nat
BY DEF HexValue, HexDigit

\* Division by 16 and by 64, as the parser and the encoder use it.
LEMMA Div16 ==
  ASSUME NEW n \in Nat
  PROVE  n \div 16 \in Nat /\ n % 16 \in 0..15 /\ n = 16 * (n \div 16) + (n % 16)
BY SMT

LEMMA Div64 ==
  ASSUME NEW n \in Nat
  PROVE  n \div 64 \in Nat /\ n % 64 \in 0..63 /\ n = 64 * (n \div 64) + (n % 64)
BY SMT

Digit(n, w) == (n \div w) % 16

\* A code unit is the sum of its four digits.
LEMMA HexSum ==
  ASSUME NEW n \in Nat, n < 65536
  PROVE  /\ Digit(n, 4096) \in 0..15 /\ Digit(n, 256) \in 0..15
         /\ Digit(n, 16) \in 0..15 /\ n % 16 \in 0..15
         /\ n = 4096 * Digit(n, 4096) + 256 * Digit(n, 256) + 16 * Digit(n, 16) + (n % 16)
<1> DEFINE x == n \div 16
           y == n \div 256
           z == n \div 4096
<1>1. y = x \div 16 /\ z = y \div 16
  BY SMT
<1>2. n % 16 \in 0..15 /\ n = 16 * x + (n % 16) /\ x \in Nat
  BY Div16, SMT
<1>3. x % 16 \in 0..15 /\ x = 16 * y + (x % 16) /\ y \in Nat
  BY <1>1, <1>2, Div16, SMT
<1>4. y % 16 \in 0..15 /\ y = 16 * z + (y % 16) /\ z \in Nat
  BY <1>1, <1>3, Div16, SMT
<1>5. z \in 0..15 /\ z % 16 = z
  <2> HIDE DEF x, y, z
  <2>1. z \in 0..15
    BY <1>2, <1>3, <1>4, SMT
  <2> QED BY <2>1, SMT
<1>6. Digit(n, 4096) = z /\ Digit(n, 256) = y % 16 /\ Digit(n, 16) = x % 16
  BY <1>5, SMT DEF Digit
<1> HIDE DEF x, y, z
<1> QED BY <1>2, <1>3, <1>4, <1>5, <1>6, SMT

\* A UTF-16 code unit, and its four digits at a place of a text.
CodeUnit(n) == n \in Nat /\ n < 65536
DigitsAt(s, at, n, ten) ==
  /\ s[at] = HexDigit(Digit(n, 4096), ten) /\ s[at + 1] = HexDigit(Digit(n, 256), ten)
  /\ s[at + 2] = HexDigit(Digit(n, 16), ten) /\ s[at + 3] = HexDigit(n % 16, ten)

\* parse_hex4 reads back what Hex4 wrote, and fails when the text ends before.
LEMMA HexRead ==
  ASSUME NEW n, CodeUnit(n), NEW ten \in {65, 97}, NEW s \in Seq(Int), NEW at \in Nat,
         at + 3 <= Len(s), DigitsAt(s, at, n, ten)
  PROVE  ParseHex4(s, at) = n
<1> DEFINE a == Digit(n, 4096)
           b == Digit(n, 256)
           c == Digit(n, 16)
           d == n % 16
<1>1. /\ a \in 0..15 /\ b \in 0..15 /\ c \in 0..15 /\ d \in 0..15
      /\ n = 4096 * a + 256 * b + 16 * c + d
  BY HexSum, SMT DEF CodeUnit
<1>2. a \in 0..15 /\ b \in 0..15 /\ c \in 0..15 /\ d \in 0..15
  BY <1>1, SMT
<1>3. Len(s) \in Nat /\ ~(at + 3 > Len(s))
  BY LenProperties, SMT
<1>4. /\ s[at] = HexDigit(a, ten) /\ s[at + 1] = HexDigit(b, ten)
      /\ s[at + 2] = HexDigit(c, ten) /\ s[at + 3] = HexDigit(d, ten)
  BY SMT DEF DigitsAt
<1> HIDE DEF a, b, c, d
<1>5. \A e \in 0..15 : HexValue(HexDigit(e, ten)) = e
  BY DigitRead
<1>6. HexValue(s[at]) = a /\ HexValue(s[at + 1]) = b
  BY <1>2, <1>4, <1>5, Zenon
<1>7. HexValue(s[at + 2]) = c /\ HexValue(s[at + 3]) = d
  BY <1>2, <1>4, <1>5, Zenon
<1>8. a # -1 /\ b # -1 /\ c # -1 /\ d # -1
  BY <1>2, SMT
<1>9. \A k \in at..(at + 3) : HexValue(s[k]) # -1
  <2>1. \A k \in at..(at + 3) : k = at \/ k = at + 1 \/ k = at + 2 \/ k = at + 3
    BY SMT
  <2> SUFFICES ASSUME NEW k \in at..(at + 3)  PROVE HexValue(s[k]) # -1
    OBVIOUS
  <2>2. HexValue(s[k]) \in {a, b, c, d}
    BY <1>6, <1>7, <2>1, Zenon
  <2> QED BY <1>8, <2>2, Zenon
<1>10. ParseHex4(s, at) = 4096 * HexValue(s[at]) + 256 * HexValue(s[at + 1])
                          + 16 * HexValue(s[at + 2]) + HexValue(s[at + 3])
  BY <1>3, <1>9, SMT DEF ParseHex4
<1> QED BY <1>1, <1>6, <1>7, <1>10, SMT

LEMMA HexCut ==
  ASSUME NEW s, NEW at, at + 3 > Len(s)
  PROVE  ParseHex4(s, at) = -1
BY DEF ParseHex4

(***************************************************************************)
(* The bytes that parse_string makes of a code point are its UTF-8.        *)
(***************************************************************************)
LEMMA Utf8Right ==
  ASSUME NEW cp \in Nat, cp < 1114112
  PROVE  IsUtf8(Utf8(cp), cp)
<1>1. cp \in Nat /\ cp < 1114112
  OBVIOUS
<1> DEFINE x == cp \div 64
           y == cp \div 4096
           z == cp \div 262144
<1>2. y = x \div 64 /\ z = y \div 64
  BY <1>1, SMT
<1>3. cp % 64 \in 0..63 /\ cp = 64 * x + (cp % 64) /\ x \in Nat
  BY <1>1, Div64
<1>4. x % 64 \in 0..63 /\ x = 64 * y + (x % 64) /\ y \in Nat
  BY <1>2, <1>3, Div64
<1>5. y % 64 \in 0..63 /\ y = 64 * z + (y % 64) /\ z \in Nat
  BY <1>2, <1>4, Div64
<1>6. Utf8(cp) = IF cp < 128 THEN <<cp>>
                 ELSE IF cp < 2048 THEN <<192 + x, 128 + (cp % 64)>>
                 ELSE IF cp < 65536 THEN <<224 + y, 128 + (x % 64), 128 + (cp % 64)>>
                 ELSE <<240 + z, 128 + (y % 64), 128 + (x % 64), 128 + (cp % 64)>>
  BY DEF Utf8
<1> DEFINE a == cp % 64
           b == x % 64
           c == y % 64
<1> HIDE DEF x, y, z, a, b, c
<1>7. CASE cp < 128
  <2>1. Utf8(cp) = <<cp>>
    BY <1>6, <1>7, SMT
  <2> QED BY <1>1, <1>7, <2>1, SMT DEF IsUtf8, Shortest
<1>8. CASE cp >= 128 /\ cp < 2048
  <2>1. Utf8(cp) = <<192 + x, 128 + a>>
    BY <1>1, <1>6, <1>8, SMT DEF a
  <2>2. cp = 64 * x + a /\ x \in 2..31 /\ a \in 0..63
    BY <1>1, <1>3, <1>8, SMT DEF a
  <2> QED BY <1>8, <2>1, <2>2, SMT DEF IsUtf8, Shortest
<1>9. CASE cp >= 2048 /\ cp < 65536
  <2>1. Utf8(cp) = <<224 + y, 128 + b, 128 + a>>
    BY <1>1, <1>6, <1>9, SMT DEF a, b
  <2>2. /\ cp = 4096 * y + 64 * b + a
        /\ y \in 0..15 /\ b \in 0..63 /\ a \in 0..63
    BY <1>1, <1>3, <1>4, <1>9, SMT DEF a, b
  <2> QED BY <1>9, <2>1, <2>2, SMT DEF IsUtf8, Shortest
<1>10. CASE cp >= 65536
  <2>1. Utf8(cp) = <<240 + z, 128 + c, 128 + b, 128 + a>>
    BY <1>1, <1>6, <1>10, SMT DEF a, b, c
  <2>2. /\ cp = 262144 * z + 4096 * c + 64 * b + a
        /\ z \in 0..7 /\ c \in 0..63 /\ b \in 0..63 /\ a \in 0..63
    BY <1>1, <1>3, <1>4, <1>5, <1>10, SMT DEF a, b, c
  <2> QED BY <1>10, <2>1, <2>2, SMT DEF IsUtf8, Shortest
<1> QED BY <1>1, <1>7, <1>8, <1>9, <1>10, SMT

(***************************************************************************)
(* What parse_string finds where a piece of the text begins.  Of the text  *)
(* only its agreement with the piece is known, on the bytes that arrived.  *)
(***************************************************************************)
Agree(s, at, f) == \A k \in 1..Len(f) : at + (k - 1) <= Len(s) => s[at + (k - 1)] = f[k]

\* A text that agrees with two sequences agrees with each where it lies.
LEMMA AgreeConcat ==
  ASSUME NEW s \in Seq(Int), NEW at \in Nat, NEW f \in Seq(Int), NEW g \in Seq(Int),
         Agree(s, at, f \o g)
  PROVE  Agree(s, at, f) /\ Agree(s, at + Len(f), g)
<1>1. Len(f) \in Nat /\ Len(g) \in Nat /\ Len(s) \in Nat
  BY LenProperties
<1>2. Len(f \o g) = Len(f) + Len(g)
  BY ConcatProperties
<1>3. \A k \in 1..(Len(f) + Len(g)) : (f \o g)[k] = IF k <= Len(f) THEN f[k] ELSE g[k - Len(f)]
  BY ConcatProperties
<1>4. \A k \in 1..(Len(f) + Len(g)) :
        at + (k - 1) <= Len(s) => s[at + (k - 1)] = (f \o g)[k]
  BY <1>2 DEF Agree
<1>5. Agree(s, at, f)
  <2> SUFFICES ASSUME NEW k \in 1..Len(f), at + (k - 1) <= Len(s)
               PROVE  s[at + (k - 1)] = f[k]
    BY DEF Agree
  <2>1. k \in 1..(Len(f) + Len(g)) /\ k <= Len(f)
    BY <1>1
  <2>2. (f \o g)[k] = f[k]
    BY <1>3, <2>1
  <2> QED BY <1>4, <2>1, <2>2
<1>6. Agree(s, at + Len(f), g)
  <2> SUFFICES ASSUME NEW k \in 1..Len(g), at + Len(f) + (k - 1) <= Len(s)
               PROVE  s[at + Len(f) + (k - 1)] = g[k]
    BY DEF Agree
  <2> DEFINE m == k + Len(f)
  <2>1. /\ m \in 1..(Len(f) + Len(g)) /\ ~(m <= Len(f)) /\ m - Len(f) = k
        /\ at + (m - 1) = at + Len(f) + (k - 1)
    BY <1>1
  <2> HIDE DEF m
  <2>2. (f \o g)[m] = g[k]
    BY <1>3, <2>1
  <2>3. s[at + (m - 1)] = (f \o g)[m]
    BY <1>4, <2>1
  <2> QED BY <2>1, <2>2, <2>3
<1> QED BY <1>5, <1>6

\* A byte that is no backslash is taken as it is.
LEMMA PlainRead ==
  ASSUME NEW s \in Seq(Int), NEW at \in Nat, at <= Len(s), s[at] # 92
  PROVE  ReadChar(s, at) = Got(<<s[at]>>, at + 1)
BY DEF ReadChar, At

\* A letter escape gives its byte, or fails when its letter did not arrive.
LEMMA LetterRead ==
  ASSUME NEW s \in Seq(Int), NEW at \in Nat, NEW e \in DOMAIN Escapes,
         at <= Len(s), Agree(s, at, <<92, e>>)
  PROVE  /\ s[at] = 92
         /\ at + 1 <= Len(s) => ReadChar(s, at) = Got(<<Escapes[e]>>, at + 2)
         /\ at + 1 > Len(s) => ReadChar(s, at) = Fail
<1>1. Len(s) \in Nat /\ Len(<<92, e>>) = 2 /\ <<92, e>>[1] = 92 /\ <<92, e>>[2] = e
  BY LenProperties
<1>2. s[at] = 92
  BY <1>1, at + (1 - 1) = at DEF Agree
<1>3. At(s, at) = 92
  BY <1>2 DEF At
<1>4. DOMAIN Escapes = {34, 92, 47, 98, 102, 110, 114, 116}
  BY DEF Escapes
<1>5. ASSUME at + 1 <= Len(s)  PROVE ReadChar(s, at) = Got(<<Escapes[e]>>, at + 2)
  <2>1. s[at + 1] = e
    BY <1>1, <1>5, at + (2 - 1) = at + 1, SMTT(30) DEF Agree
  <2>2. At(s, at + 1) = e
    BY <1>5, <2>1 DEF At
  <2>3. e # 117
    BY <1>4
  <2> HIDE DEF Escapes
  <2> QED BY <1>3, <2>2, <2>3 DEF ReadChar
<1>6. ASSUME at + 1 > Len(s)  PROVE ReadChar(s, at) = Fail
  <2>1. At(s, at + 1) = -1
    BY <1>1, <1>6 DEF At
  <2>2. -1 # 117 /\ -1 \notin DOMAIN Escapes
    BY <1>4
  <2> QED BY <1>3, <2>1, <2>2 DEF ReadChar
<1> QED BY <1>2, <1>5, <1>6

\* One \uXXXX of the text.
UnitForm(n, ten) == <<92, 117>> \o Hex4(n, ten)

Sixth(f, n, ten) ==
  /\ Len(f) = 6 /\ f \in Seq(Int) /\ f[1] = 92 /\ f[2] = 117
  /\ f[3] = HexDigit(Digit(n, 4096), ten) /\ f[4] = HexDigit(Digit(n, 256), ten)
  /\ f[5] = HexDigit(Digit(n, 16), ten) /\ f[6] = HexDigit(n % 16, ten)

\* A backslash, "u" and four digits are six bytes.
LEMMA TwoAndFour ==
  ASSUME NEW f \in Seq(Int), NEW g \in Seq(Int), Len(f) = 2, Len(g) = 4
  PROVE  /\ f \o g \in Seq(Int) /\ Len(f \o g) = 6
         /\ (f \o g)[1] = f[1] /\ (f \o g)[2] = f[2] /\ (f \o g)[3] = g[1]
         /\ (f \o g)[4] = g[2] /\ (f \o g)[5] = g[3] /\ (f \o g)[6] = g[4]
<1> DEFINE h == f \o g
<1>1. h \in Seq(Int) /\ Len(h) = Len(f) + Len(g)
  BY ConcatProperties
<1>2. \A k \in 1..(Len(f) + Len(g)) : h[k] = IF k <= Len(f) THEN f[k] ELSE g[k - Len(f)]
  BY ConcatProperties
<1> HIDE DEF h
<1>3. \A k \in 1..6 : h[k] = IF k <= 2 THEN f[k] ELSE g[k - 2]
  BY <1>2
<1>4. h[1] = f[1] /\ h[2] = f[2]
  BY <1>3
<1>5. h[3] = g[3 - 2] /\ h[4] = g[4 - 2] /\ h[5] = g[5 - 2] /\ h[6] = g[6 - 2]
  BY <1>3
<1>6. /\ h \in Seq(Int) /\ Len(h) = 6 /\ h[1] = f[1] /\ h[2] = f[2] /\ h[3] = g[1]
      /\ h[4] = g[2] /\ h[5] = g[3] /\ h[6] = g[4]
  BY <1>1, <1>4, <1>5
<1> QED BY <1>6 DEF h

\* The six bytes of \uXXXX.
LEMMA UnitFormIs ==
  ASSUME NEW n, CodeUnit(n), NEW ten \in {65, 97}
  PROVE  Sixth(UnitForm(n, ten), n, ten)
<1> DEFINE a == HexDigit(Digit(n, 4096), ten)
           b == HexDigit(Digit(n, 256), ten)
           c == HexDigit(Digit(n, 16), ten)
           d == HexDigit(n % 16, ten)
<1>1. /\ Digit(n, 4096) \in 0..15 /\ Digit(n, 256) \in 0..15
      /\ Digit(n, 16) \in 0..15 /\ n % 16 \in 0..15
  BY HexSum, SMT DEF CodeUnit
<1>2. \A e \in 0..15 : HexDigit(e, ten) \in Int
  BY SMT DEF HexDigit
<1>3. a \in Int /\ b \in Int /\ c \in Int /\ d \in Int
  BY <1>1, <1>2, SMT
<1>4. Hex4(n, ten) = <<a, b, c, d>>
  BY SMT DEF Hex4, Digit
<1> HIDE DEF a, b, c, d
<1> DEFINE f == <<92, 117>>
           g == <<a, b, c, d>>
<1>5. UnitForm(n, ten) = f \o g
  BY <1>4, SMT DEF UnitForm
<1>6. /\ f \in Seq(Int) /\ Len(f) = 2 /\ f[1] = 92 /\ f[2] = 117
      /\ g \in Seq(Int) /\ Len(g) = 4 /\ g[1] = a /\ g[2] = b /\ g[3] = c /\ g[4] = d
  BY <1>3, SMT
<1> HIDE DEF f, g
<1>7. /\ f \o g \in Seq(Int) /\ Len(f \o g) = 6
      /\ (f \o g)[1] = f[1] /\ (f \o g)[2] = f[2] /\ (f \o g)[3] = g[1]
      /\ (f \o g)[4] = g[2] /\ (f \o g)[5] = g[3] /\ (f \o g)[6] = g[4]
  BY <1>6, TwoAndFour
<1>8. /\ (f \o g)[1] = 92 /\ (f \o g)[2] = 117 /\ (f \o g)[3] = a
      /\ (f \o g)[4] = b /\ (f \o g)[5] = c /\ (f \o g)[6] = d
  BY <1>6, <1>7, SMT
<1> QED BY <1>5, <1>7, <1>8, SMT DEF a, b, c, d, Sixth

\* What parse_string sees at \uXXXX: the number, or -1 when a digit is missing.
LEMMA UnitRead ==
  ASSUME NEW n, CodeUnit(n), NEW ten \in {65, 97}, NEW s \in Seq(Int), NEW at \in Nat,
         at <= Len(s), Agree(s, at, UnitForm(n, ten))
  PROVE  /\ s[at] = 92
         /\ at + 1 <= Len(s) => At(s, at + 1) = 117
         /\ at + 5 <= Len(s) => ParseHex4(s, at + 2) = n
         /\ at + 5 > Len(s) => ParseHex4(s, at + 2) = -1
<1>1. Len(s) \in Nat
  BY LenProperties
<1> DEFINE f == UnitForm(n, ten)
<1>2. Sixth(f, n, ten)
  BY UnitFormIs
<1>3. /\ Len(f) = 6 /\ f[1] = 92 /\ f[2] = 117
      /\ f[3] = HexDigit(Digit(n, 4096), ten) /\ f[4] = HexDigit(Digit(n, 256), ten)
      /\ f[5] = HexDigit(Digit(n, 16), ten) /\ f[6] = HexDigit(n % 16, ten)
  BY <1>2, SMT DEF Sixth
<1>4. Len(UnitForm(n, ten)) = 6
  BY <1>3, SMT
<1>5. \A k \in 1..6 : at + (k - 1) <= Len(s) => s[at + (k - 1)] = UnitForm(n, ten)[k]
  <2>1. \A k \in 1..Len(UnitForm(n, ten)) :
          at + (k - 1) <= Len(s) => s[at + (k - 1)] = UnitForm(n, ten)[k]
    BY Zenon DEF Agree
  <2> QED BY <1>4, <2>1, Zenon
<1>6. s[at] = 92
  <2>1. at + (1 - 1) = at
    BY SMT
  <2>2. s[at] = UnitForm(n, ten)[1]
    BY <1>5, <2>1, SMT
  <2> QED BY <2>2, <1>3, SMT
<1>7. ASSUME at + 1 <= Len(s)  PROVE At(s, at + 1) = 117
  <2>1. at + (2 - 1) = at + 1
    BY SMT
  <2>2. s[at + 1] = UnitForm(n, ten)[2]
    BY <1>5, <1>7, <2>1, SMT
  <2>3. s[at + 1] = 117
    BY <2>2, <1>3, SMT
  <2> QED BY <1>7, <2>3, SMT DEF At
<1>8. ASSUME at + 5 <= Len(s)  PROVE ParseHex4(s, at + 2) = n
  <2>1. /\ at + (3 - 1) = at + 2 /\ at + (4 - 1) = (at + 2) + 1
        /\ at + (5 - 1) = (at + 2) + 2 /\ at + (6 - 1) = (at + 2) + 3
        /\ (at + 2) + 3 <= Len(s) /\ at + 2 \in Nat
    BY <1>1, <1>8, SMT
  <2>2. s[at + (3 - 1)] = UnitForm(n, ten)[3] /\ s[at + (4 - 1)] = UnitForm(n, ten)[4]
    BY <1>1, <1>5, <1>8, SMT
  <2>3. s[at + (5 - 1)] = UnitForm(n, ten)[5] /\ s[at + (6 - 1)] = UnitForm(n, ten)[6]
    BY <1>1, <1>5, <1>8, SMT
  <2>4. /\ s[at + 2] = UnitForm(n, ten)[3] /\ s[(at + 2) + 1] = UnitForm(n, ten)[4]
        /\ s[(at + 2) + 2] = UnitForm(n, ten)[5] /\ s[(at + 2) + 3] = UnitForm(n, ten)[6]
    BY <2>1, <2>2, <2>3, SMT
  <2>5. DigitsAt(s, at + 2, n, ten)
    BY <2>4, <1>3, SMT DEF DigitsAt
  <2> QED BY <2>1, <2>5, HexRead, SMT
<1>9. ASSUME at + 5 > Len(s)  PROVE ParseHex4(s, at + 2) = -1
  <2>1. (at + 2) + 3 > Len(s)
    BY <1>1, <1>9, SMT
  <2> QED BY <2>1, HexCut, SMT
<1> QED BY <1>6, <1>7, <1>8, <1>9, SMT

(***************************************************************************)
(* An escape of one unit, and one of two: the character, or a failure when *)
(* the text ends inside it.                                                *)
(***************************************************************************)
LEMMA SingleRead ==
  ASSUME NEW n, CodeUnit(n), ~High(n), NEW ten \in {65, 97}, NEW s \in Seq(Int), NEW at \in Nat,
         at <= Len(s), Agree(s, at, UnitForm(n, ten))
  PROVE  /\ s[at] = 92
         /\ at + 5 <= Len(s) => ReadChar(s, at) = Got(Utf8(n), at + 6)
         /\ at + 5 > Len(s) => ReadChar(s, at) = Fail
<1>1. Len(s) \in Nat
  BY LenProperties
<1>2. /\ s[at] = 92
      /\ at + 1 <= Len(s) => At(s, at + 1) = 117
      /\ at + 5 <= Len(s) => ParseHex4(s, at + 2) = n
      /\ at + 5 > Len(s) => ParseHex4(s, at + 2) = -1
  BY UnitRead
<1>3. At(s, at) = 92
  BY <1>2, SMT DEF At
<1>4. ASSUME at + 5 <= Len(s)  PROVE ReadChar(s, at) = Got(Utf8(n), at + 6)
  <2>1. At(s, at + 1) = 117 /\ ParseHex4(s, at + 2) = n /\ n # -1
    BY <1>1, <1>2, <1>4, SMT DEF CodeUnit
  <2>2. CodePoint(s, at + 2) = Got(n, (at + 2) + 4)
    BY <2>1, SMT DEF CodePoint
  <2>3. (at + 2) + 4 = at + 6
    BY SMT
  <2>4. CodePoint(s, at + 2).ok /\ CodePoint(s, at + 2).v = n /\ CodePoint(s, at + 2).i = at + 6
    BY <2>2, <2>3, SMT DEF Got
  <2> QED BY <1>3, <2>1, <2>4, SMT DEF ReadChar
<1>5. ASSUME at + 5 > Len(s)  PROVE ReadChar(s, at) = Fail
  <2>1. At(s, at + 1) \in {117, -1}
    BY <1>1, <1>2, SMT DEF At
  <2>2. CodePoint(s, at + 2) = Fail
    BY <1>2, <1>5, SMT DEF CodePoint
  <2>3. ~CodePoint(s, at + 2).ok
    BY <2>2, SMT DEF Fail
  <2>4. -1 \notin DOMAIN Escapes
    BY SMT DEF Escapes
  <2> QED BY <1>3, <2>1, <2>3, <2>4, SMT DEF ReadChar
<1> QED BY <1>2, <1>4, <1>5

\* hi and lo are the two halves of cp.
HalvesOf(hi, lo, cp) == 65536 + (hi - 55296) * 1024 + (lo - 56320) = cp

\* A high half is read with the low half after it.
LEMMA PairRead ==
  ASSUME NEW cp, NEW hi, CodeUnit(hi), High(hi), NEW lo, CodeUnit(lo), Low(lo), HalvesOf(hi, lo, cp),
         NEW ten \in {65, 97}, NEW s \in Seq(Int), NEW at \in Nat, at <= Len(s),
         Agree(s, at, UnitForm(hi, ten)), Agree(s, at + 6, UnitForm(lo, ten))
  PROVE  /\ s[at] = 92
         /\ at + 11 <= Len(s) => ReadChar(s, at) = Got(Utf8(cp), at + 12)
         /\ at + 11 > Len(s) => ReadChar(s, at) = Fail
<1>1. Len(s) \in Nat
  BY LenProperties
<1>2. /\ s[at] = 92
      /\ at + 1 <= Len(s) => At(s, at + 1) = 117
      /\ at + 5 <= Len(s) => ParseHex4(s, at + 2) = hi
      /\ at + 5 > Len(s) => ParseHex4(s, at + 2) = -1
  BY UnitRead
<1>3. At(s, at) = 92
  BY <1>2, SMT DEF At
<1>4. ASSUME at + 6 <= Len(s)
      PROVE  /\ s[at + 6] = 92
             /\ at + 6 + 1 <= Len(s) => At(s, at + 6 + 1) = 117
             /\ at + 6 + 5 <= Len(s) => ParseHex4(s, at + 6 + 2) = lo
             /\ at + 6 + 5 > Len(s) => ParseHex4(s, at + 6 + 2) = -1
  <2>1. at + 6 \in Nat
    BY SMT
  <2> QED BY <1>4, <2>1, UnitRead
<1>5. hi # -1 /\ -1 \notin DOMAIN Escapes /\ ~Low(-1)
  BY SMT DEF CodeUnit, Escapes, Low
<1> DEFINE low == IF At(s, (at + 2) + 4) = 92 /\ At(s, (at + 2) + 5) = 117
                  THEN ParseHex4(s, (at + 2) + 6) ELSE -1
           read == CodePoint(s, at + 2)
<1>6. read = IF ParseHex4(s, at + 2) = -1 THEN Fail
           ELSE IF ~High(ParseHex4(s, at + 2)) THEN Got(ParseHex4(s, at + 2), (at + 2) + 4)
           ELSE IF Low(low)
                THEN Got(65536 + (ParseHex4(s, at + 2) - 55296) * 1024 + (low - 56320), (at + 2) + 10)
           ELSE Fail
  BY DEF CodePoint
<1>7. (at + 2) + 4 = at + 6 /\ (at + 2) + 5 = at + 6 + 1 /\ (at + 2) + 6 = at + 6 + 2
  BY SMT
<1>8. ASSUME at + 11 <= Len(s)
      PROVE  ReadChar(s, at) = Got(Utf8(cp), at + 12)
  <2>1. At(s, at + 1) = 117 /\ ParseHex4(s, at + 2) = hi
    BY <1>1, <1>2, <1>8, SMT
  <2>2. at + 6 <= Len(s) /\ at + 6 + 1 <= Len(s) /\ at + 6 + 5 <= Len(s)
    BY <1>1, <1>8, SMT
  <2>3. At(s, at + 6) = 92
    BY <1>4, <2>2, SMT DEF At
  <2>4. low = lo
    BY <1>4, <1>7, <2>2, <2>3, SMT
  <2> HIDE DEF low, read
  <2>5. read = Got(cp, (at + 2) + 10)
    BY <1>5, <1>6, <2>1, <2>4, SMT DEF HalvesOf
  <2>6. read.ok /\ read.v = cp /\ read.i = at + 12
    BY <2>5, SMT DEF Got
  <2> QED BY <1>3, <2>1, <2>6, SMT DEF ReadChar, read
<1>9. ASSUME at + 11 > Len(s)  PROVE ReadChar(s, at) = Fail
  <2>1. At(s, at + 1) \in {117, -1}
    BY <1>1, <1>2, SMT DEF At
  <2>2. CASE at + 5 > Len(s)
    <3>1. ParseHex4(s, at + 2) = -1
      BY <1>2, <2>2, SMT
    <3> HIDE DEF low, read
    <3>2. read = Fail
      BY <1>6, <3>1, SMT
    <3>3. ~read.ok
      BY <3>2, SMT DEF Fail
    <3> QED BY <1>3, <1>5, <2>1, <3>3, SMT DEF ReadChar, read
  <2>3. CASE at + 5 <= Len(s)
    <3>1. ParseHex4(s, at + 2) = hi
      BY <1>2, <2>3, SMT
    <3>2. low = -1
      <4>1. CASE at + 6 <= Len(s)
        <5>1. at + 6 + 5 > Len(s)
          BY <1>1, <1>9, SMT
        <5>2. ParseHex4(s, at + 6 + 2) = -1
          BY <1>4, <4>1, <5>1, SMT
        <5> QED BY <1>7, <5>2, SMT
      <4>2. CASE at + 6 > Len(s)
        <5>1. At(s, at + 6) = -1
          BY <1>1, <4>2, SMT DEF At
        <5> QED BY <1>7, <5>1, SMT
      <4> QED BY <1>1, <4>1, <4>2, SMT
    <3> HIDE DEF low, read
    <3>3. read = Fail
      BY <1>5, <1>6, <3>1, <3>2, SMT
    <3>4. ~read.ok
      BY <3>3, SMT DEF Fail
    <3> QED BY <1>3, <1>5, <2>1, <3>4, SMT DEF ReadChar, read
  <2> QED BY <1>1, <2>2, <2>3, SMT
<1> QED BY <1>2, <1>8, <1>9

(***************************************************************************)
(* The two halves of a character beyond the first 65536.                   *)
(***************************************************************************)
LEMMA Div1024 ==
  ASSUME NEW u \in Nat, u < 1048576
  PROVE  /\ u \div 1024 \in Nat /\ u \div 1024 < 1024 /\ u % 1024 \in Nat /\ u % 1024 < 1024
         /\ u = 1024 * (u \div 1024) + (u % 1024)
BY SMT

\* The numbers written for a character beyond 65536 are its two halves.
LEMMA Halves ==
  ASSUME NEW cp \in Nat, 65536 <= cp, cp < 1114112,
         NEW hi, hi = 55296 + (cp - 65536) \div 1024,
         NEW lo, lo = 56320 + ((cp - 65536) % 1024)
  PROVE  /\ CodeUnit(hi) /\ High(hi) /\ CodeUnit(lo) /\ Low(lo)
         /\ HalvesOf(hi, lo, cp)
<1> DEFINE u == cp - 65536
           q == u \div 1024
           r == u % 1024
<1>1. u \in Nat /\ u < 1048576
  BY SMT
<1> HIDE DEF u
<1>2. q \in Nat /\ q < 1024 /\ r \in Nat /\ r < 1024 /\ u = 1024 * q + r
  BY <1>1, Div1024, SMT
<1>3. hi = 55296 + q /\ lo = 56320 + r
  BY SMT DEF u
<1> HIDE DEF q, r
<1>4. CodeUnit(hi) /\ High(hi) /\ CodeUnit(lo) /\ Low(lo)
  BY <1>2, <1>3, SMT DEF CodeUnit, High, Low
<1>5. 65536 + (hi - 55296) * 1024 + (lo - 56320) = 65536 + u
  BY <1>2, <1>3, SMT
<1> QED BY <1>4, <1>5, SMT DEF u, HalvesOf

(***************************************************************************)
(* Every way of writing a character is a sequence of at least one byte.    *)
(***************************************************************************)
LEMMA DumpForm ==
  ASSUME NEW c \in Nat, c < 256
  PROVE  \/ \E e \in DOMAIN Escapes : Escapes[e] = c /\ EscapeByte(c) = <<92, e>>
         \/ c < 32 /\ EscapeByte(c) = UnitForm(c, 97)
         \/ c # 34 /\ c # 92 /\ EscapeByte(c) = <<c>>
<1>1. CASE \E e \in Written : Escapes[e] = c
  <2> DEFINE d == CHOOSE e \in Written : Escapes[e] = c
  <2>1. d \in Written /\ Escapes[d] = c
    BY <1>1, Zenon
  <2>2. EscapeByte(c) = <<92, d>>
    BY <1>1, Zenon DEF EscapeByte
  <2>3. d \in DOMAIN Escapes
    BY <2>1, Zenon DEF Written
  <2> QED BY <2>1, <2>2, <2>3, Zenon
<1>2. CASE ~(\E e \in Written : Escapes[e] = c) /\ c < 32
  BY <1>2, Zenon DEF EscapeByte, UnitForm
<1>3. CASE ~(\E e \in Written : Escapes[e] = c) /\ ~(c < 32)
  <2>1. 34 \in Written /\ Escapes[34] = 34 /\ 92 \in Written /\ Escapes[92] = 92
    BY SMT DEF Written, Escapes
  <2> HIDE DEF Written, Escapes
  <2>2. c # 34 /\ c # 92
    BY <1>3, <2>1, SMT
  <2> QED BY <1>3, <2>2, Zenon DEF EscapeByte
<1> QED BY <1>1, <1>2, <1>3, Zenon

(***************************************************************************)
(* Where a piece begins, parse_string reads it whole, and it means the     *)
(* character that was written; or the text ends inside it, and the reading *)
(* fails.                                                                  *)
(***************************************************************************)
Reads(p, s, at) ==
  /\ s[at] \notin {-1, 34}
  /\ at + Len(Form(p)) - 1 <= Len(s) =>
       \E b \in Seq(Int) : Means(b, p) /\ ReadChar(s, at) = Got(b, at + Len(Form(p)))
  /\ at + Len(Form(p)) - 1 > Len(s) => ReadChar(s, at) = Fail

\* Utf8 gives bytes.
LEMMA Utf8Bytes ==
  ASSUME NEW n \in Nat
  PROVE  Utf8(n) \in Seq(Int)
BY SMT DEF Utf8

\* A letter escape is two bytes.
LEMMA LetterForm ==
  ASSUME NEW e \in DOMAIN Escapes
  PROVE  <<92, e>> \in Seq(Int) /\ Len(<<92, e>>) = 2
<1>1. e \in Int
  BY DEF Escapes
<1> QED BY <1>1

\* A piece that is written as a letter escape is read whole.
LEMMA ReadsLetter ==
  ASSUME NEW p, NEW e \in DOMAIN Escapes, NEW s \in Seq(Int), NEW at \in Nat, at <= Len(s),
         Form(p) = <<92, e>>, Means(<<Escapes[e]>>, p), Agree(s, at, Form(p))
  PROVE  Reads(p, s, at)
<1>1. Len(s) \in Nat
  BY LenProperties
<1>2. Len(Form(p)) = 2
  BY LetterForm
<1>3. Agree(s, at, <<92, e>>)
  BY Zenon
<1>4. /\ s[at] = 92
      /\ at + 1 <= Len(s) => ReadChar(s, at) = Got(<<Escapes[e]>>, at + 2)
      /\ at + 1 > Len(s) => ReadChar(s, at) = Fail
  BY <1>3, LetterRead
<1>5. s[at] \notin {-1, 34}
  BY <1>4, SMT
<1>6. /\ at + Len(Form(p)) = at + 2
      /\ at + Len(Form(p)) - 1 <= Len(s) => at + 1 <= Len(s)
      /\ at + Len(Form(p)) - 1 > Len(s) => at + 1 > Len(s)
  BY <1>1, <1>2, SMT
<1>7. <<Escapes[e]>> \in Seq(Int)
  <2>1. Escapes[e] \in Int
    BY SMT DEF Escapes
  <2> QED BY <2>1
<1> QED BY <1>4, <1>5, <1>6, <1>7, Zenon DEF Reads

\* A piece that is written as one \uXXXX is read whole.
LEMMA ReadsUnit ==
  ASSUME NEW p, NEW n, CodeUnit(n), ~High(n), NEW ten \in {65, 97},
         NEW s \in Seq(Int), NEW at \in Nat, at <= Len(s),
         Form(p) = UnitForm(n, ten), Means(Utf8(n), p), Agree(s, at, Form(p))
  PROVE  Reads(p, s, at)
<1>1. Len(s) \in Nat
  BY LenProperties
<1>2. Len(Form(p)) = 6
  <2>1. Sixth(UnitForm(n, ten), n, ten)
    BY UnitFormIs
  <2> QED BY <2>1, SMT DEF Sixth
<1>3. Agree(s, at, UnitForm(n, ten))
  BY Zenon
<1>4. /\ s[at] = 92
      /\ at + 5 <= Len(s) => ReadChar(s, at) = Got(Utf8(n), at + 6)
      /\ at + 5 > Len(s) => ReadChar(s, at) = Fail
  BY <1>3, SingleRead
<1>5. s[at] \notin {-1, 34}
  BY <1>4, SMT
<1>6. /\ at + Len(Form(p)) = at + 6
      /\ at + Len(Form(p)) - 1 <= Len(s) => at + 5 <= Len(s)
      /\ at + Len(Form(p)) - 1 > Len(s) => at + 5 > Len(s)
  BY <1>1, <1>2, SMT
<1>7. Utf8(n) \in Seq(Int)
  <2>1. n \in Nat
    BY SMT DEF CodeUnit
  <2> QED BY <2>1, Utf8Bytes
<1>8. ASSUME at + Len(Form(p)) - 1 <= Len(s)
      PROVE  \E b \in Seq(Int) : Means(b, p) /\ ReadChar(s, at) = Got(b, at + Len(Form(p)))
  <2>1. ReadChar(s, at) = Got(Utf8(n), at + Len(Form(p)))
    BY <1>4, <1>6, <1>8, Zenon
  <2> QED BY <1>7, <2>1, Zenon
<1>9. ASSUME at + Len(Form(p)) - 1 > Len(s)  PROVE ReadChar(s, at) = Fail
  BY <1>4, <1>6, <1>9, Zenon
<1> QED BY <1>5, <1>8, <1>9, Zenon DEF Reads

\* Of an ASCII character the UTF-8 is the byte itself.
LEMMA Utf8Byte ==
  ASSUME NEW c \in Nat, c < 128
  PROVE  Utf8(c) = <<c>>
BY SMT DEF Utf8

\* Concatenation, for sequences of bytes.
LEMMA ConcatLen ==
  ASSUME NEW f \in Seq(Int), NEW g \in Seq(Int)
  PROVE  f \o g \in Seq(Int) /\ Len(f \o g) = Len(f) + Len(g)
BY ConcatProperties

\* A piece written as two halves.
Halved(p, cp, hi, lo, ten) ==
  /\ CodeUnit(hi) /\ High(hi) /\ CodeUnit(lo) /\ Low(lo) /\ HalvesOf(hi, lo, cp)
  /\ ten \in {65, 97} /\ Form(p) = UnitForm(hi, ten) \o UnitForm(lo, ten)
  /\ Means(Utf8(cp), p)

\* A piece that is written as two halves is read whole.
LEMMA ReadsPair ==
  ASSUME NEW p, NEW cp \in Nat, NEW hi \in Int, NEW lo \in Int, NEW ten \in Int,
         Halved(p, cp, hi, lo, ten),
         NEW s \in Seq(Int), NEW at \in Nat, at <= Len(s), Agree(s, at, Form(p))
  PROVE  Reads(p, s, at)
<1>1. /\ CodeUnit(hi) /\ High(hi) /\ CodeUnit(lo) /\ Low(lo) /\ HalvesOf(hi, lo, cp)
      /\ ten \in {65, 97} /\ Form(p) = UnitForm(hi, ten) \o UnitForm(lo, ten)
      /\ Means(Utf8(cp), p)
  BY DEF Halved
<1>2. Len(s) \in Nat
  BY LenProperties
<1> DEFINE f == UnitForm(hi, ten)
           g == UnitForm(lo, ten)
<1>3. f \in Seq(Int) /\ Len(f) = 6
  <2>1. Sixth(UnitForm(hi, ten), hi, ten)
    BY <1>1, UnitFormIs
  <2> QED BY <2>1, SMT DEF Sixth
<1>4. g \in Seq(Int) /\ Len(g) = 6
  <2>1. Sixth(UnitForm(lo, ten), lo, ten)
    BY <1>1, UnitFormIs
  <2> QED BY <2>1, SMT DEF Sixth
<1>5. Form(p) = f \o g /\ Agree(s, at, f \o g)
  BY <1>1, Zenon
<1> HIDE DEF f, g
<1>6. Agree(s, at, f) /\ Agree(s, at + 6, g)
  <2>1. f \in Seq(Int) /\ g \in Seq(Int) /\ Agree(s, at, f \o g)
    BY <1>3, <1>4, <1>5, Zenon
  <2>2. Agree(s, at, f) /\ Agree(s, at + Len(f), g)
    BY <2>1, AgreeConcat
  <2> QED BY <1>3, <2>2, Zenon
<1>7. Len(Form(p)) = 12
  <2>1. Len(f \o g) = Len(f) + Len(g)
    BY <1>3, <1>4, ConcatLen
  <2> QED BY <1>3, <1>4, <1>5, <2>1, SMT
<1>8. /\ s[at] = 92
      /\ at + 11 <= Len(s) => ReadChar(s, at) = Got(Utf8(cp), at + 12)
      /\ at + 11 > Len(s) => ReadChar(s, at) = Fail
  <2>1. Agree(s, at, UnitForm(hi, ten)) /\ Agree(s, at + 6, UnitForm(lo, ten))
    BY <1>6, Zenon DEF f, g
  <2> QED BY <1>1, <2>1, PairRead
<1>9. s[at] \notin {-1, 34}
  BY <1>8, SMT
<1>10. /\ at + Len(Form(p)) = at + 12
       /\ at + Len(Form(p)) - 1 <= Len(s) => at + 11 <= Len(s)
       /\ at + Len(Form(p)) - 1 > Len(s) => at + 11 > Len(s)
  BY <1>2, <1>7, SMT
<1>11. ASSUME at + Len(Form(p)) - 1 <= Len(s)
       PROVE  \E b \in Seq(Int) : Means(b, p) /\ ReadChar(s, at) = Got(b, at + Len(Form(p)))
  <2>1. ReadChar(s, at) = Got(Utf8(cp), at + Len(Form(p)))
    BY <1>8, <1>10, <1>11, Zenon
  <2>2. Utf8(cp) \in Seq(Int)
    BY Utf8Bytes
  <2> QED BY <1>1, <2>1, <2>2, Zenon
<1>12. ASSUME at + Len(Form(p)) - 1 > Len(s)  PROVE ReadChar(s, at) = Fail
  BY <1>8, <1>10, <1>12, Zenon
<1> QED BY <1>9, <1>11, <1>12, Zenon DEF Reads

\* What a piece is written as, one of the four ways.
AsLetter(p) == \E e \in DOMAIN Escapes : Form(p) = <<92, e>> /\ Means(<<Escapes[e]>>, p)
AsUnit(p)   == \E n, ten \in Int : /\ CodeUnit(n) /\ ~High(n) /\ ten \in {65, 97}
                                   /\ Form(p) = UnitForm(n, ten) /\ Means(Utf8(n), p)
AsPair(p)   == \E cp \in Nat : \E hi, lo, ten \in Int : Halved(p, cp, hi, lo, ten)
AsByte(p)   == \E c \in Nat : c # 34 /\ c # 92 /\ Form(p) = <<c>> /\ Means(<<c>>, p)

\* What dump writes for a byte is a letter escape, one \u00XX or the byte.
LEMMA PieceDump ==
  ASSUME NEW p \in Piece, p.by = "dump"
  PROVE  AsLetter(p) \/ AsUnit(p) \/ AsByte(p)
<1> DEFINE c == p.char
<1>1. c \in Bytes
  BY SMT DEF Piece
<1>2. c \in Nat /\ c < 256
  BY <1>1, BytesAssumption
<1>3. Form(p) = EscapeByte(c)
  BY SMT DEF Form
<1>4. Means(<<c>>, p)
  BY SMT DEF Means
<1> HIDE DEF c
<1>5. \/ \E e \in DOMAIN Escapes : Escapes[e] = c /\ EscapeByte(c) = <<92, e>>
      \/ c < 32 /\ EscapeByte(c) = UnitForm(c, 97)
      \/ c # 34 /\ c # 92 /\ EscapeByte(c) = <<c>>
  BY <1>2, DumpForm
<1>6. CASE \E e \in DOMAIN Escapes : Escapes[e] = c /\ EscapeByte(c) = <<92, e>>
  BY <1>3, <1>4, <1>6, Zenon DEF AsLetter
<1>7. CASE c < 32 /\ EscapeByte(c) = UnitForm(c, 97)
  <2>1. c < 128 /\ CodeUnit(c) /\ ~High(c)
    BY <1>2, <1>7, SMT DEF CodeUnit, High
  <2>2. Utf8(c) = <<c>>
    BY <1>2, <2>1, Utf8Byte
  <2>3. c \in Int /\ 97 \in Int /\ 97 \in {65, 97}
    BY <1>2, SMT
  <2> QED BY <1>3, <1>4, <1>7, <2>1, <2>2, <2>3, Zenon DEF AsUnit
<1>8. CASE c # 34 /\ c # 92 /\ EscapeByte(c) = <<c>>
  BY <1>2, <1>3, <1>4, <1>8, Zenon DEF AsByte
<1> QED BY <1>5, <1>6, <1>7, <1>8, Zenon

\* A client may write a letter escape.
LEMMA PieceLetter ==
  ASSUME NEW p \in Piece, p.by = "letter"
  PROVE  AsLetter(p)
<1>1. p.char \in DOMAIN Escapes
  BY SMT DEF Piece
<1>2. Form(p) = <<92, p.char>>
  BY SMT DEF Form
<1>3. Means(<<Escapes[p.char]>>, p)
  BY SMT DEF Means
<1> QED BY <1>1, <1>2, <1>3, Zenon DEF AsLetter

\* A client escapes a character as one unit or as two halves.
LEMMA PieceEscape ==
  ASSUME NEW p \in Piece, p.by = "escape"
  PROVE  AsUnit(p) \/ AsPair(p)
<1> DEFINE cp == p.char
           ten == p.ten
<1>1. cp \in CodePoints /\ ten \in {65, 97}
  BY SMT DEF Piece
<1>2. cp \in Nat /\ cp < 1114112 /\ ~High(cp)
  BY <1>1, CodePointsAssumption
<1>3. Form(p) = Utf16(cp, ten)
  BY SMT DEF Form
<1>4. Means(Utf8(cp), p)
  <2>1. IsUtf8(Utf8(cp), cp)
    BY <1>2, Utf8Right
  <2> QED BY <2>1, SMT DEF Means
<1>5. ten \in Int
  BY <1>1, SMT
<1> HIDE DEF cp, ten
<1>6. CASE cp < 65536
  <2>1. Form(p) = UnitForm(cp, ten)
    BY <1>3, <1>6, SMT DEF Utf16, UnitForm
  <2>2. CodeUnit(cp) /\ cp \in Int
    BY <1>2, <1>6, SMT DEF CodeUnit
  <2>3. ~High(cp)
    BY <1>2
  <2> HIDE <1>2, <1>6
  <2> QED BY <1>1, <1>4, <1>5, <2>1, <2>2, <2>3, Zenon DEF AsUnit
<1>7. CASE ~(cp < 65536)
  <2> DEFINE hi == 55296 + (cp - 65536) \div 1024
             lo == 56320 + ((cp - 65536) % 1024)
  <2>1. 65536 <= cp
    BY <1>2, <1>7, SMT
  <2>2. CodeUnit(hi) /\ High(hi) /\ CodeUnit(lo) /\ Low(lo) /\ HalvesOf(hi, lo, cp)
    BY <1>2, <2>1, Halves, SMT
  <2>3. Form(p) = UnitForm(hi, ten) \o UnitForm(lo, ten)
    BY <1>3, <1>7, SMTT(30) DEF Utf16, UnitForm
  <2> HIDE DEF hi, lo
  <2>4. hi \in Int /\ lo \in Int /\ cp \in Nat
    BY <1>2, <2>2, SMT DEF CodeUnit
  <2> QED BY <1>1, <1>4, <1>5, <2>2, <2>3, <2>4, Zenon DEF AsPair, Halved
<1> QED BY <1>6, <1>7

\* A piece that is written as the byte itself is read.
LEMMA ReadsByte ==
  ASSUME NEW p, NEW c \in Nat, c # 34, c # 92, NEW s \in Seq(Int), NEW at \in Nat, at <= Len(s),
         Form(p) = <<c>>, Means(<<c>>, p), Agree(s, at, Form(p))
  PROVE  Reads(p, s, at)
<1>1. Len(s) \in Nat /\ Len(<<c>>) = 1 /\ <<c>>[1] = c /\ <<c>> \in Seq(Int) /\ at + (1 - 1) = at
  BY LenProperties
<1>2. s[at] = c
  BY <1>1 DEF Agree
<1>3. s[at] \notin {-1, 34}
  BY <1>2
<1>4. ReadChar(s, at) = Got(<<c>>, at + 1)
  BY <1>2, PlainRead
<1>5. at + Len(Form(p)) = at + 1 /\ ~(at + Len(Form(p)) - 1 > Len(s))
  BY <1>1
<1> QED BY <1>1, <1>3, <1>4, <1>5, Zenon DEF Reads

\* Whatever the piece, it is read whole, or reading fails when the text ends in it.
LEMMA PieceReads ==
  ASSUME NEW p \in Piece, NEW s \in Seq(Int), NEW at \in Nat, at <= Len(s), Agree(s, at, Form(p))
  PROVE  Reads(p, s, at)
<1>1. p.by \in {"dump", "escape", "letter"}
  BY DEF Piece
<1>2. AsLetter(p) \/ AsUnit(p) \/ AsPair(p) \/ AsByte(p)
  BY <1>1, PieceDump, PieceLetter, PieceEscape
<1>3. CASE AsLetter(p)
  BY <1>3, ReadsLetter DEF AsLetter
<1>4. CASE AsUnit(p)
  BY <1>4, ReadsUnit DEF AsUnit
<1>5. CASE AsPair(p)
  <2>1. PICK cp \in Nat, hi \in Int, lo \in Int, ten \in Int : Halved(p, cp, hi, lo, ten)
    BY <1>5, Zenon DEF AsPair
  <2> QED BY <2>1, ReadsPair, Zenon
<1>6. CASE AsByte(p)
  BY <1>6, ReadsByte DEF AsByte
<1> QED BY <1>2, <1>3, <1>4, <1>5, <1>6

\* A piece is at least one byte.
LEMMA PieceForm ==
  ASSUME NEW p \in Piece
  PROVE  Form(p) \in Seq(Int) /\ Len(Form(p)) \in Nat /\ Len(Form(p)) > 0
<1>1. p.by \in {"dump", "escape", "letter"}
  BY DEF Piece
<1>2. AsLetter(p) \/ AsUnit(p) \/ AsPair(p) \/ AsByte(p)
  BY <1>1, PieceDump, PieceLetter, PieceEscape
<1>3. \A n, ten : CodeUnit(n) /\ ten \in {65, 97} =>
        UnitForm(n, ten) \in Seq(Int) /\ Len(UnitForm(n, ten)) = 6
  <2> SUFFICES ASSUME NEW n, NEW ten \in {65, 97}, CodeUnit(n)
               PROVE  UnitForm(n, ten) \in Seq(Int) /\ Len(UnitForm(n, ten)) = 6
    OBVIOUS
  <2>1. Sixth(UnitForm(n, ten), n, ten)
    BY UnitFormIs
  <2> QED BY <2>1 DEF Sixth
<1>4. CASE AsLetter(p)
  <2>1. PICK e \in DOMAIN Escapes : Form(p) = <<92, e>>
    BY <1>4 DEF AsLetter
  <2>2. <<92, e>> \in Seq(Int) /\ Len(<<92, e>>) = 2
    BY LetterForm
  <2> QED BY <2>1, <2>2
<1>5. CASE AsUnit(p)
  <2>1. PICK n, ten : CodeUnit(n) /\ ten \in {65, 97} /\ Form(p) = UnitForm(n, ten)
    BY <1>5 DEF AsUnit
  <2>2. UnitForm(n, ten) \in Seq(Int) /\ Len(UnitForm(n, ten)) = 6
    BY <1>3, <2>1
  <2>3. Form(p) \in Seq(Int) /\ Len(Form(p)) = 6
    BY <2>1, <2>2, Zenon
  <2> QED BY <2>3
<1>6. CASE AsPair(p)
  <2>1. PICK hi, lo, ten : /\ CodeUnit(hi) /\ CodeUnit(lo) /\ ten \in {65, 97}
                           /\ Form(p) = UnitForm(hi, ten) \o UnitForm(lo, ten)
    BY <1>6, Zenon DEF AsPair, Halved
  <2>2. /\ UnitForm(hi, ten) \in Seq(Int) /\ Len(UnitForm(hi, ten)) = 6
        /\ UnitForm(lo, ten) \in Seq(Int) /\ Len(UnitForm(lo, ten)) = 6
    BY <1>3, <2>1
  <2>3. Form(p) \in Seq(Int) /\ Len(Form(p)) = Len(UnitForm(hi, ten)) + Len(UnitForm(lo, ten))
    <3> DEFINE f == UnitForm(hi, ten)
               g == UnitForm(lo, ten)
    <3>1. f \in Seq(Int) /\ g \in Seq(Int) /\ Form(p) = f \o g
      BY <2>1, <2>2, Zenon
    <3> HIDE DEF f, g
    <3>2. f \o g \in Seq(Int) /\ Len(f \o g) = Len(f) + Len(g)
      BY <3>1, ConcatLen
    <3>3. Form(p) \in Seq(Int) /\ Len(Form(p)) = Len(f) + Len(g)
      BY <3>1, <3>2, Zenon
    <3> QED BY <3>3, Zenon DEF f, g
  <2> QED BY <2>2, <2>3
<1>7. CASE AsByte(p)
  BY <1>7 DEF AsByte
<1> QED BY <1>2, <1>4, <1>5, <1>6, <1>7

--------------------------------------------------------------------------------
(***************************************************************************)
(* The inductive invariant.                                                *)
(***************************************************************************)
\* The position after the last piece.
End == starts[Len(pieces) + 1]

Typed ==
  /\ text \in Seq(Int) /\ pieces \in Seq(Piece) /\ starts \in Seq(Nat) /\ closed \in BOOLEAN
  /\ pc \in {"write", "read", "accepted", "failed"} /\ i \in Nat /\ out \in Seq(Seq(Int))
\* Each piece begins where the one before it ends.
Laid ==
  /\ Len(starts) = Len(pieces) + 1 /\ starts[1] = 1
  /\ \A k \in 1..Len(pieces) : starts[k + 1] = starts[k] + Len(Form(pieces[k]))
  /\ \A k \in 1..(Len(pieces) + 1) : 1 <= starts[k] /\ starts[k] <= End
\* The text holds the pieces, as far as it arrived.
Held == \A k \in 1..Len(pieces) : Agree(text, starts[k], Form(pieces[k]))
Whole ==
  /\ pc = "write" => ~closed /\ Len(text) = End - 1 /\ i = 1 /\ out = <<>>
  /\ closed => Len(text) = End /\ text[End] = 34
  /\ ~closed => Len(text) < End
\* parse_string stands at the beginning of a piece, and has read those before it.
InStep ==
  /\ Len(out) <= Len(pieces)
  /\ pc \in {"write", "read"} => i = starts[Len(out) + 1]
  /\ \A k \in 1..Len(out) : Means(out[k], pieces[k])
  /\ pc = "accepted" => closed /\ Len(out) = Len(pieces) /\ i = Len(text) + 1
  /\ pc = "failed" => ~closed
IInv == Typed /\ Laid /\ Held /\ Whole /\ InStep

\* A position that is a natural number, for every piece and after the last.
LEMMA LaidFacts ==
  ASSUME Typed, Laid
  PROVE  /\ Len(pieces) \in Nat /\ Len(text) \in Nat /\ Len(out) \in Nat
         /\ \A k \in 1..(Len(pieces) + 1) : starts[k] \in Nat
         /\ End \in Nat /\ End >= 1
         /\ \A k \in 1..Len(pieces) :
              /\ pieces[k] \in Piece /\ Form(pieces[k]) \in Seq(Int)
              /\ Len(Form(pieces[k])) \in Nat /\ Len(Form(pieces[k])) > 0
              /\ starts[k] + Len(Form(pieces[k])) <= End
<1>1. Len(pieces) \in Nat /\ Len(text) \in Nat /\ Len(out) \in Nat
  BY LenProperties DEF Typed
<1>2. \A k \in 1..(Len(pieces) + 1) : starts[k] \in Nat
  BY ElementOfSeq DEF Typed, Laid
<1>3. End \in Nat /\ End >= 1
  <2>1. 1 \in 1..(Len(pieces) + 1) /\ Len(pieces) + 1 \in 1..(Len(pieces) + 1)
    BY <1>1
  <2> QED BY <1>2, <2>1 DEF Laid, End
<1>4. \A k \in 1..Len(pieces) : pieces[k] \in Piece
  BY ElementOfSeq DEF Typed
<1>5. \A k \in 1..Len(pieces) : starts[k] + Len(Form(pieces[k])) <= End
  <2> SUFFICES ASSUME NEW k \in 1..Len(pieces)
               PROVE  starts[k] + Len(Form(pieces[k])) <= End
    OBVIOUS
  <2>1. k + 1 \in 1..(Len(pieces) + 1)
    BY <1>1
  <2>2. starts[k + 1] = starts[k] + Len(Form(pieces[k])) /\ starts[k + 1] <= End
    BY <2>1 DEF Laid
  <2> QED BY <2>2
<1> QED BY <1>1, <1>2, <1>3, <1>4, <1>5, PieceForm

(***************************************************************************)
(* Where parse_string stands while bytes are left: at a piece, or at the   *)
(* closing quote.                                                          *)
(***************************************************************************)
LEMMA Stands ==
  ASSUME IInv, pc = "read", i <= Len(text)
  PROVE  \/ /\ Len(out) + 1 \in 1..Len(pieces)
            /\ Reads(pieces[Len(out) + 1], text, i)
         \/ closed /\ Len(out) = Len(pieces) /\ i = Len(text) /\ text[i] = 34
<1>1. /\ Len(pieces) \in Nat /\ Len(text) \in Nat /\ Len(out) \in Nat /\ End \in Nat
      /\ \A k \in 1..Len(pieces) : pieces[k] \in Piece
  BY LaidFacts DEF IInv
<1>2. i = starts[Len(out) + 1] /\ Len(out) <= Len(pieces) /\ i \in Nat
  BY DEF IInv, InStep, Typed
<1>3. CASE Len(out) < Len(pieces)
  <2>1. Len(out) + 1 \in 1..Len(pieces)
    BY <1>1, <1>3
  <2>2. Agree(text, i, Form(pieces[Len(out) + 1]))
    BY <1>2, <2>1 DEF IInv, Held
  <2>3. pieces[Len(out) + 1] \in Piece /\ text \in Seq(Int)
    BY <1>1, <2>1 DEF IInv, Typed
  <2>4. Reads(pieces[Len(out) + 1], text, i)
    BY <1>2, <2>2, <2>3, PieceReads
  <2> QED BY <2>1, <2>4
<1>4. CASE Len(out) = Len(pieces)
  <2>1. i = End
    BY <1>2, <1>4 DEF End
  <2>2. closed
    BY <1>1, <2>1 DEF IInv, Whole
  <2>3. Len(text) = End /\ text[End] = 34
    BY <2>2 DEF IInv, Whole
  <2> QED BY <1>4, <2>1, <2>2, <2>3
<1> QED BY <1>1, <1>2, <1>3, <1>4

\* The empty text satisfies the invariant.
LEMMA InitInv == Init => IInv
<1> SUFFICES ASSUME Init  PROVE IInv
  OBVIOUS
<1>1. /\ text = <<>> /\ pieces = <<>> /\ starts = <<1>> /\ closed = FALSE
      /\ pc = "write" /\ i = 1 /\ out = <<>>
  BY DEF Init
<1>2. Len(text) = 0 /\ Len(pieces) = 0 /\ Len(starts) = 1 /\ starts[1] = 1 /\ Len(out) = 0
  BY <1>1
<1>3. Typed
  <2>1. \A S : <<>> \in Seq(S)
    BY EmptySeq
  <2>2. <<1>> \in Seq(Nat)
    OBVIOUS
  <2> QED BY <1>1, <2>1, <2>2, Zenon DEF Typed
<1>4. End = 1
  BY <1>2 DEF End
<1>5. Laid /\ Held
  BY <1>2, <1>4 DEF Laid, Held
<1>6. Whole /\ InStep
  BY <1>1, <1>2, <1>4 DEF Whole, InStep
<1> QED BY <1>3, <1>5, <1>6 DEF IInv

(***************************************************************************)
(* Writing and sending: the text grows by whole pieces, and what arrives   *)
(* of it is its beginning.                                                 *)
(***************************************************************************)
LEMMA WriteInv == IInv /\ Write => IInv'
<1> SUFFICES ASSUME IInv, Write  PROVE IInv'
  OBVIOUS
<1>1. PICK p \in Piece : text' = text \o Form(p) /\ pieces' = Append(pieces, p)
  BY DEF Write
<1>2. /\ pc = "write" /\ starts' = Append(starts, Len(text') + 1)
      /\ closed' = closed /\ pc' = pc /\ i' = i /\ out' = out
  BY DEF Write
<1>3. Typed /\ Laid /\ Held /\ Whole /\ InStep
  BY DEF IInv
<1>4. /\ Len(pieces) \in Nat /\ Len(text) \in Nat /\ Len(out) \in Nat
      /\ \A k \in 1..(Len(pieces) + 1) : starts[k] \in Nat
      /\ End \in Nat /\ End >= 1
      /\ \A k \in 1..Len(pieces) :
           /\ pieces[k] \in Piece /\ Form(pieces[k]) \in Seq(Int)
           /\ Len(Form(pieces[k])) \in Nat /\ Len(Form(pieces[k])) > 0
           /\ starts[k] + Len(Form(pieces[k])) <= End
  BY <1>3, LaidFacts
<1> DEFINE n == Len(pieces)
           f == Form(p)
<1>5. f \in Seq(Int) /\ Len(f) \in Nat /\ Len(f) > 0
  BY PieceForm
<1>6. ~closed /\ Len(text) = End - 1 /\ i = 1 /\ out = <<>>
  BY <1>2, <1>3 DEF Whole
<1>7. text \in Seq(Int) /\ pieces \in Seq(Piece) /\ starts \in Seq(Nat)
  BY <1>3 DEF Typed
<1>8. text' \in Seq(Int) /\ Len(text') = Len(text) + Len(f)
  BY <1>1, <1>5, <1>7, ConcatLen, Zenon
<1>9. /\ pieces' \in Seq(Piece) /\ Len(pieces') = n + 1
      /\ \A k \in 1..n : pieces'[k] = pieces[k]
      /\ pieces'[n + 1] = p
  BY <1>1, <1>7, AppendProperties
<1>10. /\ starts' \in Seq(Nat) /\ Len(starts') = n + 2
       /\ \A k \in 1..(n + 1) : starts'[k] = starts[k]
       /\ starts'[n + 2] = Len(text') + 1
  <2>1. Len(text') + 1 \in Nat
    BY <1>4, <1>5, <1>8
  <2>2. Len(starts) = n + 1
    BY <1>3 DEF Laid
  <2> QED BY <1>2, <1>4, <1>7, <2>1, <2>2, AppendProperties
<1>0. End \in Nat /\ End >= 1 /\ Len(f) \in Nat
  BY <1>4, <1>5
<1>11. End' = End + Len(f) /\ starts'[n + 2] = End + Len(f)
  <2>1. End' = starts'[n + 2]
    BY <1>4, <1>9 DEF End
  <2>2. starts'[n + 2] = Len(text') + 1
    BY <1>10
  <2>3. Len(text') + 1 = End + Len(f)
    BY <1>0, <1>6, <1>8
  <2> QED BY <2>1, <2>2, <2>3
<1>12. starts[n + 1] = End
  BY DEF End
<1> HIDE DEF n, f
<1>13. n \in Nat /\ Len(pieces) = n
  BY <1>4 DEF n
<1>14. Typed'
  BY <1>2, <1>3, <1>8, <1>9, <1>10 DEF Typed
<1>15. Laid'
  <2>1. Len(starts') = Len(pieces') + 1
    BY <1>9, <1>10, <1>13
  <2>2. starts'[1] = 1
    BY <1>3, <1>10, <1>13 DEF Laid
  <2>3. \A k \in 1..Len(pieces') : starts'[k + 1] = starts'[k] + Len(Form(pieces'[k]))
    <3> SUFFICES ASSUME NEW k \in 1..(n + 1)
                 PROVE  starts'[k + 1] = starts'[k] + Len(Form(pieces'[k]))
      BY <1>9
    <3>1. CASE k \in 1..n
      <4>1. k + 1 \in 1..(n + 1) /\ k \in 1..(n + 1)
        BY <1>13, <3>1
      <4>2. starts[k + 1] = starts[k] + Len(Form(pieces[k]))
        BY <1>3, <1>13, <3>1 DEF Laid
      <4> QED BY <1>9, <1>10, <3>1, <4>1, <4>2
    <3>2. CASE k = n + 1
      <4>1. starts'[k] = End /\ pieces'[k] = p /\ k + 1 = n + 2
        BY <1>9, <1>10, <1>12, <1>13, <3>2
      <4>2. starts'[k + 1] = End + Len(f)
        BY <1>11, <4>1
      <4> QED BY <4>1, <4>2 DEF f
    <3> QED BY <1>13, <3>1, <3>2
  <2>4. \A k \in 1..(Len(pieces') + 1) : 1 <= starts'[k] /\ starts'[k] <= End'
    <3> SUFFICES ASSUME NEW k \in 1..(n + 2)  PROVE 1 <= starts'[k] /\ starts'[k] <= End'
      BY <1>9, <1>13
    <3>1. CASE k \in 1..(n + 1)
      <4>1. 1 <= starts[k] /\ starts[k] <= End /\ starts[k] \in Nat
        BY <1>3, <1>4, <1>13, <3>1 DEF Laid
      <4>2. starts'[k] = starts[k]
        BY <1>10, <3>1
      <4> QED BY <1>0, <1>11, <4>1, <4>2
    <3>2. CASE k = n + 2
      BY <1>0, <1>11, <3>2
    <3> QED BY <1>13, <3>1, <3>2
  <2> QED BY <2>1, <2>2, <2>3, <2>4 DEF Laid
<1>16. /\ \A x \in 1..Len(text) : text'[x] = text[x]
       /\ \A j \in 1..Len(f) : text'[Len(text) + j] = f[j]
  <2>1. \A x \in 1..(Len(text) + Len(f)) :
          (text \o f)[x] = IF x <= Len(text) THEN text[x] ELSE f[x - Len(text)]
    BY <1>5, <1>7, ConcatProperties
  <2> DEFINE h == text \o f
  <2>2. text' = h
    BY <1>1 DEF f
  <2>3. \A x \in 1..(Len(text) + Len(f)) :
          h[x] = IF x <= Len(text) THEN text[x] ELSE f[x - Len(text)]
    BY <2>1
  <2> HIDE DEF h
  <2>4. ASSUME NEW x \in 1..Len(text)  PROVE h[x] = text[x]
    <3>1. x \in 1..(Len(text) + Len(f)) /\ x <= Len(text)
      BY <1>4, <1>5
    <3> QED BY <2>3, <3>1
  <2>5. ASSUME NEW j \in 1..Len(f)  PROVE h[Len(text) + j] = f[j]
    <3>1. /\ Len(text) + j \in 1..(Len(text) + Len(f)) /\ ~(Len(text) + j <= Len(text))
          /\ Len(text) + j - Len(text) = j
      BY <1>4, <1>5
    <3> QED BY <2>3, <3>1
  <2> QED BY <2>2, <2>4, <2>5
<1>17. Held'
  <2> SUFFICES ASSUME NEW k \in 1..(n + 1)
               PROVE  Agree(text', starts'[k], Form(pieces'[k]))
    BY <1>9 DEF Held
  <2>1. CASE k \in 1..n
    <3>1. starts'[k] = starts[k] /\ pieces'[k] = pieces[k]
      BY <1>9, <1>10, <1>13, <2>1
    <3>2. /\ starts[k] \in Nat /\ Len(Form(pieces[k])) \in Nat
          /\ starts[k] + Len(Form(pieces[k])) <= End
      BY <1>4, <1>13, <2>1
    <3>3. starts[k] >= 1
      BY <1>3, <1>4, <1>13, <2>1 DEF Laid
    <3>4. Agree(text, starts[k], Form(pieces[k]))
      BY <1>3, <1>13, <2>1 DEF Held
    <3> SUFFICES ASSUME NEW j \in 1..Len(Form(pieces[k]))
                 PROVE  text'[starts[k] + (j - 1)] = Form(pieces[k])[j]
      BY <3>1, Zenon DEF Agree
    <3>5. starts[k] + (j - 1) \in 1..Len(text) /\ starts[k] + (j - 1) <= Len(text)
      BY <1>4, <1>6, <3>2, <3>3
    <3>6. text[starts[k] + (j - 1)] = Form(pieces[k])[j]
      BY <3>4, <3>5, Zenon DEF Agree
    <3> QED BY <1>16, <3>5, <3>6, Zenon
  <2>2. CASE k = n + 1
    <3>1. starts'[k] = Len(text) + 1 /\ Form(pieces'[k]) = f
      BY <1>4, <1>6, <1>9, <1>10, <1>12, <1>13, <2>2 DEF f
    <3> SUFFICES ASSUME NEW j \in 1..Len(f)  PROVE text'[Len(text) + 1 + (j - 1)] = f[j]
      BY <3>1, Zenon DEF Agree
    <3>2. Len(text) + 1 + (j - 1) = Len(text) + j
      BY <1>4, <1>5
    <3> QED BY <1>16, <3>2, Zenon
  <2> QED BY <1>13, <2>1, <2>2
<1>18. Whole'
  BY <1>2, <1>4, <1>5, <1>6, <1>8, <1>11 DEF Whole
<1>19. InStep'
  <2>1. Len(out) = 0
    BY <1>6
  <2>2. starts'[1] = 1
    BY <1>15 DEF Laid
  <2> QED BY <1>2, <1>6, <1>9, <1>13, <2>1, <2>2 DEF InStep
<1> QED BY <1>14, <1>15, <1>17, <1>18, <1>19 DEF IInv

\* Held survives when what is left of the text is what it was.
LEMMA StillHeld ==
  ASSUME Typed, Laid, Held, text' \in Seq(Int), UNCHANGED <<pieces, starts>>,
         \A x \in 1..Len(text) : x <= Len(text') => text'[x] = text[x],
         Len(text) = End - 1
  PROVE  Held'
<1>1. /\ Len(pieces) \in Nat /\ Len(text) \in Nat /\ End \in Nat /\ Len(text') \in Nat
      /\ \A k \in 1..(Len(pieces) + 1) : starts[k] \in Nat
      /\ \A k \in 1..Len(pieces) :
           /\ Len(Form(pieces[k])) \in Nat
           /\ starts[k] + Len(Form(pieces[k])) <= End
  BY LaidFacts, LenProperties
<1>7. \A k \in 1..(Len(pieces) + 1) : 1 <= starts[k]
  BY DEF Laid
<1> SUFFICES ASSUME NEW k \in 1..Len(pieces)
             PROVE  Agree(text', starts[k], Form(pieces[k]))
  BY DEF Held
<1> SUFFICES ASSUME NEW j \in 1..Len(Form(pieces[k])), starts[k] + (j - 1) <= Len(text')
             PROVE  text'[starts[k] + (j - 1)] = Form(pieces[k])[j]
  BY Zenon DEF Agree
<1>2. starts[k] \in Nat /\ starts[k] >= 1
  <2> DEFINE n == Len(pieces)
  <2>1. n \in Nat /\ k \in 1..n
    BY <1>1
  <2> HIDE DEF n
  <2>2. k \in 1..(n + 1)
    BY <2>1
  <2>3. k \in 1..(Len(pieces) + 1)
    BY <2>2 DEF n
  <2> QED BY <1>1, <1>7, <2>3
<1>3. Len(Form(pieces[k])) \in Nat /\ starts[k] + Len(Form(pieces[k])) <= End
  BY <1>1
<1>4. starts[k] + (j - 1) \in 1..Len(text) /\ starts[k] + (j - 1) <= Len(text)
  <2> DEFINE first == starts[k]
             long == Len(Form(pieces[k]))
  <2>1. first \in Nat /\ first >= 1 /\ long \in Nat /\ first + long <= End /\ j \in 1..long
    BY <1>2, <1>3
  <2> HIDE DEF first, long
  <2>2. first + (j - 1) \in 1..Len(text) /\ first + (j - 1) <= Len(text)
    BY <1>1, <2>1
  <2> QED BY <2>2 DEF first
<1>5. Agree(text, starts[k], Form(pieces[k]))
  BY DEF Held
<1>6. text[starts[k] + (j - 1)] = Form(pieces[k])[j]
  BY <1>4, <1>5, Zenon DEF Agree
<1> QED BY <1>4, <1>6, Zenon

\* Closing the text, or cutting it anywhere, keeps the invariant.
LEMMA SentInv == IInv /\ (Close \/ Cut) => IInv'
<1> SUFFICES ASSUME IInv, Close \/ Cut  PROVE IInv'
  OBVIOUS
<1>1. Typed /\ Laid /\ Held /\ Whole /\ InStep
  BY DEF IInv
<1>2. Len(pieces) \in Nat /\ Len(text) \in Nat /\ End \in Nat /\ End >= 1
  BY <1>1, LaidFacts
<1>3. /\ pc = "write" /\ pc' = "read"
      /\ pieces' = pieces /\ starts' = starts /\ i' = i /\ out' = out
  BY DEF Close, Cut
<1>4. ~closed /\ Len(text) = End - 1 /\ i = 1 /\ out = <<>>
  BY <1>1, <1>3 DEF Whole
<1>5. text \in Seq(Int)
  BY <1>1 DEF Typed
<1>6. End' = End /\ Laid'
  BY <1>1, <1>3 DEF Laid, End
<1>7. InStep'
  <2>1. Len(out) = 0
    BY <1>4
  <2> QED BY <1>1, <1>2, <1>3, <1>4, <2>1 DEF InStep, Laid
<1>8. CASE Close
  <2>1. text' = Append(text, 34) /\ closed' = TRUE
    BY <1>8 DEF Close
  <2>2. /\ text' \in Seq(Int) /\ Len(text') = Len(text) + 1 /\ text'[Len(text) + 1] = 34
        /\ \A x \in 1..Len(text) : text'[x] = text[x]
    BY <1>5, <2>1, AppendProperties
  <2>3. Typed'
    BY <1>1, <1>3, <2>1, <2>2 DEF Typed
  <2>4. Held'
    BY <1>1, <1>3, <1>4, <2>2, StillHeld
  <2>5. Whole'
    BY <1>2, <1>3, <1>4, <1>6, <2>1, <2>2 DEF Whole
  <2> QED BY <1>6, <1>7, <2>3, <2>4, <2>5 DEF IInv
<1>9. CASE Cut
  <2>1. PICK m \in 0..Len(text) : text' = SubSeq(text, 1, m)
    BY <1>9 DEF Cut
  <2>2. closed' = closed
    BY <1>9 DEF Cut
  <2>3. /\ text' \in Seq(Int) /\ Len(text') = m
        /\ \A x \in 1..m : text'[x] = text[x]
    BY <1>2, <1>5, <2>1, SubSeqProperties
  <2>4. Typed'
    BY <1>1, <1>3, <2>2, <2>3 DEF Typed
  <2>5. Held'
    BY <1>1, <1>3, <1>4, <2>3, StillHeld
  <2>6. Whole'
    BY <1>2, <1>3, <1>4, <1>6, <2>2, <2>3 DEF Whole
  <2> QED BY <1>6, <1>7, <2>4, <2>5, <2>6 DEF IInv
<1> QED BY <1>8, <1>9

(***************************************************************************)
(* Reading.                                                                *)
(***************************************************************************)
LEMMA ReadInv == IInv /\ (ReadNext \/ ReadQuote \/ Unterminated) => IInv'
<1> SUFFICES ASSUME IInv, ReadNext \/ ReadQuote \/ Unterminated  PROVE IInv'
  OBVIOUS
<1>1. Typed /\ Laid /\ Held /\ Whole /\ InStep
  BY DEF IInv
<1>2. /\ Len(pieces) \in Nat /\ Len(text) \in Nat /\ Len(out) \in Nat
      /\ \A k \in 1..(Len(pieces) + 1) : starts[k] \in Nat
      /\ End \in Nat /\ End >= 1
      /\ \A k \in 1..Len(pieces) :
           /\ pieces[k] \in Piece /\ Form(pieces[k]) \in Seq(Int)
           /\ Len(Form(pieces[k])) \in Nat /\ Len(Form(pieces[k])) > 0
           /\ starts[k] + Len(Form(pieces[k])) <= End
  BY <1>1, LaidFacts
<1>3. pc = "read" /\ UNCHANGED <<text, pieces, starts, closed>>
  BY DEF ReadNext, ReadQuote, Unterminated
<1>4. Laid' /\ Held' /\ End' = End
  BY <1>1, <1>3 DEF Laid, Held, Agree, End
<1>5. i \in Nat /\ i = starts[Len(out) + 1] /\ Len(out) <= Len(pieces)
  BY <1>1, <1>3 DEF Typed, InStep
<1>6. CASE ReadNext
  <2>1. At(text, i) \notin {-1, 34}
    BY <1>6 DEF ReadNext
  <2>2. i <= Len(text) /\ text[i] # 34
    BY <1>2, <1>5, <2>1 DEF At
  <2> DEFINE k == Len(out) + 1
             r == ReadChar(text, i)
  <2>3. k \in 1..Len(pieces) /\ Reads(pieces[k], text, i)
    BY <1>3, <2>2, Stands
  <2>4. i = starts[k]
    BY <1>5
  <2> HIDE DEF k
  <2>5. CASE i + Len(Form(pieces[k])) - 1 <= Len(text)
    <3>1. PICK b \in Seq(Int) : Means(b, pieces[k]) /\ r = Got(b, i + Len(Form(pieces[k])))
      BY <2>3, <2>5, Zenon DEF Reads
    <3>2. r.ok = TRUE /\ r.v = b /\ r.i = i + Len(Form(pieces[k]))
      BY <3>1 DEF Got
    <3> HIDE DEF r
    <3>3. i' = r.i /\ out' = Append(out, r.v) /\ pc' = pc
      BY <1>6, <3>2, Zenon DEF ReadNext, r
    <3>4. i' = starts[k + 1] /\ i' \in Nat
      <4>1. starts[k + 1] = starts[k] + Len(Form(pieces[k]))
        BY <1>1, <2>3 DEF Laid
      <4>2. Len(pieces) \in Nat /\ k \in 1..Len(pieces) /\ k + 1 \in 1..(Len(pieces) + 1)
        BY <1>2, <2>3
      <4>3. starts[k + 1] \in Nat
        BY <1>2, <4>2
      <4>4. i' = starts[k + 1]
        BY <2>4, <3>2, <3>3, <4>1
      <4> QED BY <4>3, <4>4
    <3>5. out \in Seq(Seq(Int))
      BY <1>1 DEF Typed
    <3>6. out' = Append(out, b)
      BY <3>2, <3>3, Zenon
    <3>7. /\ out' \in Seq(Seq(Int)) /\ Len(out') = k
          /\ \A m \in 1..Len(out) : out'[m] = out[m]
          /\ out'[k] = b
      BY <3>5, <3>6, AppendProperties DEF k
    <3>8. Typed'
      BY <1>1, <1>3, <3>3, <3>4, <3>7 DEF Typed
    <3>9. Whole'
      BY <1>1, <1>3, <1>4, <3>3 DEF Whole
    <3>10. \A m \in 1..k : Means(out'[m], pieces[m])
      <4> SUFFICES ASSUME NEW m \in 1..k  PROVE Means(out'[m], pieces[m])
        OBVIOUS
      <4>1. CASE m = k
        BY <3>1, <3>7, <4>1
      <4>2. CASE m # k
        <5>1. m \in 1..Len(out)
          BY <1>2, <4>2 DEF k
        <5> QED BY <1>1, <3>7, <5>1 DEF InStep
      <4> QED BY <4>1, <4>2
    <3>11. InStep'
      BY <1>3, <2>3, <3>3, <3>4, <3>7, <3>10 DEF InStep
    <3> QED BY <1>4, <3>8, <3>9, <3>11 DEF IInv
  <2>6. CASE i + Len(Form(pieces[k])) - 1 > Len(text)
    <3>1. r = Fail
      BY <2>3, <2>6, Zenon DEF Reads
    <3>2. r.ok = FALSE
      BY <3>1 DEF Fail
    <3> HIDE DEF r
    <3>3. pc' = "failed" /\ i' = i /\ out' = out
      BY <1>6, <3>2, Zenon DEF ReadNext, r
    <3>4. ~closed
      <4>1. starts[k] + Len(Form(pieces[k])) <= End /\ Len(Form(pieces[k])) \in Nat
        BY <1>2, <2>3
      <4>2. Len(text) < End
        BY <1>2, <1>5, <2>4, <2>6, <4>1
      <4> QED BY <1>1, <1>2, <4>2 DEF Whole
    <3>5. Typed'
      BY <1>1, <1>3, <3>3 DEF Typed
    <3>6. Whole' /\ InStep'
      BY <1>1, <1>3, <1>4, <3>3, <3>4 DEF Whole, InStep
    <3> QED BY <1>4, <3>5, <3>6 DEF IInv
  <2> QED BY <1>2, <1>5, <2>3, <2>5, <2>6
<1>7. CASE ReadQuote
  <2>1. i' = i + 1 /\ pc' = "accepted" /\ out' = out /\ At(text, i) = 34
    BY <1>7 DEF ReadQuote
  <2>2. i <= Len(text) /\ text[i] = 34
    BY <1>2, <1>5, <2>1 DEF At
  <2>3. closed /\ Len(out) = Len(pieces) /\ i = Len(text)
    BY <1>3, <2>2, Stands DEF Reads
  <2>4. Typed'
    BY <1>1, <1>3, <1>5, <2>1 DEF Typed
  <2>5. Whole' /\ InStep'
    BY <1>1, <1>3, <1>4, <2>1, <2>3 DEF Whole, InStep
  <2> QED BY <1>4, <2>4, <2>5 DEF IInv
<1>8. CASE Unterminated
  <2>1. pc' = "failed" /\ i' = i /\ out' = out /\ At(text, i) = -1
    BY <1>8 DEF Unterminated
  <2>2. ~(i <= Len(text))
    <3> SUFFICES ASSUME i <= Len(text)  PROVE FALSE
      OBVIOUS
    <3>1. text[i] = -1
      BY <2>1 DEF At
    <3> QED BY <1>3, <3>1, Stands DEF Reads
  <2>3. i <= End
    <3>1. Len(out) + 1 \in 1..(Len(pieces) + 1)
      BY <1>2, <1>5
    <3> QED BY <1>1, <1>5, <3>1 DEF Laid
  <2>4. ~closed
    BY <1>1, <1>2, <1>5, <2>2, <2>3 DEF Whole
  <2>5. Typed'
    BY <1>1, <1>3, <2>1 DEF Typed
  <2>6. Whole' /\ InStep'
    BY <1>1, <1>3, <1>4, <2>1, <2>4 DEF Whole, InStep
  <2> QED BY <1>4, <2>5, <2>6 DEF IInv
<1> QED BY <1>6, <1>7, <1>8

(***************************************************************************)
(* The invariant holds in every state.                                     *)
(***************************************************************************)
THEOREM Invariance == Spec => []IInv
<1>1. IInv /\ [Next]_vars => IInv'
  <2> SUFFICES ASSUME IInv, [Next]_vars  PROVE IInv'
    OBVIOUS
  <2>1. CASE UNCHANGED vars
    BY <2>1 DEF vars, IInv, Typed, Laid, Held, Whole, InStep, End, Agree
  <2> QED BY <2>1, WriteInv, SentInv, ReadInv DEF Next
<1> QED BY <1>1, InitInv, PTL DEF Spec

(***************************************************************************)
(* CharactersKept: what parse_string makes of a string is what was         *)
(* written, it ends at the closing quote, and a text that was cut is       *)
(* refused, wherever it was cut.                                           *)
(***************************************************************************)
THEOREM StringsKept == Spec => []CharactersKept
<1>1. IInv => CharactersKept
  <2> SUFFICES ASSUME IInv  PROVE CharactersKept
    OBVIOUS
  <2>1. Typed /\ InStep
    BY DEF IInv
  <2>2. DOMAIN out = 1..Len(out) /\ DOMAIN pieces = 1..Len(pieces)
    BY <2>1, LenProperties DEF Typed
  <2>3. Len(out) \in Nat /\ Len(pieces) \in Nat /\ Len(out) <= Len(pieces)
    BY <2>1, LenProperties DEF Typed, InStep
  <2>4. \A k \in DOMAIN out : k \in DOMAIN pieces /\ Means(out[k], pieces[k])
    <3> SUFFICES ASSUME NEW k \in 1..Len(out)
                 PROVE  k \in 1..Len(pieces) /\ Means(out[k], pieces[k])
      BY <2>2
    <3>1. k \in 1..Len(pieces)
      BY <2>3
    <3>2. Means(out[k], pieces[k])
      BY <2>1 DEF InStep
    <3> QED BY <3>1, <3>2
  <2> QED BY <2>1, <2>4 DEF CharactersKept, InStep
<1> QED BY <1>1, Invariance, PTL
================================================================================
