-------------------------------- MODULE JsonText --------------------------------
(***************************************************************************)
(* src/util/json.h: the writer (Value::dump) and the recursive parser of   *)
(* every request and response body; the characters of a string are in      *)
(* JsonString.  A number is the ratio that its double stands for, and the  *)
(* integers are those a double holds.  Left out are numbers that need an   *)
(* exponent: such a literal is recognised, its value is left to strtod.    *)
(***************************************************************************)
EXTENDS JsonString, SequencesExt

Null == [type |-> "Null"]
Bool(b) == [type |-> "Bool", bool |-> b]
RECURSIVE Gcd(_, _)
Gcd(a, b) == IF b = 0 THEN a ELSE Gcd(b, a % b)
Abs(n) == IF n < 0 THEN -n ELSE n
Ratio(p, q) ==
  LET g == Gcd(Abs(p), q)
      Part(n) == IF n < 0 THEN -((-n) \div g) ELSE n \div g
  IN  [type |-> "Number", num |-> Part(p), den |-> Part(q)]
Number(n) == Ratio(n, 1)
String(s) == [type |-> "String", str |-> s]
Array(a) == [type |-> "Array", arr |-> a]
Object(o) == [type |-> "Object", obj |-> o]     \* o: a function on keys

True  == <<116, 114, 117, 101>>
False == <<102, 97, 108, 115, 101>>
NullWord == <<110, 117, 108, 108>>
Digits == 48..57

--------------------------------------------------------------------------------
\* Writing

EscapeString(s) == <<34>> \o FlattenSeq([k \in DOMAIN s |-> EscapeByte(s[k])]) \o <<34>>

RECURSIVE Decimal(_)
Decimal(n) ==
  IF n < 0 THEN <<45>> \o Decimal(-n)
  ELSE IF n < 10 THEN <<48 + n>> ELSE Append(Decimal(n \div 10), 48 + (n % 10))

\* os << num_ for 1/10000 <= num_ < 1000000: six significant digits, of two that are
\* equally near the even one, and no zeros at the end.
\* SixDigits(m, r, q, e): the value is (m + r/q) / 10^e, with r < q.
RECURSIVE SixDigits(_, _, _, _)
SixDigits(m, r, q, e) ==
  IF m < 100000 THEN SixDigits(10 * m + ((10 * r) \div q), (10 * r) % q, q, e + 1)
  ELSE LET up == 2 * r > q \/ (2 * r = q /\ m % 2 = 1)
       IN  [m |-> IF up THEN m + 1 ELSE m, e |-> e]

RECURSIVE Places(_, _)
Places(r, e) ==
  IF r = 0 THEN <<>> ELSE <<48 + (r \div 10^(e - 1))>> \o Places(r % 10^(e - 1), e - 1)

Fraction(p, q) ==
  LET six == SixDigits(p \div q, p % q, q, 0)
      one == 10^six.e
      r   == six.m % one
  IN  Decimal(six.m \div one) \o (IF r = 0 THEN <<>> ELSE <<46>> \o Places(r, six.e))

DumpNumber(v) ==
  IF v.den = 1 THEN Decimal(v.num)
  ELSE (IF v.num < 0 THEN <<45>> ELSE <<>>) \o Fraction(Abs(v.num), v.den)

\* The order of std::map<std::string, Value>.
Before(a, b) ==
  \E n \in 0..Len(a) :
    /\ n <= Len(b) /\ SubSeq(a, 1, n) = SubSeq(b, 1, n)
    /\ n < Len(b)
    /\ n = Len(a) \/ a[n + 1] < b[n + 1]

Joined(parts) == FlattenSeq([k \in DOMAIN parts |-> IF k = 1 THEN parts[k] ELSE <<44>> \o parts[k]])

RECURSIVE Dump(_)
Dump(v) ==
  CASE v.type = "Null"   -> NullWord
    [] v.type = "Bool"   -> IF v.bool THEN True ELSE False
    [] v.type = "Number" -> DumpNumber(v)
    [] v.type = "String" -> EscapeString(v.str)
    [] v.type = "Array"  -> <<91>> \o Joined([k \in DOMAIN v.arr |-> Dump(v.arr[k])]) \o <<93>>
    [] v.type = "Object" ->
         LET keys == SetToSortSeq(DOMAIN v.obj, Before)
         IN  <<123>> \o Joined([k \in DOMAIN keys |-> EscapeString(keys[k]) \o <<58>> \o Dump(v.obj[keys[k]])])
               \o <<125>>

--------------------------------------------------------------------------------
\* Reading

Bind(r, GoOn(_)) == IF r.ok THEN GoOn(r) ELSE Fail

HasAt(s, i, word) == i + Len(word) - 1 <= Len(s) /\ SubSeq(s, i, i + Len(word) - 1) = word

Spaces == (9..13) \cup {32}
\* The first position from i on whose byte is not in B.
After(s, i, B) == Min({j \in i..Len(s) : s[j] \notin B} \cup {IF i > Len(s) THEN i ELSE Len(s) + 1})
SkipWs(s, i) == After(s, i, Spaces)

\* parse_string, after the opening quote; out is what it has read.
RECURSIVE ParseString(_, _, _)
ParseString(s, i, out) ==
  IF At(s, i) = -1 THEN Fail
  ELSE IF At(s, i) = 34 THEN Got(out, i + 1)
  ELSE Bind(ReadChar(s, i), LAMBDA r : ParseString(s, r.i, out \o r.v))

\* strtod on digits, of which there may be none ("-" alone reads as 0).
Value(digits) == FoldLeft(LAMBDA n, d : 10 * n + (d - 48), 0, digits)

ParseNumber(s, i) ==
  LET int  == IF At(s, i) = 45 THEN i + 1 ELSE i
      frac == After(s, int, Digits)
      exp  == IF At(s, frac) = 46 THEN After(s, frac + 1, Digits) ELSE frac
      sign == IF At(s, exp) \in {69, 101} THEN exp + 1 ELSE exp
      end  == IF sign = exp THEN exp
              ELSE After(s, IF At(s, sign) \in {43, 45} THEN sign + 1 ELSE sign, Digits)
      places == SubSeq(s, frac + 1, exp - 1)
      n    == Value(SubSeq(s, int, frac - 1) \o places)
  IN  Got(IF end > exp THEN [type |-> "Number", literal |-> SubSeq(s, i, end - 1)]
          ELSE Ratio(IF int > i THEN -n ELSE n, 10^Len(places)), end)

Word(s, i, word, v) == IF HasAt(s, i, word) THEN Got(v, i + Len(word)) ELSE Fail

\* After an element: the bracket ends the value, a comma goes on.
Continue(s, i, bracket, v, More(_)) ==
  LET j == SkipWs(s, i)
  IN  IF At(s, j) = bracket THEN Got(v, j + 1)
      ELSE IF At(s, j) = 44 THEN More(j + 1)
      ELSE Fail

\* obj[key] = value: of a repeated key the last value stays.
SetMember(obj, key, v) == (key :> v) @@ obj

RECURSIVE ParseValue(_, _), ParseArray(_, _, _), ParseObject(_, _, _)

\* After '[' or ',', and after '{' or ',': one more element.
ParseArray(s, i, arr) ==
  Bind(ParseValue(s, i), LAMBDA r :
    Continue(s, r.i, 93, Array(Append(arr, r.v)), LAMBDA j : ParseArray(s, j, Append(arr, r.v))))

ParseObject(s, i, obj) ==
  LET b == SkipWs(s, i)
      AfterColon(k, c) ==
        Bind(ParseValue(s, c + 1), LAMBDA r :
          Continue(s, r.i, 125, Object(SetMember(obj, k, r.v)),
                   LAMBDA j : ParseObject(s, j, SetMember(obj, k, r.v))))
      AfterKey(k, c) == IF At(s, c) = 58 THEN AfterColon(k, c) ELSE Fail
  IN  IF At(s, b) # 34 THEN Fail
      ELSE Bind(ParseString(s, b + 1, <<>>), LAMBDA r : AfterKey(r.v, SkipWs(s, r.i)))

ParseValue(s, i) ==
  LET b   == SkipWs(s, i)
      c   == At(s, b)
      nxt == SkipWs(s, b + 1)
  IN  CASE c = 123 -> IF At(s, nxt) = 125 THEN Got(Object(<<>>), nxt + 1)
                      ELSE ParseObject(s, b + 1, <<>>)
        [] c = 91  -> IF At(s, nxt) = 93 THEN Got(Array(<<>>), nxt + 1)
                      ELSE ParseArray(s, b + 1, <<>>)
        [] c = 34  -> Bind(ParseString(s, b + 1, <<>>), LAMBDA r : Got(String(r.v), r.i))
        [] c = 116 -> Word(s, b, True, Bool(TRUE))
        [] c = 102 -> Word(s, b, False, Bool(FALSE))
        [] c = 110 -> Word(s, b, NullWord, Null)
        [] c = 45 \/ c \in Digits -> ParseNumber(s, b)
        [] OTHER -> Fail

\* The whole text must be one value.  The mutant ignores what follows it.
ParsePrefix(s) == ParseValue(s, 1)
Parse(s) ==
  LET r == ParseValue(s, 1)
  IN  IF r.ok /\ SkipWs(s, r.i) = Len(s) + 1 THEN r ELSE Fail
================================================================================
