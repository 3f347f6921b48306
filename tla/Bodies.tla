--------------------------------- MODULE Bodies ---------------------------------
(***************************************************************************)
(* The bodies of requests and answers, built up piece by piece: the text   *)
(* that a client sends, and a value that a handler answers with.  The      *)
(* parser and the writer (JsonText) are evaluated in every state.          *)
(***************************************************************************)
EXTENDS JsonText

CONSTANTS
  Fragments, MaxFragments,  \* bound: pieces of a text and their number
  Leaves, Keys, MaxDepth    \* bound: the values that are wrapped, names, and how often

ASSUME BoundsAssumption == {MaxFragments, MaxDepth} \subseteq Nat

VARIABLES kind, body, value, depth
bodyVars == <<kind, body, value, depth>>

BodyInit == kind = "nothing" /\ body = <<>> /\ value = Null /\ depth = 0

AddFragment ==
  /\ kind \in {"nothing", "text"} /\ Len(body) < MaxFragments
  /\ \E f \in Fragments : body' = Append(body, f)
  /\ kind' = "text"
  /\ UNCHANGED <<value, depth>>

Choose ==
  /\ kind = "nothing"
  /\ value' \in Leaves
  /\ kind' = "value"
  /\ UNCHANGED <<body, depth>>

\* The answers of the handlers are arrays and objects of other values.
Wrap ==
  /\ kind = "value" /\ depth < MaxDepth
  /\ \E leaf \in Leaves, key \in Keys, other \in Keys :
       value' \in {Array(<<value>>), Array(<<leaf, value>>), Object(key :> value),
                   Object(key :> leaf @@ other :> value)}
  /\ depth' = depth + 1
  /\ UNCHANGED <<kind, body>>

BodyNext == AddFragment \/ Choose \/ Wrap
BodySpec == BodyInit /\ [][BodyNext]_bodyVars

--------------------------------------------------------------------------------
\* No number of v was given with an exponent.
RECURSIVE Plain(_)
Plain(v) ==
  CASE v.type = "Array"  -> \A k \in DOMAIN v.arr : Plain(v.arr[k])
    [] v.type = "Object" -> \A k \in DOMAIN v.obj : Plain(v.obj[k])
    [] v.type = "Number" -> "literal" \notin DOMAIN v
    [] OTHER -> TRUE

\* Within half a unit of the sixth digit; an integer is kept.
Near(x, y) ==
  IF x.den = 1 THEN x = y
  ELSE 200000 * Abs(x.num * y.den - y.num * x.den) <= Abs(x.num) * y.den

RECURSIVE Back(_, _)
Back(v, w) ==
  /\ v.type = w.type
  /\ CASE v.type = "Number" -> Near(v, w)
       [] v.type = "Array"  -> /\ Len(v.arr) = Len(w.arr)
                               /\ \A k \in DOMAIN v.arr : Back(v.arr[k], w.arr[k])
       [] v.type = "Object" -> /\ DOMAIN v.obj = DOMAIN w.obj
                               /\ \A k \in DOMAIN v.obj : Back(v.obj[k], w.obj[k])
       [] OTHER -> v = w

Reads(v) ==
  LET r == Parse(Dump(v))
  IN  r.ok /\ r.i = Len(Dump(v)) + 1 /\ Back(v, r.v) /\ Dump(r.v) = Dump(v)

(* What dump writes, Parse reads back, whatever bytes its strings hold:    *)
(* every value a handler answers with, and every body that is accepted.    *)
(* Strings, integers, arrays and objects come back as they were; of a      *)
(* fraction, such as the ac_rate of a profile, only six digits are         *)
(* written, so a number within half a unit of the sixth comes back, and    *)
(* that one is written the same way again.  Nothing is said of a body with *)
(* a number that has an exponent.                                          *)
RoundTrip ==
  /\ kind = "value" => Reads(value)
  /\ kind = "text" => LET r == Parse(FlattenSeq(body)) IN r.ok /\ Plain(r.v) => Reads(r.v)

(* A body that is accepted is one value.  When a text that opens an array, *)
(* an object or a string is accepted as it stands, it is refused with      *)
(* anything but blanks behind it: a body is never read up to a bracket     *)
(* that closes too early, and two bodies run together are no body.         *)
OneValue ==
  kind = "text" =>
    LET whole == FlattenSeq(body)
        Start(n) == FlattenSeq(SubSeq(body, 1, n))
    IN  Parse(whole).ok /\ At(whole, SkipWs(whole, 1)) \in {34, 91, 123} =>
          \A n \in 1..(Len(body) - 1) :
            Parse(Start(n)).ok => SkipWs(whole, Len(Start(n)) + 1) = Len(whole) + 1
================================================================================
