-------------------------------- MODULE Json --------------------------------
(***************************************************************************)
(* json.hpp: the parser with its leniencies and the two printers.  A text  *)
(* is a sequence of characters, as std::string is; a string inside a value *)
(* is a string of TLA+.                                                    *)
(***************************************************************************)
EXTENDS Values, Integers, Sequences, TLC

-----------------------------------------------------------------------------
(* Texts *)

Characters(s) == [i \in 1 .. Len(s) |-> SubSeq(s, i, i)]

RECURSIVE String(_)
String(t) == IF t = <<>> THEN "" ELSE Head(t) \o String(Tail(t))

-----------------------------------------------------------------------------
(* Parser.  A position may lie past the end: literals are skipped unread.  *)

Digits == {ToString(d) : d \in 0 .. 9}

Failed       == [ok |-> FALSE]
Parsed(v, p) == [ok |-> TRUE, v |-> v, p |-> p]

Peek(s, p) == IF p <= Len(s) THEN s[p] ELSE ""

RECURSIVE Skip(_, _, _)
Skip(s, p, chars) == IF Peek(s, p) \in chars THEN Skip(s, p + 1, chars) ELSE p

SkipWs(s, p) == Skip(s, p, {" ", "\t", "\r", "\n"})

Unescaped(c) ==
  CASE c = "n" -> "\n" [] c = "r" -> "\r" [] c = "t" -> "\t" [] OTHER -> c

\* The rest of a string whose opening quote has been read.
RECURSIVE RestOfString(_, _, _)
RestOfString(s, p, acc) ==
  LET c == Peek(s, p) IN
  CASE c = ""   -> Failed
    [] c = "\"" -> Parsed(acc, p + 1)
    [] c = "\\" -> IF Peek(s, p + 1) = "" THEN Failed
                   ELSE RestOfString(s, p + 2, acc \o Unescaped(Peek(s, p + 1)))
    [] OTHER    -> RestOfString(s, p + 1, acc \o c)

ParseString(s, p) ==
  IF Peek(s, p) = "\"" THEN RestOfString(s, p + 1, "") ELSE Failed

\* stoll on digits; values beyond int64_t, which throw, are left out.
RECURSIVE Number(_)
Number(s) ==
  IF s = <<>> THEN 0
  ELSE 10 * Number(SubSeq(s, 1, Len(s) - 1))
       + CHOOSE d \in 0 .. 9 : ToString(d) = s[Len(s)]

ParseNumber(s, p) ==
  LET first == IF Peek(s, p) = "-" THEN p + 1 ELSE p
      whole == Skip(s, first, Digits)
      frac  == IF Peek(s, whole) = "." THEN Skip(s, whole + 1, Digits) ELSE whole
      sign  == IF Peek(s, frac + 1) \in {"+", "-"} THEN frac + 2 ELSE frac + 1
      last  == IF Peek(s, frac) \in {"e", "E"} THEN Skip(s, sign, Digits) ELSE frac
      n     == Number(SubSeq(s, first, whole - 1))
  IN IF whole = first /\ frac <= whole + 1 THEN Failed
     ELSE IF last > whole THEN Parsed(<<"double", String(SubSeq(s, p, last - 1))>>, last)
     ELSE Parsed(Num(IF first > p THEN -n ELSE n), whole)

RECURSIVE ParseValue(_, _), Members(_, _, _), Elements(_, _, _)

ParseValue(s, p) ==
  LET q == SkipWs(s, p)
      c == Peek(s, q)
      e == SkipWs(s, q + 1)
  IN CASE c = "\"" -> LET r == ParseString(s, q) IN
                      IF r.ok THEN Parsed(Str(r.v), r.p) ELSE Failed
       [] c = "{"  -> IF Peek(s, e) = "}" THEN Parsed(Object(<<>>), e + 1)
                      ELSE Members(s, e, <<>>)
       [] c = "["  -> IF Peek(s, e) = "]" THEN Parsed(Array(<<>>), e + 1)
                      ELSE Elements(s, e, <<>>)
       [] c = "t"  -> Parsed(Bool(TRUE), q + 4)
       [] c = "f"  -> Parsed(Bool(FALSE), q + 5)
       [] c = "n"  -> Parsed(Null, q + 4)
       [] c \in Digits \cup {"-"} -> ParseNumber(s, q)
       [] OTHER    -> Failed

\* The loop of parse_object; a key that comes twice keeps its last value.
Members(s, p, obj) ==
  LET key   == ParseString(s, SkipWs(s, p))
      colon == SkipWs(s, key.p)
      val   == ParseValue(s, colon + 1)
      end   == SkipWs(s, val.p)
      more  == (key.v :> val.v) @@ obj
  IN IF ~key.ok THEN Failed
     ELSE IF Peek(s, colon) # ":" THEN Failed
     ELSE IF ~val.ok THEN Failed
     ELSE CASE Peek(s, end) = "}" -> Parsed(Object(more), end + 1)
            [] Peek(s, end) = "," -> Members(s, end + 1, more)
            [] OTHER              -> Failed

\* The loop of parse_array.
Elements(s, p, arr) ==
  LET val  == ParseValue(s, p)
      end  == SkipWs(s, val.p)
      more == Append(arr, val.v)
  IN IF ~val.ok THEN Failed
     ELSE CASE Peek(s, end) = "]" -> Parsed(Array(more), end + 1)
            [] Peek(s, end) = "," -> Elements(s, end + 1, more)
            [] OTHER              -> Failed

\* What follows the first value is ignored.
Parse(s) == ParseValue(s, 1)

-----------------------------------------------------------------------------
(* Printers *)

EscapeChar(c) ==
  CASE c \in {"\"", "\\"} -> "\\" \o c
    [] c = "\n" -> "\\n" [] c = "\r" -> "\\r" [] c = "\t" -> "\\t"
    [] OTHER -> c

RECURSIVE EscapeAll(_)
EscapeAll(s) ==
  IF s = "" THEN ""
  ELSE EscapeChar(SubSeq(s, 1, 1)) \o EscapeAll(SubSeq(s, 2, Len(s)))

Escape(s) == "\"" \o EscapeAll(s) \o "\""

RECURSIVE Spaces(_)
Spaces(n) == IF n = 0 THEN "" ELSE " " \o Spaces(n - 1)

\* Both printers lay out a sequence of items between brackets; the pretty
\* one breaks lines at an indent, where n < 0 stands for dump.
RECURSIVE Layout(_, _)
Layout(items, n) ==
  LET break(d) == IF n < 0 THEN "" ELSE "\n" \o Spaces(d) IN
  IF items = <<>> THEN break(n)
  ELSE break(n + 2) \o Head(items)
       \o (IF Len(items) > 1 THEN "," ELSE "") \o Layout(Tail(items), n)

RECURSIVE Keys(_)
\* The keys of a std::map in its order, here some order.
Keys(set) ==
  IF set = {} THEN <<>>
  ELSE LET k == CHOOSE k \in set : TRUE IN <<k>> \o Keys(set \ {k})

RECURSIVE PrintValue(_, _)
PrintValue(v, n) ==
  LET deeper == IF n < 0 THEN n ELSE n + 2 IN
  CASE v[1] = "null"   -> "null"
    [] v[1] = "bool"   -> IF v[2] THEN "true" ELSE "false"
    [] v[1] = "int"    -> ToString(v[2])
    [] v[1] = "double" -> v[2]
    [] v[1] = "string" -> Escape(v[2])
    [] v[1] = "array"  ->
         IF v[2] = <<>> THEN "[]"
         ELSE "[" \o Layout([i \in DOMAIN v[2] |-> PrintValue(v[2][i], deeper)], n)
              \o "]"
    [] v[1] = "object" ->
         LET keys == Keys(DOMAIN v[2])
             item(k) == Escape(k) \o (IF n < 0 THEN ":" ELSE ": ")
                        \o PrintValue(v[2][k], deeper)
         IN IF keys = <<>> THEN "{}"
            ELSE "{" \o Layout([i \in DOMAIN keys |-> item(keys[i])], n) \o "}"

Dump(v)       == Characters(PrintValue(v, -1))
DumpPretty(v) == Characters(PrintValue(v, 0) \o "\n")
=============================================================================
