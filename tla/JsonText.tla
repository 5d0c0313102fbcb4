------------------------------ MODULE JsonText ------------------------------
(***************************************************************************)
(* The JSON of the control protocol (core/json_value.cpp): the reader, the *)
(* writer, and the phone's writer, whose text the reader is given.         *)
(*                                                                         *)
(* A text is a sequence of characters.  "q" is the double quote, "u41" and *)
(* "u19" are the four digits of an escaped letter and of an escaped        *)
(* control character, "ue9" those of a character that is not ASCII.        *)
(* A value is <<"null">>, <<"bool", b>>, <<"number", m, e>> for m * 10^e,  *)
(* <<"string", characters>>, <<"array", values>> or <<"object", f>> with f *)
(* a function from the names to the values.  A reader is either the        *)
(* helper's own or, where `strict`, the phone's JSONDecoder.               *)
(***************************************************************************)
EXTENDS Integers, SequencesExt, FiniteSetsExt, Functions

CONSTANT Precision    \* digits of a number that is not whole; the code writes 15

DigitOf == [d \in 0..9 |-> ToString(d)]
DigitChars == Range(DigitOf)
Space == {" ", "newline"}

Null == <<"null">>
Error == [ok |-> FALSE, value |-> Null, next |-> 0]
Ok(value, next) == [ok |-> TRUE, value |-> value, next |-> next]

At(t, i) == IF i <= Len(t) THEN t[i] ELSE "end"

RECURSIVE SkipWhitespace(_, _)
SkipWhitespace(t, i) == IF At(t, i) \in Space THEN SkipWhitespace(t, i + 1) ELSE i

(***************************************************************************)
(* Strings.                                                                *)
(***************************************************************************)
Escapes == "q" :> "q" @@ "\\" :> "\\" @@ "/" :> "/" @@ "n" :> "newline"
UnicodeEscapes == "u41" :> "a" @@ "u19" :> "control" @@ "ue9" :> "?"

\* The characters from i to the closing quote, those in s read before them.
RECURSIVE Characters(_, _, _, _)
Characters(t, i, s, strict) ==
  CASE At(t, i) = "end" -> Error
    [] At(t, i) = "q"   -> Ok(<<"string", s>>, i + 1)
    [] At(t, i) = "\\"  ->
         IF At(t, i + 1) \in DOMAIN Escapes
           THEN Characters(t, i + 2, Append(s, Escapes[t[i + 1]]), strict)
         ELSE IF At(t, i + 1) = "u" /\ At(t, i + 2) \in DOMAIN UnicodeEscapes
           THEN Characters(t, i + 3, Append(s, UnicodeEscapes[t[i + 2]]), strict)
         ELSE Error
    [] strict /\ At(t, i) \in {"newline", "control"} -> Error
    [] OTHER            -> Characters(t, i + 1, Append(s, t[i]), strict)

ParseString(t, i, strict) ==
  IF At(t, i) = "q" THEN Characters(t, i + 1, <<>>, strict) ELSE Error

EscapeJsonString_NoBackslash(s) ==
  LET escaped == FoldLeft(LAMBDA out, c :
        out \o CASE c = "q" -> <<"\\", "q">> [] c = "newline" -> <<"\\", "n">> [] OTHER -> <<c>>,
        <<>>, s)
  IN <<"q">> \o escaped \o <<"q">>
EscapeJsonString(s) ==
  LET escaped == FoldLeft(LAMBDA out, c :
        out \o CASE c \in {"q", "\\"} -> <<"\\", c>> [] c = "newline" -> <<"\\", "n">>
                 [] OTHER -> <<c>>,
        <<>>, s)
  IN <<"q">> \o escaped \o <<"q">>

\* The phone's JSONEncoder escapes slashes and every control character as well.
PhoneString(s) ==
  LET escaped == FoldLeft(LAMBDA out, c :
        out \o CASE c \in {"q", "\\", "/"} -> <<"\\", c>> [] c = "newline" -> <<"\\", "n">>
                 [] c = "control" -> <<"\\", "u", "u19">> [] OTHER -> <<c>>,
        <<>>, s)
  IN <<"q">> \o escaped \o <<"q">>

(***************************************************************************)
(* Numbers.  A number is read where strtod takes the very characters the   *)
(* reader has passed over; a strict reader wants a digit on both sides of  *)
(* the point and no idle zero.                                             *)
(***************************************************************************)
RECURSIVE DigitsEnd(_, _), DigitsOf(_)
DigitsEnd(t, i) == IF At(t, i) \in DigitChars THEN DigitsEnd(t, i + 1) ELSE i

DigitsOf(n) == IF n < 10 THEN <<DigitOf[n]>> ELSE Append(DigitsOf(n \div 10), DigitOf[n % 10])
DigitsValue(s) == FoldLeft(LAMBDA n, c : 10 * n + CHOOSE d \in 0..9 : DigitOf[d] = c, 0, s)
WithSign(sign, n) == IF sign = "-" THEN -n ELSE n

\* The number of the digits, the zeros at their end in the exponent.
Number(sign, digits, e) ==
  LET last == Max({0} \cup {k \in DOMAIN digits : digits[k] # "0"})
  IN IF last = 0 THEN <<"number", 0, 0>>
     ELSE <<"number", WithSign(sign, DigitsValue(SubSeq(digits, 1, last))), e + Len(digits) - last>>

ParseNumber(t, i, strict) ==
  LET first  == IF At(t, i) = "-" THEN i + 1 ELSE i
      point  == DigitsEnd(t, first)
      fraction == IF At(t, point) = "." THEN point + 1 ELSE point
      tail   == DigitsEnd(t, fraction)
      sign   == At(t, tail + 1)
      power  == IF At(t, tail) \notin {"e", "E"} THEN tail
                ELSE IF sign \in {"+", "-"} THEN tail + 2 ELSE tail + 1
      end    == IF power = tail THEN tail ELSE DigitsEnd(t, power)
      digits == SubSeq(t, first, point - 1) \o SubSeq(t, fraction, tail - 1)
      exponent == WithSign(sign, DigitsValue(SubSeq(t, power, end - 1)))
  IN IF \/ digits = <<>>
        \/ power > tail /\ end = power
        \/ strict /\ (point = first \/ (fraction > point /\ tail = fraction))
        \/ strict /\ At(t, first) = "0" /\ point > first + 1
     THEN Error
     ELSE Ok(Number(At(t, i), digits, exponent - (tail - fraction)), end)

Magnitude(n) == IF n < 0 THEN -n ELSE n
Noughts(n) == [i \in 1..n |-> "0"]
Minus(m) == IF m < 0 THEN <<"-">> ELSE <<>>

\* The number with no more digits than the precision.
Rounded(v) ==
  LET excess == Len(DigitsOf(Magnitude(v[2]))) - Precision
      n      == (Magnitude(v[2]) + 10^excess \div 2) \div 10^excess
  IN IF excess <= 0 THEN v ELSE Number(IF v[2] < 0 THEN "-" ELSE "+", DigitsOf(n), v[3] + excess)

\* C's general format: an exponent where the number is small, or too great for the digits.
General(v, precision) ==
  LET d == DigitsOf(Magnitude(v[2]))
      n == Len(d)
      x == n + v[3] - 1
      exponent == (IF Magnitude(x) < 10 THEN <<"0">> ELSE <<>>) \o DigitsOf(Magnitude(x))
  IN Minus(v[2]) \o
     CASE x < -4 \/ x >= precision ->
            <<d[1]>> \o (IF n > 1 THEN <<".">> \o Tail(d) ELSE <<>>)
                    \o <<"e", IF x < 0 THEN "-" ELSE "+">> \o exponent
       [] v[3] >= 0 -> d \o Noughts(v[3])
       [] x >= 0    -> SubSeq(d, 1, x + 1) \o <<".">> \o SubSeq(d, x + 2, n)
       [] OTHER     -> <<"0", ".">> \o Noughts(-1 - x) \o d

SerializeNumber_Streamed(v) == General(Rounded(v), Precision)
\* A whole number goes through a 64-bit integer, any other through a stream.
SerializeNumber(v) ==
  IF v[3] >= 0 THEN Minus(v[2]) \o DigitsOf(Magnitude(v[2])) \o Noughts(v[3])
  ELSE General(Rounded(v), Precision)

\* The phone's JSONEncoder writes as many digits as the number has.
PhoneNumber(v) == General(v, 17)

(***************************************************************************)
(* Values.                                                                 *)
(***************************************************************************)
Literals == "t" :> <<"bool", TRUE>> @@ "f" :> <<"bool", FALSE>> @@ "n" :> Null

\* The first of two members of one name is kept.
Emplace(f, name, value) == IF name \in DOMAIN f THEN f ELSE f @@ (name :> value)

RECURSIVE ParseValue(_, _, _), Members(_, _, _, _), Elements(_, _, _, _)
ParseValue(t, from, strict) ==
  LET i == SkipWhitespace(t, from)
      c == At(t, i)
      inside == SkipWhitespace(t, i + 1)
  IN CASE c \in DOMAIN Literals -> Ok(Literals[c], i + 1)
       [] c = "q" -> ParseString(t, i, strict)
       [] c = "{" -> IF At(t, inside) = "}" THEN Ok(<<"object", <<>>>>, inside + 1)
                     ELSE Members(t, inside, <<>>, strict)
       [] c = "[" -> IF At(t, inside) = "]" THEN Ok(<<"array", <<>>>>, inside + 1)
                     ELSE Elements(t, inside, <<>>, strict)
       [] c \in DigitChars \cup {"-"} -> ParseNumber(t, i, strict)
       [] OTHER -> Error

Members(t, i, f, strict) ==
  LET name  == ParseString(t, SkipWhitespace(t, i), strict)
      colon == SkipWhitespace(t, name.next)
      value == ParseValue(t, colon + 1, strict)
      end   == SkipWhitespace(t, value.next)
      g     == Emplace(f, name.value[2], value.value)
  IN IF ~name.ok THEN Error
     ELSE IF At(t, colon) # ":" THEN Error
     ELSE IF ~value.ok THEN Error
     ELSE CASE At(t, end) = "}" -> Ok(<<"object", g>>, end + 1)
            [] At(t, end) = "," -> Members(t, end + 1, g, strict)
            [] OTHER -> Error

Elements(t, i, s, strict) ==
  LET value == ParseValue(t, i, strict)
      end   == SkipWhitespace(t, value.next)
  IN IF ~value.ok THEN Error
     ELSE CASE At(t, end) = "]" -> Ok(<<"array", Append(s, value.value)>>, end + 1)
            [] At(t, end) = "," -> Elements(t, end + 1, Append(s, value.value), strict)
            [] OTHER -> Error

\* The whole text is one value.
ParseBy(t, strict) ==
  LET r == ParseValue(t, 1, strict)
  IN IF r.ok /\ SkipWhitespace(t, r.next) = Len(t) + 1 THEN r ELSE Error
Parse(t) == ParseBy(t, FALSE)
PhoneParse(t) == ParseBy(t, TRUE)

(***************************************************************************)
(* The writers; a literal is one character here.                           *)
(***************************************************************************)
Commas(parts) == FlattenSeq([i \in DOMAIN parts |-> IF i = 1 THEN parts[i] ELSE <<",">> \o parts[i]])

RECURSIVE Write(_, _)
Write(v, phone) ==
  LET string(s) == IF phone THEN PhoneString(s) ELSE EscapeJsonString(s)
      member(k) == string(k) \o <<":">> \o Write(v[2][k], phone)
  IN CASE v[1] = "null"   -> <<"n">>
       [] v[1] = "bool"   -> IF v[2] THEN <<"t">> ELSE <<"f">>
       [] v[1] = "number" -> IF phone THEN PhoneNumber(v) ELSE SerializeNumber(v)
       [] v[1] = "string" -> string(v[2])
       [] v[1] = "array"  ->
            <<"[">> \o Commas([i \in DOMAIN v[2] |-> Write(v[2][i], phone)]) \o <<"]">>
       [] v[1] = "object" ->
            LET names == SetToSeq(DOMAIN v[2])
            IN <<"{">> \o Commas([i \in DOMAIN names |-> member(names[i])]) \o <<"}">>
Serialize(v) == Write(v, FALSE)

\* Whether the value is the same but for the last digit of a number that is not whole.
RECURSIVE Conveys(_, _), Parts(_)
Conveys(v, w) ==
  CASE v[1] # w[1] -> FALSE
    [] v[1] = "array"  ->
         Len(v[2]) = Len(w[2]) /\ \A i \in DOMAIN v[2] : Conveys(v[2][i], w[2][i])
    [] v[1] = "object" ->
         DOMAIN v[2] = DOMAIN w[2] /\ \A k \in DOMAIN v[2] : Conveys(v[2][k], w[2][k])
    [] v[1] = "number" /\ v[3] < 0 ->
         LET places == Len(DigitsOf(Magnitude(v[2]))) + v[3] - Precision
             low    == Min({v[3], w[3], places})
             at(u)  == u[2] * 10^(u[3] - low)
         IN 2 * Magnitude(at(v) - at(w)) <= (IF places > v[3] THEN 10^(places - low) ELSE 0)
    [] OTHER -> v = w

\* The values in v that hold no others, the names of members with them.
Parts(v) ==
  CASE v[1] = "array"  -> UNION {Parts(v[2][i]) : i \in DOMAIN v[2]}
    [] v[1] = "object" -> UNION {{<<"string", k>>} \cup Parts(v[2][k]) : k \in DOMAIN v[2]}
    [] OTHER -> {v}

\* A reader that refuses raw control characters takes the strings in it.
Plain(v) == \A s \in Parts(v) : s[1] = "string" => "control" \notin ToSet(s[2])

\* The whole numbers in it are 64-bit integers.
Fits(v) ==
  \A n \in Parts(v) : n[1] = "number" => Len(DigitsOf(Magnitude(n[2]))) + n[3] <= 18

\* What the phone writes the helper reads back.  What the helper writes the phone reads
\* back to the digits written, unless a string holds a control character, which the helper
\* leaves as it is (373): then the phone refuses all of it.
ReadsBack(v) ==
  /\ Parse(Write(v, TRUE)) = Ok(v, Len(Write(v, TRUE)) + 1)
  /\ LET heard == PhoneParse(Serialize(v))
     IN IF Plain(v) THEN heard.ok /\ Conveys(v, heard.value) ELSE ~heard.ok

\* Whatever text is accepted, its value is one that can be sent on.
AcceptsOnlyValues(t) ==
  LET r == Parse(t) IN r.ok /\ Fits(r.value) => ReadsBack(r.value)
=============================================================================
