------------------------------- MODULE Numbers -------------------------------
(***************************************************************************)
(* numeric.c: the texts of integers, and integers and decimal fractions    *)
(* out of texts.  An int has Width values and wraps, as the builds make    *)
(* it; a double is kept as a fraction, num over a power of ten.            *)
(***************************************************************************)
EXTENDS Integers, Sequences, SequencesExt

CONSTANTS
    Width,           \* 2^32
    Digits,          \* 0 .. 9, or some of them
    Longest,         \* LENG
    TextLength       \* bound on the texts handed to the parsers

VARIABLES text, parsed   \* a text; what the parsers made of it

vars == <<text, parsed>>

Minus == -1   \* the characters that are no digit, apart from the digits' values
Point == -2
Other == -3
Chars == {Minus, Point, Other} \cup Digits
Wrap(n) == ((n + (Width \div 2)) % Width) - (Width \div 2)
Ints == -(Width \div 2) .. (Width \div 2) - 1
Unread == [int |-> 0, intError |-> FALSE, num |-> 0, places |-> 0, doubleError |-> FALSE]

IsDigit(c) == c >= 0
Negative(t) == t # <<>> /\ t[1] = Minus

-----------------------------------------------------------------------------
(* numeric_int_to_string *)

Figures(n) ==
    LET of[k \in 0 .. n] == IF k < 10 THEN <<k>> ELSE Append(of[k \div 10], k % 10)
    IN  of[n]

(* The %d of sprintf. *)
IntToString(n) == IF n < 0 THEN <<Minus>> \o Figures(-n) ELSE Figures(n)

-----------------------------------------------------------------------------
(* The parsers *)

(* What the loops read: the text past its minus, at most LENG characters of it *)
(* with the minus, up to the first that stops them.                           *)
Body(t) == SubSeq(t, IF Negative(t) THEN 2 ELSE 1, IF Len(t) < Longest THEN Len(t) ELSE Longest)

Reach(t, Goes(_, _)) ==
    LET bad == {i \in DOMAIN t : ~Goes(t, i)}
    IN  IF bad = {} THEN Len(t) ELSE (CHOOSE i \in bad : \A k \in bad : i <= k) - 1

Value(t) == FoldLeft(LAMBDA n, c : Wrap(n * 10 + c), 0, t)
Signed(t, n) == IF Negative(t) THEN Wrap(-n) ELSE n

IsDigitAt(t, i) == IsDigit(t[i])

(* Bug seeded in ParseInt: the sign is not put back. *)
MParseInt(t) ==
    LET body == Body(t)  n == Reach(body, IsDigitAt)
    IN  [value |-> IF n < Len(body) THEN 0 ELSE Value(SubSeq(body, 1, n)), error |-> n < Len(body)]

(* numeric_parse_int *)
ParseInt(t) ==
    LET body == Body(t)  n == Reach(body, IsDigitAt)
    IN  [value |-> Signed(t, Value(SubSeq(body, 1, n))), error |-> n < Len(body)]

IsDigitOrFirstPoint(t, i) ==
    IsDigit(t[i]) \/ (t[i] = Point /\ \A k \in 1 .. i - 1 : t[k] # Point)

(* numeric_parse_double: the part before the point, and the part behind it over *)
(* a power of ten with one place for each character read, the wrong one counted. *)
ParseDouble(t) ==
    LET body  == Body(t)
        n     == Reach(body, IsDigitOrFirstPoint)
        read  == SubSeq(body, 1, n)
        point == Reach(read, IsDigitAt)
        whole == Value(SubSeq(read, 1, point))
        frac  == Value(SubSeq(read, point + 2, n))
        wrong == n < Len(body)
        mult  == IF point = n THEN 0 ELSE n - point - 1 + (IF wrong THEN 1 ELSE 0)
        num   == whole * 10 ^ mult + frac
    IN  [num |-> IF Negative(t) THEN -num ELSE num, places |-> mult, error |-> wrong]

-----------------------------------------------------------------------------
Init == text = <<>> /\ parsed = Unread

(* A number of the program's, or a text from outside. *)
Written(n) == text = <<>> /\ text' = IntToString(n) /\ UNCHANGED parsed
Receive(t) == text = <<>> /\ text' = t /\ UNCHANGED parsed

Parse ==
    /\ LET i == ParseInt(text)  d == ParseDouble(text)
       IN  parsed' = [int |-> i.value, intError |-> i.error,
                      num |-> d.num, places |-> d.places, doubleError |-> d.error]
    /\ UNCHANGED text

Texts == UNION {[1 .. n -> Chars] : n \in 0 .. TextLength}
Next ==
    \/ Parse
    \/ \E n \in Ints : Written(n)
    \/ \E t \in Texts : Receive(t)

Spec == Init /\ [][Next]_vars
-----------------------------------------------------------------------------
(* What must hold. *)

(* What numeric_int_to_string writes, numeric_parse_int reads back without error, *)
(* the least integer included, whose magnitude is no int.                         *)
RoundTrip ==
    \A n \in Ints : text = IntToString(n) /\ parsed # Unread =>
        parsed.int = n /\ ~parsed.intError

(* Bounded as an int holds it: the digits on each side of the point. *)
Fits(t) ==
    \A i, k \in DOMAIN t : (\A j \in i .. k : IsDigit(t[j])) =>
        FoldLeft(LAMBDA n, c : n * 10 + c, 0, SubSeq(t, i, k)) < Width \div 2

(* On a text both accept the parsers agree; the double's digits are the text's    *)
(* with its point put back at its place; the integer's error says that a          *)
(* character was no digit.                                                        *)
ParsersRight ==
    LET t == text  digits == SelectSeq(t, IsDigit)
    IN  parsed # Unread /\ Fits(t) /\ Len(t) <= Longest =>
        /\ parsed.intError = (\E i \in DOMAIN t : ~IsDigit(t[i]) /\ ~(i = 1 /\ t[i] = Minus))
        /\ ~parsed.intError => ~parsed.doubleError /\ parsed.num = parsed.int /\ parsed.places = 0
        /\ ~parsed.doubleError =>
              LET size == FoldLeft(LAMBDA n, c : n * 10 + c, 0, digits)
              IN  /\ parsed.num = IF Negative(t) THEN -size ELSE size
                  /\ \A i \in DOMAIN t : t[i] = Point => parsed.places = Len(t) - i
=============================================================================
