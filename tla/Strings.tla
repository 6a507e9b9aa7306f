------------------------------- MODULE Strings -------------------------------
(***************************************************************************)
(* string_handler.c: StringX, a text with its capacity in a block of the   *)
(* memory pool, and the calls on it.  One thread works; any allocation may *)
(* fail.  Content[i] is cells[i + 1]; a cell nobody wrote holds Junk.      *)
(***************************************************************************)
EXTENDS Integers, Sequences, SequencesExt, FiniteSetsExt

CONSTANTS
    Names,           \* the StringX of the program
    Texts,           \* the C strings callers pass, without their NUL
    Blank, NUL, Junk,
    Initial,         \* INITIAL_STRING_LENGTH
    Longest,         \* bound on the length of a string
    Self,            \* whether a string may be appended to itself
    Calls            \* bound on the calls

VARIABLES
    str,       \* StringX: Active, Max, Length, and the block of Content (<<>>: NULL)
    parts,     \* what the last split returned: [of, by, kept, segments]
    calls

vars == <<str, parts, calls>>

Dead == [active |-> FALSE, max |-> 0, length |-> 0, cells |-> <<>>]
NoParts == [of |-> <<>>, by |-> <<>>, kept |-> FALSE, segments |-> <<>>]
Has(s) == str[s].cells # <<>>
Text(m) == SubSeq(m.cells, 1, m.length)
Value(s) == Text(str[s])

Init ==
    /\ str = [s \in Names |-> Dead]
    /\ parts = NoParts /\ calls = 0

Call == calls < Calls /\ calls' = calls + 1
Done == parts' = NoParts   \* the program is through with what a split gave it

-----------------------------------------------------------------------------
(* Life *)

Blocked(max, text) ==
    [active |-> TRUE, max |-> max, length |-> Len(text),
     cells |-> text \o <<NUL>> \o [i \in 1 .. max - Len(text) |-> Junk]]

StringInit(s) ==
    /\ Call /\ ~Has(s)
    /\ \E m \in {Blocked(Initial, <<>>), Dead} : str' = [str EXCEPT ![s] = m]
    /\ Done

StringRelease(s) ==
    /\ Call /\ Has(s)
    /\ str' = [str EXCEPT ![s] = Dead]
    /\ Done

-----------------------------------------------------------------------------
(* Growth *)

(* Bug seeded in NewMax: what is required is taken for what is there. *)
MNewMaxExact(m, required) == required - 1

(* Doubled until it is enough, from the first size when there is none. *)
NewMax(m, required) ==
    Min({n \in {(IF m.max = 0 THEN Initial ELSE m.max) * 2 ^ k : k \in 0 .. required} :
            n >= required})

(* sh_ensure_capacity: the same block or a new one with the old contents. *)
Ensured(m, required) ==
    IF required <= m.max THEN m
    ELSE [m EXCEPT !.max = NewMax(m, required),
                   !.cells = @ \o [i \in 1 .. NewMax(m, required) - m.max |-> Junk]]

Moves(m, required) == required > m.max

-----------------------------------------------------------------------------
(* Writing *)

Biggest(a, b) == IF a > b THEN a ELSE b

(* Bug seeded in Written: the NUL is left where the text was written over. *)
MWrittenNoNul(m, text, at) ==
    [m EXCEPT !.length = Biggest(@, at + Len(text)),
              !.cells = [i \in DOMAIN @ |-> IF i \in at + 1 .. at + Len(text) THEN text[i - at]
                                            ELSE @[i]]]

(* text at Content[at..], the length when it passes the end, the NUL. *)
Written(m, text, at) ==
    LET end == Biggest(m.length, at + Len(text))
    IN  [m EXCEPT !.length = end,
                  !.cells = [i \in DOMAIN @ |->
                      CASE i = end + 1 -> NUL
                        [] i \in at + 1 .. at + Len(text) -> text[i - at]
                        [] OTHER -> @[i]]]

(* string_copy, its conditions met; it may find no memory. *)
CopyIn(s, text, at) ==
    \/ /\ at + Len(text) <= Longest
       /\ str' = [str EXCEPT ![s] = Written(Ensured(@, at + Len(text)), text, at)]
    \/ Moves(str[s], at + Len(text)) /\ UNCHANGED str

(* string_copy, from a C string. *)
StringCopy(s, text, k, n, at) ==
    /\ Call /\ Has(s)
    /\ n > 0 /\ k + n <= Len(text)
    /\ CopyIn(s, SubSeq(text, k + 1, k + n), at)
    /\ Done

(* Bug seeded in StringCopys: the source is read in the target's block. *)
MStringCopysOwn(s, d, k, n, at) ==
    /\ Call /\ Has(s) /\ Has(d) /\ s # d
    /\ n > 0 /\ k + n <= str[s].length
    /\ CopyIn(d, [i \in 1 .. n |-> IF k + i \in DOMAIN str[d].cells THEN str[d].cells[k + i] ELSE Junk], at)
    /\ Done

(* string_copys.  A string copied into itself is read in the block it had       *)
(* before, which is freed when the text moves.                                  *)
StringCopys(s, d, k, n, at) ==
    /\ Call /\ Has(s) /\ Has(d) /\ (s = d => Self /\ k >= at)
    /\ n > 0 /\ k + n <= str[s].length
    /\ CopyIn(d, IF s = d /\ Moves(str[d], at + n) THEN [i \in 1 .. n |-> Junk]
                 ELSE SubSeq(Value(s), k + 1, k + n), at)
    /\ Done

(* string_appends *)
StringAppends(s, text, k, n) == StringCopy(s, text, k, n, str[s].length)

(* string_append *)
StringAppend(s, d, k, n) == StringCopys(s, d, k, n, str[d].length)

(* string_append_formatv, for what the format comes to; it may be nothing. *)
AppendFormat(s, text) ==
    /\ Call /\ Has(s)
    /\ CopyIn(s, text, str[s].length)
    /\ Done

-----------------------------------------------------------------------------
(* Looking *)

Matches(v, i, token) == i + Len(token) <= Len(v) /\ SubSeq(v, i + 1, i + Len(token)) = token

(* Bug seeded in IndexOf: the last place is not tried. *)
MIndexOfShort(v, token, from, length) ==
    LET end == Min({from + length, Len(v)})
        look[i \in from .. from + Len(v) + 1] ==
            IF i + Len(token) >= end THEN -1
            ELSE IF Matches(v, i, token) THEN i ELSE look[i + 1]
    IN  IF token = <<>> THEN -1 ELSE look[from]

(* string_indexofs: from the left, in a range cut at the end of the text. *)
IndexOf(v, token, from, length) ==
    LET end == Min({from + length, Len(v)})
        look[i \in from .. from + Len(v) + 1] ==
            IF i + Len(token) > end THEN -1
            ELSE IF Matches(v, i, token) THEN i ELSE look[i + 1]
    IN  IF token = <<>> THEN -1 ELSE look[from]

(* string_indexof, for one character. *)
IndexOfChar(v, c, from, length) ==
    LET at == {i \in from + 1 .. Min({from + length, Len(v)}) : v[i] = c}
    IN  IF at = {} THEN -1 ELSE Min(at) - 1

(* string_index_ends: from the right. *)
IndexEnd(v, token) ==
    LET look[i \in -1 .. Len(v)] ==
            IF i = -1 THEN -1 ELSE IF Matches(v, i, token) THEN i ELSE look[i - 1]
    IN  IF token = <<>> \/ Len(token) > Len(v) THEN -1 ELSE look[Len(v) - Len(token)]

(* string_index_end, for one character. *)
IndexEndChar(v, c) == Max({0} \cup {i \in DOMAIN v : v[i] = c}) - 1

(* string_stop_rigth_tokens and string_stop_left_tokens: the best of each token's. *)
StopRight(v, tokens) ==
    FoldSeq(LAMBDA t, best : LET i == IndexOf(v, t, 0, Len(v))
                             IN  IF i >= 0 /\ (best < 0 \/ i < best) THEN i ELSE best, -1, tokens)
StopLeft(v, tokens) ==
    FoldSeq(LAMBDA t, best : Biggest(IndexEnd(v, t), best), -1, tokens)

(* string_equal_part *)
EqualPart(v, from, t) ==
    from + Len(t) <= Len(v) /\ \A i \in 1 .. Len(t) : v[from + i] = t[i]

(* string_equal, string_equals *)
Equal(v, t) == Len(v) = Len(t) /\ \A i \in DOMAIN v : v[i] = t[i]

-----------------------------------------------------------------------------
(* Cutting *)

(* string_substring: a string of its own, as large as it is long. *)
Substring(s, d, from, n) ==
    /\ Call /\ Has(s) /\ d # s /\ ~Has(d)
    /\ from + n <= str[s].length
    /\ \E m \in {Blocked(n, SubSeq(Value(s), from + 1, from + n)), Dead} :
          str' = [str EXCEPT ![d] = m]
    /\ Done

(* string_trim_right, then string_trim_left, which moves the rest down. *)
Trimmed(m) ==
    LET v == Text(m)
        r == Max({0} \cup {i \in DOMAIN v : v[i] # Blank})
        l == Min({r + 1} \cup {i \in 1 .. r : v[i] # Blank}) - 1
    IN  [m EXCEPT !.length = r - l,
                  !.cells = [i \in DOMAIN @ |->
                      CASE i <= r - l -> @[i + l] [] i = r - l + 1 -> NUL
                        [] i = r + 1 -> NUL [] OTHER -> @[i]]]

StringTrim(s) ==
    /\ Call /\ Has(s)
    /\ str' = [str EXCEPT ![s] = Trimmed(@)]
    /\ Done

(* string_splits looks from the end of the token it found last on. *)
CutPoints(v, token) ==
    {i \in 0 .. Len(v) :
        LET cut[j \in -1 .. Len(v)] ==
                j >= 0 /\ Matches(v, j, token)
                       /\ \A k \in j - Len(token) + 1 .. j - 1 : k >= 0 => ~cut[k]
        IN  cut[i]}

Segments(v, token) ==
    LET cuts == SetToSortSeq(CutPoints(v, token), <)
        from(i) == IF i = 1 THEN 0 ELSE cuts[i - 1] + Len(token)
        to(i)   == IF i > Len(cuts) THEN Len(v) ELSE cuts[i]
    IN  [i \in 1 .. Len(cuts) + 1 |-> SubSeq(v, from(i) + 1, to(i))]

(* string_split for a token of one character, string_splits for any: a list of   *)
(* new strings, in which one that found no memory is missing.                    *)
Split(s, token) ==
    /\ Call /\ Has(s) /\ token # <<>>
    /\ LET all == Segments(Value(s), token)
       IN  \E lost \in {0} \cup DOMAIN all :
              parts' = [of |-> Value(s), by |-> token, kept |-> lost = 0,
                        segments |-> IF lost = 0 THEN all ELSE RemoveAt(all, lost)]
    /\ UNCHANGED str

-----------------------------------------------------------------------------
Places == 0 .. Longest

Next ==
    \E s \in Names :
        \/ StringInit(s) \/ StringRelease(s) \/ StringTrim(s)
        \/ \E t \in Texts :
               \/ AppendFormat(s, t) \/ Split(s, t)
               \/ \E k, n \in Places : StringAppends(s, t, k, n)
               \/ \E k, n, at \in Places : StringCopy(s, t, k, n, at)
        \/ \E d \in Names, k, n \in Places :
               \/ StringAppend(s, d, k, n) \/ Substring(s, d, k, n)
               \/ \E at \in Places : StringCopys(s, d, k, n, at)

Spec == Init /\ [][Next]_vars
-----------------------------------------------------------------------------
(* What must hold. *)

(* A string in use has a block of Max + 1 characters, of which Length are its    *)
(* text, and a NUL behind them for who reads Content as a C string.              *)
StringSound ==
    \A s \in Names : Has(s) =>
        /\ Len(str[s].cells) = str[s].max + 1 /\ str[s].length <= str[s].max
        /\ str[s].cells[str[s].length + 1] = NUL

(* Seen from outside, the capacity is not there: a string is a text that grows as *)
(* it must, and each call changes it as it says, or not at all.                   *)
NoText == <<"none">>
Seen == [s \in Names |-> IF Has(s) THEN Value(s) ELSE NoText]
Store == INSTANCE TextStore WITH text <- Seen
ImplementsTexts == Store!Spec

Join(segments, token) ==
    FoldLeft(LAMBDA v, t : v \o token \o t, Head(segments), Tail(segments))

(* The segments of a split, put together again, are the text ("Segmentos vazios   *)
(* sao preservados", string_handler.c:595); none contains the token, and the      *)
(* first ends where string_indexofs finds it.                                     *)
SplitJoins ==
    parts.kept =>
        /\ Join(parts.segments, parts.by) = parts.of
        /\ \A i \in DOMAIN parts.segments :
              IndexOf(parts.segments[i], parts.by, 0, Len(parts.of)) = -1
        /\ LET i == IndexOf(parts.of, parts.by, 0, Len(parts.of))
           IN  Len(parts.segments[1]) = IF i = -1 THEN Len(parts.of) ELSE i

Best(places, Of(_)) == IF places = {} THEN -1 ELSE Of(places)

(* The searches find the first and the last place of a token within the range,    *)
(* and of several tokens, as the comparison of a part says; one character is      *)
(* looked for as the token it makes; two texts are equal when each is a part of   *)
(* the other.                                                                     *)
SearchesRight ==
    \A s \in Names : LET v == Value(s) IN
        /\ \A t \in Texts, from, n \in Places : Len(t) = 1 =>
              /\ IndexOfChar(v, t[1], from, n) = IndexOf(v, t, from, n)
              /\ IndexEndChar(v, t[1]) = IndexEnd(v, t)
        /\ \A t \in Texts \cup {Value(d) : d \in Names} :
              Equal(v, t) <=> EqualPart(v, 0, t) /\ EqualPart(t, 0, v)
        /\ \A t \in Texts \ {<<>>}, from, n \in Places :
              IndexOf(v, t, from, n)
                = Best({i \in from .. from + n - Len(t) : EqualPart(v, i, t)}, Min)
        /\ \A t, u \in Texts \ {<<>>} :
              LET at == {i \in Places : EqualPart(v, i, t) \/ EqualPart(v, i, u)}
              IN  StopRight(v, <<t, u>>) = Best(at, Min) /\ StopLeft(v, <<t, u>>) = Best(at, Max)
=============================================================================
