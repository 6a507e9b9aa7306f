------------------------------ MODULE TextStore ------------------------------
(***************************************************************************)
(* What string_handler.c promises of its strings, whatever their capacity  *)
(* and the memory: each is a text or is not there.                         *)
(***************************************************************************)
EXTENDS Integers, Sequences

CONSTANTS Names, Texts, Blank, NoText, Longest, Self

VARIABLE text

Init == text = [s \in Names |-> NoText]

There(s) == text[s] # NoText
Becomes(s, v) == text' = [text EXCEPT ![s] = v]

Create(s)  == ~There(s) /\ Becomes(s, <<>>)
Release(s) == There(s) /\ Becomes(s, NoText)

(* t put at a place of s; what lies between its end and the place is open. *)
Put(s, t, at) ==
    /\ There(s) /\ There(s)'
    /\ LET old == text[s]  new == text'[s]  end == at + Len(t)
       IN  /\ Len(new) = IF end > Len(old) THEN end ELSE Len(old)
           /\ \A i \in 1 .. Len(new) :
                 IF i \in at + 1 .. end THEN new[i] = t[i - at]
                 ELSE i <= Len(old) => new[i] = old[i]
    /\ \A d \in Names \ {s} : text'[d] = text[d]

Part(v, k, n) == SubSeq(v, k + 1, k + n)
Parts(v) == UNION {{Part(v, k, n) : n \in 0 .. Len(v) - k} : k \in 0 .. Len(v)}
Places == 0 .. Longest

(* A text of the caller, or a part of it; a part of another string. *)
Write(s) ==
    LET sources == Texts \cup {text[d] : d \in {e \in Names : There(e) /\ (e = s => Self)}}
    IN  \E t \in UNION {Parts(v) : v \in sources}, at \in Places : Put(s, t, at)

(* A new string with a part of another. *)
Take(s, d) == ~There(s) /\ There(d) /\ \E v \in Parts(text[d]) : Becomes(s, v)

(* The blanks at both ends go, and nothing else. *)
Trim(s) ==
    /\ There(s)
    /\ LET v == text[s]
       IN  \E k \in 0 .. Len(v) : \E n \in 0 .. Len(v) - k :
            /\ Becomes(s, Part(v, k, n))
            /\ \A i \in DOMAIN v \ (k + 1 .. k + n) : v[i] = Blank
            /\ n > 0 => v[k + 1] # Blank /\ v[k + n] # Blank

Next == \E s \in Names : \/ Create(s) \/ Release(s) \/ Trim(s)
                         \/ Write(s) \/ \E d \in Names : Take(s, d)

Spec == Init /\ [][Next]_text
=============================================================================
