----------------------------- MODULE MemSpansProofs -----------------------------
(***************************************************************************)
(* Proofs about MemSpans, for any number of threads, heaps, chunks and     *)
(* size classes: every block is in one place, the owner's counts are       *)
(* exact, the lists say what the spans' state says, and a span is asked    *)
(* for only when none has a block to give.                                 *)
(***************************************************************************)
EXTENDS MemSpans, FiniteSetTheorems, SequenceTheorems, TLAPS

(* The constants. *)
LEMMA Constants ==
    /\ NoHeap \notin Heaps /\ NoSpan \notin Chunks /\ Large \notin Classes
    /\ \A c \in Classes : Count[c] \in Nat /\ Count[c] >= 2
    /\ ScanMax \in Nat /\ IsFiniteSet(Threads)
  BY SpanAssumption

-----------------------------------------------------------------------------
(* Lists. *)

(* What is in a sequence. *)
LEMMA InSeq ==
    ASSUME NEW S, NEW seq \in Seq(S)
    PROVE  /\ ToSet(seq) \subseteq S /\ Len(seq) \in Nat /\ DOMAIN seq = 1 .. Len(seq)
           /\ \A x : x \in ToSet(seq) <=> \E i \in 1 .. Len(seq) : seq[i] = x
           /\ (seq = <<>>) <=> (ToSet(seq) = {})
  BY DEF ToSet

(* A span put first in a list that does not have it ... *)
LEMMA Linked ==
    ASSUME NEW S, NEW seq \in Seq(S), IsInjective(seq), NEW s \in S, s \notin ToSet(seq)
    PROVE  /\ <<s>> \o seq \in Seq(S) /\ IsInjective(<<s>> \o seq)
           /\ ToSet(<<s>> \o seq) = ToSet(seq) \cup {s}
           /\ <<s>> \o seq # <<>> /\ Head(<<s>> \o seq) = s
  <1> DEFINE n == Len(seq)
             a == <<s>> \o seq
  <1>1. n \in Nat /\ \A i \in 1 .. n : seq[i] \in S
    OBVIOUS
  <1>2. a \in Seq(S) /\ Len(a) = n + 1 /\ a[1] = s /\ \A i \in 1 .. n : a[i + 1] = seq[i]
    OBVIOUS
  <1>3. \A i \in 1 .. n + 1 : (i = 1 /\ a[i] = s) \/ (i - 1 \in 1 .. n /\ a[i] = seq[i - 1])
    BY <1>1, <1>2
  <1>4. \A i, j \in 1 .. n : seq[i] = seq[j] => i = j
    BY DEF IsInjective
  <1>5. \A i \in 1 .. n : seq[i] # s
    BY InSeq
  <1> HIDE DEF a
  <1>6. IsInjective(a)
    <2>1. DOMAIN a = 1 .. n + 1
      BY <1>2
    <2>2. ASSUME NEW i \in 1 .. n + 1, NEW j \in 1 .. n + 1, a[i] = a[j] PROVE i = j
      <3>1. (i = 1 /\ a[i] = s) \/ (i - 1 \in 1 .. n /\ a[i] = seq[i - 1])
        BY <1>3
      <3>2. (j = 1 /\ a[j] = s) \/ (j - 1 \in 1 .. n /\ a[j] = seq[j - 1])
        BY <1>3
      <3>3. CASE i = 1 \/ j = 1
        BY <1>5, <2>2, <3>1, <3>2, <3>3
      <3>4. CASE i - 1 \in 1 .. n /\ j - 1 \in 1 .. n
        <4>1. i - 1 = j - 1
          BY <1>4, <2>2, <3>1, <3>2, <3>4
        <4> QED
          BY <1>1, <4>1
      <3> QED
        BY <3>1, <3>2, <3>3, <3>4
    <2> QED
      BY <2>1, <2>2 DEF IsInjective
  <1>7. ASSUME NEW x PROVE (x \in ToSet(a)) <=> (x \in ToSet(seq) \/ x = s)
    <2>1. (x \in ToSet(a)) <=> \E i \in 1 .. n + 1 : a[i] = x
      BY <1>2, InSeq
    <2>2. (x \in ToSet(seq)) <=> \E i \in 1 .. n : seq[i] = x
      BY InSeq
    <2>3. ASSUME NEW i \in 1 .. n, seq[i] = x PROVE \E j \in 1 .. n + 1 : a[j] = x
      BY <1>1, <1>2, <2>3
    <2>4. ASSUME x = s PROVE \E j \in 1 .. n + 1 : a[j] = x
      BY <1>1, <1>2, <2>4
    <2>5. ASSUME NEW i \in 1 .. n + 1, a[i] = x PROVE x = s \/ \E j \in 1 .. n : seq[j] = x
      BY <1>3, <2>5
    <2> QED
      BY <2>1, <2>2, <2>3, <2>4, <2>5
  <1>8. a # <<>> /\ Head(a) = s
    BY <1>1, <1>2
  <1> QED
    BY <1>2, <1>6, <1>7, <1>8 DEF a

(* ... and one put last. *)
LEMMA Appended ==
    ASSUME NEW S, NEW seq \in Seq(S), IsInjective(seq), NEW s \in S, s \notin ToSet(seq)
    PROVE  /\ Append(seq, s) \in Seq(S) /\ IsInjective(Append(seq, s))
           /\ \A x : x \in ToSet(Append(seq, s)) <=> (x \in ToSet(seq) \/ x = s)
  <1> DEFINE n == Len(seq)
             z == Append(seq, s)
  <1>1. n \in Nat /\ \A i \in 1 .. n : seq[i] \in S
    OBVIOUS
  <1>2. z \in Seq(S) /\ Len(z) = n + 1 /\ z[n + 1] = s /\ \A i \in 1 .. n : z[i] = seq[i]
    OBVIOUS
  <1>3. \A i \in 1 .. n + 1 : (i = n + 1 /\ z[i] = s) \/ (i \in 1 .. n /\ z[i] = seq[i])
    BY <1>1, <1>2
  <1>4. \A i, j \in 1 .. n : seq[i] = seq[j] => i = j
    BY DEF IsInjective
  <1>5. \A i \in 1 .. n : seq[i] # s
    BY InSeq
  <1>6. IsInjective(z)
    <2>1. DOMAIN z = 1 .. n + 1
      BY <1>2
    <2>2. ASSUME NEW i \in 1 .. n + 1, NEW j \in 1 .. n + 1, z[i] = z[j] PROVE i = j
      BY <1>1, <1>3, <1>4, <1>5, <2>2
    <2> QED
      BY <2>1, <2>2 DEF IsInjective
  <1>7. ASSUME NEW x PROVE (x \in ToSet(z)) <=> (x \in ToSet(seq) \/ x = s)
    <2>1. (x \in ToSet(z)) <=> \E i \in 1 .. n + 1 : z[i] = x
      BY <1>2, InSeq
    <2>2. (x \in ToSet(seq)) <=> \E i \in 1 .. n : seq[i] = x
      BY InSeq
    <2> QED
      BY <1>1, <1>2, <1>3, <2>1, <2>2
  <1> QED
    BY <1>2, <1>6, <1>7

(* A span taken out of a list. *)
LEMMA UnlinkedOne ==
    ASSUME NEW S, NEW seq \in Seq(S), IsInjective(seq), NEW s
    PROVE  /\ Unlinked(seq, s) \in Seq(S) /\ IsInjective(Unlinked(seq, s))
           /\ ToSet(Unlinked(seq, s)) = ToSet(seq) \ {s}
  <1>1. CASE s \notin ToSet(seq)
    BY <1>1 DEF Unlinked
  <1>2. CASE s \in ToSet(seq)
    <2> DEFINE n == Len(seq)
               k0 == CHOOSE i \in DOMAIN seq : seq[i] = s
               a == SubSeq(seq, 1, k0 - 1)
               z == SubSeq(seq, k0 + 1, n)
    <2>1. k0 \in 1 .. n /\ seq[k0] = s /\ n \in Nat
      BY <1>2, InSeq
    <2> HIDE DEF k0
    <2>2. /\ a \in Seq(S) /\ Len(a) = k0 - 1 /\ \A i \in 1 .. k0 - 1 : a[i] = seq[i]
          /\ z \in Seq(S) /\ Len(z) = n - k0 /\ \A i \in 1 .. n - k0 : z[i] = seq[i + k0]
      BY <2>1
    <2> HIDE DEF a, z
    <2> DEFINE u == a \o z
    <2>3. /\ u \in Seq(S) /\ Len(u) = n - 1 /\ \A i \in 1 .. k0 - 1 : u[i] = a[i]
          /\ \A i \in k0 .. n - 1 : u[i] = z[i - (k0 - 1)]
      BY <2>1, <2>2
    <2>4. \A i \in 1 .. n - 1 : \/ i < k0 /\ u[i] = seq[i]
                                \/ i >= k0 /\ i + 1 \in 1 .. n /\ u[i] = seq[i + 1]
      BY <2>1, <2>2, <2>3
    <2>5. \A i, j \in 1 .. n : seq[i] = seq[j] => i = j
      BY DEF IsInjective
    <2>6. Unlinked(seq, s) = u
      BY <1>2 DEF Unlinked, RemoveAt, k0, a, z
    <2> HIDE DEF u
    <2>7. IsInjective(u)
      <3>1. DOMAIN u = 1 .. n - 1
        BY <2>1, <2>3
      <3>2. ASSUME NEW i \in 1 .. n - 1, NEW j \in 1 .. n - 1, u[i] = u[j] PROVE i = j
        BY <2>1, <2>4, <2>5, <3>2
      <3> QED
        BY <3>1, <3>2 DEF IsInjective
    <2>8. ASSUME NEW x PROVE (x \in ToSet(u)) <=> (x \in ToSet(seq) /\ x # s)
      <3>1. (x \in ToSet(u)) <=> \E i \in 1 .. n - 1 : u[i] = x
        BY <2>3, InSeq
      <3>2. (x \in ToSet(seq)) <=> \E i \in 1 .. n : seq[i] = x
        BY InSeq
      <3>3. ASSUME NEW i \in 1 .. n - 1, u[i] = x PROVE (\E j \in 1 .. n : seq[j] = x) /\ x # s
        BY <2>1, <2>4, <2>5, <3>3
      <3>4. ASSUME NEW i \in 1 .. n, seq[i] = x, x # s PROVE \E j \in 1 .. n - 1 : u[j] = x
        <4>1. CASE i < k0
          BY <2>1, <2>4, <3>4, <4>1
        <4>2. CASE i > k0
          <5>1. i - 1 \in 1 .. n - 1 /\ ~(i - 1 < k0) /\ (i - 1) + 1 = i
            BY <2>1, <4>2
          <5> QED
            BY <2>4, <3>4, <5>1
        <4>3. i # k0
          BY <2>1, <3>4
        <4> QED
          BY <2>1, <4>1, <4>2, <4>3
      <3> QED
        BY <3>1, <3>2, <3>3, <3>4
    <2> QED
      BY <2>3, <2>6, <2>7, <2>8
  <1> QED
    BY <1>1, <1>2

(* The head of a list moved to its end, as when a full span is passed over. *)
LEMMA Rotated ==
    ASSUME NEW S, NEW seq \in Seq(S), IsInjective(seq), seq # <<>>
    PROVE  /\ Append(Tail(seq), Head(seq)) \in Seq(S) /\ IsInjective(Append(Tail(seq), Head(seq)))
           /\ ToSet(Append(Tail(seq), Head(seq))) = ToSet(seq)
           /\ Head(seq) \in ToSet(seq)
  <1> DEFINE n == Len(seq)
             u == Append(Tail(seq), Head(seq))
  <1>1. n \in Nat /\ n > 0 /\ \A i \in 1 .. n : seq[i] \in S
    OBVIOUS
  <1>2. u \in Seq(S) /\ Len(u) = n /\ u[n] = seq[1] /\ \A i \in 1 .. n - 1 : u[i] = seq[i + 1]
    BY <1>1
  <1>3. \A i, j \in 1 .. n : seq[i] = seq[j] => i = j
    BY DEF IsInjective
  <1>4. Head(seq) = seq[1]
    OBVIOUS
  <1> HIDE DEF u
  <1>5. \A i \in 1 .. n : (i = n /\ u[i] = seq[1]) \/ (i < n /\ i + 1 \in 1 .. n /\ u[i] = seq[i + 1])
    BY <1>1, <1>2
  <1>6. IsInjective(u)
    <2>1. DOMAIN u = 1 .. n
      BY <1>2
    <2>2. ASSUME NEW i \in 1 .. n, NEW j \in 1 .. n, u[i] = u[j] PROVE i = j
      BY <1>1, <1>3, <1>5, <2>2
    <2> QED
      BY <2>1, <2>2 DEF IsInjective
  <1>7. ASSUME NEW x PROVE (x \in ToSet(u)) <=> (x \in ToSet(seq))
    <2>1. (x \in ToSet(u)) <=> \E i \in 1 .. n : u[i] = x
      BY <1>2, InSeq
    <2>2. (x \in ToSet(seq)) <=> \E i \in 1 .. n : seq[i] = x
      BY InSeq
    <2>3. ASSUME NEW i \in 1 .. n, u[i] = x PROVE \E j \in 1 .. n : seq[j] = x
      BY <1>1, <1>5, <2>3
    <2>4. ASSUME NEW i \in 1 .. n, seq[i] = x PROVE \E j \in 1 .. n : u[j] = x
      <3>1. CASE i = 1
        BY <1>1, <1>2, <2>4, <3>1
      <3>2. CASE i # 1
        <4>1. i - 1 \in 1 .. n - 1 /\ (i - 1) + 1 = i
          BY <1>1, <3>2
        <4>2. u[i - 1] = seq[(i - 1) + 1]
          BY <1>2, <4>1
        <4> QED
          BY <1>1, <2>4, <4>1, <4>2
      <3> QED
        BY <3>1, <3>2
    <2> QED
      BY <2>1, <2>2, <2>3, <2>4
  <1>8. Head(seq) \in ToSet(seq)
    BY <1>1, <1>4, InSeq
  <1> QED
    BY <1>2, <1>6, <1>7, <1>8 DEF u

(* The head is taken out of a list: what comes next is the head then. *)
LEMMA UnlinkedHead ==
    ASSUME NEW S, NEW seq \in Seq(S), IsInjective(seq), seq # <<>>, NoSpan \notin S
    PROVE  /\ Unlinked(seq, Head(seq)) = Tail(seq)
           /\ After(seq, Head(seq)) = First(Tail(seq))
  <1> DEFINE n == Len(seq)
             k0 == CHOOSE i \in DOMAIN seq : seq[i] = Head(seq)
  <1>1. n \in Nat /\ n > 0 /\ Head(seq) = seq[1] /\ DOMAIN seq = 1 .. n
    OBVIOUS
  <1>2. \A i, j \in 1 .. n : seq[i] = seq[j] => i = j
    BY DEF IsInjective
  <1>3. k0 = 1
    <2>1. 1 \in DOMAIN seq /\ seq[1] = Head(seq)
      BY <1>1
    <2>2. k0 \in DOMAIN seq /\ seq[k0] = Head(seq)
      BY <2>1
    <2> QED
      BY <1>1, <1>2, <2>2
  <1>4. Head(seq) \in ToSet(seq)
    BY Rotated
  <1>5. Unlinked(seq, Head(seq)) = SubSeq(seq, 1, k0 - 1) \o SubSeq(seq, k0 + 1, n)
    BY <1>4 DEF Unlinked, RemoveAt
  <1>6. After(seq, Head(seq)) = IF k0 < n THEN seq[k0 + 1] ELSE NoSpan
    BY DEF After
  <1> HIDE DEF k0
  <1>7. SubSeq(seq, 1, 1 - 1) \o SubSeq(seq, 1 + 1, n) = Tail(seq)
    BY <1>1
  <1>8. ASSUME NEW u, u = Tail(seq) PROVE (IF 1 < n THEN seq[1 + 1] ELSE NoSpan) = First(u)
    <2>1. u \in Seq(S) /\ Len(u) = n - 1 /\ \A i \in 1 .. n - 1 : u[i] = seq[i + 1]
      BY <1>1, <1>8
    <2> HIDE <1>8
    <2>2. CASE n = 1
      BY <2>1, <2>2, EmptySeq DEF First
    <2>3. CASE n > 1
      <3>1. u # <<>> /\ Head(u) = u[1] /\ u[1] = seq[2]
        BY <1>1, <2>1, <2>3
      <3> QED
        BY <2>3, <3>1 DEF First
    <2> QED
      BY <1>1, <2>2, <2>3
  <1> QED
    BY <1>3, <1>5, <1>6, <1>7, <1>8
-----------------------------------------------------------------------------
(* Blocks of one span: its header m, the indices H that the program holds,   *)
(* and the threads P about to push block b[t] on its remote list.            *)

Pushed(P, b) == {b[t] : t \in P}

Sound(m, H, P, b) ==
    /\ H \cup m.free \cup ToSet(m.remote) \cup Pushed(P, b) = 1 .. m.bump
    /\ m.bump <= Count[m.class]
    /\ H \cap m.free = {} /\ ToSet(m.remote) \cap Pushed(P, b) = {}
    /\ (H \cup m.free) \cap (ToSet(m.remote) \cup Pushed(P, b)) = {}
    /\ IsInjective(m.remote)
    /\ \A t, u \in P : b[t] = b[u] => t = u
    /\ m.used = Cardinality(H) + Len(m.remote) + Cardinality(P)

(* The sets of a sound span are finite. *)
LEMMA SoundFinite ==
    ASSUME NEW m \in Header, NEW H, NEW P \in SUBSET Threads, NEW b, Sound(m, H, P, b)
    PROVE  /\ IsFiniteSet(H) /\ IsFiniteSet(P) /\ Cardinality(H) \in Nat /\ Cardinality(P) \in Nat
           /\ H \subseteq Nat /\ m.free \subseteq Nat /\ m.bump \in Nat /\ m.used \in Nat
           /\ m.remote \in Seq(Nat) /\ Len(m.remote) \in Nat
  <1>1. m.bump \in Nat /\ m.free \subseteq Nat /\ m.used \in Nat /\ m.remote \in Seq(Nat)
    BY DEF Header
  <1>2. IsFiniteSet(1 .. m.bump)
    <2>1. 1 \in Int /\ m.bump \in Int
      BY <1>1
    <2> QED
      BY <2>1, FS_Interval
  <1>3. H \subseteq 1 .. m.bump
    BY Zenon DEF Sound
  <1>4. IsFiniteSet(H) /\ IsFiniteSet(P)
    BY <1>2, <1>3, Constants, FS_Subset
  <1>5. Cardinality(H) \in Nat /\ Cardinality(P) \in Nat
    BY <1>4, FS_CardinalityType
  <1>6. H \subseteq Nat /\ Len(m.remote) \in Nat
    BY <1>1, <1>3
  <1> QED
    BY <1>1, <1>4, <1>5, <1>6

(* One more held; and one more in the remote list than before the push. *)
LEMMA OneMore ==
    ASSUME NEW x \in Nat, NEW y \in Nat, NEW z \in Nat, NEW n, NEW u
    PROVE  /\ n = x + y + z /\ u = x + 1 => n + 1 = u + y + z
           /\ n = x + y + z /\ u = z - 1 => n = x + (y + 1) + u
  OBVIOUS

(* What a header's fields are after an allocation. *)
LEMMA GiveFields ==
    ASSUME NEW m \in Header, NEW i \in Nat
    PROVE  /\ Give(m, i).owner = m.owner /\ Give(m, i).class = m.class /\ Give(m, i).full = m.full
           /\ Give(m, i).remote = m.remote /\ Give(m, i).free = m.free \ {i}
           /\ Give(m, i).used = m.used + 1 /\ Give(m, i).bump = (IF i > m.bump THEN i ELSE m.bump)
           /\ Give(m, i) \in Header
  <1>1. /\ Give(m, i).owner = m.owner /\ Give(m, i).class = m.class /\ Give(m, i).full = m.full
        /\ Give(m, i).remote = m.remote /\ Give(m, i).free = m.free \ {i}
        /\ Give(m, i).used = m.used + 1 /\ Give(m, i).bump = (IF i > m.bump THEN i ELSE m.bump)
    BY DEF Header, Give
  <1>2. m.free \ {i} \in SUBSET Nat /\ m.used + 1 \in Nat /\ (IF i > m.bump THEN i ELSE m.bump) \in Nat
    BY DEF Header
  <1>3. Give(m, i) \in Header
    BY <1>2 DEF Header, Give
  <1> QED
    BY <1>1, <1>3

(* A block is given: it was free, or is the next. *)
LEMMA SoundGive ==
    ASSUME NEW m \in Header, NEW H, NEW P \in SUBSET Threads, NEW b, Sound(m, H, P, b),
           m.class \in Classes, Serves(m), NEW i \in Given(m)
    PROVE  /\ Sound(Give(m, i), H \cup {i}, P, b) /\ Give(m, i) \in Header /\ i \in Nat
           /\ Give(m, i).owner = m.owner /\ Give(m, i).class = m.class /\ Give(m, i).full = m.full
  <1>0. /\ IsFiniteSet(H) /\ IsFiniteSet(P) /\ Cardinality(H) \in Nat /\ Cardinality(P) \in Nat
        /\ H \subseteq Nat /\ m.free \subseteq Nat /\ m.bump \in Nat /\ m.used \in Nat
        /\ m.remote \in Seq(Nat) /\ Len(m.remote) \in Nat
    BY SoundFinite
  <1>1. i \in Nat
    BY <1>0 DEF Given
  <1> DEFINE g == Give(m, i)
  <1>2. /\ g.owner = m.owner /\ g.class = m.class /\ g.full = m.full /\ g.remote = m.remote
        /\ g.free = m.free \ {i} /\ g.used = m.used + 1
        /\ g.bump = (IF i > m.bump THEN i ELSE m.bump) /\ g \in Header
    BY <1>1, GiveFields
  <1> HIDE DEF g
  <1>3. Count[m.class] \in Nat
    BY Constants
  <1>4. \/ i \in m.free /\ i \in 1 .. m.bump /\ g.bump = m.bump
        \/ m.free = {} /\ i = m.bump + 1 /\ g.bump = i /\ i <= Count[m.class]
    <2>1. m.free \subseteq 1 .. m.bump
      BY DEF Sound
    <2>2. CASE m.free # {}
      <3>1. i \in m.free /\ i \in 1 .. m.bump
        BY <2>1, <2>2 DEF Given
      <3> QED
        BY <1>0, <1>1, <1>2, <3>1
    <2>3. CASE m.free = {}
      <3>1. i = m.bump + 1 /\ m.bump < Count[m.class]
        BY <2>3 DEF Given, Serves
      <3> QED
        BY <1>0, <1>1, <1>2, <1>3, <2>3, <3>1
    <2> QED
      BY <2>2, <2>3
  <1>5. i \notin H
    BY <1>0, <1>4 DEF Sound
  <1>6. Cardinality(H \cup {i}) = Cardinality(H) + 1
    BY <1>0, <1>5, FS_AddElement
  <1>7. i \notin ToSet(m.remote) /\ i \notin Pushed(P, b)
    BY <1>0, <1>4 DEF Sound
  <1>8. (H \cup {i}) \cup (m.free \ {i}) \cup ToSet(m.remote) \cup Pushed(P, b) = 1 .. g.bump
    <2>1. H \cup m.free \cup ToSet(m.remote) \cup Pushed(P, b) = 1 .. m.bump
      BY DEF Sound
    <2>2. CASE i \in m.free /\ i \in 1 .. m.bump /\ g.bump = m.bump
      BY <2>1, <2>2
    <2>3. CASE m.free = {} /\ i = m.bump + 1 /\ g.bump = i
      <3>1. 1 .. g.bump = (1 .. m.bump) \cup {i}
        BY <1>0, <2>3
      <3> QED
        BY <2>1, <2>3, <3>1
    <2> QED
      BY <1>4, <2>2, <2>3
  <1>9. g.bump <= Count[m.class]
    BY <1>0, <1>3, <1>4 DEF Sound
  <1>10. g.used = Cardinality(H \cup {i}) + Len(m.remote) + Cardinality(P)
    <2>1. m.used = Cardinality(H) + Len(m.remote) + Cardinality(P) /\ g.used = m.used + 1
      BY <1>2 DEF Sound
    <2>2. m.used + 1 = Cardinality(H \cup {i}) + Len(m.remote) + Cardinality(P)
      BY <1>0, <1>6, <2>1, OneMore
    <2> QED
      BY <2>1, <2>2
  <1>11. Sound(g, H \cup {i}, P, b)
    BY <1>2, <1>5, <1>7, <1>8, <1>9, <1>10 DEF Sound
  <1> QED
    BY <1>1, <1>2, <1>11 DEF g

(* What others freed is the owner's again. *)
LEMMA SoundDrained ==
    ASSUME NEW m \in Header, NEW H, NEW P \in SUBSET Threads, NEW b, Sound(m, H, P, b)
    PROVE  /\ Sound(Drained(m), H, P, b) /\ Drained(m) \in Header
           /\ Drained(m).owner = m.owner /\ Drained(m).class = m.class /\ Drained(m).full = m.full
           /\ Drained(m).used = Cardinality(H) + Cardinality(P)
           /\ m.remote # <<>> => Serves(Drained(m))
  <1>0. /\ IsFiniteSet(H) /\ IsFiniteSet(P) /\ Cardinality(H) \in Nat /\ Cardinality(P) \in Nat
        /\ H \subseteq Nat /\ m.free \subseteq Nat /\ m.bump \in Nat /\ m.used \in Nat
        /\ m.remote \in Seq(Nat) /\ Len(m.remote) \in Nat
    BY SoundFinite
  <1> DEFINE d == Drained(m)
  <1>1. m.used - Len(m.remote) = Cardinality(H) + Cardinality(P)
    BY <1>0 DEF Sound
  <1>2. ToSet(m.remote) \subseteq Nat
    BY <1>0, InSeq
  <1>3. /\ d.owner = m.owner /\ d.class = m.class /\ d.full = m.full /\ d.remote = <<>>
        /\ d.free = m.free \cup ToSet(m.remote) /\ d.bump = m.bump
        /\ d.used = m.used - Len(m.remote)
    BY DEF Header, Drained
  <1>4. d \in Header
    <2>1. m.used - Len(m.remote) \in Nat /\ m.free \cup ToSet(m.remote) \in SUBSET Nat
      BY <1>0, <1>1, <1>2
    <2>2. <<>> \in Seq(Nat)
      OBVIOUS
    <2> QED
      BY <2>1, <2>2 DEF Header, Drained
  <1> HIDE DEF d
  <1>5. ToSet(d.remote) = {} /\ Len(d.remote) = 0 /\ IsInjective(d.remote)
    BY <1>3 DEF ToSet, IsInjective
  <1>6. Sound(d, H, P, b)
    <2>1. H \cup d.free \cup ToSet(d.remote) \cup Pushed(P, b) = 1 .. d.bump
      BY <1>3, <1>5 DEF Sound
    <2>2. /\ H \cap d.free = {} /\ ToSet(d.remote) \cap Pushed(P, b) = {}
          /\ (H \cup d.free) \cap (ToSet(d.remote) \cup Pushed(P, b)) = {}
      BY <1>3, <1>5 DEF Sound
    <2>3. d.bump <= Count[d.class] /\ \A t, u \in P : b[t] = b[u] => t = u
      BY <1>3 DEF Sound
    <2>4. d.used = Cardinality(H) + Len(d.remote) + Cardinality(P)
      BY <1>0, <1>1, <1>3, <1>5
    <2> QED
      BY <1>5, <2>1, <2>2, <2>3, <2>4 DEF Sound
  <1>7. m.remote # <<>> => Serves(d)
    <2> SUFFICES ASSUME m.remote # <<>> PROVE m.free \cup ToSet(m.remote) # {}
      BY <1>3 DEF Serves
    <2>1. ToSet(m.remote) # {}
      BY <1>0, InSeq
    <2> QED
      BY <2>1
  <1> QED
    BY <1>1, <1>3, <1>4, <1>6, <1>7 DEF d

(* A new span. *)
NewSpan(h, c) == [Blank EXCEPT !.owner = h, !.class = c]

(* It has all its blocks to give. *)
LEMMA SoundNew ==
    ASSUME NEW h \in Heaps, NEW c \in Classes, NEW b
    PROVE  /\ Sound(NewSpan(h, c), {}, {}, b) /\ NewSpan(h, c) \in Header /\ Serves(NewSpan(h, c))
           /\ NewSpan(h, c).owner = h /\ NewSpan(h, c).class = c /\ ~NewSpan(h, c).full
  <1> DEFINE m == NewSpan(h, c)
  <1>1. /\ m.owner = h /\ m.class = c /\ m.free = {} /\ m.bump = 0 /\ m.used = 0 /\ m.full = FALSE
        /\ m.remote = <<>>
    BY DEF Blank, NewSpan
  <1>2. m \in Header
    <2>1. <<>> \in Seq(Nat) /\ {} \in SUBSET Nat /\ FALSE \in BOOLEAN
      OBVIOUS
    <2> QED
      BY <2>1 DEF Blank, Header, NewSpan
  <1> HIDE DEF m
  <1>3. ToSet(m.remote) = {} /\ Len(m.remote) = 0 /\ IsInjective(m.remote)
    BY <1>1 DEF ToSet, IsInjective
  <1>4. Count[c] \in Nat /\ Count[c] >= 2
    BY Constants
  <1>5. Pushed({}, b) = {} /\ 1 .. 0 = {} /\ Cardinality({}) = 0
    BY FS_EmptySet DEF Pushed
  <1>6. Sound(m, {}, {}, b)
    BY <1>1, <1>3, <1>4, <1>5 DEF Sound
  <1>7. Serves(m)
    BY <1>1, <1>4 DEF Serves
  <1> QED
    BY <1>1, <1>2, <1>6, <1>7 DEF m

(* The owner frees a block. *)
FreedIn(m, i) == [m EXCEPT !.free = @ \cup {i}, !.used = @ - 1]

(* What the owner frees is free in the span at once. *)
LEMMA SoundLocal ==
    ASSUME NEW m \in Header, NEW H, NEW P \in SUBSET Threads, NEW b, Sound(m, H, P, b), NEW i \in H
    PROVE  /\ Sound(FreedIn(m, i), H \ {i}, P, b) /\ FreedIn(m, i) \in Header
           /\ FreedIn(m, i).owner = m.owner /\ FreedIn(m, i).class = m.class
           /\ FreedIn(m, i).full = m.full
  <1> DEFINE f == FreedIn(m, i)
  <1>0. /\ IsFiniteSet(H) /\ IsFiniteSet(P) /\ Cardinality(H) \in Nat /\ Cardinality(P) \in Nat
        /\ H \subseteq Nat /\ m.free \subseteq Nat /\ m.bump \in Nat /\ m.used \in Nat
        /\ m.remote \in Seq(Nat) /\ Len(m.remote) \in Nat
    BY SoundFinite
  <1>1. IsFiniteSet(H \ {i}) /\ Cardinality(H \ {i}) = Cardinality(H) - 1 /\ Cardinality(H \ {i}) \in Nat
    BY <1>0, FS_RemoveElement, FS_CardinalityType
  <1>2. m.used - 1 = Cardinality(H \ {i}) + Len(m.remote) + Cardinality(P)
    BY <1>0, <1>1 DEF Sound
  <1>3. /\ f.owner = m.owner /\ f.class = m.class /\ f.full = m.full /\ f.remote = m.remote
        /\ f.free = m.free \cup {i} /\ f.bump = m.bump /\ f.used = m.used - 1
    BY DEF Header, FreedIn
  <1>4. f \in Header
    <2>1. m.used - 1 \in Nat
      <3>1. \A x, y, w \in Nat : x + y + w \in Nat
        OBVIOUS
      <3>2. Cardinality(H \ {i}) + Len(m.remote) + Cardinality(P) \in Nat
        BY <1>0, <1>1, <3>1
      <3> QED
        BY <1>2, <3>2
    <2>2. m.free \cup {i} \in SUBSET Nat
      BY <1>0
    <2> QED
      BY <2>1, <2>2 DEF Header, FreedIn
  <1>5. Sound(f, H \ {i}, P, b)
    <2>1. (H \ {i}) \cup f.free \cup ToSet(f.remote) \cup Pushed(P, b) = 1 .. f.bump
      BY <1>3 DEF Sound
    <2>2. /\ (H \ {i}) \cap f.free = {} /\ ToSet(f.remote) \cap Pushed(P, b) = {}
          /\ ((H \ {i}) \cup f.free) \cap (ToSet(f.remote) \cup Pushed(P, b)) = {}
      BY <1>3 DEF Sound
    <2>3. f.bump <= Count[f.class] /\ IsInjective(f.remote) /\ \A t, u \in P : b[t] = b[u] => t = u
      BY <1>3 DEF Sound
    <2>4. f.used = Cardinality(H \ {i}) + Len(f.remote) + Cardinality(P)
      BY <1>2, <1>3
    <2> QED
      BY <2>1, <2>2, <2>3, <2>4 DEF Sound
  <1> QED
    BY <1>3, <1>4, <1>5

(* Nothing is left of a span that counts no block in use. *)
LEMMA SoundUnused ==
    ASSUME NEW m \in Header, NEW H, NEW P \in SUBSET Threads, NEW b, Sound(m, H, P, b), m.used = 0
    PROVE  H = {} /\ P = {}
  <1>0. /\ IsFiniteSet(H) /\ IsFiniteSet(P) /\ Cardinality(H) \in Nat /\ Cardinality(P) \in Nat
        /\ Len(m.remote) \in Nat
    BY SoundFinite
  <1>1. Cardinality(H) = 0 /\ Cardinality(P) = 0
    BY <1>0 DEF Sound
  <1> QED
    BY <1>0, <1>1, FS_EmptySet

(* Another thread is about to free it ... *)
LEMMA SoundRemote ==
    ASSUME NEW m \in Header, NEW H, NEW P \in SUBSET Threads, NEW b \in [Threads -> Nat],
           Sound(m, H, P, b), NEW i \in H, NEW t \in Threads \ P
    PROVE  Sound(m, H \ {i}, P \cup {t}, [b EXCEPT ![t] = i])
  <1>0. /\ IsFiniteSet(H) /\ IsFiniteSet(P) /\ Cardinality(H) \in Nat /\ Cardinality(P) \in Nat
        /\ H \subseteq Nat /\ m.free \subseteq Nat /\ m.bump \in Nat /\ m.used \in Nat
        /\ m.remote \in Seq(Nat) /\ Len(m.remote) \in Nat
    BY SoundFinite
  <1> DEFINE c == [b EXCEPT ![t] = i]
  <1>1. c[t] = i /\ \A u \in P : c[u] = b[u]
    OBVIOUS
  <1>2. Pushed(P \cup {t}, c) = Pushed(P, b) \cup {i}
    BY <1>1 DEF Pushed
  <1>3. Cardinality(H \ {i}) = Cardinality(H) - 1 /\ Cardinality(P \cup {t}) = Cardinality(P) + 1
    BY <1>0, FS_RemoveElement, FS_AddElement
  <1>4. \A u \in P : b[u] # i
    BY DEF Sound, Pushed
  <1>5. \A u, v \in P \cup {t} : c[u] = c[v] => u = v
    BY <1>1, <1>4 DEF Sound
  <1>6. m.used = Cardinality(H \ {i}) + Len(m.remote) + Cardinality(P \cup {t})
    <2>1. m.used = Cardinality(H) + Len(m.remote) + Cardinality(P)
      BY DEF Sound
    <2> DEFINE x == Cardinality(H)
               y == Cardinality(P)
               r == Len(m.remote)
               x1 == Cardinality(H \ {i})
               y1 == Cardinality(P \cup {t})
    <2>2. x \in Nat /\ y \in Nat /\ r \in Nat
      BY <1>0
    <2>3. m.used = x + r + y /\ x1 = x - 1 /\ y1 = y + 1
      BY <1>3, <2>1
    <2> HIDE DEF x, y, r, x1, y1
    <2>4. m.used = x1 + r + y1
      BY <2>2, <2>3
    <2> QED
      BY <2>4 DEF r, x1, y1
  <1> HIDE DEF c
  <1>7. (H \ {i}) \cup m.free \cup ToSet(m.remote) \cup Pushed(P \cup {t}, c) = 1 .. m.bump
    BY <1>2 DEF Sound
  <1>8. /\ (H \ {i}) \cap m.free = {} /\ ToSet(m.remote) \cap Pushed(P \cup {t}, c) = {}
        /\ ((H \ {i}) \cup m.free) \cap (ToSet(m.remote) \cup Pushed(P \cup {t}, c)) = {}
    BY <1>2 DEF Sound
  <1>9. Sound(m, H \ {i}, P \cup {t}, c)
    BY <1>5, <1>6, <1>7, <1>8 DEF Sound
  <1> QED
    BY <1>9 DEF c

(* ... and does. *)
PushedOn(m, i) == [m EXCEPT !.remote = <<i>> \o @]

(* A push changes the remote list of the header alone. *)
LEMMA PushedFields ==
    ASSUME NEW m \in Header, NEW i \in Nat, NEW p, p = PushedOn(m, i)
    PROVE  /\ p \in Header /\ p.owner = m.owner /\ p.class = m.class /\ p.full = m.full /\ p.free = m.free
           /\ p.bump = m.bump /\ p.used = m.used /\ p.remote = <<i>> \o m.remote
  <1>1. <<i>> \o m.remote \in Seq(Nat)
    BY DEF Header
  <1> QED
    BY <1>1 DEF Header, PushedOn

(* ... and its push puts the block in the remote list. *)
LEMMA SoundPush ==
    ASSUME NEW m \in Header, NEW H, NEW P \in SUBSET Threads, NEW b \in [Threads -> Nat],
           Sound(m, H, P, b), NEW t \in P
    PROVE  Sound(PushedOn(m, b[t]), H, P \ {t}, [b EXCEPT ![t] = 0])
  <1>0. /\ IsFiniteSet(H) /\ IsFiniteSet(P) /\ Cardinality(H) \in Nat /\ Cardinality(P) \in Nat
        /\ H \subseteq Nat /\ m.free \subseteq Nat /\ m.bump \in Nat /\ m.used \in Nat
        /\ m.remote \in Seq(Nat) /\ Len(m.remote) \in Nat
    BY SoundFinite
  <1> DEFINE p == PushedOn(m, b[t])
             c == [b EXCEPT ![t] = 0]
             i == b[t]
             r == <<i>> \o m.remote
  <1>1. i \in Pushed(P, b) /\ i \in Nat /\ IsInjective(m.remote) /\ i \notin ToSet(m.remote)
    <2>1. i \in Pushed(P, b) /\ i \in Nat
      BY DEF Pushed
    <2> QED
      BY <2>1 DEF Sound
  <1>2. r \in Seq(Nat) /\ IsInjective(r) /\ ToSet(r) = ToSet(m.remote) \cup {i} /\ Len(r) = Len(m.remote) + 1
    <2>1. r \in Seq(Nat) /\ IsInjective(r) /\ ToSet(r) = ToSet(m.remote) \cup {i}
      BY <1>0, <1>1, Linked
    <2>2. Len(r) = Len(m.remote) + 1
      BY <1>0, <1>1
    <2> QED
      BY <2>1, <2>2
  <1>3. /\ p.owner = m.owner /\ p.class = m.class /\ p.full = m.full /\ p.free = m.free
        /\ p.bump = m.bump /\ p.used = m.used /\ p.remote = r
    BY DEF Header, PushedOn
  <1>5. \A u \in P \ {t} : c[u] = b[u] /\ b[u] # i
    BY DEF Sound
  <1> HIDE DEF p, c, i, r
  <1>6. Pushed(P \ {t}, c) = Pushed(P, b) \ {i}
    BY <1>5 DEF Pushed, i
  <1>7. Cardinality(P \ {t}) = Cardinality(P) - 1
    BY <1>0, FS_RemoveElement
  <1>8. p.used = Cardinality(H) + Len(p.remote) + Cardinality(P \ {t})
    <2>1. m.used = Cardinality(H) + Len(m.remote) + Cardinality(P)
      BY DEF Sound
    <2>2. m.used = Cardinality(H) + (Len(m.remote) + 1) + Cardinality(P \ {t})
      BY <1>0, <1>7, <2>1, OneMore
    <2> QED
      BY <1>2, <1>3, <2>2
  <1>9. H \cup p.free \cup ToSet(p.remote) \cup Pushed(P \ {t}, c) = 1 .. p.bump
    <2>1. H \cup m.free \cup ToSet(m.remote) \cup Pushed(P, b) = 1 .. m.bump
      BY DEF Sound
    <2>2. ToSet(p.remote) \cup Pushed(P \ {t}, c) = ToSet(m.remote) \cup Pushed(P, b)
      BY <1>1, <1>2, <1>3, <1>6
    <2> QED
      BY <1>3, <2>1, <2>2
  <1>10. /\ H \cap p.free = {} /\ ToSet(p.remote) \cap Pushed(P \ {t}, c) = {}
         /\ (H \cup p.free) \cap (ToSet(p.remote) \cup Pushed(P \ {t}, c)) = {}
    <2>1. /\ H \cap m.free = {} /\ ToSet(m.remote) \cap Pushed(P, b) = {}
          /\ (H \cup m.free) \cap (ToSet(m.remote) \cup Pushed(P, b)) = {}
      BY DEF Sound
    <2>2. ToSet(p.remote) = ToSet(m.remote) \cup {i}
      BY <1>2, <1>3
    <2>3. ToSet(p.remote) \cup Pushed(P \ {t}, c) = ToSet(m.remote) \cup Pushed(P, b)
      BY <1>1, <1>6, <2>2
    <2> QED
      BY <1>3, <1>6, <2>1, <2>2, <2>3
  <1>11. \A u, v \in P \ {t} : c[u] = c[v] => u = v
    BY <1>5 DEF Sound
  <1>12. Sound(p, H, P \ {t}, c)
    BY <1>2, <1>3, <1>8, <1>9, <1>10, <1>11 DEF Sound
  <1> QED
    BY <1>12 DEF p, c, i

(* The list a span is in does not concern its blocks. *)
LEMMA SoundMoved ==
    ASSUME NEW m \in Header, NEW H, NEW P, NEW b, NEW v \in BOOLEAN, Sound(m, H, P, b)
    PROVE  LET f == [m EXCEPT !.full = v]
           IN  /\ Sound(f, H, P, b) /\ f \in Header /\ f.owner = m.owner /\ f.class = m.class
               /\ f.full = v /\ f.used = m.used /\ f.free = m.free /\ f.bump = m.bump
               /\ f.remote = m.remote
  BY DEF Sound, Header

-----------------------------------------------------------------------------
(* The inductive invariant.  What the runs' invariants say of spans is put     *)
(* with Sound; besides, a heap has one thread, which has where it stands in its *)
(* lists right, and a span about to get a block freed is in use.               *)

Blocks ==
    /\ \A s \in Small : Sound(span[s], Held(s), Pushing(s), block)
    /\ \A s \in taken \ Small : Held(s) = {1}
    /\ \A s \in Chunks \ taken : Held(s) = {} /\ Pushing(s) = {}
    /\ \A t \in Threads : pc[t] = "push" => cur[t] \in Small

Match ==
    \A h \in Heaps :
        /\ IsInjective(full[h]) /\ \A c \in Classes : IsInjective(list[h][c])
        /\ \A s \in Chunks :
            /\ s \in ToSet(full[h]) <=> (s \in Small /\ span[s].owner = h /\ span[s].full)
            /\ \A c \in Classes : s \in ToSet(list[h][c]) <=>
                   (s \in Small /\ span[s].owner = h /\ span[s].class = c /\ ~span[s].full)

Exhausted ==
    \A s \in Small : /\ span[s].owner \in Heaps
                     /\ span[s].full /\ Owned(span[s].owner) => ~Serves(span[s])

HeapsKnown ==
    /\ \A t \in Threads : heap[t] \in made \cup {NoHeap}
    /\ \A t, u \in Threads : heap[t] = heap[u] /\ heap[t] # NoHeap => t = u
    /\ \A s \in Small : span[s].owner \in made

RefillAt(t) ==
    /\ pc[t] \in {"list", "scan", "create"} => heap[t] # NoHeap /\ class[t] \in Classes
    /\ pc[t] = "list" => cur[t] = First(list[heap[t]][class[t]])
    /\ pc[t] \in {"scan", "create"} => list[heap[t]][class[t]] = <<>>

WalkAt(t) ==
    pc[t] = "end" => /\ heap[t] # NoHeap
                     /\ \A s \in walk[t] : s \in Small /\ span[s].owner = heap[t]

Known == HeapsKnown /\ \A t \in Threads : RefillAt(t) /\ WalkAt(t)

IInv == TypeOK /\ Blocks /\ Match /\ Exhausted /\ Known

-----------------------------------------------------------------------------
(* Blocks the program holds. *)

HeldOf(l, s) == {b[2] : b \in {x \in l : x[1] = s}}

(* A block held is known by its span and its place there. *)
LEMMA InHeld ==
    ASSUME NEW l, l \subseteq Chunks \X Nat, NEW r, NEW x
    PROVE  x \in HeldOf(l, r) <=> <<r, x>> \in l
  BY DEF HeldOf

(* What is held after a step that takes a block ... *)
LEMMA HeldMore ==
    ASSUME SpansOK, NEW s \in Chunks, NEW i \in Nat, live' = live \cup {<<s, i>>}
    PROVE  /\ live' \subseteq Chunks \X Nat /\ Held(s)' = Held(s) \cup {i}
           /\ \A r : r # s => Held(r)' = Held(r)
  <1>1. live \subseteq Chunks \X Nat /\ live' \subseteq Chunks \X Nat
    BY DEF SpansOK
  <1>2. ASSUME NEW r, NEW x
        PROVE  (x \in Held(r) <=> <<r, x>> \in live) /\ (x \in Held(r)' <=> <<r, x>> \in live')
    BY <1>1, InHeld DEF Held, HeldOf
  <1>3. ASSUME NEW r, NEW x
        PROVE  <<r, x>> \in live' <=> (<<r, x>> \in live \/ (r = s /\ x = i))
    OBVIOUS
  <1>4. Held(s)' = Held(s) \cup {i}
    <2>1. ASSUME NEW x PROVE x \in Held(s)' <=> x \in Held(s) \cup {i}
      BY <1>2, <1>3
    <2> QED
      BY <2>1
  <1>5. ASSUME NEW r, r # s PROVE Held(r)' = Held(r)
    <2>1. ASSUME NEW x PROVE x \in Held(r)' <=> x \in Held(r)
      BY <1>2, <1>3, <1>5
    <2> QED
      BY <2>1
  <1> QED
    BY <1>1, <1>2, <1>4, <1>5

(* ... and after one that frees it. *)
LEMMA HeldLess ==
    ASSUME SpansOK, NEW s \in Chunks, NEW i \in Nat, <<s, i>> \in live, live' = live \ {<<s, i>>}
    PROVE  /\ live' \subseteq Chunks \X Nat /\ Held(s)' = Held(s) \ {i} /\ i \in Held(s)
           /\ \A r : r # s => Held(r)' = Held(r)
  <1>1. live \subseteq Chunks \X Nat /\ live' \subseteq Chunks \X Nat
    BY DEF SpansOK
  <1>2. ASSUME NEW r, NEW x
        PROVE  (x \in Held(r) <=> <<r, x>> \in live) /\ (x \in Held(r)' <=> <<r, x>> \in live')
    BY <1>1, InHeld DEF Held, HeldOf
  <1>3. ASSUME NEW r, NEW x
        PROVE  <<r, x>> \in live' <=> (<<r, x>> \in live /\ ~(r = s /\ x = i))
    OBVIOUS
  <1>4. Held(s)' = Held(s) \ {i}
    <2>1. ASSUME NEW x PROVE x \in Held(s)' <=> x \in Held(s) \ {i}
      BY <1>2, <1>3
    <2> QED
      BY <2>1
  <1>5. ASSUME NEW r, r # s PROVE Held(r)' = Held(r)
    <2>1. ASSUME NEW x PROVE x \in Held(r)' <=> x \in Held(r)
      BY <1>2, <1>3, <1>5
    <2> QED
      BY <2>1
  <1> QED
    BY <1>1, <1>2, <1>4, <1>5

(* Only block[t] of the threads about to push is looked at. *)
LEMMA SoundSame ==
    ASSUME NEW m, NEW H, NEW P, NEW b, NEW c, \A t \in P : c[t] = b[t], Sound(m, H, P, b)
    PROVE  Sound(m, H, P, c)
  <1>1. Pushed(P, c) = Pushed(P, b)
    BY DEF Pushed
  <1>2. \A t, u \in P : c[t] = c[u] => t = u
    BY DEF Sound
  <1> QED
    BY <1>1, <1>2 DEF Sound

(* A step that leaves blocks alone. *)
LEMMA BlocksSame ==
    ASSUME TypeOK, Blocks, UNCHANGED <<taken, span, live, block>>,
           \A t \in Threads : pc'[t] = "push" <=> pc[t] = "push",
           \A t \in Threads : pc[t] = "push" => cur'[t] = cur[t]
    PROVE  Blocks'
  <1>1. \A s : Held(s)' = Held(s)
    BY DEF Held
  <1>2. \A s : Pushing(s)' = Pushing(s)
    BY DEF Pushing
  <1>3. Small' = Small
    BY DEF Small
  <1>4. \A s \in Small' : Sound(span[s], Held(s)', Pushing(s)', block)
    BY <1>1, <1>2, <1>3 DEF Blocks
  <1>5. \A s \in (taken \ Small)' : Held(s)' = {1}
    BY <1>1, <1>3 DEF Blocks
  <1>6. \A s \in Chunks \ taken' : Held(s)' = {} /\ Pushing(s)' = {}
    BY <1>1, <1>2 DEF Blocks
  <1>7. \A t \in Threads : pc'[t] = "push" => cur'[t] \in Small'
    BY <1>3 DEF Blocks
  <1> QED
    BY <1>4, <1>5, <1>6, <1>7 DEF Blocks

(* A step on the blocks of one span. *)
LEMMA BlocksOne ==
    ASSUME TypeOK, Blocks, NEW s,
           \A r : r # s => (r \in taken' <=> r \in taken),
           \A r \in taken : r # s => span'[r] = span[r],
           \A r : r # s => Held(r)' = Held(r) /\ Pushing(r)' = Pushing(r),
           \A r, u : r # s /\ u \in Pushing(r) => block'[u] = block[u],
           \/ s \in taken' /\ span'[s].class # Large
                /\ Sound(span'[s], Held(s)', Pushing(s)', block')
           \/ s \in taken' /\ span'[s].class = Large /\ Held(s)' = {1} /\ Pushing(s)' = {}
           \/ s \notin taken' /\ Held(s)' = {} /\ Pushing(s)' = {}
    PROVE  Blocks'
  <1>1. \A r : r # s => (r \in Small' <=> r \in Small)
    BY DEF Small
  <1>2. ASSUME NEW r \in Small' PROVE Sound(span'[r], Held(r)', Pushing(r)', block')
    <2>1. CASE r = s
      BY <1>2, <2>1 DEF Small
    <2>2. CASE r # s
      <3>1. Sound(span[r], Held(r), Pushing(r), block) /\ r \in taken
        BY <1>1, <1>2, <2>2 DEF Blocks, Small
      <3>2. \A u \in Pushing(r) : block'[u] = block[u]
        BY <2>2
      <3>3. Sound(span[r], Held(r), Pushing(r), block')
        BY <3>1, <3>2, SoundSame
      <3> QED
        BY <2>2, <3>1, <3>3
    <2> QED
      BY <2>1, <2>2
  <1>3. ASSUME NEW r \in taken' \ Small' PROVE Held(r)' = {1}
    <2>1. CASE r = s
      BY <1>3, <2>1 DEF Small
    <2>2. CASE r # s
      BY <1>1, <1>3, <2>2 DEF Blocks
    <2> QED
      BY <2>1, <2>2
  <1>4. ASSUME NEW r \in Chunks \ taken' PROVE Held(r)' = {} /\ Pushing(r)' = {}
    <2>1. CASE r = s
      BY <1>4, <2>1
    <2>2. CASE r # s
      BY <1>4, <2>2 DEF Blocks
    <2> QED
      BY <2>1, <2>2
  <1>5. ASSUME NEW t \in Threads, pc'[t] = "push" PROVE cur'[t] \in Small'
    <2>1. ASSUME NEW r, r = cur'[t] PROVE r \in Small'
      <3>1. t \in Pushing(r)'
        BY <1>5, <2>1 DEF Pushing
      <3>2. CASE r = s
        BY <3>1, <3>2 DEF Small
      <3>3. CASE r # s
        <4>1. Pushing(r)' = Pushing(r)
          BY <3>3
        <4>2. t \in Pushing(r)
          BY <3>1, <4>1
        <4>3. cur[t] = r /\ pc[t] = "push"
          BY <4>2 DEF Pushing
        <4> QED
          BY <1>1, <3>3, <4>3 DEF Blocks
      <3> QED
        BY <3>2, <3>3
    <2> QED
      BY <2>1
  <1> QED
    BY <1>2, <1>3, <1>4, <1>5 DEF Blocks

(* Lists of one heap change where one span is in them. *)
LEMMA MatchOne ==
    ASSUME TypeOK, Match, NEW s \in Chunks, NEW h \in Heaps, NEW c \in Classes,
           NEW q \in Seq(Chunks), IsInjective(q), NEW z \in Seq(Chunks), IsInjective(z),
           list' = [list EXCEPT ![h][c] = q], full' = [full EXCEPT ![h] = z],
           \A r \in Chunks : r # s => (r \in ToSet(q) <=> r \in ToSet(list[h][c])),
           \A r \in Chunks : r # s => (r \in ToSet(z) <=> r \in ToSet(full[h])),
           \A r : r # s => (r \in taken' <=> r \in taken),
           \A r \in taken : r # s => span'[r] = span[r],
           s \in Small => span[s].owner = h /\ span[s].class = c,
           s \in Small' => span'[s].owner = h /\ span'[s].class = c,
           s \in ToSet(q) <=> (s \in Small' /\ ~span'[s].full),
           s \in ToSet(z) <=> (s \in Small' /\ span'[s].full)
    PROVE  Match'
  <1>1. \A r : r # s => (r \in Small' <=> r \in Small)
    BY DEF Small
  <1>2. ASSUME NEW g \in Heaps
        PROVE  /\ full'[g] = IF g = h THEN z ELSE full[g]
               /\ \A d \in Classes : list'[g][d] = IF g = h /\ d = c THEN q ELSE list[g][d]
    BY DEF TypeOK, SpansOK
  <1>3. ASSUME NEW g \in Heaps PROVE IsInjective(full'[g]) /\ \A d \in Classes : IsInjective(list'[g][d])
    BY <1>2 DEF Match
  <1>4. ASSUME NEW g \in Heaps, NEW r \in Chunks
        PROVE  /\ r \in ToSet(full'[g]) <=> (r \in Small' /\ span'[r].owner = g /\ span'[r].full)
               /\ \A d \in Classes : r \in ToSet(list'[g][d]) <=>
                   (r \in Small' /\ span'[r].owner = g /\ span'[r].class = d /\ ~span'[r].full)
    <2>1. CASE r # s
      <3>1. r \in Small => span'[r] = span[r]
        BY <2>1 DEF Small
      <3> QED
        BY <1>1, <1>2, <2>1, <3>1 DEF Match
    <2>2. CASE r = s
      BY <1>2, <2>2 DEF Match
    <2> QED
      BY <2>1, <2>2
  <1> QED
    BY <1>3, <1>4 DEF Match

(* Only the heap of the thread that takes a step changes. *)
LEMMA KnownOne ==
    ASSUME TypeOK, Known, NEW t \in Threads, UNCHANGED heaps,
           \A u \in Threads : u # t => /\ pc'[u] = pc[u] /\ class'[u] = class[u]
                                       /\ cur'[u] = cur[u] /\ walk'[u] = walk[u],
           \A h \in Heaps : h # heap[t] => list'[h] = list[h],
           \A s \in Small : span[s].owner # heap[t] => s \in Small' /\ span'[s].owner = span[s].owner,
           \A s \in Small' : span'[s].owner \in made,
           RefillAt(t)', WalkAt(t)'
    PROVE  Known'
  <1>1. HeapsKnown'
    BY DEF heaps, Known, HeapsKnown
  <1>2. ASSUME NEW u \in Threads, u # t PROVE RefillAt(u)' /\ WalkAt(u)'
    <2>1. heap[u] = NoHeap \/ (heap[u] \in Heaps /\ heap[u] # heap[t])
      BY <1>2 DEF Known, HeapsKnown, TypeOK, ThreadsOK
    <2>2. heap'[u] = heap[u] /\ pc'[u] = pc[u] /\ class'[u] = class[u] /\ cur'[u] = cur[u] /\ walk'[u] = walk[u]
      BY <1>2 DEF heaps
    <2>3. heap[u] # NoHeap => list'[heap[u]] = list[heap[u]]
      BY <2>1
    <2>4. RefillAt(u)'
      BY <2>2, <2>3 DEF Known, RefillAt
    <2>5. WalkAt(u)'
      BY <2>1, <2>2 DEF Known, WalkAt
    <2> QED
      BY <2>4, <2>5
  <1> QED
    BY <1>1, <1>2 DEF Known

(* A span stays exhausted, or is the one the step is about. *)
LEMMA ExhaustedOne ==
    ASSUME Exhausted, NEW s,
           \A r \in Small' : r # s => r \in Small /\ span'[r] = span[r],
           \A h \in Heaps : (\E r \in Small : span[r].owner = h) /\ Owned(h)' => Owned(h),
           s \in Small' => /\ span'[s].owner \in Heaps
                           /\ span'[s].full => ~Serves(span'[s]) \/ ~Owned(span[s].owner)'
    PROVE  Exhausted'
  <1>1. ASSUME NEW r \in Small', r # s
        PROVE  span'[r].owner \in Heaps /\ (span'[r].full /\ Owned(span[r].owner)' => ~Serves(span'[r]))
    <2>1. r \in Small /\ span'[r] = span[r]
      BY <1>1
    <2>2. Owned(span[r].owner)' => Owned(span[r].owner)
      <3>1. ASSUME NEW h, h = span[r].owner PROVE Owned(h)' => Owned(h)
        BY <2>1, <3>1 DEF Exhausted
      <3>2. Owned(span[r].owner)' <=> \E t \in Threads : heap'[t] = span'[r].owner /\ pc'[t] # "end"
        BY DEF Owned
      <3> QED
        BY <2>1, <3>1, <3>2 DEF Owned
    <2> QED
      BY <2>1, <2>2 DEF Exhausted
  <1>2. ASSUME NEW r \in Small'
        PROVE  span'[r].owner \in Heaps /\ (span'[r].full /\ Owned(span[r].owner)' => ~Serves(span'[r]))
    BY <1>1, <1>2
  <1>3. \A r \in Small' : span'[r].owner \in Heaps /\ (span'[r].full /\ Owned(span[r].owner)' => ~Serves(span[r])')
    BY <1>2 DEF Serves
  <1> QED
    BY <1>3 DEF Exhausted

-----------------------------------------------------------------------------
(* Steps. *)

(* What the invariant says of the head of a list. *)
LEMMA FirstListed ==
    ASSUME IInv, NEW h \in Heaps, NEW c \in Classes
    PROVE  /\ First(list[h][c]) # NoSpan =>
               /\ First(list[h][c]) \in Small /\ First(list[h][c]) \in Chunks
               /\ list[h][c] # <<>> /\ First(list[h][c]) = Head(list[h][c])
               /\ span[First(list[h][c])].owner = h /\ span[First(list[h][c])].class = c
               /\ ~span[First(list[h][c])].full
           /\ First(list[h][c]) = NoSpan => list[h][c] = <<>>
           /\ First(full[h]) # NoSpan =>
               /\ First(full[h]) \in Small /\ First(full[h]) \in Chunks
               /\ full[h] # <<>> /\ First(full[h]) = Head(full[h])
               /\ span[First(full[h])].owner = h /\ span[First(full[h])].full
  <1>1. ASSUME NEW seq \in Seq(Chunks)
        PROVE  /\ First(seq) # NoSpan => seq # <<>> /\ First(seq) = Head(seq) /\ Head(seq) \in ToSet(seq)
                                           /\ Head(seq) \in Chunks
               /\ First(seq) = NoSpan => seq = <<>>
    <2>1. CASE seq = <<>>
      BY <2>1 DEF First
    <2>2. CASE seq # <<>>
      <3>1. Len(seq) \in Nat /\ Len(seq) > 0 /\ Head(seq) = seq[1] /\ seq[1] \in Chunks
        BY <2>2
      <3>2. Head(seq) \in ToSet(seq)
        BY <3>1, InSeq
      <3> QED
        BY <2>2, <3>1, <3>2, Constants DEF First
    <2> QED
      BY <2>1, <2>2
  <1>2. list[h][c] \in Seq(Chunks) /\ full[h] \in Seq(Chunks)
    BY DEF IInv, TypeOK, SpansOK
  <1>3. ASSUME NEW s \in Chunks
        PROVE  /\ s \in ToSet(list[h][c]) => s \in Small /\ span[s].owner = h /\ span[s].class = c /\ ~span[s].full
               /\ s \in ToSet(full[h]) => s \in Small /\ span[s].owner = h /\ span[s].full
    BY DEF IInv, Match
  <1>4. First(list[h][c]) # NoSpan =>
               /\ First(list[h][c]) \in Small /\ First(list[h][c]) \in Chunks
               /\ list[h][c] # <<>> /\ First(list[h][c]) = Head(list[h][c])
               /\ span[First(list[h][c])].owner = h /\ span[First(list[h][c])].class = c
               /\ ~span[First(list[h][c])].full
    BY <1>1, <1>2, <1>3
  <1>5. First(list[h][c]) = NoSpan => list[h][c] = <<>>
    BY <1>1, <1>2
  <1>6. First(full[h]) # NoSpan =>
               /\ First(full[h]) \in Small /\ First(full[h]) \in Chunks
               /\ full[h] # <<>> /\ First(full[h]) = Head(full[h])
               /\ span[First(full[h])].owner = h /\ span[First(full[h])].full
    BY <1>1, <1>2, <1>3
  <1> QED
    BY <1>4, <1>5, <1>6

(* The thread and the spans, in the invariant. *)
LEMMA Facts ==
    ASSUME IInv, NEW s \in Small
    PROVE  /\ s \in Chunks /\ s \in taken /\ span[s] \in Header /\ span[s].class \in Classes
           /\ span[s].owner \in Heaps /\ span[s].full \in BOOLEAN
           /\ Sound(span[s], Held(s), Pushing(s), block) /\ Pushing(s) \in SUBSET Threads
           /\ Held(s) = HeldOf(live, s)
  <1>1. s \in Chunks /\ s \in taken
    BY DEF IInv, TypeOK, SpansOK, Small
  <1>2. span[s] \in Header
    BY <1>1 DEF IInv, TypeOK, SpansOK
  <1>3. span[s].class \in Classes /\ span[s].full \in BOOLEAN
    BY <1>2 DEF Small, Header
  <1>4. span[s].owner \in Heaps
    BY DEF IInv, Exhausted
  <1>5. Sound(span[s], Held(s), Pushing(s), block)
    BY DEF IInv, Blocks
  <1> QED
    BY <1>1, <1>2, <1>3, <1>4, <1>5 DEF Pushing, Held, HeldOf

(* The label got: a span gives a block and comes first in its class. *)
LEMMA GotKeeps ==
    ASSUME IInv, NEW t \in Threads, NEW s \in Chunks, NEW m \in Header, heap[t] \in Heaps,
           pc[t] \in {"list", "scan", "create"}, m.owner = heap[t], m.class \in Classes, ~m.full, Serves(m),
           Sound(m, Held(s), Pushing(s), block),
           s \in Small => span[s].owner = heap[t] /\ span[s].class = m.class,
           Got(t, s, m), UNCHANGED <<heaps, remote, walk>>, taken' = taken \cup {s},
           NEW z \in Seq(Chunks), IsInjective(z), full' = [full EXCEPT ![heap[t]] = z],
           \A r \in Chunks : r \in ToSet(z) <=> (r \in ToSet(full[heap[t]]) /\ r # s)
    PROVE  IInv'
  <1> DEFINE h == heap[t]
             c == m.class
             q == <<s>> \o Unlinked(list[h][c], s)
  <1>1. PICK i \in Given(m) : span' = [span EXCEPT ![s] = Give(m, i)] /\ live' = live \cup {<<s, i>>}
    BY DEF Got
  <1> DEFINE g == Give(m, i)
  <1>2. Pushing(s) \in SUBSET Threads
    BY DEF Pushing
  <1>3. /\ Sound(g, Held(s) \cup {i}, Pushing(s), block) /\ g \in Header /\ i \in Nat
        /\ g.owner = m.owner /\ g.class = m.class /\ g.full = m.full
    BY <1>2, SoundGive
  <1> HIDE DEF g
  <1>4. /\ list' = [list EXCEPT ![h][c] = q]
        /\ cur' = [cur EXCEPT ![t] = NoSpan] /\ start' = [start EXCEPT ![t] = NoSpan]
        /\ class' = [class EXCEPT ![t] = Large] /\ k' = [k EXCEPT ![t] = 0]
        /\ pc' = [pc EXCEPT ![t] = "out"] /\ span' = [span EXCEPT ![s] = g]
    BY <1>1 DEF Got, Goto, g
  <1>5. h \in Heaps /\ c \in Classes /\ list[h][c] \in Seq(Chunks) /\ IsInjective(list[h][c])
    BY DEF IInv, TypeOK, SpansOK, Match
  <1>6. /\ Unlinked(list[h][c], s) \in Seq(Chunks) /\ IsInjective(Unlinked(list[h][c], s))
        /\ ToSet(Unlinked(list[h][c], s)) = ToSet(list[h][c]) \ {s}
    BY <1>5, UnlinkedOne
  <1>7. q \in Seq(Chunks) /\ IsInjective(q) /\ ToSet(q) = (ToSet(list[h][c]) \ {s}) \cup {s}
    <2>1. s \notin ToSet(Unlinked(list[h][c], s))
      BY <1>6
    <2> QED
      BY <1>6, <2>1, Linked
  <1> HIDE DEF q, h, c
  <1>8. ThreadsOK'
    <2>1. 0 \in 0 .. ScanMax
      BY Constants
    <2> QED
      BY <1>4, <2>1 DEF IInv, TypeOK, ThreadsOK, heaps, remote
  <1>9. /\ span' \in [Chunks -> Header] /\ span'[s] = g /\ \A r : r \in Chunks /\ r # s => span'[r] = span[r]
    BY <1>3, <1>4 DEF IInv, TypeOK, SpansOK
  <1>10. live' \subseteq Chunks \X Nat /\ Held(s)' = Held(s) \cup {i} /\ \A r : r # s => Held(r)' = Held(r)
    BY <1>1, <1>3, HeldMore DEF IInv, TypeOK
  <1>11. \A r : Pushing(r)' = Pushing(r)
    BY <1>4 DEF Pushing, IInv, TypeOK, ThreadsOK
  <1>12. SpansOK'
    <2>1. list' \in [Heaps -> [Classes -> Seq(Chunks)]]
      BY <1>4, <1>5, <1>7 DEF IInv, TypeOK, SpansOK
    <2>2. full' \in [Heaps -> Seq(Chunks)]
      BY DEF IInv, TypeOK, SpansOK
    <2>3. made' \subseteq Heaps /\ taken' \subseteq Chunks
      BY DEF IInv, TypeOK, SpansOK, heaps
    <2> QED
      BY <1>9, <1>10, <2>1, <2>2, <2>3 DEF SpansOK
  <1>13. \A r : r # s => (r \in taken' <=> r \in taken)
    OBVIOUS
  <1>14. \A r \in taken : r # s => span'[r] = span[r]
    BY <1>9 DEF IInv, TypeOK, SpansOK
  <1>15. span'[s].class # Large /\ span'[s].class = c /\ span'[s].owner = h /\ ~span'[s].full
    BY <1>3, <1>5, <1>9, Constants DEF h, c
  <1>16. s \in Small' /\ \A r : r # s => (r \in Small' <=> r \in Small)
    BY <1>13, <1>14, <1>15 DEF Small
  <1>17. Blocks'
    <2>1. Sound(span'[s], Held(s)', Pushing(s)', block')
      BY <1>3, <1>9, <1>10, <1>11 DEF remote
    <2>2. \A r, u : r # s /\ u \in Pushing(r) => block'[u] = block[u]
      BY DEF remote
    <2> QED
      BY <1>10, <1>11, <1>13, <1>14, <1>15, <2>1, <2>2, BlocksOne DEF IInv
  <1>18. Match'
    <2>1. /\ \A r \in Chunks : r # s => (r \in ToSet(q) <=> r \in ToSet(list[h][c]))
          /\ s \in ToSet(q) /\ s \notin ToSet(z)
          /\ \A r \in Chunks : r # s => (r \in ToSet(z) <=> r \in ToSet(full[h]))
      BY <1>7 DEF h
    <2>2. full' = [full EXCEPT ![h] = z] /\ (s \in Small => span[s].owner = h /\ span[s].class = c)
      BY DEF h, c
    <2> QED
      <3>1. TypeOK /\ Match
        BY DEF IInv
      <3>2. s \in Small' => span'[s].owner = h /\ span'[s].class = c
        BY <1>15
      <3>3. /\ s \in ToSet(q) <=> (s \in Small' /\ ~span'[s].full)
            /\ s \in ToSet(z) <=> (s \in Small' /\ span'[s].full)
        BY <1>15, <1>16, <2>1
      <3>4. list' = [list EXCEPT ![h][c] = q] /\ h \in Heaps /\ c \in Classes /\ q \in Seq(Chunks) /\ IsInjective(q)
        BY <1>4, <1>5, <1>7
      <3> QED
        BY <1>13, <1>14, <2>1, <2>2, <3>1, <3>2, <3>3, <3>4, MatchOne
  <1>19. Exhausted'
    <2>1. \A r \in Small' : r # s => r \in Small /\ span'[r] = span[r]
      BY <1>14, <1>16 DEF Small
    <2>2. \A g0 \in Heaps : Owned(g0)' => Owned(g0)
      BY <1>4 DEF Owned, heaps, IInv, TypeOK, ThreadsOK
    <2> QED
      BY <1>5, <1>15, <2>1, <2>2, ExhaustedOne DEF IInv
  <1>20. Known'
    <2>1. \A u \in Threads : u # t => /\ pc'[u] = pc[u] /\ class'[u] = class[u]
                                      /\ cur'[u] = cur[u] /\ walk'[u] = walk[u]
      BY <1>4 DEF IInv, TypeOK, ThreadsOK
    <2>2. \A g0 \in Heaps : g0 # heap[t] => list'[g0] = list[g0]
      BY <1>4 DEF IInv, TypeOK, SpansOK, h
    <2>3. \A r \in Small : span[r].owner # heap[t] => r \in Small' /\ span'[r].owner = span[r].owner
      BY <1>14, <1>16 DEF Small
    <2>4. \A r \in Small' : span'[r].owner \in made
      BY <1>5, <1>14, <1>15, <1>16, Constants DEF Small, IInv, Known, HeapsKnown, h
    <2>5. pc'[t] = "out"
      BY <1>4 DEF IInv, TypeOK, ThreadsOK
    <2>6. RefillAt(t)' /\ WalkAt(t)'
      BY <2>5 DEF RefillAt, WalkAt
    <2> QED
      BY <2>1, <2>2, <2>3, <2>4, <2>6, KnownOne DEF IInv
  <1> QED
    BY <1>8, <1>12, <1>17, <1>18, <1>19, <1>20 DEF IInv, TypeOK

(* A step on the header of a span that stays in its list. *)
LEMMA HeaderKeeps ==
    ASSUME IInv, NEW s \in Small, NEW g \in Header,
           g.owner = span[s].owner, g.class = span[s].class, g.full = span[s].full,
           span' = [span EXCEPT ![s] = g], UNCHANGED <<lists, taken, made>>, live' \subseteq Chunks \X Nat
    PROVE  /\ SpansOK' /\ Match' /\ span'[s] = g /\ Small' = Small
           /\ \A r : r # s => (r \in taken' <=> r \in taken)
           /\ \A r \in taken : r # s => span'[r] = span[r]
           /\ \A r \in Small : span'[r].owner = span[r].owner
  <1>1. s \in Chunks /\ s \in taken /\ span[s].class # Large
    BY Facts DEF Small
  <1>2. span' \in [Chunks -> Header] /\ span'[s] = g /\ \A r \in Chunks : r # s => span'[r] = span[r]
    BY <1>1 DEF IInv, TypeOK, SpansOK
  <1>3. taken \subseteq Chunks /\ taken' = taken
    BY DEF IInv, TypeOK, SpansOK
  <1>4. \A r \in taken : r # s => span'[r] = span[r]
    BY <1>2, <1>3
  <1>5. Small' = Small
    BY <1>1, <1>2, <1>3, <1>4 DEF Small
  <1>6. \A r \in Chunks : /\ span'[r].owner = span[r].owner /\ span'[r].class = span[r].class
                          /\ span'[r].full = span[r].full
    BY <1>2
  <1>7. Match'
    BY <1>5, <1>6 DEF IInv, Match, lists
  <1>8. SpansOK'
    BY <1>2 DEF IInv, TypeOK, SpansOK, lists
  <1>9. \A r \in Small : span'[r].owner = span[r].owner
    BY <1>3, <1>6 DEF Small
  <1> QED
    BY <1>2, <1>3, <1>4, <1>5, <1>7, <1>8, <1>9

(* A block given by the first span of the class. *)
LEMMA AllocFastKeeps ==
    ASSUME IInv, NEW t \in Threads, NEW c \in Classes, AllocFast(t, c)
    PROVE  IInv'
  <1> SUFFICES ASSUME NEW s, s = First(list[heap[t]][c]) PROVE IInv'
    OBVIOUS
  <1>1. /\ s # NoSpan /\ Serves(span[s]) /\ heap[t] \in Heaps
        /\ UNCHANGED <<heaps, lists, taken, pc, refill, remote, walk>>
    BY DEF AllocFast, IInv, TypeOK, ThreadsOK
  <1>2. s \in Small /\ ~span[s].full
    BY <1>1, FirstListed
  <1>3. PICK i \in Given(span[s]) :
            span' = [span EXCEPT ![s] = Give(@, i)] /\ live' = live \cup {<<s, i>>}
    BY DEF AllocFast
  <1>4. /\ s \in Chunks /\ s \in taken /\ span[s] \in Header /\ span[s].class \in Classes
        /\ span[s].owner \in Heaps
        /\ Sound(span[s], Held(s), Pushing(s), block) /\ Pushing(s) \in SUBSET Threads
    BY <1>2, Facts
  <1> DEFINE g == Give(span[s], i)
  <1>5. /\ Sound(g, Held(s) \cup {i}, Pushing(s), block) /\ g \in Header /\ i \in Nat
        /\ g.owner = span[s].owner /\ g.class = span[s].class /\ g.full = span[s].full
    BY <1>1, <1>4, SoundGive
  <1>6. span' = [span EXCEPT ![s] = g]
    BY <1>3
  <1> HIDE DEF g
  <1>7. /\ live' \subseteq Chunks \X Nat /\ Held(s)' = Held(s) \cup {i}
        /\ \A r : r # s => Held(r)' = Held(r)
    <2>1. SpansOK /\ s \in Chunks /\ i \in Nat
      BY <1>4, <1>5 DEF IInv, TypeOK
    <2> QED
      BY <1>3, <2>1, HeldMore
  <1>8. \A r : Pushing(r)' = Pushing(r)
    BY <1>1 DEF Pushing, refill
  <1>9. /\ SpansOK' /\ Match' /\ span'[s] = g /\ Small' = Small
        /\ \A r : r # s => (r \in taken' <=> r \in taken)
        /\ \A r \in taken : r # s => span'[r] = span[r]
        /\ \A r \in Small : span'[r].owner = span[r].owner
    BY <1>1, <1>2, <1>5, <1>6, <1>7, HeaderKeeps DEF heaps
  <1>10. ThreadsOK'
    BY <1>1 DEF IInv, TypeOK, ThreadsOK, heaps, refill, remote
  <1>11. Blocks'
    <2>1. s \in taken' /\ span'[s].class # Large
      BY <1>1, <1>4, <1>5, <1>9, Constants
    <2>2. Sound(span'[s], Held(s)', Pushing(s)', block')
      <3>1. span'[s] = g /\ Held(s)' = Held(s) \cup {i} /\ Pushing(s)' = Pushing(s) /\ block' = block
        BY <1>1, <1>7, <1>8, <1>9 DEF remote
      <3> QED
        BY <1>5, <3>1
    <2>3. \A r, u : r # s /\ u \in Pushing(r) => block'[u] = block[u]
      BY <1>1 DEF remote
    <2> QED
      <3>1. /\ TypeOK /\ Blocks
            /\ \A r : r # s => (r \in taken' <=> r \in taken)
            /\ \A r \in taken : r # s => span'[r] = span[r]
        BY <1>9 DEF IInv
      <3>2. \A r : r # s => Held(r)' = Held(r) /\ Pushing(r)' = Pushing(r)
        BY <1>7, <1>8
      <3> QED
        BY <2>1, <2>2, <2>3, <3>1, <3>2, BlocksOne
  <1>12. Exhausted'
    <2>1. \A r \in Small' : r # s => r \in Small /\ span'[r] = span[r]
      BY <1>9 DEF Small
    <2>2. \A g0 \in Heaps : Owned(g0)' => Owned(g0)
      BY <1>1 DEF Owned, heaps
    <2>3. span'[s].owner \in Heaps /\ ~span'[s].full
      BY <1>2, <1>4, <1>5, <1>9
    <2> QED
      BY <2>1, <2>2, <2>3, ExhaustedOne DEF IInv
  <1>13. Known'
    BY <1>1, <1>9 DEF IInv, Known, HeapsKnown, RefillAt, WalkAt, heaps, lists, refill
  <1> QED
    BY <1>9, <1>10, <1>11, <1>12, <1>13 DEF IInv, TypeOK

(* A step of a thread on its own variables only. *)
LEMMA ThreadKeeps ==
    ASSUME IInv, NEW t \in Threads, UNCHANGED <<heaps, lists, taken, span, live, block>>, ThreadsOK',
           pc[t] \notin {"push", "end"}, pc'[t] # "push",
           \A u \in Threads : u # t => /\ pc'[u] = pc[u] /\ class'[u] = class[u]
                                       /\ cur'[u] = cur[u] /\ walk'[u] = walk[u],
           RefillAt(t)', WalkAt(t)'
    PROVE  IInv'
  <1>1. SpansOK' /\ Match' /\ Small' = Small
    BY DEF IInv, TypeOK, SpansOK, Match, lists, heaps, Small
  <1>2. Blocks'
    <2>1. \A u \in Threads : pc'[u] = "push" <=> pc[u] = "push"
      OBVIOUS
    <2>2. \A u \in Threads : pc[u] = "push" => cur'[u] = cur[u]
      OBVIOUS
    <2> QED
      BY <2>1, <2>2, BlocksSame DEF IInv
  <1>3. Exhausted'
    <2>1. \A h \in Heaps : Owned(h)' => Owned(h)
      BY DEF Owned, heaps
    <2> QED
      BY <1>1, <2>1 DEF IInv, Exhausted, Serves, Owned
  <1>4. Known'
    <2>1. \A s \in Small : span[s].owner # heap[t] => s \in Small' /\ span'[s].owner = span[s].owner
      BY <1>1
    <2>2. \A s \in Small' : span'[s].owner \in made
      BY <1>1 DEF IInv, Known, HeapsKnown
    <2>3. \A h \in Heaps : h # heap[t] => list'[h] = list[h]
      BY DEF lists
    <2> QED
      BY <2>1, <2>2, <2>3, KnownOne DEF IInv
  <1> QED
    BY <1>1, <1>2, <1>3, <1>4 DEF IInv, TypeOK

(* That span had none: the refill starts there. *)
LEMMA AllocSlowKeeps ==
    ASSUME IInv, NEW t \in Threads, NEW c \in Classes, AllocSlow(t, c)
    PROVE  IInv'
  <1>1. /\ pc[t] = "out" /\ heap[t] # NoHeap /\ heap[t] \in Heaps
        /\ cur' = [cur EXCEPT ![t] = First(list[heap[t]][c])]
        /\ class' = [class EXCEPT ![t] = c] /\ pc' = [pc EXCEPT ![t] = "list"]
        /\ UNCHANGED <<heaps, lists, taken, span, live, k, start, remote, walk>>
    BY DEF AllocSlow, Goto, IInv, TypeOK, ThreadsOK
  <1>2. First(list[heap[t]][c]) \in Chunks \cup {NoSpan}
    BY <1>1, FirstListed
  <1>3. ThreadsOK'
    BY <1>1, <1>2 DEF IInv, TypeOK, ThreadsOK, heaps, remote
  <1>4. \A u \in Threads : u # t => /\ pc'[u] = pc[u] /\ class'[u] = class[u]
                                    /\ cur'[u] = cur[u] /\ walk'[u] = walk[u]
    BY <1>1 DEF IInv, TypeOK, ThreadsOK
  <1>5. pc'[t] = "list" /\ class'[t] = c /\ cur'[t] = First(list[heap[t]][c]) /\ heap'[t] = heap[t]
    BY <1>1 DEF IInv, TypeOK, ThreadsOK, heaps
  <1>6. RefillAt(t)' /\ WalkAt(t)'
    BY <1>1, <1>5 DEF RefillAt, WalkAt, First, lists
  <1> QED
    BY <1>1, <1>3, <1>4, <1>5, <1>6, ThreadKeeps DEF remote

(* A thread in memop_refill has a heap and looks for a block of a class. *)
LEMMA Refilling ==
    ASSUME IInv, NEW t \in Threads, pc[t] \in {"list", "scan", "create"}
    PROVE  /\ heap[t] \in Heaps /\ heap[t] # NoHeap /\ class[t] \in Classes
           /\ pc[t] = "list" => cur[t] = First(list[heap[t]][class[t]])
           /\ pc[t] \in {"scan", "create"} => list[heap[t]][class[t]] = <<>>
           /\ full[heap[t]] \in Seq(Chunks) /\ IsInjective(full[heap[t]])
           /\ list[heap[t]][class[t]] \in Seq(Chunks) /\ IsInjective(list[heap[t]][class[t]])
           /\ full = [full EXCEPT ![heap[t]] = full[heap[t]]]
  <1>1. RefillAt(t)
    BY DEF IInv, Known
  <1>2. heap[t] \in Heaps /\ heap[t] # NoHeap /\ class[t] \in Classes
    BY <1>1 DEF RefillAt, IInv, TypeOK, ThreadsOK
  <1>3. /\ full[heap[t]] \in Seq(Chunks) /\ IsInjective(full[heap[t]])
        /\ list[heap[t]][class[t]] \in Seq(Chunks) /\ IsInjective(list[heap[t]][class[t]])
    BY <1>2 DEF IInv, TypeOK, SpansOK, Match
  <1>4. full = [full EXCEPT ![heap[t]] = full[heap[t]]]
    BY DEF IInv, TypeOK, SpansOK
  <1> QED
    BY <1>1, <1>2, <1>3, <1>4 DEF RefillAt

(* A span of the class serves after a drain. *)
LEMMA RefillListKeeps ==
    ASSUME IInv, NEW t \in Threads, RefillList(t)
    PROVE  IInv'
  <1> SUFFICES ASSUME NEW s, s = cur[t], NEW m,
                      m = IF Serves(span[s]) THEN span[s] ELSE Drained(span[s])
               PROVE  IInv'
    OBVIOUS
  <1>1. /\ pc[t] = "list" /\ s # NoSpan /\ Serves(m) /\ Got(t, s, m)
        /\ UNCHANGED <<heaps, full, taken, remote, walk>>
    BY DEF RefillList
  <1>2. heap[t] \in Heaps /\ class[t] \in Classes /\ s = First(list[heap[t]][class[t]])
    BY <1>1, Refilling
  <1>3. s \in Small /\ span[s].owner = heap[t] /\ span[s].class = class[t] /\ ~span[s].full
    <2>1. First(list[heap[t]][class[t]]) # NoSpan
      BY <1>1, <1>2
    <2>2. /\ First(list[heap[t]][class[t]]) \in Small /\ ~span[First(list[heap[t]][class[t]])].full
          /\ span[First(list[heap[t]][class[t]])].owner = heap[t]
          /\ span[First(list[heap[t]][class[t]])].class = class[t]
      BY <1>2, <2>1, FirstListed
    <2> QED
      BY <1>2, <2>2
  <1>4. /\ s \in Chunks /\ s \in taken /\ span[s] \in Header
        /\ Sound(span[s], Held(s), Pushing(s), block) /\ Pushing(s) \in SUBSET Threads
    BY <1>3, Facts
  <1>5. /\ m \in Header /\ m.owner = span[s].owner /\ m.class = span[s].class /\ m.full = span[s].full
        /\ Sound(m, Held(s), Pushing(s), block)
    <2>1. /\ Drained(span[s]) \in Header /\ Sound(Drained(span[s]), Held(s), Pushing(s), block)
          /\ Drained(span[s]).owner = span[s].owner /\ Drained(span[s]).class = span[s].class
          /\ Drained(span[s]).full = span[s].full
      BY <1>4, SoundDrained
    <2> QED
      BY <1>4, <2>1
  <1>6. full[heap[t]] \in Seq(Chunks) /\ IsInjective(full[heap[t]]) /\ full' = [full EXCEPT ![heap[t]] = full[heap[t]]]
    BY <1>1, Refilling
  <1>7. \A r \in Chunks : r \in ToSet(full[heap[t]]) <=> (r \in ToSet(full[heap[t]]) /\ r # s)
    <2>1. s \notin ToSet(full[heap[t]])
      BY <1>2, <1>3, <1>4 DEF IInv, Match
    <2> QED
      BY <2>1
  <1>8. taken' = taken \cup {s} /\ UNCHANGED <<heaps, remote, walk>>
    BY <1>1, <1>4
  <1>9. pc[t] \in {"list", "scan", "create"} /\ m.owner = heap[t] /\ m.class \in Classes /\ ~m.full
    BY <1>1, <1>2, <1>3, <1>5
  <1>10. s \in Small => span[s].owner = heap[t] /\ span[s].class = m.class
    BY <1>3, <1>5
  <1> QED
    BY <1>1, <1>2, <1>4, <1>5, <1>6, <1>7, <1>8, <1>9, <1>10, GotKeeps

(* A chunk that nobody has becomes a span. *)
LEMMA RefillCreateKeeps ==
    ASSUME IInv, NEW t \in Threads, RefillCreate(t)
    PROVE  IInv'
  <1>1. pc[t] = "create" /\ UNCHANGED <<heaps, full, remote, walk>>
    BY DEF RefillCreate
  <1>2. heap[t] \in Heaps /\ heap[t] # NoHeap /\ class[t] \in Classes
    BY <1>1, Refilling
  <1>3. ASSUME NEW s \in Chunks \ taken, taken' = taken \cup {s},
               Got(t, s, [Blank EXCEPT !.owner = heap[t], !.class = class[t]])
        PROVE  IInv'
    <2>1. ASSUME NEW m, m = [Blank EXCEPT !.owner = heap[t], !.class = class[t]] PROVE IInv'
      <3>1. Held(s) = {} /\ Pushing(s) = {}
        BY DEF IInv, Blocks
      <3>2. /\ Sound(m, {}, {}, block) /\ m \in Header /\ Serves(m)
            /\ m.owner = heap[t] /\ m.class = class[t] /\ ~m.full
        <4>1. /\ Sound(NewSpan(heap[t], class[t]), {}, {}, block) /\ NewSpan(heap[t], class[t]) \in Header
              /\ Serves(NewSpan(heap[t], class[t])) /\ NewSpan(heap[t], class[t]).owner = heap[t]
              /\ NewSpan(heap[t], class[t]).class = class[t] /\ ~NewSpan(heap[t], class[t]).full
          BY <1>2, SoundNew
        <4>2. m = NewSpan(heap[t], class[t])
          BY <2>1 DEF NewSpan
        <4> QED
          BY <4>1, <4>2
      <3>3. Sound(m, Held(s), Pushing(s), block)
        BY <3>1, <3>2
      <3>4. s \notin Small /\ Got(t, s, m)
        BY <1>3, <2>1 DEF Small
      <3>5. /\ full[heap[t]] \in Seq(Chunks) /\ IsInjective(full[heap[t]])
            /\ full' = [full EXCEPT ![heap[t]] = full[heap[t]]]
        BY <1>1, Refilling
      <3>6. \A r \in Chunks : r \in ToSet(full[heap[t]]) <=> (r \in ToSet(full[heap[t]]) /\ r # s)
        BY <1>2, <3>4 DEF IInv, Match
      <3>7. pc[t] \in {"list", "scan", "create"} /\ m.class \in Classes
        BY <1>1, <1>2, <3>2
      <3> QED
        BY <1>1, <1>2, <1>3, <3>2, <3>3, <3>4, <3>5, <3>6, <3>7, GotKeeps
    <2> QED
      BY <2>1
  <1>4. ASSUME pc' = [pc EXCEPT ![t] = "out"], UNCHANGED <<list, taken, span, live>>,
               cur' = [cur EXCEPT ![t] = NoSpan], start' = [start EXCEPT ![t] = NoSpan],
               class' = [class EXCEPT ![t] = Large], k' = [k EXCEPT ![t] = 0]
        PROVE  IInv'
    <2>1. ThreadsOK'
      <3>1. 0 \in 0 .. ScanMax
        BY Constants
      <3> QED
        BY <1>1, <1>4, <3>1 DEF IInv, TypeOK, ThreadsOK, heaps, remote
    <2>2. \A u \in Threads : u # t => /\ pc'[u] = pc[u] /\ class'[u] = class[u]
                                      /\ cur'[u] = cur[u] /\ walk'[u] = walk[u]
      BY <1>1, <1>4 DEF IInv, TypeOK, ThreadsOK
    <2>3. pc'[t] = "out"
      BY <1>4 DEF IInv, TypeOK, ThreadsOK
    <2>4. RefillAt(t)' /\ WalkAt(t)'
      BY <2>3 DEF RefillAt, WalkAt
    <2> QED
      BY <1>1, <1>4, <2>1, <2>2, <2>3, <2>4, ThreadKeeps DEF lists, remote
  <1> QED
    BY <1>3, <1>4 DEF RefillCreate, Goto

(* The class is left without a span ... *)
LEMMA RefillListEndKeeps ==
    ASSUME IInv, NEW t \in Threads, RefillListEnd(t)
    PROVE  IInv'
  <1>1. /\ pc[t] = "list" /\ cur[t] = NoSpan /\ pc' = [pc EXCEPT ![t] = "scan"]
        /\ UNCHANGED <<heaps, lists, taken, span, live, refill, remote, walk>>
    BY DEF RefillListEnd, Goto
  <1>2. ThreadsOK'
    BY <1>1 DEF IInv, TypeOK, ThreadsOK, heaps, refill, remote
  <1>3. pc'[t] = "scan" /\ \A u \in Threads : u # t => pc'[u] = pc[u]
    BY <1>1 DEF IInv, TypeOK, ThreadsOK
  <1>4. list[heap[t]][class[t]] = <<>> /\ heap[t] # NoHeap /\ class[t] \in Classes
    BY <1>1, Refilling, FirstListed
  <1>5. RefillAt(t)' /\ WalkAt(t)'
    BY <1>1, <1>3, <1>4 DEF RefillAt, WalkAt, heaps, lists, refill
  <1> QED
    BY <1>1, <1>2, <1>3, <1>5, ThreadKeeps DEF refill, remote

(* ... and the full ones had none for it. *)
LEMMA RefillScanEndKeeps ==
    ASSUME IInv, NEW t \in Threads, RefillScanEnd(t)
    PROVE  IInv'
  <1>1. /\ pc[t] = "scan" /\ pc' = [pc EXCEPT ![t] = "create"]
        /\ UNCHANGED <<heaps, lists, taken, span, live, refill, remote, walk>>
    BY DEF RefillScanEnd, Goto
  <1>2. ThreadsOK'
    BY <1>1 DEF IInv, TypeOK, ThreadsOK, heaps, refill, remote
  <1>3. pc'[t] = "create" /\ \A u \in Threads : u # t => pc'[u] = pc[u]
    BY <1>1 DEF IInv, TypeOK, ThreadsOK
  <1>4. list[heap[t]][class[t]] = <<>> /\ heap[t] # NoHeap /\ class[t] \in Classes
    BY <1>1, Refilling
  <1>5. RefillAt(t)' /\ WalkAt(t)'
    BY <1>1, <1>3, <1>4 DEF RefillAt, WalkAt, heaps, lists, refill
  <1> QED
    BY <1>1, <1>2, <1>3, <1>5, ThreadKeeps DEF refill, remote

(* The spans of a heap are its own. *)
LEMMA EndThreadKeeps ==
    ASSUME IInv, NEW t \in Threads, EndThread(t)
    PROVE  IInv'
  <1>1. /\ pc[t] = "out" /\ heap[t] # NoHeap /\ heap[t] \in Heaps /\ pc' = [pc EXCEPT ![t] = "end"]
        /\ walk' = [walk EXCEPT ![t] = SpansOf(heap[t])]
        /\ UNCHANGED <<heaps, lists, taken, span, live, refill, remote>>
    BY DEF EndThread, Goto, IInv, TypeOK, ThreadsOK
  <1>2. \A s \in SpansOf(heap[t]) : s \in Chunks /\ s \in Small /\ span[s].owner = heap[t]
    <2>1. full[heap[t]] \in Seq(Chunks) /\ \A c \in Classes : list[heap[t]][c] \in Seq(Chunks)
      BY <1>1 DEF IInv, TypeOK, SpansOK
    <2>2. ToSet(full[heap[t]]) \subseteq Chunks /\ \A c \in Classes : ToSet(list[heap[t]][c]) \subseteq Chunks
      BY <2>1, InSeq
    <2>3. \A s \in Chunks :
            /\ s \in ToSet(full[heap[t]]) => s \in Small /\ span[s].owner = heap[t]
            /\ \A c \in Classes : s \in ToSet(list[heap[t]][c]) => s \in Small /\ span[s].owner = heap[t]
      BY <1>1 DEF IInv, Match
    <2>4. ASSUME NEW s \in SpansOf(heap[t])
          PROVE  s \in ToSet(full[heap[t]]) \/ \E c \in Classes : s \in ToSet(list[heap[t]][c])
      BY <2>4 DEF SpansOf
    <2> QED
      BY <2>2, <2>3, <2>4
  <1>3. ThreadsOK'
    <2>1. SpansOf(heap[t]) \in SUBSET Chunks
      BY <1>2
    <2> QED
      BY <1>1, <2>1 DEF IInv, TypeOK, ThreadsOK, heaps, refill, remote
  <1>4. /\ pc'[t] = "end" /\ walk'[t] = SpansOf(heap[t])
        /\ \A u \in Threads : u # t => pc'[u] = pc[u] /\ walk'[u] = walk[u]
    BY <1>1 DEF IInv, TypeOK, ThreadsOK
  <1>5. RefillAt(t)' /\ WalkAt(t)'
    <2>1. Small' = Small /\ heap' = heap /\ span' = span
      BY <1>1 DEF Small, heaps
    <2> QED
      BY <1>1, <1>2, <1>4, <2>1 DEF RefillAt, WalkAt
  <1> QED
    BY <1>1, <1>3, <1>4, <1>5, ThreadKeeps DEF refill, remote

(* Span s gets header g and the lists of its heap become q and z, changed only *)
(* where s is in them, which they say as g does.                               *)
Relinked(s, g, h, c, q, z) ==
    /\ g.owner = h /\ g.class = c /\ span[s].owner = h /\ span[s].class = c
    /\ span' = [span EXCEPT ![s] = g]
    /\ list' = [list EXCEPT ![h][c] = q] /\ full' = [full EXCEPT ![h] = z]
    /\ q \in Seq(Chunks) /\ IsInjective(q) /\ z \in Seq(Chunks) /\ IsInjective(z)
    /\ \A r \in Chunks : r # s => /\ r \in ToSet(q) <=> r \in ToSet(list[h][c])
                                  /\ r \in ToSet(z) <=> r \in ToSet(full[h])
    /\ s \in ToSet(q) <=> ~g.full
    /\ s \in ToSet(z) <=> g.full

(* A step on the header of a span that may change list. *)
LEMMA MoveKeeps ==
    ASSUME IInv, NEW s \in Small, NEW g \in Header, NEW h, NEW c, NEW q, NEW z, Relinked(s, g, h, c, q, z),
           UNCHANGED <<taken, made>>, live' \subseteq Chunks \X Nat
    PROVE  /\ SpansOK' /\ Match' /\ span'[s] = g /\ Small' = Small
           /\ \A r : r # s => (r \in taken' <=> r \in taken)
           /\ \A r \in taken : r # s => span'[r] = span[r]
           /\ \A r \in Small : span'[r].owner = span[r].owner
  <1>0. /\ g.owner = h /\ g.class = c /\ span[s].owner = h /\ span[s].class = c
        /\ span' = [span EXCEPT ![s] = g]
        /\ list' = [list EXCEPT ![h][c] = q] /\ full' = [full EXCEPT ![h] = z]
        /\ q \in Seq(Chunks) /\ IsInjective(q) /\ z \in Seq(Chunks) /\ IsInjective(z)
    BY DEF Relinked
  <1>1. s \in Chunks /\ s \in taken /\ c # Large /\ h \in Heaps /\ c \in Classes
    BY <1>0, Facts DEF Small
  <1>2. span' \in [Chunks -> Header] /\ span'[s] = g /\ \A r \in Chunks : r # s => span'[r] = span[r]
    BY <1>0, <1>1 DEF IInv, TypeOK, SpansOK
  <1>3. taken \subseteq Chunks /\ taken' = taken
    BY DEF IInv, TypeOK, SpansOK
  <1>4. \A r \in taken : r # s => span'[r] = span[r]
    BY <1>2, <1>3
  <1>5. Small' = Small
    BY <1>0, <1>1, <1>2, <1>3, <1>4 DEF Small
  <1>6. Match'
    <2>1. s \in Small => span[s].owner = h /\ span[s].class = c
      BY <1>0
    <2>2. s \in Small' => span'[s].owner = h /\ span'[s].class = c
      BY <1>0, <1>2
    <2>3. /\ s \in ToSet(q) <=> (s \in Small' /\ ~span'[s].full)
          /\ s \in ToSet(z) <=> (s \in Small' /\ span'[s].full)
      BY <1>2, <1>5 DEF Relinked
    <2>4. TypeOK /\ Match /\ \A r : r # s => (r \in taken' <=> r \in taken)
      BY <1>3 DEF IInv
    <2>5. /\ \A r \in Chunks : r # s => (r \in ToSet(q) <=> r \in ToSet(list[h][c]))
          /\ \A r \in Chunks : r # s => (r \in ToSet(z) <=> r \in ToSet(full[h]))
      <3>1. ASSUME NEW r \in Chunks, r # s
            PROVE  (r \in ToSet(q) <=> r \in ToSet(list[h][c])) /\ (r \in ToSet(z) <=> r \in ToSet(full[h]))
        BY <3>1 DEF Relinked
      <3> QED
        BY <3>1
    <2> QED
      BY <1>0, <1>1, <1>4, <2>1, <2>2, <2>3, <2>4, <2>5, MatchOne
  <1>7. SpansOK'
    <2>1. list' \in [Heaps -> [Classes -> Seq(Chunks)]] /\ full' \in [Heaps -> Seq(Chunks)]
      BY <1>0, <1>1 DEF IInv, TypeOK, SpansOK
    <2> QED
      BY <1>2, <2>1 DEF IInv, TypeOK, SpansOK
  <1>8. \A r \in Small : span'[r].owner = span[r].owner
    BY <1>0, <1>2, <1>4 DEF Small
  <1> QED
    BY <1>2, <1>3, <1>4, <1>5, <1>6, <1>7, <1>8

(* The span has a sound header after the step, and hides no block if it is on the full list. *)
LEMMA SpanKeeps ==
    ASSUME IInv, NEW s \in Small, NEW g \in Header, g.owner = span[s].owner, g.class = span[s].class,
           span'[s] = g, Small' = Small,
           \A r : r # s => (r \in taken' <=> r \in taken),
           \A r \in taken : r # s => span'[r] = span[r],
           \A r : r # s => Held(r)' = Held(r), \A r : Pushing(r)' = Pushing(r), UNCHANGED block,
           NEW H, H = Held(s)', Sound(g, H, Pushing(s), block),
           \A h \in Heaps : Owned(h)' => Owned(h),
           g.full => ~Serves(g) \/ ~Owned(span[s].owner)
    PROVE  Blocks' /\ Exhausted'
  <1>1. s \in Chunks /\ s \in taken /\ span[s].class # Large /\ span[s].owner \in Heaps
    BY Facts DEF Small
  <1>2. Blocks'
    <2>1. s \in taken' /\ span'[s].class # Large
      BY <1>1 DEF Small
    <2>2. Sound(span'[s], Held(s)', Pushing(s)', block')
      OBVIOUS
    <2>3. \A r, u : r # s /\ u \in Pushing(r) => block'[u] = block[u]
      OBVIOUS
    <2>4. TypeOK /\ Blocks
      BY DEF IInv
    <2> QED
      BY <2>1, <2>2, <2>3, <2>4, BlocksOne
  <1>3. Exhausted'
    <2>1. \A r \in Small' : r # s => r \in Small /\ span'[r] = span[r]
      BY DEF Small
    <2>2. span'[s].owner \in Heaps /\ (span'[s].full => ~Serves(span'[s]) \/ ~Owned(span[s].owner)')
      <3>1. Owned(span[s].owner)' => Owned(span[s].owner)
        <4>1. Owned(span[s].owner)' <=> \E t \in Threads : heap'[t] = span'[s].owner /\ pc'[t] # "end"
          BY DEF Owned
        <4> QED
          BY <1>1, <4>1 DEF Owned
      <3> QED
        BY <1>1, <3>1
    <2> QED
      BY <2>1, <2>2, ExhaustedOne DEF IInv
  <1> QED
    BY <1>2, <1>3

(* A span with nothing to give moves to the full list. *)
LEMMA RefillFullKeeps ==
    ASSUME IInv, NEW t \in Threads, RefillFull(t)
    PROVE  IInv'
  <1>0. SUFFICES ASSUME NEW s, s = cur[t], NEW h, h = heap[t], NEW c, c = class[t],
                        NEW g, g = [span[s] EXCEPT !.full = TRUE],
                        NEW q, q = Unlinked(list[h][c], s), NEW z, z = Append(full[h], s)
                 PROVE  IInv'
    OBVIOUS
  <1>1. /\ pc[t] = "list" /\ s # NoSpan /\ ~Serves(Drained(span[s]))
        /\ cur' = [cur EXCEPT ![t] = After(list[h][c], s)]
        /\ list' = [list EXCEPT ![h][c] = Unlinked(@, s)] /\ full' = [full EXCEPT ![h] = Append(@, s)]
        /\ span' = [span EXCEPT ![s].full = TRUE]
        /\ UNCHANGED <<heaps, taken, live, pc, class, k, start, remote, walk>>
    BY <1>0 DEF RefillFull, list_unlink, full_push_tail
  <1>2. /\ h \in Heaps /\ h # NoHeap /\ c \in Classes /\ s = First(list[h][c])
        /\ full[h] \in Seq(Chunks) /\ IsInjective(full[h])
        /\ list[h][c] \in Seq(Chunks) /\ IsInjective(list[h][c])
    BY <1>0, <1>1, Refilling
  <1>3. /\ s \in Small /\ span[s].owner = h /\ span[s].class = c /\ ~span[s].full
        /\ list[h][c] # <<>> /\ s = Head(list[h][c])
    <2>1. First(list[h][c]) # NoSpan
      BY <1>1, <1>2
    <2>2. /\ First(list[h][c]) \in Small /\ ~span[First(list[h][c])].full
          /\ span[First(list[h][c])].owner = h /\ span[First(list[h][c])].class = c
          /\ list[h][c] # <<>> /\ First(list[h][c]) = Head(list[h][c])
      BY <1>2, <2>1, FirstListed
    <2> QED
      BY <1>2, <2>2
  <1>4. /\ s \in Chunks /\ s \in taken /\ span[s] \in Header
        /\ Sound(span[s], Held(s), Pushing(s), block) /\ Pushing(s) \in SUBSET Threads
    BY <1>3, Facts
  <1>5. /\ Sound(g, Held(s), Pushing(s), block) /\ g \in Header /\ g.owner = h /\ g.class = c
        /\ g.full /\ g.free = span[s].free /\ g.bump = span[s].bump
    BY <1>0, <1>3, <1>4, SoundMoved
  <1>6. ~Serves(g)
    BY <1>0, <1>1, <1>5 DEF Serves, Drained, Header
  <1>7. /\ q \in Seq(Chunks) /\ IsInjective(q) /\ ToSet(q) = ToSet(list[h][c]) \ {s}
        /\ After(list[h][c], s) = First(q)
    <2>1. /\ Unlinked(list[h][c], s) \in Seq(Chunks) /\ IsInjective(Unlinked(list[h][c], s))
          /\ ToSet(Unlinked(list[h][c], s)) = ToSet(list[h][c]) \ {s}
      BY <1>2, UnlinkedOne
    <2>2. /\ Unlinked(list[h][c], Head(list[h][c])) = Tail(list[h][c])
          /\ After(list[h][c], Head(list[h][c])) = First(Tail(list[h][c]))
      BY <1>2, <1>3, UnlinkedHead, Constants
    <2>3. After(list[h][c], s) = First(Unlinked(list[h][c], s))
      BY <1>3, <2>2
    <2> QED
      BY <1>0, <2>1, <2>3
  <1>8. z \in Seq(Chunks) /\ IsInjective(z) /\ \A r : r \in ToSet(z) <=> (r \in ToSet(full[h]) \/ r = s)
    <2>1. s \notin ToSet(full[h])
      BY <1>2, <1>3, <1>4 DEF IInv, Match
    <2>2. full[h] \in Seq(Chunks) /\ IsInjective(full[h]) /\ s \in Chunks
      BY <1>2, <1>4
    <2>3. /\ Append(full[h], s) \in Seq(Chunks) /\ IsInjective(Append(full[h], s))
          /\ \A r : r \in ToSet(Append(full[h], s)) <=> (r \in ToSet(full[h]) \/ r = s)
      BY <2>1, <2>2, Appended
    <2> QED
      BY <1>0, <2>3
  <1>9. list' = [list EXCEPT ![h][c] = q] /\ full' = [full EXCEPT ![h] = z] /\ span' = [span EXCEPT ![s] = g]
    BY <1>0, <1>1 DEF IInv, TypeOK, SpansOK
  <1>10. live' \subseteq Chunks \X Nat
    BY <1>1 DEF IInv, TypeOK, SpansOK
  <1>11. Relinked(s, g, h, c, q, z)
    <2>1. \A r : r \in ToSet(q) <=> (r \in ToSet(list[h][c]) /\ r # s)
      BY <1>7
    <2>2. \A r \in Chunks : r # s => /\ r \in ToSet(q) <=> r \in ToSet(list[h][c])
                                     /\ r \in ToSet(z) <=> r \in ToSet(full[h])
      BY <1>8, <2>1
    <2>3. (s \in ToSet(q) <=> ~g.full) /\ (s \in ToSet(z) <=> g.full)
      BY <1>5, <1>8, <2>1
    <2> QED
      BY <1>3, <1>5, <1>7, <1>8, <1>9, <2>2, <2>3 DEF Relinked
  <1>12. /\ SpansOK' /\ Match' /\ span'[s] = g /\ Small' = Small
         /\ \A r : r # s => (r \in taken' <=> r \in taken)
         /\ \A r \in taken : r # s => span'[r] = span[r]
         /\ \A r \in Small : span'[r].owner = span[r].owner
    <2>1. UNCHANGED <<taken, made>>
      BY <1>1 DEF heaps
    <2> QED
      BY <1>3, <1>5, <1>10, <1>11, <2>1, MoveKeeps
  <1>13. First(q) \in Chunks \cup {NoSpan} /\ list'[h][c] = q
    <2>1. q = <<>> \/ Head(q) \in Chunks
      BY <1>7
    <2> QED
      BY <1>2, <1>9, <2>1 DEF First, IInv, TypeOK, SpansOK
  <1>14. ThreadsOK'
    BY <1>1, <1>7, <1>13 DEF IInv, TypeOK, ThreadsOK, heaps, remote
  <1>15. Blocks' /\ Exhausted'
    <2>1. \A r : Held(r)' = Held(r)
      BY <1>1 DEF Held
    <2>2. \A r : Pushing(r)' = Pushing(r)
      BY <1>1 DEF Pushing, IInv, TypeOK, ThreadsOK
    <2>3. \A h0 \in Heaps : Owned(h0)' => Owned(h0)
      BY <1>1 DEF Owned, heaps
    <2>4. UNCHANGED block
      BY <1>1 DEF remote
    <2>5. Sound(g, Held(s)', Pushing(s), block)
      BY <1>5, <2>1
    <2> QED
      BY <1>3, <1>5, <1>6, <1>12, <2>1, <2>2, <2>3, <2>4, <2>5, SpanKeeps
  <1>16. Known'
    <2>1. \A u \in Threads : u # t => /\ pc'[u] = pc[u] /\ class'[u] = class[u]
                                      /\ cur'[u] = cur[u] /\ walk'[u] = walk[u]
      BY <1>1 DEF IInv, TypeOK, ThreadsOK
    <2>2. cur'[t] = First(q) /\ pc'[t] = "list" /\ class'[t] = c /\ heap'[t] = h
      BY <1>0, <1>1, <1>7 DEF IInv, TypeOK, ThreadsOK, heaps
    <2>3. RefillAt(t)' /\ WalkAt(t)'
      BY <1>0, <1>2, <1>13, <2>2 DEF RefillAt, WalkAt, First
    <2>4. \A r \in Small : span[r].owner # heap[t] => r \in Small' /\ span'[r].owner = span[r].owner
      BY <1>0, <1>12
    <2>5. \A r \in Small' : span'[r].owner \in made
      BY <1>12 DEF IInv, Known, HeapsKnown
    <2>6. \A h0 \in Heaps : h0 # heap[t] => list'[h0] = list[h0]
      BY <1>0, <1>9 DEF IInv, TypeOK, SpansOK
    <2> QED
      BY <1>1, <2>1, <2>3, <2>4, <2>5, <2>6, KnownOne DEF IInv
  <1> QED
    BY <1>12, <1>14, <1>15, <1>16 DEF IInv, TypeOK

(* A full span to which nothing came back goes to the end. *)
LEMMA RefillScanMissKeeps ==
    ASSUME IInv, NEW t \in Threads, RefillScanMiss(t)
    PROVE  IInv'
  <1> SUFFICES ASSUME NEW s, s = Scanned(t), NEW h, h = heap[t], NEW z, z = Append(Tail(full[h]), s)
               PROVE  IInv'
    OBVIOUS
  <1>1. /\ pc[t] = "scan" /\ s # NoSpan /\ s = First(full[h]) /\ k[t] < ScanMax
        /\ full' = [full EXCEPT ![h] = z]
        /\ k' = [k EXCEPT ![t] = @ + 1] /\ start' = [start EXCEPT ![t] = IF @ = NoSpan THEN s ELSE @]
        /\ UNCHANGED <<heaps, list, taken, span, live, pc, class, cur, remote, walk>>
    BY DEF RefillScanMiss, Scanned, ScanNext
  <1>2. /\ h \in Heaps /\ h # NoHeap /\ full[h] \in Seq(Chunks) /\ IsInjective(full[h]) /\ class[t] \in Classes
    BY <1>1, Refilling
  <1>3. s \in Chunks /\ full[h] # <<>> /\ s = Head(full[h])
    BY <1>1, <1>2, FirstListed
  <1>4. z \in Seq(Chunks) /\ IsInjective(z) /\ ToSet(z) = ToSet(full[h])
    BY <1>2, <1>3, Rotated
  <1>5. ThreadsOK'
    <2>1. k[t] + 1 \in 0 .. ScanMax
      BY <1>1, Constants DEF IInv, TypeOK, ThreadsOK
    <2> QED
      BY <1>1, <1>3, <2>1 DEF IInv, TypeOK, ThreadsOK, heaps, remote
  <1>6. SpansOK' /\ Small' = Small
    BY <1>1, <1>4 DEF IInv, TypeOK, SpansOK, Small, heaps
  <1>7. Match'
    <2>1. ASSUME NEW g \in Heaps PROVE IsInjective(full'[g]) /\ ToSet(full'[g]) = ToSet(full[g])
      <3>1. full'[g] = IF g = h THEN z ELSE full[g]
        BY <1>1 DEF IInv, TypeOK, SpansOK
      <3> QED
        BY <1>4, <3>1 DEF IInv, Match
    <2> QED
      BY <1>1, <1>6, <2>1 DEF IInv, Match
  <1>8. Blocks'
    BY <1>1, BlocksSame DEF IInv, remote
  <1>9. Exhausted'
    BY <1>1, <1>6 DEF IInv, Exhausted, Serves, Owned, heaps
  <1>10. Known'
    BY <1>1, <1>6 DEF IInv, Known, HeapsKnown, RefillAt, WalkAt, heaps, First
  <1> QED
    BY <1>5, <1>6, <1>7, <1>8, <1>9, <1>10 DEF IInv, TypeOK

(* A full span with blocks freed by others serves again. *)
LEMMA RefillScanHitKeeps ==
    ASSUME IInv, NEW t \in Threads, RefillScanHit(t)
    PROVE  IInv'
  <1>0. SUFFICES ASSUME NEW s, s = Scanned(t), NEW h, h = heap[t], NEW m,
                        m = [Drained(span[s]) EXCEPT !.full = FALSE], NEW c, c = m.class,
                        NEW q, q = <<s>> \o list[h][c], NEW z, z = Unlinked(full[h], s)
                 PROVE  IInv'
    OBVIOUS
  <1>1. /\ pc[t] = "scan" /\ s # NoSpan /\ s = First(full[h]) /\ k[t] < ScanMax
        /\ span[s].remote # <<>>
        /\ full' = [full EXCEPT ![h] = z] /\ UNCHANGED <<heaps, taken, remote, walk>>
        /\ IF m.class = class[t]
           THEN Got(t, s, m)
           ELSE /\ span' = [span EXCEPT ![s] = m]
                /\ list' = [list EXCEPT ![h][c] = <<s>> \o @]
                /\ k' = [k EXCEPT ![t] = @ + 1]
                /\ start' = [start EXCEPT ![t] = IF @ = NoSpan THEN s ELSE @]
                /\ UNCHANGED <<live, pc, class, cur>>
    BY <1>0 DEF RefillScanHit, Scanned, ScanNext, full_unlink, list_insert_head
  <1>2. /\ h \in Heaps /\ h # NoHeap /\ class[t] \in Classes
        /\ full[h] \in Seq(Chunks) /\ IsInjective(full[h]) /\ list[h][class[t]] = <<>>
    BY <1>0, <1>1, Refilling
  <1>3. s \in Small /\ span[s].owner = h /\ span[s].full
    <2>1. First(full[h]) # NoSpan
      BY <1>1
    <2>2. /\ First(full[h]) \in Small /\ span[First(full[h])].owner = h /\ span[First(full[h])].full
      BY <1>2, <2>1, FirstListed
    <2> QED
      BY <1>1, <2>2
  <1>4. /\ s \in Chunks /\ s \in taken /\ span[s] \in Header /\ span[s].class \in Classes
        /\ Sound(span[s], Held(s), Pushing(s), block) /\ Pushing(s) \in SUBSET Threads
    BY <1>3, Facts
  <1>5. /\ Drained(span[s]) \in Header /\ Sound(Drained(span[s]), Held(s), Pushing(s), block)
        /\ Drained(span[s]).owner = h /\ Drained(span[s]).class = span[s].class
        /\ Serves(Drained(span[s]))
    BY <1>1, <1>3, <1>4, SoundDrained
  <1>6. /\ m \in Header /\ m.owner = h /\ m.class = span[s].class /\ ~m.full /\ Serves(m) /\ c \in Classes
        /\ Sound(m, Held(s), Pushing(s), block)
    <2>1. /\ m \in Header /\ m.owner = h /\ m.class = span[s].class /\ m.full = FALSE
          /\ Sound(m, Held(s), Pushing(s), block) /\ m.free = Drained(span[s]).free
          /\ m.bump = Drained(span[s]).bump
      BY <1>0, <1>5, SoundMoved
    <2>2. Serves(m)
      BY <1>5, <2>1 DEF Serves
    <2> QED
      BY <1>0, <1>4, <2>1, <2>2
  <1>7. z \in Seq(Chunks) /\ IsInjective(z) /\ \A r : r \in ToSet(z) <=> (r \in ToSet(full[h]) /\ r # s)
    <2>1. z \in Seq(Chunks) /\ IsInjective(z) /\ ToSet(z) = ToSet(full[h]) \ {s}
      BY <1>0, <1>2, UnlinkedOne
    <2> QED
      BY <2>1
  <1>8. CASE m.class = class[t]
    <2>1. Got(t, s, m) /\ UNCHANGED <<heaps, remote, walk>> /\ taken' = taken \cup {s}
      BY <1>1, <1>4, <1>8
    <2>2. /\ pc[t] \in {"list", "scan", "create"} /\ m.owner = heap[t] /\ m.class \in Classes
          /\ heap[t] \in Heaps /\ full' = [full EXCEPT ![heap[t]] = z]
      BY <1>0, <1>1, <1>2, <1>6
    <2>3. s \in Small => span[s].owner = heap[t] /\ span[s].class = m.class
      BY <1>0, <1>3, <1>6
    <2>4. \A r \in Chunks : r \in ToSet(z) <=> (r \in ToSet(full[heap[t]]) /\ r # s)
      BY <1>0, <1>7
    <2> QED
      BY <1>4, <1>6, <1>7, <2>1, <2>2, <2>3, <2>4, GotKeeps
  <1>9. CASE m.class # class[t]
    <2>1. /\ span' = [span EXCEPT ![s] = m] /\ list' = [list EXCEPT ![h][c] = q]
          /\ k' = [k EXCEPT ![t] = @ + 1]
          /\ start' = [start EXCEPT ![t] = IF @ = NoSpan THEN s ELSE @]
          /\ UNCHANGED <<live, pc, class, cur>>
      BY <1>0, <1>1, <1>9 DEF IInv, TypeOK, SpansOK
    <2>2. list[h][c] \in Seq(Chunks) /\ IsInjective(list[h][c]) /\ s \notin ToSet(list[h][c])
      BY <1>2, <1>3, <1>4, <1>6 DEF IInv, TypeOK, SpansOK, Match
    <2>3. q \in Seq(Chunks) /\ IsInjective(q) /\ ToSet(q) = ToSet(list[h][c]) \cup {s}
      <3>1. /\ <<s>> \o list[h][c] \in Seq(Chunks) /\ IsInjective(<<s>> \o list[h][c])
            /\ ToSet(<<s>> \o list[h][c]) = ToSet(list[h][c]) \cup {s}
        BY <1>4, <2>2, Linked
      <3> QED
        BY <1>0, <3>1
    <2>4. Relinked(s, m, h, c, q, z)
      <3>1. \A r \in Chunks : r # s => /\ r \in ToSet(q) <=> r \in ToSet(list[h][c])
                                       /\ r \in ToSet(z) <=> r \in ToSet(full[h])
        BY <1>7, <2>3
      <3>2. (s \in ToSet(q) <=> ~m.full) /\ (s \in ToSet(z) <=> m.full)
        BY <1>6, <1>7, <2>3
      <3>3. m.owner = h /\ m.class = c /\ span[s].owner = h /\ span[s].class = c
        BY <1>0, <1>3, <1>6
      <3> QED
        BY <1>1, <1>7, <2>1, <2>3, <3>1, <3>2, <3>3 DEF Relinked
    <2>5. /\ SpansOK' /\ Match' /\ span'[s] = m /\ Small' = Small
          /\ \A r : r # s => (r \in taken' <=> r \in taken)
          /\ \A r \in taken : r # s => span'[r] = span[r]
          /\ \A r \in Small : span'[r].owner = span[r].owner
      <3>1. UNCHANGED <<taken, made>> /\ live' \subseteq Chunks \X Nat
        BY <1>1, <2>1 DEF heaps, IInv, TypeOK, SpansOK
      <3> QED
        BY <1>3, <1>6, <2>4, <3>1, MoveKeeps
    <2>6. ThreadsOK'
      <3>1. k[t] + 1 \in 0 .. ScanMax
        BY <1>1, Constants DEF IInv, TypeOK, ThreadsOK
      <3> QED
        BY <1>1, <1>4, <2>1, <3>1 DEF IInv, TypeOK, ThreadsOK, heaps, remote
    <2>7. Blocks' /\ Exhausted'
      <3>1. \A r : Held(r)' = Held(r)
        BY <2>1 DEF Held
      <3>2. \A r : Pushing(r)' = Pushing(r)
        BY <2>1 DEF Pushing
      <3>3. \A h0 \in Heaps : Owned(h0)' => Owned(h0)
        BY <1>1, <2>1 DEF Owned, heaps
      <3>4. UNCHANGED block
        BY <1>1 DEF remote
      <3>5. Sound(m, Held(s)', Pushing(s), block)
        BY <1>6, <3>1
      <3> QED
        BY <1>3, <1>6, <2>5, <3>1, <3>2, <3>3, <3>4, <3>5, SpanKeeps
    <2>8. Known'
      <3>1. \A h0 \in Heaps : h0 # heap[t] => list'[h0] = list[h0]
        BY <1>0, <2>1 DEF IInv, TypeOK, SpansOK
      <3>2. list'[h][class[t]] = list[h][class[t]]
        BY <1>0, <1>2, <1>6, <1>9, <2>1 DEF IInv, TypeOK, SpansOK
      <3>3. pc'[t] = "scan" /\ class'[t] = class[t] /\ heap'[t] = h
        BY <1>0, <1>1, <2>1 DEF heaps
      <3>4. RefillAt(t)' /\ WalkAt(t)'
        BY <1>2, <3>2, <3>3 DEF RefillAt, WalkAt
      <3>5. \A r \in Small : span[r].owner # heap[t] => r \in Small' /\ span'[r].owner = span[r].owner
        BY <2>5
      <3>6. \A r \in Small' : span'[r].owner \in made
        BY <2>5 DEF IInv, Known, HeapsKnown
      <3>7. \A u \in Threads : u # t => /\ pc'[u] = pc[u] /\ class'[u] = class[u]
                                        /\ cur'[u] = cur[u] /\ walk'[u] = walk[u]
        BY <1>1, <2>1
      <3> QED
        BY <1>1, <3>1, <3>4, <3>5, <3>6, <3>7, KnownOne DEF IInv
    <2> QED
      BY <2>5, <2>6, <2>7, <2>8 DEF IInv, TypeOK
  <1> QED
    BY <1>8, <1>9

(* A heap made for a thread is nobody else's. *)
LEMMA GetHeapKeeps ==
    ASSUME IInv, NEW t \in Threads, GetHeap(t)
    PROVE  IInv'
  <1>1. PICK h \in Heaps \ made : heap' = [heap EXCEPT ![t] = h] /\ made' = made \cup {h}
    BY DEF GetHeap
  <1>2. /\ pc[t] = "out" /\ heap[t] = NoHeap
        /\ UNCHANGED <<lists, taken, span, live, pc, refill, remote, walk>>
    BY DEF GetHeap
  <1>3. heap'[t] = h /\ \A u \in Threads : u # t => heap'[u] = heap[u]
    BY <1>1 DEF IInv, TypeOK, ThreadsOK
  <1>4. ThreadsOK' /\ SpansOK' /\ Small' = Small /\ Match'
    BY <1>1, <1>2 DEF IInv, TypeOK, ThreadsOK, SpansOK, Match, lists, refill, remote, Small
  <1>5. Blocks'
    BY <1>2, BlocksSame DEF IInv, refill, remote
  <1>6. Exhausted'
    <2>1. ASSUME NEW s \in Small PROVE Owned(span[s].owner)' => Owned(span[s].owner)
      <3>1. span[s].owner \in made
        BY DEF IInv, Known, HeapsKnown
      <3>2. span[s].owner # h /\ span' = span
        BY <1>1, <1>2, <3>1
      <3> QED
        BY <1>2, <1>3, <3>2 DEF Owned
    <2>2. \A s \in Small : span[s].owner \in Heaps /\ (span[s].full /\ Owned(span[s].owner) => ~Serves(span[s]))
      BY DEF IInv, Exhausted
    <2>3. span' = span
      BY <1>2
    <2> QED
      BY <1>4, <2>1, <2>2, <2>3 DEF Exhausted, Serves
  <1>7. Known'
    <2>1. HeapsKnown'
      BY <1>1, <1>2, <1>3, <1>4, Constants DEF IInv, Known, HeapsKnown
    <2>2. ASSUME NEW u \in Threads PROVE RefillAt(u)' /\ WalkAt(u)'
      <3>1. CASE u = t
        BY <1>2, <3>1 DEF RefillAt, WalkAt
      <3>2. CASE u # t
        BY <1>2, <1>3, <1>4, <3>2 DEF IInv, Known, RefillAt, WalkAt, First, refill, lists
      <3> QED
        BY <3>1, <3>2
    <2> QED
      BY <2>1, <2>2 DEF Known
  <1> QED
    BY <1>4, <1>5, <1>6, <1>7 DEF IInv, TypeOK

(* The heap is left without a thread. *)
LEMMA EndedKeeps ==
    ASSUME IInv, NEW t \in Threads, Ended(t)
    PROVE  IInv'
  <1>1. /\ pc[t] = "end" /\ heap' = [heap EXCEPT ![t] = NoHeap] /\ pc' = [pc EXCEPT ![t] = "out"]
        /\ UNCHANGED <<made, lists, taken, span, live, refill, remote, walk>>
    BY DEF Ended, Goto
  <1>2. /\ heap'[t] = NoHeap /\ pc'[t] = "out"
        /\ \A u \in Threads : u # t => heap'[u] = heap[u] /\ pc'[u] = pc[u]
    BY <1>1 DEF IInv, TypeOK, ThreadsOK
  <1>3. ThreadsOK' /\ SpansOK' /\ Small' = Small /\ Match'
    BY <1>1 DEF IInv, TypeOK, ThreadsOK, SpansOK, Match, lists, refill, remote, Small
  <1>4. Blocks'
    <2>1. \A u \in Threads : pc'[u] = "push" <=> pc[u] = "push"
      BY <1>1, <1>2
    <2> QED
      BY <1>1, <2>1, BlocksSame DEF IInv, refill, remote
  <1>5. Exhausted'
    <2>1. ASSUME NEW s \in Small PROVE Owned(span[s].owner)' => Owned(span[s].owner)
      <3>1. span[s].owner # NoHeap /\ span' = span
        BY <1>1, Constants DEF IInv, Exhausted
      <3> QED
        BY <1>2, <3>1 DEF Owned
    <2>2. \A s \in Small : span[s].owner \in Heaps /\ (span[s].full /\ Owned(span[s].owner) => ~Serves(span[s]))
      BY DEF IInv, Exhausted
    <2>3. span' = span
      BY <1>1
    <2> QED
      BY <1>3, <2>1, <2>2, <2>3 DEF Exhausted, Serves
  <1>6. Known'
    <2>1. HeapsKnown'
      BY <1>1, <1>2, <1>3 DEF IInv, Known, HeapsKnown
    <2>2. ASSUME NEW u \in Threads PROVE RefillAt(u)' /\ WalkAt(u)'
      <3>1. CASE u = t
        BY <1>2, <3>1 DEF RefillAt, WalkAt
      <3>2. CASE u # t
        BY <1>1, <1>2, <1>3, <3>2 DEF IInv, Known, RefillAt, WalkAt, First, refill, lists
      <3> QED
        BY <3>1, <3>2
    <2> QED
      BY <2>1, <2>2 DEF Known
  <1> QED
    BY <1>3, <1>4, <1>5, <1>6 DEF IInv, TypeOK

(* A large allocation comes or goes: no heap knows of it. *)
LEMMA LargeKeeps ==
    ASSUME IInv, NEW s \in Chunks, s \notin Small, Small' = Small, NEW g \in Header,
           span' = [span EXCEPT ![s] = g], taken' \subseteq Chunks, live' \subseteq Chunks \X Nat,
           UNCHANGED <<heaps, lists, pc, refill, remote, walk>>, Blocks'
    PROVE  IInv'
  <1>1. /\ \A r \in Small : span'[r] = span[r] /\ span' \in [Chunks -> Header]
    BY DEF IInv, TypeOK, SpansOK, Small
  <1>2. ThreadsOK' /\ SpansOK'
    <2>1. span' \in [Chunks -> Header]
      BY DEF IInv, TypeOK, SpansOK
    <2>2. ThreadsOK'
      BY DEF IInv, TypeOK, ThreadsOK, heaps, refill, remote
    <2> QED
      BY <2>1, <2>2 DEF IInv, TypeOK, SpansOK, heaps, lists
  <1>3. Match'
    BY <1>1 DEF IInv, Match, lists
  <1>4. Exhausted'
    <2>1. \A r \in Small' : r # s => r \in Small /\ span'[r] = span[r]
      BY <1>1
    <2>2. \A h \in Heaps : Owned(h)' => Owned(h)
      BY DEF Owned, heaps
    <2>3. s \notin Small'
      OBVIOUS
    <2> QED
      BY <2>1, <2>2, <2>3, ExhaustedOne DEF IInv
  <1>5. Known'
    BY <1>1 DEF IInv, Known, HeapsKnown, RefillAt, WalkAt, First, heaps, lists, refill
  <1> QED
    BY <1>2, <1>3, <1>4, <1>5 DEF IInv, TypeOK

(* An empty header. *)
LEMMA BlankHeader ==
    Blank \in Header /\ [Blank EXCEPT !.used = 1] \in Header /\ Blank.class = Large
        /\ [Blank EXCEPT !.used = 1].class = Large
  <1>1. <<>> \in Seq(Nat) /\ {} \in SUBSET Nat /\ FALSE \in BOOLEAN
    OBVIOUS
  <1> QED
    BY <1>1 DEF Blank, Header

(* A large block is a chunk that nobody has ... *)
LEMMA AllocLargeKeeps ==
    ASSUME IInv, NEW t \in Threads, AllocLarge(t)
    PROVE  IInv'
  <1>1. PICK s \in Chunks \ taken : /\ taken' = taken \cup {s} /\ live' = live \cup {<<s, 1>>}
                                    /\ span' = [span EXCEPT ![s] = [Blank EXCEPT !.used = 1]]
    BY DEF AllocLarge
  <1>2. UNCHANGED <<heaps, lists, pc, refill, remote, walk>>
    BY DEF AllocLarge
  <1>3. Held(s) = {} /\ Pushing(s) = {}
    BY DEF IInv, Blocks
  <1>4. live' \subseteq Chunks \X Nat /\ Held(s)' = {1} /\ \A r : r # s => Held(r)' = Held(r)
    <2>1. SpansOK /\ 1 \in Nat /\ s \in Chunks
      BY DEF IInv, TypeOK
    <2>2. live' \subseteq Chunks \X Nat /\ Held(s)' = Held(s) \cup {1} /\ \A r : r # s => Held(r)' = Held(r)
      BY <1>1, <2>1, HeldMore
    <2> QED
      BY <1>3, <2>2
  <1>5. \A r : Pushing(r)' = Pushing(r)
    BY <1>2 DEF Pushing, refill
  <1>6. /\ \A r : r # s => (r \in taken' <=> r \in taken)
        /\ \A r \in taken : r # s => span'[r] = span[r]
        /\ span'[s].class = Large /\ s \in taken'
    BY <1>1, BlankHeader DEF IInv, TypeOK, SpansOK
  <1>7. Small' = Small /\ s \notin Small
    BY <1>6 DEF Small
  <1>8. Blocks'
    <2>1. \A r, u : r # s /\ u \in Pushing(r) => block'[u] = block[u]
      BY <1>2 DEF remote
    <2>2. TypeOK /\ Blocks
      BY DEF IInv
    <2>3. s \in taken' /\ span'[s].class = Large /\ Held(s)' = {1} /\ Pushing(s)' = {}
      BY <1>3, <1>4, <1>5, <1>6
    <2>4. \A r : r # s => Held(r)' = Held(r) /\ Pushing(r)' = Pushing(r)
      BY <1>4, <1>5
    <2> QED
      BY <1>6, <2>1, <2>2, <2>3, <2>4, BlocksOne
  <1>9. taken' \subseteq Chunks
    BY <1>1 DEF IInv, TypeOK, SpansOK
  <1> QED
    BY <1>1, <1>2, <1>4, <1>7, <1>8, <1>9, BlankHeader, LargeKeeps

(* ... and leaves nothing behind. *)
LEMMA FreeLargeKeeps ==
    ASSUME IInv, NEW t \in Threads, NEW s, FreeLarge(t, s)
    PROVE  IInv'
  <1>1. /\ <<s, 1>> \in live /\ span[s].class = Large /\ live' = live \ {<<s, 1>>}
        /\ taken' = taken \ {s} /\ span' = [span EXCEPT ![s] = Blank]
        /\ UNCHANGED <<heaps, lists, pc, refill, remote, walk>>
    BY DEF FreeLarge, Release
  <1>2. s \in Chunks /\ s \notin Small
    BY <1>1 DEF IInv, TypeOK, SpansOK, Small
  <1>3. live' \subseteq Chunks \X Nat /\ Held(s)' = Held(s) \ {1} /\ 1 \in Held(s)
        /\ \A r : r # s => Held(r)' = Held(r)
    <2>1. SpansOK /\ 1 \in Nat
      BY DEF IInv, TypeOK
    <2> QED
      BY <1>1, <1>2, <2>1, HeldLess
  <1>4. s \in taken /\ Held(s) = {1} /\ Pushing(s) = {}
    <2>1. s \in taken
      BY <1>2, <1>3 DEF IInv, Blocks
    <2>2. Held(s) = {1}
      BY <1>2, <2>1 DEF IInv, Blocks
    <2>3. Pushing(s) = {}
      BY <1>2 DEF IInv, Blocks, Pushing
    <2> QED
      BY <2>1, <2>2, <2>3
  <1>5. \A r : Pushing(r)' = Pushing(r)
    BY <1>1 DEF Pushing, refill
  <1>6. /\ \A r : r # s => (r \in taken' <=> r \in taken)
        /\ \A r \in taken : r # s => span'[r] = span[r]
        /\ s \notin taken' /\ taken' \subseteq Chunks
    BY <1>1 DEF IInv, TypeOK, SpansOK
  <1>7. Small' = Small
    BY <1>2, <1>6 DEF Small
  <1>8. Blocks'
    <2>1. \A r, u : r # s /\ u \in Pushing(r) => block'[u] = block[u]
      BY <1>1 DEF remote
    <2>2. TypeOK /\ Blocks
      BY DEF IInv
    <2>3. s \notin taken' /\ Held(s)' = {} /\ Pushing(s)' = {}
      BY <1>3, <1>4, <1>5, <1>6
    <2>4. \A r : r # s => Held(r)' = Held(r) /\ Pushing(r)' = Pushing(r)
      BY <1>3, <1>5
    <2> QED
      BY <1>6, <2>1, <2>2, <2>3, <2>4, BlocksOne
  <1> QED
    BY <1>1, <1>2, <1>3, <1>6, <1>7, <1>8, BlankHeader, LargeKeeps

(* A block the program holds, of no large allocation, is of a span in use. *)
LEMMA HeldSmall ==
    ASSUME IInv, NEW s, NEW i, <<s, i>> \in live, span[s].class # Large
    PROVE  s \in Small /\ s \in Chunks /\ i \in Nat
  <1>1. s \in Chunks /\ i \in Nat
    BY DEF IInv, TypeOK, SpansOK
  <1>2. i \in Held(s)
    <2>1. live \subseteq Chunks \X Nat
      BY DEF IInv, TypeOK, SpansOK
    <2> QED
      BY <2>1, InHeld DEF Held, HeldOf
  <1>3. s \in taken
    BY <1>1, <1>2 DEF IInv, Blocks
  <1> QED
    BY <1>1, <1>3 DEF Small

(* A block leaves the program and is on its way. *)
LEMMA FreeRemoteKeeps ==
    ASSUME IInv, NEW t \in Threads, NEW s, NEW i, FreeRemote(t, s, i)
    PROVE  IInv'
  <1>1. /\ pc[t] = "out" /\ <<s, i>> \in live /\ span[s].class # Large
        /\ live' = live \ {<<s, i>>}
        /\ cur' = [cur EXCEPT ![t] = s] /\ block' = [block EXCEPT ![t] = i]
        /\ seen' = [seen EXCEPT ![t] = Top(s)] /\ pc' = [pc EXCEPT ![t] = "push"]
        /\ UNCHANGED <<heaps, lists, taken, span, class, k, start, walk>>
    BY DEF FreeRemote, Goto
  <1>2. s \in Small /\ s \in Chunks /\ i \in Nat
    BY <1>1, HeldSmall
  <1>3. /\ s \in taken /\ span[s] \in Header /\ Sound(span[s], Held(s), Pushing(s), block)
        /\ Pushing(s) \in SUBSET Threads
    BY <1>2, Facts
  <1>4. live' \subseteq Chunks \X Nat /\ Held(s)' = Held(s) \ {i} /\ i \in Held(s)
        /\ \A r : r # s => Held(r)' = Held(r)
    <2>1. SpansOK
      BY DEF IInv, TypeOK
    <2> QED
      BY <1>1, <1>2, <2>1, HeldLess
  <1>5. /\ pc'[t] = "push" /\ cur'[t] = s
        /\ \A u \in Threads : u # t => pc'[u] = pc[u] /\ cur'[u] = cur[u]
    BY <1>1 DEF IInv, TypeOK, ThreadsOK
  <1>6. Pushing(s)' = Pushing(s) \cup {t} /\ t \notin Pushing(s)
    BY <1>1, <1>5 DEF Pushing
  <1>7. \A r : r # s => Pushing(r)' = Pushing(r)
    <2>1. ASSUME NEW r, r # s, NEW u PROVE u \in Pushing(r)' <=> u \in Pushing(r)
      BY <1>1, <1>5, <2>1 DEF Pushing
    <2> QED
      BY <2>1
  <1>8. Small' = Small
    BY <1>1 DEF Small
  <1>9. ThreadsOK'
    <2>1. Top(s) \in Nat
      <3>1. span[s].remote \in Seq(Nat)
        BY <1>3 DEF Header
      <3> QED
        BY <3>1 DEF Top
    <2> QED
      BY <1>1, <1>2, <2>1 DEF IInv, TypeOK, ThreadsOK, heaps
  <1>10. SpansOK' /\ Match'
    BY <1>1, <1>4, <1>8 DEF IInv, TypeOK, SpansOK, Match, heaps, lists
  <1>11. Blocks'
    <2>1. Sound(span'[s], Held(s)', Pushing(s)', block')
      <3>1. block \in [Threads -> Nat] /\ t \in Threads \ Pushing(s)
        BY <1>6 DEF IInv, TypeOK, ThreadsOK
      <3>2. Sound(span[s], Held(s) \ {i}, Pushing(s) \cup {t}, [block EXCEPT ![t] = i])
        BY <1>3, <1>4, <3>1, SoundRemote
      <3>3. span'[s] = span[s]
        BY <1>1
      <3> QED
        BY <1>1, <1>4, <1>6, <3>2, <3>3
    <2>2. \A r, u : r # s /\ u \in Pushing(r) => block'[u] = block[u]
      BY <1>1 DEF Pushing, IInv, TypeOK, ThreadsOK
    <2>3. TypeOK /\ Blocks
      BY DEF IInv
    <2>4. \A r : r # s => Held(r)' = Held(r) /\ Pushing(r)' = Pushing(r)
      BY <1>4, <1>7
    <2>5. /\ \A r : r # s => (r \in taken' <=> r \in taken)
          /\ \A r \in taken : r # s => span'[r] = span[r]
          /\ s \in taken' /\ span'[s].class # Large
      BY <1>1, <1>3
    <2> QED
      BY <2>1, <2>2, <2>3, <2>4, <2>5, BlocksOne
  <1>12. Exhausted'
    <2>1. \A h \in Heaps : Owned(h)' => Owned(h)
      BY <1>1, <1>5 DEF Owned, heaps
    <2>2. \A r \in Small' : r # s => r \in Small /\ span'[r] = span[r]
      BY <1>1, <1>8
    <2>3. /\ span'[s].owner \in Heaps
          /\ span'[s].full => ~Serves(span'[s]) \/ ~Owned(span[s].owner)'
      <3>1. span[s].owner \in Heaps /\ (span[s].full => ~Serves(span[s]) \/ ~Owned(span[s].owner))
        BY <1>2 DEF IInv, Exhausted
      <3>2. span' = span
        BY <1>1
      <3>3. Owned(span[s].owner)' => Owned(span[s].owner)
        BY <1>1, <1>5, <3>2 DEF Owned, heaps
      <3> QED
        BY <3>1, <3>2, <3>3
    <2> QED
      BY <2>1, <2>2, <2>3, ExhaustedOne DEF IInv
  <1>13. Known'
    <2>1. \A u \in Threads : u # t => /\ pc'[u] = pc[u] /\ class'[u] = class[u]
                                      /\ cur'[u] = cur[u] /\ walk'[u] = walk[u]
      BY <1>1, <1>5
    <2>2. RefillAt(t)' /\ WalkAt(t)'
      BY <1>5 DEF RefillAt, WalkAt
    <2>3. \A r \in Small : span[r].owner # heap[t] => r \in Small' /\ span'[r].owner = span[r].owner
      BY <1>1, <1>8
    <2>4. \A r \in Small' : span'[r].owner \in made
      BY <1>1, <1>8 DEF IInv, Known, HeapsKnown
    <2>5. \A h \in Heaps : h # heap[t] => list'[h] = list[h]
      BY <1>1 DEF lists
    <2> QED
      BY <1>1, <2>1, <2>2, <2>3, <2>4, <2>5, KnownOne DEF IInv
  <1> QED
    BY <1>9, <1>10, <1>11, <1>12, <1>13 DEF IInv, TypeOK

(* The push arrives, or is tried again. *)
LEMMA RemotePushKeeps ==
    ASSUME IInv, NEW t \in Threads, RemotePush(t)
    PROVE  IInv'
  <1>0. SUFFICES ASSUME NEW s, s = cur[t], NEW i, i = block[t],
                        NEW g, g = PushedOn(span[s], i)
                 PROVE  IInv'
    OBVIOUS
  <1>1. pc[t] = "push" /\ UNCHANGED <<heaps, lists, taken, live, class, k, start, walk>>
    BY DEF RemotePush
  <1>2. s \in Small /\ t \in Pushing(s)
    BY <1>0, <1>1 DEF IInv, Blocks, Pushing
  <1>3. /\ s \in Chunks /\ s \in taken /\ span[s] \in Header /\ span[s].class \in Classes
        /\ span[s].owner \in Heaps /\ Sound(span[s], Held(s), Pushing(s), block)
        /\ Pushing(s) \in SUBSET Threads
    BY <1>2, Facts
  <1>4. CASE Top(s) # seen[t]
    <2>1. /\ seen' = [seen EXCEPT ![t] = Top(s)] /\ UNCHANGED <<span, cur, block, pc>>
      BY <1>0, <1>4 DEF RemotePush
    <2>2. Top(s) \in Nat
      <3>1. span[s].remote \in Seq(Nat)
        BY <1>3 DEF Header
      <3> QED
        BY <3>1 DEF Top
    <2>3. ThreadsOK' /\ SpansOK' /\ Match' /\ Small' = Small
      BY <1>1, <2>1, <2>2 DEF IInv, TypeOK, ThreadsOK, SpansOK, Match, heaps, lists, Small
    <2>4. Blocks'
      BY <1>1, <2>1, BlocksSame DEF IInv
    <2>5. Exhausted' /\ Known'
      BY <1>1, <2>1, <2>3 DEF IInv, Exhausted, Known, HeapsKnown, RefillAt, WalkAt, Owned, Serves, First,
         heaps, lists
    <2> QED
      BY <2>3, <2>4, <2>5 DEF IInv, TypeOK
  <1>5. CASE Top(s) = seen[t]
    <2>1. /\ span' = [span EXCEPT ![s] = g] /\ cur' = [cur EXCEPT ![t] = NoSpan]
          /\ block' = [block EXCEPT ![t] = 0] /\ seen' = [seen EXCEPT ![t] = 0]
          /\ pc' = [pc EXCEPT ![t] = "out"]
      BY <1>0, <1>5 DEF RemotePush, Goto, IInv, TypeOK, SpansOK, PushedOn
    <2>2. block \in [Threads -> Nat]
      BY DEF IInv, TypeOK, ThreadsOK
    <2>3. /\ Sound(g, Held(s), Pushing(s) \ {t}, [block EXCEPT ![t] = 0]) /\ g \in Header
          /\ g.owner = span[s].owner /\ g.class = span[s].class /\ g.full = span[s].full
          /\ g.free = span[s].free /\ g.bump = span[s].bump
      <3>1. span[s] \in Header /\ Pushing(s) \in SUBSET Threads /\ t \in Pushing(s)
        BY <1>2, <1>3
      <3>2. g = PushedOn(span[s], block[t])
        BY <1>0
      <3>3. Sound(span[s], Held(s), Pushing(s), block)
        BY <1>3
      <3>4. Sound(PushedOn(span[s], block[t]), Held(s), Pushing(s) \ {t}, [block EXCEPT ![t] = 0])
        BY <2>2, <3>1, <3>3, SoundPush
      <3>5. /\ g \in Header
            /\ g.owner = span[s].owner /\ g.class = span[s].class /\ g.full = span[s].full
            /\ g.free = span[s].free /\ g.bump = span[s].bump
        <4>1. block[t] \in Nat
          BY <2>2
        <4>2. ASSUME NEW m, m = span[s], NEW j, j = block[t]
              PROVE  /\ g \in Header
                     /\ g.owner = m.owner /\ g.class = m.class /\ g.full = m.full
                     /\ g.free = m.free /\ g.bump = m.bump
          <5>1. m \in Header /\ j \in Nat /\ g = PushedOn(m, j)
            BY <3>1, <3>2, <4>1, <4>2
          <5> QED
            BY ONLY <5>1, PushedFields
        <4> QED
          BY <4>2
      <3> QED
        BY <3>2, <3>4, <3>5
    <2>4. /\ SpansOK' /\ Match' /\ span'[s] = g /\ Small' = Small
          /\ \A r : r # s => (r \in taken' <=> r \in taken)
          /\ \A r \in taken : r # s => span'[r] = span[r]
          /\ \A r \in Small : span'[r].owner = span[r].owner
      <3>1. UNCHANGED <<lists, taken, made>> /\ live' \subseteq Chunks \X Nat
        BY <1>1 DEF heaps, IInv, TypeOK, SpansOK
      <3> QED
        BY <1>2, <2>1, <2>3, <3>1, HeaderKeeps
    <2>5. ThreadsOK'
      BY <1>1, <2>1 DEF IInv, TypeOK, ThreadsOK, heaps
    <2>6. pc'[t] = "out" /\ \A u \in Threads : u # t => pc'[u] = pc[u] /\ cur'[u] = cur[u]
      BY <2>1 DEF IInv, TypeOK, ThreadsOK
    <2>7. Pushing(s)' = Pushing(s) \ {t}
      BY <2>6 DEF Pushing
    <2>8. \A r : r # s => Pushing(r)' = Pushing(r)
      <3>1. ASSUME NEW r, r # s, NEW u PROVE u \in Pushing(r)' <=> u \in Pushing(r)
        BY <1>0, <2>6, <3>1 DEF Pushing
      <3> QED
        BY <3>1
    <2>9. \A r : Held(r)' = Held(r)
      BY <1>1 DEF Held
    <2>10. Blocks'
      <3>1. s \in taken' /\ span'[s].class # Large
        BY <1>1, <1>3, <2>3, <2>4, Constants
      <3>2. Sound(span'[s], Held(s)', Pushing(s)', block')
        BY <2>1, <2>3, <2>4, <2>7, <2>9
      <3>3. \A r, u : r # s /\ u \in Pushing(r) => block'[u] = block[u]
        BY <1>0, <2>1 DEF Pushing, IInv, TypeOK, ThreadsOK
      <3>4. TypeOK /\ Blocks
        BY DEF IInv
      <3>5. \A r : r # s => Held(r)' = Held(r) /\ Pushing(r)' = Pushing(r)
        BY <2>8, <2>9
      <3>6. /\ \A r : r # s => (r \in taken' <=> r \in taken)
            /\ \A r \in taken : r # s => span'[r] = span[r]
        BY <2>4
      <3> QED
        BY <3>1, <3>2, <3>3, <3>4, <3>5, <3>6, BlocksOne
    <2>11. Exhausted'
      <3>1. \A h \in Heaps : Owned(h)' => Owned(h)
        BY <1>1, <2>6 DEF Owned, heaps
      <3>2. \A r \in Small' : r # s => r \in Small /\ span'[r] = span[r]
        BY <2>4 DEF Small
      <3>3. span[s].full => ~Serves(span[s]) \/ ~Owned(span[s].owner)
        BY <1>2 DEF IInv, Exhausted
      <3>4. Owned(span[s].owner)' => Owned(span[s].owner)
        <4>1. Owned(span[s].owner)' <=> \E u \in Threads : heap'[u] = span'[s].owner /\ pc'[u] # "end"
          BY DEF Owned
        <4> QED
          BY <1>1, <2>3, <2>4, <2>6, <4>1 DEF Owned, heaps
      <3>5. span'[s].full => ~Serves(span'[s]) \/ ~Owned(span[s].owner)
        BY <2>3, <2>4, <3>3 DEF Serves
      <3>6. span'[s].owner \in Heaps
        BY <1>3, <2>3, <2>4
      <3> QED
        BY <3>1, <3>2, <3>4, <3>5, <3>6, ExhaustedOne DEF IInv
    <2>12. Known'
      <3>1. \A u \in Threads : u # t => /\ pc'[u] = pc[u] /\ class'[u] = class[u]
                                        /\ cur'[u] = cur[u] /\ walk'[u] = walk[u]
        BY <1>1, <2>6
      <3>2. RefillAt(t)' /\ WalkAt(t)'
        BY <2>6 DEF RefillAt, WalkAt
      <3>3. \A r \in Small : span[r].owner # heap[t] => r \in Small' /\ span'[r].owner = span[r].owner
        BY <2>4
      <3>4. \A r \in Small' : span'[r].owner \in made
        BY <2>4 DEF IInv, Known, HeapsKnown
      <3>5. \A h \in Heaps : h # heap[t] => list'[h] = list[h]
        BY <1>1 DEF lists
      <3> QED
        BY <1>1, <3>1, <3>2, <3>3, <3>4, <3>5, KnownOne DEF IInv
    <2> QED
      BY <2>4, <2>5, <2>10, <2>11, <2>12 DEF IInv, TypeOK
  <1> QED
    BY <1>4, <1>5

(* Span s leaves its list and its heap, and its chunk is given back. *)
Released(s, h, c, q, z) ==
    /\ span[s].owner = h /\ span[s].class = c
    /\ span' = [span EXCEPT ![s] = Blank] /\ taken' = taken \ {s}
    /\ list' = [list EXCEPT ![h][c] = q] /\ full' = [full EXCEPT ![h] = z]
    /\ q \in Seq(Chunks) /\ IsInjective(q) /\ ToSet(q) = ToSet(list[h][c]) \ {s}
    /\ z \in Seq(Chunks) /\ IsInjective(z) /\ ToSet(z) = ToSet(full[h]) \ {s}

(* A chunk given back once nothing of it is left. *)
LEMMA ReleaseKeeps ==
    ASSUME IInv, NEW s \in Small, NEW h, NEW c, NEW q, NEW z, Released(s, h, c, q, z),
           UNCHANGED <<heaps, block, pc>>, live' \subseteq Chunks \X Nat,
           \A r : Pushing(r)' = Pushing(r), \A r : r # s => Held(r)' = Held(r),
           Held(s)' = {}, Pushing(s) = {}
    PROVE  /\ SpansOK' /\ Match' /\ Blocks' /\ Exhausted' /\ Small' = Small \ {s}
           /\ \A r \in Small' : span'[r].owner = span[r].owner
  <1>1. s \in Chunks /\ s \in taken /\ h \in Heaps /\ c \in Classes
    BY Facts DEF Released
  <1>2. /\ span' \in [Chunks -> Header] /\ \A r \in Chunks : r # s => span'[r] = span[r]
    BY <1>1, BlankHeader DEF Released, IInv, TypeOK, SpansOK
  <1>3. taken \subseteq Chunks /\ taken' = taken \ {s}
    BY DEF IInv, TypeOK, SpansOK, Released
  <1>4. \A r \in taken : r # s => span'[r] = span[r]
    BY <1>2, <1>3
  <1>5. Small' = Small \ {s}
    BY <1>3, <1>4 DEF Small
  <1>6. \A r : r # s => (r \in taken' <=> r \in taken)
    BY <1>3
  <1>7. Match'
    <2>1. list' = [list EXCEPT ![h][c] = q] /\ full' = [full EXCEPT ![h] = z]
      BY DEF Released
    <2>2. q \in Seq(Chunks) /\ IsInjective(q) /\ z \in Seq(Chunks) /\ IsInjective(z)
      BY DEF Released
    <2>3. /\ \A r : r \in ToSet(q) <=> (r \in ToSet(list[h][c]) /\ r # s)
          /\ \A r : r \in ToSet(z) <=> (r \in ToSet(full[h]) /\ r # s)
      BY DEF Released
    <2>4. /\ s \in Small => span[s].owner = h /\ span[s].class = c
          /\ s \in Small' => span'[s].owner = h /\ span'[s].class = c
          /\ s \in ToSet(q) <=> (s \in Small' /\ ~span'[s].full)
          /\ s \in ToSet(z) <=> (s \in Small' /\ span'[s].full)
      BY <1>5, <2>3 DEF Released
    <2>5. \A r \in Chunks : r # s => (r \in ToSet(q) <=> r \in ToSet(list[h][c]))
      BY <2>3
    <2>6. \A r \in Chunks : r # s => (r \in ToSet(z) <=> r \in ToSet(full[h]))
      BY <2>3
    <2>7. TypeOK /\ Match
      BY DEF IInv
    <2> QED
      BY <1>1, <1>4, <1>6, <2>1, <2>2, <2>4, <2>5, <2>6, <2>7, MatchOne
  <1>8. SpansOK'
    <2>1. list' \in [Heaps -> [Classes -> Seq(Chunks)]] /\ full' \in [Heaps -> Seq(Chunks)]
      BY <1>1 DEF IInv, TypeOK, SpansOK, Released
    <2>2. made' = made
      BY DEF heaps
    <2> QED
      BY <1>2, <1>3, <2>1, <2>2 DEF IInv, TypeOK, SpansOK
  <1>9. Blocks'
    <2>1. \A r, u : r # s /\ u \in Pushing(r) => block'[u] = block[u]
      OBVIOUS
    <2>2. TypeOK /\ Blocks
      BY DEF IInv
    <2>3. s \notin taken' /\ Held(s)' = {} /\ Pushing(s)' = {}
      BY <1>3
    <2>4. \A r : r # s => Held(r)' = Held(r) /\ Pushing(r)' = Pushing(r)
      OBVIOUS
    <2> QED
      BY <1>4, <1>6, <2>1, <2>2, <2>3, <2>4, BlocksOne
  <1>10. Exhausted'
    <2>1. \A r \in Small' : r # s => r \in Small /\ span'[r] = span[r]
      BY <1>4, <1>5 DEF Small
    <2>2. \A g \in Heaps : Owned(g)' => Owned(g)
      BY DEF Owned, heaps
    <2> QED
      BY <1>5, <2>1, <2>2, ExhaustedOne DEF IInv
  <1>11. \A r \in Small' : span'[r].owner = span[r].owner
    BY <1>4, <1>5 DEF Small
  <1> QED
    BY <1>5, <1>7, <1>8, <1>9, <1>10, <1>11

(* The lists after a full span, or one of the class, is taken out. *)
LEMMA Unlisted ==
    ASSUME IInv, NEW s \in Small, NEW h, h = span[s].owner, NEW c, c = span[s].class
    PROVE  /\ list[h][c] \in Seq(Chunks) /\ IsInjective(list[h][c])
           /\ full[h] \in Seq(Chunks) /\ IsInjective(full[h])
           /\ s \in ToSet(list[h][c]) <=> ~span[s].full
           /\ s \in ToSet(full[h]) <=> span[s].full
           /\ list = [list EXCEPT ![h][c] = list[h][c]] /\ full = [full EXCEPT ![h] = full[h]]
  <1>1. h \in Heaps /\ c \in Classes /\ s \in Chunks
    BY Facts
  <1>2. /\ list[h][c] \in Seq(Chunks) /\ IsInjective(list[h][c])
        /\ full[h] \in Seq(Chunks) /\ IsInjective(full[h])
    BY <1>1 DEF IInv, TypeOK, SpansOK, Match
  <1>3. (s \in ToSet(list[h][c]) <=> ~span[s].full) /\ (s \in ToSet(full[h]) <=> span[s].full)
    BY <1>1 DEF IInv, Match
  <1>4. list = [list EXCEPT ![h][c] = list[h][c]] /\ full = [full EXCEPT ![h] = full[h]]
    BY <1>1 DEF IInv, TypeOK, SpansOK
  <1> QED
    BY <1>2, <1>3, <1>4

(* The owner frees: the span serves again, goes back or stays. *)
LEMMA FreeLocalKeeps ==
    ASSUME IInv, NEW t \in Threads, NEW s, NEW i, FreeLocal(t, s, i)
    PROVE  IInv'
  <1>0. SUFFICES ASSUME NEW h, h = heap[t], NEW c, c = span[s].class,
                        NEW m, m = FreedIn(span[s], i)
                 PROVE  IInv'
    OBVIOUS
  <1>1. /\ pc[t] = "out" /\ <<s, i>> \in live /\ c # Large /\ span[s].owner = h
        /\ live' = live \ {<<s, i>>} /\ UNCHANGED <<heaps, pc, refill, remote, walk>>
    BY <1>0 DEF FreeLocal
  <1>2. s \in Small /\ s \in Chunks /\ i \in Nat
    BY <1>0, <1>1, HeldSmall
  <1>3. /\ s \in taken /\ span[s] \in Header /\ Sound(span[s], Held(s), Pushing(s), block)
        /\ Pushing(s) \in SUBSET Threads /\ h \in Heaps /\ c \in Classes
    BY <1>0, <1>1, <1>2, Facts
  <1>4. live' \subseteq Chunks \X Nat /\ Held(s)' = Held(s) \ {i} /\ i \in Held(s)
        /\ \A r : r # s => Held(r)' = Held(r)
    <2>1. SpansOK
      BY DEF IInv, TypeOK
    <2> QED
      BY <1>1, <1>2, <2>1, HeldLess
  <1>5. \A r : Pushing(r)' = Pushing(r)
    BY <1>1 DEF Pushing, refill
  <1>6. /\ Sound(m, Held(s) \ {i}, Pushing(s), block) /\ m \in Header
        /\ m.owner = span[s].owner /\ m.class = span[s].class /\ m.full = span[s].full
    <2>1. ASSUME NEW x, x = span[s], NEW H, H = Held(s), NEW P, P = Pushing(s), NEW b, b = block
          PROVE  /\ Sound(FreedIn(x, i), H \ {i}, P, b) /\ FreedIn(x, i) \in Header
                 /\ FreedIn(x, i).owner = x.owner /\ FreedIn(x, i).class = x.class
                 /\ FreedIn(x, i).full = x.full
      <3>1. x \in Header /\ P \in SUBSET Threads /\ i \in H /\ Sound(x, H, P, b)
        BY <1>3, <1>4, <2>1
      <3> QED
        BY ONLY <3>1, SoundLocal
    <2>2. /\ Sound(FreedIn(span[s], i), Held(s) \ {i}, Pushing(s), block) /\ FreedIn(span[s], i) \in Header
          /\ FreedIn(span[s], i).owner = span[s].owner /\ FreedIn(span[s], i).class = span[s].class
          /\ FreedIn(span[s], i).full = span[s].full
      BY <2>1
    <2> QED
      BY <1>0, <2>2
  <1>7. /\ list[h][c] \in Seq(Chunks) /\ IsInjective(list[h][c])
        /\ full[h] \in Seq(Chunks) /\ IsInjective(full[h])
        /\ s \in ToSet(list[h][c]) <=> ~span[s].full
        /\ s \in ToSet(full[h]) <=> span[s].full
        /\ list = [list EXCEPT ![h][c] = list[h][c]] /\ full = [full EXCEPT ![h] = full[h]]
    BY <1>0, <1>1, <1>2, Unlisted
  <1>8. ThreadsOK'
    BY <1>1 DEF IInv, TypeOK, ThreadsOK, heaps, refill, remote
  <1>9. \A g \in Heaps : Owned(g)' => Owned(g)
    BY <1>1 DEF Owned, heaps
  <1>10. UNCHANGED block /\ UNCHANGED made
    BY <1>1 DEF remote, heaps
  (* Once the spans are right, the threads are. *)
  <1>11. ASSUME \A g \in Heaps : g # h => list'[g] = list[g],
                \A r \in Small : r # s => r \in Small' /\ span'[r].owner = span[r].owner,
                \A r \in Small' : r \in Small /\ span'[r].owner = span[r].owner
         PROVE  Known'
    <2>1. \A u \in Threads : u # t => /\ pc'[u] = pc[u] /\ class'[u] = class[u]
                                      /\ cur'[u] = cur[u] /\ walk'[u] = walk[u]
      BY <1>1 DEF refill
    <2>2. pc'[t] = "out"
      BY <1>1
    <2>3. RefillAt(t)' /\ WalkAt(t)'
      BY <2>2 DEF RefillAt, WalkAt
    <2>4. \A r \in Small : span[r].owner # heap[t] => r \in Small' /\ span'[r].owner = span[r].owner
      BY <1>0, <1>1, <1>11
    <2>5. \A r \in Small' : span'[r].owner \in made
      BY <1>11 DEF IInv, Known, HeapsKnown
    <2>6. \A g \in Heaps : g # heap[t] => list'[g] = list[g]
      BY <1>0, <1>11
    <2> QED
      BY <1>1, <2>1, <2>3, <2>4, <2>5, <2>6, KnownOne DEF IInv
  <1>12. ASSUME m.full, span' = [span EXCEPT ![s] = [m EXCEPT !.full = FALSE]],
                full' = [full EXCEPT ![h] = Unlinked(@, s)], list' = [list EXCEPT ![h][c] = <<s>> \o @],
                taken' = taken
         PROVE  IInv'
    <2>1. SUFFICES ASSUME NEW g, g = [m EXCEPT !.full = FALSE], NEW q, q = <<s>> \o list[h][c],
                          NEW z, z = Unlinked(full[h], s)
                   PROVE  IInv'
      OBVIOUS
    <2>2. /\ Sound(g, Held(s) \ {i}, Pushing(s), block) /\ g \in Header /\ g.owner = m.owner
          /\ g.class = m.class /\ g.full = FALSE
      BY <1>6, <2>1, SoundMoved
    <2>3. /\ z \in Seq(Chunks) /\ IsInjective(z) /\ ToSet(z) = ToSet(full[h]) \ {s}
      BY <1>7, <2>1, UnlinkedOne
    <2>4. q \in Seq(Chunks) /\ IsInjective(q) /\ ToSet(q) = ToSet(list[h][c]) \cup {s}
      <3>1. s \notin ToSet(list[h][c])
        BY <1>6, <1>7, <1>12
      <3>2. /\ <<s>> \o list[h][c] \in Seq(Chunks) /\ IsInjective(<<s>> \o list[h][c])
            /\ ToSet(<<s>> \o list[h][c]) = ToSet(list[h][c]) \cup {s}
        BY <1>2, <1>7, <3>1, Linked
      <3> QED
        BY <2>1, <3>2
    <2>5. /\ span' = [span EXCEPT ![s] = g] /\ list' = [list EXCEPT ![h][c] = q]
          /\ full' = [full EXCEPT ![h] = z]
      BY <1>12, <2>1 DEF IInv, TypeOK, SpansOK
    <2>6. Relinked(s, g, h, c, q, z)
      <3>1. ASSUME NEW r \in Chunks, r # s
            PROVE  (r \in ToSet(q) <=> r \in ToSet(list[h][c])) /\ (r \in ToSet(z) <=> r \in ToSet(full[h]))
        BY <2>3, <2>4, <3>1
      <3>2. (s \in ToSet(q) <=> ~g.full) /\ (s \in ToSet(z) <=> g.full)
        BY <2>2, <2>3, <2>4
      <3>3. g.owner = h /\ g.class = c /\ span[s].owner = h /\ span[s].class = c
        BY <1>0, <1>1, <1>6, <2>2
      <3> QED
        BY <2>3, <2>4, <2>5, <3>1, <3>2, <3>3 DEF Relinked
    <2>7. /\ SpansOK' /\ Match' /\ span'[s] = g /\ Small' = Small
          /\ \A r : r # s => (r \in taken' <=> r \in taken)
          /\ \A r \in taken : r # s => span'[r] = span[r]
          /\ \A r \in Small : span'[r].owner = span[r].owner
      <3>1. UNCHANGED <<taken, made>>
        BY <1>10, <1>12
      <3> QED
        BY <1>2, <1>4, <2>2, <2>6, <3>1, MoveKeeps
    <2>8. Blocks' /\ Exhausted'
      <3>1. g.owner = span[s].owner /\ g.class = span[s].class /\ ~g.full
        BY <1>6, <2>2
      <3>2. Sound(g, Held(s)', Pushing(s), block)
        BY <1>4, <2>2
      <3> QED
        BY <1>2, <1>4, <1>5, <1>9, <1>10, <2>2, <2>7, <3>1, <3>2, SpanKeeps
    <2>9. \A g0 \in Heaps : g0 # h => list'[g0] = list[g0]
      BY <2>5 DEF IInv, TypeOK, SpansOK
    <2>10. Known'
      BY <1>11, <2>7, <2>9
    <2> QED
      BY <1>8, <2>7, <2>8, <2>10 DEF IInv, TypeOK
  <1>13. ASSUME ~m.full, m.used = 0, list' = [list EXCEPT ![h][c] = Unlinked(@, s)], Release(s),
                full' = full
         PROVE  IInv'
    <2>1. SUFFICES ASSUME NEW q, q = Unlinked(list[h][c], s), NEW z, z = full[h] PROVE IInv'
      OBVIOUS
    <2>2. Held(s)' = {} /\ Pushing(s) = {}
      BY <1>3, <1>4, <1>6, <1>13, SoundUnused
    <2>3. Released(s, h, c, q, z)
      <3>1. q \in Seq(Chunks) /\ IsInjective(q) /\ ToSet(q) = ToSet(list[h][c]) \ {s}
        BY <1>7, <2>1, UnlinkedOne
      <3>2. s \notin ToSet(full[h])
        BY <1>6, <1>7, <1>13
      <3>3. z \in Seq(Chunks) /\ IsInjective(z) /\ ToSet(z) = ToSet(full[h]) \ {s}
        BY <1>7, <2>1, <3>2
      <3>4. list' = [list EXCEPT ![h][c] = q] /\ full' = [full EXCEPT ![h] = z]
        BY <1>7, <1>13, <2>1
      <3>5. span' = [span EXCEPT ![s] = Blank] /\ taken' = taken \ {s}
        BY <1>13 DEF Release
      <3> QED
        BY <1>0, <1>1, <3>1, <3>3, <3>4, <3>5 DEF Released
    <2>4. /\ SpansOK' /\ Match' /\ Blocks' /\ Exhausted' /\ Small' = Small \ {s}
          /\ \A r \in Small' : span'[r].owner = span[r].owner
      BY <1>1, <1>2, <1>4, <1>5, <1>10, <2>2, <2>3, ReleaseKeeps
    <2>5. \A g0 \in Heaps : g0 # h => list'[g0] = list[g0]
      BY <1>13 DEF IInv, TypeOK, SpansOK
    <2>6. Known'
      BY <1>11, <2>4, <2>5
    <2> QED
      BY <1>8, <2>4, <2>6 DEF IInv, TypeOK
  <1>14. ASSUME ~m.full, span' = [span EXCEPT ![s] = m], UNCHANGED <<lists, taken>>
         PROVE  IInv'
    <2>1. /\ SpansOK' /\ Match' /\ span'[s] = m /\ Small' = Small
          /\ \A r : r # s => (r \in taken' <=> r \in taken)
          /\ \A r \in taken : r # s => span'[r] = span[r]
          /\ \A r \in Small : span'[r].owner = span[r].owner
      BY <1>2, <1>4, <1>6, <1>10, <1>14, HeaderKeeps
    <2>2. Blocks' /\ Exhausted'
      <3>1. Sound(m, Held(s)', Pushing(s), block)
        BY <1>4, <1>6
      <3> QED
        BY <1>2, <1>4, <1>5, <1>6, <1>9, <1>10, <1>14, <2>1, <3>1, SpanKeeps
    <2>3. Known'
      BY <1>11, <1>14, <2>1 DEF lists
    <2> QED
      BY <1>8, <2>1, <2>2, <2>3 DEF IInv, TypeOK
  <1>15. \/ /\ m.full /\ span' = [span EXCEPT ![s] = [m EXCEPT !.full = FALSE]]
            /\ full' = [full EXCEPT ![h] = Unlinked(@, s)] /\ list' = [list EXCEPT ![h][c] = <<s>> \o @]
            /\ taken' = taken
         \/ /\ ~m.full /\ m.used = 0 /\ list' = [list EXCEPT ![h][c] = Unlinked(@, s)]
            /\ Release(s) /\ full' = full
         \/ ~m.full /\ span' = [span EXCEPT ![s] = m] /\ UNCHANGED <<lists, taken>>
    BY <1>0 DEF FreeLocal, FreedIn, full_unlink, list_insert_head, list_unlink
  <1> QED
    BY <1>12, <1>13, <1>14, <1>15

(* A span is emptied of what others freed, and given back when nothing of it  *)
(* is held any more.                                                          *)
LEMMA EndSpanKeeps ==
    ASSUME IInv, NEW t \in Threads, NEW s, EndSpan(t, s)
    PROVE  IInv'
  <1>0. SUFFICES ASSUME NEW h, h = heap[t], NEW c, c = span[s].class, NEW m, m = Drained(span[s])
                 PROVE  IInv'
    OBVIOUS
  <1>1. /\ pc[t] = "end" /\ s \in walk[t] /\ walk' = [walk EXCEPT ![t] = @ \ {s}]
        /\ UNCHANGED <<heaps, live, pc, refill, remote>>
    BY DEF EndSpan
  <1>2. s \in Small /\ span[s].owner = h /\ h # NoHeap
    BY <1>0, <1>1 DEF IInv, Known, WalkAt
  <1>3. /\ s \in Chunks /\ s \in taken /\ span[s] \in Header /\ Sound(span[s], Held(s), Pushing(s), block)
        /\ Pushing(s) \in SUBSET Threads /\ h \in Heaps /\ c \in Classes
    BY <1>0, <1>2, Facts
  <1>4. /\ Sound(m, Held(s), Pushing(s), block) /\ m \in Header
        /\ m.owner = span[s].owner /\ m.class = span[s].class /\ m.full = span[s].full
        /\ m.used = Cardinality(Held(s)) + Cardinality(Pushing(s))
    BY <1>0, <1>3, SoundDrained
  <1>5. \A r : Held(r)' = Held(r) /\ Pushing(r)' = Pushing(r)
    BY <1>1 DEF Held, Pushing, refill
  <1>6. /\ list[h][c] \in Seq(Chunks) /\ IsInjective(list[h][c])
        /\ full[h] \in Seq(Chunks) /\ IsInjective(full[h])
        /\ s \in ToSet(list[h][c]) <=> ~span[s].full
        /\ s \in ToSet(full[h]) <=> span[s].full
        /\ list = [list EXCEPT ![h][c] = list[h][c]] /\ full = [full EXCEPT ![h] = full[h]]
    BY <1>0, <1>2, Unlisted
  <1>7. ThreadsOK'
    BY <1>1 DEF IInv, TypeOK, ThreadsOK, heaps, refill, remote
  <1>8. ~Owned(h) /\ \A g \in Heaps : Owned(g)' => Owned(g)
    <2>1. \A u \in Threads : heap[u] = h => u = t
      BY <1>0, <1>2 DEF IInv, Known, HeapsKnown
    <2> QED
      BY <1>1, <2>1 DEF Owned, heaps
  <1>9. UNCHANGED <<heaps, block, pc, made>> /\ live' \subseteq Chunks \X Nat
    BY <1>1 DEF remote, heaps, IInv, TypeOK, SpansOK
  (* Once the spans are right, the threads are. *)
  <1>10. ASSUME \A g \in Heaps : g # h => list'[g] = list[g],
                \A r \in Small : r # s => r \in Small' /\ span'[r].owner = span[r].owner,
                \A r \in Small' : r \in Small /\ span'[r].owner = span[r].owner
         PROVE  Known'
    <2>1. /\ \A u \in Threads : u # t => /\ pc'[u] = pc[u] /\ class'[u] = class[u]
                                         /\ cur'[u] = cur[u] /\ walk'[u] = walk[u]
          /\ walk'[t] = walk[t] \ {s}
      BY <1>1 DEF refill, IInv, TypeOK, ThreadsOK
    <2>2. RefillAt(t)'
      BY <1>1 DEF RefillAt
    <2>3. WalkAt(t)'
      <3>1. heap'[t] = heap[t] /\ heap[t] # NoHeap
        BY <1>0, <1>1, <1>2 DEF heaps
      <3>2. ASSUME NEW r \in walk'[t] PROVE r \in Small' /\ span'[r].owner = heap[t]
        <4>1. r \in walk[t] /\ r # s
          BY <2>1
        <4>2. r \in Small /\ span[r].owner = heap[t]
          BY <1>1, <4>1 DEF IInv, Known, WalkAt
        <4> QED
          BY <1>10, <4>1, <4>2
      <3> QED
        BY <3>1, <3>2 DEF WalkAt
    <2>4. \A r \in Small : span[r].owner # heap[t] => r \in Small' /\ span'[r].owner = span[r].owner
      BY <1>0, <1>2, <1>10
    <2>5. \A r \in Small' : span'[r].owner \in made
      BY <1>10 DEF IInv, Known, HeapsKnown
    <2>6. \A g \in Heaps : g # heap[t] => list'[g] = list[g]
      BY <1>0, <1>10
    <2> QED
      BY <1>1, <2>1, <2>2, <2>3, <2>4, <2>5, <2>6, KnownOne DEF IInv
  <1>11. ASSUME m.used = 0, Release(s),
                NEW q, NEW z, list' = [list EXCEPT ![h][c] = q], full' = [full EXCEPT ![h] = z],
                q \in Seq(Chunks), IsInjective(q), ToSet(q) = ToSet(list[h][c]) \ {s},
                z \in Seq(Chunks), IsInjective(z), ToSet(z) = ToSet(full[h]) \ {s}
         PROVE  IInv'
    <2>1. Held(s)' = {} /\ Pushing(s) = {}
      <3>1. IsFiniteSet(Held(s)) /\ IsFiniteSet(Pushing(s))
            /\ Cardinality(Held(s)) \in Nat /\ Cardinality(Pushing(s)) \in Nat
        BY <1>3, SoundFinite
      <3>2. Cardinality(Held(s)) = 0 /\ Cardinality(Pushing(s)) = 0
        BY <1>4, <1>11, <3>1
      <3> QED
        BY <1>5, <3>1, <3>2, FS_EmptySet
    <2>2. Released(s, h, c, q, z)
      <3>1. span' = [span EXCEPT ![s] = Blank] /\ taken' = taken \ {s}
        BY <1>11 DEF Release
      <3> QED
        BY <1>0, <1>2, <1>11, <3>1 DEF Released
    <2>3. /\ SpansOK' /\ Match' /\ Blocks' /\ Exhausted' /\ Small' = Small \ {s}
          /\ \A r \in Small' : span'[r].owner = span[r].owner
      BY <1>2, <1>5, <1>9, <2>1, <2>2, ReleaseKeeps
    <2>4. \A g0 \in Heaps : g0 # h => list'[g0] = list[g0]
      BY <1>11 DEF IInv, TypeOK, SpansOK
    <2>5. Known'
      BY <1>10, <2>3, <2>4
    <2> QED
      BY <1>7, <2>3, <2>5 DEF IInv, TypeOK
  <1>12. CASE m.used = 0 /\ m.full
    <2>1. Release(s) /\ list' = list /\ full' = [full EXCEPT ![h] = Unlinked(full[h], s)]
      BY <1>0, <1>12 DEF EndSpan, full_unlink
    <2>2. list' = [list EXCEPT ![h][c] = list[h][c]]
      BY <1>6, <2>1
    <2>3. ToSet(list[h][c]) = ToSet(list[h][c]) \ {s}
      BY <1>4, <1>6, <1>12
    <2>4. /\ Unlinked(full[h], s) \in Seq(Chunks) /\ IsInjective(Unlinked(full[h], s))
          /\ ToSet(Unlinked(full[h], s)) = ToSet(full[h]) \ {s}
      BY <1>6, UnlinkedOne
    <2> QED
      BY <1>6, <1>11, <1>12, <2>1, <2>2, <2>3, <2>4
  <1>13. CASE m.used = 0 /\ ~m.full
    <2>1. Release(s) /\ full' = full /\ list' = [list EXCEPT ![h][c] = Unlinked(list[h][c], s)]
      BY <1>0, <1>4, <1>13 DEF EndSpan, list_unlink
    <2>2. full' = [full EXCEPT ![h] = full[h]]
      BY <1>6, <2>1
    <2>3. ToSet(full[h]) = ToSet(full[h]) \ {s}
      BY <1>4, <1>6, <1>13
    <2>4. /\ Unlinked(list[h][c], s) \in Seq(Chunks) /\ IsInjective(Unlinked(list[h][c], s))
          /\ ToSet(Unlinked(list[h][c], s)) = ToSet(list[h][c]) \ {s}
      BY <1>6, UnlinkedOne
    <2> QED
      BY <1>6, <1>11, <1>13, <2>1, <2>2, <2>3, <2>4
  <1>14. CASE m.used # 0
    <2>0. span' = [span EXCEPT ![s] = m] /\ UNCHANGED <<lists, taken, made>>
      BY <1>0, <1>9, <1>14 DEF EndSpan
    <2>1. /\ SpansOK' /\ Match' /\ span'[s] = m /\ Small' = Small
          /\ \A r : r # s => (r \in taken' <=> r \in taken)
          /\ \A r \in taken : r # s => span'[r] = span[r]
          /\ \A r \in Small : span'[r].owner = span[r].owner
      BY <1>2, <1>4, <1>9, <2>0, HeaderKeeps
    <2>2. Blocks' /\ Exhausted'
      <3>1. Sound(m, Held(s)', Pushing(s), block)
        BY <1>4, <1>5
      <3>2. UNCHANGED block /\ ~Owned(span[s].owner)
        BY <1>2, <1>8, <1>9
      <3> QED
        BY <1>2, <1>4, <1>5, <1>8, <2>1, <3>1, <3>2, SpanKeeps
    <2>3. Known'
      BY <1>10, <2>0, <2>1 DEF lists
    <2> QED
      BY <1>7, <2>1, <2>2, <2>3 DEF IInv, TypeOK
  <1> QED
    BY <1>3, <1>4, <1>12, <1>13, <1>14

-----------------------------------------------------------------------------
(* The specification keeps the invariant. *)

(* At first there is neither heap nor span. *)
LEMMA InitKeeps == Init => IInv
  <1> SUFFICES ASSUME Init PROVE IInv
    OBVIOUS
  <1>1. Small = {} /\ \A s : Held(s) = {} /\ Pushing(s) = {}
    BY DEF Init, Small, Held, Pushing
  <1>2. ThreadsOK
    BY Constants DEF Init, ThreadsOK
  <1>3. SpansOK
    <2>1. \A c \in Classes : <<>> \in Seq(Chunks)
      OBVIOUS
    <2>2. list \in [Heaps -> [Classes -> Seq(Chunks)]] /\ full \in [Heaps -> Seq(Chunks)]
      BY DEF Init
    <2>3. span \in [Chunks -> Header]
      BY BlankHeader DEF Init
    <2> QED
      BY <2>2, <2>3 DEF Init, SpansOK
  <1>4. Blocks
    BY <1>1 DEF Blocks, Init
  <1>5. Match
    <2>1. ToSet(<<>>) = {} /\ IsInjective(<<>>)
      BY DEF ToSet, IsInjective
    <2>2. \A h \in Heaps : full[h] = <<>> /\ \A c \in Classes : list[h][c] = <<>>
      BY DEF Init
    <2> QED
      BY <1>1, <2>1, <2>2 DEF Match
  <1>6. Exhausted /\ Known
    BY <1>1, Constants DEF Init, Exhausted, Known, HeapsKnown, RefillAt, WalkAt
  <1> QED
    BY <1>2, <1>3, <1>4, <1>5, <1>6 DEF IInv, TypeOK

(* One step for each action of a thread. *)
LEMMA NextKeeps == IInv /\ [Next]_vars => IInv'
  <1> SUFFICES ASSUME IInv, [Next]_vars PROVE IInv'
    OBVIOUS
  <1>1. ASSUME NEW t \in Threads, Step(t) PROVE IInv'
    <2>1. CASE GetHeap(t)
      BY <2>1, GetHeapKeeps
    <2>2. ASSUME NEW c \in Classes, AllocFast(t, c) PROVE IInv'
      BY <2>2, AllocFastKeeps
    <2>3. ASSUME NEW c \in Classes, AllocSlow(t, c) PROVE IInv'
      BY <2>3, AllocSlowKeeps
    <2>4. CASE RefillList(t)
      BY <2>4, RefillListKeeps
    <2>5. CASE RefillFull(t)
      BY <2>5, RefillFullKeeps
    <2>6. CASE RefillListEnd(t)
      BY <2>6, RefillListEndKeeps
    <2>7. CASE RefillScanHit(t)
      BY <2>7, RefillScanHitKeeps
    <2>8. CASE RefillScanMiss(t)
      BY <2>8, RefillScanMissKeeps
    <2>9. CASE RefillScanEnd(t)
      BY <2>9, RefillScanEndKeeps
    <2>10. CASE RefillCreate(t)
      BY <2>10, RefillCreateKeeps
    <2>11. CASE AllocLarge(t)
      BY <2>11, AllocLargeKeeps
    <2>12. CASE RemotePush(t)
      BY <2>12, RemotePushKeeps
    <2>13. ASSUME NEW s, FreeLarge(t, s) PROVE IInv'
      BY <2>13, FreeLargeKeeps
    <2>14. ASSUME NEW s, NEW i, FreeLocal(t, s, i) PROVE IInv'
      BY <2>14, FreeLocalKeeps
    <2>15. ASSUME NEW s, NEW i, FreeRemote(t, s, i) PROVE IInv'
      BY <2>15, FreeRemoteKeeps
    <2>16. CASE EndThread(t)
      BY <2>16, EndThreadKeeps
    <2>17. CASE Ended(t)
      BY <2>17, EndedKeeps
    <2>18. ASSUME NEW s, EndSpan(t, s) PROVE IInv'
      BY <2>18, EndSpanKeeps
    <2> QED
      BY <1>1, <2>1, <2>2, <2>3, <2>4, <2>5, <2>6, <2>7, <2>8, <2>9, <2>10, <2>11, <2>12,
         <2>13, <2>14, <2>15, <2>16, <2>17, <2>18 DEF Step
  <1>2. CASE UNCHANGED vars
    <2>1. TypeOK' /\ Small' = Small
      BY <1>2 DEF vars, heaps, lists, refill, remote, IInv, TypeOK, ThreadsOK, SpansOK, Small
    <2>2. \A s : Held(s)' = Held(s) /\ Pushing(s)' = Pushing(s)
      BY <1>2 DEF vars, refill, Held, Pushing
    <2>3. Blocks'
      BY <1>2, <2>1, <2>2 DEF vars, refill, remote, IInv, Blocks
    <2>4. Match'
      BY <1>2, <2>1 DEF vars, lists, IInv, Match
    <2>5. Exhausted'
      BY <1>2, <2>1 DEF vars, heaps, IInv, Exhausted, Owned
    <2>6. Known'
      BY <1>2, <2>1 DEF vars, heaps, lists, refill, IInv, Known, HeapsKnown, RefillAt, WalkAt
    <2> QED
      BY <2>1, <2>3, <2>4, <2>5, <2>6 DEF IInv
  <1> QED
    BY <1>1, <1>2 DEF Next

(* The invariant holds in every state. *)
LEMMA Always == Spec => []IInv
  BY InitKeeps, NextKeeps, PTL DEF Spec

-----------------------------------------------------------------------------
(* The theorems. *)

(* The variables keep their types: the header of a span counts no fewer than  *)
(* no blocks, however the frees of other threads and its drains interleave.   *)
THEOREM MemSpansTypeCorrect == Spec => []TypeOK
  <1>1. IInv => TypeOK
    BY DEF IInv
  <1> QED
    BY <1>1, Always, PTL

(* A block of a span is held by the program, free in the span, in its list of *)
(* remote frees or on its way there, and only one of these: memop_alloc_raw   *)
(* gives no block twice, span_drain_remote loses none, and chunk_release      *)
(* gives back no chunk that somebody still uses.                              *)
THEOREM SpansBlocksInOnePlace == Spec => []BlocksInOnePlace
  <1>1. IInv => BlocksInOnePlace
    <2> SUFFICES ASSUME IInv PROVE BlocksInOnePlace
      OBVIOUS
    <2>1. \A s \in Small : Sound(span[s], Held(s), Pushing(s), block)
      BY DEF IInv, Blocks
    <2>2. \A s \in Chunks \ taken : Held(s) = {} /\ Pushing(s) = {}
      BY DEF IInv, Blocks
    <2>3. ASSUME NEW s \in Small, NEW pushed, pushed = {block[t] : t \in Pushing(s)}
          PROVE  /\ Held(s) \cup span[s].free \cup ToSet(span[s].remote) \cup pushed = 1 .. span[s].bump
                 /\ span[s].bump <= Count[span[s].class]
                 /\ Held(s) \cap span[s].free = {} /\ ToSet(span[s].remote) \cap pushed = {}
                 /\ (Held(s) \cup span[s].free) \cap (ToSet(span[s].remote) \cup pushed) = {}
                 /\ IsInjective(span[s].remote)
                 /\ \A t, u \in Pushing(s) : block[t] = block[u] => t = u
      <3>1. pushed = Pushed(Pushing(s), block)
        BY <2>3 DEF Pushed
      <3> QED
        BY <2>1, <3>1 DEF Sound
    <2> QED
      BY <2>2, <2>3 DEF BlocksInOnePlace
  <1> QED
    BY <1>1, Always, PTL

(* What the owner counts without a lock, MemSpan.used, is the blocks held and *)
(* those freed by others and not drained yet: a span whose count reaches zero *)
(* is one of which nothing is left to come back.                              *)
THEOREM SpansUsedExact == Spec => []UsedExact
  <1>1. IInv => UsedExact
    BY DEF IInv, Blocks, Sound, UsedExact
  <1> QED
    BY <1>1, Always, PTL

(* A span is in one list of its heap, once: the full list when it is full,    *)
(* that of its class otherwise; and a full one of a living owner has nothing  *)
(* to give, so that memop_alloc_raw misses no free block by not looking there. *)
THEOREM SpansListsMatchState == Spec => []ListsMatchState
  <1>1. IInv => ListsMatchState
    <2> SUFFICES ASSUME IInv PROVE ListsMatchState
      OBVIOUS
    <2>1. Exhausted /\ Match /\ SpansOK
      BY DEF IInv, TypeOK
    <2>2. ASSUME NEW h \in Heaps
          PROVE  ToSet(full[h]) = {s \in Small : span[s].owner = h /\ span[s].full}
      <3>1. ToSet(full[h]) \subseteq Chunks
        BY <2>1, InSeq DEF SpansOK
      <3>2. Small \subseteq Chunks
        BY <2>1 DEF Small, SpansOK
      <3>3. \A s \in Chunks : s \in ToSet(full[h]) <=> (s \in Small /\ span[s].owner = h /\ span[s].full)
        BY <2>1 DEF Match
      <3> QED
        BY <3>1, <3>2, <3>3
    <2>3. ASSUME NEW h \in Heaps, NEW c \in Classes
          PROVE  ToSet(list[h][c])
                     = {s \in Small : span[s].owner = h /\ span[s].class = c /\ ~span[s].full}
      <3>0. list[h][c] \in Seq(Chunks)
        BY <2>1 DEF SpansOK
      <3>1. ToSet(list[h][c]) \subseteq Chunks
        BY <3>0, InSeq
      <3>2. Small \subseteq Chunks
        BY <2>1 DEF Small, SpansOK
      <3>3. \A s \in Chunks : s \in ToSet(list[h][c]) <=>
                (s \in Small /\ span[s].owner = h /\ span[s].class = c /\ ~span[s].full)
        BY <2>1 DEF Match
      <3> QED
        BY <3>1, <3>2, <3>3
    <2>4. \A h \in Heaps : IsInjective(full[h]) /\ \A c \in Classes : IsInjective(list[h][c])
      BY <2>1 DEF Match
    <2>5. \A s \in Small : /\ span[s].owner \in Heaps
                           /\ span[s].full /\ Owned(span[s].owner) => ~Serves(span[s])
      BY <2>1 DEF Exhausted
    <2> QED
      BY <2>2, <2>3, <2>4, <2>5 DEF ListsMatchState
  <1> QED
    BY <1>1, Always, PTL

(* memop_refill takes another chunk, span_create, only when no span that its  *)
(* thread owns in the class has a free block: none is left in the list of the *)
(* class, and those in the full list have nothing to give.                    *)
THEOREM SpansNewOnlyWhenExhausted == Spec => NewSpanOnlyWhenExhausted
  <1> DEFINE A == \A t \in Threads : (pc[t] = "create" /\ pc'[t] = "out") =>
                     \A s \in Small : span[s].owner = heap[t] /\ span[s].class = class[t]
                         => ~Serves(span[s])
  <1>1. IInv => A
    <2> SUFFICES ASSUME IInv, NEW t \in Threads, pc[t] = "create", NEW s \in Small,
                        span[s].owner = heap[t], span[s].class = class[t]
                 PROVE  ~Serves(span[s])
      OBVIOUS
    <2>1. s \in Chunks /\ heap[t] \in Heaps /\ class[t] \in Classes
      BY Facts
    <2>2. list[heap[t]][class[t]] = <<>>
      BY DEF IInv, Known, RefillAt
    <2>3. s \notin ToSet(list[heap[t]][class[t]])
      BY <2>2 DEF ToSet
    <2>4. span[s].full
      BY <2>1, <2>3 DEF IInv, Match
    <2>5. Owned(heap[t])
      BY DEF Owned
    <2> QED
      BY <2>4, <2>5 DEF IInv, Exhausted
  <1> QED
    BY <1>1, Always, PTL DEF Spec, NewSpanOnlyWhenExhausted

=============================================================================
