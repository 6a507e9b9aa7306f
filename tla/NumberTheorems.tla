--------------------------- MODULE NumberTheorems ---------------------------
(***************************************************************************)
(* What the proofs need of numbers: remainders of positions, for the       *)
(* buffers that thread_pool.c indexes with pos & mask (which positions     *)
(* share a slot, and which differences survive a w-bit counter); induction *)
(* over finite sets and numbers, stated with a set in place of a           *)
(* predicate; and the sum of a function over a finite set, however         *)
(* SumFunctionOnSet goes through it, for its counters.                     *)
(***************************************************************************)
EXTENDS Integers, FiniteSets, FiniteSetTheorems, WellFoundedInduction, Functions, TLAPS

-----------------------------------------------------------------------------
(* Remainders. *)

(* Quotient and remainder of a position. *)
LEMMA DivMod ==
    ASSUME NEW a \in Int, NEW n \in Nat, n >= 1
    PROVE  a = n * (a \div n) + (a % n) /\ a \div n \in Int /\ a % n \in 0 .. n - 1
  OBVIOUS

(* The only multiple of n strictly between -n and n is zero. *)
LEMMA SmallMultiple ==
    ASSUME NEW n \in Nat, n >= 1, NEW d \in Int, -n < n * d, n * d < n
    PROVE  d = 0
  <1>1. CASE d >= 1
    <2>1. n * d >= n
      BY <1>1
    <2> QED
      BY <2>1
  <1>2. CASE d <= -1
    <2>1. n * (-d) >= n
      BY <1>2
    <2> QED
      BY <2>1
  <1> QED
    BY <1>1, <1>2

(* The remainder of a number written as a multiple of n and a rest is the rest. *)
LEMMA ModOfSum ==
    ASSUME NEW n \in Nat, n >= 1, NEW k \in Int, NEW r \in 0 .. n - 1,
           NEW a \in Int, a = n * k + r
    PROVE  a % n = r
  <1> DEFINE x == a \div n
             s == a % n
  <1>1. a = n * x + s /\ x \in Int /\ s \in 0 .. n - 1
    BY DivMod
  <1> HIDE DEF x, s
  <1>2. n * (x - k) = r - s /\ x - k \in Int
    BY <1>1
  <1>3. x - k = 0
    BY <1>1, <1>2, SmallMultiple
  <1>4. s = r
    BY <1>1, <1>2, <1>3
  <1> QED
    BY <1>4 DEF s

(* A position and the one a whole turn later share their slot. *)
LEMMA ModShift ==
    ASSUME NEW a \in Int, NEW n \in Nat, n >= 1
    PROVE  (a + n) % n = a % n
  <1> DEFINE x == a \div n
             r == a % n
             y == (a + n) \div n
             s == (a + n) % n
  <1>1. a = n * x + r /\ x \in Int /\ r \in 0 .. n - 1
    BY DivMod
  <1>2. a + n = n * y + s /\ y \in Int /\ s \in 0 .. n - 1
    BY DivMod, a + n \in Int
  <1> HIDE DEF x, r, y, s
  <1>3. n * (y - x - 1) = r - s /\ y - x - 1 \in Int
    BY <1>1, <1>2
  <1>4. y - x - 1 = 0
    BY <1>3, <1>1, <1>2, SmallMultiple
  <1>5. r = s
    BY <1>3, <1>4, <1>1, <1>2
  <1> QED
    BY <1>5 DEF r, s

(* Two positions less than a turn apart have different slots. *)
LEMMA ModInjective ==
    ASSUME NEW a \in Int, NEW b \in Int, NEW n \in Nat, n >= 1,
           a < b, b < a + n
    PROVE  a % n # b % n
  <1> SUFFICES ASSUME a % n = b % n PROVE FALSE
    OBVIOUS
  <1> DEFINE x == a \div n
             r == a % n
             y == b \div n
  <1>1. a = n * x + r /\ x \in Int /\ r \in 0 .. n - 1
    BY DivMod
  <1>2. b = n * y + r /\ y \in Int
    BY DivMod
  <1> HIDE DEF x, r, y
  <1>3. n * (y - x) = b - a /\ y - x \in Int
    BY <1>1, <1>2
  <1>4. y - x = 0
    BY <1>3, SmallMultiple
  <1> QED
    BY <1>3, <1>4

(* A number below the divisor is its own remainder; a negative one above -n  *)
(* has n added.                                                              *)
LEMMA ModSmall ==
    ASSUME NEW a \in Int, NEW n \in Nat, -n < a, a < n
    PROVE  a % n = IF a >= 0 THEN a ELSE a + n
  <1>1. CASE a >= 0
    BY <1>1
  <1>2. CASE a < 0
    <2>1. (a + n) % n = a + n
      BY <1>2
    <2>2. n >= 1
      BY <1>2
    <2>3. (a + n) % n = a % n
      BY <2>2, ModShift
    <2> QED
      BY <1>2, <2>1, <2>3
  <1> QED
    BY <1>1, <1>2

-----------------------------------------------------------------------------
(* Induction. *)

(* A collection that has the empty set and, with a set, what it becomes with *)
(* one more element of S, has S when S is finite.                            *)
LEMMA FiniteInduction ==
    ASSUME NEW S, IsFiniteSet(S), NEW F, {} \in F,
           \A T \in F, x \in S : T \cup {x} \in F
    PROVE  S \in F
  <1> SUFFICES ASSUME S \notin F PROVE FALSE
    OBVIOUS
  <1> DEFINE Bad == {T \in FiniteSubsetsOf(S) : T \notin F}
  <1>1. S \in Bad
    BY DEF FiniteSubsetsOf
  <1>2. IsWellFoundedOn(StrictSubsetOrdering(S), FiniteSubsetsOf(S))
    BY FS_StrictSubsetOrderingWellFounded
  <1>3. PICK T \in Bad : \A U \in Bad : <<U, T>> \notin StrictSubsetOrdering(S)
    BY <1>1, <1>2, WFMin, Zenon
  <1>4. T # {} /\ T \subseteq S /\ IsFiniteSet(T) /\ T \notin F
    BY DEF FiniteSubsetsOf
  <1>5. PICK x \in T : TRUE
    BY <1>4
  <1>6. T \ {x} \in FiniteSubsetsOf(S)
    BY <1>4, FS_RemoveElement DEF FiniteSubsetsOf
  <1>7. <<T \ {x}, T>> \in StrictSubsetOrdering(S)
    BY <1>4, <1>5 DEF StrictSubsetOrdering
  <1>8. T \ {x} \in F
    BY <1>3, <1>6, <1>7
  <1>9. T = (T \ {x}) \cup {x}
    BY <1>5
  <1> QED
    BY <1>4, <1>8, <1>9

(* Induction over the numbers, by the number of elements of 1 .. n. *)
LEMMA NumberInduction ==
    ASSUME NEW F, 0 \in F, \A n \in Nat : n \in F => n + 1 \in F
    PROVE  \A n \in Nat : n \in F
  <1> SUFFICES ASSUME NEW n \in Nat PROVE n \in F
    OBVIOUS
  <1> DEFINE G == {T \in SUBSET (1 .. n) : Cardinality(T) \in F}
  <1>1. IsFiniteSet(1 .. n) /\ Cardinality(1 .. n) = n
    BY FS_Interval
  <1>2. {} \in G
    BY FS_EmptySet
  <1>3. ASSUME NEW T \in G, NEW x \in 1 .. n PROVE T \cup {x} \in G
    <2>1. IsFiniteSet(T) /\ Cardinality(T) \in Nat /\ Cardinality(T) \in F
      BY <1>1, FS_Subset, FS_CardinalityType
    <2>2. Cardinality(T \cup {x}) \in {Cardinality(T), Cardinality(T) + 1}
      BY <2>1, FS_AddElement
    <2> QED
      BY <2>1, <2>2
  <1>4. 1 .. n \in G
    BY <1>1, <1>2, <1>3, FiniteInduction
  <1> QED
    BY <1>1, <1>4

-----------------------------------------------------------------------------
(* Sums. *)

(* The recursion by which SumFunctionOnSet goes through a set. *)
Picked(s) == CHOOSE x \in s : TRUE
Adds(g, f, S) == g = [s \in SUBSET S |-> IF s = {} THEN 0 ELSE f[Picked(s)] + g[s \ {Picked(s)}]]

(* The sum is the value that some function with this recursion has at S. *)
LEMMA SumUnfold ==
    ASSUME NEW f, NEW S
    PROVE  SumFunctionOnSet(f, S) = (CHOOSE g : Adds(g, f, S))[S]
  BY DEF SumFunctionOnSet, FoldFunctionOnSet, MapThenFoldSet, Adds, Picked

(* An element is picked from a set that has one. *)
LEMMA PickedIn == ASSUME NEW s, s # {} PROVE Picked(s) \in s
  BY DEF Picked

(* Without it the set has one element less. *)
LEMMA PickedLeaves ==
    ASSUME NEW s, IsFiniteSet(s), s # {}
    PROVE  Cardinality(s \ {Picked(s)}) = Cardinality(s) - 1
  <1> DEFINE x == Picked(s)
  <1>1. x \in s
    BY PickedIn
  <1> HIDE DEF x
  <1>2. Cardinality(s \ {x}) = Cardinality(s) - 1
    BY <1>1, FS_RemoveElement
  <1> QED
    BY <1>2 DEF x

(* A recursion that is right for the sets of at most n elements is right on  *)
(* those of n + 1 when it is taken once more.                                *)
LEMMA AddsExists ==
    ASSUME NEW S, IsFiniteSet(S), NEW f, \A x \in S : f[x] \in Int
    PROVE  \E g \in [SUBSET S -> Int] : Adds(g, f, S)
  <1> DEFINE Small(n) == {s \in SUBSET S : Cardinality(s) <= n}
             Good(n, g) == \A s \in Small(n) : g[s] = IF s = {} THEN 0 ELSE f[Picked(s)] + g[s \ {Picked(s)}]
             F == {n \in Nat : \E g \in [SUBSET S -> Int] : Good(n, g)}
  <1>0. \A s \in SUBSET S : IsFiniteSet(s) /\ Cardinality(s) \in Nat
    BY FS_Subset, FS_CardinalityType
  <1>1. 0 \in F
    <2> DEFINE g == [s \in SUBSET S |-> 0]
    <2>1. \A s \in Small(0) : s = {}
      BY <1>0, FS_EmptySet
    <2>2. Good(0, g)
      BY <2>1
    <2>3. g \in [SUBSET S -> Int]
      OBVIOUS
    <2> QED
      BY <2>2, <2>3
  <1>2. ASSUME NEW n \in Nat, n \in F PROVE n + 1 \in F
    <2>1. PICK g \in [SUBSET S -> Int] : Good(n, g)
      BY <1>2
    <2> DEFINE h == [s \in SUBSET S |-> IF s = {} THEN 0 ELSE f[Picked(s)] + g[s \ {Picked(s)}]]
    <2>2. h \in [SUBSET S -> Int]
      <3> SUFFICES ASSUME NEW s \in SUBSET S, s # {}
                   PROVE  f[Picked(s)] + g[s \ {Picked(s)}] \in Int
        OBVIOUS
      <3>1. Picked(s) \in S /\ s \ {Picked(s)} \in SUBSET S
        BY PickedIn
      <3> QED
        BY <3>1
    <2>3. ASSUME NEW s \in Small(n) PROVE h[s] = g[s]
      BY <2>1, <2>3
    <2>4. ASSUME NEW s \in Small(n + 1), s # {} PROVE s \ {Picked(s)} \in Small(n)
      <3>1. IsFiniteSet(s) /\ Cardinality(s) \in Nat /\ Picked(s) \in s
        BY <1>0, <2>4, PickedIn
      <3>2. Cardinality(s \ {Picked(s)}) = Cardinality(s) - 1
        BY ONLY <2>4, <3>1, PickedLeaves
      <3> QED
        BY <3>1, <3>2
    <2>5. Good(n + 1, h)
      BY <2>3, <2>4
    <2> HIDE DEF h, Good
    <2> QED
      BY <2>2, <2>5
  <1>3. Cardinality(S) \in Nat /\ Cardinality(S) \in F
    <2>1. Cardinality(S) \in Nat
      BY FS_CardinalityType
    <2> HIDE DEF F
    <2> QED
      BY <1>1, <1>2, <2>1, NumberInduction
  <1>4. PICK g \in [SUBSET S -> Int] : Good(Cardinality(S), g)
    BY <1>3
  <1>5. \A s \in SUBSET S : s \in Small(Cardinality(S))
    BY FS_Subset
  <1>6. Adds(g, f, S)
    <2>1. \A s \in SUBSET S : g[s] = IF s = {} THEN 0 ELSE f[Picked(s)] + g[s \ {Picked(s)}]
      BY <1>4, <1>5
    <2> QED
      BY <2>1 DEF Adds
  <1> QED
    BY <1>6

(* Every two such recursions agree, whatever set they were made for. *)
LEMMA AddsAgree ==
    ASSUME NEW S, IsFiniteSet(S), NEW T, T \subseteq S, NEW f, NEW g, NEW h, Adds(g, f, S), Adds(h, f, T)
    PROVE  g[T] = h[T]
  <1> DEFINE F == {n \in Nat : \A s \in SUBSET T : Cardinality(s) = n => g[s] = h[s]}
  <1>0. /\ IsFiniteSet(T) /\ \A s \in SUBSET T : IsFiniteSet(s) /\ Cardinality(s) \in Nat
        /\ \A s \in SUBSET T : s \in SUBSET S
    BY FS_Subset, FS_CardinalityType
  <1>1. \A s \in SUBSET S : g[s] = IF s = {} THEN 0 ELSE f[Picked(s)] + g[s \ {Picked(s)}]
    BY DEF Adds
  <1>2. \A s \in SUBSET T : h[s] = IF s = {} THEN 0 ELSE f[Picked(s)] + h[s \ {Picked(s)}]
    BY DEF Adds
  <1>3. 0 \in F
    BY <1>0, <1>1, <1>2, FS_EmptySet
  <1>4. ASSUME NEW n \in Nat, n \in F PROVE n + 1 \in F
    <2> SUFFICES ASSUME NEW s \in SUBSET T, Cardinality(s) = n + 1 PROVE g[s] = h[s]
      OBVIOUS
    <2>1. s # {} /\ IsFiniteSet(s)
      BY <1>0, FS_EmptySet
    <2>2. Picked(s) \in s /\ s \ {Picked(s)} \in SUBSET T
      BY <2>1, PickedIn
    <2>3. Cardinality(s \ {Picked(s)}) = n
      <3>1. Cardinality(s \ {Picked(s)}) = Cardinality(s) - 1
        BY <2>1, <2>2, FS_RemoveElement
      <3> QED
        BY <3>1
    <2>4. g[s \ {Picked(s)}] = h[s \ {Picked(s)}]
      BY <1>4, <2>2, <2>3
    <2> QED
      BY <1>0, <1>1, <1>2, <2>1, <2>4
  <1>5. Cardinality(T) \in F
    <2>1. Cardinality(T) \in Nat
      BY <1>0
    <2> HIDE DEF F
    <2> QED
      BY <1>3, <1>4, <2>1, NumberInduction
  <1> QED
    BY <1>5

(* The sum as one takes it by hand: nothing, or one element and the rest -- *)
(* the element that Picked chose.                                           *)
LEMMA SumPicked ==
    ASSUME NEW S, IsFiniteSet(S), NEW f, \A x \in S : f[x] \in Int
    PROVE  /\ SumFunctionOnSet(f, S) \in Int
           /\ S = {} => SumFunctionOnSet(f, S) = 0
           /\ S # {} => SumFunctionOnSet(f, S) = f[Picked(S)] + SumFunctionOnSet(f, S \ {Picked(S)})
  <1> DEFINE G(T) == CHOOSE g : Adds(g, f, T)
  <1>1. PICK g \in [SUBSET S -> Int] : Adds(g, f, S)
    BY AddsExists
  <1>2. Adds(G(S), f, S)
    BY <1>1
  <1>3. SumFunctionOnSet(f, S) = g[S]
    BY <1>1, <1>2, SumUnfold, AddsAgree
  <1>4. S # {} => Adds(G(S \ {Picked(S)}), f, S \ {Picked(S)})
    <2>1. IsFiniteSet(S \ {Picked(S)})
      BY FS_Subset
    <2> QED
      BY <2>1, AddsExists
  <1>5. S # {} => SumFunctionOnSet(f, S \ {Picked(S)}) = g[S \ {Picked(S)}]
    BY <1>1, <1>4, SumUnfold, AddsAgree
  <1>6. \A s \in SUBSET S : g[s] = IF s = {} THEN 0 ELSE f[Picked(s)] + g[s \ {Picked(s)}]
    BY <1>1 DEF Adds
  <1> QED
    BY <1>1, <1>3, <1>5, <1>6

(* The order does not matter: any element may be taken first. *)
LEMMA SumElement ==
    ASSUME NEW S, IsFiniteSet(S), NEW f, \A x \in S : f[x] \in Int, NEW x \in S
    PROVE  /\ SumFunctionOnSet(f, S) = f[x] + SumFunctionOnSet(f, S \ {x})
           /\ SumFunctionOnSet(f, S) \in Int /\ SumFunctionOnSet(f, S \ {x}) \in Int
  <1> DEFINE F == {n \in Nat : \A T \in SUBSET S : Cardinality(T) = n =>
                      \A y \in T : SumFunctionOnSet(f, T) = f[y] + SumFunctionOnSet(f, T \ {y})}
  <1>0. \A T \in SUBSET S : IsFiniteSet(T) /\ Cardinality(T) \in Nat /\ \A y \in T : f[y] \in Int
    BY FS_Subset, FS_CardinalityType
  <1>1. \A T \in SUBSET S : SumFunctionOnSet(f, T) \in Int
    BY <1>0, SumPicked
  <1>2. 0 \in F
    BY <1>0, FS_EmptySet
  <1>3. ASSUME NEW n \in Nat, n \in F PROVE n + 1 \in F
    <2> SUFFICES ASSUME NEW T \in SUBSET S, Cardinality(T) = n + 1, NEW y \in T
                 PROVE  SumFunctionOnSet(f, T) = f[y] + SumFunctionOnSet(f, T \ {y})
      OBVIOUS
    <2> DEFINE p == Picked(T)
    <2>1. p \in T /\ SumFunctionOnSet(f, T) = f[p] + SumFunctionOnSet(f, T \ {p}) /\ IsFiniteSet(T)
      BY <1>0, SumPicked, PickedIn
    <2> HIDE DEF p
    <2>2. CASE p = y
      BY <2>1, <2>2
    <2>3. CASE p # y
      <3>1. /\ T \ {p} \in SUBSET S /\ T \ {y} \in SUBSET S
            /\ Cardinality(T \ {p}) = Cardinality(T) - 1 /\ Cardinality(T \ {y}) = Cardinality(T) - 1
        BY <2>1, FS_RemoveElement
      <3>2. Cardinality(T \ {p}) = n /\ Cardinality(T \ {y}) = n
        BY <3>1
      <3>3. SumFunctionOnSet(f, T \ {p}) = f[y] + SumFunctionOnSet(f, (T \ {p}) \ {y})
        BY <1>3, <2>3, <3>1, <3>2
      <3>4. SumFunctionOnSet(f, T \ {y}) = f[p] + SumFunctionOnSet(f, (T \ {y}) \ {p})
        BY <1>3, <2>1, <2>3, <3>1, <3>2
      <3>5. SumFunctionOnSet(f, (T \ {p}) \ {y}) = SumFunctionOnSet(f, (T \ {y}) \ {p})
        <4>1. (T \ {p}) \ {y} = (T \ {y}) \ {p}
          OBVIOUS
        <4> QED
          BY <4>1
      <3>6. f[p] \in Int /\ f[y] \in Int /\ SumFunctionOnSet(f, (T \ {y}) \ {p}) \in Int
        BY <1>0, <1>1, <2>1
      <3> QED
        BY <2>1, <3>3, <3>4, <3>5, <3>6
    <2> QED
      BY <2>2, <2>3
  <1>4. Cardinality(S) \in F
    <2>1. Cardinality(S) \in Nat
      BY <1>0
    <2> HIDE DEF F
    <2> QED
      BY <1>2, <1>3, <2>1, NumberInduction
  <1> QED
    BY <1>1, <1>4

(* A sum depends on the values of f on S only. *)
LEMMA SumSame ==
    ASSUME NEW S, IsFiniteSet(S), NEW f, NEW g, \A x \in S : f[x] \in Int /\ f[x] = g[x]
    PROVE  SumFunctionOnSet(f, S) = SumFunctionOnSet(g, S)
  <1> DEFINE F == {T \in SUBSET S : SumFunctionOnSet(f, T) = SumFunctionOnSet(g, T)}
  <1>1. {} \in F
    BY SumPicked, FS_EmptySet
  <1>2. ASSUME NEW T \in F, NEW x \in S PROVE T \cup {x} \in F
    <2>1. CASE x \in T
      <3>1. T \cup {x} = T
        BY <2>1
      <3> QED
        BY <3>1
    <2>2. CASE x \notin T
      <3>1. (T \cup {x}) \ {x} = T /\ x \in T \cup {x} /\ IsFiniteSet(T \cup {x})
        BY <2>2, FS_Subset
      <3>2. /\ SumFunctionOnSet(f, T \cup {x}) = f[x] + SumFunctionOnSet(f, T)
            /\ SumFunctionOnSet(g, T \cup {x}) = g[x] + SumFunctionOnSet(g, T)
        BY <3>1, SumElement
      <3> QED
        BY <3>2
    <2> QED
      BY <2>1, <2>2
  <1> HIDE DEF F
  <1>3. S \in F
    BY <1>1, <1>2, FiniteInduction
  <1> QED
    BY <1>3 DEF F

(* Changing one value changes the sum by as much. *)
LEMMA SumUpdate ==
    ASSUME NEW S, IsFiniteSet(S), NEW f, NEW g, NEW x \in S,
           \A y \in S : f[y] \in Int /\ g[y] \in Int, \A y \in S \ {x} : g[y] = f[y]
    PROVE  SumFunctionOnSet(g, S) = SumFunctionOnSet(f, S) + (g[x] - f[x]) /\ SumFunctionOnSet(f, S) \in Int
  <1>1. IsFiniteSet(S \ {x})
    BY FS_Subset
  <1>2. SumFunctionOnSet(f, S \ {x}) = SumFunctionOnSet(g, S \ {x})
    BY <1>1, SumSame
  <1>3. /\ SumFunctionOnSet(f, S) = f[x] + SumFunctionOnSet(f, S \ {x}) /\ SumFunctionOnSet(f, S) \in Int
        /\ SumFunctionOnSet(g, S) = g[x] + SumFunctionOnSet(g, S \ {x}) /\ SumFunctionOnSet(f, S \ {x}) \in Int
    BY SumElement
  <1> QED
    BY <1>2, <1>3

(* One element more adds its value. *)
LEMMA SumAdd ==
    ASSUME NEW S, IsFiniteSet(S), NEW f, NEW x, x \notin S, \A y \in S \cup {x} : f[y] \in Int
    PROVE  SumFunctionOnSet(f, S \cup {x}) = SumFunctionOnSet(f, S) + f[x] /\ SumFunctionOnSet(f, S) \in Int
  <1>1. (S \cup {x}) \ {x} = S /\ IsFiniteSet(S \cup {x}) /\ x \in S \cup {x}
    BY FS_AddElement
  <1>2. /\ SumFunctionOnSet(f, S \cup {x}) = f[x] + SumFunctionOnSet(f, (S \cup {x}) \ {x})
        /\ SumFunctionOnSet(f, (S \cup {x}) \ {x}) \in Int
    BY <1>1, SumElement
  <1>3. SumFunctionOnSet(f, (S \cup {x}) \ {x}) = SumFunctionOnSet(f, S) /\ f[x] \in Int
    BY <1>1
  <1> QED
    BY <1>2, <1>3

(* A sum over nothing, or of zeros. *)
LEMMA SumZero ==
    ASSUME NEW S, IsFiniteSet(S), NEW f, \A x \in S : f[x] = 0
    PROVE  SumFunctionOnSet(f, S) = 0
  <1> DEFINE F == {T \in SUBSET S : SumFunctionOnSet(f, T) = 0}
  <1>0. \A x \in S : f[x] \in Int
    OBVIOUS
  <1>1. {} \in F
    BY SumPicked, FS_EmptySet
  <1>2. ASSUME NEW T \in F, NEW x \in S PROVE T \cup {x} \in F
    <2>1. CASE x \in T
      <3>1. T \cup {x} = T
        BY <2>1
      <3> QED
        BY <3>1
    <2>2. CASE x \notin T
      <3>1. IsFiniteSet(T) /\ \A y \in T \cup {x} : f[y] \in Int
        BY <1>0, FS_Subset
      <3>2. SumFunctionOnSet(f, T \cup {x}) = SumFunctionOnSet(f, T) + f[x] /\ SumFunctionOnSet(f, T) \in Int
        BY <2>2, <3>1, SumAdd
      <3>3. SumFunctionOnSet(f, T \cup {x}) = 0
        BY <3>2, <1>0
      <3> QED
        BY <3>3
    <2> QED
      BY <2>1, <2>2
  <1> HIDE DEF F
  <1>3. S \in F
    BY <1>1, <1>2, FiniteInduction
  <1> QED
    BY <1>3 DEF F

(* Larger values, larger sum. *)
LEMMA SumMonotone ==
    ASSUME NEW S, IsFiniteSet(S), NEW f, NEW g,
           \A x \in S : f[x] \in Int /\ g[x] \in Int /\ f[x] <= g[x]
    PROVE  SumFunctionOnSet(f, S) <= SumFunctionOnSet(g, S)
  <1> DEFINE F == {T \in SUBSET S : SumFunctionOnSet(f, T) <= SumFunctionOnSet(g, T)}
  <1>1. {} \in F
    <2>1. SumFunctionOnSet(f, {}) = 0 /\ SumFunctionOnSet(g, {}) = 0
      BY SumPicked, FS_EmptySet
    <2> QED
      BY <2>1
  <1>2. ASSUME NEW T \in F, NEW x \in S PROVE T \cup {x} \in F
    <2>1. CASE x \in T
      <3>1. T \cup {x} = T
        BY <2>1
      <3> QED
        BY <3>1
    <2>2. CASE x \notin T
      <3>1. IsFiniteSet(T)
        BY FS_Subset
      <3>2. /\ SumFunctionOnSet(f, T \cup {x}) = SumFunctionOnSet(f, T) + f[x] /\ SumFunctionOnSet(f, T) \in Int
            /\ SumFunctionOnSet(g, T \cup {x}) = SumFunctionOnSet(g, T) + g[x] /\ SumFunctionOnSet(g, T) \in Int
        BY <2>2, <3>1, SumAdd
      <3> QED
        BY <3>2
    <2> QED
      BY <2>1, <2>2
  <1> HIDE DEF F
  <1>3. S \in F
    BY <1>1, <1>2, FiniteInduction
  <1> QED
    BY <1>3 DEF F

(* A sum of numbers is one, and no part is larger. *)
LEMMA SumOfNat ==
    ASSUME NEW S, IsFiniteSet(S), NEW f, \A x \in S : f[x] \in Nat
    PROVE  SumFunctionOnSet(f, S) \in Nat /\ \A x \in S : f[x] <= SumFunctionOnSet(f, S)
  <1> DEFINE z == [x \in S |-> 0]
  <1>1. ASSUME NEW T \in SUBSET S PROVE SumFunctionOnSet(f, T) \in Int /\ SumFunctionOnSet(f, T) >= 0
    <2>1. IsFiniteSet(T) /\ \A x \in T : f[x] \in Int
      BY FS_Subset
    <2>2. SumFunctionOnSet(z, T) = 0 /\ SumFunctionOnSet(z, T) <= SumFunctionOnSet(f, T)
      BY <2>1, SumZero, SumMonotone
    <2>3. SumFunctionOnSet(f, T) \in Int
      BY <2>1, SumPicked
    <2> QED
      BY <2>2, <2>3
  <1>2. ASSUME NEW x \in S PROVE f[x] <= SumFunctionOnSet(f, S)
    <2>1. SumFunctionOnSet(f, S) = f[x] + SumFunctionOnSet(f, S \ {x})
      BY SumElement
    <2> QED
      BY <1>1, <2>1
  <1> QED
    BY <1>1, <1>2
=============================================================================
