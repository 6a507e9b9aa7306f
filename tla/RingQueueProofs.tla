-------------------------- MODULE RingQueueProofs ---------------------------
(***************************************************************************)
(* Proofs about RingQueue, for any number of producers, consumers and      *)
(* lookers, any capacity of two or more and any first position, in runs of *)
(* fewer items than the counters have values.  Positions are compared by   *)
(* their distance from the first one, Off(x): head, tail and what agents   *)
(* hold are then plain numbers that only grow.                             *)
(***************************************************************************)
EXTENDS RingQueue, NumberTheorems, SequenceTheorems

(* What is assumed of the constants.  Two slots: with one, the seqno that     *)
(* says "free" is the one that says "published".  Fewer items than values     *)
(* of a counter: an agent that sleeps while the counters go all the way       *)
(* round takes the old position for the new one.                              *)
Fits ==
    /\ Slots \in Nat /\ Slots >= 2
    /\ Modulus \in Nat /\ Modulus % Slots = 0
    /\ First \in 0 .. Modulus - 1
    /\ IsFiniteSet(Items) /\ Cardinality(Items) + Slots <= Modulus
    /\ IsFiniteSet(Lookers)
    /\ Producers \cap Consumers = {} /\ Producers \cap Lookers = {}
    /\ Consumers \cap Lookers = {}
    /\ Retries \in Nat

Numbers == 0 .. Modulus - 1
Off(x) == Minus(x, First)
H == Off(head)
T == Off(tail)
L == Len(log)
Cell(o) == (First + o) % Slots
Sq(o) == Off(seqno[Cell(o)])

(* An agent's local variables. *)
Locals == [pc : {"idle", "h1", "t", "h2", "counted", "tail", "head", "seq", "cas", "lock",
                 "write", "publish", "advance", "read", "recycle", "give", "again",
                 "recheck", "reseq", "look", "unlock"},
           at : Numbers, t : Numbers, sure : BOOLEAN, tries : Nat,
           item : Items \cup {NoItem}, truth : Numbers]

Answers == Seq(Items \cup {NoItem} \cup Nat)

TypeOK ==
    /\ mode \in {"one", "many", "broken"}
    /\ head \in Numbers /\ tail \in Numbers
    /\ seqno \in [Index -> Numbers]
    /\ guard \in [Index -> Int]
    /\ cell \in [Index -> Items \cup {NoItem}]
    /\ me \in [Agents -> Locals]
    /\ answer \in [Agents -> Answers]
    /\ unsent \subseteq Items
    /\ log \in Seq(Items)

(* head, tail and the number of items that entered; in mode "one" an item    *)
(* enters a step before tail counts it.                                      *)
Advancing == mode = "one" /\ \E p \in Producers : At(p, "advance")
PosInv ==
    /\ H <= T /\ L - H <= Slots
    /\ T = IF Advancing THEN L - 1 ELSE L

(* Each item enters once. *)
LogInv ==
    /\ \A i, j \in 1 .. L : i # j => log[i] # log[j]
    /\ \A i \in 1 .. L : log[i] \notin unsent

(* The last Slots positions each have a cell, and its seqno tells their      *)
(* state: from head on claimed (o) or published (o + 1), before head being   *)
(* read (o + 1) or given back (o + Slots).  In mode "one" a position is      *)
(* given back a step before head passes it.                                  *)
Passed == IF mode = "one" /\ \E c \in Consumers : At(c, "advance") THEN H + 1 ELSE H
SeqInv ==
    \A o \in L - Slots .. L - 1 :
        /\ o >= Passed => Sq(o) = o + 1 \/ (Sq(o) = o /\ mode = "many")
        /\ o <  Passed => Sq(o) = o + Slots \/ (Sq(o) = o + 1 /\ mode = "many")

(* A published cell holds the item that entered at its position. *)
CellInv ==
    \A o \in L - Slots .. L - 1 :
        (o >= 0 /\ Sq(o) = o + 1) => cell[Cell(o)] = log[o + 1]

Offering(p) ==
    me[p].pc \in (IF mode = "one"
                  THEN {"h1", "t", "h2", "counted", "lock", "write", "publish"}
                  ELSE {"tail", "seq", "cas"})
Owning(p) == me[p].pc \in {"lock", "write", "publish"}
Taking(c) == me[c].pc \in {"read", "recycle"}
Holding(k) == me[k].pc \in {"recheck", "reseq", "look", "unlock"}

(* What a producer knows at each of its places. *)
ProducerOne(p) ==
    /\ me[p].pc \in {"idle", "h1", "t", "h2", "counted", "lock", "write", "publish", "advance"}
    /\ me[p].pc \in {"h2", "counted"} => me[p].t = tail
    /\ Owning(p) => me[p].at = tail /\ L - H < Slots
ProducerMany(p) ==
    /\ me[p].pc \in {"idle", "tail", "seq", "cas", "lock", "write", "publish"}
    /\ me[p].pc \in {"seq", "cas"} => Off(me[p].at) <= T
    /\ (me[p].pc = "cas" /\ me[p].at = tail) => seqno[Pos(tail)] = tail
    /\ Owning(p) =>
          /\ H <= Off(me[p].at) /\ Off(me[p].at) < T
          /\ seqno[Pos(me[p].at)] = me[p].at
          /\ log[Off(me[p].at) + 1] = me[p].item
ProducerInv(p) ==
    /\ mode = "broken" => me[p].pc = "idle"
    /\ mode = "one" => ProducerOne(p)
    /\ mode = "many" => ProducerMany(p)
    /\ me[p].pc = "publish" => cell[Pos(me[p].at)] = me[p].item
    /\ Offering(p) => /\ me[p].item \in Items /\ me[p].item \notin unsent
                      /\ \A i \in 1 .. L : log[i] # me[p].item

(* What a consumer knows. *)
ConsumerOne(c) ==
    /\ me[c].pc \in {"idle", "h1", "t", "h2", "counted", "read", "recycle", "advance", "give"}
    /\ me[c].pc \in {"t", "h2", "counted"} => me[c].at = head
    /\ me[c].pc \in {"h2", "counted"} => H <= Off(me[c].t) /\ Off(me[c].t) <= T
    /\ me[c].pc \in {"read", "recycle", "advance"} => me[c].at = head /\ H < T
    /\ me[c].pc = "give" => Off(me[c].at) + 1 = H
    /\ me[c].pc \in {"recycle", "advance", "give"} => me[c].item = log[Off(me[c].at) + 1]
ConsumerMany(c) ==
    /\ me[c].pc \in {"idle", "head", "seq", "cas", "read", "recycle"}
    /\ me[c].pc \in {"seq", "cas"} => Off(me[c].at) <= H
    /\ (me[c].pc = "cas" /\ me[c].at = head) => H < T /\ seqno[Pos(head)] = Plus(head, 1)
    /\ Taking(c) =>
          /\ L - Slots <= Off(me[c].at) /\ Off(me[c].at) < H
          /\ seqno[Pos(me[c].at)] = Plus(me[c].at, 1)
    /\ me[c].pc = "recycle" => me[c].item = log[Off(me[c].at) + 1]
ConsumerInv(c) ==
    /\ mode = "broken" => me[c].pc = "idle"
    /\ mode = "one" => ConsumerOne(c)
    /\ mode = "many" => ConsumerMany(c)

(* What a looker knows: where head was and, behind its second look at the    *)
(* seqno, the item.                                                          *)
LookerInv(k) ==
    /\ me[k].pc \in {"idle", "h1", "t", "h2", "counted", "seq", "lock", "recheck", "reseq",
                     "look", "unlock", "again"}
    /\ me[k].pc \in {"seq", "lock", "recheck", "reseq", "look", "unlock"} => Off(me[k].at) <= H
    /\ me[k].pc = "look" => Off(me[k].at) < L /\ cell[Pos(me[k].at)] = log[Off(me[k].at) + 1]

(* What a call of ring_queue_count knows: if head is where it was at first,  *)
(* it never left, and the difference was the number of items.                *)
Exact(a) == me[a].truth = Minus(me[a].t, me[a].at) /\ me[a].truth <= Slots
CountInv(a) ==
    /\ me[a].pc \in {"idle", "h1", "t", "h2"} => ~me[a].sure
    /\ me[a].pc \in {"t", "h2", "counted"} => Off(me[a].at) <= H
    /\ (me[a].pc = "h2" /\ me[a].at = head) => Exact(a)
    /\ (me[a].pc = "counted" /\ me[a].sure) => Exact(a)

AgentInv(a) ==
    /\ a \in Producers => ProducerInv(a)
    /\ a \in Consumers => ConsumerInv(a)
    /\ a \in Lookers => LookerInv(a)
    /\ CountInv(a)

(* What two agents of a kind do not have in common. *)
PairInv(a, b) ==
    /\ (mode = "one" /\ a \in Producers /\ b \in Producers /\ me[a].pc # "idle")
          => me[b].pc = "idle"
    /\ (mode = "one" /\ a \in Consumers /\ b \in Consumers /\ me[a].pc # "idle")
          => me[b].pc = "idle"
    /\ (mode = "many" /\ a \in Producers /\ b \in Producers /\ Owning(a) /\ Owning(b))
          => me[a].at # me[b].at
    /\ (mode = "many" /\ a \in Consumers /\ b \in Consumers /\ Taking(a) /\ Taking(b))
          => me[a].at # me[b].at
    /\ (a \in Producers /\ b \in Producers /\ Offering(a) /\ Offering(b))
          => me[a].item # me[b].item

(* A guard is -1 while a producer writes the cell, else the number of        *)
(* lookers that hold it.                                                     *)
Writing(i) == \E p \in Producers : At(p, "write") /\ Pos(me[p].at) = i
Holders(i) == {k \in Lookers : Holding(k) /\ Pos(me[k].at) = i}
GuardInv ==
    \A i \in Index :
        /\ Writing(i) => guard[i] = -1 /\ Holders(i) = {}
        /\ ~Writing(i) => guard[i] = Cardinality(Holders(i))

RingInv == PosInv /\ LogInv /\ SeqInv /\ CellInv
IInv ==
    /\ Fits /\ TypeOK /\ RingInv /\ GuardInv
    /\ \A a \in Agents : AgentInv(a)
    /\ \A a, b \in Agents : a # b => PairInv(a, b)

-----------------------------------------------------------------------------
(* Positions, distances and cells. *)

(* What the assumptions say of the numbers. *)
LEMMA Constants ==
    ASSUME Fits
    PROVE  /\ Slots \in Nat /\ Slots >= 2 /\ Modulus \in Nat /\ Modulus >= Slots
           /\ First \in Int /\ 0 <= First /\ First < Modulus
           /\ Cardinality(Items) \in Nat /\ Cardinality(Items) + Slots <= Modulus
  <1>1. Cardinality(Items) \in Nat
    BY FS_CardinalityType DEF Fits
  <1> QED
    BY <1>1 DEF Fits

(* The distance of a position, without remainders. *)
LEMMA OffValue ==
    ASSUME Fits, NEW x \in Numbers
    PROVE  /\ Off(x) = IF x >= First THEN x - First ELSE x - First + Modulus
           /\ Off(x) \in Numbers
  <1>1. x - First \in Int /\ -Modulus < x - First /\ x - First < Modulus
    BY Constants DEF Numbers
  <1>2. (x - First) % Modulus = IF x - First >= 0 THEN x - First ELSE x - First + Modulus
    BY <1>1, Constants, ModSmall
  <1> QED
    BY <1>1, <1>2, Constants DEF Off, Minus, Numbers

(* Two positions at the same distance are the same. *)
LEMMA OffInjective ==
    ASSUME Fits, NEW x \in Numbers, NEW y \in Numbers, Off(x) = Off(y)
    PROVE  x = y
  BY OffValue, Constants DEF Numbers

(* A position some places further. *)
LEMMA OffPlus ==
    ASSUME Fits, NEW x \in Numbers, NEW n \in Nat, Off(x) + n < Modulus
    PROVE  Off(Plus(x, n)) = Off(x) + n /\ Plus(x, n) \in Numbers
  <1>1. x \in Int /\ 0 <= x /\ x < Modulus /\ Modulus >= 2 /\ Modulus \in Nat
        /\ First \in Int /\ 0 <= First /\ First < Modulus
    BY Constants DEF Numbers
  <1>2. Off(x) = IF x >= First THEN x - First ELSE x - First + Modulus
    BY OffValue
  <1>3. Plus(x, n) = IF x + n < Modulus THEN x + n ELSE x + n - Modulus
    <2>1. CASE x + n < Modulus
      BY <1>1, <2>1, ModSmall DEF Plus
    <2>2. CASE x + n >= Modulus
      <3>1. x + n - Modulus \in Int /\ 0 <= x + n - Modulus /\ x + n - Modulus < Modulus
        BY <1>1, <1>2, <2>2
      <3>2. (x + n - Modulus) % Modulus = x + n - Modulus
        BY <1>1, <3>1, ModSmall
      <3> DEFINE z == x + n - Modulus
      <3>3. z \in Int /\ Modulus >= 1 /\ z + Modulus = x + n /\ z % Modulus = z
        BY <1>1, <3>1, <3>2
      <3> HIDE DEF z
      <3>4. (z + Modulus) % Modulus = z
        BY <1>1, <3>3, ModShift
      <3>5. Plus(x, n) = z
        BY <3>3, <3>4 DEF Plus
      <3> QED
        BY <2>2, <3>5, <1>1 DEF z
    <2> QED
      BY <1>1, <2>1, <2>2
  <1>4. Plus(x, n) \in Numbers
    BY <1>1, <1>2, <1>3 DEF Numbers
  <1> DEFINE y == Plus(x, n)
  <1>5. Off(y) = IF y >= First THEN y - First ELSE y - First + Modulus
    BY <1>4, OffValue
  <1> QED
    BY <1>1, <1>2, <1>3, <1>4, <1>5

(* The difference of two positions. *)
LEMMA MinusValue ==
    ASSUME Fits, NEW x \in Numbers, NEW y \in Numbers
    PROVE  /\ Off(y) <= Off(x) => Minus(x, y) = Off(x) - Off(y)
           /\ Minus(x, y) \in Numbers
           /\ Minus(x, y) = 0 <=> x = y
  <1>1. /\ x \in Int /\ 0 <= x /\ x < Modulus /\ y \in Int /\ 0 <= y /\ y < Modulus
        /\ Modulus \in Nat /\ First \in Int /\ 0 <= First /\ First < Modulus
    BY Constants DEF Numbers
  <1>2. (x - y) % Modulus = IF x - y >= 0 THEN x - y ELSE x - y + Modulus
    <2>1. x - y \in Int /\ -Modulus < x - y /\ x - y < Modulus
      BY <1>1
    <2> QED
      BY <1>1, <2>1, ModSmall
  <1>3. /\ Off(x) = IF x >= First THEN x - First ELSE x - First + Modulus
        /\ Off(y) = IF y >= First THEN y - First ELSE y - First + Modulus
    BY OffValue
  <1> QED
    BY <1>1, <1>2, <1>3 DEF Minus, Numbers

(* Every position has a cell. *)
LEMMA CellIndex == ASSUME Fits, NEW o \in Int PROVE Cell(o) \in Index
  <1>1. First + o \in Int /\ Slots \in Nat /\ Slots >= 1
    BY Constants
  <1> QED
    BY <1>1, DivMod DEF Cell, Index

(* Adding a number without remainder changes no remainder. *)
LEMMA ModMultiple ==
    ASSUME NEW n \in Nat, n >= 1, NEW a \in Int, NEW m \in Int
    PROVE  m % n = 0 => (a + m) % n = a % n
  <1> DEFINE k == m \div n
             q == a \div n
             r == a % n
             s == m % n
             z == a + m
             j == q + k
  <1>1. m = n * k + s /\ k \in Int
    BY DivMod
  <1>2. a = n * q + r /\ q \in Int /\ r \in 0 .. n - 1
    BY DivMod
  <1>3. z = a + m /\ z \in Int
    OBVIOUS
  <1>4. j = q + k
    OBVIOUS
  <1> HIDE DEF k, q, r, s, z, j
  <1>5. SUFFICES ASSUME s = 0 PROVE z % n = r
    BY DEF s, z, r
  <1>6. z = n * j + r /\ j \in Int
    BY <1>1, <1>2, <1>3, <1>4, <1>5
  <1>7. r \in 0 .. n - 1 /\ z \in Int
    BY <1>2, <1>3
  <1> QED
    BY <1>6, <1>7, ModOfSum

(* The cell the code indexes is that of the distance: the counters hold a    *)
(* whole number of turns.                                                    *)
LEMMA PosCell ==
    ASSUME Fits, NEW x \in Numbers
    PROVE  Pos(x) = Cell(Off(x)) /\ Pos(x) \in Index
  <1>1. /\ x \in Int /\ Slots \in Nat /\ Slots >= 1 /\ Modulus \in Nat /\ First \in Int
        /\ Modulus % Slots = 0
    BY Constants DEF Numbers, Fits
  <1>r. Pos(x) \in 0 .. Slots - 1
    BY <1>1, DivMod DEF Pos
  <1>4. (x + Modulus) % Slots = Pos(x)
    BY <1>1, ModMultiple, Modulus \in Int DEF Pos
  <1>5. First + Off(x) = x \/ First + Off(x) = x + Modulus
    BY <1>1, OffValue, Constants
  <1>6. Cell(Off(x)) = Pos(x)
    BY <1>4, <1>5 DEF Cell, Pos
  <1> QED
    BY <1>r, <1>6 DEF Index

(* Positions a whole turn apart share their cell. *)
LEMMA CellTurn ==
    ASSUME Fits, NEW o \in Int PROVE Cell(o - Slots) = Cell(o) /\ Cell(o + Slots) = Cell(o)
  <1>1. Slots \in Nat /\ Slots >= 1 /\ First \in Int
    BY Constants
  <1>2. (First + o) + Slots = First + (o + Slots) /\ (First + (o - Slots)) + Slots = First + o
    BY <1>1
  <1>3. ((First + o) + Slots) % Slots = (First + o) % Slots
    BY <1>1, ModShift, First + o \in Int
  <1>4. ((First + (o - Slots)) + Slots) % Slots = (First + (o - Slots)) % Slots
    BY <1>1, ModShift, First + (o - Slots) \in Int
  <1> QED
    BY <1>2, <1>3, <1>4 DEF Cell

(* Positions less than a turn apart have different cells. *)
LEMMA CellApart ==
    ASSUME Fits PROVE \A q, r \in Int : (q < r /\ r < q + Slots) => Cell(q) # Cell(r)
  <1> SUFFICES ASSUME NEW q \in Int, NEW r \in Int, q < r, r < q + Slots
               PROVE  Cell(q) # Cell(r)
    OBVIOUS
  <1>1. /\ Slots \in Nat /\ Slots >= 1 /\ First + q \in Int /\ First + r \in Int
        /\ First + q < First + r /\ First + r < First + q + Slots
    BY Constants
  <1> QED
    BY <1>1, ModInjective DEF Cell

(* Any span of Slots positions reaches every cell. *)
LEMMA CellCover ==
    ASSUME Fits, NEW i \in Index, NEW t \in Int
    PROVE  \E r \in Int : t - Slots <= r /\ r < t /\ Cell(r) = i
  <1>1. Slots \in Nat /\ Slots >= 1 /\ First \in Int /\ i \in 0 .. Slots - 1
    BY Constants DEF Index
  <1> DEFINE d == i - First - t
             k == d \div Slots
             m == d % Slots
             r == t - Slots + m
  <1>2. d = Slots * k + m /\ k \in Int /\ m \in 0 .. Slots - 1
    BY <1>1, DivMod, d \in Int
  <1>4. r \in Int /\ t - Slots <= r /\ r < t
    BY <1>1, <1>2
  <1>5. d = i - First - t
    OBVIOUS
  <1> HIDE DEF d, k, m
  <1>6. PICK j \in Int : j = -1 - k
    BY <1>2
  <1>7. First + r = Slots * j + i /\ First + r \in Int
    <2>1. First + r = Slots * (-1 - k) + i
      BY <1>1, <1>2, <1>5
    <2> QED
      BY <1>1, <1>4, <1>6, <2>1
  <1> HIDE DEF r
  <1>8. (First + r) % Slots = i
    <2>1. PICK z \in Int : z = First + r
      BY <1>7
    <2>2. z = Slots * j + i
      BY <1>7, <2>1
    <2>3. z % Slots = i
      BY <1>1, <2>2, ModOfSum
    <2> QED
      BY <2>1, <2>3
  <1> QED
    BY <1>4, <1>8 DEF Cell

-----------------------------------------------------------------------------
(* What the invariant says of the numbers in a state. *)

(* The items that entered are different, so they are at most all the items. *)
LEMMA LengthBound ==
    ASSUME Fits, log \in Seq(Items), \A i, j \in 1 .. L : i # j => log[i] # log[j]
    PROVE  L \in Nat /\ L + Slots <= Modulus
  <1>1. L \in Nat /\ log \in [1 .. L -> Items]
    BY DEF L
  <1>2. log \in Injection(1 .. L, Items)
    BY <1>1 DEF Injection, IsInjective
  <1>3. Cardinality(1 .. L) <= Cardinality(Items)
    BY <1>2, FS_Injection DEF Fits
  <1>4. Cardinality(1 .. L) = L
    BY <1>1, FS_Interval
  <1> QED
    BY <1>1, <1>3, <1>4, Constants

(* The numbers of a state and their order. *)
LEMMA Order ==
    ASSUME IInv
    PROVE  /\ H \in Int /\ T \in Int /\ L \in Int
           /\ 0 <= H /\ H <= T /\ T <= L /\ L <= T + 1 /\ L - H <= Slots
           /\ Slots \in Int /\ Slots >= 2 /\ Modulus \in Int /\ L + Slots <= Modulus
           /\ mode # "one" => T = L
           /\ Passed \in {H, H + 1} /\ Passed \in Int
           /\ mode # "one" => Passed = H
  <1>1. L \in Nat /\ L + Slots <= Modulus
    BY LengthBound DEF IInv, RingInv, LogInv, TypeOK
  <1>2. H \in Numbers /\ T \in Numbers
    BY OffValue DEF IInv, TypeOK, H, T
  <1>3. Passed \in {H, H + 1} /\ (mode # "one" => Passed = H)
    BY DEF Passed
  <1> QED
    BY <1>1, <1>2, <1>3, Constants DEF IInv, RingInv, PosInv, Numbers, Advancing

(* The seqno of a position's cell, as the code compares it. *)
LEMMA SeqRead ==
    ASSUME Fits, TypeOK, NEW x \in Numbers
    PROVE  /\ seqno[Pos(x)] \in Numbers
           /\ Off(seqno[Pos(x)]) = Sq(Off(x))
           /\ seqno[Pos(x)] = x <=> Sq(Off(x)) = Off(x)
           /\ Off(x) + 1 < Modulus =>
                (seqno[Pos(x)] = Plus(x, 1) <=> Sq(Off(x)) = Off(x) + 1)
  <1>1. Pos(x) = Cell(Off(x)) /\ Pos(x) \in Index
    BY PosCell
  <1>2. seqno[Pos(x)] \in Numbers
    BY <1>1 DEF TypeOK
  <1>3. Off(seqno[Pos(x)]) = Sq(Off(x))
    BY <1>1 DEF Sq
  <1>4. seqno[Pos(x)] = x <=> Sq(Off(x)) = Off(x)
    BY <1>2, <1>3, OffInjective
  <1>5. ASSUME Off(x) + 1 < Modulus
        PROVE  seqno[Pos(x)] = Plus(x, 1) <=> Sq(Off(x)) = Off(x) + 1
    <2>1. Off(Plus(x, 1)) = Off(x) + 1 /\ Plus(x, 1) \in Numbers
      BY <1>5, OffPlus
    <2> QED
      BY <1>2, <1>3, <2>1, OffInjective
  <1> QED
    BY <1>2, <1>3, <1>4, <1>5

(* A seqno is written. *)
LEMMA SeqWrite ==
    ASSUME Fits, TypeOK, NEW x \in Numbers, NEW n \in Nat, Off(x) + n < Modulus,
           seqno' = [seqno EXCEPT ![Pos(x)] = Plus(x, n)]
    PROVE  /\ seqno' \in [Index -> Numbers]
           /\ \A o \in Int : Cell(o) = Cell(Off(x)) => Sq(o)' = Off(x) + n
           /\ \A o \in Int : Cell(o) # Cell(Off(x)) => Sq(o)' = Sq(o)
  <1>1. Pos(x) = Cell(Off(x)) /\ Pos(x) \in Index
    BY PosCell
  <1>2. Off(Plus(x, n)) = Off(x) + n /\ Plus(x, n) \in Numbers
    BY OffPlus
  <1>3. seqno \in [Index -> Numbers]
    BY DEF TypeOK
  <1>4. \A o \in Int : Cell(o) \in Index
    BY CellIndex
  <1> QED
    BY <1>1, <1>2, <1>3, <1>4 DEF Sq

(* The cell of the next position is that of the oldest of the last Slots. *)
LEMMA NextCell ==
    ASSUME Fits, NEW o \in Int PROVE Cell(o - Slots) = Cell(o) /\ Sq(o - Slots) = Sq(o)
  BY CellTurn DEF Sq

(* The seqno of any cell is that of one of the last Slots positions. *)
LEMMA SeqOf ==
    ASSUME IInv, NEW x \in Numbers
    PROVE  \E o \in L - Slots .. L - 1 : Cell(o) = Pos(x) /\ Sq(o) = Sq(Off(x))
  <1>1. Pos(x) = Cell(Off(x)) /\ Pos(x) \in Index /\ L \in Int /\ Slots \in Int
    BY PosCell, Order DEF IInv
  <1>2. PICK o \in Int : L - Slots <= o /\ o < L /\ Cell(o) = Pos(x)
    BY <1>1, CellCover DEF IInv
  <1> QED
    BY <1>1, <1>2 DEF Sq

(* A position that is published is one of the last Slots that entered. *)
LEMMA PublishedIsRecent ==
    ASSUME IInv, NEW x \in Numbers, seqno[Pos(x)] = Plus(x, 1), Off(x) <= L
    PROVE  /\ L - Slots <= Off(x) /\ Off(x) < L /\ Off(x) \in Int /\ 0 <= Off(x)
           /\ Sq(Off(x)) = Off(x) + 1 /\ Pos(x) = Cell(Off(x))
           /\ cell[Pos(x)] = log[Off(x) + 1]
  <1>1. /\ L \in Int /\ Slots \in Int /\ Slots >= 2 /\ L + Slots <= Modulus /\ Modulus \in Int
        /\ Off(x) \in Int /\ 0 <= Off(x) /\ Fits /\ TypeOK
    BY Order, OffValue DEF IInv, Numbers
  <1>2. Off(x) + 1 < Modulus
    BY <1>1
  <1>3. Sq(Off(x)) = Off(x) + 1
    BY <1>1, <1>2, SeqRead
  <1>4. PICK o \in L - Slots .. L - 1 : Cell(o) = Pos(x) /\ Sq(o) = Sq(Off(x))
    BY SeqOf
  <1>5. Pos(x) = Cell(Off(x))
    BY <1>1, PosCell
  <1>6. Sq(o) \in {o, o + 1, o + Slots} /\ o \in Int
    <2>1. Passed \in Int /\ o \in Int /\ o \in L - Slots .. L - 1
      <3>1. Passed \in Int
        BY Order
      <3> QED
        BY <1>1, <1>4, <3>1
    <2>2. (o >= Passed => Sq(o) \in {o, o + 1}) /\ (o < Passed => Sq(o) \in {o + 1, o + Slots})
      BY <2>1 DEF IInv, RingInv, SeqInv
    <2> QED
      BY <2>1, <2>2
  <1>7. o = Off(x)
    <2>1. Off(x) \in {o - 1, o, o + Slots - 1}
      BY <1>1, <1>3, <1>4, <1>6
    <2>2. Cell(o - 1) # Cell(o)
      <3>1. o - 1 \in Int /\ o - 1 < o /\ o < (o - 1) + Slots
        BY <1>1, <1>6
      <3> QED
        BY <1>1, <1>6, <3>1, CellApart
    <2>3. Cell(o) # Cell(o + Slots - 1)
      <3>1. o + Slots - 1 \in Int /\ o < o + Slots - 1 /\ o + Slots - 1 < o + Slots
        BY <1>1, <1>6
      <3> QED
        BY <1>1, <1>6, <3>1, CellApart
    <2> QED
      BY <1>4, <1>5, <2>1, <2>2, <2>3
  <1>8. cell[Cell(o)] = log[o + 1]
    BY <1>1, <1>3, <1>4, <1>7 DEF IInv, RingInv, CellInv
  <1> QED
    BY <1>1, <1>3, <1>4, <1>5, <1>7, <1>8

-----------------------------------------------------------------------------
(* The invariant is inductive. *)

(* The initial ring: every cell free for its first position. *)
LEMMA InitInv == Fits /\ Init => IInv
  <1> SUFFICES ASSUME Fits, Init PROVE IInv
    OBVIOUS
  <1>0. /\ Slots \in Nat /\ Slots >= 2 /\ Slots >= 1 /\ Modulus \in Nat /\ Modulus >= Slots
        /\ First \in Int /\ 0 <= First /\ First < Modulus /\ First \in Numbers
    BY Constants DEF Numbers
  <1>1. L = 0 /\ H = 0 /\ T = 0
    <2>1. Off(First) = 0
      BY <1>0, OffValue
    <2> QED
      BY <2>1 DEF Init, L, H, T
  <1>2. \A i \in Index : (i - First) % Slots \in Nat /\ (i - First) % Slots < Slots
    <2> SUFFICES ASSUME NEW i \in Index
                 PROVE  (i - First) % Slots \in Nat /\ (i - First) % Slots < Slots
      OBVIOUS
    <2>1. PICK z \in Int : z = i - First
      BY <1>0 DEF Index
    <2>2. z % Slots \in 0 .. Slots - 1
      BY <1>0, <2>1, DivMod
    <2> QED
      BY <1>0, <2>1, <2>2
  <1>3. \A i \in Index : seqno[i] \in Numbers /\ Off(seqno[i]) = (i - First) % Slots
    <2> SUFFICES ASSUME NEW i \in Index
                 PROVE  seqno[i] \in Numbers /\ Off(seqno[i]) = (i - First) % Slots
      OBVIOUS
    <2>1. PICK n \in Nat : n = (i - First) % Slots /\ n < Slots
      BY <1>2
    <2>2. Off(First) = 0
      BY <1>0, OffValue
    <2>3. Off(Plus(First, n)) = n /\ Plus(First, n) \in Numbers
      BY <1>0, <2>1, <2>2, OffPlus
    <2> QED
      BY <2>1, <2>3 DEF Init
  <1>4. TypeOK
    <2>1. seqno \in [Index -> Numbers]
      BY <1>3 DEF Init
    <2>2. me \in [Agents -> Locals]
      BY <1>0, Constants DEF Init, Idle, Locals, Numbers, Fits
    <2>3. answer \in [Agents -> Answers]
      BY DEF Init, Answers
    <2> QED
      BY <1>0, <2>1, <2>2, <2>3 DEF Init, TypeOK
  <1>5. \A o \in L - Slots .. L - 1 : o \in Int /\ o < 0 /\ Sq(o) = o + Slots
    <2> SUFFICES ASSUME NEW o \in -Slots .. -1 PROVE o \in Int /\ o < 0 /\ Sq(o) = o + Slots
      BY <1>0, <1>1
    <2>1. o \in Int /\ -Slots <= o /\ o < 0 /\ Cell(o) \in Index
      BY <1>0, CellIndex
    <2>2. Sq(o) = (Cell(o) - First) % Slots
      BY <1>3, <2>1 DEF Sq
    <2> DEFINE i == Cell(o)
    <2>y. PICK y \in Int : y = First + o
      BY <1>0, <2>1
    <2>z. i = y % Slots
      BY <2>y DEF Cell
    <2> HIDE DEF i
    <2>w. y = Slots * (y \div Slots) + i /\ y \div Slots \in Int /\ i \in 0 .. Slots - 1
      BY <1>0, <2>y, <2>z, DivMod
    <2> DEFINE k == y \div Slots
    <2>u. y = Slots * k + i /\ k \in Int /\ i \in 0 .. Slots - 1
      BY <2>w
    <2> HIDE DEF k
    <2>3. First + o = Slots * k + i /\ k \in Int /\ i \in 0 .. Slots - 1
      BY <2>y, <2>u
    <2> DEFINE z == i - First
               r == o + Slots
               j == -1 - k
    <2>4. z \in Int /\ r \in 0 .. Slots - 1 /\ j \in Int
      BY <1>0, <2>1, <2>3
    <2>5. z = Slots * j + r
      BY <1>0, <2>1, <2>3
    <2> HIDE DEF z, r, j
    <2>6. z % Slots = r
      BY <1>0, <2>4, <2>5, ModOfSum
    <2> QED
      BY <2>1, <2>2, <2>6 DEF z, r, i
  <1>6. PosInv /\ LogInv
    <2>1. ~Advancing
      BY DEF Init, Advancing, At, Idle, Agents
    <2> QED
      BY <1>0, <1>1, <2>1 DEF PosInv, LogInv
  <1>7. SeqInv /\ CellInv
    <2>1. Passed = H
      BY DEF Init, Passed, At, Idle, Agents
    <2> QED
      BY <1>0, <1>1, <1>5, <2>1 DEF SeqInv, CellInv
  <1>8. \A a \in Agents : me[a].pc = "idle" /\ ~me[a].sure
    BY DEF Init, Idle
  <1>9. GuardInv
    <2>1. \A i \in Index : ~Writing(i) /\ Holders(i) = {}
      BY <1>8 DEF Writing, Holders, Holding, At, Agents
    <2> QED
      BY <2>1, FS_EmptySet DEF GuardInv, Init
  <1>10. \A a \in Agents : AgentInv(a)
    BY <1>8 DEF AgentInv, ProducerInv, ProducerOne, ProducerMany, ConsumerInv, ConsumerOne,
                ConsumerMany, LookerInv, CountInv, Owning, Offering, Taking
  <1>11. \A a, b \in Agents : a # b => PairInv(a, b)
    BY <1>8 DEF PairInv, Owning, Offering, Taking
  <1> QED
    BY <1>4, <1>6, <1>7, <1>9, <1>10, <1>11 DEF IInv, RingInv

(* Who is not touched by a step that leaves the ring alone, but for the guards, *)
(* keeps what it knows.                                                         *)
LEMMA OthersKeep ==
    ASSUME UNCHANGED <<mode, head, tail, seqno, cell, unsent, log>>,
           NEW b \in Agents, me'[b] = me[b], AgentInv(b)
    PROVE  AgentInv(b)'
  BY DEF AgentInv, ProducerInv, ProducerOne, ProducerMany, ConsumerInv, ConsumerOne,
         ConsumerMany, LookerInv, CountInv, Exact, Owning, Offering, Taking, H, T, L

(* What a pair of agents does not have in common stays so in a step of one of *)
(* them that takes nothing.                                                   *)
LEMMA PairsKeep ==
    ASSUME IInv, NEW a \in Agents, mode' = mode,
           \A b \in Agents : b # a => me'[b] = me[b],
           (mode = "one" /\ me[a].pc = "idle" /\ me'[a].pc # "idle") =>
               (a \in Producers => Alone(Producers)) /\ (a \in Consumers => Alone(Consumers)),
           (mode = "many" /\ a \in Producers /\ Owning(a)') => Owning(a) /\ me'[a].at = me[a].at,
           (mode = "many" /\ a \in Consumers /\ Taking(a)') => Taking(a) /\ me'[a].at = me[a].at,
           (a \in Producers /\ Offering(a)') => Offering(a) /\ me'[a].item = me[a].item
    PROVE  \A b, c \in Agents : b # c => PairInv(b, c)'
  <1> SUFFICES ASSUME NEW b \in Agents, NEW c \in Agents, b # c PROVE PairInv(b, c)'
    OBVIOUS
  <1>1. PairInv(b, c) /\ PairInv(c, b)
    BY DEF IInv
  <1>2. CASE b # a /\ c # a
    BY <1>1, <1>2 DEF PairInv, Owning, Offering, Taking
  <1>3. CASE b = a
    BY <1>1, <1>3 DEF PairInv, Owning, Offering, Taking, Alone, At
  <1>4. CASE c = a
    BY <1>1, <1>4 DEF PairInv, Owning, Offering, Taking, Alone, At
  <1> QED
    BY <1>2, <1>3, <1>4

(* A step of one agent on its own variables and the guards. *)
LEMMA GuardStepKeeps ==
    ASSUME IInv, NEW a \in Agents, UNCHANGED <<mode, head, tail, seqno, cell, unsent, log>>,
           guard' \in [Index -> Int], GuardInv',
           me' \in [Agents -> Locals], answer' \in [Agents -> Answers],
           \A b \in Agents : b # a => me'[b] = me[b],
           AgentInv(a)',
           me[a].pc # "advance", me'[a].pc # "advance",
           (mode = "one" /\ me[a].pc = "idle" /\ me'[a].pc # "idle") =>
               (a \in Producers => Alone(Producers)) /\ (a \in Consumers => Alone(Consumers)),
           (mode = "many" /\ a \in Producers /\ Owning(a)') => Owning(a) /\ me'[a].at = me[a].at,
           (mode = "many" /\ a \in Consumers /\ Taking(a)') => Taking(a) /\ me'[a].at = me[a].at,
           (a \in Producers /\ Offering(a)') => Offering(a) /\ me'[a].item = me[a].item
    PROVE  IInv'
  <1>1. TypeOK'
    BY DEF IInv, TypeOK
  <1>3. Advancing' <=> Advancing
    BY DEF Advancing, At, Agents
  <1>4. Passed' = Passed
    BY DEF Passed, At, Agents, H
  <1>5. RingInv'
    BY <1>3, <1>4 DEF IInv, RingInv, PosInv, LogInv, SeqInv, CellInv, H, T, L, Sq
  <1>7. \A b \in Agents : AgentInv(b)'
    BY OthersKeep DEF IInv
  <1>8. \A b, c \in Agents : b # c => PairInv(b, c)'
    BY PairsKeep
  <1> QED
    BY <1>1, <1>5, <1>7, <1>8 DEF IInv, Fits

(* The guards are right as long as nobody begins or ends a write or a look. *)
LEMMA GuardsKeep ==
    ASSUME IInv, NEW a \in Agents, guard' = guard,
           \A b \in Agents : b # a => me'[b] = me[b],
           me[a].pc # "write", me'[a].pc # "write",
           a \in Lookers => /\ Holding(a)' <=> Holding(a)
                            /\ Holding(a) => me'[a].at = me[a].at
    PROVE  GuardInv'
  <1>1. \A i \in Index : Writing(i)' <=> Writing(i)
    BY DEF Writing, At, Agents
  <1>2. \A i \in Index : Holders(i)' = Holders(i)
    BY DEF Holders, Holding, Agents
  <1> QED
    BY <1>1, <1>2 DEF IInv, GuardInv

(* A step of one agent on its own variables only. *)
LEMMA LocalKeeps ==
    ASSUME IInv, NEW a \in Agents, UNCHANGED <<shared, unsent, log>>,
           me' \in [Agents -> Locals], answer' \in [Agents -> Answers],
           \A b \in Agents : b # a => me'[b] = me[b],
           AgentInv(a)',
           me[a].pc \notin {"advance", "write"}, me'[a].pc \notin {"advance", "write"},
           (mode = "one" /\ me[a].pc = "idle" /\ me'[a].pc # "idle") =>
               (a \in Producers => Alone(Producers)) /\ (a \in Consumers => Alone(Consumers)),
           (mode = "many" /\ a \in Producers /\ Owning(a)') => Owning(a) /\ me'[a].at = me[a].at,
           (mode = "many" /\ a \in Consumers /\ Taking(a)') => Taking(a) /\ me'[a].at = me[a].at,
           (a \in Producers /\ Offering(a)') => Offering(a) /\ me'[a].item = me[a].item,
           a \in Lookers => /\ Holding(a)' <=> Holding(a)
                            /\ Holding(a) => me'[a].at = me[a].at
    PROVE  IInv'
  <1>1. GuardInv'
    BY GuardsKeep DEF shared
  <1>2. guard' \in [Index -> Int] /\ UNCHANGED <<mode, head, tail, seqno, cell, unsent, log>>
    BY DEF shared, IInv, TypeOK
  <1> QED
    BY <1>1, <1>2, GuardStepKeeps

(* A call ends without having changed the ring. *)
LEMMA ReturnKeeps ==
    ASSUME IInv, NEW a \in Agents, NEW what \in Answers, Returns(a, what),
           UNCHANGED <<shared, unsent, log>>,
           me[a].pc \notin {"advance", "write"}, a \in Lookers => ~Holding(a)
    PROVE  IInv'
  <1>1. Idle \in Locals
    BY Constants DEF IInv, Idle, Locals, Numbers
  <1>2. /\ me' \in [Agents -> Locals] /\ (\A b \in Agents : b # a => me'[b] = me[b])
        /\ answer' \in [Agents -> Answers] /\ me'[a] = Idle
    BY <1>1 DEF Returns, IInv, TypeOK
  <1>3. me'[a].pc = "idle" /\ ~me'[a].sure
    BY <1>2 DEF Idle
  <1>4. AgentInv(a)
    BY DEF IInv
  <1>5. AgentInv(a)'
    BY <1>3, <1>4
       DEF shared, AgentInv, ProducerInv, ProducerOne, ProducerMany, ConsumerInv, ConsumerOne,
           ConsumerMany, LookerInv, CountInv, Exact, Owning, Offering, Taking, H, T, L
  <1> QED
    BY <1>2, <1>3, <1>4, <1>5, LocalKeeps DEF Owning, Offering, Taking, Holding

(* What a call returns is made of items and numbers. *)
LEMMA AnswerTypes ==
    /\ <<>> \in Answers
    /\ \A x \in Items \cup {NoItem} \cup Nat : <<x>> \in Answers
  BY DEF Answers

(* A call of ring_queue_count reads head. *)
LEMMA CountHeadKeeps == ASSUME IInv, NEW a \in Agents, CountHead(a) PROVE IInv'
  <1>1. /\ me[a].pc \in {"h1"} /\ me[a] \in Locals /\ head \in Numbers /\ tail \in Numbers
        /\ UNCHANGED <<shared, answer, unsent, log>> /\ a \in Agents
        /\ answer' \in [Agents -> Answers]
    BY DEF CountHead, At, Local, IInv, TypeOK, Agents
  <1>2. /\ me' \in [Agents -> Locals] /\ (\A b \in Agents : b # a => me'[b] = me[b])
        /\ me'[a] = [me[a] EXCEPT !.at = head, !.pc = "t"]
    BY <1>1 DEF CountHead, IInv, TypeOK, Locals
  <1>3. me'[a].pc = "t" /\ me'[a].at = head /\ me'[a].sure = me[a].sure /\ me'[a].item = me[a].item
    BY <1>1, <1>2 DEF Locals
  <1>4. AgentInv(a) /\ H \in Int /\ T \in Int
    BY <1>1, Order DEF IInv
  <1>5. AgentInv(a)'
    BY <1>1, <1>3, <1>4
       DEF shared, AgentInv, ProducerInv, ProducerOne, ProducerMany, ConsumerInv, ConsumerOne,
           ConsumerMany, LookerInv, CountInv, Exact, Owning, Offering, Taking, H, T, L
  <1> QED
    BY <1>1, <1>2, <1>3, <1>4, <1>5, LocalKeeps
       DEF IInv, TypeOK, AgentInv, ProducerInv, ProducerOne, ProducerMany, ConsumerInv,
           ConsumerOne, ConsumerMany, LookerInv, Owning, Offering, Taking, Holding

(* It reads tail; the difference is the number of items if head has not moved. *)
LEMMA CountTailKeeps == ASSUME IInv, NEW a \in Agents, CountTail(a) PROVE IInv'
  <1>1. /\ me[a].pc \in {"t"} /\ me[a] \in Locals /\ head \in Numbers /\ tail \in Numbers
        /\ UNCHANGED <<shared, answer, unsent, log>> /\ a \in Agents
        /\ answer' \in [Agents -> Answers]
    BY DEF CountTail, At, Local, IInv, TypeOK, Agents
  <1>m. Minus(tail, head) \in Numbers /\ Minus(tail, head) <= Slots
    <2>1. H <= T /\ T \in Int /\ H \in Int /\ T - H <= Slots
      BY Order
    <2>2. Minus(tail, head) = T - H /\ Minus(tail, head) \in Numbers
      BY <1>1, <2>1, MinusValue DEF IInv, T, H
    <2> QED
      BY <2>1, <2>2
  <1>2. /\ me' \in [Agents -> Locals] /\ (\A b \in Agents : b # a => me'[b] = me[b])
        /\ me'[a] = [me[a] EXCEPT !.t = tail, !.truth = Minus(tail, head),
                                     !.pc = IF me[a].tries < Retries THEN "h2" ELSE "counted"]
    BY <1>1, <1>m DEF CountTail, IInv, TypeOK, Locals
  <1>3. /\ me'[a].pc \in {"h2", "counted"} /\ me'[a].t = tail /\ me'[a].truth = Minus(tail, head)
        /\ me'[a].sure = me[a].sure /\ me'[a].item = me[a].item /\ me'[a].at = me[a].at
    BY <1>1, <1>2, <1>m DEF Locals
  <1>4. AgentInv(a) /\ H \in Int /\ T \in Int
    BY <1>1, Order DEF IInv
  <1>h. H <= T
    BY Order
  <1>5. AgentInv(a)'
    BY <1>1, <1>3, <1>4, <1>m, <1>h
       DEF shared, AgentInv, ProducerInv, ProducerOne, ProducerMany, ConsumerInv, ConsumerOne,
           ConsumerMany, LookerInv, CountInv, Exact, Owning, Offering, Taking, H, T, L
  <1> QED
    BY <1>1, <1>2, <1>3, <1>4, <1>5, LocalKeeps
       DEF IInv, TypeOK, AgentInv, ProducerInv, ProducerOne, ProducerMany, ConsumerInv,
           ConsumerOne, ConsumerMany, LookerInv, Owning, Offering, Taking, Holding

(* It finds head where it was. *)
LEMMA CountConfirmedKeeps == ASSUME IInv, NEW a \in Agents, CountAgain(a), head = me[a].at PROVE IInv'
  <1>1. /\ me[a].pc \in {"h2"} /\ me[a] \in Locals /\ head \in Numbers /\ tail \in Numbers
        /\ UNCHANGED <<shared, answer, unsent, log>> /\ a \in Agents
        /\ answer' \in [Agents -> Answers]
    BY DEF CountAgain, At, Local, IInv, TypeOK, Agents
  <1>2. /\ me' \in [Agents -> Locals] /\ (\A b \in Agents : b # a => me'[b] = me[b])
        /\ me'[a] = [me[a] EXCEPT !.sure = TRUE, !.pc = "counted"]
    BY <1>1 DEF CountAgain, IInv, TypeOK, Locals
  <1>3. /\ me'[a].pc = "counted" /\ me'[a].sure /\ me'[a].t = me[a].t /\ me'[a].truth = me[a].truth
        /\ me'[a].item = me[a].item /\ me'[a].at = me[a].at
    BY <1>1, <1>2 DEF Locals
  <1>4. AgentInv(a) /\ H \in Int /\ T \in Int
    BY <1>1, Order DEF IInv
  <1>5. AgentInv(a)'
    BY <1>1, <1>3, <1>4
       DEF shared, AgentInv, ProducerInv, ProducerOne, ProducerMany, ConsumerInv, ConsumerOne,
           ConsumerMany, LookerInv, CountInv, Exact, Owning, Offering, Taking, H, T, L
  <1> QED
    BY <1>1, <1>2, <1>3, <1>4, <1>5, LocalKeeps
       DEF IInv, TypeOK, AgentInv, ProducerInv, ProducerOne, ProducerMany, ConsumerInv,
           ConsumerOne, ConsumerMany, LookerInv, Owning, Offering, Taking, Holding

(* It finds head elsewhere, and starts again. *)
LEMMA CountMovedKeeps == ASSUME IInv, NEW a \in Agents, CountAgain(a), head # me[a].at PROVE IInv'
  <1>1. /\ me[a].pc \in {"h2"} /\ me[a] \in Locals /\ head \in Numbers /\ tail \in Numbers
        /\ UNCHANGED <<shared, answer, unsent, log>> /\ a \in Agents
        /\ answer' \in [Agents -> Answers]
    BY DEF CountAgain, At, Local, IInv, TypeOK, Agents
  <1>2. /\ me' \in [Agents -> Locals] /\ (\A b \in Agents : b # a => me'[b] = me[b])
        /\ me'[a] = [me[a] EXCEPT !.tries = @ + 1, !.pc = "h1"]
    BY <1>1 DEF CountAgain, IInv, TypeOK, Locals
  <1>3. me'[a].pc = "h1" /\ me'[a].sure = me[a].sure /\ me'[a].item = me[a].item
    BY <1>1, <1>2 DEF Locals
  <1>4. AgentInv(a) /\ H \in Int /\ T \in Int
    BY <1>1, Order DEF IInv
  <1>5. AgentInv(a)'
    BY <1>1, <1>3, <1>4
       DEF shared, AgentInv, ProducerInv, ProducerOne, ProducerMany, ConsumerInv, ConsumerOne,
           ConsumerMany, LookerInv, CountInv, Exact, Owning, Offering, Taking, H, T, L
  <1> QED
    BY <1>1, <1>2, <1>3, <1>4, <1>5, LocalKeeps
       DEF IInv, TypeOK, AgentInv, ProducerInv, ProducerOne, ProducerMany, ConsumerInv,
           ConsumerOne, ConsumerMany, LookerInv, Owning, Offering, Taking, Holding

(* A producer of many reads tail. *)
LEMMA OfferTailKeeps == ASSUME IInv, NEW p \in Producers, OfferTail(p) PROVE IInv'
  <1>1. /\ me[p].pc \in {"tail"} /\ me[p] \in Locals /\ head \in Numbers /\ tail \in Numbers
        /\ UNCHANGED <<shared, answer, unsent, log>> /\ p \in Agents
        /\ answer' \in [Agents -> Answers]
    BY DEF OfferTail, At, Local, IInv, TypeOK, Agents
  <1>2. /\ me' \in [Agents -> Locals] /\ (\A b \in Agents : b # p => me'[b] = me[b])
        /\ me'[p] = [me[p] EXCEPT !.at = tail, !.pc = "seq"]
    BY <1>1 DEF OfferTail, IInv, TypeOK, Locals
  <1>3. me'[p].pc = "seq" /\ me'[p].at = tail /\ me'[p].sure = me[p].sure /\ me'[p].item = me[p].item
    BY <1>1, <1>2 DEF Locals
  <1>4. AgentInv(p) /\ H \in Int /\ T \in Int /\ p \notin Consumers /\ p \notin Lookers
    BY <1>1, Order DEF IInv, Fits
  <1>5. AgentInv(p)'
    BY <1>1, <1>3, <1>4
       DEF shared, AgentInv, ProducerInv, ProducerOne, ProducerMany, ConsumerInv, ConsumerOne,
           ConsumerMany, LookerInv, CountInv, Exact, Owning, Offering, Taking, H, T, L
  <1> QED
    BY <1>1, <1>2, <1>3, <1>4, <1>5, LocalKeeps
       DEF IInv, TypeOK, AgentInv, ProducerInv, ProducerOne, ProducerMany, ConsumerInv,
           ConsumerOne, ConsumerMany, LookerInv, Owning, Offering, Taking, Holding

(* A producer finds that another took the position. *)
LEMMA OfferMissedKeeps == ASSUME IInv, NEW p \in Producers, OfferCas(p), tail # me[p].at PROVE IInv'
  <1>1. /\ me[p].pc \in {"cas"} /\ me[p] \in Locals /\ head \in Numbers /\ tail \in Numbers
        /\ UNCHANGED <<shared, answer, unsent, log>> /\ p \in Agents
        /\ answer' \in [Agents -> Answers]
    BY DEF OfferCas, At, shared, IInv, TypeOK, Agents
  <1>0. me' = [me EXCEPT ![p].pc = "tail"]
    BY DEF OfferCas
  <1>2. /\ me' \in [Agents -> Locals] /\ (\A b \in Agents : b # p => me'[b] = me[b])
        /\ me'[p] = [me[p] EXCEPT !.pc = "tail"]
    BY <1>0, <1>1 DEF IInv, TypeOK, Locals
  <1>3. me'[p].pc = "tail" /\ me'[p].item = me[p].item
    BY <1>1, <1>2 DEF Locals
  <1>4. AgentInv(p) /\ H \in Int /\ T \in Int /\ p \notin Consumers /\ p \notin Lookers
    BY <1>1, Order DEF IInv, Fits
  <1>5. AgentInv(p)'
    BY <1>1, <1>3, <1>4
       DEF shared, AgentInv, ProducerInv, ProducerOne, ProducerMany, ConsumerInv, ConsumerOne,
           ConsumerMany, LookerInv, CountInv, Exact, Owning, Offering, Taking, H, T, L
  <1> QED
    BY <1>1, <1>2, <1>3, <1>4, <1>5, LocalKeeps
       DEF IInv, TypeOK, AgentInv, ProducerInv, ProducerOne, ProducerMany, ConsumerInv,
           ConsumerOne, ConsumerMany, LookerInv, Owning, Offering, Taking, Holding

(* A consumer of many reads head. *)
LEMMA TakeHeadKeeps == ASSUME IInv, NEW c \in Consumers, TakeHead(c) PROVE IInv'
  <1>1. /\ me[c].pc \in {"head"} /\ me[c] \in Locals /\ head \in Numbers /\ tail \in Numbers
        /\ UNCHANGED <<shared, answer, unsent, log>> /\ c \in Agents
        /\ answer' \in [Agents -> Answers]
    BY DEF TakeHead, At, Local, IInv, TypeOK, Agents
  <1>2. /\ me' \in [Agents -> Locals] /\ (\A b \in Agents : b # c => me'[b] = me[b])
        /\ me'[c] = [me[c] EXCEPT !.at = head, !.pc = "seq"]
    BY <1>1 DEF TakeHead, IInv, TypeOK, Locals
  <1>3. me'[c].pc = "seq" /\ me'[c].at = head /\ me'[c].sure = me[c].sure
    BY <1>1, <1>2 DEF Locals
  <1>4. AgentInv(c) /\ H \in Int /\ T \in Int /\ c \notin Producers /\ c \notin Lookers
    BY <1>1, Order DEF IInv, Fits
  <1>5. AgentInv(c)'
    BY <1>1, <1>3, <1>4
       DEF shared, AgentInv, ProducerInv, ProducerOne, ProducerMany, ConsumerInv, ConsumerOne,
           ConsumerMany, LookerInv, CountInv, Exact, Owning, Offering, Taking, H, T, L
  <1> QED
    BY <1>1, <1>2, <1>3, <1>4, <1>5, LocalKeeps
       DEF IInv, TypeOK, AgentInv, ProducerInv, ProducerOne, ProducerMany, ConsumerInv,
           ConsumerOne, ConsumerMany, LookerInv, Owning, Offering, Taking, Holding

(* A consumer finds that another took the item. *)
LEMMA TakeMissedKeeps == ASSUME IInv, NEW c \in Consumers, TakeCas(c), head # me[c].at PROVE IInv'
  <1>1. /\ me[c].pc \in {"cas"} /\ me[c] \in Locals /\ head \in Numbers /\ tail \in Numbers
        /\ UNCHANGED <<shared, answer, unsent, log>> /\ c \in Agents
        /\ answer' \in [Agents -> Answers]
    BY DEF TakeCas, At, shared, IInv, TypeOK, Agents
  <1>2. /\ me' \in [Agents -> Locals] /\ (\A b \in Agents : b # c => me'[b] = me[b])
        /\ me'[c] = [me[c] EXCEPT !.pc = "head"]
    BY <1>1 DEF TakeCas, IInv, TypeOK, Locals
  <1>3. me'[c].pc = "head"
    BY <1>1, <1>2 DEF Locals
  <1>4. AgentInv(c) /\ H \in Int /\ T \in Int /\ c \notin Producers /\ c \notin Lookers
    BY <1>1, Order DEF IInv, Fits
  <1>5. AgentInv(c)'
    BY <1>1, <1>3, <1>4
       DEF shared, AgentInv, ProducerInv, ProducerOne, ProducerMany, ConsumerInv, ConsumerOne,
           ConsumerMany, LookerInv, CountInv, Exact, Owning, Offering, Taking, H, T, L
  <1> QED
    BY <1>1, <1>2, <1>3, <1>4, <1>5, LocalKeeps
       DEF IInv, TypeOK, AgentInv, ProducerInv, ProducerOne, ProducerMany, ConsumerInv,
           ConsumerOne, ConsumerMany, LookerInv, Owning, Offering, Taking, Holding

(* A looker begins to count. *)
LEMMA LookCountKeeps == ASSUME IInv, NEW k \in Lookers, LookCount(k) PROVE IInv'
  <1>1. /\ me[k].pc \in {"idle"} /\ me[k] \in Locals /\ head \in Numbers /\ tail \in Numbers
        /\ UNCHANGED <<shared, answer, unsent, log>> /\ k \in Agents
        /\ answer' \in [Agents -> Answers]
    BY DEF LookCount, At, Local, IInv, TypeOK, Agents
  <1>2. /\ me' \in [Agents -> Locals] /\ (\A b \in Agents : b # k => me'[b] = me[b])
        /\ me'[k] = [me[k] EXCEPT !.pc = "h1"]
    BY <1>1 DEF LookCount, IInv, TypeOK, Locals
  <1>3. me'[k].pc = "h1" /\ me'[k].sure = me[k].sure
    BY <1>1, <1>2 DEF Locals
  <1>4. AgentInv(k) /\ H \in Int /\ T \in Int /\ k \notin Producers /\ k \notin Consumers
    BY <1>1, Order DEF IInv, Fits
  <1>5. AgentInv(k)'
    BY <1>1, <1>3, <1>4
       DEF shared, AgentInv, ProducerInv, ProducerOne, ProducerMany, ConsumerInv, ConsumerOne,
           ConsumerMany, LookerInv, CountInv, Exact, Owning, Offering, Taking, H, T, L
  <1>6. Holding(k) <=> Holding(k)'
    BY <1>1, <1>3 DEF Holding
  <1>7. me[k].pc \notin {"advance", "write"} /\ me'[k].pc \notin {"advance", "write"}
    BY <1>1, <1>3
  <1>8. Holding(k) => me'[k].at = me[k].at
    BY <1>1, <1>3 DEF Holding
  <1> QED
    BY <1>1, <1>2, <1>4, <1>5, <1>6, <1>7, <1>8, LocalKeeps

(* A looker begins, or tries again: it reads head. *)
LEMMA LookKeeps == ASSUME IInv, NEW k \in Lookers, Look(k) PROVE IInv'
  <1>1. /\ me[k].pc \in {"idle", "again"} /\ me[k] \in Locals /\ head \in Numbers /\ tail \in Numbers
        /\ UNCHANGED <<shared, answer, unsent, log>> /\ k \in Agents
        /\ answer' \in [Agents -> Answers]
    BY DEF Look, At, Local, IInv, TypeOK, Agents
  <1>2. /\ me' \in [Agents -> Locals] /\ (\A b \in Agents : b # k => me'[b] = me[b])
        /\ me'[k] = [me[k] EXCEPT !.at = head, !.pc = "seq"]
    BY <1>1 DEF Look, IInv, TypeOK, Locals
  <1>3. me'[k].pc = "seq" /\ me'[k].at = head /\ me'[k].sure = me[k].sure
    BY <1>1, <1>2 DEF Locals
  <1>4. AgentInv(k) /\ H \in Int /\ T \in Int /\ k \notin Producers /\ k \notin Consumers
    BY <1>1, Order DEF IInv, Fits
  <1>5. AgentInv(k)'
    BY <1>1, <1>3, <1>4
       DEF shared, AgentInv, ProducerInv, ProducerOne, ProducerMany, ConsumerInv, ConsumerOne,
           ConsumerMany, LookerInv, CountInv, Exact, Owning, Offering, Taking, H, T, L
  <1>6. Holding(k) <=> Holding(k)'
    BY <1>1, <1>3 DEF Holding
  <1>7. me[k].pc \notin {"advance", "write"} /\ me'[k].pc \notin {"advance", "write"}
    BY <1>1, <1>3
  <1>8. Holding(k) => me'[k].at = me[k].at
    BY <1>1, <1>3 DEF Holding
  <1> QED
    BY <1>1, <1>2, <1>4, <1>5, <1>6, <1>7, <1>8, LocalKeeps

(* It looks at head again, now that no producer can write the cell. *)
LEMMA LookRecheckKeeps == ASSUME IInv, NEW k \in Lookers, LookRecheck(k) PROVE IInv'
  <1>1. /\ me[k].pc \in {"recheck"} /\ me[k] \in Locals /\ head \in Numbers /\ tail \in Numbers
        /\ UNCHANGED <<shared, answer, unsent, log>> /\ k \in Agents
        /\ answer' \in [Agents -> Answers]
    BY DEF LookRecheck, At, Local, IInv, TypeOK, Agents
  <1>2. /\ me' \in [Agents -> Locals] /\ (\A b \in Agents : b # k => me'[b] = me[b])
        /\ me'[k] = [me[k] EXCEPT !.pc = IF head = me[k].at THEN "reseq" ELSE "unlock"]
    BY <1>1 DEF LookRecheck, IInv, TypeOK, Locals
  <1>3. me'[k].pc \in {"reseq", "unlock"} /\ me'[k].at = me[k].at /\ me'[k].sure = me[k].sure
    BY <1>1, <1>2 DEF Locals
  <1>4. AgentInv(k) /\ H \in Int /\ T \in Int /\ k \notin Producers /\ k \notin Consumers
    BY <1>1, Order DEF IInv, Fits
  <1>5. AgentInv(k)'
    BY <1>1, <1>3, <1>4
       DEF shared, AgentInv, ProducerInv, ProducerOne, ProducerMany, ConsumerInv, ConsumerOne,
           ConsumerMany, LookerInv, CountInv, Exact, Owning, Offering, Taking, H, T, L
  <1>6. Holding(k) <=> Holding(k)'
    BY <1>1, <1>3 DEF Holding
  <1>7. me[k].pc \notin {"advance", "write"} /\ me'[k].pc \notin {"advance", "write"}
    BY <1>1, <1>3
  <1>8. Holding(k) => me'[k].at = me[k].at
    BY <1>1, <1>3 DEF Holding
  <1> QED
    BY <1>1, <1>2, <1>4, <1>5, <1>6, <1>7, <1>8, LocalKeeps

(* In mode "one" the producer that is in a call is the only one. *)
LEMMA OneProducer ==
    ASSUME IInv, mode = "one", NEW p \in Producers, me[p].pc # "idle"
    PROVE  /\ \A q \in Producers : q # p => me[q].pc = "idle"
           /\ Advancing <=> me[p].pc = "advance"
           /\ me[p].pc # "advance" => T = L
  <1>1. \A q \in Producers : q # p => me[q].pc = "idle"
    BY DEF IInv, PairInv, Agents
  <1>2. Advancing <=> me[p].pc = "advance"
    BY <1>1 DEF Advancing, At
  <1> QED
    BY <1>1, <1>2 DEF IInv, RingInv, PosInv

(* And so is the consumer. *)
LEMMA OneConsumer ==
    ASSUME IInv, mode = "one", NEW c \in Consumers, me[c].pc # "idle"
    PROVE  /\ \A d \in Consumers : d # c => me[d].pc = "idle"
           /\ Passed = IF me[c].pc = "advance" THEN H + 1 ELSE H
  <1>1. \A d \in Consumers : d # c => me[d].pc = "idle"
    BY DEF IInv, PairInv, Agents
  <1> QED
    BY <1>1 DEF Passed, At

(* What ring_queue_count returns is a number. *)
LEMMA CountValue ==
    ASSUME IInv, NEW a \in Agents
    PROVE  /\ Minus(me[a].t, me[a].at) \in Nat /\ Count(a) \in Nat
           /\ Count(a) = IF Minus(me[a].t, me[a].at) > Slots THEN Slots ELSE Minus(me[a].t, me[a].at)
  <1>1. me[a].t \in Numbers /\ me[a].at \in Numbers /\ Fits
    BY DEF IInv, TypeOK, Locals
  <1>2. Minus(me[a].t, me[a].at) \in Numbers /\ Slots \in Nat
    BY <1>1, MinusValue, Constants
  <1> QED
    BY <1>2, Constants DEF Count, Numbers

(* A producer that found the ring full returns; one that did not has room,  *)
(* for only it moves tail and head can but grow.                             *)
LEMMA OfferCountedKeeps == ASSUME IInv, NEW p \in Producers, OfferCounted(p) PROVE IInv'
  <1>1. /\ me[p].pc = "counted" /\ me[p] \in Locals /\ tail \in Numbers /\ head \in Numbers
        /\ UNCHANGED <<shared, unsent, log>> /\ p \in Agents /\ p \notin Consumers /\ p \notin Lookers
    BY DEF OfferCounted, At, IInv, TypeOK, Agents, Fits
  <1>2. CASE Count(p) >= Slots
    BY <1>1, <1>2, ReturnKeeps, AnswerTypes DEF OfferCounted
  <1>3. CASE ~(Count(p) >= Slots)
    <2>1. me' = [me EXCEPT ![p].at = tail, ![p].pc = "lock"] /\ UNCHANGED answer
      BY <1>3 DEF OfferCounted
    <2>2. /\ me' \in [Agents -> Locals] /\ (\A b \in Agents : b # p => me'[b] = me[b])
          /\ me'[p] = [me[p] EXCEPT !.at = tail, !.pc = "lock"]
          /\ answer' \in [Agents -> Answers]
      BY <1>1, <2>1 DEF IInv, TypeOK, Locals
    <2>3. me'[p].pc = "lock" /\ me'[p].at = tail /\ me'[p].sure = me[p].sure /\ me'[p].item = me[p].item
      BY <1>1, <2>2 DEF Locals
    <2>4. AgentInv(p) /\ H \in Int /\ T \in Int /\ L \in Int /\ mode = "one"
      BY <1>1, Order DEF IInv, AgentInv, ProducerInv, ProducerMany, TypeOK
    <2>5. L - H < Slots
      <3>1. T = L
        BY <1>1, <2>4, OneProducer
      <3>2. me[p].t = tail /\ me[p].at \in Numbers /\ Off(me[p].at) <= H
        BY <1>1, <2>4 DEF AgentInv, ProducerInv, ProducerOne, CountInv, Locals
      <3>3. H <= T /\ Slots \in Int /\ Off(me[p].at) \in Int
        BY <3>2, Order, OffValue DEF IInv, Numbers
      <3>4. Minus(me[p].t, me[p].at) = T - Off(me[p].at)
        BY <1>1, <2>4, <3>2, <3>3, MinusValue DEF IInv, T
      <3>5. T - Off(me[p].at) < Slots
        BY <1>1, <1>3, <3>3, <3>4, <2>4, CountValue
      <3> QED
        BY <2>4, <3>1, <3>2, <3>3, <3>5
    <2>6. AgentInv(p)'
      BY <1>1, <2>3, <2>4, <2>5
         DEF shared, AgentInv, ProducerInv, ProducerOne, CountInv, Owning, Offering, H, T, L
    <2>7. Offering(p) /\ (\A b \in Agents : b # p => me'[b] = me[b])
      BY <1>1, <2>2, <2>4 DEF Offering
    <2> QED
      BY <1>1, <2>2, <2>3, <2>4, <2>6, <2>7, LocalKeeps
  <1> QED
    BY <1>2, <1>3

(* A producer of many that finds the cell free will try for the position. *)
LEMMA OfferSeqKeeps == ASSUME IInv, NEW p \in Producers, OfferSeq(p) PROVE IInv'
  <1>1. /\ me[p].pc = "seq" /\ me[p] \in Locals /\ tail \in Numbers /\ head \in Numbers
        /\ UNCHANGED <<shared, unsent, log>> /\ p \in Agents /\ p \notin Consumers /\ p \notin Lookers
    BY DEF OfferSeq, At, IInv, TypeOK, Agents, Fits
  <1> DEFINE diff == Minus(seqno[Pos(me[p].at)], me[p].at)
  <1>2. CASE diff # 0 /\ Negative(diff)
    BY <1>1, <1>2, ReturnKeeps, AnswerTypes DEF OfferSeq
  <1>3. CASE ~(diff # 0 /\ Negative(diff))
    <2>1. me' = [me EXCEPT ![p].pc = IF diff = 0 THEN "cas" ELSE "tail"] /\ UNCHANGED answer
      BY <1>3 DEF OfferSeq
    <2>d. diff = 0 => seqno[Pos(me[p].at)] = me[p].at
      <3>1. me[p].at \in Numbers /\ Fits /\ TypeOK
        BY <1>1 DEF Locals, IInv
      <3>2. seqno[Pos(me[p].at)] \in Numbers
        BY <3>1, SeqRead
      <3> QED
        BY <3>1, <3>2, MinusValue
    <2>a. diff = 0 \/ diff # 0
      OBVIOUS
    <2> HIDE DEF diff
    <2>2. /\ me' \in [Agents -> Locals] /\ (\A b \in Agents : b # p => me'[b] = me[b])
          /\ me'[p] = [me[p] EXCEPT !.pc = IF diff = 0 THEN "cas" ELSE "tail"]
          /\ answer' \in [Agents -> Answers]
      BY <1>1, <2>1 DEF IInv, TypeOK, Locals
    <2>3. /\ me'[p].at = me[p].at /\ me'[p].sure = me[p].sure /\ me'[p].item = me[p].item
          /\ me'[p].pc = IF diff = 0 THEN "cas" ELSE "tail"
      BY <1>1, <2>2 DEF Locals
    <2>4. AgentInv(p) /\ mode = "many" /\ T \in Int /\ H \in Int
      BY <1>1, Order DEF IInv, AgentInv, ProducerInv, ProducerOne, TypeOK
    <2>5. AgentInv(p)'
      BY <1>1, <2>3, <2>4, <2>d
         DEF shared, AgentInv, ProducerInv, ProducerMany, CountInv, Owning, Offering, H, T, L
    <2>6. me'[p].pc \in {"cas", "tail"} /\ Offering(p)
      BY <1>1, <2>3, <2>4 DEF Offering
    <2> QED
      BY <1>1, <2>2, <2>3, <2>4, <2>5, <2>6, LocalKeeps DEF Owning
  <1> QED
    BY <1>2, <1>3

(* A consumer begins. *)
LEMMA TakeKeeps == ASSUME IInv, NEW c \in Consumers, Take(c) PROVE IInv'
  <1>1. /\ me[c].pc = "idle" /\ me[c] \in Locals /\ Alone(Consumers)
        /\ UNCHANGED <<shared, unsent, log>> /\ c \in Agents /\ c \notin Producers /\ c \notin Lookers
    BY DEF Take, At, IInv, TypeOK, Agents, Fits
  <1>2. CASE mode = "broken"
    BY <1>1, <1>2, ReturnKeeps, AnswerTypes DEF Take
  <1>3. CASE mode # "broken"
    <2>1. me' = [me EXCEPT ![c].pc = IF mode = "one" THEN "h1" ELSE "head"] /\ UNCHANGED answer
      BY <1>3 DEF Take
    <2>2. /\ me' \in [Agents -> Locals] /\ (\A b \in Agents : b # c => me'[b] = me[b])
          /\ me'[c] = [me[c] EXCEPT !.pc = IF mode = "one" THEN "h1" ELSE "head"]
          /\ answer' \in [Agents -> Answers]
      BY <1>1, <2>1 DEF IInv, TypeOK, Locals
    <2>3. me'[c].sure = me[c].sure /\ me'[c].pc = IF mode = "one" THEN "h1" ELSE "head"
      BY <1>1, <2>2 DEF Locals
    <2>4. AgentInv(c) /\ mode \in {"one", "many"}
      BY <1>1, <1>3 DEF IInv, TypeOK
    <2>5. AgentInv(c)'
      BY <1>1, <2>3, <2>4
         DEF shared, AgentInv, ConsumerInv, ConsumerOne, ConsumerMany, CountInv, Taking
    <2>6. me'[c].pc \in {"h1", "head"}
      BY <2>3
    <2> QED
      BY <1>1, <2>2, <2>3, <2>4, <2>5, <2>6, LocalKeeps DEF Taking
  <1> QED
    BY <1>2, <1>3

(* A consumer that counted something takes the head: only it moves head. *)
LEMMA TakeCountedKeeps == ASSUME IInv, NEW c \in Consumers, TakeCounted(c) PROVE IInv'
  <1>1. /\ me[c].pc = "counted" /\ me[c] \in Locals /\ head \in Numbers
        /\ UNCHANGED <<shared, unsent, log>> /\ c \in Agents /\ c \notin Producers /\ c \notin Lookers
    BY DEF TakeCounted, At, IInv, TypeOK, Agents, Fits
  <1>2. CASE Count(c) = 0
    BY <1>1, <1>2, ReturnKeeps, AnswerTypes DEF TakeCounted
  <1>3. CASE Count(c) # 0
    <2>1. me' = [me EXCEPT ![c].at = head, ![c].pc = "read"] /\ UNCHANGED answer
      BY <1>3 DEF TakeCounted
    <2>2. /\ me' \in [Agents -> Locals] /\ (\A b \in Agents : b # c => me'[b] = me[b])
          /\ me'[c] = [me[c] EXCEPT !.at = head, !.pc = "read"]
          /\ answer' \in [Agents -> Answers]
      BY <1>1, <2>1 DEF IInv, TypeOK, Locals
    <2>3. me'[c].pc = "read" /\ me'[c].at = head
      BY <1>1, <2>2 DEF Locals
    <2>4. AgentInv(c) /\ H \in Int /\ T \in Int /\ mode = "one"
      BY <1>1, Order DEF IInv, AgentInv, ConsumerInv, ConsumerMany, TypeOK
    <2>5. H < T
      <3>1. me[c].at = head /\ H <= Off(me[c].t) /\ Off(me[c].t) <= T /\ me[c].t \in Numbers
        BY <1>1, <2>4 DEF AgentInv, ConsumerInv, ConsumerOne, Locals
      <3>2. Minus(me[c].t, head) # 0
        BY <1>1, <1>3, <3>1, CountValue, Constants DEF IInv
      <3>3. me[c].t # head
        BY <1>1, <3>1, <3>2, MinusValue DEF IInv
      <3>4. Off(me[c].t) # H /\ Off(me[c].t) \in Int
        BY <1>1, <3>1, <3>3, OffInjective, OffValue DEF IInv, H, Numbers
      <3> QED
        BY <2>4, <3>1, <3>4
    <2>6. AgentInv(c)'
      BY <1>1, <2>3, <2>4, <2>5
         DEF shared, AgentInv, ConsumerInv, ConsumerOne, CountInv, Taking, H, T, L
    <2> QED
      BY <1>1, <2>2, <2>3, <2>4, <2>6, LocalKeeps
  <1> QED
    BY <1>2, <1>3

(* A consumer of many that finds the item published will try for it: if head *)
(* stays, the item is one that entered, for the next to enter would look      *)
(* free or given back.                                                        *)
LEMMA TakeSeqKeeps == ASSUME IInv, NEW c \in Consumers, TakeSeq(c) PROVE IInv'
  <1>1. /\ me[c].pc = "seq" /\ me[c] \in Locals /\ tail \in Numbers /\ head \in Numbers
        /\ UNCHANGED <<shared, unsent, log>> /\ c \in Agents /\ c \notin Producers /\ c \notin Lookers
    BY DEF TakeSeq, At, IInv, TypeOK, Agents, Fits
  <1> DEFINE diff == Minus(seqno[Pos(me[c].at)], Plus(me[c].at, 1))
  <1>2. CASE diff # 0 /\ Negative(diff)
    BY <1>1, <1>2, ReturnKeeps, AnswerTypes DEF TakeSeq
  <1>3. CASE ~(diff # 0 /\ Negative(diff))
    <2>1. me' = [me EXCEPT ![c].pc = IF diff = 0 THEN "cas" ELSE "head"] /\ UNCHANGED answer
      BY <1>3 DEF TakeSeq
    <2>4. AgentInv(c) /\ mode = "many" /\ T \in Int /\ H \in Int /\ T = L
      BY <1>1, Order DEF IInv, AgentInv, ConsumerInv, ConsumerOne, TypeOK
    <2>d. ASSUME diff = 0, me[c].at = head
          PROVE  seqno[Pos(head)] = Plus(head, 1) /\ H < T
      <3>1. Fits /\ TypeOK /\ head \in Numbers
        BY <1>1 DEF IInv
      <3>2. seqno[Pos(head)] \in Numbers
        BY <3>1, SeqRead
      <3>3. H + 1 < Modulus /\ H <= L
        BY Order
      <3>4. Plus(head, 1) \in Numbers
        BY <3>1, <3>3, OffPlus DEF H
      <3>5. seqno[Pos(head)] = Plus(head, 1)
        BY <2>d, <3>1, <3>2, <3>4, MinusValue
      <3>6. H < L
        BY <3>1, <3>3, <3>5, PublishedIsRecent DEF H
      <3> QED
        BY <2>4, <3>5, <3>6
    <2>a. diff = 0 \/ diff # 0
      OBVIOUS
    <2> HIDE DEF diff
    <2>2. /\ me' \in [Agents -> Locals] /\ (\A b \in Agents : b # c => me'[b] = me[b])
          /\ me'[c] = [me[c] EXCEPT !.pc = IF diff = 0 THEN "cas" ELSE "head"]
          /\ answer' \in [Agents -> Answers]
      BY <1>1, <2>1 DEF IInv, TypeOK, Locals
    <2>3. /\ me'[c].at = me[c].at
          /\ me'[c].pc = IF diff = 0 THEN "cas" ELSE "head"
      BY <1>1, <2>2 DEF Locals
    <2>5. AgentInv(c)'
      BY <1>1, <2>3, <2>4, <2>d
         DEF shared, AgentInv, ConsumerInv, ConsumerMany, CountInv, Taking, H, T, L
    <2>6. me'[c].pc \in {"cas", "head"}
      BY <2>3
    <2> QED
      BY <1>1, <2>2, <2>3, <2>4, <2>5, <2>6, LocalKeeps DEF Taking
  <1> QED
    BY <1>2, <1>3

(* A consumer owns the head it reads, and the item is in its cell. *)
LEMMA ReadsItem ==
    ASSUME IInv, NEW c \in Consumers, me[c].pc \in {"read", "recycle"}
    PROVE  /\ me[c].at \in Numbers /\ L - Slots <= Off(me[c].at) /\ Off(me[c].at) < L
           /\ Off(me[c].at) \in Int /\ 0 <= Off(me[c].at)
           /\ Sq(Off(me[c].at)) = Off(me[c].at) + 1
           /\ Pos(me[c].at) = Cell(Off(me[c].at))
           /\ cell[Pos(me[c].at)] = log[Off(me[c].at) + 1]
           /\ mode \in {"one", "many"}
  <1>1. me[c] \in Locals /\ AgentInv(c) /\ c \in Agents
    BY DEF IInv, TypeOK, Agents
  <1>2. me[c].at \in Numbers /\ mode \in {"one", "many"}
    BY <1>1 DEF Locals, IInv, TypeOK, AgentInv, ConsumerInv
  <1>3. seqno[Pos(me[c].at)] = Plus(me[c].at, 1) /\ Off(me[c].at) <= L
    <2>1. /\ H \in Int /\ T \in Int /\ L \in Int /\ 0 <= H /\ H <= T /\ T <= L /\ L - H <= Slots
          /\ Slots \in Int /\ Slots >= 2 /\ L + Slots <= Modulus /\ Modulus \in Int
      BY Order
    <2>2. CASE mode = "one"
      <3>1. me[c].at = head /\ H < T
        BY <1>1, <2>2 DEF AgentInv, ConsumerInv, ConsumerOne
      <3>2. Passed = H
        BY <2>2, OneConsumer
      <3>3. Sq(H) = H + 1
        <4>1. H \in L - Slots .. L - 1
          BY <2>1, <3>1
        <4> QED
          BY <2>1, <2>2, <3>2, <4>1 DEF IInv, RingInv, SeqInv
      <3> QED
        BY <1>2, <2>1, <3>1, <3>3, SeqRead DEF H, IInv
    <2>3. CASE mode = "many"
      BY <1>1, <1>2, <2>1, <2>3, OffValue
         DEF AgentInv, ConsumerInv, ConsumerMany, Taking, Numbers, IInv
    <2> QED
      BY <1>2, <2>2, <2>3
  <1> QED
    BY <1>2, <1>3, PublishedIsRecent

(* It copies the item. *)
LEMMA TakeReadKeeps == ASSUME IInv, NEW c \in Consumers, TakeRead(c) PROVE IInv'
  <1>1. /\ me[c].pc = "read" /\ me[c] \in Locals
        /\ UNCHANGED <<shared, answer, unsent, log>> /\ c \in Agents
        /\ c \notin Producers /\ c \notin Lookers
        /\ answer' \in [Agents -> Answers]
    BY DEF TakeRead, At, Local, IInv, TypeOK, Agents, Fits
  <1>2. /\ cell[Pos(me[c].at)] = log[Off(me[c].at) + 1] /\ Pos(me[c].at) \in Index
        /\ mode \in {"one", "many"}
    BY <1>1, ReadsItem, PosCell DEF IInv
  <1>3. cell[Pos(me[c].at)] \in Items \cup {NoItem}
    BY <1>2 DEF IInv, TypeOK
  <1>4. /\ me' \in [Agents -> Locals] /\ (\A b \in Agents : b # c => me'[b] = me[b])
        /\ me'[c] = [me[c] EXCEPT !.item = cell[Pos(me[c].at)], !.pc = "recycle"]
    BY <1>1, <1>3 DEF TakeRead, IInv, TypeOK, Locals
  <1>5. /\ me'[c].pc = "recycle" /\ me'[c].at = me[c].at /\ me'[c].sure = me[c].sure
        /\ me'[c].item = cell[Pos(me[c].at)]
    BY <1>1, <1>4 DEF Locals
  <1>6. AgentInv(c)
    BY <1>1 DEF IInv
  <1>7. AgentInv(c)'
    BY <1>1, <1>2, <1>5, <1>6
       DEF shared, AgentInv, ConsumerInv, ConsumerOne, ConsumerMany, CountInv, Taking, H, T, L
  <1> QED
    BY <1>1, <1>4, <1>5, <1>6, <1>7, LocalKeeps DEF Taking

(* It hands the item over. *)
LEMMA TakeGiveKeeps == ASSUME IInv, NEW c \in Consumers, TakeGive(c) PROVE IInv'
  <1>1. /\ me[c].pc = "give" /\ me[c] \in Locals /\ c \in Agents /\ c \notin Lookers
        /\ UNCHANGED <<shared, unsent, log>> /\ Returns(c, <<me[c].item>>)
    BY DEF TakeGive, At, IInv, TypeOK, Agents, Fits
  <1>2. <<me[c].item>> \in Answers
    BY <1>1, AnswerTypes DEF Locals
  <1> QED
    BY <1>1, <1>2, ReturnKeeps

(* A looker returns what it counted. *)
LEMMA LookCountedKeeps == ASSUME IInv, NEW k \in Lookers, LookCounted(k) PROVE IInv'
  <1>1. /\ me[k].pc = "counted" /\ k \in Agents /\ ~Holding(k)
        /\ UNCHANGED <<shared, unsent, log>> /\ Returns(k, <<Count(k)>>)
    BY DEF LookCounted, At, IInv, TypeOK, Agents, Holding
  <1>2. <<Count(k)>> \in Answers
    BY <1>1, CountValue, AnswerTypes
  <1> QED
    BY <1>1, <1>2, ReturnKeeps

(* It finds nothing published, or goes for the guard. *)
LEMMA LookSeqKeeps == ASSUME IInv, NEW k \in Lookers, LookSeq(k) PROVE IInv'
  <1>1. /\ me[k].pc = "seq" /\ me[k] \in Locals /\ k \in Agents /\ ~Holding(k)
        /\ UNCHANGED <<shared, unsent, log>> /\ k \notin Producers /\ k \notin Consumers
    BY DEF LookSeq, At, IInv, TypeOK, Agents, Holding, Fits
  <1>2. CASE ~Published(k)
    BY <1>1, <1>2, ReturnKeeps, AnswerTypes DEF LookSeq
  <1>3. CASE Published(k)
    <2>1. me' = [me EXCEPT ![k].pc = "lock"] /\ UNCHANGED answer
      BY <1>3 DEF LookSeq
    <2>2. /\ me' \in [Agents -> Locals] /\ (\A b \in Agents : b # k => me'[b] = me[b])
          /\ me'[k] = [me[k] EXCEPT !.pc = "lock"] /\ answer' \in [Agents -> Answers]
      BY <1>1, <2>1 DEF IInv, TypeOK, Locals
    <2>3. me'[k].pc = "lock" /\ me'[k].at = me[k].at /\ AgentInv(k)
      BY <1>1, <2>2 DEF Locals, IInv
    <2>4. AgentInv(k)'
      BY <1>1, <2>3 DEF shared, AgentInv, LookerInv, CountInv, H
    <2> QED
      BY <1>1, <2>2, <2>3, <2>4, LocalKeeps DEF Holding
  <1> QED
    BY <1>2, <1>3

(* The cell is being written: the attempt is over. *)
LEMMA LookRefusedKeeps ==
    ASSUME IInv, NEW k \in Lookers, LookLock(k), guard[Pos(me[k].at)] < 0
    PROVE  IInv'
  <1>1. /\ me[k].pc = "lock" /\ me[k] \in Locals /\ k \in Agents /\ ~Holding(k)
        /\ k \notin Producers /\ k \notin Consumers /\ Retry(k)
        /\ UNCHANGED <<shared, unsent, log>>
    BY DEF LookLock, At, IInv, TypeOK, Agents, Holding, Fits, shared
  <1>2. CASE ~(me[k].tries + 1 < Retries)
    BY <1>1, <1>2, ReturnKeeps, AnswerTypes DEF Retry
  <1>3. CASE me[k].tries + 1 < Retries
    <2>1. me' = [me EXCEPT ![k].tries = @ + 1, ![k].pc = "again"] /\ UNCHANGED answer
      BY <1>1, <1>3 DEF Retry
    <2>2. /\ me' \in [Agents -> Locals] /\ (\A b \in Agents : b # k => me'[b] = me[b])
          /\ me'[k] = [me[k] EXCEPT !.tries = @ + 1, !.pc = "again"]
          /\ answer' \in [Agents -> Answers]
      BY <1>1, <2>1 DEF IInv, TypeOK, Locals
    <2>3. me'[k].pc = "again" /\ AgentInv(k)
      BY <1>1, <2>2 DEF Locals, IInv
    <2>4. AgentInv(k)'
      BY <1>1, <2>3 DEF shared, AgentInv, LookerInv, CountInv, H
    <2> QED
      BY <1>1, <2>2, <2>3, <2>4, LocalKeeps DEF Holding
  <1> QED
    BY <1>2, <1>3

(* A looker that holds the cell and finds it published has the item in view. *)
LEMMA LookReseqKeeps == ASSUME IInv, NEW k \in Lookers, LookReseq(k) PROVE IInv'
  <1>1. /\ me[k].pc = "reseq" /\ me[k] \in Locals /\ k \in Agents
        /\ UNCHANGED <<shared, answer, unsent, log>> /\ k \notin Producers /\ k \notin Consumers
        /\ me' = [me EXCEPT ![k].pc = IF Published(k) THEN "look" ELSE "unlock"]
    BY DEF LookReseq, At, Local, IInv, TypeOK, Agents, Fits
  <1>2. /\ me' \in [Agents -> Locals] /\ (\A b \in Agents : b # k => me'[b] = me[b])
        /\ me'[k] = [me[k] EXCEPT !.pc = IF Published(k) THEN "look" ELSE "unlock"]
        /\ answer' \in [Agents -> Answers]
    BY <1>1 DEF IInv, TypeOK, Locals
  <1>3. me'[k].pc = (IF Published(k) THEN "look" ELSE "unlock") /\ me'[k].at = me[k].at /\ AgentInv(k)
    BY <1>1, <1>2 DEF Locals, IInv
  <1>4. Published(k) => Off(me[k].at) < L /\ cell[Pos(me[k].at)] = log[Off(me[k].at) + 1]
    <2>1. me[k].at \in Numbers /\ Off(me[k].at) <= L
      <3>1. me[k].at \in Numbers /\ Off(me[k].at) <= H
        BY <1>1, <1>3 DEF Locals, AgentInv, LookerInv
      <3>2. Off(me[k].at) \in Int /\ H \in Int /\ L \in Int /\ H <= L
        BY <3>1, Order, OffValue DEF IInv, Numbers
      <3> QED
        BY <3>1, <3>2
    <2> QED
      BY <2>1, PublishedIsRecent DEF Published
  <1>5. AgentInv(k)'
    BY <1>1, <1>3, <1>4 DEF shared, AgentInv, LookerInv, CountInv, H, L
  <1> QED
    BY <1>1, <1>2, <1>3, <1>5, LocalKeeps DEF Holding

(* The lookers that hold a cell are finitely many. *)
LEMMA HoldersFinite ==
    ASSUME IInv, NEW i PROVE IsFiniteSet(Holders(i)) /\ Cardinality(Holders(i)) \in Nat
  <1>1. IsFiniteSet(Holders(i))
    BY FS_Subset DEF IInv, Fits, Holders
  <1> QED
    BY <1>1, FS_CardinalityType

(* A producer holds the cell once no looker does. *)
LEMMA OfferLockKeeps == ASSUME IInv, NEW p \in Producers, OfferLock(p) PROVE IInv'
  <1>1. /\ me[p].pc = "lock" /\ me[p] \in Locals /\ p \in Agents
        /\ p \notin Consumers /\ p \notin Lookers
        /\ UNCHANGED <<mode, head, tail, seqno, cell, answer, unsent, log>>
        /\ answer' \in [Agents -> Answers]
        /\ guard[Pos(me[p].at)] = 0 /\ guard' = [guard EXCEPT ![Pos(me[p].at)] = -1]
    BY DEF OfferLock, At, IInv, TypeOK, Agents, Fits
  <1>2. /\ me' \in [Agents -> Locals] /\ (\A b \in Agents : b # p => me'[b] = me[b])
        /\ me'[p] = [me[p] EXCEPT !.pc = "write"]
    BY <1>1 DEF OfferLock, IInv, TypeOK, Locals
  <1>3. /\ me'[p].pc = "write" /\ me'[p].at = me[p].at /\ me'[p].item = me[p].item
        /\ me'[p].sure = me[p].sure
    BY <1>1, <1>2 DEF Locals
  <1>4. AgentInv(p) /\ me[p].at \in Numbers /\ Pos(me[p].at) \in Index
    BY <1>1, PosCell DEF IInv, Locals
  <1>5. AgentInv(p)'
    BY <1>1, <1>3, <1>4
       DEF AgentInv, ProducerInv, ProducerOne, ProducerMany, CountInv, Owning, Offering, H, T, L
  <1>6. guard' \in [Index -> Int]
    BY <1>1, <1>4 DEF IInv, TypeOK
  <1>7. GuardInv'
    <2>0. PICK i \in Index : i = Pos(me[p].at)
      BY <1>4
    <2>1. \A j \in Index : Holders(j)' = Holders(j)
      BY <1>1, <1>2 DEF Holders, Holding, Agents
    <2>2. \A j \in Index : j # i => (Writing(j)' <=> Writing(j))
      BY <1>1, <1>2, <1>3, <2>0 DEF Writing, At, Agents
    <2>3. Holders(i) = {}
      BY <1>1, <2>0, HoldersFinite, FS_EmptySet DEF IInv, GuardInv
    <2>4. Writing(i)'
      BY <1>3, <2>0 DEF Writing, At
    <2>5. guard'[i] = -1 /\ \A j \in Index : j # i => guard'[j] = guard[j]
      BY <1>1, <2>0 DEF IInv, TypeOK
    <2> QED
      BY <2>1, <2>2, <2>3, <2>4, <2>5 DEF IInv, GuardInv
  <1>8. Owning(p) /\ (Offering(p)' => Offering(p))
    BY <1>1, <1>3 DEF Owning, Offering
  <1> QED
    BY <1>1, <1>2, <1>3, <1>5, <1>6, <1>7, <1>8, GuardStepKeeps

(* A looker holds a cell that nobody writes. *)
LEMMA LookLockKeeps ==
    ASSUME IInv, NEW k \in Lookers, LookLock(k), ~(guard[Pos(me[k].at)] < 0)
    PROVE  IInv'
  <1>1. /\ me[k].pc = "lock" /\ me[k] \in Locals /\ k \in Agents
        /\ k \notin Producers /\ k \notin Consumers
        /\ UNCHANGED <<mode, head, tail, seqno, cell, answer, unsent, log>>
        /\ answer' \in [Agents -> Answers]
        /\ guard' = [guard EXCEPT ![Pos(me[k].at)] = @ + 1]
        /\ me' = [me EXCEPT ![k].pc = "recheck"]
    BY DEF LookLock, At, IInv, TypeOK, Agents, Fits
  <1>2. /\ me' \in [Agents -> Locals] /\ (\A b \in Agents : b # k => me'[b] = me[b])
        /\ me'[k] = [me[k] EXCEPT !.pc = "recheck"]
    BY <1>1 DEF IInv, TypeOK, Locals
  <1>3. me'[k].pc = "recheck" /\ me'[k].at = me[k].at
    BY <1>1, <1>2 DEF Locals
  <1>4. AgentInv(k) /\ me[k].at \in Numbers /\ Pos(me[k].at) \in Index
    BY <1>1, PosCell DEF IInv, Locals
  <1>5. AgentInv(k)'
    BY <1>1, <1>3, <1>4 DEF AgentInv, LookerInv, CountInv, H, L
  <1>i. PICK i \in Index : i = Pos(me[k].at)
    BY <1>4
  <1>6. guard' \in [Index -> Int] /\ guard'[i] = guard[i] + 1 /\ guard[i] \in Int
        /\ \A j \in Index : j # i => guard'[j] = guard[j]
    BY <1>1, <1>i DEF IInv, TypeOK
  <1>7. GuardInv'
    <2>1. \A j \in Index : Writing(j)' <=> Writing(j)
      BY <1>1, <1>2, <1>3 DEF Writing, At, Agents
    <2>2. \A j \in Index : j # i => Holders(j)' = Holders(j)
      BY <1>1, <1>2, <1>3, <1>i DEF Holders, Holding, Agents
    <2>3. ~Writing(i) /\ guard[i] = Cardinality(Holders(i))
      BY <1>1, <1>6, <1>i DEF IInv, GuardInv
    <2>4. Holders(i)' = Holders(i) \cup {k} /\ k \notin Holders(i)
      <3>1. ~Holding(k) /\ Holding(k)'
        BY <1>1, <1>3 DEF Holding
      <3>2. \A b \in Lookers : b # k => (Holding(b)' <=> Holding(b)) /\ me'[b].at = me[b].at
        BY <1>2 DEF Holding, Agents
      <3> QED
        BY <1>3, <1>i, <3>1, <3>2 DEF Holders
    <2>5. Cardinality(Holders(i)') = Cardinality(Holders(i)) + 1
      BY <2>4, HoldersFinite, FS_AddElement
    <2> QED
      BY <1>6, <2>1, <2>2, <2>3, <2>5 DEF IInv, GuardInv
  <1> QED
    BY <1>1, <1>2, <1>3, <1>5, <1>6, <1>7, GuardStepKeeps

(* A looker that lets a cell go is one holder less. *)
LEMMA LetGo ==
    ASSUME IInv, NEW k \in Lookers, Holding(k), k \in Agents, ~Holding(k)',
           me[k].at \in Numbers, k \notin Producers,
           \A b \in Agents : b # k => me'[b] = me[b],
           guard' = [guard EXCEPT ![Pos(me[k].at)] = @ - 1]
    PROVE  guard' \in [Index -> Int] /\ GuardInv'
  <1>1. PICK i \in Index : i = Pos(me[k].at)
    BY PosCell DEF IInv
  <1>2. guard' \in [Index -> Int] /\ guard'[i] = guard[i] - 1 /\ guard[i] \in Int
        /\ \A j \in Index : j # i => guard'[j] = guard[j]
    BY <1>1 DEF IInv, TypeOK
  <1>3. \A j \in Index : Writing(j)' <=> Writing(j)
    BY DEF Writing, At, Agents
  <1>4. \A j \in Index : j # i => Holders(j)' = Holders(j)
    BY <1>1 DEF Holders, Holding, Agents
  <1>5. k \in Holders(i)
    BY <1>1 DEF Holders
  <1>6. ~Writing(i) /\ guard[i] = Cardinality(Holders(i))
    BY <1>1, <1>5 DEF IInv, GuardInv
  <1>7. Holders(i)' = Holders(i) \ {k}
    <2>1. \A b \in Lookers : b # k => (Holding(b)' <=> Holding(b)) /\ me'[b].at = me[b].at
      BY DEF Holding, Agents
    <2> QED
      BY <1>1, <2>1 DEF Holders
  <1>8. Cardinality(Holders(i)') = Cardinality(Holders(i)) - 1
    BY <1>5, <1>7, HoldersFinite, FS_RemoveElement
  <1> QED
    BY <1>2, <1>3, <1>4, <1>6, <1>8 DEF IInv, GuardInv

(* It lets go without a copy. *)
LEMMA LookUnlockKeeps == ASSUME IInv, NEW k \in Lookers, LookUnlock(k) PROVE IInv'
  <1>1. /\ me[k].pc = "unlock" /\ me[k] \in Locals /\ k \in Agents /\ Holding(k)
        /\ k \notin Producers /\ k \notin Consumers /\ Retry(k)
        /\ UNCHANGED <<mode, head, tail, seqno, cell, unsent, log>>
        /\ guard' = [guard EXCEPT ![Pos(me[k].at)] = @ - 1]
    BY DEF LookUnlock, At, IInv, TypeOK, Agents, Fits, Holding
  <1>2. Idle \in Locals /\ Idle.pc = "idle" /\ ~Idle.sure
    BY Constants DEF IInv, Idle, Locals, Numbers
  <1>3. /\ me' \in [Agents -> Locals] /\ (\A b \in Agents : b # k => me'[b] = me[b])
        /\ answer' \in [Agents -> Answers] /\ me'[k].pc \in {"idle", "again"}
        /\ me'[k].pc = "idle" => ~me'[k].sure
    <2>1. CASE me[k].tries + 1 < Retries
      BY <1>1, <2>1 DEF Retry, IInv, TypeOK, Locals
    <2>2. CASE ~(me[k].tries + 1 < Retries)
      BY <1>1, <1>2, <2>2, AnswerTypes DEF Retry, Returns, IInv, TypeOK
    <2> QED
      BY <2>1, <2>2
  <1>4. AgentInv(k) /\ me[k].at \in Numbers
    BY <1>1 DEF IInv, Locals
  <1>5. AgentInv(k)'
    BY <1>1, <1>3, <1>4 DEF AgentInv, LookerInv, CountInv
  <1>6. ~Holding(k)'
    BY <1>3 DEF Holding
  <1>7. guard' \in [Index -> Int] /\ GuardInv'
    BY <1>1, <1>3, <1>4, <1>6, LetGo
  <1> QED
    BY <1>1, <1>3, <1>5, <1>7, GuardStepKeeps

(* It copies the item and lets go. *)
LEMMA LookCopyKeeps == ASSUME IInv, NEW k \in Lookers, LookCopy(k) PROVE IInv'
  <1>1. /\ me[k].pc = "look" /\ me[k] \in Locals /\ k \in Agents /\ Holding(k)
        /\ k \notin Producers /\ k \notin Consumers /\ Returns(k, <<cell[Pos(me[k].at)]>>)
        /\ UNCHANGED <<mode, head, tail, seqno, cell, unsent, log>>
        /\ guard' = [guard EXCEPT ![Pos(me[k].at)] = @ - 1]
    BY DEF LookCopy, At, IInv, TypeOK, Agents, Fits, Holding
  <1>2. Idle \in Locals /\ Idle.pc = "idle" /\ ~Idle.sure
    BY Constants DEF IInv, Idle, Locals, Numbers
  <1>4. AgentInv(k) /\ me[k].at \in Numbers /\ Pos(me[k].at) \in Index
    BY <1>1, PosCell DEF IInv, Locals
  <1>8. <<cell[Pos(me[k].at)]>> \in Answers
    BY <1>4, AnswerTypes DEF IInv, TypeOK
  <1>3. /\ me' \in [Agents -> Locals] /\ (\A b \in Agents : b # k => me'[b] = me[b])
        /\ answer' \in [Agents -> Answers] /\ me'[k].pc = "idle" /\ ~me'[k].sure
    BY <1>1, <1>2, <1>8 DEF Returns, IInv, TypeOK
  <1>5. AgentInv(k)'
    BY <1>1, <1>3, <1>4 DEF AgentInv, LookerInv, CountInv
  <1>6. ~Holding(k)'
    BY <1>3 DEF Holding
  <1>7. guard' \in [Index -> Int] /\ GuardInv'
    BY <1>1, <1>3, <1>4, <1>6, LetGo
  <1> QED
    BY <1>1, <1>3, <1>5, <1>7, GuardStepKeeps

(* Positions less than a turn apart have different cells. *)
LEMMA PosApart ==
    ASSUME Fits, NEW x \in Numbers, NEW y \in Numbers, Off(x) # Off(y),
           Off(x) < Off(y) + Slots, Off(y) < Off(x) + Slots
    PROVE  Pos(x) # Pos(y)
  <1>1. /\ Off(x) \in Int /\ Off(y) \in Int /\ Pos(x) = Cell(Off(x)) /\ Pos(y) = Cell(Off(y))
        /\ Slots \in Int
    BY OffValue, PosCell, Constants DEF Numbers
  <1>2. Off(x) < Off(y) \/ Off(y) < Off(x)
    BY <1>1
  <1> QED
    BY <1>1, <1>2, CellApart

(* A producer owns a position whose cell is free. *)
LEMMA Owns ==
    ASSUME IInv, NEW p \in Producers, Owning(p)
    PROVE  /\ me[p] \in Locals /\ p \in Agents /\ me[p].at \in Numbers /\ AgentInv(p)
           /\ mode \in {"one", "many"}
           /\ Off(me[p].at) \in Int /\ 0 <= Off(me[p].at) /\ Off(me[p].at) + 1 < Modulus
           /\ Pos(me[p].at) = Cell(Off(me[p].at)) /\ Pos(me[p].at) \in Index
           /\ Sq(Off(me[p].at)) = Off(me[p].at)
           /\ mode = "many" => H <= Off(me[p].at) /\ Off(me[p].at) < L
           /\ mode = "one" => Off(me[p].at) = L /\ T = L /\ L - H < Slots
  <1>1. me[p] \in Locals /\ p \in Agents /\ me[p].at \in Numbers /\ AgentInv(p) /\ Fits /\ TypeOK
    BY DEF IInv, TypeOK, Agents, Locals
  <1>2. mode \in {"one", "many"}
    BY <1>1 DEF TypeOK, AgentInv, ProducerInv, Owning
  <1>3. /\ Off(me[p].at) \in Int /\ 0 <= Off(me[p].at)
        /\ Pos(me[p].at) = Cell(Off(me[p].at)) /\ Pos(me[p].at) \in Index
    BY <1>1, OffValue, PosCell DEF Numbers
  <1>4. /\ H \in Int /\ T \in Int /\ L \in Int /\ 0 <= H /\ H <= T /\ T <= L /\ L - H <= Slots
        /\ Slots \in Int /\ Slots >= 2 /\ L + Slots <= Modulus /\ Modulus \in Int
        /\ Passed \in {H, H + 1}
    BY Order
  <1>5. CASE mode = "many"
    <2>1. /\ H <= Off(me[p].at) /\ Off(me[p].at) < T /\ seqno[Pos(me[p].at)] = me[p].at
      BY <1>1, <1>5 DEF AgentInv, ProducerInv, ProducerMany
    <2>2. Sq(Off(me[p].at)) = Off(me[p].at)
      BY <1>1, <2>1, SeqRead
    <2> QED
      BY <1>1, <1>2, <1>3, <1>4, <1>5, <2>1, <2>2
  <1>6. CASE mode = "one"
    <2>1. me[p].at = tail /\ L - H < Slots
      BY <1>1, <1>6 DEF AgentInv, ProducerInv, ProducerOne
    <2>2. T = L
      BY <1>6, OneProducer DEF Owning
    <2>3. Off(me[p].at) = L
      BY <2>1, <2>2 DEF T
    <2>4. L - Slots \in L - Slots .. L - 1 /\ L - Slots < Passed
      BY <1>4, <2>1
    <2>5. Sq(L - Slots) = (L - Slots) + Slots
      BY <1>6, <2>4 DEF IInv, RingInv, SeqInv
    <2>6. Sq(L) = L
      BY <1>1, <1>4, <2>5, NextCell
    <2> QED
      BY <1>1, <1>2, <1>3, <1>4, <1>6, <2>1, <2>2, <2>3, <2>6
  <1> QED
    BY <1>2, <1>5, <1>6

(* An item that was never in the log, nor will be offered again, enters once. *)
LEMMA LogGrows ==
    ASSUME log \in Seq(Items), NEW i \in Items, log' = Append(log, i), unsent' = unsent,
           LogInv, i \notin unsent, \A j \in 1 .. L : log[j] # i
    PROVE  /\ L \in Nat /\ L' = L + 1 /\ log' \in Seq(Items) /\ LogInv'
           /\ \A j \in 1 .. L : log'[j] = log[j]
           /\ log'[L + 1] = i
  <1>1. /\ L \in Nat /\ L' = L + 1 /\ log' \in Seq(Items)
        /\ (\A j \in 1 .. L : log'[j] = log[j]) /\ log'[L + 1] = i
    BY DEF L
  <1>2. ASSUME NEW j \in 1 .. L + 1 PROVE j \in 1 .. L \/ j = L + 1
    BY <1>1
  <1>3. ASSUME NEW j \in 1 .. L + 1, NEW k \in 1 .. L + 1, j # k PROVE log'[j] # log'[k]
    <2>1. CASE j \in 1 .. L /\ k \in 1 .. L
      BY <1>1, <1>3, <2>1 DEF LogInv
    <2>2. CASE j = L + 1
      <3>1. k \in 1 .. L
        BY <1>2, <1>3, <2>2
      <3> QED
        BY <1>1, <2>2, <3>1
    <2>3. CASE k = L + 1
      <3>1. j \in 1 .. L
        BY <1>2, <1>3, <2>3
      <3> QED
        BY <1>1, <2>3, <3>1
    <2> QED
      BY <1>2, <2>1, <2>2, <2>3
  <1>4. ASSUME NEW j \in 1 .. L + 1 PROVE log'[j] \notin unsent'
    BY <1>1, <1>2 DEF LogInv
  <1> QED
    BY <1>1, <1>3, <1>4 DEF LogInv

(* A producer is given an item. *)
LEMMA OfferKeeps ==
    ASSUME IInv, NEW p \in Producers, NEW i \in Items, Offer(p, i)
    PROVE  IInv'
  <1>1. /\ me[p].pc = "idle" /\ me[p] \in Locals /\ p \in Agents /\ Alone(Producers)
        /\ p \notin Consumers /\ p \notin Lookers /\ i \in unsent /\ unsent' = unsent \ {i}
        /\ UNCHANGED <<shared, answer, log>> /\ mode \in {"one", "many"}
    BY DEF Offer, Turn, At, IInv, TypeOK, Agents, Fits
  <1>2. /\ me' \in [Agents -> Locals] /\ (\A b \in Agents : b # p => me'[b] = me[b])
        /\ me'[p] = [me[p] EXCEPT !.item = i, !.pc = IF mode = "one" THEN "h1" ELSE "tail"]
    BY <1>1 DEF Offer, IInv, TypeOK, Locals
  <1>3. /\ me'[p].pc = (IF mode = "one" THEN "h1" ELSE "tail") /\ me'[p].item = i
        /\ me'[p].sure = me[p].sure
    BY <1>1, <1>2 DEF Locals
  <1>4. TypeOK'
    BY <1>1, <1>2 DEF IInv, TypeOK, shared
  <1>5. Advancing' <=> Advancing
    BY <1>1, <1>2, <1>3 DEF Advancing, At, Agents, shared
  <1>6. Passed' = Passed
    BY <1>1, <1>2 DEF Passed, At, Agents, H, shared
  <1>7. RingInv'
    BY <1>1, <1>5, <1>6 DEF IInv, RingInv, PosInv, LogInv, SeqInv, CellInv, H, T, L, Sq, shared
  <1>8. GuardInv'
    BY <1>1, <1>2, <1>3, GuardsKeep DEF shared
  <1>9. \A b \in Agents : AgentInv(b)'
    <2> SUFFICES ASSUME NEW b \in Agents PROVE AgentInv(b)'
      OBVIOUS
    <2>1. AgentInv(b)
      BY DEF IInv
    <2>2. CASE b # p
      BY <1>1, <1>2, <2>1, <2>2
         DEF shared, AgentInv, ProducerInv, ProducerOne, ProducerMany, ConsumerInv, ConsumerOne,
             ConsumerMany, LookerInv, CountInv, Exact, Owning, Offering, Taking, H, T, L
    <2>3. CASE b = p
      BY <1>1, <1>3, <2>1, <2>3
         DEF shared, AgentInv, ProducerInv, ProducerOne, ProducerMany, CountInv, Owning, Offering,
             H, T, L, IInv, RingInv, LogInv
    <2> QED
      BY <2>2, <2>3
  <1>10. ASSUME NEW b \in Agents, NEW c \in Agents, b # c PROVE PairInv(b, c)'
    <2>1. PairInv(b, c) /\ PairInv(c, b) /\ AgentInv(b) /\ AgentInv(c)
      BY <1>10 DEF IInv
    <2>2. CASE b # p /\ c # p
      BY <1>1, <1>2, <2>1, <2>2 DEF PairInv, Owning, Offering, Taking, shared
    <2>3. CASE b = p
      BY <1>1, <1>2, <1>3, <1>10, <2>1, <2>3
         DEF PairInv, Owning, Offering, Taking, Alone, At, shared, AgentInv, ProducerInv
    <2>4. CASE c = p
      BY <1>1, <1>2, <1>3, <1>10, <2>1, <2>4
         DEF PairInv, Owning, Offering, Taking, Alone, At, shared, AgentInv, ProducerInv
    <2> QED
      BY <2>2, <2>3, <2>4
  <1> QED
    BY <1>4, <1>7, <1>8, <1>9, <1>10 DEF IInv, Fits

(* A ring that was not made refuses every item. *)
LEMMA OfferBrokenKeeps ==
    ASSUME IInv, NEW p \in Producers, NEW i \in Items, OfferBroken(p, i)
    PROVE  IInv'
  <1>1. mode = "broken" /\ unsent' = unsent \ {i} /\ UNCHANGED <<shared, me, answer, log>>
    BY DEF OfferBroken
  <1>2. TypeOK'
    BY <1>1 DEF IInv, TypeOK, shared
  <1>3. RingInv' /\ GuardInv'
    <2>1. RingInv'
      BY <1>1 DEF IInv, RingInv, PosInv, LogInv, SeqInv, CellInv, H, T, L, Sq, shared, Advancing,
                  Passed, At
    <2>2. GuardInv'
      BY <1>1 DEF IInv, shared, At, GuardInv, Writing, Holders, Holding
    <2> QED
      BY <2>1, <2>2
  <1>4. ASSUME NEW b \in Agents PROVE AgentInv(b)'
    <2>1. AgentInv(b)
      BY DEF IInv
    <2> QED
      BY <1>1, <2>1
         DEF shared, AgentInv, ProducerInv, ProducerOne, ProducerMany, ConsumerInv, ConsumerOne,
             ConsumerMany, LookerInv, CountInv, Exact, Owning, Offering, Taking, H, T, L
  <1>5. \A b, c \in Agents : b # c => PairInv(b, c)'
    BY <1>1 DEF IInv, PairInv, Owning, Offering, Taking, shared
  <1> QED
    BY <1>2, <1>3, <1>4, <1>5 DEF IInv, Fits

(* A producer of many that finds tail where it read it takes the position: its *)
(* cell is free, so it was given back, and fewer than Slots items are queued.  *)
LEMMA OfferCasKeeps ==
    ASSUME IInv, NEW p \in Producers, OfferCas(p), tail = me[p].at
    PROVE  IInv'
  <1>1. /\ me[p].pc = "cas" /\ me[p] \in Locals /\ p \in Agents /\ tail \in Numbers
        /\ p \notin Consumers /\ p \notin Lookers /\ Fits /\ TypeOK /\ AgentInv(p)
        /\ UNCHANGED <<mode, team, head, seqno, guard, cell, answer, unsent>>
        /\ tail' = Plus(tail, 1) /\ log' = Append(log, me[p].item)
        /\ me' = [me EXCEPT ![p].pc = "lock"]
    BY DEF OfferCas, At, IInv, TypeOK, Agents, Fits
  <1>2. /\ me' \in [Agents -> Locals] /\ (\A b \in Agents : b # p => me'[b] = me[b])
        /\ me'[p] = [me[p] EXCEPT !.pc = "lock"]
    BY <1>1 DEF TypeOK, Locals
  <1>3. /\ me'[p].pc = "lock" /\ me'[p].item = me[p].item /\ me'[p].at = me[p].at
        /\ me'[p].sure = me[p].sure
    BY <1>1, <1>2 DEF Locals
  <1>4. mode = "many" /\ seqno[Pos(tail)] = tail /\ Offering(p)
    BY <1>1 DEF AgentInv, ProducerInv, ProducerOne, ProducerMany, TypeOK, Offering
  <1>5. /\ H \in Int /\ T \in Int /\ L \in Int /\ 0 <= H /\ H <= T /\ T = L /\ L - H <= Slots
        /\ Slots \in Int /\ Slots >= 2 /\ L + Slots <= Modulus /\ Modulus \in Int /\ Passed = H
    BY <1>4, Order
  <1>6. /\ me[p].item \in Items /\ me[p].item \notin unsent
        /\ \A i \in 1 .. L : log[i] # me[p].item
    BY <1>1, <1>4 DEF AgentInv, ProducerInv
  <1>7. Sq(T) = T /\ Sq(L - Slots) = L /\ L - Slots < H
    <2>1. Sq(T) = T
      BY <1>1, <1>4, SeqRead DEF T
    <2>2. Sq(L - Slots) = L
      BY <1>1, <1>5, <2>1, NextCell
    <2>3. L - Slots \in L - Slots .. L - 1
      BY <1>5
    <2> QED
      BY <1>4, <1>5, <2>1, <2>2, <2>3 DEF IInv, RingInv, SeqInv
  <1>8. /\ log \in Seq(Items) /\ L' = L + 1 /\ log' \in Seq(Items) /\ LogInv'
        /\ (\A i \in 1 .. L : log'[i] = log[i]) /\ log'[L + 1] = me[p].item
    BY <1>1, <1>6, LogGrows DEF TypeOK, IInv, RingInv
  <1>9. T' = T + 1 /\ tail' \in Numbers /\ H' = H /\ (\A o \in Int : Sq(o)' = Sq(o))
    <2>1. T + 1 < Modulus
      BY <1>5
    <2> QED
      BY <1>1, <2>1, OffPlus DEF T, H, Sq
  <1>10. TypeOK'
    BY <1>1, <1>2, <1>8, <1>9 DEF TypeOK
  <1>11. ~Advancing' /\ Passed' = H
    BY <1>1, <1>4, <1>9 DEF Advancing, Passed
  <1>12. PosInv'
    BY <1>5, <1>7, <1>8, <1>9, <1>11 DEF PosInv
  <1>13. SeqInv'
    <2> SUFFICES ASSUME NEW o \in (L + 1) - Slots .. L
                 PROVE  /\ o >= H => Sq(o) = o + 1 \/ Sq(o) = o
                        /\ o <  H => Sq(o) = o + Slots \/ Sq(o) = o + 1
      BY <1>1, <1>4, <1>5, <1>8, <1>9, <1>11 DEF SeqInv
    <2>1. CASE o = L
      BY <1>5, <1>7, <2>1
    <2>2. CASE o # L
      <3>1. o \in L - Slots .. L - 1
        BY <1>5, <2>2
      <3> QED
        BY <1>5, <3>1 DEF IInv, RingInv, SeqInv
    <2> QED
      BY <2>1, <2>2
  <1>14. CellInv'
    <2> SUFFICES ASSUME NEW o \in (L + 1) - Slots .. L, o >= 0, Sq(o) = o + 1
                 PROVE  cell[Cell(o)] = log'[o + 1]
      <3>1. L' - Slots .. L' - 1 = (L + 1) - Slots .. L
        BY <1>5, <1>8
      <3>2. \A o \in (L + 1) - Slots .. L : o \in Int /\ Cell(o)' = Cell(o)
        BY <1>5 DEF Cell
      <3> QED
        BY <1>1, <1>9, <3>1, <3>2 DEF CellInv
    <2>1. o \in L - Slots .. L - 1 /\ o + 1 \in 1 .. L
      BY <1>5, <1>7
    <2> QED
      BY <1>8, <2>1 DEF IInv, RingInv, CellInv
  <1>15. GuardInv'
    BY <1>1, <1>2, <1>3, GuardsKeep
  <1>16. ASSUME NEW b \in Agents PROVE AgentInv(b)'
    <2>1. AgentInv(b) /\ me[b] \in Locals
      BY <1>1 DEF IInv, TypeOK
    <2>2. CASE b = p
      <3>1. Owning(p)'
        BY <1>3 DEF Owning
      <3>2. ~Offering(p)'
        BY <1>1, <1>3, <1>4 DEF Offering
      <3>3. log'[Off(me[p].at) + 1] = me[p].item
        BY <1>1, <1>5, <1>8 DEF T
      <3>4. /\ H' <= Off(me[p].at) /\ Off(me[p].at) < T' /\ me[p].at = tail
            /\ seqno'[Pos(me[p].at)] = me[p].at
        BY <1>1, <1>4, <1>5, <1>9 DEF T
      <3>5. ProducerMany(p)'
        BY <1>3, <3>3, <3>4 DEF ProducerMany
      <3>6. CountInv(p)'
        BY <1>3 DEF CountInv
      <3> QED
        BY <1>1, <1>3, <1>4, <2>2, <3>2, <3>5, <3>6 DEF AgentInv, ProducerInv
    <2>3. CASE b # p
      <3>a. me'[b] = me[b] /\ Off(me[b].at) \in Int /\ 0 <= Off(me[b].at)
        BY <1>1, <1>2, <2>1, <2>3, OffValue DEF Locals, Numbers
      <3>1. ASSUME b \in Producers PROVE ProducerInv(b)'
        <4>1. ProducerInv(b)
          BY <2>1, <3>1 DEF AgentInv
        <4>2. me[b].pc = "cas" => me[b].at # tail'
          <5>1. me[b].pc = "cas" => Off(me[b].at) <= T
            BY <1>4, <4>1 DEF ProducerInv, ProducerMany
          <5>2. Off(tail') = T + 1
            BY <1>9 DEF T
          <5> QED
            BY <1>5, <3>a, <5>1, <5>2
        <4>3. Offering(b) => \A i \in 1 .. L' : log'[i] # me[b].item
          <5>1. Offering(b) => me[p].item # me[b].item
            BY <1>1, <1>4, <2>3, <3>1 DEF IInv, PairInv
          <5>2. Offering(b) => \A i \in 1 .. L : log[i] # me[b].item
            BY <4>1 DEF ProducerInv
          <5> QED
            BY <1>5, <1>8, <5>1, <5>2
        <4>4. Owning(b) => log'[Off(me[b].at) + 1] = me[b].item /\ Off(me[b].at) < T
          <5>1. Owning(b) => Off(me[b].at) < L /\ log[Off(me[b].at) + 1] = me[b].item
            BY <1>4, <1>5, <4>1 DEF ProducerInv, ProducerMany
          <5>2. Owning(b) => Off(me[b].at) + 1 \in 1 .. L
            BY <1>5, <3>a, <5>1
          <5> QED
            BY <1>5, <1>8, <5>1, <5>2
        <4>5. ProducerMany(b)'
          <5>1. UNCHANGED <<mode, head, seqno>> /\ me'[b] = me[b] /\ H' = H /\ T' = T + 1
            BY <1>1, <1>9, <3>a
          <5>2. ProducerMany(b)
            BY <1>4, <4>1 DEF ProducerInv
          <5>3. Off(me[b].at) <= T => Off(me[b].at) <= T'
            BY <1>5, <3>a, <5>1
          <5>4. Owning(b) => Off(me[b].at) < T'
            BY <1>5, <3>a, <4>4, <5>1
          <5> QED
            BY <4>2, <4>4, <5>1, <5>2, <5>3, <5>4 DEF ProducerMany, Owning
        <4>6. UNCHANGED <<mode, cell, unsent>> /\ me'[b] = me[b]
          BY <1>1, <3>a
        <4> QED
          BY <1>4, <4>1, <4>3, <4>5, <4>6 DEF ProducerInv, Offering, L
      <3>2. ASSUME b \in Consumers PROVE ConsumerInv(b)'
        <4>1. ConsumerInv(b)
          BY <2>1, <3>2 DEF AgentInv
        <4>2. Taking(b) => /\ L' - Slots <= Off(me[b].at)
                           /\ log'[Off(me[b].at) + 1] = log[Off(me[b].at) + 1]
          <5>1. SUFFICES ASSUME Taking(b)
                         PROVE  /\ L' - Slots <= Off(me[b].at)
                                /\ log'[Off(me[b].at) + 1] = log[Off(me[b].at) + 1]
            OBVIOUS
          <5>2. L - Slots <= Off(me[b].at) /\ Off(me[b].at) < L /\ Sq(Off(me[b].at)) = Off(me[b].at) + 1
            BY <3>2, <5>1, ReadsItem DEF Taking
          <5>3. Off(me[b].at) # L - Slots
            BY <1>5, <1>7, <5>2
          <5>4. Off(me[b].at) + 1 \in 1 .. L /\ L + 1 - Slots <= Off(me[b].at)
            BY <1>5, <3>a, <5>2, <5>3
          <5>5. log'[Off(me[b].at) + 1] = log[Off(me[b].at) + 1]
            BY <1>8, <5>4
          <5>6. L' - Slots <= Off(me[b].at)
            <6>1. L' = L + 1
              BY <1>8
            <6> QED
              BY <1>5, <3>a, <5>4, <6>1
          <5> QED
            BY <5>5, <5>6
        <4>3. ConsumerMany(b)
          BY <1>4, <4>1 DEF ConsumerInv
        <4>4. H' = H /\ T' = T + 1 /\ L' = L + 1 /\ Off(me'[b].at) = Off(me[b].at)
          BY <1>8, <1>9, <3>a
        <4>5. me[b].pc = "recycle" => me[b].item = log'[Off(me[b].at) + 1]
          BY <4>2, <4>3 DEF ConsumerMany, Taking
        <4>6. ConsumerMany(b)'
          <5>1. UNCHANGED <<head, seqno>>
            BY <1>1
          <5>2. H < T => H' < T'
            BY <1>5, <4>4
          <5>3. Taking(b) => Off(me[b].at) < H
            BY <4>3 DEF ConsumerMany
          <5> QED
            BY <3>a, <4>2, <4>3, <4>4, <4>5, <5>1, <5>2, <5>3 DEF ConsumerMany, Taking
        <4> QED
          BY <1>1, <1>4, <4>6 DEF ConsumerInv
      <3>3. ASSUME b \in Lookers PROVE LookerInv(b)'
        <4>1. LookerInv(b)
          BY <2>1, <3>3 DEF AgentInv
        <4>2. me[b].pc = "look" => Off(me[b].at) < L /\ Off(me[b].at) + 1 \in 1 .. L
          BY <1>5, <3>a, <4>1 DEF LookerInv
        <4> QED
          BY <1>1, <1>5, <1>8, <1>9, <3>a, <4>1, <4>2 DEF LookerInv, H, L
      <3>4. CountInv(b)'
        BY <1>1, <2>1, <3>a DEF AgentInv, CountInv, Exact, H
      <3> QED
        BY <3>1, <3>2, <3>3, <3>4 DEF AgentInv
    <2> QED
      BY <2>2, <2>3
  <1>17. ASSUME NEW b \in Agents, NEW c \in Agents, b # c PROVE PairInv(b, c)'
    <2>1. /\ PairInv(b, c) /\ PairInv(c, b) /\ AgentInv(b) /\ AgentInv(c)
          /\ me[b] \in Locals /\ me[c] \in Locals
      BY <1>1, <1>17 DEF IInv, TypeOK
    <2>2. CASE b # p /\ c # p
      BY <1>1, <1>2, <2>1, <2>2 DEF PairInv, Owning, Offering, Taking
    <2>3. ASSUME NEW d \in Producers, d # p, d \in Agents, Owning(d) PROVE me[d].at # tail
      <3>1. Off(me[d].at) < L
        BY <1>4, <2>3, Owns
      <3> QED
        BY <1>5, <3>1 DEF T
    <2>4. ~Offering(p)'
      BY <1>1, <1>3, <1>4 DEF Offering
    <2>5. CASE b = p
      BY <1>1, <1>2, <1>3, <1>4, <1>17, <2>3, <2>4, <2>5 DEF PairInv, Owning
    <2>6. CASE c = p
      BY <1>1, <1>2, <1>3, <1>4, <1>17, <2>3, <2>4, <2>6 DEF PairInv, Owning
    <2> QED
      BY <2>2, <2>5, <2>6
  <1> QED
    BY <1>8, <1>10, <1>12, <1>13, <1>14, <1>15, <1>16, <1>17 DEF IInv, RingInv, Fits

(* Producers that own a position each have a cell of their own. *)
LEMMA OwnersApart ==
    ASSUME IInv, NEW p \in Producers, NEW q \in Producers, p # q, Owning(p), Owning(q)
    PROVE  Pos(me[p].at) # Pos(me[q].at) /\ mode = "many"
  <1>1. /\ Fits /\ me[p].at \in Numbers /\ me[q].at \in Numbers /\ p \in Agents /\ q \in Agents
        /\ Off(me[p].at) \in Int /\ Off(me[q].at) \in Int /\ mode \in {"one", "many"}
    BY Owns DEF IInv
  <1>2. mode = "many"
    <2>1. me[p].pc # "idle" /\ me[q].pc # "idle"
      BY DEF Owning
    <2>2. PairInv(p, q)
      BY <1>1 DEF IInv
    <2> QED
      BY <1>1, <2>1, <2>2 DEF PairInv
  <1>3. /\ H <= Off(me[p].at) /\ Off(me[p].at) < L /\ H <= Off(me[q].at) /\ Off(me[q].at) < L
        /\ H \in Int /\ L \in Int /\ Slots \in Int /\ L - H <= Slots
    BY <1>2, Owns, Order
  <1>4. me[p].at # me[q].at
    BY <1>1, <1>2 DEF IInv, PairInv
  <1>5. Off(me[p].at) # Off(me[q].at)
    BY <1>1, <1>4, OffInjective
  <1> QED
    BY <1>1, <1>2, <1>3, <1>5, PosApart

(* The cell of a producer that owns a position holds no published item. *)
LEMMA OwnedUnpublished ==
    ASSUME IInv, NEW p \in Producers, Owning(p), NEW o \in Int, Sq(o) = o + 1
    PROVE  Cell(o) # Pos(me[p].at)
  <1>1. PICK x \in Int : x = Off(me[p].at)
    BY Owns
  <1>2. Pos(me[p].at) = Cell(x) /\ Sq(x) = x
    BY <1>1, Owns
  <1>3. Slots \in Int /\ Slots >= 2 /\ Fits
    BY Order DEF IInv
  <1>4. SUFFICES ASSUME Cell(o) = Cell(x) PROVE FALSE
    BY <1>2
  <1>5. Sq(o) = Sq(x)
    BY <1>4 DEF Sq
  <1>6. o < x /\ x < o + Slots
    BY <1>1, <1>2, <1>3, <1>5
  <1> QED
    BY <1>1, <1>3, <1>4, <1>6, CellApart

(* A producer that writes has the cell for itself. *)
LEMMA OfferWriteKeeps == ASSUME IInv, NEW p \in Producers, OfferWrite(p) PROVE IInv'
  <1>1. /\ me[p].pc = "write" /\ me[p] \in Locals /\ p \in Agents /\ Owning(p)
        /\ p \notin Consumers /\ p \notin Lookers /\ Fits /\ TypeOK /\ AgentInv(p)
        /\ UNCHANGED <<mode, team, head, tail, seqno, answer, unsent, log>>
        /\ cell' = [cell EXCEPT ![Pos(me[p].at)] = me[p].item]
        /\ guard' = [guard EXCEPT ![Pos(me[p].at)] = 0]
        /\ me' = [me EXCEPT ![p].pc = "publish"]
    BY DEF OfferWrite, At, IInv, TypeOK, Agents, Fits, Owning
  <1>2. /\ me' \in [Agents -> Locals] /\ (\A b \in Agents : b # p => me'[b] = me[b])
        /\ me'[p] = [me[p] EXCEPT !.pc = "publish"]
    BY <1>1 DEF TypeOK, Locals
  <1>3. /\ me'[p].pc = "publish" /\ me'[p].at = me[p].at /\ me'[p].item = me[p].item
        /\ me'[p].sure = me[p].sure
    BY <1>1, <1>2 DEF Locals
  <1>4. PICK i \in Index : i = Pos(me[p].at)
    BY <1>1, Owns
  <1>5. me[p].item \in Items \cup {NoItem}
    BY <1>1 DEF Locals
  <1>6. /\ cell' \in [Index -> Items \cup {NoItem}] /\ guard' \in [Index -> Int]
        /\ cell'[i] = me[p].item /\ guard'[i] = 0
        /\ \A j \in Index : j # i => cell'[j] = cell[j] /\ guard'[j] = guard[j]
    BY <1>1, <1>4, <1>5 DEF TypeOK
  <1>7. TypeOK'
    BY <1>1, <1>2, <1>6 DEF TypeOK
  <1>8. (Advancing' <=> Advancing) /\ Passed' = Passed /\ H' = H /\ T' = T /\ L' = L
        /\ \A o \in Int : Sq(o)' = Sq(o) /\ Cell(o)' = Cell(o)
    BY <1>1, <1>2, <1>3 DEF Advancing, Passed, At, Agents, H, T, L, Sq, Cell
  <1>9. PosInv' /\ LogInv' /\ SeqInv'
    BY <1>1, <1>8, Order DEF IInv, RingInv, PosInv, LogInv, SeqInv
  <1>10. CellInv'
    <2>1. L \in Int /\ Slots \in Int
      BY Order
    <2>2. ASSUME NEW o \in L - Slots .. L - 1, o >= 0, Sq(o) = o + 1
          PROVE  cell'[Cell(o)] = log[o + 1]
      <3>1. o \in Int /\ Cell(o) \in Index /\ Cell(o) # i
        BY <1>1, <1>4, <2>1, <2>2, CellIndex, OwnedUnpublished
      <3>2. cell[Cell(o)] = log[o + 1]
        BY <2>2 DEF IInv, RingInv, CellInv
      <3> QED
        BY <1>6, <3>1, <3>2
    <2> QED
      BY <1>1, <1>8, <2>1, <2>2 DEF CellInv
  <1>11. Writing(i) /\ ~Writing(i)' /\ \A j \in Index : j # i => (Writing(j)' <=> Writing(j))
    <2>1. Writing(i)
      BY <1>1, <1>4 DEF Writing, At
    <2>2. ASSUME NEW q \in Producers, At(q, "write")' PROVE Pos(me'[q].at) # i
      <3>1. q # p /\ me'[q] = me[q] /\ Owning(q)
        BY <1>2, <1>3, <2>2 DEF At, Owning, Agents
      <3> QED
        BY <1>1, <1>4, <3>1, OwnersApart
    <2>3. ~Writing(i)'
      BY <2>2 DEF Writing, At
    <2>4. \A j \in Index : j # i => (Writing(j)' <=> Writing(j))
      BY <1>1, <1>2, <1>3, <1>4 DEF Writing, At, Agents
    <2> QED
      BY <2>1, <2>3, <2>4
  <1>12. \A j \in Index : Holders(j)' = Holders(j)
    BY <1>1, <1>2 DEF Holders, Holding, Agents
  <1>13. Holders(i) = {}
    BY <1>11 DEF IInv, GuardInv
  <1>14. GuardInv'
    BY <1>6, <1>11, <1>12, <1>13, FS_EmptySet DEF IInv, GuardInv
  <1>15. ASSUME NEW b \in Agents PROVE AgentInv(b)'
    <2>1. AgentInv(b)
      BY DEF IInv
    <2>2. CASE b = p
      BY <1>1, <1>3, <1>4, <1>6, <2>1, <2>2
         DEF AgentInv, ProducerInv, ProducerOne, ProducerMany, CountInv, Owning, Offering, H, T, L
    <2>3. CASE b # p
      <3>1. me'[b] = me[b]
        BY <1>2, <2>3
      <3>2. (b \in Producers /\ me[b].pc = "publish") => cell'[Pos(me[b].at)] = cell[Pos(me[b].at)]
        <4>1. (b \in Producers /\ me[b].pc = "publish") => Pos(me[b].at) \in Index /\ Pos(me[b].at) # i
          BY <1>1, <1>4, <2>3, Owns, OwnersApart DEF Owning
        <4> QED
          BY <1>6, <4>1
      <3>3. (b \in Lookers /\ me[b].pc = "look") => cell'[Pos(me[b].at)] = cell[Pos(me[b].at)]
        <4>1. me[b].at \in Numbers
          BY <1>1 DEF TypeOK, Locals
        <4>2. Pos(me[b].at) \in Index
          BY <1>1, <4>1, PosCell
        <4>3. (b \in Lookers /\ me[b].pc = "look") => b \in Holders(Pos(me[b].at))
          BY DEF Holders, Holding
        <4> QED
          BY <1>6, <1>13, <4>2, <4>3
      <3>4. ASSUME b \in Producers PROVE ProducerInv(b)'
        <4>1. UNCHANGED <<mode, head, tail, seqno, unsent, log>>
          BY <1>1
        <4>2. ProducerInv(b)
          BY <2>1, <3>4 DEF AgentInv
        <4>3. ProducerOne(b)' <=> ProducerOne(b)
          BY <3>1, <4>1 DEF ProducerOne, Owning, H, L
        <4>4. ProducerMany(b)' <=> ProducerMany(b)
          BY <3>1, <4>1 DEF ProducerMany, Owning, H, T
        <4>5. Offering(b)' <=> Offering(b)
          BY <3>1, <4>1 DEF Offering
        <4>6. me[b].pc = "publish" => cell'[Pos(me[b].at)] = me[b].item
          BY <3>2, <3>4, <4>2 DEF ProducerInv
        <4> QED
          BY <3>1, <4>1, <4>2, <4>3, <4>4, <4>5, <4>6 DEF ProducerInv, L
      <3>5. ASSUME b \in Consumers PROVE ConsumerInv(b)'
        BY <1>1, <2>1, <3>1, <3>5
           DEF AgentInv, ConsumerInv, ConsumerOne, ConsumerMany, Taking, H, T, L
      <3>6. ASSUME b \in Lookers PROVE LookerInv(b)'
        BY <1>1, <2>1, <3>1, <3>3, <3>6 DEF AgentInv, LookerInv, H, L
      <3>7. CountInv(b)'
        BY <1>1, <2>1, <3>1 DEF AgentInv, CountInv, Exact, H
      <3> QED
        BY <3>4, <3>5, <3>6, <3>7 DEF AgentInv
    <2> QED
      BY <2>2, <2>3
  <1>16. Owning(p)' /\ (Offering(p)' => Offering(p))
    BY <1>1, <1>3 DEF Owning, Offering
  <1>17. \A b, c \in Agents : b # c => PairInv(b, c)'
    BY <1>1, <1>2, <1>3, <1>16, PairsKeep
  <1> QED
    BY <1>7, <1>9, <1>10, <1>14, <1>15, <1>17 DEF IInv, RingInv, Fits

(* What is being given back was queued. *)
LEMMA PassedQueued == ASSUME IInv PROVE Passed <= T
  <1>1. H \in Int /\ T \in Int /\ H <= T
    BY Order
  <1>2. CASE mode = "one" /\ \E c \in Consumers : At(c, "advance")
    <2>1. PICK c \in Consumers : me[c].pc = "advance"
      BY <1>2 DEF At
    <2>2. c \in Agents
      BY DEF Agents
    <2>3. ConsumerOne(c)
      BY <1>2, <2>2 DEF IInv, AgentInv, ConsumerInv
    <2>4. H < T
      BY <2>1, <2>3 DEF ConsumerOne
    <2> QED
      BY <1>1, <1>2, <2>4 DEF Passed
  <1>3. CASE ~(mode = "one" /\ \E c \in Consumers : At(c, "advance"))
    BY <1>1, <1>3 DEF Passed
  <1> QED
    BY <1>2, <1>3

(* A published cell is not the one a producer publishes. *)
LEMMA PublishedElsewhere ==
    ASSUME IInv, NEW p \in Producers, Owning(p), NEW y \in Numbers, Off(y) <= L,
           seqno' = [seqno EXCEPT ![Pos(me[p].at)] = Plus(me[p].at, 1)],
           seqno[Pos(y)] = Plus(y, 1)
    PROVE  seqno'[Pos(y)] = Plus(y, 1)
  <1>1. /\ Sq(Off(y)) = Off(y) + 1 /\ Pos(y) = Cell(Off(y)) /\ Off(y) \in Int
        /\ Pos(y) \in Index
    BY PublishedIsRecent, PosCell DEF IInv
  <1>2. PICK o \in Int : o = Off(y)
    BY <1>1
  <1>3. Pos(y) # Pos(me[p].at)
    BY <1>1, <1>2, OwnedUnpublished
  <1> QED
    BY <1>1, <1>3 DEF IInv, TypeOK

(* A producer of many publishes the item of the position it took. *)
LEMMA OfferPublishMany ==
    ASSUME IInv, NEW p \in Producers, OfferPublish(p), mode = "many"
    PROVE  IInv'
  <1>1. /\ me[p].pc = "publish" /\ me[p] \in Locals /\ p \in Agents /\ Owning(p)
        /\ p \notin Consumers /\ p \notin Lookers /\ Fits /\ TypeOK /\ AgentInv(p)
        /\ UNCHANGED <<mode, team, head, tail, guard, cell, unsent, log>>
        /\ seqno' = [seqno EXCEPT ![Pos(me[p].at)] = Plus(me[p].at, 1)]
        /\ Returns(p, <<me[p].item>>)
    BY DEF OfferPublish, At, IInv, TypeOK, Agents, Fits, Owning
  <1>2. PICK x \in Numbers : x = me[p].at
    BY <1>1 DEF Locals
  <1>3. PICK o \in Int : o = Off(x)
    BY <1>1, <1>2, Owns
  <1>4. /\ 0 <= o /\ o + 1 < Modulus /\ Pos(x) = Cell(o) /\ Pos(x) \in Index
        /\ Sq(o) = o /\ H <= o /\ o < L /\ o < T
    BY <1>1, <1>2, <1>3, Owns, Order
  <1>5. /\ H \in Int /\ T \in Int /\ L \in Int /\ 0 <= H /\ H <= T /\ T = L /\ L - H <= Slots
        /\ Slots \in Int /\ Slots >= 2 /\ L + Slots <= Modulus /\ Modulus \in Int /\ Passed = H
    BY Order
  <1>6. /\ seqno' \in [Index -> Numbers]
        /\ \A q \in Int : Cell(q) = Cell(o) => Sq(q)' = o + 1
        /\ \A q \in Int : Cell(q) # Cell(o) => Sq(q)' = Sq(q)
    BY <1>1, <1>2, <1>3, <1>4, SeqWrite
  <1>7. <<me[p].item>> \in Answers
    BY <1>1, AnswerTypes DEF Locals
  <1>8. Idle \in Locals /\ Idle.pc = "idle" /\ ~Idle.sure
    BY <1>1, Constants DEF Idle, Locals, Numbers
  <1>9. /\ me' \in [Agents -> Locals] /\ (\A b \in Agents : b # p => me'[b] = me[b])
        /\ answer' \in [Agents -> Answers] /\ me'[p].pc = "idle" /\ ~me'[p].sure
    BY <1>1, <1>7, <1>8 DEF Returns, TypeOK
  <1>10. TypeOK'
    BY <1>1, <1>6, <1>9 DEF TypeOK
  <1>11. /\ ~Advancing /\ ~Advancing' /\ Passed' = H /\ H' = H /\ T' = T /\ L' = L
         /\ \A q \in Int : Cell(q)' = Cell(q)
    BY <1>1 DEF Advancing, Passed, H, T, L, Cell
  <1>12. PosInv' /\ LogInv'
    BY <1>1, <1>5, <1>11 DEF IInv, RingInv, PosInv, LogInv
  <1>13. ASSUME NEW q \in L - Slots .. L - 1, q # o
         PROVE  Cell(q) # Cell(o) /\ q \in Int /\ Sq(q)' = Sq(q)
    <2>1. q \in Int /\ (q < o \/ o < q) /\ q < o + Slots /\ o < q + Slots
      BY <1>4, <1>5, <1>13
    <2>2. Cell(q) # Cell(o)
      BY <1>1, <2>1, CellApart
    <2> QED
      BY <1>6, <2>1, <2>2
  <1>14. Sq(o)' = o + 1
    BY <1>6
  <1>15. SeqInv'
    <2>1. ASSUME NEW q \in L - Slots .. L - 1
          PROVE  /\ q >= H => Sq(q)' = q + 1 \/ Sq(q)' = q
                 /\ q <  H => Sq(q)' = q + Slots \/ Sq(q)' = q + 1
      <3>1. CASE q = o
        BY <1>4, <1>5, <1>14, <3>1
      <3>2. CASE q # o
        BY <1>5, <1>13, <3>2 DEF IInv, RingInv, SeqInv
      <3> QED
        BY <3>1, <3>2
    <2> QED
      BY <1>1, <1>5, <1>11, <2>1 DEF SeqInv
  <1>16. cell[Cell(o)] = log[o + 1]
    BY <1>1, <1>2, <1>3, <1>4 DEF AgentInv, ProducerInv, ProducerMany
  <1>17. CellInv'
    <2>1. ASSUME NEW q \in L - Slots .. L - 1, q >= 0, Sq(q)' = q + 1
          PROVE  cell[Cell(q)] = log[q + 1]
      <3>1. CASE q = o
        BY <1>16, <3>1
      <3>2. CASE q # o
        BY <1>13, <2>1, <3>2 DEF IInv, RingInv, CellInv
      <3> QED
        BY <3>1, <3>2
    <2> QED
      BY <1>1, <1>5, <1>11, <2>1 DEF CellInv
  <1>18. GuardInv'
    BY <1>1, <1>9, GuardsKeep
  <1>19. ASSUME NEW b \in Agents PROVE AgentInv(b)'
    <2>1. AgentInv(b) /\ me[b] \in Locals /\ me[b].at \in Numbers
      BY <1>1 DEF IInv, TypeOK, Locals
    <2>2. CASE b = p
      BY <1>1, <1>9, <2>2
         DEF AgentInv, ProducerInv, ProducerMany, CountInv, Owning, Offering
    <2>3. CASE b # p
      <3>1. me'[b] = me[b] /\ UNCHANGED <<mode, head, tail, cell, unsent, log>>
        BY <1>1, <1>9, <2>3
      <3>2. ASSUME b \in Producers PROVE ProducerInv(b)'
        <4>1. ProducerInv(b) /\ ProducerMany(b)
          BY <2>1, <3>2 DEF AgentInv, ProducerInv
        <4>2. Owning(b) => seqno'[Pos(me[b].at)] = seqno[Pos(me[b].at)]
          <5>1. Owning(b) => Pos(me[b].at) \in Index /\ Pos(me[b].at) # Pos(me[p].at)
            BY <1>1, <2>3, <3>2, Owns, OwnersApart
          <5> QED
            BY <1>1, <5>1 DEF TypeOK
        <4>3. seqno[Pos(tail)] = tail => seqno'[Pos(tail)] = tail
          <5>1. SUFFICES ASSUME seqno[Pos(tail)] = tail PROVE seqno'[Pos(tail)] = tail
            OBVIOUS
          <5>2. tail \in Numbers /\ Pos(tail) = Cell(T) /\ Pos(tail) \in Index
            BY <1>1, PosCell DEF TypeOK, T
          <5>3. Sq(T) = T
            BY <1>1, <5>1, <5>2, SeqRead DEF T
          <5>4. Pos(tail) # Pos(x)
            BY <1>4, <1>5, <5>2, <5>3 DEF Sq
          <5> QED
            BY <1>1, <1>2, <5>1, <5>2, <5>4 DEF TypeOK
        <4>4. ProducerMany(b)'
          BY <3>1, <4>1, <4>2, <4>3 DEF ProducerMany, Owning, H, T
        <4>5. Offering(b)' <=> Offering(b)
          BY <3>1 DEF Offering
        <4> QED
          BY <1>1, <3>1, <4>1, <4>4, <4>5 DEF ProducerInv, L
      <3>3. ASSUME b \in Consumers PROVE ConsumerInv(b)'
        <4>1. ConsumerInv(b) /\ ConsumerMany(b)
          BY <2>1, <3>3 DEF AgentInv, ConsumerInv
        <4>2. seqno[Pos(head)] = Plus(head, 1) => seqno'[Pos(head)] = Plus(head, 1)
          <5>1. head \in Numbers /\ Off(head) <= L
            BY <1>1, <1>5 DEF TypeOK, H
          <5> QED
            BY <1>1, <5>1, PublishedElsewhere
        <4>3. Taking(b) => seqno'[Pos(me[b].at)] = Plus(me[b].at, 1)
          <5>1. Taking(b) => seqno[Pos(me[b].at)] = Plus(me[b].at, 1) /\ Off(me[b].at) < H
            BY <4>1 DEF ConsumerMany
          <5>2. Off(me[b].at) \in Int
            BY <1>1, <2>1, OffValue DEF Numbers
          <5>3. Taking(b) => Off(me[b].at) <= L
            BY <1>5, <5>1, <5>2
          <5> QED
            BY <1>1, <2>1, <5>1, <5>3, PublishedElsewhere
        <4>4. ConsumerMany(b)'
          BY <3>1, <4>1, <4>2, <4>3 DEF ConsumerMany, Taking, H, T, L
        <4> QED
          BY <1>1, <4>4 DEF ConsumerInv
      <3>4. ASSUME b \in Lookers PROVE LookerInv(b)'
        BY <2>1, <3>1, <3>4 DEF AgentInv, LookerInv, H, L
      <3>5. CountInv(b)'
        BY <2>1, <3>1 DEF AgentInv, CountInv, Exact, H
      <3> QED
        BY <3>2, <3>3, <3>4, <3>5 DEF AgentInv
    <2> QED
      BY <2>2, <2>3
  <1>20. ~Owning(p)' /\ ~Offering(p)'
    BY <1>1, <1>9 DEF Owning, Offering
  <1>21. \A b, c \in Agents : b # c => PairInv(b, c)'
    BY <1>1, <1>9, <1>20, PairsKeep
  <1> QED
    BY <1>10, <1>12, <1>15, <1>17, <1>18, <1>19, <1>21 DEF IInv, RingInv, Fits

(* The only producer publishes its item, which is in the ring from then on. *)
LEMMA OfferPublishOne ==
    ASSUME IInv, NEW p \in Producers, OfferPublish(p), mode = "one"
    PROVE  IInv'
  <1>1. /\ me[p].pc = "publish" /\ me[p] \in Locals /\ p \in Agents /\ Owning(p) /\ Offering(p)
        /\ p \notin Consumers /\ p \notin Lookers /\ Fits /\ TypeOK /\ AgentInv(p)
        /\ UNCHANGED <<mode, team, head, tail, guard, cell, answer, unsent>>
        /\ seqno' = [seqno EXCEPT ![Pos(me[p].at)] = Plus(me[p].at, 1)]
        /\ log' = Append(log, me[p].item)
        /\ me' = [me EXCEPT ![p].pc = "advance"]
    BY DEF OfferPublish, At, IInv, TypeOK, Agents, Fits, Owning, Offering
  <1>2. PICK x \in Numbers : x = me[p].at
    BY <1>1 DEF Locals
  <1>3. /\ 0 <= L /\ L + 1 < Modulus /\ Off(x) = L /\ Pos(x) = Cell(L) /\ Pos(x) \in Index
        /\ Sq(L) = L /\ T = L /\ L - H < Slots
    BY <1>1, <1>2, Owns
  <1>4. /\ H \in Int /\ T \in Int /\ L \in Int /\ 0 <= H /\ H <= T
        /\ Slots \in Int /\ Slots >= 2 /\ L + Slots <= Modulus /\ Modulus \in Int
        /\ Passed \in Int /\ Passed <= T /\ Passed \in {H, H + 1}
    BY Order, PassedQueued
  <1>5. /\ seqno' \in [Index -> Numbers]
        /\ \A q \in Int : Cell(q) = Cell(L) => Sq(q)' = L + 1
        /\ \A q \in Int : Cell(q) # Cell(L) => Sq(q)' = Sq(q)
    BY <1>1, <1>2, <1>3, SeqWrite
  <1>6. /\ me[p].item \in Items /\ me[p].item \notin unsent
        /\ \A i \in 1 .. L : log[i] # me[p].item
    BY <1>1 DEF AgentInv, ProducerInv
  <1>7. /\ L' = L + 1 /\ log' \in Seq(Items) /\ LogInv'
        /\ (\A j \in 1 .. L : log'[j] = log[j]) /\ log'[L + 1] = me[p].item
    BY <1>1, <1>6, LogGrows DEF TypeOK, IInv, RingInv
  <1>8. /\ me' \in [Agents -> Locals] /\ (\A b \in Agents : b # p => me'[b] = me[b])
        /\ me'[p] = [me[p] EXCEPT !.pc = "advance"]
    BY <1>1 DEF TypeOK, Locals
  <1>9. me'[p].pc = "advance" /\ me'[p].sure = me[p].sure
    BY <1>1, <1>8 DEF Locals
  <1>10. TypeOK'
    BY <1>1, <1>5, <1>7, <1>8 DEF TypeOK
  <1>11. /\ Advancing' /\ Passed' = Passed /\ H' = H /\ T' = T
         /\ \A q \in Int : Cell(q)' = Cell(q)
    BY <1>1, <1>8, <1>9 DEF Advancing, Passed, At, Agents, H, T, Cell
  <1>12. PosInv'
    BY <1>3, <1>4, <1>7, <1>11 DEF PosInv
  <1>13. ASSUME NEW q \in (L + 1) - Slots .. L, q # L
         PROVE  q \in L - Slots .. L - 1 /\ Cell(q) # Cell(L) /\ Sq(q)' = Sq(q)
    <2>1. q \in Int /\ q < L /\ L < q + Slots /\ q \in L - Slots .. L - 1
      BY <1>4, <1>13
    <2>2. Cell(q) # Cell(L)
      BY <1>1, <1>4, <2>1, CellApart
    <2> QED
      BY <1>5, <2>1, <2>2
  <1>l. PICK l \in Int : l = L
    BY <1>4
  <1>14. Sq(l)' = l + 1
    BY <1>4, <1>5, <1>l
  <1>15. L' - Slots .. L' - 1 = (L + 1) - Slots .. L
    BY <1>4, <1>7
  <1>16. SeqInv'
    <2>1. ASSUME NEW q \in (L + 1) - Slots .. L
          PROVE  /\ q >= Passed => Sq(q)' = q + 1
                 /\ q <  Passed => Sq(q)' = q + Slots
      <3>1. CASE q = L
        BY <1>3, <1>4, <1>l, <1>14, <3>1
      <3>2. CASE q # L
        BY <1>1, <1>13, <3>2 DEF IInv, RingInv, SeqInv
      <3> QED
        BY <3>1, <3>2
    <2> QED
      BY <1>1, <1>11, <1>15, <2>1 DEF SeqInv
  <1>17. cell[Cell(L)] = me[p].item
    BY <1>1, <1>2, <1>3 DEF AgentInv, ProducerInv
  <1>18. CellInv'
    <2>1. ASSUME NEW q \in (L + 1) - Slots .. L, q >= 0, Sq(q)' = q + 1
          PROVE  cell[Cell(q)] = log'[q + 1]
      <3>1. CASE q = L
        BY <1>7, <1>17, <3>1
      <3>2. CASE q # L
        <4>1. q \in L - Slots .. L - 1 /\ Sq(q) = q + 1 /\ q + 1 \in 1 .. L
          BY <1>4, <1>13, <2>1, <3>2
        <4> QED
          BY <1>7, <2>1, <4>1 DEF IInv, RingInv, CellInv
      <3> QED
        BY <3>1, <3>2
    <2> QED
      BY <1>1, <1>11, <1>15, <2>1 DEF CellInv
  <1>19. GuardInv'
    BY <1>1, <1>8, <1>9, GuardsKeep
  <1>20. ASSUME NEW b \in Agents PROVE AgentInv(b)'
    <2>1. AgentInv(b) /\ me[b] \in Locals /\ me[b].at \in Numbers
      BY <1>1 DEF IInv, TypeOK, Locals
    <2>2. CASE b = p
      BY <1>1, <1>9, <2>1, <2>2
         DEF AgentInv, ProducerInv, ProducerOne, CountInv, Owning, Offering
    <2>3. CASE b # p
      <3>0. Off(me[b].at) \in Int /\ 0 <= Off(me[b].at)
        BY <1>1, <2>1, OffValue DEF Numbers
      <3>1. me'[b] = me[b] /\ UNCHANGED <<mode, head, tail, cell, unsent>>
        BY <1>1, <1>8, <2>3
      <3>2. ASSUME b \in Producers PROVE ProducerInv(b)'
        <4>1. me[b].pc = "idle"
          BY <1>1, <2>3, <3>2, OneProducer
        <4> QED
          BY <1>1, <3>1, <4>1 DEF ProducerInv, ProducerOne, Owning, Offering
      <3>3. ASSUME b \in Consumers PROVE ConsumerInv(b)'
        <4>1. ConsumerInv(b) /\ ConsumerOne(b)
          BY <1>1, <2>1, <3>3 DEF AgentInv, ConsumerInv
        <4>2. me[b].pc \in {"recycle", "advance", "give"} =>
                 log'[Off(me[b].at) + 1] = log[Off(me[b].at) + 1]
          <5>1. me[b].pc \in {"recycle", "advance", "give"} => Off(me[b].at) + 1 \in 1 .. L
            BY <1>3, <1>4, <3>0, <4>1 DEF ConsumerOne, H
          <5> QED
            BY <1>7, <5>1
        <4>3. ConsumerOne(b)'
          BY <3>1, <4>1, <4>2 DEF ConsumerOne, H, T
        <4> QED
          BY <1>1, <4>3 DEF ConsumerInv
      <3>4. ASSUME b \in Lookers PROVE LookerInv(b)'
        <4>1. LookerInv(b)
          BY <2>1, <3>4 DEF AgentInv
        <4>2. me[b].pc = "look" => /\ Off(me[b].at) < L /\ Off(me[b].at) < L + 1
                                   /\ log'[Off(me[b].at) + 1] = log[Off(me[b].at) + 1]
          <5>1. me[b].pc = "look" => Off(me[b].at) < L /\ Off(me[b].at) + 1 \in 1 .. L
            BY <1>4, <3>0, <4>1 DEF LookerInv
          <5> QED
            BY <1>4, <1>7, <3>0, <5>1
        <4> QED
          BY <1>7, <3>1, <4>1, <4>2 DEF LookerInv, H
      <3>5. CountInv(b)'
        BY <2>1, <3>1 DEF AgentInv, CountInv, Exact, H
      <3> QED
        BY <3>2, <3>3, <3>4, <3>5 DEF AgentInv
    <2> QED
      BY <2>2, <2>3
  <1>21. ~Offering(p)'
    BY <1>1, <1>9 DEF Offering
  <1>22. \A b, c \in Agents : b # c => PairInv(b, c)'
    BY <1>1, <1>8, <1>9, <1>21, PairsKeep
  <1> QED
    BY <1>7, <1>10, <1>12, <1>16, <1>18, <1>19, <1>20, <1>22 DEF IInv, RingInv, Fits

(* tail counts the item of the only producer. *)
LEMMA OfferAdvanceKeeps == ASSUME IInv, NEW p \in Producers, OfferAdvance(p) PROVE IInv'
  <1>1. /\ me[p].pc = "advance" /\ me[p] \in Locals /\ p \in Agents
        /\ p \notin Consumers /\ p \notin Lookers /\ Fits /\ TypeOK /\ AgentInv(p)
        /\ UNCHANGED <<mode, team, head, seqno, guard, cell, unsent, log>>
        /\ tail' = Plus(tail, 1) /\ tail \in Numbers
        /\ Returns(p, <<me[p].item>>)
    BY DEF OfferAdvance, At, IInv, TypeOK, Agents, Fits
  <1>2. mode = "one" /\ Advancing
    BY <1>1 DEF AgentInv, ProducerInv, ProducerMany, TypeOK, Advancing, At
  <1>3. /\ H \in Int /\ T \in Int /\ L \in Int /\ 0 <= H /\ H <= T /\ T = L - 1 /\ L - H <= Slots
        /\ Slots \in Int /\ Slots >= 2 /\ L + Slots <= Modulus /\ Modulus \in Int
    BY <1>2, Order DEF IInv, RingInv, PosInv
  <1>4. T' = T + 1 /\ tail' \in Numbers
    <2>1. T + 1 < Modulus
      BY <1>3
    <2> QED
      BY <1>1, <2>1, OffPlus DEF T
  <1>5. <<me[p].item>> \in Answers
    BY <1>1, AnswerTypes DEF Locals
  <1>6. Idle \in Locals /\ Idle.pc = "idle" /\ ~Idle.sure
    BY <1>1, Constants DEF Idle, Locals, Numbers
  <1>7. /\ me' \in [Agents -> Locals] /\ (\A b \in Agents : b # p => me'[b] = me[b])
        /\ answer' \in [Agents -> Answers] /\ me'[p].pc = "idle" /\ ~me'[p].sure
    BY <1>1, <1>5, <1>6 DEF Returns, TypeOK
  <1>8. \A q \in Producers : q # p => me[q].pc = "idle"
    BY <1>1, <1>2, OneProducer
  <1>9. TypeOK'
    BY <1>1, <1>4, <1>7 DEF TypeOK
  <1>10. /\ ~Advancing' /\ Passed' = Passed /\ H' = H /\ L' = L
         /\ \A q \in Int : Sq(q)' = Sq(q) /\ Cell(q)' = Cell(q)
    BY <1>1, <1>7, <1>8 DEF Advancing, Passed, At, Agents, H, L, Sq, Cell
  <1>11. PosInv'
    BY <1>3, <1>4, <1>10 DEF PosInv
  <1>12. LogInv' /\ SeqInv' /\ CellInv'
    BY <1>1, <1>3, <1>10 DEF IInv, RingInv, LogInv, SeqInv, CellInv
  <1>13. GuardInv'
    BY <1>1, <1>7, GuardsKeep
  <1>14. ASSUME NEW b \in Agents PROVE AgentInv(b)'
    <2>1. AgentInv(b)
      BY DEF IInv
    <2>2. CASE b \in Producers
      <3>1. me'[b].pc = "idle" /\ b \notin Consumers /\ b \notin Lookers /\ ~me'[b].sure
        BY <1>1, <1>7, <1>8, <2>1, <2>2 DEF AgentInv, CountInv, Fits
      <3> QED
        BY <1>1, <1>2, <2>2, <3>1
           DEF AgentInv, ProducerInv, ProducerOne, CountInv, Owning, Offering
    <2>3. CASE b \notin Producers
      <3>1. me'[b] = me[b] /\ UNCHANGED <<mode, head, seqno, cell, unsent, log>>
        BY <1>1, <1>7, <2>3
      <3>2. ASSUME b \in Consumers PROVE ConsumerInv(b)'
        <4>1. ConsumerInv(b) /\ ConsumerOne(b)
          BY <1>2, <2>1, <3>2 DEF AgentInv, ConsumerInv
        <4>2. me[b].t \in Numbers
          BY <1>1 DEF TypeOK, Locals
        <4>3. Off(me[b].t) \in Int
          BY <1>1, <4>2, OffValue DEF Numbers
        <4>4. (H < T => H' < T') /\ (Off(me[b].t) <= T => Off(me[b].t) <= T')
          BY <1>3, <1>4, <1>10, <4>3
        <4>5. ConsumerOne(b)'
          BY <3>1, <4>1, <4>4 DEF ConsumerOne, H
        <4> QED
          BY <1>1, <1>2, <4>5 DEF ConsumerInv
      <3>3. ASSUME b \in Lookers PROVE LookerInv(b)'
        BY <2>1, <3>1, <3>3 DEF AgentInv, LookerInv, H, L
      <3>4. CountInv(b)'
        BY <2>1, <3>1 DEF AgentInv, CountInv, Exact, H
      <3> QED
        BY <2>3, <3>2, <3>3, <3>4 DEF AgentInv
    <2> QED
      BY <2>2, <2>3
  <1>15. ~Offering(p)'
    BY <1>1, <1>7 DEF Offering
  <1>16. \A b, c \in Agents : b # c => PairInv(b, c)'
    BY <1>1, <1>2, <1>7, <1>15, PairsKeep
  <1> QED
    BY <1>9, <1>11, <1>12, <1>13, <1>14, <1>16 DEF IInv, RingInv, Fits

(* When head moves on, a count that began before it does not confirm. *)
LEMMA CountsAge ==
    ASSUME IInv, NEW b \in Agents, H' = H + 1, me'[b] = me[b]
    PROVE  CountInv(b)' /\ Off(me[b].at) \in Int /\ (Off(me[b].at) <= H => me[b].at # head')
  <1>1. /\ Fits /\ me[b].at \in Numbers /\ H \in Int /\ CountInv(b)
    BY Order DEF IInv, TypeOK, Locals, AgentInv
  <1>2. Off(me[b].at) \in Int
    BY <1>1, OffValue DEF Numbers
  <1>3. Off(me[b].at) <= H => me[b].at # head' /\ Off(me[b].at) <= H'
    BY <1>1, <1>2 DEF H
  <1> QED
    BY <1>1, <1>2, <1>3 DEF CountInv, Exact

(* A consumer of many that finds head where it read it takes the position. *)
LEMMA TakeCasKeeps ==
    ASSUME IInv, NEW c \in Consumers, TakeCas(c), head = me[c].at
    PROVE  IInv'
  <1>1. /\ me[c].pc = "cas" /\ me[c] \in Locals /\ c \in Agents /\ head \in Numbers
        /\ c \notin Producers /\ c \notin Lookers /\ Fits /\ TypeOK /\ AgentInv(c)
        /\ UNCHANGED <<mode, team, tail, seqno, guard, cell, answer, unsent, log>>
        /\ head' = Plus(head, 1)
        /\ me' = [me EXCEPT ![c].pc = "read"]
    BY DEF TakeCas, At, IInv, TypeOK, Agents, Fits
  <1>2. /\ me' \in [Agents -> Locals] /\ (\A b \in Agents : b # c => me'[b] = me[b])
        /\ me'[c] = [me[c] EXCEPT !.pc = "read"]
    BY <1>1 DEF TypeOK, Locals
  <1>3. me'[c].pc = "read" /\ me'[c].at = me[c].at /\ me'[c].sure = me[c].sure
    BY <1>1, <1>2 DEF Locals
  <1>4. mode = "many" /\ H < T /\ seqno[Pos(head)] = Plus(head, 1)
    BY <1>1 DEF AgentInv, ConsumerInv, ConsumerOne, ConsumerMany, TypeOK
  <1>5. /\ H \in Int /\ T \in Int /\ L \in Int /\ 0 <= H /\ T = L /\ L - H <= Slots
        /\ Slots \in Int /\ Slots >= 2 /\ L + Slots <= Modulus /\ Modulus \in Int /\ Passed = H
    BY <1>4, Order
  <1>6. H' = H + 1 /\ head' \in Numbers
    <2>1. H + 1 < Modulus
      BY <1>4, <1>5
    <2> QED
      BY <1>1, <2>1, OffPlus DEF H
  <1>7. Sq(H) = H + 1
    <2>1. H + 1 < Modulus
      BY <1>4, <1>5
    <2> QED
      BY <1>1, <1>4, <2>1, SeqRead DEF H
  <1>8. TypeOK'
    BY <1>1, <1>2, <1>6 DEF TypeOK
  <1>9. /\ ~Advancing /\ ~Advancing' /\ Passed' = H + 1 /\ T' = T /\ L' = L
        /\ \A q \in Int : Sq(q)' = Sq(q) /\ Cell(q)' = Cell(q)
    BY <1>1, <1>4, <1>6 DEF Advancing, Passed, T, L, Sq, Cell
  <1>10. PosInv'
    BY <1>4, <1>5, <1>6, <1>9 DEF PosInv
  <1>11. LogInv' /\ CellInv'
    BY <1>1, <1>5, <1>9 DEF IInv, RingInv, LogInv, CellInv
  <1>12. SeqInv'
    <2>1. ASSUME NEW q \in L - Slots .. L - 1
          PROVE  /\ q >= H + 1 => Sq(q) = q + 1 \/ Sq(q) = q
                 /\ q <  H + 1 => Sq(q) = q + Slots \/ Sq(q) = q + 1
      <3>1. CASE q = H
        BY <1>5, <1>7, <3>1
      <3>2. CASE q # H
        <4>1. q >= H => Sq(q) = q + 1 \/ Sq(q) = q
          BY <1>5 DEF IInv, RingInv, SeqInv
        <4>2. q < H => Sq(q) = q + Slots \/ Sq(q) = q + 1
          BY <1>5 DEF IInv, RingInv, SeqInv
        <4>3. q \in Int
          BY <1>5
        <4> QED
          BY <1>5, <3>2, <4>1, <4>2, <4>3
      <3> QED
        BY <3>1, <3>2
    <2> QED
      BY <1>1, <1>4, <1>5, <1>9, <2>1 DEF SeqInv
  <1>13. GuardInv'
    BY <1>1, <1>2, <1>3, GuardsKeep
  <1>14. ASSUME NEW b \in Agents PROVE AgentInv(b)'
    <2>1. AgentInv(b)
      BY DEF IInv
    <2>2. CASE b = c
      <3>1. ConsumerMany(c)'
        BY <1>1, <1>3, <1>4, <1>5, <1>6, <1>9 DEF ConsumerMany, Taking, H
      <3> QED
        BY <1>1, <1>3, <1>4, <2>2, <3>1 DEF AgentInv, ConsumerInv, CountInv
    <2>3. CASE b # c
      <3>1. me'[b] = me[b] /\ UNCHANGED <<mode, tail, seqno, cell, unsent, log>>
        BY <1>1, <1>2, <2>3
      <3>2. /\ CountInv(b)' /\ Off(me[b].at) \in Int
            /\ Off(me[b].at) <= H => me[b].at # head' /\ Off(me[b].at) <= H'
        BY <1>5, <1>6, <3>1, CountsAge
      <3>3. ASSUME b \in Producers PROVE ProducerInv(b)'
        <4>1. ProducerInv(b) /\ ProducerMany(b)
          BY <1>4, <2>1, <3>3 DEF AgentInv, ProducerInv
        <4>2. Owning(b) => H' <= Off(me[b].at)
          <5>1. Owning(b) => H <= Off(me[b].at) /\ Sq(Off(me[b].at)) = Off(me[b].at)
            BY <1>4, <3>3, Owns
          <5> QED
            BY <1>5, <1>6, <1>7, <3>2, <5>1
        <4>3. ProducerMany(b)'
          BY <3>1, <4>1, <4>2 DEF ProducerMany, Owning, T
        <4> QED
          BY <1>4, <3>1, <4>1, <4>3 DEF ProducerInv, Offering, L
      <3>4. ASSUME b \in Consumers PROVE ConsumerInv(b)'
        <4>1. ConsumerMany(b)
          BY <1>4, <2>1, <3>4 DEF AgentInv, ConsumerInv
        <4>2. Taking(b) => Off(me[b].at) < H'
          BY <1>5, <1>6, <3>2, <4>1 DEF ConsumerMany
        <4>3. ConsumerMany(b)'
          BY <3>1, <3>2, <4>1, <4>2 DEF ConsumerMany, Taking, L
        <4> QED
          BY <1>4, <3>1, <4>3 DEF ConsumerInv
      <3>5. ASSUME b \in Lookers PROVE LookerInv(b)'
        BY <2>1, <3>1, <3>2, <3>5 DEF AgentInv, LookerInv, L
      <3> QED
        BY <3>2, <3>3, <3>4, <3>5 DEF AgentInv
    <2> QED
      BY <2>2, <2>3
  <1>15. ASSUME NEW b \in Agents, NEW d \in Agents, b # d PROVE PairInv(b, d)'
    <2>1. PairInv(b, d)
      BY <1>15 DEF IInv
    <2>2. CASE b # c /\ d # c
      BY <1>1, <1>2, <2>1, <2>2 DEF PairInv, Owning, Offering, Taking
    <2>3. ASSUME NEW e \in Consumers, e # c, Taking(e) PROVE me[e].at # head
      <3>1. e \in Agents
        BY DEF Agents
      <3>2. Off(me[e].at) < H
        BY <1>4, <2>3, <3>1 DEF IInv, AgentInv, ConsumerInv, ConsumerMany
      <3> QED
        BY <1>5, <3>2 DEF H
    <2>4. CASE b = c
      BY <1>1, <1>2, <1>3, <1>4, <1>15, <2>3, <2>4 DEF PairInv, Taking
    <2>5. CASE d = c
      BY <1>1, <1>2, <1>3, <1>4, <1>15, <2>3, <2>5 DEF PairInv, Taking
    <2> QED
      BY <2>2, <2>4, <2>5
  <1> QED
    BY <1>8, <1>10, <1>11, <1>12, <1>13, <1>14, <1>15 DEF IInv, RingInv, Fits

(* head passes the item of the only consumer, whose cell was given back. *)
LEMMA TakeAdvanceKeeps == ASSUME IInv, NEW c \in Consumers, TakeAdvance(c) PROVE IInv'
  <1>1. /\ me[c].pc = "advance" /\ me[c] \in Locals /\ c \in Agents /\ head \in Numbers
        /\ c \notin Producers /\ c \notin Lookers /\ Fits /\ TypeOK /\ AgentInv(c)
        /\ UNCHANGED <<mode, team, tail, seqno, guard, cell, answer, unsent, log>>
        /\ head' = Plus(head, 1)
        /\ me' = [me EXCEPT ![c].pc = "give"]
    BY DEF TakeAdvance, At, IInv, TypeOK, Agents, Fits
  <1>2. /\ me' \in [Agents -> Locals] /\ (\A b \in Agents : b # c => me'[b] = me[b])
        /\ me'[c] = [me[c] EXCEPT !.pc = "give"]
    BY <1>1 DEF TypeOK, Locals
  <1>3. me'[c].pc = "give" /\ me'[c].at = me[c].at /\ me'[c].item = me[c].item
    BY <1>1, <1>2 DEF Locals
  <1>4. /\ mode = "one" /\ H < T /\ me[c].at = head /\ me[c].item = log[Off(me[c].at) + 1]
    BY <1>1 DEF AgentInv, ConsumerInv, ConsumerOne, ConsumerMany, TypeOK
  <1>5. /\ H \in Int /\ T \in Int /\ L \in Int /\ 0 <= H /\ T <= L /\ L - H <= Slots
        /\ Slots \in Int /\ Slots >= 2 /\ L + Slots <= Modulus /\ Modulus \in Int
        /\ Passed = H + 1 /\ \A d \in Consumers : d # c => me[d].pc = "idle"
    BY <1>1, <1>4, Order, OneConsumer
  <1>6. H' = H + 1 /\ head' \in Numbers
    <2>1. H + 1 < Modulus
      BY <1>4, <1>5
    <2> QED
      BY <1>1, <2>1, OffPlus DEF H
  <1>7. TypeOK'
    BY <1>1, <1>2, <1>6 DEF TypeOK
  <1>8. /\ (Advancing' <=> Advancing) /\ Passed' = H + 1 /\ T' = T /\ L' = L
        /\ \A q \in Int : Sq(q)' = Sq(q) /\ Cell(q)' = Cell(q)
    <2>1. \A d \in Consumers : ~At(d, "advance")'
      BY <1>2, <1>3, <1>5 DEF At, Agents
    <2> QED
      BY <1>1, <1>2, <1>3, <1>6, <2>1 DEF Advancing, Passed, At, Agents, T, L, Sq, Cell
  <1>9. PosInv'
    BY <1>4, <1>5, <1>6, <1>8 DEF IInv, RingInv, PosInv
  <1>10. LogInv' /\ CellInv' /\ SeqInv'
    BY <1>1, <1>5, <1>8 DEF IInv, RingInv, LogInv, CellInv, SeqInv
  <1>11. GuardInv'
    BY <1>1, <1>2, <1>3, GuardsKeep
  <1>12. ASSUME NEW b \in Agents PROVE AgentInv(b)'
    <2>1. AgentInv(b)
      BY DEF IInv
    <2>2. CASE b = c
      <3>1. Off(me[c].at) + 1 = H'
        BY <1>4, <1>6 DEF H
      <3>2. ConsumerOne(c)'
        BY <1>1, <1>3, <1>4, <3>1 DEF ConsumerOne
      <3> QED
        BY <1>1, <1>3, <1>4, <2>2, <3>2 DEF AgentInv, ConsumerInv, CountInv
    <2>3. CASE b # c
      <3>1. me'[b] = me[b] /\ UNCHANGED <<mode, tail, seqno, cell, unsent, log>>
        BY <1>1, <1>2, <2>3
      <3>2. /\ CountInv(b)' /\ Off(me[b].at) \in Int
            /\ Off(me[b].at) <= H => Off(me[b].at) <= H'
        BY <1>5, <1>6, <3>1, CountsAge
      <3>3. ASSUME b \in Producers PROVE ProducerInv(b)'
        <4>1. ProducerInv(b) /\ ProducerOne(b)
          BY <1>4, <2>1, <3>3 DEF AgentInv, ProducerInv
        <4>2. Owning(b) => L' - H' < Slots
          BY <1>5, <1>6, <1>8, <4>1 DEF ProducerOne
        <4>3. ProducerOne(b)'
          BY <3>1, <4>1, <4>2 DEF ProducerOne, Owning
        <4> QED
          BY <1>4, <3>1, <4>1, <4>3 DEF ProducerInv, Offering, L
      <3>4. ASSUME b \in Consumers PROVE ConsumerInv(b)'
        <4>1. me'[b].pc = "idle"
          BY <1>5, <2>3, <3>1, <3>4
        <4> QED
          BY <1>4, <3>1, <4>1 DEF ConsumerInv, ConsumerOne
      <3>5. ASSUME b \in Lookers PROVE LookerInv(b)'
        BY <2>1, <3>1, <3>2, <3>5 DEF AgentInv, LookerInv, L
      <3> QED
        BY <3>2, <3>3, <3>4, <3>5 DEF AgentInv
    <2> QED
      BY <2>2, <2>3
  <1>13. \A b, d \in Agents : b # d => PairInv(b, d)'
    BY <1>1, <1>2, <1>4, PairsKeep
  <1> QED
    BY <1>7, <1>9, <1>10, <1>11, <1>12, <1>13 DEF IInv, RingInv, Fits

(* A consumer gives back the cell of an item it took, which is published. *)
LEMMA Recycles ==
    ASSUME IInv, NEW c \in Consumers, me[c].pc = "recycle", NEW x \in Numbers, x = me[c].at,
           UNCHANGED <<mode, head, tail, log>>,
           seqno' = [seqno EXCEPT ![Pos(x)] = Plus(x, Slots)]
    PROVE  /\ seqno' \in [Index -> Numbers] /\ Pos(x) \in Index
           /\ Off(x) \in L - Slots .. L - 1 /\ Sq(Off(x)) = Off(x) + 1 /\ 0 <= Off(x)
           /\ \A q \in Int : q # Off(x) /\ q < Off(x) + Slots /\ Off(x) < q + Slots
                                => Sq(q)' = Sq(q)
           /\ \A q \in Int : q = Off(x) => Sq(q)' = q + Slots
           /\ \A y \in Numbers : seqno[Pos(y)] = y => seqno'[Pos(y)] = y
  <1>1. /\ Slots \in Nat /\ Slots >= 2 /\ L \in Int /\ L + Slots <= Modulus /\ Modulus \in Int
        /\ Fits /\ TypeOK
    BY Order DEF IInv
  <1>2. PICK o \in Int : o = Off(x)
    BY ReadsItem
  <1>3. /\ L - Slots <= o /\ o < L /\ 0 <= o /\ Sq(o) = o + 1 /\ Pos(x) = Cell(o)
        /\ Pos(x) \in Index
    BY <1>1, <1>2, ReadsItem, PosCell
  <1>4. o + Slots < Modulus
    BY <1>1, <1>3
  <1>5. /\ seqno' \in [Index -> Numbers]
        /\ \A q \in Int : Cell(q) = Cell(o) => Sq(q)' = o + Slots
        /\ \A q \in Int : Cell(q) # Cell(o) => Sq(q)' = Sq(q)
    BY <1>1, <1>2, <1>3, <1>4, SeqWrite
  <1>6. ASSUME NEW q \in Int, q # o, q < o + Slots, o < q + Slots PROVE Sq(q)' = Sq(q)
    <2>1. q < o \/ o < q
      BY <1>6
    <2>2. Cell(q) # Cell(o)
      BY <1>1, <1>6, <2>1, CellApart
    <2> QED
      BY <1>5, <2>2
  <1>7. ASSUME NEW y \in Numbers, seqno[Pos(y)] = y PROVE seqno'[Pos(y)] = y
    <2>1. PICK z \in Int : z = Off(y)
      BY <1>1, OffValue DEF Numbers
    <2>2. Sq(z) = z /\ Pos(y) = Cell(z) /\ Pos(y) \in Index
      BY <1>1, <1>7, <2>1, SeqRead, PosCell
    <2>3. Cell(z) # Cell(o)
      <3>1. SUFFICES ASSUME Cell(z) = Cell(o) PROVE FALSE
        OBVIOUS
      <3>2. z = o + 1
        BY <1>3, <2>2, <3>1 DEF Sq
      <3> QED
        BY <1>1, <3>1, <3>2, CellApart
    <2> QED
      BY <1>1, <1>3, <1>7, <2>2, <2>3 DEF TypeOK
  <1> QED
    BY <1>1, <1>2, <1>3, <1>5, <1>6, <1>7

(* A consumer of many gives back the cell it took. *)
LEMMA TakeRecycleMany ==
    ASSUME IInv, NEW c \in Consumers, TakeRecycle(c), mode = "many"
    PROVE  IInv'
  <1>1. /\ me[c].pc = "recycle" /\ me[c] \in Locals /\ c \in Agents /\ Taking(c)
        /\ c \notin Producers /\ c \notin Lookers /\ Fits /\ TypeOK /\ AgentInv(c)
        /\ UNCHANGED <<mode, team, head, tail, guard, cell, unsent, log>>
        /\ seqno' = [seqno EXCEPT ![Pos(me[c].at)] = Plus(me[c].at, Slots)]
        /\ Returns(c, <<me[c].item>>)
    BY DEF TakeRecycle, At, IInv, TypeOK, Agents, Fits, Taking
  <1>2. PICK x \in Numbers : x = me[c].at
    BY <1>1 DEF Locals
  <1>3. /\ seqno' \in [Index -> Numbers] /\ Pos(x) \in Index
        /\ Off(x) \in L - Slots .. L - 1 /\ Sq(Off(x)) = Off(x) + 1
        /\ \A q \in Int : q # Off(x) /\ q < Off(x) + Slots /\ Off(x) < q + Slots => Sq(q)' = Sq(q)
        /\ \A q \in Int : q = Off(x) => Sq(q)' = q + Slots
        /\ \A y \in Numbers : seqno[Pos(y)] = y => seqno'[Pos(y)] = y
    BY <1>1, <1>2, Recycles
  <1>4. /\ H \in Int /\ T \in Int /\ L \in Int /\ 0 <= H /\ H <= T /\ T = L /\ L - H <= Slots
        /\ Slots \in Int /\ Slots >= 2 /\ L + Slots <= Modulus /\ Modulus \in Int /\ Passed = H
    BY Order
  <1>5. /\ L - Slots <= Off(x) /\ Off(x) < H
        /\ seqno[Pos(x)] = Plus(x, 1)
    BY <1>1, <1>2 DEF AgentInv, ConsumerInv, ConsumerMany
  <1>6. <<me[c].item>> \in Answers
    BY <1>1, AnswerTypes DEF Locals
  <1>7. Idle \in Locals /\ Idle.pc = "idle" /\ ~Idle.sure
    BY <1>1, Constants DEF Idle, Locals, Numbers
  <1>8. /\ me' \in [Agents -> Locals] /\ (\A b \in Agents : b # c => me'[b] = me[b])
        /\ answer' \in [Agents -> Answers] /\ me'[c].pc = "idle" /\ ~me'[c].sure
    BY <1>1, <1>6, <1>7 DEF Returns, TypeOK
  <1>9. TypeOK'
    BY <1>1, <1>3, <1>8 DEF TypeOK
  <1>10. /\ ~Advancing /\ ~Advancing' /\ Passed' = H /\ H' = H /\ T' = T /\ L' = L
         /\ \A q \in Int : Cell(q)' = Cell(q)
    BY <1>1 DEF Advancing, Passed, H, T, L, Cell
  <1>11. PosInv' /\ LogInv'
    BY <1>1, <1>4, <1>10 DEF IInv, RingInv, PosInv, LogInv
  <1>12. ASSUME NEW q \in L - Slots .. L - 1
         PROVE  q \in Int /\ (q # Off(x) => Sq(q)' = Sq(q)) /\ (q = Off(x) => Sq(q)' = q + Slots)
    <2>1. q \in Int /\ q < Off(x) + Slots /\ Off(x) < q + Slots
      BY <1>3, <1>4, <1>12
    <2> QED
      BY <1>3, <2>1
  <1>13. SeqInv'
    <2>1. ASSUME NEW q \in L - Slots .. L - 1
          PROVE  /\ q >= H => Sq(q)' = q + 1 \/ Sq(q)' = q
                 /\ q <  H => Sq(q)' = q + Slots \/ Sq(q)' = q + 1
      <3>1. CASE q = Off(x)
        BY <1>4, <1>5, <1>12, <3>1
      <3>2. CASE q # Off(x)
        BY <1>4, <1>12, <3>2 DEF IInv, RingInv, SeqInv
      <3> QED
        BY <3>1, <3>2
    <2> QED
      BY <1>1, <1>4, <1>10, <2>1 DEF SeqInv
  <1>14. CellInv'
    <2>1. ASSUME NEW q \in L - Slots .. L - 1, q >= 0, Sq(q)' = q + 1
          PROVE  cell[Cell(q)] = log[q + 1]
      <3>1. q # Off(x)
        BY <1>4, <1>12, <2>1
      <3> QED
        BY <1>12, <2>1, <3>1 DEF IInv, RingInv, CellInv
    <2> QED
      BY <1>1, <1>4, <1>10, <2>1 DEF CellInv
  <1>15. GuardInv'
    BY <1>1, <1>8, GuardsKeep
  <1>16. ASSUME NEW y \in Numbers, seqno[Pos(y)] = Plus(y, 1), Off(y) <= H, y # x,
                L - Slots <= Off(y)
         PROVE  seqno'[Pos(y)] = Plus(y, 1)
    <2>1. Off(y) \in Int /\ Off(x) \in Int /\ Off(x) # Off(y) /\ Pos(y) \in Index
      BY <1>1, <1>16, OffValue, OffInjective, PosCell DEF Numbers
    <2>2. Off(x) < Off(y) + Slots
      BY <1>4, <1>5, <1>16, <2>1
    <2>3. Off(y) < Off(x) + Slots
      <3>1. Off(y) < L
        BY <1>1, <1>4, <1>16, <2>1, PublishedIsRecent
      <3> QED
        BY <1>4, <1>5, <2>1, <3>1
    <2>4. Pos(x) # Pos(y)
      BY <1>1, <2>1, <2>2, <2>3, PosApart
    <2> QED
      BY <1>1, <1>2, <1>16, <2>1, <2>4 DEF TypeOK
  <1>17. ASSUME NEW b \in Agents PROVE AgentInv(b)'
    <2>1. AgentInv(b) /\ me[b] \in Locals /\ me[b].at \in Numbers
      BY <1>1 DEF IInv, TypeOK, Locals
    <2>2. CASE b = c
      BY <1>1, <1>8, <2>2 DEF AgentInv, ConsumerInv, ConsumerMany, CountInv, Taking
    <2>3. CASE b # c
      <3>1. me'[b] = me[b] /\ UNCHANGED <<mode, head, tail, cell, unsent, log>>
        BY <1>1, <1>8, <2>3
      <3>2. ASSUME b \in Producers PROVE ProducerInv(b)'
        <4>1. ProducerInv(b) /\ ProducerMany(b)
          BY <2>1, <3>2 DEF AgentInv, ProducerInv
        <4>2. (Owning(b) => seqno'[Pos(me[b].at)] = me[b].at)
              /\ (seqno[Pos(tail)] = tail => seqno'[Pos(tail)] = tail)
          BY <1>1, <1>3, <2>1, <4>1 DEF ProducerMany, TypeOK
        <4>3. ProducerMany(b)'
          BY <3>1, <4>1, <4>2 DEF ProducerMany, Owning, H, T
        <4> QED
          BY <1>1, <3>1, <4>1, <4>3 DEF ProducerInv, Offering, L
      <3>3. ASSUME b \in Consumers PROVE ConsumerInv(b)'
        <4>1. ConsumerInv(b) /\ ConsumerMany(b)
          BY <2>1, <3>3 DEF AgentInv, ConsumerInv
        <4>2. seqno[Pos(head)] = Plus(head, 1) => seqno'[Pos(head)] = Plus(head, 1)
          <5>1. head \in Numbers /\ Off(head) = H /\ head # x /\ L - Slots <= H
            BY <1>1, <1>4, <1>5 DEF TypeOK, H
          <5> QED
            BY <1>4, <1>16, <5>1
        <4>3. Taking(b) => seqno'[Pos(me[b].at)] = Plus(me[b].at, 1)
          <5>1. Taking(b) => /\ seqno[Pos(me[b].at)] = Plus(me[b].at, 1)
                             /\ L - Slots <= Off(me[b].at) /\ Off(me[b].at) < H
            BY <4>1 DEF ConsumerMany
          <5>2. Taking(b) => me[b].at # x
            BY <1>1, <1>2, <2>3, <3>3 DEF IInv, PairInv
          <5>3. Off(me[b].at) \in Int
            BY <1>1, <2>1, OffValue DEF Numbers
          <5>4. Taking(b) => Off(me[b].at) <= H
            BY <1>4, <5>1, <5>3
          <5> QED
            BY <1>16, <2>1, <5>1, <5>2, <5>4
        <4>4. ConsumerMany(b)'
          BY <3>1, <4>1, <4>2, <4>3 DEF ConsumerMany, Taking, H, T, L
        <4> QED
          BY <1>1, <4>4 DEF ConsumerInv
      <3>4. ASSUME b \in Lookers PROVE LookerInv(b)'
        BY <2>1, <3>1, <3>4 DEF AgentInv, LookerInv, H, L
      <3>5. CountInv(b)'
        BY <2>1, <3>1 DEF AgentInv, CountInv, Exact, H
      <3> QED
        BY <3>2, <3>3, <3>4, <3>5 DEF AgentInv
    <2> QED
      BY <2>2, <2>3
  <1>18. ~Taking(c)'
    BY <1>8 DEF Taking
  <1>19. \A b, d \in Agents : b # d => PairInv(b, d)'
    BY <1>1, <1>8, <1>18, PairsKeep
  <1> QED
    BY <1>9, <1>11, <1>13, <1>14, <1>15, <1>17, <1>19 DEF IInv, RingInv, Fits

(* The only consumer gives back the cell at head, a step before head moves on. *)
LEMMA TakeRecycleOne ==
    ASSUME IInv, NEW c \in Consumers, TakeRecycle(c), mode = "one"
    PROVE  IInv'
  <1>1. /\ me[c].pc = "recycle" /\ me[c] \in Locals /\ c \in Agents
        /\ c \notin Producers /\ c \notin Lookers /\ Fits /\ TypeOK /\ AgentInv(c)
        /\ UNCHANGED <<mode, team, head, tail, guard, cell, answer, unsent, log>>
        /\ seqno' = [seqno EXCEPT ![Pos(me[c].at)] = Plus(me[c].at, Slots)]
        /\ me' = [me EXCEPT ![c].pc = "advance"]
    BY DEF TakeRecycle, At, IInv, TypeOK, Agents, Fits
  <1>2. PICK x \in Numbers : x = me[c].at
    BY <1>1 DEF Locals
  <1>3. me[c].at = head /\ H < T /\ me[c].item = log[Off(me[c].at) + 1] /\ Off(x) = H
    BY <1>1, <1>2 DEF AgentInv, ConsumerInv, ConsumerOne, H
  <1>4. /\ H \in Int /\ T \in Int /\ L \in Int /\ 0 <= H /\ T <= L /\ L - H <= Slots
        /\ Slots \in Int /\ Slots >= 2 /\ L + Slots <= Modulus /\ Modulus \in Int
        /\ Passed = H /\ \A d \in Consumers : d # c => me[d].pc = "idle"
    BY <1>1, Order, OneConsumer
  <1>5. /\ seqno' \in [Index -> Numbers]
        /\ \A q \in Int : q # H /\ q < H + Slots /\ H < q + Slots => Sq(q)' = Sq(q)
        /\ \A q \in Int : q = H => Sq(q)' = q + Slots
    BY <1>1, <1>2, <1>3, Recycles
  <1>6. /\ me' \in [Agents -> Locals] /\ (\A b \in Agents : b # c => me'[b] = me[b])
        /\ me'[c] = [me[c] EXCEPT !.pc = "advance"]
    BY <1>1 DEF TypeOK, Locals
  <1>7. me'[c].pc = "advance" /\ me'[c].at = me[c].at /\ me'[c].item = me[c].item
    BY <1>1, <1>6 DEF Locals
  <1>8. TypeOK'
    BY <1>1, <1>5, <1>6 DEF TypeOK
  <1>9. /\ (Advancing' <=> Advancing) /\ Passed' = H + 1 /\ H' = H /\ T' = T /\ L' = L
        /\ \A q \in Int : Cell(q)' = Cell(q)
    <2>1. At(c, "advance")'
      BY <1>7 DEF At
    <2> QED
      BY <1>1, <1>6, <1>7, <2>1 DEF Advancing, Passed, At, Agents, H, T, L, Cell
  <1>10. PosInv' /\ LogInv'
    BY <1>1, <1>4, <1>9 DEF IInv, RingInv, PosInv, LogInv
  <1>11. ASSUME NEW q \in L - Slots .. L - 1
         PROVE  q \in Int /\ (q # H => Sq(q)' = Sq(q)) /\ (q = H => Sq(q)' = q + Slots)
    <2>1. q \in Int /\ q < H + Slots /\ H < q + Slots
      BY <1>3, <1>4, <1>11
    <2> QED
      BY <1>5, <2>1
  <1>12. SeqInv'
    <2>1. ASSUME NEW q \in L - Slots .. L - 1
          PROVE  /\ q >= H + 1 => Sq(q)' = q + 1
                 /\ q <  H + 1 => Sq(q)' = q + Slots
      <3>1. CASE q = H
        BY <1>4, <1>11, <3>1
      <3>2. CASE q # H
        <4>1. /\ q >= H => Sq(q) = q + 1
              /\ q <  H => Sq(q) = q + Slots
          BY <1>1, <1>4 DEF IInv, RingInv, SeqInv
        <4> QED
          BY <1>4, <1>11, <3>2, <4>1
      <3> QED
        BY <3>1, <3>2
    <2> QED
      BY <1>1, <1>4, <1>9, <2>1 DEF SeqInv
  <1>13. CellInv'
    <2>1. ASSUME NEW q \in L - Slots .. L - 1, q >= 0, Sq(q)' = q + 1
          PROVE  cell[Cell(q)] = log[q + 1]
      <3>1. q # H
        BY <1>4, <1>11, <2>1
      <3> QED
        BY <1>11, <2>1, <3>1 DEF IInv, RingInv, CellInv
    <2> QED
      BY <1>1, <1>4, <1>9, <2>1 DEF CellInv
  <1>14. GuardInv'
    BY <1>1, <1>6, <1>7, GuardsKeep
  <1>15. ASSUME NEW b \in Agents PROVE AgentInv(b)'
    <2>1. AgentInv(b)
      BY DEF IInv
    <2>2. CASE b = c
      <3>1. ConsumerOne(c)'
        BY <1>1, <1>3, <1>7, <1>9 DEF ConsumerOne, H
      <3> QED
        BY <1>1, <1>7, <2>2, <3>1 DEF AgentInv, ConsumerInv, CountInv
    <2>3. CASE b # c
      <3>1. me'[b] = me[b] /\ UNCHANGED <<mode, head, tail, cell, unsent, log>>
        BY <1>1, <1>6, <2>3
      <3>2. ASSUME b \in Producers PROVE ProducerInv(b)'
        BY <1>1, <2>1, <3>1, <3>2 DEF AgentInv, ProducerInv, ProducerOne, Offering, Owning, H, L
      <3>3. ASSUME b \in Consumers PROVE ConsumerInv(b)'
        <4>1. me'[b].pc = "idle"
          BY <1>4, <2>3, <3>1, <3>3
        <4> QED
          BY <1>1, <3>1, <4>1 DEF ConsumerInv, ConsumerOne
      <3>4. ASSUME b \in Lookers PROVE LookerInv(b)'
        BY <2>1, <3>1, <3>4 DEF AgentInv, LookerInv, H, L
      <3>5. CountInv(b)'
        BY <2>1, <3>1 DEF AgentInv, CountInv, Exact, H
      <3> QED
        BY <3>2, <3>3, <3>4, <3>5 DEF AgentInv
    <2> QED
      BY <2>2, <2>3
  <1>16. \A b, d \in Agents : b # d => PairInv(b, d)'
    BY <1>1, <1>6, <1>7, PairsKeep
  <1> QED
    BY <1>8, <1>10, <1>12, <1>13, <1>14, <1>15, <1>16 DEF IInv, RingInv, Fits

-----------------------------------------------------------------------------
(* The invariant, and what the runs check. *)

(* A step of a call of ring_queue_count keeps the invariant. *)
LEMMA CountStepKeeps == ASSUME IInv, NEW a \in Agents, CountStep(a) PROVE IInv'
  <1>1. CASE CountAgain(a)
    BY <1>1, CountConfirmedKeeps, CountMovedKeeps
  <1> QED
    BY <1>1, CountHeadKeeps, CountTailKeeps DEF CountStep

(* A step of a push keeps the invariant. *)
LEMMA OfferStepKeeps == ASSUME IInv, NEW p \in Producers, OfferStep(p) PROVE IInv'
  <1>0. p \in Agents /\ mode \in {"one", "many", "broken"} /\ AgentInv(p)
    BY DEF Agents, IInv, TypeOK
  <1>1. CASE \E i \in Items : Offer(p, i) \/ OfferBroken(p, i)
    BY <1>1, OfferKeeps, OfferBrokenKeeps
  <1>2. CASE OfferCas(p)
    BY <1>2, OfferCasKeeps, OfferMissedKeeps
  <1>3. CASE OfferPublish(p)
    <2>1. mode \in {"one", "many"}
      BY <1>0, <1>3 DEF AgentInv, ProducerInv, OfferPublish, At
    <2> QED
      BY <1>3, <2>1, OfferPublishOne, OfferPublishMany
  <1> QED
    BY <1>0, <1>1, <1>2, <1>3, CountStepKeeps, OfferCountedKeeps, OfferTailKeeps, OfferSeqKeeps,
       OfferLockKeeps, OfferWriteKeeps, OfferAdvanceKeeps DEF OfferStep

(* A step of a pop keeps the invariant. *)
LEMMA TakeStepKeeps == ASSUME IInv, NEW c \in Consumers, TakeStep(c) PROVE IInv'
  <1>0. c \in Agents /\ mode \in {"one", "many", "broken"} /\ AgentInv(c)
    BY DEF Agents, IInv, TypeOK
  <1>1. CASE TakeCas(c)
    BY <1>1, TakeCasKeeps, TakeMissedKeeps
  <1>2. CASE TakeRecycle(c)
    <2>1. mode \in {"one", "many"}
      BY <1>0, <1>2 DEF AgentInv, ConsumerInv, TakeRecycle, At
    <2> QED
      BY <1>2, <2>1, TakeRecycleOne, TakeRecycleMany
  <1> QED
    BY <1>0, <1>1, <1>2, CountStepKeeps, TakeKeeps, TakeCountedKeeps, TakeHeadKeeps, TakeSeqKeeps,
       TakeReadKeeps, TakeAdvanceKeeps, TakeGiveKeeps DEF TakeStep

(* A step of a peek, or of a count for its own sake, keeps the invariant. *)
LEMMA LookStepKeeps == ASSUME IInv, NEW k \in Lookers, LookStep(k) PROVE IInv'
  <1>0. k \in Agents
    BY DEF Agents
  <1>1. CASE LookLock(k)
    BY <1>1, LookLockKeeps, LookRefusedKeeps
  <1> QED
    BY <1>0, <1>1, CountStepKeeps, LookCountKeeps, LookCountedKeeps, LookKeeps, LookSeqKeeps,
       LookRecheckKeeps, LookReseqKeeps, LookUnlockKeeps, LookCopyKeeps DEF LookStep

(* So does a step in which the ring stands still. *)
LEMMA StandStillKeeps == ASSUME IInv, UNCHANGED vars PROVE IInv'
  <1>1. UNCHANGED <<mode, team, head, tail, seqno, guard, cell, me, answer, unsent, log>>
    BY DEF vars, shared
  <1>2. TypeOK' /\ RingInv' /\ GuardInv'
    <2>1. TypeOK'
      BY <1>1 DEF IInv, TypeOK
    <2>2. RingInv'
      BY <1>1 DEF IInv, RingInv, PosInv, LogInv, SeqInv, CellInv, Advancing, Passed, H, T, L, Sq, At
    <2>3. GuardInv'
      BY <1>1 DEF IInv, GuardInv, Writing, Holders, Holding, At
    <2> QED
      BY <2>1, <2>2, <2>3
  <1>3. ASSUME NEW b \in Agents PROVE AgentInv(b)'
    <2>1. me'[b] = me[b] /\ AgentInv(b)
      BY <1>1 DEF IInv
    <2> QED
      BY <1>1, <2>1, OthersKeep
  <1>4. \A b, c \in Agents : b # c => PairInv(b, c)'
    BY <1>1 DEF IInv, PairInv, Owning, Offering, Taking
  <1> QED
    BY <1>2, <1>3, <1>4 DEF IInv, Fits

(* Every step keeps the invariant. *)
LEMMA NextKeeps == IInv /\ [Next]_vars => IInv'
  <1> SUFFICES ASSUME IInv, [Next]_vars PROVE IInv'
    OBVIOUS
  <1>1. CASE Next
    BY <1>1, OfferStepKeeps, TakeStepKeeps, LookStepKeeps DEF Next
  <1>2. CASE UNCHANGED vars
    BY <1>2, StandStillKeeps
  <1> QED
    BY <1>1, <1>2

(* The ring keeps its invariant from ring_queue_init on. *)
THEOREM RingHolds == Fits => (Spec => []IInv)
  <1>1. Fits /\ Init => IInv
    BY InitInv
  <1>2. IInv /\ [Next]_vars => IInv'
    BY NextKeeps
  <1> QED
    BY <1>1, <1>2, PTL DEF Spec

(* ring_queue_count, once head has been read twice the same, is exact. *)
LEMMA CountIsTrue == IInv => CountWasTrue
  <1> SUFFICES ASSUME IInv, NEW a \in Agents, At(a, "counted"), me[a].sure
               PROVE  Count(a) = me[a].truth
    BY DEF CountWasTrue
  <1>1. me[a].truth = Minus(me[a].t, me[a].at) /\ me[a].truth <= Slots
    BY DEF IInv, AgentInv, CountInv, Exact, At
  <1>2. /\ Minus(me[a].t, me[a].at) \in Nat /\ Slots \in Int
        /\ Count(a) = IF Minus(me[a].t, me[a].at) > Slots THEN Slots ELSE Minus(me[a].t, me[a].at)
    BY CountValue, Order
  <1> QED
    BY <1>1, <1>2

(* A confirmed count is what was in the ring when its call read tail, for any *)
(* capacity, wherever the counters start and wrap.                            *)
THEOREM CountsAreTrue == Fits => (Spec => []CountWasTrue)
  <1>1. IInv => CountWasTrue
    BY CountIsTrue
  <1> QED
    BY <1>1, RingHolds, PTL

(* The step that ends a peek hands over the item of its position. *)
LEMMA PeekGives ==
    ASSUME IInv, [Next]_vars, NEW k \in Lookers, At(k, "look"), me'[k].pc = "idle"
    PROVE  answer'[k] = <<Entered(me[k].at)>>
  <1>1. /\ me[k].pc = "look" /\ k \in Agents /\ k \notin Producers /\ k \notin Consumers
        /\ answer \in [Agents -> Answers]
    BY DEF At, IInv, TypeOK, Agents, Fits
  <1>2. cell[Pos(me[k].at)] = log[Off(me[k].at) + 1]
    BY <1>1 DEF IInv, AgentInv, LookerInv
  <1>3. me' # me
    BY <1>1
  <1>4. LookStep(k)
    <2>1. ASSUME NEW p \in Producers, OfferStep(p) PROVE me'[k] = me[k]
      <3>1. p # k /\ p \in Agents /\ me \in [Agents -> Locals]
        BY <1>1 DEF Agents, IInv, TypeOK
      <3> QED
        BY <1>1, <2>1, <3>1
           DEF OfferStep, Offer, OfferBroken, CountStep, CountHead, CountTail, CountAgain,
               OfferCounted, OfferTail, OfferSeq, OfferCas, OfferLock, OfferWrite, OfferPublish,
               OfferAdvance, Local, Returns
    <2>2. ASSUME NEW c \in Consumers, TakeStep(c) PROVE me'[k] = me[k]
      <3>1. c # k /\ c \in Agents /\ me \in [Agents -> Locals]
        BY <1>1 DEF Agents, IInv, TypeOK
      <3> QED
        BY <1>1, <2>2, <3>1
           DEF TakeStep, Take, CountStep, CountHead, CountTail, CountAgain, TakeCounted, TakeHead,
               TakeSeq, TakeCas, TakeRead, TakeRecycle, TakeAdvance, TakeGive, Local, Returns
    <2>3. ASSUME NEW j \in Lookers, LookStep(j), j # k PROVE me'[k] = me[k]
      <3>1. j \in Agents /\ me \in [Agents -> Locals]
        BY DEF Agents, IInv, TypeOK
      <3> QED
        BY <1>1, <2>3, <3>1
           DEF LookStep, LookCount, CountStep, CountHead, CountTail, CountAgain, LookCounted, Look,
               LookSeq, LookLock, LookRecheck, LookReseq, LookUnlock, LookCopy, Retry, Local, Returns
    <2> QED
      BY <1>1, <1>3, <2>1, <2>2, <2>3 DEF Next, vars
  <1>5. LookCopy(k)
    BY <1>1, <1>4
       DEF LookStep, LookCount, CountStep, CountHead, CountTail, CountAgain, LookCounted, Look,
           LookSeq, LookLock, LookRecheck, LookReseq, LookUnlock, At
  <1> QED
    BY <1>1, <1>2, <1>5 DEF LookCopy, Returns, Entered, Off

(* A peek that succeeds hands over the item of the position that was head when *)
(* it was checked under the guard.                                            *)
THEOREM PeeksAreTheItem == Fits => (Spec => PeekIsTheItem)
  <1> DEFINE Peeks == \A k \in Lookers : (At(k, "look") /\ me'[k].pc = "idle") =>
                          answer'[k] = <<Entered(me[k].at)>>
  <1>1. IInv /\ [Next]_vars => [Peeks]_vars
    BY PeekGives
  <1> QED
    BY <1>1, RingHolds, PTL DEF Spec, PeekIsTheItem

(* With two cells or more the many-producer ring is bounded: the wrapping     *)
(* difference of tail and head never exceeds the number of cells.             *)
THEOREM RingIsBounded == Fits => (Spec => []Bounded)
  <1>1. IInv => Bounded
    <2> SUFFICES ASSUME IInv PROVE Bounded
      OBVIOUS
    <2>1. /\ H \in Int /\ T \in Int /\ L \in Int /\ H <= T /\ T <= L /\ L - H <= Slots
          /\ Slots \in Int /\ head \in Numbers /\ tail \in Numbers /\ Fits
      BY Order DEF IInv, TypeOK
    <2>2. Minus(tail, head) = T - H
      BY <2>1, MinusValue DEF H, T
    <2> QED
      BY <2>1, <2>2 DEF Bounded
  <1> QED
    BY <1>1, RingHolds, PTL

-----------------------------------------------------------------------------
(* The ring implements the FIFO. *)

(* What follows a position of a sequence that grows. *)
LEMMA RestGrows ==
    ASSUME NEW S, NEW s \in Seq(S), NEW i \in S, NEW h \in Nat, h <= Len(s)
    PROVE  SubSeq(Append(s, i), h + 1, Len(s) + 1) = Append(SubSeq(s, h + 1, Len(s)), i)
  <1> DEFINE n == Len(s)
             t == Append(s, i)
             q == SubSeq(s, h + 1, n)
             r == SubSeq(t, h + 1, n + 1)
  <1>1. n \in Nat /\ h <= n
    OBVIOUS
  <1>2. t \in Seq(S) /\ Len(t) = n + 1 /\ (\A j \in 1 .. n : t[j] = s[j]) /\ t[n + 1] = i
    BY AppendProperties
  <1>3. (\A j \in h + 1 .. n : s[j] \in S) /\ \A j \in h + 1 .. n + 1 : t[j] \in S
    <2>1. \A j \in h + 1 .. n : j \in 1 .. n
      BY <1>1
    <2>2. \A j \in h + 1 .. n + 1 : j \in 1 .. n + 1
      BY <1>1
    <2> QED
      BY <1>2, <2>1, <2>2, ElementOfSeq
  <1> HIDE DEF n, t
  <1>4. /\ q \in Seq(S) /\ Len(q) = IF h + 1 <= n THEN n - (h + 1) + 1 ELSE 0
        /\ \A j \in 1 .. n - (h + 1) + 1 : q[j] = s[h + 1 + j - 1]
    BY <1>1, <1>3, SubSeqProperties
  <1>5. /\ r \in Seq(S) /\ Len(r) = IF h + 1 <= n + 1 THEN n + 1 - (h + 1) + 1 ELSE 0
        /\ \A j \in 1 .. n + 1 - (h + 1) + 1 : r[j] = t[h + 1 + j - 1]
    BY <1>1, <1>3, SubSeqProperties
  <1> HIDE DEF q, r
  <1>6. /\ Len(q) = n - h /\ Len(r) = n - h + 1
        /\ \A j \in 1 .. n - h : q[j] = s[h + j]
        /\ \A j \in 1 .. n - h + 1 : r[j] = t[h + j]
    <2>1. h \in Int /\ n \in Int /\ h <= n
      BY <1>1
    <2>2. /\ n - (h + 1) + 1 = n - h /\ n + 1 - (h + 1) + 1 = n - h + 1
          /\ h + 1 <= n + 1 /\ (h + 1 > n => n - h = 0)
      BY ONLY <2>1
    <2>3. Len(q) = n - h /\ Len(r) = n - h + 1
      BY ONLY <2>1, <2>2, <1>4, <1>5
    <2>4. \A j \in Int : h + 1 + j - 1 = h + j
      BY ONLY <2>1
    <2>5. \A j \in 1 .. n - h : q[j] = s[h + j]
      <3> SUFFICES ASSUME NEW j \in 1 .. n - h PROVE q[j] = s[h + j]
        OBVIOUS
      <3>1. j \in Int /\ j \in 1 .. n - (h + 1) + 1
        BY <2>1, <2>2
      <3> QED
        BY Zenon, <1>4, <2>4, <3>1
    <2>6. \A j \in 1 .. n - h + 1 : r[j] = t[h + j]
      <3> SUFFICES ASSUME NEW j \in 1 .. n - h + 1 PROVE r[j] = t[h + j]
        OBVIOUS
      <3>1. j \in Int /\ j \in 1 .. n + 1 - (h + 1) + 1
        BY <2>1, <2>2
      <3> QED
        BY Zenon, <1>5, <2>4, <3>1
    <2> QED
      BY <2>3, <2>5, <2>6
  <1>7. /\ Append(q, i) \in Seq(S) /\ Len(Append(q, i)) = n - h + 1
        /\ (\A j \in 1 .. n - h : Append(q, i)[j] = q[j]) /\ Append(q, i)[n - h + 1] = i
    BY <1>4, <1>6, AppendProperties
  <1>8. ASSUME NEW j \in 1 .. n - h + 1 PROVE r[j] = Append(q, i)[j]
    <2>1. CASE j = n - h + 1
      <3>1. h + j = n + 1
        BY <1>1, <2>1
      <3> QED
        BY <1>2, <1>6, <1>7, <1>8, <2>1, <3>1
    <2>2. CASE j # n - h + 1
      <3>1. j \in 1 .. n - h /\ h + j \in 1 .. n
        BY <1>1, <1>8, <2>2
      <3> QED
        BY <1>2, <1>6, <1>7, <1>8, <3>1
    <2> QED
      BY <2>1, <2>2
  <1>9. r = Append(q, i)
    BY <1>5, <1>6, <1>7, <1>8, SeqEqual
  <1> QED
    BY <1>9 DEF n, t, q, r

(* The first of what follows a position, and what follows it. *)
LEMMA RestShrinks ==
    ASSUME NEW S, NEW s \in Seq(S), NEW h \in Nat, h < Len(s)
    PROVE  \A q : q = SubSeq(s, h + 1, Len(s)) =>
              /\ q \in Seq(S) /\ 1 <= Len(q)
              /\ SubSeq(q, 1, 1) = <<s[h + 1]>>
              /\ SubSeq(q, 2, Len(q)) = SubSeq(s, h + 2, Len(s))
  <1> SUFFICES ASSUME NEW q, q = SubSeq(s, h + 1, Len(s))
               PROVE  /\ q \in Seq(S) /\ 1 <= Len(q)
                      /\ SubSeq(q, 1, 1) = <<s[h + 1]>>
                      /\ SubSeq(q, 2, Len(q)) = SubSeq(s, h + 2, Len(s))
    OBVIOUS
  <1>1. PICK n \in Nat : n = Len(s)
    OBVIOUS
  <1>2. PICK m \in Int : m = h + 1
    OBVIOUS
  <1>3. m \in 1 .. n /\ n \in m .. n /\ h + 2 = m + 1
    BY <1>1, <1>2
  <1>4. /\ q \in Seq(S) /\ Len(q) = n - m + 1
        /\ \A j \in 1 .. n - m + 1 : q[j] = s[m + j - 1]
    <2>1. \A j \in m .. n : s[j] \in S
      BY <1>1, <1>3, ElementOfSeq
    <2> QED
      BY <1>1, <1>2, <1>3, <2>1, SubSeqProperties
  <1>5. 1 <= Len(q) /\ q # <<>> /\ q[1] = s[m]
    <2>1. 1 \in 1 .. n - m + 1 /\ m + 1 - 1 = m /\ n - m + 1 >= 1
      BY <1>3
    <2>2. q[1] = s[m + 1 - 1]
      BY <1>4, <2>1
    <2>3. q # <<>>
      <3>1. SUFFICES ASSUME q = <<>> PROVE FALSE
        OBVIOUS
      <3>2. Len(q) = 0
        BY <3>1, EmptySeq
      <3>3. Len(q) >= 1
        BY <1>4, <2>1
      <3> QED
        BY <3>2, <3>3
    <2> QED
      BY <1>4, <2>1, <2>2, <2>3
  <1>6. SubSeq(q, 2, Len(q)) = SubSeq(s, h + 2, Len(s))
    <2>1. Tail(q) = SubSeq(q, 2, Len(q))
      BY <1>4, <1>5, TailIsSubSeq
    <2>2. Tail(SubSeq(s, m, n)) = SubSeq(s, m + 1, n)
      BY <1>1, <1>3, HeadTailOfSubSeq
    <2> QED
      BY <1>1, <1>2, <1>3, <2>1, <2>2
  <1>7. SubSeq(q, 1, 1) = <<s[h + 1]>>
    <2>1. SubSeq(q, 1, 1) = <<q[1]>>
      <3>1. 1 \in 1 .. Len(q) /\ 1 \in 1 .. 1 /\ Len(q) \in Nat
        BY <1>4, <1>5
      <3>2. \A j \in 1 .. 1 : q[j] \in S
        BY <1>4, <3>1, ElementOfSeq
      <3>3. /\ SubSeq(q, 1, 1) \in Seq(S) /\ Len(SubSeq(q, 1, 1)) = 1
            /\ SubSeq(q, 1, 1)[1] = q[1]
        <4>1. /\ SubSeq(q, 1, 1) \in Seq(S)
              /\ Len(SubSeq(q, 1, 1)) = IF 1 <= 1 THEN 1 - 1 + 1 ELSE 0
              /\ \A j \in 1 .. 1 - 1 + 1 : SubSeq(q, 1, 1)[j] = q[1 + j - 1]
          BY <3>2, SubSeqProperties
        <4>2. 1 \in 1 .. 1 - 1 + 1 /\ 1 + 1 - 1 = 1
          OBVIOUS
        <4>3. SubSeq(q, 1, 1)[1] = q[1 + 1 - 1]
          BY <4>1, <4>2
        <4> QED
          BY <4>1, <4>2, <4>3
      <3>4. <<q[1]>> \in Seq(S) /\ Len(<<q[1]>>) = 1 /\ <<q[1]>>[1] = q[1]
        BY <3>1, <3>2
      <3>5. ASSUME NEW u \in Seq(S), NEW v \in Seq(S), Len(u) = 1, Len(v) = 1, u[1] = v[1]
            PROVE  u = v
        <4>1. Len(u) = Len(v) /\ \A j \in 1 .. Len(u) : u[j] = v[j]
          BY <3>5
        <4> QED
          BY <4>1, SeqEqual
      <3> QED
        BY <3>3, <3>4, <3>5
    <2> QED
      BY <1>2, <1>5, <2>1
  <1> QED
    BY <1>4, <1>5, <1>6, <1>7

(* A consumer that holds an item it has not handed over. *)
Held(c) == me[c].pc \in (IF mode = "one" THEN {"give"} ELSE {"read", "recycle"})

(* What the FIFO sees of the ring. *)
LEMMA Views ==
    ASSUME IInv
    PROVE  /\ log \in Seq(Items) /\ L \in Nat /\ H \in Nat /\ H <= L
           /\ queue = SubSeq(log, H + 1, L)
           /\ queue \in Seq(Items) /\ Len(queue) = L - H
           /\ hand = [c \in Consumers |-> IF Held(c) THEN <<log[Off(me[c].at) + 1]>> ELSE <<>>]
           /\ \A c \in Consumers : Held(c) => Off(me[c].at) + 1 \in 1 .. L /\ mode # "broken"
  <1>1. /\ log \in Seq(Items) /\ L \in Nat /\ H \in Nat /\ H <= L /\ L \in Int /\ H \in Int
    BY Order DEF IInv, TypeOK
  <1>2. queue = SubSeq(log, H + 1, L)
    BY DEF queue, H, L, Off
  <1>3. queue \in Seq(Items) /\ Len(queue) = L - H
    <2>1. PICK m \in Int : m = H + 1
      BY <1>1
    <2>2. \A j \in m .. L : log[j] \in Items
      <3>1. \A j \in m .. L : j \in 1 .. L
        BY <1>1, <2>1
      <3> QED
        BY <1>1, <3>1, ElementOfSeq DEF L
    <2>3. SubSeq(log, m, L) \in Seq(Items) /\ Len(SubSeq(log, m, L)) = IF m <= L THEN L - m + 1 ELSE 0
      BY <1>1, <2>2, SubSeqProperties
    <2> QED
      BY <1>1, <1>2, <2>1, <2>3
  <1>4. hand = [c \in Consumers |-> IF Held(c) THEN <<log[Off(me[c].at) + 1]>> ELSE <<>>]
    BY DEF hand, Held, Entered, Off
  <1>5. ASSUME NEW c \in Consumers, Held(c)
        PROVE  Off(me[c].at) + 1 \in 1 .. L /\ mode # "broken"
    <2>1. c \in Agents /\ me[c].at \in Numbers /\ ConsumerInv(c) /\ mode \in {"one", "many", "broken"}
          /\ Fits
      BY DEF Agents, IInv, AgentInv, TypeOK, Locals
    <2>2. Off(me[c].at) \in Int /\ 0 <= Off(me[c].at)
      BY <2>1, OffValue DEF Numbers
    <2>3. mode # "broken"
      BY <1>5, <2>1 DEF ConsumerInv, Held
    <2>4. Off(me[c].at) < H \/ Off(me[c].at) + 1 = H
      BY <1>5, <2>1, <2>3 DEF ConsumerInv, ConsumerOne, ConsumerMany, Taking, Held
    <2> QED
      BY <1>1, <2>2, <2>3, <2>4
  <1> QED
    BY <1>1, <1>2, <1>3, <1>4, <1>5

(* A step of one agent leaves what the others hold. *)
LEMMA HandsKeep ==
    ASSUME IInv, mode' = mode, \A j \in 1 .. L : log'[j] = log[j], NEW a \in Agents,
           \A b \in Agents : b # a => me'[b] = me[b]
    PROVE  /\ a \notin Consumers => hand' = hand
           /\ a \in Consumers =>
                 hand' = [hand EXCEPT ![a] = IF Held(a)' THEN <<log'[Off(me'[a].at) + 1]>> ELSE <<>>]
  <1>1. hand' = [c \in Consumers |-> IF Held(c)' THEN <<log'[Off(me'[c].at) + 1]>> ELSE <<>>]
    BY DEF hand, Held, Entered, Off
  <1>2. ASSUME NEW c \in Consumers, c # a
        PROVE  (IF Held(c)' THEN <<log'[Off(me'[c].at) + 1]>> ELSE <<>>)
                   = (IF Held(c) THEN <<log[Off(me[c].at) + 1]>> ELSE <<>>)
    <2>1. c \in Agents
      BY DEF Agents
    <2>2. me'[c] = me[c] /\ (Held(c)' <=> Held(c))
      BY <1>2, <2>1 DEF Held
    <2>3. Held(c) => Off(me[c].at) + 1 \in 1 .. L
      BY Views
    <2> QED
      BY <2>2, <2>3
  <1>3. hand = [c \in Consumers |-> IF Held(c) THEN <<log[Off(me[c].at) + 1]>> ELSE <<>>]
    BY Views
  <1> QED
    BY <1>1, <1>2, <1>3

(* What consumers were told. *)
Told == [c \in Consumers |-> answer[c]]

(* A step that moves neither end of the queue, nor what is held. *)
LEMMA QuietView ==
    ASSUME IInv, UNCHANGED <<mode, head, log>>, NEW a \in Agents,
           \A b \in Agents : b # a => me'[b] = me[b],
           a \in Consumers => (Held(a)' <=> Held(a)) /\ (Held(a) => me'[a].at = me[a].at),
           \A c \in Consumers : answer'[c] = answer[c]
    PROVE  UNCHANGED Channel!vars
  <1>1. queue' = queue /\ Told' = Told
    BY DEF queue, Told
  <1>2. hand' = hand
    <2>1. CASE a \notin Consumers
      BY <2>1, HandsKeep
    <2>2. CASE a \in Consumers
      <3>1. hand' = [hand EXCEPT ![a] = IF Held(a)' THEN <<log'[Off(me'[a].at) + 1]>> ELSE <<>>]
        BY <2>2, HandsKeep
      <3>2. hand[a] = IF Held(a)' THEN <<log'[Off(me'[a].at) + 1]>> ELSE <<>>
        BY <2>2, Views
      <3>3. hand = [c \in Consumers |-> hand[c]]
        BY DEF hand
      <3> QED
        BY <2>2, <3>1, <3>2, <3>3
    <2> QED
      BY <2>1, <2>2
  <1> QED
    BY <1>1, <1>2 DEF Channel!vars, Told

(* A push lets its item enter. *)
LEMMA Puts ==
    ASSUME IInv, UNCHANGED <<mode, head>>, NEW p \in Producers,
           \A b \in Agents : b # p => me'[b] = me[b], answer' = answer,
           NEW i \in Items, log' = Append(log, i), L - H < Slots
    PROVE  Channel!Put(i)
  <1>1. p \in Agents /\ p \notin Consumers /\ Slots \in Int
    BY Order DEF Agents, IInv, Fits
  <1>2. /\ log \in Seq(Items) /\ L \in Nat /\ H \in Nat /\ H <= L
        /\ queue = SubSeq(log, H + 1, L) /\ Len(queue) = L - H
    BY Views
  <1>3. L' = L + 1 /\ H' = H /\ \A j \in 1 .. L : log'[j] = log[j]
    BY <1>2 DEF L, H
  <1>4. hand' = hand
    BY <1>1, <1>3, HandsKeep
  <1>5. queue' = Append(queue, i)
    <2>1. queue' = SubSeq(Append(log, i), H + 1, L + 1)
      BY <1>3 DEF queue, H, L, Off
    <2>2. SubSeq(Append(log, i), H + 1, L + 1) = Append(SubSeq(log, H + 1, L), i)
      BY <1>2, RestGrows DEF L
    <2> QED
      BY <1>2, <2>1, <2>2
  <1> QED
    BY <1>2, <1>4, <1>5 DEF Channel!Put

(* A pop takes the oldest item. *)
LEMMA Takes ==
    ASSUME IInv, UNCHANGED <<mode, log, answer>>, NEW c \in Consumers,
           \A b \in Agents : b # c => me'[b] = me[b],
           ~Held(c), Held(c)', me'[c].at = head, H' = H + 1, H < L
    PROVE  Channel!Take(c)
  <1>1. c \in Agents
    BY DEF Agents
  <1>2. /\ log \in Seq(Items) /\ L \in Nat /\ H \in Nat
        /\ queue = SubSeq(log, H + 1, L)
        /\ hand = [d \in Consumers |-> IF Held(d) THEN <<log[Off(me[d].at) + 1]>> ELSE <<>>]
    BY Views
  <1>3. /\ 1 <= Len(queue) /\ SubSeq(queue, 1, 1) = <<log[H + 1]>>
        /\ SubSeq(queue, 2, Len(queue)) = SubSeq(log, H + 2, L)
    <2>1. PICK h \in Nat : h = H
      BY <1>2
    <2>2. queue = SubSeq(log, h + 1, Len(log)) /\ h < Len(log)
      BY <1>2, <2>1 DEF L
    <2>3. /\ 1 <= Len(queue) /\ SubSeq(queue, 1, 1) = <<log[h + 1]>>
          /\ SubSeq(queue, 2, Len(queue)) = SubSeq(log, h + 2, Len(log))
      <3>1. PICK q : q = queue
        OBVIOUS
      <3>2. q = SubSeq(log, h + 1, Len(log))
        BY <2>2, <3>1
      <3>3. /\ 1 <= Len(q) /\ SubSeq(q, 1, 1) = <<log[h + 1]>>
            /\ SubSeq(q, 2, Len(q)) = SubSeq(log, h + 2, Len(log))
        <4>1. log \in Seq(Items) /\ h < Len(log)
          BY <1>2, <2>2
        <4>2. \A z : z = SubSeq(log, h + 1, Len(log)) =>
                  /\ z \in Seq(Items) /\ 1 <= Len(z)
                  /\ SubSeq(z, 1, 1) = <<log[h + 1]>>
                  /\ SubSeq(z, 2, Len(z)) = SubSeq(log, h + 2, Len(log))
          BY Zenon, <4>1, RestShrinks
        <4> QED
          BY Zenon, <3>2, <4>2
      <3> QED
        BY <3>1, <3>3
    <2> QED
      BY <2>1, <2>3 DEF L
  <1>4. hand' = [hand EXCEPT ![c] = <<log[H + 1]>>]
    <2>1. hand' = [hand EXCEPT ![c] = IF Held(c)' THEN <<log'[Off(me'[c].at) + 1]>> ELSE <<>>]
      BY <1>1, HandsKeep
    <2> QED
      BY <2>1 DEF H
  <1>5. queue' = SubSeq(log, H + 2, L)
    <2>1. queue' = SubSeq(log', H' + 1, L')
      BY DEF queue, H, L, Off
    <2>2. H' + 1 = H + 2 /\ L' = L
      BY <1>2 DEF L
    <2> QED
      BY <2>1, <2>2
  <1>6. hand[c] = <<>>
    BY <1>2
  <1>7. hand' = [hand EXCEPT ![c] = SubSeq(queue, 1, 1)] /\ queue' = SubSeq(queue, 1 + 1, Len(queue))
    <2>1. SubSeq(queue, 1 + 1, Len(queue)) = SubSeq(queue, 2, Len(queue))
      OBVIOUS
    <2>2. hand' = [hand EXCEPT ![c] = SubSeq(queue, 1, 1)]
      BY <1>3, <1>4
    <2>3. queue' = SubSeq(queue, 2, Len(queue))
      BY <1>3, <1>5
    <2> QED
      BY <2>1, <2>2, <2>3
  <1>8. 1 \in 1 .. 1 /\ Told' = Told
    BY DEF Told
  <1> QED
    BY <1>3, <1>6, <1>7, <1>8 DEF Channel!Take, Told

(* A pop hands over what it holds. *)
LEMMA Gives ==
    ASSUME IInv, UNCHANGED <<mode, head, log>>, NEW c \in Consumers,
           Returns(c, <<me[c].item>>), Held(c), me[c].item = log[Off(me[c].at) + 1]
    PROVE  Channel!Give(c)
  <1>1. c \in Agents /\ answer \in [Agents -> Answers] /\ me \in [Agents -> Locals]
        /\ Consumers \subseteq Agents
    BY DEF Agents, IInv, TypeOK
  <1>2. /\ \A b \in Agents : b # c => me'[b] = me[b]
        /\ me'[c].pc = "idle" /\ ~Held(c)'
    BY <1>1 DEF Returns, Idle, Held
  <1>3. hand' = [hand EXCEPT ![c] = <<>>]
    BY <1>1, <1>2, HandsKeep
  <1>4. hand[c] = <<me[c].item>> /\ hand[c] # <<>>
    <2>1. hand[c] = <<me[c].item>>
      BY Views
    <2>2. \A x : <<x>> # <<>>
      OBVIOUS
    <2> QED
      BY <2>1, <2>2
  <1>5. Told' = [Told EXCEPT ![c] = hand[c]]
    BY <1>1, <1>4 DEF Returns, Told
  <1>6. queue' = queue
    BY DEF queue
  <1> QED
    BY <1>3, <1>4, <1>5, <1>6 DEF Channel!Give, Told

(* A pop is refused. *)
LEMMA Misses ==
    ASSUME IInv, UNCHANGED <<mode, head, log>>, NEW c \in Consumers,
           Returns(c, <<>>), ~Held(c)
    PROVE  Channel!Miss(c)
  <1>1. c \in Agents /\ answer \in [Agents -> Answers] /\ me \in [Agents -> Locals]
        /\ Consumers \subseteq Agents
    BY DEF Agents, IInv, TypeOK
  <1>2. (\A b \in Agents : b # c => me'[b] = me[b]) /\ ~Held(c)'
    BY <1>1 DEF Returns, Idle, Held
  <1>3. hand' = [hand EXCEPT ![c] = <<>>]
    BY <1>1, <1>2, HandsKeep
  <1>4. hand[c] = <<>> /\ hand = [d \in Consumers |-> hand[d]]
    BY Views
  <1>5. Told' = [Told EXCEPT ![c] = <<>>]
    BY <1>1 DEF Returns, Told
  <1>6. queue' = queue
    BY DEF queue
  <1> QED
    BY <1>3, <1>4, <1>5, <1>6 DEF Channel!Miss, Told

(* A ring just made is an empty FIFO. *)
LEMMA FifoInit == Fits /\ Init => Channel!Init
  <1> SUFFICES ASSUME Fits, Init PROVE Channel!Init
    OBVIOUS
  <1>1. IInv
    BY InitInv
  <1>2. L = 0 /\ H \in Nat /\ H <= L /\ queue \in Seq(Items) /\ Len(queue) = L - H
    BY <1>1, Views DEF Init, L
  <1>3. queue = <<>>
    <2>1. Len(queue) = 0
      BY <1>2
    <2> QED
      BY <1>2, <2>1, EmptySeq
  <1>4. hand = [c \in Consumers |-> <<>>]
    BY DEF Init, Idle, hand, Agents
  <1>5. Told = [c \in Consumers |-> <<>>]
    BY DEF Init, Told, Agents
  <1> QED
    BY <1>3, <1>4, <1>5 DEF Channel!Init, Told

(* In a push, an item enters with the CAS on tail, or when it is published. *)
LEMMA OfferFifo ==
    ASSUME IInv, NEW p \in Producers, OfferStep(p)
    PROVE  Channel!Next \/ UNCHANGED Channel!vars
  <1>1. /\ p \in Agents /\ p \notin Consumers /\ Consumers \subseteq Agents
        /\ me \in [Agents -> Locals] /\ answer \in [Agents -> Answers]
        /\ mode \in {"one", "many", "broken"} /\ AgentInv(p) /\ me[p] \in Locals /\ Fits
    BY DEF Agents, IInv, Fits, TypeOK
  <1>2. ASSUME UNCHANGED <<mode, head, log>>, \A b \in Agents : b # p => me'[b] = me[b],
               \A c \in Consumers : answer'[c] = answer[c]
        PROVE  UNCHANGED Channel!vars
    BY <1>1, <1>2, QuietView
  <1>3. ASSUME NEW what, Returns(p, what)
        PROVE  /\ \A b \in Agents : b # p => me'[b] = me[b]
               /\ \A c \in Consumers : answer'[c] = answer[c]
    BY <1>1, <1>3 DEF Returns
  <1>4. CASE \E i \in Items : Offer(p, i) \/ OfferBroken(p, i)
    BY <1>1, <1>2, <1>4 DEF Offer, OfferBroken, shared
  <1>5. CASE CountStep(p)
    BY <1>1, <1>2, <1>5 DEF CountStep, CountHead, CountTail, CountAgain, Local, shared
  <1>6. CASE OfferCounted(p)
    BY <1>1, <1>2, <1>3, <1>6 DEF OfferCounted, shared
  <1>7. CASE OfferTail(p)
    BY <1>1, <1>2, <1>7 DEF OfferTail, Local, shared
  <1>8. CASE OfferSeq(p)
    BY <1>1, <1>2, <1>3, <1>8 DEF OfferSeq, shared
  <1>9. CASE OfferCas(p)
    <2>1. CASE tail # me[p].at
      BY <1>1, <1>2, <1>9, <2>1 DEF OfferCas
    <2>2. CASE tail = me[p].at
      <3>1. /\ me[p].pc = "cas" /\ log' = Append(log, me[p].item)
            /\ UNCHANGED <<mode, head, answer, unsent>>
            /\ \A b \in Agents : b # p => me'[b] = me[b]
        BY <1>1, <1>9, <2>2 DEF OfferCas, At
      <3>2. mode = "many" /\ Offering(p) /\ seqno[Pos(tail)] = tail
        BY <1>1, <2>2, <3>1 DEF AgentInv, ProducerInv, ProducerOne, ProducerMany, Offering
      <3>3. me[p].item \in Items
        BY <1>1, <3>2 DEF AgentInv, ProducerInv
      <3>4. L - H < Slots
        <4>1. /\ H \in Int /\ T \in Int /\ L \in Int /\ T = L /\ L - H <= Slots
              /\ Slots \in Int /\ Slots >= 2 /\ Passed = H
          BY <3>2, Order
        <4>2. Sq(T) = T /\ tail \in Numbers
          BY <1>1, <3>2, SeqRead DEF IInv, TypeOK, T
        <4>3. Sq(L - Slots) = L
          BY <1>1, <4>1, <4>2, NextCell
        <4>4. L - Slots \in L - Slots .. L - 1
          BY <4>1
        <4>5. L - Slots < H
          BY <3>2, <4>1, <4>3, <4>4 DEF IInv, RingInv, SeqInv
        <4> QED
          BY <4>1, <4>5
      <3>5. Channel!Put(me[p].item)
        BY <3>1, <3>3, <3>4, Puts
      <3> QED
        BY <3>3, <3>5 DEF Channel!Next
    <2> QED
      BY <2>1, <2>2
  <1>10. CASE OfferLock(p)
    BY <1>1, <1>2, <1>10 DEF OfferLock
  <1>11. CASE OfferWrite(p)
    BY <1>1, <1>2, <1>11 DEF OfferWrite
  <1>12. CASE OfferPublish(p)
    <2>1. CASE mode # "one"
      BY <1>1, <1>2, <1>3, <1>12, <2>1 DEF OfferPublish
    <2>2. CASE mode = "one"
      <3>1. /\ me[p].pc = "publish" /\ log' = Append(log, me[p].item)
            /\ UNCHANGED <<mode, head, answer, unsent>>
            /\ \A b \in Agents : b # p => me'[b] = me[b]
        BY <1>1, <1>12, <2>2 DEF OfferPublish, At
      <3>2. Offering(p) /\ Owning(p)
        BY <2>2, <3>1 DEF Offering, Owning
      <3>3. me[p].item \in Items
        BY <1>1, <3>2 DEF AgentInv, ProducerInv
      <3>4. L - H < Slots
        BY <2>2, <3>2, Owns
      <3>5. Channel!Put(me[p].item)
        BY <3>1, <3>3, <3>4, Puts
      <3> QED
        BY <3>3, <3>5 DEF Channel!Next
    <2> QED
      BY <2>1, <2>2
  <1>13. CASE OfferAdvance(p)
    BY <1>1, <1>2, <1>3, <1>13 DEF OfferAdvance
  <1> QED
    BY <1>4, <1>5, <1>6, <1>7, <1>8, <1>9, <1>10, <1>11, <1>12, <1>13 DEF OfferStep

(* In a pop, an item leaves when head passes it, and is handed over at the end. *)
LEMMA TakeFifo ==
    ASSUME IInv, NEW c \in Consumers, TakeStep(c)
    PROVE  Channel!Next \/ UNCHANGED Channel!vars
  <1>1. /\ c \in Agents /\ me \in [Agents -> Locals] /\ answer \in [Agents -> Answers]
        /\ mode \in {"one", "many", "broken"} /\ AgentInv(c) /\ me[c] \in Locals /\ Fits
        /\ Consumers \subseteq Agents
    BY DEF Agents, IInv, Fits, TypeOK
  <1>2. ASSUME UNCHANGED <<mode, head, log, answer>>, \A b \in Agents : b # c => me'[b] = me[b],
               Held(c)' <=> Held(c), Held(c) => me'[c].at = me[c].at
        PROVE  UNCHANGED Channel!vars
    BY <1>1, <1>2, QuietView
  <1>3. ASSUME UNCHANGED <<mode, head, log>>, Returns(c, <<>>), ~Held(c) PROVE Channel!Next
    BY <1>3, Misses DEF Channel!Next
  <1>4. CASE Take(c)
    <2>1. ~Held(c) /\ UNCHANGED <<mode, head, log>>
      BY <1>4 DEF Take, Held, At, shared
    <2>2. CASE mode = "broken"
      BY <1>3, <1>4, <2>1, <2>2 DEF Take
    <2>3. CASE mode # "broken"
      <3>1. me' = [me EXCEPT ![c].pc = IF mode = "one" THEN "h1" ELSE "head"] /\ UNCHANGED answer
        BY <1>4, <2>3 DEF Take
      <3>2. me'[c].pc \in {"h1", "head"}
        BY <1>1, <3>1 DEF Locals
      <3>3. ~Held(c)'
        BY <2>1, <3>2 DEF Held
      <3> QED
        BY <1>1, <1>2, <2>1, <3>1, <3>3
    <2> QED
      BY <2>2, <2>3
  <1>5. CASE CountStep(c)
    <2>1. UNCHANGED <<mode, head, log, answer>> /\ (\A b \in Agents : b # c => me'[b] = me[b])
      BY <1>1, <1>5 DEF CountStep, CountHead, CountTail, CountAgain, Local, shared
    <2>2. ~Held(c) /\ ~Held(c)'
      BY <1>1, <1>5, <2>1 DEF CountStep, CountHead, CountTail, CountAgain, Held, At, Locals
    <2> QED
      BY <1>2, <2>1, <2>2
  <1>6. CASE TakeCounted(c)
    <2>1. ~Held(c) /\ UNCHANGED <<mode, head, log>>
      BY <1>6 DEF TakeCounted, Held, At, shared
    <2>2. CASE Count(c) = 0
      BY <1>3, <1>6, <2>1, <2>2 DEF TakeCounted
    <2>3. CASE Count(c) # 0
      <3>1. /\ me' = [me EXCEPT ![c].at = head, ![c].pc = "read"] /\ UNCHANGED answer
            /\ me[c].pc = "counted"
        BY <1>6, <2>3 DEF TakeCounted, At
      <3>2. mode = "one"
        BY <1>1, <3>1 DEF AgentInv, ConsumerInv, ConsumerMany
      <3>3. me'[c].pc = "read"
        BY <1>1, <3>1 DEF Locals
      <3>4. ~Held(c)'
        BY <2>1, <3>2, <3>3 DEF Held
      <3> QED
        BY <1>1, <1>2, <2>1, <3>1, <3>4
    <2> QED
      BY <2>2, <2>3
  <1>7. CASE TakeHead(c)
    BY <1>1, <1>2, <1>7 DEF TakeHead, Held, At, Local, shared, Locals
  <1>8. CASE TakeSeq(c)
    <2> DEFINE diff == Minus(seqno[Pos(me[c].at)], Plus(me[c].at, 1))
    <2>1. ~Held(c) /\ UNCHANGED <<mode, head, log>>
      BY <1>8 DEF TakeSeq, Held, At, shared
    <2>2. CASE diff # 0 /\ Negative(diff)
      BY <1>3, <1>8, <2>1, <2>2 DEF TakeSeq
    <2>3. CASE ~(diff # 0 /\ Negative(diff))
      <3>1. me' = [me EXCEPT ![c].pc = IF diff = 0 THEN "cas" ELSE "head"] /\ UNCHANGED answer
        BY <1>8, <2>3 DEF TakeSeq
      <3>2. ~Held(c)'
        BY <1>1, <2>1, <3>1 DEF Held, Locals
      <3> QED
        BY <1>1, <1>2, <2>1, <3>1, <3>2
    <2> QED
      BY <2>2, <2>3
  <1>9. CASE TakeCas(c)
    <2>1. /\ me[c].pc = "cas" /\ ~Held(c) /\ UNCHANGED <<mode, log, answer>>
          /\ \A b \in Agents : b # c => me'[b] = me[b]
      BY <1>1, <1>9 DEF TakeCas, At, Held
    <2>2. CASE head # me[c].at
      <3>1. head' = head /\ me'[c].pc = "head"
        BY <1>1, <1>9, <2>2 DEF TakeCas, Locals
      <3> QED
        BY <1>2, <2>1, <3>1 DEF Held
    <2>3. CASE head = me[c].at
      <3>1. head' = Plus(head, 1) /\ me'[c].pc = "read" /\ me'[c].at = head
        BY <1>1, <1>9, <2>3 DEF TakeCas, Locals
      <3>2. mode = "many" /\ H < T
        BY <1>1, <2>1, <2>3 DEF AgentInv, ConsumerInv, ConsumerOne, ConsumerMany
      <3>3. /\ H \in Int /\ T \in Int /\ L \in Int /\ 0 <= H /\ T = L /\ L + Slots <= Modulus
            /\ Slots \in Int /\ Slots >= 2 /\ Modulus \in Int
        BY <3>2, Order
      <3>4. H' = H + 1
        <4>1. H + 1 < Modulus /\ head \in Numbers
          BY <3>2, <3>3 DEF IInv, TypeOK
        <4> QED
          BY <1>1, <3>1, <4>1, OffPlus DEF H
      <3>5. Held(c)'
        BY <2>1, <3>1, <3>2 DEF Held
      <3> QED
        BY <2>1, <3>1, <3>2, <3>3, <3>4, <3>5, Takes DEF Channel!Next
    <2> QED
      BY <2>2, <2>3
  <1>10. CASE TakeRead(c)
    <2>1. /\ me[c].pc = "read" /\ UNCHANGED <<mode, head, log, answer>>
          /\ \A b \in Agents : b # c => me'[b] = me[b]
          /\ me'[c].pc = "recycle" /\ me'[c].at = me[c].at
      BY <1>1, <1>10 DEF TakeRead, At, Local, shared, Locals
    <2>2. Held(c)' <=> Held(c)
      BY <2>1 DEF Held
    <2> QED
      BY <1>2, <2>1, <2>2
  <1>11. CASE TakeRecycle(c)
    <2>1. me[c].pc = "recycle" /\ UNCHANGED <<mode, head, log>>
      BY <1>11 DEF TakeRecycle, At
    <2>2. CASE mode = "one"
      <3>1. /\ UNCHANGED answer /\ (\A b \in Agents : b # c => me'[b] = me[b])
            /\ me'[c].pc = "advance"
        BY <1>1, <1>11, <2>2 DEF TakeRecycle, Locals
      <3>2. ~Held(c) /\ ~Held(c)'
        BY <2>1, <2>2, <3>1 DEF Held
      <3> QED
        BY <1>2, <2>1, <3>1, <3>2
    <2>3. CASE mode # "one"
      <3>1. Returns(c, <<me[c].item>>) /\ Held(c)
        BY <1>11, <2>1, <2>3 DEF TakeRecycle, Held
      <3>2. me[c].item = log[Off(me[c].at) + 1]
        BY <1>1, <2>1, <2>3 DEF AgentInv, ConsumerInv, ConsumerMany
      <3> QED
        BY <2>1, <3>1, <3>2, Gives DEF Channel!Next
    <2> QED
      BY <2>2, <2>3
  <1>12. CASE TakeAdvance(c)
    <2>1. /\ me[c].pc = "advance" /\ head' = Plus(head, 1) /\ UNCHANGED <<mode, log, answer>>
          /\ \A b \in Agents : b # c => me'[b] = me[b]
          /\ me'[c].pc = "give" /\ me'[c].at = me[c].at
      BY <1>1, <1>12 DEF TakeAdvance, At, Locals
    <2>2. mode = "one" /\ me[c].at = head /\ H < T
      BY <1>1, <2>1 DEF AgentInv, ConsumerInv, ConsumerOne, ConsumerMany
    <2>3. /\ H \in Int /\ T \in Int /\ L \in Int /\ 0 <= H /\ T <= L /\ L + Slots <= Modulus
          /\ Slots \in Int /\ Slots >= 2 /\ Modulus \in Int
      BY Order
    <2>4. H' = H + 1
      <3>1. H + 1 < Modulus /\ head \in Numbers
        BY <2>2, <2>3 DEF IInv, TypeOK
      <3> QED
        BY <1>1, <2>1, <3>1, OffPlus DEF H
    <2>5. ~Held(c) /\ Held(c)' /\ H < L
      BY <2>1, <2>2, <2>3 DEF Held
    <2> QED
      BY <2>1, <2>2, <2>4, <2>5, Takes DEF Channel!Next
  <1>13. CASE TakeGive(c)
    <2>1. me[c].pc = "give" /\ UNCHANGED <<mode, head, log>> /\ Returns(c, <<me[c].item>>)
      BY <1>13 DEF TakeGive, At, shared
    <2>2. mode = "one" /\ me[c].item = log[Off(me[c].at) + 1]
      BY <1>1, <2>1 DEF AgentInv, ConsumerInv, ConsumerOne, ConsumerMany
    <2>3. Held(c)
      BY <2>1, <2>2 DEF Held
    <2> QED
      BY <2>1, <2>2, <2>3, Gives DEF Channel!Next
  <1> QED
    BY <1>4, <1>5, <1>6, <1>7, <1>8, <1>9, <1>10, <1>11, <1>12, <1>13 DEF TakeStep

(* A looker changes nothing the FIFO sees. *)
LEMMA LookFifo ==
    ASSUME IInv, NEW k \in Lookers, LookStep(k)
    PROVE  UNCHANGED Channel!vars
  <1>1. /\ k \in Agents /\ k \notin Consumers /\ Consumers \subseteq Agents
        /\ me \in [Agents -> Locals] /\ answer \in [Agents -> Answers]
    BY DEF Agents, IInv, Fits, TypeOK
  <1>2. /\ UNCHANGED <<mode, head, log>>
        /\ \A b \in Agents : b # k => me'[b] = me[b]
        /\ \A c \in Consumers : answer'[c] = answer[c]
    BY <1>1
       DEF LookStep, LookCount, CountStep, CountHead, CountTail, CountAgain, LookCounted, Look,
           LookSeq, LookLock, LookRecheck, LookReseq, LookUnlock, LookCopy, Retry, Local, Returns,
           shared
  <1> QED
    BY <1>1, <1>2, QuietView

(* Every step is a step of the FIFO or changes nothing it sees. *)
LEMMA FifoStep == IInv /\ [Next]_vars => [Channel!Next]_(Channel!vars)
  <1> SUFFICES ASSUME IInv, [Next]_vars PROVE Channel!Next \/ UNCHANGED Channel!vars
    OBVIOUS
  <1>1. CASE Next
    BY <1>1, OfferFifo, TakeFifo, LookFifo DEF Next
  <1>2. CASE UNCHANGED vars
    BY <1>2 DEF vars, shared, Channel!vars, queue, hand, Entered
  <1> QED
    BY <1>1, <1>2

(* Both pairs of operations of the public ring implement the bounded FIFO: an  *)
(* item enters once, in order, and is handed over once, read whole.            *)
THEOREM RingImplementsFifo == Fits => (Spec => ImplementsFifo)
  <1>1. Fits /\ Init => Channel!Init
    BY FifoInit
  <1>2. IInv /\ [Next]_vars => [Channel!Next]_(Channel!vars)
    BY FifoStep
  <1> QED
    BY <1>1, <1>2, RingHolds, PTL DEF Spec, ImplementsFifo, Channel!Spec
=============================================================================
