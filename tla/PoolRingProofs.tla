--------------------------- MODULE PoolRingProofs ---------------------------
(***************************************************************************)
(* Proofs about PoolRing, for any number of threads, any capacity and      *)
(* batch, and runs of any length: positions may wrap any number of times.  *)
(* At the end, what the proofs about the three queues say of the run in    *)
(* which MCQueues puts them side by side.                                  *)
(***************************************************************************)
EXTENDS MCQueues, NumberTheorems, Sequences, SequenceTheorems, TLAPS

(* A position some thread read and has not yet used stays within MaxLag. *)
PosInv ==
    /\ \A p \in Producers :
          ppc[p] \in {"read", "cas", "reload"} =>
             ppos[p] <= tail /\ tail - ppos[p] <= MaxLag
    /\ \A c \in Consumers :
          cpc[c] \in {"scan", "cas"} =>
             cpos[c] <= head /\ head - cpos[c] <= MaxLag

(* The last Cap positions each have a cell, and its seqno tells their state: *)
(* from head on claimed (q) or published (q + 1), before head being copied   *)
(* (q + 1) or given back (q + Cap).                                          *)
SeqInv ==
    /\ head <= tail /\ tail <= head + Cap /\ Start <= head
    /\ \A q \in Int : (tail - Cap <= q /\ q < tail) =>
          /\ q >= head => seq[Slot(q)] \in {q, q + 1}
          /\ q <  head => seq[Slot(q)] \in {q + 1, q + Cap}

(* A push that owns a position finds its seqno as it claimed it. *)
WriteInv ==
    /\ \A p \in Producers : ppc[p] \in {"write", "publish"} =>
          /\ head <= ppos[p] /\ ppos[p] < tail
          /\ seq[Slot(ppos[p])] = ppos[p]
          /\ log[ppos[p]] = ptask[p]
          /\ ppc[p] = "publish" => cell[Slot(ppos[p])] = ptask[p]
    /\ \A p, r \in Producers :
          (p # r /\ ppc[p] \in {"write", "publish"} /\ ppc[r] \in {"write", "publish"})
             => ppos[p] # ppos[r]

(* A push about to CAS: if nobody moved tail, the cell is still free. *)
CasInv ==
    \A p \in Producers : (ppc[p] = "cas" /\ ppos[p] = tail) => seq[Slot(tail)] = tail

(* A pop about to CAS: if nobody moved head, the cells it counted are still  *)
(* published.                                                                *)
ScanInv ==
    \A c \in Consumers : cpc[c] \in {"scan", "cas"} =>
        /\ cpc[c] = "cas" => cn[c] >= 1
        /\ \A q \in Int : (cpos[c] <= q /\ q < cpos[c] + cn[c] /\ head <= q) =>
              q < tail /\ seq[Slot(q)] = q + 1

(* A pop that owns positions finds them published and nobody else has them. *)
ReadInv ==
    /\ \A c \in Consumers : cpc[c] \in {"copy", "recycle"} =>
          /\ Start <= cpos[c] /\ ci[c] < cn[c] /\ cpos[c] + cn[c] <= head
          /\ \A q \in Int : (cpos[c] + ci[c] <= q /\ q < cpos[c] + cn[c]) =>
                tail - Cap <= q /\ seq[Slot(q)] = q + 1
    /\ \A c, d \in Consumers :
          (c # d /\ cpc[c] \in {"copy", "recycle"} /\ cpc[d] \in {"copy", "recycle"})
             => cpos[c] + cn[c] <= cpos[d] \/ cpos[d] + cn[d] <= cpos[c]

(* A published cell holds the task its position was given. *)
CellInv ==
    \A q \in Int : (tail - Cap <= q /\ q < tail /\ Start <= q /\ seq[Slot(q)] = q + 1)
        => cell[Slot(q)] = log[q]

IInv == TypeOK /\ PosInv /\ SeqInv /\ WriteInv /\ CasInv /\ ScanInv /\ ReadInv
        /\ CellInv /\ CopiesAreTheLog

-----------------------------------------------------------------------------
(* Arithmetic of cells and of wrapped positions. *)

(* The assumptions on the constants that the steps below need. *)
LEMMA Constants ==
    /\ Cap \in Nat /\ Cap >= 2 /\ Batch \in Nat /\ 1 <= Batch /\ Batch <= Cap
    /\ MaxLag \in Nat /\ Start \in Nat /\ NoTask \notin Tasks
  BY RingAssumption

(* Every position has a cell (pos & mask). *)
LEMMA SlotCell == \A q \in Int : Slot(q) \in Cells
  BY Constants, DivMod DEF Slot, Cells

(* Positions a whole turn apart share their cell. *)
LEMMA SlotTurn == ASSUME NEW q \in Int PROVE Slot(q - Cap) = Slot(q)
  <1>1. Cap \in Nat /\ Cap >= 1 /\ q - Cap \in Int /\ (q - Cap) + Cap = q
    BY Constants
  <1>2. ((q - Cap) + Cap) % Cap = (q - Cap) % Cap
    BY <1>1, ModShift
  <1> QED
    BY <1>1, <1>2 DEF Slot

(* Positions less than a turn apart have different cells. *)
LEMMA SlotApart == \A q, r \in Int : (q < r /\ r < q + Cap) => Slot(q) # Slot(r)
  <1>1. Cap \in Nat /\ Cap >= 1
    BY Constants
  <1> QED
    BY <1>1, ModInjective DEF Slot

(* On positions within MaxLag + 2 * Cap of each other, the comparisons of    *)
(* their low bits decide what comparing the positions would.                 *)
LEMMA CloseBits ==
    ASSUME NEW a \in Int, NEW b \in Int,
           a - b <= MaxLag + 2 * Cap, b - a <= MaxLag + 2 * Cap
    PROVE  Dif(a, b) = a - b /\ (SameBits(a, b) <=> a = b)
  <1>1. Modulus \in Nat /\ 2 * (a - b) < Modulus /\ 2 * (b - a) < Modulus
    BY RingAssumption
  <1> DEFINE d == a - b
  <1>2. d \in Int /\ -Modulus < d /\ d < Modulus
    BY <1>1
  <1> HIDE DEF d
  <1>3. d % Modulus = IF d >= 0 THEN d ELSE d + Modulus
    BY <1>1, <1>2, ModSmall
  <1> QED
    BY <1>1, <1>2, <1>3 DEF d, Dif, SameBits

(* Any span of Cap positions reaches every cell. *)
LEMMA SlotCover ==
    ASSUME NEW q \in Int, NEW t \in Int
    PROVE  \E r \in Int : t - Cap <= r /\ r < t /\ Slot(r) = Slot(q)
  <1>1. Cap \in Nat /\ Cap >= 1
    BY RingAssumption
  <1> DEFINE d == q - t
             k == d \div Cap
             m == d % Cap
             x == q \div Cap
             s == q % Cap
             r == t - Cap + m
  <1>2. d = Cap * k + m /\ k \in Int /\ m \in 0 .. Cap - 1
    BY <1>1, DivMod, d \in Int
  <1>3. q = Cap * x + s /\ x \in Int /\ s \in 0 .. Cap - 1
    BY <1>1, DivMod
  <1>4. r \in Int /\ t - Cap <= r /\ r < t
    BY <1>1, <1>2
  <1>5. d = q - t
    OBVIOUS
  <1> HIDE DEF d, k, m, x, s
  <1>6. r = Cap * (x - k - 1) + s /\ x - k - 1 \in Int
    BY <1>1, <1>2, <1>3, <1>5
  <1> HIDE DEF r
  <1> DEFINE j == x - k - 1
  <1>7. j \in Int /\ r = Cap * j + s
    BY <1>6
  <1> HIDE DEF j
  <1>8. r % Cap = s
    BY <1>1, <1>3, <1>4, <1>7, ModOfSum
  <1> QED
    BY <1>4, <1>8 DEF Slot, s

(* Every seqno is within a turn of tail. *)
LEMMA SeqNear ==
    ASSUME TypeOK, SeqInv, NEW q \in Int
    PROVE  seq[Slot(q)] \in Int /\ tail - Cap <= seq[Slot(q)] /\ seq[Slot(q)] < tail + Cap
  <1>1. tail \in Int /\ head \in Int /\ Cap \in Nat /\ Cap >= 2
    BY Constants DEF TypeOK
  <1>2. PICK r \in Int : tail - Cap <= r /\ r < tail /\ Slot(r) = Slot(q)
    BY <1>1, SlotCover
  <1> QED
    BY <1>1, <1>2 DEF SeqInv

-----------------------------------------------------------------------------
(* The invariant is inductive. *)

(* At the start every cell is free for the turn that begins.  *)
LEMMA InitCells ==
    ASSUME Init, NEW q \in Int, Start - Cap <= q, q < Start
    PROVE  seq[Slot(q)] = q + Cap
  <1> USE RingAssumption
  <1> DEFINE k == (Start \div Cap) - 1
             i == q + Cap - Start
  <1>1. i \in Cells /\ i \in 0 .. Cap - 1
    BY DEF Cells
  <1>2. Start = Cap * (Start \div Cap) /\ k \in Int
    BY DivMod
  <1>3. q = Cap * k + i
    BY <1>2
  <1>4. q + Cap = Start + i
    OBVIOUS
  <1> HIDE DEF k, i
  <1>5. Slot(q) = i
    BY <1>1, <1>2, <1>3, ModOfSum DEF Slot
  <1> QED
    BY <1>1, <1>4, <1>5 DEF Init

(* The initial ring: every cell free for its first position. *)
LEMMA InitInv == Init => IInv
  <1> SUFFICES ASSUME Init PROVE IInv
    OBVIOUS
  <1> USE RingAssumption
  <1>1. TypeOK
    BY DEF Init, TypeOK, Cells
  <1>2. SeqInv
    <2>1. \A q \in Int : (Start - Cap <= q /\ q < Start) => seq[Slot(q)] = q + Cap
      BY InitCells
    <2>2. tail = Start /\ head = Start
      BY DEF Init
    <2> QED
      BY <2>1, <2>2 DEF SeqInv
  <1>3. PosInv /\ WriteInv /\ CasInv /\ ScanInv /\ ReadInv /\ CopiesAreTheLog
    BY DEF Init, PosInv, WriteInv, CasInv, ScanInv, ReadInv, CopiesAreTheLog
  <1>4. CellInv
    BY DEF Init, CellInv
  <1> QED
    BY <1>1, <1>2, <1>3, <1>4 DEF IInv

(* A push begins: it only reads tail. *)
LEMMA PushStartStep ==
    ASSUME IInv, NEW p \in Producers, NEW t \in Tasks, PushStart(p, t)
    PROVE  IInv'
  <1> USE Constants DEF IInv, PushStart, ring, push, pop
  <1>1. TypeOK'
    BY DEF TypeOK
  <1>2. PosInv'
    BY DEF PosInv, TypeOK
  <1>3. SeqInv'
    BY DEF SeqInv, TypeOK
  <1>4. WriteInv'
    BY DEF TypeOK, WriteInv
  <1>5. CasInv'
    BY DEF CasInv, TypeOK
  <1>6. ScanInv'
    BY DEF ScanInv, TypeOK
  <1>7. ReadInv'
    BY DEF ReadInv, TypeOK
  <1>8. CellInv'
    BY DEF CellInv, TypeOK
  <1>9. CopiesAreTheLog'
    BY DEF CopiesAreTheLog, TypeOK
  <1> QED
    BY <1>1, <1>2, <1>3, <1>4, <1>5, <1>6, <1>7, <1>8, <1>9

(* A push reads a seqno: it writes nothing. *)
LEMMA PushReadStep ==
    ASSUME IInv, NEW p \in Producers, PushRead(p)
    PROVE  IInv'
  <1> USE Constants DEF IInv, PushRead, ring, push, pop
  <1>1. TypeOK'
    BY DEF TypeOK
  <1>2. PosInv'
    BY DEF PosInv, TypeOK
  <1>3. SeqInv'
    BY DEF SeqInv, TypeOK
  <1>4. WriteInv'
    BY DEF TypeOK, WriteInv
  <1>5. CasInv'
    <2>1. ASSUME ppos[p] = tail, Dif(seq[Slot(tail)], tail) = 0
          PROVE  seq[Slot(tail)] = tail
      <3>1. tail \in Int
        BY DEF TypeOK
      <3>2. seq[Slot(tail)] \in Int /\ tail - Cap <= seq[Slot(tail)] /\ seq[Slot(tail)] < tail + Cap
        BY <3>1, SeqNear
      <3>3. Dif(seq[Slot(tail)], tail) = seq[Slot(tail)] - tail
        BY <3>1, <3>2, CloseBits
      <3> QED
        BY <2>1, <3>1, <3>2, <3>3
    <2> QED
      BY <2>1 DEF CasInv, TypeOK
  <1>6. ScanInv'
    BY DEF ScanInv, TypeOK
  <1>7. ReadInv'
    BY DEF ReadInv, TypeOK
  <1>8. CellInv'
    BY DEF CellInv, TypeOK
  <1>9. CopiesAreTheLog'
    BY DEF CopiesAreTheLog, TypeOK
  <1> QED
    BY <1>1, <1>2, <1>3, <1>4, <1>5, <1>6, <1>7, <1>8, <1>9

(* A push reads tail again. *)
LEMMA PushReloadStep ==
    ASSUME IInv, NEW p \in Producers, PushReload(p)
    PROVE  IInv'
  <1> USE Constants DEF IInv, PushReload, ring, push, pop
  <1>1. TypeOK'
    BY DEF TypeOK
  <1>2. PosInv'
    BY DEF PosInv, TypeOK
  <1>3. SeqInv'
    BY DEF SeqInv, TypeOK
  <1>4. WriteInv'
    BY DEF TypeOK, WriteInv
  <1>5. CasInv'
    BY DEF CasInv, TypeOK
  <1>6. ScanInv'
    BY DEF ScanInv, TypeOK
  <1>7. ReadInv'
    BY DEF ReadInv, TypeOK
  <1>8. CellInv'
    BY DEF CellInv, TypeOK
  <1>9. CopiesAreTheLog'
    BY DEF CopiesAreTheLog, TypeOK
  <1> QED
    BY <1>1, <1>2, <1>3, <1>4, <1>5, <1>6, <1>7, <1>8, <1>9

(* A push that finds tail where it read it takes the next position; its cell is *)
(* free, so less than Cap positions are in use.                                  *)
LEMMA PushCasStep ==
    ASSUME IInv, NEW p \in Producers, PushCas(p)
    PROVE  IInv'
  <1> USE Constants DEF IInv, ring, push, pop
  <1>0. SameBits(tail, ppos[p]) <=> ppos[p] = tail
    <2>1. tail \in Int /\ ppos[p] \in Int /\ ppos[p] <= tail /\ tail - ppos[p] <= MaxLag
      BY DEF TypeOK, PosInv, PushCas
    <2>2. tail - ppos[p] <= MaxLag + 2 * Cap /\ ppos[p] - tail <= MaxLag + 2 * Cap
      BY <2>1
    <2> QED
      BY <2>1, <2>2, CloseBits
  <1>1. CASE ppos[p] # tail
    <2> USE <1>0, <1>1 DEF PushCas
    <2>1. TypeOK'
      BY DEF TypeOK
    <2>2. PosInv'
      BY DEF PosInv, TypeOK
    <2>3. SeqInv'
      BY DEF SeqInv, TypeOK
    <2>4. WriteInv'
      <3>1. \A r \in Producers : ppc'[r] \in {"write", "publish"} => ppc'[r] = ppc[r]
        BY DEF TypeOK
      <3>2. UNCHANGED <<head, tail, seq, cell, log, ppos, ptask>>
        OBVIOUS
      <3> HIDE DEF PushCas
      <3> QED
        BY <3>1, <3>2 DEF WriteInv
    <2>5. CasInv'
      BY DEF CasInv, TypeOK
    <2>6. ScanInv'
      BY DEF ScanInv, TypeOK
    <2>7. ReadInv'
      BY DEF ReadInv, TypeOK
    <2>8. CellInv'
      BY DEF CellInv, TypeOK
    <2>9. CopiesAreTheLog'
      <3>1. CopiesAreTheLog /\ UNCHANGED <<cpc, ci, out, log, cpos>>
        OBVIOUS
      <3> HIDE DEF IInv, PushCas
      <3> QED
        BY <3>1 DEF CopiesAreTheLog
    <2> QED
      BY <2>1, <2>2, <2>3, <2>4, <2>5, <2>6, <2>7, <2>8, <2>9
  <1>2. CASE ppos[p] = tail
    <2>a. /\ tail \in Int /\ head \in Int /\ Start <= head /\ head <= tail /\ tail <= head + Cap
          /\ seq[Slot(tail)] = tail /\ ppc[p] = "cas" /\ ptask[p] \in Tasks
      BY <1>2 DEF CasInv, SeqInv, TypeOK, PushCas
    <2>b. /\ tail' = tail + 1 /\ TailMayAdvance(p)
          /\ log' = [q \in Start .. tail |-> IF q = tail THEN ptask[p] ELSE log[q]]
          /\ ppc' = [ppc EXCEPT ![p] = "write"]
          /\ UNCHANGED <<head, seq, cell, ppos, ptask, unsent, pop>>
      BY <1>0, <1>2 DEF PushCas
    <2>c. Slot(tail - Cap) = Slot(tail) /\ tail - Cap < head
      <3>1. Slot(tail - Cap) = Slot(tail) /\ tail - Cap \in Int
        BY <2>a, SlotTurn
      <3> QED
        BY <2>a, <3>1 DEF SeqInv
    <2>d. /\ \A q \in Int : (Start <= q /\ q < tail) => log'[q] = log[q]
          /\ log'[tail] = ptask[p]
      BY <2>a, <2>b
    <2>e. \A r \in Producers : r # p => ppc'[r] = ppc[r]
      BY <2>b DEF TypeOK
    <2>f. ppc'[p] = "write"
      BY <2>b DEF TypeOK
    <2>1. TypeOK'
      BY <2>a, <2>b DEF TypeOK
    <2>2. PosInv'
      <3>1. ASSUME NEW r \in Producers, ppc'[r] \in {"read", "cas", "reload"}
            PROVE  ppos[r] <= tail + 1 /\ tail + 1 - ppos[r] <= MaxLag
        BY <2>a, <2>b, <2>e, <2>f, <3>1 DEF PosInv, TypeOK, TailMayAdvance
      <3>2. \A c \in Consumers : cpc[c] \in {"scan", "cas"} =>
               cpos[c] <= head /\ head - cpos[c] <= MaxLag
        BY DEF PosInv
      <3>3. tail' = tail + 1 /\ head' = head /\ ppos' = ppos /\ cpos' = cpos /\ cpc' = cpc
        BY <2>b
      <3> QED
        BY <2>a, <3>1, <3>2, <3>3 DEF PosInv, TypeOK
    <2>3. SeqInv'
      <3>1. ASSUME NEW q \in Int, tail + 1 - Cap <= q, q < tail + 1
            PROVE  /\ q >= head => seq[Slot(q)] \in {q, q + 1}
                   /\ q <  head => seq[Slot(q)] \in {q + 1, q + Cap}
        <4>1. CASE q = tail
          BY <4>1, <2>a
        <4>2. CASE q # tail
          BY <3>1, <4>2, <2>a DEF SeqInv
        <4> QED
          BY <4>1, <4>2
      <3> QED
        BY <2>a, <2>b, <2>c, <3>1 DEF SeqInv
    <2>4. WriteInv'
      <3>1. ASSUME NEW r \in Producers, ppc'[r] \in {"write", "publish"}
            PROVE  /\ head <= ppos[r] /\ ppos[r] < tail + 1 /\ seq[Slot(ppos[r])] = ppos[r]
                   /\ log'[ppos[r]] = ptask[r]
                   /\ ppc'[r] = "publish" => cell[Slot(ppos[r])] = ptask[r]
                   /\ r # p => ppos[r] < tail
        <4>1. CASE r = p
          BY <4>1, <1>2, <2>a, <2>d, <2>f
        <4>2. CASE r # p
          <5>1. /\ head <= ppos[r] /\ ppos[r] < tail /\ seq[Slot(ppos[r])] = ppos[r]
                /\ log[ppos[r]] = ptask[r] /\ ppos[r] \in Int
                /\ ppc[r] = "publish" => cell[Slot(ppos[r])] = ptask[r]
            BY <3>1, <4>2, <2>e DEF WriteInv, TypeOK
          <5> QED
            BY <5>1, <4>2, <2>a, <2>d, <2>e
        <4> QED
          BY <4>1, <4>2
      <3>2. ASSUME NEW r \in Producers, NEW u \in Producers, r # u,
                   ppc'[r] \in {"write", "publish"}, ppc'[u] \in {"write", "publish"}
            PROVE  ppos[r] # ppos[u]
        <4>1. CASE r = p
          BY <4>1, <3>1, <3>2, <1>2, <2>a
        <4>2. CASE u = p
          BY <4>2, <3>1, <3>2, <1>2, <2>a
        <4>3. CASE r # p /\ u # p
          BY <4>3, <3>2, <2>e DEF WriteInv
        <4> QED
          BY <4>1, <4>2, <4>3
      <3> QED
        BY <3>1, <3>2, <2>b DEF WriteInv
    <2>5. CasInv'
      <3>1. ASSUME NEW r \in Producers, ppc'[r] = "cas", ppos[r] = tail + 1 PROVE FALSE
        BY <3>1, <2>a, <2>e, <2>f DEF PosInv
      <3> QED
        BY <3>1, <2>b DEF CasInv
    <2>6. ScanInv'
      BY SMTT(30), <2>a, <2>b DEF ScanInv
    <2>7. ReadInv'
      <3>1. ASSUME NEW c \in Consumers, cpc[c] \in {"copy", "recycle"}, NEW q \in Int,
                   cpos[c] + ci[c] <= q, q < cpos[c] + cn[c]
            PROVE  tail + 1 - Cap <= q
        <4>1. tail - Cap <= q /\ seq[Slot(q)] = q + 1
          BY <3>1 DEF ReadInv
        <4> QED
          BY <4>1, <2>a, <2>c
      <3> QED
        BY <3>1, <2>a, <2>b DEF ReadInv
    <2>8. CellInv'
      <3>1. ASSUME NEW q \in Int, tail + 1 - Cap <= q, q < tail + 1, Start <= q,
                   seq[Slot(q)] = q + 1
            PROVE  cell[Slot(q)] = log'[q]
        <4>1. q < tail
          BY <3>1, <2>a
        <4> QED
          BY <3>1, <4>1, <2>a, <2>d DEF CellInv
      <3>2. tail' = tail + 1 /\ seq' = seq /\ cell' = cell
        BY <2>b
      <3> QED
        BY <2>a, <3>1, <3>2 DEF CellInv
    <2>9. CopiesAreTheLog'
      <3>1. ASSUME NEW c \in Consumers, cpc[c] \in {"copy", "recycle"}, NEW k \in 0 .. Batch - 1,
                   k <= ci[c]
            PROVE  log'[cpos[c] + k] = log[cpos[c] + k]
        BY SMTT(30), <3>1, <2>a, <2>d DEF ReadInv, TypeOK
      <3>2. \A c \in Consumers, k \in 0 .. Batch - 1 :
               (k < ci[c] \/ (k = ci[c] /\ cpc[c] = "recycle")) => k <= ci[c]
        BY DEF TypeOK
      <3> QED
        BY <3>1, <3>2, <2>b DEF CopiesAreTheLog
    <2> QED
      BY <2>1, <2>2, <2>3, <2>4, <2>5, <2>6, <2>7, <2>8, <2>9
  <1> QED
    BY <1>1, <1>2

(* A push writes the cell it owns. *)
LEMMA PushWriteStep ==
    ASSUME IInv, NEW p \in Producers, PushWrite(p)
    PROVE  IInv'
  <1> USE Constants DEF IInv, PushWrite, ring, push, pop
  <1>1. TypeOK'
    BY SlotCell, SlotApart DEF TypeOK, WriteInv
  <1>2. PosInv'
    BY DEF PosInv, TypeOK
  <1>3. SeqInv'
    BY DEF SeqInv, TypeOK
  <1>4. WriteInv'
    <2>1. ASSUME NEW r \in Producers, ppc[r] \in {"write", "publish"}, r # p
          PROVE  cell'[Slot(ppos[r])] = cell[Slot(ppos[r])]
      <3>1. /\ ppos[r] \in Int /\ head <= ppos[r] /\ ppos[r] < tail
            /\ ppos[p] \in Int /\ head <= ppos[p] /\ ppos[p] < tail
            /\ ppos[r] # ppos[p] /\ tail \in Int /\ head \in Int
        BY <2>1 DEF WriteInv, TypeOK
      <3>2. Slot(ppos[r]) # Slot(ppos[p])
        BY <3>1, SlotApart DEF SeqInv
      <3> QED
        BY <3>1, <3>2, SlotCell DEF TypeOK
    <2>2. cell'[Slot(ppos[p])] = ptask[p]
      BY SlotCell DEF TypeOK
    <2>3. \A r \in Producers : ppc'[r] = IF r = p THEN "publish" ELSE ppc[r]
      BY DEF TypeOK
    <2> QED
      BY <2>1, <2>2, <2>3 DEF WriteInv
  <1>5. CasInv'
    BY DEF CasInv, TypeOK
  <1>6. ScanInv'
    BY DEF ScanInv, TypeOK
  <1>7. ReadInv'
    BY DEF ReadInv, TypeOK
  <1>8. CellInv'
    BY SlotCell, SlotApart DEF CellInv, SeqInv, TypeOK, WriteInv
  <1>9. CopiesAreTheLog'
    BY DEF CopiesAreTheLog, TypeOK
  <1> QED
    BY <1>1, <1>2, <1>3, <1>4, <1>5, <1>6, <1>7, <1>8, <1>9

(* A push publishes the cell it owns: the seqno of one position of the window *)
(* changes, from q to q + 1.                                                     *)
LEMMA PushPublishStep ==
    ASSUME IInv, NEW p \in Producers, PushPublish(p)
    PROVE  IInv'
  <1> USE Constants DEF IInv, ring, push, pop
  <1> DEFINE x == ppos[p]
  <1>0. ppc[p] = "publish" /\ ppos[p] \in Int /\ tail \in Int /\ head \in Int
    BY DEF TypeOK, PushPublish
  <1>a. /\ x \in Int /\ head <= x /\ x < tail /\ tail - Cap <= x /\ tail \in Int /\ head \in Int
        /\ seq[Slot(x)] = x /\ cell[Slot(x)] = log[x] /\ Start <= x
        /\ Slot(x) \in Cells
    BY <1>0, SlotCell DEF WriteInv, SeqInv
  <1>b. seq' = [seq EXCEPT ![Slot(x)] = x + 1] /\ ppc' = [ppc EXCEPT ![p] = "idle"]
        /\ UNCHANGED <<tail, head, cell, ppos, ptask, unsent, log, pop>>
    BY DEF PushPublish
  <1> HIDE DEF x
  <1>c. seq'[Slot(x)] = x + 1
    BY <1>a, <1>b DEF TypeOK
  <1>d. \A q \in Int : (tail - Cap <= q /\ q < tail /\ q # x) => seq'[Slot(q)] = seq[Slot(q)]
    <2> SUFFICES ASSUME NEW q \in Int, tail - Cap <= q, q < tail, q # x
                 PROVE  Slot(q) # Slot(x)
      BY <1>b, SlotCell DEF TypeOK
    <2>1. /\ q \in Int /\ tail - Cap <= q /\ q < tail /\ q # x /\ Cap \in Nat
          /\ x \in Int /\ tail - Cap <= x /\ x < tail /\ tail \in Int
      BY <1>a, Constants
    <2>2. (q < x /\ x < q + Cap) \/ (x < q /\ q < x + Cap)
      BY ONLY <2>1
    <2> QED
      BY ONLY <2>1, <2>2, SlotApart
  <1>1. TypeOK'
    BY <1>a, <1>b DEF TypeOK
  <1>2. PosInv'
    BY <1>b DEF PosInv, TypeOK
  <1>3. SeqInv'
    BY <1>a, <1>b, <1>c, <1>d DEF SeqInv
  <1>4. WriteInv'
    <2>1. \A r \in Producers : ppc'[r] \in {"write", "publish"} =>
             r # p /\ ppc[r] \in {"write", "publish"} /\ ppos[r] # x /\ ppos[r] \in Int
      BY <1>b DEF TypeOK, WriteInv, x, PushPublish
    <2> QED
      BY <1>a, <1>b, <1>d, <2>1 DEF WriteInv, SeqInv, TypeOK
  <1>5. CasInv'
    <2> SUFFICES ASSUME NEW r \in Producers, ppc[r] = "cas", ppos[r] = tail
                 PROVE  seq'[Slot(tail)] = tail
      BY <1>b DEF CasInv, TypeOK
    <2>1. seq[Slot(tail)] = tail
      BY DEF CasInv
    <2>2. Slot(tail) # Slot(x)
      BY <2>1, <1>a
    <2> QED
      BY <1>a, <1>b, <2>1, <2>2, SlotCell DEF TypeOK
  <1>6. ScanInv'
    <2> SUFFICES ASSUME NEW c \in Consumers, cpc[c] \in {"scan", "cas"}, NEW q \in Int,
                        cpos[c] <= q, q < cpos[c] + cn[c], head <= q
                 PROVE  q < tail /\ seq'[Slot(q)] = q + 1
      BY <1>b DEF ScanInv
    <2>1. q < tail /\ seq[Slot(q)] = q + 1
      BY DEF ScanInv
    <2> QED
      BY <2>1, <1>a, <1>d DEF SeqInv
  <1>7. ReadInv'
    <2> SUFFICES ASSUME NEW c \in Consumers, cpc[c] \in {"copy", "recycle"}, NEW q \in Int,
                        cpos[c] + ci[c] <= q, q < cpos[c] + cn[c]
                 PROVE  seq'[Slot(q)] = q + 1
      BY <1>b DEF ReadInv
    <2>1. tail - Cap <= q /\ seq[Slot(q)] = q + 1 /\ q < head
      BY DEF ReadInv, TypeOK
    <2> QED
      BY <2>1, <1>a, <1>d
  <1>8. CellInv'
    BY <1>a, <1>b, <1>c, <1>d DEF CellInv
  <1>9. CopiesAreTheLog'
    BY <1>b DEF CopiesAreTheLog
  <1> QED
    BY <1>1, <1>2, <1>3, <1>4, <1>5, <1>6, <1>7, <1>8, <1>9

(* A pop begins, or begins again: it only reads head. *)
LEMMA PopLoadStep ==
    ASSUME IInv, NEW c \in Consumers, PopLoad(c)
    PROVE  IInv'
  <1> USE Constants DEF IInv, PopLoad, ring, push, pop
  <1>1. TypeOK'
    BY DEF TypeOK
  <1>2. PosInv'
    BY DEF PosInv, TypeOK
  <1>3. SeqInv'
    BY DEF SeqInv, TypeOK
  <1>4. WriteInv'
    BY DEF TypeOK, WriteInv
  <1>5. CasInv'
    BY DEF CasInv, TypeOK
  <1>6. ScanInv'
    BY DEF ScanInv, TypeOK
  <1>7. ReadInv'
    <2>1. \A d \in Consumers : cpc'[d] \in {"copy", "recycle"} =>
            cpc[d] \in {"copy", "recycle"} /\ ci'[d] = ci[d] /\ cn'[d] = cn[d]
            /\ cpos'[d] = cpos[d]
      BY DEF TypeOK
    <2>2. ReadInv /\ UNCHANGED <<tail, head, seq>>
      OBVIOUS
    <2> HIDE DEF IInv, PopLoad
    <2> QED
      BY <2>1, <2>2 DEF ReadInv
  <1>8. CellInv'
    BY DEF CellInv, TypeOK
  <1>9. CopiesAreTheLog'
    BY DEF CopiesAreTheLog, TypeOK
  <1> QED
    BY <1>1, <1>2, <1>3, <1>4, <1>5, <1>6, <1>7, <1>8, <1>9

(* A pop reads one more seqno. *)
LEMMA PopScanStep ==
    ASSUME IInv, NEW c \in Consumers, PopScan(c)
    PROVE  IInv'
  <1> USE Constants DEF IInv, PopScan, ring, push, pop
  <1>1. TypeOK'
    <2>1. CASE cn[c] < Batch /\ Published(c)
      BY <2>1 DEF TypeOK
    <2>2. CASE ~(cn[c] < Batch /\ Published(c))
      BY <2>2 DEF TypeOK
    <2> QED
      BY <2>1, <2>2
  <1>2. PosInv'
    BY DEF PosInv, TypeOK
  <1>3. SeqInv'
    BY DEF SeqInv, TypeOK
  <1>4. WriteInv'
    BY DEF TypeOK, WriteInv
  <1>5. CasInv'
    BY DEF CasInv, TypeOK
  <1>6. ScanInv'
    <2> DEFINE q == cpos[c] + cn[c]
    <2>1. CASE cn[c] < Batch /\ Published(c)
      <3>1. q \in Int /\ tail \in Int
        BY DEF TypeOK
      <3>2. seq[Slot(q)] \in Int /\ tail - Cap <= seq[Slot(q)] /\ seq[Slot(q)] < tail + Cap
        BY <3>1, SeqNear
      <3>3. /\ cpos[c] \in Int /\ cn[c] \in Nat /\ cn[c] < Batch /\ head \in Int
            /\ cpos[c] <= head /\ head - cpos[c] <= MaxLag
            /\ head <= tail /\ tail <= head + Cap /\ q = cpos[c] + cn[c]
        BY <2>1 DEF TypeOK, PosInv, SeqInv
      <3>d. Dif(seq[Slot(q)], q + 1) = seq[Slot(q)] - (q + 1)
        <4> HIDE DEF q, PopScan
        <4>1. q + 1 \in Int /\ seq[Slot(q)] - (q + 1) <= MaxLag + 2 * Cap
              /\ (q + 1) - seq[Slot(q)] <= MaxLag + 2 * Cap
          BY <3>3, <3>1, <3>2
        <4> QED
          BY <3>2, <4>1, CloseBits
      <3>4. seq[Slot(q)] = q + 1
        BY <2>1, <3>1, <3>2, <3>d DEF Published
      <3>5. q < tail
        <4> SUFFICES ASSUME tail <= q PROVE FALSE
          BY <3>1
        <4>1. tail - Cap <= q - Cap /\ q - Cap < tail /\ q - Cap \in Int
          <5> HIDE DEF q, IInv, PopScan
          <5> QED
            BY <3>3, <3>1
        <4>2. seq[Slot(q - Cap)] <= q
          BY SMTT(30), <4>1, <3>1 DEF SeqInv, TypeOK
        <4>3. Slot(q - Cap) = Slot(q)
          BY <3>1, SlotTurn
        <4> QED
          BY <4>2, <4>3, <3>1, <3>4
      <3> QED
        <4>1. cn' = [cn EXCEPT ![c] = @ + 1] /\ UNCHANGED <<cpc, cpos, ring>>
          BY <2>1
        <4>2. ASSUME NEW d \in Consumers, cpc[d] \in {"scan", "cas"}, NEW r \in Int,
                     cpos[d] <= r, r < cpos[d] + cn'[d], head <= r
              PROVE  r < tail /\ seq[Slot(r)] = r + 1
          <5>1. CASE d = c /\ r = q
            BY <5>1, <3>4, <3>5
          <5>2. CASE d # c \/ r # q
            <6>1. cpos[d] \in Int /\ cn[d] \in Nat /\ cn'[d] = IF d = c THEN cn[d] + 1 ELSE cn[d]
              BY <4>1 DEF TypeOK
            <6>2. r < cpos[d] + cn[d]
              BY <4>2, <5>2, <6>1
            <6> QED
              BY <6>2, <4>2 DEF ScanInv
          <5> QED
            BY <5>1, <5>2
        <4>3. \A d \in Consumers : cpc[d] = "cas" => cn'[d] >= 1
          BY <4>1 DEF ScanInv, TypeOK
        <4> QED
          BY <4>1, <4>2, <4>3 DEF ScanInv
    <2>2. CASE ~(cn[c] < Batch /\ Published(c))
      <3>1. /\ cpc' = [cpc EXCEPT ![c] = IF cn[c] = 0 THEN "idle" ELSE "cas"]
            /\ UNCHANGED <<cn, cpos, ring>> /\ cpc[c] = "scan"
        BY <2>2
      <3>2. \A d \in Consumers : cpc'[d] \in {"scan", "cas"} => cpc[d] \in {"scan", "cas"}
        BY <3>1 DEF TypeOK
      <3>3. \A d \in Consumers : cpc'[d] = "cas" => cn[d] >= 1
        BY <3>1 DEF TypeOK, ScanInv
      <3> QED
        BY <3>1, <3>2, <3>3 DEF ScanInv
    <2> QED
      BY <2>1, <2>2
  <1>7. ReadInv'
    <2>1. \A d \in Consumers : cpc'[d] \in {"copy", "recycle"} =>
            cpc[d] \in {"copy", "recycle"} /\ ci'[d] = ci[d] /\ cn'[d] = cn[d]
            /\ cpos'[d] = cpos[d]
      BY DEF TypeOK
    <2>2. ReadInv /\ UNCHANGED <<tail, head, seq>>
      OBVIOUS
    <2> HIDE DEF IInv, PopScan
    <2> QED
      BY <2>1, <2>2 DEF ReadInv
  <1>8. CellInv'
    BY DEF CellInv, TypeOK
  <1>9. CopiesAreTheLog'
    <2>1. CopiesAreTheLog /\ UNCHANGED <<cell, out, log>>
      BY DEF CopiesAreTheLog
    <2>2. \A d \in Consumers : cpc'[d] \in {"copy", "recycle"} =>
            cpc[d] \in {"copy", "recycle"} /\ ci'[d] = ci[d] /\ cpos'[d] = cpos[d] /\ cpc'[d] = cpc[d]
      BY DEF TypeOK
    <2> HIDE DEF IInv, PopScan
    <2> QED
      BY <2>1, <2>2 DEF CopiesAreTheLog
  <1> QED
    BY <1>1, <1>2, <1>3, <1>4, <1>5, <1>6, <1>7, <1>8, <1>9

(* A pop that finds head where it read it takes the cells it counted. *)
LEMMA PopCasStep ==
    ASSUME IInv, NEW c \in Consumers, PopCas(c)
    PROVE  IInv'
  <1> USE Constants DEF IInv, ring, push, pop
  <1>0. SameBits(head, cpos[c]) <=> cpos[c] = head
    <2>1. head \in Int /\ cpos[c] \in Int /\ cpos[c] <= head /\ head - cpos[c] <= MaxLag
      BY DEF TypeOK, PosInv, PopCas
    <2>2. head - cpos[c] <= MaxLag + 2 * Cap /\ cpos[c] - head <= MaxLag + 2 * Cap
      BY <2>1
    <2> QED
      BY <2>1, <2>2, CloseBits
  <1>1. CASE cpos[c] # head
    <2> USE <1>0, <1>1 DEF PopCas
    <2>1. TypeOK'
      <3>1. ci' \in [Consumers -> 0 .. Batch]
        BY DEF TypeOK
      <3>2. cpc' \in [Consumers -> {"idle", "load", "scan", "cas", "copy", "recycle"}]
        BY DEF TypeOK
      <3> QED
        BY <3>1, <3>2 DEF TypeOK
    <2>2. PosInv'
      BY DEF PosInv, TypeOK
    <2>3. SeqInv'
      BY DEF SeqInv, TypeOK
    <2>4. WriteInv'
      BY DEF TypeOK, WriteInv
    <2>5. CasInv'
      BY DEF CasInv, TypeOK
    <2>6. ScanInv'
      BY DEF ScanInv, TypeOK
    <2>7. ReadInv'
      <3>1. \A d \in Consumers : cpc'[d] \in {"copy", "recycle"} =>
              cpc[d] \in {"copy", "recycle"} /\ ci'[d] = ci[d]
        BY DEF TypeOK
      <3>2. ReadInv /\ UNCHANGED <<tail, head, seq, cpos, cn>>
        OBVIOUS
      <3> HIDE DEF IInv, PopCas
      <3> QED
        BY <3>1, <3>2 DEF ReadInv
    <2>8. CellInv'
      BY DEF CellInv, TypeOK
    <2>9. CopiesAreTheLog'
      BY DEF CopiesAreTheLog, TypeOK
    <2> QED
      BY <2>1, <2>2, <2>3, <2>4, <2>5, <2>6, <2>7, <2>8, <2>9
  <1>2. CASE cpos[c] = head
    <2>a. /\ head \in Int /\ tail \in Int /\ cn[c] \in Nat /\ cn[c] >= 1 /\ cn[c] <= Batch
          /\ cpc[c] = "cas" /\ Start <= head /\ head <= tail /\ tail <= head + Cap
      BY DEF TypeOK, ScanInv, SeqInv, PopCas
    <2>b. /\ head' = head + cn[c] /\ HeadMayAdvance(c)
          /\ cpc' = [cpc EXCEPT ![c] = "copy"] /\ ci' = [ci EXCEPT ![c] = 0]
          /\ UNCHANGED <<tail, seq, cell, push, cpos, cn, out, result>>
      BY <1>0, <1>2 DEF PopCas
    <2>c. \A q \in Int : (head <= q /\ q < head + cn[c]) => q < tail /\ seq[Slot(q)] = q + 1
      BY <1>2, <2>a DEF ScanInv
    <2>d. head + cn[c] <= tail
      <3>1. head + cn[c] - 1 < tail
        BY <2>a, <2>c, head + cn[c] - 1 \in Int
      <3> QED
        BY <3>1, <2>a
    <2>e. \A d \in Consumers : d # c => cpc'[d] = cpc[d] /\ ci'[d] = ci[d]
      BY <2>b DEF TypeOK
    <2>f. cpc'[c] = "copy" /\ ci'[c] = 0
      BY <2>b DEF TypeOK
    <2>1. TypeOK'
      <3>1. head' \in Nat /\ ci' \in [Consumers -> 0 .. Batch]
            /\ cpc' \in [Consumers -> {"idle", "load", "scan", "cas", "copy", "recycle"}]
        BY <2>a, <2>b DEF TypeOK
      <3> QED
        BY <2>b, <3>1 DEF TypeOK
    <2>2. PosInv'
      <3>1. ASSUME NEW d \in Consumers, cpc'[d] \in {"scan", "cas"}
            PROVE  cpos[d] <= head + cn[c] /\ head + cn[c] - cpos[d] <= MaxLag
        BY SMTT(30), <2>a, <2>b, <2>e, <2>f, <3>1 DEF PosInv, TypeOK, HeadMayAdvance
      <3>2. \A p \in Producers : ppc[p] \in {"read", "cas", "reload"} =>
               ppos[p] <= tail /\ tail - ppos[p] <= MaxLag
        BY DEF PosInv
      <3>3. head' = head + cn[c] /\ tail' = tail /\ cpos' = cpos /\ ppos' = ppos /\ ppc' = ppc
        BY <2>b
      <3> QED
        BY SMTT(30), <2>a, <3>1, <3>2, <3>3 DEF PosInv, TypeOK
    <2>3. SeqInv'
      BY <2>a, <2>b, <2>c, <2>d DEF SeqInv
    <2>4. WriteInv'
      <3>1. ASSUME NEW p \in Producers, ppc[p] \in {"write", "publish"}
            PROVE  head + cn[c] <= ppos[p]
        <4>1. ppos[p] \in Int /\ head <= ppos[p] /\ seq[Slot(ppos[p])] = ppos[p]
          BY <3>1 DEF WriteInv, TypeOK
        <4> QED
          BY <4>1, <2>a, <2>c
      <3> QED
        BY <2>b, <3>1 DEF WriteInv
    <2>5. CasInv'
      BY <2>b DEF CasInv
    <2>6. ScanInv'
      <3>1. ASSUME NEW d \in Consumers, cpc'[d] \in {"scan", "cas"} PROVE d # c /\ cpc[d] = cpc'[d]
        BY <2>e, <2>f, <3>1
      <3>2. \A q \in Int : head + cn[c] <= q => head <= q
        BY <2>a
      <3>3. ASSUME NEW d \in Consumers, cpc'[d] \in {"scan", "cas"}
            PROVE  /\ cpc'[d] = "cas" => cn[d] >= 1
                   /\ \A q \in Int : (cpos[d] <= q /\ q < cpos[d] + cn[d] /\ head + cn[c] <= q) =>
                         q < tail /\ seq[Slot(q)] = q + 1
        BY <3>1, <3>2, <3>3 DEF ScanInv
      <3> QED
        BY <2>b, <3>3 DEF ScanInv
    <2>7. ReadInv'
      <3>1. ASSUME NEW d \in Consumers, cpc'[d] \in {"copy", "recycle"}
            PROVE  /\ Start <= cpos[d] /\ ci'[d] < cn[d] /\ cpos[d] + cn[d] <= head + cn[c]
                   /\ d # c => cpos[d] + cn[d] <= head
                   /\ \A q \in Int : (cpos[d] + ci'[d] <= q /\ q < cpos[d] + cn[d]) =>
                         tail - Cap <= q /\ seq[Slot(q)] = q + 1
        <4>1. CASE d = c
          BY <4>1, <1>2, <2>a, <2>c, <2>f
        <4>2. CASE d # c
          <5>1. /\ Start <= cpos[d] /\ ci[d] < cn[d] /\ cpos[d] + cn[d] <= head
                /\ \A q \in Int : (cpos[d] + ci[d] <= q /\ q < cpos[d] + cn[d]) =>
                      tail - Cap <= q /\ seq[Slot(q)] = q + 1
            BY <3>1, <4>2, <2>e DEF ReadInv
          <5>2. cpos[d] \in Nat /\ cn[d] \in Nat
            BY DEF TypeOK
          <5> QED
            BY <4>2, <5>1, <5>2, <2>a, <2>e
        <4> QED
          BY <4>1, <4>2
      <3>2. ASSUME NEW d \in Consumers, NEW e \in Consumers, d # e,
                   cpc'[d] \in {"copy", "recycle"}, cpc'[e] \in {"copy", "recycle"}
            PROVE  cpos[d] + cn[d] <= cpos[e] \/ cpos[e] + cn[e] <= cpos[d]
        <4>1. CASE d = c
          BY <4>1, <3>1, <3>2, <1>2
        <4>2. CASE e = c
          BY <4>2, <3>1, <3>2, <1>2
        <4>3. CASE d # c /\ e # c
          BY <4>3, <3>2, <2>e DEF ReadInv
        <4> QED
          BY <4>1, <4>2, <4>3
      <3> QED
        BY <2>b, <3>1, <3>2 DEF ReadInv
    <2>8. CellInv'
      BY <2>b DEF CellInv
    <2>9. CopiesAreTheLog'
      BY <2>b, <2>e, <2>f DEF CopiesAreTheLog
    <2> QED
      BY <2>1, <2>2, <2>3, <2>4, <2>5, <2>6, <2>7, <2>8, <2>9
  <1> QED
    BY <1>1, <1>2

(* A pop copies a cell it owns. *)
LEMMA PopCopyStep ==
    ASSUME IInv, NEW c \in Consumers, PopCopy(c)
    PROVE  IInv'
  <1> USE Constants DEF IInv, PopCopy, ring, push, pop
  <1>0. /\ ci[c] \in 0 .. Batch - 1 /\ cpos[c] + ci[c] \in Int /\ cpos[c] + ci[c] < head
        /\ tail - Cap <= cpos[c] + ci[c] /\ Start <= cpos[c] + ci[c]
        /\ seq[Slot(cpos[c] + ci[c])] = cpos[c] + ci[c] + 1
    <2>1. cpc[c] = "copy" /\ ci[c] \in Nat /\ cn[c] \in Nat /\ cn[c] <= Batch /\ cpos[c] \in Nat
      BY DEF TypeOK
    <2>2. Start <= cpos[c] /\ ci[c] < cn[c] /\ cpos[c] + cn[c] <= head
      BY <2>1 DEF ReadInv
    <2>3. head \in Int /\ tail \in Int
      BY DEF TypeOK
    <2>4. \A q \in Int : (cpos[c] + ci[c] <= q /\ q < cpos[c] + cn[c]) =>
             tail - Cap <= q /\ seq[Slot(q)] = q + 1
      BY <2>1 DEF ReadInv
    <2> QED
      BY <2>1, <2>2, <2>3, <2>4
  <1>1. TypeOK'
    <2>1. cell[Slot(cpos[c] + ci[c])] \in Tasks \cup {NoTask}
      BY <1>0, SlotCell DEF TypeOK
    <2> QED
      BY <1>0, <2>1 DEF TypeOK
  <1>2. PosInv'
    BY DEF PosInv, TypeOK
  <1>3. SeqInv'
    BY DEF SeqInv, TypeOK
  <1>4. WriteInv'
    BY DEF TypeOK, WriteInv
  <1>5. CasInv'
    BY DEF CasInv, TypeOK
  <1>6. ScanInv'
    BY DEF ScanInv, TypeOK
  <1>7. ReadInv'
    BY DEF ReadInv, TypeOK
  <1>8. CellInv'
    BY DEF CellInv, TypeOK
  <1>9. CopiesAreTheLog'
    <2>1. cell[Slot(cpos[c] + ci[c])] = log[cpos[c] + ci[c]]
      <3>1. head \in Int /\ tail \in Int /\ head <= tail
        BY DEF TypeOK, SeqInv
      <3>2. cpos[c] + ci[c] < tail
        BY <1>0, <3>1
      <3> QED
        BY <1>0, <3>2 DEF CellInv
    <2>2. /\ \A d \in Consumers : d # c => out'[d] = out[d] /\ cpc'[d] = cpc[d]
          /\ \A k \in 0 .. Batch - 1 :
                out'[c][k] = IF k = ci[c] THEN cell[Slot(cpos[c] + ci[c])] ELSE out[c][k]
      BY <1>0 DEF TypeOK
    <2> QED
      BY <1>0, <2>1, <2>2 DEF CopiesAreTheLog
  <1> QED
    BY <1>1, <1>2, <1>3, <1>4, <1>5, <1>6, <1>7, <1>8, <1>9

(* A pop gives a cell it owns back: the seqno of one position of the window  *)
(* changes, from q + 1 to q + Cap.                                              *)
LEMMA PopRecycleStep ==
    ASSUME IInv, NEW c \in Consumers, PopRecycle(c)
    PROVE  IInv'
  <1> USE Constants DEF IInv, ring, push, pop
  <1> DEFINE x == cpos[c] + ci[c]
  <1>a. /\ x \in Int /\ x < head /\ x < tail /\ tail - Cap <= x /\ tail \in Int /\ head \in Int
        /\ seq[Slot(x)] = x + 1 /\ Start <= x /\ Slot(x) \in Cells
        /\ cpc[c] = "recycle" /\ ci[c] < cn[c] /\ ci[c] \in Nat /\ cn[c] \in Nat /\ cn[c] <= Batch
        /\ cpos[c] \in Nat
    <2>1. /\ cpc[c] = "recycle" /\ ci[c] \in Nat /\ cn[c] \in Nat /\ cn[c] <= Batch
          /\ cpos[c] \in Nat /\ tail \in Int /\ head \in Int
      BY DEF TypeOK, PopRecycle
    <2>2. Start <= cpos[c] /\ ci[c] < cn[c] /\ cpos[c] + cn[c] <= head
      BY <2>1 DEF ReadInv
    <2>3. x \in Int /\ Slot(x) \in Cells
      BY <2>1, SlotCell
    <2>4. tail - Cap <= x /\ seq[Slot(x)] = x + 1
      BY <2>1, <2>2, <2>3 DEF ReadInv
    <2> QED
      BY <2>1, <2>2, <2>3, <2>4 DEF SeqInv
  <1>b. /\ seq' = [seq EXCEPT ![Slot(x)] = x + Cap] /\ ci' = [ci EXCEPT ![c] = @ + 1]
        /\ cpc' = [cpc EXCEPT ![c] = IF ci[c] + 1 = cn[c] THEN "idle" ELSE "copy"]
        /\ UNCHANGED <<tail, head, cell, push, cpos, cn, out>>
    BY DEF PopRecycle
  <1> HIDE DEF x
  <1>c. seq'[Slot(x)] = x + Cap
    BY <1>a, <1>b DEF TypeOK
  <1>d. \A q \in Int : (tail - Cap <= q /\ q < tail /\ q # x) => seq'[Slot(q)] = seq[Slot(q)]
    <2> SUFFICES ASSUME NEW q \in Int, tail - Cap <= q, q < tail, q # x
                 PROVE  Slot(q) # Slot(x)
      BY <1>b, SlotCell DEF TypeOK
    <2>1. /\ q \in Int /\ tail - Cap <= q /\ q < tail /\ q # x /\ Cap \in Nat
          /\ x \in Int /\ tail - Cap <= x /\ x < tail /\ tail \in Int
      BY <1>a, Constants
    <2>2. (q < x /\ x < q + Cap) \/ (x < q /\ q < x + Cap)
      BY ONLY <2>1
    <2> QED
      BY ONLY <2>1, <2>2, SlotApart
  <1>1. TypeOK'
    <2>1. x + Cap \in Nat /\ ci[c] + 1 \in 0 .. Batch
      BY <1>a, Constants DEF TypeOK
    <2>2. seq' \in [Cells -> Nat] /\ ci' \in [Consumers -> 0 .. Batch]
      BY <1>b, <2>1 DEF TypeOK
    <2>3. cpc' \in [Consumers -> {"idle", "load", "scan", "cas", "copy", "recycle"}]
      BY <1>b DEF TypeOK
    <2> QED
      BY <1>b, <2>2, <2>3 DEF TypeOK
  <1>2. PosInv'
    BY <1>a, <1>b DEF PosInv, TypeOK
  <1>3. SeqInv'
    BY <1>a, <1>b, <1>c, <1>d DEF SeqInv
  <1>4. WriteInv'
    <2> SUFFICES ASSUME NEW p \in Producers, ppc[p] \in {"write", "publish"}
                 PROVE  seq'[Slot(ppos[p])] = ppos[p]
      BY <1>b DEF WriteInv
    <2>1. ppos[p] \in Int /\ head <= ppos[p] /\ ppos[p] < tail /\ seq[Slot(ppos[p])] = ppos[p]
      BY DEF WriteInv, TypeOK
    <2> QED
      BY <2>1, <1>a, <1>d DEF SeqInv
  <1>5. CasInv'
    <2> SUFFICES ASSUME NEW r \in Producers, ppc[r] = "cas", ppos[r] = tail
                 PROVE  seq'[Slot(tail)] = tail
      BY <1>b DEF CasInv, TypeOK
    <2>1. seq[Slot(tail)] = tail
      BY DEF CasInv
    <2>2. CASE Slot(tail) = Slot(x)
      <3>1. (x = tail - 1 /\ x < tail /\ tail < x + Cap) \/ x # tail - 1
        BY <1>a
      <3> QED
        BY <2>1, <2>2, <3>1, <1>a, SlotApart
    <2>3. CASE Slot(tail) # Slot(x)
      BY <1>a, <1>b, <2>1, <2>3, SlotCell DEF TypeOK
    <2> QED
      BY <2>2, <2>3
  <1>6. ScanInv'
    <2> SUFFICES ASSUME NEW d \in Consumers, cpc'[d] \in {"scan", "cas"}
                 PROVE  /\ cpc'[d] = "cas" => cn[d] >= 1
                        /\ \A q \in Int : (cpos[d] <= q /\ q < cpos[d] + cn[d] /\ head <= q) =>
                              q < tail /\ seq'[Slot(q)] = q + 1
      BY <1>b DEF ScanInv
    <2>1. cpc[d] = cpc'[d]
      BY <1>a, <1>b DEF TypeOK
    <2>2. /\ cpc[d] = "cas" => cn[d] >= 1
          /\ \A q \in Int : (cpos[d] <= q /\ q < cpos[d] + cn[d] /\ head <= q) =>
                q < tail /\ seq[Slot(q)] = q + 1
      BY <2>1 DEF ScanInv
    <2> QED
      BY <2>1, <2>2, <1>a, <1>d DEF SeqInv
  <1>7. ReadInv'
    <2>1. \A d \in Consumers : cpc'[d] \in {"copy", "recycle"} =>
             /\ cpc[d] \in {"copy", "recycle"}
             /\ ci'[d] = IF d = c THEN ci[c] + 1 ELSE ci[d]
             /\ d = c => ci[c] + 1 # cn[c]
      BY <1>a, <1>b DEF TypeOK
    <2>2. ASSUME NEW d \in Consumers, cpc'[d] \in {"copy", "recycle"}, NEW q \in Int,
                 cpos[d] + ci'[d] <= q, q < cpos[d] + cn[d]
          PROVE  tail - Cap <= q /\ seq'[Slot(q)] = q + 1
      <3>1. cpos[d] + ci[d] <= q /\ q # x
        <4>1. CASE d = c
          <5> HIDE DEF IInv
          <5>1. cpos[c] + (ci[c] + 1) <= q
            BY <4>1, <2>1, <2>2
          <5> QED
            BY <4>1, <5>1, <1>a DEF x
        <4>2. CASE d # c
          <5>1. cpos[c] + cn[c] <= cpos[d] \/ cpos[d] + cn[d] <= cpos[c]
            BY <4>2, <2>1, <2>2, <1>a DEF ReadInv
          <5>2. ci[d] \in Nat /\ cpos[d] \in Nat /\ cn[d] \in Nat /\ ci'[d] = ci[d]
            BY <4>2, <2>1, <2>2 DEF TypeOK
          <5>3. cpos[c] <= x /\ x < cpos[c] + cn[c]
            BY <1>a DEF x
          <5> QED
            BY <5>1, <5>2, <5>3, <2>2, <1>a
        <4> QED
          BY <4>1, <4>2
      <3>2. tail - Cap <= q /\ seq[Slot(q)] = q + 1 /\ q < head
        BY SMTT(30), <3>1, <2>1, <2>2, <1>a DEF ReadInv, TypeOK
      <3> QED
        BY <3>1, <3>2, <1>a, <1>d DEF SeqInv
    <2>3. \A d \in Consumers : cpc'[d] \in {"copy", "recycle"} =>
             Start <= cpos[d] /\ ci'[d] < cn[d] /\ cpos[d] + cn[d] <= head
      <3> SUFFICES ASSUME NEW d \in Consumers, cpc'[d] \in {"copy", "recycle"}
                   PROVE  Start <= cpos[d] /\ ci'[d] < cn[d] /\ cpos[d] + cn[d] <= head
        OBVIOUS
      <3>1. Start <= cpos[d] /\ ci[d] < cn[d] /\ cpos[d] + cn[d] <= head
        BY <2>1 DEF ReadInv
      <3> QED
        BY <3>1, <2>1, <1>a
    <2>4. \A d, e \in Consumers :
             (d # e /\ cpc'[d] \in {"copy", "recycle"} /\ cpc'[e] \in {"copy", "recycle"})
                => cpos[d] + cn[d] <= cpos[e] \/ cpos[e] + cn[e] <= cpos[d]
      BY <2>1 DEF ReadInv
    <2> QED
      BY <1>b, <2>2, <2>3, <2>4 DEF ReadInv
  <1>8. CellInv'
    BY <1>a, <1>b, <1>c, <1>d DEF CellInv
  <1>9. CopiesAreTheLog'
    BY SMTT(30), <1>a, <1>b DEF CopiesAreTheLog, TypeOK
  <1> QED
    BY <1>1, <1>2, <1>3, <1>4, <1>5, <1>6, <1>7, <1>8, <1>9

-----------------------------------------------------------------------------
(* Every step of every thread preserves the invariant. *)
LEMMA NextInv == IInv /\ [Next]_vars => IInv'
  <1> SUFFICES ASSUME IInv, [Next]_vars PROVE IInv'
    OBVIOUS
  <1>1. ASSUME NEW p \in Producers, NEW t \in Tasks, PushStart(p, t) PROVE IInv'
    BY <1>1, PushStartStep
  <1>2. ASSUME NEW p \in Producers, PushStep(p) PROVE IInv'
    BY <1>2, PushReadStep, PushCasStep, PushReloadStep, PushWriteStep, PushPublishStep DEF PushStep
  <1>3. ASSUME NEW c \in Consumers, PopStep(c) PROVE IInv'
    BY <1>3, PopLoadStep, PopScanStep, PopCasStep, PopCopyStep, PopRecycleStep DEF PopStep
  <1>4. CASE UNCHANGED vars
    BY <1>4 DEF vars, ring, push, pop, IInv, TypeOK, PosInv, SeqInv, WriteInv, CasInv, ScanInv,
                ReadInv, CellInv, CopiesAreTheLog
  <1> QED
    BY <1>1, <1>2, <1>3, <1>4 DEF Next

(* The inductive invariant of the ring. *)
THEOREM RingInvariant == Spec => []IInv
  BY InitInv, NextInv, PTL DEF Spec

(* Every position, seqno, counter and buffer of the ring keeps its type; in   *)
(* particular a pop never counts more than Batch cells nor writes past out[]. *)
THEOREM RingTypeOK == Spec => []TypeOK
  <1>1. IInv => TypeOK
    BY DEF IInv
  <1> QED
    BY <1>1, RingInvariant, PTL

(* pool_ring_pop_batch hands over, for each position it takes, the task whose *)
(* push was given that position, for any number of threads and any capacity.  *)
THEOREM RingCopiesAreTheLog == Spec => []CopiesAreTheLog
  <1>1. IInv => CopiesAreTheLog
    BY DEF IInv
  <1> QED
    BY <1>1, RingInvariant, PTL

(* The positions owned at one time lie in one window of Cap positions, and no *)
(* position has two owners.                                                   *)
LEMMA OwnersApart == IInv => ExclusiveCells
  <1> SUFFICES ASSUME IInv PROVE ExclusiveCells
    OBVIOUS
  <1> USE Constants DEF IInv
  <1>1. tail \in Int /\ head \in Int /\ head <= tail /\ tail <= head + Cap
    BY DEF TypeOK, SeqInv
  <1>2. ASSUME NEW p \in Producers, NEW x \in Writing(p)
        PROVE  /\ x \in Int /\ head <= x /\ x < tail /\ x = ppos[p] /\ seq[Slot(x)] = x
               /\ ppc[p] \in {"write", "publish"}
    BY <1>2 DEF Writing, WriteInv, TypeOK
  <1>3. ASSUME NEW c \in Consumers, NEW y \in Reading(c)
        PROVE  /\ y \in Int /\ tail - Cap <= y /\ y < head /\ seq[Slot(y)] = y + 1
               /\ cpos[c] <= y /\ y < cpos[c] + cn[c] /\ cpc[c] \in {"copy", "recycle"}
    <2>1. /\ cpc[c] \in {"copy", "recycle"} /\ y \in cpos[c] + ci[c] .. cpos[c] + cn[c] - 1
          /\ cpos[c] \in Nat /\ ci[c] \in Nat /\ cn[c] \in Nat
      BY <1>3 DEF Reading, TypeOK
    <2>2. y \in Int /\ cpos[c] + ci[c] <= y /\ y < cpos[c] + cn[c] /\ cpos[c] <= y
      BY <2>1
    <2>3. tail - Cap <= y /\ seq[Slot(y)] = y + 1 /\ cpos[c] + cn[c] <= head
      BY <2>1, <2>2 DEF ReadInv
    <2> QED
      BY <2>1, <2>2, <2>3, <1>1
  <1>4. ASSUME NEW x \in Int, NEW y \in Int, tail - Cap <= x, x < tail,
               tail - Cap <= y, y < tail, x # y
        PROVE  Slot(x) # Slot(y)
    BY <1>1, <1>4, SlotApart
  <1>5. ASSUME NEW p \in Producers, NEW r \in Producers, p # r,
               NEW x \in Writing(p), NEW y \in Writing(r)
        PROVE  Slot(x) # Slot(y)
    <2>1. x # y
      BY <1>2, <1>5 DEF WriteInv
    <2> QED
      BY <2>1, <1>1, <1>2, <1>4, <1>5
  <1>6. ASSUME NEW c \in Consumers, NEW d \in Consumers, c # d,
               NEW x \in Reading(c), NEW y \in Reading(d)
        PROVE  Slot(x) # Slot(y)
    <2>1. cpos[c] + cn[c] <= cpos[d] \/ cpos[d] + cn[d] <= cpos[c]
      BY <1>3, <1>6 DEF ReadInv
    <2>2. cpos[c] \in Nat /\ cn[c] \in Nat /\ cpos[d] \in Nat /\ cn[d] \in Nat
      BY DEF TypeOK
    <2>3. x # y
      BY <2>1, <2>2, <1>3, <1>6
    <2> QED
      BY <2>3, <1>1, <1>3, <1>4, <1>6
  <1>7. ASSUME NEW p \in Producers, NEW c \in Consumers, NEW x \in Writing(p), NEW y \in Reading(c)
        PROVE  Slot(x) # Slot(y)
    BY <1>1, <1>2, <1>3, <1>4, <1>7
  <1> QED
    BY <1>5, <1>6, <1>7 DEF ExclusiveCells

(* The seqno alone keeps every cell to one thread at a time: no push writes a *)
(* cell that another push writes or a pop copies.                             *)
THEOREM RingExclusiveCells == Spec => []ExclusiveCells
  BY OwnersApart, RingInvariant, PTL

-----------------------------------------------------------------------------
(* A position below head whose task has not been copied out of its cell is in *)
(* the hands of a pop that will give the cell back.                           *)
HeldInv ==
    \A q \in Int : (tail - Cap <= q /\ q < head /\ seq[Slot(q)] = q + 1)
        => \E c \in Consumers : q \in Reading(c)

(* At the start every cell is free and no operation is under way. *)
LEMMA HeldInit == Init => HeldInv
  <1> SUFFICES ASSUME Init, NEW q \in Int, tail - Cap <= q, q < head PROVE seq[Slot(q)] # q + 1
    BY DEF HeldInv
  <1>1. SeqInv /\ tail = head
    BY InitInv DEF IInv, Init
  <1>2. \A r \in Int : (tail - Cap <= r /\ r < tail) => r < head /\ seq[Slot(r)] = r + Cap
    BY <1>1, InitCells DEF Init
  <1> QED
    BY <1>1, <1>2, Constants

(* A step that moves neither positions nor sequence numbers keeps it. *)
LEMMA HeldQuiet ==
    ASSUME IInv, HeldInv, tail \in Int, head \in Int, UNCHANGED <<head, seq>>,
           NEW t \in Int, tail' = t, tail <= t,
           \A c \in Consumers, q \in Int : q \in Reading(c) => q \in Reading(c)'
    PROVE  HeldInv'
  <1> SUFFICES ASSUME NEW q \in Int, tail' - Cap <= q, q < head, seq[Slot(q)] = q + 1
               PROVE  \E c \in Consumers : q \in Reading(c)'
    BY DEF HeldInv
  <1>0. tail \in Int /\ head \in Int /\ Cap \in Int
    BY Constants DEF IInv, TypeOK
  <1>1. tail - Cap <= q
    BY <1>0, Constants
  <1>2. PICK c \in Consumers : q \in Reading(c)
    BY <1>1 DEF HeldInv
  <1> QED
    BY <1>2

(* A push that publishes its cell holds it no more. *)
LEMMA HeldPublish ==
    ASSUME IInv, HeldInv, NEW p \in Producers, PushPublish(p)
    PROVE  HeldInv'
  <1>1. /\ ppos[p] \in Int /\ head <= ppos[p] /\ ppos[p] < tail
        /\ head \in Int /\ tail \in Int /\ seq \in [Cells -> Nat]
    BY DEF IInv, TypeOK, WriteInv, PushPublish
  <1>2. /\ seq' = [seq EXCEPT ![Slot(ppos[p])] = ppos[p] + 1]
        /\ UNCHANGED <<tail, head, cpc, cpos, ci, cn>>
    BY DEF PushPublish, pop
  <1>3. ASSUME NEW q \in Int, tail - Cap <= q, q < head PROVE seq'[Slot(q)] = seq[Slot(q)]
    <2>1. Slot(q) # Slot(ppos[p])
      BY <1>1, <1>3, SlotApart, Constants
    <2> QED
      BY <1>1, <1>2, <2>1, SlotCell
  <1>4. \A c \in Consumers : Reading(c)' = Reading(c)
    BY <1>2 DEF Reading
  <1> QED
    BY <1>2, <1>3, <1>4 DEF HeldInv

(* Who wins a position holds its cell. *)
LEMMA HeldCas ==
    ASSUME IInv, HeldInv, NEW c \in Consumers, PopCas(c)
    PROVE  HeldInv'
  <1>1. /\ cpos[c] \in Nat /\ cn[c] \in Nat /\ head \in Nat /\ cpc[c] = "cas" /\ tail \in Nat
        /\ cpos[c] <= head /\ head - cpos[c] <= MaxLag
        /\ cpc \in [Consumers -> {"idle", "load", "scan", "cas", "copy", "recycle"}]
        /\ ci \in [Consumers -> 0 .. Batch]
    BY DEF IInv, TypeOK, PosInv, PopCas
  <1>2. SameBits(head, cpos[c]) <=> head = cpos[c]
    <2>1. /\ head \in Int /\ cpos[c] \in Int /\ cpos[c] <= head /\ head - cpos[c] <= MaxLag
          /\ MaxLag \in Nat /\ Cap \in Nat
      BY <1>1, Constants
    <2>2. head - cpos[c] <= MaxLag + 2 * Cap /\ cpos[c] - head <= MaxLag + 2 * Cap
      BY ONLY <2>1
    <2> QED
      BY <2>1, <2>2, CloseBits
  <1>3. /\ ci' = [ci EXCEPT ![c] = 0] /\ UNCHANGED <<tail, seq, cpos, cn>>
        /\ \A d \in Consumers : d # c => cpc'[d] = cpc[d]
    BY <1>1 DEF PopCas
  <1>4. \A d \in Consumers, q \in Int : q \in Reading(d) => q \in Reading(d)'
    BY <1>1, <1>3 DEF Reading
  <1>5. CASE head # cpos[c]
    <2>1. head' = head
      BY <1>2, <1>5 DEF PopCas
    <2> QED
      BY <1>1, <1>3, <1>4, <2>1, HeldQuiet
  <1>6. CASE head = cpos[c]
    <2>1. head' = head + cn[c] /\ cpc'[c] = "copy" /\ ci'[c] = 0
      BY <1>1, <1>2, <1>6 DEF PopCas
    <2>2. ASSUME NEW q \in Int, head <= q, q < head'
          PROVE  q \in Reading(c)'
      BY <1>1, <1>3, <1>6, <2>1, <2>2 DEF Reading
    <2> QED
      BY <1>1, <1>3, <1>4, <2>1, <2>2 DEF HeldInv
  <1> QED
    BY <1>5, <1>6

(* A pop that recycles its cell holds it no more. *)
LEMMA HeldRecycle ==
    ASSUME IInv, HeldInv, NEW c \in Consumers, PopRecycle(c)
    PROVE  HeldInv'
  <1> DEFINE x == cpos[c] + ci[c]
  <1>1. /\ cpos[c] \in Nat /\ cn[c] \in Nat /\ ci[c] \in Nat /\ head \in Nat /\ tail \in Nat
        /\ cpc[c] = "recycle" /\ ci[c] < cn[c] /\ x < head /\ head <= tail
        /\ seq \in [Cells -> Nat] /\ tail - Cap <= x
        /\ cpc \in [Consumers -> {"idle", "load", "scan", "cas", "copy", "recycle"}]
        /\ ci \in [Consumers -> 0 .. Batch]
    <2>1. /\ cpos[c] \in Nat /\ cn[c] \in Nat /\ ci[c] \in Nat /\ head \in Nat /\ tail \in Nat
          /\ seq \in [Cells -> Nat] /\ cpc[c] = "recycle"
          /\ cpc \in [Consumers -> {"idle", "load", "scan", "cas", "copy", "recycle"}]
          /\ ci \in [Consumers -> 0 .. Batch]
      BY DEF IInv, TypeOK, PopRecycle
    <2>2. ci[c] < cn[c] /\ cpos[c] + cn[c] <= head
      BY <2>1 DEF IInv, ReadInv
    <2>3. x < head /\ cpos[c] + ci[c] <= x /\ x < cpos[c] + cn[c] /\ x \in Int
      BY <2>1, <2>2
    <2>4. tail - Cap <= x /\ head <= tail
      BY <2>1, <2>3 DEF IInv, ReadInv, SeqInv
    <2> QED
      BY <2>1, <2>2, <2>3, <2>4
  <1>2. /\ seq' = [seq EXCEPT ![Slot(x)] = x + Cap] /\ ci' = [ci EXCEPT ![c] = @ + 1]
        /\ cpc' = [cpc EXCEPT ![c] = IF ci[c] + 1 = cn[c] THEN "idle" ELSE "copy"]
        /\ UNCHANGED <<tail, head, cpos, cn>>
    BY DEF PopRecycle
  <1> HIDE DEF x
  <1>3. ASSUME NEW q \in Int, tail - Cap <= q, q < head, seq'[Slot(q)] = q + 1
        PROVE  q # x /\ seq[Slot(q)] = q + 1
    <2>1. x \in Int /\ Slot(x) \in Cells
      BY <1>1, SlotCell DEF x
    <2>2. seq'[Slot(x)] = x + Cap
      BY <1>1, <1>2, <2>1
    <2>3. q # x
      BY <1>3, <2>1, <2>2, Constants
    <2>4. Slot(q) # Slot(x)
      BY <1>1, <1>3, <2>1, <2>3, SlotApart, Constants
    <2> QED
      BY <1>1, <1>2, <1>3, <2>1, <2>3, <2>4, SlotCell
  <1>4. ASSUME NEW q \in Int, q # x, NEW d \in Consumers, q \in Reading(d)
        PROVE  q \in Reading(d)'
    BY <1>1, <1>2, <1>4 DEF Reading, x
  <1> QED
    BY <1>2, <1>3, <1>4 DEF HeldInv

(* Every step keeps it. *)
LEMMA HeldNext == IInv /\ HeldInv /\ [Next]_vars => HeldInv'
  <1> SUFFICES ASSUME IInv, HeldInv, [Next]_vars PROVE HeldInv'
    OBVIOUS
  <1>0. tail \in Int /\ head \in Int /\ IInv'
    BY NextInv DEF IInv, TypeOK
  <1>1. ASSUME tail \in Int, head \in Int, UNCHANGED <<head, seq, pop>>, NEW t \in Int, tail' = t, tail <= t
        PROVE  HeldInv'
    BY <1>1, HeldQuiet DEF pop, Reading
  <1>2. ASSUME NEW p \in Producers, NEW t \in Tasks, PushStart(p, t) PROVE HeldInv'
    BY <1>0, <1>1, <1>2 DEF PushStart, ring
  <1>3. ASSUME NEW p \in Producers, PushStep(p) PROVE HeldInv'
    <2>1. CASE PushRead(p)
      BY <1>0, <1>1, <2>1 DEF PushRead, ring
    <2>2. CASE PushCas(p)
      BY <1>0, <1>1, <2>2 DEF PushCas
    <2>3. CASE PushReload(p)
      BY <1>0, <1>1, <2>3 DEF PushReload, ring
    <2>4. CASE PushWrite(p)
      BY <1>0, <1>1, <2>4 DEF PushWrite
    <2>5. CASE PushPublish(p)
      BY <2>5, HeldPublish
    <2> QED
      BY <1>3, <2>1, <2>2, <2>3, <2>4, <2>5 DEF PushStep
  <1>4. ASSUME NEW c \in Consumers, PopStep(c) PROVE HeldInv'
    <2>0. /\ cpc \in [Consumers -> {"idle", "load", "scan", "cas", "copy", "recycle"}]
          /\ cn \in [Consumers -> 0 .. Batch]
      BY DEF IInv, TypeOK
    <2>1. CASE PopLoad(c)
      <3>1. \A d \in Consumers, q \in Int : q \in Reading(d) => q \in Reading(d)'
        BY <2>0, <2>1 DEF PopLoad, Reading
      <3> QED
        BY <1>0, <2>1, <3>1, HeldQuiet DEF PopLoad, ring
    <2>2. CASE PopScan(c)
      <3>1. \A d \in Consumers, q \in Int : q \in Reading(d) => q \in Reading(d)'
        BY <2>0, <2>2 DEF PopScan, Reading
      <3> QED
        BY <1>0, <2>2, <3>1, HeldQuiet DEF PopScan, ring
    <2>3. CASE PopCas(c)
      BY <2>3, HeldCas
    <2>4. CASE PopCopy(c)
      <3>1. \A d \in Consumers, q \in Int : q \in Reading(d) => q \in Reading(d)'
        BY <2>0, <2>4 DEF PopCopy, Reading
      <3> QED
        BY <1>0, <2>4, <3>1, HeldQuiet DEF PopCopy, ring
    <2>5. CASE PopRecycle(c)
      BY <2>5, HeldRecycle
    <2> QED
      BY <1>4, <2>1, <2>2, <2>3, <2>4, <2>5 DEF PopStep
  <1>5. CASE UNCHANGED vars
    BY <1>0, <1>1, <1>5 DEF vars, ring
  <1> QED
    BY <1>2, <1>3, <1>4, <1>5 DEF Next

(* A push that gives up compared the seqno of its cell with a position that  *)
(* can only be tail; the cell still belongs to position tail - Cap.          *)
LEMMA RefusalStep ==
    ASSUME IInv, HeldInv, NEW p \in Producers, PushRead(p), ppc'[p] = "idle"
    PROVE  tail = head + Cap \/ \E c \in Consumers : tail - Cap \in Reading(c)
  <1> DEFINE x == ppos[p]
             s == seq[Slot(x)]
  <1>1. /\ x \in Int /\ x <= tail /\ tail - x <= MaxLag /\ tail \in Int /\ head \in Int
        /\ ppc \in [Producers -> {"idle", "read", "cas", "reload", "write", "publish"}]
        /\ head <= tail /\ tail <= head + Cap /\ Start <= head
    BY DEF IInv, TypeOK, PosInv, PushRead, SeqInv
  <1>2. s \in Int /\ tail - Cap <= s /\ s < tail + Cap
    BY <1>1, SeqNear DEF IInv
  <1>3. Dif(s, x) = s - x
    <2>1. s - x <= MaxLag + 2 * Cap /\ x - s <= MaxLag + 2 * Cap
      BY <1>1, <1>2, Constants
    <2> QED
      BY <1>1, <1>2, <2>1, CloseBits
  <1>4. s < x
    BY <1>1, <1>2, <1>3 DEF PushRead
  <1> HIDE DEF s, x
  <1>5. PICK r \in Int : tail - Cap <= r /\ r < tail /\ Slot(r) = Slot(x)
    BY <1>1, SlotCover
  <1>6. /\ r >= head => s \in {r, r + 1}
        /\ r <  head => s \in {r + 1, r + Cap}
    BY <1>5 DEF s, IInv, SeqInv
  <1>7. x = tail /\ r = tail - Cap
    <2>1. x = r \/ ~(r < x /\ x < r + Cap)
      BY <1>1, <1>5, SlotApart
    <2> QED
      BY <2>1, <1>1, <1>2, <1>4, <1>5, <1>6, Constants
  <1>8. CASE r >= head
    BY <1>1, <1>7, <1>8, Constants
  <1>9. CASE r < head
    <2>1. s = r + 1
      BY <1>1, <1>4, <1>6, <1>7, <1>9, Constants
    <2> QED
      BY <1>1, <1>5, <1>7, <1>9, <2>1 DEF HeldInv, s
  <1> QED
    BY <1>1, <1>5, <1>8, <1>9

(* pool_ring_push reports a full ring only when it is one: what a push that lost   *)
(* races or read old values compared never makes it give up.                       *)
THEOREM RingRefusedOnlyWhenFull == Spec => RefusedOnlyWhenFull
  <1> DEFINE Refused == \A p \in Producers : (ppc[p] = "read" /\ ppc'[p] = "idle") =>
                 \/ tail = head + Cap
                 \/ \E c \in Consumers : tail - Cap \in Reading(c)
  <1>1. IInv /\ HeldInv /\ [Next]_vars => [Refused]_vars
    <2> SUFFICES ASSUME IInv, HeldInv, Next, NEW p \in Producers, ppc[p] = "read", ppc'[p] = "idle"
                 PROVE  tail = head + Cap \/ \E c \in Consumers : tail - Cap \in Reading(c)
      OBVIOUS
    <2>0. ppc \in [Producers -> {"idle", "read", "cas", "reload", "write", "publish"}]
      BY DEF IInv, TypeOK
    <2>1. PushRead(p)
      <3>1. ASSUME NEW r \in Producers, NEW t \in Tasks, PushStart(r, t) PROVE FALSE
        BY <2>0, <3>1 DEF PushStart
      <3>2. ASSUME NEW r \in Producers, PushStep(r) PROVE PushRead(p)
        BY <2>0, <3>2 DEF PushStep, PushRead, PushCas, PushReload, PushWrite, PushPublish
      <3>3. ASSUME NEW c \in Consumers, PopStep(c) PROVE FALSE
        BY <3>3 DEF PopStep, PopLoad, PopScan, PopCas, PopCopy, PopRecycle, push
      <3> QED
        BY <3>1, <3>2, <3>3 DEF Next
    <2> QED
      BY <2>1, RefusalStep
  <1> QED
    BY <1>1, RingInvariant, HeldInit, HeldNext, PTL DEF Spec, RefusedOnlyWhenFull

-----------------------------------------------------------------------------
(* The ring implements the FIFO. *)

(* The queue and the hands of the FIFO are sequences. *)
LEMMA ViewTypes ==
    ASSUME IInv
    PROVE  /\ queue \in Seq(Tasks) /\ Len(queue) = tail - head
           /\ \A k \in 1 .. tail - head : queue[k] = log[head + k - 1]
           /\ \A c \in Consumers : cpc[c] \notin {"copy", "recycle"} => hand[c] = <<>>
           /\ \A c \in Consumers : cpc[c] \in {"copy", "recycle"} =>
                 /\ hand[c] = [k \in 1 .. cn[c] |-> log[cpos[c] + k - 1]]
                 /\ cn[c] \in Nat /\ cn[c] >= 1 /\ hand[c] # <<>>
  <1>1. /\ tail \in Int /\ head \in Int /\ head <= tail /\ Start <= head /\ Start \in Nat
        /\ log \in [Start .. tail - 1 -> Tasks] /\ tail - head \in Nat
    BY Constants DEF IInv, TypeOK, SeqInv
  <1>2. \A k \in 1 .. tail - head : head + k - 1 \in Start .. tail - 1
    BY <1>1
  <1>3. queue \in Seq(Tasks) /\ Len(queue) = tail - head
    BY <1>1, <1>2 DEF queue
  <1>4. \A k \in 1 .. tail - head : queue[k] = log[head + k - 1]
    BY DEF queue
  <1>5. \A c \in Consumers : cpc[c] \notin {"copy", "recycle"} => hand[c] = <<>>
    BY DEF hand
  <1>6. ASSUME NEW c \in Consumers, cpc[c] \in {"copy", "recycle"}
        PROVE  /\ hand[c] = [k \in 1 .. cn[c] |-> log[cpos[c] + k - 1]]
               /\ cn[c] \in Nat /\ cn[c] >= 1 /\ hand[c] # <<>>
    <2>1. hand[c] = [k \in 1 .. cn[c] |-> log[cpos[c] + k - 1]]
      BY <1>6 DEF hand
    <2>2. cn[c] \in Nat /\ ci[c] \in Nat /\ ci[c] < cn[c]
      BY <1>6, Constants DEF IInv, TypeOK, ReadInv
    <2>3. 1 \in DOMAIN hand[c] /\ cn[c] >= 1
      BY <2>1, <2>2
    <2> QED
      BY <2>1, <2>2, <2>3
  <1> QED
    BY <1>3, <1>4, <1>5, <1>6

(* An empty ring is an empty channel. *)
LEMMA ChannelInit == Init => Channel!Init
  <1> SUFFICES ASSUME Init PROVE Channel!Init
    OBVIOUS
  <1>1. queue = <<>>
    <2>1. IInv /\ tail - head = 0
      BY InitInv, Constants DEF Init
    <2> QED
      BY <2>1, ViewTypes, EmptySeq
  <1>2. hand = [c \in Consumers |-> <<>>] /\ result = [c \in Consumers |-> <<>>]
    BY DEF Init, hand
  <1> QED
    BY <1>1, <1>2 DEF Channel!Init

(* A step that moves neither end of the queue nor any pop changes no view. *)
LEMMA SameView ==
    ASSUME UNCHANGED <<tail, head, log, cn, cpos, result>>,
           \A c \in Consumers : \/ cpc'[c] = cpc[c]
                                \/ /\ cpc[c] \in {"copy", "recycle"}
                                   /\ cpc'[c] \in {"copy", "recycle"}
                                \/ /\ cpc[c] \notin {"copy", "recycle"}
                                   /\ cpc'[c] \notin {"copy", "recycle"}
    PROVE  UNCHANGED Channel!vars
  BY DEF Channel!vars, queue, hand

(* The CAS of a push on tail is the moment its task enters the queue. *)
LEMMA PushCasPuts ==
    ASSUME IInv, NEW p \in Producers, PushCas(p)
    PROVE  \/ Channel!Put(ptask[p]) /\ ptask[p] \in Tasks
           \/ UNCHANGED Channel!vars
  <1>1. /\ tail \in Int /\ head \in Int /\ head <= tail /\ tail <= head + Cap /\ Start <= head
        /\ ppos[p] \in Int /\ ppos[p] <= tail /\ tail - ppos[p] <= MaxLag /\ Start \in Nat
        /\ ppc[p] = "cas" /\ ptask[p] \in Tasks /\ log \in [Start .. tail - 1 -> Tasks]
    BY Constants DEF IInv, TypeOK, PosInv, SeqInv, PushCas
  <1>2. SameBits(tail, ppos[p]) <=> tail = ppos[p]
    <2>1. /\ tail \in Int /\ ppos[p] \in Int /\ ppos[p] <= tail /\ tail - ppos[p] <= MaxLag
          /\ MaxLag \in Nat /\ Cap \in Nat
      BY <1>1, Constants
    <2>2. tail - ppos[p] <= MaxLag + 2 * Cap /\ ppos[p] - tail <= MaxLag + 2 * Cap
      BY ONLY <2>1
    <2> QED
      BY <2>1, <2>2, CloseBits
  <1>3. CASE tail # ppos[p]
    BY <1>2, <1>3, SameView DEF PushCas, pop
  <1>4. CASE tail = ppos[p]
    <2>1. /\ tail' = tail + 1 /\ head' = head
          /\ log' = [q \in Start .. tail |-> IF q = tail THEN ptask[p] ELSE log[q]]
          /\ UNCHANGED <<cpc, cpos, cn, result>>
      BY <1>2, <1>4 DEF PushCas, pop
    <2>2. tail - head < Cap
      <3>1. seq[Slot(tail)] = tail
        BY <1>1, <1>4 DEF IInv, CasInv
      <3>2. Slot(tail - Cap) = Slot(tail) /\ tail - Cap \in Int
        <4>1. tail \in Int /\ tail - Cap \in Int
          BY <1>1, Constants
        <4>2. Slot(tail - Cap) = Slot(tail)
          BY <4>1, SlotTurn
        <4> QED
          BY <4>1, <4>2
      <3>3. tail - Cap >= head => seq[Slot(tail - Cap)] \in {tail - Cap, tail - Cap + 1}
        BY <1>1, <3>2, Constants DEF IInv, SeqInv
      <3>4. tail \in Int /\ head \in Int /\ tail <= head + Cap /\ Cap \in Nat /\ Cap >= 2
        BY <1>1, Constants
      <3>5. tail - Cap < head
        BY ONLY <3>1, <3>2, <3>3, <3>4
      <3> QED
        BY ONLY <3>4, <3>5
    <2>3. /\ queue \in Seq(Tasks) /\ Len(queue) = tail - head /\ tail - head \in Nat
          /\ \A k \in 1 .. tail - head : queue[k] = log[head + k - 1]
      BY <1>1, ViewTypes
    <2>4. queue' = Append(queue, ptask[p])
      <3>1. queue' = [k \in 1 .. tail + 1 - head |-> log'[head + k - 1]]
        <4>1. tail' - head' = tail + 1 - head /\ head' = head
          BY <1>1, <2>1
        <4> QED
          BY Zenon, <4>1 DEF queue
      <3>2. ASSUME NEW k \in 1 .. tail + 1 - head
            PROVE  log'[head + k - 1] = IF k = tail + 1 - head THEN ptask[p] ELSE log[head + k - 1]
        <4>1. /\ tail \in Int /\ head \in Int /\ Start \in Int /\ Start <= head /\ head <= tail
              /\ k \in 1 .. tail + 1 - head
          BY <1>1, <3>2
        <4>2. head + k - 1 \in Start .. tail /\ (head + k - 1 = tail <=> k = tail + 1 - head)
          BY ONLY <4>1
        <4> QED
          BY <2>1, <4>2
      <3>3. \A k \in 1 .. tail + 1 - head : k # tail + 1 - head => k \in 1 .. tail - head
        BY <1>1
      <3>4. /\ DOMAIN Append(queue, ptask[p]) = 1 .. tail + 1 - head
            /\ Append(queue, ptask[p]) = [k \in 1 .. tail + 1 - head |->
                   IF k = tail + 1 - head THEN ptask[p] ELSE queue[k]]
        BY <1>1, <2>3
      <3> QED
        BY <2>3, <3>1, <3>2, <3>3, <3>4
    <2>5. UNCHANGED <<hand, result>>
      <3>1. ASSUME NEW c \in Consumers, cpc[c] \in {"copy", "recycle"}, NEW k \in 1 .. cn[c]
            PROVE  log'[cpos[c] + k - 1] = log[cpos[c] + k - 1]
        <4>1. Start <= cpos[c] /\ cpos[c] + cn[c] <= head /\ cpos[c] \in Nat /\ cn[c] \in Nat
          BY <3>1, Constants DEF IInv, ReadInv, TypeOK
        <4>2. cpos[c] + k - 1 \in Start .. tail - 1
          BY <1>1, <4>1
        <4> QED
          BY <1>1, <2>1, <4>2
      <3>2. hand' = hand
        BY <2>1, <3>1 DEF hand
      <3> QED
        BY <2>1, <3>2
    <2> QED
      BY <1>1, <2>2, <2>3, <2>4, <2>5 DEF Channel!Put
  <1> QED
    BY <1>3, <1>4

(* The CAS of a pop on head is the moment its batch leaves the queue. *)
LEMMA PopCasTakes ==
    ASSUME IInv, NEW c \in Consumers, PopCas(c)
    PROVE  Channel!Take(c) \/ UNCHANGED Channel!vars
  <1>1. /\ tail \in Int /\ head \in Int /\ head <= tail /\ cpos[c] \in Nat /\ cn[c] \in Nat
        /\ cn[c] <= Batch /\ cn[c] >= 1 /\ cpos[c] <= head /\ head - cpos[c] <= MaxLag
        /\ cpc[c] = "cas"
        /\ cpc \in [Consumers -> {"idle", "load", "scan", "cas", "copy", "recycle"}]
    BY Constants DEF IInv, TypeOK, PosInv, SeqInv, ScanInv, PopCas
  <1>2. SameBits(head, cpos[c]) <=> head = cpos[c]
    <2>1. /\ head \in Int /\ cpos[c] \in Int /\ cpos[c] <= head /\ head - cpos[c] <= MaxLag
          /\ MaxLag \in Nat /\ Cap \in Nat
      BY <1>1, Constants
    <2>2. head - cpos[c] <= MaxLag + 2 * Cap /\ cpos[c] - head <= MaxLag + 2 * Cap
      BY ONLY <2>1
    <2> QED
      BY <2>1, <2>2, CloseBits
  <1>3. UNCHANGED <<tail, log, cn, cpos, result>>
    BY DEF PopCas, push
  <1>4. CASE head # cpos[c]
    <2>1. head' = head /\ cpc' = [cpc EXCEPT ![c] = "load"]
      BY <1>2, <1>4 DEF PopCas
    <2> QED
      BY <1>1, <1>3, <2>1, SameView
  <1>5. CASE head = cpos[c]
    <2> DEFINE n == cn[c]
    <2>1. head' = head + n /\ cpc' = [cpc EXCEPT ![c] = "copy"]
      BY <1>2, <1>5 DEF PopCas
    <2>2. head + n <= tail
      <3>1. head + n - 1 < tail
        BY <1>1, <1>5 DEF IInv, ScanInv
      <3> QED
        BY <1>1, <3>1
    <2>3. /\ queue \in Seq(Tasks) /\ Len(queue) = tail - head /\ hand[c] = <<>>
          /\ \A k \in 1 .. tail - head : queue[k] = log[head + k - 1]
      BY <1>1, ViewTypes
    <2>4. n \in 1 .. Batch /\ n <= Len(queue)
      BY <1>1, <2>2, <2>3, Constants
    <2>5. queue' = SubSeq(queue, n + 1, Len(queue))
      <3>1. queue' = [k \in 1 .. tail - (head + n) |-> log[head + n + k - 1]]
        BY <1>3, <2>1 DEF queue
      <3>2. SubSeq(queue, n + 1, Len(queue)) = [k \in 1 .. tail - (head + n) |-> queue[n + k]]
        <4> DEFINE m == n + 1
                   L == Len(queue)
                   s == SubSeq(queue, m, L)
        <4>1. /\ m \in Int /\ L \in Int /\ m = n + 1 /\ L = tail - head /\ n \in Nat
              /\ \A k \in m .. L : queue[k] \in Tasks
          BY <1>1, <2>2, <2>3
        <4> HIDE DEF m, L
        <4>2. /\ s \in Seq(Tasks) /\ Len(s) = IF m <= L THEN L - m + 1 ELSE 0
              /\ \A k \in 1 .. L - m + 1 : s[k] = queue[m + k - 1]
          BY <4>1, SubSeqProperties
        <4> HIDE DEF s
        <4>3. Len(s) = tail - (head + n) /\ \A k \in 1 .. tail - (head + n) : s[k] = queue[n + k]
          <5>0. /\ tail \in Int /\ head \in Int /\ n \in Nat /\ n <= tail - head
                /\ m = n + 1 /\ L = tail - head
            BY <1>1, <2>2, <2>3, <4>1
          <5>1. Len(s) = tail - (head + n) /\ L - m + 1 = tail - (head + n)
            <6>1. L - m + 1 = tail - (head + n) /\ (m > L => tail - (head + n) = 0)
              BY ONLY <5>0
            <6>2. Len(s) = IF m <= L THEN L - m + 1 ELSE 0
              BY <4>2
            <6> QED
              BY ONLY <4>1, <5>0, <6>1, <6>2
          <5>2. \A k \in 1 .. tail - (head + n) : m + k - 1 = n + k
            BY <4>1
          <5> QED
            BY <4>2, <5>1, <5>2
        <4>4. s = [k \in 1 .. tail - (head + n) |-> s[k]]
          BY <4>2, <4>3
        <4>5. s = [k \in 1 .. tail - (head + n) |-> queue[n + k]]
          BY <4>3, <4>4
        <4> QED
          BY <4>5 DEF s, m, L
      <3>3. \A k \in 1 .. tail - (head + n) : queue[n + k] = log[head + n + k - 1]
        <4> SUFFICES ASSUME NEW k \in 1 .. tail - (head + n)
                     PROVE  queue[n + k] = log[head + n + k - 1]
          OBVIOUS
        <4>1. n + k \in 1 .. tail - head /\ head + (n + k) - 1 = head + n + k - 1
          BY <1>1, <2>2
        <4> QED
          BY <2>3, <4>1
      <3> QED
        BY <3>1, <3>2, <3>3
    <2>6. hand' = [hand EXCEPT ![c] = SubSeq(queue, 1, n)]
      <3>1. \A k \in 1 .. n : queue[k] = log[cpos[c] + k - 1]
        BY <1>1, <1>5, <2>2, <2>3
      <3>2. SubSeq(queue, 1, n) = [k \in 1 .. n |-> queue[k]]
        BY <1>1, <2>2, <2>3, <2>4
      <3>3. SubSeq(queue, 1, n) = [k \in 1 .. n |-> log[cpos[c] + k - 1]]
        BY <3>1, <3>2
      <3> HIDE DEF n
      <3>4. hand' = [d \in Consumers |-> IF d = c THEN [k \in 1 .. n |-> log[cpos[c] + k - 1]] ELSE hand[d]]
        BY <1>1, <1>3, <2>1 DEF hand, n
      <3> QED
        BY <3>3, <3>4 DEF hand
    <2> QED
      BY <1>3, <2>3, <2>4, <2>5, <2>6 DEF Channel!Take
  <1> QED
    BY <1>4, <1>5

(* The last write of a pop hands over what it copied: its batch, in order. *)
LEMMA PopRecycleGives ==
    ASSUME IInv, NEW c \in Consumers, PopRecycle(c)
    PROVE  Channel!Give(c) \/ UNCHANGED Channel!vars
  <1>1. /\ cpc[c] = "recycle" /\ ci[c] \in Nat /\ cn[c] \in Nat /\ cn[c] <= Batch /\ ci[c] < cn[c]
        /\ cpc \in [Consumers -> {"idle", "load", "scan", "cas", "copy", "recycle"}]
    BY Constants DEF IInv, TypeOK, ReadInv, PopRecycle
  <1>2. UNCHANGED <<tail, head, log, cn, cpos>>
    BY DEF PopRecycle, push
  <1>3. CASE ci[c] + 1 # cn[c]
    <2>1. result' = result /\ cpc' = [cpc EXCEPT ![c] = "copy"]
      BY <1>3 DEF PopRecycle
    <2> QED
      BY <1>1, <1>2, <2>1, SameView
  <1>4. CASE ci[c] + 1 = cn[c]
    <2>1. /\ cpc' = [cpc EXCEPT ![c] = "idle"]
          /\ result' = [result EXCEPT ![c] = [k \in 1 .. cn[c] |-> out[c][k - 1]]]
      BY <1>4 DEF PopRecycle
    <2>2. hand[c] = [k \in 1 .. cn[c] |-> log[cpos[c] + k - 1]] /\ hand[c] # <<>>
      BY <1>1, ViewTypes
    <2>3. \A k \in 1 .. cn[c] : out[c][k - 1] = log[cpos[c] + k - 1]
      <3> SUFFICES ASSUME NEW k \in 1 .. cn[c] PROVE out[c][k - 1] = log[cpos[c] + k - 1]
        OBVIOUS
      <3>1. /\ k - 1 \in 0 .. Batch - 1 /\ (k - 1 < ci[c] \/ k - 1 = ci[c])
            /\ cpos[c] + (k - 1) = cpos[c] + k - 1
        <4>1. cpos[c] \in Nat
          BY DEF IInv, TypeOK
        <4> QED
          BY <1>1, <1>4, <4>1, Constants
      <3> QED
        BY <1>1, <3>1 DEF IInv, CopiesAreTheLog
    <2>4. result' = [result EXCEPT ![c] = hand[c]]
      BY <2>1, <2>2, <2>3
    <2>5. hand' = [hand EXCEPT ![c] = <<>>]
      BY <1>1, <1>2, <2>1 DEF hand
    <2>6. queue' = queue
      BY <1>2 DEF queue
    <2> QED
      BY <2>2, <2>4, <2>5, <2>6 DEF Channel!Give
  <1> QED
    BY <1>3, <1>4

(* A pop that finds nothing published comes back empty-handed. *)
LEMMA PopScanMisses ==
    ASSUME IInv, NEW c \in Consumers, PopScan(c)
    PROVE  Channel!Miss(c) \/ UNCHANGED Channel!vars
  <1>1. /\ cpc[c] = "scan" /\ cn \in [Consumers -> 0 .. Batch] /\ Batch >= 1
        /\ cpc \in [Consumers -> {"idle", "load", "scan", "cas", "copy", "recycle"}]
    BY Constants DEF IInv, TypeOK, PopScan
  <1>2. /\ UNCHANGED <<tail, head, log, cpos>>
        /\ \A d \in Consumers : d # c => cpc'[d] = cpc[d] /\ cn'[d] = cn[d]
        /\ cpc'[c] \notin {"copy", "recycle"}
    BY <1>1 DEF PopScan, ring, push
  <1>3. queue' = queue /\ hand' = hand
    BY <1>1, <1>2 DEF queue, hand
  <1>4. hand[c] = <<>>
    BY <1>1 DEF hand
  <1>5. result' = result \/ result' = [result EXCEPT ![c] = <<>>]
    BY DEF PopScan
  <1> QED
    BY <1>3, <1>4, <1>5 DEF Channel!Miss, Channel!vars

(* Every step of every push and pop is a step of the FIFO or none. *)
LEMMA ChannelStep == IInv /\ [Next]_vars => [Channel!Next]_(Channel!vars)
  <1> SUFFICES ASSUME IInv, [Next]_vars PROVE Channel!Next \/ UNCHANGED Channel!vars
    OBVIOUS
  <1>0. cpc \in [Consumers -> {"idle", "load", "scan", "cas", "copy", "recycle"}]
    BY DEF IInv, TypeOK
  <1>1. ASSUME UNCHANGED <<tail, head, log, pop>> PROVE UNCHANGED Channel!vars
    BY <1>1, SameView DEF pop
  <1>2. ASSUME NEW p \in Producers, NEW t \in Tasks, PushStart(p, t)
        PROVE  UNCHANGED Channel!vars
    BY <1>1, <1>2 DEF PushStart, ring
  <1>3. ASSUME NEW p \in Producers, PushStep(p) PROVE Channel!Next \/ UNCHANGED Channel!vars
    <2>1. CASE PushRead(p)
      BY <1>1, <2>1 DEF PushRead, ring
    <2>2. CASE PushCas(p)
      BY <2>2, PushCasPuts DEF Channel!Next
    <2>3. CASE PushReload(p)
      BY <1>1, <2>3 DEF PushReload, ring
    <2>4. CASE PushWrite(p)
      BY <1>1, <2>4 DEF PushWrite
    <2>5. CASE PushPublish(p)
      BY <1>1, <2>5 DEF PushPublish
    <2> QED
      BY <1>3, <2>1, <2>2, <2>3, <2>4, <2>5 DEF PushStep
  <1>4. ASSUME NEW c \in Consumers, PopStep(c) PROVE Channel!Next \/ UNCHANGED Channel!vars
    <2>1. CASE PopLoad(c)
      <3>1. /\ UNCHANGED <<tail, head, log, result>>
            /\ cpc[c] \notin {"copy", "recycle"} /\ cpc'[c] \notin {"copy", "recycle"}
            /\ \A d \in Consumers : d # c => cpc'[d] = cpc[d] /\ cn'[d] = cn[d] /\ cpos'[d] = cpos[d]
        BY <1>0, <2>1 DEF PopLoad, ring, push, IInv, TypeOK
      <3> QED
        BY <3>1 DEF Channel!vars, queue, hand
    <2>2. CASE PopScan(c)
      BY <2>2, PopScanMisses DEF Channel!Next
    <2>3. CASE PopCas(c)
      BY <2>3, PopCasTakes DEF Channel!Next
    <2>4. CASE PopCopy(c)
      BY <1>0, <2>4, SameView DEF PopCopy, ring, push
    <2>5. CASE PopRecycle(c)
      BY <2>5, PopRecycleGives DEF Channel!Next
    <2> QED
      BY <1>4, <2>1, <2>2, <2>3, <2>4, <2>5 DEF PopStep
  <1>5. CASE UNCHANGED vars
    BY <1>1, <1>5 DEF vars, ring, push
  <1> QED
    BY <1>2, <1>3, <1>4, <1>5 DEF Next

(* The lock-free ring is a bounded FIFO: a task enters with the CAS on tail,   *)
(* leaves in its batch with the CAS on head, and what pool_ring_pop_batch      *)
(* returns, read from the cells, is what the FIFO hands out.                   *)
THEOREM RingImplementsChannel == Spec => ImplementsChannel
  BY ChannelInit, ChannelStep, RingInvariant, PTL DEF Spec, ImplementsChannel, Channel!Spec

-----------------------------------------------------------------------------
(* The run of MCQueues. *)

(* The deque of the run implements the sequential deque, whatever the other *)
(* queues do beside it, for any number of slots and any delay of stores.     *)
THEOREM RunImplementsDeque == DequeSlots \in Nat \ {0} => (MCSpec => ImplementsDeque)
  <1> SUFFICES ASSUME DequeSlots \in Nat \ {0} PROVE MCSpec => ImplementsDeque
    OBVIOUS
  <1>1. Deque!Spec => Deque!ImplementsDeque
    BY Deque!DequeImplementsDeque DEF Deque!HasSlots
  <1>2. MCInit => Deque!Init
    BY DEF MCInit
  <1>3. [MCNext]_<<subject, vars, dequeVars, ringVars>> => [Deque!Next]_(Deque!vars)
    BY DEF MCNext, dequeVars, Deque!vars, Deque!mem, Deque!owner, Deque!thief
  <1> QED
    BY <1>1, <1>2, <1>3, PTL DEF MCSpec, Deque!Spec, ImplementsDeque

(* A step of the run is a step of the public ring or leaves it alone. *)
LEMMA RunIsRing ==
    /\ MCInit => Ring!Init
    /\ [MCNext]_<<subject, vars, dequeVars, ringVars>> => [Ring!Next]_(Ring!vars)
  BY DEF MCInit, MCNext, ringVars, Ring!vars, Ring!shared

(* A ring_queue_count of the run that saw head twice the same was exact, for  *)
(* any capacity of two or more and wherever the counters start and wrap.      *)
THEOREM RunCountWasTrue == Ring!Fits => (MCSpec => []CountWasTrue)
  <1> SUFFICES ASSUME Ring!Fits PROVE MCSpec => []CountWasTrue
    OBVIOUS
  <1>1. Ring!Spec => []Ring!CountWasTrue
    BY Ring!CountsAreTrue
  <1> QED
    BY <1>1, RunIsRing, PTL DEF MCSpec, Ring!Spec, CountWasTrue

(* A ring_queue_peek_ of the run that succeeds hands over the item of the     *)
(* position that was head when it was checked.                                *)
THEOREM RunPeekIsTheItem == Ring!Fits => (MCSpec => PeekIsTheItem)
  <1> SUFFICES ASSUME Ring!Fits PROVE MCSpec => PeekIsTheItem
    OBVIOUS
  <1>1. Ring!Spec => Ring!PeekIsTheItem
    BY Ring!PeeksAreTheItem
  <1> QED
    BY <1>1, RunIsRing, PTL DEF MCSpec, Ring!Spec, PeekIsTheItem

(* The public ring of the run implements the FIFO in both pairs of operations. *)
THEOREM RunImplementsFifo == Ring!Fits => (MCSpec => ImplementsFifo)
  <1> SUFFICES ASSUME Ring!Fits PROVE MCSpec => ImplementsFifo
    OBVIOUS
  <1>1. Ring!Spec => Ring!ImplementsFifo
    BY Ring!RingImplementsFifo
  <1> QED
    BY <1>1, RunIsRing, PTL DEF MCSpec, Ring!Spec, ImplementsFifo
=============================================================================
