------------------------- MODULE PoolDispatchProofs -------------------------
(***************************************************************************)
(* Proofs about PoolDispatch, for any tasks, threads and sizes: the        *)
(* counters count what is unfinished, no accepted task is lost or doubled, *)
(* and pool_wait_idle returns on an empty pool when nothing was submitted  *)
(* during its last pass.                                                   *)
(***************************************************************************)
EXTENDS PoolDispatch, NumberTheorems, SequenceTheorems

-----------------------------------------------------------------------------
(* How often a task is in a sequence. *)

One(x, t) == IF x = t THEN 1 ELSE 0

(* A count is a number, of a finite set of positions. *)
LEMMA CountType ==
    ASSUME NEW S, NEW seq \in Seq(S), NEW t
    PROVE  /\ IsFiniteSet({i \in DOMAIN seq : seq[i] = t})
           /\ Count(seq, t) \in Nat
  <1>1. DOMAIN seq = 1 .. Len(seq) /\ Len(seq) \in Nat
    BY LenProperties
  <1>2. IsFiniteSet(1 .. Len(seq))
    BY <1>1, FS_Interval
  <1>3. {i \in DOMAIN seq : seq[i] = t} \in SUBSET (1 .. Len(seq))
    BY <1>1
  <1>4. IsFiniteSet({i \in DOMAIN seq : seq[i] = t})
    BY <1>2, <1>3, FS_Subset
  <1> QED
    BY <1>4, FS_CardinalityType DEF Count

(* One more at the end. *)
LEMMA CountAppend ==
    ASSUME NEW S, NEW seq \in Seq(S), NEW x \in S, NEW t
    PROVE  Count(Append(seq, x), t) = Count(seq, t) + One(x, t)
  <1> DEFINE P == {i \in DOMAIN seq : seq[i] = t}
             Q == {i \in DOMAIN Append(seq, x) : Append(seq, x)[i] = t}
             n == Len(seq) + 1
  <1>1. /\ DOMAIN seq = 1 .. Len(seq) /\ Len(seq) \in Nat
        /\ DOMAIN Append(seq, x) = 1 .. n
    BY LenProperties, AppendProperties
  <1>2. /\ \A i \in 1 .. Len(seq) : Append(seq, x)[i] = seq[i]
        /\ Append(seq, x)[n] = x
    BY AppendProperties
  <1>3. 1 .. n = (1 .. Len(seq)) \cup {n} /\ n \notin 1 .. Len(seq)
    BY <1>1
  <1>4. IsFiniteSet(P) /\ n \notin P /\ Cardinality(P) \in Nat
    BY <1>1, <1>3, CountType DEF Count
  <1>5. CASE x = t
    <2>1. Q = P \cup {n}
      BY <1>1, <1>2, <1>3, <1>5
    <2> QED
      BY <2>1, <1>4, <1>5, FS_AddElement DEF Count, One
  <1>6. CASE x # t
    <2>1. Q = P
      BY <1>1, <1>2, <1>3, <1>6
    <2>2. Count(Append(seq, x), t) = Cardinality(P) /\ Count(seq, t) = Cardinality(P)
      BY <2>1 DEF Count
    <2> HIDE DEF P
    <2> QED
      BY <2>2, <1>4, <1>6 DEF One
  <1> QED
    BY <1>5, <1>6

(* The elements of a part of a sequence. *)
LEMMA PartOf ==
    ASSUME NEW S, NEW seq \in Seq(S), NEW k \in 0 .. Len(seq), NEW n \in k .. Len(seq)
    PROVE  /\ SubSeq(seq, k + 1, n) \in Seq(S) /\ Len(SubSeq(seq, k + 1, n)) = n - k
           /\ \A i \in 1 .. n - k : SubSeq(seq, k + 1, n)[i] = seq[k + i]
  <1>1. Len(seq) \in Nat /\ \A i \in 1 .. Len(seq) : seq[i] \in S
    BY LenProperties, ElementOfSeq
  <1>2. k + 1 \in Int /\ n \in Int /\ k \in Int /\ k <= n /\ \A i \in k + 1 .. n : seq[i] \in S
    BY <1>1
  <1>3. /\ SubSeq(seq, k + 1, n) \in Seq(S)
        /\ Len(SubSeq(seq, k + 1, n)) = IF k + 1 <= n THEN n - (k + 1) + 1 ELSE 0
        /\ \A i \in 1 .. n - (k + 1) + 1 : SubSeq(seq, k + 1, n)[i] = seq[k + 1 + i - 1]
    BY <1>2, SubSeqProperties
  <1>4. ASSUME NEW i \in 1 .. n - k PROVE SubSeq(seq, k + 1, n)[i] = seq[k + i]
    <2>1. i \in 1 .. n - (k + 1) + 1 /\ k + 1 + i - 1 = k + i
      BY <1>2
    <2> QED
      BY <1>3, <2>1
  <1>5. Len(SubSeq(seq, k + 1, n)) = n - k
    BY <1>2, <1>3
  <1> QED
    BY <1>3, <1>4, <1>5

(* What is in a sequence is in its first k or in the rest. *)
LEMMA CountSplit ==
    ASSUME NEW S, NEW seq \in Seq(S), NEW t, NEW k \in 0 .. Len(seq)
    PROVE  Count(seq, t)
               = Count(SubSeq(seq, 1, k), t) + Count(SubSeq(seq, k + 1, Len(seq)), t)
  <1> DEFINE n == Len(seq)
             P == {i \in 1 .. k : seq[i] = t}
             Q == {i \in k + 1 .. n : seq[i] = t}
             R == {j \in 1 .. n - k : seq[k + j] = t}
             m == [j \in R |-> k + j]
  <1>1. DOMAIN seq = 1 .. n /\ n \in Nat /\ k \in Int /\ k <= n /\ 0 <= k
    BY LenProperties
  <1>2. \A i \in 1 .. n : seq[i] \in S
    BY ElementOfSeq
  <1>3. /\ SubSeq(seq, 1, k) \in Seq(S) /\ Len(SubSeq(seq, 1, k)) = k
        /\ \A i \in 1 .. k : SubSeq(seq, 1, k)[i] = seq[i]
    <2>1. 0 \in 0 .. Len(seq) /\ k \in 0 .. Len(seq) /\ 0 + 1 = 1 /\ k - 0 = k
      BY <1>1
    <2>2. \A i \in 1 .. k : 0 + i = i
      BY <1>1
    <2> QED
      BY <2>1, <2>2, PartOf
  <1>4. /\ SubSeq(seq, k + 1, n) \in Seq(S) /\ Len(SubSeq(seq, k + 1, n)) = n - k
        /\ \A j \in 1 .. n - k : SubSeq(seq, k + 1, n)[j] = seq[k + j]
    <2>1. n \in k .. Len(seq)
      BY <1>1
    <2> QED
      BY <2>1, PartOf
  <1>5. {i \in DOMAIN SubSeq(seq, 1, k) : SubSeq(seq, 1, k)[i] = t} = P
    BY <1>3, LenProperties
  <1>6. {i \in DOMAIN SubSeq(seq, k + 1, n) : SubSeq(seq, k + 1, n)[i] = t} = R
    BY <1>4, LenProperties
  <1>7. {i \in DOMAIN seq : seq[i] = t} = P \cup Q /\ P \cap Q = {}
    BY <1>1
  <1>8. IsFiniteSet(P) /\ IsFiniteSet(Q) /\ IsFiniteSet(R)
    <2>1. IsFiniteSet(1 .. k) /\ IsFiniteSet(k + 1 .. n) /\ IsFiniteSet(1 .. n - k)
      BY <1>1, FS_Interval
    <2>2. P \in SUBSET (1 .. k) /\ Q \in SUBSET (k + 1 .. n) /\ R \in SUBSET (1 .. n - k)
      OBVIOUS
    <2> QED
      BY <2>1, <2>2, FS_Subset
  <1>9. Cardinality(Q) = Cardinality(R)
    <2>1. m \in [R -> Q]
      BY <1>1
    <2>2. \A a, b \in R : m[a] = m[b] => a = b
      BY <1>1
    <2>3. \A i \in Q : \E j \in R : m[j] = i
      <3> SUFFICES ASSUME NEW i \in Q PROVE \E j \in R : m[j] = i
        OBVIOUS
      <3>1. i - k \in R /\ m[i - k] = i
        BY <1>1
      <3> QED
        BY <3>1
    <2>4. m \in Bijection(R, Q)
      BY <2>1, <2>2, <2>3 DEF Bijection, Injection, Surjection, IsInjective
    <2>5. ExistsBijection(R, Q)
      BY <2>4 DEF ExistsBijection
    <2> QED
      BY <2>5, <1>8, FS_Bijection
  <1>10. Cardinality(P \cup Q) = Cardinality(P) + Cardinality(Q) - Cardinality(P \cap Q)
    BY <1>8, FS_Union
  <1>11. Cardinality(P \cap Q) = 0
    BY <1>7, FS_EmptySet
  <1>12. Cardinality(P) \in Nat /\ Cardinality(Q) \in Nat
    BY <1>8, FS_CardinalityType
  <1> QED
    <2>1. /\ Count(seq, t) = Cardinality(P \cup Q)
          /\ Count(SubSeq(seq, 1, k), t) = Cardinality(P)
          /\ Count(SubSeq(seq, k + 1, n), t) = Cardinality(R)
      BY <1>5, <1>6, <1>7 DEF Count
    <2> HIDE DEF P, Q, R
    <2> QED
      BY <2>1, <1>9, <1>10, <1>11, <1>12

(* Nothing is in the empty sequence, one thing in a sequence of one. *)
LEMMA CountEmpty == ASSUME NEW t PROVE Count(<<>>, t) = 0
  BY FS_EmptySet DEF Count

(* The only element counts once. *)
LEMMA CountSingle == ASSUME NEW x, NEW t PROVE Count(<<x>>, t) = One(x, t)
  <1>1. <<x>> = Append(<<>>, x) /\ <<>> \in Seq({x})
    BY EmptySeq
  <1>2. Count(Append(<<>>, x), t) = Count(<<>>, t) + One(x, t)
    BY <1>1, CountAppend
  <1> QED
    BY <1>1, <1>2, CountEmpty DEF One

(* Taking the first or the last takes one. *)
LEMMA CountHead ==
    ASSUME NEW S, NEW seq \in Seq(S), seq # <<>>, NEW t
    PROVE  /\ Tail(seq) \in Seq(S) /\ Head(seq) \in S /\ Len(Tail(seq)) = Len(seq) - 1
           /\ Count(seq, t) = One(Head(seq), t) + Count(Tail(seq), t)
  <1>1. Len(seq) \in Nat /\ 1 \in 0 .. Len(seq) /\ 1 \in 1 .. Len(seq)
    BY EmptySeq
  <1>2. SubSeq(seq, 1, 1) = <<Head(seq)>>
    <2>1. SubSeq(seq, 0 + 1, 1) \in Seq(S) /\ Len(SubSeq(seq, 0 + 1, 1)) = 1 - 0
          /\ \A i \in 1 .. 1 - 0 : SubSeq(seq, 0 + 1, 1)[i] = seq[0 + i]
      BY <1>1, PartOf
    <2>2. Head(seq) = seq[1] /\ seq[1] \in S
      BY <1>1, ElementOfSeq
    <2>3. <<seq[1]>> \in Seq(S) /\ Len(<<seq[1]>>) = 1 /\ <<seq[1]>>[1] = seq[1]
      BY <2>2
    <2>4. 0 + 1 = 1 /\ 1 - 0 = 1 /\ 1 .. 1 = {1}
      OBVIOUS
    <2> QED
      BY <2>1, <2>2, <2>3, <2>4, SeqEqual
  <1>3. Count(seq, t) = Count(SubSeq(seq, 1, 1), t) + Count(SubSeq(seq, 1 + 1, Len(seq)), t)
    BY <1>1, CountSplit
  <1>4. SubSeq(seq, 2, Len(seq)) = Tail(seq)
    BY TailIsSubSeq
  <1> QED
    <2>1. Count(seq, t) = One(Head(seq), t) + Count(Tail(seq), t)
      <3>1. 1 + 1 = 2
        OBVIOUS
      <3> QED
        BY <3>1, <1>2, <1>3, <1>4, CountSingle
    <2> QED
      BY <2>1, HeadTailProperties

(* The last is one of them. *)
LEMMA CountLast ==
    ASSUME NEW S, NEW seq \in Seq(S), seq # <<>>, NEW t
    PROVE  /\ SubSeq(seq, 1, Len(seq) - 1) \in Seq(S)
           /\ Len(SubSeq(seq, 1, Len(seq) - 1)) = Len(seq) - 1
           /\ \A i \in 1 .. Len(seq) - 1 : SubSeq(seq, 1, Len(seq) - 1)[i] = seq[i]
           /\ seq[Len(seq)] \in S /\ Len(seq) - 1 \in Nat
           /\ Count(seq, t) = Count(SubSeq(seq, 1, Len(seq) - 1), t) + One(seq[Len(seq)], t)
  <1> DEFINE n == Len(seq)
             front == SubSeq(seq, 1, n - 1)
  <1>1. n \in Nat /\ n >= 1
    BY EmptySeq
  <1>2. \A i \in 1 .. n : seq[i] \in S
    BY ElementOfSeq
  <1>3. /\ front \in Seq(S) /\ Len(front) = n - 1
        /\ \A i \in 1 .. n - 1 : front[i] = seq[i]
    <2>1. 0 \in 0 .. n /\ n - 1 \in 0 .. n /\ 0 + 1 = 1 /\ n - 1 - 0 = n - 1
      BY <1>1
    <2>2. \A i \in 1 .. n - 1 : 0 + i = i
      BY <1>1
    <2> QED
      BY <2>1, <2>2, PartOf
  <1>4. seq[n] \in S
    BY <1>1, <1>2
  <1>5. Append(front, seq[n]) = seq
    <2>1. Append(front, seq[n]) \in Seq(S) /\ Len(Append(front, seq[n])) = n
      BY <1>1, <1>3, <1>4, AppendProperties
    <2>2. \A i \in 1 .. n : Append(front, seq[n])[i] = seq[i]
      BY <1>1, <1>3, <1>4, AppendProperties
    <2> QED
      BY <2>1, <2>2, SeqEqual
  <1> QED
    <2>1. Count(Append(front, seq[n]), t) = Count(front, t) + One(seq[n], t)
      BY <1>3, <1>4, CountAppend
    <2> QED
      <3>1. Count(seq, t) = Count(front, t) + One(seq[n], t)
        BY <1>5, <2>1, Zenon
      <3>2. n - 1 \in Nat
        BY <1>1
      <3> QED
        BY <3>1, <3>2, <1>3, <1>4

-----------------------------------------------------------------------------
(* The calls under way on a worker, and the tasks they run. *)

FrameSet == [task : Tasks, spawned : Nat]

(* The tasks of a stack of calls, one for one. *)
LEMMA BodiesType ==
    ASSUME NEW fs \in Seq(FrameSet)
    PROVE  /\ Bodies(fs) \in Seq(Tasks) /\ Len(Bodies(fs)) = Len(fs) /\ Len(fs) \in Nat
           /\ \A i \in 1 .. Len(fs) : Bodies(fs)[i] = fs[i].task /\ fs[i] \in FrameSet
  <1>1. DOMAIN fs = 1 .. Len(fs) /\ Len(fs) \in Nat
    BY LenProperties
  <1>2. \A i \in 1 .. Len(fs) : fs[i] \in FrameSet
    BY ElementOfSeq
  <1>3. \A i \in 1 .. Len(fs) : fs[i].task \in Tasks
    BY <1>2 DEF FrameSet
  <1>4. Bodies(fs) = [i \in 1 .. Len(fs) |-> fs[i].task]
    BY <1>1 DEF Bodies
  <1> QED
    BY <1>1, <1>2, <1>3, <1>4

(* A call begins. *)
LEMMA BodiesAppend ==
    ASSUME NEW fs \in Seq(FrameSet), NEW f \in FrameSet
    PROVE  Bodies(Append(fs, f)) = Append(Bodies(fs), f.task)
  <1> DEFINE n == Len(fs)
  <1>1. f.task \in Tasks
    BY DEF FrameSet
  <1>2. Append(fs, f) \in Seq(FrameSet) /\ Len(Append(fs, f)) = n + 1
    BY AppendProperties
  <1>3. /\ Bodies(Append(fs, f)) \in Seq(Tasks) /\ Len(Bodies(Append(fs, f))) = n + 1
        /\ \A i \in 1 .. n + 1 : Bodies(Append(fs, f))[i] = Append(fs, f)[i].task
    BY <1>2, BodiesType
  <1>4. /\ Append(Bodies(fs), f.task) \in Seq(Tasks) /\ Len(Append(Bodies(fs), f.task)) = n + 1
        /\ n \in Nat
    BY <1>1, BodiesType, AppendProperties
  <1>5. ASSUME NEW i \in 1 .. n + 1
        PROVE  Bodies(Append(fs, f))[i] = Append(Bodies(fs), f.task)[i]
    <2>1. CASE i \in 1 .. n
      <3>1. Append(fs, f)[i] = fs[i]
        BY <2>1, AppendProperties
      <3>2. Append(Bodies(fs), f.task)[i] = Bodies(fs)[i]
        BY <2>1, <1>1, BodiesType, AppendProperties
      <3> QED
        BY <2>1, <3>1, <3>2, <1>3, BodiesType
    <2>2. CASE i = n + 1
      <3>1. Append(fs, f)[n + 1] = f
        BY AppendProperties
      <3>2. Append(Bodies(fs), f.task)[n + 1] = f.task
        <4>1. Len(Bodies(fs)) = n /\ Bodies(fs) \in Seq(Tasks)
          BY BodiesType
        <4>2. Append(Bodies(fs), f.task)[Len(Bodies(fs)) + 1] = f.task
          BY <1>1, <4>1, AppendProperties
        <4> QED
          BY <4>1, <4>2
      <3> QED
        BY <2>2, <3>1, <3>2, <1>3, <1>4
    <2> QED
      BY <2>1, <2>2, <1>4
  <1> QED
    BY <1>3, <1>4, <1>5, SeqEqual

(* The innermost call returns. *)
LEMMA BodiesPop ==
    ASSUME NEW fs \in Seq(FrameSet), fs # <<>>
    PROVE  /\ Bodies(SubSeq(fs, 1, Len(fs) - 1)) = SubSeq(Bodies(fs), 1, Len(fs) - 1)
           /\ Bodies(fs) # <<>> /\ Bodies(fs)[Len(fs)] = fs[Len(fs)].task
           /\ Len(fs) \in 1 .. Len(fs)
  <1> DEFINE n == Len(fs)
  <1>0. n \in Nat /\ n >= 1
    BY EmptySeq
  <1>1. Bodies(fs) \in Seq(Tasks) /\ Len(Bodies(fs)) = n /\ Bodies(fs) # <<>>
    BY <1>0, BodiesType, EmptySeq
  <1>2. /\ SubSeq(fs, 1, n - 1) \in Seq(FrameSet) /\ Len(SubSeq(fs, 1, n - 1)) = n - 1
        /\ \A i \in 1 .. n - 1 : SubSeq(fs, 1, n - 1)[i] = fs[i]
    BY CountLast
  <1>3. /\ SubSeq(Bodies(fs), 1, n - 1) \in Seq(Tasks)
        /\ Len(SubSeq(Bodies(fs), 1, n - 1)) = n - 1
        /\ \A i \in 1 .. n - 1 : SubSeq(Bodies(fs), 1, n - 1)[i] = Bodies(fs)[i]
    BY <1>1, CountLast
  <1>4. /\ Bodies(SubSeq(fs, 1, n - 1)) \in Seq(Tasks)
        /\ Len(Bodies(SubSeq(fs, 1, n - 1))) = n - 1
        /\ \A i \in 1 .. n - 1 : Bodies(SubSeq(fs, 1, n - 1))[i] = SubSeq(fs, 1, n - 1)[i].task
    BY <1>2, BodiesType
  <1>5. \A i \in 1 .. n : Bodies(fs)[i] = fs[i].task
    BY BodiesType
  <1>6. \A i \in 1 .. n - 1 : Bodies(SubSeq(fs, 1, n - 1))[i] = SubSeq(Bodies(fs), 1, n - 1)[i]
    BY <1>0, <1>2, <1>3, <1>4, <1>5
  <1>7. Bodies(SubSeq(fs, 1, n - 1)) = SubSeq(Bodies(fs), 1, n - 1)
    BY <1>3, <1>4, <1>6, SeqEqual
  <1> QED
    BY <1>0, <1>1, <1>5, <1>7

(* A call that counts a submission runs the same task. *)
LEMMA BodiesSpawned ==
    ASSUME NEW fs \in Seq(FrameSet), fs # <<>>
    PROVE  /\ [fs EXCEPT ![Len(fs)].spawned = @ + 1] \in Seq(FrameSet)
           /\ [fs EXCEPT ![Len(fs)].spawned = @ + 1] # <<>>
           /\ Bodies([fs EXCEPT ![Len(fs)].spawned = @ + 1]) = Bodies(fs)
  <1> DEFINE n == Len(fs)
             e == [fs[n] EXCEPT !.spawned = @ + 1]
             g == [fs EXCEPT ![n] = e]
  <1>1. n \in Nat /\ n >= 1 /\ n \in 1 .. n /\ DOMAIN fs = 1 .. n
    BY EmptySeq
  <1>2. fs[n] \in FrameSet
    BY <1>1, ElementOfSeq
  <1>3. e \in FrameSet /\ e.task = fs[n].task
    BY <1>2 DEF FrameSet
  <1>4. [fs EXCEPT ![Len(fs)].spawned = @ + 1] = g
    BY <1>1
  <1> HIDE DEF e
  <1>5. /\ g \in Seq(FrameSet) /\ Len(g) = n
        /\ \A j \in 1 .. n : g[j] = IF j = n THEN e ELSE fs[j]
    BY <1>1, <1>3, ExceptSeq
  <1> HIDE DEF g
  <1>6. \A j \in 1 .. n : Bodies(g)[j] = Bodies(fs)[j]
    BY <1>3, <1>5, BodiesType
  <1>7. Bodies(g) = Bodies(fs)
    BY <1>5, <1>6, BodiesType, SeqEqual
  <1>8. g # <<>>
    BY <1>1, <1>5, EmptySeq
  <1> QED
    BY <1>4, <1>5, <1>7, <1>8

-----------------------------------------------------------------------------
(* The inductive invariant. *)

(* A submission under way has a task to submit; a scan does not visit itself, *)
(* and its worker has no batch left that it could overwrite.                  *)
Sending == \A p \in Submitters : spc[p] # "idle" => unsent[p] # <<>>
NotSelf == \A w \in Workers : w \notin todo[w]
Emptied == \A w \in Workers : wpc[w] = "scan" => batch[w] = <<>>

(* What the pass has summed is no less than what those counters hold now, as  *)
(* long as none was raised; a wait that returned has read them all.           *)
Read == {x \in Ctrs : x < next}
Passed ==
    /\ mpc \in {"read", "returned"} /\ clean => SumFunctionOnSet(ctr, Read) <= sum
    /\ mpc = "returned" => next \notin Ctrs /\ sum <= 0

IInv == TypeOK /\ Sending /\ NotSelf /\ Emptied /\ NothingLost /\ CountersExact /\ Passed

(* The counters of shards come before those of workers. *)
LEMMA Indices ==
    /\ IsFiniteSet(Shards) /\ IsFiniteSet(Workers) /\ IsFiniteSet(Ctrs)
    /\ Shards \cap Workers = {} /\ Ctrs = 0 .. NumShards + NumWorkers - 1
    /\ Ctrs \subseteq Int /\ NumShards \in Nat \ {0} /\ NumWorkers \in Nat \ {0}
  <1>1. NumShards \in Nat \ {0} /\ NumWorkers \in Nat \ {0}
    BY DispatchAssumption
  <1>2. Shards \cap Workers = {} /\ Ctrs = 0 .. NumShards + NumWorkers - 1
    BY <1>1 DEF Shards, Workers, Ctrs
  <1>3. IsFiniteSet(Shards) /\ IsFiniteSet(Workers) /\ IsFiniteSet(Ctrs)
    BY <1>1, <1>2, FS_Interval DEF Shards, Workers
  <1> QED
    BY <1>1, <1>2, <1>3

(* The counts that Places sums are numbers. *)
LEMMA PlacesTypes ==
    ASSUME TypeOK, NEW t \in Tasks
    PROVE  /\ \A s \in Shards : InShards(t)[s] = Count(ring[s], t) /\ InShards(t)[s] \in Nat
           /\ \A w \in Workers :
                /\ AtWorkers(t)[w] = Count(<<lifo[w]>>, t) + Count(deque[w], t)
                                         + Count(batch[w], t) + Count(Bodies(frames[w]), t)
                /\ AtWorkers(t)[w] \in Nat
                /\ Count(<<lifo[w]>>, t) \in Nat /\ Count(deque[w], t) \in Nat
                /\ Count(batch[w], t) \in Nat /\ Count(Bodies(frames[w]), t) \in Nat
  <1>1. ASSUME NEW s \in Shards
        PROVE  InShards(t)[s] = Count(ring[s], t) /\ InShards(t)[s] \in Nat
    <2>1. ring[s] \in Seq(Tasks)
      BY DEF TypeOK
    <2> QED
      BY <2>1, CountType DEF InShards
  <1>2. ASSUME NEW w \in Workers
        PROVE  /\ AtWorkers(t)[w] = Count(<<lifo[w]>>, t) + Count(deque[w], t)
                                         + Count(batch[w], t) + Count(Bodies(frames[w]), t)
               /\ AtWorkers(t)[w] \in Nat
               /\ Count(<<lifo[w]>>, t) \in Nat /\ Count(deque[w], t) \in Nat
               /\ Count(batch[w], t) \in Nat /\ Count(Bodies(frames[w]), t) \in Nat
    <2>1. deque[w] \in Seq(Tasks) /\ batch[w] \in Seq(Tasks) /\ frames[w] \in Seq(FrameSet)
      BY DEF TypeOK, FrameSet
    <2>2. Bodies(frames[w]) \in Seq(Tasks)
      BY <2>1, BodiesType
    <2>3. Count(<<lifo[w]>>, t) \in Nat
      BY CountSingle DEF One
    <2>4. /\ Count(deque[w], t) \in Nat /\ Count(batch[w], t) \in Nat
          /\ Count(Bodies(frames[w]), t) \in Nat
      BY <2>1, <2>2, CountType
    <2>5. AtWorkers(t)[w] = Count(<<lifo[w]>>, t) + Count(deque[w], t)
                                         + Count(batch[w], t) + Count(Bodies(frames[w]), t)
      BY DEF AtWorkers
    <2> QED
      BY <2>3, <2>4, <2>5
  <1> QED
    BY <1>1, <1>2

(* A task that runs is owed. *)
LEMMA RunningIsOwed ==
    ASSUME TypeOK, NothingLost, NEW w \in Workers, ~Idle(w)
    PROVE  /\ Frame(w) \in FrameSet /\ Frame(w).task \in Tasks
           /\ owed[Frame(w).task] \in Nat /\ owed[Frame(w).task] >= 1
           /\ frames[w] \in Seq(FrameSet) /\ frames[w] # <<>>
  <1> DEFINE fs == frames[w]
             t == Frame(w).task
  <1>1. fs \in Seq(FrameSet) /\ fs # <<>>
    BY DEF TypeOK, Idle, FrameSet
  <1>2. Len(fs) \in 1 .. Len(fs) /\ Bodies(fs) # <<>> /\ Bodies(fs)[Len(fs)] = t
        /\ Bodies(fs) \in Seq(Tasks) /\ Len(Bodies(fs)) = Len(fs)
    BY <1>1, BodiesPop, BodiesType DEF Frame
  <1>3. Frame(w) \in FrameSet /\ t \in Tasks
    BY <1>1, <1>2, ElementOfSeq DEF Frame, FrameSet
  <1> HIDE DEF t
  <1>4. Count(Bodies(fs), t) >= 1
    <2>1. /\ SubSeq(Bodies(fs), 1, Len(fs) - 1) \in Seq(Tasks)
          /\ Count(Bodies(fs), t) = Count(SubSeq(Bodies(fs), 1, Len(fs) - 1), t) + One(t, t)
      BY <1>2, CountLast
    <2>2. Count(SubSeq(Bodies(fs), 1, Len(fs) - 1), t) \in Nat
      BY <2>1, CountType
    <2> QED
      BY <2>1, <2>2 DEF One
  <1>5. AtWorkers(t)[w] >= 1
    <2>1. /\ AtWorkers(t)[w] = Count(<<lifo[w]>>, t) + Count(deque[w], t)
                                         + Count(batch[w], t) + Count(Bodies(frames[w]), t)
          /\ Count(<<lifo[w]>>, t) \in Nat /\ Count(deque[w], t) \in Nat
          /\ Count(batch[w], t) \in Nat /\ Count(Bodies(frames[w]), t) \in Nat
      BY <1>3, PlacesTypes
    <2> QED
      BY <2>1, <1>4
  <1>6. AtWorkers(t)[w] <= SumFunctionOnSet(AtWorkers(t), Workers)
    BY <1>3, Indices, PlacesTypes, SumOfNat
  <1>7. SumFunctionOnSet(InShards(t), Shards) \in Nat /\ SumFunctionOnSet(AtWorkers(t), Workers) \in Nat
    BY <1>3, Indices, PlacesTypes, SumOfNat
  <1>8. AtWorkers(t)[w] \in Nat
    BY <1>3, PlacesTypes
  <1>9. Places(t) = owed[t] /\ owed[t] \in Nat
    BY <1>3 DEF NothingLost, TypeOK
  <1>10. owed[t] >= 1
    BY <1>5, <1>6, <1>7, <1>8, <1>9 DEF Places
  <1> QED
    BY <1>1, <1>3, <1>9, <1>10 DEF t

-----------------------------------------------------------------------------
(* Types, and what goes with them. *)

(* The pool begins with types, nothing under way and nothing to visit. *)
LEMMA TypeInit == Init => TypeOK /\ Sending /\ NotSelf
  <1> SUFFICES ASSUME Init PROVE TypeOK /\ Sending /\ NotSelf
    OBVIOUS
  <1>1. /\ NumShards \in Nat \ {0} /\ NumWorkers \in Nat \ {0} /\ Batch \in Nat \ {0}
        /\ ShardCap \in Nat \ {0} /\ DequeCap \in Nat \ {0} /\ LifoCap \in Nat \ {0}
        /\ unsent \in [Submitters -> Seq(Tasks)]
    BY DispatchAssumption DEF Init
  <1>2. 0 \in Shards
    BY <1>1 DEF Shards
  <1>3. NotSelf /\ Sending
    BY DEF Init, NotSelf, Sending
  <1>4. /\ ring \in [Shards -> Seq(Tasks)] /\ \A s \in Shards : Len(ring[s]) <= ShardCap
        /\ deque \in [Workers -> Seq(Tasks)] /\ batch \in [Workers -> Seq(Tasks)]
        /\ \A w \in Workers : Len(deque[w]) <= DequeCap /\ Len(batch[w]) < Batch
        /\ frames \in [Workers -> Seq([task : Tasks, spawned : Nat])]
    BY <1>1 DEF Init
  <1>5. /\ rr \in Shards /\ shard \in [Submitters -> Shards]
        /\ ctr \in [Ctrs -> Int] /\ owed \in [Tasks -> Nat] /\ streak \in [Workers -> 0 .. LifoCap]
        /\ next \in 0 .. NumShards + NumWorkers /\ sum \in Int
    BY <1>1, <1>2 DEF Init
  <1>6. /\ lifo \in [Workers -> Tasks \cup {NoTask}]
        /\ wpc \in [Workers -> {"loop", "get", "scan", "exit"}]
        /\ todo \in [Workers -> SUBSET Ctrs] /\ raced \in [Workers -> SUBSET Ctrs]
        /\ \A w \in Workers : raced[w] \subseteq todo[w]
        /\ stop \in BOOLEAN /\ spc \in [Submitters -> {"idle", "push", "undo", "retry"}]
        /\ mpc \in {"out", "read", "returned", "join", "joined"}
        /\ due \subseteq Tasks /\ clean \in BOOLEAN
    BY DEF Init
  <1> QED
    BY <1>1, <1>3, <1>4, <1>5, <1>6 DEF TypeOK

(* A submitter's step. *)
LEMMA TypeSubmit ==
    ASSUME IInv, NEW p \in Submitters, SubmitStep(p) PROVE TypeOK' /\ Sending' /\ NotSelf'
  <1> USE DEF IInv
  <1>1. CASE SubmitStopped(p)
    <2>1. Tail(unsent[p]) \in Seq(Tasks)
      BY <1>1, HeadTailProperties DEF TypeOK, SubmitStopped, Calls
    <2>2. TypeOK'
      BY <1>1, <2>1 DEF TypeOK, SubmitStopped, worker, waiter
    <2> QED
      BY <1>1, <2>2 DEF TypeOK, Sending, NotSelf, SubmitStopped, Calls, worker
  <1>2. CASE SubmitCount(p)
    <2>1. (rr + 1) % NumShards \in Shards /\ rr \in Ctrs
      <3>1. rr \in 0 .. NumShards - 1 /\ NumShards \in Nat /\ NumShards > 0
        BY Indices DEF TypeOK, Shards
      <3> QED
        BY <3>1 DEF Shards, Ctrs
    <2>2. ctr' \in [Ctrs -> Int] /\ clean' \in BOOLEAN
      BY <1>2, <2>1 DEF TypeOK, SubmitCount, AddCtr
    <2>3. TypeOK'
      BY <1>2, <2>1, <2>2 DEF TypeOK, SubmitCount, worker, waiter
    <2> QED
      BY <1>2, <2>3 DEF TypeOK, Sending, NotSelf, SubmitCount, Calls, worker
  <1>3. CASE SubmitPush(p)
    <2>1. unsent[p] \in Seq(Tasks) /\ unsent[p] # <<>>
      BY <1>3 DEF TypeOK, Sending, SubmitPush
    <2>2. Tail(unsent[p]) \in Seq(Tasks) /\ Head(unsent[p]) \in Tasks
      BY <2>1, HeadTailProperties
    <2>3. shard[p] \in Shards /\ ring[shard[p]] \in Seq(Tasks)
      BY DEF TypeOK
    <2>4. CASE Len(ring[shard[p]]) < ShardCap
      <3>1. /\ Append(ring[shard[p]], Head(unsent[p])) \in Seq(Tasks)
            /\ Len(Append(ring[shard[p]], Head(unsent[p]))) = Len(ring[shard[p]]) + 1
        BY <2>2, <2>3, AppendProperties
      <3>2. Len(ring[shard[p]]) + 1 <= ShardCap
        BY <2>3, <2>4, DispatchAssumption, LenProperties
      <3>3. ring' \in [Shards -> Seq(Tasks)] /\ \A s \in Shards : Len(ring'[s]) <= ShardCap
        BY <1>3, <2>3, <2>4, <3>1, <3>2 DEF TypeOK, SubmitPush
      <3>4. owed' \in [Tasks -> Nat]
        <4>1. owed \in [Tasks -> Nat] /\ owed[Head(unsent[p])] + 1 \in Nat
          BY <2>2 DEF TypeOK
        <4>2. owed' = [owed EXCEPT ![Head(unsent[p])] = owed[Head(unsent[p])] + 1]
          BY <1>3, <2>4 DEF SubmitPush, Accept
        <4> QED
          BY <2>2, <4>1, <4>2
      <3>5. TypeOK'
        BY <1>3, <2>2, <2>4, <3>3, <3>4 DEF TypeOK, SubmitPush, worker, waiter
      <3>6. NotSelf'
        BY <1>3 DEF NotSelf, SubmitPush, worker
      <3>7. Sending'
        <4>1. unsent' = [unsent EXCEPT ![p] = Tail(unsent[p])] /\ spc' = [spc EXCEPT ![p] = "idle"]
          BY <1>3, <2>4 DEF SubmitPush
        <4>2. unsent \in [Submitters -> Seq(Tasks)] /\ DOMAIN spc = Submitters
          BY DEF TypeOK
        <4> QED
          BY <4>1, <4>2 DEF Sending
      <3> QED
        BY <3>5, <3>6, <3>7
    <2>5. CASE ~(Len(ring[shard[p]]) < ShardCap)
      <3>1. TypeOK'
        BY <1>3, <2>5 DEF TypeOK, SubmitPush, worker, waiter
      <3> QED
        BY <1>3, <2>1, <2>5, <3>1 DEF TypeOK, Sending, NotSelf, SubmitPush, worker
    <2> QED
      BY <2>4, <2>5
  <1>4. CASE SubmitUndo(p)
    <2>1. unsent[p] \in Seq(Tasks) /\ unsent[p] # <<>>
      BY <1>4 DEF TypeOK, Sending, SubmitUndo
    <2>2. Tail(unsent[p]) \in Seq(Tasks)
      BY <2>1, HeadTailProperties
    <2>3. shard[p] \in Ctrs /\ ctr' \in [Ctrs -> Int] /\ clean' \in BOOLEAN
      BY <1>4 DEF TypeOK, SubmitUndo, AddCtr, Ctrs
    <2>4. TypeOK'
      BY <1>4, <2>2, <2>3 DEF TypeOK, SubmitUndo, worker, waiter
    <2> QED
      BY <1>4, <2>1, <2>4 DEF TypeOK, Sending, NotSelf, SubmitUndo, worker
  <1> QED
    BY <1>1, <1>2, <1>3, <1>4 DEF SubmitStep

(* A step of the thread that waits and destroys. *)
LEMMA TypeMain == ASSUME IInv, MainStep PROVE TypeOK' /\ Sending' /\ NotSelf'
  <1> USE DEF IInv
  <1>1. Sending' /\ NotSelf'
    BY DEF Sending, NotSelf, MainStep, WaitCall, WaitRead, WaitAgain, WaitReturn, DestroyStop,
           DestroyJoined, submit, worker
  <1>2. /\ next' \in 0 .. NumShards + NumWorkers /\ sum' \in Int
        /\ due' \subseteq Tasks /\ clean' \in BOOLEAN /\ stop' \in BOOLEAN
        /\ mpc' \in {"out", "read", "returned", "join", "joined"}
    <2>1. NumShards \in Nat /\ NumWorkers \in Nat
      BY Indices
    <2>2. CASE WaitRead
      <3>1. next \in 0 .. NumShards + NumWorkers - 1 /\ ctr[next] \in Int /\ sum \in Int
        BY <2>2, Indices DEF WaitRead, TypeOK
      <3>2. next' \in 0 .. NumShards + NumWorkers /\ sum' \in Int
        BY <2>1, <2>2, <3>1 DEF WaitRead
      <3> QED
        BY <2>2, <3>2 DEF WaitRead, TypeOK
    <2>3. CASE WaitCall \/ WaitAgain \/ WaitReturn \/ DestroyStop \/ DestroyJoined
      <3>1. 0 \in 0 .. NumShards + NumWorkers /\ {t \in Tasks : owed[t] > 0} \subseteq Tasks
        BY <2>1
      <3>2. /\ next \in 0 .. NumShards + NumWorkers /\ sum \in Int /\ due \subseteq Tasks
            /\ clean \in BOOLEAN /\ stop \in BOOLEAN
            /\ mpc \in {"out", "read", "returned", "join", "joined"}
        BY DEF TypeOK
      <3>3. CASE WaitCall
        BY <3>1, <3>2, <3>3 DEF WaitCall
      <3>4. CASE WaitAgain
        BY <3>1, <3>2, <3>4 DEF WaitAgain
      <3>5. CASE WaitReturn
        BY <3>2, <3>5 DEF WaitReturn
      <3>6. CASE DestroyStop
        BY <3>2, <3>6 DEF DestroyStop
      <3>7. CASE DestroyJoined
        BY <3>2, <3>7 DEF DestroyJoined
      <3> QED
        BY <2>3, <3>3, <3>4, <3>5, <3>6, <3>7
    <2> QED
      BY <2>2, <2>3 DEF MainStep
  <1>3. UNCHANGED <<ring, deque, ctr, submit, worker, owed>>
    BY DEF MainStep, WaitCall, WaitRead, WaitAgain, WaitReturn, DestroyStop, DestroyJoined
  <1> QED
    BY <1>1, <1>2, <1>3 DEF TypeOK, submit, worker

(* What a worker's step leaves to show: its own state and what it takes from. *)
WorkerTypes ==
    /\ ring \in [Shards -> Seq(Tasks)] /\ \A s \in Shards : Len(ring[s]) <= ShardCap
    /\ lifo \in [Workers -> Tasks \cup {NoTask}] /\ streak \in [Workers -> 0 .. LifoCap]
    /\ deque \in [Workers -> Seq(Tasks)] /\ batch \in [Workers -> Seq(Tasks)]
    /\ \A w \in Workers : Len(deque[w]) <= DequeCap /\ Len(batch[w]) < Batch
    /\ wpc \in [Workers -> {"loop", "get", "scan", "exit"}]
    /\ todo \in [Workers -> SUBSET Ctrs] /\ raced \in [Workers -> SUBSET Ctrs]
    /\ \A w \in Workers : raced[w] \subseteq todo[w]
    /\ frames \in [Workers -> Seq(FrameSet)]
    /\ ctr \in [Ctrs -> Int] /\ owed \in [Tasks -> Nat] /\ clean \in BOOLEAN

(* A worker's step that keeps those keeps them all. *)
LEMMA WorkerTypesSuffice ==
    ASSUME IInv, WorkerTypes', UNCHANGED <<submit, waiter>>
    PROVE  TypeOK' /\ Sending'
  BY DEF IInv, TypeOK, Sending, WorkerTypes, FrameSet, submit, waiter

(* They are part of TypeOK. *)
LEMMA WorkerTypesHold == ASSUME TypeOK PROVE WorkerTypes
  BY DEF TypeOK, WorkerTypes, FrameSet

(* A call begins. *)
LEMMA RunTypes ==
    ASSUME WorkerTypes, NEW w \in Workers, NEW t \in Tasks, Run(w, t)
    PROVE  /\ frames' \in [Workers -> Seq(FrameSet)]
           /\ wpc' \in [Workers -> {"loop", "get", "scan", "exit"}]
           /\ frames' = [frames EXCEPT ![w] = Append(@, [task |-> t, spawned |-> 0])]
  <1>1. [task |-> t, spawned |-> 0] \in FrameSet /\ frames[w] \in Seq(FrameSet)
    BY DEF FrameSet, WorkerTypes
  <1>2. Append(frames[w], [task |-> t, spawned |-> 0]) \in Seq(FrameSet)
    BY <1>1, AppendProperties
  <1> QED
    BY <1>2 DEF Run, WorkerTypes

(* What another worker took from is something the scan has still to visit. *)
LEMMA TookTypes ==
    ASSUME WorkerTypes, NotSelf, NEW w \in Workers, NEW x, Took(w, x),
           todo' = todo \/ todo' = [todo EXCEPT ![w] = {}]
    PROVE  /\ todo' \in [Workers -> SUBSET Ctrs] /\ raced' \in [Workers -> SUBSET Ctrs]
           /\ \A v \in Workers : raced'[v] \subseteq todo'[v]
           /\ NotSelf'
  BY DEF WorkerTypes, NotSelf, Took

(* A counter moves by one. *)
LEMMA CtrTypes ==
    ASSUME WorkerTypes, NEW x \in Ctrs, NEW d \in Int, AddCtr(x, d)
    PROVE  ctr' \in [Ctrs -> Int] /\ clean' \in BOOLEAN
  BY DEF WorkerTypes, AddCtr

(* A worker's step outside a scan. *)
LEMMA TypeGet ==
    ASSUME IInv, NEW w \in Workers, Loop(w) \/ GetLifo(w) \/ GetLocal(w)
    PROVE  TypeOK' /\ Sending' /\ NotSelf'
  <1>0. WorkerTypes /\ NotSelf
    BY WorkerTypesHold DEF IInv
  <1>1. CASE Loop(w)
    <2>1. WorkerTypes' /\ NotSelf'
      BY <1>0, <1>1 DEF WorkerTypes, NotSelf, Loop
    <2> QED
      BY <1>1, <2>1, WorkerTypesSuffice DEF Loop
  <1>2. CASE GetLifo(w)
    <2>1. lifo[w] \in Tasks
      BY <1>0, <1>2 DEF WorkerTypes, GetLifo
    <2>2. Run(w, lifo[w])
      BY <1>2 DEF GetLifo
    <2>3. /\ frames' \in [Workers -> Seq(FrameSet)]
          /\ wpc' \in [Workers -> {"loop", "get", "scan", "exit"}]
      BY <1>0, <2>1, <2>2, RunTypes
    <2>4. streak' \in [Workers -> 0 .. LifoCap]
      <3>1. streak[w] \in 0 .. LifoCap /\ streak[w] < LifoCap /\ LifoCap \in Nat
        BY <1>0, <1>2, DispatchAssumption DEF WorkerTypes, GetLifo
      <3>2. streak[w] + 1 \in 0 .. LifoCap
        BY <3>1
      <3> QED
        BY <1>0, <1>2, <3>2 DEF WorkerTypes, GetLifo, Streak
    <2>5. WorkerTypes' /\ NotSelf'
      BY <1>0, <1>2, <2>3, <2>4 DEF WorkerTypes, NotSelf, GetLifo
    <2> QED
      BY <1>2, <2>5, WorkerTypesSuffice DEF GetLifo
  <1>3. CASE GetLocal(w)
    <2>0. streak' \in [Workers -> 0 .. LifoCap]
      <3>1. 0 \in 0 .. LifoCap /\ streak \in [Workers -> 0 .. LifoCap]
        BY <1>0, DispatchAssumption DEF WorkerTypes
      <3>2. streak' = [streak EXCEPT ![w] = 0] \/ streak' = streak
        BY <1>3 DEF GetLocal, Streak
      <3> QED
        BY <3>1, <3>2
    <2>1. CASE /\ deque[w] # <<>> /\ Run(w, deque[w][Len(deque[w])])
               /\ deque' = [deque EXCEPT ![w] = SubSeq(@, 1, Len(@) - 1)]
               /\ Took(w, w) /\ UNCHANGED <<batch, todo>>
      <3>1. deque[w] \in Seq(Tasks) /\ Len(deque[w]) <= DequeCap
        BY <1>0 DEF WorkerTypes
      <3>2. /\ SubSeq(deque[w], 1, Len(deque[w]) - 1) \in Seq(Tasks)
            /\ Len(SubSeq(deque[w], 1, Len(deque[w]) - 1)) = Len(deque[w]) - 1
            /\ deque[w][Len(deque[w])] \in Tasks
        BY <2>1, <3>1, CountLast
      <3>3. Len(deque[w]) - 1 <= DequeCap
        BY <3>1, DispatchAssumption, LenProperties
      <3>4. /\ deque' \in [Workers -> Seq(Tasks)]
            /\ \A v \in Workers : Len(deque'[v]) <= DequeCap
        BY <1>0, <2>1, <3>2, <3>3 DEF WorkerTypes
      <3>5. /\ frames' \in [Workers -> Seq(FrameSet)]
            /\ wpc' \in [Workers -> {"loop", "get", "scan", "exit"}]
        BY <1>0, <2>1, <3>2, RunTypes
      <3>6. /\ todo' \in [Workers -> SUBSET Ctrs] /\ raced' \in [Workers -> SUBSET Ctrs]
            /\ \A v \in Workers : raced'[v] \subseteq todo'[v]
            /\ NotSelf'
        BY <1>0, <2>1, TookTypes
      <3>7. WorkerTypes'
        BY <1>0, <1>3, <2>0, <2>1, <3>4, <3>5, <3>6 DEF WorkerTypes, GetLocal
      <3> QED
        BY <1>3, <3>6, <3>7, WorkerTypesSuffice DEF GetLocal
    <2>2. CASE /\ batch[w] # <<>> /\ Run(w, Head(batch[w]))
               /\ batch' = [batch EXCEPT ![w] = Tail(@)]
               /\ UNCHANGED <<deque, todo, raced>>
      <3>1. batch[w] \in Seq(Tasks) /\ Len(batch[w]) < Batch
        BY <1>0 DEF WorkerTypes
      <3>2. /\ Tail(batch[w]) \in Seq(Tasks) /\ Head(batch[w]) \in Tasks
            /\ Len(Tail(batch[w])) = Len(batch[w]) - 1
        BY <2>2, <3>1, HeadTailProperties
      <3>3. Len(batch[w]) - 1 < Batch
        BY <3>1, DispatchAssumption, LenProperties
      <3>4. batch' \in [Workers -> Seq(Tasks)] /\ \A v \in Workers : Len(batch'[v]) < Batch
        BY <1>0, <2>2, <3>2, <3>3 DEF WorkerTypes
      <3>5. /\ frames' \in [Workers -> Seq(FrameSet)]
            /\ wpc' \in [Workers -> {"loop", "get", "scan", "exit"}]
        BY <1>0, <2>2, <3>2, RunTypes
      <3>6. WorkerTypes' /\ NotSelf'
        BY <1>0, <1>3, <2>0, <2>2, <3>4, <3>5 DEF WorkerTypes, NotSelf, GetLocal
      <3> QED
        BY <1>3, <3>6, WorkerTypesSuffice DEF GetLocal
    <2>3. CASE /\ wpc' = [wpc EXCEPT ![w] = "scan"]
               /\ todo' = [todo EXCEPT ![w] = Ctrs \ {w}]
               /\ UNCHANGED <<deque, batch, streak, frames, raced>>
      <3>1. WorkerTypes' /\ NotSelf'
        BY <1>0, <1>3, <2>3 DEF WorkerTypes, NotSelf, GetLocal
      <3> QED
        BY <1>3, <3>1, WorkerTypesSuffice DEF GetLocal
    <2> QED
      BY <1>3, <2>1, <2>2, <2>3 DEF GetLocal
  <1> QED
    BY <1>1, <1>2, <1>3

(* A scan that looks at one shard or victim. *)
LEMMA TypeScan ==
    ASSUME IInv, NEW w \in Workers, NEW x \in Ctrs,
           ScanShard(w, x) \/ ScanSteal(w, x) \/ ScanMiss(w, x)
    PROVE  TypeOK' /\ Sending' /\ NotSelf'
  <1>0. WorkerTypes /\ NotSelf
    BY WorkerTypesHold DEF IInv
  <1>1. 0 \in 0 .. LifoCap /\ streak \in [Workers -> 0 .. LifoCap]
    BY <1>0, DispatchAssumption DEF WorkerTypes
  <1>2. CASE ScanShard(w, x)
    <2>1. PICK k \in 1 .. Batch :
            /\ k <= Len(ring[x])
            /\ Run(w, Head(ring[x]))
            /\ batch' = [batch EXCEPT ![w] = SubSeq(ring[x], 2, k)]
            /\ ring' = [ring EXCEPT ![x] = SubSeq(@, k + 1, Len(@))]
      BY <1>2 DEF ScanShard
    <2>2. x \in Shards /\ ring[x] \in Seq(Tasks) /\ Len(ring[x]) <= ShardCap
      BY <1>0, <1>2 DEF WorkerTypes, ScanShard
    <2>3. k \in Nat /\ 1 <= k /\ k <= Batch /\ k <= Len(ring[x]) /\ Len(ring[x]) \in Nat
      BY <2>1, <2>2, DispatchAssumption, LenProperties
    <2>4. ring[x] # <<>> /\ Head(ring[x]) \in Tasks
      BY <2>2, <2>3, EmptySeq, HeadTailProperties
    <2>5. /\ SubSeq(ring[x], 2, k) \in Seq(Tasks) /\ Len(SubSeq(ring[x], 2, k)) = k - 1
      <3>1. 1 \in 0 .. Len(ring[x]) /\ k \in 1 .. Len(ring[x]) /\ 1 + 1 = 2
        BY <2>3
      <3> QED
        BY <2>2, <3>1, PartOf
    <2>6. /\ SubSeq(ring[x], k + 1, Len(ring[x])) \in Seq(Tasks)
          /\ Len(SubSeq(ring[x], k + 1, Len(ring[x]))) = Len(ring[x]) - k
      <3>1. k \in 0 .. Len(ring[x]) /\ Len(ring[x]) \in k .. Len(ring[x])
        BY <2>3
      <3> QED
        BY <2>2, <3>1, PartOf
    <2>7. k - 1 < Batch /\ Len(ring[x]) - k <= ShardCap
      BY <2>2, <2>3, DispatchAssumption
    <2>8. ring' \in [Shards -> Seq(Tasks)] /\ \A s \in Shards : Len(ring'[s]) <= ShardCap
      BY <1>0, <2>1, <2>2, <2>6, <2>7 DEF WorkerTypes
    <2>9. batch' \in [Workers -> Seq(Tasks)] /\ \A v \in Workers : Len(batch'[v]) < Batch
      BY <1>0, <2>1, <2>5, <2>7 DEF WorkerTypes
    <2>10. /\ frames' \in [Workers -> Seq(FrameSet)]
           /\ wpc' \in [Workers -> {"loop", "get", "scan", "exit"}]
      BY <1>0, <2>1, <2>4, RunTypes
    <2>11. /\ todo' \in [Workers -> SUBSET Ctrs] /\ raced' \in [Workers -> SUBSET Ctrs]
           /\ \A v \in Workers : raced'[v] \subseteq todo'[v]
           /\ NotSelf'
      BY <1>0, <1>2, TookTypes DEF ScanShard
    <2>12. WorkerTypes'
      BY <1>0, <1>1, <1>2, <2>8, <2>9, <2>10, <2>11 DEF WorkerTypes, ScanShard, Streak
    <2> QED
      BY <1>2, <2>11, <2>12, WorkerTypesSuffice DEF ScanShard
  <1>3. CASE ScanSteal(w, x)
    <2>1. x \in Workers
      BY <1>3 DEF ScanSteal, Ctrs
    <2>2. deque[x] \in Seq(Tasks) /\ Len(deque[x]) <= DequeCap /\ deque[x] # <<>>
      BY <1>0, <1>3, <2>1 DEF WorkerTypes, ScanSteal
    <2>3. /\ Tail(deque[x]) \in Seq(Tasks) /\ Head(deque[x]) \in Tasks
          /\ Len(Tail(deque[x])) = Len(deque[x]) - 1
      BY <2>2, HeadTailProperties
    <2>4. Len(deque[x]) - 1 <= DequeCap
      BY <2>2, DispatchAssumption, LenProperties
    <2>5. /\ deque' \in [Workers -> Seq(Tasks)]
          /\ \A v \in Workers : Len(deque'[v]) <= DequeCap
      BY <1>0, <1>3, <2>1, <2>3, <2>4 DEF WorkerTypes, ScanSteal
    <2>6. /\ frames' \in [Workers -> Seq(FrameSet)]
          /\ wpc' \in [Workers -> {"loop", "get", "scan", "exit"}]
      BY <1>0, <1>3, <2>3, RunTypes DEF ScanSteal
    <2>7. /\ todo' \in [Workers -> SUBSET Ctrs] /\ raced' \in [Workers -> SUBSET Ctrs]
          /\ \A v \in Workers : raced'[v] \subseteq todo'[v]
          /\ NotSelf'
      BY <1>0, <1>3, TookTypes DEF ScanSteal
    <2>8. WorkerTypes'
      BY <1>0, <1>1, <1>3, <2>5, <2>6, <2>7 DEF WorkerTypes, ScanSteal, Streak
    <2> QED
      BY <1>3, <2>7, <2>8, WorkerTypesSuffice DEF ScanSteal
  <1>4. CASE ScanMiss(w, x)
    <2>1. WorkerTypes' /\ NotSelf'
      BY <1>0, <1>4 DEF WorkerTypes, NotSelf, ScanMiss
    <2> QED
      BY <1>4, <2>1, WorkerTypesSuffice DEF ScanMiss
  <1> QED
    BY <1>2, <1>3, <1>4

(* A scan that is over. *)
LEMMA TypeScanEnd ==
    ASSUME IInv, NEW w \in Workers, ScanEnd(w) PROVE TypeOK' /\ Sending' /\ NotSelf'
  <1>0. WorkerTypes /\ NotSelf
    BY WorkerTypesHold DEF IInv
  <1>1. 0 \in 0 .. LifoCap /\ streak \in [Workers -> 0 .. LifoCap]
    BY <1>0, DispatchAssumption DEF WorkerTypes
  <1>2. CASE lifo[w] # NoTask
    <2>1. lifo[w] \in Tasks
      BY <1>0, <1>2 DEF WorkerTypes
    <2>2. Run(w, lifo[w])
      BY <1>2 DEF ScanEnd
    <2>3. /\ frames' \in [Workers -> Seq(FrameSet)]
          /\ wpc' \in [Workers -> {"loop", "get", "scan", "exit"}]
      BY <1>0, <2>1, <2>2, RunTypes
    <2>4. streak' \in [Workers -> 0 .. LifoCap] /\ lifo' \in [Workers -> Tasks \cup {NoTask}]
      BY <1>0, <1>1, <1>2 DEF WorkerTypes, ScanEnd, Streak
    <2>5. WorkerTypes' /\ NotSelf'
      BY <1>0, <1>2, <2>3, <2>4 DEF WorkerTypes, NotSelf, ScanEnd
    <2> QED
      BY <2>5, WorkerTypesSuffice DEF ScanEnd
  <1>3. CASE lifo[w] = NoTask
    <2>1. WorkerTypes' /\ NotSelf'
      BY <1>0, <1>3 DEF WorkerTypes, NotSelf, ScanEnd
    <2> QED
      BY <2>1, WorkerTypesSuffice DEF ScanEnd
  <1> QED
    BY <1>2, <1>3

(* The submission that a running task makes. *)
LEMMA KidTypes ==
    ASSUME IInv, NEW w \in Workers, Spawning(w)
    PROVE  /\ Kid(w) \in Tasks /\ w \in Ctrs /\ ~Idle(w)
           /\ frames[w] \in Seq(FrameSet) /\ frames[w] # <<>>
           /\ Spawned(w)[w] = [frames[w] EXCEPT ![Len(frames[w])].spawned = @ + 1]
           /\ Spawned(w)[w] \in Seq(FrameSet) /\ Spawned(w)[w] # <<>>
           /\ Bodies(Spawned(w)[w]) = Bodies(frames[w])
           /\ Spawned(w) \in [Workers -> Seq(FrameSet)]
           /\ Spawned(w) = [frames EXCEPT ![w] = Spawned(w)[w]]
  <1>1. ~Idle(w)
    BY DEF Spawning
  <1>2. /\ Frame(w) \in FrameSet /\ Frame(w).task \in Tasks
        /\ frames[w] \in Seq(FrameSet) /\ frames[w] # <<>>
    BY <1>1, RunningIsOwed DEF IInv
  <1>3. Kids[Frame(w).task] \in Seq(Tasks)
    BY <1>2, DispatchAssumption
  <1>4. Frame(w).spawned \in Nat /\ Frame(w).spawned < Len(Kids[Frame(w).task])
    BY <1>2 DEF FrameSet, Spawning
  <1>5. Frame(w).spawned + 1 \in 1 .. Len(Kids[Frame(w).task])
    BY <1>3, <1>4, LenProperties
  <1>6. Kid(w) \in Tasks
    BY <1>3, <1>5, ElementOfSeq DEF Kid
  <1>7. frames \in [Workers -> Seq(FrameSet)]
    BY DEF IInv, TypeOK, FrameSet
  <1>8. Spawned(w)[w] = [frames[w] EXCEPT ![Len(frames[w])].spawned = @ + 1]
    BY <1>7 DEF Spawned
  <1>9. Spawned(w) = [frames EXCEPT ![w] = Spawned(w)[w]]
    BY <1>7 DEF Spawned
  <1>10. /\ Spawned(w)[w] \in Seq(FrameSet) /\ Spawned(w)[w] # <<>>
         /\ Bodies(Spawned(w)[w]) = Bodies(frames[w])
    BY <1>2, <1>8, BodiesSpawned
  <1> QED
    BY <1>1, <1>2, <1>6, <1>7, <1>8, <1>9, <1>10 DEF Ctrs

(* A submission from inside a task. *)
LEMMA TypeSpawn ==
    ASSUME IInv, NEW w \in Workers, SpawnStopped(w) \/ Spawn(w)
    PROVE  TypeOK' /\ Sending' /\ NotSelf'
  <1>0. WorkerTypes /\ NotSelf /\ Spawning(w)
    BY WorkerTypesHold DEF IInv, SpawnStopped, Spawn
  <1>1. /\ Kid(w) \in Tasks /\ w \in Ctrs /\ Spawned(w) \in [Workers -> Seq(FrameSet)]
        /\ Spawned(w)[w] \in Seq(FrameSet)
    BY <1>0, KidTypes
  <1>2. CASE SpawnStopped(w)
    <2>1. WorkerTypes' /\ NotSelf'
      BY <1>0, <1>1, <1>2 DEF WorkerTypes, NotSelf, SpawnStopped
    <2> QED
      BY <1>2, <2>1, WorkerTypesSuffice DEF SpawnStopped
  <1>3. CASE Spawn(w)
    <2>1. ctr' \in [Ctrs -> Int] /\ clean' \in BOOLEAN
      BY <1>0, <1>1, <1>3, CtrTypes DEF Spawn
    <2>2. owed' \in [Tasks -> Nat]
      <3>1. owed \in [Tasks -> Nat] /\ owed[Kid(w)] + 1 \in Nat
        BY <1>0, <1>1 DEF WorkerTypes
      <3>2. owed' = [owed EXCEPT ![Kid(w)] = owed[Kid(w)] + 1]
        BY <1>3 DEF Spawn, Accept
      <3> QED
        BY <3>1, <3>2
    <2>3. lifo' \in [Workers -> Tasks \cup {NoTask}]
      BY <1>0, <1>1, <1>3 DEF WorkerTypes, Spawn
    <2>4. /\ deque' \in [Workers -> Seq(Tasks)]
          /\ \A v \in Workers : Len(deque'[v]) <= DequeCap
          /\ frames' \in [Workers -> Seq(FrameSet)]
      <3>1. CASE frames' = Spawned(w) /\ UNCHANGED deque
        BY <1>0, <1>1, <3>1 DEF WorkerTypes
      <3>2. CASE /\ lifo[w] # NoTask /\ Len(deque[w]) < DequeCap /\ frames' = Spawned(w)
                 /\ deque' = [deque EXCEPT ![w] = Append(@, lifo[w])]
        <4>1. lifo[w] \in Tasks /\ deque[w] \in Seq(Tasks)
          BY <1>0, <3>2 DEF WorkerTypes
        <4>2. /\ Append(deque[w], lifo[w]) \in Seq(Tasks)
              /\ Len(Append(deque[w], lifo[w])) = Len(deque[w]) + 1
          BY <4>1, AppendProperties
        <4>3. Len(deque[w]) + 1 <= DequeCap
          BY <3>2, <4>1, DispatchAssumption, LenProperties
        <4> QED
          BY <1>0, <1>1, <3>2, <4>2, <4>3 DEF WorkerTypes
      <3>3. CASE /\ lifo[w] # NoTask /\ UNCHANGED deque
                 /\ frames' = [Spawned(w) EXCEPT ![w] =
                                   Append(@, [task |-> lifo[w], spawned |-> 0])]
        <4>1. [task |-> lifo[w], spawned |-> 0] \in FrameSet
          BY <1>0, <3>3 DEF WorkerTypes, FrameSet
        <4>2. Append(Spawned(w)[w], [task |-> lifo[w], spawned |-> 0]) \in Seq(FrameSet)
          BY <1>1, <4>1, AppendProperties
        <4> QED
          BY <1>0, <1>1, <3>3, <4>2 DEF WorkerTypes
      <3> QED
        BY <1>3, <3>1, <3>2, <3>3 DEF Spawn
    <2>5. WorkerTypes' /\ NotSelf'
      BY <1>0, <1>3, <2>1, <2>2, <2>3, <2>4 DEF WorkerTypes, NotSelf, Spawn
    <2> QED
      BY <1>3, <2>5, WorkerTypesSuffice DEF Spawn
  <1> QED
    BY <1>2, <1>3

(* A body that returns was owed, so what is owed stays a number. *)
LEMMA TypeFinish ==
    ASSUME IInv, NEW w \in Workers, Finish(w) PROVE TypeOK' /\ Sending' /\ NotSelf'
  <1>0. WorkerTypes /\ NotSelf /\ ~Idle(w) /\ w \in Ctrs
    BY WorkerTypesHold DEF IInv, Finish, Ctrs
  <1>1. /\ Frame(w).task \in Tasks /\ frames[w] \in Seq(FrameSet) /\ frames[w] # <<>>
        /\ owed[Frame(w).task] \in Nat /\ owed[Frame(w).task] >= 1
    BY <1>0, RunningIsOwed DEF IInv
  <1>2. owed' \in [Tasks -> Nat]
    <2>1. owed \in [Tasks -> Nat] /\ owed[Frame(w).task] - 1 \in Nat
      BY <1>0, <1>1 DEF WorkerTypes
    <2>2. owed' = [owed EXCEPT ![Frame(w).task] = owed[Frame(w).task] - 1]
      BY DEF Finish
    <2> QED
      BY <2>1, <2>2
  <1>3. ctr' \in [Ctrs -> Int] /\ clean' \in BOOLEAN
    BY <1>0, CtrTypes DEF Finish
  <1>4. frames' \in [Workers -> Seq(FrameSet)]
    <2>1. SubSeq(frames[w], 1, Len(frames[w]) - 1) \in Seq(FrameSet)
      BY <1>1, CountLast
    <2> QED
      BY <1>0, <2>1 DEF WorkerTypes, Finish
  <1>5. WorkerTypes' /\ NotSelf'
    BY <1>0, <1>2, <1>3, <1>4 DEF WorkerTypes, NotSelf, Finish
  <1> QED
    BY <1>5, WorkerTypesSuffice DEF Finish

(* Every step keeps the types. *)
LEMMA TypeNext == ASSUME IInv, [Next]_vars PROVE TypeOK' /\ Sending' /\ NotSelf'
  <1>1. CASE UNCHANGED vars
    BY <1>1 DEF IInv, TypeOK, Sending, NotSelf, vars, submit, worker, waiter
  <1>2. ASSUME NEW p \in Submitters, SubmitStep(p) PROVE TypeOK' /\ Sending' /\ NotSelf'
    BY <1>2, TypeSubmit
  <1>3. ASSUME NEW w \in Workers, WorkerStep(w) PROVE TypeOK' /\ Sending' /\ NotSelf'
    BY <1>3, TypeGet, TypeScan, TypeScanEnd, TypeSpawn, TypeFinish DEF WorkerStep
  <1>4. CASE MainStep
    BY <1>4, TypeMain
  <1> QED
    BY <1>1, <1>2, <1>3, <1>4 DEF Next

-----------------------------------------------------------------------------
(* No task is lost or doubled. *)

(* What a worker holds of a task: its slot, deque, batch and calls. *)
Held(l, d, b, fs, t) == Count(<<l>>, t) + Count(d, t) + Count(b, t) + Count(Bodies(fs), t)

(* What is held is a number, the sum of four counts. *)
LEMMA HeldType ==
    ASSUME NEW l, NEW d \in Seq(Tasks), NEW b \in Seq(Tasks), NEW fs \in Seq(FrameSet), NEW t
    PROVE  /\ Count(<<l>>, t) = One(l, t) /\ One(l, t) \in Nat
           /\ Count(d, t) \in Nat /\ Count(b, t) \in Nat /\ Count(Bodies(fs), t) \in Nat
           /\ Held(l, d, b, fs, t) \in Int
           /\ Held(l, d, b, fs, t) = One(l, t) + Count(d, t) + Count(b, t) + Count(Bodies(fs), t)
  <1>1. Count(<<l>>, t) = One(l, t) /\ One(l, t) \in Nat
    BY CountSingle DEF One
  <1>2. Count(d, t) \in Nat /\ Count(b, t) \in Nat
    BY CountType
  <1>3. Count(Bodies(fs), t) \in Nat
    BY BodiesType, CountType
  <1> QED
    BY <1>1, <1>2, <1>3 DEF Held

(* A step that touches one shard. *)
LEMMA ShardMoves ==
    ASSUME TypeOK, TypeOK', NEW t \in Tasks, NEW s \in Shards,
           \A x \in Shards \ {s} : ring'[x] = ring[x]
    PROVE  /\ SumFunctionOnSet(InShards(t)', Shards)
                 = SumFunctionOnSet(InShards(t), Shards) + (Count(ring'[s], t) - Count(ring[s], t))
           /\ SumFunctionOnSet(InShards(t), Shards) \in Int
           /\ Count(ring'[s], t) \in Nat /\ Count(ring[s], t) \in Nat
  <1>1. /\ InShards(t) = [x \in Shards |-> Count(ring[x], t)]
        /\ InShards(t)' = [x \in Shards |-> Count(ring'[x], t)]
    BY DEF InShards
  <1>2. ASSUME NEW x \in Shards PROVE Count(ring[x], t) \in Nat /\ Count(ring'[x], t) \in Nat
    <2>1. ring[x] \in Seq(Tasks) /\ ring'[x] \in Seq(Tasks)
      BY DEF TypeOK
    <2> QED
      BY <2>1, CountType
  <1>3. /\ \A x \in Shards : InShards(t)[x] \in Int /\ InShards(t)'[x] \in Int
        /\ \A x \in Shards \ {s} : InShards(t)'[x] = InShards(t)[x]
        /\ InShards(t)[s] = Count(ring[s], t) /\ InShards(t)'[s] = Count(ring'[s], t)
    BY <1>1, <1>2
  <1>4. SumFunctionOnSet(InShards(t)', Shards)
            = SumFunctionOnSet(InShards(t), Shards) + (InShards(t)'[s] - InShards(t)[s])
        /\ SumFunctionOnSet(InShards(t), Shards) \in Int
    <2>1. IsFiniteSet(Shards)
      BY Indices
    <2>2. ASSUME NEW f, NEW g, f = InShards(t), g = InShards(t)'
          PROVE  SumFunctionOnSet(g, Shards) = SumFunctionOnSet(f, Shards) + (g[s] - f[s])
                 /\ SumFunctionOnSet(f, Shards) \in Int
      <3>1. /\ \A x \in Shards : f[x] \in Int /\ g[x] \in Int
            /\ \A x \in Shards \ {s} : g[x] = f[x]
        BY <1>3, <2>2
      <3> HIDE <2>2
      <3> QED
        BY <2>1, <3>1, SumUpdate
    <2> QED
      BY <2>2
  <1> QED
    BY <1>2, <1>3, <1>4

(* The values that are summed over the workers, before and after a step. *)
LEMMA HeldAt ==
    ASSUME TypeOK, TypeOK', NEW t \in Tasks, NEW w \in Workers
    PROVE  /\ AtWorkers(t)[w] = Held(lifo[w], deque[w], batch[w], frames[w], t)
           /\ AtWorkers(t)'[w] = Held(lifo'[w], deque'[w], batch'[w], frames'[w], t)
           /\ AtWorkers(t)[w] \in Int /\ AtWorkers(t)'[w] \in Int
           /\ deque[w] \in Seq(Tasks) /\ batch[w] \in Seq(Tasks) /\ frames[w] \in Seq(FrameSet)
           /\ deque'[w] \in Seq(Tasks) /\ batch'[w] \in Seq(Tasks) /\ frames'[w] \in Seq(FrameSet)
  <1>1. /\ deque[w] \in Seq(Tasks) /\ batch[w] \in Seq(Tasks) /\ frames[w] \in Seq(FrameSet)
        /\ deque'[w] \in Seq(Tasks) /\ batch'[w] \in Seq(Tasks) /\ frames'[w] \in Seq(FrameSet)
    BY DEF TypeOK, FrameSet
  <1>2. /\ Held(lifo[w], deque[w], batch[w], frames[w], t) \in Int
        /\ Held(lifo'[w], deque'[w], batch'[w], frames'[w], t) \in Int
    BY <1>1, HeldType
  <1>3. /\ AtWorkers(t)[w] = Held(lifo[w], deque[w], batch[w], frames[w], t)
        /\ AtWorkers(t)'[w] = Held(lifo'[w], deque'[w], batch'[w], frames'[w], t)
    BY DEF AtWorkers, Held
  <1> QED
    BY <1>1, <1>2, <1>3

(* A step that touches what one worker holds. *)
LEMMA WorkerMoves ==
    ASSUME TypeOK, TypeOK', NEW t \in Tasks, NEW w \in Workers,
           \A v \in Workers \ {w} : /\ lifo'[v] = lifo[v] /\ deque'[v] = deque[v]
                                    /\ batch'[v] = batch[v] /\ frames'[v] = frames[v]
    PROVE  /\ SumFunctionOnSet(AtWorkers(t)', Workers)
                 = SumFunctionOnSet(AtWorkers(t), Workers)
                   + (Held(lifo'[w], deque'[w], batch'[w], frames'[w], t)
                      - Held(lifo[w], deque[w], batch[w], frames[w], t))
           /\ SumFunctionOnSet(AtWorkers(t), Workers) \in Int
  <1>1. \A v \in Workers : AtWorkers(t)[v] \in Int /\ AtWorkers(t)'[v] \in Int
    BY HeldAt
  <1>2. \A v \in Workers \ {w} : AtWorkers(t)'[v] = AtWorkers(t)[v]
    BY HeldAt
  <1>3. /\ SumFunctionOnSet(AtWorkers(t)', Workers)
              = SumFunctionOnSet(AtWorkers(t), Workers) + (AtWorkers(t)'[w] - AtWorkers(t)[w])
        /\ SumFunctionOnSet(AtWorkers(t), Workers) \in Int
    <2>1. IsFiniteSet(Workers)
      BY Indices
    <2>2. ASSUME NEW f, NEW g, f = AtWorkers(t), g = AtWorkers(t)'
          PROVE  SumFunctionOnSet(g, Workers) = SumFunctionOnSet(f, Workers) + (g[w] - f[w])
                 /\ SumFunctionOnSet(f, Workers) \in Int
      <3>1. /\ \A v \in Workers : f[v] \in Int /\ g[v] \in Int
            /\ \A v \in Workers \ {w} : g[v] = f[v]
        BY <1>1, <1>2, <2>2
      <3> HIDE <2>2
      <3> QED
        BY <2>1, <3>1, SumUpdate
    <2> QED
      BY <2>2
  <1> QED
    BY <1>3, HeldAt

(* Places after a step, when shards and workers changed by so much. *)
LEMMA PlacesMove ==
    ASSUME TypeOK, NothingLost, NEW t \in Tasks, NEW ds \in Int, NEW dw \in Int,
           SumFunctionOnSet(InShards(t)', Shards) = SumFunctionOnSet(InShards(t), Shards) + ds,
           SumFunctionOnSet(AtWorkers(t)', Workers) = SumFunctionOnSet(AtWorkers(t), Workers) + dw,
           owed'[t] = owed[t] + (ds + dw)
    PROVE  Places(t)' = owed'[t]
  <1>1. SumFunctionOnSet(InShards(t), Shards) \in Nat /\ SumFunctionOnSet(AtWorkers(t), Workers) \in Nat
    BY Indices, PlacesTypes, SumOfNat
  <1>2. Places(t) = owed[t] /\ owed[t] \in Int
    BY DEF NothingLost, TypeOK
  <1>3. /\ Places(t) = SumFunctionOnSet(InShards(t), Shards) + SumFunctionOnSet(AtWorkers(t), Workers)
        /\ Places(t)' = SumFunctionOnSet(InShards(t)', Shards)
                          + SumFunctionOnSet(AtWorkers(t)', Workers)
    BY DEF Places
  <1> QED
    BY <1>1, <1>2, <1>3

(* Shards that stay, workers that stay. *)
LEMMA ShardsStay ==
    ASSUME TypeOK, NEW t \in Tasks, UNCHANGED ring
    PROVE  SumFunctionOnSet(InShards(t)', Shards) = SumFunctionOnSet(InShards(t), Shards) + 0
  <1>1. InShards(t)' = InShards(t)
    BY DEF InShards
  <1>2. SumFunctionOnSet(InShards(t), Shards) \in Nat
    BY Indices, PlacesTypes, SumOfNat
  <1> QED
    BY <1>1, <1>2

(* Workers that keep what they hold. *)
LEMMA WorkersStay ==
    ASSUME TypeOK, NEW t \in Tasks, UNCHANGED <<lifo, deque, batch, frames>>
    PROVE  SumFunctionOnSet(AtWorkers(t)', Workers) = SumFunctionOnSet(AtWorkers(t), Workers) + 0
  <1>1. AtWorkers(t)' = AtWorkers(t)
    BY DEF AtWorkers
  <1>2. SumFunctionOnSet(AtWorkers(t), Workers) \in Nat
    BY Indices, PlacesTypes, SumOfNat
  <1> QED
    BY <1>1, <1>2

(* Nothing moves. *)
LEMMA LostStay ==
    ASSUME IInv, UNCHANGED <<ring, lifo, deque, batch, frames, owed>> PROVE NothingLost'
  <1> SUFFICES ASSUME NEW t \in Tasks PROVE Places(t)' = owed'[t]
    BY DEF NothingLost
  <1>1. owed'[t] = owed[t] + (0 + 0)
    BY DEF IInv, TypeOK
  <1> QED
    <2>1. TypeOK /\ NothingLost /\ 0 \in Int
      BY DEF IInv
    <2>2. /\ SumFunctionOnSet(InShards(t)', Shards) = SumFunctionOnSet(InShards(t), Shards) + 0
          /\ SumFunctionOnSet(AtWorkers(t)', Workers) = SumFunctionOnSet(AtWorkers(t), Workers) + 0
      BY <2>1, ShardsStay, WorkersStay
    <2> QED
      BY <1>1, <2>1, <2>2, PlacesMove

(* A call that begins holds its task. *)
LEMMA RunCounts ==
    ASSUME TypeOK, NEW w \in Workers, NEW x \in Tasks, Run(w, x), NEW t \in Tasks
    PROVE  /\ Count(Bodies(frames'[w]), t) = Count(Bodies(frames[w]), t) + One(x, t)
           /\ \A v \in Workers \ {w} : frames'[v] = frames[v]
           /\ One(x, t) \in Nat
  <1>1. WorkerTypes
    BY WorkerTypesHold
  <1>2. frames' = [frames EXCEPT ![w] = Append(@, [task |-> x, spawned |-> 0])]
    BY <1>1, RunTypes
  <1>3. /\ frames[w] \in Seq(FrameSet)
        /\ frames'[w] = Append(frames[w], [task |-> x, spawned |-> 0])
        /\ \A v \in Workers \ {w} : frames'[v] = frames[v]
    BY <1>1, <1>2 DEF WorkerTypes
  <1>4. [task |-> x, spawned |-> 0] \in FrameSet /\ [task |-> x, spawned |-> 0].task = x
    BY DEF FrameSet
  <1>5. Bodies(frames'[w]) = Append(Bodies(frames[w]), x)
    BY <1>3, <1>4, BodiesAppend
  <1>6. Count(Append(Bodies(frames[w]), x), t) = Count(Bodies(frames[w]), t) + One(x, t)
    BY <1>3, BodiesType, CountAppend
  <1> QED
    BY <1>3, <1>5, <1>6 DEF One

(* What one worker holds changes by as much as is owed. *)
LEMMA LostOneWorker ==
    ASSUME IInv, TypeOK', NEW t \in Tasks, NEW w \in Workers, UNCHANGED ring,
           \A v \in Workers \ {w} : /\ lifo'[v] = lifo[v] /\ deque'[v] = deque[v]
                                    /\ batch'[v] = batch[v] /\ frames'[v] = frames[v],
           owed'[t] - owed[t] = Held(lifo'[w], deque'[w], batch'[w], frames'[w], t)
                                - Held(lifo[w], deque[w], batch[w], frames[w], t)
    PROVE  Places(t)' = owed'[t]
  <1> DEFINE dw == Held(lifo'[w], deque'[w], batch'[w], frames'[w], t)
                   - Held(lifo[w], deque[w], batch[w], frames[w], t)
  <1>1. TypeOK /\ NothingLost
    BY DEF IInv
  <1>2. /\ Held(lifo'[w], deque'[w], batch'[w], frames'[w], t) \in Int
        /\ Held(lifo[w], deque[w], batch[w], frames[w], t) \in Int
    BY <1>1, HeldAt
  <1>3. owed[t] \in Int /\ owed'[t] \in Int
    BY <1>1 DEF TypeOK
  <1>4. SumFunctionOnSet(InShards(t)', Shards) = SumFunctionOnSet(InShards(t), Shards) + 0
    BY <1>1, ShardsStay
  <1>5. SumFunctionOnSet(AtWorkers(t)', Workers) = SumFunctionOnSet(AtWorkers(t), Workers) + dw
    BY <1>1, WorkerMoves
  <1>6. dw \in Int /\ owed'[t] = owed[t] + (0 + dw)
    BY <1>2, <1>3
  <1> HIDE DEF dw
  <1> QED
    BY <1>1, <1>4, <1>5, <1>6, PlacesMove

(* A push puts its task in the shard when it is accepted. *)
LEMMA LostSubmit ==
    ASSUME IInv, TypeOK', NEW p \in Submitters, SubmitStep(p) PROVE NothingLost'
  <1>1. CASE SubmitPush(p) /\ Len(ring[shard[p]]) < ShardCap
    <2> SUFFICES ASSUME NEW t \in Tasks PROVE Places(t)' = owed'[t]
      BY DEF NothingLost
    <2> DEFINE s == shard[p]
               h == Head(unsent[p])
    <2>1. TypeOK /\ NothingLost /\ s \in Shards /\ ring[s] \in Seq(Tasks) /\ h \in Tasks
      <3>1. unsent[p] \in Seq(Tasks) /\ unsent[p] # <<>>
        BY <1>1 DEF IInv, TypeOK, Sending, SubmitPush
      <3> QED
        BY <3>1, HeadTailProperties DEF IInv, TypeOK
    <2>2. /\ ring'[s] = Append(ring[s], h)
          /\ \A x \in Shards \ {s} : ring'[x] = ring[x]
      BY <1>1, <2>1 DEF TypeOK, SubmitPush
    <2>3. Count(ring'[s], t) = Count(ring[s], t) + One(h, t)
      BY <2>1, <2>2, CountAppend
    <2>4. owed'[t] = owed[t] + One(h, t) /\ owed[t] \in Int /\ One(h, t) \in Int
      <3>1. owed \in [Tasks -> Nat] /\ owed' = [owed EXCEPT ![h] = owed[h] + 1]
        BY <1>1, <2>1 DEF TypeOK, SubmitPush, Accept
      <3> HIDE DEF h
      <3> QED
        BY <2>1, <3>1 DEF One
    <2> HIDE DEF s, h
    <2>5. /\ SumFunctionOnSet(InShards(t)', Shards)
                = SumFunctionOnSet(InShards(t), Shards) + (Count(ring'[s], t) - Count(ring[s], t))
          /\ Count(ring[s], t) \in Nat
      BY <2>1, <2>2, ShardMoves
    <2>6. SumFunctionOnSet(InShards(t)', Shards) = SumFunctionOnSet(InShards(t), Shards) + One(h, t)
      <3>1. Count(ring'[s], t) - Count(ring[s], t) = One(h, t)
        BY <2>3, <2>4, <2>5
      <3> QED
        BY <2>5, <3>1
    <2>7. SumFunctionOnSet(AtWorkers(t)', Workers) = SumFunctionOnSet(AtWorkers(t), Workers) + 0
      BY <1>1, <2>1, WorkersStay DEF SubmitPush, worker
    <2>8. owed'[t] = owed[t] + (One(h, t) + 0)
      BY <2>4
    <2> QED
      BY <2>1, <2>4, <2>6, <2>7, <2>8, PlacesMove
  <1>2. CASE ~(SubmitPush(p) /\ Len(ring[shard[p]]) < ShardCap)
    BY <1>2, LostStay DEF SubmitStep, SubmitStopped, SubmitCount, SubmitPush, SubmitUndo, worker
  <1> QED
    BY <1>1, <1>2

(* A worker's own slot, deque or batch gives its task to the worker's call. *)
LEMMA LostGet ==
    ASSUME IInv, TypeOK', NEW w \in Workers, GetLifo(w) \/ GetLocal(w) \/ ScanEnd(w)
    PROVE  NothingLost'
  <1>0. /\ TypeOK /\ deque[w] \in Seq(Tasks) /\ batch[w] \in Seq(Tasks)
        /\ frames[w] \in Seq(FrameSet) /\ frames'[w] \in Seq(FrameSet)
        /\ deque'[w] \in Seq(Tasks) /\ batch'[w] \in Seq(Tasks)
    BY DEF IInv, TypeOK, FrameSet
  <1>1. CASE lifo[w] # NoTask /\ (GetLifo(w) \/ ScanEnd(w))
    <2> SUFFICES ASSUME NEW t \in Tasks PROVE Places(t)' = owed'[t]
      BY DEF NothingLost
    <2>1. /\ lifo[w] \in Tasks /\ Run(w, lifo[w])
          /\ lifo'[w] = NoTask /\ \A v \in Workers \ {w} : lifo'[v] = lifo[v]
          /\ UNCHANGED <<ring, deque, batch, owed>>
      BY <1>0, <1>1 DEF TypeOK, GetLifo, ScanEnd
    <2>2. /\ Count(Bodies(frames'[w]), t) = Count(Bodies(frames[w]), t) + One(lifo[w], t)
          /\ \A v \in Workers \ {w} : frames'[v] = frames[v]
      BY <1>0, <2>1, RunCounts
    <2>3. /\ Held(lifo'[w], deque[w], batch[w], frames'[w], t)
               = One(lifo'[w], t) + Count(deque[w], t) + Count(batch[w], t) + Count(Bodies(frames'[w]), t)
          /\ Held(lifo[w], deque[w], batch[w], frames[w], t)
               = One(lifo[w], t) + Count(deque[w], t) + Count(batch[w], t) + Count(Bodies(frames[w]), t)
          /\ One(lifo[w], t) \in Nat /\ Count(Bodies(frames[w]), t) \in Nat
          /\ Count(deque[w], t) \in Nat /\ Count(batch[w], t) \in Nat
      <3>1. Held(lifo'[w], deque[w], batch[w], frames'[w], t)
              = One(lifo'[w], t) + Count(deque[w], t) + Count(batch[w], t) + Count(Bodies(frames'[w]), t)
        BY CountSingle DEF Held
      <3>2. Held(lifo[w], deque[w], batch[w], frames[w], t)
              = One(lifo[w], t) + Count(deque[w], t) + Count(batch[w], t) + Count(Bodies(frames[w]), t)
        BY CountSingle DEF Held
      <3>3. One(lifo[w], t) \in Nat /\ Count(Bodies(frames[w]), t) \in Nat
        BY <1>0, CountType, BodiesType DEF One
      <3>4. Count(deque[w], t) \in Nat /\ Count(batch[w], t) \in Nat
        BY <1>0, CountType
      <3> QED
        BY <3>1, <3>2, <3>3, <3>4
    <2>4. One(lifo'[w], t) = 0
      BY <2>1, DispatchAssumption DEF One
    <2>5. owed[t] \in Int
      BY <1>0 DEF TypeOK
    <2>6. owed'[t] - owed[t] = Held(lifo'[w], deque'[w], batch'[w], frames'[w], t)
                               - Held(lifo[w], deque[w], batch[w], frames[w], t)
      BY <2>1, <2>2, <2>3, <2>4, <2>5
    <2> QED
      BY <2>1, <2>2, <2>6, LostOneWorker
  <1>2. CASE ScanEnd(w) /\ lifo[w] = NoTask
    BY <1>2, LostStay DEF ScanEnd
  <1>3. CASE GetLocal(w)
    <2>1. CASE /\ deque[w] # <<>> /\ Run(w, deque[w][Len(deque[w])])
               /\ deque' = [deque EXCEPT ![w] = SubSeq(@, 1, Len(@) - 1)]
               /\ UNCHANGED <<batch, todo>>
      <3> SUFFICES ASSUME NEW t \in Tasks PROVE Places(t)' = owed'[t]
        BY DEF NothingLost
      <3> DEFINE x == deque[w][Len(deque[w])]
      <3>1. /\ deque'[w] = SubSeq(deque[w], 1, Len(deque[w]) - 1)
            /\ \A v \in Workers \ {w} : deque'[v] = deque[v]
        BY <1>0, <2>1 DEF TypeOK
      <3>2. x \in Tasks /\ Count(deque[w], t) = Count(deque'[w], t) + One(x, t)
        BY <1>0, <2>1, <3>1, CountLast
      <3>3. UNCHANGED <<ring, lifo, batch, owed>>
        BY <1>3, <2>1 DEF GetLocal
      <3> HIDE DEF x
      <3>4. /\ Count(Bodies(frames'[w]), t) = Count(Bodies(frames[w]), t) + One(x, t)
            /\ \A v \in Workers \ {w} : frames'[v] = frames[v]
            /\ One(x, t) \in Nat
        BY <1>0, <2>1, <3>2, RunCounts DEF x
      <3>5. /\ Held(lifo[w], deque'[w], batch[w], frames'[w], t)
                 = One(lifo[w], t) + Count(deque'[w], t) + Count(batch[w], t) + Count(Bodies(frames'[w]), t)
            /\ Held(lifo[w], deque[w], batch[w], frames[w], t)
                 = One(lifo[w], t) + Count(deque[w], t) + Count(batch[w], t) + Count(Bodies(frames[w]), t)
            /\ One(lifo[w], t) \in Nat /\ Count(Bodies(frames[w]), t) \in Nat
            /\ Count(deque'[w], t) \in Nat /\ Count(batch[w], t) \in Nat
        <4>1. Held(lifo[w], deque'[w], batch[w], frames'[w], t)
                = One(lifo[w], t) + Count(deque'[w], t) + Count(batch[w], t) + Count(Bodies(frames'[w]), t)
          BY CountSingle DEF Held
        <4>2. Held(lifo[w], deque[w], batch[w], frames[w], t)
                = One(lifo[w], t) + Count(deque[w], t) + Count(batch[w], t) + Count(Bodies(frames[w]), t)
          BY CountSingle DEF Held
        <4>3. One(lifo[w], t) \in Nat /\ Count(Bodies(frames[w]), t) \in Nat
          BY <1>0, CountType, BodiesType DEF One
        <4>4. Count(deque'[w], t) \in Nat /\ Count(batch[w], t) \in Nat
          BY <1>0, CountType
        <4> QED
          BY <4>1, <4>2, <4>3, <4>4
      <3>6. owed[t] \in Int
        BY <1>0 DEF TypeOK
      <3>7. owed'[t] - owed[t] = Held(lifo'[w], deque'[w], batch'[w], frames'[w], t)
                                 - Held(lifo[w], deque[w], batch[w], frames[w], t)
        BY <3>2, <3>3, <3>4, <3>5, <3>6
      <3> QED
        BY <3>1, <3>3, <3>4, <3>7, LostOneWorker
    <2>2. CASE /\ batch[w] # <<>> /\ Run(w, Head(batch[w]))
               /\ batch' = [batch EXCEPT ![w] = Tail(@)]
               /\ UNCHANGED <<deque, todo, raced>>
      <3> SUFFICES ASSUME NEW t \in Tasks PROVE Places(t)' = owed'[t]
        BY DEF NothingLost
      <3> DEFINE x == Head(batch[w])
      <3>1. /\ batch'[w] = Tail(batch[w])
            /\ \A v \in Workers \ {w} : batch'[v] = batch[v]
        BY <1>0, <2>2 DEF TypeOK
      <3>2. x \in Tasks /\ Count(batch[w], t) = One(x, t) + Count(batch'[w], t)
        BY <1>0, <2>2, <3>1, CountHead
      <3>3. UNCHANGED <<ring, lifo, deque, owed>>
        BY <1>3, <2>2 DEF GetLocal
      <3> HIDE DEF x
      <3>4. /\ Count(Bodies(frames'[w]), t) = Count(Bodies(frames[w]), t) + One(x, t)
            /\ \A v \in Workers \ {w} : frames'[v] = frames[v]
            /\ One(x, t) \in Nat
        BY <1>0, <2>2, <3>2, RunCounts DEF x
      <3>5. /\ Held(lifo[w], deque[w], batch'[w], frames'[w], t)
                 = One(lifo[w], t) + Count(deque[w], t) + Count(batch'[w], t) + Count(Bodies(frames'[w]), t)
            /\ Held(lifo[w], deque[w], batch[w], frames[w], t)
                 = One(lifo[w], t) + Count(deque[w], t) + Count(batch[w], t) + Count(Bodies(frames[w]), t)
            /\ One(lifo[w], t) \in Nat /\ Count(Bodies(frames[w]), t) \in Nat
            /\ Count(deque[w], t) \in Nat /\ Count(batch'[w], t) \in Nat
        <4>1. Held(lifo[w], deque[w], batch'[w], frames'[w], t)
                = One(lifo[w], t) + Count(deque[w], t) + Count(batch'[w], t) + Count(Bodies(frames'[w]), t)
          BY CountSingle DEF Held
        <4>2. Held(lifo[w], deque[w], batch[w], frames[w], t)
                = One(lifo[w], t) + Count(deque[w], t) + Count(batch[w], t) + Count(Bodies(frames[w]), t)
          BY CountSingle DEF Held
        <4>3. One(lifo[w], t) \in Nat /\ Count(Bodies(frames[w]), t) \in Nat
          BY <1>0, CountType, BodiesType DEF One
        <4>4. Count(deque[w], t) \in Nat /\ Count(batch'[w], t) \in Nat
          BY <1>0, CountType
        <4> QED
          BY <4>1, <4>2, <4>3, <4>4
      <3>6. owed[t] \in Int
        BY <1>0 DEF TypeOK
      <3>7. owed'[t] - owed[t] = Held(lifo'[w], deque'[w], batch'[w], frames'[w], t)
                                 - Held(lifo[w], deque[w], batch[w], frames[w], t)
        BY <3>2, <3>3, <3>4, <3>5, <3>6
      <3> QED
        BY <3>1, <3>3, <3>4, <3>7, LostOneWorker
    <2>3. CASE UNCHANGED <<deque, batch, frames>>
      BY <1>3, <2>3, LostStay DEF GetLocal
    <2> QED
      BY <1>3, <2>1, <2>2, <2>3 DEF GetLocal
  <1> QED
    BY <1>1, <1>2, <1>3 DEF GetLifo

(* The front of a shard goes to the worker that popped it: one task to run, *)
(* the others to its batch, which was empty.                                 *)
LEMMA LostShard ==
    ASSUME IInv, TypeOK', NEW w \in Workers, NEW x \in Ctrs, ScanShard(w, x),
           batch[w] = <<>>
    PROVE  NothingLost'
  <1> SUFFICES ASSUME NEW t \in Tasks PROVE Places(t)' = owed'[t]
    BY DEF NothingLost
  <1>1. PICK k \in 1 .. Batch :
            /\ k <= Len(ring[x])
            /\ Run(w, Head(ring[x]))
            /\ batch' = [batch EXCEPT ![w] = SubSeq(ring[x], 2, k)]
            /\ ring' = [ring EXCEPT ![x] = SubSeq(ring[x], k + 1, Len(ring[x]))]
    BY DEF ScanShard
  <1>2. /\ TypeOK /\ NothingLost /\ x \in Shards /\ ring[x] \in Seq(Tasks)
        /\ ring'[x] \in Seq(Tasks) /\ batch'[w] \in Seq(Tasks)
        /\ UNCHANGED <<deque, lifo, owed>>
    BY DEF IInv, TypeOK, ScanShard
  <1>3. k \in Nat /\ 1 <= k /\ k <= Len(ring[x]) /\ Len(ring[x]) \in Nat
    BY <1>1, <1>2, DispatchAssumption, LenProperties
  <1>4. /\ batch'[w] = SubSeq(ring[x], 2, k) /\ \A v \in Workers \ {w} : batch'[v] = batch[v]
        /\ ring'[x] = SubSeq(ring[x], k + 1, Len(ring[x]))
        /\ \A y \in Shards \ {x} : ring'[y] = ring[y]
    BY <1>1, <1>2 DEF TypeOK
  <1>5. ring[x] # <<>> /\ Head(ring[x]) \in Tasks
    BY <1>2, <1>3, EmptySeq, HeadTailProperties
  <1> DEFINE q == SubSeq(ring[x], 1, k)
             h == Head(ring[x])
  <1>6. Count(ring[x], t) = Count(q, t) + Count(ring'[x], t)
    BY <1>2, <1>3, <1>4, CountSplit
  <1>7. Count(q, t) = One(h, t) + Count(batch'[w], t)
    <2>1. /\ q \in Seq(Tasks) /\ Len(q) = k /\ q # <<>> /\ Head(q) = ring[x][1]
      <3>1. 0 \in 0 .. Len(ring[x]) /\ k \in 0 .. Len(ring[x]) /\ 0 + 1 = 1 /\ k - 0 = k
        BY <1>3
      <3>2. q \in Seq(Tasks) /\ Len(q) = k
        BY <1>2, <3>1, PartOf
      <3>3. q # <<>>
        BY <1>3, <3>2, EmptySeq
      <3>4. 1 \in 1 .. Len(ring[x]) /\ k \in 1 .. Len(ring[x])
        BY <1>3
      <3>5. Head(q) = ring[x][1]
        BY <1>2, <3>4, HeadTailOfSubSeq
      <3> QED
        BY <3>2, <3>3, <3>5
    <2>2. Tail(q) = SubSeq(ring[x], 2, k)
      <3>1. 1 \in 1 .. Len(ring[x]) /\ k \in 1 .. Len(ring[x]) /\ 1 + 1 = 2
        BY <1>3
      <3> QED
        BY <1>2, <3>1, HeadTailOfSubSeq
    <2>3. Head(ring[x]) = ring[x][1]
      BY <1>2, <1>5
    <2>4. Count(q, t) = One(Head(q), t) + Count(Tail(q), t)
      BY <2>1, CountHead
    <2> QED
      BY <1>4, <2>1, <2>2, <2>3, <2>4
  <1> HIDE DEF q, h
  <1>8. /\ Count(Bodies(frames'[w]), t) = Count(Bodies(frames[w]), t) + One(h, t)
        /\ \A v \in Workers \ {w} : frames'[v] = frames[v]
        /\ One(h, t) \in Nat
    BY <1>1, <1>2, <1>5, RunCounts DEF h
  <1>9. /\ SumFunctionOnSet(InShards(t)', Shards)
              = SumFunctionOnSet(InShards(t), Shards) + (Count(ring'[x], t) - Count(ring[x], t))
        /\ Count(ring'[x], t) \in Nat /\ Count(ring[x], t) \in Nat
    BY <1>2, <1>4, ShardMoves
  <1> DEFINE ds == Count(ring'[x], t) - Count(ring[x], t)
             dw == Held(lifo'[w], deque'[w], batch'[w], frames'[w], t)
                   - Held(lifo[w], deque[w], batch[w], frames[w], t)
  <1>10. SumFunctionOnSet(AtWorkers(t)', Workers) = SumFunctionOnSet(AtWorkers(t), Workers) + dw
    BY <1>2, <1>4, <1>8, WorkerMoves
  <1>11. /\ Count(Bodies(frames[w]), t) \in Nat /\ Count(deque[w], t) \in Nat
         /\ Count(<<lifo[w]>>, t) \in Nat /\ Count(batch'[w], t) \in Nat
    BY <1>2, PlacesTypes, CountType
  <1>12. /\ Held(lifo'[w], deque'[w], batch'[w], frames'[w], t)
              = Count(<<lifo[w]>>, t) + Count(deque[w], t) + Count(batch'[w], t)
                + Count(Bodies(frames'[w]), t)
         /\ Held(lifo[w], deque[w], batch[w], frames[w], t)
              = Count(<<lifo[w]>>, t) + Count(deque[w], t) + 0 + Count(Bodies(frames[w]), t)
    BY <1>2, CountEmpty DEF Held
  <1>13. dw = One(h, t) + Count(batch'[w], t)
    BY <1>8, <1>11, <1>12
  <1>14. owed[t] \in Int /\ owed'[t] = owed[t]
    BY <1>2 DEF TypeOK
  <1>15. ds \in Int /\ dw \in Int /\ ds + dw = 0
    BY SMTT(20), <1>6, <1>7, <1>8, <1>9, <1>11, <1>13
  <1>16. SumFunctionOnSet(InShards(t)', Shards) = SumFunctionOnSet(InShards(t), Shards) + ds
    BY <1>9
  <1> HIDE DEF ds, dw
  <1>17. owed'[t] = owed[t] + (ds + dw)
    BY <1>14, <1>15
  <1> QED
    BY <1>2, <1>10, <1>15, <1>16, <1>17, PlacesMove

(* A scan starts only when the batch has run out, and ends before the next. *)
LEMMA EmptiedNext == ASSUME IInv, [Next]_vars PROVE Emptied'
  <1>1. /\ wpc \in [Workers -> {"loop", "get", "scan", "exit"}]
        /\ batch \in [Workers -> Seq(Tasks)] /\ Emptied
    BY DEF IInv, TypeOK
  <1>2. ASSUME NEW w \in Workers, WorkerStep(w) PROVE Emptied'
    <2>1. \A v \in Workers \ {w} : wpc'[v] = wpc[v] /\ batch'[v] = batch[v]
      BY <1>1, <1>2 DEF WorkerStep, Loop, GetLifo, GetLocal, ScanEnd, ScanShard, ScanSteal, ScanMiss,
                        SpawnStopped, Spawn, Finish, Run
    <2>2. wpc'[w] = "scan" => batch'[w] = <<>>
      <3>1. CASE Loop(w) \/ GetLifo(w) \/ GetLocal(w) \/ ScanEnd(w)
        BY <1>1, <3>1 DEF Emptied, Loop, GetLifo, GetLocal, ScanEnd, Run
      <3>2. ASSUME NEW x \in Ctrs, ScanShard(w, x) \/ ScanSteal(w, x) \/ ScanMiss(w, x)
            PROVE  wpc'[w] = "scan" => batch'[w] = <<>>
        BY <1>1, <3>2 DEF Emptied, ScanShard, ScanSteal, ScanMiss, Run
      <3>3. CASE SpawnStopped(w) \/ Spawn(w) \/ Finish(w)
        BY <1>1, <3>3 DEF Emptied, SpawnStopped, Spawn, Finish
      <3> QED
        BY <1>2, <3>1, <3>2, <3>3 DEF WorkerStep
    <2> QED
      BY <1>1, <2>1, <2>2 DEF Emptied
  <1>3. ASSUME UNCHANGED worker PROVE Emptied'
    BY <1>1, <1>3 DEF Emptied, worker
  <1>4. CASE UNCHANGED vars \/ MainStep
    BY <1>3, <1>4 DEF vars, MainStep, WaitCall, WaitRead, WaitAgain, WaitReturn, DestroyStop,
                      DestroyJoined
  <1>5. ASSUME NEW p \in Submitters, SubmitStep(p) PROVE Emptied'
    BY <1>3, <1>5 DEF SubmitStep, SubmitStopped, SubmitCount, SubmitPush, SubmitUndo
  <1> QED
    BY <1>2, <1>4, <1>5 DEF Next

(* A theft: the victim's oldest task goes to the thief's call. *)
LEMMA LostSteal ==
    ASSUME IInv, TypeOK', NEW w \in Workers, NEW x \in Ctrs, ScanSteal(w, x) PROVE NothingLost'
  <1> SUFFICES ASSUME NEW t \in Tasks PROVE Places(t)' = owed'[t]
    BY DEF NothingLost
  <1> DEFINE h == Head(deque[x])
  <1>1. /\ TypeOK /\ NothingLost /\ x \in Workers /\ x # w
        /\ deque[x] \in Seq(Tasks) /\ deque[x] # <<>> /\ deque'[x] \in Seq(Tasks)
        /\ Run(w, h) /\ UNCHANGED <<ring, lifo, batch, owed>>
    BY DEF IInv, NotSelf, TypeOK, ScanSteal, Ctrs
  <1>2. deque'[x] = Tail(deque[x]) /\ \A v \in Workers \ {x} : deque'[v] = deque[v]
    BY <1>1 DEF TypeOK, ScanSteal
  <1>3. h \in Tasks /\ Count(deque[x], t) = One(h, t) + Count(deque'[x], t)
    BY <1>1, <1>2, CountHead
  <1> HIDE DEF h
  <1>4. /\ Count(Bodies(frames'[w]), t) = Count(Bodies(frames[w]), t) + One(h, t)
        /\ \A v \in Workers \ {w} : frames'[v] = frames[v]
        /\ One(h, t) \in Nat
    BY <1>1, <1>3, RunCounts
  <1>5. /\ \A v \in Workers : AtWorkers(t)[v] \in Int /\ AtWorkers(t)'[v] \in Int
        /\ \A v \in Workers \ {w, x} : AtWorkers(t)'[v] = AtWorkers(t)[v]
    BY <1>1, <1>2, <1>4, HeldAt
  <1>6. SumFunctionOnSet(AtWorkers(t)', Workers)
            = SumFunctionOnSet(AtWorkers(t), Workers) + (AtWorkers(t)'[w] - AtWorkers(t)[w])
                                                      + (AtWorkers(t)'[x] - AtWorkers(t)[x])
    <2>1. IsFiniteSet(Workers)
      BY Indices
    <2>2. ASSUME NEW f, NEW g, f = AtWorkers(t), g = AtWorkers(t)'
          PROVE  SumFunctionOnSet(g, Workers)
                     = SumFunctionOnSet(f, Workers) + (g[w] - f[w]) + (g[x] - f[x])
      <3> DEFINE mid == [v \in Workers |-> IF v = w THEN g[w] ELSE f[v]]
      <3>1. /\ \A v \in Workers : f[v] \in Int /\ g[v] \in Int
            /\ \A v \in Workers \ {w, x} : g[v] = f[v]
            /\ x \in Workers /\ w # x
        BY <1>1, <1>5, <2>2
      <3>2. /\ \A v \in Workers : mid[v] \in Int
            /\ mid[w] = g[w] /\ mid[x] = f[x]
            /\ \A v \in Workers \ {w} : mid[v] = f[v]
            /\ \A v \in Workers \ {x} : g[v] = mid[v]
        BY <3>1
      <3> HIDE <2>2
      <3> HIDE DEF mid
      <3>3. SumFunctionOnSet(mid, Workers) = SumFunctionOnSet(f, Workers) + (mid[w] - f[w])
            /\ SumFunctionOnSet(f, Workers) \in Int
        <4>1. \A v \in Workers : f[v] \in Int /\ mid[v] \in Int
          BY <3>1, <3>2
        <4>2. \A v \in Workers \ {w} : mid[v] = f[v]
          BY <3>2
        <4> QED
          BY <2>1, <4>1, <4>2, SumUpdate
      <3>4. SumFunctionOnSet(g, Workers) = SumFunctionOnSet(mid, Workers) + (g[x] - mid[x])
            /\ SumFunctionOnSet(mid, Workers) \in Int
        <4>1. \A v \in Workers : mid[v] \in Int /\ g[v] \in Int
          BY <3>1, <3>2
        <4>2. \A v \in Workers \ {x} : g[v] = mid[v]
          BY <3>2
        <4>3. x \in Workers
          BY <3>1
        <4> QED
          BY <2>1, <4>1, <4>2, <4>3, SumUpdate
      <3> QED
        BY <3>1, <3>2, <3>3, <3>4
    <2> QED
      BY <2>2
  <1>7. /\ Count(<<lifo[w]>>, t) \in Nat /\ Count(deque[w], t) \in Nat
        /\ Count(batch[w], t) \in Nat /\ Count(Bodies(frames[w]), t) \in Nat
        /\ Count(<<lifo[x]>>, t) \in Nat /\ Count(deque'[x], t) \in Nat
        /\ Count(batch[x], t) \in Nat /\ Count(Bodies(frames[x]), t) \in Nat
    BY <1>1, PlacesTypes, CountType
  <1>8. AtWorkers(t)'[w] - AtWorkers(t)[w] = One(h, t)
    <2>1. /\ AtWorkers(t)'[w] = Count(<<lifo[w]>>, t) + Count(deque[w], t) + Count(batch[w], t)
                                  + Count(Bodies(frames'[w]), t)
          /\ AtWorkers(t)[w] = Count(<<lifo[w]>>, t) + Count(deque[w], t) + Count(batch[w], t)
                                  + Count(Bodies(frames[w]), t)
      BY <1>1, <1>2 DEF AtWorkers
    <2> QED
      BY <1>4, <1>7, <2>1
  <1>9. AtWorkers(t)'[x] - AtWorkers(t)[x] = 0 - One(h, t)
    <2>1. /\ AtWorkers(t)'[x] = Count(<<lifo[x]>>, t) + Count(deque'[x], t) + Count(batch[x], t)
                                  + Count(Bodies(frames[x]), t)
          /\ AtWorkers(t)[x] = Count(<<lifo[x]>>, t) + Count(deque[x], t) + Count(batch[x], t)
                                  + Count(Bodies(frames[x]), t)
      BY <1>1, <1>4 DEF AtWorkers
    <2> QED
      BY <1>3, <1>4, <1>7, <2>1
  <1>10. SumFunctionOnSet(AtWorkers(t), Workers) \in Nat
    BY <1>1, Indices, PlacesTypes, SumOfNat
  <1>11. SumFunctionOnSet(AtWorkers(t)', Workers) = SumFunctionOnSet(AtWorkers(t), Workers) + 0
    BY <1>4, <1>6, <1>8, <1>9, <1>10
  <1>12. SumFunctionOnSet(InShards(t)', Shards) = SumFunctionOnSet(InShards(t), Shards) + 0
    BY <1>1, ShardsStay
  <1>13. owed'[t] = owed[t] + (0 + 0) /\ 0 \in Int
    BY <1>1 DEF TypeOK
  <1> QED
    BY <1>1, <1>11, <1>12, <1>13, PlacesMove

(* The task that spawns, the slot, the deque and the nested call. *)
LEMMA LostSpawn ==
    ASSUME IInv, TypeOK', NEW w \in Workers, Spawn(w) PROVE NothingLost'
  <1> SUFFICES ASSUME NEW t \in Tasks PROVE Places(t)' = owed'[t]
    BY DEF NothingLost
  <1> DEFINE kid == Kid(w)
             old == lifo[w]
             fs  == Spawned(w)[w]
  <1>1. /\ TypeOK /\ kid \in Tasks /\ fs \in Seq(FrameSet) /\ Bodies(fs) = Bodies(frames[w])
        /\ Spawned(w) \in [Workers -> Seq(FrameSet)]
        /\ Spawned(w) = [frames EXCEPT ![w] = Spawned(w)[w]]
    BY KidTypes DEF IInv, Spawn
  <1>2. /\ frames \in [Workers -> Seq(FrameSet)] /\ deque \in [Workers -> Seq(Tasks)]
        /\ frames[w] \in Seq(FrameSet) /\ deque[w] \in Seq(Tasks) /\ batch[w] \in Seq(Tasks)
        /\ deque'[w] \in Seq(Tasks) /\ frames'[w] \in Seq(FrameSet) /\ old \in Tasks \cup {NoTask}
    BY <1>1 DEF TypeOK, FrameSet
  <1>3. /\ lifo'[w] = kid /\ UNCHANGED <<ring, batch>>
        /\ \A v \in Workers \ {w} : lifo'[v] = lifo[v]
    BY <1>1 DEF TypeOK, Spawn
  <1>4. owed'[t] = owed[t] + One(kid, t) /\ owed[t] \in Int /\ One(kid, t) \in Nat
    <2>1. owed \in [Tasks -> Nat] /\ owed' = [owed EXCEPT ![kid] = owed[kid] + 1]
      BY <1>1 DEF TypeOK, Spawn, Accept
    <2> HIDE DEF kid
    <2> QED
      BY <1>1, <2>1 DEF One
  <1>5. /\ \A v \in Workers \ {w} : Spawned(w)[v] = frames[v]
    BY <1>1, <1>2
  <1>6. /\ Count(deque'[w], t) + Count(Bodies(frames'[w]), t)
             = Count(deque[w], t) + Count(Bodies(frames[w]), t) + One(old, t)
        /\ \A v \in Workers \ {w} : deque'[v] = deque[v] /\ frames'[v] = frames[v]
    <2>0. Count(deque[w], t) \in Nat /\ Count(Bodies(frames[w]), t) \in Nat /\ One(old, t) \in Nat
      BY <1>1, PlacesTypes DEF One
    <2>1. CASE old = NoTask /\ frames' = Spawned(w) /\ UNCHANGED deque
      <3>1. One(old, t) = 0
        BY <2>1, DispatchAssumption DEF One
      <3> QED
        BY <1>1, <1>5, <2>0, <2>1, <3>1
    <2>2. CASE /\ old # NoTask /\ frames' = Spawned(w)
               /\ deque' = [deque EXCEPT ![w] = Append(deque[w], old)]
      <3>1. /\ deque'[w] = Append(deque[w], old) /\ old \in Tasks
            /\ \A v \in Workers \ {w} : deque'[v] = deque[v]
        BY <1>2, <2>2
      <3>2. Count(deque'[w], t) = Count(deque[w], t) + One(old, t)
        BY <1>2, <3>1, CountAppend
      <3> HIDE DEF old
      <3> QED
        BY <1>1, <1>5, <2>0, <2>2, <3>1, <3>2
    <2>3. CASE /\ old # NoTask /\ UNCHANGED deque
               /\ frames' = [Spawned(w) EXCEPT ![w] =
                                 Append(Spawned(w)[w], [task |-> old, spawned |-> 0])]
      <3>1. /\ frames'[w] = Append(fs, [task |-> old, spawned |-> 0])
            /\ \A v \in Workers \ {w} : frames'[v] = frames[v]
        BY <1>1, <1>5, <2>3
      <3>2. [task |-> old, spawned |-> 0] \in FrameSet /\ old \in Tasks
        BY <1>2, <2>3 DEF FrameSet
      <3>3. Bodies(frames'[w]) = Append(Bodies(frames[w]), old)
        BY <1>1, <3>1, <3>2, BodiesAppend
      <3>4. Count(Append(Bodies(frames[w]), old), t) = Count(Bodies(frames[w]), t) + One(old, t)
        BY <1>2, <3>2, BodiesType, CountAppend
      <3>5. Count(Bodies(frames'[w]), t) = Count(Bodies(frames[w]), t) + One(old, t)
        BY <3>3, <3>4
      <3>6. deque'[w] = deque[w] /\ \A v \in Workers \ {w} : deque'[v] = deque[v]
        BY <2>3
      <3> HIDE DEF old
      <3> QED
        BY <2>0, <3>1, <3>5, <3>6
    <2> QED
      BY <2>1, <2>2, <2>3 DEF Spawn
  <1>7. /\ Count(<<kid>>, t) = One(kid, t) /\ Count(<<old>>, t) = One(old, t) /\ One(old, t) \in Nat
        /\ Count(deque[w], t) \in Nat /\ Count(Bodies(frames[w]), t) \in Nat
        /\ Count(deque'[w], t) \in Nat /\ Count(Bodies(frames'[w]), t) \in Nat
        /\ Count(batch[w], t) \in Nat
    BY <1>2, CountSingle, CountType, BodiesType DEF One
  <1>8. /\ Held(lifo'[w], deque'[w], batch'[w], frames'[w], t)
             = One(kid, t) + Count(deque'[w], t) + Count(batch[w], t) + Count(Bodies(frames'[w]), t)
        /\ Held(lifo[w], deque[w], batch[w], frames[w], t)
             = One(old, t) + Count(deque[w], t) + Count(batch[w], t) + Count(Bodies(frames[w]), t)
    BY <1>3, <1>7 DEF Held
  <1>9. owed'[t] - owed[t] = Held(lifo'[w], deque'[w], batch'[w], frames'[w], t)
                             - Held(lifo[w], deque[w], batch[w], frames[w], t)
    <2> HIDE DEF kid, old, fs
    <2> QED
      BY <1>4, <1>6, <1>7, <1>8
  <1> QED
    BY <1>3, <1>6, <1>9, LostOneWorker

(* The innermost call leaves the stack and is owed no more. *)
LEMMA LostFinish ==
    ASSUME IInv, TypeOK', NEW w \in Workers, Finish(w) PROVE NothingLost'
  <1> SUFFICES ASSUME NEW t \in Tasks PROVE Places(t)' = owed'[t]
    BY DEF NothingLost
  <1> DEFINE x == Frame(w).task
             fs == frames[w]
  <1>1. /\ x \in Tasks /\ fs \in Seq(FrameSet) /\ fs # <<>>
        /\ deque[w] \in Seq(Tasks) /\ batch[w] \in Seq(Tasks) /\ TypeOK
    BY RunningIsOwed DEF IInv, TypeOK, Finish
  <1>2. /\ frames'[w] = SubSeq(fs, 1, Len(fs) - 1)
        /\ \A v \in Workers \ {w} : frames'[v] = frames[v]
        /\ UNCHANGED <<ring, lifo, deque, batch>>
    BY <1>1 DEF TypeOK, Finish
  <1>3. /\ Bodies(frames'[w]) = SubSeq(Bodies(fs), 1, Len(Bodies(fs)) - 1)
        /\ Bodies(fs) # <<>> /\ Bodies(fs)[Len(Bodies(fs))] = x /\ Bodies(fs) \in Seq(Tasks)
    BY <1>1, <1>2, BodiesPop, BodiesType DEF Frame
  <1>4. /\ Count(Bodies(fs), t) = Count(Bodies(frames'[w]), t) + One(x, t)
        /\ Bodies(frames'[w]) \in Seq(Tasks)
    BY <1>3, CountLast
  <1>5. owed'[t] = owed[t] - One(x, t) /\ owed[t] \in Int /\ One(x, t) \in Nat
    <2>1. owed \in [Tasks -> Nat] /\ owed' = [owed EXCEPT ![x] = owed[x] - 1]
      BY <1>1 DEF TypeOK, Finish
    <2> HIDE DEF x
    <2> QED
      BY <1>1, <2>1 DEF One
  <1>6. /\ Count(<<lifo[w]>>, t) \in Nat /\ Count(deque[w], t) \in Nat /\ Count(batch[w], t) \in Nat
        /\ Count(Bodies(frames'[w]), t) \in Nat
    BY <1>1, <1>4, PlacesTypes, CountType
  <1>7. /\ Held(lifo'[w], deque'[w], batch'[w], frames'[w], t)
             = Count(<<lifo[w]>>, t) + Count(deque[w], t) + Count(batch[w], t)
               + Count(Bodies(frames'[w]), t)
        /\ Held(lifo[w], deque[w], batch[w], frames[w], t)
             = Count(<<lifo[w]>>, t) + Count(deque[w], t) + Count(batch[w], t) + Count(Bodies(fs), t)
    BY <1>2 DEF Held
  <1>8. owed'[t] - owed[t] = Held(lifo'[w], deque'[w], batch'[w], frames'[w], t)
                             - Held(lifo[w], deque[w], batch[w], frames[w], t)
    <2> HIDE DEF x, fs
    <2> QED
      BY SMTT(20), <1>4, <1>5, <1>6, <1>7
  <1> QED
    BY <1>2, <1>8, LostOneWorker

(* Every step keeps every accepted task in one place. *)
LEMMA LostNext == ASSUME IInv, [Next]_vars, TypeOK' PROVE NothingLost'
  <1>1. CASE UNCHANGED vars \/ MainStep
    BY <1>1, LostStay DEF vars, worker, MainStep, WaitCall, WaitRead, WaitAgain, WaitReturn,
                          DestroyStop, DestroyJoined
  <1>2. ASSUME NEW p \in Submitters, SubmitStep(p) PROVE NothingLost'
    BY <1>2, LostSubmit
  <1>3. ASSUME NEW w \in Workers, WorkerStep(w) PROVE NothingLost'
    <2>1. CASE GetLifo(w) \/ GetLocal(w) \/ ScanEnd(w)
      BY <2>1, LostGet
    <2>2. CASE Loop(w)
      BY <2>2, LostStay DEF Loop
    <2>3. ASSUME NEW x \in Ctrs, ScanShard(w, x) PROVE NothingLost'
      BY <2>3, LostShard DEF IInv, Emptied, ScanShard
    <2>4. ASSUME NEW x \in Ctrs, ScanSteal(w, x) PROVE NothingLost'
      BY <2>4, LostSteal
    <2>5. ASSUME NEW x \in Ctrs, ScanMiss(w, x) PROVE NothingLost'
      BY <2>5, LostStay DEF ScanMiss
    <2>6. CASE SpawnStopped(w)
      <3> SUFFICES ASSUME NEW t \in Tasks PROVE Places(t)' = owed'[t]
        BY DEF NothingLost
      <3>1. /\ Bodies(Spawned(w)[w]) = Bodies(frames[w]) /\ Spawned(w) = [frames EXCEPT ![w] = Spawned(w)[w]]
            /\ Spawned(w) \in [Workers -> Seq(FrameSet)]
        BY <2>6, KidTypes DEF SpawnStopped
      <3>2. frames' = Spawned(w) /\ UNCHANGED <<ring, lifo, deque, batch, owed>>
        BY <2>6 DEF SpawnStopped
      <3>3. frames \in [Workers -> Seq(FrameSet)]
        BY DEF IInv, TypeOK, FrameSet
      <3>4. AtWorkers(t)' = AtWorkers(t)
        BY <3>1, <3>2, <3>3 DEF AtWorkers
      <3>5. InShards(t)' = InShards(t)
        BY <3>2 DEF InShards
      <3>6. Places(t)' = Places(t)
        BY <3>4, <3>5 DEF Places
      <3> QED
        BY <3>2, <3>6 DEF IInv, NothingLost
    <2>7. CASE Spawn(w)
      BY <2>7, LostSpawn
    <2>8. CASE Finish(w)
      BY <2>8, LostFinish
    <2> QED
      BY <1>3, <2>1, <2>2, <2>3, <2>4, <2>5, <2>6, <2>7, <2>8 DEF WorkerStep
  <1> QED
    BY <1>1, <1>2, <1>3 DEF Next

-----------------------------------------------------------------------------
(* The counters. *)

(* One counter changes, and their sum by as much. *)
LEMMA CtrChange ==
    ASSUME TypeOK, ctr' \in [Ctrs -> Int], NEW x \in Ctrs, \A y \in Ctrs \ {x} : ctr'[y] = ctr[y]
    PROVE  /\ SumFunctionOnSet(ctr', Ctrs) = SumFunctionOnSet(ctr, Ctrs) + (ctr'[x] - ctr[x])
           /\ SumFunctionOnSet(ctr, Ctrs) \in Int
  <1>1. ASSUME NEW f, NEW g, f = ctr, g = ctr'
        PROVE  SumFunctionOnSet(g, Ctrs) = SumFunctionOnSet(f, Ctrs) + (g[x] - f[x])
               /\ SumFunctionOnSet(f, Ctrs) \in Int
    <2>1. IsFiniteSet(Ctrs)
      BY Indices
    <2>2. \A y \in Ctrs : f[y] \in Int /\ g[y] \in Int
      BY <1>1 DEF TypeOK
    <2>3. \A y \in Ctrs \ {x} : g[y] = f[y]
      BY <1>1
    <2> HIDE <1>1
    <2> QED
      BY <2>1, <2>2, <2>3, SumUpdate
  <1> QED
    BY <1>1

(* A counter that moves by d moves their sum by d. *)
LEMMA CtrMoves ==
    ASSUME TypeOK, NEW x \in Ctrs, NEW d \in Int, AddCtr(x, d)
    PROVE  /\ SumFunctionOnSet(ctr', Ctrs) = SumFunctionOnSet(ctr, Ctrs) + d
           /\ SumFunctionOnSet(ctr, Ctrs) \in Int
  <1>1. /\ ctr \in [Ctrs -> Int] /\ ctr' = [ctr EXCEPT ![x] = ctr[x] + d]
    BY DEF TypeOK, AddCtr
  <1>2. ctr[x] \in Int /\ ctr'[x] = ctr[x] + d /\ ctr' \in [Ctrs -> Int]
        /\ \A y \in Ctrs \ {x} : ctr'[y] = ctr[y]
    BY <1>1
  <1>3. SumFunctionOnSet(ctr', Ctrs) = SumFunctionOnSet(ctr, Ctrs) + (ctr'[x] - ctr[x])
        /\ SumFunctionOnSet(ctr, Ctrs) \in Int
    BY <1>2, CtrChange
  <1> QED
    BY <1>2, <1>3

(* What one task is owed changes, and the sum by as much. *)
LEMMA OwedMoves ==
    ASSUME TypeOK, TypeOK', NEW t \in Tasks, \A y \in Tasks \ {t} : owed'[y] = owed[y]
    PROVE  /\ SumFunctionOnSet(owed', Tasks) = SumFunctionOnSet(owed, Tasks) + (owed'[t] - owed[t])
           /\ SumFunctionOnSet(owed, Tasks) \in Int
  <1>1. ASSUME NEW f, NEW g, f = owed, g = owed'
        PROVE  SumFunctionOnSet(g, Tasks) = SumFunctionOnSet(f, Tasks) + (g[t] - f[t])
               /\ SumFunctionOnSet(f, Tasks) \in Int
    <2>1. IsFiniteSet(Tasks)
      BY DispatchAssumption
    <2>2. \A y \in Tasks : f[y] \in Int /\ g[y] \in Int
      BY <1>1 DEF TypeOK
    <2>3. \A y \in Tasks \ {t} : g[y] = f[y]
      BY <1>1
    <2> HIDE <1>1
    <2> QED
      BY <2>1, <2>2, <2>3, SumUpdate
  <1> QED
    BY <1>1

(* One task is owed one run more, or one less. *)
LEMMA OwedChange ==
    ASSUME TypeOK, TypeOK', NEW t \in Tasks
    PROVE  /\ SumFunctionOnSet(owed, Tasks) \in Int
           /\ owed' = [owed EXCEPT ![t] = owed[t] + 1]
                => SumFunctionOnSet(owed', Tasks) = SumFunctionOnSet(owed, Tasks) + 1
           /\ owed' = [owed EXCEPT ![t] = owed[t] + (-1)]
                => SumFunctionOnSet(owed', Tasks) = SumFunctionOnSet(owed, Tasks) + (-1)
  <1>1. owed \in [Tasks -> Nat] /\ owed[t] \in Int
    BY DEF TypeOK
  <1>2. SumFunctionOnSet(owed, Tasks) \in Int
    BY DispatchAssumption, SumOfNat DEF TypeOK
  <1>3. ASSUME NEW d \in {1, -1}, owed' = [owed EXCEPT ![t] = owed[t] + d]
        PROVE  SumFunctionOnSet(owed', Tasks) = SumFunctionOnSet(owed, Tasks) + d
    <2>1. owed'[t] = owed[t] + d /\ \A y \in Tasks \ {t} : owed'[y] = owed[y]
      BY <1>1, <1>3
    <2>2. SumFunctionOnSet(owed', Tasks) = SumFunctionOnSet(owed, Tasks) + (owed'[t] - owed[t])
      BY <2>1, OwedMoves
    <2>3. owed'[t] - owed[t] = d
      BY <1>1, <2>1
    <2> QED
      BY <2>2, <2>3
  <1> QED
    BY <1>2, <1>3

(* The submissions under way are finitely many; one more or one less. *)
LEMMA UnderWayType == IsFiniteSet(UnderWay) /\ Cardinality(UnderWay) \in Nat
  <1>1. IsFiniteSet(UnderWay)
    BY DispatchAssumption, FS_Subset DEF UnderWay
  <1> QED
    BY <1>1, FS_CardinalityType

(* A submitter comes under way, or is no more. *)
LEMMA UnderWayMoves ==
    ASSUME TypeOK, NEW p \in Submitters, NEW where, spc' = [spc EXCEPT ![p] = where]
    PROVE  /\ p \notin UnderWay /\ where \in {"push", "undo"}
                => Cardinality(UnderWay') = Cardinality(UnderWay) + 1
           /\ p \in UnderWay /\ where \notin {"push", "undo"}
                => Cardinality(UnderWay') = Cardinality(UnderWay) - 1
           /\ p \in UnderWay /\ where \in {"push", "undo"} => UnderWay' = UnderWay
  <1>1. spc \in [Submitters -> {"idle", "push", "undo", "retry"}]
    BY DEF TypeOK
  <1>2. ASSUME p \notin UnderWay, where \in {"push", "undo"}
        PROVE  Cardinality(UnderWay') = Cardinality(UnderWay) + 1
    <2>1. UnderWay' = UnderWay \cup {p}
      BY <1>1, <1>2 DEF UnderWay
    <2> QED
      BY <1>2, <2>1, UnderWayType, FS_AddElement
  <1>3. ASSUME p \in UnderWay, where \notin {"push", "undo"}
        PROVE  Cardinality(UnderWay') = Cardinality(UnderWay) - 1
    <2>1. UnderWay' = UnderWay \ {p}
      BY <1>1, <1>3 DEF UnderWay
    <2> QED
      BY <1>3, <2>1, UnderWayType, FS_RemoveElement
  <1>4. ASSUME p \in UnderWay, where \in {"push", "undo"} PROVE UnderWay' = UnderWay
    BY <1>1, <1>4 DEF UnderWay
  <1> QED
    BY <1>2, <1>3, <1>4

(* Nothing that is counted changes. *)
LEMMA CountersStay ==
    ASSUME CountersExact, UNCHANGED <<ctr, owed, spc>> PROVE CountersExact'
  <1>1. UnderWay' = UnderWay
    BY DEF UnderWay
  <1> QED
    BY <1>1 DEF CountersExact

(* Nothing is counted at the start. *)
LEMMA CountersInit == Init => CountersExact
  <1> SUFFICES ASSUME Init PROVE CountersExact
    OBVIOUS
  <1>1. /\ \A x \in Ctrs : ctr[x] = 0
        /\ \A t \in Tasks : owed[t] = 0
        /\ UnderWay = {}
    BY DEF Init, UnderWay
  <1>2. SumFunctionOnSet(ctr, Ctrs) = 0
    BY <1>1, Indices, SumZero
  <1>3. SumFunctionOnSet(owed, Tasks) = 0
    <2>1. IsFiniteSet(Tasks) /\ \A t \in Tasks : owed[t] = 0
      BY <1>1, DispatchAssumption
    <2> QED
      BY <2>1, SumZero
  <1>4. Cardinality(UnderWay) = 0
    <2>1. UnderWay = {}
      BY <1>1
    <2> QED
      BY <2>1, FS_EmptySet
  <1> QED
    BY <1>2, <1>3, <1>4 DEF CountersExact

(* A submitter raises before it pushes, and lowers what it could not push. *)
LEMMA CountersSubmit ==
    ASSUME IInv, TypeOK', NEW p \in Submitters, SubmitStep(p) PROVE CountersExact'
  <1>0. /\ TypeOK /\ Cardinality(UnderWay) \in Nat
        /\ SumFunctionOnSet(ctr, Ctrs) = SumFunctionOnSet(owed, Tasks) + Cardinality(UnderWay)
        /\ SumFunctionOnSet(owed, Tasks) \in Int
    <2>1. SumFunctionOnSet(owed, Tasks) \in Nat
      BY DispatchAssumption, SumOfNat DEF IInv, TypeOK
    <2> QED
      BY <2>1, UnderWayType DEF IInv, CountersExact
  <1>1. CASE SubmitStopped(p)
    BY <1>1, CountersStay DEF IInv, SubmitStopped
  <1>2. CASE SubmitCount(p)
    <2>1. rr \in Ctrs /\ AddCtr(rr, 1) /\ spc' = [spc EXCEPT ![p] = "push"]
      BY <1>0, <1>2 DEF TypeOK, SubmitCount, Ctrs
    <2>2. p \notin UnderWay /\ owed' = owed
      BY <1>2 DEF UnderWay, SubmitCount, Calls
    <2>3. SumFunctionOnSet(ctr', Ctrs) = SumFunctionOnSet(ctr, Ctrs) + 1
      BY <1>0, <2>1, CtrMoves
    <2>4. Cardinality(UnderWay') = Cardinality(UnderWay) + 1
      BY <1>0, <2>1, <2>2, UnderWayMoves
    <2> QED
      BY <1>0, <2>2, <2>3, <2>4 DEF CountersExact
  <1>3. CASE SubmitPush(p)
    <2>1. p \in UnderWay /\ ctr' = ctr
      BY <1>3 DEF UnderWay, SubmitPush
    <2>2. CASE Len(ring[shard[p]]) < ShardCap
      <3>1. Head(unsent[p]) \in Tasks
        BY <1>3, HeadTailProperties DEF IInv, TypeOK, Sending, SubmitPush
      <3>2. /\ owed' = [owed EXCEPT ![Head(unsent[p])] = owed[Head(unsent[p])] + 1]
            /\ spc' = [spc EXCEPT ![p] = "idle"]
        BY <1>3, <2>2 DEF SubmitPush, Accept
      <3>3. SumFunctionOnSet(owed', Tasks) = SumFunctionOnSet(owed, Tasks) + 1
        <4>1. ASSUME NEW t \in Tasks, owed' = [owed EXCEPT ![t] = owed[t] + 1]
              PROVE  SumFunctionOnSet(owed', Tasks) = SumFunctionOnSet(owed, Tasks) + 1
          BY <4>1, OwedChange DEF IInv
        <4> QED
          BY <3>1, <3>2, <4>1
      <3>4. Cardinality(UnderWay') = Cardinality(UnderWay) - 1
        <4>1. "idle" \notin {"push", "undo"} /\ spc' = [spc EXCEPT ![p] = "idle"]
          BY <3>2
        <4> QED
          BY <1>0, <2>1, <4>1, UnderWayMoves
      <3> QED
        BY <1>0, <2>1, <3>3, <3>4 DEF CountersExact
    <2>3. CASE ~(Len(ring[shard[p]]) < ShardCap)
      <3>1. owed' = owed /\ spc' = [spc EXCEPT ![p] = "undo"]
        BY <1>3, <2>3 DEF SubmitPush
      <3>2. UnderWay' = UnderWay
        BY <1>0, <2>1, <3>1, UnderWayMoves
      <3> QED
        BY <1>0, <2>1, <3>1, <3>2 DEF CountersExact
    <2> QED
      BY <2>2, <2>3
  <1>4. CASE SubmitUndo(p)
    <2>1. /\ p \in UnderWay /\ owed' = owed
          /\ shard[p] \in Ctrs /\ AddCtr(shard[p], -1)
          /\ \E where \in {"idle", "retry"} : spc' = [spc EXCEPT ![p] = where]
      BY <1>0, <1>4 DEF UnderWay, SubmitUndo, TypeOK, Ctrs
    <2>2. SumFunctionOnSet(ctr', Ctrs) = SumFunctionOnSet(ctr, Ctrs) + (-1)
          /\ SumFunctionOnSet(ctr, Ctrs) \in Int
      BY <1>0, <2>1, CtrMoves
    <2>3. Cardinality(UnderWay') = Cardinality(UnderWay) - 1
      <3>1. PICK where \in {"idle", "retry"} : spc' = [spc EXCEPT ![p] = where]
        BY <2>1
      <3>2. where \notin {"push", "undo"}
        OBVIOUS
      <3> QED
        BY <1>0, <2>1, <3>1, <3>2, UnderWayMoves
    <2> QED
      BY <1>0, <2>1, <2>2, <2>3 DEF CountersExact
  <1> QED
    BY <1>1, <1>2, <1>3, <1>4 DEF SubmitStep

(* A spawn raises the executor's counter, the end of a body lowers it. *)
LEMMA CountersWorker ==
    ASSUME IInv, TypeOK', NEW w \in Workers, WorkerStep(w) PROVE CountersExact'
  <1>0. /\ TypeOK /\ w \in Ctrs /\ Cardinality(UnderWay) \in Nat
        /\ SumFunctionOnSet(ctr, Ctrs) = SumFunctionOnSet(owed, Tasks) + Cardinality(UnderWay)
    BY UnderWayType DEF IInv, CountersExact, Ctrs
  <1>1. CASE Spawn(w)
    <2>1. /\ Kid(w) \in Tasks /\ AddCtr(w, 1) /\ UnderWay' = UnderWay
          /\ owed' = [owed EXCEPT ![Kid(w)] = owed[Kid(w)] + 1]
      BY <1>1, KidTypes DEF Spawn, Accept, submit, UnderWay
    <2>2. SumFunctionOnSet(ctr', Ctrs) = SumFunctionOnSet(ctr, Ctrs) + 1
      BY <1>0, <2>1, CtrMoves
    <2>3. /\ SumFunctionOnSet(owed', Tasks) = SumFunctionOnSet(owed, Tasks) + 1
          /\ SumFunctionOnSet(owed, Tasks) \in Int
      <3>1. ASSUME NEW t \in Tasks, owed' = [owed EXCEPT ![t] = owed[t] + 1]
            PROVE  /\ SumFunctionOnSet(owed', Tasks) = SumFunctionOnSet(owed, Tasks) + 1
                   /\ SumFunctionOnSet(owed, Tasks) \in Int
        BY <3>1, OwedChange DEF IInv
      <3> QED
        BY <2>1, <3>1
    <2> QED
      BY <1>0, <2>1, <2>2, <2>3 DEF CountersExact
  <1>2. CASE Finish(w)
    <2>1. /\ Frame(w).task \in Tasks /\ AddCtr(w, -1) /\ UnderWay' = UnderWay
          /\ owed[Frame(w).task] \in Nat
          /\ owed' = [owed EXCEPT ![Frame(w).task] = owed[Frame(w).task] - 1]
      BY <1>2, RunningIsOwed DEF IInv, Finish, submit, UnderWay
    <2>2. /\ SumFunctionOnSet(ctr', Ctrs) = SumFunctionOnSet(ctr, Ctrs) + (-1)
          /\ SumFunctionOnSet(ctr, Ctrs) \in Int
      BY <1>0, <2>1, CtrMoves
    <2>3. /\ SumFunctionOnSet(owed', Tasks) = SumFunctionOnSet(owed, Tasks) + (-1)
          /\ SumFunctionOnSet(owed, Tasks) \in Int
      <3>1. owed' = [owed EXCEPT ![Frame(w).task] = owed[Frame(w).task] + (-1)]
        BY <2>1
      <3>2. ASSUME NEW t \in Tasks, owed' = [owed EXCEPT ![t] = owed[t] + (-1)]
            PROVE  /\ SumFunctionOnSet(owed', Tasks) = SumFunctionOnSet(owed, Tasks) + (-1)
                   /\ SumFunctionOnSet(owed, Tasks) \in Int
        BY <3>2, OwedChange DEF IInv
      <3> QED
        BY <2>1, <3>1, <3>2
    <2> QED
      BY <1>0, <2>1, <2>2, <2>3 DEF CountersExact
  <1>3. CASE ~(Spawn(w) \/ Finish(w))
    <2>1. UNCHANGED <<ctr, owed, spc>>
      BY <1>3 DEF WorkerStep, Loop, GetLifo, GetLocal, ScanEnd, ScanShard, ScanSteal, ScanMiss,
                  SpawnStopped, submit
    <2> QED
      BY <2>1, CountersStay DEF IInv
  <1> QED
    BY <1>1, <1>2, <1>3

(* Every step keeps the counters exact. *)
LEMMA CountersNext == ASSUME IInv, [Next]_vars, TypeOK' PROVE CountersExact'
  <1>1. CASE UNCHANGED vars \/ MainStep
    BY <1>1, CountersStay DEF IInv, vars, submit, MainStep, WaitCall, WaitRead, WaitAgain,
                              WaitReturn, DestroyStop, DestroyJoined
  <1> QED
    BY <1>1, CountersSubmit, CountersWorker DEF Next

-----------------------------------------------------------------------------
(* The pass over the counters. *)

(* Without a raise, counters only fall behind what was read. *)
LEMMA PassedCtr ==
    ASSUME IInv, TypeOK', UNCHANGED <<mpc, next, sum>>,
           \/ UNCHANGED <<ctr, clean>>
           \/ \E x \in Ctrs, d \in {1, -1} : AddCtr(x, d)
    PROVE  Passed'
  <1>0. /\ ctr \in [Ctrs -> Int] /\ ctr' \in [Ctrs -> Int] /\ sum \in Int /\ Passed /\ Read' = Read
        /\ IsFiniteSet(Read) /\ Read \subseteq Ctrs
    <2>1. Read \in SUBSET Ctrs
      BY DEF Read
    <2>2. IsFiniteSet(Read)
      BY <2>1, Indices, FS_Subset
    <2> QED
      BY <2>1, <2>2 DEF IInv, TypeOK, Read
  <1>1. CASE UNCHANGED <<ctr, clean>>
    BY <1>0, <1>1 DEF Passed
  <1>2. ASSUME NEW x \in Ctrs, NEW d \in {1, -1}, AddCtr(x, d) PROVE Passed'
    <2>1. CASE d = 1
      <3>1. ~clean'
        <4>1. clean' = (clean /\ d < 0)
          BY <1>2 DEF AddCtr
        <4>2. ~(d < 0)
          BY <2>1
        <4> QED
          BY <4>1, <4>2, Zenon
      <3> QED
        BY <1>0, <3>1 DEF Passed
    <2>2. CASE d = -1
      <3>1. \A y \in Read : ctr'[y] \in Int /\ ctr[y] \in Int /\ ctr'[y] <= ctr[y]
        BY <1>0, <1>2, <2>2 DEF AddCtr
      <3>2. SumFunctionOnSet(ctr', Read) <= SumFunctionOnSet(ctr, Read)
        BY <1>0, <3>1, SumMonotone
      <3>3. SumFunctionOnSet(ctr, Read) \in Int /\ SumFunctionOnSet(ctr', Read) \in Int
        BY <1>0, <3>1, SumPicked
      <3>4. clean' => clean
        BY <1>2 DEF AddCtr
      <3> QED
        BY <1>0, <3>2, <3>3, <3>4 DEF Passed
    <2> QED
      BY <2>1, <2>2
  <1> QED
    BY <1>1, <1>2

(* Every step keeps what the pass has read above what is there. *)
LEMMA PassedNext == ASSUME IInv, [Next]_vars, TypeOK' PROVE Passed'
  <1>1. CASE UNCHANGED vars
    BY <1>1, PassedCtr DEF vars, waiter
  <1>2. ASSUME NEW p \in Submitters, SubmitStep(p) PROVE Passed'
    <2>1. rr \in Ctrs /\ shard[p] \in Ctrs
      BY DEF IInv, TypeOK, Ctrs
    <2> QED
      BY <1>2, <2>1, PassedCtr DEF SubmitStep, SubmitStopped, SubmitCount, SubmitPush, SubmitUndo, waiter
  <1>3. ASSUME NEW w \in Workers, WorkerStep(w) PROVE Passed'
    <2>1. w \in Ctrs
      BY DEF Ctrs
    <2>2. UNCHANGED <<mpc, next, sum>>
      BY <1>3 DEF WorkerStep, Loop, GetLifo, GetLocal, ScanEnd, ScanShard, ScanSteal, ScanMiss,
                  SpawnStopped, Spawn, Finish, waiter
    <2>3. UNCHANGED <<ctr, clean>> \/ AddCtr(w, 1) \/ AddCtr(w, -1)
      BY <1>3 DEF WorkerStep, Loop, GetLifo, GetLocal, ScanEnd, ScanShard, ScanSteal, ScanMiss,
                  SpawnStopped, Spawn, Finish
    <2> QED
      BY <2>1, <2>2, <2>3, PassedCtr
  <1>4. CASE WaitCall \/ WaitAgain
    <2>1. Read' = {} /\ sum' = 0 /\ mpc' = "read"
      BY <1>4, Indices DEF WaitCall, WaitAgain, Read
    <2>2. SumFunctionOnSet(ctr', {}) = 0
      BY SumZero, FS_EmptySet
    <2> QED
      BY <2>1, <2>2 DEF Passed
  <1>5. CASE WaitRead
    <2>1. /\ next \in Ctrs /\ next \notin Read /\ Read' = Read \cup {next} /\ next \in Int
          /\ ctr \in [Ctrs -> Int] /\ sum \in Int /\ sum' = sum + ctr[next] /\ ctr' = ctr
          /\ clean' = clean /\ mpc = "read" /\ next' = next + 1
      BY <1>5, Indices DEF WaitRead, Read, IInv, TypeOK
    <2>2. IsFiniteSet(Read)
      BY Indices, FS_Subset DEF Read
    <2>3. SumFunctionOnSet(ctr, Read \cup {next}) = SumFunctionOnSet(ctr, Read) + ctr[next]
          /\ SumFunctionOnSet(ctr, Read) \in Int
      <3>1. \A y \in Read \cup {next} : ctr[y] \in Int
        BY <2>1 DEF Read
      <3> QED
        BY <2>1, <2>2, <3>1, SumAdd
    <2>4. clean => SumFunctionOnSet(ctr, Read) <= sum
      BY <2>1 DEF IInv, Passed
    <2>5. ctr[next] \in Int
      BY <2>1
    <2>6. clean' => SumFunctionOnSet(ctr', Read') <= sum'
      BY <2>1, <2>3, <2>4, <2>5
    <2>7. mpc' = "returned" => next' \notin Ctrs /\ sum' <= 0
      BY <1>5 DEF WaitRead
    <2> QED
      BY <2>6, <2>7 DEF Passed
  <1>6. CASE WaitReturn \/ DestroyStop \/ DestroyJoined
    BY <1>6 DEF WaitReturn, DestroyStop, DestroyJoined, Passed
  <1> QED
    BY <1>1, <1>2, <1>3, <1>4, <1>5, <1>6 DEF Next, MainStep

-----------------------------------------------------------------------------
(* The theorems. *)

(* The inductive invariant holds at the start. *)
LEMMA IInvInit == Init => IInv
  <1> SUFFICES ASSUME Init PROVE IInv
    OBVIOUS
  <1>1. TypeOK /\ Sending /\ NotSelf /\ CountersExact
    BY TypeInit, CountersInit
  <1>2. Emptied /\ Passed
    BY DEF Init, Emptied, Passed
  <1>3. ASSUME NEW t \in Tasks PROVE Places(t) = owed[t]
    <2>1. \A s \in Shards : InShards(t)[s] = 0
      BY CountEmpty DEF Init, InShards
    <2>2. ASSUME NEW w \in Workers PROVE AtWorkers(t)[w] = 0
      <3>1. lifo[w] = NoTask /\ deque[w] = <<>> /\ batch[w] = <<>> /\ frames[w] = <<>>
        BY DEF Init
      <3>2. Bodies(<<>>) = <<>>
        BY DEF Bodies
      <3>3. Count(<<NoTask>>, t) = 0
        BY CountSingle, DispatchAssumption DEF One
      <3> QED
        BY <3>1, <3>2, <3>3, CountEmpty DEF AtWorkers
    <2>3. SumFunctionOnSet(InShards(t), Shards) = 0 /\ SumFunctionOnSet(AtWorkers(t), Workers) = 0
      BY <2>1, <2>2, Indices, SumZero
    <2>4. owed[t] = 0
      BY DEF Init
    <2> QED
      BY <2>3, <2>4 DEF Places
  <1> QED
    BY <1>1, <1>2, <1>3 DEF IInv, NothingLost

(* Every step keeps the inductive invariant. *)
LEMMA IInvNext == IInv /\ [Next]_vars => IInv'
  <1> SUFFICES ASSUME IInv, [Next]_vars PROVE IInv'
    OBVIOUS
  <1>1. TypeOK' /\ Sending' /\ NotSelf'
    BY TypeNext
  <1> QED
    BY <1>1, EmptiedNext, LostNext, CountersNext, PassedNext DEF IInv

(* The inductive invariant always holds. *)
LEMMA IInvAlways == Spec => []IInv
  BY IInvInit, IInvNext, PTL DEF Spec

(* Every variable of the dispatch has its type, and no slot, deque, batch or *)
(* shard outgrows its capacity.                                              *)
THEOREM DispatchTypeCorrect == Spec => []TypeOK
  <1>1. IInv => TypeOK
    BY DEF IInv
  <1> QED
    BY <1>1, IInvAlways, PTL

(* No accepted task is lost or doubled: a task is in as many places (shards, *)
(* slots, deques, batches, running bodies) as it is owed runs.               *)
THEOREM DispatchNothingLost == Spec => []NothingLost
  <1>1. IInv => NothingLost
    BY DEF IInv
  <1> QED
    BY <1>1, IInvAlways, PTL

(* The indexed counters together count what is unfinished, plus the          *)
(* submissions that have counted and not pushed.                             *)
THEOREM DispatchCountersExact == Spec => []CountersExact
  <1>1. IInv => CountersExact
    BY DEF IInv
  <1> QED
    BY <1>1, IInvAlways, PTL

(* pool_wait_idle returns on an empty pool when no counter was raised during *)
(* its last pass.                                                            *)
THEOREM DispatchWaitIdleExact == Spec => []WaitIdleExact
  <1>1. IInv => WaitIdleExact
    <2> SUFFICES ASSUME IInv, mpc = "returned", clean, NEW t \in Tasks PROVE owed[t] = 0
      BY DEF WaitIdleExact
    <2>1. Read = Ctrs
      BY Indices DEF IInv, TypeOK, Passed, Read
    <2>2. SumFunctionOnSet(ctr, Ctrs) <= sum /\ sum <= 0 /\ sum \in Int
      BY <2>1 DEF IInv, TypeOK, Passed
    <2>3. SumFunctionOnSet(owed, Tasks) \in Nat /\ owed[t] <= SumFunctionOnSet(owed, Tasks)
          /\ owed[t] \in Nat
      BY DispatchAssumption, SumOfNat DEF IInv, TypeOK
    <2>4. SumFunctionOnSet(ctr, Ctrs) = SumFunctionOnSet(owed, Tasks) + Cardinality(UnderWay)
          /\ Cardinality(UnderWay) \in Nat
      BY UnderWayType DEF IInv, CountersExact
    <2> QED
      BY <2>2, <2>3, <2>4
  <1> QED
    BY <1>1, IInvAlways, PTL
=============================================================================
