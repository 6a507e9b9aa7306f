--------------------------- MODULE PoolDequeProofs ---------------------------
(***************************************************************************)
(* Proofs about PoolDeque, for a deque of any capacity, any number of      *)
(* thieves and any delay of the owner's stores: it is the sequential deque *)
(* TaskDeque.                                                              *)
(***************************************************************************)
EXTENDS PoolDeque, NumberTheorems, SequenceTheorems

(* pool_deque_init makes a deque with at least one slot. *)
HasSlots == Cap \in Nat \ {0}

-----------------------------------------------------------------------------
(* The inductive invariant.                                                *)
(*                                                                         *)
(* One past the youngest position in the deque, and how many stores of     *)
(* pushes are still on their way to memory: the one with which a take      *)
(* lowers bottom comes after them and is left aside.                       *)

End == IF opc = "idle" THEN own ELSE ob + 1
Waiting == IF opc = "fence" /\ buffer # <<>> THEN Len(buffer) - 1 ELSE Len(buffer)

Store(to, at, v) == [to |-> to, at |-> at, v |-> v]
AStore == [to : {"bottom", "fn", "arg"}, at : Nat, v : Nat \cup Tasks]

Places ==
    /\ buffer \in Seq(AStore)
    /\ top <= End /\ End - top <= Cap
    /\ opc # "idle" => own = ob
    /\ opc \in {"load", "cas"} => buffer = <<>>
    /\ opc = "cas" => ot = ob /\ ob <= top

(* The stores waiting are, from the last to the first, those of the youngest *)
(* pushes: bottom, argument and function of each.                            *)
Stores ==
    /\ \A k \in Nat :
        /\ 3 * k < Waiting => /\ buffer[Waiting - 3 * k] = Store("bottom", 0, End - k)
                              /\ End - k >= 1
        /\ 3 * k + 1 < Waiting =>
            /\ buffer[Waiting - 3 * k - 1] = Store("arg", Slot(End - k - 1), log[End - k - 1])
            /\ End - k - 1 >= top
        /\ 3 * k + 2 < Waiting =>
            buffer[Waiting - 3 * k - 2] = Store("fn", Slot(End - k - 1), log[End - k - 1])
    /\ opc = "fence" /\ buffer # <<>> => buffer[Len(buffer)] = Store("bottom", 0, ob)

(* Memory has bottom without the pushes still waiting, and the slots of the *)
(* tasks whose stores have arrived.                                         *)
Memory ==
    /\ \A k \in Nat : 3 * k < Waiting + 3 /\ Waiting <= 3 * k =>
            bottom = IF opc # "idle" /\ buffer = <<>> THEN ob ELSE End - k
    /\ \A p \in top .. End - 1 :
        /\ Waiting <= 3 * (End - p - 1) + 2 => fn[Slot(p)] = log[p]
        /\ Waiting <= 3 * (End - p - 1) + 1 => arg[Slot(p)] = log[p]

Logged == \A p \in 0 .. End - 1 : log[p] \in Tasks

(* What thief h has read is good as long as its top is: then the task there is *)
(* in memory, and no push can come to its slot.                                *)
Steals(h) ==
    /\ ht[h] <= top
    /\ hpc[h] \in {"fn", "arg", "cas"} /\ ht[h] = top =>
        /\ top < End /\ Waiting <= 3 * (End - top - 1)
        /\ hpc[h] \in {"arg", "cas"} => hfn[h] = log[top]
        /\ hpc[h] = "cas" => harg[h] = log[top]

IInv == TypeOK /\ Places /\ Stores /\ Memory /\ Logged /\ \A h \in Thieves : Steals(h)

-----------------------------------------------------------------------------
(* Numbers. *)

(* A store is one of three. *)
LEMMA ThreeWays ==
    ASSUME NEW n \in Nat
    PROVE  \E k \in Nat : n = 3 * k \/ n = 3 * k + 1 \/ n = 3 * k + 2
  <1>1. n = 3 * (n \div 3) + (n % 3) /\ n \div 3 \in Int /\ n % 3 \in 0 .. 2
    BY DivMod
  <1>2. n \div 3 \in Nat
    BY <1>1
  <1> QED
    BY <1>1, <1>2

(* Positions less than Cap apart have different slots. *)
LEMMA SlotsApart ==
    ASSUME HasSlots, NEW p \in Int, NEW q \in Int, p # q, p < q + Cap, q < p + Cap
    PROVE  Slot(p) # Slot(q)
  <1>1. Cap \in Nat /\ Cap >= 1
    BY DEF HasSlots
  <1>2. CASE p < q
    BY <1>1, <1>2, ModInjective DEF Slot
  <1>3. CASE q < p
    BY <1>1, <1>3, ModInjective DEF Slot
  <1> QED
    BY <1>2, <1>3

(* Every position has a slot. *)
LEMMA SlotIn ==
    ASSUME HasSlots, NEW p \in Int
    PROVE  Slot(p) \in Slots /\ Slot(p) \in Nat
  <1>1. Cap \in Nat /\ Cap >= 1
    BY DEF HasSlots
  <1> QED
    BY <1>1, DivMod DEF Slot, Slots

(* The sizes the invariant is about. *)
LEMMA Sizes ==
    ASSUME IInv
    PROVE  /\ top \in Nat /\ bottom \in Nat /\ own \in Nat /\ ob \in Nat /\ End \in Nat
           /\ buffer \in Seq(AStore) /\ Len(buffer) \in Nat /\ Waiting \in Nat
           /\ buffer = <<>> => Waiting = 0
           /\ top <= End /\ End - top <= Cap
  <1>1. /\ top \in Nat /\ bottom \in Nat /\ own \in Nat /\ ob \in Nat
    BY DEF IInv, TypeOK
  <1>2. buffer \in Seq(AStore) /\ top <= End /\ End - top <= Cap
    BY DEF IInv, Places
  <1>3. Len(buffer) \in Nat /\ (buffer # <<>> => Len(buffer) >= 1) /\ (buffer = <<>> => Len(buffer) = 0)
    BY <1>2
  <1>4. End \in Nat
    BY <1>1 DEF End
  <1>5. Waiting \in Nat /\ (buffer = <<>> => Waiting = 0)
    BY <1>3 DEF Waiting
  <1> QED
    BY <1>1, <1>2, <1>3, <1>4, <1>5

-----------------------------------------------------------------------------
(* At first the deque is empty. *)
LEMMA InitInv == Init /\ HasSlots => IInv
  <1> SUFFICES ASSUME Init, HasSlots PROVE IInv
    OBVIOUS
  <1>1. End = 0 /\ Waiting = 0 /\ buffer = <<>> /\ top = 0 /\ opc = "idle" /\ bottom = 0
    BY DEF Init, End, Waiting
  <1>2. TypeOK
    BY DEF Init, TypeOK, Words, Nothing
  <1>3. Places
    <2>1. Cap \in Nat
      BY DEF HasSlots
    <2>2. <<>> \in Seq(AStore)
      OBVIOUS
    <2> QED
      BY <1>1, <2>1, <2>2 DEF Places, Init
  <1>4. Stores
    BY <1>1 DEF Stores
  <1>5. Memory
    BY <1>1 DEF Memory
  <1>6. Logged
    BY <1>1 DEF Logged
  <1>7. \A h \in Thieves : Steals(h)
    BY <1>1 DEF Steals, Init
  <1> QED
    BY <1>2, <1>3, <1>4, <1>5, <1>6, <1>7 DEF IInv

-----------------------------------------------------------------------------
(* A step of a thief moves neither the owner nor its stores. *)
LEMMA SharedSame ==
    ASSUME IInv, UNCHANGED <<mem, owner, log>>
    PROVE  Places' /\ Stores' /\ Memory' /\ Logged' /\ End' = End /\ Waiting' = Waiting
  <1>1. /\ top' = top /\ bottom' = bottom /\ fn' = fn /\ arg' = arg /\ buffer' = buffer
        /\ own' = own /\ opc' = opc /\ ob' = ob /\ ot' = ot /\ log' = log
    BY DEF mem, owner
  <1>2. End' = End /\ Waiting' = Waiting
    BY <1>1 DEF End, Waiting
  <1>3. Places'
    BY <1>1, <1>2 DEF IInv, Places
  <1>4. Stores'
    BY <1>1, <1>2 DEF IInv, Stores
  <1>5. Memory'
    BY <1>1, <1>2 DEF IInv, Memory
  <1>6. Logged'
    BY <1>1, <1>2 DEF IInv, Logged
  <1> QED
    BY <1>2, <1>3, <1>4, <1>5, <1>6

(* A thief that sees bottom above a top nobody has moved sees a whole task. *)
LEMMA SeenTask ==
    ASSUME IInv, top < bottom
    PROVE  top < End /\ Waiting <= 3 * (End - top - 1)
  <1>1. /\ top \in Nat /\ bottom \in Nat /\ ob \in Nat /\ End \in Nat /\ Waiting \in Nat
        /\ (buffer = <<>> => Waiting = 0)
    BY Sizes
  <1>2. PICK k \in Nat : 3 * k < Waiting + 3 /\ Waiting <= 3 * k
    <2>1. PICK j \in Nat : Waiting = 3 * j \/ Waiting = 3 * j + 1 \/ Waiting = 3 * j + 2
      BY <1>1, ThreeWays
    <2>2. CASE Waiting = 3 * j
      BY <2>2
    <2>3. CASE Waiting # 3 * j
      <3>1. 3 * (j + 1) < Waiting + 3 /\ Waiting <= 3 * (j + 1) /\ j + 1 \in Nat
        BY <1>1, <2>1, <2>3
      <3> QED
        BY <3>1
    <2> QED
      BY <2>2, <2>3
  <1>3. bottom = IF opc # "idle" /\ buffer = <<>> THEN ob ELSE End - k
    BY <1>2 DEF IInv, Memory
  <1>4. CASE opc # "idle" /\ buffer = <<>>
    <2>1. bottom = ob /\ End = ob + 1 /\ Waiting = 0
      BY <1>1, <1>3, <1>4 DEF End
    <2> QED
      BY <1>1, <2>1
  <1>5. CASE ~(opc # "idle" /\ buffer = <<>>)
    <2>1. bottom = End - k
      BY <1>3, <1>5
    <2> QED
      BY <1>1, <1>2, <2>1
  <1> QED
    BY <1>4, <1>5

(* pool_deque_steal reads top. *)
LEMMA StealTopKeeps ==
    ASSUME IInv, NEW h \in Thieves, StealTop(h)
    PROVE  IInv'
  <1>1. Places' /\ Stores' /\ Memory' /\ Logged' /\ End' = End /\ Waiting' = Waiting
    BY SharedSame DEF StealTop
  <1>2. TypeOK'
    BY DEF IInv, TypeOK, StealTop, mem, owner
  <1>3. ASSUME NEW g \in Thieves PROVE Steals(g)'
    <2>1. /\ top' = top /\ log' = log /\ hfn' = hfn /\ harg' = harg
          /\ ht' = [ht EXCEPT ![h] = top] /\ hpc' = [hpc EXCEPT ![h] = "bottom"]
      BY DEF StealTop, mem
    <2>2. ht \in [Thieves -> Nat] /\ hpc \in [Thieves -> {"idle", "bottom", "fn", "arg", "cas"}]
      BY DEF IInv, TypeOK
    <2>3. top \in Nat
      BY DEF IInv, TypeOK
    <2>4. CASE g = h
      BY <2>1, <2>2, <2>3, <2>4 DEF Steals
    <2>5. CASE g # h
      <3>1. ht'[g] = ht[g] /\ hpc'[g] = hpc[g]
        BY <2>1, <2>2, <2>5
      <3> QED
        BY <1>1, <2>1, <3>1 DEF IInv, Steals
    <2> QED
      BY <2>4, <2>5
  <1> QED
    BY <1>1, <1>2, <1>3 DEF IInv

(* It reads bottom: nothing to steal, or a task. *)
LEMMA StealBottomKeeps ==
    ASSUME IInv, NEW h \in Thieves, StealBottom(h)
    PROVE  IInv'
  <1>1. Places' /\ Stores' /\ Memory' /\ Logged' /\ End' = End /\ Waiting' = Waiting
    BY SharedSame DEF StealBottom
  <1>2. TypeOK'
    <2>1. Nothing \in Words \X Words
      BY DEF Nothing, Words
    <2> QED
      BY <2>1 DEF IInv, TypeOK, StealBottom, Returns, mem, owner
  <1>3. ASSUME NEW g \in Thieves PROVE Steals(g)'
    <2>1. top' = top /\ log' = log /\ hfn' = hfn /\ harg' = harg /\ ht' = ht
      BY DEF StealBottom, mem
    <2>2. hpc \in [Thieves -> {"idle", "bottom", "fn", "arg", "cas"}]
      BY DEF IInv, TypeOK
    <2>3. CASE g # h
      <3>1. hpc'[g] = hpc[g]
        BY <2>2, <2>3 DEF StealBottom
      <3> QED
        BY <1>1, <2>1, <3>1 DEF IInv, Steals
    <2>4. CASE g = h /\ ht[h] < bottom
      <3>1. hpc'[g] = "fn"
        BY <2>2, <2>4 DEF StealBottom
      <3>2. ht[g] <= top
        BY DEF IInv, Steals
      <3>3. ht[g] = top => top < End /\ Waiting <= 3 * (End - top - 1)
        BY <2>4, SeenTask
      <3> QED
        BY <1>1, <2>1, <3>1, <3>2, <3>3 DEF Steals
    <2>5. CASE g = h /\ ~(ht[h] < bottom)
      <3>1. hpc'[g] = "idle"
        BY <2>2, <2>5 DEF StealBottom
      <3>2. ht[g] <= top
        BY DEF IInv, Steals
      <3> QED
        BY <1>1, <2>1, <3>1, <3>2 DEF Steals
    <2> QED
      BY <2>3, <2>4, <2>5
  <1> QED
    BY <1>1, <1>2, <1>3 DEF IInv

(* What a slot holds of a task whose stores have arrived. *)
LEMMA SlotHolds ==
    ASSUME IInv, NEW p \in top .. End - 1, Waiting <= 3 * (End - p - 1)
    PROVE  fn[Slot(p)] = log[p] /\ arg[Slot(p)] = log[p] /\ log[p] \in Tasks
  <1>1. top \in Nat /\ End \in Nat /\ Waiting \in Nat
    BY Sizes
  <1>2. Waiting <= 3 * (End - p - 1) + 2 /\ Waiting <= 3 * (End - p - 1) + 1
    BY <1>1
  <1>3. p \in 0 .. End - 1
    BY <1>1
  <1> QED
    BY <1>2, <1>3 DEF IInv, Memory, Logged

(* It reads the function of the task, *)
LEMMA StealFnKeeps ==
    ASSUME IInv, HasSlots, NEW h \in Thieves, StealFn(h)
    PROVE  IInv'
  <1>1. Places' /\ Stores' /\ Memory' /\ Logged' /\ End' = End /\ Waiting' = Waiting
    BY SharedSame DEF StealFn
  <1>2. TypeOK'
    <2>1. ht[h] \in Int
      BY DEF IInv, TypeOK
    <2>2. fn[Slot(ht[h])] \in Words
      BY <2>1, SlotIn DEF IInv, TypeOK
    <2> QED
      BY <2>2 DEF IInv, TypeOK, StealFn, mem, owner
  <1>3. ASSUME NEW g \in Thieves PROVE Steals(g)'
    <2>1. /\ top' = top /\ log' = log /\ harg' = harg /\ ht' = ht
          /\ hfn' = [hfn EXCEPT ![h] = fn[Slot(ht[h])]] /\ hpc' = [hpc EXCEPT ![h] = "arg"]
          /\ hpc[h] = "fn"
      BY DEF StealFn, mem
    <2>2. hpc \in [Thieves -> {"idle", "bottom", "fn", "arg", "cas"}] /\ hfn \in [Thieves -> Words]
      BY DEF IInv, TypeOK
    <2>3. CASE g # h
      <3>1. hpc'[g] = hpc[g] /\ hfn'[g] = hfn[g]
        BY <2>1, <2>2, <2>3
      <3> QED
        BY <1>1, <2>1, <3>1 DEF IInv, Steals
    <2>4. CASE g = h
      <3>1. hpc'[g] = "arg" /\ hfn'[g] = fn[Slot(ht[g])] /\ hpc[g] = "fn"
        BY <2>1, <2>2, <2>4
      <3>2. /\ ht[g] <= top
            /\ ht[g] = top => top < End /\ Waiting <= 3 * (End - top - 1)
        BY <3>1 DEF IInv, Steals
      <3>3. top \in Nat /\ End \in Nat
        BY Sizes
      <3>4. ht[g] = top => hfn'[g] = log[top]
        <4>1. top < End => top \in top .. End - 1
          BY <3>3
        <4> QED
          BY <3>1, <3>2, <4>1, SlotHolds
      <3> QED
        BY <1>1, <2>1, <3>1, <3>2, <3>4 DEF Steals
    <2> QED
      BY <2>3, <2>4
  <1> QED
    BY <1>1, <1>2, <1>3 DEF IInv

(* then its argument. *)
LEMMA StealArgKeeps ==
    ASSUME IInv, HasSlots, NEW h \in Thieves, StealArg(h)
    PROVE  IInv'
  <1>1. Places' /\ Stores' /\ Memory' /\ Logged' /\ End' = End /\ Waiting' = Waiting
    BY SharedSame DEF StealArg
  <1>2. TypeOK'
    <2>1. ht[h] \in Int
      BY DEF IInv, TypeOK
    <2>2. arg[Slot(ht[h])] \in Words
      BY <2>1, SlotIn DEF IInv, TypeOK
    <2> QED
      BY <2>2 DEF IInv, TypeOK, StealArg, mem, owner
  <1>3. ASSUME NEW g \in Thieves PROVE Steals(g)'
    <2>1. /\ top' = top /\ log' = log /\ hfn' = hfn /\ ht' = ht
          /\ harg' = [harg EXCEPT ![h] = arg[Slot(ht[h])]] /\ hpc' = [hpc EXCEPT ![h] = "cas"]
          /\ hpc[h] = "arg"
      BY DEF StealArg, mem
    <2>2. hpc \in [Thieves -> {"idle", "bottom", "fn", "arg", "cas"}] /\ harg \in [Thieves -> Words]
      BY DEF IInv, TypeOK
    <2>3. CASE g # h
      <3>1. hpc'[g] = hpc[g] /\ harg'[g] = harg[g]
        BY <2>1, <2>2, <2>3
      <3> QED
        BY <1>1, <2>1, <3>1 DEF IInv, Steals
    <2>4. CASE g = h
      <3>1. hpc'[g] = "cas" /\ harg'[g] = arg[Slot(ht[g])] /\ hpc[g] = "arg"
        BY <2>1, <2>2, <2>4
      <3>2. /\ ht[g] <= top
            /\ ht[g] = top => /\ top < End /\ Waiting <= 3 * (End - top - 1)
                              /\ hfn[g] = log[top]
        BY <3>1 DEF IInv, Steals
      <3>3. top \in Nat /\ End \in Nat
        BY Sizes
      <3>4. ht[g] = top => harg'[g] = log[top]
        <4>1. top < End => top \in top .. End - 1
          BY <3>3
        <4> QED
          BY <3>1, <3>2, <4>1, SlotHolds
      <3> QED
        BY <1>1, <2>1, <3>1, <3>2, <3>4 DEF Steals
    <2> QED
      BY <2>3, <2>4
  <1> QED
    BY <1>1, <1>2, <1>3 DEF IInv

(* Its CAS moves top past the task, or finds it moved. *)
LEMMA StealCasKeeps ==
    ASSUME IInv, HasSlots, NEW h \in Thieves, StealCas(h)
    PROVE  IInv'
  <1>1. /\ bottom' = bottom /\ fn' = fn /\ arg' = arg /\ buffer' = buffer /\ own' = own
        /\ opc' = opc /\ ob' = ob /\ ot' = ot /\ log' = log /\ ht' = ht /\ hfn' = hfn
        /\ harg' = harg /\ hpc[h] = "cas" /\ hpc' = [hpc EXCEPT ![h] = "idle"]
        /\ top' = IF top = ht[h] THEN ht[h] + 1 ELSE top
    BY DEF StealCas, owner
  <1>2. End' = End /\ Waiting' = Waiting
    BY <1>1 DEF End, Waiting
  <1>3. /\ top \in Nat /\ End \in Nat /\ Waiting \in Nat /\ top <= End /\ End - top <= Cap
    BY Sizes
  <1>4. TypeOK'
    <2>1. Nothing \in Words \X Words /\ <<hfn[h], harg[h]>> \in Words \X Words
      BY DEF Nothing, Words, IInv, TypeOK
    <2>2. top' \in Nat
      BY <1>1, <1>3
    <2>3. result' \in [{Owner} \cup Thieves -> Words \X Words]
      BY <2>1 DEF IInv, TypeOK, StealCas, Returns
    <2> QED
      BY <2>2, <2>3, <1>1 DEF IInv, TypeOK, StealCas
  <1>5. hpc \in [Thieves -> {"idle", "bottom", "fn", "arg", "cas"}]
    BY DEF IInv, TypeOK
  <1>6. CASE top # ht[h]
    <2>1. top' = top
      BY <1>1, <1>6
    <2>2. Places' /\ Stores' /\ Memory' /\ Logged'
      <3>1. UNCHANGED <<mem, owner, log>>
        BY <1>1, <2>1 DEF mem, owner
      <3> QED
        BY <3>1, SharedSame
    <2>3. ASSUME NEW g \in Thieves PROVE Steals(g)'
      <3>1. Steals(g)
        BY DEF IInv
      <3>2. hpc'[g] = hpc[g] \/ hpc'[g] = "idle"
        BY <1>1, <1>5
      <3> QED
        BY <1>1, <1>2, <2>1, <3>1, <3>2 DEF Steals
    <2> QED
      BY <1>4, <2>2, <2>3 DEF IInv
  <1>7. CASE top = ht[h]
    <2>1. top' = top + 1
      BY <1>1, <1>7
    <2>2. top < End /\ Waiting <= 3 * (End - top - 1)
      BY <1>1, <1>7 DEF IInv, Steals
    <2>3. Cap \in Nat
      BY DEF HasSlots
    <2>4. Places'
      <3>1. top' <= End' /\ End' - top' <= Cap
        BY <1>2, <1>3, <2>1, <2>2, <2>3
      <3>2. opc' = "cas" => ot' = ob' /\ ob' <= top'
        <4>1. opc = "cas" => ot = ob /\ ob <= top /\ ob \in Nat
          BY DEF IInv, Places, TypeOK
        <4> QED
          BY <4>1, <1>1, <1>3, <2>1
      <3> QED
        BY <3>1, <3>2, <1>1 DEF IInv, Places
    <2>5. Stores'
      <3>1. ASSUME NEW k \in Nat, 3 * k + 1 < Waiting PROVE End - k - 1 >= top + 1
        BY <1>3, <2>2, <3>1
      <3> QED
        BY <1>1, <1>2, <2>1, <3>1 DEF IInv, Stores
    <2>6. Memory'
      <3>1. \A p \in top + 1 .. End - 1 : p \in top .. End - 1
        BY <1>3
      <3> QED
        BY <1>1, <1>2, <2>1, <3>1 DEF IInv, Memory
    <2>7. Logged'
      BY <1>1, <1>2 DEF IInv, Logged
    <2>8. ASSUME NEW g \in Thieves PROVE Steals(g)'
      <3>1. ht[g] <= top /\ ht[g] \in Nat
        BY DEF IInv, Steals, TypeOK
      <3>2. ht'[g] < top'
        BY <1>1, <1>3, <2>1, <3>1
      <3>3. ht'[g] <= top' /\ ht'[g] # top'
        BY <3>1, <3>2, <1>1, <1>3, <2>1
      <3> QED
        BY <3>3 DEF Steals
    <2> QED
      BY <1>4, <2>4, <2>5, <2>6, <2>7, <2>8 DEF IInv
  <1> QED
    BY <1>6, <1>7

-----------------------------------------------------------------------------
(* The owner. *)

(* A step that leaves the thieves and the task at top alone keeps what they *)
(* have read.                                                               *)
LEMMA ThievesSame ==
    ASSUME IInv, UNCHANGED thief, top' = top,
           top < End => top < End' /\ log'[top] = log[top],
           top < End /\ Waiting <= 3 * (End - top - 1) => Waiting' <= 3 * (End' - top - 1),
           NEW h \in Thieves
    PROVE  Steals(h)'
  <1>1. ht' = ht /\ hpc' = hpc /\ hfn' = hfn /\ harg' = harg
    BY DEF thief
  <1>2. Steals(h)
    BY DEF IInv
  <1> QED
    BY <1>1, <1>2 DEF Steals

(* A full deque refuses, and the task is run by its spawner. *)
LEMMA PushRefusedKeeps ==
    ASSUME IInv, NEW t \in Tasks, PushRefused(t)
    PROVE  IInv'
  <1>1. Places' /\ Stores' /\ Memory' /\ Logged' /\ End' = End /\ Waiting' = Waiting
    BY SharedSame DEF PushRefused
  <1>2. TypeOK'
    BY DEF IInv, TypeOK, PushRefused, mem, owner, thief
  <1>3. \A h \in Thieves : Steals(h)'
    BY <1>1, ThievesSame DEF PushRefused, mem
  <1> QED
    BY <1>1, <1>2, <1>3 DEF IInv

(* A take that finds nothing changes nothing. *)
LEMMA TakeNothingKeeps ==
    ASSUME IInv, TakeStart, own - top <= 0
    PROVE  IInv'
  <1>1. UNCHANGED <<mem, owner, thief, log>> /\ unsent' = unsent
    BY DEF TakeStart, owner
  <1>2. Places' /\ Stores' /\ Memory' /\ Logged' /\ End' = End /\ Waiting' = Waiting
    BY <1>1, SharedSame
  <1>3. TypeOK'
    <2>1. Nothing \in Words \X Words
      BY DEF Nothing, Words
    <2>2. result' \in [{Owner} \cup Thieves -> Words \X Words]
      BY <2>1 DEF IInv, TypeOK, TakeStart, Returns
    <2> QED
      BY <1>1, <2>2 DEF IInv, TypeOK, mem, owner, thief
  <1>4. \A h \in Thieves : Steals(h)'
    BY <1>1, <1>2, ThievesSame DEF mem
  <1> QED
    BY <1>2, <1>3, <1>4 DEF IInv

(* Otherwise its store of bottom is put behind those of the pushes. *)
LEMMA TakeStartKeeps ==
    ASSUME IInv, TakeStart, ~(own - top <= 0)
    PROVE  IInv'
  <1> DEFINE s == Store("bottom", 0, own - 1)
  <1>1. /\ top' = top /\ bottom' = bottom /\ fn' = fn /\ arg' = arg /\ log' = log /\ ot' = ot
        /\ buffer' = Append(buffer, s) /\ own' = own - 1 /\ ob' = own - 1 /\ opc' = "fence"
        /\ opc = "idle" /\ UNCHANGED thief /\ unsent' = unsent /\ result' = result
    BY DEF TakeStart, StoreBottom, mem, Store
  <1>2. /\ top \in Nat /\ own \in Nat /\ End \in Nat /\ Waiting \in Nat /\ Len(buffer) \in Nat
        /\ buffer \in Seq(AStore) /\ top <= End /\ End - top <= Cap
    BY Sizes
  <1>3. End = own /\ Waiting = Len(buffer)
    BY <1>1 DEF End, Waiting
  <1>4. own - 1 \in Nat
    BY <1>2
  <1>5. s \in AStore
    BY <1>4 DEF Store, AStore
  <1>6. /\ buffer' \in Seq(AStore) /\ Len(buffer') = Len(buffer) + 1 /\ buffer' # <<>>
        /\ buffer'[Len(buffer) + 1] = s
        /\ \A i \in 1 .. Len(buffer) : buffer'[i] = buffer[i]
    BY <1>1, <1>2, <1>5
  <1>7. End' = End
    BY <1>1, <1>2, <1>3 DEF End
  <1>8. Waiting' = Waiting
    BY <1>1, <1>2, <1>3, <1>6 DEF Waiting
  <1>9. TypeOK'
    BY <1>1, <1>4 DEF IInv, TypeOK, thief
  <1>10. Places'
    BY <1>1, <1>2, <1>6, <1>7 DEF Places
  <1> HIDE DEF s
  <1>11. Stores'
    <2>1. ASSUME NEW i \in Nat, i < Waiting PROVE Waiting - i \in 1 .. Len(buffer)
      BY <1>2, <1>3, <2>1
    <2>2. ASSUME NEW i \in Nat, i < Waiting PROVE buffer'[Waiting - i] = buffer[Waiting - i]
      BY <1>6, <2>1, <2>2
    <2>3. ASSUME NEW k \in Nat
          PROVE  /\ 3 * k < Waiting => buffer'[Waiting - 3 * k] = buffer[Waiting - 3 * k]
                 /\ 3 * k + 1 < Waiting =>
                       buffer'[Waiting - 3 * k - 1] = buffer[Waiting - 3 * k - 1]
                 /\ 3 * k + 2 < Waiting =>
                       buffer'[Waiting - 3 * k - 2] = buffer[Waiting - 3 * k - 2]
      <3>1. 3 * k \in Nat /\ 3 * k + 1 \in Nat /\ 3 * k + 2 \in Nat
        OBVIOUS
      <3>2. /\ Waiting - (3 * k + 1) = Waiting - 3 * k - 1
            /\ Waiting - (3 * k + 2) = Waiting - 3 * k - 2
        BY <1>2
      <3>3. 3 * k < Waiting => buffer'[Waiting - 3 * k] = buffer[Waiting - 3 * k]
        BY <2>2, <3>1
      <3>4. 3 * k + 1 < Waiting => buffer'[Waiting - (3 * k + 1)] = buffer[Waiting - (3 * k + 1)]
        BY <2>2, <3>1
      <3>5. 3 * k + 2 < Waiting => buffer'[Waiting - (3 * k + 2)] = buffer[Waiting - (3 * k + 2)]
        BY <2>2, <3>1
      <3> QED
        BY <3>2, <3>3, <3>4, <3>5
    <2>4. buffer'[Len(buffer')] = Store("bottom", 0, ob')
      BY <1>1, <1>6 DEF s
    <2> QED
      BY <1>1, <1>7, <1>8, <2>3, <2>4 DEF IInv, Stores
  <1>12. Memory'
    <2>1. opc = "idle" /\ buffer' # <<>>
      BY <1>1, <1>6
    <2> QED
      BY <1>1, <1>7, <1>8, <2>1 DEF IInv, Memory
  <1>13. Logged'
    BY <1>1, <1>7 DEF IInv, Logged
  <1>14. \A h \in Thieves : Steals(h)'
    BY <1>1, <1>7, <1>8, ThievesSame
  <1> QED
    BY <1>9, <1>10, <1>11, <1>12, <1>13, <1>14 DEF IInv

(* The fence is passed when every store is in memory. *)
LEMMA TakeFenceKeeps ==
    ASSUME IInv, TakeFence
    PROVE  IInv'
  <1>1. /\ top' = top /\ bottom' = bottom /\ fn' = fn /\ arg' = arg /\ buffer' = buffer
        /\ own' = own /\ ob' = ob /\ ot' = ot /\ log' = log /\ UNCHANGED thief
        /\ opc = "fence" /\ opc' = "load" /\ buffer = <<>>
    BY DEF TakeFence, mem
  <1>2. End' = End /\ Waiting' = Waiting /\ Waiting = 0
    BY <1>1 DEF End, Waiting
  <1>3. TypeOK'
    BY <1>1 DEF IInv, TypeOK, TakeFence, thief
  <1>4. Places'
    BY <1>1, <1>2 DEF IInv, Places
  <1>5. Stores'
    BY <1>1, <1>2 DEF IInv, Stores
  <1>6. Memory'
    BY <1>1, <1>2 DEF IInv, Memory
  <1>7. Logged'
    BY <1>1, <1>2 DEF IInv, Logged
  <1>8. \A h \in Thieves : Steals(h)'
    BY <1>1, <1>2, ThievesSame
  <1> QED
    BY <1>3, <1>4, <1>5, <1>6, <1>7, <1>8 DEF IInv

(* A take that is decided leaves the owner idle at the position it took, if *)
(* top has not passed it.                                                   *)
LEMMA TakeLoadTakes ==
    ASSUME IInv, TakeLoad, HasSlots, top < ob
    PROVE  IInv'
  <1>1. /\ top' = top /\ bottom' = bottom /\ fn' = fn /\ arg' = arg /\ buffer' = buffer
        /\ own' = own /\ ob' = ob /\ ot' = top /\ log' = log /\ UNCHANGED thief
        /\ opc = "load" /\ opc' = "idle" /\ unsent' = unsent
    <2>1. ~(top = ob) /\ ~(top > ob)
      BY DEF IInv, TypeOK
    <2> QED
      BY <2>1 DEF TakeLoad, mem
  <1>2. own = ob /\ buffer = <<>>
    BY <1>1 DEF IInv, Places
  <1>3. /\ top \in Nat /\ ob \in Nat /\ End \in Nat /\ top <= End /\ End - top <= Cap
    BY Sizes
  <1>4. End = ob + 1 /\ End' = ob /\ Waiting = 0 /\ Waiting' = 0
    BY <1>1, <1>2 DEF End, Waiting
  <1>5. TypeOK'
    <2>1. fn[Slot(ob)] \in Words /\ arg[Slot(ob)] \in Words
      <3>1. Slot(ob) \in Slots
        BY <1>3, SlotIn
      <3> QED
        BY <3>1 DEF IInv, TypeOK
    <2>2. result' = [result EXCEPT ![Owner] = <<fn[Slot(ob)], arg[Slot(ob)]>>]
      <3>1. ~(top = ob) /\ ~(top > ob)
        BY <1>3
      <3> QED
        BY <3>1 DEF TakeLoad, Returns
    <2> QED
      BY <1>1, <1>3, <2>1, <2>2 DEF IInv, TypeOK, thief
  <1>6. Places'
    <2>1. Cap \in Nat
      BY DEF HasSlots
    <2> QED
      BY <1>1, <1>2, <1>3, <1>4, <2>1 DEF IInv, Places
  <1>7. Stores'
    BY <1>1, <1>4 DEF Stores
  <1>8. Memory'
    <2>1. bottom = ob
      BY <1>1, <1>2, <1>4 DEF IInv, Memory
    <2>2. ASSUME NEW k \in Nat, 3 * k < 3 PROVE ob - k = ob
      BY <1>3, <2>2
    <2>3. ASSUME NEW p \in top .. ob - 1
          PROVE  fn[Slot(p)] = log[p] /\ arg[Slot(p)] = log[p]
      <3>1. p \in top .. End - 1 /\ 0 <= 3 * (End - p - 1)
        BY <1>3, <1>4, <2>3
      <3> QED
        BY <1>4, <3>1, SlotHolds
    <2> QED
      BY <1>1, <1>4, <2>1, <2>2, <2>3 DEF Memory
  <1>9. Logged'
    <2>1. \A p \in 0 .. ob - 1 : p \in 0 .. End - 1
      BY <1>3, <1>4
    <2> QED
      BY <1>1, <1>4, <2>1 DEF IInv, Logged
  <1>10. \A h \in Thieves : Steals(h)'
    <2>1. top < End' /\ Waiting' <= 3 * (End' - top - 1)
      BY <1>3, <1>4
    <2> QED
      BY <1>1, <2>1, ThievesSame
  <1> QED
    BY <1>5, <1>6, <1>7, <1>8, <1>9, <1>10 DEF IInv

(* The last task: the owner goes on to a CAS. *)
LEMMA TakeLoadLast ==
    ASSUME IInv, TakeLoad, top = ob
    PROVE  IInv'
  <1>1. /\ top' = top /\ bottom' = bottom /\ fn' = fn /\ arg' = arg /\ buffer' = buffer
        /\ own' = own /\ ob' = ob /\ ot' = top /\ log' = log /\ UNCHANGED thief
        /\ opc = "load" /\ opc' = "cas" /\ unsent' = unsent /\ result' = result
    <2>1. ~(top < ob) /\ ~(top > ob)
      BY DEF IInv, TypeOK
    <2> QED
      BY <2>1 DEF TakeLoad, mem
  <1>2. End' = End /\ Waiting' = Waiting
    BY <1>1 DEF End, Waiting
  <1>3. TypeOK'
    BY <1>1 DEF IInv, TypeOK, thief
  <1>4. Places'
    BY <1>1, <1>2 DEF IInv, Places, TypeOK
  <1>5. Stores'
    BY <1>1, <1>2 DEF IInv, Stores
  <1>6. Memory'
    BY <1>1, <1>2 DEF IInv, Memory
  <1>7. Logged'
    BY <1>1, <1>2 DEF IInv, Logged
  <1>8. \A h \in Thieves : Steals(h)'
    BY <1>1, <1>2, ThievesSame
  <1> QED
    BY <1>3, <1>4, <1>5, <1>6, <1>7, <1>8 DEF IInv

(* A take whose task is gone, or that decided the race for the last one, puts *)
(* bottom back behind top: the deque is empty.                                *)
LEMMA PutBackKeeps ==
    ASSUME IInv, HasSlots, opc \in {"load", "cas"}, buffer = <<>>,
           opc' = "idle", top' = ob + 1, top <= top', StoreBottom(buffer, ob + 1),
           UNCHANGED <<bottom, fn, arg, ob, thief, log>>,
           TypeOK', top < top' \/ top = End
    PROVE  IInv'
  <1> DEFINE s == Store("bottom", 0, ob + 1)
  <1>1. /\ buffer' = Append(<<>>, s) /\ own' = ob + 1 /\ ob' = ob /\ bottom' = bottom
        /\ fn' = fn /\ arg' = arg /\ log' = log
    BY DEF StoreBottom, Store
  <1>2. /\ top \in Nat /\ ob \in Nat /\ End \in Nat /\ top <= End
    BY Sizes
  <1>3. s \in AStore
    BY <1>2 DEF Store, AStore
  <1>4. buffer' \in Seq(AStore) /\ Len(buffer') = 1 /\ buffer'[1] = s
    BY <1>1, <1>3
  <1>5. End = ob + 1 /\ End' = ob + 1 /\ Waiting = 0 /\ Waiting' = 1
    BY <1>1, <1>4 DEF End, Waiting
  <1>6. own = ob /\ bottom = ob
    <2>1. own = ob
      BY DEF IInv, Places
    <2>2. bottom = IF opc # "idle" /\ buffer = <<>> THEN ob ELSE End - 0
      BY <1>5 DEF IInv, Memory
    <2> QED
      BY <2>1, <2>2
  <1>7. Places'
    <2>1. Cap \in Nat
      BY DEF HasSlots
    <2>2. top' <= End' /\ End' - top' <= Cap
      BY <1>2, <1>5, <2>1
    <2> QED
      BY <1>4, <2>2 DEF Places
  <1>8. Stores'
    <2>1. ASSUME NEW k \in Nat, 3 * k < 1 PROVE k = 0
      BY <2>1
    <2>2. ASSUME NEW k \in Nat PROVE ~(3 * k + 1 < 1) /\ ~(3 * k + 2 < 1)
      OBVIOUS
    <2>3. buffer'[1 - 3 * 0] = Store("bottom", 0, End' - 0) /\ End' - 0 >= 1
      BY <1>2, <1>4, <1>5
    <2> QED
      BY <1>5, <2>1, <2>2, <2>3 DEF Stores
  <1>9. Memory'
    <2>1. ASSUME NEW k \in Nat, 3 * k < Waiting' + 3, Waiting' <= 3 * k
          PROVE  bottom' = IF opc' # "idle" /\ buffer' = <<>> THEN ob' ELSE End' - k
      <3>1. k = 1
        BY <1>5, <2>1
      <3> QED
        BY <1>1, <1>2, <1>5, <1>6, <3>1
    <2>2. top' .. End' - 1 = {}
      BY <1>2, <1>5
    <2> QED
      BY <2>1, <2>2 DEF Memory
  <1>10. Logged'
    BY <1>1, <1>5 DEF IInv, Logged
  <1>11. ASSUME NEW h \in Thieves PROVE Steals(h)'
    <2>1. ht' = ht /\ hpc' = hpc
      BY DEF thief
    <2>2. ht[h] \in Nat /\ ht[h] <= top
      BY DEF IInv, Steals, TypeOK
    <2>3. ht[h] <= top'
      BY <1>2, <2>2
    <2>4. CASE top < top'
      <3>1. ht[h] # top'
        BY <1>2, <2>2, <2>4
      <3> QED
        BY <2>1, <2>3, <3>1 DEF Steals
    <2>5. CASE top = End
      <3>1. top' = top
        BY <1>5, <2>5
      <3>2. ~(hpc[h] \in {"fn", "arg", "cas"} /\ ht[h] = top)
        BY <1>2, <2>5 DEF IInv, Steals
      <3> QED
        BY <2>1, <2>3, <3>1, <3>2 DEF Steals
    <2> QED
      BY <2>4, <2>5
  <1> QED
    BY <1>7, <1>8, <1>9, <1>10, <1>11 DEF IInv

(* The task is gone. *)
LEMMA TakeLoadGone ==
    ASSUME IInv, TakeLoad, HasSlots, top > ob
    PROVE  IInv' /\ top = End
  <1>1. /\ top' = top /\ bottom' = bottom /\ fn' = fn /\ arg' = arg
        /\ ob' = ob /\ ot' = top /\ log' = log /\ UNCHANGED thief /\ unsent' = unsent
        /\ opc = "load" /\ opc' = "idle"
        /\ StoreBottom(buffer, ob + 1) /\ result' = [result EXCEPT ![Owner] = Nothing]
    <2>1. ~(top < ob) /\ ~(top = ob)
      BY DEF IInv, TypeOK
    <2> QED
      BY <2>1 DEF TakeLoad, mem, Returns
  <1>2. /\ top \in Nat /\ ob \in Nat /\ End \in Nat /\ top <= End
    BY Sizes
  <1>3. End = ob + 1 /\ top = ob + 1
    BY <1>1, <1>2 DEF End
  <1>4. buffer = <<>>
    BY <1>1 DEF IInv, Places
  <1>5. TypeOK'
    <2>1. Nothing \in Words \X Words
      BY DEF Nothing, Words
    <2>2. own' \in Nat
      BY <1>1, <1>2 DEF StoreBottom
    <2>3. result' \in [{Owner} \cup Thieves -> Words \X Words]
      BY <1>1, <2>1 DEF IInv, TypeOK
    <2> QED
      BY <1>1, <1>2, <2>2, <2>3 DEF IInv, TypeOK, thief
  <1>6. top' = ob + 1 /\ top <= top' /\ top = End
    BY <1>1, <1>2, <1>3
  <1>7. UNCHANGED <<bottom, fn, arg, ob, thief, log>>
    BY <1>1
  <1>8. opc \in {"load", "cas"} /\ opc' = "idle" /\ StoreBottom(buffer, ob + 1)
    BY <1>1
  <1> QED
    BY <1>4, <1>5, <1>6, <1>7, <1>8, PutBackKeeps

(* The race for the last task. *)
LEMMA TakeCasKeeps ==
    ASSUME IInv, TakeCas, HasSlots
    PROVE  IInv'
  <1>1. /\ bottom' = bottom /\ fn' = fn /\ arg' = arg /\ unsent' = unsent
        /\ ob' = ob /\ ot' = ot /\ log' = log /\ UNCHANGED thief
        /\ opc = "cas" /\ opc' = "idle" /\ buffer = <<>>
        /\ StoreBottom(buffer, ob + 1)
        /\ top' = IF top = ot THEN ot + 1 ELSE top
    BY DEF TakeCas
  <1>2. /\ top \in Nat /\ ob \in Nat /\ End \in Nat /\ top <= End
    BY Sizes
  <1>3. ot = ob /\ ob <= top
    BY <1>1 DEF IInv, Places
  <1>4. End = ob + 1
    BY <1>1 DEF End
  <1>5. TypeOK'
    <2>1. fn[Slot(ob)] \in Words /\ arg[Slot(ob)] \in Words
      <3>1. Slot(ob) \in Slots
        BY <1>2, SlotIn
      <3> QED
        BY <3>1 DEF IInv, TypeOK
    <2>2. Nothing \in Words \X Words /\ <<fn[Slot(ob)], arg[Slot(ob)]>> \in Words \X Words
      BY <2>1 DEF Nothing, Words
    <2>3. own' \in Nat
      BY <1>1, <1>2 DEF StoreBottom
    <2>4. result' \in [{Owner} \cup Thieves -> Words \X Words]
      BY <2>2 DEF IInv, TypeOK, TakeCas, Returns
    <2>5. top' \in Nat
      BY <1>1, <1>2, <1>3
    <2> QED
      BY <1>1, <1>2, <2>3, <2>4, <2>5 DEF IInv, TypeOK, thief
  <1>6. top' = ob + 1 /\ top <= top' /\ (top < top' \/ top = End)
    BY <1>1, <1>2, <1>3, <1>4
  <1>7. UNCHANGED <<bottom, fn, arg, ob, thief, log>>
    BY <1>1
  <1>8. opc \in {"load", "cas"}
    BY <1>1
  <1> QED
    BY <1>1, <1>5, <1>6, <1>7, <1>8, PutBackKeeps

-----------------------------------------------------------------------------
(* A push puts three stores behind those that wait. *)
LEMMA PushKeeps ==
    ASSUME IInv, HasSlots, NEW t \in Tasks, Push(t)
    PROVE  IInv'
  <1> DEFINE f == Store("fn", Slot(own), t)
             a == Store("arg", Slot(own), t)
             b == Store("bottom", 0, own + 1)
             L == Len(buffer)
  <1>1. /\ top' = top /\ bottom' = bottom /\ fn' = fn /\ arg' = arg /\ opc' = opc /\ ob' = ob
        /\ ot' = ot /\ UNCHANGED thief /\ result' = result /\ unsent' = unsent \ {t}
        /\ opc = "idle" /\ own' = own + 1 /\ buffer' = Append(buffer \o <<f, a>>, b)
        /\ log' = [q \in 0 .. own |-> IF q = own THEN t ELSE log[q]] /\ own - top < Cap
    BY DEF Push, StoreBottom, mem, Store
  <1>2. /\ top \in Nat /\ own \in Nat /\ End \in Nat /\ L \in Nat
        /\ buffer \in Seq(AStore) /\ top <= End /\ End - top <= Cap
    BY Sizes
  <1>3. End = own /\ Waiting = L
    BY <1>1 DEF End, Waiting
  <1>4. f \in AStore /\ a \in AStore /\ b \in AStore
    <2>1. Slot(own) \in Nat /\ own + 1 \in Nat
      <3>1. own \in Int /\ own + 1 \in Nat
        BY <1>2
      <3>2. Slot(own) \in Nat
        BY ONLY HasSlots, <3>1, SlotIn
      <3> QED
        BY <3>1, <3>2
    <2>2. ASSUME NEW to \in {"bottom", "fn", "arg"}, NEW at \in Nat, NEW v \in Nat \cup Tasks
          PROVE  Store(to, at, v) \in AStore
      BY DEF Store, AStore
    <2>3. f \in AStore /\ a \in AStore
      <3> HIDE DEF L
      <3> QED
        BY <2>1, <2>2
    <2>4. b \in AStore
      BY <2>1, <2>2
    <2> QED
      BY <2>3, <2>4
  <1> HIDE DEF f, a, b
  <1>5. /\ buffer' \in Seq(AStore) /\ Len(buffer') = L + 3
        /\ buffer'[L + 1] = f /\ buffer'[L + 2] = a /\ buffer'[L + 3] = b
        /\ \A i \in 1 .. L : buffer'[i] = buffer[i]
    <2>1. <<f, a>> \in Seq(AStore) /\ Len(<<f, a>>) = 2
      BY <1>4
    <2>2. /\ buffer \o <<f, a>> \in Seq(AStore) /\ Len(buffer \o <<f, a>>) = L + 2
          /\ (buffer \o <<f, a>>)[L + 1] = f /\ (buffer \o <<f, a>>)[L + 2] = a
          /\ \A i \in 1 .. L : (buffer \o <<f, a>>)[i] = buffer[i]
      BY <1>2, <1>4, <2>1
    <2> HIDE DEF L
    <2> QED
      BY <1>1, <1>2, <1>4, <2>2
  <1>6. End' = own + 1 /\ Waiting' = L + 3
    BY <1>1, <1>5 DEF End, Waiting
  <1>7. \A q \in 0 .. own - 1 : log'[q] = log[q]
    BY <1>1, <1>2
  <1>8. log'[own] = t
    BY <1>1, <1>2
  <1>9. TypeOK'
    BY <1>1, <1>2 DEF IInv, TypeOK, thief
  <1>10. Places'
    <2>1. Cap \in Nat
      BY DEF HasSlots
    <2>2. top <= own + 1 /\ own + 1 - top <= Cap
      BY <1>1, <1>2, <1>3, <2>1
    <2>3. opc' = "idle"
      BY <1>1
    <2>4. top' <= End' /\ End' - top' <= Cap
      BY <1>1, <1>2, <1>6, <2>2
    <2> QED
      BY <1>5, <2>3, <2>4 DEF Places
  <1> HIDE DEF L
  <1>11. Stores'
    <2>1. ASSUME NEW k \in Nat, 3 * k < L + 3
          PROVE  /\ buffer'[L + 3 - 3 * k] = Store("bottom", 0, own + 1 - k)
                 /\ own + 1 - k >= 1
      <3>1. CASE k = 0
        <4>1. L + 3 - 3 * k = L + 3 /\ own + 1 - k = own + 1 /\ own + 1 >= 1
          BY <1>2, <3>1
        <4> QED
          BY <1>5, <4>1 DEF b
      <3>2. CASE k # 0
        <4> DEFINE j == k - 1
        <4>1. /\ j \in Nat /\ 3 * j < L /\ L + 3 - 3 * k = L - 3 * j /\ L - 3 * j \in 1 .. L
              /\ own + 1 - k = own - j
          BY <1>2, <2>1, <3>2
        <4>2. buffer[L - 3 * j] = Store("bottom", 0, own - j) /\ own - j >= 1
          BY <1>3, <4>1 DEF IInv, Stores
        <4> QED
          BY <1>5, <4>1, <4>2
      <3> QED
        BY <3>1, <3>2
    <2>2. ASSUME NEW k \in Nat, 3 * k + 1 < L + 3
          PROVE  /\ buffer'[L + 3 - 3 * k - 1]
                       = Store("arg", Slot(own + 1 - k - 1), log'[own + 1 - k - 1])
                 /\ own + 1 - k - 1 >= top
      <3>1. CASE k = 0
        <4>1. L + 3 - 3 * k - 1 = L + 2 /\ own + 1 - k - 1 = own /\ own >= top
          BY <1>2, <1>3, <3>1
        <4> QED
          BY <1>5, <1>8, <4>1 DEF a
      <3>2. CASE k # 0
        <4> DEFINE j == k - 1
        <4>1. /\ j \in Nat /\ 3 * j + 1 < L /\ L + 3 - 3 * k - 1 = L - 3 * j - 1
              /\ L - 3 * j - 1 \in 1 .. L /\ own + 1 - k - 1 = own - j - 1
          BY <1>2, <2>2, <3>2
        <4>2. /\ buffer[L - 3 * j - 1] = Store("arg", Slot(own - j - 1), log[own - j - 1])
              /\ own - j - 1 >= top
          BY <1>3, <4>1 DEF IInv, Stores
        <4>3. own - j - 1 \in 0 .. own - 1
          BY <1>2, <4>1, <4>2
        <4> QED
          BY <1>5, <1>7, <4>1, <4>2, <4>3
      <3> QED
        BY <3>1, <3>2
    <2>3. ASSUME NEW k \in Nat, 3 * k + 2 < L + 3
          PROVE  buffer'[L + 3 - 3 * k - 2]
                    = Store("fn", Slot(own + 1 - k - 1), log'[own + 1 - k - 1])
      <3>1. CASE k = 0
        <4>1. L + 3 - 3 * k - 2 = L + 1 /\ own + 1 - k - 1 = own
          BY <1>2, <3>1
        <4> QED
          BY <1>5, <1>8, <4>1 DEF f
      <3>2. CASE k # 0
        <4> DEFINE j == k - 1
        <4>1. /\ j \in Nat /\ 3 * j + 1 < L /\ 3 * j + 2 < L /\ L + 3 - 3 * k - 2 = L - 3 * j - 2
              /\ L - 3 * j - 2 \in 1 .. L /\ own + 1 - k - 1 = own - j - 1
          BY <1>2, <2>3, <3>2
        <4>2. /\ buffer[L - 3 * j - 2] = Store("fn", Slot(own - j - 1), log[own - j - 1])
              /\ own - j - 1 >= top
          BY <1>3, <4>1 DEF IInv, Stores
        <4>3. own - j - 1 \in 0 .. own - 1
          BY <1>2, <4>1, <4>2
        <4> QED
          BY <1>5, <1>7, <4>1, <4>2, <4>3
      <3> QED
        BY <3>1, <3>2
    <2>4. opc' # "fence"
      BY <1>1
    <2>5. ASSUME NEW k \in Nat
          PROVE  /\ 3 * k < Waiting' =>
                       /\ buffer'[Waiting' - 3 * k] = Store("bottom", 0, End' - k)
                       /\ End' - k >= 1
                 /\ 3 * k + 1 < Waiting' =>
                       /\ buffer'[Waiting' - 3 * k - 1]
                             = Store("arg", Slot(End' - k - 1), log'[End' - k - 1])
                       /\ End' - k - 1 >= top'
                 /\ 3 * k + 2 < Waiting' =>
                       buffer'[Waiting' - 3 * k - 2]
                          = Store("fn", Slot(End' - k - 1), log'[End' - k - 1])
      <3>1. /\ Waiting' = L + 3 /\ End' - k = own + 1 - k /\ End' - k - 1 = own + 1 - k - 1
            /\ top' = top
            /\ Waiting' - 3 * k = L + 3 - 3 * k /\ Waiting' - 3 * k - 1 = L + 3 - 3 * k - 1
            /\ Waiting' - 3 * k - 2 = L + 3 - 3 * k - 2
        BY <1>1, <1>2, <1>6
      <3>2. 3 * k < Waiting' =>
                       /\ buffer'[Waiting' - 3 * k] = Store("bottom", 0, End' - k)
                       /\ End' - k >= 1
        BY <2>1, <3>1
      <3>3. 3 * k + 1 < Waiting' =>
                       /\ buffer'[Waiting' - 3 * k - 1]
                             = Store("arg", Slot(End' - k - 1), log'[End' - k - 1])
                       /\ End' - k - 1 >= top'
        BY <2>2, <3>1
      <3>4. 3 * k + 2 < Waiting' =>
                       buffer'[Waiting' - 3 * k - 2]
                          = Store("fn", Slot(End' - k - 1), log'[End' - k - 1])
        BY <2>3, <3>1
      <3> QED
        BY <3>2, <3>3, <3>4
    <2> QED
      BY <2>4, <2>5 DEF Stores, Store, Slot
  <1>12. Memory'
    <2>1. ASSUME NEW k \in Nat, 3 * k < L + 3 + 3, L + 3 <= 3 * k
          PROVE  bottom = own + 1 - k
      <3> DEFINE j == k - 1
      <3>1. j \in Nat /\ 3 * j < L + 3 /\ L <= 3 * j /\ own + 1 - k = own - j
        BY <1>2, <2>1
      <3>2. bottom = own - j
        BY <1>1, <1>3, <3>1 DEF IInv, Memory
      <3> QED
        BY <3>1, <3>2
    <2>2. ASSUME NEW p \in top .. own + 1 - 1
          PROVE  /\ L + 3 <= 3 * (own + 1 - p - 1) + 2 => fn[Slot(p)] = log'[p]
                 /\ L + 3 <= 3 * (own + 1 - p - 1) + 1 => arg[Slot(p)] = log'[p]
      <3>1. CASE p = own
        BY <1>2, <3>1
      <3>2. CASE p # own
        <4>1. p \in top .. own - 1 /\ p \in 0 .. own - 1
          BY <1>2, <2>2, <3>2
        <4>2. /\ L <= 3 * (own - p - 1) + 2 => fn[Slot(p)] = log[p]
              /\ L <= 3 * (own - p - 1) + 1 => arg[Slot(p)] = log[p]
          BY <1>3, <4>1 DEF IInv, Memory
        <4>3. /\ L + 3 <= 3 * (own + 1 - p - 1) + 2 <=> L <= 3 * (own - p - 1) + 2
              /\ L + 3 <= 3 * (own + 1 - p - 1) + 1 <=> L <= 3 * (own - p - 1) + 1
          BY <1>2, <4>1
        <4> QED
          BY <1>7, <4>1, <4>2, <4>3
      <3> QED
        BY <3>1, <3>2
    <2>3. ASSUME NEW k \in Nat, 3 * k < Waiting' + 3, Waiting' <= 3 * k
          PROVE  bottom' = IF opc' # "idle" /\ buffer' = <<>> THEN ob' ELSE End' - k
      BY <1>1, <1>2, <1>6, <2>1, <2>3
    <2>4. ASSUME NEW p \in top' .. End' - 1
          PROVE  /\ Waiting' <= 3 * (End' - p - 1) + 2 => fn'[Slot(p)] = log'[p]
                 /\ Waiting' <= 3 * (End' - p - 1) + 1 => arg'[Slot(p)] = log'[p]
      <3>1. p \in top .. own + 1 - 1 /\ End' - p - 1 = own + 1 - p - 1 /\ Waiting' = L + 3
        BY <1>1, <1>2, <1>6, <2>4
      <3>2. fn' = fn /\ arg' = arg
        BY <1>1
      <3> QED
        BY <2>2, <3>1, <3>2
    <2> QED
      BY <2>3, <2>4 DEF Memory, Slot
  <1>13. Logged'
    <2>1. ASSUME NEW p \in 0 .. own + 1 - 1 PROVE log'[p] \in Tasks
      <3>1. CASE p = own
        BY <1>8, <3>1
      <3>2. CASE p # own
        <4>1. p \in 0 .. own - 1
          BY <1>2, <2>1, <3>2
        <4> QED
          BY <1>3, <1>7, <4>1 DEF IInv, Logged
      <3> QED
        BY <3>1, <3>2
    <2>2. \A p \in 0 .. End' - 1 : log'[p] \in Tasks
      BY <1>2, <1>6, <2>1
    <2> QED
      BY <2>2 DEF Logged
  <1>14. \A h \in Thieves : Steals(h)'
    <2>1. top < End => top < End' /\ log'[top] = log[top]
      <3>1. top < own => top < own + 1 /\ top \in 0 .. own - 1
        BY <1>2
      <3> QED
        BY <1>3, <1>6, <1>7, <3>1
    <2>2. top < End /\ Waiting <= 3 * (End - top - 1) => Waiting' <= 3 * (End' - top - 1)
      BY <1>2, <1>3, <1>6
    <2> QED
      BY <1>1, <2>1, <2>2, ThievesSame
  <1> QED
    BY <1>9, <1>10, <1>11, <1>12, <1>13, <1>14 DEF IInv

-----------------------------------------------------------------------------
(* The store of the take reaches memory: nothing else waits. *)
LEMMA DrainTake ==
    ASSUME IInv, Drain, Waiting = 0
    PROVE  IInv'
  <1>1. /\ top' = top /\ own' = own /\ opc' = opc /\ ob' = ob /\ ot' = ot /\ log' = log
        /\ UNCHANGED thief /\ result' = result /\ unsent' = unsent
        /\ buffer # <<>> /\ buffer' = Tail(buffer)
    BY DEF Drain
  <1>2. /\ top \in Nat /\ ob \in Nat /\ End \in Nat /\ buffer \in Seq(AStore)
        /\ Len(buffer) \in Nat
    BY Sizes
  <1>3. opc = "fence" /\ Len(buffer) = 1
    <2>1. Len(buffer) >= 1
      BY <1>1, <1>2
    <2> QED
      BY <1>2, <2>1 DEF Waiting
  <1>4. buffer[1] = Store("bottom", 0, ob)
    BY <1>1, <1>3 DEF IInv, Stores
  <1>5. bottom' = ob /\ fn' = fn /\ arg' = arg
    <2>1. Head(buffer) = Store("bottom", 0, ob)
      BY <1>1, <1>2, <1>4
    <2> QED
      BY <2>1 DEF Drain, Store
  <1>6. buffer' = <<>>
    <2>1. Tail(buffer) \in Seq(AStore) /\ Len(Tail(buffer)) = 0
      BY <1>1, <1>2, <1>3, HeadTailProperties
    <2> QED
      BY <1>1, <2>1, EmptySeq
  <1>7. End' = End /\ Waiting' = 0
    BY <1>1, <1>6 DEF End, Waiting
  <1>8. TypeOK'
    BY <1>1, <1>2, <1>5 DEF IInv, TypeOK, thief
  <1>9. Places'
    <2>1. buffer' \in Seq(AStore)
      BY <1>6
    <2> QED
      BY <1>1, <1>6, <1>7, <2>1 DEF IInv, Places
  <1>10. Stores'
    BY <1>6, <1>7 DEF Stores
  <1>11. Memory'
    BY <1>1, <1>3, <1>5, <1>6, <1>7 DEF IInv, Memory
  <1>12. Logged'
    BY <1>1, <1>7 DEF IInv, Logged
  <1>13. \A h \in Thieves : Steals(h)'
    BY <1>1, <1>7, ThievesSame
  <1> QED
    BY <1>8, <1>9, <1>10, <1>11, <1>12, <1>13 DEF IInv

(* What any other store that reaches memory leaves waiting. *)
LEMMA DrainRest ==
    ASSUME IInv, Drain, Waiting # 0
    PROVE  /\ Waiting \in Nat \ {0} /\ Waiting' = Waiting - 1 /\ End' = End
           /\ buffer # <<>> /\ ~(opc # "idle" /\ buffer' = <<>>)
           /\ buffer' \in Seq(AStore) /\ Len(buffer') = Len(buffer) - 1
           /\ Len(buffer) >= Waiting
           /\ \A i \in 1 .. Len(buffer) - 1 : buffer'[i] = buffer[i + 1]
  <1>1. buffer # <<>> /\ buffer' = Tail(buffer) /\ opc' = opc /\ own' = own /\ ob' = ob
    BY DEF Drain
  <1>2. buffer \in Seq(AStore) /\ Len(buffer) \in Nat /\ Waiting \in Nat
    BY Sizes
  <1>3. /\ buffer' \in Seq(AStore) /\ Len(buffer') = Len(buffer) - 1
        /\ \A i \in 1 .. Len(buffer) - 1 : buffer'[i] = buffer[i + 1]
    <2>1. buffer # <<>>
      BY <1>1
    <2>2. /\ Tail(buffer) \in Seq(AStore) /\ Len(Tail(buffer)) = Len(buffer) - 1
          /\ \A i \in 1 .. Len(Tail(buffer)) : Tail(buffer)[i] = buffer[i + 1]
      BY <1>2, <2>1, HeadTailProperties
    <2> QED
      BY <1>1, <2>2
  <1>4. opc \notin {"load", "cas"}
    BY <1>1 DEF IInv, Places
  <1>5. opc \in {"idle", "fence"}
    BY <1>4 DEF IInv, TypeOK
  <1>6. End' = End
    BY <1>1 DEF End
  <1>7. buffer' = <<>> <=> Len(buffer) = 1
    <2>1. buffer' = <<>> => Len(buffer') = 0
      BY EmptySeq
    <2>2. buffer' # <<>> => Len(buffer') \in Nat \ {0}
      BY <1>3, EmptySeq
    <2>3. Len(buffer') = Len(buffer) - 1
      BY <1>3
    <2> QED
      BY ONLY <1>2, <2>1, <2>2, <2>3
  <1>8. CASE opc = "idle"
    <2>1. Waiting = Len(buffer) /\ Waiting' = Len(buffer')
      BY <1>1, <1>8 DEF Waiting
    <2> QED
      BY <1>1, <1>2, <1>3, <1>6, <1>8, <2>1
  <1>9. CASE opc = "fence"
    <2>1. Waiting = Len(buffer) - 1
      BY <1>1, <1>9 DEF Waiting
    <2>2. buffer' # <<>>
      BY <1>2, <1>7, <2>1
    <2>3. Waiting' = Len(buffer') - 1
      BY <1>1, <1>9, <2>2 DEF Waiting
    <2> QED
      BY <1>1, <1>2, <1>3, <1>6, <2>1, <2>2, <2>3
  <1> QED
    BY <1>5, <1>8, <1>9

(* The stores keep their places, seen from the last. *)
LEMMA DrainStores ==
    ASSUME IInv, Drain, Waiting # 0
    PROVE  Stores'
  <1>1. /\ Waiting \in Nat \ {0} /\ Waiting' = Waiting - 1 /\ End' = End
        /\ Len(buffer') = Len(buffer) - 1 /\ Len(buffer) >= Waiting
        /\ \A i \in 1 .. Len(buffer) - 1 : buffer'[i] = buffer[i + 1]
    BY DrainRest
  <1>2. Len(buffer) \in Nat /\ End \in Nat /\ top \in Nat
    BY Sizes
  <1>3. log' = log /\ top' = top /\ opc' = opc /\ ob' = ob /\ buffer # <<>>
    BY DEF Drain
  <1>4. ASSUME NEW i \in Nat, i < Waiting - 1
        PROVE  buffer'[Waiting - 1 - i] = buffer[Waiting - i]
    <2>1. Waiting - 1 - i \in 1 .. Len(buffer) - 1 /\ Waiting - 1 - i + 1 = Waiting - i
      BY <1>1, <1>2, <1>4
    <2> QED
      BY <1>1, <2>1
  <1>5. ASSUME NEW k \in Nat
        PROVE  /\ 3 * k < Waiting' =>
                     /\ buffer'[Waiting' - 3 * k] = Store("bottom", 0, End - k)
                     /\ End - k >= 1
               /\ 3 * k + 1 < Waiting' =>
                     /\ buffer'[Waiting' - 3 * k - 1]
                           = Store("arg", Slot(End - k - 1), log[End - k - 1])
                     /\ End - k - 1 >= top
               /\ 3 * k + 2 < Waiting' =>
                     buffer'[Waiting' - 3 * k - 2]
                        = Store("fn", Slot(End - k - 1), log[End - k - 1])
    <2>1. /\ 3 * k \in Nat /\ 3 * k + 1 \in Nat /\ 3 * k + 2 \in Nat
          /\ Waiting' - 3 * k = Waiting - 1 - 3 * k
          /\ Waiting' - 3 * k - 1 = Waiting - 1 - (3 * k + 1)
          /\ Waiting' - 3 * k - 2 = Waiting - 1 - (3 * k + 2)
          /\ Waiting - (3 * k + 1) = Waiting - 3 * k - 1
          /\ Waiting - (3 * k + 2) = Waiting - 3 * k - 2
          /\ (3 * k < Waiting' => 3 * k < Waiting - 1 /\ 3 * k < Waiting)
          /\ (3 * k + 1 < Waiting' => 3 * k + 1 < Waiting - 1 /\ 3 * k + 1 < Waiting)
          /\ (3 * k + 2 < Waiting' => 3 * k + 2 < Waiting - 1 /\ 3 * k + 2 < Waiting)
      BY <1>1
    <2>2. /\ 3 * k < Waiting => /\ buffer[Waiting - 3 * k] = Store("bottom", 0, End - k)
                                /\ End - k >= 1
          /\ 3 * k + 1 < Waiting =>
                /\ buffer[Waiting - 3 * k - 1]
                      = Store("arg", Slot(End - k - 1), log[End - k - 1])
                /\ End - k - 1 >= top
          /\ 3 * k + 2 < Waiting =>
                buffer[Waiting - 3 * k - 2]
                   = Store("fn", Slot(End - k - 1), log[End - k - 1])
      BY DEF IInv, Stores
    <2>3. 3 * k < Waiting - 1 => buffer'[Waiting - 1 - 3 * k] = buffer[Waiting - 3 * k]
      BY <1>4, <2>1
    <2>4. 3 * k + 1 < Waiting - 1 =>
             buffer'[Waiting - 1 - (3 * k + 1)] = buffer[Waiting - (3 * k + 1)]
      BY <1>4, <2>1
    <2>5. 3 * k + 2 < Waiting - 1 =>
             buffer'[Waiting - 1 - (3 * k + 2)] = buffer[Waiting - (3 * k + 2)]
      BY <1>4, <2>1
    <2> QED
      BY <2>1, <2>2, <2>3, <2>4, <2>5
  <1>6. opc' = "fence" /\ buffer' # <<>> => buffer'[Len(buffer')] = Store("bottom", 0, ob')
    <2>1. SUFFICES ASSUME opc = "fence", buffer' # <<>>
                   PROVE  buffer'[Len(buffer')] = Store("bottom", 0, ob)
      BY <1>3
    <2>2. buffer[Len(buffer)] = Store("bottom", 0, ob)
      BY <1>3, <2>1 DEF IInv, Stores
    <2>3. Waiting = Len(buffer) - 1
      BY <1>3, <2>1 DEF Waiting
    <2>4. Len(buffer) - 1 \in 1 .. Len(buffer) - 1 /\ Len(buffer) - 1 + 1 = Len(buffer)
      BY <1>1, <1>2, <2>3
    <2> QED
      BY <1>1, <2>2, <2>4
  <1>7. \A k \in Nat :
          /\ 3 * k < Waiting' => /\ buffer'[Waiting' - 3 * k] = Store("bottom", 0, End' - k)
                                 /\ End' - k >= 1
          /\ 3 * k + 1 < Waiting' =>
                /\ buffer'[Waiting' - 3 * k - 1]
                      = Store("arg", Slot(End' - k - 1), log'[End' - k - 1])
                /\ End' - k - 1 >= top'
          /\ 3 * k + 2 < Waiting' =>
                buffer'[Waiting' - 3 * k - 2]
                   = Store("fn", Slot(End' - k - 1), log'[End' - k - 1])
    BY <1>1, <1>3, <1>5
  <1> QED
    BY <1>6, <1>7 DEF Stores, Store, Slot

(* Bottom of the oldest waiting push reaches memory: its task is there. *)
LEMMA DrainBottom ==
    ASSUME IInv, Drain, NEW k \in Nat, Waiting = 3 * k + 1
    PROVE  Memory' /\ fn' = fn /\ arg' = arg /\ bottom' \in Nat
  <1>1. /\ Waiting' = 3 * k /\ End' = End /\ ~(opc # "idle" /\ buffer' = <<>>)
        /\ buffer # <<>> /\ buffer \in Seq(AStore)
    BY DrainRest, Sizes
  <1>2. top' = top /\ log' = log /\ opc' = opc
    BY DEF Drain
  <1>3. End \in Nat /\ top \in Nat
    BY Sizes
  <1>4. buffer[1] = Store("bottom", 0, End - k) /\ End - k >= 1
    <2>1. 3 * k < Waiting /\ Waiting - 3 * k = 1
      OBVIOUS
    <2> QED
      BY <2>1 DEF IInv, Stores
  <1>5. bottom' = End - k /\ fn' = fn /\ arg' = arg
    <2>1. Head(buffer) = Store("bottom", 0, End - k)
      BY <1>1, <1>4
    <2> QED
      BY <2>1 DEF Drain, Store
  <1>6. ASSUME NEW j \in Nat, 3 * j < Waiting' + 3, Waiting' <= 3 * j
        PROVE  bottom' = IF opc' # "idle" /\ buffer' = <<>> THEN ob' ELSE End' - j
    <2>1. j = k
      BY <1>1, <1>6
    <2> QED
      BY <1>1, <1>2, <1>5, <2>1
  <1>7. ASSUME NEW p \in top' .. End' - 1
        PROVE  /\ Waiting' <= 3 * (End' - p - 1) + 2 => fn'[Slot(p)] = log'[p]
               /\ Waiting' <= 3 * (End' - p - 1) + 1 => arg'[Slot(p)] = log'[p]
    <2>1. p \in top .. End - 1
      BY <1>1, <1>2
    <2>2. /\ Waiting <= 3 * (End - p - 1) + 2 => fn[Slot(p)] = log[p]
          /\ Waiting <= 3 * (End - p - 1) + 1 => arg[Slot(p)] = log[p]
      BY <2>1 DEF IInv, Memory
    <2>3. /\ Waiting' <= 3 * (End' - p - 1) + 2 => Waiting <= 3 * (End - p - 1) + 2
          /\ Waiting' <= 3 * (End' - p - 1) + 1 => Waiting <= 3 * (End - p - 1) + 1
      BY <1>1, <1>3, <2>1
    <2> QED
      BY <1>2, <1>5, <2>2, <2>3
  <1>8. Memory'
    BY <1>6, <1>7 DEF Memory, Slot
  <1> QED
    BY <1>3, <1>4, <1>5, <1>8

(* The number of the stores before bottom of a push says which one is first. *)
LEMMA BottomSame ==
    ASSUME IInv, Drain, bottom' = bottom,
           NEW k \in Nat, Waiting = 3 * k + 2 \/ Waiting = 3 * k + 3,
           NEW j \in Nat, 3 * j < Waiting' + 3, Waiting' <= 3 * j
    PROVE  bottom' = IF opc' # "idle" /\ buffer' = <<>> THEN ob' ELSE End' - j
  <1>1. /\ Waiting' = Waiting - 1 /\ End' = End /\ ~(opc # "idle" /\ buffer' = <<>>)
        /\ buffer # <<>>
    BY DrainRest
  <1>2. opc' = opc
    BY DEF Drain
  <1>3. j = k + 1 /\ 3 * j < Waiting + 3 /\ Waiting <= 3 * j
    BY <1>1
  <1>4. bottom = End - j
    BY <1>1, <1>3 DEF IInv, Memory
  <1> QED
    BY <1>1, <1>2, <1>4

(* Its argument does. *)
LEMMA DrainArg ==
    ASSUME IInv, Drain, HasSlots, NEW k \in Nat, Waiting = 3 * k + 2
    PROVE  Memory' /\ fn' = fn /\ arg' \in [Slots -> Words] /\ bottom' = bottom
  <1> DEFINE z == End - k - 1
  <1>1. /\ Waiting' = 3 * k + 1 /\ End' = End /\ buffer # <<>> /\ buffer \in Seq(AStore)
    BY DrainRest, Sizes
  <1>2. top' = top /\ log' = log /\ opc' = opc
    BY DEF Drain
  <1>3. End \in Nat /\ top \in Nat /\ top <= End /\ End - top <= Cap /\ Cap \in Nat
    BY Sizes DEF HasSlots
  <1>4. buffer[1] = Store("arg", Slot(z), log[z]) /\ z >= top
    <2>1. 3 * k + 1 < Waiting /\ Waiting - 3 * k - 1 = 1
      OBVIOUS
    <2> QED
      BY <2>1 DEF IInv, Stores
  <1>5. bottom' = bottom /\ fn' = fn /\ arg' = [arg EXCEPT ![Slot(z)] = log[z]]
    <2>1. Head(buffer) = Store("arg", Slot(z), log[z])
      BY <1>1, <1>4
    <2> HIDE DEF z
    <2>2. /\ Head(buffer).to = "arg" /\ Head(buffer).at = Slot(z)
          /\ Head(buffer).v = log[z]
      BY <2>1 DEF Store
    <2> QED
      BY <2>2 DEF Drain
  <1>6. z \in Int /\ z \in top .. End - 1 /\ z \in 0 .. End - 1 /\ Slot(z) \in Slots
    BY <1>3, <1>4, SlotIn
  <1>7. log[z] \in Words
    BY <1>6 DEF IInv, Logged, Words
  <1>8. arg \in [Slots -> Words]
    BY DEF IInv, TypeOK
  <1>9. arg' \in [Slots -> Words] /\ arg'[Slot(z)] = log[z]
    BY <1>5, <1>6, <1>7, <1>8
  <1>10. ASSUME NEW p \in top' .. End' - 1
         PROVE  /\ Waiting' <= 3 * (End' - p - 1) + 2 => fn'[Slot(p)] = log'[p]
                /\ Waiting' <= 3 * (End' - p - 1) + 1 => arg'[Slot(p)] = log'[p]
    <2>1. p \in top .. End - 1 /\ p \in Int
      BY <1>1, <1>2
    <2>2. /\ Waiting <= 3 * (End - p - 1) + 2 => fn[Slot(p)] = log[p]
          /\ Waiting <= 3 * (End - p - 1) + 1 => arg[Slot(p)] = log[p]
      BY <2>1 DEF IInv, Memory
    <2>3. Waiting' <= 3 * (End' - p - 1) + 2 => Waiting <= 3 * (End - p - 1) + 2
      BY <1>1, <1>3, <2>1
    <2>4. CASE p = z
      BY <1>2, <1>5, <1>9, <2>2, <2>3, <2>4
    <2>5. CASE p # z
      <3>1. Waiting' <= 3 * (End' - p - 1) + 1 => Waiting <= 3 * (End - p - 1) + 1
        BY <1>1, <1>3, <2>1, <2>5
      <3>2. Slot(p) # Slot(z) /\ Slot(p) \in Slots
        <4>1. p < z + Cap /\ z < p + Cap
          BY <1>3, <1>6, <2>1
        <4> HIDE DEF z
        <4> QED
          BY <1>6, <2>1, <2>5, <4>1, SlotsApart, SlotIn
      <3>3. arg'[Slot(p)] = arg[Slot(p)]
        BY <1>5, <1>8, <3>2
      <3> QED
        BY <1>2, <1>5, <2>2, <2>3, <3>1, <3>3
    <2> QED
      BY <2>4, <2>5
  <1>11. Memory'
    <2>1. ASSUME NEW j \in Nat, 3 * j < Waiting' + 3, Waiting' <= 3 * j
          PROVE  bottom' = IF opc' # "idle" /\ buffer' = <<>> THEN ob' ELSE End' - j
      BY <1>5, <2>1, BottomSame
    <2> QED
      BY <1>10, <2>1 DEF Memory, Slot
  <1> QED
    BY <1>5, <1>9, <1>11

(* Its function does. *)
LEMMA DrainFn ==
    ASSUME IInv, Drain, HasSlots, NEW k \in Nat, Waiting = 3 * k + 3
    PROVE  Memory' /\ arg' = arg /\ fn' \in [Slots -> Words] /\ bottom' = bottom
  <1> DEFINE z == End - k - 1
  <1>1. /\ Waiting' = 3 * k + 2 /\ End' = End /\ buffer # <<>> /\ buffer \in Seq(AStore)
    BY DrainRest, Sizes
  <1>2. top' = top /\ log' = log /\ opc' = opc
    BY DEF Drain
  <1>3. End \in Nat /\ top \in Nat /\ top <= End /\ End - top <= Cap /\ Cap \in Nat
    BY Sizes DEF HasSlots
  <1>4. buffer[1] = Store("fn", Slot(z), log[z]) /\ z >= top
    <2>1. 3 * k + 1 < Waiting /\ 3 * k + 2 < Waiting /\ Waiting - 3 * k - 2 = 1
      OBVIOUS
    <2> QED
      BY <2>1 DEF IInv, Stores
  <1>5. bottom' = bottom /\ arg' = arg /\ fn' = [fn EXCEPT ![Slot(z)] = log[z]]
    <2>1. Head(buffer) = Store("fn", Slot(z), log[z])
      BY <1>1, <1>4
    <2> HIDE DEF z
    <2>2. /\ Head(buffer).to = "fn" /\ Head(buffer).at = Slot(z)
          /\ Head(buffer).v = log[z]
      BY <2>1 DEF Store
    <2> QED
      BY <2>2 DEF Drain
  <1>6. z \in Int /\ z \in top .. End - 1 /\ z \in 0 .. End - 1 /\ Slot(z) \in Slots
    BY <1>3, <1>4, SlotIn
  <1>7. log[z] \in Words
    BY <1>6 DEF IInv, Logged, Words
  <1>8. fn \in [Slots -> Words]
    BY DEF IInv, TypeOK
  <1>9. fn' \in [Slots -> Words] /\ fn'[Slot(z)] = log[z]
    BY <1>5, <1>6, <1>7, <1>8
  <1>10. ASSUME NEW p \in top' .. End' - 1
         PROVE  /\ Waiting' <= 3 * (End' - p - 1) + 2 => fn'[Slot(p)] = log'[p]
                /\ Waiting' <= 3 * (End' - p - 1) + 1 => arg'[Slot(p)] = log'[p]
    <2>1. p \in top .. End - 1 /\ p \in Int
      BY <1>1, <1>2
    <2>2. /\ Waiting <= 3 * (End - p - 1) + 2 => fn[Slot(p)] = log[p]
          /\ Waiting <= 3 * (End - p - 1) + 1 => arg[Slot(p)] = log[p]
      BY <2>1 DEF IInv, Memory
    <2>3. Waiting' <= 3 * (End' - p - 1) + 1 => Waiting <= 3 * (End - p - 1) + 1
      BY <1>1, <1>3, <2>1
    <2>4. CASE p = z
      BY <1>2, <1>5, <1>9, <2>2, <2>3, <2>4
    <2>5. CASE p # z
      <3>1. Waiting' <= 3 * (End' - p - 1) + 2 => Waiting <= 3 * (End - p - 1) + 2
        BY <1>1, <1>3, <2>1, <2>5
      <3>2. Slot(p) # Slot(z) /\ Slot(p) \in Slots
        <4>1. p < z + Cap /\ z < p + Cap
          BY <1>3, <1>6, <2>1
        <4> HIDE DEF z
        <4> QED
          BY <1>6, <2>1, <2>5, <4>1, SlotsApart, SlotIn
      <3>3. fn'[Slot(p)] = fn[Slot(p)]
        BY <1>5, <1>8, <3>2
      <3> QED
        BY <1>2, <1>5, <2>2, <2>3, <3>1, <3>3
    <2> QED
      BY <2>4, <2>5
  <1>11. Memory'
    <2>1. ASSUME NEW j \in Nat, 3 * j < Waiting' + 3, Waiting' <= 3 * j
          PROVE  bottom' = IF opc' # "idle" /\ buffer' = <<>> THEN ob' ELSE End' - j
      BY <1>5, <2>1, BottomSame
    <2> QED
      BY <1>10, <2>1 DEF Memory, Slot
  <1> QED
    BY <1>5, <1>9, <1>11

(* Every store that reaches memory keeps the invariant. *)
LEMMA DrainKeeps ==
    ASSUME IInv, HasSlots, Drain
    PROVE  IInv'
  <1>1. CASE Waiting = 0
    BY <1>1, DrainTake
  <1>2. CASE Waiting # 0
    <2>1. /\ Waiting \in Nat \ {0} /\ Waiting' = Waiting - 1 /\ End' = End
          /\ buffer # <<>> /\ ~(opc # "idle" /\ buffer' = <<>>) /\ buffer' \in Seq(AStore)
      BY <1>2, DrainRest
    <2>2. /\ top' = top /\ own' = own /\ opc' = opc /\ ob' = ob /\ ot' = ot /\ log' = log
          /\ UNCHANGED thief /\ result' = result /\ unsent' = unsent
      BY DEF Drain
    <2>3. PICK k \in Nat : Waiting - 1 = 3 * k \/ Waiting - 1 = 3 * k + 1 \/ Waiting - 1 = 3 * k + 2
      <3>1. Waiting - 1 \in Nat
        BY <2>1
      <3> QED
        BY <3>1, ThreeWays
    <2>4. Waiting = 3 * k + 1 \/ Waiting = 3 * k + 2 \/ Waiting = 3 * k + 3
      BY <2>1, <2>3
    <2>5. /\ Memory' /\ bottom' \in Nat
          /\ fn' \in [Slots -> Words] /\ arg' \in [Slots -> Words]
      <3>1. fn \in [Slots -> Words] /\ arg \in [Slots -> Words] /\ bottom \in Nat
        BY DEF IInv, TypeOK
      <3>2. CASE Waiting = 3 * k + 1
        BY <3>1, <3>2, DrainBottom
      <3>3. CASE Waiting = 3 * k + 2
        BY <3>1, <3>3, DrainArg
      <3>4. CASE Waiting = 3 * k + 3
        BY <3>1, <3>4, DrainFn
      <3> QED
        BY <2>4, <3>2, <3>3, <3>4
    <2>6. TypeOK'
      BY <2>2, <2>5 DEF IInv, TypeOK, thief
    <2>7. Places'
      <3>1. opc \notin {"load", "cas"}
        BY <2>1 DEF IInv, Places
      <3> QED
        BY <2>1, <2>2, <3>1 DEF IInv, Places
    <2>8. Stores'
      BY <1>2, DrainStores
    <2>9. Logged'
      BY <2>1, <2>2 DEF IInv, Logged
    <2>10. \A h \in Thieves : Steals(h)'
      <3>1. /\ End \in Nat /\ top \in Nat
            /\ Waiting <= 3 * (End - top - 1) => Waiting' <= 3 * (End' - top - 1)
        BY <2>1, Sizes
      <3> QED
        BY <2>1, <2>2, <3>1, ThievesSame
    <2> QED
      BY <2>5, <2>6, <2>7, <2>8, <2>9, <2>10 DEF IInv
  <1> QED
    BY <1>1, <1>2

-----------------------------------------------------------------------------
(* The invariant is preserved. *)
LEMMA NextInv == IInv /\ HasSlots /\ [Next]_vars => IInv'
  <1> SUFFICES ASSUME IInv, HasSlots, [Next]_vars PROVE IInv'
    OBVIOUS
  <1>1. CASE UNCHANGED vars
    <2>1. UNCHANGED <<mem, owner, thief, log>> /\ unsent' = unsent /\ result' = result
      BY <1>1 DEF vars
    <2>2. Places' /\ Stores' /\ Memory' /\ Logged' /\ End' = End /\ Waiting' = Waiting
      BY <2>1, SharedSame
    <2>3. TypeOK'
      BY <2>1 DEF IInv, TypeOK, mem, owner, thief
    <2>4. \A h \in Thieves : Steals(h)'
      BY <2>1, <2>2, ThievesSame DEF mem
    <2> QED
      BY <2>2, <2>3, <2>4 DEF IInv
  <1>2. CASE Drain
    BY <1>2, DrainKeeps
  <1>3. ASSUME NEW t \in Tasks, Push(t) PROVE IInv'
    BY <1>3, PushKeeps
  <1>4. ASSUME NEW t \in Tasks, PushRefused(t) PROVE IInv'
    BY <1>4, PushRefusedKeeps
  <1>5. CASE TakeStart
    BY <1>5, TakeNothingKeeps, TakeStartKeeps
  <1>6. CASE TakeFence
    BY <1>6, TakeFenceKeeps
  <1>7. CASE TakeLoad
    <2>1. top < ob \/ top = ob \/ top > ob
      BY DEF IInv, TypeOK
    <2> QED
      BY <1>7, <2>1, TakeLoadTakes, TakeLoadLast, TakeLoadGone
  <1>8. CASE TakeCas
    BY <1>8, TakeCasKeeps
  <1>9. ASSUME NEW h \in Thieves, StealStep(h) PROVE IInv'
    BY <1>9, StealTopKeeps, StealBottomKeeps, StealFnKeeps, StealArgKeeps, StealCasKeeps
       DEF StealStep
  <1> QED
    BY <1>1, <1>2, <1>3, <1>4, <1>5, <1>6, <1>7, <1>8, <1>9 DEF Next, OwnerStep

(* The invariant holds of every deque with a slot. *)
LEMMA DequeInvariant == HasSlots => (Spec => []IInv)
  <1>1. HasSlots /\ Init => IInv
    BY InitInv
  <1>2. HasSlots => (IInv /\ [Next]_vars => IInv')
    BY NextInv
  <1> SUFFICES ASSUME HasSlots PROVE Spec => []IInv
    OBVIOUS
  <1>3. Init => IInv
    BY <1>1
  <1>4. IInv /\ [Next]_vars => IInv'
    BY <1>2
  <1> QED
    BY <1>3, <1>4, PTL DEF Spec

(* The types of a deque, and that bottom, which a take lowers below where it *)
(* was, never goes below zero (thread_pool.c, pool_deque_take).              *)
THEOREM DequeTypeCorrect == HasSlots => (Spec => []TypeOK)
  <1>1. IInv => TypeOK
    BY DEF IInv
  <1> SUFFICES ASSUME HasSlots PROVE Spec => []TypeOK
    OBVIOUS
  <1>2. Spec => []IInv
    BY DequeInvariant
  <1> QED
    BY <1>1, <1>2, PTL

-----------------------------------------------------------------------------
(* The indices, as any worker sees them. *)

(* A push is accepted only when the deque has a free slot, and a failing take *)
(* lowers bottom by one at most: no two tasks are in one slot (thread_pool.c, *)
(* pool_deque_push and pool_deque_take).                                      *)
THEOREM DequeIndicesInStep == HasSlots => (Spec => []IndicesInStep)
  <1>1. ASSUME IInv, HasSlots PROVE IndicesInStep
    <2>1. /\ top \in Nat /\ bottom \in Nat /\ own \in Nat /\ ob \in Nat /\ End \in Nat
          /\ Waiting \in Nat /\ top <= End /\ End - top <= Cap /\ Cap \in Nat
      BY <1>1, Sizes DEF HasSlots
    <2>2. End = own \/ End = own + 1
      BY <1>1, <2>1 DEF End, IInv, Places
    <2>3. opc = "idle" => End = own
      BY DEF End
    <2>4. bottom <= End
      <3>1. PICK k \in Nat : 3 * k < Waiting + 3 /\ Waiting <= 3 * k
        <4>1. PICK j \in Nat : Waiting = 3 * j \/ Waiting = 3 * j + 1 \/ Waiting = 3 * j + 2
          BY <2>1, ThreeWays
        <4>2. CASE Waiting = 3 * j
          BY <4>2
        <4>3. CASE Waiting # 3 * j
          <5>1. 3 * (j + 1) < Waiting + 3 /\ Waiting <= 3 * (j + 1) /\ j + 1 \in Nat
            BY <2>1, <4>1, <4>3
          <5> QED
            BY <5>1
        <4> QED
          BY <4>2, <4>3
      <3>2. bottom = IF opc # "idle" /\ buffer = <<>> THEN ob ELSE End - k
        BY <1>1, <3>1 DEF IInv, Memory
      <3>3. opc # "idle" => ob <= End
        BY <2>1 DEF End
      <3> QED
        BY <2>1, <3>1, <3>2, <3>3
    <2>5. own - top <= Cap /\ bottom - top <= Cap /\ own - top >= -1
      BY <2>1, <2>2, <2>4
    <2> QED
      BY <2>1, <2>3, <2>5 DEF IndicesInStep
  <1> SUFFICES ASSUME HasSlots PROVE Spec => []IndicesInStep
    OBVIOUS
  <1>2. Spec => []IInv
    BY DequeInvariant
  <1>3. IInv => IndicesInStep
    BY <1>1
  <1> QED
    BY <1>2, <1>3, PTL

-----------------------------------------------------------------------------
(* The deque implements TaskDeque. *)

(* What is in the deque: the tasks pushed at the positions from top to End. *)
LEMMA Content ==
    ASSUME IInv
    PROVE  /\ content = [k \in 1 .. End - top |-> log[top + k - 1]]
           /\ content \in Seq(Tasks) /\ Len(content) = End - top /\ End - top \in Nat
           /\ \A k \in 1 .. End - top : content[k] = log[top + k - 1]
  <1>1. top \in Nat /\ End \in Nat /\ top <= End
    BY Sizes
  <1>2. content = [k \in 1 .. End - top |-> log[top + k - 1]]
    BY DEF content, End
  <1>3. \A k \in 1 .. End - top : log[top + k - 1] \in Tasks
    <2>1. ASSUME NEW k \in 1 .. End - top PROVE top + k - 1 \in 0 .. End - 1
      BY <1>1
    <2> QED
      BY <2>1 DEF IInv, Logged
  <1>4. End - top \in Nat
    BY <1>1
  <1>5. content \in [1 .. End - top -> Tasks]
    BY <1>2, <1>3
  <1>6. content \in Seq(Tasks) /\ Len(content) = End - top
    BY <1>4, <1>5
  <1> QED
    BY <1>2, <1>4, <1>6

(* A step that moves neither index nor a task leaves the content as it is. *)
LEMMA ContentSame ==
    ASSUME top' = top, End' = End, \A p \in top .. End - 1 : log'[p] = log[p], IInv
    PROVE  content' = content
  <1>1. content' = [k \in 1 .. End' - top' |-> log'[top' + k - 1]]
    BY DEF content, End
  <1>2. content = [k \in 1 .. End - top |-> log[top + k - 1]]
    BY Content
  <1>3. top \in Nat /\ End \in Nat
    BY Sizes
  <1>4. ASSUME NEW k \in 1 .. End - top PROVE log'[top + k - 1] = log[top + k - 1]
    <2>1. top + k - 1 \in top .. End - 1
      BY <1>3
    <2> QED
      BY <2>1
  <1>5. content' = [k \in 1 .. End - top |-> log'[top + k - 1]]
    BY <1>1
  <1> QED
    BY <1>2, <1>4, <1>5

(* The empty deque is an empty content. *)
LEMMA DequeInit == Init => Abstract!Init
  <1> SUFFICES ASSUME Init PROVE Abstract!Init
    OBVIOUS
  <1>1. content = <<>>
    BY DEF Init, content
  <1> QED
    BY <1>1 DEF Init, Abstract!Init, Abstract!Agents, Nothing

(* A push adds its task at the young end. *)
LEMMA PushPushes ==
    ASSUME IInv, IInv', NEW t \in Tasks, Push(t)
    PROVE  Abstract!Push(t)
  <1>1. /\ top' = top /\ result' = result /\ opc = "idle" /\ opc' = opc /\ own' = own + 1
        /\ log' = [q \in 0 .. own |-> IF q = own THEN t ELSE log[q]] /\ own - top < Cap
    BY DEF Push, StoreBottom, mem
  <1>2. /\ top \in Nat /\ own \in Nat /\ top <= End /\ End = own /\ End' = own + 1
    BY <1>1, Sizes DEF End
  <1>3. /\ content \in Seq(Tasks) /\ Len(content) = own - top
        /\ \A k \in 1 .. own - top : content[k] = log[top + k - 1]
    BY <1>2, Content
  <1>4. /\ content' \in Seq(Tasks) /\ Len(content') = own + 1 - top
        /\ \A k \in 1 .. own + 1 - top : content'[k] = log'[top + k - 1]
    <2>1. /\ content' = [k \in 1 .. End' - top' |-> log'[top' + k - 1]]
      BY DEF content, End
    <2>2. content' = [k \in 1 .. own + 1 - top |-> log'[top + k - 1]]
      BY <1>1, <1>2, <2>1
    <2>3. \A p \in 0 .. End' - 1 : log'[p] \in Tasks
      BY DEF IInv, Logged
    <2>4. ASSUME NEW k \in 1 .. own + 1 - top PROVE log'[top + k - 1] \in Tasks
      <3>1. top + k - 1 \in 0 .. End' - 1
        BY <1>2
      <3> QED
        BY <2>3, <3>1
    <2>5. own + 1 - top \in Nat
      BY <1>2
    <2>6. content' \in [1 .. own + 1 - top -> Tasks]
      BY <2>2, <2>4
    <2> QED
      BY <2>2, <2>5, <2>6
  <1>5. content' = Append(content, t)
    <2>1. Append(content, t) \in Seq(Tasks) /\ Len(Append(content, t)) = own - top + 1
      BY <1>3
    <2>2. ASSUME NEW k \in 1 .. own + 1 - top PROVE content'[k] = Append(content, t)[k]
      <3>1. top + k - 1 \in 0 .. own
        BY <1>2
      <3>2. CASE k = own - top + 1
        <4>1. top + k - 1 = own /\ k = Len(content) + 1
          BY <1>2, <1>3, <3>2
        <4>2. content'[k] = t
          BY <1>1, <1>4, <3>1, <4>1
        <4> QED
          BY <1>3, <4>1, <4>2
      <3>3. CASE k # own - top + 1
        <4>1. k \in 1 .. own - top /\ top + k - 1 # own
          BY <1>2, <3>3
        <4>2. content'[k] = log[top + k - 1]
          BY <1>1, <1>4, <3>1, <4>1
        <4>3. Append(content, t)[k] = content[k]
          BY <1>3, <4>1
        <4> QED
          BY <1>3, <4>1, <4>2, <4>3
      <3> QED
        BY <3>2, <3>3
    <2>3. Len(content') = Len(Append(content, t))
      BY <1>2, <1>4, <2>1
    <2> QED
      BY <1>4, <2>1, <2>2, <2>3, SeqEqual
  <1> QED
    BY <1>1, <1>3, <1>5 DEF Abstract!Push

(* The tasks of a function at the positions from x to e are a sequence. *)
LEMMA Window ==
    ASSUME NEW x \in Nat, NEW e \in Nat, x <= e, NEW f, \A p \in 0 .. e - 1 : f[p] \in Tasks
    PROVE  /\ [k \in 1 .. e - x |-> f[x + k - 1]] \in Seq(Tasks)
           /\ Len([k \in 1 .. e - x |-> f[x + k - 1]]) = e - x
  <1> DEFINE c == [k \in 1 .. e - x |-> f[x + k - 1]]
  <1>1. ASSUME NEW k \in 1 .. e - x PROVE f[x + k - 1] \in Tasks
    <2>1. x + k - 1 \in 0 .. e - 1
      OBVIOUS
    <2> QED
      BY <2>1
  <1>2. e - x \in Nat
    OBVIOUS
  <1>3. c \in [1 .. e - x -> Tasks]
    BY <1>1
  <1>4. c \in Seq(Tasks) /\ Len(c) = e - x
    BY <1>2, <1>3
  <1> QED
    BY <1>4

(* The content after a step that keeps the history. *)
LEMMA ContentNext ==
    ASSUME IInv, IInv', log' = log
    PROVE  /\ content' = [k \in 1 .. End' - top' |-> log[top' + k - 1]]
           /\ content' \in Seq(Tasks) /\ Len(content') = End' - top'
           /\ \A k \in 1 .. End' - top' : content'[k] = log[top' + k - 1]
  <1>1. top' \in Nat /\ End' \in Nat /\ top' <= End'
    <2>1. top' \in Nat /\ own' \in Nat /\ ob' \in Nat
      BY DEF IInv, TypeOK
    <2>2. End' = own' \/ End' = ob' + 1
      BY DEF End
    <2>3. End' \in Nat
      BY <2>1, <2>2
    <2>4. top' <= End'
      BY DEF IInv, Places
    <2> QED
      BY <2>1, <2>3, <2>4
  <1>2. content' = [k \in 1 .. End' - top' |-> log[top' + k - 1]]
    BY DEF content, End
  <1>3. \A p \in 0 .. End' - 1 : log[p] \in Tasks
    BY DEF IInv, Logged
  <1>4. /\ [k \in 1 .. End' - top' |-> log[top' + k - 1]] \in Seq(Tasks)
        /\ Len([k \in 1 .. End' - top' |-> log[top' + k - 1]]) = End' - top'
    BY <1>1, <1>3, Window
  <1> QED
    BY <1>2, <1>4

(* An empty deque stays empty, *)
LEMMA EmptyStays ==
    ASSUME IInv, top = End, top' = top, End' = End, log' = log
    PROVE  content = <<>> /\ content' = content
  <1>1. top \in Nat /\ End \in Nat
    BY Sizes
  <1>2. content \in Seq(Tasks) /\ Len(content) = 0
    BY <1>1, Content
  <1>3. content' = content
    BY <1>1, ContentSame
  <1> QED
    BY <1>2, <1>3, EmptySeq

(* and the owner's take fails on it. *)
LEMMA TakeStartMisses ==
    ASSUME IInv, IInv', TakeStart, own - top <= 0
    PROVE  Abstract!TakeNothing
  <1>1. /\ top' = top /\ log' = log /\ opc = "idle" /\ opc' = opc /\ own' = own
        /\ result' = [result EXCEPT ![Owner] = Nothing]
    BY DEF TakeStart, Returns, mem
  <1>2. top \in Nat /\ own \in Nat /\ End = own /\ End' = own /\ top <= End
    BY <1>1, Sizes DEF End
  <1>3. top = End
    BY <1>2
  <1>4. content = <<>> /\ content' = content
    BY <1>1, <1>2, <1>3, EmptyStays
  <1> QED
    BY <1>1, <1>4 DEF Abstract!TakeNothing, Nothing

(* Lowering bottom takes nothing out yet. *)
LEMMA TakeStartKeepsContent ==
    ASSUME IInv, TakeStart, ~(own - top <= 0)
    PROVE  UNCHANGED Abstract!vars
  <1>1. /\ top' = top /\ log' = log /\ opc = "idle" /\ opc' = "fence" /\ ob' = own - 1
        /\ result' = result
    BY DEF TakeStart, mem
  <1>2. own \in Nat /\ End = own
    BY <1>1, Sizes DEF End
  <1>3. End' = End
    BY <1>1, <1>2 DEF End
  <1>4. content' = content
    BY <1>1, <1>3, ContentSame
  <1> QED
    BY <1>1, <1>4 DEF Abstract!vars

(* A take that finds top below its position has the youngest task. *)
LEMMA TakeLoadTakesYoungest ==
    ASSUME IInv, IInv', TakeLoad, top < ob
    PROVE  Abstract!Take
  <1>1. /\ top' = top /\ log' = log /\ opc = "load" /\ opc' = "idle" /\ own' = own
        /\ result' = [result EXCEPT ![Owner] = <<fn[Slot(ob)], arg[Slot(ob)]>>]
    <2>1. ~(top = ob) /\ ~(top > ob)
      BY DEF IInv, TypeOK
    <2> QED
      BY <2>1 DEF TakeLoad, mem, Returns
  <1>2. own = ob /\ buffer = <<>>
    BY <1>1 DEF IInv, Places
  <1>3. /\ top \in Nat /\ ob \in Nat /\ End = ob + 1 /\ End' = ob /\ Waiting = 0
    BY <1>1, <1>2, Sizes DEF End
  <1>4. fn[Slot(ob)] = log[ob] /\ arg[Slot(ob)] = log[ob]
    <2>1. ob \in top .. End - 1 /\ Waiting <= 3 * (End - ob - 1)
      BY <1>3
    <2> QED
      BY <2>1, SlotHolds
  <1>5. /\ content \in Seq(Tasks) /\ Len(content) = ob + 1 - top
        /\ \A k \in 1 .. ob + 1 - top : content[k] = log[top + k - 1]
    BY <1>3, Content
  <1>6. /\ content' \in Seq(Tasks) /\ Len(content') = ob - top
        /\ \A k \in 1 .. ob - top : content'[k] = log[top + k - 1]
    BY <1>1, <1>3, ContentNext
  <1>7. content[Len(content)] = log[ob]
    <2>1. ob + 1 - top \in 1 .. ob + 1 - top /\ top + (ob + 1 - top) - 1 = ob
      BY <1>3
    <2> QED
      BY <1>5, <2>1
  <1>8. content' = SubSeq(content, 1, Len(content) - 1)
    <2> DEFINE n == Len(content) - 1
    <2>1. n = ob - top /\ n \in Nat /\ n <= Len(content)
      BY <1>3, <1>5
    <2>2. /\ SubSeq(content, 1, n) \in Seq(Tasks) /\ Len(SubSeq(content, 1, n)) = n
          /\ \A k \in 1 .. n : SubSeq(content, 1, n)[k] = content[k]
      <3> HIDE DEF n
      <3> QED
        BY <1>5, <2>1
    <2>3. ASSUME NEW k \in 1 .. Len(content')
          PROVE  content'[k] = SubSeq(content, 1, n)[k]
      <3>1. k \in 1 .. ob - top /\ k \in 1 .. n /\ k \in 1 .. ob + 1 - top
        BY <1>3, <1>6, <2>1
      <3> QED
        BY <1>5, <1>6, <2>2, <3>1
    <2>4. Len(content') = Len(SubSeq(content, 1, n))
      BY <1>6, <2>1, <2>2
    <2> HIDE DEF n
    <2>5. content' = SubSeq(content, 1, n)
      BY <1>6, <2>2, <2>3, <2>4, SeqEqual
    <2> QED
      BY <2>5 DEF n
  <1>9. content # <<>>
    BY <1>3, <1>5, EmptySeq
  <1> QED
    BY <1>1, <1>4, <1>7, <1>8, <1>9 DEF Abstract!Take, Abstract!Hand

(* One that finds its task gone leaves an empty deque. *)
LEMMA TakeLoadMisses ==
    ASSUME IInv, IInv', HasSlots, TakeLoad, top > ob
    PROVE  Abstract!TakeNothing
  <1>1. /\ top' = top /\ log' = log /\ opc = "load" /\ opc' = "idle" /\ own' = ob + 1
        /\ result' = [result EXCEPT ![Owner] = Nothing]
    <2>1. ~(top < ob) /\ ~(top = ob)
      BY DEF IInv, TypeOK
    <2> QED
      BY <2>1 DEF TakeLoad, mem, Returns, StoreBottom
  <1>2. End' = End
    BY <1>1 DEF End
  <1>3. top = End
    BY TakeLoadGone
  <1>4. content = <<>> /\ content' = content
    BY <1>1, <1>2, <1>3, EmptyStays
  <1> QED
    BY <1>1, <1>4 DEF Abstract!TakeNothing, Nothing

(* One that finds the last task leaves it to the CAS. *)
LEMMA TakeLoadKeepsContent ==
    ASSUME IInv, TakeLoad, top = ob
    PROVE  UNCHANGED Abstract!vars
  <1>1. /\ top' = top /\ log' = log /\ opc = "load" /\ opc' = "cas" /\ ob' = ob /\ result' = result
    <2>1. ~(top < ob) /\ ~(top > ob)
      BY DEF IInv, TypeOK
    <2> QED
      BY <2>1 DEF TakeLoad, mem
  <1>2. End' = End
    BY <1>1 DEF End
  <1>3. content' = content
    BY <1>1, <1>2, ContentSame
  <1> QED
    BY <1>1, <1>3 DEF Abstract!vars

(* The race for the last task: the owner wins it, or a thief has it already. *)
LEMMA TakeCasDecides ==
    ASSUME IInv, IInv', TakeCas
    PROVE  Abstract!Take \/ Abstract!TakeNothing
  <1>1. /\ log' = log /\ opc = "cas" /\ opc' = "idle" /\ own' = ob + 1 /\ buffer = <<>>
        /\ top' = IF top = ot THEN ot + 1 ELSE top
        /\ result' = [result EXCEPT ![Owner] =
                         IF top = ot THEN <<fn[Slot(ob)], arg[Slot(ob)]>> ELSE Nothing]
    BY DEF TakeCas, StoreBottom, Returns
  <1>2. /\ top \in Nat /\ ob \in Nat /\ End = ob + 1 /\ End' = ob + 1 /\ top <= End
        /\ Waiting = 0
    BY <1>1, Sizes DEF End
  <1>3. ot = ob /\ ob <= top
    BY <1>1 DEF IInv, Places
  <1>4. CASE top = ot
    <2>1. fn[Slot(ob)] = log[ob] /\ arg[Slot(ob)] = log[ob]
      <3>1. ob \in top .. End - 1 /\ Waiting <= 3 * (End - ob - 1)
        BY <1>2, <1>3, <1>4
      <3> QED
        BY <3>1, SlotHolds
    <2>2. content \in Seq(Tasks) /\ Len(content) = 1 /\ content[1] = log[ob]
      <3>1. End - top = 1 /\ top + 1 - 1 = ob /\ 1 \in 1 .. End - top
        BY <1>2, <1>3, <1>4
      <3> QED
        BY <3>1, Content
    <2>3. content' = <<>>
      <3>1. End' - top' = 0
        BY <1>1, <1>2, <1>3, <1>4
      <3>2. content' \in Seq(Tasks) /\ Len(content') = 0
        BY <1>1, <3>1, ContentNext
      <3> QED
        BY <3>2, EmptySeq
    <2>4. SubSeq(content, 1, Len(content) - 1) = <<>>
      BY <2>2
    <2>5. content # <<>>
      BY <2>2, EmptySeq
    <2>6. Abstract!Take
      BY <1>1, <1>4, <2>1, <2>2, <2>3, <2>4, <2>5 DEF Abstract!Take, Abstract!Hand
    <2> QED
      BY <2>6
  <1>5. CASE top # ot
    <2>1. top = End /\ top' = top /\ End' = End
      BY <1>1, <1>2, <1>3, <1>5
    <2>2. content = <<>> /\ content' = content
      BY <1>1, <2>1, EmptyStays
    <2>3. Abstract!TakeNothing
      BY <1>1, <1>5, <2>2 DEF Abstract!TakeNothing, Nothing
    <2> QED
      BY <2>3
  <1> QED
    BY <1>4, <1>5

(* A thief that wins its CAS has the oldest task, the one it read. *)
LEMMA StealCasDecides ==
    ASSUME IInv, IInv', NEW h \in Thieves, StealCas(h)
    PROVE  Abstract!Steal(h) \/ Abstract!StealNothing(h)
  <1>1. /\ log' = log /\ opc' = opc /\ own' = own /\ ob' = ob /\ hpc[h] = "cas"
        /\ top' = IF top = ht[h] THEN ht[h] + 1 ELSE top
        /\ result' = [result EXCEPT ![h] =
                         IF top = ht[h] THEN <<hfn[h], harg[h]>> ELSE Nothing]
    BY DEF StealCas, Returns, owner
  <1>2. top \in Nat /\ End \in Nat /\ End' = End
    BY <1>1, Sizes DEF End
  <1>3. CASE top = ht[h]
    <2>1. top < End /\ hfn[h] = log[top] /\ harg[h] = log[top] /\ top' = top + 1
      BY <1>1, <1>3 DEF IInv, Steals
    <2>2. /\ content \in Seq(Tasks) /\ Len(content) = End - top
          /\ \A k \in 1 .. End - top : content[k] = log[top + k - 1]
      BY Content
    <2>3. /\ content' \in Seq(Tasks) /\ Len(content') = End - (top + 1)
          /\ \A k \in 1 .. End - (top + 1) : content'[k] = log[top + 1 + k - 1]
      BY <1>1, <1>2, <2>1, ContentNext
    <2>4. content # <<>>
      BY <1>2, <2>1, <2>2, EmptySeq
    <2>5. Head(content) = log[top]
      <3>1. 1 \in 1 .. End - top /\ top + 1 - 1 = top
        BY <1>2, <2>1
      <3> QED
        BY <2>2, <2>4, <3>1
    <2>6. content' = Tail(content)
      <3>1. /\ Tail(content) \in Seq(Tasks) /\ Len(Tail(content)) = Len(content) - 1
            /\ \A i \in 1 .. Len(Tail(content)) : Tail(content)[i] = content[i + 1]
        BY <2>2, <2>4, HeadTailProperties
      <3>2. ASSUME NEW k \in 1 .. Len(content') PROVE content'[k] = Tail(content)[k]
        <4>1. /\ k \in 1 .. End - (top + 1) /\ k + 1 \in 1 .. End - top
              /\ k \in 1 .. End - top - 1
              /\ top + 1 + k - 1 = top + (k + 1) - 1
          BY <1>2, <2>3
        <4>2. Tail(content)[k] = content[k + 1]
          BY <2>2, <3>1, <4>1
        <4> QED
          BY <2>2, <2>3, <4>1, <4>2
      <3>3. Len(content') = Len(Tail(content))
        BY <1>2, <2>2, <2>3, <3>1
      <3> QED
        BY <2>3, <3>1, <3>2, <3>3, SeqEqual
    <2>7. Abstract!Steal(h)
      BY <1>1, <1>3, <2>1, <2>4, <2>5, <2>6 DEF Abstract!Steal, Abstract!Hand
    <2> QED
      BY <2>7
  <1>4. CASE top # ht[h]
    <2>1. top' = top
      BY <1>1, <1>4
    <2>2. content' = content
      BY <1>1, <1>2, <2>1, ContentSame
    <2>3. Abstract!StealNothing(h)
      BY <1>1, <1>4, <2>2 DEF Abstract!StealNothing, Nothing
    <2> QED
      BY <2>3
  <1> QED
    BY <1>3, <1>4

(* Every step of the deque is a step of TaskDeque, or none. *)
LEMMA DequeStep ==
    IInv /\ IInv' /\ HasSlots /\ [Next]_vars => [Abstract!Next]_(Abstract!vars)
  <1> SUFFICES ASSUME IInv, IInv', HasSlots, [Next]_vars
               PROVE  Abstract!Next \/ UNCHANGED Abstract!vars
    OBVIOUS
  <1>1. ASSUME UNCHANGED <<top, log, own, opc, ob, result>> PROVE UNCHANGED Abstract!vars
    <2>1. End' = End
      BY <1>1 DEF End
    <2>2. content' = content
      BY <1>1, <2>1, ContentSame
    <2> QED
      BY <1>1, <2>2 DEF Abstract!vars
  <1>2. CASE UNCHANGED vars
    BY <1>1, <1>2 DEF vars, mem, owner
  <1>3. CASE Drain
    BY <1>1, <1>3 DEF Drain
  <1>4. ASSUME NEW t \in Tasks, Push(t) PROVE Abstract!Next
    BY <1>4, PushPushes DEF Abstract!Next
  <1>5. ASSUME NEW t \in Tasks, PushRefused(t) PROVE UNCHANGED Abstract!vars
    BY <1>1, <1>5 DEF PushRefused, mem, owner
  <1>6. CASE TakeStart
    BY <1>6, TakeStartMisses, TakeStartKeepsContent DEF Abstract!Next
  <1>7. CASE TakeFence
    <2>1. opc = "fence" /\ opc' = "load" /\ UNCHANGED <<top, log, own, ob, result>>
      BY <1>7 DEF TakeFence, mem
    <2>2. End' = End
      BY <2>1 DEF End
    <2>3. content' = content
      BY <2>1, <2>2, ContentSame
    <2> QED
      BY <2>1, <2>3 DEF Abstract!vars
  <1>8. CASE TakeLoad
    <2>1. top < ob \/ top = ob \/ top > ob
      BY DEF IInv, TypeOK
    <2> QED
      BY <1>8, <2>1, TakeLoadTakesYoungest, TakeLoadKeepsContent, TakeLoadMisses
         DEF Abstract!Next
  <1>9. CASE TakeCas
    BY <1>9, TakeCasDecides DEF Abstract!Next
  <1>10. ASSUME NEW h \in Thieves, StealStep(h)
         PROVE  Abstract!Next \/ UNCHANGED Abstract!vars
    <2>1. CASE StealTop(h)
      BY <1>1, <2>1 DEF StealTop, mem, owner
    <2>2. CASE StealBottom(h)
      <3>1. UNCHANGED <<top, log, own, opc, ob>>
        BY <2>2 DEF StealBottom, mem, owner
      <3>2. End' = End
        BY <3>1 DEF End
      <3>3. content' = content
        BY <3>1, <3>2, ContentSame
      <3>4. result' = result \/ result' = [result EXCEPT ![h] = Nothing]
        BY <2>2 DEF StealBottom, Returns
      <3> QED
        BY <3>3, <3>4 DEF Abstract!vars, Abstract!Next, Abstract!StealNothing, Nothing
    <2>3. CASE StealFn(h)
      BY <1>1, <2>3 DEF StealFn, mem, owner
    <2>4. CASE StealArg(h)
      BY <1>1, <2>4 DEF StealArg, mem, owner
    <2>5. CASE StealCas(h)
      BY <2>5, StealCasDecides DEF Abstract!Next
    <2> QED
      BY <1>10, <2>1, <2>2, <2>3, <2>4, <2>5 DEF StealStep
  <1> QED
    BY <1>2, <1>3, <1>4, <1>5, <1>6, <1>7, <1>8, <1>9, <1>10 DEF Next, OwnerStep

(* The deque of thread_pool.c is the sequential TaskDeque, for any number of  *)
(* slots and thieves and any delay of the owner's stores: every task is       *)
(* handed over once and whole, the oldest to thieves and the youngest to the  *)
(* owner, whose take fails only on an empty deque (pool_deque_push,           *)
(* pool_deque_take, pool_deque_steal).                                        *)
THEOREM DequeImplementsDeque == HasSlots => (Spec => ImplementsDeque)
  <1> SUFFICES ASSUME HasSlots PROVE Spec => ImplementsDeque
    OBVIOUS
  <1>1. IInv /\ IInv' /\ [Next]_vars => [Abstract!Next]_(Abstract!vars)
    BY DequeStep
  <1>2. Spec => []IInv
    BY DequeInvariant
  <1> QED
    BY <1>1, <1>2, DequeInit, PTL DEF Spec, ImplementsDeque, Abstract!Spec

=============================================================================
