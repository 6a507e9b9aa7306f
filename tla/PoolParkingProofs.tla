-------------------------- MODULE PoolParkingProofs --------------------------
(***************************************************************************)
(* Proofs about PoolParking, for any number of cores and submitters and    *)
(* any store buffers: the counts a waker reads are exact, a core that was  *)
(* claimed is woken, and tasks are left to sleeping cores only if someone  *)
(* saw nobody parked before its own task was in memory.                    *)
(***************************************************************************)
EXTENDS PoolParking, FiniteSetTheorems, SequenceTheorems, TLAPS

(* The constants. *)
LEMMA Constants ==
    /\ Cores \cap Submitters = {} /\ NoCore \notin Cores /\ IsFiniteSet(Cores) /\ Cores # {}
    /\ Batch \in Nat /\ Batch > 0
    /\ Starts \subseteq [cores : [Cores -> {"look", "spin", "run", "sleep"}],
                          sends : Nat, spawns : Nat]
  BY ParkingAssumption

-----------------------------------------------------------------------------
(* The inductive invariant, in parts. *)

Announced == {"retest", "retest_hit", "sleep", "unpark"}
Spinning == {"spin", "spin_hit"}

(* Where a thread can be in waking; in the buffer, a core's flag going up and a *)
(* submitter's publication.                                                      *)
Wakings == {"none", "parked", "spinning", "fence", "fila", "one", "scan", "signal"}
Marked == [to |-> "parked", v |-> TRUE]
Sent == [to |-> "ring", v |-> TRUE]

(* A submitter's buffer holds the publication of its last task, if anything; no *)
(* core publishes in the ring.                                                   *)
BuffersKnown ==
    /\ \A p \in Submitters : buf[p] \in {<<>>, <<Sent>>}
    /\ \A c \in Cores : \A i \in DOMAIN buf[c] : buf[c][i].to # "ring"

(* A core that counted itself as parked has its flag in memory; before, the flag *)
(* is the last thing it stored.  A core wakes others only from within a task.     *)
CoreKnown(c) ==
    /\ pc[c] \in {"retest", "retest_hit", "sleep"} => Flushed(c)
    /\ pc[c] = "announce" /\ ~Flushed(c) => buf[c][Len(buf[c])] = Marked
    /\ ~Free(c) => pc[c] = "run"

(* A core that has begun to look elsewhere, or sleeps, has nothing of its own. *)
OwnEmpty(c) == dq[c] = 0 /\ kept[c] = 0 /\ \A i \in DOMAIN buf[c] : buf[c][i].to # "deque"
OwnKnown(c) ==
    /\ Looking(c) /\ left[c] # Places(c) => OwnEmpty(c)
    /\ pc[c] = "sleep" => OwnEmpty(c) /\ ~lifo[c]

(* A flag that is down although its core put it up was claimed: the signal is there *)
(* or on its way.                                                                    *)
Called(c) == signal[c] \/ \E x \in Threads : target[x] = c
ClaimKnown(c) ==
    pc[c] \in {"announce", "retest", "sleep"} /\ Flushed(c) => parked[c] \/ Called(c)

TargetsKnown == \A x \in Threads : target[x] # NoCore => kpc[x] = "signal"

(* The ring's claimed cells are published or about to be, by as many submitters. *)
Sending == {p \in Submitters : buf[p] # <<>>}
RingKnown == IsFiniteSet(Sending) /\ claimed = ring + Cardinality(Sending)

(* Who has not published yet has its look at the parked cores before it. *)
Answering ==
    ~late => \A p \in Sending : kpc[p] \in {"parked", "spinning", "fence", "one"}

(* A core that will look at the ring before it sleeps: it has not announced itself, *)
(* or its test is before it and no rival spoils it, or it is called.                 *)
Alert(c) ==
    \/ pc[c] \notin {"retest", "sleep"}
    \/ pc[c] = "retest" /\ Shard \in left[c] \ raced[c]
    \/ Called(c)

(* A submitter that will look at all cores, or see one that counts itself as awake. *)
Seeking(p) ==
    \/ kpc[p] \in {"parked", "spinning", "fence", "one", "scan"}
    \/ kpc[p] = "fila" /\ g[p] = 0

Watched == ring > 0 /\ ~late => (\E c \in Cores : Alert(c)) \/ \E p \in Submitters : Seeking(p)

CoresKnown == \A c \in Cores : CoreKnown(c) /\ OwnKnown(c) /\ ClaimKnown(c)

IInv ==
    /\ TypeOK /\ CountsExact /\ BuffersKnown /\ CoresKnown
    /\ TargetsKnown /\ RingKnown /\ Answering /\ Watched

-----------------------------------------------------------------------------
(* Facts about counts, sequences and buffers. *)

(* The shard is no core, and every core looks there. *)
LEMMA ShardIn == \A c \in Cores : Shard \in Places(c) /\ Shard \notin Cores /\ Places(c) # {}
  BY Constants DEF Shard, Places

(* Sets that differ in one element at most differ by it in their counts. *)
LEMMA CountMoves ==
    ASSUME NEW S, IsFiniteSet(S), NEW c \in S, NEW A \in SUBSET S, NEW B \in SUBSET S,
           A \ {c} = B \ {c}
    PROVE  /\ Cardinality(A) \in Nat /\ Cardinality(B) \in Nat
           /\ Cardinality(B) = Cardinality(A) + (IF c \in B THEN 1 ELSE 0)
                               - (IF c \in A THEN 1 ELSE 0)
  <1> DEFINE R == A \ {c}
  <1>1. IsFiniteSet(A) /\ IsFiniteSet(B) /\ IsFiniteSet(R)
    BY FS_Subset, R \subseteq S
  <1>2. Cardinality(R \cup {c}) = Cardinality(R) + 1
    BY <1>1, FS_AddElement
  <1>3. A = IF c \in A THEN R \cup {c} ELSE R
    OBVIOUS
  <1>4. B = IF c \in B THEN R \cup {c} ELSE R
    OBVIOUS
  <1>5. Cardinality(A) \in Nat /\ Cardinality(B) \in Nat /\ Cardinality(R) \in Nat
    BY <1>1, FS_CardinalityType
  <1>6. Cardinality(A) = Cardinality(R) + (IF c \in A THEN 1 ELSE 0)
    BY <1>2, <1>3, <1>5
  <1>7. Cardinality(B) = Cardinality(R) + (IF c \in B THEN 1 ELSE 0)
    BY <1>2, <1>4, <1>5
  <1> HIDE DEF R
  <1> QED
    BY <1>5, <1>6, <1>7

(* Counters that follow the core that moves stay exact. *)
LEMMA CountsFollow ==
    ASSUME TypeOK, CountsExact, NEW c \in Cores,
           \A d \in Cores \ {c} : pc'[d] = pc[d],
           n_parked' = n_parked + (IF pc'[c] \in Announced THEN 1 ELSE 0)
                                - (IF pc[c] \in Announced THEN 1 ELSE 0),
           n_girando' = n_girando + (IF pc'[c] \in Spinning THEN 1 ELSE 0)
                                  - (IF pc[c] \in Spinning THEN 1 ELSE 0)
    PROVE  CountsExact' /\ n_parked' \in Nat /\ n_girando' \in Nat
  <1> DEFINE P == {d \in Cores : pc[d] \in Announced}
             Q == {d \in Cores : pc'[d] \in Announced}
             F == {d \in Cores : pc[d] \in Spinning}
             G == {d \in Cores : pc'[d] \in Spinning}
  <1>1. n_parked = Cardinality(P) /\ n_girando = Cardinality(F)
    BY DEF CountsExact, Announced, Spinning
  <1>2. /\ P \in SUBSET Cores /\ Q \in SUBSET Cores /\ P \ {c} = Q \ {c}
        /\ F \in SUBSET Cores /\ G \in SUBSET Cores /\ F \ {c} = G \ {c}
    OBVIOUS
  <1>3. /\ c \in P <=> pc[c] \in Announced
        /\ c \in Q <=> pc'[c] \in Announced
        /\ c \in F <=> pc[c] \in Spinning
        /\ c \in G <=> pc'[c] \in Spinning
    OBVIOUS
  <1> HIDE DEF P, Q, F, G
  <1>4. /\ Cardinality(Q) \in Nat /\ Cardinality(P) \in Nat
        /\ Cardinality(Q) = Cardinality(P) + (IF c \in Q THEN 1 ELSE 0) - (IF c \in P THEN 1 ELSE 0)
    BY <1>2, Constants, CountMoves
  <1>5. /\ Cardinality(G) \in Nat /\ Cardinality(F) \in Nat
        /\ Cardinality(G) = Cardinality(F) + (IF c \in G THEN 1 ELSE 0) - (IF c \in F THEN 1 ELSE 0)
    BY <1>2, Constants, CountMoves
  <1>6. n_parked' = Cardinality(Q) /\ n_girando' = Cardinality(G)
    BY <1>1, <1>3, <1>4, <1>5
  <1> QED
    BY <1>4, <1>5, <1>6 DEF CountsExact, Announced, Spinning, Q, G

(* Counters that nobody touches count what nobody changes. *)
LEMMA CountsStay ==
    ASSUME CountsExact, UNCHANGED <<pc, n_parked, n_girando>>
    PROVE  CountsExact'
  BY DEF CountsExact

(* Some core spins when the counter says so, and none is announced when that is 0. *)
LEMMA CountsTell ==
    ASSUME TypeOK, CountsExact
    PROVE  /\ n_girando > 0 => \E c \in Cores : pc[c] \in Spinning
           /\ n_parked = 0 => \A c \in Cores : pc[c] \notin Announced
  <1> DEFINE P == {c \in Cores : pc[c] \in Announced}
             G == {c \in Cores : pc[c] \in Spinning}
  <1>1. IsFiniteSet(P) /\ IsFiniteSet(G)
    BY Constants, FS_Subset, P \subseteq Cores, G \subseteq Cores
  <1>2. n_parked = Cardinality(P) /\ n_girando = Cardinality(G)
    BY DEF CountsExact, Announced, Spinning
  <1>3. (n_parked = 0 => P = {}) /\ (n_girando > 0 => G # {})
    BY <1>1, <1>2, FS_EmptySet
  <1> QED
    BY <1>3

(* What a core has of its own, told from what it holds. *)
LEMMA OwnTold ==
    ASSUME TypeOK, NEW c \in Cores
    PROVE  ~HasOwn(c) <=> OwnEmpty(c)
  <1> DEFINE D == {i \in DOMAIN buf[c] : buf[c][i].to = "deque"}
  <1>1. buf[c] \in Seq([to : {"ring", "deque", "parked", "signal"}, v : BOOLEAN])
    BY DEF TypeOK, Threads
  <1>2. DOMAIN buf[c] = 1 .. Len(buf[c]) /\ Len(buf[c]) \in Nat
    BY <1>1
  <1>3. IsFiniteSet(D)
    <2>1. D \subseteq 1 .. Len(buf[c]) /\ IsFiniteSet(1 .. Len(buf[c]))
      BY <1>2, FS_Interval
    <2> QED
      BY <2>1, FS_Subset
  <1>4. Cardinality(D) \in Nat /\ (Cardinality(D) = 0 <=> D = {})
    BY <1>3, FS_CardinalityType, FS_EmptySet
  <1>5. Pending(c, "deque") = Cardinality(D)
    BY DEF Pending
  <1>6. dq[c] \in Nat /\ kept[c] \in Nat
    BY Constants DEF TypeOK
  <1>7. D = {} <=> \A i \in DOMAIN buf[c] : buf[c][i].to # "deque"
    OBVIOUS
  <1> HIDE DEF D
  <1> QED
    BY <1>4, <1>5, <1>6, <1>7 DEF HasOwn, OwnDeque, OwnEmpty

(* A submitter that has not published yet has its store among those that wait. *)
LEMMA SendingWaits ==
    ASSUME TypeOK, BuffersKnown, NEW p \in Submitters
    PROVE  Pending(p, "ring") + Pending(p, "deque") > 0 <=> p \in Sending
  <1>1. CASE buf[p] = <<>>
    <2>1. {i \in DOMAIN buf[p] : buf[p][i].to = "ring"} = {}
            /\ {i \in DOMAIN buf[p] : buf[p][i].to = "deque"} = {}
      BY <1>1
    <2> QED
      BY <1>1, <2>1, FS_EmptySet DEF Pending, Sending
  <1>2. CASE buf[p] = <<Sent>>
    <2>1. DOMAIN buf[p] = {1} /\ buf[p][1].to = "ring" /\ buf[p] # <<>>
      BY <1>2 DEF Sent
    <2>2. {i \in DOMAIN buf[p] : buf[p][i].to = "ring"} = {1}
            /\ {i \in DOMAIN buf[p] : buf[p][i].to = "deque"} = {}
      BY <2>1
    <2>3. Pending(p, "ring") = Cardinality({1}) /\ Pending(p, "deque") = Cardinality({})
      BY <2>2 DEF Pending
    <2>4. Pending(p, "ring") = 1 /\ Pending(p, "deque") = 0
      BY <2>3, FS_EmptySet, FS_Singleton
    <2> QED
      BY <2>1, <2>4 DEF Sending
  <1> QED
    BY <1>1, <1>2 DEF BuffersKnown

(* Claimed cells that are not published have their submitter. *)
LEMMA RingTold ==
    ASSUME TypeOK, RingKnown, claimed > ring
    PROVE  Sending # {}
  <1>1. ring \in Nat /\ claimed = ring + Cardinality(Sending)
    BY DEF RingKnown, TypeOK
  <1>2. Sending = {} => Cardinality(Sending) = 0
    BY FS_EmptySet
  <1> QED
    BY <1>1, <1>2

-----------------------------------------------------------------------------
(* It holds when the behaviour begins. *)
LEMMA InitHolds == Init => IInv
  <1> SUFFICES ASSUME Init PROVE IInv
    OBVIOUS
  <1>1. /\ pc \in [Cores -> {"look", "spin", "run", "sleep"}]
        /\ sends \in [Submitters -> Nat] /\ spawns \in Nat
    BY Constants DEF Init
  <1>2. n_parked \in Nat /\ n_girando \in Nat /\ CountsExact
    <2>1. {c \in Cores : pc[c] = "sleep"}
            = {c \in Cores : pc[c] \in {"retest", "retest_hit", "sleep", "unpark"}}
      BY <1>1
    <2>2. {c \in Cores : pc[c] = "spin"} = {c \in Cores : pc[c] \in {"spin", "spin_hit"}}
      BY <1>1
    <2>3. n_parked = Cardinality({c \in Cores : pc[c] = "sleep"})
            /\ n_girando = Cardinality({c \in Cores : pc[c] = "spin"})
      BY DEF Init
    <2>4. IsFiniteSet({c \in Cores : pc[c] = "sleep"}) /\ IsFiniteSet({c \in Cores : pc[c] = "spin"})
      BY Constants, FS_Subset
    <2>5. CountsExact
      BY <2>1, <2>2, <2>3 DEF CountsExact
    <2> QED
      BY <2>3, <2>4, <2>5, FS_CardinalityType
  <1>3. TypeOK
    <2>1. /\ ring \in Nat /\ claimed \in Nat /\ dq \in [Cores -> Nat]
          /\ parked \in [Cores -> BOOLEAN] /\ signal \in [Cores -> BOOLEAN]
      BY DEF Init
    <2>2. buf \in [Threads -> Seq([to : {"ring", "deque", "parked", "signal"}, v : BOOLEAN])]
      BY DEF Init
    <2>3. /\ left \in [Cores -> SUBSET ({Shard} \cup Cores)]
          /\ raced \in [Cores -> SUBSET ({Shard} \cup Cores)]
          /\ \A c \in Cores : left[c] \subseteq Places(c) /\ raced[c] \subseteq left[c]
      BY DEF Init, Places
    <2>4. /\ lifo \in [Cores -> BOOLEAN] /\ kept \in [Cores -> 0 .. Batch - 1]
          /\ timedout \in [Cores -> BOOLEAN]
      BY <1>1, Constants DEF Init
    <2>5. /\ kpc \in [Threads -> Wakings]
          /\ src \in [Threads -> Cores \cup {NoCore}] /\ g \in [Threads -> Nat]
          /\ scan \in [Threads -> SUBSET Cores] /\ target \in [Threads -> Cores \cup {NoCore}]
          /\ late \in BOOLEAN
      BY DEF Init, Wakings
    <2> QED
      BY <1>1, <1>2, <2>1, <2>2, <2>3, <2>4, <2>5 DEF TypeOK, Wakings
  <1>4. Sending = {} /\ BuffersKnown
    BY DEF Init, Sending, BuffersKnown, Threads
  <1>5. \A c \in Cores : CoreKnown(c) /\ OwnKnown(c) /\ ClaimKnown(c)
    <2> TAKE c \in Cores
    <2>1. /\ buf[c] = <<>> /\ kpc[c] = "none" /\ dq[c] = 0 /\ kept[c] = 0 /\ DOMAIN buf[c] = {}
          /\ lifo[c] = (pc[c] = "run") /\ parked[c] = (pc[c] = "sleep")
          /\ pc[c] \in {"look", "spin", "run", "sleep"}
      BY <1>1 DEF Init, Threads
    <2>2. CoreKnown(c) /\ ClaimKnown(c)
      BY <2>1 DEF CoreKnown, ClaimKnown, Flushed, Free
    <2>3. OwnKnown(c)
      BY <2>1 DEF OwnKnown, OwnEmpty
    <2> QED
      BY <2>2, <2>3
  <1>6. RingKnown
    BY <1>4, FS_EmptySet DEF RingKnown, Init
  <1>7. TargetsKnown /\ Answering /\ Watched
    BY <1>4 DEF TargetsKnown, Answering, Watched, Init
  <1> QED
    BY <1>2, <1>3, <1>4, <1>5, <1>6, <1>7 DEF IInv, CoresKnown

-----------------------------------------------------------------------------
(* What the steps of a core leave alone: the other cores but for a task stolen from *)
(* them, the submitters, the flags, and the cells not yet published.                 *)
CoreMoves(c) ==
    /\ \A d \in Cores \ {c} :
        /\ pc'[d] = pc[d] /\ left'[d] = left[d] /\ lifo'[d] = lifo[d] /\ kept'[d] = kept[d]
        /\ buf'[d] = buf[d] /\ kpc'[d] = kpc[d] /\ dq'[d] \in Nat /\ dq'[d] <= dq[d]
    /\ \A p \in Submitters : buf'[p] = buf[p] /\ kpc'[p] = kpc[p]
    /\ claimed' - ring' = claimed - ring
    /\ UNCHANGED <<parked, signal, g, target, late>>

(* A step of a core keeps the invariant if it keeps its part of it, the counts and  *)
(* that somebody is awake.                                                           *)
LEMMA CoreMovesKeep ==
    ASSUME IInv, NEW c \in Cores, CoreMoves(c), TypeOK', CountsExact',
           CoreKnown(c)', OwnKnown(c)', ClaimKnown(c)', Alert(c)' \/ Watched',
           \A i \in DOMAIN buf'[c] : buf'[c][i].to # "ring",
           Free(c) \/ kpc'[c] = kpc[c]
    PROVE  IInv'
  <1>1. BuffersKnown'
    BY DEF IInv, BuffersKnown, CoreMoves
  <1>2. ASSUME NEW d \in Cores \ {c} PROVE CoreKnown(d)' /\ OwnKnown(d)' /\ ClaimKnown(d)'
    <2>1. /\ pc'[d] = pc[d] /\ left'[d] = left[d] /\ lifo'[d] = lifo[d] /\ kept'[d] = kept[d]
          /\ buf'[d] = buf[d] /\ kpc'[d] = kpc[d] /\ dq'[d] \in Nat /\ dq'[d] <= dq[d]
          /\ UNCHANGED <<parked, signal, target>>
      BY DEF CoreMoves
    <2>2. CoreKnown(d) /\ OwnKnown(d) /\ ClaimKnown(d)
      BY DEF IInv, CoresKnown
    <2>3. CoreKnown(d)'
      BY <2>1, <2>2 DEF CoreKnown, Flushed, Free
    <2>4. OwnKnown(d)'
      BY <2>1, <2>2 DEF OwnKnown, OwnEmpty, Looking, Places
    <2>5. ClaimKnown(d)'
      BY <2>1, <2>2 DEF ClaimKnown, Called, Flushed
    <2> QED
      BY <2>3, <2>4, <2>5
  <1>3. TargetsKnown'
    <2>1. ASSUME NEW x \in Threads, target[x] # NoCore PROVE kpc'[x] = "signal"
      <3>1. kpc[x] = "signal"
        BY <2>1 DEF IInv, TargetsKnown
      <3>2. x # c => kpc'[x] = kpc[x]
        BY DEF CoreMoves, Threads
      <3>3. x = c => kpc'[x] = kpc[x]
        BY <3>1 DEF Free
      <3> QED
        BY <3>1, <3>2, <3>3
    <2> QED
      BY <2>1 DEF TargetsKnown, CoreMoves
  <1>4. Sending' = Sending
    BY DEF Sending, CoreMoves
  <1>5. RingKnown'
    <2>1. IsFiniteSet(Sending) /\ claimed = ring + Cardinality(Sending) /\ Cardinality(Sending) \in Nat
      BY FS_CardinalityType DEF IInv, RingKnown
    <2>2. ring \in Nat /\ claimed \in Nat /\ ring' \in Nat /\ claimed' \in Nat
      BY DEF IInv, TypeOK
    <2>3. claimed' - ring' = claimed - ring
      BY DEF CoreMoves
    <2> QED
      BY <1>4, <2>1, <2>2, <2>3 DEF RingKnown
  <1>6. Answering'
    BY <1>4 DEF Answering, Sending, CoreMoves, IInv
  <1>7. Watched'
    BY DEF Watched
  <1>8. CoresKnown'
    BY <1>2 DEF CoresKnown
  <1> QED
    BY <1>1, <1>3, <1>5, <1>6, <1>7, <1>8 DEF IInv

-----------------------------------------------------------------------------
(* The parts of a step of a core. *)

Where == {"look", "look2", "spin", "spin_hit", "chain", "sleep0", "announce",
          "retest", "retest_hit", "sleep", "unpark", "run"}
Stores == [to : {"ring", "deque", "parked", "signal"}, v : BOOLEAN]

(* Starting to look, or going on, moves one core. *)
LEMMA GoesOn ==
    ASSUME TypeOK, NEW c \in Cores, NEW at \in Where, Look(c, at) \/ Goto(c, at)
    PROVE  /\ pc' \in [Cores -> Where] /\ pc'[c] = at /\ \A d \in Cores \ {c} : pc'[d] = pc[d]
           /\ left' \in [Cores -> SUBSET ({Shard} \cup Cores)]
           /\ raced' \in [Cores -> SUBSET ({Shard} \cup Cores)]
           /\ \A d \in Cores : left'[d] \subseteq Places(d) /\ raced'[d] \subseteq left'[d]
           /\ \A d \in Cores \ {c} : left'[d] = left[d]
           /\ Look(c, at) => left'[c] = Places(c) /\ raced'[c] = {}
           /\ Goto(c, at) => left'[c] = left[c] /\ raced'[c] = raced[c]
  <1>1. /\ pc \in [Cores -> Where]
        /\ left \in [Cores -> SUBSET ({Shard} \cup Cores)]
        /\ raced \in [Cores -> SUBSET ({Shard} \cup Cores)]
        /\ \A d \in Cores : left[d] \subseteq Places(d) /\ raced[d] \subseteq left[d]
    BY DEF TypeOK, Where
  <1>2. Places(c) \subseteq {Shard} \cup Cores
    BY DEF Places
  <1>3. pc' = [pc EXCEPT ![c] = at]
    BY DEF Look, Goto
  <1>4. CASE Look(c, at)
    <2>1. left' = [left EXCEPT ![c] = Places(c)] /\ raced' = [raced EXCEPT ![c] = {}]
      BY <1>4 DEF Look
    <2>2. Goto(c, at) => left'[c] = left[c] /\ raced'[c] = raced[c]
      BY DEF Goto
    <2> QED
      BY <1>1, <1>2, <1>3, <2>1, <2>2
  <1>5. CASE Goto(c, at)
    <2>1. left' = left /\ raced' = raced
      BY <1>5 DEF Goto
    <2>2. Look(c, at) => left'[c] = Places(c) /\ raced'[c] = {}
      BY <1>1 DEF Look
    <2> QED
      BY <1>1, <1>3, <2>1, <2>2
  <1> QED
    BY <1>4, <1>5

(* A store waits behind the others of its thread. *)
LEMMA StoreWaits ==
    ASSUME TypeOK, NEW x \in Threads, NEW s \in Stores, Store(x, s)
    PROVE  /\ buf' \in [Threads -> Seq(Stores)]
           /\ \A y \in Threads \ {x} : buf'[y] = buf[y]
           /\ buf'[x] = Append(buf[x], s)
           /\ buf'[x] # <<>> /\ buf'[x][Len(buf'[x])] = s
           /\ \A i \in DOMAIN buf'[x] :
                buf'[x][i] = s \/ (i \in DOMAIN buf[x] /\ buf'[x][i] = buf[x][i])
  <1>1. buf \in [Threads -> Seq(Stores)] /\ buf[x] \in Seq(Stores)
    BY DEF TypeOK, Stores
  <1>2. buf' = [buf EXCEPT ![x] = Append(buf[x], s)]
    BY DEF Store
  <1>3. /\ Append(buf[x], s) \in Seq(Stores)
        /\ Append(buf[x], s) # <<>> /\ Append(buf[x], s)[Len(Append(buf[x], s))] = s
        /\ \A i \in DOMAIN Append(buf[x], s) :
              Append(buf[x], s)[i] = s \/ (i \in DOMAIN buf[x] /\ Append(buf[x], s)[i] = buf[x][i])
    BY <1>1
  <1> QED
    BY <1>1, <1>2, <1>3

(* A find ends the search where it is, and spoils that of others only. *)
LEMMA FindEnds ==
    ASSUME TypeOK, NEW c \in Cores, NEW places \in SUBSET ({Shard} \cup Cores),
           Looking(c), Found(c, places)
    PROVE  /\ pc' \in [Cores -> Where] /\ \A d \in Cores \ {c} : pc'[d] = pc[d]
           /\ pc'[c] \in {"run", "spin_hit", "retest_hit"}
           /\ pc'[c] = "retest_hit" <=> pc[c] = "retest"
           /\ pc'[c] \in Announced <=> pc[c] \in Announced
           /\ pc'[c] \in Spinning <=> pc[c] \in Spinning
           /\ left' \in [Cores -> SUBSET ({Shard} \cup Cores)]
           /\ raced' \in [Cores -> SUBSET ({Shard} \cup Cores)]
           /\ \A d \in Cores : left'[d] \subseteq Places(d) /\ raced'[d] \subseteq left'[d]
           /\ \A d \in Cores \ {c} : left'[d] = left[d]
  <1>1. /\ pc \in [Cores -> Where]
        /\ left \in [Cores -> SUBSET ({Shard} \cup Cores)]
        /\ raced \in [Cores -> SUBSET ({Shard} \cup Cores)]
        /\ \A d \in Cores : left[d] \subseteq Places(d) /\ raced[d] \subseteq left[d]
    BY DEF TypeOK, Where
  <1>2. /\ \A d \in Cores \ {c} : pc'[d] = pc[d]
        /\ pc' \in [Cores -> Where]
        /\ pc'[c] = IF pc[c] = "spin" THEN "spin_hit"
             ELSE IF pc[c] = "retest" THEN "retest_hit" ELSE "run"
    BY <1>1 DEF Found, Where
  <1>3. left' = [left EXCEPT ![c] = {}]
    BY DEF Found
  <1>4. raced' = [d \in Cores |-> IF d = c THEN {} ELSE raced[d] \cup (places \cap left[d])]
    BY DEF Found
  <1>5. pc[c] \in {"look", "look2", "spin", "sleep0", "retest"}
    BY DEF Looking
  <1>6. /\ pc'[c] \in {"run", "spin_hit", "retest_hit"}
        /\ pc'[c] = "retest_hit" <=> pc[c] = "retest"
        /\ pc'[c] \in Announced <=> pc[c] \in Announced
        /\ pc'[c] \in Spinning <=> pc[c] \in Spinning
    BY <1>2, <1>5 DEF Announced, Spinning
  <1>7. /\ left' \in [Cores -> SUBSET ({Shard} \cup Cores)]
        /\ \A d \in Cores \ {c} : left'[d] = left[d]
        /\ left'[c] = {}
    BY <1>1, <1>3
  <1>8. \A d \in Cores : raced'[d] = IF d = c THEN {} ELSE raced[d] \cup (places \cap left[d])
    BY <1>4
  <1>9. raced' \in [Cores -> SUBSET ({Shard} \cup Cores)]
    BY <1>1, <1>4
  <1>10. \A d \in Cores : left'[d] \subseteq Places(d) /\ raced'[d] \subseteq left'[d]
    BY <1>1, <1>7, <1>8
  <1> QED
    BY <1>2, <1>6, <1>7, <1>9, <1>10

-----------------------------------------------------------------------------
(* The steps of a core that leave the queues, the flags and the wakers alone. *)

(* What such a step still has to show. *)
LEMMA LocalStepKeeps ==
    ASSUME IInv, NEW c \in Cores, NEW at \in Where, NEW s \in Stores, s.to # "ring",
           UNCHANGED Local, Look(c, at) \/ Goto(c, at), UNCHANGED buf \/ Store(c, s),
           timedout' \in [Cores -> BOOLEAN],
           n_parked' = n_parked + (IF at \in Announced THEN 1 ELSE 0)
                                - (IF pc[c] \in Announced THEN 1 ELSE 0),
           n_girando' = n_girando + (IF at \in Spinning THEN 1 ELSE 0)
                                  - (IF pc[c] \in Spinning THEN 1 ELSE 0),
           CoreKnown(c)', OwnKnown(c)', ClaimKnown(c)', Alert(c)' \/ Watched'
    PROVE  IInv'
  <1>1. TypeOK /\ CountsExact
    BY DEF IInv
  <1>2. /\ pc' \in [Cores -> Where] /\ pc'[c] = at /\ \A d \in Cores \ {c} : pc'[d] = pc[d]
        /\ left' \in [Cores -> SUBSET ({Shard} \cup Cores)]
        /\ raced' \in [Cores -> SUBSET ({Shard} \cup Cores)]
        /\ \A d \in Cores : left'[d] \subseteq Places(d) /\ raced'[d] \subseteq left'[d]
        /\ \A d \in Cores \ {c} : left'[d] = left[d]
    BY <1>1, GoesOn
  <1>3. CountsExact' /\ n_parked' \in Nat /\ n_girando' \in Nat
    BY <1>1, <1>2, CountsFollow
  <1>4. c \in Threads
    BY DEF Threads
  <1>5. /\ buf' \in [Threads -> Seq(Stores)] /\ \A y \in Threads \ {c} : buf'[y] = buf[y]
        /\ \A i \in DOMAIN buf'[c] : buf'[c][i] = s \/ (i \in DOMAIN buf[c] /\ buf'[c][i] = buf[c][i])
    <2>1. CASE UNCHANGED buf
      BY <2>1, <1>1 DEF TypeOK, Stores
    <2>2. CASE Store(c, s)
      BY <2>2, <1>1, <1>4, StoreWaits
    <2> QED
      BY <2>1, <2>2
  <1>6. TypeOK'
    BY <1>1, <1>2, <1>3, <1>5 DEF TypeOK, Local, queues, flags, wake, Where, Stores, Places, Shard
  <1>7. \A i \in DOMAIN buf'[c] : buf'[c][i].to # "ring"
    BY <1>5 DEF IInv, BuffersKnown
  <1>8. CoreMoves(c)
    <2>1. UNCHANGED <<claimed, ring, dq, parked, signal, lifo, kept, kpc, g, target, late>>
      BY DEF Local, queues, flags, wake
    <2>2. \A p \in Submitters : p \in Threads \ {c}
      BY Constants DEF Threads
    <2>3. \A d \in Cores \ {c} : d \in Threads \ {c} /\ dq[d] \in Nat
      BY <1>1 DEF Threads, TypeOK
    <2> QED
      BY <1>2, <1>5, <2>1, <2>2, <2>3 DEF CoreMoves
  <1>9. kpc'[c] = kpc[c]
    BY DEF Local, wake
  <1> QED
    BY <1>3, <1>6, <1>7, <1>8, <1>9, CoreMovesKeep

(* Beginning a search: nothing of it has been looked at. *)
LEMMA FreshLook ==
    ASSUME IInv, NEW c \in Cores, NEW at \in {"look", "look2", "spin", "sleep0"},
           Look(c, at), UNCHANGED kpc, Free(c)
    PROVE  CoreKnown(c)' /\ OwnKnown(c)' /\ ClaimKnown(c)' /\ Alert(c)'
  <1>1. pc'[c] = at /\ left'[c] = Places(c)
    BY GoesOn DEF IInv, Where
  <1>2. Places(c)' = Places(c)
    BY DEF Places
  <1> QED
    BY <1>1, <1>2 DEF CoreKnown, OwnKnown, ClaimKnown, Alert, Free

(* A core that goes to where nothing is asked of it. *)
LEMMA GoesOff ==
    ASSUME IInv, NEW c \in Cores, NEW at \in {"run", "chain", "unpark"}, Goto(c, at),
           UNCHANGED kpc, Free(c)
    PROVE  CoreKnown(c)' /\ OwnKnown(c)' /\ ClaimKnown(c)' /\ Alert(c)'
  <1>1. pc'[c] = at
    BY GoesOn DEF IInv, Where
  <1> QED
    BY <1>1 DEF CoreKnown, OwnKnown, ClaimKnown, Alert, Free, Looking

(* Only a core in a task wakes others. *)
LEMMA FreeWhenLooking ==
    ASSUME IInv, NEW c \in Cores, pc[c] # "run"
    PROVE  Free(c)
  BY DEF IInv, CoresKnown, CoreKnown

(* The search of a core begins, goes on or is over. *)
LEMMA SearchKeeps ==
    ASSUME IInv, NEW c \in Cores,
           Finish(c) \/ Prepare(c) \/ SpinBegin(c) \/ SpinAgain(c) \/ SpinEnd(c) \/ Unpark(c)
    PROVE  IInv'
  <1>0. /\ [to |-> "signal", v |-> FALSE] \in Stores /\ [to |-> "parked", v |-> FALSE] \in Stores
        /\ n_parked \in Nat /\ n_girando \in Nat /\ timedout \in [Cores -> BOOLEAN]
    BY DEF Stores, IInv, TypeOK
  <1>1. CASE Finish(c)
    <2>1. /\ Look(c, "look") /\ Free(c) /\ UNCHANGED Local /\ pc[c] = "run"
          /\ UNCHANGED <<n_parked, n_girando, buf, timedout>>
      BY <1>1 DEF Finish, Local
    <2>2. CoreKnown(c)' /\ OwnKnown(c)' /\ ClaimKnown(c)' /\ Alert(c)'
      BY <2>1, FreshLook DEF Local, wake
    <2> QED
      BY <1>0, <2>1, <2>2, LocalStepKeeps DEF Where, Announced, Spinning
  <1>2. CASE Prepare(c)
    <2>1. /\ Look(c, "look2") /\ UNCHANGED Local /\ pc[c] = "look"
          /\ UNCHANGED <<n_parked, n_girando, timedout>>
          /\ Store(c, [to |-> "signal", v |-> FALSE])
      BY <1>2 DEF Prepare, Nothing
    <2>2. CoreKnown(c)' /\ OwnKnown(c)' /\ ClaimKnown(c)' /\ Alert(c)'
      BY <2>1, FreshLook, FreeWhenLooking DEF Local, wake
    <2> QED
      BY <1>0, <2>1, <2>2, LocalStepKeeps DEF Where, Announced, Spinning
  <1>3. CASE SpinBegin(c)
    <2>1. /\ Look(c, "spin") /\ UNCHANGED Local /\ pc[c] = "look2" /\ n_girando' = n_girando + 1
          /\ UNCHANGED <<n_parked, buf, timedout>>
      BY <1>3 DEF SpinBegin, Nothing
    <2>2. CoreKnown(c)' /\ OwnKnown(c)' /\ ClaimKnown(c)' /\ Alert(c)'
      BY <2>1, FreshLook, FreeWhenLooking DEF Local, wake
    <2> QED
      BY <1>0, <2>1, <2>2, LocalStepKeeps DEF Where, Announced, Spinning
  <1>4. CASE SpinAgain(c)
    <2>1. /\ Look(c, pc[c]) /\ UNCHANGED Local /\ pc[c] \in {"spin", "sleep0"}
          /\ UNCHANGED <<n_parked, n_girando, buf, timedout>>
      BY <1>4 DEF SpinAgain, Nothing
    <2>2. CoreKnown(c)' /\ OwnKnown(c)' /\ ClaimKnown(c)' /\ Alert(c)'
      BY <2>1, FreshLook, FreeWhenLooking DEF Local, wake
    <2> QED
      BY <1>0, <2>1, <2>2, LocalStepKeeps DEF Where, Announced, Spinning
  <1>5. CASE SpinEnd(c)
    <2>1. /\ Look(c, "sleep0") /\ UNCHANGED Local /\ pc[c] = "spin" /\ n_girando' = n_girando - 1
          /\ UNCHANGED <<n_parked, buf, timedout>>
      BY <1>5 DEF SpinEnd, Nothing
    <2>2. CoreKnown(c)' /\ OwnKnown(c)' /\ ClaimKnown(c)' /\ Alert(c)'
      BY <2>1, FreshLook, FreeWhenLooking DEF Local, wake
    <2> QED
      BY <1>0, <2>1, <2>2, LocalStepKeeps DEF Where, Announced, Spinning
  <1>6. CASE Unpark(c)
    <2>1. /\ Look(c, "look") /\ UNCHANGED Local /\ pc[c] = "unpark" /\ n_parked' = n_parked - 1
          /\ UNCHANGED <<n_girando, timedout>>
          /\ Store(c, [to |-> "parked", v |-> FALSE])
      BY <1>6 DEF Unpark
    <2>2. CoreKnown(c)' /\ OwnKnown(c)' /\ ClaimKnown(c)' /\ Alert(c)'
      BY <2>1, FreshLook, FreeWhenLooking DEF Local, wake
    <2> QED
      BY <1>0, <2>1, <2>2, LocalStepKeeps DEF Where, Announced, Spinning
  <1> QED
    BY <1>1, <1>2, <1>3, <1>4, <1>5, <1>6

(* A core that leaves the spin, the test or the wait with something to do. *)
LEMMA LeavingKeeps ==
    ASSUME IInv, NEW c \in Cores, SpinHit(c) \/ RetestHit(c) \/ Woken(c) \/ Timeout(c)
    PROVE  IInv'
  <1>0. /\ [to |-> "signal", v |-> FALSE] \in Stores /\ [to |-> "parked", v |-> FALSE] \in Stores
        /\ n_parked \in Nat /\ n_girando \in Nat /\ timedout \in [Cores -> BOOLEAN]
    BY DEF Stores, IInv, TypeOK
  <1>1. CASE SpinHit(c)
    <2>1. PICK at \in {"chain", "run"} : Goto(c, at)
      BY <1>1 DEF SpinHit
    <2>2. /\ UNCHANGED Local /\ pc[c] = "spin_hit" /\ n_girando' = n_girando - 1
          /\ UNCHANGED <<n_parked, buf, timedout>>
      BY <1>1 DEF SpinHit
    <2>3. CoreKnown(c)' /\ OwnKnown(c)' /\ ClaimKnown(c)' /\ Alert(c)'
      BY <2>1, <2>2, GoesOff, FreeWhenLooking DEF Local, wake
    <2> QED
      BY <1>0, <2>1, <2>2, <2>3, LocalStepKeeps DEF Where, Announced, Spinning
  <1>2. CASE RetestHit(c)
    <2>1. /\ Goto(c, "run") /\ UNCHANGED Local /\ pc[c] = "retest_hit" /\ n_parked' = n_parked - 1
          /\ UNCHANGED <<n_girando, timedout>> /\ Store(c, [to |-> "parked", v |-> FALSE])
      BY <1>2 DEF RetestHit
    <2>2. CoreKnown(c)' /\ OwnKnown(c)' /\ ClaimKnown(c)' /\ Alert(c)'
      BY <2>1, GoesOff, FreeWhenLooking DEF Local, wake
    <2> QED
      BY <1>0, <2>1, <2>2, LocalStepKeeps DEF Where, Announced, Spinning
  <1>3. CASE Woken(c) \/ Timeout(c)
    <2>1. /\ Goto(c, "unpark") /\ UNCHANGED Local /\ pc[c] = "sleep"
          /\ UNCHANGED <<n_parked, n_girando>>
          /\ UNCHANGED buf \/ Store(c, [to |-> "signal", v |-> FALSE])
      BY <1>3 DEF Woken, Timeout
    <2>2. timedout' \in [Cores -> BOOLEAN]
      BY <1>0, <1>3 DEF Woken, Timeout
    <2>3. CoreKnown(c)' /\ OwnKnown(c)' /\ ClaimKnown(c)' /\ Alert(c)'
      BY <2>1, GoesOff, FreeWhenLooking DEF Local, wake
    <2> QED
      BY <1>0, <2>1, <2>2, <2>3, LocalStepKeeps DEF Where, Announced, Spinning
  <1> QED
    BY <1>1, <1>2, <1>3

(* The flag goes up: it is the last thing the core stored. *)
LEMMA AnnounceKeeps ==
    ASSUME IInv, NEW c \in Cores, Announce(c)
    PROVE  IInv'
  <1>1. /\ UNCHANGED Local /\ pc[c] \in {"look2", "sleep0"} /\ Goto(c, "announce")
        /\ UNCHANGED <<n_parked, n_girando, timedout>> /\ Store(c, Marked)
    BY DEF Announce, Nothing, Marked
  <1>2. Marked \in Stores /\ Marked.to = "parked" /\ c \in Threads
    BY DEF Marked, Stores, Threads
  <1>3. n_parked \in Nat /\ n_girando \in Nat /\ timedout \in [Cores -> BOOLEAN] /\ TypeOK
    BY DEF IInv, TypeOK
  <1>4. pc'[c] = "announce"
    BY <1>1, <1>3, GoesOn DEF Where
  <1>5. buf'[c] # <<>> /\ buf'[c][Len(buf'[c])] = Marked
    BY <1>1, <1>2, <1>3, StoreWaits
  <1>6. Free(c)'
    BY <1>1, FreeWhenLooking DEF Free, Local, wake
  <1>7. CoreKnown(c)' /\ OwnKnown(c)' /\ ClaimKnown(c)' /\ Alert(c)'
    BY <1>4, <1>5, <1>6 DEF CoreKnown, OwnKnown, ClaimKnown, Alert, Flushed, Looking
  <1> QED
    BY <1>1, <1>2, <1>3, <1>7, LocalStepKeeps DEF Where, Announced, Spinning

(* It is in memory when the core counts itself, and the test begins. *)
LEMMA CountKeeps ==
    ASSUME IInv, NEW c \in Cores, AnnounceCount(c)
    PROVE  IInv'
  <1>1. /\ UNCHANGED Local /\ pc[c] = "announce" /\ Flushed(c) /\ Look(c, "retest")
        /\ n_parked' = n_parked + 1 /\ UNCHANGED <<n_girando, timedout, buf>>
    BY DEF AnnounceCount
  <1>2. Marked \in Stores /\ Marked.to = "parked"
    BY DEF Marked, Stores
  <1>3. n_parked \in Nat /\ n_girando \in Nat /\ timedout \in [Cores -> BOOLEAN] /\ TypeOK
    BY DEF IInv, TypeOK
  <1>4. pc'[c] = "retest" /\ left'[c] = Places(c) /\ raced'[c] = {}
    BY <1>1, <1>3, GoesOn DEF Where
  <1>5. Free(c)' /\ Flushed(c)'
    BY <1>1, FreeWhenLooking DEF Free, Local, wake, Flushed
  <1>6. parked'[c] \/ Called(c)'
    BY <1>1 DEF IInv, CoresKnown, ClaimKnown, Called, Local, flags, wake
  <1>7. Shard \in left'[c] \ raced'[c] /\ Places(c)' = Places(c) /\ Shard' = Shard
    BY <1>4, ShardIn DEF Places, Shard
  <1>8. CoreKnown(c)' /\ OwnKnown(c)' /\ ClaimKnown(c)' /\ Alert(c)'
    BY <1>4, <1>5, <1>6, <1>7 DEF CoreKnown, OwnKnown, ClaimKnown, Alert
  <1> QED
    BY <1>1, <1>2, <1>3, <1>8, LocalStepKeeps DEF Where, Announced, Spinning

(* Who watched the ring still does when core c no longer has it before it. *)
LEMMA StillWatched ==
    ASSUME IInv, NEW c \in Cores, Alert(c) => Alert(c)',
           UNCHANGED <<ring, late, signal, target, kpc, g>>,
           \A d \in Cores \ {c} : pc'[d] = pc[d] /\ left'[d] = left[d] /\ raced'[d] = raced[d]
    PROVE  Watched'
  <1> SUFFICES ASSUME ring > 0, ~late
               PROVE  (\E d \in Cores : Alert(d)') \/ \E p \in Submitters : Seeking(p)'
    BY DEF Watched
  <1>1. CASE \E d \in Cores : Alert(d)
    <2>1. PICK d \in Cores : Alert(d)
      BY <1>1
    <2>2. d # c => Alert(d)'
      BY <2>1 DEF Alert, Called, Shard
    <2> QED
      BY <2>1, <2>2
  <1>2. CASE \E p \in Submitters : Seeking(p)
    BY <1>2 DEF Seeking
  <1> QED
    BY <1>1, <1>2 DEF IInv, Watched

(* A core goes to sleep with nothing of its own; if somebody counted on it to look *)
(* at the ring it has been called.                                                  *)
LEMMA SleepKeeps ==
    ASSUME IInv, NEW c \in Cores, Sleep(c)
    PROVE  IInv'
  <1>1. /\ UNCHANGED Local /\ pc[c] = "retest" /\ left[c] = {} /\ ~lifo[c] /\ Goto(c, "sleep")
        /\ UNCHANGED <<n_parked, n_girando, timedout, buf>>
    BY DEF Sleep, Nothing
  <1>2. Marked \in Stores /\ Marked.to = "parked"
    BY DEF Marked, Stores
  <1>3. n_parked \in Nat /\ n_girando \in Nat /\ timedout \in [Cores -> BOOLEAN] /\ TypeOK
    BY DEF IInv, TypeOK
  <1>4. /\ pc'[c] = "sleep" /\ \A d \in Cores \ {c} : pc'[d] = pc[d] /\ left'[d] = left[d]
             /\ raced'[d] = raced[d]
    BY <1>1, <1>3, GoesOn DEF Where, Goto
  <1>5. Free(c)' /\ Flushed(c) /\ Flushed(c)'
    BY <1>1, FreeWhenLooking DEF Free, Local, wake, Flushed, IInv, CoresKnown, CoreKnown
  <1>6. OwnEmpty(c) /\ ~lifo'[c]
    BY <1>1, ShardIn DEF IInv, CoresKnown, OwnKnown, Looking, Local
  <1>7. OwnEmpty(c)'
    BY <1>1, <1>6 DEF OwnEmpty, Local, queues
  <1>8. parked'[c] \/ Called(c)'
    BY <1>1, <1>5 DEF IInv, CoresKnown, ClaimKnown, Called, Local, flags, wake
  <1>9. CoreKnown(c)' /\ OwnKnown(c)' /\ ClaimKnown(c)'
    BY <1>4, <1>5, <1>6, <1>7, <1>8 DEF CoreKnown, OwnKnown, ClaimKnown, Looking
  <1>10. Alert(c) => Alert(c)'
    BY <1>1 DEF Alert, Called, Local, flags, wake
  <1>11. Watched'
    BY <1>1, <1>4, <1>10, StillWatched DEF Local, queues, flags, wake
  <1> QED
    BY <1>1, <1>2, <1>3, <1>9, <1>11, LocalStepKeeps DEF Where, Announced, Spinning

(* A place is passed over.  The ring is passed over in the test when it is empty, or *)
(* when a submitter has yet to publish and so to look for a parked core.              *)
LEMMA MissKeeps ==
    ASSUME IInv, NEW c \in Cores, NEW place \in Places(c), Miss(c, place)
    PROVE  IInv'
  <1>0. TypeOK /\ CountsExact /\ Shard \notin Cores /\ c \in Threads
    BY ShardIn DEF IInv, Threads
  <1>1. /\ Looking(c) /\ ~HasOwn(c) /\ place \in left[c]
        /\ left' = [left EXCEPT ![c] = @ \ {place}] /\ raced' = [raced EXCEPT ![c] = @ \ {place}]
        /\ UNCHANGED <<queues, flags, n_parked, n_girando, buf, pc, timedout, lifo, kept,
                       wake, sends, spawns>>
    BY DEF Miss
  <1>2. UNCHANGED <<claimed, ring, dq, parked, signal, kpc, src, g, scan, target, late>>
    BY <1>1 DEF queues, flags, wake
  <1>3. /\ left \in [Cores -> SUBSET ({Shard} \cup Cores)]
        /\ raced \in [Cores -> SUBSET ({Shard} \cup Cores)]
        /\ \A d \in Cores : left[d] \subseteq Places(d) /\ raced[d] \subseteq left[d]
        /\ dq \in [Cores -> Nat]
    BY <1>0 DEF TypeOK
  <1>4. /\ left'[c] = left[c] \ {place} /\ raced'[c] = raced[c] \ {place}
        /\ \A d \in Cores \ {c} : left'[d] = left[d] /\ raced'[d] = raced[d]
        /\ left' \in [Cores -> SUBSET ({Shard} \cup Cores)]
        /\ raced' \in [Cores -> SUBSET ({Shard} \cup Cores)]
        /\ \A d \in Cores : left'[d] \subseteq Places(d) /\ raced'[d] \subseteq left'[d]
    BY <1>1, <1>3
  <1>5. TypeOK'
    BY <1>0, <1>1, <1>2, <1>4 DEF TypeOK, Places, Shard
  <1>6. CoreMoves(c)
    <2>1. /\ ring \in Nat /\ claimed \in Nat
      BY <1>0 DEF TypeOK
    <2> QED
      BY <1>1, <1>2, <1>3, <1>4, <2>1 DEF CoreMoves
  <1>7. CoreKnown(c)' /\ ClaimKnown(c)'
    BY <1>1, <1>2 DEF IInv, CoresKnown, CoreKnown, ClaimKnown, Flushed, Free, Called
  <1>8. OwnKnown(c)'
    <2>1. OwnEmpty(c)
      BY <1>0, <1>1, OwnTold
    <2>2. OwnEmpty(c)' /\ pc'[c] # "sleep"
      BY <2>1, <1>1, <1>2 DEF OwnEmpty, Looking
    <2> QED
      BY <2>2 DEF OwnKnown
  <1>9. Alert(c)' \/ Watched'
    <2>1. CASE place = Shard /\ Shard \notin raced[c]
      <3>1. ring = 0 \/ claimed > ring
        BY <2>1, <1>0 DEF Miss
      <3>2. CASE ring = 0
        BY <3>2, <1>2 DEF Watched
      <3>3. CASE claimed > ring /\ ~late
        <4>1. PICK p \in Sending : TRUE
          BY <3>3, <1>0, RingTold DEF IInv
        <4>2. kpc[p] \in {"parked", "spinning", "fence", "one"} /\ p \in Submitters
          BY <3>3, <4>1 DEF IInv, Answering, Sending
        <4>3. Seeking(p)'
          BY <4>2, <1>2 DEF Seeking
        <4> QED
          BY <4>2, <4>3 DEF Watched
      <3>4. CASE late
        BY <3>4, <1>2 DEF Watched
      <3> QED
        BY <3>1, <3>2, <3>3, <3>4
    <2>2. CASE ~(place = Shard /\ Shard \notin raced[c])
      <3>1. Alert(c) => Alert(c)'
        BY <2>2, <1>1, <1>2, <1>4 DEF Alert, Called, Shard
      <3> QED
        BY <3>1, <1>1, <1>2, <1>4, StillWatched
    <2> QED
      BY <2>1, <2>2
  <1>10. CountsExact'
    BY <1>0, <1>1, CountsStay
  <1>11. \A i \in DOMAIN buf'[c] : buf'[c][i].to # "ring"
    BY <1>1 DEF IInv, BuffersKnown
  <1> QED
    BY <1>2, <1>5, <1>6, <1>7, <1>8, <1>9, <1>10, <1>11, CoreMovesKeep

-----------------------------------------------------------------------------
(* The steps of a core that move tasks. *)

(* A find keeps the invariant wherever the task came from. *)
LEMMA FoundKeeps ==
    ASSUME IInv, NEW c \in Cores, NEW places \in SUBSET ({Shard} \cup Cores),
           Looking(c), Found(c, places),
           UNCHANGED <<flags, n_parked, n_girando, buf, timedout, wake, sends, spawns>>,
           lifo' \in [Cores -> BOOLEAN], kept' \in [Cores -> 0 .. Batch - 1],
           \A d \in Cores \ {c} : lifo'[d] = lifo[d] /\ kept'[d] = kept[d],
           dq' \in [Cores -> Nat], \A d \in Cores : dq'[d] <= dq[d],
           ring' \in Nat, claimed' \in Nat, claimed' - ring' = claimed - ring
    PROVE  IInv'
  <1>1. TypeOK /\ CountsExact /\ n_parked \in Nat /\ n_girando \in Nat
    BY DEF IInv, TypeOK
  <1>2. /\ pc' \in [Cores -> Where] /\ \A d \in Cores \ {c} : pc'[d] = pc[d]
        /\ pc'[c] \in {"run", "spin_hit", "retest_hit"}
        /\ pc'[c] = "retest_hit" <=> pc[c] = "retest"
        /\ pc'[c] \in Announced <=> pc[c] \in Announced
        /\ pc'[c] \in Spinning <=> pc[c] \in Spinning
        /\ left' \in [Cores -> SUBSET ({Shard} \cup Cores)]
        /\ raced' \in [Cores -> SUBSET ({Shard} \cup Cores)]
        /\ \A d \in Cores : left'[d] \subseteq Places(d) /\ raced'[d] \subseteq left'[d]
        /\ \A d \in Cores \ {c} : left'[d] = left[d]
    BY <1>1, FindEnds
  <1>3. UNCHANGED <<parked, signal, kpc, src, g, scan, target, late>>
    BY DEF flags, wake
  <1>4. CountsExact'
    BY <1>1, <1>2, CountsFollow
  <1>5. TypeOK'
    BY <1>1, <1>2, <1>3 DEF TypeOK, Where, Places, Shard
  <1>6. CoreMoves(c)
    BY <1>2, <1>3 DEF CoreMoves
  <1>7. CoreKnown(c)'
    <2>1. Free(c)'
      BY <1>3, FreeWhenLooking DEF Looking, Free
    <2>2. pc[c] = "retest" => Flushed(c)'
      BY DEF IInv, CoresKnown, CoreKnown, Flushed
    <2> QED
      BY <1>2, <2>1, <2>2 DEF CoreKnown
  <1>8. OwnKnown(c)' /\ ClaimKnown(c)' /\ Alert(c)'
    BY <1>2 DEF OwnKnown, ClaimKnown, Alert, Looking
  <1>9. \A i \in DOMAIN buf'[c] : buf'[c][i].to # "ring"
    BY DEF IInv, BuffersKnown
  <1> QED
    BY <1>3, <1>4, <1>5, <1>6, <1>7, <1>8, <1>9, CoreMovesKeep

(* A task of the core's own, of the ring, or of another core is found. *)
LEMMA TakingKeeps ==
    ASSUME IInv, NEW c \in Cores, TakeOwn(c) \/ Pop(c) \/ \E d \in Places(c) : Steal(c, d)
    PROVE  IInv'
  <1>1. /\ dq \in [Cores -> Nat] /\ lifo \in [Cores -> BOOLEAN] /\ kept \in [Cores -> 0 .. Batch - 1]
        /\ ring \in Nat /\ claimed \in Nat /\ Batch \in Nat
        /\ left[c] \subseteq Places(c)
    BY Constants DEF IInv, TypeOK
  <1>2. CASE TakeOwn(c)
    <2>1. /\ Looking(c)
          /\ UNCHANGED <<claimed, ring, flags, n_parked, n_girando, buf, timedout, wake, sends, spawns>>
      BY <1>2 DEF TakeOwn
    <2>2. PICK places \in SUBSET ({Shard} \cup Cores) : Found(c, places)
      BY <1>2 DEF TakeOwn
    <2>3. /\ UNCHANGED <<flags, n_parked, n_girando, buf, timedout, wake, sends, spawns>>
          /\ ring' \in Nat /\ claimed' \in Nat /\ claimed' - ring' = claimed - ring /\ Looking(c)
      BY <1>1, <2>1
    <2>4. CASE lifo' = [lifo EXCEPT ![c] = FALSE] /\ UNCHANGED <<dq, kept>>
      <3>1. lifo' \in [Cores -> BOOLEAN] /\ \A d \in Cores \ {c} : lifo'[d] = lifo[d]
        BY <1>1, <2>4
      <3>2. /\ kept' \in [Cores -> 0 .. Batch - 1] /\ \A d \in Cores \ {c} : kept'[d] = kept[d]
            /\ dq' \in [Cores -> Nat] /\ \A d \in Cores : dq'[d] <= dq[d]
        BY <1>1, <2>4
      <3> QED
        BY <2>2, <2>3, <3>1, <3>2, FoundKeeps
    <2>5. CASE dq[c] > 0 /\ dq' = [dq EXCEPT ![c] = @ - 1] /\ UNCHANGED <<lifo, kept>>
      <3>1. /\ lifo' \in [Cores -> BOOLEAN] /\ \A d \in Cores \ {c} : lifo'[d] = lifo[d]
            /\ kept' \in [Cores -> 0 .. Batch - 1] /\ \A d \in Cores \ {c} : kept'[d] = kept[d]
        BY <1>1, <2>5
      <3>2. dq' \in [Cores -> Nat] /\ \A d \in Cores : dq'[d] <= dq[d]
        BY <1>1, <2>5
      <3> QED
        BY <2>2, <2>3, <3>1, <3>2, FoundKeeps
    <2>6. CASE kept[c] > 0 /\ kept' = [kept EXCEPT ![c] = @ - 1] /\ UNCHANGED <<lifo, dq>>
      <3>1. /\ lifo' \in [Cores -> BOOLEAN] /\ \A d \in Cores \ {c} : lifo'[d] = lifo[d]
            /\ dq' \in [Cores -> Nat] /\ \A d \in Cores : dq'[d] <= dq[d]
        BY <1>1, <2>6
      <3>2. kept' \in [Cores -> 0 .. Batch - 1] /\ \A d \in Cores \ {c} : kept'[d] = kept[d]
        BY <1>1, <2>6
      <3> QED
        BY <2>2, <2>3, <3>1, <3>2, FoundKeeps
    <2> QED
      BY <1>2, <2>4, <2>5, <2>6 DEF TakeOwn
  <1>3. CASE Pop(c)
    <2>1. /\ Looking(c) /\ Found(c, {Shard})
          /\ UNCHANGED <<dq, flags, n_parked, n_girando, buf, timedout, lifo, wake, sends, spawns>>
      BY <1>3 DEF Pop
    <2>2. PICK k \in 1 .. Batch : /\ k <= ring /\ ring' = ring - k /\ claimed' = claimed - k
                                  /\ kept' = [kept EXCEPT ![c] = k - 1]
      BY <1>3 DEF Pop
    <2>3. ring <= claimed
      <3>1. IsFiniteSet(Sending) /\ claimed = ring + Cardinality(Sending)
        BY DEF IInv, RingKnown
      <3> QED
        BY <1>1, <3>1, FS_CardinalityType
    <2>4. /\ ring' \in Nat /\ claimed' \in Nat /\ claimed' - ring' = claimed - ring
          /\ kept' \in [Cores -> 0 .. Batch - 1]
      BY <1>1, <2>2, <2>3
    <2>5. \A d \in Cores \ {c} : kept'[d] = kept[d] /\ lifo'[d] = lifo[d]
      BY <1>1, <2>1, <2>2
    <2>6. /\ lifo' \in [Cores -> BOOLEAN] /\ dq' \in [Cores -> Nat]
          /\ \A d \in Cores : dq'[d] <= dq[d]
      BY <1>1, <2>1
    <2>7. UNCHANGED <<flags, n_parked, n_girando, buf, timedout, wake, sends, spawns>>
      BY <2>1
    <2> QED
      BY <2>1, <2>4, <2>5, <2>6, <2>7, FoundKeeps
  <1>4. CASE \E d \in Places(c) : Steal(c, d)
    <2>1. PICK d \in Places(c) : Steal(c, d)
      BY <1>4
    <2>2. d \in Cores /\ {d} \in SUBSET ({Shard} \cup Cores)
      BY <1>1, <2>1 DEF Steal, Places
    <2>3. /\ Looking(c) /\ Found(c, {d}) /\ dq[d] > 0 /\ dq' = [dq EXCEPT ![d] = @ - 1]
          /\ UNCHANGED <<claimed, ring, flags, n_parked, n_girando, buf, timedout, lifo, kept,
                         wake, sends, spawns>>
      BY <2>1 DEF Steal
    <2>4. dq' \in [Cores -> Nat] /\ \A e \in Cores : dq'[e] <= dq[e]
      BY <1>1, <2>2, <2>3
    <2>5. /\ UNCHANGED <<flags, n_parked, n_girando, buf, timedout, wake, sends, spawns>>
          /\ lifo' \in [Cores -> BOOLEAN] /\ kept' \in [Cores -> 0 .. Batch - 1]
          /\ \A e \in Cores \ {c} : lifo'[e] = lifo[e] /\ kept'[e] = kept[e]
          /\ ring' \in Nat /\ claimed' \in Nat /\ claimed' - ring' = claimed - ring
      BY <1>1, <2>3
    <2> QED
      BY <2>2, <2>3, <2>4, <2>5, FoundKeeps
  <1> QED
    BY <1>2, <1>3, <1>4

(* The last spinner goes to its task, and may wake another core first. *)
LEMMA ChainKeeps ==
    ASSUME IInv, NEW c \in Cores, Chain(c)
    PROVE  IInv'
  <1>0. TypeOK /\ CountsExact /\ c \in Threads /\ Free(c) /\ n_parked \in Nat /\ n_girando \in Nat
    BY FreeWhenLooking DEF IInv, TypeOK, Threads, Chain
  <1>1. /\ pc[c] = "chain" /\ Goto(c, "run")
        /\ UNCHANGED <<queues, flags, n_parked, n_girando, buf, timedout, lifo, kept, src, g, scan,
                       target, late, sends, spawns>>
        /\ UNCHANGED kpc \/ kpc' = [kpc EXCEPT ![c] = "one"]
    BY DEF Chain, Waking
  <1>2. /\ pc' \in [Cores -> Where] /\ pc'[c] = "run" /\ \A d \in Cores \ {c} : pc'[d] = pc[d]
        /\ left' \in [Cores -> SUBSET ({Shard} \cup Cores)]
        /\ raced' \in [Cores -> SUBSET ({Shard} \cup Cores)]
        /\ \A d \in Cores : left'[d] \subseteq Places(d) /\ raced'[d] \subseteq left'[d]
        /\ \A d \in Cores \ {c} : left'[d] = left[d]
    BY <1>0, <1>1, GoesOn DEF Where
  <1>3. UNCHANGED <<claimed, ring, dq, parked, signal>>
    BY <1>1 DEF queues, flags
  <1>4. /\ kpc' \in [Threads -> Wakings]
        /\ \A x \in Threads \ {c} : kpc'[x] = kpc[x]
    BY <1>0, <1>1 DEF TypeOK, Wakings
  <1>5. CountsExact'
    BY <1>0, <1>1, <1>2, CountsFollow DEF Announced, Spinning
  <1>6. TypeOK'
    BY <1>0, <1>1, <1>2, <1>3, <1>4 DEF TypeOK, Where, Places, Shard
  <1>7. CoreMoves(c)
    <2>1. \A p \in Submitters : p \in Threads \ {c}
      BY Constants DEF Threads
    <2>2. \A d \in Cores \ {c} : d \in Threads \ {c} /\ dq[d] \in Nat
      BY <1>0 DEF Threads, TypeOK
    <2>3. ring \in Nat /\ claimed \in Nat
      BY <1>0 DEF TypeOK
    <2> QED
      BY <1>1, <1>2, <1>3, <1>4, <2>1, <2>2, <2>3 DEF CoreMoves
  <1>8. CoreKnown(c)' /\ OwnKnown(c)' /\ ClaimKnown(c)' /\ Alert(c)'
    BY <1>2 DEF CoreKnown, OwnKnown, ClaimKnown, Alert, Looking
  <1>9. \A i \in DOMAIN buf'[c] : buf'[c][i].to # "ring"
    BY <1>1 DEF IInv, BuffersKnown
  <1> QED
    BY <1>0, <1>5, <1>6, <1>7, <1>8, <1>9, CoreMovesKeep

(* A task spawned by a task takes the slot, and moves the one that held it. *)
LEMMA SpawnKeeps ==
    ASSUME IInv, NEW c \in Cores, Spawn(c)
    PROVE  IInv'
  <1>0. TypeOK /\ CountsExact /\ c \in Threads /\ spawns \in Nat /\ lifo \in [Cores -> BOOLEAN]
    BY DEF IInv, TypeOK, Threads
  <1>1. /\ pc[c] = "run" /\ Free(c) /\ spawns > 0 /\ spawns' = spawns - 1
        /\ lifo' = [lifo EXCEPT ![c] = TRUE]
        /\ UNCHANGED <<queues, flags, n_parked, n_girando, pc, idle, kept, g, scan, target,
                       sends, late>>
        /\ \/ Store(c, [to |-> "deque", v |-> TRUE]) /\ src' = [src EXCEPT ![c] = c]
              /\ kpc' = [kpc EXCEPT ![c] = "parked"]
           \/ UNCHANGED <<buf, src, kpc>>
    BY DEF Spawn, Waking
  <1>2. UNCHANGED <<claimed, ring, dq, parked, signal, left, raced, timedout>>
    BY <1>1 DEF queues, flags, idle
  <1>3. [to |-> "deque", v |-> TRUE] \in Stores
    BY DEF Stores
  <1>4. /\ buf' \in [Threads -> Seq(Stores)] /\ \A y \in Threads \ {c} : buf'[y] = buf[y]
        /\ \A i \in DOMAIN buf'[c] : buf'[c][i] = [to |-> "deque", v |-> TRUE]
                                      \/ (i \in DOMAIN buf[c] /\ buf'[c][i] = buf[c][i])
    <2>1. CASE UNCHANGED buf
      BY <2>1, <1>0 DEF TypeOK, Stores
    <2>2. CASE Store(c, [to |-> "deque", v |-> TRUE])
      BY <2>2, <1>0, <1>3, StoreWaits
    <2> QED
      BY <1>1, <2>1, <2>2
  <1>5. /\ kpc' \in [Threads -> Wakings]
        /\ \A x \in Threads \ {c} : kpc'[x] = kpc[x]
        /\ src' \in [Threads -> Cores \cup {NoCore}]
        /\ lifo' \in [Cores -> BOOLEAN] /\ spawns' \in Nat
        /\ \A d \in Cores \ {c} : lifo'[d] = lifo[d]
    <2>1. /\ kpc \in [Threads -> Wakings]
          /\ src \in [Threads -> Cores \cup {NoCore}]
      BY <1>0 DEF TypeOK, Wakings
    <2>2. /\ kpc' \in [Threads -> Wakings]
          /\ \A x \in Threads \ {c} : kpc'[x] = kpc[x]
      BY <1>0, <1>1, <2>1 DEF Wakings
    <2>3. src' \in [Threads -> Cores \cup {NoCore}]
      BY <1>0, <1>1, <2>1
    <2>4. lifo' \in [Cores -> BOOLEAN] /\ \A d \in Cores \ {c} : lifo'[d] = lifo[d]
      BY <1>0, <1>1
    <2>5. spawns' \in Nat
      BY <1>0, <1>1
    <2> QED
      BY <2>2, <2>3, <2>4, <2>5
  <1>6. CountsExact'
    BY <1>0, <1>1, CountsStay
  <1>7. TypeOK'
    BY <1>0, <1>1, <1>2, <1>4, <1>5 DEF TypeOK, Stores, Places, Shard
  <1>8. CoreMoves(c)
    <2>1. \A p \in Submitters : p \in Threads \ {c}
      BY Constants DEF Threads
    <2>2. \A d \in Cores \ {c} : d \in Threads \ {c} /\ dq[d] \in Nat
      BY <1>0 DEF Threads, TypeOK
    <2>3. ring \in Nat /\ claimed \in Nat
      BY <1>0 DEF TypeOK
    <2> QED
      BY <1>1, <1>2, <1>4, <1>5, <2>1, <2>2, <2>3 DEF CoreMoves
  <1>9. CoreKnown(c)' /\ OwnKnown(c)' /\ ClaimKnown(c)' /\ Alert(c)'
    BY <1>1 DEF CoreKnown, OwnKnown, ClaimKnown, Alert, Looking
  <1>10. \A i \in DOMAIN buf'[c] : buf'[c][i].to # "ring"
    BY <1>4 DEF IInv, BuffersKnown
  <1> QED
    BY <1>1, <1>6, <1>7, <1>8, <1>9, <1>10, CoreMovesKeep

-----------------------------------------------------------------------------
(* Stores reach memory. *)

(* A store of a core does: never while it sleeps, or tests whether to. *)
LEMMA DrainCoreKeeps ==
    ASSUME IInv, NEW c \in Cores, Drain(c)
    PROVE  IInv'
  <1> DEFINE s == Head(buf[c])
  <1>0. TypeOK /\ CountsExact /\ CoreKnown(c) /\ OwnKnown(c) /\ c \in Threads
    BY DEF IInv, CoresKnown, Threads
  <1>1. /\ buf[c] \in Seq(Stores) /\ buf[c] # <<>> /\ buf \in [Threads -> Seq(Stores)]
        /\ dq \in [Cores -> Nat] /\ parked \in [Cores -> BOOLEAN] /\ signal \in [Cores -> BOOLEAN]
    BY <1>0 DEF Drain, TypeOK, Stores
  <1>2. /\ 1 \in DOMAIN buf[c] /\ s = buf[c][1] /\ s \in Stores /\ Tail(buf[c]) \in Seq(Stores)
        /\ \A i \in DOMAIN Tail(buf[c]) : i + 1 \in DOMAIN buf[c] /\ Tail(buf[c])[i] = buf[c][i + 1]
        /\ Tail(buf[c]) # <<>> => Tail(buf[c])[Len(Tail(buf[c]))] = buf[c][Len(buf[c])]
        /\ Tail(buf[c]) = <<>> => s = buf[c][Len(buf[c])]
    <2> DEFINE q == buf[c]
    <2>1. q \in Seq(Stores) /\ q # <<>>
      BY <1>1
    <2> HIDE DEF q
    <2>2. Len(q) \in Nat /\ Len(q) >= 1 /\ DOMAIN q = 1 .. Len(q)
      BY <2>1
    <2>3. Head(q) = q[1] /\ q[1] \in Stores /\ Tail(q) \in Seq(Stores)
      BY <2>1, <2>2
    <2>4. Len(Tail(q)) = Len(q) - 1 /\ \A i \in 1 .. Len(q) - 1 : Tail(q)[i] = q[i + 1]
      BY <2>1, <2>2
    <2>5. DOMAIN Tail(q) = 1 .. Len(q) - 1
      BY <2>3, <2>4
    <2>6. Tail(q) # <<>> => Len(Tail(q)) >= 1
      BY <2>2, <2>3, <2>4
    <2>7. Tail(q) = <<>> => Len(q) = 1
      BY <2>2, <2>4
    <2> QED
      BY <2>2, <2>3, <2>4, <2>5, <2>6, <2>7 DEF q, s
  <1>3. s.to # "ring" /\ s.v \in BOOLEAN
    BY <1>2 DEF IInv, BuffersKnown, Stores
  <1>4. /\ ring' = ring
        /\ dq' = IF s.to = "deque" THEN [dq EXCEPT ![c] = @ + 1] ELSE dq
        /\ parked' = IF s.to = "parked" THEN [parked EXCEPT ![c] = s.v] ELSE parked
        /\ signal' = IF s.to = "signal" THEN [signal EXCEPT ![c] = s.v] ELSE signal
        /\ buf' = [buf EXCEPT ![c] = Tail(@)]
        /\ UNCHANGED <<claimed, n_parked, n_girando, pc, idle, lifo, kept, wake, sends, spawns>>
    BY <1>3 DEF Drain
  <1> HIDE DEF s
  <1>5. /\ buf' \in [Threads -> Seq(Stores)] /\ buf'[c] = Tail(buf[c])
        /\ \A x \in Threads \ {c} : buf'[x] = buf[x]
    BY <1>0, <1>1, <1>2, <1>4
  <1>6. /\ dq' \in [Cores -> Nat] /\ parked' \in [Cores -> BOOLEAN] /\ signal' \in [Cores -> BOOLEAN]
        /\ \A d \in Cores \ {c} : dq'[d] = dq[d] /\ parked'[d] = parked[d] /\ signal'[d] = signal[d]
    <2>1. dq' \in [Cores -> Nat] /\ \A d \in Cores \ {c} : dq'[d] = dq[d]
      BY <1>1, <1>4
    <2>2. parked' \in [Cores -> BOOLEAN] /\ \A d \in Cores \ {c} : parked'[d] = parked[d]
      BY <1>1, <1>3, <1>4
    <2>3. signal' \in [Cores -> BOOLEAN] /\ \A d \in Cores \ {c} : signal'[d] = signal[d]
      BY <1>1, <1>3, <1>4
    <2> QED
      BY <2>1, <2>2, <2>3
  <1>7. UNCHANGED <<left, raced, timedout, kpc, src, g, scan, target, late>>
    BY <1>4 DEF idle, wake
  <1>8. TypeOK'
    BY <1>0, <1>4, <1>5, <1>6, <1>7 DEF TypeOK, Stores, Places, Shard
  <1>9. CountsExact'
    BY <1>0, <1>4, CountsStay
  <1>10. \A p \in Submitters : p \in Threads \ {c}
    BY Constants DEF Threads
  <1>11. \A d \in Cores \ {c} : d \in Threads \ {c}
    BY DEF Threads
  <1>12. BuffersKnown'
    <2>1. BuffersKnown
      BY DEF IInv
    <2>2. \A i \in DOMAIN buf'[c] : buf'[c][i].to # "ring"
      BY <2>1, <1>2, <1>5 DEF BuffersKnown
    <2> QED
      BY <2>1, <2>2, <1>5, <1>10, <1>11 DEF BuffersKnown
  <1>13. pc[c] \notin {"retest", "retest_hit", "sleep"}
    BY <1>0, <1>1 DEF CoreKnown, Flushed
  <1>14. CoreKnown(c)'
    <2>1. pc'[c] = "announce" /\ ~Flushed(c)' => buf'[c][Len(buf'[c])] = Marked
      BY <1>0, <1>1, <1>2, <1>4, <1>5 DEF CoreKnown, Flushed
    <2>2. ~Free(c)' => pc'[c] = "run"
      BY <1>0, <1>4, <1>7 DEF CoreKnown, Free
    <2> QED
      BY <1>4, <1>13, <2>1, <2>2 DEF CoreKnown, Marked
  <1>15. OwnKnown(c)'
    <2>1. ASSUME Looking(c), left[c] # Places(c) PROVE OwnEmpty(c)'
      <3>1. OwnEmpty(c) /\ s.to # "deque"
        BY <1>0, <1>2, <2>1 DEF OwnKnown, OwnEmpty
      <3>2. \A i \in DOMAIN buf'[c] : buf'[c][i].to # "deque"
        BY <3>1, <1>2, <1>5 DEF OwnEmpty
      <3> QED
        BY <3>1, <3>2, <1>4 DEF OwnEmpty
    <2> QED
      BY <2>1, <1>4, <1>7, <1>13 DEF OwnKnown, Looking, Places
  <1>16. ClaimKnown(c)'
    <2>1. ASSUME pc[c] = "announce", Flushed(c)' PROVE parked'[c]
      <3>1. s = Marked
        BY <2>1, <1>0, <1>1, <1>2, <1>5 DEF CoreKnown, Flushed
      <3> QED
        BY <3>1, <1>1, <1>4 DEF Marked
    <2> QED
      BY <2>1, <1>4, <1>13 DEF ClaimKnown
  <1>17. ASSUME NEW d \in Cores \ {c} PROVE CoreKnown(d)' /\ OwnKnown(d)' /\ ClaimKnown(d)'
    <2>1. CoreKnown(d) /\ OwnKnown(d) /\ ClaimKnown(d)
      BY DEF IInv, CoresKnown
    <2>2. /\ UNCHANGED <<pc, left, lifo, kept, kpc, target>> /\ buf'[d] = buf[d]
          /\ dq'[d] = dq[d] /\ parked'[d] = parked[d] /\ signal'[d] = signal[d]
      BY <1>4, <1>5, <1>6, <1>7, <1>11
    <2>3. CoreKnown(d)'
      BY <2>1, <2>2 DEF CoreKnown, Flushed, Free
    <2>4. OwnKnown(d)'
      BY <2>1, <2>2 DEF OwnKnown, OwnEmpty, Looking, Places
    <2>5. ClaimKnown(d)'
      BY <2>1, <2>2 DEF ClaimKnown, Called, Flushed
    <2> QED
      BY <2>3, <2>4, <2>5
  <1>18. TargetsKnown' /\ Watched'
    BY <1>4, <1>7, <1>13 DEF IInv, TargetsKnown, Watched, Alert
  <1>19. Sending' = Sending
    BY <1>5, <1>10 DEF Sending
  <1>20. RingKnown' /\ Answering'
    BY <1>4, <1>7, <1>19 DEF IInv, RingKnown, Answering
  <1> QED
    BY <1>8, <1>9, <1>12, <1>14, <1>15, <1>16, <1>17, <1>18, <1>20 DEF IInv, CoresKnown

(* A submitter's task is published: whoever saw nobody parked is told by late, the *)
(* others have yet to look.                                                          *)
LEMMA DrainSubmitterKeeps ==
    ASSUME IInv, NEW p \in Submitters, Drain(p)
    PROVE  IInv'
  <1>0. TypeOK /\ CountsExact /\ p \in Threads /\ ring \in Nat /\ buf \in [Threads -> Seq(Stores)]
    BY DEF IInv, TypeOK, Threads, Stores
  <1>1. buf[p] = <<Sent>> /\ p \in Sending
    BY DEF IInv, BuffersKnown, Drain, Sending
  <1>2. Head(buf[p]) = Sent /\ Tail(buf[p]) = <<>> /\ Sent.to = "ring"
    BY <1>1 DEF Sent
  <1>3. /\ ring' = ring + 1 /\ buf' = [buf EXCEPT ![p] = <<>>]
        /\ UNCHANGED <<dq, parked, signal, claimed, n_parked, n_girando, pc, idle, lifo, kept,
                       wake, sends, spawns>>
    BY <1>2 DEF Drain
  <1>4. UNCHANGED <<left, raced, timedout, kpc, src, g, scan, target, late>>
    BY <1>3 DEF idle, wake
  <1>5. /\ buf' \in [Threads -> Seq(Stores)] /\ buf'[p] = <<>>
        /\ \A x \in Threads \ {p} : buf'[x] = buf[x]
    BY <1>0, <1>3
  <1>6. TypeOK'
    BY <1>0, <1>3, <1>4, <1>5 DEF TypeOK, Stores, Places, Shard
  <1>7. CountsExact'
    BY <1>0, <1>3, CountsStay
  <1>8. /\ \A c \in Cores : c \in Threads \ {p}
        /\ \A q \in Submitters \ {p} : q \in Threads \ {p}
    BY Constants DEF Threads
  <1>9. BuffersKnown'
    BY <1>5, <1>8 DEF IInv, BuffersKnown
  <1>10. CoresKnown'
    <2>1. ASSUME NEW c \in Cores PROVE CoreKnown(c)' /\ OwnKnown(c)' /\ ClaimKnown(c)'
      <3>1. CoreKnown(c) /\ OwnKnown(c) /\ ClaimKnown(c) /\ buf'[c] = buf[c]
        BY <1>5, <1>8 DEF IInv, CoresKnown
      <3>2. CoreKnown(c)'
        BY <3>1, <1>3, <1>4 DEF CoreKnown, Flushed, Free
      <3>3. OwnKnown(c)'
        BY <3>1, <1>3, <1>4 DEF OwnKnown, OwnEmpty, Looking, Places
      <3>4. ClaimKnown(c)'
        BY <3>1, <1>3, <1>4 DEF ClaimKnown, Called, Flushed
      <3> QED
        BY <3>2, <3>3, <3>4
    <2> QED
      BY <2>1 DEF CoresKnown
  <1>11. Sending' = Sending \ {p}
    BY <1>5, <1>8 DEF Sending
  <1>12. RingKnown'
    <2>1. IsFiniteSet(Sending) /\ claimed = ring + Cardinality(Sending)
      BY DEF IInv, RingKnown
    <2>2. IsFiniteSet(Sending \ {p}) /\ Cardinality(Sending \ {p}) = Cardinality(Sending) - 1
      BY <1>1, <2>1, FS_RemoveElement
    <2>3. Cardinality(Sending) \in Nat
      BY <2>1, FS_CardinalityType
    <2> QED
      BY <1>0, <1>3, <1>11, <2>1, <2>2, <2>3 DEF RingKnown
  <1>13. Answering' /\ TargetsKnown'
    BY <1>4, <1>11 DEF IInv, Answering, TargetsKnown
  <1>14. Watched'
    <2>1. ~late => Seeking(p)'
      BY <1>1, <1>4 DEF IInv, Answering, Seeking
    <2> QED
      BY <2>1, <1>4 DEF Watched
  <1> QED
    BY <1>6, <1>7, <1>9, <1>10, <1>12, <1>13, <1>14 DEF IInv

-----------------------------------------------------------------------------
(* A task is submitted from outside: its publication waits in the buffer, and the *)
(* submitter has its look at the cores before it.                                  *)
LEMMA SubmitKeeps ==
    ASSUME IInv, NEW p \in Submitters, Submit(p)
    PROVE  IInv'
  <1>0. /\ TypeOK /\ CountsExact /\ p \in Threads /\ ring \in Nat /\ claimed \in Nat
        /\ buf \in [Threads -> Seq(Stores)] /\ sends \in [Submitters -> Nat]
    BY DEF IInv, TypeOK, Threads, Stores
  <1>1. /\ Free(p) /\ sends[p] > 0 /\ buf[p] = <<>>
        /\ sends' = [sends EXCEPT ![p] = @ - 1] /\ claimed' = claimed + 1
        /\ Store(p, Sent) /\ src' = [src EXCEPT ![p] = Shard] /\ kpc' = [kpc EXCEPT ![p] = "parked"]
        /\ UNCHANGED <<ring, dq, flags, n_parked, n_girando, pc, idle, lifo, kept, g, scan,
                       target, spawns, late>>
    BY DEF Submit, Flushed, Waking, Sent
  <1>2. UNCHANGED <<left, raced, timedout, parked, signal>>
    BY <1>1 DEF idle, flags
  <1>3. Sent \in Stores /\ Append(<<>>, Sent) = <<Sent>>
    BY DEF Sent, Stores
  <1>4. /\ buf' \in [Threads -> Seq(Stores)] /\ buf'[p] = <<Sent>>
        /\ \A x \in Threads \ {p} : buf'[x] = buf[x]
    BY <1>0, <1>1, <1>3, StoreWaits
  <1>5. /\ kpc' \in [Threads -> Wakings]
        /\ kpc'[p] = "parked" /\ \A x \in Threads \ {p} : kpc'[x] = kpc[x]
        /\ src' \in [Threads -> Cores \cup {NoCore}] /\ sends' \in [Submitters -> Nat]
    <2>1. /\ kpc \in [Threads -> Wakings]
          /\ src \in [Threads -> Cores \cup {NoCore}]
      BY <1>0 DEF TypeOK, Wakings
    <2>2. /\ kpc' \in [Threads -> Wakings]
          /\ kpc'[p] = "parked" /\ \A x \in Threads \ {p} : kpc'[x] = kpc[x]
      BY <1>0, <1>1, <2>1 DEF Wakings
    <2>3. src' \in [Threads -> Cores \cup {NoCore}]
      BY <1>0, <1>1, <2>1 DEF Shard
    <2>4. sends' \in [Submitters -> Nat]
      BY <1>0, <1>1
    <2> QED
      BY <2>2, <2>3, <2>4
  <1>6. TypeOK'
    BY <1>0, <1>1, <1>2, <1>4, <1>5 DEF TypeOK, Stores, Places, Shard
  <1>7. CountsExact'
    BY <1>0, <1>1, CountsStay
  <1>8. /\ \A c \in Cores : c \in Threads \ {p}
        /\ \A q \in Submitters \ {p} : q \in Threads \ {p}
    BY Constants DEF Threads
  <1>9. BuffersKnown'
    BY <1>4, <1>8 DEF IInv, BuffersKnown
  <1>10. CoresKnown'
    <2>1. ASSUME NEW c \in Cores PROVE CoreKnown(c)' /\ OwnKnown(c)' /\ ClaimKnown(c)'
      <3>1. CoreKnown(c) /\ OwnKnown(c) /\ ClaimKnown(c) /\ buf'[c] = buf[c] /\ kpc'[c] = kpc[c]
        BY <1>4, <1>5, <1>8 DEF IInv, CoresKnown
      <3>2. CoreKnown(c)'
        BY <3>1, <1>1 DEF CoreKnown, Flushed, Free
      <3>3. OwnKnown(c)'
        BY <3>1, <1>1, <1>2 DEF OwnKnown, OwnEmpty, Looking, Places
      <3>4. ClaimKnown(c)'
        BY <3>1, <1>1, <1>2 DEF ClaimKnown, Called, Flushed
      <3> QED
        BY <3>2, <3>3, <3>4
    <2> QED
      BY <2>1 DEF CoresKnown
  <1>11. Sending' = Sending \cup {p} /\ p \notin Sending
    <2>1. buf'[p] # <<>> /\ buf[p] = <<>> /\ \A q \in Submitters \ {p} : buf'[q] = buf[q]
      BY <1>1, <1>4, <1>8
    <2> QED
      BY <2>1 DEF Sending
  <1>12. RingKnown'
    <2>1. IsFiniteSet(Sending) /\ claimed = ring + Cardinality(Sending)
      BY DEF IInv, RingKnown
    <2>2. IsFiniteSet(Sending \cup {p}) /\ Cardinality(Sending \cup {p}) = Cardinality(Sending) + 1
      BY <1>11, <2>1, FS_AddElement
    <2>3. Cardinality(Sending) \in Nat
      BY <2>1, FS_CardinalityType
    <2> QED
      BY <1>0, <1>1, <1>11, <2>1, <2>2, <2>3 DEF RingKnown
  <1>13. Answering'
    <2>1. ASSUME NEW q \in Sending \cup {p}, ~late
          PROVE  kpc'[q] \in {"parked", "spinning", "fence", "one"}
      BY <2>1, <1>5, <1>8 DEF IInv, Answering, Sending
    <2> QED
      BY <2>1, <1>1, <1>11 DEF Answering
  <1>14. TargetsKnown'
    <2>1. target[p] = NoCore
      BY <1>0, <1>1 DEF IInv, TargetsKnown, Free
    <2> QED
      BY <2>1, <1>1, <1>5 DEF IInv, TargetsKnown
  <1>15. Watched'
    BY <1>5 DEF Watched, Seeking
  <1> QED
    BY <1>6, <1>7, <1>9, <1>10, <1>12, <1>13, <1>14, <1>15 DEF IInv

-----------------------------------------------------------------------------
(* The steps of a thread that looks for a core to wake. *)

(* What such a step still has to show: the types of what it changes, and the parts *)
(* of the invariant about wakers.                                                   *)
LEMMA WakingKeeps ==
    ASSUME IInv, NEW x \in Threads, ~Free(x), WakeOnly(x), UNCHANGED src,
           kpc' \in [Threads -> Wakings], \A y \in Threads \ {x} : kpc'[y] = kpc[y],
           parked' \in [Cores -> BOOLEAN], signal' \in [Cores -> BOOLEAN], g' \in [Threads -> Nat],
           scan' \in [Threads -> SUBSET Cores], target' \in [Threads -> Cores \cup {NoCore}],
           late' \in BOOLEAN,
           \A c \in Cores : (Called(c) => Called(c)') /\ (parked[c] => parked'[c] \/ Called(c)'),
           TargetsKnown', Answering', Watched'
    PROVE  IInv'
  <1>0. TypeOK /\ CountsExact
    BY DEF IInv
  <1>1. UNCHANGED <<claimed, ring, dq, n_girando, n_parked, buf, pc, left, raced, timedout, lifo,
                    kept, sends, spawns>>
    BY DEF WakeOnly, queues, idle
  <1>2. TypeOK'
    BY <1>0, <1>1 DEF TypeOK, Wakings, Places, Shard
  <1>3. CountsExact'
    BY <1>0, <1>1, CountsStay
  <1>4. BuffersKnown' /\ RingKnown'
    BY <1>1 DEF IInv, BuffersKnown, RingKnown, Sending
  <1>5. CoresKnown'
    <2>1. ASSUME NEW c \in Cores PROVE CoreKnown(c)' /\ OwnKnown(c)' /\ ClaimKnown(c)'
      <3>1. CoreKnown(c) /\ OwnKnown(c) /\ ClaimKnown(c) /\ c \in Threads
        BY DEF IInv, CoresKnown, Threads
      <3>2. CoreKnown(c)'
        BY <3>1, <1>1 DEF CoreKnown, Flushed, Free
      <3>3. OwnKnown(c)'
        BY <3>1, <1>1 DEF OwnKnown, OwnEmpty, Looking, Places
      <3>4. ClaimKnown(c)'
        BY <3>1, <1>1 DEF ClaimKnown, Flushed
      <3> QED
        BY <3>2, <3>3, <3>4
    <2> QED
      BY <2>1 DEF CoresKnown
  <1> QED
    BY <1>2, <1>3, <1>4, <1>5 DEF IInv

(* A core wakes others from within a task: it is awake. *)
LEMMA WakerAwake ==
    ASSUME IInv, NEW x \in Threads, ~Free(x), UNCHANGED pc, x \notin Submitters
    PROVE  Watched'
  <1>1. x \in Cores /\ pc[x] = "run"
    BY DEF IInv, CoresKnown, CoreKnown, Threads
  <1> QED
    BY <1>1 DEF Watched, Alert

(* Who watched the ring still does if waker x does, or was not needed. *)
LEMMA OthersWatch ==
    ASSUME IInv, NEW x \in Threads, UNCHANGED <<ring, late, pc, left, raced>>,
           \A c \in Cores : Called(c) => Called(c)',
           \A y \in Threads \ {x} : kpc'[y] = kpc[y] /\ g'[y] = g[y],
           ~Seeking(x) \/ Seeking(x)'
    PROVE  Watched'
  <1> SUFFICES ASSUME ring > 0, ~late
               PROVE  (\E c \in Cores : Alert(c)') \/ \E p \in Submitters : Seeking(p)'
    BY DEF Watched
  <1>1. ASSUME NEW c \in Cores, Alert(c) PROVE Alert(c)'
    BY <1>1 DEF Alert, Shard
  <1>2. ASSUME NEW p \in Submitters, Seeking(p) PROVE Seeking(p)'
    <2>1. p \in Threads
      BY DEF Threads
    <2> QED
      BY <1>2, <2>1 DEF Seeking
  <1> QED
    BY <1>1, <1>2 DEF IInv, Watched

(* Only threads that have published are past the look at the cores. *)
LEMMA AnswersStay ==
    ASSUME IInv, NEW x \in Threads, UNCHANGED buf, late => late',
           \A y \in Threads \ {x} : kpc'[y] = kpc[y],
           \/ kpc'[x] \in {"parked", "spinning", "fence", "one"}
           \/ Flushed(x)
           \/ kpc[x] \notin {"parked", "spinning", "fence", "one"}
           \/ late' \/ x \notin Sending
    PROVE  Answering'
  <1> SUFFICES ASSUME ~late', NEW p \in Sending
               PROVE  kpc'[p] \in {"parked", "spinning", "fence", "one"}
    BY DEF Answering, Sending
  <1>1. ~late /\ kpc[p] \in {"parked", "spinning", "fence", "one"} /\ p \in Threads
    BY DEF IInv, Answering, Sending, Threads
  <1>2. CASE p = x
    BY <1>1, <1>2 DEF Flushed, Sending
  <1>3. CASE p # x
    BY <1>1, <1>3
  <1> QED
    BY <1>2, <1>3

(* Who is not signalling targets nobody, and others keep their targets. *)
LEMMA TargetsStay ==
    ASSUME IInv, NEW x \in Threads, kpc[x] # "signal", UNCHANGED target,
           \A y \in Threads \ {x} : kpc'[y] = kpc[y]
    PROVE  TargetsKnown'
  BY DEF IInv, TargetsKnown

(* What a thread on its way to a core leaves alone, and what it may write. *)
LEMMA Looks ==
    ASSUME IInv, NEW x \in Threads, NEW to \in Wakings, kpc[x] \notin {"none", "signal"},
           Waking(x, to), WakeOnly(x), UNCHANGED <<flags, src, target>>,
           g' \in [Threads -> Nat], scan' \in [Threads -> SUBSET Cores], late' \in BOOLEAN,
           Answering', Watched'
    PROVE  IInv'
  <1>1. /\ TypeOK /\ kpc \in [Threads -> Wakings] /\ parked \in [Cores -> BOOLEAN]
        /\ signal \in [Cores -> BOOLEAN] /\ target \in [Threads -> Cores \cup {NoCore}]
    BY DEF IInv, TypeOK, Wakings
  <1>2. kpc' \in [Threads -> Wakings] /\ \A y \in Threads \ {x} : kpc'[y] = kpc[y]
    BY <1>1 DEF Waking
  <1>3. TargetsKnown'
    BY <1>2, TargetsStay
  <1>4. parked' = parked /\ signal' = signal /\ target' = target
    BY DEF flags
  <1>5. \A c \in Cores : (Called(c) => Called(c)') /\ (parked[c] => parked'[c] \/ Called(c)')
    BY <1>4 DEF Called
  <1>6. ~Free(x)
    BY DEF Free
  <1> QED
    BY <1>1, <1>2, <1>3, <1>4, <1>5, <1>6, WakingKeeps

(* What holds of the wakers wherever they are. *)
LEMMA WakersTyped ==
    ASSUME IInv, NEW x \in Threads
    PROVE  /\ kpc \in [Threads -> Wakings] /\ g \in [Threads -> Nat]
           /\ scan \in [Threads -> SUBSET Cores]
           /\ target \in [Threads -> Cores \cup {NoCore}] /\ late \in BOOLEAN
           /\ n_parked \in Nat /\ n_girando \in Nat
           /\ parked \in [Cores -> BOOLEAN] /\ signal \in [Cores -> BOOLEAN]
           /\ \A to \in Wakings : Waking(x, to) => kpc'[x] = to
                /\ \A y \in Threads \ {x} : kpc'[y] = kpc[y]
  BY DEF IInv, TypeOK, Wakings, Waking

(* The looks at the counters before and after the fence. *)
LEMMA CounterLooksKeep ==
    ASSUME IInv, NEW x \in Threads, WakeParked(x) \/ WakeSpinning(x) \/ WakeFence(x)
    PROVE  IInv'
  <1>0. /\ kpc \in [Threads -> Wakings] /\ g \in [Threads -> Nat] /\ scan \in [Threads -> SUBSET Cores]
        /\ late \in BOOLEAN /\ n_girando \in Nat
        /\ \A to \in Wakings : Waking(x, to) => kpc'[x] = to
             /\ \A y \in Threads \ {x} : kpc'[y] = kpc[y]
    BY WakersTyped
  <1>1. CASE WakeParked(x) \/ WakeSpinning(x)
    <2>1. PICK to \in {"spinning", "fence", "one"} : Waking(x, to)
      BY <1>1 DEF WakeParked, WakeSpinning
    <2>2. /\ kpc[x] \in {"parked", "spinning"} /\ WakeOnly(x)
          /\ UNCHANGED <<flags, src, g, scan, target, late>>
      BY <1>1 DEF WakeParked, WakeSpinning
    <2>3. kpc'[x] = to /\ \A y \in Threads \ {x} : kpc'[y] = kpc[y]
      BY <1>0, <2>1 DEF Wakings
    <2>4. UNCHANGED <<buf, pc, left, raced, ring, signal, target, late>>
      BY <2>2 DEF WakeOnly, queues, idle, flags
    <2>5. Answering'
      BY <2>3, <2>4, AnswersStay
    <2>6. Watched'
      <3>1. Seeking(x)'
        BY <2>3 DEF Seeking
      <3>2. \A c \in Cores : Called(c) => Called(c)'
        BY <2>4 DEF Called
      <3> QED
        BY <2>2, <2>3, <2>4, <3>1, <3>2, OthersWatch
    <2> QED
      BY <1>0, <2>1, <2>2, <2>5, <2>6, Looks DEF Wakings
  <1>2. CASE WakeFence(x)
    <2>1. /\ kpc[x] = "fence" /\ Flushed(x) /\ Waking(x, "fila") /\ WakeOnly(x)
          /\ g' = [g EXCEPT ![x] = n_girando] /\ UNCHANGED <<flags, src, scan, target, late>>
      BY <1>2 DEF WakeFence
    <2>2. kpc'[x] = "fila" /\ \A y \in Threads \ {x} : kpc'[y] = kpc[y]
      BY <1>0, <2>1 DEF Wakings
    <2>3. UNCHANGED <<buf, pc, left, raced, ring, signal, target, late>>
      BY <2>1 DEF WakeOnly, queues, idle, flags
    <2>4. Answering'
      BY <2>1, <2>2, <2>3, AnswersStay
    <2>5. g' \in [Threads -> Nat] /\ g'[x] = n_girando /\ \A y \in Threads \ {x} : g'[y] = g[y]
      BY <1>0, <2>1
    <2>6. Watched'
      <3>1. CASE n_girando = 0
        <4>1. Seeking(x)'
          BY <2>2, <2>5, <3>1 DEF Seeking
        <4>2. \A c \in Cores : Called(c) => Called(c)'
          BY <2>3 DEF Called
        <4> QED
          BY <2>2, <2>3, <2>5, <4>1, <4>2, OthersWatch
      <3>2. CASE n_girando > 0
        <4>1. \E c \in Cores : pc[c] \in Spinning
          BY <3>2, CountsTell DEF IInv
        <4>2. \E c \in Cores : Alert(c)'
          BY <4>1, <2>3 DEF Alert, Spinning
        <4> QED
          BY <4>2 DEF Watched
      <3> QED
        BY <1>0, <3>1, <3>2
    <2> QED
      BY <1>0, <2>1, <2>4, <2>5, <2>6, Looks DEF Wakings
  <1> QED
    BY <1>1, <1>2

(* The spinners are trusted with the queue, or a core is looked for. *)
LEMMA WakeFilaKeeps ==
    ASSUME IInv, NEW x \in Threads, WakeFila(x)
    PROVE  IInv'
  <1>0. /\ kpc \in [Threads -> Wakings] /\ g \in [Threads -> Nat] /\ scan \in [Threads -> SUBSET Cores]
        /\ late \in BOOLEAN
        /\ \A to \in Wakings : Waking(x, to) => kpc'[x] = to
             /\ \A y \in Threads \ {x} : kpc'[y] = kpc[y]
    BY WakersTyped
  <1>1. PICK to \in {"none", "one"} : Waking(x, to) /\ (g[x] = 0 => to = "one")
    BY <1>0 DEF WakeFila
  <1>2. kpc[x] = "fila" /\ WakeOnly(x) /\ UNCHANGED <<flags, src, g, scan, target, late>>
    BY DEF WakeFila
  <1>3. kpc'[x] = to /\ \A y \in Threads \ {x} : kpc'[y] = kpc[y]
    BY <1>0, <1>1 DEF Wakings
  <1>4. UNCHANGED <<buf, pc, left, raced, ring, signal, target, late>>
    BY <1>2 DEF WakeOnly, queues, idle, flags
  <1>5. Answering'
    BY <1>2, <1>3, <1>4, AnswersStay
  <1>6. Watched'
    <2>1. ~Seeking(x) \/ Seeking(x)'
      BY <1>1, <1>2, <1>3 DEF Seeking
    <2>2. \A c \in Cores : Called(c) => Called(c)'
      BY <1>4 DEF Called
    <2> QED
      BY <1>2, <1>3, <1>4, <2>1, <2>2, OthersWatch
  <1> QED
    BY <1>0, <1>1, <1>2, <1>5, <1>6, Looks DEF Wakings

(* No core is announced, or the scan begins. *)
LEMMA WakeOneKeeps ==
    ASSUME IInv, NEW x \in Threads, WakeOne(x)
    PROVE  IInv'
  <1>0. /\ kpc \in [Threads -> Wakings] /\ g \in [Threads -> Nat] /\ scan \in [Threads -> SUBSET Cores]
        /\ late \in BOOLEAN /\ n_parked \in Nat
        /\ \A to \in Wakings : Waking(x, to) => kpc'[x] = to
             /\ \A y \in Threads \ {x} : kpc'[y] = kpc[y]
    BY WakersTyped
  <1>1. kpc[x] = "one" /\ WakeOnly(x) /\ UNCHANGED <<flags, src, g, target>>
    BY DEF WakeOne
  <1>2. UNCHANGED <<buf, pc, left, raced, ring, signal, target, g>>
    BY <1>1 DEF WakeOnly, queues, idle, flags
  <1>3. CASE n_parked > 0
    <2>1. Flushed(x) /\ Waking(x, "scan") /\ scan' = [scan EXCEPT ![x] = Cores] /\ late' = late
      BY <1>3 DEF WakeOne
    <2>2. kpc'[x] = "scan" /\ \A y \in Threads \ {x} : kpc'[y] = kpc[y]
      BY <1>0, <2>1 DEF Wakings
    <2>3. Answering'
      BY <1>2, <2>1, <2>2, AnswersStay
    <2>4. Watched'
      <3>1. Seeking(x)'
        BY <2>2 DEF Seeking
      <3>2. \A c \in Cores : Called(c) => Called(c)'
        BY <1>2 DEF Called
      <3> QED
        BY <1>2, <2>1, <2>2, <3>1, <3>2, OthersWatch
    <2>5. scan' \in [Threads -> SUBSET Cores]
      BY <1>0, <2>1
    <2> QED
      BY <1>0, <1>1, <2>1, <2>3, <2>4, <2>5, Looks DEF Wakings
  <1>4. CASE n_parked = 0
    <2>1. /\ Waking(x, "none") /\ scan' = scan
          /\ late' = (late \/ Pending(x, "ring") + Pending(x, "deque") > 0)
      BY <1>4 DEF WakeOne
    <2>2. kpc'[x] = "none" /\ \A y \in Threads \ {x} : kpc'[y] = kpc[y]
      BY <1>0, <2>1 DEF Wakings
    <2>3. x \in Sending => late'
      <3>1. x \in Sending => x \in Submitters
        BY DEF Sending
      <3> QED
        BY <2>1, <3>1, SendingWaits DEF IInv
    <2>4. Answering'
      BY <1>2, <2>1, <2>2, <2>3, AnswersStay
    <2>5. Watched'
      <3>1. \A c \in Cores : pc[c] \notin Announced
        BY <1>4, CountsTell DEF IInv
      <3>2. \E c \in Cores : Alert(c)'
        BY <1>2, <3>1, Constants DEF Alert, Announced
      <3> QED
        BY <3>2 DEF Watched
    <2>6. late' \in BOOLEAN
      BY <2>1
    <2> QED
      BY <1>0, <1>1, <2>1, <2>4, <2>5, <2>6, Looks DEF Wakings
  <1> QED
    BY <1>0, <1>3, <1>4

(* A core is claimed and so called; one that is passed over is awake or called. *)
LEMMA WakeScanKeeps ==
    ASSUME IInv, NEW x \in Threads, NEW c \in Cores, WakeScan(x, c)
    PROVE  IInv'
  <1>0. /\ kpc \in [Threads -> Wakings] /\ g \in [Threads -> Nat] /\ scan \in [Threads -> SUBSET Cores]
        /\ target \in [Threads -> Cores \cup {NoCore}] /\ late \in BOOLEAN
        /\ parked \in [Cores -> BOOLEAN] /\ signal \in [Cores -> BOOLEAN]
        /\ \A to \in Wakings : Waking(x, to) => kpc'[x] = to
             /\ \A y \in Threads \ {x} : kpc'[y] = kpc[y]
    BY WakersTyped
  <1>1. kpc[x] = "scan" /\ WakeOnly(x) /\ UNCHANGED <<signal, src, g, late>>
    BY DEF WakeScan
  <1>2. UNCHANGED <<buf, pc, left, raced, ring, signal, g, late>>
    BY <1>1 DEF WakeOnly, queues, idle
  <1>3. CASE parked[c]
    <2>1. /\ parked' = [parked EXCEPT ![c] = FALSE] /\ target' = [target EXCEPT ![x] = c]
          /\ scan' = [scan EXCEPT ![x] = {}] /\ Waking(x, "signal")
      BY <1>3 DEF WakeScan
    <2>2. kpc'[x] = "signal" /\ \A y \in Threads \ {x} : kpc'[y] = kpc[y]
      BY <1>0, <2>1 DEF Wakings
    <2>3. target[x] = NoCore
      BY <1>0, <1>1 DEF IInv, TargetsKnown
    <2>4. target'[x] = c /\ \A y \in Threads \ {x} : target'[y] = target[y]
      BY <1>0, <2>1
    <2>5. /\ kpc' \in [Threads -> Wakings] /\ parked' \in [Cores -> BOOLEAN]
          /\ scan' \in [Threads -> SUBSET Cores] /\ target' \in [Threads -> Cores \cup {NoCore}]
          /\ \A d \in Cores \ {c} : parked'[d] = parked[d]
      <3>1. kpc' \in [Threads -> Wakings]
        BY <1>0, <2>1 DEF Waking, Wakings
      <3>2. parked' \in [Cores -> BOOLEAN] /\ \A d \in Cores \ {c} : parked'[d] = parked[d]
        BY <1>0, <2>1
      <3>3. scan' \in [Threads -> SUBSET Cores] /\ target' \in [Threads -> Cores \cup {NoCore}]
        BY <1>0, <2>1
      <3> QED
        BY <3>1, <3>2, <3>3
    <2>6. Called(c)'
      BY <2>4 DEF Called
    <2>7. \A d \in Cores : Called(d) => Called(d)'
      <3> SUFFICES ASSUME NEW d \in Cores, Called(d) PROVE Called(d)'
        OBVIOUS
      <3>1. CASE signal[d]
        BY <1>2, <3>1 DEF Called
      <3>2. CASE \E y \in Threads : target[y] = d
        <4>1. PICK y \in Threads : target[y] = d
          BY <3>2
        <4>2. y # x
          BY <4>1, <2>3, Constants
        <4> QED
          BY <4>1, <4>2, <2>4 DEF Called
      <3> QED
        BY <3>1, <3>2 DEF Called
    <2>8. TargetsKnown'
      BY <2>2, <2>4 DEF IInv, TargetsKnown
    <2>9. Answering'
      BY <1>1, <1>2, <2>2, AnswersStay
    <2>10. Watched'
      BY <2>6 DEF Watched, Alert
    <2>11. \A d \in Cores : parked[d] => parked'[d] \/ Called(d)'
      BY <2>5, <2>6
    <2>12. ~Free(x)
      BY <1>1 DEF Free
    <2> QED
      BY <1>0, <1>1, <2>2, <2>5, <2>7, <2>8, <2>9, <2>10, <2>11, <2>12, WakingKeeps
  <1>4. CASE ~parked[c]
    <2>1. PICK to \in {"none", "scan"} : Waking(x, to)
      BY <1>4 DEF WakeScan
    <2>2. scan' = [scan EXCEPT ![x] = @ \ {c}] /\ UNCHANGED <<parked, target>>
      BY <1>4 DEF WakeScan
    <2>3. kpc'[x] = to /\ \A y \in Threads \ {x} : kpc'[y] = kpc[y]
      BY <1>0, <2>1 DEF Wakings
    <2>4. Answering'
      BY <1>1, <1>2, <2>3, AnswersStay
    <2>5. Alert(c)'
      <3>1. CASE pc[c] \in {"retest", "sleep"}
        <4>1. Called(c)
          BY <3>1, <1>4 DEF IInv, CoresKnown, CoreKnown, ClaimKnown
        <4> QED
          BY <4>1, <1>2, <2>2 DEF Alert, Called
      <3>2. CASE pc[c] \notin {"retest", "sleep"}
        BY <3>2, <1>2 DEF Alert
      <3> QED
        BY <3>1, <3>2
    <2>6. Watched'
      BY <2>5 DEF Watched
    <2>7. scan' \in [Threads -> SUBSET Cores]
      BY <1>0, <2>2
    <2>8. /\ UNCHANGED <<flags, src, target>> /\ kpc[x] \notin {"none", "signal"}
          /\ g' \in [Threads -> Nat] /\ late' \in BOOLEAN
      BY <1>0, <1>1, <2>2 DEF flags
    <2> QED
      BY <1>1, <2>1, <2>4, <2>6, <2>7, <2>8, Looks DEF Wakings
  <1> QED
    BY <1>3, <1>4

(* The signal is stored: the core is called by it as it was by the waker. *)
LEMMA WakeSignalKeeps ==
    ASSUME IInv, NEW x \in Threads, WakeSignal(x)
    PROVE  IInv'
  <1>0. /\ kpc \in [Threads -> Wakings] /\ g \in [Threads -> Nat] /\ scan \in [Threads -> SUBSET Cores]
        /\ target \in [Threads -> Cores \cup {NoCore}] /\ late \in BOOLEAN
        /\ parked \in [Cores -> BOOLEAN] /\ signal \in [Cores -> BOOLEAN]
        /\ \A to \in Wakings : Waking(x, to) => kpc'[x] = to
             /\ \A y \in Threads \ {x} : kpc'[y] = kpc[y]
    BY WakersTyped
  <1>1. /\ kpc[x] = "signal" /\ signal' = [signal EXCEPT ![target[x]] = TRUE]
        /\ target' = [target EXCEPT ![x] = NoCore] /\ Waking(x, "none")
        /\ WakeOnly(x) /\ UNCHANGED <<parked, src, g, scan, late>>
    BY DEF WakeSignal
  <1>2. UNCHANGED <<buf, pc, left, raced, ring, g, late, parked, scan>>
    BY <1>1 DEF WakeOnly, queues, idle
  <1>3. kpc'[x] = "none" /\ (\A y \in Threads \ {x} : kpc'[y] = kpc[y]) /\ kpc' \in [Threads -> Wakings]
    BY <1>0, <1>1 DEF Wakings, Waking
  <1>4. target'[x] = NoCore /\ \A y \in Threads \ {x} : target'[y] = target[y]
    BY <1>0, <1>1
  <1>5. /\ signal' \in [Cores -> BOOLEAN] /\ target' \in [Threads -> Cores \cup {NoCore}]
        /\ \A d \in Cores : (signal[d] \/ target[x] = d) => signal'[d]
    <2>1. signal' \in [Cores -> BOOLEAN] /\ \A d \in Cores : (signal[d] \/ target[x] = d) => signal'[d]
      BY <1>0, <1>1
    <2>2. target' \in [Threads -> Cores \cup {NoCore}]
      BY <1>0, <1>1
    <2> QED
      BY <2>1, <2>2
  <1>6. \A d \in Cores : Called(d) => Called(d)'
    BY <1>4, <1>5 DEF Called
  <1>7. TargetsKnown'
    BY <1>3, <1>4 DEF IInv, TargetsKnown
  <1>8. Answering'
    BY <1>1, <1>2, <1>3, AnswersStay
  <1>9. Watched'
    BY <1>1, <1>2, <1>3, <1>6, OthersWatch DEF Seeking
  <1>10. ~Free(x)
    BY <1>1 DEF Free
  <1>11. /\ parked' \in [Cores -> BOOLEAN] /\ g' \in [Threads -> Nat]
         /\ scan' \in [Threads -> SUBSET Cores]
         /\ late' \in BOOLEAN /\ UNCHANGED src /\ WakeOnly(x)
         /\ \A d \in Cores : parked[d] => parked'[d]
    BY <1>0, <1>1
  <1> QED
    BY <1>3, <1>5, <1>6, <1>7, <1>8, <1>9, <1>10, <1>11, WakingKeeps

-----------------------------------------------------------------------------
(* Every step keeps the invariant. *)
LEMMA StepHolds == IInv /\ [Next]_vars => IInv'
  <1> SUFFICES ASSUME IInv, [Next]_vars PROVE IInv'
    OBVIOUS
  <1>1. ASSUME NEW x \in Threads, Drain(x) PROVE IInv'
    BY <1>1, DrainCoreKeeps, DrainSubmitterKeeps DEF Threads
  <1>2. ASSUME NEW x \in Threads, WakeStep(x) PROVE IInv'
    BY <1>2, CounterLooksKeep, WakeFilaKeeps, WakeOneKeeps, WakeScanKeeps, WakeSignalKeeps DEF WakeStep
  <1>3. ASSUME NEW p \in Submitters, Submit(p) PROVE IInv'
    BY <1>3, SubmitKeeps
  <1>4. ASSUME NEW c \in Cores, Spawn(c) PROVE IInv'
    BY <1>4, SpawnKeeps
  <1>5. ASSUME NEW c \in Cores, CoreStep(c) \/ Timeout(c) PROVE IInv'
    <2>1. CASE Finish(c) \/ Prepare(c) \/ SpinBegin(c) \/ SpinAgain(c) \/ SpinEnd(c) \/ Unpark(c)
      BY <2>1, SearchKeeps
    <2>2. CASE SpinHit(c) \/ RetestHit(c) \/ Woken(c) \/ Timeout(c)
      BY <2>2, LeavingKeeps
    <2>3. CASE Announce(c) \/ AnnounceCount(c) \/ Sleep(c)
      BY <2>3, AnnounceKeeps, CountKeeps, SleepKeeps
    <2>4. CASE TakeOwn(c) \/ Pop(c) \/ \E d \in Places(c) : Steal(c, d)
      BY <2>4, TakingKeeps
    <2>5. CASE \E d \in Places(c) : Miss(c, d)
      BY <2>5, MissKeeps
    <2>6. CASE Chain(c)
      BY <2>6, ChainKeeps
    <2> QED
      BY <1>5, <2>1, <2>2, <2>3, <2>4, <2>5, <2>6 DEF CoreStep
  <1>6. CASE UNCHANGED vars
    <2>1. /\ UNCHANGED <<claimed, ring, dq, parked, signal, n_parked, n_girando, buf, pc,
                         left, raced, lifo>>
          /\ UNCHANGED <<kept, timedout, kpc, src, g, scan, target, sends, spawns, late>>
      BY <1>6 DEF vars, queues, flags, idle, wake
    <2>2. TypeOK' /\ CountsExact' /\ BuffersKnown' /\ TargetsKnown' /\ RingKnown' /\ Answering'
      BY <2>1 DEF IInv, TypeOK, CountsExact, BuffersKnown, TargetsKnown, RingKnown, Answering, Sending,
                  Places, Shard
    <2>3. CoresKnown'
      BY <2>1 DEF IInv, CoresKnown, CoreKnown, OwnKnown, ClaimKnown, OwnEmpty, Looking, Places, Called,
                  Flushed, Free, Shard
    <2>4. Watched'
      BY <2>1 DEF IInv, Watched, Alert, Seeking, Called, Shard
    <2> QED
      BY <2>2, <2>3, <2>4 DEF IInv
  <1> QED
    BY <1>1, <1>2, <1>3, <1>4, <1>5, <1>6 DEF Next

(* It always holds. *)
LEMMA AlwaysHolds == Spec => []IInv
  BY InitHolds, StepHolds, PTL DEF Spec

-----------------------------------------------------------------------------
(* The results. *)

(* Every field of pool, workers and wakers keeps its type. *)
THEOREM ParkingTypeCorrect == Spec => []TypeOK
  <1>1. IInv => TypeOK
    BY DEF IInv
  <1> QED
    BY AlwaysHolds, <1>1, PTL

(* n_parked_core and n_girando are at every moment the number of cores that have   *)
(* announced themselves and not left, and of those that spin: what pool_wake_submit *)
(* weighs up is never off, however timeouts, wakes and finds interleave.  And a core *)
(* that sleeps with its flag claimed is being woken: no claim is lost.               *)
THEOREM WakersAreNotMisled == Spec => []WakersAreRight
  <1>1. IInv => CountsExact
    BY DEF IInv
  <1>2. IInv => ClaimedCoreIsWoken
    <2> SUFFICES ASSUME IInv, NEW c \in Cores, Asleep(c), ~parked[c]
                 PROVE  \E x \in Threads : target[x] = c
      BY DEF ClaimedCoreIsWoken
    <2>1. CoreKnown(c) /\ ClaimKnown(c) /\ pc[c] = "sleep" /\ ~signal[c]
      BY DEF IInv, CoresKnown, Asleep
    <2>2. Called(c)
      BY <2>1 DEF CoreKnown, ClaimKnown
    <2> QED
      BY <2>1, <2>2 DEF Called
  <1>3. IInv => WakersAreRight
    BY <1>1, <1>2 DEF WakersAreRight
  <1> QED
    BY AlwaysHolds, <1>3, PTL

(* The announcement, the test after it and the look of the submitter leave no task  *)
(* behind: with every core asleep and nobody waking one, nothing is queued anywhere, *)
(* unless some waker saw no core parked before its own task was in memory.           *)
THEOREM NoTaskIsLeftBehind == Spec => []NobodyLeftAsleep
  <1>1. IInv => NobodyLeftAsleep
    <2> SUFFICES ASSUME IInv, ~late, Quiet, \A c \in Cores : Asleep(c)
                 PROVE  ring = 0 /\ \A c \in Cores : ~HasOwn(c) /\ ~lifo[c]
      BY DEF NobodyLeftAsleep
    <2>1. \A x \in Threads : kpc[x] = "none" /\ target[x] = NoCore
      BY WakersTyped DEF IInv, TargetsKnown, Quiet, Free
    <2>2. \A c \in Cores : pc[c] = "sleep" /\ ~signal[c]
      BY DEF Asleep
    <2>3. \A c \in Cores : ~Called(c)
      BY <2>1, <2>2, Constants DEF Called
    <2>4. \A c \in Cores : ~Alert(c)
      BY <2>2, <2>3 DEF Alert
    <2>5. \A p \in Submitters : ~Seeking(p)
      BY <2>1 DEF Seeking, Threads
    <2>6. ~(ring > 0)
      BY <2>4, <2>5 DEF IInv, Watched
    <2>7. ring \in Nat
      BY DEF IInv, TypeOK
    <2>8. \A c \in Cores : ~HasOwn(c) /\ ~lifo[c]
      BY <2>2, OwnTold DEF IInv, CoresKnown, OwnKnown
    <2> QED
      BY <2>6, <2>7, <2>8
  <1> QED
    BY AlwaysHolds, <1>1, PTL
=============================================================================
