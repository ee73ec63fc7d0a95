-------------------------- MODULE RingsQueueProofs --------------------------
(***************************************************************************)
(* The invariant of RingsQueue holds in every reachable state, and         *)
(* RingsQueue implements FifoQueue, for every set of threads, addresses    *)
(* and values and every RING_SIZE.                                         *)
(***************************************************************************)
EXTENDS RingsQueue, TLAPS, SequenceTheorems, FiniteSetTheorems

-----------------------------------------------------------------------------
(* Two indices of a ring less than RING_SIZE apart are different slots.    *)

LEMMA DivMod ==
  ASSUME NEW r \in Nat \ {0}, NEW a \in Nat
  PROVE  a = (r * (a \div r)) + (a % r) /\ a \div r \in Nat
  OBVIOUS

LEMMA ModBounds ==
  ASSUME NEW r \in Nat \ {0}, NEW a \in Nat
  PROVE  a % r \in 0..(r - 1)
  OBVIOUS

LEMMA SlotsApart ==
  ASSUME NEW r \in Nat \ {0}, NEW a \in Nat, NEW b \in Nat, a < b, b - a < r
  PROVE  a % r # b % r
  <1> SUFFICES ASSUME a % r = b % r PROVE FALSE
    OBVIOUS
  <1> DEFINE x == a \div r
  <1> DEFINE y == b \div r
  <1>1. a = (r * x) + (a % r) /\ x \in Nat
    BY DivMod
  <1>2. b = (r * y) + (b % r) /\ y \in Nat
    BY DivMod
  <1>3. b - a = r * y - r * x
    BY <1>1, <1>2
  <1> HIDE DEF x, y
  <1>4. r * y - r * x = r * (y - x)
    BY <1>1, <1>2
  <1>5. CASE y <= x
    BY <1>1, <1>2, <1>3, <1>4, <1>5
  <1>6. CASE y > x
    <2>1. r * (y - x) >= r
      BY <1>1, <1>2, <1>6
    <2> QED BY <2>1, <1>3, <1>4
  <1> QED BY <1>5, <1>6, <1>1, <1>2

-----------------------------------------------------------------------------
(* What Append and Tail do to the positions of chain and queued.           *)

LEMMA AppendPositions ==
  ASSUME NEW S, NEW s \in Seq(S), NEW a \in S
  PROVE  /\ Append(s, a) \in Seq(S)
         /\ Append(s, a) # <<>>
         /\ Len(s) \in Nat
         /\ Len(Append(s, a)) = Len(s) + 1
         /\ \A i \in 1..Len(s) : Append(s, a)[i] = s[i]
         /\ Append(s, a)[Len(s) + 1] = a
  BY AppendProperties, LenProperties

LEMMA TailPositions ==
  ASSUME NEW S, NEW s \in Seq(S), s # <<>>
  PROVE  /\ Tail(s) \in Seq(S)
         /\ Len(s) \in Nat \ {0}
         /\ Len(Tail(s)) = Len(s) - 1
         /\ \A i \in 1..(Len(s) - 1) : Tail(s)[i] = s[i + 1]
         /\ (Tail(s) = <<>> <=> Len(s) = 1)
  <1>1. Tail(s) \in Seq(S) /\ Len(Tail(s)) = Len(s) - 1
    BY HeadTailProperties
  <1>2. Len(s) \in Nat \ {0}
    BY EmptySeq, LenProperties
  <1>3. \A i \in 1..(Len(s) - 1) : Tail(s)[i] = s[i + 1]
    BY <1>1, HeadTailProperties
  <1>4. Tail(s) = <<>> <=> Len(Tail(s)) = 0
    BY <1>1, EmptySeq
  <1> QED BY <1>1, <1>2, <1>3, <1>4

LEMMA NextPosition ==
  ASSUME NEW n \in Nat, NEW i \in 1..n, i # n
  PROVE  i + 1 \in 1..n
  OBVIOUS

LEMMA AboveOne ==
  ASSUME NEW n \in Nat, n > 0, n # 1
  PROVE  n > 1
  OBVIOUS

(* The number of pushes in progress, of which there are finitely many.     *)
LEMMA PushersFinite == IsFiniteSet(Pushers) /\ Cardinality(Pushers) \in Nat
  <1>1. Pushers \subseteq Threads /\ IsFiniteSet(Threads)
    BY RingsQueueAssumption DEF Pushers
  <1> QED BY <1>1, FS_Subset, FS_CardinalityType

LEMMA PushersAdd ==
  ASSUME NEW t \in Threads, t \notin Pushers, Pushers' = Pushers \cup {t}
  PROVE  Cardinality(Pushers)' = Cardinality(Pushers) + 1
  BY PushersFinite, FS_AddElement

LEMMA PushersRemove ==
  ASSUME NEW t \in Threads, t \in Pushers, Pushers' = Pushers \ {t}
  PROVE  Cardinality(Pushers)' = Cardinality(Pushers) - 1
  BY PushersFinite, FS_RemoveElement

(* What the parts of the invariant say together.                           *)
LEMMA ChainFacts ==
  ASSUME TypeOK, ChainInv, LiveInv
  PROVE  /\ Len(chain) \in Nat
         /\ \A i \in 1..Len(chain) : chain[i] \in Addr /\ chain[i] \in live
         /\ chain # <<>> => Len(chain) > 0
         /\ \A t \in Threads : pc[t] # "idle" => open
         /\ open => /\ chain # <<>> /\ head = chain[1] /\ head \in Addr /\ head \in live
                    /\ chain[Len(chain)] \in Addr
  <1>1. chain \in Seq(Addr)
    BY DEF TypeOK
  <1>2. /\ Len(chain) \in Nat
        /\ \A i \in 1..Len(chain) : chain[i] \in Addr
        /\ chain # <<>> => Len(chain) > 0
    BY <1>1, LenProperties, ElementOfSeq, EmptySeq
  <1>3. \A i \in 1..Len(chain) : chain[i] \in live
    BY DEF LiveInv
  <1> QED BY <1>2, <1>3 DEF TypeOK, ChainInv

LEMMA IndexFacts ==
  ASSUME TypeOK
  PROVE  /\ \A a \in Addr : push_idx[a] \in Nat /\ pop_idx[a] \in Nat
         /\ Len(queued) \in Nat
         /\ queued # <<>> <=> Len(queued) > 0
         /\ \A i \in 1..Len(queued) : /\ queued[i] = Slot(queued[i].ring, queued[i].index)
                                      /\ queued[i].ring \in Addr /\ queued[i].index \in Nat
  <1>1. queued \in Seq([ring : Addr, index : Nat])
    BY DEF TypeOK
  <1>2. Len(queued) \in Nat /\ \A i \in 1..Len(queued) : queued[i] \in [ring : Addr, index : Nat]
    BY <1>1, LenProperties, ElementOfSeq
  <1>3. queued # <<>> <=> Len(queued) > 0
    BY <1>1, <1>2, EmptySeq
  <1>4. \A a \in Addr : push_idx[a] \in Nat /\ pop_idx[a] \in Nat
    BY RingsQueueAssumption DEF TypeOK, Indices
  <1> QED BY <1>2, <1>3, <1>4 DEF Slot

(* The thread that holds push_mtx and is not between the stores of l.93    *)
(* and l.94 finds the last ring at queue->tail.                            *)
LEMMA TailFacts ==
  ASSUME IInv, NEW t \in Threads, AtTail(t)
  PROVE  /\ open /\ tail = chain[Len(chain)] /\ tail \in Addr /\ tail \in live
         /\ next[tail] = NULL
  <1>1. open /\ Len(chain) \in Nat /\ Len(chain) > 0
    BY ChainFacts DEF IInv, AtTail
  <1>2. \A u \in Threads : pc[u] # "push_swing"
    BY DEF IInv, AtTail, MutexInv, HasPush
  <1>3. tail = chain[Len(chain)]
    BY <1>1, <1>2 DEF IInv, TailInv
  <1> QED BY <1>1, <1>3, ChainFacts DEF IInv, ChainInv

LEMMA BlankType == /\ Blank \in [item : Item, node : Node, push_idx : Indices]
                   /\ \A a \in Node : [Blank EXCEPT !.node = a] \in [item : Item, node : Node, push_idx : Indices]
                   /\ \A v \in Item : [Blank EXCEPT !.item = v] \in [item : Item, node : Node, push_idx : Indices]
  BY RingsQueueAssumption DEF Blank, Item, Node, Indices

(* Steps that leave the ring buffers alone. *)
LEMMA QueuedSame ==
  ASSUME QueuedInv, UNCHANGED <<head, next, push_idx, pop_idx, live, chain, queued, open>>
  PROVE  QueuedInv'
  BY DEF QueuedInv, Drained

LEMMA CallElsewhere ==
  ASSUME CallInv, NEW t \in Threads, UNCHANGED <<head, tail, next, buffer, push_idx, pop_idx>>,
         \A u \in Threads : u # t => pc'[u] = pc[u] /\ my'[u] = my[u],
         pc'[t] \notin {"push_write", "push_publish", "pop_load_idx", "pop_advance", "pop_read", "pop_take",
                       "empty_load_next"},
         my'[t].item = EMPTY_VALUE
  PROVE  CallInv'
  BY DEF CallInv, Drained

LEMMA InitInv == Init => IInv
  <1> SUFFICES ASSUME Init PROVE IInv
    OBVIOUS
  <1> USE RingsQueueAssumption
  <1>0. PICK a \in Addr : head = a /\ tail = a /\ live = {a} /\ chain = <<a>>
    BY DEF Init
  <1>1. TypeOK
    BY <1>0 DEF Init, TypeOK, Places, Blank, NoItems, Node, Item, Indices
  <1>2. MutexInv
    BY DEF Init, MutexInv, HasPush, HasPop
  <1>3. ChainInv
    BY <1>0 DEF Init, ChainInv
  <1>4. TailInv
    BY <1>0 DEF Init, TailInv
  <1>5. LiveInv
    BY <1>0 DEF Init, LiveInv
  <1>6. IndexInv
    <2>1. Pushers = {}
      BY DEF Init, Pushers
    <2>2. Cardinality(Pushers) = 0
      BY <2>1, FS_EmptySet
    <2> QED BY <1>0, <2>2 DEF Init, IndexInv
  <1>7. CallInv
    BY DEF Init, CallInv, Blank
  <1>8. QueuedInv
    BY <1>0 DEF Init, QueuedInv, Drained
  <1> QED BY <1>1, <1>2, <1>3, <1>4, <1>5, <1>6, <1>7, <1>8 DEF IInv

LEMMA CallPushInv ==
  ASSUME IInv, NEW t \in Threads, NEW v \in Values, CallPush(t, v)
  PROVE  IInv'
  <1> USE RingsQueueAssumption DEF IInv, CallPush, ring, locks, owner, history, From
  <1>0. Cardinality(Pushers)' = Cardinality(Pushers) + 1
    <2>1. t \notin Pushers /\ Pushers' = Pushers \cup {t}
      BY DEF TypeOK, Pushers
    <2> QED BY <2>1, PushersAdd
  <1>1. TypeOK'
    <2>1. v \in Item
      BY DEF Item
    <2>2. [my[t] EXCEPT !.item = v] \in [item : Item, node : Node, push_idx : Indices]
      BY <2>1 DEF TypeOK
    <2>3. my' \in [Threads -> [item : Item, node : Node, push_idx : Indices]]
      BY <2>2 DEF TypeOK
    <2> QED BY <2>3 DEF TypeOK, Places
  <1>2. MutexInv'
    BY DEF TypeOK, MutexInv, HasPush, HasPop
  <1>3. ChainInv'
    BY DEF TypeOK, ChainInv
  <1>4. TailInv'
    BY DEF TypeOK, TailInv, MutexInv, HasPush
  <1>5. LiveInv'
    BY DEF TypeOK, LiveInv
  <1>6. IndexInv'
    <2>1. \A a \in live : push_idx[a] \in Nat /\ push_idx[a] + Cardinality(Pushers) < IndexBound
      BY IndexFacts DEF Room, TypeOK
    <2> QED BY <1>0, <2>1, PushersFinite DEF TypeOK, IndexInv
  <1>7. CallInv'
    BY DEF TypeOK, CallInv, Blank, Drained, MutexInv, HasPush, HasPop
  <1>8. QueuedInv'
    BY QueuedSame
  <1> QED BY <1>1, <1>2, <1>3, <1>4, <1>5, <1>6, <1>7, <1>8

LEMMA LockPushInv ==
  ASSUME IInv, NEW t \in Threads, LockPush(t)
  PROVE  IInv'
  <1> USE RingsQueueAssumption DEF IInv, LockPush, ring, locks, owner, history, From
  <1>0. Pushers' = Pushers
    BY DEF TypeOK, Pushers
  <1>1. TypeOK'
    BY DEF TypeOK, Places
  <1>2. MutexInv'
    BY DEF TypeOK, MutexInv, HasPush, HasPop
  <1>3. ChainInv'
    BY DEF TypeOK, ChainInv
  <1>4. TailInv'
    BY DEF TypeOK, TailInv, MutexInv, HasPush
  <1>5. LiveInv'
    BY DEF TypeOK, LiveInv
  <1>6. IndexInv'
    BY <1>0 DEF TypeOK, IndexInv
  <1>7. CallInv'
    BY DEF TypeOK, CallInv, Blank, Drained, MutexInv, HasPush, HasPop
  <1>8. QueuedInv'
    BY QueuedSame
  <1> QED BY <1>1, <1>2, <1>3, <1>4, <1>5, <1>6, <1>7, <1>8

LEMMA PushLoadInv ==
  ASSUME IInv, NEW t \in Threads, PushLoad(t)
  PROVE  IInv'
  <1> USE RingsQueueAssumption DEF IInv, PushLoad, FindsSlot, ring, locks, owner, history, From
  <1>0. Pushers' = Pushers
    BY DEF TypeOK, Pushers
  <1>1. TypeOK'
    BY DEF TypeOK, Places
  <1>2. MutexInv'
    BY DEF TypeOK, MutexInv, HasPush, HasPop
  <1>3. ChainInv'
    BY DEF TypeOK, ChainInv
  <1>4. TailInv'
    BY DEF TypeOK, TailInv, MutexInv, HasPush
  <1>5. LiveInv'
    BY DEF TypeOK, LiveInv
  <1>6. IndexInv'
    BY <1>0 DEF TypeOK, IndexInv
  <1>7. CallInv'
    <2>1. pc'[t] = "push_write" => push_idx[tail] - pop_idx[tail] < RING_SIZE
      BY DEF TypeOK
    <2>2. pc'[t] \in {"push_write", "push_new"} /\ pc[t] = "push_load"
      BY DEF TypeOK
    <2>3. \A u \in Threads : u # t => pc'[u] = pc[u]
      BY DEF TypeOK
    <2> QED BY <2>1, <2>2, <2>3 DEF CallInv, Drained
  <1>8. QueuedInv'
    BY QueuedSame
  <1> QED BY <1>1, <1>2, <1>3, <1>4, <1>5, <1>6, <1>7, <1>8

LEMMA PushWriteInv ==
  ASSUME IInv, NEW t \in Threads, PushWrite(t)
  PROVE  IInv'
  <1> USE RingsQueueAssumption DEF IInv, PushWrite, ring, locks, owner, history, From
  <1>0. Pushers' = Pushers
    BY DEF TypeOK, Pushers
  <1>1. TypeOK'
    <2>1. my[t].item \in Item /\ tail \in Addr
      BY TailFacts DEF TypeOK, AtTail
    <2>2. buffer' \in [Addr -> [Slots -> Item]]
      BY <2>1 DEF TypeOK
    <2> QED BY <2>2, BlankType DEF TypeOK, Places
  <1>2. MutexInv'
    BY DEF TypeOK, MutexInv, HasPush, HasPop
  <1>3. ChainInv'
    BY DEF TypeOK, ChainInv
  <1>4. TailInv'
    BY DEF TypeOK, TailInv, MutexInv, HasPush
  <1>5. LiveInv'
    BY DEF TypeOK, LiveInv
  <1>6. IndexInv'
    BY <1>0 DEF TypeOK, IndexInv
  <1>7. CallInv'
    <2>1. \A u \in Threads : pc[u] = "pop_take" =>
            buffer'[head][pop_idx[head] % RING_SIZE] = buffer[head][pop_idx[head] % RING_SIZE]
      <3> SUFFICES ASSUME NEW u \in Threads, pc[u] = "pop_take", head = tail
                   PROVE  buffer'[head][pop_idx[head] % RING_SIZE] = buffer[head][pop_idx[head] % RING_SIZE]
        BY TailFacts DEF AtTail, TypeOK
      <3>1. pop_idx[head] < push_idx[tail] /\ push_idx[tail] - pop_idx[head] < RING_SIZE
        BY DEF CallInv
      <3>2. tail \in Addr /\ push_idx[tail] \in Nat /\ pop_idx[head] \in Nat
        BY TailFacts, IndexFacts DEF AtTail
      <3>3. pop_idx[head] % RING_SIZE # push_idx[tail] % RING_SIZE
        BY <3>1, <3>2, SlotsApart
      <3>4. pop_idx[head] % RING_SIZE \in Slots
        BY <3>2, ModBounds DEF Slots
      <3> QED BY <3>2, <3>3, <3>4 DEF TypeOK
    <2> QED BY <2>1 DEF TypeOK, CallInv, Blank, Drained
  <1>8. QueuedInv'
    BY QueuedSame
  <1> QED BY <1>1, <1>2, <1>3, <1>4, <1>5, <1>6, <1>7, <1>8

LEMMA PushPublishInv ==
  ASSUME IInv, NEW t \in Threads, PushPublish(t)
  PROVE  IInv'
  <1> USE RingsQueueAssumption DEF IInv, PushPublish, ring, locks, owner, history, From
  <1>a. /\ open /\ tail = chain[Len(chain)] /\ tail \in Addr /\ tail \in live /\ next[tail] = NULL
        /\ Len(chain) \in Nat /\ Len(chain) > 0
        /\ push_idx[tail] \in Nat /\ pop_idx[tail] \in Nat
    BY TailFacts, ChainFacts, IndexFacts DEF AtTail
  <1>q. /\ queued' \in Seq([ring : Addr, index : Nat]) /\ queued' # <<>>
        /\ Len(queued) \in Nat /\ Len(queued') = Len(queued) + 1
        /\ \A i \in 1..Len(queued) : queued'[i] = queued[i]
        /\ queued'[Len(queued) + 1] = Slot(tail, push_idx[tail])
    <2>1. queued \in Seq([ring : Addr, index : Nat]) /\ Slot(tail, push_idx[tail]) \in [ring : Addr, index : Nat]
      BY <1>a DEF TypeOK, Slot
    <2> QED BY <2>1, AppendPositions
  <1>0. Cardinality(Pushers)' = Cardinality(Pushers) - 1
    <2>1. t \in Pushers /\ Pushers' = Pushers \ {t}
      BY DEF TypeOK, Pushers
    <2> QED BY <2>1, PushersRemove
  <1>1. TypeOK'
    <2>1. push_idx[tail] + Cardinality(Pushers) <= IndexBound /\ push_idx[tail] + 1 \in Indices
      BY <1>a, PushersFinite DEF IndexInv, Indices
    <2> QED BY <2>1, <1>q DEF TypeOK, Places
  <1>2. MutexInv'
    BY DEF TypeOK, MutexInv, HasPush, HasPop
  <1>3. ChainInv'
    BY DEF TypeOK, ChainInv
  <1>4. TailInv'
    BY DEF TypeOK, TailInv, MutexInv, HasPush
  <1>5. LiveInv'
    BY <1>a DEF TypeOK, LiveInv
  <1>6. IndexInv'
    <2>1. push_idx[tail] - pop_idx[tail] < RING_SIZE
      BY DEF CallInv
    <2>2. \A a \in Addr : push_idx'[a] = IF a = tail THEN push_idx[a] + 1 ELSE push_idx[a]
      BY DEF TypeOK
    <2>3. \A a \in live : push_idx'[a] >= pop_idx[a] /\ push_idx'[a] - pop_idx[a] <= RING_SIZE
      <3> SUFFICES ASSUME NEW a \in live
                   PROVE  push_idx'[a] >= pop_idx[a] /\ push_idx'[a] - pop_idx[a] <= RING_SIZE
        OBVIOUS
      <3>1. a \in Addr /\ push_idx[a] \in Nat /\ pop_idx[a] \in Nat
        BY IndexFacts DEF TypeOK
      <3>2. push_idx[a] >= pop_idx[a] /\ push_idx[a] - pop_idx[a] <= RING_SIZE
        BY DEF IndexInv
      <3>3. CASE a = tail
        BY <3>1, <3>2, <3>3, <2>1, <2>2
      <3>4. CASE a # tail
        BY <3>1, <3>2, <3>4, <2>2
      <3> QED BY <3>3, <3>4
    <2>4. \A i \in 2..Len(chain) : pop_idx[chain[i]] = 0 /\ push_idx'[chain[i]] > 0
      BY <1>a, <2>2, ChainFacts, IndexFacts DEF IndexInv
    <2>5. \A a \in live : push_idx'[a] + Cardinality(Pushers)' <= IndexBound
      <3> SUFFICES ASSUME NEW a \in live
                   PROVE  push_idx'[a] + Cardinality(Pushers)' <= IndexBound
        OBVIOUS
      <3>1. a \in Addr /\ push_idx[a] \in Nat
        BY IndexFacts DEF TypeOK
      <3>2. push_idx[a] + Cardinality(Pushers) <= IndexBound
        BY DEF IndexInv
      <3>3. push_idx'[a] \in {push_idx[a], push_idx[a] + 1}
        BY <3>1, <2>2
      <3> QED BY <3>1, <3>2, <3>3, <1>0, PushersFinite
    <2> QED BY <2>3, <2>4, <2>5 DEF IndexInv
  <1>7. CallInv'
    <2>1. \A a \in Addr : push_idx'[a] = IF a = tail THEN push_idx[a] + 1 ELSE push_idx[a]
      BY DEF TypeOK
    <2>2. \A u \in Threads : pc'[u] \notin {"push_write", "push_publish"}
      BY DEF TypeOK, MutexInv, HasPush
    <2>3. \A u \in Threads : pc[u] = "pop_advance" => head # tail
      BY <1>a DEF CallInv
    <2>4. head \in Addr /\ push_idx[head] \in Nat /\ pop_idx[head] \in Nat
      BY <1>a, ChainFacts, IndexFacts
    <2>5. ASSUME NEW u \in Threads, pc[u] = "empty_load_next"
          PROVE  pop_idx[head] <= my[u].push_idx /\ my[u].push_idx <= push_idx'[head]
      <3>1. pop_idx[head] <= my[u].push_idx /\ my[u].push_idx <= push_idx[head]
        BY <2>5 DEF CallInv
      <3>2. my[u].push_idx \in Nat
        BY DEF TypeOK, Indices
      <3>3. push_idx'[head] \in {push_idx[head], push_idx[head] + 1}
        BY <2>1, <2>4
      <3> QED BY <3>1, <3>2, <3>3, <2>4
    <2> QED BY <2>1, <2>2, <2>3, <2>4, <2>5 DEF TypeOK, CallInv, Drained
  <1>8. QueuedInv'
    <2> DEFINE m == Len(queued)
    <2>0. \A a \in Addr : push_idx'[a] = IF a = tail THEN push_idx[a] + 1 ELSE push_idx[a]
      BY DEF TypeOK
    <2>1. \A i \in 1..(m + 1) : i \in 1..m \/ i = m + 1
      BY <1>q
    <2>f. /\ \A i \in 1..m : /\ queued[i].ring \in Addr /\ queued[i].index \in Nat
                             /\ queued[i] = Slot(queued[i].ring, queued[i].index)
          /\ \A a \in Addr : push_idx[a] \in Nat /\ pop_idx[a] \in Nat
          /\ queued # <<>> <=> m > 0
      BY IndexFacts
    <2>2. ASSUME NEW i \in 1..Len(queued')
          PROVE  /\ queued'[i].ring \in live
                 /\ pop_idx[queued'[i].ring] <= queued'[i].index
                 /\ queued'[i].index < push_idx'[queued'[i].ring]
      <3>1. CASE i \in 1..m
        <4>1. /\ queued'[i] = queued[i] /\ queued[i].ring \in Addr /\ queued[i].index \in Nat
              /\ push_idx[queued[i].ring] \in Nat
          BY <3>1, <1>q, <2>f
        <4>2. /\ queued[i].ring \in live
              /\ pop_idx[queued[i].ring] <= queued[i].index
              /\ queued[i].index < push_idx[queued[i].ring]
          BY <3>1 DEF QueuedInv
        <4>3. queued[i].index < push_idx'[queued[i].ring]
          <5>1. push_idx'[queued[i].ring] \in {push_idx[queued[i].ring], push_idx[queued[i].ring] + 1}
            BY <4>1, <2>0
          <5> QED BY <4>1, <4>2, <5>1
        <4> QED BY <4>1, <4>2, <4>3
      <3>2. CASE i = m + 1
        BY <3>2, <1>a, <1>q, <2>0 DEF Slot, IndexInv
      <3> QED BY <2>1, <3>1, <3>2, <1>q
    <2>3. ASSUME NEW i \in 1..Len(queued'), NEW j \in 1..Len(queued'), queued'[i] = queued'[j]
          PROVE  i = j
      <3>1. \A k \in 1..m : queued[k] # Slot(tail, push_idx[tail])
        BY <2>f, <1>a DEF QueuedInv, Slot
      <3> QED BY <2>1, <2>3, <3>1, <1>q DEF QueuedInv
    <2>4. ASSUME NEW i \in 1..(Len(queued') - 1)
          PROVE  \/ queued'[i + 1] = Slot(queued'[i].ring, queued'[i].index + 1)
                 \/ /\ queued'[i].index + 1 = push_idx'[queued'[i].ring]
                    /\ queued'[i + 1] = Slot(next[queued'[i].ring], 0)
      <3>1. CASE i = m
        <4>1. queued # <<>> /\ queued[m].ring = tail /\ queued[m].index + 1 = push_idx[tail]
          BY <3>1, <1>a, <1>q, <2>f DEF QueuedInv
        <4> QED BY <4>1, <3>1, <1>q
      <3>2. CASE i \in 1..(m - 1)
        <4>1. i \in 1..m /\ i + 1 \in 1..m /\ queued'[i] = queued[i] /\ queued'[i + 1] = queued[i + 1]
          BY <3>2, <1>q
        <4>2. CASE queued[i + 1] = Slot(queued[i].ring, queued[i].index + 1)
          BY <4>1, <4>2
        <4>3. CASE /\ queued[i].index + 1 = push_idx[queued[i].ring]
                   /\ queued[i + 1] = Slot(next[queued[i].ring], 0)
          <5>1. queued[i + 1].ring = next[queued[i].ring] /\ queued[i + 1].ring \in Addr
            BY <4>1, <4>3, <2>f DEF Slot
          <5>2. queued[i].ring # tail
            BY <5>1, <1>a
          <5> QED BY <4>1, <4>3, <5>2, <2>0, <2>f
        <4> QED BY <3>2, <4>2, <4>3 DEF QueuedInv
      <3> QED BY <3>1, <3>2, <1>q
    <2>5. /\ \/ ~Drained(head)' /\ queued'[1] = Slot(head, pop_idx[head])
             \/ Drained(head)' /\ next[head] # NULL /\ queued'[1] = Slot(next[head], 0)
          /\ queued'[Len(queued')].ring = tail
          /\ queued'[Len(queued')].index + 1 = push_idx'[tail]
      <3>0. head \in Addr /\ head \in live
        BY <1>a, ChainFacts
      <3>1. queued'[Len(queued')].ring = tail /\ queued'[Len(queued')].index + 1 = push_idx'[tail]
        BY <1>a, <1>q, <2>0 DEF Slot
      <3>2. CASE queued = <<>>
        <4>1. Drained(head) /\ next[head] = NULL /\ m = 0
          BY <3>2, <1>a, <1>q, <2>f DEF QueuedInv
        <4>2. head = tail
          BY <4>1, <1>a, ChainFacts DEF ChainInv
        <4> QED BY <3>1, <4>1, <4>2, <3>0, <1>a, <1>q, <2>0, <2>f DEF Drained
      <3>3. CASE queued # <<>>
        <4>1. queued'[1] = queued[1]
          BY <3>3, <1>q, <2>f
        <4>2. CASE ~Drained(head) /\ queued[1] = Slot(head, pop_idx[head])
          <5>1. push_idx[head] >= pop_idx[head]
            BY <3>0 DEF IndexInv
          <5> QED BY <3>0, <3>1, <4>1, <4>2, <5>1, <2>0, <2>f DEF Drained
        <4>3. CASE Drained(head) /\ next[head] # NULL /\ queued[1] = Slot(next[head], 0)
          <5>1. head # tail
            BY <4>3, <1>a
          <5> QED BY <3>0, <3>1, <4>1, <4>3, <5>1, <2>0 DEF Drained
        <4> QED BY <3>3, <4>2, <4>3 DEF QueuedInv
      <3> QED BY <3>2, <3>3
    <2>6. /\ chain' = chain /\ head' = head /\ next' = next /\ live' = live /\ open' /\ pop_idx' = pop_idx
          /\ tail = chain[Len(chain)] /\ queued' # <<>>
      BY <1>a, <1>q
    <2> QED BY ONLY <2>2, <2>3, <2>4, <2>5, <2>6 DEF QueuedInv, Drained
  <1> QED BY <1>1, <1>2, <1>3, <1>4, <1>5, <1>6, <1>7, <1>8

LEMMA PushNewInv ==
  ASSUME IInv, NEW t \in Threads, PushNew(t)
  PROVE  IInv'
  <1> USE RingsQueueAssumption DEF IInv
  <1>a. /\ open /\ tail = chain[Len(chain)] /\ tail \in Addr /\ tail \in live /\ next[tail] = NULL
        /\ Len(chain) \in Nat /\ Len(chain) > 0
        /\ push_idx[tail] \in Nat /\ pop_idx[tail] \in Nat
    BY TailFacts, ChainFacts, IndexFacts DEF AtTail, PushNew, From
  <1>n. PICK a \in Addr :
          /\ a \notin live /\ live' = live \cup {a}
          /\ next' = [next EXCEPT ![a] = NULL, ![tail] = a]
          /\ buffer' = [buffer EXCEPT ![a][0] = my[t].item]
          /\ push_idx' = [push_idx EXCEPT ![a] = 1]
          /\ pop_idx' = [pop_idx EXCEPT ![a] = 0]
          /\ my' = [my EXCEPT ![t] = [Blank EXCEPT !.node = a]]
          /\ chain' = Append(chain, a)
          /\ queued' = Append(queued, Slot(a, 0))
    BY DEF PushNew, Malloc
  <1>u. /\ pc[t] = "push_new" /\ pc' = [pc EXCEPT ![t] = "push_swing"]
        /\ head' = head /\ tail' = tail /\ pop_mtx' = pop_mtx /\ push_mtx' = push_mtx
        /\ cursor' = cursor /\ open' = open
    BY DEF PushNew, From, locks, owner
  <1>m. /\ \A b \in Addr : push_idx'[b] = IF b = a THEN 1 ELSE push_idx[b]
        /\ \A b \in Addr : pop_idx'[b] = IF b = a THEN 0 ELSE pop_idx[b]
        /\ \A b \in Addr : next'[b] = IF b = tail THEN a ELSE IF b = a THEN NULL ELSE next[b]
        /\ a # tail
    BY <1>a, <1>n DEF TypeOK
  <1>q. /\ queued' \in Seq([ring : Addr, index : Nat]) /\ queued' # <<>>
        /\ Len(queued) \in Nat /\ Len(queued') = Len(queued) + 1
        /\ \A i \in 1..Len(queued) : queued'[i] = queued[i]
        /\ queued'[Len(queued) + 1] = Slot(a, 0)
    <2>1. queued \in Seq([ring : Addr, index : Nat]) /\ Slot(a, 0) \in [ring : Addr, index : Nat]
      BY <1>u, <1>n DEF TypeOK, Slot
    <2> DEFINE e == Slot(a, 0)
    <2> HIDE DEF e
    <2>2. queued \in Seq([ring : Addr, index : Nat]) /\ e \in [ring : Addr, index : Nat]
          /\ queued' = Append(queued, e)
      BY <2>1, <1>n DEF e
    <2>3. /\ queued' \in Seq([ring : Addr, index : Nat]) /\ queued' # <<>>
          /\ Len(queued) \in Nat /\ Len(queued') = Len(queued) + 1
          /\ \A i \in 1..Len(queued) : queued'[i] = queued[i]
          /\ queued'[Len(queued) + 1] = e
      BY ONLY <2>2, AppendPositions
    <2> QED BY <2>3 DEF e
  <1>c. /\ chain' \in Seq(Addr) /\ chain' # <<>>
        /\ Len(chain') = Len(chain) + 1
        /\ \A i \in 1..Len(chain) : chain'[i] = chain[i] /\ chain[i] \in Addr /\ chain[i] # a
        /\ chain'[Len(chain) + 1] = a
    <2>1. chain \in Seq(Addr) /\ chain' = Append(chain, a) /\ a \in Addr
      BY <1>n DEF TypeOK
    <2>2. /\ chain' \in Seq(Addr) /\ chain' # <<>> /\ Len(chain') = Len(chain) + 1
          /\ \A i \in 1..Len(chain) : chain'[i] = chain[i]
          /\ chain'[Len(chain) + 1] = a
      BY ONLY <2>1, AppendPositions
    <2>3. \A i \in 1..Len(chain) : chain[i] \in Addr /\ chain[i] # a
      BY <1>n, ChainFacts
    <2> QED BY <2>2, <2>3
  <1>f. /\ \A i \in 1..Len(queued) : /\ queued[i].ring \in Addr /\ queued[i].index \in Nat
                                     /\ queued[i].ring \in live /\ queued[i].ring # a
                                     /\ queued[i] = Slot(queued[i].ring, queued[i].index)
        /\ \A b \in Addr : push_idx[b] \in Nat /\ pop_idx[b] \in Nat
        /\ queued # <<>> <=> Len(queued) > 0
    BY <1>n, IndexFacts DEF QueuedInv
  <1>0. Cardinality(Pushers)' = Cardinality(Pushers) - 1
    <2>1. t \in Pushers /\ Pushers' = Pushers \ {t}
      BY <1>u DEF TypeOK, Pushers
    <2> QED BY <2>1, PushersRemove
  <1>1. TypeOK'
    <2>1. IndexBound > 0 /\ 1 \in Indices /\ 0 \in Indices
      <3>1. Cardinality(Pushers) > 0
        <4>1. t \in Pushers /\ IsFiniteSet(Pushers)
          BY <1>u, PushersFinite DEF Pushers
        <4> QED BY <4>1, PushersFinite, FS_EmptySet
      <3>2. push_idx[tail] + Cardinality(Pushers) <= IndexBound
        BY <1>a DEF IndexInv
      <3> QED BY <3>1, <3>2, <1>a, PushersFinite DEF Indices
    <2>2. my[t].item \in Item
      BY DEF TypeOK
    <2>3. buffer' \in [Addr -> [Slots -> Item]]
      BY <1>n, <2>2 DEF TypeOK
    <2>5. my' \in [Threads -> [item : Item, node : Node, push_idx : Indices]]
      BY <1>n, BlankType DEF TypeOK, Node
    <2> QED BY <1>u, <1>n, <1>q, <1>c, <2>1, <2>3, <2>5 DEF TypeOK, Places, Node
  <1>2. MutexInv'
    BY <1>u DEF TypeOK, MutexInv, HasPush, HasPop
  <1>3. ChainInv'
    <2> DEFINE n == Len(chain)
    <2>1. \A i, j \in 1..Len(chain') : chain'[i] = chain'[j] => i = j
      BY <1>a, <1>c DEF ChainInv
    <2>2. ASSUME NEW i \in 1..Len(chain')
          PROVE  next'[chain'[i]] = IF i = Len(chain') THEN NULL ELSE chain'[i + 1]
      <3>1. CASE i = n + 1
        BY <3>1, <1>n, <1>a, <1>c, <1>m
      <3>2. CASE i = n
        <4>1. chain'[i] = tail /\ i + 1 = Len(chain') /\ i # Len(chain') /\ chain'[i + 1] = a
          BY <3>2, <1>a, <1>c
        <4> QED BY <4>1, <1>a, <1>m
      <3>3. CASE i \in 1..(n - 1)
        <4>1. chain'[i] = chain[i] /\ chain'[i + 1] = chain[i + 1] /\ chain[i] # tail /\ chain[i] # a
          BY <3>3, <1>a, <1>c DEF ChainInv
        <4> QED BY <4>1, <3>3, <1>m, <1>a, <1>c DEF ChainInv
      <3> QED BY <3>1, <3>2, <3>3, <1>a, <1>c
    <2> QED BY <2>1, <2>2, <1>u, <1>a, <1>c, ChainFacts DEF ChainInv, TypeOK
  <1>4. TailInv'
    BY <1>u, <1>a, <1>n, <1>c DEF TypeOK, TailInv, MutexInv, HasPush
  <1>5. LiveInv'
    <2>1. live' = {chain'[i] : i \in 1..Len(chain')}
      <3>1. \A b \in live' : \E i \in 1..Len(chain') : b = chain'[i]
        <4> TAKE b \in live'
        <4>1. CASE b = a
          BY <4>1, <1>a, <1>c
        <4>2. CASE b \in live
          <5>1. PICK i \in 1..Len(chain) : b = chain[i]
            BY <4>2 DEF LiveInv
          <5> QED BY <5>1, <1>a, <1>c
        <4> QED BY <4>1, <4>2, <1>n
      <3>2. \A i \in 1..Len(chain') : chain'[i] \in live'
        BY <1>n, <1>a, <1>c DEF LiveInv
      <3> QED BY <3>1, <3>2
    <2>2. \A b \in Addr \ live' : b \in Addr \ live /\ b # a /\ b # tail
      BY <1>a, <1>n
    <2> QED BY <2>1, <2>2, <1>m DEF LiveInv
  <1>6. IndexInv'
    <2>1. \A b \in live' : push_idx'[b] >= pop_idx'[b] /\ push_idx'[b] - pop_idx'[b] <= RING_SIZE
      BY <1>n, <1>m DEF IndexInv, TypeOK
    <2>2. \A i \in 2..Len(chain') : pop_idx'[chain'[i]] = 0 /\ push_idx'[chain'[i]] > 0
      <3> TAKE i \in 2..Len(chain')
      <3>1. CASE i = Len(chain) + 1
        BY <3>1, <1>n, <1>c, <1>m
      <3>2. CASE i \in 2..Len(chain)
        <4>1. i \in 1..Len(chain)
          BY <3>2, <1>a
        <4> QED BY <3>2, <4>1, <1>c, <1>m DEF IndexInv
      <3> QED BY <3>1, <3>2, <1>a, <1>c
    <2>3. \A b \in live' : push_idx'[b] + Cardinality(Pushers)' <= IndexBound
      <3>1. Cardinality(Pushers) <= IndexBound
        BY <1>a, PushersFinite DEF IndexInv
      <3>2. \A b \in live : push_idx[b] + Cardinality(Pushers) <= IndexBound
        BY DEF IndexInv
      <3> QED BY <3>1, <3>2, <1>0, <1>n, <1>m, <1>f, PushersFinite DEF TypeOK
    <2> QED BY <2>1, <2>2, <2>3 DEF IndexInv
  <1>7. CallInv'
    <2>1. \A u \in Threads : pc'[u] \notin {"push_write", "push_publish"}
      BY <1>u DEF TypeOK, MutexInv, HasPush
    <2>2. head \in Addr /\ head # a
      BY <1>a, <1>n, ChainFacts
    <2>3. buffer'[head] = buffer[head]
      BY <1>n, <2>2 DEF TypeOK
    <2>4. \A u \in Threads : pc[u] = "pop_load_idx" => my[u].node \in {NULL, next'[head]}
      BY <1>a, <1>m, <2>2 DEF CallInv
    <2>5. \A u \in Threads : pc[u] = "pop_advance" => my[u].node = next'[head]
      BY <1>a, <1>m, <2>2 DEF CallInv
    <2>6. next[head] # NULL => next'[head] # NULL
      BY <1>m, <2>2
    <2> QED BY <1>u, <1>n, <1>m, <2>1, <2>2, <2>3, <2>4, <2>5, <2>6 DEF TypeOK, CallInv, Drained, Blank
  <1>8. QueuedInv'
    <2> DEFINE m == Len(queued)
    <2>1. \A i \in 1..(m + 1) : i \in 1..m \/ i = m + 1
      BY <1>q
    <2>2. ASSUME NEW i \in 1..Len(queued')
          PROVE  /\ queued'[i].ring \in live'
                 /\ pop_idx'[queued'[i].ring] <= queued'[i].index
                 /\ queued'[i].index < push_idx'[queued'[i].ring]
      <3>1. CASE i \in 1..m
        <4>1. /\ queued'[i] = queued[i] /\ queued[i].ring \in Addr /\ queued[i].ring # a
              /\ queued[i].ring \in live
          BY <3>1, <1>q, <1>f
        <4>2. pop_idx[queued[i].ring] <= queued[i].index /\ queued[i].index < push_idx[queued[i].ring]
          BY <3>1 DEF QueuedInv
        <4> QED BY <4>1, <4>2, <1>n, <1>m
      <3>2. CASE i = m + 1
        BY <3>2, <1>n, <1>q, <1>m DEF Slot
      <3> QED BY <2>1, <3>1, <3>2, <1>q
    <2>3. ASSUME NEW i \in 1..Len(queued'), NEW j \in 1..Len(queued'), queued'[i] = queued'[j]
          PROVE  i = j
      <3>1. \A k \in 1..m : queued[k] # Slot(a, 0)
        BY <1>f DEF Slot
      <3> QED BY <2>1, <2>3, <3>1, <1>q DEF QueuedInv
    <2>4. ASSUME NEW i \in 1..(Len(queued') - 1)
          PROVE  \/ queued'[i + 1] = Slot(queued'[i].ring, queued'[i].index + 1)
                 \/ /\ queued'[i].index + 1 = push_idx'[queued'[i].ring]
                    /\ queued'[i + 1] = Slot(next'[queued'[i].ring], 0)
      <3>1. CASE i = m
        <4>1. queued # <<>> /\ queued[m].ring = tail /\ queued[m].index + 1 = push_idx[tail]
          BY <3>1, <1>a, <1>q, <1>f DEF QueuedInv
        <4> QED BY <4>1, <3>1, <1>a, <1>q, <1>m
      <3>2. CASE i \in 1..(m - 1)
        <4>1. i \in 1..m /\ i + 1 \in 1..m /\ queued'[i] = queued[i] /\ queued'[i + 1] = queued[i + 1]
          BY <3>2, <1>q
        <4>2. CASE queued[i + 1] = Slot(queued[i].ring, queued[i].index + 1)
          BY <4>1, <4>2
        <4>3. CASE /\ queued[i].index + 1 = push_idx[queued[i].ring]
                   /\ queued[i + 1] = Slot(next[queued[i].ring], 0)
          <5>1. queued[i + 1].ring = next[queued[i].ring] /\ queued[i + 1].ring \in Addr
            BY <4>1, <4>3, <1>f DEF Slot
          <5>2. queued[i].ring # tail
            BY <5>1, <1>a, RingsQueueAssumption
          <5> QED BY <4>1, <4>3, <5>2, <1>m, <1>f
        <4> QED BY <3>2, <4>2, <4>3 DEF QueuedInv
      <3> QED BY <3>1, <3>2, <1>q
    <2>5. /\ \/ ~Drained(head)' /\ queued'[1] = Slot(head, pop_idx'[head])
             \/ Drained(head)' /\ next'[head] # NULL /\ queued'[1] = Slot(next'[head], 0)
          /\ queued'[Len(queued')].ring = a
          /\ queued'[Len(queued')].index + 1 = push_idx'[a]
      <3>0. head \in Addr /\ head \in live /\ head # a
        BY <1>a, <1>n, ChainFacts
      <3>1. queued'[Len(queued')].ring = a /\ queued'[Len(queued')].index + 1 = push_idx'[a]
        BY <1>n, <1>q, <1>m DEF Slot
      <3>2. Drained(head)' <=> Drained(head)
        BY <3>0, <1>u, <1>m DEF Drained
      <3>3. CASE queued = <<>>
        <4>1. Drained(head) /\ next[head] = NULL /\ m = 0
          BY <3>3, <1>a, <1>q, <1>f DEF QueuedInv
        <4>2. head = tail
          BY <4>1, <1>a, ChainFacts DEF ChainInv
        <4> QED BY <3>1, <3>2, <4>1, <4>2, <3>0, <1>a, <1>q, <1>m
      <3>4. CASE queued # <<>>
        <4>1. queued'[1] = queued[1]
          BY <3>4, <1>q, <1>f
        <4>2. CASE ~Drained(head) /\ queued[1] = Slot(head, pop_idx[head])
          BY <3>0, <3>1, <3>2, <4>1, <4>2, <1>m
        <4>3. CASE Drained(head) /\ next[head] # NULL /\ queued[1] = Slot(next[head], 0)
          <5>1. head # tail
            BY <4>3, <1>a
          <5> QED BY <3>0, <3>1, <3>2, <4>1, <4>3, <5>1, <1>m
        <4> QED BY <3>4, <4>2, <4>3 DEF QueuedInv
      <3> QED BY <3>3, <3>4
    <2> QED BY <2>2, <2>3, <2>4, <2>5, <1>u, <1>a, <1>q, <1>c DEF QueuedInv, Drained
  <1> QED BY <1>1, <1>2, <1>3, <1>4, <1>5, <1>6, <1>7, <1>8

LEMMA PushSwingInv ==
  ASSUME IInv, NEW t \in Threads, PushSwing(t)
  PROVE  IInv'
  <1> USE RingsQueueAssumption DEF IInv, PushSwing, ring, locks, owner, history, From
  <1>0. Pushers' = Pushers
    BY DEF TypeOK, Pushers
  <1>1. TypeOK'
    <2>1. my[t].node \in Node
      BY DEF TypeOK
    <2> QED BY <2>1, BlankType DEF TypeOK, Places
  <1>2. MutexInv'
    BY DEF TypeOK, MutexInv, HasPush, HasPop
  <1>3. ChainInv'
    BY DEF TypeOK, ChainInv
  <1>4. TailInv'
    BY DEF TypeOK, TailInv, MutexInv, HasPush
  <1>5. LiveInv'
    BY DEF TypeOK, LiveInv
  <1>6. IndexInv'
    BY <1>0 DEF TypeOK, IndexInv
  <1>7. CallInv'
    BY DEF TypeOK, CallInv, Blank, Drained, MutexInv, HasPush, HasPop
  <1>8. QueuedInv'
    BY QueuedSame
  <1> QED BY <1>1, <1>2, <1>3, <1>4, <1>5, <1>6, <1>7, <1>8

LEMMA PushReturnInv ==
  ASSUME IInv, NEW t \in Threads, PushReturn(t)
  PROVE  IInv'
  <1> USE RingsQueueAssumption DEF IInv, PushReturn, ring, locks, owner, history, From
  <1>0. Pushers' = Pushers
    BY DEF TypeOK, Pushers
  <1>1. TypeOK'
    BY DEF TypeOK, Places
  <1>2. MutexInv'
    BY DEF TypeOK, MutexInv, HasPush, HasPop
  <1>3. ChainInv'
    BY DEF TypeOK, ChainInv
  <1>4. TailInv'
    BY DEF TypeOK, TailInv, MutexInv, HasPush
  <1>5. LiveInv'
    BY DEF TypeOK, LiveInv
  <1>6. IndexInv'
    BY <1>0 DEF TypeOK, IndexInv
  <1>7. CallInv'
    BY DEF TypeOK, CallInv, Blank, Drained, MutexInv, HasPush, HasPop
  <1>8. QueuedInv'
    BY QueuedSame
  <1> QED BY <1>1, <1>2, <1>3, <1>4, <1>5, <1>6, <1>7, <1>8

LEMMA CallPopInv ==
  ASSUME IInv, NEW t \in Threads, CallPop(t)
  PROVE  IInv'
  <1> USE RingsQueueAssumption DEF IInv, CallPop, ring, locks, owner, history, From
  <1>0. Pushers' = Pushers
    BY DEF TypeOK, Pushers
  <1>1. TypeOK'
    BY DEF TypeOK, Places
  <1>2. MutexInv'
    BY DEF TypeOK, MutexInv, HasPush, HasPop
  <1>3. ChainInv'
    BY DEF TypeOK, ChainInv
  <1>4. TailInv'
    BY DEF TypeOK, TailInv, MutexInv, HasPush
  <1>5. LiveInv'
    BY DEF TypeOK, LiveInv
  <1>6. IndexInv'
    BY <1>0 DEF TypeOK, IndexInv
  <1>7. CallInv'
    BY DEF TypeOK, CallInv, Blank, Drained, MutexInv, HasPush, HasPop
  <1>8. QueuedInv'
    BY QueuedSame
  <1> QED BY <1>1, <1>2, <1>3, <1>4, <1>5, <1>6, <1>7, <1>8

LEMMA LockPopInv ==
  ASSUME IInv, NEW t \in Threads, LockPop(t)
  PROVE  IInv'
  <1> USE RingsQueueAssumption DEF IInv, LockPop, ring, locks, owner, history, From
  <1>0. Pushers' = Pushers
    BY DEF TypeOK, Pushers
  <1>1. TypeOK'
    BY DEF TypeOK, Places
  <1>2. MutexInv'
    BY DEF TypeOK, MutexInv, HasPush, HasPop
  <1>3. ChainInv'
    BY DEF TypeOK, ChainInv
  <1>4. TailInv'
    BY DEF TypeOK, TailInv, MutexInv, HasPush
  <1>5. LiveInv'
    BY DEF TypeOK, LiveInv
  <1>6. IndexInv'
    BY <1>0 DEF TypeOK, IndexInv
  <1>7. CallInv'
    <2>1. pc'[t] \in {"pop_load_next", "empty_load_idx"} /\ \A u \in Threads : u # t => pc'[u] = pc[u]
      BY DEF TypeOK
    <2>2. my[t].item = EMPTY_VALUE
      BY DEF CallInv
    <2> QED BY <2>1, <2>2 DEF CallInv, Drained
  <1>8. QueuedInv'
    BY QueuedSame
  <1> QED BY <1>1, <1>2, <1>3, <1>4, <1>5, <1>6, <1>7, <1>8

LEMMA PopLoadNextInv ==
  ASSUME IInv, NEW t \in Threads, PopLoadNext(t)
  PROVE  IInv'
  <1> USE RingsQueueAssumption DEF IInv, PopLoadNext, ring, locks, owner, history, From
  <1>0. Pushers' = Pushers
    BY DEF TypeOK, Pushers
  <1>1. TypeOK'
    <2>1. next[head] \in Node
      BY ChainFacts DEF TypeOK
    <2> QED BY <2>1 DEF TypeOK, Places
  <1>2. MutexInv'
    BY DEF TypeOK, MutexInv, HasPush, HasPop
  <1>3. ChainInv'
    BY DEF TypeOK, ChainInv
  <1>4. TailInv'
    BY DEF TypeOK, TailInv, MutexInv, HasPush
  <1>5. LiveInv'
    BY DEF TypeOK, LiveInv
  <1>6. IndexInv'
    BY <1>0 DEF TypeOK, IndexInv
  <1>7. CallInv'
    BY DEF TypeOK, CallInv, Blank, Drained, MutexInv, HasPush, HasPop
  <1>8. QueuedInv'
    BY QueuedSame
  <1> QED BY <1>1, <1>2, <1>3, <1>4, <1>5, <1>6, <1>7, <1>8

LEMMA PopLoadIdxInv ==
  ASSUME IInv, NEW t \in Threads, PopLoadIdx(t)
  PROVE  IInv'
  <1> USE RingsQueueAssumption DEF IInv, PopLoadIdx, ring, locks, owner, history, From
  <1>0. Pushers' = Pushers
    BY DEF TypeOK, Pushers
  <1>1. TypeOK'
    BY DEF TypeOK, Places
  <1>2. MutexInv'
    BY DEF TypeOK, MutexInv, HasPush, HasPop
  <1>3. ChainInv'
    BY DEF TypeOK, ChainInv
  <1>4. TailInv'
    BY DEF TypeOK, TailInv, MutexInv, HasPush
  <1>5. LiveInv'
    BY DEF TypeOK, LiveInv
  <1>6. IndexInv'
    BY <1>0 DEF TypeOK, IndexInv
  <1>7. CallInv'
    <2>1. ~Drained(head) => pop_idx[head] < push_idx[head]
      BY ChainFacts, IndexFacts DEF Drained, IndexInv
    <2> QED BY <2>1 DEF TypeOK, CallInv, Blank, Drained, MutexInv, HasPush, HasPop
  <1>8. QueuedInv'
    BY QueuedSame
  <1> QED BY <1>1, <1>2, <1>3, <1>4, <1>5, <1>6, <1>7, <1>8

LEMMA PopAdvanceInv ==
  ASSUME IInv, NEW t \in Threads, PopAdvance(t)
  PROVE  IInv'
  <1> USE RingsQueueAssumption DEF IInv
  <1>u. /\ pc[t] = "pop_advance" /\ pc' = [pc EXCEPT ![t] = "pop_load_next"]
        /\ head' = my[t].node /\ Free(head) /\ my' = [my EXCEPT ![t] = Blank] /\ chain' = Tail(chain)
        /\ tail' = tail /\ pop_mtx' = pop_mtx /\ push_mtx' = push_mtx
        /\ cursor' = cursor /\ open' = open /\ queued' = queued
    BY DEF PopAdvance, From, locks, owner
  <1> DEFINE n == Len(chain)
  <1>a. /\ open /\ n \in Nat /\ n > 1 /\ chain # <<>> /\ head = chain[1] /\ head \in Addr /\ head \in live
        /\ my[t].node = chain[2] /\ my[t].node = next[head] /\ next[head] # NULL /\ Drained(head)
        /\ \A i \in 1..n : chain[i] \in Addr
    <2>1. my[t].node = next[head] /\ next[head] # NULL /\ Drained(head)
      BY <1>u DEF CallInv
    <2>2. /\ open /\ n \in Nat /\ n > 0 /\ chain # <<>> /\ head = chain[1] /\ head \in Addr /\ head \in live
          /\ \A i \in 1..n : chain[i] \in Addr
      BY <1>u, ChainFacts
    <2>3. 1 \in 1..n /\ 1 + 1 = 2
      BY <2>2
    <2>4. next[head] = IF 1 = n THEN NULL ELSE chain[1 + 1]
      BY <2>2, <2>3 DEF ChainInv
    <2>5. n # 1 /\ next[head] = chain[2]
      BY <2>1, <2>3, <2>4
    <2>6. n > 1
      <3>1. n \in Nat /\ n > 0 /\ n # 1
        BY <2>2, <2>5
      <3> QED BY ONLY <3>1, AboveOne
    <2> QED BY <2>1, <2>2, <2>5, <2>6
  <1>c. /\ chain' \in Seq(Addr)
        /\ Len(chain') = n - 1
        /\ \A i \in 1..(n - 1) : chain'[i] = chain[i + 1]
        /\ (chain' = <<>> <=> n = 1)
    BY <1>u, <1>a, TailPositions DEF TypeOK
  <1>d. \A i \in 1..Len(chain') : /\ i + 1 \in 1..n /\ i + 1 > 1 /\ chain'[i] = chain[i + 1]
                                  /\ chain'[i] \in Addr /\ chain'[i] # head
    <2> TAKE i \in 1..Len(chain')
    <2>1. i + 1 \in 1..n /\ i + 1 > 1 /\ chain'[i] = chain[i + 1]
      BY <1>a, <1>c
    <2>2. 1 \in 1..n /\ chain[1] = head
      BY <1>a
    <2>3. chain[i + 1] # chain[1]
      BY <2>1, <2>2 DEF ChainInv
    <2> QED BY <1>a, <2>1, <2>2, <2>3
  <1>m. /\ \A b \in Addr : push_idx'[b] = IF b = head THEN 0 ELSE push_idx[b]
        /\ \A b \in Addr : pop_idx'[b] = IF b = head THEN 0 ELSE pop_idx[b]
        /\ \A b \in Addr : next'[b] = IF b = head THEN NULL ELSE next[b]
        /\ \A b \in Addr : b # head => buffer'[b] = buffer[b]
        /\ live' = live \ {head}
    BY <1>u, <1>a DEF TypeOK, Free
  <1>0. Pushers' = Pushers
    BY <1>u DEF TypeOK, Pushers
  <1>1. TypeOK'
    <2>1. NoItems \in [Slots -> Item] /\ 0 \in Indices /\ NULL \in Node
      BY DEF NoItems, Item, Indices, Node
    <2>2. buffer' \in [Addr -> [Slots -> Item]]
      BY <2>1, <1>u, <1>a DEF TypeOK, Free
    <2>3. /\ push_idx' \in [Addr -> Indices] /\ pop_idx' \in [Addr -> Indices]
          /\ next' \in [Addr -> Node] /\ live' \subseteq Addr
      BY <2>1, <1>u, <1>a DEF TypeOK, Free
    <2>4. head' \in Node
      BY <1>u DEF TypeOK
    <2>5. my' \in [Threads -> [item : Item, node : Node, push_idx : Indices]]
      BY <1>u, BlankType DEF TypeOK
    <2> QED BY <2>2, <2>3, <2>4, <2>5, <1>u, <1>c DEF TypeOK, Places
  <1>2. MutexInv'
    BY <1>u DEF TypeOK, MutexInv, HasPush, HasPop
  <1>3. ChainInv'
    <2>1. ASSUME NEW i \in 1..Len(chain'), NEW j \in 1..Len(chain'), chain'[i] = chain'[j]
          PROVE  i = j
      <3>1. i + 1 \in 1..n /\ j + 1 \in 1..n /\ chain[i + 1] = chain[j + 1]
        BY <1>d, <2>1
      <3>2. i + 1 = j + 1
        BY <3>1 DEF ChainInv
      <3> QED BY <3>2
    <2>2. ASSUME NEW i \in 1..Len(chain')
          PROVE  next'[chain'[i]] = IF i = Len(chain') THEN NULL ELSE chain'[i + 1]
      <3>1. next[chain[i + 1]] = IF i + 1 = n THEN NULL ELSE chain[i + 1 + 1]
        BY <1>d DEF ChainInv
      <3>2. i # Len(chain') => chain'[i + 1] = chain[i + 1 + 1]
        <4>0. Len(chain') \in Nat
          BY <1>a, <1>c
        <4>1. i # Len(chain') => i + 1 \in 1..Len(chain')
          BY ONLY <4>0, NextPosition
        <4> QED BY <4>1, <1>d
      <3>3. i + 1 = n <=> i = Len(chain')
        BY <1>a, <1>c
      <3>4. next'[chain'[i]] = next[chain[i + 1]]
        BY <1>d, <1>m
      <3> QED BY <3>1, <3>2, <3>3, <3>4
    <2>3. head' = chain'[1]
      <3>1. 1 \in 1..(n - 1) /\ 1 + 1 = 2
        BY <1>a
      <3> QED BY <3>1, <1>u, <1>a, <1>c
    <2>4. open' /\ chain' # <<>> /\ cursor' = NULL
      <3>1. n # 1
        BY <1>a
      <3> QED BY <3>1, <1>u, <1>a, <1>c DEF ChainInv
    <2> QED BY <2>1, <2>2, <2>3, <2>4 DEF ChainInv
  <1>4. TailInv'
    <2>1. chain'[Len(chain')] = chain[n]
      BY <1>a, <1>c
    <2>2. \A u \in Threads : pc'[u] = "push_swing" <=> pc[u] = "push_swing"
      BY <1>u DEF TypeOK
    <2>3. \A u \in Threads : pc[u] = "push_swing" => my'[u] = my[u]
      BY <1>u DEF TypeOK
    <2> QED BY <2>1, <2>2, <2>3, <1>u, <1>a DEF TailInv
  <1>5. LiveInv'
    <2>1. \A b \in live' : \E i \in 1..Len(chain') : b = chain'[i]
      <3> TAKE b \in live'
      <3>1. PICK i \in 1..n : chain[i] = b
        BY <1>m DEF LiveInv
      <3>2. i # 1
        BY <3>1, <1>a, <1>m
      <3>3. i - 1 \in 1..(n - 1) /\ chain'[i - 1] = b
        BY <3>1, <3>2, <1>a, <1>c
      <3> QED BY <3>3, <1>c
    <2>2. \A i \in 1..Len(chain') : chain'[i] \in live'
      BY <1>d, <1>m DEF LiveInv
    <2>3. live' = {chain'[i] : i \in 1..Len(chain')}
      BY <2>1, <2>2
    <2> QED BY <2>3, <1>m DEF LiveInv
  <1>6. IndexInv'
    <2>1. \A i \in 2..Len(chain') : i \in 1..Len(chain') /\ i + 1 \in 2..n
      BY <1>a, <1>c
    <2>2. \A i \in 2..Len(chain') : pop_idx'[chain'[i]] = 0 /\ push_idx'[chain'[i]] > 0
      BY <2>1, <1>d, <1>m DEF IndexInv
    <2>3. \A b \in live' : b \in live /\ push_idx'[b] = push_idx[b] /\ pop_idx'[b] = pop_idx[b]
      BY <1>m DEF TypeOK
    <2> QED BY <1>0, <2>2, <2>3 DEF IndexInv
  <1>7. CallInv'
    <2>1. \A u \in Threads : u # t => /\ pc[u] \notin {"pop_load_idx", "pop_advance", "pop_read", "pop_take", "empty_load_next"}
                                      /\ pc'[u] = pc[u] /\ my'[u] = my[u]
      BY <1>u DEF TypeOK, MutexInv, HasPop
    <2>2. pc'[t] = "pop_load_next" /\ my'[t] = Blank
      BY <1>u DEF TypeOK
    <2>3. ASSUME NEW u \in Threads, pc[u] \in {"push_write", "push_publish"}
          PROVE  push_idx'[tail] - pop_idx'[tail] < RING_SIZE
      <3>1. tail \in Addr /\ tail = chain[n]
        BY <2>3, TailFacts DEF AtTail
      <3>2. 1 \in 1..n /\ n \in 1..n /\ n # 1
        BY <1>a
      <3>3. chain[1] # chain[n]
        BY <3>2 DEF ChainInv
      <3>4. push_idx[tail] - pop_idx[tail] < RING_SIZE
        BY <2>3 DEF CallInv
      <3> QED BY <3>1, <3>3, <3>4, <1>u, <1>a, <1>m
    <2> QED BY <2>1, <2>2, <2>3, <1>u DEF CallInv, Blank
  <1>8. QueuedInv'
    <2> DEFINE m == Len(queued)
    <2>f. /\ \A i \in 1..m : /\ queued[i].ring \in Addr /\ queued[i].index \in Nat
                             /\ queued[i] = Slot(queued[i].ring, queued[i].index)
          /\ \A b \in Addr : push_idx[b] \in Nat /\ pop_idx[b] \in Nat
          /\ queued # <<>> <=> m > 0
          /\ m \in Nat
      BY IndexFacts
    <2>1. ASSUME NEW i \in 1..m PROVE queued[i].ring # head
      <3>1. pop_idx[queued[i].ring] <= queued[i].index /\ queued[i].index < push_idx[queued[i].ring]
        BY DEF QueuedInv
      <3>2. queued[i].ring \in Addr /\ queued[i].index \in Nat /\ pop_idx[head] = push_idx[head]
            /\ pop_idx[head] \in Nat
        BY <2>f, <1>a DEF Drained
      <3> QED BY <3>1, <3>2
    <2>2. queued # <<>> /\ queued[1] = Slot(chain[2], 0) /\ queued[m].ring = chain[n]
          /\ queued[m].index + 1 = push_idx[chain[n]]
      BY <1>a DEF QueuedInv
    <2>3. head' = chain[2] /\ chain[2] \in Addr /\ chain[2] # head /\ pop_idx[chain[2]] = 0
          /\ push_idx[chain[2]] > 0
      <3>1. 2 \in 2..n /\ 2 \in 1..n /\ 1 \in 1..n
        BY <1>a
      <3> QED BY <3>1, <1>u, <1>a DEF IndexInv, ChainInv
    <2>4. chain'[Len(chain')] = chain[n] /\ chain[n] \in Addr /\ chain[n] # head
      <3>1. n - 1 \in 1..(n - 1) /\ (n - 1) + 1 = n /\ Len(chain') = n - 1
        BY <1>a, <1>c
      <3> QED BY <3>1, <1>a, <1>c, <1>d
    <2>5. ~(pop_idx'[chain[2]] = push_idx'[chain[2]])
      BY <2>3, <2>f, <1>m
    <2>6. \A i \in 1..m : /\ queued[i].ring \in live' /\ pop_idx'[queued[i].ring] = pop_idx[queued[i].ring]
                          /\ push_idx'[queued[i].ring] = push_idx[queued[i].ring]
                          /\ next'[queued[i].ring] = next[queued[i].ring]
      BY <2>1, <2>f, <1>m DEF QueuedInv
    <2>7. \A i \in 1..(m - 1) : i \in 1..m
      BY <2>f
    <2>8. open' /\ queued' = queued /\ head' = chain[2] /\ ~Drained(head)'
      BY <2>3, <2>5, <1>u, <1>a DEF Drained
    <2>9. queued[1] = Slot(chain[2], pop_idx'[chain[2]]) /\ push_idx'[chain[n]] = push_idx[chain[n]]
      BY <2>2, <2>3, <2>4, <1>m
    <2>10. /\ \A i \in 1..m : /\ queued[i].ring \in live'
                              /\ pop_idx'[queued[i].ring] <= queued[i].index
                              /\ queued[i].index < push_idx'[queued[i].ring]
           /\ \A i, j \in 1..m : queued[i] = queued[j] => i = j
      BY <2>6 DEF QueuedInv
    <2>11. \A i \in 1..(m - 1) :
             \/ queued[i + 1] = Slot(queued[i].ring, queued[i].index + 1)
             \/ /\ queued[i].index + 1 = push_idx'[queued[i].ring]
                /\ queued[i + 1] = Slot(next'[queued[i].ring], 0)
      BY <2>6, <2>7 DEF QueuedInv
    <2> QED BY <2>2, <2>4, <2>8, <2>9, <2>10, <2>11 DEF QueuedInv
  <1> QED BY <1>1, <1>2, <1>3, <1>4, <1>5, <1>6, <1>7, <1>8

LEMMA PopReadInv ==
  ASSUME IInv, NEW t \in Threads, PopRead(t)
  PROVE  IInv'
  <1> USE RingsQueueAssumption DEF IInv, PopRead, ring, locks, owner, history, From
  <1>0. Pushers' = Pushers
    BY DEF TypeOK, Pushers
  <1>1. TypeOK'
    <2>1. head \in Addr /\ pop_idx[head] \in Nat
      BY ChainFacts, IndexFacts
    <2>2. pop_idx[head] % RING_SIZE \in Slots
      BY <2>1, ModBounds DEF Slots
    <2>3. buffer[head][pop_idx[head] % RING_SIZE] \in Item
      BY <2>1, <2>2 DEF TypeOK
    <2> QED BY <2>3, BlankType DEF TypeOK, Places
  <1>2. MutexInv'
    BY DEF TypeOK, MutexInv, HasPush, HasPop
  <1>3. ChainInv'
    BY DEF TypeOK, ChainInv
  <1>4. TailInv'
    BY DEF TypeOK, TailInv, MutexInv, HasPush
  <1>5. LiveInv'
    BY DEF TypeOK, LiveInv
  <1>6. IndexInv'
    BY <1>0 DEF TypeOK, IndexInv
  <1>7. CallInv'
    BY DEF TypeOK, CallInv, Blank, Drained, MutexInv, HasPush, HasPop
  <1>8. QueuedInv'
    BY QueuedSame
  <1> QED BY <1>1, <1>2, <1>3, <1>4, <1>5, <1>6, <1>7, <1>8

LEMMA PopTakeInv ==
  ASSUME IInv, NEW t \in Threads, PopTake(t)
  PROVE  IInv'
  <1> USE RingsQueueAssumption DEF IInv, PopTake, ring, locks, owner, history, From
  <1>a. /\ open /\ head = chain[1] /\ head \in Addr /\ head \in live
        /\ Len(chain) \in Nat /\ Len(chain) > 0
        /\ push_idx[head] \in Nat /\ pop_idx[head] \in Nat /\ pop_idx[head] < push_idx[head]
    BY ChainFacts, IndexFacts DEF CallInv
  <1>b. \A b \in Addr : pop_idx'[b] = IF b = head THEN pop_idx[b] + 1 ELSE pop_idx[b]
    BY DEF TypeOK
  <1>e. queued # <<>> /\ queued[1] = Slot(head, pop_idx[head])
    BY <1>a DEF QueuedInv, Drained
  <1>q. /\ queued' \in Seq([ring : Addr, index : Nat])
        /\ Len(queued) \in Nat \ {0} /\ Len(queued') = Len(queued) - 1
        /\ \A i \in 1..(Len(queued) - 1) : queued'[i] = queued[i + 1]
        /\ (queued' = <<>> <=> Len(queued) = 1)
    BY <1>e, TailPositions DEF TypeOK
  <1>0. Pushers' = Pushers
    BY DEF TypeOK, Pushers
  <1>1. TypeOK'
    <2>1. pop_idx[head] + 1 \in Indices
      BY <1>a, PushersFinite DEF IndexInv, Indices
    <2> QED BY <2>1, <1>a, <1>q DEF TypeOK, Places
  <1>2. MutexInv'
    BY DEF TypeOK, MutexInv, HasPush, HasPop
  <1>3. ChainInv'
    BY DEF TypeOK, ChainInv
  <1>4. TailInv'
    BY DEF TypeOK, TailInv, MutexInv, HasPush
  <1>5. LiveInv'
    BY <1>a, <1>b DEF TypeOK, LiveInv
  <1>6. IndexInv'
    <2>1. ASSUME NEW a \in live
          PROVE  push_idx[a] >= pop_idx'[a] /\ push_idx[a] - pop_idx'[a] <= RING_SIZE
      <3>1. a \in Addr /\ push_idx[a] \in Nat /\ pop_idx[a] \in Nat /\ RING_SIZE \in Nat
        BY IndexFacts DEF TypeOK
      <3>2. push_idx[a] >= pop_idx[a] /\ push_idx[a] - pop_idx[a] <= RING_SIZE
        BY DEF IndexInv
      <3>3. CASE a = head
        BY <3>1, <3>2, <3>3, <1>a, <1>b
      <3>4. CASE a # head
        BY <3>1, <3>2, <3>4, <1>a, <1>b
      <3> QED BY <3>3, <3>4
    <2>2. \A i \in 2..Len(chain) : i \in 1..Len(chain) /\ chain[i] \in Addr /\ chain[i] # head
      <3> TAKE i \in 2..Len(chain)
      <3>1. i \in 1..Len(chain) /\ 1 \in 1..Len(chain) /\ i # 1
        BY <1>a
      <3> QED BY <3>1, <1>a, ChainFacts DEF ChainInv
    <2>3. \A i \in 2..Len(chain) : pop_idx'[chain[i]] = 0 /\ push_idx[chain[i]] > 0
      BY <2>2, <1>b DEF IndexInv
    <2> QED BY <1>0, <2>1, <2>3 DEF IndexInv
  <1>7. CallInv'
    <2>1. \A u \in Threads : u # t => /\ pc[u] \notin {"pop_load_idx", "pop_advance", "pop_read", "pop_take", "empty_load_next"}
                                      /\ pc'[u] = pc[u]
      BY DEF TypeOK, MutexInv, HasPop
    <2>2. pc'[t] = "popped"
      BY DEF TypeOK
    <2>3. ASSUME NEW u \in Threads, pc[u] \in {"push_write", "push_publish"}
          PROVE  push_idx[tail] - pop_idx'[tail] < RING_SIZE
      <3>1. tail \in Addr /\ push_idx[tail] \in Nat /\ pop_idx[tail] \in Nat
        BY <2>3, TailFacts, IndexFacts DEF AtTail
      <3>2. push_idx[tail] - pop_idx[tail] < RING_SIZE
        BY <2>3 DEF CallInv
      <3> QED BY <3>1, <3>2, <1>b
    <2> QED BY <2>1, <2>2, <2>3 DEF CallInv
  <1>8. QueuedInv'
    <2> DEFINE m == Len(queued)
    <2>f. /\ \A i \in 1..m : /\ queued[i].ring \in Addr /\ queued[i].index \in Nat
                             /\ queued[i] = Slot(queued[i].ring, queued[i].index)
          /\ \A b \in Addr : push_idx[b] \in Nat /\ pop_idx[b] \in Nat
      BY IndexFacts
    <2>d. \A i \in 1..Len(queued') : i + 1 \in 1..m /\ queued'[i] = queued[i + 1] /\ i + 1 # 1
      BY <1>q
    <2>1. ASSUME NEW i \in 1..Len(queued')
          PROVE  /\ queued'[i].ring \in live
                 /\ pop_idx'[queued'[i].ring] <= queued'[i].index
                 /\ queued'[i].index < push_idx[queued'[i].ring]
      <3>1. i + 1 \in 1..m /\ queued'[i] = queued[i + 1] /\ 1 \in 1..m /\ i + 1 # 1
        BY <2>d, <1>q
      <3>2. queued[i + 1] # queued[1]
        BY <3>1 DEF QueuedInv
      <3>3. queued[i + 1].ring = head => queued[i + 1].index # pop_idx[head]
        BY <3>1, <3>2, <1>e, <2>f
      <3>4. /\ queued[i + 1].ring \in live
            /\ pop_idx[queued[i + 1].ring] <= queued[i + 1].index
            /\ queued[i + 1].index < push_idx[queued[i + 1].ring]
        BY <3>1 DEF QueuedInv
      <3>5. queued[i + 1].ring \in Addr /\ queued[i + 1].index \in Nat
        BY <3>1, <2>f
      <3>6. pop_idx'[queued[i + 1].ring] <= queued[i + 1].index
        BY <3>3, <3>4, <3>5, <1>a, <1>b, <2>f
      <3> QED BY <3>1, <3>4, <3>6
    <2>2. ASSUME NEW i \in 1..Len(queued'), NEW j \in 1..Len(queued'), queued'[i] = queued'[j]
          PROVE  i = j
      <3>1. i + 1 \in 1..m /\ j + 1 \in 1..m /\ queued[i + 1] = queued[j + 1]
        BY <2>d, <2>2
      <3>2. i + 1 = j + 1
        BY <3>1 DEF QueuedInv
      <3> QED BY <3>2
    <2>3. ASSUME NEW i \in 1..(Len(queued') - 1)
          PROVE  \/ queued'[i + 1] = Slot(queued'[i].ring, queued'[i].index + 1)
                 \/ /\ queued'[i].index + 1 = push_idx[queued'[i].ring]
                    /\ queued'[i + 1] = Slot(next[queued'[i].ring], 0)
      <3>1. /\ i + 1 \in 1..(m - 1) /\ i \in 1..Len(queued') /\ i + 1 \in 1..Len(queued')
            /\ queued'[i] = queued[i + 1] /\ queued'[i + 1] = queued[i + 1 + 1]
        BY <1>q
      <3> QED BY <3>1 DEF QueuedInv
    <2>4. CASE m = 1
      <3>1. queued' = <<>>
        BY <2>4, <1>q
      <3>2. head = chain[Len(chain)] /\ pop_idx[head] + 1 = push_idx[head]
        BY <2>4, <1>e DEF QueuedInv, Slot
      <3>3. next[head] = NULL
        <4>1. Len(chain) \in 1..Len(chain)
          BY <1>a
        <4> QED BY <3>2, <4>1 DEF ChainInv
      <3>4. Drained(head)'
        BY <3>2, <1>a, <1>b DEF Drained
      <3> QED BY <3>1, <3>3, <3>4, <2>1, <2>2, <2>3, <1>a DEF QueuedInv, Drained
    <2>5. CASE m # 1
      <3>1. queued' # <<>> /\ queued'[1] = queued[2] /\ queued'[Len(queued')] = queued[m] /\ 1 \in 1..(m - 1)
        BY <2>5, <1>q
      <3>2. \/ queued[2] = Slot(head, pop_idx[head] + 1)
            \/ pop_idx[head] + 1 = push_idx[head] /\ queued[2] = Slot(next[head], 0)
        <4>1. 1 + 1 = 2
          OBVIOUS
        <4> QED BY <3>1, <4>1, <1>e DEF QueuedInv, Slot
      <3>3. \/ ~Drained(head)' /\ queued'[1] = Slot(head, pop_idx'[head])
            \/ Drained(head)' /\ next[head] # NULL /\ queued'[1] = Slot(next[head], 0)
        <4>1. CASE queued[2] = Slot(head, pop_idx[head] + 1)
          <5>1. 2 \in 1..m
            BY <2>5, <1>q
          <5>2. pop_idx[head] + 1 < push_idx[head]
            BY <4>1, <5>1 DEF QueuedInv, Slot
          <5> QED BY <4>1, <5>2, <3>1, <1>a, <1>b DEF Drained
        <4>2. CASE pop_idx[head] + 1 = push_idx[head] /\ queued[2] = Slot(next[head], 0)
          <5>1. 2 \in 1..m
            BY <2>5, <1>q
          <5>2. next[head] \in Addr
            BY <4>2, <5>1, <2>f DEF Slot
          <5> QED BY <4>2, <5>2, <3>1, <1>a, <1>b DEF Drained
        <4> QED BY <3>2, <4>1, <4>2
      <3> QED BY <3>1, <3>3, <1>e, <2>1, <2>2, <2>3, <1>a DEF QueuedInv, Drained
    <2> QED BY <2>4, <2>5
  <1> QED BY <1>1, <1>2, <1>3, <1>4, <1>5, <1>6, <1>7, <1>8

LEMMA PopReturnInv ==
  ASSUME IInv, NEW t \in Threads, PopReturn(t)
  PROVE  IInv'
  <1> USE RingsQueueAssumption DEF IInv, PopReturn, ring, locks, owner, history, From
  <1>0. Pushers' = Pushers
    BY DEF TypeOK, Pushers
  <1>1. TypeOK'
    BY BlankType DEF TypeOK, Places
  <1>2. MutexInv'
    BY DEF TypeOK, MutexInv, HasPush, HasPop
  <1>3. ChainInv'
    BY DEF TypeOK, ChainInv
  <1>4. TailInv'
    BY DEF TypeOK, TailInv, MutexInv, HasPush
  <1>5. LiveInv'
    BY DEF TypeOK, LiveInv
  <1>6. IndexInv'
    BY <1>0 DEF TypeOK, IndexInv
  <1>7. CallInv'
    BY DEF TypeOK, CallInv, Blank, Drained, MutexInv, HasPush, HasPop
  <1>8. QueuedInv'
    BY QueuedSame
  <1> QED BY <1>1, <1>2, <1>3, <1>4, <1>5, <1>6, <1>7, <1>8

LEMMA CallIsEmptyInv ==
  ASSUME IInv, NEW t \in Threads, CallIsEmpty(t)
  PROVE  IInv'
  <1> USE RingsQueueAssumption DEF IInv, CallIsEmpty, ring, locks, owner, history, From
  <1>0. Pushers' = Pushers
    BY DEF TypeOK, Pushers
  <1>1. TypeOK'
    BY DEF TypeOK, Places
  <1>2. MutexInv'
    BY DEF TypeOK, MutexInv, HasPush, HasPop
  <1>3. ChainInv'
    BY DEF TypeOK, ChainInv
  <1>4. TailInv'
    BY DEF TypeOK, TailInv, MutexInv, HasPush
  <1>5. LiveInv'
    BY DEF TypeOK, LiveInv
  <1>6. IndexInv'
    BY <1>0 DEF TypeOK, IndexInv
  <1>7. CallInv'
    BY DEF TypeOK, CallInv, Blank, Drained, MutexInv, HasPush, HasPop
  <1>8. QueuedInv'
    BY QueuedSame
  <1> QED BY <1>1, <1>2, <1>3, <1>4, <1>5, <1>6, <1>7, <1>8

LEMMA IsEmptyLoadIdxInv ==
  ASSUME IInv, NEW t \in Threads, IsEmptyLoadIdx(t)
  PROVE  IInv'
  <1> USE RingsQueueAssumption DEF IInv, IsEmptyLoadIdx, ring, locks, owner, history, From
  <1>0. Pushers' = Pushers
    BY DEF TypeOK, Pushers
  <1>1. TypeOK'
    <2>1. push_idx[head] \in Indices
      BY ChainFacts DEF TypeOK
    <2> QED BY <2>1 DEF TypeOK, Places
  <1>2. MutexInv'
    BY DEF TypeOK, MutexInv, HasPush, HasPop
  <1>3. ChainInv'
    BY DEF TypeOK, ChainInv
  <1>4. TailInv'
    BY DEF TypeOK, TailInv, MutexInv, HasPush
  <1>5. LiveInv'
    BY DEF TypeOK, LiveInv
  <1>6. IndexInv'
    BY <1>0 DEF TypeOK, IndexInv
  <1>7. CallInv'
    <2>1. pop_idx[head] <= push_idx[head] /\ push_idx[head] <= push_idx[head]
      BY ChainFacts, IndexFacts DEF IndexInv
    <2>2. pc'[t] = "empty_load_next" /\ my'[t].push_idx = push_idx[head] /\ my'[t].item = my[t].item
      BY DEF TypeOK
    <2>3. \A u \in Threads : u # t => pc'[u] = pc[u] /\ my'[u] = my[u]
      BY DEF TypeOK
    <2> QED BY <2>1, <2>2, <2>3 DEF CallInv, Drained
  <1>8. QueuedInv'
    BY QueuedSame
  <1> QED BY <1>1, <1>2, <1>3, <1>4, <1>5, <1>6, <1>7, <1>8

LEMMA IsEmptyLoadNextInv ==
  ASSUME IInv, NEW t \in Threads, IsEmptyLoadNext(t)
  PROVE  IInv'
  <1> USE RingsQueueAssumption DEF IInv, IsEmptyLoadNext, ring, locks, owner, history, From
  <1>0. Pushers' = Pushers
    BY DEF TypeOK, Pushers
  <1>1. TypeOK'
    BY BlankType DEF TypeOK, Places
  <1>2. MutexInv'
    BY DEF TypeOK, MutexInv, HasPush, HasPop
  <1>3. ChainInv'
    BY DEF TypeOK, ChainInv
  <1>4. TailInv'
    BY DEF TypeOK, TailInv, MutexInv, HasPush
  <1>5. LiveInv'
    BY DEF TypeOK, LiveInv
  <1>6. IndexInv'
    BY <1>0 DEF TypeOK, IndexInv
  <1>7. CallInv'
    BY DEF TypeOK, CallInv, Blank, Drained, MutexInv, HasPush, HasPop
  <1>8. QueuedInv'
    BY QueuedSame
  <1> QED BY <1>1, <1>2, <1>3, <1>4, <1>5, <1>6, <1>7, <1>8

LEMMA IsEmptyReturnInv ==
  ASSUME IInv, NEW t \in Threads, IsEmptyReturn(t)
  PROVE  IInv'
  <1> USE RingsQueueAssumption DEF IInv, IsEmptyReturn, ring, locks, owner, history, From
  <1>0. Pushers' = Pushers
    BY DEF TypeOK, Pushers
  <1>1. TypeOK'
    BY DEF TypeOK, Places
  <1>2. MutexInv'
    BY DEF TypeOK, MutexInv, HasPush, HasPop
  <1>3. ChainInv'
    BY DEF TypeOK, ChainInv
  <1>4. TailInv'
    BY DEF TypeOK, TailInv, MutexInv, HasPush
  <1>5. LiveInv'
    BY DEF TypeOK, LiveInv
  <1>6. IndexInv'
    BY <1>0 DEF TypeOK, IndexInv
  <1>7. CallInv'
    <2>1. my' = my /\ my[t].item = EMPTY_VALUE
      BY DEF CallInv
    <2>2. pc'[t] = "idle" /\ \A u \in Threads : u # t => pc'[u] = pc[u]
      BY DEF TypeOK
    <2> QED BY <2>1, <2>2, CallElsewhere
  <1>8. QueuedInv'
    BY QueuedSame
  <1> QED BY <1>1, <1>2, <1>3, <1>4, <1>5, <1>6, <1>7, <1>8

LEMMA DeleteStartInv ==
  ASSUME IInv, DeleteStart
  PROVE  IInv'
  <1> USE RingsQueueAssumption DEF IInv, DeleteStart, ring, locks, owner, history, From
  <1>0. Pushers' = Pushers
    BY DEF TypeOK, Pushers
  <1>1. TypeOK'
    BY EmptySeq DEF TypeOK
  <1>2. MutexInv'
    BY DEF TypeOK, MutexInv, HasPush, HasPop
  <1>3. ChainInv'
    BY DEF TypeOK, ChainInv
  <1>4. TailInv'
    BY DEF TypeOK, TailInv, MutexInv, HasPush
  <1>5. LiveInv'
    BY DEF TypeOK, LiveInv
  <1>6. IndexInv'
    BY <1>0 DEF TypeOK, IndexInv
  <1>7. CallInv'
    BY DEF TypeOK, CallInv, Blank, Drained, MutexInv, HasPush, HasPop
  <1>8. QueuedInv'
    BY DEF TypeOK, QueuedInv, Drained
  <1> QED BY <1>1, <1>2, <1>3, <1>4, <1>5, <1>6, <1>7, <1>8

LEMMA DeleteNodeInv ==
  ASSUME IInv, DeleteNode
  PROVE  IInv'
  <1> USE RingsQueueAssumption DEF IInv, DeleteNode, ring, locks, owner, history, From
  <1> DEFINE n == Len(chain)
  <1>a. /\ ~open /\ chain # <<>> /\ n \in Nat /\ n > 0 /\ cursor = chain[1] /\ cursor \in Addr /\ cursor \in live
        /\ \A i \in 1..n : chain[i] \in Addr
        /\ \A t \in Threads : pc[t] = "idle"
    BY ChainFacts DEF ChainInv, TypeOK
  <1>c. /\ chain' \in Seq(Addr)
        /\ Len(chain') = n - 1
        /\ \A i \in 1..(n - 1) : chain'[i] = chain[i + 1]
        /\ (chain' = <<>> <=> n = 1)
    BY <1>a, TailPositions DEF TypeOK
  <1>d. \A i \in 1..Len(chain') : /\ i + 1 \in 1..n /\ i + 1 > 1 /\ chain'[i] = chain[i + 1]
                                  /\ chain'[i] \in Addr /\ chain'[i] # cursor
    <2> TAKE i \in 1..Len(chain')
    <2>1. i + 1 \in 1..n /\ i + 1 > 1 /\ chain'[i] = chain[i + 1]
      BY <1>a, <1>c
    <2>2. 1 \in 1..n /\ chain[1] = cursor
      BY <1>a
    <2>3. chain[i + 1] # chain[1]
      BY <2>1, <2>2 DEF ChainInv
    <2> QED BY <1>a, <2>1, <2>2, <2>3
  <1>m. /\ \A b \in Addr : push_idx'[b] = IF b = cursor THEN 0 ELSE push_idx[b]
        /\ \A b \in Addr : pop_idx'[b] = IF b = cursor THEN 0 ELSE pop_idx[b]
        /\ \A b \in Addr : next'[b] = IF b = cursor THEN NULL ELSE next[b]
        /\ \A b \in Addr : b # cursor => buffer'[b] = buffer[b]
        /\ live' = live \ {cursor}
    BY <1>a DEF TypeOK, Free
  <1>0. Pushers' = Pushers
    BY DEF TypeOK, Pushers
  <1>1. TypeOK'
    <2>1. NoItems \in [Slots -> Item] /\ 0 \in Indices /\ NULL \in Node
      BY DEF NoItems, Item, Indices, Node
    <2>2. buffer' \in [Addr -> [Slots -> Item]]
      BY <2>1, <1>a DEF TypeOK, Free
    <2>3. /\ push_idx' \in [Addr -> Indices] /\ pop_idx' \in [Addr -> Indices]
          /\ next' \in [Addr -> Node] /\ live' \subseteq Addr
      BY <2>1, <1>a DEF TypeOK, Free
    <2> QED BY <2>2, <2>3, <1>a, <1>c DEF TypeOK, Places, Blank, Item, Node, Indices
  <1>2. MutexInv'
    BY DEF TypeOK, MutexInv, HasPush, HasPop
  <1>3. ChainInv'
    <2>1. ASSUME NEW i \in 1..Len(chain'), NEW j \in 1..Len(chain'), chain'[i] = chain'[j]
          PROVE  i = j
      <3>1. i + 1 \in 1..n /\ j + 1 \in 1..n /\ chain[i + 1] = chain[j + 1]
        BY <1>d, <2>1
      <3>2. i + 1 = j + 1
        BY <3>1 DEF ChainInv
      <3> QED BY <3>2
    <2>2. ASSUME NEW i \in 1..Len(chain')
          PROVE  next'[chain'[i]] = IF i = Len(chain') THEN NULL ELSE chain'[i + 1]
      <3>1. next[chain[i + 1]] = IF i + 1 = n THEN NULL ELSE chain[i + 1 + 1]
        BY <1>d DEF ChainInv
      <3>2. i # Len(chain') => chain'[i + 1] = chain[i + 1 + 1]
        <4>0. Len(chain') \in Nat
          BY <1>a, <1>c
        <4>1. i # Len(chain') => i + 1 \in 1..Len(chain')
          BY ONLY <4>0, NextPosition
        <4> QED BY <4>1, <1>d
      <3>3. i + 1 = n <=> i = Len(chain')
        BY <1>a, <1>c
      <3>4. next'[chain'[i]] = next[chain[i + 1]]
        <4>1. chain'[i] = chain[i + 1] /\ chain'[i] \in Addr /\ chain'[i] # cursor
          BY <1>d
        <4> HIDE DEF DeleteNode
        <4> QED BY <4>1, <1>m
      <3> QED BY <3>1, <3>2, <3>3, <3>4
    <2>3. cursor' = IF n = 1 THEN NULL ELSE chain[2]
      <3>1. 1 \in 1..n /\ 1 + 1 = 2
        BY <1>a
      <3> QED BY <3>1, <1>a DEF ChainInv
    <2>4. n # 1 => chain'[1] = chain[2]
      BY <1>a, <1>c
    <2> QED BY <2>1, <2>2, <2>3, <2>4, <1>a, <1>c DEF ChainInv
  <1>4. TailInv'
    BY <1>a DEF TailInv
  <1>5. LiveInv'
    <2>1. \A b \in live' : \E i \in 1..Len(chain') : b = chain'[i]
      <3> TAKE b \in live'
      <3>1. PICK i \in 1..n : chain[i] = b
        BY <1>m DEF LiveInv
      <3>2. i # 1
        BY <3>1, <1>a, <1>m
      <3>3. i - 1 \in 1..(n - 1) /\ chain'[i - 1] = b
        BY <3>1, <3>2, <1>a, <1>c
      <3> QED BY <3>3, <1>c
    <2>2. \A i \in 1..Len(chain') : chain'[i] \in live'
      BY <1>d, <1>m DEF LiveInv
    <2>3. live' = {chain'[i] : i \in 1..Len(chain')}
      BY <2>1, <2>2
    <2> QED BY <2>3, <1>m DEF LiveInv
  <1>6. IndexInv'
    <2>1. \A i \in 2..Len(chain') : i \in 1..Len(chain') /\ i + 1 \in 2..n
      BY <1>a, <1>c
    <2>2. \A i \in 2..Len(chain') : pop_idx'[chain'[i]] = 0 /\ push_idx'[chain'[i]] > 0
      BY <2>1, <1>d, <1>m DEF IndexInv
    <2>3. \A b \in live' : b \in live /\ push_idx'[b] = push_idx[b] /\ pop_idx'[b] = pop_idx[b]
      BY <1>m DEF TypeOK
    <2> QED BY <1>0, <2>2, <2>3 DEF IndexInv
  <1>7. CallInv'
    BY <1>a DEF CallInv
  <1>8. QueuedInv'
    <2>1. queued = <<>> /\ Len(queued) = 0
      BY <1>a, EmptySeq DEF QueuedInv
    <2> QED BY <2>1, <1>a DEF QueuedInv
  <1> QED BY <1>1, <1>2, <1>3, <1>4, <1>5, <1>6, <1>7, <1>8

LEMMA NewInv ==
  ASSUME IInv, New
  PROVE  IInv'
  <1> USE RingsQueueAssumption DEF IInv, New, ring, locks, owner, history, From
  <1>n. PICK a \in Addr : live' = live \cup {a} /\ head' = a /\ tail' = a /\ chain' = <<a>>
    BY DEF Malloc
  <1>a. /\ chain = <<>> /\ queued = <<>> /\ Len(chain) = 0 /\ Len(queued) = 0 /\ live = {}
        /\ \A t \in Threads : pc[t] = "idle"
    <2>1. chain = <<>> /\ queued = <<>> /\ \A t \in Threads : pc[t] = "idle"
      <3>1. ~open /\ cursor = NULL
        OBVIOUS
      <3>2. chain # <<>> => FALSE
        BY <3>1, ChainFacts DEF ChainInv
      <3> QED BY <3>1, <3>2 DEF ChainInv, QueuedInv
    <2>2. Len(chain) = 0 /\ Len(queued) = 0
      BY <2>1, EmptySeq
    <2>3. \A i \in 1..Len(chain) : FALSE
      BY <2>2
    <2>4. live = {}
      BY <2>3 DEF LiveInv
    <2> QED BY <2>1, <2>2, <2>4
  <1>b. /\ chain' \in Seq(Addr) /\ chain' # <<>> /\ Len(chain') = 1 /\ chain'[1] = a
        /\ next[a] = NULL /\ push_idx[a] = 0 /\ pop_idx[a] = 0
    BY <1>n, <1>a DEF LiveInv
  <1>0. Pushers' = Pushers
    BY DEF TypeOK, Pushers
  <1>1. TypeOK'
    BY <1>n, <1>b, <1>a DEF TypeOK, Node
  <1>2. MutexInv'
    BY DEF TypeOK, MutexInv, HasPush, HasPop
  <1>3. ChainInv'
    BY <1>n, <1>b DEF ChainInv
  <1>4. TailInv'
    BY <1>n, <1>b, <1>a DEF TailInv
  <1>5. LiveInv'
    BY <1>n, <1>b, <1>a DEF LiveInv
  <1>6. IndexInv'
    <2>1. Pushers' = {}
      BY <1>a DEF Pushers
    <2>2. Cardinality(Pushers)' = 0
      BY <2>1, FS_EmptySet
    <2> QED BY <1>n, <1>b, <1>a, <2>2 DEF IndexInv
  <1>7. CallInv'
    BY <1>a DEF CallInv
  <1>8. QueuedInv'
    BY <1>n, <1>a, <1>b DEF QueuedInv, Drained
  <1> QED BY <1>1, <1>2, <1>3, <1>4, <1>5, <1>6, <1>7, <1>8

LEMMA StutterInv ==
  ASSUME IInv, UNCHANGED vars
  PROVE  IInv'
  <1> USE DEF IInv, vars, ring, locks, owner, history
  <1>1. TypeOK' /\ MutexInv' /\ ChainInv' /\ TailInv' /\ LiveInv'
    BY DEF TypeOK, MutexInv, HasPush, HasPop, ChainInv, TailInv, LiveInv
  <1>2. IndexInv' /\ CallInv' /\ QueuedInv'
    BY DEF IndexInv, Pushers, CallInv, QueuedInv, Drained
  <1> QED BY <1>1, <1>2

LEMMA NextInv ==
  ASSUME IInv, [Next]_vars
  PROVE  IInv'
  <1>1. ASSUME NEW t \in Threads, Invoke(t) PROVE IInv'
    BY <1>1, CallPushInv, CallPopInv, CallIsEmptyInv DEF Invoke
  <1>2. ASSUME NEW t \in Threads, Step(t) PROVE IInv'
    BY <1>2, LockPushInv, PushLoadInv, PushWriteInv, PushPublishInv, PushNewInv, PushSwingInv,
       PushReturnInv, LockPopInv, PopLoadNextInv, PopLoadIdxInv, PopAdvanceInv, PopReadInv,
       PopTakeInv, PopReturnInv, IsEmptyLoadIdxInv, IsEmptyLoadNextInv, IsEmptyReturnInv
       DEF Step, Return
  <1>3. CASE DeleteStart \/ DeleteNode \/ New
    BY <1>3, DeleteStartInv, DeleteNodeInv, NewInv
  <1>4. CASE UNCHANGED vars
    BY <1>4, StutterInv
  <1> QED BY <1>1, <1>2, <1>3, <1>4 DEF Next

(* The lists, the indices and the two locks are right in every state.      *)
THEOREM Invariance == Spec => []IInv
  BY InitInv, NextInv, PTL DEF Spec

-----------------------------------------------------------------------------
(* No ring is touched when it is free: the popper that drains rings never  *)
(* frees the one a pusher is in.                                           *)
LEMMA TouchesLiveRings == IInv => NoUseAfterFree
  <1> SUFFICES ASSUME IInv PROVE NoUseAfterFree
    OBVIOUS
  <1>1. ASSUME NEW t \in Threads, AtTail(t) PROVE tail \in live
    BY <1>1, TailFacts
  <1>2. ASSUME NEW t \in Threads, AtHead(t) PROVE head \in live
    BY <1>2, ChainFacts DEF IInv, AtHead
  <1>3. ASSUME NEW t \in Threads, pc[t] = "pop_advance" PROVE my[t].node \in live
    <2>1. my[t].node = next[head] /\ next[head] # NULL /\ open
      BY <1>3, ChainFacts DEF IInv, CallInv
    <2>2. head = chain[1] /\ Len(chain) \in Nat /\ Len(chain) > 0
      BY <2>1, ChainFacts DEF IInv
    <2>a. Len(chain) \in Nat /\ 1 \in 1..Len(chain)
      BY <2>2
    <2>3. 1 \in 1..Len(chain) /\ (Len(chain) # 1 => 1 + 1 \in 1..Len(chain))
      BY ONLY <2>a, NextPosition
    <2>4. next[head] = IF 1 = Len(chain) THEN NULL ELSE chain[1 + 1]
      BY <2>2, <2>3 DEF IInv, ChainInv
    <2> QED BY <2>1, <2>3, <2>4, ChainFacts DEF IInv
  <1>4. ASSUME cursor # NULL PROVE cursor \in live
    BY <1>4, ChainFacts DEF IInv, ChainInv
  <1> QED BY <1>1, <1>2, <1>3, <1>4 DEF NoUseAfterFree

(* The slot a pusher writes is never the slot a popper reads.              *)
LEMMA RacesForNoSlot == IInv => NoDataRace
  <1> SUFFICES ASSUME IInv, NEW t \in Threads, NEW u \in Threads,
                      pc[t] = "push_write", pc[u] = "pop_read", head = tail
               PROVE  push_idx[tail] % RING_SIZE # pop_idx[head] % RING_SIZE
    BY DEF NoDataRace
  <1>1. pop_idx[head] < push_idx[tail] /\ push_idx[tail] - pop_idx[head] < RING_SIZE
    BY DEF IInv, CallInv
  <1>2. push_idx[tail] \in Nat /\ pop_idx[head] \in Nat
    BY TailFacts, IndexFacts DEF AtTail, IInv
  <1> QED BY <1>1, <1>2, SlotsApart, RingsQueueAssumption

(* RingsQueue_delete frees every ring. *)
LEMMA DeleteFreesAll == IInv => NoLeak
  <1> SUFFICES ASSUME IInv, ~open, cursor = NULL PROVE live = {}
    BY DEF NoLeak
  <1>1. chain = <<>>
    <2>1. chain # <<>> => cursor \in Addr
      BY ChainFacts DEF IInv, ChainInv
    <2> QED BY <2>1, RingsQueueAssumption
  <1>2. Len(chain) = 0
    BY <1>1
  <1> QED BY <1>2 DEF IInv, LiveInv

(* The rings form one list whose slots hold the items in order, and none of *)
(* them is touched when it is free, raced for or left behind.               *)
THEOREM RingsAreSafe == Spec => []RingsInv
  <1>1. IInv => RingsInv
    BY TouchesLiveRings, RacesForNoSlot, DeleteFreesAll DEF RingsInv, MemorySafe
  <1> QED BY <1>1, Invariance, PTL

-----------------------------------------------------------------------------
(* The refinement: what each step of RingsQueue is to FifoQueue.           *)

USE DEF Fifo!Call, Fifo!Become, Fifo!Answers

LEMMA CallAtValues ==
  /\ CallAt("idle") = "idle"
  /\ CallAt("push_lock") = "push" /\ CallAt("push_load") = "push" /\ CallAt("push_write") = "push"
  /\ CallAt("push_publish") = "push" /\ CallAt("push_new") = "push"
  /\ CallAt("push_swing") = "pushed" /\ CallAt("push_unlock") = "pushed"
  /\ CallAt("pop_lock") = "pop" /\ CallAt("pop_load_next") = "pop" /\ CallAt("pop_load_idx") = "pop"
  /\ CallAt("pop_advance") = "pop" /\ CallAt("pop_read") = "pop" /\ CallAt("pop_take") = "pop"
  /\ CallAt("popped") = "popped"
  /\ CallAt("empty_lock") = "is_empty" /\ CallAt("empty_load_idx") = "is_empty"
  /\ CallAt("empty_load_next") = "is_empty"
  /\ CallAt("was_empty") = "empty" /\ CallAt("was_not_empty") = "not_empty"
  BY DEF CallAt

(* A step of one thread changes the operation of that thread only, for the *)
(* slot another one has written and not yet published is left alone.       *)
LEMMA OpMoves ==
  ASSUME TypeOK, NEW t \in Threads, NEW there,
         pc' = [pc EXCEPT ![t] = there],
         \A u \in Threads \ {t} : my'[u] = my[u],
         \A u \in Threads \ {t} : pc[u] = "push_publish" => Written' = Written
  PROVE  abstractOp' = [abstractOp EXCEPT ![t] = Fifo!Call(CallAt(there), ItemOf(t)')]
  <1>1. \A u \in Threads \ {t} : pc'[u] = pc[u] /\ ItemOf(u)' = ItemOf(u)
    BY DEF TypeOK, ItemOf
  <1>2. pc'[t] = there
    BY DEF TypeOK
  <1> QED BY <1>1, <1>2 DEF abstractOp

(* A move between two places of the same call is nothing to FifoQueue.     *)
LEMMA OpStays ==
  ASSUME TypeOK, NEW t \in Threads, NEW there,
         pc' = [pc EXCEPT ![t] = there],
         \A u \in Threads \ {t} : my'[u] = my[u],
         \A u \in Threads \ {t} : pc[u] = "push_publish" => Written' = Written,
         CallAt(there) = CallAt(pc[t]), ItemOf(t)' = ItemOf(t)
  PROVE  abstractOp' = abstractOp
  <1>1. abstractOp' = [abstractOp EXCEPT ![t] = Fifo!Call(CallAt(there), ItemOf(t)')]
    BY OpMoves
  <1>2. abstractOp[t] = Fifo!Call(CallAt(pc[t]), ItemOf(t))
    BY DEF abstractOp
  <1> QED BY <1>1, <1>2 DEF abstractOp

LEMMA AmongAnswers ==
  ASSUME NEW S, NEW a, NEW b, TRUE \in S \/ a = TRUE \/ b = TRUE
  PROVE  {TRUE} \subseteq S \cup {b, a}
  OBVIOUS

(* Whoever now remembers an empty queue remembered it or sees it.          *)
LEMMA Watching ==
  ASSUME TypeOK', \A u \in Threads : SawEmpty(u)' =>
           SawEmpty(u) \/ abstractItems = <<>> \/ abstractItems' = <<>>
  PROVE  Fifo!Watch
  <1>1. abstractSeen' \in [Threads -> SUBSET BOOLEAN]
    BY DEF abstractSeen
  <1>2. ASSUME NEW u \in Threads, SawEmpty(u)'
        PROVE  abstractOp'[u].call \in {"pop", "is_empty"}
    <2>1. abstractOp'[u].call = CallAt(pc'[u])
      BY DEF abstractOp
    <2> QED BY <1>2, <2>1, CallAtValues DEF SawEmpty
  <1>3. \A u \in Threads : abstractSeen'[u] = IF SawEmpty(u)' THEN {TRUE} ELSE {}
    BY DEF abstractSeen
  <1>4. \A u \in Threads : abstractSeen[u] = IF SawEmpty(u) THEN {TRUE} ELSE {}
    BY DEF abstractSeen
  <1>5. ASSUME NEW u \in Threads
        PROVE  abstractSeen'[u] \subseteq
                 IF abstractOp'[u].call \in {"pop", "is_empty"}
                 THEN abstractSeen[u] \cup {abstractItems' = <<>>, abstractItems = <<>>}
                 ELSE {}
    <2>1. CASE ~SawEmpty(u)'
      BY <2>1, <1>3
    <2>2. CASE SawEmpty(u)'
      <3> DEFINE now == (abstractItems' = <<>>)
                 before == (abstractItems = <<>>)
      <3>1. TRUE \in abstractSeen[u] \/ before = TRUE \/ now = TRUE
        BY <2>2, <1>4
      <3>2. abstractSeen'[u] = {TRUE}
        BY <2>2, <1>3
      <3>3. abstractSeen'[u] \subseteq abstractSeen[u] \cup {now, before}
        <4> HIDE DEF now, before
        <4> QED BY <3>1, <3>2, AmongAnswers
      <3> QED BY <2>2, <3>3, <1>2
    <2> QED BY <2>1, <2>2
  <1> QED BY <1>1, <1>5 DEF Fifo!Watch

(* A step that leaves the head alone lets nobody forget or imagine.        *)
LEMMA WatchingAside ==
  ASSUME IInv, IInv', NEW t \in Threads, NEW there \in Places \ {"pop_load_idx", "empty_load_next"},
         pc' = [pc EXCEPT ![t] = there],
         \A u \in Threads \ {t} : my'[u] = my[u],
         head' = head, pop_idx'[head] = pop_idx[head], push_idx'[head] >= push_idx[head],
         next'[head] = NULL => next[head] = NULL
  PROVE  Fifo!Watch
  <1>1. ASSUME NEW u \in Threads, SawEmpty(u)' PROVE SawEmpty(u)
    <2>1. u # t /\ pc'[u] = pc[u] /\ my'[u] = my[u]
      BY <1>1 DEF IInv, TypeOK, SawEmpty
    <2>2. pc[u] # "idle"
      BY <1>1, <2>1 DEF SawEmpty
    <2>3. head \in Addr /\ head \in live
      BY <2>2, ChainFacts DEF IInv
    <2>4. push_idx[head] \in Nat /\ pop_idx[head] \in Nat /\ push_idx[head] >= pop_idx[head]
      BY <2>3, IndexFacts DEF IInv, IndexInv
    <2>5. push_idx'[head] \in Nat
      <3>1. \A a \in Addr : push_idx'[a] \in Nat
        BY RingsQueueAssumption DEF IInv, TypeOK, Indices
      <3> QED BY <2>3, <3>1
    <2>6. Drained(head)' => Drained(head)
      BY <2>4, <2>5 DEF Drained
    <2> QED BY <1>1, <2>1, <2>6 DEF SawEmpty, FoundEmpty
  <1> QED BY <1>1, Watching DEF IInv

(* The holder of pop_mtx is the only one who may have seen anything.       *)
LEMMA WatchingPopper ==
  ASSUME IInv, IInv', NEW t \in Threads, NEW there \in Places,
         HasPop(t), pc' = [pc EXCEPT ![t] = there],
         SawEmpty(t)' => abstractItems = <<>>
  PROVE  Fifo!Watch
  <1>1. ASSUME NEW u \in Threads, u # t PROVE ~SawEmpty(u)'
    <2>1. ~HasPop(u) /\ pc'[u] = pc[u]
      BY <1>1 DEF IInv, TypeOK, MutexInv
    <2> QED BY <2>1 DEF HasPop, SawEmpty
  <1> QED BY <1>1, Watching DEF IInv

-----------------------------------------------------------------------------
(* The contents of the queue. *)

LEMMA ItemType ==
  ASSUME TypeOK, NEW a \in Addr, NEW i \in Nat
  PROVE  ItemAt(Slot(a, i)) \in Item
  <1>1. i % RING_SIZE \in Slots
    BY ModBounds, RingsQueueAssumption DEF Slots
  <1> QED BY <1>1 DEF TypeOK, ItemAt, Slot

LEMMA ContentsSeq ==
  ASSUME TypeOK
  PROVE  /\ abstractItems \in Seq(Item)
         /\ Len(abstractItems) = Len(queued)
         /\ \A i \in 1..Len(queued) : abstractItems[i] = ItemAt(queued[i])
  <1>1. Len(queued) \in Nat
    BY IndexFacts
  <1>2. \A i \in 1..Len(queued) : ItemAt(queued[i]) \in Item
    BY IndexFacts, ItemType
  <1> QED BY <1>1, <1>2, IsASeq DEF abstractItems

LEMMA ContentsSeqNext ==
  ASSUME TypeOK'
  PROVE  /\ abstractItems' \in Seq(Item)
         /\ Len(abstractItems') = Len(queued')
         /\ \A i \in 1..Len(queued') : abstractItems'[i] = ItemAt(queued[i])'
  <1>1. Len(queued') \in Nat /\ \A i \in 1..Len(queued') : queued'[i] \in [ring : Addr, index : Nat]
    BY LenProperties, ElementOfSeq DEF TypeOK
  <1>2. ASSUME NEW i \in 1..Len(queued') PROVE ItemAt(queued[i])' \in Item
    <2>1. queued'[i].ring \in Addr /\ queued'[i].index % RING_SIZE \in Slots
      BY <1>1, ModBounds, RingsQueueAssumption DEF Slots
    <2> QED BY <2>1 DEF TypeOK, ItemAt
  <1> QED BY <1>1, <1>2, IsASeq DEF abstractItems

LEMMA ContentsEmpty ==
  ASSUME TypeOK
  PROVE  abstractItems = <<>> <=> queued = <<>>
  <1>1. abstractItems \in Seq(Item) /\ Len(abstractItems) = Len(queued)
    BY ContentsSeq
  <1>2. abstractItems = <<>> <=> Len(abstractItems) = 0
    BY <1>1, EmptySeq
  <1>3. queued = <<>> <=> Len(queued) = 0
    BY EmptySeq DEF TypeOK
  <1> QED BY <1>1, <1>2, <1>3

(* The queue is empty exactly when the head is drained and the last ring.  *)
LEMMA EmptyQueue ==
  ASSUME IInv, open
  PROVE  abstractItems = <<>> <=> Drained(head) /\ next[head] = NULL
  BY ContentsEmpty DEF IInv, QueuedInv

LEMMA ItemsStay ==
  ASSUME queued' = queued, \A i \in 1..Len(queued) : ItemAt(queued[i])' = ItemAt(queued[i])
  PROVE  abstractItems' = abstractItems
  BY DEF abstractItems

LEMMA BufferStays ==
  ASSUME queued' = queued, buffer' = buffer
  PROVE  abstractItems' = abstractItems
  BY DEF abstractItems, ItemAt

-----------------------------------------------------------------------------
LEMMA CallRefines ==
  ASSUME IInv, IInv', NEW t \in Threads, Invoke(t)
  PROVE  Fifo!FifoNext
  <1> USE DEF IInv, Invoke, CallPush, CallPop, CallIsEmpty, From, locks, ring, owner, history
  <1>0. PICK there \in {"push_lock", "pop_lock", "empty_lock"} : pc' = [pc EXCEPT ![t] = there]
    OBVIOUS
  <1>1. Fifo!Watch
    <2>1. /\ \A u \in Threads \ {t} : my'[u] = my[u]
          /\ head' = head /\ pop_idx' = pop_idx /\ push_idx' = push_idx /\ next' = next
      BY DEF TypeOK
    <2>2. head \in Addr /\ push_idx[head] \in Nat
      BY ChainFacts, IndexFacts
    <2>3. there \in Places \ {"pop_load_idx", "empty_load_next"}
      BY DEF Places
    <2>4. push_idx'[head] >= push_idx[head] /\ pop_idx'[head] = pop_idx[head]
      BY <2>1, <2>2
    <2> QED BY <1>0, <2>1, <2>3, <2>4, WatchingAside
  <1>2. abstractItems' = abstractItems
    BY BufferStays
  <1>3. abstractOp[t] = Fifo!Idle
    BY CallAtValues DEF abstractOp, ItemOf, Fifo!Idle
  <1>4. abstractOp' = [abstractOp EXCEPT ![t] = Fifo!Call(CallAt(there), ItemOf(t)')]
    <2>1. Written' = Written /\ \A u \in Threads \ {t} : my'[u] = my[u]
      BY DEF Written, TypeOK
    <2> QED BY <1>0, <2>1, OpMoves
  <1>5. CASE \E v \in Values : CallPush(t, v)
    <2>1. PICK v \in Values : CallPush(t, v)
      BY <1>5
    <2>2. pc'[t] = "push_lock" /\ there = "push_lock" /\ my'[t].item = v
      BY <2>1, <1>0 DEF TypeOK
    <2>3. abstractOp' = [abstractOp EXCEPT ![t] = Fifo!Call("push", v)]
      BY <2>2, <1>4, CallAtValues DEF ItemOf
    <2> QED BY <2>3, <1>1, <1>2, <1>3 DEF Fifo!FifoNext, Fifo!Invoke
  <1>6. CASE CallPop(t) \/ CallIsEmpty(t)
    <2>1. pc'[t] = there /\ there \in {"pop_lock", "empty_lock"}
      BY <1>6, <1>0 DEF TypeOK
    <2>2. \/ abstractOp' = [abstractOp EXCEPT ![t] = Fifo!Call("pop", EMPTY_VALUE)]
          \/ abstractOp' = [abstractOp EXCEPT ![t] = Fifo!Call("is_empty", EMPTY_VALUE)]
      BY <2>1, <1>4, CallAtValues DEF ItemOf
    <2> QED BY <2>2, <1>1, <1>2, <1>3 DEF Fifo!FifoNext, Fifo!Invoke
  <1> QED BY <1>5, <1>6

(* Locking, choosing what to do, and reading a slot do not show.           *)
LEMMA QuietRefines ==
  ASSUME IInv, IInv', NEW t \in Threads,
         LockPush(t) \/ PushLoad(t) \/ LockPop(t) \/ PopRead(t)
  PROVE  Fifo!FifoNext
  <1> USE DEF IInv, LockPush, PushLoad, LockPop, PopRead, From, locks, ring, owner, history
  <1>0. PICK there \in {"push_load", "push_write", "push_new", "pop_load_next", "empty_load_idx",
                        "pop_take"} :
          /\ pc' = [pc EXCEPT ![t] = there]
          /\ CallAt(there) = CallAt(pc[t])
    BY CallAtValues
  <1>a. \A u \in Threads \ {t} : my'[u] = my[u]
    BY DEF TypeOK
  <1>1. Fifo!Watch
    <2>1. head' = head /\ pop_idx' = pop_idx /\ push_idx' = push_idx /\ next' = next
      OBVIOUS
    <2>2. head \in Addr /\ push_idx[head] \in Nat
      BY ChainFacts, IndexFacts
    <2>3. there \in Places \ {"pop_load_idx", "empty_load_next"}
      BY DEF Places
    <2>4. push_idx'[head] >= push_idx[head] /\ pop_idx'[head] = pop_idx[head]
      BY <2>1, <2>2
    <2> QED BY <1>0, <1>a, <2>1, <2>3, <2>4, WatchingAside
  <1>2. abstractItems' = abstractItems
    BY BufferStays
  <1>3. ItemOf(t)' = ItemOf(t)
    BY DEF ItemOf, TypeOK
  <1>4. abstractOp' = abstractOp
    <2>1. Written' = Written
      BY DEF Written
    <2> QED BY <1>0, <1>a, <1>3, <2>1, OpStays
  <1> QED BY <1>1, <1>2, <1>4 DEF Fifo!FifoNext, Fifo!Look

(* The slot a pusher writes holds no item yet (l.86).                      *)
LEMMA PushWriteRefines ==
  ASSUME IInv, IInv', NEW t \in Threads, PushWrite(t)
  PROVE  Fifo!FifoNext
  <1> USE RingsQueueAssumption DEF IInv
  <1>0. /\ pc[t] = "push_write" /\ pc' = [pc EXCEPT ![t] = "push_publish"]
        /\ buffer' = [buffer EXCEPT ![tail][push_idx[tail] % RING_SIZE] = my[t].item]
        /\ my' = [my EXCEPT ![t] = Blank]
        /\ head' = head /\ tail' = tail /\ next' = next /\ push_idx' = push_idx /\ pop_idx' = pop_idx
        /\ queued' = queued
    BY DEF PushWrite, From, history
  <1>a. tail \in Addr /\ push_idx[tail] \in Nat /\ pop_idx[tail] \in Nat /\ push_idx[tail] % RING_SIZE \in Slots
    <2>1. tail \in Addr /\ push_idx[tail] \in Nat /\ pop_idx[tail] \in Nat
      BY <1>0, TailFacts, IndexFacts DEF AtTail
    <2> QED BY <2>1, ModBounds DEF Slots
  <1>1. Fifo!Watch
    <2>1. head \in Addr /\ push_idx[head] \in Nat
      BY <1>0, ChainFacts, IndexFacts
    <2>2. "push_publish" \in Places \ {"pop_load_idx", "empty_load_next"}
      BY DEF Places
    <2>3. push_idx'[head] >= push_idx[head] /\ pop_idx'[head] = pop_idx[head]
      BY <1>0, <2>1
    <2>4. \A u \in Threads \ {t} : my'[u] = my[u]
      BY <1>0 DEF TypeOK
    <2> QED BY <1>0, <2>2, <2>3, <2>4, WatchingAside
  <1>2. abstractItems' = abstractItems
    <2> SUFFICES ASSUME NEW i \in 1..Len(queued) PROVE ItemAt(queued[i])' = ItemAt(queued[i])
      BY <1>0, ItemsStay
    <2>1. queued' = queued /\ queued[i].ring \in Addr /\ queued[i].index \in Nat
      BY <1>0, IndexFacts
    <2>2. CASE queued[i].ring = tail
      <3>1. pop_idx[tail] <= queued[i].index /\ queued[i].index < push_idx[tail]
        BY <2>2 DEF QueuedInv
      <3>2. push_idx[tail] - pop_idx[tail] < RING_SIZE
        BY <1>0 DEF CallInv
      <3>3. push_idx[tail] - queued[i].index < RING_SIZE
        BY <3>1, <3>2, <2>1, <1>a
      <3>4. queued[i].index % RING_SIZE # push_idx[tail] % RING_SIZE
        BY <3>1, <3>3, <2>1, <1>a, SlotsApart
      <3>5. queued[i].index % RING_SIZE \in Slots
        BY <2>1, ModBounds DEF Slots
      <3> QED BY <1>0, <1>a, <2>1, <2>2, <3>4, <3>5 DEF TypeOK, ItemAt
    <2>3. CASE queued[i].ring # tail
      BY <1>0, <1>a, <2>1, <2>3 DEF TypeOK, ItemAt
    <2> QED BY <2>2, <2>3
  <1>3. ItemOf(t)' = ItemOf(t)
    <2>1. pc'[t] = "push_publish" /\ Written' = my[t].item
      BY <1>0, <1>a DEF TypeOK, Written
    <2> QED BY <1>0, <2>1 DEF ItemOf
  <1>4. abstractOp' = abstractOp
    <2>1. \A u \in Threads \ {t} : my'[u] = my[u] /\ pc[u] # "push_publish"
      BY <1>0 DEF TypeOK, MutexInv, HasPush
    <2> QED BY <1>0, <1>3, <2>1, OpStays, CallAtValues
  <1> QED BY <1>1, <1>2, <1>4 DEF Fifo!FifoNext, Fifo!Look

(* A new slot at the end appends its item to the contents.                 *)
LEMMA ContentsAppend ==
  ASSUME TypeOK, TypeOK', NEW a \in Addr, NEW i \in Nat, NEW v,
         queued' = Append(queued, Slot(a, i)), buffer'[a][i % RING_SIZE] = v,
         \A j \in 1..Len(queued) :
           buffer'[queued[j].ring][queued[j].index % RING_SIZE] = ItemAt(queued[j])
  PROVE  abstractItems' = Append(abstractItems, v)
  <1> DEFINE n == Len(queued)
             A == Append(abstractItems, v)
  <1>1. /\ abstractItems \in Seq(Item) /\ Len(abstractItems) = n
        /\ \A j \in 1..n : abstractItems[j] = ItemAt(queued[j])
    BY ContentsSeq
  <1>2. /\ abstractItems' \in Seq(Item) /\ Len(abstractItems') = Len(queued')
        /\ \A j \in 1..Len(queued') : abstractItems'[j] = ItemAt(queued[j])'
    <2>1. TypeOK' => /\ abstractItems' \in Seq(Item) /\ Len(abstractItems') = Len(queued')
                      /\ \A j \in 1..Len(queued') : abstractItems'[j] = ItemAt(queued[j])'
      BY ContentsSeqNext
    <2> QED BY <2>1
  <1>3. /\ n \in Nat /\ Len(queued') = n + 1 /\ queued'[n + 1] = Slot(a, i)
        /\ \A j \in 1..n : queued'[j] = queued[j]
    <2>1. queued \in Seq([ring : Addr, index : Nat]) /\ Slot(a, i) \in [ring : Addr, index : Nat]
      BY DEF TypeOK, Slot
    <2> QED BY <2>1, AppendPositions
  <1>4. v \in Item
    <2>1. i % RING_SIZE \in Slots
      BY ModBounds, RingsQueueAssumption DEF Slots
    <2> QED BY <2>1 DEF TypeOK
  <1>5. /\ A \in Seq(Item) /\ Len(A) = n + 1 /\ A[n + 1] = v
        /\ \A j \in 1..n : A[j] = abstractItems[j]
    BY <1>1, <1>3, <1>4, AppendPositions
  <1>6. ASSUME NEW j \in 1..(n + 1) PROVE abstractItems'[j] = A[j]
    <2>1. CASE j = n + 1
      <3>1. abstractItems'[j] = buffer'[queued'[j].ring][queued'[j].index % RING_SIZE]
        BY <2>1, <1>2, <1>3 DEF ItemAt
      <3> QED BY <2>1, <3>1, <1>3, <1>5 DEF Slot
    <2>2. CASE j \in 1..n
      <3>1. j \in 1..Len(queued') /\ queued'[j] = queued[j]
        BY <2>2, <1>3
      <3>2. abstractItems'[j] = buffer'[queued[j].ring][queued[j].index % RING_SIZE]
        BY <3>1, <1>2 DEF ItemAt
      <3> QED BY <2>2, <3>2, <1>1, <1>5
    <2>3. n \in Nat => j \in 1..n \/ j = n + 1
      OBVIOUS
    <2> QED BY <2>1, <2>2, <2>3, <1>3
  <1> QED BY <1>2, <1>3, <1>5, <1>6, SeqEqual

(* push takes effect when it increments push_idx (l.87).                   *)
LEMMA PushPublishRefines ==
  ASSUME IInv, IInv', NEW t \in Threads, PushPublish(t)
  PROVE  Fifo!FifoNext
  <1> USE RingsQueueAssumption DEF IInv
  <1>0. /\ pc[t] = "push_publish" /\ pc' = [pc EXCEPT ![t] = "push_unlock"]
        /\ push_idx' = [push_idx EXCEPT ![tail] = @ + 1]
        /\ queued' = Append(queued, Slot(tail, push_idx[tail]))
        /\ head' = head /\ tail' = tail /\ next' = next /\ buffer' = buffer /\ pop_idx' = pop_idx
        /\ my' = my
    BY DEF PushPublish, From
  <1>a. tail \in Addr /\ push_idx[tail] \in Nat /\ head \in Addr /\ push_idx[head] \in Nat
    BY <1>0, TailFacts, ChainFacts, IndexFacts DEF AtTail
  <1>1. Fifo!Watch
    <2>1. "push_unlock" \in Places \ {"pop_load_idx", "empty_load_next"}
      BY DEF Places
    <2>2. push_idx'[head] \in {push_idx[head], push_idx[head] + 1}
      BY <1>0, <1>a DEF TypeOK
    <2>3. push_idx'[head] >= push_idx[head]
      BY <2>2, <1>a
    <2> QED BY <1>0, <2>1, <2>3, WatchingAside
  <1>2. abstractItems' = Append(abstractItems, Written)
    <2>1. \A j \in 1..Len(queued) : buffer'[queued[j].ring][queued[j].index % RING_SIZE] = ItemAt(queued[j])
      BY <1>0 DEF ItemAt
    <2>2. buffer'[tail][push_idx[tail] % RING_SIZE] = Written
      BY <1>0 DEF Written
    <2> QED BY <1>0, <1>a, <2>1, <2>2, ContentsAppend
  <1>3. abstractOp[t].call = "push" /\ abstractOp[t].item = Written
    BY <1>0, CallAtValues DEF abstractOp, ItemOf
  <1>4. abstractOp' = [abstractOp EXCEPT ![t] = Fifo!Call("pushed", EMPTY_VALUE)]
    <2>1. pc'[t] = "push_unlock" /\ \A u \in Threads \ {t} : my'[u] = my[u] /\ pc[u] # "push_publish"
      BY <1>0 DEF TypeOK, MutexInv, HasPush
    <2>2. ItemOf(t)' = EMPTY_VALUE
      BY <2>1 DEF ItemOf
    <2>3. abstractOp' = [abstractOp EXCEPT ![t] = Fifo!Call(CallAt("push_unlock"), ItemOf(t)')]
      BY <1>0, <2>1, OpMoves
    <2> QED BY <2>2, <2>3, CallAtValues
  <1> QED BY <1>1, <1>2, <1>3, <1>4 DEF Fifo!FifoNext, Fifo!Push

(* A push that found its ring full takes effect when it links a new one    *)
(* with its item (l.93).                                                   *)
LEMMA PushNewRefines ==
  ASSUME IInv, IInv', NEW t \in Threads, PushNew(t)
  PROVE  Fifo!FifoNext
  <1> USE RingsQueueAssumption DEF IInv
  <1>0. /\ pc[t] = "push_new" /\ pc' = [pc EXCEPT ![t] = "push_swing"]
        /\ head' = head /\ tail' = tail
    BY DEF PushNew, From
  <1>n. PICK a \in Addr :
          /\ a \notin live
          /\ next' = [next EXCEPT ![a] = NULL, ![tail] = a]
          /\ buffer' = [buffer EXCEPT ![a][0] = my[t].item]
          /\ push_idx' = [push_idx EXCEPT ![a] = 1]
          /\ pop_idx' = [pop_idx EXCEPT ![a] = 0]
          /\ my' = [my EXCEPT ![t] = [Blank EXCEPT !.node = a]]
          /\ queued' = Append(queued, Slot(a, 0))
    BY DEF PushNew, Malloc
  <1>a. /\ head \in Addr /\ head # a /\ push_idx[head] \in Nat /\ tail \in Addr
        /\ \A i \in 1..Len(queued) : /\ queued[i].ring \in Addr /\ queued[i].index \in Nat
                                     /\ queued[i].ring # a
    BY <1>0, <1>n, ChainFacts, IndexFacts, TailFacts DEF AtTail, QueuedInv
  <1>b. \A u \in Threads \ {t} : my'[u] = my[u] /\ pc[u] # "push_publish"
    BY <1>0, <1>n DEF TypeOK, MutexInv, HasPush
  <1>1. Fifo!Watch
    <2>1. "push_swing" \in Places \ {"pop_load_idx", "empty_load_next"}
      BY DEF Places
    <2>2. push_idx'[head] = push_idx[head] /\ pop_idx'[head] = pop_idx[head]
      BY <1>n, <1>a DEF TypeOK
    <2>3. next'[head] = NULL => next[head] = NULL
      BY <1>n, <1>a DEF TypeOK
    <2>4. push_idx'[head] >= push_idx[head]
      BY <2>2, <1>a
    <2> QED BY <1>0, <1>b, <2>1, <2>2, <2>3, <2>4, WatchingAside
  <1>2. abstractItems' = Append(abstractItems, my[t].item)
    <2>1. \A j \in 1..Len(queued) : buffer'[queued[j].ring][queued[j].index % RING_SIZE] = ItemAt(queued[j])
      BY <1>n, <1>a DEF ItemAt, TypeOK
    <2>2. 0 \in Nat /\ 0 % RING_SIZE = 0 /\ 0 \in Slots
      BY DEF Slots
    <2>3. buffer'[a][0 % RING_SIZE] = my[t].item
      BY <1>n, <2>2 DEF TypeOK
    <2> QED BY <1>n, <2>1, <2>2, <2>3, ContentsAppend
  <1>3. abstractOp[t].call = "push" /\ abstractOp[t].item = my[t].item
    BY <1>0, CallAtValues DEF abstractOp, ItemOf
  <1>4. abstractOp' = [abstractOp EXCEPT ![t] = Fifo!Call("pushed", EMPTY_VALUE)]
    <2>1. pc'[t] = "push_swing"
      BY <1>0 DEF TypeOK
    <2>2. ItemOf(t)' = EMPTY_VALUE
      BY <2>1 DEF ItemOf
    <2>3. abstractOp' = [abstractOp EXCEPT ![t] = Fifo!Call(CallAt("push_swing"), ItemOf(t)')]
      BY <1>0, <1>b, OpMoves
    <2> QED BY <2>2, <2>3, CallAtValues
  <1> QED BY <1>1, <1>2, <1>3, <1>4 DEF Fifo!FifoNext, Fifo!Push

(* The store to queue->tail (l.94) does not show.                          *)
LEMMA PushSwingRefines ==
  ASSUME IInv, IInv', NEW t \in Threads, PushSwing(t)
  PROVE  Fifo!FifoNext
  <1> USE DEF IInv
  <1>0. /\ pc[t] = "push_swing" /\ pc' = [pc EXCEPT ![t] = "push_unlock"]
        /\ my' = [my EXCEPT ![t] = Blank]
        /\ head' = head /\ next' = next /\ buffer' = buffer /\ push_idx' = push_idx /\ pop_idx' = pop_idx
        /\ queued' = queued
    BY DEF PushSwing, From, ring, history
  <1>a. head \in Addr /\ push_idx[head] \in Nat
    BY <1>0, ChainFacts, IndexFacts
  <1>b. pc'[t] = "push_unlock" /\ \A u \in Threads \ {t} : my'[u] = my[u] /\ pc[u] # "push_publish"
    BY <1>0 DEF TypeOK, MutexInv, HasPush
  <1>1. Fifo!Watch
    <2>1. "push_unlock" \in Places \ {"pop_load_idx", "empty_load_next"}
      BY DEF Places
    <2>2. push_idx'[head] >= push_idx[head]
      BY <1>0, <1>a
    <2> QED BY <1>0, <1>b, <2>1, <2>2, WatchingAside
  <1>2. abstractItems' = abstractItems
    BY <1>0, BufferStays
  <1>3. ItemOf(t)' = ItemOf(t)
    BY <1>0, <1>b DEF ItemOf
  <1>4. abstractOp' = abstractOp
    BY <1>0, <1>b, <1>3, OpStays, CallAtValues
  <1> QED BY <1>1, <1>2, <1>4 DEF Fifo!FifoNext, Fifo!Look

(* The three returns. *)
LEMMA ReturnRefines ==
  ASSUME IInv, IInv', NEW t \in Threads, Return(t)
  PROVE  Fifo!FifoNext
  <1> USE DEF IInv
  <1>0. /\ pc[t] \in {"push_unlock", "popped", "was_empty", "was_not_empty"}
        /\ pc' = [pc EXCEPT ![t] = "idle"]
        /\ \A u \in Threads \ {t} : my'[u] = my[u]
        /\ head' = head /\ tail' = tail /\ next' = next /\ buffer' = buffer
        /\ push_idx' = push_idx /\ pop_idx' = pop_idx /\ queued' = queued
    BY DEF Return, PushReturn, PopReturn, IsEmptyReturn, From, ring, history, TypeOK
  <1>a. head \in Addr /\ push_idx[head] \in Nat
    BY <1>0, ChainFacts, IndexFacts
  <1>1. Fifo!Watch
    <2>1. "idle" \in Places \ {"pop_load_idx", "empty_load_next"}
      BY DEF Places
    <2>2. push_idx'[head] >= push_idx[head]
      BY <1>0, <1>a
    <2> QED BY <1>0, <2>1, <2>2, WatchingAside
  <1>2. abstractItems' = abstractItems
    BY <1>0, BufferStays
  <1>3. abstractOp' = [abstractOp EXCEPT ![t] = Fifo!Idle]
    <2>1. pc'[t] = "idle"
      BY <1>0 DEF TypeOK
    <2>2. ItemOf(t)' = EMPTY_VALUE
      BY <2>1 DEF ItemOf
    <2>3. Written' = Written
      BY <1>0 DEF Written
    <2>4. abstractOp' = [abstractOp EXCEPT ![t] = Fifo!Call(CallAt("idle"), ItemOf(t)')]
      BY <1>0, <2>3, OpMoves
    <2> QED BY <2>2, <2>4, CallAtValues DEF Fifo!Idle
  <1>4. abstractOp[t].call \in Fifo!Answers
    BY <1>0, CallAtValues DEF abstractOp
  <1> QED BY <1>1, <1>2, <1>3, <1>4 DEF Fifo!FifoNext, Fifo!Return

(* pop finds out that the queue was empty when it reads push_idx, but it   *)
(* was when it read next_node (l.111).                                     *)
LEMMA PopLoadNextRefines ==
  ASSUME IInv, IInv', NEW t \in Threads, PopLoadNext(t)
  PROVE  Fifo!FifoNext
  <1> USE DEF IInv
  <1>0. /\ pc[t] = "pop_load_next" /\ pc' = [pc EXCEPT ![t] = "pop_load_idx"]
        /\ my' = [my EXCEPT ![t].node = next[head]]
        /\ head' = head /\ tail' = tail /\ next' = next /\ buffer' = buffer
        /\ push_idx' = push_idx /\ pop_idx' = pop_idx /\ queued' = queued
    BY DEF PopLoadNext, From, ring, history
  <1>a. pc'[t] = "pop_load_idx" /\ my'[t].node = next[head] /\ open
    BY <1>0, ChainFacts DEF TypeOK
  <1>1. Fifo!Watch
    <2>1. ASSUME SawEmpty(t)' PROVE abstractItems = <<>>
      <3>1. next[head] = NULL /\ pop_idx[head] = push_idx[head]
        BY <2>1, <1>0, <1>a DEF SawEmpty, Drained
      <3> QED BY <3>1, <1>a, EmptyQueue DEF Drained
    <2>2. HasPop(t) /\ "pop_load_idx" \in Places
      BY <1>0 DEF HasPop, Places
    <2> QED BY <1>0, <2>1, <2>2, WatchingPopper
  <1>2. abstractItems' = abstractItems
    BY <1>0, BufferStays
  <1>3. ItemOf(t)' = ItemOf(t)
    BY <1>0, <1>a DEF ItemOf
  <1>4. abstractOp' = abstractOp
    <2>1. Written' = Written /\ \A u \in Threads \ {t} : my'[u] = my[u]
      BY <1>0 DEF Written, TypeOK
    <2> QED BY <1>0, <1>3, <2>1, OpStays, CallAtValues
  <1> QED BY <1>1, <1>2, <1>4 DEF Fifo!FifoNext, Fifo!Look

LEMMA PopLoadIdxRefines ==
  ASSUME IInv, IInv', NEW t \in Threads, PopLoadIdx(t)
  PROVE  Fifo!FifoNext
  <1> USE DEF IInv
  <1>0. /\ pc[t] = "pop_load_idx"
        /\ \/ Drained(head) /\ my[t].node = NULL /\ pc' = [pc EXCEPT ![t] = "popped"]
           \/ pc' = [pc EXCEPT ![t] = "pop_advance"]
           \/ pc' = [pc EXCEPT ![t] = "pop_read"]
        /\ my' = my
        /\ head' = head /\ tail' = tail /\ next' = next /\ buffer' = buffer
        /\ push_idx' = push_idx /\ pop_idx' = pop_idx /\ queued' = queued
    BY DEF PopLoadIdx, From, ring, history
  <1>a. HasPop(t) /\ Written' = Written /\ my[t].item = EMPTY_VALUE
    BY <1>0 DEF HasPop, Written, CallInv
  <1>1. Fifo!Watch
    <2>1. PICK there \in {"popped", "pop_advance", "pop_read"} : pc' = [pc EXCEPT ![t] = there]
      BY <1>0
    <2>2. ~SawEmpty(t)'
      BY <2>1 DEF TypeOK, SawEmpty
    <2>3. there \in Places
      BY DEF Places
    <2> QED BY <1>a, <2>1, <2>2, <2>3, WatchingPopper
  <1>2. abstractItems' = abstractItems
    BY <1>0, BufferStays
  <1>3. abstractOp[t].call = "pop"
    BY <1>0, CallAtValues DEF abstractOp
  <1>4. CASE Drained(head) /\ my[t].node = NULL /\ pc' = [pc EXCEPT ![t] = "popped"]
    <2>1. pc'[t] = "popped" /\ ItemOf(t)' = EMPTY_VALUE
      BY <1>4, <1>0, <1>a DEF TypeOK, ItemOf
    <2>2. abstractOp' = [abstractOp EXCEPT ![t] = Fifo!Call(CallAt("popped"), ItemOf(t)')]
      BY <1>4, <1>0, <1>a, OpMoves
    <2>3. abstractOp' = [abstractOp EXCEPT ![t] = Fifo!Call("popped", EMPTY_VALUE)]
      BY <2>1, <2>2, CallAtValues
    <2>4. TRUE \in abstractSeen[t]
      BY <1>0, <1>4 DEF abstractSeen, SawEmpty
    <2> QED BY <1>1, <1>2, <1>3, <2>3, <2>4 DEF Fifo!FifoNext, Fifo!PopEmpty, Fifo!WasTrue
  <1>5. ASSUME NEW there \in {"pop_advance", "pop_read"}, pc' = [pc EXCEPT ![t] = there]
        PROVE  Fifo!FifoNext
    <2>1. pc'[t] = there /\ ItemOf(t)' = ItemOf(t)
      BY <1>5, <1>0 DEF TypeOK, ItemOf
    <2>2. CallAt(there) = CallAt(pc[t])
      BY <1>0, CallAtValues
    <2>3. abstractOp' = abstractOp
      BY <1>5, <1>0, <1>a, <2>1, <2>2, OpStays
    <2> QED BY <1>1, <1>2, <2>3 DEF Fifo!FifoNext, Fifo!Look
  <1> QED BY <1>0, <1>4, <1>5

(* No item is in the ring that is freed (l.121), and nobody writes to it.  *)
LEMMA PopAdvanceRefines ==
  ASSUME IInv, IInv', NEW t \in Threads, PopAdvance(t)
  PROVE  Fifo!FifoNext
  <1> USE RingsQueueAssumption DEF IInv
  <1>0. /\ pc[t] = "pop_advance" /\ pc' = [pc EXCEPT ![t] = "pop_load_next"]
        /\ my' = [my EXCEPT ![t] = Blank]
        /\ buffer' = [buffer EXCEPT ![head] = NoItems]
        /\ push_idx' = [push_idx EXCEPT ![head] = 0]
        /\ tail' = tail /\ queued' = queued
    BY DEF PopAdvance, From, Free
  <1>a. HasPop(t) /\ pc'[t] = "pop_load_next" /\ \A u \in Threads \ {t} : my'[u] = my[u]
    BY <1>0 DEF HasPop, TypeOK
  <1>b. head \in Addr /\ Drained(head) /\ next[head] # NULL /\ push_idx[head] \in Nat
    BY <1>0, ChainFacts, IndexFacts DEF CallInv
  <1>1. Fifo!Watch
    <2>1. ~SawEmpty(t)' /\ "pop_load_next" \in Places
      BY <1>a DEF SawEmpty, Places
    <2> QED BY <1>0, <1>a, <2>1, WatchingPopper
  <1>2. abstractItems' = abstractItems
    <2> SUFFICES ASSUME NEW i \in 1..Len(queued) PROVE ItemAt(queued[i])' = ItemAt(queued[i])
      BY <1>0, ItemsStay
    <2>1. queued[i].ring \in Addr /\ queued[i].index \in Nat
      BY IndexFacts
    <2>2. queued[i].ring # head
      BY <2>1, <1>b DEF QueuedInv, Drained
    <2> QED BY <2>1, <2>2, <1>0, <1>b DEF TypeOK, ItemAt
  <1>3. ItemOf(t)' = ItemOf(t)
    BY <1>0, <1>a DEF ItemOf
  <1>4. abstractOp' = abstractOp
    <2>1. ASSUME NEW u \in Threads, pc[u] = "push_publish" PROVE Written' = Written
      <3>1. tail # head /\ tail \in Addr
        BY <2>1, <1>b, TailFacts DEF AtTail
      <3> QED BY <3>1, <1>0, <1>b DEF TypeOK, Written
    <2> QED BY <1>0, <1>a, <1>3, <2>1, OpStays, CallAtValues
  <1> QED BY <1>1, <1>2, <1>4 DEF Fifo!FifoNext, Fifo!Look

(* pop takes effect when it increments pop_idx (l.130).                    *)
LEMMA PopTakeRefines ==
  ASSUME IInv, IInv', NEW t \in Threads, PopTake(t)
  PROVE  Fifo!FifoNext
  <1> USE RingsQueueAssumption DEF IInv
  <1>0. /\ pc[t] = "pop_take" /\ pc' = [pc EXCEPT ![t] = "popped"]
        /\ queued' = Tail(queued) /\ buffer' = buffer /\ my' = my
        /\ tail' = tail /\ push_idx' = push_idx
    BY DEF PopTake, From
  <1>a. HasPop(t) /\ pc'[t] = "popped" /\ Written' = Written
    BY <1>0 DEF HasPop, TypeOK, Written
  <1>b. /\ head \in Addr /\ pop_idx[head] \in Nat /\ open /\ ~Drained(head)
        /\ my[t].item = buffer[head][pop_idx[head] % RING_SIZE]
    <2>1. head \in Addr /\ pop_idx[head] \in Nat /\ push_idx[head] \in Nat /\ open
      BY <1>0, ChainFacts, IndexFacts
    <2> QED BY <2>1, <1>0 DEF CallInv, Drained
  <1>1. Fifo!Watch
    <2>1. ~SawEmpty(t)' /\ "popped" \in Places
      BY <1>a DEF SawEmpty, Places
    <2> QED BY <1>0, <1>a, <2>1, WatchingPopper
  <1>2. /\ queued # <<>> /\ queued[1] = Slot(head, pop_idx[head])
        /\ Len(queued) \in Nat \ {0}
        /\ Len(queued') = Len(queued) - 1
        /\ \A i \in 1..(Len(queued) - 1) : queued'[i] = queued[i + 1]
    <2>1. queued # <<>> /\ queued[1] = Slot(head, pop_idx[head])
      BY <1>b DEF QueuedInv
    <2> QED BY <2>1, <1>0, TailPositions DEF TypeOK
  <1>3. /\ abstractItems \in Seq(Item) /\ Len(abstractItems) = Len(queued)
        /\ \A i \in 1..Len(queued) : abstractItems[i] = ItemAt(queued[i])
        /\ abstractItems # <<>>
    BY <1>2, ContentsSeq, ContentsEmpty
  <1>4. Head(abstractItems) = my[t].item
    <2>1. 1 \in 1..Len(queued)
      BY <1>2
    <2>2. abstractItems[1] = my[t].item
      BY <2>1, <1>2, <1>3, <1>b DEF ItemAt, Slot
    <2> QED BY <2>2, <1>3
  <1>5. abstractItems' = Tail(abstractItems)
    <2> DEFINE n == Len(queued) - 1
    <2>1. /\ Tail(abstractItems) \in Seq(Item) /\ Len(Tail(abstractItems)) = n
          /\ \A i \in 1..n : Tail(abstractItems)[i] = abstractItems[i + 1]
      BY <1>3, TailPositions
    <2>2. /\ abstractItems' \in Seq(Item) /\ Len(abstractItems') = n
          /\ \A i \in 1..n : abstractItems'[i] = ItemAt(queued[i])'
      BY <1>2, ContentsSeqNext
    <2>3. ASSUME NEW i \in 1..n PROVE abstractItems'[i] = Tail(abstractItems)[i]
      <3>1. i + 1 \in 1..Len(queued) /\ queued'[i] = queued[i + 1]
        BY <1>2
      <3>2. ItemAt(queued[i])' = ItemAt(queued[i + 1])
        BY <3>1, <1>0 DEF ItemAt
      <3> QED BY <3>1, <3>2, <2>1, <2>2, <1>3
    <2> QED BY <2>1, <2>2, <2>3, SeqEqual
  <1>6. abstractOp' = [abstractOp EXCEPT ![t] = Fifo!Call("popped", my[t].item)]
    <2>1. ItemOf(t)' = my[t].item
      BY <1>0, <1>a DEF ItemOf
    <2>2. abstractOp' = [abstractOp EXCEPT ![t] = Fifo!Call(CallAt("popped"), ItemOf(t)')]
      BY <1>0, <1>a, OpMoves
    <2> QED BY <2>1, <2>2, CallAtValues
  <1>7. abstractOp[t].call = "pop"
    BY <1>0, CallAtValues DEF abstractOp
  <1> QED BY <1>1, <1>3, <1>4, <1>5, <1>6, <1>7 DEF Fifo!FifoNext, Fifo!Pop

(* is_empty answers that the queue was empty if it was when it read        *)
(* push_idx (l.142), and that it was not if it is not now.                 *)
LEMMA IsEmptyLoadIdxRefines ==
  ASSUME IInv, IInv', NEW t \in Threads, IsEmptyLoadIdx(t)
  PROVE  Fifo!FifoNext
  <1> USE DEF IInv
  <1>0. /\ pc[t] = "empty_load_idx" /\ pc' = [pc EXCEPT ![t] = "empty_load_next"]
        /\ my' = [my EXCEPT ![t].push_idx = push_idx[head]]
        /\ head' = head /\ tail' = tail /\ next' = next /\ buffer' = buffer
        /\ push_idx' = push_idx /\ pop_idx' = pop_idx /\ queued' = queued
    BY DEF IsEmptyLoadIdx, From, ring, history
  <1>a. pc'[t] = "empty_load_next" /\ my'[t].push_idx = push_idx[head] /\ open
    BY <1>0, ChainFacts DEF TypeOK
  <1>1. Fifo!Watch
    <2>1. ASSUME SawEmpty(t)' PROVE abstractItems = <<>>
      <3>1. next[head] = NULL /\ pop_idx[head] = push_idx[head]
        BY <2>1, <1>0, <1>a DEF SawEmpty, FoundEmpty
      <3> QED BY <3>1, <1>a, EmptyQueue DEF Drained
    <2>2. HasPop(t) /\ "empty_load_next" \in Places
      BY <1>0 DEF HasPop, Places
    <2> QED BY <1>0, <2>1, <2>2, WatchingPopper
  <1>2. abstractItems' = abstractItems
    BY <1>0, BufferStays
  <1>3. ItemOf(t)' = ItemOf(t)
    BY <1>0, <1>a DEF ItemOf
  <1>4. abstractOp' = abstractOp
    <2>1. Written' = Written /\ \A u \in Threads \ {t} : my'[u] = my[u]
      BY <1>0 DEF Written, TypeOK
    <2> QED BY <1>0, <1>3, <2>1, OpStays, CallAtValues
  <1> QED BY <1>1, <1>2, <1>4 DEF Fifo!FifoNext, Fifo!Look

LEMMA IsEmptyLoadNextRefines ==
  ASSUME IInv, IInv', NEW t \in Threads, IsEmptyLoadNext(t)
  PROVE  Fifo!FifoNext
  <1> USE DEF IInv
  <1>0. /\ pc[t] = "empty_load_next"
        /\ \/ FoundEmpty(t) /\ pc' = [pc EXCEPT ![t] = "was_empty"]
           \/ ~FoundEmpty(t) /\ pc' = [pc EXCEPT ![t] = "was_not_empty"]
        /\ my' = [my EXCEPT ![t] = Blank]
        /\ head' = head /\ tail' = tail /\ next' = next /\ buffer' = buffer
        /\ push_idx' = push_idx /\ pop_idx' = pop_idx /\ queued' = queued
    BY DEF IsEmptyLoadNext, From, ring, history
  <1>a. HasPop(t) /\ Written' = Written /\ \A u \in Threads \ {t} : my'[u] = my[u]
    BY <1>0 DEF HasPop, Written, TypeOK
  <1>b. PICK there \in {"was_empty", "was_not_empty"} :
          /\ pc' = [pc EXCEPT ![t] = there]
          /\ there = "was_empty" <=> FoundEmpty(t)
    BY <1>0
  <1>c. pc'[t] = there
    BY <1>b DEF TypeOK
  <1>1. Fifo!Watch
    <2>1. ~SawEmpty(t)' /\ there \in Places
      BY <1>c DEF SawEmpty, Places
    <2> QED BY <1>a, <1>b, <2>1, WatchingPopper
  <1>2. abstractItems' = abstractItems
    BY <1>0, BufferStays
  <1>3. abstractOp[t].call = "is_empty"
    BY <1>0, CallAtValues DEF abstractOp
  <1>4. abstractOp' = [abstractOp EXCEPT ![t] = Fifo!Call(CallAt(there), EMPTY_VALUE)]
    <2>1. ItemOf(t)' = EMPTY_VALUE
      BY <1>c DEF ItemOf
    <2>2. abstractOp' = [abstractOp EXCEPT ![t] = Fifo!Call(CallAt(there), ItemOf(t)')]
      BY <1>a, <1>b, OpMoves
    <2> QED BY <2>1, <2>2
  <1>5. CASE FoundEmpty(t)
    <2>1. TRUE \in abstractSeen[t]
      BY <1>0, <1>5 DEF abstractSeen, SawEmpty
    <2>2. abstractOp' = [abstractOp EXCEPT ![t] = Fifo!Call("empty", EMPTY_VALUE)]
      BY <1>4, <1>5, <1>b, CallAtValues
    <2> QED BY <1>1, <1>2, <1>3, <2>1, <2>2 DEF Fifo!FifoNext, Fifo!AnswerIsEmpty, Fifo!WasTrue
  <1>6. CASE ~FoundEmpty(t)
    <2>1. abstractItems # <<>>
      <3>1. open /\ head \in Addr /\ pop_idx[head] \in Nat /\ push_idx[head] \in Nat
        BY <1>0, ChainFacts, IndexFacts
      <3>2. pop_idx[head] <= my[t].push_idx /\ my[t].push_idx <= push_idx[head]
        BY <1>0 DEF CallInv
      <3>3. my[t].push_idx \in Nat
        BY RingsQueueAssumption DEF TypeOK, Indices
      <3>4. ~(Drained(head) /\ next[head] = NULL)
        BY <1>6, <3>1, <3>2, <3>3 DEF FoundEmpty, Drained
      <3> QED BY <3>1, <3>4, EmptyQueue
    <2>2. abstractOp' = [abstractOp EXCEPT ![t] = Fifo!Call("not_empty", EMPTY_VALUE)]
      BY <1>4, <1>6, <1>b, CallAtValues
    <2>3. Fifo!WasTrue(t, FALSE)
      BY <2>1 DEF Fifo!WasTrue
    <2> QED BY <1>1, <1>2, <1>3, <2>2, <2>3 DEF Fifo!FifoNext, Fifo!AnswerIsEmpty
  <1> QED BY <1>5, <1>6

LEMMA AllIdleAbstract ==
  ASSUME \A t \in Threads : pc[t] = "idle"
  PROVE  abstractOp = [t \in Threads |-> Fifo!Idle]
  BY CallAtValues DEF abstractOp, ItemOf, Fifo!Idle

(* delete and new are the owner's Renew: nobody is inside an operation.    *)
LEMMA OwnerRefines ==
  ASSUME IInv, IInv', DeleteStart \/ DeleteNode \/ New
  PROVE  Fifo!FifoNext
  <1>0. pc' = pc /\ my' = my
    BY DEF DeleteStart, DeleteNode, New
  <1>1. \A t \in Threads : pc[t] = "idle"
    BY ChainFacts DEF IInv, ChainInv, DeleteStart, DeleteNode, New
  <1>2. abstractOp = [t \in Threads |-> Fifo!Idle] /\ abstractOp' = abstractOp
    <2>1. abstractOp = [t \in Threads |-> Fifo!Idle]
      BY <1>1, AllIdleAbstract
    <2>2. abstractOp' = [t \in Threads |-> Fifo!Idle]
      BY <1>0, <1>1, CallAtValues DEF abstractOp, ItemOf, Fifo!Idle
    <2> QED BY <2>1, <2>2
  <1>3. abstractItems' = <<>>
    <2>1. queued' = <<>>
      BY ChainFacts DEF IInv, ChainInv, QueuedInv, DeleteStart, DeleteNode, New
    <2>2. TypeOK' => (abstractItems' = <<>> <=> queued' = <<>>)
      <3>1. Len(queued') = 0
        BY <2>1
      <3>2. abstractItems' = [i \in 1..0 |-> ItemAt(queued[i])']
        BY <3>1 DEF abstractItems
      <3> QED BY <2>1, <3>2
    <2> QED BY <2>1, <2>2 DEF IInv
  <1>4. Fifo!Watch
    <2>1. \A u \in Threads : ~SawEmpty(u)'
      BY <1>0, <1>1 DEF SawEmpty
    <2> QED BY <2>1, Watching DEF IInv
  <1> QED BY <1>2, <1>3, <1>4 DEF Fifo!FifoNext, Fifo!Renew

LEMMA InitRefines == Init => Fifo!FifoInit
  <1> SUFFICES ASSUME Init PROVE Fifo!FifoInit
    OBVIOUS
  <1>1. IInv /\ queued = <<>> /\ \A t \in Threads : pc[t] = "idle"
    BY InitInv DEF Init
  <1>2. abstractItems = <<>>
    BY <1>1, ContentsEmpty DEF IInv
  <1>3. abstractSeen = [t \in Threads |-> {}]
    BY <1>1 DEF abstractSeen, SawEmpty
  <1> QED BY <1>1, <1>2, <1>3, AllIdleAbstract DEF Fifo!FifoInit

LEMMA StepRefines == IInv /\ IInv' /\ [Next]_vars => [Fifo!FifoNext]_Fifo!fifoVars
  <1> SUFFICES ASSUME IInv, IInv', [Next]_vars PROVE [Fifo!FifoNext]_Fifo!fifoVars
    OBVIOUS
  <1>1. CASE UNCHANGED vars
    <2>1. \A t \in Threads : ItemOf(t)' = ItemOf(t) /\ (SawEmpty(t)' <=> SawEmpty(t))
      BY <1>1 DEF vars, ring, history, ItemOf, Written, SawEmpty, FoundEmpty, Drained
    <2>2. abstractItems' = abstractItems
      BY <1>1, BufferStays DEF vars, ring, history
    <2>3. abstractOp' = abstractOp /\ abstractSeen' = abstractSeen
      BY <1>1, <2>1 DEF vars, abstractOp, abstractSeen
    <2> QED BY <2>2, <2>3 DEF Fifo!fifoVars
  <1>2. ASSUME NEW t \in Threads, Invoke(t) PROVE Fifo!FifoNext
    BY <1>2, CallRefines
  <1>3. ASSUME NEW t \in Threads, Step(t) PROVE Fifo!FifoNext
    BY <1>3, QuietRefines, PushWriteRefines, PushPublishRefines, PushNewRefines, PushSwingRefines,
       PopLoadNextRefines, PopLoadIdxRefines, PopAdvanceRefines, PopTakeRefines,
       IsEmptyLoadIdxRefines, IsEmptyLoadNextRefines, ReturnRefines DEF Step
  <1> QED BY <1>1, <1>2, <1>3, OwnerRefines DEF Next

(* The list of rings is a linearizable first-in first-out queue: push takes *)
(* effect at l.87 or l.93, pop at l.130 or, empty, at l.111.                *)
THEOREM Linearizable == Spec => IsFifoQueue
  BY InitRefines, StepRefines, Invariance, PTL DEF Spec, IsFifoQueue, Fifo!FifoSpec
=============================================================================
