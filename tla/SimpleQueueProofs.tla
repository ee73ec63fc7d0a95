------------------------- MODULE SimpleQueueProofs -------------------------
(***************************************************************************)
(* The invariant of SimpleQueue holds in every reachable state, for every  *)
(* set of threads, addresses and values.                                   *)
(***************************************************************************)
EXTENDS SimpleQueue, TLAPS, SequenceTheorems

(* What Append and Tail do to the positions of the chain (push, pop). *)
LEMMA AppendPositions ==
  ASSUME NEW S, NEW s \in Seq(S), NEW a \in S
  PROVE  /\ Append(s, a) \in Seq(S)
         /\ Append(s, a) # <<>>
         /\ Len(s) \in Nat
         /\ Len(Append(s, a)) = Len(s) + 1
         /\ \A i \in 1..Len(s) : Append(s, a)[i] = s[i]
         /\ Append(s, a)[Len(s) + 1] = a
  BY AppendProperties, LenProperties

LEMMA TailPositions ==
  ASSUME NEW S, NEW s \in Seq(S), s # <<>>
  PROVE  /\ Tail(s) \in Seq(S)
         /\ Len(s) \in Nat \ {0}
         /\ Len(Tail(s)) = Len(s) - 1
         /\ \A i \in 1..(Len(s) - 1) : Tail(s)[i] = s[i + 1]
         /\ (Tail(s) = <<>> <=> Len(s) = 1)
  <1>1. Tail(s) \in Seq(S) /\ Len(Tail(s)) = Len(s) - 1
    BY HeadTailProperties
  <1>2. Len(s) \in Nat \ {0}
    BY EmptySeq, LenProperties
  <1>3. \A i \in 1..(Len(s) - 1) : Tail(s)[i] = s[i + 1]
    BY <1>1, HeadTailProperties
  <1>4. Tail(s) = <<>> <=> Len(Tail(s)) = 0
    BY <1>1, EmptySeq
  <1> QED BY <1>1, <1>2, <1>3, <1>4

(* Inside an operation the queue is open, so the chain has a first node.   *)
LEMMA ChainFacts ==
  ASSUME TypeOK, ChainInv
  PROVE  /\ Len(chain) \in Nat
         /\ \A i \in 1..Len(chain) : chain[i] \in Addr
         /\ chain # <<>> => Len(chain) > 0
         /\ \A t \in Threads : pc[t] # "idle" => open
         /\ open => chain # <<>> /\ head = chain[1] /\ head \in Addr
  <1>1. chain \in Seq(Addr)
    BY DEF TypeOK
  <1>2. /\ Len(chain) \in Nat
        /\ \A i \in 1..Len(chain) : chain[i] \in Addr
        /\ chain # <<>> => Len(chain) > 0
    BY <1>1, LenProperties, ElementOfSeq, EmptySeq
  <1> QED BY <1>2 DEF TypeOK, ChainInv

LEMMA NextPosition ==
  ASSUME NEW n \in Nat, NEW i \in 1..n, i # n
  PROVE  i + 1 \in 1..n
  OBVIOUS

LEMMA InitInv == Init => IInv
  BY SimpleQueueAssumption, NoThreadAssumption
     DEF Init, EmptyQueueAt, IInv, TypeOK, Places, MutexInv, HoldsHead, HoldsTail,
         ChainInv, TailInv, LiveInv, PopInv, ValueInv, InChain

LEMMA CallPushInv ==
  ASSUME IInv, NEW t \in Threads, NEW v \in Values, CallPush(t, v)
  PROVE  IInv'
  <1> USE SimpleQueueAssumption, NoThreadAssumption DEF IInv, CallPush, shared, locals, owner, From, Goto
  <1>1. TypeOK'
    BY DEF TypeOK, Places
  <1>2. MutexInv'
    BY DEF TypeOK, MutexInv, HoldsHead, HoldsTail
  <1>3. ChainInv'
    BY DEF TypeOK, ChainInv
  <1>4. TailInv'
    BY DEF TypeOK, ChainInv, TailInv, MutexInv, HoldsHead, HoldsTail
  <1>5. LiveInv'
    BY DEF TypeOK, ChainInv, LiveInv, InChain, MutexInv, HoldsHead, HoldsTail
  <1>6. PopInv'
    BY DEF TypeOK, ChainInv, PopInv, TailInv, LiveInv, InChain, MutexInv, HoldsHead, HoldsTail
  <1>7. ValueInv'
    BY DEF TypeOK, ValueInv
  <1> QED BY <1>1, <1>2, <1>3, <1>4, <1>5, <1>6, <1>7

LEMMA LockTailInv ==
  ASSUME IInv, NEW t \in Threads, LockTail(t)
  PROVE  IInv'
  <1> USE SimpleQueueAssumption, NoThreadAssumption DEF IInv, LockTail, shared, locals, owner, From, Goto
  <1>1. TypeOK'
    BY DEF TypeOK, Places
  <1>2. MutexInv'
    BY DEF TypeOK, MutexInv, HoldsHead, HoldsTail
  <1>3. ChainInv'
    BY DEF TypeOK, ChainInv
  <1>4. TailInv'
    BY DEF TypeOK, ChainInv, TailInv, MutexInv, HoldsHead, HoldsTail
  <1>5. LiveInv'
    BY DEF TypeOK, ChainInv, LiveInv, InChain, MutexInv, HoldsHead, HoldsTail
  <1>6. PopInv'
    BY DEF TypeOK, ChainInv, PopInv, TailInv, LiveInv, InChain, MutexInv, HoldsHead, HoldsTail
  <1>7. ValueInv'
    BY DEF TypeOK, ValueInv
  <1> QED BY <1>1, <1>2, <1>3, <1>4, <1>5, <1>6, <1>7

LEMMA PushLinkInv ==
  ASSUME IInv, NEW t \in Threads, PushLink(t)
  PROVE  IInv'
  <1> USE SimpleQueueAssumption, NoThreadAssumption DEF IInv, PushLink, Fresh, Allocated, shared, locals, owner, From, Goto
  <1> DEFINE n == Len(chain)
  <1>0. PICK a \in Addr :
          /\ a \notin live
          /\ live' = live \cup {a}
          /\ next' = [next EXCEPT ![a] = NULL, ![tail] = a]
          /\ item' = [item EXCEPT ![a] = value[t]]
          /\ node' = [node EXCEPT ![t] = a]
          /\ chain' = Append(chain, a)
    OBVIOUS
  <1>a. /\ open /\ n \in Nat /\ n > 0 /\ tail = chain[n]
        /\ \A i \in 1..n : chain[i] \in Addr
    BY ChainFacts DEF MutexInv, HoldsTail, TailInv
  <1>b. /\ chain' \in Seq(Addr) /\ chain' # <<>>
        /\ Len(chain') = n + 1
        /\ \A i \in 1..n : chain'[i] = chain[i]
        /\ chain'[n + 1] = a
    BY <1>0, AppendPositions DEF TypeOK
  <1>c. \A i \in 1..n : chain[i] # a
    BY <1>0 DEF LiveInv
  <1>1. TypeOK'
    BY <1>0, <1>a, <1>b DEF TypeOK, Places
  <1>2. MutexInv'
    BY DEF TypeOK, MutexInv, HoldsHead, HoldsTail
  <1>3. ChainInv'
    <2>1. \A i, j \in 1..Len(chain') : chain'[i] = chain'[j] => i = j
      BY <1>a, <1>b, <1>c DEF ChainInv
    <2>2. ASSUME NEW i \in 1..Len(chain')
          PROVE  next'[chain'[i]] = IF i = Len(chain') THEN NULL ELSE chain'[i + 1]
      <3>1. CASE i = n + 1
        BY <3>1, <1>0, <1>a, <1>b, <1>c DEF TypeOK
      <3>2. CASE i = n
        BY <3>2, <1>0, <1>a, <1>b, <1>c DEF TypeOK
      <3>3. CASE i \in 1..(n - 1)
        <4>1. chain'[i] = chain[i] /\ chain'[i + 1] = chain[i + 1] /\ chain[i] # tail /\ chain[i] # a
          BY <3>3, <1>a, <1>b, <1>c DEF ChainInv
        <4> QED BY <4>1, <3>3, <1>0, <1>a, <1>b DEF TypeOK, ChainInv
      <3> QED BY <3>1, <3>2, <3>3, <1>a, <1>b
    <2> QED BY <2>1, <2>2, <1>a, <1>b DEF ChainInv, TypeOK
  <1>4. TailInv'
    BY <1>0, <1>b DEF TypeOK, TailInv, MutexInv, HoldsTail
  <1>5. LiveInv'
    <2>1. \A i \in 1..Len(chain') : chain'[i] \in live'
      BY <1>0, <1>a, <1>b DEF LiveInv
    <2>2. \A b \in Addr : InChain(b)' <=> InChain(b) \/ b = a
      <3> SUFFICES ASSUME NEW b \in Addr PROVE InChain(b)' <=> InChain(b) \/ b = a
        OBVIOUS
      <3>1. InChain(b) => InChain(b)'
        BY <1>a, <1>b DEF InChain
      <3>2. b = a => InChain(b)'
        BY <1>a, <1>b DEF InChain
      <3>3. InChain(b)' => InChain(b) \/ b = a
        BY <1>a, <1>b DEF InChain
      <3> QED BY <3>1, <3>2, <3>3
    <2>3. \A u \in Threads : pc'[u] = "pop_free" => pc[u] = "pop_free" /\ node'[u] = node[u]
      BY DEF TypeOK
    <2>4. \A u \in Threads : pc[u] = "pop_free" => pc'[u] = "pop_free" /\ node'[u] = node[u]
      BY DEF TypeOK
    <2> QED BY <2>1, <2>2, <2>3, <2>4, <1>0 DEF LiveInv, TypeOK
  <1>6. PopInv'
    BY <1>0, <1>a, <1>b DEF TypeOK, PopInv
  <1>7. ValueInv'
    BY DEF TypeOK, ValueInv
  <1> QED BY <1>1, <1>2, <1>3, <1>4, <1>5, <1>6, <1>7

LEMMA PushSwingInv ==
  ASSUME IInv, NEW t \in Threads, PushSwing(t)
  PROVE  IInv'
  <1> USE SimpleQueueAssumption, NoThreadAssumption DEF IInv, PushSwing, shared, locals, owner, From, Goto
  <1>1. TypeOK'
    BY DEF TypeOK, Places
  <1>2. MutexInv'
    BY DEF TypeOK, MutexInv, HoldsHead, HoldsTail
  <1>3. ChainInv'
    BY DEF TypeOK, ChainInv
  <1>4. TailInv'
    BY DEF TypeOK, ChainInv, TailInv, MutexInv, HoldsHead, HoldsTail
  <1>5. LiveInv'
    BY DEF TypeOK, ChainInv, LiveInv, InChain, MutexInv, HoldsHead, HoldsTail
  <1>6. PopInv'
    BY DEF TypeOK, ChainInv, PopInv, TailInv, LiveInv, InChain, MutexInv, HoldsHead, HoldsTail
  <1>7. ValueInv'
    BY DEF TypeOK, ValueInv
  <1> QED BY <1>1, <1>2, <1>3, <1>4, <1>5, <1>6, <1>7

LEMMA CallPopInv ==
  ASSUME IInv, NEW t \in Threads, CallPop(t)
  PROVE  IInv'
  <1> USE SimpleQueueAssumption, NoThreadAssumption DEF IInv, CallPop, shared, locals, owner, From, Goto
  <1>1. TypeOK'
    BY DEF TypeOK, Places
  <1>2. MutexInv'
    BY DEF TypeOK, MutexInv, HoldsHead, HoldsTail
  <1>3. ChainInv'
    BY DEF TypeOK, ChainInv
  <1>4. TailInv'
    BY DEF TypeOK, ChainInv, TailInv, MutexInv, HoldsHead, HoldsTail
  <1>5. LiveInv'
    BY DEF TypeOK, ChainInv, LiveInv, InChain, MutexInv, HoldsHead, HoldsTail
  <1>6. PopInv'
    BY DEF TypeOK, ChainInv, PopInv, TailInv, LiveInv, InChain, MutexInv, HoldsHead, HoldsTail
  <1>7. ValueInv'
    BY DEF TypeOK, ValueInv
  <1> QED BY <1>1, <1>2, <1>3, <1>4, <1>5, <1>6, <1>7

LEMMA LockHeadInv ==
  ASSUME IInv, NEW t \in Threads, LockHead(t)
  PROVE  IInv'
  <1> USE SimpleQueueAssumption, NoThreadAssumption DEF IInv, LockHead, shared, locals, owner, From, Goto
  <1>1. TypeOK'
    BY DEF TypeOK, Places
  <1>2. MutexInv'
    BY DEF TypeOK, MutexInv, HoldsHead, HoldsTail
  <1>3. ChainInv'
    BY DEF TypeOK, ChainInv
  <1>4. TailInv'
    BY DEF TypeOK, ChainInv, TailInv, MutexInv, HoldsHead, HoldsTail
  <1>5. LiveInv'
    BY DEF TypeOK, ChainInv, LiveInv, InChain, MutexInv, HoldsHead, HoldsTail
  <1>6. PopInv'
    BY DEF TypeOK, ChainInv, PopInv, TailInv, LiveInv, InChain, MutexInv, HoldsHead, HoldsTail
  <1>7. ValueInv'
    BY DEF TypeOK, ValueInv
  <1> QED BY <1>1, <1>2, <1>3, <1>4, <1>5, <1>6, <1>7

LEMMA PopLoadInv ==
  ASSUME IInv, NEW t \in Threads, PopLoad(t)
  PROVE  IInv'
  <1> USE SimpleQueueAssumption, NoThreadAssumption DEF IInv, PopLoad, shared, locals, owner, From, Goto
  <1>0. open /\ head \in Addr /\ head = chain[1] /\ Len(chain) \in Nat /\ Len(chain) > 0
    BY ChainFacts
  <1>1. TypeOK'
    BY <1>0 DEF TypeOK, Places
  <1>2. MutexInv'
    BY DEF TypeOK, MutexInv, HoldsHead, HoldsTail
  <1>3. ChainInv'
    BY <1>0 DEF TypeOK, ChainInv
  <1>4. TailInv'
    BY DEF TypeOK, TailInv, MutexInv, HoldsHead, HoldsTail
  <1>5. LiveInv'
    <2>1. \A u \in Threads : /\ pc[u] = "pop_free" <=> pc'[u] = "pop_free"
                             /\ pc[u] = "pop_free" => node'[u] = node[u]
      BY DEF TypeOK
    <2> QED BY <2>1 DEF TypeOK, LiveInv, InChain
  <1>6. PopInv'
    BY <1>0 DEF TypeOK, ChainInv, PopInv
  <1>7. ValueInv'
    BY DEF TypeOK, ValueInv
  <1> QED BY <1>1, <1>2, <1>3, <1>4, <1>5, <1>6, <1>7

LEMMA PopTakeInv ==
  ASSUME IInv, NEW t \in Threads, PopTake(t)
  PROVE  IInv'
  <1> USE SimpleQueueAssumption, NoThreadAssumption DEF IInv, PopTake, PoppedItem, shared, locals, owner, From, Goto
  <1> DEFINE n == Len(chain)
  <1>a. /\ open /\ n \in Nat /\ n > 1 /\ head = chain[1] /\ node[t] = chain[2] /\ chain # <<>>
        /\ \A i \in 1..n : chain[i] \in Addr
    BY ChainFacts DEF PopInv
  <1>b. /\ chain' \in Seq(Addr) /\ chain' # <<>>
        /\ Len(chain') = n - 1
        /\ \A i \in 1..(n - 1) : chain'[i] = chain[i + 1]
    BY <1>a, TailPositions DEF TypeOK
  <1>d. \A i \in 1..Len(chain') : i + 1 \in 1..n /\ i + 1 > 1 /\ chain'[i] = chain[i + 1]
    BY <1>a, <1>b
  <1>c. node[t] \in Addr /\ node'[t] = head
    BY <1>a DEF TypeOK
  <1>1. TypeOK'
    BY <1>a, <1>b, <1>c DEF TypeOK, Places
  <1>2. MutexInv'
    BY DEF TypeOK, MutexInv, HoldsHead, HoldsTail
  <1>3. ChainInv'
    <2>1. ASSUME NEW i \in 1..Len(chain'), NEW j \in 1..Len(chain'), chain'[i] = chain'[j]
          PROVE  i = j
      <3>1. i + 1 \in 1..n /\ j + 1 \in 1..n /\ chain[i + 1] = chain[j + 1]
        BY <1>d, <2>1
      <3>2. i + 1 = j + 1
        BY <3>1 DEF ChainInv
      <3> QED BY <3>2
    <2>2. ASSUME NEW i \in 1..Len(chain')
          PROVE  next'[chain'[i]] = IF i = Len(chain') THEN NULL ELSE chain'[i + 1]
      <3>1. next[chain[i + 1]] = IF i + 1 = n THEN NULL ELSE chain[i + 1 + 1]
        BY <1>d DEF ChainInv
      <3>2. i # Len(chain') => chain'[i + 1] = chain[i + 1 + 1]
        <4>0. Len(chain') \in Nat
          BY <1>a, <1>b
        <4>1. i # Len(chain') => i + 1 \in 1..Len(chain')
          BY ONLY <4>0, NextPosition
        <4> QED BY <4>1, <1>d
      <3>3. i + 1 = n <=> i = Len(chain')
        BY <1>a, <1>b
      <3> QED BY <3>1, <3>2, <3>3, <1>d
    <2>3. head' = chain'[1]
      BY <1>a, <1>b
    <2>4. open' /\ chain' # <<>> /\ cursor' = NULL
      BY <1>a, <1>b DEF ChainInv
    <2> QED BY <2>1, <2>2, <2>3, <2>4 DEF ChainInv
  <1>4. TailInv'
    <2>1. chain'[Len(chain')] = chain[n]
      BY <1>a, <1>b
    <2> QED BY <2>1, <1>a DEF TypeOK, TailInv, MutexInv, HoldsHead, HoldsTail
  <1>5. LiveInv'
    <2>1. \A i \in 1..Len(chain') : chain'[i] \in live'
      BY <1>a, <1>b DEF LiveInv
    <2>2. \A b \in Addr : InChain(b)' => InChain(b) /\ b # head
      <3> SUFFICES ASSUME NEW i \in 1..Len(chain')
                   PROVE  InChain(chain'[i]) /\ chain'[i] # head
        BY DEF InChain
      <3>1. chain[i + 1] # chain[1]
        BY <1>a, <1>d DEF ChainInv
      <3> QED BY <3>1, <1>a, <1>d DEF InChain
    <2>3. \A b \in Addr : InChain(b) => InChain(b)' \/ b = head
      <3> SUFFICES ASSUME NEW b \in Addr, InChain(b), b # head
                   PROVE  InChain(b)'
        OBVIOUS
      <3>1. PICK i \in 1..n : chain[i] = b
        BY DEF InChain
      <3>2. i # 1 /\ i - 1 \in 1..Len(chain')
        BY <3>1, <1>a, <1>b
      <3>3. chain'[i - 1] = b
        BY <3>1, <3>2, <1>a, <1>b
      <3> QED BY <3>2, <3>3 DEF InChain
    <2>4. head \in live
      BY <1>a DEF LiveInv
    <2>5. \A u \in Threads : pc[u] # "pop_free" /\ (pc'[u] = "pop_free" <=> u = t)
      BY DEF TypeOK, MutexInv, HoldsHead
    <2> QED BY <2>1, <2>2, <2>3, <2>4, <2>5, <1>a, <1>c DEF LiveInv, TypeOK
  <1>6. PopInv'
    BY DEF TypeOK, PopInv, MutexInv, HoldsHead
  <1>7. ValueInv'
    BY DEF TypeOK, ValueInv
  <1> QED BY <1>1, <1>2, <1>3, <1>4, <1>5, <1>6, <1>7

LEMMA PopFreeInv ==
  ASSUME IInv, NEW t \in Threads, PopFree(t)
  PROVE  IInv'
  <1> USE SimpleQueueAssumption, NoThreadAssumption DEF IInv, PopFree, Freed, shared, locals, owner, From, Goto
  <1>a. /\ node[t] \in live /\ node[t] \in Addr /\ ~InChain(node[t]) /\ open
        /\ Len(chain) \in Nat /\ Len(chain) > 0
        /\ \A i \in 1..Len(chain) : chain[i] \in Addr /\ chain[i] # node[t]
    BY ChainFacts DEF LiveInv, TypeOK, InChain
  <1>1. TypeOK'
    BY <1>a DEF TypeOK, Places
  <1>2. MutexInv'
    BY DEF TypeOK, MutexInv, HoldsHead, HoldsTail
  <1>3. ChainInv'
    <2>1. \A i \in 1..Len(chain) : next'[chain[i]] = next[chain[i]]
      BY <1>a DEF TypeOK
    <2> QED BY <2>1, <1>a DEF TypeOK, ChainInv
  <1>4. TailInv'
    BY DEF TypeOK, TailInv, MutexInv, HoldsHead, HoldsTail
  <1>5. LiveInv'
    <2>1. \A u \in Threads : pc[u] = "pop_free" <=> u = t
      BY DEF TypeOK, MutexInv, HoldsHead
    <2>2. \A u \in Threads : pc'[u] # "pop_free"
      BY <2>1 DEF TypeOK
    <2> QED BY <2>1, <2>2, <1>a DEF TypeOK, LiveInv, InChain
  <1>6. PopInv'
    BY DEF TypeOK, PopInv, MutexInv, HoldsHead
  <1>7. ValueInv'
    BY DEF TypeOK, ValueInv
  <1> QED BY <1>1, <1>2, <1>3, <1>4, <1>5, <1>6, <1>7

LEMMA PopEmptyInv ==
  ASSUME IInv, NEW t \in Threads, PopEmpty(t)
  PROVE  IInv'
  <1> USE SimpleQueueAssumption, NoThreadAssumption DEF IInv, PopEmpty, shared, locals, owner, From, Goto
  <1>1. TypeOK'
    BY DEF TypeOK, Places
  <1>2. MutexInv'
    BY DEF TypeOK, MutexInv, HoldsHead, HoldsTail
  <1>3. ChainInv'
    BY DEF TypeOK, ChainInv
  <1>4. TailInv'
    BY DEF TypeOK, ChainInv, TailInv, MutexInv, HoldsHead, HoldsTail
  <1>5. LiveInv'
    BY DEF TypeOK, ChainInv, LiveInv, InChain, MutexInv, HoldsHead, HoldsTail
  <1>6. PopInv'
    BY DEF TypeOK, ChainInv, PopInv, TailInv, LiveInv, InChain, MutexInv, HoldsHead, HoldsTail
  <1>7. ValueInv'
    BY DEF TypeOK, ValueInv
  <1> QED BY <1>1, <1>2, <1>3, <1>4, <1>5, <1>6, <1>7

LEMMA CallIsEmptyInv ==
  ASSUME IInv, NEW t \in Threads, CallIsEmpty(t)
  PROVE  IInv'
  <1> USE SimpleQueueAssumption, NoThreadAssumption DEF IInv, CallIsEmpty, shared, locals, owner, From, Goto
  <1>1. TypeOK'
    BY DEF TypeOK, Places
  <1>2. MutexInv'
    BY DEF TypeOK, MutexInv, HoldsHead, HoldsTail
  <1>3. ChainInv'
    BY DEF TypeOK, ChainInv
  <1>4. TailInv'
    BY DEF TypeOK, ChainInv, TailInv, MutexInv, HoldsHead, HoldsTail
  <1>5. LiveInv'
    BY DEF TypeOK, ChainInv, LiveInv, InChain, MutexInv, HoldsHead, HoldsTail
  <1>6. PopInv'
    BY DEF TypeOK, ChainInv, PopInv, TailInv, LiveInv, InChain, MutexInv, HoldsHead, HoldsTail
  <1>7. ValueInv'
    BY DEF TypeOK, ValueInv
  <1> QED BY <1>1, <1>2, <1>3, <1>4, <1>5, <1>6, <1>7

LEMMA IsEmptyLoadInv ==
  ASSUME IInv, NEW t \in Threads, IsEmptyLoad(t)
  PROVE  IInv'
  <1> USE SimpleQueueAssumption, NoThreadAssumption DEF IInv, IsEmptyLoad, shared, locals, owner, From, Goto
  <1>1. TypeOK'
    BY DEF TypeOK, Places
  <1>2. MutexInv'
    BY DEF TypeOK, MutexInv, HoldsHead, HoldsTail
  <1>3. ChainInv'
    BY DEF TypeOK, ChainInv
  <1>4. TailInv'
    BY DEF TypeOK, ChainInv, TailInv, MutexInv, HoldsHead, HoldsTail
  <1>5. LiveInv'
    BY DEF TypeOK, ChainInv, LiveInv, InChain, MutexInv, HoldsHead, HoldsTail
  <1>6. PopInv'
    BY DEF TypeOK, ChainInv, PopInv, TailInv, LiveInv, InChain, MutexInv, HoldsHead, HoldsTail
  <1>7. ValueInv'
    BY DEF TypeOK, ValueInv
  <1> QED BY <1>1, <1>2, <1>3, <1>4, <1>5, <1>6, <1>7

LEMMA IsEmptyReturnInv ==
  ASSUME IInv, NEW t \in Threads, IsEmptyReturn(t)
  PROVE  IInv'
  <1> USE SimpleQueueAssumption, NoThreadAssumption DEF IInv, IsEmptyReturn, shared, locals, owner, From, Goto
  <1>1. TypeOK'
    BY DEF TypeOK, Places
  <1>2. MutexInv'
    BY DEF TypeOK, MutexInv, HoldsHead, HoldsTail
  <1>3. ChainInv'
    BY DEF TypeOK, ChainInv
  <1>4. TailInv'
    BY DEF TypeOK, ChainInv, TailInv, MutexInv, HoldsHead, HoldsTail
  <1>5. LiveInv'
    BY DEF TypeOK, ChainInv, LiveInv, InChain, MutexInv, HoldsHead, HoldsTail
  <1>6. PopInv'
    BY DEF TypeOK, ChainInv, PopInv, TailInv, LiveInv, InChain, MutexInv, HoldsHead, HoldsTail
  <1>7. ValueInv'
    BY DEF TypeOK, ValueInv
  <1> QED BY <1>1, <1>2, <1>3, <1>4, <1>5, <1>6, <1>7

LEMMA DeleteStartInv ==
  ASSUME IInv, DeleteStart
  PROVE  IInv'
  <1> USE SimpleQueueAssumption, NoThreadAssumption DEF IInv, DeleteStart, shared, locals, owner, From, Goto
  <1>1. TypeOK'
    BY DEF TypeOK, Places
  <1>2. MutexInv'
    BY DEF TypeOK, MutexInv, HoldsHead, HoldsTail
  <1>3. ChainInv'
    BY DEF TypeOK, ChainInv
  <1>4. TailInv'
    BY DEF TypeOK, ChainInv, TailInv, MutexInv, HoldsHead, HoldsTail
  <1>5. LiveInv'
    BY DEF TypeOK, ChainInv, LiveInv, InChain, MutexInv, HoldsHead, HoldsTail
  <1>6. PopInv'
    BY DEF TypeOK, ChainInv, PopInv, TailInv, LiveInv, InChain, MutexInv, HoldsHead, HoldsTail
  <1>7. ValueInv'
    BY DEF TypeOK, ValueInv
  <1> QED BY <1>1, <1>2, <1>3, <1>4, <1>5, <1>6, <1>7

LEMMA DeleteNodeInv ==
  ASSUME IInv, DeleteNode
  PROVE  IInv'
  <1> USE SimpleQueueAssumption, NoThreadAssumption DEF IInv, DeleteNode, Freed, shared, locals, owner, From, Goto
  <1> DEFINE n == Len(chain)
  <1>a. /\ ~open /\ chain # <<>> /\ n \in Nat /\ n > 0 /\ cursor = chain[1] /\ cursor \in Addr
        /\ \A i \in 1..n : chain[i] \in Addr
        /\ \A t \in Threads : pc[t] = "idle"
    BY ChainFacts DEF ChainInv, TypeOK
  <1>b. /\ chain' \in Seq(Addr)
        /\ Len(chain') = n - 1
        /\ \A i \in 1..(n - 1) : chain'[i] = chain[i + 1]
        /\ chain' = <<>> <=> n = 1
    BY <1>a, TailPositions DEF TypeOK
  <1>d. \A i \in 1..Len(chain') : i + 1 \in 1..n /\ i + 1 > 1 /\ chain'[i] = chain[i + 1]
    BY <1>a, <1>b
  <1>e. \A i \in 1..Len(chain') : chain'[i] \in Addr /\ chain'[i] # cursor
    <2> TAKE i \in 1..Len(chain')
    <2>1. chain[i + 1] # chain[1]
      BY <1>a, <1>d DEF ChainInv
    <2> QED BY <2>1, <1>a, <1>d
  <1>1. TypeOK'
    BY <1>a, <1>b DEF TypeOK, Places
  <1>2. MutexInv'
    BY DEF TypeOK, MutexInv, HoldsHead, HoldsTail
  <1>3. ChainInv'
    <2>1. ASSUME NEW i \in 1..Len(chain'), NEW j \in 1..Len(chain'), chain'[i] = chain'[j]
          PROVE  i = j
      <3>1. i + 1 \in 1..n /\ j + 1 \in 1..n /\ chain[i + 1] = chain[j + 1]
        BY <1>d, <2>1
      <3>2. i + 1 = j + 1
        BY <3>1 DEF ChainInv
      <3> QED BY <3>2
    <2>3. ASSUME NEW i \in 1..Len(chain')
          PROVE  next'[chain'[i]] = IF i = Len(chain') THEN NULL ELSE chain'[i + 1]
      <3>1. next[chain[i + 1]] = IF i + 1 = n THEN NULL ELSE chain[i + 1 + 1]
        BY <1>d DEF ChainInv
      <3>2. i # Len(chain') => chain'[i + 1] = chain[i + 1 + 1]
        <4>0. Len(chain') \in Nat
          BY <1>a, <1>b
        <4>1. i # Len(chain') => i + 1 \in 1..Len(chain')
          BY ONLY <4>0, NextPosition
        <4> QED BY <4>1, <1>d
      <3>3. i + 1 = n <=> i = Len(chain')
        BY <1>a, <1>b
      <3>4. next'[chain'[i]] = next[chain[i + 1]]
        BY <1>d, <1>e DEF TypeOK
      <3> QED BY <3>1, <3>2, <3>3, <3>4
    <2>4. cursor' = IF n = 1 THEN NULL ELSE chain[2]
      <3>1. 1 \in 1..n /\ 1 + 1 = 2
        BY <1>a
      <3> QED BY <3>1, <1>a DEF ChainInv
    <2>5. n # 1 => chain'[1] = chain[2]
      BY <1>a, <1>b
    <2> QED BY <2>1, <2>3, <2>4, <2>5, <1>a, <1>b DEF ChainInv
  <1>4. TailInv'
    BY <1>a DEF TailInv
  <1>5. LiveInv'
    <2>1. \A i \in 1..Len(chain') : chain'[i] \in live'
      BY <1>d, <1>e DEF LiveInv
    <2>2. \A b \in live' : InChain(b)'
      <3> SUFFICES ASSUME NEW b \in live, b # cursor
                   PROVE  InChain(b)'
        OBVIOUS
      <3>1. PICK i \in 1..n : chain[i] = b
        BY <1>a DEF LiveInv, InChain
      <3>2. i - 1 \in 1..Len(chain') /\ chain'[i - 1] = b
        BY <3>1, <1>a, <1>b
      <3> QED BY <3>2 DEF InChain
    <2> QED BY <2>1, <2>2, <1>a DEF LiveInv
  <1>6. PopInv'
    BY <1>a DEF PopInv
  <1>7. ValueInv'
    BY DEF TypeOK, ValueInv
  <1> QED BY <1>1, <1>2, <1>3, <1>4, <1>5, <1>6, <1>7

LEMMA NewInv ==
  ASSUME IInv, New
  PROVE  IInv'
  <1> USE SimpleQueueAssumption, NoThreadAssumption DEF IInv, New, Fresh, Allocated, shared, locals, owner, From, Goto
  <1>0. PICK a \in Addr :
          /\ live' = live \cup {a}
          /\ head' = a
          /\ tail' = a
          /\ next' = [next EXCEPT ![a] = NULL]
          /\ item' = [item EXCEPT ![a] = EMPTY_VALUE]
          /\ chain' = <<a>>
    OBVIOUS
  <1>a. chain = <<>> /\ live = {} /\ \A t \in Threads : pc[t] = "idle"
    <2>1. chain = <<>> /\ \A t \in Threads : pc[t] = "idle"
      BY ChainFacts DEF ChainInv
    <2>2. Len(chain) = 0
      BY <2>1
    <2> QED BY <2>1, <2>2 DEF LiveInv, InChain
  <1>b. chain' \in Seq(Addr) /\ Len(chain') = 1 /\ chain'[1] = a /\ chain' # <<>>
    BY <1>0
  <1>1. TypeOK'
    BY <1>0, <1>b DEF TypeOK, Places
  <1>2. MutexInv'
    BY DEF TypeOK, MutexInv, HoldsHead, HoldsTail
  <1>3. ChainInv'
    BY <1>0, <1>b DEF TypeOK, ChainInv
  <1>4. TailInv'
    BY <1>0, <1>a, <1>b DEF TypeOK, TailInv
  <1>5. LiveInv'
    BY <1>0, <1>a, <1>b DEF LiveInv, InChain
  <1>6. PopInv'
    BY <1>a DEF PopInv
  <1>7. ValueInv'
    BY DEF TypeOK, ValueInv
  <1> QED BY <1>1, <1>2, <1>3, <1>4, <1>5, <1>6, <1>7

(* Every step of the specification preserves the invariant. *)
LEMMA NextInv == IInv /\ [Next]_vars => IInv'
  <1> SUFFICES ASSUME IInv, [Next]_vars PROVE IInv'
    OBVIOUS
  <1>1. CASE UNCHANGED vars
    BY <1>1 DEF vars, shared, locals, owner, IInv, TypeOK, MutexInv, HoldsHead, HoldsTail,
                ChainInv, TailInv, LiveInv, InChain, PopInv, ValueInv
  <1>2. ASSUME NEW t \in Threads, Invoke(t) PROVE IInv'
    BY <1>2, CallPushInv, CallPopInv, CallIsEmptyInv DEF Invoke
  <1>3. ASSUME NEW t \in Threads, Return(t) PROVE IInv'
    BY <1>3, PushSwingInv, PopFreeInv, PopEmptyInv, IsEmptyReturnInv DEF Return
  <1>4. ASSUME NEW t \in Threads, Step(t) PROVE IInv'
    BY <1>4, <1>3, LockTailInv, PushLinkInv, LockHeadInv, PopLoadInv, PopTakeInv,
       IsEmptyLoadInv DEF Step
  <1>5. ASSUME DeleteStart \/ DeleteNode \/ New PROVE IInv'
    BY <1>5, DeleteStartInv, DeleteNodeInv, NewInv
  <1> QED BY <1>1, <1>2, <1>4, <1>5 DEF Next

(* The invariant of the two locks, the list and the live nodes always holds. *)
THEOREM Invariance == Spec => []IInv
  BY InitInv, NextInv, PTL DEF Spec

(* No step of push, pop, is_empty or delete touches a node that was freed,  *)
(* although pop may free the node queue->tail points to.                    *)
LEMMA TouchesLiveNodes == IInv => NoUseAfterFree
  <1> SUFFICES ASSUME IInv PROVE NoUseAfterFree
    OBVIOUS
  <1>1. ASSUME NEW t \in Threads, pc[t] = "push_link" PROVE tail \in live
    BY <1>1, ChainFacts
       DEF IInv, TailInv, LiveInv, MutexInv, HoldsTail
  <1>2. ASSUME NEW t \in Threads, pc[t] \in {"pop_load", "pop_take", "empty_load"}
        PROVE  head \in live
    BY <1>2, ChainFacts DEF IInv, LiveInv
  <1>3. ASSUME NEW t \in Threads, pc[t] \in {"pop_take", "pop_free"}
        PROVE  node[t] \in live
    BY <1>3, ChainFacts DEF IInv, LiveInv, PopInv
  <1>4. ASSUME cursor # NULL PROVE cursor \in live
    BY <1>4, ChainFacts DEF IInv, LiveInv, ChainInv
  <1> QED BY <1>1, <1>2, <1>3, <1>4 DEF NoUseAfterFree

(* SimpleQueue_delete frees every node. *)
LEMMA DeleteFreesAll == IInv => NoLeak
  <1> SUFFICES ASSUME IInv, ~open, cursor = NULL PROVE live = {}
    BY DEF NoLeak
  <1>1. chain = <<>> /\ \A t \in Threads : pc[t] = "idle"
    BY ChainFacts, SimpleQueueAssumption DEF IInv, ChainInv
  <1>2. Len(chain) = 0
    BY <1>1
  <1> QED BY <1>1, <1>2 DEF IInv, LiveInv, InChain

(* Both hold in every state of push, pop, is_empty, delete and new.         *)
THEOREM MemorySafety == Spec => []MemorySafe
  <1>1. IInv => MemorySafe
    BY TouchesLiveNodes, DeleteFreesAll DEF MemorySafe
  <1> QED BY <1>1, Invariance, PTL

-----------------------------------------------------------------------------
(* The refinement: what each step of SimpleQueue is to FifoQueue.          *)

USE DEF Fifo!Call, Fifo!Become, Fifo!Answers

LEMMA CallAtValues ==
  /\ CallAt("idle") = "idle"
  /\ CallAt("push_lock") = "push" /\ CallAt("push_link") = "push" /\ CallAt("push_swing") = "pushed"
  /\ CallAt("pop_lock") = "pop" /\ CallAt("pop_load") = "pop" /\ CallAt("pop_take") = "pop"
  /\ CallAt("pop_free") = "popped" /\ CallAt("pop_empty") = "popped"
  /\ CallAt("empty_lock") = "is_empty" /\ CallAt("empty_load") = "is_empty"
  /\ CallAt("was_empty") = "empty" /\ CallAt("was_not_empty") = "not_empty"
  BY DEF CallAt

(* Every answer rests on one load, so no past emptiness is remembered. *)
LEMMA Watching == Fifo!Watch
  BY DEF Fifo!Watch, abstractSeen

(* A step that moves a thread changes the operation of that thread only.   *)
LEMMA OpMovesOnly ==
  ASSUME TypeOK, NEW t \in Threads, NEW there,
         pc' = [pc EXCEPT ![t] = there], value' = value
  PROVE  abstractOp' = [abstractOp EXCEPT ![t] = Fifo!Call(CallAt(there), value[t])]
  BY DEF TypeOK, abstractOp

(* A move between two places of the same call is nothing to FifoQueue.     *)
LEMMA OpStays ==
  ASSUME TypeOK, NEW t \in Threads, NEW there,
         pc' = [pc EXCEPT ![t] = there], value' = value,
         CallAt(there) = CallAt(pc[t])
  PROVE  abstractOp' = abstractOp
  BY DEF TypeOK, abstractOp

LEMMA ItemsStay ==
  ASSUME chain' = chain, item' = item, open' = open
  PROVE  abstractItems' = abstractItems
  BY DEF abstractItems, Contents

(* The contents of the queue are a sequence, one shorter than the chain.   *)
LEMMA ListedSeq ==
  ASSUME NEW c \in Seq(Addr), c # <<>>, NEW f \in [Addr -> Values \cup {EMPTY_VALUE}],
         NEW s, s = [i \in 1..(Len(c) - 1) |-> f[c[i + 1]]]
  PROVE  /\ s \in Seq(Values \cup {EMPTY_VALUE})
         /\ Len(s) = Len(c) - 1
         /\ \A i \in 1..(Len(c) - 1) : s[i] = f[c[i + 1]]
  <1>1. Len(c) \in Nat \ {0} /\ \A i \in 1..Len(c) : c[i] \in Addr
    BY LenProperties, ElementOfSeq, EmptySeq
  <1>2. Len(c) - 1 \in Nat /\ \A i \in 1..(Len(c) - 1) : i + 1 \in 1..Len(c)
    BY <1>1
  <1>3. \A i \in 1..(Len(c) - 1) : f[c[i + 1]] \in Values \cup {EMPTY_VALUE}
    BY <1>1, <1>2
  <1> QED BY <1>2, <1>3, IsASeq

LEMMA ContentsSeq ==
  ASSUME TypeOK, chain # <<>>
  PROVE  /\ Contents \in Seq(Values \cup {EMPTY_VALUE})
         /\ Len(Contents) = Len(chain) - 1
         /\ \A i \in 1..(Len(chain) - 1) : Contents[i] = item[chain[i + 1]]
  BY ListedSeq DEF TypeOK, Contents

LEMMA ContentsSeqNext ==
  ASSUME TypeOK', chain' # <<>>
  PROVE  /\ Contents' \in Seq(Values \cup {EMPTY_VALUE})
         /\ Len(Contents') = Len(chain') - 1
         /\ \A i \in 1..(Len(chain') - 1) : Contents'[i] = item'[chain'[i + 1]]
  BY ListedSeq DEF TypeOK, Contents

(* A step that changes neither the contents nor any operation.             *)
LEMMA StutterStep ==
  ASSUME abstractItems' = abstractItems, abstractOp' = abstractOp
  PROVE  Fifo!FifoNext
  BY Watching DEF Fifo!FifoNext, Fifo!Look

LEMMA CallPushRefines ==
  ASSUME IInv, NEW t \in Threads, NEW v \in Values, CallPush(t, v)
  PROVE  Fifo!FifoNext
  <1>1. abstractItems' = abstractItems
    BY ItemsStay DEF CallPush, shared, owner
  <1>2. abstractOp' = [abstractOp EXCEPT ![t] = Fifo!Call("push", v)]
    <2>1. TypeOK /\ pc' = [pc EXCEPT ![t] = "push_lock"] /\ value' = [value EXCEPT ![t] = v]
      BY DEF IInv, CallPush, From, Goto
    <2> QED BY <2>1, CallAtValues DEF TypeOK, abstractOp
  <1>3. abstractOp[t] = Fifo!Idle
    BY CallAtValues DEF IInv, CallPush, From, ValueInv, abstractOp, Fifo!Idle
  <1> QED BY <1>1, <1>2, <1>3, Watching DEF Fifo!FifoNext, Fifo!Invoke

LEMMA CallReadRefines ==
  ASSUME IInv, NEW t \in Threads, CallPop(t) \/ CallIsEmpty(t)
  PROVE  Fifo!FifoNext
  <1>1. abstractItems' = abstractItems
    BY ItemsStay DEF CallPop, CallIsEmpty, shared, owner
  <1>2. value[t] = EMPTY_VALUE
    BY DEF IInv, ValueInv, CallPop, CallIsEmpty, From
  <1>3. \/ abstractOp' = [abstractOp EXCEPT ![t] = Fifo!Call("pop", EMPTY_VALUE)]
        \/ abstractOp' = [abstractOp EXCEPT ![t] = Fifo!Call("is_empty", EMPTY_VALUE)]
    BY <1>2, OpMovesOnly, CallAtValues DEF IInv, CallPop, CallIsEmpty, From, Goto
  <1>4. abstractOp[t] = Fifo!Idle
    BY <1>2, CallAtValues DEF CallPop, CallIsEmpty, From, abstractOp, Fifo!Idle
  <1> QED BY <1>1, <1>3, <1>4, Watching DEF Fifo!FifoNext, Fifo!Invoke

(* LockTail, LockHead and a pop that found a node do not show.             *)
LEMMA LockRefines ==
  ASSUME IInv, NEW t \in Threads, LockTail(t) \/ LockHead(t)
  PROVE  Fifo!FifoNext
  <1>1. abstractItems' = abstractItems
    BY ItemsStay DEF LockTail, LockHead, owner
  <1>2. abstractOp' = abstractOp
    BY OpStays, CallAtValues DEF IInv, LockTail, LockHead, From, Goto
  <1> QED BY <1>1, <1>2, StutterStep

(* push takes effect when it stores the new node in tail->next (l.76).     *)
LEMMA PushLinkRefines ==
  ASSUME IInv, IInv', NEW t \in Threads, PushLink(t)
  PROVE  Fifo!FifoNext
  <1> DEFINE n == Len(chain)
  <1>0. PICK a \in Addr :
          /\ a \notin live
          /\ item' = [item EXCEPT ![a] = value[t]]
          /\ chain' = Append(chain, a)
    BY DEF PushLink, Fresh
  <1>a. /\ open /\ open' /\ n \in Nat /\ n > 0 /\ chain # <<>>
        /\ \A i \in 1..n : chain[i] \in Addr /\ chain[i] # a
    BY <1>0, ChainFacts DEF IInv, LiveInv, PushLink, From, owner
  <1>b. /\ chain' # <<>> /\ Len(chain') = n + 1
        /\ \A i \in 1..n : chain'[i] = chain[i]
        /\ chain'[n + 1] = a
    <2>1. chain \in Seq(Addr)
      BY DEF IInv, TypeOK
    <2> QED BY <1>0, <2>1, AppendPositions
  <1>c. value[t] \in Values \cup {EMPTY_VALUE}
    BY DEF IInv, TypeOK
  <1>1. Contents' = Append(Contents, value[t])
    <2> DEFINE V == Values \cup {EMPTY_VALUE}
               A == Append(Contents, value[t])
    <2>1. /\ Contents \in Seq(V) /\ Len(Contents) = n - 1
          /\ \A i \in 1..(n - 1) : Contents[i] = item[chain[i + 1]]
      BY <1>a, ContentsSeq DEF IInv
    <2>2. /\ Contents' \in Seq(V) /\ Len(Contents') = n
          /\ \A i \in 1..n : Contents'[i] = item'[chain'[i + 1]]
      <3>1. /\ Contents' \in Seq(V) /\ Len(Contents') = Len(chain') - 1
            /\ \A i \in 1..(Len(chain') - 1) : Contents'[i] = item'[chain'[i + 1]]
        BY <1>b, ContentsSeqNext DEF IInv
      <3> QED BY <3>1, <1>a, <1>b
    <2>3. /\ A \in Seq(V) /\ Len(A) = n
          /\ \A i \in 1..(n - 1) : A[i] = Contents[i]
          /\ A[n] = value[t]
      BY <2>1, <1>a, <1>c, AppendPositions
    <2>4. ASSUME NEW i \in 1..n PROVE Contents'[i] = A[i]
      <3>1. CASE i = n
        BY <3>1, <2>2, <2>3, <1>0, <1>a, <1>b DEF IInv, TypeOK
      <3>2. CASE i # n
        <4>1. i \in 1..(n - 1) /\ i + 1 \in 1..n
          BY <3>2, <1>a
        <4>2. item'[chain[i + 1]] = item[chain[i + 1]]
          BY <4>1, <1>0, <1>a DEF IInv, TypeOK
        <4> QED BY <4>1, <4>2, <2>1, <2>2, <2>3, <1>b
      <3> QED BY <3>1, <3>2
    <2> QED BY <2>2, <2>3, <2>4, SeqEqual
  <1>2. abstractItems' = Append(abstractItems, abstractOp[t].item)
    BY <1>1, <1>a DEF abstractItems, abstractOp
  <1>3. abstractOp' = [abstractOp EXCEPT ![t] = Fifo!Call("pushed", EMPTY_VALUE)]
    <2>1. TypeOK /\ pc' = [pc EXCEPT ![t] = "push_swing"] /\ value' = [value EXCEPT ![t] = EMPTY_VALUE]
      BY DEF IInv, PushLink, From, Goto
    <2> QED BY <2>1, CallAtValues DEF TypeOK, abstractOp
  <1>4. abstractOp[t].call = "push"
    BY CallAtValues DEF PushLink, From, abstractOp
  <1> QED BY <1>2, <1>3, <1>4, Watching DEF Fifo!FifoNext, Fifo!Push

LEMMA PushSwingRefines ==
  ASSUME IInv, NEW t \in Threads, PushSwing(t)
  PROVE  Fifo!FifoNext
  <1>1. abstractItems' = abstractItems
    BY ItemsStay DEF PushSwing, owner
  <1>2. abstractOp' = [abstractOp EXCEPT ![t] = Fifo!Idle]
    <2>1. TypeOK /\ pc' = [pc EXCEPT ![t] = "idle"] /\ value' = value /\ value[t] = EMPTY_VALUE
      BY DEF IInv, ValueInv, PushSwing, From, Goto
    <2> QED BY <2>1, CallAtValues DEF TypeOK, abstractOp, Fifo!Idle
  <1>3. abstractOp[t].call = "pushed"
    BY CallAtValues DEF PushSwing, From, abstractOp
  <1> QED BY <1>1, <1>2, <1>3, Watching DEF Fifo!FifoNext, Fifo!Return

(* The list after the head is empty exactly when the queue is.             *)
LEMMA EmptyList ==
  ASSUME IInv, open
  PROVE  next[head] = NULL <=> abstractItems = <<>>
  <1>1. /\ Len(chain) \in Nat /\ Len(chain) > 0 /\ head = chain[1] /\ chain # <<>>
        /\ \A i \in 1..Len(chain) : chain[i] \in Addr
    BY ChainFacts DEF IInv
  <1>2. next[head] = NULL <=> Len(chain) = 1
    <2>a. Len(chain) \in Nat /\ 1 \in 1..Len(chain)
      BY <1>1
    <2>0. 1 \in 1..Len(chain) /\ (Len(chain) # 1 => 1 + 1 \in 1..Len(chain))
      BY ONLY <2>a, NextPosition
    <2>1. next[chain[1]] = IF 1 = Len(chain) THEN NULL ELSE chain[1 + 1]
      BY <2>0 DEF IInv, ChainInv
    <2>2. Len(chain) # 1 => chain[1 + 1] \in Addr
      BY <1>1, <2>0
    <2> QED BY <1>1, <2>1, <2>2, SimpleQueueAssumption
  <1>3. Len(Contents) = Len(chain) - 1 /\ Contents \in Seq(Values \cup {EMPTY_VALUE})
    BY <1>1, ContentsSeq DEF IInv
  <1>4. Contents = <<>> <=> Len(Contents) = 0
    BY <1>3, EmptySeq
  <1> QED BY <1>1, <1>2, <1>3, <1>4 DEF abstractItems

(* An empty pop takes effect when it reads head->next (l.88).              *)
LEMMA PopLoadRefines ==
  ASSUME IInv, NEW t \in Threads, PopLoad(t)
  PROVE  Fifo!FifoNext
  <1>0. open /\ value[t] = EMPTY_VALUE
    BY ChainFacts DEF IInv, ValueInv, PopLoad, From
  <1>1. abstractItems' = abstractItems
    BY ItemsStay DEF PopLoad, shared, owner
  <1>2. CASE next[head] # NULL
    <2>1. abstractOp' = abstractOp
      BY <1>2, OpStays, CallAtValues DEF IInv, PopLoad, From, Goto
    <2> QED BY <1>1, <2>1, StutterStep
  <1>3. CASE next[head] = NULL
    <2>1. abstractOp' = [abstractOp EXCEPT ![t] = Fifo!Call("popped", EMPTY_VALUE)]
      BY <1>0, <1>3, OpMovesOnly, CallAtValues DEF IInv, PopLoad, From, Goto
    <2>2. abstractOp[t].call = "pop"
      BY CallAtValues DEF PopLoad, From, abstractOp
    <2>3. abstractItems = <<>>
      BY <1>0, <1>3, EmptyList
    <2> QED BY <1>1, <2>1, <2>2, <2>3, Watching DEF Fifo!FifoNext, Fifo!PopEmpty, Fifo!WasTrue
  <1> QED BY <1>2, <1>3

(* is_empty takes effect when it reads head->next (l.109).                 *)
LEMMA IsEmptyLoadRefines ==
  ASSUME IInv, NEW t \in Threads, IsEmptyLoad(t)
  PROVE  Fifo!FifoNext
  <1>0. open /\ value[t] = EMPTY_VALUE
    BY ChainFacts DEF IInv, ValueInv, IsEmptyLoad, From
  <1>1. abstractItems' = abstractItems
    BY ItemsStay DEF IsEmptyLoad, shared, owner
  <1>2. abstractOp[t].call = "is_empty"
    BY CallAtValues DEF IsEmptyLoad, From, abstractOp
  <1>3. \/ /\ abstractItems = <<>>
           /\ abstractOp' = [abstractOp EXCEPT ![t] = Fifo!Call("empty", EMPTY_VALUE)]
        \/ /\ abstractItems # <<>>
           /\ abstractOp' = [abstractOp EXCEPT ![t] = Fifo!Call("not_empty", EMPTY_VALUE)]
    BY <1>0, EmptyList, OpMovesOnly, CallAtValues DEF IInv, IsEmptyLoad, From, Goto
  <1> QED BY <1>1, <1>2, <1>3, Watching DEF Fifo!FifoNext, Fifo!AnswerIsEmpty, Fifo!WasTrue

(* pop takes effect when it moves the head (l.96).                         *)
LEMMA PopTakeRefines ==
  ASSUME IInv, IInv', NEW t \in Threads, PopTake(t)
  PROVE  Fifo!FifoNext
  <1> DEFINE n == Len(chain)
             V == Values \cup {EMPTY_VALUE}
  <1>a. /\ open /\ open' /\ n \in Nat /\ n > 1 /\ node[t] = chain[2] /\ chain # <<>>
        /\ item' = item
    BY ChainFacts DEF IInv, PopInv, PopTake, From, owner
  <1>b. /\ chain' # <<>> /\ Len(chain') = n - 1
        /\ \A i \in 1..(n - 1) : chain'[i] = chain[i + 1]
    BY <1>a, TailPositions DEF IInv, TypeOK, PopTake
  <1>1. /\ Contents \in Seq(V) /\ Len(Contents) = n - 1
        /\ \A i \in 1..(n - 1) : Contents[i] = item[chain[i + 1]]
    BY <1>a, ContentsSeq DEF IInv
  <1>2. /\ Contents' \in Seq(V) /\ Len(Contents') = n - 1 - 1
        /\ \A i \in 1..(n - 1 - 1) : Contents'[i] = item[chain[i + 1 + 1]]
    <2>1. /\ Contents' \in Seq(V) /\ Len(Contents') = Len(chain') - 1
          /\ \A i \in 1..(Len(chain') - 1) : Contents'[i] = item'[chain'[i + 1]]
      BY <1>b, ContentsSeqNext DEF IInv
    <2>2. \A i \in 1..(n - 1 - 1) : i + 1 \in 1..(n - 1)
      BY <1>a
    <2> QED BY <2>1, <2>2, <1>a, <1>b
  <1>3. Contents # <<>> /\ Contents[1] = item[node[t]] /\ Head(Contents) = Contents[1]
    <2>1. Contents # <<>> /\ 1 \in 1..(n - 1) /\ 1 + 1 = 2
      BY <1>1, <1>a, EmptySeq
    <2> QED BY <2>1, <1>1, <1>a
  <1>4. Contents' = Tail(Contents)
    <2>1. /\ Tail(Contents) \in Seq(V) /\ Len(Tail(Contents)) = n - 1 - 1
          /\ \A i \in 1..(n - 1 - 1) : Tail(Contents)[i] = Contents[i + 1]
      BY <1>1, <1>3, TailPositions
    <2>2. \A i \in 1..(n - 1 - 1) : i + 1 \in 1..(n - 1)
      BY <1>a
    <2>3. \A i \in 1..(n - 1 - 1) : Contents'[i] = Tail(Contents)[i]
      BY <2>1, <2>2, <1>1, <1>2
    <2> QED BY <2>1, <2>3, <1>2, SeqEqual
  <1>5. /\ abstractItems # <<>>
        /\ abstractItems' = Tail(abstractItems)
        /\ Head(abstractItems) = item[node[t]]
    BY <1>3, <1>4, <1>a DEF abstractItems
  <1>6. abstractOp' = [abstractOp EXCEPT ![t] = Fifo!Call("popped", item[node[t]])]
    <2>1. TypeOK /\ pc' = [pc EXCEPT ![t] = "pop_free"] /\ value' = [value EXCEPT ![t] = item[node[t]]]
      BY DEF IInv, PopTake, PoppedItem, From, Goto
    <2> QED BY <2>1, CallAtValues DEF TypeOK, abstractOp
  <1>7. abstractOp[t].call = "pop"
    BY CallAtValues DEF PopTake, From, abstractOp
  <1> QED BY <1>5, <1>6, <1>7, Watching DEF Fifo!FifoNext, Fifo!Pop

LEMMA PopFreeRefines ==
  ASSUME IInv, NEW t \in Threads, PopFree(t)
  PROVE  Fifo!FifoNext
  <1>1. abstractItems' = abstractItems
    <2>1. \A i \in 1..Len(chain) : chain[i] # node[t]
      BY DEF IInv, LiveInv, InChain, PopFree, From
    <2>2. Len(chain) \in Nat
      BY ChainFacts DEF IInv
    <2>3. \A i \in 1..(Len(chain) - 1) : item'[chain[i + 1]] = item[chain[i + 1]]
      <3> TAKE i \in 1..(Len(chain) - 1)
      <3>1. i + 1 \in 1..Len(chain)
        BY <2>2
      <3> QED BY <2>1, <3>1, ChainFacts DEF IInv, TypeOK, PopFree
    <2> QED BY <2>3 DEF abstractItems, Contents, PopFree, owner
  <1>2. abstractOp' = [abstractOp EXCEPT ![t] = Fifo!Idle]
    <2>1. TypeOK /\ pc' = [pc EXCEPT ![t] = "idle"] /\ value' = [value EXCEPT ![t] = EMPTY_VALUE]
      BY DEF IInv, PopFree, From, Goto
    <2> QED BY <2>1, CallAtValues DEF TypeOK, abstractOp, Fifo!Idle
  <1>3. abstractOp[t].call = "popped"
    BY CallAtValues DEF PopFree, From, abstractOp
  <1> QED BY <1>1, <1>2, <1>3, Watching DEF Fifo!FifoNext, Fifo!Return

LEMMA EmptyReturnsRefine ==
  ASSUME IInv, NEW t \in Threads, PopEmpty(t) \/ IsEmptyReturn(t)
  PROVE  Fifo!FifoNext
  <1>1. abstractItems' = abstractItems
    BY ItemsStay DEF PopEmpty, IsEmptyReturn, owner
  <1>2. abstractOp' = [abstractOp EXCEPT ![t] = Fifo!Idle]
    BY OpMovesOnly, CallAtValues
       DEF IInv, ValueInv, PopEmpty, IsEmptyReturn, From, Goto, Fifo!Idle
  <1>3. abstractOp[t].call \in {"popped", "empty", "not_empty"}
    BY CallAtValues DEF PopEmpty, IsEmptyReturn, From, abstractOp
  <1> QED BY <1>1, <1>2, <1>3, Watching DEF Fifo!FifoNext, Fifo!Return

LEMMA AllIdleAbstract ==
  ASSUME IInv, \A t \in Threads : pc[t] = "idle"
  PROVE  abstractOp = [t \in Threads |-> Fifo!Idle]
  BY CallAtValues DEF IInv, ValueInv, abstractOp, Fifo!Idle

(* delete and new are the owner's Renew: nobody is inside an operation.    *)
LEMMA OwnerRefines ==
  ASSUME IInv, DeleteStart \/ DeleteNode \/ New
  PROVE  Fifo!FifoNext
  <1>1. \A t \in Threads : pc[t] = "idle"
    BY ChainFacts DEF IInv, ChainInv, DeleteStart, DeleteNode, New
  <1>2. abstractOp' = abstractOp
    BY DEF DeleteStart, DeleteNode, New, locals, abstractOp
  <1>3. abstractItems' = <<>>
    <2>1. CASE New
      <3>1. Len(chain') = 1 /\ open'
        BY <2>1 DEF New
      <3> QED BY <3>1 DEF abstractItems, Contents
    <2>2. CASE DeleteStart \/ DeleteNode
      <3>1. ~open'
        BY <2>2 DEF DeleteStart, DeleteNode, IInv, ChainInv, owner
      <3> QED BY <3>1 DEF abstractItems
    <2> QED BY <2>1, <2>2
  <1> QED BY <1>1, <1>2, <1>3, AllIdleAbstract, Watching DEF Fifo!FifoNext, Fifo!Renew

LEMMA InitRefines == Init => Fifo!FifoInit
  <1> SUFFICES ASSUME Init PROVE Fifo!FifoInit
    OBVIOUS
  <1>1. IInv /\ open /\ Len(chain) = 1 /\ \A t \in Threads : pc[t] = "idle"
    BY InitInv DEF Init, EmptyQueueAt
  <1>2. abstractItems = <<>>
    BY <1>1 DEF abstractItems, Contents
  <1> QED BY <1>1, <1>2, AllIdleAbstract DEF Fifo!FifoInit, abstractSeen

LEMMA StepRefines == IInv /\ IInv' /\ [Next]_vars => [Fifo!FifoNext]_Fifo!fifoVars
  <1> SUFFICES ASSUME IInv, IInv', [Next]_vars PROVE [Fifo!FifoNext]_Fifo!fifoVars
    OBVIOUS
  <1>1. CASE UNCHANGED vars
    BY <1>1 DEF vars, shared, locals, owner, abstractItems, Contents, abstractOp, abstractSeen,
                Fifo!fifoVars
  <1>2. ASSUME NEW t \in Threads, Invoke(t) PROVE Fifo!FifoNext
    BY <1>2, CallPushRefines, CallReadRefines DEF Invoke
  <1>3. ASSUME NEW t \in Threads, Return(t) PROVE Fifo!FifoNext
    BY <1>3, PushSwingRefines, PopFreeRefines, EmptyReturnsRefine DEF Return
  <1>4. ASSUME NEW t \in Threads, Step(t) PROVE Fifo!FifoNext
    BY <1>4, <1>3, LockRefines, PushLinkRefines, PopLoadRefines, PopTakeRefines,
       IsEmptyLoadRefines DEF Step
  <1> QED BY <1>1, <1>2, <1>4, OwnerRefines DEF Next

(* The two-lock queue is a linearizable first-in first-out queue.          *)
THEOREM Linearizable == Spec => IsFifoQueue
  BY InitRefines, StepRefines, Invariance, PTL DEF Spec, IsFifoQueue, Fifo!FifoSpec
=============================================================================
