---------------------------- MODULE LLQueueProofs ----------------------------
(***************************************************************************)
(* The lock-free list, for every set of threads, values and addresses and  *)
(* every threshold: its invariant, that no freed node is touched under a   *)
(* hazard pointer, and that it implements FifoQueue.                       *)
(*                                                                         *)
(* The theorems have no hypothesis: a scan frees whatever no pointer holds. *)
(* They say what is true until a thread uses a node that was freed under it *)
(* (`spoilt`), and that this happens at l.124, l.129 and l.143 only.        *)
(***************************************************************************)
EXTENDS LLQueue, TLAPS, SequenceTheorems

-----------------------------------------------------------------------------
(* What the steps do to the positions of chain and of the retired lists.   *)

LEMMA AppendPositions ==
  ASSUME NEW S, NEW s \in Seq(S), NEW a \in S
  PROVE  /\ Append(s, a) \in Seq(S)
         /\ Append(s, a) # <<>>
         /\ Len(s) \in Nat
         /\ Len(Append(s, a)) = Len(s) + 1
         /\ \A i \in 1..Len(s) : Append(s, a)[i] = s[i]
         /\ Append(s, a)[Len(s) + 1] = a
  BY AppendProperties, LenProperties

LEMMA TailPositions ==
  ASSUME NEW S, NEW s \in Seq(S), s # <<>>
  PROVE  /\ Tail(s) \in Seq(S)
         /\ Len(s) \in Nat \ {0}
         /\ Len(Tail(s)) = Len(s) - 1
         /\ \A i \in 1..(Len(s) - 1) : Tail(s)[i] = s[i + 1]
         /\ (Tail(s) = <<>> <=> Len(s) = 1)
  <1>1. Tail(s) \in Seq(S) /\ Len(Tail(s)) = Len(s) - 1
    BY HeadTailProperties
  <1>2. Len(s) \in Nat \ {0}
    BY EmptySeq, LenProperties
  <1>3. \A i \in 1..(Len(s) - 1) : Tail(s)[i] = s[i + 1]
    BY <1>1, HeadTailProperties
  <1>4. Tail(s) = <<>> <=> Len(Tail(s)) = 0
    BY <1>1, EmptySeq
  <1> QED BY <1>1, <1>2, <1>3, <1>4

LEMMA BehindFirst ==
  ASSUME NEW n \in Nat \ {0}, \A i \in 1..(n - 1) : chain'[i] = chain[i + 1],
         \A i, j \in 1..n : chain[i] = chain[j] => i = j
  PROVE  \A b : (\E i \in 1..(n - 1) : chain'[i] = b) <=> (\E i \in 1..n : chain[i] = b) /\ b # chain[1]
  <1> SUFFICES ASSUME NEW b
               PROVE  (\E i \in 1..(n - 1) : chain'[i] = b) <=> (\E i \in 1..n : chain[i] = b) /\ b # chain[1]
    OBVIOUS
  <1>1. ASSUME NEW i \in 1..(n - 1), chain'[i] = b PROVE (\E j \in 1..n : chain[j] = b) /\ b # chain[1]
    <2>1. i + 1 \in 1..n /\ 1 \in 1..n /\ i + 1 # 1
      OBVIOUS
    <2>2. chain[i + 1] = b
      BY <1>1
    <2> QED BY <2>1, <2>2
  <1>2. ASSUME NEW i \in 1..n, chain[i] = b, b # chain[1] PROVE \E j \in 1..(n - 1) : chain'[j] = b
    <2>1. i # 1
      BY <1>2
    <2>2. i - 1 \in 1..(n - 1) /\ (i - 1) + 1 = i
      BY <2>1
    <2>3. chain'[i - 1] = chain[(i - 1) + 1]
      BY <2>2
    <2> QED BY <2>2, <2>3, <1>2
  <1> QED BY <1>1, <1>2

(* Taking one element out of a list (the unlinking of a freed RetiredNode). *)
LEMMA WithoutPositions ==
  ASSUME NEW S, NEW s \in Seq(S), NEW i \in 1..Len(s)
  PROVE  /\ Len(s) \in Nat
         /\ Without(s, i) \in Seq(S)
         /\ Len(Without(s, i)) = Len(s) - 1
         /\ \A j \in 1..(i - 1) : Without(s, i)[j] = s[j]
         /\ \A j \in i..(Len(s) - 1) : Without(s, i)[j] = s[j + 1]
  <1> DEFINE a == SubSeq(s, 1, i - 1)
             b == SubSeq(s, i + 1, Len(s))
  <1>0. Len(s) \in Nat
    BY LenProperties
  <1>1. /\ a \in Seq(S) /\ Len(a) = i - 1
        /\ \A j \in 1..(i - 1) : a[j] = s[j]
    BY <1>0
  <1>2. /\ b \in Seq(S) /\ Len(b) = Len(s) - i
        /\ \A j \in 1..(Len(s) - i) : b[j] = s[i + j]
    BY <1>0
  <1>3. /\ a \o b \in Seq(S)
        /\ Len(a \o b) = Len(s) - 1
        /\ \A j \in 1..(i - 1) : (a \o b)[j] = a[j]
        /\ \A j \in i..(Len(s) - 1) : (a \o b)[j] = b[j - (i - 1)]
    <2> HIDE DEF a, b
    <2>1. Len(a) + Len(b) = Len(s) - 1
      BY <1>0, <1>1, <1>2
    <2>2. /\ a \o b \in Seq(S)
          /\ Len(a \o b) = Len(a) + Len(b)
          /\ \A j \in 1..Len(a) + Len(b) :
               (a \o b)[j] = IF j <= Len(a) THEN a[j] ELSE b[j - Len(a)]
      BY <1>1, <1>2, ConcatProperties
    <2>3. \A j \in 1..(Len(s) - 1) : (a \o b)[j] = IF j <= i - 1 THEN a[j] ELSE b[j - (i - 1)]
      BY <1>1, <2>1, <2>2
    <2>4. \A j \in 1..(i - 1) : j \in 1..(Len(s) - 1) /\ j <= i - 1
      BY <1>0
    <2>5. \A j \in i..(Len(s) - 1) : j \in 1..(Len(s) - 1) /\ ~(j <= i - 1)
      BY <1>0
    <2> QED BY <2>1, <2>2, <2>3, <2>4, <2>5
  <1>4. ASSUME NEW j \in i..(Len(s) - 1) PROVE (a \o b)[j] = s[j + 1]
    <2>1. j - (i - 1) \in 1..(Len(s) - i) /\ i + (j - (i - 1)) = j + 1
      BY <1>0
    <2> HIDE DEF a, b
    <2> QED BY <2>1, <1>2, <1>3
  <1> QED BY <1>0, <1>1, <1>3, <1>4 DEF Without

(* Adding one at the front (HazardPointer_retire). *)
LEMMA PrependPositions ==
  ASSUME NEW S, NEW s \in Seq(S), NEW a \in S
  PROVE  /\ <<a>> \o s \in Seq(S)
         /\ Len(s) \in Nat
         /\ Len(<<a>> \o s) = Len(s) + 1
         /\ (<<a>> \o s)[1] = a
         /\ \A j \in 1..Len(s) : (<<a>> \o s)[j + 1] = s[j]
  <1>1. <<a>> \in Seq(S) /\ Len(<<a>>) = 1 /\ <<a>>[1] = a /\ Len(s) \in Nat
    BY LenProperties
  <1> QED BY <1>1, ConcatProperties

LEMMA AboveOne ==
  ASSUME NEW n \in Nat, n > 0, n # 1
  PROVE  n > 1 /\ 1 \in 1..n /\ 2 \in 1..n /\ 1 + 1 = 2
  OBVIOUS

USE HazardPointerAssumption, LLQueueAssumption

-----------------------------------------------------------------------------
(* What the parts of the invariant say together.                           *)

Mine == [item : Item, node : Node, end : Node, other : Node, next : Node]

LEMMA MyType ==
  ASSUME TypeOK, NEW t \in Threads
  PROVE  /\ my[t] \in Mine
         /\ my[t].item \in Item /\ my[t].node \in Node /\ my[t].end \in Node
         /\ my[t].other \in Node /\ my[t].next \in Node
         /\ pc[t] \in Places /\ pointer[t] \in Node
         /\ retired[t] \in Seq(Addr) /\ Len(retired[t]) \in Nat
         /\ scan[t] \in [at : Nat, unread : SUBSET Threads]
         /\ \A i \in 1..Len(retired[t]) : retired[t][i] \in Addr
  BY LenProperties, ElementOfSeq DEF TypeOK, HazardTypeOK, Mine, Node

LEMMA FieldTypes ==
  ASSUME NEW m \in Mine
  PROVE  /\ \A v \in Item : [m EXCEPT !.item = v] \in Mine
         /\ \A a \in Node : [m EXCEPT !.node = a] \in Mine
         /\ \A a \in Node : [m EXCEPT !.end = a] \in Mine
         /\ \A a \in Node : [m EXCEPT !.other = a] \in Mine
         /\ \A a \in Node : [m EXCEPT !.next = a] \in Mine
  BY DEF Mine

LEMMA BlankType ==
  /\ Blank \in Mine /\ NULL \in Node
  /\ \A v \in Item, a \in Node : [Blank EXCEPT !.item = v, !.node = a] \in Mine
  BY DEF Blank, Mine, Item, Node

LEMMA ChainFacts ==
  ASSUME Sound
  PROVE  /\ chain \in Seq(Addr) /\ Len(chain) \in Nat
         /\ \A i \in 1..Len(chain) : chain[i] \in Addr /\ chain[i] \in live
         /\ chain # <<>> <=> Len(chain) > 0
         /\ head \in Addr => InChain(head) /\ chain # <<>> /\ head = chain[1]
         /\ \A a \in Node : InChain(a) => a \in Addr /\ a \in live
         /\ \A t \in Threads : pc[t] # "idle" => phase = "open"
         /\ phase = "open" => /\ chain # <<>> /\ Len(chain) > 0
                              /\ head \in Addr /\ InChain(head) /\ head = chain[1]
                              /\ tail \in Addr /\ InChain(tail)
  <1>1. chain \in Seq(Addr)
    BY DEF Sound, TypeOK
  <1>2. /\ Len(chain) \in Nat
        /\ \A i \in 1..Len(chain) : chain[i] \in Addr
        /\ chain # <<>> <=> Len(chain) > 0
    BY <1>1, LenProperties, ElementOfSeq, EmptySeq
  <1>3. \A i \in 1..Len(chain) : chain[i] \in live /\ InChain(chain[i])
    BY <1>2 DEF Sound, OwnerInv, InChain
  <1>4. head \in Addr => chain # <<>> /\ head = chain[1] /\ InChain(head)
    BY <1>2, <1>3 DEF Sound, ListInv
  <1>5. phase = "open" => chain # <<>> /\ InChain(tail) /\ tail \in Addr
    BY <1>2 DEF Sound, ListInv, InChain
  <1>6. chain # <<>> => head = chain[1] /\ head \in Addr
    BY <1>2 DEF Sound, ListInv
  <1>7. \A a \in Node : InChain(a) => a \in Addr /\ a \in live
    BY <1>2, <1>3 DEF InChain
  <1>8. \A t \in Threads : pc[t] # "idle" => phase = "open"
    BY DEF Sound, PhaseInv
  <1> QED BY <1>1, <1>2, <1>3, <1>4, <1>5, <1>6, <1>7, <1>8

(* A node is freed under a thread inside its windows only. *)
LEMMA Unfreed ==
  ASSUME Sound, NEW u \in Threads
  PROVE  /\ pc[u] \notin LateEnd => u \notin endFreed
         /\ pc[u] \notin LateOther => u \notin otherFreed
  BY DEF Sound, ThreadInv, NodeInv

(* A scan suspects a node of its list. *)
LEMMA SuspectIsRetired ==
  ASSUME Sound, NEW u \in Threads, Scanning(u)
  PROVE  /\ scan[u].at \in 1..Len(retired[u])
         /\ Suspect(u) \in Addr
         /\ On(u, Suspect(u))
         /\ pc[u] = "pop_scan"
  <1>1. retired[u] \in Seq(Addr) /\ scan[u].at \in Nat /\ scan[u].at <= Len(retired[u])
    BY DEF Sound, TypeOK, HazardTypeOK, ScanInv
  <1>2. scan[u].at \in 1..Len(retired[u])
    BY <1>1, LenProperties DEF Scanning
  <1>3. ~(0 > 0) /\ NoScan.at = 0
    BY DEF NoScan
  <1>4. pc[u] = "pop_scan"
    BY <1>3 DEF Scanning, Sound, ScanInv
  <1> QED BY <1>1, <1>2, <1>4, ElementOfSeq DEF Suspect, On

(* The nodes of the queue are nobody's and suspected by nobody. *)
LEMMA InChainIsShared ==
  ASSUME Sound, NEW a \in Node, InChain(a)
  PROVE  /\ a \in Addr /\ a \in live
         /\ \A u \in Threads : ~Owns(u, a) /\ ~Fresh(u, a)
         /\ \A u \in Threads : Scanning(u) => Suspect(u) # a
  <1>1. a \in Addr /\ a \in live
    BY ChainFacts
  <1>2. \A u \in Threads : ~Owns(u, a)
    BY <1>1 DEF Sound, OwnerInv
  <1>3. \A u \in Threads : ~Fresh(u, a) /\ ~On(u, a)
    BY <1>2 DEF Owns
  <1> QED BY <1>1, <1>2, <1>3, SuspectIsRetired

(* A live node that nobody has for itself and that has no next is the last *)
(* of the queue.                                                           *)
LEMMA LastOfChain ==
  ASSUME Sound, NEW a \in Addr, a \in live, \A u \in Threads : ~Fresh(u, a), next[a] = NULL
  PROVE  InChain(a) /\ chain # <<>> /\ a = chain[Len(chain)]
  <1>1. InChain(a)
    BY DEF Sound, OwnerInv, Owns
  <1>2. PICK i \in 1..Len(chain) : chain[i] = a
    BY <1>1 DEF InChain
  <1>3. i # Len(chain) => i + 1 \in 1..Len(chain) /\ next[chain[i]] = chain[i + 1]
    BY ChainFacts DEF Sound, ListInv
  <1>4. i = Len(chain)
    BY <1>2, <1>3, ChainFacts
  <1> QED BY <1>1, <1>2, <1>4, ChainFacts

(* The next of the head is the second node. *)
LEMMA NextOfHead ==
  ASSUME Sound, phase = "open" \/ chain # <<>>
  PROVE  /\ next[head] = NULL <=> Len(chain) = 1
         /\ next[head] # NULL => /\ Len(chain) > 1 /\ next[head] = chain[2]
                                 /\ InChain(next[head])
  <1>1. /\ Len(chain) \in Nat /\ Len(chain) > 0 /\ head = chain[1]
        /\ \A i \in 1..Len(chain) : chain[i] \in Addr
    BY ChainFacts DEF Sound, ListInv
  <1>2. \A i \in 1..Len(chain) : next[chain[i]] = IF i = Len(chain) THEN NULL ELSE chain[i + 1]
    BY DEF Sound, ListInv
  <1>3. Len(chain) = 1 => next[head] = NULL
    BY <1>1, <1>2
  <1>4. Len(chain) # 1 => /\ Len(chain) > 1 /\ 2 \in 1..Len(chain) /\ next[head] = chain[2]
    <2>1. Len(chain) # 1 => Len(chain) > 1 /\ 1 \in 1..Len(chain) /\ 2 \in 1..Len(chain) /\ 1 + 1 = 2
      BY <1>1, AboveOne
    <2> QED BY <1>1, <1>2, <2>1
  <1> QED BY <1>1, <1>3, <1>4 DEF InChain

LEMMA InitInv == Init => Sound
  <1> SUFFICES ASSUME Init PROVE Sound
    OBVIOUS
  <1>0. PICK a \in Addr : head = a /\ tail = a /\ live = {a} /\ chain = <<a>>
    BY DEF Init
  <1>1. TypeOK
    <2>1. my \in [Threads -> Mine]
      BY BlankType DEF Init
    <2>2. endFreed = {} /\ otherFreed = {} /\ spoilt = FALSE
      BY DEF Init
    <2>3. /\ HazardTypeOK /\ head \in Node /\ tail \in Node
          /\ next \in [Addr -> Node] /\ item \in [Addr -> Item] /\ pc \in [Threads -> Places]
          /\ phase \in {"open", "deleting", "deleted"} /\ chain \in Seq(Addr)
      BY <1>0 DEF Init, HazardInit, NoScan, HazardTypeOK, Places, Node, Item
    <2>4. /\ endFreed \subseteq Threads /\ otherFreed \subseteq Threads
          /\ spoilt \in BOOLEAN
      BY <2>2
    <2> QED BY <2>1, <2>3, <2>4 DEF TypeOK, Mine
  <1>a. \A u \in Threads : ~Scanning(u)
    BY DEF Init, HazardInit, NoScan, Scanning
  <1>b. \A u \in Threads, b \in Node : ~Fresh(u, b) /\ ~Pending(u, b) /\ ~On(u, b)
    BY DEF Init, HazardInit, Fresh, Pending, On, Pushing
  <1>2. OwnerInv
    <2>1. \A b : InChain(b) <=> b = a
      BY <1>0 DEF InChain
    <2>2. \A u \in Threads, b \in Addr : ~Owns(u, b)
      BY <1>b DEF Owns, Node
    <2>3. \A u \in Threads : \A i, j \in 1..Len(retired[u]) : retired[u][i] = retired[u][j] => i = j
      BY DEF Init, HazardInit
    <2> QED BY <1>0, <1>b, <2>1, <2>2, <2>3 DEF OwnerInv, Node
  <1>3. ListInv
    BY <1>0 DEF Init, ListInv
  <1>4. PhaseInv
    BY DEF Init, PhaseInv
  <1>5. ScanInv
    <2>1. NoScan.at <= Len(<<>>)
      BY DEF NoScan
    <2> QED BY <2>1 DEF Init, HazardInit, ScanInv
  <1>6. ASSUME NEW t \in Threads PROVE ThreadInv(t)
    <2>1. pc[t] = "idle" /\ t \notin endFreed /\ t \notin otherFreed
      BY DEF Init
    <2>2. NodeInv(t) /\ PlaceInv(t)
      BY <2>1 DEF NodeInv, LateOther, PlaceInv, PastTail, Pushing, LateEnd, PopEnd
    <2>3. HeldInv(t) /\ ShieldInv(t)
      BY <2>1 DEF HeldInv, ShieldInv, Shields, Unprotected, LateEnd, LateOther, PushEnd, PopEnd
    <2> QED BY <2>2, <2>3 DEF ThreadInv
  <1> QED BY <1>1, <1>2, <1>3, <1>4, <1>5, <1>6 DEF Sound

-----------------------------------------------------------------------------
(* Steps of one thread that change nothing but where it is, its locals and *)
(* its hazard pointer, and may move the tail to the next node.  What it    *)
(* holds afterwards it held before, or is a node of the queue.             *)

LEMMA LocalStep ==
  ASSUME Sound, NEW t \in Threads, TypeOK', phase = "open",
         NEW there, pc' = [pc EXCEPT ![t] = there],
         pc[t] = "pop_scan" => ~Scanning(t),
         \A u \in Threads \ {t} : my'[u] = my[u] /\ pointer'[u] = pointer[u],
         \A u \in Threads \ {t} : /\ u \in endFreed' <=> u \in endFreed
                                  /\ u \in otherFreed' <=> u \in otherFreed,
         UNCHANGED <<head, next, item, phase, chain, retired, scan, live>>,
         tail' = tail \/ (next[tail] # NULL /\ tail' = next[tail]),
         \A a \in Addr : (Fresh(t, a)' <=> Fresh(t, a)) /\ ~Pending(t, a)' /\ ~Pending(t, a),
         NodeInv(t)', PlaceInv(t)',
         pc'[t] \in {"push_validate", "pop_validate"} => pointer'[t] = my'[t].end,
         pc'[t] \in {"pop_head", "pop_reread"} => pointer'[t] = my'[t].next,
         \A a \in Node : Shields(t, a)' => pointer'[t] = a /\ (Shields(t, a) \/ InChain(a)),
         \A a \in Node : a \in Unprotected(t)' => Shields(t, a) \/ a \in Unprotected(t) \/ InChain(a)
  PROVE  Sound'
  <1>a. \A u \in Threads \ {t} : pc'[u] = pc[u]
    BY DEF Sound, TypeOK
  <1>b. \A u \in Threads : (Scanning(u)' <=> Scanning(u)) /\ Suspect(u)' = Suspect(u)
    BY DEF Scanning, Suspect
  <1>c. \A a : InChain(a)' <=> InChain(a)
    BY DEF InChain
  <1>d. \A u \in Threads, a \in Addr : /\ Fresh(u, a)' <=> Fresh(u, a)
                                       /\ Pending(u, a)' <=> Pending(u, a)
                                       /\ On(u, a)' <=> On(u, a)
                                       /\ Owns(u, a)' <=> Owns(u, a)
    <2>1. \A u \in Threads, a \in Addr : On(u, a)' <=> On(u, a)
      BY DEF On
    <2>2. \A u \in Threads, a \in Addr : (Fresh(u, a)' <=> Fresh(u, a)) /\ (Pending(u, a)' <=> Pending(u, a))
      BY <1>a DEF Fresh, Pending
    <2> QED BY <2>1, <2>2 DEF Owns
  <1>1. OwnerInv'
    BY <1>c, <1>d DEF Sound, OwnerInv
  <1>e. tail' # tail => /\ Len(chain) > 1 /\ tail = chain[Len(chain) - 1]
                        /\ tail' = chain[Len(chain)] /\ tail' # head /\ next[tail] # NULL
    <2> DEFINE n == Len(chain)
    <2>1. n \in Nat /\ n > 0 /\ head = chain[1]
      BY ChainFacts
    <2>2. PICK i \in 1..n : i >= n - 1 /\ tail = chain[i]
      BY DEF Sound, ListInv
    <2>3. next[chain[i]] = IF i = n THEN NULL ELSE chain[i + 1]
      BY DEF Sound, ListInv
    <2>4. \A j \in 1..n : chain[1] = chain[j] => 1 = j
      BY <2>1 DEF Sound, ListInv
    <2> HIDE DEF n
    <2>5. i # n => i = n - 1 /\ i + 1 = n /\ n > 1 /\ n \in 1..n
      BY <2>1, <2>2
    <2>6. tail' # tail => i # n
      BY <2>2, <2>3
    <2>7. n > 1 => chain[n] # chain[1]
      BY <2>1, <2>4
    <2> QED BY <2>1, <2>2, <2>3, <2>5, <2>6, <2>7 DEF n
  <1>2. ListInv'
    <2>1. CASE tail' = tail
      BY <2>1 DEF Sound, ListInv
    <2>2. CASE tail' # tail
      <3>1. Len(chain) \in 1..Len(chain) /\ Len(chain) >= Len(chain) - 1
        BY ChainFacts
      <3> QED BY <2>2, <3>1, <1>e DEF Sound, ListInv
    <2> QED BY <2>1, <2>2
  <1>3. PhaseInv'
    BY DEF Sound, PhaseInv
  <1>4. ScanInv'
    BY <1>a, <1>b DEF Sound, ScanInv, NoScan
  <1>5. ASSUME NEW u \in Threads \ {t} PROVE ThreadInv(u)'
    <2>0. /\ pc'[u] = pc[u] /\ my'[u] = my[u] /\ pointer'[u] = pointer[u]
          /\ u \in endFreed' <=> u \in endFreed
          /\ u \in otherFreed' <=> u \in otherFreed
          /\ ThreadInv(u)
      <3>1. u \in Threads /\ ThreadInv(u)
        BY DEF Sound
      <3> QED BY <3>1, <1>a
    <2>1. NodeInv(u)'
      BY <2>0 DEF ThreadInv, NodeInv, LateEnd, LateOther
    <2>2. PlaceInv(u)'
      BY <2>0, <1>c, <1>e DEF ThreadInv, PlaceInv, PastTail, InChain
    <2>3. \A a \in Node : /\ Shields(u, a)' <=> Shields(u, a)
                          /\ a \in Unprotected(u)' <=> a \in Unprotected(u)
      BY <2>0 DEF Shields, Unprotected, LateEnd, LateOther
    <2>4. HeldInv(u)'
      BY <2>0, <2>3, <1>d DEF ThreadInv, HeldInv, Sound, TypeOK, HazardTypeOK
    <2>5. ShieldInv(u)'
      BY <2>0, <2>3, <1>b DEF ThreadInv, ShieldInv
    <2> QED BY <2>1, <2>2, <2>4, <2>5 DEF ThreadInv
  <1>6. ThreadInv(t)'
    <2>1. HeldInv(t) /\ ShieldInv(t)
      BY DEF Sound, ThreadInv
    <2>2. HeldInv(t)'
      <3> SUFFICES ASSUME NEW a \in Node, Shields(t, a)' \/ a \in Unprotected(t)'
                   PROVE  a \in live /\ \A u \in Threads : ~Fresh(u, a)'
        BY DEF HeldInv
      <3>1. Shields(t, a) \/ a \in Unprotected(t) \/ InChain(a)
        OBVIOUS
      <3>2. a \in live /\ \A u \in Threads : ~Fresh(u, a)
        BY <3>1, <2>1, InChainIsShared DEF HeldInv
      <3> QED BY <3>2, <1>d DEF Sound, TypeOK, HazardTypeOK
    <2>3. ASSUME NEW a \in Node, Shields(t, a)',
                 NEW u \in Threads, Scanning(u)', Suspect(u)' = a
          PROVE  t \in scan'[u].unread
      <3>1. Shields(t, a) \/ InChain(a)
        BY <2>3
      <3>2. ~InChain(a)
        BY <2>3, <1>b, InChainIsShared
      <3> QED BY <2>3, <3>1, <3>2, <2>1, <1>b DEF ShieldInv
    <2>4. ShieldInv(t)'
      BY <2>3 DEF ShieldInv
    <2> QED BY <2>2, <2>4 DEF ThreadInv
  <1> QED BY <1>1, <1>2, <1>3, <1>4, <1>5, <1>6 DEF Sound

LEMMA PushLoadInv ==
  ASSUME Sound, NEW t \in Threads, ProtectLoad(t, "push_load", "push_publish", tail)
  PROVE  Sound'
  <1> USE DEF ProtectLoad, From, hazardKept, queueKept, listKept, hazardVars, nodes, history
  <1>0. /\ TypeOK /\ NodeInv(t) /\ PlaceInv(t) /\ HeldInv(t) /\ ShieldInv(t) /\ phase = "open"
    BY ChainFacts DEF Sound, ThreadInv
  <1>f. /\ pc' = [pc EXCEPT ![t] = pc'[t]]
        /\ \A u \in Threads \ {t} : my'[u] = my[u] /\ pointer'[u] = pointer[u]
        /\ UNCHANGED <<head, tail, next, item, phase, chain, retired, scan, live>>
        /\ UNCHANGED <<endFreed, otherFreed, spoilt>>
        /\ pc[t] = "pop_scan" => ~Scanning(t)
    BY <1>0 DEF TypeOK, HazardTypeOK
  <1>1. TypeOK'
    <2>1. my'[t] \in Mine
      BY <1>0, MyType, FieldTypes, BlankType DEF TypeOK, Item
    <2>2. my' \in [Threads -> Mine]
      BY <1>0, <2>1 DEF TypeOK, Mine
    <2>3. pc'[t] \in Places
      BY <1>0 DEF TypeOK, Places
    <2>4. pc' \in [Threads -> Places] /\ pointer' \in [Threads -> Node]
      <3>1. pc' \in [Threads -> Places]
        BY <1>0, <1>f, <2>3 DEF TypeOK
      <3>2. pointer' \in [Threads -> Node]
        BY <1>0, MyType DEF TypeOK, HazardTypeOK, Node
      <3> QED BY <3>1, <3>2
    <2> QED BY <1>0, <2>2, <2>4 DEF TypeOK, HazardTypeOK, Mine, Node
  <1>2. NodeInv(t)' /\ PlaceInv(t)'
    BY <1>0, MyType DEF TypeOK, NodeInv, LateOther, PlaceInv, PastTail, InChain, Pushing, PushEnd,
           PopEnd, LateEnd, Blank
  <1>3. \A a \in Addr : (Fresh(t, a)' <=> Fresh(t, a)) /\ ~Pending(t, a)' /\ ~Pending(t, a)
    BY <1>0, MyType DEF TypeOK, Fresh, Pending, Pushing, Blank
  <1>4. /\ pc'[t] \in {"push_validate", "pop_validate"} => pointer'[t] = my'[t].end
        /\ pc'[t] \in {"pop_head", "pop_reread"} => pointer'[t] = my'[t].next
        /\ \A a \in Node : Shields(t, a)' => pointer'[t] = a /\ (Shields(t, a) \/ InChain(a))
    BY <1>0, MyType, ChainFacts DEF TypeOK, HazardTypeOK, ShieldInv, Shields, PushEnd, PopEnd, Blank
  <1>5. \A a \in Node : a \in Unprotected(t)' => Shields(t, a) \/ a \in Unprotected(t) \/ InChain(a)
    BY <1>0, MyType, ChainFacts DEF TypeOK, Shields, Unprotected, LateEnd, LateOther, PushEnd,
           PopEnd, Blank
  <1> QED BY <1>0, <1>1, <1>2, <1>3, <1>4, <1>5, <1>f, LocalStep

LEMMA PushPublishInv ==
  ASSUME Sound, NEW t \in Threads, ProtectPublish(t, "push_publish", "push_validate")
  PROVE  Sound'
  <1> USE DEF ProtectPublish, Publish, From, hazardKept, queueKept, listKept, hazardVars, nodes, history
  <1>0. /\ TypeOK /\ NodeInv(t) /\ PlaceInv(t) /\ HeldInv(t) /\ ShieldInv(t) /\ phase = "open"
    BY ChainFacts DEF Sound, ThreadInv
  <1>f. /\ pc' = [pc EXCEPT ![t] = pc'[t]]
        /\ \A u \in Threads \ {t} : my'[u] = my[u] /\ pointer'[u] = pointer[u]
        /\ UNCHANGED <<head, tail, next, item, phase, chain, retired, scan, live>>
        /\ UNCHANGED <<endFreed, otherFreed, spoilt>>
        /\ pc[t] = "pop_scan" => ~Scanning(t)
    BY <1>0 DEF TypeOK, HazardTypeOK
  <1>1. TypeOK'
    <2>1. my'[t] \in Mine
      BY <1>0, MyType, FieldTypes, BlankType DEF TypeOK, Item
    <2>2. my' \in [Threads -> Mine]
      BY <1>0, <2>1 DEF TypeOK, Mine
    <2>3. pc'[t] \in Places
      BY <1>0 DEF TypeOK, Places
    <2>4. pc' \in [Threads -> Places] /\ pointer' \in [Threads -> Node]
      <3>1. pc' \in [Threads -> Places]
        BY <1>0, <1>f, <2>3 DEF TypeOK
      <3>2. pointer' \in [Threads -> Node]
        BY <1>0, MyType DEF TypeOK, HazardTypeOK, Node
      <3> QED BY <3>1, <3>2
    <2> QED BY <1>0, <2>2, <2>4 DEF TypeOK, HazardTypeOK, Mine, Node
  <1>2. NodeInv(t)' /\ PlaceInv(t)'
    BY <1>0, MyType DEF TypeOK, NodeInv, LateOther, PlaceInv, PastTail, InChain, Pushing, PushEnd,
           PopEnd, LateEnd, Blank
  <1>3. \A a \in Addr : (Fresh(t, a)' <=> Fresh(t, a)) /\ ~Pending(t, a)' /\ ~Pending(t, a)
    BY <1>0, MyType DEF TypeOK, Fresh, Pending, Pushing, Blank
  <1>4. /\ pc'[t] \in {"push_validate", "pop_validate"} => pointer'[t] = my'[t].end
        /\ pc'[t] \in {"pop_head", "pop_reread"} => pointer'[t] = my'[t].next
        /\ \A a \in Node : Shields(t, a)' => pointer'[t] = a /\ (Shields(t, a) \/ InChain(a))
    BY <1>0, MyType, ChainFacts DEF TypeOK, HazardTypeOK, ShieldInv, Shields, PushEnd, PopEnd, Blank
  <1>5. \A a \in Node : a \in Unprotected(t)' => Shields(t, a) \/ a \in Unprotected(t) \/ InChain(a)
    BY <1>0, MyType, ChainFacts DEF TypeOK, Shields, Unprotected, LateEnd, LateOther, PushEnd,
           PopEnd, Blank
  <1> QED BY <1>0, <1>1, <1>2, <1>3, <1>4, <1>5, <1>f, LocalStep

LEMMA PushValidateInv ==
  ASSUME Sound, NEW t \in Threads, ProtectValidate(t, "push_validate", "push_load", "push_next", tail)
  PROVE  Sound'
  <1> USE DEF ProtectValidate, From, hazardKept, queueKept, listKept, hazardVars, nodes, history
  <1>0. /\ TypeOK /\ NodeInv(t) /\ PlaceInv(t) /\ HeldInv(t) /\ ShieldInv(t) /\ phase = "open"
    BY ChainFacts DEF Sound, ThreadInv
  <1>f. /\ pc' = [pc EXCEPT ![t] = pc'[t]]
        /\ \A u \in Threads \ {t} : my'[u] = my[u] /\ pointer'[u] = pointer[u]
        /\ UNCHANGED <<head, tail, next, item, phase, chain, retired, scan, live>>
        /\ UNCHANGED <<endFreed, otherFreed, spoilt>>
        /\ pc[t] = "pop_scan" => ~Scanning(t)
    BY <1>0 DEF TypeOK, HazardTypeOK
  <1>1. TypeOK'
    <2>1. my'[t] \in Mine
      BY <1>0, MyType, FieldTypes, BlankType DEF TypeOK, Item
    <2>2. my' \in [Threads -> Mine]
      BY <1>0, <2>1 DEF TypeOK, Mine
    <2>3. pc'[t] \in Places
      BY <1>0 DEF TypeOK, Places
    <2>4. pc' \in [Threads -> Places] /\ pointer' \in [Threads -> Node]
      <3>1. pc' \in [Threads -> Places]
        BY <1>0, <1>f, <2>3 DEF TypeOK
      <3>2. pointer' \in [Threads -> Node]
        BY <1>0, MyType DEF TypeOK, HazardTypeOK, Node
      <3> QED BY <3>1, <3>2
    <2> QED BY <1>0, <2>2, <2>4 DEF TypeOK, HazardTypeOK, Mine, Node
  <1>2. NodeInv(t)' /\ PlaceInv(t)'
    BY <1>0, MyType DEF TypeOK, NodeInv, LateOther, PlaceInv, PastTail, InChain, Pushing, PushEnd,
           PopEnd, LateEnd, Blank
  <1>3. \A a \in Addr : (Fresh(t, a)' <=> Fresh(t, a)) /\ ~Pending(t, a)' /\ ~Pending(t, a)
    BY <1>0, MyType DEF TypeOK, Fresh, Pending, Pushing, Blank
  <1>4. /\ pc'[t] \in {"push_validate", "pop_validate"} => pointer'[t] = my'[t].end
        /\ pc'[t] \in {"pop_head", "pop_reread"} => pointer'[t] = my'[t].next
        /\ \A a \in Node : Shields(t, a)' => pointer'[t] = a /\ (Shields(t, a) \/ InChain(a))
    BY <1>0, MyType, ChainFacts DEF TypeOK, HazardTypeOK, ShieldInv, Shields, PushEnd, PopEnd, Blank
  <1>5. \A a \in Node : a \in Unprotected(t)' => Shields(t, a) \/ a \in Unprotected(t) \/ InChain(a)
    BY <1>0, MyType, ChainFacts DEF TypeOK, Shields, Unprotected, LateEnd, LateOther, PushEnd,
           PopEnd, Blank
  <1> QED BY <1>0, <1>1, <1>2, <1>3, <1>4, <1>5, <1>f, LocalStep

LEMMA PushNextInv ==
  ASSUME Sound, NEW t \in Threads, PushNext(t)
  PROVE  Sound'
  <1> USE DEF PushNext, From, hazardKept, queueKept, listKept, hazardVars, nodes, history
  <1>0. /\ TypeOK /\ NodeInv(t) /\ PlaceInv(t) /\ HeldInv(t) /\ ShieldInv(t) /\ phase = "open"
    BY ChainFacts DEF Sound, ThreadInv
  <1>f. /\ pc' = [pc EXCEPT ![t] = pc'[t]]
        /\ \A u \in Threads \ {t} : my'[u] = my[u] /\ pointer'[u] = pointer[u]
        /\ UNCHANGED <<head, tail, next, item, phase, chain, retired, scan, live>>
        /\ UNCHANGED <<endFreed, otherFreed, spoilt>>
        /\ pc[t] = "pop_scan" => ~Scanning(t)
    BY <1>0 DEF TypeOK, HazardTypeOK
  <1>a. my[t].end \in Addr /\ next[my[t].end] \in Node
    BY <1>0, MyType DEF HeldInv, Shields, PushEnd, TypeOK, HazardTypeOK, Node
  <1>1. TypeOK'
    <2>1. my'[t] \in Mine
      BY <1>0, <1>a, MyType, FieldTypes, BlankType DEF TypeOK, Item
    <2>2. my' \in [Threads -> Mine]
      BY <1>0, <2>1 DEF TypeOK, Mine
    <2>3. pc'[t] \in Places
      BY <1>0 DEF TypeOK, Places
    <2>4. pc' \in [Threads -> Places] /\ pointer' \in [Threads -> Node]
      <3>1. pc' \in [Threads -> Places]
        BY <1>0, <1>f, <2>3 DEF TypeOK
      <3>2. pointer' \in [Threads -> Node]
        BY <1>0, MyType DEF TypeOK, HazardTypeOK, Node
      <3> QED BY <3>1, <3>2
    <2> QED BY <1>0, <2>2, <2>4 DEF TypeOK, HazardTypeOK, Mine, Node
  <1>2. NodeInv(t)' /\ PlaceInv(t)'
    BY <1>0, MyType DEF TypeOK, NodeInv, LateOther, PlaceInv, PastTail, InChain, Pushing, PushEnd,
           PopEnd, LateEnd, Blank
  <1>3. \A a \in Addr : (Fresh(t, a)' <=> Fresh(t, a)) /\ ~Pending(t, a)' /\ ~Pending(t, a)
    BY <1>0, MyType DEF TypeOK, Fresh, Pending, Pushing, Blank
  <1>4. /\ pc'[t] \in {"push_validate", "pop_validate"} => pointer'[t] = my'[t].end
        /\ pc'[t] \in {"pop_head", "pop_reread"} => pointer'[t] = my'[t].next
        /\ \A a \in Node : Shields(t, a)' => pointer'[t] = a /\ (Shields(t, a) \/ InChain(a))
    BY <1>0, MyType, ChainFacts DEF TypeOK, HazardTypeOK, ShieldInv, Shields, PushEnd, PopEnd, Blank
  <1>5. \A a \in Node : a \in Unprotected(t)' => Shields(t, a) \/ a \in Unprotected(t) \/ InChain(a)
    BY <1>0, MyType, ChainFacts DEF TypeOK, Shields, Unprotected, LateEnd, LateOther, PushEnd,
           PopEnd, Blank
  <1> QED BY <1>0, <1>1, <1>2, <1>3, <1>4, <1>5, <1>f, LocalStep

LEMMA PushCheckInv ==
  ASSUME Sound, NEW t \in Threads, PushCheck(t)
  PROVE  Sound'
  <1> USE DEF PushCheck, From, hazardKept, queueKept, listKept, hazardVars, nodes, history
  <1>0. /\ TypeOK /\ NodeInv(t) /\ PlaceInv(t) /\ HeldInv(t) /\ ShieldInv(t) /\ phase = "open"
    BY ChainFacts DEF Sound, ThreadInv
  <1>f. /\ pc' = [pc EXCEPT ![t] = pc'[t]]
        /\ \A u \in Threads \ {t} : my'[u] = my[u] /\ pointer'[u] = pointer[u]
        /\ UNCHANGED <<head, tail, next, item, phase, chain, retired, scan, live>>
        /\ UNCHANGED <<endFreed, otherFreed, spoilt>>
        /\ pc[t] = "pop_scan" => ~Scanning(t)
    BY <1>0 DEF TypeOK, HazardTypeOK
  <1>1. TypeOK'
    <2>1. my'[t] \in Mine
      BY <1>0, MyType, FieldTypes, BlankType DEF TypeOK, Item
    <2>2. my' \in [Threads -> Mine]
      BY <1>0, <2>1 DEF TypeOK, Mine
    <2>3. pc'[t] \in Places
      BY <1>0 DEF TypeOK, Places
    <2>4. pc' \in [Threads -> Places] /\ pointer' \in [Threads -> Node]
      <3>1. pc' \in [Threads -> Places]
        BY <1>0, <1>f, <2>3 DEF TypeOK
      <3>2. pointer' \in [Threads -> Node]
        BY <1>0, MyType DEF TypeOK, HazardTypeOK, Node
      <3> QED BY <3>1, <3>2
    <2> QED BY <1>0, <2>2, <2>4 DEF TypeOK, HazardTypeOK, Mine, Node
  <1>2. NodeInv(t)' /\ PlaceInv(t)'
    BY <1>0, MyType DEF TypeOK, NodeInv, LateOther, PlaceInv, PastTail, InChain, Pushing, PushEnd,
           PopEnd, LateEnd, Blank
  <1>3. \A a \in Addr : (Fresh(t, a)' <=> Fresh(t, a)) /\ ~Pending(t, a)' /\ ~Pending(t, a)
    BY <1>0, MyType DEF TypeOK, Fresh, Pending, Pushing, Blank
  <1>4. /\ pc'[t] \in {"push_validate", "pop_validate"} => pointer'[t] = my'[t].end
        /\ pc'[t] \in {"pop_head", "pop_reread"} => pointer'[t] = my'[t].next
        /\ \A a \in Node : Shields(t, a)' => pointer'[t] = a /\ (Shields(t, a) \/ InChain(a))
    BY <1>0, MyType, ChainFacts DEF TypeOK, HazardTypeOK, ShieldInv, Shields, PushEnd, PopEnd, Blank
  <1>5. \A a \in Node : a \in Unprotected(t)' => Shields(t, a) \/ a \in Unprotected(t) \/ InChain(a)
    BY <1>0, MyType, ChainFacts DEF TypeOK, Shields, Unprotected, LateEnd, LateOther, PushEnd,
           PopEnd, Blank
  <1> QED BY <1>0, <1>1, <1>2, <1>3, <1>4, <1>5, <1>f, LocalStep

LEMMA PushClearInv ==
  ASSUME Sound, NEW t \in Threads, PushClear(t)
  PROVE  Sound'
  <1> USE DEF PushClear, Clear, Again, From, hazardKept, queueKept, listKept, hazardVars, nodes, history
  <1>0. /\ TypeOK /\ NodeInv(t) /\ PlaceInv(t) /\ HeldInv(t) /\ ShieldInv(t) /\ phase = "open"
    BY ChainFacts DEF Sound, ThreadInv
  <1>f. /\ pc' = [pc EXCEPT ![t] = pc'[t]]
        /\ \A u \in Threads \ {t} : my'[u] = my[u] /\ pointer'[u] = pointer[u]
        /\ UNCHANGED <<head, tail, next, item, phase, chain, retired, scan, live>>
        /\ UNCHANGED <<endFreed, otherFreed, spoilt>>
        /\ pc[t] = "pop_scan" => ~Scanning(t)
    BY <1>0 DEF TypeOK, HazardTypeOK
  <1>1. TypeOK'
    <2>1. my'[t] \in Mine
      BY <1>0, MyType, FieldTypes, BlankType DEF TypeOK, Item
    <2>2. my' \in [Threads -> Mine]
      BY <1>0, <2>1 DEF TypeOK, Mine
    <2>3. pc'[t] \in Places
      BY <1>0 DEF TypeOK, Places
    <2>4. pc' \in [Threads -> Places] /\ pointer' \in [Threads -> Node]
      <3>1. pc' \in [Threads -> Places]
        BY <1>0, <1>f, <2>3 DEF TypeOK
      <3>2. pointer' \in [Threads -> Node]
        BY <1>0, MyType DEF TypeOK, HazardTypeOK, Node
      <3> QED BY <3>1, <3>2
    <2> QED BY <1>0, <2>2, <2>4 DEF TypeOK, HazardTypeOK, Mine, Node
  <1>2. NodeInv(t)' /\ PlaceInv(t)'
    BY <1>0, MyType DEF TypeOK, NodeInv, LateOther, PlaceInv, PastTail, InChain, Pushing, PushEnd,
           PopEnd, LateEnd, Blank
  <1>3. \A a \in Addr : (Fresh(t, a)' <=> Fresh(t, a)) /\ ~Pending(t, a)' /\ ~Pending(t, a)
    BY <1>0, MyType DEF TypeOK, Fresh, Pending, Pushing, Blank
  <1>4. /\ pc'[t] \in {"push_validate", "pop_validate"} => pointer'[t] = my'[t].end
        /\ pc'[t] \in {"pop_head", "pop_reread"} => pointer'[t] = my'[t].next
        /\ \A a \in Node : Shields(t, a)' => pointer'[t] = a /\ (Shields(t, a) \/ InChain(a))
    BY <1>0, MyType, ChainFacts DEF TypeOK, HazardTypeOK, ShieldInv, Shields, PushEnd, PopEnd, Blank
  <1>5. \A a \in Node : a \in Unprotected(t)' => Shields(t, a) \/ a \in Unprotected(t) \/ InChain(a)
    BY <1>0, MyType, ChainFacts DEF TypeOK, Shields, Unprotected, LateEnd, LateOther, PushEnd,
           PopEnd, Blank
  <1> QED BY <1>0, <1>1, <1>2, <1>3, <1>4, <1>5, <1>f, LocalStep

LEMMA PushReturnInv ==
  ASSUME Sound, NEW t \in Threads, PushReturn(t)
  PROVE  Sound'
  <1> USE DEF PushReturn, Clear, From, hazardKept, queueKept, listKept, hazardVars, nodes, history
  <1>0. /\ TypeOK /\ NodeInv(t) /\ PlaceInv(t) /\ HeldInv(t) /\ ShieldInv(t) /\ phase = "open"
    BY ChainFacts DEF Sound, ThreadInv
  <1>f. /\ pc' = [pc EXCEPT ![t] = pc'[t]]
        /\ \A u \in Threads \ {t} : my'[u] = my[u] /\ pointer'[u] = pointer[u]
        /\ UNCHANGED <<head, tail, next, item, phase, chain, retired, scan, live>>
        /\ UNCHANGED <<endFreed, otherFreed, spoilt>>
        /\ pc[t] = "pop_scan" => ~Scanning(t)
    BY <1>0 DEF TypeOK, HazardTypeOK
  <1>1. TypeOK'
    <2>1. my'[t] \in Mine
      BY <1>0, MyType, FieldTypes, BlankType DEF TypeOK, Item
    <2>2. my' \in [Threads -> Mine]
      BY <1>0, <2>1 DEF TypeOK, Mine
    <2>3. pc'[t] \in Places
      BY <1>0 DEF TypeOK, Places
    <2>4. pc' \in [Threads -> Places] /\ pointer' \in [Threads -> Node]
      <3>1. pc' \in [Threads -> Places]
        BY <1>0, <1>f, <2>3 DEF TypeOK
      <3>2. pointer' \in [Threads -> Node]
        BY <1>0, MyType DEF TypeOK, HazardTypeOK, Node
      <3> QED BY <3>1, <3>2
    <2> QED BY <1>0, <2>2, <2>4 DEF TypeOK, HazardTypeOK, Mine, Node
  <1>2. NodeInv(t)' /\ PlaceInv(t)'
    BY <1>0, MyType DEF TypeOK, NodeInv, LateOther, PlaceInv, PastTail, InChain, Pushing, PushEnd,
           PopEnd, LateEnd, Blank
  <1>3. \A a \in Addr : (Fresh(t, a)' <=> Fresh(t, a)) /\ ~Pending(t, a)' /\ ~Pending(t, a)
    BY <1>0, MyType DEF TypeOK, Fresh, Pending, Pushing, Blank
  <1>4. /\ pc'[t] \in {"push_validate", "pop_validate"} => pointer'[t] = my'[t].end
        /\ pc'[t] \in {"pop_head", "pop_reread"} => pointer'[t] = my'[t].next
        /\ \A a \in Node : Shields(t, a)' => pointer'[t] = a /\ (Shields(t, a) \/ InChain(a))
    BY <1>0, MyType, ChainFacts DEF TypeOK, HazardTypeOK, ShieldInv, Shields, PushEnd, PopEnd, Blank
  <1>5. \A a \in Node : a \in Unprotected(t)' => Shields(t, a) \/ a \in Unprotected(t) \/ InChain(a)
    BY <1>0, MyType, ChainFacts DEF TypeOK, Shields, Unprotected, LateEnd, LateOther, PushEnd,
           PopEnd, Blank
  <1> QED BY <1>0, <1>1, <1>2, <1>3, <1>4, <1>5, <1>f, LocalStep

LEMMA CallPopInv ==
  ASSUME Sound, NEW t \in Threads, CallPop(t)
  PROVE  Sound'
  <1> USE DEF CallPop, From, hazardKept, queueKept, listKept, hazardVars, nodes, history
  <1>0. /\ TypeOK /\ NodeInv(t) /\ PlaceInv(t) /\ HeldInv(t) /\ ShieldInv(t) /\ phase = "open"
    BY ChainFacts DEF Sound, ThreadInv
  <1>f. /\ pc' = [pc EXCEPT ![t] = pc'[t]]
        /\ \A u \in Threads \ {t} : my'[u] = my[u] /\ pointer'[u] = pointer[u]
        /\ UNCHANGED <<head, tail, next, item, phase, chain, retired, scan, live>>
        /\ UNCHANGED <<endFreed, otherFreed, spoilt>>
        /\ pc[t] = "pop_scan" => ~Scanning(t)
    BY <1>0 DEF TypeOK, HazardTypeOK
  <1>1. TypeOK'
    <2>1. my'[t] \in Mine
      BY <1>0, MyType, FieldTypes, BlankType DEF TypeOK, Item
    <2>2. my' \in [Threads -> Mine]
      BY <1>0, <2>1 DEF TypeOK, Mine
    <2>3. pc'[t] \in Places
      BY <1>0 DEF TypeOK, Places
    <2>4. pc' \in [Threads -> Places] /\ pointer' \in [Threads -> Node]
      <3>1. pc' \in [Threads -> Places]
        BY <1>0, <1>f, <2>3 DEF TypeOK
      <3>2. pointer' \in [Threads -> Node]
        BY <1>0, MyType DEF TypeOK, HazardTypeOK, Node
      <3> QED BY <3>1, <3>2
    <2> QED BY <1>0, <2>2, <2>4 DEF TypeOK, HazardTypeOK, Mine, Node
  <1>2. NodeInv(t)' /\ PlaceInv(t)'
    BY <1>0, MyType DEF TypeOK, NodeInv, LateOther, PlaceInv, PastTail, InChain, Pushing, PushEnd,
           PopEnd, LateEnd, Blank
  <1>3. \A a \in Addr : (Fresh(t, a)' <=> Fresh(t, a)) /\ ~Pending(t, a)' /\ ~Pending(t, a)
    BY <1>0, MyType DEF TypeOK, Fresh, Pending, Pushing, Blank
  <1>4. /\ pc'[t] \in {"push_validate", "pop_validate"} => pointer'[t] = my'[t].end
        /\ pc'[t] \in {"pop_head", "pop_reread"} => pointer'[t] = my'[t].next
        /\ \A a \in Node : Shields(t, a)' => pointer'[t] = a /\ (Shields(t, a) \/ InChain(a))
    BY <1>0, MyType, ChainFacts DEF TypeOK, HazardTypeOK, ShieldInv, Shields, PushEnd, PopEnd, Blank
  <1>5. \A a \in Node : a \in Unprotected(t)' => Shields(t, a) \/ a \in Unprotected(t) \/ InChain(a)
    BY <1>0, MyType, ChainFacts DEF TypeOK, Shields, Unprotected, LateEnd, LateOther, PushEnd,
           PopEnd, Blank
  <1> QED BY <1>0, <1>1, <1>2, <1>3, <1>4, <1>5, <1>f, LocalStep

LEMMA PopLoadInv ==
  ASSUME Sound, NEW t \in Threads, ProtectLoad(t, "pop_load", "pop_publish", head)
  PROVE  Sound'
  <1> USE DEF ProtectLoad, From, hazardKept, queueKept, listKept, hazardVars, nodes, history
  <1>0. /\ TypeOK /\ NodeInv(t) /\ PlaceInv(t) /\ HeldInv(t) /\ ShieldInv(t) /\ phase = "open"
    BY ChainFacts DEF Sound, ThreadInv
  <1>f. /\ pc' = [pc EXCEPT ![t] = pc'[t]]
        /\ \A u \in Threads \ {t} : my'[u] = my[u] /\ pointer'[u] = pointer[u]
        /\ UNCHANGED <<head, tail, next, item, phase, chain, retired, scan, live>>
        /\ UNCHANGED <<endFreed, otherFreed, spoilt>>
        /\ pc[t] = "pop_scan" => ~Scanning(t)
    BY <1>0 DEF TypeOK, HazardTypeOK
  <1>1. TypeOK'
    <2>1. my'[t] \in Mine
      BY <1>0, MyType, FieldTypes, BlankType DEF TypeOK, Item
    <2>2. my' \in [Threads -> Mine]
      BY <1>0, <2>1 DEF TypeOK, Mine
    <2>3. pc'[t] \in Places
      BY <1>0 DEF TypeOK, Places
    <2>4. pc' \in [Threads -> Places] /\ pointer' \in [Threads -> Node]
      <3>1. pc' \in [Threads -> Places]
        BY <1>0, <1>f, <2>3 DEF TypeOK
      <3>2. pointer' \in [Threads -> Node]
        BY <1>0, MyType DEF TypeOK, HazardTypeOK, Node
      <3> QED BY <3>1, <3>2
    <2> QED BY <1>0, <2>2, <2>4 DEF TypeOK, HazardTypeOK, Mine, Node
  <1>2. NodeInv(t)' /\ PlaceInv(t)'
    BY <1>0, MyType DEF TypeOK, NodeInv, LateOther, PlaceInv, PastTail, InChain, Pushing, PushEnd,
           PopEnd, LateEnd, Blank
  <1>3. \A a \in Addr : (Fresh(t, a)' <=> Fresh(t, a)) /\ ~Pending(t, a)' /\ ~Pending(t, a)
    BY <1>0, MyType DEF TypeOK, Fresh, Pending, Pushing, Blank
  <1>4. /\ pc'[t] \in {"push_validate", "pop_validate"} => pointer'[t] = my'[t].end
        /\ pc'[t] \in {"pop_head", "pop_reread"} => pointer'[t] = my'[t].next
        /\ \A a \in Node : Shields(t, a)' => pointer'[t] = a /\ (Shields(t, a) \/ InChain(a))
    BY <1>0, MyType, ChainFacts DEF TypeOK, HazardTypeOK, ShieldInv, Shields, PushEnd, PopEnd, Blank
  <1>5. \A a \in Node : a \in Unprotected(t)' => Shields(t, a) \/ a \in Unprotected(t) \/ InChain(a)
    BY <1>0, MyType, ChainFacts DEF TypeOK, Shields, Unprotected, LateEnd, LateOther, PushEnd,
           PopEnd, Blank
  <1> QED BY <1>0, <1>1, <1>2, <1>3, <1>4, <1>5, <1>f, LocalStep

LEMMA PopPublishInv ==
  ASSUME Sound, NEW t \in Threads, ProtectPublish(t, "pop_publish", "pop_validate")
  PROVE  Sound'
  <1> USE DEF ProtectPublish, Publish, From, hazardKept, queueKept, listKept, hazardVars, nodes, history
  <1>0. /\ TypeOK /\ NodeInv(t) /\ PlaceInv(t) /\ HeldInv(t) /\ ShieldInv(t) /\ phase = "open"
    BY ChainFacts DEF Sound, ThreadInv
  <1>f. /\ pc' = [pc EXCEPT ![t] = pc'[t]]
        /\ \A u \in Threads \ {t} : my'[u] = my[u] /\ pointer'[u] = pointer[u]
        /\ UNCHANGED <<head, tail, next, item, phase, chain, retired, scan, live>>
        /\ UNCHANGED <<endFreed, otherFreed, spoilt>>
        /\ pc[t] = "pop_scan" => ~Scanning(t)
    BY <1>0 DEF TypeOK, HazardTypeOK
  <1>1. TypeOK'
    <2>1. my'[t] \in Mine
      BY <1>0, MyType, FieldTypes, BlankType DEF TypeOK, Item
    <2>2. my' \in [Threads -> Mine]
      BY <1>0, <2>1 DEF TypeOK, Mine
    <2>3. pc'[t] \in Places
      BY <1>0 DEF TypeOK, Places
    <2>4. pc' \in [Threads -> Places] /\ pointer' \in [Threads -> Node]
      <3>1. pc' \in [Threads -> Places]
        BY <1>0, <1>f, <2>3 DEF TypeOK
      <3>2. pointer' \in [Threads -> Node]
        BY <1>0, MyType DEF TypeOK, HazardTypeOK, Node
      <3> QED BY <3>1, <3>2
    <2> QED BY <1>0, <2>2, <2>4 DEF TypeOK, HazardTypeOK, Mine, Node
  <1>2. NodeInv(t)' /\ PlaceInv(t)'
    BY <1>0, MyType DEF TypeOK, NodeInv, LateOther, PlaceInv, PastTail, InChain, Pushing, PushEnd,
           PopEnd, LateEnd, Blank
  <1>3. \A a \in Addr : (Fresh(t, a)' <=> Fresh(t, a)) /\ ~Pending(t, a)' /\ ~Pending(t, a)
    BY <1>0, MyType DEF TypeOK, Fresh, Pending, Pushing, Blank
  <1>4. /\ pc'[t] \in {"push_validate", "pop_validate"} => pointer'[t] = my'[t].end
        /\ pc'[t] \in {"pop_head", "pop_reread"} => pointer'[t] = my'[t].next
        /\ \A a \in Node : Shields(t, a)' => pointer'[t] = a /\ (Shields(t, a) \/ InChain(a))
    BY <1>0, MyType, ChainFacts DEF TypeOK, HazardTypeOK, ShieldInv, Shields, PushEnd, PopEnd, Blank
  <1>5. \A a \in Node : a \in Unprotected(t)' => Shields(t, a) \/ a \in Unprotected(t) \/ InChain(a)
    BY <1>0, MyType, ChainFacts DEF TypeOK, Shields, Unprotected, LateEnd, LateOther, PushEnd,
           PopEnd, Blank
  <1> QED BY <1>0, <1>1, <1>2, <1>3, <1>4, <1>5, <1>f, LocalStep

LEMMA PopValidateInv ==
  ASSUME Sound, NEW t \in Threads, ProtectValidate(t, "pop_validate", "pop_load", "pop_tail", head)
  PROVE  Sound'
  <1> USE DEF ProtectValidate, From, hazardKept, queueKept, listKept, hazardVars, nodes, history
  <1>0. /\ TypeOK /\ NodeInv(t) /\ PlaceInv(t) /\ HeldInv(t) /\ ShieldInv(t) /\ phase = "open"
    BY ChainFacts DEF Sound, ThreadInv
  <1>f. /\ pc' = [pc EXCEPT ![t] = pc'[t]]
        /\ \A u \in Threads \ {t} : my'[u] = my[u] /\ pointer'[u] = pointer[u]
        /\ UNCHANGED <<head, tail, next, item, phase, chain, retired, scan, live>>
        /\ UNCHANGED <<endFreed, otherFreed, spoilt>>
        /\ pc[t] = "pop_scan" => ~Scanning(t)
    BY <1>0 DEF TypeOK, HazardTypeOK
  <1>1. TypeOK'
    <2>1. my'[t] \in Mine
      BY <1>0, MyType, FieldTypes, BlankType DEF TypeOK, Item
    <2>2. my' \in [Threads -> Mine]
      BY <1>0, <2>1 DEF TypeOK, Mine
    <2>3. pc'[t] \in Places
      BY <1>0 DEF TypeOK, Places
    <2>4. pc' \in [Threads -> Places] /\ pointer' \in [Threads -> Node]
      <3>1. pc' \in [Threads -> Places]
        BY <1>0, <1>f, <2>3 DEF TypeOK
      <3>2. pointer' \in [Threads -> Node]
        BY <1>0, MyType DEF TypeOK, HazardTypeOK, Node
      <3> QED BY <3>1, <3>2
    <2> QED BY <1>0, <2>2, <2>4 DEF TypeOK, HazardTypeOK, Mine, Node
  <1>2. NodeInv(t)' /\ PlaceInv(t)'
    BY <1>0, MyType DEF TypeOK, NodeInv, LateOther, PlaceInv, PastTail, InChain, Pushing, PushEnd,
           PopEnd, LateEnd, Blank
  <1>3. \A a \in Addr : (Fresh(t, a)' <=> Fresh(t, a)) /\ ~Pending(t, a)' /\ ~Pending(t, a)
    BY <1>0, MyType DEF TypeOK, Fresh, Pending, Pushing, Blank
  <1>4. /\ pc'[t] \in {"push_validate", "pop_validate"} => pointer'[t] = my'[t].end
        /\ pc'[t] \in {"pop_head", "pop_reread"} => pointer'[t] = my'[t].next
        /\ \A a \in Node : Shields(t, a)' => pointer'[t] = a /\ (Shields(t, a) \/ InChain(a))
    BY <1>0, MyType, ChainFacts DEF TypeOK, HazardTypeOK, ShieldInv, Shields, PushEnd, PopEnd, Blank
  <1>5. \A a \in Node : a \in Unprotected(t)' => Shields(t, a) \/ a \in Unprotected(t) \/ InChain(a)
    BY <1>0, MyType, ChainFacts DEF TypeOK, Shields, Unprotected, LateEnd, LateOther, PushEnd,
           PopEnd, Blank
  <1> QED BY <1>0, <1>1, <1>2, <1>3, <1>4, <1>5, <1>f, LocalStep

LEMMA PopTailInv ==
  ASSUME Sound, NEW t \in Threads, PopTail(t)
  PROVE  Sound'
  <1> USE DEF PopTail, From, hazardKept, queueKept, listKept, hazardVars, nodes, history
  <1>0. /\ TypeOK /\ NodeInv(t) /\ PlaceInv(t) /\ HeldInv(t) /\ ShieldInv(t) /\ phase = "open"
    BY ChainFacts DEF Sound, ThreadInv
  <1>f. /\ pc' = [pc EXCEPT ![t] = pc'[t]]
        /\ \A u \in Threads \ {t} : my'[u] = my[u] /\ pointer'[u] = pointer[u]
        /\ UNCHANGED <<head, tail, next, item, phase, chain, retired, scan, live>>
        /\ UNCHANGED <<endFreed, otherFreed, spoilt>>
        /\ pc[t] = "pop_scan" => ~Scanning(t)
    BY <1>0 DEF TypeOK, HazardTypeOK
  <1>1. TypeOK'
    <2>1. my'[t] \in Mine
      BY <1>0, MyType, FieldTypes, BlankType DEF TypeOK, Item
    <2>2. my' \in [Threads -> Mine]
      BY <1>0, <2>1 DEF TypeOK, Mine
    <2>3. pc'[t] \in Places
      BY <1>0 DEF TypeOK, Places
    <2>4. pc' \in [Threads -> Places] /\ pointer' \in [Threads -> Node]
      <3>1. pc' \in [Threads -> Places]
        BY <1>0, <1>f, <2>3 DEF TypeOK
      <3>2. pointer' \in [Threads -> Node]
        BY <1>0, MyType DEF TypeOK, HazardTypeOK, Node
      <3> QED BY <3>1, <3>2
    <2> QED BY <1>0, <2>2, <2>4 DEF TypeOK, HazardTypeOK, Mine, Node
  <1>2. NodeInv(t)' /\ PlaceInv(t)'
    BY <1>0, MyType DEF TypeOK, NodeInv, LateOther, PlaceInv, PastTail, InChain, Pushing, PushEnd,
           PopEnd, LateEnd, Blank
  <1>3. \A a \in Addr : (Fresh(t, a)' <=> Fresh(t, a)) /\ ~Pending(t, a)' /\ ~Pending(t, a)
    BY <1>0, MyType DEF TypeOK, Fresh, Pending, Pushing, Blank
  <1>4. /\ pc'[t] \in {"push_validate", "pop_validate"} => pointer'[t] = my'[t].end
        /\ pc'[t] \in {"pop_head", "pop_reread"} => pointer'[t] = my'[t].next
        /\ \A a \in Node : Shields(t, a)' => pointer'[t] = a /\ (Shields(t, a) \/ InChain(a))
    BY <1>0, MyType, ChainFacts DEF TypeOK, HazardTypeOK, ShieldInv, Shields, PushEnd, PopEnd, Blank
  <1>5. \A a \in Node : a \in Unprotected(t)' => Shields(t, a) \/ a \in Unprotected(t) \/ InChain(a)
    BY <1>0, MyType, ChainFacts DEF TypeOK, Shields, Unprotected, LateEnd, LateOther, PushEnd,
           PopEnd, Blank
  <1> QED BY <1>0, <1>1, <1>2, <1>3, <1>4, <1>5, <1>f, LocalStep

LEMMA PopNextInv ==
  ASSUME Sound, NEW t \in Threads, PopNext(t)
  PROVE  Sound'
  <1> USE DEF PopNext, From, hazardKept, queueKept, listKept, hazardVars, nodes, history
  <1>0. /\ TypeOK /\ NodeInv(t) /\ PlaceInv(t) /\ HeldInv(t) /\ ShieldInv(t) /\ phase = "open"
    BY ChainFacts DEF Sound, ThreadInv
  <1>f. /\ pc' = [pc EXCEPT ![t] = pc'[t]]
        /\ \A u \in Threads \ {t} : my'[u] = my[u] /\ pointer'[u] = pointer[u]
        /\ UNCHANGED <<head, tail, next, item, phase, chain, retired, scan, live>>
        /\ UNCHANGED <<endFreed, otherFreed, spoilt>>
        /\ pc[t] = "pop_scan" => ~Scanning(t)
    BY <1>0 DEF TypeOK, HazardTypeOK
  <1>a. my[t].end \in Addr /\ next[my[t].end] \in Node
    BY <1>0, MyType DEF HeldInv, Shields, PopEnd, TypeOK, HazardTypeOK, Node
  <1>1. TypeOK'
    <2>1. my'[t] \in Mine
      BY <1>0, <1>a, MyType, FieldTypes, BlankType DEF TypeOK, Item
    <2>2. my' \in [Threads -> Mine]
      BY <1>0, <2>1 DEF TypeOK, Mine
    <2>3. pc'[t] \in Places
      BY <1>0 DEF TypeOK, Places
    <2>4. pc' \in [Threads -> Places] /\ pointer' \in [Threads -> Node]
      <3>1. pc' \in [Threads -> Places]
        BY <1>0, <1>f, <2>3 DEF TypeOK
      <3>2. pointer' \in [Threads -> Node]
        BY <1>0, MyType DEF TypeOK, HazardTypeOK, Node
      <3> QED BY <3>1, <3>2
    <2> QED BY <1>0, <2>2, <2>4 DEF TypeOK, HazardTypeOK, Mine, Node
  <1>2. NodeInv(t)' /\ PlaceInv(t)'
    BY <1>0, MyType DEF TypeOK, NodeInv, LateOther, PlaceInv, PastTail, InChain, Pushing, PushEnd,
           PopEnd, LateEnd, Blank
  <1>3. \A a \in Addr : (Fresh(t, a)' <=> Fresh(t, a)) /\ ~Pending(t, a)' /\ ~Pending(t, a)
    BY <1>0, MyType DEF TypeOK, Fresh, Pending, Pushing, Blank
  <1>4. /\ pc'[t] \in {"push_validate", "pop_validate"} => pointer'[t] = my'[t].end
        /\ pc'[t] \in {"pop_head", "pop_reread"} => pointer'[t] = my'[t].next
        /\ \A a \in Node : Shields(t, a)' => pointer'[t] = a /\ (Shields(t, a) \/ InChain(a))
    BY <1>0, MyType, ChainFacts DEF TypeOK, HazardTypeOK, ShieldInv, Shields, PushEnd, PopEnd, Blank
  <1>5. \A a \in Node : a \in Unprotected(t)' => Shields(t, a) \/ a \in Unprotected(t) \/ InChain(a)
    BY <1>0, MyType, ChainFacts DEF TypeOK, Shields, Unprotected, LateEnd, LateOther, PushEnd,
           PopEnd, Blank
  <1> QED BY <1>0, <1>1, <1>2, <1>3, <1>4, <1>5, <1>f, LocalStep

LEMMA PopCheckInv ==
  ASSUME Sound, NEW t \in Threads, PopCheck(t)
  PROVE  Sound'
  <1> USE DEF PopCheck, Forget, From, hazardKept, queueKept, listKept, hazardVars, nodes, history
  <1>0. /\ TypeOK /\ NodeInv(t) /\ PlaceInv(t) /\ HeldInv(t) /\ ShieldInv(t) /\ phase = "open"
    BY ChainFacts DEF Sound, ThreadInv
  <1>f. /\ pc' = [pc EXCEPT ![t] = pc'[t]]
        /\ \A u \in Threads \ {t} : my'[u] = my[u] /\ pointer'[u] = pointer[u]
        /\ UNCHANGED <<head, tail, next, item, phase, chain, retired, scan, live>>
        /\ UNCHANGED <<endFreed, otherFreed, spoilt>>
        /\ pc[t] = "pop_scan" => ~Scanning(t)
    BY <1>0 DEF TypeOK, HazardTypeOK
  <1>a. my'[t] = my[t] \/ my'[t] = [my[t] EXCEPT !.other = NULL] \/ my'[t] = Blank
    BY <1>0, MyType DEF TypeOK
  <1>1. TypeOK'
    <2>1. my'[t] \in Mine
      <3>1. my[t] \in Mine
        BY <1>0, MyType
      <3> QED BY ONLY <3>1, <1>a, FieldTypes, BlankType
    <2>2. my' \in [Threads -> Mine]
      BY <1>0, <2>1 DEF TypeOK, Mine
    <2>3. pc'[t] \in Places
      BY <1>0 DEF TypeOK, Places
    <2>4. pc' \in [Threads -> Places] /\ pointer' \in [Threads -> Node]
      <3>1. pc' \in [Threads -> Places]
        BY <1>0, <1>f, <2>3 DEF TypeOK
      <3>2. pointer' \in [Threads -> Node]
        BY <1>0, MyType DEF TypeOK, HazardTypeOK, Node
      <3> QED BY <3>1, <3>2
    <2> QED BY <1>0, <2>2, <2>4 DEF TypeOK, HazardTypeOK, Mine, Node
  <1>2. NodeInv(t)' /\ PlaceInv(t)'
    BY <1>0, MyType DEF TypeOK, NodeInv, LateOther, PlaceInv, PastTail, InChain, Pushing, PushEnd,
           PopEnd, LateEnd, Blank
  <1>3. \A a \in Addr : (Fresh(t, a)' <=> Fresh(t, a)) /\ ~Pending(t, a)' /\ ~Pending(t, a)
    BY <1>0, MyType DEF TypeOK, Fresh, Pending, Pushing, Blank
  <1>4. /\ pc'[t] \in {"push_validate", "pop_validate"} => pointer'[t] = my'[t].end
        /\ pc'[t] \in {"pop_head", "pop_reread"} => pointer'[t] = my'[t].next
        /\ \A a \in Node : Shields(t, a)' => pointer'[t] = a /\ (Shields(t, a) \/ InChain(a))
    BY <1>0, MyType, ChainFacts DEF TypeOK, HazardTypeOK, ShieldInv, Shields, PushEnd, PopEnd, Blank
  <1>5. \A a \in Node : a \in Unprotected(t)' => Shields(t, a) \/ a \in Unprotected(t) \/ InChain(a)
    BY <1>0, MyType, ChainFacts DEF TypeOK, Shields, Unprotected, LateEnd, LateOther, PushEnd,
           PopEnd, Blank
  <1> QED BY <1>0, <1>1, <1>2, <1>3, <1>4, <1>5, <1>f, LocalStep

LEMMA PopProtectNextInv ==
  ASSUME Sound, NEW t \in Threads, PopProtectNext(t)
  PROVE  Sound'
  <1> USE DEF PopProtectNext, Publish, Forget, From, hazardKept, queueKept, listKept, hazardVars, nodes, history
  <1>0. /\ TypeOK /\ NodeInv(t) /\ PlaceInv(t) /\ HeldInv(t) /\ ShieldInv(t) /\ phase = "open"
    BY ChainFacts DEF Sound, ThreadInv
  <1>f. /\ pc' = [pc EXCEPT ![t] = pc'[t]]
        /\ \A u \in Threads \ {t} : my'[u] = my[u] /\ pointer'[u] = pointer[u]
        /\ UNCHANGED <<head, tail, next, item, phase, chain, retired, scan, live>>
        /\ UNCHANGED <<endFreed, otherFreed, spoilt>>
        /\ pc[t] = "pop_scan" => ~Scanning(t)
    BY <1>0 DEF TypeOK, HazardTypeOK
  <1>1. TypeOK'
    <2>1. my'[t] \in Mine
      BY <1>0, MyType, FieldTypes, BlankType DEF TypeOK, Item
    <2>2. my' \in [Threads -> Mine]
      BY <1>0, <2>1 DEF TypeOK, Mine
    <2>3. pc'[t] \in Places
      BY <1>0 DEF TypeOK, Places
    <2>4. pc' \in [Threads -> Places] /\ pointer' \in [Threads -> Node]
      <3>1. pc' \in [Threads -> Places]
        BY <1>0, <1>f, <2>3 DEF TypeOK
      <3>2. pointer' \in [Threads -> Node]
        BY <1>0, MyType DEF TypeOK, HazardTypeOK, Node
      <3> QED BY <3>1, <3>2
    <2> QED BY <1>0, <2>2, <2>4 DEF TypeOK, HazardTypeOK, Mine, Node
  <1>2. NodeInv(t)' /\ PlaceInv(t)'
    BY <1>0, MyType DEF TypeOK, NodeInv, LateOther, PlaceInv, PastTail, InChain, Pushing, PushEnd,
           PopEnd, LateEnd, Blank
  <1>3. \A a \in Addr : (Fresh(t, a)' <=> Fresh(t, a)) /\ ~Pending(t, a)' /\ ~Pending(t, a)
    BY <1>0, MyType DEF TypeOK, Fresh, Pending, Pushing, Blank
  <1>4. /\ pc'[t] \in {"push_validate", "pop_validate"} => pointer'[t] = my'[t].end
        /\ pc'[t] \in {"pop_head", "pop_reread"} => pointer'[t] = my'[t].next
        /\ \A a \in Node : Shields(t, a)' => pointer'[t] = a /\ (Shields(t, a) \/ InChain(a))
    BY <1>0, MyType, ChainFacts DEF TypeOK, HazardTypeOK, ShieldInv, Shields, PushEnd, PopEnd, Blank
  <1>5. \A a \in Node : a \in Unprotected(t)' => Shields(t, a) \/ a \in Unprotected(t) \/ InChain(a)
    BY <1>0, MyType, ChainFacts DEF TypeOK, Shields, Unprotected, LateEnd, LateOther, PushEnd,
           PopEnd, Blank
  <1> QED BY <1>0, <1>1, <1>2, <1>3, <1>4, <1>5, <1>f, LocalStep

LEMMA PopHeadInv ==
  ASSUME Sound, NEW t \in Threads, PopHead(t)
  PROVE  Sound'
  <1> USE DEF PopHead, From, hazardKept, queueKept, listKept, hazardVars, nodes, history
  <1>0. /\ TypeOK /\ NodeInv(t) /\ PlaceInv(t) /\ HeldInv(t) /\ ShieldInv(t) /\ phase = "open"
    BY ChainFacts DEF Sound, ThreadInv
  <1>f. /\ pc' = [pc EXCEPT ![t] = pc'[t]]
        /\ \A u \in Threads \ {t} : my'[u] = my[u] /\ pointer'[u] = pointer[u]
        /\ UNCHANGED <<head, tail, next, item, phase, chain, retired, scan, live>>
        /\ UNCHANGED <<endFreed, otherFreed, spoilt>>
        /\ pc[t] = "pop_scan" => ~Scanning(t)
    BY <1>0 DEF TypeOK, HazardTypeOK
  <1>a. my'[t] = [my[t] EXCEPT !.other = head]
    BY <1>0, MyType DEF TypeOK
  <1>b. my'[t].other = head /\ my'[t].next = my[t].next /\ my[t].next # NULL
    BY <1>0, <1>a, MyType DEF NodeInv, LateOther, LateEnd, Mine
  <1>1. TypeOK'
    <2>1. my'[t] \in Mine
      BY <1>0, <1>a, MyType, FieldTypes, BlankType DEF TypeOK, Item
    <2>2. my' \in [Threads -> Mine]
      BY <1>0, <2>1 DEF TypeOK, Mine
    <2>3. pc'[t] \in Places
      BY <1>0 DEF TypeOK, Places
    <2>4. pc' \in [Threads -> Places] /\ pointer' \in [Threads -> Node]
      <3>1. pc' \in [Threads -> Places]
        BY <1>0, <1>f, <2>3 DEF TypeOK
      <3>2. pointer' \in [Threads -> Node]
        BY <1>0, MyType DEF TypeOK, HazardTypeOK, Node
      <3> QED BY <3>1, <3>2
    <2> QED BY <1>0, <2>2, <2>4 DEF TypeOK, HazardTypeOK, Mine, Node
  <1>2. NodeInv(t)' /\ PlaceInv(t)'
    BY <1>0, MyType DEF TypeOK, NodeInv, LateOther, PlaceInv, PastTail, InChain, Pushing, PushEnd,
           PopEnd, LateEnd, Blank
  <1>3. \A a \in Addr : (Fresh(t, a)' <=> Fresh(t, a)) /\ ~Pending(t, a)' /\ ~Pending(t, a)
    BY <1>0, MyType DEF TypeOK, Fresh, Pending, Pushing, Blank
  <1>4. /\ pc'[t] \in {"push_validate", "pop_validate"} => pointer'[t] = my'[t].end
        /\ pc'[t] \in {"pop_head", "pop_reread"} => pointer'[t] = my'[t].next
        /\ \A a \in Node : Shields(t, a)' => pointer'[t] = a /\ (Shields(t, a) \/ InChain(a))
    BY <1>0, <1>a, <1>b, NextOfHead DEF TypeOK, ShieldInv, Shields, PushEnd, PopEnd
  <1>5. \A a \in Node : a \in Unprotected(t)' => Shields(t, a) \/ a \in Unprotected(t) \/ InChain(a)
    BY <1>0, MyType, ChainFacts DEF TypeOK, Shields, Unprotected, LateEnd, LateOther, PushEnd,
           PopEnd, Blank
  <1> QED BY <1>0, <1>1, <1>2, <1>3, <1>4, <1>5, <1>f, LocalStep

LEMMA PopRereadInv ==
  ASSUME Sound, NEW t \in Threads, PopReread(t), ~spoilt'
  PROVE  Sound'
  <1> USE DEF PopReread, UsesOther, Forget, From, hazardKept, queueKept, listKept, hazardVars, nodes, history
  <1>0. /\ TypeOK /\ NodeInv(t) /\ PlaceInv(t) /\ HeldInv(t) /\ ShieldInv(t) /\ phase = "open"
    BY ChainFacts DEF Sound, ThreadInv
  <1>f. /\ pc' = [pc EXCEPT ![t] = pc'[t]]
        /\ \A u \in Threads \ {t} : my'[u] = my[u] /\ pointer'[u] = pointer[u]
        /\ UNCHANGED <<head, tail, next, item, phase, chain, retired, scan, live>>
        /\ \A u \in Threads \ {t} : /\ u \in endFreed' <=> u \in endFreed
                                    /\ u \in otherFreed' <=> u \in otherFreed
        /\ t \notin otherFreed /\ t \notin otherFreed'
        /\ pc[t] = "pop_scan" => ~Scanning(t)
    BY <1>0 DEF TypeOK, HazardTypeOK
  <1>a. my'[t] = [my[t] EXCEPT !.other = NULL] \/ my'[t] = Blank
    BY <1>0, MyType DEF TypeOK
  <1>1. TypeOK'
    <2>1. my'[t] \in Mine
      <3>1. my[t] \in Mine
        BY <1>0, MyType
      <3> QED BY ONLY <3>1, <1>a, FieldTypes, BlankType
    <2>2. my' \in [Threads -> Mine]
      BY <1>0, <2>1 DEF TypeOK, Mine
    <2>3. pc'[t] \in Places
      BY <1>0 DEF TypeOK, Places
    <2>4. pc' \in [Threads -> Places] /\ pointer' \in [Threads -> Node]
      <3>1. pc' \in [Threads -> Places]
        BY <1>0, <1>f, <2>3 DEF TypeOK
      <3>2. pointer' \in [Threads -> Node]
        BY <1>0, MyType DEF TypeOK, HazardTypeOK, Node
      <3> QED BY <3>1, <3>2
    <2> QED BY <1>0, <2>2, <2>4 DEF TypeOK, HazardTypeOK, Mine, Node
  <1>2. NodeInv(t)' /\ PlaceInv(t)'
    BY <1>0, MyType DEF TypeOK, NodeInv, LateOther, PlaceInv, PastTail, InChain, Pushing, PushEnd,
           PopEnd, LateEnd, Blank
  <1>3. \A a \in Addr : (Fresh(t, a)' <=> Fresh(t, a)) /\ ~Pending(t, a)' /\ ~Pending(t, a)
    BY <1>0, MyType DEF TypeOK, Fresh, Pending, Pushing, Blank
  <1>4. /\ pc'[t] \in {"push_validate", "pop_validate"} => pointer'[t] = my'[t].end
        /\ pc'[t] \in {"pop_head", "pop_reread"} => pointer'[t] = my'[t].next
        /\ \A a \in Node : Shields(t, a)' => pointer'[t] = a /\ (Shields(t, a) \/ InChain(a))
    BY <1>0, <1>f, MyType, ChainFacts DEF TypeOK, HazardTypeOK, ShieldInv, Shields, PushEnd,
           PopEnd, Blank
  <1>5. \A a \in Node : a \in Unprotected(t)' => Shields(t, a) \/ a \in Unprotected(t) \/ InChain(a)
    BY <1>0, MyType, ChainFacts DEF TypeOK, Shields, Unprotected, LateEnd, LateOther, PushEnd,
           PopEnd, Blank
  <1> QED BY <1>0, <1>1, <1>2, <1>3, <1>4, <1>5, <1>f, LocalStep

LEMMA PopClearInv ==
  ASSUME Sound, NEW t \in Threads, PopClear(t)
  PROVE  Sound'
  <1> USE DEF PopClear, Clear, From, hazardKept, queueKept, listKept, hazardVars, nodes, history
  <1>0. /\ TypeOK /\ NodeInv(t) /\ PlaceInv(t) /\ HeldInv(t) /\ ShieldInv(t) /\ phase = "open"
    BY ChainFacts DEF Sound, ThreadInv
  <1>f. /\ pc' = [pc EXCEPT ![t] = pc'[t]]
        /\ \A u \in Threads \ {t} : my'[u] = my[u] /\ pointer'[u] = pointer[u]
        /\ UNCHANGED <<head, tail, next, item, phase, chain, retired, scan, live>>
        /\ UNCHANGED <<endFreed, otherFreed, spoilt>>
        /\ pc[t] = "pop_scan" => ~Scanning(t)
    BY <1>0 DEF TypeOK, HazardTypeOK
  <1>1. TypeOK'
    <2>1. my'[t] \in Mine
      BY <1>0, MyType, FieldTypes, BlankType DEF TypeOK, Item
    <2>2. my' \in [Threads -> Mine]
      BY <1>0, <2>1 DEF TypeOK, Mine
    <2>3. pc'[t] \in Places
      BY <1>0 DEF TypeOK, Places
    <2>4. pc' \in [Threads -> Places] /\ pointer' \in [Threads -> Node]
      <3>1. pc' \in [Threads -> Places]
        BY <1>0, <1>f, <2>3 DEF TypeOK
      <3>2. pointer' \in [Threads -> Node]
        BY <1>0, MyType DEF TypeOK, HazardTypeOK, Node
      <3> QED BY <3>1, <3>2
    <2> QED BY <1>0, <2>2, <2>4 DEF TypeOK, HazardTypeOK, Mine, Node
  <1>2. NodeInv(t)' /\ PlaceInv(t)'
    BY <1>0, MyType DEF TypeOK, NodeInv, LateOther, PlaceInv, PastTail, InChain, Pushing, PushEnd,
           PopEnd, LateEnd, Blank
  <1>3. \A a \in Addr : (Fresh(t, a)' <=> Fresh(t, a)) /\ ~Pending(t, a)' /\ ~Pending(t, a)
    BY <1>0, MyType DEF TypeOK, Fresh, Pending, Pushing, Blank
  <1>4. /\ pc'[t] \in {"push_validate", "pop_validate"} => pointer'[t] = my'[t].end
        /\ pc'[t] \in {"pop_head", "pop_reread"} => pointer'[t] = my'[t].next
        /\ \A a \in Node : Shields(t, a)' => pointer'[t] = a /\ (Shields(t, a) \/ InChain(a))
    BY <1>0, MyType, ChainFacts DEF TypeOK, HazardTypeOK, ShieldInv, Shields, PushEnd, PopEnd, Blank
  <1>5. \A a \in Node : a \in Unprotected(t)' => Shields(t, a) \/ a \in Unprotected(t) \/ InChain(a)
    BY <1>0, MyType, ChainFacts DEF TypeOK, Shields, Unprotected, LateEnd, LateOther, PushEnd,
           PopEnd, Blank
  <1> QED BY <1>0, <1>1, <1>2, <1>3, <1>4, <1>5, <1>f, LocalStep

LEMMA PopItemInv ==
  ASSUME Sound, NEW t \in Threads, PopItem(t)
  PROVE  Sound'
  <1> USE DEF PopItem, From, hazardKept, queueKept, listKept, hazardVars, nodes, history
  <1>0. /\ TypeOK /\ NodeInv(t) /\ PlaceInv(t) /\ HeldInv(t) /\ ShieldInv(t) /\ phase = "open"
    BY ChainFacts DEF Sound, ThreadInv
  <1>f. /\ pc' = [pc EXCEPT ![t] = pc'[t]]
        /\ \A u \in Threads \ {t} : my'[u] = my[u] /\ pointer'[u] = pointer[u]
        /\ UNCHANGED <<head, tail, next, item, phase, chain, retired, scan, live>>
        /\ UNCHANGED <<endFreed, otherFreed, spoilt>>
        /\ pc[t] = "pop_scan" => ~Scanning(t)
    BY <1>0 DEF TypeOK, HazardTypeOK
  <1>a. my[t].next \in Addr /\ item[my[t].next] \in Item
    BY <1>0, MyType DEF HeldInv, Shields, TypeOK, HazardTypeOK, Node
  <1>1. TypeOK'
    <2>1. my'[t] \in Mine
      BY <1>0, <1>a, MyType, FieldTypes, BlankType DEF TypeOK, Item
    <2>2. my' \in [Threads -> Mine]
      BY <1>0, <2>1 DEF TypeOK, Mine
    <2>3. pc'[t] \in Places
      BY <1>0 DEF TypeOK, Places
    <2>4. pc' \in [Threads -> Places] /\ pointer' \in [Threads -> Node]
      <3>1. pc' \in [Threads -> Places]
        BY <1>0, <1>f, <2>3 DEF TypeOK
      <3>2. pointer' \in [Threads -> Node]
        BY <1>0, MyType DEF TypeOK, HazardTypeOK, Node
      <3> QED BY <3>1, <3>2
    <2> QED BY <1>0, <2>2, <2>4 DEF TypeOK, HazardTypeOK, Mine, Node
  <1>2. NodeInv(t)' /\ PlaceInv(t)'
    BY <1>0, MyType DEF TypeOK, NodeInv, LateOther, PlaceInv, PastTail, InChain, Pushing, PushEnd,
           PopEnd, LateEnd, Blank
  <1>3. \A a \in Addr : (Fresh(t, a)' <=> Fresh(t, a)) /\ ~Pending(t, a)' /\ ~Pending(t, a)
    BY <1>0, MyType DEF TypeOK, Fresh, Pending, Pushing, Blank
  <1>4. /\ pc'[t] \in {"push_validate", "pop_validate"} => pointer'[t] = my'[t].end
        /\ pc'[t] \in {"pop_head", "pop_reread"} => pointer'[t] = my'[t].next
        /\ \A a \in Node : Shields(t, a)' => pointer'[t] = a /\ (Shields(t, a) \/ InChain(a))
    BY <1>0, MyType, ChainFacts DEF TypeOK, HazardTypeOK, ShieldInv, Shields, PushEnd, PopEnd, Blank
  <1>5. \A a \in Node : a \in Unprotected(t)' => Shields(t, a) \/ a \in Unprotected(t) \/ InChain(a)
    BY <1>0, MyType, ChainFacts DEF TypeOK, Shields, Unprotected, LateEnd, LateOther, PushEnd,
           PopEnd, Blank
  <1> QED BY <1>0, <1>1, <1>2, <1>3, <1>4, <1>5, <1>f, LocalStep

LEMMA PopScanDoneInv ==
  ASSUME Sound, NEW t \in Threads, PopScanDone(t)
  PROVE  Sound'
  <1> USE DEF PopScanDone, From, hazardKept, queueKept, listKept, hazardVars, nodes, history
  <1>0. /\ TypeOK /\ NodeInv(t) /\ PlaceInv(t) /\ HeldInv(t) /\ ShieldInv(t) /\ phase = "open"
    BY ChainFacts DEF Sound, ThreadInv
  <1>f. /\ pc' = [pc EXCEPT ![t] = pc'[t]]
        /\ \A u \in Threads \ {t} : my'[u] = my[u] /\ pointer'[u] = pointer[u]
        /\ UNCHANGED <<head, tail, next, item, phase, chain, retired, scan, live>>
        /\ UNCHANGED <<endFreed, otherFreed, spoilt>>
        /\ pc[t] = "pop_scan" => ~Scanning(t)
    BY <1>0 DEF TypeOK, HazardTypeOK
  <1>1. TypeOK'
    <2>1. my'[t] \in Mine
      BY <1>0, MyType, FieldTypes, BlankType DEF TypeOK, Item
    <2>2. my' \in [Threads -> Mine]
      BY <1>0, <2>1 DEF TypeOK, Mine
    <2>3. pc'[t] \in Places
      BY <1>0 DEF TypeOK, Places
    <2>4. pc' \in [Threads -> Places] /\ pointer' \in [Threads -> Node]
      <3>1. pc' \in [Threads -> Places]
        BY <1>0, <1>f, <2>3 DEF TypeOK
      <3>2. pointer' \in [Threads -> Node]
        BY <1>0, MyType DEF TypeOK, HazardTypeOK, Node
      <3> QED BY <3>1, <3>2
    <2> QED BY <1>0, <2>2, <2>4 DEF TypeOK, HazardTypeOK, Mine, Node
  <1>2. NodeInv(t)' /\ PlaceInv(t)'
    BY <1>0, MyType DEF TypeOK, NodeInv, LateOther, PlaceInv, PastTail, InChain, Pushing, PushEnd,
           PopEnd, LateEnd, Blank
  <1>3. \A a \in Addr : (Fresh(t, a)' <=> Fresh(t, a)) /\ ~Pending(t, a)' /\ ~Pending(t, a)
    BY <1>0, MyType DEF TypeOK, Fresh, Pending, Pushing, Blank
  <1>4. /\ pc'[t] \in {"push_validate", "pop_validate"} => pointer'[t] = my'[t].end
        /\ pc'[t] \in {"pop_head", "pop_reread"} => pointer'[t] = my'[t].next
        /\ \A a \in Node : Shields(t, a)' => pointer'[t] = a /\ (Shields(t, a) \/ InChain(a))
    BY <1>0, MyType, ChainFacts DEF TypeOK, HazardTypeOK, ShieldInv, Shields, PushEnd, PopEnd, Blank
  <1>5. \A a \in Node : a \in Unprotected(t)' => Shields(t, a) \/ a \in Unprotected(t) \/ InChain(a)
    BY <1>0, MyType, ChainFacts DEF TypeOK, Shields, Unprotected, LateEnd, LateOther, PushEnd,
           PopEnd, Blank
  <1> QED BY <1>0, <1>1, <1>2, <1>3, <1>4, <1>5, <1>f, LocalStep

LEMMA PopReturnInv ==
  ASSUME Sound, NEW t \in Threads, PopReturn(t)
  PROVE  Sound'
  <1> USE DEF PopReturn, Clear, Forget, From, hazardKept, queueKept, listKept, hazardVars, nodes, history
  <1>0. /\ TypeOK /\ NodeInv(t) /\ PlaceInv(t) /\ HeldInv(t) /\ ShieldInv(t) /\ phase = "open"
    BY ChainFacts DEF Sound, ThreadInv
  <1>f. /\ pc' = [pc EXCEPT ![t] = pc'[t]]
        /\ \A u \in Threads \ {t} : my'[u] = my[u] /\ pointer'[u] = pointer[u]
        /\ UNCHANGED <<head, tail, next, item, phase, chain, retired, scan, live>>
        /\ UNCHANGED <<endFreed, otherFreed, spoilt>>
        /\ pc[t] = "pop_scan" => ~Scanning(t)
    BY <1>0 DEF TypeOK, HazardTypeOK
  <1>1. TypeOK'
    <2>1. my'[t] \in Mine
      BY <1>0, MyType, FieldTypes, BlankType DEF TypeOK, Item
    <2>2. my' \in [Threads -> Mine]
      BY <1>0, <2>1 DEF TypeOK, Mine
    <2>3. pc'[t] \in Places
      BY <1>0 DEF TypeOK, Places
    <2>4. pc' \in [Threads -> Places] /\ pointer' \in [Threads -> Node]
      <3>1. pc' \in [Threads -> Places]
        BY <1>0, <1>f, <2>3 DEF TypeOK
      <3>2. pointer' \in [Threads -> Node]
        BY <1>0, MyType DEF TypeOK, HazardTypeOK, Node
      <3> QED BY <3>1, <3>2
    <2> QED BY <1>0, <2>2, <2>4 DEF TypeOK, HazardTypeOK, Mine, Node
  <1>2. NodeInv(t)' /\ PlaceInv(t)'
    BY <1>0, MyType DEF TypeOK, NodeInv, LateOther, PlaceInv, PastTail, InChain, Pushing, PushEnd,
           PopEnd, LateEnd, Blank
  <1>3. \A a \in Addr : (Fresh(t, a)' <=> Fresh(t, a)) /\ ~Pending(t, a)' /\ ~Pending(t, a)
    BY <1>0, MyType DEF TypeOK, Fresh, Pending, Pushing, Blank
  <1>4. /\ pc'[t] \in {"push_validate", "pop_validate"} => pointer'[t] = my'[t].end
        /\ pc'[t] \in {"pop_head", "pop_reread"} => pointer'[t] = my'[t].next
        /\ \A a \in Node : Shields(t, a)' => pointer'[t] = a /\ (Shields(t, a) \/ InChain(a))
    BY <1>0, MyType, ChainFacts DEF TypeOK, HazardTypeOK, ShieldInv, Shields, PushEnd, PopEnd, Blank
  <1>5. \A a \in Node : a \in Unprotected(t)' => Shields(t, a) \/ a \in Unprotected(t) \/ InChain(a)
    BY <1>0, MyType, ChainFacts DEF TypeOK, Shields, Unprotected, LateEnd, LateOther, PushEnd,
           PopEnd, Blank
  <1> QED BY <1>0, <1>1, <1>2, <1>3, <1>4, <1>5, <1>f, LocalStep

LEMMA CallIsEmptyInv ==
  ASSUME Sound, NEW t \in Threads, CallIsEmpty(t)
  PROVE  Sound'
  <1> USE DEF CallIsEmpty, From, hazardKept, queueKept, listKept, hazardVars, nodes, history
  <1>0. /\ TypeOK /\ NodeInv(t) /\ PlaceInv(t) /\ HeldInv(t) /\ ShieldInv(t) /\ phase = "open"
    BY ChainFacts DEF Sound, ThreadInv
  <1>f. /\ pc' = [pc EXCEPT ![t] = pc'[t]]
        /\ \A u \in Threads \ {t} : my'[u] = my[u] /\ pointer'[u] = pointer[u]
        /\ UNCHANGED <<head, tail, next, item, phase, chain, retired, scan, live>>
        /\ UNCHANGED <<endFreed, otherFreed, spoilt>>
        /\ pc[t] = "pop_scan" => ~Scanning(t)
    BY <1>0 DEF TypeOK, HazardTypeOK
  <1>1. TypeOK'
    <2>1. my'[t] \in Mine
      BY <1>0, MyType, FieldTypes, BlankType DEF TypeOK, Item
    <2>2. my' \in [Threads -> Mine]
      BY <1>0, <2>1 DEF TypeOK, Mine
    <2>3. pc'[t] \in Places
      BY <1>0 DEF TypeOK, Places
    <2>4. pc' \in [Threads -> Places] /\ pointer' \in [Threads -> Node]
      <3>1. pc' \in [Threads -> Places]
        BY <1>0, <1>f, <2>3 DEF TypeOK
      <3>2. pointer' \in [Threads -> Node]
        BY <1>0, MyType DEF TypeOK, HazardTypeOK, Node
      <3> QED BY <3>1, <3>2
    <2> QED BY <1>0, <2>2, <2>4 DEF TypeOK, HazardTypeOK, Mine, Node
  <1>2. NodeInv(t)' /\ PlaceInv(t)'
    BY <1>0, MyType DEF TypeOK, NodeInv, LateOther, PlaceInv, PastTail, InChain, Pushing, PushEnd,
           PopEnd, LateEnd, Blank
  <1>3. \A a \in Addr : (Fresh(t, a)' <=> Fresh(t, a)) /\ ~Pending(t, a)' /\ ~Pending(t, a)
    BY <1>0, MyType DEF TypeOK, Fresh, Pending, Pushing, Blank
  <1>4. /\ pc'[t] \in {"push_validate", "pop_validate"} => pointer'[t] = my'[t].end
        /\ pc'[t] \in {"pop_head", "pop_reread"} => pointer'[t] = my'[t].next
        /\ \A a \in Node : Shields(t, a)' => pointer'[t] = a /\ (Shields(t, a) \/ InChain(a))
    BY <1>0, MyType, ChainFacts DEF TypeOK, HazardTypeOK, ShieldInv, Shields, PushEnd, PopEnd, Blank
  <1>5. \A a \in Node : a \in Unprotected(t)' => Shields(t, a) \/ a \in Unprotected(t) \/ InChain(a)
    BY <1>0, MyType, ChainFacts DEF TypeOK, Shields, Unprotected, LateEnd, LateOther, PushEnd,
           PopEnd, Blank
  <1> QED BY <1>0, <1>1, <1>2, <1>3, <1>4, <1>5, <1>f, LocalStep

LEMMA IsEmptyHeadInv ==
  ASSUME Sound, NEW t \in Threads, IsEmptyHead(t)
  PROVE  Sound'
  <1> USE DEF IsEmptyHead, From, hazardKept, queueKept, listKept, hazardVars, nodes, history
  <1>0. /\ TypeOK /\ NodeInv(t) /\ PlaceInv(t) /\ HeldInv(t) /\ ShieldInv(t) /\ phase = "open"
    BY ChainFacts DEF Sound, ThreadInv
  <1>f. /\ pc' = [pc EXCEPT ![t] = pc'[t]]
        /\ \A u \in Threads \ {t} : my'[u] = my[u] /\ pointer'[u] = pointer[u]
        /\ UNCHANGED <<head, tail, next, item, phase, chain, retired, scan, live>>
        /\ UNCHANGED <<endFreed, otherFreed, spoilt>>
        /\ pc[t] = "pop_scan" => ~Scanning(t)
    BY <1>0 DEF TypeOK, HazardTypeOK
  <1>1. TypeOK'
    <2>1. my'[t] \in Mine
      BY <1>0, MyType, FieldTypes, BlankType DEF TypeOK, Item
    <2>2. my' \in [Threads -> Mine]
      BY <1>0, <2>1 DEF TypeOK, Mine
    <2>3. pc'[t] \in Places
      BY <1>0 DEF TypeOK, Places
    <2>4. pc' \in [Threads -> Places] /\ pointer' \in [Threads -> Node]
      <3>1. pc' \in [Threads -> Places]
        BY <1>0, <1>f, <2>3 DEF TypeOK
      <3>2. pointer' \in [Threads -> Node]
        BY <1>0, MyType DEF TypeOK, HazardTypeOK, Node
      <3> QED BY <3>1, <3>2
    <2> QED BY <1>0, <2>2, <2>4 DEF TypeOK, HazardTypeOK, Mine, Node
  <1>2. NodeInv(t)' /\ PlaceInv(t)'
    BY <1>0, MyType DEF TypeOK, NodeInv, LateOther, PlaceInv, PastTail, InChain, Pushing, PushEnd,
           PopEnd, LateEnd, Blank
  <1>3. \A a \in Addr : (Fresh(t, a)' <=> Fresh(t, a)) /\ ~Pending(t, a)' /\ ~Pending(t, a)
    BY <1>0, MyType DEF TypeOK, Fresh, Pending, Pushing, Blank
  <1>4. /\ pc'[t] \in {"push_validate", "pop_validate"} => pointer'[t] = my'[t].end
        /\ pc'[t] \in {"pop_head", "pop_reread"} => pointer'[t] = my'[t].next
        /\ \A a \in Node : Shields(t, a)' => pointer'[t] = a /\ (Shields(t, a) \/ InChain(a))
    BY <1>0, MyType, ChainFacts DEF TypeOK, HazardTypeOK, ShieldInv, Shields, PushEnd, PopEnd, Blank
  <1>5. \A a \in Node : a \in Unprotected(t)' => Shields(t, a) \/ a \in Unprotected(t) \/ InChain(a)
    BY <1>0, MyType, ChainFacts DEF TypeOK, Shields, Unprotected, LateEnd, LateOther, PushEnd,
           PopEnd, Blank
  <1> QED BY <1>0, <1>1, <1>2, <1>3, <1>4, <1>5, <1>f, LocalStep

LEMMA IsEmptyNextInv ==
  ASSUME Sound, NEW t \in Threads, IsEmptyNext(t), ~spoilt'
  PROVE  Sound'
  <1> USE DEF IsEmptyNext, UsesOther, Forget, From, hazardKept, queueKept, listKept, hazardVars, nodes, history
  <1>0. /\ TypeOK /\ NodeInv(t) /\ PlaceInv(t) /\ HeldInv(t) /\ ShieldInv(t) /\ phase = "open"
    BY ChainFacts DEF Sound, ThreadInv
  <1>f. /\ pc' = [pc EXCEPT ![t] = pc'[t]]
        /\ \A u \in Threads \ {t} : my'[u] = my[u] /\ pointer'[u] = pointer[u]
        /\ UNCHANGED <<head, tail, next, item, phase, chain, retired, scan, live>>
        /\ \A u \in Threads \ {t} : /\ u \in endFreed' <=> u \in endFreed
                                    /\ u \in otherFreed' <=> u \in otherFreed
        /\ t \notin otherFreed /\ t \notin otherFreed'
        /\ pc[t] = "pop_scan" => ~Scanning(t)
    BY <1>0 DEF TypeOK, HazardTypeOK
  <1>1. TypeOK'
    <2>0. my'[t] = Blank
      BY <1>0 DEF TypeOK
    <2>1. my'[t] \in Mine
      BY <2>0, BlankType
    <2>2. my' \in [Threads -> Mine]
      BY <1>0, <2>1 DEF TypeOK, Mine
    <2>3. pc'[t] \in Places
      BY <1>0 DEF TypeOK, Places
    <2>4. pc' \in [Threads -> Places] /\ pointer' \in [Threads -> Node]
      <3>1. pc' \in [Threads -> Places]
        BY <1>0, <1>f, <2>3 DEF TypeOK
      <3>2. pointer' \in [Threads -> Node]
        BY <1>0, MyType DEF TypeOK, HazardTypeOK, Node
      <3> QED BY <3>1, <3>2
    <2> QED BY <1>0, <2>2, <2>4 DEF TypeOK, HazardTypeOK, Mine, Node
  <1>2. NodeInv(t)' /\ PlaceInv(t)'
    BY <1>0, MyType DEF TypeOK, NodeInv, LateOther, PlaceInv, PastTail, InChain, Pushing, PushEnd,
           PopEnd, LateEnd, Blank
  <1>3. \A a \in Addr : (Fresh(t, a)' <=> Fresh(t, a)) /\ ~Pending(t, a)' /\ ~Pending(t, a)
    BY <1>0, MyType DEF TypeOK, Fresh, Pending, Pushing, Blank
  <1>4. /\ pc'[t] \in {"push_validate", "pop_validate"} => pointer'[t] = my'[t].end
        /\ pc'[t] \in {"pop_head", "pop_reread"} => pointer'[t] = my'[t].next
        /\ \A a \in Node : Shields(t, a)' => pointer'[t] = a /\ (Shields(t, a) \/ InChain(a))
    BY <1>0, MyType, ChainFacts DEF TypeOK, HazardTypeOK, ShieldInv, Shields, PushEnd, PopEnd, Blank
  <1>5. \A a \in Node : a \in Unprotected(t)' => Shields(t, a) \/ a \in Unprotected(t) \/ InChain(a)
    BY <1>0, MyType, ChainFacts DEF TypeOK, Shields, Unprotected, LateEnd, LateOther, PushEnd,
           PopEnd, Blank
  <1> QED BY <1>0, <1>1, <1>2, <1>3, <1>4, <1>5, <1>f, LocalStep

LEMMA IsEmptyReturnInv ==
  ASSUME Sound, NEW t \in Threads, IsEmptyReturn(t)
  PROVE  Sound'
  <1> USE DEF IsEmptyReturn, From, hazardKept, queueKept, listKept, hazardVars, nodes, history
  <1>0. /\ TypeOK /\ NodeInv(t) /\ PlaceInv(t) /\ HeldInv(t) /\ ShieldInv(t) /\ phase = "open"
    BY ChainFacts DEF Sound, ThreadInv
  <1>f. /\ pc' = [pc EXCEPT ![t] = pc'[t]]
        /\ \A u \in Threads \ {t} : my'[u] = my[u] /\ pointer'[u] = pointer[u]
        /\ UNCHANGED <<head, tail, next, item, phase, chain, retired, scan, live>>
        /\ UNCHANGED <<endFreed, otherFreed, spoilt>>
        /\ pc[t] = "pop_scan" => ~Scanning(t)
    BY <1>0 DEF TypeOK, HazardTypeOK
  <1>1. TypeOK'
    <2>1. my'[t] \in Mine
      BY <1>0, MyType, FieldTypes, BlankType DEF TypeOK, Item
    <2>2. my' \in [Threads -> Mine]
      BY <1>0, <2>1 DEF TypeOK, Mine
    <2>3. pc'[t] \in Places
      BY <1>0 DEF TypeOK, Places
    <2>4. pc' \in [Threads -> Places] /\ pointer' \in [Threads -> Node]
      <3>1. pc' \in [Threads -> Places]
        BY <1>0, <1>f, <2>3 DEF TypeOK
      <3>2. pointer' \in [Threads -> Node]
        BY <1>0, MyType DEF TypeOK, HazardTypeOK, Node
      <3> QED BY <3>1, <3>2
    <2> QED BY <1>0, <2>2, <2>4 DEF TypeOK, HazardTypeOK, Mine, Node
  <1>2. NodeInv(t)' /\ PlaceInv(t)'
    BY <1>0, MyType DEF TypeOK, NodeInv, LateOther, PlaceInv, PastTail, InChain, Pushing, PushEnd,
           PopEnd, LateEnd, Blank
  <1>3. \A a \in Addr : (Fresh(t, a)' <=> Fresh(t, a)) /\ ~Pending(t, a)' /\ ~Pending(t, a)
    BY <1>0, MyType DEF TypeOK, Fresh, Pending, Pushing, Blank
  <1>4. /\ pc'[t] \in {"push_validate", "pop_validate"} => pointer'[t] = my'[t].end
        /\ pc'[t] \in {"pop_head", "pop_reread"} => pointer'[t] = my'[t].next
        /\ \A a \in Node : Shields(t, a)' => pointer'[t] = a /\ (Shields(t, a) \/ InChain(a))
    BY <1>0, MyType, ChainFacts DEF TypeOK, HazardTypeOK, ShieldInv, Shields, PushEnd, PopEnd, Blank
  <1>5. \A a \in Node : a \in Unprotected(t)' => Shields(t, a) \/ a \in Unprotected(t) \/ InChain(a)
    BY <1>0, MyType, ChainFacts DEF TypeOK, Shields, Unprotected, LateEnd, LateOther, PushEnd,
           PopEnd, Blank
  <1> QED BY <1>0, <1>1, <1>2, <1>3, <1>4, <1>5, <1>f, LocalStep

-----------------------------------------------------------------------------
(* Steps that change what is shared: what the other threads know stays so. *)

LEMMA NodeStable ==
  ASSUME Sound, NEW u \in Threads, pc'[u] = pc[u], my'[u] = my[u],
         u \in endFreed' <=> u \in endFreed, u \in otherFreed' <=> u \in otherFreed,
         \A b \in live : item'[b] = item[b],
         \A b \in live : next'[b] = next[b] \/ (next[b] = NULL /\ ~Fresh(u, b))
  PROVE  NodeInv(u)'
  <1>1. TypeOK /\ NodeInv(u) /\ HeldInv(u)
    BY DEF Sound, ThreadInv
  <1>2. pc[u] \in Pushing => Fresh(u, my[u].node) /\ my[u].node \in live
    BY <1>1 DEF Sound, OwnerInv, Owns, Fresh, NodeInv, LateEnd, LateOther
  <1>3. pc[u] \in PushEnd \cup PopEnd \cup LateEnd /\ u \notin endFreed => my[u].end \in live
    BY <1>1, MyType DEF HeldInv, Shields, Unprotected, LateOther, LateEnd
  <1>4. pc[u] = "pop_swing" => my[u].next \in live
    BY <1>1, MyType DEF HeldInv, Shields
  <1>5. pc[u] \in Pushing => item'[my[u].node] = item[my[u].node] /\ next'[my[u].node] = next[my[u].node]
    BY <1>2
  <1>6. pc[u] \in PushEnd \cup PopEnd \cup LateEnd /\ u \notin endFreed /\ next[my[u].end] # NULL =>
          next'[my[u].end] = next[my[u].end]
    BY <1>3
  <1>7. pc[u] = "pop_swing" => item'[my[u].next] = item[my[u].next]
    BY <1>4
  <1> QED BY <1>1, <1>5, <1>6, <1>7 DEF NodeInv, LateOther, PushEnd, PopEnd, LateEnd

LEMMA HeldStable ==
  ASSUME Sound, NEW u \in Threads, pc'[u] = pc[u], my'[u] = my[u],
         u \in endFreed' <=> u \in endFreed, u \in otherFreed' <=> u \in otherFreed,
         \A b \in live : next'[b] = next[b]
  PROVE  \A a \in Node : /\ Shields(u, a)' <=> Shields(u, a)
                         /\ a \in Unprotected(u)' <=> a \in Unprotected(u)
  <1>1. pc[u] = "pop_reread" /\ u \notin otherFreed => my[u].other \in live
    BY MyType DEF Sound, ThreadInv, HeldInv, Unprotected, LateOther
  <1>2. pc[u] = "pop_reread" /\ u \notin otherFreed => next'[my[u].other] = next[my[u].other]
    BY <1>1
  <1> QED BY <1>2 DEF Shields, Unprotected, LateEnd, LateOther

LEMMA IdleThread ==
  ASSUME NEW t \in Threads, pc'[t] = "idle", t \notin endFreed', t \notin otherFreed'
  PROVE  ThreadInv(t)'
  <1>1. NodeInv(t)' /\ PlaceInv(t)'
    BY DEF NodeInv, LateOther, PlaceInv, PastTail, Pushing, LateEnd, PopEnd
  <1>2. HeldInv(t)' /\ ShieldInv(t)'
    BY DEF HeldInv, ShieldInv, Shields, Unprotected, LateEnd, LateOther, PushEnd, PopEnd
  <1> QED BY <1>1, <1>2 DEF ThreadInv

(* A new node is nobody else's: whatever the others hold is live.          *)
LEMMA CallPushInv ==
  ASSUME Sound, NEW t \in Threads, NEW v \in Values, CallPush(t, v)
  PROVE  Sound'
  <1>0. PICK a \in Addr \ live :
          /\ live' = live \cup {a}
          /\ next' = [next EXCEPT ![a] = NULL]
          /\ item' = [item EXCEPT ![a] = v]
          /\ my' = [my EXCEPT ![t].node = a, ![t].item = v]
    BY DEF CallPush
  <1>a. /\ pc[t] = "idle" /\ pc' = [pc EXCEPT ![t] = "push_load"] /\ phase = "open"
        /\ UNCHANGED <<pointer, retired, scan, head, tail, phase, chain>>
        /\ UNCHANGED <<endFreed, otherFreed, spoilt>>
    BY DEF CallPush, From, history
  <1>b. /\ pc'[t] = "push_load" /\ my'[t].node = a /\ my'[t].item = v
        /\ \A u \in Threads \ {t} : pc'[u] = pc[u] /\ my'[u] = my[u]
    BY <1>0, <1>a, MyType DEF Sound, TypeOK, Mine
  <1>c. \A b \in live : next'[b] = next[b] /\ item'[b] = item[b]
    BY <1>0 DEF Sound, TypeOK, HazardTypeOK
  <1>d. next'[a] = NULL /\ item'[a] = v
    BY <1>0 DEF Sound, TypeOK
  <1>e. \A b : InChain(b)' <=> InChain(b)
    BY <1>a DEF InChain
  <1>f. \A u \in Threads, b \in Addr : /\ Fresh(u, b)' <=> Fresh(u, b) \/ (u = t /\ b = a)
                                       /\ Pending(u, b)' <=> Pending(u, b)
                                       /\ On(u, b)' <=> On(u, b)
    <2>1. \A u \in Threads, b \in Addr : On(u, b)' <=> On(u, b)
      BY <1>a DEF On
    <2>2. \A u \in Threads, b \in Addr : /\ Fresh(u, b)' <=> Fresh(u, b) \/ (u = t /\ b = a)
                                         /\ Pending(u, b)' <=> Pending(u, b)
      BY <1>a, <1>b DEF Fresh, Pending, Pushing
    <2> QED BY <2>1, <2>2
  <1>g. ~InChain(a) /\ \A u \in Threads : ~Fresh(u, a) /\ ~Pending(u, a) /\ ~On(u, a)
    BY <1>0 DEF Sound, OwnerInv, Owns
  <1>1. TypeOK'
    <2>1. my'[t] = [my[t] EXCEPT !.node = a, !.item = v] /\ my[t] \in Mine
      BY <1>0, MyType DEF Sound, TypeOK
    <2>2. my'[t] \in Mine
      BY <2>1 DEF Mine, Node, Item
    <2>3. my' \in [Threads -> Mine]
      BY <1>b, <1>0, <2>2 DEF Sound, TypeOK, Mine
    <2>4. pc' \in [Threads -> Places]
      BY <1>a DEF Sound, TypeOK, Places
    <2>5. live' \in SUBSET Addr /\ next' \in [Addr -> Node] /\ item' \in [Addr -> Item]
      BY <1>0 DEF Sound, TypeOK, HazardTypeOK, Node, Item
    <2> QED BY <1>a, <2>3, <2>4, <2>5 DEF Sound, TypeOK, HazardTypeOK, Mine
  <1>2. OwnerInv'
    <2>1. ASSUME NEW b \in Addr
          PROVE  b \in live' <=> InChain(b)' \/ \E u \in Threads : Owns(u, b)'
      BY <1>0, <1>e, <1>f DEF Sound, OwnerInv, Owns
    <2>2. ASSUME NEW u \in Threads, NEW b \in Addr
          PROVE  /\ Owns(u, b)' => ~InChain(b)' /\ \A w \in Threads \ {u} : ~Owns(w, b)'
                 /\ Fresh(u, b)' => ~Pending(u, b)' /\ ~On(u, b)'
                 /\ Pending(u, b)' => ~On(u, b)'
                 /\ Pending(u, b)' \/ On(u, b)' => next'[b] # NULL
      <3>1. CASE b = a
        BY <3>1, <1>e, <1>f, <1>g DEF Owns
      <3>2. CASE b # a
        <4>1. Owns(u, b) => b \in live
          BY DEF Sound, OwnerInv
        <4>2. \A w \in Threads : Owns(w, b)' <=> Owns(w, b)
          BY <3>2, <1>f DEF Owns
        <4>3. Pending(u, b) \/ On(u, b) => next'[b] # NULL
          BY <4>1, <1>c DEF Sound, OwnerInv, Owns
        <4> QED BY <3>2, <4>2, <4>3, <1>e, <1>f DEF Sound, OwnerInv
      <3> QED BY <3>1, <3>2
    <2>3. \A u \in Threads : \A i, j \in 1..Len(retired'[u]) : retired'[u][i] = retired'[u][j] => i = j
      BY <1>a DEF Sound, OwnerInv
    <2> QED BY <2>1, <2>2, <2>3 DEF OwnerInv
  <1>3. ListInv'
    <2>1. \A i \in 1..Len(chain) : next'[chain[i]] = next[chain[i]]
      BY <1>c, ChainFacts
    <2> QED BY <2>1, <1>a DEF Sound, ListInv
  <1>4. PhaseInv' /\ ScanInv'
    BY <1>a, <1>b DEF Sound, PhaseInv, ScanInv, Scanning, NoScan
  <1>5. ASSUME NEW u \in Threads PROVE ThreadInv(u)'
    <2>1. CASE u = t
      <3>0. t \notin endFreed' /\ t \notin otherFreed'
        BY <1>a, Unfreed DEF LateEnd, LateOther
      <3>1. NodeInv(u)'
        BY <2>1, <3>0, <1>b, <1>d DEF NodeInv, LateOther, Pushing, LateEnd
      <3>2. PlaceInv(u)'
        BY <2>1, <1>b DEF PlaceInv, PastTail, PopEnd, LateEnd
      <3>3. HeldInv(u)' /\ ShieldInv(u)'
        BY <2>1, <1>b DEF HeldInv, ShieldInv, Shields, Unprotected, LateEnd, LateOther, PushEnd, PopEnd
      <3> QED BY <3>1, <3>2, <3>3 DEF ThreadInv
    <2>2. CASE u # t
      <3>0. /\ pc'[u] = pc[u] /\ my'[u] = my[u] /\ ThreadInv(u)
            /\ u \in endFreed' <=> u \in endFreed
            /\ u \in otherFreed' <=> u \in otherFreed
        BY <2>2, <1>a, <1>b DEF Sound
      <3>1. NodeInv(u)'
        BY <3>0, <1>c, NodeStable
      <3>2. \A b \in Node : /\ Shields(u, b)' <=> Shields(u, b)
                            /\ b \in Unprotected(u)' <=> b \in Unprotected(u)
        BY <3>0, <1>c, HeldStable
      <3>3. HeldInv(u)'
        BY <3>0, <3>2, <1>0, <1>f DEF ThreadInv, HeldInv, Sound, TypeOK, HazardTypeOK
      <3>4. ShieldInv(u)'
        BY <3>0, <3>2, <1>a DEF ThreadInv, ShieldInv, Scanning, Suspect
      <3>5. PlaceInv(u)'
        <4>1. pc[u] = "push_link" => my[u].end \in live
          BY <3>0, MyType DEF ThreadInv, HeldInv, Shields, PushEnd, Sound
        <4> QED BY <3>0, <4>1, <1>a, <1>c, <1>e DEF ThreadInv, PlaceInv, PastTail, InChain
      <3> QED BY <3>1, <3>3, <3>4, <3>5 DEF ThreadInv
    <2> QED BY <2>1, <2>2
  <1> QED BY <1>1, <1>2, <1>3, <1>4, <1>5 DEF Sound

(* The exchanges of queue->tail move it to the next node or not at all. *)
LEMMA PushHelpInv ==
  ASSUME Sound, NEW t \in Threads, PushHelp(t)
  PROVE  Sound'
  <1> USE DEF PushHelp, From, hazardKept, hazardVars, nodes, history
  <1>0. /\ TypeOK /\ NodeInv(t) /\ PlaceInv(t) /\ HeldInv(t) /\ ShieldInv(t) /\ phase = "open"
    BY ChainFacts DEF Sound, ThreadInv
  <1>a. /\ my[t].next # NULL /\ next[my[t].end] = my[t].next
        /\ tail' = IF tail = my[t].end THEN my[t].next ELSE tail
    BY <1>0 DEF NodeInv, LateEnd, LateOther, SwingTail
  <1>b. tail' = tail \/ (next[tail] # NULL /\ tail' = next[tail])
    BY <1>a
  <1>f. /\ pc' = [pc EXCEPT ![t] = pc'[t]]
        /\ \A u \in Threads \ {t} : my'[u] = my[u] /\ pointer'[u] = pointer[u]
        /\ UNCHANGED <<head, next, item, phase, chain, retired, scan, live>>
        /\ UNCHANGED <<endFreed, otherFreed, spoilt>>
        /\ pc[t] = "pop_scan" => ~Scanning(t)
    BY <1>0 DEF TypeOK, HazardTypeOK
  <1>1. TypeOK'
    <2>1. my' \in [Threads -> Mine]
      BY <1>0, BlankType DEF TypeOK, Mine
    <2>2. pc' \in [Threads -> Places]
      BY <1>0 DEF TypeOK, Places
    <2>3. tail' \in Node
      BY <1>0, <1>a, MyType DEF TypeOK
    <2> QED BY <1>0, <1>f, <2>1, <2>2, <2>3 DEF TypeOK, HazardTypeOK, Mine
  <1>2. NodeInv(t)' /\ PlaceInv(t)'
    BY <1>0, MyType DEF TypeOK, NodeInv, LateOther, PlaceInv, PastTail, InChain, Pushing, PushEnd,
           PopEnd, LateEnd, Blank
  <1>3. \A a \in Addr : (Fresh(t, a)' <=> Fresh(t, a)) /\ ~Pending(t, a)' /\ ~Pending(t, a)
    BY <1>0, MyType DEF TypeOK, Fresh, Pending, Pushing, Blank
  <1>4. /\ pc'[t] \in {"push_validate", "pop_validate"} => pointer'[t] = my'[t].end
        /\ pc'[t] \in {"pop_head", "pop_reread"} => pointer'[t] = my'[t].next
        /\ \A a \in Node : Shields(t, a)' => pointer'[t] = a /\ (Shields(t, a) \/ InChain(a))
    BY <1>0 DEF TypeOK, HazardTypeOK, Shields, PushEnd, PopEnd
  <1>5. \A a \in Node : a \in Unprotected(t)' => Shields(t, a) \/ a \in Unprotected(t) \/ InChain(a)
    BY <1>0 DEF TypeOK, Unprotected, LateEnd, LateOther
  <1> QED BY <1>0, <1>b, <1>1, <1>2, <1>3, <1>4, <1>5, <1>f, LocalStep

LEMMA PopHelpInv ==
  ASSUME Sound, NEW t \in Threads, PopHelp(t)
  PROVE  Sound'
  <1> USE DEF PopHelp, Forget, From, hazardKept, hazardVars, nodes, history
  <1>0. /\ TypeOK /\ NodeInv(t) /\ PlaceInv(t) /\ HeldInv(t) /\ ShieldInv(t) /\ phase = "open"
    BY ChainFacts DEF Sound, ThreadInv
  <1>a. /\ my[t].next # NULL /\ next[my[t].end] = my[t].next
        /\ tail' = IF tail = my[t].end THEN my[t].next ELSE tail
    BY <1>0 DEF NodeInv, LateEnd, LateOther, SwingTail
  <1>b. tail' = tail \/ (next[tail] # NULL /\ tail' = next[tail])
    BY <1>a
  <1>f. /\ pc' = [pc EXCEPT ![t] = pc'[t]]
        /\ \A u \in Threads \ {t} : my'[u] = my[u] /\ pointer'[u] = pointer[u]
        /\ UNCHANGED <<head, next, item, phase, chain, retired, scan, live>>
        /\ UNCHANGED <<endFreed, otherFreed, spoilt>>
        /\ pc[t] = "pop_scan" => ~Scanning(t)
    BY <1>0 DEF TypeOK, HazardTypeOK
  <1>1. TypeOK'
    <2>1. my' \in [Threads -> Mine]
      BY <1>0, BlankType DEF TypeOK, Mine
    <2>2. pc' \in [Threads -> Places]
      BY <1>0 DEF TypeOK, Places
    <2>3. tail' \in Node
      BY <1>0, <1>a, MyType DEF TypeOK
    <2> QED BY <1>0, <1>f, <2>1, <2>2, <2>3 DEF TypeOK, HazardTypeOK, Mine
  <1>2. NodeInv(t)' /\ PlaceInv(t)'
    BY <1>0, MyType DEF TypeOK, NodeInv, LateOther, PlaceInv, PastTail, InChain, Pushing, PushEnd,
           PopEnd, LateEnd, Blank
  <1>3. \A a \in Addr : (Fresh(t, a)' <=> Fresh(t, a)) /\ ~Pending(t, a)' /\ ~Pending(t, a)
    BY <1>0, MyType DEF TypeOK, Fresh, Pending, Pushing, Blank
  <1>4. /\ pc'[t] \in {"push_validate", "pop_validate"} => pointer'[t] = my'[t].end
        /\ pc'[t] \in {"pop_head", "pop_reread"} => pointer'[t] = my'[t].next
        /\ \A a \in Node : Shields(t, a)' => pointer'[t] = a /\ (Shields(t, a) \/ InChain(a))
    BY <1>0 DEF TypeOK, HazardTypeOK, Shields, PushEnd, PopEnd
  <1>5. \A a \in Node : a \in Unprotected(t)' => Shields(t, a) \/ a \in Unprotected(t) \/ InChain(a)
    BY <1>0 DEF TypeOK, Unprotected, LateEnd, LateOther
  <1> QED BY <1>0, <1>b, <1>1, <1>2, <1>3, <1>4, <1>5, <1>f, LocalStep

LEMMA PushSwingInv ==
  ASSUME Sound, NEW t \in Threads, PushSwing(t)
  PROVE  Sound'
  <1> USE DEF PushSwing, Forget, From, hazardKept, hazardVars, nodes, history
  <1>0. /\ TypeOK /\ NodeInv(t) /\ PlaceInv(t) /\ HeldInv(t) /\ ShieldInv(t) /\ phase = "open"
    BY ChainFacts DEF Sound, ThreadInv
  <1>a. /\ my[t].node # NULL /\ next[my[t].end] = my[t].node
        /\ tail' = IF tail = my[t].end THEN my[t].node ELSE tail
    BY <1>0 DEF NodeInv, LateEnd, LateOther, SwingTail
  <1>b. tail' = tail \/ (next[tail] # NULL /\ tail' = next[tail])
    BY <1>a
  <1>f. /\ pc' = [pc EXCEPT ![t] = pc'[t]]
        /\ \A u \in Threads \ {t} : my'[u] = my[u] /\ pointer'[u] = pointer[u]
        /\ UNCHANGED <<head, next, item, phase, chain, retired, scan, live>>
        /\ UNCHANGED <<endFreed, otherFreed, spoilt>>
        /\ pc[t] = "pop_scan" => ~Scanning(t)
    BY <1>0 DEF TypeOK, HazardTypeOK
  <1>1. TypeOK'
    <2>1. my' \in [Threads -> Mine]
      BY <1>0, BlankType DEF TypeOK, Mine
    <2>2. pc' \in [Threads -> Places]
      BY <1>0 DEF TypeOK, Places
    <2>3. tail' \in Node
      BY <1>0, <1>a, MyType DEF TypeOK
    <2> QED BY <1>0, <1>f, <2>1, <2>2, <2>3 DEF TypeOK, HazardTypeOK, Mine
  <1>2. NodeInv(t)' /\ PlaceInv(t)'
    BY <1>0, MyType DEF TypeOK, NodeInv, LateOther, PlaceInv, PastTail, InChain, Pushing, PushEnd,
           PopEnd, LateEnd, Blank
  <1>3. \A a \in Addr : (Fresh(t, a)' <=> Fresh(t, a)) /\ ~Pending(t, a)' /\ ~Pending(t, a)
    BY <1>0, MyType DEF TypeOK, Fresh, Pending, Pushing, Blank
  <1>4. /\ pc'[t] \in {"push_validate", "pop_validate"} => pointer'[t] = my'[t].end
        /\ pc'[t] \in {"pop_head", "pop_reread"} => pointer'[t] = my'[t].next
        /\ \A a \in Node : Shields(t, a)' => pointer'[t] = a /\ (Shields(t, a) \/ InChain(a))
    BY <1>0 DEF TypeOK, HazardTypeOK, Shields, PushEnd, PopEnd
  <1>5. \A a \in Node : a \in Unprotected(t)' => Shields(t, a) \/ a \in Unprotected(t) \/ InChain(a)
    BY <1>0 DEF TypeOK, Unprotected, LateEnd, LateOther
  <1> QED BY <1>0, <1>b, <1>1, <1>2, <1>3, <1>4, <1>5, <1>f, LocalStep

(* The exchange of tail->next: the tail has not moved since it was found    *)
(* last, so the new node follows it.                                        *)
LEMMA PushLinkInv ==
  ASSUME Sound, NEW t \in Threads, PushLink(t), next[my[t].end] = NULL
  PROVE  Sound'
  <1> DEFINE e == my[t].end
             m == my[t].node
             n == Len(chain)
  <1>0. /\ TypeOK /\ NodeInv(t) /\ PlaceInv(t) /\ HeldInv(t) /\ ShieldInv(t) /\ phase = "open"
        /\ pc[t] = "push_link"
    BY ChainFacts DEF Sound, ThreadInv, PushLink, From
  <1>a. /\ pc' = [pc EXCEPT ![t] = "push_swing"]
        /\ next' = [next EXCEPT ![e] = m] /\ chain' = Append(chain, m)
        /\ UNCHANGED <<pointer, retired, scan, live, head, tail, item, my, phase>>
        /\ UNCHANGED <<endFreed, otherFreed, spoilt>>
    BY DEF PushLink, From, hazardKept, hazardVars, history
  <1>b. /\ e \in Addr /\ e \in live /\ \A u \in Threads : ~Fresh(u, e)
        /\ InChain(e) /\ e = chain[n] /\ tail = e
    <2>1. e \in live /\ \A u \in Threads : ~Fresh(u, e)
      BY <1>0, MyType DEF HeldInv, Shields, PushEnd
    <2>2. e \in Addr
      BY <2>1, <1>0 DEF TypeOK, HazardTypeOK
    <2> QED BY <2>1, <2>2, <1>0, LastOfChain DEF PlaceInv
  <1>c. /\ m \in Addr /\ m # NULL /\ Fresh(t, m) /\ Owns(t, m) /\ m \in live /\ ~InChain(m) /\ next[m] = NULL /\ m # e
    <2>1. m \in Addr /\ next[m] = NULL /\ Fresh(t, m)
      BY <1>0 DEF NodeInv, LateEnd, LateOther, Fresh, Pushing
    <2> QED BY <2>1, <1>b DEF Owns, Sound, OwnerInv
  <1>d. /\ chain \in Seq(Addr) /\ n \in Nat /\ n > 0
        /\ \A i \in 1..n : chain[i] \in Addr
        /\ head = chain[1] /\ chain # <<>>
    BY <1>0, ChainFacts
  <1>e. /\ chain' \in Seq(Addr) /\ chain' # <<>> /\ Len(chain') = n + 1
        /\ \A i \in 1..n : chain'[i] = chain[i]
        /\ chain'[n + 1] = m
    BY <1>a, <1>c, <1>d, AppendPositions
  <1>f. \A b : InChain(b)' <=> InChain(b) \/ b = m
    <2> SUFFICES ASSUME NEW b PROVE InChain(b)' <=> InChain(b) \/ b = m
      OBVIOUS
    <2>1. \A i \in 1..(n + 1) : i = n + 1 \/ i \in 1..n
      BY <1>d
    <2>2. n + 1 \in 1..(n + 1) /\ \A i \in 1..n : i \in 1..(n + 1)
      BY <1>d
    <2> HIDE DEF n
    <2>3. InChain(b)' <=> \E i \in 1..(n + 1) : chain'[i] = b
      BY <1>e DEF InChain
    <2>4. InChain(b) <=> \E i \in 1..n : chain[i] = b
      BY DEF InChain, n
    <2> QED BY <1>e, <2>1, <2>2, <2>3, <2>4
  <1>g. /\ pc'[t] = "push_swing" /\ my'[t] = my[t]
        /\ \A u \in Threads \ {t} : pc'[u] = pc[u]
        /\ next'[e] = m /\ \A b \in Addr \ {e} : next'[b] = next[b]
    BY <1>a, <1>0, <1>b DEF TypeOK
  <1> HIDE DEF e, m, n
  <1>h. \A u \in Threads, b \in Addr : /\ Fresh(u, b)' <=> Fresh(u, b) /\ u # t
                                       /\ Pending(u, b)' <=> Pending(u, b)
                                       /\ On(u, b)' <=> On(u, b)
    <2>1. \A u \in Threads, b \in Addr : On(u, b)' <=> On(u, b)
      BY <1>a DEF On
    <2>2. \A u \in Threads, b \in Addr : /\ Fresh(u, b)' <=> Fresh(u, b) /\ u # t
                                         /\ Pending(u, b)' <=> Pending(u, b)
      BY <1>a, <1>0, <1>g DEF Fresh, Pending, Pushing
    <2> QED BY <2>1, <2>2
  <1>i. \A b \in Addr : Fresh(t, b) => b = m
    BY DEF Fresh, m
  <1>1. TypeOK'
    <2>1. next' \in [Addr -> Node] /\ pc' \in [Threads -> Places]
      BY <1>0, <1>a, <1>c DEF TypeOK, Node, Places
    <2> QED BY <2>1, <1>0, <1>a, <1>e DEF TypeOK, HazardTypeOK
  <1>2. OwnerInv'
    <2>0. \A u \in Threads, b \in Addr : Owns(u, b)' <=> Owns(u, b) /\ ~(u = t /\ b = m)
      <3>1. ~Pending(t, m) /\ ~On(t, m)
        BY <1>c DEF Sound, OwnerInv
      <3> QED BY <3>1, <1>c, <1>h, <1>i DEF Owns
    <2>1. ASSUME NEW b \in Addr
          PROVE  b \in live' <=> InChain(b)' \/ \E u \in Threads : Owns(u, b)'
      <3>1. b \in live <=> InChain(b) \/ \E u \in Threads : Owns(u, b)
        BY DEF Sound, OwnerInv
      <3> QED BY <3>1, <2>0, <1>a, <1>c, <1>f
    <2>2. ASSUME NEW u \in Threads, NEW b \in Addr
          PROVE  /\ Owns(u, b)' => ~InChain(b)' /\ \A w \in Threads \ {u} : ~Owns(w, b)'
                 /\ Fresh(u, b)' => ~Pending(u, b)' /\ ~On(u, b)'
                 /\ Pending(u, b)' => ~On(u, b)'
                 /\ Pending(u, b)' \/ On(u, b)' => next'[b] # NULL
      <3>1. /\ Owns(u, b) => ~InChain(b) /\ \A w \in Threads \ {u} : ~Owns(w, b)
            /\ Fresh(u, b) => ~Pending(u, b) /\ ~On(u, b)
            /\ Pending(u, b) => ~On(u, b)
            /\ Pending(u, b) \/ On(u, b) => next[b] # NULL
        BY DEF Sound, OwnerInv
      <3>2. u # t => ~Owns(u, m)
        BY <1>c DEF Sound, OwnerInv
      <3>3. Owns(u, b)' => b # m
        BY <3>2, <2>0
      <3>4. next[b] # NULL => next'[b] # NULL
        BY <1>c, <1>g
      <3> QED BY <3>1, <3>3, <3>4, <2>0, <1>f, <1>h
    <2>3. \A u \in Threads : \A i, j \in 1..Len(retired'[u]) : retired'[u][i] = retired'[u][j] => i = j
      BY <1>a DEF Sound, OwnerInv
    <2> QED BY <2>1, <2>2, <2>3 DEF OwnerInv
  <1>3. ListInv'
    <2>0. /\ \A i \in 1..n : next[chain[i]] = IF i = n THEN NULL ELSE chain[i + 1]
          /\ \A i, j \in 1..n : chain[i] = chain[j] => i = j
      BY DEF Sound, ListInv, n
    <2>a. n \in 1..n /\ 1 \in 1..n /\ n + 1 \in 1..(n + 1) /\ n >= (n + 1) - 1
      BY <1>d
    <2>b. \A i \in 1..n : chain[i] # m
      BY <1>c DEF InChain, n
    <2>1. head' = IF chain' = <<>> THEN NULL ELSE chain'[1]
      BY <1>a, <1>d, <1>e, <2>a
    <2>2. ASSUME NEW i \in 1..(n + 1)
          PROVE  next'[chain'[i]] = IF i = n + 1 THEN NULL ELSE chain'[i + 1]
      <3>1. CASE i = n + 1
        BY <3>1, <1>c, <1>e, <1>g
      <3>2. CASE i = n
        BY <3>2, <1>b, <1>d, <1>e, <1>g, <2>a
      <3>3. CASE i # n + 1 /\ i # n
        <4>1. i \in 1..n /\ i + 1 \in 1..n
          BY <3>3, <1>d
        <4>2. chain[i] # e
          BY <4>1, <3>3, <1>b, <2>0, <2>a
        <4>3. chain'[i] = chain[i] /\ chain'[i + 1] = chain[i + 1] /\ chain[i] \in Addr
          BY <4>1, <1>d, <1>e
        <4>4. next'[chain[i]] = next[chain[i]]
          BY <4>2, <4>3, <1>g
        <4>5. next[chain[i]] = chain[i + 1]
          BY <4>1, <3>3, <2>0
        <4> QED BY <4>3, <4>4, <4>5, <3>3
      <3> QED BY <3>1, <3>2, <3>3
    <2>3. ASSUME NEW i \in 1..(n + 1), NEW j \in 1..(n + 1), chain'[i] = chain'[j]
          PROVE  i = j
      <3>1. (i = n + 1 \/ i \in 1..n) /\ (j = n + 1 \/ j \in 1..n)
        BY <1>d
      <3> QED BY <3>1, <2>3, <2>0, <2>b, <1>e
    <2>4. \E i \in 1..(n + 1) : i >= (n + 1) - 1 /\ tail' = chain'[i]
      <3>1. n \in 1..(n + 1) /\ tail' = chain'[n]
        BY <1>a, <1>b, <1>d, <1>e, <2>a
      <3> QED BY <3>1, <2>a
    <2> QED BY <2>1, <2>2, <2>3, <2>4, <1>e DEF ListInv
  <1>4. PhaseInv' /\ ScanInv'
    BY <1>0, <1>a, <1>g DEF Sound, PhaseInv, ScanInv, Scanning, NoScan
  <1>s. \A u \in Threads : (Scanning(u)' <=> Scanning(u)) /\ Suspect(u)' = Suspect(u)
    BY <1>a DEF Scanning, Suspect
  <1>5. ASSUME NEW u \in Threads PROVE ThreadInv(u)'
    <2>1. CASE u = t
      <3>0. t \notin endFreed' /\ t \notin otherFreed'
        BY <1>0, <1>a, Unfreed DEF LateEnd, LateOther
      <3>1. NodeInv(u)' /\ PlaceInv(u)'
        BY <2>1, <3>0, <1>c, <1>g DEF NodeInv, LateOther, PlaceInv, PastTail, Pushing, PopEnd,
               LateEnd, e, m
      <3>2. \A a \in Node : /\ Shields(t, a)' <=> a = e
                            /\ Shields(t, a) <=> a = e
                            /\ a \notin Unprotected(t)'
        BY <1>0, <1>g DEF Shields, Unprotected, LateEnd, LateOther, PushEnd, PopEnd, e
      <3>3. HeldInv(u)'
        BY <2>1, <3>2, <1>a, <1>b, <1>h DEF HeldInv
      <3>4. ShieldInv(u)'
        BY <2>1, <3>2, <1>0, <1>a, <1>g, <1>s DEF ShieldInv
      <3> QED BY <3>1, <3>3, <3>4 DEF ThreadInv
    <2>2. CASE u # t
      <3>0. /\ pc'[u] = pc[u] /\ my'[u] = my[u] /\ ThreadInv(u)
            /\ u \in endFreed' <=> u \in endFreed
            /\ u \in otherFreed' <=> u \in otherFreed
        BY <2>2, <1>a, <1>g DEF Sound
      <3>1. NodeInv(u)'
        <4>1. \A b \in live : next'[b] = next[b] \/ (next[b] = NULL /\ ~Fresh(u, b))
          BY <1>0, <1>b, <1>g DEF TypeOK, HazardTypeOK, e
        <4> QED BY <3>0, <4>1, <1>a, NodeStable
      <3>2. PlaceInv(u)'
        <4>1. pc[u] \in PopEnd \cup LateEnd /\ u \notin endFreed => my[u].end # m
          BY <3>0, <1>0, <1>c, MyType DEF ThreadInv, HeldInv, Shields, Unprotected, LateOther, LateEnd
        <4>2. pc[u] = "empty_next" /\ u \notin otherFreed => my[u].other # m
          BY <3>0, <1>0, <1>c, MyType DEF ThreadInv, HeldInv, Unprotected, LateEnd, LateOther
        <4>3. pc[u] = "push_link" => my[u].end \in Addr
          BY <3>0, <1>0, MyType DEF ThreadInv, HeldInv, Shields, PushEnd, TypeOK, HazardTypeOK
        <4>4. pc[u] = "push_link" /\ next'[my[u].end] = NULL => next[my[u].end] = NULL
          BY <4>3, <1>c, <1>g
        <4>5. \A b : InChain(b)' /\ b # m => InChain(b)
          BY <1>f
        <4>6. pc[u] \in PopEnd \cup LateEnd /\ u \notin endFreed /\ InChain(my[u].end)' => head = my[u].end
          BY <3>0, <4>1, <4>5 DEF ThreadInv, PlaceInv
        <4>7. pc[u] = "empty_next" /\ u \notin otherFreed /\ InChain(my[u].other)' => head = my[u].other
          BY <3>0, <4>2, <4>5 DEF ThreadInv, PlaceInv
        <4> QED BY <3>0, <4>4, <4>6, <4>7, <1>a DEF ThreadInv, PlaceInv, PastTail
      <3>3. \A a \in Node : /\ Shields(u, a)' => Shields(u, a) \/ (pc[u] = "pop_reread" /\ my[u].next = a /\ a = m)
                            /\ a \in Unprotected(u)' <=> a \in Unprotected(u)
        <4>1. pc[u] = "pop_reread" /\ u \notin otherFreed => my[u].other \in Addr
          BY <3>0, <1>0, MyType DEF ThreadInv, HeldInv, Unprotected, LateEnd, LateOther, TypeOK,
                 HazardTypeOK
        <4>2. pc[u] = "pop_reread" /\ u \notin otherFreed =>
                next'[my[u].other] = next[my[u].other] \/ next'[my[u].other] = m
          BY <4>1, <1>g
        <4> QED BY <3>0, <4>2 DEF Shields, Unprotected, LateEnd, LateOther
      <3>a. \A b \in Addr : b = m => \A w \in Threads : ~Fresh(w, b)' /\ ~On(w, b)
        <4>1. ~On(t, m) /\ \A w \in Threads \ {t} : ~Owns(w, m)
          BY <1>c DEF Sound, OwnerInv
        <4> QED BY <4>1, <1>c, <1>h DEF Owns
      <3>4. HeldInv(u)'
        <4>1. ASSUME NEW a \in Node, Shields(u, a)' \/ a \in Unprotected(u)'
              PROVE  a \in live /\ \A w \in Threads : ~Fresh(w, a)'
          <5>1. CASE a = m
            BY <5>1, <3>a, <1>c
          <5>2. CASE a # m
            <6>1. a \in live /\ \A w \in Threads : ~Fresh(w, a)
              BY <5>2, <4>1, <3>0, <3>3 DEF ThreadInv, HeldInv
            <6>2. a \in Addr
              BY <6>1, <1>0 DEF TypeOK, HazardTypeOK
            <6> QED BY <6>1, <6>2, <1>h
          <5> QED BY <5>1, <5>2
        <4> QED BY <4>1, <1>a DEF HeldInv
      <3>5. ShieldInv(u)'
        <4>1. \A w \in Threads : Scanning(w) => Suspect(w) # m
          BY <3>a, <1>c, SuspectIsRetired
        <4> QED BY <3>0, <3>3, <4>1, <1>a, <1>s DEF ThreadInv, ShieldInv
      <3> QED BY <3>1, <3>2, <3>4, <3>5 DEF ThreadInv
    <2> QED BY <2>1, <2>2
  <1> QED BY <1>1, <1>2, <1>3, <1>4, <1>5 DEF Sound

LEMMA PushLinkFailsInv ==
  ASSUME Sound, NEW t \in Threads, PushLink(t), next[my[t].end] # NULL
  PROVE  Sound'
  <1> USE DEF From, hazardKept, hazardVars
  <1>0. /\ TypeOK /\ NodeInv(t) /\ PlaceInv(t) /\ HeldInv(t) /\ ShieldInv(t) /\ phase = "open"
        /\ pc[t] = "push_link" /\ pc' = [pc EXCEPT ![t] = "push_clear"] /\ pc'[t] = "push_clear"
        /\ UNCHANGED <<head, tail, next, item, phase, chain, retired, scan, live, pointer, my>>
        /\ UNCHANGED <<endFreed, otherFreed, spoilt>>
    BY ChainFacts DEF Sound, ThreadInv, TypeOK, PushLink, history
  <1>1. TypeOK'
    BY <1>0 DEF TypeOK, HazardTypeOK, Places
  <1>2. NodeInv(t)' /\ PlaceInv(t)'
    BY <1>0 DEF NodeInv, LateOther, PlaceInv, PastTail, Pushing, PopEnd, LateEnd
  <1>3. \A a \in Addr : (Fresh(t, a)' <=> Fresh(t, a)) /\ ~Pending(t, a)' /\ ~Pending(t, a)
    BY <1>0 DEF Fresh, Pending, Pushing
  <1>4. \A a \in Node : ~Shields(t, a)' /\ a \notin Unprotected(t)'
    BY <1>0 DEF Shields, Unprotected, LateEnd, LateOther, PushEnd, PopEnd
  <1> QED BY <1>0, <1>1, <1>2, <1>3, <1>4, LocalStep

(* The exchange of queue->head: the tail has left the node that leaves the  *)
(* queue, and its successor is the node that was protected and read.        *)
LEMMA PopSwingInv ==
  ASSUME Sound, NEW t \in Threads, PopSwing(t), head = my[t].end, ~spoilt'
  PROVE  Sound'
  <1> DEFINE e == my[t].end
             m == my[t].next
             n == Len(chain)
  <1>0. /\ TypeOK /\ NodeInv(t) /\ PlaceInv(t) /\ HeldInv(t) /\ ShieldInv(t) /\ phase = "open"
        /\ pc[t] = "pop_swing"
    BY ChainFacts DEF Sound, ThreadInv, PopSwing, From
  <1>a. /\ pc' = [pc EXCEPT ![t] = "pop_retire"]
        /\ head' = m /\ chain' = Tail(chain)
        /\ my' = [my EXCEPT ![t].next = NULL]
        /\ UNCHANGED <<pointer, retired, scan, live, tail, next, item, phase, otherFreed>>
        /\ t \notin endFreed /\ endFreed' = endFreed \ {t} /\ spoilt' \in BOOLEAN
    <2>1. /\ spoilt' = (t \in endFreed)
          /\ endFreed' = endFreed \ {t}
          /\ pc' = [pc EXCEPT ![t] = "pop_retire"]
          /\ head' = m /\ chain' = Tail(chain) /\ my' = [my EXCEPT ![t].next = NULL]
      BY DEF PopSwing, From
    <2>2. UNCHANGED <<pointer, retired, scan, live, tail, next, item, phase, otherFreed>>
      BY DEF PopSwing, hazardKept, hazardVars, nodes
    <2>3. t \notin endFreed /\ spoilt' \in BOOLEAN
      <3>1. (t \in endFreed) \in BOOLEAN
        OBVIOUS
      <3> QED BY <2>1, <3>1
    <2> QED BY <2>1, <2>2, <2>3
  <1>b. /\ chain \in Seq(Addr) /\ n \in Nat /\ n > 0 /\ chain # <<>>
        /\ \A i \in 1..n : chain[i] \in Addr
        /\ head = chain[1] /\ e = chain[1] /\ e \in Addr /\ InChain(e) /\ e \in live
    BY <1>0, ChainFacts
  <1>c. m # NULL /\ next[e] = m /\ n > 1 /\ m = chain[2] /\ m \in Addr
    BY <1>0, <1>a, <1>b, NextOfHead, ChainFacts DEF NodeInv, LateOther, LateEnd
  <1>d. tail # e
    BY <1>0, <1>a DEF PlaceInv, PastTail, LateEnd
  <1>e. /\ chain' \in Seq(Addr) /\ Len(chain') = n - 1 /\ chain' # <<>>
        /\ \A i \in 1..(n - 1) : chain'[i] = chain[i + 1]
    BY <1>a, <1>b, <1>c, TailPositions
  <1>j. \A i, j \in 1..n : chain[i] = chain[j] => i = j
    BY DEF Sound, ListInv
  <1>f. \A b : InChain(b)' <=> InChain(b) /\ b # e
    <2>1. \A b : InChain(b)' <=> \E i \in 1..(n - 1) : chain'[i] = b
      BY <1>e DEF InChain
    <2>2. \A b : InChain(b) <=> \E i \in 1..n : chain[i] = b
      BY DEF InChain
    <2>3. e = chain[1] /\ n \in Nat \ {0}
      BY <1>a, <1>b
    <2>4. /\ \A i \in 1..(n - 1) : chain'[i] = chain[i + 1]
          /\ \A i, j \in 1..n : chain[i] = chain[j] => i = j
      BY <1>e, <1>j
    <2> HIDE DEF n, e
    <2>5. \A b : (\E i \in 1..(n - 1) : chain'[i] = b) <=> (\E i \in 1..n : chain[i] = b) /\ b # chain[1]
      BY ONLY <2>3, <2>4, BehindFirst
    <2> QED BY ONLY <2>1, <2>2, <2>3, <2>5
  <1>g. /\ pc'[t] = "pop_retire" /\ my'[t].end = e
        /\ \A u \in Threads \ {t} : pc'[u] = pc[u] /\ my'[u] = my[u]
    BY <1>a, <1>0, MyType DEF TypeOK, Mine
  <1>k. ~Fresh(t, e) /\ \A u \in Threads : ~Fresh(u, e) /\ ~Pending(u, e) /\ ~On(u, e)
    BY <1>b, InChainIsShared DEF Node, Owns
  <1> HIDE DEF e, m, n
  <1>h. \A u \in Threads, b \in Addr : /\ Fresh(u, b)' <=> Fresh(u, b)
                                       /\ Pending(u, b)' <=> Pending(u, b) \/ (u = t /\ b = e)
                                       /\ On(u, b)' <=> On(u, b)
    <2>1. \A u \in Threads, b \in Addr : On(u, b)' <=> On(u, b)
      BY <1>a DEF On
    <2>2. \A u \in Threads, b \in Addr : /\ Fresh(u, b)' <=> Fresh(u, b)
                                         /\ Pending(u, b)' <=> Pending(u, b) \/ (u = t /\ b = e)
      BY <1>0, <1>g DEF Fresh, Pending, Pushing
    <2> QED BY <2>1, <2>2
  <1>1. TypeOK'
    <2>1. my' \in [Threads -> Mine]
      BY <1>0, <1>a, MyType, FieldTypes, BlankType DEF TypeOK, Mine
    <2>2. pc' \in [Threads -> Places] /\ head' \in Node
      BY <1>0, <1>a, <1>c DEF TypeOK, Places, Node
    <2>3. endFreed' \subseteq Threads /\ spoilt' \in BOOLEAN
      BY <1>0, <1>a DEF TypeOK
    <2> QED BY <2>1, <2>2, <2>3, <1>0, <1>a, <1>e DEF TypeOK, HazardTypeOK, Mine
  <1>2. OwnerInv'
    <2>0. \A u \in Threads, b \in Addr : Owns(u, b)' <=> Owns(u, b) \/ (u = t /\ b = e)
      BY <1>h DEF Owns
    <2>1. ASSUME NEW b \in Addr
          PROVE  b \in live' <=> InChain(b)' \/ \E u \in Threads : Owns(u, b)'
      <3>1. b \in live <=> InChain(b) \/ \E u \in Threads : Owns(u, b)
        BY DEF Sound, OwnerInv
      <3> QED BY <3>1, <2>0, <1>a, <1>b, <1>f
    <2>2. ASSUME NEW u \in Threads, NEW b \in Addr
          PROVE  /\ Owns(u, b)' => ~InChain(b)' /\ \A w \in Threads \ {u} : ~Owns(w, b)'
                 /\ Fresh(u, b)' => ~Pending(u, b)' /\ ~On(u, b)'
                 /\ Pending(u, b)' => ~On(u, b)'
                 /\ Pending(u, b)' \/ On(u, b)' => next'[b] # NULL
      <3>1. /\ Owns(u, b) => ~InChain(b) /\ \A w \in Threads \ {u} : ~Owns(w, b)
            /\ Fresh(u, b) => ~Pending(u, b) /\ ~On(u, b)
            /\ Pending(u, b) => ~On(u, b)
            /\ Pending(u, b) \/ On(u, b) => next[b] # NULL
        BY DEF Sound, OwnerInv
      <3>2. CASE b = e
        BY <3>2, <1>a, <1>c, <1>f, <1>h, <1>k, <2>0 DEF Owns
      <3>3. CASE b # e
        BY <3>1, <3>3, <1>a, <1>f, <1>h, <2>0
      <3> QED BY <3>2, <3>3
    <2>3. \A u \in Threads : \A i, j \in 1..Len(retired'[u]) : retired'[u][i] = retired'[u][j] => i = j
      BY <1>a DEF Sound, OwnerInv
    <2> QED BY <2>1, <2>2, <2>3 DEF OwnerInv
  <1>3. ListInv'
    <2>0. \A i \in 1..n : next[chain[i]] = IF i = n THEN NULL ELSE chain[i + 1]
      BY DEF Sound, ListInv, n
    <2>a. 1 \in 1..(n - 1) /\ 1 + 1 = 2
      BY <1>b, <1>c
    <2>1. head' = IF chain' = <<>> THEN NULL ELSE chain'[1]
      BY <1>a, <1>c, <1>e, <2>a
    <2>2. ASSUME NEW i \in 1..(n - 1)
          PROVE  next'[chain'[i]] = IF i = n - 1 THEN NULL ELSE chain'[i + 1]
      <3>1. i + 1 \in 1..n /\ (i + 1 = n <=> i = n - 1) /\ (i # n - 1 => i + 1 \in 1..(n - 1))
        BY <1>b
      <3>2. chain'[i] = chain[i + 1]
        BY <1>e
      <3>3. next[chain[i + 1]] = IF i + 1 = n THEN NULL ELSE chain[(i + 1) + 1]
        BY <2>0, <3>1
      <3>4. i # n - 1 => chain'[i + 1] = chain[(i + 1) + 1]
        BY <3>1, <1>e
      <3> QED BY <3>1, <3>2, <3>3, <3>4, <1>a
    <2>3. ASSUME NEW i \in 1..(n - 1), NEW j \in 1..(n - 1), chain'[i] = chain'[j]
          PROVE  i = j
      <3>1. i + 1 \in 1..n /\ j + 1 \in 1..n /\ (i + 1 = j + 1 => i = j)
        BY <1>b
      <3>2. chain[i + 1] = chain[j + 1]
        BY <1>e, <2>3
      <3> QED BY <3>1, <3>2, <1>j
    <2>4. \E i \in 1..(n - 1) : i >= (n - 1) - 1 /\ tail' = chain'[i]
      <3>1. PICK i \in 1..n : i >= n - 1 /\ tail = chain[i]
        BY <1>0 DEF Sound, ListInv, n
      <3>2. i # 1
        BY <3>1, <1>b, <1>d
      <3>3. i - 1 \in 1..(n - 1) /\ (i - 1) + 1 = i /\ i - 1 >= (n - 1) - 1
        BY <3>1, <3>2, <1>b
      <3>4. chain'[i - 1] = chain[i]
        BY <3>3, <1>e
      <3> QED BY <3>1, <3>3, <3>4, <1>a
    <2> QED BY <2>1, <2>2, <2>3, <2>4, <1>e DEF ListInv
  <1>4. PhaseInv' /\ ScanInv'
    BY <1>0, <1>a, <1>g DEF Sound, PhaseInv, ScanInv, Scanning, NoScan
  <1>s. \A u \in Threads : (Scanning(u)' <=> Scanning(u)) /\ Suspect(u)' = Suspect(u)
    BY <1>a DEF Scanning, Suspect
  <1>5. ASSUME NEW u \in Threads PROVE ThreadInv(u)'
    <2>1. CASE u = t
      <3>0. t \notin endFreed' /\ t \notin otherFreed'
        BY <1>0, <1>a, Unfreed DEF LateEnd, LateOther
      <3>1. NodeInv(u)' /\ PlaceInv(u)'
        BY <2>1, <3>0, <1>b, <1>g DEF NodeInv, LateOther, PlaceInv, PastTail, Pushing, PopEnd, LateEnd
      <3>2. HeldInv(u)' /\ ShieldInv(u)'
        BY <2>1, <1>g DEF HeldInv, ShieldInv, Shields, Unprotected, LateEnd, LateOther, PushEnd, PopEnd
      <3> QED BY <3>1, <3>2 DEF ThreadInv
    <2>2. CASE u # t
      <3>0. /\ pc'[u] = pc[u] /\ my'[u] = my[u] /\ ThreadInv(u)
            /\ u \in endFreed' <=> u \in endFreed
            /\ u \in otherFreed' <=> u \in otherFreed
        BY <2>2, <1>a, <1>g DEF Sound
      <3>1. NodeInv(u)'
        BY <3>0, <1>a, NodeStable
      <3>2. \A b \in Node : /\ Shields(u, b)' <=> Shields(u, b)
                            /\ b \in Unprotected(u)' <=> b \in Unprotected(u)
        BY <3>0, <1>a, HeldStable
      <3>3. HeldInv(u)'
        BY <3>0, <3>2, <1>0, <1>a, <1>h DEF ThreadInv, HeldInv, TypeOK, HazardTypeOK
      <3>4. ShieldInv(u)'
        BY <3>0, <3>2, <1>a, <1>s DEF ThreadInv, ShieldInv
      <3>5. PlaceInv(u)'
        <4>1. InChain(m) /\ m # e
          <5>1. 1 \in 1..n /\ 2 \in 1..n /\ 1 # 2
            BY <1>b, <1>c
          <5> QED BY <5>1, <1>b, <1>c, <1>j DEF InChain, n
        <4>2. head = e
          BY <1>b
        <4>3. pc[u] \in PopEnd \cup LateEnd /\ u \notin endFreed => ~InChain(my[u].end)' /\ my[u].end # m
          BY <3>0, <4>1, <4>2, <1>f DEF ThreadInv, PlaceInv
        <4>4. pc[u] = "empty_next" /\ u \notin otherFreed => ~InChain(my[u].other)'
          BY <3>0, <4>1, <4>2, <1>f DEF ThreadInv, PlaceInv
        <4>5. PastTail(u)' => pc[u] \in PopEnd \cup LateEnd
          BY <3>0 DEF PastTail, PopEnd, LateEnd
        <4> QED BY <3>0, <4>3, <4>4, <4>5, <1>a DEF ThreadInv, PlaceInv
      <3> QED BY <3>1, <3>3, <3>4, <3>5 DEF ThreadInv
    <2> QED BY <2>1, <2>2
  <1> QED BY <1>1, <1>2, <1>3, <1>4, <1>5 DEF Sound

LEMMA PopSwingFailsInv ==
  ASSUME Sound, NEW t \in Threads, PopSwing(t), head # my[t].end
  PROVE  Sound'
  <1> USE DEF From, hazardKept, hazardVars
  <1>0. /\ TypeOK /\ phase = "open" /\ pc[t] = "pop_swing"
        /\ pc' = [pc EXCEPT ![t] = "pop_load"] /\ pc'[t] = "pop_load"
        /\ my' = [my EXCEPT ![t] = Blank]
        /\ UNCHANGED <<head, tail, next, item, phase, chain, retired, scan, live, pointer>>
        /\ UNCHANGED <<otherFreed, spoilt>> /\ endFreed' = endFreed \ {t}
    BY ChainFacts DEF Sound, TypeOK, PopSwing, Forget, nodes, history
  <1>1. TypeOK'
    <2>1. my' \in [Threads -> Mine] /\ pc' \in [Threads -> Places]
      BY <1>0, BlankType DEF TypeOK, Mine, Places
    <2> QED BY <1>0, <2>1 DEF TypeOK, HazardTypeOK, Mine
  <1>a. t \notin endFreed' /\ t \notin otherFreed'
    BY <1>0, Unfreed DEF LateOther
  <1>2. NodeInv(t)' /\ PlaceInv(t)'
    BY <1>0, <1>a DEF NodeInv, LateOther, PlaceInv, PastTail, Pushing, PopEnd, LateEnd
  <1>3. \A a \in Addr : (Fresh(t, a)' <=> Fresh(t, a)) /\ ~Pending(t, a)' /\ ~Pending(t, a)
    BY <1>0 DEF Fresh, Pending, Pushing
  <1>4. \A a \in Node : ~Shields(t, a)' /\ a \notin Unprotected(t)'
    BY <1>0 DEF Shields, Unprotected, LateEnd, LateOther, PushEnd, PopEnd
  <1>5. /\ \A u \in Threads \ {t} : my'[u] = my[u] /\ pointer'[u] = pointer[u]
        /\ \A u \in Threads \ {t} : /\ u \in endFreed' <=> u \in endFreed
                                    /\ u \in otherFreed' <=> u \in otherFreed
    BY <1>0 DEF TypeOK
  <1> QED BY <1>0, <1>1, <1>2, <1>3, <1>4, <1>5, LocalStep

(* The unlinked node joins the list of its thread, and that list only. *)
LEMMA PopRetireInv ==
  ASSUME Sound, NEW t \in Threads, PopRetire(t)
  PROVE  Sound'
  <1> DEFINE p == my[t].end
             list == <<p>> \o retired[t]
             n == Len(retired[t])
  <1>0. TypeOK /\ NodeInv(t) /\ phase = "open" /\ pc[t] = "pop_retire"
    BY ChainFacts DEF Sound, ThreadInv, PopRetire, From
  <1>a. /\ pc' = [pc EXCEPT ![t] = "pop_scan"]
        /\ retired' = [retired EXCEPT ![t] = list]
        /\ scan' = [scan EXCEPT ![t] = IF Full(list) THEN ScanFrom(1, list) ELSE NoScan]
        /\ my' = [my EXCEPT ![t].end = NULL]
        /\ UNCHANGED <<pointer, live, head, tail, next, item, phase, chain>>
        /\ UNCHANGED <<endFreed, otherFreed, spoilt>>
    BY DEF PopRetire, Retire, From, queueKept, listKept, nodes, history
  <1>b. p \in Addr /\ Pending(t, p) /\ Owns(t, p) /\ retired[t] \in Seq(Addr)
    BY <1>0, MyType DEF NodeInv, LateEnd, LateOther, Node, Pending, Owns
  <1>c. /\ list \in Seq(Addr) /\ n \in Nat /\ Len(list) = n + 1 /\ list[1] = p
        /\ \A j \in 1..n : list[j + 1] = retired[t][j]
    BY <1>b, PrependPositions
  <1> HIDE DEF list
  <1>d. /\ retired'[t] = list
        /\ \A u \in Threads \ {t} : retired'[u] = retired[u] /\ scan'[u] = scan[u]
    BY <1>a, <1>0 DEF TypeOK, HazardTypeOK
  <1>e. \/ scan'[t] = NoScan
        \/ scan'[t] = [at |-> 1, unread |-> Threads]
    BY <1>a, <1>c, <1>0 DEF TypeOK, HazardTypeOK, ScanFrom
  <1>f. /\ pc'[t] = "pop_scan"
        /\ \A u \in Threads \ {t} : pc'[u] = pc[u] /\ my'[u] = my[u]
    BY <1>a, <1>0 DEF TypeOK
  <1>g. ASSUME NEW a \in Addr
        PROVE  /\ On(t, a)' <=> On(t, a) \/ a = p
               /\ \A u \in Threads \ {t} : On(u, a)' <=> On(u, a)
    <2>1. On(t, a)' => On(t, a) \/ a = p
      <3> SUFFICES ASSUME NEW i \in 1..(n + 1), list[i] = a, a # p
                   PROVE  On(t, a)
        BY <1>c, <1>d DEF On
      <3>1. i # 1 /\ i - 1 \in 1..n /\ (i - 1) + 1 = i
        BY <1>c
      <3> QED BY <3>1, <1>c DEF On
    <2>2. On(t, a) => On(t, a)'
      <3> SUFFICES ASSUME NEW i \in 1..n, retired[t][i] = a
                   PROVE  On(t, a)'
        BY DEF On
      <3>1. i + 1 \in 1..(n + 1) /\ list[i + 1] = a
        BY <1>c
      <3> QED BY <3>1, <1>c, <1>d DEF On
    <2>3. a = p => On(t, a)'
      <3>1. 1 \in 1..(n + 1)
        BY <1>c
      <3> QED BY <3>1, <1>c, <1>d DEF On
    <2>4. \A u \in Threads \ {t} : On(u, a)' <=> On(u, a)
      BY <1>d DEF On
    <2> QED BY <2>1, <2>2, <2>3, <2>4
  <1> HIDE DEF p
  <1>h. \A u \in Threads, b \in Addr : /\ Fresh(u, b)' <=> Fresh(u, b)
                                       /\ Pending(u, b)' <=> Pending(u, b) /\ u # t
                                       /\ Pending(t, b) <=> b = p
    BY <1>0, <1>f DEF Fresh, Pending, Pushing, p
  <1>i. \A b \in Addr : InChain(b)' <=> InChain(b)
    BY <1>a DEF InChain
  <1>1. TypeOK'
    <2>1. my' \in [Threads -> Mine]
      BY <1>0, <1>a, MyType, FieldTypes, BlankType DEF TypeOK, Mine
    <2>2. retired' \in [Threads -> Seq(Addr)]
      BY <1>a, <1>c, <1>0 DEF TypeOK, HazardTypeOK
    <2>3. scan' \in [Threads -> [at : Nat, unread : SUBSET Threads]]
      BY <1>a, <1>e, <1>0 DEF TypeOK, HazardTypeOK, NoScan
    <2>4. pc' \in [Threads -> Places]
      BY <1>a, <1>0 DEF TypeOK, Places
    <2> QED BY <2>1, <2>2, <2>3, <2>4, <1>a, <1>0 DEF TypeOK, HazardTypeOK, Mine
  <1>2. OwnerInv'
    <2>0. \A u \in Threads, b \in Addr : Owns(u, b)' <=> Owns(u, b)
      BY <1>g, <1>h DEF Owns
    <2>1. ASSUME NEW b \in Addr
          PROVE  b \in live' <=> InChain(b)' \/ \E u \in Threads : Owns(u, b)'
      BY <2>0, <1>a, <1>i DEF Sound, OwnerInv
    <2>2. ASSUME NEW u \in Threads, NEW b \in Addr
          PROVE  /\ Owns(u, b)' => ~InChain(b)' /\ \A w \in Threads \ {u} : ~Owns(w, b)'
                 /\ Fresh(u, b)' => ~Pending(u, b)' /\ ~On(u, b)'
                 /\ Pending(u, b)' => ~On(u, b)'
                 /\ Pending(u, b)' \/ On(u, b)' => next'[b] # NULL
      <3>1. /\ Owns(u, b) => ~InChain(b) /\ \A w \in Threads \ {u} : ~Owns(w, b)
            /\ Fresh(u, b) => ~Pending(u, b) /\ ~On(u, b)
            /\ Pending(u, b) => ~On(u, b)
            /\ Pending(u, b) \/ On(u, b) => next[b] # NULL
        BY DEF Sound, OwnerInv
      <3>2. CASE u = t
        BY <3>1, <3>2, <2>0, <1>a, <1>g, <1>h, <1>i
      <3>3. CASE u # t
        BY <3>1, <3>3, <2>0, <1>a, <1>g, <1>h, <1>i
      <3> QED BY <3>2, <3>3
    <2>4. \A i \in 1..n : retired[t][i] # p
      BY <1>b DEF Sound, OwnerInv, On
    <2>5. ASSUME NEW i \in 1..(n + 1), NEW j \in 1..(n + 1), list[i] = list[j]
          PROVE  i = j
      <3>1. \A k \in 1..(n + 1) : k = 1 \/ (k - 1 \in 1..n /\ list[k] = retired[t][k - 1])
        <4> TAKE k \in 1..(n + 1)
        <4>1. k # 1 => k - 1 \in 1..n /\ (k - 1) + 1 = k
          BY <1>c
        <4> QED BY <4>1, <1>c
      <3>2. CASE i = 1 \/ j = 1
        BY <3>1, <3>2, <2>4, <2>5, <1>c
      <3>3. CASE i # 1 /\ j # 1
        <4>1. i - 1 = j - 1
          BY <3>1, <3>3, <2>5 DEF Sound, OwnerInv
        <4> QED BY <4>1
      <3> QED BY <3>2, <3>3
    <2>6. ASSUME NEW u \in Threads, NEW i \in 1..Len(retired'[u]), NEW j \in 1..Len(retired'[u]),
                 retired'[u][i] = retired'[u][j]
          PROVE  i = j
      <3>1. CASE u = t
        BY <3>1, <2>5, <2>6, <1>c, <1>d
      <3>2. CASE u # t
        BY <3>2, <2>6, <1>d DEF Sound, OwnerInv
      <3> QED BY <3>1, <3>2
    <2> QED BY <2>1, <2>2, <2>6 DEF OwnerInv
  <1>3. ListInv'
    BY <1>a DEF Sound, ListInv
  <1>4. PhaseInv'
    BY <1>0, <1>a DEF Sound, PhaseInv
  <1>s. ScanInv'
    <2>1. scan'[t].at <= Len(retired'[t])
      BY <1>c, <1>d, <1>e DEF NoScan
    <2>2. \A u \in Threads \ {t} : scan'[u].at <= Len(retired'[u])
      BY <1>d DEF Sound, ScanInv
    <2>3. \A u \in Threads : pc'[u] # "pop_scan" \/ ~Scanning(u)' => scan'[u] = NoScan
      BY <1>d, <1>e, <1>f DEF Sound, ScanInv, Scanning
    <2> QED BY <2>1, <2>2, <2>3 DEF ScanInv
  <1>5. ASSUME NEW u \in Threads PROVE ThreadInv(u)'
    <2>1. CASE u = t
      <3>0. t \notin endFreed' /\ t \notin otherFreed'
        BY <1>0, <1>a, Unfreed DEF LateEnd, LateOther
      <3>1. NodeInv(u)' /\ PlaceInv(u)'
        BY <2>1, <3>0, <1>f DEF NodeInv, LateOther, PlaceInv, PastTail, Pushing, PopEnd, LateEnd
      <3>2. HeldInv(u)' /\ ShieldInv(u)'
        BY <2>1, <1>f DEF HeldInv, ShieldInv, Shields, Unprotected, LateEnd, LateOther, PushEnd, PopEnd
      <3> QED BY <3>1, <3>2 DEF ThreadInv
    <2>2. CASE u # t
      <3>0. /\ pc'[u] = pc[u] /\ my'[u] = my[u] /\ ThreadInv(u)
            /\ u \in endFreed' <=> u \in endFreed
            /\ u \in otherFreed' <=> u \in otherFreed
        BY <2>2, <1>a, <1>f DEF Sound
      <3>1. NodeInv(u)'
        BY <3>0, <1>a, NodeStable
      <3>2. \A b \in Node : /\ Shields(u, b)' <=> Shields(u, b)
                            /\ b \in Unprotected(u)' <=> b \in Unprotected(u)
        BY <3>0, <1>a, HeldStable
      <3>3. HeldInv(u)'
        BY <3>0, <3>2, <1>0, <1>a, <1>h DEF ThreadInv, HeldInv, TypeOK, HazardTypeOK
      <3>4. Scanning(t)' => scan'[t].unread = Threads
        BY <1>e DEF Scanning, NoScan
      <3>5. \A w \in Threads \ {t} : (Scanning(w)' <=> Scanning(w)) /\ Suspect(w)' = Suspect(w)
        BY <1>d DEF Scanning, Suspect
      <3>6. ShieldInv(u)'
        BY <3>0, <3>2, <3>4, <3>5, <1>a, <1>d DEF ThreadInv, ShieldInv
      <3>7. PlaceInv(u)'
        BY <3>0, <1>a DEF ThreadInv, PlaceInv, PastTail, InChain
      <3> QED BY <3>1, <3>3, <3>6, <3>7 DEF ThreadInv
    <2> QED BY <2>1, <2>2
  <1> QED BY <1>1, <1>2, <1>3, <1>4, <1>s, <1>5 DEF Sound

(* Reading a pointer: a thread that shields the suspect has published it,  *)
(* so it is found, or it has not been read.                                *)
LEMMA ScanReadInv ==
  ASSUME Sound, NEW t \in Threads, pc[t] = "pop_scan", ScanRead(t), UNCHANGED <<pc, my>>,
         listKept, UNCHANGED history
  PROVE  Sound'
  <1>0. TypeOK
    BY DEF Sound
  <1>a. /\ Scanning(t) /\ UNCHANGED <<pointer, retired, live>>
        /\ UNCHANGED <<head, tail, next, item, phase, chain, pc, my>>
        /\ UNCHANGED <<endFreed, otherFreed, spoilt>>
    BY DEF ScanRead, queueKept, listKept, nodes, history
  <1>b. PICK j \in scan[t].unread :
          scan' = [scan EXCEPT ![t] =
            IF pointer[j] = Suspect(t) THEN ScanFrom(scan[t].at + 1, retired[t])
                                       ELSE [at |-> scan[t].at, unread |-> scan[t].unread \ {j}]]
    BY DEF ScanRead, Reserves
  <1>c. /\ scan[t] \in [at : Nat, unread : SUBSET Threads]
        /\ Len(retired[t]) \in Nat /\ scan[t].at <= Len(retired[t])
    BY LenProperties DEF Sound, TypeOK, HazardTypeOK, ScanInv
  <1>d. \A u \in Threads \ {t} : scan'[u] = scan[u]
    BY <1>b, <1>0 DEF TypeOK, HazardTypeOK
  <1>e. \/ scan'[t] = NoScan
        \/ scan'[t] = [at |-> scan[t].at + 1, unread |-> Threads] /\ scan[t].at + 1 <= Len(retired[t])
        \/ /\ scan'[t] = [at |-> scan[t].at, unread |-> scan[t].unread \ {j}]
           /\ pointer[j] # Suspect(t)
    BY <1>b, <1>c, <1>0 DEF TypeOK, HazardTypeOK, ScanFrom
  <1>1. TypeOK'
    <2>1. scan'[t] \in [at : Nat, unread : SUBSET Threads]
      BY <1>c, <1>e DEF NoScan
    <2>2. scan' \in [Threads -> [at : Nat, unread : SUBSET Threads]]
      BY <2>1, <1>b, <1>0 DEF TypeOK, HazardTypeOK
    <2> QED BY <2>2, <1>a, <1>0 DEF TypeOK, HazardTypeOK
  <1>2. OwnerInv' /\ ListInv' /\ PhaseInv'
    <2>1. \A u \in Threads, b \in Addr : /\ Fresh(u, b)' <=> Fresh(u, b)
                                         /\ Pending(u, b)' <=> Pending(u, b)
                                         /\ On(u, b)' <=> On(u, b)
                                         /\ InChain(b)' <=> InChain(b)
      BY <1>a DEF Fresh, Pending, On, InChain
    <2>2. \A u \in Threads, b \in Addr : Owns(u, b)' <=> Owns(u, b)
      BY <2>1 DEF Owns
    <2>3. OwnerInv'
      BY <2>1, <2>2, <1>a DEF Sound, OwnerInv
    <2>4. ListInv' /\ PhaseInv'
      BY <1>a DEF Sound, ListInv, PhaseInv
    <2> QED BY <2>3, <2>4
  <1>3. ScanInv'
    <2>1. scan'[t].at <= Len(retired[t])
      BY <1>c, <1>e DEF NoScan
    <2>2. ~Scanning(t)' => scan'[t] = NoScan
      BY <1>a, <1>c, <1>e DEF Scanning
    <2> QED BY <2>1, <2>2, <1>a, <1>d DEF Sound, ScanInv, Scanning
  <1>4. ASSUME NEW r \in Threads PROVE ThreadInv(r)'
    <2>0. ThreadInv(r)
      BY DEF Sound
    <2>1. NodeInv(r)' /\ PlaceInv(r)' /\ HeldInv(r)'
      BY <2>0, <1>a DEF ThreadInv, NodeInv, PlaceInv, HeldInv, PastTail, InChain, Shields,
             Unprotected, LateEnd, LateOther, Fresh
    <2>2. \A a \in Node : Shields(r, a)' <=> Shields(r, a)
      BY <1>a DEF Shields
    <2>3. ASSUME NEW a \in Node, Shields(r, a), NEW u \in Threads, Scanning(u)', Suspect(u)' = a
          PROVE  r \in scan'[u].unread
      <3>1. CASE u # t
        BY <3>1, <2>0, <2>3, <1>a, <1>d DEF ThreadInv, ShieldInv, Scanning, Suspect
      <3>2. CASE u = t /\ scan'[t] = [at |-> scan[t].at + 1, unread |-> Threads]
        BY <3>2
      <3>3. CASE u = t /\ scan'[t] = NoScan
        BY <3>3, <2>3 DEF Scanning, NoScan
      <3>4. CASE u = t /\ scan'[t] = [at |-> scan[t].at, unread |-> scan[t].unread \ {j}]
                 /\ pointer[j] # Suspect(t)
        <4>1. scan'[t].at = scan[t].at /\ scan'[t].unread = scan[t].unread \ {j}
          BY <3>4, <1>c
        <4>2. Suspect(t) = a
          BY <2>3, <3>4, <4>1, <1>a DEF Suspect
        <4>3. r \in scan[t].unread /\ pointer[r] = a
          BY <2>0, <2>3, <4>2, <1>a DEF ThreadInv, ShieldInv
        <4> QED BY <3>4, <4>1, <4>2, <4>3
      <3> QED BY <3>1, <3>2, <3>3, <3>4, <1>e
    <2>4. ShieldInv(r)'
      BY <2>0, <2>2, <2>3, <1>a DEF ThreadInv, ShieldInv
    <2> QED BY <2>1, <2>4 DEF ThreadInv
  <1> QED BY <1>1, <1>2, <1>3, <1>4 DEF Sound

(* Freeing: all pointers were read and none is the suspect, so nobody who   *)
(* shields it is left; and nobody holds it unprotected.                     *)
LEMMA ScanFreeInv ==
  ASSUME Sound, NEW t \in Threads, pc[t] = "pop_scan", ScanFree(t), UNCHANGED <<pc, my>>, listKept,
         endFreed' = endFreed \cup {u \in Threads : pc[u] \in LateEnd /\ my[u].end = Suspect(t)},
         otherFreed' = otherFreed \cup {u \in Threads : pc[u] \in LateOther /\ my[u].other = Suspect(t)},
         UNCHANGED spoilt
  PROVE  Sound'
  <1> DEFINE k == scan[t].at
             n == Len(retired[t])
             s == Suspect(t)
             list == Without(retired[t], k)
  <1>0. TypeOK
    BY DEF Sound
  <1>a. /\ Scanning(t) /\ scan[t].unread = {} /\ pointer' = pointer
        /\ retired' = [retired EXCEPT ![t] = list]
        /\ scan' = [scan EXCEPT ![t] = ScanFrom(k, list)]
        /\ live' = live \ {s}
        /\ UNCHANGED <<head, tail, next, item, phase, chain, pc, my, spoilt>>
        /\ endFreed' = endFreed \cup {u \in Threads : pc[u] \in LateEnd /\ my[u].end = s}
        /\ otherFreed' = otherFreed \cup {u \in Threads : pc[u] \in LateOther /\ my[u].other = s}
    BY DEF ScanFree, queueKept, listKept, nodes, history
  <1>b. k \in 1..n /\ s \in Addr /\ On(t, s) /\ s = retired[t][k] /\ retired[t] \in Seq(Addr)
    BY <1>a, <1>0, SuspectIsRetired DEF Suspect, TypeOK, HazardTypeOK
  <1>c. /\ n \in Nat /\ list \in Seq(Addr) /\ Len(list) = n - 1 /\ Len(list) \in Nat
        /\ \A j \in 1..(k - 1) : list[j] = retired[t][j]
        /\ \A j \in k..(n - 1) : list[j] = retired[t][j + 1]
    BY <1>b, WithoutPositions, LenProperties
  <1> HIDE DEF list, s
  <1>d. /\ retired'[t] = list
        /\ \A u \in Threads \ {t} : retired'[u] = retired[u] /\ scan'[u] = scan[u]
        /\ scan'[t] = ScanFrom(k, list)
    BY <1>a, <1>0 DEF TypeOK, HazardTypeOK
  <1>e. \/ scan'[t] = NoScan
        \/ scan'[t] = [at |-> k, unread |-> Threads] /\ k <= Len(list)
    BY <1>d DEF ScanFrom
  <1>j. \A i, j \in 1..n : retired[t][i] = retired[t][j] => i = j
    BY DEF Sound, OwnerInv
  <1>f. \A j \in 1..(n - 1) :
          \E m \in 1..n : m # k /\ list[j] = retired[t][m] /\ m = IF j < k THEN j ELSE j + 1
    <2> TAKE j \in 1..(n - 1)
    <2>1. CASE j < k
      <3>1. j \in 1..(k - 1) /\ j \in 1..n /\ j # k
        BY <2>1, <1>b, <1>c
      <3> QED BY <2>1, <3>1, <1>c
    <2>2. CASE ~(j < k)
      <3>1. j \in k..(n - 1) /\ j + 1 \in 1..n /\ j + 1 # k
        BY <2>2, <1>b, <1>c
      <3> QED BY <2>2, <3>1, <1>c
    <2> QED BY <2>1, <2>2
  <1>g. \A m \in 1..n : m # k => \E j \in 1..(n - 1) : list[j] = retired[t][m]
    <2> TAKE m \in 1..n
    <2>1. CASE m < k
      <3>1. m \in 1..(k - 1) /\ m \in 1..(n - 1)
        BY <2>1, <1>b, <1>c
      <3> QED BY <3>1, <1>c
    <2>2. CASE m > k
      <3>1. m - 1 \in k..(n - 1) /\ m - 1 \in 1..(n - 1) /\ (m - 1) + 1 = m
        BY <2>2, <1>b, <1>c
      <3> QED BY <3>1, <1>c
    <2> QED BY <2>1, <2>2, <1>b
  <1>h. \A a \in Addr : On(t, a)' <=> On(t, a) /\ a # s
    <2> TAKE a \in Addr
    <2>1. On(t, a)' => On(t, a) /\ a # s
      <3> SUFFICES ASSUME NEW j \in 1..(n - 1), list[j] = a
                   PROVE  On(t, a) /\ a # s
        BY <1>c, <1>d DEF On
      <3>1. PICK m \in 1..n : m # k /\ a = retired[t][m]
        BY <1>f
      <3>2. a # s
        BY <3>1, <1>b, <1>j
      <3> QED BY <3>1, <3>2 DEF On
    <2>2. On(t, a) /\ a # s => On(t, a)'
      <3> SUFFICES ASSUME NEW m \in 1..n, retired[t][m] = a, a # s
                   PROVE  On(t, a)'
        BY DEF On
      <3>1. m # k
        BY <1>b
      <3>2. PICK j \in 1..(n - 1) : list[j] = a
        BY <3>1, <1>g
      <3> QED BY <3>2, <1>c, <1>d DEF On
    <2> QED BY <2>1, <2>2
  <1>i. \A u \in Threads \ {t}, a \in Addr : (On(u, a)' <=> On(u, a)) /\ (On(u, a) => a # s)
    BY <1>b, <1>d DEF On, Sound, OwnerInv, Owns
  <1>k. \A u \in Threads, a \in Addr : (Fresh(u, a)' <=> Fresh(u, a)) /\ (Pending(u, a)' <=> Pending(u, a))
    BY <1>a DEF Fresh, Pending
  <1>l. \A a \in Addr : InChain(a)' <=> InChain(a)
    BY <1>a DEF InChain
  <1>1. TypeOK'
    <2>1. scan'[t] \in [at : Nat, unread : SUBSET Threads]
      BY <1>b, <1>c, <1>e DEF NoScan
    <2>2. /\ scan' \in [Threads -> [at : Nat, unread : SUBSET Threads]]
          /\ retired' \in [Threads -> Seq(Addr)]
      BY <2>1, <1>a, <1>c, <1>d, <1>0 DEF TypeOK, HazardTypeOK
    <2> QED BY <2>2, <1>a, <1>0 DEF TypeOK, HazardTypeOK
  <1>2. OwnerInv'
    <2>s. /\ Owns(t, s) /\ ~InChain(s) /\ ~Fresh(t, s) /\ ~Pending(t, s)
          /\ \A u \in Threads \ {t} : ~Owns(u, s)
      BY <1>b DEF Sound, OwnerInv, Owns
    <2>0. \A u \in Threads, a \in Addr : Owns(u, a)' <=> Owns(u, a) /\ a # s
      BY <1>h, <1>i, <1>k, <2>s DEF Owns
    <2>1. ASSUME NEW a \in Addr
          PROVE  a \in live' <=> InChain(a)' \/ \E u \in Threads : Owns(u, a)'
      <3>1. a \in live <=> InChain(a) \/ \E u \in Threads : Owns(u, a)
        BY DEF Sound, OwnerInv
      <3> QED BY <3>1, <2>0, <2>s, <1>a, <1>l
    <2>2. ASSUME NEW u \in Threads, NEW a \in Addr
          PROVE  /\ Owns(u, a)' => ~InChain(a)' /\ \A w \in Threads \ {u} : ~Owns(w, a)'
                 /\ Fresh(u, a)' => ~Pending(u, a)' /\ ~On(u, a)'
                 /\ Pending(u, a)' => ~On(u, a)'
                 /\ Pending(u, a)' \/ On(u, a)' => next'[a] # NULL
      <3>1. /\ Owns(u, a) => ~InChain(a) /\ \A w \in Threads \ {u} : ~Owns(w, a)
            /\ Fresh(u, a) => ~Pending(u, a) /\ ~On(u, a)
            /\ Pending(u, a) => ~On(u, a)
            /\ Pending(u, a) \/ On(u, a) => next[a] # NULL
        BY DEF Sound, OwnerInv
      <3>2. On(u, a)' => On(u, a)
        BY <1>h, <1>i
      <3> QED BY <3>1, <3>2, <2>0, <1>a, <1>k, <1>l
    <2>4. ASSUME NEW i \in 1..(n - 1), NEW j \in 1..(n - 1), list[i] = list[j]
          PROVE  i = j
      <3>1. PICK l \in 1..n : list[i] = retired[t][l] /\ l = IF i < k THEN i ELSE i + 1
        BY <1>f
      <3>2. PICK m \in 1..n : list[j] = retired[t][m] /\ m = IF j < k THEN j ELSE j + 1
        BY <1>f
      <3>3. l = m
        BY <3>1, <3>2, <2>4, <1>j
      <3>4. k \in Nat /\ i \in Nat /\ j \in Nat
        BY <1>b, <1>c
      <3> HIDE DEF k
      <3> QED BY <3>1, <3>2, <3>3, <3>4
    <2>5. ASSUME NEW u \in Threads, NEW i \in 1..Len(retired'[u]), NEW j \in 1..Len(retired'[u]),
                 retired'[u][i] = retired'[u][j]
          PROVE  i = j
      <3>1. CASE u = t
        BY <3>1, <2>4, <2>5, <1>c, <1>d
      <3>2. CASE u # t
        BY <3>2, <2>5, <1>d DEF Sound, OwnerInv
      <3> QED BY <3>1, <3>2
    <2> QED BY <2>1, <2>2, <2>5 DEF OwnerInv
  <1>3. ListInv'
    BY <1>a DEF Sound, ListInv
  <1>p. PhaseInv'
    BY <1>a DEF Sound, PhaseInv
  <1>4. ScanInv'
    <2>1. scan'[t].at <= Len(retired'[t])
      BY <1>c, <1>d, <1>e DEF NoScan
    <2>2. \A u \in Threads \ {t} : scan'[u].at <= Len(retired'[u])
      BY <1>d DEF Sound, ScanInv
    <2>3. ~Scanning(t)' => scan'[t] = NoScan
      BY <1>b, <1>e DEF Scanning
    <2> QED BY <2>1, <2>2, <2>3, <1>a, <1>d DEF Sound, ScanInv, Scanning
  <1>5. ASSUME NEW r \in Threads PROVE ThreadInv(r)'
    <2>0. ThreadInv(r)
      BY DEF Sound
    <2>a. /\ r \in endFreed' <=> r \in endFreed \/ (pc[r] \in LateEnd /\ my[r].end = s)
          /\ r \in otherFreed' <=> r \in otherFreed \/ (pc[r] \in LateOther /\ my[r].other = s)
      BY <1>a
    <2>1. NodeInv(r)' /\ PlaceInv(r)'
      BY <2>0, <2>a, <1>a DEF ThreadInv, NodeInv, LateEnd, LateOther, PlaceInv, PastTail, InChain
    <2>2. \A a \in Node : /\ Shields(r, a)' => Shields(r, a)
                          /\ a \in Unprotected(r)' => a \in Unprotected(r) /\ a # s
      BY <1>a, <2>a DEF Shields, Unprotected, LateEnd, LateOther
    <2>3. \A a \in Node : Shields(r, a) => a # s
      BY <2>0, <1>a DEF ThreadInv, ShieldInv, s
    <2>4. HeldInv(r)'
      <3>1. ASSUME NEW a \in Node, Shields(r, a)' \/ a \in Unprotected(r)'
            PROVE  a \in live' /\ \A u \in Threads : ~Fresh(u, a)'
        <4>0. (Shields(r, a) \/ a \in Unprotected(r)) /\ a # s
          BY <3>1, <2>2, <2>3
        <4>1. a \in live /\ \A u \in Threads : ~Fresh(u, a)
          BY <2>0, <4>0 DEF ThreadInv, HeldInv
        <4>2. a \in Addr
          BY <4>1, <1>0 DEF TypeOK, HazardTypeOK
        <4> QED BY <4>0, <4>1, <4>2, <1>a, <1>k
      <3> QED BY <3>1 DEF HeldInv
    <2>5. ASSUME NEW a \in Node, Shields(r, a), NEW u \in Threads, Scanning(u)', Suspect(u)' = a
          PROVE  r \in scan'[u].unread
      <3>1. CASE u = t
        BY <3>1, <2>5, <1>e DEF Scanning, NoScan
      <3>2. CASE u # t
        BY <3>2, <2>0, <2>5, <1>d DEF ThreadInv, ShieldInv, Scanning, Suspect
      <3> QED BY <3>1, <3>2
    <2>6. ShieldInv(r)'
      BY <2>0, <2>2, <2>5, <1>a DEF ThreadInv, ShieldInv
    <2> QED BY <2>1, <2>4, <2>6 DEF ThreadInv
  <1> QED BY <1>1, <1>2, <1>3, <1>p, <1>4, <1>5 DEF Sound

(* delete and new, when nobody is inside. *)
LEMMA DeleteStartInv ==
  ASSUME Sound, DeleteStart
  PROVE  Sound'
  <1>a. /\ \A t \in Threads : pc[t] = "idle" /\ pc'[t] = "idle"
        /\ phase' = "deleting"
        /\ UNCHANGED <<pointer, retired, scan, live, head, tail, next, item, pc, my, chain>>
        /\ UNCHANGED <<endFreed, otherFreed, spoilt>>
    BY DEF DeleteStart, hazardKept, hazardVars, nodes, history
  <1>1. TypeOK'
    BY <1>a DEF Sound, TypeOK, HazardTypeOK
  <1>2. OwnerInv'
    <2>1. \A u \in Threads, b \in Addr : /\ Fresh(u, b)' <=> Fresh(u, b)
                                         /\ Pending(u, b)' <=> Pending(u, b)
                                         /\ On(u, b)' <=> On(u, b)
      BY <1>a DEF Fresh, Pending, On
    <2>2. \A b \in Addr : InChain(b)' <=> InChain(b)
      BY <1>a DEF InChain
    <2>3. \A u \in Threads, b \in Addr : Owns(u, b)' <=> Owns(u, b)
      BY <2>1 DEF Owns
    <2> QED BY <2>1, <2>2, <2>3, <1>a DEF Sound, OwnerInv
  <1>3. ListInv' /\ PhaseInv'
    BY <1>a DEF Sound, ListInv, PhaseInv
  <1>4. ScanInv'
    BY <1>a DEF Sound, ScanInv, Scanning, NoScan
  <1>5. \A t \in Threads : ThreadInv(t)'
    BY <1>a, Unfreed, IdleThread DEF LateEnd, LateOther
  <1> QED BY <1>1, <1>2, <1>3, <1>4, <1>5 DEF Sound

LEMMA DeleteNodeInv ==
  ASSUME Sound, DeleteNode
  PROVE  Sound'
  <1> DEFINE n == Len(chain)
  <1>a. /\ phase = "deleting" /\ head # NULL
        /\ head' = next[head] /\ live' = live \ {head} /\ chain' = Tail(chain)
        /\ UNCHANGED <<pointer, retired, scan, tail, next, item, pc, my, phase>>
        /\ UNCHANGED <<endFreed, otherFreed, spoilt>>
    BY DEF DeleteNode, nodes, history
  <1>0. TypeOK /\ \A t \in Threads : pc[t] = "idle" /\ pc'[t] = "idle"
    BY <1>a DEF Sound, PhaseInv
  <1>b. /\ chain \in Seq(Addr) /\ n \in Nat /\ n > 0 /\ chain # <<>>
        /\ \A i \in 1..n : chain[i] \in Addr
        /\ head = chain[1] /\ head \in Addr /\ InChain(head) /\ head \in live
    BY <1>0, <1>a, ChainFacts DEF TypeOK, Node
  <1>e. /\ chain' \in Seq(Addr) /\ Len(chain') = n - 1 /\ (chain' = <<>> <=> n = 1)
        /\ \A i \in 1..(n - 1) : chain'[i] = chain[i + 1]
    BY <1>a, <1>b, TailPositions
  <1>j. /\ \A i, j \in 1..n : chain[i] = chain[j] => i = j
        /\ \A i \in 1..n : next[chain[i]] = IF i = n THEN NULL ELSE chain[i + 1]
    BY DEF Sound, ListInv
  <1>f. \A b : InChain(b)' <=> InChain(b) /\ b # head
    <2>1. \A b : InChain(b)' <=> \E i \in 1..(n - 1) : chain'[i] = b
      BY <1>e DEF InChain
    <2>2. \A b : InChain(b) <=> \E i \in 1..n : chain[i] = b
      BY DEF InChain
    <2>3. head = chain[1] /\ n \in Nat \ {0}
      BY <1>a, <1>b
    <2>4. /\ \A i \in 1..(n - 1) : chain'[i] = chain[i + 1]
          /\ \A i, j \in 1..n : chain[i] = chain[j] => i = j
      BY <1>e, <1>j
    <2> HIDE DEF n
    <2>5. \A b : (\E i \in 1..(n - 1) : chain'[i] = b) <=> (\E i \in 1..n : chain[i] = b) /\ b # chain[1]
      BY ONLY <2>3, <2>4, BehindFirst
    <2> QED BY ONLY <2>1, <2>2, <2>3, <2>5
  <1>k. \A u \in Threads : ~Owns(u, head)
    BY <1>b, InChainIsShared DEF Node
  <1>1. TypeOK'
    <2>1. head' \in Node
      BY <1>a, <1>b, <1>0 DEF TypeOK
    <2> QED BY <2>1, <1>0, <1>a, <1>e DEF TypeOK, HazardTypeOK
  <1>2. OwnerInv'
    <2>1. \A u \in Threads, b \in Addr : /\ Fresh(u, b)' <=> Fresh(u, b)
                                         /\ Pending(u, b)' <=> Pending(u, b)
                                         /\ On(u, b)' <=> On(u, b)
      BY <1>a DEF Fresh, Pending, On
    <2>2. \A u \in Threads, b \in Addr : Owns(u, b)' <=> Owns(u, b)
      BY <2>1 DEF Owns
    <2>3. ASSUME NEW b \in Addr
          PROVE  b \in live' <=> InChain(b)' \/ \E u \in Threads : Owns(u, b)'
      <3>1. b \in live <=> InChain(b) \/ \E u \in Threads : Owns(u, b)
        BY DEF Sound, OwnerInv
      <3> QED BY <3>1, <2>2, <1>a, <1>f, <1>k
    <2>4. ASSUME NEW u \in Threads, NEW b \in Addr
          PROVE  /\ Owns(u, b)' => ~InChain(b)' /\ \A w \in Threads \ {u} : ~Owns(w, b)'
                 /\ Fresh(u, b)' => ~Pending(u, b)' /\ ~On(u, b)'
                 /\ Pending(u, b)' => ~On(u, b)'
                 /\ Pending(u, b)' \/ On(u, b)' => next'[b] # NULL
      BY <2>1, <2>2, <1>a, <1>f DEF Sound, OwnerInv
    <2>5. \A u \in Threads : \A i, j \in 1..Len(retired'[u]) : retired'[u][i] = retired'[u][j] => i = j
      BY <1>a DEF Sound, OwnerInv
    <2> QED BY <2>3, <2>4, <2>5 DEF OwnerInv
  <1>3. ListInv'
    <2> HIDE DEF n
    <2>1. head' = IF chain' = <<>> THEN NULL ELSE chain'[1]
      <3>1. 1 \in 1..n /\ (n # 1 => 1 \in 1..(n - 1) /\ 1 + 1 = 2)
        BY <1>b
      <3>2. next[chain[1]] = IF 1 = n THEN NULL ELSE chain[1 + 1]
        BY <3>1, <1>j
      <3> QED BY <3>1, <3>2, <1>a, <1>b, <1>e
    <2>2. ASSUME NEW i \in 1..(n - 1)
          PROVE  next'[chain'[i]] = IF i = n - 1 THEN NULL ELSE chain'[i + 1]
      <3>1. i + 1 \in 1..n /\ (i + 1 = n <=> i = n - 1) /\ (i # n - 1 => i + 1 \in 1..(n - 1))
        BY <1>b
      <3>2. chain'[i] = chain[i + 1]
        BY <1>e
      <3>3. next[chain[i + 1]] = IF i + 1 = n THEN NULL ELSE chain[(i + 1) + 1]
        BY <1>j, <3>1
      <3>4. i # n - 1 => chain'[i + 1] = chain[(i + 1) + 1]
        BY <3>1, <1>e
      <3> QED BY <3>1, <3>2, <3>3, <3>4, <1>a
    <2>3. ASSUME NEW i \in 1..(n - 1), NEW j \in 1..(n - 1), chain'[i] = chain'[j]
          PROVE  i = j
      <3>1. i + 1 \in 1..n /\ j + 1 \in 1..n /\ (i + 1 = j + 1 => i = j)
        BY <1>b
      <3>2. chain[i + 1] = chain[j + 1]
        BY <1>e, <2>3
      <3> QED BY <3>1, <3>2, <1>j
    <2>4. phase' # "open" /\ Len(chain') = n - 1
      BY <1>a, <1>e
    <2> QED BY ONLY <2>1, <2>2, <2>3, <2>4 DEF ListInv
  <1>4. PhaseInv'
    BY <1>0, <1>a DEF PhaseInv
  <1>5. ScanInv'
    BY <1>a DEF Sound, ScanInv, Scanning, NoScan
  <1>6. \A t \in Threads : ThreadInv(t)'
    BY <1>0, <1>a, Unfreed, IdleThread DEF LateEnd, LateOther
  <1> QED BY <1>1, <1>2, <1>3, <1>4, <1>5, <1>6 DEF Sound

(* What is left when the list is empty is on the retired lists. *)
LEMMA DeleteFinishInv ==
  ASSUME Sound, DeleteFinish
  PROVE  Sound'
  <1>a. /\ phase = "deleting" /\ head = NULL /\ phase' = "deleted"
        /\ live' = live \ UNION {RetiredBy(t) : t \in Threads}
        /\ retired' = [t \in Threads |-> <<>>]
        /\ UNCHANGED <<pointer, scan, head, tail, next, item, pc, my, chain>>
        /\ UNCHANGED <<endFreed, otherFreed, spoilt>>
    BY DEF DeleteFinish, Finalize, nodes, history
  <1>0. TypeOK /\ \A t \in Threads : pc[t] = "idle" /\ pc'[t] = "idle"
    BY <1>a DEF Sound, PhaseInv
  <1>b. chain = <<>>
    <2>1. chain # <<>> => head = chain[1] /\ 1 \in 1..Len(chain)
      BY ChainFacts DEF Sound, ListInv
    <2>2. chain # <<>> => head \in Addr
      BY <2>1, ChainFacts
    <2> QED BY <2>2, <1>a
  <1>c. \A a \in Addr : ~InChain(a) /\ \A t \in Threads : ~Fresh(t, a) /\ ~Pending(t, a)
    BY <1>0, <1>b DEF InChain, Fresh, Pending, Pushing
  <1>d. live' = {}
    <2> SUFFICES ASSUME NEW a \in live PROVE a \in UNION {RetiredBy(t) : t \in Threads}
      BY <1>a
    <2>1. a \in Addr
      BY <1>0 DEF TypeOK, HazardTypeOK
    <2>2. PICK t \in Threads : On(t, a)
      BY <2>1, <1>c DEF Sound, OwnerInv, Owns
    <2>3. a \in RetiredBy(t)
      BY <2>2, <1>0, MyType DEF On, RetiredBy
    <2> QED BY <2>3
  <1>e. \A a \in Addr, t \in Threads : ~InChain(a)' /\ ~Fresh(t, a)' /\ ~Pending(t, a)' /\ ~On(t, a)'
    BY <1>0, <1>a, <1>b DEF InChain, Fresh, Pending, On, Pushing
  <1>1. TypeOK'
    BY <1>a, <1>d, <1>0 DEF TypeOK, HazardTypeOK
  <1>2. OwnerInv'
    BY <1>a, <1>c, <1>d, <1>e, <1>b DEF OwnerInv, Owns, InChain
  <1>3. ListInv' /\ PhaseInv'
    BY <1>0, <1>a, <1>b, <1>d DEF Sound, ListInv, PhaseInv
  <1>4. ScanInv'
    <2>1. \A t \in Threads : scan[t] = NoScan
      BY <1>0 DEF Sound, ScanInv
    <2>2. NoScan.at <= Len(<<>>)
      BY DEF NoScan
    <2> QED BY <2>1, <2>2, <1>a DEF ScanInv
  <1>5. \A t \in Threads : ThreadInv(t)'
    BY <1>0, <1>a, Unfreed, IdleThread DEF LateEnd, LateOther
  <1> QED BY <1>1, <1>2, <1>3, <1>4, <1>5 DEF Sound

LEMMA NewInv ==
  ASSUME Sound, New
  PROVE  Sound'
  <1>0. /\ TypeOK /\ phase = "deleted" /\ phase' = "open" /\ live = {}
        /\ \A t \in Threads : pc[t] = "idle" /\ pc'[t] = "idle"
        /\ UNCHANGED <<pointer, retired, scan, pc, my>>
        /\ UNCHANGED <<endFreed, otherFreed, spoilt>>
    BY DEF Sound, PhaseInv, New, history
  <1>1. PICK a \in Addr : /\ head' = a /\ tail' = a /\ live' = {a} /\ chain' = <<a>>
                          /\ next' = [b \in Addr |-> NULL]
                          /\ item' = [b \in Addr |-> EMPTY_VALUE]
    BY <1>0 DEF New
  <1>a. \A t \in Threads, b \in Addr : ~On(t, b)
    BY <1>0 DEF Sound, OwnerInv, Owns
  <1>b. \A t \in Threads, b \in Addr : ~Fresh(t, b)' /\ ~Pending(t, b)' /\ ~On(t, b)'
    BY <1>0, <1>a DEF Fresh, Pending, On, Pushing
  <1>c. \A b : InChain(b)' <=> b = a
    BY <1>1 DEF InChain
  <1>2. TypeOK'
    BY <1>0, <1>1 DEF TypeOK, HazardTypeOK, Node, Item
  <1>3. OwnerInv'
    <2>1. \A t \in Threads, b \in Addr : ~Owns(t, b)'
      BY <1>b DEF Owns
    <2>2. \A t \in Threads : \A i, j \in 1..Len(retired'[t]) : retired'[t][i] = retired'[t][j] => i = j
      BY <1>0 DEF Sound, OwnerInv
    <2> QED BY <2>1, <2>2, <1>b, <1>c, <1>1 DEF OwnerInv
  <1>4. ListInv' /\ PhaseInv'
    BY <1>0, <1>1 DEF ListInv, PhaseInv
  <1>5. ScanInv'
    BY <1>0 DEF Sound, ScanInv, Scanning, NoScan
  <1>6. \A t \in Threads : ThreadInv(t)'
    BY <1>0, Unfreed, IdleThread DEF LateEnd, LateOther
  <1> QED BY <1>2, <1>3, <1>4, <1>5, <1>6 DEF Sound

LEMMA StutterTypes == TypeOK /\ UNCHANGED vars => TypeOK'
  BY DEF TypeOK, HazardTypeOK, vars, hazardVars, nodes, history

LEMMA StutterInv == Sound /\ UNCHANGED vars => Sound'
  <1> SUFFICES ASSUME Sound, UNCHANGED vars PROVE Sound'
    OBVIOUS
  <1> USE DEF vars, hazardVars, nodes, history
  <1>1. TypeOK'
    BY DEF Sound, TypeOK, HazardTypeOK
  <1>2. OwnerInv'
    <2>1. \A u \in Threads, b \in Addr : /\ Fresh(u, b)' <=> Fresh(u, b)
                                         /\ Pending(u, b)' <=> Pending(u, b)
                                         /\ On(u, b)' <=> On(u, b)
      BY DEF Fresh, Pending, On
    <2>2. \A b \in Addr : InChain(b)' <=> InChain(b)
      BY DEF InChain
    <2>3. \A u \in Threads, b \in Addr : Owns(u, b)' <=> Owns(u, b)
      BY <2>1 DEF Owns
    <2> QED BY <2>1, <2>2, <2>3 DEF Sound, OwnerInv
  <1>3. ListInv' /\ PhaseInv'
    BY DEF Sound, ListInv, PhaseInv
  <1>4. ScanInv'
    BY DEF Sound, ScanInv, Scanning, NoScan
  <1>5. ASSUME NEW t \in Threads PROVE ThreadInv(t)'
    <2>1. ThreadInv(t)
      BY DEF Sound
    <2> QED BY <2>1 DEF ThreadInv, NodeInv, PlaceInv, HeldInv, ShieldInv, PastTail, InChain, Shields,
                        Unprotected, LateEnd, LateOther, Fresh, Scanning, Suspect
  <1> QED BY <1>1, <1>2, <1>3, <1>4, <1>5 DEF Sound

LEMMA StepInv ==
  ASSUME Sound, NEW t \in Threads, Invoke(t) \/ Step(t), ~spoilt'
  PROVE  Sound'
  <1>1. CASE Invoke(t)
    BY <1>1, CallPopInv, CallIsEmptyInv, CallPushInv DEF Invoke
  <1>2. CASE PushProtect(t) \/ PopProtect(t)
    BY <1>2, PushLoadInv, PushPublishInv, PushValidateInv, PopLoadInv, PopPublishInv, PopValidateInv
    DEF PushProtect, PopProtect
  <1>3. CASE PushLink(t) \/ PopSwing(t)
    BY <1>3, PushLinkInv, PushLinkFailsInv, PopSwingInv, PopSwingFailsInv
  <1>4. CASE PopScan(t)
    BY <1>4, ScanReadInv, ScanFreeInv DEF PopScan, history
  <1>5. CASE PushNext(t) \/ PushCheck(t) \/ PushHelp(t) \/ PushSwing(t) \/ PushClear(t)
    BY <1>5, PushNextInv, PushCheckInv, PushHelpInv, PushSwingInv, PushClearInv
  <1>6. CASE PopTail(t) \/ PopNext(t) \/ PopCheck(t) \/ PopHelp(t) \/ PopProtectNext(t) \/ PopHead(t)
    BY <1>6, PopTailInv, PopNextInv, PopCheckInv, PopHelpInv, PopProtectNextInv, PopHeadInv
  <1>7. CASE PopReread(t) \/ PopClear(t) \/ PopItem(t) \/ PopRetire(t) \/ PopScanDone(t)
    BY <1>7, PopRereadInv, PopClearInv, PopItemInv, PopRetireInv, PopScanDoneInv
  <1>8. CASE IsEmptyHead(t) \/ IsEmptyNext(t) \/ Return(t)
    BY <1>8, IsEmptyHeadInv, IsEmptyNextInv, PushReturnInv, PopReturnInv, IsEmptyReturnInv DEF Return
  <1> QED BY <1>1, <1>2, <1>3, <1>4, <1>5, <1>6, <1>7, <1>8 DEF Step

(* Only three steps spoil the queue: the loads of l.124 and l.143 and the   *)
(* exchange of l.129.                                                       *)
LEMMA Spoiling ==
  ASSUME ~spoilt, NEW t \in Threads, Invoke(t) \/ Step(t), spoilt'
  PROVE  \/ (PopReread(t) \/ IsEmptyNext(t)) /\ t \in otherFreed
         \/ PopSwing(t) /\ head = my[t].end /\ t \in endFreed
  <1> USE DEF queueKept, history
  <1>1. CASE Invoke(t)
    BY <1>1 DEF Invoke, CallPush, CallPop, CallIsEmpty
  <1>2. CASE PushProtect(t) \/ PopProtect(t)
    BY <1>2 DEF PushProtect, PopProtect, ProtectLoad, ProtectPublish, ProtectValidate
  <1>3. CASE PushLink(t) \/ PushNext(t) \/ PushCheck(t) \/ PushHelp(t) \/ PushSwing(t) \/ PushClear(t)
    BY <1>3 DEF PushLink, PushNext, PushCheck, PushHelp, PushSwing, PushClear
  <1>4. CASE PopTail(t) \/ PopNext(t) \/ PopCheck(t) \/ PopHelp(t) \/ PopProtectNext(t) \/ PopHead(t)
    BY <1>4 DEF PopTail, PopNext, PopCheck, PopHelp, PopProtectNext, PopHead
  <1>5. CASE PopClear(t) \/ PopItem(t) \/ PopRetire(t) \/ PopScan(t) \/ PopScanDone(t) \/ IsEmptyHead(t)
    BY <1>5 DEF PopClear, PopItem, PopRetire, PopScan, PopScanDone, IsEmptyHead
  <1>6. CASE Return(t)
    BY <1>6 DEF Return, PushReturn, PopReturn, IsEmptyReturn
  <1>7. CASE PopSwing(t) \/ PopReread(t) \/ IsEmptyNext(t)
    BY <1>7 DEF PopSwing, PopReread, IsEmptyNext, UsesOther
  <1> QED BY <1>1, <1>2, <1>3, <1>4, <1>5, <1>6, <1>7 DEF Step

LEMMA SpoilingTypes ==
  ASSUME Sound, NEW t \in Threads, PopReread(t) \/ IsEmptyNext(t) \/ PopSwing(t)
  PROVE  TypeOK'
  <1>0. /\ TypeOK /\ my[t] \in Mine /\ my[t].next \in Node
        /\ pc[t] # "idle" /\ chain \in Seq(Addr) /\ chain # <<>>
    BY MyType, ChainFacts DEF Sound, PopReread, IsEmptyNext, PopSwing, From
  <1>1. /\ UNCHANGED <<pointer, retired, scan, live, tail, next, item, phase>>
        /\ endFreed' \subseteq endFreed /\ otherFreed' \subseteq otherFreed
    BY DEF PopReread, IsEmptyNext, PopSwing, UsesOther, hazardKept, hazardVars, listKept, nodes
  <1>2. pc' \in [Threads -> Places]
    <2>1. PICK there \in {"pop_item", "pop_clear", "was_empty", "was_not_empty", "pop_retire", "pop_load"} :
            pc' = [pc EXCEPT ![t] = there]
      BY DEF PopReread, IsEmptyNext, PopSwing, From
    <2> QED BY <2>1, <1>0 DEF TypeOK, Places
  <1>3. my' \in [Threads -> Mine]
    <2>1. PICK m \in Mine : my' = [my EXCEPT ![t] = m]
      <3>1. CASE Forget(t)
        BY <3>1, BlankType DEF Forget
      <3>2. CASE my' = [my EXCEPT ![t].other = NULL]
        BY <3>2, <1>0, FieldTypes, BlankType
      <3>3. CASE my' = [my EXCEPT ![t].next = NULL]
        BY <3>3, <1>0, FieldTypes, BlankType
      <3> QED BY <3>1, <3>2, <3>3 DEF PopReread, IsEmptyNext, PopSwing
    <2> QED BY <2>1, <1>0 DEF TypeOK, Mine
  <1>4. head' \in Node /\ chain' \in Seq(Addr)
    <2>1. Tail(chain) \in Seq(Addr)
      BY <1>0, TailPositions
    <2>2. CASE PopSwing(t)
      BY <1>0, <2>1, <2>2 DEF PopSwing, TypeOK
    <2>3. CASE UNCHANGED <<head, chain>>
      BY <1>0, <2>3 DEF TypeOK
    <2> QED BY <2>2, <2>3 DEF PopReread, IsEmptyNext, listKept
  <1>5. spoilt' \in BOOLEAN
    <2>1. spoilt' = spoilt \/ spoilt' = (t \in endFreed) \/ spoilt' = (t \in otherFreed)
      BY DEF PopReread, IsEmptyNext, PopSwing, UsesOther
    <2>2. spoilt \in BOOLEAN
      BY <1>0 DEF TypeOK
    <2>3. (t \in endFreed) \in BOOLEAN /\ (t \in otherFreed) \in BOOLEAN
      OBVIOUS
    <2> QED BY <2>1, <2>2, <2>3
  <1> QED BY <1>0, <1>1, <1>2, <1>3, <1>4, <1>5 DEF TypeOK, HazardTypeOK, Mine

LEMMA NextInv == LLInv /\ [Next]_vars => LLInv'
  <1> SUFFICES ASSUME LLInv, [Next]_vars PROVE LLInv'
    OBVIOUS
  <1>1. CASE UNCHANGED vars
    BY <1>1, StutterInv, StutterTypes DEF LLInv, vars, history
  <1>2. CASE ~spoilt /\ ~spoilt' /\ ~UNCHANGED vars
    <2>1. Sound
      BY <1>2 DEF LLInv
    <2>2. Sound'
      BY <1>2, <2>1, StepInv, DeleteStartInv, DeleteNodeInv, DeleteFinishInv, NewInv DEF Next
    <2> QED BY <1>2, <2>2 DEF LLInv, Sound
  <1>3. CASE ~spoilt /\ spoilt' /\ ~UNCHANGED vars
    <2>1. Sound
      BY <1>3 DEF LLInv
    <2>2. PICK t \in Threads : Invoke(t) \/ Step(t)
      BY <1>3 DEF Next, DeleteStart, DeleteNode, DeleteFinish, New, history
    <2>3. TypeOK'
      BY <1>3, <2>1, <2>2, Spoiling, SpoilingTypes
    <2> QED BY <1>3, <2>3 DEF LLInv
  <1> QED BY <1>1, <1>2, <1>3 DEF Next

(* The invariant of the lock-free list holds in every state a queue reaches *)
(* before it is spoilt: in particular every node has one owner (it is freed *)
(* once), and what a thread's hazard pointer keeps is not freed.            *)
THEOREM Invariance == Spec => []LLInv
  <1>1. Init => LLInv
    BY InitInv DEF LLInv, Sound
  <1>2. LLInv /\ [Next]_vars => LLInv'
    BY NextInv
  <1> QED BY <1>1, <1>2, PTL DEF Spec

LEMMA SafeState == LLInv => MemorySafe
  <1> SUFFICES ASSUME Sound PROVE NoUseAfterFree /\ NoLeak
    BY DEF LLInv, MemorySafe
  <1>1. ASSUME NEW t \in Threads
        PROVE  Accessed(t) \subseteq live \/ (pc[t] \in LateOther /\ t \in otherFreed)
    <2>1. \A a \in Node : Shields(t, a) \/ a \in Unprotected(t) => a \in live
      BY DEF Sound, ThreadInv, HeldInv
    <2>2. my[t].end \in Node /\ my[t].next \in Node /\ my[t].other \in Node
      BY MyType DEF Sound
    <2>3. CASE pc[t] \in {"push_next", "push_link", "pop_next"}
      <3>1. Shields(t, my[t].end)
        BY <2>3 DEF Shields, PushEnd, PopEnd
      <3>2. Accessed(t) = {my[t].end}
        BY <2>3 DEF Accessed, LateOther
      <3> QED BY <3>1, <3>2, <2>1, <2>2
    <2>4. CASE pc[t] = "pop_item"
      <3>1. Shields(t, my[t].next)
        BY <2>4 DEF Shields
      <3>2. Accessed(t) = {my[t].next}
        BY <2>4 DEF Accessed, LateOther
      <3> QED BY <3>1, <3>2, <2>1, <2>2
    <2>5. CASE pc[t] \in LateOther /\ t \notin otherFreed
      <3>1. my[t].other \in Unprotected(t)
        BY <2>5 DEF Unprotected
      <3>2. Accessed(t) = {my[t].other}
        BY <2>5 DEF Accessed, LateOther
      <3> QED BY <3>1, <3>2, <2>1, <2>2
    <2>6. CASE pc[t] \notin {"push_next", "push_link", "pop_next", "pop_item"} \cup LateOther
      BY <2>6 DEF Accessed
    <2> QED BY <2>3, <2>4, <2>5, <2>6
  <1>2. NoLeak
    BY DEF Sound, PhaseInv, NoLeak
  <1> QED BY <1>1, <1>2 DEF NoUseAfterFree

(* No thread is about to read or write a freed node but by the loads of     *)
(* l.124 and l.143, and LLQueue_delete leaves no node behind.               *)
THEOREM MemoryIsSafe == Spec => []MemorySafe
  <1>1. Spec => []LLInv
    BY Invariance
  <1> QED BY <1>1, SafeState, PTL

-----------------------------------------------------------------------------
(* The refinement: what each step of LLQueue is to FifoQueue.              *)

USE DEF Fifo!Call, Fifo!Become, Fifo!Answers

LEMMA CallAtValues ==
  /\ CallAt("idle") = "idle"
  /\ \A place \in Pushing : CallAt(place) = "push"
  /\ \A place \in {"push_swing", "pushed"} : CallAt(place) = "pushed"
  /\ \A place \in {"pop_load", "pop_publish", "pop_validate", "pop_tail", "pop_next",
                   "pop_check", "pop_help", "pop_protect", "pop_head", "pop_reread",
                   "pop_clear", "pop_item", "pop_swing"} : CallAt(place) = "pop"
  /\ \A place \in {"pop_retire", "pop_scan", "popped"} : CallAt(place) = "popped"
  /\ \A place \in {"empty_head", "empty_next"} : CallAt(place) = "is_empty"
  /\ CallAt("was_empty") = "empty" /\ CallAt("was_not_empty") = "not_empty"
  BY DEF CallAt, Pushing

(* A step of one thread changes the operation of that thread only.         *)
LEMMA OpMoves ==
  ASSUME TypeOK, NEW t \in Threads, NEW there,
         pc' = [pc EXCEPT ![t] = there],
         \A u \in Threads \ {t} : my'[u] = my[u]
  PROVE  abstractOp' = [abstractOp EXCEPT ![t] = Fifo!Call(CallAt(there), ItemOf(t)')]
  <1>1. \A u \in Threads \ {t} : pc'[u] = pc[u] /\ ItemOf(u)' = ItemOf(u)
    BY DEF TypeOK, ItemOf
  <1>2. pc'[t] = there
    BY DEF TypeOK
  <1> QED BY <1>1, <1>2 DEF abstractOp

(* A move between two places of the same call is nothing to FifoQueue.     *)
LEMMA OpStays ==
  ASSUME TypeOK, NEW t \in Threads, NEW there,
         pc' = [pc EXCEPT ![t] = there],
         \A u \in Threads \ {t} : my'[u] = my[u],
         CallAt(there) = CallAt(pc[t]), ItemOf(t)' = ItemOf(t)
  PROVE  abstractOp' = abstractOp
  <1>1. abstractOp' = [abstractOp EXCEPT ![t] = Fifo!Call(CallAt(there), ItemOf(t)')]
    BY OpMoves
  <1>2. abstractOp[t] = Fifo!Call(CallAt(pc[t]), ItemOf(t))
    BY DEF abstractOp
  <1> QED BY <1>1, <1>2 DEF abstractOp

LEMMA SeenIs ==
  ASSUME NEW t \in Threads
  PROVE  /\ TRUE \in abstractSeen[t] <=> SawEmpty(t)
         /\ FALSE \in abstractSeen[t] <=> SawMore(t)
         /\ abstractSeen[t] \subseteq BOOLEAN
  BY DEF abstractSeen

LEMMA SeenIsNext ==
  ASSUME NEW t \in Threads
  PROVE  /\ TRUE \in abstractSeen'[t] <=> SawEmpty(t)'
         /\ FALSE \in abstractSeen'[t] <=> SawMore(t)'
         /\ abstractSeen'[t] \subseteq BOOLEAN
  BY DEF abstractSeen

LEMMA AmongAnswers ==
  ASSUME NEW A \in SUBSET BOOLEAN, NEW S, NEW a \in BOOLEAN, NEW b \in BOOLEAN,
         TRUE \in A => TRUE \in S \/ a \/ b,
         FALSE \in A => FALSE \in S \/ ~a \/ ~b
  PROVE  A \subseteq S \cup {b, a}
  <1> SUFFICES ASSUME NEW x \in A PROVE x \in S \/ x = a \/ x = b
    OBVIOUS
  <1> QED OBVIOUS

(* Whoever now remembers something remembered it or sees it.               *)
LEMMA Watching ==
  ASSUME \A u \in Threads : SawEmpty(u)' =>
           SawEmpty(u) \/ abstractItems = <<>> \/ abstractItems' = <<>>,
         \A u \in Threads : SawMore(u)' =>
           SawMore(u) \/ abstractItems # <<>> \/ abstractItems' # <<>>
  PROVE  Fifo!Watch
  <1>1. abstractSeen' \in [Threads -> SUBSET BOOLEAN]
    BY DEF abstractSeen
  <1>2. ASSUME NEW u \in Threads, SawEmpty(u)' \/ SawMore(u)'
        PROVE  abstractOp'[u].call \in {"pop", "is_empty"}
    <2>1. abstractOp'[u].call = CallAt(pc'[u])
      BY DEF abstractOp
    <2> QED BY <1>2, <2>1, CallAtValues DEF SawEmpty, SawMore
  <1>3. ASSUME NEW u \in Threads
        PROVE  abstractSeen'[u] \subseteq
                 IF abstractOp'[u].call \in {"pop", "is_empty"}
                 THEN abstractSeen[u] \cup {abstractItems' = <<>>, abstractItems = <<>>}
                 ELSE {}
    <2> DEFINE now == (abstractItems' = <<>>)
               before == (abstractItems = <<>>)
    <2>1. abstractSeen'[u] \subseteq abstractSeen[u] \cup {now, before}
      <3>1. TRUE \in abstractSeen'[u] => TRUE \in abstractSeen[u] \/ before \/ now
        BY SeenIs, SeenIsNext
      <3>2. FALSE \in abstractSeen'[u] => FALSE \in abstractSeen[u] \/ ~before \/ ~now
        BY SeenIs, SeenIsNext
      <3>3. abstractSeen'[u] \in SUBSET BOOLEAN /\ now \in BOOLEAN /\ before \in BOOLEAN
        BY SeenIsNext
      <3> HIDE DEF now, before
      <3> QED BY ONLY <3>1, <3>2, <3>3, AmongAnswers
    <2>2. ~SawEmpty(u)' /\ ~SawMore(u)' => abstractSeen'[u] = {}
      BY SeenIsNext
    <2> QED BY <2>1, <2>2, <1>2
  <1> QED BY <1>1, <1>3 DEF Fifo!Watch

(* A step that leaves the head and the links alone changes what nobody else *)
(* has seen.                                                                *)
LEMMA WatchingAside ==
  ASSUME TypeOK, NEW t \in Threads, NEW there,
         pc' = [pc EXCEPT ![t] = there],
         \A u \in Threads \ {t} : my'[u] = my[u],
         head' = head, next' = next, otherFreed' \subseteq otherFreed,
         SawEmpty(t)' => abstractItems = <<>>,
         SawMore(t)' => abstractItems # <<>>
  PROVE  Fifo!Watch
  <1>1. ASSUME NEW u \in Threads \ {t}
        PROVE  (SawEmpty(u)' => SawEmpty(u)) /\ (SawMore(u)' => SawMore(u))
    BY DEF TypeOK, SawEmpty, SawMore
  <1> QED BY <1>1, Watching

-----------------------------------------------------------------------------
(* The contents of the queue. *)

LEMMA Contents ==
  ASSUME Sound, phase = "open"
  PROVE  /\ abstractItems \in Seq(Item)
         /\ Len(chain) \in Nat \ {0}
         /\ Len(abstractItems) = Len(chain) - 1
         /\ \A i \in 1..(Len(chain) - 1) : abstractItems[i] = item[chain[i + 1]]
         /\ abstractItems = <<>> <=> Len(chain) = 1
  <1> DEFINE n == Len(chain) - 1
  <1>1. Len(chain) \in Nat \ {0} /\ \A i \in 1..Len(chain) : chain[i] \in Addr
    BY ChainFacts
  <1>2. n \in Nat /\ \A i \in 1..n : i + 1 \in 1..Len(chain)
    BY <1>1
  <1>3. \A i \in 1..n : item[chain[i + 1]] \in Item
    BY <1>1, <1>2 DEF Sound, TypeOK
  <1>4. abstractItems = [i \in 1..n |-> item[chain[i + 1]]]
    BY DEF abstractItems
  <1>5. abstractItems \in Seq(Item) /\ Len(abstractItems) = n
    <2> HIDE DEF n
    <2> QED BY <1>2, <1>3, <1>4, IsASeq
  <1>6. abstractItems = <<>> <=> Len(abstractItems) = 0
    BY <1>5, EmptySeq
  <1> QED BY <1>1, <1>4, <1>5, <1>6

LEMMA ContentsNext ==
  ASSUME Sound', phase' = "open"
  PROVE  /\ abstractItems' \in Seq(Item)
         /\ Len(chain') \in Nat \ {0}
         /\ Len(abstractItems') = Len(chain') - 1
         /\ \A i \in 1..(Len(chain') - 1) : abstractItems'[i] = item'[chain'[i + 1]]
         /\ abstractItems' = <<>> <=> Len(chain') = 1
  <1> DEFINE n == Len(chain') - 1
  <1>1. Len(chain') \in Nat \ {0} /\ \A i \in 1..Len(chain') : chain'[i] \in Addr
    <2>1. chain' \in Seq(Addr) /\ item' \in [Addr -> Item]
      BY DEF Sound, TypeOK
    <2>2. \E i \in 1..Len(chain') : TRUE
      BY DEF Sound, ListInv
    <2> QED BY <2>1, <2>2, LenProperties, ElementOfSeq
  <1>2. n \in Nat /\ \A i \in 1..n : i + 1 \in 1..Len(chain')
    BY <1>1
  <1>3. \A i \in 1..n : item'[chain'[i + 1]] \in Item
    BY <1>1, <1>2 DEF Sound, TypeOK
  <1>4. abstractItems' = [i \in 1..n |-> item'[chain'[i + 1]]]
    BY DEF abstractItems
  <1>5. abstractItems' \in Seq(Item) /\ Len(abstractItems') = n
    <2> HIDE DEF n
    <2> QED BY <1>2, <1>3, <1>4, IsASeq
  <1>6. abstractItems' = <<>> <=> Len(abstractItems') = 0
    BY <1>5, EmptySeq
  <1> QED BY <1>1, <1>4, <1>5, <1>6

LEMMA ChainStays ==
  ASSUME UNCHANGED <<chain, item, phase>>
  PROVE  abstractItems' = abstractItems
  BY DEF abstractItems

(* The queue is empty exactly when the head has no next node.              *)
LEMMA EmptyQueue ==
  ASSUME Sound, phase = "open"
  PROVE  abstractItems = <<>> <=> next[head] = NULL
  BY Contents, NextOfHead

-----------------------------------------------------------------------------
(* Steps that are nothing to FifoQueue but to look at the queue.           *)

LEMMA LookRefines ==
  ASSUME Sound, NEW t \in Threads, NEW there,
         pc' = [pc EXCEPT ![t] = there], CallAt(there) = CallAt(pc[t]),
         \A u \in Threads \ {t} : my'[u] = my[u],
         ItemOf(t)' = ItemOf(t),
         UNCHANGED <<head, next, item, phase, chain>>,
         otherFreed' \subseteq otherFreed,
         SawEmpty(t)' => abstractItems = <<>>,
         SawMore(t)' => abstractItems # <<>>
  PROVE  Fifo!FifoNext
  <1>1. Fifo!Watch
    BY WatchingAside DEF Sound
  <1>2. abstractItems' = abstractItems /\ abstractOp' = abstractOp
    BY ChainStays, OpStays DEF Sound
  <1> QED BY <1>1, <1>2 DEF Fifo!FifoNext, Fifo!Look

LEMMA QuietRefines ==
  ASSUME Sound, NEW t \in Threads, NEW there \in Places \ {"pop_check", "empty_next"},
         pc' = [pc EXCEPT ![t] = there], CallAt(there) = CallAt(pc[t]),
         \A u \in Threads \ {t} : my'[u] = my[u],
         CallAt(there) \in {"push", "popped"} => my'[t].item = my[t].item,
         UNCHANGED <<head, next, item, phase, chain>>, otherFreed' \subseteq otherFreed
  PROVE  Fifo!FifoNext
  <1>1. pc'[t] = there
    BY DEF Sound, TypeOK
  <1>2. ItemOf(t)' = ItemOf(t)
    BY <1>1 DEF ItemOf
  <1>3. ~SawEmpty(t)' /\ ~SawMore(t)'
    BY <1>1 DEF SawEmpty, SawMore
  <1> QED BY <1>2, <1>3, LookRefines

LEMMA PushQuietRefines ==
  ASSUME Sound, NEW t \in Threads,
         PushProtect(t) \/ PushNext(t) \/ PushCheck(t) \/ PushHelp(t) \/ PushClear(t)
  PROVE  Fifo!FifoNext
  <1>1. PICK there \in Pushing :
          /\ pc[t] \in Pushing /\ pc' = [pc EXCEPT ![t] = there]
          /\ UNCHANGED <<head, next, item, phase, chain>>
          /\ otherFreed' \subseteq otherFreed
    BY DEF PushProtect, PushNext, PushCheck, PushHelp, PushClear, ProtectLoad, ProtectPublish,
       ProtectValidate, From, queueKept, listKept, nodes, history, Pushing
  <1>2. /\ \A u \in Threads \ {t} : my'[u] = my[u]
        /\ my'[t].item = my[t].item
    <2>1. CASE PushProtect(t)
      BY <2>1 DEF PushProtect, ProtectLoad, ProtectPublish, ProtectValidate, Sound, TypeOK
    <2>2. CASE PushNext(t)
      BY <2>2 DEF PushNext, Sound, TypeOK
    <2>3. CASE PushCheck(t) \/ PushHelp(t)
      BY <2>3 DEF PushCheck, PushHelp
    <2>4. CASE PushClear(t)
      BY <2>4 DEF PushClear, Again, Blank, Sound, TypeOK
    <2> QED BY <2>1, <2>2, <2>3, <2>4
  <1>3. CallAt(there) = CallAt(pc[t]) /\ there \in Places \ {"pop_check", "empty_next"}
    BY <1>1, CallAtValues DEF Pushing, Places
  <1> QED BY <1>1, <1>2, <1>3, QuietRefines

LEMMA PopQuietRefines ==
  ASSUME Sound, NEW t \in Threads,
         PopProtect(t) \/ PopTail(t) \/ PopHelp(t) \/ PopProtectNext(t) \/ PopHead(t)
         \/ PopReread(t) \/ PopClear(t) \/ PopItem(t)
  PROVE  Fifo!FifoNext
  <1>1. PICK there \in {"pop_load", "pop_publish", "pop_validate", "pop_tail", "pop_next",
                        "pop_head", "pop_reread", "pop_clear", "pop_item", "pop_swing"} :
          /\ pc[t] \in {"pop_load", "pop_publish", "pop_validate", "pop_tail", "pop_help",
                        "pop_protect", "pop_head", "pop_reread", "pop_clear", "pop_item"}
          /\ pc' = [pc EXCEPT ![t] = there]
          /\ UNCHANGED <<head, next, item, phase, chain>>
          /\ otherFreed' \subseteq otherFreed
    BY DEF PopProtect, PopTail, PopHelp, PopProtectNext, PopHead, PopReread, PopClear, PopItem,
       ProtectLoad, ProtectPublish, ProtectValidate, From, queueKept, listKept, nodes, history, UsesOther
  <1>2. \A u \in Threads \ {t} : my'[u] = my[u]
    BY DEF PopProtect, PopTail, PopHelp, PopProtectNext, PopHead, PopReread, PopClear, PopItem,
       ProtectLoad, ProtectPublish, ProtectValidate, Forget, Sound, TypeOK
  <1>3. CallAt(there) = "pop" /\ CallAt(pc[t]) = "pop" /\ there \in Places \ {"pop_check", "empty_next"}
    BY <1>1, CallAtValues DEF Places
  <1> QED BY <1>1, <1>2, <1>3, QuietRefines

(* A push whose exchange has succeeded, and a pop after its own.           *)
LEMMA AfterwardsRefines ==
  ASSUME Sound, NEW t \in Threads, PushSwing(t) \/ PopRetire(t) \/ PopScanDone(t)
  PROVE  Fifo!FifoNext
  <1>1. PICK there \in {"pushed", "pop_scan", "popped"} :
          /\ pc' = [pc EXCEPT ![t] = there] /\ CallAt(there) = CallAt(pc[t])
          /\ UNCHANGED <<head, next, item, phase, chain>>
          /\ otherFreed' \subseteq otherFreed
    BY CallAtValues DEF PushSwing, PopRetire, PopScanDone, From, queueKept, listKept, nodes, history
  <1>2. \A u \in Threads \ {t} : my'[u] = my[u]
    BY DEF PushSwing, PopRetire, PopScanDone, Forget, Sound, TypeOK
  <1>3. CallAt(there) \in {"push", "popped"} => my'[t].item = my[t].item
    <2>1. CASE PushSwing(t)
      BY <2>1, <1>1, CallAtValues DEF PushSwing, From
    <2>2. CASE PopRetire(t)
      BY <2>2 DEF PopRetire, Sound, TypeOK
    <2>3. CASE PopScanDone(t)
      BY <2>3 DEF PopScanDone
    <2> QED BY <2>1, <2>2, <2>3
  <1> QED BY <1>1, <1>2, <1>3, QuietRefines DEF Places

(* A node a scan frees was unlinked, and has a next.                       *)
LEMMA PopScanRefines ==
  ASSUME Sound, NEW t \in Threads, PopScan(t)
  PROVE  Fifo!FifoNext
  <1>1. pc' = [pc EXCEPT ![t] = "pop_scan"] /\ pc[t] = "pop_scan" /\ my' = my /\ pc' = pc
    BY DEF PopScan, Sound, TypeOK
  <1>2. UNCHANGED <<head, next, item, phase, chain>>
    BY DEF PopScan, listKept, nodes
  <1>3. abstractItems' = abstractItems /\ abstractOp' = abstractOp
    BY <1>1, <1>2, ChainStays DEF abstractOp, ItemOf
  <1>4. ASSUME NEW u \in Threads, SawMore(u)' PROVE SawMore(u)
    <2>1. pc[u] = "empty_next" /\ (u \in otherFreed' \/ next[my[u].other] # NULL)
      BY <1>1, <1>2, <1>4 DEF SawMore
    <2>2. CASE u \in otherFreed' /\ u \notin otherFreed
      <3>1. Scanning(t) /\ my[u].other = Suspect(t)
        BY <2>2 DEF PopScan, ScanFree
      <3>2. Suspect(t) \in Addr /\ On(t, Suspect(t))
        BY <3>1, SuspectIsRetired
      <3>3. next[Suspect(t)] # NULL
        BY <3>2 DEF Sound, OwnerInv
      <3> QED BY <2>1, <3>1, <3>3 DEF SawMore
    <2> QED BY <2>1, <2>2 DEF SawMore
  <1>5. Fifo!Watch
    <2>1. \A u \in Threads : SawEmpty(u)' => SawEmpty(u)
      BY <1>1, <1>2 DEF SawEmpty
    <2> QED BY <2>1, <1>4, Watching
  <1> QED BY <1>3, <1>5 DEF Fifo!FifoNext, Fifo!Look

(* A pop that loads NULL from a head that is the tail sees an empty queue  *)
(* (l.110): the other end was loaded before, but a head that is the tail   *)
(* and has no next is the whole list whatever the tail was.                *)
LEMMA PopNextRefines ==
  ASSUME Sound, NEW t \in Threads, PopNext(t)
  PROVE  Fifo!FifoNext
  <1>0. /\ pc[t] = "pop_next" /\ pc' = [pc EXCEPT ![t] = "pop_check"]
        /\ my' = [my EXCEPT ![t].next = next[my[t].end]]
        /\ UNCHANGED <<head, next, item, phase, chain>>
        /\ otherFreed' \subseteq otherFreed
    BY DEF PopNext, From, queueKept, listKept, nodes, history
  <1>1. /\ pc'[t] = "pop_check" /\ my'[t].next = next[my[t].end] /\ my'[t].end = my[t].end
        /\ \A u \in Threads \ {t} : my'[u] = my[u]
    BY <1>0 DEF Sound, TypeOK
  <1>2. ItemOf(t)' = ItemOf(t) /\ ~SawMore(t)'
    BY <1>0, <1>1, CallAtValues DEF ItemOf, SawMore
  <1>3. SawEmpty(t)' => abstractItems = <<>>
    <2>1. phase = "open"
      BY <1>0, ChainFacts
    <2> QED BY <2>1, <1>0, <1>1, EmptyQueue DEF SawEmpty
  <1> QED BY <1>0, <1>1, <1>2, <1>3, CallAtValues, LookRefines

(* is_empty sees that the queue is not empty if its head has a next now.   *)
LEMMA IsEmptyHeadRefines ==
  ASSUME Sound, NEW t \in Threads, IsEmptyHead(t)
  PROVE  Fifo!FifoNext
  <1>0. /\ pc[t] = "empty_head" /\ pc' = [pc EXCEPT ![t] = "empty_next"]
        /\ my' = [my EXCEPT ![t].other = head]
        /\ UNCHANGED <<head, next, item, phase, chain>>
        /\ otherFreed' \subseteq otherFreed
    BY DEF IsEmptyHead, From, queueKept, listKept, nodes, history
  <1>1. /\ pc'[t] = "empty_next" /\ my'[t].other = head
        /\ \A u \in Threads \ {t} : my'[u] = my[u]
    BY <1>0 DEF Sound, TypeOK
  <1>2. ItemOf(t)' = ItemOf(t) /\ ~SawEmpty(t)'
    BY <1>0, <1>1, CallAtValues DEF ItemOf, SawEmpty
  <1>3. SawMore(t)' => abstractItems # <<>>
    <2>1. phase = "open" /\ t \notin otherFreed'
      BY <1>0, ChainFacts, Unfreed DEF LateOther
    <2> QED BY <2>1, <1>0, <1>1, EmptyQueue DEF SawMore
  <1> QED BY <1>0, <1>1, <1>2, <1>3, CallAtValues, LookRefines

(* A pop that compares the head again after it has seen the queue empty    *)
(* answers EMPTY (l.115); any other starts over or goes on.                *)
LEMMA PopCheckRefines ==
  ASSUME Sound, NEW t \in Threads, PopCheck(t)
  PROVE  Fifo!FifoNext
  <1>0. /\ pc[t] = "pop_check"
        /\ UNCHANGED <<head, next, item, phase, chain>>
        /\ otherFreed' \subseteq otherFreed
        /\ \A u \in Threads \ {t} : my'[u] = my[u]
    BY DEF PopCheck, queueKept, listKept, nodes, history, From, Forget, Sound, TypeOK
  <1>1. CASE SawEmpty(t) /\ From(t, "pop_check", "popped") /\ Forget(t)
    <2>1. pc' = [pc EXCEPT ![t] = "popped"] /\ pc'[t] = "popped" /\ my'[t] = Blank
      BY <1>1 DEF From, Forget, Sound, TypeOK
    <2>2. ItemOf(t)' = EMPTY_VALUE /\ ~SawEmpty(t)' /\ ~SawMore(t)'
      BY <2>1, CallAtValues DEF ItemOf, SawEmpty, SawMore, Blank
    <2>3. Fifo!Watch
      BY <1>0, <2>1, <2>2, WatchingAside DEF Sound
    <2>4. abstractOp' = [abstractOp EXCEPT ![t] = Fifo!Call("popped", EMPTY_VALUE)]
      <3>1. abstractOp' = [abstractOp EXCEPT ![t] = Fifo!Call(CallAt("popped"), ItemOf(t)')]
        BY <1>0, <2>1, OpMoves DEF Sound
      <3> QED BY <3>1, <2>2, CallAtValues
    <2>5. abstractOp[t].call = "pop" /\ abstractItems' = abstractItems /\ TRUE \in abstractSeen[t]
      BY <1>0, <1>1, CallAtValues, ChainStays, SeenIs DEF abstractOp
    <2> QED BY <2>3, <2>4, <2>5 DEF Fifo!FifoNext, Fifo!PopEmpty, Fifo!WasTrue
  <1>2. CASE \E there \in {"pop_help", "pop_protect", "pop_load"} : pc' = [pc EXCEPT ![t] = there]
    <2>1. PICK there \in {"pop_help", "pop_protect", "pop_load"} : pc' = [pc EXCEPT ![t] = there]
      BY <1>2
    <2>2. CallAt(there) = "pop" /\ CallAt(pc[t]) = "pop" /\ there \in Places \ {"pop_check", "empty_next"}
      BY <1>0, CallAtValues DEF Places
    <2> QED BY <1>0, <2>1, <2>2, QuietRefines
  <1> QED BY <1>1, <1>2 DEF PopCheck, SawEmpty, From

(* push takes effect when it links its node (l.83).                        *)
LEMMA PushLinkRefines ==
  ASSUME Sound, Sound', NEW t \in Threads, PushLink(t)
  PROVE  Fifo!FifoNext
  <1>0. /\ pc[t] = "push_link" /\ my' = my
        /\ UNCHANGED <<head, item, phase, otherFreed>>
    BY DEF PushLink, From, history
  <1>a. phase = "open"
    BY <1>0, ChainFacts
  <1>1. CASE /\ pc' = [pc EXCEPT ![t] = "push_swing"]
             /\ next' = [next EXCEPT ![my[t].end] = my[t].node]
             /\ chain' = Append(chain, my[t].node)
    <2> DEFINE v == my[t].item
               A == Append(abstractItems, v)
               n == Len(abstractItems)
    <2>1. pc'[t] = "push_swing" /\ \A u \in Threads \ {t} : pc'[u] = pc[u]
      BY <1>1 DEF Sound, TypeOK
    <2>2. my[t].node \in Addr /\ item[my[t].node] = v /\ v \in Item
      BY <1>0, MyType DEF Sound, ThreadInv, NodeInv, LateEnd, LateOther, Pushing
    <2>3. /\ Len(chain) \in Nat \ {0} /\ Len(chain') = Len(chain) + 1
          /\ \A i \in 1..Len(chain) : chain'[i] = chain[i]
          /\ chain'[Len(chain) + 1] = my[t].node
      BY <1>1, <1>a, <2>2, ChainFacts, AppendPositions
    <2>4. /\ abstractItems \in Seq(Item) /\ n = Len(chain) - 1
          /\ \A i \in 1..n : abstractItems[i] = item[chain[i + 1]]
      BY <1>a, Contents
    <2>5. /\ abstractItems' \in Seq(Item) /\ Len(abstractItems') = n + 1
          /\ \A i \in 1..(n + 1) : abstractItems'[i] = item[chain'[i + 1]]
      <3>1. item' = item /\ phase' = "open" /\ Len(chain') - 1 = n + 1
        BY <1>0, <1>a, <2>3, <2>4
      <3> QED BY ONLY Sound', <3>1, ContentsNext
    <2>6. /\ A \in Seq(Item) /\ Len(A) = n + 1 /\ n \in Nat
          /\ A[n + 1] = v /\ \A i \in 1..n : A[i] = abstractItems[i]
      BY <2>2, <2>4, AppendPositions
    <2>7. ASSUME NEW i \in 1..(n + 1) PROVE abstractItems'[i] = A[i]
      <3> HIDE DEF A, n, v
      <3>1. CASE i = n + 1
        <4>1. i + 1 = Len(chain) + 1
          BY <3>1, <2>3, <2>4
        <4> QED BY <4>1, <3>1, <2>2, <2>3, <2>5, <2>6
      <3>2. CASE i # n + 1
        <4>1. i \in 1..n /\ i + 1 \in 1..Len(chain)
          BY <3>2, <2>3, <2>4, <2>6
        <4>2. abstractItems'[i] = item[chain[i + 1]]
          BY <4>1, <2>3, <2>5
        <4> QED BY <4>1, <4>2, <2>4, <2>6
      <3> QED BY <3>1, <3>2
    <2>8. abstractItems' = A
      <3> HIDE DEF A, n, v
      <3> QED BY <2>5, <2>6, <2>7, SeqEqual
    <2>9. abstractItems' # <<>>
      <3>1. Len(abstractItems') # 0
        BY <2>5, <2>6
      <3> QED BY <3>1
    <2>10. Fifo!Watch
      <3>1. \A u \in Threads : SawEmpty(u)' => SawEmpty(u)
        BY <1>0, <2>1 DEF SawEmpty
      <3> QED BY <3>1, <2>9, Watching
    <2>11. abstractOp[t].call = "push" /\ abstractOp[t].item = v
      BY <1>0, CallAtValues DEF abstractOp, ItemOf, Pushing
    <2>12. abstractOp' = [abstractOp EXCEPT ![t] = Fifo!Call("pushed", EMPTY_VALUE)]
      <3>1. ItemOf(t)' = EMPTY_VALUE
        BY <2>1, CallAtValues DEF ItemOf
      <3>2. abstractOp' = [abstractOp EXCEPT ![t] = Fifo!Call(CallAt("push_swing"), ItemOf(t)')]
        BY <1>0, <1>1, OpMoves DEF Sound
      <3> QED BY <3>1, <3>2, CallAtValues
    <2> QED BY <2>8, <2>10, <2>11, <2>12 DEF Fifo!FifoNext, Fifo!Push
  <1>2. CASE pc' = [pc EXCEPT ![t] = "push_clear"] /\ UNCHANGED <<next, chain>>
    BY <1>0, <1>2, CallAtValues, QuietRefines DEF Places, Pushing
  <1> QED BY <1>1, <1>2 DEF PushLink, From

(* pop takes effect when it moves the head (l.129).                        *)
LEMMA PopSwingRefines ==
  ASSUME Sound, Sound', NEW t \in Threads, PopSwing(t), ~spoilt'
  PROVE  Fifo!FifoNext
  <1>0. /\ pc[t] = "pop_swing" /\ UNCHANGED <<next, item, phase, otherFreed>>
        /\ \A u \in Threads \ {t} : my'[u] = my[u]
    BY DEF PopSwing, From, nodes, history, Forget, Sound, TypeOK
  <1>a. phase = "open"
    BY <1>0, ChainFacts
  <1>1. CASE /\ pc' = [pc EXCEPT ![t] = "pop_retire"]
             /\ head = my[t].end /\ head' = my[t].next /\ chain' = Tail(chain)
             /\ my' = [my EXCEPT ![t].next = NULL]
             /\ t \notin endFreed
    <2> DEFINE v == my[t].item
               T == Tail(abstractItems)
               n == Len(abstractItems)
    <2>1. /\ pc'[t] = "pop_retire" /\ \A u \in Threads \ {t} : pc'[u] = pc[u]
          /\ my'[t].item = v
      BY <1>1 DEF Sound, TypeOK
    <2>2. next[head] = my[t].next /\ my[t].next # NULL /\ v = item[my[t].next]
      BY <1>0, <1>1 DEF Sound, ThreadInv, NodeInv, LateOther, LateEnd
    <2>3. Len(chain) > 1 /\ my[t].next = chain[2] /\ head \in Addr /\ InChain(head) /\ InChain(my[t].next)
      BY <1>a, <2>2, NextOfHead, ChainFacts
    <2>4. /\ Len(chain) \in Nat \ {0} /\ Len(chain') = Len(chain) - 1
          /\ \A i \in 1..(Len(chain) - 1) : chain'[i] = chain[i + 1]
      BY <1>1, <1>a, ChainFacts, TailPositions
    <2>5. /\ abstractItems \in Seq(Item) /\ n = Len(chain) - 1 /\ n \in Nat /\ n > 0
          /\ \A i \in 1..n : abstractItems[i] = item[chain[i + 1]]
          /\ abstractItems # <<>>
      BY <1>a, <2>3, <2>4, Contents
    <2>6. Head(abstractItems) = v
      <3> HIDE DEF n, v
      <3>1. 1 \in 1..n /\ 1 + 1 = 2
        BY <2>5
      <3>2. abstractItems[1] = v
        BY <3>1, <2>2, <2>3, <2>5
      <3> QED BY <3>2, <2>5
    <2>7. /\ abstractItems' \in Seq(Item) /\ Len(abstractItems') = n - 1
          /\ \A i \in 1..(n - 1) : abstractItems'[i] = item[chain'[i + 1]]
      BY <1>0, <1>a, <2>4, <2>5, ContentsNext
    <2>8. /\ T \in Seq(Item) /\ Len(T) = n - 1
          /\ \A i \in 1..(n - 1) : T[i] = abstractItems[i + 1]
      BY <2>5, TailPositions
    <2>9. abstractItems' = T
      <3> HIDE DEF T, n, v
      <3>1. ASSUME NEW i \in 1..(n - 1) PROVE abstractItems'[i] = T[i]
        <4>1. i + 1 \in 1..n /\ i + 1 \in 1..(Len(chain) - 1)
          BY <2>4, <2>5
        <4>2. abstractItems'[i] = item[chain[(i + 1) + 1]]
          BY <4>1, <2>4, <2>7
        <4>3. T[i] = item[chain[(i + 1) + 1]]
          BY <4>1, <2>5, <2>8
        <4> QED BY <4>2, <4>3
      <3> QED BY <3>1, <2>7, <2>8, SeqEqual
    <2>10. Fifo!Watch
      <3>1. ASSUME NEW u \in Threads, SawMore(u)' PROVE SawMore(u)
        BY <3>1, <1>0, <2>1 DEF SawMore
      <3>2. ASSUME NEW u \in Threads, SawEmpty(u)' PROVE FALSE
        <4>1. u # t /\ pc[u] = "pop_check" /\ my[u].end = my[t].next /\ my[u].next = NULL
          BY <3>2, <1>0, <1>1, <2>1 DEF SawEmpty
        <4>2. head = my[u].end
          BY <4>1, <2>3, Unfreed DEF LateEnd, Sound, ThreadInv, PlaceInv, PopEnd
        <4>3. chain[1] = chain[2]
          BY <4>1, <4>2, <1>a, <2>3, ChainFacts
        <4>4. 1 \in 1..Len(chain) /\ 2 \in 1..Len(chain)
          BY <2>3, <2>4
        <4> QED BY <4>3, <4>4 DEF Sound, ListInv
      <3> QED BY <3>1, <3>2, Watching
    <2>11. abstractOp[t].call = "pop"
      BY <1>0, CallAtValues DEF abstractOp
    <2>12. abstractOp' = [abstractOp EXCEPT ![t] = Fifo!Call("popped", v)]
      <3>1. ItemOf(t)' = v
        BY <2>1, CallAtValues DEF ItemOf
      <3>2. abstractOp' = [abstractOp EXCEPT ![t] = Fifo!Call(CallAt("pop_retire"), ItemOf(t)')]
        BY <1>0, <1>1, OpMoves DEF Sound
      <3> QED BY <3>1, <3>2, CallAtValues
    <2> QED BY <2>5, <2>6, <2>9, <2>10, <2>11, <2>12 DEF Fifo!FifoNext, Fifo!Pop
  <1>2. CASE pc' = [pc EXCEPT ![t] = "pop_load"] /\ UNCHANGED <<head, chain>>
    BY <1>0, <1>2, CallAtValues, QuietRefines DEF Places
  <1> QED BY <1>1, <1>2 DEF PopSwing, From

(* is_empty found no next: the head it loaded is the last node, so it is   *)
(* the head still.  It found one: it has been seen (l.143).                *)
LEMMA IsEmptyNextRefines ==
  ASSUME Sound, NEW t \in Threads, IsEmptyNext(t), ~spoilt'
  PROVE  Fifo!FifoNext
  <1>0. /\ pc[t] = "empty_next"
        /\ my' = [my EXCEPT ![t] = Blank]
        /\ UNCHANGED <<head, next, item, phase, chain>>
        /\ otherFreed' \subseteq otherFreed /\ t \notin otherFreed
        /\ \A u \in Threads \ {t} : my'[u] = my[u]
    BY DEF IsEmptyNext, UsesOther, From, listKept, nodes, Forget, Sound, TypeOK
  <1>1. PICK there \in {"was_empty", "was_not_empty"} :
          /\ pc' = [pc EXCEPT ![t] = there]
          /\ there = "was_empty" <=> next[my[t].other] = NULL
    BY <1>0 DEF IsEmptyNext, From
  <1>2. pc'[t] = there
    BY <1>1 DEF Sound, TypeOK
  <1>3. abstractOp[t].call = "is_empty" /\ abstractItems' = abstractItems
    BY <1>0, CallAtValues, ChainStays DEF abstractOp
  <1>4. Fifo!Watch
    <2>1. ~SawEmpty(t)' /\ ~SawMore(t)'
      BY <1>2 DEF SawEmpty, SawMore
    <2> QED BY <1>0, <1>1, <2>1, WatchingAside DEF Sound
  <1>5. abstractOp' = [abstractOp EXCEPT ![t] = Fifo!Call(CallAt(there), EMPTY_VALUE)]
    <2>1. ItemOf(t)' = EMPTY_VALUE
      BY <1>2, CallAtValues DEF ItemOf
    <2>2. abstractOp' = [abstractOp EXCEPT ![t] = Fifo!Call(CallAt(there), ItemOf(t)')]
      BY <1>0, <1>1, OpMoves DEF Sound
    <2> QED BY <2>1, <2>2
  <1>6. CASE next[my[t].other] = NULL
    <2>1. my[t].other \in live /\ \A u \in Threads : ~Fresh(u, my[t].other)
      <3>1. my[t].other \in Unprotected(t) /\ my[t].other \in Node
        BY <1>0, MyType DEF Unprotected, LateEnd, LateOther, Sound
      <3> QED BY <3>1 DEF Sound, ThreadInv, HeldInv
    <2>2. InChain(my[t].other)
      BY <2>1, <1>6, LastOfChain DEF Sound, TypeOK, HazardTypeOK
    <2>3. head = my[t].other
      BY <1>0, <2>2 DEF Sound, ThreadInv, PlaceInv
    <2>4. abstractItems = <<>>
      BY <1>0, <1>6, <2>3, EmptyQueue, ChainFacts
    <2>5. abstractOp' = [abstractOp EXCEPT ![t] = Fifo!Call("empty", EMPTY_VALUE)]
      BY <1>1, <1>5, <1>6, CallAtValues
    <2>6. Fifo!WasTrue(t, TRUE)
      BY <2>4 DEF Fifo!WasTrue
    <2> QED BY <1>3, <1>4, <2>5, <2>6 DEF Fifo!FifoNext, Fifo!AnswerIsEmpty
  <1>7. CASE next[my[t].other] # NULL
    <2>1. FALSE \in abstractSeen[t]
      BY <1>0, <1>7, SeenIs DEF SawMore
    <2>2. abstractOp' = [abstractOp EXCEPT ![t] = Fifo!Call("not_empty", EMPTY_VALUE)]
      BY <1>1, <1>5, <1>7, CallAtValues
    <2> QED BY <1>3, <1>4, <2>1, <2>2 DEF Fifo!FifoNext, Fifo!AnswerIsEmpty, Fifo!WasTrue
  <1> QED BY <1>6, <1>7

-----------------------------------------------------------------------------
LEMMA ReturnRefines ==
  ASSUME Sound, NEW t \in Threads, Return(t)
  PROVE  Fifo!FifoNext
  <1>0. /\ pc[t] \in {"pushed", "popped", "was_empty", "was_not_empty"}
        /\ pc' = [pc EXCEPT ![t] = "idle"]
        /\ \A u \in Threads \ {t} : my'[u] = my[u]
        /\ UNCHANGED <<head, next, item, phase, chain>>
        /\ otherFreed' \subseteq otherFreed
    BY DEF Return, PushReturn, PopReturn, IsEmptyReturn, From, queueKept, listKept, nodes, history,
           Forget, Sound, TypeOK
  <1>1. pc'[t] = "idle"
    BY <1>0 DEF Sound, TypeOK
  <1>2. ~SawEmpty(t)' /\ ~SawMore(t)' /\ ItemOf(t)' = EMPTY_VALUE
    BY <1>1, CallAtValues DEF SawEmpty, SawMore, ItemOf
  <1>3. Fifo!Watch
    BY <1>0, <1>2, WatchingAside DEF Sound
  <1>4. abstractOp' = [abstractOp EXCEPT ![t] = Fifo!Idle]
    <2>1. abstractOp' = [abstractOp EXCEPT ![t] = Fifo!Call(CallAt("idle"), ItemOf(t)')]
      BY <1>0, OpMoves DEF Sound
    <2> QED BY <2>1, <1>2, CallAtValues DEF Fifo!Idle
  <1>5. abstractOp[t].call \in Fifo!Answers /\ abstractItems' = abstractItems
    BY <1>0, CallAtValues, ChainStays DEF abstractOp
  <1> QED BY <1>3, <1>4, <1>5 DEF Fifo!FifoNext, Fifo!Return

(* The node of a push that begins is not yet one of the queue's.           *)
LEMMA CallRefines ==
  ASSUME Sound, NEW t \in Threads, Invoke(t)
  PROVE  Fifo!FifoNext
  <1>0. PICK there \in {"push_load", "pop_load", "empty_head"} :
          /\ pc' = [pc EXCEPT ![t] = there] /\ pc[t] = "idle"
          /\ UNCHANGED <<head, phase, chain, otherFreed>> /\ phase = "open"
          /\ \A u \in Threads \ {t} : my'[u] = my[u]
    <2>1. CASE \E v \in Values : CallPush(t, v)
      BY <2>1 DEF CallPush, From, Sound, TypeOK, history
    <2>2. CASE CallPop(t) \/ CallIsEmpty(t)
      BY <2>2 DEF CallPop, CallIsEmpty, From, queueKept, listKept, history
    <2> QED BY <2>1, <2>2 DEF Invoke
  <1>1. pc'[t] = there /\ \A u \in Threads \ {t} : pc'[u] = pc[u]
    BY <1>0 DEF Sound, TypeOK
  <1>2. \A a \in live : next'[a] = next[a] /\ item'[a] = item[a]
    <2>1. ASSUME NEW v \in Values, CallPush(t, v)
          PROVE  \A a \in live : next'[a] = next[a] /\ item'[a] = item[a]
      <3>1. PICK b \in Addr \ live : next' = [next EXCEPT ![b] = NULL] /\ item' = [item EXCEPT ![b] = v]
        BY <2>1 DEF CallPush
      <3> QED BY <3>1 DEF Sound, TypeOK, HazardTypeOK
    <2> QED BY <2>1 DEF Invoke, CallPop, CallIsEmpty, queueKept, listKept, nodes, history
  <1>3. abstractItems' = abstractItems
    <2>1. Len(chain) \in Nat /\ \A i \in 1..Len(chain) : chain[i] \in live
      BY ChainFacts
    <2>2. \A i \in 1..(Len(chain) - 1) : i + 1 \in 1..Len(chain)
      BY <2>1
    <2>3. \A i \in 1..(Len(chain) - 1) : item'[chain[i + 1]] = item[chain[i + 1]]
      BY <2>1, <2>2, <1>2
    <2> QED BY <2>3, <1>0 DEF abstractItems
  <1>4. Fifo!Watch
    <2>1. ASSUME NEW u \in Threads, SawEmpty(u)' PROVE SawEmpty(u)
      BY <2>1, <1>0, <1>1 DEF SawEmpty
    <2>2. ASSUME NEW u \in Threads, SawMore(u)' PROVE SawMore(u)
      <3>0. /\ u # t /\ my'[u] = my[u] /\ pc[u] = "empty_next"
            /\ u \in otherFreed \/ next'[my[u].other] # NULL
        BY <2>2, <1>0, <1>1 DEF SawMore
      <3> SUFFICES ASSUME u \notin otherFreed PROVE SawMore(u)
        BY <3>0 DEF SawMore
      <3>1. u # t /\ my'[u] = my[u] /\ pc[u] = "empty_next" /\ next'[my[u].other] # NULL
        BY <3>0
      <3>2. my[u].other \in Node /\ my[u].other \in Unprotected(u)
        BY <3>1, <1>1, MyType DEF Sound, Unprotected, LateEnd, LateOther
      <3>3. next[my[u].other] # NULL
        BY <3>1, <3>2, <1>2 DEF Sound, ThreadInv, HeldInv
      <3> QED BY <3>1, <3>3 DEF SawMore
    <2> QED BY <2>1, <2>2, Watching
  <1>5. abstractOp[t] = Fifo!Idle
    BY <1>0, CallAtValues DEF abstractOp, ItemOf, Fifo!Idle
  <1>6. abstractOp' = [abstractOp EXCEPT ![t] = Fifo!Call(CallAt(there), ItemOf(t)')]
    BY <1>0, OpMoves DEF Sound
  <1>7. CASE \E v \in Values : CallPush(t, v)
    <2>1. PICK v \in Values : CallPush(t, v)
      BY <1>7
    <2>2. there = "push_load" /\ my'[t].item = v
      BY <2>1, <1>1 DEF CallPush, From, Sound, TypeOK
    <2>3. CallAt(there) = "push" /\ ItemOf(t)' = v
      BY <2>2, <1>1, CallAtValues DEF ItemOf, Pushing
    <2>4. abstractOp' = [abstractOp EXCEPT ![t] = Fifo!Call("push", v)]
      BY <2>3, <1>6
    <2> QED BY <2>4, <1>3, <1>4, <1>5 DEF Fifo!FifoNext, Fifo!Invoke
  <1>8. CASE CallPop(t) \/ CallIsEmpty(t)
    <2>1. there \in {"pop_load", "empty_head"}
      BY <1>8, <1>1 DEF CallPop, CallIsEmpty, From, Sound, TypeOK
    <2>2. CallAt(there) \in {"pop", "is_empty"} /\ ItemOf(t)' = EMPTY_VALUE
      BY <2>1, <1>1, CallAtValues DEF ItemOf
    <2>3. \/ abstractOp' = [abstractOp EXCEPT ![t] = Fifo!Call("pop", EMPTY_VALUE)]
          \/ abstractOp' = [abstractOp EXCEPT ![t] = Fifo!Call("is_empty", EMPTY_VALUE)]
      BY <2>2, <1>6
    <2> QED BY <2>3, <1>3, <1>4, <1>5 DEF Fifo!FifoNext, Fifo!Invoke
  <1> QED BY <1>7, <1>8 DEF Invoke

(* delete and new are the owner's Renew: nobody is inside an operation.    *)
LEMMA OwnerRefines ==
  ASSUME Sound, Sound', DeleteStart \/ DeleteNode \/ DeleteFinish \/ New
  PROVE  Fifo!FifoNext
  <1>1. pc' = pc /\ my' = my /\ \A t \in Threads : pc[t] = "idle"
    BY DEF DeleteStart, DeleteNode, DeleteFinish, New, Sound, PhaseInv
  <1>2. abstractOp = [t \in Threads |-> Fifo!Idle] /\ abstractOp' = abstractOp
    BY <1>1, CallAtValues DEF abstractOp, ItemOf, Fifo!Idle
  <1>3. abstractItems' = <<>>
    <2>1. CASE New
      <3>1. phase' = "open" /\ \E a \in Addr : chain' = <<a>>
        BY <2>1 DEF New
      <3>2. Len(chain') = 1
        BY <3>1
      <3> QED BY <3>1, <3>2, ContentsNext
    <2>2. CASE ~New
      <3>1. phase' # "open"
        BY <2>2 DEF DeleteStart, DeleteNode, DeleteFinish
      <3> QED BY <3>1 DEF abstractItems
    <2> QED BY <2>1, <2>2
  <1>4. Fifo!Watch
    BY <1>1, Watching DEF SawEmpty, SawMore
  <1> QED BY <1>2, <1>3, <1>4 DEF Fifo!FifoNext, Fifo!Renew

LEMMA InitRefines == Init => Fifo!FifoInit
  <1> SUFFICES ASSUME Init PROVE Fifo!FifoInit
    OBVIOUS
  <1>1. /\ Sound /\ phase = "open" /\ \A t \in Threads : pc[t] = "idle"
        /\ \E a \in Addr : chain = <<a>>
    BY InitInv DEF Init
  <1>2. abstractItems = <<>>
    <2>1. Len(chain) = 1
      BY <1>1
    <2> QED BY <1>1, <2>1, Contents
  <1>3. abstractOp = [t \in Threads |-> Fifo!Idle]
    BY <1>1, CallAtValues DEF abstractOp, ItemOf, Fifo!Idle
  <1>4. abstractSeen = [t \in Threads |-> {}]
    BY <1>1 DEF abstractSeen, SawEmpty, SawMore
  <1> QED BY <1>2, <1>3, <1>4 DEF Fifo!FifoInit

LEMMA StutterRefines ==
  ASSUME UNCHANGED vars
  PROVE  UNCHANGED Fifo!fifoVars
  <1>1. \A t \in Threads : /\ ItemOf(t)' = ItemOf(t)
                           /\ SawEmpty(t)' = SawEmpty(t) /\ SawMore(t)' = SawMore(t)
    BY DEF vars, nodes, history, ItemOf, SawEmpty, SawMore
  <1>2. abstractItems' = abstractItems
    BY ChainStays DEF vars, nodes, history
  <1>3. abstractOp' = abstractOp /\ abstractSeen' = abstractSeen
    BY <1>1 DEF vars, abstractOp, abstractSeen
  <1> QED BY <1>2, <1>3 DEF Fifo!fifoVars

LEMMA StepRefines == LLInv /\ LLInv' /\ [Next]_vars => [Fifo!FifoNext \/ spoilt']_Fifo!fifoVars
  <1> SUFFICES ASSUME LLInv, LLInv', [Next]_vars, ~spoilt', ~UNCHANGED vars PROVE Fifo!FifoNext
    BY StutterRefines
  <1>0. ~spoilt /\ Sound /\ Sound'
    BY DEF Next, LLInv
  <1>1. ASSUME NEW t \in Threads, Invoke(t) PROVE Fifo!FifoNext
    BY <1>0, <1>1, CallRefines
  <1>2. ASSUME NEW t \in Threads, Step(t) PROVE Fifo!FifoNext
    BY <1>0, <1>2, PushQuietRefines, PopQuietRefines, AfterwardsRefines, PopScanRefines, PopNextRefines,
       IsEmptyHeadRefines, PopCheckRefines, PushLinkRefines, PopSwingRefines, IsEmptyNextRefines,
       ReturnRefines DEF Step
  <1> QED BY <1>0, <1>1, <1>2, OwnerRefines DEF Next

(* The lock-free list is a linearizable first-in first-out queue until it   *)
(* is spoilt: push takes effect at l.83, pop at l.129 or, empty, at l.110.  *)
THEOREM Linearizable == Spec => FifoUntilSpoilt
  BY InitRefines, StepRefines, Invariance, PTL DEF Spec, FifoUntilSpoilt
=============================================================================
