---------------------------- MODULE BLQueueProofs ----------------------------
(***************************************************************************)
(* The list of buffers, for every set of threads, values and addresses,    *)
(* every BUFFER_SIZE and every threshold: no freed node is touched, no     *)
(* item is lost or popped twice, items keep their order in time, and an    *)
(* answer that the queue is empty is honest.                               *)
(***************************************************************************)
EXTENDS BLQueue, TLAPS, SequenceTheorems

-----------------------------------------------------------------------------
(* What the steps do to the positions of chain and of the retired lists.   *)

LEMMA AppendPositions ==
  ASSUME NEW S, NEW s \in Seq(S), NEW a \in S
  PROVE  /\ Append(s, a) \in Seq(S)
         /\ Append(s, a) # <<>>
         /\ Len(s) \in Nat
         /\ Len(Append(s, a)) = Len(s) + 1
         /\ \A i \in 1..Len(s) : Append(s, a)[i] = s[i]
         /\ Append(s, a)[Len(s) + 1] = a
  BY AppendProperties, LenProperties

LEMMA TailPositions ==
  ASSUME NEW S, NEW s \in Seq(S), s # <<>>
  PROVE  /\ Tail(s) \in Seq(S)
         /\ Len(s) \in Nat \ {0}
         /\ Len(Tail(s)) = Len(s) - 1
         /\ \A i \in 1..(Len(s) - 1) : Tail(s)[i] = s[i + 1]
         /\ (Tail(s) = <<>> <=> Len(s) = 1)
  <1>1. Tail(s) \in Seq(S) /\ Len(Tail(s)) = Len(s) - 1
    BY HeadTailProperties
  <1>2. Len(s) \in Nat \ {0}
    BY EmptySeq, LenProperties
  <1>3. \A i \in 1..(Len(s) - 1) : Tail(s)[i] = s[i + 1]
    BY <1>1, HeadTailProperties
  <1>4. Tail(s) = <<>> <=> Len(Tail(s)) = 0
    BY <1>1, EmptySeq
  <1> QED BY <1>1, <1>2, <1>3, <1>4

LEMMA BehindFirst ==
  ASSUME NEW s, NEW r, NEW n \in Nat \ {0}, \A i \in 1..(n - 1) : r[i] = s[i + 1],
         \A i, j \in 1..n : s[i] = s[j] => i = j
  PROVE  \A b : (\E i \in 1..(n - 1) : r[i] = b) <=> (\E i \in 1..n : s[i] = b) /\ b # s[1]
  <1> SUFFICES ASSUME NEW b
               PROVE  (\E i \in 1..(n - 1) : r[i] = b) <=> (\E i \in 1..n : s[i] = b) /\ b # s[1]
    OBVIOUS
  <1>1. ASSUME NEW i \in 1..(n - 1), r[i] = b PROVE (\E j \in 1..n : s[j] = b) /\ b # s[1]
    <2>1. i + 1 \in 1..n /\ 1 \in 1..n /\ i + 1 # 1
      OBVIOUS
    <2>2. s[i + 1] = b
      BY <1>1
    <2> QED BY <2>1, <2>2
  <1>2. ASSUME NEW i \in 1..n, s[i] = b, b # s[1] PROVE \E j \in 1..(n - 1) : r[j] = b
    <2>1. i # 1
      BY <1>2
    <2>2. i - 1 \in 1..(n - 1) /\ (i - 1) + 1 = i
      BY <2>1
    <2>3. r[i - 1] = s[(i - 1) + 1]
      BY <2>2
    <2> QED BY <2>2, <2>3, <1>2
  <1> QED BY <1>1, <1>2

(* Taking one element out of a list (the unlinking of a freed RetiredNode). *)
LEMMA WithoutPositions ==
  ASSUME NEW S, NEW s \in Seq(S), NEW i \in 1..Len(s)
  PROVE  /\ Len(s) \in Nat
         /\ Without(s, i) \in Seq(S)
         /\ Len(Without(s, i)) = Len(s) - 1
         /\ \A j \in 1..(i - 1) : Without(s, i)[j] = s[j]
         /\ \A j \in i..(Len(s) - 1) : Without(s, i)[j] = s[j + 1]
  <1> DEFINE a == SubSeq(s, 1, i - 1)
             b == SubSeq(s, i + 1, Len(s))
  <1>0. Len(s) \in Nat
    BY LenProperties
  <1>1. /\ a \in Seq(S) /\ Len(a) = i - 1
        /\ \A j \in 1..(i - 1) : a[j] = s[j]
    BY <1>0
  <1>2. /\ b \in Seq(S) /\ Len(b) = Len(s) - i
        /\ \A j \in 1..(Len(s) - i) : b[j] = s[i + j]
    BY <1>0
  <1>3. /\ a \o b \in Seq(S)
        /\ Len(a \o b) = Len(s) - 1
        /\ \A j \in 1..(i - 1) : (a \o b)[j] = a[j]
        /\ \A j \in i..(Len(s) - 1) : (a \o b)[j] = b[j - (i - 1)]
    <2> HIDE DEF a, b
    <2>1. Len(a) + Len(b) = Len(s) - 1
      BY <1>0, <1>1, <1>2
    <2>2. /\ a \o b \in Seq(S)
          /\ Len(a \o b) = Len(a) + Len(b)
          /\ \A j \in 1..Len(a) + Len(b) :
               (a \o b)[j] = IF j <= Len(a) THEN a[j] ELSE b[j - Len(a)]
      BY <1>1, <1>2, ConcatProperties
    <2>3. \A j \in 1..(Len(s) - 1) : (a \o b)[j] = IF j <= i - 1 THEN a[j] ELSE b[j - (i - 1)]
      BY <1>1, <2>1, <2>2
    <2>4. \A j \in 1..(i - 1) : j \in 1..(Len(s) - 1) /\ j <= i - 1
      BY <1>0
    <2>5. \A j \in i..(Len(s) - 1) : j \in 1..(Len(s) - 1) /\ ~(j <= i - 1)
      BY <1>0
    <2> QED BY <2>1, <2>2, <2>3, <2>4, <2>5
  <1>4. ASSUME NEW j \in i..(Len(s) - 1) PROVE (a \o b)[j] = s[j + 1]
    <2>1. j - (i - 1) \in 1..(Len(s) - i) /\ i + (j - (i - 1)) = j + 1
      BY <1>0
    <2> HIDE DEF a, b
    <2> QED BY <2>1, <1>2, <1>3
  <1> QED BY <1>0, <1>1, <1>3, <1>4 DEF Without

(* Adding one at the front (HazardPointer_retire). *)
LEMMA PrependPositions ==
  ASSUME NEW S, NEW s \in Seq(S), NEW a \in S
  PROVE  /\ <<a>> \o s \in Seq(S)
         /\ Len(s) \in Nat
         /\ Len(<<a>> \o s) = Len(s) + 1
         /\ (<<a>> \o s)[1] = a
         /\ \A j \in 1..Len(s) : (<<a>> \o s)[j + 1] = s[j]
  <1>1. <<a>> \in Seq(S) /\ Len(<<a>>) = 1 /\ <<a>>[1] = a /\ Len(s) \in Nat
    BY LenProperties
  <1> QED BY <1>1, ConcatProperties

LEMMA AboveOne ==
  ASSUME NEW n \in Nat, n > 0, n # 1
  PROVE  n > 1 /\ 1 \in 1..n /\ 2 \in 1..n /\ 1 + 1 = 2
  OBVIOUS


USE HazardPointerAssumption, BLQueueAssumption

-----------------------------------------------------------------------------
(* What the parts of the invariant say together.                           *)

Mine == [item : Item, node : Node, end : Node, next : Node, idx : Nat]
Cells == Item \cup {TAKEN_VALUE}

LEMMA MyType ==
  ASSUME TypeOK, NEW t \in Threads
  PROVE  /\ my[t] \in Mine
         /\ my[t].item \in Item /\ my[t].node \in Node /\ my[t].end \in Node
         /\ my[t].next \in Node /\ my[t].idx \in Nat
         /\ pc[t] \in Places /\ pointer[t] \in Node
         /\ retired[t] \in Seq(Addr) /\ Len(retired[t]) \in Nat
         /\ scan[t] \in [at : Nat, unread : SUBSET Threads]
         /\ \A i \in 1..Len(retired[t]) : retired[t][i] \in Addr
  BY LenProperties, ElementOfSeq DEF TypeOK, HazardTypeOK, Mine, Node

LEMMA FieldTypes ==
  ASSUME NEW m \in Mine
  PROVE  /\ \A v \in Item : [m EXCEPT !.item = v] \in Mine
         /\ \A a \in Node : [m EXCEPT !.node = a] \in Mine
         /\ \A a \in Node : [m EXCEPT !.end = a] \in Mine
         /\ \A a \in Node : [m EXCEPT !.next = a] \in Mine
         /\ \A i \in Nat : [m EXCEPT !.idx = i] \in Mine
  BY DEF Mine

LEMMA BlankType ==
  /\ Blank \in Mine /\ NULL \in Node /\ EMPTY_VALUE \in Item /\ NoItems \in [Slots -> Cells]
  /\ \A v \in Item : /\ [Blank EXCEPT !.item = v] \in Mine
                     /\ [NoItems EXCEPT ![0] = v] \in [Slots -> Cells]
  BY DEF Blank, Mine, Item, Node, NoItems, Cells

(* The state of the nodes, for which few steps have to be looked at.       *)
LEMMA NodeTypes ==
  ASSUME TypeOK
  PROVE  /\ next \in [Addr -> Node] /\ buffer \in [Addr -> [Slots -> Cells]]
         /\ push_idx \in [Addr -> Nat] /\ pop_idx \in [Addr -> Nat]
         /\ live \in SUBSET Addr /\ chain \in Seq(Addr)
         /\ \A a \in Addr : /\ next[a] \in Node /\ push_idx[a] \in Nat /\ pop_idx[a] \in Nat
                            /\ \A i \in Slots : buffer[a][i] \in Cells
  BY DEF TypeOK, HazardTypeOK, Cells

LEMMA ChainFacts ==
  ASSUME MemInv
  PROVE  /\ chain \in Seq(Addr) /\ Len(chain) \in Nat
         /\ \A i \in 1..Len(chain) : chain[i] \in Addr /\ chain[i] \in live
         /\ chain # <<>> <=> Len(chain) > 0
         /\ head \in Addr => InChain(head) /\ chain # <<>> /\ head = chain[1]
         /\ \A a \in Node : InChain(a) => a \in Addr /\ a \in live
         /\ \A t \in Threads : pc[t] # "idle" => phase = "open"
         /\ phase = "open" => /\ chain # <<>> /\ Len(chain) > 0
                              /\ head \in Addr /\ InChain(head) /\ head = chain[1]
                              /\ tail \in Addr /\ InChain(tail) /\ tail = chain[Len(chain)]
  <1>1. chain \in Seq(Addr)
    BY DEF MemInv, TypeOK
  <1>2. /\ Len(chain) \in Nat
        /\ \A i \in 1..Len(chain) : chain[i] \in Addr
        /\ chain # <<>> <=> Len(chain) > 0
    BY <1>1, LenProperties, ElementOfSeq, EmptySeq
  <1>3. \A i \in 1..Len(chain) : chain[i] \in live /\ InChain(chain[i])
    BY <1>2 DEF MemInv, OwnerInv, InChain
  <1>4. head \in Addr => chain # <<>> /\ head = chain[1] /\ InChain(head)
    BY <1>2, <1>3 DEF MemInv, ListInv
  <1>5. phase = "open" => chain # <<>> /\ InChain(tail) /\ tail \in Addr /\ tail = chain[Len(chain)]
    BY <1>2, <1>3 DEF MemInv, ListInv
  <1>6. chain # <<>> => head = chain[1] /\ head \in Addr
    BY <1>2 DEF MemInv, ListInv
  <1>7. \A a \in Node : InChain(a) => a \in Addr /\ a \in live
    BY <1>2, <1>3 DEF InChain
  <1>8. \A t \in Threads : pc[t] # "idle" => phase = "open"
    BY DEF MemInv, PhaseInv
  <1> QED BY <1>1, <1>2, <1>3, <1>4, <1>5, <1>6, <1>7, <1>8

(* A scan suspects a node of its list. *)
LEMMA SuspectIsRetired ==
  ASSUME MemInv, NEW u \in Threads, Scanning(u)
  PROVE  /\ scan[u].at \in 1..Len(retired[u])
         /\ Suspect(u) \in Addr
         /\ On(u, Suspect(u))
         /\ pc[u] = "pop_scan"
  <1>1. retired[u] \in Seq(Addr) /\ scan[u].at \in Nat /\ scan[u].at <= Len(retired[u])
    BY DEF MemInv, TypeOK, HazardTypeOK, ScanInv
  <1>2. scan[u].at \in 1..Len(retired[u])
    BY <1>1, LenProperties DEF Scanning
  <1>3. ~(0 > 0) /\ NoScan.at = 0
    BY DEF NoScan
  <1>4. pc[u] = "pop_scan"
    BY <1>3 DEF Scanning, MemInv, ScanInv
  <1> QED BY <1>1, <1>2, <1>4, ElementOfSeq DEF Suspect, On

(* The nodes of the queue are nobody's and suspected by nobody. *)
LEMMA InChainIsShared ==
  ASSUME MemInv, NEW a \in Node, InChain(a)
  PROVE  /\ a \in Addr /\ a \in live
         /\ \A u \in Threads : ~Owns(u, a) /\ ~Fresh(u, a) /\ ~Pending(u, a) /\ ~On(u, a)
         /\ \A u \in Threads : Scanning(u) => Suspect(u) # a
  <1>1. a \in Addr /\ a \in live
    BY ChainFacts
  <1>2. \A u \in Threads : ~Owns(u, a)
    BY <1>1 DEF MemInv, OwnerInv
  <1>3. \A u \in Threads : ~Fresh(u, a) /\ ~Pending(u, a) /\ ~On(u, a)
    BY <1>2 DEF Owns
  <1> QED BY <1>1, <1>2, <1>3, SuspectIsRetired

(* What a thread's pointer keeps. *)
LEMMA Shielded ==
  ASSUME MemInv, NEW t \in Threads, pc[t] \in PushEnd \cup PopEnd \cup EmptyEnd
  PROVE  /\ my[t].end \in live /\ my[t].end \in Addr /\ pointer[t] = my[t].end
         /\ \A u \in Threads : ~Fresh(u, my[t].end)
         /\ \A u \in Threads : Scanning(u) /\ Suspect(u) = my[t].end => t \in scan[u].unread
  <1>1. my[t].end \in Node /\ Shields(t, my[t].end)
    BY MyType DEF MemInv, Shields
  <1>2. live \subseteq Addr
    BY DEF MemInv, TypeOK, HazardTypeOK
  <1>3. ShieldInv(t)
    BY DEF MemInv
  <1> QED BY <1>1, <1>2, <1>3 DEF ShieldInv

(* The node of a push that is not yet the tail, or loses against another.  *)
LEMMA FreshNode ==
  ASSUME MemInv, NEW t \in Threads, pc[t] \in {"push_swing", "push_drop"}
  PROVE  LET m == my[t].node IN
         /\ m \in Addr /\ m \in live /\ Fresh(t, m) /\ next[m] = NULL
         /\ ~InChain(m) /\ ~Pending(t, m) /\ ~On(t, m)
         /\ \A u \in Threads \ {t} : ~Fresh(u, m) /\ ~Pending(u, m) /\ ~On(u, m)
         /\ \A u \in Threads : ~Shields(u, m)
         /\ \A u \in Threads : Scanning(u) => Suspect(u) # m
  <1> DEFINE m == my[t].node
  <1>1. m \in Addr /\ next[m] = NULL /\ Fresh(t, m)
    BY MyType DEF MemInv, NodeInv, Fresh, Node
  <1>2. m \in live /\ ~InChain(m) /\ ~On(t, m) /\ \A u \in Threads \ {t} : ~Owns(u, m)
    BY <1>1 DEF MemInv, OwnerInv, Owns
  <1>3. ~Pending(t, m)
    BY DEF Pending
  <1>4. \A u \in Threads \ {t} : ~Fresh(u, m) /\ ~Pending(u, m) /\ ~On(u, m)
    BY <1>2 DEF Owns
  <1>5. \A u \in Threads : ~Shields(u, m)
    <2>1. m \in Node /\ \A u \in Threads : ShieldInv(u)
      BY <1>1 DEF MemInv, Node
    <2> QED BY <2>1, <1>1 DEF ShieldInv
  <1>6. \A u \in Threads : Scanning(u) => Suspect(u) # m
    BY <1>2, <1>4, SuspectIsRetired
  <1> HIDE DEF m
  <1> QED BY <1>1, <1>2, <1>3, <1>4, <1>5, <1>6 DEF m

(* A live node that nobody owns is in the queue; and if it has no next, it  *)
(* is the last one, or one pusher is about to link its next.                *)
LEMMA Unowned ==
  ASSUME MemInv, NEW a \in Addr, a \in live, \A u \in Threads : ~Fresh(u, a), next[a] = NULL
  PROVE  InChain(a)
  BY DEF MemInv, OwnerInv, Owns

LEMMA IdleThread ==
  ASSUME NEW t \in Threads, pc'[t] = "idle"
  PROVE  NodeInv(t)' /\ ShieldInv(t)'
  BY DEF NodeInv, ShieldInv, Shields, Pushing, PushEnd, PopEnd, EmptyEnd
LEMMA InitMem == Init => MemInv
  <1> SUFFICES ASSUME Init PROVE MemInv
    OBVIOUS
  <1>0. PICK a \in Addr : head = a /\ tail = a /\ live = {a} /\ chain = <<a>>
    BY DEF Init
  <1>1. TypeOK
    <2>1. my \in [Threads -> Mine]
      BY BlankType DEF Init
    <2>2. buffer \in [Addr -> [Slots -> Cells]]
      BY BlankType DEF Init
    <2> QED BY <1>0, <2>1, <2>2 DEF Init, HazardInit, NoScan, TypeOK, HazardTypeOK, Places, Mine, Node, Cells
  <1>a. \A u \in Threads : ~Scanning(u)
    BY DEF Init, HazardInit, NoScan, Scanning
  <1>b. \A u \in Threads, b \in Addr : ~Fresh(u, b) /\ ~Pending(u, b) /\ ~On(u, b)
    BY DEF Init, HazardInit, Fresh, Pending, On
  <1>2. OwnerInv
    <2>1. \A b : InChain(b) <=> b = a
      BY <1>0 DEF InChain
    <2>2. \A u \in Threads, b \in Addr : ~Owns(u, b)
      BY <1>b DEF Owns
    <2>3. \A u \in Threads : \A i, j \in 1..Len(retired[u]) : retired[u][i] = retired[u][j] => i = j
      BY DEF Init, HazardInit
    <2>4. \A b \in Addr \ live : next[b] = NULL
      BY DEF Init
    <2> QED BY <1>0, <1>b, <2>1, <2>2, <2>3, <2>4 DEF OwnerInv
  <1>3. ListInv
    BY <1>0 DEF Init, ListInv
  <1>4. PhaseInv
    BY DEF Init, PhaseInv
  <1>5. ScanInv
    <2>1. NoScan.at <= Len(<<>>)
      BY DEF NoScan
    <2> QED BY <2>1 DEF Init, HazardInit, ScanInv
  <1>6. ASSUME NEW t \in Threads PROVE NodeInv(t) /\ ShieldInv(t)
    <2>1. pc[t] = "idle"
      BY DEF Init
    <2> QED BY <2>1 DEF NodeInv, ShieldInv, Shields, Pushing, PushEnd, PopEnd, EmptyEnd
  <1> QED BY <1>1, <1>2, <1>3, <1>4, <1>5, <1>6 DEF MemInv

-----------------------------------------------------------------------------
(* Steps of one thread that leave the list and its links alone.  What its  *)
(* pointer keeps afterwards it kept before, or is a node of the queue.     *)

LEMMA LocalStep ==
  ASSUME MemInv, NEW t \in Threads, TypeOK', phase = "open",
         NEW there, pc' = [pc EXCEPT ![t] = there],
         pc[t] # "push_link", pc'[t] # "push_link", pc[t] = "pop_scan" => ~Scanning(t),
         \A u \in Threads \ {t} : my'[u] = my[u] /\ pointer'[u] = pointer[u],
         UNCHANGED <<head, tail, next, phase, chain, retired, scan, live>>,
         \A a \in Addr : (Fresh(t, a)' <=> Fresh(t, a)) /\ ~Pending(t, a)' /\ ~Pending(t, a),
         NodeInv(t)',
         pc'[t] \in {"push_validate", "pop_validate", "empty_validate"} => pointer'[t] = my'[t].end,
         \A a \in Node : Shields(t, a)' => pointer'[t] = a /\ (Shields(t, a) \/ InChain(a))
  PROVE  MemInv'
  <1>a. \A u \in Threads \ {t} : pc'[u] = pc[u]
    BY DEF MemInv, TypeOK
  <1>b. \A u \in Threads : (Scanning(u)' <=> Scanning(u)) /\ Suspect(u)' = Suspect(u)
    BY DEF Scanning, Suspect
  <1>c. \A a : InChain(a)' <=> InChain(a)
    BY DEF InChain
  <1>d. \A u \in Threads, a \in Addr : /\ Fresh(u, a)' <=> Fresh(u, a)
                                       /\ Pending(u, a)' <=> Pending(u, a)
                                       /\ On(u, a)' <=> On(u, a)
                                       /\ Owns(u, a)' <=> Owns(u, a)
    <2>1. \A u \in Threads, a \in Addr : On(u, a)' <=> On(u, a)
      BY DEF On
    <2>2. \A u \in Threads, a \in Addr : (Fresh(u, a)' <=> Fresh(u, a)) /\ (Pending(u, a)' <=> Pending(u, a))
      BY <1>a DEF Fresh, Pending
    <2> QED BY <2>1, <2>2 DEF Owns
  <1>e. \A i : \A u \in Threads : Links(u, i)' <=> Links(u, i)
    BY <1>a DEF Links
  <1>1. OwnerInv'
    BY <1>c, <1>d DEF MemInv, OwnerInv
  <1>2. ListInv'
    BY <1>e DEF MemInv, ListInv
  <1>3. PhaseInv'
    BY DEF MemInv, PhaseInv
  <1>4. ScanInv'
    BY <1>a, <1>b DEF MemInv, ScanInv, NoScan
  <1>5. ASSUME NEW u \in Threads \ {t} PROVE NodeInv(u)' /\ ShieldInv(u)'
    <2>0. /\ pc'[u] = pc[u] /\ my'[u] = my[u] /\ pointer'[u] = pointer[u]
          /\ NodeInv(u) /\ ShieldInv(u)
      BY <1>a DEF MemInv
    <2>1. \A w \in Threads : pc'[w] = "push_link" => pc[w] = "push_link" /\ my'[w] = my[w]
      BY <1>a
    <2>2. NodeInv(u)'
      BY <2>0, <2>1, <1>c, <1>e DEF NodeInv
    <2>3. \A a \in Node : Shields(u, a)' <=> Shields(u, a)
      BY <2>0 DEF Shields
    <2>4. ShieldInv(u)'
      BY <2>0, <2>3, <1>b, <1>d DEF ShieldInv, MemInv, TypeOK, HazardTypeOK
    <2> QED BY <2>2, <2>4
  <1>6. ShieldInv(t)'
    <2>1. ShieldInv(t)
      BY DEF MemInv
    <2>2. ASSUME NEW a \in Node, Shields(t, a)'
          PROVE  a \in live /\ a \in Addr /\ \A u \in Threads : ~Fresh(u, a)'
      <3>1. a \in live /\ \A u \in Threads : ~Fresh(u, a)
        BY <2>1, <2>2, InChainIsShared DEF ShieldInv
      <3> QED BY <3>1, <1>d DEF MemInv, TypeOK, HazardTypeOK
    <2>3. ASSUME NEW a \in Node, Shields(t, a)',
                 NEW u \in Threads, Scanning(u)', Suspect(u)' = a
          PROVE  t \in scan'[u].unread
      <3>1. ~InChain(a)
        BY <2>3, <1>b, InChainIsShared
      <3> QED BY <2>3, <3>1, <2>1, <1>b DEF ShieldInv
    <2> QED BY <2>2, <2>3 DEF ShieldInv
  <1> QED BY <1>1, <1>2, <1>3, <1>4, <1>5, <1>6 DEF MemInv

LEMMA CallPushMem ==
  ASSUME MemInv, NEW t \in Threads, NEW v \in Values, CallPush(t, v)
  PROVE  MemInv'
  <1> USE DEF CallPush, From, hazardKept, queueKept, hazardVars, node, history
  <1>0. /\ TypeOK /\ NodeInv(t) /\ ShieldInv(t) /\ phase = "open"
    BY ChainFacts DEF MemInv
  <1>a. my[t].end \in Addr => push_idx[my[t].end] \in Nat /\ next[my[t].end] \in Node
    BY <1>0, NodeTypes
  <1>b. pc[t] \in PushEnd \cup PopEnd \cup EmptyEnd => my[t].end \in Addr
    BY Shielded
  <1>f. /\ pc' = [pc EXCEPT ![t] = pc'[t]]
        /\ \A u \in Threads \ {t} : my'[u] = my[u] /\ pointer'[u] = pointer[u]
        /\ UNCHANGED <<head, tail, next, phase, chain, retired, scan, live>>
        /\ pc[t] # "push_link" /\ pc'[t] # "push_link" /\ (pc[t] = "pop_scan" => ~Scanning(t))
    BY <1>0 DEF TypeOK, HazardTypeOK
  <1>1. TypeOK'
    <2>1. my'[t] \in Mine
      BY <1>0, <1>a, <1>b, MyType, FieldTypes, BlankType DEF TypeOK, Item, PushEnd, PopEnd, EmptyEnd
    <2>2. my' \in [Threads -> Mine]
      BY <1>0, <2>1 DEF TypeOK, Mine
    <2>3. pc'[t] \in Places
      BY <1>0 DEF TypeOK, Places
    <2>4. pc' \in [Threads -> Places]
      BY <1>0, <1>f, <2>3 DEF TypeOK
    <2>5. pointer' \in [Threads -> Node]
      BY <1>0, MyType DEF TypeOK, HazardTypeOK, Node
    <2>6. buffer' \in [Addr -> [Slots -> Cells]]
      BY <1>0, MyType, NodeTypes DEF Cells
    <2>7. push_idx' \in [Addr -> Nat] /\ pop_idx' \in [Addr -> Nat]
      BY <1>0, NodeTypes
    <2>8. finished' \subseteq Values /\ older' \in [Values -> SUBSET Values] /\ asked' \in [Threads -> SUBSET Values]
      BY <1>0, MyType DEF TypeOK, NodeInv, Pushing
    <2> QED BY <1>0, <1>f, <2>2, <2>4, <2>5, <2>6, <2>7, <2>8, SMTT(20), ZenonT(40) DEF TypeOK, HazardTypeOK, Mine, Node, Cells
  <1>2. NodeInv(t)'
    BY <1>0, MyType, ChainFacts, SMTT(20), ZenonT(40) DEF TypeOK, NodeInv, InChain, Pushing, PopEnd, EmptyEnd, Blank
  <1>3. \A a \in Addr : (Fresh(t, a)' <=> Fresh(t, a)) /\ ~Pending(t, a)' /\ ~Pending(t, a)
    BY <1>0, MyType DEF TypeOK, Fresh, Pending, Blank
  <1>4. /\ pc'[t] \in {"push_validate", "pop_validate", "empty_validate"} => pointer'[t] = my'[t].end
        /\ \A a \in Node : Shields(t, a)' => pointer'[t] = a /\ (Shields(t, a) \/ InChain(a))
    BY <1>0, MyType, ChainFacts, SMTT(20), ZenonT(40) DEF TypeOK, HazardTypeOK, ShieldInv, Shields, PushEnd, PopEnd, EmptyEnd, Blank
  <1> QED BY <1>0, <1>1, <1>2, <1>3, <1>4, <1>f, LocalStep

LEMMA PushLoadMem ==
  ASSUME MemInv, NEW t \in Threads, ProtectLoad(t, "push_load", "push_publish", tail)
  PROVE  MemInv'
  <1> USE DEF ProtectLoad, From, hazardKept, queueKept, hazardVars, node, history
  <1>0. /\ TypeOK /\ NodeInv(t) /\ ShieldInv(t) /\ phase = "open"
    BY ChainFacts DEF MemInv
  <1>a. my[t].end \in Addr => push_idx[my[t].end] \in Nat /\ next[my[t].end] \in Node
    BY <1>0, NodeTypes
  <1>b. pc[t] \in PushEnd \cup PopEnd \cup EmptyEnd => my[t].end \in Addr
    BY Shielded
  <1>f. /\ pc' = [pc EXCEPT ![t] = pc'[t]]
        /\ \A u \in Threads \ {t} : my'[u] = my[u] /\ pointer'[u] = pointer[u]
        /\ UNCHANGED <<head, tail, next, phase, chain, retired, scan, live>>
        /\ pc[t] # "push_link" /\ pc'[t] # "push_link" /\ (pc[t] = "pop_scan" => ~Scanning(t))
    BY <1>0 DEF TypeOK, HazardTypeOK
  <1>1. TypeOK'
    <2>1. my'[t] \in Mine
      BY <1>0, <1>a, <1>b, MyType, FieldTypes, BlankType DEF TypeOK, Item, PushEnd, PopEnd, EmptyEnd
    <2>2. my' \in [Threads -> Mine]
      BY <1>0, <2>1 DEF TypeOK, Mine
    <2>3. pc'[t] \in Places
      BY <1>0 DEF TypeOK, Places
    <2>4. pc' \in [Threads -> Places]
      BY <1>0, <1>f, <2>3 DEF TypeOK
    <2>5. pointer' \in [Threads -> Node]
      BY <1>0, MyType DEF TypeOK, HazardTypeOK, Node
    <2>6. buffer' \in [Addr -> [Slots -> Cells]]
      BY <1>0, MyType, NodeTypes DEF Cells
    <2>7. push_idx' \in [Addr -> Nat] /\ pop_idx' \in [Addr -> Nat]
      BY <1>0, NodeTypes
    <2>8. finished' \subseteq Values /\ older' \in [Values -> SUBSET Values] /\ asked' \in [Threads -> SUBSET Values]
      BY <1>0, MyType DEF TypeOK, NodeInv, Pushing
    <2> QED BY <1>0, <1>f, <2>2, <2>4, <2>5, <2>6, <2>7, <2>8, SMTT(20), ZenonT(40) DEF TypeOK, HazardTypeOK, Mine, Node, Cells
  <1>2. NodeInv(t)'
    BY <1>0, MyType, ChainFacts, SMTT(20), ZenonT(40) DEF TypeOK, NodeInv, InChain, Pushing, PopEnd, EmptyEnd, Blank
  <1>3. \A a \in Addr : (Fresh(t, a)' <=> Fresh(t, a)) /\ ~Pending(t, a)' /\ ~Pending(t, a)
    BY <1>0, MyType DEF TypeOK, Fresh, Pending, Blank
  <1>4. /\ pc'[t] \in {"push_validate", "pop_validate", "empty_validate"} => pointer'[t] = my'[t].end
        /\ \A a \in Node : Shields(t, a)' => pointer'[t] = a /\ (Shields(t, a) \/ InChain(a))
    BY <1>0, MyType, ChainFacts, SMTT(20), ZenonT(40) DEF TypeOK, HazardTypeOK, ShieldInv, Shields, PushEnd, PopEnd, EmptyEnd, Blank
  <1> QED BY <1>0, <1>1, <1>2, <1>3, <1>4, <1>f, LocalStep

LEMMA PushPublishMem ==
  ASSUME MemInv, NEW t \in Threads, ProtectPublish(t, "push_publish", "push_validate")
  PROVE  MemInv'
  <1> USE DEF ProtectPublish, Publish, From, hazardKept, queueKept, hazardVars, node, history
  <1>0. /\ TypeOK /\ NodeInv(t) /\ ShieldInv(t) /\ phase = "open"
    BY ChainFacts DEF MemInv
  <1>a. my[t].end \in Addr => push_idx[my[t].end] \in Nat /\ next[my[t].end] \in Node
    BY <1>0, NodeTypes
  <1>b. pc[t] \in PushEnd \cup PopEnd \cup EmptyEnd => my[t].end \in Addr
    BY Shielded
  <1>f. /\ pc' = [pc EXCEPT ![t] = pc'[t]]
        /\ \A u \in Threads \ {t} : my'[u] = my[u] /\ pointer'[u] = pointer[u]
        /\ UNCHANGED <<head, tail, next, phase, chain, retired, scan, live>>
        /\ pc[t] # "push_link" /\ pc'[t] # "push_link" /\ (pc[t] = "pop_scan" => ~Scanning(t))
    BY <1>0 DEF TypeOK, HazardTypeOK
  <1>1. TypeOK'
    <2>1. my'[t] \in Mine
      BY <1>0, <1>a, <1>b, MyType, FieldTypes, BlankType DEF TypeOK, Item, PushEnd, PopEnd, EmptyEnd
    <2>2. my' \in [Threads -> Mine]
      BY <1>0, <2>1 DEF TypeOK, Mine
    <2>3. pc'[t] \in Places
      BY <1>0 DEF TypeOK, Places
    <2>4. pc' \in [Threads -> Places]
      BY <1>0, <1>f, <2>3 DEF TypeOK
    <2>5. pointer' \in [Threads -> Node]
      BY <1>0, MyType DEF TypeOK, HazardTypeOK, Node
    <2>6. buffer' \in [Addr -> [Slots -> Cells]]
      BY <1>0, MyType, NodeTypes DEF Cells
    <2>7. push_idx' \in [Addr -> Nat] /\ pop_idx' \in [Addr -> Nat]
      BY <1>0, NodeTypes
    <2>8. finished' \subseteq Values /\ older' \in [Values -> SUBSET Values] /\ asked' \in [Threads -> SUBSET Values]
      BY <1>0, MyType DEF TypeOK, NodeInv, Pushing
    <2> QED BY <1>0, <1>f, <2>2, <2>4, <2>5, <2>6, <2>7, <2>8, SMTT(20), ZenonT(40) DEF TypeOK, HazardTypeOK, Mine, Node, Cells
  <1>2. NodeInv(t)'
    BY <1>0, MyType, ChainFacts, SMTT(20), ZenonT(40) DEF TypeOK, NodeInv, InChain, Pushing, PopEnd, EmptyEnd, Blank
  <1>3. \A a \in Addr : (Fresh(t, a)' <=> Fresh(t, a)) /\ ~Pending(t, a)' /\ ~Pending(t, a)
    BY <1>0, MyType DEF TypeOK, Fresh, Pending, Blank
  <1>4. /\ pc'[t] \in {"push_validate", "pop_validate", "empty_validate"} => pointer'[t] = my'[t].end
        /\ \A a \in Node : Shields(t, a)' => pointer'[t] = a /\ (Shields(t, a) \/ InChain(a))
    BY <1>0, MyType, ChainFacts, SMTT(20), ZenonT(40) DEF TypeOK, HazardTypeOK, ShieldInv, Shields, PushEnd, PopEnd, EmptyEnd, Blank
  <1> QED BY <1>0, <1>1, <1>2, <1>3, <1>4, <1>f, LocalStep

LEMMA PushValidateMem ==
  ASSUME MemInv, NEW t \in Threads, ProtectValidate(t, "push_validate", "push_load", "push_claim", tail)
  PROVE  MemInv'
  <1> USE DEF ProtectValidate, From, hazardKept, queueKept, hazardVars, node, history
  <1>0. /\ TypeOK /\ NodeInv(t) /\ ShieldInv(t) /\ phase = "open"
    BY ChainFacts DEF MemInv
  <1>a. my[t].end \in Addr => push_idx[my[t].end] \in Nat /\ next[my[t].end] \in Node
    BY <1>0, NodeTypes
  <1>b. pc[t] \in PushEnd \cup PopEnd \cup EmptyEnd => my[t].end \in Addr
    BY Shielded
  <1>f. /\ pc' = [pc EXCEPT ![t] = pc'[t]]
        /\ \A u \in Threads \ {t} : my'[u] = my[u] /\ pointer'[u] = pointer[u]
        /\ UNCHANGED <<head, tail, next, phase, chain, retired, scan, live>>
        /\ pc[t] # "push_link" /\ pc'[t] # "push_link" /\ (pc[t] = "pop_scan" => ~Scanning(t))
    BY <1>0 DEF TypeOK, HazardTypeOK
  <1>1. TypeOK'
    <2>1. my'[t] \in Mine
      BY <1>0, <1>a, <1>b, MyType, FieldTypes, BlankType DEF TypeOK, Item, PushEnd, PopEnd, EmptyEnd
    <2>2. my' \in [Threads -> Mine]
      BY <1>0, <2>1 DEF TypeOK, Mine
    <2>3. pc'[t] \in Places
      BY <1>0 DEF TypeOK, Places
    <2>4. pc' \in [Threads -> Places]
      BY <1>0, <1>f, <2>3 DEF TypeOK
    <2>5. pointer' \in [Threads -> Node]
      BY <1>0, MyType DEF TypeOK, HazardTypeOK, Node
    <2>6. buffer' \in [Addr -> [Slots -> Cells]]
      BY <1>0, MyType, NodeTypes DEF Cells
    <2>7. push_idx' \in [Addr -> Nat] /\ pop_idx' \in [Addr -> Nat]
      BY <1>0, NodeTypes
    <2>8. finished' \subseteq Values /\ older' \in [Values -> SUBSET Values] /\ asked' \in [Threads -> SUBSET Values]
      BY <1>0, MyType DEF TypeOK, NodeInv, Pushing
    <2> QED BY <1>0, <1>f, <2>2, <2>4, <2>5, <2>6, <2>7, <2>8, SMTT(20), ZenonT(40) DEF TypeOK, HazardTypeOK, Mine, Node, Cells
  <1>2. NodeInv(t)'
    BY <1>0, MyType, ChainFacts, SMTT(20), ZenonT(40) DEF TypeOK, NodeInv, InChain, Pushing, PopEnd, EmptyEnd, Blank
  <1>3. \A a \in Addr : (Fresh(t, a)' <=> Fresh(t, a)) /\ ~Pending(t, a)' /\ ~Pending(t, a)
    BY <1>0, MyType DEF TypeOK, Fresh, Pending, Blank
  <1>4. /\ pc'[t] \in {"push_validate", "pop_validate", "empty_validate"} => pointer'[t] = my'[t].end
        /\ \A a \in Node : Shields(t, a)' => pointer'[t] = a /\ (Shields(t, a) \/ InChain(a))
    BY <1>0, MyType, ChainFacts, SMTT(20), ZenonT(40) DEF TypeOK, HazardTypeOK, ShieldInv, Shields, PushEnd, PopEnd, EmptyEnd, Blank
  <1> QED BY <1>0, <1>1, <1>2, <1>3, <1>4, <1>f, LocalStep

LEMMA PushClaimMem ==
  ASSUME MemInv, NEW t \in Threads, PushClaim(t)
  PROVE  MemInv'
  <1> USE DEF PushClaim, From, hazardKept, queueKept, hazardVars, node, history
  <1>0. /\ TypeOK /\ NodeInv(t) /\ ShieldInv(t) /\ phase = "open"
    BY ChainFacts DEF MemInv
  <1>a. my[t].end \in Addr => push_idx[my[t].end] \in Nat /\ next[my[t].end] \in Node
    BY <1>0, NodeTypes
  <1>b. pc[t] \in PushEnd \cup PopEnd \cup EmptyEnd => my[t].end \in Addr
    BY Shielded
  <1>f. /\ pc' = [pc EXCEPT ![t] = pc'[t]]
        /\ \A u \in Threads \ {t} : my'[u] = my[u] /\ pointer'[u] = pointer[u]
        /\ UNCHANGED <<head, tail, next, phase, chain, retired, scan, live>>
        /\ pc[t] # "push_link" /\ pc'[t] # "push_link" /\ (pc[t] = "pop_scan" => ~Scanning(t))
    BY <1>0 DEF TypeOK, HazardTypeOK
  <1>1. TypeOK'
    <2>1. my'[t] \in Mine
      BY <1>0, <1>a, <1>b, MyType, FieldTypes, BlankType DEF TypeOK, Item, PushEnd, PopEnd, EmptyEnd
    <2>2. my' \in [Threads -> Mine]
      BY <1>0, <2>1 DEF TypeOK, Mine
    <2>3. pc'[t] \in Places
      BY <1>0 DEF TypeOK, Places
    <2>4. pc' \in [Threads -> Places]
      BY <1>0, <1>f, <2>3 DEF TypeOK
    <2>5. pointer' \in [Threads -> Node]
      BY <1>0, MyType DEF TypeOK, HazardTypeOK, Node
    <2>6. buffer' \in [Addr -> [Slots -> Cells]]
      BY <1>0, MyType, NodeTypes DEF Cells
    <2>7. push_idx' \in [Addr -> Nat] /\ pop_idx' \in [Addr -> Nat]
      <3>1. /\ push_idx' = [push_idx EXCEPT ![my[t].end] = push_idx[my[t].end] + 1]
            /\ my[t].end \in Addr /\ push_idx[my[t].end] \in Nat /\ push_idx \in [Addr -> Nat]
        BY <1>0, <1>b, NodeTypes DEF PushEnd, PopEnd
      <3>2. push_idx' \in [Addr -> Nat]
        BY ONLY <3>1
      <3> QED BY <1>0, <3>2, NodeTypes
    <2>8. finished' \subseteq Values /\ older' \in [Values -> SUBSET Values] /\ asked' \in [Threads -> SUBSET Values]
      BY <1>0, MyType DEF TypeOK, NodeInv, Pushing
    <2> QED BY <1>0, <1>f, <2>2, <2>4, <2>5, <2>6, <2>7, <2>8, SMTT(20), ZenonT(40) DEF TypeOK, HazardTypeOK, Mine, Node, Cells
  <1>2. NodeInv(t)'
    <2>1. /\ pc[t] = "push_claim" /\ pc'[t] \in {"push_store", "push_new"}
          /\ my'[t].item = my[t].item /\ my'[t].end = my[t].end
      BY <1>0, MyType DEF TypeOK, Mine
    <2> QED BY <1>0, <2>1 DEF NodeInv, InChain, Pushing, PopEnd, EmptyEnd
  <1>3. \A a \in Addr : (Fresh(t, a)' <=> Fresh(t, a)) /\ ~Pending(t, a)' /\ ~Pending(t, a)
    BY <1>0, MyType DEF TypeOK, Fresh, Pending, Blank
  <1>4. /\ pc'[t] \in {"push_validate", "pop_validate", "empty_validate"} => pointer'[t] = my'[t].end
        /\ \A a \in Node : Shields(t, a)' => pointer'[t] = a /\ (Shields(t, a) \/ InChain(a))
    BY <1>0, MyType, ChainFacts, SMTT(20), ZenonT(40) DEF TypeOK, HazardTypeOK, ShieldInv, Shields, PushEnd, PopEnd, EmptyEnd, Blank
  <1> QED BY <1>0, <1>1, <1>2, <1>3, <1>4, <1>f, LocalStep

LEMMA PushStoreMem ==
  ASSUME MemInv, NEW t \in Threads, PushStore(t)
  PROVE  MemInv'
  <1> USE DEF PushStore, Again, From, hazardKept, queueKept, hazardVars, node, history
  <1>0. /\ TypeOK /\ NodeInv(t) /\ ShieldInv(t) /\ phase = "open"
    BY ChainFacts DEF MemInv
  <1>a. my[t].end \in Addr => push_idx[my[t].end] \in Nat /\ next[my[t].end] \in Node
    BY <1>0, NodeTypes
  <1>b. pc[t] \in PushEnd \cup PopEnd \cup EmptyEnd => my[t].end \in Addr
    BY Shielded
  <1>f. /\ pc' = [pc EXCEPT ![t] = pc'[t]]
        /\ \A u \in Threads \ {t} : my'[u] = my[u] /\ pointer'[u] = pointer[u]
        /\ UNCHANGED <<head, tail, next, phase, chain, retired, scan, live>>
        /\ pc[t] # "push_link" /\ pc'[t] # "push_link" /\ (pc[t] = "pop_scan" => ~Scanning(t))
    BY <1>0 DEF TypeOK, HazardTypeOK
  <1>1. TypeOK'
    <2>1. my'[t] \in Mine
      BY <1>0, <1>a, <1>b, MyType, FieldTypes, BlankType DEF TypeOK, Item, PushEnd, PopEnd, EmptyEnd
    <2>2. my' \in [Threads -> Mine]
      BY <1>0, <2>1 DEF TypeOK, Mine
    <2>3. pc'[t] \in Places
      BY <1>0 DEF TypeOK, Places
    <2>4. pc' \in [Threads -> Places]
      BY <1>0, <1>f, <2>3 DEF TypeOK
    <2>5. pointer' \in [Threads -> Node]
      BY <1>0, MyType DEF TypeOK, HazardTypeOK, Node
    <2>6. buffer' \in [Addr -> [Slots -> Cells]]
      <3>1. buffer' = buffer \/ buffer' = [buffer EXCEPT ![my[t].end][my[t].idx] = my[t].item]
        BY <1>0
      <3>2. my[t].item \in Cells /\ buffer \in [Addr -> [Slots -> Cells]]
        BY <1>0, MyType, NodeTypes DEF Cells
      <3> QED BY ONLY <3>1, <3>2
    <2>7. push_idx' \in [Addr -> Nat] /\ pop_idx' \in [Addr -> Nat]
      BY <1>0, NodeTypes
    <2>8. finished' \subseteq Values /\ older' \in [Values -> SUBSET Values] /\ asked' \in [Threads -> SUBSET Values]
      BY <1>0, MyType DEF TypeOK, NodeInv, Pushing
    <2> QED BY <1>0, <1>f, <2>2, <2>4, <2>5, <2>6, <2>7, <2>8, SMTT(20), ZenonT(40) DEF TypeOK, HazardTypeOK, Mine, Node, Cells
  <1>2. NodeInv(t)'
    <2>1. /\ pc[t] = "push_store" /\ pc'[t] \in {"pushed", "push_load"} /\ my'[t].item = my[t].item
      BY <1>0, MyType DEF TypeOK, Mine, Blank
    <2> QED BY <1>0, <2>1 DEF NodeInv, InChain, Pushing, PopEnd, EmptyEnd
  <1>3. \A a \in Addr : (Fresh(t, a)' <=> Fresh(t, a)) /\ ~Pending(t, a)' /\ ~Pending(t, a)
    BY <1>0, MyType DEF TypeOK, Fresh, Pending, Blank
  <1>4. /\ pc'[t] \in {"push_validate", "pop_validate", "empty_validate"} => pointer'[t] = my'[t].end
        /\ \A a \in Node : Shields(t, a)' => pointer'[t] = a /\ (Shields(t, a) \/ InChain(a))
    BY <1>0, MyType, ChainFacts, SMTT(20), ZenonT(40) DEF TypeOK, HazardTypeOK, ShieldInv, Shields, PushEnd, PopEnd, EmptyEnd, Blank
  <1> QED BY <1>0, <1>1, <1>2, <1>3, <1>4, <1>f, LocalStep

LEMMA PushNoMemoryMem ==
  ASSUME MemInv, NEW t \in Threads, PushNoMemory(t)
  PROVE  MemInv'
  <1> USE DEF PushNoMemory, Again, From, hazardKept, queueKept, hazardVars, node, history
  <1>0. /\ TypeOK /\ NodeInv(t) /\ ShieldInv(t) /\ phase = "open"
    BY ChainFacts DEF MemInv
  <1>a. my[t].end \in Addr => push_idx[my[t].end] \in Nat /\ next[my[t].end] \in Node
    BY <1>0, NodeTypes
  <1>b. pc[t] \in PushEnd \cup PopEnd \cup EmptyEnd => my[t].end \in Addr
    BY Shielded
  <1>f. /\ pc' = [pc EXCEPT ![t] = pc'[t]]
        /\ \A u \in Threads \ {t} : my'[u] = my[u] /\ pointer'[u] = pointer[u]
        /\ UNCHANGED <<head, tail, next, phase, chain, retired, scan, live>>
        /\ pc[t] # "push_link" /\ pc'[t] # "push_link" /\ (pc[t] = "pop_scan" => ~Scanning(t))
    BY <1>0 DEF TypeOK, HazardTypeOK
  <1>1. TypeOK'
    <2>1. my'[t] \in Mine
      BY <1>0, <1>a, <1>b, MyType, FieldTypes, BlankType DEF TypeOK, Item, PushEnd, PopEnd, EmptyEnd
    <2>2. my' \in [Threads -> Mine]
      BY <1>0, <2>1 DEF TypeOK, Mine
    <2>3. pc'[t] \in Places
      BY <1>0 DEF TypeOK, Places
    <2>4. pc' \in [Threads -> Places]
      BY <1>0, <1>f, <2>3 DEF TypeOK
    <2>5. pointer' \in [Threads -> Node]
      BY <1>0, MyType DEF TypeOK, HazardTypeOK, Node
    <2>6. buffer' \in [Addr -> [Slots -> Cells]]
      BY <1>0, MyType, NodeTypes DEF Cells
    <2>7. push_idx' \in [Addr -> Nat] /\ pop_idx' \in [Addr -> Nat]
      BY <1>0, NodeTypes
    <2>8. finished' \subseteq Values /\ older' \in [Values -> SUBSET Values] /\ asked' \in [Threads -> SUBSET Values]
      BY <1>0, MyType DEF TypeOK, NodeInv, Pushing
    <2> QED BY <1>0, <1>f, <2>2, <2>4, <2>5, <2>6, <2>7, <2>8, SMTT(20), ZenonT(40) DEF TypeOK, HazardTypeOK, Mine, Node, Cells
  <1>2. NodeInv(t)'
    BY <1>0, MyType, ChainFacts, SMTT(20), ZenonT(40) DEF TypeOK, NodeInv, InChain, Pushing, PopEnd, EmptyEnd, Blank
  <1>3. \A a \in Addr : (Fresh(t, a)' <=> Fresh(t, a)) /\ ~Pending(t, a)' /\ ~Pending(t, a)
    BY <1>0, MyType DEF TypeOK, Fresh, Pending, Blank
  <1>4. /\ pc'[t] \in {"push_validate", "pop_validate", "empty_validate"} => pointer'[t] = my'[t].end
        /\ \A a \in Node : Shields(t, a)' => pointer'[t] = a /\ (Shields(t, a) \/ InChain(a))
    BY <1>0, MyType, ChainFacts, SMTT(20), ZenonT(40) DEF TypeOK, HazardTypeOK, ShieldInv, Shields, PushEnd, PopEnd, EmptyEnd, Blank
  <1> QED BY <1>0, <1>1, <1>2, <1>3, <1>4, <1>f, LocalStep

LEMMA PushSwingFailsMem ==
  ASSUME MemInv, NEW t \in Threads, PushSwing(t), my[t].end # tail
  PROVE  MemInv'
  <1> USE DEF PushSwing, From, hazardKept, queueKept, hazardVars, node, history
  <1>0. /\ TypeOK /\ NodeInv(t) /\ ShieldInv(t) /\ phase = "open"
    BY ChainFacts DEF MemInv
  <1>a. my[t].end \in Addr => push_idx[my[t].end] \in Nat /\ next[my[t].end] \in Node
    BY <1>0, NodeTypes
  <1>b. pc[t] \in PushEnd \cup PopEnd \cup EmptyEnd => my[t].end \in Addr
    BY Shielded
  <1>f. /\ pc' = [pc EXCEPT ![t] = pc'[t]]
        /\ \A u \in Threads \ {t} : my'[u] = my[u] /\ pointer'[u] = pointer[u]
        /\ UNCHANGED <<head, tail, next, phase, chain, retired, scan, live>>
        /\ pc[t] # "push_link" /\ pc'[t] # "push_link" /\ (pc[t] = "pop_scan" => ~Scanning(t))
    BY <1>0 DEF TypeOK, HazardTypeOK
  <1>1. TypeOK'
    <2>1. my'[t] \in Mine
      BY <1>0, <1>a, <1>b, MyType, FieldTypes, BlankType DEF TypeOK, Item, PushEnd, PopEnd, EmptyEnd
    <2>2. my' \in [Threads -> Mine]
      BY <1>0, <2>1 DEF TypeOK, Mine
    <2>3. pc'[t] \in Places
      BY <1>0 DEF TypeOK, Places
    <2>4. pc' \in [Threads -> Places]
      BY <1>0, <1>f, <2>3 DEF TypeOK
    <2>5. pointer' \in [Threads -> Node]
      BY <1>0, MyType DEF TypeOK, HazardTypeOK, Node
    <2>6. buffer' \in [Addr -> [Slots -> Cells]]
      BY <1>0, MyType, NodeTypes DEF Cells
    <2>7. push_idx' \in [Addr -> Nat] /\ pop_idx' \in [Addr -> Nat]
      BY <1>0, NodeTypes
    <2>8. finished' \subseteq Values /\ older' \in [Values -> SUBSET Values] /\ asked' \in [Threads -> SUBSET Values]
      BY <1>0, MyType DEF TypeOK, NodeInv, Pushing
    <2> QED BY <1>0, <1>f, <2>2, <2>4, <2>5, <2>6, <2>7, <2>8, SMTT(20), ZenonT(40) DEF TypeOK, HazardTypeOK, Mine, Node, Cells
  <1>2. NodeInv(t)'
    BY <1>0, MyType, ChainFacts, SMTT(20), ZenonT(40) DEF TypeOK, NodeInv, InChain, Pushing, PopEnd, EmptyEnd, Blank
  <1>3. \A a \in Addr : (Fresh(t, a)' <=> Fresh(t, a)) /\ ~Pending(t, a)' /\ ~Pending(t, a)
    BY <1>0, MyType DEF TypeOK, Fresh, Pending, Blank
  <1>4. /\ pc'[t] \in {"push_validate", "pop_validate", "empty_validate"} => pointer'[t] = my'[t].end
        /\ \A a \in Node : Shields(t, a)' => pointer'[t] = a /\ (Shields(t, a) \/ InChain(a))
    BY <1>0, MyType, ChainFacts, SMTT(20), ZenonT(40) DEF TypeOK, HazardTypeOK, ShieldInv, Shields, PushEnd, PopEnd, EmptyEnd, Blank
  <1> QED BY <1>0, <1>1, <1>2, <1>3, <1>4, <1>f, LocalStep

LEMMA PushReturnMem ==
  ASSUME MemInv, NEW t \in Threads, PushReturn(t)
  PROVE  MemInv'
  <1> USE DEF PushReturn, Clear, Forget, From, hazardKept, queueKept, hazardVars, node, history
  <1>0. /\ TypeOK /\ NodeInv(t) /\ ShieldInv(t) /\ phase = "open"
    BY ChainFacts DEF MemInv
  <1>a. my[t].end \in Addr => push_idx[my[t].end] \in Nat /\ next[my[t].end] \in Node
    BY <1>0, NodeTypes
  <1>b. pc[t] \in PushEnd \cup PopEnd \cup EmptyEnd => my[t].end \in Addr
    BY Shielded
  <1>f. /\ pc' = [pc EXCEPT ![t] = pc'[t]]
        /\ \A u \in Threads \ {t} : my'[u] = my[u] /\ pointer'[u] = pointer[u]
        /\ UNCHANGED <<head, tail, next, phase, chain, retired, scan, live>>
        /\ pc[t] # "push_link" /\ pc'[t] # "push_link" /\ (pc[t] = "pop_scan" => ~Scanning(t))
    BY <1>0 DEF TypeOK, HazardTypeOK
  <1>1. TypeOK'
    <2>1. my'[t] \in Mine
      BY <1>0, <1>a, <1>b, MyType, FieldTypes, BlankType DEF TypeOK, Item, PushEnd, PopEnd, EmptyEnd
    <2>2. my' \in [Threads -> Mine]
      BY <1>0, <2>1 DEF TypeOK, Mine
    <2>3. pc'[t] \in Places
      BY <1>0 DEF TypeOK, Places
    <2>4. pc' \in [Threads -> Places]
      BY <1>0, <1>f, <2>3 DEF TypeOK
    <2>5. pointer' \in [Threads -> Node]
      BY <1>0, MyType DEF TypeOK, HazardTypeOK, Node
    <2>6. buffer' \in [Addr -> [Slots -> Cells]]
      BY <1>0, MyType, NodeTypes DEF Cells
    <2>7. push_idx' \in [Addr -> Nat] /\ pop_idx' \in [Addr -> Nat]
      BY <1>0, NodeTypes
    <2>8. finished' \subseteq Values /\ older' \in [Values -> SUBSET Values] /\ asked' \in [Threads -> SUBSET Values]
      BY <1>0, MyType DEF TypeOK, NodeInv, Pushing
    <2> QED BY <1>0, <1>f, <2>2, <2>4, <2>5, <2>6, <2>7, <2>8, SMTT(20), ZenonT(40) DEF TypeOK, HazardTypeOK, Mine, Node, Cells
  <1>2. NodeInv(t)'
    BY <1>0, MyType, ChainFacts, SMTT(20), ZenonT(40) DEF TypeOK, NodeInv, InChain, Pushing, PopEnd, EmptyEnd, Blank
  <1>3. \A a \in Addr : (Fresh(t, a)' <=> Fresh(t, a)) /\ ~Pending(t, a)' /\ ~Pending(t, a)
    BY <1>0, MyType DEF TypeOK, Fresh, Pending, Blank
  <1>4. /\ pc'[t] \in {"push_validate", "pop_validate", "empty_validate"} => pointer'[t] = my'[t].end
        /\ \A a \in Node : Shields(t, a)' => pointer'[t] = a /\ (Shields(t, a) \/ InChain(a))
    BY <1>0, MyType, ChainFacts, SMTT(20), ZenonT(40) DEF TypeOK, HazardTypeOK, ShieldInv, Shields, PushEnd, PopEnd, EmptyEnd, Blank
  <1> QED BY <1>0, <1>1, <1>2, <1>3, <1>4, <1>f, LocalStep

LEMMA CallPopMem ==
  ASSUME MemInv, NEW t \in Threads, CallPop(t)
  PROVE  MemInv'
  <1> USE DEF CallPop, From, hazardKept, queueKept, hazardVars, node, history
  <1>0. /\ TypeOK /\ NodeInv(t) /\ ShieldInv(t) /\ phase = "open"
    BY ChainFacts DEF MemInv
  <1>a. my[t].end \in Addr => push_idx[my[t].end] \in Nat /\ next[my[t].end] \in Node
    BY <1>0, NodeTypes
  <1>b. pc[t] \in PushEnd \cup PopEnd \cup EmptyEnd => my[t].end \in Addr
    BY Shielded
  <1>f. /\ pc' = [pc EXCEPT ![t] = pc'[t]]
        /\ \A u \in Threads \ {t} : my'[u] = my[u] /\ pointer'[u] = pointer[u]
        /\ UNCHANGED <<head, tail, next, phase, chain, retired, scan, live>>
        /\ pc[t] # "push_link" /\ pc'[t] # "push_link" /\ (pc[t] = "pop_scan" => ~Scanning(t))
    BY <1>0 DEF TypeOK, HazardTypeOK
  <1>1. TypeOK'
    <2>1. my'[t] \in Mine
      BY <1>0, <1>a, <1>b, MyType, FieldTypes, BlankType DEF TypeOK, Item, PushEnd, PopEnd, EmptyEnd
    <2>2. my' \in [Threads -> Mine]
      BY <1>0, <2>1 DEF TypeOK, Mine
    <2>3. pc'[t] \in Places
      BY <1>0 DEF TypeOK, Places
    <2>4. pc' \in [Threads -> Places]
      BY <1>0, <1>f, <2>3 DEF TypeOK
    <2>5. pointer' \in [Threads -> Node]
      BY <1>0, MyType DEF TypeOK, HazardTypeOK, Node
    <2>6. buffer' \in [Addr -> [Slots -> Cells]]
      BY <1>0, MyType, NodeTypes DEF Cells
    <2>7. push_idx' \in [Addr -> Nat] /\ pop_idx' \in [Addr -> Nat]
      BY <1>0, NodeTypes
    <2>8. finished' \subseteq Values /\ older' \in [Values -> SUBSET Values] /\ asked' \in [Threads -> SUBSET Values]
      BY <1>0, MyType DEF TypeOK, NodeInv, Pushing
    <2> QED BY <1>0, <1>f, <2>2, <2>4, <2>5, <2>6, <2>7, <2>8, SMTT(20), ZenonT(40) DEF TypeOK, HazardTypeOK, Mine, Node, Cells
  <1>2. NodeInv(t)'
    BY <1>0, MyType, ChainFacts, SMTT(20), ZenonT(40) DEF TypeOK, NodeInv, InChain, Pushing, PopEnd, EmptyEnd, Blank
  <1>3. \A a \in Addr : (Fresh(t, a)' <=> Fresh(t, a)) /\ ~Pending(t, a)' /\ ~Pending(t, a)
    BY <1>0, MyType DEF TypeOK, Fresh, Pending, Blank
  <1>4. /\ pc'[t] \in {"push_validate", "pop_validate", "empty_validate"} => pointer'[t] = my'[t].end
        /\ \A a \in Node : Shields(t, a)' => pointer'[t] = a /\ (Shields(t, a) \/ InChain(a))
    BY <1>0, MyType, ChainFacts, SMTT(20), ZenonT(40) DEF TypeOK, HazardTypeOK, ShieldInv, Shields, PushEnd, PopEnd, EmptyEnd, Blank
  <1> QED BY <1>0, <1>1, <1>2, <1>3, <1>4, <1>f, LocalStep

LEMMA PopLoadMem ==
  ASSUME MemInv, NEW t \in Threads, ProtectLoad(t, "pop_load", "pop_publish", head)
  PROVE  MemInv'
  <1> USE DEF ProtectLoad, From, hazardKept, queueKept, hazardVars, node, history
  <1>0. /\ TypeOK /\ NodeInv(t) /\ ShieldInv(t) /\ phase = "open"
    BY ChainFacts DEF MemInv
  <1>a. my[t].end \in Addr => push_idx[my[t].end] \in Nat /\ next[my[t].end] \in Node
    BY <1>0, NodeTypes
  <1>b. pc[t] \in PushEnd \cup PopEnd \cup EmptyEnd => my[t].end \in Addr
    BY Shielded
  <1>f. /\ pc' = [pc EXCEPT ![t] = pc'[t]]
        /\ \A u \in Threads \ {t} : my'[u] = my[u] /\ pointer'[u] = pointer[u]
        /\ UNCHANGED <<head, tail, next, phase, chain, retired, scan, live>>
        /\ pc[t] # "push_link" /\ pc'[t] # "push_link" /\ (pc[t] = "pop_scan" => ~Scanning(t))
    BY <1>0 DEF TypeOK, HazardTypeOK
  <1>1. TypeOK'
    <2>1. my'[t] \in Mine
      BY <1>0, <1>a, <1>b, MyType, FieldTypes, BlankType DEF TypeOK, Item, PushEnd, PopEnd, EmptyEnd
    <2>2. my' \in [Threads -> Mine]
      BY <1>0, <2>1 DEF TypeOK, Mine
    <2>3. pc'[t] \in Places
      BY <1>0 DEF TypeOK, Places
    <2>4. pc' \in [Threads -> Places]
      BY <1>0, <1>f, <2>3 DEF TypeOK
    <2>5. pointer' \in [Threads -> Node]
      BY <1>0, MyType DEF TypeOK, HazardTypeOK, Node
    <2>6. buffer' \in [Addr -> [Slots -> Cells]]
      BY <1>0, MyType, NodeTypes DEF Cells
    <2>7. push_idx' \in [Addr -> Nat] /\ pop_idx' \in [Addr -> Nat]
      BY <1>0, NodeTypes
    <2>8. finished' \subseteq Values /\ older' \in [Values -> SUBSET Values] /\ asked' \in [Threads -> SUBSET Values]
      BY <1>0, MyType DEF TypeOK, NodeInv, Pushing
    <2> QED BY <1>0, <1>f, <2>2, <2>4, <2>5, <2>6, <2>7, <2>8, SMTT(20), ZenonT(40) DEF TypeOK, HazardTypeOK, Mine, Node, Cells
  <1>2. NodeInv(t)'
    BY <1>0, MyType, ChainFacts, SMTT(20), ZenonT(40) DEF TypeOK, NodeInv, InChain, Pushing, PopEnd, EmptyEnd, Blank
  <1>3. \A a \in Addr : (Fresh(t, a)' <=> Fresh(t, a)) /\ ~Pending(t, a)' /\ ~Pending(t, a)
    BY <1>0, MyType DEF TypeOK, Fresh, Pending, Blank
  <1>4. /\ pc'[t] \in {"push_validate", "pop_validate", "empty_validate"} => pointer'[t] = my'[t].end
        /\ \A a \in Node : Shields(t, a)' => pointer'[t] = a /\ (Shields(t, a) \/ InChain(a))
    BY <1>0, MyType, ChainFacts, SMTT(20), ZenonT(40) DEF TypeOK, HazardTypeOK, ShieldInv, Shields, PushEnd, PopEnd, EmptyEnd, Blank
  <1> QED BY <1>0, <1>1, <1>2, <1>3, <1>4, <1>f, LocalStep

LEMMA PopPublishMem ==
  ASSUME MemInv, NEW t \in Threads, ProtectPublish(t, "pop_publish", "pop_validate")
  PROVE  MemInv'
  <1> USE DEF ProtectPublish, Publish, From, hazardKept, queueKept, hazardVars, node, history
  <1>0. /\ TypeOK /\ NodeInv(t) /\ ShieldInv(t) /\ phase = "open"
    BY ChainFacts DEF MemInv
  <1>a. my[t].end \in Addr => push_idx[my[t].end] \in Nat /\ next[my[t].end] \in Node
    BY <1>0, NodeTypes
  <1>b. pc[t] \in PushEnd \cup PopEnd \cup EmptyEnd => my[t].end \in Addr
    BY Shielded
  <1>f. /\ pc' = [pc EXCEPT ![t] = pc'[t]]
        /\ \A u \in Threads \ {t} : my'[u] = my[u] /\ pointer'[u] = pointer[u]
        /\ UNCHANGED <<head, tail, next, phase, chain, retired, scan, live>>
        /\ pc[t] # "push_link" /\ pc'[t] # "push_link" /\ (pc[t] = "pop_scan" => ~Scanning(t))
    BY <1>0 DEF TypeOK, HazardTypeOK
  <1>1. TypeOK'
    <2>1. my'[t] \in Mine
      BY <1>0, <1>a, <1>b, MyType, FieldTypes, BlankType DEF TypeOK, Item, PushEnd, PopEnd, EmptyEnd
    <2>2. my' \in [Threads -> Mine]
      BY <1>0, <2>1 DEF TypeOK, Mine
    <2>3. pc'[t] \in Places
      BY <1>0 DEF TypeOK, Places
    <2>4. pc' \in [Threads -> Places]
      BY <1>0, <1>f, <2>3 DEF TypeOK
    <2>5. pointer' \in [Threads -> Node]
      BY <1>0, MyType DEF TypeOK, HazardTypeOK, Node
    <2>6. buffer' \in [Addr -> [Slots -> Cells]]
      BY <1>0, MyType, NodeTypes DEF Cells
    <2>7. push_idx' \in [Addr -> Nat] /\ pop_idx' \in [Addr -> Nat]
      BY <1>0, NodeTypes
    <2>8. finished' \subseteq Values /\ older' \in [Values -> SUBSET Values] /\ asked' \in [Threads -> SUBSET Values]
      BY <1>0, MyType DEF TypeOK, NodeInv, Pushing
    <2> QED BY <1>0, <1>f, <2>2, <2>4, <2>5, <2>6, <2>7, <2>8, SMTT(20), ZenonT(40) DEF TypeOK, HazardTypeOK, Mine, Node, Cells
  <1>2. NodeInv(t)'
    BY <1>0, MyType, ChainFacts, SMTT(20), ZenonT(40) DEF TypeOK, NodeInv, InChain, Pushing, PopEnd, EmptyEnd, Blank
  <1>3. \A a \in Addr : (Fresh(t, a)' <=> Fresh(t, a)) /\ ~Pending(t, a)' /\ ~Pending(t, a)
    BY <1>0, MyType DEF TypeOK, Fresh, Pending, Blank
  <1>4. /\ pc'[t] \in {"push_validate", "pop_validate", "empty_validate"} => pointer'[t] = my'[t].end
        /\ \A a \in Node : Shields(t, a)' => pointer'[t] = a /\ (Shields(t, a) \/ InChain(a))
    BY <1>0, MyType, ChainFacts, SMTT(20), ZenonT(40) DEF TypeOK, HazardTypeOK, ShieldInv, Shields, PushEnd, PopEnd, EmptyEnd, Blank
  <1> QED BY <1>0, <1>1, <1>2, <1>3, <1>4, <1>f, LocalStep

LEMMA PopValidateMem ==
  ASSUME MemInv, NEW t \in Threads, ProtectValidate(t, "pop_validate", "pop_load", "pop_claim", head)
  PROVE  MemInv'
  <1> USE DEF ProtectValidate, From, hazardKept, queueKept, hazardVars, node, history
  <1>0. /\ TypeOK /\ NodeInv(t) /\ ShieldInv(t) /\ phase = "open"
    BY ChainFacts DEF MemInv
  <1>a. my[t].end \in Addr => push_idx[my[t].end] \in Nat /\ next[my[t].end] \in Node
    BY <1>0, NodeTypes
  <1>b. pc[t] \in PushEnd \cup PopEnd \cup EmptyEnd => my[t].end \in Addr
    BY Shielded
  <1>f. /\ pc' = [pc EXCEPT ![t] = pc'[t]]
        /\ \A u \in Threads \ {t} : my'[u] = my[u] /\ pointer'[u] = pointer[u]
        /\ UNCHANGED <<head, tail, next, phase, chain, retired, scan, live>>
        /\ pc[t] # "push_link" /\ pc'[t] # "push_link" /\ (pc[t] = "pop_scan" => ~Scanning(t))
    BY <1>0 DEF TypeOK, HazardTypeOK
  <1>1. TypeOK'
    <2>1. my'[t] \in Mine
      BY <1>0, <1>a, <1>b, MyType, FieldTypes, BlankType DEF TypeOK, Item, PushEnd, PopEnd, EmptyEnd
    <2>2. my' \in [Threads -> Mine]
      BY <1>0, <2>1 DEF TypeOK, Mine
    <2>3. pc'[t] \in Places
      BY <1>0 DEF TypeOK, Places
    <2>4. pc' \in [Threads -> Places]
      BY <1>0, <1>f, <2>3 DEF TypeOK
    <2>5. pointer' \in [Threads -> Node]
      BY <1>0, MyType DEF TypeOK, HazardTypeOK, Node
    <2>6. buffer' \in [Addr -> [Slots -> Cells]]
      BY <1>0, MyType, NodeTypes DEF Cells
    <2>7. push_idx' \in [Addr -> Nat] /\ pop_idx' \in [Addr -> Nat]
      BY <1>0, NodeTypes
    <2>8. finished' \subseteq Values /\ older' \in [Values -> SUBSET Values] /\ asked' \in [Threads -> SUBSET Values]
      BY <1>0, MyType DEF TypeOK, NodeInv, Pushing
    <2> QED BY <1>0, <1>f, <2>2, <2>4, <2>5, <2>6, <2>7, <2>8, SMTT(20), ZenonT(40) DEF TypeOK, HazardTypeOK, Mine, Node, Cells
  <1>2. NodeInv(t)'
    BY <1>0, MyType, ChainFacts, SMTT(20), ZenonT(40) DEF TypeOK, NodeInv, InChain, Pushing, PopEnd, EmptyEnd, Blank
  <1>3. \A a \in Addr : (Fresh(t, a)' <=> Fresh(t, a)) /\ ~Pending(t, a)' /\ ~Pending(t, a)
    BY <1>0, MyType DEF TypeOK, Fresh, Pending, Blank
  <1>4. /\ pc'[t] \in {"push_validate", "pop_validate", "empty_validate"} => pointer'[t] = my'[t].end
        /\ \A a \in Node : Shields(t, a)' => pointer'[t] = a /\ (Shields(t, a) \/ InChain(a))
    BY <1>0, MyType, ChainFacts, SMTT(20), ZenonT(40) DEF TypeOK, HazardTypeOK, ShieldInv, Shields, PushEnd, PopEnd, EmptyEnd, Blank
  <1> QED BY <1>0, <1>1, <1>2, <1>3, <1>4, <1>f, LocalStep

LEMMA PopClaimMem ==
  ASSUME MemInv, NEW t \in Threads, PopClaim(t)
  PROVE  MemInv'
  <1> USE DEF PopClaim, From, hazardKept, queueKept, hazardVars, node, history
  <1>0. /\ TypeOK /\ NodeInv(t) /\ ShieldInv(t) /\ phase = "open"
    BY ChainFacts DEF MemInv
  <1>a. my[t].end \in Addr => push_idx[my[t].end] \in Nat /\ next[my[t].end] \in Node
    BY <1>0, NodeTypes
  <1>b. pc[t] \in PushEnd \cup PopEnd \cup EmptyEnd => my[t].end \in Addr
    BY Shielded
  <1>f. /\ pc' = [pc EXCEPT ![t] = pc'[t]]
        /\ \A u \in Threads \ {t} : my'[u] = my[u] /\ pointer'[u] = pointer[u]
        /\ UNCHANGED <<head, tail, next, phase, chain, retired, scan, live>>
        /\ pc[t] # "push_link" /\ pc'[t] # "push_link" /\ (pc[t] = "pop_scan" => ~Scanning(t))
    BY <1>0 DEF TypeOK, HazardTypeOK
  <1>1. TypeOK'
    <2>1. my'[t] \in Mine
      BY <1>0, <1>a, <1>b, MyType, FieldTypes, BlankType DEF TypeOK, Item, PushEnd, PopEnd, EmptyEnd
    <2>2. my' \in [Threads -> Mine]
      BY <1>0, <2>1 DEF TypeOK, Mine
    <2>3. pc'[t] \in Places
      BY <1>0 DEF TypeOK, Places
    <2>4. pc' \in [Threads -> Places]
      BY <1>0, <1>f, <2>3 DEF TypeOK
    <2>5. pointer' \in [Threads -> Node]
      BY <1>0, MyType DEF TypeOK, HazardTypeOK, Node
    <2>6. buffer' \in [Addr -> [Slots -> Cells]]
      BY <1>0, MyType, NodeTypes DEF Cells
    <2>7. push_idx' \in [Addr -> Nat] /\ pop_idx' \in [Addr -> Nat]
      <3>1. /\ pop_idx' = [pop_idx EXCEPT ![my[t].end] = pop_idx[my[t].end] + 1]
            /\ my[t].end \in Addr /\ pop_idx[my[t].end] \in Nat /\ pop_idx \in [Addr -> Nat]
        BY <1>0, <1>b, NodeTypes DEF PushEnd, PopEnd
      <3>2. pop_idx' \in [Addr -> Nat]
        BY ONLY <3>1
      <3> QED BY <1>0, <3>2, NodeTypes
    <2>8. finished' \subseteq Values /\ older' \in [Values -> SUBSET Values] /\ asked' \in [Threads -> SUBSET Values]
      BY <1>0, MyType DEF TypeOK, NodeInv, Pushing
    <2> QED BY <1>0, <1>f, <2>2, <2>4, <2>5, <2>6, <2>7, <2>8, SMTT(20), ZenonT(40) DEF TypeOK, HazardTypeOK, Mine, Node, Cells
  <1>2. NodeInv(t)'
    <2>1. /\ pc[t] = "pop_claim" /\ pc'[t] \in {"pop_take", "pop_next"}
          /\ my'[t].item = my[t].item /\ my'[t].end = my[t].end
      BY <1>0, MyType DEF TypeOK, Mine
    <2> QED BY <1>0, <2>1 DEF NodeInv, InChain, Pushing, PopEnd, EmptyEnd
  <1>3. \A a \in Addr : (Fresh(t, a)' <=> Fresh(t, a)) /\ ~Pending(t, a)' /\ ~Pending(t, a)
    BY <1>0, MyType DEF TypeOK, Fresh, Pending, Blank
  <1>4. /\ pc'[t] \in {"push_validate", "pop_validate", "empty_validate"} => pointer'[t] = my'[t].end
        /\ \A a \in Node : Shields(t, a)' => pointer'[t] = a /\ (Shields(t, a) \/ InChain(a))
    BY <1>0, MyType, ChainFacts, SMTT(20), ZenonT(40) DEF TypeOK, HazardTypeOK, ShieldInv, Shields, PushEnd, PopEnd, EmptyEnd, Blank
  <1> QED BY <1>0, <1>1, <1>2, <1>3, <1>4, <1>f, LocalStep

LEMMA PopTakeMem ==
  ASSUME MemInv, NEW t \in Threads, PopTake(t), SlotInv
  PROVE  MemInv'
  <1> USE DEF PopTake, Taken, Forget, From, hazardKept, queueKept, hazardVars, node, history
  <1>0. /\ TypeOK /\ NodeInv(t) /\ ShieldInv(t) /\ phase = "open"
    BY ChainFacts DEF MemInv
  <1>a. my[t].end \in Addr => push_idx[my[t].end] \in Nat /\ next[my[t].end] \in Node
    BY <1>0, NodeTypes
  <1>b. pc[t] \in PushEnd \cup PopEnd \cup EmptyEnd => my[t].end \in Addr
    BY Shielded
  <1>f. /\ pc' = [pc EXCEPT ![t] = pc'[t]]
        /\ \A u \in Threads \ {t} : my'[u] = my[u] /\ pointer'[u] = pointer[u]
        /\ UNCHANGED <<head, tail, next, phase, chain, retired, scan, live>>
        /\ pc[t] # "push_link" /\ pc'[t] # "push_link" /\ (pc[t] = "pop_scan" => ~Scanning(t))
    BY <1>0 DEF TypeOK, HazardTypeOK
  <1>1. TypeOK'
    <2>1. my'[t] \in Mine
      <3>1. /\ pc[t] = "pop_take" /\ my[t].idx \in Slots /\ buffer[my[t].end][my[t].idx] # TAKEN_VALUE
            /\ my[t].end \in Addr
        BY <1>b DEF SlotInv, UseInv, PopEnd
      <3>2. buffer[my[t].end][my[t].idx] \in Item
        BY <1>0, <3>1, NodeTypes DEF Cells
      <3> QED BY <1>0, <3>2, MyType, BlankType DEF TypeOK
    <2>2. my' \in [Threads -> Mine]
      BY <1>0, <2>1 DEF TypeOK, Mine
    <2>3. pc'[t] \in Places
      BY <1>0 DEF TypeOK, Places
    <2>4. pc' \in [Threads -> Places]
      BY <1>0, <1>f, <2>3 DEF TypeOK
    <2>5. pointer' \in [Threads -> Node]
      BY <1>0, MyType DEF TypeOK, HazardTypeOK, Node
    <2>6. buffer' \in [Addr -> [Slots -> Cells]]
      BY <1>0, MyType, NodeTypes DEF Cells
    <2>7. push_idx' \in [Addr -> Nat] /\ pop_idx' \in [Addr -> Nat]
      BY <1>0, NodeTypes
    <2>8. finished' \subseteq Values /\ older' \in [Values -> SUBSET Values] /\ asked' \in [Threads -> SUBSET Values]
      <3>1. \/ UNCHANGED <<finished, older, asked>>
            \/ \E v : /\ finished' = finished \ {v}
                      /\ older' = [w \in Values |-> IF w = v THEN older[w] ELSE older[w] \ {v}]
                      /\ asked' = [u \in Threads |-> asked[u] \ {v}]
        OBVIOUS
      <3>2. /\ finished \subseteq Values /\ older \in [Values -> SUBSET Values]
            /\ asked \in [Threads -> SUBSET Values]
        BY <1>0 DEF TypeOK
      <3> QED BY ONLY <3>1, <3>2
    <2> QED BY <1>0, <1>f, <2>2, <2>4, <2>5, <2>6, <2>7, <2>8, SMTT(20), ZenonT(40) DEF TypeOK, HazardTypeOK, Mine, Node, Cells
  <1>2. NodeInv(t)'
    BY <1>0, MyType, ChainFacts, SMTT(20), ZenonT(40) DEF TypeOK, NodeInv, InChain, Pushing, PopEnd, EmptyEnd, Blank
  <1>3. \A a \in Addr : (Fresh(t, a)' <=> Fresh(t, a)) /\ ~Pending(t, a)' /\ ~Pending(t, a)
    BY <1>0, MyType DEF TypeOK, Fresh, Pending, Blank
  <1>4. /\ pc'[t] \in {"push_validate", "pop_validate", "empty_validate"} => pointer'[t] = my'[t].end
        /\ \A a \in Node : Shields(t, a)' => pointer'[t] = a /\ (Shields(t, a) \/ InChain(a))
    BY <1>0, MyType, ChainFacts, SMTT(20), ZenonT(40) DEF TypeOK, HazardTypeOK, ShieldInv, Shields, PushEnd, PopEnd, EmptyEnd, Blank
  <1> QED BY <1>0, <1>1, <1>2, <1>3, <1>4, <1>f, LocalStep

LEMMA PopNextMem ==
  ASSUME MemInv, NEW t \in Threads, PopNext(t)
  PROVE  MemInv'
  <1> USE DEF PopNext, Forget, From, hazardKept, queueKept, hazardVars, node, history
  <1>0. /\ TypeOK /\ NodeInv(t) /\ ShieldInv(t) /\ phase = "open"
    BY ChainFacts DEF MemInv
  <1>a. my[t].end \in Addr => push_idx[my[t].end] \in Nat /\ next[my[t].end] \in Node
    BY <1>0, NodeTypes
  <1>b. pc[t] \in PushEnd \cup PopEnd \cup EmptyEnd => my[t].end \in Addr
    BY Shielded
  <1>f. /\ pc' = [pc EXCEPT ![t] = pc'[t]]
        /\ \A u \in Threads \ {t} : my'[u] = my[u] /\ pointer'[u] = pointer[u]
        /\ UNCHANGED <<head, tail, next, phase, chain, retired, scan, live>>
        /\ pc[t] # "push_link" /\ pc'[t] # "push_link" /\ (pc[t] = "pop_scan" => ~Scanning(t))
    BY <1>0 DEF TypeOK, HazardTypeOK
  <1>1. TypeOK'
    <2>1. my'[t] \in Mine
      BY <1>0, <1>a, <1>b, MyType, FieldTypes, BlankType DEF TypeOK, Item, PushEnd, PopEnd, EmptyEnd
    <2>2. my' \in [Threads -> Mine]
      BY <1>0, <2>1 DEF TypeOK, Mine
    <2>3. pc'[t] \in Places
      BY <1>0 DEF TypeOK, Places
    <2>4. pc' \in [Threads -> Places]
      BY <1>0, <1>f, <2>3 DEF TypeOK
    <2>5. pointer' \in [Threads -> Node]
      BY <1>0, MyType DEF TypeOK, HazardTypeOK, Node
    <2>6. buffer' \in [Addr -> [Slots -> Cells]]
      BY <1>0, MyType, NodeTypes DEF Cells
    <2>7. push_idx' \in [Addr -> Nat] /\ pop_idx' \in [Addr -> Nat]
      BY <1>0, NodeTypes
    <2>8. finished' \subseteq Values /\ older' \in [Values -> SUBSET Values] /\ asked' \in [Threads -> SUBSET Values]
      BY <1>0, MyType DEF TypeOK, NodeInv, Pushing
    <2> QED BY <1>0, <1>f, <2>2, <2>4, <2>5, <2>6, <2>7, <2>8, SMTT(20), ZenonT(40) DEF TypeOK, HazardTypeOK, Mine, Node, Cells
  <1>2. NodeInv(t)'
    <2>1. /\ pc[t] = "pop_next" /\ pc'[t] \in {"popped", "pop_swing"}
          /\ pc'[t] = "pop_swing" => /\ my'[t].end = my[t].end /\ my'[t].next = next[my[t].end]
                                      /\ next[my[t].end] # NULL /\ next' = next
      BY <1>0, MyType DEF TypeOK, Mine
    <2> QED BY <1>0, <2>1 DEF NodeInv, InChain, Pushing, PopEnd, EmptyEnd
  <1>3. \A a \in Addr : (Fresh(t, a)' <=> Fresh(t, a)) /\ ~Pending(t, a)' /\ ~Pending(t, a)
    BY <1>0, MyType DEF TypeOK, Fresh, Pending, Blank
  <1>4. /\ pc'[t] \in {"push_validate", "pop_validate", "empty_validate"} => pointer'[t] = my'[t].end
        /\ \A a \in Node : Shields(t, a)' => pointer'[t] = a /\ (Shields(t, a) \/ InChain(a))
    <2>1. /\ pc[t] = "pop_next" /\ pc'[t] \in {"popped", "pop_swing"} /\ pointer'[t] = pointer[t]
          /\ pc'[t] = "pop_swing" => my'[t].end = my[t].end
      BY <1>0, MyType DEF TypeOK, Mine
    <2> QED BY <1>0, <2>1 DEF ShieldInv, Shields, PushEnd, PopEnd, EmptyEnd
  <1> QED BY <1>0, <1>1, <1>2, <1>3, <1>4, <1>f, LocalStep

LEMMA PopSwingFailsMem ==
  ASSUME MemInv, NEW t \in Threads, PopSwing(t), my[t].end # head
  PROVE  MemInv'
  <1> USE DEF PopSwing, Forget, From, hazardKept, queueKept, hazardVars, node, history
  <1>0. /\ TypeOK /\ NodeInv(t) /\ ShieldInv(t) /\ phase = "open"
    BY ChainFacts DEF MemInv
  <1>a. my[t].end \in Addr => push_idx[my[t].end] \in Nat /\ next[my[t].end] \in Node
    BY <1>0, NodeTypes
  <1>b. pc[t] \in PushEnd \cup PopEnd \cup EmptyEnd => my[t].end \in Addr
    BY Shielded
  <1>f. /\ pc' = [pc EXCEPT ![t] = pc'[t]]
        /\ \A u \in Threads \ {t} : my'[u] = my[u] /\ pointer'[u] = pointer[u]
        /\ UNCHANGED <<head, tail, next, phase, chain, retired, scan, live>>
        /\ pc[t] # "push_link" /\ pc'[t] # "push_link" /\ (pc[t] = "pop_scan" => ~Scanning(t))
    BY <1>0 DEF TypeOK, HazardTypeOK
  <1>1. TypeOK'
    <2>1. my'[t] \in Mine
      BY <1>0, <1>a, <1>b, MyType, FieldTypes, BlankType DEF TypeOK, Item, PushEnd, PopEnd, EmptyEnd
    <2>2. my' \in [Threads -> Mine]
      BY <1>0, <2>1 DEF TypeOK, Mine
    <2>3. pc'[t] \in Places
      BY <1>0 DEF TypeOK, Places
    <2>4. pc' \in [Threads -> Places]
      BY <1>0, <1>f, <2>3 DEF TypeOK
    <2>5. pointer' \in [Threads -> Node]
      BY <1>0, MyType DEF TypeOK, HazardTypeOK, Node
    <2>6. buffer' \in [Addr -> [Slots -> Cells]]
      BY <1>0, MyType, NodeTypes DEF Cells
    <2>7. push_idx' \in [Addr -> Nat] /\ pop_idx' \in [Addr -> Nat]
      BY <1>0, NodeTypes
    <2>8. finished' \subseteq Values /\ older' \in [Values -> SUBSET Values] /\ asked' \in [Threads -> SUBSET Values]
      BY <1>0, MyType DEF TypeOK, NodeInv, Pushing
    <2> QED BY <1>0, <1>f, <2>2, <2>4, <2>5, <2>6, <2>7, <2>8, SMTT(20), ZenonT(40) DEF TypeOK, HazardTypeOK, Mine, Node, Cells
  <1>2. NodeInv(t)'
    BY <1>0, MyType, ChainFacts, SMTT(20), ZenonT(40) DEF TypeOK, NodeInv, InChain, Pushing, PopEnd, EmptyEnd, Blank
  <1>3. \A a \in Addr : (Fresh(t, a)' <=> Fresh(t, a)) /\ ~Pending(t, a)' /\ ~Pending(t, a)
    BY <1>0, MyType DEF TypeOK, Fresh, Pending, Blank
  <1>4. /\ pc'[t] \in {"push_validate", "pop_validate", "empty_validate"} => pointer'[t] = my'[t].end
        /\ \A a \in Node : Shields(t, a)' => pointer'[t] = a /\ (Shields(t, a) \/ InChain(a))
    BY <1>0, MyType, ChainFacts, SMTT(20), ZenonT(40) DEF TypeOK, HazardTypeOK, ShieldInv, Shields, PushEnd, PopEnd, EmptyEnd, Blank
  <1> QED BY <1>0, <1>1, <1>2, <1>3, <1>4, <1>f, LocalStep

LEMMA PopScanDoneMem ==
  ASSUME MemInv, NEW t \in Threads, PopScanDone(t)
  PROVE  MemInv'
  <1> USE DEF PopScanDone, From, hazardKept, queueKept, hazardVars, node, history
  <1>0. /\ TypeOK /\ NodeInv(t) /\ ShieldInv(t) /\ phase = "open"
    BY ChainFacts DEF MemInv
  <1>a. my[t].end \in Addr => push_idx[my[t].end] \in Nat /\ next[my[t].end] \in Node
    BY <1>0, NodeTypes
  <1>b. pc[t] \in PushEnd \cup PopEnd \cup EmptyEnd => my[t].end \in Addr
    BY Shielded
  <1>f. /\ pc' = [pc EXCEPT ![t] = pc'[t]]
        /\ \A u \in Threads \ {t} : my'[u] = my[u] /\ pointer'[u] = pointer[u]
        /\ UNCHANGED <<head, tail, next, phase, chain, retired, scan, live>>
        /\ pc[t] # "push_link" /\ pc'[t] # "push_link" /\ (pc[t] = "pop_scan" => ~Scanning(t))
    BY <1>0 DEF TypeOK, HazardTypeOK
  <1>1. TypeOK'
    <2>1. my'[t] \in Mine
      BY <1>0, <1>a, <1>b, MyType, FieldTypes, BlankType DEF TypeOK, Item, PushEnd, PopEnd, EmptyEnd
    <2>2. my' \in [Threads -> Mine]
      BY <1>0, <2>1 DEF TypeOK, Mine
    <2>3. pc'[t] \in Places
      BY <1>0 DEF TypeOK, Places
    <2>4. pc' \in [Threads -> Places]
      BY <1>0, <1>f, <2>3 DEF TypeOK
    <2>5. pointer' \in [Threads -> Node]
      BY <1>0, MyType DEF TypeOK, HazardTypeOK, Node
    <2>6. buffer' \in [Addr -> [Slots -> Cells]]
      BY <1>0, MyType, NodeTypes DEF Cells
    <2>7. push_idx' \in [Addr -> Nat] /\ pop_idx' \in [Addr -> Nat]
      BY <1>0, NodeTypes
    <2>8. finished' \subseteq Values /\ older' \in [Values -> SUBSET Values] /\ asked' \in [Threads -> SUBSET Values]
      BY <1>0, MyType DEF TypeOK, NodeInv, Pushing
    <2> QED BY <1>0, <1>f, <2>2, <2>4, <2>5, <2>6, <2>7, <2>8, SMTT(20), ZenonT(40) DEF TypeOK, HazardTypeOK, Mine, Node, Cells
  <1>2. NodeInv(t)'
    BY <1>0, MyType, ChainFacts, SMTT(20), ZenonT(40) DEF TypeOK, NodeInv, InChain, Pushing, PopEnd, EmptyEnd, Blank
  <1>3. \A a \in Addr : (Fresh(t, a)' <=> Fresh(t, a)) /\ ~Pending(t, a)' /\ ~Pending(t, a)
    BY <1>0, MyType DEF TypeOK, Fresh, Pending, Blank
  <1>4. /\ pc'[t] \in {"push_validate", "pop_validate", "empty_validate"} => pointer'[t] = my'[t].end
        /\ \A a \in Node : Shields(t, a)' => pointer'[t] = a /\ (Shields(t, a) \/ InChain(a))
    BY <1>0, MyType, ChainFacts, SMTT(20), ZenonT(40) DEF TypeOK, HazardTypeOK, ShieldInv, Shields, PushEnd, PopEnd, EmptyEnd, Blank
  <1> QED BY <1>0, <1>1, <1>2, <1>3, <1>4, <1>f, LocalStep

LEMMA PopClearMem ==
  ASSUME MemInv, NEW t \in Threads, PopClear(t)
  PROVE  MemInv'
  <1> USE DEF PopClear, Clear, From, hazardKept, queueKept, hazardVars, node, history
  <1>0. /\ TypeOK /\ NodeInv(t) /\ ShieldInv(t) /\ phase = "open"
    BY ChainFacts DEF MemInv
  <1>a. my[t].end \in Addr => push_idx[my[t].end] \in Nat /\ next[my[t].end] \in Node
    BY <1>0, NodeTypes
  <1>b. pc[t] \in PushEnd \cup PopEnd \cup EmptyEnd => my[t].end \in Addr
    BY Shielded
  <1>f. /\ pc' = [pc EXCEPT ![t] = pc'[t]]
        /\ \A u \in Threads \ {t} : my'[u] = my[u] /\ pointer'[u] = pointer[u]
        /\ UNCHANGED <<head, tail, next, phase, chain, retired, scan, live>>
        /\ pc[t] # "push_link" /\ pc'[t] # "push_link" /\ (pc[t] = "pop_scan" => ~Scanning(t))
    BY <1>0 DEF TypeOK, HazardTypeOK
  <1>1. TypeOK'
    <2>1. my'[t] \in Mine
      BY <1>0, <1>a, <1>b, MyType, FieldTypes, BlankType DEF TypeOK, Item, PushEnd, PopEnd, EmptyEnd
    <2>2. my' \in [Threads -> Mine]
      BY <1>0, <2>1 DEF TypeOK, Mine
    <2>3. pc'[t] \in Places
      BY <1>0 DEF TypeOK, Places
    <2>4. pc' \in [Threads -> Places]
      BY <1>0, <1>f, <2>3 DEF TypeOK
    <2>5. pointer' \in [Threads -> Node]
      BY <1>0, MyType DEF TypeOK, HazardTypeOK, Node
    <2>6. buffer' \in [Addr -> [Slots -> Cells]]
      BY <1>0, MyType, NodeTypes DEF Cells
    <2>7. push_idx' \in [Addr -> Nat] /\ pop_idx' \in [Addr -> Nat]
      BY <1>0, NodeTypes
    <2>8. finished' \subseteq Values /\ older' \in [Values -> SUBSET Values] /\ asked' \in [Threads -> SUBSET Values]
      BY <1>0, MyType DEF TypeOK, NodeInv, Pushing
    <2> QED BY <1>0, <1>f, <2>2, <2>4, <2>5, <2>6, <2>7, <2>8, SMTT(20), ZenonT(40) DEF TypeOK, HazardTypeOK, Mine, Node, Cells
  <1>2. NodeInv(t)'
    BY <1>0, MyType, ChainFacts, SMTT(20), ZenonT(40) DEF TypeOK, NodeInv, InChain, Pushing, PopEnd, EmptyEnd, Blank
  <1>3. \A a \in Addr : (Fresh(t, a)' <=> Fresh(t, a)) /\ ~Pending(t, a)' /\ ~Pending(t, a)
    BY <1>0, MyType DEF TypeOK, Fresh, Pending, Blank
  <1>4. /\ pc'[t] \in {"push_validate", "pop_validate", "empty_validate"} => pointer'[t] = my'[t].end
        /\ \A a \in Node : Shields(t, a)' => pointer'[t] = a /\ (Shields(t, a) \/ InChain(a))
    BY <1>0, MyType, ChainFacts, SMTT(20), ZenonT(40) DEF TypeOK, HazardTypeOK, ShieldInv, Shields, PushEnd, PopEnd, EmptyEnd, Blank
  <1> QED BY <1>0, <1>1, <1>2, <1>3, <1>4, <1>f, LocalStep

LEMMA PopReturnMem ==
  ASSUME MemInv, NEW t \in Threads, PopReturn(t)
  PROVE  MemInv'
  <1> USE DEF PopReturn, Clear, Forget, From, hazardKept, queueKept, hazardVars, node, history
  <1>0. /\ TypeOK /\ NodeInv(t) /\ ShieldInv(t) /\ phase = "open"
    BY ChainFacts DEF MemInv
  <1>a. my[t].end \in Addr => push_idx[my[t].end] \in Nat /\ next[my[t].end] \in Node
    BY <1>0, NodeTypes
  <1>b. pc[t] \in PushEnd \cup PopEnd \cup EmptyEnd => my[t].end \in Addr
    BY Shielded
  <1>f. /\ pc' = [pc EXCEPT ![t] = pc'[t]]
        /\ \A u \in Threads \ {t} : my'[u] = my[u] /\ pointer'[u] = pointer[u]
        /\ UNCHANGED <<head, tail, next, phase, chain, retired, scan, live>>
        /\ pc[t] # "push_link" /\ pc'[t] # "push_link" /\ (pc[t] = "pop_scan" => ~Scanning(t))
    BY <1>0 DEF TypeOK, HazardTypeOK
  <1>1. TypeOK'
    <2>1. my'[t] \in Mine
      BY <1>0, <1>a, <1>b, MyType, FieldTypes, BlankType DEF TypeOK, Item, PushEnd, PopEnd, EmptyEnd
    <2>2. my' \in [Threads -> Mine]
      BY <1>0, <2>1 DEF TypeOK, Mine
    <2>3. pc'[t] \in Places
      BY <1>0 DEF TypeOK, Places
    <2>4. pc' \in [Threads -> Places]
      BY <1>0, <1>f, <2>3 DEF TypeOK
    <2>5. pointer' \in [Threads -> Node]
      BY <1>0, MyType DEF TypeOK, HazardTypeOK, Node
    <2>6. buffer' \in [Addr -> [Slots -> Cells]]
      BY <1>0, MyType, NodeTypes DEF Cells
    <2>7. push_idx' \in [Addr -> Nat] /\ pop_idx' \in [Addr -> Nat]
      BY <1>0, NodeTypes
    <2>8. finished' \subseteq Values /\ older' \in [Values -> SUBSET Values] /\ asked' \in [Threads -> SUBSET Values]
      BY <1>0, MyType DEF TypeOK, NodeInv, Pushing
    <2> QED BY <1>0, <1>f, <2>2, <2>4, <2>5, <2>6, <2>7, <2>8, SMTT(20), ZenonT(40) DEF TypeOK, HazardTypeOK, Mine, Node, Cells
  <1>2. NodeInv(t)'
    BY <1>0, MyType, ChainFacts, SMTT(20), ZenonT(40) DEF TypeOK, NodeInv, InChain, Pushing, PopEnd, EmptyEnd, Blank
  <1>3. \A a \in Addr : (Fresh(t, a)' <=> Fresh(t, a)) /\ ~Pending(t, a)' /\ ~Pending(t, a)
    BY <1>0, MyType DEF TypeOK, Fresh, Pending, Blank
  <1>4. /\ pc'[t] \in {"push_validate", "pop_validate", "empty_validate"} => pointer'[t] = my'[t].end
        /\ \A a \in Node : Shields(t, a)' => pointer'[t] = a /\ (Shields(t, a) \/ InChain(a))
    BY <1>0, MyType, ChainFacts, SMTT(20), ZenonT(40) DEF TypeOK, HazardTypeOK, ShieldInv, Shields, PushEnd, PopEnd, EmptyEnd, Blank
  <1> QED BY <1>0, <1>1, <1>2, <1>3, <1>4, <1>f, LocalStep

LEMMA CallIsEmptyMem ==
  ASSUME MemInv, NEW t \in Threads, CallIsEmpty(t)
  PROVE  MemInv'
  <1> USE DEF CallIsEmpty, From, hazardKept, queueKept, hazardVars, node, history
  <1>0. /\ TypeOK /\ NodeInv(t) /\ ShieldInv(t) /\ phase = "open"
    BY ChainFacts DEF MemInv
  <1>a. my[t].end \in Addr => push_idx[my[t].end] \in Nat /\ next[my[t].end] \in Node
    BY <1>0, NodeTypes
  <1>b. pc[t] \in PushEnd \cup PopEnd \cup EmptyEnd => my[t].end \in Addr
    BY Shielded
  <1>f. /\ pc' = [pc EXCEPT ![t] = pc'[t]]
        /\ \A u \in Threads \ {t} : my'[u] = my[u] /\ pointer'[u] = pointer[u]
        /\ UNCHANGED <<head, tail, next, phase, chain, retired, scan, live>>
        /\ pc[t] # "push_link" /\ pc'[t] # "push_link" /\ (pc[t] = "pop_scan" => ~Scanning(t))
    BY <1>0 DEF TypeOK, HazardTypeOK
  <1>1. TypeOK'
    <2>1. my'[t] \in Mine
      BY <1>0, <1>a, <1>b, MyType, FieldTypes, BlankType DEF TypeOK, Item, PushEnd, PopEnd, EmptyEnd
    <2>2. my' \in [Threads -> Mine]
      BY <1>0, <2>1 DEF TypeOK, Mine
    <2>3. pc'[t] \in Places
      BY <1>0 DEF TypeOK, Places
    <2>4. pc' \in [Threads -> Places]
      BY <1>0, <1>f, <2>3 DEF TypeOK
    <2>5. pointer' \in [Threads -> Node]
      BY <1>0, MyType DEF TypeOK, HazardTypeOK, Node
    <2>6. buffer' \in [Addr -> [Slots -> Cells]]
      BY <1>0, MyType, NodeTypes DEF Cells
    <2>7. push_idx' \in [Addr -> Nat] /\ pop_idx' \in [Addr -> Nat]
      BY <1>0, NodeTypes
    <2>8. finished' \subseteq Values /\ older' \in [Values -> SUBSET Values] /\ asked' \in [Threads -> SUBSET Values]
      BY <1>0, MyType DEF TypeOK, NodeInv, Pushing
    <2> QED BY <1>0, <1>f, <2>2, <2>4, <2>5, <2>6, <2>7, <2>8, SMTT(20), ZenonT(40) DEF TypeOK, HazardTypeOK, Mine, Node, Cells
  <1>2. NodeInv(t)'
    BY <1>0, MyType, ChainFacts, SMTT(20), ZenonT(40) DEF TypeOK, NodeInv, InChain, Pushing, PopEnd, EmptyEnd, Blank
  <1>3. \A a \in Addr : (Fresh(t, a)' <=> Fresh(t, a)) /\ ~Pending(t, a)' /\ ~Pending(t, a)
    BY <1>0, MyType DEF TypeOK, Fresh, Pending, Blank
  <1>4. /\ pc'[t] \in {"push_validate", "pop_validate", "empty_validate"} => pointer'[t] = my'[t].end
        /\ \A a \in Node : Shields(t, a)' => pointer'[t] = a /\ (Shields(t, a) \/ InChain(a))
    BY <1>0, MyType, ChainFacts, SMTT(20), ZenonT(40) DEF TypeOK, HazardTypeOK, ShieldInv, Shields, PushEnd, PopEnd, EmptyEnd, Blank
  <1> QED BY <1>0, <1>1, <1>2, <1>3, <1>4, <1>f, LocalStep

LEMMA IsEmptyLoadMem ==
  ASSUME MemInv, NEW t \in Threads, ProtectLoad(t, "empty_load", "empty_publish", head)
  PROVE  MemInv'
  <1> USE DEF ProtectLoad, From, hazardKept, queueKept, hazardVars, node, history
  <1>0. /\ TypeOK /\ NodeInv(t) /\ ShieldInv(t) /\ phase = "open"
    BY ChainFacts DEF MemInv
  <1>a. my[t].end \in Addr => push_idx[my[t].end] \in Nat /\ next[my[t].end] \in Node
    BY <1>0, NodeTypes
  <1>b. pc[t] \in PushEnd \cup PopEnd \cup EmptyEnd => my[t].end \in Addr
    BY Shielded
  <1>f. /\ pc' = [pc EXCEPT ![t] = pc'[t]]
        /\ \A u \in Threads \ {t} : my'[u] = my[u] /\ pointer'[u] = pointer[u]
        /\ UNCHANGED <<head, tail, next, phase, chain, retired, scan, live>>
        /\ pc[t] # "push_link" /\ pc'[t] # "push_link" /\ (pc[t] = "pop_scan" => ~Scanning(t))
    BY <1>0 DEF TypeOK, HazardTypeOK
  <1>1. TypeOK'
    <2>1. my'[t] \in Mine
      BY <1>0, <1>a, <1>b, MyType, FieldTypes, BlankType DEF TypeOK, Item, PushEnd, PopEnd, EmptyEnd
    <2>2. my' \in [Threads -> Mine]
      BY <1>0, <2>1 DEF TypeOK, Mine
    <2>3. pc'[t] \in Places
      BY <1>0 DEF TypeOK, Places
    <2>4. pc' \in [Threads -> Places]
      BY <1>0, <1>f, <2>3 DEF TypeOK
    <2>5. pointer' \in [Threads -> Node]
      BY <1>0, MyType DEF TypeOK, HazardTypeOK, Node
    <2>6. buffer' \in [Addr -> [Slots -> Cells]]
      BY <1>0, MyType, NodeTypes DEF Cells
    <2>7. push_idx' \in [Addr -> Nat] /\ pop_idx' \in [Addr -> Nat]
      BY <1>0, NodeTypes
    <2>8. finished' \subseteq Values /\ older' \in [Values -> SUBSET Values] /\ asked' \in [Threads -> SUBSET Values]
      BY <1>0, MyType DEF TypeOK, NodeInv, Pushing
    <2> QED BY <1>0, <1>f, <2>2, <2>4, <2>5, <2>6, <2>7, <2>8, SMTT(20), ZenonT(40) DEF TypeOK, HazardTypeOK, Mine, Node, Cells
  <1>2. NodeInv(t)'
    BY <1>0, MyType, ChainFacts, SMTT(20), ZenonT(40) DEF TypeOK, NodeInv, InChain, Pushing, PopEnd, EmptyEnd, Blank
  <1>3. \A a \in Addr : (Fresh(t, a)' <=> Fresh(t, a)) /\ ~Pending(t, a)' /\ ~Pending(t, a)
    BY <1>0, MyType DEF TypeOK, Fresh, Pending, Blank
  <1>4. /\ pc'[t] \in {"push_validate", "pop_validate", "empty_validate"} => pointer'[t] = my'[t].end
        /\ \A a \in Node : Shields(t, a)' => pointer'[t] = a /\ (Shields(t, a) \/ InChain(a))
    BY <1>0, MyType, ChainFacts, SMTT(20), ZenonT(40) DEF TypeOK, HazardTypeOK, ShieldInv, Shields, PushEnd, PopEnd, EmptyEnd, Blank
  <1> QED BY <1>0, <1>1, <1>2, <1>3, <1>4, <1>f, LocalStep

LEMMA IsEmptyPublishMem ==
  ASSUME MemInv, NEW t \in Threads, ProtectPublish(t, "empty_publish", "empty_validate")
  PROVE  MemInv'
  <1> USE DEF ProtectPublish, Publish, From, hazardKept, queueKept, hazardVars, node, history
  <1>0. /\ TypeOK /\ NodeInv(t) /\ ShieldInv(t) /\ phase = "open"
    BY ChainFacts DEF MemInv
  <1>a. my[t].end \in Addr => push_idx[my[t].end] \in Nat /\ next[my[t].end] \in Node
    BY <1>0, NodeTypes
  <1>b. pc[t] \in PushEnd \cup PopEnd \cup EmptyEnd => my[t].end \in Addr
    BY Shielded
  <1>f. /\ pc' = [pc EXCEPT ![t] = pc'[t]]
        /\ \A u \in Threads \ {t} : my'[u] = my[u] /\ pointer'[u] = pointer[u]
        /\ UNCHANGED <<head, tail, next, phase, chain, retired, scan, live>>
        /\ pc[t] # "push_link" /\ pc'[t] # "push_link" /\ (pc[t] = "pop_scan" => ~Scanning(t))
    BY <1>0 DEF TypeOK, HazardTypeOK
  <1>1. TypeOK'
    <2>1. my'[t] \in Mine
      BY <1>0, <1>a, <1>b, MyType, FieldTypes, BlankType DEF TypeOK, Item, PushEnd, PopEnd, EmptyEnd
    <2>2. my' \in [Threads -> Mine]
      BY <1>0, <2>1 DEF TypeOK, Mine
    <2>3. pc'[t] \in Places
      BY <1>0 DEF TypeOK, Places
    <2>4. pc' \in [Threads -> Places]
      BY <1>0, <1>f, <2>3 DEF TypeOK
    <2>5. pointer' \in [Threads -> Node]
      BY <1>0, MyType DEF TypeOK, HazardTypeOK, Node
    <2>6. buffer' \in [Addr -> [Slots -> Cells]]
      BY <1>0, MyType, NodeTypes DEF Cells
    <2>7. push_idx' \in [Addr -> Nat] /\ pop_idx' \in [Addr -> Nat]
      BY <1>0, NodeTypes
    <2>8. finished' \subseteq Values /\ older' \in [Values -> SUBSET Values] /\ asked' \in [Threads -> SUBSET Values]
      BY <1>0, MyType DEF TypeOK, NodeInv, Pushing
    <2> QED BY <1>0, <1>f, <2>2, <2>4, <2>5, <2>6, <2>7, <2>8, SMTT(20), ZenonT(40) DEF TypeOK, HazardTypeOK, Mine, Node, Cells
  <1>2. NodeInv(t)'
    BY <1>0, MyType, ChainFacts, SMTT(20), ZenonT(40) DEF TypeOK, NodeInv, InChain, Pushing, PopEnd, EmptyEnd, Blank
  <1>3. \A a \in Addr : (Fresh(t, a)' <=> Fresh(t, a)) /\ ~Pending(t, a)' /\ ~Pending(t, a)
    BY <1>0, MyType DEF TypeOK, Fresh, Pending, Blank
  <1>4. /\ pc'[t] \in {"push_validate", "pop_validate", "empty_validate"} => pointer'[t] = my'[t].end
        /\ \A a \in Node : Shields(t, a)' => pointer'[t] = a /\ (Shields(t, a) \/ InChain(a))
    BY <1>0, MyType, ChainFacts, SMTT(20), ZenonT(40) DEF TypeOK, HazardTypeOK, ShieldInv, Shields, PushEnd, PopEnd, EmptyEnd, Blank
  <1> QED BY <1>0, <1>1, <1>2, <1>3, <1>4, <1>f, LocalStep

LEMMA IsEmptyValidateMem ==
  ASSUME MemInv, NEW t \in Threads, ProtectValidate(t, "empty_validate", "empty_load", "empty_push_idx", head)
  PROVE  MemInv'
  <1> USE DEF ProtectValidate, From, hazardKept, queueKept, hazardVars, node, history
  <1>0. /\ TypeOK /\ NodeInv(t) /\ ShieldInv(t) /\ phase = "open"
    BY ChainFacts DEF MemInv
  <1>a. my[t].end \in Addr => push_idx[my[t].end] \in Nat /\ next[my[t].end] \in Node
    BY <1>0, NodeTypes
  <1>b. pc[t] \in PushEnd \cup PopEnd \cup EmptyEnd => my[t].end \in Addr
    BY Shielded
  <1>f. /\ pc' = [pc EXCEPT ![t] = pc'[t]]
        /\ \A u \in Threads \ {t} : my'[u] = my[u] /\ pointer'[u] = pointer[u]
        /\ UNCHANGED <<head, tail, next, phase, chain, retired, scan, live>>
        /\ pc[t] # "push_link" /\ pc'[t] # "push_link" /\ (pc[t] = "pop_scan" => ~Scanning(t))
    BY <1>0 DEF TypeOK, HazardTypeOK
  <1>1. TypeOK'
    <2>1. my'[t] \in Mine
      BY <1>0, <1>a, <1>b, MyType, FieldTypes, BlankType DEF TypeOK, Item, PushEnd, PopEnd, EmptyEnd
    <2>2. my' \in [Threads -> Mine]
      BY <1>0, <2>1 DEF TypeOK, Mine
    <2>3. pc'[t] \in Places
      BY <1>0 DEF TypeOK, Places
    <2>4. pc' \in [Threads -> Places]
      BY <1>0, <1>f, <2>3 DEF TypeOK
    <2>5. pointer' \in [Threads -> Node]
      BY <1>0, MyType DEF TypeOK, HazardTypeOK, Node
    <2>6. buffer' \in [Addr -> [Slots -> Cells]]
      BY <1>0, MyType, NodeTypes DEF Cells
    <2>7. push_idx' \in [Addr -> Nat] /\ pop_idx' \in [Addr -> Nat]
      BY <1>0, NodeTypes
    <2>8. finished' \subseteq Values /\ older' \in [Values -> SUBSET Values] /\ asked' \in [Threads -> SUBSET Values]
      BY <1>0, MyType DEF TypeOK, NodeInv, Pushing
    <2> QED BY <1>0, <1>f, <2>2, <2>4, <2>5, <2>6, <2>7, <2>8, SMTT(20), ZenonT(40) DEF TypeOK, HazardTypeOK, Mine, Node, Cells
  <1>2. NodeInv(t)'
    BY <1>0, MyType, ChainFacts, SMTT(20), ZenonT(40) DEF TypeOK, NodeInv, InChain, Pushing, PopEnd, EmptyEnd, Blank
  <1>3. \A a \in Addr : (Fresh(t, a)' <=> Fresh(t, a)) /\ ~Pending(t, a)' /\ ~Pending(t, a)
    BY <1>0, MyType DEF TypeOK, Fresh, Pending, Blank
  <1>4. /\ pc'[t] \in {"push_validate", "pop_validate", "empty_validate"} => pointer'[t] = my'[t].end
        /\ \A a \in Node : Shields(t, a)' => pointer'[t] = a /\ (Shields(t, a) \/ InChain(a))
    BY <1>0, MyType, ChainFacts, SMTT(20), ZenonT(40) DEF TypeOK, HazardTypeOK, ShieldInv, Shields, PushEnd, PopEnd, EmptyEnd, Blank
  <1> QED BY <1>0, <1>1, <1>2, <1>3, <1>4, <1>f, LocalStep

LEMMA IsEmptyPushIdxMem ==
  ASSUME MemInv, NEW t \in Threads, IsEmptyPushIdx(t)
  PROVE  MemInv'
  <1> USE DEF IsEmptyPushIdx, From, hazardKept, queueKept, hazardVars, node, history
  <1>0. /\ TypeOK /\ NodeInv(t) /\ ShieldInv(t) /\ phase = "open"
    BY ChainFacts DEF MemInv
  <1>a. my[t].end \in Addr => push_idx[my[t].end] \in Nat /\ next[my[t].end] \in Node
    BY <1>0, NodeTypes
  <1>b. pc[t] \in PushEnd \cup PopEnd \cup EmptyEnd => my[t].end \in Addr
    BY Shielded
  <1>f. /\ pc' = [pc EXCEPT ![t] = pc'[t]]
        /\ \A u \in Threads \ {t} : my'[u] = my[u] /\ pointer'[u] = pointer[u]
        /\ UNCHANGED <<head, tail, next, phase, chain, retired, scan, live>>
        /\ pc[t] # "push_link" /\ pc'[t] # "push_link" /\ (pc[t] = "pop_scan" => ~Scanning(t))
    BY <1>0 DEF TypeOK, HazardTypeOK
  <1>1. TypeOK'
    <2>1. my'[t] \in Mine
      BY <1>0, <1>a, <1>b, MyType, FieldTypes, BlankType DEF TypeOK, Item, PushEnd, PopEnd, EmptyEnd
    <2>2. my' \in [Threads -> Mine]
      BY <1>0, <2>1 DEF TypeOK, Mine
    <2>3. pc'[t] \in Places
      BY <1>0 DEF TypeOK, Places
    <2>4. pc' \in [Threads -> Places]
      BY <1>0, <1>f, <2>3 DEF TypeOK
    <2>5. pointer' \in [Threads -> Node]
      BY <1>0, MyType DEF TypeOK, HazardTypeOK, Node
    <2>6. buffer' \in [Addr -> [Slots -> Cells]]
      BY <1>0, MyType, NodeTypes DEF Cells
    <2>7. push_idx' \in [Addr -> Nat] /\ pop_idx' \in [Addr -> Nat]
      BY <1>0, NodeTypes
    <2>8. finished' \subseteq Values /\ older' \in [Values -> SUBSET Values] /\ asked' \in [Threads -> SUBSET Values]
      BY <1>0, MyType DEF TypeOK, NodeInv, Pushing
    <2> QED BY <1>0, <1>f, <2>2, <2>4, <2>5, <2>6, <2>7, <2>8, SMTT(20), ZenonT(40) DEF TypeOK, HazardTypeOK, Mine, Node, Cells
  <1>2. NodeInv(t)'
    BY <1>0, MyType, ChainFacts, SMTT(20), ZenonT(40) DEF TypeOK, NodeInv, InChain, Pushing, PopEnd, EmptyEnd, Blank
  <1>3. \A a \in Addr : (Fresh(t, a)' <=> Fresh(t, a)) /\ ~Pending(t, a)' /\ ~Pending(t, a)
    BY <1>0, MyType DEF TypeOK, Fresh, Pending, Blank
  <1>4. /\ pc'[t] \in {"push_validate", "pop_validate", "empty_validate"} => pointer'[t] = my'[t].end
        /\ \A a \in Node : Shields(t, a)' => pointer'[t] = a /\ (Shields(t, a) \/ InChain(a))
    BY <1>0, MyType, ChainFacts, SMTT(20), ZenonT(40) DEF TypeOK, HazardTypeOK, ShieldInv, Shields, PushEnd, PopEnd, EmptyEnd, Blank
  <1> QED BY <1>0, <1>1, <1>2, <1>3, <1>4, <1>f, LocalStep

LEMMA IsEmptyPopIdxMem ==
  ASSUME MemInv, NEW t \in Threads, IsEmptyPopIdx(t)
  PROVE  MemInv'
  <1> USE DEF IsEmptyPopIdx, From, hazardKept, queueKept, hazardVars, node, history
  <1>0. /\ TypeOK /\ NodeInv(t) /\ ShieldInv(t) /\ phase = "open"
    BY ChainFacts DEF MemInv
  <1>a. my[t].end \in Addr => push_idx[my[t].end] \in Nat /\ next[my[t].end] \in Node
    BY <1>0, NodeTypes
  <1>b. pc[t] \in PushEnd \cup PopEnd \cup EmptyEnd => my[t].end \in Addr
    BY Shielded
  <1>f. /\ pc' = [pc EXCEPT ![t] = pc'[t]]
        /\ \A u \in Threads \ {t} : my'[u] = my[u] /\ pointer'[u] = pointer[u]
        /\ UNCHANGED <<head, tail, next, phase, chain, retired, scan, live>>
        /\ pc[t] # "push_link" /\ pc'[t] # "push_link" /\ (pc[t] = "pop_scan" => ~Scanning(t))
    BY <1>0 DEF TypeOK, HazardTypeOK
  <1>1. TypeOK'
    <2>1. my'[t] \in Mine
      BY <1>0, <1>a, <1>b, MyType, FieldTypes, BlankType DEF TypeOK, Item, PushEnd, PopEnd, EmptyEnd
    <2>2. my' \in [Threads -> Mine]
      BY <1>0, <2>1 DEF TypeOK, Mine
    <2>3. pc'[t] \in Places
      BY <1>0 DEF TypeOK, Places
    <2>4. pc' \in [Threads -> Places]
      BY <1>0, <1>f, <2>3 DEF TypeOK
    <2>5. pointer' \in [Threads -> Node]
      BY <1>0, MyType DEF TypeOK, HazardTypeOK, Node
    <2>6. buffer' \in [Addr -> [Slots -> Cells]]
      BY <1>0, MyType, NodeTypes DEF Cells
    <2>7. push_idx' \in [Addr -> Nat] /\ pop_idx' \in [Addr -> Nat]
      BY <1>0, NodeTypes
    <2>8. finished' \subseteq Values /\ older' \in [Values -> SUBSET Values] /\ asked' \in [Threads -> SUBSET Values]
      BY <1>0, MyType DEF TypeOK, NodeInv, Pushing
    <2> QED BY <1>0, <1>f, <2>2, <2>4, <2>5, <2>6, <2>7, <2>8, SMTT(20), ZenonT(40) DEF TypeOK, HazardTypeOK, Mine, Node, Cells
  <1>2. NodeInv(t)'
    BY <1>0, MyType, ChainFacts, SMTT(20), ZenonT(40) DEF TypeOK, NodeInv, InChain, Pushing, PopEnd, EmptyEnd, Blank
  <1>3. \A a \in Addr : (Fresh(t, a)' <=> Fresh(t, a)) /\ ~Pending(t, a)' /\ ~Pending(t, a)
    BY <1>0, MyType DEF TypeOK, Fresh, Pending, Blank
  <1>4. /\ pc'[t] \in {"push_validate", "pop_validate", "empty_validate"} => pointer'[t] = my'[t].end
        /\ \A a \in Node : Shields(t, a)' => pointer'[t] = a /\ (Shields(t, a) \/ InChain(a))
    BY <1>0, MyType, ChainFacts, SMTT(20), ZenonT(40) DEF TypeOK, HazardTypeOK, ShieldInv, Shields, PushEnd, PopEnd, EmptyEnd, Blank
  <1> QED BY <1>0, <1>1, <1>2, <1>3, <1>4, <1>f, LocalStep

LEMMA IsEmptyNextMem ==
  ASSUME MemInv, NEW t \in Threads, IsEmptyNext(t)
  PROVE  MemInv'
  <1> USE DEF IsEmptyNext, From, hazardKept, queueKept, hazardVars, node, history
  <1>0. /\ TypeOK /\ NodeInv(t) /\ ShieldInv(t) /\ phase = "open"
    BY ChainFacts DEF MemInv
  <1>a. my[t].end \in Addr => push_idx[my[t].end] \in Nat /\ next[my[t].end] \in Node
    BY <1>0, NodeTypes
  <1>b. pc[t] \in PushEnd \cup PopEnd \cup EmptyEnd => my[t].end \in Addr
    BY Shielded
  <1>f. /\ pc' = [pc EXCEPT ![t] = pc'[t]]
        /\ \A u \in Threads \ {t} : my'[u] = my[u] /\ pointer'[u] = pointer[u]
        /\ UNCHANGED <<head, tail, next, phase, chain, retired, scan, live>>
        /\ pc[t] # "push_link" /\ pc'[t] # "push_link" /\ (pc[t] = "pop_scan" => ~Scanning(t))
    BY <1>0 DEF TypeOK, HazardTypeOK
  <1>1. TypeOK'
    <2>1. my'[t] \in Mine
      BY <1>0, <1>a, <1>b, MyType, FieldTypes, BlankType DEF TypeOK, Item, PushEnd, PopEnd, EmptyEnd
    <2>2. my' \in [Threads -> Mine]
      BY <1>0, <2>1 DEF TypeOK, Mine
    <2>3. pc'[t] \in Places
      BY <1>0 DEF TypeOK, Places
    <2>4. pc' \in [Threads -> Places]
      BY <1>0, <1>f, <2>3 DEF TypeOK
    <2>5. pointer' \in [Threads -> Node]
      BY <1>0, MyType DEF TypeOK, HazardTypeOK, Node
    <2>6. buffer' \in [Addr -> [Slots -> Cells]]
      BY <1>0, MyType, NodeTypes DEF Cells
    <2>7. push_idx' \in [Addr -> Nat] /\ pop_idx' \in [Addr -> Nat]
      BY <1>0, NodeTypes
    <2>8. finished' \subseteq Values /\ older' \in [Values -> SUBSET Values] /\ asked' \in [Threads -> SUBSET Values]
      BY <1>0, MyType DEF TypeOK, NodeInv, Pushing
    <2> QED BY <1>0, <1>f, <2>2, <2>4, <2>5, <2>6, <2>7, <2>8, SMTT(20), ZenonT(40) DEF TypeOK, HazardTypeOK, Mine, Node, Cells
  <1>2. NodeInv(t)'
    BY <1>0, MyType, ChainFacts, SMTT(20), ZenonT(40) DEF TypeOK, NodeInv, InChain, Pushing, PopEnd, EmptyEnd, Blank
  <1>3. \A a \in Addr : (Fresh(t, a)' <=> Fresh(t, a)) /\ ~Pending(t, a)' /\ ~Pending(t, a)
    BY <1>0, MyType DEF TypeOK, Fresh, Pending, Blank
  <1>4. /\ pc'[t] \in {"push_validate", "pop_validate", "empty_validate"} => pointer'[t] = my'[t].end
        /\ \A a \in Node : Shields(t, a)' => pointer'[t] = a /\ (Shields(t, a) \/ InChain(a))
    BY <1>0, MyType, ChainFacts, SMTT(20), ZenonT(40) DEF TypeOK, HazardTypeOK, ShieldInv, Shields, PushEnd, PopEnd, EmptyEnd, Blank
  <1> QED BY <1>0, <1>1, <1>2, <1>3, <1>4, <1>f, LocalStep

LEMMA IsEmptyReturnMem ==
  ASSUME MemInv, NEW t \in Threads, IsEmptyReturn(t)
  PROVE  MemInv'
  <1> USE DEF IsEmptyReturn, Clear, Forget, From, hazardKept, queueKept, hazardVars, node, history
  <1>0. /\ TypeOK /\ NodeInv(t) /\ ShieldInv(t) /\ phase = "open"
    BY ChainFacts DEF MemInv
  <1>a. my[t].end \in Addr => push_idx[my[t].end] \in Nat /\ next[my[t].end] \in Node
    BY <1>0, NodeTypes
  <1>b. pc[t] \in PushEnd \cup PopEnd \cup EmptyEnd => my[t].end \in Addr
    BY Shielded
  <1>f. /\ pc' = [pc EXCEPT ![t] = pc'[t]]
        /\ \A u \in Threads \ {t} : my'[u] = my[u] /\ pointer'[u] = pointer[u]
        /\ UNCHANGED <<head, tail, next, phase, chain, retired, scan, live>>
        /\ pc[t] # "push_link" /\ pc'[t] # "push_link" /\ (pc[t] = "pop_scan" => ~Scanning(t))
    BY <1>0 DEF TypeOK, HazardTypeOK
  <1>1. TypeOK'
    <2>1. my'[t] \in Mine
      BY <1>0, <1>a, <1>b, MyType, FieldTypes, BlankType DEF TypeOK, Item, PushEnd, PopEnd, EmptyEnd
    <2>2. my' \in [Threads -> Mine]
      BY <1>0, <2>1 DEF TypeOK, Mine
    <2>3. pc'[t] \in Places
      BY <1>0 DEF TypeOK, Places
    <2>4. pc' \in [Threads -> Places]
      BY <1>0, <1>f, <2>3 DEF TypeOK
    <2>5. pointer' \in [Threads -> Node]
      BY <1>0, MyType DEF TypeOK, HazardTypeOK, Node
    <2>6. buffer' \in [Addr -> [Slots -> Cells]]
      BY <1>0, MyType, NodeTypes DEF Cells
    <2>7. push_idx' \in [Addr -> Nat] /\ pop_idx' \in [Addr -> Nat]
      BY <1>0, NodeTypes
    <2>8. finished' \subseteq Values /\ older' \in [Values -> SUBSET Values] /\ asked' \in [Threads -> SUBSET Values]
      BY <1>0, MyType DEF TypeOK, NodeInv, Pushing
    <2> QED BY <1>0, <1>f, <2>2, <2>4, <2>5, <2>6, <2>7, <2>8, SMTT(20), ZenonT(40) DEF TypeOK, HazardTypeOK, Mine, Node, Cells
  <1>2. NodeInv(t)'
    BY <1>0, MyType, ChainFacts, SMTT(20), ZenonT(40) DEF TypeOK, NodeInv, InChain, Pushing, PopEnd, EmptyEnd, Blank
  <1>3. \A a \in Addr : (Fresh(t, a)' <=> Fresh(t, a)) /\ ~Pending(t, a)' /\ ~Pending(t, a)
    BY <1>0, MyType DEF TypeOK, Fresh, Pending, Blank
  <1>4. /\ pc'[t] \in {"push_validate", "pop_validate", "empty_validate"} => pointer'[t] = my'[t].end
        /\ \A a \in Node : Shields(t, a)' => pointer'[t] = a /\ (Shields(t, a) \/ InChain(a))
    BY <1>0, MyType, ChainFacts, SMTT(20), ZenonT(40) DEF TypeOK, HazardTypeOK, ShieldInv, Shields, PushEnd, PopEnd, EmptyEnd, Blank
  <1> QED BY <1>0, <1>1, <1>2, <1>3, <1>4, <1>f, LocalStep

-----------------------------------------------------------------------------
(* Steps that change what is shared: what the other threads know stays so. *)

LEMMA NodeStable ==
  ASSUME MemInv, NEW u \in Threads, pc'[u] = pc[u], my'[u] = my[u],
         \A b \in Addr : Fresh(u, b) => next'[b] = next[b],
         \A b \in Addr : Shields(u, b) => next'[b] = next[b] \/ (next[b] = NULL /\ pc[u] # "push_link"),
         pc[u] = "push_link" =>
           /\ \E i \in 1..(Len(chain') - 1) : Links(u, i)'
           /\ \A w \in Threads \ {u} : pc'[w] = "push_link" => my'[w].end # my[u].end,
         pc[u] \in PopEnd \cup EmptyEnd /\ InChain(my[u].end)' => head' = my[u].end
  PROVE  NodeInv(u)'
  <1>1. TypeOK /\ NodeInv(u)
    BY DEF MemInv
  <1>2. pc[u] \in {"push_swing", "push_drop"} => next'[my[u].node] = next[my[u].node]
    BY FreshNode DEF Fresh
  <1>3. pc[u] \in {"push_link", "pop_swing"} =>
          next'[my[u].end] = next[my[u].end] \/ (next[my[u].end] = NULL /\ pc[u] # "push_link")
    <2>1. pc[u] \in {"push_link", "pop_swing"} => my[u].end \in Addr /\ Shields(u, my[u].end)
      BY Shielded DEF Shields, PushEnd, PopEnd
    <2> QED BY <2>1
  <1>4. pc[u] = "pop_swing" => next[my[u].end] # NULL
    BY <1>1 DEF NodeInv
  <1> QED BY <1>1, <1>2, <1>3, <1>4 DEF NodeInv

(* While the queue has the same nodes. *)
LEMMA LinkStable ==
  ASSUME MemInv, NEW u \in Threads, pc[u] = "push_link", pc'[u] = pc[u], my'[u] = my[u], chain' = chain,
         \A w \in Threads : pc'[w] = "push_link" => pc[w] = "push_link" /\ my'[w] = my[w]
  PROVE  /\ \E i \in 1..(Len(chain') - 1) : Links(u, i)'
         /\ \A w \in Threads \ {u} : pc'[w] = "push_link" => my'[w].end # my[u].end
  <1>1. NodeInv(u)
    BY DEF MemInv
  <1> QED BY <1>1 DEF NodeInv, Links

LEMMA HeadStable ==
  ASSUME MemInv, NEW u \in Threads, my'[u] = my[u], head' = head,
         \A b \in Node : InChain(b)' => InChain(b)
  PROVE  pc[u] \in PopEnd \cup EmptyEnd /\ InChain(my[u].end)' => head' = my[u].end
  BY MyType DEF MemInv, NodeInv

LEMMA ShieldStable ==
  ASSUME MemInv, NEW u \in Threads, pc'[u] = pc[u], my'[u] = my[u], pointer'[u] = pointer[u],
         \A b \in Addr : Shields(u, b) => b \in live' /\ \A w \in Threads : ~Fresh(w, b)',
         \A b \in Addr, w \in Threads :
           Shields(u, b) /\ Scanning(w)' /\ Suspect(w)' = b => u \in scan'[w].unread
  PROVE  ShieldInv(u)'
  <1>1. ShieldInv(u) /\ live \subseteq Addr
    BY DEF MemInv, TypeOK, HazardTypeOK
  <1>2. \A b \in Node : Shields(u, b)' => Shields(u, b) /\ b \in Addr
    BY <1>1 DEF Shields, ShieldInv
  <1> QED BY <1>1, <1>2 DEF ShieldInv

(* The frame of what a scan reads. *)
LEMMA UnreadStable ==
  ASSUME MemInv, NEW u \in Threads, UNCHANGED <<scan, retired>>
  PROVE  \A b \in Addr, w \in Threads :
           Shields(u, b) /\ Scanning(w)' /\ Suspect(w)' = b => u \in scan'[w].unread
  BY DEF MemInv, ShieldInv, Scanning, Suspect, Node

LEMMA ShieldsLive ==
  ASSUME MemInv, NEW u \in Threads, NEW b \in Node, Shields(u, b)
  PROVE  b \in Addr /\ b \in live /\ \A w \in Threads : ~Fresh(w, b)
  BY DEF MemInv, ShieldInv, TypeOK, HazardTypeOK

LEMMA Erased ==
  ASSUME TypeOK, Erase
  PROVE  /\ next' \in [Addr -> Node] /\ buffer' \in [Addr -> [Slots -> Cells]]
         /\ push_idx' \in [Addr -> Nat] /\ pop_idx' \in [Addr -> Nat]
         /\ \A a \in live \ live' : next'[a] = NULL /\ buffer'[a] = NoItems /\ pop_idx'[a] = 0
         /\ \A a \in Addr \ (live \ live') : /\ next'[a] = next[a] /\ buffer'[a] = buffer[a]
                                             /\ push_idx'[a] = push_idx[a] /\ pop_idx'[a] = pop_idx[a]
  <1>1. live \subseteq Addr
    BY DEF TypeOK, HazardTypeOK
  <1> QED BY <1>1, NodeTypes, BlankType DEF Erase

LEMMA ErasedNothing ==
  ASSUME TypeOK, Erase, live' = live
  PROVE  UNCHANGED node
  <1>1. live \ live' = {}
    OBVIOUS
  <1>2. /\ next' = [a \in Addr |-> next[a]] /\ buffer' = [a \in Addr |-> buffer[a]]
        /\ push_idx' = [a \in Addr |-> push_idx[a]] /\ pop_idx' = [a \in Addr |-> pop_idx[a]]
    BY <1>1 DEF Erase
  <1> QED BY <1>2, NodeTypes DEF node

(* A new node is nobody else's: whatever the others hold is live.          *)
LEMMA PushNewMem ==
  ASSUME MemInv, NEW t \in Threads, PushNew(t)
  PROVE  MemInv'
  <1>0. PICK a \in Addr \ live :
          /\ live' = live \cup {a}
          /\ next' = [next EXCEPT ![a] = NULL]
          /\ buffer' = [buffer EXCEPT ![a] = [NoItems EXCEPT ![0] = my[t].item]]
          /\ push_idx' = [push_idx EXCEPT ![a] = 1]
          /\ pop_idx' = [pop_idx EXCEPT ![a] = 0]
          /\ my' = [my EXCEPT ![t].node = a]
    BY DEF PushNew
  <1>a. /\ pc[t] = "push_new" /\ pc' = [pc EXCEPT ![t] = "push_swing"]
        /\ UNCHANGED <<pointer, retired, scan, head, tail, phase, chain, finished, older, asked>>
    BY DEF PushNew, From, queueKept, history
  <1>t. TypeOK /\ NodeInv(t)
    BY DEF MemInv
  <1>b. /\ pc'[t] = "push_swing" /\ my'[t].node = a /\ my'[t].item = my[t].item /\ my'[t].end = my[t].end
        /\ \A u \in Threads \ {t} : pc'[u] = pc[u] /\ my'[u] = my[u]
    BY <1>0, <1>a, <1>t, MyType DEF TypeOK, Mine
  <1>c. \A b \in Addr : b # a => next'[b] = next[b]
    BY <1>0, <1>t DEF TypeOK
  <1>d. next'[a] = NULL
    BY <1>0, <1>t DEF TypeOK
  <1>e. \A b : InChain(b)' <=> InChain(b)
    BY <1>a DEF InChain
  <1>f. \A u \in Threads, b \in Addr : /\ Fresh(u, b)' <=> Fresh(u, b) \/ (u = t /\ b = a)
                                       /\ Pending(u, b)' <=> Pending(u, b)
                                       /\ On(u, b)' <=> On(u, b)
    <2>1. \A u \in Threads, b \in Addr : On(u, b)' <=> On(u, b)
      BY <1>a DEF On
    <2>2. \A u \in Threads, b \in Addr : /\ Fresh(u, b)' <=> Fresh(u, b) \/ (u = t /\ b = a)
                                         /\ Pending(u, b)' <=> Pending(u, b)
      BY <1>a, <1>b DEF Fresh, Pending
    <2> QED BY <2>1, <2>2
  <1>g. ~InChain(a) /\ \A u \in Threads : ~Fresh(u, a) /\ ~Pending(u, a) /\ ~On(u, a)
    BY <1>0 DEF MemInv, OwnerInv, Owns
  <1>1. TypeOK'
    <2>1. my' \in [Threads -> Mine]
      BY <1>0, <1>t, MyType, FieldTypes DEF TypeOK, Mine, Node
    <2>2. pc' \in [Threads -> Places]
      BY <1>a, <1>t DEF TypeOK, Places
    <2>3. live' \in SUBSET Addr /\ next' \in [Addr -> Node]
      BY <1>0, <1>t DEF TypeOK, HazardTypeOK, Node
    <2>4. buffer' \in [Addr -> [Slots -> Cells]]
      BY <1>0, <1>t, MyType, NodeTypes, BlankType
    <2>5. push_idx' \in [Addr -> Nat] /\ pop_idx' \in [Addr -> Nat]
      BY <1>0, <1>t, NodeTypes
    <2> QED BY <1>a, <1>t, <2>1, <2>2, <2>3, <2>4, <2>5 DEF TypeOK, HazardTypeOK, Mine, Node, Cells
  <1>2. OwnerInv'
    <2>1. ASSUME NEW b \in Addr
          PROVE  b \in live' <=> InChain(b)' \/ \E u \in Threads : Owns(u, b)'
      BY <1>0, <1>e, <1>f DEF MemInv, OwnerInv, Owns
    <2>2. ASSUME NEW u \in Threads, NEW b \in Addr
          PROVE  /\ Owns(u, b)' => ~InChain(b)' /\ \A w \in Threads \ {u} : ~Owns(w, b)'
                 /\ Fresh(u, b)' => ~On(u, b)'
                 /\ Pending(u, b)' => ~On(u, b)'
                 /\ Pending(u, b)' \/ On(u, b)' => next'[b] # NULL
      <3>1. CASE b = a
        BY <3>1, <1>e, <1>f, <1>g DEF Owns
      <3>2. CASE b # a
        <4>2. \A w \in Threads : Owns(w, b)' <=> Owns(w, b)
          BY <3>2, <1>f DEF Owns
        <4> QED BY <3>2, <4>2, <1>c, <1>e, <1>f DEF MemInv, OwnerInv
      <3> QED BY <3>1, <3>2
    <2>3. \A u \in Threads : \A i, j \in 1..Len(retired'[u]) : retired'[u][i] = retired'[u][j] => i = j
      BY <1>a DEF MemInv, OwnerInv
    <2>4. \A b \in Addr \ live' : next'[b] = NULL
      BY <1>0, <1>c DEF MemInv, OwnerInv
    <2> QED BY <2>1, <2>2, <2>3, <2>4 DEF OwnerInv
  <1>3. ListInv'
    <2>1. \A i \in 1..Len(chain) : next'[chain[i]] = next[chain[i]]
      BY <1>0, <1>c, ChainFacts
    <2>2. \A i : \A u \in Threads : Links(u, i) => Links(u, i)'
      BY <1>a, <1>b DEF Links
    <2> QED BY <2>1, <2>2, <1>a DEF MemInv, ListInv
  <1>4. PhaseInv' /\ ScanInv'
    BY <1>a, <1>b DEF MemInv, PhaseInv, ScanInv, Scanning, NoScan
  <1>w. \A w \in Threads : pc'[w] = "push_link" => pc[w] = "push_link" /\ my'[w] = my[w]
    BY <1>b
  <1>h. \A u \in Threads, b \in Addr : Shields(u, b) => b \in live' /\ \A w \in Threads : ~Fresh(w, b)'
    <2> SUFFICES ASSUME NEW u \in Threads, NEW b \in Addr, Shields(u, b)
                 PROVE  b \in live' /\ \A w \in Threads : ~Fresh(w, b)'
      OBVIOUS
    <2>1. b \in live /\ \A w \in Threads : ~Fresh(w, b)
      BY ShieldsLive DEF Node
    <2> QED BY <2>1, <1>0, <1>f
  <1>5. ASSUME NEW u \in Threads PROVE NodeInv(u)' /\ ShieldInv(u)'
    <2>1. CASE u = t
      <3>1. NodeInv(u)'
        BY <2>1, <1>a, <1>b, <1>d, <1>t DEF NodeInv, Pushing, PopEnd, EmptyEnd, HazardPointerAssumption
      <3>2. \A b \in Node : Shields(t, b)' => Shields(t, b)
        BY <1>a, <1>b DEF Shields, PushEnd
      <3>3. \A b \in Node : Shields(t, b)' => b \in Addr /\ pointer[t] = b
        BY <3>2 DEF MemInv, ShieldInv, TypeOK, HazardTypeOK
      <3>4. \A b \in Addr, w \in Threads :
              Shields(t, b) /\ Scanning(w)' /\ Suspect(w)' = b => t \in scan'[w].unread
        BY <1>a, UnreadStable
      <3> QED BY <2>1, <3>1, <3>2, <3>3, <3>4, <1>a, <1>b, <1>h DEF ShieldInv
    <2>2. CASE u # t
      <3>0. pc'[u] = pc[u] /\ my'[u] = my[u] /\ pointer'[u] = pointer[u]
        BY <2>2, <1>a, <1>b
      <3>1. \A b \in Addr : Fresh(u, b) \/ Shields(u, b) => next'[b] = next[b]
        BY <1>0, <1>c, <1>g, ShieldsLive DEF Node
      <3>2. NodeInv(u)'
        BY <3>0, <3>1, <1>a, <1>e, <1>w, NodeStable, LinkStable, HeadStable
      <3>3. ShieldInv(u)'
        BY <3>0, <1>a, <1>h, UnreadStable, ShieldStable
      <3> QED BY <3>2, <3>3
    <2> QED BY <2>1, <2>2
  <1> QED BY <1>1, <1>2, <1>3, <1>4, <1>5 DEF MemInv

(* free(new_node): nobody else has it. *)
LEMMA PushDropMem ==
  ASSUME MemInv, NEW t \in Threads, PushDrop(t)
  PROVE  MemInv'
  <1> DEFINE m == my[t].node
  <1>a. /\ pc[t] = "push_drop" /\ pc' = [pc EXCEPT ![t] = "push_load"]
        /\ live' = live \ {m} /\ Erase
        /\ my' = [my EXCEPT ![t] = [Blank EXCEPT !.item = my[t].item]]
        /\ UNCHANGED <<pointer, retired, scan, head, tail, phase, chain, finished, older, asked>>
    BY DEF PushDrop, From, Again, queueKept, history
  <1>t. TypeOK /\ NodeInv(t)
    BY DEF MemInv
  <1>b. /\ pc'[t] = "push_load" /\ my'[t].item = my[t].item
        /\ \A u \in Threads \ {t} : pc'[u] = pc[u] /\ my'[u] = my[u]
    BY <1>a, <1>t, MyType DEF TypeOK, Mine, Blank
  <1>g. /\ m \in Addr /\ m \in live /\ Fresh(t, m)
        /\ ~InChain(m) /\ ~Pending(t, m) /\ ~On(t, m)
        /\ \A u \in Threads \ {t} : ~Fresh(u, m) /\ ~Pending(u, m) /\ ~On(u, m)
        /\ \A u \in Threads : ~Shields(u, m)
    BY <1>a, FreshNode
  <1>k. \A b \in Addr : Fresh(t, b) => b = m
    BY DEF Fresh
  <1> HIDE DEF m
  <1>c. next'[m] = NULL /\ \A b \in Addr : b # m => next'[b] = next[b]
    BY <1>a, <1>g, <1>t, Erased
  <1>e. \A b : InChain(b)' <=> InChain(b)
    BY <1>a DEF InChain
  <1>f. \A u \in Threads, b \in Addr : /\ Fresh(u, b)' <=> Fresh(u, b) /\ u # t
                                       /\ Pending(u, b)' <=> Pending(u, b)
                                       /\ On(u, b)' <=> On(u, b)
    <2>1. \A u \in Threads, b \in Addr : On(u, b)' <=> On(u, b)
      BY <1>a DEF On
    <2>2. \A u \in Threads, b \in Addr : /\ Fresh(u, b)' <=> Fresh(u, b) /\ u # t
                                         /\ Pending(u, b)' <=> Pending(u, b)
      BY <1>a, <1>b DEF Fresh, Pending
    <2> QED BY <2>1, <2>2
  <1>1. TypeOK'
    <2>1. my' \in [Threads -> Mine]
      BY <1>a, <1>t, MyType, BlankType DEF TypeOK, Mine
    <2>2. pc' \in [Threads -> Places] /\ live' \in SUBSET Addr
      BY <1>a, <1>t DEF TypeOK, HazardTypeOK, Places
    <2>3. /\ next' \in [Addr -> Node] /\ buffer' \in [Addr -> [Slots -> Cells]]
          /\ push_idx' \in [Addr -> Nat] /\ pop_idx' \in [Addr -> Nat]
      BY <1>a, <1>t, Erased
    <2> QED BY <1>a, <1>t, <2>1, <2>2, <2>3 DEF TypeOK, HazardTypeOK, Mine, Node, Cells
  <1>2. OwnerInv'
    <2>0. \A u \in Threads, b \in Addr : Owns(u, b)' <=> Owns(u, b) /\ b # m
      BY <1>f, <1>g, <1>k DEF Owns
    <2>1. ASSUME NEW b \in Addr
          PROVE  b \in live' <=> InChain(b)' \/ \E u \in Threads : Owns(u, b)'
      <3>1. b \in live <=> InChain(b) \/ \E u \in Threads : Owns(u, b)
        BY DEF MemInv, OwnerInv
      <3> QED BY <3>1, <2>0, <1>a, <1>e, <1>g
    <2>2. ASSUME NEW u \in Threads, NEW b \in Addr
          PROVE  /\ Owns(u, b)' => ~InChain(b)' /\ \A w \in Threads \ {u} : ~Owns(w, b)'
                 /\ Fresh(u, b)' => ~On(u, b)'
                 /\ Pending(u, b)' => ~On(u, b)'
                 /\ Pending(u, b)' \/ On(u, b)' => next'[b] # NULL
      <3>1. b = m => ~Pending(u, b) /\ ~On(u, b)
        BY <1>g
      <3> QED BY <3>1, <2>0, <1>c, <1>e, <1>f DEF MemInv, OwnerInv
    <2>3. \A u \in Threads : \A i, j \in 1..Len(retired'[u]) : retired'[u][i] = retired'[u][j] => i = j
      BY <1>a DEF MemInv, OwnerInv
    <2>4. \A b \in Addr \ live' : next'[b] = NULL
      BY <1>a, <1>c DEF MemInv, OwnerInv
    <2> QED BY <2>1, <2>2, <2>3, <2>4 DEF OwnerInv
  <1>3. ListInv'
    <2>1. \A i \in 1..Len(chain) : next'[chain[i]] = next[chain[i]]
      BY <1>c, <1>g, ChainFacts DEF InChain
    <2>2. \A i : \A u \in Threads : Links(u, i) => Links(u, i)'
      BY <1>a, <1>b DEF Links
    <2> QED BY <2>1, <2>2, <1>a DEF MemInv, ListInv
  <1>4. PhaseInv' /\ ScanInv'
    BY <1>a, <1>b DEF MemInv, PhaseInv, ScanInv, Scanning, NoScan
  <1>w. \A w \in Threads : pc'[w] = "push_link" => pc[w] = "push_link" /\ my'[w] = my[w]
    BY <1>b
  <1>h. \A u \in Threads, b \in Addr : Shields(u, b) => b \in live' /\ \A w \in Threads : ~Fresh(w, b)'
    <2> SUFFICES ASSUME NEW u \in Threads, NEW b \in Addr, Shields(u, b)
                 PROVE  b \in live' /\ \A w \in Threads : ~Fresh(w, b)'
      OBVIOUS
    <2>1. b \in live /\ \A w \in Threads : ~Fresh(w, b)
      BY ShieldsLive DEF Node
    <2>2. b # m
      BY <1>g
    <2> QED BY <2>1, <2>2, <1>a, <1>f
  <1>5. ASSUME NEW u \in Threads PROVE NodeInv(u)' /\ ShieldInv(u)'
    <2>1. CASE u = t
      BY <2>1, <1>a, <1>b, <1>t DEF NodeInv, ShieldInv, Shields, Pushing, PushEnd, PopEnd, EmptyEnd
    <2>2. CASE u # t
      <3>0. pc'[u] = pc[u] /\ my'[u] = my[u] /\ pointer'[u] = pointer[u]
        BY <2>2, <1>a, <1>b
      <3>1. \A b \in Addr : Fresh(u, b) \/ Shields(u, b) => next'[b] = next[b]
        BY <2>2, <1>c, <1>g
      <3>2. NodeInv(u)'
        BY <3>0, <3>1, <1>a, <1>e, <1>w, NodeStable, LinkStable, HeadStable
      <3>3. ShieldInv(u)'
        BY <3>0, <1>a, <1>h, UnreadStable, ShieldStable
      <3> QED BY <3>2, <3>3
    <2> QED BY <2>1, <2>2
  <1> QED BY <1>1, <1>2, <1>3, <1>4, <1>5 DEF MemInv

(* The exchange of queue->tail: the new node is the last of the queue, and  *)
(* this thread is the one that will link it.                                *)
LEMMA PushSwingMem ==
  ASSUME MemInv, NEW t \in Threads, PushSwing(t), my[t].end = tail
  PROVE  MemInv'
  <1> DEFINE e == my[t].end
             m == my[t].node
  <1>n. PICK n \in Nat : n = Len(chain)
    BY ChainFacts
  <1>a. /\ pc[t] = "push_swing" /\ pc' = [pc EXCEPT ![t] = "push_link"]
        /\ tail' = m /\ chain' = Append(chain, m)
        /\ UNCHANGED <<pointer, retired, scan, live, head, phase, my, next, buffer, push_idx, pop_idx,
                       finished, older, asked>>
    BY DEF PushSwing, From, hazardKept, hazardVars, node, history
  <1>t. TypeOK /\ NodeInv(t) /\ phase = "open"
    BY <1>a, ChainFacts DEF MemInv
  <1>b. /\ pc'[t] = "push_link"
        /\ \A u \in Threads \ {t} : pc'[u] = pc[u]
    BY <1>a, <1>t DEF TypeOK
  <1>g. /\ m \in Addr /\ m \in live /\ Fresh(t, m) /\ next[m] = NULL
        /\ ~InChain(m) /\ ~Pending(t, m) /\ ~On(t, m)
        /\ \A u \in Threads \ {t} : ~Fresh(u, m) /\ ~Pending(u, m) /\ ~On(u, m)
        /\ \A u \in Threads : ~Shields(u, m)
    BY <1>a, FreshNode
  <1>k. \A b \in Addr : Fresh(t, b) => b = m
    BY DEF Fresh
  <1>c. /\ chain \in Seq(Addr) /\ n \in Nat /\ n > 0 /\ chain # <<>>
        /\ \A i \in 1..n : chain[i] \in Addr
        /\ e = chain[n] /\ e \in Addr /\ head = chain[1]
    BY <1>n, <1>t, ChainFacts
  <1>d. /\ chain' \in Seq(Addr) /\ chain' # <<>> /\ Len(chain') = n + 1
        /\ chain'[n + 1] = m /\ \A i \in 1..n : chain'[i] = chain[i]
    BY <1>a, <1>c, <1>g, <1>n, AppendPositions
  <1>j. /\ \A i, j \in 1..n : chain[i] = chain[j] => i = j
        /\ \A i \in 1..n : \/ next[chain[i]] = IF i = n THEN NULL ELSE chain[i + 1]
                           \/ next[chain[i]] = NULL /\ \E u \in Threads : Links(u, i)
    BY <1>n DEF MemInv, ListInv
  <1>p. n \in 1..n /\ 1 \in 1..n /\ n + 1 \in 1..(n + 1) /\ n \in 1..(n + 1)
    BY <1>c
  <1>q. \A i \in 1..n : chain[i] # m
    BY <1>n, <1>g DEF InChain
  <1>x. ASSUME NEW u \in Threads, pc[u] = "push_link"
        PROVE  \E i \in 1..(n - 1) : Links(u, i)
    BY <1>n, <1>x DEF MemInv, NodeInv
  <1> HIDE DEF m
  <1>e. \A b : InChain(b)' <=> InChain(b) \/ b = m
    <2> TAKE b
    <2>1. InChain(b)' => InChain(b) \/ b = m
      <3> SUFFICES ASSUME NEW i \in 1..(n + 1), chain'[i] = b, b # m PROVE InChain(b)
        BY <1>d DEF InChain
      <3>1. i \in 1..n
        BY <1>c, <1>d
      <3> QED BY <3>1, <1>d, <1>n DEF InChain
    <2>2. InChain(b) => InChain(b)'
      <3> SUFFICES ASSUME NEW i \in 1..n, chain[i] = b PROVE InChain(b)'
        BY <1>n DEF InChain
      <3>1. i \in 1..(n + 1)
        BY <1>c
      <3> QED BY <3>1, <1>d DEF InChain
    <2>3. b = m => InChain(b)'
      BY <1>d, <1>p DEF InChain
    <2> QED BY <2>1, <2>2, <2>3
  <1>f. \A u \in Threads, b \in Addr : /\ Fresh(u, b)' <=> Fresh(u, b) /\ u # t
                                       /\ Pending(u, b)' <=> Pending(u, b)
                                       /\ On(u, b)' <=> On(u, b)
    <2>1. \A u \in Threads, b \in Addr : On(u, b)' <=> On(u, b)
      BY <1>a DEF On
    <2>2. \A u \in Threads, b \in Addr : /\ Fresh(u, b)' <=> Fresh(u, b) /\ u # t
                                         /\ Pending(u, b)' <=> Pending(u, b)
      BY <1>a, <1>b DEF Fresh, Pending
    <2> QED BY <2>1, <2>2
  <1>l. \A u \in Threads, i \in 1..(n - 1) : Links(u, i) => Links(u, i)'
    <2> SUFFICES ASSUME NEW u \in Threads, NEW i \in 1..(n - 1), Links(u, i) PROVE Links(u, i)'
      OBVIOUS
    <2>1. i \in 1..n /\ i + 1 \in 1..n
      BY <1>c
    <2>2. u # t
      BY <1>a DEF Links
    <2> QED BY <2>1, <2>2, <1>a, <1>b, <1>d DEF Links
  <1>y. Links(t, n)'
    BY <1>a, <1>b, <1>c, <1>d, <1>p DEF Links, m
  <1>1. TypeOK'
    <2>1. pc' \in [Threads -> Places]
      BY <1>a, <1>t DEF TypeOK, Places
    <2> QED BY <1>a, <1>t, <1>d, <1>g, <2>1 DEF TypeOK, HazardTypeOK, Node
  <1>2. OwnerInv'
    <2>0. \A u \in Threads, b \in Addr : Owns(u, b)' <=> Owns(u, b) /\ b # m
      BY <1>f, <1>g, <1>k DEF Owns
    <2>1. ASSUME NEW b \in Addr
          PROVE  b \in live' <=> InChain(b)' \/ \E u \in Threads : Owns(u, b)'
      <3>1. b \in live <=> InChain(b) \/ \E u \in Threads : Owns(u, b)
        BY DEF MemInv, OwnerInv
      <3> QED BY <3>1, <2>0, <1>a, <1>e, <1>g
    <2>2. ASSUME NEW u \in Threads, NEW b \in Addr
          PROVE  /\ Owns(u, b)' => ~InChain(b)' /\ \A w \in Threads \ {u} : ~Owns(w, b)'
                 /\ Fresh(u, b)' => ~On(u, b)'
                 /\ Pending(u, b)' => ~On(u, b)'
                 /\ Pending(u, b)' \/ On(u, b)' => next'[b] # NULL
      BY <2>0, <1>a, <1>e, <1>f DEF MemInv, OwnerInv
    <2>3. \A u \in Threads : \A i, j \in 1..Len(retired'[u]) : retired'[u][i] = retired'[u][j] => i = j
      BY <1>a DEF MemInv, OwnerInv
    <2>4. \A b \in Addr \ live' : next'[b] = NULL
      BY <1>a DEF MemInv, OwnerInv
    <2> QED BY <2>1, <2>2, <2>3, <2>4 DEF OwnerInv
  <1>3. ListInv'
    <2>1. head' = IF chain' = <<>> THEN NULL ELSE chain'[1]
      BY <1>a, <1>c, <1>d, <1>p
    <2>2. ASSUME NEW i \in 1..(n + 1)
          PROVE  \/ next'[chain'[i]] = IF i = n + 1 THEN NULL ELSE chain'[i + 1]
                 \/ next'[chain'[i]] = NULL /\ \E u \in Threads : Links(u, i)'
      <3>1. CASE i = n + 1
        BY <3>1, <1>a, <1>d, <1>g
      <3>2. CASE i = n
        <4>1. next[chain[n]] = NULL
          BY <1>j, <1>p
        <4> QED BY <3>2, <4>1, <1>a, <1>d, <1>p, <1>y
      <3>3. CASE i # n + 1 /\ i # n
        <4>1. i \in 1..n /\ i + 1 \in 1..n /\ i \in 1..(n - 1) /\ i # n + 1
          BY <3>3, <1>c
        <4>2. chain'[i] = chain[i] /\ chain'[i + 1] = chain[i + 1]
          BY <4>1, <1>d
        <4> QED BY <4>1, <4>2, <3>3, <1>a, <1>j, <1>l
      <3> QED BY <3>1, <3>2, <3>3
    <2>3. ASSUME NEW i \in 1..(n + 1), NEW j \in 1..(n + 1), chain'[i] = chain'[j]
          PROVE  i = j
      <3>1. (i = n + 1 \/ i \in 1..n) /\ (j = n + 1 \/ j \in 1..n)
        BY <1>c
      <3> QED BY <3>1, <2>3, <1>d, <1>j, <1>q
    <2>4. tail' = chain'[n + 1]
      BY <1>a, <1>d
    <2> QED BY <2>1, <2>2, <2>3, <2>4, <1>d DEF ListInv
  <1>4. PhaseInv' /\ ScanInv'
    BY <1>a, <1>b, <1>t DEF MemInv, PhaseInv, ScanInv, Scanning, NoScan
  <1>h. \A u \in Threads, b \in Addr : Shields(u, b) => b \in live' /\ \A w \in Threads : ~Fresh(w, b)'
    <2> SUFFICES ASSUME NEW u \in Threads, NEW b \in Addr, Shields(u, b)
                 PROVE  b \in live' /\ \A w \in Threads : ~Fresh(w, b)'
      OBVIOUS
    <2>1. b \in live /\ \A w \in Threads : ~Fresh(w, b)
      BY ShieldsLive DEF Node
    <2> QED BY <2>1, <1>a, <1>f
  <1>z. \A u \in Threads : pc[u] = "push_link" => my[u].end # e
    <2> SUFFICES ASSUME NEW u \in Threads, pc[u] = "push_link" PROVE my[u].end # e
      OBVIOUS
    <2>1. PICK i \in 1..(n - 1) : Links(u, i)
      BY <1>x
    <2>2. i \in 1..n /\ i # n
      BY <1>c
    <2> QED BY <2>1, <2>2, <1>c, <1>j, <1>p DEF Links
  <1>5. ASSUME NEW u \in Threads PROVE NodeInv(u)' /\ ShieldInv(u)'
    <2>1. CASE u = t
      <3>1. next'[my'[t].end] = NULL
        BY <1>a, <1>c, <1>j, <1>p
      <3>2. \E i \in 1..(Len(chain') - 1) : Links(t, i)'
        <4>1. n \in 1..((n + 1) - 1)
          BY <1>c
        <4> QED BY <4>1, <1>d, <1>y
      <3>3. \A w \in Threads : pc'[w] = "push_link" /\ my'[w].end = my'[t].end => w = t
        BY <1>a, <1>b, <1>z
      <3>4. NodeInv(t)'
        BY <3>1, <3>2, <3>3, <1>a, <1>b, <1>t DEF NodeInv, Pushing, PopEnd, EmptyEnd
      <3>5. \A b \in Node : Shields(t, b)' => Shields(t, b)
        BY <1>a, <1>b DEF Shields, PushEnd
      <3>6. \A b \in Node : Shields(t, b)' => b \in Addr /\ pointer[t] = b
        BY <3>5 DEF MemInv, ShieldInv, TypeOK, HazardTypeOK
      <3>7. \A b \in Addr, w \in Threads :
              Shields(t, b) /\ Scanning(w)' /\ Suspect(w)' = b => t \in scan'[w].unread
        BY <1>a, UnreadStable
      <3> QED BY <2>1, <3>4, <3>5, <3>6, <3>7, <1>a, <1>b, <1>h DEF ShieldInv
    <2>2. CASE u # t
      <3>0. pc'[u] = pc[u] /\ my'[u] = my[u] /\ pointer'[u] = pointer[u] /\ next' = next
        BY <2>2, <1>a, <1>b
      <3>1. pc[u] = "push_link" =>
              /\ \E i \in 1..(Len(chain') - 1) : Links(u, i)'
              /\ \A w \in Threads \ {u} : pc'[w] = "push_link" => my'[w].end # my[u].end
        <4> SUFFICES ASSUME pc[u] = "push_link"
                     PROVE  /\ \E i \in 1..(Len(chain') - 1) : Links(u, i)'
                            /\ \A w \in Threads \ {u} : pc'[w] = "push_link" => my'[w].end # my[u].end
          OBVIOUS
        <4>1. PICK i \in 1..(n - 1) : Links(u, i)
          BY <1>x
        <4>2. i \in 1..(Len(chain') - 1)
          BY <1>c, <1>d
        <4>3. \A w \in Threads \ {u} : pc[w] = "push_link" => my[w].end # my[u].end
          BY DEF MemInv, NodeInv
        <4> QED BY <4>1, <4>2, <4>3, <1>a, <1>b, <1>l, <1>z
      <3>2. pc[u] \in PopEnd \cup EmptyEnd /\ InChain(my[u].end)' => head' = my[u].end
        <4> SUFFICES ASSUME pc[u] \in PopEnd \cup EmptyEnd, InChain(my[u].end)' PROVE head' = my[u].end
          OBVIOUS
        <4>1. Shields(u, my[u].end) /\ my[u].end \in Addr
          BY Shielded DEF Shields
        <4>2. InChain(my[u].end)
          BY <4>1, <3>0, <1>e, <1>g
        <4> QED BY <4>2, <1>a DEF MemInv, NodeInv
      <3>3. NodeInv(u)'
        BY <3>0, <3>1, <3>2, NodeStable
      <3>4. ShieldInv(u)'
        BY <3>0, <1>a, <1>h, UnreadStable, ShieldStable
      <3> QED BY <3>3, <3>4
    <2> QED BY <2>1, <2>2
  <1> QED BY <1>1, <1>2, <1>3, <1>4, <1>5 DEF MemInv

(* The link: the node is in the queue already, and its predecessor is too.  *)
LEMMA PushLinkMem ==
  ASSUME MemInv, NEW t \in Threads, PushLink(t)
  PROVE  MemInv'
  <1> DEFINE e == my[t].end
             m == my[t].node
             n == Len(chain)
  <1>a. /\ pc[t] = "push_link" /\ pc' = [pc EXCEPT ![t] = "pushed"]
        /\ next' = [next EXCEPT ![e] = m]
        /\ UNCHANGED <<pointer, retired, scan, live, head, tail, phase, chain, my, buffer, push_idx, pop_idx,
                       finished, older, asked>>
    BY DEF PushLink, From, hazardKept, queueKept, hazardVars, history
  <1>t. TypeOK /\ NodeInv(t) /\ phase = "open"
    BY <1>a, ChainFacts DEF MemInv
  <1>b. /\ pc'[t] = "pushed"
        /\ \A u \in Threads \ {t} : pc'[u] = pc[u]
    BY <1>a, <1>t DEF TypeOK
  <1>c. /\ n \in Nat /\ \A i \in 1..n : chain[i] \in Addr
    BY ChainFacts
  <1>d. PICK k \in 1..(n - 1) : chain[k] = e /\ chain[k + 1] = m
    BY <1>a, <1>t DEF NodeInv, Links
  <1>e. /\ k \in 1..n /\ k + 1 \in 1..n /\ k # n /\ e \in Addr /\ m \in Addr /\ InChain(e) /\ e \in live
    <2>1. k \in 1..n /\ k + 1 \in 1..n /\ k # n
      BY <1>c
    <2> QED BY <2>1, <1>c, <1>d, ChainFacts DEF InChain, Node
  <1>g. /\ next[e] = NULL
        /\ \A u \in Threads : pc[u] = "push_link" /\ my[u].end = e => u = t
        /\ \A u \in Threads : ~Fresh(u, e) /\ ~Pending(u, e) /\ ~On(u, e)
    BY <1>a, <1>t, <1>e, InChainIsShared DEF NodeInv, Node
  <1> HIDE DEF e, m, n
  <1>f. /\ next'[e] = m /\ \A b \in Addr : b # e => next'[b] = next[b]
    BY <1>a, <1>e, <1>t DEF TypeOK
  <1>i. \A b : InChain(b)' <=> InChain(b)
    BY <1>a DEF InChain
  <1>h. \A u \in Threads, b \in Addr : /\ Fresh(u, b)' <=> Fresh(u, b)
                                       /\ Pending(u, b)' <=> Pending(u, b)
                                       /\ On(u, b)' <=> On(u, b)
                                       /\ Owns(u, b)' <=> Owns(u, b)
    <2>1. \A u \in Threads, b \in Addr : On(u, b)' <=> On(u, b)
      BY <1>a DEF On
    <2>2. \A u \in Threads, b \in Addr : /\ Fresh(u, b)' <=> Fresh(u, b)
                                         /\ Pending(u, b)' <=> Pending(u, b)
      BY <1>a, <1>b DEF Fresh, Pending
    <2> QED BY <2>1, <2>2 DEF Owns
  <1>j. /\ \A i, j \in 1..n : chain[i] = chain[j] => i = j
        /\ \A i \in 1..n : \/ next[chain[i]] = IF i = n THEN NULL ELSE chain[i + 1]
                           \/ next[chain[i]] = NULL /\ \E u \in Threads : Links(u, i)
    BY DEF MemInv, ListInv, n
  <1>1. TypeOK'
    <2>1. pc' \in [Threads -> Places] /\ next' \in [Addr -> Node]
      BY <1>a, <1>e, <1>t DEF TypeOK, Places, Node
    <2> QED BY <1>a, <1>t, <2>1 DEF TypeOK, HazardTypeOK
  <1>2. OwnerInv'
    <2>1. \A b \in Addr : next[b] # NULL => next'[b] # NULL
      BY <1>f, <1>g
    <2>2. \A b \in Addr \ live' : next'[b] = NULL
      BY <1>a, <1>e, <1>f DEF MemInv, OwnerInv
    <2> QED BY <2>1, <2>2, <1>a, <1>h, <1>i DEF MemInv, OwnerInv
  <1>3. ListInv'
    <2>1. ASSUME NEW i \in 1..n
          PROVE  \/ next'[chain[i]] = IF i = n THEN NULL ELSE chain[i + 1]
                 \/ next'[chain[i]] = NULL /\ \E u \in Threads : Links(u, i)'
      <3>1. CASE i = k
        BY <3>1, <1>d, <1>e, <1>f
      <3>2. CASE i # k
        <4>1. chain[i] # e /\ chain[i] \in Addr
          BY <3>2, <1>c, <1>d, <1>e, <1>j DEF n
        <4>2. \A u \in Threads : Links(u, i) => Links(u, i)'
          <5>1. ~Links(t, i)
            BY <4>1 DEF Links, e
          <5> QED BY <5>1, <1>a, <1>b DEF Links
        <4> QED BY <4>1, <4>2, <1>f, <1>j
      <3> QED BY <3>1, <3>2
    <2> QED BY <2>1, <1>a, <1>t DEF MemInv, ListInv, n
  <1>4. PhaseInv' /\ ScanInv'
    BY <1>a, <1>b, <1>t DEF MemInv, PhaseInv, ScanInv, Scanning, NoScan
  <1>w. \A w \in Threads : pc'[w] = "push_link" => pc[w] = "push_link" /\ my'[w] = my[w]
    BY <1>a, <1>b
  <1>5. ASSUME NEW u \in Threads PROVE NodeInv(u)' /\ ShieldInv(u)'
    <2>1. CASE u = t
      BY <2>1, <1>a, <1>b, <1>t DEF NodeInv, ShieldInv, Shields, Pushing, PushEnd, PopEnd, EmptyEnd
    <2>2. CASE u # t
      <3>0. pc'[u] = pc[u] /\ my'[u] = my[u] /\ pointer'[u] = pointer[u]
        BY <2>2, <1>a, <1>b
      <3>1. \A b \in Addr : Fresh(u, b) => next'[b] = next[b]
        BY <1>f, <1>g
      <3>2. \A b \in Addr : Shields(u, b) => next'[b] = next[b] \/ (next[b] = NULL /\ pc[u] # "push_link")
        BY <2>2, <1>f, <1>g DEF Shields
      <3>3. NodeInv(u)'
        BY <3>0, <3>1, <3>2, <1>a, <1>i, <1>w, NodeStable, LinkStable, HeadStable
      <3>4. \A b \in Addr : Shields(u, b) => b \in live' /\ \A w \in Threads : ~Fresh(w, b)'
        BY <1>a, <1>h, ShieldsLive DEF Node
      <3>5. ShieldInv(u)'
        BY <3>0, <3>4, <1>a, UnreadStable, ShieldStable
      <3> QED BY <3>3, <3>5
    <2> QED BY <2>1, <2>2
  <1> QED BY <1>1, <1>2, <1>3, <1>4, <1>5 DEF MemInv

(* What the queue is without its first node, when that one is linked.       *)
LEMMA WithoutHead ==
  ASSUME MemInv, chain # <<>>, chain' = Tail(chain),
         \A i \in 1..Len(chain) : i # 1 => next'[chain[i]] = next[chain[i]],
         \A u \in Threads : pc[u] = "push_link" =>
           pc'[u] = "push_link" /\ my'[u] = my[u] /\ my[u].end # chain[1]
  PROVE  /\ head = chain[1] /\ head \in Addr /\ head \in live /\ InChain(head)
         /\ chain' \in Seq(Addr)
         /\ \A b : InChain(b)' <=> InChain(b) /\ b # head
         /\ next[head] = IF chain' = <<>> THEN NULL ELSE chain'[1]
         /\ next[head] # NULL /\ phase = "open" => chain' # <<>> /\ tail = chain'[Len(chain')]
         /\ \A i, j \in 1..Len(chain') : chain'[i] = chain'[j] => i = j
         /\ \A i \in 1..Len(chain') :
              \/ next'[chain'[i]] = IF i = Len(chain') THEN NULL ELSE chain'[i + 1]
              \/ next'[chain'[i]] = NULL /\ \E t \in Threads : Links(t, i)'
         /\ \A u \in Threads : pc[u] = "push_link" => \E i \in 1..(Len(chain') - 1) : Links(u, i)'
  <1>n. PICK n \in Nat \ {0} : n = Len(chain)
    BY ChainFacts
  <1>1. /\ chain' \in Seq(Addr) /\ Len(chain') = n - 1 /\ (chain' = <<>> <=> n = 1)
        /\ \A i \in 1..(n - 1) : chain'[i] = chain[i + 1]
    BY <1>n, ChainFacts, TailPositions
  <1>2. /\ 1 \in 1..n /\ (n # 1 => 1 \in 1..(n - 1) /\ n - 1 \in 1..(n - 1) /\ (n - 1) + 1 = n /\ 1 + 1 = 2)
        /\ \A i \in 1..(n - 1) : i + 1 \in 1..n /\ i + 1 # 1
    BY <1>n
  <1>3. /\ \A i \in 1..n : chain[i] \in Addr /\ InChain(chain[i]) /\ chain[i] # NULL
        /\ head = chain[1]
    BY <1>n, ChainFacts, HazardPointerAssumption DEF InChain, MemInv, ListInv
  <1>4. head \in Addr /\ InChain(head) /\ head \in live
    BY <1>2, <1>3, ChainFacts
  <1>j. /\ \A i, j \in 1..n : chain[i] = chain[j] => i = j
        /\ \A i \in 1..n : \/ next[chain[i]] = IF i = n THEN NULL ELSE chain[i + 1]
                           \/ next[chain[i]] = NULL /\ \E u \in Threads : Links(u, i)
        /\ phase = "open" => tail = chain[n]
    BY <1>n DEF MemInv, ListInv
  <1>5. \A b : InChain(b)' <=> InChain(b) /\ b # head
    <2>1. \A b : InChain(b)' <=> \E i \in 1..(n - 1) : chain'[i] = b
      BY <1>1 DEF InChain
    <2>2. \A b : InChain(b) <=> \E i \in 1..n : chain[i] = b
      BY <1>n DEF InChain
    <2>3. \A b : (\E i \in 1..(n - 1) : chain'[i] = b) <=> (\E i \in 1..n : chain[i] = b) /\ b # chain[1]
      <3>1. /\ n \in Nat \ {0} /\ \A i \in 1..(n - 1) : chain'[i] = chain[i + 1]
            /\ \A i, j \in 1..n : chain[i] = chain[j] => i = j
        BY <1>1, <1>j
      <3> QED BY ONLY <3>1, BehindFirst
    <2> QED BY ONLY <2>1, <2>2, <2>3, <1>3
  <1>6. \A u \in Threads : ~Links(u, 1)
    BY DEF Links
  <1>7. next[head] = IF chain' = <<>> THEN NULL ELSE chain'[1]
    BY <1>1, <1>2, <1>3, <1>6, <1>j
  <1>8. next[head] # NULL /\ phase = "open" => chain' # <<>> /\ tail = chain'[Len(chain')]
    BY <1>1, <1>2, <1>7, <1>j
  <1>9. ASSUME NEW i \in 1..(n - 1), NEW j \in 1..(n - 1), chain'[i] = chain'[j] PROVE i = j
    <2>1. i + 1 = j + 1
      BY <1>1, <1>2, <1>9, <1>j
    <2> QED BY <2>1
  <1>10. \A u \in Threads, i \in 1..(n - 1) : Links(u, i + 1) /\ i + 1 # n => Links(u, i)'
    <2> SUFFICES ASSUME NEW u \in Threads, NEW i \in 1..(n - 1), Links(u, i + 1), i + 1 # n
                 PROVE  Links(u, i)'
      OBVIOUS
    <2>1. i + 1 \in 1..(n - 1)
      BY <1>n
    <2>2. chain'[i] = chain[i + 1] /\ chain'[i + 1] = chain[(i + 1) + 1]
      BY <2>1, <1>1
    <2> QED BY <2>2 DEF Links
  <1>11. ASSUME NEW u \in Threads, pc[u] = "push_link"
         PROVE  \E i \in 1..(Len(chain') - 1) : Links(u, i)'
    <2>1. PICK i \in 1..(n - 1) : Links(u, i)
      BY <1>11, <1>n DEF MemInv, NodeInv
    <2>2. i # 1
      BY <2>1, <1>6
    <2>3. i - 1 \in 1..(n - 1) /\ (i - 1) + 1 = i /\ i # n /\ i - 1 \in 1..((n - 1) - 1)
      BY <2>2, <1>n
    <2> QED BY <2>1, <2>3, <1>1, <1>10
  <1>12. ASSUME NEW i \in 1..(n - 1)
         PROVE  \/ next'[chain'[i]] = IF i = n - 1 THEN NULL ELSE chain'[i + 1]
                \/ next'[chain'[i]] = NULL /\ \E t \in Threads : Links(t, i)'
    <2>1. i + 1 \in 1..n /\ i + 1 # 1 /\ (i + 1 = n <=> i = n - 1) /\ (i # n - 1 => i + 1 \in 1..(n - 1))
      BY <1>n
    <2>2. chain'[i] = chain[i + 1] /\ next'[chain[i + 1]] = next[chain[i + 1]]
      BY <2>1, <1>n, <1>1
    <2>3. i # n - 1 => chain'[i + 1] = chain[(i + 1) + 1]
      BY <2>1, <1>1
    <2>4. CASE next[chain[i + 1]] = IF i + 1 = n THEN NULL ELSE chain[(i + 1) + 1]
      BY <2>1, <2>2, <2>3, <2>4
    <2>5. CASE next[chain[i + 1]] = NULL /\ \E u \in Threads : Links(u, i + 1)
      <3>1. i + 1 = n => next[chain[i + 1]] = IF i + 1 = n THEN NULL ELSE chain[(i + 1) + 1]
        BY <2>5
      <3> QED BY <2>2, <2>4, <2>5, <3>1, <1>10
    <2> QED BY <2>1, <2>4, <2>5, <1>j
  <1> QED BY <1>1, <1>3, <1>4, <1>5, <1>7, <1>8, <1>9, <1>11, <1>12, SMTT(20), ZenonT(40)

(* The exchange of queue->head: the successor was read when the head was    *)
(* used up, and whoever links it has done so.                               *)
LEMMA PopSwingMem ==
  ASSUME MemInv, NEW t \in Threads, PopSwing(t), my[t].end = head
  PROVE  MemInv'
  <1> DEFINE e == my[t].end
             m == my[t].next
  <1>a. /\ pc[t] = "pop_swing" /\ pc' = [pc EXCEPT ![t] = "pop_retire"]
        /\ head' = m /\ chain' = Tail(chain)
        /\ my' = [my EXCEPT ![t].next = NULL]
        /\ UNCHANGED <<pointer, retired, scan, live, tail, phase, next, buffer, push_idx, pop_idx,
                       finished, older, asked>>
    BY DEF PopSwing, From, hazardKept, hazardVars, node, history
  <1>t. TypeOK /\ NodeInv(t) /\ phase = "open" /\ chain # <<>>
    BY <1>a, ChainFacts DEF MemInv
  <1>b. /\ pc'[t] = "pop_retire" /\ my'[t].end = e /\ my'[t].node = my[t].node /\ my'[t].item = my[t].item
        /\ \A u \in Threads \ {t} : pc'[u] = pc[u] /\ my'[u] = my[u]
    BY <1>a, <1>t, MyType DEF TypeOK, Mine
  <1>c. m # NULL /\ next[e] = m
    BY <1>a, <1>t DEF NodeInv
  <1>d. \A u \in Threads : pc[u] = "push_link" => my[u].end # head
    BY <1>c DEF MemInv, NodeInv
  <1>e. /\ head = chain[1] /\ e \in Addr /\ e \in live /\ InChain(e)
        /\ chain' \in Seq(Addr) /\ chain' # <<>>
        /\ \A b : InChain(b)' <=> InChain(b) /\ b # e
        /\ m = chain'[1]
        /\ tail = chain'[Len(chain')]
        /\ \A i, j \in 1..Len(chain') : chain'[i] = chain'[j] => i = j
        /\ \A i \in 1..Len(chain') :
              \/ next'[chain'[i]] = IF i = Len(chain') THEN NULL ELSE chain'[i + 1]
              \/ next'[chain'[i]] = NULL /\ \E u \in Threads : Links(u, i)'
        /\ \A u \in Threads : pc[u] = "push_link" => \E i \in 1..(Len(chain') - 1) : Links(u, i)'
    <2>1. head = chain[1]
      BY <1>t DEF MemInv, ListInv
    <2>2. \A u \in Threads : pc[u] = "push_link" =>
            pc'[u] = "push_link" /\ my'[u] = my[u] /\ my[u].end # chain[1]
      BY <2>1, <1>a, <1>b, <1>d
    <2>3. \A i \in 1..Len(chain) : i # 1 => next'[chain[i]] = next[chain[i]]
      BY <1>a
    <2> QED BY <2>2, <2>3, <1>a, <1>c, <1>t, WithoutHead
  <1>g. \A u \in Threads : ~Fresh(u, e) /\ ~Pending(u, e) /\ ~On(u, e)
    BY <1>e, InChainIsShared DEF Node
  <1> HIDE DEF e, m
  <1>h. \A u \in Threads, b \in Addr : /\ Fresh(u, b)' <=> Fresh(u, b)
                                       /\ Pending(u, b)' <=> Pending(u, b) \/ (u = t /\ b = e)
                                       /\ On(u, b)' <=> On(u, b)
    <2>1. \A u \in Threads, b \in Addr : On(u, b)' <=> On(u, b)
      BY <1>a DEF On
    <2>2. \A u \in Threads, b \in Addr : /\ Fresh(u, b)' <=> Fresh(u, b)
                                         /\ Pending(u, b)' <=> Pending(u, b) \/ (u = t /\ b = e)
      BY <1>a, <1>b DEF Fresh, Pending
    <2> QED BY <2>1, <2>2
  <1>1. TypeOK'
    <2>1. my' \in [Threads -> Mine]
      BY <1>a, <1>t, MyType, FieldTypes, BlankType DEF TypeOK, Mine
    <2>2. pc' \in [Threads -> Places] /\ head' \in Node
      BY <1>a, <1>t, MyType DEF TypeOK, Places, m
    <2> QED BY <2>1, <2>2, <1>t, <1>a, <1>e DEF TypeOK, HazardTypeOK, Mine
  <1>2. OwnerInv'
    <2>0. \A u \in Threads, b \in Addr : Owns(u, b)' <=> Owns(u, b) \/ (u = t /\ b = e)
      BY <1>h DEF Owns
    <2>1. ASSUME NEW b \in Addr
          PROVE  b \in live' <=> InChain(b)' \/ \E u \in Threads : Owns(u, b)'
      <3>1. b \in live <=> InChain(b) \/ \E u \in Threads : Owns(u, b)
        BY DEF MemInv, OwnerInv
      <3> QED BY <3>1, <2>0, <1>a, <1>e
    <2>2. ASSUME NEW u \in Threads, NEW b \in Addr
          PROVE  /\ Owns(u, b)' => ~InChain(b)' /\ \A w \in Threads \ {u} : ~Owns(w, b)'
                 /\ Fresh(u, b)' => ~On(u, b)'
                 /\ Pending(u, b)' => ~On(u, b)'
                 /\ Pending(u, b)' \/ On(u, b)' => next'[b] # NULL
      <3>1. /\ Owns(u, b) => ~InChain(b) /\ \A w \in Threads \ {u} : ~Owns(w, b)
            /\ Fresh(u, b) => ~On(u, b)
            /\ Pending(u, b) => ~On(u, b)
            /\ Pending(u, b) \/ On(u, b) => next[b] # NULL
        BY DEF MemInv, OwnerInv
      <3>2. CASE b = e
        BY <3>2, <1>a, <1>c, <1>e, <1>g, <1>h, <2>0 DEF Owns
      <3>3. CASE b # e
        BY <3>1, <3>3, <1>a, <1>e, <1>h, <2>0
      <3> QED BY <3>2, <3>3
    <2>3. \A u \in Threads : \A i, j \in 1..Len(retired'[u]) : retired'[u][i] = retired'[u][j] => i = j
      BY <1>a DEF MemInv, OwnerInv
    <2>4. \A b \in Addr \ live' : next'[b] = NULL
      BY <1>a DEF MemInv, OwnerInv
    <2> QED BY <2>1, <2>2, <2>3, <2>4 DEF OwnerInv
  <1>3. ListInv'
    BY <1>a, <1>e DEF ListInv
  <1>4. PhaseInv' /\ ScanInv'
    BY <1>t, <1>a, <1>b DEF MemInv, PhaseInv, ScanInv, Scanning, NoScan
  <1>5. ASSUME NEW u \in Threads PROVE NodeInv(u)' /\ ShieldInv(u)'
    <2>1. CASE u = t
      BY <2>1, <1>b, <1>e, HazardPointerAssumption
      DEF NodeInv, ShieldInv, Shields, Pushing, PushEnd, PopEnd, EmptyEnd
    <2>2. CASE u # t
      <3>0. pc'[u] = pc[u] /\ my'[u] = my[u] /\ pointer'[u] = pointer[u] /\ next' = next
        BY <2>2, <1>a, <1>b
      <3>1. pc[u] = "push_link" =>
              /\ \E i \in 1..(Len(chain') - 1) : Links(u, i)'
              /\ \A w \in Threads \ {u} : pc'[w] = "push_link" => my'[w].end # my[u].end
        <4>1. pc[u] = "push_link" => \A w \in Threads \ {u} : pc[w] = "push_link" => my[w].end # my[u].end
          BY DEF MemInv, NodeInv
        <4> QED BY <4>1, <1>b, <1>e
      <3>2. pc[u] \in PopEnd \cup EmptyEnd /\ InChain(my[u].end)' => head' = my[u].end
        <4>1. pc[u] \in PopEnd \cup EmptyEnd /\ InChain(my[u].end) => my[u].end = e
          BY DEF MemInv, NodeInv, e
        <4> QED BY <4>1, <3>0, <1>e
      <3>3. NodeInv(u)'
        BY <3>0, <3>1, <3>2, NodeStable
      <3>4. \A b \in Addr : Shields(u, b) => b \in live' /\ \A w \in Threads : ~Fresh(w, b)'
        BY <1>a, <1>h, ShieldsLive DEF Node
      <3>5. ShieldInv(u)'
        BY <3>0, <3>4, <1>a, UnreadStable, ShieldStable
      <3> QED BY <3>3, <3>5
    <2> QED BY <2>1, <2>2
  <1> QED BY <1>1, <1>2, <1>3, <1>4, <1>5 DEF MemInv

LEMMA PopRetireMem ==
  ASSUME MemInv, NEW t \in Threads, PopRetire(t)
  PROVE  MemInv'
  <1> DEFINE p == my[t].end
             list == <<p>> \o retired[t]
             n == Len(retired[t])
  <1>0. TypeOK /\ NodeInv(t) /\ phase = "open" /\ pc[t] = "pop_retire"
    BY ChainFacts DEF MemInv, PopRetire, From
  <1>a. /\ pc' = [pc EXCEPT ![t] = "pop_scan"]
        /\ retired' = [retired EXCEPT ![t] = list]
        /\ scan' = [scan EXCEPT ![t] = IF Full(list) THEN ScanFrom(1, list) ELSE NoScan]
        /\ my' = [my EXCEPT ![t] = Blank]
        /\ UNCHANGED <<pointer, live, head, tail, next, buffer, push_idx, pop_idx, finished, older, asked, phase, chain>>
    BY DEF PopRetire, Retire, From, Forget, queueKept, node, history
  <1>b. p \in Addr /\ Pending(t, p) /\ Owns(t, p) /\ retired[t] \in Seq(Addr)
    BY <1>0, MyType DEF NodeInv, Node, Pending, Owns
  <1>c. /\ list \in Seq(Addr) /\ n \in Nat /\ Len(list) = n + 1 /\ list[1] = p
        /\ \A j \in 1..n : list[j + 1] = retired[t][j]
    BY <1>b, PrependPositions
  <1> HIDE DEF list
  <1>d. /\ retired'[t] = list
        /\ \A u \in Threads \ {t} : retired'[u] = retired[u] /\ scan'[u] = scan[u]
    BY <1>a, <1>0 DEF TypeOK, HazardTypeOK
  <1>e. \/ scan'[t] = NoScan
        \/ scan'[t] = [at |-> 1, unread |-> Threads]
    BY <1>a, <1>c, <1>0 DEF TypeOK, HazardTypeOK, ScanFrom
  <1>f. /\ pc'[t] = "pop_scan"
        /\ \A u \in Threads \ {t} : pc'[u] = pc[u] /\ my'[u] = my[u]
    BY <1>a, <1>0 DEF TypeOK
  <1>g. ASSUME NEW a \in Addr
        PROVE  /\ On(t, a)' <=> On(t, a) \/ a = p
               /\ \A u \in Threads \ {t} : On(u, a)' <=> On(u, a)
    <2>1. On(t, a)' => On(t, a) \/ a = p
      <3> SUFFICES ASSUME NEW i \in 1..(n + 1), list[i] = a, a # p
                   PROVE  On(t, a)
        BY <1>c, <1>d DEF On
      <3>1. i # 1 /\ i - 1 \in 1..n /\ (i - 1) + 1 = i
        BY <1>c
      <3> QED BY <3>1, <1>c DEF On
    <2>2. On(t, a) => On(t, a)'
      <3> SUFFICES ASSUME NEW i \in 1..n, retired[t][i] = a
                   PROVE  On(t, a)'
        BY DEF On
      <3>1. i + 1 \in 1..(n + 1) /\ list[i + 1] = a
        BY <1>c
      <3> QED BY <3>1, <1>c, <1>d DEF On
    <2>3. a = p => On(t, a)'
      <3>1. 1 \in 1..(n + 1)
        BY <1>c
      <3> QED BY <3>1, <1>c, <1>d DEF On
    <2>4. \A u \in Threads \ {t} : On(u, a)' <=> On(u, a)
      BY <1>d DEF On
    <2> QED BY <2>1, <2>2, <2>3, <2>4
  <1> HIDE DEF p
  <1>h. \A u \in Threads, b \in Addr : /\ Fresh(u, b)' <=> Fresh(u, b)
                                       /\ Pending(u, b)' <=> Pending(u, b) /\ u # t
                                       /\ Pending(t, b) <=> b = p
    BY <1>0, <1>f DEF Fresh, Pending, p
  <1>i. \A b \in Addr : InChain(b)' <=> InChain(b)
    BY <1>a DEF InChain
  <1>1. TypeOK'
    <2>1. my' \in [Threads -> Mine]
      BY <1>0, <1>a, MyType, FieldTypes, BlankType DEF TypeOK, Mine
    <2>2. retired' \in [Threads -> Seq(Addr)]
      BY <1>a, <1>c, <1>0 DEF TypeOK, HazardTypeOK
    <2>3. scan' \in [Threads -> [at : Nat, unread : SUBSET Threads]]
      BY <1>a, <1>e, <1>0 DEF TypeOK, HazardTypeOK, NoScan
    <2>4. pc' \in [Threads -> Places]
      BY <1>a, <1>0 DEF TypeOK, Places
    <2> QED BY <2>1, <2>2, <2>3, <2>4, <1>a, <1>0 DEF TypeOK, HazardTypeOK, Mine
  <1>2. OwnerInv'
    <2>0. \A u \in Threads, b \in Addr : Owns(u, b)' <=> Owns(u, b)
      BY <1>g, <1>h DEF Owns
    <2>1. ASSUME NEW b \in Addr
          PROVE  b \in live' <=> InChain(b)' \/ \E u \in Threads : Owns(u, b)'
      BY <2>0, <1>a, <1>i DEF MemInv, OwnerInv
    <2>2. ASSUME NEW u \in Threads, NEW b \in Addr
          PROVE  /\ Owns(u, b)' => ~InChain(b)' /\ \A w \in Threads \ {u} : ~Owns(w, b)'
                 /\ Fresh(u, b)' => ~On(u, b)'
                 /\ Pending(u, b)' => ~On(u, b)'
                 /\ Pending(u, b)' \/ On(u, b)' => next'[b] # NULL
      <3>1. /\ Owns(u, b) => ~InChain(b) /\ \A w \in Threads \ {u} : ~Owns(w, b)
            /\ Fresh(u, b) => ~On(u, b)
            /\ Pending(u, b) => ~On(u, b)
            /\ Pending(u, b) \/ On(u, b) => next[b] # NULL
        BY DEF MemInv, OwnerInv
      <3>0. ~Fresh(t, b)
        BY <1>0 DEF Fresh
      <3>2. CASE u = t
        BY <3>0, <3>1, <3>2, <2>0, <1>a, <1>g, <1>h, <1>i
      <3>3. CASE u # t
        BY <3>1, <3>3, <2>0, <1>a, <1>g, <1>h, <1>i
      <3> QED BY <3>2, <3>3
    <2>4. \A i \in 1..n : retired[t][i] # p
      BY <1>b DEF MemInv, OwnerInv, On
    <2>5. ASSUME NEW i \in 1..(n + 1), NEW j \in 1..(n + 1), list[i] = list[j]
          PROVE  i = j
      <3>1. \A k \in 1..(n + 1) : k = 1 \/ (k - 1 \in 1..n /\ list[k] = retired[t][k - 1])
        <4> TAKE k \in 1..(n + 1)
        <4>1. k # 1 => k - 1 \in 1..n /\ (k - 1) + 1 = k
          BY <1>c
        <4> QED BY <4>1, <1>c
      <3>2. CASE i = 1 \/ j = 1
        BY <3>1, <3>2, <2>4, <2>5, <1>c, SMTT(20), ZenonT(40)
      <3>3. CASE i # 1 /\ j # 1
        <4>1. i - 1 = j - 1
          BY <3>1, <3>3, <2>5, SMTT(20), ZenonT(40) DEF MemInv, OwnerInv
        <4> QED BY <4>1
      <3> QED BY <3>2, <3>3
    <2>6. ASSUME NEW u \in Threads, NEW i \in 1..Len(retired'[u]), NEW j \in 1..Len(retired'[u]),
                 retired'[u][i] = retired'[u][j]
          PROVE  i = j
      <3>1. CASE u = t
        BY <3>1, <2>5, <2>6, <1>c, <1>d
      <3>2. CASE u # t
        BY <3>2, <2>6, <1>d DEF MemInv, OwnerInv
      <3> QED BY <3>1, <3>2
    <2>7. \A b \in Addr \ live' : next'[b] = NULL
      BY <1>a DEF MemInv, OwnerInv
    <2> QED BY <2>1, <2>2, <2>6, <2>7 DEF OwnerInv
  <1>3. ListInv'
    <2>1. \A i : \A u \in Threads : Links(u, i) => Links(u, i)'
      BY <1>0, <1>a, <1>f DEF Links
    <2> QED BY <2>1, <1>a DEF MemInv, ListInv
  <1>4. PhaseInv'
    BY <1>0, <1>a DEF MemInv, PhaseInv
  <1>s. ScanInv'
    <2>1. scan'[t].at <= Len(retired'[t])
      BY <1>c, <1>d, <1>e DEF NoScan
    <2>2. \A u \in Threads \ {t} : scan'[u].at <= Len(retired'[u])
      BY <1>d DEF MemInv, ScanInv
    <2>3. \A u \in Threads : pc'[u] # "pop_scan" \/ ~Scanning(u)' => scan'[u] = NoScan
      BY <1>d, <1>e, <1>f DEF MemInv, ScanInv, Scanning
    <2> QED BY <2>1, <2>2, <2>3 DEF ScanInv
  <1>w. \A w \in Threads : pc'[w] = "push_link" => pc[w] = "push_link" /\ my'[w] = my[w]
    BY <1>f
  <1>5. ASSUME NEW u \in Threads PROVE NodeInv(u)' /\ ShieldInv(u)'
    <2>1. CASE u = t
      BY <2>1, <1>f DEF NodeInv, ShieldInv, Shields, Pushing, PushEnd, PopEnd, EmptyEnd
    <2>2. CASE u # t
      <3>0. pc'[u] = pc[u] /\ my'[u] = my[u] /\ pointer'[u] = pointer[u]
        BY <2>2, <1>a, <1>f
      <3>1. NodeInv(u)'
        <4>1. \A a \in Node : InChain(a)' => InChain(a)
          BY <1>a DEF InChain
        <4> QED BY <3>0, <4>1, <1>a, <1>w, NodeStable, LinkStable, HeadStable
      <3>2. \A b \in Addr : Shields(u, b) => b \in live' /\ \A w \in Threads : ~Fresh(w, b)'
        BY <1>a, <1>h, ShieldsLive DEF Node
      <3>4. Scanning(t)' => scan'[t].unread = Threads
        BY <1>e DEF Scanning, NoScan
      <3>5. \A w \in Threads \ {t} : (Scanning(w)' <=> Scanning(w)) /\ Suspect(w)' = Suspect(w)
        BY <1>d DEF Scanning, Suspect
      <3>6. \A b \in Addr, w \in Threads :
              Shields(u, b) /\ Scanning(w)' /\ Suspect(w)' = b => u \in scan'[w].unread
        BY <3>4, <3>5, <1>d DEF MemInv, ShieldInv, Node
      <3>7. ShieldInv(u)'
        BY <3>0, <3>2, <3>6, ShieldStable
      <3> QED BY <3>1, <3>7
    <2> QED BY <2>1, <2>2
  <1> QED BY <1>1, <1>2, <1>3, <1>4, <1>s, <1>5 DEF MemInv

(* Reading a pointer: a thread that shields the suspect has published it,  *)
(* so it is found, or it has not been read.                                *)
LEMMA ScanReadMem ==
  ASSUME MemInv, NEW t \in Threads, pc[t] = "pop_scan", ScanRead(t), Erase,
         UNCHANGED <<pc, my, history>>, queueKept
  PROVE  MemInv'
  <1>0. TypeOK
    BY DEF MemInv
  <1>a. /\ Scanning(t) /\ UNCHANGED <<pointer, retired, live>>
        /\ UNCHANGED <<head, tail, next, buffer, push_idx, pop_idx, finished, older, asked, phase, chain, pc, my>>
    BY <1>0, ErasedNothing DEF ScanRead, queueKept, node, history
  <1>b. PICK j \in scan[t].unread :
          scan' = [scan EXCEPT ![t] =
            IF pointer[j] = Suspect(t) THEN ScanFrom(scan[t].at + 1, retired[t])
                                       ELSE [at |-> scan[t].at, unread |-> scan[t].unread \ {j}]]
    BY DEF ScanRead, Reserves
  <1>c. /\ scan[t] \in [at : Nat, unread : SUBSET Threads]
        /\ Len(retired[t]) \in Nat /\ scan[t].at <= Len(retired[t])
    BY LenProperties DEF MemInv, TypeOK, HazardTypeOK, ScanInv
  <1>d. \A u \in Threads \ {t} : scan'[u] = scan[u]
    BY <1>b, <1>0 DEF TypeOK, HazardTypeOK
  <1>e. \/ scan'[t] = NoScan
        \/ scan'[t] = [at |-> scan[t].at + 1, unread |-> Threads] /\ scan[t].at + 1 <= Len(retired[t])
        \/ /\ scan'[t] = [at |-> scan[t].at, unread |-> scan[t].unread \ {j}]
           /\ pointer[j] # Suspect(t)
    BY <1>b, <1>c, <1>0 DEF TypeOK, HazardTypeOK, ScanFrom
  <1>1. TypeOK'
    <2>1. scan'[t] \in [at : Nat, unread : SUBSET Threads]
      BY <1>c, <1>e DEF NoScan
    <2>2. scan' \in [Threads -> [at : Nat, unread : SUBSET Threads]]
      BY <2>1, <1>b, <1>0 DEF TypeOK, HazardTypeOK
    <2> QED BY <2>2, <1>a, <1>0 DEF TypeOK, HazardTypeOK
  <1>2. OwnerInv' /\ ListInv' /\ PhaseInv'
    <2>1. \A u \in Threads, b \in Addr : /\ Fresh(u, b)' <=> Fresh(u, b)
                                         /\ Pending(u, b)' <=> Pending(u, b)
                                         /\ On(u, b)' <=> On(u, b)
                                         /\ InChain(b)' <=> InChain(b)
      BY <1>a DEF Fresh, Pending, On, InChain
    <2>2. \A u \in Threads, b \in Addr : Owns(u, b)' <=> Owns(u, b)
      BY <2>1 DEF Owns
    <2>3. OwnerInv'
      BY <2>1, <2>2, <1>a DEF MemInv, OwnerInv
    <2>4. ListInv' /\ PhaseInv'
      BY <1>a DEF MemInv, ListInv, PhaseInv, Links
    <2> QED BY <2>3, <2>4
  <1>3. ScanInv'
    <2>1. scan'[t].at <= Len(retired[t])
      BY <1>c, <1>e DEF NoScan
    <2>2. ~Scanning(t)' => scan'[t] = NoScan
      BY <1>a, <1>c, <1>e DEF Scanning
    <2> QED BY <2>1, <2>2, <1>a, <1>d DEF MemInv, ScanInv, Scanning
  <1>w. \A w \in Threads : pc'[w] = "push_link" => pc[w] = "push_link" /\ my'[w] = my[w]
    BY <1>a
  <1>4. ASSUME NEW r \in Threads PROVE NodeInv(r)' /\ ShieldInv(r)'
    <2>0. pc'[r] = pc[r] /\ my'[r] = my[r] /\ pointer'[r] = pointer[r]
      BY <1>a
    <2>1. NodeInv(r)'
      <3>1. \A a \in Node : InChain(a)' => InChain(a)
        BY <1>a DEF InChain
      <3> QED BY <2>0, <3>1, <1>a, <1>w, NodeStable, LinkStable, HeadStable
    <2>2. \A a \in Addr : Shields(r, a) => a \in live' /\ \A u \in Threads : ~Fresh(u, a)'
      BY <1>a, ShieldsLive DEF Node, Fresh
    <2>3. ASSUME NEW a \in Addr, NEW u \in Threads, Shields(r, a), Scanning(u)', Suspect(u)' = a
          PROVE  r \in scan'[u].unread
      <3>0. ShieldInv(r) /\ a \in Node
        BY DEF MemInv, Node
      <3>1. CASE u # t
        BY <3>0, <3>1, <2>3, <1>a, <1>d DEF ShieldInv, Scanning, Suspect
      <3>2. CASE u = t /\ scan'[t] = [at |-> scan[t].at + 1, unread |-> Threads]
        BY <3>2
      <3>3. CASE u = t /\ scan'[t] = NoScan
        BY <3>3, <2>3 DEF Scanning, NoScan
      <3>4. CASE u = t /\ scan'[t] = [at |-> scan[t].at, unread |-> scan[t].unread \ {j}]
                 /\ pointer[j] # Suspect(t)
        <4>1. scan'[t].at = scan[t].at /\ scan'[t].unread = scan[t].unread \ {j}
          BY <3>4, <1>c
        <4>2. Suspect(t) = a
          BY <2>3, <3>4, <4>1, <1>a DEF Suspect
        <4>3. r \in scan[t].unread /\ pointer[r] = a
          BY <3>0, <2>3, <4>2, <1>a DEF ShieldInv
        <4> QED BY <3>4, <4>1, <4>2, <4>3
      <3> QED BY <3>1, <3>2, <3>3, <3>4, <1>e
    <2>4. ShieldInv(r)'
      BY <2>0, <2>2, <2>3, ShieldStable
    <2> QED BY <2>1, <2>4
  <1> QED BY <1>1, <1>2, <1>3, <1>4 DEF MemInv

(* Freeing: all pointers were read and none is the suspect, so nobody who   *)
(* shields it is left; and nobody holds it unprotected.                     *)
LEMMA ScanFreeMem ==
  ASSUME MemInv, NEW t \in Threads, pc[t] = "pop_scan", ScanFree(t), Erase,
         UNCHANGED <<pc, my, history>>, queueKept
  PROVE  MemInv'
  <1> DEFINE k == scan[t].at
             n == Len(retired[t])
             s == Suspect(t)
             list == Without(retired[t], k)
  <1>0. TypeOK
    BY DEF MemInv
  <1>a. /\ Scanning(t) /\ scan[t].unread = {} /\ pointer' = pointer
        /\ retired' = [retired EXCEPT ![t] = list]
        /\ scan' = [scan EXCEPT ![t] = ScanFrom(k, list)]
        /\ live' = live \ {s}
        /\ UNCHANGED <<head, tail, phase, chain, pc, my, finished, older, asked>> /\ Erase
    BY DEF ScanFree, queueKept, history
  <1>b. k \in 1..n /\ s \in Addr /\ On(t, s) /\ s = retired[t][k] /\ retired[t] \in Seq(Addr)
    BY <1>a, <1>0, SuspectIsRetired DEF Suspect, TypeOK, HazardTypeOK
  <1>c. /\ n \in Nat /\ list \in Seq(Addr) /\ Len(list) = n - 1 /\ Len(list) \in Nat
        /\ \A j \in 1..(k - 1) : list[j] = retired[t][j]
        /\ \A j \in k..(n - 1) : list[j] = retired[t][j + 1]
    BY <1>b, WithoutPositions, LenProperties
  <1> HIDE DEF list, s
  <1>d. /\ retired'[t] = list
        /\ \A u \in Threads \ {t} : retired'[u] = retired[u] /\ scan'[u] = scan[u]
        /\ scan'[t] = ScanFrom(k, list)
    BY <1>a, <1>0 DEF TypeOK, HazardTypeOK
  <1>e. \/ scan'[t] = NoScan
        \/ scan'[t] = [at |-> k, unread |-> Threads] /\ k <= Len(list)
    BY <1>d DEF ScanFrom
  <1>j. \A i, j \in 1..n : retired[t][i] = retired[t][j] => i = j
    BY DEF MemInv, OwnerInv
  <1>f. \A j \in 1..(n - 1) :
          \E m \in 1..n : m # k /\ list[j] = retired[t][m] /\ m = IF j < k THEN j ELSE j + 1
    <2> TAKE j \in 1..(n - 1)
    <2>1. CASE j < k
      <3>1. j \in 1..(k - 1) /\ j \in 1..n /\ j # k
        BY <2>1, <1>b, <1>c
      <3> QED BY <2>1, <3>1, <1>c
    <2>2. CASE ~(j < k)
      <3>1. j \in k..(n - 1) /\ j + 1 \in 1..n /\ j + 1 # k
        BY <2>2, <1>b, <1>c
      <3> QED BY <2>2, <3>1, <1>c
    <2> QED BY <2>1, <2>2
  <1>g. \A m \in 1..n : m # k => \E j \in 1..(n - 1) : list[j] = retired[t][m]
    <2> TAKE m \in 1..n
    <2>1. CASE m < k
      <3>1. m \in 1..(k - 1) /\ m \in 1..(n - 1)
        BY <2>1, <1>b, <1>c
      <3> QED BY <3>1, <1>c
    <2>2. CASE m > k
      <3>1. m - 1 \in k..(n - 1) /\ m - 1 \in 1..(n - 1) /\ (m - 1) + 1 = m
        BY <2>2, <1>b, <1>c
      <3> QED BY <3>1, <1>c
    <2> QED BY <2>1, <2>2, <1>b
  <1>h. \A a \in Addr : On(t, a)' <=> On(t, a) /\ a # s
    <2> TAKE a \in Addr
    <2>1. On(t, a)' => On(t, a) /\ a # s
      <3> SUFFICES ASSUME NEW j \in 1..(n - 1), list[j] = a
                   PROVE  On(t, a) /\ a # s
        BY <1>c, <1>d DEF On
      <3>1. PICK m \in 1..n : m # k /\ a = retired[t][m]
        BY <1>f
      <3>2. a # s
        BY <3>1, <1>b, <1>j
      <3> QED BY <3>1, <3>2 DEF On
    <2>2. On(t, a) /\ a # s => On(t, a)'
      <3> SUFFICES ASSUME NEW m \in 1..n, retired[t][m] = a, a # s
                   PROVE  On(t, a)'
        BY DEF On
      <3>1. m # k
        BY <1>b
      <3>2. PICK j \in 1..(n - 1) : list[j] = a
        BY <3>1, <1>g
      <3> QED BY <3>2, <1>c, <1>d DEF On
    <2> QED BY <2>1, <2>2
  <1>i. \A u \in Threads \ {t}, a \in Addr : (On(u, a)' <=> On(u, a)) /\ (On(u, a) => a # s)
    BY <1>b, <1>d DEF On, MemInv, OwnerInv, Owns
  <1>k. \A u \in Threads, a \in Addr : (Fresh(u, a)' <=> Fresh(u, a)) /\ (Pending(u, a)' <=> Pending(u, a))
    BY <1>a DEF Fresh, Pending
  <1>l. \A a \in Addr : InChain(a)' <=> InChain(a)
    BY <1>a DEF InChain
  <1>x. next'[s] = NULL /\ \A a \in Addr : a # s => next'[a] = next[a]
    <2>1. s \in live
      BY <1>b DEF MemInv, OwnerInv, Owns
    <2> QED BY <2>1, <1>0, <1>a, <1>b, Erased
  <1>o. ~InChain(s) /\ \A u \in Threads, a \in Addr : Fresh(u, a) => a # s
    BY <1>b DEF MemInv, OwnerInv, Owns
  <1>w. \A w \in Threads : pc'[w] = "push_link" => pc[w] = "push_link" /\ my'[w] = my[w]
    BY <1>a
  <1>1. TypeOK'
    <2>1. scan'[t] \in [at : Nat, unread : SUBSET Threads]
      BY <1>b, <1>c, <1>e DEF NoScan
    <2>2. /\ scan' \in [Threads -> [at : Nat, unread : SUBSET Threads]]
          /\ retired' \in [Threads -> Seq(Addr)]
      BY <2>1, <1>a, <1>c, <1>d, <1>0 DEF TypeOK, HazardTypeOK
    <2>3. /\ next' \in [Addr -> Node] /\ buffer' \in [Addr -> [Slots -> Cells]]
          /\ push_idx' \in [Addr -> Nat] /\ pop_idx' \in [Addr -> Nat]
      BY <1>a, <1>0, Erased
    <2> QED BY <2>2, <2>3, <1>a, <1>0, SMTT(20), ZenonT(40) DEF TypeOK, HazardTypeOK, Node, Cells
  <1>2. OwnerInv'
    <2>s. /\ Owns(t, s) /\ ~InChain(s) /\ ~Fresh(t, s) /\ ~Pending(t, s)
          /\ \A u \in Threads \ {t} : ~Owns(u, s)
      BY <1>b DEF MemInv, OwnerInv, Owns
    <2>0. \A u \in Threads, a \in Addr : Owns(u, a)' <=> Owns(u, a) /\ a # s
      BY <1>h, <1>i, <1>k, <2>s DEF Owns
    <2>1. ASSUME NEW a \in Addr
          PROVE  a \in live' <=> InChain(a)' \/ \E u \in Threads : Owns(u, a)'
      <3>1. a \in live <=> InChain(a) \/ \E u \in Threads : Owns(u, a)
        BY DEF MemInv, OwnerInv
      <3> QED BY <3>1, <2>0, <2>s, <1>a, <1>l
    <2>2. ASSUME NEW u \in Threads, NEW a \in Addr
          PROVE  /\ Owns(u, a)' => ~InChain(a)' /\ \A w \in Threads \ {u} : ~Owns(w, a)'
                 /\ Fresh(u, a)' => ~On(u, a)'
                 /\ Pending(u, a)' => ~On(u, a)'
                 /\ Pending(u, a)' \/ On(u, a)' => next'[a] # NULL
      <3>1. /\ Owns(u, a) => ~InChain(a) /\ \A w \in Threads \ {u} : ~Owns(w, a)
            /\ Fresh(u, a) => ~On(u, a)
            /\ Pending(u, a) => ~On(u, a)
            /\ Pending(u, a) \/ On(u, a) => next[a] # NULL
        BY DEF MemInv, OwnerInv
      <3>2. On(u, a)' => On(u, a)
        BY <1>h, <1>i
      <3>3. On(u, a)' => a # s
        BY <1>h, <1>i
      <3>4. Pending(u, a)' => a # s
        BY <2>s, <1>k DEF Owns
      <3> QED BY <3>1, <3>2, <3>3, <3>4, <2>0, <1>a, <1>k, <1>l, <1>x
    <2>4. ASSUME NEW i \in 1..(n - 1), NEW j \in 1..(n - 1), list[i] = list[j]
          PROVE  i = j
      <3>1. PICK l \in 1..n : list[i] = retired[t][l] /\ l = IF i < k THEN i ELSE i + 1
        BY <1>f
      <3>2. PICK m \in 1..n : list[j] = retired[t][m] /\ m = IF j < k THEN j ELSE j + 1
        BY <1>f
      <3>3. l = m
        BY <3>1, <3>2, <2>4, <1>j
      <3>4. k \in Nat /\ i \in Nat /\ j \in Nat
        BY <1>b, <1>c
      <3> HIDE DEF k
      <3> QED BY <3>1, <3>2, <3>3, <3>4
    <2>5. ASSUME NEW u \in Threads, NEW i \in 1..Len(retired'[u]), NEW j \in 1..Len(retired'[u]),
                 retired'[u][i] = retired'[u][j]
          PROVE  i = j
      <3>1. CASE u = t
        BY <3>1, <2>4, <2>5, <1>c, <1>d
      <3>2. CASE u # t
        BY <3>2, <2>5, <1>d DEF MemInv, OwnerInv
      <3> QED BY <3>1, <3>2
    <2>6. \A a \in Addr \ live' : next'[a] = NULL
      BY <1>a, <1>x DEF MemInv, OwnerInv
    <2> QED BY <2>1, <2>2, <2>5, <2>6 DEF OwnerInv
  <1>3. ListInv'
    <2>1. \A i \in 1..Len(chain) : next'[chain[i]] = next[chain[i]]
      BY <1>o, <1>x, ChainFacts DEF InChain
    <2> QED BY <2>1, <1>a DEF MemInv, ListInv, Links
  <1>p. PhaseInv'
    BY <1>a DEF MemInv, PhaseInv
  <1>4. ScanInv'
    <2>1. scan'[t].at <= Len(retired'[t])
      BY <1>c, <1>d, <1>e DEF NoScan
    <2>2. \A u \in Threads \ {t} : scan'[u].at <= Len(retired'[u])
      BY <1>d DEF MemInv, ScanInv
    <2>3. ~Scanning(t)' => scan'[t] = NoScan
      BY <1>b, <1>e DEF Scanning
    <2> QED BY <2>1, <2>2, <2>3, <1>a, <1>d DEF MemInv, ScanInv, Scanning
  <1>m. \A r \in Threads, a \in Addr : Shields(r, a) => a # s
    BY <1>a DEF MemInv, ShieldInv, Node, s
  <1>5. ASSUME NEW r \in Threads PROVE NodeInv(r)' /\ ShieldInv(r)'
    <2>0. pc'[r] = pc[r] /\ my'[r] = my[r] /\ pointer'[r] = pointer[r]
      BY <1>a
    <2>1. \A a \in Addr : Fresh(r, a) \/ Shields(r, a) => next'[a] = next[a]
      BY <1>m, <1>o, <1>x
    <2>2. NodeInv(r)'
      <3>1. \A a \in Node : InChain(a)' => InChain(a)
        BY <1>a DEF InChain
      <3> QED BY <2>0, <2>1, <3>1, <1>a, <1>w, NodeStable, LinkStable, HeadStable
    <2>3. \A a \in Addr : Shields(r, a) => a \in live' /\ \A u \in Threads : ~Fresh(u, a)'
      BY <1>a, <1>k, <1>m, ShieldsLive DEF Node
    <2>4. ASSUME NEW a \in Addr, NEW u \in Threads, Shields(r, a), Scanning(u)', Suspect(u)' = a
          PROVE  r \in scan'[u].unread
      <3>1. CASE u = t
        BY <3>1, <2>4, <1>e DEF Scanning, NoScan
      <3>2. CASE u # t
        BY <3>2, <2>4, <1>d DEF MemInv, ShieldInv, Scanning, Suspect, Node
      <3> QED BY <3>1, <3>2
    <2>5. ShieldInv(r)'
      BY <2>0, <2>3, <2>4, ShieldStable
    <2> QED BY <2>2, <2>5
  <1> QED BY <1>1, <1>2, <1>3, <1>p, <1>4, <1>5 DEF MemInv

(* delete and new, when nobody is inside. *)
(* delete and new, when nobody is inside. *)
LEMMA DeleteStartMem ==
  ASSUME MemInv, DeleteStart
  PROVE  MemInv'
  <1>a. /\ \A t \in Threads : pc[t] = "idle" /\ pc'[t] = "idle"
        /\ phase' = "deleting" /\ finished' = {} /\ older' = [v \in Values |-> {}]
        /\ UNCHANGED <<pointer, retired, scan, live, head, tail, next, buffer, push_idx, pop_idx, pc, my,
                       chain, asked>>
    BY DEF DeleteStart, hazardKept, hazardVars, node
  <1>1. TypeOK'
    BY <1>a DEF MemInv, TypeOK, HazardTypeOK
  <1>2. OwnerInv'
    <2>1. \A u \in Threads, b \in Addr : /\ Fresh(u, b)' <=> Fresh(u, b)
                                         /\ Pending(u, b)' <=> Pending(u, b)
                                         /\ On(u, b)' <=> On(u, b)
      BY <1>a DEF Fresh, Pending, On
    <2>2. \A b \in Addr : InChain(b)' <=> InChain(b)
      BY <1>a DEF InChain
    <2>3. \A u \in Threads, b \in Addr : Owns(u, b)' <=> Owns(u, b)
      BY <2>1 DEF Owns
    <2> QED BY <2>1, <2>2, <2>3, <1>a DEF MemInv, OwnerInv
  <1>3. ListInv' /\ PhaseInv'
    BY <1>a DEF MemInv, ListInv, PhaseInv, Links
  <1>4. ScanInv'
    BY <1>a DEF MemInv, ScanInv, Scanning, NoScan
  <1>5. \A t \in Threads : NodeInv(t)' /\ ShieldInv(t)'
    BY <1>a, IdleThread
  <1> QED BY <1>1, <1>2, <1>3, <1>4, <1>5 DEF MemInv

LEMMA DeleteNodeMem ==
  ASSUME MemInv, DeleteNode
  PROVE  MemInv'
  <1>a. /\ phase = "deleting" /\ head # NULL
        /\ head' = next[head] /\ live' = live \ {head} /\ chain' = Tail(chain) /\ Erase
        /\ UNCHANGED <<pointer, retired, scan, tail, pc, my, phase, finished, older, asked>>
    BY DEF DeleteNode, history
  <1>0. TypeOK /\ \A t \in Threads : pc[t] = "idle" /\ pc'[t] = "idle"
    BY <1>a DEF MemInv, PhaseInv
  <1>b. chain # <<>> /\ head = chain[1] /\ head \in Addr /\ head \in live
    BY <1>0, <1>a, ChainFacts DEF TypeOK, Node, MemInv, ListInv
  <1>c. next'[head] = NULL /\ \A b \in Addr : b # head => next'[b] = next[b]
    BY <1>0, <1>a, <1>b, Erased
  <1>d. \A i \in 1..Len(chain) : i # 1 => next'[chain[i]] = next[chain[i]]
    <2>1. \A i \in 1..Len(chain) : i # 1 => chain[i] # chain[1]
      <3>1. \A i \in 1..Len(chain) : 1 \in 1..Len(chain)
        BY ChainFacts
      <3> QED BY <3>1 DEF MemInv, ListInv
    <2> QED BY <2>1, <1>b, <1>c, ChainFacts
  <1>e. /\ InChain(head) /\ chain' \in Seq(Addr)
        /\ \A b : InChain(b)' <=> InChain(b) /\ b # head
        /\ next[head] = IF chain' = <<>> THEN NULL ELSE chain'[1]
        /\ \A i, j \in 1..Len(chain') : chain'[i] = chain'[j] => i = j
        /\ \A i \in 1..Len(chain') :
              \/ next'[chain'[i]] = IF i = Len(chain') THEN NULL ELSE chain'[i + 1]
              \/ next'[chain'[i]] = NULL /\ \E t \in Threads : Links(t, i)'
    BY <1>0, <1>a, <1>b, <1>d, WithoutHead
  <1>k. \A u \in Threads : ~Owns(u, head)
    BY <1>b, <1>e, InChainIsShared DEF Node
  <1>1. TypeOK'
    <2>1. head' \in Node
      BY <1>a, <1>b, <1>0 DEF TypeOK
    <2>2. /\ next' \in [Addr -> Node] /\ buffer' \in [Addr -> [Slots -> Cells]]
          /\ push_idx' \in [Addr -> Nat] /\ pop_idx' \in [Addr -> Nat]
      BY <1>a, <1>0, Erased
    <2> QED BY <2>1, <2>2, <1>0, <1>a, <1>e DEF TypeOK, HazardTypeOK, Cells
  <1>2. OwnerInv'
    <2>1. \A u \in Threads, b \in Addr : /\ Fresh(u, b)' <=> Fresh(u, b)
                                         /\ Pending(u, b)' <=> Pending(u, b)
                                         /\ On(u, b)' <=> On(u, b)
      BY <1>a DEF Fresh, Pending, On
    <2>2. \A u \in Threads, b \in Addr : Owns(u, b)' <=> Owns(u, b)
      BY <2>1 DEF Owns
    <2>3. ASSUME NEW b \in Addr
          PROVE  b \in live' <=> InChain(b)' \/ \E u \in Threads : Owns(u, b)'
      <3>1. b \in live <=> InChain(b) \/ \E u \in Threads : Owns(u, b)
        BY DEF MemInv, OwnerInv
      <3> QED BY <3>1, <2>2, <1>a, <1>e, <1>k
    <2>4. ASSUME NEW u \in Threads, NEW b \in Addr
          PROVE  /\ Owns(u, b)' => ~InChain(b)' /\ \A w \in Threads \ {u} : ~Owns(w, b)'
                 /\ Fresh(u, b)' => ~On(u, b)'
                 /\ Pending(u, b)' => ~On(u, b)'
                 /\ Pending(u, b)' \/ On(u, b)' => next'[b] # NULL
      <3>1. Owns(u, b) => b # head
        BY <1>k
      <3> QED BY <3>1, <2>1, <2>2, <1>a, <1>c, <1>e DEF MemInv, OwnerInv, Owns
    <2>5. \A u \in Threads : \A i, j \in 1..Len(retired'[u]) : retired'[u][i] = retired'[u][j] => i = j
      BY <1>a DEF MemInv, OwnerInv
    <2>6. \A b \in Addr \ live' : next'[b] = NULL
      BY <1>a, <1>c DEF MemInv, OwnerInv
    <2> QED BY <2>3, <2>4, <2>5, <2>6 DEF OwnerInv
  <1>3. ListInv'
    BY <1>a, <1>e DEF ListInv
  <1>4. PhaseInv'
    BY <1>0, <1>a DEF PhaseInv
  <1>5. ScanInv'
    BY <1>a DEF MemInv, ScanInv, Scanning, NoScan
  <1>6. \A t \in Threads : NodeInv(t)' /\ ShieldInv(t)'
    BY <1>0, IdleThread
  <1> QED BY <1>1, <1>2, <1>3, <1>4, <1>5, <1>6 DEF MemInv

(* What is left when the list is empty is on the retired lists. *)
LEMMA DeleteFinishMem ==
  ASSUME MemInv, DeleteFinish
  PROVE  MemInv' /\ live' = {}
  <1>a. /\ phase = "deleting" /\ head = NULL /\ phase' = "deleted"
        /\ live' = live \ UNION {RetiredBy(t) : t \in Threads}
        /\ retired' = [t \in Threads |-> <<>>] /\ Erase
        /\ UNCHANGED <<pointer, scan, head, tail, pc, my, chain, finished, older, asked>>
    BY DEF DeleteFinish, Finalize, history
  <1>0. TypeOK /\ \A t \in Threads : pc[t] = "idle" /\ pc'[t] = "idle"
    BY <1>a DEF MemInv, PhaseInv
  <1>b. chain = <<>>
    <2>1. chain # <<>> => head = chain[1] /\ 1 \in 1..Len(chain)
      BY ChainFacts DEF MemInv, ListInv
    <2>2. chain # <<>> => head \in Addr
      BY <2>1, ChainFacts
    <2> QED BY <2>2, <1>a
  <1>c. \A a \in Addr : ~InChain(a) /\ \A t \in Threads : ~Fresh(t, a) /\ ~Pending(t, a)
    BY <1>0, <1>b DEF InChain, Fresh, Pending
  <1>d. live' = {}
    <2> SUFFICES ASSUME NEW a \in live PROVE a \in UNION {RetiredBy(t) : t \in Threads}
      BY <1>a
    <2>1. a \in Addr
      BY <1>0 DEF TypeOK, HazardTypeOK
    <2>2. PICK t \in Threads : On(t, a)
      BY <2>1, <1>c DEF MemInv, OwnerInv, Owns
    <2>3. a \in RetiredBy(t)
      BY <2>2, <1>0, MyType DEF On, RetiredBy
    <2> QED BY <2>3
  <1>e. \A a \in Addr, t \in Threads : ~InChain(a)' /\ ~Fresh(t, a)' /\ ~Pending(t, a)' /\ ~On(t, a)'
    BY <1>0, <1>a, <1>b DEF InChain, Fresh, Pending, On
  <1>f. \A a \in Addr : next'[a] = NULL
    <2> TAKE a \in Addr
    <2>1. CASE a \in live
      BY <2>1, <1>0, <1>a, <1>d, Erased
    <2>2. CASE a \notin live
      BY <2>2, <1>0, <1>a, <1>d, Erased DEF MemInv, OwnerInv
    <2> QED BY <2>1, <2>2
  <1>1. TypeOK'
    <2>1. /\ next' \in [Addr -> Node] /\ buffer' \in [Addr -> [Slots -> Cells]]
          /\ push_idx' \in [Addr -> Nat] /\ pop_idx' \in [Addr -> Nat]
      BY <1>a, <1>0, Erased
    <2> QED BY <2>1, <1>a, <1>d, <1>0 DEF TypeOK, HazardTypeOK, Cells
  <1>2. OwnerInv'
    BY <1>a, <1>c, <1>d, <1>e, <1>f, <1>b DEF OwnerInv, Owns, InChain
  <1>3. ListInv' /\ PhaseInv'
    BY <1>0, <1>a, <1>b, <1>d DEF MemInv, ListInv, PhaseInv
  <1>4. ScanInv'
    <2>1. \A t \in Threads : scan[t] = NoScan
      BY <1>0 DEF MemInv, ScanInv
    <2>2. NoScan.at <= Len(<<>>)
      BY DEF NoScan
    <2> QED BY <2>1, <2>2, <1>a DEF ScanInv
  <1>5. \A t \in Threads : NodeInv(t)' /\ ShieldInv(t)'
    BY <1>0, IdleThread
  <1> QED BY <1>1, <1>2, <1>3, <1>4, <1>5, <1>d DEF MemInv

LEMMA NewMem ==
  ASSUME MemInv, New
  PROVE  MemInv'
  <1>0. /\ TypeOK /\ phase = "deleted" /\ phase' = "open" /\ live = {}
        /\ \A t \in Threads : pc[t] = "idle" /\ pc'[t] = "idle"
        /\ UNCHANGED <<pointer, retired, scan, pc, my, next, buffer, push_idx, pop_idx, finished, older, asked>>
    BY DEF MemInv, PhaseInv, New, node, history
  <1>1. PICK a \in Addr : head' = a /\ tail' = a /\ live' = {a} /\ chain' = <<a>>
    BY <1>0 DEF New
  <1>n. \A b \in Addr : next'[b] = NULL
    BY <1>0 DEF MemInv, OwnerInv
  <1>a. \A t \in Threads, b \in Addr : ~On(t, b)
    BY <1>0 DEF MemInv, OwnerInv, Owns
  <1>b. \A t \in Threads, b \in Addr : ~Fresh(t, b)' /\ ~Pending(t, b)' /\ ~On(t, b)'
    BY <1>0, <1>a DEF Fresh, Pending, On
  <1>c. \A b : InChain(b)' <=> b = a
    BY <1>1 DEF InChain
  <1>2. TypeOK'
    BY <1>0, <1>1 DEF TypeOK, HazardTypeOK, Node
  <1>3. OwnerInv'
    <2>1. \A t \in Threads, b \in Addr : ~Owns(t, b)'
      BY <1>b DEF Owns
    <2>2. \A t \in Threads : \A i, j \in 1..Len(retired'[t]) : retired'[t][i] = retired'[t][j] => i = j
      BY <1>0 DEF MemInv, OwnerInv
    <2> QED BY <2>1, <2>2, <1>b, <1>c, <1>n, <1>1 DEF OwnerInv
  <1>4. ListInv' /\ PhaseInv'
    BY <1>0, <1>1, <1>n DEF ListInv, PhaseInv
  <1>5. ScanInv'
    BY <1>0 DEF MemInv, ScanInv, Scanning, NoScan
  <1>6. \A t \in Threads : NodeInv(t)' /\ ShieldInv(t)'
    BY <1>0, IdleThread
  <1> QED BY <1>2, <1>3, <1>4, <1>5, <1>6 DEF MemInv

LEMMA StutterMem == MemInv /\ UNCHANGED vars => MemInv'
  <1> SUFFICES ASSUME MemInv, UNCHANGED vars PROVE MemInv'
    OBVIOUS
  <1> USE DEF vars, hazardVars, node, history
  <1>1. TypeOK'
    BY DEF MemInv, TypeOK, HazardTypeOK
  <1>2. OwnerInv'
    <2>1. \A u \in Threads, b \in Addr : /\ Fresh(u, b)' <=> Fresh(u, b)
                                         /\ Pending(u, b)' <=> Pending(u, b)
                                         /\ On(u, b)' <=> On(u, b)
      BY DEF Fresh, Pending, On
    <2>2. \A b \in Addr : InChain(b)' <=> InChain(b)
      BY DEF InChain
    <2>3. \A u \in Threads, b \in Addr : Owns(u, b)' <=> Owns(u, b)
      BY <2>1 DEF Owns
    <2> QED BY <2>1, <2>2, <2>3 DEF MemInv, OwnerInv
  <1>3. ListInv' /\ PhaseInv'
    BY DEF MemInv, ListInv, PhaseInv, Links
  <1>4. ScanInv'
    BY DEF MemInv, ScanInv, Scanning, NoScan
  <1>5. ASSUME NEW t \in Threads PROVE NodeInv(t)' /\ ShieldInv(t)'
    <2>1. NodeInv(t) /\ ShieldInv(t)
      BY DEF MemInv
    <2> QED BY <2>1 DEF NodeInv, ShieldInv, InChain, Links, Shields, Fresh, Scanning, Suspect
  <1> QED BY <1>1, <1>2, <1>3, <1>4, <1>5 DEF MemInv

LEMMA StepMem ==
  ASSUME MemInv, SlotInv, NEW t \in Threads, Invoke(t) \/ Step(t) \/ PushNoMemory(t)
  PROVE  MemInv'
  <1>1. CASE Invoke(t) \/ PushNoMemory(t)
    BY <1>1, CallPopMem, CallIsEmptyMem, CallPushMem, PushNoMemoryMem DEF Invoke
  <1>2. CASE PushProtect(t) \/ PopProtect(t) \/ IsEmptyProtect(t)
    BY <1>2, PushLoadMem, PushPublishMem, PushValidateMem, PopLoadMem, PopPublishMem, PopValidateMem,
       IsEmptyLoadMem, IsEmptyPublishMem, IsEmptyValidateMem
    DEF PushProtect, PopProtect, IsEmptyProtect
  <1>3. CASE PushSwing(t) \/ PopSwing(t)
    BY <1>3, PushSwingMem, PushSwingFailsMem, PopSwingMem, PopSwingFailsMem
  <1>4. CASE PopScan(t)
    BY <1>4, ScanReadMem, ScanFreeMem DEF PopScan
  <1>5. CASE PushClaim(t) \/ PushStore(t) \/ PushNew(t) \/ PushLink(t) \/ PushDrop(t)
    BY <1>5, PushClaimMem, PushStoreMem, PushNewMem, PushLinkMem, PushDropMem
  <1>6. CASE PopClaim(t) \/ PopTake(t) \/ PopNext(t) \/ PopRetire(t) \/ PopScanDone(t) \/ PopClear(t)
    BY <1>6, PopClaimMem, PopTakeMem, PopNextMem, PopRetireMem, PopScanDoneMem, PopClearMem
  <1>7. CASE IsEmptyPushIdx(t) \/ IsEmptyPopIdx(t) \/ IsEmptyNext(t) \/ Return(t)
    BY <1>7, IsEmptyPushIdxMem, IsEmptyPopIdxMem, IsEmptyNextMem, PushReturnMem, PopReturnMem,
       IsEmptyReturnMem DEF Return
  <1> QED BY <1>1, <1>2, <1>3, <1>4, <1>5, <1>6, <1>7 DEF Step

LEMMA NextMem == MemInv /\ SlotInv /\ [Next]_vars => MemInv'
  <1> SUFFICES ASSUME MemInv, SlotInv, [Next]_vars PROVE MemInv'
    OBVIOUS
  <1> QED BY StepMem, DeleteStartMem, DeleteNodeMem, DeleteFinishMem, NewMem, StutterMem DEF Next

-----------------------------------------------------------------------------
(* The slots.  Most steps leave the slots, the nodes and the indices of the *)
(* pops alone.                                                             *)

Others(t) == \A u \in Threads \ {t} : pc'[u] = pc[u] /\ my'[u] = my[u] /\ retired'[u] = retired[u]

Calm(t) ==
  /\ Others(t)
  /\ UNCHANGED <<buffer, pop_idx, live, phase>>
  /\ \A a \in Addr : push_idx'[a] >= push_idx[a]
  /\ pc[t] # "pop_take" /\ pc'[t] # "pop_take"

LEMMA SlotTypes ==
  /\ 0 \in Slots
  /\ \A i : i \in Slots <=> i \in Nat /\ i < BUFFER_SIZE
  BY DEF Slots

(* What another thread knows of its slots is not disturbed. *)
LEMMA UseStable ==
  ASSUME TypeOK, TypeOK', NEW u \in Threads, UseInv(u), pc[u] \in PushEnd \cup PopEnd => my[u].end \in Addr,
         pc'[u] = pc[u], my'[u] = my[u], \A b \in Addr : On(u, b)' => On(u, b),
         pc[u] \in PushEnd => push_idx'[my[u].end] >= push_idx[my[u].end],
         \A b \in Addr : Pending(u, b) \/ On(u, b) \/ (pc[u] \in PopEnd /\ my[u].end = b)
                           => pop_idx'[b] >= pop_idx[b],
         pc[u] = "pop_take" => buffer'[my[u].end][my[u].idx] # TAKEN_VALUE,
         \A w \in Threads \ {u} :
           pc[u] = "pop_take" /\ pc'[w] = "pop_take" /\ my'[w].end = my[u].end => my'[w].idx # my[u].idx,
         pc[u] \in {"push_swing", "push_drop"} => buffer'[my[u].node] = buffer[my[u].node]
  PROVE  UseInv(u)'
  <1>1. /\ my[u].idx \in Nat /\ BUFFER_SIZE \in Nat
        /\ \A b \in Addr : push_idx[b] \in Nat /\ pop_idx[b] \in Nat /\ push_idx'[b] \in Nat /\ pop_idx'[b] \in Nat
    BY MyType DEF TypeOK
  <1>2. pc'[u] = "push_store" => my'[u].idx < push_idx'[my'[u].end] /\ my'[u].idx \in Slots
    BY <1>1 DEF UseInv, PushEnd
  <1>3. pc'[u] = "pop_take" =>
          /\ my'[u].idx < pop_idx'[my'[u].end] /\ my'[u].idx \in Slots
          /\ buffer'[my'[u].end][my'[u].idx] # TAKEN_VALUE
          /\ \A w \in Threads \ {u} :
               pc'[w] = "pop_take" /\ my'[w].end = my'[u].end => my'[w].idx # my'[u].idx
    BY <1>1 DEF UseInv, PopEnd
  <1>4. pc'[u] \in {"pop_next", "pop_swing"} => pop_idx'[my'[u].end] >= BUFFER_SIZE
    BY <1>1 DEF UseInv, PopEnd
  <1>5. pc'[u] \in {"push_swing", "push_drop"} =>
          buffer'[my'[u].node] = [NoItems EXCEPT ![0] = my'[u].item]
    BY DEF UseInv
  <1>6. ASSUME NEW b \in Addr, Pending(u, b)' \/ On(u, b)' PROVE pop_idx'[b] >= BUFFER_SIZE
    <2>1. Pending(u, b) \/ On(u, b)
      BY <1>6 DEF Pending
    <2> QED BY <2>1, <1>1 DEF UseInv
  <1> QED BY <1>2, <1>3, <1>4, <1>5, <1>6 DEF UseInv

(* ... as little as what the thread itself knows by a step to a place where *)
(* it uses none.                                                           *)
LEMMA UseNothing ==
  ASSUME NEW t \in Threads,
         pc'[t] \notin {"push_store", "pop_take", "pop_next", "pop_swing", "push_swing", "push_drop", "pop_retire"},
         \A a \in Addr : On(t, a)' => pop_idx'[a] >= BUFFER_SIZE
  PROVE  UseInv(t)'
  BY DEF UseInv, Pending

LEMMA UsedSlots ==
  ASSUME MemInv, NEW u \in Threads
  PROVE  /\ pc[u] \in PushEnd \cup PopEnd \cup EmptyEnd => my[u].end \in Addr /\ my[u].end \in live
         /\ pc[u] \in {"push_swing", "push_drop"} => my[u].node \in Addr /\ my[u].node \in live
  BY Shielded, FreshNode

UsedIsLive ==
  /\ live \subseteq Addr
  /\ \A u \in Threads :
       /\ pc[u] \in PushEnd \cup PopEnd \cup EmptyEnd => my[u].end \in live
       /\ pc[u] \in {"push_swing", "push_drop"} => my[u].node \in live
       /\ \A b \in Addr : Pending(u, b) \/ On(u, b) => b \in live

LEMMA UsedLives == MemInv => UsedIsLive
  BY UsedSlots DEF MemInv, OwnerInv, Owns, UsedIsLive, TypeOK, HazardTypeOK

LEMMA CalmSlots ==
  ASSUME MemInv, SlotInv, TypeOK', NEW t \in Threads, Calm(t), UseInv(t)'
  PROVE  SlotInv'
  <1>1. TypeOK
    BY DEF MemInv
  <1>2. \A a, i : Claims(a, i)' <=> Claims(a, i)
    BY DEF Claims, Calm, Others
  <1>3. \A a \in Addr, i \in Slots : i \in Nat /\ push_idx[a] \in Nat /\ push_idx'[a] \in Nat
    BY <1>1, SlotTypes DEF TypeOK
  <1>4. \A a \in Addr, i \in Slots :
          /\ IF i >= pop_idx'[a] THEN buffer'[a][i] # TAKEN_VALUE
                                 ELSE buffer'[a][i] = TAKEN_VALUE \/ Claims(a, i)'
          /\ buffer'[a][i] \in Values => i < push_idx'[a]
    BY <1>2, <1>3 DEF SlotInv, Calm
  <1>5. ASSUME NEW u \in Threads \ {t} PROVE UseInv(u)'
    <2>1. /\ UseInv(u) /\ pc'[u] = pc[u] /\ my'[u] = my[u] /\ pop_idx' = pop_idx /\ buffer' = buffer
          /\ \A a \in Addr : push_idx'[a] >= push_idx[a]
      BY DEF SlotInv, Calm, Others
    <2>2. \A w \in Threads \ {u} :
            pc[u] = "pop_take" /\ pc'[w] = "pop_take" /\ my'[w].end = my[u].end => my'[w].idx # my[u].idx
      <3>1. pc'[t] # "pop_take" /\ \A w \in Threads \ {t} : pc'[w] = pc[w] /\ my'[w] = my[w]
        BY DEF Calm, Others
      <3> QED BY <3>1, <2>1 DEF UseInv
    <2>3. \A b \in Addr : /\ On(u, b)' => On(u, b)
                          /\ pop_idx'[b] >= pop_idx[b]
      <3>1. retired'[u] = retired[u]
        BY DEF Calm, Others
      <3>2. \A b \in Addr : On(u, b)' => On(u, b)
        BY <3>1 DEF On
      <3>3. \A b \in Addr : pop_idx[b] \in Nat
        BY <1>1 DEF TypeOK
      <3> QED BY <3>2, <3>3, <2>1
    <2>4. pc[u] = "pop_take" => buffer'[my[u].end][my[u].idx] # TAKEN_VALUE
      BY <2>1 DEF UseInv
    <2> QED BY <2>1, <2>2, <2>3, <2>4, <1>1, UsedSlots, UseStable
  <1> QED BY <1>4, <1>5 DEF SlotInv, Calm

LEMMA InitSlots == Init => SlotInv
  <1> SUFFICES ASSUME Init PROVE SlotInv
    OBVIOUS
  <1>1. \A a \in Addr : /\ pop_idx[a] = 0 /\ buffer[a] = NoItems
                         /\ \A i \in Slots : buffer[a][i] = EMPTY_VALUE /\ i >= pop_idx[a]
    BY SlotTypes DEF Init, NoItems
  <1>2. \A t \in Threads : UseInv(t)
    <2> TAKE t \in Threads
    <2>1. pc[t] = "idle" /\ \A a \in Addr : ~Pending(t, a) /\ ~On(t, a)
      BY DEF Init, HazardInit, Pending, On
    <2> QED BY <2>1 DEF UseInv
  <1>3. \A a \in Addr, i \in Slots :
          /\ IF i >= pop_idx[a] THEN buffer[a][i] # TAKEN_VALUE
                                ELSE buffer[a][i] = TAKEN_VALUE \/ Claims(a, i)
          /\ buffer[a][i] \in Values => i < push_idx[a]
    BY <1>1
  <1> QED BY <1>1, <1>2, <1>3 DEF SlotInv

(* The cells after a step that changes the slots of one node. *)
LEMMA PushStoreSlots ==
  ASSUME MemInv, SlotInv, TypeOK', NEW t \in Threads, PushStore(t), buffer[my[t].end][my[t].idx] = EMPTY_VALUE
  PROVE  SlotInv'
  <1> DEFINE a == my[t].end
             i == my[t].idx
             v == my[t].item
  <1>0. /\ TypeOK /\ UseInv(t) /\ NodeInv(t)
    BY DEF MemInv, SlotInv
  <1>1. /\ pc[t] = "push_store" /\ pc' = [pc EXCEPT ![t] = "pushed"]
        /\ buffer' = [buffer EXCEPT ![a][i] = v]
        /\ UNCHANGED <<my, retired, live, push_idx, pop_idx>>
    BY DEF PushStore, From, hazardKept, hazardVars, queueKept
  <1>2. /\ a \in Addr /\ a \in live /\ i \in Slots /\ i < push_idx[a] /\ v \in Values /\ v # TAKEN_VALUE
        /\ buffer[a][i] = EMPTY_VALUE
        /\ buffer \in [Addr -> [Slots -> Cells]]
    BY <1>0, <1>1, UsedSlots, NodeTypes DEF UseInv, NodeInv, Pushing, PushEnd
  <1>3. /\ pc'[t] = "pushed" /\ \A u \in Threads \ {t} : pc'[u] = pc[u]
    BY <1>0, <1>1 DEF TypeOK
  <1> HIDE DEF a, i, v
  <1>4. \A b \in Addr, j \in Slots : /\ buffer'[b][j] = IF b = a /\ j = i THEN v ELSE buffer[b][j]
                                     /\ b # a => buffer'[b] = buffer[b]
    BY <1>1, <1>2
  <1>5. \A b, j : Claims(b, j)' <=> Claims(b, j)
    BY <1>1, <1>3 DEF Claims
  <1>6. \A b \in Addr, j \in Slots :
          /\ IF j >= pop_idx'[b] THEN buffer'[b][j] # TAKEN_VALUE
                                 ELSE buffer'[b][j] = TAKEN_VALUE \/ Claims(b, j)'
          /\ buffer'[b][j] \in Values => j < push_idx'[b]
    BY <1>1, <1>2, <1>4, <1>5 DEF SlotInv
  <1>7. \A b \in Addr \ live' : buffer'[b] = NoItems /\ pop_idx'[b] = 0
    BY <1>1, <1>2, <1>4 DEF SlotInv
  <1>8. ASSUME NEW u \in Threads \ {t} PROVE UseInv(u)'
    <2>1. UseInv(u) /\ pc'[u] = pc[u] /\ my'[u] = my[u] /\ my[u].idx \in Nat
      BY <1>0, <1>1, <1>3, MyType DEF SlotInv
    <2>2. \A w \in Threads \ {u} :
            pc[u] = "pop_take" /\ pc'[w] = "pop_take" /\ my'[w].end = my[u].end => my'[w].idx # my[u].idx
      BY <2>1, <1>1, <1>3 DEF UseInv
    <2>3. /\ \A b \in Addr : On(u, b)' => On(u, b)
          /\ \A b \in Addr : pop_idx'[b] >= pop_idx[b] /\ push_idx'[b] >= push_idx[b]
      BY <1>0, <1>1 DEF On, TypeOK
    <2>4. pc[u] = "pop_take" => buffer'[my[u].end][my[u].idx] # TAKEN_VALUE
      BY <2>1, <1>2, <1>4, UsedSlots DEF UseInv, PopEnd
    <2>5. pc[u] \in {"push_swing", "push_drop"} => buffer'[my[u].node] = buffer[my[u].node]
      <3>1. pc[u] \in {"push_swing", "push_drop"} => my[u].node \in Addr /\ my[u].node # a
        <4>1. pc[u] \in {"push_swing", "push_drop"} => my[u].node \in Addr
          BY UsedSlots
        <4>2. ~Fresh(u, my[t].end)
          BY <1>1, Shielded DEF PushEnd
        <4> QED BY <4>1, <4>2 DEF a, Fresh
      <3> QED BY <3>1, <1>4, SlotTypes
    <2> QED BY <2>1, <2>2, <2>3, <2>4, <2>5, <1>0, UsedSlots, UseStable
  <1>9. UseInv(t)'
    <2>1. \A b \in Addr : On(t, b)' => pop_idx'[b] >= BUFFER_SIZE
      BY <1>0, <1>1 DEF On, UseInv
    <2> QED BY <2>1, <1>3, UseNothing
  <1> QED BY <1>6, <1>7, <1>8, <1>9 DEF SlotInv

LEMMA PushNewSlots ==
  ASSUME MemInv, SlotInv, TypeOK', NEW t \in Threads, PushNew(t)
  PROVE  SlotInv'
  <1>0. /\ TypeOK /\ UseInv(t) /\ NodeInv(t)
    BY DEF MemInv, SlotInv
  <1>1. PICK a \in Addr \ live :
          /\ live' = live \cup {a}
          /\ buffer' = [buffer EXCEPT ![a] = [NoItems EXCEPT ![0] = my[t].item]]
          /\ push_idx' = [push_idx EXCEPT ![a] = 1]
          /\ pop_idx' = [pop_idx EXCEPT ![a] = 0]
          /\ my' = [my EXCEPT ![t].node = a]
    BY DEF PushNew
  <1>2. /\ pc[t] = "push_new" /\ pc' = [pc EXCEPT ![t] = "push_swing"] /\ retired' = retired
    BY DEF PushNew, From
  <1>3. /\ pc'[t] = "push_swing" /\ \A u \in Threads \ {t} : pc'[u] = pc[u] /\ my'[u] = my[u]
        /\ my'[t].item = my[t].item /\ my'[t].node = a /\ my[t].item \in Values
    BY <1>0, <1>1, <1>2, MyType DEF TypeOK, Mine, NodeInv, Pushing
  <1>4. /\ buffer'[a] = [NoItems EXCEPT ![0] = my[t].item] /\ push_idx'[a] = 1 /\ pop_idx'[a] = 0
        /\ \A b \in Addr \ {a} : buffer'[b] = buffer[b] /\ push_idx'[b] = push_idx[b] /\ pop_idx'[b] = pop_idx[b]
    BY <1>0, <1>1 DEF TypeOK
  <1>5. \A b, j : Claims(b, j)' <=> Claims(b, j)
    BY <1>2, <1>3 DEF Claims
  <1>6. \A b \in Addr, j \in Slots :
          /\ IF j >= pop_idx'[b] THEN buffer'[b][j] # TAKEN_VALUE
                                 ELSE buffer'[b][j] = TAKEN_VALUE \/ Claims(b, j)'
          /\ buffer'[b][j] \in Values => j < push_idx'[b]
    <2> TAKE b \in Addr, j \in Slots
    <2>1. CASE b = a
      <3>1. buffer'[b][j] = IF j = 0 THEN my[t].item ELSE EMPTY_VALUE
        BY <2>1, <1>4, SlotTypes DEF NoItems
      <3> QED BY <3>1, <2>1, <1>3, <1>4, SlotTypes
    <2>2. CASE b # a
      BY <2>2, <1>4, <1>5 DEF SlotInv
    <2> QED BY <2>1, <2>2
  <1>7. \A b \in Addr \ live' : buffer'[b] = NoItems /\ pop_idx'[b] = 0
    BY <1>1, <1>4 DEF SlotInv
  <1>8. ASSUME NEW u \in Threads \ {t} PROVE UseInv(u)'
    <2>1. UseInv(u) /\ pc'[u] = pc[u] /\ my'[u] = my[u]
      BY <1>3 DEF SlotInv
    <2>2. \A w \in Threads \ {u} :
            pc[u] = "pop_take" /\ pc'[w] = "pop_take" /\ my'[w].end = my[u].end => my'[w].idx # my[u].idx
      BY <2>1, <1>3 DEF UseInv
    <2>3. \A b \in Addr : On(u, b)' => On(u, b)
      BY <1>2 DEF On
    <2>4. \A b \in Addr : Pending(u, b) \/ On(u, b) => b \in live
      BY DEF MemInv, OwnerInv, Owns
    <2>5. /\ \A b \in live : buffer'[b] = buffer[b] /\ push_idx'[b] >= push_idx[b] /\ pop_idx'[b] >= pop_idx[b]
          /\ live \subseteq Addr
      <3>1. live \subseteq Addr /\ a \notin live
        BY <1>0 DEF TypeOK, HazardTypeOK
      <3>2. \A b \in live : push_idx[b] \in Nat /\ pop_idx[b] \in Nat
        BY <1>0, <3>1 DEF TypeOK
      <3> QED BY <3>1, <3>2, <1>4
    <2>6. pc[u] = "pop_take" => buffer'[my[u].end][my[u].idx] # TAKEN_VALUE
      BY <2>1, <2>5, UsedSlots DEF UseInv, PopEnd
    <2> QED BY <2>1, <2>2, <2>3, <2>4, <2>5, <2>6, <1>0, UsedSlots, UseStable
  <1>9. UseInv(t)'
    <2>1. \A b \in Addr : ~Pending(t, b)' /\ (On(t, b)' => pop_idx'[b] >= BUFFER_SIZE)
      <3> TAKE b \in Addr
      <3>1. On(t, b)' => On(t, b) /\ b \in live
        BY <1>2 DEF On, MemInv, OwnerInv, Owns
      <3> QED BY <3>1, <1>0, <1>3, <1>4 DEF UseInv, Pending
    <2> QED BY <2>1, <1>3, <1>4 DEF UseInv
  <1> QED BY <1>6, <1>7, <1>8, <1>9 DEF SlotInv

(* The cells after nodes are freed, which no pop claims.                   *)
LEMMA ErasedSlots ==
  ASSUME MemInv, SlotInv, Erase, live' \subseteq live,
         \A a \in live', i \in Slots : Claims(a, i)' <=> Claims(a, i)
  PROVE  /\ \A a \in Addr, i \in Slots :
              /\ IF i >= pop_idx'[a] THEN buffer'[a][i] # TAKEN_VALUE
                                     ELSE buffer'[a][i] = TAKEN_VALUE \/ Claims(a, i)'
              /\ buffer'[a][i] \in Values => i < push_idx'[a]
         /\ \A a \in Addr \ live' : buffer'[a] = NoItems /\ pop_idx'[a] = 0
         /\ \A a \in Addr : a \in live' =>
              /\ buffer'[a] = buffer[a] /\ push_idx'[a] = push_idx[a] /\ pop_idx'[a] = pop_idx[a]
              /\ push_idx'[a] \in Nat /\ pop_idx'[a] \in Nat
  <1>0. TypeOK /\ live \subseteq Addr
    BY DEF MemInv, TypeOK, HazardTypeOK
  <1>1. \A a \in Addr \ live' : buffer'[a] = NoItems /\ pop_idx'[a] = 0
    <2> TAKE a \in Addr \ live'
    <2>1. CASE a \in live
      BY <2>1, <1>0, Erased
    <2>2. CASE a \notin live
      BY <2>2, <1>0, Erased DEF SlotInv
    <2> QED BY <2>1, <2>2
  <1>2. \A a \in Addr : a \in live' =>
          /\ buffer'[a] = buffer[a] /\ push_idx'[a] = push_idx[a] /\ pop_idx'[a] = pop_idx[a]
          /\ push_idx'[a] \in Nat /\ pop_idx'[a] \in Nat
    BY <1>0, Erased, NodeTypes
  <1>3. ASSUME NEW a \in Addr, NEW i \in Slots
        PROVE  /\ IF i >= pop_idx'[a] THEN buffer'[a][i] # TAKEN_VALUE
                                      ELSE buffer'[a][i] = TAKEN_VALUE \/ Claims(a, i)'
               /\ buffer'[a][i] \in Values => i < push_idx'[a]
    <2>1. CASE a \in live'
      BY <2>1, <1>2 DEF SlotInv
    <2>2. CASE a \notin live'
      <3>1. i >= pop_idx'[a] /\ buffer'[a][i] = EMPTY_VALUE
        BY <2>2, <1>1, SlotTypes DEF NoItems
      <3> QED BY <3>1
    <2> QED BY <2>1, <2>2
  <1> QED BY <1>1, <1>2, <1>3

(* What the others use is live. *)
LEMMA ErasedUse ==
  ASSUME MemInv, MemInv', SlotInv, Erase, live' \subseteq live, NEW u \in Threads,
         pc'[u] = pc[u], my'[u] = my[u], \A b \in Addr : On(u, b)' => On(u, b),
         \A w \in Threads \ {u} : pc'[w] = "pop_take" => pc[w] = "pop_take" /\ my'[w] = my[w],
         \A a \in live', i \in Slots : Claims(a, i)' <=> Claims(a, i)
  PROVE  UseInv(u)'
  <1>0. TypeOK /\ TypeOK' /\ UseInv(u)
    BY DEF MemInv, SlotInv
  <1>1. \A b \in Addr : b \in live' =>
              /\ buffer'[b] = buffer[b] /\ push_idx'[b] = push_idx[b] /\ pop_idx'[b] = pop_idx[b]
              /\ push_idx'[b] \in Nat /\ pop_idx'[b] \in Nat
    BY ErasedSlots
  <1>2. UsedIsLive'
    BY UsedLives, PTL
  <1>3. /\ pc[u] \in PushEnd \cup PopEnd => my[u].end \in Addr /\ my[u].end \in live'
        /\ pc[u] \in {"push_swing", "push_drop"} => my[u].node \in Addr /\ my[u].node \in live'
    BY <1>2 DEF UsedIsLive
  <1>4. \A b \in Addr : Pending(u, b)' \/ On(u, b)' => b \in live' /\ (Pending(u, b) \/ On(u, b))
    BY <1>2 DEF UsedIsLive, Pending
  <1>5. pc'[u] = "pop_take" =>
          /\ my'[u].idx < pop_idx'[my'[u].end] /\ my'[u].idx \in Slots
          /\ buffer'[my'[u].end][my'[u].idx] # TAKEN_VALUE
          /\ \A w \in Threads \ {u} :
               pc'[w] = "pop_take" /\ my'[w].end = my'[u].end => my'[w].idx # my'[u].idx
    BY <1>0, <1>1, <1>3 DEF UseInv, PopEnd
  <1>6. pc'[u] = "push_store" => my'[u].idx < push_idx'[my'[u].end] /\ my'[u].idx \in Slots
    BY <1>0, <1>1, <1>3 DEF UseInv, PushEnd
  <1>7. pc'[u] \in {"pop_next", "pop_swing"} => pop_idx'[my'[u].end] >= BUFFER_SIZE
    BY <1>0, <1>1, <1>3 DEF UseInv, PopEnd
  <1>8. pc'[u] \in {"push_swing", "push_drop"} =>
          buffer'[my'[u].node] = [NoItems EXCEPT ![0] = my'[u].item]
    BY <1>0, <1>1, <1>3 DEF UseInv
  <1>9. \A b \in Addr : Pending(u, b)' \/ On(u, b)' => pop_idx'[b] >= BUFFER_SIZE
    BY <1>0, <1>1, <1>4 DEF UseInv
  <1> QED BY <1>5, <1>6, <1>7, <1>8, <1>9 DEF UseInv

LEMMA PushDropSlots ==
  ASSUME MemInv, MemInv', SlotInv, NEW t \in Threads, PushDrop(t)
  PROVE  SlotInv'
  <1>1. /\ pc[t] = "push_drop" /\ pc' = [pc EXCEPT ![t] = "push_load"]
        /\ live' = live \ {my[t].node} /\ Erase
        /\ my' = [my EXCEPT ![t] = [Blank EXCEPT !.item = my[t].item]] /\ retired' = retired
    BY DEF PushDrop, From, Again
  <1>2. /\ pc'[t] = "push_load" /\ \A u \in Threads \ {t} : pc'[u] = pc[u] /\ my'[u] = my[u]
    BY <1>1 DEF MemInv, TypeOK
  <1>3. \A b, j : Claims(b, j)' <=> Claims(b, j)
    BY <1>1, <1>2 DEF Claims
  <1>4. \A u \in Threads, b \in Addr : On(u, b)' => On(u, b)
    BY <1>1 DEF On
  <1>5. \A u \in Threads \ {t} : UseInv(u)'
    BY <1>1, <1>2, <1>3, <1>4, ErasedUse
  <1>6. UseInv(t)'
    <2>0. UsedIsLive'
      BY UsedLives, PTL
    <2>1. UsedIsLive' /\ UseInv(t)
      BY <2>0 DEF SlotInv
    <2>2. \A b \in Addr : On(t, b)' => b \in live' /\ pop_idx[b] >= BUFFER_SIZE
      BY <2>1, <1>4 DEF UseInv, UsedIsLive
    <2>3. \A b \in Addr : On(t, b)' => pop_idx'[b] >= BUFFER_SIZE
      BY <2>2, <1>1, <1>3, ErasedSlots
    <2> QED BY <2>3, <1>2, UseNothing
  <1> QED BY <1>1, <1>3, <1>5, <1>6, ErasedSlots DEF SlotInv

LEMMA ScanFreeSlots ==
  ASSUME MemInv, MemInv', SlotInv, NEW t \in Threads,
         ScanFree(t), Erase, UNCHANGED <<pc, my, history>>, queueKept
  PROVE  SlotInv'
  <1>1. live' \subseteq live
    BY DEF ScanFree
  <1>3. \A b, j : Claims(b, j)' <=> Claims(b, j)
    BY DEF Claims
  <1>4. \A u \in Threads, b \in Addr : On(u, b)' => On(u, b)
    <2> TAKE u \in Threads, b \in Addr
    <2>1. TypeOK
      BY DEF MemInv
    <2>2. scan[t].at \in 1..Len(retired[t]) /\ retired[t] \in Seq(Addr) /\ Len(retired[t]) \in Nat
      BY SuspectIsRetired, MyType, <2>1 DEF ScanFree
    <2>3. CASE u = t
      <3> DEFINE s == retired[t]
                 i == scan[t].at
                 r == Without(s, i)
      <3>1. retired'[t] = r
        BY <2>1 DEF ScanFree, TypeOK, HazardTypeOK
      <3> HIDE DEF r
      <3>2. /\ Len(r) = Len(s) - 1
            /\ \A j \in 1..(i - 1) : r[j] = s[j]
            /\ \A j \in i..(Len(s) - 1) : r[j] = s[j + 1]
        BY <2>2, WithoutPositions DEF r
      <3>3. ASSUME NEW j \in 1..(Len(s) - 1), r[j] = b PROVE On(t, b)
        <4>1. \/ j \in 1..(i - 1) /\ j \in 1..Len(s)
              \/ j \in i..(Len(s) - 1) /\ j + 1 \in 1..Len(s)
          BY <2>2
        <4> QED BY <4>1, <3>2, <3>3 DEF On
      <3> QED BY <3>1, <3>2, <3>3, <2>3 DEF On
    <2>4. CASE u # t
      <3>1. retired'[u] = retired[u]
        BY <2>1, <2>4 DEF ScanFree, TypeOK, HazardTypeOK
      <3> QED BY <3>1 DEF On
    <2> QED BY <2>3, <2>4
  <1>5. \A u \in Threads : UseInv(u)'
    BY <1>1, <1>3, <1>4, ErasedUse
  <1> QED BY <1>1, <1>3, <1>5, ErasedSlots DEF SlotInv

LEMMA DeleteStartSlots ==
  ASSUME MemInv, SlotInv, DeleteStart \/ UNCHANGED vars
  PROVE  SlotInv'
  <1>1. UNCHANGED <<pc, my, buffer, push_idx, pop_idx, live, retired>>
    BY DEF DeleteStart, vars, hazardKept, hazardVars, node
  <1>2. \A b, j : Claims(b, j)' <=> Claims(b, j)
    BY <1>1 DEF Claims
  <1>3. \A u \in Threads : UseInv(u)'
    BY <1>1 DEF SlotInv, UseInv, Pending, On
  <1> QED BY <1>1, <1>2, <1>3 DEF SlotInv

LEMMA DeleteNodeSlots ==
  ASSUME MemInv, MemInv', SlotInv, DeleteNode \/ DeleteFinish
  PROVE  SlotInv'
  <1>1. /\ live' \subseteq live /\ Erase /\ UNCHANGED <<pc, my>>
        /\ \A u \in Threads : retired'[u] = retired[u] \/ retired'[u] = <<>>
    BY DEF DeleteNode, DeleteFinish, Finalize
  <1>3. \A b, j : Claims(b, j)' <=> Claims(b, j)
    BY <1>1 DEF Claims
  <1>4. \A u \in Threads, b \in Addr : On(u, b)' => On(u, b)
    BY <1>1 DEF On
  <1>5. \A u \in Threads : UseInv(u)'
    BY <1>1, <1>3, <1>4, ErasedUse
  <1> QED BY <1>1, <1>3, <1>5, ErasedSlots DEF SlotInv

LEMMA NewSlots ==
  ASSUME MemInv, SlotInv, New
  PROVE  SlotInv'
  <1>1. UNCHANGED <<pc, my, buffer, push_idx, pop_idx, retired>> /\ live \subseteq live'
    BY DEF New, node
  <1>2. \A b, j : Claims(b, j)' <=> Claims(b, j)
    BY <1>1 DEF Claims
  <1>3. \A u \in Threads : UseInv(u)'
    BY <1>1 DEF SlotInv, UseInv, Pending, On
  <1> QED BY <1>1, <1>2, <1>3 DEF SlotInv

LEMMA PopClaimSlots ==
  ASSUME MemInv, SlotInv, TypeOK', NEW t \in Threads, PopClaim(t)
  PROVE  SlotInv'
  <1> DEFINE a == my[t].end
             n == pop_idx[a]
  <1>0. /\ TypeOK /\ UseInv(t)
    BY DEF MemInv, SlotInv
  <1>1. /\ pc[t] = "pop_claim"
        /\ \/ pc' = [pc EXCEPT ![t] = "pop_take"] /\ n < BUFFER_SIZE
           \/ pc' = [pc EXCEPT ![t] = "pop_next"] /\ n >= BUFFER_SIZE
        /\ pop_idx' = [pop_idx EXCEPT ![a] = n + 1]
        /\ my' = [my EXCEPT ![t].idx = IF n < BUFFER_SIZE THEN n ELSE 0]
        /\ UNCHANGED <<buffer, push_idx, live, retired>>
    BY DEF PopClaim, From, hazardKept, hazardVars
  <1>2. a \in Addr /\ a \in live /\ n \in Nat
    BY <1>0, <1>1, UsedSlots, NodeTypes DEF PopEnd
  <1>3. /\ \/ pc'[t] = "pop_take" /\ n < BUFFER_SIZE
           \/ pc'[t] = "pop_next" /\ n >= BUFFER_SIZE
        /\ my'[t].end = a /\ my'[t].idx = IF n < BUFFER_SIZE THEN n ELSE 0
        /\ \A u \in Threads \ {t} : pc'[u] = pc[u] /\ my'[u] = my[u]
    BY <1>0, <1>1, MyType DEF TypeOK, Mine
  <1> HIDE DEF a
  <1>4. /\ pop_idx'[a] = n + 1
        /\ \A b \in Addr \ {a} : pop_idx'[b] = pop_idx[b]
        /\ \A b \in Addr : pop_idx[b] \in Nat /\ pop_idx'[b] \in Nat /\ pop_idx'[b] >= pop_idx[b]
    BY <1>0, <1>1, <1>2 DEF TypeOK
  <1> HIDE DEF n
  <1>5. \A b, j : Claims(b, j)' <=> Claims(b, j) \/ (b = a /\ j = n /\ n < BUFFER_SIZE)
    <2> TAKE b, j
    <2>1. Claims(b, j) => Claims(b, j)'
      BY <1>1, <1>3 DEF Claims
    <2>2. Claims(b, j)' => Claims(b, j) \/ (b = a /\ j = n /\ n < BUFFER_SIZE)
      BY <1>1, <1>2, <1>3 DEF Claims
    <2>3. b = a /\ j = n /\ n < BUFFER_SIZE => Claims(b, j)'
      BY <1>2, <1>3 DEF Claims
    <2> QED BY <2>1, <2>2, <2>3
  <1>6. ASSUME NEW b \in Addr, NEW j \in Slots
        PROVE  /\ IF j >= pop_idx'[b] THEN buffer'[b][j] # TAKEN_VALUE
                                      ELSE buffer'[b][j] = TAKEN_VALUE \/ Claims(b, j)'
               /\ buffer'[b][j] \in Values => j < push_idx'[b]
    <2>1. j \in Nat /\ j < BUFFER_SIZE
      BY SlotTypes
    <2>2. CASE b # a
      BY <2>2, <1>1, <1>4, <1>5 DEF SlotInv
    <2>3. CASE b = a
      <3>1. pop_idx[b] = n
        BY <2>3 DEF n
      <3>2. CASE j = n
        BY <2>1, <2>3, <3>1, <3>2, <1>1, <1>2, <1>4, <1>5 DEF SlotInv
      <3>3. CASE j # n
        BY <2>1, <2>3, <3>1, <3>3, <1>1, <1>2, <1>4, <1>5 DEF SlotInv
      <3> QED BY <3>2, <3>3
    <2> QED BY <2>2, <2>3
  <1>7. \A b \in Addr \ live' : buffer'[b] = NoItems /\ pop_idx'[b] = 0
    BY <1>1, <1>2, <1>4 DEF SlotInv
  <1>a. \A u \in Threads : pc[u] = "pop_take" /\ my[u].end = a => my[u].idx < n
    BY DEF SlotInv, UseInv, n
  <1>8. ASSUME NEW u \in Threads \ {t} PROVE UseInv(u)'
    <2>1. UseInv(u) /\ pc'[u] = pc[u] /\ my'[u] = my[u] /\ my[u].idx \in Nat
      BY <1>0, <1>3, MyType DEF SlotInv
    <2>2. ASSUME pc[u] = "pop_take", NEW w \in Threads \ {u}, pc'[w] = "pop_take", my'[w].end = my[u].end
          PROVE  my'[w].idx # my[u].idx
      <3>1. CASE w # t
        BY <2>1, <2>2, <3>1, <1>3 DEF UseInv
      <3>2. CASE w = t
        BY <2>1, <2>2, <3>2, <1>2, <1>3, <1>a
      <3> QED BY <3>1, <3>2
    <2>3. \A b \in Addr : On(u, b)' => On(u, b)
      BY <1>1 DEF On
    <2>4. pc[u] = "pop_take" => buffer'[my[u].end][my[u].idx] # TAKEN_VALUE
      BY <2>1, <1>1 DEF UseInv
    <2>5. pc[u] \in PushEnd => push_idx'[my[u].end] >= push_idx[my[u].end]
      BY <1>0, <1>1, UsedSlots DEF TypeOK
    <2> QED BY <2>1, <2>2, <2>3, <2>4, <2>5, <1>0, <1>1, <1>4, UsedSlots, UseStable
  <1>9. UseInv(t)'
    <2>1. \A b \in Addr : ~Pending(t, b)' /\ (On(t, b)' => pop_idx'[b] >= BUFFER_SIZE)
      <3> TAKE b \in Addr
      <3>1. On(t, b)' => pop_idx[b] >= BUFFER_SIZE
        BY <1>0, <1>1 DEF On, UseInv
      <3>2. pop_idx[b] >= BUFFER_SIZE => pop_idx'[b] >= BUFFER_SIZE
        BY <1>4
      <3> QED BY <3>1, <3>2, <1>3 DEF Pending
    <2>2. CASE n < BUFFER_SIZE
      <3>1. pc'[t] = "pop_take" /\ my'[t].end = a /\ my'[t].idx = n /\ n \in Slots
        BY <2>2, <1>2, <1>3, SlotTypes
      <3>2. n < pop_idx'[a]
        BY <1>2, <1>4
      <3>3. buffer'[a][n] # TAKEN_VALUE
        BY <3>1, <1>1, <1>2 DEF SlotInv, n
      <3>4. \A w \in Threads \ {t} : pc'[w] = "pop_take" /\ my'[w].end = a => my'[w].idx # n
        BY <1>2, <1>3, <1>a
      <3> QED BY <2>1, <3>1, <3>2, <3>3, <3>4 DEF UseInv
    <2>3. CASE n >= BUFFER_SIZE
      <3>1. pc'[t] = "pop_next" /\ pop_idx'[a] >= BUFFER_SIZE
        BY <2>3, <1>2, <1>3, <1>4
      <3> QED BY <2>1, <3>1, <1>3 DEF UseInv
    <2> QED BY <2>2, <2>3, <1>2
  <1> QED BY <1>6, <1>7, <1>8, <1>9 DEF SlotInv

LEMMA PopTakeSlots ==
  ASSUME MemInv, SlotInv, TypeOK', NEW t \in Threads, PopTake(t)
  PROVE  SlotInv'
  <1> DEFINE a == my[t].end
             i == my[t].idx
  <1>0. /\ TypeOK /\ UseInv(t)
    BY DEF MemInv, SlotInv
  <1>1. /\ pc[t] = "pop_take"
        /\ \/ pc' = [pc EXCEPT ![t] = "pop_clear"] /\ my' = [my EXCEPT ![t] = Blank]
           \/ pc' = [pc EXCEPT ![t] = "popped"] /\ my' = [my EXCEPT ![t] = [Blank EXCEPT !.item = buffer[a][i]]]
        /\ buffer' = [buffer EXCEPT ![a][i] = TAKEN_VALUE]
        /\ UNCHANGED <<push_idx, pop_idx, live, retired>>
    BY DEF PopTake, From, Forget, hazardKept, hazardVars
  <1>2. /\ a \in Addr /\ a \in live /\ i \in Slots /\ i < pop_idx[a] /\ pop_idx[a] \in Nat
        /\ buffer \in [Addr -> [Slots -> Cells]]
    BY <1>0, <1>1, UsedSlots, NodeTypes DEF UseInv, PopEnd
  <1>3. /\ pc'[t] \in {"pop_clear", "popped"}
        /\ \A u \in Threads \ {t} : pc'[u] = pc[u] /\ my'[u] = my[u]
    BY <1>0, <1>1 DEF TypeOK
  <1>u. \A u \in Threads \ {t} : pc[u] = "pop_take" /\ my[u].end = a => my[u].idx # i
    BY <1>0, <1>1 DEF UseInv
  <1> HIDE DEF a, i
  <1>4. \A b \in Addr : /\ b # a => buffer'[b] = buffer[b]
                        /\ \A j \in Slots : buffer'[b][j] = IF b = a /\ j = i THEN TAKEN_VALUE ELSE buffer[b][j]
    BY <1>1, <1>2
  <1>5. \A b, j : Claims(b, j) => Claims(b, j)' \/ (b = a /\ j = i)
    BY <1>1, <1>3 DEF Claims, a, i
  <1>6. \A b \in Addr, j \in Slots :
          /\ IF j >= pop_idx'[b] THEN buffer'[b][j] # TAKEN_VALUE
                                 ELSE buffer'[b][j] = TAKEN_VALUE \/ Claims(b, j)'
          /\ buffer'[b][j] \in Values => j < push_idx'[b]
    <2> TAKE b \in Addr, j \in Slots
    <2>1. CASE b = a /\ j = i
      <3>1. ~(j >= pop_idx[b]) /\ buffer'[b][j] = TAKEN_VALUE
        BY <2>1, <1>2, <1>4, SlotTypes
      <3> QED BY <3>1, <1>1
    <2>2. CASE ~(b = a /\ j = i)
      BY <2>2, <1>1, <1>4, <1>5 DEF SlotInv
    <2> QED BY <2>1, <2>2
  <1>7. \A b \in Addr \ live' : buffer'[b] = NoItems /\ pop_idx'[b] = 0
    BY <1>1, <1>2, <1>4 DEF SlotInv
  <1>8. ASSUME NEW u \in Threads \ {t} PROVE UseInv(u)'
    <2>1. UseInv(u) /\ pc'[u] = pc[u] /\ my'[u] = my[u]
      BY <1>3 DEF SlotInv
    <2>2. \A w \in Threads \ {u} :
            pc[u] = "pop_take" /\ pc'[w] = "pop_take" /\ my'[w].end = my[u].end => my'[w].idx # my[u].idx
      BY <2>1, <1>3 DEF UseInv
    <2>3. /\ \A b \in Addr : On(u, b)' => On(u, b)
          /\ \A b \in Addr : pop_idx'[b] >= pop_idx[b] /\ push_idx'[b] >= push_idx[b]
      BY <1>0, <1>1 DEF On, TypeOK
    <2>4. pc[u] = "pop_take" => buffer'[my[u].end][my[u].idx] # TAKEN_VALUE
      BY <2>1, <1>4, <1>u, UsedSlots DEF UseInv, PopEnd
    <2>5. pc[u] \in {"push_swing", "push_drop"} => buffer'[my[u].node] = buffer[my[u].node]
      <3>1. pc[u] \in {"push_swing", "push_drop"} => my[u].node \in Addr
        BY UsedSlots
      <3>2. ~Fresh(u, my[t].end)
        BY <1>1, Shielded DEF PopEnd
      <3> QED BY <3>1, <3>2, <1>4 DEF Fresh, a
    <2> QED BY <2>1, <2>2, <2>3, <2>4, <2>5, <1>0, UsedSlots, UseStable
  <1>9. UseInv(t)'
    <2>1. \A b \in Addr : On(t, b)' => pop_idx'[b] >= BUFFER_SIZE
      BY <1>0, <1>1 DEF On, UseInv
    <2> QED BY <2>1, <1>3, UseNothing
  <1> QED BY <1>6, <1>7, <1>8, <1>9 DEF SlotInv

-----------------------------------------------------------------------------
(* Most steps leave the slots, the nodes, the queue and what is finished    *)
(* alone, and lead to a place where little is known.                        *)
Stored == {"push_swing", "push_link", "push_drop", "pushed"}
Knowing == {"push_claim", "push_store", "push_new", "push_swing",
            "pop_take", "pop_next", "pop_swing", "pop_retire"}

Quiet(t) ==
  /\ Others(t)
  /\ UNCHANGED <<buffer, push_idx, pop_idx, live, phase, chain, finished>>
  /\ \A a \in Addr : On(t, a)' => Pending(t, a) \/ On(t, a)
  /\ \A v \in Values : older'[v] \subseteq older[v]
  /\ \A u \in Threads \ {t} : asked'[u] = asked[u]
  /\ pc[t] # "pop_take" /\ pc'[t] \notin Knowing
  /\ my'[t].item \in {my[t].item, EMPTY_VALUE}
  /\ pc'[t] = "popped" => my'[t].item = EMPTY_VALUE
  /\ pc'[t] = "push_drop" => pc[t] = "push_swing" /\ my'[t] = my[t]
  /\ pc'[t] \in Pushing => pc[t] \in Pushing /\ my'[t].item = my[t].item
  /\ pc[t] \in Stored => pc'[t] \in Stored \/ my'[t].item = EMPTY_VALUE
  /\ pc'[t] # "push_drop" => pc[t] \notin {"push_swing", "push_drop"}

LEMMA PushLoadQuiet ==
  ASSUME TypeOK, NEW t \in Threads, ProtectLoad(t, "push_load", "push_publish", tail)
  PROVE  Quiet(t)
  <1> USE DEF ProtectLoad, From, hazardKept, queueKept, hazardVars, node, history
  <1>1. /\ Others(t)
        /\ UNCHANGED <<buffer, push_idx, pop_idx, live, phase, chain, finished>>
        /\ \A u \in Threads \ {t} : asked'[u] = asked[u]
    BY DEF TypeOK, HazardTypeOK, Others
  <1>2. /\ \A a \in Addr : On(t, a)' => Pending(t, a) \/ On(t, a)
        /\ \A v \in Values : older'[v] \subseteq older[v]
    BY DEF On
  <1>3. /\ my'[t] \in {my[t], Blank} \/ my'[t].item = my[t].item
        /\ my'[t].item \in {my[t].item, EMPTY_VALUE}
    BY MyType DEF TypeOK, Mine, Blank
  <1>4. /\ pc[t] # "pop_take" /\ pc'[t] \notin Knowing
        /\ pc'[t] = "popped" => my'[t].item = EMPTY_VALUE
        /\ pc'[t] = "push_drop" => pc[t] = "push_swing" /\ my'[t] = my[t]
        /\ pc'[t] \in Pushing => pc[t] \in Pushing /\ my'[t].item = my[t].item
        /\ pc[t] \in Stored => pc'[t] \in Stored \/ my'[t].item = EMPTY_VALUE
        /\ pc'[t] # "push_drop" => pc[t] \notin {"push_swing", "push_drop"}
    BY MyType DEF TypeOK, Mine, Blank, Knowing, Pushing, Stored
  <1> QED BY <1>1, <1>2, <1>3, <1>4 DEF Quiet

LEMMA PushPublishQuiet ==
  ASSUME TypeOK, NEW t \in Threads, ProtectPublish(t, "push_publish", "push_validate")
  PROVE  Quiet(t)
  <1> USE DEF ProtectPublish, Publish, From, hazardKept, queueKept, hazardVars, node, history
  <1>1. /\ Others(t)
        /\ UNCHANGED <<buffer, push_idx, pop_idx, live, phase, chain, finished>>
        /\ \A u \in Threads \ {t} : asked'[u] = asked[u]
    BY DEF TypeOK, HazardTypeOK, Others
  <1>2. /\ \A a \in Addr : On(t, a)' => Pending(t, a) \/ On(t, a)
        /\ \A v \in Values : older'[v] \subseteq older[v]
    BY DEF On
  <1>3. /\ my'[t] \in {my[t], Blank} \/ my'[t].item = my[t].item
        /\ my'[t].item \in {my[t].item, EMPTY_VALUE}
    BY MyType DEF TypeOK, Mine, Blank
  <1>4. /\ pc[t] # "pop_take" /\ pc'[t] \notin Knowing
        /\ pc'[t] = "popped" => my'[t].item = EMPTY_VALUE
        /\ pc'[t] = "push_drop" => pc[t] = "push_swing" /\ my'[t] = my[t]
        /\ pc'[t] \in Pushing => pc[t] \in Pushing /\ my'[t].item = my[t].item
        /\ pc[t] \in Stored => pc'[t] \in Stored \/ my'[t].item = EMPTY_VALUE
        /\ pc'[t] # "push_drop" => pc[t] \notin {"push_swing", "push_drop"}
    BY MyType DEF TypeOK, Mine, Blank, Knowing, Pushing, Stored
  <1> QED BY <1>1, <1>2, <1>3, <1>4 DEF Quiet

LEMMA PushValidateQuiet ==
  ASSUME TypeOK, NEW t \in Threads, ProtectValidate(t, "push_validate", "push_load", "push_claim", tail), my[t].end # tail
  PROVE  Quiet(t)
  <1> USE DEF ProtectValidate, From, hazardKept, queueKept, hazardVars, node, history
  <1>1. /\ Others(t)
        /\ UNCHANGED <<buffer, push_idx, pop_idx, live, phase, chain, finished>>
        /\ \A u \in Threads \ {t} : asked'[u] = asked[u]
    BY DEF TypeOK, HazardTypeOK, Others
  <1>2. /\ \A a \in Addr : On(t, a)' => Pending(t, a) \/ On(t, a)
        /\ \A v \in Values : older'[v] \subseteq older[v]
    BY DEF On
  <1>3. /\ my'[t] \in {my[t], Blank} \/ my'[t].item = my[t].item
        /\ my'[t].item \in {my[t].item, EMPTY_VALUE}
    BY MyType DEF TypeOK, Mine, Blank
  <1>4. /\ pc[t] # "pop_take" /\ pc'[t] \notin Knowing
        /\ pc'[t] = "popped" => my'[t].item = EMPTY_VALUE
        /\ pc'[t] = "push_drop" => pc[t] = "push_swing" /\ my'[t] = my[t]
        /\ pc'[t] \in Pushing => pc[t] \in Pushing /\ my'[t].item = my[t].item
        /\ pc[t] \in Stored => pc'[t] \in Stored \/ my'[t].item = EMPTY_VALUE
        /\ pc'[t] # "push_drop" => pc[t] \notin {"push_swing", "push_drop"}
    BY MyType DEF TypeOK, Mine, Blank, Knowing, Pushing, Stored
  <1> QED BY <1>1, <1>2, <1>3, <1>4 DEF Quiet

LEMMA PushStoreFailsQuiet ==
  ASSUME TypeOK, NEW t \in Threads, PushStore(t), buffer[my[t].end][my[t].idx] # EMPTY_VALUE
  PROVE  Quiet(t)
  <1> USE DEF PushStore, Again, From, hazardKept, queueKept, hazardVars, node, history
  <1>1. /\ Others(t)
        /\ UNCHANGED <<buffer, push_idx, pop_idx, live, phase, chain, finished>>
        /\ \A u \in Threads \ {t} : asked'[u] = asked[u]
    BY DEF TypeOK, HazardTypeOK, Others
  <1>2. /\ \A a \in Addr : On(t, a)' => Pending(t, a) \/ On(t, a)
        /\ \A v \in Values : older'[v] \subseteq older[v]
    BY DEF On
  <1>3. /\ my'[t] \in {my[t], Blank} \/ my'[t].item = my[t].item
        /\ my'[t].item \in {my[t].item, EMPTY_VALUE}
    BY MyType DEF TypeOK, Mine, Blank
  <1>4. /\ pc[t] # "pop_take" /\ pc'[t] \notin Knowing
        /\ pc'[t] = "popped" => my'[t].item = EMPTY_VALUE
        /\ pc'[t] = "push_drop" => pc[t] = "push_swing" /\ my'[t] = my[t]
        /\ pc'[t] \in Pushing => pc[t] \in Pushing /\ my'[t].item = my[t].item
        /\ pc[t] \in Stored => pc'[t] \in Stored \/ my'[t].item = EMPTY_VALUE
        /\ pc'[t] # "push_drop" => pc[t] \notin {"push_swing", "push_drop"}
    BY MyType DEF TypeOK, Mine, Blank, Knowing, Pushing, Stored
  <1> QED BY <1>1, <1>2, <1>3, <1>4 DEF Quiet

LEMMA PushNoMemoryQuiet ==
  ASSUME TypeOK, NEW t \in Threads, PushNoMemory(t)
  PROVE  Quiet(t)
  <1> USE DEF PushNoMemory, Again, From, hazardKept, queueKept, hazardVars, node, history
  <1>1. /\ Others(t)
        /\ UNCHANGED <<buffer, push_idx, pop_idx, live, phase, chain, finished>>
        /\ \A u \in Threads \ {t} : asked'[u] = asked[u]
    BY DEF TypeOK, HazardTypeOK, Others
  <1>2. /\ \A a \in Addr : On(t, a)' => Pending(t, a) \/ On(t, a)
        /\ \A v \in Values : older'[v] \subseteq older[v]
    BY DEF On
  <1>3. /\ my'[t] \in {my[t], Blank} \/ my'[t].item = my[t].item
        /\ my'[t].item \in {my[t].item, EMPTY_VALUE}
    BY MyType DEF TypeOK, Mine, Blank
  <1>4. /\ pc[t] # "pop_take" /\ pc'[t] \notin Knowing
        /\ pc'[t] = "popped" => my'[t].item = EMPTY_VALUE
        /\ pc'[t] = "push_drop" => pc[t] = "push_swing" /\ my'[t] = my[t]
        /\ pc'[t] \in Pushing => pc[t] \in Pushing /\ my'[t].item = my[t].item
        /\ pc[t] \in Stored => pc'[t] \in Stored \/ my'[t].item = EMPTY_VALUE
        /\ pc'[t] # "push_drop" => pc[t] \notin {"push_swing", "push_drop"}
    BY MyType DEF TypeOK, Mine, Blank, Knowing, Pushing, Stored
  <1> QED BY <1>1, <1>2, <1>3, <1>4 DEF Quiet

LEMMA PushSwingFailsQuiet ==
  ASSUME TypeOK, NEW t \in Threads, PushSwing(t), my[t].end # tail
  PROVE  Quiet(t)
  <1> USE DEF PushSwing, From, hazardKept, queueKept, hazardVars, node, history
  <1>1. /\ Others(t)
        /\ UNCHANGED <<buffer, push_idx, pop_idx, live, phase, chain, finished>>
        /\ \A u \in Threads \ {t} : asked'[u] = asked[u]
    BY DEF TypeOK, HazardTypeOK, Others
  <1>2. /\ \A a \in Addr : On(t, a)' => Pending(t, a) \/ On(t, a)
        /\ \A v \in Values : older'[v] \subseteq older[v]
    BY DEF On
  <1>3. /\ my'[t] \in {my[t], Blank} \/ my'[t].item = my[t].item
        /\ my'[t].item \in {my[t].item, EMPTY_VALUE}
    BY MyType DEF TypeOK, Mine, Blank
  <1>4. /\ pc[t] # "pop_take" /\ pc'[t] \notin Knowing
        /\ pc'[t] = "popped" => my'[t].item = EMPTY_VALUE
        /\ pc'[t] = "push_drop" => pc[t] = "push_swing" /\ my'[t] = my[t]
        /\ pc'[t] \in Pushing => pc[t] \in Pushing /\ my'[t].item = my[t].item
        /\ pc[t] \in Stored => pc'[t] \in Stored \/ my'[t].item = EMPTY_VALUE
        /\ pc'[t] # "push_drop" => pc[t] \notin {"push_swing", "push_drop"}
    BY MyType DEF TypeOK, Mine, Blank, Knowing, Pushing, Stored
  <1> QED BY <1>1, <1>2, <1>3, <1>4 DEF Quiet

LEMMA PushLinkQuiet ==
  ASSUME TypeOK, NEW t \in Threads, PushLink(t)
  PROVE  Quiet(t)
  <1> USE DEF PushLink, From, hazardKept, queueKept, hazardVars, node, history
  <1>1. /\ Others(t)
        /\ UNCHANGED <<buffer, push_idx, pop_idx, live, phase, chain, finished>>
        /\ \A u \in Threads \ {t} : asked'[u] = asked[u]
    BY DEF TypeOK, HazardTypeOK, Others
  <1>2. /\ \A a \in Addr : On(t, a)' => Pending(t, a) \/ On(t, a)
        /\ \A v \in Values : older'[v] \subseteq older[v]
    BY DEF On
  <1>3. /\ my'[t] \in {my[t], Blank} \/ my'[t].item = my[t].item
        /\ my'[t].item \in {my[t].item, EMPTY_VALUE}
    BY MyType DEF TypeOK, Mine, Blank
  <1>4. /\ pc[t] # "pop_take" /\ pc'[t] \notin Knowing
        /\ pc'[t] = "popped" => my'[t].item = EMPTY_VALUE
        /\ pc'[t] = "push_drop" => pc[t] = "push_swing" /\ my'[t] = my[t]
        /\ pc'[t] \in Pushing => pc[t] \in Pushing /\ my'[t].item = my[t].item
        /\ pc[t] \in Stored => pc'[t] \in Stored \/ my'[t].item = EMPTY_VALUE
        /\ pc'[t] # "push_drop" => pc[t] \notin {"push_swing", "push_drop"}
    BY MyType DEF TypeOK, Mine, Blank, Knowing, Pushing, Stored
  <1> QED BY <1>1, <1>2, <1>3, <1>4 DEF Quiet

LEMMA CallPopQuiet ==
  ASSUME TypeOK, NEW t \in Threads, CallPop(t)
  PROVE  Quiet(t)
  <1> USE DEF CallPop, From, hazardKept, queueKept, hazardVars, node, history
  <1>1. /\ Others(t)
        /\ UNCHANGED <<buffer, push_idx, pop_idx, live, phase, chain, finished>>
        /\ \A u \in Threads \ {t} : asked'[u] = asked[u]
    BY DEF TypeOK, HazardTypeOK, Others
  <1>2. /\ \A a \in Addr : On(t, a)' => Pending(t, a) \/ On(t, a)
        /\ \A v \in Values : older'[v] \subseteq older[v]
    BY DEF On
  <1>3. /\ my'[t] \in {my[t], Blank} \/ my'[t].item = my[t].item
        /\ my'[t].item \in {my[t].item, EMPTY_VALUE}
    BY MyType DEF TypeOK, Mine, Blank
  <1>4. /\ pc[t] # "pop_take" /\ pc'[t] \notin Knowing
        /\ pc'[t] = "popped" => my'[t].item = EMPTY_VALUE
        /\ pc'[t] = "push_drop" => pc[t] = "push_swing" /\ my'[t] = my[t]
        /\ pc'[t] \in Pushing => pc[t] \in Pushing /\ my'[t].item = my[t].item
        /\ pc[t] \in Stored => pc'[t] \in Stored \/ my'[t].item = EMPTY_VALUE
        /\ pc'[t] # "push_drop" => pc[t] \notin {"push_swing", "push_drop"}
    BY MyType DEF TypeOK, Mine, Blank, Knowing, Pushing, Stored
  <1> QED BY <1>1, <1>2, <1>3, <1>4 DEF Quiet

LEMMA PopLoadQuiet ==
  ASSUME TypeOK, NEW t \in Threads, ProtectLoad(t, "pop_load", "pop_publish", head)
  PROVE  Quiet(t)
  <1> USE DEF ProtectLoad, From, hazardKept, queueKept, hazardVars, node, history
  <1>1. /\ Others(t)
        /\ UNCHANGED <<buffer, push_idx, pop_idx, live, phase, chain, finished>>
        /\ \A u \in Threads \ {t} : asked'[u] = asked[u]
    BY DEF TypeOK, HazardTypeOK, Others
  <1>2. /\ \A a \in Addr : On(t, a)' => Pending(t, a) \/ On(t, a)
        /\ \A v \in Values : older'[v] \subseteq older[v]
    BY DEF On
  <1>3. /\ my'[t] \in {my[t], Blank} \/ my'[t].item = my[t].item
        /\ my'[t].item \in {my[t].item, EMPTY_VALUE}
    BY MyType DEF TypeOK, Mine, Blank
  <1>4. /\ pc[t] # "pop_take" /\ pc'[t] \notin Knowing
        /\ pc'[t] = "popped" => my'[t].item = EMPTY_VALUE
        /\ pc'[t] = "push_drop" => pc[t] = "push_swing" /\ my'[t] = my[t]
        /\ pc'[t] \in Pushing => pc[t] \in Pushing /\ my'[t].item = my[t].item
        /\ pc[t] \in Stored => pc'[t] \in Stored \/ my'[t].item = EMPTY_VALUE
        /\ pc'[t] # "push_drop" => pc[t] \notin {"push_swing", "push_drop"}
    BY MyType DEF TypeOK, Mine, Blank, Knowing, Pushing, Stored
  <1> QED BY <1>1, <1>2, <1>3, <1>4 DEF Quiet

LEMMA PopPublishQuiet ==
  ASSUME TypeOK, NEW t \in Threads, ProtectPublish(t, "pop_publish", "pop_validate")
  PROVE  Quiet(t)
  <1> USE DEF ProtectPublish, Publish, From, hazardKept, queueKept, hazardVars, node, history
  <1>1. /\ Others(t)
        /\ UNCHANGED <<buffer, push_idx, pop_idx, live, phase, chain, finished>>
        /\ \A u \in Threads \ {t} : asked'[u] = asked[u]
    BY DEF TypeOK, HazardTypeOK, Others
  <1>2. /\ \A a \in Addr : On(t, a)' => Pending(t, a) \/ On(t, a)
        /\ \A v \in Values : older'[v] \subseteq older[v]
    BY DEF On
  <1>3. /\ my'[t] \in {my[t], Blank} \/ my'[t].item = my[t].item
        /\ my'[t].item \in {my[t].item, EMPTY_VALUE}
    BY MyType DEF TypeOK, Mine, Blank
  <1>4. /\ pc[t] # "pop_take" /\ pc'[t] \notin Knowing
        /\ pc'[t] = "popped" => my'[t].item = EMPTY_VALUE
        /\ pc'[t] = "push_drop" => pc[t] = "push_swing" /\ my'[t] = my[t]
        /\ pc'[t] \in Pushing => pc[t] \in Pushing /\ my'[t].item = my[t].item
        /\ pc[t] \in Stored => pc'[t] \in Stored \/ my'[t].item = EMPTY_VALUE
        /\ pc'[t] # "push_drop" => pc[t] \notin {"push_swing", "push_drop"}
    BY MyType DEF TypeOK, Mine, Blank, Knowing, Pushing, Stored
  <1> QED BY <1>1, <1>2, <1>3, <1>4 DEF Quiet

LEMMA PopValidateQuiet ==
  ASSUME TypeOK, NEW t \in Threads, ProtectValidate(t, "pop_validate", "pop_load", "pop_claim", head)
  PROVE  Quiet(t)
  <1> USE DEF ProtectValidate, From, hazardKept, queueKept, hazardVars, node, history
  <1>1. /\ Others(t)
        /\ UNCHANGED <<buffer, push_idx, pop_idx, live, phase, chain, finished>>
        /\ \A u \in Threads \ {t} : asked'[u] = asked[u]
    BY DEF TypeOK, HazardTypeOK, Others
  <1>2. /\ \A a \in Addr : On(t, a)' => Pending(t, a) \/ On(t, a)
        /\ \A v \in Values : older'[v] \subseteq older[v]
    BY DEF On
  <1>3. /\ my'[t] \in {my[t], Blank} \/ my'[t].item = my[t].item
        /\ my'[t].item \in {my[t].item, EMPTY_VALUE}
    BY MyType DEF TypeOK, Mine, Blank
  <1>4. /\ pc[t] # "pop_take" /\ pc'[t] \notin Knowing
        /\ pc'[t] = "popped" => my'[t].item = EMPTY_VALUE
        /\ pc'[t] = "push_drop" => pc[t] = "push_swing" /\ my'[t] = my[t]
        /\ pc'[t] \in Pushing => pc[t] \in Pushing /\ my'[t].item = my[t].item
        /\ pc[t] \in Stored => pc'[t] \in Stored \/ my'[t].item = EMPTY_VALUE
        /\ pc'[t] # "push_drop" => pc[t] \notin {"push_swing", "push_drop"}
    BY MyType DEF TypeOK, Mine, Blank, Knowing, Pushing, Stored
  <1> QED BY <1>1, <1>2, <1>3, <1>4 DEF Quiet

LEMMA PopNextNullQuiet ==
  ASSUME TypeOK, NEW t \in Threads, PopNext(t), next[my[t].end] = NULL
  PROVE  Quiet(t)
  <1> USE DEF PopNext, Forget, From, hazardKept, queueKept, hazardVars, node, history
  <1>1. /\ Others(t)
        /\ UNCHANGED <<buffer, push_idx, pop_idx, live, phase, chain, finished>>
        /\ \A u \in Threads \ {t} : asked'[u] = asked[u]
    BY DEF TypeOK, HazardTypeOK, Others
  <1>2. /\ \A a \in Addr : On(t, a)' => Pending(t, a) \/ On(t, a)
        /\ \A v \in Values : older'[v] \subseteq older[v]
    BY DEF On
  <1>3. /\ my'[t] \in {my[t], Blank} \/ my'[t].item = my[t].item
        /\ my'[t].item \in {my[t].item, EMPTY_VALUE}
    BY MyType DEF TypeOK, Mine, Blank
  <1>4. /\ pc[t] # "pop_take" /\ pc'[t] \notin Knowing
        /\ pc'[t] = "popped" => my'[t].item = EMPTY_VALUE
        /\ pc'[t] = "push_drop" => pc[t] = "push_swing" /\ my'[t] = my[t]
        /\ pc'[t] \in Pushing => pc[t] \in Pushing /\ my'[t].item = my[t].item
        /\ pc[t] \in Stored => pc'[t] \in Stored \/ my'[t].item = EMPTY_VALUE
        /\ pc'[t] # "push_drop" => pc[t] \notin {"push_swing", "push_drop"}
    BY MyType DEF TypeOK, Mine, Blank, Knowing, Pushing, Stored
  <1> QED BY <1>1, <1>2, <1>3, <1>4 DEF Quiet

LEMMA PopSwingFailsQuiet ==
  ASSUME TypeOK, NEW t \in Threads, PopSwing(t), my[t].end # head
  PROVE  Quiet(t)
  <1> USE DEF PopSwing, Forget, From, hazardKept, queueKept, hazardVars, node, history
  <1>1. /\ Others(t)
        /\ UNCHANGED <<buffer, push_idx, pop_idx, live, phase, chain, finished>>
        /\ \A u \in Threads \ {t} : asked'[u] = asked[u]
    BY DEF TypeOK, HazardTypeOK, Others
  <1>2. /\ \A a \in Addr : On(t, a)' => Pending(t, a) \/ On(t, a)
        /\ \A v \in Values : older'[v] \subseteq older[v]
    BY DEF On
  <1>3. /\ my'[t] \in {my[t], Blank} \/ my'[t].item = my[t].item
        /\ my'[t].item \in {my[t].item, EMPTY_VALUE}
    BY MyType DEF TypeOK, Mine, Blank
  <1>4. /\ pc[t] # "pop_take" /\ pc'[t] \notin Knowing
        /\ pc'[t] = "popped" => my'[t].item = EMPTY_VALUE
        /\ pc'[t] = "push_drop" => pc[t] = "push_swing" /\ my'[t] = my[t]
        /\ pc'[t] \in Pushing => pc[t] \in Pushing /\ my'[t].item = my[t].item
        /\ pc[t] \in Stored => pc'[t] \in Stored \/ my'[t].item = EMPTY_VALUE
        /\ pc'[t] # "push_drop" => pc[t] \notin {"push_swing", "push_drop"}
    BY MyType DEF TypeOK, Mine, Blank, Knowing, Pushing, Stored
  <1> QED BY <1>1, <1>2, <1>3, <1>4 DEF Quiet

LEMMA PopRetireQuiet ==
  ASSUME TypeOK, NEW t \in Threads, PopRetire(t), my[t].end \in Addr
  PROVE  Quiet(t)
  <1> USE DEF PopRetire, Retire, Forget, From, hazardKept, queueKept, hazardVars, node, history
  <1>1. /\ Others(t)
        /\ UNCHANGED <<buffer, push_idx, pop_idx, live, phase, chain, finished>>
        /\ \A u \in Threads \ {t} : asked'[u] = asked[u]
    BY DEF TypeOK, HazardTypeOK, Others
  <1>2. /\ \A a \in Addr : On(t, a)' => Pending(t, a) \/ On(t, a)
        /\ \A v \in Values : older'[v] \subseteq older[v]
    <2>1. retired'[t] = <<my[t].end>> \o retired[t] /\ older' = older /\ retired[t] \in Seq(Addr) /\ pc[t] = "pop_retire"
      BY MyType DEF TypeOK, HazardTypeOK
    <2>2. ASSUME NEW a \in Addr, On(t, a)' PROVE Pending(t, a) \/ On(t, a)
      <3>1. PICK i \in 1..(Len(retired[t]) + 1) : (<<my[t].end>> \o retired[t])[i] = a
        BY <2>1, <2>2, PrependPositions DEF On
      <3>2. CASE i = 1
        BY <2>1, <3>1, <3>2, PrependPositions DEF Pending
      <3>3. CASE i # 1
        <4>1. Len(retired[t]) \in Nat
          BY MyType
        <4>2. i - 1 \in 1..Len(retired[t]) /\ (i - 1) + 1 = i
          BY <3>3, <4>1
        <4>3. retired[t][i - 1] = a
          BY <2>1, <3>1, <4>2, PrependPositions
        <4> QED BY <4>2, <4>3 DEF On
      <3> QED BY <3>2, <3>3
    <2> QED BY <2>1, <2>2
  <1>3. /\ my'[t] \in {my[t], Blank} \/ my'[t].item = my[t].item
        /\ my'[t].item \in {my[t].item, EMPTY_VALUE}
    BY MyType DEF TypeOK, Mine, Blank
  <1>4. /\ pc[t] # "pop_take" /\ pc'[t] \notin Knowing
        /\ pc'[t] = "popped" => my'[t].item = EMPTY_VALUE
        /\ pc'[t] = "push_drop" => pc[t] = "push_swing" /\ my'[t] = my[t]
        /\ pc'[t] \in Pushing => pc[t] \in Pushing /\ my'[t].item = my[t].item
        /\ pc[t] \in Stored => pc'[t] \in Stored \/ my'[t].item = EMPTY_VALUE
        /\ pc'[t] # "push_drop" => pc[t] \notin {"push_swing", "push_drop"}
    BY MyType DEF TypeOK, Mine, Blank, Knowing, Pushing, Stored
  <1> QED BY <1>1, <1>2, <1>3, <1>4 DEF Quiet

LEMMA ScanReadQuiet ==
  ASSUME TypeOK, NEW t \in Threads, ScanRead(t), pc[t] = "pop_scan", UNCHANGED <<pc, my, node, history>>, queueKept
  PROVE  Quiet(t)
  <1> USE DEF ScanRead, From, hazardKept, queueKept, hazardVars, node, history
  <1>1. /\ Others(t)
        /\ UNCHANGED <<buffer, push_idx, pop_idx, live, phase, chain, finished>>
        /\ \A u \in Threads \ {t} : asked'[u] = asked[u]
    BY DEF TypeOK, HazardTypeOK, Others
  <1>2. /\ \A a \in Addr : On(t, a)' => Pending(t, a) \/ On(t, a)
        /\ \A v \in Values : older'[v] \subseteq older[v]
    BY DEF On
  <1>3. /\ my'[t] \in {my[t], Blank} \/ my'[t].item = my[t].item
        /\ my'[t].item \in {my[t].item, EMPTY_VALUE}
    BY MyType DEF TypeOK, Mine, Blank
  <1>4. /\ pc[t] # "pop_take" /\ pc'[t] \notin Knowing
        /\ pc'[t] = "popped" => my'[t].item = EMPTY_VALUE
        /\ pc'[t] = "push_drop" => pc[t] = "push_swing" /\ my'[t] = my[t]
        /\ pc'[t] \in Pushing => pc[t] \in Pushing /\ my'[t].item = my[t].item
        /\ pc[t] \in Stored => pc'[t] \in Stored \/ my'[t].item = EMPTY_VALUE
        /\ pc'[t] # "push_drop" => pc[t] \notin {"push_swing", "push_drop"}
    BY MyType DEF TypeOK, Mine, Blank, Knowing, Pushing, Stored
  <1> QED BY <1>1, <1>2, <1>3, <1>4 DEF Quiet

LEMMA PopScanDoneQuiet ==
  ASSUME TypeOK, NEW t \in Threads, PopScanDone(t)
  PROVE  Quiet(t)
  <1> USE DEF PopScanDone, From, hazardKept, queueKept, hazardVars, node, history
  <1>1. /\ Others(t)
        /\ UNCHANGED <<buffer, push_idx, pop_idx, live, phase, chain, finished>>
        /\ \A u \in Threads \ {t} : asked'[u] = asked[u]
    BY DEF TypeOK, HazardTypeOK, Others
  <1>2. /\ \A a \in Addr : On(t, a)' => Pending(t, a) \/ On(t, a)
        /\ \A v \in Values : older'[v] \subseteq older[v]
    BY DEF On
  <1>3. /\ my'[t] \in {my[t], Blank} \/ my'[t].item = my[t].item
        /\ my'[t].item \in {my[t].item, EMPTY_VALUE}
    BY MyType DEF TypeOK, Mine, Blank
  <1>4. /\ pc[t] # "pop_take" /\ pc'[t] \notin Knowing
        /\ pc'[t] = "popped" => my'[t].item = EMPTY_VALUE
        /\ pc'[t] = "push_drop" => pc[t] = "push_swing" /\ my'[t] = my[t]
        /\ pc'[t] \in Pushing => pc[t] \in Pushing /\ my'[t].item = my[t].item
        /\ pc[t] \in Stored => pc'[t] \in Stored \/ my'[t].item = EMPTY_VALUE
        /\ pc'[t] # "push_drop" => pc[t] \notin {"push_swing", "push_drop"}
    BY MyType DEF TypeOK, Mine, Blank, Knowing, Pushing, Stored
  <1> QED BY <1>1, <1>2, <1>3, <1>4 DEF Quiet

LEMMA PopClearQuiet ==
  ASSUME TypeOK, NEW t \in Threads, PopClear(t)
  PROVE  Quiet(t)
  <1> USE DEF PopClear, Clear, From, hazardKept, queueKept, hazardVars, node, history
  <1>1. /\ Others(t)
        /\ UNCHANGED <<buffer, push_idx, pop_idx, live, phase, chain, finished>>
        /\ \A u \in Threads \ {t} : asked'[u] = asked[u]
    BY DEF TypeOK, HazardTypeOK, Others
  <1>2. /\ \A a \in Addr : On(t, a)' => Pending(t, a) \/ On(t, a)
        /\ \A v \in Values : older'[v] \subseteq older[v]
    BY DEF On
  <1>3. /\ my'[t] \in {my[t], Blank} \/ my'[t].item = my[t].item
        /\ my'[t].item \in {my[t].item, EMPTY_VALUE}
    BY MyType DEF TypeOK, Mine, Blank
  <1>4. /\ pc[t] # "pop_take" /\ pc'[t] \notin Knowing
        /\ pc'[t] = "popped" => my'[t].item = EMPTY_VALUE
        /\ pc'[t] = "push_drop" => pc[t] = "push_swing" /\ my'[t] = my[t]
        /\ pc'[t] \in Pushing => pc[t] \in Pushing /\ my'[t].item = my[t].item
        /\ pc[t] \in Stored => pc'[t] \in Stored \/ my'[t].item = EMPTY_VALUE
        /\ pc'[t] # "push_drop" => pc[t] \notin {"push_swing", "push_drop"}
    BY MyType DEF TypeOK, Mine, Blank, Knowing, Pushing, Stored
  <1> QED BY <1>1, <1>2, <1>3, <1>4 DEF Quiet

LEMMA PopReturnQuiet ==
  ASSUME TypeOK, NEW t \in Threads, PopReturn(t)
  PROVE  Quiet(t)
  <1> USE DEF PopReturn, Clear, Forget, From, hazardKept, queueKept, hazardVars, node, history
  <1>1. /\ Others(t)
        /\ UNCHANGED <<buffer, push_idx, pop_idx, live, phase, chain, finished>>
        /\ \A u \in Threads \ {t} : asked'[u] = asked[u]
    BY DEF TypeOK, HazardTypeOK, Others
  <1>2. /\ \A a \in Addr : On(t, a)' => Pending(t, a) \/ On(t, a)
        /\ \A v \in Values : older'[v] \subseteq older[v]
    BY DEF On
  <1>3. /\ my'[t] \in {my[t], Blank} \/ my'[t].item = my[t].item
        /\ my'[t].item \in {my[t].item, EMPTY_VALUE}
    BY MyType DEF TypeOK, Mine, Blank
  <1>4. /\ pc[t] # "pop_take" /\ pc'[t] \notin Knowing
        /\ pc'[t] = "popped" => my'[t].item = EMPTY_VALUE
        /\ pc'[t] = "push_drop" => pc[t] = "push_swing" /\ my'[t] = my[t]
        /\ pc'[t] \in Pushing => pc[t] \in Pushing /\ my'[t].item = my[t].item
        /\ pc[t] \in Stored => pc'[t] \in Stored \/ my'[t].item = EMPTY_VALUE
        /\ pc'[t] # "push_drop" => pc[t] \notin {"push_swing", "push_drop"}
    BY MyType DEF TypeOK, Mine, Blank, Knowing, Pushing, Stored
  <1> QED BY <1>1, <1>2, <1>3, <1>4 DEF Quiet

LEMMA CallIsEmptyQuiet ==
  ASSUME TypeOK, NEW t \in Threads, CallIsEmpty(t)
  PROVE  Quiet(t)
  <1> USE DEF CallIsEmpty, From, hazardKept, queueKept, hazardVars, node, history
  <1>1. /\ Others(t)
        /\ UNCHANGED <<buffer, push_idx, pop_idx, live, phase, chain, finished>>
        /\ \A u \in Threads \ {t} : asked'[u] = asked[u]
    BY DEF TypeOK, HazardTypeOK, Others
  <1>2. /\ \A a \in Addr : On(t, a)' => Pending(t, a) \/ On(t, a)
        /\ \A v \in Values : older'[v] \subseteq older[v]
    BY DEF On
  <1>3. /\ my'[t] \in {my[t], Blank} \/ my'[t].item = my[t].item
        /\ my'[t].item \in {my[t].item, EMPTY_VALUE}
    BY MyType DEF TypeOK, Mine, Blank
  <1>4. /\ pc[t] # "pop_take" /\ pc'[t] \notin Knowing
        /\ pc'[t] = "popped" => my'[t].item = EMPTY_VALUE
        /\ pc'[t] = "push_drop" => pc[t] = "push_swing" /\ my'[t] = my[t]
        /\ pc'[t] \in Pushing => pc[t] \in Pushing /\ my'[t].item = my[t].item
        /\ pc[t] \in Stored => pc'[t] \in Stored \/ my'[t].item = EMPTY_VALUE
        /\ pc'[t] # "push_drop" => pc[t] \notin {"push_swing", "push_drop"}
    BY MyType DEF TypeOK, Mine, Blank, Knowing, Pushing, Stored
  <1> QED BY <1>1, <1>2, <1>3, <1>4 DEF Quiet

LEMMA IsEmptyLoadQuiet ==
  ASSUME TypeOK, NEW t \in Threads, ProtectLoad(t, "empty_load", "empty_publish", head)
  PROVE  Quiet(t)
  <1> USE DEF ProtectLoad, From, hazardKept, queueKept, hazardVars, node, history
  <1>1. /\ Others(t)
        /\ UNCHANGED <<buffer, push_idx, pop_idx, live, phase, chain, finished>>
        /\ \A u \in Threads \ {t} : asked'[u] = asked[u]
    BY DEF TypeOK, HazardTypeOK, Others
  <1>2. /\ \A a \in Addr : On(t, a)' => Pending(t, a) \/ On(t, a)
        /\ \A v \in Values : older'[v] \subseteq older[v]
    BY DEF On
  <1>3. /\ my'[t] \in {my[t], Blank} \/ my'[t].item = my[t].item
        /\ my'[t].item \in {my[t].item, EMPTY_VALUE}
    BY MyType DEF TypeOK, Mine, Blank
  <1>4. /\ pc[t] # "pop_take" /\ pc'[t] \notin Knowing
        /\ pc'[t] = "popped" => my'[t].item = EMPTY_VALUE
        /\ pc'[t] = "push_drop" => pc[t] = "push_swing" /\ my'[t] = my[t]
        /\ pc'[t] \in Pushing => pc[t] \in Pushing /\ my'[t].item = my[t].item
        /\ pc[t] \in Stored => pc'[t] \in Stored \/ my'[t].item = EMPTY_VALUE
        /\ pc'[t] # "push_drop" => pc[t] \notin {"push_swing", "push_drop"}
    BY MyType DEF TypeOK, Mine, Blank, Knowing, Pushing, Stored
  <1> QED BY <1>1, <1>2, <1>3, <1>4 DEF Quiet

LEMMA IsEmptyPublishQuiet ==
  ASSUME TypeOK, NEW t \in Threads, ProtectPublish(t, "empty_publish", "empty_validate")
  PROVE  Quiet(t)
  <1> USE DEF ProtectPublish, Publish, From, hazardKept, queueKept, hazardVars, node, history
  <1>1. /\ Others(t)
        /\ UNCHANGED <<buffer, push_idx, pop_idx, live, phase, chain, finished>>
        /\ \A u \in Threads \ {t} : asked'[u] = asked[u]
    BY DEF TypeOK, HazardTypeOK, Others
  <1>2. /\ \A a \in Addr : On(t, a)' => Pending(t, a) \/ On(t, a)
        /\ \A v \in Values : older'[v] \subseteq older[v]
    BY DEF On
  <1>3. /\ my'[t] \in {my[t], Blank} \/ my'[t].item = my[t].item
        /\ my'[t].item \in {my[t].item, EMPTY_VALUE}
    BY MyType DEF TypeOK, Mine, Blank
  <1>4. /\ pc[t] # "pop_take" /\ pc'[t] \notin Knowing
        /\ pc'[t] = "popped" => my'[t].item = EMPTY_VALUE
        /\ pc'[t] = "push_drop" => pc[t] = "push_swing" /\ my'[t] = my[t]
        /\ pc'[t] \in Pushing => pc[t] \in Pushing /\ my'[t].item = my[t].item
        /\ pc[t] \in Stored => pc'[t] \in Stored \/ my'[t].item = EMPTY_VALUE
        /\ pc'[t] # "push_drop" => pc[t] \notin {"push_swing", "push_drop"}
    BY MyType DEF TypeOK, Mine, Blank, Knowing, Pushing, Stored
  <1> QED BY <1>1, <1>2, <1>3, <1>4 DEF Quiet

LEMMA IsEmptyValidateQuiet ==
  ASSUME TypeOK, NEW t \in Threads, ProtectValidate(t, "empty_validate", "empty_load", "empty_push_idx", head)
  PROVE  Quiet(t)
  <1> USE DEF ProtectValidate, From, hazardKept, queueKept, hazardVars, node, history
  <1>1. /\ Others(t)
        /\ UNCHANGED <<buffer, push_idx, pop_idx, live, phase, chain, finished>>
        /\ \A u \in Threads \ {t} : asked'[u] = asked[u]
    BY DEF TypeOK, HazardTypeOK, Others
  <1>2. /\ \A a \in Addr : On(t, a)' => Pending(t, a) \/ On(t, a)
        /\ \A v \in Values : older'[v] \subseteq older[v]
    BY DEF On
  <1>3. /\ my'[t] \in {my[t], Blank} \/ my'[t].item = my[t].item
        /\ my'[t].item \in {my[t].item, EMPTY_VALUE}
    BY MyType DEF TypeOK, Mine, Blank
  <1>4. /\ pc[t] # "pop_take" /\ pc'[t] \notin Knowing
        /\ pc'[t] = "popped" => my'[t].item = EMPTY_VALUE
        /\ pc'[t] = "push_drop" => pc[t] = "push_swing" /\ my'[t] = my[t]
        /\ pc'[t] \in Pushing => pc[t] \in Pushing /\ my'[t].item = my[t].item
        /\ pc[t] \in Stored => pc'[t] \in Stored \/ my'[t].item = EMPTY_VALUE
        /\ pc'[t] # "push_drop" => pc[t] \notin {"push_swing", "push_drop"}
    BY MyType DEF TypeOK, Mine, Blank, Knowing, Pushing, Stored
  <1> QED BY <1>1, <1>2, <1>3, <1>4 DEF Quiet

LEMMA IsEmptyPushIdxQuiet ==
  ASSUME TypeOK, NEW t \in Threads, IsEmptyPushIdx(t)
  PROVE  Quiet(t)
  <1> USE DEF IsEmptyPushIdx, From, hazardKept, queueKept, hazardVars, node, history
  <1>1. /\ Others(t)
        /\ UNCHANGED <<buffer, push_idx, pop_idx, live, phase, chain, finished>>
        /\ \A u \in Threads \ {t} : asked'[u] = asked[u]
    BY DEF TypeOK, HazardTypeOK, Others
  <1>2. /\ \A a \in Addr : On(t, a)' => Pending(t, a) \/ On(t, a)
        /\ \A v \in Values : older'[v] \subseteq older[v]
    BY DEF On
  <1>3. /\ my'[t] \in {my[t], Blank} \/ my'[t].item = my[t].item
        /\ my'[t].item \in {my[t].item, EMPTY_VALUE}
    BY MyType DEF TypeOK, Mine, Blank
  <1>4. /\ pc[t] # "pop_take" /\ pc'[t] \notin Knowing
        /\ pc'[t] = "popped" => my'[t].item = EMPTY_VALUE
        /\ pc'[t] = "push_drop" => pc[t] = "push_swing" /\ my'[t] = my[t]
        /\ pc'[t] \in Pushing => pc[t] \in Pushing /\ my'[t].item = my[t].item
        /\ pc[t] \in Stored => pc'[t] \in Stored \/ my'[t].item = EMPTY_VALUE
        /\ pc'[t] # "push_drop" => pc[t] \notin {"push_swing", "push_drop"}
    BY MyType DEF TypeOK, Mine, Blank, Knowing, Pushing, Stored
  <1> QED BY <1>1, <1>2, <1>3, <1>4 DEF Quiet

LEMMA IsEmptyPopIdxQuiet ==
  ASSUME TypeOK, NEW t \in Threads, IsEmptyPopIdx(t)
  PROVE  Quiet(t)
  <1> USE DEF IsEmptyPopIdx, From, hazardKept, queueKept, hazardVars, node, history
  <1>1. /\ Others(t)
        /\ UNCHANGED <<buffer, push_idx, pop_idx, live, phase, chain, finished>>
        /\ \A u \in Threads \ {t} : asked'[u] = asked[u]
    BY DEF TypeOK, HazardTypeOK, Others
  <1>2. /\ \A a \in Addr : On(t, a)' => Pending(t, a) \/ On(t, a)
        /\ \A v \in Values : older'[v] \subseteq older[v]
    BY DEF On
  <1>3. /\ my'[t] \in {my[t], Blank} \/ my'[t].item = my[t].item
        /\ my'[t].item \in {my[t].item, EMPTY_VALUE}
    BY MyType DEF TypeOK, Mine, Blank
  <1>4. /\ pc[t] # "pop_take" /\ pc'[t] \notin Knowing
        /\ pc'[t] = "popped" => my'[t].item = EMPTY_VALUE
        /\ pc'[t] = "push_drop" => pc[t] = "push_swing" /\ my'[t] = my[t]
        /\ pc'[t] \in Pushing => pc[t] \in Pushing /\ my'[t].item = my[t].item
        /\ pc[t] \in Stored => pc'[t] \in Stored \/ my'[t].item = EMPTY_VALUE
        /\ pc'[t] # "push_drop" => pc[t] \notin {"push_swing", "push_drop"}
    BY MyType DEF TypeOK, Mine, Blank, Knowing, Pushing, Stored
  <1> QED BY <1>1, <1>2, <1>3, <1>4 DEF Quiet

LEMMA IsEmptyNextQuiet ==
  ASSUME TypeOK, NEW t \in Threads, IsEmptyNext(t)
  PROVE  Quiet(t)
  <1> USE DEF IsEmptyNext, From, hazardKept, queueKept, hazardVars, node, history
  <1>1. /\ Others(t)
        /\ UNCHANGED <<buffer, push_idx, pop_idx, live, phase, chain, finished>>
        /\ \A u \in Threads \ {t} : asked'[u] = asked[u]
    BY DEF TypeOK, HazardTypeOK, Others
  <1>2. /\ \A a \in Addr : On(t, a)' => Pending(t, a) \/ On(t, a)
        /\ \A v \in Values : older'[v] \subseteq older[v]
    BY DEF On
  <1>3. /\ my'[t] \in {my[t], Blank} \/ my'[t].item = my[t].item
        /\ my'[t].item \in {my[t].item, EMPTY_VALUE}
    BY MyType DEF TypeOK, Mine, Blank
  <1>4. /\ pc[t] # "pop_take" /\ pc'[t] \notin Knowing
        /\ pc'[t] = "popped" => my'[t].item = EMPTY_VALUE
        /\ pc'[t] = "push_drop" => pc[t] = "push_swing" /\ my'[t] = my[t]
        /\ pc'[t] \in Pushing => pc[t] \in Pushing /\ my'[t].item = my[t].item
        /\ pc[t] \in Stored => pc'[t] \in Stored \/ my'[t].item = EMPTY_VALUE
        /\ pc'[t] # "push_drop" => pc[t] \notin {"push_swing", "push_drop"}
    BY MyType DEF TypeOK, Mine, Blank, Knowing, Pushing, Stored
  <1> QED BY <1>1, <1>2, <1>3, <1>4 DEF Quiet

LEMMA IsEmptyReturnQuiet ==
  ASSUME TypeOK, NEW t \in Threads, IsEmptyReturn(t)
  PROVE  Quiet(t)
  <1> USE DEF IsEmptyReturn, Clear, Forget, From, hazardKept, queueKept, hazardVars, node, history
  <1>1. /\ Others(t)
        /\ UNCHANGED <<buffer, push_idx, pop_idx, live, phase, chain, finished>>
        /\ \A u \in Threads \ {t} : asked'[u] = asked[u]
    BY DEF TypeOK, HazardTypeOK, Others
  <1>2. /\ \A a \in Addr : On(t, a)' => Pending(t, a) \/ On(t, a)
        /\ \A v \in Values : older'[v] \subseteq older[v]
    BY DEF On
  <1>3. /\ my'[t] \in {my[t], Blank} \/ my'[t].item = my[t].item
        /\ my'[t].item \in {my[t].item, EMPTY_VALUE}
    BY MyType DEF TypeOK, Mine, Blank
  <1>4. /\ pc[t] # "pop_take" /\ pc'[t] \notin Knowing
        /\ pc'[t] = "popped" => my'[t].item = EMPTY_VALUE
        /\ pc'[t] = "push_drop" => pc[t] = "push_swing" /\ my'[t] = my[t]
        /\ pc'[t] \in Pushing => pc[t] \in Pushing /\ my'[t].item = my[t].item
        /\ pc[t] \in Stored => pc'[t] \in Stored \/ my'[t].item = EMPTY_VALUE
        /\ pc'[t] # "push_drop" => pc[t] \notin {"push_swing", "push_drop"}
    BY MyType DEF TypeOK, Mine, Blank, Knowing, Pushing, Stored
  <1> QED BY <1>1, <1>2, <1>3, <1>4 DEF Quiet

LEMMA QuietSlots ==
  ASSUME MemInv, SlotInv, TypeOK', NEW t \in Threads, Quiet(t)
  PROVE  SlotInv'
  <1>1. TypeOK /\ UseInv(t) /\ pop_idx' = pop_idx
    BY DEF MemInv, SlotInv, Quiet
  <1>2. Calm(t)
    BY <1>1 DEF Calm, TypeOK, Quiet, Knowing
  <1>3. \A b \in Addr : On(t, b)' => pop_idx'[b] >= BUFFER_SIZE
    BY <1>1 DEF UseInv, Quiet
  <1>4. CASE pc'[t] # "push_drop"
    <2>1. UseInv(t)'
      BY <1>3, <1>4, UseNothing DEF Quiet, Knowing
    <2> QED BY <1>2, <2>1, CalmSlots
  <1>5. CASE pc'[t] = "push_drop"
    <2>1. pc[t] = "push_swing" /\ my'[t] = my[t] /\ buffer' = buffer
      BY <1>5 DEF Quiet
    <2>2. UseInv(t)'
      BY <2>1, <1>1, <1>3, <1>5 DEF UseInv, Pending
    <2> QED BY <1>2, <2>2, CalmSlots
  <1> QED BY <1>4, <1>5

(* The other steps that leave the slots alone. *)
LEMMA RestingSlots ==
  ASSUME MemInv, SlotInv, TypeOK', NEW t \in Threads, Others(t),
         UNCHANGED <<buffer, push_idx, pop_idx, live, phase, retired>>, pc[t] # "pop_take",
         pc'[t] \notin {"push_store", "pop_take", "pop_next", "pop_swing", "push_swing", "push_drop", "pop_retire"}
  PROVE  SlotInv'
  <1>1. TypeOK /\ UseInv(t)
    BY DEF MemInv, SlotInv
  <1>2. Calm(t)
    BY <1>1 DEF Calm, TypeOK
  <1>3. \A b \in Addr : On(t, b)' => pop_idx'[b] >= BUFFER_SIZE
    BY <1>1 DEF On, UseInv
  <1> QED BY <1>2, <1>3, UseNothing, CalmSlots

LEMMA CallPushSlots ==
  ASSUME MemInv, SlotInv, TypeOK', NEW t \in Threads, NEW v \in Values, CallPush(t, v)
  PROVE  SlotInv'
  <1>1. /\ Others(t) /\ pc[t] = "idle" /\ pc'[t] = "push_load"
        /\ UNCHANGED <<buffer, push_idx, pop_idx, live, phase, retired>>
    BY DEF MemInv, TypeOK, CallPush, From, Others, hazardKept, hazardVars, queueKept, node
  <1> QED BY <1>1, RestingSlots

LEMMA PushFoundSlots ==
  ASSUME MemInv, SlotInv, TypeOK', NEW t \in Threads, my[t].end = tail,
         ProtectValidate(t, "push_validate", "push_load", "push_claim", tail)
  PROVE  SlotInv'
  <1>1. /\ Others(t) /\ pc[t] = "push_validate" /\ pc'[t] = "push_claim"
        /\ UNCHANGED <<buffer, push_idx, pop_idx, live, phase, retired>>
    BY DEF MemInv, TypeOK, ProtectValidate, From, Others, hazardKept, hazardVars, queueKept, node
  <1> QED BY <1>1, RestingSlots

LEMMA PushReturnSlots ==
  ASSUME MemInv, SlotInv, TypeOK', NEW t \in Threads, PushReturn(t)
  PROVE  SlotInv'
  <1>1. /\ Others(t) /\ pc[t] = "pushed" /\ pc'[t] = "idle"
        /\ UNCHANGED <<buffer, push_idx, pop_idx, live, phase, retired>>
    BY DEF MemInv, TypeOK, PushReturn, From, Forget, Others, queueKept, node
  <1> QED BY <1>1, RestingSlots

LEMMA PushSwingSlots ==
  ASSUME MemInv, SlotInv, TypeOK', NEW t \in Threads, PushSwing(t), my[t].end = tail
  PROVE  SlotInv'
  <1>1. /\ Others(t) /\ pc[t] = "push_swing" /\ pc'[t] = "push_link"
        /\ UNCHANGED <<buffer, push_idx, pop_idx, live, phase, retired>>
    BY DEF MemInv, TypeOK, PushSwing, From, Others, hazardKept, hazardVars, node
  <1> QED BY <1>1, RestingSlots

LEMMA PushClaimSlots ==
  ASSUME MemInv, SlotInv, TypeOK', NEW t \in Threads, PushClaim(t)
  PROVE  SlotInv'
  <1> DEFINE a == my[t].end
  <1>0. TypeOK /\ UseInv(t)
    BY DEF MemInv, SlotInv
  <1>1. /\ pc[t] = "push_claim"
        /\ push_idx' = [push_idx EXCEPT ![a] = push_idx[a] + 1]
        /\ UNCHANGED <<buffer, pop_idx, live, phase, retired>>
        /\ Others(t)
    BY <1>0 DEF PushClaim, From, Others, TypeOK, hazardKept, hazardVars, queueKept
  <1>2. a \in Addr /\ push_idx[a] \in Nat
    BY <1>0, <1>1, UsedSlots, NodeTypes DEF PushEnd
  <1>3. /\ my'[t].end = a
        /\ \/ pc'[t] = "push_store" /\ push_idx[a] < BUFFER_SIZE /\ my'[t].idx = push_idx[a]
           \/ pc'[t] = "push_new"
    BY <1>0, MyType DEF PushClaim, From, TypeOK, Mine
  <1> HIDE DEF a
  <1>4. /\ push_idx'[a] = push_idx[a] + 1
        /\ \A b \in Addr : push_idx'[b] >= push_idx[b]
    BY <1>0, <1>1, <1>2 DEF TypeOK
  <1>5. Calm(t)
    BY <1>1, <1>3, <1>4 DEF Calm
  <1>6. \A b \in Addr : On(t, b)' => pop_idx'[b] >= BUFFER_SIZE
    BY <1>0, <1>1 DEF On, UseInv
  <1>7. CASE pc'[t] = "push_store"
    <2>1. my'[t].idx < push_idx'[my'[t].end] /\ my'[t].idx \in Slots
      BY <1>2, <1>3, <1>4, <1>7, SlotTypes
    <2>2. UseInv(t)'
      BY <2>1, <1>6, <1>7 DEF UseInv, Pending
    <2> QED BY <2>2, <1>5, CalmSlots
  <1>8. CASE pc'[t] = "push_new"
    BY <1>5, <1>6, <1>8, UseNothing, CalmSlots
  <1> QED BY <1>3, <1>7, <1>8

LEMMA PopNextSlots ==
  ASSUME MemInv, SlotInv, TypeOK', NEW t \in Threads, PopNext(t), next[my[t].end] # NULL
  PROVE  SlotInv'
  <1>0. TypeOK /\ UseInv(t)
    BY DEF MemInv, SlotInv
  <1>1. /\ Others(t) /\ pc[t] = "pop_next" /\ pc'[t] = "pop_swing" /\ my'[t].end = my[t].end
        /\ UNCHANGED <<buffer, push_idx, pop_idx, live, phase, retired>>
    BY <1>0, MyType DEF TypeOK, Mine, PopNext, From, Others, hazardKept, hazardVars, queueKept, node
  <1>2. Calm(t)
    BY <1>0, <1>1 DEF Calm, TypeOK
  <1>3. UseInv(t)'
    BY <1>0, <1>1 DEF UseInv, Pending, On
  <1> QED BY <1>2, <1>3, CalmSlots

LEMMA PopSwingSlots ==
  ASSUME MemInv, SlotInv, TypeOK', NEW t \in Threads, PopSwing(t), my[t].end = head
  PROVE  SlotInv'
  <1>0. TypeOK /\ UseInv(t)
    BY DEF MemInv, SlotInv
  <1>1. /\ Others(t) /\ pc[t] = "pop_swing" /\ pc'[t] = "pop_retire" /\ my'[t].end = my[t].end
        /\ UNCHANGED <<buffer, push_idx, pop_idx, live, phase, retired>>
    BY <1>0, MyType DEF TypeOK, Mine, PopSwing, From, Others, hazardKept, hazardVars, node
  <1>2. Calm(t)
    BY <1>0, <1>1 DEF Calm, TypeOK
  <1>3. UseInv(t)'
    BY <1>0, <1>1 DEF UseInv, Pending, On
  <1> QED BY <1>2, <1>3, CalmSlots

LEMMA PopScanCases ==
  ASSUME TypeOK, NEW t \in Threads, PopScan(t)
  PROVE  \/ Quiet(t)
         \/ ScanFree(t) /\ Erase /\ pc[t] = "pop_scan" /\ queueKept /\ UNCHANGED <<pc, my, history>>
  <1>1. CASE ScanRead(t)
    <2>1. live' = live
      BY <1>1 DEF ScanRead
    <2>2. UNCHANGED node
      BY <2>1, ErasedNothing DEF PopScan
    <2> QED BY <1>1, <2>2, ScanReadQuiet DEF PopScan
  <1> QED BY <1>1 DEF PopScan

LEMMA QuietSteps ==
  ASSUME MemInv, NEW t \in Threads,
         \/ CallPop(t) \/ CallIsEmpty(t) \/ PushNoMemory(t)
         \/ PushProtect(t) /\ (pc[t] = "push_validate" => my[t].end # tail)
         \/ PushStore(t) /\ buffer[my[t].end][my[t].idx] # EMPTY_VALUE
         \/ PushSwing(t) /\ my[t].end # tail
         \/ PushLink(t) \/ PopProtect(t)
         \/ PopNext(t) /\ next[my[t].end] = NULL
         \/ PopSwing(t) /\ my[t].end # head
         \/ PopRetire(t) \/ PopScanDone(t) \/ PopClear(t) \/ PopReturn(t)
         \/ IsEmptyProtect(t) \/ IsEmptyPushIdx(t) \/ IsEmptyPopIdx(t) \/ IsEmptyNext(t) \/ IsEmptyReturn(t)
  PROVE  Quiet(t)
  <1>0. TypeOK /\ NodeInv(t)
    BY DEF MemInv
  <1>1. CASE PushProtect(t) /\ (pc[t] = "push_validate" => my[t].end # tail)
    <2>1. ProtectValidate(t, "push_validate", "push_load", "push_claim", tail) => pc[t] = "push_validate"
      BY DEF ProtectValidate, From
    <2> QED BY <1>0, <1>1, <2>1, PushLoadQuiet, PushPublishQuiet, PushValidateQuiet DEF PushProtect
  <1>2. CASE PopProtect(t) \/ IsEmptyProtect(t)
    BY <1>0, <1>2, PopLoadQuiet, PopPublishQuiet, PopValidateQuiet,
       IsEmptyLoadQuiet, IsEmptyPublishQuiet, IsEmptyValidateQuiet DEF PopProtect, IsEmptyProtect
  <1>3. CASE PopRetire(t)
    <2>1. my[t].end \in Addr
      BY <1>0, <1>3, MyType DEF PopRetire, From, NodeInv, Node
    <2> QED BY <1>0, <1>3, <2>1, PopRetireQuiet
  <1> QED BY <1>0, <1>1, <1>2, <1>3, CallPopQuiet, CallIsEmptyQuiet, PushNoMemoryQuiet, PushStoreFailsQuiet,
             PushSwingFailsQuiet, PushLinkQuiet, PopNextNullQuiet, PopSwingFailsQuiet, PopScanDoneQuiet,
             PopClearQuiet, PopReturnQuiet, IsEmptyPushIdxQuiet, IsEmptyPopIdxQuiet, IsEmptyNextQuiet,
             IsEmptyReturnQuiet

LEMMA NextSlots == MemInv /\ MemInv' /\ SlotInv /\ [Next]_vars => SlotInv'
  <1> SUFFICES ASSUME MemInv, MemInv', SlotInv, [Next]_vars PROVE SlotInv'
    OBVIOUS
  <1>0. TypeOK'
    BY DEF MemInv
  <1>1. ASSUME NEW t \in Threads, Quiet(t) PROVE SlotInv'
    BY <1>0, <1>1, QuietSlots
  <1>2. ASSUME NEW t \in Threads, Invoke(t) \/ PushNoMemory(t) PROVE SlotInv'
    BY <1>0, <1>1, <1>2, QuietSteps, CallPushSlots DEF Invoke
  <1>3. ASSUME NEW t \in Threads, PushProtect(t) \/ PushClaim(t) \/ PushStore(t) \/ PushNew(t) \/ PushSwing(t)
                                  \/ PushLink(t) \/ PushDrop(t) \/ PushReturn(t)
        PROVE  SlotInv'
    <2>1. CASE PushProtect(t) /\ pc[t] = "push_validate" /\ my[t].end = tail
      <3>1. ProtectValidate(t, "push_validate", "push_load", "push_claim", tail)
        BY <2>1 DEF PushProtect, ProtectLoad, ProtectPublish, From
      <3> QED BY <1>0, <2>1, <3>1, PushFoundSlots
    <2> QED BY <1>0, <1>1, <1>3, <2>1, QuietSteps, PushClaimSlots, PushStoreSlots, PushNewSlots, PushSwingSlots,
               PushDropSlots, PushReturnSlots
  <1>4. ASSUME NEW t \in Threads, PopProtect(t) \/ PopClaim(t) \/ PopTake(t) \/ PopNext(t) \/ PopSwing(t)
                                  \/ PopRetire(t) \/ PopScan(t) \/ PopScanDone(t) \/ PopClear(t) \/ PopReturn(t)
        PROVE  SlotInv'
    <2>1. CASE PopScan(t)
      <3>1. TypeOK
        BY DEF MemInv
      <3> QED BY <1>0, <1>1, <2>1, <3>1, PopScanCases, ScanFreeSlots
    <2> QED BY <1>0, <1>1, <1>4, <2>1, QuietSteps, PopClaimSlots, PopTakeSlots, PopNextSlots, PopSwingSlots
  <1>5. ASSUME NEW t \in Threads, IsEmptyProtect(t) \/ IsEmptyPushIdx(t) \/ IsEmptyPopIdx(t) \/ IsEmptyNext(t)
                                  \/ IsEmptyReturn(t)
        PROVE  SlotInv'
    BY <1>1, <1>5, QuietSteps
  <1>6. ASSUME NEW t \in Threads, Step(t) PROVE SlotInv'
    BY <1>3, <1>4, <1>5, <1>6 DEF Step, Return
  <1> QED BY <1>2, <1>6, DeleteStartSlots, DeleteNodeSlots, NewSlots DEF Next

-----------------------------------------------------------------------------
(* The items.                                                              *)

Once(v) ==
  /\ \A a, b \in Addr, i, j \in Slots : buffer[a][i] = v /\ buffer[b][j] = v => a = b /\ i = j
  /\ \A t, u \in Threads : Holds(t, v) /\ Holds(u, v) => t = u
  /\ \A t \in Threads : Holds(t, v) => \A a \in Addr, i \in Slots : buffer[a][i] # v

DistinctPushes ==
  \A t, u \in Threads :
    pc[t] \in Pushing /\ pc[u] \in Pushing /\ my[t].item = my[u].item => t = u

Kept(v) == \E a \in live, i \in Slots : buffer[a][i] = v /\ \A t \in Threads : ~Fresh(t, a)

LEMMA ItemParts ==
  Conservation <=> /\ \A v \in Values : Once(v)
                   /\ DistinctPushes
                   /\ \A v \in finished : Kept(v)
                   /\ phase # "open" => finished = {}
  BY DEF Conservation, Once, DistinctPushes, Kept

LEMMA OnceStable ==
  ASSUME NEW v \in Values, Once(v),
         \A a \in Addr, i \in Slots : buffer'[a][i] = v => buffer[a][i] = v,
         \A u \in Threads : Holds(u, v)' => Holds(u, v)
  PROVE  Once(v)'
  BY DEF Once

LEMMA PushesStable ==
  ASSUME DistinctPushes, NEW t \in Threads, \A u \in Threads \ {t} : pc'[u] = pc[u] /\ my'[u] = my[u],
         pc'[t] \in Pushing => pc[t] \in Pushing /\ my'[t].item = my[t].item
  PROVE  DistinctPushes'
  BY DEF DistinctPushes

LEMMA KeptStable ==
  ASSUME NEW v, Kept(v),
         \A a \in live, i \in Slots :
           buffer[a][i] = v /\ (\A u \in Threads : ~Fresh(u, a)) =>
             a \in live' /\ buffer'[a][i] = v /\ \A u \in Threads : ~Fresh(u, a)'
  PROVE  Kept(v)'
  <1>1. PICK a \in live, i \in Slots : buffer[a][i] = v /\ \A u \in Threads : ~Fresh(u, a)
    BY DEF Kept
  <1>2. a \in live' /\ buffer'[a][i] = v /\ \A u \in Threads : ~Fresh(u, a)'
    BY <1>1
  <1> QED BY <1>2 DEF Kept

LEMMA InitItems == Init => Conservation
  <1> SUFFICES ASSUME Init PROVE Conservation
    OBVIOUS
  <1>1. \A a \in Addr, i \in Slots : buffer[a][i] = EMPTY_VALUE
    BY DEF Init, NoItems
  <1>2. \A t \in Threads : my[t].item = EMPTY_VALUE /\ pc[t] = "idle"
    BY DEF Init, Blank
  <1>3. \A v \in Values : Once(v)
    BY <1>1, <1>2 DEF Once, Holds
  <1>4. DistinctPushes
    BY <1>2 DEF DistinctPushes, Pushing
  <1> QED BY <1>3, <1>4, ItemParts DEF Init

(* The steps of one thread that move no item, and finish none.             *)
LEMMA CalmItems ==
  ASSUME Conservation, NEW t \in Threads, \A u \in Threads \ {t} : pc'[u] = pc[u] /\ my'[u] = my[u],
         \A v \in Values, a \in Addr, i \in Slots : buffer'[a][i] = v => buffer[a][i] = v,
         \A v \in Values : Holds(t, v)' => Holds(t, v),
         pc'[t] \in Pushing => pc[t] \in Pushing /\ my'[t].item = my[t].item,
         \A v \in finished' : Kept(v)',
         phase' # "open" => finished' = {}
  PROVE  Conservation'
  <1>1. ASSUME NEW v \in Values PROVE Once(v)'
    <2>1. \A u \in Threads : Holds(u, v)' => Holds(u, v)
      BY DEF Holds
    <2> QED BY <2>1, ItemParts, OnceStable
  <1>2. DistinctPushes'
    BY ItemParts, PushesStable
  <1> QED BY <1>1, <1>2 DEF Conservation, Once, DistinctPushes, Kept

LEMMA FinishedStay ==
  ASSUME TypeOK, Conservation, finished' = finished, buffer' = buffer, live' = live,
         \A a \in Addr, u \in Threads : Fresh(u, a)' => Fresh(u, a)
  PROVE  \A v \in finished' : Kept(v)'
  BY ItemParts DEF Kept, TypeOK, HazardTypeOK

LEMMA QuietItems ==
  ASSUME TypeOK, Conservation, NEW t \in Threads, Quiet(t)
  PROVE  Conservation'
  <1>1. /\ \A u \in Threads \ {t} : pc'[u] = pc[u] /\ my'[u] = my[u]
        /\ UNCHANGED <<buffer, live, finished, phase>>
    BY DEF Quiet, Others
  <1>2. \A v \in Values : Holds(t, v)' => Holds(t, v)
    BY DEF Holds, Quiet, Stored
  <1>3. \A a : Fresh(t, a)' => Fresh(t, a)
    BY DEF Fresh, Quiet, Knowing
  <1>4. \A a \in Addr, u \in Threads : Fresh(u, a)' => Fresh(u, a)
    BY <1>1, <1>3 DEF Fresh
  <1>5. \A v \in finished' : Kept(v)'
    BY <1>1, <1>4, FinishedStay
  <1>6. pc'[t] \in Pushing => pc[t] \in Pushing /\ my'[t].item = my[t].item
    BY DEF Quiet
  <1>7. phase' # "open" => finished' = {}
    BY <1>1 DEF Conservation
  <1> QED BY <1>1, <1>2, <1>5, <1>6, <1>7, CalmItems

LEMMA CallPushItems ==
  ASSUME MemInv, Conservation, NEW t \in Threads, NEW v \in Values, CallPush(t, v)
  PROVE  Conservation'
  <1>0. TypeOK
    BY DEF MemInv
  <1>1. /\ pc[t] = "idle" /\ pc'[t] = "push_load" /\ my'[t].item = v
        /\ \A u \in Threads \ {t} : pc'[u] = pc[u] /\ my'[u] = my[u]
        /\ UNCHANGED <<buffer, live, finished, phase>>
    BY <1>0, MyType DEF TypeOK, Mine, CallPush, From, hazardKept, hazardVars, queueKept, node
  <1>2. /\ \A u \in Threads : my[u].item # v
        /\ \A a \in Addr, i \in Slots : buffer[a][i] # v
    BY DEF CallPush, Inside
  <1>3. ASSUME NEW w \in Values PROVE Once(w)'
    <2>1. CASE w = v
      BY <2>1, <1>1, <1>2 DEF Once, Holds
    <2>2. CASE w # v
      <3>1. \A u \in Threads : Holds(u, w)' => Holds(u, w)
        BY <2>2, <1>1 DEF Holds
      <3> QED BY <3>1, <1>1, ItemParts, OnceStable
    <2> QED BY <2>1, <2>2
  <1>4. DistinctPushes'
    BY <1>1, <1>2, ItemParts DEF DistinctPushes
  <1>5. \A a \in Addr, u \in Threads : Fresh(u, a)' => Fresh(u, a)
    BY <1>1 DEF Fresh
  <1>6. \A w \in finished' : Kept(w)'
    BY <1>0, <1>1, <1>5, FinishedStay
  <1> QED BY <1>1, <1>3, <1>4, <1>6 DEF Conservation, Once, DistinctPushes, Kept

(* Moves of a thread that neither stores nor takes an item. *)
LEMMA MoveItems ==
  ASSUME MemInv, Conservation, NEW t \in Threads,
         \/ PushProtect(t) \/ PushClaim(t) \/ PushSwing(t) \/ PopClaim(t) \/ PopNext(t) \/ PopSwing(t)
  PROVE  Conservation'
  <1>0. TypeOK
    BY DEF MemInv
  <1>1. /\ \A u \in Threads \ {t} : pc'[u] = pc[u] /\ my'[u] = my[u]
        /\ UNCHANGED <<buffer, live, finished, phase>>
    BY <1>0 DEF TypeOK, From, hazardKept, hazardVars, queueKept, node, history, Forget,
       PushProtect, ProtectLoad, ProtectPublish, ProtectValidate, PushClaim, PushSwing, PopClaim, PopNext, PopSwing
  <1>2. CASE PushProtect(t)
    <2>1. pc[t] \in {"push_load", "push_publish", "push_validate"} /\ my'[t].item = my[t].item
          /\ pc'[t] \in {"push_publish", "push_validate", "push_load", "push_claim"}
      BY <1>0, <1>2, MyType DEF TypeOK, Mine, From, PushProtect, ProtectLoad, ProtectPublish, ProtectValidate
    <2>2. \A v \in Values : Holds(t, v)' => Holds(t, v)
      BY <2>1 DEF Holds
    <2>3. pc[t] \in Pushing /\ my'[t].item = my[t].item
      BY <2>1 DEF Pushing
    <2>4. \A a \in Addr, u \in Threads : Fresh(u, a)' => Fresh(u, a)
      BY <1>1, <2>1 DEF Fresh
    <2> QED BY <1>0, <1>1, <2>2, <2>3, <2>4, FinishedStay, CalmItems, ItemParts
  <1>3. CASE PushClaim(t) \/ PushSwing(t)
    <2>1. pc[t] \in {"push_claim", "push_swing"} /\ my'[t].item = my[t].item /\ my'[t].node = my[t].node
          /\ \/ pc[t] = "push_claim" /\ pc'[t] \in {"push_store", "push_new"}
             \/ pc[t] = "push_swing" /\ pc'[t] \in {"push_link", "push_drop"}
      BY <1>0, <1>3, MyType DEF TypeOK, Mine, From, PushClaim, PushSwing
    <2>2. \A v \in Values : Holds(t, v)' => Holds(t, v)
      BY <2>1 DEF Holds
    <2>3. pc[t] \in Pushing /\ my'[t].item = my[t].item
      BY <2>1 DEF Pushing
    <2>4. \A a \in Addr, u \in Threads : Fresh(u, a)' => Fresh(u, a)
      BY <1>1, <2>1 DEF Fresh
    <2> QED BY <1>0, <1>1, <2>2, <2>3, <2>4, FinishedStay, CalmItems, ItemParts
  <1>4. CASE PopClaim(t) \/ PopNext(t) \/ PopSwing(t)
    <2>1. /\ pc[t] \in {"pop_claim", "pop_next", "pop_swing"}
          /\ pc'[t] \in {"pop_take", "pop_next", "popped", "pop_swing", "pop_retire", "pop_clear"}
          /\ my'[t].item = my[t].item \/ my'[t].item = EMPTY_VALUE
      BY <1>0, <1>4, MyType DEF TypeOK, Mine, From, Blank, Forget, PopClaim, PopNext, PopSwing
    <2>2. \A v \in Values : Holds(t, v)' => Holds(t, v)
      BY <2>1 DEF Holds
    <2>3. pc'[t] \notin Pushing
      BY <2>1 DEF Pushing
    <2>4. \A a \in Addr, u \in Threads : Fresh(u, a)' => Fresh(u, a)
      BY <1>1, <2>1 DEF Fresh
    <2> QED BY <1>0, <1>1, <2>2, <2>3, <2>4, FinishedStay, CalmItems, ItemParts
  <1> QED BY <1>2, <1>3, <1>4

(* The item of a push goes from the pusher to one slot. *)
LEMMA StoreOnce ==
  ASSUME NEW t \in Threads, NEW x \in Values, \A v \in Values : Once(v), Holds(t, x), ~Holds(t, x)',
         my'[t].item = my[t].item, \A u \in Threads \ {t} : pc'[u] = pc[u] /\ my'[u] = my[u],
         pc[t] \notin Stored,
         NEW a \in Addr, NEW i \in Slots,
         \A b \in Addr, j \in Slots : \A v \in Values : buffer'[b][j] = v => buffer[b][j] = v \/ (v = x /\ b = a /\ j = i)
  PROVE  \A v \in Values : Once(v)'
  <1> TAKE v \in Values
  <1>1. CASE v = x
    <2>1. \A b \in Addr, j \in Slots : buffer'[b][j] = v => b = a /\ j = i
      BY <1>1 DEF Once
    <2>2. \A u \in Threads : ~Holds(u, v)'
      BY <1>1 DEF Once, Holds
    <2> QED BY <2>1, <2>2 DEF Once
  <1>2. CASE v # x
    <2>1. \A u \in Threads : Holds(u, v)' => Holds(u, v)
      BY DEF Holds, Stored
    <2>2. \A b \in Addr, j \in Slots : buffer'[b][j] = v => buffer[b][j] = v
      BY <1>2
    <2>3. Once(v)
      OBVIOUS
    <2> QED BY <2>1, <2>2, <2>3, OnceStable
  <1> QED BY <1>1, <1>2

LEMMA PushStoreItems ==
  ASSUME MemInv, SlotInv, Conservation, NEW t \in Threads, PushStore(t),
         buffer[my[t].end][my[t].idx] = EMPTY_VALUE
  PROVE  Conservation'
  <1> DEFINE a == my[t].end
             i == my[t].idx
  <1>0. TypeOK /\ UseInv(t) /\ NodeInv(t)
    BY DEF MemInv, SlotInv
  <1>x. PICK x \in Values : x = my[t].item
    BY <1>0 DEF PushStore, From, NodeInv, Pushing
  <1>1. /\ pc[t] = "push_store" /\ pc'[t] = "pushed" /\ my' = my
        /\ buffer' = [buffer EXCEPT ![a][i] = my[t].item]
        /\ \A u \in Threads \ {t} : pc'[u] = pc[u]
        /\ UNCHANGED <<live, finished, phase>>
    BY <1>0 DEF TypeOK, PushStore, From, hazardKept, hazardVars, queueKept, history
  <1>2. /\ a \in Addr /\ i \in Slots /\ buffer[a][i] = EMPTY_VALUE
        /\ buffer \in [Addr -> [Slots -> Cells]]
    BY <1>0, <1>1, UsedSlots, NodeTypes DEF UseInv, PushEnd
  <1> HIDE DEF a, i
  <1>3. \A b \in Addr, j \in Slots : buffer'[b][j] = IF b = a /\ j = i THEN x ELSE buffer[b][j]
    BY <1>1, <1>2, <1>x
  <1>4. Holds(t, x) /\ ~Holds(t, x)' /\ pc[t] \notin Stored
    BY <1>1, <1>x DEF Holds, Stored
  <1>5. \A v \in Values : Once(v)'
    <2>1. \A b \in Addr, j \in Slots : \A v \in Values :
            buffer'[b][j] = v => buffer[b][j] = v \/ (v = x /\ b = a /\ j = i)
      BY <1>3
    <2>2. my'[t].item = my[t].item /\ \A u \in Threads \ {t} : pc'[u] = pc[u] /\ my'[u] = my[u]
      BY <1>1
    <2> QED BY <2>1, <2>2, <1>2, <1>4, ItemParts, StoreOnce
  <1>6. DistinctPushes'
    BY <1>1, ItemParts, PushesStable DEF Pushing
  <1>7. \A v \in finished' : Kept(v)'
    <2> TAKE v \in finished'
    <2>1. v \in Values /\ Kept(v) /\ live \subseteq Addr
      BY <1>0, <1>1, ItemParts DEF TypeOK, HazardTypeOK
    <2>2. ASSUME NEW b \in live, NEW j \in Slots, buffer[b][j] = v, \A u \in Threads : ~Fresh(u, b)
          PROVE  b \in live' /\ buffer'[b][j] = v /\ \A u \in Threads : ~Fresh(u, b)'
      <3>1. buffer'[b][j] = v
        BY <1>2, <1>3, <2>1, <2>2
      <3>2. \A u \in Threads : ~Fresh(u, b)'
        BY <2>2, <1>1 DEF Fresh
      <3> QED BY <3>1, <3>2, <1>1
    <2> QED BY <2>1, <2>2, KeptStable
  <1> QED BY <1>1, <1>5, <1>6, <1>7 DEF Conservation, Once, DistinctPushes, Kept

LEMMA PushNewItems ==
  ASSUME MemInv, SlotInv, Conservation, NEW t \in Threads, PushNew(t)
  PROVE  Conservation'
  <1>0. TypeOK /\ NodeInv(t) /\ live \subseteq Addr
    BY DEF MemInv, TypeOK, HazardTypeOK
  <1>x. PICK x \in Values : x = my[t].item
    BY <1>0 DEF PushNew, From, NodeInv, Pushing
  <1>1. PICK a \in Addr \ live :
          /\ live' = live \cup {a}
          /\ buffer' = [buffer EXCEPT ![a] = [NoItems EXCEPT ![0] = my[t].item]]
          /\ my' = [my EXCEPT ![t].node = a]
    BY DEF PushNew
  <1>2. /\ pc[t] = "push_new" /\ pc'[t] = "push_swing" /\ my'[t].item = my[t].item /\ my'[t].node = a
        /\ \A u \in Threads \ {t} : pc'[u] = pc[u] /\ my'[u] = my[u]
        /\ UNCHANGED <<finished, phase>>
    BY <1>0, <1>1, MyType DEF TypeOK, Mine, PushNew, From, queueKept, history
  <1>3. /\ \A j \in Slots : buffer'[a][j] = IF j = 0 THEN x ELSE EMPTY_VALUE
        /\ \A b \in Addr \ {a} : buffer'[b] = buffer[b]
    BY <1>0, <1>1, <1>x, SlotTypes DEF TypeOK, NoItems
  <1>4. Holds(t, x) /\ ~Holds(t, x)' /\ pc[t] \notin Stored
    BY <1>2, <1>x DEF Holds, Stored
  <1>5. \A v \in Values : Once(v)'
    <2>1. \A b \in Addr, j \in Slots : \A v \in Values :
            buffer'[b][j] = v => buffer[b][j] = v \/ (v = x /\ b = a /\ j = 0)
      BY <1>3
    <2> QED BY <2>1, <1>2, <1>4, ItemParts, SlotTypes, StoreOnce
  <1>6. DistinctPushes'
    BY <1>2, ItemParts, PushesStable DEF Pushing
  <1>7. \A v \in finished' : Kept(v)'
    <2> TAKE v \in finished'
    <2>1. Kept(v)
      BY <1>2, ItemParts
    <2>2. ASSUME NEW b \in live, NEW j \in Slots, buffer[b][j] = v, \A u \in Threads : ~Fresh(u, b)
          PROVE  b \in live' /\ buffer'[b][j] = v /\ \A u \in Threads : ~Fresh(u, b)'
      <3>1. b # a /\ b \in Addr
        BY <1>0, <1>1
      <3>2. \A u \in Threads : ~Fresh(u, b)'
        BY <2>2, <3>1, <1>2 DEF Fresh
      <3> QED BY <2>2, <3>1, <3>2, <1>1, <1>3
    <2> QED BY <2>1, <2>2, KeptStable
  <1> QED BY <1>2, <1>5, <1>6, <1>7, ItemParts DEF Conservation, Once, DistinctPushes, Kept

(* The other way round: the node is freed, and the pusher has the item.    *)
LEMMA PushDropItems ==
  ASSUME MemInv, SlotInv, Conservation, NEW t \in Threads, PushDrop(t)
  PROVE  Conservation'
  <1> DEFINE m == my[t].node
  <1>0. TypeOK /\ NodeInv(t) /\ UseInv(t) /\ live \subseteq Addr
    BY DEF MemInv, SlotInv, TypeOK, HazardTypeOK
  <1>x. PICK x \in Values : x = my[t].item
    BY <1>0 DEF PushDrop, From, NodeInv, Pushing
  <1>1. /\ pc[t] = "push_drop" /\ pc'[t] = "push_load" /\ my'[t].item = my[t].item
        /\ \A u \in Threads \ {t} : pc'[u] = pc[u] /\ my'[u] = my[u]
        /\ live' = live \ {m} /\ Erase
        /\ UNCHANGED <<finished, phase>>
    BY <1>0, MyType DEF TypeOK, Mine, Blank, PushDrop, From, Again, queueKept, history
  <1>2. m \in Addr /\ m \in live /\ Fresh(t, m)
    BY <1>1, FreshNode
  <1>3. buffer[m][0] = x /\ 0 \in Slots
    BY <1>0, <1>1, <1>x, SlotTypes DEF UseInv, NoItems
  <1> HIDE DEF m
  <1>4. buffer'[m] = NoItems /\ \A b \in Addr \ {m} : buffer'[b] = buffer[b]
    BY <1>0, <1>1, <1>2, Erased
  <1>5. \A b \in Addr, j \in Slots : \A v \in Values : buffer'[b][j] = v => buffer[b][j] = v /\ b # m
    BY <1>4 DEF NoItems
  <1>6. ASSUME NEW v \in Values PROVE Once(v)'
    <2>0. Once(v)
      BY ItemParts
    <2>1. CASE v = x
      <3>1. \A b \in Addr, j \in Slots : buffer'[b][j] # v
        BY <2>0, <2>1, <1>2, <1>3, <1>5 DEF Once
      <3>2. \A u \in Threads \ {t} : ~Holds(u, v)'
        BY <2>0, <2>1, <1>1, <1>2, <1>3 DEF Once, Holds
      <3> QED BY <3>1, <3>2 DEF Once
    <2>2. CASE v # x
      <3>1. \A u \in Threads : Holds(u, v)' => Holds(u, v)
        BY <2>2, <1>1, <1>x DEF Holds
      <3> QED BY <2>0, <3>1, <1>5, OnceStable
    <2> QED BY <2>1, <2>2
  <1>7. DistinctPushes'
    BY <1>1, ItemParts, PushesStable DEF Pushing
  <1>8. \A v \in finished' : Kept(v)'
    <2> TAKE v \in finished'
    <2>1. Kept(v)
      BY <1>1, ItemParts
    <2>2. ASSUME NEW b \in live, NEW j \in Slots, buffer[b][j] = v, \A u \in Threads : ~Fresh(u, b)
          PROVE  b \in live' /\ buffer'[b][j] = v /\ \A u \in Threads : ~Fresh(u, b)'
      <3>1. b # m /\ b \in Addr
        BY <1>0, <1>2, <2>2
      <3>2. \A u \in Threads : ~Fresh(u, b)'
        BY <2>2, <1>1 DEF Fresh
      <3> QED BY <2>2, <3>1, <3>2, <1>1, <1>4
    <2> QED BY <2>1, <2>2, KeptStable
  <1> QED BY <1>1, <1>6, <1>7, <1>8, ItemParts DEF Conservation, Once, DistinctPushes, Kept

(* A pop takes the item out of its slot.                                   *)
LEMMA PopTakeItems ==
  ASSUME MemInv, SlotInv, Conservation, NEW t \in Threads, PopTake(t)
  PROVE  Conservation'
  <1> DEFINE a == my[t].end
             i == my[t].idx
  <1>0. TypeOK /\ UseInv(t) /\ phase = "open"
    BY ChainFacts DEF MemInv, SlotInv, PopTake, From
  <1>1. /\ pc[t] = "pop_take" /\ pc'[t] \in {"pop_clear", "popped"}
        /\ \A u \in Threads \ {t} : pc'[u] = pc[u] /\ my'[u] = my[u]
        /\ buffer' = [buffer EXCEPT ![a][i] = TAKEN_VALUE]
        /\ UNCHANGED <<live, phase>>
    BY <1>0 DEF TypeOK, PopTake, From, Forget, hazardKept, hazardVars, queueKept
  <1>2. /\ my'[t].item = buffer[a][i]
        /\ \/ buffer[a][i] = EMPTY_VALUE /\ finished' = finished
           \/ buffer[a][i] # EMPTY_VALUE /\ finished' = finished \ {buffer[a][i]}
    <2>1. \/ /\ buffer[a][i] = EMPTY_VALUE
             /\ my' = [my EXCEPT ![t] = Blank] /\ UNCHANGED history
          \/ /\ buffer[a][i] # EMPTY_VALUE
             /\ my' = [my EXCEPT ![t] = [Blank EXCEPT !.item = buffer[a][i]]] /\ Taken(buffer[a][i])
      BY DEF PopTake, Forget
    <2>2. my'[t].item = buffer[a][i]
      BY <2>1, <1>0 DEF TypeOK, Blank
    <2> QED BY <2>1, <2>2 DEF Taken, history
  <1>3. /\ a \in Addr /\ i \in Slots /\ buffer \in [Addr -> [Slots -> Cells]]
    BY <1>0, <1>1, UsedSlots, NodeTypes DEF UseInv, PopEnd
  <1> HIDE DEF a, i
  <1>4. \A b \in Addr, j \in Slots : buffer'[b][j] = IF b = a /\ j = i THEN TAKEN_VALUE ELSE buffer[b][j]
    BY <1>1, <1>3
  <1>5. ASSUME NEW v \in Values PROVE Once(v)'
    <2>0. Once(v)
      BY ItemParts
    <2>1. CASE v = buffer[a][i]
      <3>1. \A b \in Addr, j \in Slots : buffer'[b][j] # v
        BY <2>0, <2>1, <1>3, <1>4 DEF Once
      <3>2. \A u \in Threads \ {t} : ~Holds(u, v)'
        BY <2>0, <2>1, <1>1, <1>3 DEF Once, Holds
      <3> QED BY <3>1, <3>2 DEF Once
    <2>2. CASE v # buffer[a][i]
      <3>1. \A u \in Threads : Holds(u, v)' => Holds(u, v)
        BY <2>2, <1>1, <1>2 DEF Holds
      <3>2. \A b \in Addr, j \in Slots : buffer'[b][j] = v => buffer[b][j] = v
        BY <1>4
      <3> QED BY <2>0, <3>1, <3>2, OnceStable
    <2> QED BY <2>1, <2>2
  <1>6. DistinctPushes'
    BY <1>1, ItemParts, PushesStable DEF Pushing
  <1>7. \A v \in finished' : Kept(v)'
    <2> TAKE v \in finished'
    <2>1. v \in Values /\ v # buffer[a][i] /\ Kept(v) /\ live \subseteq Addr
      BY <1>0, <1>2, ItemParts DEF TypeOK, HazardTypeOK
    <2>2. ASSUME NEW b \in live, NEW j \in Slots, buffer[b][j] = v, \A u \in Threads : ~Fresh(u, b)
          PROVE  b \in live' /\ buffer'[b][j] = v /\ \A u \in Threads : ~Fresh(u, b)'
      <3>1. buffer'[b][j] = v
        BY <1>4, <2>1, <2>2
      <3>2. \A u \in Threads : ~Fresh(u, b)'
        BY <2>2, <1>1 DEF Fresh
      <3> QED BY <3>1, <3>2, <1>1
    <2> QED BY <2>1, <2>2, KeptStable
  <1> QED BY <1>0, <1>1, <1>5, <1>6, <1>7 DEF Conservation, Once, DistinctPushes, Kept

(* A push returns: its item is still in a slot, which is not in a new node  *)
(* of another push, or has been taken.                                     *)
LEMMA PushReturnItems ==
  ASSUME MemInv, SlotInv, Conservation, NEW t \in Threads, PushReturn(t)
  PROVE  Conservation'
  <1>0. TypeOK /\ NodeInv(t) /\ phase = "open" /\ live \subseteq Addr
    BY ChainFacts DEF MemInv, TypeOK, HazardTypeOK, PushReturn, From
  <1>1. /\ pc[t] = "pushed" /\ pc'[t] = "idle" /\ my'[t].item = EMPTY_VALUE
        /\ \A u \in Threads \ {t} : pc'[u] = pc[u] /\ my'[u] = my[u]
        /\ UNCHANGED <<live, buffer, phase>>
        /\ finished' = finished \cup ({my[t].item} \cap {buffer[a][s] : a \in live, s \in Slots})
    BY <1>0 DEF TypeOK, PushReturn, From, Forget, Blank, queueKept, node
  <1>2. \A v \in Values : Holds(t, v)' => Holds(t, v)
    BY <1>1 DEF Holds
  <1>3. pc'[t] \notin Pushing
    BY <1>1 DEF Pushing
  <1>4. \A b \in Addr, u \in Threads : Fresh(u, b)' => Fresh(u, b)
    BY <1>1 DEF Fresh
  <1>5. \A v \in finished' : Kept(v)'
    <2> TAKE v \in finished'
    <2>1. CASE v \in finished
      <3>1. Kept(v)
        BY <2>1, ItemParts
      <3> QED BY <3>1, <1>0, <1>1, <1>4 DEF Kept
    <2>2. CASE v = my[t].item /\ v \notin finished
      <3>1. PICK a \in live, i \in Slots : buffer[a][i] = v
        BY <2>2, <1>1
      <3>2. v \in Values
        BY <2>2, <1>0, <1>1 DEF NodeInv, Pushing
      <3>3. ASSUME NEW u \in Threads, Fresh(u, a) PROVE FALSE
        <4>1. u # t /\ pc[u] \in Pushing /\ pc[t] \in Pushing
          BY <3>3, <1>1 DEF Fresh, Pushing
        <4>2. UseInv(u)
          BY DEF SlotInv
        <4>3. buffer[a] = [NoItems EXCEPT ![0] = my[u].item]
          BY <3>3, <4>2 DEF Fresh, UseInv
        <4>4. my[u].item = v
          BY <3>1, <3>2, <4>3 DEF NoItems
        <4> QED BY <2>2, <4>1, <4>4, ItemParts DEF DistinctPushes
      <3> QED BY <3>1, <3>3, <1>0, <1>1, <1>4 DEF Kept
    <2> QED BY <2>1, <2>2, <1>1
  <1> QED BY <1>0, <1>1, <1>2, <1>3, <1>5, CalmItems

(* A freed node holds no item: all its slots are used up, and a pop that   *)
(* had claimed one would keep the node by its pointer.                     *)
LEMMA ScanFreeEmpty ==
  ASSUME MemInv, SlotInv, NEW t \in Threads, ScanFree(t)
  PROVE  \A i \in Slots : buffer[Suspect(t)][i] = TAKEN_VALUE
  <1> TAKE i \in Slots
  <1> DEFINE s == Suspect(t)
  <1>1. Scanning(t) /\ scan[t].unread = {} /\ s \in Addr /\ On(t, s)
    BY SuspectIsRetired DEF ScanFree
  <1> HIDE DEF s
  <1>2. ~Claims(s, i)
    <2> SUFFICES ASSUME NEW u \in Threads, pc[u] = "pop_take", my[u].end = s PROVE FALSE
      BY DEF Claims
    <2>1. u \in scan[t].unread
      BY <1>1, Shielded DEF PopEnd, s
    <2> QED BY <2>1, <1>1
  <1>3. pop_idx[s] >= BUFFER_SIZE /\ pop_idx[s] \in Nat
    BY <1>1 DEF SlotInv, UseInv, MemInv, TypeOK
  <1>4. ~(i >= pop_idx[s])
    BY <1>3, SlotTypes
  <1>5. buffer[s][i] = TAKEN_VALUE
    BY <1>1, <1>2, <1>4 DEF SlotInv
  <1> QED BY <1>5 DEF s

LEMMA ScanFreeItems ==
  ASSUME MemInv, SlotInv, Conservation, NEW t \in Threads,
         ScanFree(t), Erase, UNCHANGED <<pc, my, history>>, queueKept
  PROVE  Conservation'
  <1>0. TypeOK /\ live \subseteq Addr
    BY DEF MemInv, TypeOK, HazardTypeOK
  <1>1. live' = live \ {Suspect(t)} /\ UNCHANGED <<finished, phase, pc, my>>
    BY DEF ScanFree, queueKept, history
  <1>2. \A i \in Slots : buffer[Suspect(t)][i] = TAKEN_VALUE
    BY ScanFreeEmpty
  <1>3. \A b \in Addr : buffer'[b] = buffer[b] \/ buffer'[b] = NoItems
    BY <1>0, Erased
  <1>4. \A v \in Values, b \in Addr, j \in Slots : buffer'[b][j] = v => buffer[b][j] = v
    BY <1>3 DEF NoItems
  <1>5. \A v \in Values : Holds(t, v)' => Holds(t, v)
    BY <1>1 DEF Holds
  <1>6. \A v \in finished' : Kept(v)'
    <2> TAKE v \in finished'
    <2>1. v \in Values /\ Kept(v)
      BY <1>0, <1>1, ItemParts DEF TypeOK
    <2>2. ASSUME NEW b \in live, NEW j \in Slots, buffer[b][j] = v, \A u \in Threads : ~Fresh(u, b)
          PROVE  b \in live' /\ buffer'[b][j] = v /\ \A u \in Threads : ~Fresh(u, b)'
      <3>1. b # Suspect(t) /\ b \in Addr /\ b \notin live \ live'
        BY <1>0, <1>1, <1>2, <2>1, <2>2
      <3>2. \A u \in Threads : ~Fresh(u, b)'
        BY <2>2, <1>1 DEF Fresh
      <3> QED BY <2>2, <3>1, <3>2, <1>0, <1>1, Erased
    <2> QED BY <2>1, <2>2, KeptStable
  <1> QED BY <1>1, <1>4, <1>5, <1>6, CalmItems, ItemParts

(* Nothing is finished while the queue is deleted. *)
LEMMA DeleteItems ==
  ASSUME MemInv, Conservation, DeleteStart \/ DeleteNode \/ DeleteFinish \/ New
  PROVE  Conservation'
  <1>0. TypeOK
    BY DEF MemInv
  <1>1. finished' = {} /\ UNCHANGED <<pc, my>>
    BY DEF Conservation, DeleteStart, DeleteNode, DeleteFinish, New, history
  <1>2. \A b \in Addr : buffer'[b] = buffer[b] \/ buffer'[b] = NoItems
    <2>1. CASE DeleteStart \/ New
      BY <2>1 DEF DeleteStart, New, node
    <2>2. CASE DeleteNode \/ DeleteFinish
      BY <2>2, <1>0, Erased DEF DeleteNode, DeleteFinish
    <2> QED BY <2>1, <2>2
  <1>3. \A v \in Values, b \in Addr, j \in Slots : buffer'[b][j] = v => buffer[b][j] = v
    BY <1>2 DEF NoItems
  <1>4. ASSUME NEW v \in Values PROVE Once(v)'
    <2>1. \A u \in Threads : Holds(u, v)' => Holds(u, v)
      BY <1>1 DEF Holds
    <2> QED BY <2>1, <1>3, ItemParts, OnceStable
  <1>5. DistinctPushes'
    BY <1>1, ItemParts DEF DistinctPushes
  <1> QED BY <1>1, <1>4, <1>5 DEF Conservation, Once, DistinctPushes

LEMMA StutterItems ==
  ASSUME Conservation, UNCHANGED vars
  PROVE  Conservation'
  BY DEF Conservation, vars, hazardVars, node, history, Holds, Fresh

LEMMA NextItems == MemInv /\ SlotInv /\ Conservation /\ [Next]_vars => Conservation'
  <1> SUFFICES ASSUME MemInv, SlotInv, Conservation, [Next]_vars PROVE Conservation'
    OBVIOUS
  <1>0. TypeOK
    BY DEF MemInv
  <1>1. ASSUME NEW t \in Threads, Quiet(t) PROVE Conservation'
    BY <1>0, <1>1, QuietItems
  <1>2. ASSUME NEW t \in Threads, Invoke(t) \/ PushNoMemory(t) PROVE Conservation'
    BY <1>1, <1>2, QuietSteps, CallPushItems DEF Invoke
  <1>3. ASSUME NEW t \in Threads, PushProtect(t) \/ PushClaim(t) \/ PushStore(t) \/ PushNew(t) \/ PushSwing(t)
                                  \/ PushLink(t) \/ PushDrop(t) \/ PushReturn(t)
        PROVE  Conservation'
    BY <1>1, <1>3, QuietSteps, MoveItems, PushStoreItems, PushNewItems, PushDropItems, PushReturnItems
  <1>4. ASSUME NEW t \in Threads, PopProtect(t) \/ PopClaim(t) \/ PopTake(t) \/ PopNext(t) \/ PopSwing(t)
                                  \/ PopRetire(t) \/ PopScan(t) \/ PopScanDone(t) \/ PopClear(t) \/ PopReturn(t)
        PROVE  Conservation'
    <2>1. CASE PopScan(t)
      BY <1>0, <1>1, <2>1, PopScanCases, ScanFreeItems
    <2> QED BY <1>1, <1>4, <2>1, QuietSteps, MoveItems, PopTakeItems
  <1>5. ASSUME NEW t \in Threads, IsEmptyProtect(t) \/ IsEmptyPushIdx(t) \/ IsEmptyPopIdx(t) \/ IsEmptyNext(t)
                                  \/ IsEmptyReturn(t)
        PROVE  Conservation'
    BY <1>1, <1>5, QuietSteps
  <1>6. ASSUME NEW t \in Threads, Step(t) PROVE Conservation'
    BY <1>3, <1>4, <1>5, <1>6 DEF Step, Return
  <1> QED BY <1>2, <1>6, DeleteItems, StutterItems DEF Next

-----------------------------------------------------------------------------
(* What is_empty was asked about.                                          *)

EmptyPlaces == {"empty_load", "empty_publish", "empty_validate", "was_empty", "was_not_empty"} \cup EmptyEnd

LEMMA AskStable ==
  ASSUME TypeOK, NEW u \in Threads, AskInv(u), pc'[u] = pc[u], my'[u] = my[u],
         asked'[u] \subseteq asked[u], asked'[u] \subseteq finished',
         pc[u] \in {"empty_pop_idx", "empty_next"} =>
           /\ \A v \in asked'[u], j \in Slots : buffer'[my[u].end][j] = v => buffer[my[u].end][j] = v
           /\ my[u].end \in Addr
           /\ pop_idx'[my[u].end] \in Nat /\ pop_idx'[my[u].end] >= pop_idx[my[u].end]
  PROVE  AskInv(u)'
  <1>1. my[u].idx \in Nat /\ \A a \in Addr : pop_idx[a] \in Nat
    BY MyType DEF TypeOK
  <1>2. asked'[u] # {} => pc'[u] \in EmptyPlaces
    BY DEF AskInv, EmptyPlaces
  <1>3. pc'[u] \in {"empty_pop_idx", "empty_next"} =>
          \A v \in asked'[u], j \in Slots : buffer'[my'[u].end][j] = v => j < my'[u].idx
    BY DEF AskInv
  <1>4. pc'[u] = "empty_next" => my'[u].idx <= pop_idx'[my'[u].end]
    BY <1>1 DEF AskInv
  <1> QED BY <1>2, <1>3, <1>4 DEF AskInv, EmptyPlaces

(* Nobody who pushes or pops has asked. *)
LEMMA AskNothing ==
  ASSUME NEW t \in Threads, AskInv(t), pc[t] \notin EmptyPlaces, asked'[t] \subseteq asked[t],
         pc'[t] # "empty_next"
  PROVE  AskInv(t)'
  <1>1. asked'[t] = {}
    BY DEF AskInv, EmptyPlaces
  <1> QED BY <1>1 DEF AskInv

LEMMA InitAsked == Init => AskedInv
  BY DEF Init, AskedInv, AskInv

LEMMA CalmAsked ==
  ASSUME MemInv, AskedInv, TypeOK', NEW t \in Threads, AskInv(t)',
         \A u \in Threads \ {t} : pc'[u] = pc[u] /\ my'[u] = my[u],
         \A u \in Threads \ {t} : asked'[u] \subseteq asked[u] /\ asked'[u] \subseteq finished',
         \A a \in Addr : a \in live /\ (\A w \in Threads : ~Fresh(w, a)) /\
                         (\E u \in Threads : Shields(u, a)) =>
           /\ pop_idx'[a] >= pop_idx[a]
           /\ \A v \in finished', j \in Slots : buffer'[a][j] = v => buffer[a][j] = v
  PROVE  AskedInv'
  <1> SUFFICES ASSUME NEW u \in Threads \ {t} PROVE AskInv(u)'
    BY DEF AskedInv
  <1>1. TypeOK /\ AskInv(u)
    BY DEF MemInv, AskedInv
  <1>2. ASSUME pc[u] \in {"empty_pop_idx", "empty_next"}
        PROVE  /\ \A v \in asked'[u], j \in Slots : buffer'[my[u].end][j] = v => buffer[my[u].end][j] = v
               /\ my[u].end \in Addr
               /\ pop_idx'[my[u].end] \in Nat /\ pop_idx'[my[u].end] >= pop_idx[my[u].end]
    <2>1. my[u].end \in Addr /\ my[u].end \in live /\ \A w \in Threads : ~Fresh(w, my[u].end)
      BY <1>2, Shielded DEF EmptyEnd
    <2>2. Shields(u, my[u].end)
      BY <1>2 DEF Shields, EmptyEnd
    <2>3. /\ pop_idx'[my[u].end] >= pop_idx[my[u].end]
          /\ \A v \in finished', j \in Slots : buffer'[my[u].end][j] = v => buffer[my[u].end][j] = v
      BY <2>1, <2>2
    <2>4. pop_idx'[my[u].end] \in Nat
      BY <2>1 DEF TypeOK
    <2> QED BY <2>1, <2>3, <2>4
  <1> QED BY <1>1, <1>2, AskStable

LEMMA StillAsked ==
  ASSUME MemInv, AskedInv, TypeOK', NEW t \in Threads, AskInv(t)',
         \A u \in Threads \ {t} : pc'[u] = pc[u] /\ my'[u] = my[u],
         finished \subseteq finished', buffer' = buffer,
         \A u \in Threads \ {t} : asked'[u] = asked[u],
         \A a \in Addr : pop_idx'[a] >= pop_idx[a]
  PROVE  AskedInv'
  <1>1. \A u \in Threads \ {t} : asked'[u] \subseteq asked[u] /\ asked'[u] \subseteq finished'
    BY DEF AskedInv, AskInv
  <1> QED BY <1>1, CalmAsked

LEMMA SamePops ==
  ASSUME TypeOK, pop_idx' = pop_idx
  PROVE  \A a \in Addr : pop_idx'[a] >= pop_idx[a]
  BY DEF TypeOK

LEMMA QuietAsked ==
  ASSUME MemInv, AskedInv, TypeOK', NEW t \in Threads, AskInv(t)', Quiet(t)
  PROVE  AskedInv'
  <1>1. /\ \A u \in Threads \ {t} : pc'[u] = pc[u] /\ my'[u] = my[u] /\ asked'[u] = asked[u]
        /\ UNCHANGED <<buffer, pop_idx, finished>> /\ TypeOK
    BY DEF Quiet, Others, MemInv
  <1> QED BY <1>1, SamePops, StillAsked

(* The steps of push and pop, as far as the thread itself is concerned.    *)
LEMMA PushAsks ==
  ASSUME TypeOK, AskedInv, NEW t \in Threads,
         \/ \E v \in Values : CallPush(t, v)
         \/ PushNoMemory(t) \/ PushProtect(t) \/ PushClaim(t) \/ PushStore(t) \/ PushNew(t)
         \/ PushSwing(t) \/ PushLink(t) \/ PushDrop(t) \/ PushReturn(t)
  PROVE  AskInv(t)'
  <1> USE DEF TypeOK, From, history, EmptyPlaces, EmptyEnd
  <1>1. AskInv(t)
    BY DEF AskedInv
  <1>2. CASE (\E v \in Values : CallPush(t, v)) \/ PushNoMemory(t) \/ PushClaim(t) \/ PushStore(t)
    BY <1>1, <1>2, AskNothing DEF CallPush, PushNoMemory, PushClaim, PushStore
  <1>3. CASE PushProtect(t)
    BY <1>1, <1>3, AskNothing DEF PushProtect, ProtectLoad, ProtectPublish, ProtectValidate
  <1>4. CASE PushNew(t) \/ PushDrop(t) \/ PushReturn(t)
    <2>1. /\ pc[t] \in {"push_new", "push_drop", "pushed"}
          /\ pc'[t] \in {"push_swing", "push_load", "idle"}
          /\ asked' = asked
      BY <1>4 DEF PushNew, PushDrop, PushReturn
    <2> QED BY <1>1, <2>1, AskNothing
  <1>5. CASE PushSwing(t) \/ PushLink(t)
    BY <1>1, <1>5, AskNothing DEF PushSwing, PushLink
  <1> QED BY <1>2, <1>3, <1>4, <1>5

LEMMA PopAsks ==
  ASSUME TypeOK, AskedInv, NEW t \in Threads,
         \/ CallPop(t) \/ PopProtect(t) \/ PopClaim(t) \/ PopTake(t) \/ PopNext(t) \/ PopSwing(t)
         \/ PopRetire(t) \/ PopScan(t) \/ PopScanDone(t) \/ PopClear(t) \/ PopReturn(t)
  PROVE  AskInv(t)'
  <1> USE DEF TypeOK, From, history, EmptyPlaces, EmptyEnd
  <1>1. AskInv(t)
    BY DEF AskedInv
  <1>2. CASE CallPop(t) \/ PopClaim(t) \/ PopNext(t)
    BY <1>1, <1>2, AskNothing DEF CallPop, PopClaim, PopNext
  <1>5. CASE PopTake(t)
    <2>1. pc[t] = "pop_take" /\ pc'[t] # "empty_next"
      BY <1>5 DEF PopTake
    <2>2. asked'[t] \subseteq asked[t]
      <3>1. asked' = asked \/ \E v : Taken(v)
        BY <1>5 DEF PopTake
      <3>2. ASSUME NEW v, Taken(v) PROVE asked'[t] = asked[t] \ {v}
        BY <3>2 DEF Taken
      <3> QED BY <3>1, <3>2
    <2> QED BY <1>1, <2>1, <2>2, AskNothing
  <1>6. CASE PopSwing(t)
    BY <1>1, <1>6, AskNothing DEF PopSwing
  <1>3. CASE PopProtect(t)
    BY <1>1, <1>3, AskNothing DEF PopProtect, ProtectLoad, ProtectPublish, ProtectValidate
  <1>4. CASE PopRetire(t) \/ PopScan(t) \/ PopScanDone(t) \/ PopClear(t) \/ PopReturn(t)
    BY <1>1, <1>4, AskNothing DEF PopRetire, PopScan, PopScanDone, PopClear, PopReturn
  <1> QED BY <1>2, <1>3, <1>4, <1>5, <1>6

LEMMA EmptyAsks ==
  ASSUME MemInv, SlotInv, AskedInv, NEW t \in Threads,
         \/ CallIsEmpty(t) \/ IsEmptyProtect(t) \/ IsEmptyPushIdx(t) \/ IsEmptyPopIdx(t)
         \/ IsEmptyNext(t) \/ IsEmptyReturn(t)
  PROVE  AskInv(t)'
  <1> USE DEF From, history, EmptyEnd
  <1>1. AskInv(t) /\ TypeOK /\ finished \subseteq Values
    BY DEF AskedInv, MemInv, TypeOK
  <1>2. CASE CallIsEmpty(t)
    <2>1. asked'[t] = finished /\ finished' = finished /\ pc'[t] = "empty_load"
      BY <1>1, <1>2 DEF CallIsEmpty, TypeOK
    <2> QED BY <2>1 DEF AskInv
  <1>3. CASE IsEmptyProtect(t) \/ IsEmptyNext(t)
    <2>1. /\ asked'[t] = asked[t] /\ finished' = finished
          /\ pc'[t] \in {"empty_publish", "empty_validate", "empty_load", "empty_push_idx", "was_empty", "was_not_empty"}
      BY <1>1, <1>3 DEF IsEmptyProtect, ProtectLoad, ProtectPublish, ProtectValidate, IsEmptyNext, TypeOK
    <2> QED BY <1>1, <2>1 DEF AskInv
  <1>4. CASE IsEmptyPushIdx(t)
    <2>1. /\ asked'[t] = asked[t] /\ finished' = finished /\ pc'[t] = "empty_pop_idx"
          /\ pc[t] = "empty_push_idx" /\ my[t].end \in Addr
          /\ my'[t].end = my[t].end /\ my'[t].idx = push_idx[my[t].end] /\ buffer' = buffer
      BY <1>1, <1>4, MyType, UsedSlots DEF IsEmptyPushIdx, TypeOK, Mine, node
    <2>2. \A v \in asked[t], j \in Slots : buffer[my[t].end][j] = v => j < push_idx[my[t].end]
      BY <1>1, <2>1 DEF SlotInv, AskInv
    <2> QED BY <1>1, <2>1, <2>2 DEF AskInv
  <1>5. CASE IsEmptyPopIdx(t)
    <2>1. /\ asked'[t] = asked[t] /\ finished' = finished /\ pc'[t] \in {"empty_next", "was_not_empty"}
          /\ pc'[t] = "empty_next" => my[t].idx = pop_idx[my[t].end]
          /\ pc[t] = "empty_pop_idx" /\ my' = my /\ buffer' = buffer /\ pop_idx' = pop_idx
      BY <1>1, <1>5 DEF IsEmptyPopIdx, TypeOK, node
    <2>2. my[t].idx \in Nat
      BY <1>1, MyType
    <2> QED BY <1>1, <2>1, <2>2 DEF AskInv
  <1>6. CASE IsEmptyReturn(t)
    <2>1. asked'[t] = {} /\ pc'[t] = "idle"
      BY <1>1, <1>6 DEF IsEmptyReturn, TypeOK
    <2> QED BY <2>1 DEF AskInv
  <1> QED BY <1>2, <1>3, <1>4, <1>5, <1>6

LEMMA RestingAsked ==
  ASSUME MemInv, AskedInv, TypeOK', NEW t \in Threads, AskInv(t)',
         \/ \E v \in Values : CallPush(t, v)
         \/ PushProtect(t) \/ PushClaim(t) \/ PushSwing(t) \/ PushReturn(t)
         \/ PopNext(t) \/ PopSwing(t)
  PROVE  AskedInv'
  <1> USE DEF From, Forget, hazardKept, hazardVars, queueKept, node, history
  <1>0. TypeOK
    BY DEF MemInv
  <1>1. \A u \in Threads \ {t} : pc'[u] = pc[u] /\ my'[u] = my[u] /\ asked'[u] = asked[u]
    <2>1. CASE (\E v \in Values : CallPush(t, v)) \/ PushClaim(t) \/ PushSwing(t)
      BY <1>0, <2>1 DEF TypeOK, CallPush, PushClaim, PushSwing
    <2>2. CASE PushProtect(t)
      BY <1>0, <2>2 DEF TypeOK, PushProtect, ProtectLoad, ProtectPublish, ProtectValidate
    <2>3. CASE PushReturn(t) \/ PopNext(t) \/ PopSwing(t)
      BY <1>0, <2>3 DEF TypeOK, PushReturn, PopNext, PopSwing
    <2> QED BY <2>1, <2>2, <2>3
  <1>2. finished \subseteq finished' /\ UNCHANGED <<buffer, pop_idx>>
    BY DEF CallPush, PushProtect, ProtectLoad, ProtectPublish, ProtectValidate, PushClaim, PushSwing,
       PushReturn, PopNext, PopSwing
  <1> QED BY <1>0, <1>1, <1>2, SamePops, StillAsked

LEMMA PopClaimAsked ==
  ASSUME MemInv, AskedInv, TypeOK', NEW t \in Threads, AskInv(t)', PopClaim(t)
  PROVE  AskedInv'
  <1>0. TypeOK
    BY DEF MemInv
  <1>1. /\ \A u \in Threads \ {t} : pc'[u] = pc[u] /\ my'[u] = my[u] /\ asked'[u] = asked[u]
        /\ finished' = finished /\ buffer' = buffer
        /\ pc[t] = "pop_claim" /\ pop_idx' = [pop_idx EXCEPT ![my[t].end] = pop_idx[my[t].end] + 1]
    BY <1>0 DEF TypeOK, PopClaim, From, history
  <1>2. my[t].end \in Addr
    BY <1>1, UsedSlots DEF PopEnd
  <1>3. \A a \in Addr : pop_idx'[a] >= pop_idx[a]
    BY <1>0, <1>1, <1>2 DEF TypeOK
  <1> QED BY <1>1, <1>3, StillAsked

LEMMA PushStoreAsked ==
  ASSUME MemInv, SlotInv, Conservation, AskedInv, TypeOK', NEW t \in Threads, AskInv(t)', PushStore(t),
         buffer[my[t].end][my[t].idx] = EMPTY_VALUE
  PROVE  AskedInv'
  <1>0. TypeOK /\ UseInv(t) /\ NodeInv(t)
    BY DEF MemInv, SlotInv
  <1>x. PICK x \in Values : x = my[t].item
    BY <1>0 DEF PushStore, From, NodeInv, Pushing
  <1>1. /\ \A u \in Threads \ {t} : pc'[u] = pc[u] /\ my'[u] = my[u] /\ asked'[u] = asked[u]
        /\ finished' = finished /\ pop_idx' = pop_idx /\ pc[t] = "push_store"
        /\ buffer' = [buffer EXCEPT ![my[t].end][my[t].idx] = x]
    BY <1>0, <1>x DEF TypeOK, PushStore, From, history
  <1>2. my[t].end \in Addr /\ my[t].idx \in Slots
    BY <1>0, <1>1, UsedSlots DEF UseInv, PushEnd
  <1>3. x \notin finished
    <2>1. Holds(t, x)
      BY <1>1, <1>x DEF Holds
    <2>2. live \subseteq Addr
      BY <1>0 DEF TypeOK, HazardTypeOK
    <2> QED BY <2>1, <2>2, ItemParts DEF Once, Kept
  <1>4. \A v \in finished', a \in Addr, j \in Slots : buffer'[a][j] = v => buffer[a][j] = v
    BY <1>0, <1>1, <1>2, <1>3 DEF TypeOK
  <1>5. \A u \in Threads \ {t} : asked'[u] \subseteq asked[u] /\ asked'[u] \subseteq finished'
    BY <1>1 DEF AskedInv, AskInv
  <1> QED BY <1>0, <1>1, <1>4, <1>5, SamePops, CalmAsked

LEMMA PushNewAsked ==
  ASSUME MemInv, AskedInv, TypeOK', NEW t \in Threads, AskInv(t)', PushNew(t)
  PROVE  AskedInv'
  <1>0. TypeOK
    BY DEF MemInv
  <1>1. /\ \A u \in Threads \ {t} : pc'[u] = pc[u] /\ my'[u] = my[u] /\ asked'[u] = asked[u]
        /\ finished' = finished
        /\ \A a \in Addr : a \in live => buffer'[a] = buffer[a] /\ pop_idx'[a] = pop_idx[a]
    BY <1>0 DEF TypeOK, PushNew, From, history
  <1>2. \A a \in Addr : a \in live => buffer'[a] = buffer[a] /\ pop_idx'[a] >= pop_idx[a]
    BY <1>0, <1>1 DEF TypeOK
  <1>3. \A u \in Threads \ {t} : asked'[u] \subseteq asked[u] /\ asked'[u] \subseteq finished'
    BY <1>1 DEF AskedInv, AskInv
  <1> QED BY <1>1, <1>2, <1>3, CalmAsked

LEMMA ErasedAsked ==
  ASSUME MemInv, MemInv', AskedInv, NEW t \in Threads, AskInv(t)',
         PushDrop(t) \/ (PopScan(t) /\ ScanFree(t))
  PROVE  AskedInv'
  <1>0. TypeOK /\ TypeOK'
    BY DEF MemInv
  <1>1. /\ \A u \in Threads \ {t} : pc'[u] = pc[u] /\ my'[u] = my[u] /\ asked'[u] = asked[u]
        /\ finished' = finished /\ Erase
    BY <1>0 DEF TypeOK, PushDrop, PopScan, From, Again, history
  <1>2. UsedIsLive'
    BY UsedLives, PTL
  <1>3. ASSUME NEW u \in Threads \ {t}, pc[u] \in {"empty_pop_idx", "empty_next"}
        PROVE  LET a == my[u].end IN
               /\ a \in Addr /\ buffer'[a] = buffer[a] /\ pop_idx'[a] \in Nat /\ pop_idx'[a] >= pop_idx[a]
    <2>1. my[u].end \in live' /\ my[u].end \in Addr
      BY <1>1, <1>2, <1>3 DEF UsedIsLive, EmptyEnd
    <2>2. my[u].end \in Addr \ (live \ live')
      BY <2>1
    <2> QED BY <2>2, <1>0, <1>1, Erased, NodeTypes
  <1>4. ASSUME NEW u \in Threads \ {t} PROVE AskInv(u)'
    <2>1. AskInv(u)
      BY DEF AskedInv
    <2>2. asked'[u] \subseteq asked[u] /\ asked'[u] \subseteq finished'
      BY <2>1, <1>1 DEF AskInv
    <2> QED BY <2>1, <2>2, <1>0, <1>1, <1>3, AskStable
  <1> QED BY <1>4 DEF AskedInv

LEMMA PopTakeAsked ==
  ASSUME MemInv, SlotInv, AskedInv, TypeOK', NEW t \in Threads, AskInv(t)', PopTake(t)
  PROVE  AskedInv'
  <1> DEFINE a == my[t].end
             i == my[t].idx
  <1>0. TypeOK /\ UseInv(t) /\ finished \subseteq Values
    BY DEF MemInv, SlotInv, TypeOK
  <1>1. /\ \A u \in Threads \ {t} : pc'[u] = pc[u] /\ my'[u] = my[u]
        /\ pop_idx' = pop_idx /\ pc[t] = "pop_take"
        /\ buffer' = [buffer EXCEPT ![a][i] = TAKEN_VALUE]
    BY <1>0 DEF TypeOK, PopTake, From, Forget
  <1>2. \/ finished' = finished /\ asked' = asked
        \/ \E v : finished' = finished \ {v} /\ asked' = [u \in Threads |-> asked[u] \ {v}]
    BY DEF PopTake, Taken, history
  <1>3. \A u \in Threads : asked'[u] \subseteq asked[u] /\ asked'[u] \subseteq finished' /\ finished' \subseteq Values
    BY <1>0, <1>2 DEF AskedInv, AskInv
  <1>4. a \in Addr /\ i \in Slots /\ buffer \in [Addr -> [Slots -> Cells]]
    BY <1>0, <1>1, UsedSlots, NodeTypes DEF UseInv, PopEnd
  <1> HIDE DEF a, i
  <1>5. \A v \in finished', b \in Addr, j \in Slots : buffer'[b][j] = v => buffer[b][j] = v
    BY <1>0, <1>1, <1>3, <1>4
  <1> QED BY <1>0, <1>1, <1>3, <1>5, SamePops, CalmAsked

LEMMA DeleteAsked ==
  ASSUME MemInv, AskedInv, DeleteStart \/ DeleteNode \/ DeleteFinish \/ New
  PROVE  AskedInv'
  <1> SUFFICES ASSUME NEW t \in Threads PROVE AskInv(t)'
    BY DEF AskedInv
  <1>1. pc[t] = "idle" /\ pc' = pc /\ asked' = asked
    BY DEF MemInv, PhaseInv, DeleteStart, DeleteNode, DeleteFinish, New, history
  <1>2. AskInv(t)
    BY DEF AskedInv
  <1> QED BY <1>1, <1>2, AskNothing DEF EmptyPlaces, EmptyEnd

LEMMA NextAsked == MemInv /\ MemInv' /\ SlotInv /\ Conservation /\ AskedInv /\ [Next]_vars => AskedInv'
  <1> SUFFICES ASSUME MemInv, MemInv', SlotInv, Conservation, AskedInv, [Next]_vars PROVE AskedInv'
    OBVIOUS
  <1>0. TypeOK /\ TypeOK'
    BY DEF MemInv
  <1>1. ASSUME NEW t \in Threads, Quiet(t), AskInv(t)' PROVE AskedInv'
    BY <1>0, <1>1, QuietAsked
  <1>2. ASSUME NEW t \in Threads, CallPop(t) \/ CallIsEmpty(t) \/ PushNoMemory(t) PROVE AskedInv'
    BY <1>0, <1>1, <1>2, QuietSteps, PushAsks, PopAsks, EmptyAsks
  <1>7. ASSUME NEW t \in Threads, NEW v \in Values, CallPush(t, v) PROVE AskedInv'
    BY <1>0, <1>7, PushAsks, RestingAsked
  <1>3. ASSUME NEW t \in Threads, PushProtect(t) \/ PushClaim(t) \/ PushStore(t) \/ PushNew(t) \/ PushSwing(t)
                                  \/ PushLink(t) \/ PushDrop(t) \/ PushReturn(t)
        PROVE  AskedInv'
    <2>1. AskInv(t)'
      BY <1>0, <1>3, PushAsks
    <2> QED BY <1>0, <1>1, <1>3, <2>1, QuietSteps, RestingAsked, PushStoreAsked, PushNewAsked, ErasedAsked
  <1>4. ASSUME NEW t \in Threads, PopProtect(t) \/ PopClaim(t) \/ PopTake(t) \/ PopNext(t) \/ PopSwing(t)
                                  \/ PopRetire(t) \/ PopScan(t) \/ PopScanDone(t) \/ PopClear(t) \/ PopReturn(t)
        PROVE  AskedInv'
    <2>1. AskInv(t)'
      BY <1>0, <1>4, PopAsks
    <2>2. CASE PopScan(t)
      BY <1>0, <1>1, <2>1, <2>2, PopScanCases, ErasedAsked
    <2> QED BY <1>0, <1>1, <1>4, <2>1, <2>2, QuietSteps, RestingAsked, PopClaimAsked, PopTakeAsked
  <1>5. ASSUME NEW t \in Threads, IsEmptyProtect(t) \/ IsEmptyPushIdx(t) \/ IsEmptyPopIdx(t) \/ IsEmptyNext(t)
                                  \/ IsEmptyReturn(t)
        PROVE  AskedInv'
    BY <1>1, <1>5, QuietSteps, EmptyAsks
  <1>6. ASSUME NEW t \in Threads, Step(t) PROVE AskedInv'
    BY <1>3, <1>4, <1>5, <1>6 DEF Step, Return
  <1>8. CASE UNCHANGED vars
    BY <1>8 DEF AskedInv, AskInv, vars, hazardVars, node, history
  <1> QED BY <1>2, <1>6, <1>7, <1>8, DeleteAsked DEF Next, Invoke

-----------------------------------------------------------------------------
(* The order of the items.                                                 *)

Ordered(v) ==
  /\ v \notin older[v] /\ older[v] \subseteq finished
  /\ \A w \in older[v] : \A b \in live, j \in Slots :
       buffer[b][j] = w => Claims(b, j) \/ Follows(v, b, j)

LEMMA OrderParts == OrderInv <=> \A v \in Values : Ordered(v)
  BY DEF OrderInv, Ordered

LEMMA InitOrder == Init => OrderInv
  BY DEF Init, OrderInv

(* An item that waits for a pop is in a node of the queue, which is not     *)
(* behind the tail.                                                        *)
LEMMA Waiting ==
  ASSUME MemInv, SlotInv, Conservation, NEW w \in finished, NEW b \in live, NEW j \in Slots,
         buffer[b][j] = w, ~Claims(b, j)
  PROVE  /\ w \in Values /\ b \in Addr /\ phase = "open" /\ InChain(b)
         /\ j >= pop_idx[b] /\ pop_idx[b] \in Nat /\ j \in Nat /\ pop_idx[b] < BUFFER_SIZE
         /\ j < push_idx[b]
         /\ \A u \in Threads : ~Fresh(u, b)
         /\ NotAfter(b, tail)
  <1>0. TypeOK /\ finished \subseteq Values /\ live \subseteq Addr
    BY DEF MemInv, TypeOK, HazardTypeOK
  <1>1. w \in Values /\ b \in Addr /\ phase = "open" /\ j \in Nat /\ j < BUFFER_SIZE /\ pop_idx[b] \in Nat
    BY <1>0, SlotTypes DEF Conservation, TypeOK
  <1>2. \A u \in Threads : ~Fresh(u, b)
    BY <1>0, <1>1, ItemParts DEF Kept, Once
  <1>3. j >= pop_idx[b] /\ j < push_idx[b]
    BY <1>1 DEF SlotInv
  <1>4. ASSUME NEW u \in Threads, Pending(u, b) \/ On(u, b) PROVE FALSE
    <2>1. UseInv(u)
      BY DEF SlotInv
    <2>2. pop_idx[b] >= BUFFER_SIZE
      BY <2>1, <1>1, <1>4 DEF UseInv
    <2> QED BY <2>2, <1>1, <1>3
  <1>5. InChain(b)
    BY <1>1, <1>2, <1>4 DEF MemInv, OwnerInv, Owns
  <1>6. NotAfter(b, tail)
    <2>1. Len(chain) \in Nat /\ Len(chain) > 0 /\ tail = chain[Len(chain)]
      BY <1>1, ChainFacts
    <2>2. PICK i \in 1..Len(chain) : chain[i] = b
      BY <1>5 DEF InChain
    <2>3. Len(chain) \in 1..Len(chain) /\ i <= Len(chain)
      BY <2>1
    <2> QED BY <2>1, <2>2, <2>3 DEF NotAfter
  <1> QED BY <1>1, <1>2, <1>3, <1>5, <1>6

(* What a step of one thread has to keep.                                  *)
LEMMA OrderStable ==
  ASSUME NEW v \in Values, Ordered(v), NEW t \in Threads,
         \A u \in Threads \ {t} : pc'[u] = pc[u] /\ my'[u] = my[u],
         older'[v] \subseteq older[v], older'[v] \subseteq finished',
         \A w \in older'[v] : \A b \in live', j \in Slots :
           buffer'[b][j] = w /\ ~Claims(b, j)' =>
             /\ b \in live /\ buffer[b][j] = w /\ ~Claims(b, j)
             /\ Follows(v, b, j) =>
                  /\ my'[t].item = v => Behind(t, b, j)'
                  /\ \A x : NotAfter(b, x) => NotAfter(b, x)'
                  /\ \A a \in live', i \in Slots :
                       buffer'[a][i] = v /\ (\A u \in Threads : ~Fresh(u, a)') =>
                         \/ Before(b, j, a, i)'
                         \/ a \in live /\ buffer[a][i] = v /\ \A u \in Threads : ~Fresh(u, a)
  PROVE  Ordered(v)'
  <1> SUFFICES ASSUME NEW w \in older'[v], NEW b \in live', NEW j \in Slots, buffer'[b][j] = w, ~Claims(b, j)'
               PROVE  Follows(v, b, j)'
    BY DEF Ordered
  <1>1. b \in live /\ buffer[b][j] = w /\ ~Claims(b, j) /\ w \in older[v]
    OBVIOUS
  <1>2. Follows(v, b, j)
    BY <1>1 DEF Ordered
  <1>3. /\ my'[t].item = v => Behind(t, b, j)'
        /\ \A x : NotAfter(b, x) => NotAfter(b, x)'
        /\ \A a \in live', i \in Slots :
             buffer'[a][i] = v /\ (\A u \in Threads : ~Fresh(u, a)') =>
               \/ Before(b, j, a, i)'
               \/ a \in live /\ buffer[a][i] = v /\ \A u \in Threads : ~Fresh(u, a)
    BY <1>2
  <1>4. ASSUME NEW u \in Threads, my'[u].item = v PROVE Behind(u, b, j)'
    <2>1. CASE u = t
      BY <2>1, <1>3, <1>4
    <2>2. CASE u # t
      <3>1. pc'[u] = pc[u] /\ my'[u] = my[u] /\ Behind(u, b, j)
        BY <2>2, <1>2, <1>4 DEF Follows
      <3>2. PICK e : e = my[u].end
        OBVIOUS
      <3>3. NotAfter(b, e) => NotAfter(b, e)'
        BY <1>3
      <3> QED BY <3>1, <3>2, <3>3 DEF Behind, Before, NotAfter
    <2> QED BY <2>1, <2>2
  <1>5. ASSUME NEW a \in live', NEW i \in Slots, buffer'[a][i] = v, \A u \in Threads : ~Fresh(u, a)'
        PROVE  Before(b, j, a, i)'
    <2>1. CASE a \in live /\ buffer[a][i] = v /\ \A u \in Threads : ~Fresh(u, a)
      <3>1. Before(b, j, a, i)
        BY <2>1, <1>2 DEF Follows
      <3>2. NotAfter(b, a) => NotAfter(b, a)'
        BY <1>3
      <3> QED BY <3>1, <3>2 DEF Before
    <2> QED BY <2>1, <1>3, <1>5
  <1> QED BY <1>4, <1>5 DEF Follows

(* Steps that move no item: only what the thread itself knows may change.  *)
LEMMA CalmOrder ==
  ASSUME TypeOK, OrderInv, NEW t \in Threads,
         \A u \in Threads \ {t} : pc'[u] = pc[u] /\ my'[u] = my[u],
         UNCHANGED <<live, buffer, chain>>, finished \subseteq finished',
         \A v \in Values : older'[v] \subseteq older[v],
         \A b, j : Claims(b, j) => Claims(b, j)',
         \A a \in Addr : Fresh(t, a) => Fresh(t, a)',
         \A v \in Values : \A w \in older[v] : \A b \in live, j \in Slots :
           buffer[b][j] = w /\ ~Claims(b, j) /\ Follows(v, b, j) /\ my'[t].item = v => Behind(t, b, j)'
  PROVE  OrderInv'
  <1>1. \A x, b : NotAfter(b, x) => NotAfter(b, x)'
    BY DEF NotAfter
  <1>2. \A a \in live : (\A u \in Threads : ~Fresh(u, a)') => \A u \in Threads : ~Fresh(u, a)
    BY DEF Fresh, TypeOK, HazardTypeOK
  <1>3. ASSUME NEW v \in Values PROVE Ordered(v)'
    <2>1. Ordered(v) /\ older'[v] \subseteq older[v] /\ older'[v] \subseteq finished'
      BY OrderParts DEF OrderInv
    <2>2. ASSUME NEW w \in older'[v], NEW b \in live', NEW j \in Slots, buffer'[b][j] = w, ~Claims(b, j)'
          PROVE  /\ b \in live /\ buffer[b][j] = w /\ ~Claims(b, j)
                 /\ Follows(v, b, j) =>
                      /\ my'[t].item = v => Behind(t, b, j)'
                      /\ \A x : NotAfter(b, x) => NotAfter(b, x)'
                      /\ \A a \in live', i \in Slots :
                           buffer'[a][i] = v /\ (\A u \in Threads : ~Fresh(u, a)') =>
                             \/ Before(b, j, a, i)'
                             \/ a \in live /\ buffer[a][i] = v /\ \A u \in Threads : ~Fresh(u, a)
      <3>1. b \in live /\ buffer[b][j] = w /\ ~Claims(b, j) /\ w \in older[v]
        BY <2>1, <2>2
      <3>2. Follows(v, b, j) /\ my'[t].item = v => Behind(t, b, j)'
        BY <3>1
      <3>3. \A a \in live', i \in Slots :
              buffer'[a][i] = v /\ (\A u \in Threads : ~Fresh(u, a)') =>
                a \in live /\ buffer[a][i] = v /\ \A u \in Threads : ~Fresh(u, a)
        BY <1>2
      <3> QED BY <3>1, <3>2, <3>3, <1>1
    <2> QED BY <2>1, <2>2, OrderStable
  <1> QED BY <1>3 DEF OrderInv, Ordered

(* ... and most of them leave nothing to know.                             *)
LEMMA NothingToKnow ==
  ASSUME NEW t \in Threads,
         pc'[t] \notin {"push_claim", "push_new", "push_swing", "push_store", "popped"}
  PROVE  \A b, j : Behind(t, b, j)'
  BY DEF Behind

LEMMA QuietOrder ==
  ASSUME TypeOK, OrderInv, NEW t \in Threads, Quiet(t)
  PROVE  OrderInv'
  <1>1. /\ \A u \in Threads \ {t} : pc'[u] = pc[u] /\ my'[u] = my[u]
        /\ UNCHANGED <<buffer, live, chain, finished>> /\ \A v \in Values : older'[v] \subseteq older[v]
    BY DEF Quiet, Others
  <1>2. \A b, j : Claims(b, j) => Claims(b, j)'
    BY <1>1 DEF Claims, Quiet
  <1>3. \A a \in Addr : Fresh(t, a) => Fresh(t, a)'
    BY DEF Fresh, Quiet
  <1>4. \A v \in Values : \A b, j : my'[t].item = v => Behind(t, b, j)'
    BY NothingToKnow DEF Quiet, Knowing
  <1> QED BY <1>1, <1>2, <1>3, <1>4, CalmOrder

(* A push that is called now follows all that is finished, and knows of     *)
(* nobody yet; its value is nowhere else.                                  *)
LEMMA CallPushOrder ==
  ASSUME MemInv, Conservation, OrderInv, NEW t \in Threads, NEW v \in Values, CallPush(t, v)
  PROVE  OrderInv'
  <1>0. TypeOK /\ live \subseteq Addr
    BY DEF MemInv, TypeOK, HazardTypeOK
  <1>1. /\ pc[t] = "idle" /\ pc'[t] = "push_load" /\ my'[t].item = v
        /\ \A u \in Threads \ {t} : pc'[u] = pc[u] /\ my'[u] = my[u]
        /\ UNCHANGED <<buffer, live, finished, chain>>
        /\ older' = [older EXCEPT ![v] = finished]
    BY <1>0, MyType DEF TypeOK, Mine, CallPush, From, hazardKept, hazardVars, queueKept, node
  <1>2. /\ \A u \in Threads : my[u].item # v
        /\ \A a \in Addr, i \in Slots : buffer[a][i] # v
    BY DEF CallPush, Inside
  <1>3. v \notin finished
    BY <1>0, <1>2, ItemParts DEF Kept
  <1>4. \A b, j : Behind(t, b, j)'
    BY <1>1, NothingToKnow
  <1>5. ASSUME NEW w \in Values PROVE Ordered(w)'
    <2>1. CASE w = v
      <3>1. older'[w] = finished
        BY <2>1, <1>0, <1>1 DEF TypeOK
      <3>2. \A b, j : Follows(w, b, j)'
        BY <2>1, <1>0, <1>1, <1>2, <1>4 DEF Follows
      <3> QED BY <2>1, <3>1, <3>2, <1>1, <1>3 DEF Ordered
    <2>2. CASE w # v
      <3>1. older'[w] = older[w] /\ Ordered(w)
        BY <2>2, <1>0, <1>1, OrderParts DEF TypeOK
      <3>2. \A b, j : Claims(b, j) => Claims(b, j)'
        BY <1>1 DEF Claims
      <3>3. \A b, x : NotAfter(b, x) => NotAfter(b, x)'
        BY <1>1 DEF NotAfter
      <3>4. \A a \in live : (\A u \in Threads : ~Fresh(u, a)') => \A u \in Threads : ~Fresh(u, a)
        BY <1>1 DEF Fresh
      <3>5. older'[w] \subseteq older[w] /\ older'[w] \subseteq finished'
        BY <3>1, <1>1 DEF Ordered
      <3>6. \A b \in live', j \in Slots, a \in live', i \in Slots :
              /\ buffer'[b][j] = buffer[b][j] /\ b \in live
              /\ buffer'[a][i] = w /\ (\A u \in Threads : ~Fresh(u, a)') =>
                   a \in live /\ buffer[a][i] = w /\ \A u \in Threads : ~Fresh(u, a)
        BY <1>1, <3>4
      <3> QED BY <2>2, <3>1, <3>2, <3>3, <3>5, <3>6, <1>1, OrderStable
    <2> QED BY <2>1, <2>2
  <1> QED BY <1>5 DEF OrderInv, Ordered

(* The tail is behind all that waits. *)
LEMMA PushFoundOrder ==
  ASSUME MemInv, SlotInv, Conservation, OrderInv, NEW t \in Threads, my[t].end = tail,
         ProtectValidate(t, "push_validate", "push_load", "push_claim", tail)
  PROVE  OrderInv'
  <1>0. TypeOK
    BY DEF MemInv
  <1>1. /\ pc[t] = "push_validate" /\ pc'[t] = "push_claim" /\ my' = my
        /\ \A u \in Threads \ {t} : pc'[u] = pc[u] /\ my'[u] = my[u]
        /\ UNCHANGED <<buffer, live, finished, older, chain>>
    BY <1>0 DEF TypeOK, ProtectValidate, From, hazardKept, hazardVars, queueKept, node, history
  <1>2. \A b, j : Claims(b, j) => Claims(b, j)'
    BY <1>1 DEF Claims
  <1>3. \A a \in Addr : Fresh(t, a) => Fresh(t, a)'
    BY <1>1 DEF Fresh
  <1>4. ASSUME NEW v \in Values, NEW w \in older[v], NEW b \in live, NEW j \in Slots,
               buffer[b][j] = w, ~Claims(b, j)
        PROVE  Behind(t, b, j)'
    <2>1. w \in finished
      BY DEF OrderInv
    <2>2. NotAfter(b, tail)
      BY <2>1, <1>4, Waiting
    <2> QED BY <2>2, <1>1 DEF Behind, NotAfter
  <1> QED BY <1>0, <1>1, <1>2, <1>3, <1>4, CalmOrder

(* The slot a push claims is after the slots of its node that have items.  *)
LEMMA PushClaimOrder ==
  ASSUME MemInv, SlotInv, Conservation, OrderInv, NEW t \in Threads, PushClaim(t)
  PROVE  OrderInv'
  <1>0. TypeOK
    BY DEF MemInv
  <1>1. /\ pc[t] = "push_claim" /\ my'[t].item = my[t].item /\ my'[t].end = my[t].end
        /\ \/ pc'[t] = "push_store" /\ my'[t].idx = push_idx[my[t].end]
           \/ pc'[t] = "push_new"
        /\ \A u \in Threads \ {t} : pc'[u] = pc[u] /\ my'[u] = my[u]
        /\ UNCHANGED <<buffer, live, finished, older, chain>>
    BY <1>0, MyType DEF TypeOK, Mine, PushClaim, From, hazardKept, hazardVars, queueKept, history
  <1>2. \A b, j : Claims(b, j) => Claims(b, j)'
    BY <1>1 DEF Claims
  <1>3. \A a \in Addr : Fresh(t, a) => Fresh(t, a)'
    BY <1>1 DEF Fresh
  <1>4. ASSUME NEW v \in Values, NEW w \in older[v], NEW b \in live, NEW j \in Slots,
               buffer[b][j] = w, ~Claims(b, j), Follows(v, b, j), my'[t].item = v
        PROVE  Behind(t, b, j)'
    <2>1. w \in finished
      BY DEF OrderInv
    <2>2. j < push_idx[b]
      BY <2>1, <1>4, Waiting
    <2>3. NotAfter(b, my[t].end)
      BY <1>1, <1>4 DEF Follows, Behind
    <2> QED BY <2>2, <2>3, <1>1 DEF Behind, Before, NotAfter
  <1> QED BY <1>0, <1>1, <1>2, <1>3, <1>4, CalmOrder

(* Steps after which the thread knows nothing.                             *)
LEMMA MoveOrder ==
  ASSUME TypeOK, OrderInv, NEW t \in Threads,
         PushReturn(t) \/ PopClaim(t) \/ PopNext(t)
  PROVE  OrderInv'
  <1> USE DEF From, Forget, hazardKept, hazardVars, queueKept, node, history
  <1>1. \A u \in Threads \ {t} : pc'[u] = pc[u] /\ my'[u] = my[u]
    BY DEF TypeOK, PushReturn, PopClaim, PopNext
  <1>2. UNCHANGED <<buffer, live, older, chain>> /\ finished \subseteq finished'
    BY DEF PushReturn, PopClaim, PopNext
  <1>3. /\ pc[t] \in {"pushed", "pop_claim", "pop_next"}
        /\ pc'[t] \in {"idle", "pop_take", "pop_next", "pop_swing", "popped"}
        /\ pc'[t] = "popped" => my'[t].item = EMPTY_VALUE
    BY DEF TypeOK, PushReturn, PopClaim, PopNext, Blank
  <1>4. \A b, j : Claims(b, j) => Claims(b, j)'
    BY <1>1, <1>3 DEF Claims
  <1>5. \A a \in Addr : Fresh(t, a) => Fresh(t, a)'
    BY <1>3 DEF Fresh
  <1>6. \A v \in Values : \A b, j : my'[t].item = v => Behind(t, b, j)'
    BY <1>3, NothingToKnow
  <1> QED BY <1>1, <1>2, <1>4, <1>5, <1>6, CalmOrder

(* The slot a push fills is after those of the items that wait.            *)
LEMMA PushStoreOrder ==
  ASSUME MemInv, SlotInv, Conservation, OrderInv, NEW t \in Threads, PushStore(t),
         buffer[my[t].end][my[t].idx] = EMPTY_VALUE
  PROVE  OrderInv'
  <1>0. TypeOK /\ UseInv(t) /\ NodeInv(t) /\ live \subseteq Addr
    BY DEF MemInv, SlotInv, TypeOK, HazardTypeOK
  <1>x. PICK x \in Values : x = my[t].item
    BY <1>0 DEF PushStore, From, NodeInv, Pushing
  <1>e. PICK a, i : a = my[t].end /\ i = my[t].idx
    OBVIOUS
  <1>1. /\ pc[t] = "push_store" /\ pc'[t] = "pushed" /\ my' = my
        /\ buffer' = [buffer EXCEPT ![a][i] = x]
        /\ \A u \in Threads \ {t} : pc'[u] = pc[u]
        /\ UNCHANGED <<live, finished, older, chain>>
    BY <1>0, <1>x, <1>e DEF TypeOK, PushStore, From, hazardKept, hazardVars, queueKept, history
  <1>2. /\ a \in Addr /\ i \in Slots /\ buffer \in [Addr -> [Slots -> Cells]]
    BY <1>0, <1>1, <1>e, UsedSlots, NodeTypes DEF UseInv, PushEnd
  <1>3. \A b \in Addr, j \in Slots : buffer'[b][j] = IF b = a /\ j = i THEN x ELSE buffer[b][j]
    BY <1>1, <1>2
  <1>4. x \notin finished
    <2>1. Holds(t, x)
      BY <1>1, <1>x DEF Holds
    <2> QED BY <2>1, <1>0, ItemParts DEF Once, Kept
  <1>5. /\ \A b, j : Claims(b, j) => Claims(b, j)'
        /\ \A b, y : NotAfter(b, y) => NotAfter(b, y)'
    BY <1>1 DEF Claims, NotAfter
  <1>6. \A b, j : Behind(t, b, j)'
    BY <1>1, NothingToKnow
  <1>7. ASSUME NEW v \in Values PROVE Ordered(v)'
    <2>1. /\ Ordered(v) /\ older'[v] \subseteq older[v] /\ older'[v] \subseteq finished'
      BY <1>1, OrderParts DEF OrderInv
    <2>2. ASSUME NEW w \in older'[v], NEW b \in live', NEW j \in Slots, buffer'[b][j] = w, ~Claims(b, j)'
          PROVE  /\ b \in live /\ buffer[b][j] = w /\ ~Claims(b, j)
                 /\ Follows(v, b, j) =>
                      /\ my'[t].item = v => Behind(t, b, j)'
                      /\ \A y : NotAfter(b, y) => NotAfter(b, y)'
                      /\ \A c \in live', k \in Slots :
                           buffer'[c][k] = v /\ (\A u \in Threads : ~Fresh(u, c)') =>
                             \/ Before(b, j, c, k)'
                             \/ c \in live /\ buffer[c][k] = v /\ \A u \in Threads : ~Fresh(u, c)
      <3>1. b \in live /\ buffer[b][j] = w /\ ~Claims(b, j) /\ w \in older[v] /\ w # x
        BY <2>1, <2>2, <1>0, <1>1, <1>3, <1>4, <1>5
      <3>2. ASSUME NEW c \in live', NEW k \in Slots, Follows(v, b, j),
                   buffer'[c][k] = v, \A u \in Threads : ~Fresh(u, c)'
            PROVE  \/ Before(b, j, c, k)'
                   \/ c \in live /\ buffer[c][k] = v /\ \A u \in Threads : ~Fresh(u, c)
        <4>1. CASE c = a /\ k = i
          <5>1. my[t].item = v
            BY <3>2, <4>1, <1>0, <1>1, <1>2, <1>3, <1>x
          <5>2. Before(b, j, a, i)
            BY <5>1, <3>2, <1>1, <1>e DEF Follows, Behind
          <5> QED BY <5>2, <4>1, <1>1 DEF Before, NotAfter
        <4>2. CASE ~(c = a /\ k = i)
          <5>1. c \in Addr /\ c \in live /\ buffer[c][k] = v
            BY <3>2, <4>2, <1>0, <1>1, <1>3
          <5>2. \A u \in Threads : ~Fresh(u, c)
            BY <3>2, <1>1 DEF Fresh
          <5> QED BY <5>1, <5>2
        <4> QED BY <4>1, <4>2
      <3> QED BY <3>1, <3>2, <1>5, <1>6
    <2>3. \A u \in Threads \ {t} : pc'[u] = pc[u] /\ my'[u] = my[u]
      BY <1>1
    <2> QED BY <2>1, <2>2, <2>3, OrderStable
  <1> QED BY <1>7 DEF OrderInv, Ordered

(* What is in a new node is not yet in the queue.                          *)
LEMMA PushNewOrder ==
  ASSUME MemInv, SlotInv, Conservation, OrderInv, NEW t \in Threads, PushNew(t)
  PROVE  OrderInv'
  <1>0. TypeOK /\ NodeInv(t) /\ live \subseteq Addr /\ finished \subseteq Values
    BY DEF MemInv, TypeOK, HazardTypeOK
  <1>x. PICK x \in Values : x = my[t].item
    BY <1>0 DEF PushNew, From, NodeInv, Pushing
  <1>1. PICK a \in Addr \ live :
          /\ live' = live \cup {a}
          /\ buffer' = [buffer EXCEPT ![a] = [NoItems EXCEPT ![0] = my[t].item]]
          /\ my' = [my EXCEPT ![t].node = a]
    BY DEF PushNew
  <1>2. /\ pc[t] = "push_new" /\ pc'[t] = "push_swing" /\ my'[t].item = my[t].item /\ my'[t].node = a
        /\ my'[t].end = my[t].end
        /\ \A u \in Threads \ {t} : pc'[u] = pc[u] /\ my'[u] = my[u]
        /\ UNCHANGED <<finished, older, chain>>
    BY <1>0, <1>1, MyType DEF TypeOK, Mine, PushNew, From, queueKept, history
  <1>3. /\ \A j \in Slots : buffer'[a][j] = IF j = 0 THEN x ELSE EMPTY_VALUE
        /\ \A b \in Addr \ {a} : buffer'[b] = buffer[b]
    BY <1>0, <1>1, <1>x, SlotTypes DEF TypeOK, NoItems
  <1>4. x \notin finished
    <2>1. Holds(t, x)
      BY <1>2, <1>x DEF Holds
    <2> QED BY <2>1, <1>0, ItemParts DEF Once, Kept
  <1>5. /\ \A b, j : Claims(b, j) => Claims(b, j)'
        /\ \A b, y : NotAfter(b, y) => NotAfter(b, y)'
    BY <1>2 DEF Claims, NotAfter
  <1>6. Fresh(t, a)'
    BY <1>2 DEF Fresh
  <1>7. \A c \in Addr \ {a} : (\A u \in Threads : ~Fresh(u, c)') => \A u \in Threads : ~Fresh(u, c)
    BY <1>2 DEF Fresh
  <1>8. ASSUME NEW v \in Values PROVE Ordered(v)'
    <2>1. /\ Ordered(v) /\ older'[v] \subseteq older[v] /\ older'[v] \subseteq finished'
          /\ older[v] \subseteq finished
      BY <1>2, OrderParts DEF OrderInv
    <2>2. ASSUME NEW w \in older'[v], NEW b \in live', NEW j \in Slots, buffer'[b][j] = w, ~Claims(b, j)'
          PROVE  /\ b \in live /\ buffer[b][j] = w /\ ~Claims(b, j)
                 /\ Follows(v, b, j) =>
                      /\ my'[t].item = v => Behind(t, b, j)'
                      /\ \A y : NotAfter(b, y) => NotAfter(b, y)'
                      /\ \A c \in live', k \in Slots :
                           buffer'[c][k] = v /\ (\A u \in Threads : ~Fresh(u, c)') =>
                             \/ Before(b, j, c, k)'
                             \/ c \in live /\ buffer[c][k] = v /\ \A u \in Threads : ~Fresh(u, c)
      <3>1. w \in finished /\ w # x /\ w \in Values /\ w # EMPTY_VALUE
        BY <2>1, <2>2, <1>0, <1>4
      <3>2. b # a
        BY <2>2, <3>1, <1>3
      <3>3. b \in live /\ buffer[b][j] = w /\ ~Claims(b, j)
        BY <2>2, <3>2, <1>0, <1>1, <1>3, <1>5
      <3>4. ASSUME Follows(v, b, j), my'[t].item = v PROVE Behind(t, b, j)'
        <4>1. NotAfter(b, my[t].end)
          BY <3>4, <1>2 DEF Follows, Behind
        <4> QED BY <4>1, <1>2 DEF Behind, NotAfter
      <3>5. ASSUME NEW c \in live', NEW k \in Slots, buffer'[c][k] = v, \A u \in Threads : ~Fresh(u, c)'
            PROVE  c \in live /\ buffer[c][k] = v /\ \A u \in Threads : ~Fresh(u, c)
        <4>1. c # a
          BY <3>5, <1>6
        <4> QED BY <4>1, <3>5, <1>0, <1>1, <1>3, <1>7
      <3> QED BY <3>3, <3>4, <3>5, <1>5
    <2> QED BY <2>1, <2>2, <1>2, OrderStable
  <1> QED BY <1>8 DEF OrderInv, Ordered

(* When the new node becomes the tail its item is behind all that waits.   *)
LEMMA PushSwingOrder ==
  ASSUME MemInv, SlotInv, Conservation, OrderInv, NEW t \in Threads, PushSwing(t), my[t].end = tail
  PROVE  OrderInv'
  <1>m. PICK m : m = my[t].node
    OBVIOUS
  <1>0. TypeOK /\ live \subseteq Addr /\ finished \subseteq Values /\ chain \in Seq(Addr)
    BY DEF MemInv, TypeOK, HazardTypeOK
  <1>1. /\ pc[t] = "push_swing" /\ pc'[t] = "push_link" /\ my' = my
        /\ \A u \in Threads \ {t} : pc'[u] = pc[u] /\ my'[u] = my[u]
        /\ chain' = Append(chain, m)
        /\ UNCHANGED <<buffer, live, finished, older>>
    BY <1>0, <1>m DEF TypeOK, PushSwing, From, hazardKept, hazardVars, node, history
  <1>2. m \in Addr /\ m \in live /\ Fresh(t, m)
    BY <1>1, <1>m, FreshNode DEF Fresh
  <1>3. \A b, j : Behind(t, b, j)'
    BY <1>1, NothingToKnow
  <1>4. \A c \in Addr : (\A u \in Threads : ~Fresh(u, c)') => c = m \/ \A u \in Threads : ~Fresh(u, c)
    BY <1>1, <1>m DEF Fresh
  <1>5. /\ Len(chain) \in Nat /\ Len(chain') = Len(chain) + 1
        /\ \A i \in 1..Len(chain) : chain'[i] = chain[i]
        /\ chain'[Len(chain) + 1] = m
    BY <1>0, <1>1, <1>2, AppendPositions
  <1>6. /\ \A b, j : Claims(b, j) => Claims(b, j)'
    BY <1>1 DEF Claims
  <1>7. \A b, y : NotAfter(b, y) => NotAfter(b, y)'
    <2> SUFFICES ASSUME NEW b, NEW y, NEW i \in 1..Len(chain), NEW k \in 1..Len(chain),
                        i <= k, chain[i] = b, chain[k] = y
                 PROVE  NotAfter(b, y)'
      BY DEF NotAfter
    <2>1. i \in 1..Len(chain') /\ k \in 1..Len(chain') /\ chain'[i] = b /\ chain'[k] = y
      BY <1>5
    <2> QED BY <2>1 DEF NotAfter
  <1>8. ASSUME NEW b, InChain(b) PROVE NotAfter(b, m)'
    <2>1. PICK i \in 1..Len(chain) : chain[i] = b
      BY <1>8 DEF InChain
    <2>2. PICK k : k = Len(chain) + 1
      OBVIOUS
    <2>3. i \in 1..Len(chain') /\ k \in 1..Len(chain') /\ i <= k /\ chain'[i] = b /\ chain'[k] = m
      BY <2>1, <2>2, <1>5
    <2> QED BY <2>3 DEF NotAfter
  <1>9. ASSUME NEW v \in Values PROVE Ordered(v)'
    <2>1. /\ Ordered(v) /\ older'[v] \subseteq older[v] /\ older'[v] \subseteq finished'
          /\ older[v] \subseteq finished
      BY <1>1, OrderParts DEF OrderInv
    <2>2. ASSUME NEW w \in older'[v], NEW b \in live', NEW j \in Slots, buffer'[b][j] = w, ~Claims(b, j)'
          PROVE  /\ b \in live /\ buffer[b][j] = w /\ ~Claims(b, j)
                 /\ Follows(v, b, j) =>
                      /\ my'[t].item = v => Behind(t, b, j)'
                      /\ \A y : NotAfter(b, y) => NotAfter(b, y)'
                      /\ \A c \in live', k \in Slots :
                           buffer'[c][k] = v /\ (\A u \in Threads : ~Fresh(u, c)') =>
                             \/ Before(b, j, c, k)'
                             \/ c \in live /\ buffer[c][k] = v /\ \A u \in Threads : ~Fresh(u, c)
      <3>1. w \in finished /\ b \in live /\ buffer[b][j] = w /\ ~Claims(b, j)
        BY <2>1, <2>2, <1>1, <1>6
      <3>2. InChain(b) /\ b # m
        BY <3>1, <1>2, Waiting
      <3>4. ASSUME NEW c \in live', NEW k \in Slots, buffer'[c][k] = v, \A u \in Threads : ~Fresh(u, c)'
            PROVE  \/ Before(b, j, c, k)'
                   \/ c \in live /\ buffer[c][k] = v /\ \A u \in Threads : ~Fresh(u, c)
        <4>1. CASE c = m
          <5>1. NotAfter(b, c)'
            BY <4>1, <3>2, <1>8
          <5> QED BY <5>1, <4>1, <3>2 DEF Before
        <4>2. CASE c # m
          BY <4>2, <3>4, <1>0, <1>1, <1>4
        <4> QED BY <4>1, <4>2
      <3> QED BY <3>1, <3>4, <1>3, <1>7
    <2> QED BY <2>1, <2>2, <1>1, OrderStable
  <1> QED BY <1>9 DEF OrderInv, Ordered

(* A push that has lost gives its new node back.                           *)
LEMMA PushDropOrder ==
  ASSUME MemInv, SlotInv, Conservation, OrderInv, NEW t \in Threads, PushDrop(t)
  PROVE  OrderInv'
  <1> DEFINE m == my[t].node
  <1>0. TypeOK /\ live \subseteq Addr
    BY DEF MemInv, TypeOK, HazardTypeOK
  <1>1. /\ pc[t] = "push_drop" /\ pc'[t] = "push_load"
        /\ \A u \in Threads \ {t} : pc'[u] = pc[u] /\ my'[u] = my[u]
        /\ live' = live \ {m} /\ Erase
        /\ UNCHANGED <<finished, older, chain>>
    BY <1>0 DEF TypeOK, PushDrop, From, Again, queueKept, history
  <1>2. m \in Addr /\ m \in live
    BY <1>1, FreshNode
  <1>3. \A b, j : Behind(t, b, j)'
    BY <1>1, NothingToKnow
  <1>4. \A c \in Addr : (\A u \in Threads : ~Fresh(u, c)') => c = m \/ \A u \in Threads : ~Fresh(u, c)
    BY <1>1 DEF Fresh
  <1> HIDE DEF m
  <1>5. \A b \in Addr \ {m} : buffer'[b] = buffer[b]
    BY <1>0, <1>1, <1>2, Erased
  <1>6. /\ \A b, j : Claims(b, j) => Claims(b, j)'
        /\ \A b, y : NotAfter(b, y) => NotAfter(b, y)'
    BY <1>1 DEF Claims, NotAfter
  <1>7. ASSUME NEW v \in Values PROVE Ordered(v)'
    <2>1. Ordered(v) /\ older'[v] \subseteq older[v] /\ older'[v] \subseteq finished'
      BY <1>1, OrderParts DEF OrderInv
    <2>2. \A b \in live' : b \in live /\ b # m /\ buffer'[b] = buffer[b]
      BY <1>0, <1>1, <1>5
    <2>3. \A c \in live', k \in Slots :
            buffer'[c][k] = v /\ (\A u \in Threads : ~Fresh(u, c)') =>
              c \in live /\ buffer[c][k] = v /\ \A u \in Threads : ~Fresh(u, c)
      BY <2>2, <1>0, <1>4
    <2> QED BY <2>1, <2>2, <2>3, <1>1, <1>3, <1>6, OrderStable
  <1> QED BY <1>7 DEF OrderInv, Ordered

(* A pop takes an item, which nothing follows: in its node it is the first  *)
(* that no pop has claimed, and its node is the head.                      *)
LEMMA NothingBefore ==
  ASSUME MemInv, SlotInv, Conservation, NEW t \in Threads, pc[t] = "pop_take",
         NEW x \in Values, buffer[my[t].end][my[t].idx] = x,
         NEW w \in finished, NEW b \in live, NEW j \in Slots, buffer[b][j] = w, ~Claims(b, j),
         Follows(x, b, j)
  PROVE  FALSE
  <1>a. PICK a, i : a = my[t].end /\ i = my[t].idx
    OBVIOUS
  <1>1. UseInv(t) /\ NodeInv(t) /\ ShieldInv(t) /\ ListInv /\ TypeOK
    BY DEF MemInv, SlotInv
  <1>2. a \in Addr /\ a \in live /\ i \in Slots /\ i < pop_idx[a] /\ i \in Nat /\ pop_idx[a] \in Nat
    BY <1>1, <1>a, UsedSlots, SlotTypes DEF UseInv, PopEnd, TypeOK
  <1>3. \A u \in Threads : ~Fresh(u, a)
    BY <1>1, <1>2, <1>a DEF ShieldInv, Shields, PopEnd, Node
  <1>4. Before(b, j, a, i)
    BY <1>2, <1>3, <1>a DEF Follows
  <1>5. PICK p, q \in 1..Len(chain) : p <= q /\ chain[p] = b /\ chain[q] = a
    BY <1>4 DEF Before, NotAfter
  <1>6. InChain(a)
    BY <1>5 DEF InChain
  <1>7. head = a /\ chain[1] = a /\ Len(chain) \in Nat
    BY <1>1, <1>2, <1>6, <1>a, ChainFacts DEF NodeInv, PopEnd
  <1>8. q = 1
    BY <1>1, <1>5, <1>7 DEF ListInv
  <1>9. b = a /\ j < i
    <2>1. p = 1
      BY <1>5, <1>7, <1>8
    <2> QED BY <2>1, <1>4, <1>5, <1>7 DEF Before
  <1>10. j >= pop_idx[b] /\ j \in Nat
    BY Waiting
  <1> QED BY <1>2, <1>9, <1>10

LEMMA PopTakeOrder ==
  ASSUME MemInv, SlotInv, Conservation, OrderInv, NEW t \in Threads, PopTake(t)
  PROVE  OrderInv'
  <1>a. PICK a, i : a = my[t].end /\ i = my[t].idx
    OBVIOUS
  <1>0. TypeOK /\ UseInv(t) /\ live \subseteq Addr /\ finished \subseteq Values
    BY DEF MemInv, SlotInv, TypeOK, HazardTypeOK
  <1>1. /\ pc[t] = "pop_take" /\ pc'[t] \in {"pop_clear", "popped"}
        /\ \A u \in Threads \ {t} : pc'[u] = pc[u] /\ my'[u] = my[u]
        /\ buffer' = [buffer EXCEPT ![a][i] = TAKEN_VALUE]
        /\ UNCHANGED <<live, chain>>
    BY <1>0, <1>a DEF TypeOK, PopTake, From, Forget, hazardKept, hazardVars, queueKept
  <1>2. /\ a \in Addr /\ i \in Slots /\ buffer \in [Addr -> [Slots -> Cells]]
        /\ buffer[a][i] \in Cells /\ buffer[a][i] # TAKEN_VALUE
    BY <1>0, <1>1, <1>a, UsedSlots, NodeTypes DEF UseInv, PopEnd
  <1>3. PICK x \in Item : x = buffer[a][i]
    BY <1>2 DEF Cells, Item
  <1>4. /\ my'[t].item = x
        /\ \/ x = EMPTY_VALUE /\ pc'[t] = "pop_clear" /\ UNCHANGED <<finished, older>>
           \/ x \in Values /\ finished' = finished \ {x}
              /\ older' = [w \in Values |-> IF w = x THEN older[w] ELSE older[w] \ {x}]
    <2>1. \/ /\ pc'[t] = "pop_clear" /\ x = EMPTY_VALUE
             /\ my' = [my EXCEPT ![t] = Blank] /\ UNCHANGED history
          \/ /\ pc'[t] = "popped" /\ x # EMPTY_VALUE
             /\ my' = [my EXCEPT ![t] = [Blank EXCEPT !.item = x]] /\ Taken(x)
      BY <1>0, <1>3, <1>a DEF TypeOK, PopTake, From, Forget
    <2>2. my'[t].item = x
      BY <2>1, <1>0 DEF TypeOK, Blank
    <2> QED BY <2>1, <2>2 DEF Taken, history, Item
  <1>5. \A b \in Addr, j \in Slots : buffer'[b][j] = IF b = a /\ j = i THEN TAKEN_VALUE ELSE buffer[b][j]
    BY <1>1, <1>2
  <1>6. \A b, j : Claims(b, j) => Claims(b, j)' \/ (b = a /\ j = i)
    BY <1>1, <1>a DEF Claims
  <1>7. \A b, y : NotAfter(b, y) => NotAfter(b, y)'
    BY <1>1 DEF NotAfter
  <1>8. \A c : \A u \in Threads : Fresh(u, c) => Fresh(u, c)'
    BY <1>1 DEF Fresh
  <1>9. ASSUME NEW v \in Values PROVE Ordered(v)'
    <2>1. Ordered(v) /\ older[v] \subseteq finished /\ v \notin older[v]
      BY OrderParts DEF OrderInv
    <2>2. older'[v] \subseteq older[v] /\ older'[v] \subseteq finished'
      BY <2>1, <1>4
    <2>3. ASSUME NEW w \in older'[v], NEW b \in live', NEW j \in Slots, buffer'[b][j] = w, ~Claims(b, j)'
          PROVE  /\ b \in live /\ buffer[b][j] = w /\ ~Claims(b, j)
                 /\ Follows(v, b, j) =>
                      /\ my'[t].item = v => Behind(t, b, j)'
                      /\ \A y : NotAfter(b, y) => NotAfter(b, y)'
                      /\ \A c \in live', k \in Slots :
                           buffer'[c][k] = v /\ (\A u \in Threads : ~Fresh(u, c)') =>
                             \/ Before(b, j, c, k)'
                             \/ c \in live /\ buffer[c][k] = v /\ \A u \in Threads : ~Fresh(u, c)
      <3>1. w \in Values /\ w # TAKEN_VALUE /\ b \in Addr /\ b \in live /\ w \in finished
        BY <2>1, <2>2, <2>3, <1>0, <1>1, BLQueueAssumption
      <3>2. buffer[b][j] = w /\ ~(b = a /\ j = i)
        BY <3>1, <2>3, <1>5
      <3>3. ~Claims(b, j)
        BY <3>2, <2>3, <1>6
      <3>4. ASSUME Follows(v, b, j), my'[t].item = v PROVE FALSE
        <4>1. buffer[my[t].end][my[t].idx] = v
          BY <3>4, <1>3, <1>4, <1>a
        <4> QED BY <4>1, <3>1, <3>2, <3>3, <3>4, <1>1, NothingBefore
      <3>5. ASSUME NEW c \in live', NEW k \in Slots, buffer'[c][k] = v, \A u \in Threads : ~Fresh(u, c)'
            PROVE  c \in live /\ buffer[c][k] = v /\ \A u \in Threads : ~Fresh(u, c)
        <4>1. c \in Addr /\ c \in live
          BY <1>0, <1>1
        <4>2. buffer[c][k] = v
          <5>1. buffer'[c][k] = v /\ v # TAKEN_VALUE
            BY <3>5, BLQueueAssumption
          <5> QED BY <5>1, <4>1, <1>5
        <4> QED BY <4>1, <4>2, <3>5, <1>8
      <3> QED BY <3>1, <3>2, <3>3, <3>4, <3>5, <1>7
    <2> QED BY <2>1, <2>2, <2>3, <1>1, OrderStable
  <1> QED BY <1>9 DEF OrderInv, Ordered

(* The node the head leaves is used up: nothing waits in it.               *)
LEMMA PopSwingOrder ==
  ASSUME MemInv, SlotInv, Conservation, OrderInv, NEW t \in Threads, PopSwing(t), my[t].end = head
  PROVE  OrderInv'
  <1>0. TypeOK /\ UseInv(t) /\ live \subseteq Addr /\ chain \in Seq(Addr)
    BY DEF MemInv, SlotInv, TypeOK, HazardTypeOK
  <1>1. /\ pc[t] = "pop_swing" /\ pc'[t] = "pop_retire"
        /\ \A u \in Threads \ {t} : pc'[u] = pc[u] /\ my'[u] = my[u]
        /\ chain' = Tail(chain)
        /\ UNCHANGED <<buffer, live, finished, older>>
    BY <1>0 DEF TypeOK, PopSwing, From, hazardKept, hazardVars, node, history
  <1>2. chain # <<>> /\ chain[1] = head /\ head \in Addr /\ pop_idx[head] >= BUFFER_SIZE /\ pop_idx[head] \in Nat
    BY <1>0, <1>1, ChainFacts DEF UseInv, TypeOK
  <1>3. \A b, j : Behind(t, b, j)'
    BY <1>1, NothingToKnow
  <1>4. \A c : \A u \in Threads : Fresh(u, c) => Fresh(u, c)'
    BY <1>1 DEF Fresh
  <1>5. \A b, j : Claims(b, j) => Claims(b, j)'
    BY <1>1 DEF Claims
  <1>6. /\ Len(chain) \in Nat /\ Len(chain') = Len(chain) - 1
        /\ \A i \in 1..(Len(chain) - 1) : chain'[i] = chain[i + 1]
    BY <1>0, <1>1, <1>2, TailPositions
  <1>7. ASSUME NEW b, b # head, NEW y, NotAfter(b, y) PROVE NotAfter(b, y)'
    <2>1. PICK i, k \in 1..Len(chain) : i <= k /\ chain[i] = b /\ chain[k] = y
      BY <1>7 DEF NotAfter
    <2>2. i # 1
      BY <2>1, <1>2, <1>7
    <2>3. PICK i1, k1 \in Int : i1 = i - 1 /\ k1 = k - 1
      BY <2>1
    <2>4. i1 \in 1..(Len(chain) - 1) /\ k1 \in 1..(Len(chain) - 1) /\ i1 <= k1
      BY <2>1, <2>2, <2>3, <1>6
    <2>5. i1 + 1 = i /\ k1 + 1 = k
      BY <2>1, <2>3
    <2>6. chain'[i1] = b /\ chain'[k1] = y
      BY <2>1, <2>4, <2>5, <1>6
    <2> QED BY <2>4, <2>6, <1>6 DEF NotAfter
  <1>8. ASSUME NEW v \in Values PROVE Ordered(v)'
    <2>1. Ordered(v) /\ older'[v] \subseteq older[v] /\ older'[v] \subseteq finished' /\ older[v] \subseteq finished
      BY <1>1, OrderParts DEF OrderInv
    <2>2. ASSUME NEW w \in older'[v], NEW b \in live', NEW j \in Slots, buffer'[b][j] = w, ~Claims(b, j)'
          PROVE  /\ b \in live /\ buffer[b][j] = w /\ ~Claims(b, j)
                 /\ Follows(v, b, j) =>
                      /\ my'[t].item = v => Behind(t, b, j)'
                      /\ \A y : NotAfter(b, y) => NotAfter(b, y)'
                      /\ \A c \in live', k \in Slots :
                           buffer'[c][k] = v /\ (\A u \in Threads : ~Fresh(u, c)') =>
                             \/ Before(b, j, c, k)'
                             \/ c \in live /\ buffer[c][k] = v /\ \A u \in Threads : ~Fresh(u, c)
      <3>1. b \in live /\ buffer[b][j] = w /\ ~Claims(b, j) /\ w \in finished
        BY <2>1, <2>2, <1>1, <1>5
      <3>2. pop_idx[b] < BUFFER_SIZE
        BY <3>1, Waiting
      <3>3. b # head
        BY <3>2, <1>2, BLQueueAssumption
      <3>4. \A y : NotAfter(b, y) => NotAfter(b, y)'
        BY <3>3, <1>7
      <3>5. \A c \in live', k \in Slots :
              buffer'[c][k] = v /\ (\A u \in Threads : ~Fresh(u, c)') =>
                c \in live /\ buffer[c][k] = v /\ \A u \in Threads : ~Fresh(u, c)
        BY <1>1, <1>4
      <3> QED BY <3>1, <3>4, <3>5, <1>3
    <2> QED BY <2>1, <2>2, <1>1, OrderStable
  <1> QED BY <1>8 DEF OrderInv, Ordered

(* What a scan frees is no longer looked at.                               *)
LEMMA ScanFreeOrder ==
  ASSUME MemInv, OrderInv, NEW t \in Threads,
         ScanFree(t), Erase, UNCHANGED <<pc, my, history>>, queueKept
  PROVE  OrderInv'
  <1>0. TypeOK /\ live \subseteq Addr
    BY DEF MemInv, TypeOK, HazardTypeOK
  <1>1. live' \subseteq live /\ UNCHANGED <<finished, older, chain, pc, my>>
    BY DEF ScanFree, queueKept, history
  <1>2. \A b \in live' : b \in live /\ buffer'[b] = buffer[b]
    BY <1>0, <1>1, Erased
  <1>3. \A b, j : (Claims(b, j) => Claims(b, j)') /\ (Behind(t, b, j) => Behind(t, b, j)')
    BY <1>1 DEF Claims, Behind, Before, NotAfter
  <1>4. \A b, y : NotAfter(b, y) => NotAfter(b, y)'
    BY <1>1 DEF NotAfter
  <1>5. \A c : \A u \in Threads : Fresh(u, c) => Fresh(u, c)'
    BY <1>1 DEF Fresh
  <1>6. ASSUME NEW v \in Values PROVE Ordered(v)'
    <2>1. Ordered(v) /\ older'[v] \subseteq older[v] /\ older'[v] \subseteq finished'
      BY <1>1, OrderParts DEF OrderInv
    <2>2. \A b, j : Follows(v, b, j) /\ my'[t].item = v => Behind(t, b, j)'
      BY <1>1, <1>3 DEF Follows
    <2>3. \A c \in live', k \in Slots :
            buffer'[c][k] = v /\ (\A u \in Threads : ~Fresh(u, c)') =>
              c \in live /\ buffer[c][k] = v /\ \A u \in Threads : ~Fresh(u, c)
      BY <1>2, <1>5
    <2> QED BY <2>1, <2>2, <2>3, <1>1, <1>2, <1>3, <1>4, OrderStable
  <1> QED BY <1>6 DEF OrderInv, Ordered

LEMMA DeleteOrder ==
  ASSUME Conservation, OrderInv, DeleteStart \/ DeleteNode \/ DeleteFinish \/ New
  PROVE  OrderInv'
  <1>1. \A v \in Values : older'[v] = {}
    <2>1. CASE DeleteStart
      BY <2>1 DEF DeleteStart
    <2>2. CASE DeleteNode \/ DeleteFinish \/ New
      <3>1. finished = {} /\ older' = older
        BY <2>2 DEF Conservation, DeleteNode, DeleteFinish, New, history
      <3> QED BY <3>1 DEF OrderInv
    <2> QED BY <2>1, <2>2
  <1> QED BY <1>1 DEF OrderInv

LEMMA StutterOrder ==
  ASSUME OrderInv, UNCHANGED vars
  PROVE  OrderInv'
  BY DEF OrderInv, vars, hazardVars, node, history, Claims, Follows, Behind, Before, NotAfter, Fresh

LEMMA NextOrder == MemInv /\ SlotInv /\ Conservation /\ OrderInv /\ [Next]_vars => OrderInv'
  <1> SUFFICES ASSUME MemInv, SlotInv, Conservation, OrderInv, [Next]_vars PROVE OrderInv'
    OBVIOUS
  <1>0. TypeOK
    BY DEF MemInv
  <1>1. ASSUME NEW t \in Threads, Quiet(t) PROVE OrderInv'
    BY <1>0, <1>1, QuietOrder
  <1>2. ASSUME NEW t \in Threads, Invoke(t) \/ PushNoMemory(t) PROVE OrderInv'
    BY <1>1, <1>2, QuietSteps, CallPushOrder DEF Invoke
  <1>3. ASSUME NEW t \in Threads, PushProtect(t) PROVE OrderInv'
    <2>1. CASE pc[t] = "push_validate" /\ my[t].end = tail
      <3>1. ProtectValidate(t, "push_validate", "push_load", "push_claim", tail)
        BY <1>3, <2>1 DEF PushProtect, ProtectLoad, ProtectPublish, From
      <3> QED BY <3>1, <2>1, PushFoundOrder
    <2>2. CASE ~(pc[t] = "push_validate" /\ my[t].end = tail)
      BY <1>1, <1>3, <2>2, QuietSteps
    <2> QED BY <2>1, <2>2
  <1>4. ASSUME NEW t \in Threads, PushClaim(t) \/ PushStore(t) \/ PushNew(t) \/ PushSwing(t)
                                  \/ PushLink(t) \/ PushDrop(t) \/ PushReturn(t)
        PROVE  OrderInv'
    BY <1>0, <1>1, <1>4, QuietSteps, PushClaimOrder, PushStoreOrder, PushNewOrder, PushSwingOrder,
       PushDropOrder, MoveOrder
  <1>5. ASSUME NEW t \in Threads, PopProtect(t) \/ PopClaim(t) \/ PopTake(t) \/ PopNext(t) \/ PopSwing(t)
                                  \/ PopRetire(t) \/ PopScan(t) \/ PopScanDone(t) \/ PopClear(t) \/ PopReturn(t)
        PROVE  OrderInv'
    <2>1. CASE PopScan(t)
      BY <1>0, <1>1, <2>1, PopScanCases, ScanFreeOrder
    <2> QED BY <1>0, <1>1, <1>5, <2>1, QuietSteps, MoveOrder, PopTakeOrder, PopSwingOrder
  <1>6. ASSUME NEW t \in Threads, IsEmptyProtect(t) \/ IsEmptyPushIdx(t) \/ IsEmptyPopIdx(t) \/ IsEmptyNext(t)
                                  \/ IsEmptyReturn(t)
        PROVE  OrderInv'
    BY <1>1, <1>6, QuietSteps
  <1>7. ASSUME NEW t \in Threads, Step(t) PROVE OrderInv'
    BY <1>3, <1>4, <1>5, <1>6, <1>7 DEF Step, Return
  <1> QED BY <1>2, <1>7, DeleteOrder, StutterOrder DEF Next

-----------------------------------------------------------------------------
(* The theorems.                                                           *)

LEMMA InitInv == Init => BLInv
  BY InitMem, InitSlots, InitItems, InitOrder, InitAsked DEF BLInv

LEMMA NextInv == BLInv /\ [Next]_vars => BLInv'
  <1> SUFFICES ASSUME BLInv, [Next]_vars PROVE BLInv'
    OBVIOUS
  <1>1. MemInv /\ SlotInv /\ Conservation /\ OrderInv /\ AskedInv
    BY DEF BLInv
  <1>2. MemInv'
    BY <1>1, NextMem
  <1>3. SlotInv' /\ Conservation' /\ OrderInv' /\ AskedInv'
    BY <1>1, <1>2, NextSlots, NextItems, NextOrder, NextAsked
  <1> QED BY <1>2, <1>3 DEF BLInv

(* Whatever pushes, pops, calls of is_empty, retired nodes and scans are in *)
(* between (push, pop, is_empty, delete): the list is whole up to the link  *)
(* a push still owes, every live node has one owner, every item is in one   *)
(* place, and an item that waits has its place before all that came later.  *)
THEOREM Invariance == Spec => []BLInv
  BY InitInv, NextInv, PTL DEF Spec

(* Every node that push, pop or is_empty follows is allocated, and delete   *)
(* leaves nothing behind.                                                  *)
THEOREM MemoryIsSafe == Spec => []MemorySafe
  <1>1. ASSUME BLInv PROVE MemorySafe
    <2>1. MemInv
      BY <1>1 DEF BLInv
    <2>2. ASSUME NEW t \in Threads, AtNode(t) PROVE my[t].end \in live
      <3>1. pc[t] \in PushEnd \cup PopEnd \cup EmptyEnd
        BY <2>2 DEF AtNode, PushEnd
      <3> QED BY <2>1, <3>1, UsedSlots
    <2>3. ASSUME NEW t \in Threads, pc[t] = "pop_swing", head = my[t].end PROVE my[t].next \in live
      <3>1. NodeInv(t) /\ ListInv /\ head \in Addr
        BY <2>1, <2>3, UsedSlots DEF MemInv, PopEnd
      <3>2. next[head] = my[t].next /\ my[t].next # NULL
        BY <2>3, <3>1 DEF NodeInv
      <3>3. head = chain[1] /\ Len(chain) \in Nat /\ Len(chain) > 0
        BY <2>1, <3>1, ChainFacts
      <3>4. Len(chain) # 1 /\ my[t].next = chain[2]
        <4>1. 1 \in 1..Len(chain) /\ 1 + 1 = 2
          BY <3>3
        <4>2. next[chain[1]] = NULL \/ next[chain[1]] = IF 1 = Len(chain) THEN NULL ELSE chain[2]
          BY <3>1, <4>1 DEF ListInv
        <4> QED BY <3>2, <3>3, <4>2
      <3>5. 2 \in 1..Len(chain)
        BY <3>3, <3>4
      <3> QED BY <2>1, <3>4, <3>5, ChainFacts
    <2>4. phase = "open" => head \in live /\ tail \in live
      BY <2>1, ChainFacts DEF Node
    <2>5. NoLeak
      BY <2>1 DEF MemInv, PhaseInv, NoLeak
    <2> QED BY <2>2, <2>3, <2>4, <2>5 DEF MemorySafe, NoUseAfterFree
  <1> QED BY <1>1, Invariance, PTL

(* A pop returns no item while one that was in the queue before that item   *)
(* was pushed is left for a later pop (push l.81-115, pop l.125-160).       *)
THEOREM KeepsOrder == Spec => []NoOvertaking
  <1>1. ASSUME BLInv PROVE NoOvertaking
    <2> SUFFICES ASSUME NEW t \in Threads, pc[t] = "popped", my[t].item \in Values,
                        NEW v \in older[my[t].item]
                 PROVE  Claimed(v)
      BY DEF NoOvertaking
    <2>1. PICK x \in Values : x = my[t].item
      OBVIOUS
    <2>2. v \in finished
      BY <1>1, <2>1 DEF BLInv, OrderInv
    <2>3. PICK b \in live, j \in Slots : buffer[b][j] = v
      BY <1>1, <2>2 DEF BLInv, Conservation
    <2>4. Claims(b, j) \/ Follows(x, b, j)
      BY <1>1, <2>1, <2>3 DEF BLInv, OrderInv
    <2>5. ~Follows(x, b, j)
      BY <2>1 DEF Follows, Behind
    <2> QED BY <2>3, <2>4, <2>5 DEF Claimed
  <1> QED BY <1>1, Invariance, PTL

(* Only its own steps take a thread on. *)
LEMMA OwnStep ==
  ASSUME TypeOK, Next, NEW t \in Threads, pc'[t] # pc[t]
  PROVE  Invoke(t) \/ Step(t) \/ PushNoMemory(t)
  <1>1. ASSUME NEW u \in Threads, u # t, NEW here, NEW there, From(u, here, there) PROVE FALSE
    BY <1>1 DEF From, TypeOK
  <1>2. ASSUME NEW u \in Threads, u # t, Invoke(u) \/ PushNoMemory(u) PROVE FALSE
    BY <1>1, <1>2 DEF Invoke, CallPop, CallIsEmpty, CallPush, PushNoMemory
  <1>3. ASSUME NEW u \in Threads, u # t, PushProtect(u) \/ PopProtect(u) \/ IsEmptyProtect(u) PROVE FALSE
    BY <1>1, <1>3 DEF PushProtect, PopProtect, IsEmptyProtect, ProtectLoad, ProtectPublish, ProtectValidate
  <1>4. ASSUME NEW u \in Threads, u # t, PushClaim(u) \/ PushStore(u) \/ PushNew(u) \/ PushSwing(u)
                                         \/ PushLink(u) \/ PushDrop(u) \/ PushReturn(u)
        PROVE  FALSE
    BY <1>1, <1>4 DEF PushClaim, PushStore, PushNew, PushSwing, PushLink, PushDrop, PushReturn
  <1>5. ASSUME NEW u \in Threads, u # t, PopClaim(u) \/ PopTake(u) \/ PopNext(u) \/ PopSwing(u) \/ PopRetire(u)
                                         \/ PopScan(u) \/ PopScanDone(u) \/ PopClear(u) \/ PopReturn(u)
        PROVE  FALSE
    BY <1>1, <1>5 DEF PopClaim, PopTake, PopNext, PopSwing, PopRetire, PopScan, PopScanDone, PopClear, PopReturn
  <1>6. ASSUME NEW u \in Threads, u # t, IsEmptyPushIdx(u) \/ IsEmptyPopIdx(u) \/ IsEmptyNext(u) \/ IsEmptyReturn(u)
        PROVE  FALSE
    BY <1>1, <1>6 DEF IsEmptyPushIdx, IsEmptyPopIdx, IsEmptyNext, IsEmptyReturn
  <1>7. ASSUME NEW u \in Threads, u # t, Step(u) PROVE FALSE
    BY <1>3, <1>4, <1>5, <1>6, <1>7 DEF Step, Return
  <1>8. ~(DeleteStart \/ DeleteNode \/ DeleteFinish \/ New)
    BY DEF DeleteStart, DeleteNode, DeleteFinish, New
  <1> QED BY <1>2, <1>7, <1>8 DEF Next

(* How the two answers "nothing there" come about. *)
LEMMA EmptySteps ==
  ASSUME NEW t \in Threads, Invoke(t) \/ Step(t) \/ PushNoMemory(t), TypeOK
  PROVE  /\ pc[t] = "pop_next" => PopNext(t)
         /\ pc[t] = "pop_take" => PopTake(t)
         /\ pc[t] = "empty_next" => IsEmptyNext(t)
  <1>1. ASSUME pc[t] \in {"pop_next", "pop_take", "empty_next"} PROVE PopNext(t) \/ PopTake(t) \/ IsEmptyNext(t)
    <2>1. ~Invoke(t) /\ ~PushNoMemory(t)
      BY <1>1 DEF Invoke, CallPop, CallIsEmpty, CallPush, PushNoMemory, From
    <2>2. ~PushProtect(t) /\ ~PopProtect(t) /\ ~IsEmptyProtect(t)
      BY <1>1 DEF PushProtect, PopProtect, IsEmptyProtect, ProtectLoad, ProtectPublish, ProtectValidate, From
    <2>3. /\ ~PushClaim(t) /\ ~PushStore(t) /\ ~PushNew(t) /\ ~PushSwing(t)
          /\ ~PushLink(t) /\ ~PushDrop(t) /\ ~PushReturn(t)
      BY <1>1 DEF PushClaim, PushStore, PushNew, PushSwing, PushLink, PushDrop, PushReturn, From
    <2>4. /\ ~PopClaim(t) /\ ~PopSwing(t) /\ ~PopRetire(t) /\ ~PopScan(t)
          /\ ~PopScanDone(t) /\ ~PopClear(t) /\ ~PopReturn(t)
      BY <1>1 DEF PopClaim, PopSwing, PopRetire, PopScan, PopScanDone, PopClear, PopReturn, From
    <2>5. ~IsEmptyPushIdx(t) /\ ~IsEmptyPopIdx(t) /\ ~IsEmptyReturn(t)
      BY <1>1 DEF IsEmptyPushIdx, IsEmptyPopIdx, IsEmptyReturn, From
    <2> QED BY <2>1, <2>2, <2>3, <2>4, <2>5 DEF Step, Return
  <1>2. /\ PopNext(t) => pc[t] = "pop_next"
        /\ PopTake(t) => pc[t] = "pop_take"
        /\ IsEmptyNext(t) => pc[t] = "empty_next"
    BY DEF PopNext, PopTake, IsEmptyNext, From
  <1> QED BY <1>1, <1>2

(* A thread at a node without a successor is at the head; what waits then   *)
(* is in that node, or behind the link that a push still owes.              *)
LEMMA NoSuccessor ==
  ASSUME MemInv, SlotInv, Conservation, NEW t \in Threads, pc[t] \in PopEnd \cup EmptyEnd,
         next[my[t].end] = NULL,
         NEW v \in finished, NEW b \in live, NEW j \in Slots, buffer[b][j] = v, ~Claims(b, j)
  PROVE  b = my[t].end \/ Cut
  <1>1. PICK a \in Addr : a = my[t].end /\ a \in live
    BY UsedSlots
  <1>2. OwnerInv /\ ListInv /\ NodeInv(t) /\ ShieldInv(t)
    BY DEF MemInv
  <1>3. \A u \in Threads : ~Fresh(u, a)
    BY <1>1, <1>2 DEF ShieldInv, Shields, Node
  <1>4. InChain(a)
    BY <1>1, <1>2, <1>3 DEF OwnerInv, Owns
  <1>5. head = a /\ chain[1] = a /\ Len(chain) \in Nat /\ Len(chain) > 0
    BY <1>1, <1>2, <1>4, ChainFacts DEF NodeInv
  <1>6. InChain(b)
    BY Waiting
  <1> SUFFICES ASSUME b # a PROVE Cut
    BY <1>1
  <1>7. PICK p \in 1..Len(chain) : chain[p] = b
    BY <1>6 DEF InChain
  <1>8. p # 1 /\ Len(chain) # 1
    BY <1>5, <1>7
  <1>9. chain[2] # NULL
    BY <1>5, <1>8, ChainFacts, HazardPointerAssumption
  <1>10. \E u \in Threads : Links(u, 1)
    BY <1>1, <1>2, <1>5, <1>8, <1>9 DEF ListInv
  <1> QED BY <1>5, <1>10 DEF Links, Cut

(* pop returns EMPTY_VALUE (l.147) and is_empty TRUE (l.173) only when      *)
(* nothing whose push had returned is there for the taking, or when a push  *)
(* owes the link behind the head.                                          *)
THEOREM EmptyAnswers == Spec => EmptyIsHonest
  <1> DEFINE Honest(t) ==
        /\ pc[t] = "pop_next" /\ pc'[t] = "popped" => Cut \/ \A v \in finished : Claimed(v)
        /\ pc[t] = "pop_take" /\ pc'[t] = "popped" => my'[t].item # EMPTY_VALUE
        /\ pc[t] = "empty_next" /\ pc'[t] = "was_empty" => Cut \/ \A v \in asked[t] : Claimed(v)
  <1>1. ASSUME BLInv, Next, NEW t \in Threads PROVE Honest(t)
    <2>1. MemInv /\ SlotInv /\ Conservation /\ TypeOK /\ AskInv(t)
      BY <1>1 DEF BLInv, MemInv, AskedInv
    <2>2. ASSUME pc'[t] # pc[t]
          PROVE  /\ pc[t] = "pop_next" => PopNext(t)
                 /\ pc[t] = "pop_take" => PopTake(t)
                 /\ pc[t] = "empty_next" => IsEmptyNext(t)
      <3>1. Invoke(t) \/ Step(t) \/ PushNoMemory(t)
        BY <1>1, <2>1, <2>2, OwnStep
      <3> QED BY <2>1, <3>1, EmptySteps
    <2>3. ASSUME NEW v \in finished, ~Claimed(v)
          PROVE  \E b \in live, j \in Slots : buffer[b][j] = v /\ ~Claims(b, j)
      BY <2>1, <2>3 DEF Conservation, Claimed
    <2>4. ASSUME pc[t] = "pop_next", pc'[t] = "popped", NEW v \in finished, ~Claimed(v) PROVE Cut
      <3>1. next[my[t].end] = NULL
        BY <2>1, <2>2, <2>4 DEF PopNext, From, TypeOK
      <3>2. PICK b \in live, j \in Slots : buffer[b][j] = v /\ ~Claims(b, j)
        BY <2>3, <2>4
      <3>3. pop_idx[b] < BUFFER_SIZE /\ pop_idx[b] \in Nat
        BY <2>1, <3>2, Waiting
      <3>4. pop_idx[my[t].end] >= BUFFER_SIZE
        BY <2>1, <2>4 DEF SlotInv, UseInv
      <3>5. b # my[t].end
        BY <3>3, <3>4, BLQueueAssumption
      <3> QED BY <2>1, <2>4, <3>1, <3>2, <3>5, NoSuccessor DEF PopEnd
    <2>5. ASSUME pc[t] = "pop_take", pc'[t] = "popped" PROVE my'[t].item # EMPTY_VALUE
      BY <2>1, <2>2, <2>5 DEF PopTake, From, TypeOK, Blank
    <2>6. ASSUME pc[t] = "empty_next", pc'[t] = "was_empty", NEW v \in asked[t], ~Claimed(v) PROVE Cut
      <3>1. next[my[t].end] = NULL
        BY <2>1, <2>2, <2>6 DEF IsEmptyNext, From, TypeOK
      <3>2. v \in finished
        BY <2>1, <2>6 DEF AskInv
      <3>3. PICK b \in live, j \in Slots : buffer[b][j] = v /\ ~Claims(b, j)
        BY <2>3, <2>6, <3>2
      <3>4. j >= pop_idx[b] /\ pop_idx[b] \in Nat /\ j \in Nat
        BY <2>1, <3>2, <3>3, Waiting
      <3>5. b # my[t].end
        <4> SUFFICES ASSUME b = my[t].end PROVE FALSE
          OBVIOUS
        <4>1. my[t].idx \in Nat
          BY <2>1, MyType
        <4>2. j < my[t].idx /\ my[t].idx <= pop_idx[b]
          BY <2>1, <2>6, <3>3 DEF AskInv
        <4> QED BY <3>4, <4>1, <4>2
      <3> QED BY <2>1, <2>6, <3>1, <3>2, <3>3, <3>5, NoSuccessor DEF EmptyEnd
    <2> QED BY <2>4, <2>5, <2>6
  <1>2. ASSUME BLInv, [Next]_vars PROVE [\A t \in Threads : Honest(t)]_vars
    BY <1>1, <1>2
  <1>3. BLInv /\ [Next]_vars => [\A t \in Threads : Honest(t)]_vars
    BY <1>2
  <1>4. [][Next]_vars /\ []BLInv => [][\A t \in Threads : Honest(t)]_vars
    BY <1>3, PTL
  <1>5. Spec => [][\A t \in Threads : Honest(t)]_vars
    BY <1>4, Invariance, PTL DEF Spec
  <1> QED BY <1>5 DEF EmptyIsHonest
=============================================================================
