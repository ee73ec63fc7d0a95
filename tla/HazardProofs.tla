---------------------------- MODULE HazardProofs ----------------------------
(***************************************************************************)
(* Hazard pointers keep their promise: for every set of threads, cells and *)
(* nodes and every threshold, a protected node is not freed.               *)
(***************************************************************************)
EXTENDS HazardCells, TLAPS, SequenceTheorems, FiniteSetTheorems

(* Taking one element out of a list (the unlinking of a freed RetiredNode). *)
LEMMA WithoutPositions ==
  ASSUME NEW S, NEW s \in Seq(S), NEW i \in 1..Len(s)
  PROVE  /\ Len(s) \in Nat
         /\ Without(s, i) \in Seq(S)
         /\ Len(Without(s, i)) = Len(s) - 1
         /\ \A j \in 1..(i - 1) : Without(s, i)[j] = s[j]
         /\ \A j \in i..(Len(s) - 1) : Without(s, i)[j] = s[j + 1]
  <1> DEFINE a == SubSeq(s, 1, i - 1)
             b == SubSeq(s, i + 1, Len(s))
  <1>0. Len(s) \in Nat
    BY LenProperties
  <1>1. /\ a \in Seq(S) /\ Len(a) = i - 1
        /\ \A j \in 1..(i - 1) : a[j] = s[j]
    BY <1>0
  <1>2. /\ b \in Seq(S) /\ Len(b) = Len(s) - i
        /\ \A j \in 1..(Len(s) - i) : b[j] = s[i + j]
    BY <1>0
  <1>3. /\ a \o b \in Seq(S)
        /\ Len(a \o b) = Len(s) - 1
        /\ \A j \in 1..(i - 1) : (a \o b)[j] = a[j]
        /\ \A j \in i..(Len(s) - 1) : (a \o b)[j] = b[j - (i - 1)]
    <2> HIDE DEF a, b
    <2>1. Len(a) + Len(b) = Len(s) - 1
      BY <1>0, <1>1, <1>2
    <2>2. /\ a \o b \in Seq(S)
          /\ Len(a \o b) = Len(a) + Len(b)
          /\ \A j \in 1..Len(a) + Len(b) :
               (a \o b)[j] = IF j <= Len(a) THEN a[j] ELSE b[j - Len(a)]
      BY <1>1, <1>2, ConcatProperties
    <2>3. \A j \in 1..(Len(s) - 1) : (a \o b)[j] = IF j <= i - 1 THEN a[j] ELSE b[j - (i - 1)]
      BY <1>1, <2>1, <2>2
    <2>4. \A j \in 1..(i - 1) : j \in 1..(Len(s) - 1) /\ j <= i - 1
      BY <1>0
    <2>5. \A j \in i..(Len(s) - 1) : j \in 1..(Len(s) - 1) /\ ~(j <= i - 1)
      BY <1>0
    <2> QED BY <2>1, <2>2, <2>3, <2>4, <2>5
  <1>4. ASSUME NEW j \in i..(Len(s) - 1) PROVE (a \o b)[j] = s[j + 1]
    <2>1. j - (i - 1) \in 1..(Len(s) - i) /\ i + (j - (i - 1)) = j + 1
      BY <1>0
    <2> HIDE DEF a, b
    <2> QED BY <2>1, <1>2, <1>3
  <1> QED BY <1>0, <1>1, <1>3, <1>4 DEF Without

(* Adding one at the front (HazardPointer_retire). *)
LEMMA PrependPositions ==
  ASSUME NEW S, NEW s \in Seq(S), NEW a \in S
  PROVE  /\ <<a>> \o s \in Seq(S)
         /\ Len(s) \in Nat
         /\ Len(<<a>> \o s) = Len(s) + 1
         /\ (<<a>> \o s)[1] = a
         /\ \A j \in 1..Len(s) : (<<a>> \o s)[j + 1] = s[j]
  <1>1. <<a>> \in Seq(S) /\ Len(<<a>>) = 1 /\ <<a>>[1] = a /\ Len(s) \in Nat
    BY LenProperties
  <1> QED BY <1>1, ConcatProperties

USE HazardPointerAssumption

LEMMA InitInv == Init => HazardInv
  BY DEF Init, HazardInit, HazardInv, TypeOK, HazardTypeOK, Places, NoScan, Ownership, Pending,
         Linked, On, ScanInv, PublishedInv, Scanning, Suspect

(* A scan suspects a node of its list. *)
LEMMA SuspectIsRetired ==
  ASSUME HazardInv, NEW u \in Threads, Scanning(u)
  PROVE  /\ scan[u].at \in 1..Len(retired[u])
         /\ Suspect(u) \in Addr
         /\ On(u, Suspect(u))
  <1>1. retired[u] \in Seq(Addr) /\ scan[u].at \in Nat /\ scan[u].at <= Len(retired[u])
    BY DEF HazardInv, TypeOK, HazardTypeOK, ScanInv
  <1>2. scan[u].at \in 1..Len(retired[u])
    BY <1>1, LenProperties DEF Scanning
  <1> QED BY <1>1, <1>2, ElementOfSeq DEF Suspect, On

(* Steps that touch neither the cells, the lists, the scans nor the memory *)
(* and take no node out of a cell.                                         *)
LEMMA QuietOwnership ==
  ASSUME HazardInv, NEW t \in Threads,
         UNCHANGED <<cell, retired, scan, live>>,
         NEW there, there \notin {"retire", "scan"}, pc[t] \notin {"retire", "scan"},
         pc' = [pc EXCEPT ![t] = there],
         \A u \in Threads \ {t} : mine'[u] = mine[u]
  PROVE  Ownership' /\ ScanInv'
  <1>1. \A u \in Threads, a \in Addr : Pending(u, a)' <=> Pending(u, a)
    BY DEF Pending, HazardInv, TypeOK
  <1>2. \A u \in Threads, a \in Addr : On(u, a)' <=> On(u, a)
    BY DEF On
  <1>3. \A a \in Addr : Linked(a)' <=> Linked(a)
    BY DEF Linked
  <1>4. Ownership'
    BY <1>1, <1>2, <1>3 DEF HazardInv, Ownership
  <1>5. ScanInv'
    BY DEF HazardInv, ScanInv, TypeOK, NoScan, Scanning
  <1> QED BY <1>4, <1>5

LEMMA ProtectInv ==
  ASSUME HazardInv, NEW t \in Threads, Protect(t)
  PROVE  HazardInv'
  <1> USE DEF Protect, From, hazardVars
  <1>1. TypeOK'
    BY DEF HazardInv, TypeOK, HazardTypeOK, Places
  <1>2. Ownership' /\ ScanInv'
    BY QuietOwnership
  <1>3. PublishedInv'
    BY DEF HazardInv, TypeOK, PublishedInv, Scanning, Suspect
  <1> QED BY <1>1, <1>2, <1>3 DEF HazardInv

LEMMA ProtectLoadInv ==
  ASSUME HazardInv, NEW t \in Threads, ProtectLoad(t)
  PROVE  HazardInv'
  <1> USE DEF ProtectLoad, From, hazardVars
  <1>1. TypeOK'
    BY DEF HazardInv, TypeOK, HazardTypeOK, Places
  <1>2. Ownership' /\ ScanInv'
    BY QuietOwnership DEF HazardInv, TypeOK
  <1>3. PublishedInv'
    BY DEF HazardInv, TypeOK, PublishedInv, Scanning, Suspect
  <1> QED BY <1>1, <1>2, <1>3 DEF HazardInv

LEMMA ProtectPublishInv ==
  ASSUME HazardInv, NEW t \in Threads, ProtectPublish(t)
  PROVE  HazardInv'
  <1> USE DEF ProtectPublish, Publish, From
  <1>1. TypeOK'
    BY DEF HazardInv, TypeOK, HazardTypeOK, Places
  <1>2. Ownership' /\ ScanInv'
    BY QuietOwnership
  <1>3. PublishedInv'
    BY DEF HazardInv, TypeOK, HazardTypeOK, PublishedInv, Scanning, Suspect
  <1> QED BY <1>1, <1>2, <1>3 DEF HazardInv

(* The heart of the matter: a node found in its cell after it was published *)
(* is on no list yet, so no scan has it for a suspect.                      *)
LEMMA ProtectValidateInv ==
  ASSUME HazardInv, NEW t \in Threads, ProtectValidate(t)
  PROVE  HazardInv'
  <1> USE DEF ProtectValidate, From, hazardVars
  <1>1. TypeOK'
    BY DEF HazardInv, TypeOK, HazardTypeOK, Places
  <1>2. Ownership' /\ ScanInv'
    BY QuietOwnership
  <1>3. PublishedInv'
    <2>1. CASE cell[at[t]] # mine[t]
      BY <2>1 DEF HazardInv, TypeOK, PublishedInv, Scanning, Suspect
    <2>2. CASE cell[at[t]] = mine[t] /\ mine[t] = NULL
      BY <2>2 DEF HazardInv, TypeOK, PublishedInv, Scanning, Suspect
    <2>3. CASE cell[at[t]] = mine[t] /\ mine[t] # NULL
      <3>1. mine[t] \in Addr /\ Linked(mine[t])
        BY <2>3 DEF HazardInv, TypeOK, Linked
      <3>2. mine[t] \in live /\ \A u \in Threads : ~On(u, mine[t])
        BY <3>1 DEF HazardInv, Ownership
      <3>3. \A u \in Threads : Scanning(u) => Suspect(u) # mine[t]
        BY <3>2, SuspectIsRetired
      <3> QED BY <2>3, <3>2, <3>3 DEF HazardInv, TypeOK, PublishedInv, Scanning, Suspect
    <2> QED BY <2>1, <2>2, <2>3
  <1> QED BY <1>1, <1>2, <1>3 DEF HazardInv

LEMMA ReadDoneInv ==
  ASSUME HazardInv, NEW t \in Threads, ReadDone(t)
  PROVE  HazardInv'
  <1> USE DEF ReadDone, Clear, From
  <1>1. TypeOK'
    BY DEF HazardInv, TypeOK, HazardTypeOK, Places
  <1>2. Ownership' /\ ScanInv'
    BY QuietOwnership DEF HazardInv, TypeOK
  <1>3. PublishedInv'
    BY DEF HazardInv, TypeOK, HazardTypeOK, PublishedInv, Scanning, Suspect
  <1> QED BY <1>1, <1>2, <1>3 DEF HazardInv

(* A node leaves its cell and belongs to the thread that took it out. *)
LEMMA SwapInv ==
  ASSUME HazardInv, NEW t \in Threads, Swap(t)
  PROVE  HazardInv'
  <1>0. PICK c \in Cells, b \in (Addr \ live) \cup {NULL} :
          /\ cell' = [cell EXCEPT ![c] = b]
          /\ live' = live \cup ({b} \ {NULL})
          /\ mine' = [mine EXCEPT ![t] = cell[c]]
          /\ IF cell[c] = NULL THEN From(t, "idle", "idle") ELSE From(t, "idle", "retire")
    BY DEF Swap
  <1>a. pc[t] = "idle" /\ UNCHANGED <<pointer, retired, scan, at>>
    BY <1>0 DEF Swap, From
  <1>1. TypeOK'
    BY <1>0, <1>a DEF HazardInv, TypeOK, HazardTypeOK, Places, From
  <1>2. Ownership'
    <2>1. \A u \in Threads, a \in Addr : On(u, a)' <=> On(u, a)
      BY <1>a DEF On
    <2>2. \A u \in Threads \ {t}, a \in Addr : Pending(u, a)' <=> Pending(u, a)
      BY <1>0 DEF HazardInv, TypeOK, Pending, From
    <2>3. \A a \in Addr : Pending(t, a)' => a = cell[c] /\ Linked(a)
      BY <1>0 DEF HazardInv, TypeOK, Pending, From, Linked
    <2>4. \A a \in Addr : Linked(a)' => a = b \/ (Linked(a) /\ a # cell[c])
      BY <1>0 DEF HazardInv, TypeOK, Ownership, Linked
    <2>5. \A a \in Addr : a \in live => a \in live' /\ a # b
      BY <1>0
    <2>6. b \in Addr => b \in live'
      BY <1>0
    <2>7. \A d, e \in Cells : cell'[d] = cell'[e] /\ cell'[d] # NULL => d = e
      BY <1>0, <2>5 DEF HazardInv, TypeOK, Ownership, Linked
    <2>8. \A u \in Threads : \A i, j \in 1..Len(retired'[u]) :
            retired'[u][i] = retired'[u][j] => i = j
      BY <1>a DEF HazardInv, Ownership
    <2>9. ASSUME NEW a \in Addr
          PROVE  /\ Linked(a)' => a \in live'
                 /\ \A u \in Threads :
                      /\ On(u, a)' => a \in live' /\ ~Linked(a)'
                      /\ Pending(u, a)' => a \in live' /\ ~Linked(a)' /\ ~On(u, a)'
                      /\ \A v \in Threads \ {u} :
                           On(u, a)' \/ Pending(u, a)' => ~On(v, a)' /\ ~Pending(v, a)'
      <3>1. /\ Linked(a) => a \in live
            /\ \A u \in Threads :
                 /\ On(u, a) => a \in live /\ ~Linked(a)
                 /\ Pending(u, a) => a \in live /\ ~Linked(a) /\ ~On(u, a)
                 /\ \A v \in Threads \ {u} :
                      On(u, a) \/ Pending(u, a) => ~On(v, a) /\ ~Pending(v, a)
        BY DEF HazardInv, Ownership
      <3> QED BY <3>1, <2>1, <2>2, <2>3, <2>4, <2>5, <2>6
    <2> QED BY <2>7, <2>8, <2>9 DEF Ownership
  <1>3. ScanInv'
    BY <1>0, <1>a DEF HazardInv, TypeOK, ScanInv, From, NoScan, Scanning
  <1>4. PublishedInv'
    <2>1. \A u \in Threads : pc'[u] \in {"validate", "reading"} =>
                               pc[u] = pc'[u] /\ mine'[u] = mine[u]
      BY <1>0 DEF HazardInv, TypeOK, From
    <2>2. live \subseteq live'
      BY <1>0
    <2> QED BY <2>1, <2>2, <1>a DEF HazardInv, PublishedInv, Scanning, Suspect
  <1> QED BY <1>1, <1>2, <1>3, <1>4 DEF HazardInv

(* The retired node joins the list of its thread, and that list only. *)
LEMMA RetireOldInv ==
  ASSUME HazardInv, NEW t \in Threads, RetireOld(t)
  PROVE  HazardInv'
  <1> DEFINE p == mine[t]
             list == <<p>> \o retired[t]
             n == Len(retired[t])
  <1>a. /\ pc[t] = "retire" /\ pc' = [pc EXCEPT ![t] = "scan"]
        /\ retired' = [retired EXCEPT ![t] = list]
        /\ scan' = [scan EXCEPT ![t] = IF Full(list) THEN ScanFrom(1, list) ELSE NoScan]
        /\ mine' = [mine EXCEPT ![t] = NULL]
        /\ UNCHANGED <<pointer, live, cell, at>>
    BY DEF RetireOld, Retire, From
  <1>b. p \in Addr /\ Pending(t, p) /\ retired[t] \in Seq(Addr)
    BY <1>a DEF HazardInv, TypeOK, HazardTypeOK, ScanInv, Pending
  <1>c. /\ list \in Seq(Addr) /\ n \in Nat /\ Len(list) = n + 1 /\ list[1] = p
        /\ \A j \in 1..n : list[j + 1] = retired[t][j]
    BY <1>b, PrependPositions
  <1> HIDE DEF list
  <1>d. /\ retired'[t] = list
        /\ \A u \in Threads \ {t} : retired'[u] = retired[u]
    BY <1>a DEF HazardInv, TypeOK, HazardTypeOK
  <1>e. \/ scan'[t] = NoScan
        \/ scan'[t] = [at |-> 1, unread |-> Threads]
    BY <1>a, <1>c DEF HazardInv, TypeOK, HazardTypeOK, ScanFrom
  <1>f. \A u \in Threads \ {t} : scan'[u] = scan[u]
    BY <1>a DEF HazardInv, TypeOK, HazardTypeOK
  <1>g. ASSUME NEW a \in Addr
        PROVE  /\ On(t, a)' <=> On(t, a) \/ a = p
               /\ \A u \in Threads \ {t} : On(u, a)' <=> On(u, a)
    <2>1. On(t, a)' => On(t, a) \/ a = p
      <3> SUFFICES ASSUME NEW i \in 1..(n + 1), list[i] = a, a # p
                   PROVE  On(t, a)
        BY <1>c, <1>d DEF On
      <3>1. i # 1 /\ i - 1 \in 1..n /\ (i - 1) + 1 = i
        BY <1>c
      <3> QED BY <3>1, <1>c DEF On
    <2>2. On(t, a) => On(t, a)'
      <3> SUFFICES ASSUME NEW i \in 1..n, retired[t][i] = a
                   PROVE  On(t, a)'
        BY DEF On
      <3>1. i + 1 \in 1..(n + 1) /\ list[i + 1] = a
        BY <1>c
      <3> QED BY <3>1, <1>c, <1>d DEF On
    <2>3. a = p => On(t, a)'
      <3>1. 1 \in 1..(n + 1)
        BY <1>c
      <3> QED BY <3>1, <1>c, <1>d DEF On
    <2>4. \A u \in Threads \ {t} : On(u, a)' <=> On(u, a)
      BY <1>d DEF On
    <2> QED BY <2>1, <2>2, <2>3, <2>4
  <1>1. TypeOK'
    <2>1. retired' \in [Threads -> Seq(Addr)]
      BY <1>a, <1>c DEF HazardInv, TypeOK, HazardTypeOK
    <2>2. scan' \in [Threads -> [at : Nat, unread : SUBSET Threads]]
      BY <1>a, <1>e DEF HazardInv, TypeOK, HazardTypeOK, NoScan
    <2> QED BY <2>1, <2>2, <1>a DEF HazardInv, TypeOK, HazardTypeOK, Places
  <1>2. Ownership'
    <2>1. \A a \in Addr : Linked(a)' <=> Linked(a)
      BY <1>a DEF Linked
    <2>2. \A u \in Threads, a \in Addr : Pending(u, a)' <=> Pending(u, a) /\ u # t
      BY <1>a DEF HazardInv, TypeOK, Pending
    <2>3. \A c, d \in Cells : cell'[c] = cell'[d] /\ cell'[c] # NULL => c = d
      BY <1>a DEF HazardInv, Ownership
    <2>4. \A i \in 1..n : retired[t][i] # p
      BY <1>b DEF HazardInv, Ownership, On
    <2>5. ASSUME NEW i \in 1..(n + 1), NEW j \in 1..(n + 1), list[i] = list[j]
          PROVE  i = j
      <3>1. \A k \in 1..(n + 1) : k = 1 \/ (k - 1 \in 1..n /\ list[k] = retired[t][k - 1])
        <4> TAKE k \in 1..(n + 1)
        <4>1. k # 1 => k - 1 \in 1..n /\ (k - 1) + 1 = k
          BY <1>c
        <4> QED BY <4>1, <1>c
      <3>2. CASE i = 1 \/ j = 1
        BY <3>1, <3>2, <2>4, <2>5, <1>c
      <3>3. CASE i # 1 /\ j # 1
        <4>1. i - 1 = j - 1
          BY <3>1, <3>3, <2>5 DEF HazardInv, Ownership
        <4> QED BY <4>1
      <3> QED BY <3>2, <3>3
    <2>6. ASSUME NEW u \in Threads, NEW i \in 1..Len(retired'[u]), NEW j \in 1..Len(retired'[u]),
                 retired'[u][i] = retired'[u][j]
          PROVE  i = j
      <3>1. CASE u = t
        BY <3>1, <2>5, <2>6, <1>c, <1>d
      <3>2. CASE u # t
        BY <3>2, <2>6, <1>d DEF HazardInv, Ownership
      <3> QED BY <3>1, <3>2
    <2>7. ASSUME NEW a \in Addr
          PROVE  /\ Linked(a)' => a \in live'
                 /\ \A u \in Threads :
                      /\ On(u, a)' => a \in live' /\ ~Linked(a)'
                      /\ Pending(u, a)' => a \in live' /\ ~Linked(a)' /\ ~On(u, a)'
                      /\ \A v \in Threads \ {u} :
                           On(u, a)' \/ Pending(u, a)' => ~On(v, a)' /\ ~Pending(v, a)'
      <3>1. /\ Linked(a) => a \in live
            /\ \A u \in Threads :
                 /\ On(u, a) => a \in live /\ ~Linked(a)
                 /\ Pending(u, a) => a \in live /\ ~Linked(a) /\ ~On(u, a)
                 /\ \A v \in Threads \ {u} :
                      On(u, a) \/ Pending(u, a) => ~On(v, a) /\ ~Pending(v, a)
        BY DEF HazardInv, Ownership
      <3>2. live' = live
        BY <1>a
      <3> QED BY <3>1, <3>2, <2>1, <2>2, <1>b, <1>g
    <2> QED BY <2>3, <2>6, <2>7 DEF Ownership
  <1>3. ScanInv'
    <2>1. scan'[t].at <= Len(retired'[t])
      BY <1>c, <1>d, <1>e DEF NoScan
    <2>2. \A u \in Threads \ {t} : scan'[u].at <= Len(retired'[u])
      BY <1>d, <1>f DEF HazardInv, ScanInv
    <2>3. \A u \in Threads : /\ pc'[u] # "scan" => scan'[u] = NoScan
                             /\ pc'[u] = "retire" => mine'[u] # NULL
                             /\ ~Scanning(u)' => scan'[u] = NoScan
      BY <1>a, <1>e, <1>f DEF HazardInv, ScanInv, TypeOK, Scanning
    <2> QED BY <2>1, <2>2, <2>3 DEF ScanInv
  <1>4. PublishedInv'
    <2>1. \A u \in Threads : pc'[u] \in {"validate", "reading"} =>
                               u # t /\ pc[u] = pc'[u] /\ mine'[u] = mine[u]
      BY <1>a DEF HazardInv, TypeOK
    <2>2. Scanning(t)' => scan'[t].unread = Threads
      BY <1>e DEF Scanning, NoScan
    <2>3. \A u \in Threads \ {t} : /\ Scanning(u)' <=> Scanning(u)
                                   /\ Suspect(u)' = Suspect(u)
      BY <1>d, <1>f DEF Scanning, Suspect
    <2> QED BY <2>1, <2>2, <2>3, <1>a, <1>f DEF HazardInv, PublishedInv
  <1> QED BY <1>1, <1>2, <1>3, <1>4 DEF HazardInv

(* A thread that does not change any list keeps every owner. *)
LEMMA SameOwnership ==
  ASSUME HazardInv, UNCHANGED <<cell, retired, live, mine>>,
         \A u \in Threads : pc'[u] = "retire" <=> pc[u] = "retire"
  PROVE  Ownership'
  <1>1. \A u \in Threads, a \in Addr : Pending(u, a)' <=> Pending(u, a)
    BY DEF Pending
  <1>2. \A u \in Threads, a \in Addr : On(u, a)' <=> On(u, a)
    BY DEF On
  <1>3. \A a \in Addr : Linked(a)' <=> Linked(a)
    BY DEF Linked
  <1> QED BY <1>1, <1>2, <1>3 DEF HazardInv, Ownership

(* Reading a pointer: a thread that protects the suspect has published it, *)
(* so it is found, or it has not been read.                                *)
LEMMA ScanReadInv ==
  ASSUME HazardInv, NEW t \in Threads, pc[t] = "scan", ScanRead(t), UNCHANGED <<cell, pc, at, mine>>
  PROVE  HazardInv'
  <1>a. Scanning(t) /\ UNCHANGED <<pointer, retired, live>>
    BY DEF ScanRead
  <1>b. PICK j \in scan[t].unread :
          scan' = [scan EXCEPT ![t] =
            IF pointer[j] = Suspect(t) THEN ScanFrom(scan[t].at + 1, retired[t])
                                       ELSE [at |-> scan[t].at, unread |-> scan[t].unread \ {j}]]
    BY DEF ScanRead, Reserves
  <1>c. /\ scan[t] \in [at : Nat, unread : SUBSET Threads]
        /\ Len(retired[t]) \in Nat /\ scan[t].at <= Len(retired[t])
    BY LenProperties DEF HazardInv, TypeOK, HazardTypeOK, ScanInv
  <1>d. \A u \in Threads \ {t} : scan'[u] = scan[u]
    BY <1>b DEF HazardInv, TypeOK, HazardTypeOK
  <1>e. \/ scan'[t] = NoScan
        \/ scan'[t] = [at |-> scan[t].at + 1, unread |-> Threads] /\ scan[t].at + 1 <= Len(retired[t])
        \/ /\ scan'[t] = [at |-> scan[t].at, unread |-> scan[t].unread \ {j}]
           /\ pointer[j] # Suspect(t)
    BY <1>b, <1>c DEF HazardInv, TypeOK, HazardTypeOK, ScanFrom
  <1>1. TypeOK'
    <2>1. scan'[t] \in [at : Nat, unread : SUBSET Threads]
      BY <1>c, <1>e DEF NoScan
    <2>2. scan' \in [Threads -> [at : Nat, unread : SUBSET Threads]]
      BY <2>1, <1>b DEF HazardInv, TypeOK, HazardTypeOK
    <2> QED BY <2>2, <1>a DEF HazardInv, TypeOK, HazardTypeOK
  <1>2. Ownership'
    BY <1>a, SameOwnership
  <1>3. ScanInv'
    <2>1. scan'[t].at <= Len(retired[t])
      BY <1>c, <1>e DEF NoScan
    <2>2. ~Scanning(t)' => scan'[t] = NoScan
      BY <1>a, <1>c, <1>e DEF Scanning
    <2> QED BY <2>1, <2>2, <1>a, <1>d DEF HazardInv, ScanInv, Scanning
  <1>4. PublishedInv'
    <2> SUFFICES ASSUME NEW r \in Threads, pc[r] = "reading", mine[r] # NULL,
                        NEW u \in Threads, Scanning(u)', Suspect(u)' = mine[r]
                 PROVE  r \in scan'[u].unread
      BY <1>a DEF HazardInv, PublishedInv
    <2>1. CASE u # t
      BY <2>1, <1>a, <1>d DEF HazardInv, PublishedInv, Scanning, Suspect
    <2>2. CASE u = t /\ scan'[t] = [at |-> scan[t].at + 1, unread |-> Threads]
      BY <2>2
    <2>3. CASE u = t /\ scan'[t] = NoScan
      BY <2>3 DEF Scanning, NoScan
    <2>4. CASE u = t /\ scan'[t] = [at |-> scan[t].at, unread |-> scan[t].unread \ {j}]
               /\ pointer[j] # Suspect(t)
      <3>1. scan'[t].at = scan[t].at /\ scan'[t].unread = scan[t].unread \ {j}
        BY <2>4, <1>c
      <3>2. Suspect(t) = mine[r]
        BY <2>4, <3>1, <1>a DEF Suspect
      <3>3. r \in scan[t].unread /\ pointer[r] = mine[r]
        BY <3>2, <1>a DEF HazardInv, PublishedInv
      <3> QED BY <2>4, <3>1, <3>2, <3>3
    <2> QED BY <2>1, <2>2, <2>3, <2>4, <1>e
  <1> QED BY <1>1, <1>2, <1>3, <1>4 DEF HazardInv

(* Freeing: all pointers were read and none is the suspect, so nobody who   *)
(* protects it is left, and it is on no other list.                         *)
LEMMA ScanFreeInv ==
  ASSUME HazardInv, NEW t \in Threads, pc[t] = "scan", ScanFree(t), UNCHANGED <<cell, pc, at, mine>>
  PROVE  HazardInv'
  <1> DEFINE k == scan[t].at
             n == Len(retired[t])
             s == Suspect(t)
             list == Without(retired[t], k)
  <1>a. /\ Scanning(t) /\ scan[t].unread = {} /\ pointer' = pointer
        /\ retired' = [retired EXCEPT ![t] = list]
        /\ scan' = [scan EXCEPT ![t] = ScanFrom(k, list)]
        /\ live' = live \ {s}
    BY DEF ScanFree
  <1>b. k \in 1..n /\ s \in Addr /\ On(t, s) /\ s = retired[t][k] /\ retired[t] \in Seq(Addr)
    BY <1>a, SuspectIsRetired DEF Suspect, HazardInv, TypeOK, HazardTypeOK
  <1>c. /\ n \in Nat /\ list \in Seq(Addr) /\ Len(list) = n - 1 /\ Len(list) \in Nat
        /\ \A j \in 1..(k - 1) : list[j] = retired[t][j]
        /\ \A j \in k..(n - 1) : list[j] = retired[t][j + 1]
    BY <1>b, WithoutPositions, LenProperties
  <1> HIDE DEF list, s
  <1>d. /\ retired'[t] = list
        /\ \A u \in Threads \ {t} : retired'[u] = retired[u] /\ scan'[u] = scan[u]
        /\ scan'[t] = ScanFrom(k, list)
    BY <1>a DEF HazardInv, TypeOK, HazardTypeOK
  <1>e. \/ scan'[t] = NoScan
        \/ scan'[t] = [at |-> k, unread |-> Threads] /\ k <= Len(list)
    BY <1>d DEF ScanFrom
  <1>f. \A j \in 1..(n - 1) :
          \E m \in 1..n : m # k /\ list[j] = retired[t][m] /\ m = IF j < k THEN j ELSE j + 1
    <2> TAKE j \in 1..(n - 1)
    <2>1. CASE j < k
      <3>1. j \in 1..(k - 1) /\ j \in 1..n /\ j # k
        BY <2>1, <1>b, <1>c
      <3> QED BY <2>1, <3>1, <1>c
    <2>2. CASE ~(j < k)
      <3>1. j \in k..(n - 1) /\ j + 1 \in 1..n /\ j + 1 # k
        BY <2>2, <1>b, <1>c
      <3> QED BY <2>2, <3>1, <1>c
    <2> QED BY <2>1, <2>2
  <1>g. \A m \in 1..n : m # k => \E j \in 1..(n - 1) : list[j] = retired[t][m]
    <2> TAKE m \in 1..n
    <2>1. CASE m < k
      <3>1. m \in 1..(k - 1) /\ m \in 1..(n - 1)
        BY <2>1, <1>b, <1>c
      <3> QED BY <3>1, <1>c
    <2>2. CASE m > k
      <3>1. m - 1 \in k..(n - 1) /\ m - 1 \in 1..(n - 1) /\ (m - 1) + 1 = m
        BY <2>2, <1>b, <1>c
      <3> QED BY <3>1, <1>c
    <2> QED BY <2>1, <2>2, <1>b
  <1>h. \A a \in Addr : On(t, a)' <=> On(t, a) /\ a # s
    <2> TAKE a \in Addr
    <2>1. On(t, a)' => On(t, a) /\ a # s
      <3> SUFFICES ASSUME NEW j \in 1..(n - 1), list[j] = a
                   PROVE  On(t, a) /\ a # s
        BY <1>c, <1>d DEF On
      <3>1. PICK m \in 1..n : m # k /\ a = retired[t][m]
        BY <1>f
      <3>2. a # s
        BY <3>1, <1>b DEF HazardInv, Ownership
      <3> QED BY <3>1, <3>2 DEF On
    <2>2. On(t, a) /\ a # s => On(t, a)'
      <3> SUFFICES ASSUME NEW m \in 1..n, retired[t][m] = a, a # s
                   PROVE  On(t, a)'
        BY DEF On
      <3>1. m # k
        BY <1>b
      <3>2. PICK j \in 1..(n - 1) : list[j] = a
        BY <3>1, <1>g
      <3> QED BY <3>2, <1>c, <1>d DEF On
    <2> QED BY <2>1, <2>2
  <1>i. \A u \in Threads \ {t}, a \in Addr : (On(u, a)' <=> On(u, a)) /\ (On(u, a) => a # s)
    BY <1>b, <1>d DEF On, HazardInv, Ownership
  <1>1. TypeOK'
    <2>1. scan'[t] \in [at : Nat, unread : SUBSET Threads]
      BY <1>b, <1>c, <1>e DEF NoScan
    <2>2. /\ scan' \in [Threads -> [at : Nat, unread : SUBSET Threads]]
          /\ retired' \in [Threads -> Seq(Addr)]
      BY <2>1, <1>a, <1>c, <1>d DEF HazardInv, TypeOK, HazardTypeOK
    <2> QED BY <2>2, <1>a DEF HazardInv, TypeOK, HazardTypeOK
  <1>2. Ownership'
    <2>1. \A a \in Addr : Linked(a)' <=> Linked(a)
      BY DEF Linked
    <2>2. \A u \in Threads, a \in Addr : Pending(u, a)' <=> Pending(u, a)
      BY DEF Pending
    <2>3. \A c, d \in Cells : cell'[c] = cell'[d] /\ cell'[c] # NULL => c = d
      BY DEF HazardInv, Ownership
    <2>4. ASSUME NEW i \in 1..(n - 1), NEW j \in 1..(n - 1), list[i] = list[j]
          PROVE  i = j
      <3>1. PICK l \in 1..n : list[i] = retired[t][l] /\ l = IF i < k THEN i ELSE i + 1
        BY <1>f
      <3>2. PICK m \in 1..n : list[j] = retired[t][m] /\ m = IF j < k THEN j ELSE j + 1
        BY <1>f
      <3>3. l = m
        BY <3>1, <3>2, <2>4 DEF HazardInv, Ownership
      <3>4. k \in Nat /\ i \in Nat /\ j \in Nat
        BY <1>b, <1>c
      <3> HIDE DEF k
      <3> QED BY <3>1, <3>2, <3>3, <3>4
    <2>5. ASSUME NEW u \in Threads, NEW i \in 1..Len(retired'[u]), NEW j \in 1..Len(retired'[u]),
                 retired'[u][i] = retired'[u][j]
          PROVE  i = j
      <3>1. CASE u = t
        BY <3>1, <2>4, <2>5, <1>c, <1>d
      <3>2. CASE u # t
        BY <3>2, <2>5, <1>d DEF HazardInv, Ownership
      <3> QED BY <3>1, <3>2
    <2>6. ASSUME NEW a \in Addr
          PROVE  /\ Linked(a)' => a \in live'
                 /\ \A u \in Threads :
                      /\ On(u, a)' => a \in live' /\ ~Linked(a)'
                      /\ Pending(u, a)' => a \in live' /\ ~Linked(a)' /\ ~On(u, a)'
                      /\ \A v \in Threads \ {u} :
                           On(u, a)' \/ Pending(u, a)' => ~On(v, a)' /\ ~Pending(v, a)'
      <3>1. /\ Linked(a) => a \in live
            /\ \A u \in Threads :
                 /\ On(u, a) => a \in live /\ ~Linked(a)
                 /\ Pending(u, a) => a \in live /\ ~Linked(a) /\ ~On(u, a)
                 /\ \A v \in Threads \ {u} :
                      On(u, a) \/ Pending(u, a) => ~On(v, a) /\ ~Pending(v, a)
        BY DEF HazardInv, Ownership
      <3>2. a \in live' <=> a \in live /\ a # s
        BY <1>a
      <3> QED BY <3>1, <3>2, <2>1, <2>2, <1>b, <1>h, <1>i
    <2> QED BY <2>3, <2>5, <2>6 DEF Ownership
  <1>3. ScanInv'
    <2>1. scan'[t].at <= Len(retired'[t])
      BY <1>c, <1>d, <1>e DEF NoScan
    <2>2. \A u \in Threads \ {t} : scan'[u].at <= Len(retired'[u])
      BY <1>d DEF HazardInv, ScanInv
    <2>3. ~Scanning(t)' => scan'[t] = NoScan
      BY <1>b, <1>e DEF Scanning
    <2> QED BY <2>1, <2>2, <2>3, <1>d DEF HazardInv, ScanInv, Scanning
  <1>4. PublishedInv'
    <2>1. ASSUME NEW r \in Threads, pc[r] = "reading", mine[r] # NULL
          PROVE  mine[r] # s
      BY <2>1, <1>a DEF HazardInv, PublishedInv, s
    <2>2. ASSUME NEW r \in Threads, pc[r] = "reading", mine[r] # NULL,
                 NEW u \in Threads, Scanning(u)', Suspect(u)' = mine[r]
          PROVE  r \in scan'[u].unread
      <3>1. CASE u = t
        BY <3>1, <2>2, <1>e DEF Scanning, NoScan
      <3>2. CASE u # t
        BY <3>2, <2>2, <1>d DEF HazardInv, PublishedInv, Scanning, Suspect
      <3> QED BY <3>1, <3>2
    <2> QED BY <2>1, <2>2, <1>a DEF HazardInv, PublishedInv
  <1> QED BY <1>1, <1>2, <1>3, <1>4 DEF HazardInv

LEMMA ScanDoneInv ==
  ASSUME HazardInv, NEW t \in Threads, ScanDone(t)
  PROVE  HazardInv'
  <1> USE DEF ScanDone, From, hazardVars
  <1>1. TypeOK'
    BY DEF HazardInv, TypeOK, HazardTypeOK, Places
  <1>2. Ownership'
    BY SameOwnership DEF HazardInv, TypeOK
  <1>3. ScanInv'
    BY DEF HazardInv, ScanInv, TypeOK, HazardTypeOK, Scanning, NoScan
  <1>4. PublishedInv'
    BY DEF HazardInv, TypeOK, PublishedInv, Scanning, Suspect
  <1> QED BY <1>1, <1>2, <1>3, <1>4 DEF HazardInv

LEMMA NextInv == HazardInv /\ [Next]_vars => HazardInv'
  <1> SUFFICES ASSUME HazardInv, [Next]_vars PROVE HazardInv'
    OBVIOUS
  <1>1. CASE UNCHANGED vars
    <2> USE <1>1 DEF vars, hazardVars, HazardInv
    <2>1. TypeOK'
      BY DEF TypeOK, HazardTypeOK
    <2>2. Ownership'
      BY SameOwnership
    <2>3. ScanInv' /\ PublishedInv'
      BY DEF ScanInv, PublishedInv, Scanning, Suspect
    <2> QED BY <2>1, <2>2, <2>3
  <1>2. ASSUME NEW t \in Threads, Scan(t) PROVE HazardInv'
    BY <1>2, ScanReadInv, ScanFreeInv DEF Scan
  <1> QED BY <1>1, <1>2, ProtectInv, ProtectLoadInv, ProtectPublishInv, ProtectValidateInv,
             ReadDoneInv, SwapInv, RetireOldInv, ScanDoneInv DEF Next

(* Who owns a node, where a scan is, and what a published pointer still     *)
(* forbids, in every reachable state.                                       *)
THEOREM HazardInvariance == Spec => []HazardInv
  BY InitInv, NextInv, PTL DEF Spec

(* The promise of HazardPointer_protect: the node it returned stays live    *)
(* until the thread clears its pointer.                                     *)
THEOREM Protection == Spec => []ProtectedIsLive
  <1>1. HazardInv => ProtectedIsLive
    BY DEF HazardInv, PublishedInv, ProtectedIsLive
  <1> QED BY <1>1, HazardInvariance, PTL

-----------------------------------------------------------------------------
(* How much is retired and not freed.                                      *)

LEMMA OtherThreads ==
  ASSUME NEW t \in Threads
  PROVE  /\ IsFiniteSet(Threads \ {t}) /\ Cardinality(Threads \ {t}) = Others
         /\ Others \in Nat
  <1>1. /\ IsFiniteSet(Threads \ {t})
        /\ Cardinality(Threads \ {t}) = Cardinality(Threads) - 1
        /\ Cardinality(Threads \ {t}) \in Nat
    BY HazardCellsAssumption, FS_RemoveElement, FS_CardinalityType
  <1> QED BY <1>1 DEF Others

LEMMA ThreadsCount ==
  ASSUME Threads # {}
  PROVE  /\ Others \in Nat /\ MostUnscanned \in Nat /\ MostGarbage = MostUnscanned + 1
         /\ 2 * Others <= MostUnscanned /\ RETIRED_THRESHOLD <= MostUnscanned
  <1>1. Others \in Nat
    BY OtherThreads
  <1>3. MostUnscanned \in Nat /\ 2 * Others <= MostUnscanned /\ RETIRED_THRESHOLD <= MostUnscanned
    BY <1>1 DEF MostUnscanned
  <1> QED BY <1>1, <1>3 DEF MostGarbage

(* A subset of the other threads has at most as many members. *)
LEMMA FewerThreads ==
  ASSUME NEW t \in Threads, NEW S \in SUBSET (Threads \ {t}), NEW T \in SUBSET S
  PROVE  /\ IsFiniteSet(S) /\ Cardinality(S) \in Nat /\ Cardinality(S) <= Others
         /\ IsFiniteSet(T) /\ Cardinality(T) \in Nat /\ Cardinality(T) <= Cardinality(S)
  <1>1. IsFiniteSet(S) /\ Cardinality(S) <= Others
    <2>1. IsFiniteSet(Threads \ {t}) /\ Cardinality(Threads \ {t}) = Others
      BY OtherThreads
    <2>2. IsFiniteSet(S) /\ Cardinality(S) <= Cardinality(Threads \ {t})
      BY <2>1, FS_Subset
    <2> QED BY <2>1, <2>2
  <1>2. IsFiniteSet(T) /\ Cardinality(T) <= Cardinality(S)
    BY <1>1, FS_Subset
  <1> QED BY <1>1, <1>2, FS_CardinalityType

LEMMA KeptTypes ==
  ASSUME NEW t \in Threads
  PROVE  /\ Cardinality(Keepers(t)) \in Nat /\ Cardinality(Keepers(t)) <= Others
         /\ Cardinality(LateKeepers(t)) \in Nat /\ Cardinality(LateKeepers(t)) <= Others
  BY FewerThreads DEF Keepers, LateKeepers

(* What is ahead of a scan is on the list of that thread, and not in a cell. *)
LEMMA AheadIsUnlinked ==
  ASSUME HazardInv, NEW t \in Threads, Scanning(t), NEW a, Ahead(t, a)
  PROVE  a \in Addr /\ On(t, a) /\ ~Linked(a)
  <1>1. /\ retired[t] \in Seq(Addr) /\ scan[t].at \in Nat /\ scan[t].at > 0
        /\ Len(retired[t]) \in Nat
    BY LenProperties DEF HazardInv, TypeOK, HazardTypeOK, Scanning
  <1>2. PICK i \in scan[t].at..Len(retired[t]) : retired[t][i] = a
    BY DEF Ahead
  <1>3. i \in 1..Len(retired[t])
    BY <1>1
  <1>4. a \in Addr /\ On(t, a)
    BY <1>1, <1>2, <1>3, ElementOfSeq DEF On
  <1> QED BY <1>4 DEF HazardInv, Ownership

(* A step after which no more can be kept from a scan, and the scan stays. *)
LEMMA KeptStep ==
  ASSUME HazardInv, NEW t \in Threads, Kept(t),
         retired'[t] = retired[t], scan'[t] = scan[t],
         Scanning(t) => Keepers(t)' \subseteq Keepers(t) /\ LateKeepers(t)' \subseteq LateKeepers(t)
  PROVE  Kept(t)'
  <1>1. CASE Scanning(t)
    <2> DEFINE k == Cardinality(Keepers(t))
               l == Cardinality(LateKeepers(t))
               kk == Cardinality(Keepers(t)')
               ll == Cardinality(LateKeepers(t)')
    <2>1. k \in Nat /\ l \in Nat /\ kk \in Nat /\ ll \in Nat /\ kk <= k /\ ll <= l
      <3>1. Keepers(t) \in SUBSET (Threads \ {t}) /\ LateKeepers(t) \in SUBSET (Threads \ {t})
        BY DEF Keepers, LateKeepers
      <3> QED BY <1>1, <3>1, FewerThreads
    <2>2. (scan[t].at - 1) + (k + l) <= 2 * Others /\ Len(retired[t]) <= MostGarbage
      BY <1>1 DEF Kept
    <2>3. scan[t].at \in Nat /\ Others \in Nat
      BY ThreadsCount DEF HazardInv, TypeOK, HazardTypeOK
    <2>4. (scan[t].at - 1) + (kk + ll) <= 2 * Others
      <3> HIDE DEF k, l, kk, ll
      <3> QED BY <2>1, <2>2, <2>3
    <2> QED BY <1>1, <2>2, <2>4 DEF Kept, Scanning
  <1>2. CASE ~Scanning(t)
    BY <1>2 DEF Kept, Scanning
  <1> QED BY <1>1, <1>2

(* Where a scan starts, or does not, everything fits. *)
LEMMA GarbageInit == Init => GarbageInv
  <1> SUFFICES ASSUME Init PROVE GarbageInv
    OBVIOUS
  <1>1. \A t \in Threads : ~Scanning(t) /\ retired[t] = <<>> /\ pointer[t] = NULL
    <2>1. ~(0 > 0) /\ NoScan.at = 0
      BY DEF NoScan
    <2> QED BY <2>1 DEF Init, HazardInit, Scanning
  <1>2. ASSUME NEW t \in Threads PROVE Len(retired[t]) <= MostUnscanned
    <2>1. Len(retired[t]) = 0
      BY <1>1
    <2>2. MostUnscanned \in Nat
      BY ThreadsCount
    <2> QED BY <2>1, <2>2
  <1> QED BY <1>1, <1>2 DEF GarbageInv, QuietInv, Kept

(* Steps that leave the lists, the scans and the pointers: what a thread    *)
(* loads is in a cell, so it is not ahead of any scan.                      *)
LEMMA ClientGarbage ==
  ASSUME HazardInv, GarbageInv, NEW u \in Threads,
         UNCHANGED <<pointer, retired, scan>>,
         \A v \in Threads \ {u} : pc'[v] = pc[v] /\ mine'[v] = mine[v],
         pc'[u] = "publish" => Linked(mine'[u]) \/ mine'[u] = NULL
  PROVE  \A t \in Threads : Kept(t)'
  <1> SUFFICES ASSUME NEW t \in Threads PROVE Kept(t)'
    OBVIOUS
  <1>1. Kept(t) /\ NULL \notin Addr
    BY DEF GarbageInv
  <1>2. \A a : Ahead(t, a)' <=> Ahead(t, a)
    BY DEF Ahead
  <1>3. Keepers(t)' = Keepers(t)
    BY DEF Keepers, Ahead
  <1>4. Scanning(t) => LateKeepers(t)' \subseteq LateKeepers(t)
    BY <1>1, AheadIsUnlinked DEF LateKeepers, Ahead
  <1> QED BY <1>1, <1>3, <1>4, KeptStep

LEMMA PublishGarbage ==
  ASSUME HazardInv, GarbageInv, NEW u \in Threads, ProtectPublish(u)
  PROVE  \A t \in Threads : Kept(t)'
  <1> SUFFICES ASSUME NEW t \in Threads PROVE Kept(t)'
    OBVIOUS
  <1>0. /\ pc[u] = "publish" /\ pc'[u] = "validate" /\ pointer'[u] = mine[u]
        /\ \A v \in Threads \ {u} : pc'[v] = pc[v] /\ pointer'[v] = pointer[v]
        /\ mine' = mine /\ retired' = retired /\ scan' = scan
    BY DEF ProtectPublish, Publish, From, HazardInv, TypeOK, HazardTypeOK
  <1>1. Kept(t)
    BY DEF GarbageInv
  <1>2. CASE Scanning(t) /\ u \in LateKeepers(t)
    <2> DEFINE k == Cardinality(Keepers(t))
               l == Cardinality(LateKeepers(t))
               kk == Cardinality(Keepers(t)')
               ll == Cardinality(LateKeepers(t)')
    <2>1. Keepers(t)' \subseteq Keepers(t) \cup {u} /\ LateKeepers(t)' \subseteq LateKeepers(t) \ {u}
      BY <1>0 DEF Keepers, LateKeepers, Ahead
    <2>2. Keepers(t) \in SUBSET (Threads \ {t}) /\ LateKeepers(t) \in SUBSET (Threads \ {t})
      BY DEF Keepers, LateKeepers
    <2>3. IsFiniteSet(Keepers(t)) /\ IsFiniteSet(LateKeepers(t)) /\ k \in Nat /\ l \in Nat
      BY <2>2, FewerThreads
    <2>4. /\ IsFiniteSet(Keepers(t) \cup {u}) /\ Cardinality(Keepers(t) \cup {u}) <= k + 1
          /\ IsFiniteSet(LateKeepers(t) \ {u}) /\ Cardinality(LateKeepers(t) \ {u}) = l - 1
      <3>1. /\ IsFiniteSet(Keepers(t) \cup {u})
            /\ Cardinality(Keepers(t) \cup {u}) = IF u \in Keepers(t) THEN k ELSE k + 1
        BY <2>3, FS_AddElement
      <3>2. /\ IsFiniteSet(LateKeepers(t) \ {u}) /\ Cardinality(LateKeepers(t) \ {u}) = l - 1
        BY <2>3, <1>2, FS_RemoveElement
      <3> HIDE DEF k, l
      <3>3. Cardinality(Keepers(t) \cup {u}) <= k + 1
        BY <3>1, <2>3
      <3> QED BY <3>1, <3>2, <3>3
    <2>5. /\ kk <= Cardinality(Keepers(t) \cup {u}) /\ kk \in Nat
          /\ ll <= Cardinality(LateKeepers(t) \ {u}) /\ ll \in Nat
          /\ Cardinality(Keepers(t) \cup {u}) \in Nat
      BY <2>1, <2>4, FS_Subset, FS_CardinalityType
    <2>6. (scan[t].at - 1) + (k + l) <= 2 * Others /\ Len(retired[t]) <= MostGarbage
      BY <1>1, <1>2 DEF Kept
    <2>7. scan[t].at \in Nat /\ Others \in Nat
      BY ThreadsCount DEF HazardInv, TypeOK, HazardTypeOK
    <2>8. (scan[t].at - 1) + (kk + ll) <= 2 * Others
      <3> HIDE DEF k, l, kk, ll
      <3> QED BY <2>3, <2>4, <2>5, <2>6, <2>7
    <2> QED BY <1>0, <1>2, <2>6, <2>8 DEF Kept, Scanning
  <1>3. CASE ~(Scanning(t) /\ u \in LateKeepers(t))
    <2>1. Scanning(t) => Keepers(t)' \subseteq Keepers(t) /\ LateKeepers(t)' \subseteq LateKeepers(t)
      BY <1>0, <1>3 DEF Keepers, LateKeepers, Ahead
    <2> QED BY <1>0, <1>1, <2>1, KeptStep
  <1> QED BY <1>2, <1>3

LEMMA ReadDoneGarbage ==
  ASSUME HazardInv, GarbageInv, NEW u \in Threads, ReadDone(u)
  PROVE  \A t \in Threads : Kept(t)'
  <1> SUFFICES ASSUME NEW t \in Threads PROVE Kept(t)'
    OBVIOUS
  <1>0. /\ pc'[u] = "idle" /\ pointer'[u] = NULL
        /\ \A v \in Threads \ {u} : /\ pc'[v] = pc[v] /\ pointer'[v] = pointer[v]
                                    /\ mine'[v] = mine[v]
        /\ retired' = retired /\ scan' = scan
    BY DEF ReadDone, Clear, From, HazardInv, TypeOK, HazardTypeOK
  <1>1. Kept(t) /\ NULL \notin Addr
    BY DEF GarbageInv
  <1>2. Scanning(t) => ~Ahead(t, NULL)
    BY <1>1, AheadIsUnlinked
  <1>3. Scanning(t) => Keepers(t)' \subseteq Keepers(t) /\ LateKeepers(t)' \subseteq LateKeepers(t)
    BY <1>0, <1>2 DEF Keepers, LateKeepers, Ahead
  <1> QED BY <1>0, <1>1, <1>3, KeptStep

(* A list that grew by one is scanned if it is longer than the threshold. *)
LEMMA RetireGarbage ==
  ASSUME HazardInv, GarbageInv, NEW u \in Threads, RetireOld(u)
  PROVE  \A t \in Threads : Kept(t)'
  <1> SUFFICES ASSUME NEW t \in Threads PROVE Kept(t)'
    OBVIOUS
  <1> DEFINE list == <<mine[u]>> \o retired[u]
  <1>0. /\ pc[u] = "retire" /\ pc' = [pc EXCEPT ![u] = "scan"]
        /\ retired' = [retired EXCEPT ![u] = list]
        /\ scan' = [scan EXCEPT ![u] = IF Full(list) THEN ScanFrom(1, list) ELSE NoScan]
        /\ mine' = [mine EXCEPT ![u] = NULL] /\ pointer' = pointer
    BY DEF RetireOld, Retire, From
  <1>1. CASE t # u
    <2>1. retired'[t] = retired[t] /\ scan'[t] = scan[t] /\ Kept(t)
      BY <1>0, <1>1 DEF HazardInv, TypeOK, HazardTypeOK, GarbageInv
    <2>2. Keepers(t)' \subseteq Keepers(t) /\ LateKeepers(t)' \subseteq LateKeepers(t)
      BY <1>0, <2>1 DEF Keepers, LateKeepers, Ahead, HazardInv, TypeOK
    <2> QED BY <2>1, <2>2, KeptStep
  <1>2. CASE t = u
    <2>1. mine[u] \in Addr /\ retired[u] \in Seq(Addr) /\ ~Scanning(u)
      <3>1. mine[u] \in Addr /\ retired[u] \in Seq(Addr) /\ scan[u] = NoScan
        BY <1>0 DEF HazardInv, TypeOK, HazardTypeOK, ScanInv
      <3>2. ~(0 > 0) /\ NoScan.at = 0
        BY DEF NoScan
      <3> QED BY <3>1, <3>2 DEF Scanning
    <2>2. Len(list) = Len(retired[u]) + 1 /\ Len(retired[u]) \in Nat
      BY <2>1, PrependPositions
    <2>3. Len(retired[u]) <= MostUnscanned
      BY <2>1 DEF GarbageInv, Kept
    <2> HIDE DEF list
    <2>4. retired'[u] = list /\ scan'[u] = IF Full(list) THEN ScanFrom(1, list) ELSE NoScan
      BY <1>0 DEF HazardInv, TypeOK, HazardTypeOK
    <2>5. CASE Full(list)
      <3>1. scan'[u].at = 1
        BY <2>2, <2>4, <2>5 DEF ScanFrom
      <3>2. /\ Cardinality(Keepers(u)') \in Nat /\ Cardinality(Keepers(u)') <= Others
            /\ Cardinality(LateKeepers(u)') \in Nat /\ Cardinality(LateKeepers(u)') <= Others
        BY FewerThreads DEF Keepers, LateKeepers
      <3>3. Len(retired'[u]) <= MostGarbage
        BY <2>2, <2>3, <2>4, ThreadsCount
      <3>4. (scan'[u].at - 1) + (Cardinality(Keepers(u)') + Cardinality(LateKeepers(u)')) <= 2 * Others
        BY <3>1, <3>2, ThreadsCount
      <3> QED BY <1>2, <3>1, <3>3, <3>4 DEF Kept, Scanning
    <2>6. CASE ~Full(list)
      <3>1. ~Scanning(u)'
        BY <2>4, <2>6 DEF NoScan, Scanning
      <3>2. Len(retired'[u]) <= MostUnscanned
        BY <2>2, <2>4, <2>6, ThreadsCount DEF Full
      <3> QED BY <1>2, <3>1, <3>2 DEF Kept
    <2> QED BY <2>5, <2>6
  <1> QED BY <1>1, <1>2

(* A node is passed over because another thread keeps it: that thread is   *)
(* ahead of the scan no longer.                                            *)
LEMMA ScanReadGarbage ==
  ASSUME HazardInv, GarbageInv, NEW u \in Threads, pc[u] = "scan", ScanRead(u),
         UNCHANGED <<cell, pc, at, mine>>
  PROVE  \A t \in Threads : Kept(t)'
  <1> SUFFICES ASSUME NEW t \in Threads PROVE Kept(t)'
    OBVIOUS
  <1>a. Scanning(u) /\ UNCHANGED <<pointer, retired, live>>
    BY DEF ScanRead
  <1>b. PICK j \in scan[u].unread :
          scan' = [scan EXCEPT ![u] =
            IF pointer[j] = Suspect(u) THEN ScanFrom(scan[u].at + 1, retired[u])
                                       ELSE [at |-> scan[u].at, unread |-> scan[u].unread \ {j}]]
    BY DEF ScanRead, Reserves
  <1>c. /\ scan[u] \in [at : Nat, unread : SUBSET Threads] /\ j \in Threads
        /\ scan[u].at \in 1..Len(retired[u]) /\ Len(retired[u]) \in Nat
        /\ retired[u] \in Seq(Addr) /\ Suspect(u) = retired[u][scan[u].at] /\ Suspect(u) \in Addr
    BY <1>a, SuspectIsRetired, LenProperties DEF HazardInv, TypeOK, HazardTypeOK, Suspect
  <1>d. Kept(t) /\ Kept(u)
    BY DEF GarbageInv
  <1>1. CASE t # u
    <2>1. retired'[t] = retired[t] /\ scan'[t] = scan[t]
      BY <1>a, <1>b, <1>1 DEF HazardInv, TypeOK, HazardTypeOK
    <2>2. Keepers(t)' \subseteq Keepers(t) /\ LateKeepers(t)' \subseteq LateKeepers(t)
      BY <1>a, <2>1 DEF Keepers, LateKeepers, Ahead
    <2> QED BY <1>d, <2>1, <2>2, KeptStep
  <1>2. CASE t = u /\ pointer[j] # Suspect(u)
    <2>1. scan'[t].at = scan[t].at
      BY <1>b, <1>c, <1>2 DEF HazardInv, TypeOK, HazardTypeOK
    <2>2. Keepers(t)' = Keepers(t) /\ LateKeepers(t)' = LateKeepers(t)
      BY <1>a, <2>1 DEF Keepers, LateKeepers, Ahead
    <2> QED BY <1>a, <1>d, <2>1, <2>2 DEF Kept, Scanning
  <1>3. CASE t = u /\ pointer[j] = Suspect(u)
    <2> DEFINE i == scan[u].at
               n == Len(retired[u])
               k == Cardinality(Keepers(u))
               l == Cardinality(LateKeepers(u))
    <2>1. j # u
      BY <1>3, <1>c DEF GarbageInv, QuietInv
    <2>2. j \in Keepers(u)
      BY <1>3, <1>c, <2>1 DEF Keepers, Ahead
    <2>3. /\ Keepers(u) \in SUBSET (Threads \ {u}) /\ LateKeepers(u) \in SUBSET (Threads \ {u})
          /\ IsFiniteSet(Keepers(u)) /\ IsFiniteSet(LateKeepers(u))
          /\ IsFiniteSet(Keepers(u) \ {j}) /\ Cardinality(Keepers(u) \ {j}) = k - 1
          /\ k \in Nat /\ l \in Nat /\ k - 1 \in Nat
      <3>1. Keepers(u) \in SUBSET (Threads \ {u}) /\ LateKeepers(u) \in SUBSET (Threads \ {u})
        BY DEF Keepers, LateKeepers
      <3>2. IsFiniteSet(Keepers(u)) /\ IsFiniteSet(LateKeepers(u)) /\ k \in Nat /\ l \in Nat
        BY <3>1, FewerThreads
      <3>3. IsFiniteSet(Keepers(u) \ {j}) /\ Cardinality(Keepers(u) \ {j}) = k - 1
        BY <2>2, <3>2, FS_RemoveElement
      <3>4. Cardinality(Keepers(u) \ {j}) \in Nat
        BY <3>3, FS_CardinalityType
      <3> QED BY <3>1, <3>2, <3>3, <3>4
    <2>4. (i - 1) + (k + l) <= 2 * Others /\ n <= MostGarbage
      BY <1>a, <1>d DEF Kept
    <2>5. scan'[u] = ScanFrom(i + 1, retired[u])
      BY <1>b, <1>3 DEF HazardInv, TypeOK, HazardTypeOK
    <2>6. i \in Nat /\ i > 0 /\ i <= n /\ n \in Nat /\ Others \in Nat /\ 2 * Others <= MostUnscanned
          /\ MostUnscanned \in Nat
      BY <1>c, ThreadsCount
    <2>7. CASE i + 1 <= n
      <3>1. scan'[u].at = i + 1
        BY <2>5, <2>7 DEF ScanFrom
      <3>2. \A a : Ahead(u, a)' => \E m \in (i + 1)..n : retired[u][m] = a
        BY <1>a, <3>1 DEF Ahead
      <3>3. \A a : Ahead(u, a)' => Ahead(u, a) /\ a # Suspect(u)
        <4> TAKE a
        <4> HAVE Ahead(u, a)'
        <4>1. PICK m \in (i + 1)..n : retired[u][m] = a
          BY <3>2
        <4>2. m \in i..n /\ m \in 1..n /\ m # i
          BY <2>6
        <4>3. Ahead(u, a)
          BY <4>1, <4>2 DEF Ahead
        <4>4. a # retired[u][i]
          BY <4>1, <4>2, <1>c DEF HazardInv, Ownership
        <4> QED BY <4>3, <4>4, <1>c
      <3>4. Keepers(u)' \subseteq Keepers(u) \ {j} /\ LateKeepers(u)' \subseteq LateKeepers(u)
        <4> DEFINE AheadNext(a) == \E m \in scan'[u].at..Len(retired'[u]) : retired'[u][m] = a
        <4>0. \A a : AheadNext(a) <=> Ahead(u, a)'
          BY DEF Ahead
        <4>1. \A v \in Keepers(u)' : v \in Threads \ {u} /\ AheadNext(pointer[v])
          BY <1>a DEF Keepers, Ahead
        <4>2. \A v \in LateKeepers(u)' : v \in Threads \ {u} /\ pc[v] = "publish" /\ AheadNext(mine[v])
          BY DEF LateKeepers, Ahead
        <4> HIDE DEF AheadNext
        <4> QED BY <4>0, <4>1, <4>2, <3>3, <1>3 DEF Keepers, LateKeepers
      <3>5. /\ Cardinality(Keepers(u)') \in Nat /\ Cardinality(Keepers(u)') <= k - 1
            /\ Cardinality(LateKeepers(u)') \in Nat /\ Cardinality(LateKeepers(u)') <= l
        <4>1. Keepers(u) \ {j} \in SUBSET (Threads \ {u})
          BY <2>3
        <4> QED BY <3>4, <2>3, <4>1, FewerThreads
      <3>6. (scan'[u].at - 1) + (Cardinality(Keepers(u)') + Cardinality(LateKeepers(u)')) <= 2 * Others
        <4> HIDE DEF i, k, l
        <4>1. scan'[u].at - 1 = i
          BY <3>1, <2>6
        <4> QED BY <4>1, <3>5, <2>3, <2>4, <2>6
      <3> QED BY <1>3, <1>a, <3>1, <3>6, <2>4, <2>6 DEF Kept, Scanning
    <2>8. CASE ~(i + 1 <= n)
      <3>1. ~Scanning(u)'
        BY <2>5, <2>8 DEF ScanFrom, NoScan, Scanning
      <3>2. n <= MostUnscanned
        <4> HIDE DEF i, k, l, n
        <4>1. n = i
          BY <2>8, <2>6
        <4> QED BY <4>1, <2>3, <2>4, <2>6
      <3> QED BY <1>3, <1>a, <3>1, <3>2 DEF Kept
    <2> QED BY <2>7, <2>8
  <1> QED BY <1>1, <1>2, <1>3

(* A node that is freed leaves the list shorter. *)
LEMMA ScanFreeGarbage ==
  ASSUME HazardInv, GarbageInv, NEW u \in Threads, pc[u] = "scan", ScanFree(u),
         UNCHANGED <<cell, pc, at, mine>>
  PROVE  \A t \in Threads : Kept(t)'
  <1> SUFFICES ASSUME NEW t \in Threads PROVE Kept(t)'
    OBVIOUS
  <1> DEFINE i == scan[u].at
             n == Len(retired[u])
             list == Without(retired[u], i)
             k == Cardinality(Keepers(u))
             l == Cardinality(LateKeepers(u))
  <1>a. /\ Scanning(u) /\ pointer' = pointer
        /\ retired' = [retired EXCEPT ![u] = list]
        /\ scan' = [scan EXCEPT ![u] = ScanFrom(i, list)]
    BY DEF ScanFree
  <1>b. i \in 1..n /\ n \in Nat /\ retired[u] \in Seq(Addr)
    BY <1>a, SuspectIsRetired, LenProperties DEF HazardInv, TypeOK, HazardTypeOK
  <1>c. Len(list) = n - 1 /\ \A m \in i..(n - 1) : list[m] = retired[u][m + 1]
    BY <1>b, WithoutPositions
  <1> HIDE DEF list
  <1>d. Kept(t) /\ Kept(u)
    BY DEF GarbageInv
  <1>1. CASE t # u
    <2>1. retired'[t] = retired[t] /\ scan'[t] = scan[t]
      BY <1>a, <1>1 DEF HazardInv, TypeOK, HazardTypeOK
    <2>2. Keepers(t)' \subseteq Keepers(t) /\ LateKeepers(t)' \subseteq LateKeepers(t)
      BY <1>a, <2>1 DEF Keepers, LateKeepers, Ahead
    <2> QED BY <1>d, <2>1, <2>2, KeptStep
  <1>2. CASE t = u
    <2>0. retired'[u] = list /\ scan'[u] = ScanFrom(i, list)
      BY <1>a DEF HazardInv, TypeOK, HazardTypeOK
    <2>1. (i - 1) + (k + l) <= 2 * Others /\ n <= MostGarbage
      BY <1>a, <1>d DEF Kept
    <2>2. /\ Keepers(u) \in SUBSET (Threads \ {u}) /\ LateKeepers(u) \in SUBSET (Threads \ {u})
          /\ k \in Nat /\ l \in Nat
      BY KeptTypes DEF Keepers, LateKeepers
    <2>3. /\ i \in Nat /\ i > 0 /\ i <= n /\ Others \in Nat /\ 2 * Others <= MostUnscanned
          /\ MostUnscanned \in Nat /\ MostGarbage = MostUnscanned + 1
      BY <1>b, ThreadsCount
    <2>4. CASE i <= Len(list)
      <3>1. scan'[u].at = i
        BY <2>0, <2>4 DEF ScanFrom
      <3>2. \A a : Ahead(u, a)' => Ahead(u, a)
        <4> TAKE a
        <4> HAVE Ahead(u, a)'
        <4>1. PICK m \in i..(n - 1) : list[m] = a
          BY <2>0, <3>1, <1>c DEF Ahead
        <4>2. m + 1 \in i..n /\ retired[u][m + 1] = a
          BY <4>1, <1>b, <1>c
        <4> QED BY <4>2 DEF Ahead
      <3>3. Keepers(u)' \subseteq Keepers(u) /\ LateKeepers(u)' \subseteq LateKeepers(u)
        <4> DEFINE AheadNext(a) == \E m \in scan'[u].at..Len(retired'[u]) : retired'[u][m] = a
        <4>0. \A a : AheadNext(a) <=> Ahead(u, a)'
          BY DEF Ahead
        <4>1. \A v \in Keepers(u)' : v \in Threads \ {u} /\ AheadNext(pointer[v])
          BY <1>a DEF Keepers, Ahead
        <4>2. \A v \in LateKeepers(u)' : v \in Threads \ {u} /\ pc[v] = "publish" /\ AheadNext(mine[v])
          BY DEF LateKeepers, Ahead
        <4> HIDE DEF AheadNext
        <4> QED BY <4>0, <4>1, <4>2, <3>2 DEF Keepers, LateKeepers
      <3>4. /\ Cardinality(Keepers(u)') \in Nat /\ Cardinality(Keepers(u)') <= k
            /\ Cardinality(LateKeepers(u)') \in Nat /\ Cardinality(LateKeepers(u)') <= l
        BY <3>3, <2>2, FewerThreads
      <3>5. (scan'[u].at - 1) + (Cardinality(Keepers(u)') + Cardinality(LateKeepers(u)')) <= 2 * Others
        <4> HIDE DEF i, k, l
        <4> QED BY <3>1, <3>4, <2>1, <2>2, <2>3
      <3>6. Len(retired'[u]) <= MostGarbage
        BY <2>0, <1>b, <1>c, <2>1, <2>3
      <3> QED BY <1>2, <3>1, <3>5, <3>6, <2>3 DEF Kept, Scanning
    <2>5. CASE ~(i <= Len(list))
      <3>1. ~Scanning(u)'
        BY <2>0, <2>5 DEF ScanFrom, NoScan, Scanning
      <3>2. n - 1 <= MostUnscanned
        BY <2>1, <2>3, <1>b
      <3> QED BY <1>2, <2>0, <1>c, <3>1, <3>2 DEF Kept
    <2> QED BY <2>4, <2>5
  <1> QED BY <1>1, <1>2

LEMMA QuietNext == HazardInv /\ QuietInv /\ [Next]_vars => QuietInv'
  <1> SUFFICES ASSUME HazardInv, QuietInv, [Next]_vars PROVE QuietInv'
    OBVIOUS
  <1> USE DEF HazardInv, TypeOK, HazardTypeOK, QuietInv, From, hazardVars
  <1>1. CASE UNCHANGED vars
    BY <1>1 DEF vars
  <1>2. ASSUME NEW t \in Threads, Protect(t) \/ ProtectLoad(t) \/ ProtectValidate(t) \/ ScanDone(t)
        PROVE  QuietInv'
    BY <1>2 DEF Protect, ProtectLoad, ProtectValidate, ScanDone
  <1>3. ASSUME NEW t \in Threads, ProtectPublish(t) \/ ReadDone(t)
        PROVE  QuietInv'
    BY <1>3 DEF ProtectPublish, ReadDone, Publish, Clear
  <1>4. ASSUME NEW t \in Threads, Swap(t)
        PROVE  QuietInv'
    BY <1>4 DEF Swap
  <1>5. ASSUME NEW t \in Threads, RetireOld(t) \/ Scan(t)
        PROVE  QuietInv'
    BY <1>5 DEF RetireOld, Retire, Scan, ScanRead, ScanFree
  <1> QED BY <1>1, <1>2, <1>3, <1>4, <1>5 DEF Next

LEMMA GarbageNext == HazardInv /\ GarbageInv /\ [Next]_vars => GarbageInv'
  <1> SUFFICES ASSUME HazardInv, GarbageInv, [Next]_vars PROVE \A t \in Threads : Kept(t)'
    BY QuietNext DEF GarbageInv
  <1>1. CASE UNCHANGED vars
    BY <1>1 DEF vars, hazardVars, GarbageInv, Kept, Keepers, LateKeepers, Ahead, Scanning
  <1>2. ASSUME NEW u \in Threads, Protect(u) \/ ProtectLoad(u) \/ ProtectValidate(u) \/ ScanDone(u)
        PROVE  \A t \in Threads : Kept(t)'
    <2>1. /\ UNCHANGED <<pointer, retired, scan, cell>>
          /\ \A v \in Threads \ {u} : pc'[v] = pc[v] /\ mine'[v] = mine[v]
          /\ pc'[u] = "publish" => mine'[u] = cell[at[u]]
      BY <1>2 DEF Protect, ProtectLoad, ProtectValidate, ScanDone, From, hazardVars,
                  HazardInv, TypeOK
    <2>2. pc'[u] = "publish" => Linked(mine'[u]) \/ mine'[u] = NULL
      BY <2>1 DEF HazardInv, TypeOK, Linked
    <2> QED BY <2>1, <2>2, ClientGarbage
  <1>3. ASSUME NEW u \in Threads, Swap(u)
        PROVE  \A t \in Threads : Kept(t)'
    <2>1. /\ UNCHANGED <<pointer, retired, scan>>
          /\ \A v \in Threads \ {u} : pc'[v] = pc[v] /\ mine'[v] = mine[v]
          /\ pc'[u] # "publish"
      BY <1>3 DEF Swap, From, HazardInv, TypeOK
    <2> QED BY <2>1, ClientGarbage
  <1> QED BY <1>1, <1>2, <1>3, PublishGarbage, ReadDoneGarbage, RetireGarbage, ScanReadGarbage,
             ScanFreeGarbage DEF Next, Scan

(* What is retired and not yet freed stays bounded, by the threshold and by *)
(* what the other threads can keep from a scan.                             *)
THEOREM GarbageIsBounded == Spec => []BoundedGarbage
  <1>1. HazardInv /\ GarbageInv => BoundedGarbage
    <2> SUFFICES ASSUME HazardInv, GarbageInv, NEW t \in Threads
                 PROVE  Len(retired[t]) <= MostGarbage
      BY DEF BoundedGarbage
    <2>1. Len(retired[t]) \in Nat
      BY LenProperties DEF HazardInv, TypeOK, HazardTypeOK
    <2> QED BY <2>1, ThreadsCount DEF GarbageInv, Kept
  <1> QED BY <1>1, InitInv, NextInv, GarbageInit, GarbageNext, PTL DEF Spec
=============================================================================
