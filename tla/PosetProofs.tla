---------------------------- MODULE PosetProofs ----------------------------
(***************************************************************************)
(* For every set of names and every bound: the tables of poset.cc stay     *)
(* partial orders, no identifier is given out twice, and every call does   *)
(* to the posets, and returns, what its comment promises.                  *)
(***************************************************************************)
EXTENDS Poset, TLAPS, SequenceTheorems, FiniteSetTheorems

USE PosetAssumption

-----------------------------------------------------------------------------
(* What is known of the vector and the table of one poset.                 *)

LEMMA PosetFacts ==
  ASSUME NEW p, PosetOK(p)
  PROVE  /\ Len(p.elems) \in Nat
         /\ Positions(p) = 1 .. Len(p.elems)
         /\ \A i \in Positions(p) : p.elems[i] \in Value
         /\ \A i, j \in Positions(p) : p.rel[i][j] \in Relation
  <1>1. p.elems \in Seq(Value)
    BY DEF PosetOK
  <1>2. Len(p.elems) \in Nat /\ p.elems \in [1 .. Len(p.elems) -> Value]
    BY <1>1, LenProperties
  <1>3. \A i \in 1 .. Len(p.elems) : p.rel[i] \in [1 .. Len(p.elems) -> Relation]
    BY DEF PosetOK, IsTable
  <1> QED BY <1>2, <1>3 DEF Positions

LEMMA IndexOf ==
  ASSUME NEW p, NEW v, Has(p, v)
  PROVE  Index(p, v) \in Positions(p) /\ p.elems[Index(p, v)] = v
  BY DEF Has, Index

LEMMA BelowOrNot ==
  ASSUME NEW p, PosetOK(p), NEW i \in Positions(p), NEW j \in Positions(p)
  PROVE  ~Below(p.rel, i, j) <=> p.rel[i][j] = NO_RELATION
  BY PosetFacts DEF Below, Relation, RELATION, REL_TRANSITIVITY, NO_RELATION

LEMMA Order ==
  ASSUME NEW p, PosetOK(p)
  PROVE  /\ \A i \in Positions(p) : Below(p.rel, i, i)
         /\ \A i, j \in Positions(p) : Below(p.rel, i, j) /\ Below(p.rel, j, i) => i = j
         /\ \A i, j, k \in Positions(p) : Below(p.rel, i, j) /\ Below(p.rel, j, k) => Below(p.rel, i, k)
  BY DEF PosetOK, IsOrder, Positions

-----------------------------------------------------------------------------
(* An empty poset.                                                         *)

LEMMA EmptyOK == PosetOK(EmptyPoset)
  <1>1. EmptyPoset.elems = <<>> /\ EmptyPoset.rel = <<>> /\ Len(<<>>) = 0
    BY DEF EmptyPoset
  <1>2. <<>> \in Seq(Value) /\ DOMAIN <<>> = 1 .. 0
    OBVIOUS
  <1> QED BY <1>1, <1>2 DEF PosetOK, Positions, IsTable, IsOrder

(* insertElementToPoset: the new element is related to itself only.        *)
LEMMA InsertedBelow ==
  ASSUME NEW p, PosetOK(p), NEW v \in Value,
         NEW i \in 1 .. Len(p.elems) + 1, NEW j \in 1 .. Len(p.elems) + 1
  PROVE  Below(Inserted(p, v).rel, i, j) <=>
           \/ i = j
           \/ i \in Positions(p) /\ j \in Positions(p) /\ Below(p.rel, i, j)
  <1> DEFINE n == Len(p.elems) + 1
  <1>1. Inserted(p, v).rel[i][j] = IF i # n /\ j # n THEN p.rel[i][j]
                                   ELSE IF i = j THEN RELATION ELSE NO_RELATION
    BY DEF Inserted
  <1>2. i # n <=> i \in Positions(p)
    BY PosetFacts
  <1>3. j # n <=> j \in Positions(p)
    BY PosetFacts
  <1> HIDE DEF n
  <1>4. CASE i # n /\ j # n
    BY <1>1, <1>2, <1>3, <1>4, Order DEF Below
  <1>5. CASE ~(i # n /\ j # n)
    BY <1>1, <1>2, <1>3, <1>5 DEF Below, RELATION, REL_TRANSITIVITY, NO_RELATION
  <1> QED BY <1>4, <1>5

LEMMA InsertedElems ==
  ASSUME NEW p, PosetOK(p), NEW v \in Value
  PROVE  /\ Inserted(p, v).elems \in Seq(Value)
         /\ Len(Inserted(p, v).elems) = Len(p.elems) + 1
         /\ \A i \in Positions(p) : Inserted(p, v).elems[i] = p.elems[i]
         /\ Inserted(p, v).elems[Len(p.elems) + 1] = v
         /\ Positions(Inserted(p, v)) = Positions(p) \cup {Len(p.elems) + 1}
  <1> DEFINE n == Len(p.elems) + 1
             e == [i \in 1 .. n |-> IF i = n THEN v ELSE p.elems[i]]
  <1>1. Inserted(p, v).elems = e
    BY DEF Inserted
  <1>2. n \in Nat /\ \A i \in 1 .. n : (IF i = n THEN v ELSE p.elems[i]) \in Value
    BY PosetFacts
  <1>3. e \in Seq(Value) /\ Len(e) = n
    BY <1>2, IsASeq
  <1>4. Positions(Inserted(p, v)) = 1 .. n
    BY <1>1, <1>3 DEF Positions
  <1> QED BY <1>1, <1>3, <1>4, PosetFacts

LEMMA InsertedOK ==
  ASSUME NEW p, PosetOK(p), NEW v \in Value, ~Has(p, v)
  PROVE  PosetOK(Inserted(p, v))
  <1> DEFINE q == Inserted(p, v)
             n == Len(p.elems) + 1
  <1>1. n \in Nat /\ q.elems \in Seq(Value) /\ Len(q.elems) = n /\ Positions(q) = 1 .. n
    BY InsertedElems, PosetFacts DEF Positions
  <1>2. ASSUME NEW i \in Positions(q), NEW j \in Positions(q), q.elems[i] = q.elems[j]
        PROVE  i = j
    <2>1. \A k \in Positions(p) : q.elems[k] = p.elems[k] /\ p.elems[k] # v
      BY InsertedElems DEF Has
    <2>2. q.elems[n] = v /\ Positions(q) = Positions(p) \cup {n}
      BY InsertedElems
    <2>3. \A k, l \in Positions(p) : p.elems[k] = p.elems[l] => k = l
      BY DEF PosetOK
    <2> HIDE DEF q, n
    <2> QED BY <1>2, <2>1, <2>2, <2>3
  <1>3. IsTable(q.rel, n)
    <2> DEFINE entry(i, j) == IF i # n /\ j # n THEN p.rel[i][j]
                              ELSE IF i = j THEN RELATION ELSE NO_RELATION
    <2>1. q.rel = [i \in 1 .. n |-> [j \in 1 .. n |-> entry(i, j)]]
      BY DEF Inserted
    <2>2. ASSUME NEW i \in 1 .. n, NEW j \in 1 .. n PROVE entry(i, j) \in Relation
      <3>1. ASSUME i # n, j # n PROVE p.rel[i][j] \in Relation
        <4>1. i \in Positions(p) /\ j \in Positions(p)
          BY <1>1, <3>1, PosetFacts
        <4> QED BY <4>1, PosetFacts
      <3>2. RELATION \in Relation /\ NO_RELATION \in Relation
        BY DEF Relation
      <3> QED BY <3>1, <3>2
    <2> HIDE DEF q, n, entry
    <2> QED BY <2>1, <2>2 DEF IsTable
  <1>4. IsOrder(q.rel, n)
    BY <1>1, InsertedBelow, Order DEF IsOrder
  <1> QED BY <1>1, <1>2, <1>3, <1>4 DEF PosetOK

-----------------------------------------------------------------------------
(* A table with the elements of p and other relations.                     *)

LEMMA RelOK ==
  ASSUME NEW p, PosetOK(p), NEW q, q.elems = p.elems,
         DOMAIN q.rel = Positions(p),
         \A i \in Positions(p) : q.rel[i] \in [Positions(p) -> Relation],
         IsOrder(q.rel, Len(p.elems))
  PROVE  PosetOK(q)
  <1>1. Positions(q) = Positions(p)
    BY DEF Positions
  <1>2. IsTable(q.rel, Len(p.elems))
    BY DEF IsTable, Positions
  <1> QED BY <1>1, <1>2 DEF PosetOK

(* addTransitivityRelations: whichever of its branches a row took, what is *)
(* added is what is below a related to what is above b.                    *)
LEMMA RelatedBelow ==
  ASSUME NEW p, PosetOK(p), NEW a \in Positions(p), NEW b \in Positions(p),
         ~Below(p.rel, a, b), ~Below(p.rel, b, a),
         NEW i \in Positions(p), NEW j \in Positions(p)
  PROVE  Below(Related(p, a, b).rel, i, j) <=>
           Below(p.rel, i, j) \/ (Below(p.rel, i, a) /\ Below(p.rel, b, j))
  <1> DEFINE t == p.rel
             F == Follows(t, a, b, i, j)
  <1>1. Related(p, a, b).rel[i][j] = IF i = a /\ j = b THEN RELATION
                                     ELSE IF F THEN REL_TRANSITIVITY ELSE t[i][j]
    <2>1. Related(p, a, b).rel = [k \in Positions(p) |-> [l \in Positions(p) |->
            IF k = a /\ l = b THEN RELATION
            ELSE IF Follows(p.rel, a, b, k, l) THEN REL_TRANSITIVITY ELSE p.rel[k][l]]]
      BY DEF Related, PosetOK
    <2> QED BY <2>1
  <1>2. Below(Related(p, a, b).rel, i, j) <=> (i = a /\ j = b) \/ F \/ Below(t, i, j)
    <2> HIDE DEF F
    <2> QED BY <1>1 DEF Below, RELATION, REL_TRANSITIVITY
  <1>3. F => Below(t, i, a) /\ Below(t, b, j)
    BY Order DEF Follows, GainsAll
  <1>4. ASSUME ~Below(t, i, j), Below(t, i, a), Below(t, b, j), ~(i = a /\ j = b)
        PROVE  F
    <2>1. t[i][j] = NO_RELATION
      BY <1>4, BelowOrNot
    <2>2. CASE i = a
      <3>1. j \notin {a, b}
        BY <1>4, <2>2
      <3>2. ~GainsAll(t, a, b, j)
        BY <1>4, Order DEF GainsAll
      <3> QED BY <1>4, <2>1, <2>2, <3>1, <3>2 DEF Follows
    <2>3. CASE i # a
      <3>1. i # b
        BY <1>4
      <3>2. ~Below(t, i, b)
        BY <1>4, Order
      <3>3. t[i][b] = NO_RELATION
        BY <3>2, BelowOrNot
      <3> QED BY <1>4, <2>1, <2>3, <3>1, <3>3 DEF Follows, GainsAll
    <2> QED BY <2>2, <2>3
  <1> HIDE DEF F
  <1> QED BY <1>2, <1>3, <1>4, Order

LEMMA RelatedOK ==
  ASSUME NEW p, PosetOK(p), NEW a \in Positions(p), NEW b \in Positions(p),
         ~Below(p.rel, a, b), ~Below(p.rel, b, a)
  PROVE  PosetOK(Related(p, a, b)) /\ Related(p, a, b).elems = p.elems
  <1> DEFINE q == Related(p, a, b)
             entry(i, j) == IF i = a /\ j = b THEN RELATION
                            ELSE IF Follows(p.rel, a, b, i, j) THEN REL_TRANSITIVITY ELSE p.rel[i][j]
  <1>1. q.elems = p.elems /\ q.rel = [i \in Positions(p) |-> [j \in Positions(p) |-> entry(i, j)]]
    BY DEF Related, PosetOK
  <1>2. ASSUME NEW i \in Positions(p), NEW j \in Positions(p) PROVE entry(i, j) \in Relation
    <2>1. p.rel[i][j] \in Relation
      BY PosetFacts
    <2> QED BY <2>1 DEF Relation
  <1>3. IsOrder(q.rel, Len(p.elems))
    <2>1. \A i, j \in Positions(p) : Below(q.rel, i, j) <=>
            Below(p.rel, i, j) \/ (Below(p.rel, i, a) /\ Below(p.rel, b, j))
      BY RelatedBelow
    <2> HIDE DEF q
    <2>2. \A i \in Positions(p) : Below(q.rel, i, i)
      BY <2>1, Order
    <2>3. \A i, j \in Positions(p) : Below(q.rel, i, j) /\ Below(q.rel, j, i) => i = j
      BY <2>1, Order
    <2>4. \A i, j, k \in Positions(p) : Below(q.rel, i, j) /\ Below(q.rel, j, k) => Below(q.rel, i, k)
      BY <2>1, Order
    <2> QED BY <2>2, <2>3, <2>4 DEF IsOrder, Positions
  <1> HIDE DEF q, entry
  <1>4. DOMAIN q.rel = Positions(p) /\ \A i \in Positions(p) : q.rel[i] \in [Positions(p) -> Relation]
    BY <1>1, <1>2
  <1>5. PosetOK(q)
    BY <1>1, <1>3, <1>4, RelOK
  <1> QED BY <1>1, <1>5 DEF q

(* poset_del: with nothing between them, the pair alone can go.            *)
LEMMA UnrelatedBelow ==
  ASSUME NEW p, PosetOK(p), NEW a \in Positions(p), NEW b \in Positions(p),
         Below(p.rel, a, b), a # b, NEW i \in Positions(p), NEW j \in Positions(p)
  PROVE  Below(Unrelated(p, a, b).rel, i, j) <=> Below(p.rel, i, j) /\ ~(i = a /\ j = b)
  <1>1. Unrelated(p, a, b).rel[i][j] =
          IF {i, j} = {a, b} /\ i # j THEN NO_RELATION ELSE p.rel[i][j]
    <2>1. Unrelated(p, a, b).rel = [k \in Positions(p) |-> [l \in Positions(p) |->
            IF {k, l} = {a, b} /\ k # l THEN NO_RELATION ELSE p.rel[k][l]]]
      BY DEF Unrelated, PosetOK
    <2> QED BY <2>1
  <1>2. {i, j} = {a, b} /\ i # j <=> (i = a /\ j = b) \/ (i = b /\ j = a)
    OBVIOUS
  <1>3. ~Below(p.rel, b, a)
    BY Order
  <1>4. CASE (i = a /\ j = b) \/ (i = b /\ j = a)
    <2>1. ~Below(Unrelated(p, a, b).rel, i, j)
      BY <1>1, <1>2, <1>4 DEF Below, RELATION, REL_TRANSITIVITY, NO_RELATION
    <2> QED BY <2>1, <1>3, <1>4
  <1>5. CASE ~((i = a /\ j = b) \/ (i = b /\ j = a))
    BY <1>1, <1>2, <1>5 DEF Below
  <1> QED BY <1>4, <1>5

LEMMA UnrelatedOK ==
  ASSUME NEW p, PosetOK(p), NEW a \in Positions(p), NEW b \in Positions(p),
         Below(p.rel, a, b), a # b, ~SomethingIsBetween(p, a, b)
  PROVE  PosetOK(Unrelated(p, a, b)) /\ Unrelated(p, a, b).elems = p.elems
  <1> DEFINE q == Unrelated(p, a, b)
             entry(i, j) == IF {i, j} = {a, b} /\ i # j THEN NO_RELATION ELSE p.rel[i][j]
  <1>1. q.elems = p.elems /\ q.rel = [i \in Positions(p) |-> [j \in Positions(p) |-> entry(i, j)]]
    BY DEF Unrelated, PosetOK
  <1>2. ASSUME NEW i \in Positions(p), NEW j \in Positions(p) PROVE entry(i, j) \in Relation
    <2>1. p.rel[i][j] \in Relation
      BY PosetFacts
    <2> QED BY <2>1 DEF Relation
  <1>3. IsOrder(q.rel, Len(p.elems))
    <2>1. \A i, j \in Positions(p) : Below(q.rel, i, j) <=> Below(p.rel, i, j) /\ ~(i = a /\ j = b)
      BY UnrelatedBelow
    <2>2. \A i \in Positions(p) \ {a, b} : ~(Below(p.rel, a, i) /\ Below(p.rel, i, b))
      BY DEF SomethingIsBetween
    <2> HIDE DEF q
    <2>3. \A i \in Positions(p) : Below(q.rel, i, i)
      BY <2>1, Order
    <2>4. \A i, j \in Positions(p) : Below(q.rel, i, j) /\ Below(q.rel, j, i) => i = j
      BY <2>1, Order
    <2>5. \A i, j, k \in Positions(p) : Below(q.rel, i, j) /\ Below(q.rel, j, k) => Below(q.rel, i, k)
      BY <2>1, <2>2, Order
    <2> QED BY <2>3, <2>4, <2>5 DEF IsOrder, Positions
  <1> HIDE DEF q, entry
  <1>4. DOMAIN q.rel = Positions(p) /\ \A i \in Positions(p) : q.rel[i] \in [Positions(p) -> Relation]
    BY <1>1, <1>2
  <1>5. PosetOK(q)
    BY <1>1, <1>3, <1>4, RelOK
  <1> QED BY <1>1, <1>5 DEF q

-----------------------------------------------------------------------------
(* poset_remove: the elements that stay are related as they were.          *)

LEMMA BeforeIs ==
  ASSUME NEW p, PosetOK(p), NEW d \in Positions(p)
  PROVE  /\ \A i \in 1 .. Len(p.elems) - 1 : Before(d, i) \in Positions(p) \ {d}
         /\ \A i, j \in 1 .. Len(p.elems) - 1 : Before(d, i) = Before(d, j) => i = j
         /\ \A k \in Positions(p) \ {d} : \E i \in 1 .. Len(p.elems) - 1 : k = Before(d, i)
  <1>1. Len(p.elems) \in Nat /\ d \in 1 .. Len(p.elems)
    BY PosetFacts DEF Positions
  <1>2. ASSUME NEW k \in Positions(p) \ {d}
        PROVE  \E i \in 1 .. Len(p.elems) - 1 : k = Before(d, i)
    <2>1. CASE k < d
      <3>1. k \in 1 .. Len(p.elems) - 1 /\ k = Before(d, k)
        BY <1>1, <2>1 DEF Positions, Before
      <3> QED BY <3>1
    <2>2. CASE k > d
      <3>1. k - 1 \in 1 .. Len(p.elems) - 1 /\ k = Before(d, k - 1)
        BY <1>1, <2>2 DEF Positions, Before
      <3> QED BY <3>1
    <2> QED BY <1>1, <2>1, <2>2 DEF Positions
  <1>3. \A i \in 1 .. Len(p.elems) - 1 : Before(d, i) \in Positions(p) \ {d}
    BY <1>1 DEF Positions, Before
  <1>4. \A i, j \in 1 .. Len(p.elems) - 1 : Before(d, i) = Before(d, j) => i = j
    BY <1>1 DEF Before
  <1> QED BY <1>2, <1>3, <1>4

LEMMA RemovedElems ==
  ASSUME NEW p, PosetOK(p), NEW d \in Positions(p)
  PROVE  /\ Removed(p, d).elems \in Seq(Value)
         /\ Len(Removed(p, d).elems) = Len(p.elems) - 1
         /\ Positions(Removed(p, d)) = 1 .. Len(p.elems) - 1
         /\ \A i \in 1 .. Len(p.elems) - 1 : Removed(p, d).elems[i] = p.elems[Before(d, i)]
  <1> DEFINE n == Len(p.elems) - 1
             e == [i \in 1 .. n |-> p.elems[Before(d, i)]]
  <1>1. Removed(p, d).elems = e
    BY DEF Removed
  <1>2. n \in Nat /\ \A i \in 1 .. n : p.elems[Before(d, i)] \in Value
    BY PosetFacts, BeforeIs
  <1>3. e \in Seq(Value) /\ Len(e) = n
    BY <1>2, IsASeq
  <1> QED BY <1>1, <1>3 DEF Positions

LEMMA RemovedBelow ==
  ASSUME NEW p, PosetOK(p), NEW d \in Positions(p),
         NEW i \in 1 .. Len(p.elems) - 1, NEW j \in 1 .. Len(p.elems) - 1
  PROVE  /\ Removed(p, d).rel[i][j] \in Relation
         /\ Below(Removed(p, d).rel, i, j) <=> Below(p.rel, Before(d, i), Before(d, j))
  <1> DEFINE k == Before(d, i)
             l == Before(d, j)
  <1>1. Removed(p, d).rel[i][j] = Kept(p.rel, d, k, l)
    BY DEF Removed
  <1>2. k \in Positions(p) /\ l \in Positions(p)
    BY BeforeIs
  <1> HIDE DEF k, l
  <1>3. p.rel[k][l] \in Relation
    BY <1>2, PosetFacts
  <1>4. Kept(p.rel, d, k, l) \in {RELATION, p.rel[k][l]}
        /\ (Kept(p.rel, d, k, l) # p.rel[k][l] => p.rel[k][l] = REL_TRANSITIVITY)
    BY DEF Kept
  <1>5. Removed(p, d).rel[i][j] \in Relation
    BY <1>1, <1>3, <1>4 DEF Relation
  <1>6. Below(Removed(p, d).rel, i, j) <=> Below(p.rel, k, l)
    BY <1>1, <1>4 DEF Below
  <1> QED BY <1>5, <1>6 DEF k, l

LEMMA RemovedOK ==
  ASSUME NEW p, PosetOK(p), NEW d \in Positions(p)
  PROVE  PosetOK(Removed(p, d))
  <1> DEFINE q == Removed(p, d)
             n == Len(p.elems) - 1
             f(i) == Before(d, i)
  <1>1. q.elems \in Seq(Value) /\ Len(q.elems) = n /\ Positions(q) = 1 .. n
    BY RemovedElems
  <1>2. \A i \in 1 .. n : q.elems[i] = p.elems[f(i)]
    BY RemovedElems
  <1>3. /\ \A i \in 1 .. n : f(i) \in Positions(p)
        /\ \A i, j \in 1 .. n : f(i) = f(j) => i = j
    BY BeforeIs
  <1>4. \A i, j \in Positions(p) : p.elems[i] = p.elems[j] => i = j
    BY DEF PosetOK
  <1>5. q.rel = [i \in 1 .. n |-> [j \in 1 .. n |-> Kept(p.rel, d, f(i), f(j))]]
    BY DEF Removed
  <1>6. \A i, j \in 1 .. n : q.rel[i][j] \in Relation
    BY RemovedBelow
  <1>7. \A i, j \in 1 .. n : Below(q.rel, i, j) <=> Below(p.rel, f(i), f(j))
    BY RemovedBelow
  <1> HIDE DEF q, n, f
  <1>8. \A i, j \in Positions(q) : q.elems[i] = q.elems[j] => i = j
    BY <1>1, <1>2, <1>3, <1>4
  <1>9. IsTable(q.rel, n)
    <2>1. \A i \in 1 .. n : q.rel[i] \in [1 .. n -> Relation]
      BY <1>5, <1>6
    <2> QED BY <1>5, <2>1 DEF IsTable
  <1>10. IsOrder(q.rel, n)
    <2>1. \A i \in 1 .. n : Below(q.rel, i, i)
      BY <1>3, <1>7, Order
    <2>2. \A i, j \in 1 .. n : Below(q.rel, i, j) /\ Below(q.rel, j, i) => i = j
      BY <1>3, <1>7, Order
    <2>3. \A i, j, k \in 1 .. n : Below(q.rel, i, j) /\ Below(q.rel, j, k) => Below(q.rel, i, k)
      BY <1>3, <1>7, Order
    <2> QED BY ONLY <2>1, <2>2, <2>3 DEF IsOrder
  <1>11. /\ \A i, j \in Positions(q) : q.elems[i] = q.elems[j] => i = j
         /\ q.elems \in Seq(Value) /\ IsTable(q.rel, Len(q.elems)) /\ IsOrder(q.rel, Len(q.elems))
    BY ONLY <1>1, <1>8, <1>9, <1>10
  <1> QED BY ONLY <1>11 DEF PosetOK, q

-----------------------------------------------------------------------------
(* The interface.                                                          *)

LEMMA UnchangedOK ==
  ASSUME PosetInv, DOMAIN posets' = DOMAIN posets, UNCHANGED <<available, next_id>>
  PROVE  IdsApart'
  BY DEF PosetInv, IdsApart

LEMMA QueueOfIds ==
  ASSUME PosetInv
  PROVE  /\ Len(available) \in Nat /\ DOMAIN available = 1 .. Len(available)
         /\ \A i \in DOMAIN available : available[i] \in (0 .. next_id - 1) \ DOMAIN posets
  BY LenProperties DEF PosetInv, IdsApart

(* poset_new: the front of the queue, or the counter, is in no use.        *)
LEMMA NewOK ==
  ASSUME PosetInv, poset_new
  PROVE  PosetInv'
  <1>1. ASSUME NEW id, Created(id)
        PROVE  PartialOrders' /\ DOMAIN posets' = DOMAIN posets \cup {id}
    <2>1. DOMAIN posets' = DOMAIN posets \cup {id}
      BY <1>1 DEF Created
    <2>2. \A x \in DOMAIN posets' : posets'[x] = IF x \in DOMAIN posets THEN posets[x] ELSE EmptyPoset
      BY <1>1 DEF Created
    <2>3. \A x \in DOMAIN posets' : PosetOK(posets'[x])
      BY <2>2, EmptyOK DEF PosetInv, PartialOrders
    <2> QED BY <2>1, <2>3 DEF PartialOrders
  <1>2. CASE available # <<>> /\ Created(Head(available)) /\ available' = Tail(available) /\ UNCHANGED next_id
    <2> DEFINE id == Head(available)
               rest == Tail(available)
               n == Len(available) - 1
    <2>1. available \in Seq((0 .. next_id - 1) \ DOMAIN posets) /\ next_id \in Nat
      BY DEF PosetInv, IdsApart
    <2>2. id = available[1] /\ 1 \in DOMAIN available /\ id \in (0 .. next_id - 1) \ DOMAIN posets
      BY <1>2, <2>1, QueueOfIds, EmptySeq
    <2>3. /\ rest \in Seq((0 .. next_id - 1) \ DOMAIN posets)
          /\ Len(rest) = n
          /\ \A i \in 1 .. n : rest[i] = available[i + 1]
      BY <1>2, <2>1, HeadTailProperties
    <2>4. \A i, j \in DOMAIN available : available[i] = available[j] => i = j
      BY DEF PosetInv, IdsApart
    <2>5. n \in Nat /\ DOMAIN rest = 1 .. n /\ rest = [i \in 1 .. n |-> rest[i]]
      BY <2>3, LenProperties
    <2>6. \A i \in 1 .. n : i + 1 \in DOMAIN available /\ i + 1 # 1 /\ i \in Nat
      BY QueueOfIds
    <2> HIDE DEF rest, n, id
    <2>7. \A i, j \in 1 .. n : rest[i] = rest[j] => i = j
      <3> SUFFICES ASSUME NEW i \in 1 .. n, NEW j \in 1 .. n, rest[i] = rest[j] PROVE i = j
        OBVIOUS
      <3>1. i + 1 = j + 1
        BY <2>3, <2>4, <2>6
      <3> QED BY <3>1, <2>6
    <2>8. \A i \in 1 .. n : rest[i] \in (0 .. next_id - 1) \ (DOMAIN posets \cup {id})
      <3> SUFFICES ASSUME NEW i \in 1 .. n
                   PROVE  rest[i] \in (0 .. next_id - 1) \ (DOMAIN posets \cup {id})
        OBVIOUS
      <3>1. rest[i] = available[i + 1] /\ i + 1 \in DOMAIN available /\ i + 1 # 1
        BY <2>3, <2>6
      <3>2. rest[i] # id
        BY <3>1, <2>2, <2>4
      <3> QED BY <3>1, <3>2, QueueOfIds
    <2>9. rest \in Seq((0 .. next_id - 1) \ (DOMAIN posets \cup {id}))
      BY <2>5, <2>8, IsASeq
    <2>10. PartialOrders' /\ DOMAIN posets' = DOMAIN posets \cup {id}
      BY <1>1, <1>2 DEF id
    <2>11. DOMAIN posets \cup {id} \subseteq 0 .. next_id - 1
      BY <2>2 DEF PosetInv, IdsApart
    <2>12. available' = rest
      BY <1>2 DEF rest
    <2> QED BY <1>2, <2>1, <2>5, <2>7, <2>9, <2>10, <2>11, <2>12 DEF PosetInv, IdsApart
  <1>3. CASE available = <<>> /\ Created(next_id) /\ next_id' = next_id + 1 /\ UNCHANGED available
    <2>1. next_id \in Nat /\ DOMAIN posets \subseteq 0 .. next_id - 1
      BY DEF PosetInv, IdsApart
    <2>2. PartialOrders' /\ DOMAIN posets' = DOMAIN posets \cup {next_id}
      BY <1>1, <1>3
    <2>3. next_id' \in Nat /\ DOMAIN posets' \subseteq 0 .. next_id' - 1
      BY <1>3, <2>1, <2>2
    <2>4. available' = <<>> /\ DOMAIN <<>> = {} /\ \A S : <<>> \in Seq(S)
      BY <1>3
    <2> QED BY <2>2, <2>3, <2>4 DEF PosetInv, IdsApart
  <1> QED BY <1>2, <1>3 DEF poset_new

(* poset_delete: only an identifier in use joins the queue.                *)
LEMMA DeleteOK ==
  ASSUME PosetInv, NEW id \in Id, poset_delete(id)
  PROVE  PosetInv'
  <1>1. /\ DOMAIN posets' = DOMAIN posets \ {id}
        /\ \A x \in DOMAIN posets' : posets'[x] = posets[x]
    BY DEF poset_delete
  <1>2. PartialOrders'
    BY <1>1 DEF PosetInv, PartialOrders
  <1>3. next_id' = next_id /\ next_id \in Nat /\ DOMAIN posets \subseteq 0 .. next_id - 1
    BY DEF PosetInv, IdsApart, poset_delete
  <1>4. CASE ~Exists(id)
    <2>1. DOMAIN posets' = DOMAIN posets /\ available' = available
      BY <1>1, <1>4 DEF poset_delete, Exists
    <2> QED BY <1>2, <1>3, <2>1 DEF PosetInv, IdsApart
  <1>5. CASE Exists(id)
    <2> DEFINE Free == (0 .. next_id - 1) \ (DOMAIN posets \ {id})
    <2>1. available' = Append(available, id) /\ id \in DOMAIN posets
      BY <1>5 DEF poset_delete, Exists
    <2>2. Len(available) \in Nat /\ DOMAIN available = 1 .. Len(available)
          /\ \A i \in DOMAIN available : available[i] \in Free /\ available[i] # id
      BY <2>1, QueueOfIds
    <2>3. id \in Free
      BY <1>3, <2>1
    <2>4. available \in Seq(Free)
      <3>1. available = [i \in 1 .. Len(available) |-> available[i]]
        BY LenProperties DEF PosetInv, IdsApart
      <3> HIDE DEF Free
      <3> QED BY <2>2, <3>1, IsASeq
    <2> HIDE DEF Free
    <2>5. /\ Append(available, id) \in Seq(Free)
          /\ Len(Append(available, id)) = Len(available) + 1
          /\ \A i \in 1 .. Len(available) : Append(available, id)[i] = available[i]
          /\ Append(available, id)[Len(available) + 1] = id
      BY <2>3, <2>4, AppendProperties
    <2>6. DOMAIN Append(available, id) = 1 .. Len(available) + 1
      BY <2>5, LenProperties
    <2>7. \A i, j \in DOMAIN available : available[i] = available[j] => i = j
      BY DEF PosetInv, IdsApart
    <2>8. \A i, j \in DOMAIN available' : available'[i] = available'[j] => i = j
      BY <2>1, <2>2, <2>5, <2>6, <2>7
    <2>9. available' \in Seq((0 .. next_id' - 1) \ DOMAIN posets')
      BY <1>1, <1>3, <2>1, <2>5 DEF Free
    <2>10. DOMAIN posets' \subseteq 0 .. next_id' - 1 /\ next_id' \in Nat
      BY <1>1, <1>3
    <2> QED BY <1>2, <2>8, <2>9, <2>10 DEF PosetInv, IdsApart
  <1> QED BY <1>4, <1>5

(* The calls that change one poset.                                        *)
LEMMA ChangeOK ==
  ASSUME PosetInv, NEW id \in Id, NEW v \in Arg, NEW w \in Arg,
         \/ poset_insert(id, v) \/ poset_remove(id, v)
         \/ poset_add(id, v, w) \/ poset_del(id, v, w) \/ poset_clear(id)
  PROVE  PosetInv'
  <1> DEFINE p == posets[id]
             a == Index(p, v)
             b == Index(p, w)
  <1>1. UNCHANGED <<available, next_id>>
    BY DEF poset_insert, poset_remove, poset_add, poset_del, poset_clear
  <1>2. ASSUME UNCHANGED posets PROVE PosetInv'
    BY <1>1, <1>2 DEF PosetInv, IdsApart, PartialOrders
  <1>3. ASSUME NEW q, PosetOK(q), Exists(id), posets' = [posets EXCEPT ![id] = q] PROVE PosetInv'
    <2>1. DOMAIN posets' = DOMAIN posets /\ \A x \in DOMAIN posets : posets'[x] = IF x = id THEN q ELSE posets[x]
      BY <1>3
    <2>2. PartialOrders'
      BY <1>3, <2>1 DEF PosetInv, PartialOrders
    <2> QED BY <1>1, <2>1, <2>2, UnchangedOK DEF PosetInv
  <1>4. Exists(id) => PosetOK(p)
    BY DEF PosetInv, PartialOrders, Exists
  <1>5. CASE poset_insert(id, v)
    <2>1. CASE RefusedUnless(v # NULL /\ Exists(id) /\ ~Has(p, v))
      BY <1>2, <2>1 DEF RefusedUnless
    <2>2. CASE (v # NULL /\ Exists(id) /\ ~Has(p, v)) /\ Becomes(id, Inserted(p, v))
      <3>1. PosetOK(Inserted(p, v))
        BY <1>4, <2>2, InsertedOK DEF Arg
      <3> QED BY <1>3, <2>2, <3>1 DEF Becomes
    <2> QED BY <1>5, <2>1, <2>2 DEF poset_insert
  <1>6. CASE poset_remove(id, v)
    <2>1. CASE RefusedUnless(Known(id, v))
      BY <1>2, <2>1 DEF RefusedUnless
    <2>2. CASE Known(id, v) /\ Becomes(id, Removed(p, a))
      <3>1. a \in Positions(p)
        BY <2>2, IndexOf DEF Known
      <3>2. PosetOK(Removed(p, a))
        BY <1>4, <2>2, <3>1, RemovedOK DEF Known
      <3> QED BY <1>3, <2>2, <3>2 DEF Becomes, Known
    <2> QED BY <1>6, <2>1, <2>2 DEF poset_remove
  <1>7. CASE poset_add(id, v, w)
    <2> DEFINE C == /\ Known(id, v) /\ Known(id, w)
                    /\ ~Below(p.rel, a, b) /\ ~Below(p.rel, b, a)
    <2>1. CASE RefusedUnless(C)
      BY <1>2, <2>1 DEF RefusedUnless
    <2>2. CASE C /\ Becomes(id, Related(p, a, b))
      <3>1. a \in Positions(p) /\ b \in Positions(p)
        BY <2>2, IndexOf DEF Known
      <3>2. PosetOK(Related(p, a, b))
        BY <1>4, <2>2, <3>1, RelatedOK DEF Known
      <3> QED BY <1>3, <2>2, <3>2 DEF Becomes, Known
    <2> QED BY <1>7, <2>1, <2>2 DEF poset_add
  <1>8. CASE poset_del(id, v, w)
    <2> DEFINE C == /\ Known(id, v) /\ Known(id, w) /\ a # b
                    /\ Below(p.rel, a, b) /\ ~SomethingIsBetween(p, a, b)
    <2>1. CASE RefusedUnless(C)
      BY <1>2, <2>1 DEF RefusedUnless
    <2>2. CASE C /\ Becomes(id, Unrelated(p, a, b))
      <3>1. a \in Positions(p) /\ b \in Positions(p)
        BY <2>2, IndexOf DEF Known
      <3>2. PosetOK(Unrelated(p, a, b))
        BY <1>4, <2>2, <3>1, UnrelatedOK DEF Known
      <3> QED BY <1>3, <2>2, <3>2 DEF Becomes, Known
    <2> QED BY <1>8, <2>1, <2>2 DEF poset_del
  <1>9. CASE poset_clear(id)
    BY <1>2, <1>3, <1>9, EmptyOK DEF poset_clear
  <1> QED BY <1>5, <1>6, <1>7, <1>8, <1>9

(* Every table is a partial order on the positions of a vector without     *)
(* repetitions, and an identifier is in use, waiting once, or not yet given *)
(* out: by any sequence of calls, with any number of names and posets      *)
(* (addTransitivityRelations, poset_del, poset_remove, poset_new).         *)
THEOREM OrdersKept == Spec => []PosetInv
  <1>1. Init => PosetInv
    <2>1. ASSUME Init PROVE DOMAIN posets = {} /\ available = <<>> /\ next_id = 0
      BY <2>1 DEF Init
    <2>2. <<>> \in Seq((0 .. -1) \ {}) /\ DOMAIN <<>> = {}
      OBVIOUS
    <2> QED BY <2>1, <2>2 DEF PosetInv, PartialOrders, IdsApart
  <1>2. PosetInv /\ [Next]_vars => PosetInv'
    <2> SUFFICES ASSUME PosetInv, [Next]_vars PROVE PosetInv'
      OBVIOUS
    <2>1. CASE poset_new
      BY <2>1, NewOK
    <2>2. ASSUME NEW id \in Id, poset_delete(id) \/ poset_size(id) \/ poset_clear(id)
          PROVE  PosetInv'
      <3>1. poset_size(id) => PosetInv'
        BY DEF poset_size, PosetInv, PartialOrders, IdsApart
      <3>2. NULL \in Arg
        BY DEF Arg
      <3> QED BY <2>2, <3>1, <3>2, DeleteOK, ChangeOK
    <2>3. ASSUME NEW id \in Id, NEW v \in Arg, poset_remove(id, v) \/ poset_insert(id, v)
          PROVE  PosetInv'
      BY <2>3, ChangeOK
    <2>4. ASSUME NEW id \in Id, NEW v \in Arg, NEW w \in Arg,
                 poset_add(id, v, w) \/ poset_del(id, v, w) \/ poset_test(id, v, w)
          PROVE  PosetInv'
      <3>1. poset_test(id, v, w) => PosetInv'
        BY DEF poset_test, PosetInv, PartialOrders, IdsApart
      <3> QED BY <2>4, <3>1, ChangeOK
    <2>5. CASE UNCHANGED vars
      BY <2>5 DEF vars, PosetInv, PartialOrders, IdsApart
    <2> QED BY <2>1, <2>2, <2>3, <2>4, <2>5 DEF Next
  <1> QED BY <1>1, <1>2, PTL DEF Spec

-----------------------------------------------------------------------------
(* What the caller sees.                                                   *)

LEMMA SeenElems ==
  ASSUME NEW p, PosetOK(p)
  PROVE  /\ Seen(p).elems \subseteq Value
         /\ \A v : v \in Seen(p).elems <=> Has(p, v)
         /\ \A v : v \in Seen(p).elems <=> \E i \in Positions(p) : v = p.elems[i]
  BY PosetFacts DEF Seen, Has

LEMMA SeenBelow ==
  ASSUME NEW p, PosetOK(p)
  PROVE  /\ \A i, j \in Positions(p) : <<p.elems[i], p.elems[j]>> \in Seen(p).below <=> Below(p.rel, i, j)
         /\ \A q \in Seen(p).below : \E i, j \in Positions(p) :
              q = <<p.elems[i], p.elems[j]>> /\ Below(p.rel, i, j)
  <1> DEFINE pairs == {x \in Positions(p) \X Positions(p) : Below(p.rel, x[1], x[2])}
  <1>1. Seen(p).below = {<<p.elems[ij[1]], p.elems[ij[2]]>> : ij \in pairs}
    BY DEF Seen
  <1>2. \A i, j \in Positions(p) : <<i, j>> \in pairs <=> Below(p.rel, i, j)
    OBVIOUS
  <1>3. \A x \in pairs : x[1] \in Positions(p) /\ x[2] \in Positions(p) /\ x = <<x[1], x[2]>>
    OBVIOUS
  <1>4. \A i, j \in Positions(p) : p.elems[i] = p.elems[j] => i = j
    BY DEF PosetOK
  <1> HIDE DEF pairs
  <1>5. ASSUME NEW q \in Seen(p).below
        PROVE  \E i, j \in Positions(p) : q = <<p.elems[i], p.elems[j]>> /\ Below(p.rel, i, j)
    <2>1. PICK x \in pairs : q = <<p.elems[x[1]], p.elems[x[2]]>>
      BY <1>1
    <2>2. Below(p.rel, x[1], x[2])
      BY <1>2, <1>3
    <2> QED BY <1>3, <2>1, <2>2
  <1>6. ASSUME NEW i \in Positions(p), NEW j \in Positions(p)
        PROVE  <<p.elems[i], p.elems[j]>> \in Seen(p).below <=> Below(p.rel, i, j)
    <2>1. ASSUME Below(p.rel, i, j) PROVE <<p.elems[i], p.elems[j]>> \in Seen(p).below
      <3>1. <<i, j>> \in pairs /\ <<i, j>>[1] = i /\ <<i, j>>[2] = j
        BY <1>2, <2>1
      <3> QED BY <1>1, <3>1
    <2>2. ASSUME <<p.elems[i], p.elems[j]>> \in Seen(p).below PROVE Below(p.rel, i, j)
      <3>1. PICK k, l \in Positions(p) : <<p.elems[i], p.elems[j]>> = <<p.elems[k], p.elems[l]>> /\ Below(p.rel, k, l)
        BY <1>5, <2>2
      <3>2. i = k /\ j = l
        BY <1>4, <3>1
      <3> QED BY <3>1, <3>2
    <2> QED BY <2>1, <2>2
  <1> QED BY <1>5, <1>6

LEMMA SeenRecord ==
  ASSUME NEW p
  PROVE  Seen(p) = [elems |-> Seen(p).elems, below |-> Seen(p).below]
  BY DEF Seen

LEMMA WithBelow ==
  ASSUME NEW s, NEW e, NEW l, s = [elems |-> e, below |-> l], NEW x
  PROVE  [s EXCEPT !.below = x] = [elems |-> s.elems, below |-> x]
  OBVIOUS

(* Two posets that hold the same values in the same order look the same.   *)
LEMMA SeenIs ==
  ASSUME NEW p, PosetOK(p), NEW elems, NEW below,
         \A v : v \in elems <=> Has(p, v),
         \A q \in below : \E i, j \in Positions(p) : q = <<p.elems[i], p.elems[j]>>,
         \A i, j \in Positions(p) : <<p.elems[i], p.elems[j]>> \in below <=> Below(p.rel, i, j)
  PROVE  Seen(p) = [elems |-> elems, below |-> below]
  <1>1. Seen(p) = [elems |-> Seen(p).elems, below |-> Seen(p).below]
    BY DEF Seen
  <1>2. Seen(p).elems = elems
    BY SeenElems
  <1>3. Seen(p).below \subseteq below
    BY SeenBelow
  <1>4. below \subseteq Seen(p).below
    BY SeenBelow
  <1> QED BY <1>1, <1>2, <1>3, <1>4

LEMMA SeenEmpty == Seen(EmptyPoset) = Promised!Empty
  <1>1. ~\E i \in Positions(EmptyPoset) : TRUE
    BY DEF EmptyPoset, Positions
  <1>2. Seen(EmptyPoset) = [elems |-> {}, below |-> {}]
    BY <1>1 DEF Seen
  <1> QED BY <1>2 DEF Promised!Empty

LEMMA SeenInserted ==
  ASSUME NEW p, PosetOK(p), NEW v \in Value, ~Has(p, v)
  PROVE  Seen(Inserted(p, v)) = [elems |-> Seen(p).elems \cup {v},
                                 below |-> Seen(p).below \cup {<<v, v>>}]
  <1> DEFINE q == Inserted(p, v)
             n == Len(p.elems) + 1
             below == Seen(p).below \cup {<<v, v>>}
  <1>1. PosetOK(q)
    BY InsertedOK
  <1>2. /\ Positions(q) = Positions(p) \cup {n} /\ n \notin Positions(p)
        /\ \A i \in Positions(p) : q.elems[i] = p.elems[i] /\ p.elems[i] # v
        /\ q.elems[n] = v
    BY InsertedElems, PosetFacts DEF Has
  <1>3. \A i, j \in Positions(q) : Below(q.rel, i, j) <=>
          i = j \/ (i \in Positions(p) /\ j \in Positions(p) /\ Below(p.rel, i, j))
    <2>1. Positions(q) = 1 .. Len(p.elems) + 1
      BY InsertedElems DEF Positions
    <2> HIDE DEF q
    <2>2. \A i, j \in 1 .. Len(p.elems) + 1 : Below(q.rel, i, j) <=>
            i = j \/ (i \in Positions(p) /\ j \in Positions(p) /\ Below(p.rel, i, j))
      BY InsertedBelow DEF q
    <2> QED BY <2>1, <2>2
  <1> HIDE DEF q, n
  <1>4. \A w : w \in Seen(p).elems \cup {v} <=> Has(q, w)
    BY <1>2, SeenElems DEF Has
  <1>5. ASSUME NEW x \in below PROVE \E i, j \in Positions(q) : x = <<q.elems[i], q.elems[j]>>
    <2>1. CASE x = <<v, v>>
      BY <1>2, <2>1
    <2>2. CASE x \in Seen(p).below
      BY <1>2, <2>2, SeenBelow
    <2> QED BY <2>1, <2>2
  <1>6. ASSUME NEW i \in Positions(q), NEW j \in Positions(q)
        PROVE  <<q.elems[i], q.elems[j]>> \in below <=> Below(q.rel, i, j)
    <2>1. CASE i \in Positions(p) /\ j \in Positions(p)
      BY <1>2, <1>3, <2>1, SeenBelow, Order
    <2>2. CASE ~(i \in Positions(p) /\ j \in Positions(p))
      <3>1. <<q.elems[i], q.elems[j]>> \notin Seen(p).below
        <4>1. \A x \in Seen(p).below : x[1] # v /\ x[2] # v
          BY <1>2, SeenBelow
        <4> QED BY <1>2, <2>2, <4>1
      <3> QED BY <1>2, <1>3, <2>2, <3>1
    <2> QED BY <2>1, <2>2
  <1> HIDE DEF below
  <1>7. Seen(q) = [elems |-> Seen(p).elems \cup {v}, below |-> below]
    BY <1>1, <1>4, <1>5, <1>6, SeenIs
  <1> QED BY <1>7 DEF below, q

LEMMA SeenRemoved ==
  ASSUME NEW p, PosetOK(p), NEW d \in Positions(p)
  PROVE  Seen(Removed(p, d)) =
           [elems |-> Seen(p).elems \ {p.elems[d]},
            below |-> {x \in Seen(p).below : x[1] # p.elems[d] /\ x[2] # p.elems[d]}]
  <1> DEFINE q == Removed(p, d)
             v == p.elems[d]
             n == Len(p.elems) - 1
             f(i) == Before(d, i)
             below == {x \in Seen(p).below : x[1] # v /\ x[2] # v}
  <1>1. PosetOK(q)
    BY RemovedOK
  <1>2. Positions(q) = 1 .. n /\ \A i \in 1 .. n : q.elems[i] = p.elems[f(i)]
    BY RemovedElems
  <1>3. /\ \A i \in 1 .. n : f(i) \in Positions(p) \ {d}
        /\ \A k \in Positions(p) \ {d} : \E i \in 1 .. n : k = f(i)
    BY BeforeIs
  <1>4. \A i, j \in 1 .. n : Below(q.rel, i, j) <=> Below(p.rel, f(i), f(j))
    BY RemovedBelow
  <1>5. \A k \in Positions(p) : p.elems[k] = v => k = d
    BY DEF PosetOK
  <1> HIDE DEF q, n, f, v
  <1>6. \A w : w \in Seen(p).elems \ {v} <=> Has(q, w)
    <2>1. ASSUME NEW w, Has(q, w) PROVE w \in Seen(p).elems \ {v}
      <3>1. PICK i \in 1 .. n : w = p.elems[f(i)]
        BY <1>2, <2>1 DEF Has
      <3> QED BY <1>3, <1>5, <3>1, SeenElems
    <2>2. ASSUME NEW w \in Seen(p).elems \ {v} PROVE Has(q, w)
      <3>1. PICK k \in Positions(p) : w = p.elems[k]
        BY SeenElems
      <3>2. PICK i \in 1 .. n : k = f(i)
        BY <1>3, <3>1 DEF v
      <3> QED BY <1>2, <3>1, <3>2 DEF Has
    <2> QED BY <2>1, <2>2
  <1>7. ASSUME NEW x \in below PROVE \E i, j \in Positions(q) : x = <<q.elems[i], q.elems[j]>>
    <2>1. PICK k, l \in Positions(p) : x = <<p.elems[k], p.elems[l]>>
      BY SeenBelow
    <2>2. k # d /\ l # d
      BY <2>1 DEF v
    <2>3. PICK i \in 1 .. n : k = f(i)
      BY <1>3, <2>2
    <2>4. PICK j \in 1 .. n : l = f(j)
      BY <1>3, <2>2
    <2> QED BY <1>2, <2>1, <2>3, <2>4
  <1>8. ASSUME NEW i \in Positions(q), NEW j \in Positions(q)
        PROVE  <<q.elems[i], q.elems[j]>> \in below <=> Below(q.rel, i, j)
    <2>1. f(i) \in Positions(p) /\ f(j) \in Positions(p) /\ q.elems[i] # v /\ q.elems[j] # v
      BY <1>2, <1>3, <1>5
    <2>2. <<q.elems[i], q.elems[j]>> \in Seen(p).below <=> Below(q.rel, i, j)
      BY <1>2, <1>4, <2>1, SeenBelow
    <2> QED BY <2>1, <2>2
  <1> HIDE DEF below
  <1>9. Seen(q) = [elems |-> Seen(p).elems \ {v}, below |-> below]
    BY <1>1, <1>6, <1>7, <1>8, SeenIs
  <1> QED BY <1>9 DEF below, q, v

LEMMA SeenRelated ==
  ASSUME NEW p, PosetOK(p), NEW a \in Positions(p), NEW b \in Positions(p),
         ~Below(p.rel, a, b), ~Below(p.rel, b, a)
  PROVE  Seen(Related(p, a, b)) =
           [elems |-> Seen(p).elems,
            below |-> Promised!Closure(Seen(p).below, p.elems[a], p.elems[b])]
  <1> DEFINE q == Related(p, a, b)
             old == Seen(p).below
             v == p.elems[a]
             w == p.elems[b]
             below == Promised!Closure(old, v, w)
  <1>1. PosetOK(q) /\ q.elems = p.elems
    BY RelatedOK
  <1>2. Positions(q) = Positions(p)
    BY <1>1 DEF Positions
  <1>3. \A i, j \in Positions(p) : Below(q.rel, i, j) <=>
          Below(p.rel, i, j) \/ (Below(p.rel, i, a) /\ Below(p.rel, b, j))
    BY RelatedBelow
  <1>4. \A x : x \in Seen(p).elems <=> Has(q, x)
    BY <1>1, <1>2, SeenElems DEF Has
  <1> HIDE DEF q
  <1>5. ASSUME NEW i \in Positions(p), NEW j \in Positions(p)
        PROVE  <<p.elems[i], p.elems[j]>> \in below <=>
                 Below(p.rel, i, j) \/ (Below(p.rel, i, a) /\ Below(p.rel, b, j))
    <2> DEFINE x == <<p.elems[i], p.elems[j]>>
    <2>1. x \in old <=> Below(p.rel, i, j)
      BY SeenBelow
    <2>2. <<p.elems[i], v>> \in old <=> Below(p.rel, i, a)
      BY SeenBelow
    <2>3. <<w, p.elems[j]>> \in old <=> Below(p.rel, b, j)
      BY SeenBelow
    <2>4. <<p.elems[i], v>> \in old => p.elems[i] \in {y[1] : y \in old}
      BY Zenon, <<p.elems[i], v>>[1] = p.elems[i]
    <2>5. <<w, p.elems[j]>> \in old => p.elems[j] \in {y[2] : y \in old}
      BY Zenon, <<w, p.elems[j]>>[2] = p.elems[j]
    <2>6. x[1] = p.elems[i] /\ x[2] = p.elems[j]
      OBVIOUS
    <2>7. x \in {y[1] : y \in old} \X {y[2] : y \in old} <=>
            p.elems[i] \in {y[1] : y \in old} /\ p.elems[j] \in {y[2] : y \in old}
      OBVIOUS
    <2> HIDE DEF x, old, v, w
    <2>8. x \in below <=> x \in old \/ (<<p.elems[i], v>> \in old /\ <<w, p.elems[j]>> \in old)
      BY <2>4, <2>5, <2>6, <2>7 DEF Promised!Closure
    <2> QED BY <2>1, <2>2, <2>3, <2>8 DEF x
  <1>6. ASSUME NEW x \in below
        PROVE  \E i, j \in Positions(q) : x = <<q.elems[i], q.elems[j]>>
    <2>1. CASE x \in old
      BY <1>1, <1>2, <2>1, SeenBelow
    <2>2. CASE x \notin old
      <3>1. x \in {y[1] : y \in old} \X {y[2] : y \in old}
        BY <2>2 DEF Promised!Closure
      <3>2. PICK y \in old, z \in old : x = <<y[1], z[2]>>
        BY <3>1
      <3>3. PICK i \in Positions(p) : y[1] = p.elems[i]
        BY SeenBelow
      <3>4. PICK j \in Positions(p) : z[2] = p.elems[j]
        BY SeenBelow
      <3> QED BY <1>1, <1>2, <3>2, <3>3, <3>4
    <2> QED BY <2>1, <2>2
  <1>7. \A i, j \in Positions(q) : <<q.elems[i], q.elems[j]>> \in below <=> Below(q.rel, i, j)
    BY <1>1, <1>2, <1>3, <1>5
  <1> HIDE DEF below
  <1>8. Seen(q) = [elems |-> Seen(p).elems, below |-> below]
    BY <1>1, <1>4, <1>6, <1>7, SeenIs
  <1> QED BY <1>8 DEF below, q

LEMMA SeenUnrelated ==
  ASSUME NEW p, PosetOK(p), NEW a \in Positions(p), NEW b \in Positions(p),
         Below(p.rel, a, b), a # b, ~SomethingIsBetween(p, a, b)
  PROVE  Seen(Unrelated(p, a, b)) =
           [elems |-> Seen(p).elems,
            below |-> Seen(p).below \ {<<p.elems[a], p.elems[b]>>}]
  <1> DEFINE q == Unrelated(p, a, b)
             below == Seen(p).below \ {<<p.elems[a], p.elems[b]>>}
  <1>1. PosetOK(q) /\ q.elems = p.elems
    BY UnrelatedOK
  <1>2. Positions(q) = Positions(p)
    BY <1>1 DEF Positions
  <1>3. \A i, j \in Positions(p) : Below(q.rel, i, j) <=> Below(p.rel, i, j) /\ ~(i = a /\ j = b)
    BY UnrelatedBelow
  <1>4. \A x : x \in Seen(p).elems <=> Has(q, x)
    BY <1>1, <1>2, SeenElems DEF Has
  <1>5. \A i, j \in Positions(p) : p.elems[i] = p.elems[j] => i = j
    BY DEF PosetOK
  <1> HIDE DEF q
  <1>6. \A x \in below : \E i, j \in Positions(q) : x = <<q.elems[i], q.elems[j]>>
    BY <1>1, <1>2, SeenBelow
  <1>7. ASSUME NEW i \in Positions(q), NEW j \in Positions(q)
        PROVE  <<q.elems[i], q.elems[j]>> \in below <=> Below(q.rel, i, j)
    <2>1. <<p.elems[i], p.elems[j]>> = <<p.elems[a], p.elems[b]>> <=> i = a /\ j = b
      BY <1>2, <1>5
    <2> QED BY <1>1, <1>2, <1>3, <2>1, SeenBelow
  <1> HIDE DEF below
  <1>8. Seen(q) = [elems |-> Seen(p).elems, below |-> below]
    BY <1>1, <1>4, <1>6, <1>7, SeenIs
  <1> QED BY <1>8 DEF below, q

(* somethingIsBetweenTwoElem: a pair may go exactly when an order is left. *)
LEMMA MayGo ==
  ASSUME NEW p, PosetOK(p), NEW a \in Positions(p), NEW b \in Positions(p), Below(p.rel, a, b)
  PROVE  Promised!IsOrder(Seen(p).elems, Seen(p).below \ {<<p.elems[a], p.elems[b]>>})
           <=> a # b /\ ~SomethingIsBetween(p, a, b)
  <1> DEFINE e == p.elems
             below == Seen(p).below \ {<<e[a], e[b]>>}
  <1>1. \A i, j \in Positions(p) : e[i] = e[j] => i = j
    BY DEF PosetOK
  <1>2. \A i, j \in Positions(p) : <<e[i], e[j]>> \in Seen(p).below <=> Below(p.rel, i, j)
    BY SeenBelow
  <1>3. \A i, j \in Positions(p) : <<e[i], e[j]>> \in below <=> Below(p.rel, i, j) /\ ~(i = a /\ j = b)
    <2> SUFFICES ASSUME NEW i \in Positions(p), NEW j \in Positions(p)
                 PROVE  <<e[i], e[j]>> \in below <=> Below(p.rel, i, j) /\ ~(i = a /\ j = b)
      OBVIOUS
    <2>1. <<e[i], e[j]>> = <<e[a], e[b]>> <=> i = a /\ j = b
      BY <1>1
    <2> QED BY <1>2, <2>1
  <1>4. \A x \in below : \E i, j \in Positions(p) : x = <<e[i], e[j]>>
    BY SeenBelow
  <1>5. \A i \in Positions(p) : e[i] \in Seen(p).elems
    BY SeenElems
  <1> HIDE DEF e, below
  <1>6. ASSUME Promised!IsOrder(Seen(p).elems, below)
        PROVE  a # b /\ ~SomethingIsBetween(p, a, b)
    <2>1. <<e[a], e[a]>> \in below
      BY <1>5, <1>6 DEF Promised!IsOrder
    <2>2. a # b
      BY <1>3, <2>1
    <2>3. ASSUME NEW i \in Positions(p) \ {a, b}, Below(p.rel, a, i), Below(p.rel, i, b)
          PROVE  FALSE
      <3>1. <<e[a], e[i]>> \in below /\ <<e[i], e[b]>> \in below
        BY <1>3, <2>3
      <3>2. \A x, y \in below : x[2] = y[1] => <<x[1], y[2]>> \in below
        BY <1>6 DEF Promised!IsOrder
      <3>3. <<e[a], e[i]>>[2] = <<e[i], e[b]>>[1] => <<<<e[a], e[i]>>[1], <<e[i], e[b]>>[2]>> \in below
        BY Zenon, <3>1, <3>2
      <3>4. <<e[a], e[b]>> \in below
        BY <3>3
      <3> QED BY <1>3, <3>4
    <2> QED BY <2>2, <2>3 DEF SomethingIsBetween
  <1>7. ASSUME a # b, ~SomethingIsBetween(p, a, b)
        PROVE  Promised!IsOrder(Seen(p).elems, below)
    <2>1. \A i \in Positions(p) \ {a, b} : ~(Below(p.rel, a, i) /\ Below(p.rel, i, b))
      BY <1>7 DEF SomethingIsBetween
    <2>2. ASSUME NEW v \in Seen(p).elems PROVE <<v, v>> \in below
      <3>1. PICK i \in Positions(p) : v = e[i]
        BY SeenElems DEF e
      <3> QED BY <1>3, <1>7, <3>1, Order
    <2>3. ASSUME NEW x \in below, <<x[2], x[1]>> \in below PROVE x[1] = x[2]
      <3>1. PICK i, j \in Positions(p) : x = <<e[i], e[j]>>
        BY <1>4
      <3>2. Below(p.rel, i, j) /\ Below(p.rel, j, i)
        BY <1>3, <2>3, <3>1
      <3> QED BY <3>1, <3>2, Order
    <2>4. ASSUME NEW x \in below, NEW y \in below, x[2] = y[1] PROVE <<x[1], y[2]>> \in below
      <3>1. PICK i, j \in Positions(p) : x = <<e[i], e[j]>>
        BY <1>4
      <3>2. PICK k, l \in Positions(p) : y = <<e[k], e[l]>>
        BY <1>4
      <3>3. j = k
        BY <1>1, <2>4, <3>1, <3>2 DEF e
      <3>4. /\ Below(p.rel, i, j) /\ ~(i = a /\ j = b)
            /\ Below(p.rel, j, l) /\ ~(j = a /\ l = b)
        BY <1>3, <3>1, <3>2, <3>3
      <3>5. Below(p.rel, i, l) /\ ~(i = a /\ l = b)
        BY <2>1, <3>4, Order
      <3> QED BY <1>3, <3>1, <3>2, <3>5
    <2> QED BY <2>2, <2>3, <2>4 DEF Promised!IsOrder
  <1> QED BY <1>6, <1>7 DEF below, e

LEMMA SeenSize ==
  ASSUME NEW p, PosetOK(p)
  PROVE  Cardinality(Seen(p).elems) = Len(p.elems)
  <1> DEFINE S == 1 .. Len(p.elems)
             T == Seen(p).elems
  <1>1. Len(p.elems) \in Nat /\ p.elems \in [S -> Value] /\ Positions(p) = S
    BY LenProperties DEF PosetOK, Positions
  <1>2. IsFiniteSet(S) /\ Cardinality(S) = Len(p.elems)
    <2> DEFINE n == Len(p.elems)
    <2>1. n \in Int /\ 1 \in Int
      BY <1>1
    <2> HIDE DEF n
    <2>2. IsFiniteSet(1 .. n) /\ Cardinality(1 .. n) = IF 1 > n THEN 0 ELSE n - 1 + 1
      BY ONLY <2>1, FS_Interval
    <2> QED BY <1>1, <2>2 DEF n
  <1>3. \A i \in S : p.elems[i] \in T
    BY <1>1, SeenElems
  <1>4. \A v \in T : \E i \in S : p.elems[i] = v
    BY <1>1, SeenElems
  <1>5. \A i, j \in S : p.elems[i] = p.elems[j] => i = j
    BY <1>1 DEF PosetOK
  <1> HIDE DEF S, T
  <1>6. p.elems \in Bijection(S, T)
    BY <1>1, <1>3, <1>4, <1>5 DEF Bijection, Injection, Surjection, IsInjective
  <1>7. Cardinality(T) = Cardinality(S)
    BY <1>2, <1>6, FS_Bijection DEF ExistsBijection
  <1> QED BY <1>2, <1>7 DEF T

-----------------------------------------------------------------------------
(* The refinement.                                                         *)

Sets == [id \in DOMAIN posets |-> Seen(posets[id])]

LEMMA Mapped ==
  ASSUME PosetInv
  PROVE  /\ DOMAIN Sets = DOMAIN posets
         /\ \A id \in DOMAIN posets : PosetOK(posets[id]) /\ Sets[id] = Seen(posets[id])
         /\ \A id, v : v \in Promised!Elems(id) <=> Exists(id) /\ Has(posets[id], v)
         /\ \A id : Promised!Elems(id) \subseteq Value
  <1>1. \A id \in DOMAIN posets : PosetOK(posets[id]) /\ Sets[id] = Seen(posets[id])
    BY DEF PosetInv, PartialOrders, Sets
  <1>2. \A id : Promised!Elems(id) = IF Exists(id) THEN Seen(posets[id]).elems ELSE {}
    BY <1>1 DEF Promised!Elems, Sets, Exists
  <1>3. \A id, v : v \in Promised!Elems(id) <=> Exists(id) /\ Has(posets[id], v)
    BY <1>1, <1>2, SeenElems DEF Exists
  <1>4. \A id : Promised!Elems(id) \subseteq Value
    BY <1>1, <1>2, SeenElems DEF Exists
  <1> QED BY <1>1, <1>3, <1>4 DEF Sets

LEMMA MappedRefuse ==
  ASSUME NEW condition, RefusedUnless(condition)
  PROVE  Promised!Refuse
  BY DEF RefusedUnless, Promised!Refuse

LEMMA MappedBecome ==
  ASSUME PosetInv, NEW id, Exists(id), NEW q, Becomes(id, q)
  PROVE  Promised!Become(id, Seen(q))
  <1>1. DOMAIN posets' = DOMAIN posets /\ \A x \in DOMAIN posets : posets'[x] = IF x = id THEN q ELSE posets[x]
    BY DEF Becomes
  <1>2. Sets' = [x \in DOMAIN posets |-> IF x = id THEN Seen(q) ELSE Seen(posets[x])]
    <2>1. Sets' = [x \in DOMAIN posets' |-> Seen(posets'[x])]
      BY DEF Sets
    <2> QED BY <1>1, <2>1
  <1>3. Sets' = [Sets EXCEPT ![id] = Seen(q)]
    BY <1>2 DEF Sets
  <1> QED BY <1>3 DEF Promised!Become, Sets, Becomes

LEMMA SimNew ==
  ASSUME PosetInv, next_id <= MaxPosets, available # <<>> \/ next_id < MaxPosets, poset_new
  PROVE  Promised!New
  <1>1. next_id \in Nat /\ MaxPosets \in Nat /\ DOMAIN posets \subseteq 0 .. next_id - 1
    BY DEF PosetInv, IdsApart
  <1>2. ASSUME NEW id \in Id, id \notin DOMAIN posets, Created(id)
        PROVE  Promised!New
    <2>1. posets' = [x \in DOMAIN posets \cup {id} |-> IF x \in DOMAIN posets THEN posets[x] ELSE EmptyPoset]
      BY <1>2 DEF Created
    <2>2. Sets' = [x \in DOMAIN posets' |-> Seen(posets'[x])]
      BY DEF Sets
    <2>3. Sets' = [x \in DOMAIN Sets \cup {id} |-> IF x = id THEN Promised!Empty ELSE Sets[x]]
      BY <1>2, <2>1, <2>2, SeenEmpty, Mapped
    <2>4. id \in Id \ DOMAIN Sets /\ result' = id
      BY <1>2, Mapped DEF Created
    <2> QED BY <2>3, <2>4 DEF Promised!New, Sets
  <1>3. CASE available # <<>> /\ Created(Head(available))
    <2>1. Head(available) = available[1] /\ 1 \in DOMAIN available
      BY <1>3, QueueOfIds, EmptySeq DEF PosetInv, IdsApart
    <2>2. Head(available) \in (0 .. next_id - 1) \ DOMAIN posets
      BY <2>1, QueueOfIds
    <2> QED BY <1>1, <1>2, <1>3, <2>2 DEF Id
  <1>4. CASE available = <<>> /\ Created(next_id)
    <2>1. next_id \in Id /\ next_id \notin DOMAIN posets
      BY <1>1, <1>4 DEF Id
    <2> QED BY <1>2, <1>4, <2>1
  <1> QED BY <1>3, <1>4 DEF poset_new

LEMMA SimDelete ==
  ASSUME PosetInv, NEW id \in Id, poset_delete(id)
  PROVE  Promised!Delete(id)
  <1>1. Sets' = [x \in DOMAIN posets' |-> Seen(posets'[x])]
    BY DEF Sets
  <1>2. Sets' = [x \in DOMAIN Sets \ {id} |-> Sets[x]]
    BY <1>1, Mapped DEF poset_delete
  <1> QED BY <1>2 DEF poset_delete, Promised!Delete, Sets

LEMMA SimSize ==
  ASSUME PosetInv, NEW id \in Id, poset_size(id)
  PROVE  Promised!Size(id)
  <1>1. result' = Cardinality(Promised!Elems(id))
    <2>1. CASE Exists(id)
      BY <2>1, Mapped, SeenSize DEF poset_size, Promised!Elems, Exists, Sets
    <2>2. CASE ~Exists(id)
      <3>1. Promised!Elems(id) = {} /\ Cardinality({}) = 0
        BY <2>2, Mapped, FS_EmptySet
      <3> QED BY <2>2, <3>1 DEF poset_size
    <2> QED BY <2>1, <2>2
  <1>2. UNCHANGED Sets
    BY DEF poset_size, Sets
  <1>3. ASSUME NEW S PROVE Promised!Cardinality(S) = Cardinality(S)
    BY DEF Cardinality, Promised!Cardinality
  <1> QED BY <1>1, <1>2, <1>3 DEF Promised!Size, Sets

LEMMA SimInsert ==
  ASSUME PosetInv, NEW id \in Id, NEW v \in Arg, poset_insert(id, v)
  PROVE  Promised!Insert(id, v)
  <1> DEFINE p == posets[id]
             C == v # NULL /\ Exists(id) /\ ~Has(p, v)
  <1>1. id \in DOMAIN Sets /\ v \in Value \ Promised!Elems(id) <=> C
    BY Mapped DEF Exists, Arg
  <1>2. CASE RefusedUnless(C)
    <2>1. Promised!Refuse /\ ~C
      BY <1>2, MappedRefuse DEF RefusedUnless
    <2> QED BY <1>1, <2>1 DEF Promised!Insert, Sets
  <1>3. CASE C /\ Becomes(id, Inserted(p, v))
    <2>1. PosetOK(p) /\ v \in Value /\ Sets[id] = Seen(p)
      BY <1>3, Mapped DEF Exists, Arg
    <2>2. Promised!Become(id, Seen(Inserted(p, v)))
      BY <1>3, MappedBecome
    <2>3. Seen(Inserted(p, v)) = [elems |-> Promised!Elems(id) \cup {v}, below |-> Seen(p).below \cup {<<v, v>>}]
      BY <1>3, <2>1, SeenInserted, Mapped DEF Promised!Elems, Sets, Exists
    <2>4. Promised!Elems(id) = Seen(p).elems
      BY <1>3, <2>1, Mapped DEF Promised!Elems, Sets, Exists
    <2> QED BY <1>1, <1>3, <2>1, <2>2, <2>3, <2>4 DEF Promised!Insert, Sets
  <1> QED BY <1>2, <1>3 DEF poset_insert

LEMMA SimRemove ==
  ASSUME PosetInv, NEW id \in Id, NEW v \in Arg, poset_remove(id, v)
  PROVE  Promised!Remove(id, v)
  <1> DEFINE p == posets[id]
             d == Index(p, v)
  <1>1. v \in Promised!Elems(id) <=> Known(id, v)
    BY Mapped DEF Known
  <1>2. CASE RefusedUnless(Known(id, v))
    <2>1. Promised!Refuse /\ ~Known(id, v)
      BY <1>2, MappedRefuse DEF RefusedUnless
    <2> QED BY <1>1, <2>1 DEF Promised!Remove, Sets
  <1>3. CASE Known(id, v) /\ Becomes(id, Removed(p, d))
    <2>1. PosetOK(p) /\ Sets[id] = Seen(p) /\ Exists(id)
      BY <1>3, Mapped DEF Exists, Known
    <2>2. d \in Positions(p) /\ p.elems[d] = v
      BY <1>3, IndexOf DEF Known
    <2>3. Promised!Become(id, Seen(Removed(p, d)))
      BY <1>3, <2>1, MappedBecome
    <2>4. Promised!Become(id, [elems |-> Seen(p).elems \ {v},
                               below |-> {x \in Seen(p).below : x[1] # v /\ x[2] # v}])
      <3> HIDE DEF d, p
      <3>1. Seen(Removed(p, d)) = [elems |-> Seen(p).elems \ {p.elems[d]},
                                   below |-> {x \in Seen(p).below : x[1] # p.elems[d] /\ x[2] # p.elems[d]}]
        BY <2>1, <2>2, SeenRemoved
      <3> QED BY ONLY <2>2, <2>3, <3>1
    <2> QED BY <1>1, <1>3, <2>1, <2>4 DEF Promised!Remove, Sets
  <1> QED BY <1>2, <1>3 DEF poset_remove

(* What the caller's two names are in the table.                           *)
LEMMA BothKnown ==
  ASSUME PosetInv, NEW id, NEW v, NEW w
  PROVE  /\ Promised!Both(id, v, w) <=> Known(id, v) /\ Known(id, w)
         /\ Known(id, v) /\ Known(id, w) =>
              LET p == posets[id] a == Index(p, v) b == Index(p, w) IN
              /\ PosetOK(p) /\ Sets[id] = Seen(p) /\ Exists(id)
              /\ a \in Positions(p) /\ b \in Positions(p)
              /\ v = p.elems[a] /\ w = p.elems[b]
              /\ <<v, w>> \in Seen(p).below <=> Below(p.rel, a, b)
              /\ <<w, v>> \in Seen(p).below <=> Below(p.rel, b, a)
  <1> DEFINE p == posets[id]
             a == Index(p, v)
             b == Index(p, w)
  <1>1. Promised!Both(id, v, w) <=> Known(id, v) /\ Known(id, w)
    BY Mapped, PosetAssumption DEF Promised!Both, Known
  <1>2. ASSUME Known(id, v), Known(id, w)
        PROVE  /\ PosetOK(p) /\ Sets[id] = Seen(p) /\ Exists(id)
               /\ a \in Positions(p) /\ b \in Positions(p)
               /\ v = p.elems[a] /\ w = p.elems[b]
               /\ <<v, w>> \in Seen(p).below <=> Below(p.rel, a, b)
               /\ <<w, v>> \in Seen(p).below <=> Below(p.rel, b, a)
    <2>1. PosetOK(p) /\ Sets[id] = Seen(p) /\ Exists(id)
      BY <1>2, Mapped DEF Exists, Known
    <2>2. a \in Positions(p) /\ b \in Positions(p) /\ v = p.elems[a] /\ w = p.elems[b]
      BY <1>2, IndexOf DEF Known
    <2> HIDE DEF a, b, p
    <2> QED BY <2>1, <2>2, SeenBelow
  <1> QED BY <1>1, <1>2

LEMMA SimAdd ==
  ASSUME PosetInv, NEW id \in Id, NEW v \in Arg, NEW w \in Arg, poset_add(id, v, w)
  PROVE  Promised!Add(id, v, w)
  <1> DEFINE p == posets[id]
             a == Index(p, v)
             b == Index(p, w)
             C == /\ Known(id, v) /\ Known(id, w)
                  /\ ~Below(p.rel, a, b) /\ ~Below(p.rel, b, a)
  <1>1. Promised!Both(id, v, w) /\ Sets[id].below \cap {<<v, w>>, <<w, v>>} = {} <=> C
    <2>1. Promised!Both(id, v, w) <=> Known(id, v) /\ Known(id, w)
      BY BothKnown
    <2>2. ASSUME Known(id, v), Known(id, w)
          PROVE  /\ <<v, w>> \in Sets[id].below <=> Below(p.rel, a, b)
                 /\ <<w, v>> \in Sets[id].below <=> Below(p.rel, b, a)
      <3>1. Sets[id] = Seen(p)
        BY <2>2, BothKnown
      <3>2. /\ <<v, w>> \in Seen(p).below <=> Below(p.rel, a, b)
            /\ <<w, v>> \in Seen(p).below <=> Below(p.rel, b, a)
        BY <2>2, BothKnown
      <3> QED BY ONLY <3>1, <3>2
    <2> HIDE DEF p, a, b
    <2> QED BY ONLY <2>1, <2>2 DEF C
  <1>2. CASE RefusedUnless(C)
    <2>1. Promised!Refuse /\ ~C
      BY <1>2, MappedRefuse DEF RefusedUnless
    <2> QED BY <1>1, <2>1 DEF Promised!Add, Sets
  <1>3. CASE C /\ Becomes(id, Related(p, a, b))
    <2>1. /\ PosetOK(p) /\ Sets[id] = Seen(p) /\ Exists(id)
          /\ a \in Positions(p) /\ b \in Positions(p)
          /\ v = p.elems[a] /\ w = p.elems[b]
      BY <1>3, BothKnown
    <2>2. Promised!Become(id, Seen(Related(p, a, b)))
      BY <1>3, <2>1, MappedBecome
    <2>3. ~Below(p.rel, a, b) /\ ~Below(p.rel, b, a)
      BY <1>3
    <2> HIDE DEF p, a, b
    <2>4. Seen(Related(p, a, b)) = [elems |-> Seen(p).elems, below |-> Promised!Closure(Seen(p).below, v, w)]
      BY <2>1, <2>3, SeenRelated
    <2>5. [Seen(p) EXCEPT !.below = Promised!Closure(@, v, w)] =
            [elems |-> Seen(p).elems, below |-> Promised!Closure(Seen(p).below, v, w)]
      BY SeenRecord, WithBelow
    <2>6. Promised!Become(id, [Sets[id] EXCEPT !.below = Promised!Closure(@, v, w)])
      BY <2>1, <2>2, <2>4, <2>5
    <2> QED BY <1>1, <1>3, <2>6 DEF Promised!Add, Sets
  <1> QED BY <1>2, <1>3 DEF poset_add

LEMMA SimDel ==
  ASSUME PosetInv, NEW id \in Id, NEW v \in Arg, NEW w \in Arg, poset_del(id, v, w)
  PROVE  Promised!Del(id, v, w)
  <1> DEFINE p == posets[id]
             a == Index(p, v)
             b == Index(p, w)
             C == /\ Known(id, v) /\ Known(id, w) /\ a # b
                  /\ Below(p.rel, a, b) /\ ~SomethingIsBetween(p, a, b)
             D == /\ Promised!Both(id, v, w) /\ <<v, w>> \in Sets[id].below
                  /\ Promised!IsOrder(Sets[id].elems, Sets[id].below \ {<<v, w>>})
  <1>1. D <=> C
    <2>1. CASE Known(id, v) /\ Known(id, w) /\ Below(p.rel, a, b)
      <3>1. /\ PosetOK(p) /\ Sets[id] = Seen(p)
            /\ a \in Positions(p) /\ b \in Positions(p)
            /\ v = p.elems[a] /\ w = p.elems[b] /\ <<v, w>> \in Seen(p).below
        BY <2>1, BothKnown
      <3>2. Promised!IsOrder(Seen(p).elems, Seen(p).below \ {<<v, w>>}) <=> a # b /\ ~SomethingIsBetween(p, a, b)
        <4> HIDE DEF a, b, p
        <4> QED BY <2>1, <3>1, MayGo
      <3> QED BY <2>1, <3>1, <3>2, BothKnown
    <2>2. CASE ~(Known(id, v) /\ Known(id, w) /\ Below(p.rel, a, b))
      BY <2>2, BothKnown
    <2> QED BY <2>1, <2>2
  <1>2. CASE RefusedUnless(C)
    <2>1. Promised!Refuse /\ ~C
      BY <1>2, MappedRefuse DEF RefusedUnless
    <2> QED BY <1>1, <2>1 DEF Promised!Del, Sets
  <1>3. CASE C /\ Becomes(id, Unrelated(p, a, b))
    <2>1. /\ PosetOK(p) /\ Sets[id] = Seen(p) /\ Exists(id)
          /\ a \in Positions(p) /\ b \in Positions(p)
          /\ v = p.elems[a] /\ w = p.elems[b]
      BY <1>3, BothKnown
    <2>2. Promised!Become(id, Seen(Unrelated(p, a, b)))
      BY <1>3, <2>1, MappedBecome
    <2>3. Below(p.rel, a, b) /\ a # b /\ ~SomethingIsBetween(p, a, b)
      BY <1>3
    <2> HIDE DEF p, a, b
    <2>4. Seen(Unrelated(p, a, b)) = [elems |-> Seen(p).elems, below |-> Seen(p).below \ {<<v, w>>}]
      BY <2>1, <2>3, SeenUnrelated
    <2>5. [Seen(p) EXCEPT !.below = @ \ {<<v, w>>}] = [elems |-> Seen(p).elems, below |-> Seen(p).below \ {<<v, w>>}]
      BY SeenRecord, WithBelow
    <2>6. Promised!Become(id, [Sets[id] EXCEPT !.below = @ \ {<<v, w>>}])
      BY <2>1, <2>2, <2>4, <2>5
    <2> QED BY <1>1, <1>3, <2>6 DEF Promised!Del, Sets
  <1> QED BY <1>2, <1>3 DEF poset_del

LEMMA SimTest ==
  ASSUME PosetInv, NEW id \in Id, NEW v \in Arg, NEW w \in Arg, poset_test(id, v, w)
  PROVE  Promised!Test(id, v, w)
  <1>1. /\ Known(id, v) /\ Known(id, w)
        /\ Below(posets[id].rel, Index(posets[id], v), Index(posets[id], w))
        <=> Promised!Both(id, v, w) /\ <<v, w>> \in Sets[id].below
    BY BothKnown
  <1>2. UNCHANGED Sets
    BY DEF poset_test, Sets
  <1> QED BY <1>1, <1>2 DEF poset_test, Promised!Test, Sets

LEMMA SimClear ==
  ASSUME PosetInv, NEW id \in Id, poset_clear(id)
  PROVE  Promised!Clear(id)
  <1>1. CASE ~Exists(id)
    <2>1. UNCHANGED Sets /\ id \notin DOMAIN Sets
      BY <1>1, Mapped DEF poset_clear, Exists, Sets
    <2> QED BY <2>1 DEF poset_clear, Promised!Clear, Sets
  <1>2. CASE Exists(id)
    <2>1. posets' = [posets EXCEPT ![id] = EmptyPoset]
      BY <1>2 DEF poset_clear
    <2>2. Sets' = [x \in DOMAIN posets' |-> Seen(posets'[x])]
      BY DEF Sets
    <2>3. Sets' = [Sets EXCEPT ![id] = Promised!Empty] /\ id \in DOMAIN Sets
      BY <1>2, <2>1, <2>2, SeenEmpty DEF Sets, Exists
    <2> QED BY <2>3 DEF poset_clear, Promised!Clear, Sets
  <1> QED BY <1>1, <1>2

(* Every call does to the sets and orders the caller sees, and returns,    *)
(* what its comment promises (poset_add, poset_del, poset_remove and the   *)
(* other functions of the interface).                                      *)
THEOREM KeepsPromises == Spec => Implements
  <1> DEFINE Inv == PosetInv /\ next_id <= MaxPosets
  <1>1. Init => next_id <= MaxPosets /\ Promised!Init
    <2>1. ASSUME Init PROVE Sets = [id \in {} |-> Promised!Empty]
      BY <2>1 DEF Init, Sets
    <2> QED BY <2>1 DEF Init, Promised!Init, Sets
  <1>2. next_id \in Nat /\ next_id <= MaxPosets /\ [Next]_vars => (next_id <= MaxPosets)'
    <2> SUFFICES ASSUME next_id \in Nat, next_id <= MaxPosets, [Next]_vars PROVE next_id' <= MaxPosets
      OBVIOUS
    <2>1. CASE (available # <<>> \/ (next_id < MaxPosets /\ Fits(0, 1))) /\ poset_new
      BY <2>1 DEF poset_new
    <2>2. CASE UNCHANGED vars
      BY <2>2 DEF vars
    <2>3. ASSUME NEW id \in Id, poset_delete(id) \/ poset_size(id) \/ poset_clear(id)
          PROVE  next_id' = next_id
      BY <2>3 DEF poset_delete, poset_size, poset_clear
    <2>4. ASSUME NEW id \in Id, NEW v \in Arg, poset_remove(id, v) \/ poset_insert(id, v)
          PROVE  next_id' = next_id
      BY <2>4 DEF poset_remove, poset_insert
    <2>5. ASSUME NEW id \in Id, NEW v \in Arg, NEW w \in Arg,
                 poset_add(id, v, w) \/ poset_del(id, v, w) \/ poset_test(id, v, w)
          PROVE  next_id' = next_id
      BY <2>5 DEF poset_add, poset_del, poset_test
    <2> QED BY <2>1, <2>2, <2>3, <2>4, <2>5 DEF Next
  <1>3. Inv /\ [Next]_vars => [Promised!Next]_(Promised!vars)
    <2> SUFFICES ASSUME PosetInv, next_id <= MaxPosets, [Next]_vars
                 PROVE  [Promised!Next]_(Promised!vars)
      OBVIOUS
    <2>1. CASE (available # <<>> \/ (next_id < MaxPosets /\ Fits(0, 1))) /\ poset_new
      <3>1. Promised!New
        BY <2>1, SimNew
      <3> QED BY <3>1 DEF Promised!Next
    <2>2. ASSUME NEW id \in Id, poset_delete(id) \/ poset_size(id) \/ poset_clear(id)
          PROVE  Promised!Next
      <3>1. Promised!Delete(id) \/ Promised!Size(id) \/ Promised!Clear(id)
        BY <2>2, SimDelete, SimSize, SimClear
      <3> QED BY <3>1 DEF Promised!Next
    <2>3. ASSUME NEW id \in Id, NEW v \in Arg, poset_remove(id, v) \/ poset_insert(id, v)
          PROVE  Promised!Next
      <3>1. Promised!Insert(id, v) \/ Promised!Remove(id, v)
        BY <2>3, SimInsert, SimRemove
      <3> QED BY <3>1 DEF Promised!Next, Arg
    <2>4. ASSUME NEW id \in Id, NEW v \in Arg, NEW w \in Arg,
                 poset_add(id, v, w) \/ poset_del(id, v, w) \/ poset_test(id, v, w)
          PROVE  Promised!Next
      <3>1. Promised!Add(id, v, w) \/ Promised!Del(id, v, w) \/ Promised!Test(id, v, w)
        BY <2>4, SimAdd, SimDel, SimTest
      <3> QED BY <3>1 DEF Promised!Next, Arg
    <2>5. CASE UNCHANGED vars
      BY <2>5 DEF vars, Promised!vars
    <2> QED BY <2>1, <2>2, <2>3, <2>4, <2>5 DEF Next
  <1>4. PosetInv => next_id \in Nat
    BY DEF PosetInv, IdsApart
  <1>5. Spec => []Inv
    BY <1>1, <1>2, <1>4, OrdersKept, PTL DEF Spec
  <1> QED BY <1>1, <1>3, <1>5, PTL DEF Spec, Implements, Promised!Spec
=============================================================================
