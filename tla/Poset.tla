------------------------------- MODULE Poset -------------------------------
(***************************************************************************)
(* poset.cc: the posets of the program, each a vector of names and a table *)
(* of relations between their positions, and the calls of its interface.   *)
(* An entry of a table says whether the row's element precedes the         *)
(* column's, and whether the caller said so or it follows.  `result` is    *)
(* what the last call returned, true and false being 1 and 0.              *)
(***************************************************************************)
EXTENDS Integers, Sequences, FiniteSets

CONSTANTS
  Value,        \* the names of elements
  NULL,         \* a null pointer passed for a name
  MaxPosets,    \* bound: identifiers ever taken from the counter
  Room          \* bound: elements of all posets once n identifiers were given out

ASSUME PosetAssumption == NULL \notin Value /\ MaxPosets \in Nat /\ Room \in [0 .. MaxPosets -> Nat]

NO_RELATION == -1
RELATION == 1
REL_TRANSITIVITY == 2
Relation == {NO_RELATION, RELATION, REL_TRANSITIVITY}

VARIABLES
  posets,       \* allPosets: identifier -> [elems, rel]
  available,    \* availableIDs: the identifiers of deleted posets, in a queue
  next_id,      \* nextID
  result

vars == <<posets, available, next_id, result>>

Id == 0 .. MaxPosets - 1
Arg == Value \cup {NULL}

-----------------------------------------------------------------------------
(* One poset.                                                              *)

EmptyPoset == [elems |-> <<>>, rel |-> <<>>]

Positions(p) == 1 .. Len(p.elems)
Below(t, i, j) == t[i][j] \in {RELATION, REL_TRANSITIVITY}

Has(p, v) == \E i \in Positions(p) : p.elems[i] = v
Index(p, v) == CHOOSE i \in Positions(p) : p.elems[i] = v

(* A new element is last, and related to itself only.                      *)
Inserted(p, v) ==
  LET n == Len(p.elems) + 1 IN
  [elems |-> [i \in 1 .. n |-> IF i = n THEN v ELSE p.elems[i]],
   rel |-> [i \in 1 .. n |-> [j \in 1 .. n |->
              IF i # n /\ j # n THEN p.rel[i][j]
              ELSE IF i = j THEN RELATION ELSE NO_RELATION]]]

(* Before its row and column go, what followed through the element at d    *)
(* becomes a relation of its own.  The loops over rows and columns write   *)
(* entries that none of them reads again, so their order does not matter.  *)
Kept(t, d, i, j) ==
  IF t[i][j] = REL_TRANSITIVITY /\ Below(t, i, d) /\ Below(t, d, j) THEN RELATION ELSE t[i][j]

(* The position that i had before the one at d was erased.                 *)
Before(d, i) == IF i < d THEN i ELSE i + 1

Removed(p, d) ==
  LET n == Len(p.elems) - 1 IN
  [elems |-> [i \in 1 .. n |-> p.elems[Before(d, i)]],
   rel |-> [i \in 1 .. n |-> [j \in 1 .. n |-> Kept(p.rel, d, Before(d, i), Before(d, j))]]]

(* The pairs that follow from a < b: everything below a and not yet below  *)
(* b gets all that b is below of; a itself the same, except for a place    *)
(* whose turn in the loop was spent on the first branch.                   *)
GainsAll(t, a, b, i) == i \notin {a, b} /\ Below(t, i, a) /\ t[i][b] = NO_RELATION

Follows_onlyB(t, a, b, i, j) ==
  /\ t[i][j] = NO_RELATION
  /\ \/ GainsAll(t, a, b, i) /\ j = b
     \/ i = a /\ j \notin {a, b} /\ Below(t, b, j)

Follows(t, a, b, i, j) ==
  /\ t[i][j] = NO_RELATION
  /\ Below(t, b, j)
  /\ \/ GainsAll(t, a, b, i)
     \/ i = a /\ j \notin {a, b} /\ ~GainsAll(t, a, b, j)

Related(p, a, b) ==
  [p EXCEPT !.rel = [i \in Positions(p) |-> [j \in Positions(p) |->
      IF i = a /\ j = b THEN RELATION
      ELSE IF Follows(p.rel, a, b, i, j) THEN REL_TRANSITIVITY ELSE p.rel[i][j]]]]

SomethingIsBetween_given(p, a, b) ==
  \E i \in Positions(p) \ {a, b} : p.rel[a][i] = RELATION /\ p.rel[i][b] = RELATION

SomethingIsBetween(p, a, b) ==
  \E i \in Positions(p) \ {a, b} : Below(p.rel, a, i) /\ Below(p.rel, i, b)

Unrelated(p, a, b) ==
  [p EXCEPT !.rel = [i \in Positions(p) |-> [j \in Positions(p) |->
      IF {i, j} = {a, b} /\ i # j THEN NO_RELATION ELSE p.rel[i][j]]]]

-----------------------------------------------------------------------------
(* The calls.  Each is refused unless the poset exists and the arguments   *)
(* are what it asks for; a refused call returns false and changes nothing. *)

Exists(id) == id \in DOMAIN posets
Known(id, v) == v # NULL /\ Exists(id) /\ Has(posets[id], v)

RefusedUnless(condition) == ~condition /\ result' = 0 /\ UNCHANGED posets
Becomes(id, p) == posets' = [posets EXCEPT ![id] = p] /\ result' = 1

Init == /\ posets = [id \in {} |-> EmptyPoset]
        /\ available = <<>>
        /\ next_id = 0
        /\ result = 0

Created(id) ==
  /\ posets' = [x \in DOMAIN posets \cup {id} |-> IF x \in DOMAIN posets THEN posets[x] ELSE EmptyPoset]
  /\ result' = id

poset_new ==
  \/ /\ available # <<>>
     /\ Created(Head(available))
     /\ available' = Tail(available)
     /\ UNCHANGED next_id
  \/ /\ available = <<>>
     /\ Created(next_id)
     /\ next_id' = next_id + 1
     /\ UNCHANGED available

poset_delete(id) ==
  /\ posets' = [x \in DOMAIN posets \ {id} |-> posets[x]]
  /\ available' = IF Exists(id) THEN Append(available, id) ELSE available
  /\ UNCHANGED <<next_id, result>>

poset_size(id) ==
  /\ result' = IF Exists(id) THEN Len(posets[id].elems) ELSE 0
  /\ UNCHANGED <<posets, available, next_id>>

poset_insert(id, v) ==
  LET inserts == v # NULL /\ Exists(id) /\ ~Has(posets[id], v) IN
  /\ \/ RefusedUnless(inserts)
     \/ inserts /\ Becomes(id, Inserted(posets[id], v))
  /\ UNCHANGED <<available, next_id>>

poset_remove(id, v) ==
  /\ \/ RefusedUnless(Known(id, v))
     \/ Known(id, v) /\ Becomes(id, Removed(posets[id], Index(posets[id], v)))
  /\ UNCHANGED <<available, next_id>>

poset_add(id, v, w) ==
  LET p == posets[id]
      a == Index(p, v)
      b == Index(p, w)
      extends == /\ Known(id, v) /\ Known(id, w)
                 /\ ~Below(p.rel, a, b) /\ ~Below(p.rel, b, a)
  IN /\ \/ RefusedUnless(extends)
        \/ extends /\ Becomes(id, Related(p, a, b))
     /\ UNCHANGED <<available, next_id>>

poset_del(id, v, w) ==
  LET p == posets[id]
      a == Index(p, v)
      b == Index(p, w)
      removes == /\ Known(id, v) /\ Known(id, w) /\ a # b
                 /\ Below(p.rel, a, b) /\ ~SomethingIsBetween(p, a, b)
  IN /\ \/ RefusedUnless(removes)
        \/ removes /\ Becomes(id, Unrelated(p, a, b))
     /\ UNCHANGED <<available, next_id>>

poset_test(id, v, w) ==
  /\ result' = IF /\ Known(id, v) /\ Known(id, w)
                  /\ Below(posets[id].rel, Index(posets[id], v), Index(posets[id], w)) THEN 1 ELSE 0
  /\ UNCHANGED <<posets, available, next_id>>

poset_clear(id) ==
  /\ posets' = IF Exists(id) THEN [posets EXCEPT ![id] = EmptyPoset] ELSE posets
  /\ UNCHANGED <<available, next_id, result>>

Elements == UNION {{id} \X Positions(posets[id]) : id \in DOMAIN posets}
Fits(elements, ids) == Cardinality(Elements) + elements <= Room[next_id + ids]

Next ==
  \/ (available # <<>> \/ (next_id < MaxPosets /\ Fits(0, 1))) /\ poset_new
  \/ \E id \in Id : poset_delete(id) \/ poset_size(id) \/ poset_clear(id)
  \/ \E id \in Id, v \in Arg : poset_remove(id, v) \/ (Fits(1, 0) /\ poset_insert(id, v))
  \/ \E id \in Id, v, w \in Arg : poset_add(id, v, w) \/ poset_del(id, v, w) \/ poset_test(id, v, w)

Spec == Init /\ [][Next]_vars

-----------------------------------------------------------------------------
(* Every table is a partial order on the positions of a vector without     *)
(* repetitions (addTransitivityRelations, poset_remove, poset_del).        *)
IsTable(t, n) ==
  /\ DOMAIN t = 1 .. n
  /\ \A i \in 1 .. n : t[i] \in [1 .. n -> Relation]

IsOrder(t, n) ==
  /\ \A i \in 1 .. n : Below(t, i, i)
  /\ \A i, j \in 1 .. n : Below(t, i, j) /\ Below(t, j, i) => i = j
  /\ \A i, j, k \in 1 .. n : Below(t, i, j) /\ Below(t, j, k) => Below(t, i, k)

PosetOK(p) ==
  /\ p.elems \in Seq(Value)
  /\ \A i, j \in Positions(p) : p.elems[i] = p.elems[j] => i = j
  /\ IsTable(p.rel, Len(p.elems)) /\ IsOrder(p.rel, Len(p.elems))

PartialOrders == \A id \in DOMAIN posets : PosetOK(posets[id])

(* An identifier is in use, waiting in the queue once, or not given out    *)
(* yet: poset_new never hands out one that is in use.                      *)
IdsApart ==
  /\ next_id \in Nat /\ DOMAIN posets \subseteq 0 .. next_id - 1
  /\ available \in Seq((0 .. next_id - 1) \ DOMAIN posets)
  /\ \A i, j \in DOMAIN available : available[i] = available[j] => i = j

PosetInv == PartialOrders /\ IdsApart

(* What the caller sees of the posets: sets and orders.  Every call does   *)
(* to them, and returns, what its comment says.                            *)
Seen(p) == [elems |-> {p.elems[i] : i \in Positions(p)},
            below |-> {<<p.elems[ij[1]], p.elems[ij[2]]>> :
                         ij \in {x \in Positions(p) \X Positions(p) : Below(p.rel, x[1], x[2])}}]

Promised == INSTANCE OrderedSets WITH sets <- [id \in DOMAIN posets |-> Seen(posets[id])]
Implements == Promised!Spec
=============================================================================
