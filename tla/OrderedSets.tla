---------------------------- MODULE OrderedSets ----------------------------
(***************************************************************************)
(* What the comments of poset.cc promise its callers, with no tables and   *)
(* no queue of identifiers: every poset is a set of values and a partial   *)
(* order on it, and every call changes at most the one it names and says   *)
(* in its result whether it did (1) or not (0).                            *)
(***************************************************************************)
EXTENDS Integers, FiniteSets

CONSTANTS Value, NULL, Id

VARIABLES sets, result
vars == <<sets, result>>

Empty == [elems |-> {}, below |-> {}]
Elems(id) == IF id \in DOMAIN sets THEN sets[id].elems ELSE {}

(* The smallest order over the pairs of `below` and the pair <<a, b>>.     *)
Closure(below, a, b) == below \cup {q \in {p[1] : p \in below} \X {p[2] : p \in below} :
                                      <<q[1], a>> \in below /\ <<b, q[2]>> \in below}

IsOrder(elems, below) ==
  /\ \A x \in elems : <<x, x>> \in below
  /\ \A p \in below : <<p[2], p[1]>> \in below => p[1] = p[2]
  /\ \A p, q \in below : p[2] = q[1] => <<p[1], q[2]>> \in below

Init == sets = [id \in {} |-> Empty] /\ result = 0

Refuse == result' = 0 /\ UNCHANGED sets
Become(id, s) == result' = 1 /\ sets' = [sets EXCEPT ![id] = s]

New == \E id \in Id \ DOMAIN sets :
         /\ sets' = [x \in DOMAIN sets \cup {id} |-> IF x = id THEN Empty ELSE sets[x]]
         /\ result' = id

Delete(id) == /\ sets' = [x \in DOMAIN sets \ {id} |-> sets[x]]
              /\ UNCHANGED result

Size(id) == /\ result' = Cardinality(Elems(id))
            /\ UNCHANGED sets

Insert(id, v) ==
  IF id \in DOMAIN sets /\ v \in Value \ Elems(id)
    THEN Become(id, [elems |-> sets[id].elems \cup {v}, below |-> sets[id].below \cup {<<v, v>>}])
    ELSE Refuse

Remove(id, v) ==
  IF v \in Elems(id)
    THEN Become(id, [elems |-> sets[id].elems \ {v},
                     below |-> {p \in sets[id].below : p[1] # v /\ p[2] # v}])
    ELSE Refuse

Both(id, v, w) == {v, w} \subseteq Elems(id)

Add(id, v, w) ==
  IF Both(id, v, w) /\ sets[id].below \cap {<<v, w>>, <<w, v>>} = {}
    THEN Become(id, [sets[id] EXCEPT !.below = Closure(@, v, w)])
    ELSE Refuse

Del(id, v, w) ==
  IF /\ Both(id, v, w) /\ <<v, w>> \in sets[id].below
     /\ IsOrder(sets[id].elems, sets[id].below \ {<<v, w>>})
    THEN Become(id, [sets[id] EXCEPT !.below = @ \ {<<v, w>>}])
    ELSE Refuse

Test(id, v, w) == /\ result' = IF Both(id, v, w) /\ <<v, w>> \in sets[id].below THEN 1 ELSE 0
                  /\ UNCHANGED sets

Clear(id) == /\ sets' = IF id \in DOMAIN sets THEN [sets EXCEPT ![id] = Empty] ELSE sets
             /\ UNCHANGED result

Next == \/ New
        \/ \E id \in Id : Delete(id) \/ Size(id) \/ Clear(id)
        \/ \E id \in Id, v \in Value \cup {NULL} : Insert(id, v) \/ Remove(id, v)
        \/ \E id \in Id, v, w \in Value \cup {NULL} : Add(id, v, w) \/ Del(id, v, w) \/ Test(id, v, w)

Spec == Init /\ [][Next]_vars
=============================================================================
