------------------------------ MODULE SeqTree ------------------------------
(***************************************************************************)
(* seq.c: a set of ternary sequences kept as a tree with a node for each   *)
(* of them, and the classes of equivalent sequences, records that the      *)
(* nodes of a class share, which count them and own a name.  A node is     *)
(* known by the sequence that leads to it.  Every malloc may fail.  The    *)
(* program holds one set; others share nothing with it.                    *)
(***************************************************************************)
EXTENDS Integers, Sequences, FiniteSets, FiniteSetsExt, SequencesExt

CONSTANTS
  Digit,        \* the characters 0, 1 and 2
  Letter,       \* what names are made of
  Junk,         \* any other character
  Word,         \* bound: the sequences that are asked for
  MaxClasses,   \* bound: classes between two calls
  MaxName,      \* bound: length of the names
  MaxLost       \* bound: names that were never freed

ASSUME SeqAssumption ==
  /\ Junk \notin Digit
  /\ Word \subseteq Seq(Digit) \ {<<>>}
  /\ \A w \in Word : \A k \in 1 .. Len(w) : SubSeq(w, 1, k) \in Word
  /\ MaxClasses \in Nat /\ MaxName \in Nat /\ MaxLost \in Nat

VARIABLES
  made,         \* there is a set
  tree,         \* the nodes other than the root
  class,        \* by node: the address of its class, or NULL
  counter, s,   \* by address of a class: the fields of the record, s by content
  strings,      \* names allocated and not freed
  merged,       \* history: unions of classes with equal names
  result

memory == <<class, counter, s, strings>>
vars == <<made, tree, memory, merged, result>>

NULL == 0
Arg == Word \cup {<<>>, <<Junk>>}
Name == {<<x>> : x \in Letter} \cup {<<>>}

Result(value, text, error) == [value |-> value, name |-> text, error |-> error]
Returns(value) == result' = Result(value, <<>>, "none")
Fails(error) == result' = Result(-1, <<>>, error)
Unchanged == UNCHANGED <<made, tree, memory, merged>>

seq_bad(w) == w = <<>> \/ ~(Range(w) \subseteq Digit)
Invalid(w) == ~made \/ seq_bad(w)
Refused == Fails("EINVAL") /\ Unchanged

Prefix(w, k) == SubSeq(w, 1, k)
Found(w) == \A k \in 1 .. Len(w) : Prefix(w, k) \in tree
Below(w) == {v \in tree : IsPrefix(w, v)}

-----------------------------------------------------------------------------
(* The classes: their records and the pointers to them.                    *)

Heap == [class |-> class, counter |-> counter, s |-> s, strings |-> strings]
Store(h) == /\ class' = h.class /\ counter' = h.counter
            /\ s' = h.s /\ strings' = h.strings

Live(h) == DOMAIN h.counter
Room == Cardinality(DOMAIN counter) < MaxClasses
Drop(f, x) == [y \in DOMAIN f \ {x} |-> f[y]]
Put(f, x, v) == [y \in DOMAIN f \cup {x} |-> IF y = x THEN v ELSE f[y]]
Fresh(h) == CHOOSE c \in 1 .. Cardinality(Live(h)) + 1 : c \notin Live(h)

(* class_new, of an allocated string; the count is set by the caller.      *)
ClassNew(h, text, count) ==
  [h EXCEPT !.counter = Put(@, Fresh(h), count), !.s = Put(@, Fresh(h), text)]

FreeClass(h, c) == [h EXCEPT !.counter = Drop(@, c), !.s = Drop(@, c)]

(* A node leaves its class; the last one frees it.                         *)
Release_uncounted(h, w) ==
  LET c == h.class[w] IN
  IF c = NULL THEN h
  ELSE IF h.counter[c] = 1 THEN [FreeClass(h, c) EXCEPT !.class[w] = NULL, !.strings = @ - 1]
  ELSE [h EXCEPT !.class[w] = NULL]

Release(h, w) ==
  LET c == h.class[w] IN
  IF c = NULL THEN h
  ELSE IF h.counter[c] = 1 THEN [FreeClass(h, c) EXCEPT !.class[w] = NULL, !.strings = @ - 1]
  ELSE IF h.counter[c] > 1 THEN [h EXCEPT !.counter[c] = @ - 1, !.class[w] = NULL]
  ELSE h

Joins(h, w, c) == [h EXCEPT !.class[w] = c, !.counter[c] = @ + 1]

(* class_change: every node of the tree that is in old goes over to new.   *)
ClassChange(h, old, new) ==
  LET moved == {w \in tree : h.class[w] = old} IN
  [h EXCEPT !.class = [w \in tree |-> IF w \in moved THEN new ELSE @[w]],
            !.counter[new] = @ + Cardinality(moved)]

-----------------------------------------------------------------------------
Init == /\ made = FALSE /\ tree = {}
        /\ class = <<>> /\ counter = <<>> /\ s = <<>>
        /\ strings = 0 /\ merged = 0
        /\ result = Result(0, <<>>, "none")

seq_new ==
  /\ ~made
  /\ \/ made' = TRUE /\ UNCHANGED <<tree, memory, merged, result>>
     \/ Fails("ENOMEM") /\ Unchanged

WithNodes(nodes) ==
  /\ tree' = nodes
  /\ class' = [w \in nodes |-> IF w \in DOMAIN class THEN class[w] ELSE NULL]

(* The nodes that are missing are made from the top down; when one cannot  *)
(* be, those made before it go.                                            *)
Undone_last(w, first, failed) == Word \ {Prefix(w, failed - 1)}
Undone(w, first, failed) == {v \in Word : ~IsPrefix(Prefix(w, first), v)}

seq_add(w) ==
  \/ Invalid(w) /\ Refused
  \/ ~Invalid(w) /\ Found(w) /\ Returns(0) /\ Unchanged
  \/ /\ ~Invalid(w)
     /\ \E first \in 1 .. Len(w) :
          /\ Prefix(w, first) \notin tree /\ Found(Prefix(w, first - 1))
          /\ \/ /\ WithNodes(tree \cup {Prefix(w, k) : k \in first .. Len(w)})
                /\ Returns(1)
             \/ \E failed \in first .. Len(w) :
                /\ WithNodes((tree \cup {Prefix(w, k) : k \in first .. failed - 1})
                             \cap Undone(w, first, failed))
                /\ Fails("ENOMEM")
          /\ UNCHANGED <<made, counter, s, strings, merged>>

(* The node is looked for from the one above it.                           *)
seq_remove(w) ==
  \/ Invalid(w) /\ Refused
  \/ ~Invalid(w) /\ ~Found(w) /\ Returns(0) /\ Unchanged
  \/ /\ ~Invalid(w) /\ Found(w)
     /\ LET h == FoldSet(LAMBDA v, g : Release(g, v), Heap, Below(w)) IN
        /\ tree' = tree \ Below(w)
        /\ Store([h EXCEPT !.class = [v \in tree' |-> @[v]]])
     /\ Returns(1)
     /\ UNCHANGED <<made, merged>>

seq_valid(w) ==
  \/ Invalid(w) /\ Refused
  \/ ~Invalid(w) /\ Returns(IF Found(w) THEN 1 ELSE 0) /\ Unchanged

(* The copy of the name is made first, and freed when it is not needed.    *)
seq_set_name(w, n) ==
  \/ (Invalid(w) \/ n = <<>>) /\ Refused
  \/ /\ ~Invalid(w) /\ n # <<>>
     /\ LET c == class[w] IN
        \/ Fails("ENOMEM") /\ Unchanged
        \/ (Found(w) => c # NULL /\ s[c] = n) /\ Returns(0) /\ Unchanged
        \/ /\ Found(w) /\ c = NULL /\ Room
           /\ LET h == ClassNew(Heap, n, 1) IN
              Store([h EXCEPT !.class[w] = Fresh(Heap), !.strings = @ + 1])
           /\ Returns(1)
           /\ UNCHANGED <<made, tree, merged>>
        \/ /\ Found(w) /\ c # NULL /\ s[c] # n
           /\ s' = [s EXCEPT ![c] = n]
           /\ Returns(1)
           /\ UNCHANGED <<made, tree, class, counter, strings, merged>>

seq_get_name(w) ==
  \/ Invalid(w) /\ Refused
  \/ /\ ~Invalid(w)
     /\ result' = Result(0, IF Found(w) /\ class[w] # NULL THEN s[class[w]] ELSE <<>>, "none")
     /\ Unchanged

(* Two nodes without a class make one without a name.                      *)
Pair(v, w) ==
  /\ class[v] = NULL /\ class[w] = NULL
  /\ \/ /\ Room
        /\ LET h == ClassNew(Heap, <<>>, 2) IN
           Store([h EXCEPT !.class[v] = Fresh(Heap), !.class[w] = Fresh(Heap), !.strings = @ + 1])
        /\ Returns(1)
        /\ UNCHANGED <<made, tree, merged>>
     \/ Fails("ENOMEM") /\ Unchanged

(* A node without a class joins the other's.                               *)
Join(v, w) ==
  /\ class[v] = NULL /\ class[w] # NULL
  /\ Store(Joins(Heap, v, class[w]))
  /\ Returns(1)
  /\ UNCHANGED <<made, tree, merged>>

Moved(text, c, d) ==
  LET h == ClassNew(Heap, text, 0) IN
  FreeClass(FreeClass(ClassChange(ClassChange(h, c, Fresh(Heap)), d, Fresh(Heap)), c), d)

(* Of two equal names the first goes to the new class.  Nobody frees the   *)
(* second.                                                                 *)
MergeEqual(c, d) ==
  /\ s[c] = s[d]
  /\ \/ /\ merged < MaxLost
        /\ Store(Moved(s[c], c, d))
        /\ merged' = merged + 1
        /\ Returns(1)
        /\ UNCHANGED <<made, tree>>
     \/ Fails("ENOMEM") /\ Unchanged

(* Two different names are put together, and both are freed.               *)
MergeOther(c, d) ==
  /\ s[c] # s[d]
  /\ \/ /\ Len(s[c]) + Len(s[d]) <= MaxName
        /\ Store([Moved(s[c] \o s[d], c, d) EXCEPT !.strings = @ - 1])
        /\ Returns(1)
        /\ UNCHANGED <<made, tree, merged>>
     \/ Fails("ENOMEM") /\ Unchanged

seq_equiv(v, w) ==
  \/ (Invalid(v) \/ Invalid(w)) /\ Refused
  \/ /\ ~Invalid(v) /\ ~Invalid(w)
     /\ v # w /\ Found(v) /\ Found(w) => class[v] = class[w] /\ class[v] # NULL
     /\ Returns(0) /\ Unchanged
  \/ /\ ~Invalid(v) /\ ~Invalid(w) /\ v # w /\ Found(v) /\ Found(w)
     /\ \/ Pair(v, w) \/ Join(v, w) \/ Join(w, v)
        \/ /\ class[v] # NULL /\ class[w] # NULL /\ class[v] # class[w]
           /\ MergeEqual(class[v], class[w]) \/ MergeOther(class[v], class[w])

seq_delete ==
  /\ made
  /\ made' = FALSE /\ tree' = {}
  /\ LET h == FoldSet(LAMBDA v, g : Release(g, v), Heap, tree) IN
     Store([h EXCEPT !.class = <<>>])
  /\ UNCHANGED <<merged, result>>

Next ==
  \/ seq_new \/ seq_delete
  \/ \E w \in Arg : seq_add(w) \/ seq_remove(w) \/ seq_valid(w) \/ seq_get_name(w)
  \/ \E w \in Arg, n \in Name : seq_set_name(w, n)
  \/ \E v, w \in Arg : seq_equiv(v, w)

Spec == Init /\ [][Next]_vars

-----------------------------------------------------------------------------
TypeOK ==
  /\ tree \subseteq Word /\ DOMAIN class = tree /\ DOMAIN s = DOMAIN counter
  /\ \A w \in tree : Len(w) > 1 => Front(w) \in tree

(* No node points to a class that was freed, and a class counts the nodes  *)
(* that point to it: seq_remove frees it with the last of them and not     *)
(* before (seq_class_remove, class_change and the counts of seq_equiv).    *)
Counted ==
  /\ \A w \in tree : class[w] # NULL => class[w] \in DOMAIN counter
  /\ \A c \in DOMAIN counter : counter[c] = Cardinality({w \in tree : class[w] = c}) /\ counter[c] > 0

(* A name belongs to a class and is freed with it or when another takes    *)
(* its place, also when a call fails half way; but each union of two       *)
(* classes with equal names leaves one of them behind.                     *)
NamesFreed == strings = Cardinality(DOMAIN counter) + merged

(* The tree is closed under prefixes, classes count their nodes and names   *)
(* are freed, after any sequence of calls.                                  *)
SeqInv == TypeOK /\ Counted /\ NamesFreed

(* The classes as the caller sees them: a node without one is alone.       *)
Peers(w) == {v \in tree : v = w \/ (class[w] # NULL /\ class[v] = class[w])}
Classes == {Peers(w) : w \in tree}
TextOf(c) == LET a == class[CHOOSE w \in c : TRUE] IN IF a = NULL THEN <<>> ELSE s[a]

Seen == INSTANCE WordClasses WITH
  Name <- Name \ {<<>>}, words <- tree, classes <- Classes,
  name <- [c \in Classes |-> TextOf(c)]

(* Every call does to the set, the classes and the names what it says, or  *)
(* fails and changes nothing that the caller can see.                      *)
Implements == Seen!Spec
=============================================================================
