----------------------------- MODULE WordClasses -----------------------------
(***************************************************************************)
(* What the calls of seq.c do for their caller, with no tree and no memory:*)
(* a set of words, closed under prefixes and divided into classes, each    *)
(* with a name that may be empty.  A call that needs memory may fail, and  *)
(* then changes nothing.                                                   *)
(***************************************************************************)
EXTENDS Integers, Sequences, FiniteSets

CONSTANTS Word, Name

VARIABLES words, classes, name, result
vars == <<words, classes, name, result>>

Nameless == <<>>
Result(value, text, error) == [value |-> value, name |-> text, error |-> error]
Returns(value) == result' = Result(value, Nameless, "none")

Prefixes(w) == {SubSeq(w, 1, k) : k \in 1 .. Len(w)}
ClassOf(w) == CHOOSE c \in classes : w \in c

Init == words = {} /\ classes = {} /\ name = <<>> /\ result = Result(0, Nameless, "none")

Nothing(value) == Returns(value) /\ UNCHANGED <<words, classes, name>>
Fails(error) == result' = Result(-1, Nameless, error) /\ UNCHANGED <<words, classes, name>>

Named(c) == IF c \in DOMAIN name THEN name[c] ELSE Nameless

Add(w) ==
  \/ w \in words /\ Nothing(0)
  \/ LET new == Prefixes(w) \ words IN
     /\ new # {}
     /\ words' = words \cup new
     /\ classes' = classes \cup {{v} : v \in new}
     /\ name' = [c \in classes' |-> Named(c)]
     /\ Returns(1)

(* What is left of the classes when the words of `gone` are removed.       *)
Remove(w) ==
  \/ w \notin words /\ Nothing(0)
  \/ LET gone == {v \in words : w \in Prefixes(v)}
         left(c) == c \ gone
     IN /\ w \in words
        /\ words' = words \ gone
        /\ classes' = {left(c) : c \in classes} \ {{}}
        /\ name' = [c \in classes' |-> name[CHOOSE d \in classes : left(d) = c]]
        /\ Returns(1)

Valid(w) == Nothing(IF w \in words THEN 1 ELSE 0)

SetName(w, n) ==
  \/ (w \in words => name[ClassOf(w)] = n) /\ Nothing(0)
  \/ /\ w \in words /\ name[ClassOf(w)] # n
     /\ name' = [name EXCEPT ![ClassOf(w)] = n]
     /\ UNCHANGED <<words, classes>>
     /\ Returns(1)

GetName(w) ==
  /\ result' = Result(0, IF w \in words THEN name[ClassOf(w)] ELSE Nameless, "none")
  /\ UNCHANGED <<words, classes, name>>

(* The name of a union is both names one after the other, or the only one. *)
Together(m, n) == IF m = n THEN m ELSE m \o n

Equiv(v, w) ==
  \/ ({v, w} \subseteq words => ClassOf(v) = ClassOf(w)) /\ Nothing(0)
  \/ LET c == ClassOf(v)
         d == ClassOf(w)
     IN /\ {v, w} \subseteq words /\ c # d
        /\ classes' = (classes \ {c, d}) \cup {c \cup d}
        /\ name' = [e \in classes' |-> IF e = c \cup d THEN Together(name[c], name[d]) ELSE name[e]]
        /\ UNCHANGED words
        /\ Returns(1)

Delete == words' = {} /\ classes' = {} /\ name' = <<>> /\ UNCHANGED result

Next ==
  \/ Fails("EINVAL") \/ Fails("ENOMEM")
  \/ \E w \in Word : Valid(w) \/ GetName(w)
  \/ \E w \in Word : Add(w) \/ Remove(w)
  \/ \E w \in Word, n \in Name : SetName(w, n)
  \/ \E v, w \in Word : Equiv(v, w)
  \/ Delete

Spec == Init /\ [][Next]_vars
=============================================================================
