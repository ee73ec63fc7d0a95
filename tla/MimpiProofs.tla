----------------------------- MODULE MimpiProofs -----------------------------
(***************************************************************************)
(* What the processes of MIMPI may rely on, whatever they call and however *)
(* many they are: no wakeup of MIMPI_Recv is lost, messages come in the    *)
(* order in which they were sent, and nobody passes a barrier that         *)
(* somebody has not come to.                                               *)
(***************************************************************************)
EXTENDS Mimpi, TLAPS, SequenceTheorems, FiniteSetTheorems, WellFoundedInduction

USE MimpiAssumption

-----------------------------------------------------------------------------
(* The tree of a group call: places are counted from its root.             *)

LEMMA Places ==
  ASSUME NEW p \in Ranks, NEW r \in Ranks
  PROVE  /\ Place(p, r) = IF p >= r THEN p - r ELSE p - r + world_size
         /\ Place(p, r) \in 0 .. world_size - 1
         /\ Place(p, r) = 0 <=> p = r
  <1>1. Place(p, r) = IF p >= r THEN p - r ELSE p - r + world_size
    BY DEF Place, Ranks
  <1> QED BY <1>1 DEF Ranks

LEMMA Ats ==
  ASSUME NEW k \in 0 .. world_size - 1, NEW r \in Ranks
  PROVE  /\ At(k, r) = IF k + r < world_size THEN k + r ELSE k + r - world_size
         /\ At(k, r) \in Ranks
         /\ Place(At(k, r), r) = k
  <1>1. At(k, r) = IF k + r < world_size THEN k + r ELSE k + r - world_size
    BY DEF At, Ranks
  <1>2. At(k, r) \in Ranks
    BY <1>1 DEF Ranks
  <1>3. Place(At(k, r), r) = IF At(k, r) >= r THEN At(k, r) - r ELSE At(k, r) - r + world_size
    BY <1>2, Places
  <1> QED BY <1>1, <1>2, <1>3 DEF Ranks

Others(p) == Ranks \ {p}

LEMMA Neighbours ==
  ASSUME NEW p \in Ranks, NEW r \in Ranks
  PROVE  /\ \A side \in 1 .. 2 : LET k == 2 * Place(p, r) + side IN
              \/ k >= world_size /\ Child(p, r, side) = <<>>
              \/ /\ k < world_size /\ Child(p, r, side) = <<At(k, r)>>
                 /\ At(k, r) \in Others(p) /\ Place(At(k, r), r) = k
         /\ Parent(p, r) = IF p = r THEN <<>> ELSE <<At((Place(p, r) - 1) \div 2, r)>>
         /\ p # r => /\ At((Place(p, r) - 1) \div 2, r) \in Others(p)
                     /\ Place(At((Place(p, r) - 1) \div 2, r), r) = (Place(p, r) - 1) \div 2
  <1>1. Place(p, r) \in 0 .. world_size - 1 /\ (Place(p, r) = 0 <=> p = r)
    BY Places
  <1>2. ASSUME NEW side \in 1 .. 2, 2 * Place(p, r) + side < world_size
        PROVE  LET k == 2 * Place(p, r) + side IN
               At(k, r) \in Others(p) /\ Place(At(k, r), r) = k
    <2> DEFINE k == 2 * Place(p, r) + side
    <2>1. k \in 0 .. world_size - 1 /\ k # Place(p, r)
      BY <1>1, <1>2
    <2>2. At(k, r) \in Ranks /\ Place(At(k, r), r) = k
      BY <2>1, Ats
    <2> QED BY <2>1, <2>2 DEF Others
  <1>3. ASSUME p # r
        PROVE  LET k == (Place(p, r) - 1) \div 2 IN
               At(k, r) \in Others(p) /\ Place(At(k, r), r) = k
    <2> DEFINE k == (Place(p, r) - 1) \div 2
    <2>1. k \in 0 .. world_size - 1 /\ k # Place(p, r)
      BY <1>1, <1>3
    <2>2. At(k, r) \in Ranks /\ Place(At(k, r), r) = k
      BY <2>1, Ats
    <2> QED BY <2>1, <2>2 DEF Others
  <1>4. \A side \in 1 .. 2 : LET k == 2 * Place(p, r) + side IN
          \/ k >= world_size /\ Child(p, r, side) = <<>>
          \/ k < world_size /\ Child(p, r, side) = <<At(k, r)>>
    BY <1>1 DEF Child
  <1> QED BY <1>1, <1>2, <1>3, <1>4 DEF Parent

LEMMA TreeSeqs ==
  ASSUME NEW p \in Ranks, NEW r \in Ranks
  PROVE  Children(p, r) \in Seq(Others(p)) /\ Parent(p, r) \in Seq(Others(p))
  <1> HIDE DEF Others
  <1>0. <<>> \in Seq(Others(p)) /\ \A x \in Others(p) : <<x>> \in Seq(Others(p))
    OBVIOUS
  <1>1. Child(p, r, 1) \in Seq(Others(p)) /\ Child(p, r, 2) \in Seq(Others(p))
    <2>1. ASSUME NEW side \in 1 .. 2 PROVE Child(p, r, side) \in Seq(Others(p))
      <3>1. Child(p, r, side) = <<>> \/ \E x \in Others(p) : Child(p, r, side) = <<x>>
        BY Neighbours
      <3> QED BY <1>0, <3>1
    <2> QED BY <2>1
  <1>2. Parent(p, r) \in Seq(Others(p))
    <2>1. Parent(p, r) = <<>> \/ \E x \in Others(p) : Parent(p, r) = <<x>>
      BY Neighbours
    <2> QED BY <1>0, <2>1
  <1> QED BY <1>1, <1>2, ConcatProperties DEF Children

-----------------------------------------------------------------------------
(* The state.                                                              *)

Phases == {"idle", "busy", "wait", "woken", "closing", "closed"}
Codes == {"SUCCESS", "REMOTE_FINISHED", "ATTEMPTED_SELF_OP", "NO_SUCH_RANK", "DEADLOCK_DETECTED"}
Results == [code : Codes, data : Int]
GroupTags == {BARRIER, BCAST, REDUCE}
StepSet == [do : {"send", "recv"}, peer : Int, tag : GroupTags \cup Nat]
Tags == {t \in Int : t >= SERVED}
Messages == [tag : Tags, data : Int]
Kept == [tag : Tags \ {FINISHED, BARRIER}, data : Int]
Entries == [buffer : Seq(Kept), finished : BOOLEAN, waiting : BOOLEAN,
            deadlock : BOOLEAN, barrier : BOOLEAN]

Typed ==
  /\ [program |-> program, detection |-> deadlock_detection] \in Setups
  /\ phase \in [Ranks -> Phases]
  /\ todo \in [Ranks -> Seq(StepSet)]
  /\ value \in [Ranks -> Int]
  /\ log \in [Ranks -> Seq(Results)]
  /\ stray \subseteq Ranks
  /\ sent \in [Ranks -> [Ranks -> Nat]] /\ taken \in [Ranks -> [Ranks -> Nat]]
  /\ pipe \in [Ranks -> [Ranks -> Seq(Messages)]]
  /\ link \in [Ranks -> [Ranks -> Entries]]

(* The steps of a group call of p under one of its tags.                   *)
GroupSteps(p, tag) == [do : {"send", "recv"}, peer : Others(p), tag : {tag}]

TagOf(c) == CASE c.call = "barrier" -> BARRIER
              [] c.call = "bcast" -> BCAST
              [] c.call = "reduce" -> REDUCE

(* What is left of p's call are steps of it.                               *)
InCall(p) == phase[p] \in {"busy", "wait", "woken"}

CallOK(p) ==
  /\ Len(log[p]) <= Len(program[p])
  /\ InCall(p) =>
       /\ Len(log[p]) < Len(program[p])
       /\ todo[p] # <<>>
       /\ IF IsGroup(Now(p)) THEN todo[p] \in Seq(GroupSteps(p, TagOf(Now(p))))
          ELSE todo[p] = <<[do |-> Now(p).call, peer |-> Now(p).peer, tag |-> Now(p).tag]>>
  /\ phase[p] \in {"wait", "woken"} => Step(p).do = "recv" /\ Source(p) \in Others(p)

Shape == Typed /\ \A p \in Ranks : CallOK(p)

LEMMA Given ==
  ASSUME Typed
  PROVE  /\ program \in [Ranks -> Seq(Calls)] /\ deadlock_detection \in BOOLEAN
         /\ \A p \in Ranks : program[p] \in Seq(Calls) /\ Len(program[p]) \in Nat
         /\ \A p \in Ranks : log[p] \in Seq(Results) /\ Len(log[p]) \in Nat
  <1>1. [program |-> program, detection |-> deadlock_detection]
          \in [program : [Ranks -> Seq(Calls)], detection : BOOLEAN]
    BY DEF Typed
  <1>2. program \in [Ranks -> Seq(Calls)] /\ deadlock_detection \in BOOLEAN
    BY <1>1
  <1> QED BY <1>2 DEF Typed

LEMMA NowCall ==
  ASSUME Typed, NEW p \in Ranks, Len(log[p]) < Len(program[p])
  PROVE  Now(p) \in Calls /\ Len(log[p]) + 1 \in DOMAIN program[p]
  <1>1. Len(log[p]) + 1 \in 1 .. Len(program[p])
    BY Given
  <1> QED BY <1>1, Given, ElementOfSeq DEF Now

(* A call of a program, by kind.                                           *)
LEMMA Kinds ==
  ASSUME NEW c \in Calls
  PROVE  /\ c.call \in {"send", "recv", "barrier", "bcast", "reduce"}
         /\ c.call \in {"send", "recv"} => c.peer \in Int /\ c.tag \in Nat /\ ~IsGroup(c)
         /\ c.call = "barrier" => IsGroup(c)
         /\ c.call = "bcast" => IsGroup(c) /\ c.root \in Ranks /\ c.data \in Byte
         /\ c.call = "reduce" => /\ IsGroup(c) /\ c.root \in Ranks /\ c.data \in [Ranks -> Byte]
                                 /\ c.op \in {"SUM", "PROD", "MAX", "MIN"}
         /\ IsGroup(c) => c.call \in {"barrier", "bcast", "reduce"} /\ TagOf(c) \in GroupTags
         /\ ~IsGroup(c) => c.call \in {"send", "recv"}
  <1>1. CASE c \in [call : {"send", "recv"}, peer : Int, tag : Nat]
    BY <1>1 DEF IsGroup
  <1>2. CASE c \in [call : {"barrier"}]
    BY <1>2 DEF IsGroup, TagOf, GroupTags
  <1>3. CASE c \in [call : {"bcast"}, root : Ranks, data : Byte]
    BY <1>3 DEF IsGroup, TagOf, GroupTags
  <1>4. CASE c \in [call : {"reduce"}, root : Ranks, op : {"SUM", "PROD", "MAX", "MIN"}, data : [Ranks -> Byte]]
    BY <1>4 DEF IsGroup, TagOf, GroupTags
  <1> QED BY <1>1, <1>2, <1>3, <1>4 DEF Calls

LEMMA SendRecv ==
  ASSUME NEW p \in Ranks, NEW qs \in Seq(Others(p)), NEW tag \in GroupTags
  PROVE  /\ Send(qs, tag) \in Seq(GroupSteps(p, tag)) /\ Len(Send(qs, tag)) = Len(qs)
         /\ Recv(qs, tag) \in Seq(GroupSteps(p, tag)) /\ Len(Recv(qs, tag)) = Len(qs)
         /\ \A k \in 1 .. Len(qs) : /\ Send(qs, tag)[k] = [do |-> "send", peer |-> qs[k], tag |-> tag]
                                    /\ Recv(qs, tag)[k] = [do |-> "recv", peer |-> qs[k], tag |-> tag]
  <1>1. DOMAIN qs = 1 .. Len(qs) /\ Len(qs) \in Nat /\ \A k \in 1 .. Len(qs) : qs[k] \in Others(p)
    OBVIOUS
  <1>2. \A k \in 1 .. Len(qs) : /\ [do |-> "send", peer |-> qs[k], tag |-> tag] \in GroupSteps(p, tag)
                                /\ [do |-> "recv", peer |-> qs[k], tag |-> tag] \in GroupSteps(p, tag)
    BY <1>1 DEF GroupSteps
  <1>3. /\ Send(qs, tag) = [k \in 1 .. Len(qs) |-> [do |-> "send", peer |-> qs[k], tag |-> tag]]
        /\ Recv(qs, tag) = [k \in 1 .. Len(qs) |-> [do |-> "recv", peer |-> qs[k], tag |-> tag]]
    BY <1>1 DEF Send, Recv
  <1> QED BY <1>1, <1>2, <1>3, IsASeq

LEMMA StepsOK ==
  ASSUME Typed, NEW p \in Ranks, Len(log[p]) < Len(program[p])
  PROVE  IF IsGroup(Now(p)) THEN Steps(p) \in Seq(GroupSteps(p, TagOf(Now(p))))
         ELSE Steps(p) = <<[do |-> Now(p).call, peer |-> Now(p).peer, tag |-> Now(p).tag]>>
  <1> DEFINE c == Now(p)
             G == GroupSteps(p, TagOf(c))
  <1>1. c \in Calls
    BY NowCall
  <1>2. CASE c.call = "send"
    <2>1. Send(<<c.peer>>, c.tag) = <<[do |-> "send", peer |-> c.peer, tag |-> c.tag]>>
      BY DEF Send
    <2> QED BY <1>1, <1>2, <2>1, Kinds DEF Steps
  <1>3. CASE c.call = "recv"
    <2>1. Recv(<<c.peer>>, c.tag) = <<[do |-> "recv", peer |-> c.peer, tag |-> c.tag]>>
      BY DEF Recv
    <2> QED BY <1>1, <1>3, <2>1, Kinds DEF Steps
  <1>4. CASE c.call = "barrier"
    <2>1. 0 \in Ranks
      BY DEF Ranks
    <2>2. TagOf(c) = BARRIER /\ IsGroup(c) /\ BARRIER \in GroupTags
      BY <1>1, <1>4, Kinds DEF TagOf, GroupTags
    <2>3. /\ Recv(Children(p, 0), BARRIER) \in Seq(G) /\ Send(Parent(p, 0), BARRIER) \in Seq(G)
          /\ Recv(Parent(p, 0), BARRIER) \in Seq(G) /\ Send(Children(p, 0), BARRIER) \in Seq(G)
      BY <2>1, <2>2, TreeSeqs, SendRecv
    <2>4. BarrierSteps(p) \in Seq(G)
      BY <2>3, ConcatProperties DEF BarrierSteps
    <2> QED BY <1>4, <2>2, <2>4 DEF Steps
  <1>5. CASE c.call = "bcast"
    <2>1. TagOf(c) = BCAST /\ IsGroup(c) /\ BCAST \in GroupTags /\ c.root \in Ranks
      BY <1>1, <1>5, Kinds DEF TagOf, GroupTags
    <2>2. Recv(Parent(p, c.root), BCAST) \in Seq(G) /\ Send(Children(p, c.root), BCAST) \in Seq(G)
      BY <2>1, TreeSeqs, SendRecv
    <2>3. BcastSteps(p, c.root) \in Seq(G)
      BY <2>2, ConcatProperties DEF BcastSteps
    <2> QED BY <1>5, <2>1, <2>3 DEF Steps
  <1>6. CASE c.call = "reduce"
    <2>1. TagOf(c) = REDUCE /\ IsGroup(c) /\ REDUCE \in GroupTags /\ c.root \in Ranks
      BY <1>1, <1>6, Kinds DEF TagOf, GroupTags
    <2>2. Recv(Children(p, c.root), REDUCE) \in Seq(G) /\ Send(Parent(p, c.root), REDUCE) \in Seq(G)
      BY <2>1, TreeSeqs, SendRecv
    <2>3. ReduceSteps(p, c.root) \in Seq(G)
      BY <2>2, ConcatProperties DEF ReduceSteps
    <2> QED BY <1>6, <2>1, <2>3 DEF Steps
  <1> QED BY <1>1, <1>2, <1>3, <1>4, <1>5, <1>6, Kinds

(* The step p is at.                                                       *)
LEMMA StepOK ==
  ASSUME Shape, NEW p \in Ranks, InCall(p)
  PROVE  /\ Now(p) \in Calls
         /\ Step(p) \in StepSet /\ todo[p] \in Seq(StepSet) /\ todo[p] # <<>>
         /\ IsGroup(Now(p)) => Step(p) \in GroupSteps(p, TagOf(Now(p)))
         /\ ~IsGroup(Now(p)) => /\ Step(p).do = Now(p).call /\ Step(p).peer = Now(p).peer
                                /\ Step(p).tag = Now(p).tag
  <1>1. CallOK(p) /\ Typed
    BY DEF Shape
  <1>2. Now(p) \in Calls /\ todo[p] \in Seq(StepSet) /\ todo[p] # <<>>
    BY <1>1, NowCall DEF CallOK, Typed
  <1>3. Step(p) \in StepSet
    BY <1>2, HeadTailProperties DEF Step
  <1>4. ASSUME IsGroup(Now(p)) PROVE Step(p) \in GroupSteps(p, TagOf(Now(p)))
    BY <1>1, <1>4, HeadTailProperties DEF CallOK, Step
  <1>5. ASSUME ~IsGroup(Now(p))
        PROVE  /\ Step(p).do = Now(p).call /\ Step(p).peer = Now(p).peer
               /\ Step(p).tag = Now(p).tag
    <2>1. todo[p] = <<[do |-> Now(p).call, peer |-> Now(p).peer, tag |-> Now(p).tag]>>
      BY <1>1, <1>5 DEF CallOK
    <2>2. Step(p) = [do |-> Now(p).call, peer |-> Now(p).peer, tag |-> Now(p).tag]
      BY <2>1 DEF Step
    <2> QED BY <2>2
  <1> QED BY <1>2, <1>3, <1>4, <1>5

-----------------------------------------------------------------------------
(* The main thread of p moves on and the others' stay where they are.      *)
Moves(p) ==
  /\ phase' \in [Ranks -> Phases] /\ todo' \in [Ranks -> Seq(StepSet)]
  /\ value' \in [Ranks -> Int] /\ log' \in [Ranks -> Seq(Results)]
  /\ \A q \in Others(p) : phase'[q] = phase[q] /\ todo'[q] = todo[q] /\ log'[q] = log[q]

(* A group call of p goes on with its next step.                           *)
GoesOn(p, v) ==
  /\ IsGroup(Now(p)) /\ Tail(todo[p]) # <<>>
  /\ phase' = [phase EXCEPT ![p] = "busy"]
  /\ todo' = [todo EXCEPT ![p] = Tail(@)]
  /\ value' = [value EXCEPT ![p] = v]
  /\ UNCHANGED log

LEMMA AdvancesHow ==
  ASSUME NEW p \in Ranks, NEW code \in Codes, NEW v \in Int, Advances(p, code, v)
  PROVE  \/ \E c \in Codes :
              /\ Returns(p, c, v) /\ c \in {code, "SUCCESS"}
              /\ ~IsGroup(Now(p)) => c = code
              /\ IsGroup(Now(p)) /\ c = "SUCCESS" =>
                   Tail(todo[p]) = <<>> /\ ~(Step(p).do = "recv" /\ code = "REMOTE_FINISHED")
         \/ GoesOn(p, v)
  <1>1. "SUCCESS" \in Codes
    BY DEF Codes
  <1>2. CASE ~IsGroup(Now(p)) /\ Returns(p, code, v)
    BY <1>2
  <1>3. CASE /\ IsGroup(Now(p)) /\ Step(p).do = "recv" /\ code = "REMOTE_FINISHED"
             /\ Returns(p, code, v)
    BY <1>3
  <1>4. CASE /\ IsGroup(Now(p)) /\ ~(Step(p).do = "recv" /\ code = "REMOTE_FINISHED")
             /\ Tail(todo[p]) = <<>> /\ Returns(p, "SUCCESS", v)
    BY <1>1, <1>4
  <1>5. CASE GoesOn(p, v)
    BY <1>5
  <1> QED BY <1>2, <1>3, <1>4, <1>5 DEF Advances, GoesOn

LEMMA ReturnsMoves ==
  ASSUME Typed, NEW p \in Ranks, NEW c \in Codes, NEW v \in Int, Returns(p, c, v)
  PROVE  /\ Moves(p) /\ phase'[p] = "idle" /\ todo'[p] = <<>>
         /\ log'[p] = Append(log[p], [code |-> c, data |-> v])
         /\ Len(log'[p]) = Len(log[p]) + 1
         /\ log'[p][Len(log[p]) + 1] = [code |-> c, data |-> v]
         /\ \A k \in 1 .. Len(log[p]) : log'[p][k] = log[p][k]
  <1>1. [code |-> c, data |-> v] \in Results /\ log[p] \in Seq(Results)
    BY DEF Results, Typed
  <1>2. Append(log[p], [code |-> c, data |-> v]) \in Seq(Results)
    BY <1>1, AppendProperties
  <1>3. <<>> \in Seq(StepSet) /\ Nothing \in Int
    BY DEF Nothing
  <1>4. /\ phase' \in [Ranks -> Phases] /\ todo' \in [Ranks -> Seq(StepSet)]
        /\ value' \in [Ranks -> Int] /\ log' \in [Ranks -> Seq(Results)]
    BY <1>2, <1>3 DEF Returns, Typed, Phases
  <1>5. /\ phase'[p] = "idle" /\ todo'[p] = <<>>
        /\ log'[p] = Append(log[p], [code |-> c, data |-> v])
        /\ \A q \in Others(p) : phase'[q] = phase[q] /\ todo'[q] = todo[q] /\ log'[q] = log[q]
    BY DEF Returns, Typed, Others
  <1> QED BY <1>1, <1>4, <1>5, AppendProperties DEF Moves

LEMMA GoesOnMoves ==
  ASSUME Shape, NEW p \in Ranks, InCall(p), NEW v \in Int, GoesOn(p, v)
  PROVE  /\ Moves(p) /\ phase'[p] = "busy" /\ todo'[p] = Tail(todo[p]) /\ log' = log
         /\ todo'[p] \in Seq(GroupSteps(p, TagOf(Now(p)))) /\ todo'[p] # <<>>
  <1>1. Typed /\ CallOK(p)
    BY DEF Shape
  <1>2. todo[p] \in Seq(StepSet) /\ todo[p] \in Seq(GroupSteps(p, TagOf(Now(p)))) /\ todo[p] # <<>>
    BY <1>1 DEF Typed, CallOK, GoesOn
  <1>3. Tail(todo[p]) \in Seq(StepSet) /\ Tail(todo[p]) \in Seq(GroupSteps(p, TagOf(Now(p))))
    BY <1>2, HeadTailProperties
  <1>4. /\ phase' \in [Ranks -> Phases] /\ todo' \in [Ranks -> Seq(StepSet)]
        /\ value' \in [Ranks -> Int] /\ log' \in [Ranks -> Seq(Results)]
    BY <1>1, <1>3 DEF GoesOn, Typed, Phases
  <1>5. /\ phase'[p] = "busy" /\ todo'[p] = Tail(todo[p])
        /\ \A q \in Others(p) : phase'[q] = phase[q] /\ todo'[q] = todo[q] /\ log'[q] = log[q]
    BY <1>1 DEF GoesOn, Typed, Others
  <1> QED BY <1>3, <1>4, <1>5 DEF Moves, GoesOn

LEMMA SameCallOK ==
  ASSUME NEW q, CallOK(q), program' = program,
         phase'[q] = phase[q], todo'[q] = todo[q], log'[q] = log[q]
  PROVE  CallOK(q)'
  BY DEF CallOK, InCall, Now, Step, Source

LEMMA ShapeKept ==
  ASSUME Shape, NEW p \in Ranks, UNCHANGED given, Moves(p), CallOK(p)',
         stray' \subseteq Ranks, sent' \in [Ranks -> [Ranks -> Nat]], taken' \in [Ranks -> [Ranks -> Nat]],
         pipe' \in [Ranks -> [Ranks -> Seq(Messages)]], link' \in [Ranks -> [Ranks -> Entries]]
  PROVE  Shape'
  <1>1. Typed'
    BY DEF Shape, Typed, given, Moves
  <1>2. \A q \in Others(p) : CallOK(q)'
    BY SameCallOK DEF Shape, Moves, given, Others
  <1> QED BY <1>1, <1>2 DEF Shape, Others

(* Whatever a step of a call does, what is left of the call is steps of it. *)
LEMMA AdvancesShape ==
  ASSUME Shape, NEW p \in Ranks, InCall(p), UNCHANGED given,
         NEW code \in Codes, NEW v \in Int, Advances(p, code, v)
  PROVE  Moves(p) /\ CallOK(p)'
  <1>1. Typed /\ CallOK(p) /\ program' = program
    BY DEF Shape, given
  <1>2. Len(log[p]) \in Nat /\ Len(program[p]) \in Nat /\ Len(log[p]) < Len(program[p])
    BY <1>1, Given DEF CallOK
  <1>3. CASE \E c \in Codes : Returns(p, c, v)
    <2>1. /\ Moves(p) /\ phase'[p] = "idle" /\ Len(log'[p]) = Len(log[p]) + 1
      BY <1>1, <1>3, ReturnsMoves
    <2> QED BY <1>1, <1>2, <2>1 DEF CallOK, InCall
  <1>4. CASE GoesOn(p, v)
    <2>1. /\ Moves(p) /\ phase'[p] = "busy" /\ todo'[p] = Tail(todo[p]) /\ log' = log
          /\ todo'[p] \in Seq(GroupSteps(p, TagOf(Now(p)))) /\ todo'[p] # <<>>
      BY <1>4, GoesOnMoves
    <2>2. Now(p)' = Now(p) /\ IsGroup(Now(p))
      BY <1>1, <1>4, <2>1 DEF Now, GoesOn
    <2> QED BY <1>1, <1>2, <2>1, <2>2 DEF CallOK
  <1> QED BY <1>3, <1>4, AdvancesHow

-----------------------------------------------------------------------------
(* The pipes and the links.                                                *)

LEMMA Transmits ==
  ASSUME Typed, NEW p \in Ranks, NEW q \in Ranks, NEW ms \in Seq(Messages), Transmit(p, q, ms)
  PROVE  /\ pipe' \in [Ranks -> [Ranks -> Seq(Messages)]]
         /\ \A a, b \in Ranks : pipe'[a][b] = IF a = p /\ b = q /\ ~Gone(p, q) THEN pipe[p][q] \o ms
                                              ELSE pipe[a][b]
  <1>1. pipe[p][q] \o ms \in Seq(Messages)
    BY ConcatProperties DEF Typed
  <1>2. CASE Gone(p, q)
    BY <1>2 DEF Transmit, Typed
  <1>3. CASE ~Gone(p, q)
    <2>1. pipe' = [pipe EXCEPT ![p][q] = pipe[p][q] \o ms]
      BY <1>3 DEF Transmit
    <2>2. pipe' \in [Ranks -> [Ranks -> Seq(Messages)]]
      BY <1>1, <2>1 DEF Typed
    <2>3. \A a, b \in Ranks : pipe'[a][b] = IF a = p /\ b = q THEN pipe[p][q] \o ms ELSE pipe[a][b]
      BY <2>1 DEF Typed
    <2> QED BY <1>3, <2>2, <2>3
  <1> QED BY <1>2, <1>3

LEMMA PutAt ==
  ASSUME NEW f, NEW S, DOMAIN f = S, \A a \in S : DOMAIN f[a] = S, NEW p \in S, NEW i \in S,
         NEW x, NEW g, g = [f EXCEPT ![p][i] = x]
  PROVE  \A a, b \in S : g[a][b] = IF a = p /\ b = i THEN x ELSE f[a][b]
  OBVIOUS

LEMMA Puts ==
  ASSUME Typed, NEW p \in Ranks, NEW i \in Ranks, NEW from \in Entries,
         link' = [link EXCEPT ![p][i] = from]
  PROVE  /\ link' \in [Ranks -> [Ranks -> Entries]]
         /\ \A a, b \in Ranks : link'[a][b] = IF a = p /\ b = i THEN from ELSE link[a][b]
  BY DEF Typed

(* An entry of p for the process it receives from is replaced.             *)
LEMMA SetsAt ==
  ASSUME Typed, NEW p \in Ranks, Source(p) \in Ranks, NEW from \in Entries, SetLink(p, from)
  PROVE  \A a, b \in Ranks : link'[a][b] = IF a = p /\ b = Source(p) THEN from ELSE link[a][b]
  <1>1. DOMAIN link = Ranks /\ \A a \in Ranks : DOMAIN link[a] = Ranks
    BY DEF Typed
  <1>2. link' = [link EXCEPT ![p][Source(p)] = from]
    BY DEF SetLink
  <1> QED BY ONLY <1>1, <1>2, Source(p) \in Ranks, PutAt

LEMMA EntryWith ==
  ASSUME NEW from \in Entries, NEW x \in BOOLEAN, NEW b \in Seq(Kept)
  PROVE  /\ [from EXCEPT !.buffer = b] \in Entries
         /\ [from EXCEPT !.finished = x] \in Entries
         /\ [from EXCEPT !.waiting = x] \in Entries
         /\ [from EXCEPT !.deadlock = x] \in Entries
         /\ [from EXCEPT !.barrier = x] \in Entries
  BY DEF Entries

LEMMA Signs ==
  ASSUME NEW tag \in Tags, NEW data \in Int
  PROVE  Message(tag, data) \in Messages /\ <<Message(tag, data)>> \in Seq(Messages)
  BY DEF Message, Messages

LEMMA OwnTags ==
  /\ {FINISHED, BARRIER, BCAST, REDUCE, DEADLOCK, WAITING, SERVED} \subseteq Tags
  /\ GroupTags \cup Nat \subseteq Tags /\ Nothing \in Int
  BY DEF FINISHED, BARRIER, BCAST, REDUCE, DEADLOCK, WAITING, SERVED, Tags, GroupTags, Nothing

LEMMA Asks ==
  ASSUME NEW p
  PROVE  /\ Asking(p) \in Seq(Messages)
         /\ Asking(p) = <<>> \/ (deadlock_detection /\ Asking(p) = <<Message(WAITING, Nothing)>>)
  <1>1. <<>> \in Seq(Messages) /\ <<Message(WAITING, Nothing)>> \in Seq(Messages)
    BY Signs, OwnTags
  <1>2. CASE phase[p] = "busy" /\ Tells(p)
    BY <1>1, <1>2 DEF Asking, Tells
  <1>3. CASE ~(phase[p] = "busy" /\ Tells(p))
    <2>1. Asking(p) = <<>>
      BY <1>3 DEF Asking
    <2> QED BY <1>1, <2>1
  <1> QED BY <1>2, <1>3

LEMMA Tallies ==
  ASSUME NEW f \in [Ranks -> [Ranks -> Nat]], NEW p \in Ranks, NEW q \in Ranks
  PROVE  /\ [f EXCEPT ![p][q] = @ + 1] \in [Ranks -> [Ranks -> Nat]]
         /\ \A a, b \in Ranks : [f EXCEPT ![p][q] = @ + 1][a][b]
                                  = IF a = p /\ b = q THEN f[p][q] + 1 ELSE f[a][b]
  <1>1. f[p] \in [Ranks -> Nat] /\ f[p][q] + 1 \in Nat
    OBVIOUS
  <1>2. [f EXCEPT ![p][q] = @ + 1] \in [Ranks -> [Ranks -> Nat]]
    BY <1>1
  <1>3. DOMAIN f = Ranks /\ \A a \in Ranks : DOMAIN f[a] = Ranks
    OBVIOUS
  <1>4. \A a, b \in Ranks : [f EXCEPT ![p][q] = @ + 1][a][b] = IF a = p /\ b = q THEN f[p][q] + 1 ELSE f[a][b]
    BY <1>3
  <1> QED BY <1>2, <1>4

(* RemoveAt.                                                               *)
LEMMA Removes ==
  ASSUME NEW S, NEW s \in Seq(S), NEW k \in 1 .. Len(s)
  PROVE  /\ RemoveAt(s, k) \in Seq(S) /\ Len(RemoveAt(s, k)) = Len(s) - 1
         /\ \A j \in 1 .. Len(s) - 1 : RemoveAt(s, k)[j] = IF j < k THEN s[j] ELSE s[j + 1]
  <1> DEFINE a == SubSeq(s, 1, k - 1)
             b == SubSeq(s, k + 1, Len(s))
  <1>0. Len(s) \in Nat /\ k \in Nat /\ k >= 1 /\ k <= Len(s)
    OBVIOUS
  <1>1. a \in Seq(S) /\ Len(a) = k - 1 /\ \A j \in 1 .. k - 1 : a[j] = s[j]
    <2>1. \A j \in 1 .. k - 1 : s[1 + j - 1] \in S
      BY <1>0
    <2>2. a = [j \in 1 .. k - 1 |-> s[1 + j - 1]]
      BY <1>0
    <2> QED BY <1>0, <2>1, <2>2, IsASeq
  <1>2. b \in Seq(S) /\ Len(b) = Len(s) - k /\ \A j \in 1 .. Len(s) - k : b[j] = s[k + j]
    <2>1. \A j \in 1 .. Len(s) - k : s[k + 1 + j - 1] \in S
      BY <1>0
    <2>2. b = [j \in 1 .. Len(s) - k |-> s[k + 1 + j - 1]]
      BY <1>0
    <2> QED BY <1>0, <2>1, <2>2, IsASeq
  <1>3. RemoveAt(s, k) = a \o b
    BY DEF RemoveAt
  <1> HIDE DEF a, b
  <1>4. /\ a \o b \in Seq(S) /\ Len(a \o b) = Len(s) - 1
        /\ \A j \in 1 .. Len(s) - 1 : (a \o b)[j] = IF j <= k - 1 THEN a[j] ELSE b[j - (k - 1)]
    <2>1. a \o b \in Seq(S) /\ Len(a \o b) = Len(a) + Len(b)
      BY <1>1, <1>2, ConcatProperties
    <2>2. \A j \in 1 .. Len(a) + Len(b) : (a \o b)[j] = IF j <= Len(a) THEN a[j] ELSE b[j - Len(a)]
      BY <1>1, <1>2, ConcatProperties
    <2> QED BY <1>0, <1>1, <1>2, <2>1, <2>2
  <1>5. ASSUME NEW j \in 1 .. Len(s) - 1
        PROVE  (a \o b)[j] = IF j < k THEN s[j] ELSE s[j + 1]
    <2>1. CASE j < k
      BY <1>0, <1>1, <1>4, <2>1
    <2>2. CASE j >= k
      <3>1. j - (k - 1) \in 1 .. Len(s) - k /\ k + (j - (k - 1)) = j + 1
        BY <1>0, <2>2
      <3>2. b[j - (k - 1)] = s[j + 1]
        BY <1>2, <3>1
      <3>3. (a \o b)[j] = b[j - (k - 1)]
        BY <1>0, <1>4, <2>2
      <3> QED BY <1>0, <2>2, <3>2, <3>3
    <2>3. j < k \/ j >= k
      BY <1>0
    <2> QED BY <2>1, <2>2, <2>3
  <1> QED BY <1>3, <1>4, <1>5

-----------------------------------------------------------------------------
(* Every step keeps the shape of the state.                                *)

LEMMA InitShape == Init => Shape
  <1> SUFFICES ASSUME Init PROVE Shape
    OBVIOUS
  <1>1. PICK s \in Setups : program = s.program /\ deadlock_detection = s.detection
    BY DEF Init
  <1>2. s \in [program : [Ranks -> Seq(Calls)], detection : BOOLEAN]
    BY <1>1
  <1>3. s = [program |-> program, detection |-> deadlock_detection]
    BY <1>1, <1>2
  <1>4. /\ phase = [p \in Ranks |-> "idle"] /\ todo = [p \in Ranks |-> <<>>]
        /\ value = [p \in Ranks |-> Nothing] /\ log = [p \in Ranks |-> <<>>] /\ stray = {}
        /\ sent = [p \in Ranks |-> [q \in Ranks |-> 0]] /\ taken = [p \in Ranks |-> [q \in Ranks |-> 0]]
        /\ pipe = [p \in Ranks |-> [q \in Ranks |-> <<>>]]
        /\ link = [p \in Ranks |-> [i \in Ranks |->
                     [buffer |-> <<>>, finished |-> FALSE, waiting |-> FALSE, deadlock |-> FALSE, barrier |-> FALSE]]]
    BY DEF Init
  <1>5. \A S : <<>> \in Seq(S) /\ Len(<<>>) = 0
    OBVIOUS
  <1>6. [buffer |-> <<>>, finished |-> FALSE, waiting |-> FALSE, deadlock |-> FALSE, barrier |-> FALSE] \in Entries
    BY <1>5 DEF Entries
  <1>7. link \in [Ranks -> [Ranks -> Entries]] /\ pipe \in [Ranks -> [Ranks -> Seq(Messages)]]
    BY <1>4, <1>5, <1>6
  <1>8. todo \in [Ranks -> Seq(StepSet)] /\ log \in [Ranks -> Seq(Results)]
    BY <1>4, <1>5
  <1>9. Typed
    BY <1>1, <1>3, <1>4, <1>7, <1>8 DEF Typed, Phases, Nothing
  <1>10. ASSUME NEW p \in Ranks PROVE CallOK(p)
    <2>1. Len(log[p]) = 0 /\ Len(program[p]) \in Nat
      BY <1>4, <1>5, <1>9, Given
    <2> QED BY <1>4, <2>1 DEF CallOK, InCall
  <1> QED BY <1>9, <1>10 DEF Shape

LEMMA OwnValue ==
  ASSUME NEW p \in Ranks, NEW c \in Calls
  PROVE  Own(p, c) \in Int
  <1>0. \A b \in Byte : b \in Int
    BY DEF Byte
  <1>1. CASE c.call = "reduce"
    <2>1. c.data \in [Ranks -> Byte]
      BY <1>1, Kinds
    <2>2. Own(p, c) = c.data[p]
      BY <1>1 DEF Own
    <2>3. c.data[p] \in Byte
      BY <2>1
    <2> QED BY <1>0, <2>2, <2>3
  <1>2. CASE c.call = "bcast"
    <2>1. c.data \in Byte
      BY <1>2, Kinds
    <2>2. Own(p, c) = IF p = c.root THEN c.data ELSE Nothing
      BY <1>2 DEF Own
    <2> QED BY <1>0, <2>1, <2>2, OwnTags
  <1>3. CASE c.call \notin {"reduce", "bcast"}
    BY <1>3 DEF Own, Nothing
  <1> QED BY <1>1, <1>2, <1>3

LEMMA Combines ==
  ASSUME NEW op \in {"SUM", "PROD", "MAX", "MIN"}, NEW a \in Int, NEW b \in Int
  PROVE  Combine(op, a, b) \in Int
  <1>1. CASE a = Nothing \/ b = Nothing
    BY <1>1 DEF Combine, Nothing
  <1>2. CASE ~(a = Nothing \/ b = Nothing)
    <2>1. (a + b) % 256 \in Int
      OBVIOUS
    <2>2. a * b \in Int
      OBVIOUS
    <2>3. (a * b) % 256 \in Int
      BY <2>2
    <2> QED BY <1>2, <2>1, <2>3 DEF Combine
  <1> QED BY <1>1, <1>2

LEMMA ReceivedValue ==
  ASSUME Shape, NEW p \in Ranks, InCall(p), NEW data \in Int
  PROVE  Received(p, data) \in Int
  <1>1. Now(p) \in Calls /\ value[p] \in Int
    BY StepOK DEF Shape, Typed
  <1>2. CASE Now(p).call = "reduce"
    BY <1>1, <1>2, Kinds, Combines DEF Received
  <1>3. CASE Now(p).call # "reduce"
    BY <1>1, <1>3 DEF Received
  <1> QED BY <1>2, <1>3

LEMMA LocalShape ==
  ASSUME Shape, NEW p \in Ranks, Call(p)
  PROVE  Shape' /\ Moves(p)
  <1>1. Typed /\ CallOK(p) /\ UNCHANGED <<given, stray, sent, taken, pipe, link>>
    BY DEF Shape, Call, tally
  <1>2. Len(log[p]) < Len(program[p])
    BY <1>1, Given DEF Call, Finished, CallOK
  <1>3. Now(p) \in Calls /\ Own(p, Now(p)) \in Int
    BY <1>1, <1>2, NowCall, OwnValue
  <1>4. CASE Steps(p) = <<>>
    <2>1. Returns(p, "SUCCESS", Own(p, Now(p))) /\ "SUCCESS" \in Codes
      BY <1>4 DEF Call, Codes
    <2>2. Moves(p) /\ phase'[p] = "idle" /\ Len(log'[p]) = Len(log[p]) + 1
      BY <1>1, <1>3, <2>1, ReturnsMoves
    <2>3. CallOK(p)'
      <3>1. program' = program /\ Len(log[p]) \in Nat /\ Len(program[p]) \in Nat
        BY <1>1, Given DEF given
      <3> QED BY <1>2, <2>2, <3>1 DEF CallOK, InCall
    <2> QED BY <1>1, <2>2, <2>3, ShapeKept DEF Typed
  <1>5. CASE Steps(p) # <<>>
    <2>1. /\ phase' = [phase EXCEPT ![p] = "busy"] /\ todo' = [todo EXCEPT ![p] = Steps(p)]
          /\ value' = [value EXCEPT ![p] = Own(p, Now(p))] /\ log' = log
      BY <1>5 DEF Call
    <2>2. IF IsGroup(Now(p)) THEN Steps(p) \in Seq(GroupSteps(p, TagOf(Now(p))))
          ELSE Steps(p) = <<[do |-> Now(p).call, peer |-> Now(p).peer, tag |-> Now(p).tag]>>
      BY <1>1, <1>2, StepsOK
    <2>3. Steps(p) \in Seq(StepSet)
      <3>1. CASE IsGroup(Now(p))
        <4>1. GroupSteps(p, TagOf(Now(p))) \subseteq StepSet
          BY <1>3, <3>1, Kinds DEF GroupSteps, StepSet, Others, Ranks
        <4> QED BY <2>2, <3>1, <4>1
      <3>2. CASE ~IsGroup(Now(p))
        <4>1. [do |-> Now(p).call, peer |-> Now(p).peer, tag |-> Now(p).tag] \in StepSet
          BY <1>3, <3>2, Kinds DEF StepSet
        <4>2. \A x \in StepSet : <<x>> \in Seq(StepSet)
          OBVIOUS
        <4> QED BY <2>2, <3>2, <4>1, <4>2
      <3> QED BY <3>1, <3>2
    <2>4. Moves(p) /\ phase'[p] = "busy" /\ todo'[p] = Steps(p)
      BY <1>1, <1>3, <2>1, <2>3 DEF Moves, Typed, Phases, Others
    <2>5. Now(p)' = Now(p) /\ log'[p] = log[p] /\ program' = program
      BY <1>1, <2>1 DEF Now, given
    <2>6. CallOK(p)'
      BY <1>1, <1>2, <1>5, <2>2, <2>4, <2>5 DEF CallOK
    <2> QED BY <1>1, <2>4, <2>6, ShapeKept DEF Typed
  <1> QED BY <1>4, <1>5

LEMMA EndShape ==
  ASSUME Shape, NEW p \in Ranks, Finalize(p) \/ Close(p)
  PROVE  Shape' /\ Moves(p)
  <1>1. /\ Typed /\ CallOK(p) /\ UNCHANGED <<given, stray, sent, taken, link, log, todo, value>>
    BY DEF Shape, Finalize, Close, history, tally
  <1>2. \E x \in {"closing", "closed"} : phase' = [phase EXCEPT ![p] = x]
    BY DEF Finalize, Close
  <1>3. Moves(p) /\ phase'[p] \in {"closing", "closed"}
    BY <1>1, <1>2 DEF Moves, Typed, Phases, Others
  <1>4. CallOK(p)'
    BY <1>1, <1>3 DEF CallOK, InCall, given
  <1>5. pipe' \in [Ranks -> [Ranks -> Seq(Messages)]]
    <2>1. CASE Finalize(p)
      <3>1. Message(FINISHED, Nothing) \in Messages
        BY Signs, OwnTags
      <3>2. \A q \in Ranks : Append(pipe[p][q], Message(FINISHED, Nothing)) \in Seq(Messages)
        BY <1>1, <3>1, AppendProperties DEF Typed
      <3>3. pipe' = [pipe EXCEPT ![p] = [q \in Ranks |->
                       IF q = p \/ Gone(p, q) THEN pipe[p][q] ELSE Append(pipe[p][q], Message(FINISHED, Nothing))]]
        BY <2>1 DEF Finalize
      <3> QED BY <1>1, <3>2, <3>3 DEF Typed
    <2>2. CASE Close(p)
      <3>1. pipe' = [q \in Ranks |-> [pipe[q] EXCEPT ![p] = <<>>]]
        BY <2>2 DEF Close
      <3>2. <<>> \in Seq(Messages)
        OBVIOUS
      <3> QED BY <1>1, <3>1, <3>2 DEF Typed
    <2> QED BY <2>1, <2>2
  <1> QED BY <1>1, <1>3, <1>4, <1>5, ShapeKept DEF Typed

LEMMA LookingIn ==
  ASSUME Shape, NEW p \in Ranks, Looking(p)
  PROVE  /\ InCall(p) /\ Source(p) \in Others(p) /\ Source(p) \in Ranks /\ Step(p).do = "recv"
         /\ From(p) \in Entries /\ value[p] \in Int
  <1>1. CallOK(p) /\ Typed
    BY DEF Shape
  <1>2. InCall(p) /\ Step(p).do = "recv" /\ Source(p) \in Others(p)
    BY <1>1 DEF Looking, Doing, InCall, CallOK, Refused, Source, Others
  <1> QED BY <1>1, <1>2 DEF Others, Typed, From

LEMMA SendShape ==
  ASSUME Shape, NEW p \in Ranks, Refuse(p) \/ SendStep(p)
  PROVE  Shape' /\ Moves(p)
  <1>1. Typed /\ InCall(p) /\ UNCHANGED given /\ stray' = stray /\ taken' = taken /\ link' = link
    BY DEF Shape, Refuse, SendStep, Doing, InCall, tally
  <1>2. value[p] \in Int /\ Step(p) \in StepSet
    BY <1>1, StepOK DEF Typed
  <1>3. {"REMOTE_FINISHED", "SUCCESS", "ATTEMPTED_SELF_OP", "NO_SUCH_RANK"} \subseteq Codes
    BY DEF Codes
  <1>4. CASE Refuse(p)
    <2>1. \E code \in Codes : Advances(p, code, value[p])
      BY <1>3, <1>4 DEF Refuse
    <2>2. Moves(p) /\ CallOK(p)'
      BY <1>1, <1>2, <2>1, AdvancesShape
    <2>3. sent' = sent /\ pipe' = pipe
      BY <1>4 DEF Refuse, tally
    <2> QED BY <1>1, <2>2, <2>3, ShapeKept DEF Typed
  <1>5. CASE SendStep(p)
    <2> DEFINE q == Step(p).peer
               tag == Step(p).tag
    <2>1. /\ q \in Ranks /\ Transmit(p, q, <<Message(tag, Payload(p, tag))>>)
          /\ \E code \in Codes : Advances(p, code, value[p])
          /\ sent' = sent \/ sent' = [sent EXCEPT ![p][q] = @ + 1]
      BY <1>3, <1>5 DEF SendStep, Refused
    <2>2. tag \in Tags /\ Payload(p, tag) \in Int
      BY <1>1, <1>2, OwnTags, Given DEF StepSet, Payload
    <2>3. pipe' \in [Ranks -> [Ranks -> Seq(Messages)]]
      BY <1>1, <2>1, <2>2, Signs, Transmits
    <2>4. Moves(p) /\ CallOK(p)'
      BY <1>1, <1>2, <2>1, AdvancesShape
    <2>5. sent' \in [Ranks -> [Ranks -> Nat]]
      <3>1. sent \in [Ranks -> [Ranks -> Nat]]
        BY <1>1 DEF Typed
      <3> HIDE DEF q
      <3>2. [sent EXCEPT ![p][q] = @ + 1] \in [Ranks -> [Ranks -> Nat]]
        BY <2>1, <3>1, Tallies
      <3> QED BY <2>1, <3>1, <3>2
    <2> QED BY <1>1, <2>3, <2>4, <2>5, ShapeKept DEF Typed
  <1> QED BY <1>4, <1>5

LEMMA RecvShape ==
  ASSUME Shape, NEW p \in Ranks, Looking(p), UNCHANGED given, sent' = sent,
         NEW code \in Codes, NEW v \in Int, Advances(p, code, v),
         stray' = stray \/ stray' = stray \cup {p},
         taken' = taken \/ taken' = [taken EXCEPT ![p][Source(p)] = @ + 1],
         NEW ms \in Seq(Messages), Transmit(p, Source(p), ms),
         link' = link \/ \E from \in Entries : SetLink(p, from)
  PROVE  Shape' /\ Moves(p)
  <1>1. Typed /\ InCall(p) /\ Source(p) \in Ranks
    BY LookingIn DEF Shape
  <1>2. Moves(p) /\ CallOK(p)'
    BY <1>1, AdvancesShape
  <1>3. pipe' \in [Ranks -> [Ranks -> Seq(Messages)]]
    BY <1>1, Transmits
  <1>4. link' \in [Ranks -> [Ranks -> Entries]]
    BY <1>1, Puts DEF SetLink, Typed
  <1>5. taken' \in [Ranks -> [Ranks -> Nat]]
    <2>1. taken \in [Ranks -> [Ranks -> Nat]]
      BY <1>1 DEF Typed
    <2>2. [taken EXCEPT ![p][Source(p)] = @ + 1] \in [Ranks -> [Ranks -> Nat]]
      BY <1>1, <2>1, Tallies
    <2> QED BY <2>1, <2>2
  <1>6. stray' \subseteq Ranks /\ sent' \in [Ranks -> [Ranks -> Nat]]
    BY <1>1 DEF Typed
  <1> QED BY <1>2, <1>3, <1>4, <1>5, <1>6, ShapeKept

(* The message a receive takes, and what the buffer is without it.         *)
LEMMA Matched ==
  ASSUME Shape, NEW p \in Ranks, Looking(p), NEW k \in Match(p)
  PROVE  LET b == From(p).buffer IN
         /\ b \in Seq(Kept) /\ k \in 1 .. Len(b) /\ b[k] \in Kept /\ b[k].data \in Int
         /\ RemoveAt(b, k) \in Seq(Kept)
         /\ b[k].tag = Step(p).tag \/ (Step(p).tag = ANY /\ b[k].tag >= 0)
         /\ \A l \in 1 .. Len(b) :
              b[l].tag = Step(p).tag \/ (Step(p).tag = ANY /\ b[l].tag >= 0) => k <= l
  <1> DEFINE b == From(p).buffer
  <1>1. b \in Seq(Kept)
    BY LookingIn DEF Entries
  <1>2. DOMAIN b = 1 .. Len(b)
    BY <1>1, LenProperties
  <1>3. /\ k \in DOMAIN b
        /\ b[k].tag = Step(p).tag \/ (Step(p).tag = ANY /\ b[k].tag >= 0)
        /\ \A l \in DOMAIN b :
             b[l].tag = Step(p).tag \/ (Step(p).tag = ANY /\ b[l].tag >= 0) => k <= l
    BY DEF Match
  <1> HIDE DEF b
  <1>4. b[k] \in Kept /\ b[k].data \in Int
    <2>1. b[k] \in Kept
      BY <1>1, <1>2, <1>3, ElementOfSeq
    <2> QED BY <2>1 DEF Kept
  <1>5. RemoveAt(b, k) \in Seq(Kept)
    BY <1>1, <1>2, <1>3, Removes
  <1> QED BY <1>1, <1>2, <1>3, <1>4, <1>5 DEF b

LEMMA ReceivesShape ==
  ASSUME Shape, NEW p \in Ranks,
         RecvBarrier(p) \/ RecvMessage(p) \/ RecvDeadlock(p) \/ RecvToldDeadlock(p) \/ RecvFinished(p)
  PROVE  Shape' /\ Moves(p)
  <1>1. Looking(p) /\ UNCHANGED given /\ sent' = sent
    BY DEF RecvBarrier, RecvMessage, RecvDeadlock, RecvToldDeadlock, RecvFinished, tally
  <1>2. /\ InCall(p) /\ From(p) \in Entries /\ value[p] \in Int
    BY <1>1, LookingIn
  <1>3. {"REMOTE_FINISHED", "SUCCESS", "DEADLOCK_DETECTED"} \subseteq Codes
    BY DEF Codes
  <1>4. Received(p, Nothing) \in Int
    BY <1>2, OwnTags, ReceivedValue
  <1>5. Asking(p) \in Seq(Messages)
    BY Asks
  <1>6. CASE RecvBarrier(p)
    <2>1. /\ \E from \in Entries : SetLink(p, from)
          /\ Transmit(p, Source(p), Asking(p)) /\ Advances(p, "SUCCESS", Received(p, Nothing))
          /\ stray' = stray \/ stray' = stray \cup {p}
          /\ taken' = taken \/ taken' = [taken EXCEPT ![p][Source(p)] = @ + 1]
      BY <1>2, <1>6, EntryWith, EmptySeq DEF RecvBarrier
    <2> QED BY <1>1, <1>3, <1>4, <1>5, <2>1, RecvShape
  <1>7. CASE RecvMessage(p)
    <2> DEFINE ms == Asking(p) \o IF Tells(p) THEN <<Message(SERVED, Nothing)>> ELSE <<>>
    <2>1. PICK k \in Match(p) :
            /\ SetLink(p, [From(p) EXCEPT !.buffer = RemoveAt(@, k)])
            /\ Advances(p, "SUCCESS", Received(p, From(p).buffer[k].data))
      BY <1>7 DEF RecvMessage
    <2>2. RemoveAt(From(p).buffer, k) \in Seq(Kept) /\ From(p).buffer[k].data \in Int
      BY <1>1, Matched
    <2>3. Received(p, From(p).buffer[k].data) \in Int
      BY <1>2, <2>2, ReceivedValue
    <2>4. ms \in Seq(Messages)
      <3>1. <<Message(SERVED, Nothing)>> \in Seq(Messages) /\ <<>> \in Seq(Messages)
        BY Signs, OwnTags
      <3>2. (IF Tells(p) THEN <<Message(SERVED, Nothing)>> ELSE <<>>) \in Seq(Messages)
        BY <3>1
      <3> QED BY <1>5, <3>2, ConcatProperties
    <2>5. stray' = stray /\ taken' = taken /\ Transmit(p, Source(p), ms)
      BY <1>7 DEF RecvMessage, tally
    <2>6. [From(p) EXCEPT !.buffer = RemoveAt(@, k)] \in Entries
      <3>1. \A b \in Seq(Kept) : [From(p) EXCEPT !.buffer = b] \in Entries
        BY <1>2, EntryWith
      <3> QED BY <2>2, <3>1
    <2> HIDE DEF ms
    <2> QED BY <1>1, <1>3, <2>1, <2>3, <2>4, <2>5, <2>6, RecvShape
  <1>8. CASE RecvDeadlock(p) \/ RecvToldDeadlock(p)
    <2>1. /\ \E from \in Entries : SetLink(p, from)
          /\ \E ms \in Seq(Messages) : Transmit(p, Source(p), ms)
          /\ Advances(p, "DEADLOCK_DETECTED", Received(p, Nothing))
          /\ stray' = stray /\ taken' = taken
      <3>1. <<Message(DEADLOCK, Nothing)>> \in Seq(Messages)
        BY Signs, OwnTags
      <3>2. [From(p) EXCEPT !.waiting = FALSE] \in Entries /\ [From(p) EXCEPT !.deadlock = FALSE] \in Entries
        BY <1>2, EntryWith, EmptySeq
      <3> QED BY <1>5, <1>8, <3>1, <3>2 DEF RecvDeadlock, RecvToldDeadlock, tally
    <2> QED BY <1>1, <1>3, <1>4, <2>1, RecvShape
  <1>9. CASE RecvFinished(p)
    <2>1. /\ Transmit(p, Source(p), Asking(p)) /\ Advances(p, "REMOTE_FINISHED", value[p])
          /\ stray' = stray /\ taken' = taken /\ link' = link
      BY <1>9 DEF RecvFinished, tally
    <2> QED BY <1>1, <1>2, <1>3, <1>5, <2>1, RecvShape
  <1> QED BY <1>6, <1>7, <1>8, <1>9

LEMMA WaitShape ==
  ASSUME Shape, NEW p \in Ranks, RecvWait(p)
  PROVE  Shape' /\ Moves(p)
  <1>1. /\ Typed /\ CallOK(p) /\ UNCHANGED <<given, log, stray, sent, taken, todo, value, link>>
        /\ phase' = [phase EXCEPT ![p] = "wait"] /\ Looking(p) /\ Transmit(p, Source(p), Asking(p))
    BY DEF Shape, RecvWait, history, tally
  <1>2. Source(p) \in Others(p) /\ Source(p) \in Ranks /\ Step(p).do = "recv" /\ InCall(p)
    BY <1>1, LookingIn
  <1>3. Moves(p) /\ phase'[p] = "wait"
    BY <1>1 DEF Moves, Typed, Phases, Others
  <1>4. CallOK(p)'
    <2>1. Now(p)' = Now(p) /\ Step(p)' = Step(p) /\ Source(p)' = Source(p)
      BY <1>1 DEF Now, Step, Source, given
    <2> QED BY <1>1, <1>2, <1>3, <2>1 DEF CallOK, InCall, given
  <1>5. pipe' \in [Ranks -> [Ranks -> Seq(Messages)]]
    BY <1>1, <1>2, Asks, Transmits
  <1> QED BY <1>1, <1>3, <1>4, <1>5, ShapeKept DEF Typed

(* What a receiver thread does with a message keeps the link an entry.     *)
LEMMA Delivered ==
  ASSUME NEW from \in Entries, NEW m \in Messages
  PROVE  /\ Deliver(from, m) \in Entries
         /\ ~Signals(m) => Deliver(from, m) = [from EXCEPT !.waiting = FALSE]
  <1>0. /\ [from EXCEPT !.deadlock = TRUE] \in Entries /\ [from EXCEPT !.waiting = TRUE] \in Entries
        /\ [from EXCEPT !.waiting = FALSE] \in Entries /\ [from EXCEPT !.finished = TRUE] \in Entries
        /\ [from EXCEPT !.barrier = TRUE] \in Entries
    BY DEF Entries
  <1>1. \/ Deliver(from, m) = [from EXCEPT !.deadlock = TRUE]
        \/ Deliver(from, m) = [from EXCEPT !.waiting = TRUE]
        \/ Deliver(from, m) = [from EXCEPT !.waiting = FALSE]
        \/ Deliver(from, m) = [from EXCEPT !.finished = TRUE]
        \/ Deliver(from, m) = [from EXCEPT !.barrier = TRUE]
        \/ /\ m.tag # FINISHED /\ m.tag # BARRIER
           /\ Deliver(from, m) = [from EXCEPT !.buffer = Append(@, m)]
    BY DEF Deliver
  <1>2. ASSUME m.tag # FINISHED, m.tag # BARRIER
        PROVE  [from EXCEPT !.buffer = Append(@, m)] \in Entries
    <2>1. m \in Kept
      BY <1>2 DEF Messages, Kept
    <2>2. Append(from.buffer, m) \in Seq(Kept)
      BY <2>1, AppendProperties DEF Entries
    <2> QED BY <2>2 DEF Entries
  <1>3. ASSUME ~Signals(m) PROVE Deliver(from, m) = [from EXCEPT !.waiting = FALSE]
    BY <1>3 DEF Deliver, Signals, SERVED, DEADLOCK, WAITING, FINISHED, BARRIER
  <1> QED BY <1>0, <1>1, <1>2, <1>3

(* The effect of a receiver thread of p on what came from i.               *)
Woken(p, i) == Signals(Head(pipe[i][p])) /\ phase[p] = "wait" /\ Source(p) = i

LEMMA ReceiveHow ==
  ASSUME Typed, NEW p \in Ranks, NEW i \in Ranks, Receive(p, i)
  PROVE  /\ UNCHANGED <<given, log, stray, sent, taken, todo, value>>
         /\ phase[p] \notin {"closing", "closed"}
         /\ pipe[i][p] \in Seq(Messages) /\ pipe[i][p] # <<>> /\ Head(pipe[i][p]) \in Messages
         /\ link[p][i] \in Entries /\ Deliver(link[p][i], Head(pipe[i][p])) \in Entries
         /\ link' \in [Ranks -> [Ranks -> Entries]]
         /\ \A a, b \in Ranks : link'[a][b] = IF a = p /\ b = i THEN Deliver(link[p][i], Head(pipe[i][p]))
                                              ELSE link[a][b]
         /\ pipe' \in [Ranks -> [Ranks -> Seq(Messages)]]
         /\ \A a, b \in Ranks : pipe'[a][b] = IF a = i /\ b = p THEN Tail(pipe[i][p]) ELSE pipe[a][b]
         /\ phase' \in [Ranks -> Phases]
         /\ \A q \in Ranks : phase'[q] = IF q = p /\ Woken(p, i) THEN "woken" ELSE phase[q]
  <1> DEFINE m == Head(pipe[i][p])
             d == Deliver(link[p][i], m)
  <1>1. /\ UNCHANGED <<given, log, stray, sent, taken, todo, value>>
        /\ phase[p] \notin {"closing", "closed"} /\ pipe[i][p] # <<>>
        /\ link' = [link EXCEPT ![p][i] = d]
        /\ phase' = IF Woken(p, i) THEN [phase EXCEPT ![p] = "woken"] ELSE phase
        /\ pipe' = [pipe EXCEPT ![i][p] = Tail(@)]
    BY DEF Receive, history, tally, Woken
  <1>2. /\ pipe[i][p] \in Seq(Messages) /\ m \in Messages /\ Tail(pipe[i][p]) \in Seq(Messages)
        /\ link[p][i] \in Entries
    BY <1>1, HeadTailProperties DEF Typed
  <1>3. d \in Entries
    BY <1>2, Delivered
  <1> HIDE DEF d, m
  <1>4. /\ link' \in [Ranks -> [Ranks -> Entries]]
        /\ \A a, b \in Ranks : link'[a][b] = IF a = p /\ b = i THEN d ELSE link[a][b]
    <2>1. link' \in [Ranks -> [Ranks -> Entries]]
      BY <1>1, <1>3 DEF Typed
    <2>2. DOMAIN link = Ranks /\ \A a \in Ranks : DOMAIN link[a] = Ranks
      BY DEF Typed
    <2>3. \A a, b \in Ranks : link'[a][b] = IF a = p /\ b = i THEN d ELSE link[a][b]
      BY ONLY <1>1, <2>2, PutAt
    <2> QED BY <2>1, <2>3
  <1>5. /\ pipe' \in [Ranks -> [Ranks -> Seq(Messages)]]
        /\ \A a, b \in Ranks : pipe'[a][b] = IF a = i /\ b = p THEN Tail(pipe[i][p]) ELSE pipe[a][b]
    BY <1>1, <1>2 DEF Typed
  <1>6. /\ phase' \in [Ranks -> Phases]
        /\ \A q \in Ranks : phase'[q] = IF q = p /\ Woken(p, i) THEN "woken" ELSE phase[q]
    BY <1>1 DEF Typed, Phases
  <1> QED BY <1>1, <1>2, <1>3, <1>4, <1>5, <1>6 DEF d, m

LEMMA ReceiveShape ==
  ASSUME Shape, NEW p \in Ranks, NEW i \in Ranks, Receive(p, i)
  PROVE  Shape'
  <1>1. Typed
    BY DEF Shape
  <1>2. /\ UNCHANGED <<given, log, stray, sent, taken, todo, value>>
        /\ link' \in [Ranks -> [Ranks -> Entries]] /\ pipe' \in [Ranks -> [Ranks -> Seq(Messages)]]
        /\ phase' \in [Ranks -> Phases]
        /\ \A q \in Ranks : phase'[q] = phase[q] \/ (phase[q] = "wait" /\ phase'[q] = "woken")
    BY <1>1, ReceiveHow DEF Woken
  <1>3. Typed'
    BY <1>1, <1>2 DEF Typed, given
  <1>4. ASSUME NEW q \in Ranks PROVE CallOK(q)'
    <2>1. CallOK(q)
      BY DEF Shape
    <2>2. Now(q)' = Now(q) /\ Step(q)' = Step(q) /\ Source(q)' = Source(q) /\ program' = program
      BY <1>2 DEF Now, Step, Source, given
    <2> QED BY <1>2, <2>1, <2>2 DEF CallOK, InCall
  <1> QED BY <1>3, <1>4 DEF Shape

LEMMA StutterShape ==
  ASSUME Shape, UNCHANGED vars
  PROVE  Shape'
  <1>1. /\ UNCHANGED <<program, deadlock_detection, phase, todo, value, log, stray>>
        /\ UNCHANGED <<sent, taken, pipe, link>>
    BY DEF vars
  <1>2. Typed'
    BY <1>1 DEF Shape, Typed
  <1>3. \A q \in Ranks : CallOK(q)'
    BY <1>1, SameCallOK DEF Shape
  <1> QED BY <1>2, <1>3 DEF Shape

LEMMA NextShape == Shape /\ [Next]_vars => Shape'
  <1> SUFFICES ASSUME Shape, [Next]_vars PROVE Shape'
    OBVIOUS
  <1>1. ASSUME NEW p \in Ranks, Main(p) PROVE Shape'
    BY <1>1, LocalShape, EndShape, SendShape, ReceivesShape, WaitShape DEF Main
  <1>2. ASSUME NEW p \in Ranks, NEW i \in Ranks, Receive(p, i) PROVE Shape'
    BY <1>2, ReceiveShape
  <1> QED BY <1>1, <1>2, StutterShape DEF Next

(* The types of the invariant the run checks.                              *)
LEMMA ShapeTypes == Shape => TypeOK
  <1> SUFFICES ASSUME Shape PROVE TypeOK
    OBVIOUS
  <1>1. Typed /\ \A p \in Ranks : CallOK(p)
    BY DEF Shape
  <1>2. ASSUME NEW p \in Ranks, NEW q \in Ranks, NEW k \in DOMAIN pipe[p][q]
        PROVE  pipe[p][q][k].tag >= SERVED
    <2>0. pipe[p][q] \in Seq(Messages)
      BY <1>1 DEF Typed
    <2>1. pipe[p][q][k] \in Messages
      BY <2>0, ElementOfSeq, LenProperties
    <2> QED BY <2>1 DEF Messages, Tags
  <1>3. ASSUME NEW p \in Ranks, NEW i \in Ranks, NEW k \in DOMAIN link[p][i].buffer
        PROVE  link[p][i].buffer[k].tag \notin {FINISHED, BARRIER}
    <2>1. link[p][i].buffer \in Seq(Kept)
      BY <1>1 DEF Typed, Entries
    <2>2. link[p][i].buffer[k] \in Kept
      BY <2>1, ElementOfSeq, LenProperties
    <2> QED BY <2>2 DEF Kept
  <1> QED BY <1>1, <1>2, <1>3 DEF TypeOK, Typed, CallOK, InCall, Phases


(* Types, the ranks and tags in use, and that the main thread is within    *)
(* its program of calls, whatever programs the processes run.              *)
THEOREM TypesKept == Spec => []TypeOK
  <1> QED BY InitShape, NextShape, ShapeTypes, PTL DEF Spec
-----------------------------------------------------------------------------
(* No wakeup is lost.                                                      *)

(* The main thread of p writes to what p has, not to what others have.     *)
LEMMA MainLinks ==
  ASSUME Shape, NEW p \in Ranks, Main(p)
  PROVE  \A q \in Others(p) : \A j \in Ranks : link'[q][j] = link[q][j]
  <1>1. CASE link' = link
    BY <1>1
  <1>2. ASSUME NEW from, SetLink(p, from), Looking(p)
        PROVE  \A q \in Others(p) : \A j \in Ranks : link'[q][j] = link[q][j]
    <2>1. Source(p) \in Ranks /\ link' = [link EXCEPT ![p][Source(p)] = from]
      BY <1>2, LookingIn DEF SetLink
    <2> QED BY <2>1 DEF Shape, Typed, Others
  <1>3. link' = link \/ \E from : SetLink(p, from) /\ Looking(p)
    BY DEF Main, Call, Refuse, SendStep, RecvBarrier, RecvMessage, RecvDeadlock, RecvToldDeadlock,
           RecvFinished, RecvWait, Finalize, Close
  <1> QED BY <1>1, <1>2, <1>3

LEMMA MainShape ==
  ASSUME Shape, NEW p \in Ranks, Main(p)
  PROVE  Shape' /\ Moves(p) /\ UNCHANGED given
  <1>1. UNCHANGED given
    BY DEF Main, Call, Refuse, SendStep, RecvBarrier, RecvMessage, RecvDeadlock, RecvToldDeadlock,
           RecvFinished, RecvWait, Finalize, Close, given
  <1> QED BY <1>1, LocalShape, EndShape, SendShape, ReceivesShape, WaitShape DEF Main

Missing(p) == ~Served(p) /\ ~ToldOff(p) /\ ~Told(p) /\ ~Deserted(p)

LEMMA SameLook ==
  ASSUME NEW q, todo'[q] = todo[q], link'[q][Source(q)] = link[q][Source(q)],
         deadlock_detection' = deadlock_detection
  PROVE  Missing(q)' <=> Missing(q)
  <1>1. Step(q)' = Step(q) /\ Source(q)' = Source(q)
    BY DEF Step, Source
  <1>2. From(q)' = From(q)
    BY <1>1 DEF From
  <1> QED BY <1>1, <1>2 DEF Missing, Served, TakesBarrier, Match, ToldOff, Told, Deserted

(* A step that p itself takes cannot make another process miss anything,   *)
(* nor p, unless it goes to sleep.                                         *)
LEMMA MainWakeup ==
  ASSUME Shape, NoLostWakeup, NEW p \in Ranks, Main(p)
  PROVE  NoLostWakeup'
  <1>1. Moves(p) /\ UNCHANGED given /\ \A q \in Ranks : CallOK(q)
    BY MainShape DEF Shape
  <1>2. ASSUME NEW q \in Others(p), phase'[q] = "wait" PROVE Missing(q)'
    <2>1. q \in Ranks /\ phase[q] = "wait" /\ todo'[q] = todo[q]
      BY <1>1, <1>2 DEF Moves, Others
    <2>2. Source(q) \in Ranks /\ Missing(q)
      BY <1>1, <2>1 DEF CallOK, Others, NoLostWakeup, Missing
    <2>3. link'[q][Source(q)] = link[q][Source(q)]
      BY <2>1, <2>2, MainLinks
    <2> QED BY <1>1, <2>1, <2>2, <2>3, SameLook DEF given
  <1>3. ASSUME phase'[p] = "wait" PROVE Missing(p)'
    <2>1. CASE RecvWait(p)
      <3>1. Missing(p) /\ UNCHANGED <<todo, link, deadlock_detection>>
        BY <2>1 DEF RecvWait, Missing, given
      <3> QED BY <3>1, SameLook
    <2>2. CASE ~RecvWait(p)
      <3>1. \E x \in {"idle", "busy", "closing", "closed"} : phase' = [phase EXCEPT ![p] = x]
        BY <2>2 DEF Main, Call, Refuse, SendStep, RecvBarrier, RecvMessage, RecvDeadlock,
             RecvToldDeadlock, RecvFinished, Finalize, Close, Advances, Returns
      <3> QED BY <1>3, <3>1 DEF Shape, Typed
    <2> QED BY <2>1, <2>2
  <1> QED BY <1>2, <1>3 DEF NoLostWakeup, Missing, Others

LEMMA StopsWaiting ==
  ASSUME NEW e \in Entries, NEW d, d = [e EXCEPT !.waiting = FALSE]
  PROVE  /\ d.buffer = e.buffer /\ d.finished = e.finished /\ d.deadlock = e.deadlock
         /\ d.barrier = e.barrier /\ d.waiting = FALSE
  BY DEF Entries

(* receive_message: what it changes for a sleeper it signals, except that  *)
(* the source no longer waits, which a sleeper does not look for.          *)
LEMMA ReceiveWakeup ==
  ASSUME Shape, NoLostWakeup, NEW p \in Ranks, NEW i \in Ranks, Receive(p, i)
  PROVE  NoLostWakeup'
  <1> DEFINE m == Head(pipe[i][p])
             d == Deliver(link[p][i], m)
  <1>1. Typed /\ \A q \in Ranks : CallOK(q)
    BY DEF Shape
  <1>2. /\ todo' = todo /\ deadlock_detection' = deadlock_detection
        /\ \A a, b \in Ranks : link'[a][b] = IF a = p /\ b = i THEN d ELSE link[a][b]
        /\ \A q \in Ranks : phase'[q] = IF q = p /\ Woken(p, i) THEN "woken" ELSE phase[q]
        /\ link[p][i] \in Entries /\ m \in Messages
    BY <1>1, ReceiveHow DEF given
  <1> HIDE DEF d
  <1>3. ASSUME NEW q \in Ranks, phase'[q] = "wait" PROVE Missing(q)'
    <2>1. phase[q] = "wait" /\ ~(q = p /\ Woken(p, i))
      BY <1>2, <1>3
    <2>2. Source(q) \in Ranks /\ Missing(q)
      BY <1>1, <2>1 DEF CallOK, Others, NoLostWakeup, Missing
    <2>3. CASE q # p \/ Source(q) # i
      <3>1. link'[q][Source(q)] = link[q][Source(q)]
        BY <1>2, <2>2, <2>3
      <3> QED BY <1>2, <2>2, <3>1, SameLook
    <2>4. CASE q = p /\ Source(q) = i
      <3>1. ~Signals(m)
        BY <2>1, <2>4 DEF Woken
      <3>2. d = [link[p][i] EXCEPT !.waiting = FALSE]
        BY <1>2, <3>1, Delivered DEF d
      <3>3. From(q) = link[p][i] /\ Source(q)' = Source(q) /\ Step(q)' = Step(q) /\ From(q)' = d
        BY <1>2, <2>4 DEF From, Source, Step
      <3>4. /\ From(q)'.buffer = From(q).buffer /\ From(q)'.finished = From(q).finished
            /\ From(q)'.deadlock = From(q).deadlock /\ From(q)'.barrier = From(q).barrier
            /\ From(q)'.waiting = FALSE
        <4>1. link[p][i] \in Entries
          BY <1>2
        <4>2. /\ d.buffer = link[p][i].buffer /\ d.finished = link[p][i].finished
              /\ d.deadlock = link[p][i].deadlock /\ d.barrier = link[p][i].barrier /\ d.waiting = FALSE
          BY ONLY <3>2, <4>1, StopsWaiting
        <4> QED BY ONLY <3>3, <4>2
      <3> QED BY <1>2, <2>2, <3>3, <3>4 DEF Missing, Served, TakesBarrier, Match, ToldOff, Told, Deserted
    <2> QED BY <2>3, <2>4
  <1> QED BY <1>3 DEF NoLostWakeup, Missing

LEMMA NextWakeup == Shape /\ NoLostWakeup /\ [Next]_vars => NoLostWakeup'
  <1> SUFFICES ASSUME Shape, NoLostWakeup, [Next]_vars PROVE NoLostWakeup'
    OBVIOUS
  <1>1. CASE UNCHANGED vars
    <2>1. UNCHANGED <<phase, todo, link, deadlock_detection>>
      BY <1>1 DEF vars, given
    <2>2. \A q \in Ranks : Missing(q)' <=> Missing(q)
      BY <2>1, SameLook
    <2> QED BY <2>1, <2>2 DEF NoLostWakeup, Missing
  <1> QED BY <1>1, MainWakeup, ReceiveWakeup DEF Next

(* A process sleeps on cond[source] only while it would find nothing if it *)
(* looked, whatever programs the processes run, with any number of them    *)
(* (MIMPI_Recv and receive_message, which share lock[source]).             *)
THEOREM WakeupsKept == Spec => []NoLostWakeup
  <1>1. Init => NoLostWakeup
    BY DEF Init, NoLostWakeup
  <1> QED BY <1>1, InitShape, NextShape, NextWakeup, PTL DEF Spec

-----------------------------------------------------------------------------
(* Messages come in the order in which they were sent.                     *)

Leaving(p) == phase[p] \in {"closing", "closed"}

(* Only who leaves says so.                                                *)
Farewell(p, i) ==
  (link[i][p].finished \/ \E k \in 1 .. Len(pipe[p][i]) : pipe[p][i][k].tag = FINISHED) => Leaving(p)

Farewells == \A p, i \in Ranks : Farewell(p, i)

IsData(m) == m.tag >= 0
GotData(p, i) == {log[p][l].data : l \in Got(p, i)}

(* The call n of i is a send to p.                                         *)
Sends(i, n, p) == program[i][n].call = "send" /\ program[i][n].peer = p

(* Among the messages s is the one with the number n.                      *)
HasData(s, n) == \E k \in 1 .. Len(s) : IsData(s[k]) /\ s[k].data = n

Ascending(s) == \A k, l \in 1 .. Len(s) : k < l /\ IsData(s[k]) /\ IsData(s[l]) => s[k].data < s[l].data

(* Of the first n calls of i, m is what a send to p has sent.              *)
Sent(p, i, n, m) == m.data \in 1 .. n /\ Sends(i, m.data, p) /\ program[i][m.data].tag = m.tag

(* What the first n calls of i have sent p and p has not got is in p's     *)
(* buffer b or, later, on the way w, in the order in which it was sent;    *)
(* nothing of it is missing unless p leaves.                               *)
Track(p, i, b, w, got, n, leaves) ==
  /\ got \subseteq 1 .. n
  /\ \A k \in 1 .. Len(b) : IsData(b[k]) => Sent(p, i, n, b[k]) /\ b[k].data \notin got
  /\ \A k \in 1 .. Len(w) : IsData(w[k]) => Sent(p, i, n, w[k]) /\ w[k].data \notin got
  /\ Ascending(b) /\ Ascending(w)
  /\ \A k \in 1 .. Len(b), l \in 1 .. Len(w) : IsData(b[k]) /\ IsData(w[l]) => b[k].data < w[l].data
  /\ ~leaves => \A l \in (1 .. n) \ got : Sends(i, l, p) => HasData(b, l) \/ HasData(w, l)

OnTheWay(p, i) == Track(p, i, link[p][i].buffer, pipe[i][p], GotData(p, i), Len(log[i]), Leaving(p))

AllOnTheWay == \A p \in Ranks : \A i \in Others(p) : OnTheWay(p, i)

NothingFromSelf == \A p \in Ranks : Got(p, p) = {}

(* A receive k of p from i has got the first message that fits.            *)
Orderly(p, i) ==
  \A k \in Got(p, i) :
    LET earlier == {log[p][l].data : l \in {l \in Got(p, i) : l < k}}
        open == Fitting(i, p, program[p][k]) \ earlier
    IN  log[p][k].data \in open /\ \A m \in open : log[p][k].data <= m

OrderInv == Farewells /\ AllOnTheWay /\ NothingFromSelf /\ \A p, i \in Ranks : Orderly(p, i)

(* The log gets the result e of the call p is in.                          *)
Gets(p, i, e) == /\ Now(p).call = "recv" /\ Now(p).peer = i
                 /\ e.code = "SUCCESS" /\ e.data # Nothing

LEMMA SameGot ==
  ASSUME NEW p, NEW i, program' = program, log'[p] = log[p]
  PROVE  /\ Got(p, i)' = Got(p, i) /\ GotData(p, i)' = GotData(p, i)
         /\ Orderly(p, i)' <=> Orderly(p, i)
  <1>1. Got(p, i)' = Got(p, i)
    BY DEF Got, Succeeded
  <1> QED BY <1>1 DEF GotData, Orderly, Fitting

LEMMA LongerLog ==
  ASSUME Typed, program' = program, NEW p \in Ranks, NEW i \in Ranks,
         NEW e \in Results, log'[p] = Append(log[p], e)
  PROVE  /\ Got(p, i)' = IF Gets(p, i, e) THEN Got(p, i) \cup {Len(log[p]) + 1} ELSE Got(p, i)
         /\ GotData(p, i)' = IF Gets(p, i, e) THEN GotData(p, i) \cup {e.data} ELSE GotData(p, i)
         /\ Orderly(p, i) /\ ~Gets(p, i, e) => Orderly(p, i)'
         /\ /\ Orderly(p, i) /\ Gets(p, i, e)
            /\ e.data \in Fitting(i, p, Now(p)) \ GotData(p, i)
            /\ \A m \in Fitting(i, p, Now(p)) \ GotData(p, i) : e.data <= m
            => Orderly(p, i)'
  <1> DEFINE N == Len(log[p])
             l2 == log'[p]
  <1>1. log[p] \in Seq(Results) /\ N \in Nat /\ DOMAIN log[p] = 1 .. N
    BY Given, LenProperties
  <1>2. /\ DOMAIN l2 = 1 .. N + 1 /\ l2[N + 1] = e /\ \A k \in 1 .. N : l2[k] = log[p][k]
    BY <1>1, AppendProperties
  <1>3. Got(p, i) \subseteq 1 .. N
    BY <1>1 DEF Got
  <1> HIDE DEF N, l2
  <1>4. Got(p, i)' = {k \in DOMAIN l2 : /\ program[p][k].call = "recv" /\ program[p][k].peer = i
                                        /\ l2[k].code = "SUCCESS" /\ l2[k].data # Nothing}
    BY DEF Got, Succeeded, l2
  <1>5. Got(p, i) = {k \in 1 .. N : /\ program[p][k].call = "recv" /\ program[p][k].peer = i
                                    /\ log[p][k].code = "SUCCESS" /\ log[p][k].data # Nothing}
    BY <1>1 DEF Got, Succeeded
  <1>6. Now(p) = program[p][N + 1]
    BY DEF Now, N
  <1>7. Got(p, i)' = IF Gets(p, i, e) THEN Got(p, i) \cup {N + 1} ELSE Got(p, i)
    <2>1. \A k \in 1 .. N : k \in Got(p, i)' <=> k \in Got(p, i)
      BY <1>1, <1>2, <1>4, <1>5
    <2>2. N + 1 \in Got(p, i)' <=> Gets(p, i, e)
      BY <1>1, <1>2, <1>4, <1>6 DEF Gets
    <2>3. Got(p, i)' \subseteq 1 .. N + 1
      BY <1>2, <1>4
    <2>4. \A k \in 1 .. N + 1 : k \in 1 .. N \/ k = N + 1
      BY <1>1
    <2>5. N + 1 \notin 1 .. N
      BY <1>1
    <2> DEFINE new == Got(p, i)'
               old == Got(p, i)
    <2>6. old \subseteq new /\ \A k \in new : k \in old \/ k = N + 1
      BY <1>3, <2>1, <2>3, <2>4
    <2>7. N + 1 \in new <=> Gets(p, i, e)
      BY <2>2
    <2> HIDE DEF new, old
    <2>8. CASE Gets(p, i, e)
      <3>1. new = old \cup {N + 1}
        BY <2>6, <2>7, <2>8
      <3> QED BY <2>8, <3>1 DEF new, old
    <2>9. CASE ~Gets(p, i, e)
      <3>1. new = old
        BY <2>6, <2>7, <2>9
      <3> QED BY <2>9, <3>1 DEF new, old
    <2> QED BY <2>8, <2>9
  <1>8. GotData(p, i)' = {l2[k].data : k \in Got(p, i)'}
    BY DEF GotData, l2
  <1>9. GotData(p, i)' = IF Gets(p, i, e) THEN GotData(p, i) \cup {e.data} ELSE GotData(p, i)
    <2>1. {l2[k].data : k \in Got(p, i)} = GotData(p, i)
      BY <1>2, <1>3 DEF GotData
    <2>2. CASE Gets(p, i, e)
      <3>1. GotData(p, i)' = {l2[k].data : k \in Got(p, i) \cup {N + 1}}
        BY <1>7, <1>8, <2>2
      <3>2. @ = {l2[k].data : k \in Got(p, i)} \cup {l2[N + 1].data}
        OBVIOUS
      <3> QED BY <1>2, <2>1, <2>2, <3>1, <3>2
    <2>3. CASE ~Gets(p, i, e)
      BY <1>7, <1>8, <2>1, <2>3
    <2> QED BY <2>2, <2>3
  <1> DEFINE before(k) == {log[p][l].data : l \in {l \in Got(p, i) : l < k}}
             after(k) == {l2[l].data : l \in {l \in Got(p, i)' : l < k}}
  <1>10. \A k \in Got(p, i) : after(k) = before(k)
    <2>1. \A k \in Got(p, i) : {l \in Got(p, i)' : l < k} = {l \in Got(p, i) : l < k}
      BY <1>1, <1>3, <1>7
    <2> QED BY <1>2, <1>3, <2>1
  <1>11. after(N + 1) = GotData(p, i)
    <2>1. {l \in Got(p, i)' : l < N + 1} = Got(p, i)
      BY <1>1, <1>3, <1>7
    <2> QED BY <1>2, <1>3, <2>1 DEF GotData
  <1>12. Orderly(p, i) <=>
           \A k \in Got(p, i) :
             /\ log[p][k].data \in Fitting(i, p, program[p][k]) \ before(k)
             /\ \A m \in Fitting(i, p, program[p][k]) \ before(k) : log[p][k].data <= m
    BY DEF Orderly
  <1>13. Orderly(p, i)' <=>
           \A k \in Got(p, i)' :
             /\ l2[k].data \in Fitting(i, p, program[p][k]) \ after(k)
             /\ \A m \in Fitting(i, p, program[p][k]) \ after(k) : l2[k].data <= m
    BY DEF Orderly, Fitting, l2
  <1> HIDE DEF before, after
  <1>14. ASSUME Orderly(p, i), ~Gets(p, i, e) PROVE Orderly(p, i)'
    BY <1>2, <1>3, <1>7, <1>10, <1>12, <1>13, <1>14
  <1>15. ASSUME Orderly(p, i), Gets(p, i, e),
                e.data \in Fitting(i, p, Now(p)) \ GotData(p, i),
                \A m \in Fitting(i, p, Now(p)) \ GotData(p, i) : e.data <= m
         PROVE  Orderly(p, i)'
    <2>1. \A k \in Got(p, i) :
             /\ l2[k].data \in Fitting(i, p, program[p][k]) \ after(k)
             /\ \A m \in Fitting(i, p, program[p][k]) \ after(k) : l2[k].data <= m
      BY <1>2, <1>3, <1>10, <1>12, <1>15
    <2>2. /\ l2[N + 1].data \in Fitting(i, p, program[p][N + 1]) \ after(N + 1)
          /\ \A m \in Fitting(i, p, program[p][N + 1]) \ after(N + 1) : l2[N + 1].data <= m
      BY <1>2, <1>6, <1>11, <1>15
    <2> QED BY <1>7, <1>13, <1>15, <2>1, <2>2
  <1> QED BY <1>7, <1>9, <1>14, <1>15 DEF N

-----------------------------------------------------------------------------
(* What may happen to the messages between two processes.                  *)

LEMMA Joins ==
  ASSUME NEW S, NEW s \in Seq(S), NEW t \in Seq(S)
  PROVE  /\ s \o t \in Seq(S) /\ Len(s \o t) = Len(s) + Len(t) /\ Len(s) \in Nat /\ Len(t) \in Nat
         /\ \A k \in 1 .. Len(s) : k \in 1 .. Len(s \o t) /\ (s \o t)[k] = s[k]
         /\ \A k \in 1 .. Len(t) : Len(s) + k \in 1 .. Len(s \o t) /\ (s \o t)[Len(s) + k] = t[k]
         /\ \A k \in 1 .. Len(s \o t) : k \in 1 .. Len(s) \/ \E j \in 1 .. Len(t) : k = Len(s) + j
  <1>1. Len(s) \in Nat /\ Len(t) \in Nat /\ s \o t \in Seq(S) /\ Len(s \o t) = Len(s) + Len(t)
    BY ConcatProperties
  <1>2. \A k \in 1 .. Len(s) + Len(t) : (s \o t)[k] = IF k <= Len(s) THEN s[k] ELSE t[k - Len(s)]
    BY ConcatProperties
  <1>3. \A k \in 1 .. Len(t) : Len(s) + k \in 1 .. Len(s) + Len(t) /\ Len(s) + k > Len(s) /\ (Len(s) + k) - Len(s) = k
    BY <1>1
  <1>4. \A k \in 1 .. Len(s) + Len(t) : k \in 1 .. Len(s) \/ (k - Len(s) \in 1 .. Len(t) /\ k = Len(s) + (k - Len(s)))
    BY <1>1
  <1>5. ASSUME NEW k \in 1 .. Len(t) PROVE (s \o t)[Len(s) + k] = t[k]
    BY <1>1, <1>2, <1>3
  <1> QED BY <1>1, <1>2, <1>3, <1>4, <1>5

LEMMA Nexts ==
  ASSUME NEW S, NEW s \in Seq(S), s # <<>>
  PROVE  /\ Head(s) \in S /\ Head(s) = s[1] /\ 1 \in 1 .. Len(s)
         /\ Tail(s) \in Seq(S) /\ Len(Tail(s)) = Len(s) - 1
         /\ \A k \in 1 .. Len(Tail(s)) : k + 1 \in 1 .. Len(s) /\ Tail(s)[k] = s[k + 1]
         /\ \A k \in 1 .. Len(s) : k = 1 \/ \E j \in 1 .. Len(Tail(s)) : k = j + 1
  <1>1. Head(s) \in S /\ Head(s) = s[1] /\ Len(s) \in Nat /\ Len(s) >= 1
    OBVIOUS
  <1>2. Tail(s) \in Seq(S) /\ Len(Tail(s)) = Len(s) - 1 /\ \A k \in 1 .. Len(s) - 1 : Tail(s)[k] = s[k + 1]
    OBVIOUS
  <1>3. \A k \in 1 .. Len(s) - 1 : k + 1 \in 1 .. Len(s)
    BY <1>1
  <1>4. \A k \in 1 .. Len(s) : k = 1 \/ (k - 1 \in 1 .. Len(s) - 1 /\ k = (k - 1) + 1)
    BY <1>1
  <1> QED BY <1>1, <1>2, <1>3, <1>4

LEMMA Pushes ==
  ASSUME NEW S, NEW s \in Seq(S), NEW x \in S
  PROVE  /\ Append(s, x) \in Seq(S) /\ Len(Append(s, x)) = Len(s) + 1 /\ Len(s) \in Nat
         /\ \A k \in 1 .. Len(s) : k \in 1 .. Len(s) + 1 /\ Append(s, x)[k] = s[k]
         /\ Append(s, x)[Len(s) + 1] = x /\ Len(s) + 1 \in 1 .. Len(s) + 1
         /\ \A k \in 1 .. Len(s) + 1 : k \in 1 .. Len(s) \/ k = Len(s) + 1
  <1>1. Len(s) \in Nat
    OBVIOUS
  <1> QED BY <1>1, AppendProperties

LEMMA Drops ==
  ASSUME NEW S, NEW s \in Seq(S), NEW k \in 1 .. Len(s)
  PROVE  /\ RemoveAt(s, k) \in Seq(S)
         /\ \A j \in 1 .. Len(RemoveAt(s, k)) : \E l \in 1 .. Len(s) : /\ l # k /\ RemoveAt(s, k)[j] = s[l]
                                                                    /\ l = IF j < k THEN j ELSE j + 1
         /\ \A l \in 1 .. Len(s) : l # k => \E j \in 1 .. Len(RemoveAt(s, k)) : RemoveAt(s, k)[j] = s[l]
  <1>1. /\ RemoveAt(s, k) \in Seq(S) /\ Len(RemoveAt(s, k)) = Len(s) - 1 /\ Len(s) \in Nat
        /\ \A j \in 1 .. Len(s) - 1 : RemoveAt(s, k)[j] = IF j < k THEN s[j] ELSE s[j + 1]
    BY Removes, LenProperties
  <1>2. ASSUME NEW j \in 1 .. Len(s) - 1
        PROVE  \E l \in 1 .. Len(s) : l # k /\ RemoveAt(s, k)[j] = s[l] /\ l = IF j < k THEN j ELSE j + 1
    <2>1. CASE j < k
      <3>1. j \in 1 .. Len(s) /\ j # k
        BY <1>1, <2>1
      <3> QED BY <1>1, <2>1, <3>1
    <2>2. CASE ~(j < k)
      <3>1. j + 1 \in 1 .. Len(s) /\ j + 1 # k
        BY <1>1, <2>2
      <3> QED BY <1>1, <2>2, <3>1
    <2> QED BY <2>1, <2>2
  <1>3. ASSUME NEW l \in 1 .. Len(s), l # k
        PROVE  \E j \in 1 .. Len(s) - 1 : RemoveAt(s, k)[j] = s[l]
    <2>1. CASE l < k
      <3>1. l \in 1 .. Len(s) - 1
        BY <1>1, <2>1
      <3> QED BY <1>1, <2>1, <3>1
    <2>2. CASE l > k
      <3>1. l - 1 \in 1 .. Len(s) - 1 /\ ~(l - 1 < k) /\ (l - 1) + 1 = l
        BY <1>1, <2>2
      <3> QED BY <1>1, <3>1
    <2>3. l < k \/ l > k
      BY <1>1, <1>3
    <2> QED BY <2>1, <2>2, <2>3
  <1> QED BY <1>1, <1>2, <1>3

(* i puts messages ms on the way, with what its calls up to n2 send p.     *)
LEMMA TrackGrows ==
  ASSUME NEW p, NEW i, NEW b, NEW w \in Seq(Messages), NEW got, NEW n \in Nat, NEW leaves,
         Track(p, i, b, w, got, n, leaves),
         NEW ms \in Seq(Messages), NEW n2 \in Nat, NEW leaves2, n <= n2, leaves => leaves2,
         Ascending(ms), \A k \in 1 .. Len(ms) : IsData(ms[k]) => Sent(p, i, n2, ms[k]) /\ n < ms[k].data,
         ~leaves2 => \A l \in n + 1 .. n2 : Sends(i, l, p) => HasData(ms, l)
  PROVE  Track(p, i, b, w \o ms, got, n2, leaves2)
  <1> DEFINE v == w \o ms
             N == Len(w)
  <1>0. /\ Len(w \o ms) = Len(w) + Len(ms) /\ Len(w) \in Nat /\ Len(ms) \in Nat
        /\ \A k \in 1 .. Len(w) : k \in 1 .. Len(w \o ms) /\ (w \o ms)[k] = w[k]
        /\ \A k \in 1 .. Len(ms) : Len(w) + k \in 1 .. Len(w \o ms) /\ (w \o ms)[Len(w) + k] = ms[k]
        /\ \A k \in 1 .. Len(w \o ms) : k \in 1 .. Len(w) \/ \E j \in 1 .. Len(ms) : k = Len(w) + j
    BY ONLY w \in Seq(Messages), ms \in Seq(Messages), Joins
  <1>1. /\ Len(v) = N + Len(ms) /\ N \in Nat /\ Len(ms) \in Nat
        /\ \A k \in 1 .. N : k \in 1 .. Len(v) /\ v[k] = w[k]
        /\ \A k \in 1 .. Len(ms) : N + k \in 1 .. Len(v) /\ v[N + k] = ms[k]
        /\ \A k \in 1 .. Len(v) : k \in 1 .. N \/ \E j \in 1 .. Len(ms) : k = N + j
    BY ONLY <1>0
  <1> HIDE DEF v, N
  <1>2. /\ got \subseteq 1 .. n
        /\ \A k \in 1 .. Len(b) : IsData(b[k]) => Sent(p, i, n, b[k]) /\ b[k].data \notin got
        /\ \A k \in 1 .. N : IsData(w[k]) => Sent(p, i, n, w[k]) /\ w[k].data \notin got
        /\ Ascending(b) /\ Ascending(w)
        /\ \A k \in 1 .. Len(b), l \in 1 .. N : IsData(b[k]) /\ IsData(w[l]) => b[k].data < w[l].data
        /\ ~leaves => \A l \in (1 .. n) \ got : Sends(i, l, p) => HasData(b, l) \/ HasData(w, l)
    BY DEF Track, N
  <1>3. \A d \in 1 .. n : d \in 1 .. n2
    OBVIOUS
  <1>4. \A m : Sent(p, i, n, m) => Sent(p, i, n2, m) /\ m.data <= n /\ m.data \in Nat
    BY <1>3 DEF Sent
  <1>5. \A k \in 1 .. Len(ms) : IsData(ms[k]) => /\ Sent(p, i, n2, ms[k]) /\ n < ms[k].data /\ ms[k].data \notin got
                                                /\ ms[k].data \in Nat
    BY <1>2 DEF Sent
  <1>6. \A k \in 1 .. Len(v) : IsData(v[k]) => Sent(p, i, n2, v[k]) /\ v[k].data \notin got
    BY <1>1, <1>2, <1>4, <1>5
  <1>7. Ascending(v)
    <2> SUFFICES ASSUME NEW k \in 1 .. Len(v), NEW l \in 1 .. Len(v), k < l, IsData(v[k]), IsData(v[l])
                 PROVE  v[k].data < v[l].data
      BY DEF Ascending
    <2>1. CASE k \in 1 .. N /\ l \in 1 .. N
      BY <1>1, <1>2, <2>1 DEF Ascending, N
    <2>2. CASE k \in 1 .. N /\ \E j \in 1 .. Len(ms) : l = N + j
      <3>1. v[k].data <= n /\ v[k].data \in Nat
        BY <1>1, <1>2, <1>4, <2>2
      <3>2. n < v[l].data /\ v[l].data \in Nat
        BY <1>1, <1>5, <2>2
      <3> QED BY <3>1, <3>2
    <2>3. CASE \E j \in 1 .. Len(ms) : k = N + j
      <3>1. PICK j \in 1 .. Len(ms) : k = N + j
        BY <2>3
      <3>2. l \notin 1 .. N
        BY <1>1, <3>1
      <3>3. PICK h \in 1 .. Len(ms) : l = N + h
        BY <1>1, <3>2
      <3>4. j < h
        BY <1>1, <3>1, <3>3
      <3> QED BY <1>1, <3>1, <3>3, <3>4 DEF Ascending
    <2> QED BY <1>1, <2>1, <2>2, <2>3
  <1>8. \A k \in 1 .. Len(b), l \in 1 .. Len(v) : IsData(b[k]) /\ IsData(v[l]) => b[k].data < v[l].data
    <2> SUFFICES ASSUME NEW k \in 1 .. Len(b), NEW l \in 1 .. Len(v), IsData(b[k]), IsData(v[l])
                 PROVE  b[k].data < v[l].data
      OBVIOUS
    <2>1. CASE l \in 1 .. N
      BY <1>1, <1>2, <2>1
    <2>2. CASE \E j \in 1 .. Len(ms) : l = N + j
      <3>1. n < v[l].data /\ v[l].data \in Nat
        BY <1>1, <1>5, <2>2
      <3>2. b[k].data <= n /\ b[k].data \in Nat
        BY <1>2, <1>4
      <3> QED BY <3>1, <3>2
    <2> QED BY <1>1, <2>1, <2>2
  <1>9. ASSUME ~leaves2, NEW l \in (1 .. n2) \ got, Sends(i, l, p)
        PROVE  HasData(b, l) \/ HasData(v, l)
    <2>1. HasData(w, l) => HasData(v, l)
      BY <1>1 DEF HasData, N
    <2>2. HasData(ms, l) => HasData(v, l)
      BY <1>1 DEF HasData
    <2>3. l \in (1 .. n) \ got \/ l \in n + 1 .. n2
      OBVIOUS
    <2> QED BY <1>2, <1>9, <2>1, <2>2, <2>3
  <1>10. got \subseteq 1 .. n2
    BY <1>2, <1>3
  <1> QED BY <1>2, <1>4, <1>6, <1>7, <1>8, <1>9, <1>10 DEF Track, v

LEMMA DropsOne ==
  ASSUME NEW S, NEW s \in Seq(S), NEW k \in 1 .. Len(s), NEW l \in 1 .. Len(s), l # k
  PROVE  \E j \in 1 .. Len(RemoveAt(s, k)) : RemoveAt(s, k)[j] = s[l]
  BY Drops

(* p takes the k-th message of its buffer.                                 *)
LEMMA TrackTaken ==
  ASSUME NEW p, NEW i, NEW b \in Seq(Kept), NEW w, NEW got, NEW n \in Nat, NEW leaves,
         Track(p, i, b, w, got, n, leaves), NEW k \in 1 .. Len(b),
         NEW got2, got2 = IF IsData(b[k]) THEN got \cup {b[k].data} ELSE got
  PROVE  Track(p, i, RemoveAt(b, k), w, got2, n, leaves)
  <1> DEFINE v == RemoveAt(b, k)
  <1>1. \A j \in 1 .. Len(v) : \E l \in 1 .. Len(b) : l # k /\ v[j] = b[l] /\ l = IF j < k THEN j ELSE j + 1
    BY Drops
  <1>2. \A l \in 1 .. Len(b) : l # k => \E j \in 1 .. Len(v) : v[j] = b[l]
    BY DropsOne
  <1> HIDE DEF v
  <1>3. /\ got \subseteq 1 .. n
        /\ \A l \in 1 .. Len(b) : IsData(b[l]) => Sent(p, i, n, b[l]) /\ b[l].data \notin got
        /\ \A l \in 1 .. Len(w) : IsData(w[l]) => Sent(p, i, n, w[l]) /\ w[l].data \notin got
        /\ Ascending(b) /\ Ascending(w)
        /\ \A j \in 1 .. Len(b), l \in 1 .. Len(w) : IsData(b[j]) /\ IsData(w[l]) => b[j].data < w[l].data
        /\ ~leaves => \A l \in (1 .. n) \ got : Sends(i, l, p) => HasData(b, l) \/ HasData(w, l)
    BY DEF Track
  <1>4. \A l \in 1 .. Len(b) : IsData(b[l]) => b[l].data \in 1 .. n
    BY <1>3 DEF Sent
  <1>5. \A l \in 1 .. Len(b) : l # k /\ IsData(b[l]) => b[l].data \notin got2
    <2> SUFFICES ASSUME NEW l \in 1 .. Len(b), l # k, IsData(b[l]) PROVE b[l].data \notin got2
      OBVIOUS
    <2>1. IsData(b[k]) => b[l].data # b[k].data
      <3>1. CASE l < k
        BY <1>3, <1>4, <3>1 DEF Ascending
      <3>2. CASE k < l
        BY <1>3, <1>4, <3>2 DEF Ascending
      <3>3. l < k \/ k < l
        <4>1. l \in Int /\ k \in Int /\ l # k
          OBVIOUS
        <4> QED BY ONLY <4>1
      <3> QED BY <3>1, <3>2, <3>3
    <2> QED BY <1>3, <2>1
  <1>6. \A l \in 1 .. Len(w) : IsData(w[l]) => w[l].data \notin got2
    <2> SUFFICES ASSUME NEW l \in 1 .. Len(w), IsData(w[l]) PROVE w[l].data \notin got2
      OBVIOUS
    <2>1. IsData(b[k]) => b[k].data < w[l].data /\ b[k].data \in 1 .. n /\ w[l].data \in 1 .. n
      BY <1>3, <1>4 DEF Sent
    <2> QED BY <1>3, <2>1
  <1>7. got2 \subseteq 1 .. n
    BY <1>3, <1>4
  <1>8. Ascending(v)
    <2> SUFFICES ASSUME NEW x \in 1 .. Len(v), NEW y \in 1 .. Len(v), x < y, IsData(v[x]), IsData(v[y])
                 PROVE  v[x].data < v[y].data
      BY DEF Ascending
    <2>1. PICK x1 \in 1 .. Len(b) : v[x] = b[x1] /\ x1 = IF x < k THEN x ELSE x + 1
      BY <1>1
    <2>2. PICK y1 \in 1 .. Len(b) : v[y] = b[y1] /\ y1 = IF y < k THEN y ELSE y + 1
      BY <1>1
    <2>3. x1 < y1
      BY <2>1, <2>2
    <2> QED BY <1>3, <2>1, <2>2, <2>3 DEF Ascending
  <1>9. ASSUME ~leaves, NEW l \in (1 .. n) \ got2, Sends(i, l, p)
        PROVE  HasData(v, l) \/ HasData(w, l)
    <2>1. l \in (1 .. n) \ got
      OBVIOUS
    <2>2. CASE HasData(b, l)
      <3>1. PICK j \in 1 .. Len(b) : IsData(b[j]) /\ b[j].data = l
        BY <2>2 DEF HasData
      <3>2. j # k
        BY <3>1
      <3> QED BY <1>2, <3>1, <3>2 DEF HasData
    <2> QED BY <1>3, <1>9, <2>1, <2>2
  <1>10. \A j \in 1 .. Len(v) : IsData(v[j]) => Sent(p, i, n, v[j]) /\ v[j].data \notin got2
    BY <1>1, <1>3, <1>5
  <1>11. \A j \in 1 .. Len(v), l \in 1 .. Len(w) : IsData(v[j]) /\ IsData(w[l]) => v[j].data < w[l].data
    BY <1>1, <1>3
  <1> QED BY <1>3, <1>6, <1>7, <1>8, <1>9, <1>10, <1>11 DEF Track, v

(* What comes next on the way gets into the buffer.                        *)
LEMMA TrackMoves ==
  ASSUME NEW p, NEW i, NEW b \in Seq(Kept), NEW w \in Seq(Messages), w # <<>>, NEW got, NEW n \in Nat, NEW leaves,
         Track(p, i, b, w, got, n, leaves), NEW c,
         (c = b /\ ~IsData(Head(w))) \/ (c = Append(b, Head(w)) /\ Head(w) \in Kept)
  PROVE  Track(p, i, c, Tail(w), got, n, leaves)
  <1> DEFINE m == Head(w)
             v == Tail(w)
  <1>1. /\ m = w[1] /\ 1 \in 1 .. Len(w)
        /\ \A k \in 1 .. Len(v) : k + 1 \in 1 .. Len(w) /\ v[k] = w[k + 1]
        /\ \A k \in 1 .. Len(w) : k = 1 \/ \E j \in 1 .. Len(v) : k = j + 1
    BY Nexts
  <1>2. /\ Len(b) \in Nat
        /\ \A k \in 1 .. Len(b) : k \in 1 .. Len(c) /\ c[k] = b[k]
        /\ \A k \in 1 .. Len(c) : k \in 1 .. Len(b) \/ (k = Len(b) + 1 /\ c[k] = m /\ Len(c) = Len(b) + 1)
        /\ IsData(m) => Len(b) + 1 \in 1 .. Len(c) /\ c[Len(b) + 1] = m
    <2>1. Len(b) \in Nat
      OBVIOUS
    <2>2. CASE c = b /\ ~IsData(m)
      BY <2>1, <2>2
    <2>3. CASE c = Append(b, m) /\ m \in Kept
      BY <2>3, Pushes
    <2> QED BY <2>1, <2>2, <2>3
  <1> HIDE DEF m, v
  <1>3. /\ got \subseteq 1 .. n
        /\ \A l \in 1 .. Len(b) : IsData(b[l]) => Sent(p, i, n, b[l]) /\ b[l].data \notin got
        /\ \A l \in 1 .. Len(w) : IsData(w[l]) => Sent(p, i, n, w[l]) /\ w[l].data \notin got
        /\ Ascending(b) /\ Ascending(w)
        /\ \A j \in 1 .. Len(b), l \in 1 .. Len(w) : IsData(b[j]) /\ IsData(w[l]) => b[j].data < w[l].data
        /\ ~leaves => \A l \in (1 .. n) \ got : Sends(i, l, p) => HasData(b, l) \/ HasData(w, l)
    BY DEF Track
  <1>4. \A k \in 1 .. Len(c) : IsData(c[k]) => Sent(p, i, n, c[k]) /\ c[k].data \notin got
    BY <1>1, <1>2, <1>3
  <1>5. \A k \in 1 .. Len(v) : IsData(v[k]) => Sent(p, i, n, v[k]) /\ v[k].data \notin got
    BY <1>1, <1>3
  <1>6. Ascending(v)
    <2> SUFFICES ASSUME NEW x \in 1 .. Len(v), NEW y \in 1 .. Len(v), x < y, IsData(v[x]), IsData(v[y])
                 PROVE  v[x].data < v[y].data
      BY DEF Ascending
    <2>1. x + 1 \in 1 .. Len(w) /\ y + 1 \in 1 .. Len(w) /\ x + 1 < y + 1 /\ v[x] = w[x + 1] /\ v[y] = w[y + 1]
      BY <1>1
    <2> QED BY <1>3, <2>1 DEF Ascending
  <1>7. Ascending(c)
    <2> SUFFICES ASSUME NEW x \in 1 .. Len(c), NEW y \in 1 .. Len(c), x < y, IsData(c[x]), IsData(c[y])
                 PROVE  c[x].data < c[y].data
      BY DEF Ascending
    <2>1. x \in 1 .. Len(b) /\ c[x] = b[x]
      BY <1>2
    <2>2. CASE y \in 1 .. Len(b)
      BY <1>2, <1>3, <2>1, <2>2 DEF Ascending
    <2>3. CASE y \notin 1 .. Len(b)
      <3>1. c[y] = w[1]
        BY <1>1, <1>2, <2>3
      <3> QED BY <1>1, <1>3, <2>1, <3>1
    <2> QED BY <2>2, <2>3
  <1>8. \A k \in 1 .. Len(c), l \in 1 .. Len(v) : IsData(c[k]) /\ IsData(v[l]) => c[k].data < v[l].data
    <2> SUFFICES ASSUME NEW k \in 1 .. Len(c), NEW l \in 1 .. Len(v), IsData(c[k]), IsData(v[l])
                 PROVE  c[k].data < v[l].data
      OBVIOUS
    <2>1. l + 1 \in 1 .. Len(w) /\ 1 < l + 1 /\ v[l] = w[l + 1]
      BY <1>1
    <2>2. CASE k \in 1 .. Len(b)
      BY <1>2, <1>3, <2>1, <2>2
    <2>3. CASE k \notin 1 .. Len(b)
      <3>1. c[k] = w[1]
        BY <1>1, <1>2, <2>3
      <3> QED BY <1>1, <1>3, <2>1, <3>1 DEF Ascending
    <2> QED BY <2>2, <2>3
  <1>9. ASSUME ~leaves, NEW l \in (1 .. n) \ got, Sends(i, l, p)
        PROVE  HasData(c, l) \/ HasData(v, l)
    <2>1. HasData(b, l) => HasData(c, l)
      BY <1>2 DEF HasData
    <2>2. CASE HasData(w, l)
      <3>1. PICK j \in 1 .. Len(w) : IsData(w[j]) /\ w[j].data = l
        BY <2>2 DEF HasData
      <3>2. CASE j = 1
        <4>1. Len(b) + 1 \in 1 .. Len(c) /\ IsData(c[Len(b) + 1]) /\ c[Len(b) + 1].data = l
          BY <1>1, <1>2, <3>1, <3>2
        <4> QED BY <4>1 DEF HasData
      <3>3. CASE j # 1
        BY <1>1, <3>1, <3>3 DEF HasData
      <3> QED BY <3>2, <3>3
    <2> QED BY <1>3, <1>9, <2>1, <2>2
  <1> QED BY <1>3, <1>4, <1>5, <1>6, <1>7, <1>8, <1>9 DEF Track, v

(* p closes its end.                                                       *)
LEMMA TrackCut ==
  ASSUME NEW p, NEW i, NEW b, NEW w, NEW got, NEW n \in Nat, NEW leaves, Track(p, i, b, w, got, n, leaves)
  PROVE  Track(p, i, b, <<>>, got, n, TRUE)
  <1>1. Len(<<>>) = 0
    OBVIOUS
  <1> QED BY <1>1 DEF Track, Ascending
-----------------------------------------------------------------------------
(* What a step of a main thread does to the pipes, the links and the log.  *)

QuietTags == {DEADLOCK, WAITING, SERVED}
Tagged(T) == [tag : T, data : Int]
PipesGrow(T) == \A a, b \in Ranks : \E ms \in Seq(Tagged(T)) : pipe'[a][b] = pipe[a][b] \o ms

LEMMA Wider ==
  ASSUME NEW T, NEW U, T \subseteq U, NEW ms \in Seq(Tagged(T))
  PROVE  ms \in Seq(Tagged(U))
  <1>1. Tagged(T) \subseteq Tagged(U)
    BY DEF Tagged
  <1> QED BY <1>1

LEMMA TaggedMessages ==
  ASSUME NEW T, T \subseteq Tags, NEW ms \in Seq(Tagged(T))
  PROVE  ms \in Seq(Messages) /\ \A k \in 1 .. Len(ms) : ms[k].tag \in T
  <1>1. Tagged(T) \subseteq Messages
    BY DEF Tagged, Messages
  <1>2. \A k \in 1 .. Len(ms) : ms[k] \in Tagged(T)
    OBVIOUS
  <1> QED BY <1>1, <1>2 DEF Tagged

LEMMA NothingAdded ==
  ASSUME Typed, NEW a \in Ranks, NEW b \in Ranks, NEW T
  PROVE  <<>> \in Seq(Tagged(T)) /\ pipe[a][b] \o <<>> = pipe[a][b]
  <1>1. pipe[a][b] \in Seq(Messages)
    BY DEF Typed
  <1> QED BY <1>1, ConcatEmptySeq

LEMMA TransmitGrows ==
  ASSUME Typed, NEW p \in Ranks, NEW q \in Ranks, NEW T, T \subseteq Tags, NEW ms \in Seq(Tagged(T)),
         Transmit(p, q, ms)
  PROVE  PipesGrow(T)
  <1>1. ms \in Seq(Messages)
    BY TaggedMessages
  <1>2. \A a, b \in Ranks : pipe'[a][b] = IF a = p /\ b = q /\ ~Gone(p, q) THEN pipe[p][q] \o ms
                                          ELSE pipe[a][b]
    BY <1>1, Transmits
  <1> SUFFICES ASSUME NEW a \in Ranks, NEW b \in Ranks
               PROVE  \E s \in Seq(Tagged(T)) : pipe'[a][b] = pipe[a][b] \o s
    BY DEF PipesGrow
  <1>3. CASE a = p /\ b = q /\ ~Gone(p, q)
    BY <1>2, <1>3
  <1>4. CASE ~(a = p /\ b = q /\ ~Gone(p, q))
    <2>1. pipe'[a][b] = pipe[a][b] \o <<>> /\ <<>> \in Seq(Tagged(T))
      BY <1>2, <1>4, NothingAdded
    <2> QED BY <2>1
  <1> QED BY <1>3, <1>4

LEMMA PipesStay ==
  ASSUME Typed, pipe' = pipe, NEW T
  PROVE  PipesGrow(T)
  <1> SUFFICES ASSUME NEW a \in Ranks, NEW b \in Ranks
               PROVE  \E s \in Seq(Tagged(T)) : pipe'[a][b] = pipe[a][b] \o s
    BY DEF PipesGrow
  <1> QED BY NothingAdded

LEMMA QuietOnes ==
  ASSUME NEW p
  PROVE  /\ Asking(p) \in Seq(Tagged(QuietTags))
         /\ <<Message(DEADLOCK, Nothing)>> \in Seq(Tagged(QuietTags))
         /\ (Asking(p) \o IF Tells(p) THEN <<Message(SERVED, Nothing)>> ELSE <<>>) \in Seq(Tagged(QuietTags))
         /\ QuietTags \subseteq Tags \ {FINISHED}
  <1>1. \A m \in Tagged(QuietTags) : <<m>> \in Seq(Tagged(QuietTags))
    OBVIOUS
  <1>2. /\ Message(WAITING, Nothing) \in Tagged(QuietTags) /\ Message(DEADLOCK, Nothing) \in Tagged(QuietTags)
        /\ Message(SERVED, Nothing) \in Tagged(QuietTags)
    BY DEF Message, Nothing, Tagged, QuietTags
  <1>3. <<>> \in Seq(Tagged(QuietTags))
    OBVIOUS
  <1>4. Asking(p) \in Seq(Tagged(QuietTags))
    BY <1>1, <1>2, <1>3, Asks
  <1>5. (IF Tells(p) THEN <<Message(SERVED, Nothing)>> ELSE <<>>) \in Seq(Tagged(QuietTags))
    BY <1>1, <1>2, <1>3
  <1>6. QuietTags \subseteq Tags \ {FINISHED}
    BY DEF QuietTags, Tags, FINISHED, DEADLOCK, WAITING, SERVED
  <1> QED BY <1>1, <1>2, <1>4, <1>5, <1>6, ConcatProperties

(* Only a send of a main thread that does not leave says more than who     *)
(* waits for whom.                                                         *)
LEMMA MainQuiet ==
  ASSUME Shape, NEW p \in Ranks, Main(p), ~SendStep(p), ~Finalize(p), ~Close(p)
  PROVE  PipesGrow(QuietTags)
  <1>1. Typed
    BY DEF Shape
  <1>2. CASE pipe' = pipe
    BY <1>1, <1>2, PipesStay
  <1>3. ASSUME Looking(p), NEW ms \in Seq(Tagged(QuietTags)), Transmit(p, Source(p), ms)
        PROVE  PipesGrow(QuietTags)
    <2>1. Source(p) \in Ranks /\ QuietTags \subseteq Tags
      BY <1>3, LookingIn, QuietOnes
    <2> QED BY <1>1, <1>3, <2>1, TransmitGrows
  <1>4. CASE Call(p) \/ Refuse(p)
    BY <1>2, <1>4 DEF Call, Refuse
  <1>5. CASE RecvBarrier(p) \/ RecvToldDeadlock(p) \/ RecvFinished(p) \/ RecvWait(p)
    BY <1>3, <1>5, QuietOnes DEF RecvBarrier, RecvToldDeadlock, RecvFinished, RecvWait
  <1>6. CASE RecvMessage(p)
    BY <1>3, <1>6, QuietOnes DEF RecvMessage
  <1>7. CASE RecvDeadlock(p)
    BY <1>3, <1>7, QuietOnes DEF RecvDeadlock
  <1> QED BY <1>4, <1>5, <1>6, <1>7 DEF Main

(* The message a send puts in the pipe.                                    *)
LEMMA SendHow ==
  ASSUME Shape, NEW p \in Ranks, SendStep(p)
  PROVE  LET q == Step(p).peer  tag == Step(p).tag  m == Message(tag, Payload(p, tag)) IN
         /\ InCall(p) /\ q \in Others(p) /\ q \in Ranks /\ m \in Messages /\ m.tag = tag /\ tag \in GroupTags \cup Nat
         /\ <<m>> \in Seq(Messages) /\ tag \in Tags \ {FINISHED}
         /\ \A a, b \in Ranks : pipe'[a][b] = IF a = p /\ b = q /\ ~Gone(p, q) THEN pipe[p][q] \o <<m>>
                                              ELSE pipe[a][b]
         /\ tag >= 0 => m.data = Len(log[p]) + 1 /\ ~IsGroup(Now(p)) /\ Sends(p, Len(log[p]) + 1, q)
                        /\ Now(p).tag = tag
         /\ \E code \in Codes : Advances(p, code, value[p])
  <1> DEFINE q == Step(p).peer
             tag == Step(p).tag
             m == Message(tag, Payload(p, tag))
  <1>1. /\ Typed /\ InCall(p) /\ Step(p).do = "send" /\ ~Refused(p, q)
        /\ Transmit(p, q, <<m>>) /\ \E code \in Codes : Advances(p, code, value[p])
    BY DEF Shape, SendStep, Doing, InCall, Codes
  <1>2. q \in Others(p) /\ q \in Ranks
    BY <1>1 DEF Refused, Others
  <1>3. /\ Step(p) \in StepSet /\ Now(p) \in Calls /\ value[p] \in Int /\ Len(log[p]) \in Nat
        /\ IsGroup(Now(p)) => Step(p) \in GroupSteps(p, TagOf(Now(p)))
        /\ ~IsGroup(Now(p)) => Step(p).do = Now(p).call /\ q = Now(p).peer /\ tag = Now(p).tag
    BY <1>1, StepOK, Given DEF Typed
  <1>4. tag \in GroupTags \cup Nat /\ Payload(p, tag) \in Int /\ tag \in Tags
    BY <1>3, OwnTags DEF StepSet, Payload
  <1>5. m \in Messages /\ m.tag = tag /\ m.data = Payload(p, tag) /\ <<m>> \in Seq(Messages)
    BY <1>4, Signs DEF Message
  <1>6. tag # FINISHED
    BY <1>4 DEF GroupTags, FINISHED, BARRIER, BCAST, REDUCE
  <1>7. \A a, b \in Ranks : pipe'[a][b] = IF a = p /\ b = q /\ ~Gone(p, q) THEN pipe[p][q] \o <<m>>
                                          ELSE pipe[a][b]
    BY <1>1, <1>2, <1>5, Transmits
  <1>8. ASSUME tag >= 0
        PROVE  /\ m.data = Len(log[p]) + 1 /\ ~IsGroup(Now(p)) /\ Sends(p, Len(log[p]) + 1, q)
               /\ Now(p).tag = tag
    <2>1. tag \notin {BCAST, REDUCE} /\ tag # BARRIER /\ tag \notin GroupTags
      BY <1>8 DEF BARRIER, BCAST, REDUCE, GroupTags
    <2>2. ~IsGroup(Now(p))
      BY <1>3, <2>1, Kinds DEF GroupSteps
    <2> QED BY <1>1, <1>3, <1>5, <2>1, <2>2 DEF Payload, Sends, Now
  <1> QED BY <1>1, <1>2, <1>4, <1>5, <1>6, <1>7, <1>8

LEMMA SendGrows ==
  ASSUME Shape, NEW p \in Ranks, SendStep(p)
  PROVE  PipesGrow(Tags \ {FINISHED})
  <1> DEFINE q == Step(p).peer
             tag == Step(p).tag
             m == Message(tag, Payload(p, tag))
  <1>1. Typed /\ q \in Ranks /\ m \in Messages /\ m.tag = tag /\ tag \in Tags \ {FINISHED}
    BY SendHow DEF Shape
  <1>2. Transmit(p, q, <<m>>)
    BY DEF SendStep
  <1> HIDE DEF m
  <1>3. m \in Tagged(Tags \ {FINISHED})
    BY <1>1 DEF Messages, Tagged
  <1>4. <<m>> \in Seq(Tagged(Tags \ {FINISHED}))
    BY <1>3
  <1> QED BY <1>1, <1>2, <1>4, TransmitGrows

LEMMA AnyGrows ==
  ASSUME Shape, NEW p \in Ranks, Main(p), ~Finalize(p), ~Close(p)
  PROVE  PipesGrow(Tags \ {FINISHED})
  <1>1. ASSUME PipesGrow(QuietTags) PROVE PipesGrow(Tags \ {FINISHED})
    BY <1>1, QuietOnes, Wider DEF PipesGrow
  <1> QED BY <1>1, MainQuiet, SendGrows

(* Who leaves, leaves for good, by MIMPI_Finalize.                         *)
LEMMA LeavingHow ==
  ASSUME Shape, NEW p \in Ranks, Main(p)
  PROVE  /\ \A q \in Others(p) : Leaving(q)' <=> Leaving(q)
         /\ Finalize(p) \/ Close(p) => Leaving(p)'
         /\ ~Finalize(p) /\ ~Close(p) => ~Leaving(p) /\ ~Leaving(p)'
  <1>1. Moves(p) /\ phase \in [Ranks -> Phases]
    BY MainShape DEF Shape, Typed
  <1>2. \A q \in Others(p) : Leaving(q)' <=> Leaving(q)
    BY <1>1 DEF Moves, Leaving
  <1>3. CASE Finalize(p) \/ Close(p)
    <2>1. \E x \in {"closing", "closed"} : phase' = [phase EXCEPT ![p] = x]
      BY <1>3 DEF Finalize, Close
    <2> QED BY <1>1, <1>2, <1>3, <2>1 DEF Leaving
  <1>4. CASE ~(Finalize(p) \/ Close(p))
    <2>1. \E x \in {"idle", "busy", "wait"} : phase' = [phase EXCEPT ![p] = x]
      BY <1>4 DEF Main, Call, Refuse, SendStep, RecvBarrier, RecvMessage, RecvDeadlock,
           RecvToldDeadlock, RecvFinished, RecvWait, Advances, Returns
    <2>2. phase[p] \in {"idle", "busy", "woken"}
      BY <1>4 DEF Main, Call, Refuse, SendStep, RecvBarrier, RecvMessage, RecvDeadlock,
           RecvToldDeadlock, RecvFinished, RecvWait, Looking, Doing
    <2> QED BY <1>1, <1>2, <1>4, <2>1, <2>2 DEF Leaving
  <1> QED BY <1>3, <1>4

(* The main thread takes messages from the buffer of the link it looks at, *)
(* and what it knows of who has finished stays.                            *)
LEMMA LinkHow ==
  ASSUME Shape, NEW p \in Ranks, Main(p)
  PROVE  \A a, b \in Ranks :
           /\ link'[a][b].finished = link[a][b].finished
           /\ ~(RecvMessage(p) /\ a = p /\ b = Source(p)) => link'[a][b].buffer = link[a][b].buffer
  <1>1. Typed
    BY DEF Shape
  <1>2. ASSUME NEW from \in Entries, SetLink(p, from), Looking(p), from.finished = From(p).finished,
               RecvMessage(p) \/ from.buffer = From(p).buffer
        PROVE  \A a, b \in Ranks :
                 /\ link'[a][b].finished = link[a][b].finished
                 /\ ~(RecvMessage(p) /\ a = p /\ b = Source(p)) => link'[a][b].buffer = link[a][b].buffer
    <2>1. Source(p) \in Ranks
      BY <1>2, LookingIn
    <2>2. \A a, b \in Ranks : link'[a][b] = IF a = p /\ b = Source(p) THEN from ELSE link[a][b]
      BY <1>1, <1>2, <2>1, SetsAt
    <2> QED BY <1>2, <2>2 DEF From
  <1>3. CASE RecvBarrier(p) \/ RecvDeadlock(p) \/ RecvToldDeadlock(p)
    <2>1. Looking(p) /\ From(p) \in Entries
      BY <1>3, LookingIn DEF RecvBarrier, RecvDeadlock, RecvToldDeadlock
    <2>2. \A from \in {[From(p) EXCEPT !.barrier = FALSE], [From(p) EXCEPT !.waiting = FALSE],
                       [From(p) EXCEPT !.deadlock = FALSE]} :
            from \in Entries /\ from.finished = From(p).finished /\ from.buffer = From(p).buffer
      BY <2>1 DEF Entries
    <2>3. \E from \in {[From(p) EXCEPT !.barrier = FALSE], [From(p) EXCEPT !.waiting = FALSE],
                       [From(p) EXCEPT !.deadlock = FALSE]} : SetLink(p, from)
      BY <1>3 DEF RecvBarrier, RecvDeadlock, RecvToldDeadlock
    <2> QED BY <1>2, <2>1, <2>2, <2>3
  <1>4. CASE RecvMessage(p)
    <2>1. Looking(p) /\ From(p) \in Entries
      BY <1>4, LookingIn DEF RecvMessage
    <2>2. PICK k \in Match(p) : SetLink(p, [From(p) EXCEPT !.buffer = RemoveAt(@, k)])
      BY <1>4 DEF RecvMessage
    <2>3. RemoveAt(From(p).buffer, k) \in Seq(Kept)
      BY <2>1, Matched
    <2>4. \A c \in Seq(Kept) : /\ [From(p) EXCEPT !.buffer = c] \in Entries
                               /\ [From(p) EXCEPT !.buffer = c].finished = From(p).finished
      BY <2>1 DEF Entries
    <2> QED BY <1>2, <1>4, <2>1, <2>2, <2>3, <2>4
  <1>5. CASE Call(p) \/ Refuse(p) \/ SendStep(p) \/ RecvFinished(p) \/ RecvWait(p) \/ Finalize(p) \/ Close(p)
    <2>1. link' = link
      BY <1>5 DEF Call, Refuse, SendStep, RecvFinished, RecvWait, Finalize, Close
    <2> QED BY <2>1
  <1> QED BY <1>3, <1>4, <1>5 DEF Main

LEMMA AdvancesLog ==
  ASSUME Shape, NEW p \in Ranks, InCall(p), NEW code \in Codes, NEW v \in Int, Advances(p, code, v)
  PROVE  \/ log'[p] = log[p] /\ IsGroup(Now(p))
         \/ \E e \in Results : /\ log'[p] = Append(log[p], e) /\ e.data = v
                               /\ ~IsGroup(Now(p)) => e.code = code
  <1>1. Typed
    BY DEF Shape
  <1>2. ASSUME NEW c \in Codes, Returns(p, c, v), ~IsGroup(Now(p)) => c = code
        PROVE  \E e \in Results : /\ log'[p] = Append(log[p], e) /\ e.data = v
                                  /\ ~IsGroup(Now(p)) => e.code = code
    <2>1. log'[p] = Append(log[p], [code |-> c, data |-> v])
      BY <1>1, <1>2, ReturnsMoves
    <2>2. [code |-> c, data |-> v] \in Results
      BY DEF Results
    <2> QED BY <1>2, <2>1, <2>2
  <1>3. CASE GoesOn(p, v)
    BY <1>3, GoesOnMoves DEF GoesOn
  <1> QED BY <1>2, <1>3, AdvancesHow
(* Without RecvMessage no call of p returns data of a receive, and only    *)
(* SendStep makes a call to send something to another process return.      *)
LEMMA LogHow ==
  ASSUME Shape, NEW p \in Ranks, Main(p), ~RecvMessage(p)
  PROVE  \/ log'[p] = log[p]
         \/ \E e \in Results :
              /\ log'[p] = Append(log[p], e) /\ \A i \in Ranks : ~Gets(p, i, e)
              /\ \A q \in Others(p) : Sends(p, Len(log[p]) + 1, q) => SendStep(p) /\ q = Step(p).peer
  <1> DEFINE Quietly(e) ==
               /\ log'[p] = Append(log[p], e) /\ \A i \in Ranks : ~Gets(p, i, e)
               /\ \A q \in Others(p) : Sends(p, Len(log[p]) + 1, q) => SendStep(p) /\ q = Step(p).peer
  <1>0. Typed /\ CallOK(p) /\ Now(p) = program[p][Len(log[p]) + 1]
    BY DEF Shape, Now
  <1>1. CASE Call(p)
    <2>1. Len(log[p]) < Len(program[p])
      BY <1>0, <1>1, Given DEF Call, Finished, CallOK
    <2>2. Now(p) \in Calls
      BY <1>0, <2>1, NowCall
    <2>3. CASE Steps(p) # <<>>
      BY <1>1, <2>3 DEF Call
    <2>4. CASE Steps(p) = <<>>
      <3>0. \A r : <<r>> # <<>>
        OBVIOUS
      <3>1. IsGroup(Now(p))
        <4>1. ~IsGroup(Now(p)) =>
                Steps(p) = <<[do |-> Now(p).call, peer |-> Now(p).peer, tag |-> Now(p).tag]>>
          BY <1>0, <2>1, StepsOK
        <4> QED BY <2>4, <3>0, <4>1
      <3>2. Now(p).call \notin {"send", "recv"}
        BY <3>1 DEF IsGroup
      <3>3. Returns(p, "SUCCESS", Own(p, Now(p))) /\ "SUCCESS" \in Codes /\ Own(p, Now(p)) \in Int
        BY <1>1, <2>2, <2>4, OwnValue DEF Call, Codes
      <3>4. log'[p] = Append(log[p], [code |-> "SUCCESS", data |-> Own(p, Now(p))])
        BY <1>0, <3>3, ReturnsMoves
      <3>5. [code |-> "SUCCESS", data |-> Own(p, Now(p))] \in Results
        BY <3>3 DEF Results
      <3>6. Quietly([code |-> "SUCCESS", data |-> Own(p, Now(p))])
        BY <1>0, <3>2, <3>4 DEF Gets, Sends
      <3> QED BY <3>5, <3>6
    <2> QED BY <2>3, <2>4
  <1>2. ASSUME InCall(p), NEW code \in Codes, NEW v \in Int, Advances(p, code, v),
               Now(p).call = "recv" => code # "SUCCESS" \/ v = Nothing,
               \A q \in Others(p) : Sends(p, Len(log[p]) + 1, q) => SendStep(p) /\ q = Step(p).peer
        PROVE  log'[p] = log[p] \/ \E e \in Results : Quietly(e)
    <2>1. ASSUME NEW e \in Results, log'[p] = Append(log[p], e), e.data = v, ~IsGroup(Now(p)) => e.code = code
          PROVE  Quietly(e)
      BY <1>2, <2>1 DEF Gets, IsGroup
    <2> QED BY <1>2, <2>1, AdvancesLog
  <1>3. ASSUME InCall(p)
        PROVE  /\ value[p] \in Int /\ Received(p, Nothing) \in Int
               /\ Now(p).call = "recv" => Received(p, Nothing) = Nothing
               /\ ~IsGroup(Now(p)) => Step(p).do = Now(p).call /\ Step(p).peer = Now(p).peer
    <2>1. value[p] \in Int /\ Received(p, Nothing) \in Int
      BY <1>0, <1>3, ReceivedValue, OwnTags DEF Typed
    <2>2. Now(p).call = "recv" => Received(p, Nothing) = Nothing
      BY DEF Received
    <2> QED BY <1>3, <2>1, <2>2, StepOK
  <1>4. CASE Refuse(p)
    <2>1. InCall(p)
      BY <1>4 DEF Refuse, Doing, InCall
    <2>2. PICK code \in {"ATTEMPTED_SELF_OP", "NO_SUCH_RANK"} : Advances(p, code, value[p])
      BY <1>4 DEF Refuse
    <2>3. \A q \in Others(p) : ~Sends(p, Len(log[p]) + 1, q)
      BY <1>0, <1>3, <1>4, <2>1 DEF Sends, Refuse, Refused, IsGroup, Others
    <2> QED BY <1>2, <1>3, <2>1, <2>2, <2>3 DEF Codes
  <1>5. CASE SendStep(p)
    <2>1. InCall(p) /\ Step(p).do = "send"
      BY <1>5 DEF SendStep, Doing, InCall
    <2>2. PICK code \in Codes : Advances(p, code, value[p])
      BY <1>5, SendHow
    <2>3. Now(p).call # "recv"
      BY <1>3, <2>1 DEF IsGroup
    <2>4. \A q \in Others(p) : Sends(p, Len(log[p]) + 1, q) => q = Step(p).peer
      BY <1>0, <1>3, <2>1 DEF Sends, IsGroup
    <2> QED BY <1>2, <1>3, <1>5, <2>1, <2>2, <2>3, <2>4
  <1>6. CASE RecvBarrier(p) \/ RecvDeadlock(p) \/ RecvToldDeadlock(p) \/ RecvFinished(p)
    <2>1. Looking(p)
      BY <1>6 DEF RecvBarrier, RecvDeadlock, RecvToldDeadlock, RecvFinished
    <2>2. InCall(p) /\ Step(p).do = "recv"
      BY <2>1, LookingIn
    <2>3. \A q \in Others(p) : ~Sends(p, Len(log[p]) + 1, q)
      BY <1>0, <1>3, <2>2 DEF Sends, IsGroup
    <2>4. \/ Advances(p, "SUCCESS", Received(p, Nothing))
          \/ Advances(p, "DEADLOCK_DETECTED", Received(p, Nothing))
          \/ Advances(p, "REMOTE_FINISHED", value[p])
      BY <1>6 DEF RecvBarrier, RecvDeadlock, RecvToldDeadlock, RecvFinished
    <2>5. {"SUCCESS", "DEADLOCK_DETECTED", "REMOTE_FINISHED"} \subseteq Codes
      BY DEF Codes
    <2> QED BY <1>2, <1>3, <2>2, <2>3, <2>4, <2>5
  <1>7. CASE RecvWait(p) \/ Finalize(p) \/ Close(p)
    BY <1>7 DEF RecvWait, Finalize, Close, history
  <1> QED BY <1>1, <1>4, <1>5, <1>6, <1>7 DEF Main

(* What p has got stays, and the number of calls it has made grows by at   *)
(* most one.                                                               *)
LEMMA SameData ==
  ASSUME Shape, NEW p \in Ranks, Main(p), ~RecvMessage(p)
  PROVE  /\ \A q, i \in Ranks : /\ Got(q, i)' = Got(q, i) /\ GotData(q, i)' = GotData(q, i)
                                /\ Orderly(q, i) => Orderly(q, i)'
         /\ \A q \in Ranks :
              /\ Len(log[q]) \in Nat /\ Len(log'[q]) \in Nat /\ Len(log[q]) <= Len(log'[q])
              /\ \A n \in Len(log[q]) + 1 .. Len(log'[q]), d \in Others(q) :
                   Sends(q, n, d) => SendStep(p) /\ q = p /\ d = Step(p).peer /\ n = Len(log[p]) + 1
              /\ Len(log'[q]) = Len(log[q]) \/ (q = p /\ Len(log'[q]) = Len(log[q]) + 1)
  <1>1. /\ Typed /\ Moves(p) /\ program' = program
        /\ \A q \in Ranks : Len(log[q]) \in Nat /\ log[q] \in Seq(Results)
    BY MainShape, Given DEF Shape, given
  <1>2. ASSUME NEW q \in Ranks, log'[q] = log[q]
        PROVE  /\ \A i \in Ranks : /\ Got(q, i)' = Got(q, i) /\ GotData(q, i)' = GotData(q, i)
                                   /\ Orderly(q, i) => Orderly(q, i)'
               /\ Len(log[q]) \in Nat /\ Len(log'[q]) \in Nat /\ Len(log[q]) <= Len(log'[q])
               /\ \A n \in Len(log[q]) + 1 .. Len(log'[q]), d \in Others(q) : ~Sends(q, n, d)
               /\ Len(log'[q]) = Len(log[q])
    BY <1>1, <1>2, SameGot
  <1>3. ASSUME NEW e \in Results, log'[p] = Append(log[p], e), \A i \in Ranks : ~Gets(p, i, e),
               \A q \in Others(p) : Sends(p, Len(log[p]) + 1, q) => SendStep(p) /\ q = Step(p).peer
        PROVE  /\ \A i \in Ranks : /\ Got(p, i)' = Got(p, i) /\ GotData(p, i)' = GotData(p, i)
                                   /\ Orderly(p, i) => Orderly(p, i)'
               /\ Len(log'[p]) = Len(log[p]) + 1
               /\ \A n \in Len(log[p]) + 1 .. Len(log'[p]), d \in Others(p) :
                    Sends(p, n, d) => SendStep(p) /\ d = Step(p).peer /\ n = Len(log[p]) + 1
    <2>1. \A i \in Ranks : /\ Got(p, i)' = Got(p, i) /\ GotData(p, i)' = GotData(p, i)
                           /\ Orderly(p, i) => Orderly(p, i)'
      BY <1>1, <1>3, LongerLog
    <2>2. Len(log'[p]) = Len(log[p]) + 1
      BY <1>1, <1>3, AppendProperties
    <2>3. \A n \in Len(log[p]) + 1 .. Len(log[p]) + 1 : n = Len(log[p]) + 1
      BY <1>1
    <2> QED BY <1>3, <2>1, <2>2, <2>3
  <1>4. \A q \in Others(p) : q \in Ranks /\ log'[q] = log[q]
    BY <1>1 DEF Moves, Others
  <1>5. \A q \in Ranks : q = p \/ q \in Others(p)
    BY DEF Others
  <1>6. CASE log'[p] = log[p]
    BY <1>2, <1>4, <1>5, <1>6
  <1>7. CASE log'[p] # log[p]
    <2>1. PICK e \in Results :
              /\ log'[p] = Append(log[p], e) /\ \A i \in Ranks : ~Gets(p, i, e)
              /\ \A q \in Others(p) : Sends(p, Len(log[p]) + 1, q) => SendStep(p) /\ q = Step(p).peer
      BY <1>7, LogHow
    <2>2. Len(log[p]) \in Nat /\ Len(log'[p]) = Len(log[p]) + 1
      BY <1>1, <1>3, <2>1
    <2>3. \A i \in Ranks : /\ Got(p, i)' = Got(p, i) /\ GotData(p, i)' = GotData(p, i)
                           /\ Orderly(p, i) => Orderly(p, i)'
      BY <1>3, <2>1
    <2>4. \A n \in Len(log[p]) + 1 .. Len(log'[p]), d \in Others(p) :
                    Sends(p, n, d) => SendStep(p) /\ d = Step(p).peer /\ n = Len(log[p]) + 1
      BY <1>3, <2>1
    <2>5. Len(log'[p]) \in Nat /\ Len(log[p]) <= Len(log'[p])
      BY <2>2
    <2> QED BY <1>2, <1>4, <1>5, <2>2, <2>3, <2>4, <2>5
  <1> QED BY <1>6, <1>7

-----------------------------------------------------------------------------
(* Every step keeps the order.                                             *)

LEMMA TrackNext ==
  ASSUME NEW p, NEW i, program' = program,
         Track(p, i, link'[p][i].buffer, pipe'[i][p], GotData(p, i)', Len(log'[i]), Leaving(p)')
  PROVE  OnTheWay(p, i)'
  BY DEF OnTheWay, Track, Sent, Sends

LEMMA NoData ==
  ASSUME NEW T, T \in {QuietTags, {FINISHED}}, NEW ms \in Seq(Tagged(T))
  PROVE  /\ ms \in Seq(Messages) /\ Ascending(ms) /\ \A k \in 1 .. Len(ms) : ~IsData(ms[k])
  <1>1. T \subseteq Tags /\ \A t \in T : ~(t >= 0)
    BY DEF QuietTags, Tags, FINISHED, DEADLOCK, WAITING, SERVED
  <1>2. ms \in Seq(Messages) /\ \A k \in 1 .. Len(ms) : ms[k].tag \in T
    BY <1>1, TaggedMessages
  <1>3. \A k \in 1 .. Len(ms) : ~IsData(ms[k])
    BY <1>1, <1>2 DEF IsData
  <1> QED BY <1>2, <1>3 DEF Ascending

(* But for sends and the closing of pipes, only these messages are added.   *)
LEMMA QuietGrows ==
  ASSUME Shape, NEW x \in Ranks, Main(x), ~SendStep(x), ~Close(x)
  PROVE  \E T \in {QuietTags, {FINISHED}} : PipesGrow(T)
  <1>1. Typed
    BY DEF Shape
  <1>2. CASE Finalize(x)
    <2>1. pipe' = [pipe EXCEPT ![x] = [q \in Ranks |->
                     IF q = x \/ Gone(x, q) THEN pipe[x][q] ELSE Append(pipe[x][q], Message(FINISHED, Nothing))]]
      BY <1>2 DEF Finalize
    <2>2. Message(FINISHED, Nothing) \in Tagged({FINISHED}) /\ Message(FINISHED, Nothing) \in Messages
      BY Signs, OwnTags DEF Message, Tagged
    <2>3. <<Message(FINISHED, Nothing)>> \in Seq(Tagged({FINISHED}))
      BY <2>2
    <2>4. ASSUME NEW a \in Ranks, NEW b \in Ranks
          PROVE  \E ms \in Seq(Tagged({FINISHED})) : pipe'[a][b] = pipe[a][b] \o ms
      <3>1. pipe'[a][b] = pipe[a][b] \/ pipe'[a][b] = Append(pipe[a][b], Message(FINISHED, Nothing))
        BY <1>1, <2>1 DEF Typed
      <3>2. Append(pipe[a][b], Message(FINISHED, Nothing)) = pipe[a][b] \o <<Message(FINISHED, Nothing)>>
        <4>1. pipe[a][b] \in Seq(Messages)
          BY <1>1 DEF Typed
        <4> QED BY ONLY <2>2, <4>1, AppendIsConcat
      <3> QED BY <1>1, <2>3, <3>1, <3>2, NothingAdded
    <2> QED BY <2>4 DEF PipesGrow
  <1> QED BY <1>2, MainQuiet

(* Nobody sends or takes anything that a program has asked for.            *)
LEMMA QuietOrder ==
  ASSUME Shape, OrderInv, NEW x \in Ranks, Main(x), ~SendStep(x), ~RecvMessage(x), ~Close(x)
  PROVE  AllOnTheWay'
  <1>1. Typed /\ program' = program
    BY MainShape DEF Shape, given
  <1>2. \E T \in {QuietTags, {FINISHED}} : PipesGrow(T)
    BY QuietGrows
  <1>3. PICK T \in {QuietTags, {FINISHED}} : PipesGrow(T)
    BY <1>2
  <1> SUFFICES ASSUME NEW p \in Ranks, NEW i \in Others(p) PROVE OnTheWay(p, i)'
    BY DEF AllOnTheWay
  <1>4. i \in Ranks /\ p \in Others(i) /\ pipe[i][p] \in Seq(Messages)
    BY <1>1 DEF Others, Typed
  <1>5. PICK ms \in Seq(Tagged(T)) : pipe'[i][p] = pipe[i][p] \o ms
    BY <1>3, <1>4 DEF PipesGrow
  <1>6. ms \in Seq(Messages) /\ Ascending(ms) /\ \A k \in 1 .. Len(ms) : ~IsData(ms[k])
    BY <1>3, NoData
  <1>7. /\ GotData(p, i)' = GotData(p, i)
        /\ Len(log[i]) \in Nat /\ Len(log'[i]) \in Nat /\ Len(log[i]) <= Len(log'[i])
        /\ \A n \in Len(log[i]) + 1 .. Len(log'[i]) : ~Sends(i, n, p)
    BY <1>4, SameData
  <1>8. link'[p][i].buffer = link[p][i].buffer
    BY <1>4, LinkHow
  <1>9. Leaving(p) => Leaving(p)'
    BY LeavingHow DEF Others
  <1>10. Track(p, i, link[p][i].buffer, pipe[i][p], GotData(p, i), Len(log[i]), Leaving(p))
    BY DEF OrderInv, AllOnTheWay, OnTheWay
  <1> DEFINE l == Leaving(p)
             l2 == Leaving(p)'
             n == Len(log[i])
             n2 == Len(log'[i])
             b == link[p][i].buffer
             g == GotData(p, i)
             w == pipe[i][p]
  <1>11. /\ Track(p, i, b, w, g, n, l) /\ w \in Seq(Messages) /\ (l => l2)
         /\ n \in Nat /\ n2 \in Nat /\ n <= n2 /\ \A k \in n + 1 .. n2 : ~Sends(i, k, p)
    BY <1>4, <1>7, <1>9, <1>10
  <1> HIDE DEF l, l2, n, n2, b, g, w
  <1>12. Track(p, i, b, w \o ms, g, n2, l2)
    BY <1>6, <1>11, TrackGrows
  <1>13. Track(p, i, link'[p][i].buffer, pipe'[i][p], GotData(p, i)', Len(log'[i]), Leaving(p)')
    BY <1>5, <1>7, <1>8, <1>12 DEF l2, n2, b, g, w
  <1> QED BY <1>1, <1>13, TrackNext
LEMMA SendOrder ==
  ASSUME Shape, OrderInv, NEW x \in Ranks, Main(x), SendStep(x)
  PROVE  AllOnTheWay'
  <1> DEFINE q == Step(x).peer
             tag == Step(x).tag
             m == Message(tag, Payload(x, tag))
             N == Len(log[x])
  <1>1. Typed /\ program' = program /\ \A a \in Ranks : Len(log[a]) \in Nat
    BY MainShape, Given DEF Shape, given
  <1>2. ~RecvMessage(x) /\ ~Finalize(x) /\ ~Close(x)
    BY DEF SendStep, RecvMessage, Looking, Doing, Finalize, Close
  <1>3. /\ InCall(x) /\ q \in Others(x) /\ q \in Ranks /\ m \in Messages /\ m.tag = tag
        /\ <<m>> \in Seq(Messages)
        /\ \A a, b \in Ranks : pipe'[a][b] = IF a = x /\ b = q /\ ~Gone(x, q) THEN pipe[x][q] \o <<m>>
                                             ELSE pipe[a][b]
        /\ tag >= 0 => m.data = N + 1 /\ ~IsGroup(Now(x)) /\ Sends(x, N + 1, q) /\ Now(x).tag = tag
    BY SendHow
  <1>4. Gone(x, q) => Leaving(q)
    BY <1>3 DEF OrderInv, Farewells, Farewell, Gone, Leaving
  <1>5. tag >= 0 => Len(log'[x]) = N + 1
    <2> SUFFICES ASSUME tag >= 0 PROVE Len(log'[x]) = N + 1
      OBVIOUS
    <2>1. PICK code \in Codes : Advances(x, code, value[x])
      BY SendHow
    <2>2. ~IsGroup(Now(x)) /\ value[x] \in Int /\ log[x] \in Seq(Results)
      BY <1>1, <1>3 DEF Typed
    <2>3. \E e \in Results : log'[x] = Append(log[x], e)
      BY <1>3, <2>1, <2>2, AdvancesLog
    <2> QED BY <2>2, <2>3, AppendProperties
  <1> HIDE DEF q, tag, m, N
  <1> SUFFICES ASSUME NEW p \in Ranks, NEW i \in Others(p) PROVE OnTheWay(p, i)'
    BY DEF AllOnTheWay
  <1>6. i \in Ranks /\ p \in Others(i) /\ pipe[i][p] \in Seq(Messages)
    BY <1>1 DEF Others, Typed
  <1>7. /\ GotData(p, i)' = GotData(p, i)
        /\ Len(log[i]) \in Nat /\ Len(log'[i]) \in Nat /\ Len(log[i]) <= Len(log'[i])
        /\ \A n \in Len(log[i]) + 1 .. Len(log'[i]) : Sends(i, n, p) => i = x /\ p = q /\ n = N + 1
    BY <1>2, <1>6, SameData DEF q, N
  <1>8. link'[p][i].buffer = link[p][i].buffer
    BY <1>2, <1>6, LinkHow
  <1>9. Leaving(p) => Leaving(p)'
    BY LeavingHow DEF Others
  <1>10. Track(p, i, link[p][i].buffer, pipe[i][p], GotData(p, i), Len(log[i]), Leaving(p))
    BY DEF OrderInv, AllOnTheWay, OnTheWay
  <1> DEFINE l == Leaving(p)
             l2 == Leaving(p)'
             n == Len(log[i])
             n2 == Len(log'[i])
             b == link[p][i].buffer
             g == GotData(p, i)
             w == pipe[i][p]
  <1>11. /\ Track(p, i, b, w, g, n, l) /\ w \in Seq(Messages) /\ (l => l2)
         /\ n \in Nat /\ n2 \in Nat /\ n <= n2
         /\ \A k \in n + 1 .. n2 : Sends(i, k, p) => i = x /\ p = q /\ k = N + 1
    BY <1>6, <1>7, <1>9, <1>10
  <1> HIDE DEF l, l2, n, n2, b, g, w
  <1>12. ASSUME NEW ms \in Seq(Messages), pipe'[i][p] = pipe[i][p] \o ms, Ascending(ms),
                \A k \in 1 .. Len(ms) : IsData(ms[k]) => Sent(p, i, n2, ms[k]) /\ n < ms[k].data,
                ~l2 => \A k \in n + 1 .. n2 : Sends(i, k, p) => HasData(ms, k)
         PROVE  OnTheWay(p, i)'
    <2>1. Track(p, i, b, w \o ms, g, n2, l2)
      BY <1>11, <1>12, TrackGrows
    <2>2. Track(p, i, link'[p][i].buffer, pipe'[i][p], GotData(p, i)', Len(log'[i]), Leaving(p)')
      BY <1>7, <1>8, <1>12, <2>1 DEF l2, n2, b, g, w
    <2> QED BY <1>1, <2>2, TrackNext
  <1>13. /\ <<>> \in Seq(Messages) /\ Ascending(<<>>) /\ Len(<<>>) = 0
         /\ Ascending(<<m>>) /\ Len(<<m>>) = 1 /\ \A k \in 1 .. Len(<<m>>) : <<m>>[k] = m
         /\ \A k \in 1 .. Len(<<>>) : FALSE
    BY DEF Ascending
  <1>14. CASE i = x /\ p = q /\ ~Gone(x, q)
    <2>1. n = N /\ pipe'[i][p] = pipe[i][p] \o <<m>>
      BY <1>3, <1>6, <1>14 DEF n, N
    <2>2. IsData(m) => Sent(p, i, n2, m) /\ n < m.data
      <3> SUFFICES ASSUME IsData(m) PROVE Sent(p, i, n2, m) /\ n < m.data
        OBVIOUS
      <3>1. tag >= 0
        BY <1>3 DEF IsData
      <3>2. m.data = N + 1 /\ n2 = N + 1 /\ N \in Nat /\ Sends(i, N + 1, p)
        BY <1>1, <1>3, <1>5, <1>14, <3>1 DEF n2, N
      <3>3. program[i][N + 1].tag = m.tag
        BY <1>3, <1>14, <3>1 DEF Now, N
      <3> QED BY <2>1, <3>2, <3>3 DEF Sent
    <2>3. \A k \in n + 1 .. n2 : Sends(i, k, p) => HasData(<<m>>, k)
      <3> SUFFICES ASSUME NEW k \in n + 1 .. n2, Sends(i, k, p) PROVE HasData(<<m>>, k)
        OBVIOUS
      <3>1. k = N + 1
        BY <1>11
      <3>2. Now(x).call = "send" /\ ~IsGroup(Now(x))
        BY <1>14, <3>1 DEF Sends, Now, N, IsGroup
      <3>3. tag >= 0
        <4>1. Now(x) \in Calls /\ tag = Now(x).tag
          BY <1>3, <3>2, StepOK DEF tag
        <4> QED BY <3>2, <4>1, Kinds
      <3>4. 1 \in 1 .. Len(<<m>>) /\ <<m>>[1] = m /\ IsData(m) /\ m.data = k
        BY <1>3, <1>13, <3>1, <3>3 DEF IsData
      <3> QED BY <3>4 DEF HasData
    <2>4. \A k \in 1 .. Len(<<m>>) : IsData(<<m>>[k]) => Sent(p, i, n2, <<m>>[k]) /\ n < <<m>>[k].data
      BY <1>13, <2>2
    <2> QED BY <1>3, <1>12, <1>13, <2>1, <2>3, <2>4
  <1>15. CASE ~(i = x /\ p = q /\ ~Gone(x, q))
    <2>1. pipe'[i][p] = pipe[i][p] \o <<>>
      BY <1>1, <1>3, <1>6, <1>15, NothingAdded
    <2>2. ~l2 => \A k \in n + 1 .. n2 : Sends(i, k, p) => HasData(<<>>, k)
      <3> SUFFICES ASSUME ~l2, NEW k \in n + 1 .. n2, Sends(i, k, p) PROVE FALSE
        OBVIOUS
      <3>1. i = x /\ p = q /\ l
        BY <1>4, <1>11, <1>15 DEF l
      <3> QED BY <1>11, <3>1
    <2> QED BY <1>12, <1>13, <2>1, <2>2
  <1> QED BY <1>14, <1>15

(* RecvMessage: the message p takes and what its log gets.                 *)
LEMMA TakeHow ==
  ASSUME Shape, NEW p \in Ranks, RecvMessage(p)
  PROVE  LET i == Source(p)  b == link[p][i].buffer IN
         /\ Looking(p) /\ i \in Others(p) /\ i \in Ranks /\ b \in Seq(Kept)
         /\ \E k \in Match(p) :
              /\ k \in 1 .. Len(b) /\ b[k] \in Kept
              /\ \A c, d \in Ranks : link'[c][d].buffer = IF c = p /\ d = i THEN RemoveAt(b, k)
                                                         ELSE link[c][d].buffer
              /\ IF IsGroup(Now(p)) THEN ~IsData(b[k]) ELSE IsData(b[k])
              /\ ~IsGroup(Now(p)) =>
                   /\ Now(p).call = "recv" /\ Now(p).peer = i /\ Now(p).tag = Step(p).tag
                   /\ log'[p] = Append(log[p], [code |-> "SUCCESS", data |-> b[k].data])
              /\ log'[p] = log[p] \/ \E e \in Results : log'[p] = Append(log[p], e)
  <1> DEFINE i == Source(p)
             b == link[p][i].buffer
  <1>1. Typed /\ Looking(p) /\ InCall(p) /\ i \in Others(p) /\ i \in Ranks /\ Step(p).do = "recv" /\ From(p) \in Entries
    BY LookingIn DEF RecvMessage, Shape
  <1>2. PICK k \in Match(p) : /\ SetLink(p, [From(p) EXCEPT !.buffer = RemoveAt(@, k)])
                              /\ Advances(p, "SUCCESS", Received(p, From(p).buffer[k].data))
    BY DEF RecvMessage
  <1>3. /\ b \in Seq(Kept) /\ k \in 1 .. Len(b) /\ b[k] \in Kept /\ b[k].data \in Int
        /\ RemoveAt(b, k) \in Seq(Kept)
        /\ b[k].tag = Step(p).tag \/ (Step(p).tag = ANY /\ b[k].tag >= 0)
    BY <1>1, Matched DEF From
  <1>4. \A c, d \in Ranks : link'[c][d].buffer = IF c = p /\ d = i THEN RemoveAt(b, k) ELSE link[c][d].buffer
    <2>1. \A c \in Seq(Kept) : [From(p) EXCEPT !.buffer = c] \in Entries /\ [From(p) EXCEPT !.buffer = c].buffer = c
      BY <1>1 DEF Entries
    <2>2. [From(p) EXCEPT !.buffer = RemoveAt(@, k)] = [From(p) EXCEPT !.buffer = RemoveAt(b, k)]
      BY DEF From
    <2> DEFINE from == [From(p) EXCEPT !.buffer = RemoveAt(b, k)]
    <2>3. from \in Entries /\ from.buffer = RemoveAt(b, k) /\ SetLink(p, from)
      BY <1>2, <1>3, <2>1, <2>2
    <2> HIDE DEF from
    <2>4. \A c, d \in Ranks : link'[c][d] = IF c = p /\ d = i THEN from ELSE link[c][d]
      BY <1>1, <2>3, SetsAt
    <2> QED BY <2>3, <2>4
  <1> DEFINE v == Received(p, From(p).buffer[k].data)
  <1>5. "SUCCESS" \in Codes /\ v \in Int
    BY <1>1, <1>3, ReceivedValue DEF Codes, From
  <1>6. \/ log'[p] = log[p] /\ IsGroup(Now(p))
        \/ \E e \in Results : /\ log'[p] = Append(log[p], e) /\ e.data = v
                              /\ ~IsGroup(Now(p)) => e.code = "SUCCESS"
    BY <1>1, <1>2, <1>5, AdvancesLog
  <1>7. CASE IsGroup(Now(p))
    <2>1. Step(p).tag \in GroupTags
      BY <1>1, <1>7, StepOK, Kinds DEF GroupSteps
    <2>2. ~(Step(p).tag >= 0)
      BY <2>1 DEF GroupTags, BARRIER, BCAST, REDUCE
    <2>3. ~IsData(b[k])
      BY <1>3, <2>2 DEF ANY, IsData
    <2> QED BY <1>1, <1>3, <1>4, <1>6, <1>7, <2>3
  <1>8. CASE ~IsGroup(Now(p))
    <2>1. /\ Now(p) \in Calls /\ Step(p).do = Now(p).call /\ i = Now(p).peer /\ Step(p).tag = Now(p).tag
      BY <1>1, <1>8, StepOK DEF Source
    <2>2. Now(p).call = "recv" /\ Now(p).tag \in Nat
      BY <1>1, <2>1, Kinds
    <2>3. v = b[k].data
      BY <2>2 DEF Received, From
    <2>4. PICK e \in Results : log'[p] = Append(log[p], e) /\ e.data = v /\ e.code = "SUCCESS"
      BY <1>6, <1>8
    <2>5. e = [code |-> "SUCCESS", data |-> b[k].data]
      BY <2>3, <2>4 DEF Results
    <2>6. IsData(b[k])
      BY <1>3, <2>1, <2>2 DEF IsData
    <2> QED BY <1>1, <1>3, <1>4, <1>8, <2>1, <2>2, <2>4, <2>5, <2>6
  <1> QED BY <1>7, <1>8
(* The first message in the buffer that fits is the first that was sent.   *)
LEMMA FirstIsFirst ==
  ASSUME Shape, OrderInv, NEW p \in Ranks, Looking(p), NEW k \in Match(p), Now(p).tag = Step(p).tag,
         ~Leaving(p), IsData(link[p][Source(p)].buffer[k])
  PROVE  LET i == Source(p)  d == link[p][i].buffer[k].data IN
         /\ d \in Fitting(i, p, Now(p)) \ GotData(p, i)
         /\ \A m \in Fitting(i, p, Now(p)) \ GotData(p, i) : d <= m
  <1> DEFINE i == Source(p)
             b == link[p][i].buffer
             w == pipe[i][p]
             g == GotData(p, i)
             n == Len(log[i])
             t == Step(p).tag
  <1>1. Typed /\ i \in Others(p) /\ i \in Ranks
    BY LookingIn DEF Shape
  <1>2. /\ b \in Seq(Kept) /\ k \in 1 .. Len(b)
        /\ b[k].tag = t \/ (t = ANY /\ b[k].tag >= 0)
        /\ \A l \in 1 .. Len(b) : b[l].tag = t \/ (t = ANY /\ b[l].tag >= 0) => k <= l
    BY Matched DEF From
  <1>3. CallOK(i) /\ n \in Nat /\ DOMAIN program[i] = 1 .. Len(program[i]) /\ Len(program[i]) \in Nat
        /\ n <= Len(program[i])
    BY <1>1, Given, LenProperties DEF Shape, CallOK
  <1>4. Track(p, i, b, w, g, n, Leaving(p))
    BY <1>1 DEF OrderInv, AllOnTheWay, OnTheWay
  <1> HIDE DEF i, b, w, g, n, t
  <1>5. /\ \A l \in 1 .. Len(b) : IsData(b[l]) => Sent(p, i, n, b[l]) /\ b[l].data \notin g
        /\ \A l \in 1 .. Len(w) : IsData(w[l]) => Sent(p, i, n, w[l])
        /\ Ascending(b)
        /\ \A j \in 1 .. Len(b), l \in 1 .. Len(w) : IsData(b[j]) /\ IsData(w[l]) => b[j].data < w[l].data
        /\ \A l \in (1 .. n) \ g : Sends(i, l, p) => HasData(b, l) \/ HasData(w, l)
    BY <1>4 DEF Track
  <1>6. IsData(b[k]) /\ b[k].tag >= 0 /\ Now(p).tag = t
    BY DEF IsData, b, i, t
  <1>7. Sent(p, i, n, b[k]) /\ b[k].data \notin g
    BY <1>2, <1>5, <1>6
  <1>8. b[k].data \in Fitting(i, p, Now(p))
    BY <1>2, <1>3, <1>6, <1>7 DEF Fitting, Sent, Sends
  <1>9. ASSUME NEW m \in Fitting(i, p, Now(p)) \ g PROVE b[k].data <= m
    <2>1. m \in 1 .. Len(program[i]) /\ Sends(i, m, p) /\ t \in {ANY, program[i][m].tag}
      BY <1>3, <1>6 DEF Fitting, Sends
    <2>2. b[k].data \in 1 .. n /\ m \in Nat
      BY <1>7, <2>1 DEF Sent
    <2>3. CASE m > n
      BY <1>3, <2>2, <2>3
    <2>4. CASE HasData(w, m)
      <3>1. PICK l \in 1 .. Len(w) : IsData(w[l]) /\ w[l].data = m
        BY <2>4 DEF HasData
      <3> QED BY <1>2, <1>5, <1>6, <2>2, <3>1
    <2>5. CASE HasData(b, m)
      <3>1. PICK l \in 1 .. Len(b) : IsData(b[l]) /\ b[l].data = m
        BY <2>5 DEF HasData
      <3>2. b[l].tag = program[i][m].tag /\ b[l].tag >= 0
        BY <1>5, <3>1 DEF Sent, IsData
      <3>3. k <= l
        BY <1>2, <2>1, <3>1, <3>2
      <3>4. CASE k = l
        BY <2>2, <3>1, <3>4
      <3>5. CASE k < l
        <4>1. b[k].data < b[l].data
          BY <1>2, <1>5, <1>6, <3>1, <3>5 DEF Ascending
        <4> QED BY <2>2, <3>1, <4>1
      <3> QED BY <1>2, <3>1, <3>3, <3>4, <3>5
    <2>6. m <= n => m \in (1 .. n) \ g
      BY <1>3, <2>1
    <2> QED BY <1>3, <1>5, <2>1, <2>2, <2>3, <2>4, <2>5, <2>6
  <1> QED BY <1>7, <1>8, <1>9 DEF i, b, g

LEMMA TakeOrder ==
  ASSUME Shape, OrderInv, NEW x \in Ranks, Main(x), RecvMessage(x)
  PROVE  AllOnTheWay' /\ NothingFromSelf' /\ \A p, i \in Ranks : Orderly(p, i)'
  <1>0. PICK s \in Ranks : s = Source(x)
    BY TakeHow
  <1> DEFINE b == link[x][s].buffer
             N == Len(log[x])
  <1>1. Typed /\ program' = program /\ Moves(x) /\ \A a \in Ranks : Len(log[a]) \in Nat
    BY MainShape, Given DEF Shape, given
  <1>2. ~SendStep(x) /\ ~Finalize(x) /\ ~Close(x)
    <2>1. Step(x).do = "recv" /\ InCall(x)
      BY LookingIn DEF RecvMessage
    <2> QED BY <2>1 DEF SendStep, Doing, InCall, Finalize, Close
  <1>3. ~Leaving(x) /\ ~Leaving(x)' /\ PipesGrow(QuietTags)
    BY <1>2, LeavingHow, MainQuiet
  <1>4. /\ Looking(x) /\ s \in Others(x) /\ s \in Ranks /\ b \in Seq(Kept)
        /\ \E k \in Match(x) :
              /\ k \in 1 .. Len(b) /\ b[k] \in Kept
              /\ \A c, d \in Ranks : link'[c][d].buffer = IF c = x /\ d = s THEN RemoveAt(b, k)
                                                         ELSE link[c][d].buffer
              /\ IF IsGroup(Now(x)) THEN ~IsData(b[k]) ELSE IsData(b[k])
              /\ ~IsGroup(Now(x)) =>
                   /\ Now(x).call = "recv" /\ Now(x).peer = s /\ Now(x).tag = Step(x).tag
                   /\ log'[x] = Append(log[x], [code |-> "SUCCESS", data |-> b[k].data])
              /\ log'[x] = log[x] \/ \E e \in Results : log'[x] = Append(log[x], e)
    <2>1. /\ Looking(x) /\ Source(x) \in Others(x) /\ Source(x) \in Ranks /\ link[x][Source(x)].buffer \in Seq(Kept)
          /\ \E k \in Match(x) :
                /\ k \in 1 .. Len(link[x][Source(x)].buffer) /\ link[x][Source(x)].buffer[k] \in Kept
                /\ \A c, d \in Ranks : link'[c][d].buffer = IF c = x /\ d = Source(x) THEN RemoveAt(link[x][Source(x)].buffer, k)
                                                           ELSE link[c][d].buffer
                /\ IF IsGroup(Now(x)) THEN ~IsData(link[x][Source(x)].buffer[k]) ELSE IsData(link[x][Source(x)].buffer[k])
                /\ ~IsGroup(Now(x)) =>
                     /\ Now(x).call = "recv" /\ Now(x).peer = Source(x) /\ Now(x).tag = Step(x).tag
                     /\ log'[x] = Append(log[x], [code |-> "SUCCESS", data |-> link[x][Source(x)].buffer[k].data])
                /\ log'[x] = log[x] \/ \E e \in Results : log'[x] = Append(log[x], e)
      BY TakeHow
    <2> QED BY <1>0, <2>1
  <1>5. PICK k \in Match(x) :
              /\ k \in 1 .. Len(b) /\ b[k] \in Kept
              /\ \A c, d \in Ranks : link'[c][d].buffer = IF c = x /\ d = s THEN RemoveAt(b, k)
                                                         ELSE link[c][d].buffer
              /\ IF IsGroup(Now(x)) THEN ~IsData(b[k]) ELSE IsData(b[k])
              /\ ~IsGroup(Now(x)) =>
                   /\ Now(x).call = "recv" /\ Now(x).peer = s /\ Now(x).tag = Step(x).tag
                   /\ log'[x] = Append(log[x], [code |-> "SUCCESS", data |-> b[k].data])
              /\ log'[x] = log[x] \/ \E e \in Results : log'[x] = Append(log[x], e)
    BY <1>4
  <1> DEFINE d == b[k].data
  <1>6. IsData(b[k]) <=> ~IsGroup(Now(x))
    BY <1>5
  <1>7. IsData(b[k]) => /\ d \in Fitting(s, x, Now(x)) \ GotData(x, s)
                        /\ \A m \in Fitting(s, x, Now(x)) \ GotData(x, s) : d <= m
    BY <1>0, <1>3, <1>4, <1>5, <1>6, FirstIsFirst
  <1>8. d \in Int
    BY <1>5 DEF Kept
  <1> HIDE DEF b, N
  <1>9. /\ \A p \in Ranks, i \in Ranks :
             GotData(p, i)' = IF p = x /\ i = s /\ IsData(b[k]) THEN GotData(p, i) \cup {d} ELSE GotData(p, i)
        /\ \A p \in Ranks, i \in Ranks : Orderly(p, i)'
        /\ \A p \in Ranks : Got(p, p)' = {}
    <2>1. ASSUME NEW p \in Others(x), NEW i \in Ranks
          PROVE  GotData(p, i)' = GotData(p, i) /\ Orderly(p, i)' /\ Got(p, i)' = Got(p, i)
      <3>1. log'[p] = log[p] /\ p \in Ranks
        BY <1>1 DEF Moves, Others
      <3> QED BY <1>1, <3>1, SameGot DEF OrderInv
    <2>2. ASSUME NEW i \in Ranks, log'[x] = log[x]
          PROVE  GotData(x, i)' = GotData(x, i) /\ Orderly(x, i)' /\ Got(x, i)' = Got(x, i)
      BY <1>1, <2>2, SameGot DEF OrderInv
    <2>3. ASSUME NEW i \in Ranks, NEW e \in Results, log'[x] = Append(log[x], e), ~Gets(x, i, e)
          PROVE  GotData(x, i)' = GotData(x, i) /\ Orderly(x, i)' /\ Got(x, i)' = Got(x, i)
      BY <1>1, <2>3, LongerLog DEF OrderInv
    <2>4. ASSUME IsData(b[k])
          PROVE  GotData(x, s)' = GotData(x, s) \cup {d} /\ Orderly(x, s)'
      <3>0. [code |-> "SUCCESS", data |-> d] \in Results
        BY <1>8 DEF Results, Codes
      <3>1. PICK e \in Results : log'[x] = Append(log[x], e) /\ e.data = d /\ e.code = "SUCCESS"
        BY <1>5, <1>6, <2>4, <3>0
      <3>2. d # Nothing
        <4>1. d \in DOMAIN program[s] /\ DOMAIN program[s] = 1 .. Len(program[s]) /\ Len(program[s]) \in Nat
          BY <1>1, <1>4, <1>7, <2>4, Given, LenProperties DEF Fitting
        <4> QED BY <4>1 DEF Nothing
      <3>3. Gets(x, s, e)
        BY <1>5, <1>6, <2>4, <3>1, <3>2 DEF Gets
      <3> HIDE DEF d
      <3>4. e.data \in Fitting(s, x, Now(x)) \ GotData(x, s)
        BY <1>7, <2>4, <3>1
      <3>5. \A m \in Fitting(s, x, Now(x)) \ GotData(x, s) : e.data <= m
        BY <1>7, <2>4, <3>1
      <3>6. Orderly(x, s)
        BY <1>4 DEF OrderInv
      <3>7. Orderly(x, s)'
        BY <1>1, <1>4, <3>1, <3>3, <3>4, <3>5, <3>6, LongerLog
      <3>8. GotData(x, s)' = GotData(x, s) \cup {e.data}
        BY <1>1, <1>4, <3>1, <3>3, LongerLog
      <3> QED BY <3>1, <3>7, <3>8
    <2>5. ASSUME NEW i \in Ranks, i # s \/ ~IsData(b[k])
          PROVE  GotData(x, i)' = GotData(x, i) /\ Orderly(x, i)' /\ Got(x, i)' = Got(x, i)
      <3>1. \A e : ~Gets(x, i, e)
        BY <1>5, <1>6, <2>5 DEF Gets, IsGroup
      <3> QED BY <1>5, <2>2, <2>3, <3>1
    <2>6. x # s /\ \A p \in Ranks : p = x \/ p \in Others(x)
      BY <1>4 DEF Others
    <2> HIDE DEF d
    <2>7. ASSUME NEW p \in Ranks, NEW i \in Ranks
          PROVE  /\ GotData(p, i)' = IF p = x /\ i = s /\ IsData(b[k]) THEN GotData(p, i) \cup {d} ELSE GotData(p, i)
                 /\ Orderly(p, i)'
      <3>1. CASE p \in Others(x)
        BY <2>1, <2>6, <3>1 DEF Others
      <3>2. CASE p = x /\ i = s /\ IsData(b[k])
        BY <2>4, <3>2
      <3>3. CASE p = x /\ ~(i = s /\ IsData(b[k]))
        BY <2>5, <3>3
      <3> QED BY <2>6, <3>1, <3>2, <3>3
    <2>8. ASSUME NEW p \in Ranks PROVE Got(p, p)' = {}
      <3>1. Got(p, p) = {}
        BY DEF OrderInv, NothingFromSelf
      <3>2. CASE p \in Others(x)
        BY <2>1, <3>1, <3>2
      <3>3. CASE p = x
        BY <2>5, <2>6, <3>1, <3>3
      <3> QED BY <2>6, <3>2, <3>3
    <2> QED BY <2>7, <2>8
  <1>10. \A i \in Ranks : /\ Len(log'[i]) \in Nat /\ Len(log[i]) <= Len(log'[i])
                          /\ \A l \in Len(log[i]) + 1 .. Len(log'[i]) : \A p \in Ranks : ~Sends(i, l, p)
                          /\ i # x => Len(log'[i]) = Len(log[i])
    <2>1. ASSUME NEW i \in Others(x) PROVE log'[i] = log[i] /\ Len(log[i]) \in Nat
      BY <1>1 DEF Moves, Others
    <2>2. Len(log'[x]) = N \/ Len(log'[x]) = N + 1
      <3>1. log[x] \in Seq(Results)
        BY <1>1 DEF Typed
      <3> QED BY <1>5, <3>1, AppendProperties DEF N
    <2>3. \A p \in Ranks : ~Sends(x, N + 1, p)
      BY <1>5 DEF Sends, N, Now, IsGroup
    <2>4. N \in Nat /\ \A l \in N + 1 .. N + 1 : l = N + 1
      BY <1>1 DEF N
    <2>5. /\ Len(log'[x]) \in Nat /\ N <= Len(log'[x])
          /\ \A l \in N + 1 .. Len(log'[x]) : \A p \in Ranks : ~Sends(x, l, p)
      BY <2>2, <2>3, <2>4
    <2>6. \A i \in Ranks : i = x \/ i \in Others(x)
      BY DEF Others
    <2> QED BY <2>1, <2>5, <2>6 DEF N
  <1>11. ASSUME NEW p \in Ranks, NEW i \in Others(p) PROVE OnTheWay(p, i)'
    <2>1. i \in Ranks /\ pipe[i][p] \in Seq(Messages) /\ Len(log[i]) \in Nat
      BY <1>1 DEF Others, Typed
    <2>2. PICK ms \in Seq(Tagged(QuietTags)) : pipe'[i][p] = pipe[i][p] \o ms
      BY <1>3, <2>1 DEF PipesGrow
    <2>3. ms \in Seq(Messages) /\ Ascending(ms) /\ \A j \in 1 .. Len(ms) : ~IsData(ms[j])
      BY NoData
    <2> DEFINE c2 == link'[p][i].buffer
               l == Leaving(p)
               l2 == Leaving(p)'
               n == Len(log[i])
               n2 == Len(log'[i])
               g2 == GotData(p, i)'
               w == pipe[i][p]
    <2>4. Track(p, i, c2, w, g2, n, l)
      <3>1. Track(p, i, link[p][i].buffer, w, GotData(p, i), n, l)
        BY DEF OrderInv, AllOnTheWay, OnTheWay
      <3>2. CASE p = x /\ i = s
        <4>1. c2 = RemoveAt(b, k) /\ k \in 1 .. Len(b) /\ b \in Seq(Kept)
          BY <1>4, <1>5, <2>1, <3>2
        <4>2. g2 = IF IsData(b[k]) THEN GotData(p, i) \cup {b[k].data} ELSE GotData(p, i)
          BY <1>9, <2>1, <3>2
        <4>3. Track(p, i, b, w, GotData(p, i), n, l)
          BY <3>1, <3>2 DEF b
        <4>4. n \in Nat
          BY <2>1
        <4> HIDE DEF c2, l, n, g2, w
        <4> QED BY <4>1, <4>2, <4>3, <4>4, TrackTaken
      <3>3. CASE ~(p = x /\ i = s)
        <4>1. c2 = link[p][i].buffer /\ g2 = GotData(p, i)
          BY <1>5, <1>9, <2>1, <3>3
        <4> QED BY <3>1, <4>1
      <3> QED BY <3>2, <3>3
    <2>5. /\ w \in Seq(Messages) /\ n \in Nat /\ n2 \in Nat /\ n <= n2
          /\ \A j \in n + 1 .. n2 : ~Sends(i, j, p)
      BY <1>10, <2>1
    <2>6. l => l2
      BY <1>3, LeavingHow DEF Others
    <2> HIDE DEF c2, l, l2, n, n2, g2, w
    <2>7. Track(p, i, c2, w \o ms, g2, n2, l2)
      BY <2>3, <2>4, <2>5, <2>6, TrackGrows
    <2>8. Track(p, i, link'[p][i].buffer, pipe'[i][p], GotData(p, i)', Len(log'[i]), Leaving(p)')
      BY <2>2, <2>7 DEF c2, l2, n2, g2, w
    <2> QED BY <1>1, <2>8, TrackNext
  <1> QED BY <1>9, <1>11 DEF AllOnTheWay, NothingFromSelf
LEMMA DeliverHow ==
  ASSUME NEW from \in Entries, NEW m \in Messages
  PROVE  LET d == Deliver(from, m) IN
         /\ d.finished => from.finished \/ m.tag = FINISHED
         /\ \/ d.buffer = from.buffer /\ ~IsData(m)
            \/ d.buffer = Append(from.buffer, m) /\ m \in Kept
         /\ d.barrier => from.barrier \/ m.tag = BARRIER
         /\ m.tag = BARRIER => d.barrier
  <1> DEFINE d == Deliver(from, m)
  <1>1. \/ /\ m.tag \in {DEADLOCK, WAITING, SERVED, FINISHED, BARRIER}
           /\ \/ d = [from EXCEPT !.deadlock = TRUE]
              \/ d = [from EXCEPT !.waiting = TRUE]
              \/ d = [from EXCEPT !.waiting = FALSE]
              \/ d = [from EXCEPT !.finished = TRUE] /\ m.tag = FINISHED
              \/ d = [from EXCEPT !.barrier = TRUE] /\ m.tag = BARRIER
           /\ m.tag = BARRIER => d = [from EXCEPT !.barrier = TRUE]
        \/ /\ m.tag \notin {FINISHED, BARRIER}
           /\ d = [from EXCEPT !.buffer = Append(from.buffer, m)]
    BY DEF Deliver, DEADLOCK, WAITING, SERVED, FINISHED, BARRIER
  <1> HIDE DEF d
  <1>2. CASE /\ m.tag \in {DEADLOCK, WAITING, SERVED, FINISHED, BARRIER}
             /\ \/ d = [from EXCEPT !.deadlock = TRUE]
                \/ d = [from EXCEPT !.waiting = TRUE]
                \/ d = [from EXCEPT !.waiting = FALSE]
                \/ d = [from EXCEPT !.finished = TRUE] /\ m.tag = FINISHED
                \/ d = [from EXCEPT !.barrier = TRUE] /\ m.tag = BARRIER
             /\ m.tag = BARRIER => d = [from EXCEPT !.barrier = TRUE]
    <2>1. ~IsData(m)
      BY <1>2 DEF IsData, DEADLOCK, WAITING, SERVED, FINISHED, BARRIER
    <2>2. d.buffer = from.buffer
      BY <1>2 DEF Entries
    <2>3. d.finished => from.finished \/ m.tag = FINISHED
      BY <1>2 DEF Entries
    <2>4. (d.barrier => from.barrier \/ m.tag = BARRIER) /\ (m.tag = BARRIER => d.barrier)
      BY <1>2 DEF Entries
    <2> QED BY <2>1, <2>2, <2>3, <2>4 DEF d
  <1>3. CASE m.tag \notin {FINISHED, BARRIER} /\ d = [from EXCEPT !.buffer = Append(from.buffer, m)]
    <2>1. m \in Kept
      BY <1>3 DEF Messages, Kept
    <2>2. d.buffer = Append(from.buffer, m) /\ d.finished = from.finished /\ d.barrier = from.barrier
      BY <1>3 DEF Entries
    <2> QED BY <1>3, <2>1, <2>2 DEF d
  <1> QED BY <1>1, <1>2, <1>3

(* A receiver thread puts what comes next at the end of the buffer.        *)
LEMMA ReceiveOrder ==
  ASSUME Shape, OrderInv, NEW r \in Ranks, NEW f \in Ranks, Receive(r, f)
  PROVE  OrderInv'
  <1> DEFINE m == Head(pipe[f][r])
  <1>1. Typed
    BY DEF Shape
  <1>2. /\ program' = program /\ log' = log
        /\ pipe[f][r] \in Seq(Messages) /\ pipe[f][r] # <<>> /\ m \in Messages /\ link[r][f] \in Entries
        /\ \A a, b \in Ranks : link'[a][b] = IF a = r /\ b = f THEN Deliver(link[r][f], m) ELSE link[a][b]
        /\ \A a, b \in Ranks : pipe'[a][b] = IF a = f /\ b = r THEN Tail(pipe[f][r]) ELSE pipe[a][b]
        /\ \A q \in Ranks : Leaving(q)' <=> Leaving(q)
    <2>1. \A q \in Ranks : phase'[q] = phase[q] \/ (phase[q] = "wait" /\ phase'[q] = "woken")
      BY <1>1, ReceiveHow DEF Woken
    <2>2. \A q \in Ranks : Leaving(q)' <=> Leaving(q)
      BY <2>1 DEF Leaving
    <2> QED BY <1>1, <2>2, ReceiveHow DEF given
  <1> DEFINE d == Deliver(link[r][f], m)
  <1>3. /\ d.finished => link[r][f].finished \/ m.tag = FINISHED
        /\ \/ d.buffer = link[r][f].buffer /\ ~IsData(m)
           \/ d.buffer = Append(link[r][f].buffer, m) /\ m \in Kept
    BY <1>2, DeliverHow
  <1>4. /\ m = pipe[f][r][1] /\ 1 \in 1 .. Len(pipe[f][r])
        /\ \A k \in 1 .. Len(Tail(pipe[f][r])) : k + 1 \in 1 .. Len(pipe[f][r]) /\ Tail(pipe[f][r])[k] = pipe[f][r][k + 1]
    BY <1>2, Nexts
  <1> HIDE DEF d, m
  <1>5. ASSUME NEW p \in Ranks, NEW i \in Ranks PROVE Farewell(p, i)'
    <2>1. Farewell(p, i) /\ Farewell(f, r) /\ (Leaving(p)' <=> Leaving(p))
      BY <1>2 DEF OrderInv, Farewells
    <2>2. CASE p = f /\ i = r
      <3>1. link'[i][p].finished => Leaving(p)
        BY <1>2, <1>3, <1>4, <2>1, <2>2 DEF Farewell, d
      <3>2. (\E k \in 1 .. Len(pipe'[p][i]) : pipe'[p][i][k].tag = FINISHED) => Leaving(p)
        <4> SUFFICES ASSUME NEW k \in 1 .. Len(pipe'[f][r]), pipe'[f][r][k].tag = FINISHED PROVE Leaving(f)
          BY <2>2
        <4>1. k + 1 \in 1 .. Len(pipe[f][r]) /\ pipe[f][r][k + 1].tag = FINISHED
          BY <1>2, <1>4
        <4> QED BY <2>1, <4>1 DEF Farewell
      <3> QED BY <2>1, <3>1, <3>2 DEF Farewell
    <2>3. CASE ~(p = f /\ i = r)
      <3>1. link'[i][p] = link[i][p] /\ pipe'[p][i] = pipe[p][i]
        BY <1>2, <2>3
      <3> QED BY <2>1, <3>1 DEF Farewell
    <2> QED BY <2>2, <2>3
  <1>6. \A p, i \in Ranks : Got(p, i)' = Got(p, i) /\ GotData(p, i)' = GotData(p, i) /\ (Orderly(p, i)' <=> Orderly(p, i))
    BY <1>2, SameGot
  <1>7. ASSUME NEW p \in Ranks, NEW i \in Others(p) PROVE OnTheWay(p, i)'
    <2>1. i \in Ranks /\ Len(log[i]) \in Nat /\ (Leaving(p)' <=> Leaving(p))
      BY <1>1, <1>2, Given DEF Others
    <2> DEFINE l == Leaving(p)
               l2 == Leaving(p)'
               n == Len(log[i])
               g == GotData(p, i)
    <2>2. Track(p, i, link[p][i].buffer, pipe[i][p], g, n, l)
      BY DEF OrderInv, AllOnTheWay, OnTheWay
    <2>3. n \in Nat /\ (l2 <=> l)
      BY <2>1
    <2> HIDE DEF l, l2, n, g
    <2>4. Track(p, i, link'[p][i].buffer, pipe'[i][p], g, n, l)
      <3>1. CASE p = r /\ i = f
        <4>1. link[p][i].buffer \in Seq(Kept)
          BY <1>2, <3>1 DEF Entries
        <4>2. link'[p][i].buffer = d.buffer /\ pipe'[i][p] = Tail(pipe[i][p])
          BY <1>2, <2>1, <3>1 DEF d
        <4>3. \/ d.buffer = link[p][i].buffer /\ ~IsData(Head(pipe[i][p]))
              \/ d.buffer = Append(link[p][i].buffer, Head(pipe[i][p])) /\ Head(pipe[i][p]) \in Kept
          BY <1>3, <3>1 DEF m
        <4>4. pipe[i][p] \in Seq(Messages) /\ pipe[i][p] # <<>>
          BY <1>2, <3>1
        <4> DEFINE c == d.buffer
                   b == link[p][i].buffer
                   w == pipe[i][p]
        <4>5. /\ Track(p, i, b, w, g, n, l) /\ b \in Seq(Kept) /\ w \in Seq(Messages) /\ w # <<>>
              /\ (c = b /\ ~IsData(Head(w))) \/ (c = Append(b, Head(w)) /\ Head(w) \in Kept)
          BY <2>2, <4>1, <4>3, <4>4
        <4> HIDE DEF c, b, w
        <4>6. Track(p, i, c, Tail(w), g, n, l)
          BY <2>3, <4>5, TrackMoves
        <4> QED BY <4>2, <4>6 DEF c, w
      <3>2. CASE ~(p = r /\ i = f)
        BY <1>2, <2>1, <2>2, <3>2
      <3> QED BY <3>1, <3>2
    <2>5. Track(p, i, link'[p][i].buffer, pipe'[i][p], g, n, l2)
      BY <2>3, <2>4 DEF Track
    <2>6. Track(p, i, link'[p][i].buffer, pipe'[i][p], GotData(p, i)', Len(log'[i]), Leaving(p)')
      BY <1>2, <1>6, <2>1, <2>5 DEF g, n, l2
    <2> QED BY <1>2, <2>6, TrackNext
  <1> QED BY <1>5, <1>6, <1>7 DEF OrderInv, Farewells, AllOnTheWay, NothingFromSelf

LEMMA CloseHow ==
  ASSUME Shape, NEW x \in Ranks, Close(x)
  PROVE  /\ log' = log /\ link' = link /\ phase[x] = "closing"
         /\ \A a, b \in Ranks : pipe'[a][b] = IF b = x THEN <<>> ELSE pipe[a][b]
  <1>1. /\ log' = log /\ link' = link /\ phase[x] = "closing"
        /\ pipe' = [q \in Ranks |-> [pipe[q] EXCEPT ![x] = <<>>]]
    BY DEF Close, history
  <1> QED BY <1>1 DEF Shape, Typed

LEMMA CloseOrder ==
  ASSUME Shape, OrderInv, NEW x \in Ranks, Main(x), Close(x)
  PROVE  AllOnTheWay'
  <1>1. /\ program' = program /\ log' = log /\ link' = link
        /\ \A a, b \in Ranks : pipe'[a][b] = IF b = x THEN <<>> ELSE pipe[a][b]
        /\ Leaving(x)' /\ \A q \in Others(x) : Leaving(q)' <=> Leaving(q)
    BY MainShape, CloseHow, LeavingHow DEF given
  <1> SUFFICES ASSUME NEW p \in Ranks, NEW i \in Others(p) PROVE OnTheWay(p, i)'
    BY DEF AllOnTheWay
  <1>2. i \in Ranks /\ Len(log[i]) \in Nat /\ GotData(p, i)' = GotData(p, i)
    BY <1>1, Given, SameGot DEF Others, Shape
  <1> DEFINE l == Leaving(p)
             l2 == Leaving(p)'
             n == Len(log[i])
             g == GotData(p, i)
             b == link[p][i].buffer
             w == pipe[i][p]
  <1>3. Track(p, i, b, w, g, n, l) /\ n \in Nat
    BY <1>2 DEF OrderInv, AllOnTheWay, OnTheWay
  <1>4. p # x => (l2 <=> l)
    BY <1>1 DEF Others
  <1>5. p = x => l2
    BY <1>1
  <1> HIDE DEF l, l2, n, g, b, w
  <1>6. Track(p, i, b, pipe'[i][p], g, n, l2)
    <2>1. CASE p = x
      <3>1. Track(p, i, b, <<>>, g, n, TRUE)
        BY <1>3, TrackCut
      <3>2. pipe'[i][p] = <<>>
        BY <1>1, <1>2, <2>1
      <3> QED BY <1>5, <2>1, <3>1, <3>2 DEF Track
    <2>2. CASE p # x
      <3>1. pipe'[i][p] = w
        BY <1>1, <1>2, <2>2 DEF w
      <3> QED BY <1>3, <1>4, <2>2, <3>1 DEF Track
    <2> QED BY <2>1, <2>2
  <1>7. Track(p, i, link'[p][i].buffer, pipe'[i][p], GotData(p, i)', Len(log'[i]), Leaving(p)')
    BY <1>1, <1>2, <1>6 DEF l2, n, g, b
  <1> QED BY <1>1, <1>7, TrackNext

(* Only MIMPI_Finalize says that a process has finished.                   *)
LEMMA FarewellsKept ==
  ASSUME Shape, Farewells, NEW x \in Ranks, Main(x)
  PROVE  Farewells'
  <1>1. Typed
    BY DEF Shape
  <1>2. \A q \in Ranks : Leaving(q) => Leaving(q)'
    BY LeavingHow DEF Others
  <1> SUFFICES ASSUME NEW p \in Ranks, NEW i \in Ranks PROVE Farewell(p, i)'
    BY DEF Farewells
  <1>3. link'[i][p].finished = link[i][p].finished /\ Farewell(p, i)
    BY LinkHow DEF Farewells
  <1>4. CASE ~Finalize(x) /\ ~Close(x)
    <2>1. PICK ms \in Seq(Tagged(Tags \ {FINISHED})) : pipe'[p][i] = pipe[p][i] \o ms
      BY <1>4, AnyGrows DEF PipesGrow
    <2>2. ms \in Seq(Messages) /\ \A k \in 1 .. Len(ms) : ms[k].tag # FINISHED
      BY TaggedMessages
    <2>3. pipe[p][i] \in Seq(Messages)
      BY <1>1 DEF Typed
    <2>4. /\ \A k \in 1 .. Len(pipe[p][i]) : (pipe[p][i] \o ms)[k] = pipe[p][i][k]
          /\ \A k \in 1 .. Len(ms) : (pipe[p][i] \o ms)[Len(pipe[p][i]) + k] = ms[k]
          /\ \A k \in 1 .. Len(pipe[p][i] \o ms) :
               k \in 1 .. Len(pipe[p][i]) \/ \E j \in 1 .. Len(ms) : k = Len(pipe[p][i]) + j
      BY ONLY <2>2, <2>3, Joins
    <2>5. ASSUME NEW k \in 1 .. Len(pipe'[p][i]), pipe'[p][i][k].tag = FINISHED PROVE Leaving(p)
      <3>1. k \in 1 .. Len(pipe[p][i])
        <4> SUFFICES ASSUME k \notin 1 .. Len(pipe[p][i]) PROVE FALSE
          OBVIOUS
        <4>1. PICK j \in 1 .. Len(ms) : k = Len(pipe[p][i]) + j
          BY <2>1, <2>4, <2>5
        <4>2. pipe'[p][i][k] = ms[j]
          BY <2>1, <2>4, <4>1
        <4> QED BY <2>2, <2>5, <4>1, <4>2
      <3>2. pipe[p][i][k].tag = FINISHED
        BY <2>1, <2>4, <2>5, <3>1
      <3> QED BY <1>3, <3>1, <3>2 DEF Farewell
    <2> QED BY <1>2, <1>3, <2>5 DEF Farewell
  <1>5. CASE Finalize(x)
    <2>1. CASE p = x
      BY <1>5, <2>1, LeavingHow DEF Farewell
    <2>2. CASE p # x
      <3>1. pipe'[p][i] = pipe[p][i]
        BY <1>1, <1>5, <2>2 DEF Finalize, Typed
      <3> QED BY <1>2, <1>3, <3>1 DEF Farewell
    <2> QED BY <2>1, <2>2
  <1>6. CASE Close(x)
    <2>1. pipe'[p][i] = <<>> \/ pipe'[p][i] = pipe[p][i]
      BY <1>6, CloseHow
    <2> QED BY <1>2, <1>3, <2>1 DEF Farewell
  <1> QED BY <1>4, <1>5, <1>6

LEMMA NextOrder == Shape /\ OrderInv /\ [Next]_vars => OrderInv'
  <1> SUFFICES ASSUME Shape, OrderInv, [Next]_vars PROVE OrderInv'
    OBVIOUS
  <1>1. CASE UNCHANGED vars
    <2>1. /\ program' = program /\ log' = log /\ link' = link /\ pipe' = pipe /\ phase' = phase
      BY <1>1 DEF vars
    <2>2. \A p, i \in Ranks : Got(p, i)' = Got(p, i) /\ GotData(p, i)' = GotData(p, i) /\ (Orderly(p, i)' <=> Orderly(p, i))
      BY <2>1, SameGot
    <2>3. \A p \in Ranks : \A i \in Others(p) : OnTheWay(p, i)'
      <3> SUFFICES ASSUME NEW p \in Ranks, NEW i \in Others(p) PROVE OnTheWay(p, i)'
        OBVIOUS
      <3>1. OnTheWay(p, i) /\ GotData(p, i)' = GotData(p, i)
        BY <2>2 DEF OrderInv, AllOnTheWay, Others
      <3> QED BY <2>1, <3>1 DEF OnTheWay, Track, Sent, Sends, Leaving
    <2>4. Farewells'
      BY <2>1 DEF OrderInv, Farewells, Farewell, Leaving
    <2> QED BY <2>2, <2>3, <2>4 DEF OrderInv, AllOnTheWay, NothingFromSelf
  <1>2. ASSUME NEW x \in Ranks, Main(x) PROVE OrderInv'
    <2>1. Farewells'
      BY <1>2, FarewellsKept DEF OrderInv
    <2>2. CASE RecvMessage(x)
      BY <1>2, <2>1, <2>2, TakeOrder DEF OrderInv
    <2>3. CASE ~RecvMessage(x)
      <3>1. \A p, i \in Ranks : Got(p, i)' = Got(p, i) /\ Orderly(p, i)'
        BY <1>2, <2>3, SameData DEF OrderInv
      <3>2. AllOnTheWay'
        BY <1>2, <2>3, QuietOrder, SendOrder, CloseOrder
      <3> QED BY <2>1, <3>1, <3>2 DEF OrderInv, NothingFromSelf
    <2> QED BY <2>2, <2>3
  <1> QED BY <1>1, <1>2, ReceiveOrder DEF Next

LEMMA InitOrder == Init => OrderInv
  <1> SUFFICES ASSUME Init PROVE OrderInv
    OBVIOUS
  <1>1. /\ \A p \in Ranks : log[p] = <<>> /\ phase[p] = "idle"
        /\ \A p, i \in Ranks : pipe[p][i] = <<>> /\ link[p][i].buffer = <<>> /\ ~link[p][i].finished
    BY DEF Init
  <1>2. DOMAIN <<>> = {} /\ Len(<<>>) = 0
    OBVIOUS
  <1>3. \A p, i \in Ranks : Got(p, i) = {}
    BY <1>1, <1>2 DEF Got
  <1>4. \A p, i \in Ranks : GotData(p, i) = {} /\ Orderly(p, i)
    BY <1>3 DEF GotData, Orderly
  <1>5. \A p, i \in Ranks : Track(p, i, <<>>, <<>>, {}, 0, Leaving(p))
    BY <1>2 DEF Track, Ascending
  <1>6. AllOnTheWay
    BY <1>1, <1>2, <1>4, <1>5 DEF AllOnTheWay, OnTheWay, Others
  <1>7. Farewells
    BY <1>1, <1>2 DEF Farewells, Farewell
  <1> QED BY <1>3, <1>4, <1>6, <1>7 DEF OrderInv, NothingFromSelf

(* MIMPI_Recv takes the messages of a sender in the order in which they    *)
(* were sent, the first one that fits, whatever processes send and receive *)
(* and however receiver threads get ahead of MIMPI_Recv or fall behind.    *)
THEOREM MessagesInOrder == Spec => []ReceivesInOrder
  <1>1. OrderInv => ReceivesInOrder
    BY DEF OrderInv, Orderly, ReceivesInOrder
  <1> QED BY <1>1, InitShape, NextShape, InitOrder, NextOrder, PTL DEF Spec
-----------------------------------------------------------------------------
(* The barrier: the steps of a call of MIMPI_Barrier.                      *)

Up(p) == (p - 1) \div 2
Kids(p) == {y \in Ranks : y # 0 /\ Up(y) = p}
Ups(p) == IF p = 0 THEN {} ELSE {Up(p)}

LEMMA Ways ==
  ASSUME NEW p \in Ranks
  PROVE  /\ 0 \in Ranks /\ \A q \in Ranks : q \in Nat /\ (q # 0 => Up(q) \in Ranks /\ Up(q) < q)
         /\ Kids(p) = {2 * p + 1, 2 * p + 2} \cap Ranks
         /\ \A y \in Kids(p) : y \notin Ups(p) /\ y \in Ranks
         /\ Ups(p) \subseteq Ranks
  <1>1. 0 \in Ranks /\ \A q \in Ranks : q \in Nat /\ (q # 0 => Up(q) \in Ranks /\ Up(q) < q)
    BY DEF Ranks, Up
  <1>2. \A y \in Ranks : y # 0 /\ Up(y) = p <=> y = 2 * p + 1 \/ y = 2 * p + 2
    BY DEF Ranks, Up
  <1>3. \A y \in Kids(p) : y \notin Ups(p)
    BY <1>1 DEF Kids, Ups
  <1> QED BY <1>1, <1>2, <1>3 DEF Kids, Ups

Steps4(do, S) == [do : {do}, peer : S, tag : {BARRIER}]

(* A call takes from the neighbours x before it sends to y, but for the    *)
(* parent, which it answers to.                                            *)
InTurn(p, a, b) ==
  /\ ~(a.do = b.do /\ a.peer = b.peer)
  /\ a.do = "send" /\ b.do = "recv" => p # 0 /\ a.peer = Up(p) /\ b.peer = Up(p)

Arranged(p, s) == \A k, l \in 1 .. Len(s) : k < l => InTurn(p, s[k], s[l])

(* Steps of A may come before steps of B.                                  *)
Precede(p, A, B) == \A a \in A, b \in B : InTurn(p, a, b)

(* Everything in s is in t.                                                *)
Within(s, t) == \A k \in 1 .. Len(s) : \E j \in 1 .. Len(t) : t[j] = s[k]

LEMMA JoinsArranged ==
  ASSUME NEW p, NEW A, NEW B, NEW s \in Seq(A), NEW t \in Seq(B), Arranged(p, s), Arranged(p, t),
         Precede(p, A, B)
  PROVE  /\ Arranged(p, s \o t)
         /\ Within(s, s \o t) /\ Within(t, s \o t)
  <1>0. s \in Seq(A \cup B) /\ t \in Seq(A \cup B)
    OBVIOUS
  <1>1. /\ s \o t \in Seq(A \cup B) /\ Len(s \o t) = Len(s) + Len(t) /\ Len(s) \in Nat /\ Len(t) \in Nat
        /\ \A k \in 1 .. Len(s) : k \in 1 .. Len(s \o t) /\ (s \o t)[k] = s[k]
        /\ \A k \in 1 .. Len(t) : Len(s) + k \in 1 .. Len(s \o t) /\ (s \o t)[Len(s) + k] = t[k]
        /\ \A k \in 1 .. Len(s \o t) : k \in 1 .. Len(s) \/ \E j \in 1 .. Len(t) : k = Len(s) + j
    BY ONLY <1>0, Joins
  <1>2. (\A k \in 1 .. Len(s) : s[k] \in A) /\ (\A k \in 1 .. Len(t) : t[k] \in B)
    OBVIOUS
  <1> DEFINE u == s \o t
  <1>3. ASSUME NEW k \in 1 .. Len(u), NEW l \in 1 .. Len(u), k < l
        PROVE  InTurn(p, u[k], u[l])
    <2>1. CASE k \in 1 .. Len(s) /\ l \in 1 .. Len(s)
      BY <1>1, <1>3, <2>1 DEF Arranged
    <2>2. CASE k \in 1 .. Len(s) /\ \E j \in 1 .. Len(t) : l = Len(s) + j
      BY <1>1, <1>2, <2>2 DEF Precede
    <2>3. CASE \E j \in 1 .. Len(t) : k = Len(s) + j
      <3>1. PICK j \in 1 .. Len(t) : k = Len(s) + j
        BY <2>3
      <3>2. l \notin 1 .. Len(s)
        BY <1>1, <1>3, <3>1
      <3>3. PICK h \in 1 .. Len(t) : l = Len(s) + h
        BY <1>1, <3>2
      <3>4. j < h
        BY <1>1, <1>3, <3>1, <3>3
      <3>5. u[k] = t[j] /\ u[l] = t[h]
        BY <1>1, <3>1, <3>3
      <3> QED BY <3>4, <3>5 DEF Arranged
    <2> QED BY <1>1, <2>1, <2>2, <2>3
  <1> QED BY <1>1, <1>3 DEF Arranged, Within

LEMMA Couples ==
  ASSUME NEW a, NEW b
  PROVE  LET s == <<a>> \o <<b>> IN
         /\ s \in Seq({a, b}) /\ Len(s) = 2 /\ s[1] = a /\ s[2] = b /\ 1 \in 1 .. Len(s) /\ 2 \in 1 .. Len(s)
         /\ \A k \in 1 .. Len(s) : k = 1 \/ k = 2
  <1>1. /\ <<a>> \in Seq({a, b}) /\ <<b>> \in Seq({a, b}) /\ Len(<<a>>) = 1 /\ Len(<<b>>) = 1
        /\ <<a>>[1] = a /\ <<b>>[1] = b
    OBVIOUS
  <1>2. ASSUME NEW S, NEW s \in Seq(S), NEW t \in Seq(S), Len(s) = 1, Len(t) = 1, s[1] = a, t[1] = b
        PROVE  s \o t \in Seq(S) /\ Len(s \o t) = 2 /\ (s \o t)[1] = a /\ (s \o t)[2] = b
    <2>1. s \o t \in Seq(S) /\ Len(s \o t) = Len(s) + Len(t)
      OBVIOUS
    <2>2. \A k \in 1 .. Len(s) + Len(t) : (s \o t)[k] = IF k <= Len(s) THEN s[k] ELSE t[k - Len(s)]
      OBVIOUS
    <2> QED BY <1>2, <2>1, <2>2
  <1>3. /\ <<a>> \o <<b>> \in Seq({a, b}) /\ Len(<<a>> \o <<b>>) = 2
        /\ (<<a>> \o <<b>>)[1] = a /\ (<<a>> \o <<b>>)[2] = b
    BY ONLY <1>1, <1>2
  <1>4. 1 \in 1 .. 2 /\ 2 \in 1 .. 2 /\ \A k \in 1 .. 2 : k = 1 \/ k = 2
    OBVIOUS
  <1> QED BY <1>3, <1>4

(* c has the members of K, the first of a and b, in this order.            *)
FirstOf(c, K, a, b) ==
  \/ c = <<>> /\ K = {}
  \/ c = <<a>> /\ K = {a}
  \/ c = <<a>> \o <<b>> /\ K = {a, b}

LEMMA AtMostTwo ==
  ASSUME NEW c, NEW K, NEW a, NEW b, a # b, FirstOf(c, K, a, b)
  PROVE  /\ c \in Seq(K)
         /\ \A k, l \in 1 .. Len(c) : k < l => c[k] # c[l]
         /\ \A y \in K : \E k \in 1 .. Len(c) : c[k] = y
         /\ c # <<a>> \o <<b>> => Len(c) \in 0 .. 1
  <1>1. CASE c = <<>> /\ K = {}
    <2>1. c \in Seq(K) /\ Len(c) = 0 /\ \A k \in 1 .. Len(c) : FALSE
      BY <1>1
    <2> QED BY <1>1, <2>1
  <1>2. CASE c = <<a>> /\ K = {a}
    <2>1. /\ <<a>> \in Seq({a}) /\ Len(<<a>>) = 1 /\ 1 \in 1 .. Len(<<a>>)
          /\ \A k \in 1 .. Len(<<a>>) : k = 1 /\ <<a>>[k] = a
      <3>1. <<a>> \in Seq({a}) /\ Len(<<a>>) = 1 /\ <<a>>[1] = a
        OBVIOUS
      <3>2. 1 \in 1 .. 1 /\ \A k \in 1 .. 1 : k = 1
        OBVIOUS
      <3> QED BY <3>1, <3>2
    <2>2. c \in Seq(K) /\ Len(c) = 1 /\ 1 \in 1 .. Len(c) /\ \A k \in 1 .. Len(c) : k = 1 /\ c[k] = a
      BY ONLY <1>2, <2>1
    <2> QED BY <1>2, <2>2
  <1>3. CASE c = <<a>> \o <<b>> /\ K = {a, b}
    <2>1. LET s == <<a>> \o <<b>> IN
          /\ s \in Seq({a, b}) /\ Len(s) = 2 /\ s[1] = a /\ s[2] = b /\ 1 \in 1 .. Len(s) /\ 2 \in 1 .. Len(s)
          /\ \A k \in 1 .. Len(s) : k = 1 \/ k = 2
      BY Couples
    <2>2. /\ c \in Seq(K) /\ c[1] = a /\ c[2] = b /\ 1 \in 1 .. Len(c) /\ 2 \in 1 .. Len(c)
          /\ \A k \in 1 .. Len(c) : k = 1 \/ k = 2
      BY ONLY <1>3, <2>1
    <2> HIDE <1>3
    <2>3. \A k, l \in 1 .. Len(c) : k < l => k = 1 /\ l = 2
      BY <2>2
    <2>4. \A y \in {a, b} : \E k \in 1 .. Len(c) : c[k] = y
      BY <2>2
    <2> QED BY ONLY <1>3, <2>2, <2>3, <2>4, a # b
  <1> QED BY <1>1, <1>2, <1>3 DEF FirstOf

(* What is on one side of the tree is a sequence without repetitions.      *)
LEMMA AtMostOne ==
  ASSUME NEW c, NEW K, NEW a, NEW b, a # b, FirstOf(c, K, a, b), c # <<a>> \o <<b>>
  PROVE  /\ Len(c) \in 0 .. 1
         /\ \A y \in K : \E k \in 1 .. Len(c) : c[k] = y
  BY AtMostTwo

LEMMA Sides ==
  ASSUME NEW p \in Ranks
  PROVE  /\ Children(p, 0) \in Seq(Kids(p)) /\ Parent(p, 0) \in Seq(Ups(p))
         /\ \A k, l \in 1 .. Len(Children(p, 0)) : k < l => Children(p, 0)[k] # Children(p, 0)[l]
         /\ \A k, l \in 1 .. Len(Parent(p, 0)) : ~(k < l)
         /\ \A y \in Kids(p) : \E k \in 1 .. Len(Children(p, 0)) : Children(p, 0)[k] = y
         /\ \A y \in Ups(p) : \E k \in 1 .. Len(Parent(p, 0)) : Parent(p, 0)[k] = y
  <1>1. 0 \in Ranks /\ p \in Nat /\ \A q \in Ranks : Place(q, 0) = q
    BY Ways, Places DEF Ranks
  <1>2. \A k \in Ranks : At(k, 0) = k
    BY <1>1, Ats DEF Ranks
  <1>4. /\ Child(p, 0, 1) = IF 2 * p + 1 \in Ranks THEN <<2 * p + 1>> ELSE <<>>
        /\ Child(p, 0, 2) = IF 2 * p + 2 \in Ranks THEN <<2 * p + 2>> ELSE <<>>
    <2>1. \A k \in Nat : k \in Ranks <=> k < world_size
      BY DEF Ranks
    <2> QED BY <1>1, <1>2, <2>1 DEF Child
  <1>5. 2 * p + 2 \in Ranks => 2 * p + 1 \in Ranks
    BY <1>1 DEF Ranks
  <1>6. Kids(p) = {2 * p + 1, 2 * p + 2} \cap Ranks
    BY Ways
  <1>7. \/ Children(p, 0) = <<>> /\ Kids(p) = {}
        \/ Children(p, 0) = <<2 * p + 1>> /\ Kids(p) = {2 * p + 1}
        \/ Children(p, 0) = <<2 * p + 1>> \o <<2 * p + 2>> /\ Kids(p) = {2 * p + 1, 2 * p + 2}
    <2>1. CASE 2 * p + 2 \in Ranks
      BY <1>4, <1>5, <1>6, <2>1 DEF Children
    <2>2. CASE 2 * p + 2 \notin Ranks /\ 2 * p + 1 \in Ranks
      <3>1. Children(p, 0) = <<2 * p + 1>> \o <<>>
        BY <1>4, <2>2 DEF Children
      <3>2. <<2 * p + 1>> \o <<>> = <<2 * p + 1>>
        OBVIOUS
      <3>3. Kids(p) = {2 * p + 1}
        BY <1>6, <2>2
      <3> QED BY <3>1, <3>2, <3>3
    <2>3. CASE 2 * p + 2 \notin Ranks /\ 2 * p + 1 \notin Ranks
      <3>1. Children(p, 0) = <<>> \o <<>>
        BY <1>4, <2>3 DEF Children
      <3>2. <<>> \o <<>> = <<>>
        OBVIOUS
      <3>3. Kids(p) = {}
        BY <1>6, <2>3
      <3> QED BY <3>1, <3>2, <3>3
    <2> QED BY <2>1, <2>2, <2>3
  <1>8. /\ Children(p, 0) \in Seq(Kids(p))
        /\ \A k, l \in 1 .. Len(Children(p, 0)) : k < l => Children(p, 0)[k] # Children(p, 0)[l]
        /\ \A y \in Kids(p) : \E k \in 1 .. Len(Children(p, 0)) : Children(p, 0)[k] = y
    <2>1. PICK a, b : a = 2 * p + 1 /\ b = 2 * p + 2
      OBVIOUS
    <2>2. a # b
      BY <1>1, <2>1
    <2>3. FirstOf(Children(p, 0), Kids(p), a, b)
      BY ONLY <1>7, <2>1 DEF FirstOf
    <2> QED BY ONLY <2>2, <2>3, AtMostTwo
  <1>9. \/ Parent(p, 0) = <<>> /\ Ups(p) = {}
        \/ Parent(p, 0) = <<Up(p)>> /\ Ups(p) = {Up(p)}
    <2>1. p # 0 => At(Up(p), 0) = Up(p) /\ Place(p, 0) = p
      BY <1>1, <1>2, Ways
    <2> QED BY <2>1 DEF Parent, Ups, Up
  <1>10. /\ Parent(p, 0) \in Seq(Ups(p))
         /\ \A k, l \in 1 .. Len(Parent(p, 0)) : ~(k < l)
         /\ \A y \in Ups(p) : \E k \in 1 .. Len(Parent(p, 0)) : Parent(p, 0)[k] = y
    <2>1. PICK a, b : a = Up(p) /\ a # b
      <3>1. Up(p) # Up(p) + 1
        BY <1>1 DEF Up
      <3> QED BY <3>1
    <2>2. FirstOf(Parent(p, 0), Ups(p), a, b)
      BY ONLY <1>9, <2>1 DEF FirstOf
    <2>3. Parent(p, 0) # <<a>> \o <<b>>
      <3>1. Len(<<a>> \o <<b>>) = 2 /\ Len(<<a>>) = 1 /\ Len(<<>>) = 0
        BY Couples
      <3> QED BY ONLY <1>9, <2>1, <3>1
    <2>4. Parent(p, 0) \in Seq(Ups(p))
      BY ONLY <2>1, <2>2, AtMostTwo
    <2>5. /\ Len(Parent(p, 0)) \in 0 .. 1
          /\ \A y \in Ups(p) : \E k \in 1 .. Len(Parent(p, 0)) : Parent(p, 0)[k] = y
      BY ONLY <2>1, <2>2, <2>3, AtMostOne
    <2>6. \A k, l \in 1 .. Len(Parent(p, 0)) : ~(k < l)
      <3>1. \A n \in 0 .. 1 : \A k, l \in 1 .. n : ~(k < l)
        OBVIOUS
      <3> QED BY ONLY <2>5, <3>1
    <2> QED BY ONLY <2>4, <2>5, <2>6
  <1> QED BY <1>8, <1>10

Wants(s, do, x) == \E k \in 1 .. Len(s) : s[k].do = do /\ s[k].peer = x

LEMMA FourArranged ==
  ASSUME NEW p, NEW A1, NEW A2, NEW A3, NEW A4,
         NEW s1 \in Seq(A1), NEW s2 \in Seq(A2), NEW s3 \in Seq(A3), NEW s4 \in Seq(A4),
         Arranged(p, s1), Arranged(p, s2), Arranged(p, s3), Arranged(p, s4),
         Precede(p, A1, A2), Precede(p, A1, A3), Precede(p, A2, A3),
         Precede(p, A1, A4), Precede(p, A2, A4), Precede(p, A3, A4)
  PROVE  LET s == ((s1 \o s2) \o s3) \o s4 IN
         /\ Arranged(p, s)
         /\ Within(s1, s)
         /\ Within(s3, s)
  <1> DEFINE t == s1 \o s2
             u == t \o s3
             v == u \o s4
  <1>0. PICK A12, A13 : A12 = A1 \cup A2 /\ A13 = A12 \cup A3
    OBVIOUS
  <1>1. t \in Seq(A12) /\ u \in Seq(A13) /\ Precede(p, A12, A3) /\ Precede(p, A13, A4)
    BY <1>0 DEF Precede
  <1>2. /\ Arranged(p, t)
        /\ Within(s1, t)
    BY JoinsArranged
  <1> HIDE DEF t
  <1>4. /\ Arranged(p, u)
        /\ Within(t, u)
        /\ Within(s3, u)
    BY ONLY <1>1, <1>2, s3 \in Seq(A3), Arranged(p, s3), JoinsArranged
  <1> HIDE DEF u
  <1>6. /\ Arranged(p, v)
        /\ Within(u, v)
    BY ONLY <1>1, <1>4, s4 \in Seq(A4), Arranged(p, s4), JoinsArranged
  <1> HIDE DEF v
  <1>7. Within(s1, v) /\ Within(s3, v)
    BY <1>2, <1>4, <1>6 DEF Within
  <1> QED BY <1>6, <1>7 DEF t, u, v

SendsTo(s, S) == s \in Seq(Steps4("send", S))
RecvsFrom(s, S) == s \in Seq(Steps4("recv", S))

LEMMA BarrierArranged ==
  ASSUME NEW p \in Ranks
  PROVE  /\ Arranged(p, BarrierSteps(p))
         /\ \A x \in Kids(p) \cup Ups(p) : Wants(BarrierSteps(p), "recv", x)
  <1> DEFINE C == Children(p, 0)
             P == Parent(p, 0)
             R1 == Recv(C, BARRIER)
             S2 == Send(P, BARRIER)
             R3 == Recv(P, BARRIER)
             S4 == Send(C, BARRIER)
             K == Kids(p)
             U == Ups(p)
  <1>1. /\ C \in Seq(K) /\ P \in Seq(U)
        /\ \A k, l \in 1 .. Len(C) : k < l => C[k] # C[l]
        /\ \A k, l \in 1 .. Len(P) : ~(k < l)
        /\ \A y \in K : \E k \in 1 .. Len(C) : C[k] = y
        /\ \A y \in U : \E k \in 1 .. Len(P) : P[k] = y
    BY Sides
  <1>2. ASSUME NEW S, NEW qs \in Seq(S)
        PROVE  /\ \A k \in 1 .. Len(qs) : /\ Send(qs, BARRIER)[k].do = "send" /\ Send(qs, BARRIER)[k].peer = qs[k]
                                          /\ Recv(qs, BARRIER)[k].do = "recv" /\ Recv(qs, BARRIER)[k].peer = qs[k]
               /\ Len(Send(qs, BARRIER)) = Len(qs) /\ Len(Recv(qs, BARRIER)) = Len(qs)
               /\ SendsTo(Send(qs, BARRIER), S) /\ RecvsFrom(Recv(qs, BARRIER), S)
    <2>1. DOMAIN qs = 1 .. Len(qs) /\ Len(qs) \in Nat /\ \A k \in 1 .. Len(qs) : qs[k] \in S
      OBVIOUS
    <2>2. \A k \in 1 .. Len(qs) : /\ [do |-> "send", peer |-> qs[k], tag |-> BARRIER] \in Steps4("send", S)
                                  /\ [do |-> "recv", peer |-> qs[k], tag |-> BARRIER] \in Steps4("recv", S)
      BY <2>1 DEF Steps4
    <2>3. /\ Send(qs, BARRIER) = [k \in 1 .. Len(qs) |-> [do |-> "send", peer |-> qs[k], tag |-> BARRIER]]
          /\ Recv(qs, BARRIER) = [k \in 1 .. Len(qs) |-> [do |-> "recv", peer |-> qs[k], tag |-> BARRIER]]
      BY <2>1 DEF Send, Recv
    <2> QED BY <2>1, <2>2, <2>3, IsASeq DEF SendsTo, RecvsFrom
  <1>3. \A y \in K : y \notin U
    BY Ways
  <1>4. \A y \in U : y = Up(p) /\ p # 0
    BY DEF Ups
  <1> HIDE DEF C, P, K, U
  <1>5. /\ RecvsFrom(R1, K) /\ SendsTo(S2, U) /\ RecvsFrom(R3, U) /\ SendsTo(S4, K)
        /\ Len(R1) = Len(C) /\ Len(S2) = Len(P) /\ Len(R3) = Len(P) /\ Len(S4) = Len(C)
        /\ \A k \in 1 .. Len(C) : R1[k].do = "recv" /\ R1[k].peer = C[k] /\ S4[k].do = "send" /\ S4[k].peer = C[k]
        /\ \A k \in 1 .. Len(P) : R3[k].do = "recv" /\ R3[k].peer = P[k]
    BY ONLY <1>1, <1>2
  <1> HIDE DEF R1, S2, R3, S4
  <1>6. Arranged(p, R1) /\ Arranged(p, S2) /\ Arranged(p, R3) /\ Arranged(p, S4)
    <2>1. \A k, l \in 1 .. Len(C) : k < l => InTurn(p, R1[k], R1[l]) /\ InTurn(p, S4[k], S4[l])
      BY <1>1, <1>5 DEF InTurn
    <2> QED BY <1>1, <1>5, <2>1 DEF Arranged
  <1> DEFINE A1 == Steps4("recv", K)
             A2 == Steps4("send", U)
             A3 == Steps4("recv", U)
             A4 == Steps4("send", K)
  <1>7. /\ Precede(p, A1, A2) /\ Precede(p, A1, A3) /\ Precede(p, A2, A3)
        /\ Precede(p, A1, A4) /\ Precede(p, A2, A4) /\ Precede(p, A3, A4)
    BY <1>3, <1>4 DEF Steps4, InTurn, Precede
  <1>8. R1 \in Seq(A1) /\ S2 \in Seq(A2) /\ R3 \in Seq(A3) /\ S4 \in Seq(A4)
    BY <1>5 DEF SendsTo, RecvsFrom
  <1> HIDE DEF A1, A2, A3, A4
  <1>9. PICK s : s = ((R1 \o S2) \o R3) \o S4
    OBVIOUS
  <1>16. LET u == ((R1 \o S2) \o R3) \o S4 IN
         /\ Arranged(p, u)
         /\ Within(R1, u)
         /\ Within(R3, u)
    BY ONLY <1>6, <1>7, <1>8, FourArranged
  <1>10. /\ Arranged(p, s)
         /\ Within(R1, s)
         /\ Within(R3, s)
    BY ONLY <1>9, <1>16
  <1>11. BarrierSteps(p) = s
    BY <1>9 DEF BarrierSteps, R1, S2, R3, S4, C, P
  <1>12. ASSUME NEW x \in K PROVE Wants(s, "recv", x)
    <2>1. PICK k \in 1 .. Len(C) : C[k] = x
      BY <1>1
    <2>2. k \in 1 .. Len(R1) /\ R1[k].do = "recv" /\ R1[k].peer = x
      BY <1>5, <2>1
    <2> QED BY <1>10, <2>2 DEF Wants, Within
  <1>13. ASSUME NEW x \in U PROVE Wants(s, "recv", x)
    <2>1. PICK k \in 1 .. Len(P) : P[k] = x
      BY <1>1
    <2>2. k \in 1 .. Len(R3) /\ R3[k].do = "recv" /\ R3[k].peer = x
      BY <1>5, <2>1
    <2> QED BY <1>10, <2>2 DEF Wants, Within
  <1> QED BY <1>10, <1>11, <1>12, <1>13 DEF K, U
-----------------------------------------------------------------------------
(* What a process has put in its pipes and taken in barriers.              *)

(* From x comes what p passes on to y.                                     *)
Before(p, x, y) == \/ x \in Kids(p) /\ ((p = 0 /\ y \in Kids(p)) \/ y \in Ups(p))
                   \/ x \in Ups(p) /\ y \in Kids(p)

(* p has passed P barriers and begun B of them, sent st[y] messages to y   *)
(* and taken tk[x] from x.                                                 *)
Outside(p, P, B, st, tk) ==
  /\ P <= B
  /\ \A y \in Ranks : st[y] <= B
  /\ \A x \in Kids(p) \cup Ups(p) : P <= tk[x]
  /\ \A x, y \in Ranks : Before(p, x, y) => st[y] <= tk[x]

(* p is in one more barrier, s is left of it.                              *)
Inside(p, P, B, st, tk, s) ==
  /\ Outside(p, P, B, st, tk)
  /\ Arranged(p, s)
  /\ P + 1 <= B
  /\ \A y \in Ranks : Wants(s, "send", y) => st[y] + 1 <= B
  /\ \A x \in Kids(p) \cup Ups(p) : ~Wants(s, "recv", x) => P + 1 <= tk[x]
  /\ \A x, y \in Ranks : Before(p, x, y) /\ Wants(s, "send", y) /\ ~Wants(s, "recv", x) => st[y] + 1 <= tk[x]

LEMMA Befores ==
  ASSUME NEW p \in Ranks, NEW x, NEW y, Before(p, x, y)
  PROVE  x \in Kids(p) \cup Ups(p) /\ ~(x = Up(p) /\ y = Up(p) /\ p # 0)
  <1>1. \A z \in Kids(p) : z \notin Ups(p)
    BY Ways
  <1> QED BY <1>1 DEF Before, Ups

LEMMA LevelBegins ==
  ASSUME NEW p \in Ranks, NEW P \in Nat, NEW B \in Nat, NEW st \in [Ranks -> Nat], NEW tk \in [Ranks -> Nat],
         Outside(p, P, B, st, tk), NEW s, Arranged(p, s),
         \A x \in Kids(p) \cup Ups(p) : Wants(s, "recv", x)
  PROVE  Inside(p, P, B + 1, st, tk, s)
  <1>1. /\ P <= B /\ \A y \in Ranks : st[y] <= B /\ st[y] \in Nat
        /\ \A x \in Kids(p) \cup Ups(p) : P <= tk[x]
        /\ \A x, y \in Ranks : Before(p, x, y) => st[y] <= tk[x]
    BY DEF Outside
  <1>2. P <= B + 1 /\ P + 1 <= B + 1 /\ \A y \in Ranks : st[y] <= B + 1 /\ st[y] + 1 <= B + 1
    BY <1>1
  <1>3. \A x, y \in Ranks : Before(p, x, y) => Wants(s, "recv", x)
    BY Befores
  <1>4. Outside(p, P, B + 1, st, tk)
    BY <1>1, <1>2 DEF Outside
  <1> QED BY <1>2, <1>3, <1>4 DEF Inside

LEMMA LevelEnds ==
  ASSUME NEW p \in Ranks, NEW P \in Nat, NEW B \in Nat, NEW st, NEW tk, NEW s, s = <<>>,
         Inside(p, P, B, st, tk, s)
  PROVE  Outside(p, P + 1, B, st, tk)
  <1>1. \A d, x : ~Wants(s, d, x)
    <2>1. \A k : k \notin 1 .. Len(s)
      OBVIOUS
    <2> QED BY <2>1 DEF Wants
  <1> QED BY <1>1 DEF Inside, Outside

LEMMA LevelFails ==
  ASSUME NEW p, NEW P, NEW B, NEW st, NEW tk, NEW s, Inside(p, P, B, st, tk, s)
  PROVE  Outside(p, P, B, st, tk)
  BY DEF Inside

(* The head h of what is left is done, the rest is t.                      *)
LEMMA HeadDone ==
  ASSUME NEW p, NEW S, NEW s \in Seq(S), s # <<>>, Arranged(p, s)
  PROVE  LET h == Head(s)  t == Tail(s) IN
         /\ Arranged(p, t)
         /\ \A d, x : Wants(s, d, x) <=> (h.do = d /\ h.peer = x) \/ Wants(t, d, x)
         /\ ~Wants(t, h.do, h.peer)
         /\ h.do = "send" => \A x : Wants(t, "recv", x) => p # 0 /\ h.peer = Up(p) /\ x = Up(p)
  <1> DEFINE h == Head(s)
             t == Tail(s)
  <1>1. /\ h = s[1] /\ 1 \in 1 .. Len(s)
        /\ \A k \in 1 .. Len(t) : k + 1 \in 1 .. Len(s) /\ t[k] = s[k + 1]
        /\ \A k \in 1 .. Len(s) : k = 1 \/ \E j \in 1 .. Len(t) : k = j + 1
    BY ONLY s \in Seq(S), s # <<>>, Nexts
  <1> HIDE DEF h, t
  <1>2. \A k, l \in 1 .. Len(s) : k < l => InTurn(p, s[k], s[l])
    BY DEF Arranged
  <1>3. \A k, l \in 1 .. Len(t) : k < l => k + 1 < l + 1
    OBVIOUS
  <1>4. \A k \in 1 .. Len(t) : 1 < k + 1
    OBVIOUS
  <1>5. Arranged(p, t)
    BY <1>1, <1>2, <1>3 DEF Arranged
  <1>6. \A k \in 1 .. Len(t) : InTurn(p, h, t[k])
    BY <1>1, <1>2, <1>4
  <1>7. ASSUME NEW d, NEW x PROVE Wants(s, d, x) <=> (h.do = d /\ h.peer = x) \/ Wants(t, d, x)
    BY <1>1 DEF Wants
  <1>8. ~Wants(t, h.do, h.peer)
    BY <1>6 DEF Wants, InTurn
  <1>9. h.do = "send" => \A x : Wants(t, "recv", x) => p # 0 /\ h.peer = Up(p) /\ x = Up(p)
    BY <1>6 DEF Wants, InTurn
  <1> QED BY <1>5, <1>7, <1>8, <1>9 DEF h, t

(* It has sent to y, or found that y is gone.                              *)
LEMMA LevelSends ==
  ASSUME NEW p \in Ranks, NEW P \in Nat, NEW B \in Nat, NEW st \in [Ranks -> Nat], NEW tk \in [Ranks -> Nat],
         NEW S, NEW s \in Seq(S), s # <<>>, Inside(p, P, B, st, tk, s), Head(s).do = "send",
         NEW st2 \in [Ranks -> Nat],
         st2 = st \/ \A y \in Ranks : st2[y] = IF y = Head(s).peer THEN st[y] + 1 ELSE st[y]
  PROVE  Inside(p, P, B, st2, tk, Tail(s))
  <1> DEFINE h == Head(s)
             t == Tail(s)
             q == h.peer
  <1>1. /\ Arranged(p, t)
        /\ \A d, x : Wants(s, d, x) <=> (h.do = d /\ h.peer = x) \/ Wants(t, d, x)
        /\ ~Wants(t, h.do, h.peer)
        /\ h.do = "send" => \A x : Wants(t, "recv", x) => p # 0 /\ h.peer = Up(p) /\ x = Up(p)
    <2>1. Arranged(p, s)
      BY DEF Inside
    <2> QED BY <2>1, HeadDone
  <1>2. h.do = "send"
    OBVIOUS
  <1> HIDE DEF h, t
  <1>3. /\ \A x : Wants(s, "recv", x) <=> Wants(t, "recv", x)
        /\ \A y : Wants(s, "send", y) <=> (y = q \/ Wants(t, "send", y))
        /\ ~Wants(t, "send", q)
        /\ \A x : Wants(t, "recv", x) => p # 0 /\ q = Up(p) /\ x = Up(p)
    BY <1>1, <1>2
  <1> HIDE DEF q
  <1>4. st2 = st \/ \A y \in Ranks : st2[y] = IF y = q THEN st[y] + 1 ELSE st[y]
    BY DEF q, h
  <1>5. /\ P <= B /\ P + 1 <= B
        /\ \A y \in Ranks : st[y] <= B /\ (Wants(s, "send", y) => st[y] + 1 <= B)
        /\ \A x \in Kids(p) \cup Ups(p) : P <= tk[x] /\ (~Wants(s, "recv", x) => P + 1 <= tk[x])
        /\ \A x, y \in Ranks : Before(p, x, y) =>
             st[y] <= tk[x] /\ (Wants(s, "send", y) /\ ~Wants(s, "recv", x) => st[y] + 1 <= tk[x])
    BY DEF Inside, Outside
  <1>6. ASSUME NEW y \in Ranks PROVE st2[y] <= B /\ (Wants(t, "send", y) => st2[y] + 1 <= B)
    BY <1>3, <1>4, <1>5
  <1>7. ASSUME NEW x \in Ranks, NEW y \in Ranks, Before(p, x, y)
        PROVE  st2[y] <= tk[x] /\ (Wants(t, "send", y) /\ ~Wants(t, "recv", x) => st2[y] + 1 <= tk[x])
    <2>1. CASE y = q
      <3>1. ~Wants(s, "recv", x)
        BY <1>3, <1>7, <2>1, Befores
      <3> QED BY <1>3, <1>4, <1>5, <1>7, <2>1, <3>1
    <2>2. CASE y # q
      BY <1>3, <1>4, <1>5, <1>7, <2>2
    <2> QED BY <2>1, <2>2
  <1>8. Inside(p, P, B, st2, tk, t)
    BY <1>1, <1>3, <1>5, <1>6, <1>7 DEF Inside, Outside
  <1> QED BY <1>8 DEF t

(* It has taken from x.                                                    *)
LEMMA LevelTakes ==
  ASSUME NEW p \in Ranks, NEW P \in Nat, NEW B \in Nat, NEW st \in [Ranks -> Nat], NEW tk \in [Ranks -> Nat],
         NEW S, NEW s \in Seq(S), s # <<>>, Inside(p, P, B, st, tk, s), Head(s).do = "recv",
         NEW tk2 \in [Ranks -> Nat],
         \A x \in Ranks : tk2[x] = IF x = Head(s).peer THEN tk[x] + 1 ELSE tk[x]
  PROVE  Inside(p, P, B, st, tk2, Tail(s))
  <1> DEFINE h == Head(s)
             t == Tail(s)
             q == h.peer
  <1>1. /\ Arranged(p, t)
        /\ \A d, x : Wants(s, d, x) <=> (h.do = d /\ h.peer = x) \/ Wants(t, d, x)
        /\ ~Wants(t, h.do, h.peer)
    <2>1. Arranged(p, s)
      BY DEF Inside
    <2> QED BY <2>1, HeadDone
  <1>2. h.do = "recv"
    OBVIOUS
  <1> HIDE DEF h, t
  <1>3. /\ \A y : Wants(s, "send", y) <=> Wants(t, "send", y)
        /\ \A x : Wants(s, "recv", x) <=> (x = q \/ Wants(t, "recv", x))
    BY <1>1, <1>2
  <1> HIDE DEF q
  <1>4. \A x \in Ranks : tk2[x] = IF x = q THEN tk[x] + 1 ELSE tk[x]
    BY DEF q, h
  <1>5. /\ P <= B /\ P + 1 <= B
        /\ \A y \in Ranks : st[y] <= B /\ (Wants(s, "send", y) => st[y] + 1 <= B)
        /\ \A x \in Kids(p) \cup Ups(p) : P <= tk[x] /\ (~Wants(s, "recv", x) => P + 1 <= tk[x])
        /\ \A x, y \in Ranks : Before(p, x, y) =>
             st[y] <= tk[x] /\ (Wants(s, "send", y) /\ ~Wants(s, "recv", x) => st[y] + 1 <= tk[x])
    BY DEF Inside, Outside
  <1>6. ASSUME NEW x \in Kids(p) \cup Ups(p)
        PROVE  P <= tk2[x] /\ (~Wants(t, "recv", x) => P + 1 <= tk2[x])
    <2>1. x \in Ranks
      BY Ways
    <2>2. CASE x = q
      BY <1>3, <1>4, <1>5, <2>1, <2>2
    <2>3. CASE x # q
      <3>1. tk2[x] = tk[x] /\ (Wants(s, "recv", x) <=> Wants(t, "recv", x))
        BY <1>3, <1>4, <2>1, <2>3
      <3> QED BY <1>5, <3>1
    <2> QED BY <2>2, <2>3
  <1>7. ASSUME NEW x \in Ranks, NEW y \in Ranks, Before(p, x, y)
        PROVE  st[y] <= tk2[x] /\ (Wants(t, "send", y) /\ ~Wants(t, "recv", x) => st[y] + 1 <= tk2[x])
    BY <1>3, <1>4, <1>5, <1>7
  <1>8. Inside(p, P, B, st, tk2, t)
    BY <1>1, <1>3, <1>5, <1>6, <1>7 DEF Inside, Outside
  <1> QED BY <1>8 DEF t

-----------------------------------------------------------------------------
(* The barrier messages from one process to another.                       *)

(* Those among the messages s can be numbered, in their order, above low   *)
(* and up to high.                                                         *)
Numbers(s, c, low, high) ==
  \A k \in 1 .. Len(s) : s[k].tag = BARRIER =>
    /\ low < c[k] /\ c[k] <= high
    /\ \A l \in 1 .. Len(s) : l < k /\ s[l].tag = BARRIER => c[l] < c[k]
Numbered(s, low, high) == \E c \in [1 .. Len(s) -> Nat] : Numbers(s, c, low, high)

(* Of n messages t have been taken; of the others one is where the flag f  *)
(* is, if it is up, and w are on the way.                                  *)
Up1(f, t) == IF f THEN t + 1 ELSE t
Channel(w, f, t, n) == Up1(f, t) <= n /\ Numbered(w, Up1(f, t), n)

LEMMA NumberedWider ==
  ASSUME NEW S, NEW s \in Seq(S), NEW low \in Nat, NEW high \in Nat, Numbered(s, low, high),
         NEW low2 \in Nat, NEW high2 \in Nat, low2 <= low, high <= high2
  PROVE  Numbered(s, low2, high2)
  <1>1. PICK c \in [1 .. Len(s) -> Nat] : Numbers(s, c, low, high)
    BY DEF Numbered
  <1>2. Numbers(s, c, low2, high2)
    BY <1>1 DEF Numbers
  <1> QED BY <1>2 DEF Numbered

(* Other messages come behind them, and perhaps one more of a barrier.     *)
LEMMA NumberedGrows ==
  ASSUME NEW S, NEW s \in Seq(S), NEW ms \in Seq(S), NEW low \in Nat, NEW high \in Nat,
         NEW high2 \in Nat, high <= high2,
         Numbered(s, low, high),
         \A k, l \in 1 .. Len(ms) : ms[k].tag = BARRIER /\ ms[l].tag = BARRIER => k = l,
         \A k \in 1 .. Len(ms) : ms[k].tag = BARRIER => low < high2 /\ high < high2
  PROVE  Numbered(s \o ms, low, high2)
  <1>1. PICK c \in [1 .. Len(s) -> Nat] : Numbers(s, c, low, high)
    BY DEF Numbered
  <1>2. /\ Len(s \o ms) = Len(s) + Len(ms) /\ Len(s) \in Nat /\ Len(ms) \in Nat
        /\ \A k \in 1 .. Len(s) : k \in 1 .. Len(s \o ms) /\ (s \o ms)[k] = s[k]
        /\ \A k \in 1 .. Len(ms) : Len(s) + k \in 1 .. Len(s \o ms) /\ (s \o ms)[Len(s) + k] = ms[k]
        /\ \A k \in 1 .. Len(s \o ms) : k \in 1 .. Len(s) \/ \E j \in 1 .. Len(ms) : k = Len(s) + j
    BY ONLY s \in Seq(S), ms \in Seq(S), Joins
  <1> DEFINE v == s \o ms
             n == Len(s)
             d == [k \in 1 .. Len(v) |-> IF k \in 1 .. n THEN c[k] ELSE high2]
  <1>3. d \in [1 .. Len(v) -> Nat]
    OBVIOUS
  <1>4. \A k \in 1 .. Len(v) : k \in Nat /\ d[k] = IF k \in 1 .. n THEN c[k] ELSE high2
    OBVIOUS
  <1>5. /\ n \in Nat
        /\ \A k \in 1 .. n : k \in 1 .. Len(v) /\ v[k] = s[k]
        /\ \A k \in 1 .. Len(ms) : n + k \in 1 .. Len(v) /\ v[n + k] = ms[k] /\ n + k \notin 1 .. n
        /\ \A k \in 1 .. Len(v) : k \in 1 .. n \/ \E j \in 1 .. Len(ms) : k = n + j
    BY <1>2
  <1>6. /\ \A k \in 1 .. n : s[k].tag = BARRIER =>
             /\ low < c[k] /\ c[k] <= high /\ c[k] \in Nat
             /\ \A l \in 1 .. n : l < k /\ s[l].tag = BARRIER => c[l] < c[k]
    BY <1>1 DEF Numbers
  <1> HIDE DEF v, n, d
  <1>7. ASSUME NEW k \in 1 .. Len(v), v[k].tag = BARRIER
        PROVE  /\ low < d[k] /\ d[k] <= high2
               /\ \A l \in 1 .. Len(v) : l < k /\ v[l].tag = BARRIER => d[l] < d[k]
    <2>1. CASE k \in 1 .. n
      <3>1. d[k] = c[k] /\ s[k].tag = BARRIER /\ low < c[k] /\ c[k] <= high /\ c[k] \in Nat
        BY <1>4, <1>5, <1>6, <1>7, <2>1
      <3>2. \A l \in 1 .. Len(v) : l < k => l \in 1 .. n
        BY <1>5, <2>1
      <3>3. \A l \in 1 .. Len(v) : l < k /\ v[l].tag = BARRIER => d[l] < d[k]
        BY <1>4, <1>5, <1>6, <2>1, <3>1, <3>2
      <3> QED BY <3>1, <3>3
    <2>2. CASE k \notin 1 .. n
      <3>1. PICK j \in 1 .. Len(ms) : k = n + j
        BY <1>5, <2>2
      <3>2. d[k] = high2 /\ low < high2 /\ high < high2 /\ ms[j].tag = BARRIER
        BY <1>4, <1>5, <1>7, <2>2, <3>1
      <3>3. \A l \in 1 .. Len(v) : l < k /\ v[l].tag = BARRIER => l \in 1 .. n
        <4> SUFFICES ASSUME NEW l \in 1 .. Len(v), l < k, v[l].tag = BARRIER, l \notin 1 .. n PROVE FALSE
          OBVIOUS
        <4>1. PICK i \in 1 .. Len(ms) : l = n + i
          BY <1>5
        <4>2. ms[i].tag = BARRIER
          BY <1>5, <4>1
        <4>3. i = j
          BY <3>2, <4>2
        <4> QED BY <1>4, <3>1, <4>1, <4>3
      <3>4. \A l \in 1 .. n : s[l].tag = BARRIER => d[l] <= high /\ d[l] \in Nat
        BY <1>4, <1>5, <1>6
      <3>5. \A l \in 1 .. Len(v) : l < k /\ v[l].tag = BARRIER => d[l] < d[k]
        <4> SUFFICES ASSUME NEW l \in 1 .. Len(v), l < k, v[l].tag = BARRIER PROVE d[l] < d[k]
          OBVIOUS
        <4>1. l \in 1 .. n /\ s[l].tag = BARRIER
          BY <1>5, <3>3
        <4>2. d[l] <= high /\ d[l] \in Nat
          BY <3>4, <4>1
        <4> QED BY <3>2, <4>2
      <3> QED BY <3>2, <3>5
    <2> QED BY <2>1, <2>2
  <1>8. Numbers(v, d, low, high2)
    BY <1>7 DEF Numbers
  <1> QED BY <1>3, <1>8 DEF Numbered, v

LEMMA NumberedRest ==
  ASSUME NEW S, NEW s \in Seq(S), s # <<>>, NEW low \in Nat, NEW high \in Nat, Numbered(s, low, high)
  PROVE  /\ Numbered(Tail(s), low, high)
         /\ Head(s).tag = BARRIER => low + 1 <= high /\ Numbered(Tail(s), low + 1, high)
  <1>1. PICK c \in [1 .. Len(s) -> Nat] : Numbers(s, c, low, high)
    BY DEF Numbered
  <1>2. /\ Head(s) = s[1] /\ 1 \in 1 .. Len(s) /\ Len(s) \in Nat
        /\ \A k \in 1 .. Len(Tail(s)) : k + 1 \in 1 .. Len(s) /\ Tail(s)[k] = s[k + 1]
    BY Nexts
  <1> DEFINE t == Tail(s)
             d == [k \in 1 .. Len(t) |-> c[k + 1]]
  <1>3. d \in [1 .. Len(t) -> Nat] /\ \A k \in 1 .. Len(t) : d[k] = c[k + 1]
    BY <1>2
  <1>4. \A k \in 1 .. Len(t) : k + 1 \in 1 .. Len(s) /\ t[k] = s[k + 1]
    BY <1>2
  <1>5. \A k, l \in 1 .. Len(t) : (l < k => l + 1 < k + 1) /\ 1 < k + 1
    OBVIOUS
  <1>6. \A k \in 1 .. Len(s) : s[k].tag = BARRIER =>
             /\ low < c[k] /\ c[k] <= high /\ c[k] \in Nat
             /\ \A l \in 1 .. Len(s) : l < k /\ s[l].tag = BARRIER => c[l] < c[k]
    BY <1>1 DEF Numbers
  <1> HIDE DEF t, d
  <1>7. Numbers(t, d, low, high)
    BY <1>3, <1>4, <1>5, <1>6 DEF Numbers
  <1>8. ASSUME Head(s).tag = BARRIER PROVE low + 1 <= high /\ Numbers(t, d, low + 1, high)
    <2>1. low + 1 <= c[1] /\ c[1] <= high /\ c[1] \in Nat /\ s[1].tag = BARRIER
      BY <1>2, <1>6, <1>8
    <2>2. \A k \in 1 .. Len(t) : t[k].tag = BARRIER => low + 1 < d[k]
      BY <1>2, <1>3, <1>4, <1>5, <1>6, <2>1
    <2> QED BY <1>7, <2>1, <2>2 DEF Numbers
  <1> QED BY <1>3, <1>7, <1>8 DEF Numbered, t

(* One more message is sent.                                               *)
LEMMA ChannelSends ==
  ASSUME NEW w \in Seq(Messages), NEW f, NEW t \in Nat, NEW n \in Nat, Channel(w, f, t, n),
         NEW m \in Messages, m.tag = BARRIER
  PROVE  Channel(w \o <<m>>, f, t, n + 1)
  <1>1. /\ <<m>> \in Seq(Messages) /\ \A k \in 1 .. Len(<<m>>) : k = 1
    <2>1. <<m>> \in Seq(Messages) /\ Len(<<m>>) = 1
      OBVIOUS
    <2>2. \A k \in 1 .. 1 : k = 1
      OBVIOUS
    <2> QED BY <2>1, <2>2
  <1> DEFINE low == Up1(f, t)
             ms == <<m>>
  <1>2. low \in Nat /\ low <= n /\ Numbered(w, low, n)
    BY DEF Up1, Channel
  <1>3. ms \in Seq(Messages) /\ \A k \in 1 .. Len(ms) : k = 1
    BY <1>1
  <1> HIDE DEF low, ms
  <1>4. n + 1 \in Nat /\ n <= n + 1 /\ low <= n + 1 /\ low < n + 1 /\ n < n + 1
    BY <1>2
  <1>5. \A k, l \in 1 .. Len(ms) : ms[k].tag = BARRIER /\ ms[l].tag = BARRIER => k = l
    BY <1>3
  <1>6. Numbered(w \o ms, low, n + 1)
    BY <1>2, <1>3, <1>4, <1>5, NumberedGrows
  <1> QED BY <1>4, <1>6 DEF Channel, low, ms

LEMMA ChannelQuiet ==
  ASSUME NEW w \in Seq(Messages), NEW f, NEW t \in Nat, NEW n \in Nat, Channel(w, f, t, n),
         NEW ms \in Seq(Messages), \A k \in 1 .. Len(ms) : ms[k].tag # BARRIER
  PROVE  Channel(w \o ms, f, t, n)
  <1> DEFINE low == Up1(f, t)
  <1>1. low \in Nat /\ low <= n /\ Numbered(w, low, n)
    BY DEF Up1, Channel
  <1> HIDE DEF low
  <1>2. Numbered(w \o ms, low, n)
    <2>1. \A k, l \in 1 .. Len(ms) : ms[k].tag = BARRIER /\ ms[l].tag = BARRIER => k = l
      OBVIOUS
    <2>2. \A k \in 1 .. Len(ms) : ms[k].tag = BARRIER => low < n /\ n < n
      OBVIOUS
    <2>3. n <= n
      OBVIOUS
    <2> QED BY <1>1, <2>1, <2>2, <2>3, NumberedGrows
  <1> QED BY <1>1, <1>2 DEF Channel, low

(* The flag goes down, and the message counts if a barrier has taken it.   *)
LEMMA ChannelTakes ==
  ASSUME NEW w \in Seq(Messages), NEW f, NEW t \in Nat, NEW n \in Nat, Channel(w, f, t, n), f = TRUE
  PROVE  Channel(w, FALSE, t + 1, n) /\ Channel(w, FALSE, t, n)
  <1>1. t + 1 \in Nat /\ t <= t + 1 /\ n <= n /\ t + 1 <= n /\ Numbered(w, t + 1, n)
    BY DEF Channel, Up1
  <1>2. t <= n /\ Numbered(w, t, n)
    BY <1>1, NumberedWider
  <1> QED BY <1>1, <1>2 DEF Channel, Up1

(* The first message goes from the pipe to the flag.                       *)
LEMMA ChannelMoves ==
  ASSUME NEW w \in Seq(Messages), w # <<>>, NEW f \in BOOLEAN, NEW t \in Nat, NEW n \in Nat, Channel(w, f, t, n),
         NEW g \in BOOLEAN, g => f \/ Head(w).tag = BARRIER
  PROVE  Channel(Tail(w), g, t, n)
  <1> DEFINE low == Up1(f, t)
             low2 == Up1(g, t)
             r == Tail(w)
  <1>1. low \in Nat /\ low <= n /\ Numbered(w, low, n) /\ low2 \in Nat
    BY DEF Up1, Channel
  <1>2. r \in Seq(Messages)
    BY Nexts
  <1>3. low2 <= low \/ (Head(w).tag = BARRIER /\ low2 <= low + 1)
    BY DEF Up1
  <1> HIDE DEF low, low2
  <1>4. /\ Numbered(r, low, n)
        /\ Head(w).tag = BARRIER => low + 1 <= n /\ Numbered(r, low + 1, n)
    BY <1>1, NumberedRest
  <1> HIDE DEF r
  <1>5. low + 1 \in Nat /\ n <= n
    BY <1>1
  <1>6. CASE low2 <= low
    <2>1. Numbered(r, low2, n)
      BY <1>1, <1>2, <1>4, <1>5, <1>6, NumberedWider
    <2>2. low2 <= n
      BY <1>1, <1>6
    <2> QED BY <2>1, <2>2 DEF Channel, low2, r
  <1>7. CASE Head(w).tag = BARRIER /\ low2 <= low + 1
    <2>1. low + 1 <= n /\ Numbered(r, low + 1, n)
      BY <1>4, <1>7
    <2>2. Numbered(r, low2, n)
      BY <1>1, <1>2, <1>5, <1>7, <2>1, NumberedWider
    <2>3. low2 <= n
      BY <1>1, <1>7, <2>1
    <2> QED BY <2>2, <2>3 DEF Channel, low2, r
  <1> QED BY <1>3, <1>6, <1>7

(* What is on the way is lost when its reader closes its end.              *)
LEMMA ChannelCut ==
  ASSUME NEW w, NEW f, NEW t, NEW n, Channel(w, f, t, n)
  PROVE  Channel(<<>>, f, t, n)
  <1>1. \A k : k \notin 1 .. Len(<<>>)
    OBVIOUS
  <1>2. [k \in 1 .. Len(<<>>) |-> 0] \in [1 .. Len(<<>>) -> Nat]
    OBVIOUS
  <1>3. \A low, high : Numbered(<<>>, low, high)
    BY <1>1, <1>2 DEF Numbered, Numbers
  <1> QED BY <1>3 DEF Channel
-----------------------------------------------------------------------------
(* The barriers of a process: those it has made, by its log.               *)

InBarrier(p) == InCall(p) /\ Now(p).call = "barrier"
Made(p) == NumberOf(p, DOMAIN log[p])

Obeys(p) ==
  IF InBarrier(p) THEN Inside(p, Passed(p), Begun(p), sent[p], taken[p], todo[p])
  ELSE Outside(p, Passed(p), Begun(p), sent[p], taken[p])

LEMMA BegunMade ==
  ASSUME NEW p
  PROVE  Begun(p) = Made(p) + IF InBarrier(p) THEN 1 ELSE 0
  BY DEF Begun, Made, InBarrier, InCall

LEMMA Counted ==
  ASSUME NEW A, IsFiniteSet(A), NEW x, x \notin A, NEW B, NEW b \in BOOLEAN, B = IF b THEN A \cup {x} ELSE A
  PROVE  IsFiniteSet(B) /\ Cardinality(A) \in Nat /\ Cardinality(B) = IF b THEN Cardinality(A) + 1 ELSE Cardinality(A)
  <1>1. Cardinality(A) \in Nat
    BY FS_CardinalityType
  <1>2. CASE b
    BY <1>1, <1>2, FS_AddElement
  <1>3. CASE ~b
    BY <1>1, <1>3
  <1> QED BY <1>2, <1>3

LEMMA Counts ==
  ASSUME Typed, NEW p \in Ranks
  PROVE  /\ Passed(p) \in Nat /\ Made(p) \in Nat /\ Begun(p) \in Nat
         /\ IsFiniteSet({k \in {k \in DOMAIN log[p] : Succeeded(p, k)} : program[p][k].call = "barrier"})
         /\ IsFiniteSet({k \in DOMAIN log[p] : program[p][k].call = "barrier"})
  <1>1. DOMAIN log[p] = 1 .. Len(log[p]) /\ Len(log[p]) \in Nat
    BY Given, LenProperties
  <1>2. IsFiniteSet(DOMAIN log[p])
    BY <1>1, FS_Interval
  <1> DEFINE A == {k \in {k \in DOMAIN log[p] : Succeeded(p, k)} : program[p][k].call = "barrier"}
             B == {k \in DOMAIN log[p] : program[p][k].call = "barrier"}
             D == DOMAIN log[p]
  <1>3. A \subseteq D /\ B \subseteq D
    OBVIOUS
  <1>4. Passed(p) = Cardinality(A) /\ Made(p) = Cardinality(B)
    BY DEF Passed, Made, NumberOf
  <1> HIDE DEF A, B
  <1>5. IsFiniteSet(A) /\ IsFiniteSet(B)
    BY <1>2, <1>3, FS_Subset
  <1>6. Passed(p) \in Nat /\ Made(p) \in Nat
    BY <1>4, <1>5, FS_CardinalityType
  <1>7. Begun(p) \in Nat
    BY <1>6, BegunMade
  <1> QED BY <1>5, <1>6, <1>7 DEF A, B

(* A call returns: what it counts for.                                     *)
LEMMA CountsMore ==
  ASSUME Typed, program' = program, NEW p \in Ranks, NEW e \in Results, log'[p] = Append(log[p], e)
  PROVE  /\ Passed(p)' = IF Now(p).call = "barrier" /\ e.code = "SUCCESS" THEN Passed(p) + 1 ELSE Passed(p)
         /\ Made(p)' = IF Now(p).call = "barrier" THEN Made(p) + 1 ELSE Made(p)
  <1> DEFINE N == Len(log[p])
             l2 == log'[p]
             D == DOMAIN log[p]
             A == {k \in {k \in D : Succeeded(p, k)} : program[p][k].call = "barrier"}
             B == {k \in D : program[p][k].call = "barrier"}
             A2 == {k \in DOMAIN l2 : l2[k].code = "SUCCESS" /\ program[p][k].call = "barrier"}
             B2 == {k \in DOMAIN l2 : program[p][k].call = "barrier"}
             bar == (Now(p).call = "barrier")
             passed == (bar /\ e.code = "SUCCESS")
  <1>1. log[p] \in Seq(Results) /\ N \in Nat /\ D = 1 .. N
    BY Given, LenProperties
  <1>2. DOMAIN l2 = 1 .. N + 1 /\ l2[N + 1] = e /\ \A k \in 1 .. N : l2[k] = log[p][k]
    BY <1>1, AppendProperties
  <1>3. \A k : k \in A <=> k \in D /\ log[p][k].code = "SUCCESS" /\ program[p][k].call = "barrier"
    BY DEF Succeeded
  <1>4. bar = (program[p][N + 1].call = "barrier")
    BY DEF Now
  <1>5. /\ Passed(p) = Cardinality(A) /\ Made(p) = Cardinality(B)
        /\ IsFiniteSet(A) /\ IsFiniteSet(B)
    BY Counts DEF Passed, Made, NumberOf
  <1>6. Passed(p)' = Cardinality({k \in {k \in DOMAIN l2 : k \in DOMAIN l2 /\ l2[k].code = "SUCCESS"} : program[p][k].call = "barrier"})
    BY DEF Passed, NumberOf, Succeeded
  <1>7. {k \in {k \in DOMAIN l2 : k \in DOMAIN l2 /\ l2[k].code = "SUCCESS"} : program[p][k].call = "barrier"} = A2
    OBVIOUS
  <1>8. Passed(p)' = Cardinality(A2) /\ Made(p)' = Cardinality(B2)
    BY <1>6, <1>7 DEF Made, NumberOf
  <1>9. N + 1 \notin 1 .. N /\ \A k \in 1 .. N + 1 : k \in 1 .. N \/ k = N + 1
    BY <1>1
  <1>10. \A k \in 1 .. N : k \in 1 .. N + 1
    BY <1>1
  <1>11. N + 1 \in 1 .. N + 1
    BY <1>1
  <1>12. \A k : k \in A2 <=> k \in A \/ (passed /\ k = N + 1)
    <2>1. ASSUME NEW k \in 1 .. N PROVE k \in A2 <=> k \in A \/ (passed /\ k = N + 1)
      <3>1. l2[k] = log[p][k] /\ k \in D /\ k \in DOMAIN l2 /\ k # N + 1
        BY <1>1, <1>2, <1>9, <1>10
      <3> HIDE DEF A
      <3> QED BY <1>3, <3>1
    <2>2. N + 1 \in A2 <=> passed
      BY <1>2, <1>4, <1>11
    <2>3. N + 1 \notin A /\ \A k : k \in A => k \in 1 .. N
      BY <1>1, <1>9
    <2>4. \A k : k \in A2 => k \in 1 .. N + 1
      BY <1>2
    <2> HIDE DEF A, A2, passed, bar
    <2> QED BY <1>9, <2>1, <2>2, <2>3, <2>4
  <1>13. \A k : k \in B2 <=> k \in B \/ (bar /\ k = N + 1)
    <2>1. ASSUME NEW k \in 1 .. N PROVE k \in B2 <=> k \in B \/ (bar /\ k = N + 1)
      BY <1>1, <1>2, <1>9, <1>10
    <2>2. N + 1 \in B2 <=> bar
      BY <1>2, <1>4, <1>11
    <2>3. N + 1 \notin B /\ \A k : k \in B => k \in 1 .. N
      BY <1>1, <1>9
    <2>4. \A k : k \in B2 => k \in 1 .. N + 1
      BY <1>2
    <2> HIDE DEF B, B2, bar
    <2> QED BY <1>9, <2>1, <2>2, <2>3, <2>4
  <1>14. N + 1 \notin A /\ N + 1 \notin B
    BY <1>1, <1>9
  <1>15. bar \in BOOLEAN /\ passed \in BOOLEAN
    OBVIOUS
  <1> HIDE DEF A, B, A2, B2, passed, bar, N
  <1>16. A2 = IF passed THEN A \cup {N + 1} ELSE A
    BY <1>12, <1>15
  <1>17. B2 = IF bar THEN B \cup {N + 1} ELSE B
    BY <1>13, <1>15
  <1>18. Cardinality(A2) = IF passed THEN Cardinality(A) + 1 ELSE Cardinality(A)
    BY <1>5, <1>14, <1>15, <1>16, Counted
  <1>19. Cardinality(B2) = IF bar THEN Cardinality(B) + 1 ELSE Cardinality(B)
    BY <1>5, <1>14, <1>15, <1>17, Counted
  <1> QED BY <1>5, <1>8, <1>18, <1>19 DEF passed, bar
LEMMA SameObeys ==
  ASSUME NEW q, Obeys(q), program' = program, log'[q] = log[q], InCall(q)' <=> InCall(q), todo'[q] = todo[q],
         sent'[q] = sent[q], taken'[q] = taken[q]
  PROVE  Obeys(q)'
  <1>1. (InBarrier(q)' <=> InBarrier(q)) /\ Passed(q)' = Passed(q) /\ Made(q)' = Made(q)
    BY DEF InBarrier, Now, Passed, Made, NumberOf, Succeeded
  <1>2. Begun(q)' = Made(q)' + IF InBarrier(q)' THEN 1 ELSE 0
    BY DEF Begun, Made, InBarrier, InCall
  <1>3. Begun(q)' = Begun(q)
    BY <1>1, <1>2, BegunMade
  <1> QED BY <1>1, <1>3 DEF Obeys, Inside, Outside, Arranged, Wants, InTurn

LEMMA BegunNext ==
  ASSUME NEW p
  PROVE  Begun(p)' = Made(p)' + IF InBarrier(p)' THEN 1 ELSE 0
  BY DEF Begun, Made, InBarrier, InCall

(* What a call of p leaves.                                                *)
LEMMA ObeysNext ==
  ASSUME NEW p, NEW P, NEW B, NEW st, NEW tk, NEW s, Passed(p)' = P, Begun(p)' = B,
         sent'[p] = st, taken'[p] = tk, todo'[p] = s,
         IF InBarrier(p)' THEN Inside(p, P, B, st, tk, s) ELSE Outside(p, P, B, st, tk)
  PROVE  Obeys(p)'
  BY DEF Obeys

(* A send or receive of a barrier is done.                                 *)
LEMMA BarrierAdvances ==
  ASSUME Shape, NEW p \in Ranks, InBarrier(p), program' = program,
         NEW code \in Codes, NEW v \in Int, Advances(p, code, v),
         Inside(p, Passed(p), Begun(p), sent'[p], taken'[p], Tail(todo[p]))
  PROVE  Obeys(p)'
  <1> DEFINE P == Passed(p)
             B == Begun(p)
             st == sent'[p]
             tk == taken'[p]
             s == Tail(todo[p])
  <1>1. Typed /\ P \in Nat /\ B \in Nat /\ B = Made(p) + 1 /\ Made(p) \in Nat /\ InCall(p) /\ Now(p).call = "barrier"
    BY Counts, BegunMade DEF Shape, InBarrier
  <1>2. Inside(p, P, B, st, tk, s) /\ IsGroup(Now(p))
    BY <1>1 DEF IsGroup
  <1>3. ASSUME NEW c \in Codes, Returns(p, c, v), c = "SUCCESS" => s = <<>>
        PROVE  Obeys(p)'
    <2>1. /\ phase'[p] = "idle" /\ log'[p] = Append(log[p], [code |-> c, data |-> v])
      BY <1>1, <1>3, ReturnsMoves
    <2>2. ~InBarrier(p)'
      BY <2>1 DEF InBarrier, InCall
    <2>3. PICK e \in Results : log'[p] = Append(log[p], e) /\ e.code = c
      <3>1. [code |-> c, data |-> v] \in Results
        BY DEF Results
      <3> QED BY <2>1, <3>1
    <2>4. /\ Passed(p)' = IF c = "SUCCESS" THEN P + 1 ELSE P
          /\ Made(p)' = Made(p) + 1
      BY <1>1, <2>3, CountsMore
    <2>5. Begun(p)' = B
      BY <1>1, <2>2, <2>4, BegunNext
    <2> HIDE DEF P, B, st, tk, s
    <2>6. CASE c = "SUCCESS"
      <3>1. Outside(p, P + 1, B, st, tk)
        BY <1>1, <1>2, <1>3, <2>6, LevelEnds
      <3>2. Passed(p)' = P + 1
        BY <2>4, <2>6
      <3> QED BY <2>2, <2>5, <3>1, <3>2, ObeysNext DEF st, tk
    <2>7. CASE c # "SUCCESS"
      <3>1. Outside(p, P, B, st, tk)
        BY <1>2, LevelFails
      <3>2. Passed(p)' = P
        BY <2>4, <2>7
      <3> QED BY <2>2, <2>5, <3>1, <3>2, ObeysNext DEF st, tk
    <2> QED BY <2>6, <2>7
  <1>4. ASSUME GoesOn(p, v) PROVE Obeys(p)'
    <2>1. phase'[p] = "busy" /\ todo'[p] = s /\ log' = log
      BY <1>1, <1>4, GoesOnMoves
    <2>2. InBarrier(p)' /\ Passed(p)' = P /\ Made(p)' = Made(p)
      BY <1>1, <2>1 DEF InBarrier, InCall, Now, Passed, Made, NumberOf, Succeeded
    <2>3. Begun(p)' = B
      BY <1>1, <2>2, BegunNext
    <2> HIDE DEF P, B, st, tk, s
    <2> QED BY <1>2, <2>1, <2>2, <2>3, ObeysNext DEF st, tk
  <1>5. \/ \E c \in Codes : Returns(p, c, v) /\ (IsGroup(Now(p)) /\ c = "SUCCESS" => Tail(todo[p]) = <<>>)
        \/ GoesOn(p, v)
    BY AdvancesHow
  <1> QED BY <1>2, <1>3, <1>4, <1>5

(* So is one of another call.                                              *)
LEMMA OtherAdvances ==
  ASSUME Shape, NEW p \in Ranks, InCall(p), ~InBarrier(p), Obeys(p), program' = program,
         NEW code \in Codes, NEW v \in Int, Advances(p, code, v),
         sent'[p] = sent[p], taken'[p] = taken[p]
  PROVE  Obeys(p)'
  <1> DEFINE P == Passed(p)
             B == Begun(p)
             st == sent[p]
             tk == taken[p]
  <1>1. Typed /\ P \in Nat /\ B \in Nat /\ B = Made(p) /\ Now(p).call # "barrier"
    <2>1. Typed /\ Now(p).call # "barrier"
      BY DEF Shape, InBarrier
    <2>2. P \in Nat /\ B \in Nat /\ Made(p) \in Nat
      BY <2>1, Counts
    <2>3. B = Made(p) + 0
      BY BegunMade
    <2> QED BY <2>1, <2>2, <2>3
  <1>2. Outside(p, P, B, st, tk)
    BY DEF Obeys
  <1>3. /\ log'[p] = log[p] \/ \E e \in Results : log'[p] = Append(log[p], e)
        /\ InBarrier(p)' => FALSE
    <2>1. ASSUME NEW c \in Codes, Returns(p, c, v)
          PROVE  (\E e \in Results : log'[p] = Append(log[p], e)) /\ ~InBarrier(p)'
      <3>1. phase'[p] = "idle" /\ log'[p] = Append(log[p], [code |-> c, data |-> v])
        BY <1>1, <2>1, ReturnsMoves
      <3>2. [code |-> c, data |-> v] \in Results
        BY DEF Results
      <3> QED BY <3>1, <3>2 DEF InBarrier, InCall
    <2>2. ASSUME GoesOn(p, v) PROVE log'[p] = log[p] /\ ~InBarrier(p)'
      <3>1. log' = log
        BY <2>2 DEF GoesOn
      <3> QED BY <1>1, <3>1 DEF InBarrier, Now
    <2> QED BY <2>1, <2>2, AdvancesHow
  <1>4. Passed(p)' = P /\ Made(p)' = Made(p)
    <2>1. CASE log'[p] = log[p]
      BY <2>1 DEF Passed, Made, NumberOf, Succeeded
    <2>2. ASSUME NEW e \in Results, log'[p] = Append(log[p], e) PROVE Passed(p)' = P /\ Made(p)' = Made(p)
      BY <1>1, <2>2, CountsMore
    <2> QED BY <1>3, <2>1, <2>2
  <1>5. Begun(p)' = B
    BY <1>1, <1>3, <1>4, BegunMade, BegunNext, Counts
  <1> HIDE DEF P, B
  <1> QED BY <1>2, <1>3, <1>4, <1>5, ObeysNext

(* MIMPI_Barrier is called: all its receives are still to come.            *)
LEMMA CallObeys ==
  ASSUME Shape, NEW p \in Ranks, Call(p), Obeys(p)
  PROVE  Obeys(p)'
  <1> DEFINE P == Passed(p)
             B == Begun(p)
             st == sent[p]
             tk == taken[p]
             bar == (Now(p).call = "barrier")
  <1>1. /\ Typed /\ CallOK(p) /\ phase[p] = "idle" /\ Len(log[p]) < Len(program[p])
        /\ program' = program /\ sent' = sent /\ taken' = taken
    <2>1. Len(log[p]) <= Len(program[p]) /\ Len(log[p]) # Len(program[p])
      BY DEF Shape, CallOK, Call, Finished
    <2> QED BY <2>1, Given DEF Shape, Call, given, tally
  <1>2. /\ P \in Nat /\ B \in Nat /\ Made(p) \in Nat /\ ~InBarrier(p) /\ B = Made(p)
        /\ st \in [Ranks -> Nat] /\ tk \in [Ranks -> Nat] /\ Outside(p, P, B, st, tk)
    <2>1. P \in Nat /\ B \in Nat /\ Made(p) \in Nat
      BY <1>1, Counts
    <2>2. ~InBarrier(p)
      BY <1>1 DEF InBarrier, InCall
    <2>3. B = Made(p) + 0
      BY <2>2, BegunMade
    <2>4. st \in [Ranks -> Nat] /\ tk \in [Ranks -> Nat]
      BY <1>1 DEF Typed
    <2>5. Outside(p, P, B, st, tk)
      BY <2>2 DEF Obeys
    <2> QED BY <2>1, <2>2, <2>3, <2>4, <2>5
  <1>3. bar => /\ Steps(p) = BarrierSteps(p) /\ Arranged(p, Steps(p))
               /\ \A x \in Kids(p) \cup Ups(p) : Wants(Steps(p), "recv", x)
    BY BarrierArranged DEF Steps
  <1>4. bar => Inside(p, P, B + 1, st, tk, Steps(p))
    <2> HIDE DEF P, B, st, tk
    <2> QED BY <1>2, <1>3, LevelBegins
  <1>5. CASE Steps(p) = <<>>
    <2> DEFINE v == Own(p, Now(p))
    <2>1. Returns(p, "SUCCESS", v) /\ "SUCCESS" \in Codes /\ v \in Int
      BY <1>1, <1>5, NowCall, OwnValue DEF Call, Codes
    <2>2. phase'[p] = "idle" /\ log'[p] = Append(log[p], [code |-> "SUCCESS", data |-> v])
      BY <1>1, <2>1, ReturnsMoves
    <2>3. PICK e \in Results : log'[p] = Append(log[p], e) /\ e.code = "SUCCESS"
      <3>1. [code |-> "SUCCESS", data |-> v] \in Results
        BY <2>1 DEF Results
      <3> QED BY <2>2, <3>1
    <2>4. /\ Passed(p)' = IF bar THEN P + 1 ELSE P
          /\ Made(p)' = IF bar THEN Made(p) + 1 ELSE Made(p)
      BY <1>1, <2>3, CountsMore
    <2>5. ~InBarrier(p)'
      BY <2>2 DEF InBarrier, InCall
    <2>6. Begun(p)' = IF bar THEN B + 1 ELSE B
      BY <1>2, <2>4, <2>5, BegunNext
    <2> HIDE DEF P, B, st, tk
    <2>7. CASE bar
      <3>1. B + 1 \in Nat /\ Inside(p, P, B + 1, st, tk, Steps(p))
        BY <1>2, <1>4, <2>7
      <3>2. Outside(p, P + 1, B + 1, st, tk)
        BY <1>2, <1>5, <3>1, LevelEnds
      <3>3. Passed(p)' = P + 1 /\ Begun(p)' = B + 1
        BY <2>4, <2>6, <2>7
      <3> QED BY <1>1, <2>5, <3>2, <3>3, ObeysNext DEF st, tk
    <2>8. CASE ~bar
      <3>1. Passed(p)' = P /\ Begun(p)' = B
        BY <2>4, <2>6, <2>8
      <3> QED BY <1>1, <1>2, <2>5, <3>1, ObeysNext DEF st, tk
    <2> QED BY <2>7, <2>8
  <1>6. CASE Steps(p) # <<>>
    <2>1. phase'[p] = "busy" /\ todo'[p] = Steps(p) /\ log' = log
      BY <1>1, <1>6 DEF Call, Typed
    <2>2. Passed(p)' = P /\ Made(p)' = Made(p) /\ (InBarrier(p)' <=> bar)
      BY <1>1, <2>1 DEF Passed, Made, NumberOf, Succeeded, InBarrier, InCall, Now
    <2>3. Begun(p)' = IF bar THEN B + 1 ELSE B
      BY <1>2, <2>2, BegunNext
    <2> HIDE DEF P, B, st, tk
    <2>4. CASE bar
      <3>1. Begun(p)' = B + 1 /\ Inside(p, P, B + 1, st, tk, Steps(p))
        BY <1>4, <2>3, <2>4
      <3> QED BY <1>1, <2>1, <2>2, <2>4, <3>1, ObeysNext DEF st, tk
    <2>5. CASE ~bar
      <3>1. Begun(p)' = B
        BY <2>3, <2>5
      <3> QED BY <1>1, <1>2, <2>2, <2>5, <3>1, ObeysNext DEF st, tk
    <2> QED BY <2>4, <2>5
  <1> QED BY <1>5, <1>6
-----------------------------------------------------------------------------
(* Barrier messages, from the steps of the main threads to the pipes.      *)

Carried(i, j) == Channel(pipe[i][j], link[j][i].barrier, taken[j][i], sent[i][j])

BarrierInv == deadlock_detection \/ ((\A p \in Ranks : Obeys(p)) /\ \A i, j \in Ranks : Carried(i, j))

(* A step under the tag of barriers is one of a barrier.                   *)
LEMMA BarrierTag ==
  ASSUME Shape, NEW p \in Ranks, InCall(p)
  PROVE  /\ Step(p).tag = BARRIER <=> InBarrier(p)
         /\ InBarrier(p) => IsGroup(Now(p)) /\ Step(p).peer \in Others(p) /\ todo[p] \in Seq(StepSet) /\ todo[p] # <<>>
  <1>1. /\ Now(p) \in Calls /\ todo[p] \in Seq(StepSet) /\ todo[p] # <<>>
        /\ IsGroup(Now(p)) => Step(p) \in GroupSteps(p, TagOf(Now(p)))
        /\ ~IsGroup(Now(p)) => Step(p).tag = Now(p).tag
    BY StepOK
  <1>2. CASE IsGroup(Now(p))
    <2>1. Step(p).tag = TagOf(Now(p)) /\ Step(p).peer \in Others(p)
      BY <1>1, <1>2 DEF GroupSteps
    <2>2. TagOf(Now(p)) = BARRIER <=> Now(p).call = "barrier"
      BY <1>2 DEF IsGroup, TagOf, BARRIER, BCAST, REDUCE
    <2> QED BY <1>1, <1>2, <2>1, <2>2 DEF InBarrier
  <1>3. CASE ~IsGroup(Now(p))
    <2>1. Step(p).tag \in Nat /\ Now(p).call # "barrier"
      BY <1>1, <1>3, Kinds
    <2> QED BY <2>1 DEF InBarrier, BARRIER
  <1> QED BY <1>2, <1>3

(* RecvFinished ends a group call.                                         *)
LEMMA FinishedEnds ==
  ASSUME NEW p \in Ranks, NEW v, Step(p).do = "recv", IsGroup(Now(p)), Advances(p, "REMOTE_FINISHED", v)
  PROVE  Returns(p, "REMOTE_FINISHED", v)
  BY DEF Advances

(* What p sends in a barrier, and otherwise does not.                      *)
LEMMA SendCounts ==
  ASSUME Shape, NEW p \in Ranks, SendStep(p)
  PROVE  /\ sent' \in [Ranks -> [Ranks -> Nat]]
         /\ \A a, b \in Ranks : sent'[a][b] = IF a = p /\ b = Step(p).peer /\ ~Gone(p, Step(p).peer) /\ InBarrier(p)
                                              THEN sent[a][b] + 1 ELSE sent[a][b]
  <1>1. InCall(p) /\ Step(p).peer \in Ranks /\ sent \in [Ranks -> [Ranks -> Nat]]
    BY SendHow DEF Shape, Typed
  <1>2. Step(p).tag = BARRIER <=> InBarrier(p)
    BY <1>1, BarrierTag
  <1> DEFINE q == Step(p).peer
             puts == Step(p).tag = BARRIER /\ ~Gone(p, q)
  <1>3. sent' = IF puts THEN [sent EXCEPT ![p][q] = @ + 1] ELSE sent
    BY DEF SendStep
  <1>4. puts <=> ~Gone(p, q) /\ InBarrier(p)
    BY <1>2
  <1>5. q \in Ranks
    BY <1>1
  <1> HIDE DEF q, puts
  <1>6. CASE puts
    <2>1. sent' = [sent EXCEPT ![p][q] = @ + 1]
      BY <1>3, <1>6
    <2>2. /\ sent' \in [Ranks -> [Ranks -> Nat]]
          /\ \A a, b \in Ranks : sent'[a][b] = IF a = p /\ b = q THEN sent[p][q] + 1 ELSE sent[a][b]
      <3>1. sent \in [Ranks -> [Ranks -> Nat]] /\ q \in Ranks
        BY <1>1, <1>5
      <3>2. [sent EXCEPT ![p][q] = @ + 1] \in [Ranks -> [Ranks -> Nat]]
        BY <3>1, Tallies
      <3>3. \A a, b \in Ranks : sent'[a][b] = IF a = p /\ b = q THEN sent[p][q] + 1 ELSE sent[a][b]
        BY <2>1, <3>1
      <3> QED BY <2>1, <3>2, <3>3
    <2> QED BY <1>4, <1>6, <2>2 DEF q
  <1>7. CASE ~puts
    <2>1. sent' = sent
      BY <1>3, <1>7
    <2> QED BY <1>1, <1>4, <1>7, <2>1 DEF q
  <1> QED BY <1>6, <1>7

LEMMA TakeCounts ==
  ASSUME Shape, NEW p \in Ranks, RecvBarrier(p)
  PROVE  /\ InCall(p) /\ Source(p) \in Ranks /\ Step(p).do = "recv"
         /\ taken' \in [Ranks -> [Ranks -> Nat]]
         /\ \A a, b \in Ranks : taken'[a][b] = IF a = p /\ b = Source(p) /\ InBarrier(p)
                                               THEN taken[a][b] + 1 ELSE taken[a][b]
         /\ \A a, b \in Ranks : link'[a][b].barrier = IF a = p /\ b = Source(p) THEN FALSE ELSE link[a][b].barrier
         /\ link[p][Source(p)].barrier = TRUE
  <1>1. /\ InCall(p) /\ Source(p) \in Ranks /\ Step(p).do = "recv" /\ taken \in [Ranks -> [Ranks -> Nat]] /\ Typed
        /\ From(p) \in Entries
    BY LookingIn DEF RecvBarrier, Shape, Typed
  <1>2. Step(p).tag = BARRIER <=> InBarrier(p)
    BY <1>1, BarrierTag
  <1>3. link[p][Source(p)].barrier = TRUE
    BY <1>1 DEF RecvBarrier, TakesBarrier, From, Entries
  <1>4. \A a, b \in Ranks : link'[a][b].barrier = IF a = p /\ b = Source(p) THEN FALSE ELSE link[a][b].barrier
    <2>1. PICK from : from = [From(p) EXCEPT !.barrier = FALSE]
      OBVIOUS
    <2>2. from \in Entries /\ from.barrier = FALSE
      BY <1>1, <2>1 DEF Entries
    <2>3. SetLink(p, from)
      BY <2>1 DEF RecvBarrier
    <2>4. \A a, b \in Ranks : link'[a][b] = IF a = p /\ b = Source(p) THEN from ELSE link[a][b]
      BY <1>1, <2>2, <2>3, SetsAt
    <2> QED BY <2>2, <2>4
  <1> DEFINE q == Source(p)
             puts == Step(p).tag = BARRIER
  <1>5. taken' = IF puts THEN [taken EXCEPT ![p][q] = @ + 1] ELSE taken
    BY DEF RecvBarrier
  <1>6. (puts <=> InBarrier(p)) /\ q \in Ranks
    BY <1>1, <1>2
  <1> HIDE DEF q, puts
  <1>7. CASE puts
    <2>1. taken' = [taken EXCEPT ![p][q] = @ + 1]
      BY <1>5, <1>7
    <2>2. /\ taken' \in [Ranks -> [Ranks -> Nat]]
          /\ \A a, b \in Ranks : taken'[a][b] = IF a = p /\ b = q THEN taken[p][q] + 1 ELSE taken[a][b]
      <3>1. taken \in [Ranks -> [Ranks -> Nat]] /\ q \in Ranks
        BY <1>1, <1>6
      <3>2. [taken EXCEPT ![p][q] = @ + 1] \in [Ranks -> [Ranks -> Nat]]
        BY <3>1, Tallies
      <3>3. \A a, b \in Ranks : taken'[a][b] = IF a = p /\ b = q THEN taken[p][q] + 1 ELSE taken[a][b]
        BY <2>1, <3>1
      <3> QED BY <2>1, <3>2, <3>3
    <2> QED BY <1>1, <1>3, <1>4, <1>6, <1>7, <2>2 DEF q
  <1>8. CASE ~puts
    <2>1. taken' = taken
      BY <1>5, <1>8
    <2> QED BY <1>1, <1>3, <1>4, <1>6, <1>8, <2>1 DEF q
  <1> QED BY <1>7, <1>8

(* Nothing else changes these counts or a flag.                            *)
LEMMA OtherCounts ==
  ASSUME Shape, NEW p \in Ranks, Main(p)
  PROVE  /\ ~SendStep(p) => sent' = sent
         /\ ~RecvBarrier(p) => taken' = taken /\ \A a, b \in Ranks : link'[a][b].barrier = link[a][b].barrier
  <1>1. ~SendStep(p) => sent' = sent
    BY DEF Main, Call, Refuse, SendStep, RecvBarrier, RecvMessage, RecvDeadlock, RecvToldDeadlock,
           RecvFinished, RecvWait, Finalize, Close, tally, history
  <1>2. ~RecvBarrier(p) => taken' = taken
    BY DEF Main, Call, Refuse, SendStep, RecvBarrier, RecvMessage, RecvDeadlock, RecvToldDeadlock,
           RecvFinished, RecvWait, Finalize, Close, tally, history
  <1>3. ASSUME NEW from \in Entries, SetLink(p, from), Looking(p), from.barrier = From(p).barrier
        PROVE  \A a, b \in Ranks : link'[a][b].barrier = link[a][b].barrier
    <2>1. Source(p) \in Ranks /\ Typed
      BY <1>3, LookingIn DEF Shape
    <2>2. \A a, b \in Ranks : link'[a][b] = IF a = p /\ b = Source(p) THEN from ELSE link[a][b]
      BY <1>3, <2>1, SetsAt
    <2> QED BY <1>3, <2>2 DEF From
  <1>4. ASSUME RecvDeadlock(p) \/ RecvToldDeadlock(p)
        PROVE  \A a, b \in Ranks : link'[a][b].barrier = link[a][b].barrier
    <2>1. Looking(p) /\ From(p) \in Entries
      BY <1>4, LookingIn DEF RecvDeadlock, RecvToldDeadlock
    <2>2. \A from \in {[From(p) EXCEPT !.waiting = FALSE], [From(p) EXCEPT !.deadlock = FALSE]} :
            from \in Entries /\ from.barrier = From(p).barrier
      BY <2>1 DEF Entries
    <2>3. \E from \in {[From(p) EXCEPT !.waiting = FALSE], [From(p) EXCEPT !.deadlock = FALSE]} : SetLink(p, from)
      BY <1>4 DEF RecvDeadlock, RecvToldDeadlock
    <2> QED BY <1>3, <2>1, <2>2, <2>3
  <1>5. ASSUME RecvMessage(p)
        PROVE  \A a, b \in Ranks : link'[a][b].barrier = link[a][b].barrier
    <2>1. Looking(p) /\ From(p) \in Entries
      BY <1>5, LookingIn DEF RecvMessage
    <2>2. PICK k \in Match(p) : SetLink(p, [From(p) EXCEPT !.buffer = RemoveAt(@, k)])
      BY <1>5 DEF RecvMessage
    <2>3. RemoveAt(From(p).buffer, k) \in Seq(Kept)
      BY <2>1, Matched
    <2>4. \A c \in Seq(Kept) : /\ [From(p) EXCEPT !.buffer = c] \in Entries
                               /\ [From(p) EXCEPT !.buffer = c].barrier = From(p).barrier
      BY <2>1 DEF Entries
    <2> QED BY <1>3, <2>1, <2>2, <2>3, <2>4
  <1>6. ASSUME Call(p) \/ Refuse(p) \/ SendStep(p) \/ RecvFinished(p) \/ RecvWait(p) \/ Finalize(p) \/ Close(p)
        PROVE  \A a, b \in Ranks : link'[a][b].barrier = link[a][b].barrier
    <2>1. link' = link
      BY <1>6 DEF Call, Refuse, SendStep, RecvFinished, RecvWait, Finalize, Close
    <2> QED BY <2>1
  <1> QED BY <1>1, <1>2, <1>4, <1>5, <1>6 DEF Main

-----------------------------------------------------------------------------
(* Every step keeps what a process obeys and what a pipe carries.          *)

LEMMA SendObeys ==
  ASSUME Shape, NEW p \in Ranks, SendStep(p), Obeys(p)
  PROVE  Obeys(p)'
  <1> DEFINE P == Passed(p)
             B == Begun(p)
             st == sent[p]
             tk == taken[p]
             s == todo[p]
             st2 == sent'[p]
  <1>1. Typed /\ InCall(p) /\ Step(p).do = "send" /\ program' = program /\ taken' = taken /\ value[p] \in Int
    BY DEF Shape, Typed, SendStep, Doing, InCall, given
  <1>2. PICK code \in Codes : Advances(p, code, value[p])
    BY SendHow
  <1>3. /\ st \in [Ranks -> Nat] /\ tk \in [Ranks -> Nat] /\ st2 \in [Ranks -> Nat]
        /\ P \in Nat /\ B \in Nat
        /\ \A b \in Ranks : st2[b] = IF b = Step(p).peer /\ ~Gone(p, Step(p).peer) /\ InBarrier(p)
                                     THEN st[b] + 1 ELSE st[b]
    BY <1>1, SendCounts, Counts DEF Typed
  <1>4. CASE InBarrier(p)
    <2>1. Inside(p, P, B, st, tk, s)
      BY <1>4 DEF Obeys
    <2>2. s \in Seq(StepSet) /\ s # <<>> /\ Head(s).do = "send" /\ Head(s).peer = Step(p).peer
      BY <1>1, StepOK DEF Step
    <2> HIDE DEF P, B, st, tk, s, st2
    <2>3. st2 = st \/ \A y \in Ranks : st2[y] = IF y = Head(s).peer THEN st[y] + 1 ELSE st[y]
      <3>1. CASE Gone(p, Step(p).peer)
        <4>1. \A b \in Ranks : st2[b] = st[b]
          BY <1>3, <3>1
        <4> QED BY <1>3, <4>1
      <3>2. CASE ~Gone(p, Step(p).peer)
        BY <1>3, <1>4, <2>2, <3>2
      <3> QED BY <3>1, <3>2
    <2>4. Inside(p, P, B, st2, tk, Tail(s))
      BY <1>3, <2>1, <2>2, <2>3, LevelSends
    <2>5. Inside(p, Passed(p), Begun(p), sent'[p], taken'[p], Tail(todo[p]))
      BY <1>1, <2>4 DEF P, B, st2, tk, s
    <2> QED BY <1>1, <1>2, <1>4, <2>5, BarrierAdvances
  <1>5. CASE ~InBarrier(p)
    <2>1. st2 = st
      BY <1>3, <1>5
    <2>2. sent'[p] = sent[p] /\ taken'[p] = taken[p]
      BY <1>1, <2>1
    <2> QED BY <1>1, <1>2, <1>5, <2>2, OtherAdvances
  <1> QED BY <1>4, <1>5

LEMMA TakeObeys ==
  ASSUME Shape, NEW p \in Ranks, RecvBarrier(p), Obeys(p)
  PROVE  Obeys(p)'
  <1> DEFINE P == Passed(p)
             B == Begun(p)
             st == sent[p]
             tk == taken[p]
             s == todo[p]
             tk2 == taken'[p]
  <1>1. /\ Typed /\ InCall(p) /\ Step(p).do = "recv" /\ program' = program /\ sent' = sent
        /\ Received(p, Nothing) \in Int /\ "SUCCESS" \in Codes /\ Advances(p, "SUCCESS", Received(p, Nothing))
    <2>1. InCall(p) /\ Step(p).do = "recv"
      BY TakeCounts
    <2>2. Received(p, Nothing) \in Int
      BY <2>1, ReceivedValue, OwnTags
    <2> QED BY <2>1, <2>2 DEF Shape, RecvBarrier, given, Codes
  <1>2. /\ st \in [Ranks -> Nat] /\ tk \in [Ranks -> Nat] /\ tk2 \in [Ranks -> Nat]
        /\ P \in Nat /\ B \in Nat
        /\ \A b \in Ranks : tk2[b] = IF b = Source(p) /\ InBarrier(p) THEN tk[b] + 1 ELSE tk[b]
    <2>1. /\ taken' \in [Ranks -> [Ranks -> Nat]]
          /\ \A a, b \in Ranks : taken'[a][b] = IF a = p /\ b = Source(p) /\ InBarrier(p)
                                                THEN taken[a][b] + 1 ELSE taken[a][b]
      BY TakeCounts
    <2>2. P \in Nat /\ B \in Nat
      BY <1>1, Counts
    <2>3. sent \in [Ranks -> [Ranks -> Nat]] /\ taken \in [Ranks -> [Ranks -> Nat]]
      BY <1>1 DEF Typed
    <2> QED BY <2>1, <2>2, <2>3
  <1>3. CASE InBarrier(p)
    <2>1. Inside(p, P, B, st, tk, s)
      BY <1>3 DEF Obeys
    <2>2. s \in Seq(StepSet) /\ s # <<>> /\ Head(s).do = "recv" /\ Head(s).peer = Source(p)
      BY <1>1, StepOK DEF Step, Source
    <2> HIDE DEF P, B, st, tk, s, tk2
    <2>3. \A x \in Ranks : tk2[x] = IF x = Head(s).peer THEN tk[x] + 1 ELSE tk[x]
      BY <1>2, <1>3, <2>2
    <2>4. Inside(p, P, B, st, tk2, Tail(s))
      BY <1>2, <2>1, <2>2, <2>3, LevelTakes
    <2>5. Inside(p, Passed(p), Begun(p), sent'[p], taken'[p], Tail(todo[p]))
      BY <1>1, <2>4 DEF P, B, st, tk2, s
    <2> QED BY <1>1, <1>3, <2>5, BarrierAdvances
  <1>4. CASE ~InBarrier(p)
    <2>1. tk2 = tk
      BY <1>2, <1>4
    <2>2. sent'[p] = sent[p] /\ taken'[p] = taken[p]
      BY <1>1, <2>1
    <2> QED BY <1>1, <1>4, <2>2, OtherAdvances
  <1> QED BY <1>3, <1>4

(* MIMPI_Recv that finds its source gone, and nothing of a barrier.        *)
LEMMA FinishedObeys ==
  ASSUME Shape, NEW p \in Ranks, RecvFinished(p), Obeys(p)
  PROVE  Obeys(p)'
  <1> DEFINE P == Passed(p)
             B == Begun(p)
             v == value[p]
  <1>1. /\ Typed /\ InCall(p) /\ Step(p).do = "recv" /\ program' = program /\ sent' = sent /\ taken' = taken
        /\ v \in Int /\ "REMOTE_FINISHED" \in Codes /\ Advances(p, "REMOTE_FINISHED", v)
    <2>1. Looking(p)
      BY DEF RecvFinished
    <2> QED BY <2>1, LookingIn DEF Shape, RecvFinished, given, tally, Codes
  <1>2. CASE InBarrier(p)
    <2>1. Returns(p, "REMOTE_FINISHED", v)
      BY <1>1, <1>2, BarrierTag, FinishedEnds
    <2>2. phase'[p] = "idle" /\ log'[p] = Append(log[p], [code |-> "REMOTE_FINISHED", data |-> v])
      BY <1>1, <2>1, ReturnsMoves
    <2>3. PICK e \in Results : log'[p] = Append(log[p], e) /\ e.code = "REMOTE_FINISHED"
      <3>1. [code |-> "REMOTE_FINISHED", data |-> v] \in Results
        BY <1>1 DEF Results
      <3> QED BY <2>2, <3>1
    <2>4. Passed(p)' = P /\ Made(p)' = Made(p) + 1
      BY <1>1, <1>2, <2>3, CountsMore DEF InBarrier
    <2>5. ~InBarrier(p)'
      BY <2>2 DEF InBarrier, InCall
    <2>6. Begun(p)' = B
      <3>1. B = Made(p) + 1 /\ Made(p) \in Nat
        BY <1>1, <1>2, BegunMade, Counts
      <3> QED BY <2>4, <2>5, <3>1, BegunNext
    <2>7. Outside(p, P, B, sent[p], taken[p])
      BY <1>2, LevelFails DEF Obeys
    <2> HIDE DEF P, B
    <2> QED BY <1>1, <2>4, <2>5, <2>6, <2>7, ObeysNext
  <1>3. CASE ~InBarrier(p)
    BY <1>1, <1>3, OtherAdvances
  <1> QED BY <1>2, <1>3

(* No barrier refuses a neighbour or takes data.                           *)
LEMMA OtherObeys ==
  ASSUME Shape, ~deadlock_detection, NEW p \in Ranks,
         Refuse(p) \/ RecvMessage(p) \/ RecvDeadlock(p) \/ RecvToldDeadlock(p), Obeys(p)
  PROVE  Obeys(p)'
  <1>1. CASE Refuse(p)
    <2>1. InCall(p) /\ Typed /\ program' = program /\ sent' = sent /\ taken' = taken /\ value[p] \in Int
      BY <1>1 DEF Refuse, Doing, InCall, Shape, Typed, given, tally
    <2>2. PICK code \in {"ATTEMPTED_SELF_OP", "NO_SUCH_RANK"} : Advances(p, code, value[p])
      BY <1>1 DEF Refuse
    <2>3. ~InBarrier(p)
      BY <1>1, <2>1, BarrierTag DEF Refuse, Refused, Others
    <2> QED BY <2>1, <2>2, <2>3, OtherAdvances DEF Codes
  <1>2. CASE RecvMessage(p)
    <2>1. Looking(p)
      BY <1>2 DEF RecvMessage
    <2>2. InCall(p) /\ program' = program /\ sent' = sent /\ taken' = taken
      BY <1>2, <2>1, LookingIn DEF RecvMessage, given, tally
    <2>3. PICK k \in Match(p) : Advances(p, "SUCCESS", Received(p, From(p).buffer[k].data))
      BY <1>2 DEF RecvMessage
    <2>4. /\ From(p).buffer[k] \in Kept /\ From(p).buffer[k].data \in Int
          /\ From(p).buffer[k].tag = Step(p).tag \/ (Step(p).tag = ANY /\ From(p).buffer[k].tag >= 0)
      BY <2>1, <2>3, Matched
    <2>5. ~InBarrier(p)
      <3>1. From(p).buffer[k].tag # BARRIER
        BY <2>4 DEF Kept
      <3> QED BY <2>2, <2>4, <3>1, BarrierTag DEF ANY, BARRIER
    <2>6. Received(p, From(p).buffer[k].data) \in Int
      BY <2>2, <2>4, ReceivedValue
    <2> QED BY <2>2, <2>3, <2>5, <2>6, OtherAdvances DEF Codes
  <1>3. ~RecvDeadlock(p) /\ ~RecvToldDeadlock(p)
    BY DEF RecvDeadlock, RecvToldDeadlock, ToldOff, Told
  <1> QED BY <1>1, <1>2, <1>3

LEMMA StayObeys ==
  ASSUME Shape, NEW p \in Ranks, RecvWait(p) \/ Finalize(p) \/ Close(p), Obeys(p)
  PROVE  Obeys(p)'
  <1>1. program' = program /\ log' = log /\ todo' = todo /\ sent' = sent /\ taken' = taken /\ phase \in [Ranks -> Phases]
    BY DEF RecvWait, Finalize, Close, given, history, tally, Shape, Typed
  <1>2. InCall(p)' <=> InCall(p)
    <2>1. CASE RecvWait(p)
      <3>1. InCall(p) /\ phase'[p] = "wait"
        BY <1>1, <2>1, LookingIn DEF RecvWait
      <3> QED BY <3>1 DEF InCall
    <2>2. CASE Finalize(p) \/ Close(p)
      BY <1>1, <2>2 DEF Finalize, Close, InCall
    <2> QED BY <2>1, <2>2
  <1> QED BY <1>1, <1>2, SameObeys

LEMMA MainObeys ==
  ASSUME Shape, ~deadlock_detection, NEW x \in Ranks, Main(x), \A p \in Ranks : Obeys(p)
  PROVE  \A p \in Ranks : Obeys(p)'
  <1>1. Typed /\ Moves(x) /\ program' = program
    BY MainShape DEF Shape, given
  <1>2. ASSUME NEW q \in Others(x) PROVE Obeys(q)'
    <2>1. phase'[q] = phase[q] /\ todo'[q] = todo[q] /\ log'[q] = log[q] /\ q \in Ranks /\ q # x
      BY <1>1 DEF Moves, Others
    <2>2. sent'[q] = sent[q]
      <3>1. CASE SendStep(x)
        <4>1. sent' \in [Ranks -> [Ranks -> Nat]] /\ \A b \in Ranks : sent'[q][b] = sent[q][b]
          <5>1. q \in Ranks /\ q # x
            BY <2>1
          <5> QED BY <3>1, <5>1, SendCounts
        <4>2. sent \in [Ranks -> [Ranks -> Nat]] /\ q \in Ranks
          BY <1>1, <2>1 DEF Typed
        <4> QED BY <4>1, <4>2
      <3> QED BY <3>1, OtherCounts
    <2>3. taken'[q] = taken[q]
      <3>1. CASE RecvBarrier(x)
        <4>1. taken' \in [Ranks -> [Ranks -> Nat]] /\ \A b \in Ranks : taken'[q][b] = taken[q][b]
          <5>1. q \in Ranks /\ q # x
            BY <2>1
          <5>2. /\ taken' \in [Ranks -> [Ranks -> Nat]]
                /\ \A a, b \in Ranks : taken'[a][b] = IF a = x /\ b = Source(x) /\ InBarrier(x)
                                                      THEN taken[a][b] + 1 ELSE taken[a][b]
            BY <3>1, TakeCounts
          <5> QED BY <5>1, <5>2
        <4>2. taken \in [Ranks -> [Ranks -> Nat]] /\ q \in Ranks
          BY <1>1, <2>1 DEF Typed
        <4> QED BY <4>1, <4>2
      <3> QED BY <3>1, OtherCounts
    <2>4. InCall(q)' <=> InCall(q)
      BY <2>1 DEF InCall
    <2> QED BY <1>1, <2>1, <2>2, <2>3, <2>4, SameObeys
  <1>3. Obeys(x)'
    BY CallObeys, SendObeys, TakeObeys, FinishedObeys, OtherObeys, StayObeys DEF Main
  <1> QED BY <1>2, <1>3 DEF Others

(* From process i to process j, w are on the way and f is the flag.        *)
LEMMA CarriedNext ==
  ASSUME NEW i, NEW j, NEW w, NEW f, NEW t, NEW n, pipe'[i][j] = w, link'[j][i].barrier = f,
         taken'[j][i] = t, sent'[i][j] = n, Channel(w, f, t, n)
  PROVE  Carried(i, j)'
  BY DEF Carried

LEMMA QuietBarrier ==
  ASSUME NEW T, T \in {QuietTags, {FINISHED}}, NEW ms \in Seq(Tagged(T))
  PROVE  ms \in Seq(Messages) /\ \A k \in 1 .. Len(ms) : ms[k].tag # BARRIER
  <1>1. T \subseteq Tags /\ BARRIER \notin T
    BY DEF QuietTags, Tags, FINISHED, DEADLOCK, WAITING, SERVED, BARRIER
  <1> QED BY <1>1, TaggedMessages

LEMMA MainCarried ==
  ASSUME Shape, NEW x \in Ranks, Main(x), NEW i \in Ranks, NEW j \in Ranks, Carried(i, j)
  PROVE  Carried(i, j)'
  <1> DEFINE w == pipe[i][j]
             f == link[j][i].barrier
             t == taken[j][i]
             n == sent[i][j]
             w2 == pipe'[i][j]
             f2 == link'[j][i].barrier
             t2 == taken'[j][i]
             n2 == sent'[i][j]
  <1>1. w \in Seq(Messages) /\ f \in BOOLEAN /\ t \in Nat /\ n \in Nat /\ Channel(w, f, t, n)
    BY DEF Shape, Typed, Entries, Carried
  <1>2. ASSUME Channel(w2, f2, t2, n2) PROVE Carried(i, j)'
    <2> HIDE DEF w2, f2, t2, n2
    <2>1. w2 = pipe'[i][j] /\ f2 = link'[j][i].barrier /\ t2 = taken'[j][i] /\ n2 = sent'[i][j]
      BY DEF w2, f2, t2, n2
    <2> QED BY <1>2, <2>1, CarriedNext
  <1>3. /\ ~SendStep(x) => n2 = n
        /\ ~RecvBarrier(x) => t2 = t /\ f2 = f
    BY OtherCounts
  <1>4. CASE SendStep(x)
    <2> DEFINE q == Step(x).peer
               m == Message(Step(x).tag, Payload(x, Step(x).tag))
    <2>1. /\ InCall(x) /\ m \in Messages /\ m.tag = Step(x).tag /\ <<m>> \in Seq(Messages)
          /\ w2 = IF i = x /\ j = q /\ ~Gone(x, q) THEN w \o <<m>> ELSE w
      BY <1>4, SendHow
    <2>2. n2 = IF i = x /\ j = q /\ ~Gone(x, q) /\ InBarrier(x) THEN n + 1 ELSE n
      BY <1>4, SendCounts
    <2>3. t2 = t /\ f2 = f
      <3>1. ~RecvBarrier(x)
        BY <1>4 DEF SendStep, RecvBarrier, Looking, Doing
      <3> QED BY <1>3, <3>1
    <2>4. m.tag = BARRIER <=> InBarrier(x)
      BY <2>1, BarrierTag
    <2> DEFINE puts == i = x /\ j = q /\ ~Gone(x, q)
               bar == InBarrier(x)
    <2>5. /\ w2 = IF puts THEN w \o <<m>> ELSE w
          /\ n2 = IF puts /\ bar THEN n + 1 ELSE n
          /\ m.tag = BARRIER <=> bar
      BY <2>1, <2>2, <2>4
    <2> HIDE DEF w, f, t, n, w2, f2, t2, n2, m, q, puts, bar
    <2>6. CASE puts /\ bar
      <3>1. Channel(w \o <<m>>, f, t, n + 1)
        BY <1>1, <2>1, <2>5, <2>6, ChannelSends
      <3> QED BY <1>2, <2>3, <2>5, <2>6, <3>1
    <2>7. CASE puts /\ ~bar
      <3>1. \A k \in 1 .. Len(<<m>>) : <<m>>[k] = m
        OBVIOUS
      <3>2. \A k \in 1 .. Len(<<m>>) : <<m>>[k].tag # BARRIER
        BY <2>5, <2>7, <3>1
      <3>3. Channel(w \o <<m>>, f, t, n)
        BY <1>1, <2>1, <3>2, ChannelQuiet
      <3> QED BY <1>2, <2>3, <2>5, <2>7, <3>3
    <2>8. CASE ~puts
      BY <1>1, <1>2, <2>3, <2>5, <2>8
    <2> QED BY <2>6, <2>7, <2>8
  <1>5. ASSUME ~SendStep(x), ~Close(x) PROVE \E ms \in Seq(Messages) : w2 = w \o ms /\ \A k \in 1 .. Len(ms) : ms[k].tag # BARRIER
    <2>1. PICK T \in {QuietTags, {FINISHED}} : PipesGrow(T)
      BY <1>5, QuietGrows
    <2>2. PICK ms \in Seq(Tagged(T)) : pipe'[i][j] = pipe[i][j] \o ms
      BY <2>1 DEF PipesGrow
    <2> QED BY <2>1, <2>2, QuietBarrier
  <1>6. ASSUME ~SendStep(x), ~Close(x), t2 \in Nat, Channel(w, f2, t2, n) PROVE Carried(i, j)'
    <2>1. PICK ms \in Seq(Messages) : w2 = w \o ms /\ \A k \in 1 .. Len(ms) : ms[k].tag # BARRIER
      BY <1>5, <1>6
    <2>2. n2 = n
      BY <1>3, <1>6
    <2> HIDE DEF w, f, t, n, w2, f2, t2, n2
    <2>3. Channel(w \o ms, f2, t2, n)
      BY <1>1, <1>6, <2>1, ChannelQuiet
    <2> QED BY <1>2, <2>1, <2>2, <2>3
  <1>7. CASE RecvBarrier(x)
    <2>1. ~SendStep(x) /\ ~Close(x)
      BY <1>7 DEF SendStep, Close, RecvBarrier, Looking, Doing
    <2>2. /\ \A a, b \in Ranks : taken'[a][b] = IF a = x /\ b = Source(x) /\ InBarrier(x)
                                               THEN taken[a][b] + 1 ELSE taken[a][b]
          /\ \A a, b \in Ranks : link'[a][b].barrier = IF a = x /\ b = Source(x) THEN FALSE ELSE link[a][b].barrier
          /\ link[x][Source(x)].barrier = TRUE
      BY <1>7, TakeCounts
    <2>3. CASE j = x /\ i = Source(x)
      <3>1. t2 = t + 1 \/ t2 = t
        BY <2>2, <2>3
      <3>2. f = TRUE /\ f2 = FALSE
        BY <2>2, <2>3
      <3> HIDE DEF w, f, t, n, w2, f2, t2, n2
      <3>3. Channel(w, FALSE, t + 1, n) /\ Channel(w, FALSE, t, n)
        BY <1>1, <3>2, ChannelTakes
      <3>4. t2 \in Nat /\ Channel(w, FALSE, t2, n)
        <4>1. CASE t2 = t + 1
          <5>1. t2 \in Nat
            BY <1>1, <4>1
          <5>2. Channel(w, FALSE, t2, n)
            BY <3>3, <4>1
          <5> QED BY <5>1, <5>2
        <4>2. CASE t2 = t
          BY <1>1, <3>3, <4>2
        <4> QED BY <3>1, <4>1, <4>2
      <3>5. Channel(w, f2, t2, n)
        BY <3>2, <3>4
      <3> QED BY <1>6, <2>1, <3>4, <3>5
    <2>4. CASE ~(j = x /\ i = Source(x))
      <3>1. t2 = t /\ f2 = f
        BY <2>2, <2>4
      <3> HIDE DEF w, f, t, n, w2, f2, t2, n2
      <3> QED BY <1>1, <1>6, <2>1, <3>1
    <2> QED BY <2>3, <2>4
  <1>8. CASE Close(x)
    <2>1. ~SendStep(x) /\ ~RecvBarrier(x)
      BY <1>8 DEF SendStep, Close, RecvBarrier, Looking, Doing
    <2>2. t2 = t /\ f2 = f /\ n2 = n
      BY <1>3, <2>1
    <2>3. w2 = <<>> \/ w2 = w
      BY <1>8, CloseHow
    <2> HIDE DEF w, f, t, n, w2, f2, t2, n2
    <2> QED BY <1>1, <1>2, <2>2, <2>3, ChannelCut
  <1>9. CASE ~SendStep(x) /\ ~RecvBarrier(x) /\ ~Close(x)
    <2>1. t2 = t /\ f2 = f
      BY <1>3, <1>9
    <2> HIDE DEF w, f, t, n, w2, f2, t2, n2
    <2> QED BY <1>1, <1>6, <1>9, <2>1
  <1> QED BY <1>4, <1>7, <1>8, <1>9

(* receive_message: a message goes from a pipe to where a receive looks.   *)
LEMMA ReceiveBarrier ==
  ASSUME Shape, NEW r \in Ranks, NEW s \in Ranks, Receive(r, s),
         \A p \in Ranks : Obeys(p), \A i, j \in Ranks : Carried(i, j)
  PROVE  (\A p \in Ranks : Obeys(p)') /\ \A i, j \in Ranks : Carried(i, j)'
  <1>1. Typed /\ program' = program /\ log' = log /\ todo' = todo /\ sent' = sent /\ taken' = taken
    BY ReceiveHow DEF Shape, given
  <1>2. ASSUME NEW p \in Ranks PROVE Obeys(p)'
    <2>1. phase'[p] = IF p = r /\ Woken(r, s) THEN "woken" ELSE phase[p]
      BY <1>1, ReceiveHow
    <2>2. InCall(p)' <=> InCall(p)
      BY <2>1 DEF InCall, Woken
    <2> QED BY <1>1, <2>2, SameObeys
  <1>3. ASSUME NEW i \in Ranks, NEW j \in Ranks PROVE Carried(i, j)'
    <2> DEFINE w == pipe[i][j]
               f == link[j][i].barrier
               t == taken[j][i]
               n == sent[i][j]
               w2 == pipe'[i][j]
               g == link'[j][i].barrier
    <2>1. /\ w \in Seq(Messages) /\ f \in BOOLEAN /\ t \in Nat /\ n \in Nat /\ Channel(w, f, t, n)
          /\ taken'[j][i] = t /\ sent'[i][j] = n
      BY <1>1 DEF Typed, Entries, Carried
    <2>2. CASE i = s /\ j = r
      <3>1. /\ w # <<>> /\ w2 = Tail(w) /\ Head(w) \in Messages /\ link[j][i] \in Entries
            /\ link'[j][i] = Deliver(link[j][i], Head(w))
            /\ Deliver(link[j][i], Head(w)) \in Entries
        BY <1>1, <2>2, ReceiveHow
      <3>2. g \in BOOLEAN
        BY <3>1 DEF Entries
      <3>3. g => f \/ Head(w).tag = BARRIER
        BY <3>1, DeliverHow
      <3> HIDE DEF w, f, t, n, w2, g
      <3>4. Channel(Tail(w), g, t, n)
        BY <2>1, <3>1, <3>2, <3>3, ChannelMoves
      <3> QED BY <2>1, <3>1, <3>4, CarriedNext DEF w2, g
    <2>3. CASE ~(i = s /\ j = r)
      <3>1. w2 = w /\ g = f
        BY <1>1, <2>3, ReceiveHow
      <3> HIDE DEF w, f, t, n, w2, g
      <3> QED BY <2>1, <3>1, CarriedNext DEF w2, g
    <2> QED BY <2>2, <2>3
  <1> QED BY <1>2, <1>3

LEMMA NextBarrier == Shape /\ BarrierInv /\ [Next]_vars => BarrierInv'
  <1> SUFFICES ASSUME Shape, BarrierInv, [Next]_vars PROVE BarrierInv'
    OBVIOUS
  <1>1. deadlock_detection' = deadlock_detection
    <2>1. CASE UNCHANGED vars
      BY <2>1 DEF vars
    <2>2. ASSUME NEW x \in Ranks, Main(x) PROVE deadlock_detection' = deadlock_detection
      BY <2>2, MainShape DEF given
    <2>3. ASSUME NEW r \in Ranks, NEW s \in Ranks, Receive(r, s) PROVE deadlock_detection' = deadlock_detection
      BY <2>3 DEF Receive, given
    <2> QED BY <2>1, <2>2, <2>3 DEF Next
  <1>2. CASE deadlock_detection
    BY <1>1, <1>2 DEF BarrierInv
  <1>3. CASE ~deadlock_detection
    <2>1. (\A p \in Ranks : Obeys(p)) /\ \A i, j \in Ranks : Carried(i, j)
      BY <1>3 DEF BarrierInv
    <2>2. CASE UNCHANGED vars
      <3>1. /\ program' = program /\ log' = log /\ todo' = todo /\ phase' = phase /\ sent' = sent /\ taken' = taken
            /\ pipe' = pipe /\ link' = link
        BY <2>2 DEF vars
      <3>2. \A p \in Ranks : InCall(p)' <=> InCall(p)
        BY <3>1 DEF InCall
      <3>3. \A p \in Ranks : Obeys(p)'
        BY <2>1, <3>1, <3>2, SameObeys
      <3>4. \A i, j \in Ranks : Carried(i, j)'
        BY <2>1, <3>1 DEF Carried
      <3> QED BY <3>3, <3>4 DEF BarrierInv
    <2>3. ASSUME NEW x \in Ranks, Main(x) PROVE BarrierInv'
      <3>1. \A p \in Ranks : Obeys(p)'
        BY <1>3, <2>1, <2>3, MainObeys
      <3>2. \A i, j \in Ranks : Carried(i, j)'
        BY <2>1, <2>3, MainCarried
      <3> QED BY <3>1, <3>2 DEF BarrierInv
    <2>4. ASSUME NEW r \in Ranks, NEW s \in Ranks, Receive(r, s) PROVE BarrierInv'
      BY <2>1, <2>4, ReceiveBarrier DEF BarrierInv
    <2> QED BY <2>2, <2>3, <2>4 DEF Next
  <1> QED BY <1>2, <1>3

LEMMA InitBarrier == Init => BarrierInv
  <1> SUFFICES ASSUME Init PROVE BarrierInv
    OBVIOUS
  <1>0. Shape
    BY InitShape
  <1>1. /\ \A p \in Ranks : log[p] = <<>> /\ phase[p] = "idle"
        /\ \A p, i \in Ranks : /\ pipe[p][i] = <<>> /\ link[p][i].barrier = FALSE
                               /\ sent[p][i] = 0 /\ taken[p][i] = 0
    BY DEF Init
  <1>2. ASSUME NEW p \in Ranks PROVE Obeys(p)
    <2>1. ~InBarrier(p)
      BY <1>1 DEF InBarrier, InCall
    <2>2. DOMAIN log[p] = {}
      BY <1>1
    <2>3. Passed(p) = 0 /\ Made(p) = 0
      <3>1. {k \in {k \in DOMAIN log[p] : Succeeded(p, k)} : program[p][k].call = "barrier"} = {}
        BY <2>2
      <3>2. {k \in DOMAIN log[p] : program[p][k].call = "barrier"} = {}
        BY <2>2
      <3> QED BY <3>1, <3>2, FS_EmptySet DEF Passed, Made, NumberOf
    <2>4. Begun(p) = 0
      BY <2>1, <2>3, BegunMade
    <2>5. \A x \in Kids(p) \cup Ups(p) : x \in Ranks
      BY Ways
    <2>6. Outside(p, 0, 0, sent[p], taken[p])
      BY <1>1, <2>5 DEF Outside
    <2> QED BY <2>1, <2>3, <2>4, <2>6 DEF Obeys
  <1>3. ASSUME NEW i \in Ranks, NEW j \in Ranks PROVE Carried(i, j)
    <2>1. [k \in 1 .. Len(<<>>) |-> 0] \in [1 .. Len(<<>>) -> Nat] /\ \A k : k \notin 1 .. Len(<<>>)
      OBVIOUS
    <2>2. Numbered(<<>>, 0, 0)
      BY <2>1 DEF Numbered, Numbers
    <2>3. Up1(FALSE, 0) = 0
      BY DEF Up1
    <2>4. Channel(<<>>, FALSE, 0, 0)
      <3> DEFINE low == Up1(FALSE, 0)
      <3>1. low = 0
        BY <2>3
      <3> HIDE DEF low
      <3>2. low <= 0 /\ Numbered(<<>>, low, 0)
        BY <2>2, <3>1
      <3> QED BY <3>2 DEF Channel, low
    <2> QED BY <1>1, <2>4 DEF Carried
  <1> QED BY <1>2, <1>3 DEF BarrierInv

-----------------------------------------------------------------------------
(* Up the tree and down again.                                             *)

LEMMA LeastNat ==
  ASSUME NEW S, S \subseteq Nat, S # {}
  PROVE  \E m \in S : \A n \in S : m <= n
  <1> DEFINE R == {ss \in Nat \X Nat : ss[1] < ss[2]}
  <1>1. IsWellFoundedOn(R, Nat)
    BY NatLessThanWellFounded DEF OpToRel
  <1>2. \A m, n \in Nat : m < n => <<m, n>> \in R
    OBVIOUS
  <1> HIDE DEF R
  <1>3. PICK m \in S : \A n \in S : ~(<<n, m>> \in R)
    BY <1>1, WFMin
  <1>4. \A n \in S : ~(n < m)
    BY <1>2, <1>3
  <1>5. \A n \in S : m <= n
    BY <1>4
  <1> QED BY <1>5

(* If p has passed h barriers, its messages have gone up from p, through   *)
(* the processes that pass them on, to the root, and the root has waited   *)
(* for the message of each of its children, which have waited for theirs.  *)
LEMMA UpAndDown ==
  ASSUME NEW P \in [Ranks -> Nat], NEW B \in [Ranks -> Nat],
         NEW st \in [Ranks -> [Ranks -> Nat]], NEW tk \in [Ranks -> [Ranks -> Nat]],
         \A p \in Ranks : Outside(p, P[p], B[p], st[p], tk[p]),
         \A i, j \in Ranks : tk[j][i] <= st[i][j],
         NEW p \in Ranks, NEW q \in Ranks, NEW h \in Nat, h = P[p]
  PROVE  h <= B[q]
  <1>1. /\ 0 \in Ranks
        /\ \A v \in Ranks : v \in Nat /\ (v # 0 => /\ Up(v) \in Ranks /\ Up(v) < v
                                                   /\ v \in Kids(Up(v)) /\ Up(v) \in Ups(v))
        /\ \A v \in Ranks : \A x \in Kids(v) : x \in Ranks /\ x # 0 /\ Up(x) = v
    BY Ways DEF Kids, Ups
  <1>2. /\ \A v \in Ranks : P[v] <= B[v] /\ P[v] \in Nat /\ B[v] \in Nat
        /\ \A v, y \in Ranks : st[v][y] <= B[v] /\ st[v][y] \in Nat /\ tk[v][y] \in Nat
        /\ \A v \in Ranks : \A x \in Kids(v) \cup Ups(v) : P[v] <= tk[v][x]
        /\ \A v, x, y \in Ranks : Before(v, x, y) => st[v][y] <= tk[v][x]
    BY DEF Outside
  <1>4. ASSUME p # 0 PROVE \E v \in Kids(0) : h <= st[0][v]
    <2> DEFINE U == {v \in Ranks : v # 0 /\ h <= st[Up(v)][v]}
    <2>1. p \in U
      <3>1. h <= tk[p][Up(p)] /\ tk[p][Up(p)] <= st[Up(p)][p]
        BY <1>1, <1>2, <1>4
      <3> QED BY ONLY <1>1, <1>2, <1>4, <3>1
    <2>2. U \subseteq Nat
      BY <1>1
    <2>3. \A v : v \in U <=> v \in Ranks /\ v # 0 /\ h <= st[Up(v)][v]
      OBVIOUS
    <2> HIDE DEF U
    <2>4. PICK v \in U : \A u \in U : v <= u
      BY <2>1, <2>2, LeastNat
    <2>5. v \in Ranks /\ v # 0 /\ h <= st[Up(v)][v] /\ Up(v) \in Ranks /\ Up(v) < v /\ v \in Kids(Up(v))
      BY <1>1, <2>3, <2>4
    <2>6. CASE Up(v) # 0
      <3> DEFINE w == Up(v)
                 z == Up(w)
      <3>1. w \in Ranks /\ w # 0 /\ z \in Ranks /\ z \in Ups(w) /\ v \in Kids(w) /\ h <= st[w][v] /\ w < v
        BY <1>1, <2>5, <2>6
      <3> HIDE DEF w
      <3>2. Before(w, z, v)
        BY <3>1 DEF Before
      <3>3. st[w][v] <= tk[w][z] /\ tk[w][z] <= st[z][w]
        BY <1>2, <2>5, <3>1, <3>2
      <3>4. h <= st[z][w]
        BY ONLY <1>2, <2>5, <3>1, <3>3
      <3>5. w \in U
        BY <2>3, <3>1, <3>4
      <3> QED BY <1>1, <2>4, <2>5, <3>1, <3>5
    <2>7. CASE Up(v) = 0
      BY <2>5, <2>7
    <2> QED BY <2>6, <2>7
  <1>5. h <= B[0] /\ \A x \in Kids(0) : h <= tk[0][x]
    <2>1. CASE p = 0
      BY <1>2, <2>1
    <2>2. CASE p # 0
      <3>1. PICK v \in Kids(0) : h <= st[0][v]
        BY <1>4, <2>2
      <3>2. v \in Ranks /\ st[0][v] <= B[0] /\ st[0][v] \in Nat /\ B[0] \in Nat
        BY <1>1, <1>2, <3>1
      <3>3. ASSUME NEW x \in Kids(0) PROVE h <= tk[0][x]
        <4>1. x \in Ranks /\ Before(0, x, v)
          BY <1>1, <3>1 DEF Before
        <4>2. st[0][v] <= tk[0][x] /\ tk[0][x] \in Nat
          BY <1>1, <1>2, <3>2, <4>1
        <4> QED BY ONLY <3>1, <3>2, <4>2
      <3> QED BY ONLY <3>1, <3>2, <3>3
    <2> QED BY <2>1, <2>2
  <1>6. ASSUME NEW v \in Ranks, v # 0 PROVE h <= st[v][Up(v)]
    <2> DEFINE V == {u \in Ranks : u # 0 /\ ~(h <= st[u][Up(u)])}
    <2>1. V \subseteq Nat /\ \A u : u \in V <=> u \in Ranks /\ u # 0 /\ ~(h <= st[u][Up(u)])
      BY <1>1
    <2> HIDE DEF V
    <2>2. ASSUME V # {} PROVE FALSE
      <3>1. PICK u \in V : \A x \in V : u <= x
        BY <2>1, <2>2, LeastNat
      <3> DEFINE w == Up(u)
      <3>2. u \in Ranks /\ u # 0 /\ ~(h <= st[u][w]) /\ w \in Ranks /\ w < u /\ u \in Kids(w)
        BY <1>1, <2>1, <3>1
      <3> HIDE DEF w
      <3>3. tk[w][u] <= st[u][w] /\ tk[w][u] \in Nat /\ st[u][w] \in Nat
        BY <1>2, <3>2
      <3>4. ~(h <= tk[w][u])
        BY ONLY <3>2, <3>3
      <3>5. w # 0
        BY <1>5, <3>2, <3>4
      <3> DEFINE z == Up(w)
      <3>6. z \in Ranks /\ z \in Ups(w)
        BY <1>1, <3>2, <3>5
      <3> HIDE DEF z
      <3>7. Before(w, u, z)
        BY <3>2, <3>6 DEF Before
      <3>8. st[w][z] <= tk[w][u] /\ st[w][z] \in Nat
        BY <1>2, <3>2, <3>6, <3>7
      <3>9. ~(h <= st[w][z])
        BY ONLY <3>3, <3>4, <3>8
      <3>10. w \in V
        BY <2>1, <3>2, <3>5, <3>9 DEF z
      <3>11. w \in Nat /\ u \in Nat /\ u <= w
        BY <1>1, <3>1, <3>2, <3>10
      <3> QED BY <3>2, <3>11
    <2>3. v \notin V
      BY <2>2
    <2> QED BY <1>6, <2>1, <2>3
  <1>7. CASE q = 0
    BY <1>5, <1>7
  <1>8. CASE q # 0
    <2>1. Up(q) \in Ranks /\ h <= st[q][Up(q)] /\ st[q][Up(q)] <= B[q] /\ st[q][Up(q)] \in Nat /\ B[q] \in Nat
      BY <1>1, <1>2, <1>6, <1>8
    <2> QED BY ONLY <2>1
  <1> QED BY <1>7, <1>8

LEMMA BarrierChain == Shape /\ BarrierInv => BarrierHolds
  <1> SUFFICES ASSUME Shape, BarrierInv, ~deadlock_detection, NEW p \in Ranks, NEW q \in Ranks
               PROVE  Passed(p) <= Begun(q)
    BY DEF BarrierHolds
  <1>1. Typed /\ sent \in [Ranks -> [Ranks -> Nat]] /\ taken \in [Ranks -> [Ranks -> Nat]]
    BY DEF Shape, Typed
  <1>2. ASSUME NEW x \in Ranks PROVE Outside(x, Passed(x), Begun(x), sent[x], taken[x])
    BY LevelFails DEF BarrierInv, Obeys
  <1>3. ASSUME NEW i \in Ranks, NEW j \in Ranks PROVE taken[j][i] <= sent[i][j]
    <2> DEFINE f == link[j][i].barrier
               t == taken[j][i]
               n == sent[i][j]
    <2>1. Channel(pipe[i][j], f, t, n) /\ t \in Nat /\ n \in Nat
      BY <1>1 DEF BarrierInv, Carried
    <2> HIDE DEF f, t, n
    <2>2. Up1(f, t) <= n /\ (Up1(f, t) = t + 1 \/ Up1(f, t) = t)
      BY <2>1 DEF Channel, Up1
    <2>3. t <= n
      BY <2>1, <2>2
    <2> QED BY <2>3 DEF t, n
  <1> DEFINE P == [x \in Ranks |-> Passed(x)]
             B == [x \in Ranks |-> Begun(x)]
  <1>4. P \in [Ranks -> Nat] /\ B \in [Ranks -> Nat] /\ \A x \in Ranks : P[x] = Passed(x) /\ B[x] = Begun(x)
    BY <1>1, Counts
  <1>5. \A x \in Ranks : Outside(x, P[x], B[x], sent[x], taken[x])
    BY <1>2, <1>4
  <1> HIDE DEF P, B
  <1>6. P[p] <= B[q]
    BY <1>1, <1>3, <1>4, <1>5, UpAndDown
  <1> QED BY <1>4, <1>6

(* Nobody returns from MIMPI_Barrier with success before everybody has     *)
(* called it as many times, in a group of any size and whatever else the   *)
(* processes send and receive, while some may leave and others fail; the   *)
(* only thing that the messages of two barriers share is a flag.           *)
THEOREM BarriersHold == Spec => []BarrierHolds
  <1> QED BY InitShape, NextShape, InitBarrier, NextBarrier, BarrierChain, PTL DEF Spec
==============================================================================
