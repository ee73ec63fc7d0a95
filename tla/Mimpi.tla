-------------------------------- MODULE Mimpi --------------------------------
(***************************************************************************)
(* concurrent-programming/MIMPI: processes that exchange messages over     *)
(* pipes.  A process has a main thread, which runs its program of calls    *)
(* and then MIMPI_Finalize, and for every other process i a receiver       *)
(* thread, which moves what i sends from their pipe to where MIMPI_Recv    *)
(* looks for it.                                                           *)
(*                                                                         *)
(* What the two do under lock[i] is one action, and so is the signal that  *)
(* follows; so is a send, a pipe takes whatever is written (receivers      *)
(* always drain it), and writing to one whose reader has gone fails with   *)
(* EPIPE.  The bytes of a message are one value, its count goes with its   *)
(* tag.  The receiver threads stop as soon as the process writes to        *)
(* itself, which no other process sees: they leave with Close.             *)
(***************************************************************************)
EXTENDS Integers, FiniteSets, SequencesExt

(* Setups: what the processes may be going to do, as records of program, the *)
(* calls of each of them, and detection, the argument of MIMPI_Init.         *)
CONSTANTS world_size, Setups

Ranks == 0..(world_size - 1)

(* The tags of programs are not negative.  In the group calls the sizes are *)
(* those the others expect, and a root is a process there is.               *)
Byte == 0..255
Calls == [call : {"send", "recv"}, peer : Int, tag : Nat]
           \cup [call : {"barrier"}]
           \cup [call : {"bcast"}, root : Ranks, data : Byte]
           \cup [call : {"reduce"}, root : Ranks, op : {"SUM", "PROD", "MAX", "MIN"},
                 data : [Ranks -> Byte]]

ASSUME MimpiAssumption ==
  /\ world_size \in Nat \ {0}
  /\ Setups \subseteq [program : [Ranks -> Seq(Calls)], detection : BOOLEAN]

VARIABLES
  program,    \* by process: the calls it makes before MIMPI_Finalize
  deadlock_detection,
  phase,      \* by process: idle, busy, wait, woken, closing or closed
  todo,       \* the sends and receives that are left of the call
  value,      \* the caller's buffer in Bcast, the partial result in Reduce
  log,        \* history: what the calls have returned
  stray,      \* history: the processes that took a barrier message in another receive
  sent,       \* history: by sender and receiver, the barrier messages put in their pipe
  taken,      \* history: by receiver and sender, those its barriers have taken
  pipe,       \* by writer and reader: the messages on their way
  link        \* by process and source: what MIMPI_Recv looks at

vars == <<program, deadlock_detection, phase, todo, value, log, stray, sent, taken, pipe, link>>
given == <<program, deadlock_detection>>
tally == <<sent, taken>>
history == <<log, stray, tally>>

(* The tags of the library. *)
ANY == 0
FINISHED == -1
BARRIER == -2
BCAST == -3
REDUCE == -4
DEADLOCK == -5
WAITING == -6
SERVED == -7

(* No data; in Reduce, whatever there was in the buffer before. *)
Nothing == -1
Message(tag, data) == [tag |-> tag, data |-> data]

Init ==
  /\ \E s \in Setups : program = s.program /\ deadlock_detection = s.detection
  /\ phase = [p \in Ranks |-> "idle"]
  /\ todo = [p \in Ranks |-> <<>>]
  /\ value = [p \in Ranks |-> Nothing]
  /\ log = [p \in Ranks |-> <<>>]
  /\ stray = {}
  /\ sent = [p \in Ranks |-> [q \in Ranks |-> 0]]
  /\ taken = [p \in Ranks |-> [q \in Ranks |-> 0]]
  /\ pipe = [p \in Ranks |-> [q \in Ranks |-> <<>>]]
  /\ link = [p \in Ranks |-> [i \in Ranks |->
               [buffer |-> <<>>, finished |-> FALSE, waiting |-> FALSE,
                deadlock |-> FALSE, barrier |-> FALSE]]]

-----------------------------------------------------------------------------
(* The calls as sends and receives.  Group calls go along a binary tree.    *)

(* A send to, or a receive from, each of the processes qs in turn.          *)
Send(qs, tag) == [k \in DOMAIN qs |-> [do |-> "send", peer |-> qs[k], tag |-> tag]]
Recv(qs, tag) == [k \in DOMAIN qs |-> [do |-> "recv", peer |-> qs[k], tag |-> tag]]

(* The place of p in the tree of which r is the root, and who is at place k. *)
Place(p, r) == (p - r + world_size) % world_size
At(k, r) == (k + r) % world_size

(* The children of p, left and right, and its parent; there may be none.    *)
Child(p, r, side) ==
  LET k == 2 * Place(p, r) + side IN IF k < world_size THEN <<At(k, r)>> ELSE <<>>
Children(p, r) == Child(p, r, 1) \o Child(p, r, 2)
Parent_half(p, r) == IF p = r THEN <<>> ELSE <<At(Place(p, r) \div 2, r)>>
Parent(p, r) == IF p = r THEN <<>> ELSE <<At((Place(p, r) - 1) \div 2, r)>>

BarrierSteps_early(p) ==
  Recv(Child(p, 0, 1), BARRIER) \o Send(Parent(p, 0), BARRIER)
    \o Recv(Parent(p, 0), BARRIER) \o Send(Children(p, 0), BARRIER)
    \o Recv(Child(p, 0, 2), BARRIER)

BarrierSteps(p) ==
  Recv(Children(p, 0), BARRIER) \o Send(Parent(p, 0), BARRIER)
    \o Recv(Parent(p, 0), BARRIER) \o Send(Children(p, 0), BARRIER)

BcastSteps(p, r) == Recv(Parent(p, r), BCAST) \o Send(Children(p, r), BCAST)

ReduceSteps(p, r) == Recv(Children(p, r), REDUCE) \o Send(Parent(p, r), REDUCE)

Now(p) == program[p][Len(log[p]) + 1]

Steps(p) ==
  LET c == Now(p) IN
  CASE c.call = "send" -> Send(<<c.peer>>, c.tag)
    [] c.call = "recv" -> Recv(<<c.peer>>, c.tag)
    [] c.call = "barrier" -> BarrierSteps(p)
    [] c.call = "bcast" -> BcastSteps(p, c.root)
    [] c.call = "reduce" -> ReduceSteps(p, c.root)

IsGroup(c) == c.call \in {"barrier", "bcast", "reduce"}

(* What p has in its buffer when it makes the call c. *)
Own(p, c) ==
  CASE c.call = "reduce" -> c.data[p]
    [] c.call = "bcast" /\ p = c.root -> c.data
    [] OTHER -> Nothing

Combine(op, a, b) ==
  CASE a = Nothing \/ b = Nothing -> Nothing
    [] op = "SUM" -> (a + b) % 256
    [] op = "PROD" -> (a * b) % 256
    [] op = "MAX" -> IF a < b THEN b ELSE a
    [] op = "MIN" -> IF a > b THEN b ELSE a
-----------------------------------------------------------------------------
(* The main thread.                                                         *)

Finished(p) == Len(log[p]) = Len(program[p])
Step(p) == Head(todo[p])
Doing(p, what) == phase[p] = "busy" /\ todo[p] # <<>> /\ Step(p).do = what

Returns(p, code, data) ==
  /\ phase' = [phase EXCEPT ![p] = "idle"]
  /\ todo' = [todo EXCEPT ![p] = <<>>]
  /\ value' = [value EXCEPT ![p] = Nothing]
  /\ log' = [log EXCEPT ![p] = Append(@, [code |-> code, data |-> data])]

(* A process that is alone has nothing to send or receive in a group call.  *)
Call(p) ==
  /\ phase[p] = "idle" /\ ~Finished(p)
  /\ IF Steps(p) = <<>> THEN Returns(p, "SUCCESS", Own(p, Now(p)))
     ELSE /\ phase' = [phase EXCEPT ![p] = "busy"]
          /\ todo' = [todo EXCEPT ![p] = Steps(p)]
          /\ value' = [value EXCEPT ![p] = Own(p, Now(p))]
          /\ UNCHANGED log
  /\ UNCHANGED <<given, stray, tally, pipe, link>>

(* One send or receive of the call is done, with v in the buffer: a call of *)
(* one step returns its code; a group call ends early only if it receives   *)
(* from a process that has finished.                                        *)
Advances(p, code, v) ==
  LET c == Now(p)
      last == Tail(todo[p]) = <<>>
      over == Step(p).do = "recv" /\ code = "REMOTE_FINISHED"
  IN  \/ ~IsGroup(c) /\ Returns(p, code, v)
      \/ IsGroup(c) /\ over /\ Returns(p, code, v)
      \/ IsGroup(c) /\ ~over /\ last /\ Returns(p, "SUCCESS", v)
      \/ /\ IsGroup(c) /\ ~over /\ ~last
         /\ phase' = [phase EXCEPT ![p] = "busy"]
         /\ todo' = [todo EXCEPT ![p] = Tail(@)]
         /\ value' = [value EXCEPT ![p] = v]
         /\ UNCHANGED log

Refused(p, q) == p = q \/ q \notin Ranks

Refuse(p) ==
  /\ Doing(p, "send") \/ Doing(p, "recv")
  /\ Refused(p, Step(p).peer)
  /\ Advances(p, IF Step(p).peer = p THEN "ATTEMPTED_SELF_OP" ELSE "NO_SUCH_RANK", value[p])
  /\ UNCHANGED <<given, stray, tally, pipe, link>>

(* MIMPI_Send: p may know that q has finished, or find the pipe closed.     *)
Gone(p, q) == link[p][q].finished \/ phase[q] = "closed"

Transmit(p, q, messages) ==
  pipe' = IF Gone(p, q) THEN pipe ELSE [pipe EXCEPT ![p][q] = @ \o messages]

Payload(p, tag) == IF tag \in {BCAST, REDUCE} THEN value[p]
                   ELSE IF tag = BARRIER THEN Nothing ELSE Len(log[p]) + 1

SendStep(p) ==
  /\ Doing(p, "send") /\ ~Refused(p, Step(p).peer)
  /\ LET q == Step(p).peer  tag == Step(p).tag IN
     /\ Transmit(p, q, <<Message(tag, Payload(p, tag))>>)
     /\ Advances(p, IF Gone(p, q) THEN "REMOTE_FINISHED" ELSE "SUCCESS", value[p])
     /\ sent' = IF tag = BARRIER /\ ~Gone(p, q) THEN [sent EXCEPT ![p][q] = @ + 1] ELSE sent
  /\ UNCHANGED <<given, stray, taken, link>>

-----------------------------------------------------------------------------
(* MIMPI_Recv.  Looking(p) is the thread that has lock[source], on entry or *)
(* woken; the alternatives are tried in the order in which they stand here. *)

Looking(p) ==
  /\ \/ Doing(p, "recv") /\ ~Refused(p, Step(p).peer)
     \/ phase[p] = "woken"

Source(p) == Step(p).peer
From(p) == link[p][Source(p)]

Match_last(p) ==
  LET b == From(p).buffer  t == Step(p).tag
      fits == {k \in DOMAIN b : b[k].tag = t \/ (t = ANY /\ b[k].tag >= 0)}
  IN  {k \in fits : \A l \in fits : l <= k}

(* The place of the first message that fits, if one does. *)
Match(p) ==
  LET b == From(p).buffer  t == Step(p).tag
      fits == {k \in DOMAIN b : b[k].tag = t \/ (t = ANY /\ b[k].tag >= 0)}
  IN  {k \in fits : \A l \in fits : k <= l}

(* With detection, the lower of two processes tells the higher one when it  *)
(* starts to wait and when it has been served.                              *)
Tells(p) == deadlock_detection /\ p < Source(p)
Asking(p) == IF phase[p] = "busy" /\ Tells(p) THEN <<Message(WAITING, Nothing)>> ELSE <<>>

SetLink(p, from) == link' = [link EXCEPT ![p][Source(p)] = from]

(* A message of a barrier ends whatever receive there is, without data. *)
TakesBarrier(p) == From(p).barrier
Served(p) == TakesBarrier(p) \/ Match(p) # {}
ToldOff(p) == deadlock_detection /\ From(p).waiting /\ p > Source(p)
Told(p) == deadlock_detection /\ From(p).deadlock /\ p < Source(p)
Deserted(p) == From(p).finished /\ From(p).buffer = <<>>

(* What is in the buffer after a receive of data. *)
Received(p, data) ==
  LET c == Now(p) IN
  CASE c.call = "reduce" -> Combine(c.op, value[p], data)
    [] c.call = "barrier" -> value[p]
    [] OTHER -> data

RecvBarrier_kept(p) ==
  /\ Looking(p) /\ TakesBarrier(p)
  /\ Transmit(p, Source(p), Asking(p))
  /\ Advances(p, "SUCCESS", Received(p, Nothing))
  /\ stray' = IF Step(p).tag = BARRIER THEN stray ELSE stray \cup {p}
  /\ UNCHANGED <<given, tally, link>>

RecvBarrier(p) ==
  /\ Looking(p) /\ TakesBarrier(p)
  /\ SetLink(p, [From(p) EXCEPT !.barrier = FALSE])
  /\ Transmit(p, Source(p), Asking(p))
  /\ Advances(p, "SUCCESS", Received(p, Nothing))
  /\ stray' = IF Step(p).tag = BARRIER THEN stray ELSE stray \cup {p}
  /\ taken' = IF Step(p).tag = BARRIER THEN [taken EXCEPT ![p][Source(p)] = @ + 1] ELSE taken
  /\ UNCHANGED <<given, sent>>

RecvMessage(p) ==
  /\ Looking(p) /\ ~TakesBarrier(p)
  /\ \E k \in Match(p) :
       /\ SetLink(p, [From(p) EXCEPT !.buffer = RemoveAt(@, k)])
       /\ Advances(p, "SUCCESS", Received(p, From(p).buffer[k].data))
  /\ Transmit(p, Source(p),
       Asking(p) \o IF Tells(p) THEN <<Message(SERVED, Nothing)>> ELSE <<>>)
  /\ UNCHANGED <<given, stray, tally>>

(* The source waits for p: p tells it that there is a deadlock. *)
RecvDeadlock(p) ==
  /\ Looking(p) /\ ~Served(p) /\ ToldOff(p)
  /\ SetLink(p, [From(p) EXCEPT !.waiting = FALSE])
  /\ Transmit(p, Source(p), <<Message(DEADLOCK, Nothing)>>)
  /\ Advances(p, "DEADLOCK_DETECTED", Received(p, Nothing))
  /\ UNCHANGED <<given, stray, tally>>

RecvToldDeadlock(p) ==
  /\ Looking(p) /\ ~Served(p) /\ Told(p)
  /\ SetLink(p, [From(p) EXCEPT !.deadlock = FALSE])
  /\ Transmit(p, Source(p), Asking(p))
  /\ Advances(p, "DEADLOCK_DETECTED", Received(p, Nothing))
  /\ UNCHANGED <<given, stray, tally>>

RecvFinished(p) ==
  /\ Looking(p) /\ ~Served(p) /\ ~ToldOff(p) /\ ~Told(p) /\ Deserted(p)
  /\ Transmit(p, Source(p), Asking(p))
  /\ Advances(p, "REMOTE_FINISHED", value[p])
  /\ UNCHANGED <<given, stray, tally, link>>

RecvWait(p) ==
  /\ Looking(p) /\ ~Served(p) /\ ~ToldOff(p) /\ ~Told(p) /\ ~Deserted(p)
  /\ Transmit(p, Source(p), Asking(p))
  /\ phase' = [phase EXCEPT ![p] = "wait"]
  /\ UNCHANGED <<given, history, todo, value, link>>

-----------------------------------------------------------------------------
(* MIMPI_Finalize: p tells everyone it does not know to have finished, then *)
(* joins its receiver threads and closes its ends of the pipes.  The sends  *)
(* are one action: what is on its way may be late by any number of steps    *)
(* as it is, and what the receiver threads still take in meanwhile can only *)
(* spare p a message to a process that is leaving too.                      *)

Finalize(p) ==
  /\ phase[p] = "idle" /\ Finished(p)
  /\ phase' = [phase EXCEPT ![p] = "closing"]
  /\ pipe' = [pipe EXCEPT ![p] = [q \in Ranks |->
                IF q = p \/ Gone(p, q) THEN @[q] ELSE Append(@[q], Message(FINISHED, Nothing))]]
  /\ UNCHANGED <<given, history, todo, value, link>>

Close(p) ==
  /\ phase[p] = "closing"
  /\ phase' = [phase EXCEPT ![p] = "closed"]
  /\ pipe' = [q \in Ranks |-> [pipe[q] EXCEPT ![p] = <<>>]]
  /\ UNCHANGED <<given, history, todo, value, link>>

-----------------------------------------------------------------------------
(* The receiver threads.                                                    *)

(* What the message m does to what p has from its source, and if it signals. *)
Deliver(from, m) ==
  CASE deadlock_detection /\ m.tag = DEADLOCK -> [from EXCEPT !.deadlock = TRUE]
    [] deadlock_detection /\ m.tag = WAITING -> [from EXCEPT !.waiting = TRUE]
    [] deadlock_detection /\ m.tag = SERVED -> [from EXCEPT !.waiting = FALSE]
    [] m.tag = FINISHED -> [from EXCEPT !.finished = TRUE]
    [] m.tag = BARRIER -> [from EXCEPT !.barrier = TRUE]
    [] OTHER -> [from EXCEPT !.buffer = Append(@, m)]

Signals_notFinished(m) == ~(deadlock_detection /\ m.tag = SERVED) /\ m.tag # FINISHED
Signals_notDeadlock(m) == ~(deadlock_detection /\ m.tag \in {SERVED, DEADLOCK})
Signals(m) == ~(deadlock_detection /\ m.tag = SERVED)

Receive(p, i) ==
  /\ phase[p] \notin {"closing", "closed"}
  /\ pipe[i][p] # <<>>
  /\ LET m == Head(pipe[i][p]) IN
     /\ link' = [link EXCEPT ![p][i] = Deliver(@, m)]
     /\ phase' = IF Signals(m) /\ phase[p] = "wait" /\ Source(p) = i
                 THEN [phase EXCEPT ![p] = "woken"] ELSE phase
  /\ pipe' = [pipe EXCEPT ![i][p] = Tail(@)]
  /\ UNCHANGED <<given, history, todo, value>>

-----------------------------------------------------------------------------
Main(p) ==
  \/ Call(p) \/ Refuse(p) \/ SendStep(p)
  \/ RecvBarrier(p) \/ RecvMessage(p) \/ RecvDeadlock(p) \/ RecvToldDeadlock(p)
  \/ RecvFinished(p) \/ RecvWait(p)
  \/ Finalize(p) \/ Close(p)

Next == \E p \in Ranks : Main(p) \/ \E i \in Ranks : Receive(p, i)

Spec == Init /\ [][Next]_vars

-----------------------------------------------------------------------------
(* What programs may expect.                                                *)

TypeOK ==
  /\ [program |-> program, detection |-> deadlock_detection] \in Setups
  /\ phase \in [Ranks -> {"idle", "busy", "wait", "woken", "closing", "closed"}]
  /\ \A p \in Ranks : Len(log[p]) <= Len(program[p])
  /\ \A p \in Ranks : phase[p] \in {"busy", "wait", "woken"} => Len(log[p]) < Len(program[p])
  /\ stray \subseteq Ranks
  /\ \A p, q \in Ranks : \A k \in DOMAIN pipe[p][q] : pipe[p][q][k].tag >= SERVED
  /\ \A p, i \in Ranks : \A k \in DOMAIN link[p][i].buffer :
       link[p][i].buffer[k].tag \notin {FINISHED, BARRIER}

Succeeded(p, k) == k \in DOMAIN log[p] /\ log[p][k].code = "SUCCESS"

(* The positions of the receives of p from i that got data: the position at *)
(* which i sent it.                                                         *)
Got(p, i) ==
  {k \in DOMAIN log[p] : /\ program[p][k].call = "recv" /\ program[p][k].peer = i
                         /\ Succeeded(p, k) /\ log[p][k].data # Nothing}

(* The messages i sends p, by their positions, which a receive c would take. *)
Fitting(i, p, c) ==
  {m \in DOMAIN program[i] : /\ program[i][m].call = "send" /\ program[i][m].peer = p
                             /\ c.tag \in {ANY, program[i][m].tag}}

(* MIMPI_Recv takes messages of one sender in the order in which they were  *)
(* sent: it gets the first one that fits and no earlier receive has got,    *)
(* though other messages, of other tags, may be waiting before it.          *)
ReceivesInOrder ==
  \A p, i \in Ranks : \A k \in Got(p, i) :
    LET earlier == {log[p][l].data : l \in {l \in Got(p, i) : l < k}}
        open == Fitting(i, p, program[p][k]) \ earlier
    IN  log[p][k].data \in open /\ \A m \in open : log[p][k].data <= m

(* No wakeup is lost: a process sleeps on cond[source] only while it would  *)
(* find nothing if it looked, also when the source leaves without a word.   *)
NoLostWakeup ==
  \A p \in Ranks : phase[p] = "wait" =>
    ~Served(p) /\ ~ToldOff(p) /\ ~Told(p) /\ ~Deserted(p)

(* How many barriers p has passed, and how many it has begun.               *)
NumberOf(p, K) == Cardinality({k \in K : program[p][k].call = "barrier"})
Passed(p) == NumberOf(p, {k \in DOMAIN log[p] : Succeeded(p, k)})
Begun(p) == NumberOf(p, DOMAIN log[p]) + (IF phase[p] \in {"busy", "wait", "woken"}
                                            /\ Now(p).call = "barrier" THEN 1 ELSE 0)

(* Nobody passes a barrier that somebody has not come to: MIMPI_Barrier     *)
(* goes up the tree and down again, and a flag per neighbour is enough.     *)
BarrierHolds ==
  ~deadlock_detection => \A p, q \in Ranks : Passed(p) <= Begun(q)

(* All processes make the same calls, all of the whole group.               *)
SameCalls ==
  /\ \A p, q \in Ranks : program[p] = program[q]
  /\ \A k \in DOMAIN program[0] : IsGroup(program[0][k])

(* Right before a barrier there is another one or a broadcast from 0.       *)
Careful ==
  \A k \in DOMAIN program[0] : k > 1 /\ program[0][k].call = "barrier" =>
    \/ program[0][k - 1].call = "barrier"
    \/ program[0][k - 1].call = "bcast" /\ program[0][k - 1].root = 0

(* A message of a barrier ends whatever receive it finds.  What keeps the   *)
(* barrier of a process ahead from ending the reduction or broadcast of one *)
(* that is behind: its neighbours have not come that far.                   *)
NoStray == ~deadlock_detection /\ SameCalls /\ Careful => stray = {}

MimpiInv == TypeOK /\ NoStray

Total(c) ==
  LET data == [k \in 1..world_size |-> c.data[k - 1]]
  IN  FoldLeft(LAMBDA a, b : Combine(c.op, a, b), data[1], Tail(data))

(* If none of them has been cut short that way, a broadcast leaves with     *)
(* everyone what its root has sent in the same call, and a reduction with   *)
(* its root the combined data of everyone in that call: also when its       *)
(* neighbours are in the next call already and have sent messages of the    *)
(* same tag, which lie in the buffer beside those awaited.                  *)
GroupResults ==
  ~deadlock_detection /\ SameCalls /\ stray = {} =>
    \A p \in Ranks : \A k \in {k \in DOMAIN log[p] : Succeeded(p, k)} :
      LET c == program[p][k] IN
      /\ c.call = "bcast" => log[p][k].data = c.data
      /\ c.call = "reduce" /\ p = c.root => log[p][k].data = Total(c)

(* Nobody can go on: all that is left are processes waiting for each other. *)
Quiescent ==
  \A p \in Ranks : \/ phase[p] = "closed"
                   \/ phase[p] = "wait" /\ \A i \in Ranks : pipe[i][p] = <<>>

(* Group calls made by all processes, with the barriers placed with care,   *)
(* come to an end, and all of them with success.                            *)
Completes ==
  Quiescent /\ ~deadlock_detection /\ SameCalls /\ Careful =>
    \A p \in Ranks : phase[p] = "closed" /\ \A k \in DOMAIN log[p] : Succeeded(p, k)

(* With detection, no two processes are left waiting for each other, though *)
(* either may have been told of a deadlock, rightly or not, before.         *)
DetectsDeadlock ==
  Quiescent /\ deadlock_detection =>
    \A p, q \in Ranks : ~(/\ phase[p] = "wait" /\ Source(p) = q
                          /\ phase[q] = "wait" /\ Source(q) = p)
=============================================================================
