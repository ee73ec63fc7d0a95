---------------------------- MODULE SimpleQueue ----------------------------
(***************************************************************************)
(* non-blocking-queues/SimpleQueue.c: a list with a dummy node, a mutex    *)
(* for its head and a mutex for its tail.                                  *)
(*                                                                         *)
(* One action is one stretch of code that touches shared state once.       *)
(* Everything a thread does under the head mutex is invisible to other     *)
(* poppers, and likewise for the tail; what interleaves is a pusher with a *)
(* popper, which meet in `next` of the last node.  Addresses are reused:   *)
(* a freed node may be the next one malloc returns.  malloc succeeds       *)
(* (push does not test its result), which is what Room bounds.             *)
(*                                                                         *)
(* Definitions named X_what are X with a bug the code does not have.       *)
(*                                                                         *)
(* `chain` is a history variable: the nodes from the head on, as they were *)
(* linked.  No action of the code reads it.                                *)
(***************************************************************************)
EXTENDS Naturals, Sequences, FiniteSets

CONSTANTS Threads, Values, EMPTY_VALUE, Addr, NULL

ASSUME SimpleQueueAssumption ==
  /\ EMPTY_VALUE \notin Values
  /\ NULL \notin Addr
  /\ Addr # {}

NoThread == "no thread"
ASSUME NoThreadAssumption == NoThread \notin Threads

VARIABLES
  head, tail,           \* queue->head, queue->tail
  head_mtx, tail_mtx,   \* the thread that holds the mutex, or NoThread
  next, item,           \* the two fields of every address
  live,                 \* the addresses malloc returned and nobody freed
  pc,                   \* where each thread is
  value,                \* the item to push, or the item popped
  node,                 \* new_node of a pusher, pop_node or head_node of a popper
  cursor,               \* `node` of SimpleQueue_delete, NULL when it is not running
  open,                 \* FALSE from SimpleQueue_delete to SimpleQueue_new
  chain

shared == <<head, tail, head_mtx, tail_mtx, next, item, live>>
locals == <<pc, value, node>>
owner == <<cursor, open>>
vars == <<shared, locals, owner, chain>>

Places == {"idle", "push_lock", "push_link", "push_swing",
           "pop_lock", "pop_load", "pop_take", "pop_free", "pop_empty",
           "empty_lock", "empty_load", "was_empty", "was_not_empty"}

TypeOK ==
  /\ head \in Addr \cup {NULL}
  /\ tail \in Addr \cup {NULL}
  /\ head_mtx \in Threads \cup {NoThread}
  /\ tail_mtx \in Threads \cup {NoThread}
  /\ next \in [Addr -> Addr \cup {NULL}]
  /\ item \in [Addr -> Values \cup {EMPTY_VALUE}]
  /\ live \in SUBSET Addr
  /\ pc \in [Threads -> Places]
  /\ value \in [Threads -> Values \cup {EMPTY_VALUE}]
  /\ node \in [Threads -> Addr \cup {NULL}]
  /\ cursor \in Addr \cup {NULL}
  /\ open \in BOOLEAN
  /\ chain \in Seq(Addr)

-----------------------------------------------------------------------------
(* malloc and SimpleQueueNode_new: some address nobody uses, initialised.  *)
(* free: the contents of a freed node are of no use to anybody.            *)

Fresh(a) == a \in Addr \ live

Allocated(a) == live' = live \cup {a}

Freed_keeps(a) == live' = live

Freed(a) == live' = live \ {a}

(* The dummy node of an empty queue at address a. *)
EmptyQueueAt(a) ==
  /\ head = a
  /\ tail = a
  /\ live = {a}
  /\ next = [x \in Addr |-> NULL]
  /\ item = [x \in Addr |-> EMPTY_VALUE]
  /\ chain = <<a>>

Init ==
  /\ \E a \in Addr : EmptyQueueAt(a)
  /\ head_mtx = NoThread
  /\ tail_mtx = NoThread
  /\ pc = [t \in Threads |-> "idle"]
  /\ value = [t \in Threads |-> EMPTY_VALUE]
  /\ node = [t \in Threads |-> NULL]
  /\ cursor = NULL
  /\ open = TRUE

Goto(t, place) == pc' = [pc EXCEPT ![t] = place]
From(t, here, there) == pc[t] = here /\ Goto(t, there)

-----------------------------------------------------------------------------
(* SimpleQueue_push *)

(* Enough memory for the pushes in progress and this one: malloc succeeds. *)
Room ==
  Cardinality(live) + Cardinality({t \in Threads : pc[t] \in {"push_lock", "push_link"}})
    < Cardinality(Addr)

CallPush(t, v) ==
  /\ open /\ Room
  /\ From(t, "idle", "push_lock")
  /\ value' = [value EXCEPT ![t] = v]
  /\ UNCHANGED <<shared, node, owner, chain>>

LockTail(t) ==
  /\ From(t, "push_lock", "push_link")
  /\ tail_mtx = NoThread
  /\ tail_mtx' = t
  /\ UNCHANGED <<head, tail, head_mtx, next, item, live, value, node, owner, chain>>

(* SimpleQueueNode_new, then the store to queue->tail->next. *)
PushLink(t) ==
  /\ From(t, "push_link", "push_swing")
  /\ \E a \in Addr :
       /\ Fresh(a)
       /\ Allocated(a)
       /\ next' = [next EXCEPT ![a] = NULL, ![tail] = a]
       /\ item' = [item EXCEPT ![a] = value[t]]
       /\ node' = [node EXCEPT ![t] = a]
       /\ chain' = Append(chain, a)
  /\ value' = [value EXCEPT ![t] = EMPTY_VALUE]
  /\ UNCHANGED <<head, tail, head_mtx, tail_mtx, owner>>

(* queue->tail = new_node, unlock, return. *)
PushSwing(t) ==
  /\ From(t, "push_swing", "idle")
  /\ tail' = node[t]
  /\ tail_mtx' = NoThread
  /\ node' = [node EXCEPT ![t] = NULL]
  /\ UNCHANGED <<head, head_mtx, next, item, live, value, owner, chain>>

-----------------------------------------------------------------------------
(* SimpleQueue_pop *)

CallPop(t) ==
  /\ open
  /\ From(t, "idle", "pop_lock")
  /\ UNCHANGED <<shared, value, node, owner, chain>>

LockHead_twice(t) ==
  /\ From(t, "pop_lock", "pop_load") \/ From(t, "empty_lock", "empty_load")
  /\ head_mtx' = t
  /\ UNCHANGED <<head, tail, tail_mtx, next, item, live, value, node, owner, chain>>

LockHead(t) ==
  /\ \/ From(t, "pop_lock", "pop_load")
     \/ From(t, "empty_lock", "empty_load")
  /\ head_mtx = NoThread
  /\ head_mtx' = t
  /\ UNCHANGED <<head, tail, tail_mtx, next, item, live, value, node, owner, chain>>

(* pop_node = atomic_load(&queue->head->next) and the test for NULL. *)
PopLoad(t) ==
  /\ \/ next[head] = NULL /\ From(t, "pop_load", "pop_empty")
     \/ next[head] # NULL /\ From(t, "pop_load", "pop_take")
  /\ node' = [node EXCEPT ![t] = next[head]]
  /\ UNCHANGED <<shared, value, owner, chain>>

PoppedItem_ofDummy(t) == item[head]

PoppedItem(t) == item[node[t]]

(* item = pop_node->item; queue->head = pop_node; node keeps head_node. *)
PopTake(t) ==
  /\ From(t, "pop_take", "pop_free")
  /\ value' = [value EXCEPT ![t] = PoppedItem(t)]
  /\ head' = node[t]
  /\ node' = [node EXCEPT ![t] = head]
  /\ chain' = Tail(chain)
  /\ UNCHANGED <<tail, head_mtx, tail_mtx, next, item, live, owner>>

(* free(head_node), unlock, return item. *)
PopFree(t) ==
  /\ From(t, "pop_free", "idle")
  /\ Freed(node[t])
  /\ next' = [next EXCEPT ![node[t]] = NULL]
  /\ item' = [item EXCEPT ![node[t]] = EMPTY_VALUE]
  /\ node' = [node EXCEPT ![t] = NULL]
  /\ value' = [value EXCEPT ![t] = EMPTY_VALUE]
  /\ head_mtx' = NoThread
  /\ UNCHANGED <<head, tail, tail_mtx, owner, chain>>

PopEmpty_locked(t) == From(t, "pop_empty", "idle") /\ UNCHANGED <<shared, value, node, owner, chain>>

(* Unlock and return EMPTY_VALUE. *)
PopEmpty(t) ==
  /\ From(t, "pop_empty", "idle")
  /\ head_mtx' = NoThread
  /\ UNCHANGED <<head, tail, tail_mtx, next, item, live, value, node, owner, chain>>

-----------------------------------------------------------------------------
(* SimpleQueue_is_empty *)

CallIsEmpty(t) ==
  /\ open
  /\ From(t, "idle", "empty_lock")
  /\ UNCHANGED <<shared, value, node, owner, chain>>

IsEmptyLoad(t) ==
  /\ \/ next[head] = NULL /\ From(t, "empty_load", "was_empty")
     \/ next[head] # NULL /\ From(t, "empty_load", "was_not_empty")
  /\ UNCHANGED <<shared, value, node, owner, chain>>

IsEmptyReturn(t) ==
  /\ \/ From(t, "was_empty", "idle")
     \/ From(t, "was_not_empty", "idle")
  /\ head_mtx' = NoThread
  /\ UNCHANGED <<head, tail, tail_mtx, next, item, live, value, node, owner, chain>>

-----------------------------------------------------------------------------
(* SimpleQueue_delete and SimpleQueue_new, which the owner of the queue    *)
(* calls when no thread is inside an operation.                            *)

DeleteStart ==
  /\ open
  /\ \A t \in Threads : pc[t] = "idle"
  /\ open' = FALSE
  /\ cursor' = head
  /\ UNCHANGED <<shared, locals, chain>>

DeleteNode ==
  /\ cursor # NULL
  /\ cursor' = next[cursor]
  /\ Freed(cursor)
  /\ next' = [next EXCEPT ![cursor] = NULL]
  /\ item' = [item EXCEPT ![cursor] = EMPTY_VALUE]
  /\ chain' = Tail(chain)
  /\ UNCHANGED <<head, tail, head_mtx, tail_mtx, locals, open>>

New ==
  /\ ~open
  /\ cursor = NULL
  /\ open' = TRUE
  /\ \E a \in Addr :
       /\ Fresh(a)
       /\ Allocated(a)
       /\ head' = a
       /\ tail' = a
       /\ next' = [next EXCEPT ![a] = NULL]
       /\ item' = [item EXCEPT ![a] = EMPTY_VALUE]
       /\ chain' = <<a>>
  /\ UNCHANGED <<head_mtx, tail_mtx, locals, cursor>>

-----------------------------------------------------------------------------
Invoke(t) == CallPop(t) \/ CallIsEmpty(t) \/ \E v \in Values : CallPush(t, v)

(* The last step of an operation. *)
Return(t) == PushSwing(t) \/ PopFree(t) \/ PopEmpty(t) \/ IsEmptyReturn(t)

(* What thread t does once inside an operation. *)
Step(t) ==
  \/ LockTail(t) \/ PushLink(t)
  \/ LockHead(t) \/ PopLoad(t) \/ PopTake(t)
  \/ IsEmptyLoad(t)
  \/ Return(t)

Next ==
  \/ \E t \in Threads : Invoke(t) \/ Step(t)
  \/ DeleteStart \/ DeleteNode \/ New

Spec == Init /\ [][Next]_vars

(* The operating system runs every thread that can run.  It owes nobody a  *)
(* call, and a mutex is not fair: a waiter may be overtaken for ever.      *)
FairSpec == Spec /\ \A t \in Threads : WF_vars(Step(t))

-----------------------------------------------------------------------------
(* Who holds which mutex. *)
HoldsTail(t) == pc[t] \in {"push_link", "push_swing"}
HoldsHead(t) == pc[t] \in {"pop_load", "pop_take", "pop_free", "pop_empty",
                           "empty_load", "was_empty", "was_not_empty"}

MutexInv ==
  \A t \in Threads : (head_mtx = t <=> HoldsHead(t)) /\ (tail_mtx = t <=> HoldsTail(t))

(* No step reads or writes a node that was freed (l.76, 88, 95, 98, 109    *)
(* and 61): the popper frees the node that queue->tail points to when it   *)
(* overtakes a pusher between l.76 and l.77, and nobody must notice.       *)
NoUseAfterFree ==
  /\ \A t \in Threads :
       /\ pc[t] = "push_link" => tail \in live
       /\ pc[t] \in {"pop_load", "pop_take", "empty_load"} => head \in live
       /\ pc[t] \in {"pop_take", "pop_free"} => node[t] \in live
  /\ cursor # NULL => cursor \in live

(* The nodes of `chain` are distinct, linked in that order, and end the list. *)
ChainInv ==
  /\ \A i, j \in 1..Len(chain) : chain[i] = chain[j] => i = j
  /\ \A i \in 1..Len(chain) :
       next[chain[i]] = IF i = Len(chain) THEN NULL ELSE chain[i + 1]
  /\ open => chain # <<>> /\ head = chain[1] /\ cursor = NULL
  /\ ~open /\ chain # <<>> => cursor = chain[1]
  /\ ~open /\ chain = <<>> => cursor = NULL
  /\ ~open => \A t \in Threads : pc[t] = "idle"

InChain(a) == \E i \in 1..Len(chain) : chain[i] = a

(* Between l.76 and l.77 queue->tail points behind the last node, perhaps   *)
(* to a node that is gone; at any other time it points to the last node.    *)
TailInv ==
  /\ open /\ (\A t \in Threads : pc[t] # "push_swing") => tail = chain[Len(chain)]
  /\ \A t \in Threads : pc[t] = "push_swing" => node[t] = chain[Len(chain)]

(* Every live node is in the list, or is the old dummy its popper is about *)
(* to free: nothing leaks, nothing is freed twice.                         *)
LiveInv ==
  /\ \A i \in 1..Len(chain) : chain[i] \in live
  /\ \A t \in Threads : pc[t] = "pop_free" => node[t] \in live /\ ~InChain(node[t])
  /\ \A a \in live : InChain(a) \/ \E t \in Threads : pc[t] = "pop_free" /\ node[t] = a

(* What a popper has read is still so. *)
PopInv ==
  \A t \in Threads :
    pc[t] = "pop_take" => Len(chain) > 1 /\ node[t] = chain[2]

(* The item of a call is kept only as long as it is needed. *)
ValueInv ==
  \A t \in Threads :
    pc[t] \in {"push_lock", "push_link", "pop_free"} \/ value[t] = EMPTY_VALUE

IInv == TypeOK /\ MutexInv /\ ChainInv /\ TailInv /\ LiveInv /\ PopInv /\ ValueInv

(* SimpleQueue_delete leaves no node behind. *)
NoLeak == ~open /\ cursor = NULL => live = {}

(* Memory is safe with the queue: nothing freed is touched and nothing is   *)
(* left, whatever calls came before it was deleted.                         *)
MemorySafe == NoUseAfterFree /\ NoLeak

-----------------------------------------------------------------------------
(* SimpleQueue implements FifoQueue. *)

Contents == [i \in 1..(Len(chain) - 1) |-> item[chain[i + 1]]]

abstractItems == IF open THEN Contents ELSE <<>>

CallAt(place) ==
  CASE place = "idle" -> "idle"
    [] place \in {"push_lock", "push_link"} -> "push"
    [] place = "push_swing" -> "pushed"
    [] place \in {"pop_lock", "pop_load", "pop_take"} -> "pop"
    [] place \in {"pop_free", "pop_empty"} -> "popped"
    [] place \in {"empty_lock", "empty_load"} -> "is_empty"
    [] place = "was_empty" -> "empty"
    [] place = "was_not_empty" -> "not_empty"

abstractOp == [t \in Threads |-> [call |-> CallAt(pc[t]), item |-> value[t]]]

abstractSeen == [t \in Threads |-> {}]

Fifo == INSTANCE FifoQueue WITH items <- abstractItems, op <- abstractOp, seen <- abstractSeen

(* Every operation takes effect in one instant between its call and its    *)
(* return, on a first-in first-out queue: push at l.76, pop at l.96, an    *)
(* empty pop at l.88, is_empty at l.109.                                   *)
IsFifoQueue == Fifo!FifoSpec

(* Whatever the threads call, some operation always returns unless none is *)
(* in progress: the two mutexes cannot block everybody.                    *)
AllIdle == \A t \in Threads : pc[t] = "idle"
SomeReturn == \E t \in Threads : Return(t)
Progress == []<>AllIdle \/ []<><<SomeReturn>>_vars

=============================================================================
