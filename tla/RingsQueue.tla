----------------------------- MODULE RingsQueue -----------------------------
(***************************************************************************)
(* non-blocking-queues/RingsQueue.c: a list of rings of RING_SIZE items, a *)
(* mutex for pushing and a mutex for popping.                              *)
(*                                                                         *)
(* A ring is reused as long as the popper keeps up; when the pusher finds  *)
(* it full it appends a ring and never returns to the old one, which the   *)
(* popper frees once it has drained it.  A pusher and a popper share       *)
(* push_idx, pop_idx, next and the slots of the buffer, and read them one  *)
(* after the other.  One action is one access to what is shared; loads of  *)
(* words only the holder of the thread's own mutex writes are joined to    *)
(* the action that follows.                                                *)
(*                                                                         *)
(* Addresses are reused and malloc succeeds, which Room bounds; IndexBound *)
(* caps the pushes into one ring.  Two variables are history: `chain`, the *)
(* rings from the head on, and `queued`, the slots of the items that were  *)
(* pushed and not popped.  Definitions named X_what are X with a bug the   *)
(* code does not have.                                                     *)
(***************************************************************************)
EXTENDS Naturals, Sequences, FiniteSets

CONSTANTS Threads, Values, EMPTY_VALUE, Addr, NULL, RING_SIZE, IndexBound

NoThread == "no thread"

ASSUME RingsQueueAssumption ==
  /\ EMPTY_VALUE \notin Values
  /\ NULL \notin Addr
  /\ NoThread \notin Threads
  /\ IsFiniteSet(Threads)
  /\ RING_SIZE \in Nat \ {0}
  /\ IndexBound \in Nat

VARIABLES
  head, tail, pop_mtx, push_mtx,      \* RingsQueue
  next, buffer, push_idx, pop_idx,    \* RingsQueueNode, by address
  live,                               \* malloced and not freed
  pc, my,                             \* where each thread is, and its locals
  cursor, open,                       \* RingsQueue_delete, and whether the queue exists
  chain, queued

ring == <<next, buffer, push_idx, pop_idx>>
locks == <<pop_mtx, push_mtx>>
owner == <<cursor, open>>
history == <<chain, queued>>
vars == <<head, tail, locks, ring, live, pc, my, owner, history>>

Slots == 0..(RING_SIZE - 1)
Indices == 0..(IndexBound + 1)
Item == Values \cup {EMPTY_VALUE}
Node == Addr \cup {NULL}
Slot(a, i) == [ring |-> a, index |-> i]

Places == {"idle", "push_lock", "push_load", "push_write", "push_publish", "push_new",
           "push_swing", "push_unlock", "pop_lock", "pop_load_next", "pop_load_idx",
           "pop_advance", "pop_read", "pop_take", "popped",
           "empty_lock", "empty_load_idx", "empty_load_next", "was_empty", "was_not_empty"}

(* The locals that outlive one action: the item, new_node or next_node, and *)
(* head_push_idx of is_empty.                                               *)
Blank == [item |-> EMPTY_VALUE, node |-> NULL, push_idx |-> 0]

TypeOK ==
  /\ head \in Node /\ tail \in Node
  /\ pop_mtx \in Threads \cup {NoThread} /\ push_mtx \in Threads \cup {NoThread}
  /\ next \in [Addr -> Node]
  /\ buffer \in [Addr -> [Slots -> Item]]
  /\ push_idx \in [Addr -> Indices] /\ pop_idx \in [Addr -> Indices]
  /\ live \subseteq Addr
  /\ pc \in [Threads -> Places]
  /\ my \in [Threads -> [item : Item, node : Node, push_idx : Indices]]
  /\ cursor \in Node /\ open \in BOOLEAN
  /\ chain \in Seq(Addr)
  /\ queued \in Seq([ring : Addr, index : Nat])

-----------------------------------------------------------------------------
NoItems == [s \in Slots |-> EMPTY_VALUE]

Init ==
  /\ \E a \in Addr : head = a /\ tail = a /\ live = {a} /\ chain = <<a>>
  /\ pop_mtx = NoThread /\ push_mtx = NoThread
  /\ next = [a \in Addr |-> NULL]
  /\ buffer = [a \in Addr |-> NoItems]
  /\ push_idx = [a \in Addr |-> 0] /\ pop_idx = [a \in Addr |-> 0]
  /\ pc = [t \in Threads |-> "idle"]
  /\ my = [t \in Threads |-> Blank]
  /\ cursor = NULL /\ open = TRUE
  /\ queued = <<>>

From(t, here, there) == pc[t] = here /\ pc' = [pc EXCEPT ![t] = there]

(* RingsQueueNode_new at address a; its buffer is whatever free left there. *)
Malloc(a) == a \notin live /\ live' = live \cup {a}

(* free(a): what a freed ring holds is of no use to anybody. *)
Free(a) ==
  /\ live' = live \ {a}
  /\ next' = [next EXCEPT ![a] = NULL]
  /\ buffer' = [buffer EXCEPT ![a] = NoItems]
  /\ push_idx' = [push_idx EXCEPT ![a] = 0]
  /\ pop_idx' = [pop_idx EXCEPT ![a] = 0]

-----------------------------------------------------------------------------
(* RingsQueue_push *)

Pushers == {t \in Threads : pc[t] \in {"push_lock", "push_load", "push_write",
                                       "push_publish", "push_new"}}

(* Memory for the pushes in progress and one more, and indices below the cap. *)
Room ==
  /\ Cardinality(live) + Cardinality(Pushers) < Cardinality(Addr)
  /\ \A a \in live : push_idx[a] + Cardinality(Pushers) < IndexBound

CallPush(t, v) ==
  /\ open /\ Room
  /\ From(t, "idle", "push_lock")
  /\ my' = [my EXCEPT ![t].item = v]
  /\ UNCHANGED <<head, tail, locks, ring, live, owner, history>>

LockPush(t) ==
  /\ From(t, "push_lock", "push_load")
  /\ push_mtx = NoThread /\ push_mtx' = t
  /\ UNCHANGED <<head, tail, pop_mtx, ring, live, my, owner, history>>

FindsSlot_oneMore(a) == push_idx[a] - pop_idx[a] <= RING_SIZE

FindsSlot(a) == push_idx[a] - pop_idx[a] < RING_SIZE

(* Both indices of the tail: pop_idx may be old by the time it is used. *)
PushLoad(t) ==
  /\ \/ FindsSlot(tail) /\ From(t, "push_load", "push_write")
     \/ ~FindsSlot(tail) /\ From(t, "push_load", "push_new")
  /\ UNCHANGED <<head, tail, locks, ring, live, my, owner, history>>

PushWrite(t) ==
  /\ From(t, "push_write", "push_publish")
  /\ buffer' = [buffer EXCEPT ![tail][push_idx[tail] % RING_SIZE] = my[t].item]
  /\ my' = [my EXCEPT ![t] = Blank]
  /\ UNCHANGED <<head, tail, locks, next, push_idx, pop_idx, live, owner, history>>

PushPublish(t) ==
  /\ From(t, "push_publish", "push_unlock")
  /\ push_idx' = [push_idx EXCEPT ![tail] = @ + 1]
  /\ queued' = Append(queued, Slot(tail, push_idx[tail]))
  /\ UNCHANGED <<head, tail, locks, next, buffer, pop_idx, live, my, owner, chain>>

(* A ring with the item in its first slot, then the store to tail->next. *)
PushNew(t) ==
  /\ From(t, "push_new", "push_swing")
  /\ \E a \in Addr :
       /\ Malloc(a)
       /\ next' = [next EXCEPT ![a] = NULL, ![tail] = a]
       /\ buffer' = [buffer EXCEPT ![a][0] = my[t].item]
       /\ push_idx' = [push_idx EXCEPT ![a] = 1]
       /\ pop_idx' = [pop_idx EXCEPT ![a] = 0]
       /\ my' = [my EXCEPT ![t] = [Blank EXCEPT !.node = a]]
       /\ chain' = Append(chain, a)
       /\ queued' = Append(queued, Slot(a, 0))
  /\ UNCHANGED <<head, tail, locks, owner>>

PushSwing(t) ==
  /\ From(t, "push_swing", "push_unlock")
  /\ tail' = my[t].node
  /\ my' = [my EXCEPT ![t] = Blank]
  /\ UNCHANGED <<head, locks, ring, live, owner, history>>

PushReturn(t) ==
  /\ From(t, "push_unlock", "idle")
  /\ push_mtx' = NoThread
  /\ UNCHANGED <<head, tail, pop_mtx, ring, live, my, owner, history>>

-----------------------------------------------------------------------------
(* RingsQueue_pop *)

CallPop(t) ==
  /\ open
  /\ From(t, "idle", "pop_lock")
  /\ UNCHANGED <<head, tail, locks, ring, live, my, owner, history>>

LockPop(t) ==
  /\ \/ From(t, "pop_lock", "pop_load_next")
     \/ From(t, "empty_lock", "empty_load_idx")
  /\ pop_mtx = NoThread /\ pop_mtx' = t
  /\ UNCHANGED <<head, tail, push_mtx, ring, live, my, owner, history>>

(* next_node is loaded before push_idx: a ring whose next_node is set gets *)
(* no more items, so equal indices then mean it is drained for good.       *)
PopLoadNext(t) ==
  /\ From(t, "pop_load_next", "pop_load_idx")
  /\ my' = [my EXCEPT ![t].node = next[head]]
  /\ UNCHANGED <<head, tail, locks, ring, live, owner, history>>

Drained(a) == pop_idx[a] = push_idx[a]

PopLoadIdx_thenNext(t) ==
  /\ \/ Drained(head) /\ next[head] = NULL /\ From(t, "pop_load_idx", "popped")
     \/ Drained(head) /\ next[head] # NULL /\ From(t, "pop_load_idx", "pop_advance")
     \/ ~Drained(head) /\ next[head] = NULL /\ From(t, "pop_load_idx", "pop_read")
     \/ ~Drained(head) /\ next[head] # NULL /\ From(t, "pop_load_idx", "pop_advance")
  /\ my' = [my EXCEPT ![t].node = next[head]]
  /\ UNCHANGED <<head, tail, locks, ring, live, owner, history>>

PopLoadIdx(t) ==
  /\ \/ Drained(head) /\ my[t].node = NULL /\ From(t, "pop_load_idx", "popped")
     \/ Drained(head) /\ my[t].node # NULL /\ From(t, "pop_load_idx", "pop_advance")
     \/ ~Drained(head) /\ From(t, "pop_load_idx", "pop_read")
  /\ UNCHANGED <<head, tail, locks, ring, live, my, owner, history>>

(* queue->head = next_node; free(head_node); and round again. *)
PopAdvance(t) ==
  /\ From(t, "pop_advance", "pop_load_next")
  /\ head' = my[t].node
  /\ Free(head)
  /\ my' = [my EXCEPT ![t] = Blank]
  /\ chain' = Tail(chain)
  /\ UNCHANGED <<tail, locks, owner, queued>>

PopRead(t) ==
  /\ From(t, "pop_read", "pop_take")
  /\ my' = [my EXCEPT ![t] = [Blank EXCEPT !.item = buffer[head][pop_idx[head] % RING_SIZE]]]
  /\ UNCHANGED <<head, tail, locks, ring, live, owner, history>>

PopTake(t) ==
  /\ From(t, "pop_take", "popped")
  /\ pop_idx' = [pop_idx EXCEPT ![head] = @ + 1]
  /\ queued' = Tail(queued)
  /\ UNCHANGED <<head, tail, locks, next, buffer, push_idx, live, my, owner, chain>>

(* Unlock; return the item, or EMPTY_VALUE. *)
PopReturn(t) ==
  /\ From(t, "popped", "idle")
  /\ pop_mtx' = NoThread
  /\ my' = [my EXCEPT ![t] = Blank]
  /\ UNCHANGED <<head, tail, push_mtx, ring, live, owner, history>>

-----------------------------------------------------------------------------
(* RingsQueue_is_empty: here next_node is loaded after the indices. *)

CallIsEmpty(t) ==
  /\ open
  /\ From(t, "idle", "empty_lock")
  /\ UNCHANGED <<head, tail, locks, ring, live, my, owner, history>>

IsEmptyLoadIdx(t) ==
  /\ From(t, "empty_load_idx", "empty_load_next")
  /\ my' = [my EXCEPT ![t].push_idx = push_idx[head]]
  /\ UNCHANGED <<head, tail, locks, ring, live, owner, history>>

FoundEmpty(t) == my[t].push_idx = pop_idx[head] /\ next[head] = NULL

IsEmptyLoadNext(t) ==
  /\ \/ FoundEmpty(t) /\ From(t, "empty_load_next", "was_empty")
     \/ ~FoundEmpty(t) /\ From(t, "empty_load_next", "was_not_empty")
  /\ my' = [my EXCEPT ![t] = Blank]
  /\ UNCHANGED <<head, tail, locks, ring, live, owner, history>>

IsEmptyReturn_locked(t) ==
  /\ From(t, "was_empty", "idle") \/ From(t, "was_not_empty", "idle")
  /\ UNCHANGED <<head, tail, locks, ring, live, my, owner, history>>

IsEmptyReturn(t) ==
  /\ \/ From(t, "was_empty", "idle")
     \/ From(t, "was_not_empty", "idle")
  /\ pop_mtx' = NoThread
  /\ UNCHANGED <<head, tail, push_mtx, ring, live, my, owner, history>>

-----------------------------------------------------------------------------
(* RingsQueue_delete and RingsQueue_new, called when nobody is inside. *)

DeleteStart ==
  /\ open /\ \A t \in Threads : pc[t] = "idle"
  /\ open' = FALSE
  /\ cursor' = head
  /\ queued' = <<>>
  /\ UNCHANGED <<head, tail, locks, ring, live, pc, my, chain>>

DeleteNode ==
  /\ cursor # NULL
  /\ cursor' = next[cursor]
  /\ Free(cursor)
  /\ chain' = Tail(chain)
  /\ UNCHANGED <<head, tail, locks, pc, my, open, queued>>

New ==
  /\ ~open /\ cursor = NULL
  /\ open' = TRUE
  /\ \E a \in Addr : Malloc(a) /\ head' = a /\ tail' = a /\ chain' = <<a>>
  /\ UNCHANGED <<locks, ring, pc, my, cursor, queued>>

-----------------------------------------------------------------------------
Invoke(t) == CallPop(t) \/ CallIsEmpty(t) \/ \E v \in Values : CallPush(t, v)

Return(t) == PushReturn(t) \/ PopReturn(t) \/ IsEmptyReturn(t)

Step(t) ==
  \/ LockPush(t) \/ PushLoad(t) \/ PushWrite(t) \/ PushPublish(t) \/ PushNew(t) \/ PushSwing(t)
  \/ LockPop(t) \/ PopLoadNext(t) \/ PopLoadIdx(t) \/ PopAdvance(t) \/ PopRead(t) \/ PopTake(t)
  \/ IsEmptyLoadIdx(t) \/ IsEmptyLoadNext(t)
  \/ Return(t)

Next ==
  \/ \E t \in Threads : Invoke(t) \/ Step(t)
  \/ DeleteStart \/ DeleteNode \/ New

Spec == Init /\ [][Next]_vars

(* Every thread that can run is run; the mutexes are not fair. *)
FairSpec == Spec /\ \A t \in Threads : WF_vars(Step(t))

-----------------------------------------------------------------------------
HasPush(t) == pc[t] \in {"push_load", "push_write", "push_publish", "push_new", "push_swing",
                         "push_unlock"}
HasPop(t) == pc[t] \in {"pop_load_next", "pop_load_idx", "pop_advance", "pop_read", "pop_take",
                        "popped", "empty_load_idx", "empty_load_next", "was_empty",
                        "was_not_empty"}
AtTail(t) == pc[t] \in {"push_load", "push_write", "push_publish", "push_new"}
AtHead(t) == pc[t] \in {"pop_load_next", "pop_load_idx", "pop_advance", "pop_read", "pop_take",
                        "empty_load_idx", "empty_load_next"}

(* One thread pushes and one pops or looks. *)
MutexInv ==
  \A t \in Threads : (push_mtx = t <=> HasPush(t)) /\ (pop_mtx = t <=> HasPop(t))

(* The rings of `chain` are distinct, linked in that order, and end the list. *)
ChainInv ==
  /\ \A i, j \in 1..Len(chain) : chain[i] = chain[j] => i = j
  /\ \A i \in 1..Len(chain) :
       next[chain[i]] = IF i = Len(chain) THEN NULL ELSE chain[i + 1]
  /\ open => chain # <<>> /\ head = chain[1] /\ cursor = NULL
  /\ ~open /\ chain # <<>> => cursor = chain[1]
  /\ ~open /\ chain = <<>> => cursor = NULL
  /\ ~open => \A t \in Threads : pc[t] = "idle"

(* queue->tail is the last ring but between the stores of l.93 and l.94. *)
TailInv ==
  /\ open /\ (\A t \in Threads : pc[t] # "push_swing") => tail = chain[Len(chain)]
  /\ \A t \in Threads : pc[t] = "push_swing" => my[t].node = chain[Len(chain)]

(* The rings of the list are those in use, and a ring given back is blank. *)
LiveInv ==
  /\ live = {chain[i] : i \in 1..Len(chain)}
  /\ \A a \in Addr \ live : next[a] = NULL /\ push_idx[a] = 0 /\ pop_idx[a] = 0

(* A ring holds at most RING_SIZE items; behind the head nothing has been  *)
(* popped and no ring is empty.                                            *)
IndexInv ==
  /\ \A a \in live : push_idx[a] >= pop_idx[a] /\ push_idx[a] - pop_idx[a] <= RING_SIZE
  /\ \A i \in 2..Len(chain) : pop_idx[chain[i]] = 0 /\ push_idx[chain[i]] > 0
  /\ \A a \in live : push_idx[a] + Cardinality(Pushers) <= IndexBound

(* The slot a pusher found stays free; what a popper has read is still so. *)
CallInv ==
  \A t \in Threads :
    /\ pc[t] \in {"push_write", "push_publish"} => push_idx[tail] - pop_idx[tail] < RING_SIZE
    /\ pc[t] = "pop_load_idx" => my[t].node \in {NULL, next[head]}
    /\ pc[t] = "pop_advance" => my[t].node = next[head] /\ next[head] # NULL /\ Drained(head)
    /\ pc[t] \in {"pop_read", "pop_take"} => pop_idx[head] < push_idx[head]
    /\ pc[t] = "empty_load_next" => /\ pop_idx[head] <= my[t].push_idx
                                    /\ my[t].push_idx <= push_idx[head]
    /\ pc[t] = "pop_take" => my[t].item = buffer[head][pop_idx[head] % RING_SIZE]
    /\ \/ pc[t] \in {"push_lock", "push_load", "push_write", "push_new", "pop_take", "popped"}
       \/ my[t].item = EMPTY_VALUE

(* `queued` runs through the slots between pop_idx and push_idx, ring after *)
(* ring, from the head, or the second ring when the head is drained, to the *)
(* last one that was pushed.                                                *)
QueuedInv ==
  /\ \A i \in 1..Len(queued) :
       /\ queued[i].ring \in live
       /\ pop_idx[queued[i].ring] <= queued[i].index
       /\ queued[i].index < push_idx[queued[i].ring]
  /\ \A i, j \in 1..Len(queued) : queued[i] = queued[j] => i = j
  /\ \A i \in 1..(Len(queued) - 1) :
       \/ queued[i + 1] = Slot(queued[i].ring, queued[i].index + 1)
       \/ /\ queued[i].index + 1 = push_idx[queued[i].ring]
          /\ queued[i + 1] = Slot(next[queued[i].ring], 0)
  /\ queued # <<>> =>
       LET last == chain[Len(chain)] IN
       /\ \/ ~Drained(head) /\ queued[1] = Slot(head, pop_idx[head])
          \/ Drained(head) /\ next[head] # NULL /\ queued[1] = Slot(next[head], 0)
       /\ queued[Len(queued)].ring = last
       /\ queued[Len(queued)].index + 1 = push_idx[last]
  /\ queued = <<>> /\ open => Drained(head) /\ next[head] = NULL
  /\ ~open => queued = <<>>

IInv == /\ TypeOK /\ MutexInv /\ ChainInv /\ TailInv /\ LiveInv
        /\ IndexInv /\ CallInv /\ QueuedInv

(* A push in progress needs queue->tail, a pop or is_empty needs            *)
(* queue->head: the popper that drains rings never frees the one a pusher   *)
(* is still in, and frees each ring once.                                   *)
NoUseAfterFree ==
  /\ \A t \in Threads : /\ AtTail(t) => tail \in live
                        /\ AtHead(t) => head \in live
                        /\ pc[t] = "pop_advance" => my[t].node \in live
  /\ cursor # NULL => cursor \in live

(* buffer is not atomic: a pusher writing a slot (l.86) and a popper        *)
(* reading one (l.129) of the same ring must never be at the same slot.     *)
NoDataRace ==
  \A t, u \in Threads :
    pc[t] = "push_write" /\ pc[u] = "pop_read" /\ head = tail =>
      push_idx[tail] % RING_SIZE # pop_idx[head] % RING_SIZE

(* RingsQueue_delete leaves no ring behind. *)
NoLeak == ~open /\ cursor = NULL => live = {}

(* No freed ring is touched, no slot is raced for and no ring is left.      *)
MemorySafe == NoUseAfterFree /\ NoDataRace /\ NoLeak

(* The rings form one list whose slots hold the items in order, and no ring *)
(* is touched when it is free, raced for or left behind (push, pop,         *)
(* is_empty and delete).                                                    *)
RingsInv == IInv /\ MemorySafe

-----------------------------------------------------------------------------
(* RingsQueue implements FifoQueue.  The queue holds what its slots hold. *)

ItemAt(slot) == buffer[slot.ring][slot.index % RING_SIZE]

abstractItems == [i \in 1..Len(queued) |-> ItemAt(queued[i])]

CallAt(place) ==
  CASE place = "idle" -> "idle"
    [] place \in {"push_lock", "push_load", "push_write", "push_publish", "push_new"} -> "push"
    [] place \in {"push_swing", "push_unlock"} -> "pushed"
    [] place \in {"pop_lock", "pop_load_next", "pop_load_idx", "pop_advance",
                  "pop_read", "pop_take"} -> "pop"
    [] place = "popped" -> "popped"
    [] place \in {"empty_lock", "empty_load_idx", "empty_load_next"} -> "is_empty"
    [] place = "was_empty" -> "empty"
    [] place = "was_not_empty" -> "not_empty"

(* The item of a push lives in my[t] until it is written, then in its slot. *)
Written == buffer[tail][push_idx[tail] % RING_SIZE]

ItemOf(t) ==
  CASE pc[t] \in {"push_lock", "push_load", "push_write", "push_new", "popped"} -> my[t].item
    [] pc[t] = "push_publish" -> Written
    [] OTHER -> EMPTY_VALUE

abstractOp == [t \in Threads |-> [call |-> CallAt(pc[t]), item |-> ItemOf(t)]]

(* A popper that loaded a NULL next_node from a ring that is still drained, *)
(* and an is_empty that read equal indices from a ring that is still the    *)
(* last, have seen the queue empty, whatever has been appended since.       *)
SawEmpty(t) ==
  \/ pc[t] = "pop_load_idx" /\ my[t].node = NULL /\ Drained(head)
  \/ pc[t] = "empty_load_next" /\ FoundEmpty(t)

abstractSeen == [t \in Threads |-> IF SawEmpty(t) THEN {TRUE} ELSE {}]

Fifo == INSTANCE FifoQueue WITH items <- abstractItems, op <- abstractOp, seen <- abstractSeen

(* Linearizable and first-in first-out: push takes effect when push_idx is  *)
(* incremented (l.87) or the new ring linked (l.93), pop when pop_idx is    *)
(* incremented (l.130).  An empty pop takes effect earlier than it knows,   *)
(* when it loads next_node (l.111), for a ring may be linked before it      *)
(* reads push_idx; is_empty likewise when it reads push_idx (l.142).        *)
IsFifoQueue == Fifo!FifoSpec

(* Some call returns as long as one is in progress: pop's loop ends. *)
AllIdle == \A t \in Threads : pc[t] = "idle"
SomeReturn == \E t \in Threads : Return(t)
Progress == []<>AllIdle \/ []<><<SomeReturn>>_vars
=============================================================================
