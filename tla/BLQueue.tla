------------------------------- MODULE BLQueue -------------------------------
(***************************************************************************)
(* non-blocking-queues/BLQueue.c: a list of buffers of BUFFER_SIZE items.  *)
(* A push claims a slot of the tail node by a fetch-and-add of its         *)
(* push_idx, a pop one of the head node by its pop_idx; they meet in the   *)
(* slot, the push with a compare-and-exchange from EMPTY_VALUE, the pop    *)
(* with an exchange that leaves TAKEN_VALUE.  Nodes are reclaimed with     *)
(* hazard pointers.  One action is one access to what is shared.           *)
(*                                                                         *)
(* A new tail is linked behind the old one only after it has become the    *)
(* tail (l.105, l.108), so BLQueue is not a linearizable queue: the        *)
(* properties say what it promises instead.                                *)
(*                                                                         *)
(* Values are told apart: a value is not pushed while it is still inside.  *)
(* IndexBound caps the counters, which failed attempts increment as well.  *)
(* chain, finished, older and asked are history variables.                 *)
(***************************************************************************)
EXTENDS HazardPointer, FiniteSets

CONSTANTS Values, EMPTY_VALUE, TAKEN_VALUE, BUFFER_SIZE, IndexBound

ASSUME BLQueueAssumption ==
  /\ EMPTY_VALUE \notin Values /\ TAKEN_VALUE \notin Values /\ EMPTY_VALUE # TAKEN_VALUE
  /\ BUFFER_SIZE \in Nat \ {0}
  /\ IndexBound \in Nat

VARIABLES
  head, tail,                        \* BLQueue
  next, buffer, push_idx, pop_idx,   \* BLNode, by address
  pc, my,                            \* where each thread is, and its locals
  phase,                             \* of the queue: "open", "deleting", "deleted"
  chain,      \* the nodes from the head to the tail, linked or about to be
  finished,   \* values whose push has returned and that no pop has taken
  older,      \* by value inside: what was finished when its push was called
  asked       \* by thread in is_empty: what was finished when it was called

node == <<next, buffer, push_idx, pop_idx>>
history == <<finished, older, asked>>
vars == <<hazardVars, head, tail, node, pc, my, phase, chain, history>>

Slots == 0..(BUFFER_SIZE - 1)
Item == Values \cup {EMPTY_VALUE}
Node == Addr \cup {NULL}

Places ==
  {"idle", "push_load", "push_publish", "push_validate", "push_claim", "push_store",
   "push_new", "push_swing", "push_link", "push_drop", "pushed",
   "pop_load", "pop_publish", "pop_validate", "pop_claim", "pop_take", "pop_next",
   "pop_swing", "pop_retire", "pop_scan", "pop_clear", "popped",
   "empty_load", "empty_publish", "empty_validate", "empty_push_idx", "empty_pop_idx",
   "empty_next", "was_empty", "was_not_empty"}

(* The locals: item, new_node, the node protected (tail_node, head_node),   *)
(* next_node, and the index claimed or loaded.                              *)
Blank == [item |-> EMPTY_VALUE, node |-> NULL, end |-> NULL, next |-> NULL, idx |-> 0]

TypeOK ==
  /\ HazardTypeOK
  /\ head \in Node /\ tail \in Node
  /\ next \in [Addr -> Node]
  /\ buffer \in [Addr -> [Slots -> Item \cup {TAKEN_VALUE}]]
  /\ push_idx \in [Addr -> Nat] /\ pop_idx \in [Addr -> Nat]
  /\ pc \in [Threads -> Places]
  /\ my \in [Threads -> [item : Item, node : Node, end : Node, next : Node, idx : Nat]]
  /\ phase \in {"open", "deleting", "deleted"}
  /\ chain \in Seq(Addr)
  /\ finished \subseteq Values
  /\ older \in [Values -> SUBSET Values]
  /\ asked \in [Threads -> SUBSET Values]

-----------------------------------------------------------------------------
NoItems == [s \in Slots |-> EMPTY_VALUE]

Init ==
  /\ HazardInit
  /\ \E a \in Addr : head = a /\ tail = a /\ live = {a} /\ chain = <<a>>
  /\ next = [a \in Addr |-> NULL]
  /\ buffer = [a \in Addr |-> NoItems]
  /\ push_idx = [a \in Addr |-> 0] /\ pop_idx = [a \in Addr |-> 0]
  /\ pc = [t \in Threads |-> "idle"]
  /\ my = [t \in Threads |-> Blank]
  /\ phase = "open"
  /\ finished = {} /\ older = [v \in Values |-> {}] /\ asked = [t \in Threads |-> {}]

From(t, here, there) == pc[t] = here /\ pc' = [pc EXCEPT ![t] = there]
Forget(t) == my' = [my EXCEPT ![t] = Blank]

(* The next round of push keeps only the item. *)
Again(t) == my' = [my EXCEPT ![t] = [Blank EXCEPT !.item = my[t].item]]

hazardKept == UNCHANGED hazardVars
queueKept == UNCHANGED <<head, tail, phase, chain>>

(* What a freed node holds is of no use to anybody. *)
Erase ==
  LET freed == live \ live' IN
  /\ next' = [a \in Addr |-> IF a \in freed THEN NULL ELSE next[a]]
  /\ buffer' = [a \in Addr |-> IF a \in freed THEN NoItems ELSE buffer[a]]
  /\ push_idx' = [a \in Addr |-> IF a \in freed THEN 0 ELSE push_idx[a]]
  /\ pop_idx' = [a \in Addr |-> IF a \in freed THEN 0 ELSE pop_idx[a]]

(* HazardPointer_protect of one of the ends of the queue, as a step of an   *)
(* operation.                                                               *)
ProtectLoad(t, load, publish, end) ==
  /\ From(t, load, publish)
  /\ my' = [my EXCEPT ![t].end = end]
  /\ hazardKept /\ queueKept /\ UNCHANGED <<node, history>>

ProtectPublish(t, publish, validate) ==
  /\ From(t, publish, validate)
  /\ Publish(t, my[t].end)
  /\ UNCHANGED <<retired, scan, live, my, node, history>> /\ queueKept

ProtectValidate_blind(t, validate, load, done, end) ==
  /\ From(t, validate, done)
  /\ hazardKept /\ queueKept /\ UNCHANGED <<my, node, history>>

ProtectValidate_inverted(t, validate, load, done, end) ==
  /\ \/ my[t].end # end /\ From(t, validate, done)
     \/ my[t].end = end /\ From(t, validate, load)
  /\ hazardKept /\ queueKept /\ UNCHANGED <<my, node, history>>

ProtectValidate(t, validate, load, done, end) ==
  /\ \/ my[t].end = end /\ From(t, validate, done)
     \/ my[t].end # end /\ From(t, validate, load)
  /\ hazardKept /\ queueKept /\ UNCHANGED <<my, node, history>>

-----------------------------------------------------------------------------
(* BLQueue_push *)

Inside == {my[t].item : t \in Threads} \cup {buffer[a][s] : a \in Addr, s \in Slots}
Pushers == {t \in Threads : pc[t] \in {"push_load", "push_publish", "push_validate",
                                       "push_claim", "push_store", "push_new"}}

(* Memory for the pushes in progress and one more, and indices below the cap. *)
Room ==
  /\ Cardinality(live) + Cardinality(Pushers) < Cardinality(Addr)
  /\ push_idx[tail] < IndexBound

CallPush(t, v) ==
  /\ phase = "open" /\ Room /\ v \notin Inside
  /\ From(t, "idle", "push_load")
  /\ my' = [my EXCEPT ![t].item = v]
  /\ older' = [older EXCEPT ![v] = finished]
  /\ hazardKept /\ queueKept /\ UNCHANGED <<node, finished, asked>>

PushProtect(t) ==
  \/ ProtectLoad(t, "push_load", "push_publish", tail)
  \/ ProtectPublish(t, "push_publish", "push_validate")
  \/ ProtectValidate(t, "push_validate", "push_load", "push_claim", tail)

(* The fetch-and-add of push_idx. *)
PushClaim(t) ==
  LET a == my[t].end IN
  /\ \/ From(t, "push_claim", "push_store") /\ push_idx[a] < BUFFER_SIZE
     \/ From(t, "push_claim", "push_new") /\ push_idx[a] >= BUFFER_SIZE
  /\ push_idx' = [push_idx EXCEPT ![a] = @ + 1]
  /\ my' = [my EXCEPT ![t].idx = IF push_idx[a] < BUFFER_SIZE THEN push_idx[a] ELSE 0]
  /\ hazardKept /\ queueKept /\ UNCHANGED <<next, buffer, pop_idx, history>>

PushStore_plain(t) ==
  /\ From(t, "push_store", "pushed")
  /\ buffer' = [buffer EXCEPT ![my[t].end][my[t].idx] = my[t].item]
  /\ hazardKept /\ queueKept /\ UNCHANGED <<my, next, push_idx, pop_idx, history>>

(* The compare-and-exchange of the slot, from EMPTY_VALUE. *)
PushStore(t) ==
  LET a == my[t].end i == my[t].idx IN
  /\ \/ /\ From(t, "push_store", "pushed")
        /\ buffer[a][i] = EMPTY_VALUE
        /\ buffer' = [buffer EXCEPT ![a][i] = my[t].item]
        /\ UNCHANGED my
     \/ /\ From(t, "push_store", "push_load")
        /\ buffer[a][i] # EMPTY_VALUE
        /\ Again(t) /\ UNCHANGED buffer
  /\ hazardKept /\ queueKept /\ UNCHANGED <<next, push_idx, pop_idx, history>>

PushNew_lastSlot(t) ==
  /\ From(t, "push_new", "push_swing")
  /\ \E a \in Addr \ live :
       /\ live' = live \cup {a}
       /\ buffer' = [buffer EXCEPT ![a] = [NoItems EXCEPT ![BUFFER_SIZE - 1] = my[t].item]]
       /\ my' = [my EXCEPT ![t].node = a]
  /\ UNCHANGED <<pointer, retired, scan, next, push_idx, pop_idx, history>> /\ queueKept

(* BLNode_new, and the item in its first slot, which it counts as pushed. *)
PushNew(t) ==
  /\ From(t, "push_new", "push_swing")
  /\ \E a \in Addr \ live :
       /\ live' = live \cup {a}
       /\ next' = [next EXCEPT ![a] = NULL]
       /\ buffer' = [buffer EXCEPT ![a] = [NoItems EXCEPT ![0] = my[t].item]]
       /\ push_idx' = [push_idx EXCEPT ![a] = 1]
       /\ pop_idx' = [pop_idx EXCEPT ![a] = 0]
       /\ my' = [my EXCEPT ![t].node = a]
  /\ UNCHANGED <<pointer, retired, scan, history>> /\ queueKept

(* malloc fails: round again, without a clear. *)
PushNoMemory(t) ==
  /\ From(t, "push_new", "push_load")
  /\ push_idx[my[t].end] < IndexBound
  /\ Again(t)
  /\ hazardKept /\ queueKept /\ UNCHANGED <<node, history>>

(* The compare-and-exchange of queue->tail. *)
PushSwing(t) ==
  /\ \/ /\ my[t].end = tail
        /\ From(t, "push_swing", "push_link")
        /\ tail' = my[t].node
        /\ chain' = Append(chain, my[t].node)
     \/ my[t].end # tail /\ From(t, "push_swing", "push_drop") /\ UNCHANGED <<tail, chain>>
  /\ hazardKept /\ UNCHANGED <<head, phase, my, node, history>>

PushLink(t) ==
  /\ From(t, "push_link", "pushed")
  /\ next' = [next EXCEPT ![my[t].end] = my[t].node]
  /\ hazardKept /\ queueKept /\ UNCHANGED <<my, buffer, push_idx, pop_idx, history>>

(* Another push has moved the tail: free(new_node), round again. *)
PushDrop(t) ==
  /\ From(t, "push_drop", "push_load")
  /\ live' = live \ {my[t].node}
  /\ Erase /\ Again(t)
  /\ UNCHANGED <<pointer, retired, scan, history>> /\ queueKept

(* Clear and return.  The item may already have been taken. *)
PushReturn(t) ==
  /\ From(t, "pushed", "idle")
  /\ Clear(t) /\ Forget(t)
  /\ finished' = finished \cup ({my[t].item} \cap {buffer[a][s] : a \in live, s \in Slots})
  /\ UNCHANGED <<retired, scan, live, node, older, asked>> /\ queueKept

-----------------------------------------------------------------------------
(* BLQueue_pop *)

CallPop(t) ==
  /\ phase = "open" /\ pop_idx[head] < IndexBound
  /\ From(t, "idle", "pop_load")
  /\ hazardKept /\ queueKept /\ UNCHANGED <<my, node, history>>

PopProtect(t) ==
  \/ ProtectLoad(t, "pop_load", "pop_publish", head)
  \/ ProtectPublish(t, "pop_publish", "pop_validate")
  \/ ProtectValidate(t, "pop_validate", "pop_load", "pop_claim", head)

(* The fetch-and-add of pop_idx. *)
PopClaim(t) ==
  LET a == my[t].end IN
  /\ \/ From(t, "pop_claim", "pop_take") /\ pop_idx[a] < BUFFER_SIZE
     \/ From(t, "pop_claim", "pop_next") /\ pop_idx[a] >= BUFFER_SIZE
  /\ pop_idx' = [pop_idx EXCEPT ![a] = @ + 1]
  /\ my' = [my EXCEPT ![t].idx = IF pop_idx[a] < BUFFER_SIZE THEN pop_idx[a] ELSE 0]
  /\ hazardKept /\ queueKept /\ UNCHANGED <<next, buffer, push_idx, history>>

(* v leaves the queue. *)
Taken(v) ==
  /\ finished' = finished \ {v}
  /\ older' = [w \in Values |-> IF w = v THEN older[w] ELSE older[w] \ {v}]
  /\ asked' = [t \in Threads |-> asked[t] \ {v}]

PopTake_givesUp(t) ==
  LET a == my[t].end i == my[t].idx IN
  /\ From(t, "pop_take", "popped")
  /\ buffer' = [buffer EXCEPT ![a][i] = TAKEN_VALUE]
  /\ my' = [my EXCEPT ![t] = [Blank EXCEPT !.item = buffer[a][i]]]
  /\ IF buffer[a][i] = EMPTY_VALUE THEN UNCHANGED history ELSE Taken(buffer[a][i])
  /\ hazardKept /\ queueKept /\ UNCHANGED <<next, push_idx, pop_idx>>

(* The exchange of the slot with TAKEN_VALUE: an item, or too early. *)
PopTake(t) ==
  LET a == my[t].end i == my[t].idx IN
  /\ \/ /\ From(t, "pop_take", "pop_clear")
        /\ buffer[a][i] = EMPTY_VALUE
        /\ Forget(t) /\ UNCHANGED history
     \/ /\ From(t, "pop_take", "popped")
        /\ buffer[a][i] # EMPTY_VALUE
        /\ my' = [my EXCEPT ![t] = [Blank EXCEPT !.item = buffer[a][i]]]
        /\ Taken(buffer[a][i])
  /\ buffer' = [buffer EXCEPT ![a][i] = TAKEN_VALUE]
  /\ hazardKept /\ queueKept /\ UNCHANGED <<next, push_idx, pop_idx>>

PopNext(t) ==
  LET a == my[t].end IN
  /\ \/ From(t, "pop_next", "popped") /\ next[a] = NULL /\ Forget(t)
     \/ From(t, "pop_next", "pop_swing") /\ next[a] # NULL
        /\ my' = [my EXCEPT ![t].next = next[a]]
  /\ hazardKept /\ queueKept /\ UNCHANGED <<node, history>>

(* The compare-and-exchange of queue->head. *)
PopSwing(t) ==
  /\ \/ /\ my[t].end = head
        /\ From(t, "pop_swing", "pop_retire")
        /\ head' = my[t].next /\ chain' = Tail(chain)
        /\ my' = [my EXCEPT ![t].next = NULL]
     \/ /\ my[t].end # head
        /\ From(t, "pop_swing", "pop_clear")
        /\ Forget(t) /\ UNCHANGED <<head, chain>>
  /\ hazardKept /\ UNCHANGED <<tail, phase, node, history>>

(* The pointer of this thread still holds the node it retires. *)
PopRetire(t) ==
  /\ From(t, "pop_retire", "pop_scan")
  /\ Retire(t, my[t].end)
  /\ Forget(t)
  /\ queueKept /\ UNCHANGED <<node, history>>

PopScan(t) ==
  /\ pc[t] = "pop_scan"
  /\ ScanRead(t) \/ ScanFree(t)
  /\ Erase
  /\ queueKept /\ UNCHANGED <<pc, my, history>>

PopScanDone(t) ==
  /\ From(t, "pop_scan", "pop_clear")
  /\ ~Scanning(t)
  /\ hazardKept /\ queueKept /\ UNCHANGED <<my, node, history>>

(* The clear before another round. *)
PopClear(t) ==
  /\ From(t, "pop_clear", "pop_load")
  /\ Clear(t)
  /\ UNCHANGED <<retired, scan, live, my, node, history>> /\ queueKept

(* Clear; return the item, or EMPTY_VALUE. *)
PopReturn(t) ==
  /\ From(t, "popped", "idle")
  /\ Clear(t) /\ Forget(t)
  /\ older' = [v \in Values |-> IF v = my[t].item THEN {} ELSE older[v]]
  /\ UNCHANGED <<retired, scan, live, node, finished, asked>> /\ queueKept

-----------------------------------------------------------------------------
(* BLQueue_is_empty *)

CallIsEmpty(t) ==
  /\ phase = "open"
  /\ From(t, "idle", "empty_load")
  /\ asked' = [asked EXCEPT ![t] = finished]
  /\ hazardKept /\ queueKept /\ UNCHANGED <<my, node, finished, older>>

IsEmptyProtect(t) ==
  \/ ProtectLoad(t, "empty_load", "empty_publish", head)
  \/ ProtectPublish(t, "empty_publish", "empty_validate")
  \/ ProtectValidate(t, "empty_validate", "empty_load", "empty_push_idx", head)

IsEmptyPushIdx(t) ==
  /\ From(t, "empty_push_idx", "empty_pop_idx")
  /\ my' = [my EXCEPT ![t].idx = push_idx[my[t].end]]
  /\ hazardKept /\ queueKept /\ UNCHANGED <<node, history>>

(* Unequal indices decide the answer; the load of next that follows does    *)
(* not change it.                                                           *)
IsEmptyPopIdx(t) ==
  /\ \/ From(t, "empty_pop_idx", "empty_next") /\ my[t].idx = pop_idx[my[t].end]
     \/ From(t, "empty_pop_idx", "was_not_empty") /\ my[t].idx # pop_idx[my[t].end]
  /\ hazardKept /\ queueKept /\ UNCHANGED <<my, node, history>>

IsEmptyNext(t) ==
  /\ \/ From(t, "empty_next", "was_empty") /\ next[my[t].end] = NULL
     \/ From(t, "empty_next", "was_not_empty") /\ next[my[t].end] # NULL
  /\ hazardKept /\ queueKept /\ UNCHANGED <<my, node, history>>

IsEmptyReturn(t) ==
  /\ From(t, "was_empty", "idle") \/ From(t, "was_not_empty", "idle")
  /\ Clear(t) /\ Forget(t)
  /\ asked' = [asked EXCEPT ![t] = {}]
  /\ UNCHANGED <<retired, scan, live, node, finished, older>> /\ queueKept

-----------------------------------------------------------------------------
(* BLQueue_delete and BLQueue_new, called when nobody is inside.  `head`    *)
(* stands for the local `current` of delete: nobody else reads it then.     *)

DeleteStart ==
  /\ phase = "open" /\ \A t \in Threads : pc[t] = "idle"
  /\ phase' = "deleting"
  /\ finished' = {} /\ older' = [v \in Values |-> {}]
  /\ hazardKept /\ UNCHANGED <<head, tail, node, pc, my, chain, asked>>

DeleteNode ==
  /\ phase = "deleting" /\ head # NULL
  /\ head' = next[head] /\ chain' = Tail(chain)
  /\ live' = live \ {head}
  /\ Erase
  /\ UNCHANGED <<pointer, retired, scan, tail, pc, my, phase, history>>

DeleteFinish ==
  /\ phase = "deleting" /\ head = NULL
  /\ phase' = "deleted"
  /\ Finalize /\ Erase
  /\ UNCHANGED <<head, tail, pc, my, chain, history>>

New ==
  /\ phase = "deleted"
  /\ phase' = "open"
  /\ \E a \in Addr \ live : head' = a /\ tail' = a /\ live' = live \cup {a} /\ chain' = <<a>>
  /\ UNCHANGED <<pointer, retired, scan, node, pc, my, history>>

-----------------------------------------------------------------------------
Invoke(t) == CallPop(t) \/ CallIsEmpty(t) \/ \E v \in Values : CallPush(t, v)

Return(t) == PushReturn(t) \/ PopReturn(t) \/ IsEmptyReturn(t)

Step(t) ==
  \/ PushProtect(t) \/ PushClaim(t) \/ PushStore(t) \/ PushNew(t) \/ PushSwing(t)
  \/ PushLink(t) \/ PushDrop(t)
  \/ PopProtect(t) \/ PopClaim(t) \/ PopTake(t) \/ PopNext(t) \/ PopSwing(t)
  \/ PopRetire(t) \/ PopScan(t) \/ PopScanDone(t) \/ PopClear(t)
  \/ IsEmptyProtect(t) \/ IsEmptyPushIdx(t) \/ IsEmptyPopIdx(t) \/ IsEmptyNext(t)
  \/ Return(t)

Next ==
  \/ \E t \in Threads : Invoke(t) \/ Step(t) \/ PushNoMemory(t)
  \/ DeleteStart \/ DeleteNode \/ DeleteFinish \/ New

Spec == Init /\ [][Next]_vars

(* Some thread that can run is run; which one is not said. *)
AnyStep == \E t \in Threads : Step(t)
FairSpec == Spec /\ WF_vars(AnyStep)

-----------------------------------------------------------------------------
PushEnd == {"push_claim", "push_store", "push_new", "push_swing", "push_link"}
PopEnd == {"pop_claim", "pop_take", "pop_next", "pop_swing"}
EmptyEnd == {"empty_push_idx", "empty_pop_idx", "empty_next"}
Pushing == {"push_load", "push_publish", "push_validate", "push_claim", "push_store",
            "push_new", "push_swing", "push_link", "push_drop", "pushed"}

(* Who has to free a node: the queue, one pusher that has not made it the   *)
(* tail, one popper that has unlinked it, or one list of retired nodes.     *)
InChain(a) == \E i \in 1..Len(chain) : chain[i] = a
Fresh(t, a) == pc[t] \in {"push_swing", "push_drop"} /\ my[t].node = a
Pending(t, a) == pc[t] = "pop_retire" /\ my[t].end = a
On(t, a) == \E i \in 1..Len(retired[t]) : retired[t][i] = a
Owns(t, a) == Fresh(t, a) \/ Pending(t, a) \/ On(t, a)

(* Every live node has one owner and every owner a live node: nothing is    *)
(* lost and nothing freed twice.  What was unlinked keeps its next.         *)
OwnerInv ==
  /\ \A a \in Addr : a \in live <=> InChain(a) \/ \E t \in Threads : Owns(t, a)
  /\ \A a \in Addr \ live : next[a] = NULL
  /\ \A t \in Threads, a \in Addr :
       /\ Owns(t, a) => ~InChain(a) /\ \A u \in Threads \ {t} : ~Owns(u, a)
       /\ Fresh(t, a) => ~On(t, a)
       /\ Pending(t, a) => ~On(t, a)
       /\ Pending(t, a) \/ On(t, a) => next[a] # NULL
  /\ \A t \in Threads : \A i, j \in 1..Len(retired[t]) :
       retired[t][i] = retired[t][j] => i = j

(* The queue is a list of distinct nodes from the head to the tail, each    *)
(* linked to the next or about to be, by the one pusher that made that the  *)
(* tail.                                                                    *)
Links(t, i) == pc[t] = "push_link" /\ my[t].end = chain[i] /\ my[t].node = chain[i + 1]

ListInv ==
  /\ head = IF chain = <<>> THEN NULL ELSE chain[1]
  /\ phase = "open" => chain # <<>> /\ tail = chain[Len(chain)]
  /\ \A i, j \in 1..Len(chain) : chain[i] = chain[j] => i = j
  /\ \A i \in 1..Len(chain) :
       \/ next[chain[i]] = IF i = Len(chain) THEN NULL ELSE chain[i + 1]
       \/ next[chain[i]] = NULL /\ \E t \in Threads : Links(t, i)

PhaseInv ==
  /\ phase # "open" => \A t \in Threads : pc[t] = "idle"
  /\ phase = "deleted" => chain = <<>> /\ live = {}

(* A scan that goes on is at a position of its list. *)
ScanInv ==
  \A t \in Threads :
    /\ scan[t].at <= Len(retired[t])
    /\ pc[t] # "pop_scan" \/ ~Scanning(t) => scan[t] = NoScan

(* What a thread knows of its item and of the nodes it has: the head moves  *)
(* on from a node and never comes back to it.                               *)
NodeInv(t) ==
  /\ pc[t] \in Pushing => my[t].item \in Values
  /\ pc[t] \in {"push_swing", "push_drop"} => my[t].node # NULL /\ next[my[t].node] = NULL
  /\ pc[t] = "push_link" =>
       /\ next[my[t].end] = NULL
       /\ \E i \in 1..(Len(chain) - 1) : Links(t, i)
       /\ \A u \in Threads : pc[u] = "push_link" /\ my[u].end = my[t].end => u = t
  /\ pc[t] = "pop_swing" => my[t].next # NULL /\ next[my[t].end] = my[t].next
  /\ pc[t] = "pop_retire" => my[t].end # NULL
  /\ pc[t] \in PopEnd \cup EmptyEnd /\ InChain(my[t].end) => head = my[t].end

(* The node a thread's pointer keeps is not freed, and so is nobody's new   *)
(* node meanwhile; it was published while it was in the queue, so whoever   *)
(* suspects the node since then has not read that pointer yet.              *)
Shields(t, a) == pc[t] \in PushEnd \cup PopEnd \cup EmptyEnd /\ my[t].end = a

ShieldInv(t) ==
  /\ pc[t] \in {"push_validate", "pop_validate", "empty_validate"} => pointer[t] = my[t].end
  /\ \A a \in Node : Shields(t, a) =>
       /\ pointer[t] = a /\ a \in live
       /\ \A u \in Threads : ~Fresh(u, a)
       /\ \A u \in Threads : Scanning(u) /\ Suspect(u) = a => t \in scan[u].unread

MemInv ==
  /\ TypeOK /\ OwnerInv /\ ListInv /\ PhaseInv /\ ScanInv
  /\ \A t \in Threads : NodeInv(t) /\ ShieldInv(t)

(* An item in a slot can still be popped: its slot is not yet claimed, or   *)
(* it is claimed by a pop that will take it.                                *)
Claims(a, i) == \E t \in Threads : pc[t] = "pop_take" /\ my[t].end = a /\ my[t].idx = i
Claimed(v) == \E a \in live, i \in Slots : buffer[a][i] = v /\ Claims(a, i)

(* Where an item is: in one slot, or with one pusher that has not put it    *)
(* into a slot, or with one popper that has taken it.                       *)
Holds(t, v) == my[t].item = v /\ pc[t] \notin {"push_swing", "push_link", "push_drop", "pushed"}

(* What a thread knows of the slots it uses, and of the nodes it retires:   *)
(* they are used up.                                                        *)
UseInv(t) ==
  /\ pc[t] = "push_store" => my[t].idx < push_idx[my[t].end] /\ my[t].idx \in Slots
  /\ pc[t] = "pop_take" =>
       /\ my[t].idx < pop_idx[my[t].end] /\ my[t].idx \in Slots
       /\ buffer[my[t].end][my[t].idx] # TAKEN_VALUE
       /\ \A u \in Threads \ {t} :
            pc[u] = "pop_take" /\ my[u].end = my[t].end => my[u].idx # my[t].idx
  /\ pc[t] \in {"pop_next", "pop_swing"} => pop_idx[my[t].end] >= BUFFER_SIZE
  /\ pc[t] \in {"push_swing", "push_drop"} =>
       buffer[my[t].node] = [NoItems EXCEPT ![0] = my[t].item]
  /\ \A a \in Addr : Pending(t, a) \/ On(t, a) => pop_idx[a] >= BUFFER_SIZE

(* Slots are used in their order and by one pop each: below push_idx there  *)
(* may be items, below pop_idx what is not taken is claimed.                *)
SlotInv ==
  /\ \A a \in Addr, i \in Slots :
       /\ IF i >= pop_idx[a] THEN buffer[a][i] # TAKEN_VALUE
                            ELSE buffer[a][i] = TAKEN_VALUE \/ Claims(a, i)
       /\ buffer[a][i] \in Values => i < push_idx[a]
  /\ \A a \in Addr \ live : buffer[a] = NoItems /\ pop_idx[a] = 0
  /\ \A t \in Threads : UseInv(t)

(* No item is lost and none is popped twice.                                *)
Conservation ==
  /\ \A v \in Values :
       /\ \A a, b \in Addr, i, j \in Slots : buffer[a][i] = v /\ buffer[b][j] = v => a = b /\ i = j
       /\ \A t, u \in Threads : Holds(t, v) /\ Holds(u, v) => t = u
       /\ \A t \in Threads : Holds(t, v) => \A a \in Addr, i \in Slots : buffer[a][i] # v
  /\ \A t, u \in Threads :
       pc[t] \in Pushing /\ pc[u] \in Pushing /\ my[t].item = my[u].item => t = u
  /\ \A v \in finished : \E a \in live, i \in Slots :
       buffer[a][i] = v /\ \A t \in Threads : ~Fresh(t, a)
  /\ phase # "open" => finished = {}

(* Items keep their order in time: what was finished when the push of v was *)
(* called and no pop has claimed is before the place of v, as soon as that  *)
(* is known, and v is not taken.                                            *)
NotAfter(b, a) == \E i, j \in 1..Len(chain) : i <= j /\ chain[i] = b /\ chain[j] = a
Before(b, j, a, i) == NotAfter(b, a) /\ (b = a => j < i)

Behind(t, b, j) ==
  /\ pc[t] \in {"push_claim", "push_new", "push_swing"} => NotAfter(b, my[t].end)
  /\ pc[t] = "push_store" => Before(b, j, my[t].end, my[t].idx)
  /\ pc[t] # "popped"

Follows(v, b, j) ==
  /\ \A t \in Threads : my[t].item = v => Behind(t, b, j)
  /\ \A a \in live, i \in Slots :
       buffer[a][i] = v /\ (\A t \in Threads : ~Fresh(t, a)) => Before(b, j, a, i)

OrderInv ==
  /\ \A v \in Values : v \notin older[v] /\ older[v] \subseteq finished
  /\ \A v \in Values : \A w \in older[v] : \A b \in live, j \in Slots :
       buffer[b][j] = w => Claims(b, j) \/ Follows(v, b, j)

(* is_empty has read push_idx after all that it was asked about was stored. *)
AskInv(t) ==
  /\ asked[t] \subseteq finished
  /\ asked[t] # {} => pc[t] \in {"empty_load", "empty_publish", "empty_validate", "was_empty",
                                 "was_not_empty"} \cup EmptyEnd
  /\ pc[t] \in {"empty_pop_idx", "empty_next"} =>
       \A v \in asked[t], j \in Slots : buffer[my[t].end][j] = v => j < my[t].idx
  /\ pc[t] = "empty_next" => my[t].idx <= pop_idx[my[t].end]

AskedInv == \A t \in Threads : AskInv(t)

(* The list, the slots and the items of the queue, whatever pushes, pops    *)
(* and scans are in between (push, pop, is_empty, delete).                  *)
BLInv == MemInv /\ SlotInv /\ Conservation /\ OrderInv /\ AskedInv

(* Every access to a node is to a node its hazard pointer keeps alive,      *)
(* although others drain, unlink, retire and scan for it, and although a    *)
(* pusher still links its successor; and what becomes the head is live.     *)
AtNode(t) == pc[t] \in {"push_claim", "push_store", "push_link"} \cup (PopEnd \ {"pop_swing"}) \cup EmptyEnd

NoUseAfterFree ==
  /\ \A t \in Threads : AtNode(t) => my[t].end \in live
  /\ \A t \in Threads : pc[t] = "pop_swing" /\ head = my[t].end => my[t].next \in live
  /\ phase = "open" => head \in live /\ tail \in live

(* First in, first out, as far as time tells: when a pop has taken an item, *)
(* every item whose push had returned before that item's push was called    *)
(* is taken, or claimed by a pop in progress.                               *)
NoOvertaking ==
  \A t \in Threads :
    pc[t] = "popped" /\ my[t].item \in Values => \A v \in older[my[t].item] : Claimed(v)

(* The list is cut at the head: a push has moved the tail (l.105) and not   *)
(* yet linked it (l.108).                                                   *)
Cut == \E t \in Threads : pc[t] = "push_link" /\ my[t].end = head

(* When may pop answer EMPTY_VALUE, and is_empty TRUE?  Not while an item   *)
(* whose push has returned (for is_empty: before is_empty was called) is    *)
(* there for the taking; except while the list is cut, when items whose     *)
(* push has returned are out of reach.                                      *)
EmptyIsHonest ==
  [][\A t \in Threads :
       /\ pc[t] = "pop_next" /\ pc'[t] = "popped" => Cut \/ \A v \in finished : Claimed(v)
       /\ pc[t] = "pop_take" /\ pc'[t] = "popped" => my'[t].item # EMPTY_VALUE
       /\ pc[t] = "empty_next" /\ pc'[t] = "was_empty" =>
            Cut \/ \A v \in asked[t] : Claimed(v)]_vars

(* BLQueue_delete frees the list and, with HazardPointer_finalize, what was *)
(* retired and not yet freed.                                               *)
NoLeak == phase = "deleted" => live = {}

(* Memory is safe with the queue: nothing freed is touched and nothing is   *)
(* left, whatever calls came before it was deleted.                         *)
MemorySafe == NoUseAfterFree /\ NoLeak

(* Lock-freedom: while calls are in progress some call returns, whichever   *)
(* threads are run, provided malloc does not fail for ever.                 *)
AllIdle == \A t \in Threads : pc[t] = "idle"
SomeReturn == \E t \in Threads : Return(t)
LockFree == []<>AllIdle \/ []<><<SomeReturn>>_vars
=============================================================================
