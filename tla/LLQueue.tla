------------------------------- MODULE LLQueue -------------------------------
(***************************************************************************)
(* non-blocking-queues/LLQueue.c: the lock-free linked-list queue of       *)
(* Michael and Scott, its nodes reclaimed with hazard pointers.            *)
(*                                                                         *)
(* One action is one access to what is shared: queue->head, queue->tail, a *)
(* node, a hazard pointer.  A thread has ONE hazard pointer, and pop moves *)
(* it from the head to the next node (l.121); from there to l.129 it holds *)
(* the head unprotected, and `queue->head->next` (l.124, l.143) reads a    *)
(* head that was never protected.  A scan of another thread may free these *)
(* nodes under it, and a push take their memory again: endFreed and        *)
(* otherFreed are the threads to which that has happened.  When one of     *)
(* them then reads such a node, or exchanges queue->head because a new     *)
(* head has the address of the freed one (ABA), the queue is `spoilt`: its *)
(* behaviour is undefined, or its list cut, and is not followed further.   *)
(*                                                                         *)
(* malloc succeeds; a push is called when an address is left.  endFreed,   *)
(* otherFreed, spoilt and `chain`, the nodes from the head on, are history *)
(* variables.                                                              *)
(***************************************************************************)
EXTENDS HazardPointer

CONSTANTS
  Values, EMPTY_VALUE,
  Pushers, Poppers   \* bound: the threads that push, and those that pop

ASSUME LLQueueAssumption ==
  /\ EMPTY_VALUE \notin Values
  /\ Pushers \subseteq Threads /\ Poppers \subseteq Threads

VARIABLES
  head, tail,    \* LLQueue
  next, item,    \* LLNode, by address
  pc, my,        \* where each thread is, and its locals
  phase,         \* of the queue: "open", "deleting", "deleted"
  chain,
  endFreed,      \* the threads whose my.end a scan has freed inside the window
  otherFreed,    \* the threads whose my.other it has freed before they read it
  spoilt         \* one of these has used the freed node

nodes == <<next, item>>
history == <<endFreed, otherFreed, spoilt>>
vars == <<hazardVars, head, tail, nodes, pc, my, phase, chain, history>>

Node == Addr \cup {NULL}
Item == Values \cup {EMPTY_VALUE}

Places ==
  {"idle", "push_load", "push_publish", "push_validate", "push_next", "push_check",
   "push_link", "push_help", "push_swing", "push_clear", "pushed",
   "pop_load", "pop_publish", "pop_validate", "pop_tail", "pop_next", "pop_check",
   "pop_help", "pop_protect", "pop_head", "pop_reread", "pop_clear", "pop_item", "pop_swing",
   "pop_retire", "pop_scan", "popped",
   "empty_head", "empty_next", "was_empty", "was_not_empty"}

(* The locals: item, new_node, the end that was protected (tail of push,    *)
(* head of pop), the other end (tail of pop, then queue->head of l.124 and  *)
(* l.143), and next.                                                        *)
Blank == [item |-> EMPTY_VALUE, node |-> NULL, end |-> NULL, other |-> NULL, next |-> NULL]

TypeOK ==
  /\ HazardTypeOK
  /\ head \in Node /\ tail \in Node
  /\ next \in [Addr -> Node] /\ item \in [Addr -> Item]
  /\ pc \in [Threads -> Places]
  /\ my \in [Threads -> [item : Item, node : Node, end : Node, other : Node, next : Node]]
  /\ phase \in {"open", "deleting", "deleted"}
  /\ chain \in Seq(Addr)
  /\ endFreed \subseteq Threads /\ otherFreed \subseteq Threads
  /\ spoilt \in BOOLEAN

-----------------------------------------------------------------------------
Init ==
  /\ HazardInit
  /\ \E a \in Addr : head = a /\ tail = a /\ live = {a} /\ chain = <<a>>
  /\ next = [a \in Addr |-> NULL]
  /\ item = [a \in Addr |-> EMPTY_VALUE]
  /\ pc = [t \in Threads |-> "idle"]
  /\ my = [t \in Threads |-> Blank]
  /\ phase = "open"
  /\ endFreed = {} /\ otherFreed = {} /\ spoilt = FALSE

From(t, here, there) == pc[t] = here /\ pc' = [pc EXCEPT ![t] = there]
Forget(t) == my' = [my EXCEPT ![t] = Blank]

(* The unshared part of a push that outlives a round: the item, new_node.  *)
Again(t) == my' = [my EXCEPT ![t] = [Blank EXCEPT !.item = my[t].item, !.node = my[t].node]]

hazardKept == UNCHANGED hazardVars
listKept == UNCHANGED <<head, tail, nodes, phase, chain>>
queueKept == listKept /\ UNCHANGED history

(* HazardPointer_protect of one of the ends of the queue, as a step of push *)
(* and of pop.                                                              *)
ProtectLoad(t, load, publish, end) ==
  /\ From(t, load, publish)
  /\ my' = [my EXCEPT ![t].end = end]
  /\ hazardKept /\ queueKept

ProtectPublish(t, publish, validate) ==
  /\ From(t, publish, validate)
  /\ Publish(t, my[t].end)
  /\ UNCHANGED <<retired, scan, live, my>> /\ queueKept

ProtectValidate_blind(t, validate, load, done, end) ==
  /\ From(t, validate, done)
  /\ hazardKept /\ queueKept /\ UNCHANGED my

ProtectValidate(t, validate, load, done, end) ==
  /\ \/ my[t].end = end /\ From(t, validate, done)
     \/ my[t].end # end /\ From(t, validate, load)
  /\ hazardKept /\ queueKept /\ UNCHANGED my

-----------------------------------------------------------------------------
(* LLQueue_push *)

CallPush(t, v) ==
  /\ phase = "open"
  /\ From(t, "idle", "push_load")
  /\ \E a \in Addr \ live :
       /\ live' = live \cup {a}
       /\ next' = [next EXCEPT ![a] = NULL]
       /\ item' = [item EXCEPT ![a] = v]
       /\ my' = [my EXCEPT ![t].node = a, ![t].item = v]
  /\ UNCHANGED <<pointer, retired, scan, head, tail, phase, chain, history>>

PushProtect(t) ==
  \/ ProtectLoad(t, "push_load", "push_publish", tail)
  \/ ProtectPublish(t, "push_publish", "push_validate")
  \/ ProtectValidate(t, "push_validate", "push_load", "push_next", tail)

PushNext(t) ==
  /\ From(t, "push_next", "push_check")
  /\ my' = [my EXCEPT ![t].next = next[my[t].end]]
  /\ hazardKept /\ queueKept

PushCheck(t) ==
  /\ \/ my[t].end = tail /\ my[t].next = NULL /\ From(t, "push_check", "push_link")
     \/ my[t].end = tail /\ my[t].next # NULL /\ From(t, "push_check", "push_help")
     \/ my[t].end # tail /\ From(t, "push_check", "push_clear")
  /\ hazardKept /\ queueKept /\ UNCHANGED my

PushLink_store(t) ==
  /\ From(t, "push_link", "push_swing")
  /\ next' = [next EXCEPT ![my[t].end] = my[t].node]
  /\ chain' = Append(chain, my[t].node)
  /\ hazardKept /\ UNCHANGED <<head, tail, item, my, phase, history>>

(* The compare-and-exchange of tail->next, from NULL to new_node. *)
PushLink(t) ==
  /\ \/ /\ From(t, "push_link", "push_swing")
        /\ next[my[t].end] = NULL
        /\ next' = [next EXCEPT ![my[t].end] = my[t].node]
        /\ chain' = Append(chain, my[t].node)
     \/ /\ From(t, "push_link", "push_clear")
        /\ next[my[t].end] # NULL
        /\ UNCHANGED <<next, chain>>
  /\ hazardKept /\ UNCHANGED <<head, tail, item, my, phase, history>>

SwingTail_always(old, new) == tail' = new

(* A compare-and-exchange of queue->tail, from old to new. *)
SwingTail(old, new) == tail' = IF tail = old THEN new ELSE tail

PushHelp_none(t) ==
  /\ From(t, "push_help", "push_clear")
  /\ hazardKept /\ queueKept /\ UNCHANGED my

PushHelp(t) ==
  /\ From(t, "push_help", "push_clear")
  /\ SwingTail(my[t].end, my[t].next)
  /\ hazardKept /\ UNCHANGED <<head, nodes, my, phase, chain, history>>

PushSwing(t) ==
  /\ From(t, "push_swing", "pushed")
  /\ SwingTail(my[t].end, my[t].node)
  /\ Forget(t)
  /\ hazardKept /\ UNCHANGED <<head, nodes, phase, chain, history>>

(* The clear of a round that failed: the next one begins. *)
PushClear(t) ==
  /\ From(t, "push_clear", "push_load")
  /\ Clear(t) /\ Again(t)
  /\ UNCHANGED <<retired, scan, live>> /\ queueKept

PushReturn(t) ==
  /\ From(t, "pushed", "idle")
  /\ Clear(t)
  /\ UNCHANGED <<retired, scan, live, my>> /\ queueKept

-----------------------------------------------------------------------------
(* LLQueue_pop *)

CallPop(t) ==
  /\ phase = "open"
  /\ From(t, "idle", "pop_load")
  /\ hazardKept /\ queueKept /\ UNCHANGED my

PopProtect(t) ==
  \/ ProtectLoad(t, "pop_load", "pop_publish", head)
  \/ ProtectPublish(t, "pop_publish", "pop_validate")
  \/ ProtectValidate(t, "pop_validate", "pop_load", "pop_tail", head)

PopTail(t) ==
  /\ From(t, "pop_tail", "pop_next")
  /\ my' = [my EXCEPT ![t].other = tail]
  /\ hazardKept /\ queueKept

PopNext(t) ==
  /\ From(t, "pop_next", "pop_check")
  /\ my' = [my EXCEPT ![t].next = next[my[t].end]]
  /\ hazardKept /\ queueKept

PopCheck(t) ==
  /\ \/ /\ my[t].end = head /\ my[t].end = my[t].other /\ my[t].next = NULL
        /\ From(t, "pop_check", "popped") /\ Forget(t)
     \/ /\ my[t].end = head /\ my[t].end = my[t].other /\ my[t].next # NULL
        /\ From(t, "pop_check", "pop_help") /\ UNCHANGED my
     \/ /\ my[t].end = head /\ my[t].end # my[t].other
        /\ From(t, "pop_check", "pop_protect")
        /\ my' = [my EXCEPT ![t].other = NULL]
     \/ /\ my[t].end # head
        /\ From(t, "pop_check", "pop_load") /\ Forget(t)
  /\ hazardKept /\ queueKept

PopHelp(t) ==
  /\ From(t, "pop_help", "pop_load")
  /\ SwingTail(my[t].end, my[t].next)
  /\ Forget(t)
  /\ hazardKept /\ UNCHANGED <<head, nodes, phase, chain, history>>

(* HazardPointer_protect of the local `next`: from here the head is not     *)
(* protected any more.                                                      *)
PopProtectNext(t) ==
  /\ \/ my[t].next # NULL /\ From(t, "pop_protect", "pop_head") /\ UNCHANGED my
     \/ my[t].next = NULL /\ From(t, "pop_protect", "pop_load") /\ Forget(t)
  /\ Publish(t, my[t].next)
  /\ UNCHANGED <<retired, scan, live>> /\ queueKept

(* The load from my.other: what it yields of a freed node may be anything. *)
UsesOther(t) ==
  /\ otherFreed' = otherFreed \ {t}
  /\ spoilt' = (t \in otherFreed)

(* queue->head->next is two loads. *)
PopHead(t) ==
  /\ From(t, "pop_head", "pop_reread")
  /\ my' = [my EXCEPT ![t].other = head]
  /\ hazardKept /\ queueKept

PopReread_blind(t) ==
  /\ From(t, "pop_reread", "pop_item")
  /\ my' = [my EXCEPT ![t].other = NULL]
  /\ UsesOther(t)
  /\ hazardKept /\ listKept /\ UNCHANGED endFreed

PopReread(t) ==
  /\ \/ /\ From(t, "pop_reread", "pop_item")
        /\ my[t].next = next[my[t].other] \/ t \in otherFreed
        /\ my' = [my EXCEPT ![t].other = NULL]
        /\ UNCHANGED endFreed
     \/ /\ From(t, "pop_reread", "pop_clear")
        /\ my[t].next # next[my[t].other] \/ t \in otherFreed
        /\ Forget(t)
        /\ endFreed' = endFreed \ {t}
  /\ UsesOther(t)
  /\ hazardKept /\ listKept

PopClear(t) ==
  /\ From(t, "pop_clear", "pop_load")
  /\ Clear(t)
  /\ UNCHANGED <<retired, scan, live, my>> /\ queueKept

PopItem(t) ==
  /\ From(t, "pop_item", "pop_swing")
  /\ my' = [my EXCEPT ![t].item = item[my[t].next]]
  /\ hazardKept /\ queueKept

(* The compare-and-exchange of queue->head, from head to next. *)
PopSwing(t) ==
  /\ \/ /\ head = my[t].end
        /\ From(t, "pop_swing", "pop_retire")
        /\ head' = my[t].next
        /\ chain' = Tail(chain)
        /\ my' = [my EXCEPT ![t].next = NULL]
        /\ spoilt' = (t \in endFreed)
     \/ /\ head # my[t].end
        /\ From(t, "pop_swing", "pop_load")
        /\ Forget(t)
        /\ UNCHANGED <<head, chain, spoilt>>
  /\ endFreed' = endFreed \ {t}
  /\ hazardKept /\ UNCHANGED <<tail, nodes, phase, otherFreed>>

PopRetire(t) ==
  /\ From(t, "pop_retire", "pop_scan")
  /\ Retire(t, my[t].end)
  /\ my' = [my EXCEPT ![t].end = NULL]
  /\ queueKept

(* Where a thread holds the head it has loaded without protecting it.       *)
LateEnd == {"pop_head", "pop_reread", "pop_item", "pop_swing"}
LateOther == {"pop_reread", "empty_next"}

(* The scan of retire.  It sees hazard pointers only: what another thread   *)
(* holds without one is freed like any other node.                          *)
PopScan(t) ==
  /\ pc[t] = "pop_scan"
  /\ \/ ScanRead(t) /\ UNCHANGED <<endFreed, otherFreed>>
     \/ /\ ScanFree(t)
        /\ endFreed' = endFreed \cup {u \in Threads : pc[u] \in LateEnd /\ my[u].end = Suspect(t)}
        /\ otherFreed' = otherFreed \cup {u \in Threads : pc[u] \in LateOther /\ my[u].other = Suspect(t)}
  /\ UNCHANGED <<pc, my, spoilt>> /\ listKept

PopScanDone(t) ==
  /\ From(t, "pop_scan", "popped")
  /\ ~Scanning(t)
  /\ hazardKept /\ queueKept /\ UNCHANGED my

(* Clear; return the item, or EMPTY_VALUE. *)
PopReturn(t) ==
  /\ From(t, "popped", "idle")
  /\ Clear(t) /\ Forget(t)
  /\ UNCHANGED <<retired, scan, live>> /\ queueKept

-----------------------------------------------------------------------------
(* LLQueue_is_empty *)

CallIsEmpty(t) ==
  /\ phase = "open"
  /\ From(t, "idle", "empty_head")
  /\ hazardKept /\ queueKept /\ UNCHANGED my

IsEmptyHead(t) ==
  /\ From(t, "empty_head", "empty_next")
  /\ my' = [my EXCEPT ![t].other = head]
  /\ hazardKept /\ queueKept

IsEmptyNext(t) ==
  /\ \/ /\ From(t, "empty_next", "was_empty")
        /\ next[my[t].other] = NULL \/ t \in otherFreed
     \/ /\ From(t, "empty_next", "was_not_empty")
        /\ next[my[t].other] # NULL \/ t \in otherFreed
  /\ Forget(t) /\ UsesOther(t)
  /\ hazardKept /\ listKept /\ UNCHANGED endFreed

IsEmptyReturn(t) ==
  /\ From(t, "was_empty", "idle") \/ From(t, "was_not_empty", "idle")
  /\ hazardKept /\ queueKept /\ UNCHANGED my

-----------------------------------------------------------------------------
(* LLQueue_delete and LLQueue_new, called when nobody is inside. *)

DeleteStart ==
  /\ phase = "open" /\ \A t \in Threads : pc[t] = "idle"
  /\ phase' = "deleting"
  /\ hazardKept /\ UNCHANGED <<head, tail, nodes, pc, my, chain, history>>

DeleteNode ==
  /\ phase = "deleting" /\ head # NULL
  /\ head' = next[head]
  /\ live' = live \ {head}
  /\ chain' = Tail(chain)
  /\ UNCHANGED <<pointer, retired, scan, tail, nodes, pc, my, phase, history>>

DeleteFinish ==
  /\ phase = "deleting" /\ head = NULL
  /\ phase' = "deleted"
  /\ Finalize
  /\ UNCHANGED <<head, tail, nodes, pc, my, chain, history>>

(* Freed memory holds nothing anybody may read: it is reset here. *)
New ==
  /\ phase = "deleted"
  /\ phase' = "open"
  /\ \E a \in Addr \ live :
       /\ head' = a /\ tail' = a /\ live' = live \cup {a} /\ chain' = <<a>>
       /\ next' = [b \in Addr |-> NULL]
       /\ item' = [b \in Addr |-> EMPTY_VALUE]
  /\ UNCHANGED <<pointer, retired, scan, pc, my, history>>

-----------------------------------------------------------------------------
Invoke(t) ==
  \/ t \in Poppers /\ (CallPop(t) \/ CallIsEmpty(t))
  \/ t \in Pushers /\ \E v \in Values : CallPush(t, v)

Return(t) == PushReturn(t) \/ PopReturn(t) \/ IsEmptyReturn(t)

Step(t) ==
  \/ PushProtect(t) \/ PushNext(t) \/ PushCheck(t) \/ PushLink(t) \/ PushHelp(t)
  \/ PushSwing(t) \/ PushClear(t)
  \/ PopProtect(t) \/ PopTail(t) \/ PopNext(t) \/ PopCheck(t) \/ PopHelp(t)
  \/ PopProtectNext(t) \/ PopHead(t) \/ PopReread(t) \/ PopClear(t) \/ PopItem(t)
  \/ PopSwing(t) \/ PopRetire(t) \/ PopScan(t) \/ PopScanDone(t)
  \/ IsEmptyHead(t) \/ IsEmptyNext(t)
  \/ Return(t)

(* A spoilt queue is not followed. *)
Next ==
  \/ ~spoilt /\ \E t \in Threads : Invoke(t) \/ Step(t)
  \/ ~spoilt /\ (DeleteStart \/ DeleteNode \/ DeleteFinish \/ New)
  \/ spoilt /\ UNCHANGED vars

Spec == Init /\ [][Next]_vars

(* Some thread that can run is run; which one is not said. *)
AnyStep == ~spoilt /\ \E t \in Threads : Step(t)
FairSpec == Spec /\ WF_vars(AnyStep)

-----------------------------------------------------------------------------
(* Where a push has its node for itself; where push and pop protect an end  *)
(* of the queue they have validated.                                        *)
Pushing == {"push_load", "push_publish", "push_validate", "push_next", "push_check",
            "push_link", "push_help", "push_clear"}
PushEnd == {"push_next", "push_check", "push_link", "push_help", "push_swing"}
PopEnd == {"pop_tail", "pop_next", "pop_check", "pop_help", "pop_protect"}

(* Who has to free a node: the queue, one pusher that has not linked it,    *)
(* one popper that has unlinked it, or one list of retired nodes, once.     *)
InChain(a) == \E i \in 1..Len(chain) : chain[i] = a
Fresh(t, a) == pc[t] \in Pushing /\ my[t].node = a
Pending(t, a) == pc[t] = "pop_retire" /\ my[t].end = a
On(t, a) == \E i \in 1..Len(retired[t]) : retired[t][i] = a
Owns(t, a) == Fresh(t, a) \/ Pending(t, a) \/ On(t, a)

(* Every live node has one owner and every owner a live node: nothing is    *)
(* lost and nothing freed twice.  What was unlinked keeps its next.         *)
OwnerInv ==
  /\ \A a \in Addr : a \in live <=> InChain(a) \/ \E t \in Threads : Owns(t, a)
  /\ \A t \in Threads, a \in Addr :
       /\ Owns(t, a) => ~InChain(a) /\ \A u \in Threads \ {t} : ~Owns(u, a)
       /\ Fresh(t, a) => ~Pending(t, a) /\ ~On(t, a)
       /\ Pending(t, a) => ~On(t, a)
       /\ Pending(t, a) \/ On(t, a) => next[a] # NULL
  /\ \A t \in Threads : \A i, j \in 1..Len(retired[t]) :
       retired[t][i] = retired[t][j] => i = j

(* The queue is a NULL-terminated list of distinct nodes, and the tail is   *)
(* its last node or the last but one.                                       *)
ListInv ==
  /\ head = IF chain = <<>> THEN NULL ELSE chain[1]
  /\ \A i \in 1..Len(chain) :
       next[chain[i]] = IF i = Len(chain) THEN NULL ELSE chain[i + 1]
  /\ \A i, j \in 1..Len(chain) : chain[i] = chain[j] => i = j
  /\ phase = "open" => \E i \in 1..Len(chain) : i >= Len(chain) - 1 /\ tail = chain[i]

PhaseInv ==
  /\ phase # "open" => \A t \in Threads : pc[t] = "idle"
  /\ phase = "deleted" => chain = <<>> /\ live = {}

(* A scan that goes on is at a position of its list. *)
ScanInv ==
  \A t \in Threads :
    /\ scan[t].at <= Len(retired[t])
    /\ pc[t] # "pop_scan" \/ ~Scanning(t) => scan[t] = NoScan

(* What a thread knows of the nodes it has loaded, those apart that were    *)
(* freed under it, which happens inside its two windows only.               *)
NodeInv(t) ==
  /\ t \in endFreed => pc[t] \in LateEnd
  /\ t \in otherFreed => pc[t] \in LateOther
  /\ pc[t] \in Pushing =>
       my[t].node \in Addr /\ item[my[t].node] = my[t].item /\ next[my[t].node] = NULL
  /\ pc[t] = "push_swing" => my[t].node # NULL /\ next[my[t].end] = my[t].node
  /\ pc[t] \in {"push_check", "pop_check", "pop_protect"} /\ my[t].next # NULL =>
       next[my[t].end] = my[t].next
  /\ pc[t] \in {"push_help", "pop_help"} \cup LateEnd =>
       my[t].next # NULL /\ (t \in endFreed \/ next[my[t].end] = my[t].next)
  /\ pc[t] = "pop_swing" => my[t].item = item[my[t].next]
  /\ pc[t] = "pop_retire" => my[t].end # NULL

(* Where these nodes are: the head moves on from a node and never comes     *)
(* back to it, and a head that is not the tail is overtaken by the tail.    *)
PastTail(t) ==
  \/ pc[t] \in {"pop_next", "pop_check"} /\ my[t].other # my[t].end
  \/ pc[t] = "pop_protect"
  \/ pc[t] \in LateEnd

PlaceInv(t) ==
  /\ pc[t] = "push_link" /\ next[my[t].end] = NULL => tail = my[t].end
  /\ pc[t] \in PopEnd \cup LateEnd /\ t \notin endFreed /\ InChain(my[t].end) => head = my[t].end
  /\ pc[t] = "empty_next" /\ t \notin otherFreed /\ InChain(my[t].other) => head = my[t].other
  /\ PastTail(t) /\ t \notin endFreed /\ head = my[t].end => tail # my[t].end

(* The node a thread's pointer keeps: its end of the queue; after l.121 the *)
(* next node, from the instant at which it is the next of the head read.    *)
Shields(t, a) ==
  \/ pc[t] \in PushEnd \cup PopEnd /\ my[t].end = a
  \/ pc[t] \in {"pop_item", "pop_swing"} /\ my[t].next = a
  \/ pc[t] = "pop_reread" /\ my[t].next = a /\ next[my[t].other] = a /\ t \notin otherFreed

(* The nodes it holds without its pointer and that nobody has freed yet. *)
Unprotected(t) ==
  (IF pc[t] \in LateEnd /\ t \notin endFreed THEN {my[t].end} ELSE {})
  \cup (IF pc[t] \in LateOther /\ t \notin otherFreed THEN {my[t].other} ELSE {})

(* Both are live, and so nobody's new node meanwhile. *)
HeldInv(t) ==
  \A a \in Node : Shields(t, a) \/ a \in Unprotected(t) =>
    a \in live /\ \A u \in Threads : ~Fresh(u, a)

(* The pointer was published while the node was in the queue, so whoever    *)
(* suspects the node since then has not read that pointer yet.              *)
ShieldInv(t) ==
  /\ pc[t] \in {"push_validate", "pop_validate"} => pointer[t] = my[t].end
  /\ pc[t] \in {"pop_head", "pop_reread"} => pointer[t] = my[t].next
  /\ \A a \in Node : Shields(t, a) =>
       /\ pointer[t] = a
       /\ \A u \in Threads : Scanning(u) /\ Suspect(u) = a => t \in scan[u].unread

ThreadInv(t) == NodeInv(t) /\ PlaceInv(t) /\ HeldInv(t) /\ ShieldInv(t)

Sound ==
  /\ TypeOK /\ OwnerInv /\ ListInv /\ PhaseInv /\ ScanInv
  /\ \A t \in Threads : ThreadInv(t)

LLInv == TypeOK /\ (~spoilt => Sound)

(* The nodes a thread is about to read or write at its next access; its own *)
(* new node and those of queue->head and queue->tail themselves apart.      *)
Accessed(t) ==
  CASE pc[t] \in {"push_next", "push_link", "pop_next"} -> {my[t].end}
    [] pc[t] = "pop_item" -> {my[t].next}
    [] pc[t] \in LateOther -> {my[t].other}
    [] OTHER -> {}

(* A thread reads or writes a freed node at l.124 and l.143 only, where it  *)
(* reads queue->head->next without a hazard pointer.  Everywhere else       *)
(* (l.79, l.83, l.110, l.128) the one pointer it moves from node to node    *)
(* prevents it, although the others pop, retire and scan.                   *)
NoUseAfterFree ==
  \A t \in Threads : Accessed(t) \subseteq live \/ (pc[t] \in LateOther /\ t \in otherFreed)

(* LLQueue_delete frees the list and, with HazardPointer_finalize, what was *)
(* retired and not yet freed.                                               *)
NoLeak == phase = "deleted" => live = {}

(* Memory is safe with a queue that is not spoilt: nothing freed is about   *)
(* to be touched but by the loads of l.124 and l.143, whose defect it is,   *)
(* and nothing is left, whatever calls came before it was deleted.          *)
MemorySafe == ~spoilt => NoUseAfterFree /\ NoLeak

-----------------------------------------------------------------------------
(* LLQueue implements FifoQueue: the nodes after the dummy are its items.   *)

abstractItems ==
  IF phase = "open" THEN [i \in 1..(Len(chain) - 1) |-> item[chain[i + 1]]] ELSE <<>>

CallAt(place) ==
  CASE place = "idle" -> "idle"
    [] place \in Pushing -> "push"
    [] place \in {"push_swing", "pushed"} -> "pushed"
    [] place \in {"pop_load", "pop_publish", "pop_validate", "pop_tail", "pop_next",
                  "pop_check", "pop_help", "pop_protect", "pop_head", "pop_reread",
                  "pop_clear", "pop_item", "pop_swing"} -> "pop"
    [] place \in {"pop_retire", "pop_scan", "popped"} -> "popped"
    [] place \in {"empty_head", "empty_next"} -> "is_empty"
    [] place = "was_empty" -> "empty"
    [] place = "was_not_empty" -> "not_empty"

ItemOf(t) ==
  IF CallAt(pc[t]) \in {"push", "popped"} THEN my[t].item ELSE EMPTY_VALUE

abstractOp == [t \in Threads |-> [call |-> CallAt(pc[t]), item |-> ItemOf(t)]]

(* A pop that loaded NULL from a node that is still the head, and that was  *)
(* the tail before, has seen the queue empty; an is_empty whose head has a  *)
(* next node by now, or was unlinked and freed since, has seen it not empty.*)
SawEmpty(t) ==
  pc[t] = "pop_check" /\ my[t].next = NULL /\ my[t].end = my[t].other /\ my[t].end = head

SawMore(t) == pc[t] = "empty_next" /\ (t \in otherFreed \/ next[my[t].other] # NULL)

abstractSeen ==
  [t \in Threads |-> {empty \in BOOLEAN : IF empty THEN SawEmpty(t) ELSE SawMore(t)}]

Fifo == INSTANCE FifoQueue WITH items <- abstractItems, op <- abstractOp, seen <- abstractSeen

(* Linearizable and first-in first-out: push takes effect at the exchange   *)
(* of tail->next (l.83), pop at that of queue->head (l.129); a pop that     *)
(* finds nothing takes effect at its load of head->next (l.110), if the     *)
(* comparison after it (l.112) succeeds.                                    *)
IsFifoQueue == Fifo!FifoSpec

(* With reclamation the same, up to the step that uses a node freed under   *)
(* its thread: the answer of that step, and what follows, may be wrong.     *)
FifoUntilSpoilt == Fifo!FifoInit /\ [][Fifo!FifoNext \/ spoilt']_Fifo!fifoVars

(* Lock-freedom: while calls are in progress some call returns, whichever   *)
(* threads are run and wherever the others have stopped.                    *)
AllIdle == \A t \in Threads : pc[t] = "idle"
SomeReturn == \E t \in Threads : Return(t)
LockFree == []<>AllIdle \/ []<><<SomeReturn>>_vars
=============================================================================
