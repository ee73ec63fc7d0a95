# Verification of the MIMUW repository

The repository holds programming assignments of a computer science course: C,
C++, assembly, Java, Haskell, OCaml and Python programs that have nothing in
common but their author. This directory holds TLA+ models of the ones whose
correctness rests on more than a single thread of straight code, the TLC
configurations that check the models on small instances, and theorems about
them with TLAPS proofs. `PROJECT.json` maps every definition to the lines it
models, lists what each run checks and the hazards of the code.

Contents: 1 inventory, 2 modules and code, 3 runs, 4 fairness, 5 proofs,
6 what the models say about the code, 7 limits, 8 plan.

## 1. Inventory

Paths are relative to `src/`. *M* modelled, *P* partly, *–* not modelled (section 7 and
the plan in section 8 say why and when).

### Non-blocking queues — `II year/concurrent-programming/non-blocking-queues` (M)

Four concurrent queues of 64-bit values with one interface (`new`, `delete`,
`push`, `pop`, `is_empty`); `pop` returns `EMPTY_VALUE` from an empty queue.
`new` and `delete` are called when no other thread is inside. Every atomic
access is sequentially consistent, so an interleaving of single accesses is
what the machine does.

| part | state | what is hard | what makes it correct |
|---|---|---|---|
| SimpleQueue.c | list with a dummy node, a mutex for each end | `push` links the node (l.76) and then moves the tail (l.77) under one mutex, `pop` frees the dummy under the other: the tail may point to a freed node for a moment | linearizable FIFO, no access to freed memory, `delete` frees all |
| RingsQueue.c | list of rings, indices, two mutexes | pusher and popper share indices, `next` and the slots of the (non-atomic) buffer, and read them one after the other; a drained ring is freed behind the pusher | the same, and no race for a slot |
| HazardPointer.c | a published address and a list of retired ones per thread | `protect` must publish and look again; a scan frees what it has not found published | a protected node is not freed, each node is freed once, garbage is bounded |
| LLQueue.c | lock-free list, one hazard pointer per thread | the pointer is moved from node to node; help of a slow pusher | linearizable FIFO, lock-freedom, no access under the pointer to freed memory |
| BLQueue.c | lock-free list of buffers, `fetch_add` counters, one hazard pointer | push and pop meet in a slot (`EMPTY_VALUE`, item, `TAKEN_VALUE`); the new tail is linked after it has become the tail | nothing lost, nothing popped twice, nothing overtaken, an honest EMPTY, lock-freedom |

The lock-free queues call `protect`, `clear`, `retire` and `finalize`;
nothing else interacts.

### MIMPI — `II year/concurrent-programming/MIMPI` (M; `mimpirun` –)

Message passing between processes over pipes. State of a process: for each
other process a list of unmatched messages and the flags `finished`,
`process_waiting_for_me`, `deadlock`, `sended_barrier`, under `lock[i]` and
`cond[i]`. A receiver thread per process i moves what arrives from i there;
the main thread runs `MIMPI_Send`, `MIMPI_Recv`, the group calls `Barrier`,
`Bcast`, `Reduce` (sends and receives along a binary tree) and `Finalize`.
Hard: wakeups, messages of one call met by the receive of another, a process
that leaves in the middle, deadlock reports that cross the awaited message.
`mimpirun` makes the pipes, renumbers their descriptors and starts the
processes. `channel.h` and `mimpi.h` are not in the repository.

### PPCB — `II year/computer-networks/project1` (M; the programs P)

A file transfer protocol with three transports. `ppcbs` serves one session at
a time, `ppcbc` sends its standard input in one session. Over `udp` a missing
packet ends the session; over `udpr` each packet is acknowledged and
retransmitted up to `MAX_RETRANSMITS` times after `MAX_WAIT` seconds; over
`tcp` a connection is a session and an end that is too slow ends it. Hard:
loss, duplication, reordering, old packets, both sides timing out, packets
from a client whose session it is not, a connection closed with data on the
way. Correct: what is printed is the beginning of the data, success means all
of it was printed, all come to an end.

### Kierki — `II year/computer-networks/project2` (M; interactive client and parsing P)

A game server with a thread per player: four barriers a deal, a semaphore
per seat that passes the turn, `game_states` from which the thread of a newcomer
goes on where that of a lost player stopped, an array of sockets, a pipe for
the word "stop". A client goes through the states of `mess_handler` and ignores
what it does not wait for; the automatic one chooses the cards. Hard: a player
lost between any two messages, a leaving thread that holds the turn, a newcomer
that runs before its predecessor has returned, points added by one thread of
four, messages repeated to a newcomer. Correct: one player's turn at a time,
tricks in order, cards by the rules whoever was replaced, every point counted
once, server and clients agreed on the next step, the game ends.

### Posets — `II year/cpp-course/project2` (M)

Named elements and a table of relations, given or derived, for each poset;
identifiers of deleted posets are given out again in order. Calls insert and
remove elements, add and delete relations. Hard: `add` closes the table in one
pass, `remove` and `del` must not lose or invent a pair, stale identifiers.
Correct: every table is a partial order, every call does and returns what its
comment promises.

### Rest of the C++ course — `II year/cpp-course` (–)

`parking` (paid intervals over two days), `crosswords` (geometry of words),
`stack` (copy on write with references given out), `college` (people, courses,
assignments in both directions), `surfaces` (combinators of functions).
Sequential; their hazards are long sequences of legal calls and, for `stack`,
what is shared when.

### Ternary sequences — `I year/computer-architecture-and-operating-systems/project1` (M)

`seq.c`: a set of sequences kept as a tree, and classes of equivalent ones with
a name. The nodes of a class share a record that counts them and owns the name.
Calls add, remove (a sequence with all that continue it), name, and unite. Hard:
every `malloc` may fail, also the third of one call; a record is freed by its count,
after any order of unions, removals and names. Correct: no node has a class that
was freed, a class lives as long as its nodes, names are freed, and a call
that fails changes nothing.

### Rest of the first year — `I year` (–)

`scopy.asm` (copying with two buffers and a 16-bit counter), `GameOfLife.c` (a
sparse board), `SameGame.c`.

### Others (–)

`II year/OOP/project`: an interpreter and a step debugger in Java (scopes,
procedures, breakpoints by step count). `III year/functional-programming`:
reduction of terms; `III year/ocaml`: regular expressions;
`III year/robot-control`: image processing and control.

## 2. Modules and code

| module | lines of code | what it is |
|---|---|---|
| FifoQueue | – (abstract; the interface the four queues share) | what a queue promises: calls take effect in one instant between call and return, first in first out |
| SimpleQueue, SimpleQueueProofs | SimpleQueue.c | one action per access to what is shared; the proofs |
| RingsQueue, RingsQueueProofs | RingsQueue.c | the same with rings of RING_SIZE slots; the proofs |
| HazardPointer | HazardPointer.c | `protect`, `clear`, `retire`, its scan, `finalize` as operators for the modules below |
| HazardCells, HazardProofs | HazardPointer.c and its least client | threads that protect or swap nodes in shared cells; the proofs |
| LLQueue, LLQueueProofs | LLQueue.c | extends HazardPointer; the proofs |
| BLQueue, BLQueueProofs | BLQueue.c | extends HazardPointer; the proofs |
| Ppcb, PpcbProofs | server_\*.c, client_\*.c, common.c, ppcbs.c | clients, server and three kinds of network; the proofs |
| Mimpi, MimpiProofs | mimpi.c | processes, receiver threads, pipes; the proofs |
| Hearts | client_handler.cpp, mess_handler.cpp | the rules: who takes a trick, points, the automatic player's choice |
| Kierki | the same, main and accepting threads | extends Hearts: threads, clients, losses, newcomers |
| OrderedSets | – (abstract; the comments of poset.cc) | posets as sets with an order |
| Poset, PosetProofs | poset.cc | vectors, tables, identifiers; the proofs |
| WordClasses | – (abstract; what the calls of seq.c do for their caller) | words divided into classes with names |
| SeqTree | seq.c | nodes, class records, counters and strings |
| MC… | – | constants and symmetry for TLC |

Conventions: a thread's position is `pc[t]`, its locals are `my[t]` (or
`node[t]`, `value[t]`); `From(t, here, there)` moves it. Nodes are addresses in
`Addr`; `live` are those malloced and not freed, and a freed address may be
given out again, so an ABA problem would be visible. `chain` is a history
variable, the nodes of the list from the head on (of BLQueue, up to the tail, also
where a link is still missing); so is `queued` of RingsQueue, the
slots that hold items, ring after ring. Other history variables are named in
their modules. None is read by a guard, with two exceptions: where the code
has gone wrong beyond what can be followed, the model stops (`spoilt` of LLQueue,
`OffCourse` of Kierki), and a thread of LLQueue under which a node was freed reads
anything from it. A definition `X_what` is `X` with a bug the code does
not have, used to see that a property would notice it.

**Queues.** One action is one access to shared memory, or several when only
the holder of a mutex that the thread has can touch the words concerned. The
refinement mapping of a queue gives `items` from the nodes behind the dummy
and each thread's state in its call; where the instant at which an empty `pop`
or an `is_empty` takes effect is only known later (RingsQueue l.111 and l.142,
LLQueue l.110 and l.143), `FifoQueue` lets a call remember that it has *seen*
the queue empty or not, and the mapping says when it has.

**HazardPointer.** A scan of `retire` reads the other threads' pointers one
by one in an arbitrary order (`scan[t].unread`), for each retired node from the
front of the list. `register` only numbers the threads.

**LLQueue.** A scan frees whatever no pointer keeps, also a node that another
thread goes on using without its pointer: the head of a pop after l.121
(`my[t].end`), the head that l.124 or l.143 has just loaded (`my[t].other`).
`endFreed` and `otherFreed` are the threads to which that has happened, also when the
address is in use again. Such a thread may go on without harm: its pop compares
the head once more and starts again. If it does use the node, the queue is
`spoilt`: l.124 or l.143 has read a freed node (either outcome of the load is
allowed), or l.129 has exchanged a head that only has the freed one's address.
What the code does from there is undefined, or the loss of the list, and the
model stops.

**Ppcb.** `client[c]` and `server` have the position of each side in its
functions (`conacc`, `acc`, `rcvd`; `listen`, `conn`, `data`, `first`, `next`),
the retransmissions so far and the packet number. An action is a packet
received with everything up to the next wait, or a timeout. Data are units; a
full packet holds `BUFFER_SIZE` of them. `net` is chosen once: *wild* (anything
ever sent may come at any time, again, or never), *ordered* (first in first
out, a few packets lost) or *stream* (tcp: nothing lost, `SYN` and `FIN` stand
for the connection's beginning and end). The functions of `udp` and `tcp` differ
from `udpr` in the acknowledgements, so the three share their actions.

**Kierki.** `pc[s]` is the place of the thread of seat s between two barriers,
two waits or two messages; a thread is one action from one such place to the
next. A client decides nothing by itself, so a message is handled by it when it
is sent (`Receive`) and only what it sends back (`up`) is on its way. A player is
lost at any moment (`LoseClient`), and its thread finds it out at the next
message (`NoticesLoss`) and leaves in two steps: it says that the seat is free
(`Leave`), and later erases the socket and passes the turn on (`Returns`); in
between the thread of a newcomer may start. Every loss the code can notice is an
action, those it handles wrongly too, and three history variables say what they
have led to: `extra` counts the turns given by threads that had passed theirs on
(l.545), `replayed` says that a newcomer began before its predecessor had said
where it stopped (l.543, l.575), `unsure` has the deals and seats in which a client
may not know its own cards. A game is followed until it is `OffCourse`: one seat is
asked out of its turn, or a deal is replayed.

**Poset.** One action per call; `posets[id]` is the vector and the table,
`available` the queue of identifiers. The mapping to OrderedSets forgets
positions and whether a pair was given or follows.

**SeqTree.** One action per call. A node is known by its sequence, so the walk
from the root is a look for prefixes; `class[w]` is the node's pointer, `counter`
and `s` are the fields of the records by address, and addresses are given out
again. `strings` counts the names allocated, `merged` (history) the unions of
equal names. The mapping to WordClasses turns pointers into sets of words.

**Mimpi.** A process runs `program[p]`, a sequence of calls. A group call is
unfolded into the sends and receives it makes (`BarrierSteps`, `BcastSteps`,
`ReduceSteps` from the tree of `Child` and `Parent`), each one action. What
happens under `lock[i]` is one action: a receive looks, and either returns or
sleeps (`wait`); `Receive` is one round of a receiver thread and wakes the
sleeper (`woken`), which looks again. Data of point-to-point messages are the
position of the send in its program, so order and duplication can be seen. `log`
(what each call returned), `sent` and `taken` (how many barrier messages were put
in each pipe, and how many of them barriers have taken) are history. A group call
of a process that is alone has no steps and returns at once.

## 3. Runs

All runs finish in less than two and a half minutes each.

| run | instance | shows |
|---|---|---|
| simple_queue | 3 threads, 2 values, 3 addresses | `IInv` (the inductive invariant), `MemorySafe`, refinement of FifoQueue, `Progress` |
| rings_queue | 2 threads, 2 values, 3 addresses, rings of 2 | `RingsInv` (the inductive invariant with `MemorySafe`), refinement, `Progress` |
| hazard_cells | 2 threads, 2 cells, 6 nodes, threshold 0 | `HazardInv`, `ProtectedIsLive`, `BoundedGarbage` |
| ll_queue | 3 threads, two that push and two that pop, 3 addresses, nothing reclaimed | `LLInv` (the inductive invariant), refinement, `LockFree` |
| ll_queue_reclaim | 2 threads, 2 values, 3 addresses, every `retire` scans; unprotected nodes are freed too, and the queue is followed until one of them is used | `MemorySafe`, refinement until then (`FifoUntilSpoilt`) |
| bl_queue | 2 threads, 3 values, 3 addresses, buffers of 2, every `retire` scans | `BLInv` (the inductive invariant), `MemorySafe`, `NoOvertaking`, `EmptyIsHonest` |
| bl_queue_live | 2 threads, 2 values, buffers of 1, every `retire` scans | `LockFree` |
| ppcb | 2 clients, lengths 0, 3, 4 with packets of 2, two retransmissions; wild with two sessions, ordered with up to two losses, stream | `PpcbInv`, `SuccessMeansSaved`, `FailureHasCause`, `Termination` |
| mimpi | 4 processes, the programs of MCMimpi | `MimpiInv`, `ReceivesInOrder`, `NoLostWakeup`, `BarrierHolds`, `GroupResults`, `Completes`, `DetectsDeadlock` |
| kierki | 4 seats, two deals of three tricks (one without hearts led by S, then the robber led by N), up to two players lost, at any message; until `OffCourse` | `InTurn`, `PlaysByTheRules`, `ScoredOnce`, `InStep`, `Completes` |
| poset | 4 names; one poset of up to four elements, or two with three together | `PosetInv`, refinement of OrderedSets (`Implements`) |
| seq | 4 sequences, one of length three with its prefixes and one beside it; three classes | `SeqInv`, refinement of WordClasses (`Implements`) |

`MemorySafe` of a queue is: no freed node is accessed, `delete` leaves nothing
allocated and, where slots are raced for, no two threads are at one.
`MimpiInv` joins the types with `NoStray`; `PosetInv` joins "every table is a
partial order" with "no identifier is given out twice", `InTurn` is "the turn is
one token, and one more for each loss at TAKEN, and nobody is asked out of turn
without such a loss" with "the tricks are taken in the order of the seats" (`OneTurn`,
`TricksInOrder`), and `SeqInv` joins the shape of the tree with `Counted` (a class
counts the nodes that point to it) and `NamesFreed`.

**Bounds.** In SimpleQueue and LLQueue two threads at one end and one at the
other meet in every pair of accesses (in ll_queue one thread makes every call,
one only pushes and one only pops). In RingsQueue and BLQueue two threads do:
each end of RingsQueue has its mutex, so that of two pushers one only waits, and
what is shared without a lock is shared by one pusher and one popper; a third
thread of BLQueue is out of reach with reclamation. Three addresses let a list
of a dummy and an item coexist with a freed and reused node; two values tell the
order of items, and ll_queue, which has one, leaves order to ll_queue_reclaim.
Rings and buffers of 1 and 2 slots make them fill, drain and wrap around in a
few steps, and `IndexBound` (a multiple of the size) caps the counters after two
rounds. `RETIRED_THRESHOLD` 0 makes each retirement scan, so every schedule of
a scan happens; 4, with fewer addresses than that, none. With lengths 0, 3 and
4 there are no packets, a short last packet and only full ones; two lost
packets are as many as there are retransmissions. Four processes are the least
with one that has both a parent and a child in the tree. The programs of
MCMimpi have: barriers in a row; a reduction, a broadcast and a barrier, in
orders that are safe and one that is not (section 6); broadcasts and reductions
of the same tag one after the other, with other data, so that a neighbour may be
in the next call already; roots other than 0; a
process that makes fewer calls than the others; receives by tag and by `ANY` of
messages of two tags; messages nobody takes; calls with a bad or the own rank;
and processes that wait for each other, with detection. Three tricks of Kierki
have a first, a middle and a last one, which the code treats differently, and
two deals the step from one to the next; in the first, which N does not lead, a
late client may keep cards that were played, and bring them into the second; two losses let a newcomer be lost too, or two seats be free at once. Four elements are the least in which `add` joins two chains of two. A
sequence of length three makes three `malloc`s of one `seq_add`; three classes
are two to unite and one to leave alone; names of one letter are empty or not and
equal or not, and the order in which two names are joined is not told apart.

`CHECK_DEADLOCK FALSE` is given where the system may stop: when all transfers
have ended (Ppcb), when the game has (Kierki), when all processes have finished
or wait for each other (Mimpi; that they do so only when they should is `Completes` and
`DetectsDeadlock`). The queues never stop: their threads go on calling, and TLC
checks that they can. Symmetry is used for safety runs only.

## 4. Fairness

- SimpleQueue, RingsQueue: weak fairness of each thread inside a call. The
  mutexes are not fair and a waiter may be overtaken for ever, so what is
  checked is that *some* call returns as long as one is in progress.
- LLQueue, BLQueue: weak fairness of "some thread takes a step" only. That is
  what lock-freedom means: nothing is assumed of any one thread, which may stop
  anywhere, also between linking its node and moving the tail. BLQueue also
  needs `malloc` not to fail for ever (a failing `push` starts again).
- Ppcb: weak fairness of each client and of the server with each client. Each
  host goes on when a packet has arrived or its receive timer has run out
  (`SO_RCVTIMEO`). `Termination` is stated of ordered links and of tcp; on a wild
  network a packet that comes again and again keeps a host busy for ever.
- Kierki: weak fairness of four groups: the server's threads with its barriers
  (the system schedules them, and a barrier lets all go when all have come), the
  question for a card, the clients' answers, and the coming of a newcomer to a free
  seat. The last is the environment's and the game waits without it: the server
  is meant to pause until somebody comes. They are `Serve`, `Ask`, `Answer` and
  `Come`, and end with the game that is followed (`OffCourse` is an exception in
  `Completes`).
- Poset, SeqTree: none; they are sequential.
- Mimpi: no fairness. "Comes to an end" is stated of the states in which
  nothing is left to do (`Quiescent`).

## 5. Proofs

**SimpleQueueProofs**, for any sets of threads, values and addresses:

- `Invariance`: `IInv` is an invariant. That no freed node is accessed is not
  inductive alone: a push reads the tail, so the tail has to be the last node
  whenever no push is between its two stores (`TailInv`), which needs the list
  to be what `chain` says (`ChainInv`), the locks to exclude (`MutexInv`), what
  a popper has read to be still so (`PopInv`), and the live nodes to be those of
  the list and the one being freed (`LiveInv`). One lemma per action, one step
  per conjunct; two lemmas about positions after `Append` and `Tail` carry the
  list.
- `MemorySafety`, `DeleteFreesAll`: `NoUseAfterFree` and `NoLeak` follow.
- `Linearizable`: the refinement. Under the mapping every action is one step of
  FifoQueue or a stutter; `IInv` before and after gives what the list holds.

**RingsQueueProofs**, for any values, addresses and ring size and finitely many threads:

- `Invariance`: `IInv`. To the parts it shares with SimpleQueue it adds what the
  indices promise: a ring holds at most RING_SIZE items, behind the head no ring
  is empty and nothing has been popped (`IndexInv`); the slot a pusher found free
  stays so and what a popper has read is still so (`CallInv`); and `queued` runs
  through the slots between the two indices of each ring, in order (`QueuedInv`).
- `RingsAreSafe`: `RingsInv`. That a writer and a reader are never at the same
  slot is arithmetic: two indices less than RING_SIZE apart are different modulo
  RING_SIZE (`SlotsApart`).
- `Linearizable`: the refinement. An empty pop and `is_empty` read two words; by
  `CallInv` what the first read says was true at that instant, and `seen` of
  FifoQueue keeps it.

**HazardProofs**, for finitely many threads, any cells and nodes and any threshold:

- `HazardInvariance`: every node is in one cell, or about to be retired by one
  thread, or once on one list; and whoever *suspects* a node that a thread has
  validated has not read that thread's pointer yet (`PublishedInv`): the pointer
  was published before the validation, when the node was still in its cell, so
  any scan for it began later.
- `Protection`: `ProtectedIsLive` follows.
- `GarbageIsBounded`: `BoundedGarbage`. During a scan, three things add up to at
  most two for each other thread: the nodes it has passed over, the threads
  whose pointer may still make it pass over one (`Keepers`), and those that may
  do so with another node later (`LateKeepers`). A step that keeps a node uses
  one of them up and no step of anybody gives one back, as what is ahead of a
  scan is in no cell and cannot be loaded again (`AheadIsUnlinked`).

**LLQueueProofs**, for any threads, values, addresses and threshold, with no
restriction on what a scan may free:

- `Invariance`: `LLInv`, which says that until the queue is spoilt it is `Sound`. Every
  live node has one owner: the list, the pusher that has not linked it, the popper that has unlinked it, or one retired list, once
  (`OwnerInv`). The head moves on from a node and never comes back to it, and a
  head found not to be the tail is never again the tail (`PlaceInv`, `PastTail`),
  both said of a thread whose node has not been freed under it;
  the second is why a pop needs no second look at the tail. The node that a
  pointer keeps is live and nobody's new node (`HeldInv`), since whoever suspects
  it has not read that pointer yet (`ShieldInv`). A freed node may be the one that a
  thread in the window holds; from that scan on the thread is in `endFreed` or
  `otherFreed`, and nothing is claimed of its node (`Unfreed`). What remains to be
  shown is that only three steps can do harm with it, l.124, l.129 and l.143, and
  each sets `spoilt`. Most steps change one thread's
  locals only, and `LocalStep` says once what such a step has to show.
- `MemoryIsSafe`: `MemorySafe`. Until then a freed node is about to be read by the
  loads of l.124 and l.143 only, of a thread in `otherFreed`; everything else that is
  read or written is live.
- `Linearizable`: `FifoUntilSpoilt`, the refinement up to the step that spoils the
  queue. A push takes effect when it links its node, a
  pop when it moves the head; a pop that returns EMPTY_VALUE and an `is_empty` do
  when they read `head->next`, which for the pop is before it knows that the head
  was still the head (`seen`).

**BLQueueProofs**, for any threads, values, addresses, `BUFFER_SIZE` and threshold:

- `Invariance`: `BLInv`, in five layers, each of which is kept by every step given
  the ones before. *Memory* (`MemInv`): the list is `chain`, in which a link may be
  missing only while the push that made the next node the tail still owes it
  (`Links`); every live node has one owner, and a node in use by a thread is
  shielded by its pointer as in LLQueue. *Slots* (`SlotInv`): below `pop_idx` a slot is
  taken or claimed by one pop, and a node that is left, retired or freed is used up.
  *Items* (`Conservation`): an item is in one slot or with one thread, and what a
  finished push put in is in the queue until it is taken. *Order* (`OrderInv`): what
  was finished when the push of v was called, and no pop has claimed, has its slot
  before the one v has or will have, from the moment the push knows its tail
  (`Behind`). *Questions* (`AskedInv`): what `is_empty` has read bounds the slots it was
  asked about. Steps that change nothing a layer is about are one lemma
  (`QuietSteps`).
- `MemoryIsSafe`: `MemorySafe` follows from the first layer.
- `KeepsOrder`: `NoOvertaking`. A pop takes from the head's first unclaimed slot,
  and nothing that waits is before that (`NothingBefore`).
- `EmptyAnswers`: `EmptyIsHonest`. A node without a successor that a thread holds is
  the head, so what waits is in that node or behind a missing link (`NoSuccessor`);
  a pop has found the node used up, and `is_empty` its two counters equal, the second
  of them read later.

**PosetProofs**, for any names and any number and size of posets:

- `OrdersKept`: `PosetInv`. That `add` keeps a table transitive rests on its being
  an order before, which makes the two branches of the loop exclude or imply each
  other (`Follows`); `remove` and `del` keep it because a pair that is derived
  through the removed one is turned into one of its own, or the call refused.
- `KeepsPromises`: the refinement of OrderedSets. `PosetInv` gives that a name has
  one position, so that what a call does to positions is what it says of values;
  the closure that `add` computes is the smallest order with the new pair.

**MimpiProofs**, for any programs of calls (`MimpiAssumption`: tags are not negative, a
root is a process, nobody's data are missing from a reduction) and any number
of processes:

- `TypesKept`: types, tags and ranks in use. The invariant `Shape` adds what is
  left of a group call and that only messages for a receive get into a buffer.
- `WakeupsKept`: `NoLostWakeup`. A receive sleeps only after it has looked under the
  lock; every message that changes what it would find signals the condition; other
  calls of the same process do not run, and another process changes only its own
  entries.
- `MessagesInOrder`: `ReceivesInOrder`. For each pair of processes, what one has
  sent and the other has not got is first in the buffer and then in the pipe, in
  the order of sending, and none of it is missing unless the receiver leaves
  (`Track`). A receive takes the first that fits from the buffer or, finding none,
  sleeps until the receiver thread has moved one over: so it never passes over an
  earlier one that fits. Only who leaves says so (`Farewells`).
- `BarriersHold`: `BarrierHolds`, which is about executions without detection. The
  messages from one process to a neighbour in
  the tree are numbered in their pipe with the flag `barrier` as the last place
  (`Channel`); a process inside a barrier has sent and taken as many as the steps
  that are left say, and one outside as many as it has passed barriers (`Inside`,
  `Outside`). Nobody sends to its parent before it has taken from its children, nor
  to a child before it has taken from its parent (`Before`), so one more barrier
  passed at a process means one more begun at its parent, from there to the
  root, and from the root to everybody (`UpAndDown`, by the least process to which
  it does not lead). A barrier that fails adds to what has begun only.

**PpcbProofs**, for any clients, lengths, packet size and number of
retransmissions, over each network:

- `SuccessIsTrue`: `SuccessMeansSaved`. The invariant `SavedInv` says of what is on
  its way that DATA is one of its client's packets (`OnlyData`) and an RCVD was
  sent when all of them had been printed (`OnlyConfirmed`), and of the session
  that what is left of `data_len` is the length of what is not printed
  (`SessionOK`): the server only counts bytes, and that the count comes out
  means that the packets did is the content of the lemma `Counts`.
- `InOrder`: `PrintsPrefix`, the part of `PpcbInv` about what is printed.
- `StayInStep`, `ProtocolInvariance`: `InStep`, and with it the whole of `PpcbInv`.
  `StepInv` says how far the sides can be apart: the client is ahead by at most
  the packet it has sent (`Sent`), behind by at most the one acknowledged last
  (`Acked`); a CONN still on its way, which could begin a session anew, is met only
  by a client that has had no ACC (`Unopened`), and on a link that is a queue no
  CONN is behind DATA (`Tidy`).
- `FailsForCause`: `FailureHasCause`, for networks that lose no more packets than
  a host may repeat, `MaxLost <= MAX_RETRANSMITS`. (With more, a client all of
  whose CONNs are lost fails, as it should.)
  The invariant `CauseInv` follows an undisturbed transfer: while a client has lost
  nothing but CONNs, it, its two links and its session are together in one of
  thirteen places (`Smooth`: `Resting`, `CallsOut`, `Welcomed`, ..., `Over`), each
  with one packet on its way or one run of them, and from each a step leads only
  to the next. Where neither host has timed out neither can, for what it waits for
  is always on its way; the exception is a lost CONN, and `CallsOut` counts that
  each was repeated for a loss.

The constants are assumed to be what the modules' `ASSUME`s say (NULL is no
address and NoThread no thread, the threshold is a natural number, a packet holds
at least one unit, nobody is called Nobody, threads are finitely many where a
bound counts them) and nothing more.

Model-checked only: of Mimpi `NoStray`, `GroupResults`, `Completes` and
`DetectsDeadlock`; all of Kierki and SeqTree. They are planned (section 8), but for `Completes` and `DetectsDeadlock`, which are about what holds
when nothing is left to do, and the points of Hearts, which are sums by folds, over
which nothing can be proved for every hand without induction over data. Liveness
and lock-freedom are out of the prover's reach.

## 6. What the models say about the code

None of this contradicts a statement of the repository, which has few. Of the
assignments it has the descriptions of two: `II year/cpp-course/project1/description.txt`
(parking, not modelled) and `II year/cpp-course/project2/description.txt` (posets), which
agrees with OrderedSets; the others are known by their code and comments. This is
what a user of the code would want to know.

- **LLQueue, late free.** `pop` moves its only hazard pointer from the head to
  the next node (l.121) and goes on using the head; `queue->head->next` (l.124,
  l.143) reads a node never protected. Another thread may pop that node and free it
  meanwhile. Then l.124 or l.143 reads freed memory, or, if the address is the head's
  again, l.129 succeeds on a stale head and makes a node that has left the list
  the head. One `pop` in the window is enough to free: a thread scans when its
  list is longer than 128, and it may be 128 long before. `ll_queue` is the
  code before anything is reclaimed. `ll_queue_reclaim` frees as the code does and
  follows every execution to the first such use (`spoilt`); `MemorySafe` and
  `FifoUntilSpoilt` say that nothing goes wrong but by it. They do not say that the
  code is safe, and it is not.
- **BLQueue is not linearizable.** A push makes its new node the tail (l.105)
  and links it after (l.108). In between the list is cut: pushes behind the cut
  return, and a pop answers `EMPTY_VALUE`. `EmptyIsHonest` is the promise that is
  left. `is_empty` may also answer FALSE on an empty queue, as counters are
  incremented by attempts that fail.
- **Hazard pointers, garbage.** A thread's list is bounded by the threshold or
  *two* nodes per other thread, not one: a pointer published late may hit a node
  that has been freed, reused and retired again.
- **PPCB udpr.** A repeated CONN or DATA is ignored and starts the receive timer
  again, so one side's retransmissions can keep the other from answering until
  the first gives up: one lost CONACC, DATA or ACC may end a transfer.
  When the last ACC is lost, the RCVD behind it is taken for a bad ACC: the
  client fails although all was saved. The length of a packet is checked before
  its number, so a repeated full packet ends a session that has less than that
  left. An empty transfer over udpr always fails. A CONN that arrives late opens
  a session nobody is in; the data may be printed again. A stranger's DATA is
  not answered.
- **PPCB tcp.** `ppcbc` connects before it reads its standard input (so the
  server, which accepts one connection at a time, waits for the user) and the
  server's CONN timeout may close a connection whose client has not read it yet.
- **Kierki, losses.** There are four ways in which a lost player stops or falsifies
  a game. All of them happen in the run, and the properties say how far they go.
  A thread that notices the loss at TAKEN has passed its turn on and releases the
  semaphore of its seat all the same (client_handler.cpp:545): its successor can
  play before its time, and two seats may be asked at once. `OneTurn` allows one such
  turn for each of these losses (`extra`) and nobody out of turn without one; from the
  moment a seat is asked out of turn the game is not followed. The newcomer after
  such a loss is told of the deal only at the next trick. A thread that leaves at
  TAKEN or SCORE frees the seat before it stores where it stopped (l.543, l.575) and may
  be overtaken by the newcomer, who repeats a trick or the end of a deal; nothing
  is said of the game from there (`replayed`). A client that joins in
  the middle of a deal removes `cards_vector[own position]` of each TAKEN
  (mess_handler.cpp:628), which is its own card only if N leads; `PlaysByTheRules`
  is stated of the deals and seats where it knows its cards (not `unsure`). A newcomer for whom no place in
  `client_sockets` is free (l.647) is stranded: `Stranded` is an exception in
  `Completes`. On a reset connection (not on a closed one) the server exits.
- **Posets.** Whether a pair was given or derived (`RELATION`,
  `REL_TRANSITIVITY`) changes no result: `del` decides by looking for an element in
  between, and `remove` only turns one into the other. The second branch in
  `addTransitivityRelations` (l.208) is skipped for a row that had the first; the
  pair it would have added is there already, or follows.
- **seq.c, equal names.** A union of two classes with equal names, also with two
  empty ones, keeps the first string and loses the second: `class_change` sets
  both old `s` to NULL (l.372) and l.448–449 free the records only. `NamesFreed` says
  that this is the only leak: one string for each such union.
- **MIMPI, barriers.** `MIMPI_Recv` looks at the barrier flag of its source
  before anything else, whatever it is to receive (l.325). A reduction, a
  broadcast from another root than 0, or a receive, right before a barrier, may
  take a neighbour's barrier message, return success without data, and leave the
  barrier waiting. `Careful` is the rule that avoids it (right before a barrier
  comes a barrier or a broadcast from 0); `NoStray` and `Completes` say that it is enough.
- **MIMPI, failures.** A process that misses a barrier makes some of the others
  return `REMOTE_FINISHED`, and their next barrier may then wait for a child
  that waits for its parent in this one. `BarrierHolds` remains true: nobody takes
  a failed barrier for a passed one. A receive from a finished process waits for
  ever if a message nobody wants is left in its buffer (l.376).
- **MIMPI, detection.** A process asks (-6) as soon as it starts to receive; the
  answer may be on its way already, so a deadlock can be reported where there is
  none, and the report can be found by a later receive; group calls ignore it, so
  barriers mean nothing with detection. Of two processes that do wait for each
  other one is always told (`DetectsDeadlock`); of three or more in a circle none.

## 7. Limits

- `malloc` succeeds, except in `push` of BLQueue and everywhere in seq.c, which
  handle the failure.
- The queues' contents are a few distinct values; BLQueue's are pushed again
  only when they have left the queue.
- Ppcb: packets are types, numbers and lengths; the size check of a receiver
  coincides with the type for the sizes of common.h. A client has its own session
  id. `sendto` succeeds. With ordered links the timers of both hosts are equal, and
  one that times out is owed nothing. Data with zero bytes are printed by
  `printf("%s")` up to the first of them (server_udp.c); data are abstract here.
  On a stream, as on the others, a packet arrives as a whole; `readn` goes on
  until it has one.
- LLQueue is not followed beyond the first use of a node freed under its thread
  (`spoilt`), nor Kierki beyond the first seat asked out of turn or the first
  deal begun where nobody stopped (`OffCourse`).
- Kierki: a newcomer is not lost before its predecessor's thread has returned
  (`Leave`), so that a seat has at most one thread on its way out. Messages that no client of the repository sends (a wrong card, a
  wrong type) are left out, and so are more than four clients and BUSY; a client that sends
  nothing for a while is asked again (`Timeout`). Its parsing, its arguments and
  the interactive client's commands are not modelled.
- Poset: names are values; the diagnostic output and the unknown-identifier
  texts are left out. `NULL` is one of the arguments.
- SeqTree: one set, as sets share nothing; the root, which has no name, is left
  out. `seq_delete(NULL)` does nothing and is left out, and so are NULL strings,
  which are refused as the empty ones are. `MaxClasses`, `MaxName` and `MaxLost`
  only keep calls from being made.
- Mimpi: a pipe takes any number of messages (receivers drain them all the
  time); the bytes of a message and its count are one value with its tag, so a
  receive of another count is one of another tag; all processes pass the same
  argument to `MIMPI_Init`; a signal comes with the change it signals, as the
  sleeper has to take the lock in any case.
- Surfaces and robot control compute with floating point numbers; parsing,
  terminal and file handling are I/O. The functional programs are recursive
  functions over terms: they can be checked against definitions on small terms,
  not proved with the tools used here.

## 8. Plan

In this order; a module for each, with its runs and, where given, its theorems.

1. *Done*: the queues with FifoQueue and the hazard pointers, PPCB over each
   transport, MIMPI, Kierki, posets with OrderedSets, seq.c with WordClasses; the
   proofs of section 5.
2. **Theorems**: `NoStray` and `GroupResults` of Mimpi; `OneTurn` and `TricksInOrder` of
   Kierki; `Counted` of SeqTree.
3. **Stack**: sequences of legal calls against an abstract definition (a value
   that only its owner changes).
4. **mimpirun**'s descriptors.
5. **Parking, crosswords, college, Game of Life, SameGame, scopy.asm**: pure
   operators against reference definitions over bounded inputs, in one run;
   **the Java interpreter's** environment and step counter.
6. **Runs** are kept few: when others need the time, bl_queue_live is to be
   joined with bl_queue.
