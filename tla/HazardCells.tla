----------------------------- MODULE HazardCells -----------------------------
(***************************************************************************)
(* HazardPointer with the least client that uses it as the queues mean to: *)
(* shared cells hold nodes; a thread protects the node of a cell and reads *)
(* it; a thread that swaps a new node into a cell retires the old one.     *)
(***************************************************************************)
EXTENDS HazardPointer, FiniteSets

CONSTANT Cells

(* MAX_THREADS (HazardPointer.h:7) bounds them. *)
ASSUME HazardCellsAssumption == IsFiniteSet(Threads)

VARIABLES
  cell,   \* the atomics HazardPointer_protect is called on
  pc,
  at,     \* the cell a thread is busy with
  mine    \* the pointer a thread loaded, or the node it is about to retire

vars == <<hazardVars, cell, pc, at, mine>>

Places == {"idle", "load", "publish", "validate", "reading", "retire", "scan"}

TypeOK ==
  /\ HazardTypeOK
  /\ cell \in [Cells -> Addr \cup {NULL}]
  /\ pc \in [Threads -> Places]
  /\ at \in [Threads -> Cells]
  /\ mine \in [Threads -> Addr \cup {NULL}]

Init ==
  /\ HazardInit
  /\ live = {}
  /\ cell = [c \in Cells |-> NULL]
  /\ pc = [t \in Threads |-> "idle"]
  /\ at \in [Threads -> Cells]
  /\ mine = [t \in Threads |-> NULL]

From(t, here, there) == pc[t] = here /\ pc' = [pc EXCEPT ![t] = there]

(* HazardPointer_protect: load, publish, load again and compare. *)
Protect(t) ==
  /\ From(t, "idle", "load")
  /\ \E c \in Cells : at' = [at EXCEPT ![t] = c]
  /\ UNCHANGED <<hazardVars, cell, mine>>

ProtectLoad(t) ==
  /\ From(t, "load", "publish")
  /\ mine' = [mine EXCEPT ![t] = cell[at[t]]]
  /\ UNCHANGED <<hazardVars, cell, at>>

ProtectPublish(t) ==
  /\ From(t, "publish", "validate")
  /\ Publish(t, mine[t])
  /\ UNCHANGED <<retired, scan, live, cell, at, mine>>

ProtectValidate_blind(t) ==
  /\ From(t, "validate", "reading")
  /\ UNCHANGED <<hazardVars, cell, at, mine>>

ProtectValidate(t) ==
  /\ \/ cell[at[t]] = mine[t] /\ From(t, "validate", "reading")
     \/ cell[at[t]] # mine[t] /\ From(t, "validate", "load")
  /\ UNCHANGED <<hazardVars, cell, at, mine>>

ReadDone(t) ==
  /\ From(t, "reading", "idle")
  /\ Clear(t)
  /\ mine' = [mine EXCEPT ![t] = NULL]
  /\ UNCHANGED <<retired, scan, live, cell, at>>

(* A new node, or none, is swapped into a cell; the old one is retired.    *)
Swap(t) ==
  /\ \E c \in Cells, a \in (Addr \ live) \cup {NULL} :
       /\ cell' = [cell EXCEPT ![c] = a]
       /\ live' = live \cup ({a} \ {NULL})
       /\ mine' = [mine EXCEPT ![t] = cell[c]]
       /\ IF cell[c] = NULL THEN From(t, "idle", "idle") ELSE From(t, "idle", "retire")
  /\ UNCHANGED <<pointer, retired, scan, at>>

RetireOld(t) ==
  /\ From(t, "retire", "scan")
  /\ Retire(t, mine[t])
  /\ mine' = [mine EXCEPT ![t] = NULL]
  /\ UNCHANGED <<cell, at>>

Scan(t) ==
  /\ pc[t] = "scan"
  /\ ScanRead(t) \/ ScanFree(t)
  /\ UNCHANGED <<cell, pc, at, mine>>

ScanDone(t) ==
  /\ From(t, "scan", "idle")
  /\ ~Scanning(t)
  /\ UNCHANGED <<hazardVars, cell, at, mine>>

Next ==
  \E t \in Threads :
    \/ Protect(t) \/ ProtectLoad(t) \/ ProtectPublish(t) \/ ProtectValidate(t) \/ ReadDone(t)
    \/ Swap(t) \/ RetireOld(t) \/ Scan(t) \/ ScanDone(t)

Spec == Init /\ [][Next]_vars

-----------------------------------------------------------------------------
(* What hazard pointers are for: the node HazardPointer_protect returned is *)
(* not freed before the thread clears its pointer, although it may be       *)
(* swapped out, retired and scanned for meanwhile.                          *)
ProtectedIsLive ==
  \A t \in Threads : pc[t] = "reading" /\ mine[t] # NULL => mine[t] \in live

(* A node is in one cell, or about to be retired by one thread, or on one   *)
(* list once: it is freed once.                                             *)
Pending(t, a) == pc[t] = "retire" /\ mine[t] = a
Linked(a) == \E c \in Cells : cell[c] = a
On(t, a) == \E i \in 1..Len(retired[t]) : retired[t][i] = a

Ownership ==
  /\ \A c, d \in Cells : cell[c] = cell[d] /\ cell[c] # NULL => c = d
  /\ \A t \in Threads : \A i, j \in 1..Len(retired[t]) :
       retired[t][i] = retired[t][j] => i = j
  /\ \A a \in Addr :
       /\ Linked(a) => a \in live
       /\ \A t \in Threads :
            /\ On(t, a) => a \in live /\ ~Linked(a)
            /\ Pending(t, a) => a \in live /\ ~Linked(a) /\ ~On(t, a)
            /\ \A u \in Threads \ {t} :
                 On(t, a) \/ Pending(t, a) => ~On(u, a) /\ ~Pending(u, a)

(* A scan that goes on is at a position of its list. *)
ScanInv ==
  \A t \in Threads :
    /\ scan[t].at <= Len(retired[t])
    /\ ~Scanning(t) => scan[t] = NoScan
    /\ pc[t] # "scan" => scan[t] = NoScan
    /\ pc[t] = "retire" => mine[t] # NULL

(* The pointer stays published from before the validation on, so whoever   *)
(* suspects the node has not read that pointer yet.                        *)
PublishedInv ==
  \A t \in Threads :
    /\ pc[t] \in {"validate", "reading"} => pointer[t] = mine[t]
    /\ pc[t] = "reading" /\ mine[t] # NULL =>
         /\ mine[t] \in live
         /\ \A u \in Threads :
              Scanning(u) /\ Suspect(u) = mine[t] => t \in scan[u].unread

HazardInv == TypeOK /\ Ownership /\ ScanInv /\ PublishedInv

(* What was retired and not freed stays bounded: another thread keeps from  *)
(* a scan at most two nodes, the one it has published and the one it has    *)
(* loaded and publishes while the scan goes on.  (One each is too few: with *)
(* three threads a freed node may come back into the cell, be retired       *)
(* again, and be kept by the late pointer that did not save it before.)     *)
Others == Cardinality(Threads) - 1
MostUnscanned == IF RETIRED_THRESHOLD > 2 * Others THEN RETIRED_THRESHOLD ELSE 2 * Others
MostGarbage == 1 + MostUnscanned

BoundedGarbage == \A t \in Threads : Len(retired[t]) <= MostGarbage

(* Why: every node a scan passed over used up one of the two a thread can  *)
(* keep from it; those that can still be kept are ahead of the scan.        *)
Ahead(t, a) == \E i \in scan[t].at..Len(retired[t]) : retired[t][i] = a
Keepers(t) == {u \in Threads \ {t} : Ahead(t, pointer[u])}
LateKeepers(t) == {u \in Threads \ {t} : pc[u] = "publish" /\ Ahead(t, mine[u])}

QuietInv == \A t \in Threads : pc[t] \in {"idle", "retire", "scan"} => pointer[t] = NULL

Kept(t) ==
  /\ ~Scanning(t) => Len(retired[t]) <= MostUnscanned
  /\ Scanning(t) =>
       /\ Len(retired[t]) <= MostGarbage
       /\ (scan[t].at - 1) + (Cardinality(Keepers(t)) + Cardinality(LateKeepers(t))) <= 2 * Others

GarbageInv == QuietInv /\ \A t \in Threads : Kept(t)
==============================================================================
