---------------------------- MODULE HazardPointer ----------------------------
(***************************************************************************)
(* non-blocking-queues/HazardPointer.c: deferred reclamation of nodes that *)
(* other threads may still be reading.  Each thread publishes the one node *)
(* it reads in pointer[t]; a node taken out of a structure is retired to a *)
(* list of the thread that took it out, and freed by that thread when a    *)
(* scan of all pointers does not find it.                                  *)
(*                                                                         *)
(* The operations here are parts of the actions of the modules that use    *)
(* them: BLQueue, LLQueue and HazardCells.  retired_count is the length of *)
(* the list.  The scan reads the pointers in any order; the code's, by     *)
(* thread number, is one of them.  malloc of a RetiredNode succeeds.       *)
(***************************************************************************)
EXTENDS Naturals, Sequences

CONSTANTS Threads, Addr, NULL, RETIRED_THRESHOLD

ASSUME HazardPointerAssumption ==
  /\ NULL \notin Addr
  /\ RETIRED_THRESHOLD \in Nat

VARIABLES
  pointer,   \* HazardPointer.pointer, by thread
  retired,   \* HazardPointer.retired, by thread, the latest first
  scan,      \* the position and the unread pointers of a scan in retire
  live       \* malloced and not freed

hazardVars == <<pointer, retired, scan, live>>

NoScan == [at |-> 0, unread |-> {}]

HazardTypeOK ==
  /\ pointer \in [Threads -> Addr \cup {NULL}]
  /\ retired \in [Threads -> Seq(Addr)]
  /\ scan \in [Threads -> [at : Nat, unread : SUBSET Threads]]
  /\ live \in SUBSET Addr

(* HazardPointer_initialize *)
HazardInit ==
  /\ pointer = [t \in Threads |-> NULL]
  /\ retired = [t \in Threads |-> <<>>]
  /\ scan = [t \in Threads |-> NoScan]

(* The store of HazardPointer_protect, between its two loads. *)
Publish(t, p) == pointer' = [pointer EXCEPT ![t] = p]

(* HazardPointer_clear *)
Clear(t) == pointer' = [pointer EXCEPT ![t] = NULL]

Scanning(t) == scan[t].at > 0

(* Where a scan goes on: at position i of the list, or nowhere. *)
ScanFrom(i, list) == IF i <= Len(list) THEN [at |-> i, unread |-> Threads] ELSE NoScan

Full_exactly(list) == Len(list) = RETIRED_THRESHOLD + 1
Full(list) == Len(list) > RETIRED_THRESHOLD

(* HazardPointer_retire up to its loop: the list grows at its front, and    *)
(* is scanned when it is long enough.                                       *)
Retire(t, p) ==
  LET list == <<p>> \o retired[t] IN
  /\ retired' = [retired EXCEPT ![t] = list]
  /\ scan' = [scan EXCEPT ![t] = IF Full(list) THEN ScanFrom(1, list) ELSE NoScan]
  /\ UNCHANGED <<pointer, live>>

Suspect(t) == retired[t][scan[t].at]

Reserves(j, t) == pointer[j] = Suspect(t)

(* One atomic_load of the loop over pointer[j]: is the suspect reserved?    *)
ScanRead(t) ==
  /\ Scanning(t)
  /\ \E j \in scan[t].unread :
       scan' = [scan EXCEPT ![t] =
         IF Reserves(j, t) THEN ScanFrom(scan[t].at + 1, retired[t])
                           ELSE [at |-> scan[t].at, unread |-> scan[t].unread \ {j}]]
  /\ UNCHANGED <<pointer, retired, live>>

Without_unlinking(list, i) == list
Without(list, i) == SubSeq(list, 1, i - 1) \o SubSeq(list, i + 1, Len(list))

(* All pointers read and none is the suspect: unlink it and free it. *)
ScanFree(t) ==
  /\ Scanning(t) /\ scan[t].unread = {}
  /\ LET list == Without(retired[t], scan[t].at) IN
       /\ retired' = [retired EXCEPT ![t] = list]
       /\ scan' = [scan EXCEPT ![t] = ScanFrom(scan[t].at, list)]
  /\ live' = live \ {Suspect(t)}
  /\ UNCHANGED pointer

RetiredBy(t) == {retired[t][i] : i \in DOMAIN retired[t]}

(* HazardPointer_finalize: everything retired is freed. *)
Finalize ==
  /\ live' = live \ UNION {RetiredBy(t) : t \in Threads}
  /\ retired' = [t \in Threads |-> <<>>]
  /\ UNCHANGED <<pointer, scan>>
==============================================================================
