----------------------------- MODULE FifoQueue -----------------------------
(***************************************************************************)
(* What a concurrent queue of non-blocking-queues promises its callers:    *)
(* a linearizable first-in first-out queue of values.  A call is invoked,  *)
(* takes effect in one instant between its invocation and its return, and  *)
(* returns.  push never fails, pop answers EMPTY_VALUE only of a queue     *)
(* that was empty during the call, is_empty answers what was true at some  *)
(* instant of the call.                                                    *)
(*                                                                         *)
(* An implementation may learn only later that an instant of the past      *)
(* decided its answer (it has read two words, one after the other):        *)
(* seen[t] keeps which answers to "is the queue empty?" were true since t  *)
(* was invoked.  It may be any subset of them, because an implementation   *)
(* need not remember those it does not use.                                *)
(***************************************************************************)
EXTENDS Sequences

CONSTANTS Threads, Values, EMPTY_VALUE

VARIABLES items, op, seen

fifoVars == <<items, op, seen>>

Call(c, v) == [call |-> c, item |-> v]
Idle == Call("idle", EMPTY_VALUE)

Answers == {"pushed", "popped", "empty", "not_empty"}
Calls == {"idle", "push", "pop", "is_empty"} \cup Answers

FifoTypeOK ==
  /\ items \in Seq(Values)
  /\ op \in [Threads -> [call : Calls, item : Values \cup {EMPTY_VALUE}]]
  /\ seen \in [Threads -> SUBSET BOOLEAN]

FifoInit ==
  /\ items = <<>>
  /\ op = [t \in Threads |-> Idle]
  /\ seen = [t \in Threads |-> {}]

(* What a waiting caller may remember after this step: what it remembered, *)
(* and whether the queue is empty now.                                     *)
Watch ==
  /\ seen' \in [Threads -> SUBSET BOOLEAN]
  /\ \A t \in Threads :
       seen'[t] \subseteq IF op'[t].call \in {"pop", "is_empty"}
                          THEN seen[t] \cup {items' = <<>>, items = <<>>}
                          ELSE {}

Become(t, c, v) == op' = [op EXCEPT ![t] = Call(c, v)]

Invoke(t) ==
  /\ op[t] = Idle
  /\ \/ \E v \in Values : Become(t, "push", v)
     \/ Become(t, "pop", EMPTY_VALUE)
     \/ Become(t, "is_empty", EMPTY_VALUE)
  /\ UNCHANGED items

Push(t) ==
  /\ op[t].call = "push"
  /\ items' = Append(items, op[t].item)
  /\ Become(t, "pushed", EMPTY_VALUE)

Pop(t) ==
  /\ op[t].call = "pop"
  /\ items # <<>>
  /\ items' = Tail(items)
  /\ Become(t, "popped", Head(items))

WasTrue(t, empty) == empty \in seen[t] \cup {items = <<>>}

PopEmpty(t) ==
  /\ op[t].call = "pop"
  /\ WasTrue(t, TRUE)
  /\ Become(t, "popped", EMPTY_VALUE)
  /\ UNCHANGED items

AnswerIsEmpty(t) ==
  /\ op[t].call = "is_empty"
  /\ \/ WasTrue(t, TRUE) /\ Become(t, "empty", EMPTY_VALUE)
     \/ WasTrue(t, FALSE) /\ Become(t, "not_empty", EMPTY_VALUE)
  /\ UNCHANGED items

Return(t) ==
  /\ op[t].call \in Answers
  /\ op' = [op EXCEPT ![t] = Idle]
  /\ UNCHANGED items

(* Nobody's call: a waiting caller looks at, or forgets, the emptiness.    *)
Look == UNCHANGED <<items, op>>

(* delete and new, which the owner calls when no operation is in progress. *)
Renew ==
  /\ op = [t \in Threads |-> Idle]
  /\ items' = <<>>
  /\ UNCHANGED op

FifoNext ==
  /\ \/ \E t \in Threads : \/ Invoke(t) \/ Push(t) \/ Pop(t)
                           \/ PopEmpty(t) \/ AnswerIsEmpty(t) \/ Return(t)
     \/ Look
     \/ Renew
  /\ Watch

FifoSpec == FifoInit /\ [][FifoNext]_fifoVars
=============================================================================
