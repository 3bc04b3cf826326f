------------------------------- MODULE Queue -------------------------------
(***************************************************************************)
(* queue.c: a bounded first-in first-out queue of process control blocks.  *)
(* The array prefix proc[0 .. size-1] is a sequence.                       *)
(***************************************************************************)
EXTENDS Naturals, Sequences

CONSTANT MAX_QUEUE_SIZE

ASSUME QueueAssumption == MAX_QUEUE_SIZE \in Nat \ {0}

Empty(q) == q = << >>

(* Mutant of Enqueue: off by one at the limit.                             *)
EnqueueOneLess(q, p) == IF Len(q) + 1 < MAX_QUEUE_SIZE THEN Append(q, p) ELSE q

(* Mutant of Enqueue: in front of the others.                              *)
EnqueueInFront(q, p) == IF Len(q) < MAX_QUEUE_SIZE THEN << p >> \o q ELSE q

(* A full queue drops the process and tells nobody.                        *)
Enqueue(q, p) == IF Len(q) < MAX_QUEUE_SIZE THEN Append(q, p) ELSE q

(* dequeue, for a queue that is not empty: what it returns and leaves.     *)
Dequeued(q) == Head(q)

DequeueRest(q) == Tail(q)
=============================================================================
