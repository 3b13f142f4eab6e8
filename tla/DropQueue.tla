----------------------------- MODULE DropQueue ------------------------------
(* What a ring buffer of states promises: a queue that holds Capacity items *)
(* at the most and, when it is full, drops the oldest for a new one.       *)
EXTENDS Sequences, Naturals

CONSTANTS Items, Capacity

VARIABLE queue

Enqueued(q, x) == Append(IF Len(q) = Capacity THEN Tail(q) ELSE q, x)

Put == \E x \in Items : queue' = Enqueued(queue, x)
Take == queue # <<>> /\ queue' = Tail(queue)
\* The socket is closed, or another opened: what was queued is gone.
Clear == queue' = <<>>

Spec == queue = <<>> /\ [][Put \/ Take \/ Clear]_queue
=============================================================================
