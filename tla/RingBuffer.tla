----------------------------- MODULE RingBuffer -----------------------------
(* The ring buffer of lwringbuffer.c, as a record.  Each function of the   *)
(* code holds the buffer's mutex from its first access to its last, so each *)
(* is one operator here.                                                   *)
EXTENDS Integers, Sequences

CONSTANTS
  Items,     \* what is queued
  Capacity   \* LW_STATE_RING_BUFFER_CAPACITY (16)

ASSUME RingAssumption == Capacity \in Nat \ {0} /\ Items # {}

Indexes == 0 .. Capacity - 1
Ring == {r \in [buf : [Indexes -> Items], head : Indexes, tail : Indexes,
                full : BOOLEAN] : r.full => r.head = r.tail}

\* Fault: the index runs on.
AfterBeyond(i) == i + 1
\* (i + 1) % capacity
After(i) == IF i + 1 = Capacity THEN 0 ELSE i + 1

\* ringbuffer_init, of memory that was set to zero.
NewRing(x) == [buf |-> [i \in Indexes |-> x], head |-> 0, tail |-> 0, full |-> FALSE]

\* ringbuffer_size
Size(r) ==
  IF r.full THEN Capacity
  ELSE IF r.head <= r.tail THEN r.tail - r.head ELSE Capacity - (r.head - r.tail)

\* Fault: in a full buffer head stays, and what is new is read first.
PutHeadStays(r, x) ==
  [buf |-> [r.buf EXCEPT ![r.tail] = x], head |-> r.head, tail |-> After(r.tail),
   full |-> ~r.full /\ r.head = After(r.tail)]
\* ringbuffer_queue
Put(r, x) ==
  [buf |-> [r.buf EXCEPT ![r.tail] = x],
   head |-> IF r.full THEN After(r.head) ELSE r.head,
   tail |-> After(r.tail),
   full |-> r.full \/ r.head = After(r.tail)]

IsEmpty(r) == ~r.full /\ r.head = r.tail

\* ringbuffer_dequeue, of a buffer that is not empty.
Oldest(r) == r.buf[r.head]
Take(r) == [r EXCEPT !.head = After(r.head), !.full = FALSE]

\* What a ring stands for: its items, the oldest first.
Place(r, i) ==
  IF r.head + i <= Capacity THEN r.head + i - 1 ELSE r.head + i - 1 - Capacity
Contents(r) == [i \in 1 .. Size(r) |-> r.buf[Place(r, i)]]
=============================================================================
