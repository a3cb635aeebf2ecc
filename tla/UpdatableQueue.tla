--------------------------- MODULE UpdatableQueue ---------------------------
(***************************************************************************)
(* The queue of network_module/util/updatable_queue.h: a FIFO queue with   *)
(* at most one element per key.  Adding an element whose key is queued     *)
(* replaces the element and keeps its place.  The pair (std::map of        *)
(* values, std::list of keys) is one sequence of [key, val] records, the   *)
(* oldest first.                                                           *)
(***************************************************************************)
EXTENDS Naturals, Sequences

EmptyQueue == << >>

\* Some element of q has key k.
HasKey(q, k) == \E i \in 1..Len(q) : q[i].key = k

\* q with the value stored under k replaced by v, in place.
ReplaceVal(q, k, v) ==
    [i \in 1..Len(q) |-> IF q[i].key = k THEN [key |-> k, val |-> v] ELSE q[i]]

\* Mutant: an element whose key is queued is dropped.
EnqueueKeepsOld(q, k, v) ==
    IF HasKey(q, k) THEN q ELSE Append(q, [key |-> k, val |-> v])

Enqueue(q, k, v) ==
    IF HasKey(q, k) THEN ReplaceVal(q, k, v)
                    ELSE Append(q, [key |-> k, val |-> v])

\* The loops that move all elements of another queue, or of a packet, over.
EnqueueAll(q, entries) ==
    LET after[i \in 0..Len(entries)] ==
            IF i = 0 THEN q ELSE Enqueue(after[i - 1], entries[i].key, entries[i].val)
    IN  after[Len(entries)]

\* The oldest value, and the queue without it; q is not empty.
Top(q) == Head(q).val

Dequeue(q) == Tail(q)

\* What is left after dequeueing n times, or until the queue is empty.
DequeueMany(q, n) == IF n >= Len(q) THEN EmptyQueue ELSE SubSeq(q, n + 1, Len(q))

\* The values returned by that loop, oldest first.
OldestVals(q, n) ==
    [i \in 1..(IF n >= Len(q) THEN Len(q) ELSE n) |-> q[i].val]

\* The values in the queue.
QueuedVals(q) == {q[i].val : i \in 1..Len(q)}

\* "Elements are thus kept unique by key."
UniqueKeys(q) ==
    \A i, j \in 1..Len(q) : q[i].key = q[j].key => i = j
=============================================================================
