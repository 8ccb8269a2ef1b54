---------------------------- MODULE Virtqueue ----------------------------
(***************************************************************************)
(* The legacy virtqueue both drivers use: the shared rings, the driver's   *)
(* two private indices (kernel/src/network.rs, struct Virtqueue; the block *)
(* driver has the same code inline) and what the device does to the rings. *)
(* Every request starts at descriptor 0, so the rings carry the head 0 and *)
(* only the indices tell requests apart.  Indices are u16 in the code;     *)
(* here they count modulo IndexModulus, a small multiple of the ring size. *)
(***************************************************************************)
EXTENDS Integers, FiniteSets

CONSTANT IndexModulus   \* 2^16 in the code: index arithmetic wraps there

ASSUME IndexModulusAssumption == IndexModulus \in Nat \ {0, 1}

wrapping_add(index) == (index + 1) % IndexModulus

\* Descriptor table, available ring and used ring are zeroed pages; the
\* private copies of the indices start at zero as well.
NewQueue(size) ==
    [size |-> size, available_index |-> 0, used_index |-> 0,
     avail |-> 0, used |-> 0, seen |-> 0,
     ring |-> [slot \in 0..(size - 1) |-> [id |-> 0, length |-> 0]]]

\* Virtqueue::submit: the head goes into slot available_index % size of the
\* available ring (it is always 0), then the new index is published.
submit(q) ==
    [q EXCEPT !.available_index = wrapping_add(@),
              !.avail = wrapping_add(q.available_index)]

\* Virtqueue::try_completion: nothing new, a used index that is not the next
\* one, an answer for another descriptor, or the length of the answer.
CompletionOf(q) ==
    LET entry == q.ring[q.used_index % q.size]
    IN  IF q.used = q.used_index THEN [kind |-> "none"]
        ELSE IF q.used # wrapping_add(q.used_index) \/ entry.id # 0
        THEN [kind |-> "DeviceRejected"]
        ELSE [kind |-> "done", length |-> entry.length]

\* Mutant: the completion is noticed and not counted.
Accepted_uncounted(q) == q

\* The driver's side of an accepted completion.
Accepted(q) == [q EXCEPT !.used_index = q.used]

\* The device: a request it has not taken yet, taking one, answering one.
Offered(q) == q.seen # q.avail
Taken(q) == [q EXCEPT !.seen = wrapping_add(@)]
Answered(q, id, length) ==
    [q EXCEPT !.ring[q.used % q.size] = [id |-> id, length |-> length],
              !.used = wrapping_add(@)]

\* Requests published and not yet accepted as complete by the driver.
Outstanding(q) == (q.available_index - q.used_index) % IndexModulus

IsIndex(i) == i \in Nat /\ i < IndexModulus
IsQueue(q, lengths) ==
    /\ IsIndex(q.available_index) /\ IsIndex(q.used_index)
    /\ q.avail = q.available_index /\ IsIndex(q.used) /\ IsIndex(q.seen)
    /\ q.ring \in [0..(q.size - 1) -> [id : {0}, length : lengths]]

\* Queues whose rings have size entries.
Indices == 0..(IndexModulus - 1)
Queues(size) ==
    [size : {size}, available_index : Indices, used_index : Indices,
     avail : Indices, used : Indices, seen : Indices,
     ring : [0..(size - 1) -> [id : {0}, length : {0}]]]

\* How far index b is behind index a.
Behind(a, b) == (a - b) % IndexModulus
=============================================================================
