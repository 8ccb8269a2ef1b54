-------------------------- MODULE VirtioBlockProofs --------------------------
(* The virtio-blk driver counts its completions right across index wraps,  *)
(* and is a BlockDevice up to the first request it gives up: for every     *)
(* disk, queue size, index width and number of abandoned requests.         *)
EXTENDS VirtioBlock, TLAPS

-----------------------------------------------------------------------------
(* Index arithmetic.                                                       *)

\* The remainder of a number written as quotient and remainder.
LEMMA Remainder ==
    ASSUME NEW M \in Nat, M > 0, NEW q \in Int, NEW a \in 0..(M - 1)
    PROVE  (M * q + a) % M = a
<1>1. PICK x \in Int : x = M * q + a
  OBVIOUS
<1>2. PICK k \in Int, r \in Int : x = M * k + r /\ r = x % M /\ 0 <= r /\ r < M
  <2>1. PICK k \in Int : k = x \div M
    OBVIOUS
  <2>2. PICK r \in Int : r = x % M
    OBVIOUS
  <2>3. x = M * k + r /\ 0 <= r /\ r < M
    BY <2>1, <2>2
  <2> QED
    BY <2>2, <2>3
<1>3. PICK d \in Int : d = q - k
  OBVIOUS
<1>4. M * d = r - a
  BY <1>1, <1>2, <1>3
<1>5. ~(d >= 1)
  <2>1. d >= 1 => M * d >= M
    OBVIOUS
  <2> QED
    BY <1>2, <1>4, <2>1
<1>6. ~(d <= -1)
  <2>1. d <= -1 => M * d <= -M
    OBVIOUS
  <2> QED
    BY <1>2, <1>4, <2>1
<1>7. d = 0
  BY <1>5, <1>6
<1>8. r = a
  BY <1>2, <1>4, <1>7
<1> QED
  BY <1>1, <1>2, <1>8

\* wrapping_add without the remainder.
LEMMA NextIndex ==
    ASSUME NEW a \in Indices
    PROVE  /\ wrapping_add(a) \in Indices
           /\ wrapping_add(a) = IF a + 1 = IndexModulus THEN 0 ELSE a + 1
<1>1. IndexModulus \in Nat /\ IndexModulus >= 2 /\ a \in Nat /\ a < IndexModulus
  BY IndexModulusAssumption DEF Indices
<1>2. CASE a + 1 = IndexModulus
  <2>1. IndexModulus * 1 + 0 = a + 1
    BY <1>1, <1>2
  <2>2. (IndexModulus * 1 + 0) % IndexModulus = 0
    BY <1>1, Remainder
  <2>3. wrapping_add(a) = 0
    BY <2>1, <2>2 DEF wrapping_add
  <2> QED
    BY <1>1, <1>2, <2>3 DEF Indices
<1>3. CASE a + 1 # IndexModulus
  <2>1. PICK b \in 0..(IndexModulus - 1) : b = a + 1
    BY <1>1, <1>3
  <2>2. (IndexModulus * 0 + b) % IndexModulus = b
    BY <1>1, Remainder
  <2>3. IndexModulus * 0 + b = a + 1
    BY <1>1, <2>1
  <2>4. wrapping_add(a) = a + 1
    BY <2>1, <2>2, <2>3 DEF wrapping_add
  <2> QED
    BY <1>1, <1>3, <2>1, <2>4 DEF Indices
<1> QED
  BY <1>2, <1>3

\* The distance of two indices without the remainder.
LEMMA Distance ==
    ASSUME NEW a \in Indices, NEW b \in Indices
    PROVE  /\ Behind(a, b) \in Indices
           /\ Behind(a, b) = IF a >= b THEN a - b ELSE a - b + IndexModulus
<1>1. /\ IndexModulus \in Nat /\ IndexModulus >= 2 /\ a \in Nat /\ a < IndexModulus
      /\ b \in Nat /\ b < IndexModulus
  BY IndexModulusAssumption DEF Indices
<1>2. CASE a >= b
  <2>1. PICK d \in 0..(IndexModulus - 1) : d = a - b
    BY <1>1, <1>2
  <2>2. (IndexModulus * 0 + d) % IndexModulus = d
    BY <1>1, Remainder
  <2>3. IndexModulus * 0 + d = a - b
    BY <1>1, <2>1
  <2>4. Behind(a, b) = d
    BY <2>2, <2>3 DEF Behind
  <2> QED
    BY <1>1, <1>2, <2>1, <2>4 DEF Indices
<1>3. CASE a < b
  <2>1. PICK d \in 0..(IndexModulus - 1) : d = a - b + IndexModulus
    BY <1>1, <1>3
  <2>2. (IndexModulus * (-1) + d) % IndexModulus = d
    BY <1>1, Remainder
  <2>3. IndexModulus * (-1) + d = a - b
    BY <1>1, <2>1
  <2>4. Behind(a, b) = d
    BY <2>2, <2>3 DEF Behind
  <2> QED
    BY <1>1, <1>3, <2>1, <2>4 DEF Indices
<1> QED
  BY <1>1, <1>2, <1>3

\* What an index step does to the distances: the front moves away, the back
\* moves up, and equal indices are at distance zero.
LEMMA IndexSteps ==
    ASSUME NEW a \in Indices, NEW b \in Indices
    PROVE  /\ Behind(a, b) \in Nat /\ Behind(a, b) < IndexModulus
           /\ Behind(a, b) = 0 <=> a = b
           /\ wrapping_add(a) # a
           /\ Behind(a, b) + 1 < IndexModulus => Behind(wrapping_add(a), b) = Behind(a, b) + 1
           /\ a # b => Behind(a, wrapping_add(b)) = Behind(a, b) - 1
           /\ a = wrapping_add(b) => Behind(a, b) = 1
<1>1. /\ IndexModulus \in Nat /\ IndexModulus >= 2 /\ a \in Nat /\ a < IndexModulus
      /\ b \in Nat /\ b < IndexModulus
  BY IndexModulusAssumption DEF Indices
<1>2. PICK d \in Nat : d = Behind(a, b) /\ d < IndexModulus
  BY <1>1, Distance DEF Indices
<1>3. d = IF a >= b THEN a - b ELSE a - b + IndexModulus
  BY <1>2, Distance
<1>4. PICK m \in Indices : m = wrapping_add(a)
  BY NextIndex
<1>5. PICK n \in Indices : n = wrapping_add(b)
  BY NextIndex
<1>6. /\ m = IF a + 1 = IndexModulus THEN 0 ELSE a + 1
      /\ n = IF b + 1 = IndexModulus THEN 0 ELSE b + 1
  BY <1>4, <1>5, NextIndex
<1>7. d + 1 < IndexModulus => Behind(m, b) = d + 1
  <2>1. Behind(m, b) = IF m >= b THEN m - b ELSE m - b + IndexModulus
    BY Distance
  <2> QED
    BY <1>1, <1>3, <1>6, <2>1
<1>8. a # b => Behind(a, n) = d - 1
  <2>1. Behind(a, n) = IF a >= n THEN a - n ELSE a - n + IndexModulus
    BY Distance
  <2> QED
    BY <1>1, <1>3, <1>6, <2>1
<1>9. a = n => d = 1
  BY <1>1, <1>3, <1>6
<1>10. m # a /\ (d = 0 <=> a = b)
  BY <1>1, <1>3, <1>6
<1> QED
  BY <1>2, <1>4, <1>5, <1>7, <1>8, <1>9, <1>10

\* The two steps with the distance named.
LEMMA FrontStep ==
    ASSUME NEW a \in Indices, NEW b \in Indices, NEW d \in Nat,
           Behind(a, b) = d, d + 1 < IndexModulus
    PROVE  Behind(wrapping_add(a), b) = d + 1
BY IndexSteps

LEMMA BackStep ==
    ASSUME NEW a \in Indices, NEW b \in Indices, NEW d \in Nat,
           Behind(a, b) = d, a # b
    PROVE  Behind(a, wrapping_add(b)) = d - 1
BY IndexSteps

-----------------------------------------------------------------------------
(* Queue operations.                                                       *)

\* Virtqueue::submit moves the available index.
LEMMA SubmitQueue ==
    ASSUME NEW size \in Nat \ {0}, NEW q \in Queues(size)
    PROVE  /\ submit(q) \in Queues(size)
           /\ submit(q).size = size /\ submit(q).ring = q.ring
           /\ submit(q).available_index = wrapping_add(q.available_index)
           /\ submit(q).avail = wrapping_add(q.available_index)
           /\ submit(q).used_index = q.used_index
           /\ submit(q).used = q.used /\ submit(q).seen = q.seen
<1>1. PICK n \in Indices : n = wrapping_add(q.available_index)
  BY NextIndex DEF Queues
<1>2. submit(q) = [q EXCEPT !.available_index = n, !.avail = n]
  BY <1>1 DEF submit
<1> QED
  BY <1>1, <1>2 DEF Queues

\* An accepted completion moves the driver's used index.
LEMMA AcceptedQueue ==
    ASSUME NEW size \in Nat \ {0}, NEW q \in Queues(size)
    PROVE  /\ Accepted(q) \in Queues(size)
           /\ Accepted(q).size = size
           /\ Accepted(q).available_index = q.available_index
           /\ Accepted(q).avail = q.avail
           /\ Accepted(q).used_index = q.used
           /\ Accepted(q).used = q.used /\ Accepted(q).seen = q.seen
BY DEF Queues, Accepted

\* The device taking a request moves its own index.
LEMMA TakenQueue ==
    ASSUME NEW size \in Nat \ {0}, NEW q \in Queues(size)
    PROVE  /\ Taken(q) \in Queues(size)
           /\ Taken(q).size = size
           /\ Taken(q).available_index = q.available_index
           /\ Taken(q).avail = q.avail
           /\ Taken(q).used_index = q.used_index
           /\ Taken(q).used = q.used /\ Taken(q).seen = wrapping_add(q.seen)
<1>1. PICK n \in Indices : n = wrapping_add(q.seen)
  BY NextIndex DEF Queues
<1>2. Taken(q) = [q EXCEPT !.seen = n]
  BY <1>1 DEF Taken, Queues
<1> QED
  BY <1>1, <1>2 DEF Queues

\* An answer moves the used index and fills a slot of the used ring.
LEMMA AnsweredQueue ==
    ASSUME NEW size \in Nat \ {0}, NEW q \in Queues(size)
    PROVE  /\ Answered(q, 0, 0) \in Queues(size)
           /\ Answered(q, 0, 0).size = size
           /\ Answered(q, 0, 0).available_index = q.available_index
           /\ Answered(q, 0, 0).avail = q.avail
           /\ Answered(q, 0, 0).used_index = q.used_index
           /\ Answered(q, 0, 0).used = wrapping_add(q.used)
           /\ Answered(q, 0, 0).seen = q.seen
<1>1. PICK n \in Indices : n = wrapping_add(q.used)
  BY NextIndex DEF Queues
<1>2. PICK r : r = [q.ring EXCEPT ![q.used % q.size] = [id |-> 0, length |-> 0]]
  OBVIOUS
<1>3. r \in [0..(size - 1) -> [id : {0}, length : {0}]]
  BY <1>2 DEF Queues
<1>4. Answered(q, 0, 0) = [q EXCEPT !.ring = r, !.used = n]
  BY <1>1, <1>2 DEF Answered, Queues
<1> QED
  BY <1>1, <1>3, <1>4 DEF Queues

\* A fresh queue of zeroed pages.
LEMMA FreshQueue ==
    ASSUME NEW size \in Nat \ {0}
    PROVE  /\ NewQueue(size) \in Queues(size)
           /\ NewQueue(size).size = size
           /\ NewQueue(size).available_index = 0 /\ NewQueue(size).avail = 0
           /\ NewQueue(size).used_index = 0
           /\ NewQueue(size).used = 0 /\ NewQueue(size).seen = 0
<1>1. 0 \in Indices
  BY IndexModulusAssumption DEF Indices
<1> QED
  BY <1>1 DEF NewQueue, Queues

\* try_completion sees a completion as done when the used index is the next
\* one: the device answers for descriptor 0 only.
LEMMA CompletionKind ==
    ASSUME NEW size \in Nat \ {0}, NEW q \in Queues(size)
    PROVE  /\ CompletionOf(q).kind = "none" <=> q.used = q.used_index
           /\ CompletionOf(q).kind = "done" <=>
                q.used # q.used_index /\ q.used = wrapping_add(q.used_index)
<1>1. q.size = size /\ q.used_index \in Nat
  BY DEF Queues, Indices
<1>2. q.used_index % q.size \in 0..(size - 1)
  BY <1>1
<1>3. q.ring[q.used_index % q.size].id = 0
  BY <1>2 DEF Queues
<1> QED
  BY <1>3 DEF CompletionOf

-----------------------------------------------------------------------------
(* The records.                                                            *)

\* The types of the fields of the state that the proofs below name.
LEMMA RecordTypes ==
    ASSUME BlkRecords
    PROVE  /\ queue.available_index \in Indices /\ queue.used_index \in Indices
           /\ queue.avail \in Indices /\ queue.used \in Indices /\ queue.seen \in Indices
           /\ queue.size \in Nat \ {0} /\ queue \in Queues(queue.size)
           /\ store.taken \in Seq([type : Types, sector : Sectors, chain : Chains])
           /\ Len(store.taken) \in Nat
           /\ abandoned \in Nat /\ abandoned <= MaxAbandoned
           /\ Spinning \in {0, 1}
<1>1. queue \in Queues(queue.size) /\ queue.size \in Nat \ {0}
  BY DEF BlkRecords
<1>2. /\ queue.available_index \in Indices /\ queue.used_index \in Indices
      /\ queue.avail \in Indices /\ queue.used \in Indices /\ queue.seen \in Indices
  BY <1>1 DEF Queues
<1>3. store.taken \in Seq([type : Types, sector : Sectors, chain : Chains])
  BY DEF BlkRecords
<1>4. Len(store.taken) \in Nat
  BY <1>3
<1>5. abandoned \in Nat /\ abandoned <= MaxAbandoned
  BY BlockAssumption DEF BlkRecords
<1> QED
  BY <1>1, <1>2, <1>3, <1>4, <1>5 DEF Spinning

\* The three stages in numbers: none is longer than what the index width
\* leaves room for.
LEMMA Stages ==
    ASSUME BlkRecords, StagesInv
    PROVE  \E a, b, c \in Nat :
             /\ a = Behind(queue.avail, queue.seen)
             /\ b = Behind(queue.seen, queue.used)
             /\ c = Behind(queue.used, queue.used_index)
             /\ b = Len(store.taken)
             /\ a + b + c = abandoned + Spinning
             /\ a + b + c <= MaxAbandoned
             /\ a + b + c + 1 < IndexModulus
             /\ Behind(queue.available_index, queue.used_index) = a + b + c
             /\ a = 0 <=> queue.avail = queue.seen
             /\ b = 0 <=> queue.seen = queue.used
             /\ c = 0 <=> queue.used = queue.used_index
<1>1. /\ queue.available_index \in Indices /\ queue.used_index \in Indices
      /\ queue.avail \in Indices /\ queue.used \in Indices /\ queue.seen \in Indices
      /\ abandoned \in Nat /\ abandoned <= MaxAbandoned /\ Spinning \in {0, 1}
  BY RecordTypes
<1>2. PICK a \in Nat : a = Behind(queue.avail, queue.seen) /\ (a = 0 <=> queue.avail = queue.seen)
  BY <1>1, IndexSteps
<1>3. PICK b \in Nat : b = Behind(queue.seen, queue.used) /\ (b = 0 <=> queue.seen = queue.used)
  BY <1>1, IndexSteps
<1>4. PICK c \in Nat : c = Behind(queue.used, queue.used_index)
                       /\ (c = 0 <=> queue.used = queue.used_index)
  BY <1>1, IndexSteps
<1>5. a + b + c = abandoned + Spinning /\ b = Len(store.taken)
  BY <1>2, <1>3, <1>4 DEF StagesInv
<1>6. abandoned + Spinning <= MaxAbandoned
  <2>1. CASE call.pc = "spinning"
    <3>1. abandoned < MaxAbandoned /\ Spinning = 1
      BY <2>1 DEF StagesInv, Spinning
    <3> QED
      BY <1>1, <3>1, BlockAssumption
  <2>2. CASE call.pc # "spinning"
    BY <1>1, <2>2 DEF Spinning
  <2> QED
    BY <2>1, <2>2
<1>7. a + b + c + 1 < IndexModulus
  BY <1>5, <1>6, BlockAssumption, IndexModulusAssumption
<1>8. Behind(queue.available_index, queue.used_index) = a + b + c
  BY <1>5 DEF StagesInv, Outstanding, Behind
<1> QED
  BY <1>2, <1>3, <1>4, <1>5, <1>6, <1>7, <1>8

\* Appending to and shortening a queue of requests.
LEMMA AppendTyped ==
    ASSUME NEW S, NEW s \in Seq(S), NEW e \in S
    PROVE  /\ Append(s, e) \in Seq(S) /\ Len(Append(s, e)) = Len(s) + 1
           /\ Append(s, e)[Len(s) + 1] = e
           /\ \A k \in 1..Len(Append(s, e)) :
                \/ k = Len(s) + 1
                \/ k \in 1..Len(s) /\ Append(s, e)[k] = s[k]
OBVIOUS

LEMMA TailTyped ==
    ASSUME NEW S, NEW s \in Seq(S), s # <<>>
    PROVE  /\ Tail(s) \in Seq(S) /\ Len(Tail(s)) = Len(s) - 1
           /\ Len(s) \in Nat /\ Len(s) >= 1 /\ 1 \in 1..Len(s)
           /\ Head(s) = s[1] /\ Head(s) \in S
           /\ \A k \in 1..Len(Tail(s)) : k + 1 \in 1..Len(s) /\ Tail(s)[k] = s[k + 1]
OBVIOUS

\* The chain request() writes is one the device can meet.
LEMMA ChainsOfTypes ==
    \A type \in Types : ChainFor(type) \in Chains
BY DEF Chains

-----------------------------------------------------------------------------
(* The inductive invariant: the initial states, and one lemma per action.  *)

LEMMA BlkInitInv ==
    ASSUME BlkInit
    PROVE  BlkInv
<1>1. PICK d \in Data : store = [taken |-> <<>>, cache |-> [s \in Sectors |-> d],
                                 durable |-> [s \in Sectors |-> d]]
  BY DEF BlkInit
<1>2. 1 \in Nat \ {0} /\ queue = NewQueue(1)
  BY DEF BlkInit, NoQueue
<1>3. /\ queue \in Queues(1) /\ queue.size = 1
      /\ queue.available_index = 0 /\ queue.avail = 0 /\ queue.used_index = 0
      /\ queue.used = 0 /\ queue.seen = 0
  BY <1>2, FreshQueue
<1>4. 0 \in Sectors /\ 0 \in 0..MaxAbandoned /\ 0 \in Indices
  BY BlockAssumption, IndexModulusAssumption DEF Sectors, Indices
<1>5. BlkRecords
  <2>1. page \in [header : [type : Types, sector : Sectors], data : Data \cup {NoData},
                  status : {StatusOk, StatusIoErr, StatusPending}]
    BY <1>4 DEF BlkInit, Types, StatusOk
  <2>2. call \in [pc : {"idle", "written", "spinning", "completed"},
                  type : Types \cup {"none"}, sector : Sectors, data : Data \cup {NoData}]
    BY <1>4 DEF BlkInit, NoCall
  <2>3. store \in [taken : Seq([type : Types, sector : Sectors, chain : Chains]),
                   cache : [Sectors -> Data], durable : [Sectors -> Data]]
    BY <1>1
  <2>4. hw \in Hardware /\ driver = "none" /\ applied \in BOOLEAN /\ abandoned \in 0..MaxAbandoned
    BY <1>4 DEF BlkInit
  <2>5. chain \in Chains
    BY DEF BlkInit, Chains
  <2> QED
    BY <1>3, <2>1, <2>2, <2>3, <2>4, <2>5 DEF BlkRecords
<1>6. Behind(0, 0) = 0
  BY <1>4, IndexSteps
<1>7. StagesInv
  <2>1. call = NoCall /\ abandoned = 0 /\ call.pc = "idle" /\ driver # "ready"
    BY DEF BlkInit, NoCall
  <2>2. store.taken = <<>> /\ Len(store.taken) = 0
    BY <1>1
  <2>3. Spinning = 0
    BY <2>1 DEF Spinning
  <2>4. Outstanding(queue) = 0
    BY <1>3, <1>6 DEF Outstanding, Behind
  <2> QED
    BY <1>3, <1>6, <2>1, <2>2, <2>3, <2>4 DEF StagesInv
<1>8. RequestInv
  BY DEF BlkInit, RequestInv, NoCall
<1>9. WritesInv
  <2>1. page.header.type = "IN" /\ Len(store.taken) = 0
    BY <1>1 DEF BlkInit
  <2> QED
    BY <2>1 DEF WritesInv
<1> QED
  BY <1>5, <1>7, <1>8, <1>9 DEF BlkInv

\* discover: a ready driver has a queue of more than two descriptors.
LEMMA DiscoverInv ==
    ASSUME BlkInv, discover
    PROVE  BlkInv'
<1> USE DEF BlkInv
<1>1. /\ driver = "none" /\ driver' = DiscoverOutcome(hw)
      /\ queue' = IF driver' = "ready" THEN NewQueue(hw.queue_size) ELSE queue
      /\ UNCHANGED <<hw, page, chain, call, result, store, applied, abandoned>>
  BY DEF discover
<1>2. call = NoCall /\ abandoned = 0 /\ store.taken = <<>>
  BY <1>1 DEF StagesInv
<1>3. hw.queue_size \in Nat
  BY HardwareAssumption DEF BlkRecords
<1>4. driver' = "ready" => hw.queue_size \in Nat \ {0}
  <2>1. hw.queue_size = 0 => driver' # "ready"
    <3>1. hw.present \in BOOLEAN
      BY HardwareAssumption DEF BlkRecords
    <3> QED
      BY <1>1, <3>1 DEF DiscoverOutcome
  <2> QED
    BY <1>3, <2>1
<1>5. 0 \in Indices /\ Behind(0, 0) = 0
  <2>1. 0 \in Indices
    BY IndexModulusAssumption DEF Indices
  <2> QED
    BY <2>1, IndexSteps
<1>6. Len(store.taken) = 0 /\ Spinning = 0 /\ call.pc = "idle"
  BY <1>2 DEF Spinning, NoCall
<1>0. WritesInv'
  BY <1>1 DEF WritesInv
<1>7. CASE driver' = "ready"
  <2>1. PICK n \in Nat \ {0} : n = hw.queue_size
    BY <1>4, <1>7
  <2>2. /\ queue' \in Queues(n) /\ queue'.size = n
        /\ queue'.available_index = 0 /\ queue'.avail = 0 /\ queue'.used_index = 0
        /\ queue'.used = 0 /\ queue'.seen = 0
    BY <1>1, <1>7, <2>1, FreshQueue
  <2>3. BlkRecords'
    BY <1>1, <1>7, <2>1, <2>2 DEF BlkRecords
  <2>4. Outstanding(queue)' = 0
    BY <2>2, <1>5 DEF Outstanding, Behind
  <2>5. StagesInv'
    BY <1>1, <1>2, <1>5, <1>6, <1>7, <2>2, <2>4, BlockAssumption DEF StagesInv, Spinning
  <2>6. RequestInv'
    BY <1>1, <1>6 DEF RequestInv
  <2> QED
    BY <1>0, <2>3, <2>5, <2>6
<1>8. CASE driver' # "ready"
  <2>1. queue' = queue
    BY <1>1, <1>8
  <2>2. BlkRecords'
    BY <1>1, <1>8, <2>1 DEF BlkRecords
  <2>3. StagesInv'
    BY <1>1, <1>2, <1>8, <2>1 DEF StagesInv, Spinning
  <2>4. RequestInv'
    BY <1>1, <1>6 DEF RequestInv
  <2> QED
    BY <1>0, <2>2, <2>3, <2>4
<1> QED
  BY <1>7, <1>8

\* A caller that is refused leaves the device alone; one that is let in finds
\* no request of its own under way.
LEMMA EnterInv ==
    ASSUME BlkInv, NEW type \in Types, NEW sector \in Sectors \cup {Capacity},
           NEW data \in Data \cup {NoData}, type = "OUT" => data \in Data,
           type = "FLUSH" => sector \in Sectors,
           Enter(type, sector, data)
    PROVE  BlkInv'
<1> USE DEF BlkInv
<1>1. /\ driver = "ready" /\ call.pc = "idle" /\ abandoned < MaxAbandoned
      /\ UNCHANGED <<hw, driver, queue, store, abandoned>>
  BY DEF Enter
<1>2. CASE Refusal(type, sector) # "none"
  <2>1. UNCHANGED <<page, chain, call, applied>>
    BY <1>2 DEF Enter
  <2>2. BlkRecords'
    BY <1>1, <2>1 DEF BlkRecords
  <2>3. StagesInv'
    BY <1>1, <2>1 DEF StagesInv, Spinning
  <2>4. RequestInv'
    BY <1>1, <2>1 DEF RequestInv, Unanswered
  <2>5. WritesInv'
    BY <1>1, <2>1 DEF WritesInv
  <2> QED
    BY <2>2, <2>3, <2>4, <2>5
<1>3. CASE Refusal(type, sector) = "none"
  <2>1. /\ page' = [page EXCEPT !.header = [type |-> type, sector |-> sector],
                                !.status = StatusPending,
                                !.data = IF type = "OUT" THEN data ELSE @]
        /\ chain' = ChainFor(type)
        /\ call' = [pc |-> "written", type |-> type, sector |-> sector, data |-> data]
        /\ applied' = FALSE
    BY <1>3 DEF Enter
  <2>2. sector \in Sectors
    <3>1. CASE type = "FLUSH"
      BY <3>1
    <3>2. CASE type # "FLUSH"
      <4>1. ~(sector >= Capacity)
        BY <1>3, <3>2 DEF Refusal
      <4> QED
        BY <4>1, BlockAssumption
    <3> QED
      BY <3>1, <3>2
  <2>3. PICK kept \in Data \cup {NoData} : kept = IF type = "OUT" THEN data ELSE page.data
    BY DEF BlkRecords
  <2>4. page' = [header |-> [type |-> type, sector |-> sector], data |-> kept,
                 status |-> StatusPending]
    BY <2>1, <2>3 DEF BlkRecords
  <2>5. BlkRecords'
    <3>1. page' \in [header : [type : Types, sector : Sectors], data : Data \cup {NoData},
                     status : {StatusOk, StatusIoErr, StatusPending}]
      BY <2>2, <2>4
    <3>2. call' \in [pc : {"idle", "written", "spinning", "completed"},
                     type : Types \cup {"none"}, sector : Sectors, data : Data \cup {NoData}]
      BY <2>1, <2>2
    <3>3. chain' \in Chains /\ applied' \in BOOLEAN
      BY <2>1, ChainsOfTypes
    <3> QED
      BY <1>1, <3>1, <3>2, <3>3 DEF BlkRecords
  <2>6. call'.pc = "written" /\ Spinning = 0 /\ Spinning' = 0
    BY <1>1, <2>1 DEF Spinning
  <2>7. StagesInv'
    BY <1>1, <2>6 DEF StagesInv
  <2>8. RequestInv'
    <3>1. SUFFICES ASSUME abandoned = 0 PROVE RequestInv'
      BY <1>1 DEF RequestInv
    <3>2. Len(store.taken) = 0
      <4>1. PICK a, b, c \in Nat : b = Len(store.taken) /\ a + b + c = abandoned + Spinning
        BY Stages
      <4> QED
        BY <2>6, <3>1, <4>1
    <3>3. /\ call'.type = type /\ call'.sector = sector /\ call'.data = data
          /\ page'.header = [type |-> type, sector |-> sector]
          /\ type = "OUT" => page'.data = data
      BY <2>1, <2>3, <2>4
    <3>4. \A k \in 1..Len(store'.taken) :
            store'.taken[k] = [type |-> call'.type, sector |-> call'.sector, chain |-> chain']
      BY <1>1, <3>2
    <3>5. Unanswered'
      BY <2>6 DEF Unanswered
    <3> QED
      BY <2>1, <2>6, <3>3, <3>4, <3>5 DEF RequestInv
  <2>9. WritesInv'
    <3>1. page'.data = kept /\ page'.header.type = type
      BY <2>4
    <3>2. kept = NoData => type # "OUT" /\ page.data = NoData
      BY <2>3, BlockAssumption
    <3> QED
      BY <1>1, <3>1, <3>2 DEF WritesInv
  <2> QED
    BY <2>5, <2>7, <2>8, <2>9
<1> QED
  BY <1>2, <1>3

\* Publishing a request puts it in the first stage.
LEMMA PublishInv ==
    ASSUME BlkInv, Publish
    PROVE  BlkInv'
<1> USE DEF BlkInv
<1>1. /\ call.pc = "written" /\ queue' = submit(queue)
      /\ call' = [call EXCEPT !.pc = "spinning"]
      /\ UNCHANGED <<hw, driver, page, chain, result, store, applied, abandoned>>
  BY DEF Publish
<1>2. /\ call'.pc = "spinning" /\ call'.type = call.type /\ call'.sector = call.sector
      /\ call'.data = call.data
  BY <1>1 DEF BlkRecords
<1>3. PICK n \in Nat \ {0} : n = queue.size /\ queue \in Queues(n)
  BY DEF BlkRecords
<1>4. /\ queue' \in Queues(n) /\ queue'.size = n
      /\ queue'.available_index = wrapping_add(queue.available_index)
      /\ queue'.avail = wrapping_add(queue.available_index)
      /\ queue'.used_index = queue.used_index
      /\ queue'.used = queue.used /\ queue'.seen = queue.seen
  BY <1>1, <1>3, SubmitQueue
<1>5. BlkRecords'
  <2>1. call' \in [pc : {"idle", "written", "spinning", "completed"},
                   type : Types \cup {"none"}, sector : Sectors, data : Data \cup {NoData}]
    BY <1>1 DEF BlkRecords
  <2> QED
    BY <1>1, <1>3, <1>4, <2>1 DEF BlkRecords
<1>6. PICK a, b, c \in Nat :
        /\ a = Behind(queue.avail, queue.seen)
        /\ b = Behind(queue.seen, queue.used)
        /\ c = Behind(queue.used, queue.used_index)
        /\ b = Len(store.taken)
        /\ a + b + c = abandoned + Spinning
        /\ a + b + c + 1 < IndexModulus
        /\ Behind(queue.available_index, queue.used_index) = a + b + c
        /\ c = 0 <=> queue.used = queue.used_index
  BY Stages
<1>7. Spinning = 0 /\ Spinning' = 1
  BY <1>1, <1>2 DEF Spinning
<1>8. StagesInv'
  <2>1. queue.avail = queue.available_index
    BY DEF StagesInv
  <2>2. Behind(queue'.avail, queue'.seen) = a + 1
    <3>1. a + 1 < IndexModulus
      BY <1>6, IndexModulusAssumption
    <3>2. queue.avail \in Indices /\ queue.seen \in Indices
      BY RecordTypes
    <3>3. Behind(wrapping_add(queue.avail), queue.seen) = a + 1
      BY <1>6, <3>1, <3>2, FrontStep
    <3> QED
      BY <1>4, <2>1, <3>3
  <2>3. Behind(queue'.available_index, queue'.used_index) = a + b + c + 1
    <3>1. queue.available_index \in Indices /\ queue.used_index \in Indices
      BY RecordTypes
    <3>2. a + b + c \in Nat /\ Behind(queue.available_index, queue.used_index) = a + b + c
          /\ a + b + c + 1 < IndexModulus
      BY <1>6
    <3>3. Behind(wrapping_add(queue.available_index), queue.used_index) = a + b + c + 1
      BY <3>1, <3>2, FrontStep
    <3> QED
      BY <1>4, <3>3
  <2>4. Behind(queue'.seen, queue'.used) = b /\ Behind(queue'.used, queue'.used_index) = c
    BY <1>4, <1>6
  <2>5. abandoned \in Nat /\ abandoned' = abandoned
    BY <1>1, RecordTypes
  <2>6. (a + 1) + b + c = abandoned' + Spinning' /\ a + b + c + 1 = abandoned' + Spinning'
    <3>1. PICK k \in Nat : k = abandoned
      BY <2>5
    <3>2. a + b + c = k + 0
      BY <1>6, <1>7, <3>1
    <3>3. (a + 1) + b + c = k + 1 /\ a + b + c + 1 = k + 1
      BY <3>2
    <3> QED
      BY <1>7, <2>5, <3>1, <3>3, Zenon
  <2>7. Outstanding(queue)' = abandoned' + Spinning'
    BY <2>3, <2>6 DEF Outstanding, Behind
  <2>8. driver' = "ready" /\ abandoned' < MaxAbandoned
    BY <1>1 DEF StagesInv, NoCall
  <2> QED
    BY <1>1, <1>2, <1>4, <1>6, <2>2, <2>4, <2>6, <2>7, <2>8 DEF StagesInv
<1>9. RequestInv'
  <2>1. SUFFICES ASSUME abandoned = 0 PROVE RequestInv'
    BY <1>1 DEF RequestInv
  <2>2. c = 0
    BY <1>6, <1>7, <2>1
  <2>3. Unanswered /\ Unanswered'
    BY <1>1, <1>2, <1>4, <1>6, <2>2 DEF Unanswered
  <2> QED
    BY <1>1, <1>2, <2>1, <2>3 DEF RequestInv
<1>10. WritesInv'
  BY <1>1 DEF WritesInv
<1> QED
  BY <1>5, <1>8, <1>9, <1>10

\* The driver gives a request up: one more is abandoned, and none is spinning.
LEMMA GivenUpInv ==
    ASSUME BlkInv, call.pc = "spinning", call' = NoCall, abandoned' = abandoned + 1,
           UNCHANGED <<hw, driver, queue, page, chain, store, applied>>
    PROVE  BlkInv'
<1> USE DEF BlkInv
<1>1. driver = "ready" /\ abandoned < MaxAbandoned /\ abandoned \in Nat
  BY RecordTypes DEF StagesInv, NoCall
<1>2. Spinning = 1 /\ Spinning' = 0 /\ call'.pc = "idle"
  BY DEF Spinning, NoCall
<1>3. abandoned' + Spinning' = abandoned + Spinning /\ abandoned' \in 0..MaxAbandoned
      /\ abandoned' # 0
  BY <1>1, <1>2, BlockAssumption
<1>4. NoCall \in [pc : {"idle", "written", "spinning", "completed"},
                  type : Types \cup {"none"}, sector : Sectors, data : Data \cup {NoData}]
  BY BlockAssumption DEF NoCall, Sectors
<1>5. BlkRecords'
  BY <1>3, <1>4 DEF BlkRecords
<1>6. Outstanding(queue)' = Outstanding(queue)
  BY DEF Outstanding
<1>7. StagesInv'
  BY <1>1, <1>2, <1>3, <1>6 DEF StagesInv
<1>8. RequestInv'
  BY <1>3 DEF RequestInv
<1>9. WritesInv'
  BY DEF WritesInv
<1> QED
  BY <1>5, <1>7, <1>8, <1>9

\* An accepted completion empties one place of the used ring.
LEMMA AcceptInv ==
    ASSUME BlkInv, call.pc = "spinning", CompletionOf(queue).kind = "done",
           queue' = Accepted(queue), call' = [call EXCEPT !.pc = "completed"],
           UNCHANGED <<hw, driver, page, chain, store, applied, abandoned>>
    PROVE  BlkInv'
<1> USE DEF BlkInv
<1>1. /\ call'.pc = "completed" /\ call'.type = call.type /\ call'.sector = call.sector
      /\ call'.data = call.data
  BY DEF BlkRecords
<1>2. PICK n \in Nat \ {0} : n = queue.size /\ queue \in Queues(n)
  BY DEF BlkRecords
<1>3. /\ queue' \in Queues(n) /\ queue'.size = n
      /\ queue'.available_index = queue.available_index
      /\ queue'.avail = queue.avail /\ queue'.used_index = queue.used
      /\ queue'.used = queue.used /\ queue'.seen = queue.seen
  BY <1>2, AcceptedQueue
<1>4. queue.used # queue.used_index /\ queue.used = wrapping_add(queue.used_index)
  BY <1>2, CompletionKind
<1>5. BlkRecords'
  <2>1. call' \in [pc : {"idle", "written", "spinning", "completed"},
                   type : Types \cup {"none"}, sector : Sectors, data : Data \cup {NoData}]
    BY DEF BlkRecords
  <2> QED
    BY <1>2, <1>3, <2>1 DEF BlkRecords
<1>6. PICK a, b, c \in Nat :
        /\ a = Behind(queue.avail, queue.seen)
        /\ b = Behind(queue.seen, queue.used)
        /\ c = Behind(queue.used, queue.used_index)
        /\ b = Len(store.taken)
        /\ a + b + c = abandoned + Spinning
        /\ Behind(queue.available_index, queue.used_index) = a + b + c
  BY Stages
<1>7. Spinning = 1 /\ Spinning' = 0
  BY <1>1 DEF Spinning
<1>8. c = 1
  BY <1>4, <1>6, RecordTypes, IndexSteps
<1>9. StagesInv'
  <2>1. Behind(queue'.used, queue'.used_index) = 0
    BY <1>3, RecordTypes, IndexSteps
  <2>2. queue.available_index # queue.used_index
    <3>1. queue.available_index \in Indices /\ queue.used_index \in Indices
      BY RecordTypes
    <3>2. Behind(queue.available_index, queue.used_index) # 0
      BY <1>6, <1>8
    <3> QED
      BY <3>1, <3>2, IndexSteps
  <2>3. Behind(queue'.available_index, queue'.used_index) = a + b + c - 1
    <3>1. queue.available_index \in Indices /\ queue.used_index \in Indices
      BY RecordTypes
    <3>2. a + b + c \in Nat /\ Behind(queue.available_index, queue.used_index) = a + b + c
      BY <1>6
    <3>3. Behind(queue.available_index, wrapping_add(queue.used_index)) = a + b + c - 1
      BY <2>2, <3>1, <3>2, BackStep
    <3> QED
      BY <1>3, <1>4, <3>3
  <2>4. Behind(queue'.avail, queue'.seen) = a /\ Behind(queue'.seen, queue'.used) = b
    BY <1>3, <1>6
  <2>5. abandoned \in Nat
    BY RecordTypes
  <2>6. a + b + 0 = abandoned' + Spinning' /\ a + b + c - 1 = abandoned' + Spinning'
    BY <1>6, <1>7, <1>8, <2>5
  <2>7. Outstanding(queue)' = abandoned' + Spinning'
    BY <2>3, <2>6 DEF Outstanding, Behind
  <2>8. driver' = "ready" /\ abandoned' < MaxAbandoned
    BY DEF StagesInv, NoCall
  <2>9. queue'.avail = queue'.available_index
    BY <1>3 DEF StagesInv
  <2> QED
    BY <1>1, <1>6, <2>1, <2>4, <2>6, <2>7, <2>8, <2>9 DEF StagesInv
<1>10. RequestInv'
  <2>1. SUFFICES ASSUME abandoned = 0 PROVE RequestInv'
    BY DEF RequestInv
  <2>2. ~Unanswered /\ ~Unanswered'
    BY <1>1, <1>4 DEF Unanswered
  <2> QED
    BY <1>1, <2>1, <2>2 DEF RequestInv
<1>11. WritesInv'
  BY DEF WritesInv
<1> QED
  BY <1>5, <1>9, <1>10, <1>11

\* The driver looks at the status and returns.
LEMMA FinishInv ==
    ASSUME BlkInv, Finish
    PROVE  BlkInv'
<1> USE DEF BlkInv
<1>1. /\ call.pc = "completed" /\ call' = NoCall /\ applied' = FALSE
      /\ UNCHANGED <<hw, driver, queue, page, chain, store, abandoned>>
  BY DEF Finish
<1>2. Spinning = 0 /\ Spinning' = 0 /\ call'.pc = "idle"
  BY <1>1 DEF Spinning, NoCall
<1>3. NoCall \in [pc : {"idle", "written", "spinning", "completed"},
                  type : Types \cup {"none"}, sector : Sectors, data : Data \cup {NoData}]
  BY BlockAssumption DEF NoCall, Sectors
<1>4. BlkRecords'
  BY <1>1, <1>3 DEF BlkRecords
<1>5. StagesInv'
  BY <1>1, <1>2 DEF StagesInv
<1>6. RequestInv'
  BY <1>1, <1>2 DEF RequestInv
<1>7. WritesInv'
  BY <1>1 DEF WritesInv
<1> QED
  BY <1>4, <1>5, <1>6, <1>7

\* The spin loop either accepts a completion or gives the request up.
LEMMA SpinInv ==
    ASSUME BlkInv, Spin
    PROVE  BlkInv'
<1>1. call.pc = "spinning" /\ UNCHANGED <<hw, driver, page, chain, store, applied>>
  BY DEF Spin
<1>2. CASE CompletionOf(queue).kind = "done"
  <2>1. /\ queue' = Accepted(queue) /\ call' = [call EXCEPT !.pc = "completed"]
        /\ abandoned' = abandoned
    BY <1>2 DEF Spin
  <2> QED
    BY <1>1, <1>2, <2>1, AcceptInv
<1>3. CASE CompletionOf(queue).kind # "done"
  <2>1. call' = NoCall /\ abandoned' = abandoned + 1 /\ queue' = queue
    BY <1>3 DEF Spin
  <2> QED
    BY <1>1, <2>1, GivenUpInv
<1> QED
  BY <1>2, <1>3

LEMMA TimeOutInv ==
    ASSUME BlkInv, TimeOut
    PROVE  BlkInv'
BY GivenUpInv DEF TimeOut

\* The request the device takes is what the page and the table say now.
LEMMA FetchTakes ==
    ASSUME BlkRecords, DeviceFetch,
           NEW r, r = [type |-> page.header.type, sector |-> page.header.sector, chain |-> chain]
    PROVE  /\ Len(store'.taken) = Len(store.taken) + 1
           /\ store'.taken[Len(store.taken) + 1] = r
           /\ \A k \in 1..Len(store'.taken) :
                \/ k = Len(store.taken) + 1
                \/ k \in 1..Len(store.taken) /\ store'.taken[k] = store.taken[k]
           /\ store'.cache = store.cache /\ store'.durable = store.durable
           /\ store' \in [taken : Seq([type : Types, sector : Sectors, chain : Chains]),
                          cache : [Sectors -> Data], durable : [Sectors -> Data]]
<1>1. store' = [store EXCEPT !.taken = Append(@, r)]
  BY DEF DeviceFetch
<1>2. r \in [type : Types, sector : Sectors, chain : Chains]
  BY DEF BlkRecords
<1>3. PICK S : S = [type : Types, sector : Sectors, chain : Chains]
  OBVIOUS
<1>4. r \in S /\ store.taken \in Seq(S)
  BY <1>2, <1>3, RecordTypes
<1>5. PICK more : more = Append(store.taken, r)
  OBVIOUS
<1>6. /\ more \in Seq(S) /\ Len(more) = Len(store.taken) + 1
      /\ more[Len(store.taken) + 1] = r
      /\ \A k \in 1..Len(more) :
           \/ k = Len(store.taken) + 1
           \/ k \in 1..Len(store.taken) /\ more[k] = store.taken[k]
  BY <1>4, <1>5, AppendTyped
<1>7. store' = [store EXCEPT !.taken = more]
  BY <1>1, <1>5, Zenon
<1>8. /\ store'.taken = more /\ store'.cache = store.cache /\ store'.durable = store.durable
      /\ store' \in [taken : Seq(S), cache : [Sectors -> Data], durable : [Sectors -> Data]]
  BY <1>3, <1>6, <1>7 DEF BlkRecords
<1> QED
  BY <1>3, <1>6, <1>8, Zenon

\* The device takes a request: with nothing abandoned it is the one spun on.
LEMMA DeviceFetchInv ==
    ASSUME BlkInv, DeviceFetch
    PROVE  BlkInv'
<1> USE DEF BlkInv
<1>1. /\ driver = "ready" /\ queue.seen # queue.avail /\ queue' = Taken(queue)
      /\ UNCHANGED <<hw, driver, page, chain, call, result, applied, abandoned>>
  BY DEF DeviceFetch, Offered
<1>2. PICK r : r = [type |-> page.header.type, sector |-> page.header.sector, chain |-> chain]
  OBVIOUS
<1>3. /\ Len(store'.taken) = Len(store.taken) + 1
      /\ store'.taken[Len(store.taken) + 1] = r
      /\ \A k \in 1..Len(store'.taken) :
           \/ k = Len(store.taken) + 1
           \/ k \in 1..Len(store.taken) /\ store'.taken[k] = store.taken[k]
  BY <1>2, FetchTakes
<1>4. /\ store'.cache = store.cache /\ store'.durable = store.durable
      /\ store' \in [taken : Seq([type : Types, sector : Sectors, chain : Chains]),
                     cache : [Sectors -> Data], durable : [Sectors -> Data]]
  BY <1>2, FetchTakes
<1>5. PICK n \in Nat \ {0} : n = queue.size /\ queue \in Queues(n)
  BY DEF BlkRecords
<1>6. /\ queue' \in Queues(n) /\ queue'.size = n
      /\ queue'.available_index = queue.available_index
      /\ queue'.avail = queue.avail /\ queue'.used_index = queue.used_index
      /\ queue'.used = queue.used /\ queue'.seen = wrapping_add(queue.seen)
  BY <1>1, <1>5, TakenQueue
<1>7. BlkRecords'
  BY <1>1, <1>4, <1>5, <1>6 DEF BlkRecords
<1>8. PICK a, b, c \in Nat :
        /\ a = Behind(queue.avail, queue.seen)
        /\ b = Behind(queue.seen, queue.used)
        /\ c = Behind(queue.used, queue.used_index)
        /\ b = Len(store.taken)
        /\ a + b + c = abandoned + Spinning
        /\ a + b + c + 1 < IndexModulus
        /\ a = 0 <=> queue.avail = queue.seen
  BY Stages
<1>9. Spinning' = Spinning /\ abandoned' = abandoned /\ abandoned \in Nat /\ Spinning \in {0, 1}
  BY <1>1, RecordTypes DEF Spinning
<1>10. a >= 1 /\ b + 1 < IndexModulus
  BY <1>1, <1>8, IndexModulusAssumption
<1>11. StagesInv'
  <2>1. queue.avail \in Indices /\ queue.seen \in Indices /\ queue.used \in Indices
    BY RecordTypes
  <2>2. Behind(queue'.avail, queue'.seen) = a - 1
    <3>1. Behind(queue.avail, wrapping_add(queue.seen)) = a - 1
      BY <1>1, <1>8, <2>1, BackStep
    <3> QED
      BY <1>6, <3>1
  <2>3. Behind(queue'.seen, queue'.used) = b + 1
    <3>1. Behind(wrapping_add(queue.seen), queue.used) = b + 1
      <4>1. Behind(queue.seen, queue.used) = b
        BY <1>8
      <4> QED
        BY <1>10, <2>1, <4>1, FrontStep
    <3> QED
      BY <1>6, <3>1
  <2>4. Behind(queue'.used, queue'.used_index) = c
    BY <1>6, <1>8
  <2>5. Len(store'.taken) = b + 1
    <3>1. Len(store.taken) = b
      BY <1>8
    <3> QED
      BY <1>3, <3>1, Zenon
  <2>6. (a - 1) + (b + 1) + c = a + b + c
    OBVIOUS
  <2>7. (a - 1) + (b + 1) + c = abandoned' + Spinning'
    BY <1>8, <1>9, <2>6, Zenon
  <2>8. Outstanding(queue)' = abandoned' + Spinning'
    <3>1. Outstanding(queue)' = Outstanding(queue)
      BY <1>6 DEF Outstanding
    <3> QED
      BY <1>9, <3>1 DEF StagesInv
  <2>9. /\ queue'.avail = queue'.available_index /\ driver' = "ready"
        /\ call'.pc = "idle" => call' = NoCall
        /\ call'.pc # "idle" => abandoned' < MaxAbandoned
    BY <1>1, <1>6 DEF StagesInv
  <2> QED
    BY <2>2, <2>3, <2>4, <2>5, <2>7, <2>8, <2>9 DEF StagesInv
<1>12. RequestInv'
  <2>1. SUFFICES ASSUME abandoned = 0 PROVE RequestInv'
    BY <1>1 DEF RequestInv
  <2>2. Spinning = 1 /\ b = 0
    BY <1>8, <1>9, <1>10, <2>1
  <2>3. call.pc = "spinning"
    BY <2>2 DEF Spinning
  <2>4. Unanswered' <=> Unanswered
    BY <1>1, <1>6 DEF Unanswered
  <2>5. \A k \in 1..Len(store'.taken) :
          store'.taken[k] = [type |-> call.type, sector |-> call.sector, chain |-> chain]
    <3>1. Len(store'.taken) = 1 /\ store'.taken[1] = r
      <4>1. Len(store.taken) = 0
        BY <1>8, <2>2
      <4> QED
        BY <1>3, <4>1
    <3>2. r = [type |-> call.type, sector |-> call.sector, chain |-> chain]
      BY <1>2, <2>1, <2>3 DEF RequestInv
    <3> QED
      BY <3>1, <3>2
  <2> QED
    BY <1>1, <1>4, <2>1, <2>3, <2>4, <2>5 DEF RequestInv
<1>13. WritesInv'
  <2>1. SUFFICES ASSUME page.data = NoData, NEW k \in 1..Len(store'.taken)
                 PROVE  page.header.type # "OUT" /\ store'.taken[k].type # "OUT"
    BY <1>1 DEF WritesInv
  <2>2. page.header.type # "OUT" /\ r.type = page.header.type
    BY <1>2, <2>1 DEF WritesInv
  <2>3. store'.taken[k] = r \/ (k \in 1..Len(store.taken) /\ store'.taken[k] = store.taken[k])
    BY <1>3, <2>1
  <2> QED
    BY <2>1, <2>2, <2>3 DEF WritesInv
<1> QED
  BY <1>7, <1>11, <1>12, <1>13

\* What the device does with the request at the head, in terms of its parts.
LEMMA DeviceCompletes ==
    ASSUME BlkRecords, DeviceComplete
    PROVE  /\ store.taken # <<>>
           /\ Head(store.taken) \in [type : Types, sector : Sectors, chain : Chains]
           /\ \E ok \in BOOLEAN : LET r == Head(store.taken) IN
                /\ store'.taken = Tail(store.taken)
                /\ store'.cache = IF ok /\ r.type = "OUT"
                                  THEN [store.cache EXCEPT ![r.sector] = page.data]
                                  ELSE store.cache
                /\ store'.durable = IF ok /\ r.type = "FLUSH" THEN store.cache ELSE store.durable
                /\ store' = [taken |-> store'.taken, cache |-> store'.cache,
                             durable |-> store'.durable]
                /\ page' = [header |-> page.header,
                            data |-> IF ok /\ r.type = "IN" THEN store.cache[r.sector]
                                     ELSE page.data,
                            status |-> IF ok THEN StatusOk ELSE StatusIoErr]
                /\ applied' = (applied \/ ok)
<1>1. store.taken # <<>>
  BY DEF DeviceComplete
<1>2. PICK r \in [type : Types, sector : Sectors, chain : Chains] : r = Head(store.taken)
  <2>1. PICK S : S = [type : Types, sector : Sectors, chain : Chains]
    OBVIOUS
  <2>2. store.taken \in Seq(S)
    BY <2>1, RecordTypes
  <2>3. Head(store.taken) \in S
    BY <1>1, <2>2
  <2> QED
    BY <2>1, <2>3
<1>3. PICK ok \in BOOLEAN :
        /\ store' = [store EXCEPT
              !.taken = Tail(@),
              !.cache = IF ok /\ r.type = "OUT"
                        THEN [@ EXCEPT ![r.sector] = page.data] ELSE @,
              !.durable = IF ok /\ r.type = "FLUSH" THEN store.cache ELSE @]
        /\ page' = [page EXCEPT
              !.data = IF ok /\ r.type = "IN" THEN store.cache[r.sector] ELSE @,
              !.status = IF ok THEN StatusOk ELSE StatusIoErr]
        /\ applied' = (applied \/ ok)
  BY <1>2 DEF DeviceComplete
<1>4. PICK cache : cache = IF ok /\ r.type = "OUT"
                           THEN [store.cache EXCEPT ![r.sector] = page.data] ELSE store.cache
  OBVIOUS
<1>5. PICK durable : durable = IF ok /\ r.type = "FLUSH" THEN store.cache ELSE store.durable
  OBVIOUS
<1>6. PICK rest : rest = Tail(store.taken)
  OBVIOUS
<1>7. PICK data : data = IF ok /\ r.type = "IN" THEN store.cache[r.sector] ELSE page.data
  OBVIOUS
<1>8. PICK status : status = IF ok THEN StatusOk ELSE StatusIoErr
  OBVIOUS
<1>9. store' = [store EXCEPT !.taken = rest, !.cache = cache, !.durable = durable]
  BY <1>3, <1>4, <1>5, <1>6, Zenon
<1>10. store' = [taken |-> rest, cache |-> cache, durable |-> durable]
  BY <1>9 DEF BlkRecords
<1>11. page' = [page EXCEPT !.data = data, !.status = status]
  BY <1>3, <1>7, <1>8, Zenon
<1>12. page' = [header |-> page.header, data |-> data, status |-> status]
  BY <1>11 DEF BlkRecords
<1>13. store'.taken = rest /\ store'.cache = cache /\ store'.durable = durable
  BY <1>10
<1> QED
  BY <1>1, <1>2, <1>3, <1>4, <1>5, <1>6, <1>7, <1>8, <1>10, <1>12, <1>13, Zenon

\* With nothing abandoned the device answers the request spun on, and that
\* had not been answered.
LEMMA AnswersCall ==
    ASSUME BlkInv, DeviceComplete, abandoned = 0
    PROVE  /\ call.pc = "spinning" /\ Unanswered
           /\ Len(store.taken) = 1
           /\ Head(store.taken) = [type |-> call.type, sector |-> call.sector, chain |-> chain]
<1> USE DEF BlkInv
<1>1. PICK taken \in Seq([type : Types, sector : Sectors, chain : Chains]) :
        taken = store.taken /\ taken # <<>>
  BY RecordTypes DEF DeviceComplete
<1>2. Len(taken) \in Nat /\ Len(taken) >= 1 /\ 1 \in 1..Len(taken) /\ Head(taken) = taken[1]
  BY <1>1, TailTyped
<1>3. PICK a, b, c \in Nat :
        /\ b = Len(store.taken) /\ a + b + c = abandoned + Spinning
        /\ c = 0 <=> queue.used = queue.used_index
  BY Stages
<1>4. Spinning = 1 /\ b = 1 /\ c = 0
  <2>1. PICK k \in {0, 1} : k = Spinning
    BY RecordTypes
  <2>2. a + b + c = 0 + k
    BY <1>3, <2>1
  <2>3. k = 1 /\ b = 1 /\ c = 0
    <3>1. b >= 1
      BY <1>1, <1>2, <1>3
    <3> QED
      BY <2>2, <3>1
  <2> QED
    BY <2>1, <2>3
<1>5. call.pc = "spinning" /\ Unanswered
  BY <1>3, <1>4 DEF Spinning, Unanswered
<1>6. taken[1] = [type |-> call.type, sector |-> call.sector, chain |-> chain]
  BY <1>1, <1>2, <1>5 DEF RequestInv
<1> QED
  BY <1>1, <1>2, <1>3, <1>4, <1>5, <1>6

\* The device answers a request: with nothing abandoned it is the one spun on,
\* and it had not been answered.
LEMMA DeviceCompleteInv ==
    ASSUME BlkInv, DeviceComplete
    PROVE  BlkInv'
<1> USE DEF BlkInv
<1>1. /\ store.taken # <<>> /\ queue' = Answered(queue, 0, 0)
      /\ UNCHANGED <<hw, driver, chain, call, result, abandoned>>
  BY DEF DeviceComplete
<1>2. PICK r \in [type : Types, sector : Sectors, chain : Chains] : r = Head(store.taken)
  BY DeviceCompletes
<1>3. PICK ok \in BOOLEAN :
        /\ store'.taken = Tail(store.taken)
        /\ store'.cache = IF ok /\ r.type = "OUT"
                          THEN [store.cache EXCEPT ![r.sector] = page.data] ELSE store.cache
        /\ store'.durable = IF ok /\ r.type = "FLUSH" THEN store.cache ELSE store.durable
        /\ store' = [taken |-> store'.taken, cache |-> store'.cache, durable |-> store'.durable]
        /\ page' = [header |-> page.header,
                    data |-> IF ok /\ r.type = "IN" THEN store.cache[r.sector] ELSE page.data,
                    status |-> IF ok THEN StatusOk ELSE StatusIoErr]
        /\ applied' = (applied \/ ok)
  BY <1>2, DeviceCompletes, Zenon
<1>4. PICK taken \in Seq([type : Types, sector : Sectors, chain : Chains]) :
        taken = store.taken /\ taken # <<>>
  BY <1>1, RecordTypes
<1>5. /\ Tail(taken) \in Seq([type : Types, sector : Sectors, chain : Chains])
      /\ Len(Tail(taken)) = Len(taken) - 1 /\ Head(taken) = taken[1] /\ Len(taken) \in Nat
      /\ Len(taken) >= 1
  BY <1>4, TailTyped
<1>6. PICK n \in Nat \ {0} : n = queue.size /\ queue \in Queues(n)
  BY DEF BlkRecords
<1>7. /\ queue' \in Queues(n) /\ queue'.size = n
      /\ queue'.available_index = queue.available_index
      /\ queue'.avail = queue.avail /\ queue'.used_index = queue.used_index
      /\ queue'.used = wrapping_add(queue.used) /\ queue'.seen = queue.seen
  BY <1>1, <1>6, AnsweredQueue
<1>8. PICK a, b, c \in Nat :
        /\ a = Behind(queue.avail, queue.seen)
        /\ b = Behind(queue.seen, queue.used)
        /\ c = Behind(queue.used, queue.used_index)
        /\ b = Len(store.taken)
        /\ a + b + c = abandoned + Spinning
        /\ a + b + c + 1 < IndexModulus
        /\ b = 0 <=> queue.seen = queue.used
        /\ c = 0 <=> queue.used = queue.used_index
  BY Stages
<1>9. Spinning' = Spinning /\ abandoned' = abandoned /\ abandoned \in Nat /\ Spinning \in {0, 1}
  BY <1>1, RecordTypes DEF Spinning
<1>10. b >= 1 /\ c + 1 < IndexModulus
  BY <1>4, <1>5, <1>8, IndexModulusAssumption
<1>11. BlkRecords'
  <2>1. /\ store.cache \in [Sectors -> Data] /\ store.durable \in [Sectors -> Data]
        /\ page.header \in [type : Types, sector : Sectors] /\ page.data \in Data \cup {NoData}
    BY DEF BlkRecords
  <2>2. store'.cache \in [Sectors -> Data]
    <3>1. CASE ok /\ r.type = "OUT"
      <4>1. taken[1].type = "OUT" /\ 1 \in 1..Len(store.taken)
        BY <1>2, <1>4, <1>5, <3>1
      <4>2. page.data \in Data
        BY <1>4, <2>1, <4>1 DEF WritesInv
      <4> QED
        BY <1>3, <2>1, <3>1, <4>2
    <3>2. CASE ~(ok /\ r.type = "OUT")
      BY <1>3, <2>1, <3>2
    <3> QED
      BY <3>1, <3>2
  <2>3. store'.durable \in [Sectors -> Data]
    BY <1>3, <2>1
  <2>4. store' \in [taken : Seq([type : Types, sector : Sectors, chain : Chains]),
                    cache : [Sectors -> Data], durable : [Sectors -> Data]]
    <3>1. store'.taken \in Seq([type : Types, sector : Sectors, chain : Chains])
      BY <1>3, <1>4, <1>5, Zenon
    <3> QED
      BY <1>3, <2>2, <2>3, <3>1
  <2>5. page' \in [header : [type : Types, sector : Sectors], data : Data \cup {NoData},
                   status : {StatusOk, StatusIoErr, StatusPending}]
    BY <1>3, <2>1
  <2>6. applied' \in BOOLEAN
    BY <1>3, Zenon
  <2> QED
    BY <1>1, <1>6, <1>7, <2>4, <2>5, <2>6 DEF BlkRecords
<1>12. StagesInv'
  <2>1. queue.used_index \in Indices /\ queue.seen \in Indices /\ queue.used \in Indices
    BY RecordTypes
  <2>2. Behind(queue'.seen, queue'.used) = b - 1
    <3>1. Behind(queue.seen, wrapping_add(queue.used)) = b - 1
      <4>1. queue.seen # queue.used /\ Behind(queue.seen, queue.used) = b
        BY <1>8, <1>10
      <4> QED
        BY <2>1, <4>1, BackStep
    <3> QED
      BY <1>7, <3>1
  <2>3. Behind(queue'.used, queue'.used_index) = c + 1
    <3>1. Behind(wrapping_add(queue.used), queue.used_index) = c + 1
      BY <1>8, <1>10, <2>1, FrontStep
    <3> QED
      BY <1>7, <3>1
  <2>4. Behind(queue'.avail, queue'.seen) = a
    BY <1>7, <1>8
  <2>5. Len(store'.taken) = b - 1
    BY <1>3, <1>4, <1>5, <1>8, Zenon
  <2>6. a + (b - 1) + (c + 1) = a + b + c
    OBVIOUS
  <2>7. a + (b - 1) + (c + 1) = abandoned' + Spinning'
    BY <1>8, <1>9, <2>6, Zenon
  <2>8. Outstanding(queue)' = abandoned' + Spinning'
    <3>1. Outstanding(queue)' = Outstanding(queue)
      BY <1>7 DEF Outstanding
    <3> QED
      BY <1>9, <3>1 DEF StagesInv
  <2>9. /\ queue'.avail = queue'.available_index /\ driver' = "ready"
        /\ call'.pc = "idle" => call' = NoCall
        /\ call'.pc # "idle" => abandoned' < MaxAbandoned
    BY <1>1, <1>7 DEF StagesInv
  <2> QED
    BY <2>2, <2>3, <2>4, <2>5, <2>7, <2>8, <2>9 DEF StagesInv
<1>13. RequestInv'
  <2>1. SUFFICES ASSUME abandoned = 0 PROVE RequestInv'
    BY <1>1 DEF RequestInv
  <2>2. Len(store.taken) = 1
    BY <2>1, AnswersCall
  <2>3. call.pc = "spinning" /\ Unanswered
    BY <2>1, AnswersCall
  <2>4. ~Unanswered'
    <3>1. wrapping_add(queue.used) # queue.used
      BY RecordTypes, IndexSteps
    <3>2. queue'.used # queue'.used_index
      BY <1>7, <2>3, <3>1 DEF Unanswered
    <3> QED
      BY <1>1, <2>3, <3>2 DEF Unanswered
  <2>5. /\ call.type \in Types /\ (call.type = "OUT" => call.data \in Data)
        /\ page.header = [type |-> call.type, sector |-> call.sector]
        /\ chain = ChainFor(call.type) /\ ~applied
    BY <2>1, <2>3 DEF RequestInv
  <2>6. r.type = call.type /\ r.sector = call.sector
    <3>1. r = [type |-> call.type, sector |-> call.sector, chain |-> chain]
      BY <1>2, <2>1, AnswersCall
    <3> QED
      BY <3>1
  <2>7. Len(store'.taken) = 0
    BY <1>3, <1>4, <1>5, <2>2
  <2>8. applied' <=> page'.status = StatusOk
    <3>1. page'.status = IF ok THEN StatusOk ELSE StatusIoErr
      BY <1>3
    <3>2. StatusOk # StatusIoErr
      BY DEF StatusOk, StatusIoErr
    <3>3. applied' <=> ok
      BY <1>3, <2>5, Zenon
    <3> QED
      BY <3>1, <3>2, <3>3, Zenon
  <2>9. applied' /\ call.type = "IN" => page'.data = store'.cache[call.sector]
    <3>1. SUFFICES ASSUME applied', call.type = "IN"
                   PROVE  page'.data = store'.cache[call.sector]
      OBVIOUS
    <3>2. ok /\ r.type = "IN"
      BY <1>3, <2>5, <2>6, <3>1, Zenon
    <3>3. store'.cache = store.cache
      BY <1>3, <3>2
    <3>4. page'.data = store.cache[r.sector]
      BY <1>3, <3>2
    <3> QED
      BY <2>6, <3>3, <3>4, Zenon
  <2>10. page'.header = page.header
    BY <1>3
  <2>11. \A k \in 1..Len(store'.taken) :
           store'.taken[k] = [type |-> call.type, sector |-> call.sector, chain |-> chain]
    BY <2>7
  <2> QED
    BY <1>1, <2>3, <2>4, <2>5, <2>8, <2>9, <2>10, <2>11, Zenon DEF RequestInv
<1>14. WritesInv'
  <2>1. page'.data = NoData => page.data = NoData
    <3>1. ok /\ r.type = "IN" => page'.data \in Data
      BY <1>2, <1>3 DEF BlkRecords
    <3>2. ~(ok /\ r.type = "IN") => page'.data = page.data
      BY <1>3
    <3> QED
      BY <3>1, <3>2, BlockAssumption, Zenon
  <2>2. page'.header = page.header /\ store'.taken = Tail(taken)
    BY <1>3, <1>4
  <2>3. \A k \in 1..Len(Tail(taken)) : k + 1 \in 1..Len(taken) /\ Tail(taken)[k] = taken[k + 1]
    BY <1>4, TailTyped
  <2> QED
    <3>1. SUFFICES ASSUME page.data = NoData, NEW k \in 1..Len(Tail(taken))
                   PROVE  Tail(taken)[k].type # "OUT"
      BY <2>1, <2>2, Zenon DEF WritesInv
    <3>2. k + 1 \in 1..Len(taken) /\ Tail(taken)[k] = taken[k + 1]
      BY <2>3
    <3>3. taken[k + 1].type # "OUT"
      BY <1>4, <3>1, <3>2, Zenon DEF WritesInv
    <3> QED
      BY <3>2, <3>3, Zenon
<1> QED
  BY <1>11, <1>12, <1>13, <1>14

\* The device writes a sector back.
LEMMA WriteBackInv ==
    ASSUME BlkInv, DeviceWriteBack
    PROVE  BlkInv'
<1> USE DEF BlkInv
<1>1. /\ driver = "ready"
      /\ UNCHANGED <<hw, driver, queue, page, chain, call, result, applied, abandoned>>
  BY DEF DeviceWriteBack
<1>2. PICK s \in Sectors : store' = [store EXCEPT !.durable[s] = store.cache[s]]
  BY DEF DeviceWriteBack
<1>3. PICK durable \in [Sectors -> Data] : durable = [store.durable EXCEPT ![s] = store.cache[s]]
  BY DEF BlkRecords
<1>4. store' = [store EXCEPT !.durable = durable]
  BY <1>2, <1>3
<1>5. /\ store'.taken = store.taken /\ store'.cache = store.cache
      /\ store' \in [taken : Seq([type : Types, sector : Sectors, chain : Chains]),
                     cache : [Sectors -> Data], durable : [Sectors -> Data]]
  BY <1>4 DEF BlkRecords
<1>6. BlkRecords'
  BY <1>1, <1>5 DEF BlkRecords
<1>7. StagesInv'
  BY <1>1, <1>5 DEF StagesInv, Spinning
<1>8. RequestInv'
  BY <1>1, <1>5 DEF RequestInv, Unanswered
<1>9. WritesInv'
  BY <1>1, <1>5 DEF WritesInv
<1> QED
  BY <1>6, <1>7, <1>8, <1>9

\* Every step keeps the invariant.
LEMMA BlkStep ==
    ASSUME BlkInv, [BlkNext]_blkVars
    PROVE  BlkInv'
<1>1. CASE discover
  BY <1>1, DiscoverInv
<1>2. CASE read_sector
  <2>1. PICK s \in Sectors \cup {Capacity} : Enter("IN", s, NoData)
    BY <1>2 DEF read_sector
  <2> QED
    BY <2>1, EnterInv DEF Types
<1>3. CASE write_sector
  <2>1. PICK s \in Sectors \cup {Capacity}, d \in Data : Enter("OUT", s, d)
    BY <1>3 DEF write_sector
  <2> QED
    BY <2>1, EnterInv DEF Types
<1>4. CASE flush
  <2>1. Enter("FLUSH", 0, NoData) /\ 0 \in Sectors
    BY <1>4, BlockAssumption DEF flush, Sectors
  <2> QED
    BY <2>1, EnterInv DEF Types
<1>5. CASE Publish
  BY <1>5, PublishInv
<1>6. CASE Spin
  BY <1>6, SpinInv
<1>7. CASE TimeOut
  BY <1>7, TimeOutInv
<1>8. CASE Finish
  BY <1>8, FinishInv
<1>9. CASE DeviceFetch
  BY <1>9, DeviceFetchInv
<1>10. CASE DeviceComplete
  BY <1>10, DeviceCompleteInv
<1>11. CASE DeviceWriteBack
  BY <1>11, WriteBackInv
<1>12. CASE UNCHANGED blkVars
  <2>1. UNCHANGED <<hw, driver, queue, page, chain, call, result, store, applied, abandoned>>
    BY <1>12 DEF blkVars
  <2>2. BlkRecords' /\ WritesInv'
    BY <2>1 DEF BlkInv, BlkRecords, WritesInv
  <2>3. StagesInv'
    BY <2>1 DEF BlkInv, StagesInv, Spinning
  <2>4. RequestInv'
    BY <2>1 DEF BlkInv, RequestInv, Unanswered
  <2> QED
    BY <2>2, <2>3, <2>4 DEF BlkInv
<1> QED
  BY <1>1, <1>2, <1>3, <1>4, <1>5, <1>6, <1>7, <1>8, <1>9, <1>10, <1>11, <1>12, Zenon
     DEF BlkNext, BlkDriver, BlkDevice

LEMMA BlkInvHolds == BlkSpec => []BlkInv
<1>1. BlkInit => BlkInv
  BY BlkInitInv
<1>2. BlkInv /\ [BlkNext]_blkVars => BlkInv'
  BY BlkStep
<1> QED
  BY <1>1, <1>2, PTL DEF BlkSpec

-----------------------------------------------------------------------------
(* What the driver promises.                                               *)

\* For every disk, hardware, index width and number of requests given up: the
\* driver counts one completion for every request it has not given up, also
\* when both indices have wrapped, and the device never holds more requests
\* than were given up and the one under way (block.rs, request).
THEOREM CompletionsAreCounted == BlkSpec => []RequestsCounted
<1>1. BlkInv => RequestsCounted
  <2> SUFFICES ASSUME BlkInv PROVE RequestsCounted
    OBVIOUS
  <2> USE DEF BlkInv
  <2>1. IsQueue(queue, {0})
    <3>1. PICK n \in Nat \ {0} : n = queue.size /\ queue \in Queues(n)
      BY DEF BlkRecords
    <3>2. \A i \in Indices : IsIndex(i)
      BY IndexModulusAssumption DEF Indices, IsIndex
    <3>3. queue.avail = queue.available_index
      BY DEF StagesInv
    <3>4. queue.ring \in [0..(queue.size - 1) -> [id : {0}, length : {0}]]
      BY <3>1 DEF Queues
    <3> QED
      BY <3>2, <3>3, <3>4, RecordTypes DEF IsQueue
  <2>2. Len(store.taken) <= MaxAbandoned + 1
    <3>1. PICK a, b, c \in Nat : b = Len(store.taken) /\ a + b + c <= MaxAbandoned
      BY Stages
    <3> QED
      BY <3>1, BlockAssumption
  <2>3. BlkTypeOK
    BY <2>1, <2>2 DEF BlkRecords, BlkTypeOK
  <2>4. CompletionsCounted
    BY DEF StagesInv, CompletionsCounted, Spinning
  <2> QED
    BY <2>3, <2>4 DEF RequestsCounted
<1> QED
  BY <1>1, BlkInvHolds, PTL

-----------------------------------------------------------------------------
(* The driver as a BlockDevice.                                            *)

\* The operation of the contract that each call stands for.
LEMMA Operation ==
    /\ call.type = "none" => ContractOp = [type |-> "none"]
    /\ call.type = "IN" => ContractOp = [type |-> "IN", sector |-> call.sector]
    /\ call.type = "OUT" =>
         ContractOp = [type |-> "OUT", sector |-> call.sector, data |-> call.data]
    /\ call.type = "FLUSH" => ContractOp = [type |-> "FLUSH"]
    /\ call.type \in Types => ContractOp # Contract!Idle /\ ContractOp.type = call.type
    /\ call.type = "IN" => ContractOp.sector = call.sector
    /\ call.type = "OUT" => ContractOp.sector = call.sector /\ ContractOp.data = call.data
BY DEF ContractOp, Types, Contract!Idle

\* With the same arguments it is the same operation.
LEMMA SameOperation ==
    ASSUME call'.type = call.type, call'.sector = call.sector, call'.data = call.data
    PROVE  ContractOp' = ContractOp
BY DEF ContractOp

\* Before the first call the contract holds too.
LEMMA ContractInit ==
    ASSUME BlkInit
    PROVE  Contract!Init
<1>1. PICK d \in Data : store = [taken |-> <<>>, cache |-> [s \in Sectors |-> d],
                                 durable |-> [s \in Sectors |-> d]]
  BY DEF BlkInit
<1>2. store.cache \in [Sectors -> Data] /\ store.durable = store.cache
  BY <1>1
<1>3. call.type = "none" /\ result.ok = FALSE /\ result.data = NoData /\ applied = FALSE
  BY DEF BlkInit, NoCall, Failed
<1>4. ContractOp = Contract!Idle
  BY <1>3, Operation DEF Contract!Idle
<1> QED
  BY <1>2, <1>3, <1>4 DEF Contract!Init

\* A caller enters, or is refused.
LEMMA EnterContract ==
    ASSUME BlkInv, BlkInv', NEW type \in Types, NEW sector \in Sectors \cup {Capacity},
           NEW data \in Data \cup {NoData}, type = "OUT" => data \in Data,
           Enter(type, sector, data)
    PROVE  Contract!Next
<1>1. call.pc = "idle" /\ store' = store
  BY DEF Enter
<1>2. ContractOp = Contract!Idle
  <2>1. call = NoCall
    BY <1>1 DEF BlkInv, StagesInv
  <2>2. call.type = "none"
    BY <2>1 DEF NoCall
  <2> QED
    BY <2>2, Operation DEF Contract!Idle
<1>3. result'.ok = FALSE /\ result'.data = NoData
  BY DEF Enter, Failed
<1>4. CASE Refusal(type, sector) # "none"
  <2>1. call' = call /\ applied' = applied
    BY <1>4 DEF Enter
  <2>2. ContractOp' = ContractOp
    BY <2>1, SameOperation
  <2>3. Contract!Refuse
    BY <1>1, <1>2, <1>3, <2>1, <2>2 DEF Contract!Refuse
  <2> QED
    BY <2>3 DEF Contract!Next
<1>5. CASE Refusal(type, sector) = "none"
  <2>1. /\ call' = [pc |-> "written", type |-> type, sector |-> sector, data |-> data]
        /\ applied' = FALSE
    BY <1>5 DEF Enter
  <2>2. call'.type = type /\ call'.sector \in Sectors /\ (type = "OUT" => call'.data \in Data)
    BY <2>1 DEF BlkInv, BlkRecords
  <2>3. ContractOp' \in Contract!Operations
    <3>1. CASE type = "IN"
      <4>1. ContractOp' = [type |-> "IN", sector |-> call'.sector]
        BY <2>2, <3>1 DEF ContractOp
      <4> QED
        BY <2>2, <4>1 DEF Contract!Operations
    <3>2. CASE type = "OUT"
      <4>1. ContractOp' = [type |-> "OUT", sector |-> call'.sector, data |-> call'.data]
        BY <2>2, <3>2 DEF ContractOp
      <4> QED
        BY <2>2, <3>2, <4>1 DEF Contract!Operations
    <3>3. CASE type = "FLUSH"
      <4>1. ContractOp' = [type |-> "FLUSH"]
        BY <2>2, <3>3 DEF ContractOp
      <4> QED
        BY <4>1 DEF Contract!Operations
    <3> QED
      BY <3>1, <3>2, <3>3 DEF Types
  <2>4. Contract!Begin
    BY <1>1, <1>2, <1>3, <2>1, <2>3 DEF Contract!Begin
  <2> QED
    BY <2>4 DEF Contract!Next
<1> QED
  BY <1>4, <1>5

\* A call returns Ok only if the device has carried it out.
LEMMA FinishContract ==
    ASSUME BlkInv, Finish, abandoned = 0
    PROVE  Contract!Next
<1>1. call.pc = "completed" /\ call' = NoCall /\ applied' = FALSE /\ store' = store
  BY DEF Finish
<1>2. /\ call.type \in Types /\ (applied <=> page.status = StatusOk)
      /\ applied /\ call.type = "IN" => page.data = store.cache[call.sector]
  BY <1>1 DEF BlkInv, RequestInv, Unanswered
<1>3. ContractOp # Contract!Idle /\ ContractOp.type = call.type
      /\ (call.type = "IN" => ContractOp.sector = call.sector)
  BY <1>2, Operation
<1>4. ContractOp' = Contract!Idle
  BY <1>1 DEF ContractOp, NoCall, Contract!Idle
<1>5. CASE page.status # StatusOk
  <2>1. result'.ok = FALSE /\ result'.data = NoData
    BY <1>5 DEF Finish, Failed
  <2>2. Contract!Fail
    BY <1>1, <1>3, <1>4, <2>1 DEF Contract!Fail
  <2> QED
    BY <2>2 DEF Contract!Next
<1>6. CASE page.status = StatusOk
  <2>1. result'.ok = TRUE /\ result'.data = IF call.type = "IN" THEN page.data ELSE NoData
    BY <1>6 DEF Finish, ResultOk
  <2>2. result'.data = IF ContractOp.type = "IN" THEN store.cache[ContractOp.sector] ELSE NoData
    BY <1>2, <1>3, <1>6, <2>1, Zenon
  <2>3. applied
    BY <1>2, <1>6
  <2>4. Contract!Succeed
    BY <1>1, <1>3, <1>4, <2>1, <2>2, <2>3 DEF Contract!Succeed
  <2> QED
    BY <2>4 DEF Contract!Next
<1> QED
  BY <1>5, <1>6

\* The device carries the operation out once, or fails it and changes nothing.
LEMMA CompleteContract ==
    ASSUME BlkInv, DeviceComplete, abandoned = 0
    PROVE  Contract!Next \/ UNCHANGED Contract!vars
<1>1. call' = call /\ result' = result
  BY DEF DeviceComplete
<1>2. ContractOp' = ContractOp
  BY <1>1, SameOperation
<1>3. /\ call.pc = "spinning" /\ Unanswered
      /\ Head(store.taken) = [type |-> call.type, sector |-> call.sector, chain |-> chain]
  BY AnswersCall
<1>4. call.type \in Types /\ ~applied /\ (call.type = "OUT" => page.data = call.data)
  BY <1>3 DEF BlkInv, RequestInv
<1>5. PICK r : r = Head(store.taken) /\ r.type = call.type /\ r.sector = call.sector
  BY <1>3
<1>6. PICK ok \in BOOLEAN :
        /\ store'.cache = IF ok /\ r.type = "OUT"
                          THEN [store.cache EXCEPT ![r.sector] = page.data] ELSE store.cache
        /\ store'.durable = IF ok /\ r.type = "FLUSH" THEN store.cache ELSE store.durable
        /\ applied' = (applied \/ ok)
  BY <1>5, DeviceCompletes, Zenon DEF BlkInv
<1>7. CASE ok
  <2>1. applied' = TRUE
    BY <1>6, <1>7, Zenon
  <2>2. /\ ContractOp # Contract!Idle /\ ContractOp.type = call.type
        /\ call.type = "OUT" => ContractOp.sector = call.sector /\ ContractOp.data = call.data
    BY <1>4, Operation
  <2>3. store'.cache = IF ContractOp.type = "OUT"
                       THEN [store.cache EXCEPT ![ContractOp.sector] = ContractOp.data]
                       ELSE store.cache
    BY <1>4, <1>5, <1>6, <1>7, <2>2
  <2>4. store'.durable = IF ContractOp.type = "FLUSH" THEN store.cache ELSE store.durable
    BY <1>5, <1>6, <1>7, <2>2
  <2>5. Contract!Apply
    BY <1>1, <1>2, <1>4, <2>1, <2>2, <2>3, <2>4 DEF Contract!Apply
  <2> QED
    BY <2>5 DEF Contract!Next
<1>8. CASE ~ok
  <2>1. applied' = applied
    BY <1>4, <1>6, <1>8, Zenon DEF BlkInv, BlkRecords
  <2>2. store'.cache = store.cache /\ store'.durable = store.durable
    BY <1>6, <1>8
  <2> QED
    BY <1>1, <1>2, <2>1, <2>2 DEF Contract!vars
<1> QED
  BY <1>7, <1>8

LEMMA WriteBackContract ==
    ASSUME BlkInv, DeviceWriteBack
    PROVE  Contract!Next
<1>1. call' = call /\ result' = result /\ applied' = applied
  BY DEF DeviceWriteBack
<1>2. ContractOp' = ContractOp
  BY <1>1, SameOperation
<1>3. PICK s \in Sectors : store' = [store EXCEPT !.durable[s] = store.cache[s]]
  BY DEF DeviceWriteBack
<1>4. store'.cache = store.cache /\ store'.durable = [store.durable EXCEPT ![s] = store.cache[s]]
  BY <1>3 DEF BlkInv, BlkRecords
<1>5. Contract!WriteBack
  BY <1>1, <1>2, <1>4 DEF Contract!WriteBack
<1> QED
  BY <1>5 DEF Contract!Next

\* Every step up to the first abandoned request is a step of the contract or
\* changes nothing the caller can see.
LEMMA ContractStep ==
    ASSUME BlkInv, BlkInv', [BlkNext]_blkVars, abandoned' = 0
    PROVE  Contract!Next \/ UNCHANGED Contract!vars
<1> DEFINE Same == /\ store'.cache = store.cache /\ store'.durable = store.durable
                   /\ call'.type = call.type /\ call'.sector = call.sector
                   /\ call'.data = call.data /\ applied' = applied /\ result' = result
<1>0. Same => UNCHANGED Contract!vars
  BY SameOperation DEF Contract!vars
<1>1. CASE discover
  BY <1>0, <1>1 DEF discover
<1>2. CASE read_sector
  <2>1. PICK s \in Sectors \cup {Capacity} : Enter("IN", s, NoData)
    BY <1>2 DEF read_sector
  <2> QED
    BY <2>1, EnterContract DEF Types
<1>3. CASE write_sector
  <2>1. PICK s \in Sectors \cup {Capacity}, d \in Data : Enter("OUT", s, d)
    BY <1>3 DEF write_sector
  <2> QED
    BY <2>1, EnterContract DEF Types
<1>4. CASE flush
  <2>1. Enter("FLUSH", 0, NoData) /\ 0 \in Sectors
    BY <1>4, BlockAssumption DEF flush, Sectors
  <2> QED
    BY <2>1, EnterContract DEF Types
<1>5. CASE Publish
  <2>1. Same
    BY <1>5 DEF Publish, BlkInv, BlkRecords
  <2> QED
    BY <1>0, <2>1
<1>6. CASE Spin
  <2>1. abandoned \in Nat
    BY RecordTypes DEF BlkInv
  <2>2. abandoned' # abandoned + 1
    BY <2>1
  <2>3. call' = [call EXCEPT !.pc = "completed"] /\ UNCHANGED <<result, store, applied>>
    BY <1>6, <2>2 DEF Spin
  <2>4. Same
    BY <2>3 DEF BlkInv, BlkRecords
  <2> QED
    BY <1>0, <2>4
<1>7. CASE TimeOut
  <2>1. abandoned \in Nat /\ abandoned' = abandoned + 1
    BY <1>7, RecordTypes DEF BlkInv, TimeOut
  <2> QED
    BY <2>1
<1>8. CASE Finish
  BY <1>8, FinishContract DEF Finish
<1>9. CASE DeviceFetch
  <2>1. PICK more : store' = [store EXCEPT !.taken = more]
    BY <1>9 DEF DeviceFetch
  <2>2. store'.cache = store.cache /\ store'.durable = store.durable
    BY <2>1 DEF BlkInv, BlkRecords
  <2> QED
    BY <1>0, <1>9, <2>2 DEF DeviceFetch
<1>10. CASE DeviceComplete
  BY <1>10, CompleteContract DEF DeviceComplete
<1>11. CASE DeviceWriteBack
  BY <1>11, WriteBackContract
<1>12. CASE UNCHANGED blkVars
  BY <1>0, <1>12 DEF blkVars
<1> QED
  BY <1>1, <1>2, <1>3, <1>4, <1>5, <1>6, <1>7, <1>8, <1>9, <1>10, <1>11, <1>12, Zenon
     DEF BlkNext, BlkDriver, BlkDevice

\* For every disk, hardware and index width: up to the first request given up,
\* the driver over its device implements the BlockDevice contract.  A call
\* that returns Ok has been carried out exactly once, a read returns what is
\* on the disk, and a flush that succeeds has made every write durable.
THEOREM DriverIsBlockDevice == BlkSpec => Contract!Init /\ IsBlockDevice
<1>1. BlkInit => Contract!Init
  BY ContractInit
<1>2. BlkInv /\ BlkInv' /\ [BlkNext]_blkVars => [abandoned' = 0 => Contract!Next]_(Contract!vars)
  BY ContractStep
<1> QED
  BY <1>1, <1>2, BlkInvHolds, PTL DEF BlkSpec, IsBlockDevice
=============================================================================
