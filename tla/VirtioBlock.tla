--------------------------- MODULE VirtioBlock ---------------------------
(***************************************************************************)
(* The legacy virtio-blk driver (kernel/src/block.rs) and the device       *)
(* behind it.  The driver owns one request page (header, data, status) and *)
(* one chain of descriptors, publishes one request at a time and spins for *)
(* its completion.  A request whose spins run out returns RequestTimedOut; *)
(* nothing is taken back from the device, which may answer later.          *)
(***************************************************************************)
EXTENDS Virtqueue, Sequences

CONSTANTS Capacity,      \* capacity_sectors
          Data,          \* contents of a sector
          NoData,
          Hardware,      \* what discover may find on the PCI bus
          MaxAbandoned   \* bound: requests given up in one behaviour

ASSUME BlockAssumption ==
    /\ Capacity \in Nat \ {0}
    /\ NoData \notin Data
    /\ MaxAbandoned \in Nat /\ MaxAbandoned + 2 <= IndexModulus

ASSUME HardwareAssumption ==
    Hardware \subseteq
        [present : BOOLEAN, bar : {"io16", "io32", "mmio"}, flush : BOOLEAN,
         queue_size : Nat, pages : {"none", "high", "low"}, accepts : BOOLEAN]

VARIABLES
    hw,         \* the hardware found: constant after Init
    driver,     \* "none" before discover, "ready", or discover's error
    queue,      \* the virtqueue
    page,       \* the request page: header, data, status
    chain,      \* descriptor table: which part, may the device write it?
    call,       \* the request under way: pc and arguments
    result,     \* what the last call returned
    store,      \* the device: requests taken, cached and durable sectors
    applied,    \* history: the current request has been carried out
    abandoned   \* history: requests that returned without their completion

blkVars == <<hw, driver, queue, page, chain, call, result, store, applied, abandoned>>

Sectors == 0..(Capacity - 1)
NoCall == [pc |-> "idle", type |-> "none", sector |-> 0, data |-> NoData]
Failed(error) == [ok |-> FALSE, data |-> NoData, error |-> error]
ResultOk(data) == [ok |-> TRUE, data |-> data, error |-> "none"]
NoQueue == NewQueue(1)

\* VIRTIO_BLK_S_OK, VIRTIO_BLK_S_IOERR and the 0xff the driver starts from.
StatusOk == 0
StatusIoErr == 1
StatusPending == 255

-----------------------------------------------------------------------------
(* VirtioBlock::discover *)

\* The checks of discover in their order; "ready" when all pass.
DiscoverOutcome(h) ==
    CASE ~h.present                       -> "DeviceNotFound"
      [] h.present /\ h.bar # "io16"      -> "InvalidIoBar"
      [] h.present /\ h.bar = "io16" ->
           (CASE h.queue_size = 0          -> "QueueUnavailable"
              [] h.queue_size \in 1..2     -> "QueueTooSmall"
              [] h.queue_size > 2 ->
                   (CASE h.pages = "none"  -> "DmaAddressUnavailable"
                      [] h.pages = "high"  -> "QueueAddressTooHigh"
                      [] h.pages = "low"   ->
                           IF h.accepts THEN "ready" ELSE "DeviceRejected"))

discover ==
    /\ driver = "none"
    /\ driver' = DiscoverOutcome(hw)
    /\ queue' = IF driver' = "ready" THEN NewQueue(hw.queue_size) ELSE queue
    /\ UNCHANGED <<hw, page, chain, call, result, store, applied, abandoned>>

-----------------------------------------------------------------------------
(* VirtioBlock::request *)

\* The chain request() writes into the descriptor table.
ChainFor(type) ==
    IF type = "FLUSH"
    THEN <<[part |-> "header", write |-> FALSE], [part |-> "status", write |-> TRUE]>>
    ELSE <<[part |-> "header", write |-> FALSE],
           [part |-> "data", write |-> type = "IN"],
           [part |-> "status", write |-> TRUE]>>

\* The refusals before the request page is touched.
Refusal(type, sector) ==
    CASE type = "FLUSH" /\ ~hw.flush            -> "DeviceRejected"
      [] type # "FLUSH" /\ sector >= Capacity   -> "SectorOutOfRange"
      [] OTHER                                  -> "none"

\* read_sector, write_sector and flush up to the descriptor writes.  A
\* caller gives up after MaxAbandoned abandoned requests (a bound).
Enter(type, sector, data) ==
    /\ driver = "ready" /\ call.pc = "idle" /\ abandoned < MaxAbandoned
    /\ IF Refusal(type, sector) # "none"
       THEN /\ result' = Failed(Refusal(type, sector))
            /\ UNCHANGED <<page, chain, call, applied>>
       ELSE /\ page' = [page EXCEPT !.header = [type |-> type, sector |-> sector],
                                    !.status = StatusPending,
                                    !.data = IF type = "OUT" THEN data ELSE @]
            /\ chain' = ChainFor(type)
            /\ call' = [pc |-> "written", type |-> type, sector |-> sector,
                        data |-> data]
            /\ applied' = FALSE
            /\ result' = Failed("none")
    /\ UNCHANGED <<hw, driver, queue, store, abandoned>>

read_sector == \E s \in Sectors \cup {Capacity} : Enter("IN", s, NoData)
write_sector == \E s \in Sectors \cup {Capacity}, d \in Data : Enter("OUT", s, d)
flush == Enter("FLUSH", 0, NoData)

\* Available ring slot, available index and the notification.
Publish ==
    /\ call.pc = "written"
    /\ queue' = submit(queue)
    /\ call' = [call EXCEPT !.pc = "spinning"]
    /\ UNCHANGED <<hw, driver, page, chain, result, store, applied, abandoned>>

\* One turn of the spin loop that sees a new used index.
Spin ==
    /\ call.pc = "spinning"
    /\ CompletionOf(queue).kind # "none"
    /\ IF CompletionOf(queue).kind = "done"
       THEN /\ queue' = Accepted(queue)
            /\ call' = [call EXCEPT !.pc = "completed"]
            /\ UNCHANGED <<result, abandoned>>
       ELSE /\ result' = Failed("DeviceRejected")
            /\ call' = NoCall
            /\ abandoned' = abandoned + 1
            /\ UNCHANGED queue
    /\ UNCHANGED <<hw, driver, page, chain, store, applied>>

\* REQUEST_TIMEOUT_SPINS turns without a new used index.
TimeOut ==
    /\ call.pc = "spinning"
    /\ CompletionOf(queue).kind = "none"
    /\ result' = Failed("RequestTimedOut")
    /\ call' = NoCall
    /\ abandoned' = abandoned + 1
    /\ UNCHANGED <<hw, driver, queue, page, chain, store, applied>>

\* Mutant: the status byte is not looked at.
Finish_no_status ==
    /\ call.pc = "completed"
    /\ result' = ResultOk(IF call.type = "IN" THEN page.data ELSE NoData)
    /\ call' = NoCall /\ applied' = FALSE
    /\ UNCHANGED <<hw, driver, queue, page, chain, store, abandoned>>

\* The status byte, and for a read the copy out of the request page.
Finish ==
    /\ call.pc = "completed"
    /\ result' = IF page.status # StatusOk THEN Failed("RequestFailed")
                 ELSE ResultOk(IF call.type = "IN" THEN page.data ELSE NoData)
    /\ call' = NoCall /\ applied' = FALSE
    /\ UNCHANGED <<hw, driver, queue, page, chain, store, abandoned>>

-----------------------------------------------------------------------------
(* The device *)

\* Takes an offered request: it reads the header now.
DeviceFetch ==
    /\ driver = "ready" /\ Offered(queue)
    /\ queue' = Taken(queue)
    /\ store' = [store EXCEPT !.taken =
                     Append(@, [type |-> page.header.type,
                                sector |-> page.header.sector, chain |-> chain])]
    /\ UNCHANGED <<hw, driver, page, chain, call, result, applied, abandoned>>

WellFormed(r) == r.chain = ChainFor(r.type)

\* Carries out a taken request through the request page and answers it.
DeviceComplete ==
    /\ store.taken # <<>>
    /\ LET r == Head(store.taken)
       IN  \E ok \in IF WellFormed(r) THEN BOOLEAN ELSE {FALSE} :
             /\ store' = [store EXCEPT
                   !.taken = Tail(@),
                   !.cache = IF ok /\ r.type = "OUT"
                             THEN [@ EXCEPT ![r.sector] = page.data] ELSE @,
                   !.durable = IF ok /\ r.type = "FLUSH" THEN store.cache ELSE @]
             /\ page' = [page EXCEPT
                   !.data = IF ok /\ r.type = "IN" THEN store.cache[r.sector] ELSE @,
                   !.status = IF ok THEN StatusOk ELSE StatusIoErr]
             /\ applied' = (applied \/ ok)
    /\ queue' = Answered(queue, 0, 0)
    /\ UNCHANGED <<hw, driver, chain, call, result, abandoned>>

\* Writes a cached sector back of its own accord.
DeviceWriteBack ==
    /\ driver = "ready"
    /\ \E s \in Sectors :
         /\ store.durable[s] # store.cache[s]
         /\ store' = [store EXCEPT !.durable[s] = store.cache[s]]
    /\ UNCHANGED <<hw, driver, queue, page, chain, call, result, applied, abandoned>>

-----------------------------------------------------------------------------
BlkInit ==
    /\ hw \in Hardware
    /\ driver = "none"
    /\ queue = NoQueue
    /\ page = [header |-> [type |-> "IN", sector |-> 0], data |-> NoData, status |-> 0]
    /\ chain = <<>>
    /\ call = NoCall
    /\ result = Failed("none")
    /\ \E d \in Data : store = [taken |-> <<>>, cache |-> [s \in Sectors |-> d],
                              durable |-> [s \in Sectors |-> d]]
    /\ applied = FALSE
    /\ abandoned = 0

BlkDriver == read_sector \/ write_sector \/ flush \/ Publish \/ Spin \/ TimeOut \/ Finish
BlkDevice == DeviceFetch \/ DeviceComplete \/ DeviceWriteBack
BlkNext == discover \/ BlkDriver \/ BlkDevice

\* The driver runs with interrupts off or is resumed by the timer: it always
\* gets on with its loop.  Nothing is assumed of the device.
BlkFairness == WF_blkVars(Publish \/ Spin \/ TimeOut \/ Finish)
BlkSpec == BlkInit /\ [][BlkNext]_blkVars /\ BlkFairness

-----------------------------------------------------------------------------
(* Properties *)

\* The driver and the device keep their variables in their types.
BlkTypeOK ==
    /\ hw \in Hardware
    /\ queue.size = IF driver = "ready" THEN hw.queue_size ELSE 1
    /\ IsQueue(queue, {0})
    /\ page.header.sector \in Sectors /\ page.data \in Data \cup {NoData}
    /\ page.status \in {StatusOk, StatusIoErr, StatusPending}
    /\ call.pc \in {"idle", "written", "spinning", "completed"}
    /\ Len(store.taken) <= MaxAbandoned + 1
    /\ store.cache \in [Sectors -> Data] /\ store.durable \in [Sectors -> Data]
    /\ applied \in BOOLEAN /\ abandoned \in 0..MaxAbandoned

\* Requests and completions are counted one for one across index wraps: what
\* the driver has published and not seen completed is the request it spins on
\* and the requests it gave up.  An abandoned request is never made up for, so
\* from then on each completion is counted for the request before its own.
CompletionsCounted ==
    driver = "ready" =>
        Outstanding(queue) = abandoned + (IF call.pc = "spinning" THEN 1 ELSE 0)

\* Up to the first abandoned request the driver is a BlockDevice: a call that
\* returns Ok has been carried out exactly once before it returns, a read
\* returns what is on the disk, a flush has made every written sector durable.
ContractOp ==
    CASE call.type = "none"  -> [type |-> "none"]
      [] call.type = "IN"    -> [type |-> "IN", sector |-> call.sector]
      [] call.type = "OUT"   -> [type |-> "OUT", sector |-> call.sector, data |-> call.data]
      [] call.type = "FLUSH" -> [type |-> "FLUSH"]
Contract == INSTANCE BlockContract WITH
    disk <- store.cache, durable <- store.durable, applied <- applied, op <- ContractOp,
    reply <- [ok |-> result.ok, data |-> result.data]

IsBlockDevice == [][abandoned' = 0 => Contract!Next]_(Contract!vars)

\* Every call returns, whatever the device does (the spin loop is bounded).
RequestReturns == (call.pc # "idle") ~> (call.pc = "idle")

\* The bookkeeping of the driver: types, and a completion counted for every
\* request that was not given up (block.rs:290-345).
RequestsCounted == BlkTypeOK /\ CompletionsCounted

-----------------------------------------------------------------------------
(* Why they hold.                                                          *)

Types == {"IN", "OUT", "FLUSH"}
Chains == {<<>>} \cup {ChainFor(type) : type \in Types}

\* The records behind BlkTypeOK.
BlkRecords ==
    /\ hw \in Hardware
    /\ queue.size \in Nat \ {0} /\ queue \in Queues(queue.size)
    /\ queue.size = IF driver = "ready" THEN hw.queue_size ELSE 1
    /\ page \in [header : [type : Types, sector : Sectors], data : Data \cup {NoData},
                 status : {StatusOk, StatusIoErr, StatusPending}]
    /\ chain \in Chains
    /\ call \in [pc : {"idle", "written", "spinning", "completed"},
                 type : Types \cup {"none"}, sector : Sectors, data : Data \cup {NoData}]
    /\ store \in [taken : Seq([type : Types, sector : Sectors, chain : Chains]),
                  cache : [Sectors -> Data], durable : [Sectors -> Data]]
    /\ applied \in BOOLEAN /\ abandoned \in 0..MaxAbandoned

Spinning == IF call.pc = "spinning" THEN 1 ELSE 0

\* A request is with the driver until it is offered, then with the device until
\* it is answered, then on the used ring until the driver accepts it: the three
\* stages together hold the request being waited for and the abandoned ones.
StagesInv ==
    /\ queue.avail = queue.available_index
    /\ Behind(queue.seen, queue.used) = Len(store.taken)
    /\ Behind(queue.avail, queue.seen) + Behind(queue.seen, queue.used)
         + Behind(queue.used, queue.used_index) = abandoned + Spinning
    /\ Outstanding(queue) = abandoned + Spinning
    /\ driver # "ready" => call = NoCall /\ abandoned = 0 /\ store.taken = <<>>
    /\ call.pc = "idle" => call = NoCall
    /\ call.pc # "idle" => abandoned < MaxAbandoned

\* The device has not yet answered the request under way.
Unanswered ==
    \/ call.pc = "written"
    \/ call.pc = "spinning" /\ queue.used = queue.used_index

\* Up to the first abandoned request, page, descriptors and device agree with
\* the call: the device sees this request and no other, and its status tells
\* whether it has carried it out.
RequestInv ==
    abandoned = 0 =>
        /\ call.pc = "idle" => ~applied
        /\ call.pc # "idle" =>
             /\ call.type \in Types /\ (call.type = "OUT" => call.data \in Data)
             /\ page.header = [type |-> call.type, sector |-> call.sector]
             /\ chain = ChainFor(call.type)
             /\ \A k \in 1..Len(store.taken) :
                  store.taken[k] = [type |-> call.type, sector |-> call.sector, chain |-> chain]
             /\ Unanswered => ~applied /\ (call.type = "OUT" => page.data = call.data)
             /\ ~Unanswered =>
                  /\ applied <=> page.status = StatusOk
                  /\ applied /\ call.type = "IN" => page.data = store.cache[call.sector]

\* The data part of the page holds a sector's contents by the time the device
\* is asked to write one, and from then on.
WritesInv ==
    page.data = NoData =>
        /\ page.header.type # "OUT"
        /\ \A k \in 1..Len(store.taken) : store.taken[k].type # "OUT"

\* The inductive invariant of the driver and its device.
BlkInv == BlkRecords /\ StagesInv /\ RequestInv /\ WritesInv
=============================================================================
