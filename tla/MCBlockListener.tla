--------------------------- MODULE MCBlockListener ---------------------------
(* TLC instance of the virtio-blk driver and of a small TCP listener: the  *)
(* two places where a wait must end whatever the other side does.  A       *)
(* behaviour exercises one of them.                                        *)
EXTENDS VirtioBlock, TLC

CONSTANTS p1, NoPeer

VARIABLES connections, served_connections, closed_connections, mode, budget, lag,
          to_server, to_client, client, faults, clean, asked,
          subject        \* "disk" or "listener"

Working(size, hasFlush) ==
    [present |-> TRUE, bar |-> "io16", flush |-> hasFlush, queue_size |-> size,
     pages |-> "low", accepts |-> TRUE]
NoDisk == [Working(4, TRUE) EXCEPT !.present = FALSE]
MCHardware ==
    {NoDisk, Working(4, TRUE), Working(4, FALSE), Working(0, TRUE), Working(2, TRUE),
     [Working(4, TRUE) EXCEPT !.bar = "mmio"],
     [Working(4, TRUE) EXCEPT !.bar = "io32"],
     [Working(4, TRUE) EXCEPT !.pages = "none"],
     [Working(4, TRUE) EXCEPT !.pages = "high"],
     [Working(4, TRUE) EXCEPT !.accepts = FALSE]}

(* One table entry and a client that may repeat all it sends for ever.     *)
Sent(payload, fin) == [payload |-> payload, fin |-> fin]
Listener == INSTANCE TcpListener WITH
    Peers <- {p1}, Persistent <- {p1}, Capacity <- 1, IdleTimeout <- 2, PollFrames <- 1, SeqMod <- 8,
    RequestLength <- 2, ResponseLength <- 2, MaxFaults <- 0,
    ServerSequence <- (p1 :> 1), ClientSequence <- (p1 :> 7),
    Requests <- (p1 :> {Sent("request", FALSE), Sent("request", TRUE), Sent("other", FALSE)})

listenerVars == <<connections, served_connections, closed_connections, mode, budget,
                  lag, to_server, to_client, client, faults, clean, asked>>

(* The driver has found no disk, or the kernel with the listener has       *)
(* halted: neither takes a step of its own accord.                         *)
BlockListenerInit ==
    \/ /\ subject = "listener" /\ Listener!Init
       /\ hw = NoDisk /\ driver = "DeviceNotFound" /\ queue = NoQueue
       /\ page = [header |-> [type |-> "IN", sector |-> 0], data |-> NoData, status |-> 0]
       /\ chain = <<>> /\ call = NoCall /\ result = Failed("none")
       /\ store = [taken |-> <<>>, cache |-> [s \in Sectors |-> CHOOSE d \in Data : TRUE],
                   durable |-> [s \in Sectors |-> CHOOSE d \in Data : TRUE]]
       /\ applied = FALSE /\ abandoned = 0
    \/ /\ subject = "disk" /\ BlkInit
       /\ mode = "halted" /\ connections = <<Listener!Free>>
       /\ served_connections = 0 /\ closed_connections = 0 /\ budget = 0 /\ lag = 0
       /\ to_server = {} /\ to_client = {} /\ client = <<>>
       /\ faults = 0 /\ clean = TRUE /\ asked = {}

BlockListenerNext ==
    \/ subject = "disk" /\ BlkNext /\ UNCHANGED <<listenerVars, subject>>
    \/ subject = "listener" /\ Listener!Next /\ UNCHANGED <<blkVars, subject>>

BlockListenerSpec ==
    /\ BlockListenerInit /\ [][BlockListenerNext]_<<blkVars, listenerVars, subject>>
    /\ BlkFairness /\ Listener!Fairness

(* An entry of the connection table does not stay for ever: it is closed,  *)
(* reset or expired, unless segments that refresh it keep coming or the    *)
(* kernel halts (network.rs, the timer step of poll).                      *)
EntriesReleased == Listener!EntriesReleased

(* No wait of the kernel is unbounded: a disk request returns whatever the *)
(* device does, and a table entry is given back unless its client keeps    *)
(* refreshing it.                                                          *)
BoundedWaits == RequestReturns /\ EntriesReleased
=============================================================================
