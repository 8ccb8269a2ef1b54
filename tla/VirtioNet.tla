---------------------------- MODULE VirtioNet ----------------------------
(***************************************************************************)
(* The legacy virtio-net driver (kernel/src/network.rs, struct VirtioNet)  *)
(* and the device behind it: one receive buffer, one transmit buffer, one  *)
(* virtqueue for each.  transmit() waits for its completion; try_receive() *)
(* never waits.  Every error of the driver reaches kernel-image's _start,  *)
(* which halts, so an error is the last step of the driver.                *)
(* A buffer nobody will read again before it is rewritten is NoFrame.      *)
(***************************************************************************)
EXTENDS Virtqueue

CONSTANTS NetHardware,   \* what discover may find on the PCI bus
          NoFrame

VARIABLES
    nhw,      \* the network hardware: constant after Init
    net,      \* "none" before discover, "up", or the error that halted
    rx, tx,   \* the two virtqueues
    rxBuffer, \* what the device wrote into the receive buffer
    txBuffer, \* what the driver wrote into the transmit buffer
    sending,  \* transmit() waits for its completion
    wire      \* the frames the device has put on the wire

netVars == <<nhw, net, rx, tx, rxBuffer, txBuffer, sending, wire>>

\* Lengths, scaled: the virtio header, the longest frame, the page-sized
\* buffer.  A "runt" is shorter than the header; a "jumbo" frame is too long
\* for the kernel and still fits the buffer.
VIRTIO_NET_HEADER_BYTES == 1
MAX_ETHERNET_FRAME == 2
DMA_BUFFER_BYTES == 5
LengthOf(frame) ==
    CASE frame.proto = "runt"  -> 0
      [] frame.proto = "jumbo" -> DMA_BUFFER_BYTES
      [] OTHER                 -> VIRTIO_NET_HEADER_BYTES + MAX_ETHERNET_FRAME

\* Virtqueue::allocate.
AllocateOutcome(size, pages) ==
    CASE size = 0                      -> "QueueUnavailable"
      [] size > 0 /\ pages = "none"    -> "DmaAddressUnavailable"
      [] size > 0 /\ pages = "high"    -> "QueueAddressTooHigh"
      [] size > 0 /\ pages = "low"     -> "up"

\* VirtioNet::discover: the checks in their order.
NetDiscoverOutcome(h) ==
    CASE ~h.present                                   -> "DeviceNotFound"
      [] h.present /\ h.bar # "io16"                  -> "InvalidIoBar"
      [] h.present /\ h.bar = "io16" /\ ~h.macFeature -> "DeviceRejected"
      [] h.present /\ h.bar = "io16" /\ h.macFeature  ->
           (IF AllocateOutcome(h.rx_size, h.pages) # "up"
            THEN AllocateOutcome(h.rx_size, h.pages)
            ELSE IF AllocateOutcome(h.tx_size, h.pages) # "up"
            THEN AllocateOutcome(h.tx_size, h.pages)
            ELSE IF h.mac \in {"zero", "ones", "multicast"} \/ ~h.accepts
            THEN "DeviceRejected" ELSE "up")

\* discover ends by posting the receive buffer (post_receive_buffer).
DiscoverNet ==
    /\ net = "none"
    /\ net' = NetDiscoverOutcome(nhw)
    /\ rx' = IF net' = "up" THEN submit(NewQueue(nhw.rx_size)) ELSE rx
    /\ tx' = IF net' = "up" THEN NewQueue(nhw.tx_size) ELSE tx
    /\ UNCHANGED <<nhw, rxBuffer, txBuffer, sending, wire>>

\* transmit up to the notification.  Every frame the kernel builds fits.
StartTransmit(frame) ==
    /\ net = "up" /\ ~sending
    /\ LengthOf(frame) <= VIRTIO_NET_HEADER_BYTES + MAX_ETHERNET_FRAME
    /\ txBuffer' = frame
    /\ tx' = submit(tx)
    /\ sending' = TRUE
    /\ UNCHANGED <<nhw, net, rx, rxBuffer, wire>>

\* wait_completion sees the used index move.
TransmitReturns ==
    /\ net = "up" /\ sending
    /\ CompletionOf(tx).kind # "none"
    /\ IF CompletionOf(tx).kind = "done"
       THEN tx' = Accepted(tx) /\ sending' = FALSE /\ txBuffer' = NoFrame /\ UNCHANGED net
       ELSE net' = "DeviceRejected" /\ UNCHANGED <<tx, sending, txBuffer>>
    /\ UNCHANGED <<nhw, rx, rxBuffer, wire>>

\* DEVICE_TIMEOUT_SPINS turns without a completion.
TransmitTimesOut ==
    /\ net = "up" /\ sending
    /\ CompletionOf(tx).kind = "none"
    /\ net' = "RequestTimedOut"
    /\ UNCHANGED <<nhw, rx, tx, rxBuffer, txBuffer, sending, wire>>

\* try_receive: nothing there, an error, or a frame.
Received ==
    LET c == CompletionOf(rx)
    IN  IF c.kind # "done" THEN c.kind
        ELSE IF c.length \notin VIRTIO_NET_HEADER_BYTES..DMA_BUFFER_BYTES
        THEN "PacketMalformed"
        ELSE IF c.length - VIRTIO_NET_HEADER_BYTES > MAX_ETHERNET_FRAME
        THEN "FrameTooLarge"
        ELSE "frame"

\* Mutant: the buffer is not posted again.
TakeFrame_not_posted ==
    /\ net = "up" /\ ~sending /\ Received = "frame"
    /\ rx' = Accepted(rx) /\ rxBuffer' = NoFrame
    /\ UNCHANGED <<nhw, tx, txBuffer, sending, wire>>

\* The frame is copied out and the buffer posted again; what the caller does
\* with the frame decides net'.
TakeFrame ==
    /\ net = "up" /\ ~sending /\ Received = "frame"
    /\ rx' = submit(Accepted(rx)) /\ rxBuffer' = NoFrame
    /\ UNCHANGED <<nhw, tx, txBuffer, sending, wire>>

\* try_receive returns an error: the buffer is not posted again.
ReceiveFails ==
    /\ net = "up" /\ ~sending
    /\ Received \in {"DeviceRejected", "PacketMalformed", "FrameTooLarge"}
    /\ net' = Received
    /\ rx' = IF Received = "DeviceRejected" THEN rx ELSE Accepted(rx)
    /\ UNCHANGED <<nhw, tx, rxBuffer, txBuffer, sending, wire>>

-----------------------------------------------------------------------------
(* The device *)

\* Sends what the transmit buffer holds, then answers.
DeviceSends ==
    /\ tx.size > 0 /\ Offered(tx)
    /\ wire' = wire \cup {txBuffer}
    /\ tx' = Answered(Taken(tx), 0, 0)
    /\ UNCHANGED <<nhw, net, rx, rxBuffer, txBuffer, sending>>

\* A frame arrives.  Without a posted buffer the device drops it, which the
\* model shows as the frame not arriving.
DeviceReceives(frame) ==
    /\ Offered(rx)
    /\ rxBuffer' = frame
    /\ rx' = Answered(Taken(rx), 0, LengthOf(frame))
    /\ UNCHANGED <<nhw, net, tx, txBuffer, sending, wire>>

-----------------------------------------------------------------------------
NetInit ==
    /\ nhw \in NetHardware
    /\ net = "none"
    /\ rx = NewQueue(1) /\ tx = NewQueue(1)
    /\ rxBuffer = NoFrame /\ txBuffer = NoFrame
    /\ sending = FALSE
    /\ wire = {}
=============================================================================
