---------------------------- MODULE TcpListener ----------------------------
(***************************************************************************)
(* The HTTP listener of the resident kernel (kernel/src/network.rs,        *)
(* TcpListener and NetworkInterface::poll), its clients, and a network     *)
(* that loses, duplicates and reorders segments between them.              *)
(*                                                                         *)
(* Sequence numbers are taken modulo SeqMod in place of 2^32; the request  *)
(* and the response have small nonzero lengths.  A peer stands for the     *)
(* (MAC, address, port) triple a table entry is matched on.  Time is kept  *)
(* relative: an entry records how long ago its last_activity_tick was, and *)
(* a poll how long ago it read now_tick.                                   *)
(***************************************************************************)
EXTENDS Integers, FiniteSets

CONSTANTS
    Peers,            \* the remote endpoints
    NoPeer,           \* the peer field of a free table entry
    Capacity,         \* TCP_LISTENER_CAPACITY
    IdleTimeout,      \* TCP_LISTENER_IDLE_TIMEOUT_TICKS
    PollFrames,       \* frames handled in one poll
    SeqMod,           \* number of sequence numbers
    RequestLength, ResponseLength,
    ServerSequence,   \* tcp_server_sequence, per peer
    ClientSequence,   \* a client's initial sequence number, per peer
    Requests,         \* what each client may send: [payload, fin] records;
                      \* one with none stops after its SYN
    Persistent,       \* clients that may send again without bound
    MaxFaults         \* bound on losses, repetitions and vanished clients

ASSUME CapacityAssumption == Capacity \in Nat \ {0}

ASSUME TimeoutAssumption == IdleTimeout \in Nat \ {0}

ASSUME NoPeerAssumption == NoPeer \notin Peers

ASSUME SequenceAssumption ==
    /\ SeqMod \in Nat \ {0} /\ RequestLength \in Nat /\ ResponseLength \in Nat
    /\ ServerSequence \in [Peers -> 0 .. SeqMod - 1]
    /\ ClientSequence \in [Peers -> 0 .. SeqMod - 1]

ASSUME BoundsAssumption ==
    /\ PollFrames \in Nat \ {0} /\ MaxFaults \in Nat
    /\ Requests \in [Peers -> SUBSET [payload : {"request", "other"}, fin : BOOLEAN]]

VARIABLES
    connections,         \* the table: Slots -> Connection
    served_connections,
    closed_connections,
    mode,                \* "idle", "polling", "halted"
    budget,              \* frames this poll may still handle
    lag,                 \* ticks since this poll read now_tick
    to_server, to_client,\* segments in flight
    client,              \* the clients' ends of the connections
    faults,              \* departures from the clean run so far
    clean,               \* history: nothing lost, repeated, expired, given up
    asked                \* history: every request a client has sent

server == <<connections, served_connections, closed_connections>>
vars == <<connections, served_connections, closed_connections, mode, budget,
          lag, to_server, to_client, client, faults, clean, asked>>

Slots == 1 .. Capacity
Sequence == 0 .. SeqMod - 1
Phases == {"Established", "FinWait1", "FinWait2"}

wrapping_add(a, b) == (a + b) % SeqMod
wrapping_sub(a, b) == (a - b) % SeqMod

Length(payload) == CASE payload = "none" -> 0
                     [] payload = "response" -> ResponseLength
                     [] OTHER -> RequestLength

Segments ==
    [peer : Peers, flags : SUBSET {"SYN", "ACK", "FIN", "RST"}, seq : Sequence,
     ack : Sequence, payload : {"none", "request", "other", "response"}]

Segment(peer, flags, seq, ack, payload) ==
    [peer |-> peer, flags |-> flags, seq |-> seq, ack |-> ack, payload |-> payload]

TcpServerConnection ==
    [peer : Peers, remote_next : Sequence, local_next : Sequence,
     phase : Phases, idle : 0 .. IdleTimeout]

Free == [peer |-> NoPeer, remote_next |-> 0, local_next |-> 0,
         phase |-> "Free", idle |-> 0]

(* The sequence numbers a segment occupies beyond its payload.             *)
Count(segment, flag) == IF flag \in segment.flags THEN 1 ELSE 0

is_supported_listener_request(payload) == payload = "request"

ClientStates == {"closed", "syn_sent", "established", "closing", "finished",
                 "refused", "reset", "gave_up"}

Init ==
    /\ connections = [i \in Slots |-> Free]
    /\ served_connections = 0 /\ closed_connections = 0
    /\ mode = "idle" /\ budget = 0 /\ lag = 0
    /\ to_server = {} /\ to_client = {}
    /\ client = [p \in Peers |->
                    [state |-> "closed", snd_nxt |-> 0, rcv_nxt |-> 0,
                     payload |-> "none", fin |-> FALSE]]
    /\ faults = 0 /\ clean = TRUE /\ asked = {}

----------------------------------------------------------------------------
(* The table.                                                              *)

connection_index(peer) == {i \in Slots : connections[i].peer = peer}

FreeSlots == {i \in Slots : connections[i] = Free}

(* position(): the first slot of a nonempty set.                           *)
First(slots) == CHOOSE i \in slots : \A j \in slots : i <= j

Aged(idle) == IF idle < IdleTimeout THEN idle + 1 ELSE idle

(* A halted kernel stays halted; the model ends with it.                   *)
Running == mode # "halted"

(* One PIT tick.  Only differences from now are kept, and none of them     *)
(* matters beyond the timeout.                                             *)
Tick ==
    /\ Running
    /\ \/ \E i \in Slots : connections[i] # Free /\ connections[i].idle < IdleTimeout
       \/ mode = "polling" /\ lag < IdleTimeout
    /\ connections' = [i \in Slots |->
            IF connections[i] = Free THEN Free
            ELSE [connections[i] EXCEPT !.idle = Aged(@)]]
    /\ lag' = IF mode = "polling" THEN Aged(lag) ELSE lag
    /\ UNCHANGED <<served_connections, closed_connections, mode, budget, to_server,
                   to_client, client, faults, clean, asked>>

\* Mutant: only connections without a request are reclaimed.
expire_established_only ==
    [i \in Slots |-> IF /\ connections[i].phase = "Established"
                        /\ connections[i].idle >= IdleTimeout
                     THEN Free ELSE connections[i]]

expire_idle_connections ==
    [i \in Slots |-> IF connections[i] # Free /\ connections[i].idle >= IdleTimeout
                     THEN Free ELSE connections[i]]

(* poll(): read the clock, expire, then handle at most PollFrames frames.  *)
BeginPoll ==
    /\ mode = "idle"
    /\ mode' = "polling" /\ budget' = PollFrames /\ lag' = 0
    /\ connections' = expire_idle_connections
    /\ clean' = (clean /\ connections' = connections)
    /\ UNCHANGED <<served_connections, closed_connections, to_server, to_client,
                   client, faults, asked>>

(* try_receive() found nothing, or the frame budget is used up.            *)
EndPoll ==
    /\ mode = "polling"
    /\ mode' = "idle" /\ lag' = 0 /\ budget' = 0
    /\ UNCHANGED <<server, to_server, to_client, client, faults, clean, asked>>

(* try_receive() finds a completion it cannot use: poll() returns the      *)
(* error and the kernel halts.                                             *)
ReceiveFails ==
    /\ mode = "polling" /\ budget > 0
    /\ mode' = "halted"
    /\ UNCHANGED <<server, budget, lag, to_server, to_client, client, faults, clean, asked>>

(* The network or a client departs from the clean run.                     *)
Fault == faults < MaxFaults /\ faults' = faults + 1 /\ clean' = FALSE

(* The receive queue hands over a segment; the network may hold a second   *)
(* copy of it back.                                                        *)
Take(m) ==
    /\ mode = "polling" /\ budget > 0
    /\ budget' = budget - 1
    /\ \/ to_server' = to_server \ {m} /\ UNCHANGED <<faults, clean>>
       \/ Fault /\ UNCHANGED to_server
    /\ UNCHANGED <<lag, client, asked>>

(* transmit(): the frame goes out; or the device does not report it as     *)
(* sent, poll() returns the error and the kernel halts.                    *)
Transmit(segment) ==
    \/ to_client' = to_client \cup {segment} /\ UNCHANGED mode
    \/ to_client' \in {to_client, to_client \cup {segment}} /\ mode' = "halted"

NoReply == UNCHANGED <<to_client, mode>>

----------------------------------------------------------------------------
(* handle_frame_at(): one action per way through it.                       *)

reset(m) ==
    Segment(m.peer, {"RST", "ACK"}, ServerSequence[m.peer],
            wrapping_add(m.seq, Length(m.payload) + Count(m, "SYN") + Count(m, "FIN")),
            "none")

ReceiveRst(m) ==
    /\ "RST" \in m.flags
    /\ connections' = [i \in Slots |->
            IF connection_index(m.peer) # {} /\ i = First(connection_index(m.peer))
            THEN Free ELSE connections[i]]
    /\ NoReply
    /\ UNCHANGED <<served_connections, closed_connections>>

\* Mutant: a free entry is preferred to the one the peer has.
SynSlots_fresh(m) == IF FreeSlots # {} THEN FreeSlots ELSE connection_index(m.peer)

\* Mutant: a full table evicts its first entry.
SynSlots_evict(m) == IF connection_index(m.peer) # {} THEN connection_index(m.peer)
                     ELSE IF FreeSlots # {} THEN FreeSlots ELSE Slots

(* The entry a SYN takes: the peer's own, else the first free one.         *)
SynSlots(m) == IF connection_index(m.peer) # {} THEN connection_index(m.peer)
               ELSE FreeSlots

accept_syn(m) ==
    /\ "SYN" \in m.flags /\ "RST" \notin m.flags
    /\ SynSlots(m) # {}
    /\ connections' = [connections EXCEPT ![First(SynSlots(m))] =
            [peer |-> m.peer, remote_next |-> wrapping_add(m.seq, 1),
             local_next |-> wrapping_add(ServerSequence[m.peer], 1),
             phase |-> "Established", idle |-> lag]]
    /\ Transmit(Segment(m.peer, {"SYN", "ACK"}, ServerSequence[m.peer],
                        wrapping_add(m.seq, 1), "none"))
    /\ UNCHANGED <<served_connections, closed_connections>>

(* A SYN when the table is full, or a segment of an unknown peer.          *)
Refuse(m) ==
    /\ "RST" \notin m.flags
    /\ IF "SYN" \in m.flags THEN SynSlots(m) = {}
       ELSE connection_index(m.peer) = {}
    /\ Transmit(reset(m))
    /\ UNCHANGED server

(* The remaining paths have an entry c at slot i for the segment's peer.   *)
Known(m, i) ==
    /\ m.flags \cap {"RST", "SYN"} = {}
    /\ connection_index(m.peer) # {} /\ i = First(connection_index(m.peer))

InOrder(m, c) == m.ack = c.local_next /\ m.seq = c.remote_next

\* Mutant: a FIN that overtakes the acknowledgement of the response is not
\* counted.
ControlFin_uncounted(m, i) == LET c == connections[i] IN
    /\ Known(m, i) /\ m.payload = "none"
    /\ "ACK" \in m.flags /\ InOrder(m, c) /\ "FIN" \in m.flags
    /\ connections' = [connections EXCEPT ![i] = Free]
    /\ closed_connections' = closed_connections + IF c.phase = "FinWait2" THEN 1 ELSE 0
    /\ Transmit(Segment(m.peer, {"ACK"}, c.local_next, wrapping_add(c.remote_next, 1), "none"))
    /\ UNCHANGED served_connections

(* handle_control_segment(): the client's FIN closes the entry.            *)
ControlFin(m, i) == LET c == connections[i] IN
    /\ Known(m, i) /\ m.payload = "none"
    /\ "ACK" \in m.flags /\ InOrder(m, c) /\ "FIN" \in m.flags
    /\ connections' = [connections EXCEPT ![i] = Free]
    /\ closed_connections' = closed_connections + 1
    /\ Transmit(Segment(m.peer, {"ACK"}, c.local_next, wrapping_add(c.remote_next, 1), "none"))
    /\ UNCHANGED served_connections

ControlAck(m, i) == LET c == connections[i] IN
    /\ Known(m, i) /\ m.payload = "none"
    /\ "ACK" \in m.flags /\ InOrder(m, c) /\ "FIN" \notin m.flags
    /\ connections' = [connections EXCEPT
            ![i].phase = IF @ = "FinWait1" THEN "FinWait2" ELSE @,
            ![i].idle = lag]
    /\ NoReply
    /\ UNCHANGED <<served_connections, closed_connections>>

(* What the response to a request acknowledges.                            *)
Span(m) == Length(m.payload) + Count(m, "FIN")

(* A repeated request: the response is sent again.                         *)
Repeated(m, c) ==
    /\ is_supported_listener_request(m.payload)
    /\ m.seq = wrapping_sub(c.remote_next, Span(m))
    /\ m.ack = wrapping_sub(c.local_next, ResponseLength + 1)

\* Mutant: the response is repeated behind itself.
retransmit_after(m, i) == LET c == connections[i] IN
    /\ Known(m, i) /\ m.payload # "none" /\ c.phase # "Established"
    /\ Repeated(m, c)
    /\ connections' = [connections EXCEPT ![i].idle = lag]
    /\ Transmit(Segment(m.peer, {"ACK", "FIN"}, c.local_next, c.remote_next, "response"))
    /\ UNCHANGED <<served_connections, closed_connections>>

retransmit_response(m, i) == LET c == connections[i] IN
    /\ Known(m, i) /\ m.payload # "none" /\ c.phase # "Established"
    /\ Repeated(m, c)
    /\ connections' = [connections EXCEPT ![i].idle = lag]
    /\ Transmit(Segment(m.peer, {"ACK", "FIN"},
                        wrapping_sub(c.local_next, ResponseLength + 1),
                        c.remote_next, "response"))
    /\ UNCHANGED <<served_connections, closed_connections>>

RejectRequest(m, i) == LET c == connections[i] IN
    /\ Known(m, i) /\ m.payload # "none" /\ c.phase = "Established" /\ InOrder(m, c)
    /\ ~is_supported_listener_request(m.payload)
    /\ connections' = [connections EXCEPT ![i] = Free]
    /\ Transmit(reset(m))
    /\ UNCHANGED <<served_connections, closed_connections>>

ServeRequest(m, i) == LET c == connections[i] IN
    /\ Known(m, i) /\ m.payload # "none" /\ c.phase = "Established" /\ InOrder(m, c)
    /\ is_supported_listener_request(m.payload)
    /\ connections' = [connections EXCEPT ![i] =
            [c EXCEPT !.remote_next = wrapping_add(@, Span(m)),
                      !.local_next = wrapping_add(@, ResponseLength + 1),
                      !.phase = "FinWait1", !.idle = lag]]
    /\ served_connections' = served_connections + 1
    /\ Transmit(Segment(m.peer, {"ACK", "FIN"}, c.local_next,
                        wrapping_add(c.remote_next, Span(m)), "response"))
    /\ UNCHANGED closed_connections

(* Every other segment of a known peer: return Ok(None).                   *)
IgnoreSegment(m, i) == LET c == connections[i] IN
    /\ Known(m, i)
    /\ \/ m.payload = "none" /\ ~("ACK" \in m.flags /\ InOrder(m, c))
       \/ m.payload # "none" /\ c.phase = "Established" /\ ~InOrder(m, c)
       \/ m.payload # "none" /\ c.phase # "Established" /\ ~Repeated(m, c)
    /\ NoReply
    /\ UNCHANGED server

handle_frame_at(m) ==
    /\ Take(m)
    /\ \/ ReceiveRst(m)
       \/ accept_syn(m)
       \/ Refuse(m)
       \/ \E i \in Slots :
             \/ ControlFin(m, i)
             \/ ControlAck(m, i)
             \/ retransmit_response(m, i)
             \/ RejectRequest(m, i)
             \/ ServeRequest(m, i)
             \/ IgnoreSegment(m, i)

HandleFrom(p) == \E m \in to_server : m.peer = p /\ handle_frame_at(m)

----------------------------------------------------------------------------
(* The clients: standard TCP ends that connect, send one request, read the *)
(* response to its FIN and close.                                          *)

(* What client p has sent and still waits to hear acknowledged.            *)
Outstanding(p) == LET c == client[p] IN
    CASE c.state = "syn_sent" ->
            {Segment(p, {"SYN"}, ClientSequence[p], 0, "none")}
      [] c.state = "established" ->
            {Segment(p, {"ACK"} \cup (IF c.fin THEN {"FIN"} ELSE {}),
                     wrapping_add(ClientSequence[p], 1), c.rcv_nxt, c.payload)}
      [] c.state = "closing" ->
            {Segment(p, {"ACK", "FIN"}, wrapping_sub(c.snd_nxt, 1), c.rcv_nxt, "none")}
      [] OTHER -> {}

PlainAck(p) == Segment(p, {"ACK"}, client[p].snd_nxt, client[p].rcv_nxt, "none")

clientOnly == <<server, mode, budget, lag>>

Connect(p) ==
    /\ Running /\ client[p].state = "closed"
    /\ client' = [client EXCEPT ![p].state = "syn_sent",
                                ![p].snd_nxt = wrapping_add(ClientSequence[p], 1)]
    /\ to_server' = to_server \cup Outstanding(p)'
    /\ UNCHANGED <<clientOnly, to_client, faults, clean, asked>>

Retransmit(p) ==
    /\ Running /\ Outstanding(p) # {} /\ ~(Outstanding(p) \subseteq to_server)
    /\ IF p \in Persistent THEN clean' = FALSE /\ UNCHANGED faults ELSE Fault
    /\ to_server' = to_server \cup Outstanding(p)
    /\ UNCHANGED <<clientOnly, to_client, client, asked>>

(* A client disappears, with or without a RST.                             *)
GiveUp(p) ==
    /\ Running /\ client[p].state \in {"syn_sent", "established", "closing"}
    /\ client' = [client EXCEPT ![p].state = "gave_up"]
    /\ to_server' \in {to_server, to_server \cup
            {Segment(p, {"RST"}, client[p].snd_nxt, 0, "none")}}
    /\ Fault
    /\ UNCHANGED <<clientOnly, to_client, asked>>

ReadSynAck(p, m) ==
    /\ client[p].state = "syn_sent" /\ m.flags = {"SYN", "ACK"}
    /\ m.ack = client[p].snd_nxt
    /\ \E r \in Requests[p] :
          client' = [client EXCEPT ![p] =
            [state |-> "established", payload |-> r.payload, fin |-> r.fin,
             snd_nxt |-> wrapping_add(@.snd_nxt, Length(r.payload) + IF r.fin THEN 1 ELSE 0),
             rcv_nxt |-> wrapping_add(m.seq, 1)]]
    /\ to_server' = to_server \cup Outstanding(p)' \cup
            {Segment(p, {"ACK"}, client[p].snd_nxt, wrapping_add(m.seq, 1), "none")}
    /\ asked' = asked \cup Outstanding(p)'

ReadResponse(p, m) ==
    /\ client[p].state = "established" /\ m.payload = "response"
    /\ m.seq = client[p].rcv_nxt /\ m.ack = client[p].snd_nxt
    /\ client' = [client EXCEPT
            ![p].rcv_nxt = wrapping_add(@, ResponseLength + 1),
            ![p].state = IF client[p].fin THEN "finished" ELSE "closing",
            ![p].snd_nxt = wrapping_add(@, IF client[p].fin THEN 0 ELSE 1)]
    /\ to_server' = to_server \cup Outstanding(p)' \cup
            {Segment(p, {"ACK"}, client[p].snd_nxt, client'[p].rcv_nxt, "none")}
    /\ UNCHANGED asked

(* A response already read is acknowledged again.                          *)
RereadResponse(p, m) ==
    /\ client[p].state \in {"closing", "finished"} /\ m.payload = "response"
    /\ to_server' = to_server \cup {PlainAck(p)}
    /\ UNCHANGED <<client, asked>>

ReadFinalAck(p, m) ==
    /\ client[p].state = "closing" /\ m.flags = {"ACK"}
    /\ m.seq = client[p].rcv_nxt /\ m.ack = client[p].snd_nxt
    /\ client' = [client EXCEPT ![p].state = "finished"]
    /\ UNCHANGED <<to_server, asked>>

(* In syn_sent a RST counts when it acknowledges the SYN, later when it is *)
(* the next sequence number expected.                                      *)
ReadRst(p, m) ==
    /\ "RST" \in m.flags
    /\ \/ /\ client[p].state = "syn_sent" /\ m.ack = client[p].snd_nxt
          /\ client' = [client EXCEPT ![p].state = "refused"]
       \/ /\ client[p].state \in {"established", "closing"}
          /\ m.seq = client[p].rcv_nxt
          /\ client' = [client EXCEPT ![p].state = "reset"]
    /\ UNCHANGED <<to_server, asked>>

ClientReads(p, m) ==
    \/ ReadSynAck(p, m)
    \/ ReadResponse(p, m)
    \/ RereadResponse(p, m)
    \/ ReadFinalAck(p, m)
    \/ ReadRst(p, m)

(* A segment no rule above accepts is dropped by the client.               *)
Unexpected(p, m) == LET c == client[p] IN
    /\ ~(/\ c.state = "syn_sent" /\ m.ack = c.snd_nxt
         /\ (m.flags = {"SYN", "ACK"} /\ Requests[p] # {}) \/ "RST" \in m.flags)
    /\ ~(/\ c.state = "established" /\ m.payload = "response"
         /\ m.seq = c.rcv_nxt /\ m.ack = c.snd_nxt)
    /\ ~(c.state \in {"closing", "finished"} /\ m.payload = "response")
    /\ ~(/\ c.state = "closing" /\ m.flags = {"ACK"}
         /\ m.seq = c.rcv_nxt /\ m.ack = c.snd_nxt)
    /\ ~(/\ c.state \in {"established", "closing"} /\ "RST" \in m.flags
         /\ m.seq = c.rcv_nxt)

ClientReceive(p) ==
    \E m \in to_client :
        /\ Running /\ m.peer = p
        /\ to_client' = to_client \ {m}
        /\ \/ ClientReads(p, m)
           \/ Unexpected(p, m) /\ UNCHANGED <<client, to_server, asked>>
        /\ UNCHANGED <<clientOnly, faults, clean>>

Lose ==
    /\ Running /\ Fault
    /\ \/ \E m \in to_server : to_server' = to_server \ {m} /\ UNCHANGED to_client
       \/ \E m \in to_client : to_client' = to_client \ {m} /\ UNCHANGED to_server
    /\ UNCHANGED <<clientOnly, client, asked>>

----------------------------------------------------------------------------
Next ==
    \/ Tick
    \/ BeginPoll
    \/ EndPoll
    \/ ReceiveFails
    \/ \E p \in Peers : HandleFrom(p)
    \/ \E p \in Peers : Connect(p)
    \/ \E p \in Peers : Retransmit(p)
    \/ \E p \in Peers : GiveUp(p)
    \/ \E p \in Peers : ClientReceive(p)
    \/ Lose

Spec == Init /\ [][Next]_vars

(* The kernel's main loop polls for ever, a poll ends, and the PIT keeps   *)
(* ticking; nothing is assumed of the clients and the network.             *)
Fairness == WF_vars(Tick) /\ WF_vars(BeginPoll) /\ WF_vars(EndPoll)

FairSpec == Spec /\ Fairness

----------------------------------------------------------------------------
(* Properties.                                                             *)

(* Every variable of the listener, the network and the clients has its     *)
(* type; a table entry is Free or a TcpServerConnection.                   *)
TypeOK ==
    /\ connections \in [Slots -> TcpServerConnection \cup {Free}]
    /\ served_connections \in Nat /\ closed_connections \in Nat
    /\ mode \in {"idle", "polling", "halted"}
    /\ budget \in 0 .. PollFrames /\ lag \in 0 .. IdleTimeout
    /\ to_server \subseteq Segments /\ to_client \subseteq Segments
    /\ faults \in 0 .. MaxFaults /\ clean \in BOOLEAN
    /\ asked \subseteq Segments
    /\ client \in [Peers -> [state : ClientStates, snd_nxt : Sequence,
                             rcv_nxt : Sequence, fin : BOOLEAN,
                             payload : {"none", "request", "other"}]]

(* The table never holds two entries of one peer, whatever SYNs are        *)
(* repeated and whichever slots were freed in between: connection_index()  *)
(* always finds the entry there is.                                        *)
OneEntryPerPeer ==
    \A i, j \in Slots :
        connections[i] # Free /\ connections[i].peer = connections[j].peer => i = j

(* A segment of one peer never changes, frees or replaces the entry of     *)
(* another, and draws no reply to another: peer-isolated state, refusal    *)
(* without eviction.                                                       *)
PeersIsolated ==
    [][\A p \in Peers : HandleFrom(p) =>
         /\ \A i \in Slots : connections[i].peer \in Peers \ {p} =>
                                 connections'[i] = connections[i]
         /\ \A m \in to_client' \ to_client : m.peer = p]_vars

(* Every response on the wire, the first or a repetition, starts at the    *)
(* number the client expected and acknowledges exactly one request the     *)
(* client really sent, its FIN included.                                   *)
ResponseIsAsked ==
    \A m \in to_client : m.payload = "response" =>
        \E r \in asked :
            /\ r.peer = m.peer /\ r.payload = "request"
            /\ m.seq = r.ack
            /\ m.ack = wrapping_add(r.seq, Length(r.payload) + Count(r, "FIN"))

(* What makes ResponseIsAsked inductive: a request on its way, and the one *)
(* an established client would send again, is one the client has sent.     *)
AskedInv ==
    /\ \A m \in to_server : m.payload = "request" => m \in asked
    /\ \A p \in Peers : client[p].state = "established" => Outstanding(p) \subseteq asked

(* As long as nothing is lost, repeated, expired or abandoned, whatever    *)
(* the order of delivery: no client is reset, and a client is refused only *)
(* when more clients than the table has entries have connected.            *)
RefusedOnlyWhenFull ==
    clean => \A p \in Peers :
        /\ client[p].state # "reset"
        /\ client[p].state = "refused" =>
              Cardinality({q \in Peers : client[q].state # "closed"}) > Capacity

(* In such a run the totals the smoke test waits for are reached: when     *)
(* every client that sent a request has finished, each was served exactly  *)
(* once, each that closed with a FIN of its own was closed exactly once,   *)
(* and none of the latter has an entry left.                               *)
ReportedTotals ==
    LET Asking == {p \in Peers : client[p].payload # "none"}
        Closing == {p \in Asking : ~client[p].fin}
    IN  clean /\ (\A p \in Asking : client[p].state = "finished") =>
            /\ served_connections = Cardinality(Asking)
            /\ closed_connections = Cardinality(Closing)
            /\ \A p \in Closing : connection_index(p) = {}

(* A segment of p that sets last_activity_tick of its entry anew: a SYN,   *)
(* an acknowledgement in order, the request again.                         *)
Refreshes(p) ==
    \E m \in to_server, i \in Slots :
        /\ m.peer = p /\ Take(m)
        /\ accept_syn(m) \/ ControlAck(m, i) \/ retransmit_response(m, i)

(* An entry does not stay for ever: it is closed, reset or expired, unless *)
(* segments that refresh it keep coming for ever or the kernel halts.      *)
(* Segments the listener ignores, however many, do not keep it.            *)
EntriesReleased ==
    \A p \in Peers :
        \/ []<>(connection_index(p) = {} \/ mode = "halted")
        \/ []<><<Refreshes(p)>>_vars

(* A run in which nothing is lost, repeated, expired or abandoned ends as   *)
(* the listener smoke test expects, whatever the order of delivery: nobody  *)
(* is reset or refused for nothing, and the totals are those of the clients *)
(* (network.rs:595-787).                                                    *)
CleanRunsServed == RefusedOnlyWhenFull /\ ReportedTotals
=============================================================================
