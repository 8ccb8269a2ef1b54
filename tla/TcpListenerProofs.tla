------------------------- MODULE TcpListenerProofs -------------------------
(* Theorems about the listener's table for every capacity, set of peers,   *)
(* timeout, sequence space and number of faults.                           *)
EXTENDS TcpListener, WellFoundedInduction, TLAPS

USE DEF Running, Fault

----------------------------------------------------------------------------
(* Operators of the model.                                                 *)

(* Sequence arithmetic stays within the sequence space.                    *)
LEMMA WrapType ==
    ASSUME NEW a \in Int, NEW b \in Int
    PROVE  wrapping_add(a, b) \in Sequence /\ wrapping_sub(a, b) \in Sequence
<1>1. SeqMod \in Nat /\ SeqMod > 0
  BY SequenceAssumption
<1>2. ASSUME NEW x \in Int PROVE x % SeqMod \in 0 .. SeqMod - 1
  BY <1>1
<1> QED
  BY <1>2 DEF wrapping_add, wrapping_sub, Sequence

(* A sequence number is an integer, the lengths and flag counts too.       *)
LEMMA LengthType ==
    /\ Sequence \subseteq Int
    /\ \A payload : Length(payload) \in Nat
    /\ \A m, flag : Count(m, flag) \in Nat
    /\ \A m : Span(m) \in Nat
<1>1. Sequence \subseteq Int
  BY SequenceAssumption DEF Sequence
<1>2. \A payload : Length(payload) \in Nat
  BY SequenceAssumption DEF Length
<1>3. \A m, flag : Count(m, flag) \in Nat
  BY DEF Count
<1> QED
  BY <1>1, <1>2, <1>3 DEF Span

(* position() on a nonempty set of slots returns one of them.              *)
LEMMA FirstIn ==
    ASSUME NEW S \in SUBSET Slots, S # {}
    PROVE  First(S) \in S
<1>1. S \subseteq Nat
  BY CapacityAssumption DEF Slots
<1>2. \E x \in S : \A y \in S : ~(<<y, x>> \in OpToRel(<, Nat))
  BY <1>1, NatLessThanWellFounded, WFMin, Zenon
<1>3. PICK x \in S : \A y \in S : ~(<<y, x>> \in OpToRel(<, Nat))
  BY <1>2, Zenon
<1>4. ASSUME NEW y \in S PROVE x <= y
  <2>1. <<y, x>> \in Nat \X Nat /\ ~(<<y, x>> \in OpToRel(<, Nat))
    BY <1>1, <1>3, Zenon
  <2>2. ~(y < x)
    BY <2>1 DEF OpToRel
  <2> QED
    BY <1>1, <2>2
<1> QED
  BY <1>4 DEF First

(* A segment built from parts of the right type is a segment.              *)
LEMMA SegmentType ==
    ASSUME NEW p \in Peers, NEW flags \in SUBSET {"SYN", "ACK", "FIN", "RST"},
           NEW seq \in Sequence, NEW ack \in Sequence,
           NEW payload \in {"none", "request", "other", "response"}
    PROVE  Segment(p, flags, seq, ack, payload) \in Segments
BY DEF Segment, Segments

(* The reply reset() builds is a segment to the sender.                    *)
LEMMA ResetType ==
    ASSUME NEW m \in Segments
    PROVE  reset(m) \in Segments /\ reset(m).peer = m.peer
<1>1. /\ m.peer \in Peers /\ m.seq \in Int
      /\ ServerSequence[m.peer] \in Sequence
  BY SequenceAssumption, LengthType DEF Segments, Sequence
<1>2. PICK n \in Int : n = Length(m.payload) + Count(m, "SYN") + Count(m, "FIN")
  BY LengthType
<1>3. wrapping_add(m.seq, n) \in Sequence
  BY <1>1, WrapType
<1>4. reset(m) = Segment(m.peer, {"RST", "ACK"}, ServerSequence[m.peer],
                         wrapping_add(m.seq, n), "none")
  BY <1>2 DEF reset
<1>5. reset(m).peer = m.peer
  BY <1>4 DEF Segment
<1> QED
  BY <1>1, <1>3, <1>4, <1>5, SegmentType

----------------------------------------------------------------------------
(* Type correctness.                                                       *)

(* The part of the type invariant a handler can disturb, and the rest.     *)
TableType ==
    /\ connections \in [Slots -> TcpServerConnection \cup {Free}]
    /\ served_connections \in Nat /\ closed_connections \in Nat
    /\ mode \in {"idle", "polling", "halted"}
    /\ to_client \subseteq Segments

ClientRecord ==
    [state : ClientStates, snd_nxt : Sequence, rcv_nxt : Sequence,
     fin : BOOLEAN, payload : {"none", "request", "other"}]

ClientType == [Peers -> ClientRecord]

RestType ==
    /\ budget \in 0 .. PollFrames /\ lag \in 0 .. IdleTimeout
    /\ to_server \subseteq Segments
    /\ faults \in 0 .. MaxFaults /\ clean \in BOOLEAN
    /\ asked \subseteq Segments
    /\ client \in ClientType

(* The two halves make up TypeOK.                                          *)
LEMMA TypeSplit == TypeOK <=> TableType /\ RestType
BY Zenon DEF TypeOK, TableType, RestType, ClientType, ClientRecord

(* A frame taken off the receive queue leaves the rest well typed.         *)
LEMMA TakeType ==
    ASSUME RestType, NEW m \in to_server, Take(m)
    PROVE  RestType'
<1>1. budget' \in 0 .. PollFrames
  BY BoundsAssumption DEF RestType, Take
<1>2. to_server' \subseteq Segments /\ clean' \in BOOLEAN
  BY DEF RestType, Take
<1>3. faults' \in 0 .. MaxFaults
  BY BoundsAssumption DEF RestType, Take
<1>4. lag' = lag /\ client' = client /\ asked' = asked
  BY DEF Take
<1> QED
  BY <1>1, <1>2, <1>3, <1>4 DEF RestType

(* A transmission leaves segments in flight and the mode one of the three. *)
LEMMA TransmitType ==
    ASSUME TableType, NEW s \in Segments, Transmit(s)
    PROVE  to_client' \subseteq Segments /\ mode' \in {"idle", "polling", "halted"}
BY DEF TableType, Transmit

(* The slot and the entry of a segment whose peer is known.                *)
LEMMA KnownEntry ==
    ASSUME TableType, NEW m \in Segments, NEW i \in Slots, Known(m, i)
    PROVE  /\ connections[i].peer = m.peer
           /\ connections[i] \in TcpServerConnection
<1>1. connection_index(m.peer) \in SUBSET Slots
  BY DEF connection_index
<1>2. i \in connection_index(m.peer)
  BY <1>1, FirstIn DEF Known
<1>3. connections[i].peer = m.peer
  BY <1>2 DEF connection_index
<1>4. m.peer \in Peers /\ Free.peer = NoPeer
  BY DEF Segments, Free
<1>5. connections[i] # Free
  BY <1>3, <1>4, NoPeerAssumption
<1> QED
  BY <1>3, <1>5 DEF TableType

(* Every way through handle_frame_at() keeps the table well typed.         *)
LEMMA HandlerType ==
    ASSUME TableType, RestType, NEW m \in to_server, handle_frame_at(m)
    PROVE  TableType'
<1>1. /\ m \in Segments /\ m.peer \in Peers /\ m.seq \in Sequence
      /\ lag \in 0 .. IdleTimeout
  BY DEF RestType, Segments
<1>2. ServerSequence[m.peer] \in Sequence
  BY <1>1, SequenceAssumption DEF Sequence
<1>3. ASSUME NEW s \in Sequence, NEW n \in Nat
      PROVE  wrapping_add(s, n) \in Sequence /\ wrapping_sub(s, n) \in Sequence
  BY WrapType, LengthType
<1>4. ASSUME NEW seq \in Sequence, NEW ack \in Sequence,
             NEW flags \in SUBSET {"SYN", "ACK", "FIN", "RST"},
             NEW payload \in {"none", "response"},
             Transmit(Segment(m.peer, flags, seq, ack, payload))
      PROVE  to_client' \subseteq Segments /\ mode' \in {"idle", "polling", "halted"}
  BY <1>1, <1>4, SegmentType, TransmitType
<1>5. NoReply => to_client' \subseteq Segments /\ mode' \in {"idle", "polling", "halted"}
  BY DEF NoReply, TableType
<1>6. ResponseLength + 1 \in Nat /\ Span(m) \in Nat
  BY SequenceAssumption, LengthType
<1>7. CASE ReceiveRst(m)
  <2>1. connections' \in [Slots -> TcpServerConnection \cup {Free}]
    BY <1>7 DEF ReceiveRst, TableType
  <2> QED
    BY <1>5, <1>7, <2>1 DEF ReceiveRst, TableType
<1>8. CASE accept_syn(m)
  <2>1. wrapping_add(m.seq, 1) \in Sequence /\ wrapping_add(ServerSequence[m.peer], 1) \in Sequence
    BY <1>1, <1>2, <1>3
  <2>2. PICK entry : entry = [peer |-> m.peer, remote_next |-> wrapping_add(m.seq, 1),
                     local_next |-> wrapping_add(ServerSequence[m.peer], 1),
                     phase |-> "Established", idle |-> lag]
    OBVIOUS
  <2>3. entry \in TcpServerConnection
    BY <1>1, <2>1, <2>2 DEF TcpServerConnection, Phases
  <2>4. connections' = [connections EXCEPT ![First(SynSlots(m))] = entry]
    BY <1>8, <2>2 DEF accept_syn
  <2>5. connections' \in [Slots -> TcpServerConnection \cup {Free}]
    BY <2>3, <2>4 DEF TableType
  <2>6. Transmit(Segment(m.peer, {"SYN", "ACK"}, ServerSequence[m.peer],
                         wrapping_add(m.seq, 1), "none"))
    BY <1>8 DEF accept_syn
  <2>7. to_client' \subseteq Segments /\ mode' \in {"idle", "polling", "halted"}
    BY <1>2, <1>4, <2>1, <2>6
  <2> QED
    BY <1>8, <2>5, <2>7 DEF accept_syn, TableType
<1>9. CASE Refuse(m)
  <2>1. to_client' \subseteq Segments /\ mode' \in {"idle", "polling", "halted"}
    BY <1>1, <1>9, ResetType, TransmitType DEF Refuse
  <2> QED
    BY <1>9, <2>1 DEF Refuse, TableType, server
<1>10. ASSUME NEW i \in Slots, Known(m, i)
       PROVE  /\ connections[i] \in TcpServerConnection
              /\ connections[i].local_next \in Sequence
              /\ connections[i].remote_next \in Sequence
  BY <1>1, <1>10, KnownEntry DEF TcpServerConnection
<1>11. ASSUME NEW i \in Slots, ControlFin(m, i) PROVE TableType'
  <2>1. connections' \in [Slots -> TcpServerConnection \cup {Free}]
    BY <1>11 DEF ControlFin, TableType
  <2>2. /\ connections[i].local_next \in Sequence
        /\ wrapping_add(connections[i].remote_next, 1) \in Sequence
    BY <1>3, <1>10, <1>11 DEF ControlFin
  <2>3. to_client' \subseteq Segments /\ mode' \in {"idle", "polling", "halted"}
    BY <1>4, <1>11, <2>2 DEF ControlFin
  <2>4. closed_connections' \in Nat /\ served_connections' \in Nat
    BY <1>11 DEF ControlFin, TableType
  <2> QED
    BY <2>1, <2>3, <2>4 DEF TableType
<1>12. ASSUME NEW i \in Slots, ControlAck(m, i) PROVE TableType'
  <2>1. Known(m, i)
    BY <1>12 DEF ControlAck
  <2>2. PICK entry : entry = [connections[i] EXCEPT
            !.phase = IF @ = "FinWait1" THEN "FinWait2" ELSE @, !.idle = lag]
    OBVIOUS
  <2>3. entry \in TcpServerConnection
    BY <1>1, <1>10, <2>1, <2>2 DEF TcpServerConnection, Phases
  <2>4. connections' = [connections EXCEPT ![i] = entry]
    BY <1>10, <1>12, <2>1, <2>2 DEF ControlAck, TcpServerConnection, TableType
  <2>5. connections' \in [Slots -> TcpServerConnection \cup {Free}]
    BY <2>3, <2>4 DEF TableType
  <2> QED
    BY <1>5, <1>12, <2>5 DEF ControlAck, TableType
<1>13. ASSUME NEW i \in Slots, retransmit_response(m, i) PROVE TableType'
  <2>1. Known(m, i)
    BY <1>13 DEF retransmit_response
  <2>2. connections' \in [Slots -> TcpServerConnection \cup {Free}]
    BY <1>1, <1>10, <1>13, <2>1 DEF retransmit_response, TcpServerConnection, TableType
  <2>3. wrapping_sub(connections[i].local_next, ResponseLength + 1) \in Sequence
    BY <1>3, <1>6, <1>10, <2>1
  <2>4. to_client' \subseteq Segments /\ mode' \in {"idle", "polling", "halted"}
    BY <1>4, <1>10, <1>13, <2>1, <2>3 DEF retransmit_response
  <2> QED
    BY <1>13, <2>2, <2>4 DEF retransmit_response, TableType
<1>14. ASSUME NEW i \in Slots, RejectRequest(m, i) PROVE TableType'
  <2>1. connections' \in [Slots -> TcpServerConnection \cup {Free}]
    BY <1>14 DEF RejectRequest, TableType
  <2>2. to_client' \subseteq Segments /\ mode' \in {"idle", "polling", "halted"}
    BY <1>1, <1>14, ResetType, TransmitType DEF RejectRequest
  <2> QED
    BY <1>14, <2>1, <2>2 DEF RejectRequest, TableType
<1>15. ASSUME NEW i \in Slots, ServeRequest(m, i) PROVE TableType'
  <2>1. Known(m, i)
    BY <1>15 DEF ServeRequest
  <2>2. /\ wrapping_add(connections[i].remote_next, Span(m)) \in Sequence
        /\ wrapping_add(connections[i].local_next, ResponseLength + 1) \in Sequence
    BY <1>3, <1>6, <1>10, <2>1
  <2>3. PICK entry : entry = [connections[i] EXCEPT
            !.remote_next = wrapping_add(@, Span(m)),
            !.local_next = wrapping_add(@, ResponseLength + 1),
            !.phase = "FinWait1", !.idle = lag]
    OBVIOUS
  <2>4. entry \in TcpServerConnection
    BY <1>1, <1>10, <2>1, <2>2, <2>3 DEF TcpServerConnection, Phases
  <2>5. connections' = [connections EXCEPT ![i] = entry]
    BY <1>15, <2>3 DEF ServeRequest
  <2>6. connections' \in [Slots -> TcpServerConnection \cup {Free}]
    BY <2>4, <2>5 DEF TableType
  <2>7. to_client' \subseteq Segments /\ mode' \in {"idle", "polling", "halted"}
    BY <1>4, <1>10, <1>15, <2>1, <2>2 DEF ServeRequest
  <2>8. served_connections' \in Nat /\ closed_connections' \in Nat
    BY <1>15 DEF ServeRequest, TableType
  <2> QED
    BY <2>6, <2>7, <2>8 DEF TableType
<1>16. ASSUME NEW i \in Slots, IgnoreSegment(m, i) PROVE TableType'
  BY <1>5, <1>16 DEF IgnoreSegment, TableType, server
<1> QED
  BY <1>7, <1>8, <1>9, <1>11, <1>12, <1>13, <1>14, <1>15, <1>16, Zenon DEF handle_frame_at

(* What a client has outstanding, before and after a step, are segments.   *)
LEMMA OutstandingType ==
    ASSUME NEW p \in Peers
    PROVE  /\ client \in ClientType => Outstanding(p) \subseteq Segments
           /\ client' \in ClientType => Outstanding(p)' \subseteq Segments
<1>1. ASSUME NEW k \in ClientType
      PROVE  LET c == k[p] IN
             /\ Segment(p, {"SYN"}, ClientSequence[p], 0, "none") \in Segments
             /\ Segment(p, {"ACK"} \cup (IF c.fin THEN {"FIN"} ELSE {}),
                        wrapping_add(ClientSequence[p], 1), c.rcv_nxt, c.payload) \in Segments
             /\ Segment(p, {"ACK", "FIN"}, wrapping_sub(c.snd_nxt, 1), c.rcv_nxt, "none")
                    \in Segments
  <2>1. /\ k[p].snd_nxt \in Sequence /\ k[p].rcv_nxt \in Sequence
        /\ k[p].payload \in {"none", "request", "other"}
        /\ ClientSequence[p] \in Sequence /\ 0 \in Sequence
    BY SequenceAssumption DEF ClientType, ClientRecord, Sequence
  <2>2. /\ wrapping_add(ClientSequence[p], 1) \in Sequence
        /\ wrapping_sub(k[p].snd_nxt, 1) \in Sequence
    <3>1. ClientSequence[p] \in Int /\ k[p].snd_nxt \in Int
      BY <2>1, LengthType
    <3> QED
      BY <3>1, WrapType
  <2>3. PICK flags : flags = {"ACK"} \cup (IF k[p].fin THEN {"FIN"} ELSE {})
    OBVIOUS
  <2>4. flags \in SUBSET {"SYN", "ACK", "FIN", "RST"}
    BY <2>3
  <2>5. Segment(p, {"SYN"}, ClientSequence[p], 0, "none") \in Segments
    BY <2>1, SegmentType
  <2>6. Segment(p, flags, wrapping_add(ClientSequence[p], 1), k[p].rcv_nxt, k[p].payload)
            \in Segments
    BY <2>1, <2>2, <2>4, SegmentType
  <2>7. Segment(p, {"ACK", "FIN"}, wrapping_sub(k[p].snd_nxt, 1), k[p].rcv_nxt, "none")
            \in Segments
    BY <2>1, <2>2, SegmentType
  <2> QED
    BY <2>3, <2>5, <2>6, <2>7
<1>2. client \in ClientType => Outstanding(p) \subseteq Segments
  BY <1>1 DEF Outstanding
<1>3. client' \in ClientType => Outstanding(p)' \subseteq Segments
  BY <1>1 DEF Outstanding
<1> QED
  BY <1>2, <1>3

Advanced(c, state, snd, rcv) ==
    [c EXCEPT !.rcv_nxt = rcv, !.state = state, !.snd_nxt = snd]

(* A client that advances is still a client.                               *)
LEMMA ClientAdvance ==
    ASSUME NEW c \in ClientRecord, NEW state \in ClientStates,
           NEW snd \in Sequence, NEW rcv \in Sequence
    PROVE  /\ Advanced(c, state, snd, rcv) \in ClientRecord
           /\ Advanced(c, state, snd, rcv).rcv_nxt = rcv
<1>1. Advanced(c, state, snd, rcv) \in ClientRecord
  BY DEF ClientRecord, Advanced
<1>2. Advanced(c, state, snd, rcv).rcv_nxt = rcv
  BY DEF ClientRecord, Advanced
<1> QED
  BY <1>1, <1>2

(* A client whose state, or state and next number, is replaced is still a  *)
(* client.                                                                 *)
LEMMA ClientUpdate ==
    ASSUME NEW c \in ClientRecord, NEW state \in ClientStates, NEW snd \in Sequence
    PROVE  /\ [c EXCEPT !.state = state, !.snd_nxt = snd] \in ClientRecord
           /\ [c EXCEPT !.state = state] \in ClientRecord
<1>1. [c EXCEPT !.state = state, !.snd_nxt = snd] \in ClientRecord
  BY DEF ClientRecord
<1>2. [c EXCEPT !.state = state] \in ClientRecord
  BY DEF ClientRecord
<1> QED
  BY <1>1, <1>2

(* What a client does on receiving a segment keeps it well typed.          *)
LEMMA ClientReadsType ==
    ASSUME RestType, NEW p \in Peers, NEW m \in Segments, ClientReads(p, m)
    PROVE  client' \in ClientType /\ to_server' \subseteq Segments /\ asked' \subseteq Segments
<1>1. /\ client \in ClientType /\ to_server \subseteq Segments /\ asked \subseteq Segments
      /\ client[p].snd_nxt \in Sequence /\ client[p].rcv_nxt \in Sequence
      /\ m.seq \in Sequence
  BY DEF RestType, ClientType, ClientRecord, Segments
<1>2. ASSUME NEW s \in Sequence, NEW n \in Nat
      PROVE  wrapping_add(s, n) \in Sequence
  BY WrapType, LengthType
<1>3. ASSUME NEW seq \in Sequence, NEW ack \in Sequence
      PROVE  Segment(p, {"ACK"}, seq, ack, "none") \in Segments
  BY SegmentType
<1>4. CASE ReadSynAck(p, m)
  <2>1. PICK r \in Requests[p] :
          client' = [client EXCEPT ![p] =
            [state |-> "established", payload |-> r.payload, fin |-> r.fin,
             snd_nxt |-> wrapping_add(client[p].snd_nxt, Length(r.payload) + IF r.fin THEN 1 ELSE 0),
             rcv_nxt |-> wrapping_add(m.seq, 1)]]
    BY <1>4 DEF ReadSynAck
  <2>2. PICK n \in Nat : n = Length(r.payload) + IF r.fin THEN 1 ELSE 0
    BY LengthType
  <2>3. wrapping_add(client[p].snd_nxt, n) \in Sequence /\ wrapping_add(m.seq, 1) \in Sequence
    BY <1>1, <1>2
  <2>4. r.payload \in {"none", "request", "other"} /\ r.fin \in BOOLEAN
    BY BoundsAssumption
  <2>5. client' \in ClientType
    BY <1>1, <2>1, <2>2, <2>3, <2>4 DEF ClientType, ClientRecord, ClientStates
  <2> QED
    BY <1>1, <1>3, <1>4, <2>3, <2>5, OutstandingType DEF ReadSynAck
<1>5. CASE ReadResponse(p, m)
  <2>1. PICK rcv \in Sequence : rcv = wrapping_add(client[p].rcv_nxt, ResponseLength + 1)
    BY <1>1, <1>2, SequenceAssumption
  <2>2. PICK snd \in Sequence : snd = wrapping_add(client[p].snd_nxt, IF client[p].fin THEN 0 ELSE 1)
    BY <1>1, <1>2
  <2>3. PICK state \in ClientStates : state = IF client[p].fin THEN "finished" ELSE "closing"
    BY DEF ClientStates
  <2>4. client' = [client EXCEPT ![p].rcv_nxt = rcv, ![p].state = state, ![p].snd_nxt = snd]
    BY <1>1, <1>5, <2>1, <2>2, <2>3 DEF ReadResponse, ClientType, ClientRecord
  <2>5. client' \in ClientType /\ client'[p].rcv_nxt = rcv
    <3>1. PICK c : c = Advanced(client[p], state, snd, rcv)
      OBVIOUS
    <3>2. c \in ClientRecord /\ c.rcv_nxt = rcv
      <4>1. client[p] \in ClientRecord
        BY <1>1 DEF ClientType
      <4> QED
        BY <3>1, <4>1, ClientAdvance
    <3>3. client' = [client EXCEPT ![p] = c]
      BY <1>1, <2>4, <3>1 DEF ClientType, Advanced
    <3> QED
      BY <1>1, <3>2, <3>3 DEF ClientType
  <2> QED
    BY <1>1, <1>3, <1>5, <2>5, OutstandingType DEF ReadResponse
<1>6. CASE RereadResponse(p, m)
  BY <1>1, <1>3, <1>6 DEF RereadResponse, PlainAck
<1>7. ASSUME NEW state \in ClientStates, client' = [client EXCEPT ![p].state = state]
      PROVE  client' \in ClientType
  <2>1. PICK c : c = [client[p] EXCEPT !.state = state]
    OBVIOUS
  <2>2. c \in ClientRecord
    <3>1. client[p] \in ClientRecord
      BY <1>1 DEF ClientType
    <3> QED
      BY <1>1, <2>1, <3>1, ClientUpdate, Zenon
  <2>3. client' = [client EXCEPT ![p] = c]
    BY <1>7, <2>1
  <2> QED
    BY <1>1, <2>2, <2>3 DEF ClientType
<1>8. CASE ReadFinalAck(p, m) \/ ReadRst(p, m)
  BY <1>1, <1>7, <1>8 DEF ReadFinalAck, ReadRst, ClientStates
<1> QED
  BY <1>4, <1>5, <1>6, <1>7, <1>8, Zenon DEF ClientReads

(* Type correctness is inductive: the initial table is free, and every     *)
(* action of the listener, the clients and the network preserves it.       *)
LEMMA TypeInductive ==
    /\ Init => TypeOK
    /\ TypeOK /\ [Next]_vars => TypeOK'
<1>1. ASSUME Init PROVE TypeOK
  <2>1. 0 \in Sequence /\ 0 \in 0 .. PollFrames /\ 0 \in 0 .. IdleTimeout /\ 0 \in 0 .. MaxFaults
    BY SequenceAssumption, BoundsAssumption, TimeoutAssumption DEF Sequence
  <2>2. TableType
    BY <1>1 DEF Init, TableType
  <2>3. client \in ClientType
    BY <1>1, <2>1 DEF Init, ClientType, ClientRecord, ClientStates
  <2>4. RestType
    BY <1>1, <2>1, <2>3 DEF Init, RestType
  <2> QED
    BY <2>2, <2>4, TypeSplit
<1>2. ASSUME TypeOK, [Next]_vars PROVE TableType' /\ RestType'
  <2>1. TableType /\ RestType
    BY <1>2, TypeSplit
  <2>2. CASE UNCHANGED vars
    BY <2>1, <2>2 DEF vars, TableType, RestType
  <2>3. CASE Tick
    <3>1. ASSUME NEW n \in 0 .. IdleTimeout PROVE Aged(n) \in 0 .. IdleTimeout
      BY TimeoutAssumption DEF Aged
    <3>2. ASSUME NEW i \in Slots, connections[i] # Free
          PROVE  [connections[i] EXCEPT !.idle = Aged(@)] \in TcpServerConnection
      BY <2>1, <3>1, <3>2 DEF TableType, TcpServerConnection
    <3>3. connections' \in [Slots -> TcpServerConnection \cup {Free}]
      BY <2>3, <3>2 DEF Tick
    <3>4. lag' \in 0 .. IdleTimeout
      BY <2>1, <2>3, <3>1 DEF Tick, RestType
    <3> QED
      BY <2>1, <2>3, <3>3, <3>4 DEF Tick, TableType, RestType
  <2>4. CASE BeginPoll
    <3>1. connections' \in [Slots -> TcpServerConnection \cup {Free}]
      BY <2>1, <2>4 DEF BeginPoll, expire_idle_connections, TableType
    <3>2. budget' \in 0 .. PollFrames /\ lag' \in 0 .. IdleTimeout
      BY <2>4, BoundsAssumption, TimeoutAssumption DEF BeginPoll
    <3>3. clean' \in BOOLEAN
      BY <2>4, Zenon DEF BeginPoll
    <3> QED
      BY <2>1, <2>4, <3>1, <3>2, <3>3 DEF BeginPoll, TableType, RestType
  <2>5. CASE EndPoll
    <3>1. budget' \in 0 .. PollFrames /\ lag' \in 0 .. IdleTimeout
      BY <2>5, BoundsAssumption, TimeoutAssumption DEF EndPoll
    <3> QED
      BY <2>1, <2>5, <3>1 DEF EndPoll, TableType, RestType, server
  <2>6. ASSUME NEW p \in Peers, HandleFrom(p) PROVE TableType' /\ RestType'
    <3>1. PICK m \in to_server : handle_frame_at(m)
      BY <2>6 DEF HandleFrom
    <3>2. Take(m)
      BY <3>1 DEF handle_frame_at
    <3> QED
      BY <2>1, <3>1, <3>2, TakeType, HandlerType
  <2>7. ASSUME NEW p \in Peers, Connect(p) PROVE TableType' /\ RestType'
    <3>1. ClientSequence[p] \in Int
      BY SequenceAssumption
    <3>2. wrapping_add(ClientSequence[p], 1) \in Sequence
      BY <3>1, WrapType
    <3>3. client' \in ClientType
      <4>1. PICK snd \in Sequence : snd = wrapping_add(ClientSequence[p], 1)
        BY <3>2
      <4>2. client' = [client EXCEPT ![p].state = "syn_sent", ![p].snd_nxt = snd]
        BY <2>7, <4>1 DEF Connect
      <4>3. client \in ClientType /\ "syn_sent" \in ClientStates
        BY <2>1 DEF RestType, ClientStates
      <4>4. PICK c : c = [client[p] EXCEPT !.state = "syn_sent", !.snd_nxt = snd]
        OBVIOUS
      <4>5. c \in ClientRecord
        <5>1. client[p] \in ClientRecord
          BY <4>3 DEF ClientType
        <5> QED
          BY <4>3, <4>4, <5>1, ClientUpdate, Zenon
      <4>6. client' = [client EXCEPT ![p] = c]
        BY <4>2, <4>3, <4>4 DEF ClientType
      <4> QED
        BY <4>3, <4>5, <4>6 DEF ClientType
    <3>4. to_server' \subseteq Segments
      BY <2>1, <2>7, <3>3, OutstandingType DEF Connect, RestType
    <3> QED
      BY <2>1, <2>7, <3>3, <3>4 DEF Connect, TableType, RestType, clientOnly, server
  <2>8. Fault => faults' \in 0 .. MaxFaults /\ clean' \in BOOLEAN
    <3>1. faults \in 0 .. MaxFaults /\ MaxFaults \in Nat
      BY <2>1, BoundsAssumption DEF RestType
    <3>2. Fault => faults' \in 0 .. MaxFaults
      BY <3>1
    <3>3. Fault => clean' \in BOOLEAN
      OBVIOUS
    <3> QED
      BY <3>2, <3>3, Zenon
  <2>9. ASSUME NEW p \in Peers, Retransmit(p) PROVE TableType' /\ RestType'
    <3>1. to_server' \subseteq Segments
      BY <2>1, <2>9, OutstandingType DEF Retransmit, RestType
    <3> QED
      BY <2>1, <2>8, <2>9, <3>1 DEF Retransmit, TableType, RestType, clientOnly, server
  <2>10. ASSUME NEW p \in Peers, GiveUp(p) PROVE TableType' /\ RestType'
    <3>1. client[p].snd_nxt \in Sequence /\ 0 \in Sequence
      BY <2>1, SequenceAssumption DEF RestType, ClientType, ClientRecord, Sequence
    <3>2. Segment(p, {"RST"}, client[p].snd_nxt, 0, "none") \in Segments
      BY <3>1, SegmentType
    <3>3. to_server' \subseteq Segments
      BY <2>1, <2>10, <3>2 DEF GiveUp, RestType
    <3>4. client' \in ClientType
      <4>1. PICK c : c = [client[p] EXCEPT !.state = "gave_up"]
        OBVIOUS
      <4>2. client \in ClientType /\ "gave_up" \in ClientStates
        BY <2>1 DEF RestType, ClientStates
      <4>3. c \in ClientRecord
        <5>1. client[p] \in ClientRecord
          BY <4>2 DEF ClientType
        <5> QED
          BY <3>1, <4>1, <4>2, <5>1, ClientUpdate, Zenon
      <4>4. client' = [client EXCEPT ![p] = c]
        BY <2>10, <4>1 DEF GiveUp
      <4> QED
        BY <4>2, <4>3, <4>4 DEF ClientType
    <3> QED
      BY <2>1, <2>8, <2>10, <3>3, <3>4 DEF GiveUp, TableType, RestType, clientOnly, server
  <2>11. ASSUME NEW p \in Peers, ClientReceive(p) PROVE TableType' /\ RestType'
    <3>1. PICK m \in to_client :
             /\ to_client' = to_client \ {m}
             /\ ClientReads(p, m) \/ (Unexpected(p, m) /\ UNCHANGED <<client, to_server, asked>>)
             /\ UNCHANGED <<clientOnly, faults, clean>>
      BY <2>11 DEF ClientReceive
    <3>2. client' \in ClientType /\ to_server' \subseteq Segments /\ asked' \subseteq Segments
      <4>1. m \in Segments
        BY <2>1 DEF TableType
      <4>2. CASE ClientReads(p, m)
        BY <2>1, <4>1, <4>2, ClientReadsType
      <4>3. CASE UNCHANGED <<client, to_server, asked>>
        BY <2>1, <4>3 DEF RestType
      <4> QED
        BY <3>1, <4>2, <4>3
    <3> QED
      BY <2>1, <3>1, <3>2 DEF TableType, RestType, clientOnly, server
  <2>12. CASE Lose
    <3>1. to_server' \subseteq Segments /\ to_client' \subseteq Segments
      BY <2>1, <2>12 DEF Lose, TableType, RestType
    <3> QED
      BY <2>1, <2>8, <2>12, <3>1 DEF Lose, TableType, RestType, clientOnly, server
  <2>13. CASE ReceiveFails
    BY <2>1, <2>13 DEF ReceiveFails, TableType, RestType, server
  <2> QED
    BY <1>2, <2>2, <2>3, <2>4, <2>5, <2>6, <2>7, <2>9, <2>10, <2>11, <2>12, <2>13, Zenon DEF Next
<1>3. TypeOK' <=> TableType' /\ RestType'
  BY Zenon DEF TypeOK, TableType, RestType, ClientType, ClientRecord
<1> QED
  BY <1>1, <1>2, <1>3

(* Type correctness of the listener, its clients and the network, for      *)
(* every instance.                                                         *)
THEOREM TypeCorrect == Spec => []TypeOK
BY TypeInductive, PTL DEF Spec

----------------------------------------------------------------------------
(* The table.                                                              *)

(* Which entries a segment of peer p can change: its own, or, for a SYN of *)
(* a peer without an entry, a free one; the entry it leaves is free or p's.*)
LEMMA HandlerTouches ==
    ASSUME TableType, NEW m \in Segments, handle_frame_at(m)
    PROVE  \/ connections' = connections
           \/ \E i \in Slots : \E entry :
                /\ connections' = [connections EXCEPT ![i] = entry]
                /\ entry = Free \/ entry.peer = m.peer
                /\ \/ connections[i].peer = m.peer
                   \/ connections[i] = Free /\ connection_index(m.peer) = {}
<1>1. connections \in [Slots -> TcpServerConnection \cup {Free}]
  BY DEF TableType
<1>2. ASSUME NEW S \in SUBSET Slots, S # {} PROVE First(S) \in S
  BY <1>2, FirstIn
<1>3. connection_index(m.peer) \in SUBSET Slots /\ FreeSlots \in SUBSET Slots
  BY DEF connection_index, FreeSlots
<1>4. CASE ReceiveRst(m)
  <2>1. CASE connection_index(m.peer) = {}
    <3>1. connections' = [i \in Slots |-> connections[i]]
      BY <1>4, <2>1 DEF ReceiveRst
    <3> QED
      BY <1>1, <3>1
  <2>2. CASE connection_index(m.peer) # {}
    <3>1. PICK i \in connection_index(m.peer) : i = First(connection_index(m.peer))
      BY <1>2, <1>3, <2>2
    <3>2. i \in Slots /\ connections[i].peer = m.peer
      BY <3>1 DEF connection_index
    <3>3. connections' = [j \in Slots |-> IF j = i THEN Free ELSE connections[j]]
      BY <1>4, <2>2, <3>1 DEF ReceiveRst
    <3>4. connections' = [connections EXCEPT ![i] = Free]
      BY <1>1, <3>2, <3>3
    <3> QED
      BY <3>2, <3>4
  <2> QED
    BY <2>1, <2>2
<1>5. CASE accept_syn(m)
  <2>1. PICK i : i = First(SynSlots(m))
    OBVIOUS
  <2>2. i \in SynSlots(m)
    BY <1>2, <1>3, <1>5, <2>1 DEF accept_syn, SynSlots
  <2>3. /\ i \in Slots
        /\ \/ connections[i].peer = m.peer
           \/ connections[i] = Free /\ connection_index(m.peer) = {}
    BY <2>2 DEF SynSlots, connection_index, FreeSlots
  <2>4. PICK entry : entry = [peer |-> m.peer, remote_next |-> wrapping_add(m.seq, 1),
                     local_next |-> wrapping_add(ServerSequence[m.peer], 1),
                     phase |-> "Established", idle |-> lag]
    OBVIOUS
  <2>5. connections' = [connections EXCEPT ![i] = entry] /\ entry.peer = m.peer
    BY <1>5, <2>1, <2>4 DEF accept_syn
  <2> QED
    BY <2>3, <2>5
<1>6. CASE Refuse(m)
  BY <1>6 DEF Refuse, server
<1>7. ASSUME NEW i \in Slots, Known(m, i)
      PROVE  connections[i].peer = m.peer /\ connections[i] \in TcpServerConnection
  BY <1>7, KnownEntry
<1>8. ASSUME NEW i \in Slots, ControlFin(m, i) \/ RejectRequest(m, i)
      PROVE  connections' = [connections EXCEPT ![i] = Free] /\ connections[i].peer = m.peer
  BY <1>7, <1>8 DEF ControlFin, RejectRequest
<1>9. ASSUME NEW i \in Slots, ControlAck(m, i)
      PROVE  \E entry : /\ connections' = [connections EXCEPT ![i] = entry]
                        /\ entry.peer = m.peer /\ connections[i].peer = m.peer
  <2>1. Known(m, i)
    BY <1>9 DEF ControlAck
  <2>2. PICK entry : entry = [connections[i] EXCEPT
            !.phase = IF @ = "FinWait1" THEN "FinWait2" ELSE @, !.idle = lag]
    OBVIOUS
  <2>3. connections' = [connections EXCEPT ![i] = entry]
    BY <1>1, <1>7, <1>9, <2>1, <2>2 DEF ControlAck, TcpServerConnection
  <2>4. entry.peer = connections[i].peer
    BY <1>7, <2>1, <2>2 DEF TcpServerConnection
  <2> QED
    BY <1>7, <2>1, <2>3, <2>4
<1>10. ASSUME NEW i \in Slots, retransmit_response(m, i)
       PROVE  \E entry : /\ connections' = [connections EXCEPT ![i] = entry]
                         /\ entry.peer = m.peer /\ connections[i].peer = m.peer
  <2>1. Known(m, i)
    BY <1>10 DEF retransmit_response
  <2>2. PICK entry : entry = [connections[i] EXCEPT !.idle = lag]
    OBVIOUS
  <2>3. connections' = [connections EXCEPT ![i] = entry]
    BY <1>1, <1>10, <2>2 DEF retransmit_response
  <2>4. entry.peer = connections[i].peer
    BY <1>7, <2>1, <2>2 DEF TcpServerConnection
  <2> QED
    BY <1>7, <2>1, <2>3, <2>4
<1>11. ASSUME NEW i \in Slots, ServeRequest(m, i)
       PROVE  \E entry : /\ connections' = [connections EXCEPT ![i] = entry]
                         /\ entry.peer = m.peer /\ connections[i].peer = m.peer
  <2>1. Known(m, i)
    BY <1>11 DEF ServeRequest
  <2>2. PICK entry : entry = [connections[i] EXCEPT
            !.remote_next = wrapping_add(@, Span(m)),
            !.local_next = wrapping_add(@, ResponseLength + 1),
            !.phase = "FinWait1", !.idle = lag]
    OBVIOUS
  <2>3. connections' = [connections EXCEPT ![i] = entry]
    BY <1>11, <2>2 DEF ServeRequest
  <2>4. entry.peer = connections[i].peer
    BY <1>7, <2>1, <2>2 DEF TcpServerConnection
  <2> QED
    BY <1>7, <2>1, <2>3, <2>4
<1>12. ASSUME NEW i \in Slots, IgnoreSegment(m, i) PROVE connections' = connections
  BY <1>12 DEF IgnoreSegment, server
<1> QED
  BY <1>4, <1>5, <1>6, <1>8, <1>9, <1>10, <1>11, <1>12, Zenon DEF handle_frame_at

(* One entry per peer is inductive relative to the types: a step of the    *)
(* clock or of expiry keeps or frees entries where they are, and a segment *)
(* takes a free slot only when its peer has no entry.                      *)
LEMMA OneEntryStep ==
    ASSUME TypeOK, OneEntryPerPeer, [Next]_vars
    PROVE  OneEntryPerPeer'
<1>1. TableType /\ RestType
  BY TypeSplit
<1>2. /\ connections \in [Slots -> TcpServerConnection \cup {Free}]
      /\ \A i \in Slots : connections[i] # Free => connections[i].peer \in Peers
      /\ Free.peer = NoPeer
  BY <1>1 DEF TableType, TcpServerConnection, Free
<1>3. ASSUME \A i \in Slots : \/ connections'[i] = Free
                              \/ /\ connections[i] # Free
                                 /\ connections'[i].peer = connections[i].peer
      PROVE  OneEntryPerPeer'
  <2>1. SUFFICES ASSUME NEW i \in Slots, NEW j \in Slots, connections'[i] # Free,
                        connections'[i].peer = connections'[j].peer
                 PROVE  i = j
    BY Zenon DEF OneEntryPerPeer
  <2>2. connections[i] # Free /\ connections'[i].peer = connections[i].peer
    BY <1>3, <2>1
  <2>3. connections'[j] # Free
    BY <1>2, <2>1, <2>2, NoPeerAssumption
  <2> QED
    BY <1>3, <2>1, <2>2, <2>3 DEF OneEntryPerPeer
<1>4. CASE connections' = connections
  BY <1>4 DEF OneEntryPerPeer
<1>5. CASE Tick
  <2>1. ASSUME NEW i \in Slots, connections[i] # Free
        PROVE  connections'[i].peer = connections[i].peer
    BY <1>2, <1>5, <2>1 DEF Tick, TcpServerConnection
  <2>2. ASSUME NEW i \in Slots, connections[i] = Free PROVE connections'[i] = Free
    BY <1>5, <2>2 DEF Tick
  <2> QED
    BY <1>3, <2>1, <2>2
<1>6. CASE BeginPoll
  BY <1>3, <1>6 DEF BeginPoll, expire_idle_connections
<1>7. ASSUME NEW p \in Peers, HandleFrom(p) PROVE OneEntryPerPeer'
  <2>1. PICK m \in to_server : handle_frame_at(m)
    BY <1>7 DEF HandleFrom
  <2>2. m \in Segments /\ m.peer \in Peers
    BY <1>1 DEF RestType, Segments
  <2>3. CASE \E k \in Slots : \E entry :
                /\ connections' = [connections EXCEPT ![k] = entry]
                /\ entry = Free \/ entry.peer = m.peer
                /\ \/ connections[k].peer = m.peer
                   \/ connections[k] = Free /\ connection_index(m.peer) = {}
    <3>1. PICK k \in Slots : \E entry :
                /\ connections' = [connections EXCEPT ![k] = entry]
                /\ entry = Free \/ entry.peer = m.peer
                /\ \/ connections[k].peer = m.peer
                   \/ connections[k] = Free /\ connection_index(m.peer) = {}
      BY <2>3, Zenon
    <3>2. PICK entry :
                /\ connections' = [connections EXCEPT ![k] = entry]
                /\ entry = Free \/ entry.peer = m.peer
                /\ \/ connections[k].peer = m.peer
                   \/ connections[k] = Free /\ connection_index(m.peer) = {}
      BY <3>1, Zenon
    <3>3. ASSUME NEW i \in Slots, i # k
          PROVE  connections'[i] = connections[i] /\ connections[i].peer # m.peer
      <4>1. connections'[i] = connections[i]
        BY <1>2, <3>2, <3>3
      <4>2. CASE connections[k].peer = m.peer
        <5>1. connections[k] # Free
          BY <1>2, <2>2, <4>2, NoPeerAssumption
        <5> QED
          BY <3>3, <4>1, <4>2, <5>1 DEF OneEntryPerPeer
      <4>3. CASE connection_index(m.peer) = {}
        BY <4>1, <4>3 DEF connection_index
      <4> QED
        BY <3>2, <4>2, <4>3
    <3>4. connections'[k] = entry
      BY <1>2, <3>2
    <3>5. SUFFICES ASSUME NEW i \in Slots, NEW j \in Slots, connections'[i] # Free,
                          connections'[i].peer = connections'[j].peer
                   PROVE  i = j
      BY Zenon DEF OneEntryPerPeer
    <3>6. connections'[j] # Free
      <4>1. connections'[i].peer # NoPeer
        <5>1. CASE i = k
          BY <2>2, <3>2, <3>4, <3>5, <5>1, NoPeerAssumption
        <5>2. CASE i # k
          BY <1>2, <3>3, <3>5, <5>2, NoPeerAssumption
        <5> QED
          BY <5>1, <5>2
      <4> QED
        BY <1>2, <3>5, <4>1
    <3>7. CASE i # k /\ j # k
      BY <3>3, <3>5, <3>7 DEF OneEntryPerPeer
    <3>8. CASE i = k /\ j # k
      BY <3>2, <3>3, <3>4, <3>5, <3>8
    <3>9. CASE i # k /\ j = k
      BY <3>2, <3>3, <3>4, <3>5, <3>6, <3>9
    <3> QED
      BY <3>7, <3>8, <3>9
  <2> QED
    BY <1>1, <1>4, <2>1, <2>2, <2>3, HandlerTouches, Zenon
<1>8. ASSUME NEW p \in Peers, Connect(p) \/ Retransmit(p) \/ GiveUp(p) \/ ClientReceive(p)
      PROVE  connections' = connections
  BY <1>8 DEF Connect, Retransmit, GiveUp, ClientReceive, clientOnly, server
<1>9. UNCHANGED vars \/ EndPoll \/ ReceiveFails \/ Lose => connections' = connections
  BY DEF vars, EndPoll, ReceiveFails, Lose, clientOnly, server
<1> QED
  BY <1>4, <1>5, <1>6, <1>7, <1>8, <1>9, Zenon DEF Next

(* connection_index() always finds the entry there is: for every capacity, *)
(* timeout, set of peers and network, the table never holds two entries of *)
(* one peer.                                                               *)
THEOREM OneEntry == Spec => []OneEntryPerPeer
<1>1. Init => OneEntryPerPeer
  BY DEF Init, OneEntryPerPeer
<1>2. TypeOK /\ OneEntryPerPeer /\ [Next]_vars => OneEntryPerPeer'
  BY OneEntryStep
<1> QED
  BY <1>1, <1>2, TypeCorrect, PTL DEF Spec

(* The replies a segment draws go to the peer that sent it.                *)
LEMMA HandlerReplies ==
    ASSUME NEW m \in Segments, handle_frame_at(m)
    PROVE  \A r \in to_client' \ to_client : r.peer = m.peer
<1>1. ASSUME NEW flags, NEW seq, NEW ack, NEW payload,
             Transmit(Segment(m.peer, flags, seq, ack, payload))
      PROVE  \A r \in to_client' \ to_client : r.peer = m.peer
  BY <1>1 DEF Transmit, Segment
<1>2. Transmit(reset(m)) => \A r \in to_client' \ to_client : r.peer = m.peer
  BY ResetType DEF Transmit
<1>3. NoReply => to_client' = to_client
  BY DEF NoReply
<1>4. accept_syn(m) => \A r \in to_client' \ to_client : r.peer = m.peer
  BY <1>1, Zenon DEF accept_syn
<1>5. ReceiveRst(m) \/ Refuse(m) => \A r \in to_client' \ to_client : r.peer = m.peer
  BY <1>2, <1>3 DEF ReceiveRst, Refuse
<1>6. ASSUME NEW i \in Slots,
             ControlFin(m, i) \/ retransmit_response(m, i) \/ ServeRequest(m, i)
      PROVE  \A r \in to_client' \ to_client : r.peer = m.peer
  BY <1>1, <1>6, Zenon DEF ControlFin, retransmit_response, ServeRequest
<1>7. ASSUME NEW i \in Slots,
             ControlAck(m, i) \/ RejectRequest(m, i) \/ IgnoreSegment(m, i)
      PROVE  \A r \in to_client' \ to_client : r.peer = m.peer
  BY <1>2, <1>3, <1>7 DEF ControlAck, RejectRequest, IgnoreSegment
<1> QED
  BY <1>4, <1>5, <1>6, <1>7, Zenon DEF handle_frame_at

(* Peer isolation: for every instance, a segment of one peer never touches *)
(* another peer's entry, even when the table is full, nor is it answered   *)
(* to another peer.                                                        *)
THEOREM Isolation == Spec => PeersIsolated
<1>1. ASSUME TypeOK, NEW p \in Peers, HandleFrom(p)
      PROVE  /\ \A i \in Slots : connections[i].peer \in Peers \ {p} =>
                                      connections'[i] = connections[i]
             /\ \A m \in to_client' \ to_client : m.peer = p
  <2>1. TableType /\ RestType
    BY <1>1, TypeSplit
  <2>2. PICK m \in to_server : m.peer = p /\ handle_frame_at(m)
    BY <1>1 DEF HandleFrom
  <2>3. m \in Segments
    BY <2>1 DEF RestType
  <2>4. \A r \in to_client' \ to_client : r.peer = p
    BY <2>2, <2>3, HandlerReplies
  <2>5. ASSUME NEW i \in Slots, connections[i].peer \in Peers \ {p}
        PROVE  connections'[i] = connections[i]
    <3>1. CASE connections' = connections
      BY <3>1
    <3>2. ASSUME NEW k \in Slots, NEW entry,
                 connections' = [connections EXCEPT ![k] = entry],
                 connections[k].peer = m.peer \/ connections[k] = Free
          PROVE  connections'[i] = connections[i]
      <4>1. connections[k].peer \in {p, NoPeer}
        BY <2>2, <3>2 DEF Free
      <4>2. k # i
        BY <2>5, <4>1, NoPeerAssumption
      <4> QED
        BY <2>1, <3>2, <4>2 DEF TableType
    <3> QED
      BY <2>1, <2>2, <2>3, <3>1, <3>2, HandlerTouches, Zenon
  <2> QED
    BY <2>4, <2>5
<1>2. TypeOK => \A p \in Peers : HandleFrom(p) =>
         /\ \A i \in Slots : connections[i].peer \in Peers \ {p} =>
                                 connections'[i] = connections[i]
         /\ \A m \in to_client' \ to_client : m.peer = p
  BY <1>1
<1> QED
  BY <1>2, TypeCorrect, PTL DEF PeersIsolated

----------------------------------------------------------------------------
(* The responses.                                                          *)

(* The remainder of a number written as quotient and remainder.            *)
LEMMA Remainder ==
    ASSUME NEW M \in Nat, M > 0, NEW q \in Int, NEW a \in 0 .. M - 1
    PROVE  (M * q + a) % M = a
<1>1. PICK x \in Int : x = M * q + a
  OBVIOUS
<1>2. PICK k \in Int, r \in Int : x = M * k + r /\ r = x % M /\ 0 <= r /\ r < M
  <2>1. PICK k \in Int : k = x \div M
    OBVIOUS
  <2>2. PICK r \in Int : r = x % M
    OBVIOUS
  <2>3. x = M * k + r /\ 0 <= r /\ r < M
    BY <2>1, <2>2
  <2> QED
    BY <2>2, <2>3
<1>3. PICK d \in Int : d = q - k
  OBVIOUS
<1>4. M * d = r - a
  BY <1>1, <1>2, <1>3
<1>5. ~(d >= 1)
  <2>1. d >= 1 => M * d >= M
    OBVIOUS
  <2> QED
    BY <1>2, <1>4, <2>1
<1>6. ~(d <= -1)
  <2>1. d <= -1 => M * d <= -M
    OBVIOUS
  <2> QED
    BY <1>2, <1>4, <2>1
<1>7. d = 0
  BY <1>5, <1>6
<1>8. r = a
  BY <1>2, <1>4, <1>7
<1> QED
  BY <1>1, <1>2, <1>8

(* Going back by n and forward by n again ends where it began.             *)
LEMMA WrapBack ==
    ASSUME NEW a \in Sequence, NEW n \in Nat
    PROVE  wrapping_add(wrapping_sub(a, n), n) = a
<1>1. SeqMod \in Nat /\ SeqMod > 0 /\ a \in Nat /\ a < SeqMod
  BY SequenceAssumption DEF Sequence
<1>2. PICK q \in Int : q = (a - n) \div SeqMod
  BY <1>1
<1>3. PICK r \in Int : r = (a - n) % SeqMod
  BY <1>1
<1>4. PICK k \in Int : k = SeqMod * q
  BY <1>1
<1>5. a - n = k + r
  BY <1>1, <1>2, <1>3, <1>4
<1>6. PICK j \in Int : j = -q
  OBVIOUS
<1>7. r + n = SeqMod * j + a
  BY <1>1, <1>4, <1>5, <1>6
<1>8. (r + n) % SeqMod = a
  <2>1. a \in 0 .. SeqMod - 1
    BY <1>1
  <2>2. (SeqMod * j + a) % SeqMod = a
    BY <1>1, <2>1, Remainder, Zenon
  <2> QED
    BY <1>7, <2>2, Zenon
<1> QED
  BY <1>3, <1>8 DEF wrapping_add, wrapping_sub

(* A transmission adds at most the one segment.                            *)
LEMMA TransmitAdds ==
    ASSUME NEW s, Transmit(s)
    PROVE  to_client' \subseteq to_client \cup {s}
BY DEF Transmit

(* A response acknowledges a request r when it starts at r.ack and ends    *)
(* r's sequence numbers.                                                   *)
Answers(m, r) ==
    /\ r.peer = m.peer /\ r.payload = "request"
    /\ m.seq = r.ack
    /\ m.ack = wrapping_add(r.seq, Length(r.payload) + Count(r, "FIN"))

(* What handle_frame_at() sends on a segment m either is no response, or   *)
(* answers m.                                                              *)
LEMMA HandlerAnswers ==
    ASSUME TableType, NEW m \in Segments, handle_frame_at(m)
    PROVE  \A s \in to_client' \ to_client : s.payload = "response" => Answers(s, m)
<1>1. ASSUME NEW flags, NEW seq, NEW ack,
             Transmit(Segment(m.peer, flags, seq, ack, "none"))
      PROVE  \A s \in to_client' \ to_client : s.payload # "response"
  <2>1. \A s \in to_client' \ to_client : s = Segment(m.peer, flags, seq, ack, "none")
    BY <1>1, TransmitAdds
  <2> QED
    BY <2>1 DEF Segment
<1>2. Transmit(reset(m)) => \A s \in to_client' \ to_client : s.payload # "response"
  BY <1>1, Zenon DEF reset
<1>3. NoReply => to_client' = to_client
  BY DEF NoReply
<1>4. accept_syn(m) => \A s \in to_client' \ to_client : s.payload # "response"
  BY <1>1, Zenon DEF accept_syn
<1>5. ReceiveRst(m) \/ Refuse(m) => \A s \in to_client' \ to_client : s.payload # "response"
  BY <1>2, <1>3 DEF ReceiveRst, Refuse
<1>6. ASSUME NEW i \in Slots, ControlFin(m, i)
      PROVE  \A s \in to_client' \ to_client : s.payload # "response"
  BY <1>1, <1>6, Zenon DEF ControlFin
<1>7. ASSUME NEW i \in Slots,
             ControlAck(m, i) \/ RejectRequest(m, i) \/ IgnoreSegment(m, i)
      PROVE  \A s \in to_client' \ to_client : s.payload # "response"
  BY <1>2, <1>3, <1>7 DEF ControlAck, RejectRequest, IgnoreSegment
<1>8. ASSUME NEW i \in Slots, ServeRequest(m, i)
      PROVE  \A s \in to_client' \ to_client : Answers(s, m)
  <2>1. PICK c : c = connections[i]
    OBVIOUS
  <2>2. /\ m.ack = c.local_next /\ m.seq = c.remote_next /\ m.payload = "request"
        /\ Transmit(Segment(m.peer, {"ACK", "FIN"}, c.local_next,
                            wrapping_add(c.remote_next, Span(m)), "response"))
    BY <1>8, <2>1 DEF ServeRequest, InOrder, is_supported_listener_request
  <2>3. \A s \in to_client' \ to_client :
           s = Segment(m.peer, {"ACK", "FIN"}, m.ack, wrapping_add(m.seq, Span(m)), "response")
    BY <2>2, TransmitAdds
  <2> QED
    BY <2>2, <2>3 DEF Segment, Answers, Span
<1>9. ASSUME NEW i \in Slots, retransmit_response(m, i)
      PROVE  \A s \in to_client' \ to_client : Answers(s, m)
  <2>1. PICK c : c = connections[i]
    OBVIOUS
  <2>2. c \in TcpServerConnection
    BY <1>9, <2>1, KnownEntry DEF retransmit_response
  <2>3. /\ m.seq = wrapping_sub(c.remote_next, Span(m)) /\ m.payload = "request"
        /\ m.ack = wrapping_sub(c.local_next, ResponseLength + 1)
        /\ Transmit(Segment(m.peer, {"ACK", "FIN"},
                            wrapping_sub(c.local_next, ResponseLength + 1),
                            c.remote_next, "response"))
    BY <1>9, <2>1 DEF retransmit_response, Repeated, is_supported_listener_request
  <2>4. \A s \in to_client' \ to_client :
           s = Segment(m.peer, {"ACK", "FIN"}, m.ack, c.remote_next, "response")
    BY <2>3, TransmitAdds
  <2>5. wrapping_add(m.seq, Span(m)) = c.remote_next
    <3>1. c.remote_next \in Sequence /\ Span(m) \in Nat
      BY <2>2, LengthType DEF TcpServerConnection
    <3> QED
      BY <2>3, <3>1, WrapBack
  <2>6. c.remote_next = wrapping_add(m.seq, Length(m.payload) + Count(m, "FIN"))
    BY <2>5, Zenon DEF Span
  <2> QED
    BY <2>3, <2>4, <2>6 DEF Segment, Answers
<1> QED
  BY <1>4, <1>5, <1>6, <1>7, <1>8, <1>9, Zenon DEF handle_frame_at

(* A client sends a payload only as its outstanding segment in the         *)
(* established state.                                                      *)
LEMMA OutstandingPlain ==
    ASSUME NEW p \in Peers
    PROVE  /\ client[p].state # "established" =>
                \A s \in Outstanding(p) : s.payload = "none"
           /\ client'[p].state # "established" =>
                \A s \in Outstanding(p)' : s.payload = "none"
BY DEF Outstanding, Segment

(* A client's step leaves requests in flight only that it has noted as     *)
(* sent.                                                                   *)
LEMMA ClientReadsAsked ==
    ASSUME TypeOK, AskedInv, NEW p \in Peers, NEW m \in Segments, ClientReads(p, m)
    PROVE  AskedInv' /\ asked \subseteq asked'
<1>1. client \in [Peers -> ClientRecord]
  BY TypeSplit DEF RestType, ClientType
<1>2. ASSUME NEW q \in Peers, q # p, client'[q] = client[q]
      PROVE  Outstanding(q)' = Outstanding(q)
  BY <1>2 DEF Outstanding
<1>3. ASSUME NEW c, client' = [client EXCEPT ![p] = c], c.state # "established",
             asked' = asked, \A s \in to_server' \ to_server : s.payload = "none"
      PROVE  AskedInv' /\ asked \subseteq asked'
  <2>1. ASSUME NEW s \in to_server', s.payload = "request" PROVE s \in asked'
    BY <1>3, <2>1 DEF AskedInv
  <2>2. ASSUME NEW q \in Peers, client'[q].state = "established"
        PROVE  Outstanding(q)' \subseteq asked'
    <3>1. q # p /\ client'[q] = client[q]
      BY <1>1, <1>3, <2>2
    <3> QED
      BY <1>2, <1>3, <2>2, <3>1 DEF AskedInv
  <2> QED
    BY <1>3, <2>1, <2>2 DEF AskedInv
<1>4. CASE ReadSynAck(p, m)
  <2>1. asked' = asked \cup Outstanding(p)' /\ asked \subseteq asked'
    BY <1>4 DEF ReadSynAck
  <2>2. PICK c : client' = [client EXCEPT ![p] = c]
    BY <1>4 DEF ReadSynAck
  <2>3. ASSUME NEW s \in to_server', s.payload = "request" PROVE s \in asked'
    <3>1. PICK ack : /\ ack.payload = "none"
                     /\ to_server' = to_server \cup Outstanding(p)' \cup {ack}
      BY <1>4 DEF ReadSynAck, Segment
    <3> QED
      BY <2>1, <2>3, <3>1 DEF AskedInv
  <2>4. ASSUME NEW q \in Peers, client'[q].state = "established"
        PROVE  Outstanding(q)' \subseteq asked'
    <3>1. CASE q = p
      BY <2>1, <3>1
    <3>2. CASE q # p
      <4>1. client'[q] = client[q]
        BY <1>1, <2>2, <3>2
      <4> QED
        BY <1>2, <2>1, <2>4, <3>2, <4>1 DEF AskedInv
    <3> QED
      BY <3>1, <3>2
  <2> QED
    BY <2>1, <2>3, <2>4 DEF AskedInv
<1>5. CASE ReadResponse(p, m)
  <2>1. PICK c : /\ client' = [client EXCEPT ![p] = c]
                 /\ c.state = IF client[p].fin THEN "finished" ELSE "closing"
    <3>1. PICK rcv, snd, state :
              /\ rcv = wrapping_add(client[p].rcv_nxt, ResponseLength + 1)
              /\ snd = wrapping_add(client[p].snd_nxt, IF client[p].fin THEN 0 ELSE 1)
              /\ state = IF client[p].fin THEN "finished" ELSE "closing"
      BY Zenon
    <3>2. client' = [client EXCEPT ![p].rcv_nxt = rcv, ![p].state = state, ![p].snd_nxt = snd]
      BY <1>1, <1>5, <3>1 DEF ReadResponse, ClientRecord
    <3>3. client' = [client EXCEPT ![p] = Advanced(client[p], state, snd, rcv)]
      BY <1>1, <3>2 DEF Advanced
    <3>4. Advanced(client[p], state, snd, rcv).state = state
      <4>1. client[p] \in ClientRecord
        BY <1>1
      <4> QED
        BY <4>1 DEF Advanced, ClientRecord
    <3> QED
      BY <3>1, <3>3, <3>4
  <2>2. c.state # "established" /\ client'[p].state # "established"
    BY <1>1, <2>1
  <2>3. \A s \in to_server' \ to_server : s.payload = "none"
    <3>1. \A s \in Outstanding(p)' : s.payload = "none"
      BY <2>2, OutstandingPlain
    <3> QED
      BY <1>5, <3>1 DEF ReadResponse, Segment
  <2> QED
    BY <1>3, <1>5, <2>1, <2>2, <2>3 DEF ReadResponse
<1>6. CASE RereadResponse(p, m)
  <2>1. client' = client /\ asked' = asked
    BY <1>6 DEF RereadResponse
  <2>2. \A s \in to_server' \ to_server : s.payload = "none"
    BY <1>6 DEF RereadResponse, PlainAck, Segment
  <2>3. \A q \in Peers : Outstanding(q)' = Outstanding(q)
    BY <2>1 DEF Outstanding
  <2> QED
    BY <2>1, <2>2, <2>3 DEF AskedInv
<1>7. ASSUME NEW state, state # "established", client' = [client EXCEPT ![p].state = state],
             to_server' = to_server, asked' = asked
      PROVE  AskedInv' /\ asked \subseteq asked'
  <2>1. PICK c : c = [client[p] EXCEPT !.state = state]
    OBVIOUS
  <2>2. client' = [client EXCEPT ![p] = c] /\ c.state = state
    BY <1>1, <1>7, <2>1 DEF ClientRecord
  <2> QED
    BY <1>3, <1>7, <2>2
<1>8. CASE ReadFinalAck(p, m)
  BY <1>7, <1>8 DEF ReadFinalAck
<1>9. CASE ReadRst(p, m)
  BY <1>7, <1>9 DEF ReadRst
<1> QED
  BY <1>4, <1>5, <1>6, <1>8, <1>9, Zenon DEF ClientReads

(* Every step keeps the requests in flight among those sent.               *)
LEMMA AskedStep ==
    ASSUME TypeOK, AskedInv, [Next]_vars
    PROVE  AskedInv' /\ asked \subseteq asked'
<1>1. client \in [Peers -> ClientRecord] /\ to_client \subseteq Segments
  BY TypeSplit DEF RestType, TableType, ClientType
<1>2. ASSUME client' = client, asked' = asked,
             \A s \in to_server' \ to_server : s.payload = "request" => s \in asked
      PROVE  AskedInv' /\ asked \subseteq asked'
  <2>1. \A q \in Peers : Outstanding(q)' = Outstanding(q)
    BY <1>2 DEF Outstanding
  <2> QED
    BY <1>2, <2>1 DEF AskedInv
<1>3. CASE UNCHANGED vars \/ Tick \/ BeginPoll \/ EndPoll \/ ReceiveFails
  <2>1. client' = client /\ asked' = asked /\ to_server' = to_server
    BY <1>3 DEF vars, Tick, BeginPoll, EndPoll, ReceiveFails
  <2> QED
    BY <1>2, <2>1
<1>4. ASSUME NEW p \in Peers, HandleFrom(p) PROVE AskedInv' /\ asked \subseteq asked'
  <2>1. PICK m \in to_server : Take(m)
    BY <1>4 DEF HandleFrom, handle_frame_at
  <2>2. client' = client /\ asked' = asked /\ to_server' \subseteq to_server
    BY <2>1 DEF Take
  <2> QED
    BY <1>2, <2>2
<1>5. CASE Lose
  <2>1. client' = client /\ asked' = asked /\ to_server' \subseteq to_server
    BY <1>5 DEF Lose
  <2> QED
    BY <1>2, <2>1
<1>6. ASSUME NEW p \in Peers, Retransmit(p) PROVE AskedInv' /\ asked \subseteq asked'
  <2>1. client' = client /\ asked' = asked /\ to_server' = to_server \cup Outstanding(p)
    BY <1>6 DEF Retransmit
  <2>2. \A s \in Outstanding(p) : s.payload = "request" => s \in asked
    BY OutstandingPlain DEF AskedInv
  <2> QED
    BY <1>2, <2>1, <2>2
<1>7. ASSUME NEW p \in Peers, NEW c, client' = [client EXCEPT ![p] = c],
             c.state # "established", asked' = asked,
             \A s \in to_server' \ to_server : s.payload = "none"
      PROVE  AskedInv' /\ asked \subseteq asked'
  <2>1. ASSUME NEW s \in to_server', s.payload = "request" PROVE s \in asked'
    BY <1>7, <2>1 DEF AskedInv
  <2>2. ASSUME NEW q \in Peers, client'[q].state = "established"
        PROVE  Outstanding(q)' \subseteq asked'
    <3>1. q # p /\ client'[q] = client[q]
      BY <1>1, <1>7, <2>2
    <3>2. Outstanding(q)' = Outstanding(q)
      BY <3>1 DEF Outstanding
    <3> QED
      BY <1>7, <2>2, <3>1, <3>2 DEF AskedInv
  <2> QED
    BY <1>7, <2>1, <2>2 DEF AskedInv
<1>8. ASSUME NEW p \in Peers, Connect(p) PROVE AskedInv' /\ asked \subseteq asked'
  <2>1. PICK c : c = [client[p] EXCEPT !.state = "syn_sent",
                                       !.snd_nxt = wrapping_add(ClientSequence[p], 1)]
    OBVIOUS
  <2>2. client' = [client EXCEPT ![p] = c] /\ c.state = "syn_sent"
    BY <1>1, <1>8, <2>1 DEF Connect, ClientRecord
  <2>3. client'[p].state # "established"
    BY <1>1, <2>2
  <2>4. \A s \in Outstanding(p)' : s.payload = "none"
    BY <2>3, OutstandingPlain
  <2> QED
    BY <1>7, <1>8, <2>2, <2>4 DEF Connect
<1>9. ASSUME NEW p \in Peers, GiveUp(p) PROVE AskedInv' /\ asked \subseteq asked'
  <2>1. PICK c : c = [client[p] EXCEPT !.state = "gave_up"]
    OBVIOUS
  <2>2. client' = [client EXCEPT ![p] = c] /\ c.state = "gave_up"
    BY <1>1, <1>9, <2>1 DEF GiveUp, ClientRecord
  <2>3. \A s \in to_server' \ to_server : s.payload = "none"
    BY <1>9 DEF GiveUp, Segment
  <2> QED
    BY <1>7, <1>9, <2>2, <2>3 DEF GiveUp
<1>10. ASSUME NEW p \in Peers, ClientReceive(p) PROVE AskedInv' /\ asked \subseteq asked'
  <2>1. PICK m \in to_client :
           ClientReads(p, m) \/ UNCHANGED <<client, to_server, asked>>
    BY <1>10 DEF ClientReceive
  <2>2. CASE ClientReads(p, m)
    BY <1>1, <2>2, ClientReadsAsked
  <2>3. CASE UNCHANGED <<client, to_server, asked>>
    BY <1>2, <2>3
  <2> QED
    BY <2>1, <2>2, <2>3
<1> QED
  BY <1>3, <1>4, <1>5, <1>6, <1>8, <1>9, <1>10, Zenon DEF Next

(* A new response on the wire answers a request in flight, which its       *)
(* client has sent; the others stay answered because asked only grows.     *)
LEMMA ResponseStep ==
    ASSUME TypeOK, AskedInv, ResponseIsAsked, [Next]_vars
    PROVE  ResponseIsAsked'
<1>1. asked \subseteq asked'
  BY AskedStep
<1>2. ResponseIsAsked <=> \A m \in to_client : m.payload = "response" =>
                              \E r \in asked : Answers(m, r)
  BY Zenon DEF ResponseIsAsked, Answers
<1>3. ResponseIsAsked' <=> \A m \in to_client' : m.payload = "response" =>
                              \E r \in asked' : Answers(m, r)
  BY Zenon DEF ResponseIsAsked, Answers
<1>4. CASE to_client' \subseteq to_client
  BY <1>1, <1>2, <1>3, <1>4
<1>5. ASSUME NEW p \in Peers, HandleFrom(p) PROVE ResponseIsAsked'
  <2>1. PICK m \in to_server : handle_frame_at(m)
    BY <1>5 DEF HandleFrom
  <2>2. m \in Segments /\ TableType
    BY TypeSplit DEF RestType
  <2>3. ASSUME NEW s \in to_client', s \notin to_client, s.payload = "response"
        PROVE  m \in asked /\ Answers(s, m)
    <3>1. Answers(s, m)
      BY <2>1, <2>2, <2>3, HandlerAnswers
    <3> QED
      BY <3>1 DEF Answers, AskedInv
  <2> QED
    BY <1>1, <1>2, <1>3, <2>3
<1>6. UNCHANGED vars \/ Tick \/ BeginPoll \/ EndPoll \/ ReceiveFails \/ Lose
        => to_client' \subseteq to_client
  BY DEF vars, Tick, BeginPoll, EndPoll, ReceiveFails, Lose
<1>7. ASSUME NEW p \in Peers, Connect(p) \/ Retransmit(p) \/ GiveUp(p) \/ ClientReceive(p)
      PROVE  to_client' \subseteq to_client
  BY <1>7 DEF Connect, Retransmit, GiveUp, ClientReceive
<1> QED
  BY <1>4, <1>5, <1>6, <1>7, Zenon DEF Next

(* For every sequence space, table and network: each response the listener *)
(* puts on the wire, first or repeated, answers exactly one request its    *)
(* client really sent, FIN included.                                       *)
THEOREM ResponsesAsked == Spec => []ResponseIsAsked
<1>1. Init => AskedInv /\ ResponseIsAsked
  BY DEF Init, AskedInv, ResponseIsAsked
<1>2. TypeOK /\ AskedInv /\ [Next]_vars => AskedInv'
  BY AskedStep
<1>3. TypeOK /\ AskedInv /\ ResponseIsAsked /\ [Next]_vars => ResponseIsAsked'
  BY ResponseStep
<1> QED
  BY <1>1, <1>2, <1>3, TypeCorrect, PTL DEF Spec

=============================================================================
