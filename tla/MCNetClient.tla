---------------------------- MODULE MCNetClient ----------------------------
(***************************************************************************)
(* A small network for NetClient: two DHCP servers, a gateway, a DNS       *)
(* server next to the gateway's address, on the subnet or beyond it, and a *)
(* web server on the subnet or beyond it.  Every host may answer every     *)
(* frame addressed to it, any number of times, at any later time.          *)
(***************************************************************************)
EXTENDS NetClient

CONSTANTS mk, mg, md, mw

At(n, h) == [net |-> n, host |-> h]
Here == At(1, 15)
There == At(1, 16)
Gateway == At(1, 2)
NearDns == At(1, 3)
LocalDns == At(1, 7)
FarDns == At(2, 5)
LocalWeb == At(1, 9)
FarWeb == At(2, 9)
Server1 == At(1, 2)
Server2 == At(1, 4)
Example == <<"example", "com">>

MCZero == At(0, 0)
MCMacs == {mk, mg, md, mw}
MCQueryName == Example
MCOwnerOf == (Here :> mk) @@ (Gateway :> mg) @@ (NearDns :> md) @@ (LocalDns :> md)
          @@ (LocalWeb :> mw)

Up == [present |-> TRUE, bar |-> "io16", macFeature |-> TRUE, rx_size |-> 2,
       tx_size |-> 2, pages |-> "low", mac |-> "host", accepts |-> TRUE]
MCNetHardware ==
    {Up, [Up EXCEPT !.present = FALSE], [Up EXCEPT !.bar = "mmio"],
     [Up EXCEPT !.macFeature = FALSE], [Up EXCEPT !.rx_size = 0],
     [Up EXCEPT !.tx_size = 0], [Up EXCEPT !.pages = "none"],
     [Up EXCEPT !.pages = "high"], [Up EXCEPT !.mac = "multicast"],
     [Up EXCEPT !.accepts = FALSE]}

Opt(c, v) == [code |-> c, value |-> v]
Common(type, server) ==
    <<Opt("type", type), Opt("hostname", "x"), Opt("server", server),
      Opt("mask", "net"), Opt("gateway", Server2), Opt("gateway", Gateway), Opt("lease", 1)>>
DhcpReply(address, list) ==
    [proto |-> "dhcp", op |-> 2, chaddr |-> mk, intact |-> TRUE, ours |-> TRUE,
     terminated |-> TRUE, address |-> address, options |-> list]

\* Server 1 may name no DNS server, one on the subnet or one beyond it;
\* server 2 offers another address.  Broken, foreign and refusing offers.
Offers ==
    LET o == Common("offer", Server1)
    IN  {DhcpReply(Here, o), DhcpReply(Here, Append(o, Opt("dns", LocalDns))),
         DhcpReply(Here, Append(o, Opt("dns", FarDns))),
         DhcpReply(There, Append(Common("offer", Server2), Opt("mask", "none"))),
         DhcpReply(Here, <<Opt("type", "offer"), Opt("server", NoOption)>>),
         DhcpReply(MCZero, o),
         [DhcpReply(There, o) EXCEPT !.ours = FALSE],
         [DhcpReply(There, o) EXCEPT !.terminated = FALSE],
         [DhcpReply(There, o) EXCEPT !.intact = FALSE]}
\* The server that was asked acknowledges, with all options or none, or
\* refuses; the other one acknowledges the same address with a mask of its own,
\* or another address.
Acks(r) ==
    LET other == Common("ack", IF r.server = Server1 THEN Server2 ELSE Server1)
    IN  {DhcpReply(r.requested, Common("ack", r.server)),
         DhcpReply(r.requested, <<Opt("type", "ack")>>),
         DhcpReply(r.requested, <<Opt("type", "nak")>>),
         DhcpReply(r.requested, Append(other, Opt("mask", "none"))),
         DhcpReply(LocalWeb, other)}

ArpReply(ip, mac, to) ==
    [proto |-> "arp", op |-> 2, src |-> mac, dst |-> mk, sha |-> mac, spa |-> ip, tpa |-> to]
Owned(ip) == IF ip \in DOMAIN MCOwnerOf THEN {ArpReply(ip, MCOwnerOf[ip], Here),
                 ArpReply(ip, MCOwnerOf[ip], There), ArpReply(ip, Broadcast, Here)}
             ELSE {}

Carrier(ip) == IF ip \in DOMAIN MCOwnerOf THEN MCOwnerOf[ip] ELSE mg
Rec(type, address, broken) == [type |-> type, address |-> address, broken |-> broken]
DnsAnswers(q) ==
    LET a(records) == [proto |-> "dns", src |-> q.dst, dst |-> mk, from |-> q.to,
                       to |-> q.from, response |-> TRUE, intact |-> TRUE, id |-> DnsQueryId,
                       rcode |-> 0, name |-> Example, records |-> records]
        near == <<Rec("CNAME", NoOption, FALSE), Rec("A", LocalWeb, FALSE)>>
        far == <<Rec("A", FarWeb, FALSE), Rec("A", LocalWeb, FALSE)>>
    IN  {a(near), a(far), a(<<Rec("A", FarWeb, TRUE)>>),
         [a(near) EXCEPT !.id = DnsQueryId + 1], [a(near) EXCEPT !.rcode = 3],
         [a(near) EXCEPT !.name = <<"example", "org">>]}

\* The web server: its first sequence number is one before a wrap.
ServerIsn == SeqModulus - 2
Segment(q, seq, ack, flags, length, status) ==
    [proto |-> "tcp", src |-> q.dst, dst |-> mk, from |-> q.to, to |-> q.from,
     seq |-> seq % SeqModulus, ack |-> ack % SeqModulus, flags |-> flags,
     length |-> length, port |-> "client", intact |-> TRUE, status |-> status]
\* An answer to the request may be split, look like a response further on, or
\* belong to an earlier part of the request.
WebAnswers(q) ==
    IF "SYN" \in q.flags
    THEN {Segment(q, ServerIsn, q.seq + 1, {"SYN", "ACK"}, 0, 0),
          Segment(q, ServerIsn, q.seq + 2, {"SYN", "ACK"}, 0, 0),
          Segment(q, 0, q.seq + 1, {"RST"}, 0, 0)}
    ELSE IF q.length > 0
    THEN {Segment(q, ServerIsn + 1, q.seq + q.length, {"ACK"}, 0, 0),
          Segment(q, ServerIsn + 1, q.seq + q.length, {"PSH", "ACK", "FIN"}, 3, 404),
          Segment(q, ServerIsn + 3, q.seq + q.length, {"PSH", "ACK"}, 1, 0),
          Segment(q, ServerIsn + 3, q.seq + q.length, {"PSH", "ACK"}, 1, 301),
          Segment(q, ServerIsn + 1, q.seq, {"PSH", "ACK"}, 2, 200)}
    ELSE {}

\* Traffic nobody asked for.
Unasked ==
    {[proto |-> "junk"], [proto |-> "runt"], [proto |-> "jumbo"],
     [proto |-> "arp", op |-> 1, src |-> mg, dst |-> Broadcast, sha |-> mg,
      spa |-> Gateway, tpa |-> Here],
     [proto |-> "arp", op |-> 1, src |-> mw, dst |-> Broadcast, sha |-> mg,
      spa |-> Gateway, tpa |-> Here],
     [proto |-> "icmp", src |-> mg, dst |-> mk, from |-> Gateway, to |-> Here,
      type |-> "request", id |-> EchoId, intact |-> TRUE],
     [proto |-> "tcp", src |-> mg, dst |-> mk, from |-> Gateway, to |-> Here, seq |-> 1,
      ack |-> 0, flags |-> {"SYN"}, length |-> 0, port |-> "listener", intact |-> TRUE,
      status |-> 0]}

\* Once the final ACK is out, only the web server still repeats itself.
Finished(w) == \E f \in w : f.proto = "tcp" /\ f.seq = AfterRequest % SeqModulus
Asking(w) == IF Finished(w) THEN {f \in w : f.proto = "tcp"} ELSE w

MCAnswers(w) ==
    Unasked \cup UNION {
        CASE f.proto = "dhcp" /\ f.type = "discover" -> Offers
          [] f.proto = "dhcp" /\ f.type = "request" -> Acks(f)
          [] f.proto = "arp" /\ f.op = 1 -> Owned(f.tpa)
          [] f.proto = "icmp" /\ f.type = "request" /\ f.dst = mg ->
                {[f EXCEPT !.src = mg, !.dst = mk, !.from = f.to, !.to = f.from,
                           !.type = "reply", !.id = i] : i \in {EchoId, EchoId + 1}}
          [] f.proto = "dns" -> DnsAnswers(f)
          [] f.proto = "tcp" /\ f.port = "http" -> WebAnswers(f)
          [] OTHER -> {} : f \in Asking(w)}
=============================================================================
