---------------------------- MODULE NetClient ----------------------------
(***************************************************************************)
(* kernel/src/network.rs above the driver: configure(), which obtains a    *)
(* DHCP lease, resolves the gateway with ARP, pings it, asks DNS for one   *)
(* name and fetches one page over TCP, and poll(), which then answers ARP  *)
(* and ICMP requests and feeds the TCP listener.  Nothing is retransmitted *)
(* and every wait is bounded: a wait that runs out ends configure() with   *)
(* an error, on which kernel-image halts.  Frames can be lost, duplicated, *)
(* delayed and reordered: the hosts may answer any frame on the wire at    *)
(* any later time, any number of times.                                    *)
(***************************************************************************)
EXTENDS VirtioNet, Sequences, SequencesExt, TLC

CONSTANTS
    Mac,             \* this machine's hardware address
    Macs,            \* all hardware addresses; Multicast and NoMac are not hosts
    Broadcast, NoMac,
    ZeroAddress,
    NoOption,        \* a DHCP option that is absent
    DnsQueryId, EchoId,
    QueryName,       \* DNS_QUERY_NAME as its labels
    SeqModulus,      \* 2^32 in the code
    InitialSequence, \* TCP_INITIAL_SEQUENCE
    RequestLength,   \* HTTP_REQUEST.len()
    PollBudget,      \* frames one poll() handles: 32 in the code
    OwnerOf,         \* external: the hosts, address to hardware address
    Answers(_)       \* external: what the hosts may send, given the wire

ASSUME ClientAssumption ==
    /\ SeqModulus \in Nat \ {0} /\ InitialSequence \in 0..(SeqModulus - 1)
    /\ RequestLength \in 1..(SeqModulus - 1) /\ PollBudget \in Nat \ {0}
    /\ Mac \in Macs /\ Broadcast \notin Macs /\ NoMac \notin Macs

VARIABLES
    pc,       \* where configure() or poll() stands
    conf,     \* what configure() has learnt
    polled,   \* frames handled by the poll() under way
    handed    \* history: frames for which transmit() returned Ok

clientVars == <<pc, conf, polled, handed>>
vars == <<netVars, clientVars>>

Some(option) == option # NoOption
Or(a, b) == IF Some(a) THEN a ELSE b

-----------------------------------------------------------------------------
(* Routing *)

\* An address is [net, host]; a mask is "net" or "none" (all one subnet).
same_subnet(left, right, mask) == mask = "none" \/ left.net = right.net

\* Mutant: everything goes through the gateway.
route_next_hop_gateway(address, mask, gateway, destination) == gateway

route_next_hop(address, mask, gateway, destination) ==
    IF same_subnet(address, destination, mask) THEN destination ELSE gateway

\* The gateway's address with its last octet plus one, saturating.
default_dns_server(address, gateway) ==
    LET dns == [gateway EXCEPT !.host = IF @ = 255 THEN 255 ELSE @ + 1]
    IN  IF dns = address THEN gateway ELSE dns

dns_next_hop(address, mask, gateway, dns_server) ==
    IF dns_server = default_dns_server(address, gateway) THEN gateway
    ELSE route_next_hop(address, mask, gateway, dns_server)

-----------------------------------------------------------------------------
(* Frames.  "intact" stands for the length, version and checksum tests.    *)

build_dhcp_frame(type, requested, server) ==
    [proto |-> "dhcp", op |-> 1, chaddr |-> Mac, dst |-> Broadcast, type |-> type,
     requested |-> requested, server |-> server]

build_arp_request(address, target) ==
    [proto |-> "arp", op |-> 1, src |-> Mac, dst |-> Broadcast, sha |-> Mac,
     spa |-> address, tpa |-> target]

build_icmp_echo_request(dst, address, target) ==
    [proto |-> "icmp", src |-> Mac, dst |-> dst, from |-> address, to |-> target,
     type |-> "request", id |-> EchoId, intact |-> TRUE]

build_dns_query_frame(dst, address, server) ==
    [proto |-> "dns", src |-> Mac, dst |-> dst, from |-> address, to |-> server,
     response |-> FALSE, id |-> DnsQueryId, name |-> QueryName]

build_tcp_ipv4_frame(dst, address, remote, seq, ack, flags, length) ==
    [proto |-> "tcp", src |-> Mac, dst |-> dst, from |-> address, to |-> remote,
     seq |-> seq % SeqModulus, ack |-> ack % SeqModulus, flags |-> flags,
     length |-> length, port |-> "http", intact |-> TRUE]

\* parse_dhcp_options: a later option of the same code replaces an earlier
\* one, an unknown code or a value of the wrong length is skipped, and the
\* list must end with the end option.
NoOptions == [type |-> NoOption, mask |-> NoOption, gateway |-> NoOption,
              dns |-> NoOption, server |-> NoOption, lease |-> NoOption]
parse_dhcp_options(list) ==
    FoldLeft(LAMBDA o, item : IF item.code \in DOMAIN o /\ Some(item.value)
                              THEN [o EXCEPT ![item.code] = item.value] ELSE o,
             NoOptions, list)

\* parse_dhcp_message.
IsDhcpReply(f) ==
    /\ f.proto = "dhcp" /\ f.op = 2
    /\ f.intact /\ f.ours /\ f.chaddr = Mac /\ f.terminated

parse_arp_reply(f, address, sender) ==
    /\ f.proto = "arp" /\ f.op = 2
    /\ f.spa = sender /\ f.tpa = address
    /\ f.sha \notin {NoMac, Broadcast}

parse_icmp_echo_reply(f, mac, address, sender) ==
    /\ f.proto = "icmp" /\ f.intact /\ f.src = mac
    /\ f.from = sender /\ f.to = address
    /\ f.type = "reply" /\ f.id = EchoId

\* dns_name_matches and parse_dns_message: the question must be ours, then
\* the first A record among the answers; a record whose name or data runs
\* past the message stops the search.
dns_name_matches(name) == name = QueryName
FirstAddress(records) ==
    LET hit == SelectInSeq(records, LAMBDA r : r.broken \/ r.type = "A")
    IN  IF hit = 0 \/ records[hit].broken THEN NoOption ELSE records[hit].address
parse_dns_response(f, mac, address, server) ==
    IF /\ f.proto = "dns" /\ f.src = mac /\ f.from = server /\ f.to = address
       /\ f.response /\ f.intact /\ f.id = DnsQueryId /\ f.rcode = 0
       /\ dns_name_matches(f.name)
    THEN FirstAddress(f.records) ELSE NoOption

parse_tcp_segment(f, mac, address, remote) ==
    /\ f.proto = "tcp" /\ f.intact /\ f.src = mac /\ f.from = remote /\ f.to = address
    /\ f.port = "client"

\* parse_http_status: the payload starts a response with a status in 100..599.
parse_http_status(f) == f.length > 0 /\ f.status \in 100..599

-----------------------------------------------------------------------------
(* configure(): the frame each sending step transmits *)

AfterSyn == InitialSequence + 1
AfterRequest == AfterSyn + RequestLength

FrameAt(p) ==
    CASE p = "send discover" -> build_dhcp_frame("discover", NoOption, NoOption)
      [] p = "send request" ->
           build_dhcp_frame("request", conf.offer.address, conf.offer.options.server)
      [] p = "send arp" -> build_arp_request(conf.address, conf.gateway)
      [] p = "send echo" ->
           build_icmp_echo_request(conf.gateway_mac, conf.address, conf.gateway)
      [] p = "send dns arp" -> build_arp_request(conf.address, conf.dns_hop)
      [] p = "send query" ->
           build_dns_query_frame(conf.dns_mac, conf.address, conf.dns)
      [] p = "send http arp" -> build_arp_request(conf.address, conf.http_hop)
      [] p = "send syn" -> build_tcp_ipv4_frame(conf.http_mac, conf.address,
                               conf.answer, InitialSequence, 0, {"SYN"}, 0)
      [] p = "send ack" -> build_tcp_ipv4_frame(conf.http_mac, conf.address,
                               conf.answer, AfterSyn, conf.remote_next, {"ACK"}, 0)
      [] p = "send get" -> build_tcp_ipv4_frame(conf.http_mac, conf.address,
                               conf.answer, AfterSyn, conf.remote_next,
                               {"PSH", "ACK"}, RequestLength)
      [] p = "send final ack" -> build_tcp_ipv4_frame(conf.http_mac, conf.address,
                               conf.answer, AfterRequest, conf.payload_ack, {"ACK"}, 0)
      [] p = "reply" -> conf.reply

\* Where configure() or poll() goes once transmit() has returned Ok.
AfterSend ==
    ("send discover" :> "await offer") @@ ("send request" :> "await ack")
    @@ ("send arp" :> "await arp") @@ ("send echo" :> "await echo")
    @@ ("send dns arp" :> "await dns arp") @@ ("send query" :> "await answer")
    @@ ("send http arp" :> "await http arp") @@ ("send syn" :> "await syn ack")
    @@ ("send ack" :> "send get") @@ ("send get" :> "await response")
    @@ ("send final ack" :> "main loop") @@ ("reply" :> "poll")

WaitErrors ==
    ("await offer" :> "DhcpTimedOut") @@ ("await ack" :> "DhcpTimedOut")
    @@ ("await arp" :> "ArpTimedOut") @@ ("await echo" :> "IcmpTimedOut")
    @@ ("await dns arp" :> "ArpTimedOut") @@ ("await answer" :> "DnsTimedOut")
    @@ ("await http arp" :> "ArpTimedOut") @@ ("await syn ack" :> "TcpTimedOut")
    @@ ("await response" :> "TcpTimedOut")

-----------------------------------------------------------------------------
(* configure(): what each wait does with a frame *)

Ignore == [net |-> "up", pc |-> pc, conf |-> conf]
Reject(error) == [net |-> error, pc |-> pc, conf |-> conf]
Proceed(p, c) == [net |-> "up", pc |-> p, conf |-> c]

OnOffer(f) ==
    LET options == parse_dhcp_options(f.options)
    IN  IF ~IsDhcpReply(f) \/ options.type # "offer" THEN Ignore
        ELSE IF ~Some(options.server) \/ f.address = ZeroAddress
        THEN Reject("DhcpRejected")
        ELSE Proceed("send request",
                     [conf EXCEPT !.offer = [address |-> f.address, options |-> options]])

\* Mutant: the acknowledged address is not compared with the offer.
OnAck_any_address(f) ==
    LET options == parse_dhcp_options(f.options)
        offer == conf.offer
        mask == Or(options.mask, offer.options.mask)
        gateway == Or(options.gateway, offer.options.gateway)
        lease == Or(options.lease, offer.options.lease)
    IN  IF ~IsDhcpReply(f) \/ options.type # "ack" THEN Ignore
        ELSE IF ~Some(mask) \/ ~Some(gateway) \/ ~Some(lease)
        THEN Reject("DhcpRejected")
        ELSE Proceed("send arp",
                [conf EXCEPT
                    !.address = f.address, !.mask = mask, !.gateway = gateway,
                    !.lease = lease,
                    !.server = Or(options.server, offer.options.server),
                    !.dns = Or(Or(options.dns, offer.options.dns),
                               default_dns_server(offer.address, gateway))])

\* The lease takes each option from the acknowledgement, or else the offer.
OnAck(f) ==
    LET options == parse_dhcp_options(f.options)
        offer == conf.offer
        mask == Or(options.mask, offer.options.mask)
        gateway == Or(options.gateway, offer.options.gateway)
        lease == Or(options.lease, offer.options.lease)
    IN  IF ~IsDhcpReply(f) \/ options.type # "ack" THEN Ignore
        ELSE IF f.address # offer.address \/ ~Some(mask) \/ ~Some(gateway) \/ ~Some(lease)
        THEN Reject("DhcpRejected")
        ELSE Proceed("send arp",
                [conf EXCEPT
                    !.address = f.address, !.mask = mask, !.gateway = gateway,
                    !.lease = lease,
                    !.server = Or(options.server, offer.options.server),
                    !.dns = Or(Or(options.dns, offer.options.dns),
                               default_dns_server(offer.address, gateway))])

OnArp(f) ==
    IF ~parse_arp_reply(f, conf.address, conf.gateway) THEN Ignore
    ELSE Proceed("send echo", [conf EXCEPT !.gateway_mac = f.sha])

\* After the echo: the DNS server is reached through the gateway, or directly
\* once its own hardware address is known.
OnEcho(f) ==
    LET hop == dns_next_hop(conf.address, conf.mask, conf.gateway, conf.dns)
    IN  IF ~parse_icmp_echo_reply(f, conf.gateway_mac, conf.address, conf.gateway)
        THEN Ignore
        ELSE IF hop = conf.gateway
        THEN Proceed("send query", [conf EXCEPT !.dns_hop = hop,
                                                !.dns_mac = conf.gateway_mac])
        ELSE Proceed("send dns arp", [conf EXCEPT !.dns_hop = hop])

OnDnsArp(f) ==
    IF ~parse_arp_reply(f, conf.address, conf.dns_hop) THEN Ignore
    ELSE Proceed("send query", [conf EXCEPT !.dns_mac = f.sha])

OnAnswer(f) ==
    LET answer == parse_dns_response(f, conf.dns_mac, conf.address, conf.dns)
        hop == route_next_hop(conf.address, conf.mask, conf.gateway, answer)
    IN  IF ~Some(answer) THEN Ignore
        ELSE IF hop = conf.gateway
        THEN Proceed("send syn", [conf EXCEPT !.answer = answer, !.http_hop = hop,
                                              !.http_mac = conf.gateway_mac])
        ELSE Proceed("send http arp", [conf EXCEPT !.answer = answer, !.http_hop = hop])

OnHttpArp(f) ==
    IF ~parse_arp_reply(f, conf.address, conf.http_hop) THEN Ignore
    ELSE Proceed("send syn", [conf EXCEPT !.http_mac = f.sha])

\* wait_for_tcp_segment with perform_http_get's acceptance test.
OnSynAck(f) ==
    IF ~parse_tcp_segment(f, conf.http_mac, conf.address, conf.answer) THEN Ignore
    ELSE IF "RST" \in f.flags THEN Reject("TcpRejected")
    ELSE IF {"SYN", "ACK"} \subseteq f.flags /\ f.ack = AfterSyn % SeqModulus
    THEN Proceed("send ack", [conf EXCEPT !.remote_next = (f.seq + 1) % SeqModulus])
    ELSE Ignore

\* The response is read, and the number the final ACK acknowledges.
ResponseRead(f) ==
    Proceed("send final ack",
            [conf EXCEPT !.http_status = f.status, !.response_bytes = f.length,
                         !.response = [seq |-> f.seq, ack |-> f.ack],
                         !.payload_ack = (f.seq + f.length
                             + (IF "FIN" \in f.flags THEN 1 ELSE 0)) % SeqModulus])

\* Mutant: a status is taken from a segment that acknowledges no request.
OnResponse_any_ack(f) ==
    IF ~parse_tcp_segment(f, conf.http_mac, conf.address, conf.answer) THEN Ignore
    ELSE IF "RST" \in f.flags THEN Reject("TcpRejected")
    ELSE IF ~parse_http_status(f) THEN Ignore
    ELSE ResponseRead(f)

\* wait_for_http_response.  The sequence number of the segment is not looked at.
OnResponse(f) ==
    IF ~parse_tcp_segment(f, conf.http_mac, conf.address, conf.answer) THEN Ignore
    ELSE IF "RST" \in f.flags THEN Reject("TcpRejected")
    ELSE IF f.ack # AfterRequest % SeqModulus \/ ~parse_http_status(f) THEN Ignore
    ELSE ResponseRead(f)

-----------------------------------------------------------------------------
(* Actions *)

\* configure() starts with VirtioNet::discover.
Discover ==
    /\ pc = "discover"
    /\ DiscoverNet
    /\ pc' = "send discover"
    /\ UNCHANGED <<conf, polled, handed>>

\* A call of device.transmit.
Transmit ==
    /\ pc \in DOMAIN AfterSend
    /\ StartTransmit(FrameAt(pc))
    /\ UNCHANGED clientVars

\* transmit() returns Ok to its caller, or an error that halts.
Transmitted ==
    /\ TransmitReturns
    /\ IF net' = "up"
       THEN pc' = AfterSend[pc] /\ handed' = handed \cup {FrameAt(pc)}
       ELSE UNCHANGED <<pc, handed>>
    /\ UNCHANGED <<conf, polled>>

NotTransmitted == TransmitTimesOut /\ UNCHANGED clientVars

\* One turn of a wait loop that receives a frame.
Await(p, next) ==
    /\ pc = p
    /\ TakeFrame
    /\ net' = next.net /\ pc' = next.pc /\ conf' = next.conf
    /\ UNCHANGED <<polled, handed>>

wait_for_dhcp_offer == Await("await offer", OnOffer(rxBuffer))
wait_for_dhcp_ack == Await("await ack", OnAck(rxBuffer))
wait_for_arp_reply == Await("await arp", OnArp(rxBuffer))
wait_for_icmp_echo_reply == Await("await echo", OnEcho(rxBuffer))
wait_for_dns_arp_reply == Await("await dns arp", OnDnsArp(rxBuffer))
wait_for_dns_response == Await("await answer", OnAnswer(rxBuffer))
wait_for_http_arp_reply == Await("await http arp", OnHttpArp(rxBuffer))
wait_for_tcp_segment == Await("await syn ack", OnSynAck(rxBuffer))
wait_for_http_response == Await("await response", OnResponse(rxBuffer))

\* Mutant: only the DHCP waits are bounded.
WaitRunsOut_dhcp ==
    /\ pc \in {"await offer", "await ack"} /\ net = "up" /\ Received = "none"
    /\ net' = WaitErrors[pc]
    /\ UNCHANGED <<nhw, rx, tx, rxBuffer, txBuffer, sending, wire, clientVars>>

\* PROTOCOL_TIMEOUT_SPINS turns without an acceptable frame.
WaitRunsOut ==
    /\ pc \in DOMAIN WaitErrors /\ net = "up" /\ Received = "none"
    /\ net' = WaitErrors[pc]
    /\ UNCHANGED <<nhw, rx, tx, rxBuffer, txBuffer, sending, wire, clientVars>>

\* A received frame that try_receive refuses ends configure() or poll().
Refused ==
    /\ pc \in DOMAIN WaitErrors \/ (pc = "poll" /\ polled < PollBudget)
    /\ ReceiveFails
    /\ UNCHANGED clientVars

-----------------------------------------------------------------------------
(* poll() *)

\* The main loop of kernel-image calls poll().
poll ==
    /\ pc = "main loop" /\ net = "up"
    /\ pc' = "poll" /\ polled' = 0
    /\ UNCHANGED <<netVars, conf, handed>>

build_arp_reply(f) ==
    IF /\ f.proto = "arp" /\ f.op = 1 /\ f.src = f.sha /\ f.tpa = conf.address
       /\ f.sha \notin {NoMac, Broadcast}
    THEN {[proto |-> "arp", op |-> 2, src |-> Mac, dst |-> f.sha, sha |-> Mac,
           spa |-> conf.address, tpa |-> f.spa]}
    ELSE {}

build_icmp_echo_reply(f) ==
    IF /\ f.proto = "icmp" /\ f.intact /\ f.dst = Mac /\ f.to = conf.address
       /\ f.type = "request"
    THEN {[f EXCEPT !.dst = f.src, !.src = Mac, !.from = f.to, !.to = f.from,
                    !.type = "reply"]}
    ELSE {}

\* What one received frame makes poll() transmit.  A TCP segment goes to the
\* listener, whose own module decides its answer; here it may answer or not.
PollReplies(f) ==
    IF build_arp_reply(f) \cup build_icmp_echo_reply(f) # {}
    THEN build_arp_reply(f) \cup build_icmp_echo_reply(f)
    ELSE IF f.proto = "tcp" /\ f.intact /\ f.to = conf.address /\ f.port = "listener"
    THEN {NoFrame, build_tcp_ipv4_frame(f.src, conf.address, f.from, f.ack, f.seq, {"ACK"}, 0)}
    ELSE {NoFrame}

PollFrame ==
    /\ pc = "poll" /\ polled < PollBudget
    /\ TakeFrame /\ UNCHANGED net
    /\ polled' = polled + 1
    /\ \E reply \in PollReplies(rxBuffer) :
         /\ conf' = [conf EXCEPT !.reply = reply]
         /\ pc' = IF reply = NoFrame THEN "poll" ELSE "reply"
    /\ UNCHANGED handed

PollReturns ==
    /\ pc = "poll" /\ net = "up"
    /\ polled = PollBudget \/ Received = "none"
    /\ pc' = "main loop"
    /\ polled' = 0 /\ conf' = [conf EXCEPT !.reply = NoFrame]
    /\ UNCHANGED <<netVars, handed>>

-----------------------------------------------------------------------------
(* The network: anything the hosts may send, given what is on the wire *)

Arrives == \E f \in Answers(wire) : DeviceReceives(f) /\ UNCHANGED clientVars
Sends == DeviceSends /\ UNCHANGED clientVars

Fields == {"offer", "address", "mask", "gateway", "lease", "server", "dns",
           "gateway_mac", "dns_hop", "dns_mac", "answer", "http_hop", "http_mac",
           "remote_next", "http_status", "response_bytes", "response", "payload_ack"}

Init ==
    /\ NetInit
    /\ pc = "discover"
    /\ conf = [field \in Fields |-> NoOption] @@ ("reply" :> NoFrame)
    /\ polled = 0 /\ handed = {}

Waits == wait_for_dhcp_offer \/ wait_for_dhcp_ack \/ wait_for_arp_reply
      \/ wait_for_icmp_echo_reply \/ wait_for_dns_arp_reply \/ wait_for_dns_response
      \/ wait_for_http_arp_reply \/ wait_for_tcp_segment \/ wait_for_http_response
Kernel == Discover \/ Transmit \/ Transmitted \/ NotTransmitted \/ Waits \/ Refused
       \/ poll \/ PollFrame \/ PollReturns
Next == Kernel \/ WaitRunsOut \/ Arrives \/ Sends

\* The kernel keeps executing; a wait loop is bounded, so a wait that finds
\* nothing acceptable again and again runs out.  Nothing is assumed of the
\* device or the hosts.
Fairness == WF_vars(Kernel) /\ SF_vars(WaitRunsOut)
Spec == Init /\ [][Next]_vars /\ Fairness

-----------------------------------------------------------------------------
(* Properties *)

\* The driver, configure() and poll() keep their variables in their types.
TypeOK ==
    /\ nhw \in NetHardware
    /\ IsQueue(rx, 0..DMA_BUFFER_BYTES) /\ IsQueue(tx, {0})
    /\ sending \in BOOLEAN /\ (sending => pc \in DOMAIN AfterSend)
    /\ pc \in {"discover", "main loop", "poll"} \cup DOMAIN AfterSend \cup DOMAIN WaitErrors
    /\ polled \in 0..PollBudget
    /\ conf.gateway_mac \in Macs \cup {NoOption} /\ conf.dns_mac \in Macs \cup {NoOption}

\* While the driver runs, exactly one receive buffer is with the device or
\* waiting to be taken: try_receive posts it again before it returns a frame
\* ("a continuously posted receive buffer", README.md).
ReceiveBufferPosted == net = "up" => Outstanding(rx) = 1

\* transmit() returns Ok only for a frame that is on the wire, and the device
\* never sends anything but the frame handed to the call under way: the one
\* transmit buffer is not reused before its completion.
FramesReachTheWire ==
    /\ handed \subseteq wire
    /\ wire \subseteq handed \cup {txBuffer}
    /\ sending => txBuffer = FrameAt(pc)

\* The lease is complete and for the address that was requested of the server
\* whose offer was taken, however late or often offers and acknowledgements of
\* either server arrive: the other one's address is never used, and no late
\* offer replaces what was asked for.  Which server acknowledges that address,
\* and so sends the options that count, configure() does not compare.
LeaseAsRequested ==
    Some(conf.address) =>
        /\ build_dhcp_frame("request", conf.address, conf.offer.options.server) \in handed
        /\ conf.address # ZeroAddress
        /\ Some(conf.mask) /\ Some(conf.gateway) /\ Some(conf.dns) /\ Some(conf.lease)

\* Every IP packet goes to the hardware address of the host that must carry
\* it: the destination itself on the lease's subnet, the gateway otherwise.
\* Only the DNS server next to the gateway's address goes through the gateway
\* whatever the mask (dns_next_hop).
PacketsRouted ==
    pc \notin {"main loop", "poll", "reply"} =>
        \A f \in {g \in wire : g.proto \in {"icmp", "dns", "tcp"}} :
            LET direct == conf.mask = "none" \/ f.to.net = conf.address.net
                near == f.proto = "dns"
                        /\ f.to = [conf.gateway EXCEPT !.host = @ + 1]
            IN  f.dst = OwnerOf[IF direct /\ ~near THEN f.to ELSE conf.gateway]

\* The exchange that proves HTTP works is one connection: the segment with the
\* status acknowledges the last byte of a request that was sent to that host,
\* not a part of it, and the final ACK covers exactly that segment, across wraps
\* of the sequence numbers.  That it is the first segment of the response is not
\* compared.
ResponseOfThisConnection ==
    Some(conf.payload_ack) =>
        /\ \E get \in handed :
              /\ get.proto = "tcp" /\ get.length = RequestLength
              /\ get.ack = conf.remote_next /\ get.to = conf.answer
              /\ (conf.response.ack - get.seq) % SeqModulus = get.length
        /\ (conf.payload_ack - conf.response.seq) % SeqModulus
             \in {conf.response_bytes, conf.response_bytes + 1}

\* configure() always ends: with a running interface or with an error.
ConfigureEnds == <>(pc = "main loop" \/ net \notin {"none", "up"})

\* However much traffic arrives, poll() gives control back to the main loop,
\* unless it fails and the kernel halts (the budget of 32 frames).
PollGivesBack ==
    (pc \in {"poll", "reply"}) ~> (pc = "main loop" \/ net # "up")

\* The two buffers of the driver are never lost or mixed up: the receive buffer
\* is with the device whenever the interface is up, and a frame for which
\* transmit() returned Ok, and no other, is on the wire.
BuffersKept == TypeOK /\ ReceiveBufferPosted /\ FramesReachTheWire

\* No wait is unbounded: configure() ends with an interface or an error, and
\* poll() returns to the desktop loop however much traffic there is.
WaitsEnd == ConfigureEnds /\ PollGivesBack
=============================================================================
