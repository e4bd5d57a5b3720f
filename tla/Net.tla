-------------------------------- MODULE Net --------------------------------
(***************************************************************************)
(* Ethernet, ARP, IPv4, ICMP and UDP (kernel/net), the network system      *)
(* calls, and the DNS and HTTP clients of the user library, in several     *)
(* processes.  A system call that polls is not preempted: one call is in   *)
(* progress at a time, and each turn of its loop receives at most one      *)
(* frame, whoever that is for.                                             *)
(*                                                                         *)
(* Abstractions.  A frame that fails a length, version, fragment or        *)
(* checksum test is one that is not intact.  The network loses, repeats,   *)
(* delays and reorders: at any turn there may come any frame the hosts can *)
(* have sent.  The device and its link are read anew by every call, which  *)
(* may then fail at once.  TCP is module Tcp; here a connection is what    *)
(* its calls return and the address its segments go to, and a turn that    *)
(* receives a segment is one that receives nothing.  A page and a request  *)
(* are counted in pieces.                                                  *)
(***************************************************************************)
EXTENDS Integers, Sequences, Functions

CONSTANTS
  Procs, Names, BadName, \* processes, host names, a name build_query refuses
  Gateway, Dns, Host,    \* hosts of the subnet
  Far,                   \* addresses of the sites, behind the gateway
  OurIp,
  ARP_CAP,               \* entries of the ARP cache (32)
  MAX_UDP_QUEUE,         \* datagrams waiting (32)
  IdMod, PortMod,        \* 2^16 query ids, 1000 local ports
  Polls,                 \* bound: turns of a polling loop
  MaxLookups,            \* bound: lookups of all the processes
  PageLen, BodyCap,      \* pieces of a page, pieces get takes (32 KiB)
  ReqLen                 \* pieces of a request

VARIABLES
  arp,         \* ARP_CACHE
  rx,          \* UDP_STATE.rx
  lookups,     \* lookups of a process: NEXT_DNS_ID is one more, modulo IdMod
  cl,          \* what each process is doing
  call,        \* the system call in progress
  open,        \* processes that have a TCP connection
  queries,     \* history: the DNS queries transmitted
  heard,       \* history: the MAC address the gateway claimed last
  tx,          \* history: the frames the last step transmitted
  res          \* history: what a get, lookup or ping returned in the last step

vars == <<arp, rx, lookups, cl, call, open, queries, heard, tx, res>>

Hosts == {Gateway, Dns, Host}
Zero == "0.0.0.0"
NoHost == ""
BroadcastIp == "255.255.255.255"
OurMac == <<OurIp, 1>>
Broadcast == <<"all", 0>>
ZeroMac == <<"zero", 0>>
NoMac == <<"none", 0>>

\* The gateway may come back with another address, as after a failover.
MacsOf(h) == IF h = Gateway THEN {<<h, 1>>, <<h, 2>>} ELSE {<<h, 1>>}

\* The ports of the lookups, and one more.
Ports == 0 .. PortMod
NoQuery == [proc |-> "none", id |-> 0, port |-> 0, name |-> BadName]
Idle == [op |-> "idle", proc |-> "none", dst |-> Zero, left |-> 0]
Resting == [pc |-> "idle", query |-> NoQuery, answered |-> NoQuery, mac |-> NoMac,
            sent |-> 0, body |-> 0]
NoResult == [out |-> "none", body |-> 0]

ASSUME NetAssumption ==
  /\ Host # Gateway /\ Zero \notin Hosts
  /\ {ARP_CAP, MAX_UDP_QUEUE, IdMod, PortMod, Polls} \subseteq Nat \ {0}
  /\ PageLen \in Nat /\ ReqLen \in Nat

Init ==
  /\ arp = << >> /\ rx = << >>
  /\ lookups = [p \in Procs |-> 0]
  /\ cl = [p \in Procs |-> Resting]
  /\ call = Idle
  /\ open = {} /\ queries = {}
  /\ heard = NoMac
  /\ tx = << >>
  /\ res = NoResult

-----------------------------------------------------------------------------
(* The ARP cache.                                                          *)

lookup(cache, ip) ==
  IF \E e \in Range(cache) : e.ip = ip
  THEN cache[CHOOSE i \in DOMAIN cache : cache[i].ip = ip].mac ELSE NoMac

\* Mutant of update: an entry that is there is left as it is.
MutKeepOld(ip, mac) ==
  IF ip = Zero \/ mac \in {ZeroMac, Broadcast} \/ \E e \in Range(arp) : e.ip = ip THEN arp
  ELSE Append(IF Len(arp) >= ARP_CAP THEN Tail(arp) ELSE arp, [ip |-> ip, mac |-> mac])

\* update: the entry of a host is overwritten; a full cache loses its oldest.
update(ip, mac) ==
  IF ip = Zero \/ mac \in {ZeroMac, Broadcast} THEN arp
  ELSE IF \E e \in Range(arp) : e.ip = ip
  THEN [i \in DOMAIN arp |-> IF arp[i].ip = ip THEN [ip |-> ip, mac |-> mac] ELSE arp[i]]
  ELSE Append(IF Len(arp) >= ARP_CAP THEN Tail(arp) ELSE arp, [ip |-> ip, mac |-> mac])

-----------------------------------------------------------------------------
(* The frames the hosts can have sent.                                     *)

ArpFrame(op, h, mac, tpa) ==
  [type |-> "arp", dst |-> IF op = "reply" THEN OurMac ELSE Broadcast,
   op |-> op, spa |-> h, sha |-> mac, tpa |-> tpa]

\* Requests, for us or for others, replies, the probe of a host that has no
\* address yet, and claims of the broadcast address and of none.
ArpFrames ==
  (UNION {UNION {{ArpFrame("request", h, m, Zero), ArpFrame("reply", h, m, OurIp)} :
                 m \in MacsOf(h)} : h \in Hosts})
  \cup {ArpFrame("request", Host, <<Host, 1>>, OurIp), ArpFrame("request", Zero, <<Host, 1>>, Zero),
        ArpFrame("reply", Host, Broadcast, OurIp), ArpFrame("reply", Host, ZeroMac, OurIp)}

Packet(h, dst, proto, data) ==
  [type |-> "ip", dst |-> OurMac, mac |-> <<h, 1>>, src |-> h, to |-> dst,
   proto |-> proto, intact |-> TRUE, data |-> data]

Datagram(h, sport, dport, query) ==
  [src |-> h, sport |-> sport, dport |-> dport, query |-> query]

\* The server answers what it was asked, perhaps more than once and late; other
\* datagrams come from elsewhere.
UdpFrames ==
  {Packet(Dns, OurIp, "udp", Datagram(Dns, "dns", q.port, q)) : q \in queries}
  \cup {Packet(Host, OurIp, "udp", Datagram(Host, "other", port, NoQuery)) : port \in Ports}

IcmpFrames == {Packet(Host, OurIp, "icmp", k) : k \in {"echo request", "echo reply", "other"}}

\* Frames that poll_once or a handler drops.
Dropped ==
  LET f == Packet(Host, OurIp, "udp", Datagram(Host, "other", 0, NoQuery))
  IN  {[f EXCEPT !.intact = FALSE], [f EXCEPT !.dst = <<"another", 0>>], [f EXCEPT !.to = Host]}

Incoming == ArpFrames \cup UdpFrames \cup IcmpFrames \cup Dropped

-----------------------------------------------------------------------------
(* poll_once and the handlers.  Each gives the state after a frame.        *)

Nothing == [arp |-> arp, rx |-> rx, heard |-> heard, tx |-> << >>]

\* A frame handed to the device.
ethernet_send(kind, mac, ip) == [kind |-> kind, mac |-> mac, ip |-> ip]

ipv4_send(kind, mac, ip) == ethernet_send(kind, mac, ip)

send_request(ip) == ethernet_send("arp request", Broadcast, ip)

send_reply(f) == ethernet_send("arp reply", f.sha, f.spa)

\* The reply goes where the request came from, not by way of the ARP cache.
send_echo_reply(f) == ipv4_send("echo reply", f.mac, f.src)

is_our_ipv4(ip) == ip = OurIp

for_us(mac) == mac \in {OurMac, Broadcast}

arp_handle_packet(f) ==
  [Nothing EXCEPT
     !.arp = update(f.spa, f.sha),
     !.heard = IF f.spa = Gateway THEN f.sha ELSE @,
     !.tx = IF f.op = "request" /\ is_our_ipv4(f.tpa) THEN <<send_reply(f)>> ELSE @]

icmp_handle_packet(f) ==
  [Nothing EXCEPT !.tx = IF f.data = "echo request" THEN <<send_echo_reply(f)>> ELSE @]

\* The queue is shared by all ports; a full one loses its oldest datagram.
udp_handle_packet(f) ==
  [Nothing EXCEPT !.rx = Append(IF Len(@) >= MAX_UDP_QUEUE THEN Tail(@) ELSE @, f.data)]

\* Lengths, version, header checksum and fragmentation.
parse(f) == f.intact

ipv4_handle_packet(f) ==
  IF ~parse(f) \/ ~(is_our_ipv4(f.to) \/ f.to = BroadcastIp) THEN Nothing
  ELSE IF f.proto = "icmp" THEN icmp_handle_packet(f) ELSE udp_handle_packet(f)

poll_once(f) ==
  IF ~for_us(f.dst) THEN Nothing
  ELSE IF f.type = "arp" THEN arp_handle_packet(f) ELSE ipv4_handle_packet(f)

\* One poll: no frame, or one of those that can come.
Polled == {Nothing} \cup {poll_once(f) : f \in Incoming}

Take(r, sent) ==
  /\ arp' = r.arp /\ rx' = r.rx /\ heard' = r.heard
  /\ tx' = r.tx \o sent

\* A segment of a connection: it goes to the address that connect found, which
\* is kept with the connection.  It stands for all those of a step, as when an
\* acknowledgement that is due goes before the data; a step may have none to send.
Segment(p) == ipv4_send("segment", cl[p].mac, Far)

Flushed(p) == {<< >>, <<Segment(p)>>}

-----------------------------------------------------------------------------
(* Returning to a process.                                                 *)

Result(p, out) == [out |-> out, body |-> cl[p].body]

\* Mutant of Fail: the connection is not closed.
MutNoDrop(p) ==
  /\ call' = Idle
  /\ cl' = [cl EXCEPT ![p] = Resting]
  /\ res' = Result(p, "error")
  /\ UNCHANGED <<open, lookups, queries>>

\* A call fails and what the process was doing with it; a TcpStream is closed
\* when it is dropped.
Fail(p) ==
  /\ call' = Idle
  /\ cl' = [cl EXCEPT ![p] = Resting]
  /\ res' = Result(p, "error")
  /\ open' = open \ {p}
  /\ UNCHANGED <<lookups, queries>>

Proceed(p, pc) ==
  /\ call' = Idle
  /\ cl' = [cl EXCEPT ![p].pc = pc]
  /\ res' = NoResult

-----------------------------------------------------------------------------
(* Finding the MAC address of the next hop, and transmitting to it.        *)

next_hop_for(ip) == IF ip \in Hosts THEN ip ELSE Gateway

\* The end of send_to, and connect and ping up to their second loop, once the
\* address is known: the frame is handed to the device, which may refuse it.
Transmit(p, op, dst, mac, r) ==
  \/ /\ Take(r, <<ipv4_send(op, mac, dst)>>)
     /\ \/ /\ op = "udp"
           /\ queries' = queries \cup {cl[p].query}
           /\ Proceed(p, "recv")
           /\ UNCHANGED <<lookups, open>>
        \/ /\ op = "tcp"
           /\ open' = open \cup {p}
           /\ call' = [op |-> "syn", proc |-> p, dst |-> dst, left |-> Polls]
           /\ cl' = [cl EXCEPT ![p] = [Resting EXCEPT !.pc = "handshake", !.mac = mac]]
           /\ res' = NoResult /\ UNCHANGED <<lookups, queries>>
        \/ /\ op = "ping"
           /\ call' = [op |-> "echo", proc |-> p, dst |-> dst, left |-> Polls]
           /\ res' = NoResult /\ UNCHANGED <<lookups, cl, open, queries>>
  \/ Take(r, << >>) /\ Fail(p)

\* send_to, connect and ping up to their loop.
Begin(p, op, dst) ==
  LET mac == lookup(arp, next_hop_for(dst))
  IN  \/ Take(Nothing, << >>) /\ Fail(p)
      \/ mac # NoMac /\ Transmit(p, op, dst, mac, Nothing)
      \/ /\ mac = NoMac
         /\ Take(Nothing, <<send_request(next_hop_for(dst))>>)
         /\ call' = [op |-> op, proc |-> p, dst |-> dst, left |-> Polls]
         /\ res' = NoResult /\ UNCHANGED <<lookups, cl, open, queries>>

\* A turn of the loop of resolve_mac, and of that of ping, which is the same.
resolve_turn ==
  /\ call.op \in {"udp", "tcp", "ping"} /\ call.left > 0
  /\ \E r \in Polled :
       LET mac == lookup(r.arp, next_hop_for(call.dst))
       IN  \/ mac # NoMac /\ Transmit(call.proc, call.op, call.dst, mac, r)
           \/ /\ mac = NoMac
              /\ Take(r, << >>)
              /\ call' = [call EXCEPT !.left = @ - 1]
              /\ res' = NoResult /\ UNCHANGED <<lookups, cl, open, queries>>

resolve_timeout ==
  /\ call.op \in {"udp", "tcp", "ping"} /\ call.left = 0
  /\ Take(Nothing, << >>)
  /\ \/ call.op # "ping" /\ Fail(call.proc)
     \/ /\ call.op = "ping"
        /\ call' = Idle
        /\ res' = Result(call.proc, "arp sent")
        /\ UNCHANGED <<lookups, cl, open, queries>>

\* sys_net_ping_gateway, then the turns that give the reply time to come.
ping_gateway(p) ==
  /\ call = Idle /\ cl[p].pc = "idle"
  /\ Begin(p, "ping", Gateway)

echo_turn ==
  /\ call.op = "echo"
  /\ \/ /\ call.left > 0
        /\ \E r \in Polled : Take(r, << >>)
        /\ call' = [call EXCEPT !.left = @ - 1]
        /\ res' = NoResult
     \/ /\ call.left = 0
        /\ Take(Nothing, << >>)
        /\ call' = Idle
        /\ res' = Result(call.proc, "sent")
  /\ UNCHANGED <<lookups, cl, open, queries>>

-----------------------------------------------------------------------------
(* UDP reception.                                                          *)

recv_from(p) ==
  /\ call = Idle /\ cl[p].pc = "recv"
  /\ call' = [op |-> "recv", proc |-> p, dst |-> Zero, left |-> Polls]
  /\ Take(Nothing, << >>) /\ res' = NoResult
  /\ UNCHANGED <<lookups, cl, open, queries>>

\* Mutant of position: only the oldest datagram is looked at.
MutHeadOnly(port) == {i \in DOMAIN rx : i = 1 /\ rx[i].dport = port}

\* Where the first datagram for a port is in the queue.
position(port) ==
  {i \in DOMAIN rx : rx[i].dport = port /\ \A j \in 1 .. (i - 1) : rx[j].dport # port}

\* VecDeque::remove, at an index that is there.
remove(s, i) == SubSeq(s, 1, i - 1) \o SubSeq(s, i + 1, Len(s))

\* Mutant of parse_response: the id is not compared.
MutAnyId(d, id) == TRUE

\* An answer resolve_a may take.  The name in it is not looked at.
parse_response(d, id) == d.query.id = id

\* resolve_a_all_with_server, given the datagram d: one that does not come from
\* the server's port is skipped, any other decides, and may be malformed, an
\* error or without an address.
Answer(p, d) ==
  \/ /\ d.src # Dns \/ d.sport # "dns"
     /\ Proceed(p, "recv")
     /\ UNCHANGED <<lookups, open, queries>>
  \/ /\ d.src = Dns /\ d.sport = "dns"
     /\ parse_response(d, cl[p].query.id)
     /\ call' = Idle /\ res' = NoResult
     /\ cl' = [cl EXCEPT ![p].pc = "connect", ![p].answered = d.query]
     /\ UNCHANGED <<lookups, open, queries>>
  \/ /\ d.src = Dns /\ d.sport = "dns"
     /\ Fail(p)

\* A turn of the loop of recv_from: the first datagram for the port, or a poll.
recv_turn ==
  LET p == call.proc
      at == position(cl[p].query.port)
  IN  /\ call.op = "recv" /\ call.left > 0
      /\ \/ \E i \in at :
              /\ Take([Nothing EXCEPT !.rx = remove(@, i)], << >>)
              /\ Answer(p, rx[i])
         \/ /\ at = {}
            /\ \E r \in Polled : Take(r, << >>)
            /\ call' = [call EXCEPT !.left = @ - 1]
            /\ res' = NoResult /\ UNCHANGED <<lookups, cl, open, queries>>

recv_timeout ==
  /\ call.op = "recv" /\ call.left = 0
  /\ Take(Nothing, << >>)
  /\ Fail(call.proc)

-----------------------------------------------------------------------------
(* The clients: http::get, which begins with dns::resolve_a.               *)

SumLookups == FoldFunctionOnSet(LAMBDA a, b : a + b, 0, lookups, Procs)

\* A URL is a scheme and a host; without a scheme it is taken for http.
Urls == [scheme : {"http", "https"}, host : Names \cup {BadName}]

parse_http_url(url) == IF url.scheme = "https" THEN NoHost ELSE url.host

build_query(name) == name # BadName

\* get_url as far as the lookup: without a host it fails; with one, the id of the
\* query is used up before the name is examined.
get_url(p, url) ==
  LET id == (1 + lookups[p]) % IdMod
      name == parse_http_url(url)
      q == [proc |-> p, id |-> id, port |-> id % PortMod, name |-> name]
  IN  /\ call = Idle /\ cl[p].pc = "idle" /\ SumLookups < MaxLookups
      /\ \/ /\ name # NoHost /\ build_query(name)
            /\ lookups' = [lookups EXCEPT ![p] = @ + 1]
            /\ cl' = [cl EXCEPT ![p] = [Resting EXCEPT !.pc = "query", !.query = q]]
            /\ res' = NoResult
         \/ /\ name # NoHost /\ ~build_query(name)
            /\ lookups' = [lookups EXCEPT ![p] = @ + 1]
            /\ res' = Result(p, "error")
            /\ UNCHANGED cl
         \/ /\ name = NoHost
            /\ res' = Result(p, "error")
            /\ UNCHANGED <<lookups, cl>>
      /\ Take(Nothing, << >>)
      /\ UNCHANGED <<call, open, queries>>

udp_send_to(p) ==
  /\ call = Idle /\ cl[p].pc = "query"
  /\ Begin(p, "udp", Dns)

tcp_connect(p) ==
  /\ call = Idle /\ cl[p].pc = "connect"
  /\ Begin(p, "tcp", Far)

\* A turn of the second loop of connect: the connection is established and that
\* acknowledged; it is refused, or the acknowledgement fails; or another frame or
\* none comes, and perhaps the SYN is sent again.
connect_turn ==
  LET p == call.proc
  IN  /\ call.op = "syn" /\ call.left > 0
      /\ \/ /\ Take(Nothing, <<Segment(p)>>)
            /\ Proceed(p, "request")
            /\ UNCHANGED <<lookups, open, queries>>
         \/ Take(Nothing, << >>) /\ Fail(p)
         \/ /\ \E r \in Polled, s \in Flushed(p) : Take(r, s)
            /\ call' = [call EXCEPT !.left = @ - 1]
            /\ res' = NoResult /\ UNCHANGED <<lookups, cl, open, queries>>

connect_timeout ==
  /\ call.op = "syn" /\ call.left = 0
  /\ Take(Nothing, << >>)
  /\ Fail(call.proc)

\* What a send of n pieces may take, and a recv after n pieces may return: see
\* module Tcp.
tcp_send(n) == 1 .. n

tcp_recv(n) == {0} \cup (IF n < PageLen THEN {1} ELSE {})

\* One send of the request: it is transmitted, or the call fails and the stream is
\* closed.
http_send(p) ==
  /\ call = Idle /\ cl[p].pc = "request"
  /\ \/ /\ Take(Nothing, <<Segment(p)>>)
        /\ \E n \in tcp_send(ReqLen - cl[p].sent) : cl' = [cl EXCEPT ![p].sent = @ + n]
        /\ call' = [op |-> "send", proc |-> p, dst |-> Far, left |-> Polls]
        /\ res' = NoResult /\ UNCHANGED <<lookups, open, queries>>
     \/ (\E s \in Flushed(p) : Take(Nothing, s)) /\ Fail(p)

\* The turns after a send, and its return: the loop of get goes on with what was
\* not taken.
send_turn ==
  LET p == call.proc
  IN  /\ call.op = "send"
      /\ \/ /\ call.left > 0
            /\ \E r \in Polled, s \in Flushed(p) : Take(r, s)
            /\ call' = [call EXCEPT !.left = @ - 1]
            /\ res' = NoResult /\ UNCHANGED <<lookups, cl, open, queries>>
         \/ /\ call.left = 0
            /\ Take(Nothing, << >>)
            /\ Proceed(p, IF cl[p].sent = ReqLen THEN "body" ELSE "request")
            /\ UNCHANGED <<lookups, open, queries>>

\* stream.close and the result, with n pieces of the body.
Close(p, n) ==
  /\ call' = Idle
  /\ cl' = [cl EXCEPT ![p] = Resting]
  /\ open' = open \ {p}
  /\ res' = [Result(p, "ok") EXCEPT !.body = n]
  /\ UNCHANGED <<lookups, queries>>

\* An error of recv ends the body, unless it is still empty.
RecvError(p) == IF cl[p].body > 0 THEN Close(p, cl[p].body) ELSE Fail(p)

\* One recv of the body.
http_recv(p) ==
  /\ call = Idle /\ cl[p].pc = "body"
  /\ call' = [op |-> "body", proc |-> p, dst |-> Far, left |-> Polls]
  /\ Take(Nothing, << >>) /\ res' = NoResult
  /\ UNCHANGED <<lookups, cl, open, queries>>

\* A turn of its loop: the next piece or the end (or a reset) is there, or a poll.
body_turn ==
  LET p == call.proc
  IN  /\ call.op = "body" /\ call.left > 0
      /\ \/ \E n \in tcp_recv(cl[p].body) :
              \/ /\ n = 1 /\ cl[p].body + 1 < BodyCap
                 /\ Take(Nothing, << >>)
                 /\ call' = Idle
                 /\ cl' = [cl EXCEPT ![p].body = @ + 1]
                 /\ res' = NoResult /\ UNCHANGED <<lookups, open, queries>>
              \/ /\ n = 0 \/ cl[p].body + n >= BodyCap
                 /\ \E s \in Flushed(p) : Take(Nothing, s)
                 /\ Close(p, cl[p].body + n)
         \/ /\ \E r \in Polled, s \in Flushed(p) : Take(r, s)
            /\ call' = [call EXCEPT !.left = @ - 1]
            /\ res' = NoResult /\ UNCHANGED <<lookups, cl, open, queries>>

body_timeout ==
  /\ call.op = "body" /\ call.left = 0
  /\ \E s \in Flushed(call.proc) : Take(Nothing, s)
  /\ RecvError(call.proc)

-----------------------------------------------------------------------------

Next ==
  \/ resolve_turn \/ resolve_timeout \/ echo_turn \/ recv_turn \/ recv_timeout
  \/ connect_turn \/ connect_timeout \/ send_turn \/ body_turn \/ body_timeout
  \/ \E p \in Procs :
       \/ ping_gateway(p) \/ recv_from(p) \/ udp_send_to(p)
       \/ tcp_connect(p) \/ http_send(p) \/ http_recv(p)
       \/ \E url \in Urls : get_url(p, url)

Spec == Init /\ [][Next]_vars

-----------------------------------------------------------------------------

Query == [proc : Procs \cup {"none"}, id : 0 .. (IdMod - 1), port : Ports, name : Names \cup {BadName}]

\* The address a host claimed last.  Only the gateway has claimed two.
Claimed(h) == IF h = Gateway THEN heard ELSE <<h, 1>>

\* Type invariant; the cache and the queue stay within their limits.
TypeOK ==
  /\ arp \in Seq([ip : Hosts, mac : UNION {MacsOf(h) : h \in Hosts}]) /\ Len(arp) <= ARP_CAP
  /\ \A d \in Range(rx) : d.dport \in Ports /\ d.query \in Query
  /\ Len(rx) <= MAX_UDP_QUEUE
  /\ \A p \in Procs : cl[p].query \in Query /\ cl[p].answered \in Query
                      /\ cl[p].body \in 0 .. PageLen /\ cl[p].sent \in 0 .. ReqLen
  /\ call.op \in {"idle", "udp", "tcp", "ping", "echo", "recv", "syn", "send", "body"}
  /\ call.left \in 0 .. Polls
  /\ queries \subseteq Query

\* The cache holds one entry of a host, with the address the host claimed last,
\* whatever requests and replies of others came in between and evicted entries.
ArpLatest ==
  \A i \in DOMAIN arp :
    /\ arp[i].mac = Claimed(arp[i].ip)
    /\ \A j \in DOMAIN arp : arp[i].ip = arp[j].ip => i = j

\* What send_to, connect and ping transmit goes to the address that the next hop
\* claimed last: the one cached, or the one an ARP reply brought during the call.
\* The other segments of a connection go to an address of the next hop too, not
\* always the last: the one connect found is kept.
RightHop ==
  \A f \in Range(tx) :
    /\ f.kind \in {"udp", "tcp", "ping"} => f.mac = Claimed(next_hop_for(f.ip))
    /\ f.kind = "segment" => f.mac \in MacsOf(next_hop_for(f.ip))

\* A process takes the answer to another name for its own only when the ids are
\* equal: the query was that of another process, whose ids begin at 1 as well, or
\* the ids have wrapped.  The name is not compared.  In particular an answer that
\* comes after its lookup gave up does not answer a later one of the process that
\* uses the same port.
AnswerForName ==
  \A p \in Procs :
    LET q == cl[p].query
        a == cl[p].answered
    IN  cl[p].pc = "connect" /\ a.name # q.name =>
          a.id = q.id /\ (a.proc # p \/ lookups[p] > IdMod)

\* When recv_from gives up, what is in the queue for its port is at most the
\* datagram its last turn received, which is not looked at any more: no other
\* datagram is passed over, wherever in the shared queue it is.
TimeoutMissesLast ==
  call.op = "recv" /\ call.left = 0 =>
    \A i \in DOMAIN rx : rx[i].dport = cl[call.proc].query.port => i = Len(rx)

\* A process that does nothing holds no connection: every way a get can end
\* closes it.
NoConnLeft == \A p \in open : cl[p].pc \in {"handshake", "request", "body"}

\* A get that fails has received nothing: bytes that came are returned, although
\* they may be the beginning of a page that was cut.
BytesReturned == res.out = "error" => res.body = 0

\* Addresses: the cache has the latest, and frames go there.
HopsSound == TypeOK /\ ArpLatest /\ RightHop

\* A get, however it ends, leaves no connection and returns what it received.
GetsSound == NoConnLeft /\ BytesReturned

=============================================================================
