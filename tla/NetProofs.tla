------------------------------ MODULE NetProofs ------------------------------
(***************************************************************************)
(* The safety properties of Net, for any processes and names, any size of  *)
(* the ARP cache, of the datagram queue and of the spaces of query ids and *)
(* ports, and any number of turns of the polling loops.                    *)
(***************************************************************************)
EXTENDS Net, SequenceTheorems, WellFoundedInduction, TLAPS

Mac == UNION {MacsOf(h) : h \in Hosts}

Entry == [ip : Hosts, mac : Mac]

UdpDatagram == [src : Hosts, sport : {"dns", "other"}, dport : Ports, query : Query]

Client ==
  [pc : {"idle", "query", "recv", "connect", "handshake", "request", "body"},
   query : Query, answered : Query, mac : Mac \cup {NoMac}, sent : 0 .. ReqLen, body : 0 .. PageLen]

Call ==
  [op : {"idle", "udp", "tcp", "ping", "echo", "recv", "syn", "send", "body"},
   proc : Procs \cup {"none"},
   dst : {Zero, Gateway, Dns, Far}, left : 0 .. Polls]

\* A cache of latest addresses, when the gateway last claimed mac.
CacheOK(cache, mac) ==
  /\ cache \in Seq(Entry) /\ Len(cache) <= ARP_CAP
  /\ \A i \in DOMAIN cache :
       /\ cache[i].mac = IF cache[i].ip = Gateway THEN mac ELSE <<cache[i].ip, 1>>
       /\ cache[i].mac \in MacsOf(cache[i].ip)
       /\ \A j \in DOMAIN cache : cache[i].ip = cache[j].ip => i = j

\* A queue of datagrams: what comes from the server answers a query.
QueueOK(queue) ==
  /\ queue \in Seq(UdpDatagram) /\ Len(queue) <= MAX_UDP_QUEUE
  /\ \A i \in DOMAIN queue : queue[i].sport = "dns" => queue[i].query \in queries

Sends == {"udp", "tcp", "ping"}

Sent == Sends \cup {"segment"}

Types ==
  /\ CacheOK(arp, heard) /\ QueueOK(rx)
  /\ lookups \in [Procs -> Nat] /\ cl \in [Procs -> Client]
  /\ call \in Call /\ open \subseteq Procs /\ queries \subseteq Query

\* A call in progress is one its process is waiting in.
Waiting == [idle |-> "none", udp |-> "query", tcp |-> "connect", ping |-> "idle",
            echo |-> "idle", recv |-> "recv", syn |-> "handshake", send |-> "request",
            body |-> "body"]

CallInv ==
  call.op # "idle" =>
    /\ call.proc \in Procs /\ cl[call.proc].pc = Waiting[call.op]
    /\ call.op = "tcp" => call.dst = Far

LookingUp == {"query", "recv", "connect"}

Connected == {"handshake", "request", "body"}

\* A process that looks a name up has a query of its own; only one that reads the
\* body has received anything; a connection keeps an address of its next hop.
ClientInv ==
  \A p \in Procs :
    /\ cl[p].pc # "body" => cl[p].body = 0
    /\ cl[p].pc \in LookingUp => cl[p].query.proc = p
    /\ cl[p].pc \in Connected => cl[p].mac \in MacsOf(next_hop_for(Far))

\* The queries that were sent, and those about to be.
Asked == queries \cup {cl[p].query : p \in {c \in Procs : cl[c].pc \in LookingUp}}

\* Before its ids wrap, a process gives every name it asks for an id of its own,
\* and the ids it has given are the first ones.
IdsInv ==
  /\ \A q \in Asked : q.proc \in Procs /\ lookups[q.proc] > 0
                      /\ (lookups[q.proc] < IdMod => q.id \in 1 .. lookups[q.proc])
  /\ \A q, a \in Asked :
       q.proc = a.proc /\ q.id = a.id /\ lookups[q.proc] <= IdMod => q.name = a.name

\* What a process that is about to connect has taken for its answer.
AnswerInv ==
  \A p \in Procs : cl[p].pc = "connect" =>
    cl[p].answered \in queries /\ cl[p].answered.id = cl[p].query.id

IInv ==
  /\ Types /\ CallInv /\ ClientInv /\ IdsInv /\ AnswerInv
  /\ RightHop /\ TimeoutMissesLast /\ NoConnLeft /\ BytesReturned

-----------------------------------------------------------------------------
(* The ARP cache.                                                          *)

LEMMA Sizes ==
  /\ ARP_CAP \in Nat \ {0} /\ MAX_UDP_QUEUE \in Nat \ {0} /\ IdMod \in Nat \ {0}
  /\ PortMod \in Nat \ {0} /\ Polls \in Nat \ {0} /\ PageLen \in Nat /\ ReqLen \in Nat
  /\ Host # Gateway /\ Zero \notin Hosts
BY NetAssumption, Zenon

LEMMA MacsAre ==
  ASSUME NEW h \in Hosts, NEW m \in MacsOf(h)
  PROVE  m \in Mac /\ m # Broadcast /\ m # ZeroMac /\ (h # Gateway => m = <<h, 1>>)
<1>1. m = <<h, 1>> \/ (h = Gateway /\ m = <<h, 2>>)
  BY Zenon DEF MacsOf
<1>2. <<h, 1>> # Broadcast /\ <<h, 2>> # Broadcast /\ <<h, 1>> # ZeroMac /\ <<h, 2>> # ZeroMac
  BY DEF Broadcast, ZeroMac
<1>3. m \in Mac
  BY Zenon DEF Mac
<1>4. QED
  BY <1>1, <1>2, <1>3, Zenon

\* The entry that is overwritten.
LEMMA Overwritten ==
  ASSUME CacheOK(arp, heard), NEW h \in Hosts, NEW m \in MacsOf(h), NEW mac,
         mac = IF h = Gateway THEN m ELSE heard
  PROVE  CacheOK([i \in DOMAIN arp |-> IF arp[i].ip = h THEN [ip |-> h, mac |-> m] ELSE arp[i]],
                 mac)
<1> DEFINE e == [ip |-> h, mac |-> m]
           new == [i \in DOMAIN arp |-> IF arp[i].ip = h THEN e ELSE arp[i]]
<1>1. arp \in Seq(Entry) /\ Len(arp) <= ARP_CAP /\ Len(arp) \in Nat /\ DOMAIN arp = 1 .. Len(arp)
      /\ \A i \in DOMAIN arp : arp[i] \in Entry
  BY DEF CacheOK
<1>2. e \in Entry /\ e.ip = h /\ e.mac = m
  BY MacsAre, Zenon DEF Entry
<1> HIDE DEF e
<1>3. new \in [1 .. Len(arp) -> Entry]
  BY <1>1, <1>2, Zenon
<1>4. new \in Seq(Entry) /\ Len(new) = Len(arp) /\ DOMAIN new = DOMAIN arp
  BY <1>1, <1>3
<1>5. \A i \in DOMAIN arp : new[i].ip = arp[i].ip
  BY <1>2, Zenon
<1>6. \A i \in DOMAIN arp : new[i].mac = IF new[i].ip = Gateway THEN mac ELSE <<new[i].ip, 1>>
  <2> SUFFICES ASSUME NEW i \in DOMAIN arp
               PROVE  new[i].mac = IF new[i].ip = Gateway THEN mac ELSE <<new[i].ip, 1>>
    BY Zenon
  <2>1. CASE arp[i].ip = h
    BY <1>2, <2>1, MacsAre, Zenon
  <2>2. CASE arp[i].ip # h
    BY <2>2, Zenon DEF CacheOK
  <2>3. QED
    BY <2>1, <2>2, Zenon
<1>7. \A i \in DOMAIN arp : new[i].mac \in MacsOf(new[i].ip)
  BY <1>2, Zenon DEF CacheOK
<1> HIDE DEF new
<1>8. CacheOK(new, mac)
  BY <1>1, <1>4, <1>5, <1>6, <1>7, Zenon DEF CacheOK
<1>9. QED
  BY <1>8, Zenon DEF new, e

\* What is left when a full cache or queue loses its oldest.
LEMMA Shifted ==
  ASSUME NEW S, NEW s \in Seq(S), NEW cap \in Nat \ {0}, Len(s) <= cap, NEW b,
         b = IF Len(s) >= cap THEN Tail(s) ELSE s
  PROVE  /\ b \in Seq(S) /\ Len(b) \in Nat /\ Len(b) < cap /\ DOMAIN b = 1 .. Len(b)
         /\ \E o \in {0, 1} : \A i \in DOMAIN b : i + o \in DOMAIN s /\ b[i] = s[i + o]
<1>1. Len(s) \in Nat /\ DOMAIN s = 1 .. Len(s)
  OBVIOUS
<1>2. CASE Len(s) >= cap
  <2>1. s # << >>
    BY <1>1, <1>2
  <2>2. Tail(s) \in Seq(S) /\ Len(Tail(s)) = Len(s) - 1 /\ \A i \in 1 .. Len(Tail(s)) : Tail(s)[i] = s[i + 1]
    BY <2>1, HeadTailProperties, Zenon
  <2>3. b \in Seq(S) /\ Len(b) = Len(s) - 1 /\ \A i \in 1 .. Len(b) : b[i] = s[i + 1]
    BY <1>2, <2>2, Zenon
  <2>4. DOMAIN b = 1 .. Len(b) /\ Len(b) \in Nat
    BY <2>3, SMTT(30)
  <2>5. PICK n \in Nat, k \in Nat : n = Len(s) /\ k = Len(b)
    BY <1>1, <2>4, Zenon
  <2>6. k = n - 1 /\ n <= cap
    BY <2>3, <2>5, Zenon
  <2>7. k < cap /\ \A i \in 1 .. k : i + 1 \in 1 .. n
    BY <2>6, SMTT(30)
  <2>8. \A i \in DOMAIN b : i + 1 \in DOMAIN s /\ b[i] = s[i + 1]
    BY <1>1, <2>3, <2>4, <2>5, <2>7, ZenonT(30)
  <2>9. QED
    BY <2>3, <2>4, <2>5, <2>7, <2>8, Zenon
<1>3. CASE ~ (Len(s) >= cap)
  <2>1. b = s
    BY <1>3, Zenon
  <2>2. \A i \in 1 .. Len(s) : i + 0 = i
    BY <1>1, SMTT(30)
  <2>3. \A i \in DOMAIN b : i + 0 \in DOMAIN s /\ b[i] = s[i + 0]
    BY <1>1, <2>1, <2>2, Zenon
  <2>4. Len(b) < cap
    BY <1>1, <1>3, <2>1
  <2>5. QED
    BY <1>1, <2>1, <2>3, <2>4, Zenon
<1>4. QED
  BY <1>2, <1>3, Zenon

\* The entry of a host that had none.
LEMMA Added ==
  ASSUME CacheOK(arp, heard), NEW h \in Hosts, NEW m \in MacsOf(h), NEW mac,
         mac = IF h = Gateway THEN m ELSE heard,
         \A i \in DOMAIN arp : arp[i].ip # h
  PROVE  CacheOK(Append(IF Len(arp) >= ARP_CAP THEN Tail(arp) ELSE arp, [ip |-> h, mac |-> m]), mac)
<1>1. PICK e : e = [ip |-> h, mac |-> m]
  BY Zenon
<1>2. PICK b : b = IF Len(arp) >= ARP_CAP THEN Tail(arp) ELSE arp
  BY Zenon
<1>3. e \in Entry /\ e.ip = h /\ e.mac = m
  BY <1>1, MacsAre, Zenon DEF Entry
<1>4. /\ b \in Seq(Entry) /\ Len(b) \in Nat /\ Len(b) < ARP_CAP /\ DOMAIN b = 1 .. Len(b)
      /\ \E o \in {0, 1} : \A i \in DOMAIN b : i + o \in DOMAIN arp /\ b[i] = arp[i + o]
  BY <1>2, Shifted, Sizes DEF CacheOK
<1>5. PICK o \in {0, 1} : \A i \in DOMAIN b : i + o \in DOMAIN arp /\ b[i] = arp[i + o]
  BY <1>4, Zenon
<1>6. \A i \in DOMAIN b : b[i].ip # h /\ b[i].mac = IF b[i].ip = Gateway THEN mac ELSE <<b[i].ip, 1>>
  BY <1>5 DEF CacheOK
<1>6a. \A i \in DOMAIN b : b[i].mac \in MacsOf(b[i].ip)
  BY <1>5, Zenon DEF CacheOK
<1>7. \A i, j \in DOMAIN b : b[i].ip = b[j].ip => i = j
  <2> SUFFICES ASSUME NEW i \in DOMAIN b, NEW j \in DOMAIN b, b[i].ip = b[j].ip PROVE i = j
    BY Zenon
  <2>1. PICK k \in DOMAIN arp, l \in DOMAIN arp :
           k = i + o /\ l = j + o /\ arp[k] = b[i] /\ arp[l] = b[j]
    BY <1>5, Zenon
  <2>2. arp[k].ip = arp[l].ip => k = l
    BY Zenon DEF CacheOK
  <2>3. k = l
    BY <2>1, <2>2, Zenon
  <2>4. i \in Nat /\ j \in Nat
    BY <1>4
  <2>5. QED
    BY <2>1, <2>3, <2>4
<1>8. PICK n : n = Append(b, e)
  BY Zenon
<1>9. /\ n \in Seq(Entry) /\ Len(n) = Len(b) + 1 /\ DOMAIN n = 1 .. (Len(b) + 1)
      /\ \A i \in DOMAIN b : n[i] = b[i] /\ n[Len(b) + 1] = e
  BY <1>3, <1>4, <1>8, AppendProperties
<1>10. \A i \in DOMAIN n : i \in DOMAIN b \/ i = Len(b) + 1
  BY <1>4, <1>9
<1>11. n[Len(b) + 1] = e
  BY <1>3, <1>4, <1>8, AppendProperties
<1>12. e.mac = IF e.ip = Gateway THEN mac ELSE <<e.ip, 1>>
  BY <1>3, MacsAre, Zenon
<1>13. \A i \in DOMAIN n : n[i].mac = IF n[i].ip = Gateway THEN mac ELSE <<n[i].ip, 1>>
  BY <1>6, <1>9, <1>10, <1>11, <1>12, Zenon
<1>14. \A i, j \in DOMAIN n : n[i].ip = n[j].ip => i = j
  BY <1>3, <1>6, <1>7, <1>9, <1>10, <1>11, Zenon
<1>15. Len(n) <= ARP_CAP
  BY <1>4, <1>9, Sizes
<1>15a. \A i \in DOMAIN n : n[i].mac \in MacsOf(n[i].ip)
  BY <1>3, <1>9, <1>10, <1>11, <1>6a, Zenon
<1>16. CacheOK(n, mac)
  BY <1>9, <1>13, <1>14, <1>15, <1>15a, Zenon DEF CacheOK
<1>17. QED
  BY <1>1, <1>2, <1>8, <1>16, Zenon

LEMMA UpdateOK ==
  ASSUME CacheOK(arp, heard), NEW h \in Hosts, NEW m \in MacsOf(h)
  PROVE  CacheOK(update(h, m), IF h = Gateway THEN m ELSE heard)
<1>1. h # Zero /\ m \notin {ZeroMac, Broadcast}
  BY MacsAre, Sizes, Zenon
<1>2. PICK mac : mac = IF h = Gateway THEN m ELSE heard
  BY Zenon
<1>3. CASE \E e \in Range(arp) : e.ip = h
  BY <1>1, <1>2, <1>3, Overwritten, Zenon DEF update
<1>4. CASE ~ \E e \in Range(arp) : e.ip = h
  <2>1. \A i \in DOMAIN arp : arp[i].ip # h
    BY <1>4, Zenon DEF Range
  <2>2. QED
    BY <1>1, <1>2, <1>4, <2>1, Added, Zenon DEF update
<1>5. QED
  BY <1>3, <1>4, Zenon

LEMMA LookupOK ==
  ASSUME NEW cache, NEW mac, CacheOK(cache, mac), NEW ip, lookup(cache, ip) # NoMac
  PROVE  /\ lookup(cache, ip) = IF ip = Gateway THEN mac ELSE <<ip, 1>>
         /\ lookup(cache, ip) \in MacsOf(ip)
<1>1. \E e \in Range(cache) : e.ip = ip
  BY Zenon DEF lookup
<1>2. \E i \in DOMAIN cache : cache[i].ip = ip
  BY <1>1, Zenon DEF Range
<1>3. PICK k : k = CHOOSE i \in DOMAIN cache : cache[i].ip = ip
  BY Zenon
<1>4. k \in DOMAIN cache /\ cache[k].ip = ip
  BY <1>2, <1>3, Zenon
<1>5. lookup(cache, ip) = cache[k].mac
  BY <1>1, <1>3, Zenon DEF lookup
<1>6. QED
  BY <1>4, <1>5, Zenon DEF CacheOK

-----------------------------------------------------------------------------
(* The queue of datagrams, and a poll.                                     *)

\* A datagram that is what it says.
DataOK(d) == d \in UdpDatagram /\ (d.sport = "dns" => d.query \in queries)

\* Nothing in the queue is for the port, but perhaps its last.
OnlyLast(queue, port) == \A i \in DOMAIN queue : queue[i].dport = port => i = Len(queue)

NoneFor(queue, port) == \A i \in DOMAIN queue : queue[i].dport # port

\* What a poll makes of the state.
PollOK(r) ==
  /\ CacheOK(r.arp, r.heard) /\ QueueOK(r.rx)
  /\ r.tx = << >> \/ \E x : r.tx = <<x>> /\ x.kind \notin Sent
  /\ \A port : NoneFor(rx, port) => OnlyLast(r.rx, port)

LEMMA Enqueued ==
  ASSUME QueueOK(rx), NEW d, DataOK(d), NEW n,
         n = Append(IF Len(rx) >= MAX_UDP_QUEUE THEN Tail(rx) ELSE rx, d)
  PROVE  QueueOK(n) /\ \A port : NoneFor(rx, port) => OnlyLast(n, port)
<1>1. PICK b : b = IF Len(rx) >= MAX_UDP_QUEUE THEN Tail(rx) ELSE rx
  BY Zenon
<1>2. /\ b \in Seq(UdpDatagram) /\ Len(b) \in Nat /\ Len(b) < MAX_UDP_QUEUE /\ DOMAIN b = 1 .. Len(b)
      /\ \E o \in {0, 1} : \A i \in DOMAIN b : i + o \in DOMAIN rx /\ b[i] = rx[i + o]
  BY <1>1, Shifted, Sizes DEF QueueOK
<1>3. PICK o \in {0, 1} : \A i \in DOMAIN b : i + o \in DOMAIN rx /\ b[i] = rx[i + o]
  BY <1>2, Zenon
<1>4. d \in UdpDatagram
  BY Zenon DEF DataOK
<1>5. /\ n \in Seq(UdpDatagram) /\ Len(n) = Len(b) + 1 /\ DOMAIN n = 1 .. (Len(b) + 1)
      /\ n[Len(b) + 1] = d /\ \A i \in DOMAIN b : n[i] = b[i]
  BY <1>1, <1>2, <1>4, AppendProperties
<1>6. \A i \in DOMAIN n : i \in DOMAIN b \/ i = Len(b) + 1
  BY <1>2, <1>5
<1>7. \A i \in DOMAIN b : b[i].sport = "dns" => b[i].query \in queries
  BY <1>3, Zenon DEF QueueOK
<1>8. Len(n) <= MAX_UDP_QUEUE
  BY <1>2, <1>5, Sizes
<1>9. QueueOK(n)
  BY <1>5, <1>6, <1>7, <1>8, Zenon DEF QueueOK, DataOK
<1>10. ASSUME NEW port, NoneFor(rx, port) PROVE OnlyLast(n, port)
  <2>1. \A i \in DOMAIN b : b[i].dport # port
    BY <1>3, <1>10, Zenon DEF NoneFor
  <2>2. QED
    BY <1>5, <1>6, <2>1, Zenon DEF OnlyLast
<1>11. QED
  BY <1>9, <1>10, Zenon

LEMMA NothingOK ==
  ASSUME Types
  PROVE  PollOK(Nothing) /\ Nothing.arp = arp /\ Nothing.rx = rx /\ Nothing.heard = heard /\ Nothing.tx = << >>
<1>1. Nothing.arp = arp /\ Nothing.rx = rx /\ Nothing.heard = heard /\ Nothing.tx = << >>
  BY Zenon DEF Nothing
<1>2. \A port : NoneFor(rx, port) => OnlyLast(rx, port)
  BY Zenon DEF NoneFor, OnlyLast
<1>3. QED
  BY <1>1, <1>2, Zenon DEF PollOK, Types

LEMMA ArpFramesAre ==
  ASSUME NEW f \in ArpFrames
  PROVE  /\ f.type = "arp"
         /\ \/ f.spa \in Hosts /\ f.sha \in MacsOf(f.spa)
            \/ f.spa = Zero
            \/ f.spa = Host /\ f.sha \in {ZeroMac, Broadcast}
<1>1. \A op, h, m, t : ArpFrame(op, h, m, t).type = "arp" /\ ArpFrame(op, h, m, t).spa = h
                       /\ ArpFrame(op, h, m, t).sha = m
  BY Zenon DEF ArpFrame
<1>2. \/ \E h \in Hosts : \E m \in MacsOf(h) :
           f = ArpFrame("request", h, m, Zero) \/ f = ArpFrame("reply", h, m, OurIp)
      \/ f = ArpFrame("request", Host, <<Host, 1>>, OurIp)
      \/ f = ArpFrame("request", Zero, <<Host, 1>>, Zero)
      \/ f = ArpFrame("reply", Host, Broadcast, OurIp)
      \/ f = ArpFrame("reply", Host, ZeroMac, OurIp)
  <2> DEFINE of(h, m) == {ArpFrame("request", h, m, Zero), ArpFrame("reply", h, m, OurIp)}
  <2>1. CASE f \in UNION {UNION {of(h, m) : m \in MacsOf(h)} : h \in Hosts}
    <3> HIDE DEF of
    <3>1. PICK h \in Hosts : f \in UNION {of(h, m) : m \in MacsOf(h)}
      BY <2>1, Zenon
    <3>2. PICK m \in MacsOf(h) : f \in of(h, m)
      BY <3>1, Zenon
    <3>3. QED
      BY <3>2, Zenon DEF of
  <2>2. CASE f \in {ArpFrame("request", Host, <<Host, 1>>, OurIp),
                   ArpFrame("request", Zero, <<Host, 1>>, Zero),
                   ArpFrame("reply", Host, Broadcast, OurIp),
                   ArpFrame("reply", Host, ZeroMac, OurIp)}
    BY <2>2, Zenon
  <2>3. f \in ArpFrames
    BY Zenon
  <2>4. QED
    BY <2>1, <2>2, <2>3, Zenon DEF ArpFrames
<1>3. Host \in Hosts /\ <<Host, 1>> \in MacsOf(Host)
  BY Sizes, Zenon DEF Hosts, MacsOf
<1> HIDE DEF ArpFrame
<1>4. QED
  BY <1>1, <1>2, <1>3

LEMMA ArpOK ==
  ASSUME Types, NEW f \in ArpFrames
  PROVE  PollOK(arp_handle_packet(f))
<1>1. PICK a, h, t : /\ a = update(f.spa, f.sha) /\ h = (IF f.spa = Gateway THEN f.sha ELSE heard)
                     /\ t = IF f.op = "request" /\ is_our_ipv4(f.tpa) THEN <<send_reply(f)>> ELSE << >>
  BY Zenon
<1>2. PICK r : r = arp_handle_packet(f)
  BY Zenon
<1>3. r.arp = a /\ r.rx = rx /\ r.heard = h /\ r.tx = t
  BY <1>1, <1>2, Zenon DEF arp_handle_packet, Nothing
<1>4. CacheOK(a, h)
  <2>1. CASE f.spa \in Hosts /\ f.sha \in MacsOf(f.spa)
    BY <1>1, <2>1, UpdateOK, Zenon DEF Types
  <2>2. CASE f.spa = Zero \/ (f.spa = Host /\ f.sha \in {ZeroMac, Broadcast})
    <3>1. a = arp
      BY <1>1, <2>2, Zenon DEF update
    <3>2. f.spa # Gateway
      BY <2>2, Sizes, Zenon DEF Hosts
    <3>3. QED
      BY <1>1, <3>1, <3>2, Zenon DEF Types
  <2>3. QED
    BY <2>1, <2>2, ArpFramesAre, Zenon
<1>5. send_reply(f).kind = "arp reply"
  BY Zenon DEF send_reply, ethernet_send
<1>6. t = << >> \/ \E x : t = <<x>> /\ x.kind \notin Sent
  <2>1. send_reply(f).kind \notin Sent
    BY <1>5, Zenon DEF Sends, Sent
  <2>2. QED
    BY <1>1, <2>1, Zenon
<1>7. \A port : NoneFor(rx, port) => OnlyLast(rx, port)
  BY Zenon DEF NoneFor, OnlyLast
<1>8. PollOK(r)
  BY <1>3, <1>4, <1>6, <1>7, Zenon DEF PollOK, Types
<1>9. QED
  BY <1>2, <1>8, Zenon

LEMMA IcmpOK ==
  ASSUME Types, NEW f
  PROVE  PollOK(icmp_handle_packet(f))
<1>1. PICK t : t = IF f.data = "echo request" THEN <<send_echo_reply(f)>> ELSE << >>
  BY Zenon
<1>2. PICK r : r = icmp_handle_packet(f)
  BY Zenon
<1>3. r.arp = arp /\ r.rx = rx /\ r.heard = heard /\ r.tx = t
  BY <1>1, <1>2, Zenon DEF icmp_handle_packet, Nothing
<1>4. send_echo_reply(f).kind = "echo reply"
  BY Zenon DEF send_echo_reply, ipv4_send, ethernet_send
<1>5. t = << >> \/ \E x : t = <<x>> /\ x.kind \notin Sent
  <2>1. send_echo_reply(f).kind \notin Sent
    BY <1>4, Zenon DEF Sends, Sent
  <2>2. QED
    BY <1>1, <2>1, Zenon
<1>6. \A port : NoneFor(rx, port) => OnlyLast(rx, port)
  BY Zenon DEF NoneFor, OnlyLast
<1>7. PollOK(r)
  BY <1>3, <1>5, <1>6, Zenon DEF PollOK, Types
<1>8. QED
  BY <1>2, <1>7, Zenon

LEMMA UdpOK ==
  ASSUME Types, NEW f, DataOK(f.data)
  PROVE  PollOK(udp_handle_packet(f))
<1>1. PICK n : n = Append(IF Len(rx) >= MAX_UDP_QUEUE THEN Tail(rx) ELSE rx, f.data)
  BY Zenon
<1>2. PICK r : r = udp_handle_packet(f)
  BY Zenon
<1>3. r.arp = arp /\ r.rx = n /\ r.heard = heard /\ r.tx = << >>
  BY <1>1, <1>2, Zenon DEF udp_handle_packet, Nothing
<1>4. QueueOK(n) /\ \A port : NoneFor(rx, port) => OnlyLast(n, port)
  BY <1>1, Enqueued, Zenon DEF Types
<1>5. PollOK(r)
  BY <1>3, <1>4, Zenon DEF PollOK, Types
<1>6. QED
  BY <1>2, <1>5, Zenon

\* Datagrams, those that are dropped included.
LEMMA UdpFramesAre ==
  ASSUME Types, NEW f \in UdpFrames \cup Dropped
  PROVE  f.type = "ip" /\ f.proto = "udp" /\ DataOK(f.data)
<1>1. \A h, d, x : Packet(h, d, "udp", x).type = "ip" /\ Packet(h, d, "udp", x).proto = "udp"
                   /\ Packet(h, d, "udp", x).data = x
  BY Zenon DEF Packet
<1>2. \A q \in queries : DataOK(Datagram(Dns, "dns", q.port, q))
  BY Zenon DEF DataOK, Datagram, UdpDatagram, Types, Query, Hosts
<1>3. 0 \in Ports /\ NoQuery \in Query
  BY Sizes DEF Ports, NoQuery, Query
<1>4. \A port \in Ports : DataOK(Datagram(Host, "other", port, NoQuery))
  BY <1>3, Zenon DEF DataOK, Datagram, UdpDatagram, Hosts
<1>5. CASE f \in UdpFrames
  BY <1>1, <1>2, <1>4, <1>5 DEF UdpFrames
<1>6. CASE f \in Dropped
  <2>1. PICK g : g = Packet(Host, OurIp, "udp", Datagram(Host, "other", 0, NoQuery))
    BY Zenon
  <2>2. f.type = g.type /\ f.proto = g.proto /\ f.data = g.data
    BY <1>6, <2>1, Zenon DEF Dropped, Packet
  <2>3. QED
    BY <1>1, <1>3, <1>4, <2>1, <2>2
<1>7. QED
  BY <1>5, <1>6, Zenon

LEMMA PolledOK ==
  ASSUME Types, NEW r \in Polled
  PROVE  PollOK(r)
<1>1. PICK f : r = Nothing \/ (f \in Incoming /\ r = poll_once(f))
  BY Zenon DEF Polled
<1>2. CASE f \in ArpFrames /\ r = poll_once(f)
  BY <1>2, ArpFramesAre, ArpOK, NothingOK, Zenon DEF poll_once
<1>3. CASE f \in UdpFrames \cup Dropped /\ r = poll_once(f)
  <2>1. f.type # "arp" /\ f.proto # "icmp" /\ DataOK(f.data)
    BY <1>3, UdpFramesAre, Zenon
  <2>2. QED
    BY <1>3, <2>1, UdpOK, NothingOK, Zenon DEF poll_once, ipv4_handle_packet
<1>4. CASE f \in IcmpFrames /\ r = poll_once(f)
  <2>1. f.type # "arp" /\ f.proto = "icmp"
    <3>1. \A k : Packet(Host, OurIp, "icmp", k).type = "ip" /\ Packet(Host, OurIp, "icmp", k).proto = "icmp"
      BY Zenon DEF Packet
    <3>2. QED
      BY <1>4, <3>1, Zenon DEF IcmpFrames
  <2>2. QED
    BY <1>4, <2>1, IcmpOK, NothingOK, Zenon DEF poll_once, ipv4_handle_packet
<1>5. QED
  BY <1>1, <1>2, <1>3, <1>4, NothingOK, Zenon DEF Incoming

\* Where recv_from finds no first datagram for a port, there is none.
LEMMA PositionNone ==
  ASSUME Types, NEW port, position(port) = {}
  PROVE  NoneFor(rx, port)
<1> DEFINE T == {i \in DOMAIN rx : rx[i].dport = port}
           R == {ss \in Nat \X Nat : ss[1] < ss[2]}
<1>1. rx \in Seq(UdpDatagram) /\ DOMAIN rx = 1 .. Len(rx) /\ Len(rx) \in Nat
  BY DEF Types, QueueOK
<1>2. T \subseteq Nat
  BY <1>1
<1>3. IsWellFoundedOn(R, Nat)
  BY NatLessThanWellFounded, Zenon DEF OpToRel
<1>4. ASSUME T # {} PROVE FALSE
  <2> HIDE DEF T, R
  <2>1. PICK x \in T : \A y \in T : ~ (<<y, x>> \in R)
    BY <1>2, <1>3, <1>4, WFMin, Zenon
  <2>2. \A y \in T : ~ (y < x)
    BY <1>2, <2>1, Zenon DEF R
  <2>3. x \in DOMAIN rx /\ rx[x].dport = port /\ x \in Nat
    BY <1>2, Zenon DEF T
  <2>4. \A j \in 1 .. (x - 1) : j \in DOMAIN rx /\ j < x
    BY <1>1, <2>3
  <2>5. \A j \in 1 .. (x - 1) : rx[j].dport # port
    BY <2>2, <2>4, Zenon DEF T
  <2>6. x \in position(port)
    BY <2>3, <2>5, Zenon DEF position
  <2>7. QED
    BY <2>6, Zenon
<1>5. QED
  BY <1>4, Zenon DEF NoneFor

-----------------------------------------------------------------------------
(* Taking the result of a poll, and transmitting.                          *)

\* What is known of the address mac, once the gateway claimed h last.
MacOf(ip, h) == IF ip = Gateway THEN h ELSE <<ip, 1>>

\* A frame for the right hop, when the gateway last claimed mac.
HopOK(x, mac) ==
  /\ x.kind \in Sends => x.mac = MacOf(next_hop_for(x.ip), mac)
  /\ x.kind = "segment" => x.mac \in MacsOf(next_hop_for(x.ip))

LEMMA TakeOK ==
  ASSUME NEW r, PollOK(r), NEW sent, Take(r, sent), queries \subseteq queries',
         sent = << >> \/ \E x : sent = <<x>> /\ HopOK(x, r.heard)
  PROVE  CacheOK(arp', heard') /\ QueueOK(rx)' /\ RightHop'
<1>1. arp' = r.arp /\ rx' = r.rx /\ heard' = r.heard /\ tx' = r.tx \o sent
  BY Zenon DEF Take
<1>2. CacheOK(arp', heard')
  BY <1>1, Zenon DEF PollOK
<1>3. QueueOK(rx)'
  BY <1>1, Zenon DEF PollOK, QueueOK
<1>4. ASSUME NEW f \in Range(tx') PROVE HopOK(f, heard')
  <2>1. PICK i \in DOMAIN tx' : f = tx'[i]
    BY Zenon DEF Range
  <2>2. \A x, y : << >> \o << >> = << >> /\ << >> \o <<x>> = <<x>> /\ <<x>> \o << >> = <<x>>
                  /\ \A k \in DOMAIN (<<x>> \o <<y>>) : (<<x>> \o <<y>>)[k] \in {x, y}
    <3> TAKE x, y
    <3>1. << >> \in Seq({x, y}) /\ <<x>> \in Seq({x, y}) /\ <<y>> \in Seq({x, y})
      OBVIOUS
    <3>2. <<x>> \o <<y>> \in Seq({x, y})
      BY <3>1, ConcatProperties, Zenon
    <3>3. \A k \in DOMAIN (<<x>> \o <<y>>) : (<<x>> \o <<y>>)[k] \in {x, y}
      BY <3>2, ElementOfSeq
    <3>4. QED
      BY <3>1, <3>3, ConcatEmptySeq, Zenon
  <2>3. CASE r.tx = << >>
    <3>1. sent # << >>
      BY <1>1, <2>1, <2>2, <2>3
    <3>2. PICK x : sent = <<x>> /\ HopOK(x, r.heard)
      BY <3>1, Zenon
    <3>3. f = x
      BY <1>1, <2>1, <2>2, <2>3, <3>2
    <3>4. QED
      BY <1>1, <3>2, <3>3, Zenon
  <2>4. ASSUME NEW w, r.tx = <<w>>, w.kind \notin Sent
        PROVE  HopOK(f, heard')
    <3>1. HopOK(w, heard')
      BY <2>4, Zenon DEF HopOK, Sent
    <3>2. CASE sent = << >>
      <4>1. f = w
        BY <1>1, <2>1, <2>2, <2>4, <3>2
      <4>2. QED
        BY <3>1, <4>1, Zenon
    <3>3. CASE \E x : sent = <<x>> /\ HopOK(x, r.heard)
      <4>1. PICK x : sent = <<x>> /\ HopOK(x, r.heard)
        BY <3>3, Zenon
      <4>2. f = w \/ f = x
        BY <1>1, <2>1, <2>2, <2>4, <4>1
      <4>3. QED
        BY <1>1, <3>1, <4>1, <4>2, Zenon
    <3>4. QED
      BY <3>2, <3>3, Zenon
  <2>5. QED
    BY <2>3, <2>4, Zenon DEF PollOK
<1>5. RightHop'
  BY <1>4, Zenon DEF RightHop, Claimed, MacOf, HopOK, Sends
<1>6. QED
  BY <1>2, <1>3, <1>5, Zenon

-----------------------------------------------------------------------------
(* The processes.                                                          *)

Wire == CacheOK(arp, heard) /\ QueueOK(rx) /\ RightHop

Clients ==
  /\ lookups \in [Procs -> Nat] /\ cl \in [Procs -> Client]
  /\ open \subseteq Procs /\ queries \subseteq Query
  /\ ClientInv /\ IdsInv /\ AnswerInv /\ NoConnLeft

Calls == call \in Call /\ CallInv /\ TimeoutMissesLast /\ BytesReturned

LEMMA Parts == IInv => Wire /\ Clients /\ Calls /\ Types
BY Zenon DEF Wire, Clients, Calls, IInv, Types

LEMMA PartsNext == Wire' /\ Clients' /\ Calls' => IInv'
BY Zenon DEF Wire, Clients, Calls, IInv, Types

LEMMA ClientsSame ==
  ASSUME Clients, UNCHANGED <<lookups, cl, open, queries>>
  PROVE  Clients'
<1>1. lookups' = lookups /\ cl' = cl /\ open' = open /\ queries' = queries
  BY Zenon
<1>2. Asked' = Asked
  BY <1>1, Zenon DEF Asked
<1>3. IdsInv'
  BY <1>1, <1>2, Zenon DEF Clients, IdsInv
<1>4. QED
  BY <1>1, <1>3, Zenon DEF Clients, ClientInv, AnswerInv, NoConnLeft

\* Nothing new is asked.
LEMMA IdsKept ==
  ASSUME Clients, Asked' \subseteq Asked, lookups' = lookups
  PROVE  IdsInv'
BY Zenon DEF Clients, IdsInv

\* A step of one process that begins no lookup.
LEMMA ClientStep ==
  ASSUME Clients, NEW p \in Procs, NEW c \in Client, cl' = [cl EXCEPT ![p] = c],
         lookups' = lookups, queries \subseteq queries', queries' \subseteq Asked,
         open' \subseteq open \cup {p},
         p \in open' => c.pc \in Connected,
         c.pc \in Connected => c.mac \in MacsOf(next_hop_for(Far)),
         c.pc # "body" => c.body = 0,
         c.pc \in LookingUp => cl[p].pc \in LookingUp /\ c.query = cl[p].query,
         c.pc = "connect" => c.answered \in queries /\ c.answered.id = c.query.id
  PROVE  Clients'
<1>1. cl \in [Procs -> Client]
  BY Zenon DEF Clients
<1>2. /\ cl' \in [Procs -> Client] /\ cl'[p] = c
      /\ \A g \in Procs : g # p => cl'[g] = cl[g]
  BY <1>1, Zenon
<1>3. Asked' \subseteq Asked
  <2> SUFFICES ASSUME NEW q \in Asked' PROVE q \in Asked
    BY Zenon
  <2>1. CASE q \in queries'
    BY <2>1, Zenon
  <2>2. CASE \E g \in Procs : cl'[g].pc \in LookingUp /\ q = cl'[g].query
    <3>1. PICK g \in Procs : cl'[g].pc \in LookingUp /\ q = cl'[g].query
      BY <2>2, Zenon
    <3>2. cl[g].pc \in LookingUp /\ q = cl[g].query
      BY <1>2, <3>1, Zenon
    <3>3. QED
      BY <3>2, Zenon DEF Asked
  <2>3. QED
    BY <2>1, <2>2, Zenon DEF Asked
<1>4. IdsInv'
  BY <1>3, IdsKept, Zenon
<1>5. Asked \subseteq Query
  BY <1>1, Zenon DEF Asked, Clients, Client
<1>6. ClientInv'
  BY <1>2, Zenon DEF Clients, ClientInv
<1>7. AnswerInv'
  BY <1>2, Zenon DEF Clients, AnswerInv
<1>8. NoConnLeft'
  BY <1>2, Zenon DEF Clients, NoConnLeft, Connected
<1>9. open' \subseteq Procs /\ lookups' \in [Procs -> Nat] /\ queries' \subseteq Query
  BY <1>5, Zenon DEF Clients
<1>10. QED
  BY <1>2, <1>4, <1>6, <1>7, <1>8, <1>9, Zenon DEF Clients

LEMMA RestingIs ==
  /\ Resting \in Client /\ Resting.pc = "idle" /\ Resting.body = 0 /\ Resting.sent = 0
  /\ Resting.pc \notin LookingUp /\ Resting.pc \notin Connected
<1>1. NoQuery \in Query
  BY Sizes DEF NoQuery, Query, Ports
<1>2. 0 \in 0 .. ReqLen /\ 0 \in 0 .. PageLen
  BY Sizes
<1> HIDE DEF NoQuery
<1>3. Resting \in Client /\ Resting.pc = "idle" /\ Resting.body = 0 /\ Resting.sent = 0
  BY <1>1, <1>2, Zenon DEF Resting, Client
<1>4. QED
  BY <1>3, Zenon DEF LookingUp, Connected

LEMMA QueriesAsked ==
  /\ queries \subseteq Asked
  /\ \A p \in Procs : cl[p].pc \in LookingUp => cl[p].query \in Asked
BY Zenon DEF Asked

LEMMA IdleCall ==
  ASSUME call' = Idle
  PROVE  call' \in Call /\ CallInv' /\ TimeoutMissesLast'
<1>1. 0 \in 0 .. Polls
  BY Sizes
<1>2. Idle.op = "idle"
  BY Zenon DEF Idle
<1>3. QED
  BY <1>1, <1>2, Zenon DEF Idle, Call, CallInv, TimeoutMissesLast

LEMMA FailOK ==
  ASSUME Clients, NEW p \in Procs, cl[p].body = 0, Fail(p)
  PROVE  Clients' /\ Calls' /\ queries' = queries
<1>1. /\ call' = Idle /\ cl' = [cl EXCEPT ![p] = Resting] /\ res' = Result(p, "error")
      /\ open' = open \ {p} /\ lookups' = lookups /\ queries' = queries
  BY Zenon DEF Fail
<1>2. Clients'
  <2>1. open' \subseteq open \cup {p} /\ p \notin open'
    BY <1>1, Zenon
  <2>2. QED
    BY <1>1, <2>1, RestingIs, QueriesAsked, ClientStep, Zenon
<1>3. res'.body = 0
  BY <1>1, Zenon DEF Result
<1>4. QED
  BY <1>1, <1>2, <1>3, IdleCall, Zenon DEF Calls, BytesReturned

LEMMA NoBody ==
  ASSUME Clients, NEW p \in Procs, cl[p].pc # "body"
  PROVE  cl[p].body = 0
BY Zenon DEF Clients, ClientInv

LEMMA QuietResult == res' = NoResult => BytesReturned'
BY DEF NoResult, BytesReturned

\* A process that is looking a name up has no connection.
LEMMA NotOpen ==
  ASSUME Clients, NEW p \in Procs, cl[p].pc \in LookingUp
  PROVE  p \notin open
BY Zenon DEF Clients, NoConnLeft, LookingUp

\* A datagram is waited for, or waited for again.
LEMMA ProceedOK ==
  ASSUME Clients, NEW p \in Procs, cl[p].pc \in LookingUp, Proceed(p, "recv"),
         lookups' = lookups, open' = open, queries \subseteq queries', queries' \subseteq Asked
  PROVE  Clients' /\ Calls'
<1> DEFINE c == [cl[p] EXCEPT !.pc = "recv"]
<1>1. call' = Idle /\ cl' = [cl EXCEPT ![p].pc = "recv"] /\ res' = NoResult
  BY Zenon DEF Proceed
<1>2. cl \in [Procs -> Client] /\ cl[p] \in Client
  BY Zenon DEF Clients
<1>3. cl' = [cl EXCEPT ![p] = c]
  BY <1>1, <1>2, Zenon
<1>4. c \in Client /\ c.pc = "recv" /\ c.body = cl[p].body /\ c.query = cl[p].query
  BY <1>2, Zenon DEF Client
<1> HIDE DEF c
<1>5. cl[p].body = 0
  BY NoBody, Zenon DEF LookingUp
<1>6. p \notin open
  BY NotOpen, Zenon
<1>7. c.pc \notin Connected
  BY <1>4, Zenon DEF Connected
<1>8. Clients'
  BY <1>3, <1>4, <1>5, <1>6, <1>7, ClientStep, Zenon
<1>9. QED
  BY <1>1, <1>8, IdleCall, QuietResult, Zenon DEF Calls

\* A connection is established, or a part of the request is sent.
LEMMA AdvanceOK ==
  ASSUME Clients, NEW p \in Procs, cl[p].pc \in {"handshake", "request"},
         NEW pc \in {"request", "body"}, Proceed(p, pc), UNCHANGED <<lookups, open, queries>>
  PROVE  Clients' /\ Calls'
<1> DEFINE c == [cl[p] EXCEPT !.pc = pc]
<1>1. call' = Idle /\ cl' = [cl EXCEPT ![p].pc = pc] /\ res' = NoResult
  BY Zenon DEF Proceed
<1>2. cl \in [Procs -> Client] /\ cl[p] \in Client
  BY Zenon DEF Clients
<1>3. cl' = [cl EXCEPT ![p] = c]
  BY <1>1, <1>2, Zenon
<1>4. c \in Client /\ c.pc = pc /\ c.body = cl[p].body /\ c.mac = cl[p].mac
  BY <1>2, Zenon DEF Client
<1> HIDE DEF c
<1>5. cl[p].body = 0 /\ cl[p].mac \in MacsOf(next_hop_for(Far))
  BY NoBody, Zenon DEF Clients, ClientInv, Connected
<1>6. c.pc \in Connected /\ c.pc \notin LookingUp /\ c.pc # "connect"
  BY <1>4, Zenon DEF Connected, LookingUp
<1>7. Clients'
  BY <1>3, <1>4, <1>5, <1>6, QueriesAsked, ClientStep, Zenon
<1>8. QED
  BY <1>1, <1>7, IdleCall, QuietResult, Zenon DEF Calls

\* A call that waits.
LEMMA CallOK ==
  ASSUME NEW p \in Procs,
         NEW op \in {"udp", "tcp", "ping", "echo", "recv", "syn", "send", "body"},
         NEW dst \in {Zero, Gateway, Dns, Far}, NEW n \in 0 .. Polls,
         call' = [op |-> op, proc |-> p, dst |-> dst, left |-> n],
         op = "tcp" => dst = Far, cl'[p].pc = Waiting[op], res' = NoResult
  PROVE  call' \in Call /\ CallInv' /\ BytesReturned'
<1>1. call'.op = op /\ call'.proc = p /\ call'.dst = dst /\ call' \in Call
  BY Zenon DEF Call
<1>2. QED
  BY <1>1, QuietResult, Zenon DEF CallInv

LEMMA WaitingIs ==
  /\ Waiting["udp"] = "query" /\ Waiting["tcp"] = "connect" /\ Waiting["ping"] = "idle"
  /\ Waiting["echo"] = "idle" /\ Waiting["recv"] = "recv" /\ Waiting["syn"] = "handshake"
  /\ Waiting["send"] = "request" /\ Waiting["body"] = "body"
BY Zenon DEF Waiting

\* The connection is there, and what was looked up is forgotten.
LEMMA ConnectedOK ==
  ASSUME Clients, NEW p \in Procs, NEW mac \in MacsOf(next_hop_for(Far)),
         cl' = [cl EXCEPT ![p] = [Resting EXCEPT !.pc = "handshake", !.mac = mac]],
         open' = open \cup {p}, lookups' = lookups, queries' = queries
  PROVE  Clients' /\ cl'[p].pc = "handshake"
<1> DEFINE c == [Resting EXCEPT !.pc = "handshake", !.mac = mac]
<1>1. mac \in Mac
  <2>1. next_hop_for(Far) \in Hosts
    BY Zenon DEF next_hop_for, Hosts
  <2>2. QED
    BY <2>1, MacsAre, Zenon
<1>2. c \in Client /\ c.pc = "handshake" /\ c.body = 0 /\ c.mac = mac
  BY <1>1, RestingIs, Zenon DEF Client
<1> HIDE DEF c
<1>3. c.pc \notin LookingUp /\ c.pc # "connect" /\ c.pc \in Connected
  BY <1>2, Zenon DEF LookingUp, Connected
<1>4. cl' = [cl EXCEPT ![p] = c]
  BY Zenon DEF c
<1>5. cl'[p] = c
  BY <1>4, Zenon DEF Clients
<1>6. QED
  BY <1>2, <1>3, <1>4, <1>5, QueriesAsked, ClientStep, Zenon

LEMMA TransmitOK ==
  ASSUME IInv, NEW p \in Procs, NEW op \in Sends, NEW dst \in {Zero, Gateway, Dns, Far},
         cl[p].pc = Waiting[op], op = "tcp" => dst = Far, NEW r, PollOK(r), NEW mac,
         mac = MacOf(next_hop_for(dst), r.heard), mac \in MacsOf(next_hop_for(dst)),
         Transmit(p, op, dst, mac, r)
  PROVE  IInv'
<1>1. Clients /\ Types
  BY Parts, Zenon
<1>2. cl[p].body = 0
  BY <1>1, NoBody, WaitingIs, Zenon DEF Sends
<1>3. CASE Take(r, << >>) /\ Fail(p)
  <2>1. Clients' /\ Calls' /\ queries' = queries
    BY <1>1, <1>2, <1>3, FailOK, Zenon
  <2>2. Wire'
    BY <1>3, <2>1, TakeOK, Zenon DEF Wire
  <2>3. QED
    BY <2>1, <2>2, PartsNext, Zenon
<1>4. ASSUME Take(r, <<ipv4_send(op, mac, dst)>>), queries \subseteq queries' PROVE Wire'
  <2>1. PICK x : x = ipv4_send(op, mac, dst)
    BY Zenon
  <2>2. x.kind = op /\ x.mac = mac /\ x.ip = dst
    BY <2>1, Zenon DEF ipv4_send, ethernet_send
  <2>3. HopOK(x, r.heard)
    BY <2>2, Zenon DEF HopOK, Sends
  <2>4. QED
    BY <1>4, <2>1, <2>3, TakeOK, Zenon DEF Wire
<1>5. Polls \in 0 .. Polls
  BY Sizes
<1>6. CASE /\ Take(r, <<ipv4_send(op, mac, dst)>>) /\ op = "udp"
           /\ queries' = queries \cup {cl[p].query}
           /\ Proceed(p, "recv")
           /\ UNCHANGED <<lookups, open>>
  <2>1. cl[p].pc \in LookingUp
    BY <1>6, WaitingIs, Zenon DEF LookingUp
  <2>2. Clients' /\ Calls'
    BY <1>1, <1>6, <2>1, QueriesAsked, ProceedOK, Zenon
  <2>3. QED
    BY <1>4, <1>6, <2>2, PartsNext, Zenon
<1>7. CASE /\ Take(r, <<ipv4_send(op, mac, dst)>>) /\ op = "tcp"
           /\ open' = open \cup {p}
           /\ call' = [op |-> "syn", proc |-> p, dst |-> dst, left |-> Polls]
           /\ cl' = [cl EXCEPT ![p] = [Resting EXCEPT !.pc = "handshake", !.mac = mac]]
           /\ res' = NoResult /\ UNCHANGED <<lookups, queries>>
  <2>1. Clients' /\ cl'[p].pc = Waiting["syn"]
    BY <1>1, <1>7, ConnectedOK, WaitingIs, Zenon
  <2>2. call' \in Call /\ CallInv' /\ BytesReturned'
    BY <1>5, <1>7, <2>1, CallOK, Zenon
  <2>3. TimeoutMissesLast'
    BY <1>7, Zenon DEF TimeoutMissesLast
  <2>4. QED
    BY <1>4, <1>7, <2>1, <2>2, <2>3, PartsNext, Zenon DEF Calls
<1>8. CASE /\ Take(r, <<ipv4_send(op, mac, dst)>>) /\ op = "ping"
           /\ call' = [op |-> "echo", proc |-> p, dst |-> dst, left |-> Polls]
           /\ res' = NoResult /\ UNCHANGED <<lookups, cl, open, queries>>
  <2>1. Clients'
    BY <1>1, <1>8, ClientsSame, Zenon
  <2>2. cl'[p].pc = Waiting["echo"]
    BY <1>8, WaitingIs, Zenon
  <2>3. call' \in Call /\ CallInv' /\ BytesReturned'
    BY <1>5, <1>8, <2>2, CallOK, Zenon
  <2>4. TimeoutMissesLast'
    BY <1>8, Zenon DEF TimeoutMissesLast
  <2>5. QED
    BY <1>4, <1>8, <2>1, <2>3, <2>4, PartsNext, Zenon DEF Calls
<1>9. QED
  BY <1>3, <1>6, <1>7, <1>8, Zenon DEF Transmit

LEMMA BeginOK ==
  ASSUME IInv, NEW p \in Procs, NEW op \in Sends, NEW dst \in {Zero, Gateway, Dns, Far},
         cl[p].pc = Waiting[op], op = "tcp" => dst = Far, Begin(p, op, dst)
  PROVE  IInv'
<1>1. Clients /\ Types
  BY Parts, Zenon
<1>2. PollOK(Nothing) /\ Nothing.heard = heard
  BY <1>1, NothingOK, Zenon
<1>3. PICK mac : mac = lookup(arp, next_hop_for(dst))
  BY Zenon
<1>4. CASE Take(Nothing, << >>) /\ Fail(p)
  <2>1. cl[p].body = 0
    BY <1>1, NoBody, WaitingIs, Zenon DEF Sends
  <2>2. Clients' /\ Calls' /\ queries' = queries
    BY <1>1, <1>4, <2>1, FailOK, Zenon
  <2>3. Wire'
    BY <1>2, <1>4, <2>2, TakeOK, Zenon DEF Wire
  <2>4. QED
    BY <2>2, <2>3, PartsNext, Zenon
<1>5. CASE mac # NoMac /\ Transmit(p, op, dst, mac, Nothing)
  <2>1. mac = MacOf(next_hop_for(dst), Nothing.heard) /\ mac \in MacsOf(next_hop_for(dst))
    BY <1>1, <1>2, <1>3, <1>5, LookupOK, Zenon DEF Types, MacOf
  <2>2. QED
    BY <1>2, <1>5, <2>1, TransmitOK, Zenon
<1>6. CASE /\ Take(Nothing, <<send_request(next_hop_for(dst))>>)
           /\ call' = [op |-> op, proc |-> p, dst |-> dst, left |-> Polls]
           /\ res' = NoResult /\ UNCHANGED <<lookups, cl, open, queries>>
  <2>1. Clients'
    BY <1>1, <1>6, ClientsSame, ZenonT(30)
  <2>2. Polls \in 0 .. Polls /\ op \in {"udp", "tcp", "ping", "echo", "recv", "syn", "send", "body"}
    BY Sizes, SMTT(30) DEF Sends
  <2>3. call' \in Call /\ CallInv' /\ BytesReturned'
    BY <1>6, <2>2, CallOK, ZenonT(30)
  <2>4. TimeoutMissesLast'
    BY <1>6, Zenon DEF TimeoutMissesLast, Sends
  <2>5. PICK x : x = send_request(next_hop_for(dst))
    BY Zenon
  <2>6. HopOK(x, Nothing.heard)
    <3>1. x.kind = "arp request"
      BY <2>5, Zenon DEF send_request, ethernet_send
    <3>2. QED
      BY <3>1, Zenon DEF HopOK, Sends
  <2>7. Wire'
    BY <1>2, <1>6, <2>5, <2>6, TakeOK, Zenon DEF Wire
  <2>8. QED
    BY <2>1, <2>3, <2>4, <2>7, PartsNext, Zenon DEF Calls
<1>7. QED
  BY <1>3, <1>4, <1>5, <1>6, Zenon DEF Begin

\* A turn of a loop that goes on.
LEMMA TurnOK ==
  ASSUME Calls, call.op # "idle", call.left > 0, call' = [call EXCEPT !.left = @ - 1],
         cl' = cl, res' = NoResult
  PROVE  /\ call' \in Call /\ CallInv' /\ BytesReturned'
         /\ call'.op = call.op /\ call'.proc = call.proc
<1>1. call \in Call /\ call.left \in 0 .. Polls
  BY Zenon DEF Calls, Call
<1>2. PICK n \in 0 .. Polls : n = call.left - 1
  BY <1>1, Sizes
<1>3. call' = [call EXCEPT !.left = n]
  BY <1>2, Zenon
<1>4. call' \in Call /\ call'.op = call.op /\ call'.proc = call.proc /\ call'.dst = call.dst
  BY <1>1, <1>3, Zenon DEF Call
<1>5. QED
  BY <1>4, QuietResult, Zenon DEF Calls, CallInv

LEMMA CallerIs ==
  ASSUME IInv, call.op # "idle"
  PROVE  /\ call.proc \in Procs /\ cl[call.proc].pc = Waiting[call.op]
         /\ call.op = "tcp" => call.dst = Far
BY Zenon DEF IInv, CallInv

LEMMA ResolveTurnOK ==
  ASSUME IInv, resolve_turn
  PROVE  IInv'
<1>1. Clients /\ Types /\ Calls
  BY Parts, Zenon
<1>2. call.op \in Sends /\ call.op # "idle" /\ call.left > 0
  BY Zenon DEF resolve_turn, Sends
<1>3. /\ call.proc \in Procs /\ cl[call.proc].pc = Waiting[call.op]
      /\ call.dst \in {Zero, Gateway, Dns, Far} /\ (call.op = "tcp" => call.dst = Far)
  BY <1>1, <1>2, CallerIs, Zenon DEF Calls, Call
<1> DEFINE mac(r) == lookup(r.arp, next_hop_for(call.dst))
<1>4. PICK r \in Polled :
        \/ mac(r) # NoMac /\ Transmit(call.proc, call.op, call.dst, mac(r), r)
        \/ /\ Take(r, << >>)
           /\ call' = [call EXCEPT !.left = @ - 1]
           /\ res' = NoResult /\ UNCHANGED <<lookups, cl, open, queries>>
  BY Zenon DEF resolve_turn
<1>5. PollOK(r)
  BY <1>1, PolledOK, Zenon
<1>6. CASE mac(r) # NoMac /\ Transmit(call.proc, call.op, call.dst, mac(r), r)
  <2>1. /\ mac(r) = MacOf(next_hop_for(call.dst), r.heard)
        /\ mac(r) \in MacsOf(next_hop_for(call.dst))
    BY <1>5, <1>6, LookupOK, Zenon DEF PollOK, MacOf
  <2>2. QED
    BY <1>2, <1>3, <1>5, <1>6, <2>1, TransmitOK, Zenon
<1>7. CASE /\ Take(r, << >>)
           /\ call' = [call EXCEPT !.left = @ - 1]
           /\ res' = NoResult /\ UNCHANGED <<lookups, cl, open, queries>>
  <2>1. Clients'
    BY <1>1, <1>7, ClientsSame, Zenon
  <2>2. call' \in Call /\ CallInv' /\ BytesReturned' /\ call'.op = call.op
    BY <1>1, <1>2, <1>7, TurnOK, Zenon
  <2>3. TimeoutMissesLast'
    BY <1>2, <2>2, Zenon DEF TimeoutMissesLast, Sends
  <2>4. Wire'
    BY <1>5, <1>7, TakeOK, Zenon DEF Wire
  <2>5. QED
    BY <2>1, <2>2, <2>3, <2>4, PartsNext, Zenon DEF Calls
<1>8. QED
  BY <1>4, <1>6, <1>7, Zenon

LEMMA ResolveTimeoutOK ==
  ASSUME IInv, resolve_timeout
  PROVE  IInv'
<1>1. Clients /\ Types /\ Calls
  BY Parts, Zenon
<1>2. call.op \in Sends /\ call.op # "idle" /\ Take(Nothing, << >>)
  BY Zenon DEF resolve_timeout, Sends
<1>3. call.proc \in Procs /\ cl[call.proc].pc = Waiting[call.op]
  BY <1>2, CallerIs, Zenon
<1>4. PollOK(Nothing)
  BY <1>1, NothingOK, Zenon
<1>5. CASE Fail(call.proc)
  <2>1. cl[call.proc].body = 0
    BY <1>1, <1>2, <1>3, NoBody, WaitingIs, Zenon DEF Sends
  <2>2. Clients' /\ Calls' /\ queries' = queries
    BY <1>1, <1>3, <1>5, <2>1, FailOK, Zenon
  <2>3. Wire'
    BY <1>2, <1>4, <2>2, TakeOK, Zenon DEF Wire
  <2>4. QED
    BY <2>2, <2>3, PartsNext, Zenon
<1>6. CASE /\ call' = Idle
           /\ res' = Result(call.proc, "arp sent")
           /\ UNCHANGED <<lookups, cl, open, queries>>
  <2>1. Clients'
    BY <1>1, <1>6, ClientsSame, Zenon
  <2>2. BytesReturned'
    BY <1>6, Zenon DEF Result, BytesReturned
  <2>3. Wire'
    BY <1>2, <1>4, <1>6, TakeOK, Zenon DEF Wire
  <2>4. QED
    BY <1>6, <2>1, <2>2, <2>3, IdleCall, PartsNext, Zenon DEF Calls
<1>7. QED
  BY <1>5, <1>6, Zenon DEF resolve_timeout

LEMMA EchoTurnOK ==
  ASSUME IInv, echo_turn
  PROVE  IInv'
<1>1. Clients /\ Types /\ Calls
  BY Parts, Zenon
<1>2. call.op = "echo" /\ UNCHANGED <<lookups, cl, open, queries>>
  BY Zenon DEF echo_turn
<1>3. Clients'
  BY <1>1, <1>2, ClientsSame, Zenon
<1>4. CASE /\ call.left > 0
           /\ \E r \in Polled : Take(r, << >>)
           /\ call' = [call EXCEPT !.left = @ - 1]
           /\ res' = NoResult
  <2>1. PICK r \in Polled : Take(r, << >>)
    BY <1>4, Zenon
  <2>2. Wire'
    BY <1>1, <1>2, <2>1, PolledOK, TakeOK, Zenon DEF Wire
  <2>3. call' \in Call /\ CallInv' /\ BytesReturned' /\ call'.op = call.op
    BY <1>1, <1>2, <1>4, TurnOK, Zenon
  <2>4. TimeoutMissesLast'
    BY <1>2, <2>3, Zenon DEF TimeoutMissesLast
  <2>5. QED
    BY <1>3, <2>2, <2>3, <2>4, PartsNext, Zenon DEF Calls
<1>5. CASE Take(Nothing, << >>) /\ call' = Idle /\ res' = Result(call.proc, "sent")
  <2>1. BytesReturned'
    BY <1>5, Zenon DEF Result, BytesReturned
  <2>2. Wire'
    BY <1>1, <1>2, <1>5, NothingOK, TakeOK, Zenon DEF Wire
  <2>3. QED
    BY <1>3, <1>5, <2>1, <2>2, IdleCall, PartsNext, Zenon DEF Calls
<1>6. QED
  BY <1>4, <1>5, Zenon DEF echo_turn

LEMMA RecvFromOK ==
  ASSUME IInv, NEW p \in Procs, recv_from(p)
  PROVE  IInv'
<1>1. Clients /\ Types
  BY Parts, Zenon
<1>2. /\ cl[p].pc = "recv" /\ call' = [op |-> "recv", proc |-> p, dst |-> Zero, left |-> Polls]
      /\ Take(Nothing, << >>) /\ res' = NoResult /\ UNCHANGED <<lookups, cl, open, queries>>
  BY Zenon DEF recv_from
<1>3. Clients'
  BY <1>1, <1>2, ClientsSame, Zenon
<1>4. Polls \in 0 .. Polls /\ Polls # 0 /\ cl'[p].pc = Waiting["recv"]
  BY <1>2, Sizes, WaitingIs, SMTT(30)
<1>5. call' \in Call /\ CallInv' /\ BytesReturned'
  BY <1>2, <1>4, CallOK, Zenon
<1>6. TimeoutMissesLast'
  BY <1>2, <1>4, Zenon DEF TimeoutMissesLast
<1>7. Wire'
  BY <1>1, <1>2, NothingOK, TakeOK, Zenon DEF Wire
<1>8. QED
  BY <1>3, <1>5, <1>6, <1>7, PartsNext, Zenon DEF Calls

\* What is left when a datagram is taken out.
LEMMA RemovedOK ==
  ASSUME Types, NEW i \in DOMAIN rx
  PROVE  PollOK([Nothing EXCEPT !.rx = remove(@, i)])
<1>1. rx \in Seq(UdpDatagram) /\ Len(rx) \in Nat /\ DOMAIN rx = 1 .. Len(rx) /\ Len(rx) <= MAX_UDP_QUEUE
      /\ i \in Nat
  BY DEF Types, QueueOK
<1>2. PICK a, b : a = SubSeq(rx, 1, i - 1) /\ b = SubSeq(rx, i + 1, Len(rx))
  BY Zenon
<1>3. PICK len \in Nat : len = Len(rx) /\ 1 <= i /\ i <= len
  <2>1. PICK len \in Nat : len = Len(rx)
    BY <1>1, Zenon
  <2>2. i \in 1 .. len
    BY <1>1, <2>1, Zenon
  <2>3. QED
    BY <2>1, <2>2
<1>4. /\ a \in Seq(UdpDatagram) /\ Len(a) = i - 1
      /\ \A k \in 1 .. (i - 1) : a[k] = rx[k]
  <2>1. PICK m \in Int, o \in Int : m = 1 /\ o = i - 1
    BY <1>1
  <2>2. \A k \in m .. o : rx[k] \in UdpDatagram
    BY <1>1, <1>3, <2>1
  <2>3. /\ SubSeq(rx, m, o) \in Seq(UdpDatagram)
        /\ Len(SubSeq(rx, m, o)) = IF m <= o THEN o - m + 1 ELSE 0
        /\ \A k \in 1 .. (o - m + 1) : SubSeq(rx, m, o)[k] = rx[m + k - 1]
    BY <1>1, <2>2, SubSeqProperties
  <2>4. \A k \in 1 .. (i - 1) : k \in 1 .. (o - m + 1) /\ m + k - 1 = k
    BY <1>1, <2>1
  <2>5. (IF m <= o THEN o - m + 1 ELSE 0) = i - 1
    BY <1>3, <2>1
  <2>6. QED
    BY <1>2, <2>1, <2>3, <2>4, <2>5, Zenon
<1>5. /\ b \in Seq(UdpDatagram) /\ Len(b) = len - i
      /\ \A k \in 1 .. (len - i) : b[k] = rx[i + k]
  <2>1. PICK m \in Int : m = i + 1
    BY <1>1
  <2>2. \A k \in m .. len : rx[k] \in UdpDatagram
    BY <1>1, <1>3, <2>1
  <2>3. /\ SubSeq(rx, m, len) \in Seq(UdpDatagram)
        /\ Len(SubSeq(rx, m, len)) = IF m <= len THEN len - m + 1 ELSE 0
        /\ \A k \in 1 .. (len - m + 1) : SubSeq(rx, m, len)[k] = rx[m + k - 1]
    BY <1>1, <2>2, SubSeqProperties
  <2>4. \A k \in 1 .. (len - i) : k \in 1 .. (len - m + 1) /\ m + k - 1 = i + k
    BY <1>1, <1>3, <2>1
  <2>5. (IF m <= len THEN len - m + 1 ELSE 0) = len - i
    BY <1>3, <2>1
  <2>6. QED
    BY <1>2, <1>3, <2>1, <2>3, <2>4, <2>5, Zenon
<1>6. PICK n : n = a \o b
  BY Zenon
<1>7. /\ n \in Seq(UdpDatagram) /\ Len(n) = Len(a) + Len(b)
      /\ \A k \in 1 .. Len(a) + Len(b) : n[k] = IF k <= Len(a) THEN a[k] ELSE b[k - Len(a)]
  BY <1>4, <1>5, <1>6, ConcatProperties, Zenon
<1>8. Len(n) = len - 1 /\ Len(n) <= MAX_UDP_QUEUE
  BY <1>1, <1>3, <1>4, <1>5, <1>7, Sizes, SMTT(30)
<1>9. \A k \in DOMAIN n : \E j \in DOMAIN rx : n[k] = rx[j]
  <2> SUFFICES ASSUME NEW k \in 1 .. (len - 1) PROVE \E j \in DOMAIN rx : n[k] = rx[j]
    BY <1>7, <1>8
  <2>1. CASE k <= i - 1
    <3>1. k \in 1 .. (i - 1) /\ k \in 1 .. len /\ k \in 1 .. Len(a) + Len(b) /\ k <= Len(a)
      BY <1>1, <1>3, <1>4, <1>5, <2>1, SMTT(30)
    <3>2. n[k] = rx[k]
      BY <1>4, <1>7, <3>1, Zenon
    <3>3. QED
      BY <1>1, <1>3, <3>1, <3>2, Zenon
  <2>2. CASE ~ (k <= i - 1)
    <3>1. PICK l \in Nat : l = k - (i - 1)
      BY <1>1, <1>3, <2>2, SMTT(30)
    <3>2. /\ l \in 1 .. (len - i) /\ i + l \in 1 .. len /\ k \in 1 .. Len(a) + Len(b) /\ ~ (k <= Len(a))
          /\ l = k - Len(a)
      BY <1>1, <1>3, <1>4, <1>5, <2>2, <3>1, SMTT(30)
    <3>3. n[k] = rx[i + l]
      BY <1>5, <1>7, <3>2, Zenon
    <3>4. QED
      BY <1>1, <1>3, <3>2, <3>3, Zenon
  <2>3. QED
    BY <2>1, <2>2, Zenon
<1>10. QueueOK(n)
  BY <1>7, <1>8, <1>9, Zenon DEF Types, QueueOK
<1>11. \A port : NoneFor(rx, port) => OnlyLast(n, port)
  BY <1>9, Zenon DEF NoneFor, OnlyLast
<1>12. PICK r : r = [Nothing EXCEPT !.rx = remove(@, i)]
  BY Zenon
<1>13. r.arp = arp /\ r.heard = heard /\ r.tx = << >> /\ r.rx = n
  BY <1>2, <1>6, <1>12, Zenon DEF Nothing, remove
<1>14. PollOK(r)
  BY <1>10, <1>11, <1>13, Zenon DEF PollOK, Types
<1>15. QED
  BY <1>12, <1>14, Zenon

\* A process and the datagram it is given.
LEMMA AnswerOK ==
  ASSUME Clients, NEW p \in Procs, cl[p].pc = "recv", NEW d, DataOK(d), Answer(p, d)
  PROVE  Clients' /\ Calls' /\ queries' = queries
<1>1. cl[p].pc \in LookingUp /\ cl[p].body = 0 /\ p \notin open
  BY NoBody, NotOpen, Zenon DEF LookingUp
<1>2. CASE Proceed(p, "recv") /\ UNCHANGED <<lookups, open, queries>>
  BY <1>1, <1>2, QueriesAsked, ProceedOK, Zenon
<1>3. CASE Fail(p)
  BY <1>1, <1>3, FailOK, Zenon
<1>4. CASE /\ d.sport = "dns"
           /\ parse_response(d, cl[p].query.id)
           /\ call' = Idle /\ res' = NoResult
           /\ cl' = [cl EXCEPT ![p].pc = "connect", ![p].answered = d.query]
           /\ UNCHANGED <<lookups, open, queries>>
  <2>1. PICK q : q = d.query
    BY Zenon
  <2>2. q \in Query /\ q \in queries /\ q.id = cl[p].query.id
    BY <1>4, <2>1, Zenon DEF DataOK, UdpDatagram, parse_response
  <2> DEFINE c == [cl[p] EXCEPT !.pc = "connect", !.answered = q]
  <2>3. cl \in [Procs -> Client] /\ cl[p] \in Client
    BY Zenon DEF Clients
  <2>4. cl' = [cl EXCEPT ![p] = c]
    BY <1>4, <2>1, <2>3, Zenon
  <2>5. /\ c \in Client /\ c.pc = "connect" /\ c.answered = q /\ c.query = cl[p].query
        /\ c.body = cl[p].body
    BY <2>2, <2>3, Zenon DEF Client
  <2> HIDE DEF c
  <2>6. c.pc \notin Connected
    BY <2>5, Zenon DEF Connected
  <2>7. Clients'
    BY <1>1, <1>4, <2>2, <2>4, <2>5, <2>6, QueriesAsked, ClientStep, ZenonT(30)
  <2>8. QED
    BY <1>4, <2>7, IdleCall, QuietResult, Zenon DEF Calls
<1>5. QED
  BY <1>2, <1>3, <1>4, Zenon DEF Answer

LEMMA RecvTurnOK ==
  ASSUME IInv, recv_turn
  PROVE  IInv'
<1> DEFINE p == call.proc
           port == cl[p].query.port
<1>1. Clients /\ Types /\ Calls
  BY Parts, Zenon
<1>2. call.op = "recv" /\ call.left > 0
  BY Zenon DEF recv_turn
<1>3. p \in Procs /\ cl[p].pc = "recv"
  BY <1>2, CallerIs, WaitingIs, Zenon
<1>4. ASSUME NEW i \in position(port), Take([Nothing EXCEPT !.rx = remove(@, i)], << >>),
             Answer(p, rx[i])
      PROVE  IInv'
  <2>1. i \in DOMAIN rx
    BY Zenon DEF position
  <2>2. DataOK(rx[i])
    BY <1>1, <2>1 DEF Types, QueueOK, DataOK
  <2>3. Clients' /\ Calls' /\ queries' = queries
    BY <1>1, <1>3, <1>4, <2>2, AnswerOK, Zenon
  <2>4. Wire'
    BY <1>1, <1>4, <2>1, <2>3, RemovedOK, TakeOK, Zenon DEF Wire
  <2>5. QED
    BY <2>3, <2>4, PartsNext, Zenon
<1>5. CASE /\ position(port) = {}
           /\ \E r \in Polled : Take(r, << >>)
           /\ call' = [call EXCEPT !.left = @ - 1]
           /\ res' = NoResult /\ UNCHANGED <<lookups, cl, open, queries>>
  <2>1. PICK r \in Polled : Take(r, << >>)
    BY <1>5, Zenon
  <2>2. PollOK(r)
    BY <1>1, PolledOK, Zenon
  <2>3. Wire'
    BY <1>5, <2>1, <2>2, TakeOK, Zenon DEF Wire
  <2>4. Clients'
    BY <1>1, <1>5, ClientsSame, Zenon
  <2>5. call' \in Call /\ CallInv' /\ BytesReturned' /\ call'.proc = p
    BY <1>1, <1>2, <1>5, TurnOK, Zenon
  <2>6. OnlyLast(rx', port)
    BY <1>1, <1>5, <2>1, <2>2, PositionNone, Zenon DEF PollOK, Take
  <2>7. TimeoutMissesLast'
    BY <1>5, <2>5, <2>6, Zenon DEF TimeoutMissesLast, OnlyLast
  <2>8. QED
    BY <2>3, <2>4, <2>5, <2>7, PartsNext, Zenon DEF Calls
<1>6. QED
  BY <1>4, <1>5, Zenon DEF recv_turn

LEMMA RecvTimeoutOK ==
  ASSUME IInv, recv_timeout
  PROVE  IInv'
<1>1. Clients /\ Types
  BY Parts, Zenon
<1>2. call.op = "recv" /\ Take(Nothing, << >>) /\ Fail(call.proc)
  BY Zenon DEF recv_timeout
<1>3. call.proc \in Procs /\ cl[call.proc].body = 0
  BY <1>1, <1>2, CallerIs, WaitingIs, NoBody, Zenon
<1>4. Clients' /\ Calls' /\ queries' = queries
  BY <1>1, <1>2, <1>3, FailOK, Zenon
<1>5. Wire'
  BY <1>1, <1>2, <1>4, NothingOK, TakeOK, Zenon DEF Wire
<1>6. QED
  BY <1>4, <1>5, PartsNext, Zenon

\* The id of the next query is not one that is in use, until they wrap.
LEMMA NextId ==
  ASSUME NEW n \in Nat, NEW id, id = (1 + n) % IdMod
  PROVE  /\ id \in 0 .. (IdMod - 1) /\ id % PortMod \in Ports
         /\ n + 1 < IdMod => id = n + 1
         /\ n + 1 <= IdMod => id \notin 1 .. n
<1>1. PICK m \in Nat \ {0} : m = IdMod
  BY Sizes, Zenon
<1>2. PICK k \in Nat : k = 1 + n
  OBVIOUS
<1>3. k % m \in 0 .. (m - 1)
  OBVIOUS
<1>4. k < m => k % m = k
  OBVIOUS
<1>5. k = m => k % m = 0
  OBVIOUS
<1>6. id \in Nat /\ id = k % m
  BY <1>1, <1>2, <1>3
<1>7. PICK o \in Nat \ {0} : o = PortMod
  BY Sizes, Zenon
<1>8. id % o \in 0 .. o
  BY <1>6
<1>9. QED
  BY <1>1, <1>2, <1>3, <1>4, <1>5, <1>6, <1>7, <1>8 DEF Ports

\* A lookup begins: what was asked before keeps its ids.
LEMMA LookupStep ==
  ASSUME Clients, NEW p \in Procs, lookups' = [lookups EXCEPT ![p] = @ + 1]
  PROVE  /\ lookups' \in [Procs -> Nat] /\ lookups'[p] = lookups[p] + 1 /\ lookups[p] \in Nat
         /\ \A q \in Asked : q.proc \in Procs /\ lookups'[q.proc] > 0
              /\ (lookups'[q.proc] < IdMod => q.id \in 1 .. lookups'[q.proc])
         /\ \A q, a \in Asked :
              q.proc = a.proc /\ q.id = a.id /\ lookups'[q.proc] <= IdMod => q.name = a.name
<1>1. lookups \in [Procs -> Nat] /\ lookups[p] \in Nat /\ IdMod \in Nat
  BY Sizes, Zenon DEF Clients
<1>2. lookups' \in [Procs -> Nat] /\ lookups'[p] = lookups[p] + 1
  BY <1>1
<1>3. \A g \in Procs : lookups[g] \in Nat /\ lookups'[g] \in Nat /\ lookups[g] <= lookups'[g]
  BY <1>1
<1>4. ASSUME NEW q \in Asked
      PROVE  q.proc \in Procs /\ lookups'[q.proc] > 0
             /\ (lookups'[q.proc] < IdMod => q.id \in 1 .. lookups'[q.proc])
  <2>1. q.proc \in Procs /\ lookups[q.proc] > 0 /\ (lookups[q.proc] < IdMod => q.id \in 1 .. lookups[q.proc])
    BY Zenon DEF Clients, IdsInv
  <2>2. PICK n \in Nat, k \in Nat : n = lookups[q.proc] /\ k = lookups'[q.proc] /\ n <= k
    BY <1>3, <2>1, Zenon
  <2>3. QED
    BY <1>1, <2>1, <2>2
<1>5. ASSUME NEW q \in Asked, NEW a \in Asked, q.proc = a.proc, q.id = a.id, lookups'[q.proc] <= IdMod
      PROVE  q.name = a.name
  <2>1. q.proc \in Procs
    BY Zenon DEF Clients, IdsInv
  <2>2. PICK n \in Nat, k \in Nat : n = lookups[q.proc] /\ k = lookups'[q.proc] /\ n <= k
    BY <1>3, <2>1, Zenon
  <2>3. lookups[q.proc] <= IdMod
    BY <1>1, <1>5, <2>2
  <2>4. QED
    BY <1>5, <2>3, Zenon DEF Clients, IdsInv
<1>6. QED
  BY <1>1, <1>2, <1>4, <1>5, Zenon

\* A process asks for a name.
LEMMA AskOK ==
  ASSUME Clients, NEW p \in Procs, cl[p].pc = "idle", NEW name \in Names \cup {BadName}, NEW q,
         q = [proc |-> p, id |-> (1 + lookups[p]) % IdMod,
              port |-> ((1 + lookups[p]) % IdMod) % PortMod, name |-> name],
         lookups' = [lookups EXCEPT ![p] = @ + 1],
         cl' = [cl EXCEPT ![p] = [Resting EXCEPT !.pc = "query", !.query = q]],
         UNCHANGED <<open, queries>>
  PROVE  Clients'
<1>1. cl \in [Procs -> Client]
  BY Zenon DEF Clients
<1>2. /\ lookups' \in [Procs -> Nat] /\ lookups'[p] = lookups[p] + 1 /\ lookups[p] \in Nat
      /\ \A a \in Asked : a.proc \in Procs /\ lookups'[a.proc] > 0
           /\ (lookups'[a.proc] < IdMod => a.id \in 1 .. lookups'[a.proc])
      /\ \A a, b \in Asked :
           a.proc = b.proc /\ a.id = b.id /\ lookups'[a.proc] <= IdMod => a.name = b.name
  BY LookupStep, Zenon
<1>3. PICK n \in Nat : n = lookups[p]
  BY <1>2, Zenon
<1>4. PICK id : id = (1 + n) % IdMod
  BY Zenon
<1>5. /\ id \in 0 .. (IdMod - 1) /\ id % PortMod \in Ports
      /\ n + 1 < IdMod => id = n + 1
      /\ n + 1 <= IdMod => id \notin 1 .. n
  BY <1>4, NextId, Zenon
<1>6. q.proc = p /\ q.id = id /\ q.name = name /\ q \in Query
  BY <1>3, <1>4, <1>5, Zenon DEF Query
<1> DEFINE c == [Resting EXCEPT !.pc = "query", !.query = q]
<1>7. c \in Client /\ c.pc = "query" /\ c.query = q /\ c.body = 0
  BY <1>6, RestingIs, Zenon DEF Client
<1> HIDE DEF c
<1>8. /\ cl' \in [Procs -> Client] /\ cl'[p] = c /\ \A g \in Procs : g # p => cl'[g] = cl[g]
  BY <1>1, <1>7, Zenon DEF c
<1>9. Asked' \subseteq Asked \cup {q}
  <2> SUFFICES ASSUME NEW a \in Asked' PROVE a \in Asked \cup {q}
    BY Zenon
  <2>1. CASE a \in queries'
    BY <2>1, Zenon DEF Asked
  <2>2. CASE \E g \in Procs : cl'[g].pc \in LookingUp /\ a = cl'[g].query
    BY <1>7, <1>8, <2>2, Zenon DEF Asked
  <2>3. QED
    BY <2>1, <2>2, Zenon DEF Asked
<1>10. \A a \in Asked : a.proc = p /\ lookups'[p] <= IdMod => a.id # id
  <2> SUFFICES ASSUME NEW a \in Asked, a.proc = p, lookups'[p] <= IdMod PROVE a.id # id
    BY Zenon
  <2>1. n < IdMod /\ n + 1 <= IdMod
    BY <1>2, <1>3, Sizes
  <2>2. a.id \in 1 .. n
    BY <1>3, <2>1, Zenon DEF Clients, IdsInv
  <2>3. QED
    BY <1>5, <2>1, <2>2, Zenon
<1>11. lookups'[p] > 0 /\ (lookups'[p] < IdMod => id \in 1 .. lookups'[p])
  BY <1>2, <1>3, <1>5
<1>12. IdsInv'
  BY <1>2, <1>6, <1>9, <1>10, <1>11, Zenon DEF IdsInv
<1>13. ClientInv'
  BY <1>6, <1>7, <1>8, Zenon DEF Clients, ClientInv, Connected
<1>14. AnswerInv'
  BY <1>7, <1>8, Zenon DEF Clients, AnswerInv
<1>15. p \notin open
  BY Zenon DEF Clients, NoConnLeft
<1>16. NoConnLeft'
  BY <1>8, <1>15, Zenon DEF Clients, NoConnLeft
<1>17. QED
  BY <1>2, <1>8, <1>12, <1>13, <1>14, <1>16, Zenon DEF Clients

LEMMA GetOK ==
  ASSUME IInv, NEW p \in Procs, NEW url \in Urls, get_url(p, url)
  PROVE  IInv'
<1>1. Clients /\ Types
  BY Parts, Zenon
<1>2. /\ call = Idle /\ call' = Idle /\ cl[p].pc = "idle" /\ Take(Nothing, << >>)
      /\ UNCHANGED <<open, queries>>
  BY Zenon DEF get_url
<1>3. Wire'
  BY <1>1, <1>2, NothingOK, TakeOK, Zenon DEF Wire
<1>4. PICK name, q : /\ name = parse_http_url(url)
                     /\ q = [proc |-> p, id |-> (1 + lookups[p]) % IdMod,
                             port |-> ((1 + lookups[p]) % IdMod) % PortMod, name |-> name]
  BY Zenon
<1>5. CASE /\ name # NoHost
           /\ lookups' = [lookups EXCEPT ![p] = @ + 1]
           /\ cl' = [cl EXCEPT ![p] = [Resting EXCEPT !.pc = "query", !.query = q]]
           /\ res' = NoResult
  <2>1. name \in Names \cup {BadName}
    BY <1>4, <1>5, Zenon DEF parse_http_url, Urls
  <2>2. Clients'
    BY <1>1, <1>2, <1>4, <1>5, <2>1, AskOK, Zenon
  <2>3. QED
    BY <1>2, <1>3, <1>5, <2>2, IdleCall, QuietResult, PartsNext, Zenon DEF Calls
<1>6. ASSUME res' = Result(p, "error") PROVE Calls'
  <2>1. res'.body = 0
    BY <1>1, <1>2, <1>6, NoBody, Zenon DEF Result
  <2>2. QED
    BY <1>2, <2>1, IdleCall, Zenon DEF Calls, BytesReturned
<1>7. CASE lookups' = [lookups EXCEPT ![p] = @ + 1] /\ res' = Result(p, "error") /\ UNCHANGED cl
  <2>1. Asked' = Asked
    BY <1>2, <1>7, Zenon DEF Asked
  <2>2. lookups' \in [Procs -> Nat] /\ IdsInv'
    BY <1>1, <1>7, <2>1, LookupStep, ZenonT(30) DEF IdsInv
  <2>3. Clients'
    BY <1>1, <1>2, <1>7, <2>2, Zenon DEF Clients, ClientInv, AnswerInv, NoConnLeft
  <2>4. QED
    BY <1>3, <1>6, <1>7, <2>3, PartsNext, Zenon
<1>8. CASE res' = Result(p, "error") /\ UNCHANGED <<lookups, cl>>
  BY <1>1, <1>2, <1>3, <1>6, <1>8, ClientsSame, PartsNext, ZenonT(30)
<1>9. QED
  BY <1>4, <1>5, <1>7, <1>8, Zenon DEF get_url

\* What a call of a connection transmits.
LEMMA FlushOK ==
  ASSUME Clients, NEW p \in Procs, cl[p].pc \in Connected, NEW r, PollOK(r),
         NEW s, s = << >> \/ s = <<Segment(p)>>, Take(r, s), queries \subseteq queries'
  PROVE  Wire'
<1>1. PICK x : x = Segment(p)
  BY Zenon
<1>2. x.kind = "segment" /\ x.mac = cl[p].mac /\ x.ip = Far
  BY <1>1, Zenon DEF Segment, ipv4_send, ethernet_send
<1>3. cl[p].mac \in MacsOf(next_hop_for(Far))
  BY Zenon DEF Clients, ClientInv
<1>4. HopOK(x, r.heard)
  BY <1>2, <1>3, Zenon DEF HopOK, Sends
<1>5. QED
  BY <1>1, <1>4, TakeOK, Zenon DEF Wire

\* A turn of a loop of connect, send or recv that goes on.
LEMMA ConnTurnOK ==
  ASSUME IInv, call.op \in {"syn", "send", "body"}, call.left > 0,
         \E r \in Polled, s \in Flushed(call.proc) : Take(r, s),
         call' = [call EXCEPT !.left = @ - 1],
         res' = NoResult, UNCHANGED <<lookups, cl, open, queries>>
  PROVE  IInv'
<1>1. Clients /\ Types /\ Calls
  BY Parts, Zenon
<1>2. call.op # "idle" /\ call.op # "recv" /\ call.proc \in Procs /\ cl[call.proc].pc \in Connected
  BY CallerIs, WaitingIs, Zenon DEF Connected
<1>3. PICK r \in Polled, s \in Flushed(call.proc) : Take(r, s)
  BY Zenon
<1>4. s = << >> \/ s = <<Segment(call.proc)>>
  BY Zenon DEF Flushed
<1>5. Wire'
  BY <1>1, <1>2, <1>3, <1>4, PolledOK, FlushOK, Zenon
<1>6. Clients'
  BY <1>1, ClientsSame, Zenon
<1>7. call' \in Call /\ CallInv' /\ BytesReturned' /\ call'.op = call.op
  BY <1>1, <1>2, TurnOK, Zenon
<1>8. TimeoutMissesLast'
  BY <1>2, <1>7, Zenon DEF TimeoutMissesLast
<1>9. QED
  BY <1>5, <1>6, <1>7, <1>8, PartsNext, Zenon DEF Calls

LEMMA ConnectTurnOK ==
  ASSUME IInv, connect_turn
  PROVE  IInv'
<1> DEFINE p == call.proc
<1>1. Clients /\ Types
  BY Parts, Zenon
<1>2. call.op = "syn" /\ call.left > 0
  BY Zenon DEF connect_turn
<1>3. p \in Procs /\ cl[p].pc = "handshake"
  BY <1>2, CallerIs, WaitingIs, Zenon
<1>4. cl[p].pc \in Connected /\ cl[p].body = 0 /\ PollOK(Nothing)
  BY <1>1, <1>3, NoBody, NothingOK, Zenon DEF Connected
<1>5. CASE Take(Nothing, <<Segment(p)>>) /\ Proceed(p, "request") /\ UNCHANGED <<lookups, open, queries>>
  <2>1. Clients' /\ Calls'
    BY <1>1, <1>3, <1>5, AdvanceOK, Zenon
  <2>2. Wire'
    BY <1>1, <1>3, <1>4, <1>5, FlushOK, Zenon
  <2>3. QED
    BY <2>1, <2>2, PartsNext, Zenon
<1>6. CASE Take(Nothing, << >>) /\ Fail(p)
  <2>1. Clients' /\ Calls' /\ queries' = queries
    BY <1>1, <1>3, <1>4, <1>6, FailOK, Zenon
  <2>2. Wire'
    BY <1>1, <1>3, <1>4, <1>6, <2>1, FlushOK, Zenon
  <2>3. QED
    BY <2>1, <2>2, PartsNext, Zenon
<1>7. CASE /\ \E r \in Polled, s \in Flushed(p) : Take(r, s)
           /\ call' = [call EXCEPT !.left = @ - 1]
           /\ res' = NoResult /\ UNCHANGED <<lookups, cl, open, queries>>
  BY <1>2, <1>7, ConnTurnOK, Zenon
<1>8. QED
  BY <1>5, <1>6, <1>7, Zenon DEF connect_turn

LEMMA ConnectTimeoutOK ==
  ASSUME IInv, connect_timeout
  PROVE  IInv'
<1>1. Clients /\ Types
  BY Parts, Zenon
<1>2. call.op = "syn" /\ Take(Nothing, << >>) /\ Fail(call.proc)
  BY Zenon DEF connect_timeout
<1>3. call.proc \in Procs /\ cl[call.proc].pc = "handshake"
  BY <1>2, CallerIs, WaitingIs, Zenon
<1>4. Clients' /\ Calls' /\ queries' = queries
  BY <1>1, <1>2, <1>3, NoBody, FailOK, Zenon
<1>5. Wire'
  BY <1>1, <1>2, <1>4, NothingOK, TakeOK, Zenon DEF Wire
<1>6. QED
  BY <1>4, <1>5, PartsNext, Zenon

LEMMA HttpSendOK ==
  ASSUME IInv, NEW p \in Procs, http_send(p)
  PROVE  IInv'
<1>1. Clients /\ Types
  BY Parts, Zenon
<1>2. cl[p].pc = "request" /\ cl[p].body = 0
  BY <1>1, NoBody, Zenon DEF http_send
<1>3. cl[p].pc \in Connected /\ PollOK(Nothing)
  BY <1>1, <1>2, NothingOK, Zenon DEF Connected
<1>4. CASE (\E s \in Flushed(p) : Take(Nothing, s)) /\ Fail(p)
  <2>1. Clients' /\ Calls' /\ queries' = queries
    BY <1>1, <1>2, <1>4, FailOK, Zenon
  <2>2. PICK s \in Flushed(p) : Take(Nothing, s)
    BY <1>4, Zenon
  <2>3. Wire'
    BY <1>1, <1>3, <2>1, <2>2, FlushOK, Zenon DEF Flushed
  <2>4. QED
    BY <2>1, <2>3, PartsNext, Zenon
<1>5. CASE /\ Take(Nothing, <<Segment(p)>>)
           /\ \E n \in tcp_send(ReqLen - cl[p].sent) : cl' = [cl EXCEPT ![p].sent = @ + n]
           /\ call' = [op |-> "send", proc |-> p, dst |-> Far, left |-> Polls]
           /\ res' = NoResult /\ UNCHANGED <<lookups, open, queries>>
  <2>1. PICK n \in tcp_send(ReqLen - cl[p].sent) : cl' = [cl EXCEPT ![p].sent = @ + n]
    BY <1>5, Zenon
  <2>2. cl \in [Procs -> Client] /\ cl[p] \in Client
    BY <1>1, Zenon DEF Clients
  <2>3. cl[p].sent \in 0 .. ReqLen /\ n \in 1 .. (ReqLen - cl[p].sent)
    BY <2>1, <2>2, Zenon DEF tcp_send, Client
  <2>4. PICK m \in 0 .. ReqLen : m = cl[p].sent + n
    BY <2>3, Sizes
  <2> DEFINE c == [cl[p] EXCEPT !.sent = m]
  <2>5. cl' = [cl EXCEPT ![p] = c]
    BY <2>1, <2>2, <2>4, Zenon
  <2>6. c \in Client /\ c.pc = "request" /\ c.body = cl[p].body /\ c.mac = cl[p].mac
    BY <1>2, <2>2, <2>4, Zenon DEF Client
  <2> HIDE DEF c
  <2>7. c.pc \notin LookingUp /\ c.pc # "connect" /\ c.pc \in Connected
    BY <2>6, Zenon DEF LookingUp, Connected
  <2>8. c.mac \in MacsOf(next_hop_for(Far))
    BY <1>1, <1>3, <2>6, Zenon DEF Clients, ClientInv
  <2>9. Clients'
    BY <1>1, <1>2, <1>5, <2>5, <2>6, <2>7, <2>8, QueriesAsked, ClientStep, Zenon
  <2>10. Polls \in 0 .. Polls /\ cl'[p].pc = Waiting["send"]
    BY <2>2, <2>5, <2>6, Sizes, WaitingIs
  <2>11. call' \in Call /\ CallInv' /\ BytesReturned'
    BY <1>5, <2>10, CallOK, Zenon
  <2>12. TimeoutMissesLast'
    BY <1>5, Zenon DEF TimeoutMissesLast
  <2>13. Wire'
    BY <1>1, <1>3, <1>5, FlushOK, Zenon
  <2>14. QED
    BY <2>9, <2>11, <2>12, <2>13, PartsNext, Zenon DEF Calls
<1>6. QED
  BY <1>4, <1>5, Zenon DEF http_send

LEMMA SendTurnOK ==
  ASSUME IInv, send_turn
  PROVE  IInv'
<1> DEFINE p == call.proc
<1>1. Clients /\ Types
  BY Parts, Zenon
<1>2. call.op = "send" /\ p \in Procs /\ cl[p].pc = "request"
  BY CallerIs, WaitingIs, Zenon DEF send_turn
<1>3. CASE /\ call.left > 0
           /\ \E r \in Polled, s \in Flushed(p) : Take(r, s)
           /\ call' = [call EXCEPT !.left = @ - 1]
           /\ res' = NoResult /\ UNCHANGED <<lookups, cl, open, queries>>
  BY <1>2, <1>3, ConnTurnOK, Zenon
<1>4. CASE /\ Take(Nothing, << >>)
           /\ Proceed(p, IF cl[p].sent = ReqLen THEN "body" ELSE "request")
           /\ UNCHANGED <<lookups, open, queries>>
  <2>1. PICK pc \in {"request", "body"} : pc = IF cl[p].sent = ReqLen THEN "body" ELSE "request"
    BY Zenon
  <2>2. Clients' /\ Calls'
    BY <1>1, <1>2, <1>4, <2>1, AdvanceOK, Zenon
  <2>3. Wire'
    BY <1>1, <1>4, NothingOK, TakeOK, Zenon DEF Wire
  <2>4. QED
    BY <2>2, <2>3, PartsNext, Zenon
<1>5. QED
  BY <1>3, <1>4, Zenon DEF send_turn

LEMMA CloseOK ==
  ASSUME Clients, NEW p \in Procs, NEW n, Close(p, n)
  PROVE  Clients' /\ Calls' /\ queries' = queries
<1>1. /\ cl' = [cl EXCEPT ![p] = Resting] /\ open' = open \ {p}
      /\ res' = [Result(p, "ok") EXCEPT !.body = n]
      /\ lookups' = lookups /\ call' = Idle /\ queries' = queries
  BY Zenon DEF Close
<1>2. open' \subseteq open \cup {p} /\ p \notin open'
  BY <1>1, Zenon
<1>3. Clients'
  BY <1>1, <1>2, RestingIs, QueriesAsked, ClientStep, Zenon
<1>4. res'.out = "ok"
  BY <1>1, Zenon DEF Result
<1>5. QED
  BY <1>1, <1>3, <1>4, IdleCall, Zenon DEF Calls, BytesReturned

LEMMA HttpRecvOK ==
  ASSUME IInv, NEW p \in Procs, http_recv(p)
  PROVE  IInv'
<1>1. Clients /\ Types
  BY Parts, Zenon
<1>2. /\ cl[p].pc = "body" /\ call' = [op |-> "body", proc |-> p, dst |-> Far, left |-> Polls]
      /\ Take(Nothing, << >>) /\ res' = NoResult /\ UNCHANGED <<lookups, cl, open, queries>>
  BY Zenon DEF http_recv
<1>3. Clients'
  BY <1>1, <1>2, ClientsSame, Zenon
<1>4. Polls \in 0 .. Polls /\ cl'[p].pc = Waiting["body"]
  BY <1>2, Sizes, WaitingIs
<1>5. call' \in Call /\ CallInv' /\ BytesReturned'
  BY <1>2, <1>4, CallOK, Zenon
<1>6. TimeoutMissesLast'
  BY <1>2, Zenon DEF TimeoutMissesLast
<1>7. Wire'
  BY <1>1, <1>2, NothingOK, TakeOK, Zenon DEF Wire
<1>8. QED
  BY <1>3, <1>5, <1>6, <1>7, PartsNext, Zenon DEF Calls

LEMMA BodyTurnOK ==
  ASSUME IInv, body_turn
  PROVE  IInv'
<1> DEFINE p == call.proc
<1>1. Clients /\ Types
  BY Parts, Zenon
<1>2. call.op = "body" /\ call.left > 0 /\ p \in Procs /\ cl[p].pc = "body"
  BY CallerIs, WaitingIs, Zenon DEF body_turn
<1>3. cl[p].pc \in Connected /\ PollOK(Nothing)
  BY <1>1, <1>2, NothingOK, Zenon DEF Connected
<1>4. ASSUME NEW n \in tcp_recv(cl[p].body), n = 1, Take(Nothing, << >>), call' = Idle,
             cl' = [cl EXCEPT ![p].body = @ + 1], res' = NoResult,
             UNCHANGED <<lookups, open, queries>>
      PROVE  IInv'
  <2>1. cl \in [Procs -> Client] /\ cl[p] \in Client /\ cl[p].body \in 0 .. PageLen
    BY <1>1, <1>2, Zenon DEF Clients, Client
  <2>2. cl[p].body < PageLen
    BY <1>4 DEF tcp_recv
  <2>3. PICK m \in 0 .. PageLen : m = cl[p].body + 1
    BY <2>1, <2>2, Sizes
  <2> DEFINE c == [cl[p] EXCEPT !.body = m]
  <2>4. cl' = [cl EXCEPT ![p] = c]
    BY <1>4, <2>1, <2>3, Zenon
  <2>5. c \in Client /\ c.pc = "body" /\ c.mac = cl[p].mac
    BY <1>2, <2>1, <2>3, Zenon DEF Client
  <2> HIDE DEF c
  <2>6. c.pc \notin LookingUp /\ c.pc \in Connected
    BY <2>5, Zenon DEF LookingUp, Connected
  <2>7. c.mac \in MacsOf(next_hop_for(Far))
    BY <1>1, <1>2, <1>3, <2>5, Zenon DEF Clients, ClientInv
  <2>8. Clients'
    BY <1>1, <1>2, <1>4, <2>4, <2>5, <2>6, <2>7, QueriesAsked, ClientStep, Zenon
  <2>9. Calls'
    BY <1>4, IdleCall, QuietResult, Zenon DEF Calls
  <2>10. Wire'
    BY <1>1, <1>4, NothingOK, TakeOK, Zenon DEF Wire
  <2>11. QED
    BY <2>8, <2>9, <2>10, PartsNext, Zenon
<1>5. ASSUME NEW n, \E s \in Flushed(p) : Take(Nothing, s), Close(p, n)
      PROVE  IInv'
  <2>1. Clients' /\ Calls' /\ queries' = queries
    BY <1>1, <1>2, <1>5, CloseOK, Zenon
  <2>2. PICK s \in Flushed(p) : Take(Nothing, s)
    BY <1>5, Zenon
  <2>3. Wire'
    BY <1>1, <1>2, <1>3, <2>1, <2>2, FlushOK, Zenon DEF Flushed
  <2>4. QED
    BY <2>1, <2>3, PartsNext, Zenon
<1>6. CASE /\ \E r \in Polled, s \in Flushed(p) : Take(r, s)
           /\ call' = [call EXCEPT !.left = @ - 1]
           /\ res' = NoResult /\ UNCHANGED <<lookups, cl, open, queries>>
  BY <1>2, <1>6, ConnTurnOK, Zenon
<1>7. QED
  BY <1>4, <1>5, <1>6, Zenon DEF body_turn

LEMMA BodyTimeoutOK ==
  ASSUME IInv, body_timeout
  PROVE  IInv'
<1> DEFINE p == call.proc
<1>1. Clients /\ Types
  BY Parts, Zenon
<1>2. call.op = "body" /\ p \in Procs /\ cl[p].pc = "body" /\ RecvError(p)
  BY CallerIs, WaitingIs, Zenon DEF body_timeout
<1>3. cl[p].pc \in Connected /\ PollOK(Nothing) /\ cl[p].body \in 0 .. PageLen
  BY <1>1, <1>2, NothingOK, Zenon DEF Connected, Clients, Client
<1>4. Clients' /\ Calls' /\ queries' = queries
  <2>1. CASE cl[p].body > 0
    BY <1>1, <1>2, <2>1, CloseOK, Zenon DEF RecvError
  <2>2. CASE ~ (cl[p].body > 0)
    <3>1. cl[p].body = 0
      BY <1>3, <2>2, Sizes
    <3>2. QED
      BY <1>1, <1>2, <2>2, <3>1, FailOK, Zenon DEF RecvError
  <2>3. QED
    BY <2>1, <2>2, Zenon
<1>5. PICK s \in Flushed(p) : Take(Nothing, s)
  BY Zenon DEF body_timeout
<1>6. Wire'
  BY <1>1, <1>2, <1>3, <1>4, <1>5, FlushOK, Zenon DEF Flushed
<1>7. QED
  BY <1>4, <1>6, PartsNext, Zenon

-----------------------------------------------------------------------------
(* The theorems.                                                           *)

LEMMA InitInv == Init => IInv
<1> SUFFICES ASSUME Init PROVE IInv
  BY Zenon
<1>1. /\ arp = << >> /\ rx = << >> /\ tx = << >> /\ call = Idle /\ open = {} /\ queries = {}
      /\ res = NoResult /\ lookups = [p \in Procs |-> 0] /\ cl = [p \in Procs |-> Resting]
  BY Zenon DEF Init
<1>2. CacheOK(arp, heard) /\ QueueOK(rx)
  BY <1>1, Sizes, SMTT(30) DEF CacheOK, QueueOK
<1>3. Idle \in Call /\ Idle.op = "idle"
  BY Sizes DEF Idle, Call
<1>4. \A p \in Procs : cl[p] = Resting
  BY <1>1, Zenon
<1>5. cl \in [Procs -> Client] /\ lookups \in [Procs -> Nat]
  BY <1>1, RestingIs, Zenon
<1>6. Asked = {}
  BY <1>1, <1>4, RestingIs, Zenon DEF Asked, LookingUp
<1>7. ClientInv /\ AnswerInv /\ IdsInv
  BY <1>4, <1>6, RestingIs, Zenon DEF ClientInv, AnswerInv, IdsInv, LookingUp, Connected
<1>8. CallInv /\ TimeoutMissesLast /\ NoConnLeft /\ BytesReturned /\ RightHop
  BY <1>1, <1>3 DEF CallInv, TimeoutMissesLast, NoConnLeft, BytesReturned, NoResult, RightHop, Range
<1>9. QED
  BY <1>1, <1>2, <1>3, <1>5, <1>7, <1>8, Zenon DEF IInv, Types

LEMMA SameInv == ASSUME IInv, UNCHANGED vars PROVE IInv'
<1>1. /\ arp' = arp /\ rx' = rx /\ lookups' = lookups /\ cl' = cl /\ call' = call /\ open' = open
      /\ queries' = queries /\ heard' = heard /\ tx' = tx /\ res' = res
  BY Zenon DEF vars
<1>2. Clients /\ Wire /\ Calls
  BY Parts, Zenon
<1>3. Clients'
  BY <1>1, <1>2, ClientsSame, Zenon
<1>4. Wire'
  BY <1>1, <1>2, Zenon DEF Wire, QueueOK, RightHop, Claimed
<1>5. Calls'
  BY <1>1, <1>2, Zenon DEF Calls, CallInv, TimeoutMissesLast, BytesReturned
<1>6. QED
  BY <1>3, <1>4, <1>5, PartsNext, Zenon

LEMMA NextInv == IInv /\ [Next]_vars => IInv'
<1> SUFFICES ASSUME IInv, [Next]_vars PROVE IInv'
  BY Zenon
<1>1. ASSUME NEW p \in Procs, ping_gateway(p) PROVE IInv'
  <2>1. "ping" \in Sends /\ cl[p].pc = Waiting["ping"] /\ Begin(p, "ping", Gateway)
    BY <1>1, WaitingIs, Zenon DEF ping_gateway, Sends
  <2>2. QED
    BY <2>1, BeginOK, Zenon
<1>2. ASSUME NEW p \in Procs, udp_send_to(p) PROVE IInv'
  <2>1. "udp" \in Sends /\ cl[p].pc = Waiting["udp"] /\ Begin(p, "udp", Dns)
    BY <1>2, WaitingIs, Zenon DEF udp_send_to, Sends
  <2>2. QED
    BY <2>1, BeginOK, Zenon
<1>3. ASSUME NEW p \in Procs, tcp_connect(p) PROVE IInv'
  <2>1. "tcp" \in Sends /\ cl[p].pc = Waiting["tcp"] /\ Begin(p, "tcp", Far)
    BY <1>3, WaitingIs, Zenon DEF tcp_connect, Sends
  <2>2. QED
    BY <2>1, BeginOK, Zenon
<1>4. QED
  BY <1>1, <1>2, <1>3, SameInv, ResolveTurnOK, ResolveTimeoutOK, EchoTurnOK, RecvTurnOK,
     RecvTimeoutOK, RecvFromOK, ConnectTurnOK, ConnectTimeoutOK, HttpSendOK, SendTurnOK,
     HttpRecvOK, BodyTurnOK, BodyTimeoutOK, GetOK, Zenon DEF Next

\* IInv is an invariant: the cache and the queue of datagrams, the call in
\* progress, the processes in their lookups, and the ids of their queries agree.
THEOREM Invariance == Spec => []IInv
BY InitInv, NextInv, PTL DEF Spec

\* However frames come and calls interleave, the ARP cache holds the address each
\* host claimed last, and send_to, connect and ping transmit to it.
THEOREM HopsAreSound == Spec => []HopsSound
<1>1. IInv => HopsSound
  <2> SUFFICES ASSUME IInv PROVE HopsSound
    BY Zenon
  <2>1. ArpLatest
    BY Zenon DEF IInv, Types, CacheOK, ArpLatest, Claimed
  <2>2. arp \in Seq([ip : Hosts, mac : UNION {MacsOf(h) : h \in Hosts}]) /\ Len(arp) <= ARP_CAP
    BY Zenon DEF IInv, Types, CacheOK, Entry, Mac
  <2>3. (\A d \in Range(rx) : d.dport \in Ports /\ d.query \in Query) /\ Len(rx) <= MAX_UDP_QUEUE
    <3>1. \A i \in DOMAIN rx : rx[i] \in UdpDatagram
      BY DEF IInv, Types, QueueOK
    <3>2. QED
      BY <3>1, Zenon DEF IInv, Types, QueueOK, UdpDatagram, Range
  <2>4. \A p \in Procs : cl[p].query \in Query /\ cl[p].answered \in Query
                         /\ cl[p].body \in 0 .. PageLen /\ cl[p].sent \in 0 .. ReqLen
    BY Zenon DEF IInv, Types, Client
  <2>5. /\ call.op \in {"idle", "udp", "tcp", "ping", "echo", "recv", "syn", "send", "body"}
        /\ call.left \in 0 .. Polls
    BY Zenon DEF IInv, Types, Call
  <2>6. QED
    BY <2>1, <2>2, <2>3, <2>4, <2>5, Zenon DEF IInv, Types, HopsSound, TypeOK
<1>2. QED
  BY <1>1, Invariance, PTL

\* resolve_a takes the answer to another name for its own only when another
\* process asked for that, or the ids of the process have wrapped.
THEOREM AnswersAreForName == Spec => []AnswerForName
<1>1. IInv => AnswerForName
  <2> SUFFICES ASSUME IInv, NEW p \in Procs, cl[p].pc = "connect",
                      cl[p].answered.name # cl[p].query.name
               PROVE  cl[p].answered.id = cl[p].query.id
                      /\ (cl[p].answered.proc # p \/ lookups[p] > IdMod)
    BY Zenon DEF AnswerForName
  <2>1. cl[p].answered \in Asked /\ cl[p].query \in Asked /\ cl[p].answered.id = cl[p].query.id
    BY QueriesAsked, Zenon DEF IInv, AnswerInv, LookingUp
  <2>2. cl[p].query.proc = p
    BY Zenon DEF IInv, ClientInv, LookingUp
  <2>3. cl[p].answered.proc = p => ~ (lookups[p] <= IdMod)
    BY <2>1, <2>2, Zenon DEF IInv, IdsInv
  <2>4. lookups[p] \in Nat /\ IdMod \in Nat
    BY Sizes, Zenon DEF IInv, Types
  <2>5. QED
    BY <2>1, <2>3, <2>4
<1>2. QED
  BY <1>1, Invariance, PTL

\* A recv_from that gives up has passed over nothing but, perhaps, the datagram
\* that its last turn received.
THEOREM TimeoutsMissLast == Spec => []TimeoutMissesLast
<1>1. IInv => TimeoutMissesLast
  BY Zenon DEF IInv
<1>2. QED
  BY <1>1, Invariance, PTL

\* However a get ends, it has closed its connection, and it fails only when it
\* received nothing.
THEOREM GetsAreSound == Spec => []GetsSound
<1>1. IInv => GetsSound
  BY Zenon DEF IInv, GetsSound
<1>2. QED
  BY <1>1, Invariance, PTL

=============================================================================
