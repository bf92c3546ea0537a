------------------------------- MODULE SrvLookup -------------------------------
(***************************************************************************)
(* im_srv_lookup (src/src/srv.c) as built for Windows: it asks dnsapi, then*)
(* one name server after the other until a datagram comes, and falls back  *)
(* on the domain itself.  Servers, dnsapi and the network are external.    *)
(***************************************************************************)
EXTENDS DnsMessage
LOCAL INSTANCE Integers
LOCAL INSTANCE SequencesExt

CONSTANTS
  Service,      \* "_" and service, the protocol likewise: names
  Proto,
  Domains,      \* the domains that are looked up
  MaxServers,   \* name servers that the system may be configured with
  Polls,        \* calls of recvfrom for one server: 50 in the code
  Records       \* the lists of records that a server may answer with: each has
                \* a type, a target and a port

ASSUME MaxServersAssumption == MaxServers \in Nat
ASSUME PollsAssumption == Polls \in Nat \ {0}

VARIABLES
  at,        \* where the caller is: "start", "servers", "send", "poll", "done",
             \* or "lost": it does not return, or has left its buffers
  domain,
  servers,   \* how many name servers were found
  i, j,      \* the loops over servers and polls
  buf,       \* the query, then what recvfrom put in its place
  insize,    \* the result of recvfrom, -1 for SOCKET_ERROR
  coming,    \* what the server asked last will do
  resolved,  \* what the caller gets: result, target and port
  told       \* history: the SRV records the caller has been sent

lookupVars == <<at, domain, servers, i, j, buf, insize, coming, resolved, told>>

Silence == [kind |-> "silence", bytes |-> <<>>, records |-> <<>>, more |-> <<>>]

LookupInit ==
  /\ at = "start"
  /\ domain \in Domains
  /\ servers = 0 /\ i = 0 /\ j = 0
  /\ buf = <<>> /\ insize = 0
  /\ coming = Silence
  /\ resolved = [result |-> 0, target |-> <<>>, port |-> 0]
  /\ told = <<>>

fulldomain == Service \o <<DOT>> \o Proto \o <<DOT>> \o domain

(* The one query for all servers.                                          *)
Query ==
  netbuf_add_dnsquery_header(
    [id |-> 12345, qr |-> 0, opcode |-> 0, aa |-> 0, tc |-> 0, rd |-> 1, ra |-> 0, z |-> 0,
     rcode |-> 0, qdcount |-> 1, ancount |-> 0, nscount |-> 0, arcount |-> 0])
  \o netbuf_add_dnsquery_question([qname |-> fulldomain, qtype |-> SRV, qclass |-> INTERNET])

-----------------------------------------------------------------------------
(* A name server, by RFC 1035: labels of 1 to 63 bytes; it answers what it *)
(* reads, and what is not a query with a bare header that says so.  Names  *)
(* in its answer may point back to the question.                           *)
RECURSIVE Labels(_)
Labels(name) ==
  LET dots == {p \in DOMAIN name : name[p] = DOT}
      p == CHOOSE d \in dots : \A e \in dots : d <= e
  IN  IF dots = {} THEN <<name>>
      ELSE <<SubSeq(name, 1, p - 1)>> \o Labels(SubSeq(name, p + 1, Len(name)))

WellFormed(name) == \A p \in DOMAIN Labels(name) : Len(Labels(name)[p]) \in 1 .. 63

WireName(name) ==
  FlattenSeq([p \in DOMAIN Labels(name) |-> <<Len(Labels(name)[p])>> \o Labels(name)[p]]) \o <<0>>

Num16(n) == <<n \div 256, n % 256>>

Question == WireName(fulldomain) \o Num16(SRV) \o Num16(INTERNET)

IsQuery(bytes) ==
  /\ WellFormed(fulldomain)
  /\ bytes = <<48, 57, 1, 0, 0, 1, 0, 0, 0, 0, 0, 0>> \o Question

(* A target under domain ends in a pointer to it, when compressed.         *)
WireTarget(target, compressed) ==
  LET ends == IsStrictSuffix(<<DOT>> \o domain, target)
      own == SubSeq(target, 1, Len(target) - Len(domain) - 1)
      first == 12 + Len(Service) + 1 + Len(Proto) + 1
  IN  IF compressed /\ ends
      THEN SubSeq(WireName(own), 1, Len(WireName(own)) - 1) \o <<192, first>>
      ELSE WireName(target)

WireRecord(r, compressed) ==
  LET rdata == (IF r.type = SRV THEN Num16(10) \o Num16(5) \o Num16(r.port) ELSE <<>>)
               \o WireTarget(r.target, compressed)
  IN  (IF compressed THEN <<192, 12>> ELSE WireName(fulldomain))
      \o Num16(r.type) \o Num16(INTERNET) \o <<0, 1, 81, 128>> \o Num16(Len(rdata)) \o rdata

(* The answers, and more records behind them that are none.                *)
WireAnswer(records, more, compressed) ==
  LET all == records \o more
  IN  <<48, 57, 129, 128>> \o Num16(1) \o Num16(Len(records)) \o Num16(0) \o Num16(Len(more))
      \o Question \o FlattenSeq([p \in DOMAIN all |-> WireRecord(all[p], compressed)])

FormatError == <<48, 57, 129, 129, 0, 0, 0, 0, 0, 0, 0, 0>>

(* What a server may do about the bytes it is sent: refuse the connection, *)
(* send nothing, an empty datagram, or an answer.                          *)
Error == [Silence EXCEPT !.kind = "error"]
Datagram(bytes, records, more) ==
  [kind |-> "datagram", bytes |-> bytes, records |-> records, more |-> more]

Reactions(bytes) ==
  {Silence, Error, Datagram(<<>>, <<>>, <<>>)} \cup
  IF IsQuery(bytes)
  THEN {Datagram(WireAnswer(records, more, c), records, more) :
          records, more \in Records, c \in BOOLEAN}
  ELSE {Datagram(FormatError, <<>>, <<>>)}

-----------------------------------------------------------------------------
Resolved(target, port) == [result |-> 1, target |-> target, port |-> port]

SrvOf(records) == SelectSeq(records, LAMBDA r : r.type = SRV)

(* The first SRV record of dnsapi's list, if dnsapi gives any.             *)
AskDnsapi(records) ==
  /\ at = "start"
  /\ told' = IF SrvOf(records) = <<>> THEN <<>> ELSE <<Head(SrvOf(records))>>
  /\ IF told' = <<>> THEN at' = "servers" /\ UNCHANGED resolved
     ELSE at' = "done" /\ resolved' = Resolved(told'[1].target, told'[1].port)
  /\ UNCHANGED <<domain, servers, i, j, buf, insize, coming>>

(* GetNetworkParams, or the registry, lists the servers, 16 at most.       *)
FindServers(n) ==
  /\ at = "servers"
  /\ servers' = n
  /\ buf' = IF n > 0 THEN Query ELSE <<>>
  /\ at' = "send"
  /\ UNCHANGED <<domain, i, j, insize, coming, resolved, told>>

MoreToAsk == i < servers /\ insize <= 0

sendto ==
  /\ at = "send" /\ MoreToAsk
  /\ coming' \in Reactions(buf)
  /\ j' = 0
  /\ at' = "poll"
  /\ UNCHANGED <<domain, servers, i, buf, insize, resolved, told>>

(* Each server has a socket of its own: what it sends after the last poll  *)
(* is lost.                                                                *)
closesocket ==
  /\ i' = i + 1
  /\ at' = "send"

WouldBlock ==
  /\ at = "poll" /\ coming.kind # "error"
  /\ insize' = -1
  /\ j' = j + 1
  /\ IF j' < Polls THEN UNCHANGED <<at, i>> ELSE closesocket
  /\ UNCHANGED <<domain, servers, buf, coming, resolved, told>>

RecvError ==
  /\ at = "poll" /\ coming.kind = "error"
  /\ insize' = -1
  /\ closesocket
  /\ UNCHANGED <<domain, servers, j, buf, coming, resolved, told>>

Receive ==
  /\ at = "poll" /\ coming.kind = "datagram"
  /\ insize' = Len(coming.bytes)
  /\ buf' = IF coming.bytes = <<>> THEN buf ELSE coming.bytes
  /\ told' = SrvOf(coming.records)
  /\ closesocket
  /\ UNCHANGED <<domain, servers, j, coming, resolved>>

-----------------------------------------------------------------------------
UpTo(n) == [p \in 1 .. n |-> p]

(* A loop over n records.  All records of a message are whole: one that    *)
(* starts behind the last byte is read from what stands in the buffer.     *)
Loop(bytes, n, s0) ==
  LET record(s, p) ==
        LET rr == netbuf_get_dnsquery_resourcerecord(bytes, s.offset, s.rdata)
        IN  IF s.offset >= Len(bytes) THEN [s EXCEPT !.behind = TRUE]
            ELSE [s EXCEPT !.offset = rr.offset, !.rdata = rr.rdata,
                           !.found = IF rr.type = SRV
                                     THEN <<Resolved(rr.rdata.target, rr.rdata.port)>> ELSE @]
  IN  FoldLeft(record, s0, UpTo(n))

(* The questions are skipped, then of the answers the last SRV counts.     *)
Parsed(bytes) ==
  LET header == netbuf_get_dnsquery_header(bytes)
      question(offset, p) == netbuf_get_dnsquery_question(bytes, offset).offset
  IN  Loop(bytes, header.ancount,
           [offset |-> FoldLeft(question, 12, UpTo(header.qdcount)),
            rdata |-> <<>>, found |-> <<>>, behind |-> FALSE])

(* As many records are then read again, from behind the answers.           *)
ReadAgain(bytes) == Loop(bytes, netbuf_get_dnsquery_header(bytes).ancount, Parsed(bytes))

(* The rest of the function, with its fallback.  What stands behind the    *)
(* datagram has never been written: read as records it may end, lead round *)
(* in a circle, or lead out of the buffer.                                 *)
Conclude ==
  /\ at = "send" /\ ~MoreToAsk
  /\ at' \in {"done"} \cup IF insize > 0 /\ ReadAgain(buf).behind THEN {"lost"} ELSE {}
  /\ resolved' = IF insize > 0 /\ Parsed(buf).found # <<>> THEN Parsed(buf).found[1]
                 ELSE [result |-> 0, target |-> domain, port |-> 5222]
  /\ UNCHANGED <<domain, servers, i, j, buf, insize, coming, told>>

LookupNext ==
  \/ \E records \in Records \cup {<<>>} : AskDnsapi(records)
  \/ \E n \in 0 .. MaxServers : FindServers(n)
  \/ sendto
  \/ WouldBlock
  \/ RecvError
  \/ Receive
  \/ Conclude

(* srv.c:126-347, 564-695: a lookup ends with the target and the port of   *)
(* one record, the last SRV record among its answers, however names are    *)
(* packed and whatever stands between and behind; without one, with the    *)
(* domain and 5222.  A server that is asked for a proper name understands  *)
(* the question.  The answers are read inside the datagram, and nothing is *)
(* read behind it where as many records follow the answers as there are.   *)
LookupRight ==
  /\ (at = "poll" /\ coming.bytes = FormatError) => ~WellFormed(fulldomain)
  /\ at = "done" =>
       resolved = IF told = <<>> THEN [result |-> 0, target |-> domain, port |-> 5222]
                  ELSE Resolved(told[Len(told)].target, told[Len(told)].port)
  /\ at = "lost" => Len(coming.more) < Len(coming.records)
  /\ (at = "send" /\ insize > 0) => ~Parsed(buf).behind
=============================================================================
