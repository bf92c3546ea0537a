------------------------------ MODULE DnsMessage ------------------------------
(***************************************************************************)
(* The messages of the SRV lookup (netbuf_... in src/src/srv.c).  A buffer *)
(* is a sequence of bytes, an offset counts from 0.  Adding gives the bytes*)
(* that are added; getting gives what is read and the offset behind it.    *)
(* Only whole messages are read, whose pointers lead back, as every sender *)
(* of DNS makes them: the code checks neither.                             *)
(***************************************************************************)
LOCAL INSTANCE Integers
LOCAL INSTANCE SequencesExt

DOT == 46
SRV == 33
INTERNET == 1

netbuf_add_16bitnum(num) == <<num \div 256, num % 256>>
netbuf_get_16bitnum(buf, offset) == buf[offset + 1] * 256 + buf[offset + 2]

netbuf_add_32bitnum(num) ==
  netbuf_add_16bitnum(num \div 65536) \o netbuf_add_16bitnum(num % 65536)
netbuf_get_32bitnum(buf, offset) ==
  netbuf_get_16bitnum(buf, offset) * 65536 + netbuf_get_16bitnum(buf, offset + 2)

(* A length above 63 is cut, but not the label it is the length of.        *)
RECURSIVE netbuf_add_domain_name(_)
netbuf_add_domain_name(name) ==
  LET dots == {i \in DOMAIN name : name[i] = DOT}
      wordend == IF dots = {} THEN Len(name) + 1
                 ELSE CHOOSE i \in dots : \A j \in dots : i <= j
      len == IF wordend - 1 > 63 THEN 63 ELSE wordend - 1
  IN  IF name = <<>> THEN <<0>>
      ELSE <<len>> \o SubSeq(name, 1, wordend - 1)
             \o netbuf_add_domain_name(SubSeq(name, wordend + 1, Len(name)))

-----------------------------------------------------------------------------
IsPointer(buf, p) == buf[p + 1] >= 192
Target(buf, p) == (buf[p + 1] % 64) * 256 + buf[p + 2]

\* Faulty variant: behind a pointer the name starts anew.
RECURSIVE NameAnew(_, _, _)
NameAnew(buf, p, name) ==
  IF buf[p + 1] = 0 THEN name
  ELSE IF IsPointer(buf, p) THEN NameAnew(buf, Target(buf, p), <<>>)
  ELSE NameAnew(buf, p + 1 + buf[p + 1],
                name \o (IF name = <<>> THEN <<>> ELSE <<DOT>>)
                     \o SubSeq(buf, p + 2, p + 1 + buf[p + 1]))

(* The name at p, with name already read.                                  *)
RECURSIVE NameFrom(_, _, _)
NameFrom(buf, p, name) ==
  IF buf[p + 1] = 0 THEN name
  ELSE IF IsPointer(buf, p) THEN NameFrom(buf, Target(buf, p), name)
  ELSE NameFrom(buf, p + 1 + buf[p + 1],
                name \o (IF name = <<>> THEN <<>> ELSE <<DOT>>)
                     \o SubSeq(buf, p + 2, p + 1 + buf[p + 1]))

(* The offset behind a name: behind its 0, or behind the first pointer.    *)
RECURSIVE NameEnd(_, _)
NameEnd(buf, p) ==
  IF buf[p + 1] = 0 THEN p + 1
  ELSE IF IsPointer(buf, p) THEN p + 2
  ELSE NameEnd(buf, p + 1 + buf[p + 1])

netbuf_get_domain_name(buf, offset) ==
  [name |-> NameFrom(buf, offset, <<>>), offset |-> NameEnd(buf, offset)]

-----------------------------------------------------------------------------
netbuf_add_dnsquery_header(h) ==
  netbuf_add_16bitnum(h.id)
  \o <<(h.qr % 2) * 128 + (h.opcode % 16) * 8 + (h.aa % 2) * 4 + (h.tc % 2) * 2 + (h.rd % 2),
       (h.ra % 2) * 128 + (h.z % 8) * 16 + (h.rcode % 16)>>
  \o netbuf_add_16bitnum(h.qdcount) \o netbuf_add_16bitnum(h.ancount)
  \o netbuf_add_16bitnum(h.nscount) \o netbuf_add_16bitnum(h.arcount)

netbuf_get_dnsquery_header(buf) ==
  [id |-> netbuf_get_16bitnum(buf, 0),
   qr |-> buf[3] \div 128, opcode |-> (buf[3] \div 8) % 16, aa |-> (buf[3] \div 4) % 2,
   tc |-> (buf[3] \div 2) % 2, rd |-> buf[3] % 2,
   ra |-> buf[4] \div 128, z |-> (buf[4] \div 16) % 8, rcode |-> buf[4] % 16,
   qdcount |-> netbuf_get_16bitnum(buf, 4), ancount |-> netbuf_get_16bitnum(buf, 6),
   nscount |-> netbuf_get_16bitnum(buf, 8), arcount |-> netbuf_get_16bitnum(buf, 10)]

netbuf_add_dnsquery_question(q) ==
  netbuf_add_domain_name(q.qname) \o netbuf_add_16bitnum(q.qtype)
    \o netbuf_add_16bitnum(q.qclass)

netbuf_get_dnsquery_question(buf, offset) ==
  LET at == netbuf_get_domain_name(buf, offset)
  IN  [qname |-> at.name, qtype |-> netbuf_get_16bitnum(buf, at.offset),
       qclass |-> netbuf_get_16bitnum(buf, at.offset + 2), offset |-> at.offset + 4]

netbuf_get_dnsquery_srvrdata(buf, offset) ==
  [priority |-> netbuf_get_16bitnum(buf, offset),
   weight |-> netbuf_get_16bitnum(buf, offset + 2),
   port |-> netbuf_get_16bitnum(buf, offset + 4),
   target |-> netbuf_get_domain_name(buf, offset + 6).name]

(* rdata is left alone by a record that is not SRV, whose data is skipped. *)
netbuf_get_dnsquery_resourcerecord(buf, offset, rdata) ==
  LET at == netbuf_get_domain_name(buf, offset).offset
      type == netbuf_get_16bitnum(buf, at)
  IN  [type |-> type,
       class |-> netbuf_get_16bitnum(buf, at + 2),
       ttl |-> netbuf_get_32bitnum(buf, at + 4),
       rdlength |-> netbuf_get_16bitnum(buf, at + 8),
       rdata |-> IF type = SRV THEN netbuf_get_dnsquery_srvrdata(buf, at + 10) ELSE rdata,
       offset |-> at + 10 + netbuf_get_16bitnum(buf, at + 8)]
=============================================================================
