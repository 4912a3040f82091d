----------------------------- MODULE DnsMessage -----------------------------
(***************************************************************************)
(* DNS::Message (dns/message.cpp): queries to wire format and messages     *)
(* back.  A wire is a sequence of bytes; offsets count from 0 as in the    *)
(* code.  A name is the sequence of its labels, a label a sequence of      *)
(* bytes; the code keeps it as one string with dots between the labels.    *)
(***************************************************************************)
EXTENDS Integers, SequencesExt

A == 1
NS == 2
CNAME == 5
MX == 15
TXT == 16
AAAA == 28
IN_CLASS == 1
MaxLabel == 63
MaxDepth == 10

Byte(wire, off) == wire[off + 1]
read_u16(wire, off) == Byte(wire, off) * 256 + Byte(wire, off + 1)
encode_uint16(v) == <<v \div 256, v % 256>>

-----------------------------------------------------------------------------
(* Queries *)

\* Labels with their lengths before them and the root label last; an empty
\* label is left out and a long one is cut.
encode_name(name) ==
    LET Cut(l) == SubSeq(l, 1, IF Len(l) < MaxLabel THEN Len(l) ELSE MaxLabel)
        kept == SelectSeq(name, LAMBDA l : l # <<>>)
    IN  FlattenSeq([i \in DOMAIN kept |-> <<Len(Cut(kept[i]))>> \o Cut(kept[i])])
        \o <<0>>

encode_query(name, type, id) ==
    encode_uint16(id) \o encode_uint16(256)       \* RD
    \o encode_uint16(1) \o encode_uint16(0) \o encode_uint16(0) \o encode_uint16(0)
    \o encode_name(name) \o encode_uint16(type) \o encode_uint16(IN_CLASS)

-----------------------------------------------------------------------------
(* Messages *)

Fail == [ok |-> FALSE]

\* The name at an offset and the offset after it.  A compression pointer ends
\* the name with the name it points to, read one level deeper; a name deeper
\* than MaxDepth is refused, which is what ends a loop of pointers.
PointerWidth_OneByte == 1
PointerWidth == 2

decode_name(wire, start) ==
    LET name[p \in (0..(MaxDepth + 1)) \X Nat] ==
          LET depth == p[1]
              cur == p[2]
              len == Byte(wire, cur)
          IN  IF depth > MaxDepth \/ cur >= Len(wire) THEN Fail
              ELSE IF len = 0 THEN [ok |-> TRUE, name |-> <<>>, off |-> cur + 1]
              ELSE IF len >= 192
              THEN IF cur + 1 >= Len(wire) THEN Fail
                   ELSE LET rest == name[<<depth + 1, (len - 192) * 256 + Byte(wire, cur + 1)>>]
                        IN  IF rest.ok
                            THEN [rest EXCEPT !.off = cur + PointerWidth]
                            ELSE Fail
              ELSE IF len >= 64 \/ cur + 1 + len > Len(wire) THEN Fail
              ELSE LET rest == name[<<depth, cur + 1 + len>>]
                   IN  IF rest.ok
                       THEN [rest EXCEPT !.name = <<SubSeq(wire, cur + 2, cur + 1 + len)>> \o @]
                       ELSE Fail
    IN  name[<<0, start>>]

decode_header(wire) ==
    LET flags == read_u16(wire, 2)
    IN  [id |-> read_u16(wire, 0), tc |-> (flags \div 512) % 2 = 1, rcode |-> flags % 16]

decode_question(wire, off) ==
    LET n == decode_name(wire, off)
    IN  IF ~n.ok \/ n.off + 4 > Len(wire) THEN Fail
        ELSE [ok |-> TRUE, off |-> n.off + 4,
              val |-> [name |-> n.name, qtype |-> read_u16(wire, n.off)]]

\* The character-strings of a TXT record, joined.
TxtStrings(wire, start, end) ==
    LET text[pos \in 0..end] ==
          IF pos >= end THEN [ok |-> TRUE, val |-> <<>>]
          ELSE LET slen == Byte(wire, pos)
               IN  IF pos + 1 + slen > end THEN Fail
                   ELSE LET rest == text[pos + 1 + slen]
                        IN  IF rest.ok
                            THEN [rest EXCEPT !.val = SubSeq(wire, pos + 2, pos + 1 + slen) \o @]
                            ELSE Fail
    IN  text[start]

\* The data of a record by its type; an unknown type reads as empty text.
decode_rdata(wire, off, rdlength, type) ==
    LET Address(size) == IF rdlength # size \/ off + size > Len(wire) THEN Fail
                         ELSE [ok |-> TRUE, val |-> SubSeq(wire, off + 1, off + size)]
        Name(at) == LET n == decode_name(wire, at)
                    IN  IF n.ok THEN [ok |-> TRUE, val |-> n.name] ELSE Fail
    IN  CASE type = A -> Address(4)
          [] type = AAAA -> Address(16)
          [] type = MX -> IF rdlength < 3 THEN Fail ELSE Name(off + 2)
          [] type = TXT -> TxtStrings(wire, off, off + rdlength)
          [] type \in {CNAME, NS} -> Name(off)
          [] OTHER -> [ok |-> TRUE, val |-> <<>>]

decode_rr(wire, off) ==
    LET n == decode_name(wire, off)
    IN  IF ~n.ok \/ n.off + 10 > Len(wire) THEN Fail
        ELSE LET type == read_u16(wire, n.off)
                 rdlen == read_u16(wire, n.off + 8)
                 data == decode_rdata(wire, n.off + 10, rdlen, type)
             IN  IF ~data.ok THEN Fail
                 ELSE [ok |-> TRUE, off |-> n.off + 10 + rdlen,
                       val |-> [name |-> n.name, type |-> type, rdata |-> data.val]]

\* count items from an offset on, each read where the one before it ended.
Section(wire, start, count, Item(_, _)) ==
    LET read[i \in 0..count] ==
          IF i = 0 THEN [ok |-> TRUE, off |-> start, vals |-> <<>>]
          ELSE LET before == read[i - 1]
                   item == Item(wire, before.off)
               IN  IF ~before.ok \/ ~item.ok THEN Fail
                   ELSE [ok |-> TRUE, off |-> item.off, vals |-> Append(before.vals, item.val)]
    IN  read[count]

decode(wire) ==
    IF Len(wire) < 12 THEN Fail
    ELSE LET qd == Section(wire, 12, read_u16(wire, 4), decode_question)
             an == Section(wire, qd.off, read_u16(wire, 6), decode_rr)
             ns == Section(wire, an.off, read_u16(wire, 8), decode_rr)
             ar == Section(wire, ns.off, read_u16(wire, 10), decode_rr)
             h == decode_header(wire)
         IN  IF qd.ok /\ an.ok /\ ns.ok /\ ar.ok
             THEN [ok |-> TRUE, id |-> h.id, tc |-> h.tc, rcode |-> h.rcode,
                   questions |-> qd.vals, answers |-> an.vals]
             ELSE Fail

-----------------------------------------------------------------------------
(* A nameserver's side, for the runs: the reply to a query, byte by byte.   *)

\* The query's wire with another flag word and answer count, and the answer
\* records after it; ptr is the compression pointer to the question's name.
Reply(query, flags, answers) ==
    SubSeq(query, 1, 2) \o encode_uint16(flags) \o encode_uint16(1)
    \o encode_uint16(Len(answers)) \o SubSeq(query, 9, Len(query))
    \o FlattenSeq(answers)
NamePointer == <<192, 12>>
Record(owner, type, rdata) ==
    owner \o encode_uint16(type) \o encode_uint16(IN_CLASS) \o <<0, 0, 0, 60>>
    \o encode_uint16(Len(rdata)) \o rdata

=============================================================================
