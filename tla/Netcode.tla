------------------------------- MODULE Netcode ------------------------------
(***************************************************************************)
(* The Forwarder and the checksum codec of src/netcode.c: forward()       *)
(* rewrites a packet of a redirected flow between EXT and the HIH,        *)
(* shifts its TCP sequence space by the flow's delta, recomputes the      *)
(* transport checksum with in_cksum and hands it to send_raw;            *)
(* reply_reset answers a LIH packet with a TCP RST built from scratch.   *)
(*                                                                        *)
(* A frame is kept as its 16-bit words, in their order and number (IP    *)
(* header 10 and 2 per option word, TCP header 10, UDP header 4, and the *)
(* pseudo header 6 that in_cksum also sums), with the word width scaled  *)
(* down to W bits; seq and ack numbers and addresses are two words wide. *)
(* The ones'-complement sum does not depend on byte order, so the words  *)
(* are taken in network order.  forward() rewrites the copy of the frame *)
(* at the offsets of struct tcp_packet, and the properties read the      *)
(* frame where its receiver does, after ihl * 4 bytes of IP header.      *)
(***************************************************************************)
EXTENDS Integers, SequencesExt, FlowKeys

CONSTANTS
    W,          \* bits of a checksum word (16 in the code)
    HihPort,    \* a port of the HIH other than the LIH's port
    Deltas,     \* hih.delta values of a flow
    SeqNums,    \* seq and ack numbers of the packets
    Payloads,   \* payloads, as sequences of words
    Ihls,       \* IP header lengths of the packets, in 32-bit words
    NoPkt

\* init_pkt drops a frame whose ihl is below 5 or above 8
ASSUME Ihls \subseteq 5..8

WordMod == 2 ^ W
SeqSpace  == WordMod * WordMod          \* 2^32 in the code
Word    == 0..WordMod - 1

Protos  == {"TCP", "UDP"}
\* the protocol field, in the word it shares with the zero byte or the TTL
ProtoWord(pr) == IF pr = "TCP" THEN 6 ELSE 17

(* A packet as the Classifier hands it over, with the origin conn_lookup *)
(* gave it: EXT, HIH, LIH, or NONE when no record of the redirected flow *)
(* is found.  "ihl" is its IP header length in 32-bit words, and "check" *)
(* the transport checksum it arrived with.                               *)
Packet == [origin : {"EXT", "HIH", "LIH", "NONE"}, proto : Protos, id : Word,
           ihl : 5..8, saddr : 0..SeqSpace - 1, daddr : 0..SeqSpace - 1,
           sport : Word, dport : Word, seq : 0..SeqSpace - 1,
           ack : 0..SeqSpace - 1, ackflag : BOOLEAN, syn : BOOLEAN,
           fin : BOOLEAN, rst : BOOLEAN, payload : Seq(Word), check : Word]

VARIABLES
    delta,     \* conn->hih.delta
    pkt,       \* the packet forward() is called with
    out,       \* the frame send_raw put on the wire, as words, or NoPkt
    done,      \* the packet has been handled
    expected   \* conn->expected_data: protocol, seq and ack

vars == <<delta, pkt, out, done, expected>>

(* a packet sent by EXT, the HIH or the LIH, at any input values, with  *)
(* its sender as origin.  The HIH answers from the port forward() sent  *)
(* EXT's packets to, or from another one.  The flows redirected are     *)
(* initiated by EXT, so every LIH packet has ACK.                        *)
Inputs ==
    [origin : {"EXT"}, proto : Protos, id : {1}, ihl : Ihls, saddr : {ExtAddr},
     daddr : {LihAddr}, sport : {ExtPort}, dport : {LihPort}, seq : SeqNums,
     ack : SeqNums, ackflag : BOOLEAN, syn : {FALSE}, fin : {FALSE},
     rst : {FALSE}, payload : Payloads, check : {0, 1}]
    \cup
    [origin : {"HIH"}, proto : Protos, id : {1}, ihl : Ihls, saddr : {HihAddr},
     daddr : {ExtAddr}, sport : {HihRec.port, HihPort}, dport : {ExtPort}, seq : SeqNums,
     ack : SeqNums, ackflag : {TRUE}, syn : {FALSE}, fin : {FALSE},
     rst : {FALSE}, payload : Payloads, check : {0, 1}]
    \cup
    [origin : {"LIH"}, proto : Protos, id : {1}, ihl : Ihls, saddr : {LihAddr},
     daddr : {ExtAddr}, sport : {LihPort}, dport : {ExtPort}, seq : SeqNums,
     ack : SeqNums, ackflag : {TRUE}, syn : BOOLEAN, fin : BOOLEAN,
     rst : {FALSE}, payload : Payloads, check : {0}]

\* the packet with the origin conn_lookup finds for it
Resolved(r) == [r EXCEPT !.origin = conn_lookup(r)]

Init ==
    /\ delta \in Deltas
    /\ pkt \in {Resolved(r) : r \in Inputs}
    /\ out = NoPkt
    /\ done = FALSE
    /\ expected = [ip_proto |-> 0, tcp_seq |-> 0, tcp_ack_seq |-> 0]

-----------------------------------------------------------------------------
\* a two-word value as its high and low words, read and written in a frame
Split(x) == <<x \div WordMod, x % WordMod>>
Get2(f, i) == f[i] * WordMod + f[i + 1]
Put2(f, i, x) == [f EXCEPT ![i] = x \div WordMod, ![i + 1] = x % WordMod]

\* lengths in bytes, two per word
TransportLen(p) == 2 * ((IF p.proto = "TCP" THEN 10 ELSE 4) + Len(p.payload))
TotLen(p) == 4 * p.ihl + TransportLen(p)

\* the IP header; its checksum word is 0 here, the kernel fills it in
IpWords(p) ==
    <<4 * 16 + p.ihl, TotLen(p) % WordMod, p.id, 0, ProtoWord(p.proto), 0>>
    \o Split(p.saddr) \o Split(p.daddr)

\* the IP options of a header longer than 20 bytes: NOP options
Options(p) == [i \in 1..2 * (p.ihl - 5) |-> 1]

\* the flag bits of the TCP header: FIN 1, SYN 2, RST 4, ACK 16
FlagsWord(p) ==
    (IF p.fin THEN 1 ELSE 0) + (IF p.syn THEN 2 ELSE 0)
    + (IF p.rst THEN 4 ELSE 0) + (IF p.ackflag THEN 16 ELSE 0)
FlagSet(w, bit) == (w \div bit) % 2 = 1

\* the TCP header (data offset and flags folded in one word) and payload
TcpWords(p) ==
    <<p.sport, p.dport>> \o Split(p.seq) \o Split(p.ack)
    \o <<FlagsWord(p), 0, p.check, 0>> \o p.payload

UdpWords(p) == <<p.sport, p.dport, TransportLen(p) % WordMod, p.check>> \o p.payload

\* the frame of a packet: IP header, options, transport header, payload
Frame(p) ==
    IpWords(p) \o Options(p)
    \o (IF p.proto = "TCP" THEN TcpWords(p) ELSE UdpWords(p))

(* struct tcp_packet and struct udp_packet put the transport header      *)
(* right after a 20-byte struct iphdr: in a frame, word 11 is the source  *)
(* port, 12 the destination port, 13-14 seq, 15-16 ack_seq, 17 the flags, *)
(* 19 the TCP check, and 14 the UDP check, whatever the frame's ihl.      *)
TcpCheckAt == 19
UdpCheckAt == 14

-----------------------------------------------------------------------------
(* Mutant: the carry of the first fold not added back.                   *)
in_cksum_onefold(words) ==
    LET sum  == SumFunction(words)
        sum1 == (sum \div WordMod) + (sum % WordMod)
    IN  WordMod - 1 - (sum1 % WordMod)

(* in_cksum: the words summed in a wide accumulator, the high half       *)
(* folded into the low half twice, the complement truncated to a word.  *)
in_cksum(words) ==
    LET sum  == SumFunction(words)
        sum1 == (sum \div WordMod) + (sum % WordMod)
        sum2 == sum1 + (sum1 \div WordMod)
    IN  WordMod - 1 - (sum2 % WordMod)

(* tcp_checksum: the check field zeroed, len_tcp = tot_len - ihl * 4,    *)
(* and in_cksum over the pseudo header of the frame's addresses and       *)
(* len_tcp bytes from the end of struct iphdr (the header memcpy'd from   *)
(* pkt->tcp, the rest from &pkt->payload, 40 bytes in).                  *)
tcp_checksum(f) ==
    LET len_tcp == f[2] - 4 * (f[1] % 16)
        f0 == [f EXCEPT ![TcpCheckAt] = 0]
        pseudo == SubSeq(f, 7, 10) \o <<6, len_tcp % WordMod>>
    IN  [f0 EXCEPT ![TcpCheckAt] =
             in_cksum(pseudo \o SubSeq(f0, 11, 10 + len_tcp \div 2))]

(* udp_checksum: in_cksum over sizeof(struct udphdr) bytes from the      *)
(* start of the struct udp_packet, which is the IP header.               *)
udp_checksum(f) ==
    [f EXCEPT ![UdpCheckAt] = in_cksum(SubSeq(f, 1, 4))]

\* ~delta + 1 in unsigned 32-bit arithmetic
Complement(d) == SeqSpace - 1 - d

(* Mutant: the acknowledgment rewritten as ack + ~delta.                 *)
Rewrite_nominus(p) ==
    LET f == Frame(p) IN
    IF p.origin = "HIH"
    THEN LET g == [Put2(f, 7, HihRec.lih_addr) EXCEPT ![11] = HihRec.port]
         IN  IF p.proto = "TCP"
             THEN tcp_checksum(Put2(g, 13, (p.seq + delta) % SeqSpace))
             ELSE udp_checksum(g)
    ELSE LET g == [Put2(f, 9, HihRec.addr) EXCEPT ![12] = HihRec.port]
         IN  IF p.proto = "TCP"
             THEN tcp_checksum(IF FlagSet(g[17], 16)
                               THEN Put2(g, 15, (p.ack + Complement(delta)) % SeqSpace)
                               ELSE g)
             ELSE udp_checksum(g)

(* forward(): a copy of the frame; a HIH packet gets hih.lih_addr as     *)
(* source address and hih.port as source port, and for TCP the seq       *)
(* pkt->packet.tcp carries plus delta; an EXT packet gets hih.addr and   *)
(* hih.port as destination and, when the copy's ACK bit is set, the ack  *)
(* pkt->packet.tcp carries plus ~delta + 1.  The ports, numbers and the  *)
(* ACK bit of the copy are those of struct tcp_packet, 20 bytes in.  The *)
(* transport checksum is recomputed after.                               *)
Rewrite(p) ==
    LET f == Frame(p) IN
    IF p.origin = "HIH"
    THEN LET g == [Put2(f, 7, HihRec.lih_addr) EXCEPT ![11] = HihRec.port]
         IN  IF p.proto = "TCP"
             THEN tcp_checksum(Put2(g, 13, (p.seq + delta) % SeqSpace))
             ELSE udp_checksum(g)
    ELSE LET g == [Put2(f, 9, HihRec.addr) EXCEPT ![12] = HihRec.port]
         IN  IF p.proto = "TCP"
             THEN tcp_checksum(IF FlagSet(g[17], 16)
                               THEN Put2(g, 15, (p.ack + Complement(delta) + 1) % SeqSpace)
                               ELSE g)
             ELSE udp_checksum(g)

(* forward() then ip_checksum and send_raw.  ip_checksum sums the header *)
(* with its old check word in place; the raw sockets are IP_HDRINCL, for *)
(* which the kernel always fills in the IP header checksum, so what goes *)
(* out is the rewritten frame.                                           *)
forward ==
    /\ ~done
    /\ pkt.origin \in {"EXT", "HIH"}
    /\ out' = Rewrite(pkt)
    /\ done' = TRUE
    /\ UNCHANGED <<delta, pkt, expected>>

(* Mutant: the RST's seq taken from the LIH packet's seq.                 *)
reply_reset_seq(p) ==
    tcp_checksum(Frame(
      [origin |-> p.origin, proto |-> "TCP", id |-> 0, ihl |-> 5,
       saddr |-> p.daddr, daddr |-> p.saddr, sport |-> p.dport, dport |-> p.sport,
       seq |-> IF p.ackflag THEN p.seq ELSE 0,
       ack |-> (p.seq + (IF p.syn THEN 1 ELSE 0) + (IF p.fin THEN 1 ELSE 0)
                + TotLen(p) - 4 * p.ihl - 4 * 5) % SeqSpace,
       ackflag |-> TRUE, syn |-> FALSE, fin |-> FALSE, rst |-> TRUE,
       payload |-> <<>>, check |-> 0]))

(* reply_reset: a bare 40-byte RST+ACK from the packet's destination to *)
(* its source, with seq the packet's ack_seq if ACK is set (else 0) and *)
(* ack its seq + syn + fin + the payload length (tot_len - ihl*4 -       *)
(* doff*4), then tcp_checksum.                                           *)
reply_reset(p) ==
    tcp_checksum(Frame(
      [origin |-> p.origin, proto |-> "TCP", id |-> 0, ihl |-> 5,
       saddr |-> p.daddr, daddr |-> p.saddr, sport |-> p.dport, dport |-> p.sport,
       seq |-> IF p.ackflag THEN p.ack ELSE 0,
       ack |-> (p.seq + (IF p.syn THEN 1 ELSE 0) + (IF p.fin THEN 1 ELSE 0)
                + TotLen(p) - 4 * p.ihl - 4 * 5) % SeqSpace,
       ackflag |-> TRUE, syn |-> FALSE, fin |-> FALSE, rst |-> TRUE,
       payload |-> <<>>, check |-> 0]))

(* reset_lih with the flow's last LIH packet: reply_reset sends the RST *)
(* for a TCP packet and returns NOK, sending nothing, for any other.     *)
reset ==
    /\ ~done
    /\ pkt.origin = "LIH"
    /\ out' = IF pkt.proto = "TCP" THEN reply_reset(pkt) ELSE NoPkt
    /\ done' = TRUE
    /\ UNCHANGED <<delta, pkt, expected>>

(* Mutant: the expected seq shifted by + delta, the HIH-to-EXT direction. *)
define_expected_data_plus(e, p) ==
    IF p.proto = "TCP"
    THEN [e EXCEPT !.ip_proto = 6, !.tcp_seq = (p.seq + delta) % SeqSpace,
                   !.tcp_ack_seq = p.ack]
    ELSE [e EXCEPT !.ip_proto = 17]

(* define_expected_data: the HIH's answer to the replayed EXT packets is *)
(* expected to carry the LIH packet's protocol and, for TCP, its seq     *)
(* moved into the HIH's space (seq + ~delta + 1) and its ack unchanged;  *)
(* for UDP the TCP fields keep what they held.  The payload pointer it   *)
(* also records is left out: test_expected returns OK whether the        *)
(* payloads compare equal or not.                                        *)
define_expected_data(e, p) ==
    IF p.proto = "TCP"
    THEN [e EXCEPT !.ip_proto = 6,
                   !.tcp_seq = (p.seq + Complement(delta) + 1) % SeqSpace,
                   !.tcp_ack_seq = p.ack]
    ELSE [e EXCEPT !.ip_proto = 17]

(* test_expected: OK unless the protocol differs, the seq of a TCP      *)
(* segment without SYN differs, or its ack differs; both payload        *)
(* branches return OK.                                                  *)
test_expected(e, r) ==
    /\ ProtoWord(r.proto) = e.ip_proto
    /\ r.proto = "TCP" => (r.syn \/ r.seq = e.tcp_seq) /\ r.ack = e.tcp_ack_seq

(* replay() and setup_redirection: the next LIH packet of the buffer,   *)
(* once the EXT packets before it are forwarded, defines what the HIH   *)
(* must answer next; nothing is sent for it.                            *)
expect ==
    /\ ~done
    /\ pkt.origin = "LIH"
    /\ expected' = define_expected_data(expected, pkt)
    /\ out' = NoPkt
    /\ done' = TRUE
    /\ UNCHANGED <<delta, pkt>>

\* the next packet of the flow reaches the Forwarder
next_packet ==
    /\ done
    /\ pkt' \in {Resolved(r) : r \in Inputs}
    /\ out' = NoPkt
    /\ done' = FALSE
    /\ UNCHANGED <<delta, expected>>

(* conn_lookup finds no record of the redirected flow: the packet is    *)
(* handed to create_conn as a new flow, and the Forwarder sends nothing. *)
no_flow ==
    /\ ~done
    /\ pkt.origin = "NONE"
    /\ out' = NoPkt
    /\ done' = TRUE
    /\ UNCHANGED <<delta, pkt, expected>>

Next == forward \/ reset \/ expect \/ no_flow \/ next_packet

Spec == Init /\ [][Next]_vars
-----------------------------------------------------------------------------
(* The receiver's check, an independent reference (RFC 1071): the words *)
(* added one at a time with end-around carry; a segment is intact when  *)
(* the sum over it, its checksum included, is all ones.                 *)
RECURSIVE OnesSum(_)
OnesSum(words) ==
    IF words = <<>> THEN 0
    ELSE LET t == Head(words) + OnesSum(Tail(words))
         IN  IF t >= WordMod THEN t - WordMod + 1 ELSE t

Verifies(words) == OnesSum(words) = WordMod - 1

(* The receiver's reading of a frame: the transport header starts after *)
(* ihl * 4 bytes of IP header, and the segment runs to the frame's end.  *)
RcvOff(f) == 2 * (f[1] % 16)
Received(f) ==
    LET o == RcvOff(f)
        sock == [saddr |-> Get2(f, 7), daddr |-> Get2(f, 9),
                 sport |-> f[o + 1], dport |-> f[o + 2]]
    IN  IF f[5] = 6
        THEN sock @@ [proto |-> "TCP", seq |-> Get2(f, o + 3),
                      ack |-> Get2(f, o + 5), flags |-> f[o + 7],
                      check |-> f[o + 9]]
        ELSE sock @@ [proto |-> "UDP", check |-> f[o + 4]]
Segment(f) == SubSeq(f, RcvOff(f) + 1, Len(f))
SegmentVerifies(f) ==
    Verifies(SubSeq(f, 7, 10) \o <<f[5], (2 * Len(Segment(f))) % WordMod>>
             \o Segment(f))

(* Every TCP segment forward() sends passes the receiver's checksum      *)
(* verification over the pseudo header of its rewritten addresses, its  *)
(* header and its payload: tcp_checksum zeroes the old check, sums the  *)
(* whole segment and in_cksum folds every carry back.                    *)
TcpChecksumValid ==
    out # NoPkt /\ Received(out).proto = "TCP" => SegmentVerifies(out)

(* Every segment or datagram forward() sends passes the receiver's       *)
(* checksum verification (a UDP datagram may carry the checksum 0 that   *)
(* receivers skip), in frames with IP options too.                       *)
ForwardedChecksumsValid ==
    out # NoPkt =>
        \/ SegmentVerifies(out)
        \/ Received(out).proto = "UDP" /\ Received(out).check = 0

(* spec.md 4.5: the seq of a HIH segment is shifted by delta towards EXT *)
(* and the ack of an EXT segment shifted back by the same delta modulo   *)
(* 2^32, so that undoing the rewrite gives the original number; the      *)
(* number not rewritten is left as it was.                               *)
SeqSpaceRoundTrip ==
    LET r == Received(out) IN
    out # NoPkt /\ r.proto = "TCP" /\ pkt.origin # "LIH" =>
        IF pkt.origin = "HIH"
        THEN (r.seq - delta) % SeqSpace = pkt.seq /\ r.ack = pkt.ack
        ELSE /\ (IF pkt.ackflag THEN (r.ack + delta) % SeqSpace ELSE r.ack) = pkt.ack
             /\ r.seq = pkt.seq

(* The RST that reset_lih sends tears the LIH's connection down: it      *)
(* reaches the LIH's socket from the EXT socket the LIH talks to, has    *)
(* RST set, carries as seq exactly the LIH's next expected sequence      *)
(* number (the ack of the LIH's last packet), which is the only value a *)
(* TCP receiver accepts for a RST, and passes the checksum verification. *)
RstAcceptedByLih ==
    LET r == Received(out) IN
    out # NoPkt /\ pkt.origin = "LIH" =>
        /\ FlagSet(r.flags, 4)
        /\ <<r.saddr, r.sport>> = <<pkt.daddr, pkt.dport>>
        /\ <<r.daddr, r.dport>> = <<pkt.saddr, pkt.sport>>
        /\ r.seq = pkt.ack
        /\ SegmentVerifies(out)

\* a TCP answer of the HIH without SYN, at the seq and ack numbers given
HihReply(s, a, p) ==
    [origin |-> "HIH", proto |-> "TCP", id |-> 1, ihl |-> 5, saddr |-> HihAddr,
     daddr |-> ExtAddr, sport |-> HihRec.port, dport |-> ExtPort, seq |-> s,
     ack |-> a, ackflag |-> TRUE, syn |-> FALSE, fin |-> FALSE,
     rst |-> FALSE, payload |-> p.payload, check |-> 0]

(* The expectation define_expected_data records from a LIH packet and   *)
(* the rewrite forward() applies to the HIH's answers agree on delta: a *)
(* HIH segment without SYN that test_expected accepts reaches EXT with  *)
(* exactly the seq and ack the LIH sent, so that EXT sees no jump in     *)
(* either number when the HIH takes over.  A sign slip in either of the *)
(* two seq shifts makes replay() refuse the right answer or accept a    *)
(* wrong one.                                                           *)
ExpectationMatchesForward ==
    [][expect /\ pkt.proto = "TCP" =>
        \A s \in SeqNums \cup {expected'.tcp_seq}, a \in SeqNums :
            test_expected(expected', HihReply(s, a, pkt)) =>
                /\ Received(Rewrite(HihReply(s, a, pkt))).seq = pkt.seq
                /\ Received(Rewrite(HihReply(s, a, pkt))).ack = pkt.ack]_vars

\* the four socket fields of a packet, and the packet answering it
Endpoints(q) == <<q.saddr, q.sport, q.daddr, q.dport>>
Answer(q) == [q EXCEPT !.saddr = q.daddr, !.sport = q.dport,
                       !.daddr = q.saddr, !.dport = q.sport]

(* The splice closes both ways: an EXT packet forward() sends to the HIH *)
(* is addressed so that the HIH's answer from that socket is found by   *)
(* conn_lookup in high_redirection_table as a HIH packet of the flow    *)
(* (setup_redirection's admission key and hih.port agree), and a HIH    *)
(* packet forward() sends reaches EXT from the LIH socket EXT opened,   *)
(* the reverse of the record's key.                                     *)
SpliceEndpoints ==
    out # NoPkt =>
        /\ pkt.origin = "EXT" => conn_lookup(Answer(Received(out))) = "HIH"
        /\ pkt.origin = "HIH" => Endpoints(Received(out)) = Key1(ExtSyn)
====
