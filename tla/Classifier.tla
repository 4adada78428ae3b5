----------------------------- MODULE Classifier -----------------------------
(***************************************************************************)
(* The Packet classifier: init_pkt (src/src/connections.c) turns a raw    *)
(* IPv4 frame taken from the queue into a struct pkt_struct, or drops it. *)
(*                                                                        *)
(* A frame is abstracted to the header fields init_pkt reads: the IP     *)
(* total length, header length and protocol, and for TCP the data offset *)
(* and ports, for UDP the length field.  Addresses, UDP ports and the   *)
(* payload bytes are not told apart by anything                         *)
(* init_pkt decides, and are left out.  init_pkt keeps no state of its  *)
(* own: it is an operator, applied by the module that receives packets.   *)
(***************************************************************************)
EXTENDS Integers

CONSTANTS
    BUFSIZE,     \* the largest frame init_pkt accepts
    DataBits,    \* width of pkt_struct.data (uint32_t, 32 in the code)
    LittleEndian,\* byte order of the build: ntohs swaps bytes when TRUE
    Sizes,       \* values of the IP tot_len field
    Ihls,        \* values of the 4-bit IP ihl field
    Doffs,       \* values of the 4-bit TCP doff field
    Ports,       \* port numbers, 0 included
    ULens        \* values of the UDP len field, in host order

DataSpace == 2 ^ DataBits

\* the protocol numbers init_pkt tells apart: TCP, UDP, and one other
Frames ==
    [proto : {6}, tot : Sizes, ihl : Ihls, doff : Doffs,
     sport : Ports, dport : Ports]
    \cup
    [proto : {17}, tot : Sizes, ihl : Ihls, ulen : ULens]
    \cup
    [proto : {1}, tot : Sizes, ihl : Ihls]

\* a 16-bit field read without ntohs: its bytes swapped on a little-endian build
Raw16(x) == IF LittleEndian THEN (x % 256) * 256 + x \div 256 ELSE x

\* an int result stored in the uint32_t pkt->data
ToData(x) == x % DataSpace

\* the header lengths in bytes
IpHdrLen(f)  == f.ihl * 4
TransportHdrLen(f) == IF f.proto = 6 THEN f.doff * 4 ELSE 8

\* the size check: at most BUFSIZE, at least 40 bytes
SizeOk(f) == f.tot <= BUFSIZE /\ f.tot >= 40

(* Mutant: the IP header length bound written as 7 words.               *)
IhlOk_7(f) == f.ihl >= 5 /\ f.ihl <= 7

\* the IP header length check: 5 to 8 words
IhlOk(f) == f.ihl >= 5 /\ f.ihl <= 8

\* the TCP checks: doff of at least 5 words (doff > 0xFF never holds
\* for a 4-bit field), and non-zero ports
TcpOk(f) == f.doff >= 5 /\ f.sport # 0 /\ f.dport # 0

(* pkt->data: tot_len - ihl*4 - doff*4 for TCP; udp->len - 8 for UDP,    *)
(* with len not passed through ntohs; the int result stored unsigned.   *)
Data(f) ==
    IF f.proto = 6 THEN ToData(f.tot - IpHdrLen(f) - TransportHdrLen(f))
    ELSE ToData(Raw16(f.ulen) - 8)

(* init_pkt: the checks in the order of the code, any other protocol     *)
(* dropped.  data is unsigned, so the final test data < 0 never drops a *)
(* frame.  A frame dropped after the FRAME copy was allocated (the size *)
(* check passed) is released with free(pkt), which leaves the copy.     *)
init_pkt(f) ==
    LET ok == /\ SizeOk(f)
              /\ IhlOk(f)
              /\ f.proto \in {6, 17}
              /\ f.proto = 6 => TcpOk(f)
    IN  [ok |-> ok, data |-> IF ok THEN Data(f) ELSE 0,
         leaked |-> SizeOk(f) /\ ~ok]

-----------------------------------------------------------------------------
(* The reference definitions of spec.md 4.1 and 8, independent of the    *)
(* code: the payload length a frame declares, and whether it is well     *)
(* formed (supported protocol, size within the buffer and at least 40   *)
(* bytes, header lengths in range, non-zero TCP ports, headers that fit *)
(* the declared length, a non-negative payload length).                 *)
PayloadLen(f) ==
    IF f.proto = 6 THEN f.tot - IpHdrLen(f) - TransportHdrLen(f)
    ELSE f.ulen - 8

WellFormed(f) ==
    /\ f.proto \in {6, 17}
    /\ 40 <= f.tot /\ f.tot <= BUFSIZE
    /\ 5 <= f.ihl /\ f.ihl <= 8
    /\ f.proto = 6 => (f.doff >= 5 /\ f.sport # 0 /\ f.dport # 0)
    /\ IpHdrLen(f) + TransportHdrLen(f) <= f.tot
    /\ PayloadLen(f) >= 0
=============================================================================
