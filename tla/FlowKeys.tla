------------------------------ MODULE FlowKeys ------------------------------
(***************************************************************************)
(* The flow keys of src/src/connections.c and how conn_lookup resolves a  *)
(* packet to the record of a redirected flow and to its origin.           *)
(*                                                                        *)
(* init_pkt formats key_src and key_dst as "ip:port" (inet_ntoa, ntohs);  *)
(* conn_lookup joins them into key0 "src:dst" and key1 "dst:src".  The    *)
(* formatting is injective and the code only compares keys or splits     *)
(* them at ':', so a key is kept as the sequence of its ':'-separated    *)
(* fields: g_strsplit(key, ":", 0)[i] is key[i + 1].                     *)
(*                                                                        *)
(* The tables are those of one flow that EXT opened to the LIH and that *)
(* setup_redirection committed to the HIH: conn_tree holds its record   *)
(* under the key create_conn gave it, and high_redirection_table the    *)
(* entry setup_redirection inserted for it.  No operator here changes   *)
(* state; the module that receives packets applies them.                *)
(***************************************************************************)
EXTENDS Sequences, TLC

CONSTANTS
    ExtAddr, LihAddr, HihAddr,   \* IPv4 addresses
    ExtPort, LihPort             \* the ports of EXT's connection to the LIH

\* pkt->key_src and pkt->key_dst: "%s:%d" of the address and the port
KeySrc(p) == <<p.saddr, p.sport>>
KeyDst(p) == <<p.daddr, p.dport>>

\* conn_lookup: key0 is "key_src:key_dst", key1 "key_dst:key_src"
Key0(p) == KeySrc(p) \o KeyDst(p)
Key1(p) == KeyDst(p) \o KeySrc(p)

(* create_conn for the SYN EXT sent to the LIH: the target's filter     *)
(* matches, pkt->key is key0, key_ext its key_src and key_lih its       *)
(* key_dst, and the initiator is EXT.                                    *)
ExtSyn == [saddr |-> ExtAddr, sport |-> ExtPort, daddr |-> LihAddr,
           dport |-> LihPort]
Conn == [key |-> Key0(ExtSyn), key_ext |-> KeySrc(ExtSyn),
         key_lih |-> KeyDst(ExtSyn), initiator |-> "EXT"]

\* conn_tree: the record under its key, mapped to its initiator
ConnTree == Conn.key :> Conn.initiator

\* addr2int: g_strsplit at '.' and atoi of the four parts; atoi of the
\* last part stops at ':', so the address of an "ip:port" key is read
addr2int(key) == key[1]

(* setup_redirection: tmp = g_strsplit(conn->key, ":"); the admission   *)
(* key is "hih_ip:tmp[3]:key_ext" and its value "key_lih:uplink_mark".   *)
(* The mark is left out: no module uses pkt->mark.                       *)
RedirKey == <<HihAddr, Conn.key[4]>> \o Conn.key_ext
RedirValue == Conn.key_lih
RedirTable == RedirKey :> RedirValue

(* Mutant: hih.port taken from tmp[1], EXT's port.                      *)
HihRec_extport ==
    [addr |-> HihAddr, lih_addr |-> addr2int(Conn.key_lih), port |-> Conn.key[2]]

(* setup_redirection: conn->hih.addr is the backend's address, lih_addr *)
(* addr2int(key_lih), and port atoi(tmp[3]), the LIH's port.            *)
HihRec ==
    [addr |-> HihAddr, lih_addr |-> addr2int(Conn.key_lih), port |-> Conn.key[4]]

(* conn_lookup: key0 in conn_tree means the packet is from EXT; key1    *)
(* means it goes to the initiator, so it is from the LIH unless a HIH    *)
(* initiated the record; otherwise key0 is looked up in                  *)
(* high_redirection_table, and a hit names the record by key_dst and the *)
(* first two fields of the value, with origin HIH.  "NONE": no record of *)
(* the flow is found (a redirection hit whose record is gone returns    *)
(* NOK, and check_pre_dnat_routing matches only HIH-initiated records). *)
conn_lookup(p) ==
    IF Key0(p) \in DOMAIN ConnTree THEN "EXT"
    ELSE IF Key1(p) \in DOMAIN ConnTree
    THEN IF ConnTree[Key1(p)] \in {"EXT", "LIH"} THEN "LIH" ELSE "HIH"
    ELSE IF Key0(p) \in DOMAIN RedirTable
         /\ KeyDst(p) \o SubSeq(RedirTable[Key0(p)], 1, 2) \in DOMAIN ConnTree
    THEN "HIH"
    ELSE "NONE"
=============================================================================
