------------------------------- MODULE Replay -------------------------------
(***************************************************************************)
(* The replay of one flow to a HIH: store_pkt (src/src/connections.c)     *)
(* buffers its packets, the tail of setup_redirection resets the LIH and  *)
(* forwards the leading EXT packets, and every HIH reply goes through     *)
(* replay() (src/netcode.c), which checks it against the expectation     *)
(* (test_expected) and forwards the next EXT packets.                     *)
(*                                                                        *)
(* A packet is abstracted to its origin and its DE flag (0: buffered      *)
(* before the decision, 1: after).  A HIH reply is abstracted to whether *)
(* its protocol, seq and ack agree with the recorded expectation.  The   *)
(* record lock is held by the packet's thread throughout, so each        *)
(* handler is one step.                                                   *)
(***************************************************************************)
EXTENDS Integers, SequencesExt, Classifier

CONSTANTS
    MaxBuffer,   \* max_packet_buffer
    MaxPkts,     \* packets handed to the flow in a behaviour
    NoExp,       \* expected_data as g_malloc0 left it: ip_proto 0
    NoFrame      \* no frame received yet

Origins == {"EXT", "LIH"}
Packet == [origin : Origins, de : 0..1]

VARIABLES
    buf,         \* conn->BUFFER
    state,       \* conn->state
    decided,     \* a decision to redirect has been taken
    replay_id,   \* conn->replay_id
    expected,    \* the buffer position expected_data was derived from
    fwd,         \* positions forward()ed to the HIH, in order
    lihReset,    \* reply_reset sent a RST to the LIH
    crashed,     \* a NULL pointer was dereferenced
    pkts,        \* packets handed to the flow so far
    frame        \* the last frame init_pkt was called on

vars == <<buf, state, decided, replay_id, expected, fwd, lihReset, crashed, pkts, frame>>

TypeOK ==
    /\ buf \in BoundedSeq(Packet, MaxBuffer)
    /\ state \in {"INIT", "REPLAY", "FORWARD"}
    /\ decided \in BOOLEAN
    /\ replay_id \in 0..MaxBuffer
    /\ expected \in 0..MaxBuffer - 1 \cup {NoExp}
    /\ fwd \in BoundedSeq(0..MaxBuffer - 1, MaxBuffer)
    /\ lihReset \in BOOLEAN
    /\ crashed \in BOOLEAN
    /\ pkts \in 0..MaxPkts
    /\ frame \in Frames \cup {NoFrame}

Init ==
    /\ buf = <<>>
    /\ state = "INIT"
    /\ decided = FALSE
    /\ replay_id = 0
    /\ expected = NoExp
    /\ fwd = <<>>
    /\ lihReset = FALSE
    /\ crashed = FALSE
    /\ pkts = 0
    /\ frame = NoFrame

-----------------------------------------------------------------------------
(* Every packet reaches the flow through init_pkt: a frame it accepts is *)
(* handed on by the action this conjunct is part of.                     *)
Classified == \E f \in Frames : init_pkt(f).ok /\ frame' = f

(* A frame init_pkt drops never reaches the flow.                         *)
drop_frame ==
    /\ pkts < MaxPkts
    /\ \E f \in Frames : ~init_pkt(f).ok /\ frame' = f
    /\ pkts' = pkts + 1
    /\ UNCHANGED <<buf, state, decided, replay_id, expected, fwd, lihReset, crashed>>

(* Mutant: the length check against max_packet_buffer dropped.           *)
store_pkt_unbounded(o) ==
    /\ state = "INIT"
    /\ buf = <<>> => o = "EXT"
    /\ pkts < MaxPkts
    /\ Classified
    /\ buf' = Append(buf, [origin |-> o, de |-> IF decided THEN 1 ELSE 0])
    /\ pkts' = pkts + 1
    /\ UNCHANGED <<state, decided, replay_id, expected, fwd, lihReset, crashed>>

(* store_pkt: a packet of an INIT flow is appended while the buffer is   *)
(* below max_packet_buffer, and rejected (NOK) otherwise.  Its DE flag   *)
(* says whether the decision was already taken.  The flows redirected   *)
(* are initiated by EXT: create_conn puts LIH-initiated ones in CONTROL.  *)
store_pkt(o) ==
    /\ state = "INIT"
    /\ buf = <<>> => o = "EXT"
    /\ pkts < MaxPkts
    /\ Classified
    /\ buf' = IF Len(buf) < MaxBuffer
              THEN Append(buf, [origin |-> o, de |-> IF decided THEN 1 ELSE 0])
              ELSE buf
    /\ pkts' = pkts + 1
    /\ UNCHANGED <<state, decided, replay_id, expected, fwd, lihReset, crashed>>

(* The decision engine accepts the flow; packets stored from now on have *)
(* DE = 1.  It decides on a packet the flow has already stored.          *)
decide ==
    /\ state = "INIT"
    /\ ~decided
    /\ buf # <<>>
    /\ decided' = TRUE
    /\ UNCHANGED <<buf, state, replay_id, expected, fwd, lihReset, crashed, pkts, frame>>

\* reset_lih: a RST answers the last LIH packet of the buffer, if any
reset_lih == \E i \in 1..Len(buf) : buf[i].origin = "LIH"

\* the positions from..to-1 of the buffer, in order
Positions(from, to) == [j \in 1..to - from |-> from + j - 1]

\* the first LIH packet at or after a position, or the buffer end
NextLih(from) ==
    LET lih == {i \in from..Len(buf) - 1 : buf[i + 1].origin = "LIH"}
    IN  IF lih = {} THEN Len(buf) ELSE Min(lih)

(* Mutant: the cursor not advanced past the expected LIH packet.         *)
setup_redirection_noadvance ==
    /\ state = "INIT"
    /\ decided
    /\ LET k == NextLih(replay_id) IN
       /\ fwd' = fwd \o Positions(replay_id, k)
       /\ IF k < Len(buf)
          THEN expected' = k /\ replay_id' = k
          ELSE expected' = expected /\ replay_id' = k
    /\ state' = "REPLAY"
    /\ lihReset' = reset_lih
    /\ UNCHANGED <<buf, decided, crashed, pkts, frame>>

(* setup_redirection, after the admission: the flow goes to REPLAY, the  *)
(* LIH is reset, the EXT packets from the cursor up to the first LIH    *)
(* packet are forwarded, and that LIH packet, if any, becomes the        *)
(* expectation and the cursor passes it.  No FORWARD transition here.    *)
setup_redirection ==
    /\ state = "INIT"
    /\ decided
    /\ LET k == NextLih(replay_id) IN
       /\ fwd' = fwd \o Positions(replay_id, k)
       /\ IF k < Len(buf)
          THEN expected' = k /\ replay_id' = k + 1
          ELSE expected' = expected /\ replay_id' = k
    /\ state' = "REPLAY"
    /\ lihReset' = reset_lih
    /\ UNCHANGED <<buf, decided, crashed, pkts, frame>>

-----------------------------------------------------------------------------
(* test_expected: a HIH packet passes when its protocol is the expected  *)
(* one and, for TCP, its seq (unless SYN) and ack agree.  A payload      *)
(* mismatch also passes.  Before any define_expected_data the expected   *)
(* protocol is 0, which no TCP or UDP packet carries.                     *)
test_expected(agrees) == expected # NoExp /\ agrees

(* Mutant: FORWARD one packet before the last.                         *)
RECURSIVE ReplayLoop_early(_, _, _)
ReplayLoop_early(i, de, f) ==
    LET cur == buf[i + 1]
        f2  == IF cur.origin = "EXT" THEN Append(f, i) ELSE f
    IN  IF cur.origin = "LIH" /\ de = 0
        THEN [id |-> i + 1, fwd |-> f, state |-> "REPLAY", exp |-> i]
        ELSE IF i + 2 >= Len(buf)
        THEN [id |-> i, fwd |-> f2, state |-> "FORWARD", exp |-> expected]
        ELSE ReplayLoop_early(i + 1, IF de = 0 THEN buf[i + 2].de ELSE de, f2)

(* The loop of replay() from position i with the DE latch de: an EXT     *)
(* packet is forwarded, a LIH packet with the latch set is skipped; at  *)
(* the last packet the flow goes FORWARD with the cursor left on it;     *)
(* a LIH packet with the latch clear becomes the expectation and the     *)
(* cursor passes it.                                                      *)
RECURSIVE ReplayLoop(_, _, _)
ReplayLoop(i, de, f) ==
    LET cur == buf[i + 1]
        f2  == IF cur.origin = "EXT" THEN Append(f, i) ELSE f
    IN  IF cur.origin = "LIH" /\ de = 0
        THEN [id |-> i + 1, fwd |-> f, state |-> "REPLAY", exp |-> i]
        ELSE IF i + 1 = Len(buf)
        THEN [id |-> i, fwd |-> f2, state |-> "FORWARD", exp |-> expected]
        ELSE ReplayLoop(i + 1, IF de = 0 THEN buf[i + 2].de ELSE de, f2)

(* replay() for a packet of a REPLAY flow.  A packet not from the HIH,   *)
(* or one test_expected rejects, returns NOK.  Otherwise the loop runs   *)
(* from the cursor; g_slist_nth_data is NULL when the cursor is at the   *)
(* buffer end, and current->DE then dereferences it.                     *)
replay ==
    /\ state = "REPLAY"
    /\ pkts < MaxPkts
    /\ Classified
    /\ \E fromHih, agrees \in BOOLEAN :
         IF fromHih /\ test_expected(agrees)
         THEN IF replay_id = Len(buf)
              THEN /\ crashed' = TRUE
                   /\ UNCHANGED <<state, replay_id, expected, fwd>>
              ELSE LET r == ReplayLoop(replay_id, buf[replay_id + 1].de, fwd)
                   IN  /\ replay_id' = r.id
                       /\ fwd' = r.fwd
                       /\ state' = r.state
                       /\ expected' = r.exp
                       /\ UNCHANGED crashed
         ELSE UNCHANGED <<state, replay_id, expected, fwd, crashed>>
    /\ pkts' = pkts + 1
    /\ UNCHANGED <<buf, decided, lihReset>>

\* nothing runs in a process that crashed
Next ==
    /\ ~crashed
    /\ \/ \E o \in Origins : store_pkt(o)
       \/ decide
       \/ setup_redirection
       \/ replay
       \/ drop_frame

Spec == Init /\ [][Next]_vars

-----------------------------------------------------------------------------
(* Every EXT packet buffered before the redirection reaches the HIH once *)
(* and in arrival order: what setup_redirection and the successive       *)
(* replay() loops forwarded is always a prefix of the buffer's EXT       *)
(* packets, and the whole of them once the flow is in FORWARD.           *)
Abstract == INSTANCE RedirectSpec WITH
    buf <- [i \in 1..Len(buf) |-> buf[i].origin],
    sent <- fwd

ReplayRefinesRedirect == Abstract!Spec

(* The HIH reply is checked against the answer of a LIH packet that the  *)
(* cursor has already passed (spec.md 4.4: the cursor is advanced past   *)
(* it), so a later replay() resumes after that packet instead of        *)
(* expecting the same answer again.                                       *)
ExpectedAnswerReplayed ==
    expected # NoExp =>
        /\ expected < replay_id
        /\ buf[expected + 1].origin = "LIH"

(* spec.md 4.4: a redirected flow whose buffer holds no packet to expect *)
(* an answer for advances to FORWARD at once; a flow stays in REPLAY    *)
(* only with an expectation defined (spec.md 2).                          *)
ReplayHasExpectation == state = "REPLAY" => expected # NoExp

(* spec.md 4.1 and 8: classification succeeds for every well-formed     *)
(* frame, whatever its protocol, header lengths and ports: init_pkt's   *)
(* chain of checks rejects none that the reference definition accepts.  *)
ValidFramesAccepted ==
    frame # NoFrame /\ WellFormed(frame) => init_pkt(frame).ok

(* spec.md 4.1 and 8: a frame init_pkt hands on to the flow is well      *)
(* formed, and pkt->data is its declared payload length: tot_len minus  *)
(* the IP and TCP header lengths, or the UDP length minus 8; a negative *)
(* payload length makes init_pkt drop the frame.                        *)
ClassifiedLengthExact ==
    frame # NoFrame /\ init_pkt(frame).ok =>
        WellFormed(frame) /\ init_pkt(frame).data = PayloadLen(frame)

(* replay() never reads a buffer position past the end of conn->BUFFER.  *)
NoReadPastBuffer == ~crashed
=============================================================================
