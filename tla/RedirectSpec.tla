---------------------------- MODULE RedirectSpec ----------------------------
(***************************************************************************)
(* What the Redirection Orchestrator promises of one flow (spec.md 4.3,   *)
(* 4.4): packets are buffered only before redirection, in arrival order;  *)
(* once redirected, the buffered EXT packets go to the HIH in that order, *)
(* each once, none skipped, in as many batches as the HIH replies allow;  *)
(* FORWARD is reached only after every buffered EXT packet was sent.      *)
(***************************************************************************)
EXTENDS Integers, SequencesExt

CONSTANTS MaxBuffer

Origins == {"EXT", "LIH"}

VARIABLES
    state,   \* INIT, REPLAY or FORWARD
    buf,     \* the origins of the buffered packets, in arrival order
    sent     \* the buffer positions (0-based) sent to the HIH, in order

vars == <<state, buf, sent>>

\* the positions of the EXT packets of a buffer, in arrival order
ExtPositions(b) == SetToSortSeq({i \in 0..Len(b) - 1 : b[i + 1] = "EXT"}, <)

Init ==
    /\ state = "INIT"
    /\ buf = <<>>
    /\ sent = <<>>

Store ==
    /\ state = "INIT"
    /\ Len(buf) < MaxBuffer
    /\ \E o \in Origins : buf' = Append(buf, o)
    /\ UNCHANGED <<state, sent>>

\* the next EXT packets not yet sent, possibly none, are sent in order
SendMore ==
    \E n \in Len(sent)..Len(ExtPositions(buf)) :
        sent' = SubSeq(ExtPositions(buf), 1, n)

Redirect ==
    /\ state = "INIT"
    /\ state' = "REPLAY"
    /\ SendMore
    /\ UNCHANGED buf

Replay ==
    /\ state = "REPLAY"
    /\ SendMore
    /\ state' \in {"REPLAY", "FORWARD"}
    /\ state' = "FORWARD" => sent' = ExtPositions(buf)
    /\ UNCHANGED buf

Next == Store \/ Redirect \/ Replay

Spec == Init /\ [][Next]_vars
=============================================================================
