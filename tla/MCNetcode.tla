----------------------------- MODULE MCNetcode -----------------------------
(* Model-checking instance of Netcode: 8-bit words, so that seq numbers  *)
(* and addresses are 16 bits; numbers at both ends of the seq space;    *)
(* payloads for which the first fold of in_cksum carries.  Frames       *)
(* without IP options, or with one option word besides.                 *)
EXTENDS Netcode

MCW == 8
MCSeqNums == {0, 1000, 65535}
MCDeltas == {0, 1, 65535}
MCPayloads == {<<>>, <<106>>, <<255, 255, 255, 80>>}
MCNoOptions == {5}
MCIhls == {5, 6}
====
