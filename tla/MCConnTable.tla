---------------------------- MODULE MCConnTable ----------------------------
(* Model-checking instance of ConnTable: one flow key, two workers or    *)
(* one, one backend or none, with or without FIN packets.  The cfgs set  *)
(* the clock to two seconds (MaxTime = 1) and the expiration delay to   *)
(* Delay = 0, so that a record is idle once the clock ticks past its    *)
(* last packet.                                                          *)
EXTENDS ConnTable, TLC

CONSTANTS w1, w2, reaper, f1, b1

MCWorkers == {w1, w2}
MCOneWorker == {w1}
MCFlows == {f1}
MCBackends == {b1}
MCNoBackends == {}
MCKindsAll == {"SYN", "ACK", "FIN"}
MCKindsNoFin == {"SYN", "ACK"}

\* Workers are interchangeable threads; used for safety runs only.
MCSymmetry == Permutations(MCWorkers)
=============================================================================
