----------------------------- MODULE ConnTable -----------------------------
(***************************************************************************)
(* The connection table of honeybrid (src/src/connections.c) and the      *)
(* pending-redirection index, shared by packet worker threads and the     *)
(* clean() thread.                                                        *)
(*                                                                        *)
(* conn_tree, guarded by conntreelock, maps a flow key to a conn_struct.  *)
(* Every key of a modelled flow is its normalised "ext:lih" key, so a     *)
(* flow f is also its table key.  high_redirection_table, guarded by      *)
(* hihredirlock, holds the tuples "hih_ip:port:ext" committed by          *)
(* setup_redirection; its value always names the same flow f, so the      *)
(* index is the set of <<backend, f>> pairs present.                      *)
(*                                                                        *)
(* A worker handles one packet at a time: init_conn (conn_lookup, then    *)
(* update_conn or create_conn), which returns with the record's lock      *)
(* write-held; then the caller's processing, which may commit the flow    *)
(* to a backend, and unlocks.  The reaper is clean(): sleep, traverse     *)
(* the tree marking idle records (expire_conn), then free_conn every     *)
(* queued key.  Lock waits are guards: a step that would block is not     *)
(* enabled.  Time is a counter in whole seconds, like access_time.        *)
(***************************************************************************)
EXTENDS Naturals, Sequences, FiniteSets

CONSTANTS
    Workers,     \* packet worker threads
    Reaper,      \* the clean() thread
    Flows,       \* normalised flow keys "ext_ip:port:lih_ip:port"
    Backends,    \* hih_use values of configured backends (never 0)
    Kinds,       \* TCP packet kinds: "SYN", "ACK" (ack-only), "FIN"
    MaxPkts,     \* packets handed to the workers in a behaviour
    MaxTime,     \* last second of the behaviour
    Delay,       \* expiration_delay of clean()
    NoActor, NoBackend

ASSUME Reaper \notin Workers /\ NoBackend \notin Backends

Actors == Workers \cup {Reaper}
ConnIds == 1..MaxPkts        \* c_id values: at most one record per packet
NoConn == 0
Roles == {"EXT", "LIH", "HIH"}
States == {"INIT", "CONTROL", "REPLAY"}
\* conn_status_t order: INVALID < INIT < ... ; no created record is INVALID
StateBelowInit(s) == FALSE

VARIABLES
    now,          \* current second
    table,        \* conn_tree: flow key -> conn id
    rec,          \* conn_struct of every id ever allocated
    connLock,     \* holder of each record's writer lock
    treeLock,     \* conntreelock: [w |-> writer, r |-> readers]
    redirLock,    \* hihredirlock
    redir,        \* high_redirection_table, as the set of <<hih, f>> keys
    entrytoclean, \* the reaper's array: [live |-> allocated?, keys |-> seq]
    wk,           \* worker thread state
    rp,           \* reaper thread state
    sent          \* packets handed to workers so far

vars == <<now, table, rec, connLock, treeLock, redirLock, redir,
          entrytoclean, wk, rp, sent>>

Packets == [flow : Flows, src : {"EXT", "LIH"} \cup Backends, kind : Kinds]
NoPkt == [flow |-> CHOOSE f \in Flows : TRUE, src |-> "EXT", kind |-> "ACK"]

Rec == [status : {"unused", "live", "freed"}, key : Flows,
        initiator : Roles, state : States, access : 0..MaxTime,
        fin_in : BOOLEAN, fin_out : BOOLEAN, hih : Backends \cup {NoBackend},
        marked : BOOLEAN]
Unused == [status |-> "unused", key |-> CHOOSE f \in Flows : TRUE,
           initiator |-> "EXT", state |-> "INIT", access |-> 0,
           fin_in |-> FALSE, fin_out |-> FALSE, hih |-> NoBackend,
           marked |-> FALSE]

WorkerPcs == {"idle", "lookup", "redir_lookup", "fin", "expire",
              "expire_lock", "create", "insert", "update", "process", "setup"}

TypeOK ==
    /\ now \in 0..MaxTime
    /\ table \in [Flows -> ConnIds \cup {NoConn}]
    /\ rec \in [ConnIds -> Rec]
    /\ connLock \in [ConnIds -> Actors \cup {NoActor}]
    /\ treeLock \in [w : Actors \cup {NoActor}, r : SUBSET Actors]
    /\ redirLock \in [w : Actors \cup {NoActor}, r : SUBSET Actors]
    /\ redir \subseteq Backends \X Flows
    /\ entrytoclean \in [live : BOOLEAN, keys : Seq(Flows)]
    /\ wk \in [Workers -> [pc : WorkerPcs, pkt : Packets,
                           conn : ConnIds \cup {NoConn}, origin : Roles,
                           hih : Backends \cup {NoBackend}]]
    /\ rp \in [pc : {"sleep", "traverse_lock", "traverse", "free"},
               todo : SUBSET Flows, i : Nat, marked : SUBSET ConnIds,
               woke : BOOLEAN]
    /\ sent \in 0..MaxPkts

IdleWorker == [pc |-> "idle", pkt |-> NoPkt, conn |-> NoConn,
              origin |-> "EXT", hih |-> NoBackend]

Init ==
    /\ now = 0
    /\ table = [f \in Flows |-> NoConn]
    /\ rec = [c \in ConnIds |-> Unused]
    /\ connLock = [c \in ConnIds |-> NoActor]
    /\ treeLock = [w |-> NoActor, r |-> {}]
    /\ redirLock = [w |-> NoActor, r |-> {}]
    /\ redir = {}
    /\ entrytoclean = [live |-> FALSE, keys |-> <<>>]
    /\ wk = [w \in Workers |-> IdleWorker]
    /\ rp = [pc |-> "sleep", todo |-> {}, i |-> 1, marked |-> {}, woke |-> FALSE]
    /\ sent = 0

-----------------------------------------------------------------------------
(* Lock helpers.  GRWLock: a writer needs no holder at all, a reader only *)
(* needs no writer.                                                       *)
Free(l) == l.w = NoActor /\ l.r = {}
NoWriter(l) == l.w = NoActor

Goto(w, pc) == wk' = [wk EXCEPT ![w].pc = pc]
\* the worker is done with its packet
Done(w) == wk' = [wk EXCEPT ![w] = IdleWorker]
Pkt(w) == wk[w].pkt
Conn(w) == wk[w].conn
\* tcp_ack_only(): the ACK flag and none of FIN, PSH, RST, SYN, URG
AckOnly(p) == p.kind = "ACK"
\* curtime - conn->access_time > delay
Idle(c, d) == now - rec[c].access > d

-----------------------------------------------------------------------------
(* The environment hands a packet to an idle worker.  A backend only      *)
(* sends on a flow that was replayed to it, and never a SYN: its SYN-ACK  *)
(* answers the replayed SYN before either side's FIN, and a backend SYN   *)
(* reaching create_conn would open a backend-initiated flow, which is not *)
(* modelled.                                                              *)
Receive(w) ==
    /\ wk[w].pc = "idle"
    /\ sent < MaxPkts
    /\ \E p \in Packets :
          /\ p.src \in Backends => <<p.src, p.flow>> \in redir /\ p.kind # "SYN"
          /\ wk' = [wk EXCEPT ![w] = [pc |-> "lookup", pkt |-> p,
                       conn |-> NoConn, origin |-> "EXT", hih |-> NoBackend]]
    /\ sent' = sent + 1
    /\ UNCHANGED <<now, table, rec, connLock, treeLock, redirLock, redir,
                   entrytoclean, rp>>

(* Mutant: the key0/key1 lookup also taken for a packet from a backend.  *)
conn_lookup_hit_anysrc(w) ==
    /\ wk[w].pc = "lookup"
    /\ NoWriter(treeLock)
    /\ table[Pkt(w).flow] # NoConn
    /\ wk' = [wk EXCEPT ![w].pc = "fin", ![w].conn = table[Pkt(w).flow],
                        ![w].origin = Pkt(w).src]
    /\ UNCHANGED <<now, table, rec, connLock, treeLock, redirLock, redir,
                   entrytoclean, rp, sent>>

(* conn_lookup, key0 or key1 found under the reader lock: from EXT the    *)
(* key0 "src:dst" is the flow key; from the LIH key1 "dst:src" is, and    *)
(* the initiator being EXT or LIH makes the origin LIH.                    *)
conn_lookup_hit(w) ==
    /\ wk[w].pc = "lookup"
    /\ NoWriter(treeLock)
    /\ Pkt(w).src \in {"EXT", "LIH"}
    /\ table[Pkt(w).flow] # NoConn
    /\ wk' = [wk EXCEPT ![w].pc = "fin", ![w].conn = table[Pkt(w).flow],
                        ![w].origin = Pkt(w).src]
    /\ UNCHANGED <<now, table, rec, connLock, treeLock, redirLock, redir,
                   entrytoclean, rp, sent>>

(* conn_lookup, neither key in the tree: keep the reader lock and go on   *)
(* to the redirection table.                                              *)
conn_lookup_miss(w) ==
    /\ wk[w].pc = "lookup"
    /\ NoWriter(treeLock)
    /\ Pkt(w).src \in Backends \/ table[Pkt(w).flow] = NoConn
    /\ treeLock' = [treeLock EXCEPT !.r = @ \cup {w}]
    /\ Goto(w, "redir_lookup")
    /\ UNCHANGED <<now, table, rec, connLock, redirLock, redir,
                   entrytoclean, rp, sent>>

(* conn_lookup, redirection branch, still under the tree reader lock:     *)
(* read high_redirection_table under hihredirlock's reader lock; a hit    *)
(* resolves the LIH session key and looks it up (NOK if absent); a miss  *)
(* tries check_pre_dnat_routing, which finds nothing for flows that no    *)
(* backend initiated.  Then the tree reader lock is released.             *)
conn_lookup_redir(w) ==
    /\ wk[w].pc = "redir_lookup"
    /\ NoWriter(redirLock)
    /\ LET p == Pkt(w)
           hit == p.src \in Backends /\ <<p.src, p.flow>> \in redir
       IN  \/ /\ hit /\ table[p.flow] # NoConn
              /\ wk' = [wk EXCEPT ![w].pc = "fin", ![w].conn = table[p.flow],
                                  ![w].origin = "HIH"]
           \/ /\ hit /\ table[p.flow] = NoConn
              /\ Done(w)
           \/ /\ ~hit
              /\ Goto(w, "create")
    /\ treeLock' = [treeLock EXCEPT !.r = @ \ {w}]
    /\ UNCHANGED <<now, table, rec, connLock, redirLock, redir,
                   entrytoclean, rp, sent>>

(* conn_lookup after the unlock: both sides sent FIN and this packet is   *)
(* not ack-only, so the connection is expired inline.                     *)
conn_lookup_fin_expire(w) ==
    /\ wk[w].pc = "fin"
    /\ rec[Conn(w)].fin_in /\ rec[Conn(w)].fin_out
    /\ ~AckOnly(Pkt(w))
    /\ Goto(w, "expire")
    /\ UNCHANGED <<now, table, rec, connLock, treeLock, redirLock, redir,
                   entrytoclean, rp, sent>>

(* conn_lookup: otherwise a FIN sets tcp_fin_in (from EXT) or tcp_fin_out *)
(* (from the LIH or HIH), without the record's lock.                      *)
conn_lookup_fin_flags(w) ==
    /\ wk[w].pc = "fin"
    /\ ~(rec[Conn(w)].fin_in /\ rec[Conn(w)].fin_out /\ ~AckOnly(Pkt(w)))
    /\ \/ /\ Pkt(w).kind = "FIN"
          /\ IF wk[w].origin = "EXT"
                THEN rec' = [rec EXCEPT ![Conn(w)].fin_in = TRUE]
                ELSE rec' = [rec EXCEPT ![Conn(w)].fin_out = TRUE]
       \/ /\ Pkt(w).kind # "FIN"
          /\ UNCHANGED rec
    /\ Goto(w, "update")
    /\ UNCHANGED <<now, table, connLock, treeLock, redirLock, redir,
                   entrytoclean, rp, sent>>

(* conn_lookup takes the tree writer lock and calls expire_conn with a    *)
(* delay of 0: the key must still be in the tree and the (old) record     *)
(* idle for more than 0 seconds; otherwise nothing is marked.  Either way *)
(* conn_lookup returns no record, so init_conn calls create_conn.         *)
expire_conn_inline(w) ==
    /\ wk[w].pc = "expire"
    /\ Free(treeLock)
    /\ \/ /\ table[Pkt(w).flow] # NoConn
          /\ Idle(Conn(w), 0) \/ StateBelowInit(rec[Conn(w)].state)
          /\ treeLock' = [treeLock EXCEPT !.w = w]
          /\ Goto(w, "expire_lock")
       \/ /\ ~(table[Pkt(w).flow] # NoConn
               /\ (Idle(Conn(w), 0) \/ StateBelowInit(rec[Conn(w)].state)))
          /\ wk' = [wk EXCEPT ![w].pc = "create", ![w].conn = NoConn]
          /\ UNCHANGED treeLock
    /\ UNCHANGED <<now, table, rec, connLock, redirLock, redir,
                   entrytoclean, rp, sent>>

(* expire_conn, still under the tree writer lock: write-lock the record   *)
(* for good and g_ptr_array_add the key to entrytoclean, which is a no-op *)
(* while the reaper has no array (entrytoclean == NULL).                  *)
expire_conn_lock(w) ==
    /\ wk[w].pc = "expire_lock"
    /\ connLock[Conn(w)] = NoActor
    /\ connLock' = [connLock EXCEPT ![Conn(w)] = w]
    /\ rec' = [rec EXCEPT ![Conn(w)].marked = TRUE]
    /\ entrytoclean' = IF entrytoclean.live
                       THEN [entrytoclean EXCEPT !.keys = Append(@, Pkt(w).flow)]
                       ELSE entrytoclean
    /\ treeLock' = [treeLock EXCEPT !.w = NoActor]
    /\ wk' = [wk EXCEPT ![w].pc = "create", ![w].conn = NoConn]
    /\ UNCHANGED <<now, table, redirLock, redir, rp, sent>>

(* create_conn: a TCP packet without SYN is dropped.  A SYN from EXT      *)
(* matches the target's filter (origin EXT, state INIT); one from the    *)
(* LIH matches its front-end address (origin LIH, state CONTROL).  The   *)
(* new record is write-locked before it is filled in.                    *)
create_conn_nosyn(w) ==
    /\ wk[w].pc = "create"
    /\ Pkt(w).kind # "SYN"
    /\ Done(w)
    /\ UNCHANGED <<now, table, rec, connLock, treeLock, redirLock, redir,
                   entrytoclean, rp, sent>>

create_conn(w) ==
    /\ wk[w].pc = "create"
    /\ Pkt(w).kind = "SYN"
    /\ LET c == CHOOSE i \in ConnIds : rec[i].status = "unused"
                  /\ \A j \in ConnIds : rec[j].status = "unused" => i <= j
       IN /\ rec' = [rec EXCEPT ![c] =
                [Unused EXCEPT !.status = "live", !.key = Pkt(w).flow,
                   !.initiator = Pkt(w).src, !.access = now,
                   !.state = IF Pkt(w).src = "LIH" THEN "CONTROL" ELSE "INIT"]]
          /\ connLock' = [connLock EXCEPT ![c] = w]
          /\ wk' = [wk EXCEPT ![w].pc = "insert", ![w].conn = c,
                              ![w].origin = Pkt(w).src]
    /\ UNCHANGED <<now, table, treeLock, redirLock, redir, entrytoclean,
                   rp, sent>>

(* create_conn: g_tree_insert under the tree writer lock; an existing     *)
(* entry under the same key is replaced.                                  *)
create_conn_insert(w) ==
    /\ wk[w].pc = "insert"
    /\ Free(treeLock)
    /\ table' = [table EXCEPT ![Pkt(w).flow] = Conn(w)]
    /\ Goto(w, "process")
    /\ UNCHANGED <<now, rec, connLock, treeLock, redirLock, redir,
                   entrytoclean, rp, sent>>

(* update_conn: take the record's writer lock, refresh access_time.       *)
update_conn(w) ==
    /\ wk[w].pc = "update"
    /\ connLock[Conn(w)] = NoActor
    /\ connLock' = [connLock EXCEPT ![Conn(w)] = w]
    /\ rec' = [rec EXCEPT ![Conn(w)].access = now]
    /\ Goto(w, "process")
    /\ UNCHANGED <<now, table, treeLock, redirLock, redir, entrytoclean,
                   rp, sent>>

(* The caller's processing ends by unlocking the record.                  *)
release_conn(w) ==
    /\ wk[w].pc = "process"
    /\ connLock' = [connLock EXCEPT ![Conn(w)] = NoActor]
    /\ Done(w)
    /\ UNCHANGED <<now, table, rec, treeLock, redirLock, redir,
                   entrytoclean, rp, sent>>

(* A positive decision on a flow in INIT calls setup_redirection with a   *)
(* non-zero hih_use, at most once per packet.                             *)
decide(w) ==
    /\ wk[w].pc = "process"
    /\ rec[Conn(w)].state = "INIT"
    /\ wk[w].hih = NoBackend
    /\ \E b \in Backends : wk' = [wk EXCEPT ![w].pc = "setup", ![w].hih = b]
    /\ UNCHANGED <<now, table, rec, connLock, treeLock, redirLock, redir,
                   entrytoclean, rp, sent>>

(* setup_redirection admission: under hihredirlock's writer lock insert   *)
(* the tuple if absent, unlock, commit the backend and switch to REPLAY.  *)
setup_redirection(w) ==
    /\ wk[w].pc = "setup"
    /\ Free(redirLock)
    /\ <<wk[w].hih, rec[Conn(w)].key>> \notin redir
    /\ redir' = redir \cup {<<wk[w].hih, rec[Conn(w)].key>>}
    /\ rec' = [rec EXCEPT ![Conn(w)].hih = wk[w].hih,
                          ![Conn(w)].state = "REPLAY"]
    /\ Goto(w, "process")
    /\ UNCHANGED <<now, table, connLock, treeLock, redirLock, entrytoclean,
                   rp, sent>>

(* setup_redirection, tuple already present: return NOK, and the return   *)
(* skips g_rw_lock_writer_unlock(&hihredirlock).                          *)
setup_redirection_busy(w) ==
    /\ wk[w].pc = "setup"
    /\ Free(redirLock)
    /\ <<wk[w].hih, rec[Conn(w)].key>> \in redir
    /\ redirLock' = [redirLock EXCEPT !.w = w]
    /\ Goto(w, "process")
    /\ UNCHANGED <<now, table, rec, connLock, treeLock, redir, entrytoclean,
                   rp, sent>>

-----------------------------------------------------------------------------
(* clean(): wake from the timed wait and allocate entrytoclean.           *)
clean_wake ==
    /\ rp.pc = "sleep"
    /\ ~rp.woke
    /\ entrytoclean' = [live |-> TRUE, keys |-> <<>>]
    /\ rp' = [rp EXCEPT !.pc = "traverse_lock", !.woke = TRUE]
    /\ UNCHANGED <<now, table, rec, connLock, treeLock, redirLock, redir,
                   wk, sent>>

(* clean(): take the tree reader lock for g_tree_foreach.                 *)
clean_traverse ==
    /\ rp.pc = "traverse_lock"
    /\ NoWriter(treeLock)
    /\ treeLock' = [treeLock EXCEPT !.r = @ \cup {Reaper}]
    /\ rp' = [rp EXCEPT !.pc = "traverse",
                        !.todo = {f \in Flows : table[f] # NoConn}]
    /\ UNCHANGED <<now, table, rec, connLock, redirLock, redir,
                   entrytoclean, wk, sent>>

(* expire_conn on one entry: a record idle for more than Delay is        *)
(* write-locked for good (waiting for its holder) and its key queued.    *)
expire_conn(f) ==
    /\ rp.pc = "traverse"
    /\ f \in rp.todo
    /\ LET c == table[f] IN
       \/ /\ Idle(c, Delay) \/ StateBelowInit(rec[c].state)
          /\ connLock[c] = NoActor
          /\ connLock' = [connLock EXCEPT ![c] = Reaper]
          /\ rec' = [rec EXCEPT ![c].marked = TRUE]
          /\ entrytoclean' = [entrytoclean EXCEPT !.keys = Append(@, f)]
          /\ rp' = [rp EXCEPT !.todo = @ \ {f}, !.marked = @ \cup {c}]
       \/ /\ ~(Idle(c, Delay) \/ StateBelowInit(rec[c].state))
          /\ rp' = [rp EXCEPT !.todo = @ \ {f}]
          /\ UNCHANGED <<connLock, rec, entrytoclean>>
    /\ UNCHANGED <<now, table, treeLock, redirLock, redir, wk, sent>>

(* Mutant: g_rw_lock_reader_unlock after the traversal left out.         *)
clean_traverse_done_nounlock ==
    /\ rp.pc = "traverse"
    /\ rp.todo = {}
    /\ rp' = [rp EXCEPT !.pc = "free", !.i = 1]
    /\ UNCHANGED <<now, table, rec, connLock, treeLock, redirLock, redir,
                   entrytoclean, wk, sent>>

(* clean(): the traversal is over; release the reader lock.               *)
clean_traverse_done ==
    /\ rp.pc = "traverse"
    /\ rp.todo = {}
    /\ treeLock' = [treeLock EXCEPT !.r = @ \ {Reaper}]
    /\ rp' = [rp EXCEPT !.pc = "free", !.i = 1]
    /\ UNCHANGED <<now, table, rec, connLock, redirLock, redir,
                   entrytoclean, wk, sent>>


(* free_conn on the next queued key: under the tree writer lock look the *)
(* key up and steal whatever record it maps to now, then free it.        *)
free_conn ==
    /\ rp.pc = "free"
    /\ rp.i <= Len(entrytoclean.keys)
    /\ Free(treeLock)
    /\ LET k == entrytoclean.keys[rp.i]
           stolen == {table[k]} \ {NoConn}   \* g_tree_lookup may find nothing
       IN  /\ table' = [table EXCEPT ![k] = NoConn]
           /\ rec' = [c \in ConnIds |->
                        IF c \in stolen THEN [rec[c] EXCEPT !.status = "freed"]
                                        ELSE rec[c]]
           /\ connLock' = [c \in ConnIds |->
                             IF c \in stolen THEN NoActor ELSE connLock[c]]
    /\ rp' = [rp EXCEPT !.i = @ + 1]
    /\ UNCHANGED <<now, treeLock, redirLock, redir, entrytoclean, wk, sent>>

(* clean(): every queued key done; free the array and sleep again.        *)
clean_done ==
    /\ rp.pc = "free"
    /\ rp.i > Len(entrytoclean.keys)
    /\ entrytoclean' = [live |-> FALSE, keys |-> <<>>]
    /\ rp' = [rp EXCEPT !.pc = "sleep", !.marked = {}]
    /\ UNCHANGED <<now, table, rec, connLock, treeLock, redirLock, redir,
                   wk, sent>>

(* A second passes; the reaper's 60 s wait may end again.                 *)
Tick ==
    /\ now < MaxTime
    /\ now' = now + 1
    /\ rp' = [rp EXCEPT !.woke = FALSE]
    /\ UNCHANGED <<table, rec, connLock, treeLock, redirLock, redir,
                   entrytoclean, wk, sent>>

-----------------------------------------------------------------------------
WorkerStep(w) ==
    \/ conn_lookup_hit(w) \/ conn_lookup_miss(w) \/ conn_lookup_redir(w)
    \/ conn_lookup_fin_expire(w) \/ conn_lookup_fin_flags(w)
    \/ expire_conn_inline(w) \/ expire_conn_lock(w)
    \/ create_conn_nosyn(w) \/ create_conn(w) \/ create_conn_insert(w)
    \/ update_conn(w) \/ release_conn(w) \/ decide(w)
    \/ setup_redirection(w) \/ setup_redirection_busy(w)

ReaperStep ==
    \/ clean_wake \/ clean_traverse \/ clean_traverse_done
    \/ \E f \in Flows : expire_conn(f)
    \/ free_conn \/ clean_done

Next ==
    \/ \E w \in Workers : Receive(w) \/ WorkerStep(w)
    \/ ReaperStep
    \/ Tick

Spec == Init /\ [][Next]_vars

(* Worker threads and the reaper are scheduled by the OS: a thread that   *)
(* can run eventually runs; the clock keeps going.                       *)
Fairness ==
    /\ \A w \in Workers : WF_vars(WorkerStep(w))
    /\ WF_vars(ReaperStep)
    /\ WF_vars(Tick)

FairSpec == Spec /\ Fairness

-----------------------------------------------------------------------------
(* A worker never touches a record that clean() has freed: the pointer   *)
(* conn_lookup returns is used after conntreelock is released.           *)
NoUseAfterFree ==
    \A w \in Workers :
        wk[w].pc \in {"fin", "expire", "expire_lock", "update", "process", "setup"}
            => rec[Conn(w)].status # "freed"

(* Only a record that expire_conn marked (write-locked for good) is ever *)
(* freed.                                                                 *)
FreedOnlyIfExpired ==
    \A c \in ConnIds : rec[c].status = "freed" => rec[c].marked

(* Every packet a worker takes is eventually done with, and every sweep  *)
(* clean() starts eventually ends.                                        *)
ThreadsProgress ==
    /\ \A w \in Workers : wk[w].pc # "idle" ~> wk[w].pc = "idle"
    /\ rp.pc # "sleep" ~> rp.pc = "sleep"
=============================================================================
