# TLA+ models of honeybrid

honeybrid sits inline between external hosts (EXT) and honeypots. Every
packet is either from an EXT host, a low-interaction honeypot (LIH) or a
high-interaction honeypot (HIH, a "backend"). It tracks each flow in a shared
table. When a decision module escalates a flow, it replays the flow's buffered
packets to a HIH and from then on forwards the flow there, rewriting headers.
This directory holds TLA+ models of that code, the TLC configurations that
check them, and `PROJECT.json`, which maps every model definition to the
source lines it translates.

## The system's parts

| Part | Source | State | Operations |
|---|---|---|---|
| Packet classifier | `src/src/connections.c` `init_pkt`, `free_pkt`, `init_mark`, `addr2int` | none (builds a `pkt_struct`) | parse IP/TCP/UDP headers, compute the flow keys and the payload length |
| Flow table | `connections.c` `conn_lookup`, `create_conn`, `update_conn`, `init_conn` | `conn_tree` (GTree key → `conn_struct`), `conntreelock`, one writer lock per record, `c_id` | look up both key directions and the redirection table, expire a FIN-closed flow inline, create, refresh |
| Reaper | `connections.c` `clean`, `expire_conn`, `free_conn` | `entrytoclean` (array of keys, NULL between sweeps) | every 60 s: mark idle records (write-lock them for good), then steal and free each queued key |
| Redirection orchestrator | `connections.c` `setup_redirection`; `netcode.c` `reset_lih` | `high_redirection_table` (hih:port:ext → lih key), `hihredirlock` | admission of the (backend, port, ext) tuple, commit, switch to REPLAY, reset the LIH, replay the buffer |
| State machine and replay buffer | `connections.c` `store_pkt`, `switch_state`; `netcode.c` `replay`, `define_expected_data`, `test_expected` | `state`, `BUFFER`, `replay_id`, `expected_data` per record | buffer, replay, validate HIH answers, switch to FORWARD |
| Forwarder and checksums | `netcode.c` `forward`, `reply_reset`, `send_raw`, `in_cksum`, `ip_checksum`, `udp_checksum`, `tcp_checksum` | per-record sequence delta | rewrite addresses and sequence numbers, recompute checksums, send |
| Decision modules | `src/src/mod_random.c`, `src/src/mod_source_time.c`, `src/yesno_mod.c`, `src/modules.c` | per-source first-seen times (mod_source_time) | accept or reject a flow |
| Logging, raw sockets | `print_*`, `create_raw_sockets`, `sendto` | none | formatting and I/O |

How they interact: a worker thread gets a packet from the netfilter queue
callback, which is not in `src/`. It classifies the packet and calls
`init_conn`, which returns with the record write-locked. It then buffers the
packet, consults the decision modules and may call `setup_redirection`, and
finally unlocks the record. The reaper thread `clean()` runs concurrently
with the workers. It shares `conn_tree` with them, and with them it takes the
record locks.

Hard behaviours in this code:
- Workers and the reaper interleave on three kinds of lock.
- A record pointer is used after the tree lock is released.
- A lookup miss and the insert that follows it are not atomic.
- The reaper marks records in one phase and frees them by key in a second phase.
- A FIN-closed flow is expired inline while the reaper sleeps.
- An early return skips an unlock.
- `high_redirection_table` only grows.
- 32-bit sequence arithmetic in the forwarder.
- Ones'-complement checksums.

## Modules

### `ConnTable.tla`: the flow table, the reaper and the redirection admission

Constants:
- `Workers` and `Reaper`: the threads.
- `Flows`: normalised flow keys "ext:lih". A packet's flow is its table key.
- `Backends`: `hih_use` ids.
- `Kinds`: the TCP packet kinds SYN, ACK (ack-only) and FIN.
- `MaxPkts`: packets per behaviour. It also bounds the record ids, because a record is allocated per packet at most.
- `MaxTime`: the last second.
- `Delay`: `expiration_delay`.

State:
- `table`: `conn_tree`.
- `rec`: every `conn_struct` ever allocated, with status unused, live or freed.
- `connLock`: the holder of each record's lock.
- `treeLock` and `redirLock`: the two GRWLocks, as a writer and a set of readers.
- `redir`: `high_redirection_table`, as a set of (backend, flow) pairs.
- `entrytoclean`: whether the array exists, and its keys.
- `wk`: each worker's pc, packet, record, origin and chosen backend.
- `rp`: the reaper's phase, the keys left to traverse, and the index into the array.
- `now`: the clock.

A step that would block on a lock is a disabled action.

Worker actions, in the order of the code:
- `Receive`
- `conn_lookup_hit` and `conn_lookup_miss`: key0 or key1 under the tree reader lock.
- `conn_lookup_redir`: the redirection-table branch, ending with the unlock at line 529.
- `conn_lookup_fin_expire` and `conn_lookup_fin_flags`: lines 531-575, after the unlock.
- `expire_conn_inline` and `expire_conn_lock`: the inline expiry. The tree writer lock is taken first, then `expire_conn`.
- `create_conn_nosyn`: the early return for a TCP packet without SYN.
- `create_conn`: allocation, with the record write-locked.
- `create_conn_insert`: `g_tree_insert`, which replaces any existing entry.
- `update_conn`: waits for the record lock and refreshes `access_time`.
- `decide`
- `setup_redirection`: the admission, commit and switch to REPLAY.
- `setup_redirection_busy`: the NOK return that keeps `hihredirlock`.
- `release_conn`: the caller's unlock.

Reaper actions:
- `clean_wake`: allocates `entrytoclean`.
- `clean_traverse`: takes the tree reader lock and snapshots the keys.
- `expire_conn(f)`: one `g_tree_foreach` callback.
- `clean_traverse_done`
- `free_conn`: one `g_ptr_array_foreach` callback. It may find the key gone.
- `clean_done`
- `Tick`: advances the clock and lets the 60 s wait end again.

Three actions are modelled from the caller's contract because their code is
not in `src/`: `Receive`, `decide` and `release_conn`.

Packets from a flow that matches no target's filter are left out, and so are
backend-initiated flows (`check_pre_dnat_routing`, `create_conn` with origin
HIH). A backend sends only on a flow committed to it, and never a SYN.

`MCConnTable.tla` gives the constants model values. Workers are symmetric in
the safety runs. Symmetry is not used with liveness.

### `DecisionModules.tla`: mod_source_time and mod_random

Constants:
- `Sources`: source IPs.
- `SourceConfigs`: node configurations. Each says whether `backup` and `backup_file` are present, and gives `expiration`, `deny_after` and `allow_after`.
- `RandomValues`: the `value` parameter of `mod_random`, or absent.
- `RandMax`: `RAND_MAX`, scaled down so that `RAND_MAX + 1` = 8 stands for 2^31 and values up to 15 stand for a uint32.
- `MaxTime` and `MaxVisits`: bounds.

State:
- `cfg` and `rvalue`: the two node configurations, fixed at Init.
- `db`: the persisted "counter; first seen; duration" list per source.
- `now`: the clock.
- `result`: the last result.
- `late`: how many consecutive calls judged a source whose first sighting was already older than `expiration`.

Actions:
- `mod_source_time_defer`: the three DEFER returns.
- `mod_source_time`: new, expired or known source. The record is written back and saved.
- `mod_random_call`: `rand()` is any outcome. A missing `value` may crash in `printdbg`, after which nothing runs.
- `Tick`

`mod_random(value, k)` is an operator. `RandomOneInValue` compares it with the reference "one outcome in value". `MCDecisionModules.tla` enumerates five configurations: two usable ones, a misconfigured one, and two without `backup` or `backup_file`. It also enumerates every value from 0 to 15, plus an absent value.

### `Classifier.tla`: `init_pkt`

`init_pkt` keeps no state, so `Classifier` is a set of operators over a
frame, and `Replay` applies them to every packet handed to its flow. A
frame is a record of the header fields `init_pkt` reads: `tot_len`, `ihl`,
the protocol (6, 17 or one other), and for TCP `doff` and the two ports, for
UDP the `len` field. Addresses, UDP ports and payload bytes decide nothing in
`init_pkt` and are left out. The operators follow the checks in their order:
`SizeOk` (lines 90-94), `IhlOk` (108-112), `TcpOk` (119-128; the test
`doff > 0xFF` cannot hold for a 4-bit field) and `Data` (153-177), where the
UDP length is read without `ntohs` (`Raw16` swaps its bytes on a
little-endian build, the constant `LittleEndian`) and the int result is
stored in the `uint32_t` `data` (`ToData`). Because `data` is unsigned, the
final `data < 0` test never drops anything, and `init_pkt` leaves it out.
`init_pkt(f)` returns whether the frame is accepted, its `data`, and whether
the `FRAME` copy leaks: it does when a frame fails a check after the size
check, since `done:` calls `free(pkt)` and not `free_pkt`.

`PayloadLen` and `WellFormed` are the reference: spec 4.1 and 8 written
independently of the code. A frame is well formed when it is TCP or UDP, has
40 to `BUFSIZE` bytes, 5 to 8 words of IP header, for TCP a `doff` of at least
5 and non-zero ports, headers that fit its total length, and a non-negative
payload length.

### `Replay.tla` and `RedirectSpec.tla`: the replay of a redirected flow

`Replay` models one EXT-initiated flow under its record lock. Each handler is
one step, because the packet's thread holds the record lock for the whole
handler. Constants are `MaxBuffer` (`max_packet_buffer`), `MaxPkts` (packets
handed to the flow) and `NoExp` (the zeroed `expected_data`, whose protocol 0
no packet matches).

State:
- `buf`: `conn->BUFFER`, each packet as its origin and its DE flag.
- `state`: INIT, REPLAY or FORWARD.
- `decided`: whether the decision was taken. Packets stored after it get DE = 1.
- `replay_id`: the cursor.
- `expected`: the buffer position `define_expected_data` last read.
- `fwd`: the positions `forward()`ed to the HIH, in order.
- `lihReset`: whether `reset_lih` found a LIH packet to answer with a RST.
- `crashed`: a NULL dereference happened. Nothing runs after it.
- `pkts`: the packet count.
- `frame`: the last frame `init_pkt` was called on.

Actions:
- `drop_frame`: a frame `init_pkt` rejects, and which never reaches the flow.
- `store_pkt(o)`: append or reject at the bound. Like `replay`, it takes a frame that `init_pkt` accepts (`Classified`); the caller that runs `init_pkt` before the flow handling is not in `src/`, so that order comes from spec 4.1 and 5.
- `decide`: the decision engine, modelled from its contract.
- `setup_redirection`: lines 1040-1075. It switches to REPLAY, resets the LIH, and forwards the EXT packets up to the first LIH packet. That LIH packet becomes the expectation.
- `replay`: `replay()` with `test_expected`. A HIH reply is abstracted to whether its protocol, seq and ack agree with the expectation. The loop is the RECURSIVE operator `ReplayLoop`, with the DE latch.

`RedirectSpec` is the abstract flow: INIT → REPLAY → FORWARD. The buffered EXT
packets go to the HIH in arrival order, each once, in batches. FORWARD comes
only after all of them. `Replay` instantiates it with the mapping
`buf <- origins of buf` and `sent <- fwd`. `ReplayRefinesRedirect` checks the
refinement as a PROPERTY.

### `Netcode.tla`: `forward()` and the checksums

A packet as the Classifier hands it over is a record that includes its IP
header length `ihl` (the constant `Ihls`, a subset of the 5..8 that
`init_pkt` accepts). `Frame` lays it out as the list of 16-bit words that
`forward()` copies: the IP header (10), the option words (2 per ihl above 5),
the TCP (10) or UDP (4) header, and the payload. `out` is the frame put on
the wire. `Rewrite` writes into the copy where `struct tcp_packet` and
`struct udp_packet` put the fields, right after a 20-byte `struct iphdr`
(`TcpCheckAt`, `UdpCheckAt`), whatever the ihl, as the casts in the code
do. The seq and ack it adds delta to are read through `pkt->packet.tcp`,
which `init_pkt` set at `ihl*4`; the ACK bit it tests is read in the copy.
The repository has one `structs.h`, `src/src/structs.h`. Parts of it are
newer than the code that uses it: it declares a `GMutex` lock and leaves out
some of the record fields that `connections.c` uses. The map cites only its
`struct tcp_packet` and `struct udp_packet`. Their layout, a `struct iphdr`
followed by the transport header, is what the casts in `forward()` rely on.
The properties read the frame the way its receiver does (`Received`,
`Segment`): the transport header after `ihl*4` bytes. Word counts and order
are kept. The word width is a constant `W`, set to 8 in `MCNetcode.tla`, so
that 32-bit sequence numbers become 16-bit ones TLC can add without
overflow. `in_cksum` keeps the code's two folds. `tcp_checksum` zeroes the
check, takes `len_tcp = tot_len - ihl*4` and sums the pseudo header of the
rewritten addresses and `len_tcp` bytes from byte 20 of the frame. `udp_checksum` sums the first 4 words
of the IP header, as the code does. `Rewrite` is `forward()`'s header rewrite.

`reset` is `reset_lih`'s call of `reply_reset` with the flow's last LIH
packet. `reply_reset` builds a 40-byte RST+ACK from scratch: addresses and
ports swapped, seq set to the packet's `ack_seq`, ack to its seq + SYN + FIN +
payload length, and the flag bits as `FlagsWord`. It ends with
`tcp_checksum`. For a UDP packet it returns NOK and sends nothing. LIH
packets always carry ACK, because the redirected flows are EXT-initiated.

`expect` is the other use of a LIH packet: `replay()` (and the tail of
`setup_redirection`) calls `define_expected_data` on the next LIH packet of
the buffer. The variable `expected` is `conn->expected_data`, zero at first
(`g_malloc0`). It holds the protocol, the seq moved into the HIH's space
(`seq + ~delta + 1`) and the ack. For UDP only the protocol is written, and
the TCP fields keep their old values. `test_expected` is the operator that
compares a HIH segment with it. It skips the seq comparison for SYN, and
returns OK in both payload branches, so the payload pointer is left out.

`OnesSum` is an independent RFC 1071 reference: the words are added one at a
time with end-around carry. A segment verifies when that sum is all ones.

`ip_checksum` sums the header without zeroing its check field, so its value is
wrong. The sockets are `IP_HDRINCL`, though, and the Linux kernel always
fills in the IP checksum for them, so the model leaves the IP checksum to the
kernel.

`hih.delta` is never assigned in `src/`, so it keeps the 0 of `g_malloc0`.
The model takes delta from {0, 1, 2^16-1} (the scaled 2^32-1). That checks
the rewrite arithmetic for the delta spec 4.5 requires. The divergence itself
is listed under Findings.

### `FlowKeys.tla`: the flow keys and `conn_lookup`

A pure-operator module, which `Netcode` EXTENDS. `key_src` and `key_dst`
are formatted as "ip:port" by `init_pkt`. The code only compares keys or
splits them at ':', so a key is kept as the sequence of its fields, and
`g_strsplit(key, ":")[i]` is `key[i+1]`. Like the code, the keys carry no
protocol. The tables belong to one flow that EXT opened to the LIH and that
was committed to the HIH:
- `ConnTree` is the record `create_conn` inserted under key0 of EXT's SYN.
- `RedirTable` is the entry `setup_redirection` inserted. Its key is
  `hih_ip:tmp[3]:key_ext` and its value is `key_lih`. The mark is left out.
- `HihRec` holds the `hih` fields. `port` is `atoi(tmp[3])`, the LIH's port,
  and `lih_addr` is `addr2int(key_lih)`.

`conn_lookup` returns the origin the code assigns: EXT on a key0 hit, LIH on
a key1 hit of an EXT-initiated record, and HIH on a redirection-table hit
whose rebuilt key names the record. Otherwise it returns NONE.

In `Netcode` every input packet names its sender, and `Resolved` replaces
that with the origin `conn_lookup` finds. The HIH answers from `hih.port` or
from another port (`HihPort`), and the action `no_flow` handles a packet
that resolves to no record. `Rewrite` takes the addresses and the port from
`HihRec`, as `forward()` takes them from `conn->hih`. Before this module,
`hih.port` was a free constant. The code always makes it the LIH's port.

## Runs

| Run | cfg | Expect | What it shows |
|---|---|---|---|
| conn_safety | `ConnTable.cfg` | pass | 2 workers, 1 flow, 1 backend, 4 packets, 2 seconds: `TypeOK` over every interleaving of the workers, the reaper and the clock. This run fires the actions the violation runs stop short of. About 5.1 M distinct states, under 3 minutes. |
| conn_uaf | `ConnTableUaf.cfg` | violation | `NoUseAfterFree`: a worker reaches `update_conn` with a record clean() freed after conn_lookup unlocked the tree. |
| conn_freed_unexpired | `ConnTableFreed.cfg` | violation | `FreedOnlyIfExpired`: two SYNs of one flow create two records. The sweep marks the first and then frees the second, which the other worker holds. |
| wedge_fin | `ConnTableWedgeFin.cfg` | violation | `ThreadsProgress`: a retransmitted FIN expires the flow inline while `entrytoclean` is NULL. The record is locked for good and never queued, so the next sweep blocks on it while holding the tree lock. |
| wedge_redir | `ConnTableWedgeRedir.cfg` | violation | `ThreadsProgress`: a freed flow's tuple stays in `high_redirection_table` (nothing removes it). The next flow on the same 4-tuple takes the busy return of `setup_redirection`, which leaks `hihredirlock`. |
| decision_safety | `DecisionModules.cfg` | pass | 2 sources, 6 seconds, 5 calls: `TypeOK`; `ExpiryLagsOneVisit` (a source whose first sighting is too old is judged on its stale record at most once, because the expiry test reads the duration stored at the previous call); `RandomOneInValue` (every value from 2 accepts one `rand()` outcome in value, within one outcome). About 370 k states. |
| replay_safety | `Replay.cfg` | pass | Buffer 4, 6 packets: `TypeOK`; `ExpectedAnswerReplayed` (the expectation is a LIH packet the cursor has passed); `ValidFramesAccepted` (every frame the reference calls well formed passes `init_pkt`'s checks); `ReplayRefinesRedirect` (every buffered EXT packet goes to the HIH once, in order, and FORWARD only after all). About 66 k states, under a minute. |
| replay_classify | `ReplayClassify.cfg` | violation | `ClassifiedLengthExact`: a 40-byte TCP frame with `doff` 15 passes `init_pkt`, with a payload length of -40 wrapped into the unsigned `data`, and is stored in the flow's buffer. |
| replay_null_read | `ReplayNullRead.cfg` | violation | `NoReadPastBuffer`: EXT SYN, LIH SYN-ACK, decision, setup, and then a matching HIH SYN-ACK make `replay()` dereference the NULL element past the buffer end. |
| replay_no_forward | `ReplayNoForward.cfg` | violation | `ReplayHasExpectation`: a buffer of EXT packets only leaves the flow in REPLAY with no expectation. Every HIH reply is rejected, and FORWARD never comes. |
| netcode_safety | `Netcode.cfg` | pass | Every input packet without IP options (ihl 5; both origins, TCP and UDP, seq and ack at 0, mid-range and 2^16-1, three deltas, payloads that make the first fold carry): `TcpChecksumValid`; `SeqSpaceRoundTrip` (undoing the delta shift modulo 2^32 gives the original number); `RstAcceptedByLih` (the RST `reply_reset` builds from a LIH packet reaches the LIH's socket from EXT's, carries the LIH's next expected seq, and verifies); the action property `ExpectationMatchesForward`: after `define_expected_data` on a TCP LIH packet, every non-SYN HIH segment that `test_expected` accepts, at any seq and ack of the bounds or at the expected seq, reaches EXT through `forward()` with exactly the LIH's seq and ack. The invariant `SpliceEndpoints`: the HIH's answer to an EXT packet that `forward()` sent is found by `conn_lookup` as a HIH packet of the flow, and a HIH packet `forward()` sends reaches EXT from the LIH's socket, the reverse of the record's key. 75492 states, 37 s. |
| forward_checksum | `NetcodeChecksum.cfg` | violation | `ForwardedChecksumsValid`, over the same inputs with ihl 5 or 6: a forwarded TCP segment of a frame with one IP option word fails the receiver's check, because `forward()` and `tcp_checksum` rewrite and sum it at the offsets of a 20-byte IP header; and every forwarded UDP datagram fails it, because `udp_checksum` sums the start of the IP header. TLC reports whichever it meets first; with `Ihls <- MCNoOptions` only the UDP failure is left. With ihl 6, `SeqSpaceRoundTrip` fails too: the receiver does not see the seq and ack spec 4.5 gives. |

Every property of a passing run has a mutant in `PROJECT.json`: a
plausible bug in the mapped action that TLC must catch.
- Taking the key0/key1 branch for backend packets breaks `TypeOK`.
- Writing the duration as first seen minus now breaks `TypeOK`.
- Not updating the duration of a known source breaks `ExpiryLagsOneVisit`.
- Scaling `rand()` by `RAND_MAX` instead of `RAND_MAX + 1.0` breaks `RandomOneInValue`.
- Writing the IP header length bound as 7 words breaks `ValidFramesAccepted`.
- Dropping the `max_packet_buffer` check in `store_pkt` breaks `TypeOK` of Replay.
- Not advancing the cursor past the expected LIH packet in `setup_redirection` breaks `ExpectedAnswerReplayed`.
- Switching to FORWARD one packet early in the replay loop breaks `ReplayRefinesRedirect`.
- Dropping the second fold of `in_cksum` breaks `TcpChecksumValid`.
- Rewriting the ack as `ack + ~delta`, without the `+ 1`, breaks `SeqSpaceRoundTrip`.
- Taking the RST's seq from the LIH packet's seq breaks `RstAcceptedByLih`.
- Taking `hih.port` from `tmp[1]`, EXT's port, in `setup_redirection` breaks `SpliceEndpoints`.
- Writing the expected seq as `seq + delta` in `define_expected_data` breaks `ExpectationMatchesForward`.

### Bounds

One flow is enough: every race above is between records or threads on the
same key. With 4 packets, one worker can send SYN, FIN, FIN and a fourth
packet that triggers the inline expiry, or two workers can race two SYNs and
still leave packets for an update. Two seconds, with `Delay` 0, let a record
become idle for the reaper and for the inline expiry (`curtime - access_time >
0`). One backend is enough for the busy return of `setup_redirection`. For `mod_source_time`, 6
seconds with `expiration` 2 and `deny_after` 3 let a source be new, accepted
in its frame, rejected after it, judged late once and renewed. A replay
buffer of 4 holds every shape of the replay loop: EXT runs, a LIH packet
with DE 0 that stops the loop, DE 1 packets it skips, and an end reached by
either loop. Six packets fill it and leave room for two HIH replies. The
frames are every combination of `tot_len` in {39, 40, 60, 65} with `BUFSIZE`
64, `ihl` in {4, 5, 8}, `doff` in {4, 5, 15}, ports in {0, 80} and a UDP
length in {7, 20, 40}. These values sit on both sides of every bound
`init_pkt` checks, and they include frames whose headers do not fit.
`BUFSIZE` is not defined in `src/`, so a small value stands for it. `data` is
24 bits wide instead of 32, because TLC's integers cannot hold 2^32. A
negative length still wraps far above any `tot_len`. For the
checksums, the inputs include payloads for which the first fold of
`in_cksum` carries again, so the second fold matters, and the IP header lengths are 5 (no options,
the passing run) and 6 (one option word, enough to move the TCP header off
the offsets `struct tcp_packet` assumes). For the flow keys, one EXT socket, one LIH socket and one HIH address are enough, because `conn_tree` and `high_redirection_table` hold one flow. A second HIH source port makes the redirection-table miss happen. Deadlock checking is off:
bounded behaviours end when packets and time run out, and the lock wedges
are found as liveness violations instead.

### Fairness

Threads are scheduled by the OS and the clock runs. So each worker's step,
the reaper's step and `Tick` are weakly fair. Weak fairness suffices, because
a blocked thread's step stays enabled once its lock is free. Under this
fairness the code really does wedge, through a FIN retransmission or through
the busy return of `setup_redirection` (the two violation runs above).
`FairSpec` with `MCOneWorker`, `MCNoBackends` and `MCKindsNoFin` excludes
both wedges. `ThreadsProgress` holds there, but that check has no run of
its own: the run slots are spent on the classifier's properties.

## Findings

The violation runs are code bugs and spec divergences, described in `PROJECT.json`
"findings" at the line where each bites. Two more leaks show up in the
`conn_freed_unexpired` trace rather than in runs of their own. First,
`g_tree_insert` replaces a live record when two SYNs race, or after an
inline expiry that queued nothing. Second, the replaced record is never
freed.

Three defects were seen in the decision modules without a run of their own:
- `mod_random` with value 1 never accepts (`mod_random.c:71`). RandomOneInValue's comment records this exception.
- `mod_yesno` accepts any argument that starts with "yes" (`yesno_mod.c:45`).
- `get_module` compares at most 6 characters, so "source_time" selects `mod_source` (`modules.c:65`).

Seen in the replay and forwarding code without a run of their own:
- `test_expected` sets flag=OK on a payload mismatch (`netcode.c:401`). Spec 4.5 says any mismatch yields REJECT.
- `hih.delta` is never assigned (`connections.c:1033-1038` fill every other `hih` field), so the HIH's sequence numbers reach EXT unshifted. Spec 4.5 defines delta = hih_seq - lih_seq at commit.
- `ip_checksum` does not zero the check field (`netcode.c:339`). The kernel's `IP_HDRINCL` handling hides this.
- The flow keys `key0` and `key1` leave out the protocol (`connections.c:436`), which spec 2 includes, so a UDP packet on the 4-tuple of a live TCP flow is taken as part of that flow.
- `forward()` ignores the `send_raw` result, and `replay()` drops every non-HIH packet (`netcode.c:292`). A replayed packet lost on the way to the HIH leaves the flow in REPLAY until the reaper expires it.
- `check_pre_dnat_routing` keeps the `*conn` of a match whose initiator is not HIH (`connections.c:413`), with `pkt->key` unset.
- `forward()` checks `&fwd == 0x1` instead of the `malloc` result (`netcode.c:136`), so an allocation failure is never caught.
- `tcp_checksum` memsets one byte past `chk_p` when the network-order `tot_len` is odd (`netcode.c:454`).

Seen in `init_pkt`. The run `replay_classify` shows the first; the next two break the same property, and the leak has no run:
- `data < 0` never holds for the unsigned `data`, so a TCP frame whose header lengths exceed its total length is accepted (`connections.c:186`).
- The UDP length is used without `ntohs` (`connections.c:177`), so on little-endian hosts `data` is the byte-swapped length minus 8.
- The TCP header is read at `ihl*4` without checking that it lies inside the copied frame (`connections.c:119`).
- Every frame dropped after the size check leaks its `FRAME` copy (`connections.c:196`).

## Plan

Done: `ConnTable`, `DecisionModules`, `Replay` with `RedirectSpec` and
`Classifier`, `Netcode` with `reply_reset`, `define_expected_data` and
`test_expected`, and `FlowKeys`. Left, in this order:
1. The payload comparison of `test_expected` and the missing delta, as properties. `test_expected` and `define_expected_data` are now operators of `Netcode`, and `ExpectationMatchesForward` shows that they agree with `forward()` for every delta. A property that a mismatched payload is refused, or that delta is the HIH-LIH difference, would each be a violation run, and every run slot is taken.
2. A composition of `ConnTable` and `Replay`: the replay tail of `setup_redirection` and `replay()` run under the record lock that `init_conn` returns. It would check that replay never runs on a record the reaper freed.
3. The protocol missing from the flow keys, as a property over TCP and UDP packets on one 4-tuple. It is a violation run, and needs a slot.

## Not modelled

- Logging and string formatting.
- `mod_yesno`, `get_module` and `mod_table_init`. They use the older module interface and only match strings; their prefix matches are listed under Findings.
- The raw socket I/O and the `sendto` result of `send_raw`, and the `malloc` of `forward()`'s copy: no module has a heap.
- The netfilter callback and the decision engine's thread, which are not in `src/`. Only their contract is modelled, as `Receive`, `decide` and `release_conn`.
- Backend-initiated flows through `check_pre_dnat_routing`.
- `init_mark`, `free_pkt` and the mark of the redirection entry. They copy a netfilter mark or release memory, and no property tells these apart.
- The UDP copies of the key formatting in `init_pkt` (`connections.c:158-176`). They are the TCP ones with `udp->source` and `udp->dest`, and `FlowKeys` uses one definition for both.
