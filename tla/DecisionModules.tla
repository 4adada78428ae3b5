--------------------------- MODULE DecisionModules ---------------------------
(***************************************************************************)
(* The decision modules of honeybrid.                                     *)
(*                                                                        *)
(* mod_source_time (src/src/mod_source_time.c) keeps, per source IP, a    *)
(* persisted record "counter; first seen; duration" and accepts a source  *)
(* within [allow_after, deny_after] seconds of its first sighting,        *)
(* renewing the record once it is older than "expiration".  It is an     *)
(* action over a clock and a database of sources.                         *)
(*                                                                        *)
(* mod_random (src/src/mod_random.c) is a pure function of its          *)
(* parameter and of rand(): an operator, checked against "1 out of       *)
(* value" over every rand() outcome of a scaled-down RAND_MAX.            *)
(***************************************************************************)
EXTENDS Integers, FiniteSets

CONSTANTS
    Sources,        \* source IPs (key_src)
    MaxTime,        \* last second of a behaviour
    MaxVisits,      \* calls of mod_source_time in a behaviour
    SourceConfigs,  \* node configurations of mod_source_time
    RandMax,        \* RAND_MAX, scaled down
    RandomValues,   \* "value" parameters of mod_random; NoValue if absent
    NoValue

\* the config values parsed by atoi; backup and backup_file present or not
SourceConfig == [backup : BOOLEAN, backup_file : BOOLEAN,
                 expiration : Nat, deny_after : Nat, allow_after : Nat]

ASSUME SourceConfigs \subseteq SourceConfig

Results == {"ACCEPT", "REJECT", "DEFER"}
\* the process died in a module
Crash == "CRASH"

\* a g_key_file string list "counter; first seen; duration", or none
Entry == [known : BOOLEAN, count : 0..MaxVisits, first : 0..MaxTime,
          dur : 0..MaxTime]
NoEntry == [known |-> FALSE, count |-> 0, first |-> 0, dur |-> 0]

VARIABLES
    now,      \* g_get_current_time, in seconds
    cfg,      \* args->node->config of the mod_source_time node
    rvalue,   \* the "value" parameter of the mod_random node
    db,       \* the "source" group of the backup GKeyFile
    visits,   \* calls so far
    result,   \* the value the last call returned
    late      \* consecutive calls of a source judged although its first
              \* sighting is more than "expiration" seconds old

vars == <<now, cfg, rvalue, db, visits, result, late>>

TypeOK ==
    /\ now \in 0..MaxTime
    /\ cfg \in SourceConfigs
    /\ rvalue \in RandomValues
    /\ db \in [Sources -> Entry]
    /\ visits \in 0..MaxVisits
    /\ result \in Results \cup {Crash, "NONE"}
    /\ late \in [Sources -> 0..MaxVisits]

Init ==
    /\ now = 0
    /\ cfg \in SourceConfigs
    /\ rvalue \in RandomValues
    /\ db = [s \in Sources |-> NoEntry]
    /\ visits = 0
    /\ result = "NONE"
    /\ late = [s \in Sources |-> 0]

-----------------------------------------------------------------------------
(* mod_source_time: missing backup or backup_file, or allow_after not    *)
(* below deny_after, returns DEFER before the database is read.           *)
mod_source_time_defer(s) ==
    /\ visits < MaxVisits
    /\ \/ ~cfg.backup
       \/ ~cfg.backup_file
       \/ cfg.allow_after >= cfg.deny_after
    /\ visits' = visits + 1
    /\ result' = "DEFER"
    /\ UNCHANGED <<now, cfg, rvalue, db, late>>

\* a new or renewed record: counter 1, first seen now, duration 0
Fresh == [known |-> TRUE, count |-> 1, first |-> now, dur |-> 0]
\* the record is expired when its stored duration exceeds "expiration"
Expired(e) == e.dur > cfg.expiration
\* the record of a known source within its time frame
InFrame(e) == e.first + cfg.deny_after >= now /\ e.first + cfg.allow_after <= now

(* Mutant: the duration written as first seen - now.                     *)
mod_source_time_swapdur(s) ==
    /\ visits < MaxVisits
    /\ cfg.backup /\ cfg.backup_file
    /\ cfg.allow_after < cfg.deny_after
    /\ LET e == db[s] IN
       \/ /\ ~e.known \/ Expired(e)
          /\ db' = [db EXCEPT ![s] = Fresh]
          /\ result' = IF cfg.allow_after = 0 THEN "ACCEPT" ELSE "REJECT"
          /\ late' = [late EXCEPT ![s] = 0]
       \/ /\ e.known /\ ~Expired(e)
          /\ db' = [db EXCEPT ![s].count = @ + 1, ![s].dur = e.first - now]
          /\ result' = IF InFrame(e) THEN "ACCEPT" ELSE "REJECT"
          /\ late' = [late EXCEPT ![s] =
                        IF now - e.first > cfg.expiration THEN @ + 1 ELSE 0]
    /\ visits' = visits + 1
    /\ UNCHANGED <<now, cfg, rvalue>>

(* Mutant: the duration (info[2]) of a known source not updated.         *)
mod_source_time_nodur(s) ==
    /\ visits < MaxVisits
    /\ cfg.backup /\ cfg.backup_file
    /\ cfg.allow_after < cfg.deny_after
    /\ LET e == db[s] IN
       \/ /\ ~e.known \/ Expired(e)
          /\ db' = [db EXCEPT ![s] = Fresh]
          /\ result' = IF cfg.allow_after = 0 THEN "ACCEPT" ELSE "REJECT"
          /\ late' = [late EXCEPT ![s] = 0]
       \/ /\ e.known /\ ~Expired(e)
          /\ db' = [db EXCEPT ![s].count = @ + 1]
          /\ result' = IF InFrame(e) THEN "ACCEPT" ELSE "REJECT"
          /\ late' = [late EXCEPT ![s] =
                        IF now - e.first > cfg.expiration THEN @ + 1 ELSE 0]
    /\ visits' = visits + 1
    /\ UNCHANGED <<now, cfg, rvalue>>

(* mod_source_time with a usable configuration: an unknown or expired    *)
(* source gets a fresh record and is accepted iff allow_after is 0; a    *)
(* known one is judged by its time frame, its counter incremented and    *)
(* its duration set to now - first seen.  The record is written back and *)
(* save_backup persists it.                                               *)
mod_source_time(s) ==
    /\ visits < MaxVisits
    /\ cfg.backup /\ cfg.backup_file
    /\ cfg.allow_after < cfg.deny_after
    /\ LET e == db[s] IN
       \/ /\ ~e.known \/ Expired(e)
          /\ db' = [db EXCEPT ![s] = Fresh]
          /\ result' = IF cfg.allow_after = 0 THEN "ACCEPT" ELSE "REJECT"
          /\ late' = [late EXCEPT ![s] = 0]
       \/ /\ e.known /\ ~Expired(e)
          /\ db' = [db EXCEPT ![s].count = @ + 1, ![s].dur = now - e.first]
          /\ result' = IF InFrame(e) THEN "ACCEPT" ELSE "REJECT"
          /\ late' = [late EXCEPT ![s] =
                        IF now - e.first > cfg.expiration THEN @ + 1 ELSE 0]
    /\ visits' = visits + 1
    /\ UNCHANGED <<now, cfg, rvalue>>

(* A second passes.                                                       *)
Tick ==
    /\ now < MaxTime
    /\ now' = now + 1
    /\ UNCHANGED <<cfg, rvalue, db, visits, result, late>>


-----------------------------------------------------------------------------
(* Mutant: the rand() scale divided by RAND_MAX instead of RAND_MAX + 1.0 *)
Proba_randmax(value, k) == (value * k) \div RandMax

(* mod_random: proba = (int)(value * (rand() / (RAND_MAX + 1.0))), for   *)
(* rand() = k.  The product is below 2 * (RAND_MAX + 1) for a uint32     *)
(* value, so an (int) overflow can only give a proba other than 1 and    *)
(* the comparison with 1 is unaffected.                                   *)
Proba(value, k) == (value * k) \div (RandMax + 1)

(* The results mod_random can return for a value and a rand() outcome.    *)
(* An absent value returns DEFER after a printdbg that dereferences the  *)
(* NULL value: a build with debug output crashes there.                   *)
mod_random(value, k) ==
    IF value = NoValue THEN {"DEFER", Crash}
    ELSE IF value < 1 THEN {"REJECT"}
    ELSE IF Proba(value, k) = 1 THEN {"ACCEPT"}
    ELSE {"REJECT"}

\* the rand() outcomes for which mod_random accepts
Accepting(value) == {k \in 0..RandMax : "ACCEPT" \in mod_random(value, k)}

(* The mod_random node evaluated on a flow: rand() returns any k.         *)
mod_random_call ==
    /\ visits < MaxVisits
    /\ \E k \in 0..RandMax : \E r \in mod_random(rvalue, k) : result' = r
    /\ visits' = visits + 1
    /\ UNCHANGED <<now, cfg, rvalue, db, late>>

(* Nothing runs after a crash.                                            *)
Next ==
    /\ result # Crash
    /\ \/ \E s \in Sources : mod_source_time_defer(s) \/ mod_source_time(s)
       \/ mod_random_call
       \/ Tick

Spec == Init /\ [][Next]_vars

-----------------------------------------------------------------------------
(* mod_source_time renews a record only when its stored duration, the   *)
(* age it had at the previous call, exceeds "expiration".  So a source   *)
(* whose first sighting is too old is judged on the stale record at most *)
(* once: that call stores the large duration and the next one renews.   *)
ExpiryLagsOneVisit == \A s \in Sources : late[s] <= 1

(* mod_random accepts "1 out of value": for a configured value >= 2,     *)
(* the share of rand() outcomes that accept is within one outcome of     *)
(* 1/value.  (Value 1, which should always accept, never does: proba is *)
(* always 0 then.)                                                        *)
RandomOneInValue ==
    rvalue # NoValue /\ rvalue >= 2 =>
        LET n == Cardinality(Accepting(rvalue)) * rvalue - (RandMax + 1)
        IN  n < rvalue /\ -n < rvalue
=============================================================================
