-------------------------- MODULE InflightCounters --------------------------
(***************************************************************************)
(* The in-flight counters the gateway keeps in Redis (src/cache.rs): one   *)
(* per limited API key and one per account.  Each operator is ONE command  *)
(* that Redis runs atomically; inflight_release is two of them, DECR and   *)
(* then, on a result that is not positive, DEL, and other clients run in   *)
(* between.                                                                *)
(*                                                                         *)
(* A missing key reads as 0 and INCR / DECR start it from 0, so a missing  *)
(* key and a key that holds 0 are the same value here.  Only INCR arms the *)
(* expiry: a key that DECR creates has none (ttl = 0).                     *)
(***************************************************************************)
EXTENDS Integers

CONSTANTS
    Counters,   \* the Redis keys pm:inflight:<scope>:<id>
    TTL         \* INFLIGHT_TTL_SECS, in units of the model's clock

ASSUME TTLAssumption == TTL \in Nat \ {0}

VARIABLES
    counter,    \* counter[c]: the value of the key, 0 when it is missing
    ttl         \* ttl[c]: time to its expiry, 0 when none is armed

redisVars == <<counter, ttl>>

CountersTypeOK ==
    /\ counter \in [Counters -> Int]
    /\ ttl \in [Counters -> 0..TTL]

CountersInit ==
    /\ counter = [c \in Counters |-> 0]
    /\ ttl = [c \in Counters |-> 0]

\* Slips: a lost reply resends the INCR; EXPIRE gets milliseconds.
IncrResent(c) ==
    /\ counter' = [counter EXCEPT ![c] = @ + 2]
    /\ ttl' = [ttl EXCEPT ![c] = TTL]
IncrMillis(c) ==
    /\ counter' = [counter EXCEPT ![c] = @ + 1]
    /\ ttl' = [ttl EXCEPT ![c] = 1000 * TTL]

\* inflight_acquire: INCR and EXPIRE in one pipeline; the caller gets counter[c] + 1.
Incr(c) ==
    /\ counter' = [counter EXCEPT ![c] = @ + 1]
    /\ ttl' = [ttl EXCEPT ![c] = TTL]

\* First command of inflight_release; the caller gets counter[c] - 1.
Decr(c) ==
    /\ counter' = [counter EXCEPT ![c] = @ - 1]
    /\ UNCHANGED ttl

\* Does a DECR sent now return n <= 0, so that the caller goes on to DEL?
WillDelete(c) == counter[c] - 1 <= 0

\* Second command of inflight_release.
Del(c) ==
    /\ counter' = [counter EXCEPT ![c] = 0]
    /\ ttl' = [ttl EXCEPT ![c] = 0]

\* The keys that one more unit of time removes.
Expiring == {c \in Counters : ttl[c] = 1}

\* One unit of time passes in Redis.
PassTime ==
    /\ ttl' = [c \in Counters |-> IF ttl[c] = 0 THEN 0 ELSE ttl[c] - 1]
    /\ counter' = [c \in Counters |-> IF c \in Expiring THEN 0 ELSE counter[c]]
=============================================================================
