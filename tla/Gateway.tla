------------------------------ MODULE Gateway -------------------------------
(***************************************************************************)
(* The request path of src/gateway.rs: every replica runs one handler per  *)
(* request (`proxy`), each `.await` of it is a step here, and between two  *)
(* steps of one request any other request, spawned task, refresh or job    *)
(* may run.  The handlers share the in-flight counters of Redis, the       *)
(* account rows of Postgres and the routing snapshot of their replica.     *)
(*                                                                         *)
(* A request holds slots: holds[r] is the set of counters it has           *)
(* incremented and not decremented since.  No variable of the program      *)
(* keeps that set; it is what the counters are meant to count.             *)
(***************************************************************************)
EXTENDS InflightCounters, FiniteSets

CONSTANTS
    Requests,   \* identities of the requests in progress
    Replicas,   \* manager processes
    Accounts,
    Keys,       \* API keys
    Limited,    \* the keys with a max_concurrency
    Limit,      \* max_concurrency of the keys and of the accounts
    Metered,    \* the accounts with an rpm_limit
    KeyOf,      \* the API key of each request
    RepOf,      \* the replica each request was routed to
    Methods,    \* "POST" (accounting) and "GET" (none)
    Kinds,      \* sticky tokens in play: "sess", "resp"
    MaxTries,   \* accounts tried for one request (3)
    Env,        \* what the environment may do: see EnvKinds
    Recycling,  \* BOOLEAN: may a finished identity stand for a new request?
    None

(***************************************************************************)
(* status: jobs and administrators change account rows;  refresh: the      *)
(* snapshot loops run;  cancel: a client disconnects while its handler     *)
(* awaits;  crash: a replica stops;  redis: a command fails, applied or    *)
(* not;  runner: the snapshot has the account but not its runner;  slow: a *)
(* request outlives the counters' TTL (3600 s; an upstream call is cut     *)
(* after 900 s by default).                                                *)
(***************************************************************************)
EnvKinds == {"status", "refresh", "cancel", "crash", "redis", "runner", "slow"}

ASSUME SetsAssumption ==
    /\ IsFiniteSet(Requests)
    /\ Requests \cap Replicas = {}
    /\ Counters = Keys \cup Accounts
    /\ Keys \cap Accounts = {}
    /\ Limited \subseteq Keys
    /\ Metered \subseteq Accounts
    /\ Limit \in [Counters -> Nat]
    /\ KeyOf \in [Requests -> Keys]
    /\ RepOf \in [Requests -> Replicas]
    /\ Methods \subseteq {"POST", "GET"}
    /\ Kinds \subseteq {"sess", "resp"}
    /\ Env \subseteq EnvKinds
    /\ MaxTries \in Nat \ {0}
    /\ Recycling \in BOOLEAN
    /\ None \notin Accounts \cup (Kinds \X Requests)

VARIABLES
    pc,         \* where the handler of the request is
    acc,        \* accounting: is it a POST?
    tok,        \* the sticky token the client sent
    pinned,     \* the account that token resolved to
    excluded,   \* accounts that failed it
    cand,       \* candidates acquire_account has still to try
    acct,       \* the account being tried or leased
    retry,      \* was the last send error retryable?
    answer,     \* what the client was answered
    observed,   \* Observer.done
    holds,      \* slots taken and not given back
    todo,       \* todo[r][c]: spawned releases of c that are still to DECR
    wipe,       \* wipe[r][c]: those that are still to DEL
    linger,     \* is the cleanup task still to store the response id?
    usage,      \* calls of record_usage
    up,         \* the account rows: enabled and running
    snap,       \* snap[p]: the accounts the snapshot of replica p has as eligible
    fetched,    \* rows a refresh has read and not yet published
    sticky,     \* Redis: sticky token -> account
    issued      \* the tokens clients have been given, with their account

handlerVars == <<acc, tok, pinned, excluded, cand, retry>>
taskVars    == <<todo, wipe, linger>>
poolVars    == <<up, snap, fetched>>
stickyVars  == <<sticky, issued>>
vars == <<counter, ttl, pc, handlerVars, acct, answer, observed, holds,
          taskVars, usage, poolVars, stickyVars>>

Tokens == Kinds \X Requests
Rows   == {a \in Accounts : up[a]}

\* An inline release is a pair of states, before DECR and before DEL.
Handling == {"key", "keyOver", "keyDel", "body", "pin", "select", "pick", "over",
             "overDel", "send", "failed", "failedDel", "mark", "fetch", "publish",
             "verdict", "relay"}
Stages == Handling \cup {"idle", "stream", "ended", "done", "gone"}

FlowTypeOK ==
    /\ pc \in [Requests -> Stages]
    /\ acc \in [Requests -> BOOLEAN]
    /\ tok \in [Requests -> Tokens \cup {None}]
    /\ pinned \in [Requests -> Accounts \cup {None}]
    /\ excluded \in [Requests -> SUBSET Accounts]
    /\ cand \in [Requests -> SUBSET Accounts]
    /\ acct \in [Requests -> Accounts \cup {None}]
    /\ retry \in [Requests -> BOOLEAN]

SlotTypeOK ==
    /\ holds \in [Requests -> SUBSET Counters]
    /\ todo \in [Requests -> [Counters -> Nat]]
    /\ wipe \in [Requests -> [Counters -> Nat]]

ResultTypeOK ==
    /\ answer \in [Requests -> {"none", "refused", "unreachable", "relayed"}]
    /\ observed \in [Requests -> BOOLEAN]
    /\ linger \in [Requests -> BOOLEAN]
    /\ usage \in [Requests -> Nat]

PoolTypeOK ==
    /\ up \in [Accounts -> BOOLEAN]
    /\ snap \in [Replicas -> SUBSET Accounts]
    /\ fetched \in [Requests \cup Replicas -> (SUBSET Accounts) \cup {None}]
    /\ sticky \in [Tokens -> Accounts \cup {None}]
    /\ issued \in [Tokens -> Accounts \cup {None}]

TypeOK == CountersTypeOK /\ FlowTypeOK /\ SlotTypeOK /\ ResultTypeOK /\ PoolTypeOK

Init ==
    /\ CountersInit
    /\ pc = [r \in Requests |-> "idle"]
    /\ acc = [r \in Requests |-> TRUE]
    /\ tok = [r \in Requests |-> None]
    /\ pinned = [r \in Requests |-> None]
    /\ excluded = [r \in Requests |-> {}]
    /\ cand = [r \in Requests |-> {}]
    /\ acct = [r \in Requests |-> None]
    /\ retry = [r \in Requests |-> FALSE]
    /\ answer = [r \in Requests |-> "none"]
    /\ observed = [r \in Requests |-> FALSE]
    /\ holds = [r \in Requests |-> {}]
    /\ todo = [r \in Requests |-> [c \in Counters |-> 0]]
    /\ wipe = [r \in Requests |-> [c \in Counters |-> 0]]
    /\ linger = [r \in Requests |-> FALSE]
    /\ usage = [r \in Requests |-> 0]
    /\ up = [a \in Accounts |-> TRUE]
    /\ snap = [p \in Replicas |-> Accounts]
    /\ fetched = [x \in Requests \cup Replicas |-> None]
    /\ sticky = [t \in Tokens |-> None]
    /\ issued = [t \in Tokens |-> None]
-----------------------------------------------------------------------------
(* Building blocks of the handler. *)

Goto(r, stage) == pc' = [pc EXCEPT ![r] = stage]

\* INCR by request r: from now on it holds a slot of c.
Take(r, c) ==
    /\ Incr(c)
    /\ holds' = [holds EXCEPT ![r] = @ \cup {c}]

\* DECR by request r.
GiveBack(r, c) ==
    /\ Decr(c)
    /\ holds' = [holds EXCEPT ![r] = @ \ {c}]

\* Slip: the value before the INCR is compared.
FitsBefore(c) == counter[c] <= Limit[c]

\* Has the value INCR is about to return passed the check n <= max?
Fits(c) == counter[c] + 1 <= Limit[c]

\* todo once the release_key closure has spawned its task (no task without key_slot).
ReleaseKey(r) ==
    IF KeyOf[r] \in Limited THEN [todo EXCEPT ![r][KeyOf[r]] = @ + 1] ELSE todo

\* Slip: an early return without release_key().
RefuseKeepingKey(r) ==
    /\ Goto(r, "done")
    /\ answer' = [answer EXCEPT ![r] = "refused"]
    /\ UNCHANGED <<todo, wipe, linger, observed, usage>>

\* `return err(...)` after release_key().
Refuse(r) ==
    /\ Goto(r, "done")
    /\ answer' = [answer EXCEPT ![r] = "refused"]
    /\ todo' = ReleaseKey(r)
    /\ UNCHANGED <<wipe, linger, observed, usage>>

\* inflight_release awaited by the handler: DECR here, DEL in the next stage if due.
InlineDecr(r, stage, c, del, next) ==
    /\ pc[r] = stage
    /\ GiveBack(r, c)
    /\ Goto(r, IF WillDelete(c) THEN del ELSE next)
    /\ UNCHANGED <<handlerVars, observed, taskVars, usage, poolVars, stickyVars>>

InlineDel(r, stage, c, next) ==
    /\ pc[r] = stage
    /\ Del(c)
    /\ Goto(r, next)
    /\ UNCHANGED <<handlerVars, acct, answer, observed, holds, taskVars, usage,
                   poolVars, stickyVars>>
-----------------------------------------------------------------------------
(* The API key's slot and the body. *)

\* An authenticated request that passed the key's rate limit.
Arrive(r) ==
    /\ pc[r] = "idle"
    /\ \E m \in Methods, t \in {None} \cup {x \in Tokens : issued[x] # None} :
          /\ acc' = [acc EXCEPT ![r] = (m = "POST")]
          /\ tok' = [tok EXCEPT ![r] = t]
    /\ Goto(r, IF KeyOf[r] \in Limited THEN "key" ELSE "body")
    /\ UNCHANGED <<redisVars, pinned, excluded, cand, retry, acct, answer, observed,
                   holds, taskVars, usage, poolVars, stickyVars>>

AcquireKey(r) ==
    /\ pc[r] = "key"
    /\ Take(r, KeyOf[r])
    /\ Goto(r, IF Fits(KeyOf[r]) THEN "body" ELSE "keyOver")
    /\ UNCHANGED <<handlerVars, acct, answer, observed, taskVars, usage, poolVars,
                   stickyVars>>

\* Over the key's limit: the slot goes back before the 429.
KeyOver(r) ==
    /\ InlineDecr(r, "keyOver", KeyOf[r], "keyDel", "done")
    /\ answer' = [answer EXCEPT ![r] = "refused"]
    /\ UNCHANGED acct

KeyDel(r) == InlineDel(r, "keyDel", KeyOf[r], "done")

\* to_bytes: the body arrives, or it is too large or broken.
ReadBody(r) ==
    /\ pc[r] = "body"
    /\ \/ /\ Goto(r, IF acc[r] THEN "pin" ELSE "select")
          /\ UNCHANGED <<answer, observed, taskVars, usage>>
       \/ Refuse(r)
    /\ UNCHANGED <<redisVars, handlerVars, acct, holds, poolVars, stickyVars>>

\* sticky_account; a Redis error there reads as "not pinned".
LookupPin(r) ==
    /\ pc[r] = "pin"
    /\ \/ pinned' = [pinned EXCEPT ![r] = IF tok[r] = None THEN None ELSE sticky[tok[r]]]
       \/ /\ "redis" \in Env
          /\ UNCHANGED pinned
    /\ Goto(r, "select")
    /\ UNCHANGED <<redisVars, acc, tok, excluded, cand, retry, acct, answer, observed,
                   holds, taskVars, usage, poolVars, stickyVars>>
-----------------------------------------------------------------------------
(* acquire_account: the snapshot of the replica is read once, at the start. *)

Eligible(r) == snap[RepOf[r]] \ excluded[r]

\* instance_url(a)? fails: the handler answers 502 and keeps what it holds of a.
RunnerMissing(r) ==
    /\ "runner" \in Env
    /\ Refuse(r)

Lease(r, a) ==
    /\ acct' = [acct EXCEPT ![r] = a]
    /\ \/ /\ Goto(r, "send")
          /\ UNCHANGED <<answer, observed, taskVars, usage>>
       \/ RunnerMissing(r)

\* Not accounting: any eligible account, no slot taken.
SelectAny(r) ==
    /\ pc[r] = "select" /\ ~acc[r]
    /\ \/ \E a \in Eligible(r) : Lease(r, a)
       \/ /\ Eligible(r) = {}
          /\ Refuse(r)
          /\ UNCHANGED acct
    /\ UNCHANGED <<redisVars, handlerVars, holds, poolVars, stickyVars>>

\* A pinned conversation bypasses the cap; the result of the INCR is not looked at.
SelectPinned(r) ==
    /\ pc[r] = "select" /\ acc[r] /\ pinned[r] # None
    /\ \/ /\ pinned[r] \in Eligible(r)
          /\ \/ Take(r, pinned[r])
             \/ /\ "redis" \in Env
                /\ UNCHANGED <<redisVars, holds>>
          /\ Lease(r, pinned[r])
       \/ /\ pinned[r] \notin Eligible(r)
          /\ Refuse(r)
          /\ UNCHANGED <<redisVars, holds, acct>>
    /\ UNCHANGED <<handlerVars, poolVars, stickyVars>>

SelectCandidates(r) ==
    /\ pc[r] = "select" /\ acc[r] /\ pinned[r] = None
    /\ \/ /\ Eligible(r) # {}
          /\ cand' = [cand EXCEPT ![r] = Eligible(r)]
          /\ Goto(r, "pick")
          /\ UNCHANGED <<answer, observed, taskVars, usage>>
       \/ /\ Eligible(r) = {}
          /\ Refuse(r)
          /\ UNCHANGED cand
    /\ UNCHANGED <<redisVars, acc, tok, pinned, excluded, retry, acct, holds, poolVars,
                   stickyVars>>


(***************************************************************************)
(* The candidate loop.  The code sorts the candidates by loads it has read *)
(* one await at a time; they may be stale by now, so any order is allowed. *)
(***************************************************************************)
PickAccount(r, a) ==
    /\ pc[r] = "pick" /\ a \in cand[r]
    /\ cand' = [cand EXCEPT ![r] = @ \ {a}]
    /\ \/ /\ a \in Metered                          \* over its RPM: next candidate
          /\ UNCHANGED <<redisVars, pc, acct, answer, observed, holds, taskVars, usage>>
       \/ /\ Take(r, a)
          /\ \/ Fits(a) /\ Lease(r, a)
             \/ /\ ~Fits(a)
                /\ acct' = [acct EXCEPT ![r] = a]
                /\ Goto(r, "over")
                /\ UNCHANGED <<answer, observed, taskVars, usage>>
    /\ UNCHANGED <<acc, tok, pinned, excluded, retry, poolVars, stickyVars>>

OutOfCandidates(r) ==
    /\ pc[r] = "pick" /\ cand[r] = {}
    /\ Refuse(r)
    /\ UNCHANGED <<redisVars, handlerVars, acct, holds, poolVars, stickyVars>>

\* Over the account's cap: the slot goes back, then the next candidate.
Over(r) ==
    /\ InlineDecr(r, "over", acct[r], "overDel", "pick")
    /\ UNCHANGED <<acct, answer>>

OverDel(r) == InlineDel(r, "overDel", acct[r], "pick")
-----------------------------------------------------------------------------
(* Forwarding and retrying. *)

\* The upstream answers, or the send fails in a way that is retryable or is not.
Send(r) ==
    /\ pc[r] = "send"
    /\ \/ Goto(r, "relay") /\ UNCHANGED retry
       \/ \E b \in BOOLEAN :
             /\ retry' = [retry EXCEPT ![r] = b]
             /\ Goto(r, IF acc[r] THEN "failed" ELSE IF b THEN "mark" ELSE "verdict")
    /\ UNCHANGED <<redisVars, acc, tok, pinned, excluded, cand, acct, answer, observed,
                   holds, taskVars, usage, poolVars, stickyVars>>

AfterRelease(r) == IF retry[r] THEN "mark" ELSE "verdict"

SendFailed(r) ==
    /\ InlineDecr(r, "failed", acct[r], "failedDel", AfterRelease(r))
    /\ UNCHANGED <<acct, answer>>

FailedDel(r) == InlineDel(r, "failedDel", acct[r], AfterRelease(r))

\* set_account_status(.., "unhealthy", ..): whatever the row says by now.
MarkUnhealthy(r) ==
    /\ pc[r] = "mark"
    /\ up' = [up EXCEPT ![acct[r]] = FALSE]
    /\ Goto(r, "fetch")
    /\ UNCHANGED <<redisVars, handlerVars, acct, answer, observed, holds, taskVars, usage,
                   snap, fetched, stickyVars>>

\* st.refresh(): the rows are read, then the snapshot is replaced.
Fetch(r) ==
    /\ pc[r] = "fetch"
    /\ fetched' = [fetched EXCEPT ![r] = Rows]
    /\ Goto(r, "publish")
    /\ UNCHANGED <<redisVars, handlerVars, acct, answer, observed, holds, taskVars, usage,
                   up, snap, stickyVars>>

Publish(r) ==
    /\ pc[r] = "publish"
    /\ snap' = [snap EXCEPT ![RepOf[r]] = fetched[r]]
    /\ fetched' = [fetched EXCEPT ![r] = None]
    /\ Goto(r, "verdict")
    /\ UNCHANGED <<redisVars, handlerVars, acct, answer, observed, holds, taskVars, usage,
                   up, stickyVars>>

Tried(r) == excluded[r] \cup {acct[r]}

\* Slip: one account more is tried.
GivesUpLate(r) == ~retry[r] \/ pinned[r] # None \/ Cardinality(Tried(r)) > MaxTries

GivesUp(r) == ~retry[r] \/ pinned[r] # None \/ Cardinality(Tried(r)) >= MaxTries

\* excluded.push, then stop or go round the retry loop.
Verdict(r) ==
    /\ pc[r] = "verdict"
    /\ excluded' = [excluded EXCEPT ![r] = Tried(r)]
    /\ \/ /\ GivesUp(r)
          /\ Goto(r, "done")
          /\ answer' = [answer EXCEPT ![r] = "unreachable"]
          /\ todo' = ReleaseKey(r)
          /\ usage' = [usage EXCEPT ![r] = @ + 1]
       \/ /\ ~GivesUp(r)
          /\ Goto(r, "select")
          /\ UNCHANGED <<answer, todo, usage>>
    /\ UNCHANGED <<redisVars, acc, tok, pinned, cand, retry, acct, observed, holds, wipe,
                   linger, poolVars, stickyVars>>
-----------------------------------------------------------------------------
(* The response: session header, then the observed body. *)

\* Slip: the response goes out without its session token being stored.
RelayUnstored(r) ==
    /\ pc[r] = "relay"
    /\ issued' = [issued EXCEPT ![<<"sess", r>>] = acct[r]]
    /\ Goto(r, "stream")
    /\ answer' = [answer EXCEPT ![r] = "relayed"]
    /\ UNCHANGED <<redisVars, handlerVars, acct, observed, holds, taskVars, usage,
                   poolVars, sticky>>

\* The instance may name a session; its token is stored before the client sees it.
Relay(r) ==
    /\ pc[r] = "relay"
    /\ \/ UNCHANGED stickyVars
       \/ /\ "sess" \in Kinds
          /\ sticky' = [sticky EXCEPT ![<<"sess", r>>] = acct[r]]
          /\ issued' = [issued EXCEPT ![<<"sess", r>>] = acct[r]]
    /\ Goto(r, "stream")
    /\ answer' = [answer EXCEPT ![r] = "relayed"]
    /\ UNCHANGED <<redisVars, handlerVars, acct, observed, holds, taskVars, usage, poolVars>>

\* Slip: finish settles again when the Observer is dropped.
FinishAgain(r, found) ==
    /\ observed' = [observed EXCEPT ![r] = TRUE]
    /\ todo' = [todo EXCEPT ![r] = [c \in Counters |->
                  IF c = acct[r] /\ acc[r] THEN @[c] + 1 ELSE ReleaseKey(r)[r][c]]]
    /\ linger' = [linger EXCEPT ![r] = found]
    /\ usage' = [usage EXCEPT ![r] = @ + 1]
    /\ UNCHANGED wipe

\* Observer::finish; found: the body's head held a response id.
Finish(r, found) ==
    /\ observed' = [observed EXCEPT ![r] = TRUE]
    /\ IF observed[r]
       THEN UNCHANGED <<taskVars, usage>>
       ELSE /\ todo' = [todo EXCEPT ![r] = [c \in Counters |->
                          IF c = acct[r] /\ acc[r] THEN @[c] + 1 ELSE ReleaseKey(r)[r][c]]]
            /\ linger' = [linger EXCEPT ![r] = found]
            /\ usage' = [usage EXCEPT ![r] = @ + 1]
            /\ UNCHANGED wipe

\* End of the stream: finish(None), and the client has the whole response.
StreamEnd(r) ==
    /\ pc[r] = "stream"
    /\ \E found \in BOOLEAN :
          /\ found => "resp" \in Kinds
          /\ Finish(r, found)
          /\ issued' = IF found THEN [issued EXCEPT ![<<"resp", r>>] = acct[r]] ELSE issued
    /\ Goto(r, "ended")
    /\ UNCHANGED <<redisVars, handlerVars, acct, answer, holds, poolVars, sticky>>

\* Drop for Observer, after the end of the stream or, on a disconnect or an
\* upstream error, before it.
DropObserver(r) ==
    /\ pc[r] \in {"stream", "ended"}
    /\ \E found \in BOOLEAN : (found => "resp" \in Kinds) /\ Finish(r, found)
    /\ Goto(r, "done")
    /\ UNCHANGED <<redisVars, handlerVars, acct, answer, holds, poolVars, stickyVars>>
-----------------------------------------------------------------------------
(* Spawned tasks: they outlive the handler, not their replica. *)

\* inflight_release spawned by release_key or by the cleanup task.
TaskDecr(r, c) ==
    /\ todo[r][c] > 0
    /\ GiveBack(r, c)
    /\ todo' = [todo EXCEPT ![r][c] = @ - 1]
    /\ wipe' = IF WillDelete(c) THEN [wipe EXCEPT ![r][c] = @ + 1] ELSE wipe
    /\ UNCHANGED <<pc, handlerVars, acct, answer, observed, linger, usage, poolVars,
                   stickyVars>>

TaskDel(r, c) ==
    /\ wipe[r][c] > 0
    /\ Del(c)
    /\ wipe' = [wipe EXCEPT ![r][c] = @ - 1]
    /\ UNCHANGED <<pc, handlerVars, acct, answer, observed, holds, todo, linger, usage,
                   poolVars, stickyVars>>

\* The cleanup task stores the response id once it has released the account.
StoreResponseId(r) ==
    /\ linger[r] /\ todo[r][acct[r]] = 0 /\ wipe[r][acct[r]] = 0
    /\ sticky' = [sticky EXCEPT ![<<"resp", r>>] = acct[r]]
    /\ linger' = [linger EXCEPT ![r] = FALSE]
    /\ UNCHANGED <<redisVars, pc, handlerVars, acct, answer, observed, holds, todo, wipe,
                   usage, poolVars, issued>>

\* AppState::refresh in the replica's own loop.
LoopFetch(p) ==
    /\ "refresh" \in Env
    /\ fetched[p] = None
    /\ fetched' = [fetched EXCEPT ![p] = Rows]
    /\ UNCHANGED <<redisVars, pc, handlerVars, acct, answer, observed, holds, taskVars,
                   usage, up, snap, stickyVars>>

LoopPublish(p) ==
    /\ fetched[p] # None
    /\ snap' = [snap EXCEPT ![p] = fetched[p]]
    /\ fetched' = [fetched EXCEPT ![p] = None]
    /\ UNCHANGED <<redisVars, pc, handlerVars, acct, answer, observed, holds, taskVars,
                   usage, up, stickyVars>>
-----------------------------------------------------------------------------
(* The environment. *)

\* A job or an administrator changes the account's row.
StatusChange(a) ==
    /\ "status" \in Env
    /\ up' = [up EXCEPT ![a] = ~@]
    /\ UNCHANGED <<redisVars, pc, handlerVars, acct, answer, observed, holds, taskVars,
                   usage, snap, fetched, stickyVars>>

\* Nothing of the request is left to run.
Quiet(r) == \A c \in Counters : todo[r][c] = 0 /\ wipe[r][c] = 0

\* The client goes away while the handler awaits: its future is dropped as it stands.
Cancel(r) ==
    /\ "cancel" \in Env
    /\ pc[r] \in Handling \ {"verdict"}
    /\ Goto(r, "gone")
    /\ fetched' = [fetched EXCEPT ![r] = None]
    /\ UNCHANGED <<redisVars, handlerVars, acct, answer, observed, holds, taskVars, usage,
                   up, snap, stickyVars>>

\* A replica stops with its handlers and tasks, and comes back with a new snapshot.
Crash(p) ==
    LET mine == {r \in Requests : RepOf[r] = p /\ pc[r] # "idle"} IN
    /\ "crash" \in Env
    /\ pc' = [r \in Requests |-> IF r \in mine THEN "gone" ELSE pc[r]]
    /\ todo' = [r \in Requests |-> IF r \in mine THEN [c \in Counters |-> 0] ELSE todo[r]]
    /\ wipe' = [r \in Requests |-> IF r \in mine THEN [c \in Counters |-> 0] ELSE wipe[r]]
    /\ linger' = [r \in Requests |-> r \notin mine /\ linger[r]]
    /\ fetched' = [x \in Requests \cup Replicas |->
                     IF x \in mine \cup {p} THEN None ELSE fetched[x]]
    /\ snap' = [snap EXCEPT ![p] = Rows]
    /\ UNCHANGED <<redisVars, handlerVars, acct, answer, observed, holds, usage, up,
                   stickyVars>>

\* inflight_acquire fails after or before Redis has run it: 503.
AcquireKeyFails(r) ==
    /\ "redis" \in Env
    /\ pc[r] = "key"
    /\ Take(r, KeyOf[r]) \/ UNCHANGED <<redisVars, holds>>
    /\ Goto(r, "done")
    /\ answer' = [answer EXCEPT ![r] = "refused"]
    /\ UNCHANGED <<handlerVars, acct, observed, taskVars, usage, poolVars, stickyVars>>

PickFails(r, a) ==
    /\ "redis" \in Env
    /\ pc[r] = "pick" /\ a \in cand[r]
    /\ Take(r, a) \/ UNCHANGED <<redisVars, holds>>
    /\ Refuse(r)
    /\ UNCHANGED <<handlerVars, acct, poolVars, stickyVars>>

\* A spawned release fails before Redis has run it; its error is dropped.
TaskFails(r, c) ==
    /\ "redis" \in Env
    /\ todo[r][c] > 0
    /\ todo' = [todo EXCEPT ![r][c] = @ - 1]
    /\ UNCHANGED <<redisVars, pc, handlerVars, acct, answer, observed, holds, wipe, linger,
                   usage, poolVars, stickyVars>>

\* The requests that hold c, and those of them with somebody left to give it back.
Holders(c) == {r \in Requests : c \in holds[r]}
LiveHolders(c) ==
    {r \in Holders(c) : ~(pc[r] = "gone" \/ (pc[r] = "done" /\ todo[r][c] = 0))}

\* Time passes in Redis.  A request is over long before the TTL it armed, unless "slow".
Tick ==
    /\ \E c \in Counters : ttl[c] > 0
    /\ \A c \in Expiring : "slow" \in Env \/ LiveHolders(c) = {}
    /\ PassTime
    /\ UNCHANGED <<pc, handlerVars, acct, answer, observed, holds, taskVars, usage,
                   poolVars, stickyVars>>

\* The identity of a finished request is used for a new one.
Recycle(r) ==
    /\ Recycling
    /\ pc[r] = "done" /\ Quiet(r) /\ ~linger[r] /\ holds[r] = {}
    /\ \A q \in Requests : tok[q] \notin Kinds \X {r}
    /\ Goto(r, "idle")
    /\ acc' = [acc EXCEPT ![r] = TRUE]
    /\ tok' = [tok EXCEPT ![r] = None]
    /\ pinned' = [pinned EXCEPT ![r] = None]
    /\ excluded' = [excluded EXCEPT ![r] = {}]
    /\ cand' = [cand EXCEPT ![r] = {}]
    /\ acct' = [acct EXCEPT ![r] = None]
    /\ retry' = [retry EXCEPT ![r] = FALSE]
    /\ answer' = [answer EXCEPT ![r] = "none"]
    /\ observed' = [observed EXCEPT ![r] = FALSE]
    /\ usage' = [usage EXCEPT ![r] = 0]
    /\ sticky' = [t \in Tokens |-> IF t[2] = r THEN None ELSE sticky[t]]
    /\ issued' = [t \in Tokens |-> IF t[2] = r THEN None ELSE issued[t]]
    /\ UNCHANGED <<redisVars, holds, taskVars, poolVars>>
-----------------------------------------------------------------------------
Handler(r) ==
    \/ AcquireKey(r) \/ KeyOver(r) \/ KeyDel(r) \/ ReadBody(r) \/ LookupPin(r)
    \/ SelectAny(r) \/ SelectPinned(r) \/ SelectCandidates(r)
    \/ \E a \in Accounts : PickAccount(r, a)
    \/ OutOfCandidates(r) \/ Over(r) \/ OverDel(r)
    \/ Send(r) \/ SendFailed(r) \/ FailedDel(r)
    \/ MarkUnhealthy(r) \/ Fetch(r) \/ Publish(r) \/ Verdict(r)
    \/ Relay(r) \/ StreamEnd(r) \/ DropObserver(r)

Tasks(r) ==
    \/ \E c \in Counters : TaskDecr(r, c) \/ TaskDel(r, c)
    \/ StoreResponseId(r)

RedisFails(r) ==
    \/ AcquireKeyFails(r)
    \/ \E a \in Accounts : PickFails(r, a)
    \/ \E c \in Counters : TaskFails(r, c)

Next ==
    \/ \E r \in Requests : Arrive(r) \/ Handler(r) \/ Tasks(r)
    \/ \E r \in Requests : RedisFails(r) \/ Cancel(r) \/ Recycle(r)
    \/ \E p \in Replicas : LoopFetch(p) \/ LoopPublish(p) \/ Crash(p)
    \/ \E a \in Accounts : StatusChange(a)
    \/ Tick

Spec == Init /\ [][Next]_vars

(***************************************************************************)
(* Tokio keeps polling a handler and a task that can go on; the upstream   *)
(* answers or times out, and so does the body; clocks advance.             *)
(***************************************************************************)
Fairness ==
    /\ \A r \in Requests : WF_vars(Handler(r)) /\ WF_vars(Tasks(r))
    /\ SF_vars(Tick)

FairSpec == Spec /\ Fairness
-----------------------------------------------------------------------------
(* Properties. *)

\* A counter never shows more than the slots that are really held: a limit is
\* never enforced for a request that has given its slot back (cache.rs:34-58).
NoPhantomSlots == \A c \in Counters : counter[c] <= Cardinality(Holders(c))

\* The requests the account is serving that were admitted under its cap.
CappedTurns(a) ==
    {r \in Requests : /\ acct[r] = a /\ acc[r] /\ pinned[r] = None
                      /\ pc[r] \in {"send", "failed", "relay", "stream"}
                      /\ a \in holds[r]}

\* max_concurrency is exceeded by at most the slots Redis has lost count of
\* (gateway.rs:188-204): with an exact counter the cap is a cap.
CapUpToLostSlots ==
    \A a \in Accounts :
        Cardinality(CappedTurns(a)) <= Limit[a] + Cardinality(Holders(a)) - counter[a]

\* The requests in progress that passed the key's limit.
CappedCalls(k) ==
    {r \in Requests : /\ KeyOf[r] = k /\ k \in holds[r]
                      /\ pc[r] \in (Handling \ {"key", "keyOver"}) \cup {"stream"}}

\* Likewise for the key's max_concurrency (gateway.rs:244-264).
KeyCapUpToLostSlots ==
    \A k \in Limited :
        Cardinality(CappedCalls(k)) <= Limit[k] + Cardinality(Holders(k)) - counter[k]

\* Only a DEL or an expiry makes a counter drift from the slots held; every other
\* step moves both together (cache.rs:34-58, gateway.rs:518-551).
DriftsOnlyWhenDeleted ==
    [][\A c \in Counters :
         counter'[c] - Cardinality(Holders(c)') # counter[c] - Cardinality(Holders(c))
           => counter'[c] = 0]_vars

\* Whatever way the handler ended, nothing is held once its tasks are through
\* (the early returns and the retry loop of gateway.rs:220-418).
SlotsReturned == \A r \in Requests : pc[r] = "done" /\ Quiet(r) => holds[r] = {}

\* A relayed or unreachable request is recorded once, a refused one never
\* (gateway.rs:356-373, 518-575).
RecordedOnce ==
    \A r \in Requests :
        pc[r] = "done" =>
            usage[r] = IF answer[r] \in {"relayed", "unreachable"} THEN 1 ELSE 0

\* At most three accounts, none of them twice, and a pinned conversation only on
\* its own (gateway.rs:314-376).
RetryDiscipline ==
    \A r \in Requests :
        /\ Cardinality(excluded[r]) <= MaxTries
        /\ pc[r] \in {"send", "relay"} =>
              /\ acct[r] \notin excluded[r]
              /\ Cardinality(excluded[r]) < MaxTries
              /\ pinned[r] \in {None, acct[r]}

\* A request is refused for its key's limit only while that many others hold a
\* slot of the key (gateway.rs:250-257).
RefusedOnlyWhenFull ==
    [][\A r \in Requests :
         pc[r] = "key" /\ pc'[r] = "keyOver"
           => Cardinality(Holders(KeyOf[r])) >= Limit[KeyOf[r]]]_vars

\* A request that carries a token its client was given is sent to the account
\* that issued it, or refused.
PinnedToIssuer(kind) ==
    \A r \in Requests :
        tok[r] # None /\ tok[r][1] = kind /\ acc[r] /\ pc[r] \in {"send", "relay", "stream"}
            => acct[r] = issued[tok[r]]

\* x-asxs-session pins: stored before the response is sent (gateway.rs:385-395).
SessionPinned == PinnedToIssuer("sess")

\* README.md: "Response ids ... pin follow-up requests to the same account".
ResponsePinned == PinnedToIssuer("resp")

\* README.md: "Account max_concurrency caps concurrent turns on that instance".
TurnsWithinCap == \A a \in Accounts : Cardinality(CappedTurns(a)) <= Limit[a]

\* Every request that is let in ends, and has then given back what it took:
\* neither the candidate loop nor the retry loop can go on for ever, and no
\* early return of the handler forgets a slot (gateway.rs:182-210, 318-376).
RequestsSettle ==
    \A r \in Requests : pc[r] \in Handling ~> pc[r] = "done" /\ holds[r] = {}

\* The slot of a request that died with its replica is still counted.
LostSlot(c) ==
    /\ \E r \in Requests : pc[r] = "gone" /\ c \in holds[r]
    /\ counter[c] > Cardinality(LiveHolders(c))

\* cache.rs:32-33: "The key expires on its own so a crashed replica cannot pin
\* a slot forever."
LostSlotExpires == \A c \in Counters : LostSlot(c) ~> ~LostSlot(c)
=============================================================================
