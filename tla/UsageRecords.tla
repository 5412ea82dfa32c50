------------------------------ MODULE UsageRecords ------------------------------
(***************************************************************************)
(* What the server makes of its usage_events for the panel (src/src/db/    *)
(* account_usage.rs, db.rs), in the shapes the panel declares              *)
(* (api/usage.ts): one account's totals and their splits, the list of its  *)
(* requests, the buckets of its health bar, the counters of the accounts   *)
(* page and the two tables of the usage page.                              *)
(*                                                                         *)
(* An optional value is {} or a singleton.  Times are minutes, a history   *)
(* is [events, now, offset] with the offset of the operator's time zone.   *)
(* Averages and percentiles are rounded down, costs are whole numbers.     *)
(***************************************************************************)
EXTENDS UsageReports, SequencesExt

CONSTANTS
    Histories,  \* what may have been recorded
    Owners,     \* accounts, models, keys and paths that events name:
    Models,     \* sets of singletons, {} for none
    Keys,
    Paths

Optional(S) == {{}} \cup {{s} : s \in S}
Known(x)    == x # {}
Count(S)    == Cardinality(S)

Hour == 60
Day  == 24 * Hour

UsageEvent ==
    [id : Nat, ts : Nat, account : Optional(Owners), key : Optional(Keys), model : Optional(Models),
     path : Paths, stream : BOOLEAN, status : 200..599, error : Optional({"failed", "client disconnected"}),
     latency : Nat, ttft : SUBSET Nat, input : Nat, output : Nat, cached : Nat, reasoning : Nat, cost : Nat]

ASSUME HistoriesTyped ==
    \A h \in Histories : /\ h.events \subseteq UsageEvent /\ IsFiniteSet(h.events) /\ h.now \in Nat
                         /\ \A e \in h.events : e.ts <= h.now /\ e.cached <= e.input /\ Count(e.ttft) <= 1

-----------------------------------------------------------------------------
(***************************************************************************)
(* The shapes the panel declares.                                          *)
(***************************************************************************)
OptionalNat == {S \in SUBSET Nat : Count(S) <= 1}

UsageTotals ==
    [requests : Nat, success : Nat, errors : Nat, client_aborts : Nat, cached_hits : Nat,
     input_tokens : Nat, output_tokens : Nat, cached_tokens : Nat, reasoning_tokens : Nat, cost_usd : Nat,
     avg_latency_ms : Nat, p50_latency_ms : Nat, p95_latency_ms : Nat, avg_ttft_ms : OptionalNat,
     p50_ttft_ms : OptionalNat, streams : Nat, first_ts : OptionalNat, last_ts : OptionalNat]

DayStat ==
    [day : Nat, requests : Nat, errors : Nat, input_tokens : Nat, output_tokens : Nat, cached_tokens : Nat,
     reasoning_tokens : Nat, cost_usd : Nat, avg_latency_ms : Nat]

HourStat ==
    [hour : Nat, requests : Nat, errors : Nat, input_tokens : Nat, output_tokens : Nat, cost_usd : Nat]

ModelStat ==
    [model : Optional(Models), requests : Nat, errors : Nat, input_tokens : Nat, output_tokens : Nat,
     cached_tokens : Nat, reasoning_tokens : Nat, cost_usd : Nat, avg_latency_ms : Nat,
     avg_ttft_ms : OptionalNat, last_ts : OptionalNat]

KeyStat ==
    [api_key_id : Optional(Keys), name : Optional(Keys), requests : Nat, errors : Nat, input_tokens : Nat,
     output_tokens : Nat, cached_tokens : Nat, cost_usd : Nat, avg_latency_ms : Nat, last_ts : OptionalNat]

StatusStat == [status : 200..599, requests : Nat, last_error : Optional({"failed", "client disconnected"}),
               last_ts : OptionalNat]

EndpointStat == [path : Paths, stream : BOOLEAN, requests : Nat, errors : Nat, avg_latency_ms : Nat,
                 avg_ttft_ms : OptionalNat]

AccountUsage ==
    [totals : UsageTotals, by_day : Seq(DayStat), by_hour : SUBSET HourStat, by_model : SUBSET ModelStat,
     by_key : SUBSET KeyStat, by_status : SUBSET StatusStat, by_endpoint : SUBSET EndpointStat]

RequestPage == [rows : Seq(UsageEvent), total : Nat, limit : 1..500, offset : Nat]

AccountCounters ==
    [requests_7d : Nat, errors_7d : Nat, requests_24h : Nat, cost_7d : Nat, cost_5h : Nat, tokens_7d : Nat,
     last_ts : OptionalNat]

UsageBucket ==
    [key : Optional(Owners \cup Keys), requests : Nat, errors : Nat, input_tokens : Nat, output_tokens : Nat,
     cached_tokens : Nat, avg_latency_ms : Nat]

-----------------------------------------------------------------------------
(***************************************************************************)
(* The queries.                                                            *)
(***************************************************************************)
Failing(e) == e.status >= 400

Ratio(sum, n) == IF n = 0 THEN 0 ELSE sum \div n

Latest(E) == IF E = {} THEN {} ELSE {Max({e.ts : e \in E})}

\* percentile_cont(percent/100) of values, interpolated.
Percentile(values, percent) ==
    LET v  == SortSeq(values, <)
        at == (Len(v) - 1) * percent
        lo == at \div 100 + 1
    IN  IF v = <<>> THEN 0
        ELSE IF lo = Len(v) THEN v[lo]
        ELSE v[lo] + ((v[lo + 1] - v[lo]) * (at % 100)) \div 100

Column(E, f(_)) == LET s == SetToSeq(E) IN [i \in 1..Len(s) |-> f(s[i])]

Timed(E) == {e \in E : Known(e.ttft)}
Ttft(e)  == CHOOSE t \in e.ttft : TRUE

AvgTtft(E) == IF Timed(E) = {} THEN {} ELSE {Ratio(SumOver(Timed(E), Ttft), Count(Timed(E)))}

\* The columns that the groupings have in common.
Figures(E) ==
    [requests       |-> Count(E),
     errors         |-> Count({e \in E : Failing(e)}),
     input_tokens   |-> SumOver(E, LAMBDA e : e.input),
     output_tokens  |-> SumOver(E, LAMBDA e : e.output),
     cached_tokens  |-> SumOver(E, LAMBDA e : e.cached),
     avg_latency_ms |-> Ratio(SumOver(E, LAMBDA e : e.latency), Count(E))]

Cost(E)      == SumOver(E, LAMBDA e : e.cost)
Reasoning(E) == SumOver(E, LAMBDA e : e.reasoning)

\* The columns of two rows.
Beside(f, g) == [c \in DOMAIN f \cup DOMAIN g |-> IF c \in DOMAIN f THEN f[c] ELSE g[c]]

\* The figures and the cost, beside columns of their own.
Priced(E, own) == Beside(Beside(Figures(E), [cost_usd |-> Cost(E)]), own)

\* GROUP BY by, one row of each group.
Grouped(E, by(_), row(_, _)) == {row(k, {e \in E : by(e) = k}) : k \in {by(e) : e \in E}}

RangeHours == [r \in {"24h", "7d", "30d", "90d"} |->
                 CASE r = "24h" -> 24 [] r = "7d" -> 7 * 24 [] r = "30d" -> 30 * 24 [] r = "90d" -> 90 * 24]

\* The last 24 hours or days to the minute, not whole days.
scope(h, a, r) ==
    {e \in h.events : e.account = {a} /\ (r # "all" => e.ts >= h.now - RangeHours[r] * Hour)}

account_totals(E) ==
    Priced(E,
        [reasoning_tokens |-> Reasoning(E),
         success          |-> Count({e \in E : ~Failing(e)}),
         client_aborts    |-> Count({e \in E : e.error = {"client disconnected"}}),
         cached_hits      |-> Count({e \in E : e.cached > 0}),
         p50_latency_ms   |-> Percentile(Column(E, LAMBDA e : e.latency), 50),
         p95_latency_ms   |-> Percentile(Column(E, LAMBDA e : e.latency), 95),
         avg_ttft_ms      |-> AvgTtft(E),
         p50_ttft_ms      |-> IF Timed(E) = {} THEN {} ELSE {Percentile(Column(Timed(E), Ttft), 50)},
         streams          |-> Count({e \in E : e.stream}),
         first_ts         |-> IF E = {} THEN {} ELSE {Min({e.ts : e \in E})},
         last_ts          |-> Latest(E)])

DayOf(h, ts) == (ts + h.offset) \div Day

account_by_day(h, E) ==
    SetToSortSeq(Grouped(E, LAMBDA e : DayOf(h, e.ts),
                         LAMBDA d, G : Priced(G, [day |-> d, reasoning_tokens |-> Reasoning(G)])),
                 LAMBDA x, y : x.day < y.day)

\* Of the last 48 hours, whatever the range.
account_by_hour(h, a) ==
    Grouped({e \in h.events : e.account = {a} /\ e.ts >= h.now - 48 * Hour}, LAMBDA e : e.ts \div Hour,
            LAMBDA t, G : LET f == Priced(G, [hour |-> t])
                          IN [k \in DOMAIN f \ {"cached_tokens", "avg_latency_ms"} |-> f[k]])

account_by_model(E) ==
    Grouped(E, LAMBDA e : e.model,
            LAMBDA m, G : Priced(G, [model |-> m, reasoning_tokens |-> Reasoning(G), avg_ttft_ms |-> AvgTtft(G),
                                     last_ts |-> Latest(G)]))

\* Slip: an inner join with the keys.
account_by_keyJoined(E) ==
    Grouped({e \in E : Known(e.key)}, LAMBDA e : e.key,
            LAMBDA k, G : Priced(G, [api_key_id |-> k, name |-> k, last_ts |-> Latest(G)]))

\* A key that was deleted is no more: its events have none.
account_by_key(E) ==
    Grouped(E, LAMBDA e : e.key,
            LAMBDA k, G : Priced(G, [api_key_id |-> k, name |-> k, last_ts |-> Latest(G)]))

account_by_status(E) ==
    Grouped(E, LAMBDA e : e.status,
            LAMBDA s, G : LET told == {e \in G : Known(e.error)}
                          IN [status |-> s, requests |-> Count(G), last_ts |-> Latest(G),
                              last_error |-> IF told = {} THEN {}
                                             ELSE (CHOOSE e \in told : \A f \in told : e.ts >= f.ts).error])

account_by_endpoint(E) ==
    Grouped(E, LAMBDA e : <<e.path, e.stream>>,
            LAMBDA p, G : [path |-> p[1], stream |-> p[2], requests |-> Count(G),
                           errors |-> Count({e \in G : Failing(e)}), avg_ttft_ms |-> AvgTtft(G),
                           avg_latency_ms |-> Figures(G).avg_latency_ms])

\* The queries of the answer run side by side, each on its own snapshot of the table: this is
\* the answer when nothing is recorded between them.
account_usage(h, a, r) ==
    LET E == scope(h, a, r)
    IN  [totals |-> account_totals(E), by_day |-> account_by_day(h, E), by_hour |-> account_by_hour(h, a),
         by_model |-> account_by_model(E), by_key |-> account_by_key(E),
         by_status |-> account_by_status(E), by_endpoint |-> account_by_endpoint(E)]

\* The newest first.
account_recent(h, a, r, model, failuresOnly, limit, offset) ==
    LET E == {e \in scope(h, a, r) : (Known(model) => e.model = model) /\ (failuresOnly => Failing(e))}
        s == SetToSortSeq(E, LAMBDA x, y : x.id > y.id)
    IN  [rows |-> SubSeq(s, offset + 1, AtMost(offset + limit, Len(s))), total |-> Len(s),
         limit |-> limit, offset |-> offset]

health_buckets(h, a, size, count) ==
    SetToSeq(Grouped({e \in h.events : e.account = {a} /\ e.ts >= h.now - size * count},
                     LAMBDA e : Floor(e.ts, size),
                     LAMBDA t, G : [at |-> t, success |-> Count({e \in G : ~Failing(e)}),
                                    failed |-> Count({e \in G : Failing(e)})]))

account_counters(h, a) ==
    LET E == scope(h, a, "7d")
    IN  [requests_7d  |-> Count(E), errors_7d |-> Count({e \in E : Failing(e)}),
         requests_24h |-> Count({e \in E : e.ts >= h.now - Day}),
         cost_7d      |-> Cost(E),
         cost_5h      |-> Cost({e \in E : e.ts >= h.now - 5 * Hour}),
         tokens_7d    |-> SumOver(E, LAMBDA e : e.input + e.output),
         last_ts      |-> Latest(E)]

usage_summary(h, hours) ==
    LET E     == {e \in h.events : e.ts > h.now - hours * Hour}
        R(k, G) == Beside(Figures(G), [key |-> k])
    IN  [by_key |-> Grouped(E, LAMBDA e : e.key, R), by_account |-> Grouped(E, LAMBDA e : e.account, R)]
=============================================================================
