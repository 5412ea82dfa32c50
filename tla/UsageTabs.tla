------------------------------- MODULE UsageTabs -------------------------------
(***************************************************************************)
(* What the tabs of the usage dialog, the accounts list and the pages of   *)
(* usage and overview show of the server's answers.  Every figure is given *)
(* as it is before it is formatted; a percentage is rounded down.          *)
(***************************************************************************)
EXTENDS UsageRecords

CONSTANT Pools   \* what the overview page may be sent: sequences of accounts

ASSUME PoolsTyped ==
    Pools \subseteq Seq([status : STRING, enabled : BOOLEAN, inflight : Nat, max : Nat])

UsageRange == {"24h", "7d", "30d", "90d", "all"}

rangeDays(r) == IF r = "all" THEN 0 ELSE RangeHours[r] \div 24

Share(value, total) == IF total > 0 THEN AtMost(100, AtLeast(0, (100 * value) \div total)) ELSE 0

-----------------------------------------------------------------------------
(***************************************************************************)
(* usage/OverviewTab.tsx.                                                  *)
(***************************************************************************)
EmptyDay == [day |-> 0, requests |-> 0, errors |-> 0, input_tokens |-> 0, output_tokens |-> 0,
             cached_tokens |-> 0, reasoning_tokens |-> 0, cost_usd |-> 0, avg_latency_ms |-> 0]

ActiveDays(data) == Count({i \in DOMAIN data.by_day : data.by_day[i].requests > 0})

\* What an average per day is divided by.
divisor(data, r) == IF rangeDays(r) > 0 THEN rangeDays(r) ELSE AtLeast(1, ActiveDays(data))

\* The first of the days with most of it; no day if there is none of it.
Highest(days, f(_)) ==
    LET best == {i \in DOMAIN days : f(days[i]) > 0 /\ \A j \in DOMAIN days : f(days[j]) <= f(days[i])}
    IN  IF best = {} THEN EmptyDay ELSE days[Min(best)]

\* The bars of the trend are as high as the costs, as the requests if nothing cost.
UsageTrend(days) ==
    LET shown == SubSeq(days, AtLeast(1, Len(days) - 59), Len(days))
        cost  == Max({0} \cup {shown[i].cost_usd : i \in DOMAIN shown})
        most  == Max({0} \cup {shown[i].requests : i \in DOMAIN shown})
    IN  [i \in DOMAIN shown |->
           AtLeast(8, IF cost > 0 THEN (100 * shown[i].cost_usd) \div cost
                      ELSE (100 * shown[i].requests) \div AtLeast(most, 1))]

OverviewTab(data, r, today) ==
    LET days == data.by_day
        now  == {i \in DOMAIN days : days[i].day = today}
    IN  [today       |-> IF now = {} THEN EmptyDay ELSE days[Min(now)],
         perDay      |-> [cost     |-> data.totals.cost_usd \div divisor(data, r),
                          requests |-> data.totals.requests \div divisor(data, r)],
         active      |-> <<ActiveDays(data), rangeDays(r)>>,
         highestCost |-> Highest(days, LAMBDA d : d.cost_usd),
         highestReq  |-> Highest(days, LAMBDA d : d.requests),
         topModel    |-> {m \in data.by_model : \A n \in data.by_model : n.requests <= m.requests},
         trend       |-> UsageTrend(days)]

-----------------------------------------------------------------------------
(***************************************************************************)
(* usage/DetailTab.tsx: the models and the keys, most of the chosen metric *)
(* first, and the parts of the tokens.                                     *)
(***************************************************************************)
MetricKeys == {"requests", "tokens", "cost"}

metricValue(m, metric) ==
    CASE metric = "tokens" -> m.input_tokens + m.output_tokens
      [] metric = "cost"   -> m.cost_usd
      [] OTHER             -> m.requests

Ranked(rows, metric) ==
    SetToSortSeq(rows, LAMBDA a, b :
        \/ metricValue(a, metric) > metricValue(b, metric)
        \/ metricValue(a, metric) = metricValue(b, metric) /\ a.requests > b.requests)

\* The rows with their values, of which the pie is made, and their bars.
ShareRows(rows, metric) ==
    LET s     == Ranked(rows, metric)
        total == Total(s, LAMBDA m : metricValue(m, metric))
    IN  [rows   |-> s,
         total  |-> total,
         values |-> [i \in DOMAIN s |-> metricValue(s[i], metric)],
         bars   |-> [i \in DOMAIN s |-> Share(metricValue(s[i], metric), total)]]

TokenBars(t) ==
    LET all == t.input_tokens + t.output_tokens
    IN  [input  |-> Share(t.input_tokens, all), output |-> Share(t.output_tokens, all),
         reason |-> Share(t.reasoning_tokens, all), cached |-> Share(t.cached_tokens, all)]

DetailTab(data, r, modelMetric, keyMetric) ==
    [models  |-> ShareRows(data.by_model, modelMetric),
     keys    |-> ShareRows(data.by_key, keyMetric),
     tokens  |-> TokenBars(data.totals),
     active  |-> <<ActiveDays(data), rangeDays(r)>>,
     perDay  |-> (data.totals.input_tokens + data.totals.output_tokens) \div divisor(data, r),
     hitRate |-> IF data.totals.requests > 0 THEN (100 * data.totals.cached_hits) \div data.totals.requests ELSE 0]

-----------------------------------------------------------------------------
(***************************************************************************)
(* usage/QualityTab.tsx.                                                   *)
(***************************************************************************)
Tone(value, danger, warning) ==
    IF value >= danger THEN "danger" ELSE IF value >= warning THEN "warning" ELSE "good"

QualityTab(data) ==
    LET t     == data.totals
        Of(n) == IF t.requests > 0 THEN (100 * n) \div t.requests ELSE 0
        ttft  == IF Known(t.avg_ttft_ms) THEN CHOOSE x \in t.avg_ttft_ms : TRUE ELSE 0
    IN  [errorRate  |-> Of(t.errors), abortRate |-> Of(t.client_aborts), streamRate |-> Of(t.streams),
         cacheRate  |-> Of(t.cached_hits), errorTone |-> Tone(Of(t.errors), 10, 3),
         ttftTone   |-> Tone(ttft, 5000, 2000), p95Tone |-> Tone(t.p95_latency_ms, 30000, 10000),
         abortTone  |-> IF t.client_aborts > 0 THEN "warning" ELSE "good",
         cacheTone  |-> IF Of(t.cached_hits) >= 50 THEN "good" ELSE "neutral",
         byStatus   |-> {<<s.status, s.requests, s.status >= 400>> : s \in data.by_status},
         byEndpoint |-> {<<e.path, e.stream, e.requests, e.errors>> : e \in data.by_endpoint}]

-----------------------------------------------------------------------------
(***************************************************************************)
(* usage/RequestsTab.tsx: the rows of a page, limit and offset by number.  *)
(***************************************************************************)
RequestsPage(h, a, r, model, failuresOnly, number, size) ==
    account_recent(h, a, r, model, failuresOnly, size, (number - 1) * size)

-----------------------------------------------------------------------------
(***************************************************************************)
(* pages/Overview.tsx and pages/Usage.tsx.                                 *)
(***************************************************************************)
Lane(account) ==
    LET status == IF account.enabled THEN account.status ELSE "stopped"
    IN  [status |-> status,
         fill   |-> AtMost(100, (200 * account.inflight + AtLeast(1, account.max)) \div (2 * AtLeast(1, account.max))),
         tone   |-> CASE status = "running" -> "" [] status \in {"starting", "unhealthy"} -> "warn" [] OTHER -> "idle"]

Overview(accounts) ==
    [inflight |-> Total(accounts, LAMBDA a : a.inflight),
     capacity |-> Total(accounts, LAMBDA a : IF a.status = "running" THEN a.max ELSE 0),
     lanes    |-> [i \in DOMAIN accounts |-> Lane(accounts[i])]]

BucketTable(rows) == SetToSortSeq(rows, LAMBDA a, b : a.requests > b.requests)

-----------------------------------------------------------------------------
(* Properties. *)

SummedColumns == {"requests", "errors", "input_tokens", "output_tokens", "cached_tokens", "cost_usd"}

\* Split by model, key, status and path, an answer has every request, failure, token and
\* cost of its totals once.
SplitsAgree(h, a, r) ==
    LET u == account_usage(h, a, r)
    IN  /\ \A S \in {u.by_model, u.by_key}, f \in SummedColumns : SumOver(S, LAMBDA x : x[f]) = u.totals[f]
        /\ \A S \in {u.by_status, u.by_endpoint} : SumOver(S, LAMBDA x : x.requests) = u.totals.requests
        /\ u.totals.success + u.totals.errors = u.totals.requests

\* The answer has the shape the panel declares, and so do its days what its totals have.
AnswerAddsUp(h, a, r) ==
    LET u == account_usage(h, a, r)
    IN  /\ u \in AccountUsage
        /\ \A f \in SummedColumns : Total(u.by_day, LAMBDA d : d[f]) = u.totals[f]
        /\ u.totals.p50_latency_ms <= u.totals.p95_latency_ms

\* Today is the whole of today in every range; the days highest in something are; the
\* days active are no more than the range touches; the highest bar is full, none empty.
OverviewAddsUp(h, a, r) ==
    LET u == account_usage(h, a, r)
        o == OverviewTab(u, r, DayOf(h, h.now))
    IN  /\ o.today.requests = Count({e \in h.events : e.account = {a} /\ DayOf(h, e.ts) = DayOf(h, h.now)})
        /\ \A i \in DOMAIN u.by_day : /\ u.by_day[i].cost_usd <= o.highestCost.cost_usd
                                     /\ u.by_day[i].requests <= o.highestReq.requests
        /\ r # "all" => o.active[1] <= o.active[2] + 1
        /\ o.topModel = {} <=> u.totals.requests = 0
        /\ \A i \in DOMAIN o.trend : o.trend[i] \in 8..100
        /\ o.trend # <<>> => \E i \in DOMAIN o.trend : o.trend[i] = 100

\* The rows are in the order of the metric, their values add up to what is shown above
\* them and their bars to a whole but for the rounding; cached input is input.
DetailAddsUp(h, a, r, metric) ==
    LET u == account_usage(h, a, r)
        d == DetailTab(u, r, metric, metric)
    IN  /\ \A s \in {d.models, d.keys} :
              /\ \A i, j \in DOMAIN s.values : i < j => s.values[i] >= s.values[j]
              /\ s.total = metricValue(u.totals, metric)
              /\ LET bars == Total(s.bars, LAMBDA b : b)
                 IN  IF s.total = 0 THEN bars = 0 ELSE bars \in 101 - Len(s.rows) .. 100
        /\ d.tokens.cached <= d.tokens.input /\ d.tokens.input + d.tokens.output <= 100
        /\ d.hitRate \in 0..100

QualityAddsUp(h, a, r) ==
    LET u == account_usage(h, a, r)
        q == QualityTab(u)
    IN  /\ {q.errorRate, q.abortRate, q.streamRate, q.cacheRate} \subseteq 0..100
        /\ SumOver({s \in q.byStatus : s[3]}, LAMBDA s : s[2]) = u.totals.errors

\* The pages of the list of requests have every request once, the newest first.
RequestsAddUp(h, a, r) ==
    \A model \in {{}} \cup {{m} : m \in Models}, failuresOnly \in BOOLEAN, size \in 1..2 :
        LET Part(n) == RequestsPage(h, a, r, model, failuresOnly, n, size)
            all     == FlattenSeq([n \in 1..pageCount(Part(1).total, size) |-> Part(n).rows])
        IN  /\ \A n \in 1..2 : Part(n) \in RequestPage
            /\ Len(all) = Part(1).total
            /\ \A i, j \in DOMAIN all : i < j => all[i].id > all[j].id

\* What the list says of an account, its dialog says too; the health bar counts what was
\* recorded since it starts.
ListAgrees(h, a) ==
    LET c == account_counters(h, a)
        T(r) == account_totals(scope(h, a, r))
        bar  == buildBlocks(health_buckets(h, a, 10, 3), 3, 10, h.now)
        since == {e \in h.events : e.account = {a} /\ e.ts >= bar[1].start}
    IN  /\ c \in AccountCounters
        /\ c.requests_7d = T("7d").requests /\ c.errors_7d = T("7d").errors /\ c.cost_7d = T("7d").cost_usd
        /\ c.requests_24h = T("24h").requests /\ c.cost_5h <= T("24h").cost_usd
        /\ Total(bar, LAMBDA b : b.failed) = Count({e \in since : Failing(e)})
        /\ Total(bar, LAMBDA b : b.success) = Count({e \in since : ~Failing(e)})

\* The two tables of the usage page are of the same requests.
TablesAgree(h) ==
    \A hours \in {1, 24, 168, 720} :
        LET u == usage_summary(h, hours)
            Of(rows) == <<Total(BucketTable(rows), LAMBDA b : b.requests), Total(BucketTable(rows), LAMBDA b : b.errors)>>
        IN  u.by_key \cup u.by_account \subseteq UsageBucket /\ Of(u.by_key) = Of(u.by_account)

\* A lane is full exactly when the account takes no more (or rounds to it), and a running
\* account's limit is part of the capacity.
LanesHold(accounts) ==
    LET o == Overview(accounts)
    IN  \A i \in DOMAIN accounts :
            LET a == accounts[i]
            IN  /\ o.lanes[i].fill \in 0..100
                /\ a.inflight >= AtLeast(1, a.max) => o.lanes[i].fill = 100
                /\ o.lanes[i].status = "running" => o.capacity >= a.max

\* What is grouped and counted.
RecordsAddUp ==
    /\ \A h \in Histories, a \in Owners :
          /\ ListAgrees(h, a)
          /\ \A r \in UsageRange : SplitsAgree(h, a, r) /\ QualityAddsUp(h, a, r)
    /\ \A p \in Pools : LanesHold(p)

\* What is sorted, ranked and cut into pages.
TabsAddUp ==
    /\ \A h \in Histories, a \in Owners, r \in UsageRange :
          /\ AnswerAddsUp(h, a, r) /\ OverviewAddsUp(h, a, r)
          /\ \A metric \in MetricKeys : DetailAddsUp(h, a, r, metric)
          /\ RequestsAddUp(h, a, r)
    /\ \A h \in Histories : TablesAgree(h)
=============================================================================
