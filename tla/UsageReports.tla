----------------------------- MODULE UsageReports -----------------------------
(***************************************************************************)
(* What the usage dialog and the pages beside it compute from what the     *)
(* server sends: the split of the official settlement over clients and     *)
(* models, the estimate of an account's quota, the health bar, the shares, *)
(* and the pages of a list.  Pure functions of their input; the properties *)
(* quantify over the inputs of an instance.                                *)
(*                                                                         *)
(* Money is in credits: dividing all of it by the same credits-per-dollar  *)
(* changes no sum and no bound.  A share is a multiple of 1/Whole, and the *)
(* instances take percentages whose sum divides Whole.                     *)
(***************************************************************************)
EXTENDS Integers, Sequences, FiniteSets, FiniteSetsExt

CONSTANTS
    Settlements,  \* sequences of days of official usage
    HealthInputs, \* [buckets, count, size, now]
    Cycles,       \* [days, reset, hours, fetched, now]: settled days and a probed window
    Allowances,   \* true quotas of a cycle, in credits
    Lengths,      \* lengths of a list
    PageSizes,    \* rows of a page
    Whole         \* the shares of a day together: a share is a multiple of 1/Whole

\* The shapes the panel declares.
OfficialDay ==
    [day : Nat, credits : Nat, clients : Seq([client : STRING, credits : Nat, turns : Nat]),
     shares : Seq([model : STRING, speed : STRING, percent : Int]), models : Seq([model : STRING, turns : Nat])]

HealthBucket == [at : Nat, success : Nat, failed : Nat]

ASSUME ReportsTyped ==
    /\ Settlements \subseteq Seq(OfficialDay)
    /\ \A c \in Cycles :
          /\ c.days \in Seq([day : Nat, credits : Nat])
          /\ c.reset \in Int /\ c.hours \in Int /\ c.fetched \in Int /\ c.now \in Int
    /\ Allowances \subseteq Nat \ {0}
    /\ \A h \in HealthInputs :
          h.buckets \in Seq(HealthBucket) /\ h.count \in Nat \ {0} /\ h.size \in Nat \ {0} /\ h.now \in Int
    /\ Lengths \subseteq Nat
    /\ PageSizes \subseteq Nat \ {0}

SumOver(S, f(_)) == SumFunction([x \in S |-> f(x)])
Total(s, f(_))   == SumOver(DOMAIN s, LAMBDA i : f(s[i]))

-----------------------------------------------------------------------------
(***************************************************************************)
(* usage/OfficialTab.tsx: a day is [day, credits, clients, shares, models] *)
(* with sequences of [client, credits, turns], [model, speed, percent] and *)
(* [model, turns].                                                         *)
(***************************************************************************)
totals(days) == Total(days, LAMBDA d : d.credits)

Clients(days) ==
    UNION {{days[k].clients[i].client : i \in DOMAIN days[k].clients} : k \in DOMAIN days}

\* One row per client, over all days.
aggregateClients(days) ==
    {[client  |-> c,
      credits |-> Total(days, LAMBDA d : Total(d.clients, LAMBDA e : IF e.client = c THEN e.credits ELSE 0)),
      turns   |-> Total(days, LAMBDA d : Total(d.clients, LAMBDA e : IF e.client = c THEN e.turns ELSE 0))]
       : c \in Clients(days)}

withBreakdown(days) == RestrictValues(days, LAMBDA d : d.shares # <<>>)

Positive(n) == IF n > 0 THEN n ELSE 0

\* Slip: the percentages of a day are taken to add up to a whole.
shareUnscaled(d, row) ==
    Total(d.shares, LAMBDA m : IF <<m.model, m.speed>> = row THEN Positive(m.percent) ELSE 0)

\* The part of a day's credits that a row <<model, speed>> has.
share(d, row) ==
    LET total == Total(d.shares, LAMBDA m : Positive(m.percent))
        mine  == Total(d.shares, LAMBDA m : IF <<m.model, m.speed>> = row THEN Positive(m.percent) ELSE 0)
    IN  IF total > 0 THEN mine * (Whole \div total) ELSE 0

Costed(days) ==
    UNION {{<<d.shares[i].model, d.shares[i].speed>> : i \in {j \in DOMAIN d.shares : d.shares[j].percent > 0}}
             : d \in {days[k] : k \in DOMAIN days}}

ModelTurns(days, model) ==
    Total(days, LAMBDA d : Total(d.models, LAMBDA m : IF m.model = model THEN m.turns ELSE 0))

Named(days) ==
    UNION {{d.models[i].model : i \in DOMAIN d.models} : d \in {days[k] : k \in DOMAIN days}}

\* The row a model's turns are counted on: its standard one, else another of its
\* rows, else a row of its own without cost.
TurnsRow(days, model) ==
    LET rows == {r \in Costed(days) : r[1] = model}
    IN  IF <<model, "standard">> \in rows \/ rows = {} THEN <<model, "standard">>
        ELSE CHOOSE r \in rows : TRUE

\* Turns are not split by speed; credits are, by the day's shares.
aggregateModels(days) ==
    LET split == withBreakdown(days)
        rows  == Costed(split) \cup {TurnsRow(split, m) : m \in Named(split)}
    IN  IF DOMAIN split = {}
        THEN {[row |-> <<m, "standard">>, credits |-> 0, share |-> 0, turns |-> ModelTurns(days, m)]
                : m \in Named(days)}
        ELSE {[row     |-> r,
               credits |-> Total(split, LAMBDA d : (share(d, r) * d.credits) \div Whole),
               share   |-> Total(split, LAMBDA d : share(d, r)),
               turns   |-> IF r[1] \in Named(split) /\ TurnsRow(split, r[1]) = r
                           THEN ModelTurns(split, r[1]) ELSE 0]
                : r \in rows}

\* What the table of the models shows beside the turns.
costMode(days) ==
    IF DOMAIN withBreakdown(days) = {} THEN "none"
    ELSE IF \E r \in aggregateModels(days) : r.credits > 0 THEN "usd" ELSE "share"

\* The daily trend, the newest day first, as a percentage of the highest day.
dailyBars(days) ==
    LET most == Max({0} \cup {days[i].credits : i \in DOMAIN days})
    IN  [i \in DOMAIN days |->
           IF most = 0 THEN 0 ELSE Max({2, (100 * days[Len(days) + 1 - i].credits) \div most})]

-----------------------------------------------------------------------------
(***************************************************************************)
(* lib/health.ts: the last count buckets of size, the one of now included. *)
(***************************************************************************)
Floor(t, size) == (t \div size) * size

buildBlocks(buckets, count, size, now) ==
    LET end == Floor(now, size) + size
        In(start, f(_)) == Total(buckets, LAMBDA b : IF Floor(b.at, size) = start THEN f(b) ELSE 0)
    IN  [i \in 1..count |->
           LET start == end - (count - i + 1) * size
           IN  [start   |-> start,
                success |-> In(start, LAMBDA b : b.success),
                failed  |-> In(start, LAMBDA b : b.failed)]]

\* The rate of the whole bar, in percent; none without requests.
rate(blocks) ==
    LET success == Total(blocks, LAMBDA b : b.success)
        total   == success + Total(blocks, LAMBDA b : b.failed)
    IN  IF total = 0 THEN {} ELSE {(100 * success) \div total}

-----------------------------------------------------------------------------
(***************************************************************************)
(* lib/quota.ts: the used percentage is a whole number, the days are whole *)
(* days, and the cycle may begin within one.  Times are in hours.          *)
(***************************************************************************)
HoursADay == 24

\* Slip: only the days that begin in the cycle.
inCycleWhole(days, start) == RestrictValues(days, LAMBDA d : d.day * HoursADay >= start)

\* The settled days of the cycle: those that do not end before it starts.
inCycle(days, start) == RestrictValues(days, LAMBDA d : d.day >= start \div HoursADay)

\* The reason why there is no estimate, or the bounds used / (pct + 1/2)% and
\* used / (pct - 1/2)%, as <<numerator, denominator>>.
cycleEstimate(quota, percent, now) ==
    LET used == Total(inCycle(quota.days, quota.reset - quota.hours), LAMBDA d : d.credits)
    IN  CASE now - quota.fetched > 6 -> [reason |-> "window_stale"]
          [] now - quota.fetched <= 6 /\ used <= 0 -> [reason |-> "no_credits"]
          [] now - quota.fetched <= 6 /\ used > 0 /\ percent < 1 -> [reason |-> "percent_too_low"]
          [] OTHER -> [reason |-> "none",
                       low    |-> <<200 * used, 2 * percent + 1>>,
                       high   |-> <<200 * used, 2 * percent - 1>>]

-----------------------------------------------------------------------------
(***************************************************************************)
(* components/ui/pagination.tsx.                                           *)
(***************************************************************************)
AtLeast(a, b) == IF a >= b THEN a ELSE b
AtMost(a, b)  == IF a <= b THEN a ELSE b

pageCount(total, size) == AtLeast((total + size - 1) \div size, 1)

clampPage(n, count) == AtMost(AtLeast(n, 1), AtLeast(count, 1))

\* What the pagination says is shown, and where its buttons lead ({}: off).
Pagination(n, size, total) ==
    LET count   == pageCount(total, size)
        current == clampPage(n, count)
    IN  [start |-> IF total = 0 THEN 0 ELSE (current - 1) * size + 1,
         end   |-> AtMost(current * size, total),
         prev  |-> IF current <= 1 THEN {} ELSE {current - 1},
         next  |-> IF current >= count THEN {} ELSE {current + 1}]

-----------------------------------------------------------------------------
(* Properties. *)

\* The unit of the shares is fine enough: no day leaves a remainder.
ASSUME WholeDivides ==
    /\ Whole \in Nat \ {0}
    /\ \A days \in Settlements : \A k \in DOMAIN days :
          LET total == Total(days[k].shares, LAMBDA m : Positive(m.percent))
          IN  total > 0 => Whole % total = 0 /\ days[k].credits % Whole = 0

\* The days that have a breakdown, and of those the ones whose credits it splits.
Shared(days) ==
    RestrictValues(withBreakdown(days), LAMBDA d : \E i \in DOMAIN d.shares : d.shares[i].percent > 0)

SplitAddsUp(days) ==
    LET models  == aggregateModels(days)
        clients == aggregateClients(days)
        Of(s)   == Total(s, LAMBDA d : Total(d.models, LAMBDA m : m.turns))
    IN  /\ SumOver(models, LAMBDA r : r.credits) = totals(Shared(days))
        /\ SumOver(models, LAMBDA r : r.share) = Whole * Cardinality(DOMAIN Shared(days))
        /\ SumOver(models, LAMBDA r : r.turns)
             = Of(IF DOMAIN withBreakdown(days) = {} THEN days ELSE withBreakdown(days))
        /\ SumOver(clients, LAMBDA r : r.credits)
             = Total(days, LAMBDA d : Total(d.clients, LAMBDA c : c.credits))
        \* No cost is hidden, and the longest bar is full.
        /\ CASE costMode(days) = "usd"   -> totals(Shared(days)) > 0
             [] costMode(days) = "share" -> totals(Shared(days)) = 0
             [] costMode(days) = "none"  -> DOMAIN Shared(days) = {}
        /\ totals(days) > 0 <=> \E i \in DOMAIN days : dailyBars(days)[i] = 100

\* The bar is without a gap, ends with the bucket of now, and counts every request
\* since its start once.
BarAddsUp(h) ==
    LET blocks == buildBlocks(h.buckets, h.count, h.size, h.now)
        first  == blocks[1].start
    IN  /\ \A i \in 2..h.count : blocks[i].start = blocks[i - 1].start + h.size
        /\ h.now \in blocks[h.count].start .. blocks[h.count].start + h.size - 1
        /\ Total(blocks, LAMBDA b : b.success + b.failed)
             = Total(h.buckets, LAMBDA b : IF b.at >= first /\ b.at < first + h.count * h.size
                                           THEN b.success + b.failed ELSE 0)
        /\ \A r \in rate(blocks) : r \in 0..100

PageRows(n, size, total) ==
    LET p == Pagination(n, size, total) IN IF total = 0 THEN {} ELSE p.start..p.end

\* Going from page to page shows every row once, also from a page beyond the end.
PagesAddUp(total) ==
    \A size \in PageSizes :
        LET count  == pageCount(total, size)
            rows   == [n \in 1..count |-> PageRows(n, size, total)]
        IN  /\ UNION {rows[n] : n \in 1..count} = 1..total
            /\ \A n, m \in 1..count : n # m => rows[n] \cap rows[m] = {}
            /\ \A n \in 0..(count + 2) :
                  LET p == Pagination(n, size, total)
                  IN  /\ p.next = {} <=> p.end = total
                      /\ p.prev = {} <=> p.start <= 1
                      /\ p.prev \cup p.next \subseteq 1..count

SplitsAddUp == \A days \in Settlements : SplitAddsUp(days)
BarsAddUp   == \A h \in HealthInputs : BarAddsUp(h)
ListsAddUp  == \A total \in Lengths : PagesAddUp(total)

\* What upstream reports of a use: a whole percentage, rounded.
Percent(used, allowance) == (200 * used + allowance) \div (2 * allowance)

\* What was really used of the cycle.
Used(c) == Total(c.days, LAMBDA d : IF (d.day + 1) * HoursADay > c.reset - c.hours THEN d.credits ELSE 0)

Estimated(c, allowance) == cycleEstimate(c, Percent(Used(c), allowance), c.now)

BoundsHold ==
    \A c \in Cycles, allowance \in Allowances :
        LET e == Estimated(c, allowance)
        IN  e.reason = "none" => /\ e.low[1] <= allowance * e.low[2]
                                 /\ allowance * e.high[2] <= e.high[1]

BoundsGiven ==
    \A c \in Cycles, allowance \in Allowances :
        Estimated(c, allowance).reason = "none"
            <=> c.now - c.fetched <= 6 /\ Percent(Used(c), allowance) >= 1

BoundsSound == BoundsHold /\ BoundsGiven
=============================================================================
