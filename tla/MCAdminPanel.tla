----------------------------- MODULE MCAdminPanel -----------------------------
(***************************************************************************)
(* Instances of AdminPanel for TLC.                                        *)
(***************************************************************************)
EXTENDS AdminPanel

\* Shares of one or two models and speeds; the sums of percentages are 10, 20 and 30.
Splits ==
    {<<>>,
     <<[model |-> "m", speed |-> "fast", percent |-> 10]>>,
     <<[model |-> "m", speed |-> "standard", percent |-> 20], [model |-> "m", speed |-> "fast", percent |-> 10]>>,
     <<[model |-> "m", speed |-> "fast", percent |-> 0], [model |-> "n", speed |-> "fast", percent |-> 20]>>,
     <<[model |-> "m", speed |-> "fast", percent |-> 0]>>}

Turns == {<<>>, <<[model |-> "m", turns |-> 3]>>,
          <<[model |-> "n", turns |-> 1], [model |-> "o", turns |-> 2]>>}

ClientSplits ==
    {<<>>, <<[client |-> "c", credits |-> 1, turns |-> 1], [client |-> "d", credits |-> 2, turns |-> 0]>>}

SettledDays ==
    {[day |-> 1, credits |-> 60, clients |-> c, shares |-> s, models |-> m]
       : c \in ClientSplits, s \in Splits, m \in Turns}

MCSettlements ==
    LET Unpriced == {[d EXCEPT !.credits = 0] : d \in SettledDays}
    IN  {<<>>} \cup {<<d>> : d \in SettledDays \cup Unpriced} \cup {<<d, e>> : d, e \in SettledDays}
          \cup {<<[d EXCEPT !.credits = 0], d>> : d \in SettledDays}

MCHealth ==
    {[buckets |-> b, count |-> n, size |-> 2, now |-> t] :
        b \in [1..3 -> {[at |-> a, success |-> s, failed |-> 1] : a \in 0..5, s \in {0, 2}}],
        n \in {1, 3}, t \in 5..6}

MCCycles ==
    {[days |-> <<[day |-> 0, credits |-> x], [day |-> 1, credits |-> y], [day |-> 2, credits |-> z]>>,
      reset |-> r, hours |-> 40, fetched |-> 70 - age, now |-> 70] :
        x \in {0, 5}, y \in {0, 7}, z \in {0, 1, 9}, r \in {64, 70, 90}, age \in {0, 6, 7}}

-----------------------------------------------------------------------------
(***************************************************************************)
(* Histories: up to four of seven events, at the boundaries of the ranges, *)
(* the days and the pages, with and without a key, a model, a time to the  *)
(* first token; two time zones.  Times are minutes; Now is ten hours into  *)
(* a day of the one zone and eighteen hours into that of the other.        *)
(***************************************************************************)
Now == 144000 + 600

Recorded(id, age, key, model, status, stream, input, output, cached, cost) ==
    [id |-> id, ts |-> Now - age, account |-> {"x1"}, key |-> key, model |-> model, path |-> "responses",
     stream |-> stream, status |-> status,
     error |-> IF status = 499 THEN {"client disconnected"} ELSE IF status >= 400 THEN {"failed"} ELSE {},
     latency |-> 100 * id, ttft |-> IF stream THEN {10 * id} ELSE {}, input |-> input, output |-> output,
     cached |-> cached, reasoning |-> output \div 2, cost |-> cost]

Pool ==
    {Recorded(7, 0, {"k"}, {"m"}, 200, TRUE, 10, 4, 8, 3),
     Recorded(6, 9, {"k"}, {"n"}, 499, TRUE, 0, 0, 0, 0),
     Recorded(5, 25, {}, {"m"}, 200, FALSE, 5, 5, 0, 4),
     Recorded(4, 601, {"l"}, {}, 502, FALSE, 0, 0, 0, 0),
     Recorded(3, 1440, {"l"}, {"m"}, 200, TRUE, 3, 1, 3, 1),
     Recorded(2, 7 * 1440, {"k"}, {"n"}, 200, FALSE, 1, 2, 0, 2),
     Recorded(1, 31 * 1440, {}, {"m"}, 429, TRUE, 1, 0, 0, 0)}

MCHistories ==
    {[events |-> E, now |-> Now, offset |-> o] : E \in UNION {kSubset(k, Pool) : k \in 0..4}, o \in {0, 480}}

\* Probes: each window used or not, reset ahead, past or unknown; further limits; vouchers.
Probe(ok, used, reset, used2, reset2, limits, vouchers) ==
    [quota |-> [fetched_at |-> 50, ok |-> ok, primary_used |-> used, primary_seconds |-> {300},
                primary_reset |-> reset, secondary_used |-> used2, secondary_seconds |-> {},
                secondary_reset |-> reset2, additional_limits |-> limits, reset_credits |-> vouchers,
                available |-> 1, applicable |-> 0],
     now |-> 60]

Raw(used, after, at) == [used |-> used, seconds |-> {300}, reset_after |-> after, reset_at |-> at]

Limits ==
    {<<>>, <<[name |-> "spark", primary |-> {Raw({100}, {5}, {})}, secondary |-> {}],
             [name |-> "reserve", primary |-> {Raw({7}, {5}, {90})}, secondary |-> {Raw({}, {}, {0})}]>>}

Coupon(id, type, status, until, expires) ==
    [id |-> id, type |-> type, status |-> status, consumable_until |-> until, expires_at |-> expires]

Coupons ==
    {<<>>} \cup
    {<<Coupon("a", "codex_rate_limits", s, u, {9000}), Coupon("b", t, "available", {}, e),
       Coupon("c", "codex_rate_limits", "available", {60}, {})>>
       : s \in {"available", "redeemed"}, t \in {"codex_rate_limits", "other"}, u \in {{}, {20000}},
         e \in {{}, {10140}, {10141}}}

MCProbes ==
    {Probe(ok, used, reset, used2, reset2, l, c) :
        ok \in BOOLEAN, used \in {{}, {0}, {40}, {80}, {100}, {120}}, reset \in {{}, {55}, {70}},
        used2 \in {{}, {100}}, reset2 \in {{}, {65}}, l \in Limits, c \in Coupons}
    \cup {[Probe(TRUE, {40}, {70}, {}, {}, <<>>, <<>>) EXCEPT !.quota.primary_seconds = s] :
             s \in {{}, {0}, {360}, {361}, {719}, {720}, {10080}, {43200}}}

Slots == [status : {"running", "unhealthy", "stopped"}, enabled : BOOLEAN, inflight : {0, 2, 4}, max : {0, 3}]

MCPools == {<<>>} \cup {<<a>> : a \in Slots} \cup {<<a, b>> : a, b \in Slots}
=============================================================================
