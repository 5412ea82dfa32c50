------------------------------ MODULE QuotaFigures ------------------------------
(***************************************************************************)
(* What the panel shows of the last probe of an account's quota: its       *)
(* windows in the list and in the dialog (lib/quota.ts, components/pool/   *)
(* QuotaWindows.tsx), and its vouchers (usage/ResetCredits.tsx).           *)
(*                                                                         *)
(* An optional value is {} or a singleton; times are in one unit.          *)
(***************************************************************************)
EXTENDS UsageRecords

CONSTANT Probes   \* [quota, now]: what a probe may have stored

WindowRaw == [used : OptionalNat, seconds : OptionalNat, reset_after : OptionalNat, reset_at : OptionalNat]

RateWindow == [name : STRING, primary : SUBSET WindowRaw, secondary : SUBSET WindowRaw]

ResetCredit ==
    [id : STRING, type : {"codex_rate_limits", "other"}, status : {"available", "redeemed"},
     consumable_until : OptionalNat, expires_at : OptionalNat]

AccountQuota ==
    [fetched_at : Nat, ok : BOOLEAN,
     primary_used : OptionalNat, primary_seconds : OptionalNat, primary_reset : OptionalNat,
     secondary_used : OptionalNat, secondary_seconds : OptionalNat, secondary_reset : OptionalNat,
     additional_limits : Seq(RateWindow), reset_credits : Seq(ResetCredit),
     available : Nat, applicable : Nat]

ASSUME ProbesTyped == \A p \in Probes : p.quota \in AccountQuota /\ p.now \in Nat

The(x) == CHOOSE y \in x : TRUE

-----------------------------------------------------------------------------
(***************************************************************************)
(* lib/quota.ts: the windows, as [used, seconds, resetAt].                 *)
(***************************************************************************)
Window(used, seconds, resetAt) == [used |-> used, seconds |-> seconds, resetAt |-> resetAt]

\* A window of which neither the use nor the reset is known is left out.
primaryWindows(q) ==
    SelectSeq(<<Window(q.primary_used, q.primary_seconds, q.primary_reset),
                Window(q.secondary_used, q.secondary_seconds, q.secondary_reset)>>,
              LAMBDA w : Known(w.used) \/ Known(w.resetAt))

\* The reset as a moment (0 is none), else from the moment of the probe.
rawWindow(w, fetched) ==
    Window(w.used, w.seconds,
           IF Known(w.reset_at) /\ The(w.reset_at) # 0 THEN w.reset_at
           ELSE {fetched + t : t \in w.reset_after})

additionalWindows(q) ==
    [i \in DOMAIN q.additional_limits |->
       LET l == q.additional_limits[i]
       IN  [name    |-> l.name,
            windows |-> SetToSeq({rawWindow(w, q.fetched_at) : w \in l.primary})
                          \o SetToSeq({rawWindow(w, q.fetched_at) : w \in l.secondary})]]

fillTone(used) ==
    CASE ~Known(used) -> "unknown"
      [] Known(used) /\ The(used) >= 100 -> "full"
      [] Known(used) /\ The(used) \in 80..99 -> "high"
      [] OTHER -> "low"

-----------------------------------------------------------------------------
(***************************************************************************)
(* QuotaWindows.tsx.                                                       *)
(***************************************************************************)
WindowBar(w, now) ==
    LET used == {AtLeast(0, AtMost(100, u)) : u \in w.used}
    IN  [fill  |-> IF Known(used) THEN The(used) ELSE 0,
         tone  |-> fillTone(used),
         reset |-> IF ~Known(w.resetAt) THEN "unknown"
                   ELSE IF The(w.resetAt) <= now THEN "past" ELSE "ahead"]

\* The reset that the list counts down to.
Soonest(windows) ==
    LET resets == UNION {windows[i].resetAt : i \in DOMAIN windows}
    IN  IF resets = {} THEN {} ELSE {Min(resets)}

Bars(windows, now) == [i \in DOMAIN windows |-> WindowBar(windows[i], now)]

QuotaCompact(quota, now) ==
    IF quota = {} THEN [text |-> "unprobed"]
    ELSE LET q == The(quota)  w == primaryWindows(q)
         IN  CASE ~q.ok /\ ~Known(q.primary_used) -> [text |-> "failed"]
               [] (q.ok \/ Known(q.primary_used)) /\ w = <<>> -> [text |-> "windowless"]
               [] OTHER -> [text |-> "windows", bars |-> Bars(w, now), soonest |-> Soonest(w), stale |-> ~q.ok]

QuotaPanel(quota, now) ==
    IF quota = {} THEN [text |-> "unprobed"]
    ELSE LET q == The(quota)
         IN  [text  |-> IF primaryWindows(q) = <<>> THEN "windowless" ELSE "windows",
              stale |-> ~q.ok,
              bars  |-> Bars(primaryWindows(q), now),
              extra |-> [i \in DOMAIN q.additional_limits |-> Bars(additionalWindows(q)[i].windows, now)]]

-----------------------------------------------------------------------------
(***************************************************************************)
(* The cost of an account in the list (pages/Accounts.tsx): what the       *)
(* gateway reckons, of the short window too if there is one, and what      *)
(* upstream settled in seven days, under the length of the window.         *)
(***************************************************************************)
Rounded(t, unit) == (2 * t + unit) \div (2 * unit)

longWindowLabel(seconds) ==
    LET s == IF Known(seconds) THEN The(seconds) ELSE 0
    IN  CASE s = 0 -> <<7, "d">>
          [] s # 0 /\ Rounded(s, Day) >= 1 -> <<Rounded(s, Day), "d">>
          [] OTHER -> <<Rounded(s, Hour), "h">>

BilledCell(seconds, counters, settled) ==
    [gateway  |-> (IF Known(seconds) /\ The(seconds) <= 6 * Hour THEN <<counters.cost_5h>> ELSE <<>>)
                    \o <<counters.cost_7d>>,
     official |-> <<longWindowLabel(seconds), settled>>]

-----------------------------------------------------------------------------
(***************************************************************************)
(* ResetCredits.tsx: what can be redeemed, what expires first being first. *)
(***************************************************************************)
Until(c) == IF Known(c.consumable_until) THEN c.consumable_until ELSE c.expires_at

credits(q) ==
    SortSeq(SelectSeq(q.reset_credits, LAMBDA c : c.type = "codex_rate_limits" /\ c.status = "available" /\ Known(Until(c))),
            LAMBDA c, d : The(Until(c)) < The(Until(d)))

Vouchers(q, now) ==
    [i \in DOMAIN credits(q) |->
       LET c == credits(q)[i] IN [id |-> c.id, until |-> The(Until(c)), soon |-> The(Until(c)) - now <= 7 * Day]]

-----------------------------------------------------------------------------
(* Properties. *)

\* The list and the dialog show the same windows of a probe, every one of which upstream
\* said anything once; the countdown is to the first reset; a bar is full or high
\* exactly when its window is.
WindowsAgree(q, now) ==
    LET list  == QuotaCompact({q}, now)
        panel == QuotaPanel({q}, now)
        said  == {x \in {<<q.primary_used, q.primary_reset>>, <<q.secondary_used, q.secondary_reset>>} : x # <<{}, {}>>}
    IN  /\ {<<w.used, w.resetAt>> : w \in {primaryWindows(q)[i] : i \in DOMAIN primaryWindows(q)}} = said
        /\ list.text = "windows" =>
              /\ list.bars = panel.bars /\ list.stale = panel.stale
              /\ \A s \in list.soonest : \A x \in said : \A t \in x[2] : s <= t
        /\ list.text = "failed" => panel.stale
        /\ \A i \in DOMAIN panel.bars : panel.bars[i].fill \in 0..100
        /\ \A i \in DOMAIN panel.extra : Len(panel.extra[i])
              = Count(q.additional_limits[i].primary) + Count(q.additional_limits[i].secondary)

\* Every voucher that can be redeemed is listed once, none after one that expires later;
\* those that expire soon come first.
VouchersInOrder(q, now) ==
    LET v == Vouchers(q, now)
    IN  /\ \A i, j \in DOMAIN v : i < j => v[i].until <= v[j].until /\ (v[j].soon => v[i].soon)
        /\ \A k \in DOMAIN q.reset_credits :
              LET c == q.reset_credits[k]
              IN  Count({i \in DOMAIN v : v[i].id = c.id})
                    = IF c.type = "codex_rate_limits" /\ c.status = "available"
                         /\ (Known(c.consumable_until) \/ Known(c.expires_at)) THEN 1 ELSE 0

\* The gateway's costs are in order, and a window the official cost names by days is not
\* shown as the short one above it.
BilledAgrees(seconds, counters) ==
    LET cell == BilledCell(seconds, counters, 0)
        shown == cell.gateway
    IN  /\ \A i \in 2..Len(shown) : shown[i - 1] <= shown[i]
        /\ Len(shown) = 2 /\ seconds # {0} => cell.official[1][2] = "h"

QuotaShown ==
    /\ \A p \in Probes : WindowsAgree(p.quota, p.now) /\ VouchersInOrder(p.quota, p.now)
    /\ \A h \in Histories, a \in Owners, seconds \in {p.quota.primary_seconds : p \in Probes} :
          BilledAgrees(seconds, account_counters(h, a))
=============================================================================
