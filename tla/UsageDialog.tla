----------------------------- MODULE UsageDialog -----------------------------
(***************************************************************************)
(* The usage dialog of the accounts page (components/pool/                 *)
(* AccountUsageDialog.tsx and its tabs).  It is mounted with the page and  *)
(* shows the account it was opened for; the range is shared by its tabs.   *)
(* The figures, the official settlement and the list of requests are read  *)
(* separately; a reset voucher is redeemed in two steps.                   *)
(*                                                                         *)
(* Of an answer the model keeps what was asked for, of a quota snapshot    *)
(* the account it is of.  An ask is numbered by the click it stems from;   *)
(* a part of the dialog attends to the answer of its newest ask only.      *)
(***************************************************************************)
EXTENDS Panel

CONSTANTS
    Accounts,  \* the accounts of the list
    Ranges,    \* the ranges of the selector
    Default,   \* the range the dialog starts with
    MaxClicks  \* bound on what the operator does in the dialog

ASSUME DialogAssumption ==
    /\ MaxClicks \in Nat /\ Default \in Ranges
    /\ None \notin Accounts \cup Ranges
    /\ None \notin [acct : Accounts, range : Ranges, quota : Accounts]

VARIABLES
    target,   \* the account the dialog is open for
    tab,      \* overview, detail and quality are one here: "figures"
    range,
    usage,    \* the figures: [data, loading, error, seq]
    official, \* the official tab
    listing,  \* the requests tab
    voucher,  \* the reset of the quota: [confirming, resetting, error, seq]
    asks,     \* requests of the dialog on their way
    clicks    \* the bound

usageVars == <<target, tab, range, usage, official, listing, voucher, asks, clicks>>

Tabs    == {"figures", "official", "requests"}
Filters == {"all", "some"}
Numbers == 1..2    \* the pages of a list of requests

\* A part that is not mounted attends to no ask.
NoOfficial == [data |-> None, loading |-> FALSE, refreshing |-> FALSE, error |-> FALSE, seq |-> 0]
NoListing  == [data |-> None, loading |-> FALSE, error |-> FALSE, filter |-> "all",
               number |-> 1, seq |-> 0]
NoVoucher  == [confirming |-> FALSE, resetting |-> FALSE, error |-> FALSE, seq |-> 0]

UsageTypeOK ==
    /\ target \in Maybe(Accounts) /\ tab \in Tabs /\ range \in Ranges
    /\ usage \in [data : {None} \cup [acct : Accounts, range : Ranges, quota : Accounts],
                  loading : BOOLEAN, error : BOOLEAN, seq : 0..MaxClicks]
    /\ official \in [data : Maybe(Ranges), loading : BOOLEAN, refreshing : BOOLEAN,
                     error : BOOLEAN, seq : 0..MaxClicks]
    /\ listing \in [data : {None} \cup [range : Ranges, filter : Filters, number : Numbers],
                    loading : BOOLEAN, error : BOOLEAN, filter : Filters, number : Numbers,
                    seq : 0..MaxClicks]
    /\ voucher \in [confirming : BOOLEAN, resetting : BOOLEAN, error : BOOLEAN, seq : 0..MaxClicks]
    /\ clicks \in 0..MaxClicks

UsageInit ==
    /\ target = None /\ tab = "figures" /\ range = Default
    /\ usage = [data |-> None, loading |-> TRUE, error |-> FALSE, seq |-> 0]
    /\ official = NoOfficial /\ listing = NoListing /\ voucher = NoVoucher
    /\ asks = {} /\ clicks = 0

Click == clicks < MaxClicks /\ clicks' = clicks + 1

Ask(what, acct, r, filter, number) ==
    [id |-> clicks', what |-> what, acct |-> acct, range |-> r, filter |-> filter, number |-> number]

-----------------------------------------------------------------------------
(***************************************************************************)
(* What each part asks for.                                                *)
(***************************************************************************)
\* load() of the dialog: what is shown stays until the answer.
UsageLoading == [usage EXCEPT !.loading = TRUE, !.error = FALSE, !.seq = clicks']

\* load() of the official tab, on top of what it showed.
OfficialLoading(o, synced) ==
    [o EXCEPT !.refreshing = @ \/ synced, !.loading = @ \/ ~synced, !.error = FALSE, !.seq = clicks']

\* A refresh first has the server read upstream, then reads what it stored.
OfficialAsk(acct, r, synced) == Ask(IF synced THEN "sync" ELSE "official", acct, r, "all", 1)

\* A change of range or filter goes back to the first page.
ListingLoading(l, filter, number) ==
    [l EXCEPT !.filter = filter, !.number = number, !.loading = TRUE, !.error = FALSE, !.seq = clicks']

-----------------------------------------------------------------------------
(***************************************************************************)
(* The operator.                                                           *)
(***************************************************************************)
\* From the row's button, or from its billed amount straight to the official tab.
OpenUsage(a, t) ==
    /\ target = None /\ page = "accounts" /\ Listed /\ ~Modal
    /\ Click
    /\ target' = a /\ tab' = t
    /\ usage' = [UsageLoading EXCEPT !.data = None]
    /\ official' = IF t = "official" THEN OfficialLoading(NoOfficial, TRUE) ELSE NoOfficial
    /\ asks' = asks \cup {Ask("usage", a, range, "all", 1)}
                    \cup (IF t = "official" THEN {OfficialAsk(a, range, TRUE)} ELSE {})
    /\ UNCHANGED <<range, listing, voucher, spent>>

\* The answers on their way find the dialog closed, or open for another account.
CloseUsage ==
    /\ target # None
    /\ target' = None /\ tab' = "figures"
    /\ usage' = [usage EXCEPT !.data = None]
    /\ official' = NoOfficial /\ listing' = NoListing /\ voucher' = NoVoucher
    /\ UNCHANGED <<range, asks, clicks, spent>>

\* A tab that is left is unmounted and asks anew when it is entered; the requests
\* wait for the figures.
SetTab(t) ==
    /\ target # None /\ t # tab
    /\ Click
    /\ tab' = t
    /\ official' = IF t = "official" THEN OfficialLoading(NoOfficial, TRUE) ELSE NoOfficial
    /\ listing' = IF t = "requests" /\ usage.data # None
                  THEN ListingLoading(NoListing, "all", 1) ELSE NoListing
    /\ asks' = asks
         \cup (IF t = "official" THEN {OfficialAsk(target, range, TRUE)} ELSE {})
         \cup (IF listing'.loading THEN {Ask("listing", target, range, "all", 1)} ELSE {})
    /\ UNCHANGED <<target, range, usage, voucher, spent>>

\* Every part that is mounted reads again; the official tab reads what is stored.
SetRange(r) ==
    /\ target # None /\ r # range
    /\ Click
    /\ range' = r
    /\ usage' = UsageLoading
    /\ official' = IF tab = "official" THEN OfficialLoading(official, FALSE) ELSE official
    /\ listing' = IF listing.seq # 0 THEN ListingLoading(listing, listing.filter, 1) ELSE listing
    /\ asks' = asks \cup {Ask("usage", target, r, "all", 1)}
         \cup (IF tab = "official" THEN {OfficialAsk(target, r, FALSE)} ELSE {})
         \cup (IF listing.seq # 0
               THEN {Ask("listing", target, r, listing.filter, listing'.number)} ELSE {})
    /\ UNCHANGED <<target, tab, voucher, spent>>

\* The button of the official tab, off during a refresh.
RefreshOfficial ==
    /\ target # None /\ tab = "official" /\ ~official.refreshing
    /\ ~official.loading \/ official.data # None
    /\ Click
    /\ official' = OfficialLoading(official, TRUE)
    /\ asks' = asks \cup {OfficialAsk(target, range, TRUE)}
    /\ UNCHANGED <<target, tab, range, usage, listing, voucher, spent>>

\* The model and the failures-only switch, in one.
SetFilter(f) ==
    /\ listing.seq # 0 /\ f # listing.filter
    /\ Click
    /\ listing' = ListingLoading(listing, f, 1)
    /\ asks' = asks \cup {Ask("listing", target, range, f, listing'.number)}
    /\ UNCHANGED <<target, tab, range, usage, official, voucher, spent>>

\* The buttons below the table, which an error hides.
SetPage(n) ==
    /\ listing.data # None /\ ~listing.error /\ n # listing.number
    /\ Click
    /\ listing' = [ListingLoading(listing, listing.filter, 1) EXCEPT !.number = n]
    /\ asks' = asks \cup {Ask("listing", target, range, listing.filter, n)}
    /\ UNCHANGED <<target, tab, range, usage, official, voucher, spent>>

\* The voucher's two buttons, and the way back between them.
ConfirmVoucher ==
    /\ target # None /\ usage.data # None
    /\ voucher' = [voucher EXCEPT !.confirming = ~@]
    /\ ~voucher.resetting
    /\ UNCHANGED <<target, tab, range, usage, official, listing, asks, clicks, spent>>

Redeem ==
    /\ target # None /\ voucher.confirming /\ ~voucher.resetting
    /\ Click
    /\ voucher' = [voucher EXCEPT !.resetting = TRUE, !.error = FALSE, !.seq = clicks']
    /\ asks' = asks \cup {Ask("redeem", target, range, "all", 1)}
    /\ UNCHANGED <<target, tab, range, usage, official, listing, spent>>

UsageOperates ==
    \/ \E a \in Accounts, t \in {"figures", "official"} : OpenUsage(a, t)
    \/ CloseUsage \/ \E t \in Tabs : SetTab(t)
    \/ \E r \in Ranges : SetRange(r)
    \/ RefreshOfficial
    \/ \E f \in Filters : SetFilter(f)
    \/ \E n \in Numbers : SetPage(n)
    \/ ConfirmVoucher \/ Redeem

-----------------------------------------------------------------------------
(***************************************************************************)
(* The answers.                                                            *)
(***************************************************************************)
\* Whether the answer is one of success; a failure is bounded.
Answered(ok) == IF ok THEN UNCHANGED spent ELSE Event

\* Slip: an older answer is taken too.
NewestOrOlder(q, part) == q.id <= part.seq

\* The answer to the newest ask of a part of the dialog.
Newest(q, part) == q.id = part.seq

\* The requests tab is mounted by the first figures.  The dialog may have been
\* closed meanwhile: the figures are then kept until it is opened again.
UsageArrives(q, ok) ==
    /\ q.what = "usage" /\ Answered(ok)
    /\ IF Newest(q, usage)
       THEN /\ usage' = [usage EXCEPT
                 !.data = IF ok THEN [acct |-> q.acct, range |-> q.range, quota |-> q.acct] ELSE @,
                 !.error = ~ok, !.loading = FALSE]
            /\ IF ok /\ target # None /\ tab = "requests" /\ listing.seq = 0
               THEN /\ listing' = [NoListing EXCEPT !.loading = TRUE, !.seq = q.id]
                    /\ asks' = (asks \ {q}) \cup {[q EXCEPT !.what = "listing"]}
               ELSE asks' = asks \ {q} /\ UNCHANGED listing
       ELSE asks' = asks \ {q} /\ UNCHANGED <<usage, listing>>
    /\ UNCHANGED <<target, tab, range, official, voucher, clicks>>

\* Whether the server could read upstream or not, what it has is read next; a
\* success has the quota probed as well, also after the tab was left.
SyncReturns(q, ok) ==
    /\ q.what = "sync" /\ Answered(ok)
    /\ asks' = (asks \ {q}) \cup {[q EXCEPT !.what = "official"]}
                  \cup (IF ok THEN {[q EXCEPT !.what = "quota"]} ELSE {})
    /\ UNCHANGED <<target, tab, range, usage, official, listing, voucher, clicks>>

\* Slip: a load ends the mark it set itself.
OfficialArrivesOwn(q, ok) ==
    /\ q.what = "official" /\ Answered(ok)
    /\ asks' = asks \ {q}
    /\ official' = IF Newest(q, official)
                   THEN [official EXCEPT !.data = IF ok THEN q.range ELSE @, !.error = ~ok,
                                         !.loading = FALSE, !.refreshing = @ /\ official.loading]
                   ELSE official
    /\ UNCHANGED <<target, tab, range, usage, listing, voucher, clicks>>

OfficialArrives(q, ok) ==
    /\ q.what = "official" /\ Answered(ok)
    /\ asks' = asks \ {q}
    /\ official' = IF Newest(q, official)
                   THEN [official EXCEPT !.data = IF ok THEN q.range ELSE @, !.error = ~ok,
                                         !.loading = FALSE, !.refreshing = FALSE]
                   ELSE official
    /\ UNCHANGED <<target, tab, range, usage, listing, voucher, clicks>>

ListingArrives(q, ok) ==
    /\ q.what = "listing" /\ Answered(ok)
    /\ asks' = asks \ {q}
    /\ listing' = IF Newest(q, listing)
                  THEN [listing EXCEPT
                          !.data = IF ok THEN [range |-> q.range, filter |-> q.filter,
                                               number |-> q.number] ELSE @,
                          !.error = ~ok, !.loading = FALSE]
                  ELSE listing
    /\ UNCHANGED <<target, tab, range, usage, official, voucher, clicks>>

\* applyQuota: the snapshot replaces that of the figures shown now.
applyQuota(acct) == [usage EXCEPT !.data = IF @ = None THEN None ELSE [@ EXCEPT !.quota = acct]]

\* refreshQuota after the reply; a failure leaves the snapshot before.
QuotaArrives(q, ok) ==
    /\ q.what = "quota" /\ Answered(ok)
    /\ asks' = asks \ {q}
    /\ usage' = IF ok THEN applyQuota(q.acct) ELSE usage
    /\ UNCHANGED <<target, tab, range, official, listing, voucher, clicks>>

\* A redemption may succeed and its probe fail; it goes on when the dialog closes.
RedeemReturns(q, ok, probed) ==
    /\ q.what = "redeem" /\ Answered(ok) /\ (probed => ok)
    /\ asks' = asks \ {q}
    /\ usage' = IF probed THEN applyQuota(q.acct) ELSE usage
    /\ voucher' = IF Newest(q, voucher)
                  THEN [voucher EXCEPT !.resetting = FALSE, !.confirming = @ /\ ~ok, !.error = ~ok]
                  ELSE voucher
    /\ UNCHANGED <<target, tab, range, official, listing, clicks>>

UsageAnswered ==
    \E q \in asks, ok \in BOOLEAN :
        \/ UsageArrives(q, ok) \/ SyncReturns(q, ok) \/ OfficialArrives(q, ok)
        \/ ListingArrives(q, ok) \/ QuotaArrives(q, ok)
        \/ \E probed \in BOOLEAN : RedeemReturns(q, ok, probed)

UsageNext == UsageOperates \/ UsageAnswered
=============================================================================
