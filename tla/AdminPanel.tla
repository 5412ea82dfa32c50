------------------------------ MODULE AdminPanel ------------------------------
(***************************************************************************)
(* The dashboard with its pages of keys, runners and accounts, the usage   *)
(* dialog of the accounts page, the pages of usage and overview, before a  *)
(* server that others use too.                                             *)
(*                                                                         *)
(* These three groups read and change nothing of each other's.  An         *)
(* instance therefore need not interleave them: the dialog, or the usage   *)
(* or overview page, opens before anything else is done (Untouched), and   *)
(* from then on only it goes on.                                           *)
(***************************************************************************)
EXTENDS KeysPage, RunnersPage, AccountsPage, UsageDialog, UsagePage, UsageTabs, QuotaFigures

Reply(c) == KeysReturn(c) \/ RunnersReturn(c) \/ AccountsReturn(c) \/ ReturnLeft(c)

Reads == ListAnswered \/ ListArrives \/ HostsArrive

PagesNext ==
    \/ KeysNext \/ RunnersNext \/ AccountsNext
    \/ Reads \/ Retry \/ Later
    \/ \E c \in calls : Receive(c) \/ Reply(c)
    \/ Declined \/ Elsewhere
    \/ \E p \in Pages : Open(p)

\* Bound: the dialog and the pages of usage and overview are used in a panel at rest.
Untouched ==
    /\ spent = [calls |-> 0, events |-> 0]
    /\ list.read = None /\ hosts = "some"

pageVars  == <<ver, page, list, hosts, editor, asked, calls, told, extras>>
PanelVars == <<pageVars, spent, usageVars, watchVars>>

PanelInit == Init /\ UsageInit /\ WatchInit

Next ==
    \/ clicks = 0 /\ looks = 0 /\ PagesNext /\ UNCHANGED <<usageVars, watchVars>>
    \/ /\ clicks > 0 \/ (looks = 0 /\ Untouched)
       /\ UsageNext
       /\ UNCHANGED <<pageVars, watchVars>>
    \/ /\ looks > 0 \/ (clicks = 0 /\ Untouched)
       /\ WatchNext
       /\ UNCHANGED <<pageVars, usageVars>>

Spec == PanelInit /\ [][Next]_PanelVars

\* What the panel waits for: a request arrives, its answer does, a timer ends.
Awaited ==
    \/ /\ clicks = 0 /\ looks = 0
       /\ Later \/ \E c \in calls : Receive(c) \/ Reply(c)
       /\ UNCHANGED <<usageVars, watchVars>>
    \/ UsageAnswered /\ UNCHANGED <<pageVars, watchVars>>
    \/ WatchAnswered /\ UNCHANGED <<pageVars, usageVars>>

\* The server answers or the connection fails, the timer of 800 ms ends, and what
\* arrives is handled.  The operator owes nothing.
Fairness == WF_PanelVars(Awaited)

FairSpec == Spec /\ Fairness

-----------------------------------------------------------------------------
\* The types of the pages, the dialog and the usage page.
PanelTypeOK == TypeOK /\ UsageTypeOK /\ UsagePageTypeOK

\* However saves, deletions, actions and refreshes overlap, and whatever fails: a
\* page at rest, with a list it does not call failed, shows every change that it
\* told its operator was made.
ShowsOwnChanges ==
    list.read = None /\ ~list.error /\ ~soon => list.data >= told

\* A page has at most one save on its way, also when its editor was closed on a
\* slow save and opened again, and its button is off exactly then.
OneSave ==
    LET mine == {c \in calls : c.mounted /\ c.what \in Saves}
    IN  Cardinality(mine) <= 1 /\ (saving <=> mine # {})

\* Whatever part of the dialog is at rest and calls nothing failed shows what the
\* dialog is set to: the account, the range, the filter and the page, in whatever
\* order the answers to earlier settings arrived (AccountUsageDialog.tsx:62-78,
\* OfficialTab.tsx:155-185, RequestsTab.tsx:29-46); so does the usage page, whose hours
\* may change during a read (Usage.tsx:62-71).
ShownIsAsked ==
    /\ Shows(summary) = "data" /\ summary.read = None => summary.data = hours
    /\ target # None =>
            /\ usage.data # None =>
                  /\ usage.data.acct = target
                  /\ usage.loading \/ usage.error \/ usage.data.range = range
            /\ tab = "official" /\ ~official.loading /\ ~official.refreshing /\ ~official.error
                  => official.data = range
            /\ tab = "requests" /\ usage.data # None /\ ~listing.loading /\ ~listing.error
                  => listing.data = [range |-> range, filter |-> listing.filter, number |-> listing.number]

\* A save always ends, and so does every load of the dialog and of the usage page, and
\* every redemption:
\* no button stays off, no part keeps showing that it is loading.
Waiting ==
    \/ saving \/ (usage.loading /\ usage.seq > 0)
    \/ official.loading \/ official.refreshing \/ listing.loading \/ voucher.resetting
    \/ summary.read # None \/ recent.read # None

WaitsEnd == Waiting ~> ~Waiting

\* The figures are functions of what was recorded; an instance evaluates them where the
\* usage page is complete for the first time.
FirstShown == watched = "usage" /\ looks = 1 /\ Shows(summary) = "data" /\ Shows(recent) = "data"

\* What the panel splits and groups adds up: no row of the settlement is lost or
\* counted twice over clients, models and speeds, no request of the health bar, no
\* row of a list in its pages (OfficialTab.tsx, health.ts, pagination.tsx); no request
\* recorded, between the totals, models, keys, statuses and paths that count it
\* (RecordsAddUp in UsageTabs).
FiguresAddUp ==
    /\ official.data # None => SplitsAddUp
    /\ page = "accounts" /\ list.data # None => BarsAddUp
    /\ listing.data # None => ListsAddUp
    /\ FirstShown => RecordsAddUp

\* What is sorted, ranked or cut into pages shows all of it, in order: days, models, keys and
\* requests (TabsAddUp in UsageTabs), windows and vouchers of a probe (QuotaFigures).
RecordsShown == FirstShown => TabsAddUp /\ QuotaShown

\* quota.ts:87, "百分比只有整数精度,给 ±0.5% 区间": when the settlement and the probe are
\* of one moment, and nothing was used on the cycle's first day before it began, the
\* true quota is within the bounds shown; bounds are shown of a probe of the last six
\* hours from 1% on.
EstimateSound == usage.data # None => BoundsSound

\* AccountUsageDialog.tsx:106: "账号 {target?.name} 的用量、质量与官方结算": the quota
\* shown is that of the account the dialog is open for.
QuotaOfAccount == target # None /\ usage.data # None => usage.data.quota = target
=============================================================================
