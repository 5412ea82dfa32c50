------------------------------- MODULE UsagePage -------------------------------
(***************************************************************************)
(* The usage page (pages/Usage.tsx): two tables over the last hours, which *)
(* the operator chooses, and the newest requests, each fetched by its own  *)
(* useResource.  The overview page (pages/Overview.tsx) is such a resource *)
(* too, read again every five seconds whether it was answered or not.      *)
(*                                                                         *)
(* Of an answer the model keeps the hours it is of; a resource of which    *)
(* the hours do not matter has those of the page.                          *)
(***************************************************************************)
EXTENDS Panel

CONSTANTS
    Spans,    \* the hours offered
    Span,     \* those the page starts with
    MaxLooks  \* bound on what the operator does on these pages

ASSUME UsagePageAssumption == Span \in Spans /\ None \notin Spans /\ MaxLooks \in Nat

VARIABLES
    watched,  \* the page that is open: "usage", "overview" or none
    hours,
    summary,  \* a resource: what it shows, its newest read, whether that failed
    recent,
    polled,   \* the overview
    looks     \* the bound

watchVars == <<watched, hours, summary, recent, polled, looks>>

Resources == [data : Maybe(Spans), read : Maybe(Spans), error : BOOLEAN]
Unmounted == [data |-> None, read |-> None, error |-> FALSE]

UsagePageTypeOK ==
    /\ watched \in Maybe({"usage", "overview"}) /\ hours \in Spans
    /\ {summary, recent, polled} \subseteq Resources
    /\ looks \in 0..MaxLooks

WatchInit ==
    /\ watched = None /\ hours = Span /\ looks = 0
    /\ summary = Unmounted /\ recent = Unmounted /\ polled = Unmounted

Look == looks < MaxLooks /\ looks' = looks + 1

\* The read before is cancelled, what is shown stays.
Reread(resource, h) == [resource EXCEPT !.read = h, !.error = FALSE]

\* The dashboard opens one of the pages, or leaves it.
Watch(p) ==
    /\ watched # p /\ Look
    /\ watched' = p /\ hours' = Span
    /\ summary' = IF p = "usage" THEN Reread(Unmounted, Span) ELSE Unmounted
    /\ recent' = IF p = "usage" THEN Reread(Unmounted, Span) ELSE Unmounted
    /\ polled' = IF p = "overview" THEN Reread(Unmounted, Span) ELSE Unmounted
    /\ UNCHANGED spent

setHours(h) ==
    /\ watched = "usage" /\ h # hours /\ Look
    /\ hours' = h /\ summary' = Reread(summary, h)
    /\ UNCHANGED <<watched, recent, polled, spent>>

\* The button reads both again, and is off while one of them is read.
refreshUsage ==
    /\ watched = "usage" /\ summary.read = None /\ recent.read = None /\ Look
    /\ summary' = Reread(summary, hours) /\ recent' = Reread(recent, Span)
    /\ UNCHANGED <<watched, hours, polled, spent>>

\* The retry of a table that failed.
RetrySummary ==
    /\ summary.error /\ Look
    /\ summary' = Reread(summary, hours)
    /\ UNCHANGED <<watched, hours, recent, polled, spent>>

RetryRecent ==
    /\ recent.error /\ Look
    /\ recent' = Reread(recent, Span)
    /\ UNCHANGED <<watched, hours, summary, polled, spent>>

\* Five seconds have passed; the button and the retry do the same.
PollOverview ==
    /\ watched = "overview"
    /\ polled' = Reread(polled, Span)
    /\ UNCHANGED <<watched, hours, summary, recent, looks, spent>>

\* What a resource becomes by the answer to its newest read.
Settled(resource, ok) ==
    IF ok THEN [data |-> resource.read, read |-> None, error |-> FALSE]
    ELSE [resource EXCEPT !.read = None, !.error = TRUE]

Bounded(ok) == IF ok THEN UNCHANGED spent ELSE Event

SummaryArrives(ok) ==
    /\ summary.read # None /\ summary' = Settled(summary, ok) /\ Bounded(ok)
    /\ UNCHANGED <<watched, hours, recent, polled, looks>>

RecentArrives(ok) ==
    /\ recent.read # None /\ recent' = Settled(recent, ok) /\ Bounded(ok)
    /\ UNCHANGED <<watched, hours, summary, polled, looks>>

OverviewArrives(ok) ==
    /\ polled.read # None /\ polled' = Settled(polled, ok) /\ Bounded(ok)
    /\ UNCHANGED <<watched, hours, summary, recent, looks>>

\* What is on the screen of a resource: its failure, its data, or that it is awaited.
Shows(resource) == IF resource.error THEN "error" ELSE IF resource.data = None THEN "loading" ELSE "data"

WatchAnswered == \E ok \in BOOLEAN : SummaryArrives(ok) \/ RecentArrives(ok) \/ OverviewArrives(ok)

WatchNext ==
    \/ \E p \in {"usage", "overview"} : Watch(p)
    \/ \E h \in Spans : setHours(h)
    \/ refreshUsage \/ RetrySummary \/ RetryRecent \/ PollOverview
    \/ WatchAnswered
=============================================================================
