# Formal models of codexs-poolmanager

TLA+ models of codexs-poolmanager, its servers and its admin panel, the TLC runs that check them on small
instances and TLAPS proofs for every value of their constants. The reference is the code; comments
in the modules and the `map` of `PROJECT.json` give the lines each definition stands for.

    tlc -config MCGatewayAccounting.cfg MCGateway.tla      # one run; PROJECT.json lists them all
    tlapm GatewayProofs.tla                                # one proof module; section 4 lists the eight

## 1. The system

Two manager replicas (slots a and b) sit behind HAProxy and share Postgres and Redis. A runner
supervises one codexs process per ChatGPT account. A deployment container performs releases. Operators use a
React panel that the manager serves.

| component | state it keeps | operations | models |
| --- | --- | --- | --- |
| Gateway (`gateway.rs`) | per request: key's slot, account's slot, excluded accounts, pin | `proxy`, `acquire_account`, `Observer`, spawned releases | `Gateway` |
| In-flight counters (`cache.rs`) | `pm:inflight:*` in Redis | INCR+EXPIRE, DECR, DEL | `InflightCounters` |
| Stickiness (`cache.rs`, `gateway.rs`) | `pm:sticky:*` | set with a TTL, get | `Gateway` |
| Routing snapshot (`state.rs`) | accounts and runners as last read | `refresh`, by a loop and after writes | `Gateway` (partly) |
| Rate limiter (`cache.rs`) | a counter per minute | INCR | verdict only, in `Gateway` |
| Job leadership (`jobs.rs`, `cache.rs`) | `pm:leader`, `pm:deploy:active` | look, acquire or extend, tick, release | `JobLeader` |
| A/B releases (`abctl.py`) | `operation.json`, `active.map`, `images.json`, HAProxy's map | deploy, switch, rollback, resume, runner | `SlotDeploy`, `SlotSwitch` |
| Deployment control service and CLI (`control_server.py`, `abctl.py`) | `deploy.lock`, `panel-job.json`, status cache, job thread | POST, GET /status, follow, `--direct` | `ControlServer` (partly) |
| Instance reconciliation (`jobs.rs`, `control.rs`, `admin.rs`) | account rows | the tick, start, stop, restart, update, delete, sync of auth.json | `Instances` (partly) |
| Runner (`supervisor.rs`, `runner/mod.rs`) | processes, auth.json on disk | start, stop, list, read_auth, reaper | `Instances` (partly) |
| Deployment page (`Deployment.tsx`, `admin_deploy.rs`) | numbered polls, uncertain requests, an open dialog | poll, open, confirm, post, leave | `DeployPage` (partly) |
| Admin sessions and shell (`App.tsx`, `main.tsx`, `api/auth.ts`, `admin.rs`) | `pm:session:*`, the stored token, a tab's view and module | check, login, logout, load, reload | `AdminShell` |
| Pages of keys, runners, accounts (`pages/*.tsx`, `use-resource.ts`) | a list, an editor, a save, requests on their way | open, edit, save, delete, act, refresh | `Panel`, `KeysPage`, `RunnersPage`, `AccountsPage` |
| Usage dialog, usage page, overview | loads by number, range, filter, page, redemption | open, choose, load, redeem, poll | `UsageDialog`, `UsagePage` |
| What those compute (`pool/usage/*`, `quota.ts`, `health.ts`) | none | splits, shares, estimates, bars, windows | `UsageReports`, `UsageTabs`, `QuotaFigures` |
| Usage records and reports (`db/account_usage.rs`, `db.rs`, `admin_usage.rs`) | `usage_events` | one query per report | `UsageRecords` (partly) |
| Official quota and daily usage (`wham.rs`, `db/official.rs`) | quota row, a row per day, backfill flag | probe, hourly sync, redeem | not modelled |
| Pricing (`pricing.rs`) | none | lookup, cost | not modelled |
| Key and runner administration, schema, packaging, configuration, UI primitives | Postgres tables | single statements, rendering | not modelled |

They interact as follows. A gateway request reads its replica's snapshot, moves counters in Redis, calls a
codexs process and, on a failure, marks the account's row; the leader's tick reads the rows, asks
the runners what they run and starts, stops or probes processes; administrators change rows and
call the runners at the same time, from panels that show lists they read some time ago. The release controller changes the marker by which the slots
hand leadership over and the map by which HAProxy routes. Everybody reads, awaits and then acts on
what was read: the hard behaviour of this system is there, and in what is left when one of them stops
half way.

What makes each part correct:

- *Gateway*: every slot taken is given back once, limits hold as far as the counters are right,
  a turn is recorded once, failures are retried on other accounts at most three times, a
  conversation stays on its account, every request ends.
- *Leadership and releases*: one slot runs the jobs; requests never go to a slot that was not
  vetted and a slot with streams on it is never rebuilt; the journal is true of the host wherever
  the controller stopped; between operations all records agree; an operation that is resumed ends.
- *Control service*: one operation at a time, an unfinished one is never overwritten, nobody
  follows for ever, and what is reported is what happened.
- *Panel*: what is shown answers what was last asked, in whatever order answers come; a page at rest shows the
  changes it reported; a button locked during a request is unlocked when it ends, and not before; what the
  operator confirmed is what the server begins; what is split over days, models, keys or clients adds up.
- *Instances*: processes and statuses come to what the rows ask for, tokens refreshed on disk are
  stored and not overwritten by older ones, an account never runs twice.

## 2. Modules

**InflightCounters** has one operator per Redis command. `inflight_release` is two commands (DECR,
and DEL when the result is not positive), and so are its operators; a missing key and the
value 0 are one value, as for Redis' INCR.

**Gateway** composes them with the request path. A request identity walks through `pc`, one action
per `.await` of `proxy` and `acquire_account`: key slot, body, pin lookup, selection, the account's
slot, the send, the mark-refresh-retry path, the relayed stream, and the Observer's settlement at the end of the stream or
at its drop. `todo` and `wipe` count the spawned releases that are still to DECR and to
DEL. `holds[r]` is a history variable: the slots a request has taken and not given
back, which the counters are meant to count. `Env` chooses what the environment does: row changes,
snapshot loops, disconnects (the handler's future is dropped), crashes of a replica, missing
runners, failing Redis commands (applied or not) and requests that outlive the counter's TTL.
The rpm check is a nondeterministic verdict; header relaying and token parsing are data.

**JobLeader** is the job loop of the two replicas: read the marker, release or acquire (SET NX,
then the compare-and-extend script), tick, sleep, each Redis command a step of its own, with the
lease as a clock. A tick is one interval here; what it does is in Instances.

**SlotDeploy** extends JobLeader with the controller of `abctl.py`. `ctl` is its next command and
`op` the journal; a durable write, a Redis or HAProxy command and a `compose up` are a step each.
`Stop` abandons the operation between any two of them: a failing command, a timeout and the death of
the process leave the same files. `resume` starts the journaled stage from its first command.
Replicas restart, HAProxy restarts and reads `active.map`, requests come and go. **SlotSwitch** is
what a release promises, in three variables: the slot that serves, what each slot runs, the
requests on each. SlotDeploy implements it (`ImplementsSwitch`).

**ControlServer** is who may run an operation and what others are told: client requests
(lock, recheck, launch), the job thread, `--direct` processes, and the status request with its cache,
its probe of the lock (which takes the lock) and its three reads. What an operation does to the slots is
abstracted to: journal, work, finish or stay unfinished.

**Instances** has the supervisors' process tables and auth.json files, the account rows and the
workers: the tick and the administrators. A worker keeps the copy of the row it read, and each call of
a runner or statement of Postgres is a step. The order in which a tick visits accounts is left open.

**DeployPage** is the page before the surface of the control service. A read of the status is numbered, may be
overtaken by the next poll, and is answered from the service's cache or its state at some moment; `late` is
the read that was overtaken. `dialog` keeps what the operator was shown while the status changes beneath it. A post is received, refused or
accepted, carried out in the service beside other operators' operations, and replied to, or lost. The job is reduced to its
moments that the page can tell apart: accepted, begun, cut over in `active.map`, cut over in HAProxy, ended.

**AdminShell** has tabs that share one stored token: the check at the gate, login, logout, the server's sessions and
their expiry, and the import of a page's module that a release may have removed, with the reload by `main.tsx` and
its marker in sessionStorage.

**Panel** is what the pages share: `useResource` (read, superseded read, failure), a request per call with its
receipt by the server and its reply as two steps, the confirmation dialog, and the mounting of one page at a time: the reply to a
page that was left finds nothing to change. **KeysPage**, **RunnersPage** and **AccountsPage** add their handlers.
Of rows the model keeps how often each table changed: `list.data` is the count a list was read at, `told` the count at the
last change that was reported to the operator.

**UsageDialog** and **UsagePage** are the loads of the dialog (three resources, each discarding answers in its own way,
and the redemption of a voucher) and of the pages of usage and overview. Of an answer they keep what was asked.
**UsageReports**, **UsageRecords**, **UsageTabs** and **QuotaFigures** are pure: what the server's queries return for a history of
requests, and what the tabs, the list, the estimate and the health bar compute from what they get. **AdminPanel**
composes all of these. Its three groups share no state, so an instance uses one of them at a time (`Untouched`).

Definitions marked *Slip* are plausible mistakes. No specification uses them; they
are what `PROJECT.json` replaces a definition by to see that a property can fail.

## 3. Runs

| run | configuration | checks |
| --- | --- | --- |
| `gateway_accounting` | three requests of one key (limit 2), one account (limit 1), identities reused for ever | types; counters against slots held; the key's limit up to lost slots; all slots returned; counters drift only by a DEL or an expiry; refusals only when full |
| `gateway_faults` | two requests on two replicas, every fault, follow-ups by response id | account caps up to lost slots, one usage record |
| `gateway_turns` | two requests, three accounts, sessions, fair | at most three attempts, none twice, a pinned one alone; sessions stay on their account; every request ends with nothing held |
| `deploy_release` | two images, two faults of stop, replica and HAProxy restarts, failing Redis commands | the journal is true, agreement when idle, one tick, no stream killed, nothing unvetted served, rollback point, refinement of SlotSwitch |
| `deploy_progress` | one image, one fault, fair | operations end, jobs follow the marker, the standby is idle between operations |
| `instances_converge` | one account, one operation, two faults of seven kinds, fair | processes, rows and tokens converge |
| `instances_move` | two runners; move, stop, enable, disable, delete; one fault | never on two runners |
| `control_operate` | a client, a panel, an operator with `--direct`, one death, fair | one operation, unfinished journals kept, following ends |
| `page_operations` | two operations of the page, one of another operator, a failure and a change of page, two of these events in all, fair | one request at a time; moves as confirmed; answers shown in order; the page catches up |
| `panel_shell` | two tabs, two logins, a failure, two missing modules, a reload, fair | a token given up is not stored again; no tab waits at the gate or for a module |
| `panel_pages` | two requests of a page and an event; or three choices in the dialog; or four looks at the usage and overview pages; fair | one save per page; changes told are shown; what is shown is what was asked; waits end; figures and records add up; what is sorted and paged shows all of it; the estimate's bounds hold |
| `instances_refresh` | a refresh and a crash | *violated*: refreshed tokens are kept |

**Bounds.** Three requests are needed for the race of DECR and DEL: one whose release erases the
INCR of a second, and a third that passes the cap; with `Recycling` the identities come back, so the
run has no bound on the number of requests. In `gateway_turns`, `MaxTries = 2` (the code's 3) with three accounts
leaves one account more than the retry loop may use. Two images tell the old version from the new and the rollback point from both; a
second fault hits the resumption after the first. `MaxConns = 1` is enough to tell a drained slot from a busy
one. `LeaseTTL = 2` (1 where liveness is checked) lets a lease lapse between any two steps. One account is enough in Instances:
accounts share only the tick, whose order is open; `SyncEvery = 2` stands for every fourth tick: what matters is
that some ticks do not sync. `MaxToken`, `MaxOps`, `MaxFaults`, `MaxRequests`, `MaxViews` and
`MaxCrashes` bound what comes from outside. On the deployment page two operations make the second reply meet what
the first left; two events put a failure or another operator's move between any two of its steps. In the panel a page needs two
requests to let their replies cross; three clicks in the dialog change its account, range or filter
while a load is on its way and change it back; four looks do the same for the usage page and its hours. The pure
operators are evaluated over all inputs of MCAdminPanel: settlements of up to two days with every form of breakdown (none, zero,
partial), health listings of three buckets on and off their boundaries, cycles that end, begin and go stale around the probe, probes
with each window used, past or unknown, lists of up to seven rows in pages of one to three, pools of two accounts, and histories of up to four of seven requests, which lie
on the boundaries of hours, days, ranges and pages in two time zones, with and without a key, model or first token. `Whole = 60` makes each
split of the settlements exact. They are functions of
what was loaded, so they are evaluated where it is first complete (`FirstShown`). Deadlock checking is off where a bound lets the model run
out of requests, operations or polls.

**Fairness.** Gateway: tokio polls a handler or task that can go on, and upstream calls and bodies are cut by
timeouts (900 s by default), so `WF` of each request's handler and of its tasks. SlotDeploy: an operator
resumes what stopped and starts no switch forever (`WF` of the controller, resumption included), containers become
ready, streams end (`SF`, since new ones may come meanwhile), the job loops and Redis' clock go on. Instances:
the job loop runs and its calls time out after 30 s, an administrator's request is carried through, processes boot,
the reaper polls. ControlServer: threads run, every wait of an operation is bounded by a timeout, a sleep ends.
DeployPage: timers fire, an answered request is delivered (`SF` for the newest read, its
delivery and the reply, since a poll each five seconds may take a slow read's place, but a service that answers is not always slower
than that), jobs end, the cache expires. AdminShell and AdminPanel: the server answers or the connection fails, and what arrives is
handled; a module is loaded or its import fails.
Nothing is assumed about when requests, faults, polls or new operations come.

## 4. Proofs

Eight modules of proofs prove, for every value of the constants that the named assumptions allow, each safety and action
property that a passing run checks, but for `RecordsShown`. A theorem of a module named `XProofs` is about the specification of `X`.

- `Gateway` (`GatewayProofs`): `TypeCorrect`, `NoPhantom`, `CapCorrect`, `KeyCapCorrect`. The inductive invariant is
  `StageInv`: types, that a request past selection has an account, that a row read by a refresh is a set of accounts, and
  that a handler about to take a slot does not hold it. `TypeOK` is not inductive alone: a request
  at "send" without an account would decrement nothing's counter. `SlotStep` then says
  of every step that it takes one slot with its INCR, gives one back with its DECR, only lowers a counter or
  leaves both alone; the counting theorems follow from it and the theorems on finite sets.
  `CapCorrect` compares two sets of requests across a step (`CapStep`): a request joins those under the cap
  only where the INCR returned at most the limit (`Joining`).
- How a request of `Gateway` ends (`GatewayProofs` too): `RecordedCorrect`, `RefusalCorrect`, `RetryCorrect`, `DriftCorrect`,
  `ReturnCorrect`, `SessionCorrect`. The invariants speak of one request: by `Frame` a step of the system is the request's own, leaves its
  state alone, or stops it with its replica, so only its own steps are to be looked at. `Recorded` ties
  the usage record to the answer and to whether the observer has settled, at every stage. `RetryOK` adds to `RetryDiscipline`
  what carries it from one attempt to the next: until something is answered the attempts are below the limit, a candidate
  is none of the accounts tried, and a pin is looked up before it is followed. `LedgerInv` says what is owed: each slot is given back by the
  handler or by one task, never both, and is held as long (`Owes`); so no step but a DEL or an expiry, which leave 0, makes a
  counter differ from its slots (`DriftCorrect`). `Accounted` is the converse, that what is held is owed, from which
  `ReturnCorrect` follows. `PinInv` says that a session's token is stored before its client has it and that a request
  that carries one follows it after the lookup. `RefusalCorrect` needs no invariant of its own: it is a step of `NoPhantom`.
- `SlotDeploy`: `TypeCorrect`, `JournalCorrect`, `Agreement`, `StreamsKept`, `Vetted`, `Rollback`, `Refinement`.
  The invariant is `JournalInv == TypeOK /\ JournalTrue`, where `JournalTrue` says for each stage and next
  command what holds of the files, the maps, the marker and the containers. It is both the most important property
  (whatever stopped, the journal can be resumed from) and inductive; `JournalStep` has one
  lemma per group of actions. The others are consequences of it, or of it and one step. `Refinement`
  takes it to show that each step of the controller maps to a step of SlotSwitch or a stutter. Of the background jobs:
  `OneAtWork`, where the invariant is that who ticks holds the lease (`HolderTicks`), and `StandbyAtRest`, where it is that
  a slot is quiet, and stays so as the marker names the other, from its recreation until it is retired (`QuietInv`).
- `ControlServer`: `ControlTypes`, `OneAtATime`, `JournalKept`. `LockInv` says who holds deploy.lock by where each actor
  stands: a client between taking the lock and launching, whoever probes it, and whoever runs an operation. Without the
  first two, which are no operation, `OneOperation` is not inductive.
- `Instances`: `InstancesTypes`, `OneRunnerOnly`. `HoldingsOK` adds to the types what a worker's next statement needs of the answer it
  holds, and that a listed account was not deleted when it was listed. `OnceInv` says that what the tick is about to start, or may
  still decide to start, runs nowhere: of the runners asked so far while it asks, of all of them while it decides.

- `DeployPage`: `PageInvariant`, `OneAtATime`, `Confirmation`, `InOrder`. The invariant `PageInv` adds to types and the two
  properties `MeantOnly` (every operation in a dialog, a post or the job that names two slots names a slot and the
  other one) and `ReadsInOrder` (the answer shown is not newer than the newest read, nor than the service). `Confirmation` needs
  the first: the service checks that the active slot is the one named, and only then is the target the one shown.
- `AdminShell`: `LogoutFinal`. `ShellInv` adds that tokens are those of logins that were made (`Issued`) and that the
  session of a login under way is none that was given up (`FreshIsNew`), for any number of tabs, logins and failures.
- `AdminPanel`: `PanelTypes`, `SaveOnce`, `ChangesShown`, `AskedIsShown`. `PanelInv` has a part for each group of state. `PagesInv`: the
  mounted page's requests are its own, at most one of them is a save, and what it was told of is no newer than the table, nor, unless a
  refresh is due, than the list it shows or the answer on its way (`ListInv`). `DialogInv`: the ask that a part of the dialog
  attends to, the one of its newest number, is for what the dialog is set to, so whichever answer is let in is the right one. `WatchInv`: the
  same for the usage page and its hours. `FiguresAreWhole` and `EstimateIsSound` are facts of the operators, proved in `UsageReportsProofs`.
- `UsageReports`, `UsageRecords`, `UsageTabs` (`UsageReportsProofs`): `SplitsAreWhole`, `BarsAreWhole`, `ListsAreWhole`, `RecordsAreWhole`,
  and `BoundsAreSound` of the estimate, for every settlement, history, listing, cycle and list that the types admit. They are
  about sums, and a sum is a fold over a set by a `CHOOSE`. That a sum gains by an element what the element adds is an induction over the subsets of
  a finite set; it is stated with a set of subsets in place of a predicate (`Growing`), which the provers can instantiate.
  From it follow the exchange of two sums (`SplitsAreWhole`), the sum over groups (`SumGroups`, `SumOfGroups`) and over records
  that a bijection numbers (`SumRecords`). A table of the server has one row for each group of requests (`HasRows`); a column that
  is the sum of its group adds up to that of the totals (`RowsAgree`), so the work is to show that two groups give two rows and that a column is such a sum
  (`PricedColumns`). For the health bar the groups are the starts of buckets, and a moment is past the start of a bar exactly when its
  bucket is (`FloorReaches`).

**Hypotheses.** Some theorems hold only where the environment spares what the code relies on. Each hypothesis is that of the runs that check the property;
outside it the property fails:

| theorem | hypothesis | without it |
| --- | --- | --- |
| `DriftCorrect`, `ReturnCorrect`, `SessionCorrect` | no Redis command fails (`"redis" \notin Env`) | a pinned turn whose INCR fails goes on without a slot and gives one back all the same; a release that fails, or an INCR that was applied and reported as failed, is not made good; a failed lookup leaves a turn without its pin |
| `ReturnCorrect` | a listed account has its runner (`"runner" \notin Env`) | the 502 for a missing runner returns without giving the account's slot back |
| `OneAtWork` | a tick ends before its lease (`"slow" \notin LeaderEnv`) | section 6 |
| `StandbyAtRest` | Redis' reads succeed (`"redis" \notin LeaderEnv`) | a failed read of the marker counts as no marker, and either slot may acquire |
| `OneRunnerOnly` | no answer of a runner is lost, and administrators start nothing (`Kinds` without start and restart) | a runner that does not answer is taken to run nothing; an administrator's start asks no other runner |

Assumptions on the constants: `PageAssumption`, `NoneAssumption`, `ShellAssumption`, `SetsAssumption` (finite requests, keys and accounts that differ, natural limits,
at least one attempt), `TTLAssumption`, `LeaderAssumption`, `DeployAssumption`, `ControlAssumption` (clients, viewers and operators are different
actors), `InstancesAssumption`, `PanelAssumption`, `DialogAssumption` (no answer is taken for none), `ReportsTyped`, `HistoriesTyped` (finitely
many requests, none later than now, cached input no more than input), `PoolsTyped`, `WholeDivides` (`Whole` is a multiple of every day's sum of shares
and the credits are multiples of `Whole`: the code divides floating-point numbers, the model whole ones, which then divide without rest). TLC evaluates them in every run.

Model-checked only: every liveness property (`RequestsSettle`, `OperationCompletes`, `JobsFollow`, `Converges`,
`AuthSynced`, `FollowEnds`, `CatchesUp`, `GateOpens`, `WaitsEnd`), which is out of the prover's reach, as is ENABLED; and
`RecordsShown`. It is about lists that are sorted, ranked and cut into pages of them. They are sorted by `SortSeq` of module TLC, which is defined by a choice that exists only
where no two different rows compare equal; the tables have such rows (SQL and `Array.sort` take ties in some order, and TLC evaluates one), so nothing follows from the definition.
The type invariants of SlotDeploy, Instances, ControlServer, DeployPage and the panel (`PanelTypeOK`) are proved, and no run spends a check on them.

## 5. What was found

*Refreshed tokens may be overwritten* (`instances_refresh`). `start` compares the file with the row by equality
of the access token. If Codex refreshed after the last sync and the process died, the older tokens of the row replace the
newer ones, against the comment at supervisor.rs:107-108.

## 6. Further questions

The modules state claims of the documentation that no listed run checks. TLC refutes each of them in
seconds with the constants given here, the others as in a run of the same module.

| property | constants | what happens |
| --- | --- | --- |
| `TurnsWithinCap` (README.md:165-167) | as `gateway_accounting` | DECR and, on zero, DEL are two commands; an INCR between them is erased and one more request fits. What holds, and is proved, is `CapUpToLostSlots`: the excess is at most the slots Redis has lost |
| `ResponsePinned` (README.md:170) | `Kinds = {"resp"}`, two accounts | the response id is stored by a task after the stream has ended; a quick follow-up is not pinned |
| `LostSlotExpires` (cache.rs:32-33) | `FairSpec`, `Env = {"crash"}`, two replicas, `TTL = 2`, `Recycling = TRUE` | every acquire, refused ones included, renews the expiry of a crashed replica's slot |
| `OneTick` with `LeaderEnv = {"slow"}` (jobs.rs:1-2) | no faults | a tick outlives the lease it runs under |
| `JobsHandedOver` (README.md:124-125) | `Faults = {"sick"}` | the old slot looked at the marker before it changed and acquires after the controller saw the lock free |
| `UnhealthyRestarted` (gateway.rs:314-315) | `Faults = {"hang"}`, `FairSpec` | a process that is alive and does not answer is never restarted |
| `EnabledRuns` (README.md:72-73) | `Kinds = {"move"}`, two runners, `FairSpec` | an account moved while it runs counts as running, wherever that is |
| `DeletedStops` (Accounts.tsx:221) | `Kinds = {"delete"}`, `FairSpec` | a tick that had listed the account starts it after its deletion |
| `FollowReportsOutcome` (abctl.py:934, control_server.py:97) | `Actions = {"deploy", "runner"}`; or `MaxCrashes = 1`, or `Viewers = {v}` | a roll that succeeds beside an unfinished operation is reported as a failure; or the service restarts before the operation journaled itself, or a status read before it started is cached after it: exit 0 |
| `RefusedOnlyWhenBusy` (abctl.py:175) | `Viewers = {v}` | the probe of the lock holds the lock when the request asks for it |
| `LockedMeanwhile` (Deployment.tsx:814-884) | as `page_operations` | the read that must confirm an operation is overtaken, or answered from the service's cache: the buttons are unlocked while the operation runs (the service still refuses a second) |
| `ReloadsOnce` (main.tsx:16-17) | as `panel_shell` | the marker is cleared by the load event of the reloaded page (main.tsx:35-41), which may come before the missing module is asked for again: the tab reloads again, as often as the module is missing |
| `QuotaOfAccount` (AccountUsageDialog.tsx:106) | as `panel_pages` | the answer to a quota probe of the account shown before is merged into the figures of the one shown now (lines 84-96) |

Others were met while the code was translated; the models have this behaviour and no property speaks of it.

- *Figures.* A range of n days is a rolling 24·n hours (admin_usage.rs:79-87) and touches n+1 calendar days, so the active days
  may read 8 / 7 (OverviewTab.tsx:54-63). The seven-day official sum (official.rs:287) is labelled with the length of the
  primary window, e.g. "30d:" (Accounts.tsx:131, quota.ts:78-85). QualityTab.tsx:47 gives the number of streams as the sample of
  the time to first token, though streams without one are not in the average. A day whose shares are all 0 counts in the divisor of
  the average shares (OfficialTab.tsx:107-111). The estimate counts the whole first day of a cycle and does not see that a window
  has reset since its probe (quota.ts:87-133). The overview's capacity counts a disabled account that still runs while its
  lane says stopped (Overview.tsx:22, 60).
- *Loads.* Polls that take longer than five seconds are superseded before they are answered, on the deployment page and the overview.
  The usage page shows the old hours' tables under the new choice while it loads. The request list stays on a page past its end when the
  total shrinks, and its retry button changes nothing when the page is the first (RequestsTab.tsx:21-46). Entering the official tab again
  synchronises again (OfficialTab.tsx:187).
- *Requests.* The reply to a save closes whichever editor is open; one `busy` id lets a second action start on a row; a draft
  overwrites what others changed, the whole row being sent; a key's secret is lost when its page is left during the
  creation. A failed logout leaves a dashboard without a token, a 401 never returns to the login, and a logout in one tab removes a
  token that another has just stored. Each redemption uses a fresh id (admin_usage.rs:276), so a repetition of one whose answer was lost is not
  recognised by the upstream (wham.rs:140-141).

## 7. Not modelled

- Postgres failures in Instances (each statement succeeds), and a change of an account's port.
- The quota, daily usage and pruning parts of the tick, the upstream's side of a redemption, pricing and the rate limiter's windows.
- GET /releases and the release list on both sides: a cache of a registry listing.
- Account selection by load: the order of candidates is open in `PickAccount`, so every order the load can give is
  checked.
- The contents of drafts and rows (a list is the moment it was read at), the suggested port, the accounts page's poll of the
  health bars, toasts beyond the outcome they report.
- Rendering: charts, pickers, comboboxes, layout, theme, fonts, formatting. Some of these components are used by no page (the
  date and time pickers, the async combobox, the multi-select, the sheet, the tabbed settings layout).
- Sticky TTLs, header relaying, usage parsing, logs, argument parsing.
- The moments of a report's queries: they run side by side on snapshots of their own (admin_usage.rs:114-123), the model's on one. What
  is proved of an answer holds when nothing is recorded between them; otherwise its parts may differ by what was.
- The token checks of the services: fixed refusals without state.

## 8. Plan

Done: InflightCounters, Gateway, JobLeader, SlotDeploy, SlotSwitch, ControlServer, Instances, DeployPage, AdminShell, the panel's
pages and reports; proofs of every safety and action property that the runs check, but for what is sorted and ranked (`RecordsShown`).

1. Proofs: what holds of the tick where administrators start instances too (an account runs on two runners for as long as two of them
   have started it), and of the counters where commands of Redis fail (how far a counter may fall below its slots).
2. DeployPage over ControlServer: the surface it assumes of the service, shown to be implemented by ControlServer.
3. `OfficialUsage`: quota probes by tick and administrator, merge of failed probes, day rows with the backfill flag
   and `settled`, redemption with its local check. Properties: a failed probe keeps the last good numbers, shares of a day are
   not lost to a failed breakdown, the backfill ends and is not repeated.
4. Instances with failing Postgres statements and port changes; SlotDeploy with the runner roll.
5. An abstract specification of the counters (a set of holders per counter) that `Gateway` implements up to lost slots, and one of
   the pool (desired against actual) for Instances.
