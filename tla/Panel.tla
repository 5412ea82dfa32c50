-------------------------------- MODULE Panel --------------------------------
(***************************************************************************)
(* What the panel's pages with a list and an editor are built from: the    *)
(* list fetched by useResource, the requests a page sends through          *)
(* apiRequest, the confirmation dialog above all pages, and the dashboard  *)
(* that mounts one page at a time.  KeysPage, RunnersPage and AccountsPage *)
(* add the handlers of each page, and AdminPanel puts them together.       *)
(*                                                                         *)
(* Of the server's rows the model keeps how often each table changed; a    *)
(* request that leaves a page (another is mounted) still runs, and its     *)
(* reply finds nothing to change.                                          *)
(***************************************************************************)
EXTENDS Naturals, FiniteSets

CONSTANTS
    None,
    Rows,       \* rows an operator may pick
    MaxCalls,   \* bound on the requests of the panel
    MaxEvents   \* bound on failures, changes made elsewhere and changes of page

Pages   == {"keys", "runners", "accounts"}
New     == "new"                 \* the editor of a row that is to be created
Pending == [kind |-> "pending"]
Failed  == [kind |-> "failed"]
Got(v)  == [kind |-> "got", ver |-> v]

ASSUME PanelAssumption ==
    /\ MaxCalls \in Nat /\ MaxEvents \in Nat
    /\ New \notin Rows /\ None \notin Rows /\ None # New
    /\ None \notin {Pending, Failed} /\ None \notin [kind : {"got"}, ver : Nat]

VARIABLES
    ver,       \* how often each table has changed
    page,      \* the page mounted
    list,      \* its list: what it shows, its newest read, whether that failed
    hosts,     \* the runners the accounts page has read for its editor
    editing,   \* the row in the editor
    saving,    \* a save is on its way
    formError, \* the editor shows a failure
    asked,     \* the row whose deletion the dialog asks about
    calls,     \* requests on their way
    told,      \* the last change this page was told it made
    soon,      \* a refresh is due in 800 ms
    busy,      \* the row an action runs on
    logs,      \* the row whose log is shown
    revealed,  \* a created key's secret is shown
    spent      \* the bounds

editor == <<editing, saving, formError>>
extras == <<soon, busy, logs, revealed>>
vars   == <<ver, page, list, hosts, editor, asked, calls, told, extras, spent>>

Whats == {"create", "update", "delete", "action", "logs"}
Saves == {"create", "update"}

Maybe(S) == S \cup {None}

TypeOK ==
    /\ ver \in [Pages -> Nat]
    /\ page \in Pages
    /\ list \in [data : Maybe(Nat), error : BOOLEAN,
                 read : {None, Pending, Failed} \cup [kind : {"got"}, ver : Nat]]
    /\ hosts \in {"asked", "some", "none"}
    /\ editing \in Rows \cup {New, None} /\ saving \in BOOLEAN /\ formError \in BOOLEAN
    /\ asked \in Maybe(Rows)
    /\ \A c \in calls :
          c \in [id : Nat, page : Pages, what : Whats, row : Rows \cup {New}, mounted : BOOLEAN,
                 reply : {None, "ok", "failed"}, at : Nat]
    /\ told \in Nat
    /\ soon \in BOOLEAN /\ busy \in Maybe(Rows) /\ logs \in Maybe(Rows) /\ revealed \in BOOLEAN
    /\ spent \in [calls : 0..MaxCalls, events : 0..MaxEvents]

Event ==
    /\ spent.events < MaxEvents
    /\ spent' = [spent EXCEPT !.events = @ + 1]

-----------------------------------------------------------------------------
(***************************************************************************)
(* useResource: the list of the mounted page.                              *)
(***************************************************************************)
Fresh == [data |-> None, error |-> FALSE, read |-> Pending]

\* Slip: a refresh during a read waits for that read.
refreshUnlessLoading ==
    list' = IF list.read = None THEN [list EXCEPT !.read = Pending, !.error = FALSE] ELSE list

\* The read before is cancelled: whatever it is answered is dropped.
refresh == list' = [list EXCEPT !.read = Pending, !.error = FALSE]

loading == list.read # None

\* The server answers the read of the list.
ListAnswered ==
    /\ list.read = Pending
    /\ \/ list' = [list EXCEPT !.read = Got(ver[page])] /\ UNCHANGED spent
       \/ list' = [list EXCEPT !.read = Failed] /\ Event
    /\ UNCHANGED <<ver, page, hosts, editor, asked, calls, told, extras>>

\* The answer arrives; what was shown stays when it is a failure.
ListArrives ==
    /\ list.read \notin {None, Pending}
    /\ list' = IF list.read = Failed THEN [list EXCEPT !.read = None, !.error = TRUE]
               ELSE [data |-> list.read.ver, error |-> FALSE, read |-> None]
    /\ UNCHANGED <<ver, page, hosts, editor, asked, calls, told, extras, spent>>

\* The table, with the buttons of its rows, is on the screen.
Listed == list.data # None /\ ~list.error

Reload == refresh /\ UNCHANGED <<ver, page, hosts, editor, asked, calls, told, extras, spent>>

\* ErrorState's retry, in place of the table.
Retry == list.error /\ Reload

-----------------------------------------------------------------------------
(***************************************************************************)
(* Requests that change something.                                         *)
(***************************************************************************)
Call(what, row) ==
    [id |-> spent.calls + 1, page |-> page, what |-> what, row |-> row, mounted |-> TRUE,
     reply |-> None, at |-> 0]

Send(what, row) ==
    /\ spent.calls < MaxCalls
    /\ spent' = [spent EXCEPT !.calls = @ + 1]
    /\ calls' = calls \cup {Call(what, row)}

Replied(c, reply, at) == calls' = (calls \ {c}) \cup {[c EXCEPT !.reply = reply, !.at = at]}

\* A request arrives and is done, is refused or lost, or is done and its reply lost.
Receive(c) ==
    /\ c.reply = None
    /\ \/ /\ ver' = IF c.what = "logs" THEN ver ELSE [ver EXCEPT ![c.page] = @ + 1]
          /\ \/ Replied(c, "ok", ver'[c.page]) /\ UNCHANGED spent
             \/ Replied(c, "failed", 0) /\ Event
       \/ /\ UNCHANGED ver
          /\ Replied(c, "failed", 0) /\ Event
    /\ UNCHANGED <<page, list, hosts, editor, asked, told, extras>>

\* Another operator, another tab, the background jobs.
Elsewhere ==
    /\ Event
    /\ ver' = [ver EXCEPT ![page] = @ + 1]
    /\ UNCHANGED <<page, list, hosts, editor, asked, calls, told, extras>>

\* A reply to the page that sent it, or to a page that has gone.
Returns(c, p, whats) == c.page = p /\ c.what \in whats /\ c.mounted /\ c.reply # None

ReturnLeft(c) ==
    /\ ~c.mounted /\ c.reply # None
    /\ calls' = calls \ {c}
    /\ UNCHANGED <<ver, page, list, hosts, editor, asked, told, extras, spent>>

\* The change is made known: the page has been told of it.
Tell(c) == told' = IF c.at > told THEN c.at ELSE told

-----------------------------------------------------------------------------
(***************************************************************************)
(* The confirmation dialog and the editor, as every page uses them.  Both  *)
(* are modal.                                                              *)
(***************************************************************************)
Modal == editing # None \/ asked # None

confirm(row) == Listed /\ ~Modal /\ asked' = row

Declined ==
    /\ asked # None /\ asked' = None
    /\ UNCHANGED <<ver, page, list, hosts, editor, calls, told, extras, spent>>

OpenEditor(row) ==
    /\ ~Modal /\ (row \in Rows => Listed)
    /\ editing' = row /\ formError' = FALSE
    /\ UNCHANGED <<ver, page, list, hosts, saving, asked, calls, told, extras, spent>>

\* Escape closes the editor while a save is on its way too.
CloseEditor ==
    /\ editing # None /\ editing' = None
    /\ UNCHANGED <<ver, page, list, hosts, saving, formError, asked, calls, told, extras, spent>>

\* The dashboard mounts another page: nothing of the former page's state is kept.
Open(p) ==
    /\ ~Modal /\ p # page
    /\ Event
    /\ page' = p /\ list' = Fresh /\ hosts' = "asked"
    /\ editing' = None /\ saving' = FALSE /\ formError' = FALSE
    /\ calls' = {[c EXCEPT !.mounted = FALSE] : c \in calls}
    /\ told' = 0 /\ soon' = FALSE /\ busy' = None /\ logs' = None /\ revealed' = FALSE
    /\ UNCHANGED <<ver, asked>>

Init ==
    /\ ver = [p \in Pages |-> 0]
    /\ page \in Pages /\ list = Fresh /\ hosts = "asked"
    /\ editing = None /\ saving = FALSE /\ formError = FALSE /\ asked = None
    /\ calls = {} /\ told = 0 /\ soon = FALSE /\ busy = None /\ logs = None /\ revealed = FALSE
    /\ spent = [calls |-> 0, events |-> 0]
=============================================================================
