--------------------------- MODULE AdminPanelProofs ---------------------------
(***************************************************************************)
(* Theorems about AdminPanel, for any rows, accounts and ranges and any    *)
(* number of requests, failures and clicks: the pages of keys, runners and *)
(* accounts, the usage dialog and the usage page, a part at a time, and    *)
(* the figures of UsageReports that they show.  What UsageTabs and         *)
(* QuotaFigures compute ranks and sorts rows, and stays with TLC.          *)
(***************************************************************************)
EXTENDS AdminPanel, UsageReportsProofs, FiniteSetTheorems, TLAPS

USE DEF editor, extras

-----------------------------------------------------------------------------
(* The pages of keys, runners and accounts. *)

CallRecord == [id : Nat, page : Pages, what : Whats, row : Rows \cup {New}, mounted : BOOLEAN,
               reply : {None, "ok", "failed"}, at : Nat]

GotRecord == [kind : {"got"}, ver : Nat]

\* The mounted page's saves that are on their way.
Mine == {c \in calls : c.mounted /\ c.what \in Saves}

\* A mounted page's requests are its own, and it has at most one save among them.
CallsInv ==
    /\ \A c \in calls : c.at <= ver[c.page] /\ (c.mounted => c.page = page)
    /\ \A c \in calls : c.what = "logs" => c.row \in Rows
    /\ \A c, d \in Mine : c = d
    /\ saving <=> Mine # {}

\* What the page was told of is no newer than the table; unless a refresh is due, the list on
\* the screen has it, or the answer that is on its way to the page, or the one it is owed.
ListInv ==
    /\ told <= ver[page]
    /\ list.read = None /\ ~list.error => list.data \in Nat
    /\ ~soon /\ list.read = None /\ ~list.error => told <= list.data
    /\ ~soon /\ list.read \in GotRecord => told <= list.read.ver

PagesInv == TypeOK /\ CallsInv /\ ListInv

LEMMA PagesInit == Init => PagesInv
<1> SUFFICES ASSUME Init PROVE PagesInv
  OBVIOUS
<1>1. TypeOK
  <2>1. /\ ver \in [Pages -> Nat] /\ page \in Pages /\ hosts \in {"asked", "some", "none"}
        /\ editing \in Rows \cup {New, None} /\ saving \in BOOLEAN /\ formError \in BOOLEAN
        /\ asked \in Maybe(Rows) /\ calls = {} /\ told \in Nat
        /\ soon \in BOOLEAN /\ busy \in Maybe(Rows) /\ logs \in Maybe(Rows) /\ revealed \in BOOLEAN
    BY DEF Init, Maybe
  <2>2. list \in [data : Maybe(Nat), error : BOOLEAN, read : {None, Pending, Failed} \cup GotRecord]
    BY DEF Init, Fresh, Maybe
  <2>3. spent \in [calls : 0..MaxCalls, events : 0..MaxEvents]
    <3>1. 0 \in 0..MaxCalls /\ 0 \in 0..MaxEvents
      BY PanelAssumption
    <3> QED
      BY <3>1 DEF Init
  <2> QED
    BY <2>1, <2>2, <2>3 DEF TypeOK, GotRecord
<1>2. calls = {} /\ saving = FALSE /\ told = 0 /\ ver[page] = 0
  BY DEF Init
<1>3. list.read = Pending /\ Pending # None /\ Pending \notin GotRecord
  BY PanelAssumption DEF Init, Fresh, Pending, GotRecord
<1> QED
  BY <1>1, <1>2, <1>3 DEF PagesInv, CallsInv, Mine, ListInv

-----------------------------------------------------------------------------
(* A step of the pages, by what it does to the list, the requests and what the page was told. *)

\* Nothing of these.
Aside == UNCHANGED <<ver, page, list, calls, told, soon, saving>> /\ (UNCHANGED spent \/ Event)

\* The page sends a request; a save only while none is on its way.
Sends(what, row) ==
    /\ Send(what, row) /\ what \in Whats /\ row \in Rows \cup {New}
    /\ what = "logs" => row \in Rows
    /\ UNCHANGED <<ver, page, list, told, soon>>
    /\ IF what \in Saves THEN ~saving /\ saving' = TRUE ELSE UNCHANGED saving

\* The reply to a request of the page: a success refreshes the list now or soon.
Comes(c) ==
    /\ c \in calls /\ c.mounted /\ calls' = calls \ {c}
    /\ saving' = IF c.what \in Saves THEN FALSE ELSE saving
    /\ \/ refresh /\ UNCHANGED soon /\ Tell(c)
       \/ soon' = TRUE /\ UNCHANGED list /\ Tell(c)
       \/ UNCHANGED <<list, soon, told>>
    /\ UNCHANGED <<ver, page, spent>>

Rereads == refresh /\ soon' \in {soon, FALSE} /\ UNCHANGED <<ver, page, calls, told, saving, spent>>

LEMMA PageSteps ==
    ASSUME TypeOK, PagesNext
    PROVE  \/ Aside \/ Rereads
           \/ \E what \in Whats, row \in Rows \cup {New} : Sends(what, row)
           \/ \E c \in calls : Comes(c) \/ Receive(c) \/ ReturnLeft(c)
           \/ ListAnswered \/ ListArrives \/ Elsewhere
           \/ \E p \in Pages : Open(p)
<1> USE DEF Whats, Saves
<1>1. CASE KeysNext
  <2>1. CASE KeySave
    <3>1. editing \in Rows \cup {New}
      BY <2>1 DEF KeySave, TypeOK
    <3> QED
      BY <2>1, <3>1 DEF KeySave, Sends
  <2>2. CASE KeyRemoveConfirmed
    <3>1. asked \in Rows
      BY <2>2 DEF KeyRemoveConfirmed, TypeOK, Maybe
    <3> QED
      BY <2>2, <3>1 DEF KeyRemoveConfirmed, Sends
  <2>3. CASE ~KeySave /\ ~KeyRemoveConfirmed
    BY <1>1, <2>3
    DEF KeysNext, KeyEditor, OpenEditor, KeyRemove, KeyEditorClosed, CloseEditor, KeySaveInvalid,
        DismissSecret, Aside
  <2> QED
    BY <2>1, <2>2, <2>3
<1>2. CASE RunnersNext
  <2>1. CASE RunnerSave
    <3>1. editing \in Rows \cup {New}
      BY <2>1 DEF RunnerSave, TypeOK
    <3> QED
      BY <2>1, <3>1 DEF RunnerSave, Sends
  <2>2. CASE RunnerRemoveConfirmed
    <3>1. asked \in Rows
      BY <2>2 DEF RunnerRemoveConfirmed, TypeOK, Maybe
    <3> QED
      BY <2>2, <3>1 DEF RunnerRemoveConfirmed, Sends
  <2>3. CASE RefreshRunners
    BY <2>3 DEF RefreshRunners, Reload, Rereads
  <2>4. CASE ~RunnerSave /\ ~RunnerRemoveConfirmed /\ ~RefreshRunners
    BY <1>2, <2>4
    DEF RunnersNext, RunnerEditor, OpenEditor, RunnerRemove, RunnerEditorClosed, CloseEditor,
        RunnerSaveInvalid, Aside
  <2> QED
    BY <2>1, <2>2, <2>3, <2>4
<1>3. CASE AccountsNext
  <2>1. CASE AccountSave
    <3>1. editing \in Rows \cup {New}
      BY <2>1 DEF AccountSave, TypeOK
    <3> QED
      BY <2>1, <3>1 DEF AccountSave, Sends
  <2>2. CASE AccountRemoveConfirmed
    <3>1. asked \in Rows
      BY <2>2 DEF AccountRemoveConfirmed, TypeOK, Maybe
    <3> QED
      BY <2>2, <3>1 DEF AccountRemoveConfirmed, Sends
  <2>3. CASE refreshAll
    BY <2>3 DEF refreshAll, Reload, Rereads
  <2>4. ASSUME NEW row \in Rows, act(row) \/ showLogs(row)
        PROVE  \E what \in Whats : Sends(what, row)
    BY <2>4 DEF act, showLogs, Sends
  <2>5. ASSUME \/ AccountEditorClosed \/ AccountSaveInvalid \/ CloseLogs
               \/ \E row \in Rows \cup {New} : openEditor(row) \/ AccountRemove(row)
        PROVE  Aside
    BY <2>5
    DEF AccountEditorClosed, CloseEditor, AccountSaveInvalid, CloseLogs, openEditor, OpenEditor,
        AccountRemove, Aside
  <2> QED
    BY <1>3, <2>1, <2>2, <2>3, <2>4, <2>5 DEF AccountsNext
<1>4. ASSUME NEW c \in calls, Reply(c)
      PROVE  Comes(c) \/ ReturnLeft(c)
  <2>1. KeysReturn(c) => Comes(c)
    BY DEF KeysReturn, KeySaved, KeyRemoved, Returns, Comes
  <2>2. RunnersReturn(c) => Comes(c)
    BY DEF RunnersReturn, RunnerSaved, RunnerRemoved, Returns, Comes
  <2>3. AccountsReturn(c) => Comes(c)
    BY DEF AccountsReturn, AccountSaved, Acted, AccountRemoved, LogsArrive, Returns, Comes
  <2> QED
    BY <1>4, <2>1, <2>2, <2>3 DEF Reply
<1>5. CASE Retry \/ Later
  BY <1>5 DEF Retry, Reload, Later, Rereads
<1>6. CASE HostsArrive \/ Declined
  BY <1>6 DEF HostsArrive, Declined, Aside
<1> QED
  BY <1>1, <1>2, <1>3, <1>4, <1>5, <1>6 DEF PagesNext, Reads

\* The state that the handlers of a page keep for themselves.
OwnTypes ==
    /\ hosts \in {"asked", "some", "none"}
    /\ editing \in Rows \cup {New, None} /\ saving \in BOOLEAN /\ formError \in BOOLEAN
    /\ asked \in Maybe(Rows)
    /\ busy \in Maybe(Rows) /\ logs \in Maybe(Rows) /\ revealed \in BOOLEAN

SpentTypes == spent \in [calls : 0..MaxCalls, events : 0..MaxEvents]

LEMMA OwnStep ==
    ASSUME TypeOK, CallsInv, PagesNext
    PROVE  OwnTypes'
<1> USE DEF OwnTypes, TypeOK, Maybe
<1>1. CASE KeysNext
  BY <1>1
  DEF KeysNext, KeyEditor, OpenEditor, KeyRemove, confirm, KeyEditorClosed, CloseEditor, KeySave,
      KeySaveInvalid, KeyRemoveConfirmed, DismissSecret
<1>2. CASE RunnersNext
  BY <1>2
  DEF RunnersNext, RunnerEditor, OpenEditor, RunnerRemove, confirm, RunnerEditorClosed, CloseEditor,
      RefreshRunners, Reload, RunnerSave, RunnerSaveInvalid, RunnerRemoveConfirmed
<1>3. CASE AccountsNext
  <2>1. ASSUME \/ AccountEditorClosed \/ refreshAll \/ AccountSave \/ AccountSaveInvalid
               \/ AccountRemoveConfirmed \/ CloseLogs \/ \E row \in Rows \cup {New} : openEditor(row)
        PROVE  OwnTypes'
    BY <2>1
    DEF AccountEditorClosed, CloseEditor, refreshAll, Reload, AccountSave, AccountSaveInvalid,
        AccountRemoveConfirmed, CloseLogs, openEditor, OpenEditor
  <2>2. ASSUME NEW row \in Rows, act(row) \/ AccountRemove(row) \/ showLogs(row)
        PROVE  OwnTypes'
    BY <2>2 DEF act, AccountRemove, confirm, showLogs
  <2> QED
    BY <1>3, <2>1, <2>2 DEF AccountsNext
<1>4. ASSUME NEW c \in calls, KeysReturn(c) \/ RunnersReturn(c)
      PROVE  OwnTypes'
  BY <1>4 DEF KeysReturn, KeySaved, KeyRemoved, RunnersReturn, RunnerSaved, RunnerRemoved
<1>5. ASSUME NEW c \in calls, AccountsReturn(c)
      PROVE  OwnTypes'
  <2>1. LogsArrive(c) => c.row \in Rows
    BY DEF LogsArrive, Returns, CallsInv
  <2> QED
    BY <1>5, <2>1 DEF AccountsReturn, AccountSaved, Acted, AccountRemoved, LogsArrive
<1>6. CASE Reads \/ Retry \/ Later \/ Declined \/ Elsewhere \/ \E p \in Pages : Open(p)
  BY <1>6
  DEF Reads, ListAnswered, ListArrives, HostsArrive, Retry, Reload, Later, Declined, Elsewhere, Open
<1>7. ASSUME NEW c \in calls, Receive(c) \/ ReturnLeft(c)
      PROVE  OwnTypes'
  BY <1>7 DEF Receive, ReturnLeft
<1> QED
  BY <1>1, <1>2, <1>3, <1>4, <1>5, <1>6, <1>7 DEF PagesNext, Reply

LEMMA SpentStep ==
    ASSUME TypeOK, PagesNext
    PROVE  SpentTypes'
<1>1. spent \in [calls : 0..MaxCalls, events : 0..MaxEvents]
  BY DEF TypeOK
<1>2. \/ UNCHANGED spent \/ Event \/ \E what \in Whats, row \in Rows \cup {New} : Sends(what, row)
  BY PageSteps
  DEF Aside, Rereads, Comes, Receive, ReturnLeft, ListAnswered, ListArrives, Elsewhere, Open
<1>3. Event => SpentTypes'
  BY <1>1, PanelAssumption DEF Event, SpentTypes
<1>4. ASSUME NEW what, NEW row, Send(what, row)
      PROVE  SpentTypes'
  BY <1>1, <1>4, PanelAssumption DEF Send, SpentTypes
<1> QED
  BY <1>1, <1>2, <1>3, <1>4 DEF SpentTypes, Sends

\* Maximum of what was told and what a reply tells.
LEMMA Told ==
    ASSUME told \in Nat, NEW c, c.at \in Nat, Tell(c)
    PROVE  told' \in Nat /\ told' >= told /\ (told' = told \/ told' = c.at)
  BY DEF Tell

LEMMA SharedStep ==
    ASSUME TypeOK, PagesNext
    PROVE  /\ ver' \in [Pages -> Nat] /\ page' \in Pages
           /\ list' \in [data : Maybe(Nat), error : BOOLEAN, read : {None, Pending, Failed} \cup GotRecord]
           /\ calls' \subseteq CallRecord
           /\ told' \in Nat /\ soon' \in BOOLEAN
<1> DEFINE L == [data : Maybe(Nat), error : BOOLEAN, read : {None, Pending, Failed} \cup GotRecord]
           Joint == /\ ver' \in [Pages -> Nat] /\ page' \in Pages
                    /\ list' \in L /\ calls' \subseteq CallRecord
                    /\ told' \in Nat /\ soon' \in BOOLEAN
<1>0. /\ ver \in [Pages -> Nat] /\ page \in Pages /\ list \in L /\ calls \subseteq CallRecord
      /\ told \in Nat /\ soon \in BOOLEAN /\ spent.calls \in Nat
  BY DEF TypeOK, CallRecord, GotRecord
<1>1. refresh => list' \in L
  BY <1>0 DEF refresh
<1>2. Aside \/ Rereads => Joint
  BY <1>0, <1>1 DEF Aside, Rereads
<1>3. ASSUME NEW what \in Whats, NEW row \in Rows \cup {New}, Sends(what, row)
      PROVE  Joint
  <2>1. Call(what, row) \in CallRecord
    BY <1>0 DEF Call, CallRecord
  <2> QED
    BY <1>0, <1>3, <2>1 DEF Sends, Send
<1>4. ASSUME NEW c \in calls, Comes(c) \/ ReturnLeft(c)
      PROVE  Joint
  <2>1. c.at \in Nat
    BY <1>0 DEF CallRecord
  <2> QED
    BY <1>0, <1>1, <1>4, <2>1, Told DEF Comes, ReturnLeft
<1>5. ASSUME NEW c \in calls, Receive(c)
      PROVE  Joint
  <2>1. c \in CallRecord
    BY <1>0
  <2>2. ver' \in [Pages -> Nat]
    BY <1>0, <1>5, <2>1 DEF Receive, CallRecord
  <2>3. PICK reply \in {"ok", "failed"}, at \in Nat : Replied(c, reply, at)
    BY <1>5, <2>1, <2>2 DEF Receive, CallRecord
  <2>4. [c EXCEPT !.reply = reply, !.at = at] \in CallRecord
    BY <2>1 DEF CallRecord
  <2> QED
    BY <1>0, <1>5, <2>2, <2>3, <2>4 DEF Receive, Replied
<1>6. CASE ListAnswered
  <2>1. ver[page] \in Nat
    BY <1>0
  <2>2. Got(ver[page]) \in GotRecord
    BY <2>1 DEF Got, GotRecord
  <2> QED
    BY <1>0, <1>6, <2>2 DEF ListAnswered
<1>7. CASE ListArrives
  <2>1. list.read = Failed \/ list.read.ver \in Nat
    BY <1>0, <1>7 DEF ListArrives, GotRecord
  <2>2. list' \in L
    BY <1>0, <1>7, <2>1 DEF ListArrives, Maybe
  <2> QED
    BY <1>0, <1>7, <2>2 DEF ListArrives
<1>8. CASE Elsewhere
  BY <1>0, <1>8 DEF Elsewhere
<1>9. ASSUME NEW p \in Pages, Open(p)
      PROVE  Joint
  <2>1. \A c \in calls : [c EXCEPT !.mounted = FALSE] \in CallRecord
    BY <1>0 DEF CallRecord
  <2>2. Fresh \in L
    BY DEF Fresh, Maybe
  <2> QED
    BY <1>0, <1>9, <2>1, <2>2 DEF Open
<1> QED
  BY <1>2, <1>3, <1>4, <1>5, <1>6, <1>7, <1>8, <1>9, PageSteps

LEMMA CallsStep ==
    ASSUME TypeOK, CallsInv, PagesNext
    PROVE  CallsInv'
<1>0. /\ ver \in [Pages -> Nat] /\ page \in Pages /\ calls \subseteq CallRecord /\ saving \in BOOLEAN
  BY DEF TypeOK, CallRecord
<1>1. ASSUME UNCHANGED <<page, calls, saving>>, \A p \in Pages : ver'[p] >= ver[p],
             ver' \in [Pages -> Nat]
      PROVE  CallsInv'
  BY <1>0, <1>1 DEF CallsInv, Mine, CallRecord
<1>2. CASE Aside \/ Rereads \/ ListAnswered \/ ListArrives \/ Elsewhere
  <2>1. UNCHANGED <<page, calls, saving>> /\ (UNCHANGED ver \/ ver' = [ver EXCEPT ![page] = @ + 1])
    BY <1>2 DEF Aside, Rereads, ListAnswered, ListArrives, Elsewhere
  <2>2. ver' \in [Pages -> Nat] /\ \A p \in Pages : ver'[p] >= ver[p]
    BY <1>0, <2>1
  <2> QED
    BY <1>1, <2>1, <2>2
<1>3. ASSUME NEW what \in Whats, NEW row \in Rows \cup {New}, Sends(what, row)
      PROVE  CallsInv'
  <2> DEFINE e == Call(what, row)
  <2>1. /\ e.page = page /\ e.what = what /\ e.row = row /\ e.mounted /\ e.at = 0
        /\ calls' = calls \cup {e} /\ UNCHANGED <<ver, page>>
    BY <1>3 DEF Call, Sends, Send
  <2> HIDE DEF e
  <2>2. \A c \in calls' : /\ c.at <= ver'[c.page] /\ (c.mounted => c.page = page')
                          /\ c.what = "logs" => c.row \in Rows
    BY <1>0, <1>3, <2>1 DEF CallsInv, Sends
  <2>3. CASE what \in Saves
    <3>1. Mine = {} /\ saving' = TRUE
      BY <1>3, <2>3 DEF Sends, CallsInv
    <3>2. Mine' = {e}
      BY <2>1, <2>3, <3>1 DEF Mine
    <3> QED
      BY <2>2, <3>1, <3>2 DEF CallsInv
  <2>4. CASE what \notin Saves
    <3>1. Mine' = Mine /\ UNCHANGED saving
      BY <1>3, <2>1, <2>4 DEF Mine, Sends
    <3> QED
      BY <2>2, <3>1 DEF CallsInv
  <2> QED
    BY <2>3, <2>4
<1>4. ASSUME NEW c \in calls, Comes(c) \/ ReturnLeft(c)
      PROVE  CallsInv'
  <2>1. calls' = calls \ {c} /\ UNCHANGED <<ver, page>>
    BY <1>4 DEF Comes, ReturnLeft
  <2>2. CASE c \in Mine
    <3>1. Mine' = {} /\ saving' = FALSE
      BY <1>4, <2>1, <2>2 DEF Mine, Comes, ReturnLeft, CallsInv
    <3> QED
      BY <2>1, <3>1 DEF CallsInv
  <2>3. CASE c \notin Mine
    <3>1. Mine' = Mine /\ UNCHANGED saving
      BY <1>4, <2>1, <2>3 DEF Mine, Comes, ReturnLeft
    <3> QED
      BY <2>1, <3>1 DEF CallsInv
  <2> QED
    BY <2>2, <2>3
<1>5. ASSUME NEW c \in calls, Receive(c)
      PROVE  CallsInv'
  <2>1. /\ c \in CallRecord /\ UNCHANGED <<page, saving>>
        /\ ver' \in [Pages -> Nat] /\ \A p \in Pages : ver'[p] >= ver[p]
    BY <1>0, <1>5 DEF Receive, CallRecord
  <2>2. PICK reply \in {"ok", "failed"}, at \in Nat : Replied(c, reply, at) /\ at <= ver'[c.page]
    BY <1>5, <2>1 DEF Receive, CallRecord
  <2> DEFINE e == [c EXCEPT !.reply = reply, !.at = at]
  <2>3. /\ e.page = c.page /\ e.what = c.what /\ e.row = c.row /\ e.mounted = c.mounted /\ e.at = at
        /\ calls' = (calls \ {c}) \cup {e}
    BY <2>1, <2>2 DEF Replied, CallRecord
  <2> HIDE DEF e
  <2>4. \A d \in calls' : /\ d.at <= ver'[d.page] /\ (d.mounted => d.page = page')
                          /\ d.what = "logs" => d.row \in Rows
    BY <1>0, <2>1, <2>2, <2>3 DEF CallsInv, CallRecord
  <2>5. Mine' = IF c \in Mine THEN {e} ELSE Mine
    BY <1>5, <2>3 DEF Mine, CallsInv
  <2> QED
    BY <1>5, <2>1, <2>4, <2>5 DEF CallsInv
<1>6. ASSUME NEW p \in Pages, Open(p)
      PROVE  CallsInv'
  <2>1. ASSUME NEW c \in calls, NEW e, e = [c EXCEPT !.mounted = FALSE]
        PROVE  /\ e.page = c.page /\ e.what = c.what /\ e.row = c.row /\ e.at = c.at
               /\ ~e.mounted
    BY <1>0, <2>1 DEF CallRecord
  <2>2. calls' = {[c EXCEPT !.mounted = FALSE] : c \in calls} /\ saving' = FALSE /\ UNCHANGED ver
    BY <1>6 DEF Open
  <2>3. \A e \in calls' : ~e.mounted /\ e.at <= ver'[e.page] /\ (e.what = "logs" => e.row \in Rows)
    BY <2>1, <2>2 DEF CallsInv
  <2>4. Mine' = {}
    BY <2>3 DEF Mine
  <2> QED
    BY <2>2, <2>3, <2>4 DEF CallsInv
<1> QED
  BY <1>2, <1>3, <1>4, <1>5, <1>6, PageSteps

LEMMA ListStep ==
    ASSUME TypeOK, CallsInv, ListInv, PagesNext
    PROVE  ListInv'
<1>0. /\ ver \in [Pages -> Nat] /\ page \in Pages /\ calls \subseteq CallRecord /\ told \in Nat
      /\ soon \in BOOLEAN /\ None \notin {Pending, Failed} /\ None \notin GotRecord
      /\ Pending \notin GotRecord /\ Failed \notin GotRecord /\ Failed # Pending
      /\ list \in [data : Maybe(Nat), error : BOOLEAN, read : {None, Pending, Failed} \cup GotRecord]
  BY PanelAssumption DEF TypeOK, CallRecord, GotRecord, Pending, Failed
\* A refresh is begun: whatever the page was told of, the answer will have it.
<1>1. ASSUME refresh, told' <= ver'[page']
      PROVE  ListInv'
  <2>1. list'.read = Pending
    BY <1>0, <1>1 DEF refresh
  <2> QED
    BY <1>0, <1>1, <2>1 DEF ListInv
<1>2. ASSUME UNCHANGED <<page, list, told, soon>>, ver'[page] >= ver[page], ver'[page] \in Nat
      PROVE  ListInv'
  BY <1>0, <1>2 DEF ListInv
<1>3. CASE Rereads
  BY <1>0, <1>1, <1>3 DEF Rereads, ListInv
<1>4. CASE Aside \/ Elsewhere \/ \E what \in Whats, row \in Rows \cup {New} : Sends(what, row)
  BY <1>0, <1>2, <1>4 DEF Aside, Elsewhere, Sends
<1>5. ASSUME NEW c \in calls, Receive(c) \/ ReturnLeft(c)
      PROVE  ListInv'
  <2>1. UNCHANGED <<page, list, told, soon>> /\ ver'[page] >= ver[page] /\ ver'[page] \in Nat
    BY <1>0, <1>5 DEF Receive, ReturnLeft, CallRecord
  <2> QED
    BY <1>2, <2>1
<1>6. ASSUME NEW c \in calls, Comes(c)
      PROVE  ListInv'
  <2>1. c.at \in Nat /\ c.at <= ver[page] /\ UNCHANGED <<ver, page>>
    BY <1>0, <1>6 DEF CallsInv, Comes, CallRecord
  <2>2. CASE refresh /\ Tell(c)
    BY <1>0, <1>1, <2>1, <2>2, Told DEF ListInv
  <2>3. CASE soon' = TRUE /\ UNCHANGED list /\ Tell(c)
    BY <1>0, <2>1, <2>3, Told DEF ListInv
  <2>4. CASE UNCHANGED <<list, soon, told>>
    BY <1>0, <1>2, <2>1, <2>4
  <2> QED
    BY <1>6, <2>2, <2>3, <2>4 DEF Comes
<1>7. CASE ListAnswered
  <2>1. CASE list' = [list EXCEPT !.read = Got(ver[page])]
    <3>1. Got(ver[page]) \in GotRecord /\ Got(ver[page]).ver = ver[page]
      BY <1>0 DEF Got, GotRecord
    <3>2. list'.read = Got(ver[page]) /\ list'.read # None
      BY <1>0, <2>1, <3>1
    <3> QED
      BY <1>0, <1>7, <3>1, <3>2 DEF ListAnswered, ListInv
  <2>2. CASE list' = [list EXCEPT !.read = Failed]
    <3>1. list'.read = Failed
      BY <1>0, <2>2
    <3> QED
      BY <1>0, <1>7, <3>1 DEF ListAnswered, ListInv
  <2> QED
    BY <1>7, <2>1, <2>2 DEF ListAnswered
<1>8. CASE ListArrives
  <2>1. CASE list.read = Failed
    <3>1. list'.read = None /\ list'.error
      BY <1>0, <1>8, <2>1 DEF ListArrives
    <3> QED
      BY <1>0, <1>8, <3>1 DEF ListArrives, ListInv
  <2>2. CASE list.read # Failed
    <3>1. list.read \in GotRecord /\ list'.data = list.read.ver /\ list'.read = None
      BY <1>0, <1>8, <2>2 DEF ListArrives
    <3>2. list.read.ver \in Nat
      BY <3>1 DEF GotRecord
    <3> QED
      BY <1>0, <1>8, <3>1, <3>2 DEF ListArrives, ListInv
  <2> QED
    BY <2>1, <2>2
<1>9. ASSUME NEW p \in Pages, Open(p)
      PROVE  ListInv'
  <2>1. list'.read = Pending /\ told' = 0 /\ ver'[page'] \in Nat
    BY <1>0, <1>9 DEF Open, Fresh
  <2> QED
    BY <1>0, <2>1 DEF ListInv
<1> QED
  BY <1>3, <1>4, <1>5, <1>6, <1>7, <1>8, <1>9, PageSteps

LEMMA PagesStep ==
    ASSUME PagesInv, PagesNext
    PROVE  PagesInv'
<1>1. TypeOK'
  BY OwnStep, SpentStep, SharedStep DEF PagesInv, OwnTypes, SpentTypes, TypeOK, CallRecord, GotRecord
<1> QED
  BY <1>1, CallsStep, ListStep DEF PagesInv

LEMMA PagesMean == PagesInv => OneSave /\ ShowsOwnChanges
<1> SUFFICES ASSUME PagesInv PROVE OneSave /\ ShowsOwnChanges
  OBVIOUS
<1>1. Cardinality(Mine) <= 1
  <2>1. Mine = {} \/ \E c \in Mine : Mine = {c}
    BY DEF PagesInv, CallsInv
  <2> QED
    BY <2>1, FS_EmptySet, FS_Singleton
<1>2. list.read = None /\ ~list.error /\ ~soon => list.data >= told
  BY DEF PagesInv, ListInv, TypeOK
<1> QED
  BY <1>1, <1>2 DEF PagesInv, CallsInv, Mine, OneSave, ShowsOwnChanges

-----------------------------------------------------------------------------
(* The usage dialog. *)

AskRecord == [id : Nat, what : {"usage", "sync", "official", "listing", "quota", "redeem"},
              acct : Accounts, range : Ranges, filter : Filters, number : Numbers]

FiguresPart  == [data : {None} \cup [acct : Accounts, range : Ranges, quota : Accounts],
                 loading : BOOLEAN, error : BOOLEAN, seq : 0..MaxClicks]
OfficialPart == [data : Maybe(Ranges), loading : BOOLEAN, refreshing : BOOLEAN, error : BOOLEAN,
                 seq : 0..MaxClicks]
ListingPart  == [data : {None} \cup [range : Ranges, filter : Filters, number : Numbers],
                 loading : BOOLEAN, error : BOOLEAN, filter : Filters, number : Numbers,
                 seq : 0..MaxClicks]
VoucherPart  == [confirming : BOOLEAN, resetting : BOOLEAN, error : BOOLEAN, seq : 0..MaxClicks]

PartTypes == usage \in FiguresPart /\ official \in OfficialPart /\ listing \in ListingPart
             /\ voucher \in VoucherPart
SetTypes  == target \in Maybe(Accounts) /\ tab \in Tabs /\ range \in Ranges /\ clicks \in 0..MaxClicks

\* An ask is numbered by its click, so that a part never attends to one before its newest.
Numbered ==
    /\ asks \subseteq AskRecord /\ \A q \in asks : q.id \in 1..clicks
    /\ usage.seq <= clicks /\ official.seq <= clicks /\ listing.seq <= clicks

\* The ask that a part of the dialog attends to is one for what the dialog is set to.
FiguresAsk(q) ==
    /\ q.what = "usage" => q.filter = "all" /\ q.number = 1
    /\ q.what = "usage" /\ q.id = usage.seq /\ target # None => q.acct = target /\ q.range = range
    /\ q.what = "listing" /\ q.id = usage.seq /\ target # None => usage.data # None

OfficialAsked(q) == q.what \in {"sync", "official"} /\ q.id = official.seq => q.range = range

ListingAsked(q) ==
    q.what = "listing" /\ q.id = listing.seq =>
        q.range = range /\ q.filter = listing.filter /\ q.number = listing.number

\* The figures are those of the account and of the range, unless a read is under way or failed.
FiguresInv ==
    /\ \A q \in asks : FiguresAsk(q)
    /\ target # None /\ usage.data # None =>
          /\ usage.data.acct = target
          /\ usage.loading \/ usage.error \/ usage.data.range = range

\* The official tab's part is mounted while the tab is open.
OfficialInv ==
    /\ \A q \in asks : OfficialAsked(q)
    /\ official.seq # 0 <=> target # None /\ tab = "official"
    /\ official.seq # 0 =>
          official.loading \/ official.refreshing \/ official.error \/ official.data = range

\* The list of requests is mounted by the first figures while its tab is open.
ListingInv ==
    /\ \A q \in asks : ListingAsked(q)
    /\ listing.seq # 0 <=> target # None /\ tab = "requests" /\ usage.data # None
    /\ listing.data # None => listing.seq # 0
    /\ listing.seq # 0 =>
          \/ listing.loading \/ listing.error
          \/ listing.data = [range |-> range, filter |-> listing.filter, number |-> listing.number]

DialogInv == SetTypes /\ PartTypes /\ Numbered /\ FiguresInv /\ OfficialInv /\ ListingInv

LEMMA Unmountings ==
    /\ NoOfficial \in OfficialPart /\ NoOfficial.seq = 0
    /\ NoListing \in ListingPart /\ NoListing.seq = 0 /\ NoListing.filter = "all" /\ NoListing.number = 1
    /\ NoListing.loading = FALSE /\ NoListing.data = None
    /\ NoVoucher \in VoucherPart
<1>1. 0 \in 0..MaxClicks
  BY DialogAssumption
<1> QED
  BY <1>1 DEF NoOfficial, NoListing, NoVoucher, OfficialPart, ListingPart, VoucherPart, Maybe, Filters,
              Numbers

LEMMA DialogInit == UsageInit => DialogInv
<1> SUFFICES ASSUME UsageInit PROVE DialogInv
  OBVIOUS
<1>1. 0 \in 0..MaxClicks /\ Default \in Ranges
  BY DialogAssumption
<1>2. SetTypes /\ PartTypes
  BY <1>1, Unmountings DEF UsageInit, SetTypes, PartTypes, Maybe, Tabs, FiguresPart
<1>3. Numbered /\ FiguresInv /\ OfficialInv /\ ListingInv
  BY Unmountings DEF UsageInit, Numbered, FiguresInv, OfficialInv, ListingInv
<1> QED
  BY <1>2, <1>3 DEF DialogInv

\* What a part becomes when it asks, field by field.
LEMMA Loadings ==
    ASSUME DialogInv, Click
    PROVE  /\ clicks' = clicks + 1 /\ clicks' \in 1..MaxClicks
           /\ UsageLoading \in FiguresPart /\ UsageLoading.data = usage.data
           /\ UsageLoading.loading /\ UsageLoading.seq = clicks'
           /\ \A o \in OfficialPart, synced \in BOOLEAN :
                 LET p == OfficialLoading(o, synced) IN
                 p \in OfficialPart /\ p.seq = clicks' /\ (p.loading \/ p.refreshing)
           /\ \A l \in ListingPart, f \in Filters, n \in Numbers :
                 LET p == ListingLoading(l, f, n) IN
                 p \in ListingPart /\ p.seq = clicks' /\ p.loading /\ p.filter = f /\ p.number = n
<1>1. clicks' = clicks + 1 /\ clicks' \in 1..MaxClicks /\ clicks' \in 0..MaxClicks
  BY DialogAssumption DEF Click, DialogInv, SetTypes
<1>2. usage \in FiguresPart
  BY DEF DialogInv, PartTypes
<1>3. /\ UsageLoading \in FiguresPart /\ UsageLoading.data = usage.data
      /\ UsageLoading.loading /\ UsageLoading.seq = clicks'
  BY <1>1, <1>2 DEF UsageLoading, FiguresPart
<1>4. ASSUME NEW o \in OfficialPart, NEW synced \in BOOLEAN,
             NEW p, p = OfficialLoading(o, synced)
      PROVE  p \in OfficialPart /\ p.seq = clicks' /\ (p.loading \/ p.refreshing)
  BY <1>1, <1>4 DEF OfficialLoading, OfficialPart
<1>5. ASSUME NEW l \in ListingPart, NEW f \in Filters, NEW n \in Numbers,
             NEW p, p = ListingLoading(l, f, n)
      PROVE  p \in ListingPart /\ p.seq = clicks' /\ p.loading /\ p.filter = f /\ p.number = n
  BY <1>1, <1>5 DEF ListingLoading, ListingPart
<1> QED
  BY <1>1, <1>3, <1>4, <1>5

\* What an operator's step may do: a part is left alone, asks anew or is unmounted, and an ask
\* that is sent is for what the dialog is set to then.
NewAsk(q) ==
    /\ clicks' = clicks + 1 /\ q \in AskRecord /\ q.id = clicks' /\ q.acct = target' /\ q.range = range'
    /\ q.what = "usage" => q.filter = "all" /\ q.number = 1
    /\ q.what = "listing" =>
          q.filter = listing'.filter /\ q.number = listing'.number /\ usage'.data # None

FiguresTurn ==
    \/ UNCHANGED <<usage, target, range>>
    \/ /\ usage'.data = None \/ (usage'.data = usage.data /\ target' = target)
       /\ clicks' = clicks + 1 /\ usage'.seq = clicks' /\ usage'.loading
    \/ target' = None /\ usage'.seq = usage.seq

OfficialTurn ==
    \/ UNCHANGED <<official, target, tab, range>>
    \/ official'.seq = 0 /\ ~(target' # None /\ tab' = "official")
    \/ /\ target' # None /\ tab' = "official"
       /\ clicks' = clicks + 1 /\ official'.seq = clicks' /\ (official'.loading \/ official'.refreshing)

ListingMounted == target # None /\ tab = "requests" /\ usage.data # None

ListingTurn ==
    \/ UNCHANGED <<listing, range>> /\ ListingMounted' = ListingMounted
    \/ listing'.seq = 0 /\ listing'.data = None /\ ~ListingMounted'
    \/ ListingMounted' /\ clicks' = clicks + 1 /\ listing'.seq = clicks' /\ listing'.loading

Turned ==
    /\ SetTypes' /\ PartTypes' /\ clicks' \in {clicks, clicks + 1}
    /\ FiguresTurn /\ OfficialTurn /\ ListingTurn
    /\ \A q \in asks' : q \in asks \/ NewAsk(q)

LEMMA TurnedInv ==
    ASSUME DialogInv, Turned
    PROVE  DialogInv'
<1>0. /\ clicks \in Nat /\ clicks' \in Nat /\ clicks <= clicks'
      /\ usage.seq \in Nat /\ official.seq \in Nat /\ listing.seq \in Nat
      /\ usage.seq <= clicks /\ official.seq <= clicks /\ listing.seq <= clicks
  BY DialogAssumption
  DEF DialogInv, Turned, SetTypes, PartTypes, FiguresPart, OfficialPart, ListingPart, Numbered
<1>1. \A q \in asks : q \in AskRecord /\ q.id \in Nat /\ q.id >= 1 /\ q.id <= clicks
  BY <1>0 DEF DialogInv, Numbered
<1>2. \A q \in asks' : q \in asks \/ NewAsk(q)
  BY DEF Turned
<1>3. Numbered'
  <2>1. asks' \subseteq AskRecord /\ \A q \in asks' : q.id \in 1..clicks'
    BY <1>0, <1>1, <1>2 DEF NewAsk
  <2>2. usage'.seq <= clicks' /\ official'.seq <= clicks' /\ listing'.seq <= clicks'
    BY <1>0 DEF Turned, FiguresTurn, OfficialTurn, ListingTurn
  <2> QED
    BY <2>1, <2>2 DEF Numbered
<1>4. FiguresInv'
  <2>1. CASE UNCHANGED <<usage, target, range>>
    BY <1>0, <1>1, <1>2, <2>1 DEF DialogInv, FiguresInv, FiguresAsk, NewAsk
  <2>2. CASE /\ usage'.data = None \/ (usage'.data = usage.data /\ target' = target)
             /\ clicks' = clicks + 1 /\ usage'.seq = clicks' /\ usage'.loading
    BY <1>0, <1>1, <1>2, <2>2 DEF DialogInv, FiguresInv, FiguresAsk, NewAsk
  <2>3. CASE target' = None
    BY <1>0, <1>1, <1>2, <2>3 DEF DialogInv, FiguresInv, FiguresAsk, NewAsk
  <2> QED
    BY <2>1, <2>2, <2>3 DEF Turned, FiguresTurn
<1>5. OfficialInv'
  <2>1. CASE UNCHANGED <<official, target, tab, range>>
    BY <1>0, <1>1, <1>2, <2>1 DEF DialogInv, OfficialInv, OfficialAsked, NewAsk
  <2>2. CASE official'.seq = 0 /\ ~(target' # None /\ tab' = "official")
    BY <1>0, <1>1, <1>2, <2>2 DEF DialogInv, OfficialInv, OfficialAsked, NewAsk
  <2>3. CASE /\ target' # None /\ tab' = "official"
             /\ clicks' = clicks + 1 /\ official'.seq = clicks' /\ (official'.loading \/ official'.refreshing)
    BY <1>0, <1>1, <1>2, <2>3 DEF DialogInv, OfficialInv, OfficialAsked, NewAsk
  <2> QED
    BY <2>1, <2>2, <2>3 DEF Turned, OfficialTurn
<1>6. ListingInv'
  <2>1. CASE UNCHANGED <<listing, range>> /\ ListingMounted' = ListingMounted
    BY <1>0, <1>1, <1>2, <2>1 DEF DialogInv, ListingInv, ListingAsked, NewAsk, ListingMounted
  <2>2. CASE listing'.seq = 0 /\ listing'.data = None /\ ~ListingMounted'
    BY <1>0, <1>1, <1>2, <2>2 DEF DialogInv, ListingInv, ListingAsked, NewAsk, ListingMounted
  <2>3. CASE ListingMounted' /\ clicks' = clicks + 1 /\ listing'.seq = clicks' /\ listing'.loading
    BY <1>0, <1>1, <1>2, <2>3 DEF DialogInv, ListingInv, ListingAsked, NewAsk, ListingMounted
  <2> QED
    BY <2>1, <2>2, <2>3 DEF Turned, ListingTurn
<1> QED
  BY <1>3, <1>4, <1>5, <1>6 DEF DialogInv, Turned

\* Each click of the operator is such a step.
LEMMA DialogOperates ==
    ASSUME DialogInv, UsageOperates
    PROVE  Turned
<1>0. /\ SetTypes /\ PartTypes /\ None \notin Accounts /\ clicks \in Nat
      /\ listing.seq # 0 <=> ListingMounted
      /\ listing.data # None => listing.seq # 0
      /\ official.seq # 0 <=> target # None /\ tab = "official"
  BY DialogAssumption DEF DialogInv, SetTypes, OfficialInv, ListingInv, ListingMounted
<1> USE DEF AskRecord, Ask, OfficialAsk, Filters, Numbers
<1>1. ASSUME NEW a \in Accounts, NEW t \in {"figures", "official"}, OpenUsage(a, t)
      PROVE  Turned
  <2>1. /\ Click /\ target' = a /\ tab' = t /\ UNCHANGED <<range, listing, voucher>>
        /\ target = None /\ listing.seq = 0 /\ a # None
    BY <1>0, <1>1 DEF OpenUsage, ListingMounted
  <2>2. usage' \in FiguresPart /\ usage'.data = None /\ usage'.seq = clicks' /\ usage'.loading
    BY <1>1, <2>1, Loadings DEF OpenUsage, FiguresPart
  <2>3. official' \in OfficialPart /\ OfficialTurn
    <3>1. CASE t = "official"
      BY <1>1, <2>1, <3>1, Unmountings, Loadings DEF OpenUsage, OfficialTurn
    <3>2. CASE t # "official"
      BY <1>1, <2>1, <3>2, Unmountings DEF OpenUsage, OfficialTurn
    <3> QED
      BY <3>1, <3>2
  <2>4. \A q \in asks' : q \in asks \/ NewAsk(q)
    BY <1>0, <1>1, <2>1, Loadings DEF OpenUsage, NewAsk, SetTypes
  <2>5. SetTypes' /\ clicks' = clicks + 1
    BY <1>0, <2>1, Loadings DEF SetTypes, Maybe, Tabs
  <2> QED
    BY <1>0, <2>1, <2>2, <2>3, <2>4, <2>5 DEF Turned, PartTypes, FiguresTurn, ListingTurn, ListingMounted
<1>2. CASE CloseUsage
  <2>1. usage' \in FiguresPart /\ usage'.seq = usage.seq
    BY <1>0, <1>2 DEF CloseUsage, PartTypes, FiguresPart
  <2>2. SetTypes' /\ UNCHANGED <<range, asks, clicks>> /\ target' = None
    BY <1>0, <1>2 DEF CloseUsage, SetTypes, Maybe, Tabs
  <2> QED
    BY <1>0, <1>2, <2>1, <2>2, Unmountings
    DEF CloseUsage, Turned, PartTypes, FiguresTurn, OfficialTurn, ListingTurn, ListingMounted
<1>3. ASSUME NEW t \in Tabs, SetTab(t)
      PROVE  Turned
  <2>1. /\ Click /\ target # None /\ tab' = t /\ UNCHANGED <<target, range, usage, voucher>>
        /\ target \in Accounts /\ range \in Ranges
    BY <1>0, <1>3 DEF SetTab, SetTypes, Maybe
  <2>2. official' \in OfficialPart /\ OfficialTurn
    BY <1>3, <2>1, Unmountings, Loadings DEF SetTab, OfficialTurn
  <2>3. listing' = IF ListingMounted' THEN ListingLoading(NoListing, "all", 1) ELSE NoListing
    BY <1>3, <2>1 DEF SetTab, ListingMounted
  <2>4. /\ listing' \in ListingPart /\ ListingTurn /\ listing'.filter = "all" /\ listing'.number = 1
        /\ listing'.loading => ListingMounted'
    BY <2>1, <2>3, Unmountings, Loadings DEF ListingTurn
  <2>5. \A q \in asks' : q \in asks \/ NewAsk(q)
    BY <1>3, <2>1, <2>4, Loadings DEF SetTab, NewAsk, ListingMounted
  <2>6. SetTypes' /\ clicks' = clicks + 1
    BY <1>0, <2>1, Loadings DEF SetTypes
  <2> QED
    BY <1>0, <2>1, <2>2, <2>4, <2>5, <2>6 DEF Turned, PartTypes, FiguresTurn
<1>4. ASSUME NEW r \in Ranges, SetRange(r)
      PROVE  Turned
  <2>1. /\ Click /\ target # None /\ range' = r /\ UNCHANGED <<target, tab, voucher>>
        /\ target \in Accounts /\ usage' = UsageLoading
    BY <1>0, <1>4 DEF SetRange, SetTypes, Maybe
  <2>2. usage' \in FiguresPart /\ usage'.data = usage.data /\ usage'.seq = clicks' /\ usage'.loading
    BY <2>1, Loadings
  <2>3. official' \in OfficialPart /\ OfficialTurn
    BY <1>0, <1>4, <2>1, Loadings DEF SetRange, OfficialTurn, PartTypes
  <2>4. ListingMounted' = ListingMounted /\ listing.filter \in Filters
    BY <1>0, <2>1, <2>2 DEF ListingMounted, PartTypes, ListingPart
  <2>5. /\ listing' \in ListingPart /\ ListingTurn
        /\ listing.seq # 0 => listing'.filter = listing.filter /\ ListingMounted'
    BY <1>0, <1>4, <2>1, <2>4, Loadings DEF SetRange, ListingTurn, PartTypes
  <2>6. listing'.number \in Numbers /\ (listing.seq # 0 => usage'.data # None)
    BY <1>0, <2>2, <2>5 DEF ListingPart, ListingMounted
  <2>7. \A q \in asks' : q \in asks \/ NewAsk(q)
    BY <1>4, <2>1, <2>4, <2>5, <2>6, Loadings DEF SetRange, NewAsk
  <2>8. SetTypes' /\ clicks' = clicks + 1
    BY <1>0, <2>1, Loadings DEF SetTypes
  <2> QED
    BY <1>0, <2>1, <2>2, <2>3, <2>5, <2>7, <2>8 DEF Turned, PartTypes, FiguresTurn
<1>5. CASE RefreshOfficial
  <2>1. /\ Click /\ target \in Accounts /\ tab = "official" /\ target # None /\ range \in Ranges
        /\ UNCHANGED <<target, tab, range, usage, listing, voucher>>
    BY <1>0, <1>5 DEF RefreshOfficial, SetTypes, Maybe
  <2>2. official' \in OfficialPart /\ OfficialTurn
    BY <1>0, <1>5, <2>1, Loadings DEF RefreshOfficial, OfficialTurn, PartTypes
  <2>3. \A q \in asks' : q \in asks \/ NewAsk(q)
    BY <1>5, <2>1, Loadings DEF RefreshOfficial, NewAsk
  <2>4. SetTypes' /\ clicks' = clicks + 1
    BY <1>0, <2>1, Loadings DEF SetTypes
  <2> QED
    BY <1>0, <2>1, <2>2, <2>3, <2>4 DEF Turned, PartTypes, FiguresTurn, ListingTurn, ListingMounted
<1>6. ASSUME NEW f \in Filters, NEW n \in Numbers, Click,
             listing' \in ListingPart, listing'.seq = clicks', listing'.loading,
             listing'.filter = f, listing'.number = n, ListingMounted,
             asks' = asks \cup {Ask("listing", target, range, f, n)},
             UNCHANGED <<target, tab, range, usage, official, voucher>>
      PROVE  Turned
  <2>1. target \in Accounts /\ range \in Ranges /\ usage.data # None /\ ListingMounted'
    BY <1>0, <1>6 DEF ListingMounted, SetTypes, Maybe
  <2>2. \A q \in asks' : q \in asks \/ NewAsk(q)
    BY <1>6, <2>1, Loadings DEF NewAsk
  <2>3. SetTypes' /\ clicks' = clicks + 1
    BY <1>0, <1>6, Loadings DEF SetTypes
  <2> QED
    BY <1>0, <1>6, <2>1, <2>2, <2>3 DEF Turned, PartTypes, FiguresTurn, OfficialTurn, ListingTurn
<1>7. ASSUME NEW f \in Filters, SetFilter(f)
      PROVE  Turned
  <2>1. listing' = ListingLoading(listing, f, 1) /\ ListingMounted /\ Click /\ listing \in ListingPart
    BY <1>0, <1>7 DEF SetFilter, PartTypes
  <2>2. /\ listing' \in ListingPart /\ listing'.seq = clicks' /\ listing'.loading
        /\ listing'.filter = f /\ listing'.number = 1
    BY <2>1, Loadings
  <2> QED
    BY <1>6, <1>7, <2>1, <2>2 DEF SetFilter
<1>8. ASSUME NEW n \in Numbers, SetPage(n)
      PROVE  Turned
  <2>1. listing \in ListingPart /\ Click /\ listing.data # None /\ listing.filter \in Filters
    BY <1>0, <1>8 DEF SetPage, PartTypes, ListingPart
  <2>2. ListingMounted
    BY <1>0, <2>1
  <2>3. /\ listing' \in ListingPart /\ listing'.seq = clicks' /\ listing'.loading
        /\ listing'.filter = listing.filter /\ listing'.number = n
    BY <1>8, <2>1, Loadings DEF SetPage, ListingPart
  <2> QED
    BY <1>6, <1>8, <2>1, <2>2, <2>3 DEF SetPage
<1>9. CASE ConfirmVoucher
  <2>1. UNCHANGED <<target, tab, range, usage, official, listing, asks, clicks>> /\ voucher' \in VoucherPart
    BY <1>0, <1>9 DEF ConfirmVoucher, PartTypes, VoucherPart
  <2> QED
    BY <1>0, <2>1
    DEF Turned, SetTypes, PartTypes, FiguresTurn, OfficialTurn, ListingTurn, ListingMounted
<1>10. CASE Redeem
  <2>1. /\ Click /\ target \in Accounts /\ range \in Ranges /\ clicks' \in 0..MaxClicks
        /\ UNCHANGED <<target, tab, range, usage, official, listing>>
    BY <1>0, <1>10, Loadings DEF Redeem, SetTypes, Maybe
  <2>2. voucher' \in VoucherPart
    BY <1>0, <1>10, <2>1 DEF Redeem, PartTypes, VoucherPart
  <2>3. \A q \in asks' : q \in asks \/ NewAsk(q)
    BY <1>10, <2>1, Loadings DEF Redeem, NewAsk
  <2>4. SetTypes' /\ clicks' = clicks + 1
    BY <1>0, <2>1, Loadings DEF SetTypes
  <2> QED
    BY <1>0, <2>1, <2>2, <2>3, <2>4
    DEF Turned, PartTypes, FiguresTurn, OfficialTurn, ListingTurn, ListingMounted
<1> QED
  BY <1>1, <1>2, <1>3, <1>4, <1>5, <1>7, <1>8, <1>9, <1>10 DEF UsageOperates

\* An ask that is passed on is for the same.
LEMMA PassedOn ==
    ASSUME NEW q \in AskRecord, NEW w \in {"listing", "official", "quota"},
           NEW e, e = [q EXCEPT !.what = w]
    PROVE  /\ e \in AskRecord /\ e.what = w /\ e.id = q.id /\ e.acct = q.acct /\ e.range = q.range
           /\ e.filter = q.filter /\ e.number = q.number
  BY DEF AskRecord

\* A quota snapshot is put into the figures; whose they are and of which range stays.
LEMMA QuotaApplied ==
    ASSUME PartTypes, NEW a \in Accounts, usage' = applyQuota(a)
    PROVE  /\ usage' \in FiguresPart /\ usage'.seq = usage.seq
           /\ usage'.loading = usage.loading /\ usage'.error = usage.error
           /\ usage'.data = None <=> usage.data = None
           /\ usage.data # None => usage'.data.acct = usage.data.acct /\ usage'.data.range = usage.data.range
<1>1. usage \in FiguresPart
  BY DEF PartTypes
<1>2. CASE usage.data = None
  <2>1. usage' = [usage EXCEPT !.data = None]
    BY <1>2 DEF applyQuota
  <2> QED
    BY <1>1, <1>2, <2>1 DEF FiguresPart
<1>3. CASE usage.data # None
  <2> DEFINE d == [usage.data EXCEPT !.quota = a]
  <2>1. usage' = [usage EXCEPT !.data = d]
    BY <1>3 DEF applyQuota
  <2>2. /\ d \in [acct : Accounts, range : Ranges, quota : Accounts]
        /\ d.acct = usage.data.acct /\ d.range = usage.data.range
    BY <1>1, <1>3 DEF FiguresPart
  <2>3. d # None
    BY <2>2, DialogAssumption
  <2> HIDE DEF d
  <2> QED
    BY <1>1, <1>3, <2>1, <2>2, <2>3 DEF FiguresPart
<1> QED
  BY <1>2, <1>3

LEMMA DialogAnswers ==
    ASSUME DialogInv, UsageAnswered
    PROVE  DialogInv'
<1>1. PICK q \in asks, ok \in BOOLEAN :
        \/ UsageArrives(q, ok) \/ SyncReturns(q, ok) \/ OfficialArrives(q, ok)
        \/ ListingArrives(q, ok) \/ QuotaArrives(q, ok)
        \/ \E probed \in BOOLEAN : RedeemReturns(q, ok, probed)
  BY DEF UsageAnswered
<1>2. UNCHANGED <<target, tab, range, clicks>> /\ SetTypes'
  BY <1>1
  DEF UsageArrives, SyncReturns, OfficialArrives, ListingArrives, QuotaArrives, RedeemReturns, DialogInv,
      SetTypes
<1>3. /\ SetTypes /\ PartTypes /\ Numbered /\ FiguresInv /\ OfficialInv /\ ListingInv
      /\ q \in AskRecord /\ q.id \in 1..clicks /\ clicks \in Nat
      /\ usage \in FiguresPart /\ official \in OfficialPart /\ listing \in ListingPart /\ voucher \in VoucherPart
  BY DialogAssumption DEF DialogInv, Numbered, SetTypes, PartTypes
\* Where no part is changed, the asks that stay are as good as they were.
<1>4. ASSUME asks' \subseteq asks, UNCHANGED <<usage, official, listing>>, voucher' \in VoucherPart
      PROVE  DialogInv'
  BY <1>2, <1>3, <1>4
  DEF DialogInv, PartTypes, Numbered, FiguresInv, FiguresAsk, OfficialInv, OfficialAsked, ListingInv,
      ListingAsked
<1>5. CASE SyncReturns(q, ok)
  <2>1. UNCHANGED <<usage, official, listing, voucher>> /\ q.what = "sync"
    BY <1>5 DEF SyncReturns
  <2>2. ASSUME NEW e \in asks', e \notin asks
        PROVE  /\ e \in AskRecord /\ e.id = q.id /\ e.range = q.range
               /\ e.what \in {"official", "quota"}
    BY <1>3, <1>5, <2>2, PassedOn DEF SyncReturns
  <2>3. Numbered'
    BY <1>2, <1>3, <2>1, <2>2 DEF Numbered
  <2>4. FiguresInv' /\ ListingInv'
    BY <1>2, <1>3, <2>1, <2>2 DEF FiguresInv, FiguresAsk, ListingInv, ListingAsked
  <2>5. OfficialInv'
    BY <1>2, <1>3, <2>1, <2>2 DEF OfficialInv, OfficialAsked
  <2> QED
    BY <1>2, <1>3, <2>1, <2>3, <2>4, <2>5 DEF DialogInv, PartTypes
<1>6. CASE OfficialArrives(q, ok)
  <2>1. UNCHANGED <<usage, listing, voucher>> /\ q.what = "official" /\ asks' = asks \ {q}
    BY <1>6 DEF OfficialArrives
  <2>2. CASE ~Newest(q, official)
    BY <1>3, <1>4, <1>6, <2>1, <2>2 DEF OfficialArrives
  <2>3. CASE Newest(q, official)
    <3>1. /\ official' \in OfficialPart /\ official'.seq = official.seq
          /\ official'.error \/ official'.data = q.range
      BY <1>3, <1>6, <2>3 DEF OfficialArrives, OfficialPart, AskRecord, Maybe
    <3>2. q.range = range
      BY <1>3, <2>1, <2>3 DEF OfficialInv, OfficialAsked, Newest
    <3>3. OfficialInv'
      BY <1>2, <1>3, <2>1, <3>1, <3>2 DEF OfficialInv, OfficialAsked
    <3> QED
      BY <1>2, <1>3, <2>1, <3>1, <3>3
      DEF DialogInv, PartTypes, Numbered, FiguresInv, FiguresAsk, ListingInv, ListingAsked
  <2> QED
    BY <2>2, <2>3
<1>7. CASE ListingArrives(q, ok)
  <2>1. UNCHANGED <<usage, official, voucher>> /\ q.what = "listing" /\ asks' = asks \ {q}
    BY <1>7 DEF ListingArrives
  <2>2. CASE ~Newest(q, listing)
    BY <1>3, <1>4, <1>7, <2>1, <2>2 DEF ListingArrives
  <2>3. CASE Newest(q, listing)
    <3> DEFINE d == [range |-> q.range, filter |-> q.filter, number |-> q.number]
    <3>1. d \in [range : Ranges, filter : Filters, number : Numbers]
      BY <1>3 DEF AskRecord
    <3>2. listing' = [listing EXCEPT !.data = IF ok THEN d ELSE @, !.error = ~ok, !.loading = FALSE]
      BY <1>7, <2>3 DEF ListingArrives
    <3>3. /\ q.range = range /\ q.filter = listing.filter /\ q.number = listing.number
          /\ listing.seq # 0
      BY <1>3, <2>1, <2>3 DEF ListingInv, ListingAsked, Newest
    <3>4. d = [range |-> range, filter |-> listing.filter, number |-> listing.number]
      BY <3>3
    <3> HIDE DEF d
    <3>5. /\ listing' \in ListingPart /\ listing'.seq = listing.seq
          /\ listing'.filter = listing.filter /\ listing'.number = listing.number
          /\ listing'.error \/ listing'.data = d
      BY <1>3, <3>1, <3>2 DEF ListingPart
    <3>6. ListingInv'
      BY <1>2, <1>3, <2>1, <3>3, <3>4, <3>5 DEF ListingInv, ListingAsked
    <3> QED
      BY <1>2, <1>3, <2>1, <3>5, <3>6
      DEF DialogInv, PartTypes, Numbered, FiguresInv, FiguresAsk, OfficialInv, OfficialAsked
  <2> QED
    BY <2>2, <2>3
<1>8. ASSUME asks' = asks \ {q}, usage' \in {usage, applyQuota(q.acct)}, voucher' \in VoucherPart,
             UNCHANGED <<official, listing>>
      PROVE  DialogInv'
  <2>1. CASE usage' = usage
    BY <1>4, <1>8, <2>1
  <2>2. CASE usage' = applyQuota(q.acct)
    <3>1. q.acct \in Accounts
      BY <1>3 DEF AskRecord
    <3>2. FiguresInv' /\ usage' \in FiguresPart /\ usage'.seq = usage.seq
          /\ (usage'.data = None <=> usage.data = None)
      BY <1>2, <1>3, <1>8, <2>2, <3>1, QuotaApplied DEF FiguresInv, FiguresAsk
    <3> QED
      BY <1>2, <1>3, <1>8, <3>2
      DEF DialogInv, PartTypes, Numbered, OfficialInv, OfficialAsked, ListingInv, ListingAsked
  <2> QED
    BY <1>8, <2>1, <2>2
<1>9. CASE QuotaArrives(q, ok)
  BY <1>3, <1>8, <1>9 DEF QuotaArrives
<1>10. ASSUME NEW probed \in BOOLEAN, RedeemReturns(q, ok, probed)
       PROVE  DialogInv'
  <2>1. voucher' \in VoucherPart
    BY <1>3, <1>10 DEF RedeemReturns, VoucherPart
  <2> QED
    BY <1>8, <1>10, <2>1 DEF RedeemReturns
<1>11. CASE UsageArrives(q, ok)
  <2>1. UNCHANGED <<official, voucher>> /\ q.what = "usage"
    BY <1>11 DEF UsageArrives
  <2>2. CASE ~Newest(q, usage)
    BY <1>3, <1>4, <1>11, <2>1, <2>2 DEF UsageArrives
  <2>3. CASE Newest(q, usage)
    <3> DEFINE d == [acct |-> q.acct, range |-> q.range, quota |-> q.acct]
               mounts == ok /\ target # None /\ tab = "requests" /\ listing.seq = 0
    <3>1. d \in [acct : Accounts, range : Ranges, quota : Accounts] /\ d # None
          /\ d.acct = q.acct /\ d.range = q.range
      BY <1>3, DialogAssumption DEF AskRecord
    <3>2. /\ usage' = [usage EXCEPT !.data = IF ok THEN d ELSE @, !.error = ~ok, !.loading = FALSE]
          /\ mounts => /\ listing' = [NoListing EXCEPT !.loading = TRUE, !.seq = q.id]
                       /\ asks' = (asks \ {q}) \cup {[q EXCEPT !.what = "listing"]}
          /\ ~mounts => asks' = asks \ {q} /\ UNCHANGED listing
      BY <1>11, <2>3 DEF UsageArrives
    <3>3. /\ q.filter = "all" /\ q.number = 1
          /\ target # None => q.acct = target /\ q.range = range
      BY <1>3, <2>1, <2>3 DEF FiguresInv, FiguresAsk, Newest
    <3>m. mounts <=> ok /\ target # None /\ tab = "requests" /\ listing.seq = 0
      OBVIOUS
    <3> HIDE DEF d, mounts
    <3>4. /\ usage' \in FiguresPart /\ usage'.seq = usage.seq
          /\ ok => usage'.data = d
          /\ ~ok => usage'.data = usage.data /\ usage'.error
      BY <1>3, <3>1, <3>2 DEF FiguresPart
    <3>5. FiguresInv'
      <4>1. ASSUME NEW e \in asks', e \notin asks
            PROVE  e.what = "listing" /\ usage'.data # None
        BY <1>3, <3>1, <3>2, <3>4, <3>m, <4>1, PassedOn
      <4>2. \A e \in asks' : FiguresAsk(e)'
        BY <1>2, <1>3, <3>1, <3>4, <4>1 DEF FiguresInv, FiguresAsk
      <4> QED
        BY <1>2, <1>3, <3>1, <3>3, <3>4, <4>2 DEF FiguresInv
    <3>6. OfficialInv' /\ (\A e \in asks' : e \in AskRecord /\ e.id \in 1..clicks)
      <4>1. ASSUME NEW e \in asks', e \notin asks
            PROVE  e.what = "listing" /\ e.id = q.id /\ e \in AskRecord
        BY <1>3, <3>2, <4>1, PassedOn
      <4> QED
        BY <1>2, <1>3, <2>1, <4>1 DEF OfficialInv, OfficialAsked, Numbered
    <3>7. CASE ~mounts
      <4>1. asks' = asks \ {q} /\ UNCHANGED listing
        BY <3>2, <3>7
      <4>2. ListingInv'
        BY <1>2, <1>3, <3>1, <3>4, <3>7, <3>m, <4>1 DEF ListingInv, ListingAsked
      <4> QED
        BY <1>2, <1>3, <2>1, <3>4, <3>5, <3>6, <4>1, <4>2 DEF DialogInv, PartTypes, Numbered
    <3>8. CASE mounts
      <4>1. /\ listing' \in ListingPart /\ listing'.seq = q.id /\ listing'.loading
            /\ listing'.data = None /\ listing'.filter = "all" /\ listing'.number = 1
        <5>1. q.id \in 0..MaxClicks
          BY <1>3, DialogAssumption DEF SetTypes
        <5> QED
          BY <3>2, <3>8, <5>1, Unmountings, ZenonT(40) DEF ListingPart
      <4>2. usage.data = None
        BY <1>3, <3>8, <3>m DEF ListingInv
      <4>3. \A e \in asks : e.what = "listing" => e.id # q.id
        BY <1>3, <2>3, <3>8, <3>m, <4>2 DEF FiguresInv, FiguresAsk, Newest
      <4>4. ASSUME NEW e \in asks', e \notin asks
            PROVE  e.range = range /\ e.filter = "all" /\ e.number = 1
        BY <1>3, <3>2, <3>3, <3>8, <3>m, <4>4, PassedOn
      <4>5. ListingInv'
        BY <1>2, <1>3, <3>1, <3>4, <3>8, <3>m, <4>1, <4>3, <4>4 DEF ListingInv, ListingAsked
      <4> QED
        BY <1>2, <1>3, <2>1, <3>4, <3>5, <3>6, <4>1, <4>5 DEF DialogInv, PartTypes, Numbered
    <3> QED
      BY <3>7, <3>8
  <2> QED
    BY <2>2, <2>3
<1> QED
  BY <1>1, <1>5, <1>6, <1>7, <1>9, <1>10, <1>11

-----------------------------------------------------------------------------
(* The usage page. *)

\* A read of the summary is one for the hours that are set, and what is at rest is of these.
WatchInv ==
    /\ UsagePageTypeOK
    /\ summary.read # None => summary.read = hours
    /\ summary.read = None /\ ~summary.error /\ summary.data # None => summary.data = hours

LEMMA Resource ==
    ASSUME NEW r \in Resources, NEW h \in Spans
    PROVE  /\ Reread(r, h) \in Resources /\ Reread(r, h).read = h
           /\ \A ok \in BOOLEAN :
                 /\ Settled(r, ok) \in Resources /\ Settled(r, ok).read = None
                 /\ ok => Settled(r, ok).data = r.read
                 /\ ~ok => Settled(r, ok).error
           /\ Unmounted \in Resources /\ Unmounted.read = None /\ Unmounted.data = None
  BY DEF Resources, Reread, Settled, Unmounted, Maybe

LEMMA WatchInitial == WatchInit => WatchInv
<1> SUFFICES ASSUME WatchInit PROVE WatchInv
  OBVIOUS
<1>1. Span \in Spans /\ 0 \in 0..MaxLooks
  BY UsagePageAssumption
<1>2. Unmounted \in Resources /\ Unmounted.read = None /\ Unmounted.data = None
  BY DEF Resources, Unmounted, Maybe
<1> QED
  BY <1>1, <1>2 DEF WatchInit, WatchInv, UsagePageTypeOK, Maybe

LEMMA WatchStep ==
    ASSUME WatchInv, WatchNext
    PROVE  WatchInv'
<1>0. /\ summary \in Resources /\ recent \in Resources /\ polled \in Resources /\ hours \in Spans
      /\ Span \in Spans /\ None \notin Spans /\ watched \in Maybe({"usage", "overview"})
      /\ looks \in 0..MaxLooks
      /\ Unmounted \in Resources /\ Unmounted.read = None /\ Unmounted.data = None
      /\ Look => looks' \in 0..MaxLooks
  BY Resource, UsagePageAssumption DEF WatchInv, UsagePageTypeOK, Look
<1> USE DEF WatchInv, UsagePageTypeOK, Maybe
<1>1. ASSUME NEW p \in {"usage", "overview"}, Watch(p)
      PROVE  WatchInv'
  BY <1>0, <1>1, Resource DEF Watch
<1>2. ASSUME NEW h \in Spans, setHours(h)
      PROVE  WatchInv'
  BY <1>0, <1>2, Resource, ZenonT(40) DEF setHours
<1>3. CASE refreshUsage \/ RetrySummary \/ RetryRecent
  BY <1>0, <1>3, Resource DEF refreshUsage, RetrySummary, RetryRecent
<1>4. CASE PollOverview
  BY <1>0, <1>4, Resource DEF PollOverview
<1>5. ASSUME NEW ok \in BOOLEAN, SummaryArrives(ok) \/ RecentArrives(ok) \/ OverviewArrives(ok)
      PROVE  WatchInv'
  BY <1>0, <1>5, Resource, SMTT(30) DEF SummaryArrives, RecentArrives, OverviewArrives
<1> QED
  BY <1>1, <1>2, <1>3, <1>4, <1>5 DEF WatchNext, WatchAnswered

-----------------------------------------------------------------------------
(* The panel: each part takes its steps while the others stand still. *)

PanelInv == PagesInv /\ DialogInv /\ WatchInv

LEMMA PanelStep == PanelInv /\ [Next]_PanelVars => PanelInv'
<1> SUFFICES ASSUME PagesInv, DialogInv, WatchInv, [Next]_PanelVars
             PROVE  PagesInv' /\ DialogInv' /\ WatchInv'
  BY DEF PanelInv
<1> USE DEF pageVars, usageVars, watchVars
<1>1. UNCHANGED usageVars => DialogInv'
  BY DEF DialogInv, SetTypes, PartTypes, Numbered, FiguresInv, FiguresAsk, OfficialInv, OfficialAsked,
         ListingInv, ListingAsked
<1>2. UNCHANGED watchVars => WatchInv'
  BY DEF WatchInv, UsagePageTypeOK
<1>3. ASSUME UNCHANGED pageVars, UNCHANGED spent \/ Event
      PROVE  PagesInv'
  <2>1. SpentTypes'
    BY <1>3, PanelAssumption DEF Event, SpentTypes, PagesInv, TypeOK
  <2> QED
    BY <1>3, <2>1 DEF SpentTypes, PagesInv, TypeOK, CallsInv, Mine, ListInv
<1>4. CASE PagesNext /\ UNCHANGED <<usageVars, watchVars>>
  BY <1>1, <1>2, <1>4, PagesStep
<1>5. CASE UsageNext /\ UNCHANGED <<pageVars, watchVars>>
  <2>1. UNCHANGED spent \/ Event
    <3>1. ASSUME NEW q, NEW ok, NEW probed,
                 \/ UsageArrives(q, ok) \/ SyncReturns(q, ok) \/ OfficialArrives(q, ok)
                 \/ ListingArrives(q, ok) \/ QuotaArrives(q, ok) \/ RedeemReturns(q, ok, probed)
          PROVE  Answered(ok)
      BY <3>1
      DEF UsageArrives, SyncReturns, OfficialArrives, ListingArrives, QuotaArrives, RedeemReturns
    <3>2. UsageAnswered => \E ok : Answered(ok)
      BY <3>1 DEF UsageAnswered
    <3>3. UsageOperates => UNCHANGED spent
      BY DEF UsageOperates, OpenUsage, CloseUsage, SetTab, SetRange, RefreshOfficial, SetFilter, SetPage,
             ConfirmVoucher, Redeem
    <3> QED
      BY <1>5, <3>2, <3>3 DEF UsageNext, Answered
  <2>2. DialogInv'
    BY <1>5, DialogOperates, TurnedInv, DialogAnswers DEF UsageNext
  <2> QED
    BY <1>2, <1>3, <1>5, <2>1, <2>2
<1>6. CASE WatchNext /\ UNCHANGED <<pageVars, usageVars>>
  <2>1. UNCHANGED spent \/ Event
    BY <1>6
    DEF WatchNext, Watch, setHours, refreshUsage, RetrySummary, RetryRecent, PollOverview, WatchAnswered,
        SummaryArrives, RecentArrives, OverviewArrives, Bounded
  <2> QED
    BY <1>1, <1>3, <1>6, <2>1, WatchStep
<1>7. CASE UNCHANGED PanelVars
  BY <1>1, <1>2, <1>3, <1>7 DEF PanelVars
<1> QED
  BY <1>4, <1>5, <1>6, <1>7 DEF Next

LEMMA PanelAlways == Spec => []PanelInv
<1>1. PanelInit => PanelInv
  BY PagesInit, DialogInit, WatchInitial DEF PanelInit, PanelInv
<1> QED
  BY <1>1, PanelStep, PTL DEF Spec

\* The state of the pages, of the dialog and of the usage page keeps its types.
THEOREM PanelTypes == Spec => []PanelTypeOK
<1>1. PanelInv => PanelTypeOK
  BY DEF PanelInv, PagesInv, DialogInv, SetTypes, PartTypes, FiguresPart, OfficialPart, ListingPart,
         VoucherPart, UsageTypeOK, WatchInv, PanelTypeOK
<1> QED
  BY <1>1, PanelAlways, PTL

\* However an editor is closed and opened again, and whatever replies come late, a page has at
\* most one save on its way, and its button is off exactly then (the handlers of save()).
THEOREM SaveOnce == Spec => []OneSave
<1>1. PanelInv => OneSave
  BY PagesMean DEF PanelInv
<1> QED
  BY <1>1, PanelAlways, PTL

\* However saves, deletions, actions and refreshes overlap and fail, a list at rest that is not
\* marked failed has every change its page was told of (useResource drops an answer that was
\* asked for before).
THEOREM ChangesShown == Spec => []ShowsOwnChanges
<1>1. PanelInv => ShowsOwnChanges
  BY PagesMean DEF PanelInv
<1> QED
  BY <1>1, PanelAlways, PTL

\* In whatever order answers arrive, a part of the dialog, or the usage page, that is at rest and
\* not marked failed shows the account, range, filter, page and hours that are set.
THEOREM AskedIsShown == Spec => []ShownIsAsked
<1>1. ASSUME PanelInv
      PROVE  ShownIsAsked
  <2>1. Shows(summary) = "data" => ~summary.error /\ summary.data # None
    BY DEF Shows
  <2> QED
    BY <1>1, <2>1
    DEF PanelInv, DialogInv, FiguresInv, OfficialInv, ListingInv, WatchInv, ShownIsAsked
<1> QED
  BY <1>1, PanelAlways, PTL

\* Wherever the settlement, the accounts or the requests are on the screen, what is split,
\* grouped and paged adds up (OfficialTab.tsx, health.ts, pagination.tsx), and the server's
\* totals have each request that they are split into once (admin_usage.rs).
THEOREM FiguresAreWhole == Spec => []FiguresAddUp
<1>1. FiguresAddUp
  BY SplitsAreWhole, BarsAreWhole, ListsAreWhole, RecordsAreWhole DEF FiguresAddUp
<1> QED
  BY <1>1, PTL

\* The estimate that the dialog shows of a quota bounds it (cycleEstimate).
THEOREM EstimateIsSound == Spec => []EstimateSound
<1>1. EstimateSound
  BY BoundsAreSound DEF EstimateSound
<1> QED
  BY <1>1, PTL
=============================================================================
