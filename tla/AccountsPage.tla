----------------------------- MODULE AccountsPage -----------------------------
(***************************************************************************)
(* The accounts page (pages/Accounts.tsx): its editor needs the list of    *)
(* runners; an action on an instance (start, stop, restart) is followed by *)
(* a refresh of the list 800 ms later; one row at a time is marked busy.   *)
(***************************************************************************)
EXTENDS Panel

HostsArrive ==
    /\ page = "accounts" /\ hosts = "asked"
    /\ \/ hosts' = "some" /\ UNCHANGED spent
       \/ hosts' = "none" /\ Event
    /\ UNCHANGED <<ver, page, list, editor, asked, calls, told, extras>>

\* Without a runner only a notice appears.
openEditor(row) == page = "accounts" /\ hosts = "some" /\ row \in Rows \cup {New} /\ OpenEditor(row)

AccountEditorClosed == page = "accounts" /\ CloseEditor

\* The button above the table.
refreshAll == page = "accounts" /\ ~loading /\ Reload

\* Slip: the save button stays on.
AccountSaveUnmarked ==
    /\ page = "accounts" /\ editing # None /\ ~saving
    /\ formError' = FALSE
    /\ Send(IF editing = New THEN "create" ELSE "update", editing)
    /\ UNCHANGED <<ver, page, list, hosts, editing, saving, asked, told, extras>>

AccountSave ==
    /\ page = "accounts" /\ editing # None /\ ~saving
    /\ saving' = TRUE /\ formError' = FALSE
    /\ Send(IF editing = New THEN "create" ELSE "update", editing)
    /\ UNCHANGED <<ver, page, list, hosts, editing, asked, told, extras>>

AccountSaveInvalid ==
    /\ page = "accounts" /\ editing # None /\ ~saving
    /\ formError' = TRUE
    /\ UNCHANGED <<ver, page, list, hosts, editing, saving, asked, calls, told, extras, spent>>

AccountSaved(c) ==
    /\ Returns(c, "accounts", Saves) /\ calls' = calls \ {c}
    /\ saving' = FALSE
    /\ IF c.reply = "ok"
       THEN editing' = None /\ refresh /\ Tell(c) /\ UNCHANGED formError
       ELSE formError' = TRUE /\ UNCHANGED <<editing, list, told>>
    /\ UNCHANGED <<ver, page, hosts, asked, extras, spent>>

\* The menu of the row that is marked busy is off; of the other rows it is not.
act(row) ==
    /\ page = "accounts" /\ Listed /\ ~Modal /\ busy # row
    /\ busy' = row
    /\ Send("action", row)
    /\ UNCHANGED <<ver, page, list, hosts, editor, asked, told, soon, logs, revealed>>

\* act() after the reply: whichever row is marked, none is any more.
Acted(c) ==
    /\ Returns(c, "accounts", {"action"}) /\ calls' = calls \ {c}
    /\ busy' = None
    /\ IF c.reply = "ok" THEN soon' = TRUE /\ Tell(c) ELSE UNCHANGED <<soon, told>>
    /\ UNCHANGED <<ver, page, list, hosts, editor, asked, logs, revealed, spent>>

\* The timers of several actions end as one.
Later ==
    /\ soon /\ soon' = FALSE
    /\ refresh
    /\ UNCHANGED <<ver, page, hosts, editor, asked, calls, told, busy, logs, revealed, spent>>

AccountRemove(row) ==
    /\ page = "accounts" /\ busy # row /\ confirm(row)
    /\ UNCHANGED <<ver, page, list, hosts, editor, calls, told, extras, spent>>

AccountRemoveConfirmed ==
    /\ page = "accounts" /\ asked # None /\ asked' = None
    /\ Send("delete", asked)
    /\ UNCHANGED <<ver, page, list, hosts, editor, told, extras>>

AccountRemoved(c) ==
    /\ Returns(c, "accounts", {"delete"}) /\ calls' = calls \ {c}
    /\ IF c.reply = "ok" THEN refresh /\ Tell(c) ELSE UNCHANGED <<list, told>>
    /\ UNCHANGED <<ver, page, hosts, editor, asked, extras, spent>>

showLogs(row) ==
    /\ page = "accounts" /\ Listed /\ ~Modal /\ busy # row
    /\ Send("logs", row)
    /\ UNCHANGED <<ver, page, list, hosts, editor, asked, told, extras>>

\* The log that arrives last is shown, whichever was asked for last.
LogsArrive(c) ==
    /\ Returns(c, "accounts", {"logs"}) /\ calls' = calls \ {c}
    /\ logs' = IF c.reply = "ok" THEN c.row ELSE logs
    /\ UNCHANGED <<ver, page, list, hosts, editor, asked, told, soon, busy, revealed, spent>>

CloseLogs ==
    /\ logs # None /\ ~Modal /\ logs' = None
    /\ UNCHANGED <<ver, page, list, hosts, editor, asked, calls, told, soon, busy, revealed, spent>>

AccountsNext ==
    \/ \E row \in Rows \cup {New} : openEditor(row)
    \/ \E row \in Rows : act(row) \/ AccountRemove(row) \/ showLogs(row)
    \/ AccountEditorClosed \/ refreshAll
    \/ AccountSave \/ AccountSaveInvalid \/ AccountRemoveConfirmed \/ CloseLogs

AccountsReturn(c) == AccountSaved(c) \/ Acted(c) \/ AccountRemoved(c) \/ LogsArrive(c)
=============================================================================
