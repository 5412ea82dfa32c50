------------------------------ MODULE RunnersPage ------------------------------
(***************************************************************************)
(* The runners page (pages/Runners.tsx).  A runner is created and changed  *)
(* by one request (upsert); the draft is checked before a save begins.     *)
(***************************************************************************)
EXTENDS Panel

RunnerEditor(row) == page = "runners" /\ row \in Rows \cup {New} /\ OpenEditor(row)

RunnerEditorClosed == page = "runners" /\ CloseEditor

\* The button above the table.
RefreshRunners == page = "runners" /\ ~loading /\ Reload

RunnerSave ==
    /\ page = "runners" /\ editing # None /\ ~saving
    /\ saving' = TRUE /\ formError' = FALSE
    /\ Send("update", editing)
    /\ UNCHANGED <<ver, page, list, hosts, editing, asked, told, extras>>

RunnerSaveInvalid ==
    /\ page = "runners" /\ editing # None /\ ~saving
    /\ formError' = TRUE
    /\ UNCHANGED <<ver, page, list, hosts, editing, saving, asked, calls, told, extras, spent>>

RunnerSaved(c) ==
    /\ Returns(c, "runners", Saves) /\ calls' = calls \ {c}
    /\ saving' = FALSE
    /\ IF c.reply = "ok"
       THEN editing' = None /\ refresh /\ Tell(c) /\ UNCHANGED formError
       ELSE formError' = TRUE /\ UNCHANGED <<editing, list, told>>
    /\ UNCHANGED <<ver, page, hosts, asked, extras, spent>>

RunnerRemove(row) ==
    /\ page = "runners" /\ confirm(row)
    /\ UNCHANGED <<ver, page, list, hosts, editor, calls, told, extras, spent>>

RunnerRemoveConfirmed ==
    /\ page = "runners" /\ asked # None /\ asked' = None
    /\ Send("delete", asked)
    /\ UNCHANGED <<ver, page, list, hosts, editor, told, extras>>

RunnerRemoved(c) ==
    /\ Returns(c, "runners", {"delete"}) /\ calls' = calls \ {c}
    /\ IF c.reply = "ok" THEN refresh /\ Tell(c) ELSE UNCHANGED <<list, told>>
    /\ UNCHANGED <<ver, page, hosts, editor, asked, extras, spent>>

RunnersNext ==
    \/ \E row \in Rows \cup {New} : RunnerEditor(row)
    \/ \E row \in Rows : RunnerRemove(row)
    \/ RunnerEditorClosed \/ RefreshRunners
    \/ RunnerSave \/ RunnerSaveInvalid \/ RunnerRemoveConfirmed

RunnersReturn(c) == RunnerSaved(c) \/ RunnerRemoved(c)
=============================================================================
