------------------------------- MODULE KeysPage -------------------------------
(***************************************************************************)
(* The keys page (pages/Keys.tsx): a key's secret comes with the reply to  *)
(* its creation and is shown until the operator closes it.                 *)
(***************************************************************************)
EXTENDS Panel

KeyEditor(row) == page = "keys" /\ row \in Rows \cup {New} /\ OpenEditor(row)

\* save() up to the request; the button is off while a save is on its way.
KeySave ==
    /\ page = "keys" /\ editing # None /\ ~saving
    /\ saving' = TRUE /\ formError' = FALSE
    /\ Send(IF editing = New THEN "create" ELSE "update", editing)
    /\ UNCHANGED <<ver, page, list, hosts, editing, asked, told, extras>>

\* Escape or the cancel button.
KeyEditorClosed == page = "keys" /\ CloseEditor

\* toInput refuses the draft.
KeySaveInvalid ==
    /\ page = "keys" /\ editing # None /\ ~saving
    /\ formError' = TRUE
    /\ UNCHANGED <<ver, page, list, hosts, editing, saving, asked, calls, told, extras, spent>>

\* save() after the reply: it closes whichever editor is open.
KeySaved(c) ==
    /\ Returns(c, "keys", Saves) /\ calls' = calls \ {c}
    /\ saving' = FALSE
    /\ IF c.reply = "ok"
       THEN /\ editing' = None /\ refresh /\ Tell(c)
            /\ revealed' = (revealed \/ c.what = "create")
            /\ UNCHANGED formError
       ELSE formError' = TRUE /\ UNCHANGED <<editing, list, told, revealed>>
    /\ UNCHANGED <<ver, page, hosts, asked, soon, busy, logs, spent>>

KeyRemove(row) ==
    /\ page = "keys" /\ confirm(row)
    /\ UNCHANGED <<ver, page, list, hosts, editor, calls, told, extras, spent>>

KeyRemoveConfirmed ==
    /\ page = "keys" /\ asked # None /\ asked' = None
    /\ Send("delete", asked)
    /\ UNCHANGED <<ver, page, list, hosts, editor, told, extras>>

KeyRemoved(c) ==
    /\ Returns(c, "keys", {"delete"}) /\ calls' = calls \ {c}
    /\ IF c.reply = "ok" THEN refresh /\ Tell(c) ELSE UNCHANGED <<list, told>>
    /\ UNCHANGED <<ver, page, hosts, editor, asked, extras, spent>>

DismissSecret ==
    /\ page = "keys" /\ revealed /\ revealed' = FALSE
    /\ UNCHANGED <<ver, page, list, hosts, editor, asked, calls, told, soon, busy, logs, spent>>

KeysNext ==
    \/ \E row \in Rows \cup {New} : KeyEditor(row)
    \/ \E row \in Rows : KeyRemove(row)
    \/ KeyEditorClosed \/ KeySave \/ KeySaveInvalid \/ KeyRemoveConfirmed \/ DismissSecret

KeysReturn(c) == KeySaved(c) \/ KeyRemoved(c)
=============================================================================
