------------------------------ MODULE AdminShell ------------------------------
(***************************************************************************)
(* The panel around its pages: the gate that asks whether somebody is      *)
(* logged in (App.tsx), the login and logout of tabs that share one token  *)
(* in the browser's storage (api/auth.ts, api/client.ts), the server's     *)
(* sessions, and the reload of a page whose modules a release has replaced *)
(* (main.tsx, ChunkLoadBoundary.tsx).                                      *)
(*                                                                         *)
(* A session is the number of its login.  A request carries the token that *)
(* is stored when it is sent.                                              *)
(***************************************************************************)
EXTENDS Naturals, FiniteSets

CONSTANTS
    None,
    Tabs,
    MaxLogins,   \* bound on the sessions created
    MaxFaults,   \* bound on requests that fail
    MaxMissing,  \* bound on imports of a module that is gone
    MaxReloads   \* bound on the reloads by the operator

ASSUME ShellAssumption ==
    /\ MaxLogins \in Nat /\ MaxFaults \in Nat /\ MaxMissing \in Nat /\ MaxReloads \in Nat
    /\ None \notin Nat

VARIABLES
    stored,    \* the token in the browser's storage, which the tabs share
    live,      \* the server's sessions
    view,      \* what each tab is at
    request,   \* the request each tab waits for
    module,    \* the module of the view: wanted, loaded, or given up
    loaded,    \* the tab's load event has come
    marker,    \* the tab has been reloaded for a module (sessionStorage)
    givenUp,   \* sessions whose logout has ended
    reloads,   \* reloads of a tab since a module was loaded in it
    spent      \* the bounds

auth  == <<stored, live, request, givenUp>>
chunk == <<module, loaded, marker, reloads>>
vars  == <<auth, view, chunk, spent>>

Sessions == 1..MaxLogins
Views    == {"checking", "login", "dashboard"}
Requests == [what : {"status", "login", "logout"}, sent : Sessions \cup {None},
             reply : {None, "ok", "failed"}, session : Sessions \cup {None}]

TypeOK ==
    /\ stored \in Sessions \cup {None} /\ live \subseteq Sessions /\ givenUp \subseteq Sessions
    /\ view \in [Tabs -> Views]
    /\ request \in [Tabs -> Requests \cup {None}]
    /\ module \in [Tabs -> {"none", "wanted", "loaded", "failed"}]
    /\ loaded \in [Tabs -> BOOLEAN] /\ marker \in [Tabs -> BOOLEAN]
    /\ reloads \in [Tabs -> 0..MaxMissing]
    /\ spent \in [logins : 0..MaxLogins, faults : 0..MaxFaults,
                  missing : 0..MaxMissing, reloads : 0..MaxReloads]

\* getAuthStatus: without a token nothing is asked.
StatusRequest ==
    IF stored = None THEN [what |-> "status", sent |-> None, reply |-> "failed", session |-> None]
    ELSE [what |-> "status", sent |-> stored, reply |-> None, session |-> None]

Init ==
    /\ stored = None /\ live = {} /\ givenUp = {}
    /\ view = [t \in Tabs |-> "checking"]
    /\ request = [t \in Tabs |-> StatusRequest]
    /\ module = [t \in Tabs |-> "none"] /\ loaded = [t \in Tabs |-> FALSE]
    /\ marker = [t \in Tabs |-> FALSE] /\ reloads = [t \in Tabs |-> 0]
    /\ spent = [logins |-> 0, faults |-> 0, missing |-> 0, reloads |-> 0]

Spend(what, max) == spent[what] < max /\ spent' = [spent EXCEPT ![what] = @ + 1]

-----------------------------------------------------------------------------
(***************************************************************************)
(* The server (require_session, auth_login, auth_logout).                  *)
(***************************************************************************)
Reply(t, reply, session) ==
    request' = [request EXCEPT ![t].reply = reply, ![t].session = session]

Waits(t, what) == request[t] # None /\ request[t].what = what /\ request[t].reply = None

ServeStatus(t) ==
    /\ Waits(t, "status")
    /\ Reply(t, IF request[t].sent \in live THEN "ok" ELSE "failed", None)
    /\ UNCHANGED <<stored, live, givenUp, view, chunk, spent>>

ServeLogin(t) ==
    /\ Waits(t, "login") /\ Spend("logins", MaxLogins)
    /\ live' = live \cup {spent'.logins}
    /\ Reply(t, "ok", spent'.logins)
    /\ UNCHANGED <<stored, givenUp, view, chunk>>

\* Only a session that is valid may be ended.
ServeLogout(t) ==
    /\ Waits(t, "logout")
    /\ live' = live \ {request[t].sent}
    /\ Reply(t, IF request[t].sent \in live THEN "ok" ELSE "failed", None)
    /\ UNCHANGED <<stored, givenUp, view, chunk, spent>>

\* The network, the server or the token entered.
Fail(t) ==
    /\ request[t] # None /\ request[t].reply = None
    /\ Spend("faults", MaxFaults)
    /\ Reply(t, "failed", None)
    /\ UNCHANGED <<stored, live, givenUp, view, chunk>>

Expire ==
    /\ \E s \in live : live' = live \ {s}
    /\ UNCHANGED <<stored, request, givenUp, view, chunk, spent>>

-----------------------------------------------------------------------------
(***************************************************************************)
(* The gate.                                                               *)
(***************************************************************************)
Enter(t, v) ==
    /\ view' = [view EXCEPT ![t] = v]
    /\ request' = [request EXCEPT ![t] = None]
    /\ module' = [module EXCEPT ![t] = IF v = view[t] THEN @ ELSE "wanted"]

Done(t, what) == request[t] # None /\ request[t].what = what /\ request[t].reply # None

\* Slip: a status that cannot be read leaves the tab checking.
CheckedOk(t) ==
    /\ Done(t, "status") /\ (request[t].reply = "ok" \/ request[t].sent = None)
    /\ Enter(t, IF request[t].reply = "ok" THEN "dashboard" ELSE "login")
    /\ UNCHANGED <<stored, live, givenUp, loaded, marker, reloads, spent>>

\* A status that is refused or cannot be read leads to the login.
Checked(t) ==
    /\ Done(t, "status")
    /\ Enter(t, IF request[t].reply = "ok" THEN "dashboard" ELSE "login")
    /\ UNCHANGED <<stored, live, givenUp, loaded, marker, reloads, spent>>

handleSubmit(t) ==
    /\ view[t] = "login" /\ module[t] = "loaded" /\ request[t] = None
    /\ spent.logins < MaxLogins
    /\ request' = [request EXCEPT ![t] =
                    [what |-> "login", sent |-> stored, reply |-> None, session |-> None]]
    /\ UNCHANGED <<stored, live, givenUp, view, chunk, spent>>

LoggedIn(t) ==
    /\ Done(t, "login")
    /\ IF request[t].reply = "ok"
       THEN stored' = request[t].session /\ Enter(t, "dashboard")
       ELSE UNCHANGED stored /\ Enter(t, "login")
    /\ UNCHANGED <<live, givenUp, loaded, marker, reloads, spent>>

handleLogout(t) ==
    /\ view[t] = "dashboard" /\ module[t] = "loaded" /\ request[t] = None
    /\ request' = [request EXCEPT ![t] =
                    [what |-> "logout", sent |-> stored, reply |-> None, session |-> None]]
    /\ UNCHANGED <<stored, live, givenUp, view, chunk, spent>>

\* Slip: the token goes only when the server has ended its session.
LoggedOutIfOk(t) ==
    /\ Done(t, "logout")
    /\ stored' = IF request[t].reply = "ok" THEN None ELSE stored
    /\ givenUp' = givenUp \cup ({request[t].sent} \ {None})
    /\ Enter(t, IF request[t].reply = "ok" THEN "login" ELSE "dashboard")
    /\ UNCHANGED <<live, loaded, marker, reloads, spent>>

\* The token goes whatever the reply; the tab stays where it is when it failed.
LoggedOut(t) ==
    /\ Done(t, "logout")
    /\ stored' = None
    /\ givenUp' = givenUp \cup ({request[t].sent} \ {None})
    /\ Enter(t, IF request[t].reply = "ok" THEN "login" ELSE "dashboard")
    /\ UNCHANGED <<live, loaded, marker, reloads, spent>>

-----------------------------------------------------------------------------
(***************************************************************************)
(* Modules: the view's own is imported when the view is first shown.       *)
(***************************************************************************)

\* The tab starts again; a request on its way ends unheard, served or not.
Restart(t) ==
    /\ view' = [view EXCEPT ![t] = "checking"]
    /\ request' = [request EXCEPT ![t] = StatusRequest]
    /\ module' = [module EXCEPT ![t] = "none"]
    /\ loaded' = [loaded EXCEPT ![t] = FALSE]
    /\ UNCHANGED <<stored, live, givenUp>>

\* The load event clears the mark, whether or not the module has come.
Load(t) ==
    /\ ~loaded[t]
    /\ loaded' = [loaded EXCEPT ![t] = TRUE]
    /\ marker' = [marker EXCEPT ![t] = FALSE]
    /\ UNCHANGED <<auth, view, module, reloads, spent>>

Import(t) ==
    /\ module[t] = "wanted"
    /\ module' = [module EXCEPT ![t] = "loaded"]
    /\ reloads' = [reloads EXCEPT ![t] = 0]
    /\ UNCHANGED <<auth, view, loaded, marker, spent>>

\* vite:preloadError: the first reloads the tab, the second is shown.
ImportFails(t) ==
    /\ module[t] = "wanted" /\ Spend("missing", MaxMissing)
    /\ IF marker[t]
       THEN /\ module' = [module EXCEPT ![t] = "failed"]
            /\ UNCHANGED <<auth, view, loaded, marker, reloads>>
       ELSE /\ marker' = [marker EXCEPT ![t] = TRUE]
            /\ reloads' = [reloads EXCEPT ![t] = @ + 1]
            /\ Restart(t)

\* The browser's button, and that of the boundary which shows the failure.
Reload(t) ==
    /\ Spend("reloads", MaxReloads)
    /\ Restart(t)
    /\ reloads' = [reloads EXCEPT ![t] = 0]
    /\ UNCHANGED marker

-----------------------------------------------------------------------------
Serve(t) == ServeStatus(t) \/ ServeLogin(t) \/ ServeLogout(t)
Gate(t)  == Checked(t) \/ LoggedIn(t) \/ LoggedOut(t)

Next ==
    \/ Expire
    \/ \E t \in Tabs :
        \/ Serve(t) \/ Fail(t) \/ Gate(t) \/ handleSubmit(t) \/ handleLogout(t)
        \/ Load(t) \/ Import(t) \/ ImportFails(t) \/ Reload(t)

Spec == Init /\ [][Next]_vars

\* Requests are answered, replies handled, modules fetched.
Fairness == \A t \in Tabs : WF_vars(Serve(t)) /\ WF_vars(Gate(t)) /\ WF_vars(Import(t)) /\ WF_vars(Load(t))

FairSpec == Spec /\ Fairness

-----------------------------------------------------------------------------
\* A token whose logout has ended, well or badly, in any tab, is not sent again: it
\* is neither stored nor taken up by another tab's login.
LoggedOutStays == stored \notin givenUp

\* No tab is left waiting at the gate or for a module: it comes to its view, or to
\* the notice that the module cannot be loaded.
GateOpens ==
    \A t \in Tabs : view[t] = "checking" ~> view[t] # "checking" /\ module[t] \in {"loaded", "failed"}

\* A tab reloads itself once for a module that is gone, and then says so
\* ("自动整页 reload 一次;用 sessionStorage 标记防止死循环").
ReloadsOnce == \A t \in Tabs : reloads[t] <= 1
=============================================================================
