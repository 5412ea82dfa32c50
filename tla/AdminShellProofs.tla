--------------------------- MODULE AdminShellProofs ---------------------------
(***************************************************************************)
(* A token whose logout has ended does not come back, for any number of    *)
(* tabs, logins, reloads and failing requests.                             *)
(***************************************************************************)
EXTENDS AdminShell, TLAPS

Tokens  == 1..spent.logins
Tallies == [logins : 0..MaxLogins, faults : 0..MaxFaults, missing : 0..MaxMissing, reloads : 0..MaxReloads]

AuthType ==
    /\ request \in [Tabs -> Requests \cup {None}]
    /\ spent \in Tallies

\* Every token was made by a login.
Issued ==
    /\ stored \in Tokens \cup {None} /\ givenUp \subseteq Tokens
    /\ \A t \in Tabs : request[t] # None =>
        request[t].sent \in Tokens \cup {None} /\ request[t].session \in Tokens \cup {None}

\* The token in the reply to a login, not yet handled.
Fresh(t, s) == request[t] # None /\ request[t].session = s

\* Nobody has it yet: it is not stored, not on its way in a request, and not given up.
FreshIsNew ==
    \A t \in Tabs, s \in Tokens : Fresh(t, s) =>
        /\ s # stored /\ s \notin givenUp
        /\ \A u \in Tabs : request[u] # None => request[u].sent # s
        /\ \A u \in Tabs : Fresh(u, s) => u = t

ShellInv == AuthType /\ Issued /\ FreshIsNew /\ LoggedOutStays

-----------------------------------------------------------------------------
LEMMA TokenFacts ==
    ASSUME AuthType
    PROVE  /\ spent.logins \in Nat /\ Tokens \subseteq Nat /\ None \notin Tokens
           /\ Tokens \subseteq Sessions
  BY ShellAssumption DEF AuthType, Tallies, Tokens, Sessions

LEMMA SpendTypes ==
    ASSUME AuthType, NEW w \in {"logins", "faults", "missing", "reloads"}, NEW m \in Nat,
           m = CASE w = "logins" -> MaxLogins [] w = "faults" -> MaxFaults
                 [] w = "missing" -> MaxMissing [] w = "reloads" -> MaxReloads,
           Spend(w, m)
    PROVE  /\ spent' \in Tallies
           /\ spent'.logins = IF w = "logins" THEN spent.logins + 1 ELSE spent.logins
  BY ShellAssumption DEF AuthType, Tallies, Spend

\* The tokens stay as they are; a tab's request is new, answered without one, or gone.
LEMMA NoToken ==
    ASSUME ShellInv, NEW t \in Tabs, NEW r \in Requests \cup {None},
           request' = [request EXCEPT ![t] = r],
           r # None => r.session = None /\ (r.sent = stored \/ (request[t] # None /\ r.sent = request[t].sent)),
           spent' \in Tallies, spent'.logins = spent.logins,
           UNCHANGED <<stored, givenUp>>
    PROVE  ShellInv'
  <1>1. None \notin Tokens /\ Tokens' = Tokens BY TokenFacts DEF ShellInv, Tokens
  <1>2. AuthType' BY DEF ShellInv, AuthType
  <1>3. \A u \in Tabs : request'[u] = IF u = t THEN r ELSE request[u] BY DEF ShellInv, AuthType
  <1>4. Issued' BY <1>1, <1>3 DEF ShellInv, Issued
  <1>5. FreshIsNew' BY <1>1, <1>3 DEF ShellInv, FreshIsNew, Fresh
  <1>6. LoggedOutStays' BY DEF ShellInv, LoggedOutStays
  <1> QED BY <1>2, <1>4, <1>5, <1>6 DEF ShellInv

LEMMA StatusRequestType ==
    ASSUME ShellInv
    PROVE  StatusRequest \in Requests /\ StatusRequest.sent = stored /\ StatusRequest.session = None
  <1>1. stored \in Sessions \cup {None} BY TokenFacts DEF ShellInv, Issued
  <1> QED BY <1>1 DEF StatusRequest, Requests

\* Nothing of the sessions is touched.
LEMMA AuthKept ==
    ASSUME ShellInv, UNCHANGED <<stored, request, givenUp>>, spent' \in Tallies, spent'.logins = spent.logins
    PROVE  ShellInv'
  <1>1. Tokens' = Tokens BY DEF Tokens
  <1> QED BY <1>1 DEF ShellInv, AuthType, Issued, FreshIsNew, Fresh, LoggedOutStays

LEMMA LoginServed ==
    ASSUME ShellInv, NEW t \in Tabs, ServeLogin(t)
    PROVE  ShellInv'
  <1> DEFINE n == spent.logins + 1
  <1>1. /\ spent' \in Tallies /\ spent'.logins = n
        /\ UNCHANGED <<stored, givenUp>>
    BY SpendTypes, ShellAssumption DEF ServeLogin, ShellInv
  <1>2. request[t] \in Requests /\ request' = [request EXCEPT ![t].reply = "ok", ![t].session = n]
    BY <1>1 DEF ServeLogin, Reply, Waits, ShellInv, AuthType
  <1>3. spent.logins \in Nat /\ Tokens \subseteq Nat BY TokenFacts DEF ShellInv
  <1>4. n \notin Tokens /\ Tokens' = Tokens \cup {n} /\ n \in Sessions
    BY <1>1, <1>3 DEF Tokens, Tallies, Sessions
  <1>5. n # None /\ None \notin Tokens BY <1>3, ShellAssumption, TokenFacts DEF ShellInv
  <1> HIDE DEF n
  <1>6. /\ request'[t] \in Requests /\ request'[t].sent = request[t].sent /\ request'[t].session = n
        /\ \A u \in Tabs : u # t => request'[u] = request[u]
    BY <1>2, <1>4 DEF ShellInv, AuthType, Requests
  <1>7. AuthType' BY <1>1, <1>2, <1>4 DEF ShellInv, AuthType, Requests
  <1>8. request[t] # None BY DEF ServeLogin, Waits
  <1>9. Issued' BY <1>1, <1>4, <1>6, <1>8 DEF ShellInv, Issued
  <1>10. FreshIsNew'
    <2> SUFFICES ASSUME NEW u \in Tabs, NEW s \in Tokens', Fresh(u, s)'
                 PROVE  /\ s # stored' /\ s \notin givenUp'
                        /\ \A v \in Tabs : request'[v] # None => request'[v].sent # s
                        /\ \A v \in Tabs : Fresh(v, s)' => v = u
      BY DEF FreshIsNew
    <2>1. CASE s = n
      <3>1. s # stored' /\ s \notin givenUp' BY <1>1, <1>4, <1>5, <2>1 DEF ShellInv, Issued
      <3>2. \A v \in Tabs : request'[v] # None => request'[v].sent # s
        BY <1>4, <1>5, <1>6, <1>8, <2>1 DEF ShellInv, Issued
      <3>3. \A v \in Tabs : Fresh(v, s)' => v = t BY <1>4, <1>5, <1>6, <2>1 DEF ShellInv, Issued, Fresh
      <3> QED BY <3>1, <3>2, <3>3
    <2>2. CASE s # n
      <3>1. u # t /\ s \in Tokens /\ Fresh(u, s) BY <1>4, <1>6, <2>2 DEF Fresh
      <3> QED BY <1>1, <1>6, <1>8, <2>2, <3>1 DEF ShellInv, FreshIsNew, Fresh
    <2> QED BY <2>1, <2>2
  <1>11. LoggedOutStays' BY <1>1 DEF ShellInv, LoggedOutStays
  <1> QED BY <1>7, <1>9, <1>10, <1>11 DEF ShellInv

\* The reply to a login is taken up: its token is nobody else's.
LEMMA TokenStored ==
    ASSUME ShellInv, NEW t \in Tabs, LoggedIn(t)
    PROVE  ShellInv'
  <1>1. /\ request[t] # None /\ request[t].session \in Tokens \cup {None}
        /\ request' = [request EXCEPT ![t] = None]
        /\ UNCHANGED <<givenUp, spent>>
    BY DEF LoggedIn, Done, Enter, ShellInv, Issued
  <1>2. None \notin Tokens /\ Tokens' = Tokens BY <1>1, TokenFacts DEF ShellInv, Tokens
  <1>3. request'[t] = None /\ \A u \in Tabs : u # t => request'[u] = request[u]
    BY <1>1 DEF ShellInv, AuthType
  <1>4. AuthType' BY <1>1 DEF ShellInv, AuthType
  <1>5. CASE UNCHANGED stored
    <2>1. Issued' /\ FreshIsNew' /\ LoggedOutStays'
      BY <1>1, <1>2, <1>3, <1>5 DEF ShellInv, Issued, FreshIsNew, Fresh, LoggedOutStays
    <2> QED BY <1>4, <2>1 DEF ShellInv
  <1>6. CASE stored' = request[t].session
    <2>1. Issued' BY <1>1, <1>2, <1>3, <1>6 DEF ShellInv, Issued
    <2>2. FreshIsNew' BY <1>1, <1>2, <1>3, <1>6 DEF ShellInv, FreshIsNew, Fresh
    <2>3. LoggedOutStays'
      <3>1. CASE stored' = None BY <1>1, <1>2, <3>1 DEF ShellInv, Issued, LoggedOutStays
      <3>2. CASE stored' \in Tokens BY <1>1, <1>6, <3>2 DEF ShellInv, FreshIsNew, Fresh, LoggedOutStays
      <3> QED BY <1>1, <1>6, <3>1, <3>2
    <2> QED BY <1>4, <2>1, <2>2, <2>3 DEF ShellInv
  <1> QED BY <1>5, <1>6 DEF LoggedIn

\* The token of a logout is nobody's to come.
LEMMA TokenDropped ==
    ASSUME ShellInv, NEW t \in Tabs, LoggedOut(t)
    PROVE  ShellInv'
  <1>1. /\ request[t] # None /\ request[t].sent \in Tokens \cup {None}
        /\ request' = [request EXCEPT ![t] = None]
        /\ stored' = None /\ givenUp' = givenUp \cup ({request[t].sent} \ {None})
        /\ UNCHANGED spent
    BY DEF LoggedOut, Done, Enter, ShellInv, Issued
  <1>2. None \notin Tokens /\ Tokens' = Tokens BY <1>1, TokenFacts DEF ShellInv, Tokens
  <1>3. request'[t] = None /\ \A u \in Tabs : u # t => request'[u] = request[u]
    BY <1>1 DEF ShellInv, AuthType
  <1>4. AuthType' BY <1>1 DEF ShellInv, AuthType
  <1>5. Issued' BY <1>1, <1>2, <1>3 DEF ShellInv, Issued
  <1>6. FreshIsNew' BY <1>1, <1>2, <1>3 DEF ShellInv, FreshIsNew, Fresh
  <1>7. LoggedOutStays' BY <1>1, <1>2, <1>5 DEF Issued, LoggedOutStays
  <1> QED BY <1>4, <1>5, <1>6, <1>7 DEF ShellInv

LEMMA TabStep ==
    ASSUME ShellInv, NEW t \in Tabs,
           \/ Serve(t) \/ Fail(t) \/ Gate(t) \/ handleSubmit(t) \/ handleLogout(t)
           \/ Load(t) \/ Import(t) \/ ImportFails(t) \/ Reload(t)
    PROVE  ShellInv'
  <1>0. spent \in Tallies /\ request[t] \in Requests \cup {None} BY DEF ShellInv, AuthType
  <1>1. CASE ServeStatus(t) \/ ServeLogout(t) \/ Fail(t)
    <2>1. PICK reply \in {"ok", "failed"} : Reply(t, reply, None)
      BY <1>1 DEF ServeStatus, ServeLogout, Fail
    <2> DEFINE r == [request[t] EXCEPT !.reply = reply, !.session = None]
    <2>2. request[t] # None BY <1>1 DEF ServeStatus, ServeLogout, Fail, Waits
    <2>3. r \in Requests /\ r.session = None /\ r.sent = request[t].sent BY <1>0, <2>2 DEF Requests
    <2>4. request' = [request EXCEPT ![t] = r] BY <2>1 DEF Reply, ShellInv, AuthType
    <2>5. UNCHANGED <<stored, givenUp>> BY <1>1 DEF ServeStatus, ServeLogout, Fail
    <2>6. spent' \in Tallies /\ spent'.logins = spent.logins
      <3>1. CASE Fail(t) BY <3>1, SpendTypes, ShellAssumption DEF Fail, ShellInv
      <3>2. CASE UNCHANGED spent BY <1>0, <3>2
      <3> QED BY <1>1, <3>1, <3>2 DEF ServeStatus, ServeLogout
    <2> HIDE DEF r
    <2> QED BY <2>2, <2>3, <2>4, <2>5, <2>6, NoToken
  <1>2. CASE Checked(t)
    <2>1. request' = [request EXCEPT ![t] = None] /\ UNCHANGED <<stored, givenUp, spent>>
      BY <1>2 DEF Checked, Enter
    <2> QED BY <1>0, <2>1, NoToken
  <1>3. CASE handleSubmit(t) \/ handleLogout(t)
    <2>1. PICK w \in {"login", "logout"} :
            request' = [request EXCEPT ![t] = [what |-> w, sent |-> stored, reply |-> None, session |-> None]]
      BY <1>3 DEF handleSubmit, handleLogout
    <2>2. stored \in Sessions \cup {None} BY TokenFacts DEF ShellInv, Issued
    <2>3. PICK r \in Requests : r.sent = stored /\ r.session = None /\ request' = [request EXCEPT ![t] = r]
      <3>1. [what |-> w, sent |-> stored, reply |-> None, session |-> None] \in Requests BY <2>2 DEF Requests
      <3> QED BY <2>1, <3>1
    <2>4. UNCHANGED <<stored, givenUp, spent>> BY <1>3 DEF handleSubmit, handleLogout
    <2> QED BY <1>0, <2>3, <2>4, NoToken
  <1>4. CASE Load(t) \/ Import(t) BY <1>0, <1>4, AuthKept DEF Load, Import, auth
  <1>5. CASE ImportFails(t) \/ Reload(t)
    <2>1. spent' \in Tallies /\ spent'.logins = spent.logins
      BY <1>5, SpendTypes, ShellAssumption DEF ImportFails, Reload, ShellInv
    <2>2. CASE Restart(t)
      <3>1. request' = [request EXCEPT ![t] = StatusRequest] /\ UNCHANGED <<stored, givenUp>> BY <2>2 DEF Restart
      <3>2. PICK r \in Requests : r.sent = stored /\ r.session = None /\ request' = [request EXCEPT ![t] = r]
        BY <3>1, StatusRequestType
      <3> QED BY <2>1, <3>1, <3>2, NoToken
    <2>3. CASE UNCHANGED auth BY <2>1, <2>3, AuthKept DEF auth
    <2> QED BY <1>5, <2>2, <2>3 DEF ImportFails, Reload
  <1> QED BY <1>1, <1>2, <1>3, <1>4, <1>5, LoginServed, TokenStored, TokenDropped DEF Serve, Gate

LEMMA ShellInit == Init => ShellInv
  <1> SUFFICES ASSUME Init PROVE ShellInv OBVIOUS
  <1>1. stored = None /\ givenUp = {} /\ spent = [logins |-> 0, faults |-> 0, missing |-> 0, reloads |-> 0]
    BY DEF Init
  <1>2. StatusRequest = [what |-> "status", sent |-> None, reply |-> "failed", session |-> None]
    BY <1>1 DEF StatusRequest
  <1>3. StatusRequest \in Requests /\ StatusRequest.sent = None /\ StatusRequest.session = None
    BY <1>2 DEF Requests
  <1>4. AuthType BY <1>1, <1>3, ShellAssumption DEF Init, AuthType, Tallies
  <1>5. \A t \in Tabs : request[t] = StatusRequest BY DEF Init
  <1>6. Issued /\ FreshIsNew /\ LoggedOutStays
    BY <1>1, <1>3, <1>4, <1>5, TokenFacts DEF Issued, FreshIsNew, Fresh, LoggedOutStays
  <1> QED BY <1>4, <1>6 DEF ShellInv

LEMMA ShellStep == ShellInv /\ [Next]_vars => ShellInv'
  <1> SUFFICES ASSUME ShellInv, [Next]_vars PROVE ShellInv' OBVIOUS
  <1>1. CASE UNCHANGED vars BY <1>1, AuthKept DEF vars, auth, ShellInv, AuthType
  <1>2. CASE Expire BY <1>2, AuthKept DEF Expire, ShellInv, AuthType
  <1>3. CASE \E t \in Tabs : \/ Serve(t) \/ Fail(t) \/ Gate(t) \/ handleSubmit(t) \/ handleLogout(t)
                             \/ Load(t) \/ Import(t) \/ ImportFails(t) \/ Reload(t)
    BY <1>3, TabStep
  <1> QED BY <1>1, <1>2, <1>3 DEF Next

\* A token whose logout has ended, well or badly, in any tab, is not taken up again
\* by the replies still on their way to other tabs (api/auth.ts: login, logout).
THEOREM LogoutFinal == Spec => []LoggedOutStays
  <1>1. ShellInv => LoggedOutStays BY DEF ShellInv
  <1> QED BY <1>1, ShellInit, ShellStep, PTL DEF Spec
=============================================================================
