---------------------------- MODULE GatewayProofs ----------------------------
(***************************************************************************)
(* Theorems about Gateway, for every value of its constants: the types,    *)
(* what a counter can say of the slots held, the caps, and how a request   *)
(* ends.                                                                   *)
(***************************************************************************)
EXTENDS Gateway, FiniteSetTheorems, TLAPS

USE DEF redisVars, handlerVars, taskVars, poolVars, stickyVars

\* Stages at which the handler works with the account in acct[r].
Serving == {"over", "overDel", "send", "failed", "failedDel", "mark", "fetch", "publish",
            "verdict", "relay", "stream", "ended"}

AcctKnown == \A r \in Requests : pc[r] \in Serving => acct[r] \in Accounts

RowsKnown == \A r \in Requests : pc[r] = "publish" => fetched[r] \in SUBSET Accounts

\* Stages at which the handler holds no account's slot, so that the next INCR
\* makes it a new holder.
Free == {"body", "pin", "select", "pick", "overDel", "failedDel", "mark", "fetch",
         "publish", "verdict"}

SlotFresh(r) ==
    /\ pc[r] \in {"idle", "key"} => holds[r] = {}
    /\ pc[r] \in Free => holds[r] \cap Accounts = {}
    /\ pc[r] \in {"send", "over", "failed"} => holds[r] \cap Accounts \subseteq {acct[r]}
    /\ pc[r] = "send" /\ ~acc[r] => holds[r] \cap Accounts = {}
    /\ pc[r] \in {"pick", "over", "overDel"} => acc[r]

SlotsFresh == \A r \in Requests : SlotFresh(r)

\* The inductive invariant on which the counting arguments rest.
StageInv == TypeOK /\ AcctKnown /\ RowsKnown /\ SlotsFresh
-----------------------------------------------------------------------------
LEMMA ConstFacts ==
    /\ Accounts \subseteq Counters
    /\ KeyOf \in [Requests -> Counters]
    /\ RepOf \in [Requests -> Replicas]
    /\ None \notin Accounts
    /\ \A r \in Requests : KeyOf[r] \notin Accounts
    /\ Requests \cap Replicas = {}
  BY SetsAssumption

LEMMA CommandTypes ==
    ASSUME CountersTypeOK, NEW c, Incr(c) \/ Decr(c) \/ Del(c)
    PROVE  CountersTypeOK'
  BY TTLAssumption DEF CountersTypeOK, Incr, Decr, Del

LEMMA PassTimeTypes ==
    ASSUME CountersTypeOK, PassTime \/ UNCHANGED redisVars
    PROVE  CountersTypeOK'
  BY TTLAssumption DEF CountersTypeOK, PassTime, Expiring

LEMMA TakeTypes ==
    ASSUME SlotTypeOK, NEW r \in Requests, NEW c \in Counters, Take(r, c)
    PROVE  holds' \in [Requests -> SUBSET Counters]
  BY DEF SlotTypeOK, Take

LEMMA ReleaseKeyType ==
    ASSUME NEW r \in Requests, SlotTypeOK
    PROVE  ReleaseKey(r) \in [Requests -> [Counters -> Nat]]
<1>1. KeyOf[r] \in Counters
  BY SetsAssumption
<1>2. [todo[r] EXCEPT ![KeyOf[r]] = @ + 1] \in [Counters -> Nat]
  BY <1>1 DEF SlotTypeOK
<1>3. [todo EXCEPT ![r] = [todo[r] EXCEPT ![KeyOf[r]] = @ + 1]]
        \in [Requests -> [Counters -> Nat]]
  BY <1>2 DEF SlotTypeOK
<1>4. QED
  BY <1>3 DEF ReleaseKey, SlotTypeOK

LEMMA EligibleType ==
    ASSUME FlowTypeOK, PoolTypeOK, NEW r \in Requests
    PROVE  Eligible(r) \subseteq Accounts
  BY ConstFacts DEF FlowTypeOK, PoolTypeOK, Eligible

\* A lease goes on to the send or, without a runner, ends the request.
LEMMA LeaseShape ==
    ASSUME NEW r, NEW a, Lease(r, a)
    PROVE  /\ acct' = [acct EXCEPT ![r] = a]
           /\ pc' = [pc EXCEPT ![r] = "send"] \/ pc' = [pc EXCEPT ![r] = "done"]
  BY DEF Lease, RunnerMissing, Refuse, Goto

LEMMA FinishTypes ==
    ASSUME NEW r \in Requests, NEW found \in BOOLEAN, SlotTypeOK, ResultTypeOK,
           Finish(r, found)
    PROVE  /\ todo' \in [Requests -> [Counters -> Nat]]
           /\ wipe' \in [Requests -> [Counters -> Nat]]
           /\ observed' \in [Requests -> BOOLEAN]
           /\ linger' \in [Requests -> BOOLEAN]
           /\ usage' \in [Requests -> Nat]
<1>1. CASE observed[r]
  BY <1>1 DEF Finish, SlotTypeOK, ResultTypeOK
<1>2. CASE ~observed[r]
  <2> DEFINE row == [c \in Counters |->
                       IF c = acct[r] /\ acc[r] THEN todo[r][c] + 1 ELSE ReleaseKey(r)[r][c]]
  <2>1. row \in [Counters -> Nat]
    BY ReleaseKeyType DEF SlotTypeOK
  <2>2. todo' = [todo EXCEPT ![r] = row]
    BY <1>2 DEF Finish
  <2>3. todo' \in [Requests -> [Counters -> Nat]]
    BY <2>1, <2>2 DEF SlotTypeOK
  <2>4. wipe' = wipe
    BY <1>2 DEF Finish
  <2>5. linger' \in [Requests -> BOOLEAN] /\ usage' \in [Requests -> Nat]
    BY <1>2 DEF Finish, ResultTypeOK
  <2>6. observed' \in [Requests -> BOOLEAN]
    BY DEF Finish, ResultTypeOK
  <2> QED
    BY <2>3, <2>4, <2>5, <2>6 DEF SlotTypeOK
<1> QED
  BY <1>1, <1>2
-----------------------------------------------------------------------------
LEMMA TypeInit == Init => TypeOK
  BY SetsAssumption, TTLAssumption
  DEF Init, CountersInit, TypeOK, CountersTypeOK, FlowTypeOK, SlotTypeOK, ResultTypeOK,
      PoolTypeOK, Stages, Handling, Tokens

\* Every step keeps the types, one action at a time.
LEMMA TypeStep == TypeOK /\ AcctKnown /\ RowsKnown /\ [Next]_vars => TypeOK'
<1> SUFFICES ASSUME CountersTypeOK, FlowTypeOK, SlotTypeOK, ResultTypeOK, PoolTypeOK,
                    AcctKnown, RowsKnown, [Next]_vars
             PROVE  TypeOK'
  BY DEF TypeOK
<1>1. ASSUME NEW r \in Requests, Arrive(r)
      PROVE  TypeOK'
  <2>1. CountersTypeOK'
    BY <1>1, CommandTypes, PassTimeTypes, ConstFacts DEF Arrive
  <2>2. FlowTypeOK'
    BY <1>1, ConstFacts
    DEF Arrive, FlowTypeOK, PoolTypeOK, Goto, Stages, Handling, AcctKnown, Serving
  <2>3. SlotTypeOK'
    BY <1>1, ConstFacts DEF Arrive, SlotTypeOK
  <2>4. ResultTypeOK'
    BY <1>1 DEF Arrive, ResultTypeOK
  <2>5. PoolTypeOK'
    BY <1>1, ConstFacts
    DEF Arrive, PoolTypeOK, FlowTypeOK, RowsKnown, Tokens
  <2> QED
    BY <2>1, <2>2, <2>3, <2>4, <2>5 DEF TypeOK
<1>2. ASSUME NEW r \in Requests, AcquireKey(r)
      PROVE  TypeOK'
  <2>1. CountersTypeOK'
    BY <1>2, CommandTypes, PassTimeTypes, ConstFacts DEF AcquireKey, Take
  <2>2. FlowTypeOK'
    BY <1>2, ConstFacts
    DEF AcquireKey, Take, FlowTypeOK, PoolTypeOK, Goto, Stages, Handling, AcctKnown, Serving
  <2>3. SlotTypeOK'
    BY <1>2, ConstFacts, TakeTypes DEF AcquireKey, SlotTypeOK
  <2>4. ResultTypeOK'
    BY <1>2 DEF AcquireKey, Take, ResultTypeOK
  <2>5. PoolTypeOK'
    BY <1>2, ConstFacts
    DEF AcquireKey, Take, PoolTypeOK, FlowTypeOK, RowsKnown, Tokens
  <2> QED
    BY <2>1, <2>2, <2>3, <2>4, <2>5 DEF TypeOK
<1>3. ASSUME NEW r \in Requests, KeyOver(r)
      PROVE  TypeOK'
  <2>1. CountersTypeOK'
    BY <1>3, CommandTypes, PassTimeTypes, ConstFacts DEF KeyOver, InlineDecr, GiveBack
  <2>2. FlowTypeOK'
    BY <1>3, ConstFacts
    DEF KeyOver, InlineDecr, GiveBack, FlowTypeOK, PoolTypeOK, Goto, Stages, Handling, AcctKnown, Serving
  <2>3. SlotTypeOK'
    BY <1>3, ConstFacts DEF KeyOver, InlineDecr, GiveBack, SlotTypeOK
  <2>4. ResultTypeOK'
    BY <1>3 DEF KeyOver, InlineDecr, GiveBack, ResultTypeOK
  <2>5. PoolTypeOK'
    BY <1>3, ConstFacts
    DEF KeyOver, InlineDecr, GiveBack, PoolTypeOK, FlowTypeOK, RowsKnown, Tokens
  <2> QED
    BY <2>1, <2>2, <2>3, <2>4, <2>5 DEF TypeOK
<1>4. ASSUME NEW r \in Requests, KeyDel(r)
      PROVE  TypeOK'
  <2>1. CountersTypeOK'
    BY <1>4, CommandTypes, PassTimeTypes, ConstFacts DEF KeyDel, InlineDel
  <2>2. FlowTypeOK'
    BY <1>4, ConstFacts
    DEF KeyDel, InlineDel, FlowTypeOK, PoolTypeOK, Goto, Stages, Handling, AcctKnown, Serving
  <2>3. SlotTypeOK'
    BY <1>4, ConstFacts DEF KeyDel, InlineDel, SlotTypeOK
  <2>4. ResultTypeOK'
    BY <1>4 DEF KeyDel, InlineDel, ResultTypeOK
  <2>5. PoolTypeOK'
    BY <1>4, ConstFacts
    DEF KeyDel, InlineDel, PoolTypeOK, FlowTypeOK, RowsKnown, Tokens
  <2> QED
    BY <2>1, <2>2, <2>3, <2>4, <2>5 DEF TypeOK
<1>5. ASSUME NEW r \in Requests, ReadBody(r)
      PROVE  TypeOK'
  <2>1. CountersTypeOK'
    BY <1>5, CommandTypes, PassTimeTypes, ConstFacts DEF ReadBody, Refuse
  <2>2. FlowTypeOK'
    BY <1>5, ConstFacts
    DEF ReadBody, Refuse, FlowTypeOK, PoolTypeOK, Goto, Stages, Handling, AcctKnown, Serving
  <2>3. SlotTypeOK'
    BY <1>5, ConstFacts, ReleaseKeyType DEF ReadBody, Refuse, SlotTypeOK
  <2>4. ResultTypeOK'
    BY <1>5 DEF ReadBody, Refuse, ResultTypeOK
  <2>5. PoolTypeOK'
    BY <1>5, ConstFacts
    DEF ReadBody, Refuse, PoolTypeOK, FlowTypeOK, RowsKnown, Tokens
  <2> QED
    BY <2>1, <2>2, <2>3, <2>4, <2>5 DEF TypeOK
<1>6. ASSUME NEW r \in Requests, LookupPin(r)
      PROVE  TypeOK'
  <2>1. CountersTypeOK'
    BY <1>6, CommandTypes, PassTimeTypes, ConstFacts DEF LookupPin
  <2>2. FlowTypeOK'
    BY <1>6, ConstFacts
    DEF LookupPin, FlowTypeOK, PoolTypeOK, Goto, Stages, Handling, AcctKnown, Serving
  <2>3. SlotTypeOK'
    BY <1>6, ConstFacts DEF LookupPin, SlotTypeOK
  <2>4. ResultTypeOK'
    BY <1>6 DEF LookupPin, ResultTypeOK
  <2>5. PoolTypeOK'
    BY <1>6, ConstFacts
    DEF LookupPin, PoolTypeOK, FlowTypeOK, RowsKnown, Tokens
  <2> QED
    BY <2>1, <2>2, <2>3, <2>4, <2>5 DEF TypeOK
<1>7. ASSUME NEW r \in Requests, SelectAny(r)
      PROVE  TypeOK'
  <2>1. CountersTypeOK'
    BY <1>7, CommandTypes, PassTimeTypes, ConstFacts
    DEF SelectAny, Lease, RunnerMissing, Refuse, Eligible
  <2>2. FlowTypeOK'
    BY <1>7, EligibleType, LeaseShape
    DEF SelectAny, Refuse, FlowTypeOK, Goto, Stages, Handling
  <2>3. SlotTypeOK'
    BY <1>7, ConstFacts, ReleaseKeyType
    DEF SelectAny, Lease, RunnerMissing, Refuse, Eligible, SlotTypeOK
  <2>4. ResultTypeOK'
    BY <1>7 DEF SelectAny, Lease, RunnerMissing, Refuse, Eligible, ResultTypeOK
  <2>5. PoolTypeOK'
    BY <1>7, ConstFacts
    DEF SelectAny, Lease, RunnerMissing, Refuse, Eligible, PoolTypeOK, FlowTypeOK, RowsKnown, Tokens
  <2> QED
    BY <2>1, <2>2, <2>3, <2>4, <2>5 DEF TypeOK
<1>8. ASSUME NEW r \in Requests, SelectPinned(r)
      PROVE  TypeOK'
  <2>1. CountersTypeOK'
    BY <1>8, CommandTypes, PassTimeTypes, ConstFacts
    DEF SelectPinned, Lease, RunnerMissing, Refuse, Eligible, Take
  <2>2. FlowTypeOK'
    BY <1>8, ConstFacts
    DEF SelectPinned, Lease, RunnerMissing, Refuse, Eligible, Take, FlowTypeOK, PoolTypeOK, Goto, Stages, Handling, AcctKnown, Serving
  <2>3. SlotTypeOK'
    BY <1>8, ConstFacts, ReleaseKeyType, TakeTypes
    DEF SelectPinned, Lease, RunnerMissing, Refuse, Eligible, SlotTypeOK, FlowTypeOK
  <2>4. ResultTypeOK'
    BY <1>8 DEF SelectPinned, Lease, RunnerMissing, Refuse, Eligible, Take, ResultTypeOK
  <2>5. PoolTypeOK'
    BY <1>8, ConstFacts
    DEF SelectPinned, Lease, RunnerMissing, Refuse, Eligible, Take, PoolTypeOK, FlowTypeOK, RowsKnown, Tokens
  <2> QED
    BY <2>1, <2>2, <2>3, <2>4, <2>5 DEF TypeOK
<1>9. ASSUME NEW r \in Requests, SelectCandidates(r)
      PROVE  TypeOK'
  <2>1. CountersTypeOK'
    BY <1>9, CommandTypes, PassTimeTypes, ConstFacts DEF SelectCandidates, Refuse, Eligible
  <2>2. FlowTypeOK'
    BY <1>9, EligibleType
    DEF SelectCandidates, Refuse, FlowTypeOK, Goto, Stages, Handling
  <2>3. SlotTypeOK'
    BY <1>9, ConstFacts, ReleaseKeyType DEF SelectCandidates, Refuse, Eligible, SlotTypeOK
  <2>4. ResultTypeOK'
    BY <1>9 DEF SelectCandidates, Refuse, Eligible, ResultTypeOK
  <2>5. PoolTypeOK'
    BY <1>9, ConstFacts
    DEF SelectCandidates, Refuse, Eligible, PoolTypeOK, FlowTypeOK, RowsKnown, Tokens
  <2> QED
    BY <2>1, <2>2, <2>3, <2>4, <2>5 DEF TypeOK
<1>10. ASSUME NEW r \in Requests, NEW a \in Accounts, PickAccount(r, a)
      PROVE  TypeOK'
  <2>1. CountersTypeOK'
    BY <1>10, CommandTypes, PassTimeTypes, ConstFacts
    DEF PickAccount, Lease, RunnerMissing, Refuse, Take
  <2>2. FlowTypeOK'
    BY <1>10, ConstFacts
    DEF PickAccount, Lease, RunnerMissing, Refuse, Take, FlowTypeOK, PoolTypeOK, Goto, Stages, Handling, AcctKnown, Serving
  <2>3. SlotTypeOK'
    BY <1>10, ConstFacts, ReleaseKeyType, TakeTypes
    DEF PickAccount, Lease, RunnerMissing, Refuse, SlotTypeOK
  <2>4. ResultTypeOK'
    BY <1>10 DEF PickAccount, Lease, RunnerMissing, Refuse, Take, ResultTypeOK
  <2>5. PoolTypeOK'
    BY <1>10, ConstFacts
    DEF PickAccount, Lease, RunnerMissing, Refuse, Take, PoolTypeOK, FlowTypeOK, RowsKnown, Tokens
  <2> QED
    BY <2>1, <2>2, <2>3, <2>4, <2>5 DEF TypeOK
<1>11. ASSUME NEW r \in Requests, OutOfCandidates(r)
      PROVE  TypeOK'
  <2>1. CountersTypeOK'
    BY <1>11, CommandTypes, PassTimeTypes, ConstFacts DEF OutOfCandidates, Refuse
  <2>2. FlowTypeOK'
    BY <1>11, ConstFacts
    DEF OutOfCandidates, Refuse, FlowTypeOK, PoolTypeOK, Goto, Stages, Handling, AcctKnown, Serving
  <2>3. SlotTypeOK'
    BY <1>11, ConstFacts, ReleaseKeyType DEF OutOfCandidates, Refuse, SlotTypeOK
  <2>4. ResultTypeOK'
    BY <1>11 DEF OutOfCandidates, Refuse, ResultTypeOK
  <2>5. PoolTypeOK'
    BY <1>11, ConstFacts
    DEF OutOfCandidates, Refuse, PoolTypeOK, FlowTypeOK, RowsKnown, Tokens
  <2> QED
    BY <2>1, <2>2, <2>3, <2>4, <2>5 DEF TypeOK
<1>12. ASSUME NEW r \in Requests, Over(r)
      PROVE  TypeOK'
  <2>1. CountersTypeOK'
    BY <1>12, CommandTypes, PassTimeTypes, ConstFacts DEF Over, InlineDecr, GiveBack
  <2>2. FlowTypeOK'
    BY <1>12, ConstFacts
    DEF Over, InlineDecr, GiveBack, FlowTypeOK, PoolTypeOK, Goto, Stages, Handling, AcctKnown, Serving
  <2>3. SlotTypeOK'
    BY <1>12, ConstFacts DEF Over, InlineDecr, GiveBack, SlotTypeOK
  <2>4. ResultTypeOK'
    BY <1>12 DEF Over, InlineDecr, GiveBack, ResultTypeOK
  <2>5. PoolTypeOK'
    BY <1>12, ConstFacts
    DEF Over, InlineDecr, GiveBack, PoolTypeOK, FlowTypeOK, RowsKnown, Tokens
  <2> QED
    BY <2>1, <2>2, <2>3, <2>4, <2>5 DEF TypeOK
<1>13. ASSUME NEW r \in Requests, OverDel(r)
      PROVE  TypeOK'
  <2>1. CountersTypeOK'
    BY <1>13, CommandTypes, PassTimeTypes, ConstFacts DEF OverDel, InlineDel
  <2>2. FlowTypeOK'
    BY <1>13, ConstFacts
    DEF OverDel, InlineDel, FlowTypeOK, PoolTypeOK, Goto, Stages, Handling, AcctKnown, Serving
  <2>3. SlotTypeOK'
    BY <1>13, ConstFacts DEF OverDel, InlineDel, SlotTypeOK
  <2>4. ResultTypeOK'
    BY <1>13 DEF OverDel, InlineDel, ResultTypeOK
  <2>5. PoolTypeOK'
    BY <1>13, ConstFacts
    DEF OverDel, InlineDel, PoolTypeOK, FlowTypeOK, RowsKnown, Tokens
  <2> QED
    BY <2>1, <2>2, <2>3, <2>4, <2>5 DEF TypeOK
<1>14. ASSUME NEW r \in Requests, Send(r)
      PROVE  TypeOK'
  <2>1. CountersTypeOK'
    BY <1>14, CommandTypes, PassTimeTypes, ConstFacts DEF Send
  <2>2. FlowTypeOK'
    BY <1>14, ConstFacts
    DEF Send, FlowTypeOK, PoolTypeOK, Goto, Stages, Handling, AcctKnown, Serving
  <2>3. SlotTypeOK'
    BY <1>14, ConstFacts DEF Send, SlotTypeOK
  <2>4. ResultTypeOK'
    BY <1>14 DEF Send, ResultTypeOK
  <2>5. PoolTypeOK'
    BY <1>14, ConstFacts
    DEF Send, PoolTypeOK, FlowTypeOK, RowsKnown, Tokens
  <2> QED
    BY <2>1, <2>2, <2>3, <2>4, <2>5 DEF TypeOK
<1>15. ASSUME NEW r \in Requests, SendFailed(r)
      PROVE  TypeOK'
  <2>1. CountersTypeOK'
    BY <1>15, CommandTypes, PassTimeTypes, ConstFacts
    DEF SendFailed, InlineDecr, GiveBack, AfterRelease
  <2>2. FlowTypeOK'
    BY <1>15, ConstFacts
    DEF SendFailed, InlineDecr, GiveBack, AfterRelease, FlowTypeOK, PoolTypeOK, Goto, Stages, Handling, AcctKnown, Serving
  <2>3. SlotTypeOK'
    BY <1>15, ConstFacts DEF SendFailed, InlineDecr, GiveBack, AfterRelease, SlotTypeOK
  <2>4. ResultTypeOK'
    BY <1>15 DEF SendFailed, InlineDecr, GiveBack, AfterRelease, ResultTypeOK
  <2>5. PoolTypeOK'
    BY <1>15, ConstFacts
    DEF SendFailed, InlineDecr, GiveBack, AfterRelease, PoolTypeOK, FlowTypeOK, RowsKnown, Tokens
  <2> QED
    BY <2>1, <2>2, <2>3, <2>4, <2>5 DEF TypeOK
<1>16. ASSUME NEW r \in Requests, FailedDel(r)
      PROVE  TypeOK'
  <2>1. CountersTypeOK'
    BY <1>16, CommandTypes, PassTimeTypes, ConstFacts DEF FailedDel, InlineDel, AfterRelease
  <2>2. FlowTypeOK'
    BY <1>16, ConstFacts
    DEF FailedDel, InlineDel, AfterRelease, FlowTypeOK, PoolTypeOK, Goto, Stages, Handling, AcctKnown, Serving
  <2>3. SlotTypeOK'
    BY <1>16, ConstFacts DEF FailedDel, InlineDel, AfterRelease, SlotTypeOK
  <2>4. ResultTypeOK'
    BY <1>16 DEF FailedDel, InlineDel, AfterRelease, ResultTypeOK
  <2>5. PoolTypeOK'
    BY <1>16, ConstFacts
    DEF FailedDel, InlineDel, AfterRelease, PoolTypeOK, FlowTypeOK, RowsKnown, Tokens
  <2> QED
    BY <2>1, <2>2, <2>3, <2>4, <2>5 DEF TypeOK
<1>17. ASSUME NEW r \in Requests, MarkUnhealthy(r)
      PROVE  TypeOK'
  <2>1. CountersTypeOK'
    BY <1>17, CommandTypes, PassTimeTypes, ConstFacts DEF MarkUnhealthy
  <2>2. FlowTypeOK'
    BY <1>17, ConstFacts
    DEF MarkUnhealthy, FlowTypeOK, PoolTypeOK, Goto, Stages, Handling, AcctKnown, Serving
  <2>3. SlotTypeOK'
    BY <1>17, ConstFacts DEF MarkUnhealthy, SlotTypeOK
  <2>4. ResultTypeOK'
    BY <1>17 DEF MarkUnhealthy, ResultTypeOK
  <2>5. PoolTypeOK'
    BY <1>17, ConstFacts
    DEF MarkUnhealthy, PoolTypeOK, FlowTypeOK, RowsKnown, Tokens
  <2> QED
    BY <2>1, <2>2, <2>3, <2>4, <2>5 DEF TypeOK
<1>18. ASSUME NEW r \in Requests, Fetch(r)
      PROVE  TypeOK'
  <2>1. CountersTypeOK'
    BY <1>18, CommandTypes, PassTimeTypes, ConstFacts DEF Fetch, Rows
  <2>2. FlowTypeOK'
    BY <1>18, ConstFacts
    DEF Fetch, Rows, FlowTypeOK, PoolTypeOK, Goto, Stages, Handling, AcctKnown, Serving
  <2>3. SlotTypeOK'
    BY <1>18, ConstFacts DEF Fetch, Rows, SlotTypeOK
  <2>4. ResultTypeOK'
    BY <1>18 DEF Fetch, Rows, ResultTypeOK
  <2>5. PoolTypeOK'
    BY <1>18, ConstFacts
    DEF Fetch, Rows, PoolTypeOK, FlowTypeOK, RowsKnown, Tokens
  <2> QED
    BY <2>1, <2>2, <2>3, <2>4, <2>5 DEF TypeOK
<1>19. ASSUME NEW r \in Requests, Publish(r)
      PROVE  TypeOK'
  <2>1. CountersTypeOK'
    BY <1>19, CommandTypes, PassTimeTypes, ConstFacts DEF Publish
  <2>2. FlowTypeOK'
    BY <1>19, ConstFacts
    DEF Publish, FlowTypeOK, PoolTypeOK, Goto, Stages, Handling, AcctKnown, Serving
  <2>3. SlotTypeOK'
    BY <1>19, ConstFacts DEF Publish, SlotTypeOK
  <2>4. ResultTypeOK'
    BY <1>19 DEF Publish, ResultTypeOK
  <2>5. PoolTypeOK'
    BY <1>19, ConstFacts
    DEF Publish, PoolTypeOK, FlowTypeOK, RowsKnown, Tokens
  <2> QED
    BY <2>1, <2>2, <2>3, <2>4, <2>5 DEF TypeOK
<1>20. ASSUME NEW r \in Requests, Verdict(r)
      PROVE  TypeOK'
  <2>1. CountersTypeOK'
    BY <1>20, CommandTypes, PassTimeTypes, ConstFacts DEF Verdict, Tried
  <2>2. FlowTypeOK'
    BY <1>20, ConstFacts
    DEF Verdict, Tried, FlowTypeOK, PoolTypeOK, Goto, Stages, Handling, AcctKnown, Serving
  <2>3. SlotTypeOK'
    BY <1>20, ConstFacts, ReleaseKeyType DEF Verdict, Tried, SlotTypeOK
  <2>4. ResultTypeOK'
    BY <1>20 DEF Verdict, Tried, ResultTypeOK
  <2>5. PoolTypeOK'
    BY <1>20, ConstFacts
    DEF Verdict, Tried, PoolTypeOK, FlowTypeOK, RowsKnown, Tokens
  <2> QED
    BY <2>1, <2>2, <2>3, <2>4, <2>5 DEF TypeOK
<1>21. ASSUME NEW r \in Requests, Relay(r)
      PROVE  TypeOK'
  <2>1. CountersTypeOK'
    BY <1>21, CommandTypes, PassTimeTypes, ConstFacts DEF Relay
  <2>2. FlowTypeOK'
    BY <1>21, ConstFacts
    DEF Relay, FlowTypeOK, PoolTypeOK, Goto, Stages, Handling, AcctKnown, Serving
  <2>3. SlotTypeOK'
    BY <1>21, ConstFacts DEF Relay, SlotTypeOK
  <2>4. ResultTypeOK'
    BY <1>21 DEF Relay, ResultTypeOK
  <2>5. PoolTypeOK'
    BY <1>21, ConstFacts
    DEF Relay, PoolTypeOK, FlowTypeOK, RowsKnown, Tokens
  <2> QED
    BY <2>1, <2>2, <2>3, <2>4, <2>5 DEF TypeOK
<1>22. ASSUME NEW r \in Requests, StreamEnd(r)
      PROVE  TypeOK'
  <2>f. PICK found \in BOOLEAN : Finish(r, found)
    BY <1>22 DEF StreamEnd
  <2>1. CountersTypeOK'
    BY <1>22, CommandTypes, PassTimeTypes, ConstFacts DEF StreamEnd, Finish
  <2>2. FlowTypeOK'
    BY <1>22, ConstFacts
    DEF StreamEnd, Finish, FlowTypeOK, PoolTypeOK, Goto, Stages, Handling, AcctKnown, Serving
  <2>3. SlotTypeOK'
    BY <1>22, ConstFacts, <2>f, FinishTypes DEF StreamEnd, SlotTypeOK
  <2>4. ResultTypeOK'
    BY <1>22, <2>f, FinishTypes DEF StreamEnd, ResultTypeOK
  <2>5. PoolTypeOK'
    BY <1>22, ConstFacts
    DEF StreamEnd, Finish, PoolTypeOK, FlowTypeOK, RowsKnown, Tokens
  <2> QED
    BY <2>1, <2>2, <2>3, <2>4, <2>5 DEF TypeOK
<1>23. ASSUME NEW r \in Requests, DropObserver(r)
      PROVE  TypeOK'
  <2>f. PICK found \in BOOLEAN : Finish(r, found)
    BY <1>23 DEF DropObserver
  <2>1. CountersTypeOK'
    BY <1>23, CommandTypes, PassTimeTypes, ConstFacts DEF DropObserver, Finish
  <2>2. FlowTypeOK'
    BY <1>23, ConstFacts
    DEF DropObserver, Finish, FlowTypeOK, PoolTypeOK, Goto, Stages, Handling, AcctKnown, Serving
  <2>3. SlotTypeOK'
    BY <1>23, ConstFacts, <2>f, FinishTypes DEF DropObserver, SlotTypeOK
  <2>4. ResultTypeOK'
    BY <1>23, <2>f, FinishTypes DEF DropObserver, ResultTypeOK
  <2>5. PoolTypeOK'
    BY <1>23, ConstFacts
    DEF DropObserver, Finish, PoolTypeOK, FlowTypeOK, RowsKnown, Tokens
  <2> QED
    BY <2>1, <2>2, <2>3, <2>4, <2>5 DEF TypeOK
<1>24. ASSUME NEW r \in Requests, NEW c \in Counters, TaskDecr(r, c)
      PROVE  TypeOK'
  <2>1. CountersTypeOK'
    BY <1>24, CommandTypes, PassTimeTypes, ConstFacts DEF TaskDecr, GiveBack
  <2>2. FlowTypeOK'
    BY <1>24, ConstFacts
    DEF TaskDecr, GiveBack, FlowTypeOK, PoolTypeOK, Goto, Stages, Handling, AcctKnown, Serving
  <2>3. SlotTypeOK'
    BY <1>24, ConstFacts DEF TaskDecr, GiveBack, SlotTypeOK
  <2>4. ResultTypeOK'
    BY <1>24 DEF TaskDecr, GiveBack, ResultTypeOK
  <2>5. PoolTypeOK'
    BY <1>24, ConstFacts
    DEF TaskDecr, GiveBack, PoolTypeOK, FlowTypeOK, RowsKnown, Tokens
  <2> QED
    BY <2>1, <2>2, <2>3, <2>4, <2>5 DEF TypeOK
<1>25. ASSUME NEW r \in Requests, NEW c \in Counters, TaskDel(r, c)
      PROVE  TypeOK'
  <2>1. CountersTypeOK'
    BY <1>25, CommandTypes, PassTimeTypes, ConstFacts DEF TaskDel
  <2>2. FlowTypeOK'
    BY <1>25, ConstFacts
    DEF TaskDel, FlowTypeOK, PoolTypeOK, Goto, Stages, Handling, AcctKnown, Serving
  <2>3. SlotTypeOK'
    BY <1>25, ConstFacts DEF TaskDel, SlotTypeOK
  <2>4. ResultTypeOK'
    BY <1>25 DEF TaskDel, ResultTypeOK
  <2>5. PoolTypeOK'
    BY <1>25, ConstFacts
    DEF TaskDel, PoolTypeOK, FlowTypeOK, RowsKnown, Tokens
  <2> QED
    BY <2>1, <2>2, <2>3, <2>4, <2>5 DEF TypeOK
<1>26. ASSUME NEW r \in Requests, StoreResponseId(r)
      PROVE  TypeOK'
  <2>1. CountersTypeOK'
    BY <1>26, CommandTypes, PassTimeTypes, ConstFacts DEF StoreResponseId
  <2>2. FlowTypeOK'
    BY <1>26, ConstFacts
    DEF StoreResponseId, FlowTypeOK, PoolTypeOK, Goto, Stages, Handling, AcctKnown, Serving
  <2>3. SlotTypeOK'
    BY <1>26, ConstFacts DEF StoreResponseId, SlotTypeOK
  <2>4. ResultTypeOK'
    BY <1>26 DEF StoreResponseId, ResultTypeOK
  <2>5. PoolTypeOK'
    BY <1>26, ConstFacts
    DEF StoreResponseId, PoolTypeOK, FlowTypeOK, RowsKnown, Tokens
  <2> QED
    BY <2>1, <2>2, <2>3, <2>4, <2>5 DEF TypeOK
<1>27. ASSUME NEW p \in Replicas, LoopFetch(p)
      PROVE  TypeOK'
  <2>1. CountersTypeOK'
    BY <1>27, CommandTypes, PassTimeTypes, ConstFacts DEF LoopFetch, Rows
  <2>2. FlowTypeOK'
    BY <1>27, ConstFacts
    DEF LoopFetch, Rows, FlowTypeOK, PoolTypeOK, Goto, Stages, Handling, AcctKnown, Serving
  <2>3. SlotTypeOK'
    BY <1>27, ConstFacts DEF LoopFetch, Rows, SlotTypeOK
  <2>4. ResultTypeOK'
    BY <1>27 DEF LoopFetch, Rows, ResultTypeOK
  <2>5. PoolTypeOK'
    BY <1>27, ConstFacts
    DEF LoopFetch, Rows, PoolTypeOK, FlowTypeOK, RowsKnown, Tokens
  <2> QED
    BY <2>1, <2>2, <2>3, <2>4, <2>5 DEF TypeOK
<1>28. ASSUME NEW p \in Replicas, LoopPublish(p)
      PROVE  TypeOK'
  <2>1. CountersTypeOK'
    BY <1>28, CommandTypes, PassTimeTypes, ConstFacts DEF LoopPublish
  <2>2. FlowTypeOK'
    BY <1>28, ConstFacts
    DEF LoopPublish, FlowTypeOK, PoolTypeOK, Goto, Stages, Handling, AcctKnown, Serving
  <2>3. SlotTypeOK'
    BY <1>28, ConstFacts DEF LoopPublish, SlotTypeOK
  <2>4. ResultTypeOK'
    BY <1>28 DEF LoopPublish, ResultTypeOK
  <2>5. PoolTypeOK'
    BY <1>28, ConstFacts
    DEF LoopPublish, PoolTypeOK, FlowTypeOK, RowsKnown, Tokens
  <2> QED
    BY <2>1, <2>2, <2>3, <2>4, <2>5 DEF TypeOK
<1>29. ASSUME NEW a \in Accounts, StatusChange(a)
      PROVE  TypeOK'
  <2>1. CountersTypeOK'
    BY <1>29, CommandTypes, PassTimeTypes, ConstFacts DEF StatusChange
  <2>2. FlowTypeOK'
    BY <1>29, ConstFacts
    DEF StatusChange, FlowTypeOK, PoolTypeOK, Goto, Stages, Handling, AcctKnown, Serving
  <2>3. SlotTypeOK'
    BY <1>29, ConstFacts DEF StatusChange, SlotTypeOK
  <2>4. ResultTypeOK'
    BY <1>29 DEF StatusChange, ResultTypeOK
  <2>5. PoolTypeOK'
    BY <1>29, ConstFacts
    DEF StatusChange, PoolTypeOK, FlowTypeOK, RowsKnown, Tokens
  <2> QED
    BY <2>1, <2>2, <2>3, <2>4, <2>5 DEF TypeOK
<1>30. ASSUME NEW r \in Requests, Cancel(r)
      PROVE  TypeOK'
  <2>1. CountersTypeOK'
    BY <1>30, CommandTypes, PassTimeTypes, ConstFacts DEF Cancel
  <2>2. FlowTypeOK'
    BY <1>30, ConstFacts
    DEF Cancel, FlowTypeOK, PoolTypeOK, Goto, Stages, Handling, AcctKnown, Serving
  <2>3. SlotTypeOK'
    BY <1>30, ConstFacts DEF Cancel, SlotTypeOK
  <2>4. ResultTypeOK'
    BY <1>30 DEF Cancel, ResultTypeOK
  <2>5. PoolTypeOK'
    BY <1>30, ConstFacts
    DEF Cancel, PoolTypeOK, FlowTypeOK, RowsKnown, Tokens
  <2> QED
    BY <2>1, <2>2, <2>3, <2>4, <2>5 DEF TypeOK
<1>31. ASSUME NEW p \in Replicas, Crash(p)
      PROVE  TypeOK'
  <2>1. CountersTypeOK'
    BY <1>31, CommandTypes, PassTimeTypes, ConstFacts DEF Crash, Rows
  <2>2. FlowTypeOK'
    BY <1>31, ConstFacts
    DEF Crash, Rows, FlowTypeOK, PoolTypeOK, Goto, Stages, Handling, AcctKnown, Serving
  <2>3. SlotTypeOK'
    BY <1>31, ConstFacts DEF Crash, Rows, SlotTypeOK
  <2>4. ResultTypeOK'
    BY <1>31 DEF Crash, Rows, ResultTypeOK
  <2>5. PoolTypeOK'
    BY <1>31, ConstFacts
    DEF Crash, Rows, PoolTypeOK, FlowTypeOK, RowsKnown, Tokens
  <2> QED
    BY <2>1, <2>2, <2>3, <2>4, <2>5 DEF TypeOK
<1>32. ASSUME NEW r \in Requests, AcquireKeyFails(r)
      PROVE  TypeOK'
  <2>1. CountersTypeOK'
    BY <1>32, CommandTypes, PassTimeTypes, ConstFacts DEF AcquireKeyFails, Take
  <2>2. FlowTypeOK'
    BY <1>32, ConstFacts
    DEF AcquireKeyFails, Take, FlowTypeOK, PoolTypeOK, Goto, Stages, Handling, AcctKnown, Serving
  <2>3. SlotTypeOK'
    BY <1>32, ConstFacts, TakeTypes DEF AcquireKeyFails, SlotTypeOK
  <2>4. ResultTypeOK'
    BY <1>32 DEF AcquireKeyFails, Take, ResultTypeOK
  <2>5. PoolTypeOK'
    BY <1>32, ConstFacts
    DEF AcquireKeyFails, Take, PoolTypeOK, FlowTypeOK, RowsKnown, Tokens
  <2> QED
    BY <2>1, <2>2, <2>3, <2>4, <2>5 DEF TypeOK
<1>33. ASSUME NEW r \in Requests, NEW a \in Accounts, PickFails(r, a)
      PROVE  TypeOK'
  <2>1. CountersTypeOK'
    BY <1>33, CommandTypes, PassTimeTypes, ConstFacts DEF PickFails, Refuse, Take
  <2>2. FlowTypeOK'
    BY <1>33, ConstFacts
    DEF PickFails, Refuse, Take, FlowTypeOK, PoolTypeOK, Goto, Stages, Handling, AcctKnown, Serving
  <2>3. SlotTypeOK'
    BY <1>33, ConstFacts, ReleaseKeyType, TakeTypes DEF PickFails, Refuse, SlotTypeOK
  <2>4. ResultTypeOK'
    BY <1>33 DEF PickFails, Refuse, Take, ResultTypeOK
  <2>5. PoolTypeOK'
    BY <1>33, ConstFacts
    DEF PickFails, Refuse, Take, PoolTypeOK, FlowTypeOK, RowsKnown, Tokens
  <2> QED
    BY <2>1, <2>2, <2>3, <2>4, <2>5 DEF TypeOK
<1>34. ASSUME NEW r \in Requests, NEW c \in Counters, TaskFails(r, c)
      PROVE  TypeOK'
  <2>1. CountersTypeOK'
    BY <1>34, CommandTypes, PassTimeTypes, ConstFacts DEF TaskFails
  <2>2. FlowTypeOK'
    BY <1>34, ConstFacts
    DEF TaskFails, FlowTypeOK, PoolTypeOK, Goto, Stages, Handling, AcctKnown, Serving
  <2>3. SlotTypeOK'
    BY <1>34, ConstFacts DEF TaskFails, SlotTypeOK
  <2>4. ResultTypeOK'
    BY <1>34 DEF TaskFails, ResultTypeOK
  <2>5. PoolTypeOK'
    BY <1>34, ConstFacts
    DEF TaskFails, PoolTypeOK, FlowTypeOK, RowsKnown, Tokens
  <2> QED
    BY <2>1, <2>2, <2>3, <2>4, <2>5 DEF TypeOK
<1>35. ASSUME Tick
      PROVE  TypeOK'
  <2>1. CountersTypeOK'
    BY <1>35, CommandTypes, PassTimeTypes, ConstFacts DEF Tick
  <2>2. FlowTypeOK'
    BY <1>35, ConstFacts
    DEF Tick, FlowTypeOK, PoolTypeOK, Goto, Stages, Handling, AcctKnown, Serving
  <2>3. SlotTypeOK'
    BY <1>35, ConstFacts DEF Tick, SlotTypeOK
  <2>4. ResultTypeOK'
    BY <1>35 DEF Tick, ResultTypeOK
  <2>5. PoolTypeOK'
    BY <1>35, ConstFacts
    DEF Tick, PoolTypeOK, FlowTypeOK, RowsKnown, Tokens
  <2> QED
    BY <2>1, <2>2, <2>3, <2>4, <2>5 DEF TypeOK
<1>36. ASSUME NEW r \in Requests, Recycle(r)
      PROVE  TypeOK'
  <2>1. CountersTypeOK'
    BY <1>36, CommandTypes, PassTimeTypes, ConstFacts DEF Recycle
  <2>2. FlowTypeOK'
    BY <1>36, ConstFacts
    DEF Recycle, FlowTypeOK, PoolTypeOK, Goto, Stages, Handling, AcctKnown, Serving
  <2>3. SlotTypeOK'
    BY <1>36, ConstFacts DEF Recycle, SlotTypeOK
  <2>4. ResultTypeOK'
    BY <1>36 DEF Recycle, ResultTypeOK
  <2>5. PoolTypeOK'
    BY <1>36, ConstFacts
    DEF Recycle, PoolTypeOK, FlowTypeOK, RowsKnown, Tokens
  <2> QED
    BY <2>1, <2>2, <2>3, <2>4, <2>5 DEF TypeOK
<1>37. CASE UNCHANGED vars
  BY <1>37
  DEF vars, TypeOK, CountersTypeOK, FlowTypeOK, SlotTypeOK, ResultTypeOK, PoolTypeOK
<1> QED
  BY <1>1, <1>2, <1>3, <1>4, <1>5, <1>6, <1>7, <1>8, <1>9, <1>10,
     <1>11, <1>12, <1>13, <1>14, <1>15, <1>16, <1>17, <1>18, <1>19, <1>20,
     <1>21, <1>22, <1>23, <1>24, <1>25, <1>26, <1>27, <1>28, <1>29, <1>30,
     <1>31, <1>32, <1>33, <1>34, <1>35, <1>36, <1>37
  DEF Next, Handler, Tasks, RedisFails
-----------------------------------------------------------------------------
LEMMA StageInit == Init => StageInv
  BY TypeInit DEF Init, StageInv, AcctKnown, RowsKnown, SlotsFresh, SlotFresh, Serving, Free

LEMMA StageStep == StageInv /\ [Next]_vars => StageInv'
<1> SUFFICES ASSUME StageInv, [Next]_vars
             PROVE  (AcctKnown /\ RowsKnown /\ SlotsFresh)'
  BY TypeStep DEF StageInv
<1> USE DEF StageInv, TypeOK, FlowTypeOK, SlotTypeOK, AcctKnown, RowsKnown
<1>1. ASSUME NEW r \in Requests, Arrive(r)
      PROVE  (AcctKnown /\ RowsKnown /\ SlotsFresh)'
  <2>1. AcctKnown'
    BY <1>1, ConstFacts
    DEF Arrive, Goto, Serving
  <2>2. RowsKnown'
    BY <1>1, ConstFacts
    DEF Arrive, Goto
  <2>3. SlotsFresh'
    <3> SUFFICES ASSUME NEW q \in Requests PROVE SlotFresh(q)'
      BY DEF SlotsFresh
    <3>0. SlotFresh(q)
      BY DEF SlotsFresh
    <3>1. CASE q # r
      BY <3>0, <3>1, <1>1 DEF Arrive, Goto, SlotFresh, Free
    <3>2. CASE q = r
      BY <3>0, <3>2, <1>1, ConstFacts DEF Arrive, Goto, SlotFresh, Free
    <3> QED
      BY <3>1, <3>2
  <2> QED
    BY <2>1, <2>2, <2>3
<1>2. ASSUME NEW r \in Requests, AcquireKey(r)
      PROVE  (AcctKnown /\ RowsKnown /\ SlotsFresh)'
  <2>1. AcctKnown'
    BY <1>2, ConstFacts
    DEF AcquireKey, Take, Goto, Serving
  <2>2. RowsKnown'
    BY <1>2, ConstFacts
    DEF AcquireKey, Take, Goto
  <2>3. SlotsFresh'
    <3> SUFFICES ASSUME NEW q \in Requests PROVE SlotFresh(q)'
      BY DEF SlotsFresh
    <3>0. SlotFresh(q)
      BY DEF SlotsFresh
    <3>1. CASE q # r
      BY <3>0, <3>1, <1>2 DEF AcquireKey, Take, Goto, SlotFresh, Free
    <3>2. CASE q = r
      BY <3>0, <3>2, <1>2, ConstFacts DEF AcquireKey, Take, Goto, SlotFresh, Free
    <3> QED
      BY <3>1, <3>2
  <2> QED
    BY <2>1, <2>2, <2>3
<1>3. ASSUME NEW r \in Requests, KeyOver(r)
      PROVE  (AcctKnown /\ RowsKnown /\ SlotsFresh)'
  <2>1. AcctKnown'
    BY <1>3, ConstFacts
    DEF KeyOver, InlineDecr, GiveBack, Goto, Serving
  <2>2. RowsKnown'
    BY <1>3, ConstFacts
    DEF KeyOver, InlineDecr, GiveBack, Goto
  <2>3. SlotsFresh'
    <3> SUFFICES ASSUME NEW q \in Requests PROVE SlotFresh(q)'
      BY DEF SlotsFresh
    <3>0. SlotFresh(q)
      BY DEF SlotsFresh
    <3>1. CASE q # r
      BY <3>0, <3>1, <1>3 DEF KeyOver, InlineDecr, GiveBack, Goto, SlotFresh, Free
    <3>2. CASE q = r
      BY <3>0, <3>2, <1>3, ConstFacts DEF KeyOver, InlineDecr, GiveBack, Goto, SlotFresh, Free
    <3> QED
      BY <3>1, <3>2
  <2> QED
    BY <2>1, <2>2, <2>3
<1>4. ASSUME NEW r \in Requests, KeyDel(r)
      PROVE  (AcctKnown /\ RowsKnown /\ SlotsFresh)'
  <2>1. AcctKnown'
    BY <1>4, ConstFacts
    DEF KeyDel, InlineDel, Goto, Serving
  <2>2. RowsKnown'
    BY <1>4, ConstFacts
    DEF KeyDel, InlineDel, Goto
  <2>3. SlotsFresh'
    <3> SUFFICES ASSUME NEW q \in Requests PROVE SlotFresh(q)'
      BY DEF SlotsFresh
    <3>0. SlotFresh(q)
      BY DEF SlotsFresh
    <3>1. CASE q # r
      BY <3>0, <3>1, <1>4 DEF KeyDel, InlineDel, Goto, SlotFresh, Free
    <3>2. CASE q = r
      BY <3>0, <3>2, <1>4, ConstFacts DEF KeyDel, InlineDel, Goto, SlotFresh, Free
    <3> QED
      BY <3>1, <3>2
  <2> QED
    BY <2>1, <2>2, <2>3
<1>5. ASSUME NEW r \in Requests, ReadBody(r)
      PROVE  (AcctKnown /\ RowsKnown /\ SlotsFresh)'
  <2>1. AcctKnown'
    BY <1>5, ConstFacts
    DEF ReadBody, Refuse, Goto, Serving
  <2>2. RowsKnown'
    <3> SUFFICES ASSUME NEW q \in Requests, pc'[q] = "publish"
                 PROVE  fetched'[q] \in SUBSET Accounts
      BY DEF RowsKnown
    <3>1. pc \in [Requests -> Stages]
      BY DEF StageInv, TypeOK, FlowTypeOK
    <3>2. pc[q] = "publish"
      BY <1>5, <3>1 DEF ReadBody, Refuse, Goto
    <3>3. UNCHANGED fetched
      BY <1>5 DEF ReadBody
    <3> QED
      BY <3>2, <3>3 DEF RowsKnown
  <2>3. SlotsFresh'
    <3> SUFFICES ASSUME NEW q \in Requests PROVE SlotFresh(q)'
      BY DEF SlotsFresh
    <3>0. SlotFresh(q)
      BY DEF SlotsFresh
    <3>1. CASE q # r
      BY <3>0, <3>1, <1>5 DEF ReadBody, Refuse, Goto, SlotFresh, Free
    <3>2. CASE q = r
      BY <3>0, <3>2, <1>5, ConstFacts DEF ReadBody, Refuse, Goto, SlotFresh, Free
    <3> QED
      BY <3>1, <3>2
  <2> QED
    BY <2>1, <2>2, <2>3
<1>6. ASSUME NEW r \in Requests, LookupPin(r)
      PROVE  (AcctKnown /\ RowsKnown /\ SlotsFresh)'
  <2>1. AcctKnown'
    BY <1>6, ConstFacts
    DEF LookupPin, Goto, Serving
  <2>2. RowsKnown'
    BY <1>6, ConstFacts
    DEF LookupPin, Goto
  <2>3. SlotsFresh'
    <3> SUFFICES ASSUME NEW q \in Requests PROVE SlotFresh(q)'
      BY DEF SlotsFresh
    <3>0. SlotFresh(q)
      BY DEF SlotsFresh
    <3>1. CASE q # r
      BY <3>0, <3>1, <1>6 DEF LookupPin, Goto, SlotFresh, Free
    <3>2. CASE q = r
      BY <3>0, <3>2, <1>6, ConstFacts DEF LookupPin, Goto, SlotFresh, Free
    <3> QED
      BY <3>1, <3>2
  <2> QED
    BY <2>1, <2>2, <2>3
<1>7. ASSUME NEW r \in Requests, SelectAny(r)
      PROVE  (AcctKnown /\ RowsKnown /\ SlotsFresh)'
  <2>1. AcctKnown'
    <3>1. CASE \E a \in Eligible(r) : Lease(r, a)
      <4>1. PICK a \in Accounts : Lease(r, a)
        BY <3>1, EligibleType
      <4>2. acct' = [acct EXCEPT ![r] = a]
        BY <4>1, LeaseShape
      <4>3. \E s \in Stages : pc' = [pc EXCEPT ![r] = s]
        BY <4>1, LeaseShape DEF Stages, Handling
      <4> QED
        BY <4>2, <4>3
    <3>2. CASE Refuse(r) /\ UNCHANGED acct
      BY <3>2 DEF Refuse, Goto, Serving
    <3> QED
      BY <1>7, <3>1, <3>2 DEF SelectAny
  <2>2. RowsKnown'
    <3> SUFFICES ASSUME NEW q \in Requests, pc'[q] = "publish"
                 PROVE  fetched'[q] \in SUBSET Accounts
      BY DEF RowsKnown
    <3>1. pc \in [Requests -> Stages]
      BY DEF StageInv, TypeOK, FlowTypeOK
    <3>2. pc[q] = "publish"
      BY <1>7, LeaseShape, <3>1 DEF SelectAny, Refuse, Goto
    <3>3. UNCHANGED fetched
      BY <1>7 DEF SelectAny
    <3> QED
      BY <3>2, <3>3 DEF RowsKnown
  <2>3. SlotsFresh'
    <3> SUFFICES ASSUME NEW q \in Requests PROVE SlotFresh(q)'
      BY DEF SlotsFresh
    <3>0. SlotFresh(q)
      BY DEF SlotsFresh
    <3>1. CASE q # r
      BY <3>0, <3>1, <1>7
      DEF SelectAny, Lease, RunnerMissing, Refuse, Eligible, Goto, SlotFresh, Free
    <3>2. CASE q = r
      BY <3>0, <3>2, <1>7, ConstFacts
      DEF SelectAny, Lease, RunnerMissing, Refuse, Eligible, Goto, SlotFresh, Free
    <3> QED
      BY <3>1, <3>2
  <2> QED
    BY <2>1, <2>2, <2>3
<1>8. ASSUME NEW r \in Requests, SelectPinned(r)
      PROVE  (AcctKnown /\ RowsKnown /\ SlotsFresh)'
  <2>1. AcctKnown'
    <3> SUFFICES ASSUME NEW q \in Requests, pc'[q] \in Serving
                 PROVE  acct'[q] \in Accounts
      BY DEF AcctKnown
    <3>1. CASE q # r
      <4>1. pc'[q] = pc[q] /\ acct'[q] = acct[q]
        BY <3>1, <1>8, LeaseShape DEF SelectPinned, Refuse, Goto
      <4> QED
        BY <4>1 DEF AcctKnown
    <3>2. CASE q = r
      BY <3>2, <1>8, EligibleType, LeaseShape DEF SelectPinned, Refuse, Goto, Serving
    <3> QED
      BY <3>1, <3>2
  <2>2. RowsKnown'
    <3> SUFFICES ASSUME NEW q \in Requests, pc'[q] = "publish"
                 PROVE  fetched'[q] \in SUBSET Accounts
      BY DEF RowsKnown
    <3>1. pc \in [Requests -> Stages]
      BY DEF StageInv, TypeOK, FlowTypeOK
    <3>2. pc[q] = "publish"
      BY <1>8, LeaseShape, <3>1 DEF SelectPinned, Refuse, Goto
    <3>3. UNCHANGED fetched
      BY <1>8 DEF SelectPinned
    <3> QED
      BY <3>2, <3>3 DEF RowsKnown
  <2>3. SlotsFresh'
    <3> SUFFICES ASSUME NEW q \in Requests PROVE SlotFresh(q)'
      BY DEF SlotsFresh
    <3>0. SlotFresh(q)
      BY DEF SlotsFresh
    <3>1. CASE q # r
      BY <3>0, <3>1, <1>8
      DEF SelectPinned, Lease, RunnerMissing, Refuse, Eligible, Take, Goto, SlotFresh,
          Free
    <3>2. CASE q = r
      BY <3>0, <3>2, <1>8, ConstFacts
      DEF SelectPinned, Lease, RunnerMissing, Refuse, Eligible, Take, Goto, SlotFresh,
          Free
    <3> QED
      BY <3>1, <3>2
  <2> QED
    BY <2>1, <2>2, <2>3
<1>9. ASSUME NEW r \in Requests, SelectCandidates(r)
      PROVE  (AcctKnown /\ RowsKnown /\ SlotsFresh)'
  <2>1. AcctKnown'
    BY <1>9, ConstFacts
    DEF SelectCandidates, Refuse, Eligible, Goto, Serving
  <2>2. RowsKnown'
    <3> SUFFICES ASSUME NEW q \in Requests, pc'[q] = "publish"
                 PROVE  fetched'[q] \in SUBSET Accounts
      BY DEF RowsKnown
    <3>1. pc \in [Requests -> Stages]
      BY DEF StageInv, TypeOK, FlowTypeOK
    <3>2. pc[q] = "publish"
      BY <1>9, <3>1 DEF SelectCandidates, Refuse, Goto
    <3>3. UNCHANGED fetched
      BY <1>9 DEF SelectCandidates
    <3> QED
      BY <3>2, <3>3 DEF RowsKnown
  <2>3. SlotsFresh'
    <3> SUFFICES ASSUME NEW q \in Requests PROVE SlotFresh(q)'
      BY DEF SlotsFresh
    <3>0. SlotFresh(q)
      BY DEF SlotsFresh
    <3>1. CASE q # r
      BY <3>0, <3>1, <1>9 DEF SelectCandidates, Refuse, Eligible, Goto, SlotFresh, Free
    <3>2. CASE q = r
      BY <3>0, <3>2, <1>9, ConstFacts
      DEF SelectCandidates, Refuse, Eligible, Goto, SlotFresh, Free
    <3> QED
      BY <3>1, <3>2
  <2> QED
    BY <2>1, <2>2, <2>3
<1>10. ASSUME NEW r \in Requests, NEW a \in Accounts, PickAccount(r, a)
      PROVE  (AcctKnown /\ RowsKnown /\ SlotsFresh)'
  <2>1. AcctKnown'
    BY <1>10, ConstFacts
    DEF PickAccount, Lease, RunnerMissing, Refuse, Take, Goto, Serving
  <2>2. RowsKnown'
    BY <1>10, ConstFacts
    DEF PickAccount, Lease, RunnerMissing, Refuse, Take, Goto
  <2>3. SlotsFresh'
    <3> SUFFICES ASSUME NEW q \in Requests PROVE SlotFresh(q)'
      BY DEF SlotsFresh
    <3>0. SlotFresh(q)
      BY DEF SlotsFresh
    <3>1. CASE q # r
      BY <3>0, <3>1, <1>10
      DEF PickAccount, Lease, RunnerMissing, Refuse, Take, Goto, SlotFresh, Free
    <3>2. CASE q = r
      BY <3>0, <3>2, <1>10, ConstFacts, LeaseShape DEF PickAccount, Take, Goto, SlotFresh, Free
    <3> QED
      BY <3>1, <3>2
  <2> QED
    BY <2>1, <2>2, <2>3
<1>11. ASSUME NEW r \in Requests, OutOfCandidates(r)
      PROVE  (AcctKnown /\ RowsKnown /\ SlotsFresh)'
  <2>1. AcctKnown'
    BY <1>11, ConstFacts
    DEF OutOfCandidates, Refuse, Goto, Serving
  <2>2. RowsKnown'
    BY <1>11, ConstFacts
    DEF OutOfCandidates, Refuse, Goto
  <2>3. SlotsFresh'
    <3> SUFFICES ASSUME NEW q \in Requests PROVE SlotFresh(q)'
      BY DEF SlotsFresh
    <3>0. SlotFresh(q)
      BY DEF SlotsFresh
    <3>1. CASE q # r
      BY <3>0, <3>1, <1>11 DEF OutOfCandidates, Refuse, Goto, SlotFresh, Free
    <3>2. CASE q = r
      BY <3>0, <3>2, <1>11, ConstFacts DEF OutOfCandidates, Refuse, Goto, SlotFresh, Free
    <3> QED
      BY <3>1, <3>2
  <2> QED
    BY <2>1, <2>2, <2>3
<1>12. ASSUME NEW r \in Requests, Over(r)
      PROVE  (AcctKnown /\ RowsKnown /\ SlotsFresh)'
  <2>1. AcctKnown'
    BY <1>12, ConstFacts
    DEF Over, InlineDecr, GiveBack, Goto, Serving
  <2>2. RowsKnown'
    BY <1>12, ConstFacts
    DEF Over, InlineDecr, GiveBack, Goto
  <2>3. SlotsFresh'
    <3> SUFFICES ASSUME NEW q \in Requests PROVE SlotFresh(q)'
      BY DEF SlotsFresh
    <3>0. SlotFresh(q)
      BY DEF SlotsFresh
    <3>1. CASE q # r
      BY <3>0, <3>1, <1>12 DEF Over, InlineDecr, GiveBack, Goto, SlotFresh, Free
    <3>2. CASE q = r
      BY <3>0, <3>2, <1>12, ConstFacts DEF Over, InlineDecr, GiveBack, Goto, SlotFresh, Free
    <3> QED
      BY <3>1, <3>2
  <2> QED
    BY <2>1, <2>2, <2>3
<1>13. ASSUME NEW r \in Requests, OverDel(r)
      PROVE  (AcctKnown /\ RowsKnown /\ SlotsFresh)'
  <2>1. AcctKnown'
    BY <1>13, ConstFacts
    DEF OverDel, InlineDel, Goto, Serving
  <2>2. RowsKnown'
    BY <1>13, ConstFacts
    DEF OverDel, InlineDel, Goto
  <2>3. SlotsFresh'
    <3> SUFFICES ASSUME NEW q \in Requests PROVE SlotFresh(q)'
      BY DEF SlotsFresh
    <3>0. SlotFresh(q)
      BY DEF SlotsFresh
    <3>1. CASE q # r
      BY <3>0, <3>1, <1>13 DEF OverDel, InlineDel, Goto, SlotFresh, Free
    <3>2. CASE q = r
      BY <3>0, <3>2, <1>13, ConstFacts DEF OverDel, InlineDel, Goto, SlotFresh, Free
    <3> QED
      BY <3>1, <3>2
  <2> QED
    BY <2>1, <2>2, <2>3
<1>14. ASSUME NEW r \in Requests, Send(r)
      PROVE  (AcctKnown /\ RowsKnown /\ SlotsFresh)'
  <2>1. AcctKnown'
    BY <1>14, ConstFacts
    DEF Send, Goto, Serving
  <2>2. RowsKnown'
    <3> SUFFICES ASSUME NEW q \in Requests, pc'[q] = "publish"
                 PROVE  fetched'[q] \in SUBSET Accounts
      BY DEF RowsKnown
    <3>1. pc \in [Requests -> Stages]
      BY DEF StageInv, TypeOK, FlowTypeOK
    <3>2. pc[q] = "publish"
      BY <1>14, <3>1 DEF Send, Goto
    <3>3. UNCHANGED fetched
      BY <1>14 DEF Send
    <3> QED
      BY <3>2, <3>3 DEF RowsKnown
  <2>3. SlotsFresh'
    <3> SUFFICES ASSUME NEW q \in Requests PROVE SlotFresh(q)'
      BY DEF SlotsFresh
    <3>0. SlotFresh(q)
      BY DEF SlotsFresh
    <3>1. CASE q # r
      BY <3>0, <3>1, <1>14 DEF Send, Goto, SlotFresh, Free
    <3>2. CASE q = r
      BY <3>0, <3>2, <1>14, ConstFacts DEF Send, Goto, SlotFresh, Free
    <3> QED
      BY <3>1, <3>2
  <2> QED
    BY <2>1, <2>2, <2>3
<1>15. ASSUME NEW r \in Requests, SendFailed(r)
      PROVE  (AcctKnown /\ RowsKnown /\ SlotsFresh)'
  <2>1. AcctKnown'
    BY <1>15, ConstFacts
    DEF SendFailed, InlineDecr, GiveBack, AfterRelease, Goto, Serving
  <2>2. RowsKnown'
    BY <1>15, ConstFacts
    DEF SendFailed, InlineDecr, GiveBack, AfterRelease, Goto
  <2>3. SlotsFresh'
    <3> SUFFICES ASSUME NEW q \in Requests PROVE SlotFresh(q)'
      BY DEF SlotsFresh
    <3>0. SlotFresh(q)
      BY DEF SlotsFresh
    <3>1. CASE q # r
      BY <3>0, <3>1, <1>15
      DEF SendFailed, InlineDecr, GiveBack, AfterRelease, Goto, SlotFresh, Free
    <3>2. CASE q = r
      BY <3>0, <3>2, <1>15, ConstFacts
      DEF SendFailed, InlineDecr, GiveBack, AfterRelease, Goto, SlotFresh, Free
    <3> QED
      BY <3>1, <3>2
  <2> QED
    BY <2>1, <2>2, <2>3
<1>16. ASSUME NEW r \in Requests, FailedDel(r)
      PROVE  (AcctKnown /\ RowsKnown /\ SlotsFresh)'
  <2>1. AcctKnown'
    BY <1>16, ConstFacts
    DEF FailedDel, InlineDel, AfterRelease, Goto, Serving
  <2>2. RowsKnown'
    BY <1>16, ConstFacts
    DEF FailedDel, InlineDel, AfterRelease, Goto
  <2>3. SlotsFresh'
    <3> SUFFICES ASSUME NEW q \in Requests PROVE SlotFresh(q)'
      BY DEF SlotsFresh
    <3>0. SlotFresh(q)
      BY DEF SlotsFresh
    <3>1. CASE q # r
      BY <3>0, <3>1, <1>16 DEF FailedDel, InlineDel, AfterRelease, Goto, SlotFresh, Free
    <3>2. CASE q = r
      BY <3>0, <3>2, <1>16, ConstFacts
      DEF FailedDel, InlineDel, AfterRelease, Goto, SlotFresh, Free
    <3> QED
      BY <3>1, <3>2
  <2> QED
    BY <2>1, <2>2, <2>3
<1>17. ASSUME NEW r \in Requests, MarkUnhealthy(r)
      PROVE  (AcctKnown /\ RowsKnown /\ SlotsFresh)'
  <2>1. AcctKnown'
    BY <1>17, ConstFacts
    DEF MarkUnhealthy, Goto, Serving
  <2>2. RowsKnown'
    BY <1>17, ConstFacts
    DEF MarkUnhealthy, Goto
  <2>3. SlotsFresh'
    <3> SUFFICES ASSUME NEW q \in Requests PROVE SlotFresh(q)'
      BY DEF SlotsFresh
    <3>0. SlotFresh(q)
      BY DEF SlotsFresh
    <3>1. CASE q # r
      BY <3>0, <3>1, <1>17 DEF MarkUnhealthy, Goto, SlotFresh, Free
    <3>2. CASE q = r
      BY <3>0, <3>2, <1>17, ConstFacts DEF MarkUnhealthy, Goto, SlotFresh, Free
    <3> QED
      BY <3>1, <3>2
  <2> QED
    BY <2>1, <2>2, <2>3
<1>18. ASSUME NEW r \in Requests, Fetch(r)
      PROVE  (AcctKnown /\ RowsKnown /\ SlotsFresh)'
  <2>1. AcctKnown'
    BY <1>18, ConstFacts
    DEF Fetch, Rows, Goto, Serving
  <2>2. RowsKnown'
    BY <1>18, ConstFacts
    DEF Fetch, Rows, Goto, PoolTypeOK
  <2>3. SlotsFresh'
    <3> SUFFICES ASSUME NEW q \in Requests PROVE SlotFresh(q)'
      BY DEF SlotsFresh
    <3>0. SlotFresh(q)
      BY DEF SlotsFresh
    <3>1. CASE q # r
      BY <3>0, <3>1, <1>18 DEF Fetch, Rows, Goto, SlotFresh, Free
    <3>2. CASE q = r
      BY <3>0, <3>2, <1>18, ConstFacts DEF Fetch, Rows, Goto, SlotFresh, Free
    <3> QED
      BY <3>1, <3>2
  <2> QED
    BY <2>1, <2>2, <2>3
<1>19. ASSUME NEW r \in Requests, Publish(r)
      PROVE  (AcctKnown /\ RowsKnown /\ SlotsFresh)'
  <2>1. AcctKnown'
    BY <1>19, ConstFacts
    DEF Publish, Goto, Serving
  <2>2. RowsKnown'
    BY <1>19, ConstFacts
    DEF Publish, Goto, PoolTypeOK
  <2>3. SlotsFresh'
    <3> SUFFICES ASSUME NEW q \in Requests PROVE SlotFresh(q)'
      BY DEF SlotsFresh
    <3>0. SlotFresh(q)
      BY DEF SlotsFresh
    <3>1. CASE q # r
      BY <3>0, <3>1, <1>19 DEF Publish, Goto, SlotFresh, Free
    <3>2. CASE q = r
      BY <3>0, <3>2, <1>19, ConstFacts DEF Publish, Goto, SlotFresh, Free
    <3> QED
      BY <3>1, <3>2
  <2> QED
    BY <2>1, <2>2, <2>3
<1>20. ASSUME NEW r \in Requests, Verdict(r)
      PROVE  (AcctKnown /\ RowsKnown /\ SlotsFresh)'
  <2>1. AcctKnown'
    BY <1>20, ConstFacts
    DEF Verdict, Tried, Goto, Serving
  <2>2. RowsKnown'
    <3> SUFFICES ASSUME NEW q \in Requests, pc'[q] = "publish"
                 PROVE  fetched'[q] \in SUBSET Accounts
      BY DEF RowsKnown
    <3>1. pc \in [Requests -> Stages]
      BY DEF StageInv, TypeOK, FlowTypeOK
    <3>2. pc[q] = "publish"
      BY <1>20, <3>1 DEF Verdict, Goto
    <3>3. UNCHANGED fetched
      BY <1>20 DEF Verdict
    <3> QED
      BY <3>2, <3>3 DEF RowsKnown
  <2>3. SlotsFresh'
    <3> SUFFICES ASSUME NEW q \in Requests PROVE SlotFresh(q)'
      BY DEF SlotsFresh
    <3>0. SlotFresh(q)
      BY DEF SlotsFresh
    <3>1. CASE q # r
      BY <3>0, <3>1, <1>20 DEF Verdict, Tried, Goto, SlotFresh, Free
    <3>2. CASE q = r
      BY <3>0, <3>2, <1>20, ConstFacts DEF Verdict, Tried, Goto, SlotFresh, Free
    <3> QED
      BY <3>1, <3>2
  <2> QED
    BY <2>1, <2>2, <2>3
<1>21. ASSUME NEW r \in Requests, Relay(r)
      PROVE  (AcctKnown /\ RowsKnown /\ SlotsFresh)'
  <2>1. AcctKnown'
    BY <1>21, ConstFacts
    DEF Relay, Goto, Serving
  <2>2. RowsKnown'
    BY <1>21, ConstFacts
    DEF Relay, Goto
  <2>3. SlotsFresh'
    <3> SUFFICES ASSUME NEW q \in Requests PROVE SlotFresh(q)'
      BY DEF SlotsFresh
    <3>0. SlotFresh(q)
      BY DEF SlotsFresh
    <3>1. CASE q # r
      BY <3>0, <3>1, <1>21 DEF Relay, Goto, SlotFresh, Free
    <3>2. CASE q = r
      BY <3>0, <3>2, <1>21, ConstFacts DEF Relay, Goto, SlotFresh, Free
    <3> QED
      BY <3>1, <3>2
  <2> QED
    BY <2>1, <2>2, <2>3
<1>22. ASSUME NEW r \in Requests, StreamEnd(r)
      PROVE  (AcctKnown /\ RowsKnown /\ SlotsFresh)'
  <2>1. AcctKnown'
    BY <1>22, ConstFacts
    DEF StreamEnd, Finish, Goto, Serving
  <2>2. RowsKnown'
    BY <1>22, ConstFacts
    DEF StreamEnd, Finish, Goto
  <2>3. SlotsFresh'
    <3> SUFFICES ASSUME NEW q \in Requests PROVE SlotFresh(q)'
      BY DEF SlotsFresh
    <3>0. SlotFresh(q)
      BY DEF SlotsFresh
    <3>1. CASE q # r
      BY <3>0, <3>1, <1>22 DEF StreamEnd, Finish, Goto, SlotFresh, Free
    <3>2. CASE q = r
      BY <3>0, <3>2, <1>22, ConstFacts DEF StreamEnd, Finish, Goto, SlotFresh, Free
    <3> QED
      BY <3>1, <3>2
  <2> QED
    BY <2>1, <2>2, <2>3
<1>23. ASSUME NEW r \in Requests, DropObserver(r)
      PROVE  (AcctKnown /\ RowsKnown /\ SlotsFresh)'
  <2>1. AcctKnown'
    BY <1>23, ConstFacts
    DEF DropObserver, Finish, Goto, Serving
  <2>2. RowsKnown'
    BY <1>23, ConstFacts
    DEF DropObserver, Finish, Goto
  <2>3. SlotsFresh'
    <3> SUFFICES ASSUME NEW q \in Requests PROVE SlotFresh(q)'
      BY DEF SlotsFresh
    <3>0. SlotFresh(q)
      BY DEF SlotsFresh
    <3>1. CASE q # r
      BY <3>0, <3>1, <1>23 DEF DropObserver, Finish, Goto, SlotFresh, Free
    <3>2. CASE q = r
      BY <3>0, <3>2, <1>23, ConstFacts DEF DropObserver, Finish, Goto, SlotFresh, Free
    <3> QED
      BY <3>1, <3>2
  <2> QED
    BY <2>1, <2>2, <2>3
<1>24. ASSUME NEW r \in Requests, NEW c \in Counters, TaskDecr(r, c)
      PROVE  (AcctKnown /\ RowsKnown /\ SlotsFresh)'
  <2>1. AcctKnown'
    BY <1>24, ConstFacts
    DEF TaskDecr, GiveBack, Goto, Serving
  <2>2. RowsKnown'
    BY <1>24, ConstFacts
    DEF TaskDecr, GiveBack, Goto
  <2>3. SlotsFresh'
    <3> SUFFICES ASSUME NEW q \in Requests PROVE SlotFresh(q)'
      BY DEF SlotsFresh
    <3>0. SlotFresh(q)
      BY DEF SlotsFresh
    <3>1. CASE q # r
      BY <3>0, <3>1, <1>24 DEF TaskDecr, GiveBack, Goto, SlotFresh, Free
    <3>2. CASE q = r
      BY <3>0, <3>2, <1>24, ConstFacts DEF TaskDecr, GiveBack, Goto, SlotFresh, Free
    <3> QED
      BY <3>1, <3>2
  <2> QED
    BY <2>1, <2>2, <2>3
<1>25. ASSUME NEW r \in Requests, NEW c \in Counters, TaskDel(r, c)
      PROVE  (AcctKnown /\ RowsKnown /\ SlotsFresh)'
  <2>1. AcctKnown'
    BY <1>25, ConstFacts
    DEF TaskDel, Goto, Serving
  <2>2. RowsKnown'
    BY <1>25, ConstFacts
    DEF TaskDel, Goto
  <2>3. SlotsFresh'
    <3> SUFFICES ASSUME NEW q \in Requests PROVE SlotFresh(q)'
      BY DEF SlotsFresh
    <3>0. SlotFresh(q)
      BY DEF SlotsFresh
    <3>1. CASE q # r
      BY <3>0, <3>1, <1>25 DEF TaskDel, Goto, SlotFresh, Free
    <3>2. CASE q = r
      BY <3>0, <3>2, <1>25, ConstFacts DEF TaskDel, Goto, SlotFresh, Free
    <3> QED
      BY <3>1, <3>2
  <2> QED
    BY <2>1, <2>2, <2>3
<1>26. ASSUME NEW r \in Requests, StoreResponseId(r)
      PROVE  (AcctKnown /\ RowsKnown /\ SlotsFresh)'
  <2>1. AcctKnown'
    BY <1>26, ConstFacts
    DEF StoreResponseId, Goto, Serving
  <2>2. RowsKnown'
    BY <1>26, ConstFacts
    DEF StoreResponseId, Goto
  <2>3. SlotsFresh'
    <3> SUFFICES ASSUME NEW q \in Requests PROVE SlotFresh(q)'
      BY DEF SlotsFresh
    <3>0. SlotFresh(q)
      BY DEF SlotsFresh
    <3>1. CASE q # r
      BY <3>0, <3>1, <1>26 DEF StoreResponseId, Goto, SlotFresh, Free
    <3>2. CASE q = r
      BY <3>0, <3>2, <1>26, ConstFacts DEF StoreResponseId, Goto, SlotFresh, Free
    <3> QED
      BY <3>1, <3>2
  <2> QED
    BY <2>1, <2>2, <2>3
<1>27. ASSUME NEW p \in Replicas, LoopFetch(p)
      PROVE  (AcctKnown /\ RowsKnown /\ SlotsFresh)'
  <2>1. AcctKnown'
    BY <1>27, ConstFacts
    DEF LoopFetch, Rows, Goto, Serving
  <2>2. RowsKnown'
    BY <1>27, ConstFacts
    DEF LoopFetch, Rows, Goto, PoolTypeOK
  <2>3. SlotsFresh'
    BY <1>27, ConstFacts
    DEF LoopFetch, Rows, Goto, SlotFresh, SlotsFresh, Free
  <2> QED
    BY <2>1, <2>2, <2>3
<1>28. ASSUME NEW p \in Replicas, LoopPublish(p)
      PROVE  (AcctKnown /\ RowsKnown /\ SlotsFresh)'
  <2>1. AcctKnown'
    BY <1>28, ConstFacts
    DEF LoopPublish, Goto, Serving
  <2>2. RowsKnown'
    BY <1>28, ConstFacts
    DEF LoopPublish, Goto, PoolTypeOK
  <2>3. SlotsFresh'
    BY <1>28, ConstFacts
    DEF LoopPublish, Goto, SlotFresh, SlotsFresh, Free
  <2> QED
    BY <2>1, <2>2, <2>3
<1>29. ASSUME NEW a \in Accounts, StatusChange(a)
      PROVE  (AcctKnown /\ RowsKnown /\ SlotsFresh)'
  <2>1. AcctKnown'
    BY <1>29, ConstFacts
    DEF StatusChange, Goto, Serving
  <2>2. RowsKnown'
    BY <1>29, ConstFacts
    DEF StatusChange, Goto
  <2>3. SlotsFresh'
    BY <1>29, ConstFacts
    DEF StatusChange, Goto, SlotFresh, SlotsFresh, Free
  <2> QED
    BY <2>1, <2>2, <2>3
<1>30. ASSUME NEW r \in Requests, Cancel(r)
      PROVE  (AcctKnown /\ RowsKnown /\ SlotsFresh)'
  <2>1. AcctKnown'
    BY <1>30, ConstFacts
    DEF Cancel, Goto, Serving, Handling
  <2>2. RowsKnown'
    BY <1>30, ConstFacts
    DEF Cancel, Goto, PoolTypeOK, Handling
  <2>3. SlotsFresh'
    <3> SUFFICES ASSUME NEW q \in Requests PROVE SlotFresh(q)'
      BY DEF SlotsFresh
    <3>0. SlotFresh(q)
      BY DEF SlotsFresh
    <3>1. CASE q # r
      BY <3>0, <3>1, <1>30 DEF Cancel, Goto, SlotFresh, Free, Handling
    <3>2. CASE q = r
      BY <3>0, <3>2, <1>30, ConstFacts DEF Cancel, Goto, SlotFresh, Free, Handling
    <3> QED
      BY <3>1, <3>2
  <2> QED
    BY <2>1, <2>2, <2>3
<1>31. ASSUME NEW p \in Replicas, Crash(p)
      PROVE  (AcctKnown /\ RowsKnown /\ SlotsFresh)'
  <2>1. AcctKnown'
    BY <1>31, ConstFacts
    DEF Crash, Rows, Goto, Serving
  <2>2. RowsKnown'
    BY <1>31, ConstFacts
    DEF Crash, Rows, Goto, PoolTypeOK
  <2>3. SlotsFresh'
    BY <1>31, ConstFacts
    DEF Crash, Rows, Goto, SlotFresh, SlotsFresh, Free
  <2> QED
    BY <2>1, <2>2, <2>3
<1>32. ASSUME NEW r \in Requests, AcquireKeyFails(r)
      PROVE  (AcctKnown /\ RowsKnown /\ SlotsFresh)'
  <2>1. AcctKnown'
    BY <1>32, ConstFacts
    DEF AcquireKeyFails, Take, Goto, Serving
  <2>2. RowsKnown'
    BY <1>32, ConstFacts
    DEF AcquireKeyFails, Take, Goto
  <2>3. SlotsFresh'
    <3> SUFFICES ASSUME NEW q \in Requests PROVE SlotFresh(q)'
      BY DEF SlotsFresh
    <3>0. SlotFresh(q)
      BY DEF SlotsFresh
    <3>1. CASE q # r
      BY <3>0, <3>1, <1>32 DEF AcquireKeyFails, Take, Goto, SlotFresh, Free
    <3>2. CASE q = r
      BY <3>0, <3>2, <1>32, ConstFacts DEF AcquireKeyFails, Take, Goto, SlotFresh, Free
    <3> QED
      BY <3>1, <3>2
  <2> QED
    BY <2>1, <2>2, <2>3
<1>33. ASSUME NEW r \in Requests, NEW a \in Accounts, PickFails(r, a)
      PROVE  (AcctKnown /\ RowsKnown /\ SlotsFresh)'
  <2>1. AcctKnown'
    BY <1>33, ConstFacts
    DEF PickFails, Refuse, Take, Goto, Serving
  <2>2. RowsKnown'
    BY <1>33, ConstFacts
    DEF PickFails, Refuse, Take, Goto
  <2>3. SlotsFresh'
    <3> SUFFICES ASSUME NEW q \in Requests PROVE SlotFresh(q)'
      BY DEF SlotsFresh
    <3>0. SlotFresh(q)
      BY DEF SlotsFresh
    <3>1. CASE q # r
      BY <3>0, <3>1, <1>33 DEF PickFails, Refuse, Take, Goto, SlotFresh, Free
    <3>2. CASE q = r
      BY <3>0, <3>2, <1>33, ConstFacts DEF PickFails, Refuse, Take, Goto, SlotFresh, Free
    <3> QED
      BY <3>1, <3>2
  <2> QED
    BY <2>1, <2>2, <2>3
<1>34. ASSUME NEW r \in Requests, NEW c \in Counters, TaskFails(r, c)
      PROVE  (AcctKnown /\ RowsKnown /\ SlotsFresh)'
  <2>1. AcctKnown'
    BY <1>34, ConstFacts
    DEF TaskFails, Goto, Serving
  <2>2. RowsKnown'
    BY <1>34, ConstFacts
    DEF TaskFails, Goto
  <2>3. SlotsFresh'
    <3> SUFFICES ASSUME NEW q \in Requests PROVE SlotFresh(q)'
      BY DEF SlotsFresh
    <3>0. SlotFresh(q)
      BY DEF SlotsFresh
    <3>1. CASE q # r
      BY <3>0, <3>1, <1>34 DEF TaskFails, Goto, SlotFresh, Free
    <3>2. CASE q = r
      BY <3>0, <3>2, <1>34, ConstFacts DEF TaskFails, Goto, SlotFresh, Free
    <3> QED
      BY <3>1, <3>2
  <2> QED
    BY <2>1, <2>2, <2>3
<1>35. ASSUME Tick
      PROVE  (AcctKnown /\ RowsKnown /\ SlotsFresh)'
  <2>1. AcctKnown'
    BY <1>35, ConstFacts
    DEF Tick, Goto, Serving
  <2>2. RowsKnown'
    BY <1>35, ConstFacts
    DEF Tick, Goto
  <2>3. SlotsFresh'
    BY <1>35, ConstFacts
    DEF Tick, Goto, SlotFresh, SlotsFresh, Free
  <2> QED
    BY <2>1, <2>2, <2>3
<1>36. ASSUME NEW r \in Requests, Recycle(r)
      PROVE  (AcctKnown /\ RowsKnown /\ SlotsFresh)'
  <2>1. AcctKnown'
    BY <1>36, ConstFacts
    DEF Recycle, Goto, Serving
  <2>2. RowsKnown'
    BY <1>36, ConstFacts
    DEF Recycle, Goto
  <2>3. SlotsFresh'
    <3> SUFFICES ASSUME NEW q \in Requests PROVE SlotFresh(q)'
      BY DEF SlotsFresh
    <3>0. SlotFresh(q)
      BY DEF SlotsFresh
    <3>1. CASE q # r
      BY <3>0, <3>1, <1>36 DEF Recycle, Goto, SlotFresh, Free
    <3>2. CASE q = r
      BY <3>0, <3>2, <1>36, ConstFacts DEF Recycle, Goto, SlotFresh, Free
    <3> QED
      BY <3>1, <3>2
  <2> QED
    BY <2>1, <2>2, <2>3
<1>37. CASE UNCHANGED vars
  BY <1>37 DEF vars, SlotsFresh, SlotFresh
<1> QED
  BY <1>1, <1>2, <1>3, <1>4, <1>5, <1>6, <1>7, <1>8, <1>9, <1>10,
     <1>11, <1>12, <1>13, <1>14, <1>15, <1>16, <1>17, <1>18, <1>19, <1>20,
     <1>21, <1>22, <1>23, <1>24, <1>25, <1>26, <1>27, <1>28, <1>29, <1>30,
     <1>31, <1>32, <1>33, <1>34, <1>35, <1>36, <1>37
  DEF Next, Handler, Tasks, RedisFails

\* The variables keep their types.
THEOREM TypeCorrect == Spec => []TypeOK
<1>1. Spec => []StageInv
  BY StageInit, StageStep, PTL DEF Spec
<1>2. StageInv => TypeOK
  BY DEF StageInv
<1> QED
  BY <1>1, <1>2, PTL
-----------------------------------------------------------------------------
(* What a step does to the counters and to the slots held. *)

TakesSlot(r, c) ==
    /\ c \notin holds[r]
    /\ counter' = [counter EXCEPT ![c] = @ + 1]
    /\ holds' = [holds EXCEPT ![r] = @ \cup {c}]

GivesSlot(r, c) ==
    /\ counter' = [counter EXCEPT ![c] = @ - 1]
    /\ holds' = [holds EXCEPT ![r] = @ \ {c}]

ForgetsSlots ==
    /\ \A c \in Counters : counter'[c] \in {0, counter[c]}
    /\ UNCHANGED holds

SlotEffect ==
    \/ \E r \in Requests, c \in Counters : TakesSlot(r, c) \/ GivesSlot(r, c)
    \/ ForgetsSlots

\* Every step takes one new slot, gives one back, or leaves the slots alone and
\* at most resets counters to zero.
LEMMA SlotStep == StageInv /\ [Next]_vars => SlotEffect
<1> SUFFICES ASSUME StageInv, [Next]_vars
             PROVE  SlotEffect
  OBVIOUS
<1>a. counter \in [Counters -> Int] /\ holds \in [Requests -> SUBSET Counters]
  BY DEF StageInv, TypeOK, CountersTypeOK, SlotTypeOK
<1>b. ASSUME NEW r \in Requests
      PROVE  /\ pc[r] = "key" => holds[r] = {}
             /\ pc[r] \in {"select", "pick"} => holds[r] \cap Accounts = {}
             /\ pc[r] \in {"over", "failed"} => acct[r] \in Counters
  BY ConstFacts DEF StageInv, SlotsFresh, SlotFresh, Free, AcctKnown, Serving
<1>c. UNCHANGED <<counter, holds>> => ForgetsSlots
  BY DEF ForgetsSlots
<1>1. ASSUME NEW r \in Requests, Arrive(r)
      PROVE  SlotEffect
  BY <1>1, <1>c DEF Arrive, SlotEffect
<1>2. ASSUME NEW r \in Requests, AcquireKey(r)
      PROVE  SlotEffect
  <2>1. CASE UNCHANGED <<counter, holds>>
    BY <2>1, <1>c DEF SlotEffect
  <2>2. CASE Take(r, KeyOf[r]) /\ KeyOf[r] \in Counters
    <3>1. KeyOf[r] \notin holds[r]
      BY <1>2, <1>b, ConstFacts DEF AcquireKey
    <3> QED
      BY <2>2, <3>1 DEF Take, Incr, TakesSlot, SlotEffect
  <2>3. KeyOf[r] \in Counters /\ (Take(r, KeyOf[r]) \/ UNCHANGED <<counter, holds>>)
    BY <1>2, ConstFacts DEF AcquireKey
  <2> QED
    BY <2>1, <2>2, <2>3
<1>3. ASSUME NEW r \in Requests, KeyOver(r)
      PROVE  SlotEffect
  <2>1. GiveBack(r, KeyOf[r]) /\ KeyOf[r] \in Counters
    BY <1>3, <1>b, ConstFacts DEF KeyOver, InlineDecr
  <2> QED
    BY <2>1 DEF GiveBack, Decr, GivesSlot, SlotEffect
<1>4. ASSUME NEW r \in Requests, KeyDel(r)
      PROVE  SlotEffect
  BY <1>4, <1>a DEF KeyDel, InlineDel, Del, ForgetsSlots, SlotEffect
<1>5. ASSUME NEW r \in Requests, ReadBody(r)
      PROVE  SlotEffect
  BY <1>5, <1>c DEF ReadBody, Refuse, SlotEffect
<1>6. ASSUME NEW r \in Requests, LookupPin(r)
      PROVE  SlotEffect
  BY <1>6, <1>c DEF LookupPin, SlotEffect
<1>7. ASSUME NEW r \in Requests, SelectAny(r)
      PROVE  SlotEffect
  BY <1>7, <1>c DEF SelectAny, Lease, RunnerMissing, Refuse, Eligible, SlotEffect
<1>8. ASSUME NEW r \in Requests, SelectPinned(r)
      PROVE  SlotEffect
  <2>0. pinned[r] \in Accounts
    BY <1>8 DEF SelectPinned, StageInv, TypeOK, FlowTypeOK
  <2>1. CASE UNCHANGED <<counter, holds>>
    BY <2>1, <1>c DEF SlotEffect
  <2>2. CASE Take(r, pinned[r]) /\ pinned[r] \in Counters
    <3>1. pinned[r] \notin holds[r]
      BY <2>0, <1>8, <1>b, ConstFacts DEF SelectPinned
    <3> QED
      BY <2>2, <3>1 DEF Take, Incr, TakesSlot, SlotEffect
  <2>3. pinned[r] \in Counters /\ (Take(r, pinned[r]) \/ UNCHANGED <<counter, holds>>)
    BY <2>0, <1>8, ConstFacts DEF SelectPinned
  <2> QED
    BY <2>1, <2>2, <2>3
<1>9. ASSUME NEW r \in Requests, SelectCandidates(r)
      PROVE  SlotEffect
  BY <1>9, <1>c DEF SelectCandidates, Refuse, Eligible, SlotEffect
<1>10. ASSUME NEW r \in Requests, NEW a \in Accounts, PickAccount(r, a)
      PROVE  SlotEffect
  <2>1. CASE UNCHANGED <<counter, holds>>
    BY <2>1, <1>c DEF SlotEffect
  <2>2. CASE Take(r, a) /\ a \in Counters
    <3>1. a \notin holds[r]
      BY <1>10, <1>b, ConstFacts DEF PickAccount
    <3> QED
      BY <2>2, <3>1 DEF Take, Incr, TakesSlot, SlotEffect
  <2>3. a \in Counters /\ (Take(r, a) \/ UNCHANGED <<counter, holds>>)
    BY <1>10, ConstFacts DEF PickAccount
  <2> QED
    BY <2>1, <2>2, <2>3
<1>11. ASSUME NEW r \in Requests, OutOfCandidates(r)
      PROVE  SlotEffect
  BY <1>11, <1>c DEF OutOfCandidates, Refuse, SlotEffect
<1>12. ASSUME NEW r \in Requests, Over(r)
      PROVE  SlotEffect
  <2>1. GiveBack(r, acct[r]) /\ acct[r] \in Counters
    BY <1>12, <1>b, ConstFacts DEF Over, InlineDecr
  <2> QED
    BY <2>1 DEF GiveBack, Decr, GivesSlot, SlotEffect
<1>13. ASSUME NEW r \in Requests, OverDel(r)
      PROVE  SlotEffect
  BY <1>13, <1>a DEF OverDel, InlineDel, Del, ForgetsSlots, SlotEffect
<1>14. ASSUME NEW r \in Requests, Send(r)
      PROVE  SlotEffect
  BY <1>14, <1>c DEF Send, SlotEffect
<1>15. ASSUME NEW r \in Requests, SendFailed(r)
      PROVE  SlotEffect
  <2>1. GiveBack(r, acct[r]) /\ acct[r] \in Counters
    BY <1>15, <1>b, ConstFacts DEF SendFailed, InlineDecr
  <2> QED
    BY <2>1 DEF GiveBack, Decr, GivesSlot, SlotEffect
<1>16. ASSUME NEW r \in Requests, FailedDel(r)
      PROVE  SlotEffect
  BY <1>16, <1>a DEF FailedDel, InlineDel, Del, ForgetsSlots, SlotEffect
<1>17. ASSUME NEW r \in Requests, MarkUnhealthy(r)
      PROVE  SlotEffect
  BY <1>17, <1>c DEF MarkUnhealthy, SlotEffect
<1>18. ASSUME NEW r \in Requests, Fetch(r)
      PROVE  SlotEffect
  BY <1>18, <1>c DEF Fetch, Rows, SlotEffect
<1>19. ASSUME NEW r \in Requests, Publish(r)
      PROVE  SlotEffect
  BY <1>19, <1>c DEF Publish, SlotEffect
<1>20. ASSUME NEW r \in Requests, Verdict(r)
      PROVE  SlotEffect
  BY <1>20, <1>c DEF Verdict, Tried, SlotEffect
<1>21. ASSUME NEW r \in Requests, Relay(r)
      PROVE  SlotEffect
  BY <1>21, <1>c DEF Relay, SlotEffect
<1>22. ASSUME NEW r \in Requests, StreamEnd(r)
      PROVE  SlotEffect
  BY <1>22, <1>c DEF StreamEnd, Finish, SlotEffect
<1>23. ASSUME NEW r \in Requests, DropObserver(r)
      PROVE  SlotEffect
  BY <1>23, <1>c DEF DropObserver, Finish, SlotEffect
<1>24. ASSUME NEW r \in Requests, NEW c \in Counters, TaskDecr(r, c)
      PROVE  SlotEffect
  BY <1>24 DEF TaskDecr, GiveBack, Decr, GivesSlot, SlotEffect
<1>25. ASSUME NEW r \in Requests, NEW c \in Counters, TaskDel(r, c)
      PROVE  SlotEffect
  BY <1>25, <1>a DEF TaskDel, Del, ForgetsSlots, SlotEffect
<1>26. ASSUME NEW r \in Requests, StoreResponseId(r)
      PROVE  SlotEffect
  BY <1>26, <1>c DEF StoreResponseId, SlotEffect
<1>27. ASSUME NEW p \in Replicas, LoopFetch(p)
      PROVE  SlotEffect
  BY <1>27, <1>c DEF LoopFetch, Rows, SlotEffect
<1>28. ASSUME NEW p \in Replicas, LoopPublish(p)
      PROVE  SlotEffect
  BY <1>28, <1>c DEF LoopPublish, SlotEffect
<1>29. ASSUME NEW a \in Accounts, StatusChange(a)
      PROVE  SlotEffect
  BY <1>29, <1>c DEF StatusChange, SlotEffect
<1>30. ASSUME NEW r \in Requests, Cancel(r)
      PROVE  SlotEffect
  BY <1>30, <1>c DEF Cancel, SlotEffect
<1>31. ASSUME NEW p \in Replicas, Crash(p)
      PROVE  SlotEffect
  BY <1>31, <1>c DEF Crash, Rows, SlotEffect
<1>32. ASSUME NEW r \in Requests, AcquireKeyFails(r)
      PROVE  SlotEffect
  <2>1. CASE UNCHANGED <<counter, holds>>
    BY <2>1, <1>c DEF SlotEffect
  <2>2. CASE Take(r, KeyOf[r]) /\ KeyOf[r] \in Counters
    <3>1. KeyOf[r] \notin holds[r]
      BY <1>32, <1>b, ConstFacts DEF AcquireKeyFails
    <3> QED
      BY <2>2, <3>1 DEF Take, Incr, TakesSlot, SlotEffect
  <2>3. KeyOf[r] \in Counters /\ (Take(r, KeyOf[r]) \/ UNCHANGED <<counter, holds>>)
    BY <1>32, ConstFacts DEF AcquireKeyFails, Refuse
  <2> QED
    BY <2>1, <2>2, <2>3
<1>33. ASSUME NEW r \in Requests, NEW a \in Accounts, PickFails(r, a)
      PROVE  SlotEffect
  <2>1. CASE UNCHANGED <<counter, holds>>
    BY <2>1, <1>c DEF SlotEffect
  <2>2. CASE Take(r, a) /\ a \in Counters
    <3>1. a \notin holds[r]
      BY <1>33, <1>b, ConstFacts DEF PickFails
    <3> QED
      BY <2>2, <3>1 DEF Take, Incr, TakesSlot, SlotEffect
  <2>3. a \in Counters /\ (Take(r, a) \/ UNCHANGED <<counter, holds>>)
    BY <1>33, ConstFacts DEF PickFails, Refuse
  <2> QED
    BY <2>1, <2>2, <2>3
<1>34. ASSUME NEW r \in Requests, NEW c \in Counters, TaskFails(r, c)
      PROVE  SlotEffect
  BY <1>34, <1>c DEF TaskFails, SlotEffect
<1>35. ASSUME Tick
      PROVE  SlotEffect
  BY <1>35, <1>a DEF Tick, PassTime, ForgetsSlots, SlotEffect
<1>36. ASSUME NEW r \in Requests, Recycle(r)
      PROVE  SlotEffect
  BY <1>36, <1>c DEF Recycle, SlotEffect
<1>37. CASE UNCHANGED vars
  BY <1>37, <1>c DEF vars, SlotEffect
<1> QED
  BY <1>1, <1>2, <1>3, <1>4, <1>5, <1>6, <1>7, <1>8, <1>9, <1>10,
     <1>11, <1>12, <1>13, <1>14, <1>15, <1>16, <1>17, <1>18, <1>19, <1>20,
     <1>21, <1>22, <1>23, <1>24, <1>25, <1>26, <1>27, <1>28, <1>29, <1>30,
     <1>31, <1>32, <1>33, <1>34, <1>35, <1>36, <1>37
  DEF Next, Handler, Tasks, RedisFails

\* Holders of a counter are finitely many, before and after a step.
LEMMA HoldersFinite ==
    ASSUME NEW c
    PROVE  IsFiniteSet(Holders(c)) /\ Cardinality(Holders(c)) \in Nat
  BY SetsAssumption, FS_Subset, FS_CardinalityType DEF Holders

LEMMA HoldersNext ==
    ASSUME NEW c
    PROVE  IsFiniteSet(Holders(c)') /\ Cardinality(Holders(c)') \in Nat
  BY SetsAssumption, FS_Subset, FS_CardinalityType DEF Holders

LEMMA TakenCount ==
    ASSUME StageInv, NEW r \in Requests, NEW d \in Counters, TakesSlot(r, d),
           NEW c \in Counters
    PROVE  /\ c = d => counter'[c] = counter[c] + 1
                       /\ Cardinality(Holders(c)') = Cardinality(Holders(c)) + 1
           /\ c # d => counter'[c] = counter[c] /\ Holders(c)' = Holders(c)
<1>a. counter \in [Counters -> Int] /\ holds \in [Requests -> SUBSET Counters]
  BY DEF StageInv, TypeOK, CountersTypeOK, SlotTypeOK
<1>1. ASSUME c = d
      PROVE  counter'[c] = counter[c] + 1
             /\ Cardinality(Holders(c)') = Cardinality(Holders(c)) + 1
  <2>1. Holders(c)' = Holders(c) \cup {r} /\ r \notin Holders(c)
    BY <1>a, <1>1 DEF TakesSlot, Holders
  <2> QED
    BY <1>a, <1>1, <2>1, HoldersFinite, FS_AddElement DEF TakesSlot
<1>2. c # d => counter'[c] = counter[c] /\ Holders(c)' = Holders(c)
  BY <1>a DEF TakesSlot, Holders
<1> QED
  BY <1>1, <1>2

LEMMA GivenCount ==
    ASSUME StageInv, NEW r \in Requests, NEW d \in Counters, GivesSlot(r, d),
           NEW c \in Counters
    PROVE  /\ c = d => counter'[c] = counter[c] - 1
                       /\ Cardinality(Holders(c)') >= Cardinality(Holders(c)) - 1
           /\ c # d => counter'[c] = counter[c] /\ Holders(c)' = Holders(c)
<1>a. counter \in [Counters -> Int] /\ holds \in [Requests -> SUBSET Counters]
  BY DEF StageInv, TypeOK, CountersTypeOK, SlotTypeOK
<1>1. ASSUME c = d
      PROVE  counter'[c] = counter[c] - 1
             /\ Cardinality(Holders(c)') >= Cardinality(Holders(c)) - 1
  <2>1. Holders(c)' = Holders(c) \ {r}
    BY <1>a, <1>1 DEF GivesSlot, Holders
  <2>2. Cardinality(Holders(c) \ {r})
          = IF r \in Holders(c) THEN Cardinality(Holders(c)) - 1 ELSE Cardinality(Holders(c))
    BY HoldersFinite, FS_RemoveElement
  <2> QED
    BY <1>a, <1>1, <2>1, <2>2, HoldersFinite DEF GivesSlot
<1>2. c # d => counter'[c] = counter[c] /\ Holders(c)' = Holders(c)
  BY <1>a DEF GivesSlot, Holders
<1> QED
  BY <1>1, <1>2

\* A counter never shows more than the slots really held.
THEOREM NoPhantom == Spec => []NoPhantomSlots
<1>1. Init => NoPhantomSlots
  <2> SUFFICES ASSUME Init, NEW c \in Counters
               PROVE  counter[c] <= Cardinality(Holders(c))
    BY DEF NoPhantomSlots
  <2>1. counter[c] = 0
    BY DEF Init, CountersInit
  <2> QED
    BY <2>1, HoldersFinite
<1>2. StageInv /\ NoPhantomSlots /\ [Next]_vars => NoPhantomSlots'
  <2> SUFFICES ASSUME StageInv, NoPhantomSlots, SlotEffect, NEW c \in Counters
               PROVE  counter'[c] <= Cardinality(Holders(c)')
    BY SlotStep DEF NoPhantomSlots
  <2>a. counter[c] \in Int /\ counter[c] <= Cardinality(Holders(c))
    BY DEF StageInv, TypeOK, CountersTypeOK, NoPhantomSlots
  <2>1. ASSUME NEW r \in Requests, NEW d \in Counters, TakesSlot(r, d)
        PROVE  counter'[c] <= Cardinality(Holders(c)')
    BY <2>1, <2>a, TakenCount, HoldersFinite
  <2>2. ASSUME NEW r \in Requests, NEW d \in Counters, GivesSlot(r, d)
        PROVE  counter'[c] <= Cardinality(Holders(c)')
    BY <2>2, <2>a, GivenCount, HoldersFinite, HoldersNext
  <2>3. CASE ForgetsSlots
    <3>1. Holders(c)' = Holders(c)
      BY <2>3 DEF ForgetsSlots, Holders
    <3> QED
      BY <2>3, <2>a, <3>1, HoldersFinite DEF ForgetsSlots
  <2> QED
    BY <2>1, <2>2, <2>3 DEF SlotEffect
<1> QED
  BY StageInit, StageStep, <1>1, <1>2, PTL DEF Spec

-----------------------------------------------------------------------------
(* The caps: one argument for an account and for a key. *)

\* Turns admitted under the limit of c: sets of holders that a step shrinks,
\* unless it leaves the counter within the limit.
LEMMA CapStep ==
    ASSUME StageInv, SlotEffect, NEW c \in Counters, NEW T, NEW U,
           T \subseteq Holders(c), U \subseteq Holders(c)',
           U \subseteq T \/ counter'[c] <= Limit[c],
           Cardinality(T) <= Limit[c] + Cardinality(Holders(c)) - counter[c]
    PROVE  Cardinality(U) <= Limit[c] + Cardinality(Holders(c)') - counter'[c]
<1>a. counter[c] \in Int /\ counter'[c] \in Int /\ Limit[c] \in Nat
  <2>1. counter[c] \in Int /\ Limit[c] \in Nat
    BY SetsAssumption DEF StageInv, TypeOK, CountersTypeOK
  <2>2. counter'[c] \in Int
    BY <2>1, TakenCount, GivenCount DEF SlotEffect, ForgetsSlots
  <2> QED
    BY <2>1, <2>2
<1>b. IsFiniteSet(T) /\ Cardinality(T) \in Nat
  BY HoldersFinite, FS_Subset, FS_CardinalityType
<1>c. /\ IsFiniteSet(U)
      /\ Cardinality(U) \in Nat
      /\ Cardinality(U) <= Cardinality(Holders(c)')
  BY HoldersNext, FS_Subset, FS_CardinalityType
<1>1. CASE counter'[c] <= Limit[c]
  BY <1>1, <1>a, <1>c, HoldersNext
<1>2. CASE U \subseteq T
  <2>a. Cardinality(U) <= Cardinality(T)
    BY <1>2, <1>b, FS_Subset
  <2>1. ASSUME NEW r \in Requests, NEW d \in Counters, TakesSlot(r, d)
        PROVE  Cardinality(Holders(c)') - counter'[c] = Cardinality(Holders(c)) - counter[c]
    BY <2>1, <1>a, TakenCount, HoldersFinite
  <2>2. ASSUME NEW r \in Requests, NEW d \in Counters, GivesSlot(r, d)
        PROVE  Cardinality(Holders(c)') - counter'[c] >= Cardinality(Holders(c)) - counter[c]
    BY <2>2, <1>a, GivenCount, HoldersFinite, HoldersNext
  <2>3. CASE ForgetsSlots
    <3>1. Holders(c)' = Holders(c)
      BY <2>3 DEF ForgetsSlots, Holders
    <3>2. CASE counter'[c] = 0
      BY <3>2, <1>a, <1>c, HoldersNext
    <3>3. CASE counter'[c] = counter[c]
      BY <3>3, <3>1, <2>a, <1>a, <1>b, <1>c, HoldersFinite
    <3> QED
      BY <2>3, <3>2, <3>3 DEF ForgetsSlots
  <2> QED
    BY <2>1, <2>2, <2>3, <2>a, <1>a, <1>b, <1>c, HoldersFinite, HoldersNext DEF SlotEffect
<1> QED
  BY <1>1, <1>2


\* Request q is a turn of account a, or a call of key k, that passed the limit.
CappedTurn(q, a) ==
    /\ acct[q] = a /\ acc[q] /\ pinned[q] = None
    /\ pc[q] \in {"send", "failed", "relay", "stream"}
    /\ a \in holds[q]

CappedCall(q, k) ==
    /\ KeyOf[q] = k /\ k \in holds[q]
    /\ pc[q] \in (Handling \ {"key", "keyOver"}) \cup {"stream"}

\* A request joins them only by an INCR whose result is within the limit.
LEMMA Joining ==
    ASSUME StageInv, [Next]_vars, NEW q \in Requests
    PROVE  /\ \A a \in Accounts : CappedTurn(q, a)' => CappedTurn(q, a) \/ counter'[a] <= Limit[a]
           /\ \A k \in Limited : CappedCall(q, k)' => CappedCall(q, k) \/ counter'[k] <= Limit[k]
<1> DEFINE Joins ==
      /\ \A a \in Accounts : CappedTurn(q, a)' => CappedTurn(q, a) \/ counter'[a] <= Limit[a]
      /\ \A k \in Limited : CappedCall(q, k)' => CappedCall(q, k) \/ counter'[k] <= Limit[k]
<1>a. /\ pc \in [Requests -> Stages]
      /\ counter \in [Counters -> Int]
      /\ holds \in [Requests -> SUBSET Counters]
      /\ acct \in [Requests -> Accounts \cup {None}]
      /\ acc \in [Requests -> BOOLEAN]
      /\ pinned \in [Requests -> Accounts \cup {None}]
  BY DEF StageInv, TypeOK, CountersTypeOK, FlowTypeOK, SlotTypeOK
<1>b. /\ Limited \subseteq Counters
      /\ Limited \cap Accounts = {}
  BY SetsAssumption
<1>c. \A r \in Requests : pc[r] = "key" => holds[r] = {}
  BY DEF StageInv, SlotsFresh, SlotFresh
<1>d. ASSUME pc'[q] = pc[q], acct'[q] = acct[q], acc'[q] = acc[q], pinned'[q] = pinned[q],
             holds'[q] \subseteq holds[q]
      PROVE  Joins
  BY <1>d DEF CappedTurn, CappedCall
<1>1. ASSUME NEW r \in Requests, Arrive(r)
      PROVE  Joins
  <2>1. CASE q # r
    BY <2>1, <1>1, <1>a, <1>d DEF Arrive, Goto
  <2>2. CASE q = r
    BY <2>2, <1>1, <1>a, <1>b, <1>c, ConstFacts
    DEF Arrive, Goto, CappedTurn, CappedCall, Handling
  <2> QED
    BY <2>1, <2>2
<1>2. ASSUME NEW r \in Requests, AcquireKey(r)
      PROVE  Joins
  <2>1. CASE q # r
    BY <2>1, <1>2, <1>a, <1>d DEF AcquireKey, Take, Goto
  <2>2. CASE q = r
    BY <2>2, <1>2, <1>a, <1>b, <1>c, ConstFacts
    DEF AcquireKey, Take, Goto, CappedTurn, CappedCall, Handling, Fits, Incr
  <2> QED
    BY <2>1, <2>2
<1>3. ASSUME NEW r \in Requests, KeyOver(r)
      PROVE  Joins
  <2>1. CASE q # r
    BY <2>1, <1>3, <1>a, <1>d DEF KeyOver, InlineDecr, GiveBack, Goto
  <2>2. CASE q = r
    BY <2>2, <1>3, <1>a, <1>b, <1>c, ConstFacts
    DEF KeyOver, InlineDecr, GiveBack, Goto, CappedTurn, CappedCall, Handling
  <2> QED
    BY <2>1, <2>2
<1>4. ASSUME NEW r \in Requests, KeyDel(r)
      PROVE  Joins
  <2>1. CASE q # r
    BY <2>1, <1>4, <1>a, <1>d DEF KeyDel, InlineDel, Goto
  <2>2. CASE q = r
    BY <2>2, <1>4, <1>a, <1>b, <1>c, ConstFacts
    DEF KeyDel, InlineDel, Goto, CappedTurn, CappedCall, Handling
  <2> QED
    BY <2>1, <2>2
<1>5. ASSUME NEW r \in Requests, ReadBody(r)
      PROVE  Joins
  <2>1. CASE q # r
    BY <2>1, <1>5, <1>a, <1>d DEF ReadBody, Refuse, Goto
  <2>2. CASE q = r
    BY <2>2, <1>5, <1>a, <1>b, <1>c, ConstFacts
    DEF ReadBody, Refuse, Goto, CappedTurn, CappedCall, Handling
  <2> QED
    BY <2>1, <2>2
<1>6. ASSUME NEW r \in Requests, LookupPin(r)
      PROVE  Joins
  <2>1. CASE q # r
    BY <2>1, <1>6, <1>a, <1>d DEF LookupPin, Goto
  <2>2. CASE q = r
    BY <2>2, <1>6, <1>a, <1>b, <1>c, ConstFacts
    DEF LookupPin, Goto, CappedTurn, CappedCall, Handling
  <2> QED
    BY <2>1, <2>2
<1>7. ASSUME NEW r \in Requests, SelectAny(r)
      PROVE  Joins
  <2>1. CASE q # r
    BY <2>1, <1>7, <1>a, <1>d DEF SelectAny, Lease, RunnerMissing, Refuse, Eligible, Goto
  <2>2. CASE q = r
    BY <2>2, <1>7, <1>a, <1>b, <1>c, ConstFacts
    DEF SelectAny, Lease, RunnerMissing, Refuse, Eligible, Goto, CappedTurn, CappedCall,
        Handling
  <2> QED
    BY <2>1, <2>2
<1>8. ASSUME NEW r \in Requests, SelectPinned(r)
      PROVE  Joins
  <2>1. CASE q # r
    BY <2>1, <1>8, <1>a, <1>d
    DEF SelectPinned, Lease, RunnerMissing, Refuse, Eligible, Take, Goto
  <2>2. CASE q = r
    BY <2>2, <1>8, <1>a, <1>b, <1>c, ConstFacts
    DEF SelectPinned, Lease, RunnerMissing, Refuse, Eligible, Take, Goto, CappedTurn,
        CappedCall, Handling
  <2> QED
    BY <2>1, <2>2
<1>9. ASSUME NEW r \in Requests, SelectCandidates(r)
      PROVE  Joins
  <2>1. CASE q # r
    BY <2>1, <1>9, <1>a, <1>d DEF SelectCandidates, Refuse, Eligible, Goto
  <2>2. CASE q = r
    BY <2>2, <1>9, <1>a, <1>b, <1>c, ConstFacts
    DEF SelectCandidates, Refuse, Eligible, Goto, CappedTurn, CappedCall, Handling
  <2> QED
    BY <2>1, <2>2
<1>10. ASSUME NEW r \in Requests, NEW a \in Accounts, PickAccount(r, a)
      PROVE  Joins
  <2>1. CASE q # r
    BY <2>1, <1>10, <1>a, <1>d DEF PickAccount, Lease, RunnerMissing, Refuse, Take, Goto
  <2>2. CASE q = r
    BY <2>2, <1>10, <1>a, <1>b, <1>c, ConstFacts
    DEF PickAccount, Lease, RunnerMissing, Refuse, Take, Goto, CappedTurn, CappedCall,
        Handling, Fits, Incr
  <2> QED
    BY <2>1, <2>2
<1>11. ASSUME NEW r \in Requests, OutOfCandidates(r)
      PROVE  Joins
  <2>1. CASE q # r
    BY <2>1, <1>11, <1>a, <1>d DEF OutOfCandidates, Refuse, Goto
  <2>2. CASE q = r
    BY <2>2, <1>11, <1>a, <1>b, <1>c, ConstFacts
    DEF OutOfCandidates, Refuse, Goto, CappedTurn, CappedCall, Handling
  <2> QED
    BY <2>1, <2>2
<1>12. ASSUME NEW r \in Requests, Over(r)
      PROVE  Joins
  <2>1. CASE q # r
    BY <2>1, <1>12, <1>a, <1>d DEF Over, InlineDecr, GiveBack, Goto
  <2>2. CASE q = r
    BY <2>2, <1>12, <1>a, <1>b, <1>c, ConstFacts
    DEF Over, InlineDecr, GiveBack, Goto, CappedTurn, CappedCall, Handling
  <2> QED
    BY <2>1, <2>2
<1>13. ASSUME NEW r \in Requests, OverDel(r)
      PROVE  Joins
  <2>1. CASE q # r
    BY <2>1, <1>13, <1>a, <1>d DEF OverDel, InlineDel, Goto
  <2>2. CASE q = r
    BY <2>2, <1>13, <1>a, <1>b, <1>c, ConstFacts
    DEF OverDel, InlineDel, Goto, CappedTurn, CappedCall, Handling
  <2> QED
    BY <2>1, <2>2
<1>14. ASSUME NEW r \in Requests, Send(r)
      PROVE  Joins
  <2>1. CASE q # r
    BY <2>1, <1>14, <1>a, <1>d DEF Send, Goto
  <2>2. CASE q = r
    BY <2>2, <1>14, <1>a, <1>b, <1>c, ConstFacts
    DEF Send, Goto, CappedTurn, CappedCall, Handling
  <2> QED
    BY <2>1, <2>2
<1>15. ASSUME NEW r \in Requests, SendFailed(r)
      PROVE  Joins
  <2>1. CASE q # r
    BY <2>1, <1>15, <1>a, <1>d DEF SendFailed, InlineDecr, GiveBack, AfterRelease, Goto
  <2>2. CASE q = r
    BY <2>2, <1>15, <1>a, <1>b, <1>c, ConstFacts
    DEF SendFailed, InlineDecr, GiveBack, AfterRelease, Goto, CappedTurn, CappedCall,
        Handling
  <2> QED
    BY <2>1, <2>2
<1>16. ASSUME NEW r \in Requests, FailedDel(r)
      PROVE  Joins
  <2>1. CASE q # r
    BY <2>1, <1>16, <1>a, <1>d DEF FailedDel, InlineDel, AfterRelease, Goto
  <2>2. CASE q = r
    BY <2>2, <1>16, <1>a, <1>b, <1>c, ConstFacts
    DEF FailedDel, InlineDel, AfterRelease, Goto, CappedTurn, CappedCall, Handling
  <2> QED
    BY <2>1, <2>2
<1>17. ASSUME NEW r \in Requests, MarkUnhealthy(r)
      PROVE  Joins
  <2>1. CASE q # r
    BY <2>1, <1>17, <1>a, <1>d DEF MarkUnhealthy, Goto
  <2>2. CASE q = r
    BY <2>2, <1>17, <1>a, <1>b, <1>c, ConstFacts
    DEF MarkUnhealthy, Goto, CappedTurn, CappedCall, Handling
  <2> QED
    BY <2>1, <2>2
<1>18. ASSUME NEW r \in Requests, Fetch(r)
      PROVE  Joins
  <2>1. CASE q # r
    BY <2>1, <1>18, <1>a, <1>d DEF Fetch, Rows, Goto
  <2>2. CASE q = r
    BY <2>2, <1>18, <1>a, <1>b, <1>c, ConstFacts
    DEF Fetch, Rows, Goto, CappedTurn, CappedCall, Handling
  <2> QED
    BY <2>1, <2>2
<1>19. ASSUME NEW r \in Requests, Publish(r)
      PROVE  Joins
  <2>1. CASE q # r
    BY <2>1, <1>19, <1>a, <1>d DEF Publish, Goto
  <2>2. CASE q = r
    BY <2>2, <1>19, <1>a, <1>b, <1>c, ConstFacts
    DEF Publish, Goto, CappedTurn, CappedCall, Handling
  <2> QED
    BY <2>1, <2>2
<1>20. ASSUME NEW r \in Requests, Verdict(r)
      PROVE  Joins
  <2>1. CASE q # r
    BY <2>1, <1>20, <1>a, <1>d DEF Verdict, Tried, Goto
  <2>2. CASE q = r
    BY <2>2, <1>20, <1>a, <1>b, <1>c, ConstFacts
    DEF Verdict, Tried, Goto, CappedTurn, CappedCall, Handling
  <2> QED
    BY <2>1, <2>2
<1>21. ASSUME NEW r \in Requests, Relay(r)
      PROVE  Joins
  <2>1. CASE q # r
    BY <2>1, <1>21, <1>a, <1>d DEF Relay, Goto
  <2>2. CASE q = r
    BY <2>2, <1>21, <1>a, <1>b, <1>c, ConstFacts
    DEF Relay, Goto, CappedTurn, CappedCall, Handling
  <2> QED
    BY <2>1, <2>2
<1>22. ASSUME NEW r \in Requests, StreamEnd(r)
      PROVE  Joins
  <2>1. CASE q # r
    BY <2>1, <1>22, <1>a, <1>d DEF StreamEnd, Finish, Goto
  <2>2. CASE q = r
    BY <2>2, <1>22, <1>a, <1>b, <1>c, ConstFacts
    DEF StreamEnd, Finish, Goto, CappedTurn, CappedCall, Handling
  <2> QED
    BY <2>1, <2>2
<1>23. ASSUME NEW r \in Requests, DropObserver(r)
      PROVE  Joins
  <2>1. CASE q # r
    BY <2>1, <1>23, <1>a, <1>d DEF DropObserver, Finish, Goto
  <2>2. CASE q = r
    BY <2>2, <1>23, <1>a, <1>b, <1>c, ConstFacts
    DEF DropObserver, Finish, Goto, CappedTurn, CappedCall, Handling
  <2> QED
    BY <2>1, <2>2
<1>24. ASSUME NEW r \in Requests, NEW c \in Counters, TaskDecr(r, c)
      PROVE  Joins
  <2>1. CASE q # r
    BY <2>1, <1>24, <1>a, <1>d DEF TaskDecr, GiveBack, Goto
  <2>2. CASE q = r
    BY <2>2, <1>24, <1>a, <1>b, <1>c, ConstFacts
    DEF TaskDecr, GiveBack, Goto, CappedTurn, CappedCall, Handling
  <2> QED
    BY <2>1, <2>2
<1>25. ASSUME NEW r \in Requests, NEW c \in Counters, TaskDel(r, c)
      PROVE  Joins
  <2>1. CASE q # r
    BY <2>1, <1>25, <1>a, <1>d DEF TaskDel, Goto
  <2>2. CASE q = r
    BY <2>2, <1>25, <1>a, <1>b, <1>c, ConstFacts
    DEF TaskDel, Goto, CappedTurn, CappedCall, Handling
  <2> QED
    BY <2>1, <2>2
<1>26. ASSUME NEW r \in Requests, StoreResponseId(r)
      PROVE  Joins
  <2>1. CASE q # r
    BY <2>1, <1>26, <1>a, <1>d DEF StoreResponseId, Goto
  <2>2. CASE q = r
    BY <2>2, <1>26, <1>a, <1>b, <1>c, ConstFacts
    DEF StoreResponseId, Goto, CappedTurn, CappedCall, Handling
  <2> QED
    BY <2>1, <2>2
<1>27. ASSUME NEW p \in Replicas, LoopFetch(p)
      PROVE  Joins
  BY <1>27, <1>a, <1>d DEF LoopFetch, Rows
<1>28. ASSUME NEW p \in Replicas, LoopPublish(p)
      PROVE  Joins
  BY <1>28, <1>a, <1>d DEF LoopPublish
<1>29. ASSUME NEW a \in Accounts, StatusChange(a)
      PROVE  Joins
  BY <1>29, <1>a, <1>d DEF StatusChange
<1>30. ASSUME NEW r \in Requests, Cancel(r)
      PROVE  Joins
  <2>1. CASE q # r
    BY <2>1, <1>30, <1>a, <1>d DEF Cancel, Goto
  <2>2. CASE q = r
    BY <2>2, <1>30, <1>a, <1>b, <1>c, ConstFacts
    DEF Cancel, Goto, CappedTurn, CappedCall, Handling
  <2> QED
    BY <2>1, <2>2
<1>31. ASSUME NEW p \in Replicas, Crash(p)
      PROVE  Joins
  BY <1>31, <1>a, <1>d DEF Crash, Rows, PassTime, CappedTurn, CappedCall, Handling
<1>32. ASSUME NEW r \in Requests, AcquireKeyFails(r)
      PROVE  Joins
  <2>1. CASE q # r
    BY <2>1, <1>32, <1>a, <1>d DEF AcquireKeyFails, Take, Goto
  <2>2. CASE q = r
    BY <2>2, <1>32, <1>a, <1>b, <1>c, ConstFacts
    DEF AcquireKeyFails, Take, Goto, CappedTurn, CappedCall, Handling
  <2> QED
    BY <2>1, <2>2
<1>33. ASSUME NEW r \in Requests, NEW a \in Accounts, PickFails(r, a)
      PROVE  Joins
  <2>1. CASE q # r
    BY <2>1, <1>33, <1>a, <1>d DEF PickFails, Refuse, Take, Goto
  <2>2. CASE q = r
    BY <2>2, <1>33, <1>a, <1>b, <1>c, ConstFacts
    DEF PickFails, Refuse, Take, Goto, CappedTurn, CappedCall, Handling
  <2> QED
    BY <2>1, <2>2
<1>34. ASSUME NEW r \in Requests, NEW c \in Counters, TaskFails(r, c)
      PROVE  Joins
  <2>1. CASE q # r
    BY <2>1, <1>34, <1>a, <1>d DEF TaskFails, Goto
  <2>2. CASE q = r
    BY <2>2, <1>34, <1>a, <1>b, <1>c, ConstFacts
    DEF TaskFails, Goto, CappedTurn, CappedCall, Handling
  <2> QED
    BY <2>1, <2>2
<1>35. ASSUME Tick
      PROVE  Joins
  BY <1>35, <1>a, <1>d DEF Tick
<1>36. ASSUME NEW r \in Requests, Recycle(r)
      PROVE  Joins
  <2>1. CASE q # r
    BY <2>1, <1>36, <1>a, <1>d DEF Recycle, Goto
  <2>2. CASE q = r
    BY <2>2, <1>36, <1>a, <1>b, <1>c, ConstFacts
    DEF Recycle, Goto, CappedTurn, CappedCall, Handling
  <2> QED
    BY <2>1, <2>2
<1>37. CASE UNCHANGED vars
  BY <1>37, <1>a, <1>d DEF vars
<1> QED
  BY <1>1, <1>2, <1>3, <1>4, <1>5, <1>6, <1>7, <1>8, <1>9, <1>10,
     <1>11, <1>12, <1>13, <1>14, <1>15, <1>16, <1>17, <1>18, <1>19, <1>20,
     <1>21, <1>22, <1>23, <1>24, <1>25, <1>26, <1>27, <1>28, <1>29, <1>30,
     <1>31, <1>32, <1>33, <1>34, <1>35, <1>36, <1>37
  DEF Next, Handler, Tasks, RedisFails

\* max_concurrency of an account holds, up to the slots Redis has lost count of.
THEOREM CapCorrect == Spec => []CapUpToLostSlots
<1>1. Init => CapUpToLostSlots
  <2> SUFFICES ASSUME Init, NEW a \in Accounts
               PROVE  Cardinality(CappedTurns(a)) <= Limit[a] + Cardinality(Holders(a)) - counter[a]
    BY DEF CapUpToLostSlots
  <2>1. CappedTurns(a) = {}
    BY DEF Init, CappedTurns
  <2>2. counter[a] = 0 /\ Limit[a] \in Nat
    BY SetsAssumption, ConstFacts DEF Init, CountersInit
  <2> QED
    BY <2>1, <2>2, HoldersFinite, FS_EmptySet
<1>2. StageInv /\ CapUpToLostSlots /\ [Next]_vars => CapUpToLostSlots'
  <2> SUFFICES ASSUME StageInv, CapUpToLostSlots, [Next]_vars, NEW a \in Accounts
               PROVE  Cardinality(CappedTurns(a)')
                        <= Limit[a] + Cardinality(Holders(a)') - counter'[a]
    BY DEF CapUpToLostSlots
  <2>1. SlotEffect
    BY SlotStep
  <2>2. CappedTurns(a)' \subseteq CappedTurns(a) \/ counter'[a] <= Limit[a]
    BY Joining DEF CappedTurns, CappedTurn
  <2>3. CappedTurns(a) \subseteq Holders(a) /\ CappedTurns(a)' \subseteq Holders(a)'
    BY DEF CappedTurns, Holders
  <2>4. a \in Counters
    BY ConstFacts
  <2>5. Cardinality(CappedTurns(a)) <= Limit[a] + Cardinality(Holders(a)) - counter[a]
    BY DEF CapUpToLostSlots
  <2> QED
    BY <2>1, <2>2, <2>3, <2>4, <2>5, CapStep
<1> QED
  BY StageInit, StageStep, <1>1, <1>2, PTL DEF Spec

\* And so does max_concurrency of an API key.
THEOREM KeyCapCorrect == Spec => []KeyCapUpToLostSlots
<1>1. Init => KeyCapUpToLostSlots
  <2> SUFFICES ASSUME Init, NEW k \in Limited
               PROVE  Cardinality(CappedCalls(k)) <= Limit[k] + Cardinality(Holders(k)) - counter[k]
    BY DEF KeyCapUpToLostSlots
  <2>1. CappedCalls(k) = {}
    BY DEF Init, CappedCalls, Handling
  <2>2. counter[k] = 0 /\ Limit[k] \in Nat
    BY SetsAssumption DEF Init, CountersInit
  <2> QED
    BY <2>1, <2>2, HoldersFinite, FS_EmptySet
<1>2. StageInv /\ KeyCapUpToLostSlots /\ [Next]_vars => KeyCapUpToLostSlots'
  <2> SUFFICES ASSUME StageInv, KeyCapUpToLostSlots, [Next]_vars, NEW k \in Limited
               PROVE  Cardinality(CappedCalls(k)')
                        <= Limit[k] + Cardinality(Holders(k)') - counter'[k]
    BY DEF KeyCapUpToLostSlots
  <2>1. SlotEffect
    BY SlotStep
  <2>2. CappedCalls(k)' \subseteq CappedCalls(k) \/ counter'[k] <= Limit[k]
    BY Joining DEF CappedCalls, CappedCall
  <2>3. CappedCalls(k) \subseteq Holders(k) /\ CappedCalls(k)' \subseteq Holders(k)'
    BY DEF CappedCalls, Holders
  <2>4. k \in Counters
    BY SetsAssumption
  <2>5. Cardinality(CappedCalls(k)) <= Limit[k] + Cardinality(Holders(k)) - counter[k]
    BY DEF KeyCapUpToLostSlots
  <2> QED
    BY <2>1, <2>2, <2>3, <2>4, <2>5, CapStep
<1> QED
  BY StageInit, StageStep, <1>1, <1>2, PTL DEF Spec

-----------------------------------------------------------------------------
(***************************************************************************)
(* How a request ends: what it was answered and what is recorded of it,    *)
(* which accounts it was tried on, and the slots it has left.              *)
(*                                                                         *)
(* The invariants speak of one request at a time.  Seen from a request, a  *)
(* step of the system is a step of its own, leaves its state alone, or     *)
(* stops it with its replica (Frame); so each invariant is shown for the   *)
(* request's own steps only.                                               *)
(***************************************************************************)

\* The steps of request r: its handler, its tasks, its failures and its end.
OwnStep(r) ==
    \/ Arrive(r) \/ Handler(r) \/ Tasks(r) \/ RedisFails(r) \/ Cancel(r) \/ Recycle(r)

SameTurn(q) ==
    /\ acc'[q] = acc[q] /\ tok'[q] = tok[q] /\ pinned'[q] = pinned[q]
    /\ excluded'[q] = excluded[q] /\ cand'[q] = cand[q] /\ acct'[q] = acct[q]
    /\ answer'[q] = answer[q] /\ observed'[q] = observed[q]
    /\ holds'[q] = holds[q] /\ usage'[q] = usage[q]

Kept(q)    == SameTurn(q) /\ pc'[q] = pc[q] /\ todo'[q] = todo[q]
Stopped(q) == SameTurn(q) /\ pc'[q] = "gone" /\ todo'[q] = [c \in Counters |-> 0]

LEMMA Frame ==
    ASSUME TypeOK, [Next]_vars, NEW q \in Requests
    PROVE  OwnStep(q) \/ Kept(q) \/ Stopped(q)
<1> USE DEF TypeOK, FlowTypeOK, SlotTypeOK, ResultTypeOK
<1>1. ASSUME NEW r \in Requests, r # q, Arrive(r) \/ Handler(r)
      PROVE  Kept(q)
  <2>1. CASE Arrive(r) \/ AcquireKey(r) \/ KeyOver(r) \/ KeyDel(r) \/ ReadBody(r) \/ LookupPin(r)
    BY <1>1, <2>1
    DEF Arrive, AcquireKey, KeyOver, KeyDel, ReadBody, LookupPin, InlineDecr, InlineDel, GiveBack,
        Take, Goto, Refuse, ReleaseKey, Kept, SameTurn
  <2>2. CASE SelectAny(r) \/ SelectPinned(r) \/ SelectCandidates(r)
    BY <1>1, <2>2
    DEF SelectAny, SelectPinned, SelectCandidates, Lease, RunnerMissing, Take, Goto, Refuse,
        ReleaseKey, Kept, SameTurn
  <2>3. CASE (\E a \in Accounts : PickAccount(r, a)) \/ OutOfCandidates(r) \/ Over(r) \/ OverDel(r)
    BY <1>1, <2>3
    DEF PickAccount, OutOfCandidates, Over, OverDel, InlineDecr, InlineDel, GiveBack, Lease,
        RunnerMissing, Take, Goto, Refuse, ReleaseKey, Kept, SameTurn
  <2>4. CASE Send(r) \/ SendFailed(r) \/ FailedDel(r) \/ MarkUnhealthy(r) \/ Fetch(r) \/ Publish(r)
    BY <1>1, <2>4
    DEF Send, SendFailed, FailedDel, MarkUnhealthy, Fetch, Publish, InlineDecr, InlineDel,
        GiveBack, Goto, Kept, SameTurn
  <2>5. CASE Verdict(r) \/ Relay(r) \/ StreamEnd(r) \/ DropObserver(r)
    BY <1>1, <2>5
    DEF Verdict, Relay, StreamEnd, DropObserver, Finish, Goto, ReleaseKey, Kept, SameTurn
  <2> QED
    BY <1>1, <2>1, <2>2, <2>3, <2>4, <2>5 DEF Handler
<1>2. ASSUME NEW r \in Requests, r # q, Tasks(r) \/ RedisFails(r) \/ Cancel(r) \/ Recycle(r)
      PROVE  Kept(q)
  <2>1. CASE Tasks(r)
    BY <1>2, <2>1 DEF Tasks, TaskDecr, TaskDel, StoreResponseId, GiveBack, Kept, SameTurn
  <2>2. CASE RedisFails(r)
    BY <1>2, <2>2
    DEF RedisFails, AcquireKeyFails, PickFails, TaskFails, Take, Goto, Refuse, ReleaseKey, Kept, SameTurn
  <2>3. CASE Cancel(r) \/ Recycle(r)
    BY <1>2, <2>3 DEF Cancel, Recycle, Goto, Kept, SameTurn
  <2> QED
    BY <1>2, <2>1, <2>2, <2>3
<1>3. ASSUME NEW p \in Replicas, LoopFetch(p) \/ LoopPublish(p)
      PROVE  Kept(q)
  BY <1>3 DEF LoopFetch, LoopPublish, Kept, SameTurn
<1>4. ASSUME NEW p \in Replicas, Crash(p)
      PROVE  Kept(q) \/ Stopped(q)
  BY <1>4 DEF Crash, Kept, Stopped, SameTurn
<1>5. CASE (\E a \in Accounts : StatusChange(a)) \/ Tick \/ UNCHANGED vars
  BY <1>5 DEF StatusChange, Tick, vars, Kept, SameTurn
<1> QED
  BY <1>1, <1>2, <1>3, <1>4, <1>5 DEF Next, OwnStep
-----------------------------------------------------------------------------
(* What is answered and recorded. *)

\* The stages at which nothing has been answered.
Unanswered == (Handling \ {"keyDel"}) \cup {"idle"}

\* The record is written by the verdict or by the observer of the body, whichever
\* answered; the observer settles before the request is done.
Recorded(r) ==
    /\ usage[r] = IF observed[r] \/ answer[r] = "unreachable" THEN 1 ELSE 0
    /\ observed[r] => answer[r] = "relayed"
    /\ pc[r] \in Unanswered => answer[r] = "none"
    /\ pc[r] = "keyDel" => answer[r] = "refused"
    /\ pc[r] \in {"stream", "ended"} => answer[r] = "relayed"
    /\ pc[r] = "stream" => ~observed[r]
    /\ pc[r] \in {"ended", "done"} /\ answer[r] = "relayed" => observed[r]

LEMMA RecordedStep ==
    ASSUME TypeOK, NEW r \in Requests, Recorded(r), OwnStep(r)
    PROVE  Recorded(r)'
<1> USE DEF TypeOK, FlowTypeOK, SlotTypeOK, ResultTypeOK, Recorded, Unanswered, Handling
<1>1. CASE Arrive(r) \/ AcquireKey(r) \/ KeyOver(r) \/ KeyDel(r) \/ ReadBody(r) \/ LookupPin(r)
  BY <1>1
  DEF Arrive, AcquireKey, KeyOver, KeyDel, ReadBody, LookupPin, InlineDecr, InlineDel, Goto, Refuse
<1>2. CASE SelectAny(r) \/ SelectPinned(r) \/ SelectCandidates(r)
  BY <1>2 DEF SelectAny, SelectPinned, SelectCandidates, Lease, RunnerMissing, Goto, Refuse
<1>3. CASE (\E a \in Accounts : PickAccount(r, a)) \/ OutOfCandidates(r) \/ Over(r) \/ OverDel(r)
  BY <1>3
  DEF PickAccount, OutOfCandidates, Over, OverDel, InlineDecr, InlineDel, Lease, RunnerMissing,
      Goto, Refuse
<1>4. CASE Send(r) \/ SendFailed(r) \/ FailedDel(r) \/ MarkUnhealthy(r) \/ Fetch(r) \/ Publish(r)
  BY <1>4
  DEF Send, SendFailed, FailedDel, MarkUnhealthy, Fetch, Publish, InlineDecr, InlineDel,
      AfterRelease, Goto
<1>5. CASE Verdict(r) \/ Relay(r)
  BY <1>5 DEF Verdict, Relay, Goto
<1>6. CASE StreamEnd(r) \/ DropObserver(r)
  BY <1>6 DEF StreamEnd, DropObserver, Finish, Goto
<1>7. CASE Tasks(r)
  BY <1>7 DEF Tasks, TaskDecr, TaskDel, StoreResponseId
<1>8. CASE RedisFails(r)
  BY <1>8 DEF RedisFails, AcquireKeyFails, PickFails, TaskFails, Goto, Refuse
<1>9. CASE Cancel(r) \/ Recycle(r)
  BY <1>9 DEF Cancel, Recycle, Goto
<1> QED
  BY <1>1, <1>2, <1>3, <1>4, <1>5, <1>6, <1>7, <1>8, <1>9 DEF OwnStep, Handler

\* A relayed or unreachable request has one record, a refused one has none: finish and
\* the verdict between them call record_usage once, whatever the Observer is dropped
\* after, and whatever else the replica, Redis and the client do (gateway.rs:356-373,
\* 518-575).
THEOREM RecordedCorrect == Spec => []RecordedOnce
<1> DEFINE Inv == \A r \in Requests : Recorded(r)
<1>1. Init => Inv
  BY DEF Init, Recorded
<1>2. TypeOK /\ Inv /\ [Next]_vars => Inv'
  <2> SUFFICES ASSUME TypeOK, Inv, [Next]_vars, NEW r \in Requests
               PROVE  Recorded(r)'
    OBVIOUS
  <2>1. CASE OwnStep(r)
    BY <2>1, RecordedStep
  <2>2. CASE Kept(r) \/ Stopped(r)
    BY <2>2 DEF Kept, Stopped, SameTurn, Recorded, Unanswered, Handling
  <2> QED
    BY <2>1, <2>2, Frame
<1>3. Inv => RecordedOnce
  BY DEF Recorded, RecordedOnce
<1> QED
  BY TypeCorrect, <1>1, <1>2, <1>3, PTL DEF Spec
-----------------------------------------------------------------------------
(* The refusal for the key's limit. *)

LEMMA KeyRefused ==
    ASSUME StageInv, NoPhantomSlots, NEW r \in Requests, OwnStep(r),
           pc[r] = "key", pc'[r] = "keyOver"
    PROVE  Cardinality(Holders(KeyOf[r])) >= Limit[KeyOf[r]]
<1> DEFINE k == KeyOf[r]
<1>1. k \in Counters /\ Limit[k] \in Nat /\ counter[k] \in Int
  BY ConstFacts, SetsAssumption DEF StageInv, TypeOK, CountersTypeOK
<1>2. AcquireKey(r)
  <2> USE DEF StageInv, TypeOK, FlowTypeOK
  <2>1. ~Arrive(r) /\ ~Tasks(r) /\ ~RedisFails(r) /\ ~Cancel(r) /\ ~Recycle(r)
    BY DEF Arrive, Tasks, TaskDecr, TaskDel, StoreResponseId, RedisFails, AcquireKeyFails,
           PickFails, TaskFails, Cancel, Recycle, Goto, Refuse
  <2>2. \/ AcquireKey(r)
        \/ \E stage \in Stages \ {"key"} : pc[r] = stage
    BY <2>1
    DEF OwnStep, Handler, KeyOver, KeyDel, ReadBody, LookupPin, SelectAny, SelectPinned,
        SelectCandidates, PickAccount, OutOfCandidates, Over, OverDel, Send, SendFailed, FailedDel,
        MarkUnhealthy, Fetch, Publish, Verdict, Relay, StreamEnd, DropObserver, InlineDecr,
        InlineDel
  <2> QED
    BY <2>2
<1>3. ~Fits(k)
  BY <1>2 DEF AcquireKey, Goto, StageInv, TypeOK, FlowTypeOK
<1>4. counter[k] <= Cardinality(Holders(k))
  BY <1>1 DEF NoPhantomSlots
<1> QED
  BY <1>1, <1>3, <1>4, HoldersFinite DEF Fits

\* Whoever is refused for the limit of its key finds that many others holding a slot of it:
\* a count that has drifted refuses nobody (gateway.rs:250-257).
THEOREM RefusalCorrect == Spec => RefusedOnlyWhenFull
<1>1. StageInv /\ NoPhantomSlots /\ [Next]_vars
        => [\A r \in Requests : pc[r] = "key" /\ pc'[r] = "keyOver"
              => Cardinality(Holders(KeyOf[r])) >= Limit[KeyOf[r]]]_vars
  <2> SUFFICES ASSUME StageInv, NoPhantomSlots, [Next]_vars, NEW r \in Requests,
                      pc[r] = "key", pc'[r] = "keyOver"
               PROVE  Cardinality(Holders(KeyOf[r])) >= Limit[KeyOf[r]]
    OBVIOUS
  <2>1. OwnStep(r)
    BY Frame DEF StageInv, Kept, Stopped
  <2> QED
    BY <2>1, KeyRefused
<1> QED
  BY StageInit, StageStep, NoPhantom, <1>1, PTL DEF Spec, RefusedOnlyWhenFull
-----------------------------------------------------------------------------
(* The accounts a request is tried on. *)

\* An account is a candidate, or being tried, only before it has failed the request; and
\* a pinned request tries its own account or none.
RetryOK(r) ==
    /\ IsFiniteSet(excluded[r]) /\ Cardinality(excluded[r]) <= MaxTries
    /\ pc[r] \in Handling \cup {"idle"} => Cardinality(excluded[r]) < MaxTries
    /\ pc[r] \in {"pick", "over", "overDel"} => cand[r] \cap excluded[r] = {}
    /\ pc[r] \in Serving => acct[r] \notin excluded[r] /\ pinned[r] \in {None, acct[r]}
    /\ pc[r] \in {"idle", "key", "keyOver", "keyDel", "body", "pin", "pick", "over", "overDel"}
          => pinned[r] = None
    /\ pc[r] = "pin" => acc[r]
    /\ ~acc[r] => pinned[r] = None

LEMMA TriedOneMore ==
    ASSUME NEW r, IsFiniteSet(excluded[r]), acct[r] \notin excluded[r]
    PROVE  /\ IsFiniteSet(Tried(r)) /\ Cardinality(excluded[r]) \in Nat
           /\ Cardinality(Tried(r)) = Cardinality(excluded[r]) + 1
  BY FS_AddElement, FS_CardinalityType DEF Tried

LEMMA RetryStep ==
    ASSUME TypeOK, NEW r \in Requests, RetryOK(r), OwnStep(r)
    PROVE  RetryOK(r)'
<1> USE SetsAssumption DEF TypeOK, FlowTypeOK, SlotTypeOK, ResultTypeOK, PoolTypeOK, RetryOK, Handling, Serving
<1>0. IsFiniteSet({}) /\ Cardinality({}) = 0
  BY FS_EmptySet
<1>1. CASE Arrive(r) \/ AcquireKey(r) \/ KeyOver(r) \/ KeyDel(r) \/ ReadBody(r) \/ LookupPin(r)
  <2>1. CASE Arrive(r)
    BY <2>1 DEF Arrive, Goto
  <2>2. CASE AcquireKey(r)
    BY <2>2 DEF AcquireKey, Goto
  <2>3. CASE KeyOver(r) \/ KeyDel(r)
    BY <2>3 DEF KeyOver, KeyDel, InlineDecr, InlineDel, Goto
  <2>4. CASE ReadBody(r)
    BY <2>4 DEF ReadBody, Goto, Refuse
  <2>5. CASE LookupPin(r)
    BY <2>5 DEF LookupPin, Goto
  <2> QED
    BY <1>1, <2>1, <2>2, <2>3, <2>4, <2>5
<1>2. CASE SelectAny(r) \/ SelectPinned(r) \/ SelectCandidates(r)
  BY <1>2
  DEF SelectAny, SelectPinned, SelectCandidates, Eligible, Lease, RunnerMissing, Goto, Refuse
<1>3. CASE (\E a \in Accounts : PickAccount(r, a)) \/ OutOfCandidates(r) \/ Over(r) \/ OverDel(r)
  <2>1. CASE \E a \in Accounts : PickAccount(r, a)
    BY <2>1 DEF PickAccount, Lease, RunnerMissing, Goto, Refuse
  <2>2. CASE OutOfCandidates(r)
    BY <2>2 DEF OutOfCandidates, Goto, Refuse
  <2>3. CASE Over(r) \/ OverDel(r)
    BY <2>3 DEF Over, OverDel, InlineDecr, InlineDel, Goto
  <2> QED
    BY <1>3, <2>1, <2>2, <2>3
<1>4. CASE Send(r) \/ SendFailed(r) \/ FailedDel(r) \/ MarkUnhealthy(r) \/ Fetch(r) \/ Publish(r)
  <2>1. CASE Send(r)
    BY <2>1 DEF Send, Goto
  <2>2. CASE SendFailed(r) \/ FailedDel(r)
    BY <2>2 DEF SendFailed, FailedDel, InlineDecr, InlineDel, AfterRelease, Goto
  <2>3. CASE MarkUnhealthy(r) \/ Fetch(r) \/ Publish(r)
    BY <2>3 DEF MarkUnhealthy, Fetch, Publish, Goto
  <2> QED
    BY <1>4, <2>1, <2>2, <2>3
<1>5. CASE Verdict(r)
  <2>1. /\ IsFiniteSet(Tried(r)) /\ Cardinality(excluded[r]) \in Nat
        /\ Cardinality(Tried(r)) = Cardinality(excluded[r]) + 1
    BY <1>5, TriedOneMore DEF Verdict
  <2>2. excluded'[r] = Tried(r)
    BY <1>5 DEF Verdict
  <2>3. CASE GivesUp(r) /\ pc'[r] = "done"
    BY <1>5, <2>1, <2>2, <2>3 DEF Verdict
  <2>4. CASE ~GivesUp(r) /\ pc'[r] = "select"
    <3>1. Cardinality(Tried(r)) < MaxTries /\ pinned[r] = None
      BY <2>1, <2>4 DEF GivesUp
    <3>2. pinned'[r] = None
      BY <1>5, <3>1 DEF Verdict
    <3> QED
      BY <1>5, <2>1, <2>2, <2>4, <3>1, <3>2 DEF Verdict
  <2> QED
    BY <1>5, <2>3, <2>4 DEF Verdict, Goto
<1>6. CASE Relay(r) \/ StreamEnd(r) \/ DropObserver(r)
  BY <1>6 DEF Relay, StreamEnd, DropObserver, Goto
<1>7. CASE Tasks(r)
  BY <1>7 DEF Tasks, TaskDecr, TaskDel, StoreResponseId
<1>8. CASE RedisFails(r)
  <2>1. CASE AcquireKeyFails(r)
    BY <2>1 DEF AcquireKeyFails, Goto
  <2>2. CASE \E a \in Accounts : PickFails(r, a)
    BY <2>2 DEF PickFails, Goto, Refuse
  <2>3. CASE \E c \in Counters : TaskFails(r, c)
    BY <2>3 DEF TaskFails
  <2> QED
    BY <1>8, <2>1, <2>2, <2>3 DEF RedisFails
<1>9. CASE Cancel(r) \/ Recycle(r)
  <2>1. CASE Cancel(r)
    BY <2>1 DEF Cancel, Goto
  <2>2. CASE Recycle(r)
    BY <1>0, <2>2 DEF Recycle, Goto
  <2> QED
    BY <1>9, <2>1, <2>2
<1> QED
  BY <1>1, <1>2, <1>3, <1>4, <1>5, <1>6, <1>7, <1>8, <1>9 DEF OwnStep, Handler

\* A request is tried on at most MaxTries accounts, none of them twice, and a pinned one on
\* its own account only, whatever becomes of the snapshot between two tries
\* (gateway.rs:314-376).
THEOREM RetryCorrect == Spec => []RetryDiscipline
<1> DEFINE Inv == \A r \in Requests : RetryOK(r)
<1>1. Init => Inv
  <2>1. IsFiniteSet({}) /\ Cardinality({}) = 0
    BY FS_EmptySet
  <2> QED
    BY <2>1, SetsAssumption DEF Init, RetryOK, Handling, Serving
<1>2. TypeOK /\ Inv /\ [Next]_vars => Inv'
  <2> SUFFICES ASSUME TypeOK, Inv, [Next]_vars, NEW r \in Requests
               PROVE  RetryOK(r)'
    OBVIOUS
  <2>1. CASE OwnStep(r)
    BY <2>1, RetryStep
  <2>2. CASE Kept(r) \/ Stopped(r)
    BY <2>2 DEF Kept, Stopped, SameTurn, RetryOK, Handling, Serving
  <2> QED
    BY <2>1, <2>2, Frame
<1>3. Inv => RetryDiscipline
  BY DEF RetryOK, RetryDiscipline, Handling, Serving
<1> QED
  BY TypeCorrect, <1>1, <1>2, <1>3, PTL DEF Spec
-----------------------------------------------------------------------------
(* What is owed: every slot the handler has still to give back, or has spawned a task for. *)

\* The stages that lie between the key's slot and the tasks that give it back.
Carrying == (Handling \ {"key", "keyDel"}) \cup {"stream"}

\* The handler of r carries the slot c: nobody has been told yet to give it back.
Carries(r, c) ==
    \/ c = KeyOf[r] /\ c \in Limited /\ pc[r] \in Carrying
    \/ c = acct[r] /\ acc[r] /\ pc[r] \in {"over", "send", "failed", "relay", "stream"}

\* What is owed is held: one task at most is to give a slot back, after the handler.
Owes(r, c) ==
    /\ todo[r][c] \in {0, 1}
    /\ Carries(r, c) \/ todo[r][c] = 1 => c \in holds[r]
    /\ pc[r] \in Handling \cup {"idle", "stream", "gone"} => todo[r][c] = 0

LEMMA KeyReleased ==
    ASSUME TypeOK, NEW r \in Requests, NEW c \in Counters
    PROVE  ReleaseKey(r)[r][c]
             = IF c = KeyOf[r] /\ c \in Limited THEN todo[r][c] + 1 ELSE todo[r][c]
<1>1. KeyOf[r] \in Counters /\ todo[r] \in [Counters -> Nat]
  BY ConstFacts DEF TypeOK, SlotTypeOK
<1> QED
  BY <1>1 DEF ReleaseKey, TypeOK, SlotTypeOK

\* The handler ends in a refusal, or goes on: in Lease, and in every `match` that may return.
LEMMA Refused ==
    ASSUME TypeOK, NEW r \in Requests, NEW c \in Counters, Refuse(r)
    PROVE  /\ pc'[r] = "done"
           /\ todo'[r][c] = IF c = KeyOf[r] /\ c \in Limited THEN todo[r][c] + 1 ELSE todo[r][c]
  BY KeyReleased DEF Refuse, Goto, TypeOK, FlowTypeOK

LEMMA OwesStep ==
    ASSUME "redis" \notin Env, StageInv, NEW r \in Requests, Recorded(r), OwnStep(r),
           NEW c \in Counters, \A d \in Counters : Owes(r, d)
    PROVE  Owes(r, c)'
<1> USE DEF StageInv, TypeOK, FlowTypeOK, SlotTypeOK, ResultTypeOK, Owes, Carries, Carrying, Handling
<1>0. KeyOf[r] \notin Accounts /\ KeyOf[r] \in Counters /\ Accounts \subseteq Counters
  BY ConstFacts
<1>1. CASE Arrive(r)
  BY <1>1 DEF Arrive, Goto
<1>2. CASE AcquireKey(r)
  BY <1>2 DEF AcquireKey, Take, Goto
<1>3. CASE KeyOver(r) \/ KeyDel(r)
  BY <1>3 DEF KeyOver, KeyDel, InlineDecr, InlineDel, GiveBack, Goto
<1>4. CASE ReadBody(r)
  BY <1>4, Refused DEF ReadBody, Goto
<1>5. CASE LookupPin(r)
  BY <1>5 DEF LookupPin, Goto
<1>6. CASE SelectAny(r)
  BY <1>6, Refused DEF SelectAny, Lease, RunnerMissing, Goto
<1>7. CASE SelectPinned(r)
  BY <1>0, <1>7, Refused DEF SelectPinned, Lease, RunnerMissing, Take, Goto
<1>8. CASE SelectCandidates(r)
  BY <1>8, Refused DEF SelectCandidates, Goto
<1>9. CASE \E a \in Accounts : PickAccount(r, a)
  BY <1>0, <1>9, Refused DEF PickAccount, Lease, RunnerMissing, Take, Goto
<1>10. CASE OutOfCandidates(r)
  BY <1>10, Refused DEF OutOfCandidates, Goto
<1>11. CASE Over(r) \/ OverDel(r) \/ SendFailed(r) \/ FailedDel(r)
  <2>1. pc[r] \in {"over", "overDel", "failed", "failedDel"} => acct[r] \in Accounts
    BY DEF AcctKnown, Serving
  <2>2. CASE Over(r)
    BY <1>0, <2>1, <2>2 DEF Over, InlineDecr, GiveBack, Goto
  <2>3. CASE SendFailed(r)
    BY <1>0, <2>1, <2>3 DEF SendFailed, InlineDecr, GiveBack, AfterRelease, Goto
  <2>4. CASE OverDel(r) \/ FailedDel(r)
    BY <2>4 DEF OverDel, FailedDel, InlineDel, AfterRelease, Goto
  <2> QED
    BY <1>11, <2>2, <2>3, <2>4
<1>12. CASE Send(r)
  BY <1>12 DEF Send, Goto
<1>13. CASE MarkUnhealthy(r) \/ Fetch(r) \/ Publish(r) \/ Relay(r)
  <2>1. CASE MarkUnhealthy(r) \/ Fetch(r) \/ Publish(r)
    BY <2>1 DEF MarkUnhealthy, Fetch, Publish, Goto
  <2>2. CASE Relay(r)
    BY <2>2 DEF Relay, Goto
  <2> QED
    BY <1>13, <2>1, <2>2
<1>14. CASE Verdict(r)
  BY <1>14, KeyReleased DEF Verdict, Goto
<1>15. CASE StreamEnd(r) \/ DropObserver(r)
  <2>1. pc[r] \in {"stream", "ended"} /\ pc'[r] \in {"ended", "done"}
        /\ UNCHANGED <<acc, acct, holds>>
    BY <1>15 DEF StreamEnd, DropObserver, Goto
  <2>2. PICK found \in BOOLEAN : Finish(r, found)
    BY <1>15 DEF StreamEnd, DropObserver
  <2>3. CASE observed[r]
    BY <2>1, <2>2, <2>3 DEF Finish, Recorded
  <2>4. CASE ~observed[r]
    <3>1. pc[r] = "stream"
      BY <2>1, <2>4 DEF Recorded
    <3>2. todo'[r][c] = IF c = acct[r] /\ acc[r] THEN todo[r][c] + 1 ELSE ReleaseKey(r)[r][c]
      BY <2>2, <2>4 DEF Finish
    <3> QED
      BY <2>1, <3>1, <3>2, KeyReleased
  <2> QED
    BY <2>3, <2>4
<1>16. CASE \E d \in Counters : TaskDecr(r, d) \/ TaskDel(r, d)
  BY <1>16 DEF TaskDecr, TaskDel, GiveBack
<1>17. CASE StoreResponseId(r)
  BY <1>17 DEF StoreResponseId
<1>18. CASE RedisFails(r)
  BY <1>18 DEF RedisFails, AcquireKeyFails, PickFails, TaskFails
<1>19. CASE Cancel(r) \/ Recycle(r)
  BY <1>19 DEF Cancel, Recycle, Goto
<1> QED
  BY <1>1, <1>2, <1>3, <1>4, <1>5, <1>6, <1>7, <1>8, <1>9, <1>10, <1>11, <1>12, <1>13, <1>14,
     <1>15, <1>16, <1>17, <1>18, <1>19
  DEF OwnStep, Handler, Tasks

\* The key's stages are for limited keys; after a failed send only a POST has a slot to give back.
Routed(r) ==
    /\ pc[r] \in {"key", "keyOver", "keyDel"} => KeyOf[r] \in Limited
    /\ pc[r] = "failed" => acc[r]

LEMMA RoutedStep ==
    ASSUME TypeOK, NEW r \in Requests, Routed(r), OwnStep(r)
    PROVE  Routed(r)'
<1> USE DEF TypeOK, FlowTypeOK, Routed
<1>1. CASE Arrive(r) \/ AcquireKey(r) \/ KeyOver(r) \/ KeyDel(r) \/ ReadBody(r) \/ LookupPin(r)
  BY <1>1
  DEF Arrive, AcquireKey, KeyOver, KeyDel, ReadBody, LookupPin, InlineDecr, InlineDel, Goto, Refuse
<1>2. CASE SelectAny(r) \/ SelectPinned(r) \/ SelectCandidates(r)
  BY <1>2 DEF SelectAny, SelectPinned, SelectCandidates, Lease, RunnerMissing, Goto, Refuse
<1>3. CASE (\E a \in Accounts : PickAccount(r, a)) \/ OutOfCandidates(r) \/ Over(r) \/ OverDel(r)
  BY <1>3
  DEF PickAccount, OutOfCandidates, Over, OverDel, InlineDecr, InlineDel, Lease, RunnerMissing,
      Goto, Refuse
<1>4. CASE Send(r) \/ SendFailed(r) \/ FailedDel(r) \/ MarkUnhealthy(r) \/ Fetch(r) \/ Publish(r)
  BY <1>4
  DEF Send, SendFailed, FailedDel, MarkUnhealthy, Fetch, Publish, InlineDecr, InlineDel,
      AfterRelease, Goto
<1>5. CASE Verdict(r) \/ Relay(r) \/ StreamEnd(r) \/ DropObserver(r)
  BY <1>5 DEF Verdict, Relay, StreamEnd, DropObserver, Goto
<1>6. CASE Tasks(r) \/ RedisFails(r) \/ Cancel(r) \/ Recycle(r)
  BY <1>6
  DEF Tasks, TaskDecr, TaskDel, StoreResponseId, RedisFails, AcquireKeyFails, PickFails,
      TaskFails, Cancel, Recycle, Goto, Refuse
<1> QED
  BY <1>1, <1>2, <1>3, <1>4, <1>5, <1>6 DEF OwnStep, Handler

\* What Redis counts is owed by somebody.
LedgerInv ==
    /\ StageInv
    /\ \A r \in Requests : Recorded(r) /\ Routed(r) /\ \A c \in Counters : Owes(r, c)

LEMMA LedgerInit == Init => LedgerInv
  BY StageInit, ConstFacts
  DEF Init, LedgerInv, Recorded, Routed, Owes, Carries, Carrying, Handling

LEMMA LedgerStep ==
    ASSUME "redis" \notin Env, LedgerInv, [Next]_vars
    PROVE  LedgerInv'
<1>1. StageInv'
  BY StageStep DEF LedgerInv
<1>2. ASSUME NEW r \in Requests
      PROVE  Recorded(r)' /\ Routed(r)' /\ \A c \in Counters : Owes(r, c)'
  <2>1. CASE OwnStep(r)
    BY <2>1, RecordedStep, RoutedStep, OwesStep DEF LedgerInv, StageInv
  <2>2. CASE Kept(r) \/ Stopped(r)
    BY <2>2
    DEF LedgerInv, Kept, Stopped, SameTurn, Recorded, Unanswered, Handling, Routed, Owes,
        Carries, Carrying
  <2> QED
    BY <2>1, <2>2, Frame DEF LedgerInv, StageInv
<1> QED
  BY <1>1, <1>2 DEF LedgerInv
-----------------------------------------------------------------------------
(* A counter and its holders. *)

\* A slot is given back by a holder of it, and no other step takes one off a counter.
LEMMA GivenByHolder ==
    ASSUME LedgerInv, [Next]_vars
    PROVE  \/ \E r \in Requests, c \in Counters : c \in holds[r] /\ GivesSlot(r, c)
           \/ \A c \in Counters : counter'[c] \in {0, counter[c], counter[c] + 1}
<1> DEFINE Given == \E r \in Requests, c \in Counters : c \in holds[r] /\ GivesSlot(r, c)
           Raised == \A c \in Counters : counter'[c] \in {0, counter[c], counter[c] + 1}
<1> USE DEF LedgerInv, StageInv, TypeOK, CountersTypeOK
<1>0. ASSUME NEW r \in Requests, NEW c \in Counters, Owes(r, c), GiveBack(r, c),
             Carries(r, c) \/ todo[r][c] > 0
      PROVE  Given
  <2>1. c \in holds[r]
    BY <1>0 DEF Owes, SlotTypeOK
  <2> QED
    BY <1>0, <2>1 DEF GiveBack, Decr, GivesSlot
<1>1. ASSUME NEW r \in Requests, Handler(r)
      PROVE  Given \/ Raised
  <2>1. CASE KeyOver(r)
    <3>1. KeyOf[r] \in Counters /\ Carries(r, KeyOf[r]) /\ GiveBack(r, KeyOf[r])
      BY <2>1, ConstFacts DEF KeyOver, InlineDecr, Routed, Carries, Carrying, Handling
    <3> QED
      BY <1>0, <3>1
  <2>2. CASE Over(r) \/ SendFailed(r)
    <3>1. acct[r] \in Counters /\ GiveBack(r, acct[r]) /\ pc[r] \in {"over", "failed"}
      BY <2>2, ConstFacts DEF Over, SendFailed, InlineDecr, AcctKnown, Serving
    <3>2. CASE acc[r]
      BY <1>0, <3>1, <3>2 DEF Carries
    <3>3. CASE ~acc[r]
      BY <3>1, <3>3 DEF SlotsFresh, SlotFresh, Routed
    <3> QED
      BY <3>2, <3>3
  <2>3. CASE AcquireKey(r) \/ KeyDel(r) \/ ReadBody(r) \/ LookupPin(r)
    BY <2>3, ConstFacts DEF AcquireKey, KeyDel, ReadBody, LookupPin, InlineDel, Take, Incr, Del
  <2>4. CASE SelectAny(r) \/ SelectPinned(r) \/ SelectCandidates(r) \/ OutOfCandidates(r)
    BY <2>4 DEF SelectAny, SelectPinned, SelectCandidates, OutOfCandidates, Take, Incr
  <2>5. CASE \E a \in Accounts : PickAccount(r, a)
    BY <2>5 DEF PickAccount, Take, Incr
  <2>6. CASE OverDel(r) \/ FailedDel(r) \/ Send(r) \/ MarkUnhealthy(r) \/ Fetch(r) \/ Publish(r)
    BY <2>6 DEF OverDel, FailedDel, InlineDel, Del, Send, MarkUnhealthy, Fetch, Publish
  <2>7. CASE Verdict(r) \/ Relay(r) \/ StreamEnd(r) \/ DropObserver(r)
    BY <2>7 DEF Verdict, Relay, StreamEnd, DropObserver
  <2> QED
    BY <1>1, <2>1, <2>2, <2>3, <2>4, <2>5, <2>6, <2>7 DEF Handler
<1>2. ASSUME NEW r \in Requests, Arrive(r) \/ Tasks(r) \/ RedisFails(r) \/ Cancel(r) \/ Recycle(r)
      PROVE  Given \/ Raised
  <2>1. CASE \E c \in Counters : TaskDecr(r, c)
    BY <1>0, <2>1 DEF TaskDecr
  <2>2. CASE (\E c \in Counters : TaskDel(r, c)) \/ StoreResponseId(r)
    BY <2>2 DEF TaskDel, Del, StoreResponseId
  <2>3. CASE RedisFails(r)
    BY <2>3 DEF RedisFails, AcquireKeyFails, PickFails, TaskFails, Take, Incr
  <2>4. CASE Arrive(r) \/ Cancel(r) \/ Recycle(r)
    BY <2>4 DEF Arrive, Cancel, Recycle
  <2> QED
    BY <1>2, <2>1, <2>2, <2>3, <2>4 DEF Tasks
<1>3. CASE \E p \in Replicas : LoopFetch(p) \/ LoopPublish(p) \/ Crash(p)
  BY <1>3 DEF LoopFetch, LoopPublish, Crash
<1>4. CASE (\E a \in Accounts : StatusChange(a)) \/ Tick \/ UNCHANGED vars
  BY <1>4 DEF StatusChange, Tick, PassTime, vars
<1> QED
  BY <1>1, <1>2, <1>3, <1>4 DEF Next

LEMMA HolderLeaves ==
    ASSUME StageInv, NEW r \in Requests, NEW d \in Counters, d \in holds[r], GivesSlot(r, d),
           NEW c \in Counters
    PROVE  counter'[c] - Cardinality(Holders(c)') = counter[c] - Cardinality(Holders(c))
<1>a. counter \in [Counters -> Int] /\ holds \in [Requests -> SUBSET Counters]
  BY DEF StageInv, TypeOK, CountersTypeOK, SlotTypeOK
<1>1. CASE c = d
  <2>1. Holders(c)' = Holders(c) \ {r} /\ r \in Holders(c)
    BY <1>a, <1>1 DEF GivesSlot, Holders
  <2>2. Cardinality(Holders(c)') = Cardinality(Holders(c)) - 1
    BY <2>1, HoldersFinite, FS_RemoveElement
  <2>3. counter'[c] = counter[c] - 1 /\ counter[c] \in Int
    BY <1>a, <1>1 DEF GivesSlot
  <2> QED
    BY <2>2, <2>3, HoldersFinite
<1>2. CASE c # d
  BY <1>2, GivenCount
<1> QED
  BY <1>1, <1>2

\* A counter and the slots held of it move together, except where Redis drops the counter:
\* unless a command of Redis fails, nothing else makes the two differ, and nothing gives a
\* slot back that it does not hold (cache.rs:34-58, gateway.rs:518-551).  A pinned turn whose
\* INCR fails goes on without a slot, and gives one back all the same.
THEOREM DriftCorrect ==
    ASSUME "redis" \notin Env
    PROVE  Spec => DriftsOnlyWhenDeleted
<1> DEFINE Drift(c) == counter'[c] - Cardinality(Holders(c)') # counter[c] - Cardinality(Holders(c))
<1>1. LedgerInv /\ [Next]_vars => [\A c \in Counters : Drift(c) => counter'[c] = 0]_vars
  <2> SUFFICES ASSUME LedgerInv, [Next]_vars, NEW c \in Counters, Drift(c)
               PROVE  counter'[c] = 0
    OBVIOUS
  <2>0. StageInv /\ SlotEffect
    BY SlotStep DEF LedgerInv
  <2>1. \A d \in Counters : counter'[d] \in {0, counter[d], counter[d] + 1}
    BY <2>0, GivenByHolder, HolderLeaves
  <2>2. counter[c] \in Int
    BY <2>0 DEF StageInv, TypeOK, CountersTypeOK
  <2>3. ASSUME NEW r \in Requests, NEW d \in Counters, TakesSlot(r, d)
        PROVE  FALSE
    BY <2>0, <2>2, <2>3, TakenCount, HoldersFinite
  <2>4. ASSUME NEW r \in Requests, NEW d \in Counters, GivesSlot(r, d)
        PROVE  counter'[c] = 0
    BY <2>0, <2>1, <2>2, <2>4, GivenCount
  <2>5. CASE ForgetsSlots
    BY <2>5 DEF ForgetsSlots, Holders
  <2> QED
    BY <2>0, <2>3, <2>4, <2>5 DEF SlotEffect
<1> QED
  BY LedgerInit, LedgerStep, <1>1, PTL DEF Spec, DriftsOnlyWhenDeleted
-----------------------------------------------------------------------------
(* What is held is owed. *)

\* Whatever is held is carried by the handler or on its way back, unless the request was cut off.
Accounted(r, c) ==
    c \in holds[r] => pc[r] = "gone" \/ Carries(r, c) \/ todo[r][c] = 1

LEMMA AccountedStep ==
    ASSUME Env \cap {"redis", "runner"} = {}, StageInv, NEW r \in Requests, Recorded(r), Routed(r),
           OwnStep(r), NEW c \in Counters, Owes(r, c), Accounted(r, c)
    PROVE  Accounted(r, c)'
<1> USE DEF StageInv, TypeOK, FlowTypeOK, SlotTypeOK, ResultTypeOK, Accounted, Owes, Carries,
            Carrying, Handling
<1>0. KeyOf[r] \notin Accounts /\ KeyOf[r] \in Counters /\ Accounts \subseteq Counters
  BY ConstFacts
<1>1. CASE Arrive(r)
  BY <1>1 DEF Arrive, Goto
<1>2. CASE AcquireKey(r)
  BY <1>2 DEF AcquireKey, Take, Goto, Routed
<1>3. CASE KeyOver(r) \/ KeyDel(r)
  BY <1>3 DEF KeyOver, KeyDel, InlineDecr, InlineDel, GiveBack, Goto
<1>4. CASE ReadBody(r)
  BY <1>4, Refused DEF ReadBody, Goto
<1>5. CASE LookupPin(r)
  BY <1>5 DEF LookupPin, Goto
<1>6. CASE SelectAny(r)
  BY <1>6, Refused DEF SelectAny, Lease, RunnerMissing, Goto
<1>7. CASE SelectPinned(r)
  BY <1>0, <1>7, Refused DEF SelectPinned, Lease, RunnerMissing, Take, Goto
<1>8. CASE SelectCandidates(r)
  BY <1>8, Refused DEF SelectCandidates, Goto
<1>9. CASE \E a \in Accounts : PickAccount(r, a)
  BY <1>0, <1>9, Refused DEF PickAccount, Lease, RunnerMissing, Take, Goto, SlotsFresh, SlotFresh
<1>10. CASE OutOfCandidates(r)
  BY <1>10, Refused DEF OutOfCandidates, Goto
<1>11. CASE Over(r) \/ OverDel(r) \/ SendFailed(r) \/ FailedDel(r)
  <2>1. CASE Over(r)
    BY <1>0, <2>1 DEF Over, InlineDecr, GiveBack, Goto
  <2>2. CASE SendFailed(r)
    BY <1>0, <2>2 DEF SendFailed, InlineDecr, GiveBack, AfterRelease, Goto
  <2>3. CASE OverDel(r) \/ FailedDel(r)
    BY <2>3 DEF OverDel, FailedDel, InlineDel, AfterRelease, Goto
  <2> QED
    BY <1>11, <2>1, <2>2, <2>3
<1>12. CASE Send(r)
  BY <1>12 DEF Send, Goto
<1>13. CASE MarkUnhealthy(r) \/ Fetch(r) \/ Publish(r) \/ Relay(r)
  BY <1>13 DEF MarkUnhealthy, Fetch, Publish, Relay, Goto
<1>14. CASE Verdict(r)
  BY <1>14, KeyReleased DEF Verdict, Goto
<1>15. CASE StreamEnd(r) \/ DropObserver(r)
  <2>1. pc[r] \in {"stream", "ended"} /\ UNCHANGED <<acc, acct, holds>>
    BY <1>15 DEF StreamEnd, DropObserver, Goto
  <2>2. PICK found \in BOOLEAN : Finish(r, found)
    BY <1>15 DEF StreamEnd, DropObserver
  <2>3. CASE observed[r]
    BY <2>1, <2>2, <2>3 DEF Finish, Recorded
  <2>4. CASE ~observed[r]
    <3>1. todo'[r][c] = IF c = acct[r] /\ acc[r] THEN todo[r][c] + 1 ELSE ReleaseKey(r)[r][c]
      BY <2>2, <2>4 DEF Finish
    <3> QED
      BY <2>1, <2>4, <3>1, KeyReleased DEF Recorded
  <2> QED
    BY <2>3, <2>4
<1>16. CASE \E d \in Counters : TaskDecr(r, d) \/ TaskDel(r, d)
  BY <1>16 DEF TaskDecr, TaskDel, GiveBack
<1>17. CASE StoreResponseId(r)
  BY <1>17 DEF StoreResponseId
<1>18. CASE RedisFails(r)
  BY <1>18 DEF RedisFails, AcquireKeyFails, PickFails, TaskFails
<1>19. CASE Cancel(r) \/ Recycle(r)
  BY <1>19 DEF Cancel, Recycle, Goto
<1> QED
  BY <1>1, <1>2, <1>3, <1>4, <1>5, <1>6, <1>7, <1>8, <1>9, <1>10, <1>11, <1>12, <1>13, <1>14,
     <1>15, <1>16, <1>17, <1>18, <1>19
  DEF OwnStep, Handler, Tasks

\* A request that is done has given back all it took once its tasks are through, by whatever
\* return of the handler: with commands of Redis that succeed, and an account in the
\* snapshot only with its runner (gateway.rs:220-418).
THEOREM ReturnCorrect ==
    ASSUME Env \cap {"redis", "runner"} = {}
    PROVE  Spec => []SlotsReturned
<1> DEFINE Inv == LedgerInv /\ \A r \in Requests, c \in Counters : Accounted(r, c)
<1>1. Init => Inv
  BY LedgerInit DEF Init, Accounted
<1>2. Inv /\ [Next]_vars => Inv'
  <2> SUFFICES ASSUME Inv, [Next]_vars, NEW r \in Requests, NEW c \in Counters
               PROVE  Accounted(r, c)'
    BY LedgerStep
  <2>1. CASE OwnStep(r)
    BY <2>1, AccountedStep DEF LedgerInv
  <2>2. CASE Kept(r) \/ Stopped(r)
    BY <2>2 DEF Kept, Stopped, SameTurn, Accounted, Carries
  <2> QED
    BY <2>1, <2>2, Frame DEF LedgerInv, StageInv
<1>3. Inv => SlotsReturned
  <2> SUFFICES ASSUME Inv, NEW r \in Requests, pc[r] = "done", Quiet(r), NEW c \in holds[r]
               PROVE  FALSE
    BY DEF SlotsReturned
  <2>1. c \in Counters /\ todo[r][c] = 0
    BY DEF LedgerInv, StageInv, TypeOK, SlotTypeOK, Quiet
  <2>2. ~Carries(r, c)
    BY DEF Carries, Carrying, Handling
  <2> QED
    BY <2>1, <2>2 DEF Accounted
<1> QED
  BY <1>1, <1>2, <1>3, PTL DEF Spec
-----------------------------------------------------------------------------
(* Session tokens. *)

Session(q) == <<"sess", q>>

\* A session's token is stored before the client has it, and made by the relay of its request.
SessionStored(q) ==
    "sess" \in Kinds =>
        /\ sticky[Session(q)] = issued[Session(q)]
        /\ pc[q] \in Handling \cup {"idle"} => issued[Session(q)] = None

\* A request carries a token that was issued, and is pinned by it once it has been looked up.
Pinned(r) ==
    tok[r] # None =>
        /\ issued[tok[r]] # None
        /\ tok[r][1] = "sess" /\ acc[r] /\ pc[r] \in {"select", "pick"} \cup Serving
              => pinned[r] = issued[tok[r]]

\* What a step can do to the token of q's session.
SessionEffect(q) ==
    \/ issued'[Session(q)] = issued[Session(q)] /\ sticky'[Session(q)] = sticky[Session(q)]
    \/ /\ pc[q] = "relay" /\ pc'[q] = "stream"
       /\ issued'[Session(q)] = acct[q] /\ sticky'[Session(q)] = acct[q]
    \/ Recycle(q) /\ issued'[Session(q)] = None /\ sticky'[Session(q)] = None

\* A step that touches neither table of tokens.
Untouched == UNCHANGED <<sticky, issued>>

LEMMA TokensTouched ==
    ASSUME [Next]_vars
    PROVE  \/ Untouched
           \/ \E r \in Requests : Relay(r) \/ StreamEnd(r) \/ StoreResponseId(r) \/ Recycle(r)
<1> USE DEF Untouched
<1>1. ASSUME NEW r \in Requests, Handler(r), ~Relay(r), ~StreamEnd(r)
      PROVE  Untouched
  <2>1. CASE AcquireKey(r) \/ KeyOver(r) \/ KeyDel(r) \/ ReadBody(r) \/ LookupPin(r) \/ Over(r)
              \/ OverDel(r) \/ SendFailed(r) \/ FailedDel(r)
    BY <2>1
    DEF AcquireKey, KeyOver, KeyDel, ReadBody, LookupPin, Over, OverDel, SendFailed, FailedDel,
        InlineDecr, InlineDel
  <2>2. CASE SelectAny(r) \/ SelectPinned(r) \/ SelectCandidates(r) \/ OutOfCandidates(r)
              \/ \E a \in Accounts : PickAccount(r, a)
    BY <2>2 DEF SelectAny, SelectPinned, SelectCandidates, OutOfCandidates, PickAccount
  <2>3. CASE Send(r) \/ MarkUnhealthy(r) \/ Fetch(r) \/ Publish(r) \/ Verdict(r) \/ DropObserver(r)
    BY <2>3 DEF Send, MarkUnhealthy, Fetch, Publish, Verdict, DropObserver
  <2> QED
    BY <1>1, <2>1, <2>2, <2>3 DEF Handler
<1>2. ASSUME NEW r \in Requests, Arrive(r) \/ Tasks(r) \/ RedisFails(r) \/ Cancel(r),
             ~StoreResponseId(r)
      PROVE  Untouched
  BY <1>2
  DEF Arrive, Tasks, TaskDecr, TaskDel, RedisFails, AcquireKeyFails, PickFails, TaskFails, Cancel
<1>3. CASE \E p \in Replicas : LoopFetch(p) \/ LoopPublish(p) \/ Crash(p)
  BY <1>3 DEF LoopFetch, LoopPublish, Crash
<1>4. CASE (\E a \in Accounts : StatusChange(a)) \/ Tick \/ UNCHANGED vars
  BY <1>4 DEF StatusChange, Tick, vars
<1> QED
  BY <1>1, <1>2, <1>3, <1>4 DEF Next

LEMMA SessionStep ==
    ASSUME StageInv, [Next]_vars, NEW q \in Requests, "sess" \in Kinds
    PROVE  SessionEffect(q)
<1> USE DEF StageInv, TypeOK, FlowTypeOK, PoolTypeOK, SessionEffect, Session
<1>0. Session(q) \in Tokens /\ \A r \in Requests : Session(q) # <<"resp", r>>
  BY DEF Tokens
<1>1. ASSUME NEW r \in Requests, Relay(r)
      PROVE  SessionEffect(q)
  BY <1>0, <1>1, SMTT(30) DEF Relay, Goto
<1>2. ASSUME NEW r \in Requests, StreamEnd(r) \/ StoreResponseId(r)
      PROVE  SessionEffect(q)
  BY <1>0, <1>2 DEF StreamEnd, StoreResponseId
<1>3. ASSUME NEW r \in Requests, Recycle(r)
      PROVE  SessionEffect(q)
  BY <1>0, <1>3 DEF Recycle
<1>4. CASE Untouched
  BY <1>4 DEF Untouched
<1> QED
  BY <1>1, <1>2, <1>3, <1>4, TokensTouched

\* A token is never taken back, but with the request that made it.
LEMMA TokenKept ==
    ASSUME StageInv, [Next]_vars, NEW t \in Tokens, issued[t] # None
    PROVE  issued'[t] # None \/ \E q \in Requests : Recycle(q) /\ t \in Kinds \X {q}
<1> USE DEF StageInv, TypeOK, PoolTypeOK
<1>1. ASSUME NEW r \in Requests, Relay(r) \/ StreamEnd(r)
      PROVE  issued'[t] # None
  <2>1. acct[r] # None
    BY <1>1, ConstFacts DEF Relay, StreamEnd, AcctKnown, Serving
  <2> QED
    BY <1>1, <2>1 DEF Relay, StreamEnd
<1>2. ASSUME NEW r \in Requests, StoreResponseId(r)
      PROVE  issued'[t] # None
  BY <1>2 DEF StoreResponseId
<1>3. ASSUME NEW r \in Requests, Recycle(r)
      PROVE  issued'[t] # None \/ t \in Kinds \X {r}
  BY <1>3 DEF Recycle, Tokens
<1>4. CASE Untouched
  BY <1>4 DEF Untouched
<1> QED
  BY <1>1, <1>2, <1>3, <1>4, TokensTouched

\* A request is taken up only as a new one.
LEMMA TakenUp ==
    ASSUME TypeOK, NEW r \in Requests, OwnStep(r), pc'[r] \in Handling \cup {"idle"}
    PROVE  pc[r] \in Handling \cup {"idle"} \/ Recycle(r)
<1> USE DEF TypeOK, FlowTypeOK, Handling
<1>1. CASE Handler(r)
  <2>1. CASE StreamEnd(r) \/ DropObserver(r)
    BY <2>1 DEF StreamEnd, DropObserver, Goto
  <2> QED
    BY <1>1, <2>1
    DEF Handler, AcquireKey, KeyOver, KeyDel, ReadBody, LookupPin, SelectAny, SelectPinned,
        SelectCandidates, PickAccount, OutOfCandidates, Over, OverDel, Send, SendFailed, FailedDel,
        MarkUnhealthy, Fetch, Publish, Verdict, Relay, InlineDecr, InlineDel
<1>2. CASE Arrive(r) \/ Tasks(r) \/ RedisFails(r) \/ Cancel(r)
  BY <1>2
  DEF Arrive, Tasks, TaskDecr, TaskDel, StoreResponseId, RedisFails, AcquireKeyFails, PickFails,
      TaskFails, Cancel
<1> QED
  BY <1>1, <1>2 DEF OwnStep

\* Past the lookup a request keeps its token and what the token said.
LEMMA PinStays ==
    ASSUME TypeOK, NEW r \in Requests, OwnStep(r), ~Arrive(r), ~LookupPin(r), ~Recycle(r)
    PROVE  /\ tok'[r] = tok[r] /\ acc'[r] = acc[r] /\ pinned'[r] = pinned[r]
           /\ acc[r] /\ pc'[r] \in {"select", "pick"} \cup Serving
                => pc[r] \in {"select", "pick"} \cup Serving
<1> USE DEF TypeOK, FlowTypeOK, Serving
<1>1. CASE AcquireKey(r) \/ KeyOver(r) \/ KeyDel(r) \/ ReadBody(r)
  BY <1>1 DEF AcquireKey, KeyOver, KeyDel, ReadBody, InlineDecr, InlineDel, Goto, Refuse
<1>2. CASE \/ SelectAny(r) \/ SelectPinned(r) \/ SelectCandidates(r) \/ OutOfCandidates(r)
           \/ \E a \in Accounts : PickAccount(r, a)
  BY <1>2 DEF SelectAny, SelectPinned, SelectCandidates, OutOfCandidates, PickAccount
<1>3. CASE \/ Over(r) \/ OverDel(r) \/ Send(r) \/ SendFailed(r) \/ FailedDel(r) \/ MarkUnhealthy(r)
           \/ Fetch(r) \/ Publish(r) \/ Verdict(r) \/ Relay(r) \/ StreamEnd(r) \/ DropObserver(r)
  BY <1>3
  DEF Over, OverDel, Send, SendFailed, FailedDel, MarkUnhealthy, Fetch, Publish, Verdict, Relay,
      StreamEnd, DropObserver, InlineDecr, InlineDel
<1>4. CASE Tasks(r) \/ RedisFails(r) \/ Cancel(r)
  BY <1>4
  DEF Tasks, TaskDecr, TaskDel, StoreResponseId, RedisFails, AcquireKeyFails, PickFails, TaskFails,
      Cancel, Goto, Refuse
<1> QED
  BY <1>1, <1>2, <1>3, <1>4 DEF OwnStep, Handler

PinInv ==
    /\ StageInv
    /\ \A r \in Requests : RetryOK(r) /\ SessionStored(r) /\ Pinned(r)

LEMMA SessionStoredStep ==
    ASSUME PinInv, [Next]_vars, NEW q \in Requests
    PROVE  SessionStored(q)'
<1> SUFFICES ASSUME "sess" \in Kinds
             PROVE  /\ sticky'[Session(q)] = issued'[Session(q)]
                    /\ pc'[q] \in Handling \cup {"idle"} => issued'[Session(q)] = None
  BY DEF SessionStored, Session
<1>0. SessionStored(q) /\ TypeOK
  BY DEF PinInv, StageInv
<1>1. SessionEffect(q)
  BY SessionStep DEF PinInv
<1>2. pc'[q] \in Handling \cup {"idle"} => pc[q] \in Handling \cup {"idle"} \/ Recycle(q)
  BY <1>0, Frame, TakenUp DEF Kept, Stopped, Handling
<1>3. Recycle(q) => issued'[Session(q)] = None
  BY <1>0 DEF Recycle, Session, Tokens
<1> QED
  BY <1>0, <1>1, <1>2, <1>3 DEF SessionEffect, SessionStored, Handling

LEMMA PinnedStep ==
    ASSUME "redis" \notin Env, PinInv, [Next]_vars, NEW r \in Requests
    PROVE  Pinned(r)'
<1>0. StageInv /\ TypeOK /\ Pinned(r)
  BY DEF PinInv, StageInv
<1>1. ASSUME tok[r] # None
      PROVE  /\ issued'[tok[r]] # None
             /\ tok[r][1] = "sess" => issued'[tok[r]] = issued[tok[r]]
                                     /\ sticky[tok[r]] = issued[tok[r]]
  <2>1. tok[r] \in Tokens /\ issued[tok[r]] # None
    BY <1>0, <1>1 DEF TypeOK, FlowTypeOK, Pinned
  <2>2. \A q \in Requests : Recycle(q) => tok[r] \notin Kinds \X {q}
    BY DEF Recycle
  <2>3. issued'[tok[r]] # None
    BY <1>0, <2>1, <2>2, TokenKept
  <2>4. ASSUME tok[r][1] = "sess"
        PROVE  issued'[tok[r]] = issued[tok[r]] /\ sticky[tok[r]] = issued[tok[r]]
    <3>1. PICK q \in Requests : tok[r] = Session(q) /\ "sess" \in Kinds
      BY <2>1, <2>4 DEF Tokens, Session
    <3>2. SessionEffect(q) /\ SessionStored(q)
      BY <1>0, <3>1, SessionStep DEF PinInv
    <3> QED
      BY <2>1, <2>3, <3>1, <3>2 DEF SessionEffect, SessionStored, Handling
  <2> QED
    BY <2>3, <2>4
<1>2. CASE Arrive(r)
  <2>1. UNCHANGED issued /\ pc'[r] \in {"key", "body"}
        /\ (tok'[r] = None \/ issued[tok'[r]] # None)
    BY <1>0, <1>2 DEF Arrive, Goto, TypeOK, FlowTypeOK
  <2> QED
    BY <2>1 DEF Pinned, Serving
<1>3. CASE LookupPin(r)
  <2>1. UNCHANGED <<tok, acc, issued>> /\ pinned'[r] = IF tok[r] = None THEN None ELSE sticky[tok[r]]
    BY <1>0, <1>3 DEF LookupPin, TypeOK, FlowTypeOK
  <2> QED
    BY <1>0, <1>1, <2>1 DEF Pinned
<1>4. CASE Recycle(r)
  <2>1. tok'[r] = None
    BY <1>0, <1>4 DEF Recycle, TypeOK, FlowTypeOK
  <2> QED
    BY <2>1 DEF Pinned
<1>5. CASE /\ tok'[r] = tok[r] /\ acc'[r] = acc[r] /\ pinned'[r] = pinned[r]
           /\ acc[r] /\ pc'[r] \in {"select", "pick"} \cup Serving
                => pc[r] \in {"select", "pick"} \cup Serving
  BY <1>0, <1>1, <1>5 DEF Pinned
<1>6. Kept(r) \/ Stopped(r) => /\ tok'[r] = tok[r] /\ acc'[r] = acc[r] /\ pinned'[r] = pinned[r]
                               /\ pc'[r] \in {pc[r], "gone"}
  BY DEF Kept, Stopped, SameTurn
<1> QED
  BY <1>0, <1>2, <1>3, <1>4, <1>5, <1>6, Frame, PinStays DEF Serving

LEMMA PinInit == Init => PinInv
<1> SUFFICES ASSUME Init PROVE PinInv
  OBVIOUS
<1>1. IsFiniteSet({}) /\ Cardinality({}) = 0
  BY FS_EmptySet
<1>2. \A r \in Requests : RetryOK(r) /\ Pinned(r)
  BY <1>1, SetsAssumption DEF Init, RetryOK, Pinned, Handling, Serving
<1>3. \A q \in Requests : SessionStored(q)
  BY DEF Init, SessionStored, Session, Tokens
<1> QED
  BY <1>2, <1>3, StageInit DEF PinInv

LEMMA PinStep ==
    ASSUME "redis" \notin Env, PinInv, [Next]_vars
    PROVE  PinInv'
<1>1. StageInv' /\ TypeOK
  BY StageStep DEF PinInv, StageInv
<1>2. ASSUME NEW r \in Requests
      PROVE  RetryOK(r)'
  <2>1. CASE Kept(r) \/ Stopped(r)
    BY <2>1 DEF PinInv, Kept, Stopped, SameTurn, RetryOK, Handling, Serving
  <2> QED
    BY <1>1, <2>1, Frame, RetryStep DEF PinInv
<1> QED
  BY <1>1, <1>2, SessionStoredStep, PinnedStep DEF PinInv

\* A conversation that shows its session's token is answered by the account that began it,
\* or refused: unless Redis fails the lookup, no retry, crash or stale snapshot moves it, and
\* no relay in between makes the token mean another account (gateway.rs:300-312, 385-395).
THEOREM SessionCorrect ==
    ASSUME "redis" \notin Env
    PROVE  Spec => []SessionPinned
<1>1. PinInv => SessionPinned
  <2> SUFFICES ASSUME PinInv, NEW r \in Requests, tok[r] # None, tok[r][1] = "sess", acc[r],
                      pc[r] \in {"send", "relay", "stream"}
               PROVE  acct[r] = issued[tok[r]]
    BY DEF SessionPinned, PinnedToIssuer
  <2>1. issued[tok[r]] # None /\ pinned[r] = issued[tok[r]] /\ pinned[r] \in {None, acct[r]}
    BY DEF PinInv, Pinned, RetryOK, Serving
  <2> QED
    BY <2>1
<1> QED
  BY PinInit, PinStep, <1>1, PTL DEF Spec
=============================================================================
