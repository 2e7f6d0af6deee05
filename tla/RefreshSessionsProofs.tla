------------------------ MODULE RefreshSessionsProofs ------------------------
(* One session per login and the end of a replayed family, for any number  *)
(* of tabs, requests, logins and sessions. What has to be added is where    *)
(* an exchange stands: one that has found its token live is alone with its  *)
(* login and knows its only live session, and once it has rotated the token *)
(* there is none until it has issued the next. Then TokenWorks, from who    *)
(* knows a token: it is held by one tab and presented by that tab alone.    *)
EXTENDS RefreshSessions, SequenceTheorems, TLAPS

Active == Rotating \union Issuing
Of(r) == LoginOf(exchange[r].token)

AwaitedByOne == \A t, u \in Tabs : waiting[t] = waiting[u] /\ waiting[t] # None => t = u

OneExchange == \A r, q \in Active : Of(r) = Of(q) /\ Of(r) \notin raced => r = q
RotatingHasTheSession ==
    \A r \in Rotating : \A s \in Sessions :
        Live(s) /\ LoginOf(s) = Of(r) /\ Of(r) \notin raced => s = exchange[r].token
IssuingHasNone ==
    \A r \in Issuing : \A s \in Sessions : LoginOf(s) = Of(r) /\ Of(r) \notin raced => ~Live(s)
EndedIsQuiet == \A r \in Active : Of(r) \notin ended

Families ==
    /\ OneExchange /\ RotatingHasTheSession /\ IssuingHasNone /\ EndedIsQuiet
    /\ OneSessionPerLogin /\ ReplayEndsFamily

IInv == TypeOK /\ AwaitedByOne /\ Families

-----------------------------------------------------------------------------
(* The types.                                                               *)

\* A request whose answer is given is free only if nobody waits for it.
LEMMA AnswerTypes ==
    ASSUME TypeOK, NEW r \in Requests, r \in Handled,
           NEW answer \in [step : {"ok", "refused"}, token : Nat], Answer(r, answer),
           answer = Refused \/ answer.token \in Sessions', Sessions \subseteq Sessions',
           UNCHANGED waiting
    PROVE  /\ exchange' \in [Requests -> [step : Steps, token : Tokens']]
           /\ \A q \in Requests : exchange'[q] \notin {Free, Refused} => exchange'[q].token \in Sessions'
           /\ \A t \in Tabs : waiting'[t] # None => exchange'[waiting'[t]].step # "free"
<1> USE DEF TypeOK
<1>1. Tokens \subseteq Tokens' /\ answer.token \in Tokens'
  BY DEF Tokens, Refused
<1>2. Free \in [step : Steps, token : Tokens'] /\ answer \in [step : Steps, token : Tokens']
  BY <1>1 DEF Free, Steps, Tokens
<1>3. \A q \in Requests : q # r => exchange'[q] = exchange[q]
  BY DEF Answer
<1>4. exchange'[r] = IF \E t \in Tabs : waiting[t] = r THEN answer ELSE Free
  BY DEF Answer
<1>5. exchange' \in [Requests -> [step : Steps, token : Tokens']]
  BY <1>1, <1>2 DEF Answer
<1>6. \A q \in Requests : exchange'[q] \notin {Free, Refused} => exchange'[q].token \in Sessions'
  BY <1>3, <1>4
<1>7. \A t \in Tabs : waiting'[t] # None => exchange'[waiting'[t]].step # "free"
  BY <1>3, <1>4
<1> QED BY <1>5, <1>6, <1>7

\* A request that goes on keeps its token.
LEMMA GotoTypes ==
    ASSUME TypeOK, NEW r \in Requests, r \in Handled, NEW step \in Steps \ {"free", "refused"},
           Goto(r, step), Sessions' = Sessions, UNCHANGED waiting
    PROVE  /\ exchange' \in [Requests -> [step : Steps, token : Tokens']]
           /\ \A q \in Requests : exchange'[q] \notin {Free, Refused} => exchange'[q].token \in Sessions'
           /\ \A t \in Tabs : waiting'[t] # None => exchange'[waiting'[t]].step # "free"
<1> USE DEF TypeOK
<1>1. Tokens' = Tokens
  BY DEF Tokens
<1>2. exchange'[r].step = step /\ exchange'[r].token = exchange[r].token
  BY DEF Goto
<1>3. \A q \in Requests : q # r => exchange'[q] = exchange[q]
  BY DEF Goto
<1>4. exchange[r] \notin {Free, Refused}
  BY DEF Handled, Free, Refused
<1>5. exchange' \in [Requests -> [step : Steps, token : Tokens']]
  BY <1>1 DEF Goto
<1> QED BY <1>2, <1>3, <1>4, <1>5

Row(n) == [login : 1..n, revoked : BOOLEAN, expired : BOOLEAN]

\* What appending a row and changing the rows do to the sequence.
LEMMA AppendRow ==
    ASSUME NEW n \in Nat, rows \in Seq(Row(n)), NEW m \in Nat, n <= m, NEW login \in 1..m,
           rows' = Append(rows, NewRow(login))
    PROVE  /\ rows' \in Seq(Row(m)) /\ Len(rows') = Len(rows) + 1
           /\ Sessions \subseteq Sessions' /\ Len(rows') \in Sessions'
           /\ \A s \in Sessions' : s \notin Sessions => s = Len(rows')
           /\ \A s \in Sessions : rows'[s] = rows[s]
           /\ rows'[Len(rows')] = NewRow(login)
<1>1. Row(n) \subseteq Row(m)
  BY DEF Row
<1>2. rows \in Seq(Row(m))
  BY <1>1, SeqMonotonic
<1>3. NewRow(login) \in Row(m)
  BY DEF Row, NewRow
<1> QED BY <1>2, <1>3 DEF Sessions

LEMMA UpdateRows ==
    ASSUME NEW n \in Nat, rows \in Seq(Row(n)),
           NEW f \in [Sessions -> Row(n)], rows' = f
    PROVE  rows' \in Seq(Row(n)) /\ Len(rows') = Len(rows) /\ Sessions' = Sessions
<1>1. Len(rows) \in Nat
  OBVIOUS
<1>2. f \in Seq(Row(n)) /\ Len(f) = Len(rows)
  BY <1>1 DEF Sessions
<1> QED BY <1>2 DEF Sessions

\* Every step of the server and of a tab keeps the types.
LEMMA ServerTypes == TypeOK /\ ServerStep => TypeOK'
<1> SUFFICES ASSUME TypeOK, ServerStep PROVE TypeOK'
  OBVIOUS
<1>1. rows \in Seq(Row(logins)) /\ Len(rows) \in Nat
  BY DEF TypeOK, Row
<1>2. \A s \in Sessions : rows[s] \in Row(logins)
  BY <1>1, ElementOfSeq DEF Sessions
<1>3. \A r \in Handled : exchange[r].token \in Sessions
  BY DEF TypeOK, Handled, Free, Refused
<1>4. Refused \in [step : {"ok", "refused"}, token : Nat]
  BY DEF Refused, NoToken
<1>5. ASSUME NEW r \in Requests, Find(r) PROVE TypeOK'
  <2>1. r \in Handled /\ Sessions' = Sessions /\ Tokens' = Tokens
    BY <1>5 DEF Find, Handled, Sessions, Tokens
  <2>2. CASE Refuse(r) /\ UNCHANGED raced
    BY <1>4, <1>5, <2>1, <2>2, AnswerTypes DEF Find, Refuse, TypeOK, clientVars
  <2>3. CASE Goto(r, "revoke") /\ UNCHANGED raced
    BY <1>5, <2>1, <2>3, GotoTypes DEF Find, TypeOK, clientVars, Steps
  <2>4. CASE Goto(r, "rotate")
    <3>1. LoginOf(exchange[r].token) \in 1..logins
      BY <1>2, <1>3, <2>1 DEF LoginOf, Row
    <3>2. raced' \subseteq 1..logins'
      BY <1>5, <3>1 DEF Find, TypeOK
    <3> QED BY <1>5, <2>1, <2>4, <3>2, GotoTypes DEF Find, TypeOK, clientVars, Steps
  <2> QED BY <1>5, <2>2, <2>3, <2>4 DEF Find
<1>6. ASSUME NEW r \in Requests, RevokeAllSessions(r) PROVE TypeOK'
  <2>1. r \in Handled
    BY <1>6 DEF RevokeAllSessions, Handled
  <2>2. rows' \in [Sessions -> Row(logins)]
    BY <1>2, <1>6 DEF RevokeAllSessions, Row
  <2>3. rows' \in Seq(Row(logins)) /\ Sessions' = Sessions /\ Tokens' = Tokens
    BY <1>1, <2>2, UpdateRows DEF TypeOK, Tokens
  <2>4. ended' \subseteq 1..logins'
    BY <1>6 DEF RevokeAllSessions, TypeOK
  <2> QED
    BY <1>4, <1>6, <2>1, <2>3, <2>4, AnswerTypes DEF RevokeAllSessions, Refuse, TypeOK, clientVars, Row
<1>7. ASSUME NEW r \in Requests, Rotate(r) PROVE TypeOK'
  <2>1. r \in Handled
    BY <1>7 DEF Rotate, Handled
  <2>2. rows' \in [Sessions -> Row(logins)]
    BY <1>1, <1>2, <1>3, <1>7, <2>1, LenProperties DEF Rotate, Row, Sessions
  <2>3. rows' \in Seq(Row(logins)) /\ Sessions' = Sessions /\ Tokens' = Tokens
    BY <1>1, <2>2, UpdateRows DEF TypeOK, Tokens
  <2> QED
    BY <1>7, <2>1, <2>3, GotoTypes DEF Rotate, TypeOK, clientVars, history, Row, Steps
<1>8. ASSUME NEW r \in Requests, Issue(r) PROVE TypeOK'
  <2>1. r \in Handled
    BY <1>8 DEF Issue, Handled
  <2>2. LoginOf(exchange[r].token) \in 1..logins
    BY <1>2, <1>3, <2>1 DEF LoginOf, Row
  <2>3. rows' \in Seq(Row(logins)) /\ Len(rows') = Len(rows) + 1 /\ Sessions \subseteq Sessions'
        /\ Len(rows') \in Sessions'
    <3>1. logins \in Nat /\ logins <= logins
      BY DEF TypeOK
    <3>2. rows' = Append(rows, NewRow(LoginOf(exchange[r].token)))
      BY <1>8 DEF Issue
    <3> QED BY ONLY <1>1, <2>2, <3>1, <3>2, AppendRow
  <2>4. Tokens \subseteq Tokens'
    BY <2>3 DEF Tokens
  <2>5. [step |-> "ok", token |-> Len(rows) + 1] \in [step : {"ok", "refused"}, token : Nat]
    BY <1>1
  <2> QED
    BY <1>8, <2>1, <2>3, <2>4, <2>5, AnswerTypes DEF Issue, TypeOK, clientVars, history, Row
<1>9. ASSUME NEW r \in Requests, Fail(r) PROVE TypeOK'
  <2>1. Sessions' = Sessions /\ Tokens' = Tokens
    BY <1>9 DEF Fail, Sessions, Tokens
  <2> QED
    BY <1>4, <1>9, <2>1, AnswerTypes DEF Fail, Refuse, TypeOK, clientVars, history
<1>10. ASSUME NEW s \in Sessions, Expire(s) PROVE TypeOK'
  <2>1. rows' \in [Sessions -> Row(logins)]
    BY <1>1, <1>2, <1>10, LenProperties DEF Expire, Row, Sessions
  <2>2. rows' \in Seq(Row(logins)) /\ Sessions' = Sessions /\ Tokens' = Tokens
    BY <1>1, <2>1, UpdateRows DEF TypeOK, Tokens
  <2> QED
    BY <1>10, <2>2 DEF Expire, TypeOK, clientVars, history, Row
<1>11. CASE Crash
  <2>1. Sessions' = Sessions /\ Tokens' = Tokens
    BY <1>11 DEF Crash, Sessions, Tokens
  <2>2. Free \in [step : Steps, token : Tokens]
    BY DEF Free, Steps, Tokens
  <2> QED
    BY <1>11, <2>1, <2>2, NoneAssumption DEF Crash, TypeOK
<1> QED
  BY <1>5, <1>6, <1>7, <1>8, <1>9, <1>10, <1>11 DEF ServerStep

\* An exchange that is abandoned is awaited by nobody else.
LEMMA AbandonedTypes ==
    ASSUME TypeOK, AwaitedByOne, NEW t \in Tabs, Abandoned(t), Sessions' = Sessions
    PROVE  /\ exchange' \in [Requests -> [step : Steps, token : Tokens']]
           /\ \A q \in Requests : exchange'[q] \notin {Free, Refused} => exchange'[q].token \in Sessions'
           /\ waiting' \in [Tabs -> Requests \union {None}]
           /\ \A u \in Tabs : waiting'[u] # None => exchange'[waiting'[u]].step # "free"
           /\ lost' \in BOOLEAN /\ AwaitedByOne'
<1> USE DEF TypeOK, AwaitedByOne
<1>1. Tokens' = Tokens /\ Free \in [step : Steps, token : Tokens]
  BY DEF Tokens, Free, Steps
<1>2. /\ waiting' \in [Tabs -> Requests \union {None}] /\ waiting'[t] = None
      /\ \A u \in Tabs : u # t => waiting'[u] = waiting[u]
  BY DEF Abandoned
<1>3. \A q \in Requests : exchange'[q] \in {Free, exchange[q]} /\ (waiting[t] # q => exchange'[q] = exchange[q])
  BY DEF Abandoned
<1>4. exchange' \in [Requests -> [step : Steps, token : Tokens']]
  BY <1>1 DEF Abandoned
<1>5. \A u \in Tabs : waiting'[u] # None => exchange'[waiting'[u]].step # "free"
  BY <1>2, <1>3
<1>6. AwaitedByOne' /\ lost' \in BOOLEAN
  BY <1>2 DEF Abandoned
<1> QED BY <1>2, <1>3, <1>4, <1>5, <1>6

LEMMA TabTypes == TypeOK /\ AwaitedByOne /\ TabStep => TypeOK' /\ AwaitedByOne'
<1> SUFFICES ASSUME TypeOK, AwaitedByOne, NEW t \in Tabs,
                    Login(t) \/ Logout(t) \/ Open(t) \/ Refresh(t) \/ Receive(t) \/ Disconnect(t)
             PROVE  TypeOK' /\ AwaitedByOne'
  BY DEF TabStep
<1>1. CASE Login(t)
  <2>1. rows \in Seq(Row(logins)) /\ logins \in Nat /\ Len(rows) \in Nat
    BY DEF TypeOK, Row
  <2>2. /\ rows' \in Seq(Row(logins')) /\ Len(rows') = Len(rows) + 1 /\ Sessions \subseteq Sessions'
        /\ Len(rows') \in Sessions'
    <3>1. logins' \in Nat /\ logins <= logins' /\ logins' \in 1..logins'
      BY <1>1, <2>1 DEF Login
    <3>2. rows' = Append(rows, NewRow(logins'))
      BY <1>1 DEF Login
    <3> QED BY ONLY <2>1, <3>1, <3>2, AppendRow
  <2>3. Tokens \subseteq Tokens' /\ Len(rows') \in Tokens'
    BY <2>2 DEF Tokens
  <2>4. logins' \in Nat /\ 1..logins \subseteq 1..logins'
    BY <1>1, <2>1 DEF Login
  <2> QED
    BY <1>1, <2>2, <2>3, <2>4 DEF Login, TypeOK, AwaitedByOne, history, Row
<1>2. CASE Logout(t)
  BY <1>2 DEF Logout, TypeOK, AwaitedByOne, serverVars, history, Sessions, Tokens
<1>3. CASE Open(t)
  <2>1. Sessions' = Sessions /\ Tokens' = Tokens
    BY <1>3 DEF Open, Sessions, Tokens
  <2> QED
    BY <1>3, <2>1, AbandonedTypes DEF Open, TypeOK
<1>4. CASE Refresh(t)
  <2>1. Sessions' = Sessions /\ Tokens' = Tokens
    BY <1>4 DEF Refresh, Sessions, Tokens
  <2>2. PICK r \in Requests :
          /\ exchange[r] = Free
          /\ exchange' = [exchange EXCEPT ![r] = [step |-> "find", token |-> held[t]]]
          /\ waiting' = [waiting EXCEPT ![t] = r]
    BY <1>4 DEF Refresh
  <2>3. held[t] \in Sessions
    BY <1>4 DEF Refresh, TypeOK, Tokens
  <2>4. \A u \in Tabs : waiting[u] # r
    BY <2>2, NoneAssumption DEF TypeOK, Free
  <2>5. AwaitedByOne'
    BY <2>2, <2>4 DEF AwaitedByOne, TypeOK
  <2>6. exchange' \in [Requests -> [step : Steps, token : Tokens']]
    BY <2>1, <2>2, <2>3 DEF TypeOK, Steps, Tokens
  <2>7. /\ \A q \in Requests : exchange'[q] \notin {Free, Refused} => exchange'[q].token \in Sessions'
        /\ \A u \in Tabs : waiting'[u] # None => exchange'[waiting'[u]].step # "free"
    BY <2>1, <2>2, <2>3, <2>4 DEF TypeOK
  <2> QED
    BY <1>4, <2>1, <2>2, <2>5, <2>6, <2>7 DEF Refresh, TypeOK, history
<1>5. CASE Receive(t)
  <2>1. Sessions' = Sessions /\ Tokens' = Tokens /\ Free \in [step : Steps, token : Tokens]
    BY <1>5 DEF Receive, Sessions, Tokens, Free, Steps
  <2>2. waiting[t] \in Requests
    BY <1>5 DEF Receive, TypeOK
  <2>3. exchange[waiting[t]].token \in Tokens
    BY <2>2 DEF TypeOK
  <2>4. held' \in [Tabs -> Tokens'] /\ stored' \in Tokens'
    BY <1>5, <2>1, <2>3 DEF Receive, TypeOK, Tokens
  <2>5. AwaitedByOne'
    BY <1>5 DEF Receive, AwaitedByOne, TypeOK
  <2>6. \A u \in Tabs : waiting'[u] # None => exchange'[waiting'[u]].step # "free"
    BY <1>5, <2>2 DEF Receive, AwaitedByOne, TypeOK
  <2> QED
    BY <1>5, <2>1, <2>2, <2>4, <2>5, <2>6 DEF Receive, TypeOK, history
<1>6. CASE Disconnect(t)
  <2>1. Sessions' = Sessions /\ Tokens' = Tokens
    BY <1>6 DEF Disconnect, Sessions, Tokens
  <2> QED
    BY <1>6, <2>1, AbandonedTypes DEF Disconnect, TypeOK
<1> QED
  BY <1>1, <1>2, <1>3, <1>4, <1>5, <1>6

-----------------------------------------------------------------------------
(* The families.                                                            *)

\* A request that finds, rotates or issues presents a token that was issued.
LEMMA ActiveTokens ==
    ASSUME TypeOK
    PROVE  /\ \A r \in Handled : exchange[r].token \in Sessions
           /\ Active \subseteq Handled /\ Handled \subseteq Requests
           /\ \A s \in Sessions : LoginOf(s) \in 1..logins /\ rows[s] \in Row(logins)
<1>1. rows \in Seq(Row(logins))
  BY DEF TypeOK, Row
<1>2. \A s \in Sessions : rows[s] \in Row(logins)
  BY <1>1, ElementOfSeq DEF Sessions
<1> QED
  BY <1>2 DEF TypeOK, Handled, Active, Rotating, Issuing, Free, Refused, LoginOf, Row

\* A step that starts no exchange and no session keeps the families.
LEMMA FewerFamilies ==
    ASSUME TypeOK, Families, Sessions' = Sessions,
           \A s \in Sessions : rows'[s].login = rows[s].login /\ (Live(s)' => Live(s)),
           \A r \in Active' : r \in Active /\ exchange'[r] = exchange[r],
           raced \subseteq raced', ended' = ended
    PROVE  Families'
<1>1. /\ \A r \in Rotating' : r \in Rotating /\ exchange'[r] = exchange[r]
      /\ \A r \in Issuing' : r \in Issuing /\ exchange'[r] = exchange[r]
  BY DEF Active, Rotating, Issuing
<1>2. \A r \in Active' : Of(r)' = Of(r) /\ r \in Active
  BY ActiveTokens DEF Of, LoginOf
<1>3. OneExchange'
  BY <1>2 DEF Families, OneExchange
<1>4. RotatingHasTheSession'
  BY <1>1, <1>2 DEF Families, RotatingHasTheSession, LoginOf, Active
<1>5. IssuingHasNone'
  BY <1>1, <1>2 DEF Families, IssuingHasNone, LoginOf, Active
<1>6. EndedIsQuiet' /\ OneSessionPerLogin' /\ ReplayEndsFamily'
  BY <1>2 DEF Families, EndedIsQuiet, OneSessionPerLogin, ReplayEndsFamily, LoginOf
<1> QED BY <1>3, <1>4, <1>5, <1>6 DEF Families

LEMMA FindFamilies ==
    ASSUME TypeOK, Families, NEW r \in Requests, Find(r)
    PROVE  Families'
<1>1. r \in Handled /\ r \notin Active /\ UNCHANGED <<rows, ended>>
  BY DEF Find, Handled, Active, Rotating, Issuing
<1>2. CASE (Refuse(r) /\ UNCHANGED raced) \/ (Goto(r, "revoke") /\ UNCHANGED raced)
  <2>1. \A q \in Active' : q \in Active /\ exchange'[q] = exchange[q]
    BY <1>1, <1>2
    DEF Refuse, Answer, Goto, Active, Rotating, Issuing, Refused, Free, TypeOK
  <2> QED
    BY <1>1, <1>2, <2>1, FewerFamilies DEF Sessions, Live
<1>3. CASE /\ Goto(r, "rotate") /\ Live(exchange[r].token)
           /\ raced' = IF \E q \in Active : exchange[q].token = exchange[r].token
                       THEN raced \union {Of(r)} ELSE raced
  <2> DEFINE s == exchange[r].token
  <2>1. s \in Sessions /\ Live(s)
    BY <1>1, <1>3, ActiveTokens
  <2>2. /\ exchange'[r].token = s /\ Rotating' = Rotating \union {r} /\ Issuing' = Issuing
        /\ \A q \in Requests : q # r => exchange'[q] = exchange[q]
        /\ Active' = Active \union {r}
    BY <1>1, <1>3 DEF Goto, Rotating, Issuing, Active, TypeOK
  <2>3. \A q \in Requests : Of(q)' = Of(q) /\ exchange'[q].token = exchange[q].token
    BY <1>1, <2>2 DEF Of, LoginOf
  <2>4. \A q \in Active : Of(q) = Of(r) => Of(r) \in raced'
    <3> SUFFICES ASSUME NEW q \in Active, Of(q) = Of(r), Of(r) \notin raced'
                 PROVE  FALSE
      OBVIOUS
    <3>1. Of(r) \notin raced /\ exchange[q].token # s
      BY <1>3
    <3>2. LoginOf(s) = Of(q) /\ Of(q) \notin raced
      BY <3>1 DEF Of
    <3> QED
      BY <2>1, <3>1, <3>2 DEF Families, RotatingHasTheSession, IssuingHasNone, Active
  <2>5. OneExchange'
    BY <1>1, <1>3, <2>2, <2>3, <2>4, ActiveTokens DEF Families, OneExchange
  <2>6. RotatingHasTheSession'
    <3> SUFFICES ASSUME NEW q \in Rotating', NEW x \in Sessions', Live(x)', LoginOf(x)' = Of(q)',
                        Of(q)' \notin raced'
                 PROVE  x = exchange'[q].token
      BY DEF RotatingHasTheSession
    <3>1. x \in Sessions /\ Live(x) /\ LoginOf(x) = Of(q) /\ Of(q) \notin raced /\ q \in Requests
      BY <1>1, <1>3, <2>2, <2>3 DEF Sessions, Live, LoginOf, Rotating
    <3>2. CASE q = r
      BY <2>1, <2>2, <3>1, <3>2 DEF Families, OneSessionPerLogin, Of
    <3>3. CASE q # r
      BY <2>2, <2>3, <3>1, <3>3 DEF Families, RotatingHasTheSession
    <3> QED BY <3>2, <3>3
  <2>7. IssuingHasNone'
    <3> SUFFICES ASSUME NEW q \in Issuing', NEW x \in Sessions', LoginOf(x)' = Of(q)',
                        Of(q)' \notin raced'
                 PROVE  ~Live(x)'
      BY DEF IssuingHasNone
    <3>1. x \in Sessions /\ LoginOf(x) = Of(q) /\ Of(q) \notin raced /\ q \in Issuing
      BY <1>1, <1>3, <2>2, <2>3 DEF Sessions, LoginOf, Issuing
    <3> QED BY <1>1, <3>1 DEF Families, IssuingHasNone, Live
  <2>8. Of(r) \notin ended
    BY <2>1 DEF Families, ReplayEndsFamily, Of
  <2>9. EndedIsQuiet'
    BY <1>1, <2>2, <2>3, <2>8, ActiveTokens DEF Families, EndedIsQuiet
  <2>10. OneSessionPerLogin' /\ ReplayEndsFamily'
    BY <1>1, <1>3 DEF Families, OneSessionPerLogin, ReplayEndsFamily, Sessions, Live, LoginOf
  <2> QED BY <2>5, <2>6, <2>7, <2>9, <2>10 DEF Families
<1> QED BY <1>2, <1>3 DEF Find, Of, Active

LEMMA RotateFamilies ==
    ASSUME TypeOK, Families, NEW r \in Requests, Rotate(r)
    PROVE  Families'
<1> DEFINE s == exchange[r].token
<1>1. r \in Rotating /\ s \in Sessions /\ UNCHANGED <<raced, ended>>
  BY ActiveTokens DEF Rotate, Rotating, Handled, history
<1>2. /\ Sessions' = Sessions /\ rows'[s].revoked
      /\ \A x \in Sessions : LoginOf(x)' = LoginOf(x) /\ (Live(x)' => Live(x))
  <2>1. rows \in Seq(Row(logins)) /\ rows \in [Sessions -> Row(logins)]
    BY LenProperties DEF TypeOK, Row, Sessions
  <2>2. rows' = [rows EXCEPT ![s].revoked = TRUE]
    BY DEF Rotate
  <2>3. Len(rows') = Len(rows)
    BY <1>1, <2>1, <2>2, UpdateRows, ActiveTokens DEF TypeOK, Row
  <2>4. \A x \in Sessions : rows'[x] = IF x = s THEN [rows[x] EXCEPT !.revoked = TRUE] ELSE rows[x]
    BY <1>1, <2>1, <2>2
  <2>5. \A x \in Sessions : rows[x] \in Row(logins)
    BY ActiveTokens
  <2>6. \A x \in Sessions : /\ rows'[x].login = rows[x].login
                            /\ rows'[x].revoked = IF x = s THEN TRUE ELSE rows[x].revoked
    BY <2>4, <2>5 DEF Row
  <2>7. Sessions' = Sessions
    BY <2>3 DEF Sessions
  <2> QED BY <1>1, <2>6, <2>7 DEF Live, LoginOf
<1>3. /\ Rotating' = Rotating \ {r} /\ Issuing' = Issuing \union {r} /\ Active' = Active
      /\ \A q \in Active : exchange'[q].token = exchange[q].token
  BY <1>1 DEF Rotate, Goto, Rotating, Issuing, Active, TypeOK
<1>4. \A q \in Active : Of(q)' = Of(q)
  BY <1>2, <1>3, ActiveTokens DEF Of, LoginOf
<1>5. OneExchange' /\ EndedIsQuiet'
  BY <1>1, <1>3, <1>4 DEF Families, OneExchange, EndedIsQuiet
<1>6. RotatingHasTheSession'
  BY <1>1, <1>2, <1>3, <1>4 DEF Families, RotatingHasTheSession, Active
<1>7. IssuingHasNone'
  <2> SUFFICES ASSUME NEW q \in Issuing', NEW x \in Sessions', LoginOf(x)' = Of(q)',
                      Of(q)' \notin raced', Live(x)'
               PROVE  FALSE
    BY DEF IssuingHasNone
  <2>1. q \in Active /\ x \in Sessions
    BY <1>1, <1>2, <1>3 DEF Active
  <2>4. LoginOf(x) = Of(q) /\ Of(q) \notin raced /\ Live(x)
    BY <1>1, <1>2, <1>4, <2>1
  <2>2. CASE q = r
    BY <1>1, <1>2, <2>1, <2>2, <2>4 DEF Families, RotatingHasTheSession, Live
  <2>3. CASE q # r
    BY <1>3, <2>1, <2>3, <2>4 DEF Families, IssuingHasNone
  <2> QED BY <2>2, <2>3
<1>8. OneSessionPerLogin' /\ ReplayEndsFamily'
  BY <1>1, <1>2 DEF Families, OneSessionPerLogin, ReplayEndsFamily
<1> QED BY <1>5, <1>6, <1>7, <1>8 DEF Families

LEMMA RevokeFamilies ==
    ASSUME TypeOK, Families, NEW r \in Requests, RevokeAllSessions(r)
    PROVE  Families'
<1>1. r \in Handled /\ r \notin Active /\ UNCHANGED raced
  BY DEF RevokeAllSessions, Handled, Active, Rotating, Issuing
<1>2. rows' = [s \in Sessions |-> [rows[s] EXCEPT !.revoked = TRUE]]
  BY DEF RevokeAllSessions
<1>3. Sessions' = Sessions
  <2>1. rows' \in [Sessions -> Row(logins)]
    BY <1>2, ActiveTokens DEF Row
  <2> QED BY <2>1, UpdateRows DEF TypeOK, Row
<1>4. \A s \in Sessions : rows'[s].login = rows[s].login /\ rows'[s].revoked
  BY <1>2, ActiveTokens DEF Row
<1>5. \A q \in Active' : q \in Active /\ exchange'[q] = exchange[q]
  BY <1>1 DEF RevokeAllSessions, Refuse, Answer, Active, Rotating, Issuing, Refused, Free, TypeOK
<1>6. CASE ended' = ended
  BY <1>1, <1>3, <1>4, <1>5, <1>6, FewerFamilies DEF Live
<1>7. CASE Active = {}
  <2>1. Active' = {}
    BY <1>5, <1>7
  <2>2. Rotating' = {} /\ Issuing' = {}
    BY <2>1 DEF Active
  <2> QED
    BY <1>3, <1>4, <2>1, <2>2
    DEF Families, OneExchange, RotatingHasTheSession, IssuingHasNone, EndedIsQuiet,
        OneSessionPerLogin, ReplayEndsFamily, Live
<1> QED BY <1>6, <1>7 DEF RevokeAllSessions, Active

LEMMA IssueFamilies ==
    ASSUME TypeOK, Families, NEW r \in Requests, Issue(r)
    PROVE  Families'
<1> DEFINE login == LoginOf(exchange[r].token)
           new == Len(rows')
<1>1. r \in Issuing /\ r \in Active /\ login \in 1..logins /\ UNCHANGED <<raced, ended>>
  BY ActiveTokens DEF Issue, Issuing, Active, Handled, history
<1>2. /\ new \in Sessions' /\ Sessions \subseteq Sessions'
      /\ \A s \in Sessions' : s \notin Sessions => s = new
      /\ \A s \in Sessions : rows'[s] = rows[s]
      /\ rows'[new] = NewRow(login)
  <2>1. rows \in Seq(Row(logins)) /\ logins \in Nat /\ logins <= logins
    BY DEF TypeOK, Row
  <2>2. rows' = Append(rows, NewRow(login))
    BY DEF Issue
  <2> QED BY ONLY <1>1, <2>1, <2>2, AppendRow
<1>3. /\ \A q \in Requests : q # r => exchange'[q] = exchange[q]
      /\ exchange'[r].step \in {"ok", "free"}
  BY DEF Issue, Answer, Free, TypeOK
<1>4. /\ Rotating' = Rotating /\ Issuing' = Issuing \ {r} /\ Active' = Active \ {r}
      /\ \A q \in Active' : exchange'[q] = exchange[q]
  BY <1>1, <1>3 DEF Rotating, Issuing, Active
<1>5. /\ \A q \in Active' : Of(q)' = Of(q)
      /\ \A s \in Sessions : LoginOf(s)' = LoginOf(s) /\ Live(s)' = Live(s)
  BY <1>2, <1>4, ActiveTokens DEF Of, LoginOf, Live
<1>6. rows'[new].login = login
  BY <1>2 DEF NewRow
<1>7. OneExchange' /\ EndedIsQuiet'
  BY <1>1, <1>4, <1>5 DEF Families, OneExchange, EndedIsQuiet
\* Another exchange of this login would not be alone.
<1>8. \A q \in Active' : Of(q) # login \/ login \in raced
  BY <1>1, <1>4 DEF Families, OneExchange, Of
<1>9. \A q \in Active', s \in Sessions' : LoginOf(s)' = Of(q) /\ Of(q) \notin raced => s \in Sessions
  BY <1>2, <1>6, <1>8 DEF LoginOf
<1>10. RotatingHasTheSession'
  <2> SUFFICES ASSUME NEW q \in Rotating', NEW s \in Sessions', Live(s)', LoginOf(s)' = Of(q)',
                      Of(q)' \notin raced'
               PROVE  s = exchange'[q].token
    BY DEF RotatingHasTheSession
  <2>1. q \in Rotating /\ q \in Active' /\ exchange'[q] = exchange[q]
    BY <1>4 DEF Active
  <2>2. s \in Sessions
    BY <1>1, <1>5, <1>9, <2>1
  <2>3. Live(s) /\ LoginOf(s) = Of(q) /\ Of(q) \notin raced
    BY <1>1, <1>5, <2>1, <2>2
  <2> QED BY <2>1, <2>2, <2>3 DEF Families, RotatingHasTheSession
<1>11. IssuingHasNone'
  <2> SUFFICES ASSUME NEW q \in Issuing', NEW s \in Sessions', Live(s)', LoginOf(s)' = Of(q)',
                      Of(q)' \notin raced'
               PROVE  FALSE
    BY DEF IssuingHasNone
  <2>1. q \in Issuing /\ q \in Active'
    BY <1>4 DEF Active
  <2>2. s \in Sessions
    BY <1>1, <1>5, <1>9, <2>1
  <2>3. Live(s) /\ LoginOf(s) = Of(q) /\ Of(q) \notin raced
    BY <1>1, <1>5, <2>1, <2>2
  <2> QED BY <2>1, <2>2, <2>3 DEF Families, IssuingHasNone
<1>12. OneSessionPerLogin'
  <2> SUFFICES ASSUME NEW s1 \in Sessions', NEW s2 \in Sessions', Live(s1)', Live(s2)',
                      LoginOf(s1)' = LoginOf(s2)', LoginOf(s1)' \notin raced', s1 # s2
               PROVE  FALSE
    BY DEF OneSessionPerLogin
  <2>1. CASE s1 \in Sessions /\ s2 \in Sessions
    BY <1>1, <1>5, <2>1 DEF Families, OneSessionPerLogin
  <2>2. ASSUME NEW s \in Sessions, Live(s), LoginOf(s) = login, login \notin raced PROVE FALSE
    BY <1>1, <2>2 DEF Families, IssuingHasNone, Of
  <2>3. CASE s1 \notin Sessions
    BY <1>1, <1>2, <1>5, <1>6, <2>2, <2>3 DEF LoginOf
  <2>4. CASE s2 \notin Sessions
    BY <1>1, <1>2, <1>5, <1>6, <2>2, <2>4 DEF LoginOf
  <2> QED BY <2>1, <2>3, <2>4
<1>13. ReplayEndsFamily'
  <2>1. login \notin ended
    BY <1>1 DEF Families, EndedIsQuiet, Of
  <2> QED BY <1>1, <1>2, <1>5, <1>6, <2>1 DEF Families, ReplayEndsFamily, LoginOf
<1> QED BY <1>7, <1>10, <1>11, <1>12, <1>13 DEF Families

LEMMA LoginFamilies ==
    ASSUME TypeOK, Families, NEW t \in Tabs, Login(t)
    PROVE  Families'
<1> DEFINE new == Len(rows')
<1>1. logins' \notin 1..logins /\ logins' = logins + 1 /\ UNCHANGED <<exchange, raced, ended>>
  BY DEF Login, TypeOK, history
<1>2. /\ new \in Sessions' /\ Sessions \subseteq Sessions'
      /\ \A s \in Sessions' : s \notin Sessions => s = new
      /\ \A s \in Sessions : rows'[s] = rows[s]
      /\ rows'[new] = NewRow(logins')
  <2>1. rows \in Seq(Row(logins)) /\ logins \in Nat /\ logins' \in Nat /\ logins <= logins'
        /\ logins' \in 1..logins'
    BY <1>1 DEF TypeOK, Row
  <2>2. rows' = Append(rows, NewRow(logins'))
    BY DEF Login
  <2> QED BY ONLY <2>1, <2>2, AppendRow
<1>3. rows'[new].login = logins'
  BY <1>2 DEF NewRow
<1>4. Rotating' = Rotating /\ Issuing' = Issuing /\ Active' = Active
  BY <1>1 DEF Rotating, Issuing, Active
<1>5. /\ \A q \in Active : Of(q)' = Of(q) /\ Of(q) \in 1..logins
      /\ \A s \in Sessions : LoginOf(s)' = LoginOf(s) /\ Live(s)' = Live(s) /\ LoginOf(s) \in 1..logins
  BY <1>1, <1>2, ActiveTokens DEF Of, LoginOf, Live
<1>6. \A s \in Sessions' : s \notin Sessions => s = new /\ LoginOf(s)' = logins'
  BY <1>2, <1>3 DEF LoginOf
<1>7. OneExchange' /\ EndedIsQuiet'
  BY <1>1, <1>4, <1>5 DEF Families, OneExchange, EndedIsQuiet
<1>8. RotatingHasTheSession'
  BY <1>1, <1>2, <1>4, <1>5, <1>6 DEF Families, RotatingHasTheSession, Active
<1>9. IssuingHasNone'
  BY <1>1, <1>2, <1>4, <1>5, <1>6 DEF Families, IssuingHasNone, Active
<1>10. OneSessionPerLogin'
  BY <1>1, <1>2, <1>5, <1>6 DEF Families, OneSessionPerLogin
<1>11. ReplayEndsFamily'
  BY <1>1, <1>2, <1>5, <1>6 DEF Families, ReplayEndsFamily, TypeOK
<1> QED BY <1>7, <1>8, <1>9, <1>10, <1>11 DEF Families

-----------------------------------------------------------------------------
LEMMA InitIInv == Init => IInv
<1> SUFFICES ASSUME Init PROVE IInv
  OBVIOUS
<1>1. rows \in Seq(Row(logins)) /\ Sessions = {}
  BY DEF Init, Sessions
<1>2. Active = {} /\ Rotating = {} /\ Issuing = {}
  BY DEF Init, Active, Rotating, Issuing, Free
<1>3. TypeOK /\ AwaitedByOne
  BY <1>1 DEF Init, TypeOK, AwaitedByOne, Row, Tokens, Steps, Free, NoToken
<1>4. Families
  BY <1>1, <1>2 DEF Families, OneExchange, RotatingHasTheSession, IssuingHasNone, EndedIsQuiet,
                    OneSessionPerLogin, ReplayEndsFamily
<1> QED BY <1>3, <1>4 DEF IInv

LEMMA NextIInv == IInv /\ [Next]_vars => IInv'
<1> SUFFICES ASSUME IInv, [Next]_vars PROVE IInv'
  OBVIOUS
<1> USE DEF IInv
<1>1. CASE ServerStep
  <2>1. TypeOK' /\ AwaitedByOne'
    <3>1. AwaitedByOne'
      BY <1>1 DEF ServerStep, AwaitedByOne, Find, RevokeAllSessions, Rotate, Issue, Fail, Expire,
                  Crash, clientVars, TypeOK
    <3> QED BY <1>1, <3>1, ServerTypes
  <2>2. ASSUME NEW r \in Requests, Find(r) \/ RevokeAllSessions(r) \/ Rotate(r) \/ Issue(r)
        PROVE  Families'
    BY <2>2, FindFamilies, RevokeFamilies, RotateFamilies, IssueFamilies
  <2>3. ASSUME NEW r \in Requests, Fail(r) PROVE Families'
    <3>1. \A q \in Active' : q \in Active /\ exchange'[q] = exchange[q]
      BY <2>3 DEF Fail, Refuse, Answer, Active, Rotating, Issuing, Refused, Free, TypeOK
    <3> QED BY <2>3, <3>1, FewerFamilies DEF Fail, history, Sessions, Live
  <2>4. ASSUME NEW s \in Sessions, Expire(s) PROVE Families'
    <3>1. rows \in Seq(Row(logins)) /\ rows \in [Sessions -> Row(logins)]
      BY LenProperties DEF TypeOK, Row, Sessions
    <3>2. rows' = [rows EXCEPT ![s].expired = TRUE]
      BY <2>4 DEF Expire
    <3>3. rows' \in [Sessions -> Row(logins)]
      BY <3>1, <3>2 DEF Row
    <3>4. Sessions' = Sessions
      BY <3>1, <3>3, UpdateRows DEF TypeOK
    <3>5. \A x \in Sessions : rows'[x].login = rows[x].login /\ rows'[x].revoked = rows[x].revoked
      BY <3>1, <3>2 DEF Row
    <3>6. UNCHANGED <<exchange, raced, ended>>
      BY <2>4 DEF Expire, history
    <3>7. \A q \in Active' : q \in Active /\ exchange'[q] = exchange[q]
      BY <3>6 DEF Active, Rotating, Issuing
    <3> QED BY <3>4, <3>5, <3>6, <3>7, FewerFamilies DEF Live
  <2>5. ASSUME Crash PROVE Families'
    <3>1. \A q \in Active' : q \in Active /\ exchange'[q] = exchange[q]
      BY <2>5 DEF Crash, Active, Rotating, Issuing, Handled, Free
    <3>2. UNCHANGED <<rows, raced, ended>>
      BY <2>5 DEF Crash
    <3> QED BY <3>1, <3>2, FewerFamilies DEF Sessions, Live
  <2> QED BY <1>1, <2>1, <2>2, <2>3, <2>4, <2>5 DEF ServerStep
<1>2. CASE TabStep
  <2>1. TypeOK' /\ AwaitedByOne'
    BY <1>2, TabTypes
  <2>2. PICK t \in Tabs :
          Login(t) \/ Logout(t) \/ Open(t) \/ Refresh(t) \/ Receive(t) \/ Disconnect(t)
    BY <1>2 DEF TabStep
  <2>3. CASE Login(t)
    BY <2>1, <2>3, LoginFamilies
  <2>4. CASE Logout(t) \/ Open(t) \/ Refresh(t) \/ Receive(t) \/ Disconnect(t)
    <3>1. UNCHANGED <<rows, raced, ended>>
      BY <2>4 DEF Logout, Open, Refresh, Receive, Disconnect, serverVars, history
    <3>2. \A q \in Active' : q \in Active /\ exchange'[q] = exchange[q]
      BY <2>4 DEF Logout, Open, Refresh, Receive, Disconnect, Abandoned, serverVars, Active,
                  Rotating, Issuing, Free, TypeOK
    <3>3. Families'
      BY <3>1, <3>2, FewerFamilies DEF Sessions, Live
    <3> QED BY <2>1, <3>3
  <2> QED BY <2>2, <2>3, <2>4
<1>3. CASE UNCHANGED vars
  <2>1. Families'
    <3>1. \A q \in Active' : q \in Active /\ exchange'[q] = exchange[q]
      BY <1>3 DEF vars, serverVars, Active, Rotating, Issuing
    <3> QED BY <1>3, <3>1, FewerFamilies DEF vars, serverVars, history, Sessions, Live
  <2> QED BY <1>3, <2>1 DEF vars, serverVars, clientVars, history, TypeOK, AwaitedByOne, Sessions, Tokens
<1> QED BY <1>1, <1>2, <1>3 DEF Next

-----------------------------------------------------------------------------
(* The tabs, as long as no answer was lost and no token shared.             *)

Asking == {r \in Requests : exchange[r].step \in {"find", "rotate", "issue"}}
Answered == {r \in Requests : exchange[r].step = "ok"}

HeldByOne == \A t, u \in Tabs : held[t] = held[u] /\ held[t] # NoToken => t = u
StoredIsHeld == stored # NoToken => \E t \in Tabs : held[t] = stored
\* A token is in one exchange, asked for by its holder or yet to be received.
InOneExchange ==
    \A r, q \in Asking \union Answered : exchange[r].token = exchange[q].token => r = q
AskedByHolder ==
    \A r \in Asking, t \in Tabs : held[t] = exchange[r].token => waiting[t] = r
AnswerIsNew == \A r \in Answered, t \in Tabs : held[t] # exchange[r].token
\* Only the exchange of a token revokes it, so none is taken for replayed.
ExchangedIsLive ==
    \A r \in Requests :
        /\ exchange[r].step # "revoke"
        /\ exchange[r].step \in {"find", "rotate", "ok"} => Live(exchange[r].token)
HeldIsLive == \A t \in Tabs : held[t] # NoToken /\ waiting[t] = None => Live(held[t])

Known ==
    /\ HeldByOne /\ StoredIsHeld /\ InOneExchange /\ AskedByHolder /\ AnswerIsNew
    /\ ExchangedIsLive /\ HeldIsLive

TabsKnow == ~lost /\ ~shared => Known

\* A step that leaves the tabs be, revokes nothing in use and only ends exchanges or
\* takes them from one statement to the next.
LEMMA SameTabs ==
    ASSUME TypeOK, Known, UNCHANGED clientVars,
           \A r \in Requests :
              \/ exchange'[r].step \in {"free", "refused"}
              \/ exchange'[r] = exchange[r]
              \/ /\ r \in Asking /\ r \in Asking' /\ exchange'[r].token = exchange[r].token
                 /\ exchange'[r].step \in {"find", "rotate"} => Live(exchange[r].token)',
           \A s \in Sessions : Live(s) /\ ~Live(s)' => \E r \in Issuing' : exchange'[r].token = s
    PROVE  Known'
<1>1. \A t \in Tabs : held[t] # NoToken => held[t] \in Sessions
  BY DEF TypeOK, Tokens
<1>2. \A r \in Asking \union Answered : exchange[r].token \in Sessions
  BY DEF TypeOK, Asking, Answered, Free, Refused
<1>3. \A r \in Asking' \union Answered' :
        /\ r \in Asking \union Answered /\ exchange'[r].token = exchange[r].token
        /\ (r \in Asking <=> r \in Asking')
  BY DEF Asking, Answered
<1>4. Issuing' \subseteq Asking'
  BY DEF Issuing, Asking
<1>5. HeldByOne' /\ StoredIsHeld' /\ InOneExchange' /\ AskedByHolder' /\ AnswerIsNew'
  BY <1>3 DEF Known, HeldByOne, StoredIsHeld, InOneExchange, AskedByHolder, AnswerIsNew, Asking,
              Answered, clientVars
<1>6. ExchangedIsLive'
  <2> SUFFICES ASSUME NEW r \in Requests
               PROVE  /\ exchange'[r].step # "revoke"
                      /\ exchange'[r].step \in {"find", "rotate", "ok"} => Live(exchange[r].token)'
    BY <1>3 DEF ExchangedIsLive, Asking, Answered
  <2>1. CASE exchange'[r] = exchange[r] /\ exchange[r].step \in {"find", "rotate", "ok"}
    <3>1. Live(exchange[r].token) /\ r \in Asking \union Answered
      BY <2>1 DEF Known, ExchangedIsLive, Asking, Answered
    <3>2. ASSUME NEW q \in Issuing', exchange'[q].token = exchange[r].token PROVE FALSE
      BY <1>3, <1>4, <2>1, <3>1, <3>2 DEF Known, InOneExchange, Issuing, Asking, Answered
    <3> QED BY <1>2, <2>1, <3>1, <3>2 DEF Live
  <2> QED BY <2>1 DEF Known, ExchangedIsLive, Asking
<1>7. HeldIsLive'
  <2> SUFFICES ASSUME NEW t \in Tabs, held[t] # NoToken, waiting[t] = None PROVE Live(held[t])'
    BY DEF HeldIsLive, clientVars
  <2>1. Live(held[t])
    BY DEF Known, HeldIsLive
  <2>2. ASSUME NEW q \in Issuing', exchange'[q].token = held[t] PROVE FALSE
    <3>1. q \in Asking' /\ q \in Asking /\ exchange[q].token = held[t]
      BY <1>3, <1>4, <2>2 DEF Asking, Issuing
    <3>2. waiting[t] = q
      BY <3>1 DEF Known, AskedByHolder
    <3> QED BY <3>1, <3>2, NoneAssumption DEF Asking
  <2> QED BY <1>1, <2>1, <2>2 DEF Live, clientVars
<1> QED BY <1>5, <1>6, <1>7 DEF Known

LEMMA ServerKnows == TypeOK /\ TabsKnow /\ ServerStep => TabsKnow'
<1> SUFFICES ASSUME TypeOK, Known, ServerStep, ~lost', ~shared' PROVE Known'
  BY DEF TabsKnow, ServerStep, Find, RevokeAllSessions, Rotate, Issue, Fail, Expire, Crash, history
<1>0. \A s \in Sessions : rows[s] \in Row(logins)
  BY ActiveTokens
<1>a. Asking \subseteq Handled /\ \A r \in Handled : exchange[r].token \in Sessions
  BY ActiveTokens DEF Asking, Handled
<1>b. ASSUME NEW r \in Requests, Refuse(r)
      PROVE  \A q \in Requests : exchange'[q].step \in {"free", "refused"} \/ exchange'[q] = exchange[q]
  BY <1>b DEF Refuse, Answer, Refused, Free, TypeOK
<1>c. ASSUME NEW r \in Requests, NEW step \in Steps, Goto(r, step)
      PROVE  /\ exchange'[r].step = step /\ exchange'[r].token = exchange[r].token
             /\ \A q \in Requests : q # r => exchange'[q] = exchange[q]
  BY <1>c DEF Goto, TypeOK
<1>1. ASSUME NEW r \in Requests, Find(r) PROVE Known'
  <2>1. UNCHANGED <<rows, clientVars>> /\ r \in Asking
    BY <1>1 DEF Find, Asking
  <2>2. CASE Refuse(r)
    BY <1>b, <2>1, <2>2, SameTabs DEF Sessions, Live
  <2>3. CASE Goto(r, "rotate") /\ Live(exchange[r].token)
    <3>1. exchange'[r].step = "rotate" /\ exchange'[r].token = exchange[r].token
          /\ \A q \in Requests : q # r => exchange'[q] = exchange[q]
      BY <1>c, <2>3 DEF Steps
    <3>2. r \in Asking' /\ Live(exchange[r].token)'
      BY <2>1, <2>3, <3>1 DEF Asking, Live
    <3> QED BY <2>1, <3>1, <3>2, SameTabs DEF Sessions, Live
  <2>4. Live(exchange[r].token)
    BY <1>1 DEF Find, Known, ExchangedIsLive
  <2> QED BY <1>1, <2>2, <2>3, <2>4 DEF Find, Live
<1>2. ASSUME NEW r \in Requests, RevokeAllSessions(r) PROVE Known'
  BY <1>2 DEF RevokeAllSessions, Known, ExchangedIsLive
<1>3. ASSUME NEW r \in Requests, Rotate(r) PROVE Known'
  <2>1. /\ UNCHANGED clientVars /\ r \in Asking
        /\ rows' = [rows EXCEPT ![exchange[r].token].revoked = TRUE]
        /\ exchange'[r].step = "issue" /\ exchange'[r].token = exchange[r].token
        /\ \A q \in Requests : q # r => exchange'[q] = exchange[q]
    BY <1>3, <1>c DEF Rotate, Asking, Steps
  <2>2. r \in Asking' /\ r \in Issuing'
    BY <2>1 DEF Asking, Issuing
  <2>3. \A s \in Sessions : Live(s) /\ ~Live(s)' => exchange'[r].token = s
    BY <1>0, <1>a, <2>1 DEF Live, Sessions, Row
  <2> QED BY <2>1, <2>2, <2>3, SameTabs
<1>4. ASSUME NEW r \in Requests, Issue(r) PROVE Known'
  <2>1. /\ UNCHANGED clientVars /\ r \in Asking
        /\ rows' = Append(rows, NewRow(LoginOf(exchange[r].token)))
    BY <1>4 DEF Issue, Asking
  <2>2. /\ Len(rows') \notin Sessions
        /\ \A s \in Sessions : rows'[s] = rows[s]
        /\ ~rows'[Len(rows')].revoked
        /\ Len(rows') = Len(rows) + 1
    <3>1. logins \in Nat /\ logins <= logins /\ rows \in Seq(Row(logins)) /\ Len(rows) \in Nat
      BY DEF TypeOK, Row
    <3>2. LoginOf(exchange[r].token) \in 1..logins
      BY <1>a, <2>1, ActiveTokens
    <3>3. /\ Len(rows') = Len(rows) + 1
          /\ \A s \in Sessions : rows'[s] = rows[s]
          /\ rows'[Len(rows')] = NewRow(LoginOf(exchange[r].token))
      BY ONLY <2>1, <3>1, <3>2, AppendRow
    <3> QED BY <3>1, <3>3 DEF NewRow, Sessions
  <2>3. /\ \A q \in Requests : q # r => exchange'[q] = exchange[q]
        /\ exchange'[r] \in {Free, [step |-> "ok", token |-> Len(rows')]}
    BY <1>4, <2>2 DEF Issue, Answer, TypeOK
  <2>4. /\ \A t \in Tabs : held[t] # NoToken => held[t] \in Sessions
        /\ \A q \in Asking \union Answered : exchange[q].token \in Sessions
    BY DEF TypeOK, Tokens, Asking, Answered, Free, Refused
  <2>5. \A t \in Tabs : held[t] # Len(rows')
    BY <2>2, <2>4 DEF TypeOK, NoToken, Tokens, Sessions
  <2>6. /\ Asking' \subseteq Asking \ {r} /\ Answered' \subseteq Answered \union {r}
        /\ r \in Answered' => exchange'[r].token = Len(rows')
    BY <2>3 DEF Asking, Answered, Free
  <2>7. HeldByOne' /\ StoredIsHeld' /\ AskedByHolder' /\ AnswerIsNew'
    BY <2>1, <2>3, <2>5, <2>6 DEF Known, HeldByOne, StoredIsHeld, AskedByHolder, AnswerIsNew, clientVars,
                                  Asking, Answered
  <2>8. InOneExchange'
    BY <2>2, <2>3, <2>4, <2>6 DEF Known, InOneExchange, Asking, Answered
  <2>9. ExchangedIsLive'
    BY <2>2, <2>3, <2>4 DEF Known, ExchangedIsLive, Live, Free, Asking, Answered
  <2>10. HeldIsLive'
    BY <2>1, <2>2, <2>4 DEF Known, HeldIsLive, Live, clientVars
  <2> QED BY <2>7, <2>8, <2>9, <2>10 DEF Known
<1>5. ASSUME NEW r \in Requests, Fail(r) PROVE Known'
  <2>1. UNCHANGED <<rows, clientVars>> /\ Refuse(r)
    BY <1>5 DEF Fail
  <2> QED BY <1>b, <2>1, SameTabs DEF Live
<1>6. ASSUME NEW s \in Sessions, Expire(s) PROVE Known'
  <2>1. UNCHANGED <<exchange, clientVars>> /\ rows' = [rows EXCEPT ![s].expired = TRUE]
    BY <1>6 DEF Expire
  <2>2. \A x \in Sessions : Live(x) => Live(x)'
    BY <1>0, <2>1 DEF Live, Sessions, Row
  <2> QED BY <2>1, <2>2, SameTabs
<1>7. ~Crash
  BY DEF Crash
<1> QED BY <1>1, <1>2, <1>3, <1>4, <1>5, <1>6, <1>7 DEF ServerStep

LEMMA TabKnows == TypeOK /\ AwaitedByOne /\ TabsKnow /\ TabStep => TabsKnow'
<1> SUFFICES ASSUME TypeOK, AwaitedByOne, TabsKnow, ~lost', ~shared', NEW t \in Tabs,
                    Login(t) \/ Logout(t) \/ Open(t) \/ Refresh(t) \/ Receive(t) \/ Disconnect(t)
             PROVE  Known'
  BY DEF TabsKnow, TabStep
<1>0. Known
  <2>1. Login(t) \/ Logout(t) \/ Refresh(t) \/ Receive(t) => ~lost /\ ~shared
    BY DEF Login, Logout, Refresh, Receive, history
  <2>2. Open(t) => ~lost /\ ~shared
    BY DEF Open, Abandoned
  <2>3. Disconnect(t) => ~lost /\ ~shared
    BY DEF Disconnect, Abandoned
  <2> QED BY <2>1, <2>2, <2>3 DEF TabsKnow
<1>1. /\ \A u \in Tabs : held[u] # NoToken => held[u] \in Sessions
      /\ stored # NoToken => stored \in Sessions
      /\ \A q \in Asking \union Answered : exchange[q].token \in Sessions
      /\ NoToken \notin Sessions
  BY DEF TypeOK, Tokens, Asking, Answered, Free, Refused, Sessions, NoToken
<1>2. CASE Login(t)
  <2>1. /\ UNCHANGED <<exchange, waiting>>
        /\ held' = [held EXCEPT ![t] = Len(rows')] /\ stored' = Len(rows')
    BY <1>2 DEF Login
  <2>2. /\ Len(rows') \notin Sessions
        /\ \A s \in Sessions : rows'[s] = rows[s]
        /\ ~rows'[Len(rows')].revoked
        /\ Len(rows') # NoToken
    <3>1. logins \in Nat /\ rows \in Seq(Row(logins)) /\ Len(rows) \in Nat
      BY DEF TypeOK, Row
    <3>2. /\ logins' \in Nat /\ logins <= logins' /\ logins' \in 1..logins'
          /\ rows' = Append(rows, NewRow(logins'))
      BY <1>2, <3>1 DEF Login
    <3>3. /\ Len(rows') = Len(rows) + 1
          /\ \A s \in Sessions : rows'[s] = rows[s]
          /\ rows'[Len(rows')] = NewRow(logins')
      BY ONLY <3>1, <3>2, AppendRow
    <3> QED BY <3>1, <3>3 DEF NewRow, Sessions, NoToken
  <2>3. HeldByOne' /\ StoredIsHeld'
    BY <1>0, <1>1, <2>1, <2>2 DEF Known, HeldByOne, StoredIsHeld, TypeOK
  <2>4. InOneExchange' /\ AskedByHolder' /\ AnswerIsNew'
    BY <1>0, <1>1, <2>1, <2>2 DEF Known, InOneExchange, AskedByHolder, AnswerIsNew, Asking, Answered, TypeOK
  <2>5. ExchangedIsLive' /\ HeldIsLive'
    BY <1>0, <1>1, <2>1, <2>2 DEF Known, ExchangedIsLive, HeldIsLive, Live, Asking, Answered, TypeOK
  <2> QED BY <2>3, <2>4, <2>5 DEF Known
<1>3. CASE Logout(t)
  <2>1. /\ UNCHANGED <<rows, exchange, waiting>>
        /\ held' = [held EXCEPT ![t] = NoToken] /\ stored' = NoToken
    BY <1>3 DEF Logout, serverVars
  <2>2. HeldByOne' /\ StoredIsHeld' /\ InOneExchange' /\ AskedByHolder' /\ AnswerIsNew'
    BY <1>0, <1>1, <2>1 DEF Known, HeldByOne, StoredIsHeld, InOneExchange, AskedByHolder, AnswerIsNew,
                      Asking, Answered, TypeOK
  <2>3. ExchangedIsLive' /\ HeldIsLive'
    BY <1>0, <2>1 DEF Known, ExchangedIsLive, HeldIsLive, Live, TypeOK
  <2> QED BY <2>2, <2>3 DEF Known
\* What a tab that waits for nothing reads from the storage is its own token or none.
<1>4. CASE Open(t)
  <2>1. /\ UNCHANGED <<rows, stored>> /\ held' = [held EXCEPT ![t] = stored]
        /\ waiting[t] = None
    BY <1>4 DEF Open, Abandoned
  <2>2. UNCHANGED <<exchange, waiting>>
    BY <1>4, <2>1, NoneAssumption DEF Open, Abandoned, TypeOK
  <2>3. stored # NoToken => held[t] = stored
    BY <1>0, <1>4 DEF Open, Known, StoredIsHeld
  <2>4. HeldByOne' /\ StoredIsHeld' /\ InOneExchange' /\ AskedByHolder' /\ AnswerIsNew'
    BY <1>0, <1>1, <2>1, <2>2, <2>3 DEF Known, HeldByOne, StoredIsHeld, InOneExchange, AskedByHolder,
                                  AnswerIsNew, Asking, Answered, TypeOK
  <2>5. ExchangedIsLive' /\ HeldIsLive'
    BY <1>0, <2>1, <2>2, <2>3 DEF Known, ExchangedIsLive, HeldIsLive, Live, TypeOK
  <2> QED BY <2>4, <2>5 DEF Known
<1>5. CASE Refresh(t)
  <2>1. PICK r \in Requests :
          /\ exchange[r] = Free
          /\ exchange' = [exchange EXCEPT ![r] = [step |-> "find", token |-> held[t]]]
          /\ waiting' = [waiting EXCEPT ![t] = r]
    BY <1>5 DEF Refresh
  <2>2. UNCHANGED <<rows, held, stored>> /\ waiting[t] = None /\ held[t] # NoToken
    BY <1>5 DEF Refresh
  <2>3. r \notin Asking /\ Asking' = Asking \union {r} /\ Answered' = Answered
        /\ exchange'[r].token = held[t] /\ exchange'[r].step = "find"
        /\ \A q \in Requests : q # r => exchange'[q] = exchange[q]
    BY <2>1 DEF Asking, Answered, Free, TypeOK
  <2>4. \A q \in Asking \union Answered : exchange[q].token # held[t] /\ q # r
    <3>1. ASSUME NEW q \in Asking PROVE exchange[q].token # held[t]
      <4>1. q # None
        BY NoneAssumption DEF Asking
      <4> QED BY <1>0, <2>2, <4>1 DEF Known, AskedByHolder
    <3>2. \A q \in Answered : exchange[q].token # held[t]
      BY <1>0 DEF Known, AnswerIsNew
    <3>3. r \notin Asking \union Answered
      BY <2>1 DEF Asking, Answered, Free
    <3> QED BY <3>1, <3>2, <3>3
  <2>5. HeldByOne' /\ StoredIsHeld' /\ InOneExchange' /\ AnswerIsNew'
    <3>1. HeldByOne' /\ StoredIsHeld'
      BY <1>0, <2>2 DEF Known, HeldByOne, StoredIsHeld
    <3>2. \A q \in Asking \union Answered : exchange'[q] = exchange[q]
      BY <2>3, <2>4 DEF Asking, Answered
    <3>3. InOneExchange'
      BY <1>0, <2>3, <2>4, <3>2 DEF Known, InOneExchange
    <3>4. AnswerIsNew'
      BY <1>0, <2>2, <2>3, <3>2 DEF Known, AnswerIsNew
    <3> QED BY <3>1, <3>3, <3>4
  <2>6. AskedByHolder'
    <3> SUFFICES ASSUME NEW q \in Asking', NEW u \in Tabs, held[u] = exchange'[q].token
                 PROVE  waiting'[u] = q
      BY <2>2 DEF AskedByHolder
    <3>1. CASE q = r
      <4>1. u = t
        BY <1>0, <2>2, <2>3, <3>1 DEF Known, HeldByOne
      <4> QED BY <2>1, <3>1, <4>1 DEF TypeOK
    <3>2. CASE q # r
      <4>1. q \in Asking /\ held[u] = exchange[q].token
        BY <2>3, <3>2 DEF Asking
      <4>2. waiting[u] = q /\ u # t
        BY <1>0, <2>4, <4>1 DEF Known, AskedByHolder
      <4> QED BY <2>1, <4>2 DEF TypeOK
    <3> QED BY <3>1, <3>2
  <2>7. ExchangedIsLive'
    BY <1>0, <2>2, <2>3 DEF Known, ExchangedIsLive, HeldIsLive, Live
  <2>8. HeldIsLive'
    BY <1>0, <2>1, <2>2, NoneAssumption DEF Known, HeldIsLive, Live, TypeOK
  <2> QED BY <2>5, <2>6, <2>7, <2>8 DEF Known
<1>6. CASE Receive(t)
  <2> DEFINE r == waiting[t]
             next == IF exchange[r].step = "ok" THEN exchange[r].token ELSE NoToken
  <2>1. /\ r \in Requests /\ r # None
        /\ held' = [held EXCEPT ![t] = next] /\ stored' = next
        /\ exchange' = [exchange EXCEPT ![r] = Free]
        /\ waiting' = [waiting EXCEPT ![t] = None]
        /\ rows' = rows
    BY <1>6 DEF Receive, TypeOK
  <2>2. /\ \A q \in Requests : q # r => exchange'[q] = exchange[q]
        /\ Asking' = Asking \ {r} /\ Answered' = Answered \ {r}
    BY <2>1 DEF Asking, Answered, Free, TypeOK
  <2>3. next # NoToken => r \in Answered /\ next = exchange[r].token
    BY <2>1 DEF Answered
  <2>4. next # NoToken => \A u \in Tabs : held[u] # next
    BY <1>0, <2>3 DEF Known, AnswerIsNew
  <2>5. HeldByOne' /\ StoredIsHeld'
    BY <1>0, <2>1, <2>4 DEF Known, HeldByOne, StoredIsHeld, TypeOK
  <2>6. InOneExchange'
    BY <1>0, <2>2 DEF Known, InOneExchange, Asking, Answered
  <2>7. \A q \in Asking' \union Answered' : exchange'[q].token # next
    BY <1>0, <1>1, <2>2, <2>3 DEF Known, InOneExchange, Asking, Answered
  <2>8. AnswerIsNew'
    BY <1>0, <2>1, <2>2, <2>7 DEF Known, AnswerIsNew, TypeOK, Answered
  <2>9. AskedByHolder'
    BY <1>0, <2>1, <2>2, <2>7 DEF Known, AskedByHolder, TypeOK, Asking
  <2>10. ExchangedIsLive'
    BY <1>0, <2>1, <2>2 DEF Known, ExchangedIsLive, Live, Free, TypeOK
  <2>11. HeldIsLive'
    BY <1>0, <2>1, <2>3 DEF Known, HeldIsLive, ExchangedIsLive, Live, TypeOK, Answered
  <2> QED BY <2>5, <2>6, <2>8, <2>9, <2>10, <2>11 DEF Known
<1>7. ~Disconnect(t)
  BY DEF Disconnect, Abandoned
<1> QED BY <1>2, <1>3, <1>4, <1>5, <1>6, <1>7

\* TypeOK for any number of tabs, requests and sessions.
THEOREM TypeCorrect == Spec => []TypeOK
<1>1. IInv => TypeOK
  BY DEF IInv
<1> QED BY InitIInv, NextIInv, <1>1, PTL DEF Spec

\* A login has one live session whatever crashes, fails or is replayed, unless two
\* exchanges of one token overlapped: OneSessionPerLogin for any parameters.
THEOREM SessionsAreSingle == Spec => []OneSessionPerLogin
<1>1. IInv => OneSessionPerLogin
  BY DEF IInv, Families
<1> QED BY InitIInv, NextIInv, <1>1, PTL DEF Spec

\* No session outlives a replay that met no exchange under way: ReplayEndsFamily
\* for any parameters.
THEOREM FamiliesEnd == Spec => []ReplayEndsFamily
<1>1. IInv => ReplayEndsFamily
  BY DEF IInv, Families
<1> QED BY InitIInv, NextIInv, <1>1, PTL DEF Spec

\* TokenWorks for any parameters: as long as no answer was lost and no two tabs held
\* the same token, what a tab holds has not been revoked.
THEOREM TokensWork == Spec => []TokenWorks
<1>1. Init => TabsKnow
  BY NoneAssumption
  DEF Init, TabsKnow, Known, HeldByOne, StoredIsHeld, InOneExchange, AskedByHolder, AnswerIsNew,
      ExchangedIsLive, HeldIsLive, Asking, Answered, Free
<1>2. IInv /\ TabsKnow /\ [Next]_vars => TabsKnow'
  <2>1. TabsKnow /\ UNCHANGED vars => TabsKnow'
    BY DEF TabsKnow, Known, HeldByOne, StoredIsHeld, InOneExchange, AskedByHolder, AnswerIsNew,
           ExchangedIsLive, HeldIsLive, Asking, Answered, Live, vars, serverVars, clientVars,
           history
  <2> QED BY <2>1, ServerKnows, TabKnows DEF IInv, Next
<1>3. TabsKnow => TokenWorks
  BY DEF TabsKnow, Known, HeldIsLive, TokenWorks
<1> QED BY InitIInv, NextIInv, <1>1, <1>2, <1>3, PTL DEF Spec
=============================================================================
