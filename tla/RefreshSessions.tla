--------------------------- MODULE RefreshSessions ---------------------------
(***************************************************************************)
(* The sessions of one user: rows of refresh_sessions at the server, the   *)
(* refresh tokens the tabs of a browser hold, and the exchange of one for  *)
(* the next. An exchange is three statements at the server (find, rotate,  *)
(* issue), and its answer may be lost. Tabs share a local storage and each *)
(* keep the token they last saw in memory. A token presented after it was  *)
(* rotated is taken for stolen, and every session of the user is revoked.  *)
(*                                                                         *)
(* A token is the number of its row. Passwords, second factors, hashes and *)
(* access tokens are left out: a tab may refresh at any time.              *)
(***************************************************************************)
EXTENDS Integers, Sequences, FiniteSets

CONSTANTS
    Tabs,         \* tabs of the web application
    Requests,     \* exchanges the server may be handling or have answered
    None,         \* no exchange
    MaxSessions,  \* bound on the rows of refresh_sessions
    MaxLogins,    \* bound on logins
    MaxExpired    \* bound on sessions that expire

ASSUME NoneAssumption == None \notin Requests
ASSUME BoundsAssumption == {MaxSessions, MaxLogins, MaxExpired} \subseteq Nat

NoToken == 0
Free == [step |-> "free", token |-> NoToken]

VARIABLES
    rows,      \* refresh_sessions: the login each descends from, revoked, expired
    exchange,  \* each request: where its handler is, and the token presented or issued
    waiting,   \* refreshInFlight of each tab
    held,      \* the refresh token in each tab's memory
    stored,    \* the one in local storage
    logins,    \* how many logins there were
    raced,     \* history: logins a token of which two exchanges found live
    shared,    \* history: two tabs held the same token
    lost,      \* history: an answer did not arrive
    ended      \* history: logins revoked by a replay while no exchange was under way

serverVars == <<rows, exchange>>
clientVars == <<waiting, held, stored>>
history == <<raced, shared, lost, ended>>
vars == <<serverVars, clientVars, logins, history>>

Init ==
    /\ rows = <<>>
    /\ exchange = [r \in Requests |-> Free]
    /\ waiting = [t \in Tabs |-> None]
    /\ held = [t \in Tabs |-> NoToken]
    /\ stored = NoToken
    /\ logins = 0
    /\ raced = {} /\ ended = {} /\ shared = FALSE /\ lost = FALSE

-----------------------------------------------------------------------------
Sessions == 1..Len(rows)
Live(s) == ~rows[s].revoked
LoginOf(s) == rows[s].login

\* Requests that have found their token live and not yet issued the next one.
Rotating == {r \in Requests : exchange[r].step = "rotate"}
Issuing == {r \in Requests : exchange[r].step = "issue"}
Handled == {r \in Requests : exchange[r].step \in {"find", "rotate", "issue", "revoke"}}

Goto(r, step) == exchange' = [exchange EXCEPT ![r].step = step]

\* The answer goes to the tab that waits for it, or nowhere.
Answer(r, answer) ==
    exchange' = [exchange EXCEPT ![r] =
                    IF \E t \in Tabs : waiting[t] = r THEN answer ELSE Free]
Refused == [step |-> "refused", token |-> NoToken]
Refuse(r) == Answer(r, Refused)

-----------------------------------------------------------------------------
(* AuthService.refresh, one action per statement.                          *)

\* The token itself expires with its row, and that is verified first.
Find(r) ==
    /\ exchange[r].step = "find"
    /\ LET s == exchange[r].token IN
       \/ rows[s].expired /\ Refuse(r) /\ UNCHANGED raced
       \/ /\ ~rows[s].expired /\ rows[s].revoked
          /\ Goto(r, "revoke")
          /\ UNCHANGED raced
       \/ /\ ~rows[s].expired /\ Live(s)
          /\ Goto(r, "rotate")
          /\ raced' = IF \E q \in Rotating \union Issuing : exchange[q].token = s
                      THEN raced \union {LoginOf(s)} ELSE raced
    /\ UNCHANGED <<rows, clientVars, logins, shared, lost, ended>>

\* revokeAllSessions: every row of the user, of whichever login.
RevokeAllSessionsOfToken(r) ==  \* mutant: the family is the presented token
    /\ exchange[r].step = "revoke"
    /\ rows' = [rows EXCEPT ![exchange[r].token].revoked = TRUE]
    /\ Refuse(r)
    /\ ended' = IF Rotating \union Issuing = {} THEN ended \union 1..logins ELSE ended
    /\ UNCHANGED <<clientVars, logins, raced, shared, lost>>

RevokeAllSessions(r) ==
    /\ exchange[r].step = "revoke"
    /\ rows' = [s \in Sessions |-> [rows[s] EXCEPT !.revoked = TRUE]]
    /\ Refuse(r)
    /\ ended' = IF Rotating \union Issuing = {} THEN ended \union 1..logins ELSE ended
    /\ UNCHANGED <<clientVars, logins, raced, shared, lost>>

\* The UPDATE names the row and nothing else: rotating twice goes unnoticed.
RotateNothing(r) ==  \* mutant: the presented token is left as it is
    /\ exchange[r].step = "rotate"
    /\ Goto(r, "issue")
    /\ UNCHANGED <<rows, clientVars, logins, history>>

Rotate(r) ==
    /\ exchange[r].step = "rotate"
    /\ rows' = [rows EXCEPT ![exchange[r].token].revoked = TRUE]
    /\ Goto(r, "issue")
    /\ UNCHANGED <<clientVars, logins, history>>

NewRow(login) == [login |-> login, revoked |-> FALSE, expired |-> FALSE]

\* issueTokens
Issue(r) ==
    /\ exchange[r].step = "issue"
    /\ Len(rows) < MaxSessions
    /\ rows' = Append(rows, NewRow(LoginOf(exchange[r].token)))
    /\ Answer(r, [step |-> "ok", token |-> Len(rows) + 1])
    /\ UNCHANGED <<clientVars, logins, history>>

\* A statement fails. The tab cannot tell the 500 from a refusal.
Fail(r) ==
    /\ r \in Handled
    /\ Refuse(r)
    /\ UNCHANGED <<rows, clientVars, logins, history>>

Expire(s) ==
    /\ ~rows[s].expired
    /\ Cardinality({x \in Sessions : rows[x].expired}) < MaxExpired
    /\ rows' = [rows EXCEPT ![s].expired = TRUE]
    /\ UNCHANGED <<exchange, clientVars, logins, history>>

\* The server restarts: what it was handling ends where it is.
Crash ==
    /\ Handled # {}
    /\ exchange' = [r \in Requests |-> IF r \in Handled THEN Free ELSE exchange[r]]
    /\ waiting' = [t \in Tabs |-> IF waiting[t] \in Handled THEN None ELSE waiting[t]]
    /\ lost' = TRUE
    /\ UNCHANGED <<rows, held, stored, logins, raced, shared, ended>>

-----------------------------------------------------------------------------
(* A tab.                                                                   *)

\* login, setupOwner and completeTwoFactorLogin end in issueTokens, and the tab
\* in setTokens. An exchange may still be in flight from before a logout.
Login(t) ==
    /\ held[t] = NoToken
    /\ logins < MaxLogins /\ Len(rows) < MaxSessions
    /\ logins' = logins + 1
    /\ rows' = Append(rows, NewRow(logins'))
    /\ held' = [held EXCEPT ![t] = Len(rows')]
    /\ stored' = Len(rows')
    /\ UNCHANGED <<exchange, waiting, history>>

\* The tab forgets its tokens and tells nobody.
Logout(t) ==
    /\ held[t] # NoToken
    /\ held' = [held EXCEPT ![t] = NoToken]
    /\ stored' = NoToken
    /\ UNCHANGED <<serverVars, waiting, logins, history>>

\* The page is opened or loaded again: an exchange in flight is abandoned, and
\* the server handles it to its end.
AbandonedStillAwaited(t) ==  \* mutant: refreshInFlight outlives an exchange that failed
    /\ exchange' = [r \in Requests |->
          IF waiting[t] = r /\ r \notin Handled THEN Free ELSE exchange[r]]
    /\ lost' = (lost \/ waiting[t] # None)
    /\ UNCHANGED waiting

Abandoned(t) ==
    /\ exchange' = [r \in Requests |->
          IF waiting[t] = r /\ r \notin Handled THEN Free ELSE exchange[r]]
    /\ waiting' = [waiting EXCEPT ![t] = None]
    /\ lost' = (lost \/ waiting[t] # None)

Open(t) ==
    /\ held' = [held EXCEPT ![t] = stored]
    /\ shared' = (shared \/ \E u \in Tabs \ {t} : held[u] = stored /\ stored # NoToken)
    /\ Abandoned(t)
    /\ UNCHANGED <<rows, stored, logins, raced, ended>>

\* refreshAccessToken: one exchange at a time, however many calls wait for it.
RefreshPerCall(t) ==  \* mutant: each call that was refused exchanges the token itself
    /\ held[t] # NoToken
    /\ \E r \in Requests :
        /\ exchange[r] = Free
        /\ exchange' = [exchange EXCEPT ![r] = [step |-> "find", token |-> held[t]]]
        /\ waiting' = [waiting EXCEPT ![t] = r]
    /\ UNCHANGED <<rows, held, stored, logins, history>>

Refresh(t) ==
    /\ waiting[t] = None
    /\ held[t] # NoToken
    /\ \E r \in Requests :
        /\ exchange[r] = Free
        /\ exchange' = [exchange EXCEPT ![r] = [step |-> "find", token |-> held[t]]]
        /\ waiting' = [waiting EXCEPT ![t] = r]
    /\ UNCHANGED <<rows, held, stored, logins, history>>

\* setTokens, or clearTokens and onAuthFailure, whatever happened to the tab's
\* tokens since the request was sent.
Receive(t) ==
    /\ waiting[t] # None
    /\ LET answer == exchange[waiting[t]]
           next == IF answer.step = "ok" THEN answer.token ELSE NoToken
       IN  /\ answer.step \in {"ok", "refused"}
           /\ held' = [held EXCEPT ![t] = next]
           /\ stored' = next
    /\ exchange' = [exchange EXCEPT ![waiting[t]] = Free]
    /\ waiting' = [waiting EXCEPT ![t] = None]
    /\ UNCHANGED <<rows, logins, history>>

\* The connection breaks; the tab keeps its token and may try again.
Disconnect(t) ==
    /\ waiting[t] # None
    /\ Abandoned(t)
    /\ UNCHANGED <<rows, held, stored, logins, raced, shared, ended>>

-----------------------------------------------------------------------------
ServerStep ==
    \/ \E r \in Requests : Find(r) \/ RevokeAllSessions(r) \/ Rotate(r) \/ Issue(r) \/ Fail(r)
    \/ \E s \in Sessions : Expire(s)
    \/ Crash

TabStep ==
    \E t \in Tabs :
        Login(t) \/ Logout(t) \/ Open(t) \/ Refresh(t) \/ Receive(t) \/ Disconnect(t)

Next == ServerStep \/ TabStep

Spec == Init /\ [][Next]_vars

-----------------------------------------------------------------------------
Tokens == {NoToken} \union Sessions
Steps == {"free", "find", "rotate", "issue", "revoke", "ok", "refused"}

\* Types; a token anybody holds or presents is one that was issued.
TypeOK ==
    /\ rows \in Seq([login : 1..logins, revoked : BOOLEAN, expired : BOOLEAN])
    /\ exchange \in [Requests -> [step : Steps, token : Tokens]]
    /\ \A r \in Requests : exchange[r] \notin {Free, Refused} => exchange[r].token \in Sessions
    /\ waiting \in [Tabs -> Requests \union {None}]
    /\ \A t \in Tabs : waiting[t] # None => exchange[waiting[t]].step # "free"
    /\ held \in [Tabs -> Tokens] /\ stored \in Tokens
    /\ logins \in Nat
    /\ raced \subseteq 1..logins /\ ended \subseteq 1..logins
    /\ shared \in BOOLEAN /\ lost \in BOOLEAN

\* "rotated on every use": a login has one live session, through crashes, lost
\* answers and replays, unless two exchanges of one token overlapped.
OneSessionPerLogin ==
    \A s1, s2 \in Sessions :
        Live(s1) /\ Live(s2) /\ LoginOf(s1) = LoginOf(s2) /\ LoginOf(s1) \notin raced => s1 = s2

\* "a replayed token revokes the family": no session of any login survives a
\* replay that met no exchange between its SELECT and its INSERT.
ReplayEndsFamily == \A s \in Sessions : LoginOf(s) \in ended => ~Live(s)

\* "refreshes access tokens automatically when needed": the token of a tab is one
\* the server has not revoked, as long as no answer was lost and no two tabs held
\* the same token. One exchange in flight per tab is what this rests on.
TokenWorks ==
    ~lost /\ ~shared =>
        \A t \in Tabs : held[t] # NoToken /\ waiting[t] = None => Live(held[t])
=============================================================================
