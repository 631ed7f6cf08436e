------------------------------ MODULE Accounts -----------------------------
(***************************************************************************)
(* Accounts, sessions and API tokens of the web server                     *)
(* (handlers_auth.go, session.go, handlers_tokens.go, handlers_dashboard.go*)
(* in internal/web) and the browsers that use them.                        *)
(*                                                                         *)
(* The tabs of a browser share one cookie, and a dashboard stays in its    *)
(* tab while another tab logs out or in.  A request finds its user in the  *)
(* session store first and asks the database later; call is a request      *)
(* between the two.  Sessions live in memory only.  A response may be lost *)
(* after the handler has done its work.                                    *)
(***************************************************************************)
EXTENDS Naturals

CONSTANTS
    Users, Browsers,
    SessionIds,    \* the random ids that are ever drawn
    Tokens,        \* rows of api_tokens
    Nobody,        \* no user, no session, no token
    MaxErrors,     \* bound: database errors
    MaxLost,       \* bound: responses that do not arrive
    MaxRestarts    \* bound: restarts of the server

ASSUME AccountsAssumption ==
    /\ Nobody \notin Users \cup SessionIds \cup Tokens
    /\ MaxErrors \in Nat /\ MaxLost \in Nat /\ MaxRestarts \in Nat

VARIABLES
    \* database
    users,        \* rows of users
    tokenOwner,   \* api_tokens.user_id (Nobody: no row)
    revoked,      \* api_tokens.revoked
    \* server
    sessions,     \* SessionStore.sessions (Nobody: no entry)
    call,         \* [Browsers -> the request of the browser that is being served]
    \* browser
    cookie,       \* session_id
    listed,       \* tokens with a Revoke button on the browser's dashboard
    who,          \* history: the user who logged in last
    \* bounds and history
    drawn,        \* session ids drawn so far
    errors, lost, restarts

dbVars      == <<users, tokenOwner, revoked>>
browserVars == <<cookie, listed, who>>
accountBounds == <<errors, lost, restarts>>
accountVars == <<dbVars, sessions, call, browserVars, drawn, accountBounds>>

NoCall == [kind |-> "none", user |-> Nobody, session |-> Nobody, token |-> Nobody, by |-> Nobody]

AccountsInit ==
    /\ users = {} /\ tokenOwner = [t \in Tokens |-> Nobody] /\ revoked = {}
    /\ sessions = [i \in SessionIds |-> Nobody]
    /\ call = [b \in Browsers |-> NoCall]
    /\ cookie = [b \in Browsers |-> Nobody]
    /\ listed = [b \in Browsers |-> {}]
    /\ who = [b \in Browsers |-> Nobody]
    /\ drawn = {}
    /\ errors = 0 /\ lost = 0 /\ restarts = 0

(* What the browser does with the response, if it gets one.                *)
Respond(effect, none) ==
    \/ effect /\ UNCHANGED lost
    \/ none /\ lost < MaxLost /\ lost' = lost + 1

Error == errors < MaxErrors /\ errors' = errors + 1

---------------------------------------------------------------------------
(* Signing up, in and out: handlers_auth.go and session.go.                *)

(* username and email are UNIQUE.                                          *)
Signup(u) ==
    /\ u \notin users /\ users' = users \cup {u}
    /\ UNCHANGED <<tokenOwner, revoked, sessions, call, browserVars, drawn, accountBounds>>

(* generateSessionID: 32 random bytes, so an id is never drawn twice.      *)
MutCounter(i) == sessions[i] = Nobody
NewId(i) == i \notin drawn

SetCookie(b, i, u) == cookie' = [cookie EXCEPT ![b] = i] /\ who' = [who EXCEPT ![b] = u]

(* The session the browser had before stays in the store.                  *)
Login(b, u, i) ==
    /\ u \in users /\ NewId(i)
    /\ drawn' = drawn \cup {i}
    /\ sessions' = [sessions EXCEPT ![i] = u]
    /\ Respond(SetCookie(b, i, u), UNCHANGED <<cookie, who>>)
    /\ UNCHANGED <<dbVars, call, listed, errors, restarts>>

DropCookie(b) == cookie' = [cookie EXCEPT ![b] = Nobody]

(* clearSession; another tab may have changed the cookie since the request *)
(* was sent, and loses it all the same.                                    *)
ClearSession(b, i) ==
    /\ sessions' = [sessions EXCEPT ![i] = Nobody]
    /\ Respond(DropCookie(b), UNCHANGED cookie)

Logout(b) ==
    /\ cookie[b] # Nobody
    /\ ClearSession(b, cookie[b])
    /\ UNCHANGED <<dbVars, call, listed, who, drawn, errors, restarts>>

---------------------------------------------------------------------------
(* The dashboard and its tokens.                                           *)

(* getCurrentUserID.                                                       *)
MutCookieIsUser(b) == cookie[b]
CurrentUser(b) == IF cookie[b] = Nobody THEN Nobody ELSE sessions[cookie[b]]

(* A request with a live session; others are turned away without effect.   *)
Request(b, kind, t) ==
    /\ call[b] = NoCall /\ CurrentUser(b) # Nobody
    /\ kind = "revoke" <=> t \in listed[b]
    /\ kind # "revoke" => t = Nobody
    /\ call' = [call EXCEPT ![b] = [kind |-> kind, user |-> CurrentUser(b),
                                    session |-> cookie[b], token |-> t, by |-> who[b]]]
    /\ UNCHANGED <<dbVars, sessions, browserVars, drawn, accountBounds>>

Serve(b, kind) == call[b].kind = kind /\ call' = [call EXCEPT ![b] = NoCall]

Fails(b, kind) == Serve(b, kind) /\ Error

Show(b, ts) == listed' = [listed EXCEPT ![b] = ts]

TokensOf(u) == {t \in Tokens \ revoked : tokenOwner[t] = u}

HandleDashboard(b) ==
    /\ Serve(b, "dashboard")
    /\ Respond(Show(b, TokensOf(call[b].user)), UNCHANGED listed)
    /\ UNCHANGED <<dbVars, sessions, cookie, who, drawn, errors, restarts>>

(* An error of the first query is taken for an invalid session ...         *)
DashboardLogsOut(b) ==
    /\ Fails(b, "dashboard")
    /\ ClearSession(b, call[b].session)
    /\ UNCHANGED <<dbVars, listed, who, drawn, restarts>>

(* ... and one of the second for a user without tokens.                    *)
DashboardWithoutTokens(b) ==
    /\ Fails(b, "dashboard")
    /\ Show(b, {})
    /\ UNCHANGED <<dbVars, sessions, cookie, who, drawn, lost, restarts>>

(* The secret is in the response and nowhere else.                         *)
HandleCreateToken(b, t) ==
    /\ Serve(b, "create")
    /\ tokenOwner[t] = Nobody
    /\ tokenOwner' = [tokenOwner EXCEPT ![t] = call[b].user]
    /\ Respond(Show(b, listed[b] \cup {t}), UNCHANGED listed)
    /\ UNCHANGED <<users, revoked, sessions, cookie, who, drawn, errors, restarts>>

(* UPDATE api_tokens ... WHERE id = $1 AND user_id = $2; without a row the *)
(* answer is an error.                                                     *)
MutAnyRow(t, u) == TRUE
Row(t, u) == tokenOwner[t] = u

HandleRevokeToken(b) ==
    LET t == call[b].token IN
    /\ Serve(b, "revoke")
    /\ \/ /\ Row(t, call[b].user)
          /\ revoked' = revoked \cup {t}
          /\ Respond(Show(b, listed[b] \ {t}), UNCHANGED listed)
       \/ ~Row(t, call[b].user) /\ UNCHANGED <<revoked, listed, lost>>
    /\ UNCHANGED <<users, tokenOwner, sessions, cookie, who, drawn, errors, restarts>>

(* The statement fails; nothing was written.                               *)
TokenRequestFails(b) ==
    /\ Fails(b, "create") \/ Fails(b, "revoke")
    /\ UNCHANGED <<dbVars, sessions, browserVars, drawn, lost, restarts>>

---------------------------------------------------------------------------
(* The server is restarted; browsers keep cookies and pages.               *)
Restart ==
    /\ restarts < MaxRestarts /\ restarts' = restarts + 1
    /\ sessions' = [i \in SessionIds |-> Nobody]
    /\ call' = [b \in Browsers |-> NoCall]
    /\ UNCHANGED <<dbVars, browserVars, drawn, errors, lost>>

AccountsNext ==
    \/ \E u \in Users : Signup(u)
    \/ \E b \in Browsers :
          \/ \E u \in Users, i \in SessionIds : Login(b, u, i)
          \/ Logout(b)
          \/ \E kind \in {"dashboard", "create", "revoke"}, t \in Tokens \cup {Nobody} :
                Request(b, kind, t)
          \/ HandleDashboard(b) \/ DashboardLogsOut(b) \/ DashboardWithoutTokens(b)
          \/ \E t \in Tokens : HandleCreateToken(b, t)
          \/ HandleRevokeToken(b) \/ TokenRequestFails(b)
    \/ Restart

AccountsSpec == AccountsInit /\ [][AccountsNext]_accountVars
---------------------------------------------------------------------------
(* Correctness.                                                            *)

(* Every variable has its type.                                            *)
AccountsTypeOK ==
    /\ users \subseteq Users /\ revoked \subseteq Tokens /\ drawn \subseteq SessionIds
    /\ tokenOwner \in [Tokens -> Users \cup {Nobody}]
    /\ sessions \in [SessionIds -> Users \cup {Nobody}]
    /\ call \in [Browsers -> [kind : {"none", "dashboard", "create", "revoke"},
                              user : Users \cup {Nobody}, session : SessionIds \cup {Nobody},
                              token : Tokens \cup {Nobody}, by : Users \cup {Nobody}]]
    /\ cookie \in [Browsers -> SessionIds \cup {Nobody}]
    /\ listed \in [Browsers -> SUBSET Tokens]
    /\ who \in [Browsers -> Users \cup {Nobody}]
    /\ errors \in Nat /\ lost \in Nat /\ restarts \in Nat

(* A browser acts for nobody but the user who last logged in there: a      *)
(* cookie that outlived a restart, a lost response or another login never  *)
(* becomes somebody else's session.                                        *)
SessionIsOwn == \A b \in Browsers : CurrentUser(b) \in {who[b], Nobody}

(* A token is revoked only on the click of its owner, although a stale     *)
(* dashboard shows buttons for the tokens of a user who has logged out.    *)
RevokedByOwner ==
    [][\A t \in revoked' \ revoked :
          \E b \in Browsers : call[b].token = t /\ call[b].by = tokenOwner[t]]_accountVars

---------------------------------------------------------------------------
(* What makes both inductive.                                              *)

(* Only ids that were drawn are in use, and a request in service was made  *)
(* for the user who had logged in.                                         *)
OnlyDrawn ==
    /\ \A i \in SessionIds : sessions[i] # Nobody => i \in drawn
    /\ \A b \in Browsers : cookie[b] # Nobody => cookie[b] \in drawn

CallIsOwn ==
    \A b \in Browsers :
        /\ call[b].kind # "none" => call[b].user = call[b].by
        /\ call[b].kind = "revoke" => call[b].token \in Tokens

AccountsInv == AccountsTypeOK /\ OnlyDrawn /\ CallIsOwn /\ SessionIsOwn
=============================================================================
