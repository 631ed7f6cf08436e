----------------------------- MODULE WebProofs -----------------------------
(***************************************************************************)
(* Proofs about the web server's accounts and pages, for any number of     *)
(* users, browsers, sessions, tokens, jobs and shards.                     *)
(*                                                                         *)
(* Accounts: a cookie outlives the session it named; what keeps it         *)
(* harmless is that ids in use were drawn, and a drawn id is never drawn   *)
(* again (OnlyDrawn).                                                      *)
(*                                                                         *)
(* JobView: the two queries of an answer are not one snapshot; they fit    *)
(* together since the job is read first and what backs a verdict never     *)
(* changes after it (HalfRead).  That the tables keep verdicts is          *)
(* Verdicts, which Scheduler implements (VerdictProofs).                   *)
(***************************************************************************)
EXTENDS MCWeb, TLAPS

---------------------------------------------------------------------------
(* Accounts.                                                               *)

(* No session and no cookie appears, and nobody else is logged in.         *)
LEMMA KeepSessions ==
    ASSUME OnlyDrawn, SessionIsOwn, UNCHANGED <<who, drawn>>,
           \A i \in SessionIds : sessions'[i] \in {sessions[i], Nobody},
           \A b \in Browsers : cookie'[b] \in {cookie[b], Nobody},
           \A b \in Browsers : cookie[b] \in SessionIds \cup {Nobody}
    PROVE  OnlyDrawn' /\ SessionIsOwn'
BY AccountsAssumption DEF OnlyDrawn, SessionIsOwn, CurrentUser

(* A login draws a new id: whatever old cookies name, it is not that.      *)
LEMMA LoginSessions ==
    ASSUME AccountsTypeOK, OnlyDrawn, SessionIsOwn, NEW b \in Browsers, NEW u \in Users,
           NEW i \in SessionIds, Login(b, u, i)
    PROVE  OnlyDrawn' /\ SessionIsOwn'
<1> USE AccountsAssumption
<1>1. i \notin drawn /\ drawn' = drawn \cup {i} /\ i # Nobody
  BY DEF Login, NewId
<1>2. \A k \in SessionIds : sessions'[k] = IF k = i THEN u ELSE sessions[k]
  BY DEF Login, AccountsTypeOK
<1>3. CASE UNCHANGED <<cookie, who>>
  BY <1>1, <1>2, <1>3 DEF OnlyDrawn, SessionIsOwn, CurrentUser, AccountsTypeOK
<1>4. CASE SetCookie(b, i, u)
  <2>1. \A d \in Browsers : /\ cookie'[d] = IF d = b THEN i ELSE cookie[d]
                            /\ who'[d] = IF d = b THEN u ELSE who[d]
    BY <1>4 DEF SetCookie, AccountsTypeOK
  <2> QED
    BY <1>1, <1>2, <2>1 DEF OnlyDrawn, SessionIsOwn, CurrentUser, AccountsTypeOK
<1> QED
  BY <1>3, <1>4 DEF Login, Respond

(* clearSession takes a session and a cookie away.                         *)
LEMMA ClearSessions ==
    ASSUME AccountsTypeOK, OnlyDrawn, SessionIsOwn, NEW b \in Browsers,
           NEW i \in SessionIds \cup {Nobody}, ClearSession(b, i), UNCHANGED <<who, drawn>>
    PROVE  OnlyDrawn' /\ SessionIsOwn'
<1>1. \A k \in SessionIds : sessions'[k] \in {sessions[k], Nobody}
  BY DEF ClearSession, AccountsTypeOK
<1>2. \A d \in Browsers : cookie'[d] \in {cookie[d], Nobody}
  BY DEF ClearSession, Respond, DropCookie, AccountsTypeOK
<1> QED
  BY <1>1, <1>2, KeepSessions DEF AccountsTypeOK

(* Requests in service stay what they are, or end.                         *)
LEMMA KeepCalls ==
    ASSUME CallIsOwn, \A b \in Browsers : call'[b] \in {call[b], NoCall}
    PROVE  CallIsOwn'
BY DEF CallIsOwn, NoCall

(* Every action keeps the invariant.                                       *)
LEMMA AccountsStep == AccountsInv /\ AccountsNext => AccountsInv'
<1> SUFFICES ASSUME AccountsInv, AccountsNext PROVE AccountsInv'
  OBVIOUS
<1> USE AccountsAssumption
    DEF AccountsInv, dbVars, browserVars, accountBounds
<1>1. ASSUME AccountsTypeOK', UNCHANGED <<sessions, cookie, who, drawn>>,
             \A b \in Browsers : call'[b] \in {call[b], NoCall}
      PROVE  AccountsInv'
  BY <1>1, KeepSessions, KeepCalls DEF AccountsTypeOK
<1>2. ASSUME NEW b \in Browsers, NEW kind \in {"dashboard", "create", "revoke"}, Serve(b, kind)
      PROVE  /\ \A d \in Browsers : call'[d] \in {call[d], NoCall}
             /\ call' \in [Browsers -> [kind : {"none", "dashboard", "create", "revoke"},
                              user : Users \cup {Nobody}, session : SessionIds \cup {Nobody},
                              token : Tokens \cup {Nobody}, by : Users \cup {Nobody}]]
             /\ call[b].user \in Users \cup {Nobody} /\ call[b].token \in Tokens \cup {Nobody}
             /\ call[b].session \in SessionIds \cup {Nobody}
  BY <1>2 DEF Serve, NoCall, AccountsTypeOK
<1>3. ASSUME NEW b \in Browsers, NEW ts \in SUBSET Tokens, Respond(Show(b, ts), UNCHANGED listed)
      PROVE  listed' \in [Browsers -> SUBSET Tokens] /\ lost' \in Nat
  BY <1>3 DEF Respond, Show, AccountsTypeOK
<1>4. ASSUME NEW u \in Users, Signup(u) PROVE AccountsInv'
  BY <1>1, <1>4 DEF Signup, AccountsTypeOK
<1>5. ASSUME NEW b \in Browsers, NEW u \in Users, NEW i \in SessionIds, Login(b, u, i)
      PROVE  AccountsInv'
  <2>1. AccountsTypeOK'
    BY <1>5 DEF Login, Respond, SetCookie, AccountsTypeOK
  <2>2. call' = call
    BY <1>5 DEF Login
  <2> QED
    BY <1>5, <2>1, <2>2, LoginSessions, KeepCalls
<1>6. ASSUME NEW b \in Browsers, NEW i \in SessionIds \cup {Nobody}, ClearSession(b, i)
      PROVE  /\ sessions' \in [SessionIds -> Users \cup {Nobody}] /\ lost' \in Nat
             /\ cookie' \in [Browsers -> SessionIds \cup {Nobody}]
  <2>1. sessions' \in [SessionIds -> Users \cup {Nobody}]
    BY <1>6 DEF ClearSession, AccountsTypeOK
  <2>2. CASE DropCookie(b) /\ UNCHANGED lost
    BY <2>1, <2>2 DEF DropCookie, AccountsTypeOK
  <2>3. CASE UNCHANGED cookie /\ lost' = lost + 1
    BY <2>1, <2>3 DEF AccountsTypeOK
  <2> QED
    BY <1>6, <2>2, <2>3 DEF ClearSession, Respond
<1>7. ASSUME NEW b \in Browsers, Logout(b) PROVE AccountsInv'
  <2>1. cookie[b] \in SessionIds \cup {Nobody} /\ ClearSession(b, cookie[b])
    BY <1>7 DEF Logout, AccountsTypeOK
  <2>2. AccountsTypeOK'
    BY <1>6, <1>7, <2>1 DEF Logout, AccountsTypeOK
  <2>3. UNCHANGED <<call, who, drawn>>
    BY <1>7 DEF Logout
  <2> QED
    BY <2>1, <2>2, <2>3, ClearSessions, KeepCalls
<1>8. ASSUME NEW b \in Browsers, NEW kind \in {"dashboard", "create", "revoke"},
             NEW t \in Tokens \cup {Nobody}, Request(b, kind, t)
      PROVE  AccountsInv'
  <2>1. CurrentUser(b) \in Users /\ cookie[b] \in SessionIds
    BY <1>8 DEF Request, CurrentUser, AccountsTypeOK
  <2>2. CurrentUser(b) = who[b]
    BY <1>8 DEF Request, SessionIsOwn
  <2>3. AccountsTypeOK'
    BY <1>8, <2>1 DEF Request, AccountsTypeOK
  <2>4. kind = "revoke" => t \in Tokens
    BY <1>8 DEF Request, AccountsTypeOK
  <2>6. CallIsOwn'
    BY <1>8, <2>2, <2>4 DEF Request, CallIsOwn, AccountsTypeOK
  <2>5. UNCHANGED <<sessions, cookie, who, drawn>>
    BY <1>8 DEF Request
  <2> QED
    BY <2>3, <2>5, <2>6, KeepSessions DEF AccountsTypeOK
<1>9. ASSUME NEW b \in Browsers, HandleDashboard(b) PROVE AccountsInv'
  <2>1. TokensOf(call[b].user) \in SUBSET Tokens
    BY DEF TokensOf
  <2>2. AccountsTypeOK'
    BY <1>2, <1>3, <1>9, <2>1 DEF HandleDashboard, AccountsTypeOK
  <2> QED
    BY <1>1, <1>2, <1>9, <2>2 DEF HandleDashboard
<1>10. ASSUME NEW b \in Browsers, DashboardLogsOut(b) PROVE AccountsInv'
  <2>1. Serve(b, "dashboard") /\ ClearSession(b, call[b].session)
    BY <1>10 DEF DashboardLogsOut, Fails
  <2>2. AccountsTypeOK'
    BY <1>2, <1>6, <1>10, <2>1 DEF DashboardLogsOut, Fails, Error, AccountsTypeOK
  <2>3. UNCHANGED <<who, drawn>>
    BY <1>10 DEF DashboardLogsOut
  <2>4. CallIsOwn'
    BY <1>2, <2>1, KeepCalls
  <2>5. call[b].session \in SessionIds \cup {Nobody}
    BY <1>2, <2>1
  <2> QED
    BY <2>1, <2>2, <2>3, <2>4, <2>5, ClearSessions
<1>11. ASSUME NEW b \in Browsers, DashboardWithoutTokens(b) PROVE AccountsInv'
  <2>1. Serve(b, "dashboard")
    BY <1>11 DEF DashboardWithoutTokens, Fails
  <2>2. AccountsTypeOK'
    BY <1>2, <1>11, <2>1 DEF DashboardWithoutTokens, Fails, Error, Show, AccountsTypeOK
  <2> QED
    BY <1>1, <1>2, <1>11, <2>1, <2>2 DEF DashboardWithoutTokens
<1>12. ASSUME NEW b \in Browsers, NEW t \in Tokens, HandleCreateToken(b, t) PROVE AccountsInv'
  <2>1. Serve(b, "create") /\ listed[b] \cup {t} \in SUBSET Tokens
    BY <1>12 DEF HandleCreateToken, AccountsTypeOK
  <2>2. AccountsTypeOK'
    BY <1>2, <1>3, <1>12, <2>1 DEF HandleCreateToken, AccountsTypeOK
  <2> QED
    BY <1>1, <1>2, <1>12, <2>1, <2>2 DEF HandleCreateToken
<1>13. ASSUME NEW b \in Browsers, HandleRevokeToken(b) PROVE AccountsInv'
  <2> DEFINE t == call[b].token
  <2>1. Serve(b, "revoke") /\ listed[b] \ {t} \in SUBSET Tokens
    BY <1>13 DEF HandleRevokeToken, AccountsTypeOK
  <2>2. listed' \in [Browsers -> SUBSET Tokens] /\ lost' \in Nat
    BY <1>3, <1>13, <2>1 DEF HandleRevokeToken, AccountsTypeOK
  <2>3. revoked' \subseteq Tokens
    <3>1. CASE revoked' = revoked \cup {t}
      BY <2>1, <3>1 DEF Serve, CallIsOwn, AccountsTypeOK
    <3>2. CASE revoked' = revoked
      BY <3>2 DEF AccountsTypeOK
    <3> QED
      BY <1>13, <3>1, <3>2 DEF HandleRevokeToken
  <2>4. AccountsTypeOK'
    BY <1>2, <1>13, <2>1, <2>2, <2>3 DEF HandleRevokeToken, AccountsTypeOK
  <2> QED
    BY <1>1, <1>2, <1>13, <2>1, <2>4 DEF HandleRevokeToken
<1>14. ASSUME NEW b \in Browsers, TokenRequestFails(b) PROVE AccountsInv'
  <2>1. PICK kind \in {"create", "revoke"} : Serve(b, kind) /\ Error
    BY <1>14 DEF TokenRequestFails, Fails
  <2>2. AccountsTypeOK'
    BY <1>2, <1>14, <2>1 DEF TokenRequestFails, Error, AccountsTypeOK
  <2> QED
    BY <1>1, <1>2, <1>14, <2>1, <2>2 DEF TokenRequestFails
<1>15. CASE Restart
  <2>1. AccountsTypeOK'
    BY <1>15 DEF Restart, NoCall, AccountsTypeOK
  <2> QED
    BY <1>15, <2>1, KeepSessions, KeepCalls DEF Restart, AccountsTypeOK
<1> QED
  BY <1>4, <1>5, <1>7, <1>8, <1>9, <1>10, <1>11, <1>12, <1>13, <1>14, <1>15 DEF AccountsNext

---------------------------------------------------------------------------
(* The server starts without users, sessions and tokens.                   *)
LEMMA AccountsStart == AccountsInit => AccountsInv
BY AccountsAssumption
   DEF AccountsInit, AccountsInv, AccountsTypeOK, OnlyDrawn, CallIsOwn, SessionIsOwn,
       CurrentUser, NoCall

(* A step of another part, or none, keeps the invariant.                 *)
LEMMA AccountsStutter == AccountsInv /\ UNCHANGED accountVars => AccountsInv'
BY DEF accountVars, dbVars, browserVars, accountBounds, AccountsInv, AccountsTypeOK,
   OnlyDrawn, CallIsOwn, SessionIsOwn, CurrentUser

(* The inductive invariant of accounts, sessions and tokens.               *)
THEOREM AccountsInductive == AccountsSpec => []AccountsInv
BY AccountsStart, AccountsStep, AccountsStutter, PTL DEF AccountsSpec

(* session_id never names a session of another user than the one who       *)
(* logged in with the browser, whatever is lost and restarted.             *)
THEOREM SessionsStayOwn == AccountsSpec => []SessionIsOwn
<1>1. AccountsInv => SessionIsOwn
  BY DEF AccountsInv
<1> QED
  BY <1>1, AccountsInductive, PTL

(* HandleRevokeToken revokes nothing but tokens of the user who clicked.   *)
THEOREM RevocationIsOwn == AccountsSpec => RevokedByOwner
<1> DEFINE Own == \A t \in revoked' \ revoked :
              \E b \in Browsers : call[b].token = t /\ call[b].by = tokenOwner[t]
<1>1. AccountsInv /\ [AccountsNext]_accountVars => [Own]_accountVars
  <2> SUFFICES ASSUME AccountsInv, AccountsNext PROVE Own
    OBVIOUS
  <2>1. ASSUME NEW b \in Browsers, HandleRevokeToken(b) PROVE Own
    <3>1. call[b].kind = "revoke"
      BY <2>1 DEF HandleRevokeToken, Serve
    <3>2. call[b].by = call[b].user
      BY <3>1 DEF AccountsInv, CallIsOwn
    <3> QED
      BY <2>1, <3>2 DEF HandleRevokeToken, Row
  <2>2. ASSUME revoked' = revoked PROVE Own
    BY <2>2
  <2> QED
    BY <2>1, <2>2
       DEF AccountsNext, Signup, Login, Logout, Request, HandleDashboard, DashboardLogsOut,
           DashboardWithoutTokens, HandleCreateToken, TokenRequestFails, Restart, dbVars
<1> QED
  BY <1>1, AccountsInductive, PTL DEF AccountsSpec, RevokedByOwner

---------------------------------------------------------------------------
(* The page of a job.                                                      *)

Results == {"none", "sat", "unsat"}

(* A farm step writes results of undecided shards only, leaves a final job *)
(* final and its verdict as it is, and keeps every verdict backed.         *)
LEMMA FarmKeeps ==
    ASSUME ViewTypeOK, TablesBacked, Tables!Next
    PROVE  /\ TablesBacked'
           /\ shardRes' \in [Shards -> Results]
           /\ jobStatus' \in [Jobs -> {"pending", "completed", "failed"}]
           /\ jobRes' \in [Jobs -> {None, Unsat} \cup Shards]
           /\ \A s \in Shards : shardRes[s] # "none" => shardRes'[s] = shardRes[s]
           /\ \A s \in Shards : jobStatus[JobOf[s]] = "failed" => shardRes'[s] = shardRes[s]
           /\ \A j \in Jobs : Final(jobStatus[j]) =>
                 jobStatus'[j] = jobStatus[j] /\ jobRes'[j] = jobRes[j]
<1> USE ViewAssumption DEF ViewTypeOK, Results, Final
<1>1. ASSUME NEW j \in Jobs, Tables!Reject(j)
      PROVE  /\ \A k \in Jobs : jobStatus'[k] = IF k = j THEN "failed" ELSE jobStatus[k]
             /\ UNCHANGED <<shardRes, jobRes>> /\ jobStatus[j] = "pending"
             /\ jobStatus' \in [Jobs -> {"pending", "completed", "failed"}]
             /\ \A s \in Shards : JobOf[s] = j => shardRes[s] = "none"
  BY <1>1 DEF Tables!Reject
<1>2. ASSUME NEW s \in Shards, NEW v \in {"sat", "unsat"}, Tables!Undecided(s),
             shardRes' = [shardRes EXCEPT ![s] = v]
      PROVE  /\ \A t \in Shards : shardRes'[t] = IF t = s THEN v ELSE shardRes[t]
             /\ shardRes' \in [Shards -> Results]
             /\ shardRes[s] = "none" /\ jobStatus[JobOf[s]] # "failed" /\ JobOf[s] \in Jobs
  BY <1>2 DEF Tables!Undecided
<1>3. ASSUME NEW j \in Jobs, Tables!Reject(j), jobRes[j] # None PROVE FALSE
  BY <1>1, <1>3 DEF TablesBacked
<1>4. ASSUME NEW j \in Jobs, Tables!Reject(j) PROVE TablesBacked'
  BY <1>1, <1>3, <1>4 DEF TablesBacked
<1>5. ASSUME NEW s \in Shards, Tables!StoreSat(s)
      PROVE  /\ \A k \in Jobs : /\ jobRes'[k] = IF k = JobOf[s] /\ jobRes[k] = None THEN s ELSE jobRes[k]
                                /\ jobStatus'[k] = IF k = JobOf[s] THEN "completed" ELSE jobStatus[k]
             /\ jobStatus' \in [Jobs -> {"pending", "completed", "failed"}]
             /\ jobRes' \in [Jobs -> {None, Unsat} \cup Shards]
  BY <1>5 DEF Tables!StoreSat, Tables!FirstModel
<1>6. ASSUME NEW s \in Shards, Tables!StoreSat(s) PROVE TablesBacked'
  <2>1. Tables!Undecided(s) /\ shardRes' = [shardRes EXCEPT ![s] = "sat"]
    BY <1>6 DEF Tables!StoreSat
  <2>2. /\ shardRes[s] = "none" /\ jobStatus[JobOf[s]] # "failed" /\ JobOf[s] \in Jobs
        /\ \A t \in Shards : shardRes'[t] = IF t = s THEN "sat" ELSE shardRes[t]
    BY <1>2, <2>1
  <2>3. jobRes[JobOf[s]] # Unsat
    BY <2>2 DEF TablesBacked
  <2> QED
    BY <1>5, <1>6, <2>2, <2>3 DEF TablesBacked
<1>7. ASSUME NEW s \in Shards, Tables!CommitShard(s) PROVE TablesBacked'
  <2>1. Tables!Undecided(s) /\ shardRes' = [shardRes EXCEPT ![s] = "unsat"]
        /\ UNCHANGED <<jobStatus, jobRes>>
    BY <1>7 DEF Tables!CommitShard
  <2>2. /\ \A t \in Shards : shardRes'[t] = IF t = s THEN "unsat" ELSE shardRes[t]
        /\ shardRes[s] = "none" /\ jobStatus[JobOf[s]] # "failed"
    BY <1>2, <2>1
  <2>3. ASSUME NEW j \in Jobs
        PROVE  /\ jobRes'[j] = Unsat => \A t \in Shards : JobOf[t] = j => shardRes'[t] = "unsat"
               /\ jobRes'[j] \in Shards => JobOf[jobRes'[j]] = j /\ shardRes'[jobRes'[j]] = "sat"
               /\ jobRes'[j] # None <=> jobStatus'[j] = "completed"
               /\ jobStatus'[j] = "failed" => \A t \in Shards : JobOf[t] = j => shardRes'[t] = "none"
    BY <2>1, <2>2 DEF TablesBacked
  <2> QED
    BY <2>3 DEF TablesBacked
<1>8. ASSUME NEW s \in Shards, Tables!CommitJob(s)
      PROVE  /\ \A k \in Jobs : /\ jobRes'[k] = IF k = JobOf[s] THEN Unsat ELSE jobRes[k]
                                /\ jobStatus'[k] = IF k = JobOf[s] THEN "completed" ELSE jobStatus[k]
             /\ jobStatus' \in [Jobs -> {"pending", "completed", "failed"}]
             /\ jobRes' \in [Jobs -> {None, Unsat} \cup Shards]
             /\ jobRes[JobOf[s]] = None
  BY <1>8 DEF Tables!CommitJob
<1>9. ASSUME NEW s \in Shards, Tables!CommitJob(s) PROVE TablesBacked'
  <2>1. Tables!Undecided(s) /\ shardRes' = [shardRes EXCEPT ![s] = "unsat"]
    BY <1>9 DEF Tables!CommitJob
  <2>2. \A t \in Shards : JobOf[t] = JobOf[s] /\ t # s => shardRes[t] = "unsat"
    BY <1>9 DEF Tables!CommitJob, Tables!LastOne, Tables!Siblings
  <2> QED
    BY <1>2, <1>8, <1>9, <2>1, <2>2 DEF TablesBacked
<1>10. ASSUME NEW s \in Shards, jobStatus[JobOf[s]] = "completed" PROVE jobRes[JobOf[s]] # None
  BY <1>10 DEF TablesBacked
<1>11. CASE \E j \in Jobs : Tables!Reject(j)
  BY <1>1, <1>4, <1>11
<1>12. CASE \E s \in Shards : Tables!StoreSat(s)
  <2> PICK s \in Shards : Tables!StoreSat(s)
    BY <1>12
  <2>1. Tables!Undecided(s) /\ shardRes' = [shardRes EXCEPT ![s] = "sat"]
    BY DEF Tables!StoreSat
  <2>2. /\ \A t \in Shards : shardRes'[t] = IF t = s THEN "sat" ELSE shardRes[t]
        /\ shardRes' \in [Shards -> Results]
        /\ shardRes[s] = "none" /\ jobStatus[JobOf[s]] # "failed"
    BY <1>2, <2>1
  <2>3. ASSUME NEW j \in Jobs, Final(jobStatus[j])
        PROVE  jobStatus'[j] = jobStatus[j] /\ jobRes'[j] = jobRes[j]
    BY <1>5, <1>10, <2>2, <2>3
  <2>4. TablesBacked'
    BY <1>6
  <2> QED
    BY <1>5, <2>2, <2>3, <2>4
<1>13. CASE \E s \in Shards : Tables!CommitShard(s)
  <2> PICK s \in Shards : Tables!CommitShard(s)
    BY <1>13
  <2>1. Tables!Undecided(s) /\ shardRes' = [shardRes EXCEPT ![s] = "unsat"]
        /\ UNCHANGED <<jobStatus, jobRes>>
    BY DEF Tables!CommitShard
  <2> QED
    BY <1>2, <1>7, <2>1
<1>14. CASE \E s \in Shards : Tables!CommitJob(s)
  <2> PICK s \in Shards : Tables!CommitJob(s)
    BY <1>14
  <2>1. Tables!Undecided(s) /\ shardRes' = [shardRes EXCEPT ![s] = "unsat"]
    BY DEF Tables!CommitJob
  <2>2. /\ \A t \in Shards : shardRes'[t] = IF t = s THEN "unsat" ELSE shardRes[t]
        /\ shardRes' \in [Shards -> Results]
        /\ shardRes[s] = "none" /\ jobStatus[JobOf[s]] # "failed"
    BY <1>2, <2>1
  <2>3. ASSUME NEW j \in Jobs, Final(jobStatus[j])
        PROVE  jobStatus'[j] = jobStatus[j] /\ jobRes'[j] = jobRes[j]
    BY <1>8, <1>10, <2>2, <2>3
  <2>4. TablesBacked'
    BY <1>9
  <2> QED
    BY <1>8, <2>2, <2>3, <2>4
<1> QED
  BY <1>11, <1>12, <1>13, <1>14 DEF Tables!Next

---------------------------------------------------------------------------
(* A farm step between the two queries leaves what was read valid.         *)
LEMMA FarmStepKeeps == ViewInv /\ FarmStep => ViewInv'
<1> SUFFICES ASSUME ViewInv, FarmStep PROVE ViewInv'
  OBVIOUS
<1>1. /\ ViewTypeOK /\ TablesBacked /\ Tables!Next
      /\ UNCHANGED <<session, page, viewed, answer, shown, failed, rejected>>
  BY DEF ViewInv, FarmStep
<1>2. ViewTypeOK' /\ TablesBacked'
  BY <1>1, FarmKeeps DEF ViewTypeOK, Results
<1>3. ASSUME NEW v, Lasting(v) PROVE Lasting(v)'
  BY <1>1, <1>3, FarmKeeps DEF Lasting, ViewTypeOK
<1>4. ASSUME Lasting(answer), Backed(answer, shardRes) PROVE Backed(answer, shardRes)'
  <2>1. answer.status = "failed" => jobStatus[viewed] = "failed"
    BY <1>4 DEF Lasting, Final
  <2> QED
    BY <1>1, <1>4, <2>1, FarmKeeps DEF Backed
<1>5. HalfRead'
  BY <1>1, <1>3, <1>4 DEF ViewInv, HalfRead, Lasting
<1>6. PageBacked' /\ StoppedOnFinal'
  BY <1>1 DEF ViewInv, PageBacked, Backed, StoppedOnFinal, Final
<1>7. StoppedIsFinal'
  BY <1>1, FarmKeeps DEF ViewInv, StoppedIsFinal, StoppedOnFinal, Final, ViewTypeOK
<1> QED
  BY <1>2, <1>5, <1>6, <1>7 DEF ViewInv

(* Every step of the page and its handlers keeps the invariant.            *)
LEMMA ViewStepKeeps == ViewInv /\ ViewNext => ViewInv'
<1> SUFFICES ASSUME ViewInv, ViewNext PROVE ViewInv'
  OBVIOUS
<1> USE ViewAssumption DEF tables
<1>1. Blank \in Views
  BY DEF Blank, Views
<1>2. ASSUME UNCHANGED tables PROVE TablesBacked'
  BY <1>2 DEF ViewInv, TablesBacked
<1>3. CASE FarmStep
  BY <1>3, FarmStepKeeps
<1>4. CASE SessionChanges
  BY <1>2, <1>4 DEF SessionChanges, ViewInv, ViewTypeOK, HalfRead, Lasting, PageBacked, Backed,
     StoppedIsFinal, StoppedOnFinal, Final
<1>5. ASSUME NEW l \in {"none", "due"}, page' = l, viewed' \in Jobs, shown' = Blank,
             answer' \in {answer, Blank}, session' = session, UNCHANGED <<tables, failed, rejected>>
      PROVE  ViewInv'
  <2>1. ViewTypeOK'
    BY <1>1, <1>5 DEF ViewInv, ViewTypeOK
  <2>2. PageBacked'
    BY <1>5 DEF PageBacked, Backed, Blank
  <2> QED
    BY <1>2, <1>5, <2>1, <2>2 DEF ViewInv, HalfRead, StoppedIsFinal, StoppedOnFinal
<1>6. CASE Close \/ \E j \in Jobs : HandleJobDetail(j)
  <2>1. viewed \in Jobs
    BY DEF ViewInv, ViewTypeOK
  <2> QED
    BY <1>5, <1>6, <2>1 DEF Close, HandleJobDetail
<1>7. CASE PollJob
  <2>1. /\ page' = "half" /\ UNCHANGED <<tables, session, viewed, shown, failed, rejected>>
        /\ answer' = [answer EXCEPT !.status = jobStatus[viewed], !.verdict = jobRes[viewed]]
    BY <1>7 DEF PollJob, Read, Queries
  <2>2. answer' \in Views /\ answer'.status = jobStatus[viewed] /\ answer'.verdict = jobRes[viewed]
    BY <2>1 DEF ViewInv, ViewTypeOK, Views
  <2>3. ViewTypeOK'
    BY <2>1, <2>2 DEF ViewInv, ViewTypeOK
  <2>4. Lasting(answer)' /\ Backed(answer, shardRes)'
    BY <2>1, <2>2 DEF ViewInv, ViewTypeOK, TablesBacked, Lasting, Backed
  <2>5. PageBacked'
    BY <2>1 DEF ViewInv, PageBacked, Backed
  <2> QED
    BY <1>2, <2>1, <2>3, <2>4, <2>5 DEF ViewInv, HalfRead, StoppedIsFinal, StoppedOnFinal
<1>8. CASE PollShards
  <2>1. /\ page = "half" /\ page' \in {"stopped", "due"} /\ answer' = Blank
        /\ UNCHANGED <<tables, session, viewed, failed, rejected>>
        /\ shown' = [answer EXCEPT !.shards = [s \in Shards |->
                         IF JobOf[s] = viewed THEN shardRes[s] ELSE "none"]]
        /\ page' = "stopped" => Final(shown'.status)
    BY <1>8 DEF PollShards, Read, Queries
  <2>2. /\ shown' \in Views /\ shown'.status = answer.status /\ shown'.verdict = answer.verdict
        /\ \A s \in Shards : shown'.shards[s] = IF JobOf[s] = viewed THEN shardRes[s] ELSE "none"
    BY <2>1 DEF ViewInv, ViewTypeOK, Views
  <2>3. ViewTypeOK'
    BY <1>1, <2>1, <2>2 DEF ViewInv, ViewTypeOK
  <2>4. Lasting(answer) /\ Backed(answer, shardRes)
    BY <2>1 DEF ViewInv, HalfRead
  <2>5. PageBacked'
    BY <2>1, <2>2, <2>4 DEF PageBacked, Backed
  <2>6. StoppedIsFinal' /\ StoppedOnFinal'
    BY <2>1, <2>2, <2>4 DEF StoppedIsFinal, StoppedOnFinal, Lasting, Final
  <2> QED
    BY <1>2, <2>1, <2>3, <2>5, <2>6 DEF ViewInv, HalfRead
<1>9. CASE Refused \/ QueryFails \/ Rejected
  <2>1. /\ page' \in {"due", "dead"} /\ answer' \in {answer, Blank}
        /\ UNCHANGED <<tables, session, viewed, shown>>
    BY <1>9 DEF Refused, QueryFails, Rejected, Retry
  <2>2. failed' \in Nat /\ rejected' \in Nat
    BY <1>9 DEF Refused, QueryFails, Rejected, ViewInv, ViewTypeOK
  <2>3. ViewTypeOK'
    BY <1>1, <2>1, <2>2 DEF ViewInv, ViewTypeOK
  <2>4. PageBacked'
    BY <2>1 DEF ViewInv, PageBacked, Backed
  <2> QED
    BY <1>2, <2>1, <2>3, <2>4 DEF ViewInv, HalfRead, StoppedIsFinal, StoppedOnFinal
<1> QED
  BY <1>3, <1>4, <1>6, <1>7, <1>8, <1>9 DEF ViewNext, Poll

---------------------------------------------------------------------------
(* No page is open and no job decided.                                     *)
LEMMA ViewStart == ViewInit => ViewInv
BY ViewAssumption
   DEF ViewInit, Tables!Init, Blank, Views, ViewInv, ViewTypeOK, TablesBacked, HalfRead,
       PageBacked, Backed, StoppedIsFinal, StoppedOnFinal

(* Likewise for the job view.                                            *)
LEMMA ViewStutters == ViewInv /\ UNCHANGED viewVars => ViewInv'
BY DEF viewVars, tables, ViewInv, ViewTypeOK, TablesBacked, HalfRead, Lasting, PageBacked,
   Backed, StoppedIsFinal, StoppedOnFinal, Final

(* The inductive invariant of the job page.                                *)
THEOREM ViewInductive == ViewSpec => []ViewInv
BY ViewStart, ViewStepKeeps, ViewStutters, PTL DEF ViewSpec

(* The page of a job never shows a verdict without the shard results that  *)
(* back it, although HandleJobDetailJSON reads them in two queries.        *)
THEOREM PagesAreBacked == ViewSpec => []PageBacked
<1>1. ViewInv => PageBacked
  BY DEF ViewInv
<1> QED
  BY <1>1, ViewInductive, PTL

(* tick stops only when there is nothing left to learn about the job.      *)
THEOREM StopsWhenFinal == ViewSpec => []StoppedIsFinal
<1>1. ViewInv => StoppedIsFinal
  BY DEF ViewInv
<1> QED
  BY <1>1, ViewInductive, PTL

---------------------------------------------------------------------------
(* Both together, as the run checks them: each moves alone.                *)
THEOREM WebInductive == Spec => [](AccountsInv /\ ViewInv)
<1> DEFINE Inv == AccountsInv /\ ViewInv
<1>1. Init => Inv
  BY AccountsStart, ViewStart DEF Init
<1>2. Inv /\ [AccountStep \/ ViewStep]_allVars => Inv'
  <2> SUFFICES ASSUME Inv, [AccountStep \/ ViewStep]_allVars PROVE Inv'
    OBVIOUS
  <2>1. CASE AccountStep
    BY <2>1, AccountsStep, ViewStutters DEF AccountStep
  <2>2. CASE ViewStep
    BY <2>2, AccountsStutter, ViewStepKeeps DEF ViewStep
  <2>3. CASE UNCHANGED allVars
    BY <2>3, AccountsStutter, ViewStutters DEF allVars
  <2> QED
    BY <2>1, <2>2, <2>3
<1> QED
  BY <1>1, <1>2, PTL DEF Spec

(* Every variable of the accounts and of the page has its type in every    *)
(* reachable state of the web server and its browsers.                     *)
THEOREM WebTypeCorrect == Spec => []TypeOK
<1>1. AccountsInv /\ ViewInv => TypeOK
  BY DEF AccountsInv, ViewInv, TypeOK
<1> QED
  BY <1>1, WebInductive, PTL
=============================================================================
