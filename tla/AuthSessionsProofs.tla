------------------------- MODULE AuthSessionsProofs -------------------------
(***************************************************************************)
(* Proofs about AuthSessions, for any number of accounts, sessions and     *)
(* requests: what ends a session ends it for good.                         *)
(***************************************************************************)
EXTENDS AuthSessions, TLAPS

(* A session of u with version v, opened with password p, or one about to  *)
(* be opened: a version belongs to one password and one activation.        *)
Sound(u, v, p) ==
  /\ Exists(u)
  /\ v <= user[u].version
  /\ v = user[u].version => Active(u) /\ p = user[u].password

SessionsSound ==
  \A t \in Tokens : token[t].state # "none" =>
    Sound(token[t].of, token[t].version, token[t].password)

\* What a handler in flight carries on with is as sound as a session.
JobSound(job) ==
  /\ job.op \in {"enter", "issue"} => Sound(job.on, job.version, job.password)
  /\ job.op = "refresh" => token[job.token].state # "none"

RequestsSound == \A q \in Requests : JobSound(request[q])

AuthInv == AuthTypeOK /\ SessionsSound /\ RequestsSound /\ LockedWhenExhausted

-----------------------------------------------------------------------------
(* What a step may do to an account.                                       *)

\* An account keeps its password and activation as long as its version.
Ages(u, row) ==
  Exists(u) => /\ row.state # "none"
               /\ row.version >= user[u].version
               /\ row.version = user[u].version =>
                    row.state = user[u].state /\ row.password = user[u].password

LockAgrees(row) == row.failed = MaxFailed <=> row.locked # "no"

UsersStep ==
  /\ user' \in [Users -> UserRows]
  /\ \A u \in Users : Ages(u, user'[u]) /\ LockAgrees(user'[u])

LEMMA UserFields ==
  ASSUME AuthInv, NEW u \in Users
  PROVE  /\ user[u] \in UserRows
         /\ user[u].version \in Nat /\ user[u].password \in Nat
         /\ Ages(u, user[u]) /\ LockAgrees(user[u])
<1>1. user[u] \in UserRows
  BY DEF AuthInv, AuthTypeOK
<1>2. user[u].version \in Nat /\ user[u].password \in Nat
  BY <1>1 DEF UserRows
<1> QED BY <1>1, <1>2 DEF Ages, LockAgrees, Exists, AuthInv, LockedWhenExhausted

\* The edits that handlers make to a row of the user table.
LEMMA LockEdit ==
  ASSUME NEW row \in UserRows, NEW n \in 0..MaxFailed, NEW l \in {"no", "yes", "passed"}
  PROVE  [row EXCEPT !.failed = n, !.locked = l] \in UserRows
BY DEF UserRows

LEMMA PassEdit ==
  ASSUME NEW row \in UserRows PROVE [row EXCEPT !.locked = "passed"] \in UserRows
BY DEF UserRows

LEMMA VersionEdit ==
  ASSUME NEW row \in UserRows, NEW v \in Nat
  PROVE  /\ [row EXCEPT !.version = v] \in UserRows
         /\ [row EXCEPT !.state = "inactive", !.version = v] \in UserRows
BY DEF UserRows

LEMMA RoleEdit ==
  ASSUME NEW row \in UserRows, NEW r \in Roles, NEW v \in Nat
  PROVE  [row EXCEPT !.role = r, !.version = v] \in UserRows
BY DEF UserRows

LEMMA PasswordEdit ==
  ASSUME NEW row \in UserRows, NEW p \in Nat, NEW v \in Nat
  PROVE  [row EXCEPT !.password = p, !.version = v] \in UserRows
BY DEF UserRows

LEMMA ActivationEdit ==
  ASSUME NEW row \in UserRows, NEW n \in 0..MaxFailed, NEW v \in Nat
  PROVE  [row EXCEPT !.state = "active", !.failed = n, !.locked = "no", !.version = v]
           \in UserRows
BY DEF UserRows

LEMMA UsersUnchanged == AuthInv /\ UNCHANGED user => UsersStep
BY UserFields DEF UsersStep, AuthInv, AuthTypeOK

LEMMA OneUser ==
  ASSUME AuthInv, NEW u \in Users, NEW row \in UserRows,
         user' = [user EXCEPT ![u] = row], Ages(u, row), LockAgrees(row)
  PROVE  UsersStep
<1>1. user \in [Users -> UserRows]
  BY DEF AuthInv, AuthTypeOK
<1>2. \A v \in Users : user'[v] = IF v = u THEN row ELSE user[v]
  BY <1>1
<1>3. \A v \in Users : Ages(v, user[v]) /\ LockAgrees(user[v])
  BY UserFields
<1> QED BY <1>1, <1>2, <1>3 DEF UsersStep

\* A change that ends the sessions of an account.
LEMMA Renewed ==
  ASSUME AuthInv, NEW u \in Users, NEW row,
         row.version = user[u].version + 1, Exists(u) => row.state # "none"
  PROVE  Ages(u, row)
BY UserFields DEF Ages

\* Only the lock and the count of failures matter to their agreement.
LEMMA SameLock ==
  ASSUME NEW row, NEW new, LockAgrees(row), new.failed = row.failed, new.locked = row.locked
  PROVE  LockAgrees(new)
BY DEF LockAgrees

\* Sessions stay sound while their account ages.
LEMMA SoundKept ==
  ASSUME AuthInv, UsersStep, NEW u \in Users, NEW v \in Nat, NEW p, Sound(u, v, p)
  PROVE  Sound(u, v, p)'
<1>1. user[u].version \in Nat /\ user'[u].version \in Nat
  BY DEF AuthInv, AuthTypeOK, UsersStep, UserRows
<1> QED BY <1>1 DEF Sound, UsersStep, Ages, Exists, Active

-----------------------------------------------------------------------------
(* What a request in flight knows, by its handler.                         *)
LEMMA RequestFields ==
  ASSUME AuthTypeOK, NEW q \in Requests
  PROVE  /\ request[q].op = "fail" =>
              request[q].on \in Users /\ request[q].failed \in 0..MaxFailed
         /\ request[q].op \in {"enter", "issue"} =>
              /\ request[q].on \in Users
              /\ request[q].version \in Nat /\ request[q].password \in Nat
         /\ request[q].op = "refresh" => request[q].token \in Tokens
         /\ request[q].op = "reset" => request[q].reset \in Resets
         /\ request[q].op \in {"password", "deactivate", "revoke"} => request[q].on \in Users
         /\ request[q].op \in {"create", "role"} =>
              request[q].on \in Users /\ request[q].role \in Roles
         /\ request[q].op = "update" =>
              /\ request[q].on \in Users /\ request[q].role \in Roles
              /\ request[q].changed \in BOOLEAN
         /\ request[q].op = "retire" => request[q].role \in Roles
<1>1. request[q] \in RequestsInFlight
  BY DEF AuthTypeOK
<1> QED BY <1>1 DEF RequestsInFlight, Idle

-----------------------------------------------------------------------------
(* The accounts: every handler lets them age.                              *)

LEMMA SessionUsers ==
  ASSUME AuthInv, NEW q \in Requests, SessionNext(q) PROVE UsersStep
<1>1. AuthTypeOK /\ MaxFailed \in Nat \ {0}
  BY AuthAssumption DEF AuthInv
<1>2. ASSUME NEW u \in Users, NEW n \in 0..MaxFailed, NEW l \in {"no", "yes", "passed"},
             user' = [user EXCEPT ![u] = [user[u] EXCEPT !.failed = n, !.locked = l]],
             n = MaxFailed <=> l # "no"
      PROVE  UsersStep
  <2> DEFINE row == [user[u] EXCEPT !.failed = n, !.locked = l]
  <2>1. user[u] \in UserRows /\ Ages(u, user[u])
    BY UserFields
  <2>2. row \in UserRows
    BY <2>1, LockEdit
  <2>3. /\ row.state = user[u].state /\ row.version = user[u].version
        /\ row.password = user[u].password /\ row.failed = n /\ row.locked = l
    BY <2>1 DEF UserRows
  <2>4. user' = [user EXCEPT ![u] = row]
    BY <1>2
  <2> HIDE DEF row
  <2>5. Ages(u, row) /\ LockAgrees(row)
    BY <1>2, <2>1, <2>3 DEF Ages, LockAgrees
  <2> QED BY <2>2, <2>4, <2>5, OneUser
<1>3. CASE CommitFail(q)
  <2> DEFINE u == request[q].on
             last == request[q].failed + 1 >= MaxFailed
             n == IF last THEN MaxFailed ELSE request[q].failed + 1
             l == IF last THEN "yes" ELSE "no"
  <2>1. u \in Users /\ request[q].failed \in 0..MaxFailed
    BY <1>1, <1>3, RequestFields DEF CommitFail
  <2>2. n \in 0..MaxFailed /\ l \in {"no", "yes", "passed"} /\ (n = MaxFailed <=> l # "no")
    BY <1>1, <2>1
  <2>3. user' = [user EXCEPT ![u] = [user[u] EXCEPT !.failed = n, !.locked = l]]
    BY <1>3 DEF CommitFail
  <2> HIDE DEF n, l
  <2> QED BY <1>2, <2>1, <2>2, <2>3
<1>4. CASE CommitEnter(q)
  <2>1. request[q].on \in Users /\ 0 \in 0..MaxFailed /\ 0 # MaxFailed
    BY <1>1, <1>4, RequestFields DEF CommitEnter
  <2>2. user' = [user EXCEPT ![request[q].on] =
                   [user[request[q].on] EXCEPT !.failed = 0, !.locked = "no"]]
    BY <1>4 DEF CommitEnter
  <2> QED BY <1>2, <2>1, <2>2
<1>5. ASSUME NEW u \in Users
      PROVE  /\ ChangedPassword(u) \in UserRows
             /\ ChangedPassword(u).version = user[u].version + 1
             /\ ChangedPassword(u).state = user[u].state
             /\ ChangedPassword(u).failed = user[u].failed
             /\ ChangedPassword(u).locked = user[u].locked
  <2>1. user[u] \in UserRows /\ user[u].version \in Nat /\ user[u].password \in Nat
    BY UserFields
  <2>2. user[u].version + 1 \in Nat /\ user[u].password + 1 \in Nat
    BY <2>1
  <2>3. ChangedPassword(u) \in UserRows
    BY <2>1, <2>2, PasswordEdit DEF ChangedPassword
  <2> QED BY <2>1, <2>3 DEF ChangedPassword, UserRows
<1>6. CASE CommitReset(q)
  <2> DEFINE u == reset[request[q].reset].of
             row == [ChangedPassword(u) EXCEPT !.failed = 0, !.locked = "no"]
  <2>1. u \in Users
    BY <1>1, <1>6, RequestFields DEF CommitReset, AuthTypeOK
  <2>2. user' = [user EXCEPT ![u] = row]
    BY <1>6 DEF CommitReset
  <2>3. 0 \in 0..MaxFailed /\ 0 # MaxFailed
    BY <1>1
  <2>4. row \in UserRows
    BY <1>5, <2>1, <2>3, LockEdit
  <2>5. row.version = user[u].version + 1 /\ row.state = user[u].state
        /\ row.failed = 0 /\ row.locked = "no"
    BY <1>5, <2>1 DEF UserRows
  <2> HIDE DEF row
  <2>6. LockAgrees(row)
    BY <2>3, <2>5 DEF LockAgrees
  <2> QED BY <2>1, <2>2, <2>4, <2>5, <2>6, Renewed, OneUser DEF Exists
<1>7. CASE CommitPassword(q)
  <2> DEFINE u == request[q].on
  <2>1. u \in Users
    BY <1>1, <1>7, RequestFields DEF CommitPassword
  <2>2. user' = [user EXCEPT ![u] = ChangedPassword(u)]
    BY <1>7 DEF CommitPassword
  <2>3. LockAgrees(ChangedPassword(u)) /\ Ages(u, ChangedPassword(u))
    BY <1>5, <2>1, UserFields, SameLock, Renewed DEF Exists
  <2> QED BY <1>5, <2>1, <2>2, <2>3, OneUser
<1>8. CASE UNCHANGED user
  BY <1>8, UsersUnchanged
<1> QED BY <1>3, <1>4, <1>6, <1>7, <1>8
        DEF SessionNext, BeginLogin, IssueToken, BeginRefresh, CommitRefresh, BeginReset,
            BeginPassword, Begin

LEMMA AdminUsers ==
  ASSUME AuthInv, NEW q \in Requests, AdminNext(q) PROVE UsersStep
<1>1. AuthTypeOK /\ MaxFailed \in Nat \ {0}
  BY AuthAssumption DEF AuthInv
<1>2. CASE CommitCreateUser(q)
  <2> DEFINE u == request[q].on  row == NewUser(request[q].role)
  <2>1. u \in Users /\ request[q].role \in Roles /\ ~Exists(u)
    BY <1>1, <1>2, RequestFields DEF CommitCreateUser
  <2>2. user' = [user EXCEPT ![u] = row]
    BY <1>2 DEF CommitCreateUser
  <2>3. row \in UserRows /\ Ages(u, row) /\ LockAgrees(row)
    BY <1>1, <2>1 DEF UserRows, Ages, LockAgrees, NewUser
  <2> QED BY <2>1, <2>2, <2>3, OneUser
<1>3. ASSUME NEW u \in Users, NEW row,
             \/ \E r \in Roles : row = [user[u] EXCEPT !.role = r, !.version = @ + 1]
             \/ \E r \in Roles : row = [user[u] EXCEPT !.role = r, !.version = @]
             \/ row = [user[u] EXCEPT !.state = "inactive", !.version = @ + 1]
             \/ row = [user[u] EXCEPT !.version = @ + 1]
      PROVE  row \in UserRows /\ Ages(u, row) /\ LockAgrees(row)
  <2>1. /\ user[u] \in UserRows /\ Ages(u, user[u]) /\ LockAgrees(user[u])
        /\ user[u].version \in Nat
    BY UserFields
  <2>2. user[u].version + 1 \in Nat
    BY <2>1
  <2>3. row \in UserRows
    <3>1. \A r \in Roles : /\ [user[u] EXCEPT !.role = r, !.version = @ + 1] \in UserRows
                           /\ [user[u] EXCEPT !.role = r, !.version = @] \in UserRows
      BY <2>1, <2>2, RoleEdit
    <3>2. /\ [user[u] EXCEPT !.state = "inactive", !.version = @ + 1] \in UserRows
          /\ [user[u] EXCEPT !.version = @ + 1] \in UserRows
      BY <2>1, <2>2, VersionEdit
    <3> QED BY <1>3, <3>1, <3>2
  <2>4. row.failed = user[u].failed /\ row.locked = user[u].locked
    BY <1>3, <2>1 DEF UserRows
  <2>5. /\ user[u].state # "none" => row.state # "none"
        /\ \/ row.version = user[u].version + 1
           \/ /\ row.version = user[u].version
              /\ row.state = user[u].state /\ row.password = user[u].password
    BY <1>3, <2>1 DEF UserRows
  <2>6. Ages(u, row)
    BY <2>1, <2>5 DEF Ages, Exists
  <2> QED BY <2>1, <2>3, <2>4, <2>6, SameLock
<1>4. CASE CommitChangeRole(q)
  <2> DEFINE u == request[q].on
             row == [user[u] EXCEPT !.role = request[q].role, !.version = @ + 1]
  <2>1. u \in Users /\ request[q].role \in Roles
    BY <1>1, <1>4, RequestFields DEF CommitChangeRole
  <2>2. user' = [user EXCEPT ![u] = row]
    BY <1>4 DEF CommitChangeRole
  <2>3. row \in UserRows /\ Ages(u, row) /\ LockAgrees(row)
    BY <1>3, <2>1
  <2> HIDE DEF row
  <2> QED BY <2>1, <2>2, <2>3, OneUser
<1>5. CASE CommitUpdateUser(q)
  <2> DEFINE u == request[q].on
             row == [user[u] EXCEPT !.role = request[q].role,
                                    !.version = IF request[q].changed THEN @ + 1 ELSE @]
  <2>1. u \in Users /\ request[q].role \in Roles
    BY <1>1, <1>5, RequestFields DEF CommitUpdateUser
  <2>2. user' = [user EXCEPT ![u] = row]
    BY <1>5 DEF CommitUpdateUser
  <2>3. row \in UserRows /\ Ages(u, row) /\ LockAgrees(row)
    <3>1. CASE request[q].changed
      BY <1>3, <2>1, <3>1
    <3>2. CASE ~request[q].changed
      BY <1>3, <2>1, <3>2
    <3> QED BY <3>1, <3>2
  <2> HIDE DEF row
  <2> QED BY <2>1, <2>2, <2>3, OneUser
<1>6. CASE CommitDeactivateUser(q)
  <2> DEFINE u == request[q].on
             row == [user[u] EXCEPT !.state = "inactive", !.version = @ + 1]
  <2>1. u \in Users
    BY <1>1, <1>6, RequestFields DEF CommitDeactivateUser
  <2>2. user' = [user EXCEPT ![u] = row]
    BY <1>6 DEF CommitDeactivateUser
  <2>3. row \in UserRows /\ Ages(u, row) /\ LockAgrees(row)
    BY <1>3, <2>1
  <2> HIDE DEF row
  <2> QED BY <2>1, <2>2, <2>3, OneUser
<1>7. CASE EndSessionsOfRole(q)
  <2>1. \A u \in Users : user'[u] = user[u] \/ user'[u] = [user[u] EXCEPT !.version = @ + 1]
    BY <1>7 DEF EndSessionsOfRole
  <2>2. ASSUME NEW u \in Users
        PROVE  user'[u] \in UserRows /\ Ages(u, user'[u]) /\ LockAgrees(user'[u])
    BY <1>3, <2>1, UserFields
  <2>3. user' = [u \in Users |-> user'[u]]
    BY <1>7 DEF EndSessionsOfRole
  <2> QED BY <2>2, <2>3 DEF UsersStep
<1>8. CASE UNCHANGED user
  BY <1>8, UsersUnchanged
<1> QED BY <1>2, <1>4, <1>5, <1>6, <1>7, <1>8
        DEF AdminNext, BeginCreateUser, BeginChangeRole, BeginUpdateUser,
            BeginDeactivateUser, RevokeDeactivated, RemoveRole, Begin

LEMMA UsersAge == AuthInv /\ AuthNext => UsersStep
<1> SUFFICES ASSUME AuthInv, AuthNext PROVE UsersStep
  OBVIOUS
<1>1. ASSUME NEW u \in Users, LockPasses(u) PROVE UsersStep
  <2> DEFINE row == [user[u] EXCEPT !.locked = "passed"]
  <2>1. user[u] \in UserRows /\ Ages(u, user[u]) /\ LockAgrees(user[u])
    BY UserFields
  <2>2. user' = [user EXCEPT ![u] = row] /\ user[u].locked = "yes"
    BY <1>1 DEF LockPasses
  <2>3. row \in UserRows
    BY <2>1, PassEdit
  <2>4. /\ row.state = user[u].state /\ row.version = user[u].version
        /\ row.password = user[u].password /\ row.failed = user[u].failed
        /\ row.locked = "passed"
    BY <2>1 DEF UserRows
  <2> HIDE DEF row
  <2>5. Ages(u, row) /\ LockAgrees(row)
    BY <2>1, <2>2, <2>4 DEF Ages, LockAgrees
  <2> QED BY <2>2, <2>3, <2>5, OneUser
<1>2. ASSUME NEW u \in Users, ReactivateUser(u) PROVE UsersStep
  <2> DEFINE row == [user[u] EXCEPT !.state = "active", !.failed = 0, !.locked = "no",
                                    !.version = @ + 1]
  <2>1. user[u] \in UserRows /\ user[u].version + 1 \in Nat
    BY UserFields
  <2>2. user' = [user EXCEPT ![u] = row]
    BY <1>2 DEF ReactivateUser
  <2>3. 0 \in 0..MaxFailed /\ 0 # MaxFailed
    BY AuthAssumption
  <2>4. row \in UserRows
    BY <2>1, <2>3, ActivationEdit
  <2>5. row.version = user[u].version + 1 /\ row.state = "active"
        /\ row.failed = 0 /\ row.locked = "no"
    BY <2>1 DEF UserRows
  <2> HIDE DEF row
  <2>6. LockAgrees(row)
    BY <2>3, <2>5 DEF LockAgrees
  <2> QED BY <2>2, <2>4, <2>5, <2>6, Renewed, OneUser
<1>3. CASE UNCHANGED user
  BY <1>3, UsersUnchanged
<1> QED BY <1>1, <1>2, <1>3, SessionUsers, AdminUsers
        DEF AuthNext, AbandonRequest, RequestReset, Logout

-----------------------------------------------------------------------------
(* The sessions: a token keeps what it was issued for, and a new one is    *)
(* what a login or refresh in flight had read.                             *)

\* Whatever happens to t, it stays a session of the same user and version.
Keeps(t, row) ==
  token[t].state # "none" =>
    /\ row.state # "none"
    /\ row.of = token[t].of /\ row.version = token[t].version
    /\ row.password = token[t].password

TokensKept == token' \in [Tokens -> TokenRows] /\ \A t \in Tokens : Keeps(t, token'[t])

IssuedBy(t, q) ==
  /\ request[q].op = "issue"
  /\ token'[t].of = request[q].on
  /\ token'[t].version = request[q].version /\ token'[t].password = request[q].password

TokensStep ==
  /\ TokensKept
  /\ \A t \in Tokens : token[t].state = "none" /\ token'[t].state # "none" =>
       \E q \in Requests : IssuedBy(t, q)

LEMMA TokensUnchanged == AuthInv /\ UNCHANGED token => TokensStep
BY DEF TokensStep, TokensKept, Keeps, AuthInv, AuthTypeOK

LEMMA TokensRevoked ==
  ASSUME AuthInv, NEW us, RevokeAll(us) PROVE TokensStep
<1>1. \A t \in Tokens : token[t] \in TokenRows
  BY DEF AuthInv, AuthTypeOK
<1>2. ASSUME NEW t \in Tokens
      PROVE  /\ token'[t] \in TokenRows
             /\ Keeps(t, token'[t]) /\ (token'[t].state # "none" => token[t].state # "none")
  <2>1. \/ token'[t] = token[t]
        \/ /\ token[t].state = "live"
           /\ token'[t] = [token[t] EXCEPT !.state = "revoked"]
    BY DEF RevokeAll
  <2> QED BY <1>1, <2>1 DEF TokenRows, Keeps
<1>3. token' = [t \in Tokens |-> token'[t]]
  BY DEF RevokeAll
<1> QED BY <1>2, <1>3 DEF TokensStep, TokensKept

LEMMA OneToken ==
  ASSUME AuthInv, NEW t \in Tokens, NEW row \in TokenRows, token' = [token EXCEPT ![t] = row],
         Keeps(t, row),
         token[t].state # "none" \/ \E q \in Requests : IssuedBy(t, q)
  PROVE  TokensStep
<1>1. token \in [Tokens -> TokenRows]
  BY DEF AuthInv, AuthTypeOK
<1>2. \A x \in Tokens : token'[x] = IF x = t THEN row ELSE token[x]
  BY <1>1
<1> QED BY <1>1, <1>2 DEF TokensStep, TokensKept, Keeps

LEMMA TokenRevoked ==
  ASSUME AuthInv, NEW t \in Tokens, token[t].state # "none",
         token' = [token EXCEPT ![t].state = "revoked"]
  PROVE  TokensStep
<1> DEFINE row == [token[t] EXCEPT !.state = "revoked"]
<1>1. token[t] \in TokenRows
  BY DEF AuthInv, AuthTypeOK
<1>2. row \in TokenRows /\ Keeps(t, row)
  BY <1>1 DEF TokenRows, Keeps
<1>3. token' = [token EXCEPT ![t] = row]
  OBVIOUS
<1> HIDE DEF row
<1> QED BY <1>2, <1>3, OneToken

LEMMA TokensMove == AuthInv /\ AuthNext => TokensStep
<1> SUFFICES ASSUME AuthInv, AuthNext PROVE TokensStep
  OBVIOUS
<1>1. AuthTypeOK /\ RequestsSound
  BY DEF AuthInv
<1>2. ASSUME NEW q \in Requests, NEW t \in Tokens, IssueToken(q, t) PROVE TokensStep
  <2> DEFINE row == [state |-> "live", of |-> request[q].on,
                     version |-> request[q].version, password |-> request[q].password]
  <2>1. request[q].op = "issue" /\ token[t].state = "none" /\ token' = [token EXCEPT ![t] = row]
    BY <1>2 DEF IssueToken
  <2>2. row \in TokenRows
    BY <1>1, <2>1, RequestFields DEF TokenRows
  <2>3. token'[t] = row
    BY <1>1, <2>1 DEF AuthTypeOK
  <2>4. IssuedBy(t, q) /\ Keeps(t, row)
    BY <2>1, <2>3 DEF IssuedBy, Keeps
  <2> HIDE DEF row
  <2> QED BY <2>1, <2>2, <2>4, OneToken
<1>3. ASSUME NEW q \in Requests, CommitRefresh(q) PROVE TokensStep
  <2>1. request[q].token \in Tokens /\ token[request[q].token].state # "none"
    BY <1>1, <1>3, RequestFields DEF CommitRefresh, RequestsSound, JobSound
  <2> QED BY <1>3, <2>1, TokenRevoked DEF CommitRefresh
<1>4. ASSUME NEW t \in Tokens, Logout(t) PROVE TokensStep
  BY <1>4, TokenRevoked DEF Logout
<1>5. ASSUME NEW us, RevokeAll(us) PROVE TokensStep
  BY <1>5, TokensRevoked
<1>6. CASE UNCHANGED token
  BY <1>6, TokensUnchanged
<1>7. ASSUME NEW q \in Requests, SessionNext(q) PROVE TokensStep
  BY <1>2, <1>3, <1>5, <1>6, <1>7
     DEF SessionNext, BeginLogin, CommitFail, CommitEnter, BeginRefresh, BeginReset,
         CommitReset, BeginPassword, CommitPassword, Begin
<1>8. ASSUME NEW q \in Requests, AdminNext(q) PROVE TokensStep
  BY <1>5, <1>6, <1>8
     DEF AdminNext, BeginCreateUser, CommitCreateUser, BeginChangeRole, CommitChangeRole,
         BeginUpdateUser, CommitUpdateUser, BeginDeactivateUser, CommitDeactivateUser,
         RevokeDeactivated, RemoveRole, EndSessionsOfRole, Begin
<1> QED BY <1>4, <1>6, <1>7, <1>8
        DEF AuthNext, AbandonRequest, LockPasses, ReactivateUser, RequestReset

-----------------------------------------------------------------------------
(* The requests in flight: each goes on with what is sound when it read it. *)

RequestsStep ==
  /\ request' \in [Requests -> RequestsInFlight]
  /\ \A q \in Requests : JobSound(request'[q])

LEMMA RequestsUnchanged == AuthInv /\ UNCHANGED request => RequestsStep
BY DEF RequestsStep, AuthInv, AuthTypeOK, RequestsSound

LEMMA OneRequest ==
  ASSUME AuthInv, NEW q \in Requests, NEW job \in RequestsInFlight, JobSound(job),
         request' = [request EXCEPT ![q] = job]
  PROVE  RequestsStep
<1>1. request \in [Requests -> RequestsInFlight]
  BY DEF AuthInv, AuthTypeOK
<1>2. \A r \in Requests : request'[r] = IF r = q THEN job ELSE request[r]
  BY <1>1
<1> QED BY <1>1, <1>2 DEF RequestsStep, AuthInv, RequestsSound

\* Most handlers carry on with nothing that a session depends on.
LEMMA OtherRequest ==
  ASSUME AuthInv, NEW q \in Requests, NEW job \in RequestsInFlight,
         job.op \notin {"enter", "issue", "refresh"},
         request' = [request EXCEPT ![q] = job]
  PROVE  RequestsStep
BY OneRequest DEF JobSound

LEMMA RequestDone ==
  ASSUME AuthInv, NEW q \in Requests, Finish(q) PROVE RequestsStep
BY OtherRequest DEF Finish, Idle, RequestsInFlight

LEMMA SessionRequests ==
  ASSUME AuthInv, NEW q \in Requests, SessionNext(q) PROVE RequestsStep
<1>1. AuthTypeOK /\ RequestsSound /\ SessionsSound
  BY DEF AuthInv
<1>2. ASSUME NEW u \in Users, BeginLogin(q, u) PROVE RequestsStep
  <2>1. user[u].version \in Nat /\ user[u].password \in Nat /\ user[u] \in UserRows
    BY UserFields
  <2>2. user[u].failed \in 0..MaxFailed
    BY <2>1 DEF UserRows
  <2> DEFINE enter == [op |-> "enter", on |-> u,
                       version |-> user[u].version, password |-> user[u].password]
             fail == [op |-> "fail", on |-> u, failed |-> user[u].failed]
  <2>3. enter \in RequestsInFlight /\ fail \in RequestsInFlight
    BY <2>1, <2>2 DEF RequestsInFlight
  <2>4. Active(u) /\ (request' = [request EXCEPT ![q] = enter]
                      \/ request' = [request EXCEPT ![q] = fail])
    BY <1>2 DEF BeginLogin, Admitted, Begin
  <2>5. JobSound(enter) /\ JobSound(fail)
    BY <2>1, <2>4 DEF JobSound, Sound, Active, Exists
  <2> HIDE DEF enter, fail
  <2> QED BY <2>3, <2>4, <2>5, OneRequest
<1>3. CASE CommitEnter(q)
  <2> DEFINE job == [request[q] EXCEPT !.op = "issue"]
  <2>1. request[q].op = "enter" /\ request' = [request EXCEPT ![q] = job]
    BY <1>3 DEF CommitEnter, Continue
  <2>2. request[q] \in [op : {"enter", "issue"}, on : Users, version : Nat, password : Nat]
    BY <1>1, <2>1 DEF AuthTypeOK, RequestsInFlight, Idle
  <2>3. /\ job \in RequestsInFlight
        /\ job.on = request[q].on /\ job.version = request[q].version
        /\ job.password = request[q].password /\ job.op = "issue"
    BY <2>2 DEF RequestsInFlight
  <2> HIDE DEF job
  <2>4. JobSound(job)
    BY <1>1, <2>1, <2>3 DEF RequestsSound, JobSound
  <2> QED BY <2>1, <2>3, <2>4, OneRequest
<1>4. CASE CommitRefresh(q)
  <2> DEFINE t == request[q].token
             job == [op |-> "issue", on |-> token[t].of,
                     version |-> token[t].version, password |-> token[t].password]
  <2>1. t \in Tokens /\ token[t].state # "none" /\ request' = [request EXCEPT ![q] = job]
    BY <1>1, <1>4, RequestFields DEF CommitRefresh, Continue, RequestsSound, JobSound
  <2>2. token[t] \in TokenRows
    BY <1>1, <2>1 DEF AuthTypeOK
  <2>3. job \in RequestsInFlight
    BY <2>2 DEF TokenRows, RequestsInFlight
  <2>4. JobSound(job)
    BY <1>1, <2>1 DEF SessionsSound, JobSound
  <2> HIDE DEF job
  <2> QED BY <2>1, <2>3, <2>4, OneRequest
<1>5. ASSUME NEW t \in Tokens, BeginRefresh(q, t) PROVE RequestsStep
  <2> DEFINE job == [op |-> "refresh", token |-> t]
  <2>1. token[t].state # "none" /\ request' = [request EXCEPT ![q] = job]
    BY <1>5 DEF BeginRefresh, Begin
  <2>2. job \in RequestsInFlight /\ JobSound(job)
    BY <2>1 DEF RequestsInFlight, JobSound
  <2> HIDE DEF job
  <2> QED BY <2>1, <2>2, OneRequest
<1>6. ASSUME NEW x \in Resets, BeginReset(q, x) PROVE RequestsStep
  BY <1>6, OtherRequest DEF BeginReset, Begin, RequestsInFlight
<1>7. ASSUME NEW u \in Users, BeginPassword(q, u) PROVE RequestsStep
  BY <1>7, OtherRequest DEF BeginPassword, Begin, RequestsInFlight
<1>8. CASE Finish(q)
  BY <1>8, RequestDone
<1> QED BY <1>2, <1>3, <1>4, <1>5, <1>6, <1>7, <1>8
        DEF SessionNext, CommitFail, IssueToken, CommitReset, CommitPassword

LEMMA AdminRequests ==
  ASSUME AuthInv, NEW q \in Requests, AdminNext(q) PROVE RequestsStep
<1>1. AuthTypeOK
  BY DEF AuthInv
<1>2. ASSUME NEW u \in Users, NEW role \in Roles, BeginCreateUser(q, u, role)
      PROVE  RequestsStep
  BY <1>2, OtherRequest DEF BeginCreateUser, Begin, RequestsInFlight
<1>3. ASSUME NEW u \in Users, NEW role \in Roles, BeginChangeRole(q, u, role)
      PROVE  RequestsStep
  <2>1. user[u].version \in Nat
    BY UserFields
  <2>2. [op |-> "role", on |-> u, role |-> role, version |-> user[u].version]
           \in RequestsInFlight
    BY <2>1 DEF RequestsInFlight
  <2> QED BY <1>3, <2>2, OtherRequest DEF BeginChangeRole, Begin
<1>4. ASSUME NEW u \in Users, NEW role \in Roles, BeginUpdateUser(q, u, role)
      PROVE  RequestsStep
  <2>1. [op |-> "update", on |-> u, role |-> role, changed |-> role # user[u].role]
           \in RequestsInFlight
    BY DEF RequestsInFlight
  <2> QED BY <1>4, <2>1, OtherRequest DEF BeginUpdateUser, Begin
<1>5. ASSUME NEW u \in Users, BeginDeactivateUser(q, u) PROVE RequestsStep
  BY <1>5, OtherRequest DEF BeginDeactivateUser, Begin, RequestsInFlight
<1>6. CASE CommitDeactivateUser(q)
  <2>1. request[q].on \in Users
    BY <1>1, <1>6, RequestFields DEF CommitDeactivateUser
  <2>2. [op |-> "revoke", on |-> request[q].on] \in RequestsInFlight
    BY <2>1 DEF RequestsInFlight
  <2> QED BY <1>6, <2>2, OtherRequest DEF CommitDeactivateUser, Continue
<1>7. ASSUME NEW role \in Roles, RemoveRole(q, role) PROVE RequestsStep
  BY <1>7, OtherRequest DEF RemoveRole, Continue, RequestsInFlight
<1>8. CASE Finish(q)
  BY <1>8, RequestDone
<1> QED BY <1>2, <1>3, <1>4, <1>5, <1>6, <1>7, <1>8
        DEF AdminNext, CommitCreateUser, CommitChangeRole, CommitUpdateUser,
            RevokeDeactivated, EndSessionsOfRole

LEMMA RequestsMove == AuthInv /\ AuthNext => RequestsStep
BY SessionRequests, AdminRequests, RequestDone, RequestsUnchanged
   DEF AuthNext, AbandonRequest, LockPasses, ReactivateUser, RequestReset, Logout

-----------------------------------------------------------------------------
(* The reset tokens and the roles only have their types to keep.           *)

OthersTyped ==
  /\ reset \in [Resets -> [state : {"none", "open", "used"}, of : Users]]
  /\ retired \subseteq Roles

LEMMA OthersMove == AuthInv /\ AuthNext => OthersTyped'
<1> SUFFICES ASSUME AuthInv, AuthNext PROVE OthersTyped'
  OBVIOUS
<1>1. AuthTypeOK /\ OthersTyped
  BY DEF AuthInv, AuthTypeOK, OthersTyped
<1>2. CASE UNCHANGED <<reset, retired>>
  BY <1>1, <1>2 DEF OthersTyped
<1>3. ASSUME NEW q \in Requests, CommitReset(q) PROVE OthersTyped'
  BY <1>1, <1>3, RequestFields DEF CommitReset, OthersTyped
<1>4. ASSUME NEW q \in Requests, NEW role \in Roles, RemoveRole(q, role) PROVE OthersTyped'
  BY <1>1, <1>4 DEF RemoveRole, OthersTyped
<1>5. ASSUME NEW u \in Users, NEW x \in Resets, RequestReset(u, x) PROVE OthersTyped'
  BY <1>1, <1>5 DEF RequestReset, OthersTyped
<1>6. ASSUME NEW q \in Requests, SessionNext(q) PROVE OthersTyped'
  BY <1>2, <1>3, <1>6
     DEF SessionNext, BeginLogin, CommitFail, CommitEnter, IssueToken, BeginRefresh,
         CommitRefresh, BeginReset, BeginPassword, CommitPassword, Begin
<1>7. ASSUME NEW q \in Requests, AdminNext(q) PROVE OthersTyped'
  BY <1>2, <1>4, <1>7
     DEF AdminNext, BeginCreateUser, CommitCreateUser, BeginChangeRole, CommitChangeRole,
         BeginUpdateUser, CommitUpdateUser, BeginDeactivateUser, CommitDeactivateUser,
         RevokeDeactivated, EndSessionsOfRole, Begin
<1> QED BY <1>2, <1>5, <1>6, <1>7
        DEF AuthNext, AbandonRequest, LockPasses, ReactivateUser, Logout

-----------------------------------------------------------------------------
LEMMA AuthStart == AuthInit => AuthInv
<1> SUFFICES ASSUME AuthInit PROVE AuthInv
  OBVIOUS
<1>1. PICK someone \in Users : someone = CHOOSE u \in Users : TRUE
  BY AuthAssumption
<1>2. NewUser(Administrator) \in UserRows
      /\ [NewUser(Administrator) EXCEPT !.state = "none"] \in UserRows
  BY AuthAssumption DEF NewUser, UserRows
<1>3. user \in [Users -> UserRows]
  BY <1>2 DEF AuthInit
<1>4. token \in [Tokens -> TokenRows] /\ \A t \in Tokens : token[t].state = "none"
  BY <1>1 DEF AuthInit, TokenRows
<1>5. request \in [Requests -> RequestsInFlight] /\ \A q \in Requests : request[q].op = "idle"
  BY DEF AuthInit, RequestsInFlight, Idle
<1>6. reset \in [Resets -> [state : {"none", "open", "used"}, of : Users]]
      /\ retired \subseteq Roles
  BY <1>1 DEF AuthInit
<1>7. \A u \in Users : user[u].failed = 0 /\ user[u].locked = "no"
  BY DEF AuthInit, NewUser
<1>8. 0 # MaxFailed
  BY AuthAssumption
<1> QED BY <1>3, <1>4, <1>5, <1>6, <1>7, <1>8
        DEF AuthInv, AuthTypeOK, SessionsSound, RequestsSound, JobSound, LockedWhenExhausted

LEMMA AuthStep == AuthInv /\ [AuthNext]_authVars => AuthInv'
<1> SUFFICES ASSUME AuthInv, [AuthNext]_authVars PROVE AuthInv'
  OBVIOUS
<1>1. CASE UNCHANGED authVars
  BY <1>1 DEF authVars, AuthInv, AuthTypeOK, SessionsSound, RequestsSound, JobSound, Sound,
              Exists, Active, LockedWhenExhausted
<1>2. CASE AuthNext
  <2>1. UsersStep /\ TokensStep /\ RequestsStep /\ OthersTyped'
    BY <1>2, UsersAge, TokensMove, RequestsMove, OthersMove
  <2>2. TokensKept /\ AuthTypeOK
    BY <2>1 DEF TokensStep, AuthInv
  <2>3. AuthTypeOK'
    BY <2>1, <2>2 DEF AuthTypeOK, OthersTyped, UsersStep, TokensKept, RequestsStep
  <2>4. LockedWhenExhausted'
    BY <2>1 DEF LockedWhenExhausted, UsersStep, LockAgrees
  <2>5. ASSUME NEW t \in Tokens, token'[t].state # "none"
        PROVE  Sound(token[t].of, token[t].version, token[t].password)'
    <3>1. CASE token[t].state # "none"
      <4>1. Sound(token[t].of, token[t].version, token[t].password)
        BY <3>1 DEF AuthInv, SessionsSound
      <4>2. token[t].of \in Users /\ token[t].version \in Nat
        BY <2>2 DEF AuthTypeOK, TokenRows
      <4>3. /\ token'[t].of = token[t].of /\ token'[t].version = token[t].version
            /\ token'[t].password = token[t].password
        BY <2>2, <3>1 DEF TokensKept, Keeps
      <4> QED BY <2>1, <4>1, <4>2, <4>3, SoundKept DEF Sound, Exists, Active
    <3>2. CASE token[t].state = "none"
      <4>1. PICK q \in Requests : IssuedBy(t, q)
        BY <2>1, <2>5, <3>2 DEF TokensStep
      <4>2. Sound(request[q].on, request[q].version, request[q].password)
        BY <4>1 DEF AuthInv, RequestsSound, JobSound, IssuedBy
      <4>3. request[q].on \in Users /\ request[q].version \in Nat
        BY <2>2, <4>1, RequestFields DEF IssuedBy
      <4> QED BY <2>1, <4>1, <4>2, <4>3, SoundKept DEF Sound, Exists, Active, IssuedBy
    <3> QED BY <3>1, <3>2
  <2>6. ASSUME NEW q \in Requests PROVE JobSound(request[q])'
    <3>1. JobSound(request'[q])
      BY <2>1 DEF RequestsStep
    <3>2. CASE request'[q].op \in {"enter", "issue"}
      <4>1. Sound(request'[q].on, request'[q].version, request'[q].password)
        BY <3>1, <3>2 DEF JobSound
      <4>2. request'[q].on \in Users /\ request'[q].version \in Nat
        BY <2>1, <3>2 DEF RequestsStep, RequestsInFlight, Idle
      <4>3. Sound(request[q].on, request[q].version, request[q].password)'
        BY <2>1, <4>1, <4>2, SoundKept DEF Sound, Exists, Active
      <4> QED BY <3>2, <4>3 DEF JobSound
    <3>3. CASE request'[q].op = "refresh"
      <4>1. request'[q].token \in Tokens
        BY <2>1, <3>3 DEF RequestsStep, RequestsInFlight, Idle
      <4>2. token'[request'[q].token].state # "none"
        BY <2>2, <3>1, <3>3, <4>1 DEF JobSound, TokensKept, Keeps
      <4> QED BY <3>3, <4>2 DEF JobSound
    <3> QED BY <3>2, <3>3 DEF JobSound
  <2> QED BY <2>3, <2>4, <2>5, <2>6 DEF AuthInv, SessionsSound, RequestsSound
<1> QED BY <1>1, <1>2

(* Whatever requests interleave, sessions and logins in flight are sound.  *)
THEOREM AuthInvariance == AuthSpec => []AuthInv
BY AuthStart, AuthStep, PTL DEF AuthSpec

(* The tables and the requests in flight keep their types.                 *)
THEOREM AuthTypes == AuthSpec => []AuthTypeOK
<1>1. AuthInv => AuthTypeOK
  BY DEF AuthInv
<1> QED BY <1>1, AuthInvariance, PTL

(* A lock and the count of failed attempts never part: no login, reset,    *)
(* reactivation or late failure clears one without the other.              *)
THEOREM LockWithCount == AuthSpec => []LockedWhenExhausted
<1>1. AuthInv => LockedWhenExhausted
  BY DEF AuthInv
<1> QED BY <1>1, AuthInvariance, PTL

(* No session opened with an earlier password is accepted, whichever way   *)
(* logins, refreshes and password changes interleave.                      *)
THEOREM OldPasswordsEnd == AuthSpec => []SessionOfPassword
<1>1. AuthInv => SessionOfPassword
  BY DEF AuthInv, SessionsSound, Sound, SessionOfPassword, Accepted
<1> QED BY <1>1, AuthInvariance, PTL

(* A session ended by a password, a role or deactivation stays ended, also *)
(* when the account is activated again.                                    *)
THEOREM EndsForGood == AuthSpec => EndedForGood
<1> DEFINE Ended(t) == ~Active(token[t].of) \/ token[t].version # user[token[t].of].version
           Step == \A t \in Tokens : token[t].state # "none" /\ Ended(t) => Ended(t)'
<1>1. AuthInv /\ [AuthNext]_authVars => [Step]_authVars
  <2> SUFFICES ASSUME AuthInv, AuthNext, NEW t \in Tokens, token[t].state # "none", Ended(t)
               PROVE  Ended(t)'
    OBVIOUS
  <2>1. UsersStep /\ TokensKept
    BY UsersAge, TokensMove DEF TokensStep
  <2>2. Sound(token[t].of, token[t].version, token[t].password)
    BY DEF AuthInv, SessionsSound
  <2>3. token[t].of \in Users /\ token[t].version \in Nat
    BY DEF AuthInv, AuthTypeOK, TokenRows
  <2>4. token'[t].of = token[t].of /\ token'[t].version = token[t].version
    BY <2>1 DEF TokensKept, Keeps
  <2>5. /\ user[token[t].of].version \in Nat /\ user'[token[t].of].version \in Nat
        /\ user'[token[t].of].version >= user[token[t].of].version
    BY <2>1, <2>2, <2>3 DEF AuthInv, AuthTypeOK, UsersStep, UserRows, Sound, Ages
  <2>6. token[t].version < user[token[t].of].version
    BY <2>2, <2>3, <2>5 DEF Sound
  <2> QED BY <2>3, <2>4, <2>5, <2>6
<1> QED BY <1>1, AuthInvariance, PTL DEF AuthSpec, EndedForGood
=============================================================================
