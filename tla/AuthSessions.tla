---------------------------- MODULE AuthSessions ----------------------------
(***************************************************************************)
(* AuthService, JwtStrategy and the removal of a role: user accounts and   *)
(* the sessions opened with them.                                          *)
(*                                                                         *)
(* A session is a refresh token together with the access token handed out  *)
(* with it; both carry the authVersion their user had when the password    *)
(* was compared or the token refreshed.  An access token is stateless and  *)
(* is accepted as long as that is still the user's version.  Expiry is     *)
(* left out: an expired token is one that is not presented again.          *)
(*                                                                         *)
(* Every handler here is a sequence of statements without a lock, so all   *)
(* but the single statements are two steps or three; a request is one in   *)
(* flight with what it has read.  Names, office, position and the person   *)
(* of an account are left out.                                             *)
(***************************************************************************)
EXTENDS Integers, FiniteSets

CONSTANTS
  Users, Tokens, Resets,
  Roles,
  Administrator,  \* ROLE_CODES.ADMINISTRATOR
  Seeded,         \* the administrators the database starts with
  Requests,       \* concurrent requests to the handlers of several steps
  MaxFailed,      \* MAX_FAILED_ATTEMPTS
  MaxVersion      \* bound: changes that end the sessions of one user

ASSUME AuthAssumption ==
  /\ Administrator \in Roles
  /\ Seeded \subseteq Users
  /\ Users # {}
  /\ MaxFailed \in Nat \ {0}
  /\ MaxVersion \in Nat

VARIABLES
  user,     \* the User table; state "none" while the row is absent
  token,    \* the RefreshToken table
  reset,    \* the PasswordResetToken table
  retired,  \* the roles that are no longer active
  request   \* per request, the handler in flight with what it has read

authVars == <<user, token, reset, retired, request>>

(* password counts the changes of passwordHash.  failed is                 *)
(* failedLoginAttempts, of which only reaching MaxFailed is looked at;     *)
(* locked is lockedUntil: null, in the future or in the past.              *)
UserRows ==
  [state : {"none", "active", "inactive"}, role : Roles, version : Nat, password : Nat,
   failed : 0..MaxFailed, locked : {"no", "yes", "passed"}]

\* password: the one that was compared when the session was opened
TokenRows ==
  [state : {"none", "live", "revoked"}, of : Users, version : Nat, password : Nat]

Idle == [op |-> "idle"]

RequestsInFlight ==
  {Idle} \cup [op : {"fail"}, on : Users, failed : 0..MaxFailed]
         \cup [op : {"enter", "issue"}, on : Users, version : Nat, password : Nat]
         \cup [op : {"refresh"}, token : Tokens]
         \cup [op : {"reset"}, reset : Resets]
         \cup [op : {"password", "deactivate", "revoke"}, on : Users]
         \cup [op : {"create", "role"}, on : Users, role : Roles, version : Nat]
         \cup [op : {"update"}, on : Users, role : Roles, changed : BOOLEAN]
         \cup [op : {"retire"}, role : Roles]

AuthTypeOK ==
  /\ user \in [Users -> UserRows]
  /\ token \in [Tokens -> TokenRows]
  /\ reset \in [Resets -> [state : {"none", "open", "used"}, of : Users]]
  /\ retired \subseteq Roles
  /\ request \in [Requests -> RequestsInFlight]

NewUser(role) == [state |-> "active", role |-> role, version |-> 0, password |-> 0,
                  failed |-> 0, locked |-> "no"]

AuthInit ==
  /\ user = [u \in Users |->
       IF u \in Seeded THEN NewUser(Administrator)
                       ELSE [NewUser(Administrator) EXCEPT !.state = "none"]]
  /\ token = [t \in Tokens |-> [state |-> "none", of |-> CHOOSE u \in Users : TRUE,
                                version |-> 0, password |-> 0]]
  /\ reset = [x \in Resets |-> [state |-> "none", of |-> CHOOSE u \in Users : TRUE]]
  /\ retired = {}
  /\ request = [q \in Requests |-> Idle]

-----------------------------------------------------------------------------
Active(u) == user[u].state = "active"
Exists(u) == user[u].state # "none"
Admins == {u \in Users : Active(u) /\ user[u].role = Administrator}

\* Role and account let the user in (login, refresh, JwtStrategy.validate).
Admitted(u) == Active(u) /\ user[u].role \notin retired

\* JwtStrategy.validate, for the access token handed out with t
Accepted(t) == /\ token[t].state # "none"
               /\ Admitted(token[t].of)
               /\ token[t].version = user[token[t].of].version

Begin(q, job) ==
  /\ request[q] = Idle
  /\ request' = [request EXCEPT ![q] = job]
  /\ UNCHANGED <<user, token, reset, retired>>

Finish(q) == request' = [request EXCEPT ![q] = Idle]
Continue(q, job) == request' = [request EXCEPT ![q] = job]

\* refreshToken.updateMany({ userId in us, revokedAt: null })
RevokeAll(us) ==
  token' = [t \in Tokens |->
    IF token[t].of \in us /\ token[t].state = "live"
      THEN [token[t] EXCEPT !.state = "revoked"] ELSE token[t]]

-----------------------------------------------------------------------------
(* login *)
BeginLogin(q, u) ==
  /\ Admitted(u) /\ user[u].locked # "yes"
  /\ \/ Begin(q, [op |-> "enter", on |-> u,
                  version |-> user[u].version, password |-> user[u].password])
     \/ Begin(q, [op |-> "fail", on |-> u, failed |-> user[u].failed])

\* handleFailedLogin: the count that was read, plus one
CommitFail(q) ==
  LET u == request[q].on
      last == request[q].failed + 1 >= MaxFailed
  IN  /\ request[q].op = "fail"
      /\ user' = [user EXCEPT
           ![u].failed = IF last THEN MaxFailed ELSE request[q].failed + 1,
           ![u].locked = IF last THEN "yes" ELSE "no"]
      /\ Finish(q)
      /\ UNCHANGED <<token, reset, retired>>

\* Mutant: a login clears the count only.
CommitEnterLocked(q) ==
  /\ request[q].op = "enter"
  /\ user' = [user EXCEPT ![request[q].on].failed = 0]
  /\ Continue(q, [request[q] EXCEPT !.op = "issue"])
  /\ UNCHANGED <<token, reset, retired>>

CommitEnter(q) ==
  /\ request[q].op = "enter"
  /\ user' = [user EXCEPT ![request[q].on].failed = 0, ![request[q].on].locked = "no"]
  /\ Continue(q, [request[q] EXCEPT !.op = "issue"])
  /\ UNCHANGED <<token, reset, retired>>

\* Mutants: the session gets the version before the user's, or the one the
\* user has by now.
IssueTokenPrevious(q, t) ==
  /\ request[q].op = "issue"
  /\ token[t].state = "none"
  /\ token' = [token EXCEPT ![t] =
       [state |-> "live", of |-> request[q].on,
        version |-> request[q].version - 1, password |-> request[q].password]]
  /\ Finish(q)
  /\ UNCHANGED <<user, reset, retired>>

IssueTokenAnew(q, t) ==
  /\ request[q].op = "issue"
  /\ token[t].state = "none"
  /\ token' = [token EXCEPT ![t] =
       [state |-> "live", of |-> request[q].on,
        version |-> user[request[q].on].version, password |-> request[q].password]]
  /\ Finish(q)
  /\ UNCHANGED <<user, reset, retired>>

\* generateAccessToken and generateRefreshToken, the end of login and refresh
IssueToken(q, t) ==
  /\ request[q].op = "issue"
  /\ token[t].state = "none"
  /\ token' = [token EXCEPT ![t] =
       [state |-> "live", of |-> request[q].on,
        version |-> request[q].version, password |-> request[q].password]]
  /\ Finish(q)
  /\ UNCHANGED <<user, reset, retired>>

LockPasses(u) ==
  /\ user[u].locked = "yes"
  /\ user' = [user EXCEPT ![u].locked = "passed"]
  /\ UNCHANGED <<token, reset, retired, request>>

(* refresh and logout *)
BeginRefresh(q, t) ==
  /\ token[t].state = "live" /\ Accepted(t)
  /\ Begin(q, [op |-> "refresh", token |-> t])

CommitRefresh(q) ==
  LET t == request[q].token IN
  /\ request[q].op = "refresh"
  /\ token' = [token EXCEPT ![t].state = "revoked"]
  /\ Continue(q, [op |-> "issue", on |-> token[t].of,
                  version |-> token[t].version, password |-> token[t].password])
  /\ UNCHANGED <<user, reset, retired>>

Logout(t) ==
  /\ token[t].state = "live"
  /\ token' = [token EXCEPT ![t].state = "revoked"]
  /\ UNCHANGED <<user, reset, retired, request>>

-----------------------------------------------------------------------------
(* Passwords *)

\* A new password ends the sessions opened with the old one.
ChangedPassword(u) == [user[u] EXCEPT !.password = @ + 1, !.version = @ + 1]

RequestReset(u, x) ==
  /\ Active(u)
  /\ reset[x].state = "none"
  /\ reset' = [reset EXCEPT ![x] = [state |-> "open", of |-> u]]
  /\ UNCHANGED <<user, token, retired, request>>

BeginReset(q, x) == reset[x].state = "open" /\ Begin(q, [op |-> "reset", reset |-> x])

CommitReset(q) ==
  LET x == request[q].reset
      u == reset[x].of
  IN  /\ request[q].op = "reset"
      /\ user[u].version < MaxVersion
      /\ user' = [user EXCEPT ![u] = [ChangedPassword(u) EXCEPT !.failed = 0, !.locked = "no"]]
      /\ reset' = [reset EXCEPT ![x].state = "used"]
      /\ RevokeAll({u})
      /\ Finish(q)
      /\ UNCHANGED retired

\* changePassword, after the current password was compared
BeginPassword(q, u) == Active(u) /\ Begin(q, [op |-> "password", on |-> u])

CommitPassword(q) ==
  LET u == request[q].on IN
  /\ request[q].op = "password"
  /\ user[u].version < MaxVersion
  /\ user' = [user EXCEPT ![u] = ChangedPassword(u)]
  /\ RevokeAll({u})
  /\ Finish(q)
  /\ UNCHANGED <<reset, retired>>

-----------------------------------------------------------------------------
(* User administration                                                     *)
(*                                                                         *)
(* changeRole, deactivateUser and updateUser await the account, the count  *)
(* of administrators and the role one after the other, and then write.     *)
(* One step stands for these reads, taken when the administrators are      *)
(* counted (when the account is read, where nothing is counted), and has   *)
(* the same outcomes: an account is never deleted, so it exists by then;   *)
(* a role does not become active again, so one that is found active later  *)
(* is active by then; and an account that was an administrator's and no    *)
(* longer is has passed the count all the more.                            *)

\* The safeguard of changeRole and deactivateUser.
MayLoseAdmin(u) == user[u].role = Administrator => Cardinality(Admins) > 1

BeginCreateUser(q, u, role) ==
  /\ ~Exists(u) /\ role \notin retired
  /\ Begin(q, [op |-> "create", on |-> u, role |-> role, version |-> 0])

CommitCreateUser(q) ==
  LET u == request[q].on IN
  /\ request[q].op = "create"
  /\ ~Exists(u)
  /\ user' = [user EXCEPT ![u] = NewUser(request[q].role)]
  /\ Finish(q)
  /\ UNCHANGED <<token, reset, retired>>

BeginChangeRole(q, u, role) ==
  /\ Exists(u) /\ MayLoseAdmin(u) /\ role \notin retired
  /\ Begin(q, [op |-> "role", on |-> u, role |-> role, version |-> user[u].version])

\* Mutant: the version is written from what was read, not incremented.
CommitChangeRoleRead(q) ==
  LET u == request[q].on IN
  /\ request[q].op = "role"
  /\ request[q].version < MaxVersion
  /\ user' = [user EXCEPT ![u].role = request[q].role, ![u].version = request[q].version + 1]
  /\ Finish(q)
  /\ UNCHANGED <<token, reset, retired>>

CommitChangeRole(q) ==
  LET u == request[q].on IN
  /\ request[q].op = "role"
  /\ user[u].version < MaxVersion
  /\ user' = [user EXCEPT ![u].role = request[q].role, ![u].version = @ + 1]
  /\ Finish(q)
  /\ UNCHANGED <<token, reset, retired>>

\* updateUser with a role, which it compares with the one it read
BeginUpdateUser(q, u, role) ==
  /\ Exists(u) /\ role \notin retired
  /\ Begin(q, [op |-> "update", on |-> u, role |-> role, changed |-> role # user[u].role])

CommitUpdateUser(q) ==
  LET u == request[q].on IN
  /\ request[q].op = "update"
  /\ user[u].version < MaxVersion
  /\ user' = [user EXCEPT ![u].role = request[q].role,
                          ![u].version = IF request[q].changed THEN @ + 1 ELSE @]
  /\ Finish(q)
  /\ UNCHANGED <<token, reset, retired>>

BeginDeactivateUser(q, u) ==
  /\ Exists(u) /\ MayLoseAdmin(u)
  /\ Begin(q, [op |-> "deactivate", on |-> u])

\* deactivateUser: the account first, its refresh tokens in the next statement
CommitDeactivateUser(q) ==
  LET u == request[q].on IN
  /\ request[q].op = "deactivate"
  /\ user[u].version < MaxVersion
  /\ user' = [user EXCEPT ![u].state = "inactive", ![u].version = @ + 1]
  /\ Continue(q, [op |-> "revoke", on |-> u])
  /\ UNCHANGED <<token, reset, retired>>

RevokeDeactivated(q) ==
  /\ request[q].op = "revoke"
  /\ RevokeAll({request[q].on})
  /\ Finish(q)
  /\ UNCHANGED <<user, reset, retired>>

ReactivateUser(u) ==
  /\ Exists(u)
  /\ user[u].version < MaxVersion
  /\ user' = [user EXCEPT ![u].state = "active", ![u].failed = 0, ![u].locked = "no",
                          ![u].version = @ + 1]
  /\ UNCHANGED <<token, reset, retired, request>>

\* RolesService.remove; nothing makes a role active again
RemoveRole(q, role) ==
  /\ request[q] = Idle
  /\ retired' = retired \cup {role}
  /\ Continue(q, [op |-> "retire", role |-> role])
  /\ UNCHANGED <<user, token, reset>>

EndSessionsOfRole(q) ==
  LET role == request[q].role
      Affected == {u \in Users : Active(u) /\ user[u].role = role}
  IN  /\ request[q].op = "retire"
      /\ \A u \in Affected : user[u].version < MaxVersion
      /\ user' = [u \in Users |->
           IF u \in Affected THEN [user[u] EXCEPT !.version = @ + 1] ELSE user[u]]
      /\ RevokeAll({u \in Users : Exists(u) /\ user[u].role = role})
      /\ Finish(q)
      /\ UNCHANGED <<reset, retired>>

\* The handler fails, or its process is lost, before its next statement.
AbandonRequest(q) ==
  /\ request[q] # Idle
  /\ Finish(q)
  /\ UNCHANGED <<user, token, reset, retired>>

-----------------------------------------------------------------------------
SessionNext(q) ==
  \/ \E u \in Users : BeginLogin(q, u)
  \/ CommitFail(q)
  \/ CommitEnter(q)
  \/ \E t \in Tokens : IssueToken(q, t)
  \/ \E t \in Tokens : BeginRefresh(q, t)
  \/ CommitRefresh(q)
  \/ \E x \in Resets : BeginReset(q, x)
  \/ CommitReset(q)
  \/ \E u \in Users : BeginPassword(q, u)
  \/ CommitPassword(q)

AdminNext(q) ==
  \/ \E u \in Users, role \in Roles : BeginCreateUser(q, u, role)
  \/ CommitCreateUser(q)
  \/ \E u \in Users, role \in Roles : BeginChangeRole(q, u, role)
  \/ CommitChangeRole(q)
  \/ \E u \in Users, role \in Roles : BeginUpdateUser(q, u, role)
  \/ CommitUpdateUser(q)
  \/ \E u \in Users : BeginDeactivateUser(q, u)
  \/ CommitDeactivateUser(q)
  \/ RevokeDeactivated(q)
  \/ \E role \in Roles : RemoveRole(q, role)
  \/ EndSessionsOfRole(q)

AuthNext ==
  \/ \E q \in Requests : SessionNext(q) \/ AdminNext(q) \/ AbandonRequest(q)
  \/ \E u \in Users : LockPasses(u) \/ ReactivateUser(u)
  \/ \E u \in Users, x \in Resets : RequestReset(u, x)
  \/ \E t \in Tokens : Logout(t)

AuthSpec == AuthInit /\ [][AuthNext]_authVars

-----------------------------------------------------------------------------
(* A session that is accepted was opened with the password that is in      *)
(* force: changing or resetting a password "force[s] re-login everywhere", *)
(* for logins and refreshes in flight as well.                             *)
SessionOfPassword ==
  \A t \in Tokens : Accepted(t) => token[t].password = user[token[t].of].password

(* A session that was ended by a new password, a new role or deactivation  *)
(* is ended for good: reactivation and late writes never bring it back.    *)
EndedForGood ==
  [][\A t \in Tokens :
       LET Ended == ~Active(token[t].of) \/ token[t].version # user[token[t].of].version
       IN  token[t].state # "none" /\ Ended => Ended']_authVars

(* An account whose attempts are used up has been locked, and one that has *)
(* been locked has its attempts used up, until one statement clears both.  *)
LockedWhenExhausted ==
  \A u \in Users : user[u].failed = MaxFailed <=> user[u].locked # "no"

(* "Safeguard: prevent removing the last active Administrator": changeRole *)
(* and deactivateUser count before they write; updateUser does not count.  *)
AdministratorRemains == Admins # {}
=============================================================================
