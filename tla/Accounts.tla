------------------------------ MODULE Accounts ------------------------------
(***************************************************************************)
(* Users, their sessions and the access requests of people who sign in     *)
(* with Google: lib/auth.ts and the handlers under api/auth.               *)
(*                                                                         *)
(* A handler of the administration computes who is calling, suspends until *)
(* the body is there, and then writes; the other handlers read the         *)
(* database only after their last suspension and are one step.  All users  *)
(* are in the one workspace that the migrations create.  Display names,    *)
(* avatars and the audit log are left out.                                 *)
(***************************************************************************)
EXTENDS Naturals, FiniteSets

CONSTANTS
    MaxUsers,    \* ids that can be given out
    People,      \* people with a Google identity; its e-mail is theirs
    Roles,       \* subset of admin, operator, viewer
    Tokens,      \* session tokens
    MaxAdminCalls,    \* requests of administrators that can be under way
    MaxAccountWrites  \* bound on writes by administrators

VARIABLES
    users,       \* rows of the table users, by id
    lastUserId,  \* AUTOINCREMENT: ids are not used again
    sessions,    \* user_sessions, by token
    requests,    \* access_requests, by person
    adminCalls,  \* calls of administrators that await their body, by caller
    handEdited,  \* people whose e-mail an administrator typed into a row
    unguarded,   \* some write was not covered by the guards against lockout
    accountWrites

accVars == <<users, lastUserId, sessions, requests, adminCalls, handEdited,
             unguarded, accountWrites>>

Nobody == "nobody"       \* no e-mail, no identity
EmptyRole == "empty"     \* a falsy role: the column takes any text
ApiKey == 0              \* the synthetic administrator of an API key
NoSession == [user |-> 0, expired |-> FALSE]

ASSUME AccountsAssumption ==
    /\ "admin" \in Roles /\ EmptyRole \notin Roles /\ Nobody \notin People
    /\ MaxUsers \in Nat \ {0} /\ MaxAdminCalls \in Nat
---------------------------------------------------------------------------
UserRow == [role : Roles \cup {EmptyRole}, provider : {"local", "google"},
            sub : People \cup {Nobody}, email : People \cup {Nobody},
            approved : BOOLEAN]

Row(role, provider, sub, email) ==
    [role |-> role, provider |-> provider, sub |-> sub, email |-> email,
     approved |-> TRUE]

Exists(id) == id \in DOMAIN users
With(id, row) == [i \in DOMAIN users \cup {id} |-> IF i = id THEN row ELSE users[i]]

\* Google's query and the approval's, with their ORDER BY id LIMIT 1.
Accounts(p) ==
    {i \in DOMAIN users : \/ users[i].provider = "google" /\ users[i].sub = p
                          \/ users[i].email = p}
AccountOf(p) == CHOOSE i \in Accounts(p) : \A j \in Accounts(p) : i <= j

\* validateSession joins the row of the user: a session counts until it
\* expires, with the role the user has now, approved or not.
SessionOf(id) == {t \in Tokens : /\ sessions[t].user = id /\ id # 0
                                 /\ ~sessions[t].expired /\ Exists(id)}
RequireAdmin(id) ==
    \/ id = ApiKey
    \/ SessionOf(id) # {} /\ users[id].role = "admin"

\* createSession: the new row, and expired ones are deleted.
CreateSession(id) ==
    /\ \E t \in Tokens : sessions[t] = NoSession
    /\ LET token == CHOOSE t \in Tokens : sessions[t] = NoSession IN
         sessions' = [t \in Tokens |->
                        IF t = token THEN [user |-> id, expired |-> FALSE]
                        ELSE IF sessions[t].expired THEN NoSession ELSE sessions[t]]

\* Fault: the sessions of a deleted user are left to expire.
DestroyNone(id) == sessions
DestroyAllUserSessions(id) ==
    [t \in Tokens |-> IF sessions[t].user = id THEN NoSession ELSE sessions[t]]
---------------------------------------------------------------------------
(* Signing in and out.                                                     *)

\* With the right password.
AuthenticateUser(id) ==
    /\ Exists(id)
    /\ users[id].provider = "local" /\ users[id].approved

Login(id) ==
    /\ AuthenticateUser(id)
    /\ CreateSession(id)
    /\ UNCHANGED <<users, lastUserId, requests, adminCalls, handEdited, unguarded, accountWrites>>

\* Fault: an account waiting for approval is linked at once.
KnownAnyway(p) == Accounts(p) # {}
Known(p) == Accounts(p) # {} /\ users[AccountOf(p)].approved

\* Google has confirmed the identity.  Whoever has no approved account
\* becomes a pending request, also after a rejection.
GooglePending(p) ==
    /\ ~Known(p) /\ requests[p] # "pending"
    /\ requests' = [requests EXCEPT ![p] = "pending"]
    /\ UNCHANGED <<users, lastUserId, sessions, adminCalls, handEdited, unguarded, accountWrites>>

\* The account becomes a Google account, whatever it was.
GoogleLogin(p) ==
    /\ Known(p)
    /\ users' = [users EXCEPT ![AccountOf(p)] =
                   [@ EXCEPT !.provider = "google", !.sub = p, !.email = p]]
    /\ CreateSession(AccountOf(p))
    /\ UNCHANGED <<lastUserId, requests, adminCalls, handEdited, unguarded, accountWrites>>

Logout(t) ==
    /\ sessions[t] # NoSession
    /\ sessions' = [sessions EXCEPT ![t] = NoSession]
    /\ UNCHANGED <<users, lastUserId, requests, adminCalls, handEdited, unguarded, accountWrites>>

\* Seven days pass.
SessionsExpire ==
    /\ \E t \in Tokens : sessions[t] # NoSession /\ ~sessions[t].expired
    /\ sessions' = [t \in Tokens |-> IF sessions[t] = NoSession THEN NoSession
                                     ELSE [sessions[t] EXCEPT !.expired = TRUE]]
    /\ UNCHANGED <<users, lastUserId, requests, adminCalls, handEdited, unguarded, accountWrites>>

---------------------------------------------------------------------------
(* Administration.                                                         *)

\* The caller of a users or access-requests handler is found to be an
\* administrator; the handler awaits the body.
AdminCall(by) ==
    /\ RequireAdmin(by)
    /\ Cardinality({c \in (0..MaxUsers) \X (1..MaxAdminCalls) : c[2] <= adminCalls[c[1]]})
         < MaxAdminCalls
    /\ adminCalls' = [adminCalls EXCEPT ![by] = @ + 1]
    /\ UNCHANGED <<users, lastUserId, sessions, requests, handEdited, unguarded, accountWrites>>

StillAdmin(id) == id \in DOMAIN users /\ users[id].role = "admin"

\* Every handler answers; a refusal changes nothing else.
Answered(by) ==
    /\ adminCalls[by] > 0
    /\ adminCalls' = [adminCalls EXCEPT ![by] = @ - 1]
Written(by, unchecked) ==
    /\ Answered(by)
    /\ accountWrites < MaxAccountWrites /\ accountWrites' = accountWrites + 1
    /\ unguarded' = (unguarded \/ unchecked \/ ~StillAdmin(by))

Refused(by) ==
    /\ Answered(by)
    /\ UNCHANGED <<users, lastUserId, sessions, requests, handEdited, unguarded, accountWrites>>

\* POST users; 409 for a name that is taken.  The Google provider can be
\* chosen here, without an identity.
CreateUser(by, role, provider, email) ==
    /\ Written(by, FALSE) /\ lastUserId < MaxUsers
    /\ lastUserId' = lastUserId + 1
    /\ users' = With(lastUserId + 1, Row(role, provider, Nobody, email))
    /\ handEdited' = handEdited \cup {email}
    /\ UNCHANGED <<sessions, requests>>

\* Fault: an administrator may change every role.
MayChangeAny(by, id, role) == TRUE
\* "Cannot change your own role": for oneself the role is left out, is the one
\* the call found, an administrator's, or is empty, which "role && ..." lets by.
MayChangeRole(by, id, role) ==
    by = id => role \in {users[id].role, "admin", EmptyRole}

\* PUT users: any of role, approval and e-mail, a role left out being the old
\* one; an empty role escapes the test of its value too, and is written.  No
\* session is ended.
UpdateUser(by, id, role, approved, email) ==
    /\ Exists(id) /\ MayChangeRole(by, id, role)
    /\ Written(by, by = id /\ role = EmptyRole)
    /\ users' = [users EXCEPT ![id] =
                   [@ EXCEPT !.role = role, !.approved = approved, !.email = email]]
    /\ handEdited' = IF email = users[id].email THEN handEdited ELSE handEdited \cup {email}
    /\ UNCHANGED <<lastUserId, sessions, requests>>

\* DELETE users, "Cannot delete your own account".
DeleteUser(by, id) ==
    /\ Exists(id) /\ by # id
    /\ Written(by, FALSE)
    /\ sessions' = DestroyAllUserSessions(id)
    /\ users' = [i \in DOMAIN users \ {id} |-> users[i]]
    /\ UNCHANGED <<lastUserId, requests, handEdited>>

\* Fault: a status that no query of the panel asks for.
DeniedStatus == "denied"
RejectedStatus == "rejected"

RejectRequest(by, p) ==
    /\ requests[p] # "none"
    /\ Written(by, FALSE)
    /\ requests' = [requests EXCEPT ![p] = RejectedStatus]
    /\ UNCHANGED <<users, lastUserId, sessions, handEdited>>

\* Fault: the transaction looks for local accounts only.
LocalAccounts(p) == {i \in Accounts(p) : users[i].provider = "local"}
ApprovedAccounts(p) == Accounts(p)

\* One transaction.  A request that has been reviewed can be approved again.
ApproveRequest(by, p, role) ==
    /\ requests[p] # "none"
    /\ Answered(by)
    /\ accountWrites < MaxAccountWrites /\ accountWrites' = accountWrites + 1
    /\ requests' = [requests EXCEPT ![p] = "approved"]
    /\ IF ApprovedAccounts(p) # {}
       THEN /\ users' = [users EXCEPT ![AccountOf(p)] =
                   [@ EXCEPT !.provider = "google", !.sub = p, !.email = p,
                             !.approved = TRUE, !.role = role]]
            /\ unguarded' = (unguarded \/ users[AccountOf(p)].role = "admin")
            /\ UNCHANGED lastUserId
       ELSE /\ lastUserId < MaxUsers
            /\ lastUserId' = lastUserId + 1
            /\ users' = With(lastUserId + 1,
                             Row(role, "google", p, p))
            /\ UNCHANGED unguarded
    /\ UNCHANGED <<sessions, handEdited>>
---------------------------------------------------------------------------
\* The administrator of the seeding.
AccInit ==
    /\ users = [i \in {1} |-> Row("admin", "local", Nobody, Nobody)]
    /\ lastUserId = 1
    /\ sessions = [t \in Tokens |-> NoSession]
    /\ requests = [p \in People |-> "none"]
    /\ adminCalls = [id \in 0..MaxUsers |-> 0]
    /\ handEdited = {} /\ unguarded = FALSE /\ accountWrites = 0

AccNext ==
    \/ \E id \in 1..MaxUsers : Login(id)
    \/ \E p \in People : GooglePending(p) \/ GoogleLogin(p)
    \/ \E t \in Tokens : Logout(t)
    \/ SessionsExpire
    \/ \E by \in 0..MaxUsers :
         \/ AdminCall(by)
         \/ Refused(by)
         \/ \E role \in Roles, provider \in {"local", "google"},
               email \in People \cup {Nobody} :
              CreateUser(by, role, provider, email)
         \/ \E id \in DOMAIN users :
              \/ DeleteUser(by, id)
              \/ \E role \in Roles \cup {EmptyRole}, approved \in BOOLEAN, email \in People \cup {Nobody} :
                   UpdateUser(by, id, role, approved, email)
         \/ \E p \in People :
              RejectRequest(by, p) \/ \E role \in Roles : ApproveRequest(by, p, role)

AccSpec == AccInit /\ [][AccNext]_accVars
---------------------------------------------------------------------------
(* Properties.                                                             *)

\* Users, sessions and access requests keep their types; a request is pending,
\* approved or rejected, the only values the handlers filter and show.
AccTypeOK ==
    /\ DOMAIN users \subseteq 1..lastUserId /\ lastUserId \in 1..MaxUsers
    /\ \A i \in DOMAIN users : users[i] \in UserRow
    /\ sessions \in [Tokens -> [user : 0..MaxUsers, expired : BOOLEAN]]
    /\ requests \in [People -> {"none", "pending", "approved", "rejected"}]
    /\ adminCalls \in [0..MaxUsers -> 0..MaxAdminCalls]

\* Deleting a user ends every session of that user, whatever logins and
\* administrators run meanwhile: no session is left without its user.
NoOrphanSession ==
    \A t \in Tokens : sessions[t] # NoSession => Exists(sessions[t].user)

\* Two administrators who approve one request, in whatever order with the
\* person's own attempts, make one account; only where an administrator typed
\* that e-mail into another row can the identity be linked twice.
OneAccountPerPerson ==
    \A p \in People \ handEdited :
        Cardinality({i \in DOMAIN users : users[i].sub = p}) <= 1

\* The guards against demoting and deleting oneself keep an administrator in
\* the table through any sequence of requests, as long as the caller of each
\* was still one when it wrote (no other administrator removed the caller
\* during the suspension, no API key), no approval changed an administrator's
\* role and nobody wrote the empty role to their own row, which the guard does
\* not look at.
AnAdminStays == ~unguarded => \E i \in DOMAIN users : users[i].role = "admin"

\* A new session is only ever given to an approved account: a person whose
\* account lost its approval signs in again only after an administrator has
\* approved it, by whichever of the two ways.
SessionNeedsApproval ==
    [][\A t \in Tokens : sessions[t] = NoSession /\ sessions'[t] # NoSession =>
         users'[sessions'[t].user].approved]_accVars

\* Accounts, sessions and requests agree through any order of logins,
\* approvals and changes by several administrators.
AccountsSafe ==
    /\ [](AccTypeOK /\ NoOrphanSession /\ OneAccountPerPerson /\ AnAdminStays)
    /\ SessionNeedsApproval
============================================================================
