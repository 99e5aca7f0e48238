------------------------------ MODULE UserSessions ------------------------------
(***************************************************************************)
(* Web users and their sessions (the authentication and user handlers of   *)
(* src/src/server.ts).  A handler loads the configuration, checks it,      *)
(* awaits bcrypt in between or not at all, changes its copy and saves the  *)
(* whole of it; the save is refused when the revision is another by then.  *)
(* Handlers of one process interleave at their awaits only, so one that    *)
(* has none is a single step.                                              *)
(*                                                                         *)
(* A username or an email is a name here: both are looked up and kept      *)
(* unique in the same way.  A token carries the id of its user and the     *)
(* version he had.  Tokens of earlier releases have no id: they are still  *)
(* good for whoever has the name they carry.  No token expires here.       *)
(***************************************************************************)
EXTENDS Integers, FiniteSets

CONSTANTS Users, Names, Secrets,
          Unset,          \* none of them
          Handlers,       \* slots for handlers that await
          MaxRevision     \* bound on the changes accepted

ASSUME UsersAssumption ==
  /\ IsFiniteSet(Users) /\ Users # {} /\ Unset \notin Users \cup Names \cup Secrets
  /\ MaxRevision \in Nat

VARIABLES users,          \* config.users
          usersRevision,  \* config.revision
          sessions,       \* tokens that were issued
          request         \* handlers behind an await

userVars == <<users, usersRevision, sessions, request>>
--------------------------------------------------------------------------------
Roles == {"none", "user", "admin", "gone"}
User == [role : Roles, name : Names \cup {Unset}, secret : Secrets \cup {Unset}, version : 0 .. MaxRevision]

\* user: whom it was issued to.  name: what a token without an id is looked up by,
\* Unset if it has one.  secret: the password that was proved to get it.
Token == [user : Users, name : Names \cup {Unset}, version : 0 .. MaxRevision, secret : Secrets]

Kinds == {"none", "register", "login", "changeName", "changePassword", "create", "stepUp", "reset"}
Request == [kind : Kinds, actor : Users \cup {Unset}, user : Users \cup {Unset},
            name : Names \cup {Unset}, old : Secrets \cup {Unset}, secret : Secrets \cup {Unset},
            role : Roles, held : [Users -> User], revision : 0 .. MaxRevision]

UsersTypeOK ==
  /\ users \in [Users -> User]
  /\ usersRevision \in 0 .. MaxRevision
  /\ sessions \subseteq Token
  /\ request \in [Handlers -> Request]

NoUser == [role |-> "none", name |-> Unset, secret |-> Unset, version |-> 0]
NoRequest == [kind |-> "none", actor |-> Unset, user |-> Unset, name |-> Unset, old |-> Unset, secret |-> Unset,
              role |-> "none", held |-> [u \in Users |-> NoUser], revision |-> 0]

--------------------------------------------------------------------------------
IsUser(document, u) == document[u].role \in {"user", "admin"}
Admins(document) == {u \in Users : document[u].role = "admin"}

\* ensureUniqueIdentity() on a document.
IsTaken(document, u, name) == \E v \in Users \ {u} : IsUser(document, v) /\ document[v].name = name

NamesDiffer(document) == \A u \in Users : IsUser(document, u) => ~IsTaken(document, u, document[u].name)

\* An installation begins without users, or with those of an earlier release and a
\* session of each.
UsersInit ==
  /\ users \in [Users -> {NoUser} \cup [role : {"user", "admin"}, name : Names, secret : Secrets, version : {0}]]
  /\ NamesDiffer(users) /\ (users # [u \in Users |-> NoUser] => Admins(users) # {})
  /\ sessions = {[user |-> u, name |-> users[u].name, version |-> 0, secret |-> users[u].secret] :
                   u \in {v \in Users : IsUser(users, v)}}
  /\ usersRevision = 0 /\ request = [q \in Handlers |-> NoRequest]

\* findUserFromTokenPayload(): by the id, and by the name only where there is none.
IsFor(t, u) == IF t.name = Unset THEN u = t.user ELSE users[u].name = t.name

\* authenticateToken(): the user is there and the version is the current one.
Authenticates(t, u) == IsUser(users, u) /\ IsFor(t, u) /\ users[u].version = t.version

IsSignedIn(a) == \E t \in sessions : Authenticates(t, a)

\* requireAdmin reads the role the user has now.
IsSignedInAdmin(a) == IsSignedIn(a) /\ users[a].role = "admin"

Await(q, what) ==
  /\ request[q] = NoRequest /\ usersRevision < MaxRevision
  /\ request' = [request EXCEPT ![q] = [what EXCEPT !.held = users, !.revision = usersRevision]]
  /\ UNCHANGED <<users, usersRevision, sessions>>

Answer(q) == request' = [request EXCEPT ![q] = NoRequest]

\* persistWithRevisionSwap() refuses a document that was loaded at another revision.
IsOutdated(q) == request[q].revision # usersRevision

\* The rest of a handler behind its await: it saves a document and issues tokens, or
\* is answered with the conflict.
SaveUsers(q, document, tokens) ==
  /\ IF IsOutdated(q) THEN UNCHANGED <<users, usersRevision, sessions>>
     ELSE /\ users' = document /\ usersRevision' = usersRevision + 1
          /\ sessions' = sessions \cup tokens
  /\ Answer(q)

Refuse(q) == Answer(q) /\ UNCHANGED <<users, usersRevision, sessions>>

\* A handler without an await.
ChangeUsers(document) ==
  /\ usersRevision < MaxRevision
  /\ users' = document /\ usersRevision' = usersRevision + 1
  /\ UNCHANGED <<sessions, request>>

NewVersion(user) == [user EXCEPT !.version = @ + 1]

\* A mutation: the token is issued for the user as he is now.
CurrentTokenFor(document, u) == [user |-> u, name |-> Unset, version |-> users[u].version, secret |-> document[u].secret]

\* issueTokenForUser(), with the secret that was proved to get it.
TokenFor(document, u) == [user |-> u, name |-> Unset, version |-> document[u].version, secret |-> document[u].secret]
--------------------------------------------------------------------------------
(***************************************************************************)
(* Handlers.                                                               *)
(***************************************************************************)
\* POST /api/register: while there are no users, and one after the other.
Register(q, u, name, secret) ==
  /\ \A v \in Users : ~IsUser(users, v)
  /\ users[u].role = "none" /\ \A p \in Handlers : request[p].kind # "register"
  /\ Await(q, [NoRequest EXCEPT !.kind = "register", !.user = u, !.name = name, !.secret = secret])

Registered(q) ==
  LET r == request[q] IN
  /\ r.kind = "register"
  /\ SaveUsers(q, [r.held EXCEPT ![r.user] = [role |-> "admin", name |-> r.name, secret |-> r.secret, version |-> 0]], {})

\* POST /api/login.  An unknown user is answered like a wrong password.
Login(q, u, secret) ==
  /\ IsUser(users, u)
  /\ Await(q, [NoRequest EXCEPT !.kind = "login", !.user = u, !.old = secret])

LoggedIn(q) ==
  LET r == request[q] IN
  /\ r.kind = "login"
  /\ sessions' = IF r.held[r.user].secret = r.old THEN sessions \cup {TokenFor(r.held, r.user)} ELSE sessions
  /\ Answer(q)
  /\ UNCHANGED <<users, usersRevision>>

\* POST /api/logout ends all sessions of the user.
Logout(a) == IsSignedIn(a) /\ ChangeUsers([users EXCEPT ![a] = NewVersion(@)])

\* POST /api/me/change-email: the user keeps his other sessions.
ChangeName(q, a, secret, name) ==
  /\ IsSignedIn(a)
  /\ Await(q, [NoRequest EXCEPT !.kind = "changeName", !.actor = a, !.user = a,
                               !.old = secret, !.name = name])

NameChanged(q) ==
  LET r == request[q]
      document == [r.held EXCEPT ![r.user].name = r.name]
  IN
  /\ r.kind = "changeName"
  /\ IF r.held[r.user].secret # r.old \/ IsTaken(r.held, r.user, r.name) THEN Refuse(q)
     ELSE SaveUsers(q, document, {TokenFor(document, r.user)})

\* POST /api/me/change-password.
ChangePassword(q, a, old, secret) ==
  /\ IsSignedIn(a)
  /\ Await(q, [NoRequest EXCEPT !.kind = "changePassword", !.actor = a, !.user = a,
                               !.old = old, !.secret = secret])

WithSecret(document, u, secret) == [document EXCEPT ![u] = [NewVersion(@) EXCEPT !.secret = secret]]

PasswordChanged(q) ==
  LET r == request[q]
      document == WithSecret(r.held, r.user, r.secret)
  IN
  /\ r.kind = "changePassword"
  /\ IF r.held[r.user].secret # r.old THEN Refuse(q)
     ELSE SaveUsers(q, document, {TokenFor(document, r.user)})

\* POST /api/admin/users.  The id is a new one.
CreateUser(q, a, u, name, secret, role) ==
  /\ IsSignedInAdmin(a) /\ users[u].role = "none" /\ ~IsTaken(users, u, name)
  /\ \A p \in Handlers : request[p].kind = "create" => request[p].user # u
  /\ Await(q, [NoRequest EXCEPT !.kind = "create", !.actor = a, !.user = u,
                               !.name = name, !.secret = secret, !.role = role])

UserCreated(q) ==
  LET r == request[q] IN
  /\ r.kind = "create"
  /\ SaveUsers(q, [r.held EXCEPT ![r.user] = [role |-> r.role, name |-> r.name, secret |-> r.secret, version |-> 0]], {})

LeavesAnAdmin(u) == users[u].role = "admin" => Cardinality(Admins(users)) > 1

\* PUT /api/admin/users/:id.
UpdateUser(a, u, name, role) ==
  /\ IsSignedInAdmin(a) /\ IsUser(users, u)
  /\ u = a => role = "admin"
  /\ role # "admin" => LeavesAnAdmin(u)
  /\ ~IsTaken(users, u, name)
  /\ ChangeUsers([users EXCEPT ![u] = [NewVersion(@) EXCEPT !.role = role, !.name = name]])

\* POST /api/admin/users/:id/reset-password: the password of the admin is verified
\* first, then the document is loaded, then the new password is hashed.
ResetPassword(q, a, u, old, secret) ==
  /\ IsSignedInAdmin(a)
  /\ Await(q, [NoRequest EXCEPT !.kind = "stepUp", !.actor = a, !.user = u, !.old = old, !.secret = secret])

SteppedUp(q) ==
  LET r == request[q] IN
  /\ r.kind = "stepUp" /\ usersRevision < MaxRevision
  /\ IF r.held[r.actor].secret = r.old /\ IsUser(users, r.user)
     THEN request' = [request EXCEPT ![q].kind = "reset", ![q].held = users, ![q].revision = usersRevision]
     ELSE Answer(q)
  /\ UNCHANGED <<users, usersRevision, sessions>>

PasswordReset(q) ==
  LET r == request[q] IN
  /\ r.kind = "reset"
  /\ SaveUsers(q, WithSecret(r.held, r.user, r.secret), {})

\* DELETE /api/admin/users/:id.
DeleteUser(a, u) ==
  /\ IsSignedInAdmin(a) /\ IsUser(users, u) /\ u # a /\ LeavesAnAdmin(u)
  /\ ChangeUsers([users EXCEPT ![u].role = "gone"])
--------------------------------------------------------------------------------
Handler(a) ==
  \/ Logout(a)
  \/ \E u \in Users : DeleteUser(a, u) \/ \E n \in Names, r \in {"user", "admin"} : UpdateUser(a, u, n, r)

AwaitingHandler(q, a) ==
  \/ \E w, x \in Secrets : ChangePassword(q, a, w, x)
  \/ \E w \in Secrets, n \in Names : ChangeName(q, a, w, n)
  \/ \E u \in Users, w, x \in Secrets : ResetPassword(q, a, u, w, x)
  \/ \E u \in Users, n \in Names, w \in Secrets, r \in {"user", "admin"} : CreateUser(q, a, u, n, w, r)

Continuation(q) ==
  \/ Registered(q) \/ LoggedIn(q) \/ NameChanged(q) \/ PasswordChanged(q)
  \/ UserCreated(q) \/ SteppedUp(q) \/ PasswordReset(q)

UsersNext ==
  \/ \E a \in Users : Handler(a) \/ \E q \in Handlers : AwaitingHandler(q, a)
  \/ \E q \in Handlers, u \in Users, w \in Secrets : Login(q, u, w) \/ \E n \in Names : Register(q, u, n, w)
  \/ \E q \in Handlers : Continuation(q)

UsersSpec == UsersInit /\ [][UsersNext]_userVars
--------------------------------------------------------------------------------
(***************************************************************************)
(* Properties.                                                             *)
(***************************************************************************)
\* A token works for the user it was issued to, as long as the password that was
\* proved for it is his: also a login that overlaps a change of the password does not
\* outlive it.  The one exception: a token without an id, whose user has given up the
\* name by then, works for the user who has it now.
SessionsFollowPasswords ==
  \A t \in sessions, u \in Users : Authenticates(t, u) =>
    \/ u = t.user /\ users[u].secret = t.secret
    \/ t.name # Unset /\ ~(IsUser(users, t.user) /\ users[t.user].name = t.name)
================================================================================
