----------------------------- MODULE SettingsProofs -----------------------------
(***************************************************************************)
(* Theorems about what the server keeps of its operators and what these    *)
(* see of it: their sessions (UserSessions), for every number of users,    *)
(* passwords and overlapping handlers; the configuration file              *)
(* (ConfigStore), for every number of callers, crashes and damages of one  *)
(* process; and the two halves of a tab of the dashboard (Dashboard,       *)
(* ActivityPolling), for every number of calls in flight.                  *)
(***************************************************************************)
EXTENDS UserSessions, ConfigStore, Dashboard, ActivityPolling, FiniteSetTheorems, SequenceTheorems, TLAPS

--------------------------------------------------------------------------------
(***************************************************************************)
(* Sessions: what a handler holds and what a token says is about the past  *)
(* of a user, and his version tells whether it still counts.               *)
(***************************************************************************)
IsPending(q) == request[q].kind # "none"

\* What a document says of a user, is of the past, or is still true.
IsPast(role, version, secret, u) ==
  role # "none" =>
    /\ users[u].role # "none" /\ version <= users[u].version
    /\ version = users[u].version => secret = users[u].secret

\* A handler saves what it holds only when nothing was saved since.
HeldInv ==
  \A q \in Handlers : IsPending(q) =>
    /\ request[q].revision <= usersRevision /\ request[q].revision < MaxRevision
    /\ request[q].revision = usersRevision => request[q].held = users
    /\ \A u \in Users : IsPast(request[q].held[u].role, request[q].held[u].version, request[q].held[u].secret, u)

\* A handler is about someone: one that creates a user, about nobody yet.
AimInv ==
  \A q \in Handlers : IsPending(q) =>
    /\ request[q].user \in Users
    /\ request[q].kind \in {"login", "changeName", "changePassword", "stepUp"} => request[q].old \in Secrets
    /\ request[q].kind \in {"login", "changeName", "changePassword"} =>
         request[q].held[request[q].user].role # "none"
    /\ request[q].kind = "stepUp" => request[q].actor \in Users
    /\ request[q].kind \in {"register", "create", "changePassword", "reset", "stepUp"} => request[q].secret \in Secrets
    /\ request[q].kind \in {"register", "create"} => request[q].held[request[q].user].role = "none"
    /\ request[q].kind = "create" => request[q].role \in {"user", "admin"}

\* A user changes at most once with a revision.
VersionInv ==
  /\ \A u \in Users : users[u].version <= usersRevision
  /\ \A q \in Handlers : IsPending(q) => \A u \in Users : request[q].held[u].version <= request[q].revision

TokenInv == \A t \in sessions : IsPast("user", t.version, t.secret, t.user)

SessionsInv == UsersTypeOK /\ HeldInv /\ AimInv /\ VersionInv /\ TokenInv

LEMMA NoRequestType == NoRequest \in Request
  BY UsersAssumption DEF NoRequest, Request, NoUser, User, Kinds, Roles

\* A handler that is answered leaves nothing to keep.
LEMMA AnsweredKeeps ==
  ASSUME SessionsInv, UNCHANGED <<users, usersRevision, sessions>>, request' \in [Handlers -> Request],
         \A q \in Handlers : request'[q] = request[q] \/ request'[q] = NoRequest
  PROVE  SessionsInv'
<1>1. \A q \in Handlers : IsPending(q)' => IsPending(q) /\ request'[q] = request[q]
  BY DEF IsPending, NoRequest
<1>2. UsersTypeOK'
  BY DEF SessionsInv, UsersTypeOK
<1>3. HeldInv'
  BY <1>1 DEF SessionsInv, HeldInv, IsPast
<1>4. AimInv'
  BY <1>1 DEF SessionsInv, AimInv
<1>5. VersionInv'
  BY <1>1 DEF SessionsInv, VersionInv
<1>6. TokenInv'
  BY DEF SessionsInv, TokenInv, IsPast
<1> QED BY <1>2, <1>3, <1>4, <1>5, <1>6 DEF SessionsInv

LEMMA AnswerKeeps ==
  ASSUME SessionsInv, NEW q \in Handlers, Answer(q), UNCHANGED <<users, usersRevision, sessions>>
  PROVE  SessionsInv'
<1>1. request' \in [Handlers -> Request] /\ \A p \in Handlers : request'[p] = request[p] \/ request'[p] = NoRequest
  BY NoRequestType DEF SessionsInv, UsersTypeOK, Answer
<1> QED BY <1>1, AnsweredKeeps

\* A handler that begins holds the present.
LEMMA HoldingKeeps ==
  ASSUME SessionsInv, NEW q \in Handlers, NEW r \in Request, usersRevision < MaxRevision,
         r.held = users, r.revision = usersRevision, request' = [request EXCEPT ![q] = r],
         UNCHANGED <<users, usersRevision, sessions>>,
         r.user \in Users,
         r.kind \in {"login", "changeName", "changePassword", "stepUp"} => r.old \in Secrets,
         r.kind \in {"login", "changeName", "changePassword"} => users[r.user].role # "none",
         r.kind = "stepUp" => r.actor \in Users,
         r.kind \in {"register", "create", "changePassword", "reset", "stepUp"} => r.secret \in Secrets,
         r.kind \in {"register", "create"} => users[r.user].role = "none",
         r.kind = "create" => r.role \in {"user", "admin"}
  PROVE  SessionsInv'
<1>1. /\ \A p \in Handlers \ {q} : request'[p] = request[p] /\ (IsPending(p)' <=> IsPending(p))
      /\ request'[q] = r
  BY DEF SessionsInv, UsersTypeOK, IsPending
<1>2. UsersTypeOK'
  BY DEF SessionsInv, UsersTypeOK
<1>3. HeldInv'
  <2>1. \A p \in Handlers \ {q} : IsPending(p)' =>
          /\ request'[p].revision <= usersRevision' /\ request'[p].revision < MaxRevision
          /\ request'[p].revision = usersRevision' => request'[p].held = users'
          /\ \A u \in Users : IsPast(request[p].held[u].role, request[p].held[u].version, request[p].held[u].secret, u)'
    BY <1>1 DEF SessionsInv, HeldInv, IsPast
  <2>2. \A u \in Users : IsPast(users[u].role, users[u].version, users[u].secret, u)'
    BY DEF SessionsInv, UsersTypeOK, User, IsPast
  <2>3. usersRevision \in Int
    BY UsersAssumption DEF SessionsInv, UsersTypeOK
  <2> QED BY <1>1, <2>1, <2>2, <2>3 DEF HeldInv, IsPast
<1>4. AimInv'
  BY <1>1 DEF SessionsInv, AimInv
<1>5. VersionInv'
  BY <1>1 DEF SessionsInv, VersionInv
<1>6. TokenInv'
  BY DEF SessionsInv, TokenInv, IsPast
<1> QED BY <1>2, <1>3, <1>4, <1>5, <1>6 DEF SessionsInv

\* A document that may be saved: nobody is forgotten, and a password only
\* changes with the version.
Follows(document) ==
  /\ document \in [Users -> User]
  /\ \A u \in Users :
       /\ document[u].version <= usersRevision + 1
       /\ users[u].role # "none" =>
            /\ document[u].role # "none" /\ users[u].version <= document[u].version
            /\ users[u].version = document[u].version => users[u].secret = document[u].secret

LEMMA SavingKeeps ==
  ASSUME SessionsInv, usersRevision < MaxRevision, Follows(users'), usersRevision' = usersRevision + 1,
         NEW tokens \in SUBSET Token, sessions' = sessions \cup tokens,
         \A t \in tokens : IsPast("user", t.version, t.secret, t.user)',
         request' \in [Handlers -> Request],
         \A q \in Handlers : request'[q] = request[q] \/ request'[q] = NoRequest
  PROVE  SessionsInv'
<1>1. \A q \in Handlers : IsPending(q)' => IsPending(q) /\ request'[q] = request[q]
  BY DEF IsPending, NoRequest
<1>2. usersRevision \in 0 .. MaxRevision /\ MaxRevision \in Nat /\ users \in [Users -> User]
  BY UsersAssumption DEF SessionsInv, UsersTypeOK
<1>3. UsersTypeOK'
  BY <1>2 DEF SessionsInv, UsersTypeOK, Follows
<1>4. \A u \in Users :
        /\ users[u].version \in Nat /\ users'[u].version \in Nat
        /\ users[u].role # "none" =>
             /\ users'[u].role # "none" /\ users[u].version <= users'[u].version
             /\ users[u].version = users'[u].version => users[u].secret = users'[u].secret
  BY <1>2 DEF Follows, User
<1>5. HeldInv'
  <2> SUFFICES ASSUME NEW q \in Handlers, IsPending(q)'
               PROVE  /\ request[q].revision <= usersRevision' /\ request[q].revision < MaxRevision
                      /\ request[q].revision # usersRevision'
                      /\ \A u \in Users : IsPast(request[q].held[u].role, request[q].held[u].version,
                                                 request[q].held[u].secret, u)'
    BY <1>1 DEF HeldInv, IsPast
  <2>1. request[q] \in Request
    BY DEF SessionsInv, UsersTypeOK
  <2>2. request[q].revision \in Int /\ request[q].revision <= usersRevision /\ request[q].revision < MaxRevision
    BY <1>1, <1>2, <2>1 DEF SessionsInv, HeldInv, Request
  <2>3. ASSUME NEW u \in Users
        PROVE  IsPast(request[q].held[u].role, request[q].held[u].version, request[q].held[u].secret, u)'
    <3>1. request[q].held[u].version \in Nat
      BY <1>2, <2>1 DEF Request, User
    <3>2. IsPast(request[q].held[u].role, request[q].held[u].version, request[q].held[u].secret, u)
      BY <1>1 DEF SessionsInv, HeldInv
    <3> QED BY <3>1, <3>2, <1>1, <1>4 DEF IsPast
  <2> QED BY <1>2, <2>2, <2>3
<1>6. AimInv'
  BY <1>1 DEF SessionsInv, AimInv
<1>7. VersionInv'
  BY <1>1 DEF SessionsInv, VersionInv, Follows
<1>8. TokenInv'
  <2> SUFFICES ASSUME NEW t \in sessions' PROVE IsPast("user", t.version, t.secret, t.user)'
    BY DEF TokenInv, IsPast
  <2>1. CASE t \in tokens
    BY <2>1
  <2>2. CASE t \in sessions
    <3>1. t.user \in Users /\ t.version \in Nat
      BY <1>2, <2>2 DEF SessionsInv, UsersTypeOK, Token
    <3> QED BY <2>2, <3>1, <1>4 DEF SessionsInv, TokenInv, IsPast
  <2> QED BY <2>1, <2>2
<1> QED BY <1>3, <1>5, <1>6, <1>7, <1>8 DEF SessionsInv

\* A handler of which nothing was saved while it waited saves its document.
LEMMA SaveKeeps ==
  ASSUME SessionsInv, NEW q \in Handlers, IsPending(q), NEW document, NEW tokens,
         ~IsOutdated(q) => /\ Follows(document)
                           /\ \A t \in tokens : t \in Token /\ t.version = document[t.user].version
                                                /\ t.secret = document[t.user].secret
                                                /\ document[t.user].role # "none",
         SaveUsers(q, document, tokens)
  PROVE  SessionsInv'
<1>1. CASE IsOutdated(q)
  BY <1>1, AnswerKeeps DEF SaveUsers
<1>2. CASE ~IsOutdated(q)
  <2>1. usersRevision < MaxRevision
    BY <1>2 DEF SessionsInv, HeldInv, IsOutdated
  <2>2. request' \in [Handlers -> Request] /\ \A p \in Handlers : request'[p] = request[p] \/ request'[p] = NoRequest
    BY NoRequestType DEF SessionsInv, UsersTypeOK, SaveUsers, Answer
  <2>3. Follows(users') /\ usersRevision' = usersRevision + 1 /\ tokens \in SUBSET Token
        /\ sessions' = sessions \cup tokens
    BY <1>2 DEF SaveUsers
  <2>4. \A t \in tokens : IsPast("user", t.version, t.secret, t.user)'
    <3> SUFFICES ASSUME NEW t \in tokens PROVE IsPast("user", t.version, t.secret, t.user)'
      OBVIOUS
    <3>1. users' = document /\ t.version = document[t.user].version /\ t.user \in Users
          /\ t.secret = document[t.user].secret /\ document[t.user].role # "none"
      BY <1>2 DEF SaveUsers, Token
    <3>2. document[t.user].version \in Nat
      BY <1>2, <3>1, UsersAssumption DEF Follows, User
    <3> QED BY <3>1, <3>2 DEF IsPast
  <2> QED BY <2>1, <2>2, <2>3, <2>4, SavingKeeps
<1> QED BY <1>1, <1>2

\* What a handler may save of one user.
LEMMA OneUserFollows ==
  ASSUME SessionsInv, usersRevision < MaxRevision, NEW u \in Users, NEW user \in User,
         user.version <= usersRevision + 1,
         users[u].role # "none" =>
           /\ user.role # "none" /\ users[u].version <= user.version
           /\ users[u].version = user.version => users[u].secret = user.secret
  PROVE  Follows([users EXCEPT ![u] = user])
<1>1. /\ users \in [Users -> User] /\ usersRevision \in Nat
      /\ \A v \in Users : users[v].version \in Nat /\ users[v].version <= usersRevision
  BY UsersAssumption DEF SessionsInv, UsersTypeOK, VersionInv, User
<1> QED BY <1>1 DEF Follows

\* What is held when nothing was saved since is what there is.
LEMMA HeldIsCurrent ==
  ASSUME SessionsInv, NEW q \in Handlers, IsPending(q), ~IsOutdated(q)
  PROVE  request[q].held = users /\ usersRevision < MaxRevision
  BY DEF SessionsInv, HeldInv, IsOutdated

\* The types of what a handler works with.
LEMMA HandlerTypes ==
  ASSUME SessionsInv
  PROVE  /\ users \in [Users -> User] /\ usersRevision \in 0 .. MaxRevision /\ MaxRevision \in Nat
         /\ \A q \in Handlers : request[q] \in Request
         /\ \A u \in Users : users[u].version \in Nat /\ users[u].version <= usersRevision
                             /\ users[u].secret \in Secrets \cup {Unset} /\ users[u].role \in Roles
  BY UsersAssumption DEF SessionsInv, UsersTypeOK, VersionInv, User
--------------------------------------------------------------------------------
(***************************************************************************)
(* Each handler keeps the invariant.                                       *)
(***************************************************************************)
LEMMA RegistersKeep ==
  ASSUME SessionsInv, NEW q \in Handlers, Registered(q) \/ UserCreated(q)
  PROVE  SessionsInv'
<1> DEFINE r == request[q]
<1>1. IsPending(q) /\ r \in Request /\ r.user \in Users /\ r.secret \in Secrets
      /\ r.held[r.user].role = "none" /\ (r.kind = "create" => r.role \in {"user", "admin"})
  BY HandlerTypes DEF SessionsInv, AimInv, IsPending, Registered, UserCreated
<1>2. ASSUME NEW role \in Roles, ~IsOutdated(q)
      PROVE  Follows([r.held EXCEPT ![r.user] = [role |-> role, name |-> r.name, secret |-> r.secret, version |-> 0]])
  <2>1. r.held = users /\ usersRevision < MaxRevision
    BY <1>1, <1>2, HeldIsCurrent
  <2> DEFINE user == [role |-> role, name |-> r.name, secret |-> r.secret, version |-> 0]
  <2>2. user \in User /\ user.version <= usersRevision + 1
    BY <1>1, HandlerTypes DEF User, Request
  <2>3. r.user \in Users /\ users[r.user].role = "none"
    BY <1>1, <2>1
  <2> HIDE DEF user
  <2>4. Follows([users EXCEPT ![r.user] = user])
    BY <2>1, <2>2, <2>3, OneUserFollows
  <2> QED BY <2>1, <2>4 DEF user
<1>3. CASE Registered(q)
  BY <1>1, <1>2, <1>3, SaveKeeps DEF Registered, Roles
<1>4. CASE UserCreated(q)
  BY <1>1, <1>2, <1>4, SaveKeeps DEF UserCreated, Roles
<1> QED BY <1>3, <1>4

\* The versions at which a token is issued late still say what was proved.
LEMMA LoginKeeps ==
  ASSUME SessionsInv, NEW q \in Handlers, LoggedIn(q)
  PROVE  SessionsInv'
<1> DEFINE r == request[q]
           mid == TokenFor(r.held, r.user)
<1>1. IsPending(q) /\ r \in Request /\ r.user \in Users /\ r.old \in Secrets /\ r.held[r.user].role # "none"
      /\ r.held \in [Users -> User]
  BY HandlerTypes DEF SessionsInv, AimInv, IsPending, LoggedIn, Request
<1>2. CASE r.held[r.user].secret = r.old
  <2>1. mid \in Token /\ IsPast("user", mid.version, mid.secret, mid.user)
    <3>1. IsPast(r.held[r.user].role, r.held[r.user].version, r.held[r.user].secret, r.user)
      BY <1>1 DEF SessionsInv, HeldInv
    <3> QED BY <1>1, <1>2, <3>1 DEF TokenFor, Token, User, IsPast
  <2>2. sessions' = sessions \cup {mid} /\ UNCHANGED <<users, usersRevision>> /\ Answer(q)
    BY <1>2 DEF LoggedIn
  <2>3. request' \in [Handlers -> Request] /\ \A p \in Handlers : request'[p] = request[p] \/ request'[p] = NoRequest
    BY <2>2, NoRequestType DEF SessionsInv, UsersTypeOK, Answer
  <2>4. \A p \in Handlers : IsPending(p)' => IsPending(p) /\ request'[p] = request[p]
    BY <2>3 DEF IsPending, NoRequest
  <2>5. UsersTypeOK'
    BY <2>1, <2>2, <2>3 DEF SessionsInv, UsersTypeOK
  <2>6. HeldInv'
    BY <2>2, <2>4 DEF SessionsInv, HeldInv, IsPast
  <2>7. AimInv' /\ VersionInv'
    BY <2>2, <2>4 DEF SessionsInv, AimInv, VersionInv
  <2>8. TokenInv'
    BY <2>1, <2>2 DEF SessionsInv, TokenInv, IsPast
  <2> QED BY <2>5, <2>6, <2>7, <2>8 DEF SessionsInv
<1>3. CASE r.held[r.user].secret # r.old
  BY <1>3, AnswerKeeps DEF LoggedIn
<1> QED BY <1>2, <1>3

LEMMA RenameKeeps ==
  ASSUME SessionsInv, NEW q \in Handlers, NameChanged(q)
  PROVE  SessionsInv'
<1> DEFINE r == request[q]
           user == [r.held[r.user] EXCEPT !.name = r.name]
           document == [r.held EXCEPT ![r.user] = user]
<1>1. IsPending(q) /\ r \in Request /\ r.user \in Users /\ r.old \in Secrets /\ r.held[r.user].role # "none"
  BY HandlerTypes DEF SessionsInv, AimInv, IsPending, NameChanged
<1>2. CASE r.held[r.user].secret # r.old \/ IsTaken(r.held, r.user, r.name)
  BY <1>2, AnswerKeeps DEF NameChanged, Refuse
<1>3. CASE ~(r.held[r.user].secret # r.old \/ IsTaken(r.held, r.user, r.name))
  <2>1. SaveUsers(q, document, {TokenFor(document, r.user)})
    BY <1>3 DEF NameChanged
  <2>2. ASSUME ~IsOutdated(q)
        PROVE  Follows(document) /\ TokenFor(document, r.user) \in Token /\ document[r.user].role # "none"
    <3>1. r.held = users /\ usersRevision < MaxRevision
      BY <1>1, <2>2, HeldIsCurrent
    <3>2. /\ user \in User /\ user.version = users[r.user].version /\ user.role = users[r.user].role
          /\ user.secret = users[r.user].secret
      BY <1>1, <3>1, HandlerTypes DEF User, Request
    <3>3. user.version <= usersRevision + 1 /\ user.version \in 0 .. MaxRevision /\ user.secret \in Secrets
      BY <1>1, <1>3, <3>1, <3>2, HandlerTypes DEF User
    <3>4. document = [users EXCEPT ![r.user] = user] /\ document[r.user] = user
      BY <1>1, <3>1, HandlerTypes
    <3> HIDE DEF user, document
    <3>5. Follows([users EXCEPT ![r.user] = user])
      BY <1>1, <3>1, <3>2, <3>3, OneUserFollows
    <3> QED BY <1>1, <3>1, <3>2, <3>3, <3>4, <3>5 DEF TokenFor, Token
  <2> HIDE DEF document
  <2> QED BY <1>1, <2>1, <2>2, SaveKeeps DEF TokenFor
<1> QED BY <1>2, <1>3

\* A new password comes with a new version.
LEMMA NewSecretFollows ==
  ASSUME SessionsInv, NEW u \in Users, NEW secret \in Secrets, usersRevision < MaxRevision
  PROVE  /\ Follows(WithSecret(users, u, secret)) /\ TokenFor(WithSecret(users, u, secret), u) \in Token
         /\ WithSecret(users, u, secret)[u].role = users[u].role
<1> DEFINE user == [NewVersion(users[u]) EXCEPT !.secret = secret]
<1>1. /\ user \in User /\ user.version = users[u].version + 1 /\ user.role = users[u].role /\ user.secret = secret
  <2>1. users[u] \in User /\ users[u].version + 1 \in 0 .. MaxRevision
    BY HandlerTypes
  <2> QED BY <2>1 DEF NewVersion, User
<1>2. user.version <= usersRevision + 1 /\ user.version \in 0 .. MaxRevision
      /\ users[u].version < user.version
  BY <1>1, HandlerTypes
<1>3. WithSecret(users, u, secret) = [users EXCEPT ![u] = user]
      /\ WithSecret(users, u, secret)[u] = user
  BY HandlerTypes DEF WithSecret
<1> HIDE DEF user
<1>4. Follows([users EXCEPT ![u] = user])
  <2>1. users[u].version # user.version
    BY <1>2, HandlerTypes
  <2>2. users[u].version <= user.version
    BY <1>2, HandlerTypes, <1>1
  <2> QED BY <1>1, <1>2, <2>1, <2>2, OneUserFollows
<1>5. TokenFor(WithSecret(users, u, secret), u) \in Token
  BY <1>1, <1>2, <1>3 DEF TokenFor, Token
<1> QED BY <1>1, <1>3, <1>4, <1>5

LEMMA NewPasswordsKeep ==
  ASSUME SessionsInv, NEW q \in Handlers, PasswordChanged(q) \/ PasswordReset(q)
  PROVE  SessionsInv'
<1> DEFINE r == request[q]
           document == WithSecret(r.held, r.user, r.secret)
<1>1. IsPending(q) /\ r.user \in Users /\ r.secret \in Secrets
      /\ (r.kind = "changePassword" => r.held[r.user].role # "none")
  BY HandlerTypes DEF SessionsInv, AimInv, IsPending, PasswordChanged, PasswordReset
<1>2. ASSUME ~IsOutdated(q)
      PROVE  Follows(document) /\ TokenFor(document, r.user) \in Token
             /\ (r.kind = "changePassword" => document[r.user].role # "none")
  <2>1. r.held = users /\ usersRevision < MaxRevision
    BY <1>1, <1>2, HeldIsCurrent
  <2> QED BY <1>1, <2>1, NewSecretFollows
<1> HIDE DEF document
<1>3. CASE PasswordReset(q)
  BY <1>1, <1>2, <1>3, SaveKeeps DEF PasswordReset, document
<1>4. CASE PasswordChanged(q) /\ r.held[r.user].secret # r.old
  BY <1>4, AnswerKeeps DEF PasswordChanged, Refuse
<1>5. CASE PasswordChanged(q) /\ r.held[r.user].secret = r.old
  <2>1. r.kind = "changePassword" /\ SaveUsers(q, document, {TokenFor(document, r.user)})
    BY <1>5 DEF PasswordChanged, document
  <2> QED BY <1>1, <1>2, <2>1, SaveKeeps DEF TokenFor
<1> QED BY <1>3, <1>4, <1>5

\* The step-up is of the past; what is changed after it is loaded anew.
LEMMA StepUpKeeps ==
  ASSUME SessionsInv, NEW q \in Handlers, SteppedUp(q)
  PROVE  SessionsInv'
<1> DEFINE r == request[q]
           s == [r EXCEPT !.kind = "reset", !.held = users, !.revision = usersRevision]
<1>1. r \in Request /\ r.user \in Users /\ r.secret \in Secrets /\ r.kind = "stepUp"
  BY HandlerTypes DEF SessionsInv, AimInv, IsPending, SteppedUp
<1>2. CASE r.held[r.actor].secret = r.old /\ IsUser(users, r.user)
  <2>1. s \in Request /\ s.held = users /\ s.revision = usersRevision /\ s.kind = "reset"
        /\ s.user = r.user /\ s.secret = r.secret
    BY <1>1, HandlerTypes DEF Request, Kinds
  <2>2. request' = [request EXCEPT ![q] = s] /\ UNCHANGED <<users, usersRevision, sessions>>
        /\ usersRevision < MaxRevision
    BY <1>1, <1>2, HandlerTypes DEF SteppedUp, SessionsInv, UsersTypeOK, Request
  <2> HIDE DEF s
  <2> QED BY <1>1, <2>1, <2>2, HoldingKeeps
<1>3. CASE ~(r.held[r.actor].secret = r.old /\ IsUser(users, r.user))
  BY <1>3, AnswerKeeps DEF SteppedUp
<1> QED BY <1>2, <1>3

\* A handler without an await saves at once.
LEMMA ChangeKeeps ==
  ASSUME SessionsInv, NEW document, Follows(document), ChangeUsers(document)
  PROVE  SessionsInv'
<1>1. Follows(users') /\ usersRevision < MaxRevision /\ usersRevision' = usersRevision + 1
      /\ sessions' = sessions \cup {} /\ UNCHANGED request
  BY DEF ChangeUsers
<1>2. request' \in [Handlers -> Request]
  BY <1>1 DEF SessionsInv, UsersTypeOK
<1>3. \A q \in Handlers : request'[q] = request[q] \/ request'[q] = NoRequest
  BY <1>1
<1> DEFINE tokens == {}
<1>4. tokens \in SUBSET Token /\ sessions' = sessions \cup tokens
      /\ \A t \in tokens : IsPast("user", t.version, t.secret, t.user)'
  BY <1>1
<1> HIDE DEF tokens
<1> QED BY <1>1, <1>2, <1>3, <1>4, SavingKeeps

LEMMA HandlersKeep ==
  ASSUME SessionsInv, NEW a \in Users, Handler(a)
  PROVE  SessionsInv'
<1>1. usersRevision < MaxRevision
  BY DEF Handler, Logout, DeleteUser, UpdateUser, ChangeUsers
<1>3. ASSUME NEW u \in Users
      PROVE  users[u] \in User /\ users[u].version \in Nat /\ users[u].version + 1 \in 0 .. MaxRevision
             /\ users[u].version + 1 <= usersRevision + 1 /\ users[u].version <= usersRevision + 1
  BY <1>1, HandlerTypes
<1>4. CASE Logout(a)
  <2> DEFINE user == NewVersion(users[a])
  <2>1. /\ user \in User /\ user.version = users[a].version + 1 /\ user.role = users[a].role
    BY <1>3 DEF NewVersion, User
  <2>2. ChangeUsers([users EXCEPT ![a] = user])
    BY <1>4 DEF Logout
  <2>3. users[a].version <= user.version /\ users[a].version # user.version
    BY <1>3, <2>1
  <2> HIDE DEF user
  <2>4. Follows([users EXCEPT ![a] = user])
    BY <1>1, <1>3, <2>1, <2>3, OneUserFollows
  <2> QED BY <2>2, <2>4, ChangeKeeps
<1>5. ASSUME NEW u \in Users, DeleteUser(a, u) PROVE SessionsInv'
  <2> DEFINE user == [users[u] EXCEPT !.role = "gone"]
  <2>1. /\ user \in User /\ user.version = users[u].version /\ user.role = "gone" /\ user.secret = users[u].secret
    BY <1>3 DEF User, Roles
  <2>2. ChangeUsers([users EXCEPT ![u] = user])
    BY <1>5 DEF DeleteUser
  <2>3. users[u].version <= user.version /\ user.version <= usersRevision + 1
    BY <1>3, <2>1
  <2> HIDE DEF user
  <2>4. Follows([users EXCEPT ![u] = user])
    BY <1>1, <2>1, <2>3, OneUserFollows
  <2> QED BY <2>2, <2>4, ChangeKeeps
<1>6. ASSUME NEW u \in Users, NEW n \in Names, NEW role \in {"user", "admin"}, UpdateUser(a, u, n, role)
      PROVE  SessionsInv'
  <2> DEFINE user == [NewVersion(users[u]) EXCEPT !.role = role, !.name = n]
  <2>1. /\ user \in User /\ user.version = users[u].version + 1 /\ user.role = role
    BY <1>3 DEF NewVersion, User, Roles
  <2>2. ChangeUsers([users EXCEPT ![u] = user])
    BY <1>6 DEF UpdateUser
  <2>3. users[u].version <= user.version /\ users[u].version # user.version
        /\ user.version <= usersRevision + 1 /\ user.role # "none"
    BY <1>3, <2>1
  <2> HIDE DEF user
  <2>4. Follows([users EXCEPT ![u] = user])
    BY <1>1, <2>1, <2>3, OneUserFollows
  <2> QED BY <2>2, <2>4, ChangeKeeps
<1> QED BY <1>4, <1>5, <1>6 DEF Handler

\* The beginning of a handler that awaits.
LEMMA AwaitKeeps ==
  ASSUME SessionsInv, NEW q \in Handlers, NEW r \in Request, Await(q, r),
         r.user \in Users,
         r.kind \in {"login", "changeName", "changePassword", "stepUp"} => r.old \in Secrets,
         r.kind \in {"login", "changeName", "changePassword"} => users[r.user].role # "none",
         r.kind = "stepUp" => r.actor \in Users,
         r.kind \in {"register", "create", "changePassword", "reset", "stepUp"} => r.secret \in Secrets,
         r.kind \in {"register", "create"} => users[r.user].role = "none",
         r.kind = "create" => r.role \in {"user", "admin"}
  PROVE  SessionsInv'
<1> DEFINE s == [r EXCEPT !.held = users, !.revision = usersRevision]
<1>1. /\ s \in Request /\ s.held = users /\ s.revision = usersRevision
      /\ s.kind = r.kind /\ s.user = r.user /\ s.old = r.old /\ s.secret = r.secret /\ s.actor = r.actor
      /\ s.role = r.role
  BY HandlerTypes DEF Request
<1>2. request' = [request EXCEPT ![q] = s] /\ UNCHANGED <<users, usersRevision, sessions>>
      /\ usersRevision < MaxRevision
  BY DEF Await
<1> HIDE DEF s
<1> QED BY <1>1, <1>2, HoldingKeeps

LEMMA AwaitingHandlersKeep ==
  ASSUME SessionsInv, NEW q \in Handlers, NEW a \in Users, AwaitingHandler(q, a)
  PROVE  SessionsInv'
<1> USE NoRequestType
<1>1. IsSignedIn(a) => users[a].role # "none"
  BY DEF IsSignedIn, Authenticates, IsUser
<1>2. ASSUME NEW w \in Secrets, NEW x \in Secrets, ChangePassword(q, a, w, x) PROVE SessionsInv'
  <2> DEFINE r == [NoRequest EXCEPT !.kind = "changePassword", !.actor = a, !.user = a,
                                    !.old = w, !.secret = x]
  <2>1. r \in Request /\ r.kind = "changePassword" /\ r.user = a /\ r.old = w /\ r.secret = x
    BY <1>1 DEF Request, Kinds
  <2>2. Await(q, r) /\ IsSignedIn(a)
    BY <1>2 DEF ChangePassword
  <2> HIDE DEF r
  <2> QED BY <1>1, <2>1, <2>2, AwaitKeeps
<1>3. ASSUME NEW w \in Secrets, NEW n \in Names, ChangeName(q, a, w, n) PROVE SessionsInv'
  <2> DEFINE r == [NoRequest EXCEPT !.kind = "changeName", !.actor = a, !.user = a,
                                    !.old = w, !.name = n]
  <2>1. r \in Request /\ r.kind = "changeName" /\ r.user = a /\ r.old = w
    BY <1>1 DEF Request, Kinds
  <2>2. Await(q, r) /\ IsSignedIn(a)
    BY <1>3 DEF ChangeName
  <2> HIDE DEF r
  <2> QED BY <1>1, <2>1, <2>2, AwaitKeeps
<1>4. ASSUME NEW u \in Users, NEW w \in Secrets, NEW x \in Secrets, ResetPassword(q, a, u, w, x) PROVE SessionsInv'
  <2> DEFINE r == [NoRequest EXCEPT !.kind = "stepUp", !.actor = a, !.user = u, !.old = w, !.secret = x]
  <2>1. r \in Request /\ r.kind = "stepUp" /\ r.user = u /\ r.old = w /\ r.secret = x /\ r.actor = a
    BY <1>1 DEF Request, Kinds
  <2>2. Await(q, r)
    BY <1>4 DEF ResetPassword
  <2> HIDE DEF r
  <2> QED BY <1>1, <2>1, <2>2, AwaitKeeps
<1>5. ASSUME NEW u \in Users, NEW n \in Names, NEW w \in Secrets, NEW role \in {"user", "admin"},
             CreateUser(q, a, u, n, w, role)
      PROVE  SessionsInv'
  <2> DEFINE r == [NoRequest EXCEPT !.kind = "create", !.actor = a, !.user = u,
                                    !.name = n, !.secret = w, !.role = role]
  <2>1. r \in Request /\ r.kind = "create" /\ r.user = u /\ r.secret = w /\ r.role = role
    BY <1>1 DEF Request, Kinds, Roles
  <2>2. Await(q, r) /\ users[u].role = "none"
    BY <1>5 DEF CreateUser
  <2> HIDE DEF r
  <2> QED BY <2>1, <2>2, AwaitKeeps
<1> QED BY <1>2, <1>3, <1>4, <1>5 DEF AwaitingHandler

LEMMA VisitorsKeep ==
  ASSUME SessionsInv, NEW q \in Handlers, NEW u \in Users, NEW w \in Secrets,
         Login(q, u, w) \/ \E n \in Names : Register(q, u, n, w)
  PROVE  SessionsInv'
<1> USE NoRequestType
<1>1. CASE Login(q, u, w)
  <2> DEFINE r == [NoRequest EXCEPT !.kind = "login", !.user = u, !.old = w]
  <2>1. r \in Request /\ r.kind = "login" /\ r.user = u /\ r.old = w
    BY DEF Request, Kinds
  <2>2. Await(q, r) /\ users[u].role # "none"
    BY <1>1 DEF Login, IsUser
  <2> HIDE DEF r
  <2> QED BY <2>1, <2>2, AwaitKeeps
<1>2. ASSUME NEW n \in Names, Register(q, u, n, w) PROVE SessionsInv'
  <2> DEFINE r == [NoRequest EXCEPT !.kind = "register", !.user = u, !.name = n, !.secret = w]
  <2>1. r \in Request /\ r.kind = "register" /\ r.user = u /\ r.secret = w
    BY DEF Request, Kinds
  <2>2. Await(q, r) /\ users[u].role = "none"
    BY <1>2 DEF Register
  <2> HIDE DEF r
  <2> QED BY <2>1, <2>2, AwaitKeeps
<1> QED BY <1>1, <1>2
--------------------------------------------------------------------------------
LEMMA SessionsInit == UsersInit => SessionsInv
<1> SUFFICES ASSUME UsersInit PROVE SessionsInv
  OBVIOUS
<1> DEFINE Earlier == [role : {"user", "admin"}, name : Names, secret : Secrets, version : {0}]
<1>1. users \in [Users -> {NoUser} \cup Earlier]
  BY DEF UsersInit
<1>2. \A u \in Users : users[u] \in User /\ users[u].version = 0 /\ (IsUser(users, u) => users[u] \in Earlier)
  BY <1>1, UsersAssumption DEF NoUser, User, Roles, IsUser
<1>3. \A t \in sessions : \E u \in Users :
        /\ users[u].role # "none" /\ users[u] \in Earlier
        /\ t = [user |-> u, name |-> users[u].name, version |-> 0, secret |-> users[u].secret]
  BY <1>2 DEF UsersInit, IsUser
<1>4. \A t \in sessions : t \in Token
  BY <1>3, UsersAssumption DEF Token
<1>5. UsersTypeOK
  <2>1. users \in [Users -> User]
    BY <1>1, <1>2
  <2> QED BY <1>4, <2>1, NoRequestType, UsersAssumption DEF UsersInit, UsersTypeOK
<1>6. \A q \in Handlers : ~IsPending(q)
  BY DEF UsersInit, IsPending, NoRequest
<1>7. VersionInv
  BY <1>2, <1>6 DEF UsersInit, VersionInv
<1>8. TokenInv
  BY <1>3 DEF TokenInv, IsPast
<1> QED BY <1>5, <1>6, <1>7, <1>8 DEF SessionsInv, HeldInv, AimInv

LEMMA SessionsStep == SessionsInv /\ [UsersNext]_userVars => SessionsInv'
<1> SUFFICES ASSUME SessionsInv, [UsersNext]_userVars PROVE SessionsInv'
  OBVIOUS
<1>1. CASE UNCHANGED userVars
  <2>1. UNCHANGED <<users, usersRevision, sessions>> /\ request' \in [Handlers -> Request]
        /\ \A q \in Handlers : request'[q] = request[q]
    BY <1>1 DEF userVars, SessionsInv, UsersTypeOK
  <2> QED BY <2>1, AnsweredKeeps
<1>2. ASSUME NEW q \in Handlers, Continuation(q) PROVE SessionsInv'
  BY <1>2, RegistersKeep, LoginKeeps, RenameKeeps, NewPasswordsKeep, StepUpKeeps DEF Continuation
<1> QED BY <1>1, <1>2, HandlersKeep, AwaitingHandlersKeep, VisitorsKeep DEF UsersNext

\* The documents, requests and tokens of the user handlers are what they are meant
\* to be: a version is never beyond the revision that can be reached.
THEOREM UsersTyping == UsersSpec => []UsersTypeOK
<1>1. SessionsInv => UsersTypeOK
  BY DEF SessionsInv
<1> QED BY <1>1, SessionsInit, SessionsStep, PTL DEF UsersSpec

(***************************************************************************)
(* Names: no two users have the same, so a token without an id is good for *)
(* one of them at most.                                                    *)
(***************************************************************************)
NamesInv ==
  /\ NamesDiffer(users)
  /\ \A q \in Handlers : IsPending(q) =>
       /\ request[q].kind = "register" => \A v \in Users : ~IsUser(request[q].held, v)
       /\ request[q].kind = "create" => ~IsTaken(request[q].held, request[q].user, request[q].name)

LEMMA OneUserDiffers ==
  ASSUME NEW document \in [Users -> User], NamesDiffer(document), NEW u \in Users, NEW user \in User,
         \/ user.role \notin {"user", "admin"}
         \/ ~IsTaken(document, u, user.name)
         \/ IsUser(document, u) /\ user.name = document[u].name
         \/ user.role = document[u].role /\ user.name = document[u].name
  PROVE  NamesDiffer([document EXCEPT ![u] = user])
BY DEF NamesDiffer, IsTaken, IsUser

\* What changes of the users with a step.
LEMMA NamesKeep ==
  ASSUME SessionsInv, NamesInv, [UsersNext]_userVars
  PROVE  NamesDiffer(users')
<1>1. /\ users \in [Users -> User] /\ NamesDiffer(users) /\ UsersTypeOK'
      /\ \A q \in Handlers : request[q] \in Request
  BY HandlerTypes, SessionsStep DEF NamesInv, SessionsInv
<1>2. ASSUME NEW q \in Handlers, IsPending(q), NEW document, NEW tokens, SaveUsers(q, document, tokens),
             request[q].held = users => NamesDiffer(document)
      PROVE  NamesDiffer(users')
  <2>1. CASE IsOutdated(q)
    BY <1>1, <1>2, <2>1 DEF SaveUsers
  <2>2. CASE ~IsOutdated(q)
    BY <1>2, <2>2, HeldIsCurrent DEF SaveUsers
  <2> QED BY <2>1, <2>2
<1>3. ASSUME NEW u \in Users, NEW user, users' = [users EXCEPT ![u] = user]
      PROVE  user \in User
  BY <1>1, <1>3 DEF UsersTypeOK
<1>4. ASSUME NEW q \in Handlers, Continuation(q) PROVE NamesDiffer(users')
  <2> DEFINE r == request[q]
  <2>1. CASE LoggedIn(q) \/ SteppedUp(q)
    BY <1>1, <2>1 DEF LoggedIn, SteppedUp
  <2>2. IsPending(q) /\ r \in Request
    BY <1>1, <1>4 DEF Continuation, Registered, LoggedIn, NameChanged, PasswordChanged, UserCreated, SteppedUp,
                      PasswordReset, IsPending
  <2>3. r.user \in Users /\ (r.kind \in {"register", "create"} => r.secret \in Secrets)
        /\ (r.kind = "create" => r.role \in {"user", "admin"})
        /\ (r.kind \in {"changePassword", "reset"} => r.secret \in Secrets)
    BY <2>2 DEF SessionsInv, AimInv
  <2>4. CASE Registered(q) \/ UserCreated(q)
    <3> DEFINE user == [role |-> IF r.kind = "register" THEN "admin" ELSE r.role,
                        name |-> r.name, secret |-> r.secret, version |-> 0]
    <3>1. user \in User /\ user.name = r.name
      BY <2>2, <2>3, <2>4, UsersAssumption DEF Registered, UserCreated, User, Roles, Request
    <3>2. SaveUsers(q, [r.held EXCEPT ![r.user] = user], {})
      BY <2>4 DEF Registered, UserCreated
    <3>3. ~IsTaken(r.held, r.user, r.name)
      BY <2>2, <2>4 DEF NamesInv, Registered, UserCreated, IsTaken
    <3> HIDE DEF user
    <3>4. r.held = users => NamesDiffer([r.held EXCEPT ![r.user] = user])
      BY <1>1, <2>3, <3>1, <3>3, OneUserDiffers
    <3> QED BY <1>2, <2>2, <3>2, <3>4
  <2>5. CASE NameChanged(q)
    <3> DEFINE user == [r.held[r.user] EXCEPT !.name = r.name]
    <3>1. CASE UNCHANGED users
      BY <1>1, <3>1
    <3>2. CASE ~IsTaken(r.held, r.user, r.name)
               /\ SaveUsers(q, [r.held EXCEPT ![r.user] = user], {TokenFor([r.held EXCEPT ![r.user] = user], r.user)})
      <4>1. user \in User /\ user.name = r.name
        BY <2>2, <2>3 DEF User, Request
      <4> HIDE DEF user
      <4>2. r.held = users => NamesDiffer([r.held EXCEPT ![r.user] = user])
        BY <1>1, <2>3, <3>2, <4>1, OneUserDiffers
      <4> QED BY <1>2, <2>2, <3>2, <4>2
    <3> QED BY <2>5, <3>1, <3>2 DEF NameChanged, Refuse
  <2>6. CASE PasswordChanged(q) \/ PasswordReset(q)
    <3> DEFINE document == WithSecret(r.held, r.user, r.secret)
    <3>1. CASE UNCHANGED users
      BY <1>1, <3>1
    <3>2. CASE \E tokens : SaveUsers(q, document, tokens)
      <4>1. PICK tokens : SaveUsers(q, document, tokens)
        BY <3>2
      <4>2. r.held = users => NamesDiffer(document)
        BY <1>1, <2>3 DEF WithSecret, NewVersion, NamesDiffer, IsTaken, IsUser, User
      <4> HIDE DEF document
      <4> QED BY <1>2, <2>2, <4>1, <4>2
    <3> QED BY <2>6, <3>1, <3>2 DEF PasswordChanged, PasswordReset, Refuse
  <2> QED BY <1>4, <2>1, <2>4, <2>5, <2>6 DEF Continuation
<1>5. ASSUME NEW a \in Users, Handler(a) PROVE NamesDiffer(users')
  <2>1. CASE Logout(a)
    BY <1>1, <2>1 DEF Logout, ChangeUsers, NewVersion, NamesDiffer, IsTaken, IsUser, User
  <2>2. ASSUME NEW u \in Users, DeleteUser(a, u) PROVE NamesDiffer(users')
    BY <1>1, <2>2 DEF DeleteUser, ChangeUsers, NamesDiffer, IsTaken, IsUser, User
  <2>3. ASSUME NEW u \in Users, NEW n \in Names, NEW role \in {"user", "admin"}, UpdateUser(a, u, n, role)
        PROVE  NamesDiffer(users')
    <3> DEFINE user == [NewVersion(users[u]) EXCEPT !.role = role, !.name = n]
    <3>1. users' = [users EXCEPT ![u] = user] /\ ~IsTaken(users, u, n) /\ user.name = n
      BY <1>1, <2>3 DEF UpdateUser, ChangeUsers, NewVersion, User
    <3> HIDE DEF user
    <3> QED BY <1>1, <1>3, <3>1, OneUserDiffers
  <2> QED BY <1>5, <2>1, <2>2, <2>3 DEF Handler
<1>6. CASE UNCHANGED users
  BY <1>1, <1>6
<1>7. ASSUME NEW q \in Handlers, NEW a \in Users, AwaitingHandler(q, a) PROVE UNCHANGED users
  BY <1>7 DEF AwaitingHandler, ChangePassword, ChangeName, ResetPassword, CreateUser, Await
<1>8. ASSUME NEW q \in Handlers, NEW u \in Users, NEW w \in Secrets,
             Login(q, u, w) \/ \E n \in Names : Register(q, u, n, w)
      PROVE  UNCHANGED users
  BY <1>8 DEF Login, Register, Await
<1>9. UNCHANGED userVars => UNCHANGED users
  BY DEF userVars
<1> QED BY <1>4, <1>5, <1>6, <1>7, <1>8, <1>9 DEF UsersNext

\* What a handler is about to create, nobody was called when it began.
LEMMA PendingNamesKeep ==
  ASSUME SessionsInv, NamesInv, [UsersNext]_userVars, NEW p \in Handlers, IsPending(p)'
  PROVE  /\ request'[p].kind = "register" => \A v \in Users : ~IsUser(request'[p].held, v)
         /\ request'[p].kind = "create" => ~IsTaken(request'[p].held, request'[p].user, request'[p].name)
<1> DEFINE Goal == /\ request'[p].kind = "register" => \A v \in Users : ~IsUser(request'[p].held, v)
                   /\ request'[p].kind = "create" => ~IsTaken(request'[p].held, request'[p].user, request'[p].name)
<1>1. /\ request \in [Handlers -> Request]
      /\ request'[p] = request[p] => Goal
  BY DEF SessionsInv, UsersTypeOK, NamesInv, IsPending
<1>2. request'[p] = NoRequest => Goal
  BY DEF NoRequest
<1>3. request'[p].kind \notin {"register", "create"} => Goal
  OBVIOUS
<1>4. ASSUME NEW q \in Handlers, Answer(q) PROVE Goal
  BY <1>1, <1>2, <1>4 DEF Answer
<1>5. ASSUME NEW q \in Handlers, NEW r \in Request, Await(q, r),
             r.kind = "register" => \A v \in Users : ~IsUser(users, v),
             r.kind = "create" => ~IsTaken(users, r.user, r.name)
      PROVE  Goal
  <2>1. request' = [request EXCEPT ![q] = [r EXCEPT !.held = users, !.revision = usersRevision]]
    BY <1>5 DEF Await
  <2>2. CASE p = q
    <3>1. request'[p] = [r EXCEPT !.held = users, !.revision = usersRevision]
      BY <1>1, <2>1, <2>2
    <3>2. request'[p].kind = r.kind /\ request'[p].held = users /\ request'[p].user = r.user
          /\ request'[p].name = r.name
      BY <3>1 DEF Request
    <3> QED BY <1>5, <3>2
  <2>3. CASE p # q
    BY <1>1, <2>1, <2>3
  <2> QED BY <2>2, <2>3
<1>6. ASSUME NEW q \in Handlers, NEW r, Await(q, r), r.kind \notin {"register", "create"}, r \in Request PROVE Goal
  BY <1>5, <1>6
<1> HIDE DEF Goal
<1>7. ASSUME NEW q \in Handlers, Continuation(q) PROVE Goal
  <2>1. CASE Answer(q)
    BY <1>4, <2>1
  <2>2. CASE SteppedUp(q) /\ ~Answer(q)
    <3>1. request' = [request EXCEPT ![q].kind = "reset", ![q].held = users, ![q].revision = usersRevision]
      BY <2>2 DEF SteppedUp
    <3>2. request'[p] = request[p] \/ request'[p].kind = "reset"
      BY <1>1, <3>1 DEF Request
    <3> QED BY <1>1, <1>3, <3>2
  <2> QED BY <1>7, <2>1, <2>2 DEF Continuation, Registered, LoggedIn, NameChanged, PasswordChanged, UserCreated,
                                  PasswordReset, SaveUsers, Refuse
<1>8. ASSUME NEW a \in Users, Handler(a) PROVE Goal
  BY <1>1, <1>8 DEF Handler, Logout, DeleteUser, UpdateUser, ChangeUsers
<1>9. ASSUME NEW q \in Handlers, NEW a \in Users, AwaitingHandler(q, a) PROVE Goal
  <2> USE NoRequestType
  <2>1. ASSUME NEW w \in Secrets, NEW x \in Secrets, ChangePassword(q, a, w, x) PROVE Goal
    <3> DEFINE r == [NoRequest EXCEPT !.kind = "changePassword", !.actor = a, !.user = a, !.old = w, !.secret = x]
    <3>1. Await(q, r) /\ r \in Request /\ r.kind = "changePassword"
      BY <2>1 DEF ChangePassword, Request, Kinds
    <3> HIDE DEF r
    <3> QED BY <1>6, <3>1
  <2>2. ASSUME NEW w \in Secrets, NEW n \in Names, ChangeName(q, a, w, n) PROVE Goal
    <3> DEFINE r == [NoRequest EXCEPT !.kind = "changeName", !.actor = a, !.user = a, !.old = w, !.name = n]
    <3>1. Await(q, r) /\ r \in Request /\ r.kind = "changeName"
      BY <2>2 DEF ChangeName, Request, Kinds
    <3> HIDE DEF r
    <3> QED BY <1>6, <3>1
  <2>3. ASSUME NEW u \in Users, NEW w \in Secrets, NEW x \in Secrets, ResetPassword(q, a, u, w, x) PROVE Goal
    <3> DEFINE r == [NoRequest EXCEPT !.kind = "stepUp", !.actor = a, !.user = u, !.old = w, !.secret = x]
    <3>1. Await(q, r) /\ r \in Request /\ r.kind = "stepUp"
      BY <2>3 DEF ResetPassword, Request, Kinds
    <3> HIDE DEF r
    <3> QED BY <1>6, <3>1
  <2>4. ASSUME NEW u \in Users, NEW n \in Names, NEW w \in Secrets, NEW role \in {"user", "admin"},
               CreateUser(q, a, u, n, w, role)
        PROVE  Goal
    <3> DEFINE r == [NoRequest EXCEPT !.kind = "create", !.actor = a, !.user = u, !.name = n, !.secret = w, !.role = role]
    <3>1. Await(q, r) /\ r \in Request /\ r.kind = "create" /\ r.user = u /\ r.name = n
      BY <2>4 DEF CreateUser, Request, Kinds, Roles
    <3>2. ~IsTaken(users, u, n)
      BY <2>4 DEF CreateUser
    <3> HIDE DEF r
    <3> QED BY <1>5, <3>1, <3>2
  <2> QED BY <1>9, <2>1, <2>2, <2>3, <2>4 DEF AwaitingHandler
<1>10. ASSUME NEW q \in Handlers, NEW u \in Users, NEW w \in Secrets,
              Login(q, u, w) \/ \E n \in Names : Register(q, u, n, w)
       PROVE  Goal
  <2> USE NoRequestType
  <2>1. CASE Login(q, u, w)
    <3> DEFINE r == [NoRequest EXCEPT !.kind = "login", !.user = u, !.old = w]
    <3>1. Await(q, r) /\ r \in Request /\ r.kind = "login"
      BY <2>1 DEF Login, Request, Kinds
    <3> HIDE DEF r
    <3> QED BY <1>6, <3>1
  <2>2. ASSUME NEW n \in Names, Register(q, u, n, w) PROVE Goal
    <3> DEFINE r == [NoRequest EXCEPT !.kind = "register", !.user = u, !.name = n, !.secret = w]
    <3>1. Await(q, r) /\ r \in Request /\ r.kind = "register" /\ \A v \in Users : ~IsUser(users, v)
      BY <2>2 DEF Register, Request, Kinds
    <3> HIDE DEF r
    <3> QED BY <1>5, <3>1
  <2> QED BY <1>10, <2>1, <2>2
<1>11. UNCHANGED userVars => Goal
  BY <1>1 DEF userVars
<1>12. Goal
  BY <1>7, <1>8, <1>9, <1>10, <1>11 DEF UsersNext
<1> QED BY <1>12 DEF Goal

\* However the handlers of server.ts overlap at their awaits, a token is good for
\* whom it was issued to and no longer than the password it was issued for, not even
\* if the login began before the change or is answered after it.  One without an id
\* is good for another user only if its own has given up the name.
THEOREM SessionsEndWithPasswords == UsersSpec => []SessionsFollowPasswords
<1>1. SessionsInv /\ NamesInv => SessionsFollowPasswords
  <2> SUFFICES ASSUME SessionsInv, NamesInv, NEW t \in sessions, NEW u \in Users, Authenticates(t, u)
               PROVE  \/ u = t.user /\ users[u].secret = t.secret
                      \/ t.name # Unset /\ ~(IsUser(users, t.user) /\ users[t.user].name = t.name)
    BY DEF SessionsFollowPasswords
  <2>1. t.user \in Users /\ (t.user = u => users[u].secret = t.secret)
    BY DEF SessionsInv, UsersTypeOK, Token, TokenInv, IsPast, Authenticates
  <2>2. ASSUME t.user # u PROVE t.name # Unset /\ users[u].name = t.name
    BY <2>2 DEF Authenticates, IsFor
  <2> QED BY <2>1, <2>2 DEF NamesInv, NamesDiffer, IsTaken, Authenticates
<1>2. UsersInit => SessionsInv /\ NamesInv
  BY SessionsInit DEF UsersInit, NamesInv, IsPending, NoRequest
<1>3. SessionsInv /\ NamesInv /\ [UsersNext]_userVars => (SessionsInv /\ NamesInv)'
  BY SessionsStep, NamesKeep, PendingNamesKeep DEF NamesInv, NamesDiffer, IsTaken, IsUser
<1> QED BY <1>1, <1>2, <1>3, PTL DEF UsersSpec

--------------------------------------------------------------------------------
(***************************************************************************)
(* The configuration file under the callers of one process: who is between *)
(* two turns of the event loop may be overtaken, who writes may not.       *)
(***************************************************************************)
OneProcess == \A c, d \in Callers : ProcessOf[c] = ProcessOf[d]

Writes(c) == caller[c].step \in {"write", "fill", "copy", "copied", "rename"}
Holds(c) == caller[c].step = "held" \/ Writes(c)

\* One caller writes at a time, and what it writes is what it will rename.
WriterInv ==
  /\ \A c, d \in Callers : Writes(c) /\ Writes(d) => c = d
  /\ \A c \in Callers :
       /\ At(c, "fill") => tmp = ConfigInode(c, caller[c].writing, FALSE)
       /\ caller[c].step \in {"copy", "copied", "rename"} => tmp = ConfigInode(c, caller[c].writing, TRUE)
       /\ At(c, "copied") => ~bak.whole
       /\ Writes(c) => caller[c].writing = IF caller[c].saves THEN NextDocument(c) ELSE caller[c].held

\* A document counts its changes, and they are of callers that are done.
Counts(doc) == doc.changes \subseteq Callers /\ doc.revision = Cardinality(doc.changes)
Finished == {c \in Callers : At(c, "done")}
CountsInv ==
  /\ Counts(main.document) /\ Counts(bak.document)
  /\ main.document.changes \subseteq Finished /\ bak.document.changes \subseteq Finished
  /\ \A c \in Callers : Counts(caller[c].held) /\ caller[c].held.changes \subseteq Finished

\* Until the file is damaged it is whole, nobody holds a later document, and
\* whoever writes holds this one.
Agrees(c) == caller[c].held.revision = main.document.revision /\ caller[c].held.changes = main.document.changes
UndamagedInv ==
  /\ ~main.exists => main.document = DefaultDocument
  /\ damages = 0 =>
       /\ main.exists => main.whole
       /\ accepted \subseteq main.document.changes
       /\ \A c \in Callers : /\ Writes(c) => Agrees(c)
                             /\ Holds(c) => caller[c].held.revision < main.document.revision \/ Agrees(c)

\* Who refreshes the backup and does not save has upgraded a document of an older schema.
RefreshInv ==
  \A c \in Callers :
    /\ At(c, "copy") => caller[c].refresh
    /\ caller[c].step \in {"write", "fill", "copy"} /\ caller[c].refresh /\ ~caller[c].saves =>
         [caller[c].held EXCEPT !.legacy = TRUE] \in preserved

StoreInv == StoreTypeOK /\ WriterInv /\ CountsInv /\ UndamagedInv /\ RefreshInv

LEMMA CountsAreBounded ==
  ASSUME NEW doc, Counts(doc)
  PROVE  doc.revision \in 0 .. Cardinality(Callers) /\ IsFiniteSet(doc.changes)
<1>1. IsFiniteSet(doc.changes) /\ Cardinality(doc.changes) <= Cardinality(Callers)
  BY StoreAssumption, FS_Subset DEF Counts
<1> QED BY <1>1, StoreAssumption, FS_CardinalityType DEF Counts

LEMMA NoChangesCount == Counts(DefaultDocument)
  BY FS_EmptySet DEF Counts, DefaultDocument

\* A change that is not in the document yet is counted.
LEMMA NextCounts ==
  ASSUME NEW doc, Counts(doc), NEW c \in Callers, c \notin doc.changes
  PROVE  Counts([revision |-> doc.revision + 1, changes |-> doc.changes \cup {c}, legacy |-> FALSE])
         /\ [revision |-> doc.revision + 1, changes |-> doc.changes \cup {c}, legacy |-> FALSE] \in Document
<1> DEFINE next == [revision |-> doc.revision + 1, changes |-> doc.changes \cup {c}, legacy |-> FALSE]
<1>1. IsFiniteSet(doc.changes)
  BY CountsAreBounded
<1>2. Cardinality(doc.changes \cup {c}) = Cardinality(doc.changes) + 1
  BY <1>1, FS_AddElement
<1>3. Counts(next)
  BY <1>2 DEF Counts
<1> QED BY <1>3, CountsAreBounded DEF Counts, Document

\* What is known of a caller and of the files.
LEMMA StoreTypes ==
  ASSUME StoreInv
  PROVE  /\ main \in ConfigFile /\ bak \in ConfigFile /\ tmp \in ConfigFile
         /\ caller \in [Callers -> CallerState]
         /\ \A c \in Callers : /\ caller[c] \in CallerState /\ caller[c].held \in Document
                               /\ caller[c].writing \in Document /\ Counts(caller[c].held)
         /\ main.document \in Document /\ bak.document \in Document
         /\ blocked \subseteq Processes /\ preserved \subseteq Document /\ accepted \subseteq Callers
  BY DEF StoreInv, StoreTypeOK, CallerState, ConfigFile, CountsInv

\* What a caller may be doing next while the files stay.
Fits(c, s) ==
  /\ s \in CallerState /\ s.step \in {"idle", "held", "write"}
  /\ Counts(s.held) /\ s.held.changes \subseteq Finished
  /\ s.step = "write" =>
       /\ \A d \in Callers : ~Writes(d)
       /\ s.writing = IF s.saves THEN [revision |-> s.held.revision + 1, changes |-> s.held.changes \cup {c}, legacy |-> FALSE]
                      ELSE s.held
  /\ damages = 0 /\ s.step # "idle" =>
       \/ s.held.revision = main.document.revision /\ s.held.changes = main.document.changes
       \/ s.step # "write" /\ s.held.revision < main.document.revision

LEMMA CallerMoves ==
  ASSUME StoreInv, NEW c \in Callers, ~At(c, "done"), NEW s, Fits(c, s), caller' = [caller EXCEPT ![c] = s],
         UNCHANGED <<configFiles, accepted, crashes, damages>>,
         blocked' \subseteq Processes, preserved \subseteq preserved', preserved' \subseteq Document,
         s.step = "write" /\ s.refresh /\ ~s.saves => [s.held EXCEPT !.legacy = TRUE] \in preserved'
  PROVE  StoreInv'
<1>1. /\ caller'[c] = s /\ caller' \in [Callers -> CallerState]
      /\ \A d \in Callers \ {c} : caller'[d] = caller[d]
  BY StoreTypes DEF Fits
<1>2. UNCHANGED <<main, bak, tmp, accepted, crashes, damages>>
  BY DEF configFiles
<1>3. Finished \subseteq Finished'
  BY <1>1 DEF Finished, At
<1>4. StoreTypeOK'
  BY <1>1, <1>2 DEF StoreInv, StoreTypeOK
<1>5. WriterInv'
  <2>1. ASSUME NEW d \in Callers, NEW e \in Callers, Writes(d)', Writes(e)' PROVE d = e
    BY <1>1, <2>1 DEF StoreInv, WriterInv, Writes, Fits
  <2>2. ASSUME NEW d \in Callers
        PROVE  /\ At(d, "fill")' => tmp' = ConfigInode(d, caller'[d].writing, FALSE)
               /\ caller'[d].step \in {"copy", "copied", "rename"} => tmp' = ConfigInode(d, caller'[d].writing, TRUE)
               /\ At(d, "copied")' => ~bak'.whole
    BY <1>1, <1>2 DEF StoreInv, WriterInv, At, Fits
  <2>3. ASSUME NEW d \in Callers, Writes(d)'
        PROVE  caller'[d].writing = IF caller'[d].saves THEN NextDocument(d)' ELSE caller'[d].held
    BY <1>1, <2>3 DEF StoreInv, WriterInv, Writes, Fits, NextDocument
  <2> QED BY <2>1, <2>2, <2>3 DEF WriterInv
<1>6. CountsInv'
  BY <1>1, <1>2, <1>3 DEF StoreInv, CountsInv, Fits, Counts
<1>7. UndamagedInv'
  BY <1>1, <1>2 DEF StoreInv, UndamagedInv, Fits, Writes, Holds, Agrees
<1>8. RefreshInv'
  BY <1>1 DEF StoreInv, RefreshInv, Fits, At
<1> QED BY <1>4, <1>5, <1>6, <1>7, <1>8 DEF StoreInv

\* Nobody else writes in the one process there is.
LEMMA NobodyWrites ==
  ASSUME OneProcess, NEW c \in Callers, ~IsBusy(ProcessOf[c])
  PROVE  \A d \in Callers : ~Writes(d)
  BY DEF OneProcess, IsBusy, Writes

LEMMA NothingTypes ==
  /\ DefaultDocument \in Document /\ NoConfigFile \in ConfigFile /\ IdleCaller \in CallerState
  /\ IdleCaller.step = "idle" /\ IdleCaller.held = DefaultDocument
  /\ Counts(IdleCaller.held) /\ IdleCaller.held.changes = {}
<1>1. DefaultDocument \in Document
  BY NoChangesCount, CountsAreBounded DEF DefaultDocument, Document
<1> QED BY <1>1, NoChangesCount DEF NoConfigFile, ConfigFile, IdleCaller, CallerState, CallerSteps, DefaultDocument

LEMMA IdleFits ==
  ASSUME StoreInv, NEW c \in Callers
  PROVE  Fits(c, IdleCaller)
  BY NothingTypes DEF Fits

\* What a caller is given: a document of the past, or the one that is there.
LEMMA HoldKeeps ==
  ASSUME StoreInv, NEW c \in Callers, At(c, "idle"), NEW doc \in Document, HoldDocument(c, doc),
         Counts(doc), doc.changes \subseteq Finished,
         damages = 0 => doc.revision = main.document.revision /\ doc.changes = main.document.changes,
         UNCHANGED <<configFiles, accepted, crashes, damages>>, blocked' \subseteq Processes
  PROVE  StoreInv'
<1> DEFINE s == [caller[c] EXCEPT !.step = "held", !.held = doc]
<1>1. s \in CallerState /\ s.step = "held" /\ s.held = doc
  BY StoreTypes DEF CallerState, CallerSteps
<1>2. caller' = [caller EXCEPT ![c] = s] /\ preserved' = preserved
  BY StoreTypes DEF HoldDocument
<1> HIDE DEF s
<1>3. Fits(c, s)
  BY <1>1 DEF Fits
<1> QED BY <1>1, <1>2, <1>3, CallerMoves, StoreTypes DEF At

LEMMA UpgradeKeeps ==
  ASSUME StoreInv, NEW c \in Callers, At(c, "idle"), \A d \in Callers : ~Writes(d), NEW doc \in Document,
         NEW refresh \in BOOLEAN, HoldAndWrite(c, doc, refresh),
         Counts(doc), doc.changes \subseteq Finished, refresh => doc.legacy,
         damages = 0 => doc.revision = main.document.revision /\ doc.changes = main.document.changes,
         UNCHANGED <<configFiles, accepted, crashes, damages>>
  PROVE  StoreInv'
<1> DEFINE s == [step |-> "write", held |-> Upgraded(doc), writing |-> Upgraded(doc), saves |-> FALSE, refresh |-> refresh]
<1>1. Upgraded(doc) \in Document /\ Upgraded(doc).revision = doc.revision /\ Upgraded(doc).changes = doc.changes
  BY DEF Upgraded, Document
<1>2. s \in CallerState
  BY <1>1 DEF CallerState, CallerSteps
<1>3. Fits(c, s)
  BY <1>1, <1>2 DEF Fits, Counts
<1>4. caller' = [caller EXCEPT ![c] = s] /\ blocked' \subseteq Processes
  BY StoreTypes DEF HoldAndWrite
<1>5. preserved \subseteq preserved' /\ preserved' \subseteq Document
      /\ (refresh => [Upgraded(doc) EXCEPT !.legacy = TRUE] \in preserved')
  <2>1. doc.legacy => [Upgraded(doc) EXCEPT !.legacy = TRUE] = doc
    BY DEF Upgraded, Document
  <2> QED BY <2>1, StoreTypes DEF HoldAndWrite, Preserve
<1> QED BY <1>3, <1>4, <1>5, CallerMoves DEF At

LEMMA LoadKeeps ==
  ASSUME OneProcess, StoreInv, NEW c \in Callers, LoadConfig(c)
  PROVE  StoreInv'
<1>1. At(c, "idle") /\ (\A d \in Callers : ~Writes(d)) /\ UNCHANGED <<configFiles, accepted, crashes, damages>>
  BY NobodyWrites DEF LoadConfig
<1>2. /\ DefaultDocument \in Document /\ Counts(DefaultDocument) /\ DefaultDocument.changes = {}
      /\ main.document \in Document /\ Counts(main.document) /\ main.document.changes \subseteq Finished
      /\ bak.document \in Document /\ Counts(bak.document) /\ bak.document.changes \subseteq Finished
  BY StoreTypes, NoChangesCount, CountsAreBounded DEF StoreInv, CountsInv, DefaultDocument, Document
<1>3. UnblockWrites(c) => blocked' \subseteq Processes
  BY StoreTypes DEF UnblockWrites
<1>4. BlockWrites(c) => blocked' \subseteq Processes
  BY StoreTypes, StoreAssumption DEF BlockWrites
<1>5. CASE ~main.exists /\ HoldDocument(c, DefaultDocument) /\ UnblockWrites(c)
  BY <1>1, <1>2, <1>3, <1>5, HoldKeeps DEF StoreInv, UndamagedInv
<1>6. CASE IsReadable(main) /\ ~main.document.legacy /\ HoldDocument(c, main.document) /\ UnblockWrites(c)
  BY <1>1, <1>2, <1>3, <1>6, HoldKeeps
<1>7. CASE IsReadable(main) /\ main.document.legacy /\ HoldAndWrite(c, main.document, TRUE)
  BY <1>1, <1>2, <1>7, UpgradeKeeps
<1>8. CASE main.exists /\ ~main.whole /\ IsReadable(bak) /\ HoldAndWrite(c, bak.document, FALSE)
  <2>1. damages # 0
    BY <1>8 DEF StoreInv, UndamagedInv
  <2> QED BY <1>1, <1>2, <1>8, <2>1, UpgradeKeeps
<1>9. CASE main.exists /\ ~main.whole /\ HoldDocument(c, DefaultDocument) /\ BlockWrites(c)
  <2>1. damages # 0
    BY <1>9 DEF StoreInv, UndamagedInv
  <2> QED BY <1>1, <1>2, <1>4, <1>9, <2>1, HoldKeeps
<1> QED BY <1>5, <1>6, <1>7, <1>8, <1>9 DEF LoadConfig

LEMMA GiveUpKeeps ==
  ASSUME StoreInv, NEW c \in Callers, GiveUpChange(c)
  PROVE  StoreInv'
<1>1. IdleCaller.step = "idle"
  BY DEF IdleCaller
<1> QED BY <1>1, IdleFits, CallerMoves, StoreTypes DEF GiveUpChange, At

\* A save that is not refused builds on the document that is there.
LEMMA SaveConfigKeeps ==
  ASSUME OneProcess, StoreInv, NEW c \in Callers, SaveConfig(c)
  PROVE  StoreInv'
<1>1. /\ At(c, "held") /\ (\A d \in Callers : ~Writes(d))
      /\ UNCHANGED <<configFiles, blocked, preserved, accepted, crashes, damages>>
  BY NobodyWrites DEF SaveConfig
<1>2. CASE (ProcessOf[c] \in blocked /\ main.exists) \/ IsStale(c)
  <2>1. caller' = [caller EXCEPT ![c] = IdleCaller] /\ IdleCaller.step = "idle"
    BY <1>2 DEF SaveConfig, IdleCaller
  <2> QED BY <1>1, <2>1, IdleFits, CallerMoves, StoreTypes DEF At
<1>3. CASE ~((ProcessOf[c] \in blocked /\ main.exists) \/ IsStale(c))
  <2> DEFINE s == [caller[c] EXCEPT !.step = "write", !.writing = NextDocument(c), !.saves = TRUE, !.refresh = TRUE]
  <2>1. c \notin caller[c].held.changes
    BY <1>1 DEF StoreInv, CountsInv, Finished, At
  <2>2. NextDocument(c) \in Document
    BY <2>1, StoreTypes, NextCounts DEF NextDocument
  <2>3. /\ s \in CallerState /\ s.step = "write" /\ s.saves /\ s.held = caller[c].held /\ s.writing = NextDocument(c)
    BY <2>2, StoreTypes DEF CallerState, CallerSteps
  <2>4. damages = 0 => Agrees(c)
    <3> SUFFICES ASSUME damages = 0 PROVE Agrees(c)
      OBVIOUS
    <3>1. CASE main.exists
      <4>1. main.document.revision = caller[c].held.revision /\ main.document.revision \in Nat
        BY <1>3, <3>1, StoreTypes DEF StoreInv, UndamagedInv, IsStale, IsReadable, Document
      <4>2. caller[c].held.revision < main.document.revision \/ Agrees(c)
        BY <1>1 DEF StoreInv, UndamagedInv, Holds, At
      <4> QED BY <4>1, <4>2
    <3>2. CASE ~main.exists
      <4>1. main.document.revision = 0 /\ caller[c].held.revision \in Nat
        BY <3>2, StoreTypes DEF StoreInv, UndamagedInv, DefaultDocument, Document
      <4> QED BY <1>1, <4>1 DEF StoreInv, UndamagedInv, Holds, At
    <3> QED BY <3>1, <3>2
  <2>5. caller' = [caller EXCEPT ![c] = s]
    BY <1>3 DEF SaveConfig
  <2> HIDE DEF s
  <2>6. Fits(c, s)
    BY <1>1, <2>3, <2>4, StoreTypes DEF Fits, NextDocument, Agrees, StoreInv, CountsInv
  <2> QED BY <1>1, <2>3, <2>5, <2>6, CallerMoves, StoreTypes DEF At
<1> QED BY <1>2, <1>3

\* A caller goes on with what it has.
LEMMA GoingOn ==
  ASSUME StoreInv, NEW c \in Callers, NEW step \in CallerSteps, GotoStep(c, step)
  PROVE  /\ caller' \in [Callers -> CallerState] /\ caller'[c].step = step
         /\ \A d \in Callers \ {c} : caller'[d] = caller[d]
         /\ \A d \in Callers : /\ caller'[d].held = caller[d].held /\ caller'[d].writing = caller[d].writing
                               /\ caller'[d].saves = caller[d].saves /\ caller'[d].refresh = caller[d].refresh
  BY StoreTypes DEF GotoStep, CallerState

\* The steps of a writer before its rename leave the document and what is known of it.
LEMMA WritingKeeps ==
  ASSUME StoreInv, NEW c \in Callers, Writes(c), NEW step \in {"fill", "copy", "copied", "rename"},
         GotoStep(c, step), step = "copy" => At(c, "fill") /\ caller[c].refresh,
         step = "fill" => At(c, "write"),
         main' \in ConfigFile, main'.document = main.document, main'.exists = main.exists, main.whole => main'.whole,
         tmp' = ConfigInode(c, caller[c].writing, step # "fill"),
         bak' \in ConfigFile, bak'.document = bak.document \/ bak'.document = main.document,
         step = "copied" => ~bak'.whole,
         UNCHANGED <<blocked, preserved, accepted, crashes, damages>>
  PROVE  StoreInv'
<1>1. step \in CallerSteps
  BY DEF CallerSteps
<1>2. /\ caller' \in [Callers -> CallerState] /\ caller'[c].step = step
      /\ \A d \in Callers \ {c} : caller'[d] = caller[d]
      /\ \A d \in Callers : /\ caller'[d].held = caller[d].held /\ caller'[d].writing = caller[d].writing
                            /\ caller'[d].saves = caller[d].saves /\ caller'[d].refresh = caller[d].refresh
  BY <1>1, GoingOn
<1>3. /\ \A d \in Callers \ {c} : ~Writes(d) /\ ~Writes(d)'
      /\ \A d \in Callers : (Writes(d)' <=> Writes(d)) /\ (Holds(d)' <=> Holds(d)) /\ (At(d, "done")' <=> At(d, "done"))
  BY <1>2 DEF StoreInv, WriterInv, Writes, Holds, At
<1>4. StoreTypeOK'
  <2>1. tmp' \in ConfigFile
    BY StoreTypes DEF ConfigInode, ConfigFile
  <2> QED BY <1>2, <2>1 DEF StoreInv, StoreTypeOK
<1>5. WriterInv'
  <2>1. \A d \in Callers : Writes(d) => caller[d].writing = IF caller[d].saves THEN NextDocument(d) ELSE caller[d].held
    BY DEF StoreInv, WriterInv
  <2>2. \A d \in Callers : NextDocument(d)' = NextDocument(d)
    BY <1>2 DEF NextDocument
  <2>3. \A d \in Callers :
          /\ At(d, "fill")' => tmp' = ConfigInode(d, caller'[d].writing, FALSE)
          /\ caller'[d].step \in {"copy", "copied", "rename"} => tmp' = ConfigInode(d, caller'[d].writing, TRUE)
          /\ At(d, "copied")' => ~bak'.whole
    BY ZenonT(30), <1>2, <1>3 DEF At, Writes
  <2>4. \A d, e \in Callers : Writes(d)' /\ Writes(e)' => d = e
    BY <1>3
  <2>5. \A d \in Callers : Writes(d)' => (caller[d].writing = IF caller[d].saves THEN NextDocument(d) ELSE caller[d].held)'
    BY <1>2, <1>3, <2>1, <2>2
  <2> QED BY <2>3, <2>4, <2>5 DEF WriterInv
<1>6. CountsInv'
  <2>1. Finished' = Finished
    BY <1>3 DEF Finished
  <2> QED BY <1>2, <2>1 DEF StoreInv, CountsInv, Counts
<1>7. UndamagedInv'
  BY <1>2, <1>3 DEF StoreInv, UndamagedInv, Agrees
<1>8. RefreshInv'
  <2> SUFFICES ASSUME NEW d \in Callers
               PROVE  /\ At(d, "copy")' => caller'[d].refresh
                      /\ caller'[d].step \in {"write", "fill", "copy"} /\ caller[d].refresh /\ ~caller[d].saves =>
                           [caller[d].held EXCEPT !.legacy = TRUE] \in preserved
    BY <1>2 DEF RefreshInv
  <2>1. CASE d = c
    BY <1>2, <2>1 DEF StoreInv, RefreshInv, At
  <2>2. CASE d # c
    BY <1>2, <2>2 DEF StoreInv, RefreshInv, At
  <2> QED BY <2>1, <2>2
<1> QED BY <1>4, <1>5, <1>6, <1>7, <1>8 DEF StoreInv

LEMMA OpenKeeps ==
  ASSUME StoreInv, NEW c \in Callers, OpenTemporary(c)
  PROVE  StoreInv'
<1>1. Writes(c) /\ GotoStep(c, "fill") /\ UNCHANGED <<main, bak, blocked, preserved, accepted, crashes, damages>>
      /\ tmp' = ConfigInode(c, caller[c].writing, FALSE) /\ At(c, "write")
  BY DEF OpenTemporary, Writes, At
<1> QED BY <1>1, WritingKeeps, StoreTypes

LEMMA FillKeeps ==
  ASSUME StoreInv, NEW c \in Callers, FillTemporary(c)
  PROVE  StoreInv'
<1>1. tmp = ConfigInode(c, caller[c].writing, FALSE) /\ At(c, "fill") /\ Writes(c)
  BY DEF StoreInv, WriterInv, FillTemporary, At, Writes
<1>2. tmp' = ConfigInode(c, caller[c].writing, TRUE)
  BY <1>1 DEF FillTemporary, ConfigInode
<1>3. /\ main' \in ConfigFile /\ main'.document = main.document /\ main'.exists = main.exists
      /\ (main.whole => main'.whole)
  BY StoreTypes DEF FillTemporary, ConfigFile
<1>4. CASE caller[c].refresh /\ main.exists
  <2>1. GotoStep(c, "copy")
    BY <1>4 DEF FillTemporary
  <2> QED BY <1>1, <1>2, <1>3, <1>4, <2>1, WritingKeeps, StoreTypes DEF FillTemporary
<1>5. CASE ~(caller[c].refresh /\ main.exists)
  <2>1. GotoStep(c, "rename")
    BY <1>5 DEF FillTemporary
  <2> QED BY <1>1, <1>2, <1>3, <2>1, WritingKeeps, StoreTypes DEF FillTemporary
<1> QED BY <1>4, <1>5

LEMMA CopyKeeps ==
  ASSUME StoreInv, NEW c \in Callers, CopyBackup(c)
  PROVE  StoreInv'
<1>1. Writes(c) /\ tmp = ConfigInode(c, caller[c].writing, TRUE)
  BY DEF StoreInv, WriterInv, CopyBackup, At, Writes
<1>2. UNCHANGED <<main, tmp, blocked, preserved, accepted, crashes, damages>>
  BY DEF CopyBackup
<1>3. [main EXCEPT !.whole = FALSE] \in ConfigFile
  BY StoreTypes DEF ConfigFile
<1>4. CASE GotoStep(c, "copied") /\ bak' = [main EXCEPT !.whole = FALSE]
  <2>1. bak' \in ConfigFile /\ bak'.document = main.document /\ ~bak'.whole
    BY <1>3, <1>4, StoreTypes DEF ConfigFile
  <2> QED BY <1>1, <1>2, <1>4, <2>1, WritingKeeps, StoreTypes
<1>5. CASE GotoStep(c, "rename") /\ bak' = main
  BY <1>1, <1>2, <1>5, WritingKeeps, StoreTypes
<1> QED BY <1>4, <1>5 DEF CopyBackup

\* What a rename makes of the document: the one that is held, or the next one.
LEMMA RenamesDocument ==
  ASSUME StoreInv, NEW c \in Callers, RenameTemporary(c)
  PROVE  /\ Writes(c) /\ ~At(c, "done") /\ c \notin caller[c].held.changes
         /\ main' = ConfigInode(c, caller[c].writing, TRUE) /\ tmp' = NoConfigFile
         /\ caller[c].writing = IF caller[c].saves THEN NextDocument(c) ELSE caller[c].held
         /\ GotoStep(c, IF caller[c].saves THEN "done" ELSE "held")
         /\ accepted' = IF caller[c].saves THEN accepted \cup {c} ELSE accepted
         /\ UnblockWrites(c) /\ UNCHANGED <<bak, preserved, crashes, damages>>
<1>1. At(c, "rename") /\ Writes(c) /\ ~At(c, "done")
  BY DEF RenameTemporary, At, Writes
<1>2. tmp = ConfigInode(c, caller[c].writing, TRUE) /\ tmp.exists
  BY <1>1 DEF StoreInv, WriterInv, ConfigInode, At
<1>3. c \notin caller[c].held.changes
  BY <1>1 DEF StoreInv, CountsInv, Finished
<1>4. caller[c].writing = IF caller[c].saves THEN NextDocument(c) ELSE caller[c].held
  BY <1>1 DEF StoreInv, WriterInv
<1> QED BY <1>1, <1>2, <1>3, <1>4 DEF RenameTemporary

LEMMA RenameTemporaryKeeps ==
  ASSUME StoreInv, NEW c \in Callers, RenameTemporary(c)
  PROVE  StoreInv'
<1> DEFINE step == IF caller[c].saves THEN "done" ELSE "held"
<1>1. step \in CallerSteps /\ GotoStep(c, step)
  BY RenamesDocument DEF CallerSteps
<1> HIDE DEF step
<1>2. /\ caller' \in [Callers -> CallerState] /\ caller'[c].step = step
      /\ \A d \in Callers \ {c} : caller'[d] = caller[d]
      /\ \A d \in Callers : /\ caller'[d].held = caller[d].held /\ caller'[d].writing = caller[d].writing
                            /\ caller'[d].saves = caller[d].saves /\ caller'[d].refresh = caller[d].refresh
  BY <1>1, GoingOn
<1>3. \A d \in Callers : ~Writes(d)' /\ ~At(d, "copy")' /\ (d # c => ~Writes(d))
  BY ZenonT(30), <1>2, RenamesDocument DEF StoreInv, WriterInv, Writes, At, step
<1>4. /\ main'.exists /\ main'.whole /\ main'.document = caller[c].writing /\ bak' = bak /\ damages' = damages
      /\ tmp' = NoConfigFile
  BY RenamesDocument DEF ConfigInode
<1>5. StoreTypeOK'
  <2>1. main' \in ConfigFile /\ tmp' \in ConfigFile
    <3>1. main' = ConfigInode(c, caller[c].writing, TRUE) /\ tmp' = NoConfigFile
      BY RenamesDocument
    <3>2. caller[c].writing \in Document
      BY StoreTypes
    <3> QED BY <3>1, <3>2, NothingTypes DEF ConfigInode, ConfigFile
  <2>2. blocked' \subseteq Processes /\ accepted' \subseteq Callers
    BY RenamesDocument, StoreTypes DEF UnblockWrites
  <2> QED BY <1>2, <2>1, <2>2, RenamesDocument DEF StoreInv, StoreTypeOK
<1>6. WriterInv'
  BY <1>3 DEF WriterInv, Writes, At
<1>7. CountsInv'
  <2>1. Finished' = IF caller[c].saves THEN Finished \cup {c} ELSE Finished
    BY ZenonT(30), <1>2, RenamesDocument DEF Finished, At, step
  <2>2. Counts(caller[c].writing) /\ caller[c].writing.changes \subseteq Finished'
    <3>1. CASE caller[c].saves
      <4> DEFINE held == caller[c].held
      <4>1. c \notin held.changes /\ Counts(held) /\ held.changes \subseteq Finished
        BY RenamesDocument, StoreTypes DEF StoreInv, CountsInv
      <4>2. caller[c].writing = [revision |-> held.revision + 1, changes |-> held.changes \cup {c}, legacy |-> FALSE]
        BY <3>1, RenamesDocument DEF NextDocument
      <4> HIDE DEF held
      <4> QED BY <2>1, <3>1, <4>1, <4>2, NextCounts
    <3>2. CASE ~caller[c].saves
      BY <2>1, <3>2, RenamesDocument, StoreTypes DEF StoreInv, CountsInv
    <3> QED BY <3>1, <3>2
  <2> QED BY <1>2, <1>4, <2>1, <2>2 DEF StoreInv, CountsInv, Counts
<1>8. UndamagedInv'
  <2> SUFFICES ASSUME damages = 0
               PROVE  /\ accepted' \subseteq main'.document.changes
                      /\ \A d \in Callers : Holds(d)' =>
                           caller'[d].held.revision < main'.document.revision \/ Agrees(d)'
    BY <1>3, <1>4 DEF UndamagedInv
  <2>1. Agrees(c) /\ accepted \subseteq main.document.changes /\ main.document.revision \in Nat
    <3>1. Writes(c)
      BY RenamesDocument
    <3>2. Agrees(c) /\ accepted \subseteq main.document.changes
      BY <3>1 DEF StoreInv, UndamagedInv
    <3>3. main.document \in Document
      BY StoreTypes
    <3> QED BY <3>2, <3>3 DEF Document
  <2>2. \A d \in Callers \ {c} : Holds(d)' => caller[d].held.revision < main.document.revision \/ Agrees(d)
    BY <1>2 DEF StoreInv, UndamagedInv, Holds, Writes
  <2>3. \A d \in Callers : caller[d].held.revision \in Nat
    BY StoreTypes DEF Document
  <2>4. CASE caller[c].saves
    <3>1. main'.document.revision = main.document.revision + 1
          /\ main'.document.changes = main.document.changes \cup {c} /\ accepted' = accepted \cup {c}
      <4>1. caller[c].writing = NextDocument(c) /\ accepted' = accepted \cup {c}
        BY <2>4, RenamesDocument
      <4> QED BY <1>4, <2>1, <4>1 DEF NextDocument, Agrees
    <3>2. ~Holds(c)'
      BY <1>2, <2>4 DEF Holds, Writes, step
    <3> QED BY <1>2, <2>1, <2>2, <2>3, <3>1, <3>2 DEF Agrees
  <2>5. CASE ~caller[c].saves
    <3>1. main'.document.revision = main.document.revision /\ main'.document.changes = main.document.changes
          /\ accepted' = accepted
      BY <1>4, <2>1, <2>5, RenamesDocument DEF Agrees
    <3> QED BY <1>2, <2>1, <2>2, <3>1 DEF Agrees
  <2> QED BY <2>4, <2>5
<1>9. RefreshInv'
  BY <1>2, <1>3 DEF RefreshInv, Writes, At
<1> QED BY <1>5, <1>6, <1>7, <1>8, <1>9 DEF StoreInv

\* The callers of a process that died are gone; what they wrote stays.
LEMMA StoreCrashKeeps ==
  ASSUME StoreInv, NEW p \in Processes, StoreCrash(p)
  PROVE  StoreInv'
<1>1. \A c \in Callers : caller'[c] = caller[c] \/ (~At(c, "done") /\ caller'[c] = IdleCaller)
  BY DEF StoreCrash, At
<1>2. UNCHANGED <<main, bak, tmp, preserved, accepted, damages>> /\ blocked' \subseteq blocked
      /\ crashes' \in 0 .. MaxCrashes
  BY StoreAssumption DEF StoreCrash, configFiles, StoreInv, StoreTypeOK
<1>3. /\ IdleCaller \in CallerState /\ Counts(IdleCaller.held) /\ IdleCaller.held.changes = {} /\ IdleCaller.step = "idle"
  BY NothingTypes
<1>4. Finished' = Finished
  BY <1>1, <1>3 DEF Finished, At
<1>5. StoreTypeOK'
  <2>1. caller' \in [Callers -> CallerState]
    <3>1. caller' = [c \in Callers |-> IF ProcessOf[c] = p /\ caller[c].step # "done" THEN IdleCaller ELSE caller[c]]
      BY DEF StoreCrash
    <3> QED BY <1>3, <3>1, StoreTypes
  <2> QED BY <1>2, <2>1 DEF StoreInv, StoreTypeOK
<1>6. ASSUME NEW c \in Callers, Holds(c)' PROVE caller'[c] = caller[c] /\ Holds(c)
  BY <1>1, <1>3, <1>6 DEF Holds, Writes
<1>7. WriterInv'
  BY ZenonT(30), <1>1, <1>2, <1>3, <1>6 DEF StoreInv, WriterInv, Writes, Holds, At, NextDocument
<1>8. CountsInv'
  BY <1>1, <1>2, <1>3, <1>4 DEF StoreInv, CountsInv
<1>9. UndamagedInv'
  BY <1>2, <1>6 DEF StoreInv, UndamagedInv, Agrees, Holds, Writes
<1>10. RefreshInv'
  BY <1>2, <1>6 DEF StoreInv, RefreshInv, Holds, Writes, At
<1> QED BY <1>5, <1>7, <1>8, <1>9, <1>10 DEF StoreInv

LEMMA DamageKeeps ==
  ASSUME StoreInv, DamageConfig
  PROVE  StoreInv'
<1>1. /\ main' \in ConfigFile /\ main'.document = main.document /\ main'.exists
      /\ damages' \in 0 .. MaxDamages /\ damages' # 0
      /\ UNCHANGED <<bak, tmp, caller, blocked, preserved, accepted, crashes>>
  <2>1. main' = [main EXCEPT !.whole = FALSE, !.by = Nobody] /\ damages' = damages + 1 /\ damages < MaxDamages
        /\ main.exists /\ UNCHANGED <<bak, tmp, caller, blocked, preserved, accepted, crashes>>
    BY DEF DamageConfig
  <2>2. main' \in ConfigFile /\ main'.document = main.document /\ main'.exists
    BY <2>1, StoreTypes DEF ConfigFile
  <2>3. damages' \in 0 .. MaxDamages /\ damages' # 0
    BY <2>1, StoreAssumption DEF StoreInv, StoreTypeOK
  <2> QED BY <2>1, <2>2, <2>3
<1>2. StoreTypeOK'
  BY <1>1 DEF StoreInv, StoreTypeOK
<1>3. WriterInv'
  BY <1>1 DEF StoreInv, WriterInv, Writes, At, NextDocument
<1>4. CountsInv'
  BY <1>1 DEF StoreInv, CountsInv, Finished, At
<1>5. UndamagedInv' /\ RefreshInv'
  BY <1>1 DEF StoreInv, UndamagedInv, RefreshInv, At
<1> QED BY <1>2, <1>3, <1>4, <1>5 DEF StoreInv
--------------------------------------------------------------------------------
LEMMA StoreInvInit == StoreInit => StoreInv
<1> SUFFICES ASSUME StoreInit PROVE StoreInv
  OBVIOUS
<1>1. /\ main \in ConfigFile /\ Counts(main.document) /\ main.document.changes = {}
      /\ main.document.revision = 0 /\ (main.exists => main.whole)
      /\ (~main.exists => main.document = DefaultDocument)
  BY NothingTypes DEF StoreInit, ConfigInode, ConfigFile, NoConfigFile, DefaultDocument, Document, Counts, IdleCaller
<1>2. /\ bak = NoConfigFile /\ tmp = NoConfigFile /\ \A c \in Callers : caller[c] = IdleCaller
      /\ caller \in [Callers -> CallerState]
  BY NothingTypes DEF StoreInit
<1>3. StoreTypeOK
  <2>1. blocked = {} /\ preserved = {} /\ accepted = {} /\ crashes \in 0 .. MaxCrashes /\ damages \in 0 .. MaxDamages
    BY StoreAssumption DEF StoreInit
  <2> QED BY <1>1, <1>2, <2>1, NothingTypes DEF StoreTypeOK
<1>4. WriterInv
  BY <1>2, NothingTypes DEF WriterInv, Writes, At
<1>5. CountsInv
  BY <1>1, <1>2, NothingTypes DEF CountsInv, NoConfigFile
<1>6. UndamagedInv /\ RefreshInv
  BY <1>1, <1>2, NothingTypes DEF StoreInit, UndamagedInv, RefreshInv, Writes, Holds, At
<1> QED BY <1>3, <1>4, <1>5, <1>6 DEF StoreInv

LEMMA StoreInvStep ==
  ASSUME OneProcess, StoreInv, [StoreNext]_storeVars
  PROVE  StoreInv'
<1>1. CASE UNCHANGED storeVars
  <2>1. UNCHANGED <<main, bak, tmp, caller, blocked, preserved, accepted, crashes, damages>>
    BY <1>1 DEF storeVars, configFiles
  <2>2. StoreTypeOK' /\ CountsInv' /\ UndamagedInv' /\ RefreshInv'
    BY <2>1 DEF StoreInv, StoreTypeOK, CountsInv, UndamagedInv, RefreshInv, Finished, At, Writes, Holds, Agrees
  <2>3. WriterInv'
    BY <2>1 DEF StoreInv, WriterInv, Writes, At, NextDocument
  <2> QED BY <2>2, <2>3 DEF StoreInv
<1>2. ASSUME NEW c \in Callers, CallerStep(c) PROVE StoreInv'
  BY <1>2, LoadKeeps, GiveUpKeeps, SaveConfigKeeps, OpenKeeps, FillKeeps, CopyKeeps, RenameTemporaryKeeps
  DEF CallerStep
<1> QED BY <1>1, <1>2, StoreCrashKeeps, DamageKeeps DEF StoreNext

\* The files and callers of the configuration store are what they are meant to be:
\* no revision is beyond the number of changes.
THEOREM StoreTyping ==
  ASSUME OneProcess
  PROVE  StoreSpec => []StoreTypeOK
<1>1. StoreInv => StoreTypeOK
  BY DEF StoreInv
<1>2. StoreInv /\ [StoreNext]_storeVars => StoreInv'
  BY StoreInvStep
<1> QED BY <1>1, <1>2, StoreInvInit, PTL DEF StoreSpec

\* Whatever the callers of one process await between reading config.json and saving
\* it, and whenever it crashes, a change that was acknowledged is in the file.
THEOREM AcceptedChangesRemain ==
  ASSUME OneProcess
  PROVE  StoreSpec => []AcceptedChangesStay
<1>1. StoreInv => AcceptedChangesStay
  BY DEF StoreInv, UndamagedInv, AcceptedChangesStay, IsReadable, DefaultDocument
<1>2. StoreInv /\ [StoreNext]_storeVars => StoreInv'
  BY StoreInvStep
<1> QED BY <1>1, <1>2, StoreInvInit, PTL DEF StoreSpec

\* Only a copy touches the backup: first it makes it incomplete, then it replaces it.
LEMMA BackupIsCopied ==
  ASSUME StoreInv, [StoreNext]_storeVars, IsReadable(bak), ~IsReadable(bak')
  PROVE  IsReadable(main) \/ \E c \in Callers : BringsItsOwn(c)
<1>1. \E c \in Callers : CopyBackup(c)
  BY DEF StoreNext, storeVars, configFiles, CallerStep, LoadConfig, GiveUpChange, SaveConfig, OpenTemporary,
         FillTemporary, RenameTemporary, StoreCrash, DamageConfig
<1>2. PICK c \in Callers : CopyBackup(c)
  BY <1>1
<1>3. ~At(c, "copied")
  BY DEF StoreInv, WriterInv, IsReadable
<1>4. At(c, "copy")
  BY <1>2, <1>3 DEF CopyBackup
<1>5. BringsItsOwn(c)
  BY <1>4 DEF BringsItsOwn, StoreInv, RefreshInv, At
<1> QED BY <1>5

\* The backup that config.json is recovered from is only given up by somebody who has
\* the document: also a recovery does not lose it half way.
THEOREM BackupOutlives ==
  ASSUME OneProcess
  PROVE  StoreSpec => BackupOutlivesDamage
<1>1. StoreInv /\ [StoreNext]_storeVars => StoreInv'
  BY StoreInvStep
<1>2. StoreInv /\ [StoreNext]_storeVars =>
        (IsReadable(bak) /\ ~IsReadable(bak') => IsReadable(main) \/ \E c \in Callers : BringsItsOwn(c))
  BY BackupIsCopied
<1> QED BY <1>1, <1>2, StoreInvInit, PTL DEF StoreSpec, BackupOutlivesDamage

\* Until it is damaged, a step of the store is a step of the log or leaves it.
LEMMA StepsOfTheLog ==
  ASSUME OneProcess, StoreInv, [StoreNext]_storeVars, damages' = 0
  PROVE  Log!LogNext \/ UNCHANGED <<main.document.revision, main.document.changes>>
<1>1. damages = 0
  <2>1. damages \in Nat
    BY StoreAssumption DEF StoreInv, StoreTypeOK
  <2>2. damages' = damages \/ damages' = damages + 1
    BY DEF StoreNext, storeVars, CallerStep, LoadConfig, GiveUpChange, SaveConfig, OpenTemporary, FillTemporary,
           CopyBackup, RenameTemporary, StoreCrash, DamageConfig
  <2> QED BY <2>1, <2>2
<1>2. ASSUME NEW c \in Callers, RenameTemporary(c)
      PROVE  Log!Accept(c) \/ UNCHANGED <<main.document.revision, main.document.changes>>
  <2>1. Writes(c) /\ ~At(c, "done") /\ main' = ConfigInode(c, caller[c].writing, TRUE)
        /\ caller[c].writing = IF caller[c].saves THEN NextDocument(c) ELSE caller[c].held
    BY <1>2, RenamesDocument
  <2>2. Agrees(c) /\ c \notin main.document.changes
    BY <1>1, <2>1 DEF StoreInv, UndamagedInv, CountsInv, Finished
  <2>3. main'.document = caller[c].writing
    BY <2>1 DEF ConfigInode
  <2>4. CASE caller[c].saves
    <3>1. main'.document.revision = main.document.revision + 1
          /\ main'.document.changes = main.document.changes \cup {c}
      <4>1. main'.document = NextDocument(c)
        BY <2>1, <2>3, <2>4
      <4> QED BY <2>2, <4>1 DEF NextDocument, Agrees
    <3> QED BY <2>2, <3>1 DEF Log!Accept
  <2>5. CASE ~caller[c].saves
    BY <2>1, <2>2, <2>3, <2>5 DEF Agrees
  <2> QED BY <2>4, <2>5
<1>3. ASSUME NEW c \in Callers, FillTemporary(c)
      PROVE  UNCHANGED <<main.document.revision, main.document.changes>>
  BY <1>3, StoreTypes DEF FillTemporary, ConfigFile
<1>4. CASE UNCHANGED main
  BY <1>4
<1>5. CASE DamageConfig
  BY <1>1, <1>5 DEF DamageConfig
<1>6. \/ UNCHANGED main \/ DamageConfig
      \/ \E c \in Callers : FillTemporary(c) \/ RenameTemporary(c)
  BY DEF StoreNext, storeVars, configFiles, CallerStep, LoadConfig, GiveUpChange, SaveConfig, OpenTemporary,
         CopyBackup, StoreCrash
<1> QED BY <1>2, <1>3, <1>4, <1>5, <1>6 DEF Log!LogNext

\* The file implements the log of accepted changes until it is damaged: a rename
\* takes one change in, under the next revision, and nothing else does.
THEOREM TheLogIsKept ==
  ASSUME OneProcess
  PROVE  StoreSpec => KeepsTheLog
<1>1. StoreInv /\ [StoreNext]_storeVars => StoreInv'
  BY StoreInvStep
<1>2. StoreInit => Log!LogInit
  BY DEF StoreInit, Log!LogInit, ConfigInode, NoConfigFile, DefaultDocument
<1>3. StoreInv /\ [StoreNext]_storeVars =>
        (damages' = 0 => [Log!LogNext]_<<main.document.revision, main.document.changes>>)
  BY StepsOfTheLog
<1> QED BY <1>1, <1>2, <1>3, StoreInvInit, PTL DEF StoreSpec, KeepsTheLog
--------------------------------------------------------------------------------
(***************************************************************************)
(* The lists of the dashboard: of a list at most one poll is the latest,   *)
(* and an answer that may still be written is not older than what the list *)
(* shows.                                                                  *)
(***************************************************************************)
Poll == [list: Lists, phase: {"idle", "sent", "answered"}, saw: 0..MaxNews, latest: BOOLEAN, unmarked: BOOLEAN]

PollInv ==
  /\ \A p, q \in Polls : polls[p].latest /\ polls[q].latest /\ polls[p].list = polls[q].list => p = q
  /\ \A p \in Polls : polls[p].phase = "answered" /\ MayWrite(polls[p]) => shown[polls[p].list] <= polls[p].saw
  /\ \A p \in Polls : polls[p].saw <= news
  /\ \A l \in Lists : shown[l] <= news

ActivityInv == ActivityTypeOK /\ PollInv

LEMMA PollTypes ==
  /\ NoPoll \in Poll
  /\ \A x \in Poll : /\ [x EXCEPT !.latest = FALSE] \in Poll /\ [x EXCEPT !.unmarked = FALSE] \in Poll
                     /\ [x EXCEPT !.latest = FALSE, !.unmarked = FALSE] \in Poll
                     /\ \A n \in 0..MaxNews : [x EXCEPT !.phase = "answered", !.saw = n] \in Poll
  /\ \A list \in Lists :
       [list |-> list, phase |-> "sent", saw |-> 0, latest |-> TRUE, unmarked |-> TRUE] \in Poll
<1>1. NoPoll \in Poll
  BY ActivityAssumption DEF Poll, NoPoll, Lists
<1>2. ASSUME NEW x \in Poll
      PROVE  /\ [x EXCEPT !.latest = FALSE] \in Poll /\ [x EXCEPT !.unmarked = FALSE] \in Poll
             /\ [x EXCEPT !.latest = FALSE, !.unmarked = FALSE] \in Poll
             /\ \A n \in 0..MaxNews : [x EXCEPT !.phase = "answered", !.saw = n] \in Poll
  BY DEF Poll
<1>3. ASSUME NEW list \in Lists
      PROVE  [list |-> list, phase |-> "sent", saw |-> 0, latest |-> TRUE, unmarked |-> TRUE] \in Poll
  BY ActivityAssumption DEF Poll
<1>. QED BY <1>1, <1>2, <1>3

LEMMA OperationTypes ==
  ASSUME NEW op \in Operations
  PROVE  Marks(op) \subseteq Lists /\ Rereads(op) \subseteq Lists
<1>1. Marks(op) \subseteq Lists
  BY DEF Marks, Lists, Operations
<1>. QED BY <1>1 DEF Rereads, Lists

\* What a poll that begins does to the others.
LEMMA FetchEffect ==
  ASSUME ActivityTypeOK, NEW p \in Polls, NEW list \in Lists, Fetch(p, list)
  PROVE  /\ polls' \in [Polls -> Poll]
         /\ polls'[p].list = list /\ polls'[p].phase = "sent"
         /\ \A q \in Polls \ {p} :
              /\ polls'[q].list = polls[q].list /\ polls'[q].phase = polls[q].phase
              /\ polls'[q].saw = polls[q].saw /\ polls'[q].unmarked = polls[q].unmarked
              /\ polls'[q].latest => polls[q].latest /\ polls[q].list # list
<1> DEFINE new == [list |-> list, phase |-> "sent", saw |-> 0, latest |-> TRUE, unmarked |-> TRUE]
<1>1. polls \in [Polls -> Poll]
  BY DEF ActivityTypeOK, Poll
<1>2. Outdated(list) \in [Polls -> Poll]
  BY <1>1, PollTypes DEF Outdated
<1>3. new \in Poll /\ polls' = [Outdated(list) EXCEPT ![p] = new]
  BY PollTypes DEF Fetch
<1>4. polls' \in [Polls -> Poll] /\ polls'[p] = new
  BY <1>2, <1>3
<1>5. ASSUME NEW q \in Polls \ {p}
      PROVE  /\ polls'[q].list = polls[q].list /\ polls'[q].phase = polls[q].phase
             /\ polls'[q].saw = polls[q].saw /\ polls'[q].unmarked = polls[q].unmarked
             /\ polls'[q].latest => polls[q].latest /\ polls[q].list # list
  <2>1. polls'[q] = Outdated(list)[q] /\ polls[q] \in Poll
    BY <1>1, <1>2, <1>3
  <2>2. CASE polls[q].list = list
    <3>1. polls'[q] = [polls[q] EXCEPT !.latest = FALSE]
      BY <2>1, <2>2 DEF Outdated
    <3>. QED BY <2>1, <3>1 DEF Poll
  <2>3. CASE polls[q].list # list
    BY <2>1, <2>3 DEF Outdated
  <2>. QED BY <2>2, <2>3
<1>. QED BY <1>4, <1>5

LEMMA ActivityInvInit == ActivityInit => ActivityInv
  BY ActivityAssumption DEF ActivityInit, ActivityInv, ActivityTypeOK, PollInv, NoPoll, NoOperation, Lists, Operations, MayWrite

LEMMA ActivityTypeStep ==
  ASSUME ActivityTypeOK, ActivityNext
  PROVE  ActivityTypeOK'
<1> DEFINE Op == [op: Operations, phase: {"idle", "sent", "answered", "rereads"}, rereads: SUBSET Lists]
<1>1. /\ polls \in [Polls -> Poll] /\ operation \in Op /\ shown \in [Lists -> 0..MaxNews] /\ news \in 0..MaxNews
      /\ session \in BOOLEAN /\ signedIn \in BOOLEAN
  BY DEF ActivityTypeOK, Poll
<1>2. SUFFICES /\ polls' \in [Polls -> Poll] /\ operation' \in Op /\ shown' \in [Lists -> 0..MaxNews] /\ news' \in 0..MaxNews
               /\ session' \in BOOLEAN /\ signedIn' \in BOOLEAN
  BY DEF ActivityTypeOK, Poll
<1>3. Cleared \in [Polls -> Poll] /\ NoPoll \in Poll /\ NoOperation \in Op /\ [l \in Lists |-> 0] \in [Lists -> 0..MaxNews]
  <2>1. NoOperation \in Op /\ [l \in Lists |-> 0] \in [Lists -> 0..MaxNews]
    BY ActivityAssumption DEF NoOperation, Operations
  <2>2. Cleared \in [Polls -> Poll]
    BY <1>1, PollTypes DEF Cleared
  <2>. QED BY <2>1, <2>2, PollTypes
<1>4. CASE Operate
  <2>1. PICK op \in Operations :
          /\ operation' = [op |-> op, phase |-> "sent", rereads |-> {}]
          /\ polls' = [p \in Polls |-> IF polls[p].list \in Marks(op) THEN [polls[p] EXCEPT !.unmarked = FALSE] ELSE polls[p]]
    BY <1>4 DEF Operate
  <2>2. operation' \in Op
    BY <2>1
  <2>3. polls' \in [Polls -> Poll]
    BY <2>1, <1>1, PollTypes
  <2>. QED BY <1>1, <1>4, <2>2, <2>3 DEF Operate
<1>5. CASE Apply
  <2>1. Rereads(operation.op) \subseteq Lists
    BY <1>1, OperationTypes
  <2>2. operation' \in Op
    BY <1>1, <1>3, <1>5, <2>1 DEF Apply
  <2>. QED BY <1>1, <1>5, <2>2, ActivityAssumption DEF Apply
<1>6. CASE Change
  BY <1>1, <1>6, ActivityAssumption DEF Change
<1>7. CASE SignOut \/ SignIn
  <2>1. polls' \in [Polls -> Poll] /\ shown' \in [Lists -> 0..MaxNews]
    BY <1>1, <1>3, <1>7 DEF SignOut, SignIn
  <2>. QED BY <1>1, <1>7, <2>1 DEF SignOut, SignIn
<1>8. ASSUME NEW p \in Polls, Tick(p) \/ Reread(p) PROVE ActivityTypeOK'
  <2>1. polls' \in [Polls -> Poll]
    BY <1>1, <1>8, FetchEffect DEF Tick, Reread, Op
  <2>2. operation' \in Op
    BY <1>1, <1>3, <1>8 DEF Tick, Reread
  <2>. QED BY <1>1, <1>8, <2>1, <2>2 DEF Tick, Reread, ActivityTypeOK, Poll
<1>9. ASSUME NEW p \in Polls, Serve(p) PROVE ActivityTypeOK'
  <2>1. polls' = [polls EXCEPT ![p] = [polls[p] EXCEPT !.phase = "answered", !.saw = news]]
    BY <1>1, <1>9 DEF Serve
  <2>2. [polls[p] EXCEPT !.phase = "answered", !.saw = news] \in Poll
    BY <1>1, PollTypes
  <2>3. polls' \in [Polls -> Poll]
    BY <1>1, <2>1, <2>2
  <2>. QED BY <1>1, <1>9, <2>3 DEF Serve, ActivityTypeOK, Poll
<1>10. ASSUME NEW p \in Polls, Take(p) PROVE ActivityTypeOK'
  <2>1. polls' \in [Polls -> Poll]
    BY <1>1, <1>3, <1>10 DEF Take
  <2>2. polls[p].list \in Lists /\ polls[p].saw \in 0..MaxNews
    BY <1>1 DEF Poll
  <2>3. shown' \in [Lists -> 0..MaxNews]
    BY <1>1, <1>10, <2>2 DEF Take
  <2>. QED BY <1>1, <1>10, <2>1, <2>3 DEF Take, ActivityTypeOK, Poll
<1>11. ASSUME NEW p \in Polls, Fail(p) PROVE ActivityTypeOK'
  <2>1. polls' \in [Polls -> Poll] /\ shown' \in [Lists -> 0..MaxNews] /\ signedIn' \in BOOLEAN
    BY <1>1, <1>3, <1>11 DEF Fail
  <2>. QED BY <1>1, <1>11, <2>1 DEF Fail, ActivityTypeOK, Poll
<1>. QED
  BY <1>1, <1>4, <1>5, <1>6, <1>7, <1>8, <1>9, <1>10, <1>11 DEF ActivityNext, ActivityTypeOK, Poll

LEMMA PollStep ==
  ASSUME ActivityInv, ActivityNext
  PROVE  PollInv'
<1>1. /\ polls \in [Polls -> Poll] /\ shown \in [Lists -> 0..MaxNews] /\ news \in Nat
      /\ \A p \in Polls : polls[p].list \in Lists /\ polls[p].saw \in Nat
      /\ ~NoPoll.latest /\ NoPoll.phase = "idle" /\ NoPoll.saw = 0
  BY DEF ActivityInv, ActivityTypeOK, Poll, NoPoll
<1>2. ActivityTypeOK' /\ PollInv
  BY ActivityTypeStep DEF ActivityInv
<1>3. CASE Operate
  <2>1. PICK op \in Operations :
          polls' = [p \in Polls |-> IF polls[p].list \in Marks(op) THEN [polls[p] EXCEPT !.unmarked = FALSE] ELSE polls[p]]
    BY <1>3 DEF Operate
  <2>2. \A p \in Polls : /\ polls'[p].list = polls[p].list /\ polls'[p].phase = polls[p].phase
                         /\ polls'[p].saw = polls[p].saw /\ polls'[p].latest = polls[p].latest
                         /\ polls'[p].unmarked => polls[p].unmarked
    BY <1>1, <2>1 DEF Poll
  <2>. QED BY <1>2, <1>3, <2>2 DEF PollInv, MayWrite, Operate
<1>4. CASE Apply \/ Change
  <2>1. news' >= news /\ news' \in Nat /\ UNCHANGED <<shown, polls>>
    BY <1>1, <1>4 DEF Apply, Change
  <2>2. \A l \in Lists : shown[l] \in Nat
    BY <1>1, ActivityAssumption
  <2>. QED BY <1>1, <1>2, <2>1, <2>2 DEF PollInv, MayWrite
<1>5. CASE SignIn
  BY <1>2, <1>5 DEF PollInv, MayWrite, SignIn
<1>6. ASSUME NEW p \in Polls, Tick(p) \/ Reread(p) PROVE PollInv'
  <2>1. operation.rereads \subseteq Lists /\ UNCHANGED <<news, shown>>
    BY <1>6 DEF ActivityInv, ActivityTypeOK, Tick, Reread
  <2>2. PICK list \in Lists : Fetch(p, list)
    BY <1>6, <2>1 DEF Tick, Reread
  <2>3. ActivityTypeOK
    BY DEF ActivityInv
  <2>4. /\ polls'[p].list = list /\ polls'[p].phase = "sent"
        /\ \A q \in Polls \ {p} :
              /\ polls'[q].list = polls[q].list /\ polls'[q].phase = polls[q].phase
              /\ polls'[q].saw = polls[q].saw /\ polls'[q].unmarked = polls[q].unmarked
              /\ polls'[q].latest => polls[q].latest /\ polls[q].list # list
    BY <2>2, <2>3, FetchEffect
  <2>5. polls'[p].saw = 0
    BY <1>1, <2>2, PollTypes DEF Fetch, Outdated
  <2>6. \A q, r \in Polls : polls'[q].latest /\ polls'[r].latest /\ polls'[q].list = polls'[r].list => q = r
    BY <1>2, <2>4 DEF PollInv
  <2>7. \A q \in Polls : polls'[q].phase = "answered" /\ MayWrite(polls'[q]) => shown[polls'[q].list] <= polls'[q].saw
    BY <1>2, <2>4 DEF PollInv, MayWrite
  <2>8. \A q \in Polls : polls'[q].saw <= news
    BY <1>1, <1>2, <2>4, <2>5 DEF PollInv
  <2>. QED BY <1>2, <2>1, <2>6, <2>7, <2>8 DEF PollInv, MayWrite
<1>7. ASSUME NEW p \in Polls, Serve(p) PROVE PollInv'
  <2>1. polls' = [polls EXCEPT ![p] = [polls[p] EXCEPT !.phase = "answered", !.saw = news]] /\ UNCHANGED <<news, shown>>
    BY <1>1, <1>7 DEF Serve
  <2>2. /\ polls'[p].list = polls[p].list /\ polls'[p].saw = news /\ polls'[p].latest = polls[p].latest
        /\ \A q \in Polls \ {p} : polls'[q] = polls[q]
    BY <1>1, <2>1 DEF Poll
  <2>. QED BY <1>1, <1>2, <2>1, <2>2 DEF PollInv, MayWrite
<1>8. ASSUME NEW p \in Polls, Take(p) PROVE PollInv'
  <2>1. /\ polls'[p] = NoPoll /\ \A q \in Polls \ {p} : polls'[q] = polls[q]
        /\ news' = news
    BY <1>1, <1>8 DEF Take
  <2>2. CASE MayWrite(polls[p])
    <3>1. /\ shown'[polls[p].list] = polls[p].saw /\ \A l \in Lists \ {polls[p].list} : shown'[l] = shown[l]
      BY <1>1, <1>8, <2>2 DEF Take
    <3>2. \A q \in Polls \ {p} : MayWrite(polls[q]) => polls[q].list # polls[p].list
      BY <1>2, <2>2 DEF MayWrite, PollInv
    <3>3. polls[p].saw <= news
      BY <1>8, <1>2 DEF PollInv, Take
    <3>. QED BY <1>1, <1>2, <2>1, <3>1, <3>2, <3>3 DEF PollInv, MayWrite
  <2>3. CASE ~MayWrite(polls[p])
    BY <1>1, <1>2, <1>8, <2>1, <2>3 DEF PollInv, Take, MayWrite
  <2>. QED BY <2>2, <2>3
<1>9. CASE SignOut
  <2>1. \A p \in Polls : ~polls'[p].latest /\ polls'[p].saw = polls[p].saw
    BY <1>1, <1>9 DEF SignOut, Cleared, Poll
  <2>. QED BY <1>1, <1>2, <2>1, <1>9 DEF PollInv, MayWrite, SignOut
<1>10. ASSUME NEW p \in Polls, Fail(p) PROVE PollInv'
  <2>1. CASE polls' = [polls EXCEPT ![p] = NoPoll] /\ UNCHANGED shown
    BY <1>1, <1>2, <1>10, <2>1 DEF PollInv, MayWrite, Fail
  <2>2. CASE polls' = [Cleared EXCEPT ![p] = NoPoll] /\ shown' = [l \in Lists |-> 0]
    <3>1. \A q \in Polls : ~polls'[q].latest /\ polls'[q].saw <= news
      <4>1. \A q \in Polls : polls'[q] = IF q = p THEN NoPoll ELSE [polls[q] EXCEPT !.latest = FALSE, !.unmarked = FALSE]
        BY <2>2 DEF Cleared
      <4>2. \A q \in Polls : LET x == [polls[q] EXCEPT !.latest = FALSE, !.unmarked = FALSE] IN
              ~x.latest /\ x.saw = polls[q].saw
        BY <1>1 DEF Poll
      <4>3. \A q \in Polls : polls[q].saw <= news
        BY <1>2 DEF PollInv
      <4>4. polls'[p].saw <= news /\ ~polls'[p].latest
        <5>1. polls'[p] = NoPoll
          BY <1>1, <2>2 DEF Cleared
        <5>2. 0 <= news
          BY <1>1
        <5>. QED BY <1>1, <5>1, <5>2
      <4>5. \A q \in Polls \ {p} : polls'[q].saw <= news /\ ~polls'[q].latest
        BY <4>1, <4>2, <4>3
      <4>. QED BY <4>4, <4>5
    <3>. QED BY <1>1, <3>1, <2>2, <1>10 DEF PollInv, MayWrite, Fail
  <2>. QED BY <1>10, <2>1, <2>2 DEF Fail
<1>. QED BY <1>3, <1>4, <1>5, <1>6, <1>7, <1>8, <1>9, <1>10 DEF ActivityNext

LEMMA ActivityInvStep == ActivityInv /\ [ActivityNext]_activityVars => ActivityInv'
<1> SUFFICES ASSUME ActivityInv, [ActivityNext]_activityVars PROVE ActivityInv'
  OBVIOUS
<1>1. CASE ActivityNext
  BY <1>1, ActivityTypeStep, PollStep DEF ActivityInv
<1>2. CASE UNCHANGED activityVars
  BY <1>2 DEF activityVars, ActivityInv, ActivityTypeOK, PollInv, MayWrite
<1>. QED BY <1>1, <1>2

\* Type correctness of a tab's lists and polls.
THEOREM ActivityTyping == ActivitySpec => []ActivityTypeOK
<1>1. ActivityInv => ActivityTypeOK
  BY DEF ActivityInv
<1>. QED BY <1>1, ActivityInvInit, ActivityInvStep, PTL DEF ActivitySpec

\* use-activity-polling.ts: whatever answers cross, and however many polls, operations and
\* sign-ins do, a list never goes back to what the server said before.
THEOREM OvertakenAnswersAreDropped == ActivitySpec => ListsKeepUp
<1>1. ASSUME ActivityInv, [ActivityNext]_activityVars, NEW l \in Lists, shown'[l] < shown[l]
      PROVE  shown'[l] = 0 /\ ~signedIn'
  <2>1. /\ polls \in [Polls -> Poll] /\ shown \in [Lists -> 0..MaxNews] /\ shown[l] \in Nat /\ ~(shown[l] < shown[l])
        /\ \A p \in Polls : polls[p].list \in Lists /\ polls[p].saw \in Nat
    BY <1>1 DEF ActivityInv, ActivityTypeOK, Poll
  <2>2. shown' # shown
    BY <1>1, <2>1
  <2>3. CASE SignOut
    BY <2>3 DEF SignOut
  <2>4. ASSUME NEW p \in Polls, Take(p) PROVE FALSE
    <3>1. shown' = [shown EXCEPT ![polls[p].list] = polls[p].saw] /\ polls[p].phase = "answered" /\ MayWrite(polls[p])
      BY <2>2, <2>4 DEF Take
    <3>2. shown[polls[p].list] <= polls[p].saw
      BY <1>1, <3>1 DEF ActivityInv, PollInv
    <3>. QED BY <1>1, <2>1, <3>1, <3>2
  <2>5. ASSUME NEW p \in Polls, Fail(p) PROVE shown'[l] = 0 /\ ~signedIn'
    BY <2>2, <2>5 DEF Fail
  <2>6. shown' = shown \/ SignOut \/ \E p \in Polls : Take(p) \/ Fail(p)
    BY <1>1 DEF ActivityNext, activityVars, Operate, Apply, Change, SignIn, Tick, Serve, Reread
  <2>. QED BY <2>2, <2>3, <2>4, <2>5, <2>6
<1>2. ActivityInv /\ [ActivityNext]_activityVars => [\A l \in Lists : shown'[l] < shown[l] => shown'[l] = 0 /\ ~signedIn']_activityVars
  BY <1>1
<1>. QED BY <1>2, ActivityInvInit, ActivityInvStep, PTL DEF ActivitySpec, ListsKeepUp
--------------------------------------------------------------------------------
(***************************************************************************)
(* The dialog of a destination.  A call whose version is the stored one    *)
(* started from what is stored: the copies, the chips and the draft of the *)
(* panel it was made of are not older than the dialog's copy, so that it   *)
(* takes out what was confirmed only.  All others end in a conflict.       *)
(***************************************************************************)
IsCopyOf(c, d) == c.revision <= d.revision /\ (c.revision = d.revision => c = d)

HasCopy(x) == x.phase \in {"answered", "previews"} /\ x.answer = "done"

CopiesInv ==
  /\ IsCopyOf(listed, saved)
  /\ opened # Absent => IsCopyOf(opened, saved)
  /\ prompt # Absent => IsCopyOf(prompt.from, saved)
  /\ \A s \in Slots : HasCopy(requests[s]) => requests[s].copy # Absent /\ IsCopyOf(requests[s].copy, saved)
  /\ \A s \in Slots : requests[s].phase = "previews" => requests[s].answer = "done"

\* One call at most keeps the buttons disabled; the others only read.
RunsInv ==
  /\ \A s, t \in Slots : requests[s].runs /\ requests[t].runs => s = t
  /\ \A s \in Slots : requests[s].runs => busy
  /\ prompt # Absent => ~busy
  /\ \A s \in Slots : requests[s].phase \in {"sent", "answered"} =>
       requests[s].todo # <<>> /\ (~requests[s].runs => requests[s].todo[1].op = "read")
  /\ \A s \in Slots : requests[s].phase = "previews" => requests[s].runs

ShownInv ==
  /\ opened # Absent => chips = listed.sources /\ opened.revision <= listed.revision
  /\ panel # Absent => opened # Absent /\ panel.seen = opened.filters[panel.source]

\* The list is not older than the copy a call is about to show with it.
PreviewsInv ==
  \A s \in Slots : requests[s].phase = "previews" =>
    /\ requests[s].copy.revision <= listed.revision
    /\ \A t \in Slots \ {s} : reader = t /\ requests[t].phase = "answered" /\ requests[t].answer = "done" =>
         requests[s].copy.revision <= requests[t].copy.revision

IsHarmless(x, d, S) ==
  /\ x.op = "delete" => x.names \subseteq S
  /\ x.op = "patch" => \A n \in x.names : x.seen = d.filters[n]
RestIsPlain(todo) == \A i \in DOMAIN todo : i > 1 => todo[i].op \notin {"delete", "patch"}

\* What call x would do to the stored configuration d, with S confirmed.
StepsOf(x, d, S) ==
  /\ x.phase = "sent" => x.version <= d.revision
  /\ x.phase = "sent" /\ x.version = d.revision => IsHarmless(x.todo[1], d, S) /\ RestIsPlain(x.todo)
  /\ x.phase = "answered" /\ x.answer = "done" /\ x.copy.revision = d.revision /\ x.todo[1].op # "read" =>
       RestIsPlain(x.todo)

StepsInv == \A s \in Slots : StepsOf(requests[s], saved, confirmed)

DashInv == DashTypeOK /\ CopiesInv /\ RunsInv /\ ShownInv /\ PreviewsInv /\ StepsInv
--------------------------------------------------------------------------------
\* What is done to calls gives calls.
LEMMA CallTypes ==
  /\ Idle \in Call
  /\ \A x \in Call : /\ [x EXCEPT !.phase = "previews"] \in Call
                     /\ \A a \in {"done", "stale"}, c \in Destination \cup {Absent} :
                          [x EXCEPT !.phase = "answered", !.answer = a, !.copy = c] \in Call
                     /\ \A todo \in Seq(Step), v \in 0..MaxEdits :
                          [x EXCEPT !.todo = todo, !.version = v, !.phase = "sent", !.answer = "none", !.copy = Absent] \in Call
                     /\ \A todo \in Seq(Step) :
                          [x EXCEPT !.todo = todo, !.phase = "sent", !.answer = "none", !.version = 0, !.shows = FALSE] \in Call
  /\ \A todo \in Seq(Step), v \in 0..MaxEdits, a, b, c \in BOOLEAN :
       [todo |-> todo, version |-> v, phase |-> "sent", answer |-> "none", copy |-> Absent,
        runs |-> a, rereads |-> b, shows |-> c] \in Call
<1> USE DashAssumption
<1>1. Idle \in Call
  <2>1. <<>> \in Seq(Step)
    BY EmptySeq
  <2>. QED BY <2>1 DEF Idle, Call
<1>2. ASSUME NEW x \in Call
      PROVE  /\ [x EXCEPT !.phase = "previews"] \in Call
             /\ \A a \in {"done", "stale"}, c \in Destination \cup {Absent} :
                  [x EXCEPT !.phase = "answered", !.answer = a, !.copy = c] \in Call
             /\ \A todo \in Seq(Step), v \in 0..MaxEdits :
                  [x EXCEPT !.todo = todo, !.version = v, !.phase = "sent", !.answer = "none", !.copy = Absent] \in Call
             /\ \A todo \in Seq(Step) :
                  [x EXCEPT !.todo = todo, !.phase = "sent", !.answer = "none", !.version = 0, !.shows = FALSE] \in Call
  <2>1. [x EXCEPT !.phase = "previews"] \in Call
    BY DEF Call
  <2>2. ASSUME NEW a \in {"done", "stale"}, NEW c \in Destination \cup {Absent}
        PROVE  [x EXCEPT !.phase = "answered", !.answer = a, !.copy = c] \in Call
    BY DEF Call
  <2>3. ASSUME NEW todo \in Seq(Step), NEW v \in 0..MaxEdits
        PROVE  [x EXCEPT !.todo = todo, !.version = v, !.phase = "sent", !.answer = "none", !.copy = Absent] \in Call
    BY DEF Call
  <2>4. ASSUME NEW todo \in Seq(Step)
        PROVE  [x EXCEPT !.todo = todo, !.phase = "sent", !.answer = "none", !.version = 0, !.shows = FALSE] \in Call
    <3>1. [x EXCEPT !.shows = FALSE] \in Call
      BY DEF Call
    <3>2. \A y \in Call, v \in 0..MaxEdits :
            [y EXCEPT !.todo = todo, !.phase = "sent", !.answer = "none", !.version = v] \in Call
      BY DEF Call
    <3>4. 0 \in 0..MaxEdits
      OBVIOUS
    <3>3. [x EXCEPT !.todo = todo, !.phase = "sent", !.answer = "none", !.version = 0, !.shows = FALSE]
            = [[x EXCEPT !.shows = FALSE] EXCEPT !.todo = todo, !.phase = "sent", !.answer = "none", !.version = 0]
      BY DEF Call
    <3>. QED BY <3>1, <3>2, <3>3, <3>4
  <2>. QED BY <2>1, <2>2, <2>3, <2>4
<1>3. ASSUME NEW todo \in Seq(Step), NEW v \in 0..MaxEdits, NEW a \in BOOLEAN, NEW b \in BOOLEAN, NEW c \in BOOLEAN
      PROVE  [todo |-> todo, version |-> v, phase |-> "sent", answer |-> "none", copy |-> Absent,
              runs |-> a, rereads |-> b, shows |-> c] \in Call
  BY DEF Call
<1>. QED BY <1>1, <1>2, <1>3

LEMMA StepTypes ==
  /\ Read \in Step /\ Read.op = "read"
  /\ \A S \in SUBSET Handles, n \in 0..MaxEdits, op \in {"add", "delete", "patch", "edit", "policy", "read"} :
       /\ StepOf(op, S, n) \in Step /\ StepOf(op, S, n).op = op
       /\ StepOf(op, S, n).names = S /\ StepOf(op, S, n).seen = n
  /\ \A x \in Step : <<x>> \in Seq(Step) /\ <<x>> # <<>> /\ Len(<<x>>) = 1 /\ <<x>>[1] = x
  /\ \A x, y \in Step : /\ <<x, y>> \in Seq(Step) /\ <<x, y>> # <<>> /\ DOMAIN <<x, y>> = 1..2
                        /\ <<x, y>>[1] = x /\ <<x, y>>[2] = y
<1>1. \A S \in SUBSET Handles, n \in 0..MaxEdits, op \in {"add", "delete", "patch", "edit", "policy", "read"} :
       /\ StepOf(op, S, n) \in Step /\ StepOf(op, S, n).op = op
       /\ StepOf(op, S, n).names = S /\ StepOf(op, S, n).seen = n
  BY DEF StepOf, Step
<1>2. Read \in Step /\ Read.op = "read"
  BY DashAssumption DEF Read, StepOf, Step
<1>3. ASSUME NEW x \in Step, NEW y \in Step
      PROVE  /\ <<x>> \in Seq(Step) /\ <<x>> # <<>> /\ Len(<<x>>) = 1 /\ <<x>>[1] = x
             /\ <<x, y>> \in Seq(Step) /\ <<x, y>> # <<>> /\ DOMAIN <<x, y>> = 1..2
             /\ <<x, y>>[1] = x /\ <<x, y>>[2] = y
  OBVIOUS
<1>. QED BY <1>1, <1>2, <1>3

\* A step of a save raises the revision or leaves the configuration; one that removes
\* removes what it names.
LEMMA ResultsOf ==
  ASSUME DashTypeOK, NEW x \in Step, NEW result \in Results(x), result.revision <= MaxEdits
  PROVE  /\ result \in Destination
         /\ result = saved \/ result.revision = saved.revision + 1
         /\ saved.sources \ result.sources \subseteq {n \in x.names : x.op = "delete"}
<1> USE DashAssumption DEF Destination
<1>0. saved \in Destination /\ x.names \subseteq Handles
  BY DEF DashTypeOK, Step
<1>1. CASE x.op = "add"
  <2>1. result = saved \/ result = Added(x.names)
    BY <1>1 DEF Results
  <2>. QED BY <1>0, <2>1 DEF Added, Revised
<1>2. CASE x.op = "delete"
  <2>1. PICK n \in x.names : result = Removed(n)
    BY <1>2 DEF Results
  <2>. QED BY <1>0, <1>2, <2>1 DEF Removed, Revised
<1>3. CASE x.op = "patch"
  <2>1. PICK n \in x.names : result = Patched(n)
    BY <1>3 DEF Results
  <2>. QED BY <1>0, <2>1 DEF Patched, Revised
<1>4. CASE x.op \in {"edit", "policy"}
  <2>1. result = Revised(saved.sources, saved.filters)
    BY <1>4 DEF Results, Edited, PolicySaved
  <2>. QED BY <1>0, <2>1 DEF Revised
<1>5. CASE x.op = "read"
  BY <1>0, <1>5 DEF Results
<1>. QED BY <1>1, <1>2, <1>3, <1>4, <1>5 DEF Step

LEMMA FunctionsAreSequences ==
  ASSUME NEW S, NEW n \in Nat, NEW f \in [1..n -> S]
  PROVE  f \in Seq(S) /\ Len(f) = n
  OBVIOUS

\* The calls a difference of source names becomes.
LEMMA SyncEffect ==
  ASSUME NEW s \in Slots, NEW copy \in Destination, NEW wanted \in SUBSET Handles, Sync(s, copy, wanted)
  PROVE  \E todo \in Seq(Step) :
           /\ Begin(s, todo, copy.revision, TRUE, TRUE, TRUE) /\ todo # <<>>
           /\ \A i \in DOMAIN todo :
                /\ todo[i].op # "patch"
                /\ todo[i].op = "delete" => todo[i].names \subseteq copy.sources \ wanted
           /\ copy.sources \subseteq wanted => RestIsPlain(todo)
           /\ \A n : wanted = copy.sources \ {n} => RestIsPlain(todo)
<1> DEFINE added  == wanted \ copy.sources
           adding == IF added = {} THEN <<>> ELSE <<StepOf("add", added, 0)>>
           gone == copy.sources \ wanted
<1>1. copy.sources \subseteq Handles /\ added \subseteq Handles /\ gone \subseteq Handles /\ 0 \in 0..MaxEdits
  BY DashAssumption DEF Destination
<1>2. PICK removed \in Orders(gone) :
        Begin(s, adding \o [i \in DOMAIN removed |-> StepOf("delete", {removed[i]}, 0)] \o <<Read>>,
              copy.revision, TRUE, TRUE, TRUE)
  BY DEF Sync
<1> DEFINE removing == [i \in DOMAIN removed |-> StepOf("delete", {removed[i]}, 0)]
           n == Cardinality(gone)
           todo == adding \o removing \o <<Read>>
<1>3. n \in Nat /\ removed \in [1..n -> gone] /\ DOMAIN removed = 1..n
  <2>1. IsFiniteSet(gone)
    BY <1>1, DashAssumption, FS_Subset
  <2>. QED BY <2>1, FS_CardinalityType DEF Orders
<1>4. /\ adding \in Seq(Step) /\ Len(adding) \in {0, 1}
      /\ \A i \in 1..Len(adding) : adding[i].op = "add"
      /\ added = {} => Len(adding) = 0
  BY <1>1, StepTypes, EmptySeq
<1>5. /\ removing \in Seq(Step) /\ Len(removing) = n
      /\ \A i \in 1..n : removing[i].op = "delete" /\ removing[i].names \subseteq gone
  <2>1. ASSUME NEW i \in 1..n
        PROVE  /\ StepOf("delete", {removed[i]}, 0) \in Step /\ StepOf("delete", {removed[i]}, 0).op = "delete"
               /\ StepOf("delete", {removed[i]}, 0).names \subseteq gone
    <3>1. {removed[i]} \in SUBSET gone /\ {removed[i]} \in SUBSET Handles
      BY <1>1, <1>3
    <3>. QED BY <1>1, <3>1, StepTypes
  <2>2. removing = [i \in 1..n |-> StepOf("delete", {removed[i]}, 0)]
    BY <1>3
  <2>3. removing \in [1..n -> Step]
    BY <2>1, <2>2
  <2>4. removing \in Seq(Step) /\ Len(removing) = n
    <3> HIDE DEF removing, n
    <3>. QED BY <2>3, <1>3, FunctionsAreSequences
  <2>. QED BY <2>1, <2>2, <2>4
<1>6. <<Read>> \in Seq(Step) /\ Len(<<Read>>) = 1 /\ <<Read>>[1].op = "read"
  BY StepTypes
<1> HIDE DEF adding, removing, n
<1>7. /\ adding \o removing \in Seq(Step) /\ Len(adding \o removing) = Len(adding) + n
      /\ \A i \in 1..Len(adding) + n : (adding \o removing)[i] =
           IF i <= Len(adding) THEN adding[i] ELSE removing[i - Len(adding)]
  BY <1>4, <1>5, ConcatProperties
<1> DEFINE both == adding \o removing
<1> HIDE DEF both
<1>8. /\ both \o <<Read>> \in Seq(Step) /\ Len(both \o <<Read>>) = Len(both) + 1
      /\ \A i \in 1..Len(both) + 1 : (both \o <<Read>>)[i] = IF i <= Len(both) THEN both[i] ELSE <<Read>>[i - Len(both)]
  BY <1>6, <1>7, ConcatProperties DEF both
<1>9. todo = both \o <<Read>> /\ Len(adding) \in Nat /\ Len(both) = Len(adding) + n
  BY <1>4, <1>7 DEF both
<1> HIDE DEF todo
<1>10. todo \in Seq(Step) /\ Len(todo) = Len(adding) + n + 1 /\ DOMAIN todo = 1..Len(adding) + n + 1
  BY <1>3, <1>8, <1>9, LenProperties
<1>11. ASSUME NEW i \in DOMAIN todo
       PROVE  /\ i <= Len(adding) => todo[i].op = "add"
              /\ i > Len(adding) /\ i <= Len(adding) + n => todo[i].op = "delete" /\ todo[i].names \subseteq gone
              /\ i = Len(adding) + n + 1 => todo[i].op = "read"
  <2>1. i \in 1..Len(adding) + n + 1
    BY <1>10
  <2>2. CASE i <= Len(adding)
    <3>1. todo[i] = adding[i]
      BY <2>1, <2>2, <1>3, <1>7, <1>8, <1>9 DEF both
    <3>. QED BY <2>1, <2>2, <3>1, <1>3, <1>4
  <2>3. CASE i > Len(adding) /\ i <= Len(adding) + n
    <3>1. todo[i] = removing[i - Len(adding)] /\ i - Len(adding) \in 1..n
      BY <2>1, <2>3, <1>3, <1>4, <1>7, <1>8, <1>9 DEF both
    <3>. QED BY <2>1, <2>3, <3>1, <1>3, <1>5, <1>9
  <2>4. CASE i = Len(adding) + n + 1
    <3>1. todo[i] = <<Read>>[1]
      BY <2>1, <2>4, <1>3, <1>8, <1>9
    <3>. QED BY <2>4, <3>1, <1>3, <1>6, <1>9
  <2>. QED BY <2>1, <2>2, <2>3, <2>4, <1>3, <1>9
<1>12. \A i \in DOMAIN todo : todo[i].op # "patch" /\ (todo[i].op = "delete" => todo[i].names \subseteq gone)
  <2>1. ASSUME NEW i \in DOMAIN todo PROVE i <= Len(adding) \/ (i > Len(adding) /\ i <= Len(adding) + n) \/ i = Len(adding) + n + 1
    BY <1>3, <1>9, <1>10
  <2>. QED BY <1>11, <2>1
<1>13. ASSUME copy.sources \subseteq wanted PROVE RestIsPlain(todo)
  <2>1. gone = {} /\ n = 0
    BY <1>13, FS_EmptySet DEF n
  <2>. QED BY <2>1, <1>9, <1>10, <1>11 DEF RestIsPlain
<1>14. ASSUME NEW m, wanted = copy.sources \ {m} PROVE RestIsPlain(todo)
  <2>1. Len(adding) = 0
    BY <1>14, <1>4
  <2>2. n <= 1
    <3>1. gone = {} \/ gone = {m}
      BY <1>14
    <3>2. CASE gone = {}
      <4>1. n = 0
        BY <3>2, FS_EmptySet DEF n
      <4>. QED BY <4>1
    <3>3. CASE gone = {m}
      <4>1. n = 1
        BY <3>3, FS_Singleton DEF n
      <4>. QED BY <4>1
    <3>. QED BY <3>1, <3>2, <3>3
  <2>. QED BY <2>1, <2>2, <1>3, <1>10, <1>11 DEF RestIsPlain
<1>15. todo # <<>> /\ Begin(s, todo, copy.revision, TRUE, TRUE, TRUE)
  <2>1. todo # <<>>
    BY <1>3, <1>9, <1>10, EmptySeq
  <2>. QED BY <1>2, <2>1 DEF todo, adding, removing
<1>. QED BY <1>10, <1>12, <1>13, <1>14, <1>15
--------------------------------------------------------------------------------
(***************************************************************************)
(* What the actions do.                                                    *)
(***************************************************************************)
\* A call begins: it reads, or it is a save that took everything from what is shown.
NewCall(s, todo, version, runs, rereads, shows) ==
  /\ requests[s].phase = "idle"
  /\ requests' = [requests EXCEPT ![s] = [todo |-> todo, version |-> version, phase |-> "sent", answer |-> "none",
                                          copy |-> Absent, runs |-> runs, rereads |-> rereads, shows |-> shows]]
  /\ reader' \in {s, reader} /\ busy' = (busy \/ runs)
  /\ UNCHANGED <<saved, listed, opened, chips, panel>> /\ confirmed \subseteq confirmed' /\ confirmed' \subseteq Handles
  /\ todo # <<>> /\ version <= saved.revision
  /\ version = saved.revision => IsHarmless(todo[1], saved, confirmed') /\ RestIsPlain(todo)
  /\ runs => ~busy
  /\ prompt' = IF runs THEN Absent ELSE prompt
  /\ ~runs => todo[1].op = "read"

IsNewCall(s) == \E todo \in Seq(Step), version \in 0..MaxEdits, runs, rereads, shows \in BOOLEAN :
                  NewCall(s, todo, version, runs, rereads, shows)

\* The dialog is opened, closed or turned to something else.
IsDialogStep ==
  /\ UNCHANGED <<saved, requests, listed, reader, busy>>
  /\ confirmed \subseteq confirmed' /\ confirmed' \subseteq Handles
  /\ opened' \in {opened, Absent, listed} /\ panel' \in Panel \cup {Absent} /\ chips' \subseteq Handles
  /\ opened' # Absent => chips' = listed.sources /\ opened'.revision <= listed.revision
  /\ panel' # Absent => opened' # Absent /\ panel'.seen = opened'.filters[panel'.source]
  /\ \/ prompt' \in {prompt, Absent}
     \/ ~busy /\ \E n \in Handles : prompt' = [name |-> n, from |-> listed]

LEMMA Basics ==
  ASSUME DashInv
  PROVE  /\ saved \in Destination /\ listed \in Destination /\ saved.revision \in Nat /\ listed.revision \in Nat
         /\ opened # Absent => opened \in Destination /\ opened.revision \in Nat /\ opened.revision \in 0..MaxEdits
         /\ prompt # Absent => prompt.name \in Handles /\ prompt.from \in Destination
         /\ panel # Absent => panel.source \in Handles /\ panel.seen \in 0..MaxEdits
         /\ chips \subseteq Handles /\ confirmed \subseteq Handles
         /\ requests \in [Slots -> Call]
         /\ \A s \in Slots : /\ requests[s].todo \in Seq(Step) /\ requests[s].runs \in BOOLEAN
                             /\ requests[s].version \in 0..MaxEdits
                             /\ requests[s].copy # Absent => requests[s].copy \in Destination
<1>1. DashTypeOK
  BY DEF DashInv
<1>2. \A s \in Slots : requests[s] \in Call
  BY <1>1 DEF DashTypeOK
<1>3. \A s \in Slots : /\ requests[s].todo \in Seq(Step) /\ requests[s].runs \in BOOLEAN
                       /\ requests[s].version \in 0..MaxEdits
                       /\ requests[s].copy # Absent => requests[s].copy \in Destination
  BY <1>2 DEF Call
<1>4. /\ saved.revision \in Nat /\ listed.revision \in Nat
      /\ opened # Absent => opened \in Destination /\ opened.revision \in Nat /\ opened.revision \in 0..MaxEdits
  BY <1>1, DashAssumption DEF DashTypeOK, Destination
<1>5. /\ prompt # Absent => prompt.name \in Handles /\ prompt.from \in Destination
      /\ panel # Absent => panel.source \in Handles /\ panel.seen \in 0..MaxEdits
  BY <1>1 DEF DashTypeOK, Prompt, Panel
<1>. QED BY <1>1, <1>3, <1>4, <1>5 DEF DashTypeOK

LEMMA BeginsCall ==
  ASSUME DashInv, NEW s \in Slots, NEW todo \in Seq(Step), NEW version \in 0..MaxEdits,
         NEW runs \in BOOLEAN, NEW rereads \in BOOLEAN, NEW shows \in BOOLEAN,
         Begin(s, todo, version, runs, rereads, shows),
         UNCHANGED <<saved, listed, opened, chips, panel>>, confirmed \subseteq confirmed', confirmed' \subseteq Handles,
         todo # <<>>, version <= saved.revision,
         version = saved.revision => IsHarmless(todo[1], saved, confirmed') /\ RestIsPlain(todo),
         runs => ~busy,
         prompt' = IF runs THEN Absent ELSE prompt,
         ~runs => todo[1].op = "read"
  PROVE  IsNewCall(s)
<1>1. requests[s].phase = "idle" /\ reader' \in {s, reader} /\ busy' = (busy \/ runs)
      /\ requests' = [requests EXCEPT ![s] = [todo |-> todo, version |-> version, phase |-> "sent", answer |-> "none",
                                          copy |-> Absent, runs |-> runs, rereads |-> rereads, shows |-> shows]]
  BY DEF Begin, IsFree
<1>2. NewCall(s, todo, version, runs, rereads, shows)
  BY <1>1 DEF NewCall
<1>. QED BY <1>2 DEF IsNewCall

\* One step sequences hold nothing else.
LEMMA SingleSteps ==
  /\ RestIsPlain(<<Read>>) /\ <<Read>> \in Seq(Step) /\ <<Read>> # <<>> /\ <<Read>>[1].op = "read"
  /\ \A d, S : IsHarmless(<<Read>>[1], d, S)
<1>1. <<Read>> \in Seq(Step) /\ <<Read>> # <<>> /\ <<Read>>[1].op = "read"
  BY StepTypes
<1>2. RestIsPlain(<<Read>>)
  BY DEF RestIsPlain
<1>. QED BY <1>1, <1>2 DEF IsHarmless

LEMMA RefreshIsCall ==
  ASSUME DashInv, NEW s \in Slots, Refresh(s)
  PROVE  IsNewCall(s)
<1>1. Begin(s, <<Read>>, 0, FALSE, FALSE, FALSE) /\ UNCHANGED <<saved, listed, opened, chips, panel, prompt, confirmed>>
  BY DEF Refresh
<1>2. 0 \in 0..MaxEdits /\ 0 <= saved.revision /\ confirmed \subseteq Handles
  BY Basics, DashAssumption
<1>. QED BY <1>1, <1>2, SingleSteps, BeginsCall

\* Chips and copy are the stored configuration if the copy is of its revision.
LEMMA LiveCopy ==
  ASSUME DashInv, opened # Absent, opened.revision = saved.revision
  PROVE  opened = saved /\ listed = saved /\ chips = saved.sources
<1>1. opened = saved
  BY DEF DashInv, CopiesInv, IsCopyOf
<1>2. opened.revision <= listed.revision /\ listed.revision <= saved.revision
  BY DEF DashInv, CopiesInv, ShownInv, IsCopyOf
<1>3. listed = saved
  BY <1>2, Basics DEF DashInv, CopiesInv, IsCopyOf
<1>. QED BY <1>1, <1>3 DEF DashInv, ShownInv

LEMMA AddIsCall ==
  ASSUME DashInv, NEW s \in Slots, AddSources(s)
  PROVE  IsNewCall(s)
<1>1. PICK n \in Handles : Sync(s, opened, chips \cup {n})
  BY DEF AddSources
<1>2. /\ opened # Absent /\ prompt = Absent /\ ~busy /\ UNCHANGED <<saved, confirmed, listed, opened, chips, panel, prompt>>
      /\ opened \in Destination /\ opened.revision \in 0..MaxEdits /\ chips \cup {n} \in SUBSET Handles
      /\ confirmed \subseteq Handles
  BY Basics DEF AddSources
<1> DEFINE wanted == chips \cup {n}
<1> HIDE DEF wanted
<1>3. PICK todo \in Seq(Step) :
           /\ Begin(s, todo, opened.revision, TRUE, TRUE, TRUE) /\ todo # <<>>
           /\ \A i \in DOMAIN todo :
                /\ todo[i].op # "patch"
                /\ todo[i].op = "delete" => todo[i].names \subseteq opened.sources \ wanted
           /\ opened.sources \subseteq wanted => RestIsPlain(todo)
  <2>1. wanted \in SUBSET Handles /\ Sync(s, opened, wanted)
    BY <1>1, <1>2 DEF wanted
  <2>. QED BY <1>2, <2>1, SyncEffect
<1>4. 1 \in DOMAIN todo
  BY <1>3, LenProperties, EmptySeq
<1>5. ASSUME opened.revision = saved.revision PROVE IsHarmless(todo[1], saved, confirmed') /\ RestIsPlain(todo)
  <2>1. opened.sources \subseteq wanted
    BY <1>2, <1>5, LiveCopy DEF wanted
  <2>. QED BY <1>3, <1>4, <2>1 DEF IsHarmless
<1>6. opened.revision <= saved.revision
  BY <1>2 DEF DashInv, CopiesInv, IsCopyOf
<1>. QED BY <1>2, <1>3, <1>5, <1>6, BeginsCall

LEMMA ConfirmIsCall ==
  ASSUME DashInv, NEW s \in Slots, ConfirmRemoval(s), prompt.name \in prompt.from.sources
  PROVE  IsNewCall(s)
<1> DEFINE copy == prompt.from
           wanted == copy.sources \ {prompt.name}
<1>1. /\ prompt # Absent /\ prompt' = Absent /\ confirmed' = confirmed \cup {prompt.name}
      /\ Sync(s, copy, wanted) /\ UNCHANGED <<saved, listed, opened, chips, panel>>
  BY DEF ConfirmRemoval, LatestShown
<1>2. /\ copy \in Destination /\ copy.revision \in 0..MaxEdits /\ wanted \in SUBSET Handles /\ ~busy
      /\ confirmed' \subseteq Handles
  BY <1>1, Basics DEF DashInv, RunsInv, Destination
<1>3. copy.sources \ wanted \subseteq confirmed' /\ wanted = copy.sources \ {prompt.name} /\ copy.revision <= saved.revision
  BY <1>1 DEF DashInv, CopiesInv, IsCopyOf
<1> HIDE DEF copy, wanted
<1>4. PICK todo \in Seq(Step) :
           /\ Begin(s, todo, copy.revision, TRUE, TRUE, TRUE) /\ todo # <<>>
           /\ \A i \in DOMAIN todo :
                /\ todo[i].op # "patch"
                /\ todo[i].op = "delete" => todo[i].names \subseteq copy.sources \ wanted
           /\ \A n : wanted = copy.sources \ {n} => RestIsPlain(todo)
  BY <1>1, <1>2, SyncEffect
<1>5. 1 \in DOMAIN todo
  BY <1>4, LenProperties, EmptySeq
<1>6. IsHarmless(todo[1], saved, confirmed') /\ RestIsPlain(todo)
  BY <1>3, <1>4, <1>5 DEF IsHarmless
<1>. QED BY <1>1, <1>2, <1>3, <1>4, <1>6, BeginsCall

LEMMA SaveIsCall ==
  ASSUME DashInv, NEW s \in Slots, SaveFilters(s) \/ SubmitEdit(s) \/ SavePolicy(s)
  PROVE  IsNewCall(s)
<1>1. /\ opened # Absent /\ prompt = Absent /\ ~busy /\ UNCHANGED <<saved, confirmed, listed, opened, chips, panel, prompt>>
      /\ opened \in Destination /\ opened.revision \in 0..MaxEdits /\ opened.revision <= saved.revision
      /\ confirmed' \subseteq Handles /\ 0 \in 0..MaxEdits /\ {} \in SUBSET Handles
  <2>1. opened # Absent /\ prompt = Absent /\ ~busy /\ UNCHANGED <<saved, confirmed, listed, opened, chips, panel, prompt>>
    BY DEF SaveFilters, SubmitEdit, SavePolicy
  <2>2. opened.revision <= saved.revision
    BY <2>1 DEF DashInv, CopiesInv, IsCopyOf
  <2>. QED BY <2>1, <2>2, Basics, DashAssumption
<1>2. CASE SaveFilters(s)
  <2> DEFINE first == StepOf("patch", {panel.source}, panel.seen)
             todo == <<first, Read>>
  <2>1. panel # Absent /\ {panel.source} \in SUBSET Handles /\ panel.seen \in 0..MaxEdits
        /\ panel.seen = opened.filters[panel.source]
    BY <1>2, Basics DEF SaveFilters, DashInv, ShownInv
  <2>2. first \in Step /\ first.op = "patch" /\ first.names = {panel.source} /\ first.seen = panel.seen
    BY <2>1, StepTypes
  <2>3. /\ todo \in Seq(Step) /\ todo # <<>> /\ DOMAIN todo = 1..2 /\ todo[1] = first /\ todo[2].op = "read"
    <3> HIDE DEF first
    <3>. QED BY <2>2, StepTypes
  <2>4. Begin(s, todo, opened.revision, TRUE, TRUE, TRUE)
    BY <1>2 DEF SaveFilters
  <2> HIDE DEF todo, first
  <2>5. RestIsPlain(todo)
    BY <2>3 DEF RestIsPlain
  <2>6. ASSUME opened.revision = saved.revision PROVE IsHarmless(todo[1], saved, confirmed')
    <3>1. opened = saved
      BY <1>1, <2>6, LiveCopy
    <3>. QED BY <2>1, <2>2, <2>3, <3>1 DEF IsHarmless
  <2>. QED BY <1>1, <2>3, <2>4, <2>5, <2>6, BeginsCall
<1>3. CASE SubmitEdit(s) \/ SavePolicy(s)
  <2> DEFINE edit == StepOf("edit", {}, 0)
             policy == StepOf("policy", {}, 0)
  <2>1. edit \in Step /\ edit.op = "edit" /\ policy \in Step /\ policy.op = "policy"
    BY <1>1, StepTypes
  <2>2. \/ Begin(s, <<edit>>, opened.revision, TRUE, TRUE, FALSE)
        \/ Begin(s, <<policy, Read>>, opened.revision, TRUE, FALSE, FALSE)
    BY <1>3 DEF SubmitEdit, SavePolicy
  <2> HIDE DEF edit, policy
  <2>3. /\ <<edit>> \in Seq(Step) /\ <<edit>> # <<>> /\ RestIsPlain(<<edit>>)
        /\ IsHarmless(<<edit>>[1], saved, confirmed')
    <3>1. <<edit>> \in Seq(Step) /\ <<edit>> # <<>> /\ Len(<<edit>>) = 1 /\ <<edit>>[1] = edit
      BY <2>1, StepTypes
    <3>. QED BY <2>1, <3>1 DEF RestIsPlain, IsHarmless
  <2>4. /\ <<policy, Read>> \in Seq(Step) /\ <<policy, Read>> # <<>> /\ RestIsPlain(<<policy, Read>>)
        /\ IsHarmless(<<policy, Read>>[1], saved, confirmed')
    <3>1. /\ <<policy, Read>> \in Seq(Step) /\ <<policy, Read>> # <<>> /\ DOMAIN <<policy, Read>> = 1..2
          /\ <<policy, Read>>[1] = policy /\ <<policy, Read>>[2] = Read /\ Read.op = "read"
      BY <2>1, StepTypes
    <3>. QED BY <2>1, <3>1 DEF RestIsPlain, IsHarmless
  <2>. QED BY <1>1, <2>2, <2>3, <2>4, BeginsCall
<1>. QED BY <1>2, <1>3

LEMMA PanelTypes ==
  ASSUME DashInv, NEW copy \in Destination, NEW n \in copy.sources
  PROVE  LET x == [source |-> n, seen |-> copy.filters[n]] IN
         x \in Panel /\ x # Absent /\ x.seen = copy.filters[x.source]
<1>1. copy.sources \subseteq Handles /\ copy.filters \in [Handles -> 0..MaxEdits]
  BY DEF Destination
<1>2. [source |-> n, seen |-> copy.filters[n]] \in Panel
  BY <1>1 DEF Panel
<1>. QED BY <1>2, DashAssumption

\* What the tab shows after a list or a copy has come.
LEMMA ShowEffect ==
  ASSUME DashInv, NEW list \in Destination, NEW copy \in Destination \cup {Absent}, Show(list, copy)
  PROVE  /\ listed' = list /\ opened' = copy /\ panel' \in Panel \cup {Absent} /\ chips' \subseteq Handles
         /\ opened' # Absent => chips' = listed'.sources
         /\ panel' # Absent => opened' # Absent /\ panel'.seen = opened'.filters[panel'.source]
<1>1. listed' = list /\ opened' = copy /\ chips' = ChipsOf(copy, list) /\ panel' \in Panels(copy)
  BY DEF Show
<1>2. list.sources \subseteq Handles
  BY DEF Destination
<1>3. CASE copy = Absent
  BY <1>1, <1>2, <1>3 DEF ChipsOf, Panels
<1>4. CASE copy # Absent
  <2>1. PICK n \in copy.sources : panel' = [source |-> n, seen |-> copy.filters[n]]
    BY <1>1, <1>4 DEF Panels, Selected
  <2>2. panel' \in Panel /\ panel'.seen = copy.filters[panel'.source]
    BY <1>4, <2>1, PanelTypes
  <2>. QED BY <1>1, <1>2, <1>4, <2>2 DEF ChipsOf
<1>. QED BY <1>3, <1>4

LEMMA DialogSteps ==
  ASSUME DashInv,
         \/ StartEdit \/ CloseEdit \/ SelectSource \/ AskToRemove \/ CancelRemoval
         \/ \E s \in Slots : ConfirmRemoval(s) /\ prompt.name \notin prompt.from.sources
  PROVE  IsDialogStep
<1>1. /\ ShownInv /\ chips \subseteq Handles /\ confirmed \subseteq Handles /\ panel \in Panel \cup {Absent}
      /\ listed \in Destination /\ listed.sources \subseteq Handles
      /\ opened # Absent => opened \in Destination
  <2>1. listed \in Destination /\ panel \in Panel \cup {Absent}
    BY DEF DashInv, DashTypeOK
  <2>2. listed.sources \subseteq Handles
    BY <2>1 DEF Destination
  <2>. QED BY <2>1, <2>2, Basics DEF DashInv
<1>2. CASE StartEdit
  <2>1. Show(listed, listed)
    BY <1>1, <1>2, DashAssumption DEF StartEdit, Show, ChipsOf
  <2>2. /\ opened' = listed /\ panel' \in Panel \cup {Absent} /\ chips' \subseteq Handles
        /\ opened' # Absent => chips' = listed.sources
        /\ panel' # Absent => opened' # Absent /\ panel'.seen = opened'.filters[panel'.source]
    BY <1>1, <2>1, ShowEffect
  <2>3. listed.revision <= listed.revision
    BY <1>1, Basics
  <2>. QED BY <1>1, <1>2, <2>2, <2>3 DEF StartEdit, IsDialogStep
<1>3. CASE CloseEdit
  BY <1>1, <1>3 DEF CloseEdit, IsDialogStep
<1>4. CASE SelectSource
  <2>1. PICK n \in opened.sources : panel' = [source |-> n, seen |-> opened.filters[n]]
    BY <1>4 DEF SelectSource
  <2>2. panel' \in Panel /\ panel'.seen = opened.filters[panel'.source]
    BY <1>1, <1>4, <2>1, PanelTypes DEF SelectSource
  <2>. QED BY <1>1, <1>4, <2>2 DEF SelectSource, IsDialogStep, ShownInv
<1>5. CASE AskToRemove
  BY <1>1, <1>5 DEF AskToRemove, IsDialogStep, ShownInv
<1>6. CASE CancelRemoval
  BY <1>1, <1>6 DEF CancelRemoval, IsDialogStep, ShownInv
<1>7. ASSUME NEW s \in Slots, ConfirmRemoval(s), prompt.name \notin prompt.from.sources PROVE IsDialogStep
  BY <1>1, <1>7, Basics DEF ConfirmRemoval, IsDialogStep, ShownInv
<1>. QED BY <1>2, <1>3, <1>4, <1>5, <1>6, <1>7

\* The answer to a call, if there is one.
LEMMA HandleEffect ==
  ASSUME DashInv, NEW s \in Slots, Handle(s)
  PROVE  LET x == requests[s] IN
         /\ x.phase = "sent" /\ x.todo[1] \in Step
         /\ saved' \in Destination /\ (saved' = saved \/ saved'.revision = saved.revision + 1)
         /\ saved' # saved => x.version = saved.revision
         /\ saved.sources \ saved'.sources \subseteq {n \in x.todo[1].names : x.todo[1].op = "delete"}
         /\ confirmed' = confirmed \ (saved'.sources \ saved.sources)
         /\ UNCHANGED <<listed, opened, chips, panel, prompt>>
         /\ \/ /\ requests' = [requests EXCEPT ![s] = [x EXCEPT !.phase = "answered", !.answer = "stale", !.copy = Absent]]
               /\ UNCHANGED <<saved, busy, reader>>
            \/ /\ requests' = [requests EXCEPT ![s] = [x EXCEPT !.phase = "answered", !.answer = "done", !.copy = saved']]
               /\ x.todo[1].op = "read" \/ x.version = saved.revision
               /\ UNCHANGED <<busy, reader>>
            \/ End(s)
<1> DEFINE x == requests[s]
           first == Head(x.todo)
           isStale == first.op # "read" /\ IsConflict(x.version)
<1>1. /\ requests \in [Slots -> Call] /\ x \in Call /\ x.phase = "sent" /\ x.todo \in Seq(Step) /\ x.todo # <<>>
      /\ saved \in Destination
  BY Basics DEF Handle, DashInv, RunsInv
<1>2. first \in Step /\ first = x.todo[1]
  BY <1>1, HeadTailProperties
<1>3. /\ confirmed' = confirmed \ (saved'.sources \ saved.sources)
      /\ UNCHANGED <<listed, opened, chips, panel, prompt>>
      /\ \/ isStale /\ Respond(s, "stale", Absent) /\ UNCHANGED <<saved, busy, reader>>
         \/ /\ ~isStale
            /\ \E result \in Results(first) :
                 result.revision <= MaxEdits /\ saved' = result
                 /\ \/ Respond(s, "done", result) /\ UNCHANGED <<busy, reader>>
                    \/ End(s)
         \/ End(s) /\ UNCHANGED saved
  BY DEF Handle
<1>4. \A a, c : Respond(s, a, c) =>
        requests' = [requests EXCEPT ![s] = [x EXCEPT !.phase = "answered", !.answer = a, !.copy = c]]
  BY <1>1 DEF Respond
<1>5. CASE UNCHANGED saved
  <2>1. saved.sources \ saved'.sources = {}
    BY <1>5
  <2>2. \/ Respond(s, "stale", Absent) /\ UNCHANGED <<saved, busy, reader>>
        \/ Respond(s, "done", saved') /\ UNCHANGED <<busy, reader>> /\ (first.op = "read" \/ x.version = saved.revision)
        \/ End(s)
    BY <1>3, <1>5 DEF IsConflict
  <2> HIDE DEF first, isStale
  <2>3. \/ /\ requests' = [requests EXCEPT ![s] = [x EXCEPT !.phase = "answered", !.answer = "stale", !.copy = Absent]]
           /\ UNCHANGED <<saved, busy, reader>>
        \/ /\ requests' = [requests EXCEPT ![s] = [x EXCEPT !.phase = "answered", !.answer = "done", !.copy = saved']]
           /\ first.op = "read" \/ x.version = saved.revision
           /\ UNCHANGED <<busy, reader>>
        \/ End(s)
    BY <1>4, <2>2
  <2>. QED BY <1>1, <1>2, <1>3, <1>5, <2>1, <2>3
<1>6. CASE saved' # saved
  <2>1. ~isStale /\ saved' \in Results(first) /\ saved'.revision <= MaxEdits
        /\ ((Respond(s, "done", saved') /\ UNCHANGED <<busy, reader>>) \/ End(s))
    BY <1>3, <1>6
  <2>2. DashTypeOK
    BY DEF DashInv
  <2>3. /\ saved' \in Destination /\ (saved' = saved \/ saved'.revision = saved.revision + 1)
        /\ saved.sources \ saved'.sources \subseteq {n \in first.names : first.op = "delete"}
    BY <1>2, <2>1, <2>2, ResultsOf
  <2>4. first.op # "read"
    BY <1>6, <2>1 DEF Results
  <2>5. x.version = saved.revision
    BY <2>1, <2>4 DEF IsConflict
  <2>6. \/ /\ requests' = [requests EXCEPT ![s] = [x EXCEPT !.phase = "answered", !.answer = "done", !.copy = saved']]
           /\ UNCHANGED <<busy, reader>>
        \/ End(s)
    BY <1>4, <2>1
  <2> HIDE DEF first
  <2>. QED BY <1>1, <1>2, <1>3, <2>3, <2>5, <2>6
<1>. QED BY <1>5, <1>6

LEMMA EndEffect ==
  ASSUME DashInv, NEW s \in Slots, End(s)
  PROVE  /\ requests' = [requests EXCEPT ![s] = Idle] /\ busy' = (busy /\ ~requests[s].runs)
         /\ reader' \in {Absent, reader}
  BY DEF End

\* An answered step is followed by the next one, a save of the main form or a list.
Continues(s, rest, version) ==
  /\ rest # <<>> /\ \A i \in DOMAIN rest : i + 1 \in DOMAIN requests[s].todo /\ rest[i] = requests[s].todo[i + 1]
  /\ version = requests[s].copy.revision \/ (version = 0 /\ rest = <<Read>>)
  /\ requests' = [requests EXCEPT ![s] = [requests[s] EXCEPT !.todo = rest, !.version = version, !.phase = "sent",
                                                             !.answer = "none", !.copy = Absent]]
  /\ reader' \in {s, reader} /\ UNCHANGED <<busy, listed, opened, chips, panel>>

LEMMA TakeSavedEffect ==
  ASSUME DashInv, NEW s \in Slots, TakeSaved(s)
  PROVE  LET x == requests[s] IN
         /\ x.phase = "answered" /\ x.answer = "done" /\ x.copy \in Destination /\ x.copy # Absent /\ x.todo[1].op # "read"
         /\ x.runs /\ UNCHANGED <<saved, confirmed, prompt>>
         /\ \/ Show(x.copy, Absent) /\ End(s)
            \/ \E rest \in Seq(Step), version \in 0..MaxEdits : Continues(s, rest, version)
<1> DEFINE x == requests[s]
           rest == Tail(x.todo)
           version == IF rest = <<Read>> THEN 0 ELSE x.copy.revision
<1>1. /\ requests \in [Slots -> Call] /\ x.phase = "answered" /\ x.answer = "done" /\ x.todo \in Seq(Step)
      /\ UNCHANGED <<saved, confirmed, prompt>> /\ x.todo # <<>> /\ ~IsReading(s)
      /\ IF rest = <<>>
         THEN Show(x.copy, Absent) /\ End(s)
         ELSE Continue(s, rest, x.copy.revision) /\ UNCHANGED <<listed, opened, chips, panel>>
  BY Basics DEF TakeSaved, IsDone, DashInv, RunsInv
<1>2. x.copy # Absent /\ x.copy \in Destination
  BY <1>1, Basics DEF DashInv, CopiesInv, HasCopy
<1>3. x.todo[1].op # "read" /\ x.runs
  BY <1>1, HeadTailProperties DEF IsReading, DashInv, RunsInv
<1>4. CASE rest = <<>>
  BY <1>1, <1>2, <1>3, <1>4
<1>5. CASE rest # <<>>
  <2>1. /\ rest \in Seq(Step) /\ Len(rest) = Len(x.todo) - 1
        /\ \A i \in 1 .. Len(rest) : rest[i] = x.todo[i + 1]
    BY <1>1, HeadTailProperties
  <2>2. /\ DOMAIN rest = 1..Len(rest) /\ DOMAIN x.todo = 1..Len(x.todo) /\ Len(rest) \in Nat /\ Len(x.todo) \in Nat
    BY <1>1, <2>1, LenProperties
  <2>3. \A i \in DOMAIN rest : i + 1 \in DOMAIN x.todo /\ rest[i] = x.todo[i + 1]
    BY <2>1, <2>2
  <2>4. /\ requests' = [requests EXCEPT ![s] = [x EXCEPT !.todo = rest, !.version = version, !.phase = "sent",
                                                         !.answer = "none", !.copy = Absent]]
        /\ reader' \in {s, reader} /\ UNCHANGED <<busy, listed, opened, chips, panel>>
    BY <1>1, <1>5 DEF Continue
  <2>5. version = x.copy.revision \/ (version = 0 /\ rest = <<Read>>)
    OBVIOUS
  <2>6. 0 \in 0..MaxEdits /\ x.copy.revision \in 0..MaxEdits
    BY <1>2, DashAssumption DEF Destination
  <2> HIDE DEF rest, version
  <2>7. version \in 0..MaxEdits
    BY <2>5, <2>6
  <2>8. Continues(s, rest, version)
    BY <1>5, <2>3, <2>4, <2>5 DEF Continues
  <2>. QED BY <1>1, <1>2, <1>3, <2>1, <2>7, <2>8
<1>. QED BY <1>4, <1>5

LEMMA TakeConflictEffect ==
  ASSUME DashInv, NEW s \in Slots, TakeConflict(s)
  PROVE  /\ requests[s].phase = "answered" /\ UNCHANGED <<saved, confirmed, listed, opened, chips, panel, prompt>>
         /\ \/ End(s)
            \/ /\ requests' = [requests EXCEPT ![s] = [requests[s] EXCEPT !.todo = <<Read>>, !.phase = "sent",
                                                         !.answer = "none", !.version = 0, !.shows = FALSE]]
               /\ reader' = s /\ UNCHANGED busy
  BY Basics DEF TakeConflict

LEMMA TakeListEffect ==
  ASSUME DashInv, NEW s \in Slots, TakeList(s)
  PROVE  LET x == requests[s] IN
         /\ x.phase = "answered" /\ x.answer = "done" /\ x.copy \in Destination /\ x.copy # Absent
         /\ UNCHANGED <<saved, confirmed, prompt>>
         /\ \/ /\ reader = s /\ Show(x.copy, Followed(opened, x.copy))
               /\ \/ /\ x.runs /\ UNCHANGED <<busy, reader>>
                     /\ requests' = [requests EXCEPT ![s] = [x EXCEPT !.phase = "previews"]]
                  \/ End(s)
            \/ reader # s /\ UNCHANGED <<listed, opened, chips, panel>> /\ End(s)
<1> DEFINE x == requests[s]
<1>1. x.phase = "answered" /\ x.answer = "done" /\ UNCHANGED <<saved, confirmed, prompt>> /\ requests \in [Slots -> Call]
  BY Basics DEF TakeList, IsDone
<1>2. x.copy # Absent /\ x.copy \in Destination
  BY <1>1, Basics DEF DashInv, CopiesInv, HasCopy
<1>3. CASE reader = s
  BY <1>1, <1>2, <1>3 DEF TakeList, MayWriteList
<1>4. CASE reader # s
  BY <1>1, <1>2, <1>4 DEF TakeList, MayWriteList
<1>. QED BY <1>3, <1>4

LEMMA TakePreviewsEffect ==
  ASSUME DashInv, NEW s \in Slots, TakePreviews(s)
  PROVE  LET x == requests[s] IN
         /\ x.phase = "previews" /\ HasCopy(x) /\ x.copy \in Destination /\ x.copy # Absent
         /\ End(s) /\ UNCHANGED <<saved, confirmed, prompt>>
         /\ Show(listed, x.copy) \/ UNCHANGED <<listed, opened, chips, panel>>
  BY Basics DEF TakePreviews, HasCopy, DashInv, CopiesInv

LEMMA OtherEffect ==
  ASSUME DashInv, OtherOperator
  PROVE  /\ saved' \in Destination /\ saved'.revision = saved.revision + 1
         /\ saved.sources \ saved'.sources \subseteq confirmed' /\ confirmed' \subseteq Handles
         /\ UNCHANGED <<requests, listed, opened, chips, panel, prompt, reader, busy>>
<1>1. /\ UNCHANGED <<requests, tabVars>> /\ saved.revision < MaxEdits /\ saved \in Destination /\ confirmed \subseteq Handles
  BY Basics DEF OtherOperator
<1>2. PICK n \in Handles :
       \/ n \notin saved.sources /\ saved' = Added({n}) /\ confirmed' = confirmed \ {n}
       \/ MayRemove(n) /\ saved' = Removed(n) /\ confirmed' = confirmed \cup {n}
       \/ n \in saved.sources /\ saved' = Patched(n) /\ UNCHANGED confirmed
  BY DEF OtherOperator
<1>3. saved' \in Destination /\ saved'.revision = saved.revision + 1
  BY <1>1, <1>2, DashAssumption DEF Added, Removed, Patched, Revised, Destination
<1>4. saved.sources \ saved'.sources \subseteq confirmed' /\ confirmed' \subseteq Handles
  BY <1>1, <1>2 DEF Added, Removed, Patched, Revised
<1>. QED BY <1>1, <1>3, <1>4 DEF tabVars

LEMMA DashCases ==
  ASSUME DashInv, DashNext
  PROVE  \/ OtherOperator \/ IsDialogStep
         \/ \E s \in Slots : \/ IsNewCall(s) \/ Handle(s) \/ TakeList(s) \/ TakePreviews(s) \/ TakeSaved(s) \/ TakeConflict(s)
<1>1. ASSUME NEW s \in Slots, ConfirmRemoval(s) PROVE IsDialogStep \/ IsNewCall(s)
  BY <1>1, DialogSteps, ConfirmIsCall
<1>2. ASSUME NEW s \in Slots,
             Refresh(s) \/ AddSources(s) \/ SaveFilters(s) \/ SubmitEdit(s) \/ SavePolicy(s)
      PROVE  IsNewCall(s)
  BY <1>2, RefreshIsCall, AddIsCall, SaveIsCall
<1>3. CASE StartEdit \/ CloseEdit \/ SelectSource \/ AskToRemove \/ CancelRemoval
  BY <1>3, DialogSteps
<1>. QED BY <1>1, <1>2, <1>3 DEF DashNext
--------------------------------------------------------------------------------
(***************************************************************************)
(* The steps.                                                              *)
(***************************************************************************)
LEMMA DashTypeStep ==
  ASSUME DashInv, DashNext
  PROVE  DashTypeOK'
<1>1. DashTypeOK /\ requests \in [Slots -> Call] /\ Idle \in Call
  BY CallTypes DEF DashInv, DashTypeOK
<1>2. CASE OtherOperator
  BY <1>1, <1>2, OtherEffect DEF DashTypeOK
<1>3. CASE IsDialogStep
  <2>1. prompt' \in Prompt \cup {Absent}
    BY <1>1, <1>3 DEF IsDialogStep, DashTypeOK, Prompt
  <2>. QED BY <1>1, <1>3, <2>1 DEF IsDialogStep, DashTypeOK
<1>4. ASSUME NEW s \in Slots, IsNewCall(s) PROVE DashTypeOK'
  <2>1. PICK todo \in Seq(Step), version \in 0..MaxEdits, runs \in BOOLEAN, rereads \in BOOLEAN, shows \in BOOLEAN :
          NewCall(s, todo, version, runs, rereads, shows)
    BY <1>4 DEF IsNewCall
  <2>2. requests' \in [Slots -> Call]
    BY <1>1, <2>1, CallTypes DEF NewCall
  <2>3. prompt' \in Prompt \cup {Absent} /\ busy' \in BOOLEAN /\ reader' \in Slots \cup {Absent}
    BY <1>1, <2>1 DEF NewCall, DashTypeOK
  <2>. QED BY <1>1, <2>1, <2>2, <2>3 DEF NewCall, DashTypeOK
<1>5. ASSUME NEW s \in Slots, End(s)
      PROVE  requests' \in [Slots -> Call] /\ busy' \in BOOLEAN /\ reader' \in Slots \cup {Absent}
  <2>1. requests' \in [Slots -> Call] /\ reader' \in Slots \cup {Absent}
    BY <1>1, <1>5, EndEffect DEF DashTypeOK
  <2>2. busy' \in BOOLEAN
    BY <1>5, Zenon DEF End
  <2>. QED BY <2>1, <2>2
<1>6. ASSUME NEW s \in Slots, Handle(s) PROVE DashTypeOK'
  <2>1. requests' \in [Slots -> Call] /\ busy' \in BOOLEAN /\ reader' \in Slots \cup {Absent}
    <3>1. requests[s] \in Call /\ saved' \in Destination
      BY <1>1, <1>6, HandleEffect
    <3>2. /\ [requests[s] EXCEPT !.phase = "answered", !.answer = "stale", !.copy = Absent] \in Call
          /\ [requests[s] EXCEPT !.phase = "answered", !.answer = "done", !.copy = saved'] \in Call
      BY <3>1, CallTypes
    <3>3. CASE End(s)
      BY <3>3, <1>5
    <3>4. CASE ~End(s)
      <4>1. requests' \in [Slots -> Call] /\ UNCHANGED <<busy, reader>>
        BY <1>1, <1>6, <3>2, <3>4, HandleEffect
      <4>. QED BY <1>1, <4>1 DEF DashTypeOK
    <3>. QED BY <3>3, <3>4
  <2>. QED BY <1>1, <1>6, <2>1, HandleEffect DEF DashTypeOK
<1>7. ASSUME NEW list \in Destination, NEW copy \in Destination \cup {Absent}, Show(list, copy)
      PROVE  listed' \in Destination /\ opened' \in Destination \cup {Absent} /\ panel' \in Panel \cup {Absent} /\ chips' \subseteq Handles
  BY <1>7, ShowEffect
<1>8. ASSUME NEW s \in Slots, TakeList(s) PROVE DashTypeOK'
  <2>1. requests' \in [Slots -> Call] /\ busy' \in BOOLEAN /\ reader' \in Slots \cup {Absent}
    <3>1. [requests[s] EXCEPT !.phase = "previews"] \in Call
      BY <1>1, CallTypes
    <3>. QED BY <1>1, <1>5, <1>8, <3>1, TakeListEffect DEF DashTypeOK
  <2>2. Followed(opened, requests[s].copy) \in Destination \cup {Absent}
    BY <1>1, <1>8, TakeListEffect DEF Followed, DashTypeOK
  <2>3. listed' \in Destination /\ opened' \in Destination \cup {Absent} /\ panel' \in Panel \cup {Absent} /\ chips' \subseteq Handles
    BY <1>1, <1>7, <1>8, <2>2, TakeListEffect DEF DashTypeOK
  <2>. QED BY <1>1, <1>8, <2>1, <2>3, TakeListEffect DEF DashTypeOK
<1>9. ASSUME NEW s \in Slots, TakePreviews(s) PROVE DashTypeOK'
  <2>1. requests' \in [Slots -> Call] /\ busy' \in BOOLEAN /\ reader' \in Slots \cup {Absent}
    BY <1>5, <1>9, TakePreviewsEffect
  <2>2. listed' \in Destination /\ opened' \in Destination \cup {Absent} /\ panel' \in Panel \cup {Absent} /\ chips' \subseteq Handles
    BY <1>1, <1>7, <1>9, TakePreviewsEffect DEF DashTypeOK
  <2>. QED BY <1>1, <1>9, <2>1, <2>2, TakePreviewsEffect DEF DashTypeOK
<1>10. ASSUME NEW s \in Slots, TakeSaved(s) PROVE DashTypeOK'
  <2>1. CASE Show(requests[s].copy, Absent) /\ End(s)
    <3>1. requests' \in [Slots -> Call] /\ busy' \in BOOLEAN /\ reader' \in Slots \cup {Absent}
      BY <1>5, <2>1
    <3>2. listed' \in Destination /\ opened' \in Destination \cup {Absent} /\ panel' \in Panel \cup {Absent} /\ chips' \subseteq Handles
      BY <1>1, <1>7, <1>10, <2>1, TakeSavedEffect DEF DashTypeOK
    <3>. QED BY <1>1, <1>10, <3>1, <3>2, TakeSavedEffect DEF DashTypeOK
  <2>2. CASE ~(Show(requests[s].copy, Absent) /\ End(s))
    <3>1. PICK rest \in Seq(Step), version \in 0..MaxEdits : Continues(s, rest, version)
      BY <1>10, <2>2, TakeSavedEffect, Zenon
    <3>2. requests[s] \in Call
      BY <1>1
    <3>3. requests' \in [Slots -> Call]
      BY <1>1, <3>1, <3>2, CallTypes DEF Continues
    <3>. QED BY <1>1, <1>10, <3>1, <3>3, TakeSavedEffect DEF DashTypeOK, Continues
  <2>. QED BY <2>1, <2>2
<1>11. ASSUME NEW s \in Slots, TakeConflict(s) PROVE DashTypeOK'
  <2>1. requests' \in [Slots -> Call] /\ busy' \in BOOLEAN /\ reader' \in Slots \cup {Absent}
    <3>1. [requests[s] EXCEPT !.todo = <<Read>>, !.phase = "sent", !.answer = "none", !.version = 0, !.shows = FALSE] \in Call
      BY <1>1, CallTypes, SingleSteps
    <3>. QED BY <1>1, <1>5, <1>11, <3>1, TakeConflictEffect DEF DashTypeOK
  <2>. QED BY <1>1, <1>11, <2>1, TakeConflictEffect DEF DashTypeOK
<1>. QED BY <1>2, <1>3, <1>4, <1>6, <1>8, <1>9, <1>10, <1>11, DashCases

\* The stored configuration changes with its revision, and then some confirmations end.
LEMMA SavedStep ==
  ASSUME DashInv, DashNext
  PROVE  /\ saved' \in Destination
         /\ \/ saved' = saved /\ confirmed \subseteq confirmed'
            \/ saved'.revision = saved.revision + 1
<1>1. CASE OtherOperator
  BY <1>1, OtherEffect
<1>2. CASE IsDialogStep
  BY <1>2, Basics DEF IsDialogStep
<1>3. ASSUME NEW s \in Slots, IsNewCall(s) PROVE saved' \in Destination /\ saved' = saved /\ confirmed \subseteq confirmed'
  <2>1. UNCHANGED saved /\ confirmed \subseteq confirmed'
    BY <1>3 DEF IsNewCall, NewCall
  <2>. QED BY <2>1, Basics
<1>4. ASSUME NEW s \in Slots, Handle(s)
      PROVE  /\ saved' \in Destination
             /\ \/ saved' = saved /\ confirmed \subseteq confirmed'
                \/ saved'.revision = saved.revision + 1
  BY <1>4, HandleEffect
<1>5. ASSUME NEW s \in Slots, TakeList(s) \/ TakePreviews(s) \/ TakeSaved(s) \/ TakeConflict(s)
      PROVE  saved' \in Destination /\ saved' = saved /\ confirmed \subseteq confirmed'
  BY <1>5, Basics, TakeListEffect, TakePreviewsEffect, TakeSavedEffect, TakeConflictEffect
<1>. QED BY <1>1, <1>2, <1>3, <1>4, <1>5, DashCases

LEMMA CopyKept ==
  ASSUME DashInv, DashNext, NEW c \in Destination, IsCopyOf(c, saved)
  PROVE  IsCopyOf(c, saved')
<1>1. c.revision \in Nat /\ saved.revision \in Nat
  BY Basics, DashAssumption DEF Destination
<1>. QED BY <1>1, SavedStep DEF IsCopyOf

\* An action of one call leaves the others what they were.
LEMMA OneCall ==
  ASSUME DashInv, NEW s \in Slots,
         IsNewCall(s) \/ Handle(s) \/ TakeList(s) \/ TakePreviews(s) \/ TakeSaved(s) \/ TakeConflict(s)
  PROVE  \A t \in Slots \ {s} : requests'[t] = requests[t]
<1>0. requests \in [Slots -> Call]
  BY Basics
<1>1. CASE IsNewCall(s)
  BY <1>0, <1>1 DEF IsNewCall, NewCall
<1>2. CASE End(s)
  BY <1>0, <1>2, EndEffect
<1>3. CASE Handle(s)
  BY <1>0, <1>2, <1>3, HandleEffect
<1>4. CASE TakeList(s)
  BY <1>0, <1>2, <1>4, TakeListEffect
<1>5. CASE TakePreviews(s)
  BY <1>2, <1>5, TakePreviewsEffect
<1>6. CASE TakeSaved(s)
  <2>1. CASE \E rest \in Seq(Step), version \in 0..MaxEdits : Continues(s, rest, version)
    BY <1>0, <2>1 DEF Continues
  <2>. QED BY <1>2, <1>6, <2>1, TakeSavedEffect, Zenon
<1>7. CASE TakeConflict(s)
  BY <1>0, <1>2, <1>7, TakeConflictEffect
<1>. QED BY <1>1, <1>3, <1>4, <1>5, <1>6, <1>7

\* What becomes of the call itself: it begins, is answered, waits for the previews,
\* goes on, reads the list again or ends.
Begun(s) == /\ requests[s].phase = "idle" /\ requests'[s].phase = "sent"
            /\ requests'[s].version <= saved.revision /\ requests'[s].todo # <<>>
            /\ requests'[s].version = saved.revision =>
                 IsHarmless(requests'[s].todo[1], saved, confirmed') /\ RestIsPlain(requests'[s].todo)
            /\ requests'[s].runs => ~busy /\ prompt' = Absent
            /\ ~requests'[s].runs => requests'[s].todo[1].op = "read" /\ prompt' = prompt
            /\ busy' = (busy \/ requests'[s].runs) /\ UNCHANGED <<saved, listed, opened, chips, panel>>
            /\ reader' \in {s, reader}
Answered(s) == /\ requests[s].phase = "sent" /\ requests'[s].phase = "answered"
               /\ requests'[s].answer = "done" => requests'[s].copy = saved'
               /\ requests'[s].answer = "done" => requests[s].todo[1].op = "read" \/ requests[s].version = saved.revision
               /\ requests'[s].todo = requests[s].todo /\ requests'[s].runs = requests[s].runs
               /\ UNCHANGED <<busy, reader, listed, opened, chips, panel, prompt>>
Previewed(s) == /\ requests[s].phase = "answered" /\ requests[s].answer = "done" /\ requests'[s].phase = "previews"
                /\ requests'[s].answer = "done" /\ requests'[s].copy = requests[s].copy
                /\ requests[s].runs /\ requests'[s].runs /\ reader = s
                /\ UNCHANGED <<saved, busy, reader, prompt>>
GoneOn(s) == /\ requests[s].phase = "answered" /\ requests[s].answer = "done" /\ requests'[s].phase = "sent"
             /\ requests'[s].runs = requests[s].runs /\ requests'[s].todo # <<>>
             /\ requests[s].runs /\ requests[s].todo[1].op # "read"
             /\ requests'[s].version <= saved.revision
             /\ requests'[s].version = saved.revision =>
                  IsHarmless(requests'[s].todo[1], saved, confirmed') /\ RestIsPlain(requests'[s].todo)
             /\ reader' \in {s, reader} /\ UNCHANGED <<saved, busy, listed, opened, chips, panel, prompt>>
ReadAgain(s) == /\ requests[s].phase = "answered" /\ requests'[s].phase = "sent"
                /\ requests'[s].runs = requests[s].runs /\ requests'[s].todo = <<Read>> /\ requests'[s].version = 0
                /\ reader' = s /\ UNCHANGED <<saved, busy, listed, opened, chips, panel, prompt>>
Ended(s) == requests'[s] = Idle /\ busy' = (busy /\ ~requests[s].runs) /\ reader' \in {Absent, reader} /\ prompt' = prompt

LEMMA CallCases ==
  ASSUME DashInv, NEW s \in Slots
  PROVE  /\ IsNewCall(s) => Begun(s)
         /\ Handle(s) => Answered(s) \/ Ended(s)
         /\ TakeList(s) => Previewed(s) \/ Ended(s)
         /\ TakePreviews(s) => Ended(s)
         /\ TakeSaved(s) => GoneOn(s) \/ Ended(s)
         /\ TakeConflict(s) => ReadAgain(s) \/ Ended(s)
<1>0. requests \in [Slots -> Call] /\ requests[s] \in Call
  BY Basics
<1>1. ASSUME IsNewCall(s) PROVE Begun(s)
  <2>1. PICK todo \in Seq(Step), version \in 0..MaxEdits, runs \in BOOLEAN, rereads \in BOOLEAN, shows \in BOOLEAN :
          NewCall(s, todo, version, runs, rereads, shows)
    BY <1>1 DEF IsNewCall
  <2>2. /\ requests'[s].phase = "sent" /\ requests'[s].todo = todo /\ requests'[s].version = version
        /\ requests'[s].runs = runs
    BY <1>0, <2>1 DEF NewCall
  <2>. QED BY <2>1, <2>2 DEF NewCall, Begun
<1>2. ASSUME End(s), UNCHANGED prompt PROVE Ended(s)
  BY <1>0, <1>2, EndEffect DEF Ended
<1>3. ASSUME Handle(s) PROVE Answered(s) \/ Ended(s)
  <2>1. CASE End(s)
    BY <1>2, <1>3, <2>1, HandleEffect
  <2>2. CASE requests' = [requests EXCEPT ![s] = [requests[s] EXCEPT !.phase = "answered", !.answer = "stale", !.copy = Absent]]
             /\ UNCHANGED <<saved, busy, reader>>
    <3>1. /\ requests'[s].phase = "answered" /\ requests'[s].answer = "stale"
          /\ requests'[s].todo = requests[s].todo /\ requests'[s].runs = requests[s].runs
      BY <1>0, <2>2 DEF Call
    <3>. QED BY <1>3, <2>2, <3>1, HandleEffect DEF Answered
  <2>3. CASE /\ requests' = [requests EXCEPT ![s] = [requests[s] EXCEPT !.phase = "answered", !.answer = "done", !.copy = saved']]
             /\ requests[s].todo[1].op = "read" \/ requests[s].version = saved.revision
             /\ UNCHANGED <<busy, reader>>
    <3>1. /\ requests'[s].phase = "answered" /\ requests'[s].copy = saved'
          /\ requests'[s].todo = requests[s].todo /\ requests'[s].runs = requests[s].runs
      BY <1>0, <2>3 DEF Call
    <3>. QED BY <1>3, <2>3, <3>1, HandleEffect DEF Answered
  <2>. QED BY <1>3, <2>1, <2>2, <2>3, HandleEffect
<1>4. ASSUME TakeList(s) PROVE Previewed(s) \/ Ended(s)
  <2>1. CASE End(s)
    BY <1>2, <1>4, <2>1, TakeListEffect
  <2>2. CASE ~End(s)
    <3>1. requests[s].runs /\ UNCHANGED <<busy, reader>> /\ reader = s
          /\ requests' = [requests EXCEPT ![s] = [requests[s] EXCEPT !.phase = "previews"]]
      BY <1>4, <2>2, TakeListEffect
    <3>2. requests'[s].phase = "previews" /\ requests'[s].runs = requests[s].runs /\ requests'[s].copy = requests[s].copy
          /\ requests'[s].answer = requests[s].answer
      BY <1>0, <3>1 DEF Call
    <3>. QED BY <1>4, <3>1, <3>2, TakeListEffect DEF Previewed
  <2>. QED BY <2>1, <2>2
<1>5. ASSUME TakePreviews(s) PROVE Ended(s)
  BY <1>2, <1>5, TakePreviewsEffect
<1>6. ASSUME TakeSaved(s) PROVE GoneOn(s) \/ Ended(s)
  <2>1. CASE End(s)
    BY <1>2, <1>6, <2>1, TakeSavedEffect
  <2>2. CASE ~End(s)
    <3>1. PICK rest \in Seq(Step), version \in 0..MaxEdits : Continues(s, rest, version)
      BY <1>6, <2>2, TakeSavedEffect, Zenon
    <3>2. requests'[s].phase = "sent" /\ requests'[s].runs = requests[s].runs /\ requests'[s].todo = rest
          /\ requests'[s].version = version
      BY <1>0, <3>1 DEF Call, Continues
    <3>3. /\ requests[s].phase = "answered" /\ requests[s].answer = "done" /\ requests[s].todo[1].op # "read"
          /\ requests[s].runs /\ UNCHANGED <<saved, confirmed, prompt>>
      BY <1>6, TakeSavedEffect
    <3>4. version <= saved.revision
      BY <3>1, <3>3, Basics DEF Continues, DashInv, CopiesInv, HasCopy, IsCopyOf
    <3>5. ASSUME version = saved.revision
          PROVE  IsHarmless(rest[1], saved, confirmed') /\ RestIsPlain(rest)
      <4>1. CASE rest = <<Read>>
        BY <4>1, SingleSteps
      <4>2. CASE rest # <<Read>>
        <5>1. RestIsPlain(requests[s].todo)
          BY <3>1, <3>3, <3>5, <4>2 DEF Continues, DashInv, StepsInv, StepsOf
        <5>2. \A i \in DOMAIN rest : i \in Nat /\ i >= 1 /\ rest[i].op \notin {"delete", "patch"}
          BY <3>1, <5>1, LenProperties DEF Continues, RestIsPlain
        <5>3. 1 \in DOMAIN rest
          BY <3>1, LenProperties, EmptySeq DEF Continues
        <5>. QED BY <5>2, <5>3 DEF RestIsPlain, IsHarmless
      <4>. QED BY <4>1, <4>2
    <3>. QED BY <3>1, <3>2, <3>3, <3>4, <3>5 DEF GoneOn, Continues
  <2>. QED BY <2>1, <2>2
<1>7. ASSUME TakeConflict(s) PROVE ReadAgain(s) \/ Ended(s)
  <2>1. CASE End(s)
    BY <1>2, <1>7, <2>1, TakeConflictEffect
  <2>2. CASE ~End(s)
    <3>1. /\ requests' = [requests EXCEPT ![s] = [requests[s] EXCEPT !.todo = <<Read>>, !.phase = "sent",
                                                         !.answer = "none", !.version = 0, !.shows = FALSE]]
          /\ reader' = s /\ UNCHANGED busy
      BY <1>7, <2>2, TakeConflictEffect
    <3>2. requests'[s].phase = "sent" /\ requests'[s].runs = requests[s].runs /\ requests'[s].todo = <<Read>>
          /\ requests'[s].version = 0
      BY <1>0, <3>1 DEF Call
    <3>. QED BY <1>7, <3>1, <3>2, TakeConflictEffect DEF ReadAgain
  <2>. QED BY <2>1, <2>2
<1>. QED BY <1>1, <1>3, <1>4, <1>5, <1>6, <1>7

LEMMA RunsStep ==
  ASSUME DashInv, DashNext
  PROVE  RunsInv'
<1>1. RunsInv /\ \A s \in Slots : requests[s].runs \in BOOLEAN
  BY Basics DEF DashInv
<1>2. CASE OtherOperator
  BY <1>1, <1>2, OtherEffect DEF RunsInv
<1>3. CASE IsDialogStep
  BY <1>1, <1>3 DEF IsDialogStep, RunsInv
<1>4. ASSUME NEW s \in Slots,
             IsNewCall(s) \/ Handle(s) \/ TakeList(s) \/ TakePreviews(s) \/ TakeSaved(s) \/ TakeConflict(s)
      PROVE  RunsInv'
  <2>1. \A t \in Slots \ {s} : requests'[t] = requests[t]
    BY <1>4, OneCall
  <2>2. CASE Begun(s)
    BY ZenonT(30), <1>1, <2>1, <2>2 DEF RunsInv, Begun
  <2>3. CASE Answered(s)
    BY <1>1, <2>1, <2>3 DEF RunsInv, Answered
  <2>4. CASE Previewed(s)
    BY <1>1, <2>1, <2>4 DEF RunsInv, Previewed
  <2>5. CASE GoneOn(s)
    <3>1. \A t \in Slots : requests'[t].runs = requests[t].runs
      BY <2>1, <2>5 DEF GoneOn
    <3>2. \A t \in Slots : requests'[t].phase = "previews" => requests[t].phase = "previews"
      BY <2>1, <2>5 DEF GoneOn
    <3>3. \A t \in Slots : requests'[t].phase \in {"sent", "answered"} =>
            requests'[t].todo # <<>> /\ (~requests'[t].runs => requests'[t].todo[1].op = "read")
      BY ZenonT(30), <1>1, <2>1, <2>5 DEF GoneOn, RunsInv
    <3>4. busy' = busy /\ prompt' = prompt
      BY <2>5 DEF GoneOn
    <3>. QED BY <1>1, <3>1, <3>2, <3>3, <3>4 DEF RunsInv
  <2>6. CASE ReadAgain(s)
    BY <1>1, <2>1, <2>6, SingleSteps DEF RunsInv, ReadAgain
  <2>7. CASE Ended(s)
    <3>1. ~requests'[s].runs /\ requests'[s].phase = "idle"
      BY <2>7 DEF Ended, Idle
    <3>. QED BY <1>1, <2>1, <2>7, <3>1 DEF RunsInv, Ended
  <2>. QED BY <1>4, <2>2, <2>3, <2>4, <2>5, <2>6, <2>7, CallCases
<1>. QED BY <1>2, <1>3, <1>4, DashCases

LEMMA ShownStep ==
  ASSUME DashInv, DashNext
  PROVE  ShownInv'
<1>1. ShownInv
  BY DEF DashInv
<1>2. CASE OtherOperator
  BY <1>1, <1>2, OtherEffect DEF ShownInv
<1>3. CASE IsDialogStep
  BY <1>3 DEF IsDialogStep, ShownInv
<1>4. CASE UNCHANGED <<listed, opened, chips, panel>>
  BY <1>1, <1>4 DEF ShownInv
<1>5. ASSUME NEW s \in Slots, IsNewCall(s) \/ Handle(s) \/ TakeConflict(s) PROVE ShownInv'
  <2>1. UNCHANGED <<listed, opened, chips, panel>>
    BY <1>5, HandleEffect, TakeConflictEffect DEF IsNewCall, NewCall
  <2>. QED BY <1>4, <2>1
<1>6. ASSUME NEW list \in Destination, NEW copy \in Destination \cup {Absent}, Show(list, copy),
             copy # Absent => copy.revision <= list.revision
      PROVE  ShownInv'
  BY <1>6, ShowEffect DEF ShownInv
<1>7. ASSUME NEW s \in Slots, TakeList(s) PROVE ShownInv'
  <2> DEFINE list == requests[s].copy
             copy == Followed(opened, list)
  <2>1. list \in Destination /\ list.revision \in Nat
    BY <1>7, TakeListEffect, DashAssumption DEF Destination
  <2>2. copy \in Destination \cup {Absent} /\ (copy # Absent => copy.revision <= list.revision)
    BY <2>1, Basics DEF Followed
  <2>3. Show(list, copy) \/ UNCHANGED <<listed, opened, chips, panel>>
    BY <1>7, TakeListEffect
  <2> HIDE DEF list, copy
  <2>. QED BY <1>4, <1>6, <2>1, <2>2, <2>3
<1>8. ASSUME NEW s \in Slots, TakePreviews(s) PROVE ShownInv'
  <2> DEFINE copy == requests[s].copy
  <2>1. copy \in Destination /\ copy.revision <= listed.revision /\ listed \in Destination
    BY <1>8, TakePreviewsEffect, Basics DEF DashInv, PreviewsInv
  <2>2. Show(listed, copy) \/ UNCHANGED <<listed, opened, chips, panel>>
    BY <1>8, TakePreviewsEffect
  <2> HIDE DEF copy
  <2>. QED BY <1>4, <1>6, <2>1, <2>2
<1>9. ASSUME NEW s \in Slots, TakeSaved(s) PROVE ShownInv'
  <2>1. Show(requests[s].copy, Absent) \/ UNCHANGED <<listed, opened, chips, panel>>
    BY <1>9, TakeSavedEffect DEF Continues
  <2>2. requests[s].copy \in Destination
    BY <1>9, TakeSavedEffect
  <2>. QED BY <1>4, <1>6, <2>1, <2>2
<1>. QED BY <1>2, <1>3, <1>5, <1>7, <1>8, <1>9, DashCases

\* The lists and copies that are shown come from the server.
LEMMA ShownCopies ==
  ASSUME DashInv, DashNext
  PROVE  /\ listed' = listed \/ \E s \in Slots : HasCopy(requests[s]) /\ listed' = requests[s].copy
         /\ \/ opened' \in {opened, Absent, listed, listed'}
            \/ \E s \in Slots : HasCopy(requests[s]) /\ opened' = requests[s].copy
<1>1. CASE OtherOperator
  BY <1>1, OtherEffect
<1>2. CASE IsDialogStep
  BY <1>2 DEF IsDialogStep
<1>3. ASSUME NEW s \in Slots, IsNewCall(s) \/ Handle(s) \/ TakeConflict(s) PROVE UNCHANGED <<listed, opened>>
  BY <1>3, HandleEffect, TakeConflictEffect DEF IsNewCall, NewCall
<1>4. ASSUME NEW s \in Slots, TakeList(s)
      PROVE  /\ listed' = listed \/ (HasCopy(requests[s]) /\ listed' = requests[s].copy)
             /\ opened' \in {opened, Absent, listed, listed'}
  BY <1>4, TakeListEffect DEF Show, Followed, HasCopy
<1>5. ASSUME NEW s \in Slots, TakePreviews(s)
      PROVE  /\ listed' = listed
             /\ opened' = opened \/ (HasCopy(requests[s]) /\ opened' = requests[s].copy)
  BY <1>5, TakePreviewsEffect DEF Show
<1>6. ASSUME NEW s \in Slots, TakeSaved(s)
      PROVE  /\ listed' = listed \/ (HasCopy(requests[s]) /\ listed' = requests[s].copy)
             /\ opened' \in {opened, Absent}
  BY <1>6, TakeSavedEffect DEF Show, Continues, HasCopy
<1>. QED BY <1>1, <1>2, <1>3, <1>4, <1>5, <1>6, DashCases

LEMMA CopiesStep ==
  ASSUME DashInv, DashNext
  PROVE  CopiesInv'
<1>1. /\ CopiesInv /\ saved' \in Destination /\ listed \in Destination
      /\ opened # Absent => opened \in Destination
      /\ prompt # Absent => prompt.from \in Destination
      /\ \A s \in Slots : HasCopy(requests[s]) => requests[s].copy \in Destination /\ requests[s].copy # Absent
  BY Basics, SavedStep DEF DashInv, CopiesInv
<1>2. ASSUME NEW s \in Slots, HasCopy(requests[s]) PROVE IsCopyOf(requests[s].copy, saved')
  BY <1>1, <1>2, CopyKept DEF CopiesInv
<1>3. IsCopyOf(listed, saved') /\ (opened # Absent => IsCopyOf(opened, saved'))
      /\ (prompt # Absent => IsCopyOf(prompt.from, saved'))
  BY <1>1, CopyKept DEF CopiesInv
<1>4. IsCopyOf(saved', saved')
  <2>1. saved'.revision <= saved'.revision
    BY <1>1, DashAssumption DEF Destination
  <2>. QED BY <2>1 DEF IsCopyOf
<1>5. IsCopyOf(listed', saved')
  BY <1>2, <1>3, ShownCopies
<1>6. opened' # Absent => IsCopyOf(opened', saved')
  BY <1>2, <1>3, <1>5, ShownCopies
<1>7. prompt' = prompt \/ prompt' = Absent \/ \E n \in Handles : prompt' = [name |-> n, from |-> listed]
  <2>1. ASSUME NEW s \in Slots, IsNewCall(s) PROVE prompt' = prompt \/ prompt' = Absent
    BY <2>1 DEF IsNewCall, NewCall
  <2>. QED BY <2>1, DashCases, OtherEffect, HandleEffect, TakeListEffect, TakePreviewsEffect, TakeSavedEffect,
              TakeConflictEffect DEF IsDialogStep
<1>8. prompt' # Absent => IsCopyOf(prompt'.from, saved')
  BY <1>3, <1>7
<1>9. ASSUME NEW s \in Slots
      PROVE  /\ HasCopy(requests'[s]) => requests'[s].copy # Absent /\ IsCopyOf(requests'[s].copy, saved')
             /\ requests'[s].phase = "previews" => requests'[s].answer = "done"
  <2>1. CASE requests'[s] = requests[s]
    BY <1>1, <1>2, <2>1 DEF CopiesInv
  <2>2. CASE Begun(s) \/ GoneOn(s) \/ ReadAgain(s)
    BY <2>2 DEF Begun, GoneOn, ReadAgain, HasCopy
  <2>3. CASE Answered(s)
    <3>1. saved' # Absent
      BY <1>1, DashAssumption
    <3>. QED BY <1>4, <2>3, <3>1 DEF Answered, HasCopy
  <2>4. CASE Previewed(s)
    BY <1>1, <1>2, <2>4 DEF Previewed, HasCopy
  <2>5. CASE Ended(s)
    BY <2>5 DEF Ended, Idle, HasCopy
  <2>6. CASE OtherOperator \/ IsDialogStep
    BY <2>1, <2>6, OtherEffect DEF IsDialogStep
  <2>7. ASSUME NEW t \in Slots,
               IsNewCall(t) \/ Handle(t) \/ TakeList(t) \/ TakePreviews(t) \/ TakeSaved(t) \/ TakeConflict(t)
        PROVE  requests'[s] = requests[s] \/ Begun(s) \/ GoneOn(s) \/ ReadAgain(s) \/ Answered(s) \/ Previewed(s) \/ Ended(s)
    <3>1. CASE s = t
      BY <2>7, <3>1, CallCases
    <3>2. CASE s # t
      BY <2>7, <3>2, OneCall
    <3>. QED BY <3>1, <3>2
  <2>. QED BY <2>1, <2>2, <2>3, <2>4, <2>5, <2>6, <2>7, DashCases
<1>. QED BY <1>5, <1>6, <1>8, <1>9 DEF CopiesInv, HasCopy

LEMMA PreviewsStep ==
  ASSUME DashInv, DashNext
  PROVE  PreviewsInv'
<1>1. /\ PreviewsInv /\ RunsInv /\ CopiesInv /\ listed.revision \in Nat
      /\ \A s \in Slots : requests[s].copy # Absent => requests[s].copy.revision \in Nat
  <2>1. \A s \in Slots : requests[s].copy # Absent => requests[s].copy \in Destination
    BY Basics
  <2>. QED BY <2>1, Basics, DashAssumption DEF DashInv, Destination
<1>2. CASE OtherOperator \/ IsDialogStep
  <2>1. UNCHANGED <<requests, listed, reader>>
    BY <1>2, OtherEffect DEF IsDialogStep
  <2>. QED BY <1>1, <2>1 DEF PreviewsInv
<1>3. ASSUME NEW s \in Slots,
             IsNewCall(s) \/ Handle(s) \/ TakeList(s) \/ TakePreviews(s) \/ TakeSaved(s) \/ TakeConflict(s)
      PROVE  PreviewsInv'
  <2>1. \A t \in Slots \ {s} : requests'[t] = requests[t]
    BY <1>3, OneCall
  <2>2. CASE Begun(s) \/ GoneOn(s) \/ ReadAgain(s)
    BY <1>1, <2>1, <2>2, DashAssumption DEF Begun, GoneOn, ReadAgain, PreviewsInv
  <2>3. CASE Answered(s)
    <3>1. ASSUME NEW t \in Slots, requests[t].phase = "previews"
          PROVE  requests[t].copy.revision <= saved.revision /\ requests[t].copy.revision \in Nat
      BY <1>1, <3>1 DEF CopiesInv, HasCopy, IsCopyOf
    <3>2. saved'.revision \in Nat /\ saved.revision <= saved'.revision
      <4>1. saved'.revision \in Nat /\ saved.revision \in Nat
        BY Basics, SavedStep, DashAssumption DEF Destination
      <4>. QED BY <4>1, SavedStep
    <3>3. ASSUME NEW t \in Slots, requests[t].phase = "previews" PROVE requests[t].copy.revision <= saved'.revision
      BY <3>1, <3>2, <3>3, Basics
    <3>. QED BY <1>1, <2>1, <2>3, <3>3 DEF Answered, PreviewsInv
  <2>4. CASE Previewed(s)
    <3>1. TakeList(s)
      BY <1>3, <2>4, CallCases, DashAssumption DEF Previewed, Begun, Answered, Ended, GoneOn, ReadAgain, Idle
    <3>2. listed' = requests[s].copy /\ requests[s].copy \in Destination
      BY <2>4, <3>1, TakeListEffect DEF Previewed, Show
    <3>3. listed'.revision \in Nat /\ listed'.revision <= listed'.revision
      BY <3>2, DashAssumption DEF Destination
    <3>. QED BY <1>1, <2>1, <2>4, <3>2, <3>3 DEF Previewed, PreviewsInv
  <2>5. CASE Ended(s)
    <3>1. \A t \in Slots \ {s} : requests[t].phase = "previews" => requests[t].copy.revision <= listed'.revision
      <4>1. CASE listed' = listed
        BY <1>1, <4>1 DEF PreviewsInv
      <4>2. CASE listed' # listed
        <5>1. TakeList(s) \/ TakeSaved(s)
          BY <1>3, <4>2, HandleEffect, TakeConflictEffect, TakePreviewsEffect DEF IsNewCall, NewCall, Show
        <5>2. CASE TakeList(s)
          BY <1>1, <4>2, <5>2, TakeListEffect DEF Show, PreviewsInv
        <5>3. CASE TakeSaved(s)
          BY <1>1, <5>3, TakeSavedEffect DEF RunsInv
        <5>. QED BY <5>1, <5>2, <5>3
      <4>. QED BY <4>1, <4>2
    <3>2. requests'[s].phase = "idle"
      BY <2>5 DEF Ended, Idle
    <3>3. reader' = reader \/ reader' \notin Slots
      BY <2>5, DashAssumption DEF Ended
    <3>. QED BY <1>1, <2>1, <3>1, <3>2, <3>3 DEF PreviewsInv
  <2>. QED BY <1>3, <2>2, <2>3, <2>4, <2>5, CallCases
<1>. QED BY <1>2, <1>3, DashCases

\* A call stays harmless: what would make it do something else raises the revision.
LEMMA StepsKept ==
  ASSUME DashInv, DashNext, NEW s \in Slots
  PROVE  StepsOf(requests[s], saved', confirmed')
<1> DEFINE x == requests[s]
<1>1. StepsOf(x, saved, confirmed) /\ x.version \in Nat /\ saved.revision \in Nat
  BY Basics, DashAssumption DEF DashInv, StepsInv
<1>2. CASE saved' = saved /\ confirmed \subseteq confirmed'
  BY <1>1, <1>2 DEF StepsOf, IsHarmless
<1>3. CASE saved'.revision = saved.revision + 1
  <2>1. HasCopy(x) => x.copy.revision \in Nat /\ x.copy.revision <= saved.revision
    <3>1. HasCopy(x) => x.copy \in Destination /\ x.copy.revision <= saved.revision
      BY Basics DEF DashInv, CopiesInv, IsCopyOf
    <3>. QED BY <3>1, DashAssumption DEF Destination
  <2>. QED BY <1>1, <1>3, <2>1 DEF StepsOf, HasCopy
<1>. QED BY <1>2, <1>3, SavedStep

LEMMA StepsStep ==
  ASSUME DashInv, DashNext
  PROVE  StepsInv'
<1>1. ASSUME NEW s \in Slots PROVE StepsOf(requests'[s], saved', confirmed')
  <2>1. CASE requests'[s] = requests[s]
    BY <2>1, StepsKept
  <2>2. CASE Begun(s)
    BY <2>2 DEF Begun, StepsOf
  <2>3. CASE GoneOn(s)
    BY <2>3 DEF GoneOn, StepsOf
  <2>4. CASE ReadAgain(s)
    <3>1. 0 <= saved'.revision
      BY <2>4, Basics DEF ReadAgain
    <3>. QED BY <2>4, <3>1, SingleSteps DEF ReadAgain, StepsOf
  <2>5. CASE Answered(s)
    BY <2>5 DEF Answered, StepsOf, DashInv, StepsInv
  <2>6. CASE Previewed(s) \/ Ended(s)
    BY <2>6 DEF Previewed, Ended, Idle, StepsOf
  <2>7. CASE OtherOperator \/ IsDialogStep
    BY <2>1, <2>7, OtherEffect DEF IsDialogStep
  <2>8. ASSUME NEW t \in Slots,
               IsNewCall(t) \/ Handle(t) \/ TakeList(t) \/ TakePreviews(t) \/ TakeSaved(t) \/ TakeConflict(t)
        PROVE  requests'[s] = requests[s] \/ Begun(s) \/ GoneOn(s) \/ ReadAgain(s) \/ Answered(s) \/ Previewed(s) \/ Ended(s)
    <3>1. CASE s = t
      BY <2>8, <3>1, CallCases
    <3>2. CASE s # t
      BY <2>8, <3>2, OneCall
    <3>. QED BY <3>1, <3>2
  <2>. QED BY <2>1, <2>2, <2>3, <2>4, <2>5, <2>6, <2>7, <2>8, DashCases
<1>. QED BY <1>1 DEF StepsInv

LEMMA DashInvInit == DashInit => DashInv
<1> SUFFICES ASSUME DashInit PROVE DashInv
  OBVIOUS
<1>1. saved \in Destination /\ saved.revision = 0
  BY DashAssumption DEF DashInit, Destination
<1>2. requests \in [Slots -> Call] /\ \A s \in Slots : requests[s] = Idle
  BY CallTypes DEF DashInit
<1>3. DashTypeOK
  BY <1>1, <1>2 DEF DashInit, DashTypeOK
<1>4. CopiesInv /\ RunsInv /\ ShownInv /\ PreviewsInv /\ StepsInv
  BY <1>1, <1>2 DEF DashInit, Idle, CopiesInv, IsCopyOf, HasCopy, RunsInv, ShownInv, PreviewsInv, StepsInv, StepsOf
<1>. QED BY <1>3, <1>4 DEF DashInv

LEMMA DashInvStep == DashInv /\ [DashNext]_dashVars => DashInv'
<1> SUFFICES ASSUME DashInv, [DashNext]_dashVars PROVE DashInv'
  OBVIOUS
<1>1. CASE DashNext
  BY <1>1, DashTypeStep, CopiesStep, RunsStep, ShownStep, PreviewsStep, StepsStep DEF DashInv
<1>2. CASE UNCHANGED dashVars
  <2>1. DashTypeOK'
    BY <1>2 DEF dashVars, tabVars, DashInv, DashTypeOK
  <2>2. CopiesInv' /\ RunsInv' /\ ShownInv' /\ PreviewsInv' /\ StepsInv'
    BY <1>2 DEF dashVars, tabVars, DashInv, CopiesInv, RunsInv, ShownInv, PreviewsInv, StepsInv, IsCopyOf, HasCopy
  <2>. QED BY <2>1, <2>2 DEF DashInv
<1>. QED BY <1>1, <1>2

\* Type correctness of the dialog, its copies and its calls.
THEOREM DashTyping == DashSpec => []DashTypeOK
<1>1. DashInv => DashTypeOK
  BY DEF DashInv
<1>. QED BY <1>1, DashInvInit, DashInvStep, PTL DEF DashSpec

\* DELETE and POST of sources from the chips of the dialog: whatever lists, chips and
\* confirmations are stale, and whoever saves besides, a source is taken out of a
\* destination only after an operator confirmed it.
THEOREM SourcesAreKept == DashSpec => SourcesGoOnlyWhenAsked
<1>1. ASSUME DashInv, [DashNext]_dashVars PROVE saved.sources \ saved'.sources \subseteq confirmed'
  <2>1. CASE saved' = saved
    BY <2>1
  <2>2. CASE OtherOperator
    BY <1>1, <2>2, OtherEffect
  <2>3. ASSUME NEW s \in Slots, Handle(s), saved' # saved PROVE saved.sources \ saved'.sources \subseteq confirmed'
    <3>1. IsHarmless(requests[s].todo[1], saved, confirmed)
      BY <1>1, <2>3, HandleEffect DEF DashInv, StepsInv, StepsOf
    <3>. QED BY <1>1, <2>3, <3>1, HandleEffect DEF IsHarmless
  <2>4. saved' = saved \/ OtherOperator \/ \E s \in Slots : Handle(s)
    <3>1. CASE DashNext
      <4>1. ASSUME NEW s \in Slots, IsNewCall(s) PROVE saved' = saved
        BY <4>1 DEF IsNewCall, NewCall
      <4>. QED BY <1>1, <3>1, <4>1, DashCases, TakeListEffect, TakePreviewsEffect, TakeSavedEffect, TakeConflictEffect
               DEF IsDialogStep
    <3>2. CASE UNCHANGED dashVars
      BY <3>2 DEF dashVars
    <3>. QED BY <1>1, <3>1, <3>2
  <2>. QED BY <2>1, <2>2, <2>3, <2>4
<1>. QED BY <1>1, DashInvInit, DashInvStep, PTL DEF DashSpec, SourcesGoOnlyWhenAsked

\* patchSource(): the filters a save of the panel replaces are those its draft began with.
THEOREM FiltersAreNotOverwritten == DashSpec => SavesBuildOnWhatWasShown
<1> DEFINE Kept == \A s \in Slots : LET step == Head(requests[s].todo) IN
                     requests[s].phase = "sent" /\ step.op = "patch" /\ saved' # saved /\ requests'[s].phase = "answered"
                       => \A n \in step.names : step.seen = saved.filters[n]
<1>1. ASSUME DashInv, [DashNext]_dashVars PROVE Kept
  <2>1. ASSUME NEW s \in Slots, requests[s].phase = "sent", Head(requests[s].todo).op = "patch", saved' # saved,
               requests'[s].phase = "answered"
        PROVE  \A n \in Head(requests[s].todo).names : Head(requests[s].todo).seen = saved.filters[n]
    <3>1. DashNext
      BY <1>1, <2>1 DEF dashVars
    <3>2. Handle(s)
      <4>1. ~OtherOperator /\ ~IsDialogStep
        BY <1>1, <2>1, OtherEffect DEF IsDialogStep
      <4>2. PICK t \in Slots : IsNewCall(t) \/ Handle(t) \/ TakeList(t) \/ TakePreviews(t) \/ TakeSaved(t) \/ TakeConflict(t)
        BY <1>1, <3>1, <4>1, DashCases
      <4>3. s = t
        BY <1>1, <2>1, <4>2, OneCall
      <4>4. ASSUME IsNewCall(t) PROVE saved' = saved
        BY <4>4 DEF IsNewCall, NewCall
      <4>. QED BY <1>1, <2>1, <4>2, <4>3, <4>4, TakeListEffect, TakePreviewsEffect, TakeSavedEffect, TakeConflictEffect
    <3>3. requests[s].version = saved.revision
      BY <1>1, <2>1, <3>2, HandleEffect
    <3>4. IsHarmless(requests[s].todo[1], saved, confirmed)
      BY <1>1, <2>1, <3>3 DEF DashInv, StepsInv, StepsOf
    <3>5. Head(requests[s].todo) = requests[s].todo[1]
      BY <1>1, <2>1, Basics, HeadTailProperties DEF DashInv, RunsInv
    <3>. QED BY <2>1, <3>4, <3>5 DEF IsHarmless
  <2>. QED BY <2>1
<1>2. DashInv /\ [DashNext]_dashVars => [Kept]_dashVars
  BY <1>1
<1>. QED BY <1>2, DashInvInit, DashInvStep, PTL DEF DashSpec, SavesBuildOnWhatWasShown
================================================================================
