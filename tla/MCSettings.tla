------------------------------- MODULE MCSettings -------------------------------
(***************************************************************************)
(* What the server keeps of its operators, for TLC side by side: the       *)
(* configuration store, the users, the Bluesky accounts and the transfer   *)
(* of documents share no state in their models, and a behaviour is one of  *)
(* one of them.                                                            *)
(***************************************************************************)
EXTENDS ConfigStore, UserSessions, BlueskyAccounts, ConfigTransfer
CONSTANTS node, c1, c2, c3, u1, u2, n1, n2, w1, w2, q1, q2, a1, a2, m1, m2, did1, did2, s1, s2,
          x1, x2, h1, p1, p2, k1
VARIABLE active

OneServer  == [c \in Callers |-> node]
OneSource  == [p \in Posts |-> s1]
OneAccount == [a \in Accounts |-> IF a = a1 THEN did1 ELSE Absent]

\* Legacy documents: two accounts; one account with and without its DID; one account
\* twice, with and without a conflict of routes; and a document of the schema before
\* there were accounts.
Listed(i, p, did, names, paused, lead) ==
  [id |-> i, who |-> p, did |-> did, secret |-> k1, policy |-> FALSE, link |-> None,
   names |-> names, paused |-> paused, lead |-> lead]
List(v, m, n) == [version |-> v, mappings |-> <<m, n>>]

FirstDocuments ==
  {List(1, Listed(0, p1, TRUE, {x1}, {x1}, None), Listed(1, p2, FALSE, {x1, x2}, {}, None)),
   List(2, Listed(0, p1, FALSE, {x1, x2}, {x1}, x2), Listed(1, p1, TRUE, {x2}, {}, None))}
  \cup {List(2, Listed(0, p1, TRUE, {x1}, {x1}, None), Listed(1, p1, TRUE, names, {}, None)) : names \in {{x1}, {x2}}}
  \cup {[Merged(Projected(List(2, Listed(4, p1, TRUE, {x1, x2}, {x1}, x2), Listed(5, p2, FALSE, {x2}, {}, None))))
          EXCEPT !.version = 6]}

\* Documents of another installation: a list, and a redacted export with ids of its own.
Foreign == Migrated([version |-> 2, mappings |-> <<Listed(2, p1, TRUE, {x1}, {}, None)>>], 3)
WithRandomIds(d) ==
  [d EXCEPT !.sources = {[s EXCEPT !.id = 3] : s \in @}, !.routes = {[r EXCEPT !.source = 3] : r \in @}]
OtherDocuments ==
  {Redacted(WithRandomIds(Foreign)), [version |-> 2, mappings |-> <<Listed(1, p1, TRUE, {x1, x2}, {}, None)>>]}

settingsVars == <<active, storeVars, userVars, accountVars, transferVars>>

\* The parts that are not active have one initial state.
SettingsInit ==
  /\ active \in {"store", "users", "accounts", "transfer"}
  /\ StoreInit /\ UsersInit /\ AccountsInit /\ TransferInit
  /\ active # "users" => users = [u \in Users |-> NoUser]
  /\ active # "transfer" => held = None /\ document = CHOOSE d \in FirstDocuments : TRUE

SettingsNext ==
  /\ UNCHANGED active
  /\ \/ /\ active = "store" /\ StoreNext
        /\ UNCHANGED <<userVars, accountVars, transferVars>>
     \/ /\ active = "users" /\ UsersNext
        /\ UNCHANGED <<storeVars, accountVars, transferVars>>
     \/ /\ active = "accounts" /\ AccountsNext
        /\ UNCHANGED <<storeVars, userVars, transferVars>>
     \/ /\ active = "transfer" /\ TransferNext
        /\ UNCHANGED <<storeVars, userVars, accountVars>>

SettingsSpec == SettingsInit /\ [][SettingsNext]_settingsVars

\* The type invariants of the four.
SettingsTypeOK ==
  /\ active = "store" => StoreTypeOK
  /\ active = "users" => UsersTypeOK
  /\ active = "accounts" => AccountsTypeOK
  /\ active = "transfer" => TransferTypeOK

\* Where there were users of an earlier release, whose tokens have no id, two changes
\* are made or under way.
UserChanges == usersRevision + Cardinality({q \in Handlers : request[q] # NoRequest})

FewAtOnce ==
  /\ UserChanges > 2 => \A t \in sessions : t.name = Unset
  /\ saves + blocks[a1].revision + blocks[a2].revision <= 3
  /\ ~IsMappingList(document) => /\ Len(document.destinations) <= 2 /\ Cardinality(document.accounts) <= 2
                                 /\ Cardinality(document.routes) <= 3

Alike == Permutations(Users) \cup Permutations(Names) \cup Permutations(Secrets) \cup Permutations(Handlers)
================================================================================
