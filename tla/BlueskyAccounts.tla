---------------------------- MODULE BlueskyAccounts ----------------------------
(***************************************************************************)
(* Managed Bluesky accounts, the destinations (mappings) linked to them,   *)
(* what feeds these, and the keys under which they keep queue and history  *)
(* (src/src/services/bluesky-account-service.ts and its router, the        *)
(* destination handlers of src/src/server.ts, bluesky-mutation-guard.ts,   *)
(* and the tables in src/src/db.ts).                                       *)
(*                                                                         *)
(* An account stands for its credentials, which a login resolves to a DID. *)
(* A mapping stores its history under the DID of the account it was made   *)
(* with (storageKey) and also finds what is under the DID it has now       *)
(* (historyIdentityKeys).  Handlers that validate credentials await them   *)
(* between loading and saving the configuration; the others are one step.  *)
(***************************************************************************)
EXTENDS Naturals, FiniteSets

CONSTANTS Accounts, Mappings, Sources, Posts,
          Dids,
          SourceOf,        \* the source of a post
          FirstDids,       \* the accounts there are at first
          Absent,          \* no account, no mapping, no DID
          Calls,           \* slots for handlers that await
          MaxSaves, MaxEvidence   \* bounds

ASSUME AccountsAssumption ==
  /\ SourceOf \in [Posts -> Sources] /\ FirstDids \in [Accounts -> Dids \cup {Absent}]
  /\ Absent \notin Accounts \cup Mappings \cup Dids /\ Accounts \cap Mappings = {}
  /\ MaxSaves \in Nat /\ MaxEvidence \in Nat

VARIABLES appConfig,     \* blueskyAccounts, destinations and routes
          saves,         \* its revision
          retired,       \* ids that were deleted: a new one is never the same
          processed,     \* processed_tweets: posts by key
          queued,        \* post_queue
          blocks,        \* bluesky_account_blocks
          call,          \* handlers behind an await
          undisputed,    \* history: calls whose account is as they found it
          mirrored,      \* history: how often a post was published for a mapping
          crossed        \* history: mappings whose key is of another mapping as well

tables == <<processed, queued>>
accountVars == <<appConfig, saves, retired, tables, blocks, call, undisputed, mirrored, crossed>>
--------------------------------------------------------------------------------
AppConfig == [did : [Accounts -> Dids \cup {Absent}],          \* accounts by DID
              link : [Mappings -> Accounts \cup {Absent}],     \* destination.bskyAccountId
              key : [Mappings -> Dids \cup {Absent}],          \* destination.storageKey
              feeds : [Mappings -> SUBSET Sources]]            \* routes

QueueRow == [post : Posts, mapping : Mappings, key : Dids]
CallKinds == {"none", "createAccount", "validate", "rotate", "resume", "createMapping", "credentials"}
CallState == [kind : CallKinds, account : Accounts \cup {Absent}, mapping : Mappings \cup {Absent},
              did : Dids \cup {Absent}, held : AppConfig, revision : 0 .. MaxSaves, seen : 0 .. MaxEvidence + 1]

AccountsTypeOK ==
  /\ appConfig \in AppConfig /\ saves \in 0 .. MaxSaves
  /\ retired \subseteq Accounts \cup Mappings
  /\ processed \in [Dids -> SUBSET Posts] /\ queued \subseteq QueueRow
  /\ blocks \in [Accounts -> [blocked : BOOLEAN, revision : 0 .. MaxEvidence + 1]]
  /\ call \in [Calls -> CallState] /\ undisputed \subseteq Calls
  /\ mirrored \in [Mappings -> [Posts -> 0 .. 2]] /\ crossed \subseteq Mappings

FirstConfig == [did |-> FirstDids, link |-> [m \in Mappings |-> Absent],
                key |-> [m \in Mappings |-> Absent], feeds |-> [m \in Mappings |-> {}]]
NoCall == [kind |-> "none", account |-> Absent, mapping |-> Absent, did |-> Absent,
           held |-> FirstConfig, revision |-> 0, seen |-> 0]

AccountsInit ==
  /\ appConfig = FirstConfig /\ saves = 0 /\ retired = {}
  /\ processed = [k \in Dids |-> {}] /\ queued = {}
  /\ blocks = [a \in Accounts |-> [blocked |-> FALSE, revision |-> 0]]
  /\ call = [q \in Calls |-> NoCall] /\ undisputed = {}
  /\ mirrored = [m \in Mappings |-> [p \in Posts |-> 0]] /\ crossed = {}
--------------------------------------------------------------------------------
IsAccount(document, a) == document.did[a] # Absent
IsMapping(document, m) == document.link[m] # Absent
IsLinked(document, a) == \E m \in Mappings : document.link[m] = a
DidOf(document, m) == document.did[document.link[m]]

\* assertValidAppConfig(): what every save checks.
IsValidConfig(document) ==
  /\ \A m \in Mappings : IsMapping(document, m) => IsAccount(document, document.link[m])
  /\ \A m, n \in Mappings : IsMapping(document, m) /\ document.link[m] = document.link[n] => m = n
  /\ \A a, b \in Accounts : IsAccount(document, a) /\ document.did[a] = document.did[b] => a = b

\* findBlueskyAccountByIdentity().
IsKnownDid(document, did, a) == \E b \in Accounts \ {a} : document.did[b] = did

\* A mutation: the present identity alone.
PresentKeyOnly(document, m) == {DidOf(document, m)}

\* historyIdentityKeys().
HistoryKeys(document, m) == {document.key[m], DidOf(document, m)}

\* loadProcessedTweetsForDestination() and findProcessedTweetDual().
Known(m) == UNION {processed[k] : k \in HistoryKeys(appConfig, m)}

\* rekeyDestinationIdentity(), for a set of former keys: rows that are there under
\* the new key already are dropped.
Rekey(D, k) ==
  /\ processed' = [d \in Dids |-> IF d = k THEN UNION {processed[x] : x \in D \cup {k}}
                                  ELSE IF d \in D THEN {} ELSE processed[d]]
  /\ queued' = {r \in queued : r.key \notin D} \cup
               {[r EXCEPT !.key = k] : r \in {x \in queued : x.key \in D /\ \A y \in queued : y.post = x.post => y.key # k}}

\* rekeyLinkedDestinationIdentity(): an account that is not linked has no rows.
RekeyAccount(document, a, did) ==
  IF ~IsLinked(document, a) THEN UNCHANGED tables
  ELSE LET m == CHOOSE m \in Mappings : document.link[m] = a IN
       Rekey((HistoryKeys(document, m) \cup {did}) \ {document.key[m]}, document.key[m])
--------------------------------------------------------------------------------
(***************************************************************************)
(* Saving and awaiting.                                                    *)
(***************************************************************************)
\* Calls lose their standing when their account gets other credentials or goes.
StillUndisputed(document) == {q \in undisputed : document.did[call[q].account] = appConfig.did[call[q].account]}

IsCrossed(document, m) ==
  IsMapping(document, m) /\ \E n \in Mappings \ {m} :
    IsMapping(document, n) /\ document.key[m] \in HistoryKeys(document, n)

Put(document) ==
  /\ appConfig' = document /\ saves' = saves + 1
  /\ crossed' = crossed \cup {m \in Mappings : IsCrossed(document, m)}

\* A handler without an await.
Save(document) == saves < MaxSaves /\ IsValidConfig(document) /\ Put(document) /\ undisputed' = StillUndisputed(document)

Hold(q, x) ==
  /\ call[q] = NoCall /\ saves < MaxSaves
  /\ call' = [call EXCEPT ![q] = [x EXCEPT !.held = appConfig, !.revision = saves]]
  /\ undisputed' = IF x.account = Absent THEN undisputed ELSE undisputed \cup {q}
  /\ UNCHANGED <<appConfig, saves, retired, tables, blocks, mirrored, crossed>>

Reply(q) == call' = [call EXCEPT ![q] = NoCall]

\* Credentials are refused, or what they resolve to is.
Reject(q) ==
  /\ call[q].kind # "none" /\ Reply(q) /\ undisputed' = undisputed \ {q}
  /\ UNCHANGED <<appConfig, saves, retired, tables, blocks, mirrored, crossed>>

\* persistWithRevisionSwap().
IsCurrent(q) == call[q].revision = saves

\* The rest of a handler: the document it held, changed, is saved or it is answered
\* with a conflict or an error.
Finish(q, document, a, did) ==
  /\ Reply(q)
  /\ IF IsCurrent(q) /\ IsValidConfig(document) /\ saves < MaxSaves
     THEN Put(document) /\ undisputed' = StillUndisputed(document) \ {q} /\ RekeyAccount(document, a, did)
     ELSE UNCHANGED <<appConfig, saves, tables, crossed>> /\ undisputed' = undisputed \ {q}
  /\ UNCHANGED <<retired, blocks, mirrored>>
--------------------------------------------------------------------------------
(***************************************************************************)
(* Accounts.                                                               *)
(***************************************************************************)
IsUnused(a) == a \notin retired /\ ~IsAccount(appConfig, a) /\ \A q \in Calls : call[q].account # a

\* POST /api/bluesky-accounts.
CreateAccount(q, a, did) ==
  IsUnused(a) /\ Hold(q, [NoCall EXCEPT !.kind = "createAccount", !.account = a, !.did = did])

AccountCreated(q) ==
  LET x == call[q] IN
  /\ x.kind = "createAccount" /\ ~IsKnownDid(x.held, x.did, x.account)
  /\ Finish(q, [x.held EXCEPT !.did[x.account] = x.did], x.account, x.did)

\* POST /api/bluesky-accounts/:id/validate and PATCH .../credentials: an account that is
\* linked keeps its DID.
ValidateAccount(q, a, kind, did) ==
  /\ kind \in {"validate", "rotate"} /\ IsAccount(appConfig, a)
  /\ Hold(q, [NoCall EXCEPT !.kind = kind, !.account = a, !.did = did])

AccountValidated(q) ==
  LET x == call[q] IN
  /\ x.kind \in {"validate", "rotate"}
  /\ IsLinked(x.held, x.account) => x.did = x.held.did[x.account]
  /\ x.kind = "rotate" => ~IsKnownDid(x.held, x.did, x.account)
  /\ Finish(q, [x.held EXCEPT !.did[x.account] = x.did], x.account, x.did)

\* DELETE /api/bluesky-accounts/:id.
DeleteAccount(a) ==
  /\ IsAccount(appConfig, a) /\ ~IsLinked(appConfig, a)
  /\ Save([appConfig EXCEPT !.did[a] = Absent]) /\ retired' = retired \cup {a}
  /\ UNCHANGED <<tables, blocks, call, mirrored>>

\* blueskyAccountRuntimeService.block() and resume().
Blocked(block) == [blocked |-> TRUE, revision |-> block.revision + 1]
Resumed(block) == [blocked |-> FALSE, revision |-> block.revision + 1]

\* managedBlueskyFetch(): a response, of a request of whatever age, says that the account
\* is taken down.
EvidenceOfTakedown(a) ==
  /\ IsAccount(appConfig, a) /\ blocks[a].revision < MaxEvidence
  /\ blocks' = [blocks EXCEPT ![a] = Blocked(@)]
  /\ undisputed' = {q \in undisputed : call[q].account # a}
  /\ UNCHANGED <<appConfig, saves, retired, tables, call, mirrored, crossed>>

\* POST /api/bluesky-accounts/:id/resume.
ResumeAccount(q, a) ==
  /\ IsAccount(appConfig, a) /\ blocks[a].blocked
  /\ Hold(q, [NoCall EXCEPT !.kind = "resume", !.account = a, !.did = appConfig.did[a], !.seen = blocks[a].revision])

\* Mutation: resume() of any block.
IsStillBlocked(q) == blocks[call[q].account].blocked

\* blueskyAccountRuntimeService.resume().
IsSameBlock(q) == blocks[call[q].account].blocked /\ blocks[call[q].account].revision = call[q].seen

AccountResumed(q) ==
  LET x == call[q] IN
  /\ x.kind = "resume" /\ Reply(q) /\ undisputed' = undisputed \ {q}
  /\ blocks' = IF IsCurrent(q) /\ IsSameBlock(q)
               THEN [blocks EXCEPT ![x.account] = Resumed(@)] ELSE blocks
  /\ UNCHANGED <<appConfig, saves, retired, tables, mirrored, crossed>>
--------------------------------------------------------------------------------
(***************************************************************************)
(* Destinations and what feeds them.                                       *)
(***************************************************************************)
WithMapping(document, m, a, did, feeds) ==
  [document EXCEPT !.did[a] = did, !.link[m] = a, !.key[m] = did, !.feeds[m] = feeds]

WithoutMapping(document, m) == [document EXCEPT !.link[m] = Absent, !.key[m] = Absent, !.feeds[m] = {}]

IsNewMapping(m) == m \notin retired /\ ~IsMapping(appConfig, m) /\ \A q \in Calls : call[q].mapping # m

\* POST /api/destinations with an account that nothing is linked to ...
CreateMapping(m, a, feeds) ==
  /\ IsNewMapping(m) /\ IsAccount(appConfig, a) /\ ~IsLinked(appConfig, a) /\ feeds # {}
  /\ Save(WithMapping(appConfig, m, a, appConfig.did[a], feeds))
  /\ UNCHANGED <<retired, tables, blocks, call, mirrored>>

\* ... and with credentials, of which an account is made.
CreateMappingAndAccount(q, m, a, did) ==
  /\ IsNewMapping(m) /\ IsUnused(a)
  /\ Hold(q, [NoCall EXCEPT !.kind = "createMapping", !.account = a, !.mapping = m, !.did = did])

MappingCreated(q, feeds) ==
  LET x == call[q] IN
  /\ x.kind = "createMapping" /\ ~IsKnownDid(x.held, x.did, x.account) /\ feeds # {}
  /\ Finish(q, WithMapping(x.held, x.mapping, x.account, x.did, feeds), x.account, x.did)

\* PATCH /api/destinations/:id/bluesky-account: the key stays.
LinkAccount(m, a) ==
  /\ IsMapping(appConfig, m) /\ IsAccount(appConfig, a) /\ ~IsLinked(appConfig, a)
  /\ Save([appConfig EXCEPT !.link[m] = a])
  /\ UNCHANGED <<retired, tables, blocks, call, mirrored>>

\* PATCH /api/destinations/:id/credentials: a linked mapping has the identity of its
\* account again when it is loaded, so what stays is the rekeying.
PatchCredentials(q, m, did) ==
  /\ IsMapping(appConfig, m)
  /\ Hold(q, [NoCall EXCEPT !.kind = "credentials", !.mapping = m, !.account = appConfig.link[m], !.did = did])

CredentialsPatched(q) ==
  LET x == call[q] IN
  /\ x.kind = "credentials"
  /\ \A n \in Mappings \ {x.mapping} : IsMapping(x.held, n) => DidOf(x.held, n) # x.did
  /\ Finish(q, x.held, x.account, x.held.did[x.account])

\* PUT /api/destinations/:id and the other handlers that change policies, groups, owners
\* and states: the revision is another.
EditMapping(m) ==
  /\ IsMapping(appConfig, m) /\ Save(appConfig)
  /\ UNCHANGED <<retired, tables, blocks, call, mirrored>>

\* DELETE /api/mappings/:id.  History stays.
DeleteMapping(m) ==
  /\ IsMapping(appConfig, m)
  /\ queued' = {r \in queued : r.mapping # m}
  /\ Save(WithoutMapping(appConfig, m)) /\ retired' = retired \cup {m}
  /\ UNCHANGED <<processed, blocks, call, mirrored>>

\* POST /api/destinations/:id/sources, /api/sources and /api/sources/:id/routes.
AddSource(m, s) ==
  /\ IsMapping(appConfig, m) /\ s \notin appConfig.feeds[m]
  /\ Save([appConfig EXCEPT !.feeds[m] = @ \cup {s}])
  /\ UNCHANGED <<retired, tables, blocks, call, mirrored>>

From(s) == {p \in Posts : SourceOf[p] = s}

\* DELETE /api/destinations/:id/sources/:username and /api/routes/:id, with or without what
\* is queued and what was mirrored.
RemoveSource(m, s, cancel, forget) ==
  /\ IsMapping(appConfig, m) /\ s \in appConfig.feeds[m] /\ Cardinality(appConfig.feeds[m]) > 1
  /\ queued' = IF cancel THEN {r \in queued : ~(r.mapping = m /\ r.post \in From(s))} ELSE queued
  /\ processed' = IF forget THEN [k \in Dids |-> IF k \in HistoryKeys(appConfig, m) THEN processed[k] \ From(s) ELSE processed[k]]
                  ELSE processed
  /\ mirrored' = IF forget THEN [mirrored EXCEPT ![m] = [p \in Posts |-> IF p \in From(s) THEN 0 ELSE @[p]]] ELSE mirrored
  /\ Save([appConfig EXCEPT !.feeds[m] = @ \ {s}])
  /\ UNCHANGED <<retired, blocks, call>>

\* DELETE /api/sources/:id.
DeleteSource(s) ==
  /\ queued' = {r \in queued : r.post \notin From(s)}
  /\ Save([appConfig EXCEPT !.feeds = [m \in Mappings |-> @[m] \ {s}]])
  /\ UNCHANGED <<retired, processed, blocks, call, mirrored>>
--------------------------------------------------------------------------------
(***************************************************************************)
(* The pipeline.                                                           *)
(***************************************************************************)
\* A sweep queues what is not known under one of the keys; INSERT OR IGNORE under
\* the key stored, once per mapping and once per key.
QueuePost(m, p) ==
  /\ IsMapping(appConfig, m) /\ SourceOf[p] \in appConfig.feeds[m] /\ p \notin Known(m)
  /\ \A r \in queued : r.post = p => r.mapping # m /\ r.key # appConfig.key[m]
  /\ queued' = queued \cup {[post |-> p, mapping |-> m, key |-> appConfig.key[m]]}
  /\ UNCHANGED <<appConfig, saves, retired, processed, blocks, call, undisputed, mirrored, crossed>>

\* A row of an account that is not blocked is delivered, unless its post is known.
DeliverPost(r) ==
  LET m == r.mapping IN
  /\ IsMapping(appConfig, m) /\ ~blocks[appConfig.link[m]].blocked
  /\ queued' = queued \ {r}
  /\ IF r.post \in Known(m) THEN UNCHANGED <<processed, mirrored>>
     ELSE /\ processed' = [processed EXCEPT ![appConfig.key[m]] = @ \cup {r.post}]
          /\ mirrored' = [mirrored EXCEPT ![m][r.post] = IF @ < 2 THEN @ + 1 ELSE @]
  /\ UNCHANGED <<appConfig, saves, retired, blocks, call, undisputed, crossed>>
--------------------------------------------------------------------------------
AccountHandler(a) ==
  \/ DeleteAccount(a) \/ EvidenceOfTakedown(a)
  \/ \E q \in Calls : ResumeAccount(q, a) \/ \E d \in Dids :
       \/ CreateAccount(q, a, d)
       \/ \E k \in {"validate", "rotate"} : ValidateAccount(q, a, k, d)
       \/ \E m \in Mappings : CreateMappingAndAccount(q, m, a, d)

MappingHandler(m) ==
  \/ \E a \in Accounts : LinkAccount(m, a) \/ \E S \in SUBSET Sources : CreateMapping(m, a, S)
  \/ \E q \in Calls, d \in Dids : PatchCredentials(q, m, d)
  \/ EditMapping(m) \/ DeleteMapping(m)
  \/ \E s \in Sources : AddSource(m, s) \/ \E cancel, forget \in BOOLEAN : RemoveSource(m, s, cancel, forget)

Resumption(q) ==
  \/ AccountCreated(q) \/ AccountValidated(q) \/ AccountResumed(q) \/ CredentialsPatched(q) \/ Reject(q)
  \/ \E S \in SUBSET Sources : MappingCreated(q, S)

AccountsNext ==
  \/ \E a \in Accounts : AccountHandler(a)
  \/ \E m \in Mappings : MappingHandler(m) \/ \E p \in Posts : QueuePost(m, p)
  \/ \E q \in Calls : Resumption(q)
  \/ \E s \in Sources : DeleteSource(s)
  \/ \E r \in queued : DeliverPost(r)

AccountsSpec == AccountsInit /\ [][AccountsNext]_accountVars
--------------------------------------------------------------------------------
(***************************************************************************)
(* Properties.                                                             *)
(***************************************************************************)
\* A block is lifted only by a validation that began after the last sign of a takedown,
\* of the credentials the account has still.
OnlyNewValidationsLiftBlocks ==
  [][\A a \in Accounts : blocks[a].blocked /\ ~blocks'[a].blocked =>
       \E q \in undisputed : call[q].kind = "resume" /\ call[q].account = a]_accountVars

\* A destination that shares its key with no other publishes a post once, whichever
\* accounts it is linked to and however these are validated in between.
PostsAreMirroredOnce == \A m \in Mappings \ crossed, p \in Posts : mirrored[m][p] <= 1

================================================================================
