---------------------------- MODULE ConfigTransfer -----------------------------
(***************************************************************************)
(* The configuration document: the ladder that brings a document of any    *)
(* schema to the present one (src/src/config/migrations.ts), its reading   *)
(* and validation (normalize.ts), the mappings projected from it and back  *)
(* (projection.ts), and exports and imports of it (transfer.ts, with the   *)
(* handlers of src/src/server.ts that save what they make of it).          *)
(*                                                                         *)
(* "who" is the account a handle or DID stands for, "did" whether the      *)
(* document has the DID, "policy" everything else a conflict is made of.   *)
(* X names make ids of their own; other ids are random and taken from a    *)
(* counter.  Queue rows, which are not modelled here, name a destination   *)
(* by id, history by key.                                                  *)
(***************************************************************************)
EXTENDS Naturals, FiniteSets, SequencesExt

CONSTANTS XNames, HookNames,     \* sources on X, and webhook or API sources
          People,                \* Bluesky accounts
          AppPasswords, None,         \* app passwords, and no value
          LegacyDocuments,       \* what may be on disk at first
          ForeignDocuments,      \* what an operator may have been given
          FirstFresh, MaxFresh   \* random ids: the first that is in none of these, and a bound

ASSUME TransferAssumption ==
  /\ None \notin AppPasswords \cup XNames \cup HookNames \cup Nat /\ XNames \cap HookNames = {}
  /\ MaxFresh \in Nat /\ FirstFresh \in 0 .. MaxFresh

VARIABLES document,      \* config.json
          held,          \* an export in the operator's hands, or None
          fresh          \* the next random id

transferVars == <<document, held, fresh>>
--------------------------------------------------------------------------------
Ids == 0 .. MaxFresh
SourceNames == XNames \cup HookNames

\* Entries as normalizeMapping() and the other readers leave them.
Mapping == [id : Ids, who : People, did : BOOLEAN, secret : AppPasswords \cup {None}, policy : BOOLEAN,
            link : Ids \cup {None}, names : SUBSET XNames, paused : SUBSET XNames, lead : XNames \cup {None}]
Source == [id : Ids \cup XNames, name : SourceNames]
Destination == [id : Ids, who : People, did : BOOLEAN, key : People \X BOOLEAN, secret : AppPasswords \cup {None},
                policy : BOOLEAN, link : Ids \cup {None}, legacy : SUBSET Ids]
Route == [source : Ids \cup XNames, destination : Ids, paused : BOOLEAN, lead : BOOLEAN,
          mode : {"inherit", "recent", "new-only"}]
BlueskyAccount == [id : Ids, who : People, did : BOOLEAN, secret : AppPasswords \cup {None}]

\* Documents of the first schemas are lists of mappings.
MappingList == [version : 0 .. 2, mappings : Seq(Mapping)]
Canonical == [version : 3 .. 8, sources : SUBSET Source, destinations : Seq(Destination),
              routes : SUBSET Route, accounts : SUBSET BlueskyAccount]

IsMappingList(d) == d.version < 3
IsDocument(d) == d \in MappingList \/ d \in Canonical

TransferTypeOK ==
  /\ IsDocument(document) /\ (held # None => IsDocument(held))
  /\ fresh \in 0 .. MaxFresh + 1
--------------------------------------------------------------------------------
(***************************************************************************)
(* Projections.                                                            *)
(***************************************************************************)
Only(S) == CHOOSE x \in S : TRUE

\* destinationIdentity() and blueskyAccountIdentity(): by DID if there is one.
Identity(x) == <<x.who, x.did>>

\* getDestinationStorageKey().
StorageKey(x) == <<x.who, x.did>>

AccountOf(d, x) == {a \in d.accounts : a.id = x.link}
XSources(d) == {s \in d.sources : s.name \in XNames}
RoutesTo(d, x) == {r \in d.routes : r.destination = x.id /\ \E s \in XSources(d) : s.id = r.source}
NamesOf(d, R) == {s.name : s \in {s \in XSources(d) : \E r \in R : r.source = s.id}}

Leads(d, x) == NamesOf(d, {r \in RoutesTo(d, x) : r.lead})

\* projectAccountMappings(): what a destination shows of its account is the account's.
ProjectedMapping(d, x) ==
  LET a == IF AccountOf(d, x) = {} THEN x ELSE Only(AccountOf(d, x)) IN
  [id |-> x.id, who |-> a.who, did |-> a.did, secret |-> a.secret, policy |-> x.policy, link |-> x.link,
   names |-> NamesOf(d, RoutesTo(d, x)), paused |-> NamesOf(d, {r \in RoutesTo(d, x) : r.paused}),
   lead |-> IF Leads(d, x) = {} THEN None ELSE Only(Leads(d, x))]

ProjectedMappings(d) == [i \in DOMAIN d.destinations |-> ProjectedMapping(d, d.destinations[i])]

\* mappingToDestination(): ids, keys and former ids stay; a link leaves no inline password.
DestinationOf(d, m) ==
  LET old == {x \in ToSet(d.destinations) : x.id = m.id} IN
  [id |-> m.id, who |-> m.who, did |-> m.did, policy |-> m.policy, link |-> m.link,
   secret |-> IF m.link = None THEN m.secret ELSE None,
   key |-> IF old = {} THEN StorageKey(m) ELSE Only(old).key,
   legacy |-> IF old = {} THEN {m.id} ELSE Only(old).legacy]

\* applyMappingProjection(): X sources are those of the mappings, the rest stay.
SourceFor(d, n) ==
  IF \E s \in d.sources : s.name = n THEN Only({s \in d.sources : s.name = n}) ELSE [id |-> n, name |-> n]

RouteFor(d, m, n) ==
  LET old == {r \in d.routes : r.source = SourceFor(d, n).id /\ r.destination = m.id} IN
  [source |-> SourceFor(d, n).id, destination |-> m.id, paused |-> n \in m.paused, lead |-> n = m.lead,
   mode |-> IF old = {} THEN "inherit" ELSE Only(old).mode]

WithMappings(d, ms) ==
  LET hooks == d.sources \ XSources(d) IN
  [d EXCEPT !.sources = hooks \cup {SourceFor(d, n) : n \in UNION {m.names : m \in ToSet(ms)}},
            !.destinations = [i \in DOMAIN ms |-> DestinationOf(d, ms[i])],
            !.routes = {r \in d.routes : \E s \in hooks : s.id = r.source}
                       \cup UNION {{RouteFor(d, m, n) : n \in m.names} : m \in ToSet(ms)}]

\* saveConfig() of a document whose mappings were not touched.
Saved(d) == WithMappings(d, ProjectedMappings(d))
--------------------------------------------------------------------------------
(***************************************************************************)
(* Reading, validation, and the ladder.                                    *)
(***************************************************************************)
\* assertValidAppConfig().
IsValidDocument(d) ==
  LET D == d.destinations IN
  /\ \A s, t \in d.sources : s.id = t.id \/ s.name = t.name => s = t
  /\ \A a, b \in d.accounts : a.id = b.id \/ Identity(a) = Identity(b) => a = b
  /\ \A i, j \in DOMAIN D : D[i].id = D[j].id \/ Identity(D[i]) = Identity(D[j]) => i = j
  /\ \A x \in ToSet(D) : IF x.link = None THEN x.secret # None ELSE AccountOf(d, x) # {}
  /\ \A x, y \in ToSet(D) : x.link # None /\ x.link = y.link => x = y
  /\ \A r, q \in d.routes : r.source = q.source /\ r.destination = q.destination => r = q
  /\ \A r \in d.routes : (\E s \in d.sources : s.id = r.source) /\ (\E x \in ToSet(D) : x.id = r.destination)

\* normalizeDestinationMetadata(): a destination that names no former id is its own.
ReadDestination(x) == [x EXCEPT !.legacy = IF @ = {} THEN {x.id} ELSE @]

\* normalizeConfigV3().
Normalized(d) == [d EXCEPT !.destinations = [i \in DOMAIN d.destinations |-> ReadDestination(d.destinations[i])]]

\* migrateV1ToV2(): a scheduled profile sync goes on where there is one source.
LeadOfOne(names) == IF \E n \in names : names = {n} THEN Only(names) ELSE None
V1ToV2(d) ==
  [d EXCEPT !.version = 2,
            !.mappings = [i \in DOMAIN d.mappings |-> [d.mappings[i] EXCEPT !.lead = LeadOfOne(d.mappings[i].names)]]]

\* normalizeMapping().
ReadMapping(m) ==
  [m EXCEPT !.paused = @ \cap m.names, !.lead = IF @ \in m.names \cup {None} THEN @ ELSE LeadOfOne(m.names)]

EmptyDocument ==
  [version |-> 3, sources |-> {}, destinations |-> <<>>, routes |-> {}, accounts |-> {}]

\* normalizeConfigV2(): the mappings projected onto an empty document.
Projected(d) == WithMappings(EmptyDocument, [i \in DOMAIN d.mappings |-> ReadMapping(d.mappings[i])])

\* migrateV2ToV3(): destinations of one identity become the first of them, unless
\* they or their routes differ.
FirstAlike(D, x) == Min({i \in DOMAIN D : Identity(D[i]) = Identity(x)})
MovedRoute(D, r) == [r EXCEPT !.destination = D[FirstAlike(D, Only({x \in ToSet(D) : x.id = r.destination}))].id]

IsConflicting(d) ==
  LET D == d.destinations IN
  \/ \E x, y \in ToSet(D) : /\ Identity(x) = Identity(y)
                           /\ \/ x.secret # y.secret \/ x.policy # y.policy
                              \/ Leads(d, x) # Leads(d, y)
  \/ \E r, q \in {MovedRoute(D, r) : r \in d.routes} : r # q /\ r.source = q.source /\ r.destination = q.destination

\* The elements of s at some of its places, in their order.
Picked(s, J) == [k \in 1 .. Cardinality(J) |-> s[CHOOSE i \in J : Cardinality({j \in J : j <= i}) = k]]

MergedDestinations(D) ==
  Picked([i \in DOMAIN D |->
            [D[i] EXCEPT !.legacy = UNION {y.legacy : y \in {y \in ToSet(D) : Identity(y) = Identity(D[i])}}]],
         {i \in DOMAIN D : i = FirstAlike(D, D[i])})

Merged(d) ==
  [d EXCEPT !.destinations = MergedDestinations(@),
            !.routes = {MovedRoute(d.destinations, r) : r \in @}]

\* migrateV6ToV7(): inline passwords become accounts, by identity; n is the first of
\* the ids these get.
IsInline(x) == x.link = None /\ x.secret # None
AccountsLike(d, x) == {a \in d.accounts : Identity(a) = Identity(x)}
ExtractedAccount(d, n, i) ==
  LET x == d.destinations[i] IN
  IF AccountsLike(d, x) # {} THEN Only(AccountsLike(d, x))
  ELSE [id |-> n + i - 1, who |-> x.who, did |-> x.did, secret |-> x.secret]

V6ToV7(d, n) ==
  LET D == d.destinations IN
  [d EXCEPT !.accounts = @ \cup {ExtractedAccount(d, n, i) : i \in {i \in DOMAIN D : IsInline(D[i])}},
            !.destinations = [i \in DOMAIN D |->
               IF IsInline(D[i]) THEN [D[i] EXCEPT !.link = ExtractedAccount(d, n, i).id, !.secret = None] ELSE D[i]]]

\* migrateV7ToV8(): routes there are keep importing what is recent.
V7ToV8(d) == [d EXCEPT !.routes = {[r EXCEPT !.mode = "recent"] : r \in @}]

\* migrateConfigWithMetadata(): the present document, or None when it is refused.
FromMappings(d) ==
  LET p == Projected(IF d.version < 2 THEN V1ToV2(d) ELSE d) IN
  IF IsConflicting(p) THEN None ELSE Merged(p)

FromCanonical(d, n) ==
  LET d7 == IF d.version < 7 THEN V6ToV7(Normalized(d), n) ELSE Normalized(d)
      d8 == IF d.version < 8 THEN V7ToV8(d7) ELSE d7
      new == [d8 EXCEPT !.version = 8] IN
  IF IsValidDocument(new) THEN new ELSE None

Migrated(d, n) ==
  IF ~IsMappingList(d) THEN FromCanonical(d, n)
  ELSE LET p == FromMappings(d) IN IF p = None \/ ~IsValidDocument(p) THEN None ELSE FromCanonical(p, n)

\* How many ids that takes.
Size(d) == IF IsMappingList(d) THEN Len(d.mappings) ELSE IF d.version < 7 THEN Len(d.destinations) ELSE 0
--------------------------------------------------------------------------------
(***************************************************************************)
(* Exports and imports.                                                    *)
(***************************************************************************)
\* createConfigExport().
Redacted(d) ==
  [d EXCEPT !.destinations = [i \in DOMAIN d.destinations |-> [d.destinations[i] EXCEPT !.secret = None]],
            !.accounts = {[a EXCEPT !.secret = None] : a \in @}]

\* findDestinationByLegacyId(): the places of who is or was known by an id, and of who is of an account.
ByLegacyId(d, id) == {i \in DOMAIN d.destinations : d.destinations[i].id = id \/ id \in d.destinations[i].legacy}
ByAccount(d, x) == {i \in DOMAIN d.destinations : d.destinations[i].who = x.who}

\* A mutation: an id nobody here knows is another destination.
ByLegacyIdOnly(d, x) == ByLegacyId(d, x.id)

\* findExistingDestination(): the first of these.
Existing(d, x) == IF ByLegacyId(d, x.id) # {} THEN ByLegacyId(d, x.id) ELSE ByAccount(d, x)
FirstOf(d, I) == d.destinations[Min(I)]

\* What mergeImportedConfig() takes from the present document before it migrates the
\* other one: the logins of destinations that have none, accounts if there are none.
PreparedDestination(d, x) ==
  IF x.secret # None \/ x.link # None \/ Existing(d, x) = {} THEN x
  ELSE [x EXCEPT !.link = FirstOf(d, Existing(d, x)).link, !.secret = FirstOf(d, Existing(d, x)).secret]

Prepared(d, doc) ==
  IF IsMappingList(doc) THEN doc
  ELSE [doc EXCEPT !.destinations = [i \in DOMAIN doc.destinations |-> PreparedDestination(d, doc.destinations[i])],
                   !.accounts = IF @ = {} THEN d.accounts ELSE @]

\* Destinations keep the ids and keys that rows are under, and answer to those they come with.
KeptDestination(d, x) ==
  IF Existing(d, x) = {} THEN x
  ELSE LET y == FirstOf(d, Existing(d, x)) IN
       [x EXCEPT !.id = y.id, !.key = y.key, !.link = IF @ = None THEN y.link ELSE @,
                 !.legacy = @ \cup y.legacy \cup {x.id}]

\* Accounts get the passwords they lack; those that destinations go on using stay.
KeptAccount(d, a) ==
  IF a.secret = None /\ \E b \in d.accounts : b.id = a.id
  THEN [a EXCEPT !.secret = Only({b \in d.accounts : b.id = a.id}).secret] ELSE a

KeptAccounts(d, doc, D) ==
  {KeptAccount(d, a) : a \in doc.accounts} \cup
  {b \in d.accounts : (\E x \in ToSet(D) : x.link = b.id) /\ \A a \in doc.accounts : a.id # b.id}

\* alignImportedSourceIds() and realignImportedRoutes().
AlignedSource(d, s) ==
  IF \E o \in d.sources : o.name = s.name THEN Only({o \in d.sources : o.name = s.name}) ELSE s

AlignedRoute(d, doc, r) ==
  LET s == {s \in doc.sources : s.id = r.source}
      x == {x \in ToSet(doc.destinations) : x.id = r.destination} IN
  [r EXCEPT !.source = AlignedSource(d, Only(s)).id, !.destination = KeptDestination(d, Only(x)).id]

\* mergeImportedConfig(): the document to be saved, or None.
MergedImport(d, doc, n) ==
  LET new == Migrated(Prepared(d, doc), n) IN
  IF new = None THEN None
  ELSE LET D == [i \in DOMAIN new.destinations |-> KeptDestination(d, new.destinations[i])]
           out == [new EXCEPT !.destinations = D, !.accounts = KeptAccounts(d, new, D),
                              !.sources = {AlignedSource(d, s) : s \in @},
                              !.routes = {AlignedRoute(d, new, r) : r \in @}]
           claims == {i \in DOMAIN D : Existing(d, new.destinations[i]) # {}} IN
       IF (\E i, j \in claims : i # j /\ D[i].id = D[j].id) \/ ~IsValidDocument(out) THEN None ELSE out
--------------------------------------------------------------------------------
\* Ids in a list differ.  In other documents links lead to accounts that are there and
\* are the destination's, which has a login of its own at most before there were
\* accounts, and one source for its profile.
IsInOrder(d) ==
  IF IsMappingList(d) THEN \A i, j \in DOMAIN d.mappings : d.mappings[i].id = d.mappings[j].id => i = j
  ELSE \A x \in ToSet(d.destinations) :
         /\ IF x.link = None THEN d.version < 7 /\ x.secret # None ELSE AccountOf(d, x) # {}
         /\ \A a \in AccountOf(d, x) : a.who = x.who
         /\ \A r, q \in RoutesTo(d, x) : r.lead /\ q.lead => r = q

ASSUME DocumentsAssumption ==
  /\ \A d \in LegacyDocuments \cup ForeignDocuments : IsDocument(d) /\ IsInOrder(d)
  /\ \A d \in LegacyDocuments : d.version < 8

TransferInit ==
  /\ document \in LegacyDocuments /\ held \in ForeignDocuments \cup {None}
  /\ fresh = FirstFresh

Keep(d) == IsValidDocument(d) /\ document' = d
Spend(n) == fresh + n <= MaxFresh + 1 /\ fresh' = fresh + n
IsUpgraded == document.version = 8

\* getConfig() finds a document of an earlier schema.  A refused one stays as it is.
Load ==
  /\ ~IsUpgraded /\ UNCHANGED held /\ Spend(Size(document))
  /\ LET new == Migrated(document, fresh) IN new # None /\ document' = new

\* GET /api/config/export.
Export(isFull) ==
  /\ IsUpgraded /\ held' = IF isFull THEN document ELSE Redacted(document)
  /\ UNCHANGED <<document, fresh>>

\* POST /api/config/import.  What is saved is saved through the mappings.
Import ==
  /\ IsUpgraded /\ held # None /\ UNCHANGED held /\ Spend(Size(held))
  /\ LET new == MergedImport(document, held, fresh) IN new # None /\ Keep(Saved(new))

\* POST /api/destinations with credentials nothing has yet.
CreateDestination(p, secret, names) ==
  LET a == [id |-> fresh, who |-> p, did |-> TRUE, secret |-> secret]
      m == [id |-> fresh + 1, who |-> p, did |-> TRUE, secret |-> secret, policy |-> FALSE, link |-> fresh,
            names |-> names, paused |-> {}, lead |-> None] IN
  /\ IsUpgraded /\ \A x \in ToSet(document.destinations) : x.who # p
  /\ Keep(WithMappings([document EXCEPT !.accounts = @ \cup {a}], Append(ProjectedMappings(document), m)))
  /\ Spend(2) /\ UNCHANGED held

\* DELETE /api/mappings/:id, saved if the document is valid without it.
DeleteDestination(i) ==
  /\ IsUpgraded /\ Keep(WithMappings(document, RemoveAt(ProjectedMappings(document), i)))
  /\ UNCHANGED <<held, fresh>>

\* PATCH /api/destinations/:id/bluesky-account.
Relink(x, a) ==
  LET ms == ProjectedMappings(document) IN
  /\ IsUpgraded /\ \A y \in ToSet(document.destinations) : y.link # a.id /\ (y.id = x.id \/ y.who # a.who)
  /\ Keep(WithMappings(document, [i \in DOMAIN ms |-> IF ms[i].id = x.id
                THEN [ms[i] EXCEPT !.link = a.id, !.who = a.who, !.did = a.did] ELSE ms[i]]))
  /\ UNCHANGED <<held, fresh>>

\* DELETE /api/bluesky-accounts/:id.
DropAccount(a) ==
  /\ IsUpgraded /\ \A x \in ToSet(document.destinations) : x.link # a.id
  /\ Keep(Saved([document EXCEPT !.accounts = @ \ {a}])) /\ UNCHANGED <<held, fresh>>

\* POST /api/sources, saved as it is.
PostSource(n, D) ==
  /\ IsUpgraded /\ \A s \in document.sources : s.name # n
  /\ Keep([document EXCEPT !.sources = @ \cup {[id |-> fresh, name |-> n]},
                           !.routes = @ \cup {[source |-> fresh, destination |-> x.id, paused |-> FALSE, lead |-> FALSE,
                                               mode |-> "inherit"] : x \in D}])
  /\ Spend(1) /\ UNCHANGED held

TransferNext ==
  \/ Load \/ Import
  \/ \E isFull \in BOOLEAN : Export(isFull)
  \/ /\ IsUpgraded
     /\ \/ \E i \in DOMAIN document.destinations : DeleteDestination(i)
        \/ \E p \in People, secret \in AppPasswords, names \in SUBSET XNames : CreateDestination(p, secret, names)
        \/ \E x \in ToSet(document.destinations), a \in document.accounts : Relink(x, a)
        \/ \E a \in document.accounts : DropAccount(a)
        \/ \E n \in SourceNames, D \in SUBSET ToSet(document.destinations) : PostSource(n, D)

TransferSpec == TransferInit /\ [][TransferNext]_transferVars
--------------------------------------------------------------------------------
\* What posts where, under which conditions.
WhoOf(d, x) == IF AccountOf(d, x) = {} THEN x.who ELSE Only(AccountOf(d, x)).who
Links(d) ==
  {l \in [from : d.sources, to : ToSet(d.destinations), route : d.routes] :
     l.route.source = l.from.id /\ l.route.destination = l.to.id}
Feed(d, l) == [name |-> l.from.name, who |-> WhoOf(d, l.to),
               paused |-> l.route.paused, lead |-> l.route.lead, mode |-> l.route.mode]
Feeds(d) == {Feed(d, l) : l \in Links(d)}

\* Before there were modes all routes imported what was recent.  A profile source that
\* is not listed, or was not there to list yet, is the one source there is.
ListedFeeds(d) ==
  UNION {{[name |-> n, who |-> m.who, paused |-> n \in m.paused, mode |-> "recent",
           lead |-> IF d.version = 2 /\ m.lead \in m.names \cup {None} THEN n = m.lead ELSE m.names = {n}] :
             n \in m.names} : m \in ToSet(d.mappings)}

FeedsOf(d) ==
  IF IsMappingList(d) THEN ListedFeeds(d)
  ELSE IF d.version < 8 THEN {[f EXCEPT !.mode = "recent"] : f \in Feeds(d)} ELSE Feeds(d)

\* One destination is of y's account, here and in a document that agrees whose its ids are.
IsOnly(d, y) == \A z \in ToSet(d.destinations) : z.who = y.who => z = y
Agrees(d, doc, y) ==
  /\ IsOnly(d, y)
  /\ \A x, z \in ToSet(doc.destinations) : x.who = y.who /\ z.who = y.who => x = z
  /\ \A x \in ToSet(doc.destinations) :
       ByLegacyId(d, x.id) # {} => (FirstOf(d, ByLegacyId(d, x.id)) = y <=> x.who = y.who)

\* A destination of an account that is here keeps id, key and every id it answered to,
\* under which its rows are found, and its login under the account it keeps.
KeepsIdentities(d, doc, next) ==
  \A y \in ToSet(d.destinations), x \in ToSet(next.destinations) :
    x.who = y.who /\ Agrees(d, doc, y) =>
      /\ x.id = y.id /\ x.key = y.key /\ y.legacy \subseteq x.legacy
      /\ x.link = y.link => \A a \in AccountOf(d, y), b \in AccountOf(next, x) : a.secret # None => b.secret # None

\* Upgrading and importing lead every source to the accounts the other document
\* led it to, as paused and with the imports and the profile source it had there:
\* neither the merging of destinations nor the ids of this installation move a route
\* (migrateV2ToV3, realignImportedRoutes); and an import leaves the destinations that
\* are here what they are (mergeImportedConfig).
RoutesLeadWhereTheyDid ==
  [][/\ Load => Feeds(document') = FeedsOf(document)
     /\ Import => /\ Feeds(document') = FeedsOf(held)
                  /\ ~IsMappingList(held) => KeepsIdentities(document, held, document')]_document
================================================================================
