------------------------- MODULE ConfigTransferProofs --------------------------
(***************************************************************************)
(* Theorems about ConfigTransfer for every number of sources, accounts and *)
(* ids and for all documents of all schemas: the ladder and the imports    *)
(* lead every source where it led.                                         *)
(***************************************************************************)
EXTENDS ConfigTransfer, FiniteSetTheorems, SequenceTheorems, TLAPS, NaturalsInduction, WellFoundedInduction

--------------------------------------------------------------------------------
(***************************************************************************)
(* Choices, least places, and what is picked from a sequence.              *)
(***************************************************************************)
LEMMA OnlyIsOne ==
  ASSUME NEW S, S # {}
  PROVE  Only(S) \in S
BY DEF Only

LEMMA OnlyIsThis ==
  ASSUME NEW x
  PROVE  Only({x}) = x
BY DEF Only

LEMMA FirstPlace ==
  ASSUME NEW T \in SUBSET Nat, T # {}
  PROVE  Min(T) \in T
<1> DEFINE R == {ss \in Nat \X Nat : ss[1] < ss[2]}
<1>1. IsWellFoundedOn(R, Nat)
  BY NatLessThanWellFounded DEF OpToRel
<1>2. PICK x \in T : \A y \in T : ~(<<y, x>> \in R)
  <2> HIDE DEF R
  <2> QED BY <1>1, WFMin
<1>3. ASSUME NEW y \in T PROVE x <= y
  <2>1. ~(<<y, x>> \in R) /\ x \in Nat /\ y \in Nat
    BY <1>2
  <2>2. ~(y < x)
    BY <2>1, Zenon DEF R
  <2> QED BY <2>1, <2>2
<1> QED BY <1>3 DEF Min

LEMMA MappedIsSeq ==
  ASSUME NEW S, NEW T, NEW s \in Seq(S), NEW f \in [DOMAIN s -> T]
  PROVE  f \in Seq(T) /\ Len(f) = Len(s) /\ DOMAIN f = DOMAIN s
<1>1. Len(s) \in Nat /\ DOMAIN s = 1 .. Len(s)
  OBVIOUS
<1> QED BY <1>1

\* What is picked stands at one of the places.
StandsAtOne(s, J, k) == \E i \in J : Picked(s, J)[k] = s[i]

LEMMA PickedFrom ==
  ASSUME NEW s, NEW n \in Nat, NEW J \in SUBSET (1 .. n), NEW k \in DOMAIN Picked(s, J)
  PROVE  StandsAtOne(s, J, k)
<1> DEFINE Upto(i) == {j \in J : j <= i}
           rank == [i \in J |-> Cardinality(Upto(i))]
<1>1. IsFiniteSet(J) /\ Cardinality(J) \in Nat
  <2>1. IsFiniteSet(1 .. n)
    BY FS_Interval
  <2> QED BY <2>1, FS_Subset, FS_CardinalityType
<1>2. ASSUME NEW i \in J PROVE IsFiniteSet(Upto(i)) /\ Cardinality(Upto(i)) \in 1 .. Cardinality(J)
  <2>1. Upto(i) \in SUBSET J /\ Upto(i) # {}
    <3>1. i \in Upto(i)
      OBVIOUS
    <3> QED BY <3>1
  <2>2. IsFiniteSet(Upto(i)) /\ Cardinality(Upto(i)) <= Cardinality(J)
    BY <1>1, <2>1, FS_Subset
  <2>3. Cardinality(Upto(i)) \in Nat /\ Cardinality(Upto(i)) # 0
    <3> HIDE DEF Upto
    <3> QED BY <2>1, <2>2, FS_CardinalityType, FS_EmptySet
  <2> HIDE DEF Upto
  <2> QED BY <1>1, <2>2, <2>3
<1>3. ASSUME NEW i \in J, NEW j \in J, i < j, Cardinality(Upto(i)) = Cardinality(Upto(j)) PROVE FALSE
  <2>1. Upto(i) \in SUBSET Upto(j)
    <3>1. i \in Nat /\ j \in Nat
      OBVIOUS
    <3>2. ASSUME NEW l \in J, l <= i PROVE l <= j
      <4>1. l \in Nat
        OBVIOUS
      <4> QED BY <1>3, <3>1, <3>2, <4>1
    <3> QED BY <3>2
  <2>2. j \in Upto(j) /\ j \notin Upto(i)
    BY <1>3
  <2>3. Upto(i) = Upto(j)
    <3> HIDE DEF Upto
    <3> QED BY <1>2, <1>3, <2>1, FS_Subset
  <2> QED BY <2>2, <2>3
<1>4. rank \in [J -> 1 .. Cardinality(J)]
  <2> HIDE DEF Upto
  <2> QED BY <1>2
<1>5. \A i, j \in J : rank[i] = rank[j] => i = j
  <2> SUFFICES ASSUME NEW i \in J, NEW j \in J, rank[i] = rank[j], i # j PROVE FALSE
    OBVIOUS
  <2>1. i < j \/ j < i
    OBVIOUS
  <2>2. Cardinality(Upto(i)) = Cardinality(Upto(j))
    BY DEF rank
  <2> HIDE DEF Upto, rank
  <2> QED BY <1>3, <2>1, <2>2
<1>6. rank \in Injection(J, 1 .. Cardinality(J))
  <2> HIDE DEF rank
  <2> QED BY <1>4, <1>5 DEF Injection, IsInjective
<1>7. IsFiniteSet(1 .. Cardinality(J)) /\ Cardinality(1 .. Cardinality(J)) = Cardinality(J)
  BY <1>1, FS_Interval
<1>8. rank \in Surjection(J, 1 .. Cardinality(J))
  <2> HIDE DEF rank
  <2> QED BY <1>6, <1>7, FS_Injection
<1>9. k \in 1 .. Cardinality(J) /\ Picked(s, J)[k] = s[CHOOSE i \in J : Cardinality(Upto(i)) = k]
  BY DEF Picked
<1>10. PICK i \in J : rank[i] = k
  <2> HIDE DEF rank
  <2> QED BY <1>8, <1>9 DEF Surjection
<1>11. (CHOOSE l \in J : Cardinality(Upto(l)) = k) \in J
  <2>1. Cardinality(Upto(i)) = k
    BY <1>10 DEF rank
  <2> HIDE DEF Upto
  <2> QED BY <2>1
<1> QED BY <1>9, <1>11 DEF StandsAtOne
--------------------------------------------------------------------------------
(***************************************************************************)
(* Feeds: a source, a destination and the route between them.              *)
(***************************************************************************)
AccountsFit(d) == \A x \in ToSet(d.destinations) : \A a \in AccountOf(d, x) : a.who = x.who
LeadsFit(d) == \A x \in ToSet(d.destinations) : \A r, q \in RoutesTo(d, x) : r.lead /\ q.lead => r = q

IsFed(d, s, x, r) ==
  /\ s \in d.sources /\ x \in ToSet(d.destinations) /\ r \in d.routes
  /\ r.source = s.id /\ r.destination = x.id
Flow(s, x, r) == [name |-> s.name, who |-> x.who, paused |-> r.paused, lead |-> r.lead, mode |-> r.mode]

LEMMA AccountsTell ==
  ASSUME NEW d, AccountsFit(d), NEW x \in ToSet(d.destinations)
  PROVE  WhoOf(d, x) = x.who
BY OnlyIsOne DEF WhoOf, AccountsFit

LEMMA FeedsAreFlows ==
  ASSUME NEW d, AccountsFit(d), NEW f \in Feeds(d)
  PROVE  \E s, x, r : IsFed(d, s, x, r) /\ f = Flow(s, x, r)
<1>1. PICK l \in Links(d) : f = Feed(d, l)
  BY DEF Feeds
<1>2. IsFed(d, l.from, l.to, l.route)
  BY DEF Links, IsFed
<1>3. f = Flow(l.from, l.to, l.route)
  BY <1>1, <1>2, AccountsTell DEF Feed, Flow, IsFed
<1> QED BY <1>2, <1>3

LEMMA FlowsAreFeeds ==
  ASSUME NEW d, AccountsFit(d), NEW s, NEW x, NEW r, IsFed(d, s, x, r)
  PROVE  Flow(s, x, r) \in Feeds(d)
<1> DEFINE l == [from |-> s, to |-> x, route |-> r]
<1>1. l \in Links(d)
  BY DEF Links, IsFed
<1>2. Flow(s, x, r) = Feed(d, l)
  BY AccountsTell DEF Feed, Flow, IsFed
<1> QED BY <1>1, <1>2 DEF Feeds

--------------------------------------------------------------------------------
(***************************************************************************)
(* What is saved through the mappings projected from a document.           *)
(***************************************************************************)
LEMMA SequencePlaces ==
  ASSUME NEW S, NEW s \in Seq(S)
  PROVE  /\ Len(s) \in Nat /\ DOMAIN s = 1 .. Len(s)
         /\ \A i \in DOMAIN s : s[i] \in S
         /\ ToSet(s) \subseteq S
<1>1. Len(s) \in Nat /\ DOMAIN s = 1 .. Len(s)
  BY LenProperties
<1>2. \A i \in DOMAIN s : s[i] \in S
  BY <1>1, ElementOfSeq
<1> QED BY <1>1, <1>2, Zenon DEF ToSet

LEMMA DestinationPlaces ==
  ASSUME NEW d \in Canonical
  PROVE  /\ Len(d.destinations) \in Nat /\ DOMAIN d.destinations = 1 .. Len(d.destinations)
         /\ \A i \in DOMAIN d.destinations : d.destinations[i] \in Destination
         /\ ToSet(d.destinations) \subseteq Destination
<1>1. d.destinations \in Seq(Destination)
  BY DEF Canonical
<1> QED BY <1>1, SequencePlaces

LEMMA ThisDestination ==
  ASSUME NEW d, IsValidDocument(d), NEW x \in ToSet(d.destinations)
  PROVE  {z \in ToSet(d.destinations) : z.id = x.id} = {x} /\ {z \in ToSet(d.destinations) : x.id = z.id} = {x}
BY DEF IsValidDocument, ToSet

LEMMA ThisSource ==
  ASSUME NEW d, IsValidDocument(d), NEW s \in d.sources
  PROVE  {t \in d.sources : t.id = s.id} = {s} /\ {t \in d.sources : t.name = s.name} = {s}
BY DEF IsValidDocument

LEMMA ThisAccount ==
  ASSUME NEW d, IsValidDocument(d), NEW a \in d.accounts
  PROVE  {b \in d.accounts : b.id = a.id} = {a}
BY DEF IsValidDocument

LEMMA ThisRoute ==
  ASSUME NEW d, IsValidDocument(d), NEW r \in d.routes, NEW q \in d.routes,
         q.source = r.source, q.destination = r.destination
  PROVE  q = r
BY DEF IsValidDocument

\* A name is that of a route if one of its routes is among them.
LEMMA NameOfRoute ==
  ASSUME NEW d, IsValidDocument(d), NEW x, NEW R \in SUBSET RoutesTo(d, x),
         NEW r \in RoutesTo(d, x), NEW s \in XSources(d), s.id = r.source
  PROVE  s.name \in NamesOf(d, R) <=> r \in R
<1>1. ASSUME r \in R PROVE s.name \in NamesOf(d, R)
  BY <1>1 DEF NamesOf
<1>2. ASSUME s.name \in NamesOf(d, R) PROVE r \in R
  <2>1. PICK t \in XSources(d), q \in R : t.name = s.name /\ q.source = t.id
    BY <1>2 DEF NamesOf
  <2>2. t = s
    BY <2>1 DEF XSources, IsValidDocument
  <2>3. q \in d.routes /\ r \in d.routes /\ q.destination = r.destination
    BY DEF RoutesTo
  <2>4. q = r
    BY <2>1, <2>2, <2>3, ThisRoute
  <2> QED BY <2>1, <2>4
<1> QED BY <1>1, <1>2

LEMMA NamesHaveRoutes ==
  ASSUME NEW d, NEW R, NEW n \in NamesOf(d, R)
  PROVE  \E s \in XSources(d), r \in R : s.name = n /\ r.source = s.id
BY DEF NamesOf

\* The route of a name is the one there was.
LEMMA RouteReturns ==
  ASSUME NEW d \in Canonical, IsValidDocument(d), LeadsFit(d), NEW x \in ToSet(d.destinations),
         NEW r \in RoutesTo(d, x), NEW s \in XSources(d), s.id = r.source
  PROVE  /\ s.name \in ProjectedMapping(d, x).names
         /\ SourceFor(d, s.name) = s
         /\ RouteFor(d, ProjectedMapping(d, x), s.name) = r
<1> DEFINE m == ProjectedMapping(d, x)
<1>1. /\ m.id = x.id /\ m.names = NamesOf(d, RoutesTo(d, x))
      /\ m.paused = NamesOf(d, {q \in RoutesTo(d, x) : q.paused})
      /\ m.lead = IF Leads(d, x) = {} THEN None ELSE Only(Leads(d, x))
  BY DEF ProjectedMapping
<1>2. s.name \in m.names
  BY <1>1, NameOfRoute
<1>3. s.name \in m.paused <=> r.paused
  BY <1>1, NameOfRoute
<1>4. s.name \in Leads(d, x) <=> r.lead
  BY NameOfRoute DEF Leads
<1>5. r \in d.routes /\ r.destination = x.id
  BY DEF RoutesTo
<1>6. r \in Route /\ s \in Source /\ s \in d.sources /\ s.name \in XNames
  BY <1>5 DEF Canonical, XSources
<1>7. s.name = m.lead <=> r.lead
  <2>1. CASE r.lead
    <3>1. ASSUME NEW n \in Leads(d, x) PROVE n = s.name
      <4>1. PICK t \in XSources(d), q \in {q \in RoutesTo(d, x) : q.lead} : t.name = n /\ q.source = t.id
        BY NamesHaveRoutes DEF Leads
      <4>2. q = r
        BY <2>1, <4>1 DEF LeadsFit
      <4>3. t = s
        BY <4>1, <4>2 DEF XSources, IsValidDocument
      <4> QED BY <4>1, <4>3
    <3> QED BY <1>1, <1>4, <2>1, <3>1, OnlyIsOne
  <2>2. CASE ~r.lead
    <3>1. s.name # None
      BY <1>6, TransferAssumption
    <3> QED BY <1>1, <1>4, <2>2, <3>1, OnlyIsOne
  <2> QED BY <2>1, <2>2
<1>8. SourceFor(d, s.name) = s
  <2>1. {t \in d.sources : t.name = s.name} = {s}
    BY <1>6, ThisSource
  <2> QED BY <1>6, <2>1, OnlyIsThis DEF SourceFor
<1>9. {q \in d.routes : q.source = s.id /\ q.destination = m.id} = {r}
  <2>1. \A q \in d.routes : q.source = s.id /\ q.destination = m.id => q = r
    BY <1>1, <1>5, ThisRoute
  <2> QED BY <1>1, <1>5, <2>1
<1>10. RouteFor(d, m, s.name) =
         [source |-> s.id, destination |-> x.id, paused |-> s.name \in m.paused, lead |-> s.name = m.lead, mode |-> r.mode]
  <2>1. Only({r}).mode = r.mode /\ {r} # {}
    BY OnlyIsThis
  <2> HIDE DEF m
  <2> QED BY <1>1, <1>8, <1>9, <2>1 DEF RouteFor
<1>11. r = [source |-> s.id, destination |-> x.id, paused |-> r.paused, lead |-> r.lead, mode |-> r.mode]
  BY <1>5, <1>6 DEF Route
<1>12. (s.name \in m.paused) = r.paused /\ (s.name = m.lead) = r.lead
  <2>1. r.paused \in BOOLEAN /\ r.lead \in BOOLEAN
    BY <1>6 DEF Route
  <2> HIDE DEF m
  <2> QED BY <1>3, <1>7, <2>1
<1>13. RouteFor(d, m, s.name) = r
  <2> HIDE DEF m
  <2> QED BY <1>10, <1>11, <1>12
<1> QED BY <1>2, <1>8, <1>13
\* The parts of a document that is rewritten by mappings.
LEMMA RewrittenParts ==
  ASSUME NEW d \in Canonical, NEW ms
  PROVE  /\ WithMappings(d, ms).version = d.version /\ WithMappings(d, ms).accounts = d.accounts
         /\ WithMappings(d, ms).destinations = [i \in DOMAIN ms |-> DestinationOf(d, ms[i])]
         /\ WithMappings(d, ms).sources =
              (d.sources \ XSources(d)) \cup {SourceFor(d, n) : n \in UNION {m.names : m \in ToSet(ms)}}
         /\ WithMappings(d, ms).routes =
              {r \in d.routes : \E s \in d.sources \ XSources(d) : s.id = r.source}
              \cup UNION {{RouteFor(d, m, n) : n \in m.names} : m \in ToSet(ms)}
<1> DEFINE hooks == d.sources \ XSources(d)
           named == {SourceFor(d, n) : n \in UNION {m.names : m \in ToSet(ms)}}
           mapped == UNION {{RouteFor(d, m, n) : n \in m.names} : m \in ToSet(ms)}
           others == {r \in d.routes : \E s \in hooks : s.id = r.source}
           list == [i \in DOMAIN ms |-> DestinationOf(d, ms[i])]
<1>1. WithMappings(d, ms) =
        [d EXCEPT !.sources = hooks \cup named, !.destinations = list, !.routes = others \cup mapped]
  BY DEF WithMappings
<1> HIDE DEF hooks, named, mapped, others, list
<1>2. /\ WithMappings(d, ms).version = d.version /\ WithMappings(d, ms).accounts = d.accounts
      /\ WithMappings(d, ms).destinations = list /\ WithMappings(d, ms).sources = hooks \cup named
      /\ WithMappings(d, ms).routes = others \cup mapped
  BY <1>1 DEF Canonical
<1> QED BY <1>2 DEF hooks, named, mapped, others, list

LEMMA RewrittenSources ==
  ASSUME NEW d \in Canonical, NEW ms, NEW s
  PROVE  s \in WithMappings(d, ms).sources <=>
           \/ s \in d.sources /\ s.name \notin XNames
           \/ \E m \in ToSet(ms) : \E n \in m.names : s = SourceFor(d, n)
<1> DEFINE hooks == d.sources \ XSources(d)
           named == {SourceFor(d, n) : n \in UNION {m.names : m \in ToSet(ms)}}
<1>1. s \in hooks <=> s \in d.sources /\ s.name \notin XNames
  BY DEF XSources
<1>2. s \in named <=> \E m \in ToSet(ms) : \E n \in m.names : s = SourceFor(d, n)
  OBVIOUS
<1>3. WithMappings(d, ms).sources = hooks \cup named
  BY RewrittenParts
<1> HIDE DEF hooks, named
<1> QED BY <1>1, <1>2, <1>3

LEMMA RewrittenRoutes ==
  ASSUME NEW d \in Canonical, NEW ms, NEW r
  PROVE  r \in WithMappings(d, ms).routes <=>
           \/ r \in d.routes /\ \E s \in d.sources : s.name \notin XNames /\ s.id = r.source
           \/ \E m \in ToSet(ms) : \E n \in m.names : r = RouteFor(d, m, n)
<1> DEFINE others == {q \in d.routes : \E s \in d.sources \ XSources(d) : s.id = q.source}
           mapped == UNION {{RouteFor(d, m, n) : n \in m.names} : m \in ToSet(ms)}
<1>1. r \in others <=> r \in d.routes /\ \E s \in d.sources : s.name \notin XNames /\ s.id = r.source
  BY DEF XSources
<1>2. r \in mapped <=> \E m \in ToSet(ms) : \E n \in m.names : r = RouteFor(d, m, n)
  OBVIOUS
<1>3. WithMappings(d, ms).routes = others \cup mapped
  BY RewrittenParts
<1> HIDE DEF others, mapped
<1> QED BY <1>1, <1>2, <1>3

\* A mapping that a document is saved with: of a destination, with its account's name.
LEMMA ProjectedParts ==
  ASSUME NEW d, IsValidDocument(d), AccountsFit(d), NEW x \in ToSet(d.destinations)
  PROVE  LET m == ProjectedMapping(d, x) IN
         /\ m.id = x.id /\ m.who = x.who /\ m.link = x.link /\ m.policy = x.policy
         /\ m.names = NamesOf(d, RoutesTo(d, x))
         /\ DestinationOf(d, m).id = x.id /\ DestinationOf(d, m).who = x.who /\ DestinationOf(d, m).link = x.link
         /\ DestinationOf(d, m).key = x.key /\ DestinationOf(d, m).legacy = x.legacy
<1> DEFINE m == ProjectedMapping(d, x)
           a == IF AccountOf(d, x) = {} THEN x ELSE Only(AccountOf(d, x))
<1>1. a.who = x.who
  BY OnlyIsOne DEF AccountsFit
<1>2. m.id = x.id /\ m.who = x.who /\ m.link = x.link /\ m.policy = x.policy /\ m.names = NamesOf(d, RoutesTo(d, x))
  <2>1. m.who = a.who /\ m.id = x.id /\ m.link = x.link /\ m.policy = x.policy /\ m.names = NamesOf(d, RoutesTo(d, x))
    BY DEF ProjectedMapping
  <2> HIDE DEF m, a
  <2> QED BY <1>1, <2>1
<1>3. {z \in ToSet(d.destinations) : z.id = m.id} = {x}
  BY <1>2, ThisDestination
<1>4. Only({x}) = x /\ {x} # {}
  BY OnlyIsThis
<1> HIDE DEF m
<1>5. DestinationOf(d, m).id = m.id /\ DestinationOf(d, m).who = m.who /\ DestinationOf(d, m).link = m.link
  BY DEF DestinationOf
<1>6. DestinationOf(d, m).key = x.key /\ DestinationOf(d, m).legacy = x.legacy
  BY <1>3, <1>4 DEF DestinationOf
<1> QED BY <1>2, <1>5, <1>6 DEF m

LEMMA ProjectedPlaces ==
  ASSUME NEW d \in Canonical
  PROVE  /\ DOMAIN ProjectedMappings(d) = DOMAIN d.destinations
         /\ \A i \in DOMAIN d.destinations : ProjectedMappings(d)[i] = ProjectedMapping(d, d.destinations[i])
         /\ ToSet(ProjectedMappings(d)) = {ProjectedMapping(d, x) : x \in ToSet(d.destinations)}
<1>1. /\ DOMAIN ProjectedMappings(d) = DOMAIN d.destinations
      /\ \A i \in DOMAIN d.destinations : ProjectedMappings(d)[i] = ProjectedMapping(d, d.destinations[i])
  BY DEF ProjectedMappings
<1> QED BY <1>1 DEF ToSet

\* Saving leaves routes, accounts and destinations, but for the names of these, as
\* they are; sources without a route go.
LEMMA SavedKeeps ==
  ASSUME NEW d \in Canonical, IsValidDocument(d), LeadsFit(d), AccountsFit(d)
  PROVE  /\ Saved(d).version = d.version /\ Saved(d).accounts = d.accounts /\ Saved(d).routes = d.routes
         /\ Saved(d).sources \subseteq d.sources
         /\ \A s \in d.sources, r \in d.routes : r.source = s.id => s \in Saved(d).sources
         /\ DOMAIN Saved(d).destinations = DOMAIN d.destinations
         /\ \A i \in DOMAIN d.destinations :
              LET x == d.destinations[i] y == Saved(d).destinations[i] IN
              y.id = x.id /\ y.who = x.who /\ y.link = x.link /\ y.key = x.key /\ y.legacy = x.legacy
<1> DEFINE ms == ProjectedMappings(d)
           new == WithMappings(d, ms)
<1>1. /\ new.version = d.version /\ new.accounts = d.accounts
      /\ new.destinations = [i \in DOMAIN ms |-> DestinationOf(d, ms[i])]
  <2> HIDE DEF ms
  <2> QED BY RewrittenParts
<1>2. /\ DOMAIN ms = DOMAIN d.destinations
      /\ \A i \in DOMAIN d.destinations : ms[i] = ProjectedMapping(d, d.destinations[i])
      /\ ToSet(ms) = {ProjectedMapping(d, x) : x \in ToSet(d.destinations)}
  BY ProjectedPlaces
<1> HIDE DEF new, ms
<1>3. ASSUME NEW m \in ToSet(ms), NEW n \in m.names
      PROVE  SourceFor(d, n) \in d.sources /\ RouteFor(d, m, n) \in d.routes
  <2>1. PICK x \in ToSet(d.destinations) : m = ProjectedMapping(d, x)
    BY <1>2
  <2>2. PICK s \in XSources(d), r \in RoutesTo(d, x) : s.name = n /\ r.source = s.id
    <3>1. n \in NamesOf(d, RoutesTo(d, x))
      BY <1>3, <2>1, ProjectedParts
    <3> QED BY <3>1, NamesHaveRoutes
  <2>3. SourceFor(d, n) = s /\ RouteFor(d, m, n) = r
    BY <2>1, <2>2, RouteReturns
  <2> QED BY <2>2, <2>3 DEF XSources, RoutesTo
<1>4. ASSUME NEW s \in d.sources, NEW r \in d.routes, r.source = s.id
      PROVE  s \in new.sources /\ r \in new.routes
  <2>1. CASE s.name \notin XNames
    BY <1>4, <2>1, RewrittenSources, RewrittenRoutes DEF new
  <2>2. CASE s.name \in XNames
    <3>1. PICK x \in ToSet(d.destinations) : x.id = r.destination
      BY DEF IsValidDocument
    <3>2. s \in XSources(d) /\ r \in RoutesTo(d, x)
      BY <1>4, <2>2, <3>1 DEF XSources, RoutesTo
    <3>3. /\ s.name \in ProjectedMapping(d, x).names
          /\ SourceFor(d, s.name) = s /\ RouteFor(d, ProjectedMapping(d, x), s.name) = r
      BY <1>4, <3>2, RouteReturns
    <3>4. ProjectedMapping(d, x) \in ToSet(ms)
      BY <1>2
    <3> QED BY <3>3, <3>4, RewrittenSources, RewrittenRoutes DEF new
  <2> QED BY <2>1, <2>2
<1>5. new.sources \subseteq d.sources /\ new.routes \subseteq d.routes
  BY <1>3, RewrittenSources, RewrittenRoutes DEF new
<1>6. d.routes \subseteq new.routes
  <2> SUFFICES ASSUME NEW r \in d.routes PROVE r \in new.routes
    OBVIOUS
  <2>1. PICK s \in d.sources : s.id = r.source
    BY DEF IsValidDocument
  <2> QED BY <1>4, <2>1
<1>7. ASSUME NEW i \in DOMAIN d.destinations
      PROVE  LET x == d.destinations[i] y == new.destinations[i] IN
             y.id = x.id /\ y.who = x.who /\ y.link = x.link /\ y.key = x.key /\ y.legacy = x.legacy
  <2>1. d.destinations[i] \in ToSet(d.destinations)
    BY DEF ToSet
  <2>2. new.destinations[i] = DestinationOf(d, ProjectedMapping(d, d.destinations[i]))
    BY <1>1, <1>2
  <2> QED BY <2>1, <2>2, ProjectedParts
<1>8. DOMAIN new.destinations = DOMAIN d.destinations
  BY <1>1, <1>2
<1>9. Saved(d) = new
  BY DEF Saved, new, ms
<1> QED BY <1>1, <1>4, <1>5, <1>6, <1>7, <1>8, <1>9
\* It says what the document said.
LEMMA SavedFits ==
  ASSUME NEW d \in Canonical, IsValidDocument(d), LeadsFit(d), AccountsFit(d)
  PROVE  AccountsFit(Saved(d)) /\ LeadsFit(Saved(d)) /\ Feeds(Saved(d)) = Feeds(d)
<1> DEFINE new == Saved(d)
<1>1. /\ new.accounts = d.accounts /\ new.routes = d.routes /\ new.sources \subseteq d.sources
      /\ \A s \in d.sources, r \in d.routes : r.source = s.id => s \in new.sources
  BY SavedKeeps
<1>2. ASSUME NEW y \in ToSet(new.destinations)
      PROVE  \E x \in ToSet(d.destinations) : y.id = x.id /\ y.who = x.who /\ y.link = x.link
  <2>1. PICK i \in DOMAIN new.destinations : y = new.destinations[i]
    BY DEF ToSet
  <2>2. i \in DOMAIN d.destinations
    BY <2>1, SavedKeeps
  <2>3. d.destinations[i] \in ToSet(d.destinations)
    BY <2>2 DEF ToSet
  <2> QED BY <2>1, <2>2, <2>3, SavedKeeps
<1>3. ASSUME NEW x \in ToSet(d.destinations)
      PROVE  \E y \in ToSet(new.destinations) : y.id = x.id /\ y.who = x.who
  <2>1. PICK i \in DOMAIN d.destinations : x = d.destinations[i]
    BY DEF ToSet
  <2>2. i \in DOMAIN new.destinations
    BY <2>1, SavedKeeps
  <2>3. new.destinations[i] \in ToSet(new.destinations)
    BY <2>2 DEF ToSet
  <2> QED BY <2>1, <2>2, <2>3, SavedKeeps
<1> HIDE DEF new
<1>4. AccountsFit(new)
  <2> SUFFICES ASSUME NEW y \in ToSet(new.destinations), NEW a \in AccountOf(new, y) PROVE a.who = y.who
    BY DEF AccountsFit
  <2>1. PICK x \in ToSet(d.destinations) : y.id = x.id /\ y.who = x.who /\ y.link = x.link
    BY <1>2
  <2>2. a \in AccountOf(d, x)
    BY <1>1, <2>1 DEF AccountOf
  <2> QED BY <2>1, <2>2 DEF AccountsFit
<1>5. LeadsFit(new)
  <2> SUFFICES ASSUME NEW y \in ToSet(new.destinations), NEW r \in RoutesTo(new, y), NEW q \in RoutesTo(new, y),
                      r.lead, q.lead
               PROVE  r = q
    BY DEF LeadsFit
  <2>1. PICK x \in ToSet(d.destinations) : y.id = x.id
    BY <1>2
  <2>2. r \in RoutesTo(d, x) /\ q \in RoutesTo(d, x)
    BY <1>1, <2>1 DEF RoutesTo, XSources
  <2> QED BY <2>2 DEF LeadsFit
<1>6. ASSUME NEW f \in Feeds(new) PROVE f \in Feeds(d)
  <2>1. PICK s, y, r : IsFed(new, s, y, r) /\ f = Flow(s, y, r)
    BY <1>4, <1>6, FeedsAreFlows
  <2>2. PICK x \in ToSet(d.destinations) : y.id = x.id /\ y.who = x.who
    BY <1>2, <2>1 DEF IsFed
  <2>3. IsFed(d, s, x, r) /\ Flow(s, x, r) = f
    BY <1>1, <2>1, <2>2 DEF IsFed, Flow
  <2> QED BY <2>3, FlowsAreFeeds
<1>7. ASSUME NEW f \in Feeds(d) PROVE f \in Feeds(new)
  <2>1. PICK s, x, r : IsFed(d, s, x, r) /\ f = Flow(s, x, r)
    BY <1>7, FeedsAreFlows
  <2>2. PICK y \in ToSet(new.destinations) : y.id = x.id /\ y.who = x.who
    BY <1>3, <2>1 DEF IsFed
  <2>3. IsFed(new, s, y, r) /\ Flow(s, y, r) = f
    BY <1>1, <2>1, <2>2 DEF IsFed, Flow
  <2> QED BY <1>4, <2>3, FlowsAreFeeds
<1> QED BY <1>4, <1>5, <1>6, <1>7 DEF new

--------------------------------------------------------------------------------
(***************************************************************************)
(* Types of what is projected and rewritten.                               *)
(***************************************************************************)
LEMMA CanonicalParts ==
  ASSUME NEW d \in Canonical
  PROVE  /\ d.version \in 3 .. 8 /\ d.sources \subseteq Source /\ d.destinations \in Seq(Destination)
         /\ d.routes \subseteq Route /\ d.accounts \subseteq BlueskyAccount
BY DEF Canonical

LEMMA ProjectedIsMapping ==
  ASSUME NEW d \in Canonical, NEW x \in ToSet(d.destinations)
  PROVE  ProjectedMapping(d, x) \in Mapping
<1> DEFINE a == IF AccountOf(d, x) = {} THEN x ELSE Only(AccountOf(d, x))
           lead == IF Leads(d, x) = {} THEN None ELSE Only(Leads(d, x))
<1>1. x \in Destination
  BY DestinationPlaces
<1>2. a.who \in People /\ a.did \in BOOLEAN /\ a.secret \in AppPasswords \cup {None}
  <2>1. CASE AccountOf(d, x) = {}
    BY <1>1, <2>1 DEF Destination
  <2>2. CASE AccountOf(d, x) # {}
    <3>1. Only(AccountOf(d, x)) \in AccountOf(d, x)
      BY <2>2, OnlyIsOne
    <3>2. Only(AccountOf(d, x)) \in BlueskyAccount
      BY <3>1, CanonicalParts DEF AccountOf
    <3> QED BY <2>2, <3>2 DEF BlueskyAccount
  <2> QED BY <2>1, <2>2
<1>3. \A R : NamesOf(d, R) \subseteq XNames
  BY DEF NamesOf, XSources
<1>4. lead \in XNames \cup {None}
  BY <1>3, OnlyIsOne DEF Leads
<1>5. ProjectedMapping(d, x) =
        [id |-> x.id, who |-> a.who, did |-> a.did, secret |-> a.secret, policy |-> x.policy, link |-> x.link,
         names |-> NamesOf(d, RoutesTo(d, x)), paused |-> NamesOf(d, {r \in RoutesTo(d, x) : r.paused}), lead |-> lead]
  BY DEF ProjectedMapping
<1> HIDE DEF a, lead
<1>6. x.id \in Ids /\ x.policy \in BOOLEAN /\ x.link \in Ids \cup {None}
  BY <1>1 DEF Destination
<1> QED BY <1>2, <1>3, <1>4, <1>5, <1>6 DEF Mapping

LEMMA ProjectedAreMappings ==
  ASSUME NEW d \in Canonical
  PROVE  ProjectedMappings(d) \in Seq(Mapping) /\ Len(ProjectedMappings(d)) = Len(d.destinations)
<1>1. \A i \in DOMAIN d.destinations : ProjectedMapping(d, d.destinations[i]) \in Mapping
  BY ProjectedIsMapping DEF ToSet
<1>2. ProjectedMappings(d) \in [DOMAIN d.destinations -> Mapping]
  BY <1>1 DEF ProjectedMappings
<1> QED BY <1>2, MappedIsSeq, CanonicalParts

LEMMA SourceForIsSource ==
  ASSUME NEW d \in Canonical, NEW n \in XNames
  PROVE  SourceFor(d, n) \in Source /\ SourceFor(d, n).name = n
<1>1. CASE \E s \in d.sources : s.name = n
  <2>1. Only({s \in d.sources : s.name = n}) \in {s \in d.sources : s.name = n}
    BY <1>1, OnlyIsOne
  <2> QED BY <1>1, <2>1, CanonicalParts DEF SourceFor
<1>2. CASE ~\E s \in d.sources : s.name = n
  BY <1>2 DEF SourceFor, Source, SourceNames
<1> QED BY <1>1, <1>2

LEMMA RouteForIsRoute ==
  ASSUME NEW d \in Canonical, NEW m \in Mapping, NEW n \in m.names
  PROVE  /\ RouteFor(d, m, n) \in Route
         /\ RouteFor(d, m, n).source = SourceFor(d, n).id /\ RouteFor(d, m, n).destination = m.id
         /\ RouteFor(d, m, n).lead = (n = m.lead) /\ RouteFor(d, m, n).paused = (n \in m.paused)
<1> DEFINE old == {r \in d.routes : r.source = SourceFor(d, n).id /\ r.destination = m.id}
           mode == IF old = {} THEN "inherit" ELSE Only(old).mode
<1>1. n \in XNames /\ m.id \in Ids
  BY DEF Mapping
<1>2. SourceFor(d, n).id \in Ids \cup XNames
  BY <1>1, SourceForIsSource DEF Source
<1>3. mode \in {"inherit", "recent", "new-only"}
  <2>1. CASE old = {}
    BY <2>1
  <2>2. CASE old # {}
    <3>1. Only(old) \in old
      BY <2>2, OnlyIsOne
    <3>2. Only(old) \in Route
      BY <3>1, CanonicalParts
    <3> QED BY <2>2, <3>2 DEF Route
  <2> QED BY <2>1, <2>2
<1>4. RouteFor(d, m, n) =
        [source |-> SourceFor(d, n).id, destination |-> m.id, paused |-> n \in m.paused, lead |-> n = m.lead, mode |-> mode]
  BY DEF RouteFor
<1> HIDE DEF mode
<1>5. (n \in m.paused) \in BOOLEAN /\ (n = m.lead) \in BOOLEAN
  OBVIOUS
<1>6. /\ RouteFor(d, m, n).source = SourceFor(d, n).id /\ RouteFor(d, m, n).destination = m.id
      /\ RouteFor(d, m, n).lead = (n = m.lead) /\ RouteFor(d, m, n).paused = (n \in m.paused)
  BY <1>4
<1>7. RouteFor(d, m, n) \in Route
  BY <1>1, <1>2, <1>3, <1>4, <1>5 DEF Route
<1> QED BY <1>6, <1>7
LEMMA DestinationOfIsDestination ==
  ASSUME NEW d \in Canonical, NEW m \in Mapping
  PROVE  /\ DestinationOf(d, m) \in Destination
         /\ DestinationOf(d, m).id = m.id /\ DestinationOf(d, m).who = m.who /\ DestinationOf(d, m).link = m.link
<1> DEFINE old == {x \in ToSet(d.destinations) : x.id = m.id}
           secret == IF m.link = None THEN m.secret ELSE None
           key == IF old = {} THEN StorageKey(m) ELSE Only(old).key
           legacy == IF old = {} THEN {m.id} ELSE Only(old).legacy
<1>1. /\ m.id \in Ids /\ m.who \in People /\ m.did \in BOOLEAN /\ m.policy \in BOOLEAN
      /\ m.link \in Ids \cup {None} /\ m.secret \in AppPasswords \cup {None}
  BY DEF Mapping
<1>2. secret \in AppPasswords \cup {None}
  BY <1>1
<1>3. key \in People \X BOOLEAN /\ legacy \in SUBSET Ids
  <2>1. CASE old = {}
    BY <1>1, <2>1 DEF StorageKey
  <2>2. CASE old # {}
    <3>1. Only(old) \in old
      BY <2>2, OnlyIsOne
    <3>2. Only(old) \in Destination
      BY <3>1, DestinationPlaces
    <3> QED BY <2>2, <3>2 DEF Destination
  <2> QED BY <2>1, <2>2
<1>4. DestinationOf(d, m) = [id |-> m.id, who |-> m.who, did |-> m.did, policy |-> m.policy, link |-> m.link,
                             secret |-> secret, key |-> key, legacy |-> legacy]
  BY DEF DestinationOf
<1> HIDE DEF secret, key, legacy
<1> QED BY <1>1, <1>2, <1>3, <1>4 DEF Destination

LEMMA RewrittenIsCanonical ==
  ASSUME NEW d \in Canonical, NEW ms \in Seq(Mapping)
  PROVE  WithMappings(d, ms) \in Canonical
<1> DEFINE new == WithMappings(d, ms)
           sources == new.sources
           routes == new.routes
           list == [i \in DOMAIN ms |-> DestinationOf(d, ms[i])]
<1>1. /\ \A i \in DOMAIN ms : ms[i] \in Mapping
      /\ ToSet(ms) \subseteq Mapping
  BY SequencePlaces
<1>2. list \in Seq(Destination)
  <2>1. list \in [DOMAIN ms -> Destination]
    BY <1>1, DestinationOfIsDestination
  <2> HIDE DEF list
  <2> QED BY <2>1, MappedIsSeq
<1>3. sources \subseteq Source
  <2> SUFFICES ASSUME NEW s \in sources PROVE s \in Source
    OBVIOUS
  <2>1. \/ s \in d.sources /\ s.name \notin XNames
        \/ \E m \in ToSet(ms) : \E n \in m.names : s = SourceFor(d, n)
    BY RewrittenSources
  <2>2. CASE s \in d.sources
    BY <2>2, CanonicalParts
  <2>3. CASE \E m \in ToSet(ms) : \E n \in m.names : s = SourceFor(d, n)
    <3>1. PICK m \in ToSet(ms), n \in XNames : s = SourceFor(d, n)
      BY <1>1, <2>3 DEF Mapping
    <3> QED BY <3>1, SourceForIsSource
  <2> QED BY <2>1, <2>2, <2>3
<1>4. routes \subseteq Route
  <2> SUFFICES ASSUME NEW r \in routes PROVE r \in Route
    OBVIOUS
  <2>1. \/ r \in d.routes
        \/ \E m \in ToSet(ms) : \E n \in m.names : r = RouteFor(d, m, n)
    BY RewrittenRoutes
  <2>2. CASE r \in d.routes
    BY <2>2, CanonicalParts
  <2>3. CASE \E m \in ToSet(ms) : \E n \in m.names : r = RouteFor(d, m, n)
    BY <1>1, <2>3, RouteForIsRoute
  <2> QED BY <2>1, <2>2, <2>3
<1>5. new = [version |-> d.version, sources |-> sources, destinations |-> list, routes |-> routes, accounts |-> d.accounts]
  <2>1. new.version = d.version /\ new.accounts = d.accounts /\ new.destinations = list
    BY RewrittenParts
  <2>2. \E S, D, R : new = [d EXCEPT !.sources = S, !.destinations = D, !.routes = R]
    BY Zenon DEF WithMappings
  <2>3. PICK S, D, R : new = [d EXCEPT !.sources = S, !.destinations = D, !.routes = R]
    BY <2>2
  <2>4. new = [version |-> d.version, sources |-> S, destinations |-> D, routes |-> R, accounts |-> d.accounts]
    <3> HIDE DEF new
    <3> QED BY <2>3 DEF Canonical
  <2> HIDE DEF new
  <2> QED BY <2>1, <2>4
<1> HIDE DEF new, sources, routes, list
<1>6. new \in Canonical
  BY <1>2, <1>3, <1>4, <1>5, CanonicalParts DEF Canonical
<1> QED BY <1>6 DEF new

\* Of the routes of X sources to a destination one leads at most.
LEMMA RewrittenLeads ==
  ASSUME NEW d \in Canonical, NEW ms \in Seq(Mapping),
         \A i, j \in DOMAIN ms : ms[i].id = ms[j].id => i = j,
         \A s, t \in WithMappings(d, ms).sources : s.id = t.id => s = t
  PROVE  LeadsFit(WithMappings(d, ms))
<1> DEFINE new == WithMappings(d, ms)
<1>1. ToSet(ms) \subseteq Mapping
  BY SequencePlaces
<1>2. ASSUME NEW x, NEW r \in RoutesTo(new, x), r.lead
      PROVE  \E m \in ToSet(ms) : \E n \in m.names : r = RouteFor(d, m, n) /\ n = m.lead /\ m.id = x.id
  <2>1. r \in new.routes /\ r.destination = x.id
    BY DEF RoutesTo
  <2>2. PICK s \in new.sources : s.name \in XNames /\ s.id = r.source
    BY DEF RoutesTo, XSources
  <2>3. ~\E t \in d.sources : t.name \notin XNames /\ t.id = r.source
    <3> SUFFICES ASSUME NEW t \in d.sources, t.name \notin XNames, t.id = r.source PROVE FALSE
      OBVIOUS
    <3>1. t \in new.sources
      BY RewrittenSources
    <3> QED BY <2>2, <3>1
  <2>4. PICK m \in ToSet(ms) : \E n \in m.names : r = RouteFor(d, m, n)
    BY <2>1, <2>3, RewrittenRoutes
  <2>5. PICK n \in m.names : r = RouteFor(d, m, n)
    BY <2>4
  <2>6. n = m.lead /\ m.id = x.id
    BY <1>1, <1>2, <2>1, <2>5, RouteForIsRoute
  <2> QED BY <2>5, <2>6
<1> SUFFICES ASSUME NEW x, NEW r \in RoutesTo(new, x), NEW q \in RoutesTo(new, x), r.lead, q.lead
             PROVE  r = q
  BY DEF LeadsFit
<1>3. PICK m \in ToSet(ms) : \E n \in m.names : r = RouteFor(d, m, n) /\ n = m.lead /\ m.id = x.id
  BY <1>2
<1>4. PICK l \in ToSet(ms) : \E n \in l.names : q = RouteFor(d, l, n) /\ n = l.lead /\ l.id = x.id
  BY <1>2
<1>5. m = l
  BY <1>3, <1>4 DEF ToSet
<1> QED BY <1>3, <1>4, <1>5

--------------------------------------------------------------------------------
(***************************************************************************)
(* A document of the present schema is sound when it is valid and in       *)
(* order; what is saved through mappings that have accounts is sound.      *)
(***************************************************************************)
Sound(d) == d \in Canonical /\ d.version = 8 /\ IsValidDocument(d) /\ IsInOrder(d)

LEMMA InOrderFits ==
  ASSUME NEW d \in Canonical, IsInOrder(d)
  PROVE  AccountsFit(d) /\ LeadsFit(d)
<1>1. ~IsMappingList(d)
  BY CanonicalParts DEF IsMappingList
<1> QED BY <1>1 DEF IsInOrder, AccountsFit, LeadsFit

LEMMA FittingIsSound ==
  ASSUME NEW d \in Canonical, d.version = 8, IsValidDocument(d), AccountsFit(d), LeadsFit(d),
         \A x \in ToSet(d.destinations) : x.link # None
  PROVE  Sound(d)
<1>1. ~IsMappingList(d)
  BY CanonicalParts DEF IsMappingList
<1>2. \A x \in ToSet(d.destinations) : x.link # None /\ AccountOf(d, x) # {}
  BY DEF IsValidDocument
<1> QED BY <1>1, <1>2 DEF Sound, IsInOrder, AccountsFit, LeadsFit

LEMMA SoundParts ==
  ASSUME NEW d, Sound(d)
  PROVE  /\ d \in Canonical /\ d.version = 8 /\ IsValidDocument(d) /\ AccountsFit(d) /\ LeadsFit(d)
         /\ \A x \in ToSet(d.destinations) : x.link # None /\ AccountOf(d, x) # {}
<1>1. d \in Canonical /\ d.version = 8 /\ IsValidDocument(d) /\ IsInOrder(d)
  BY DEF Sound
<1>2. ~IsMappingList(d)
  BY <1>1 DEF IsMappingList
<1>3. \A x \in ToSet(d.destinations) : x.link # None /\ AccountOf(d, x) # {}
  BY <1>1, <1>2 DEF IsInOrder
<1> QED BY <1>1, <1>3, InOrderFits

LEMMA RewrittenIsSound ==
  ASSUME NEW d \in Canonical, d.version = 8, NEW ms \in Seq(Mapping), IsValidDocument(WithMappings(d, ms)),
         \A m \in ToSet(ms) : m.link # None /\ \A a \in d.accounts : a.id = m.link => a.who = m.who
  PROVE  Sound(WithMappings(d, ms))
<1> DEFINE new == WithMappings(d, ms)
<1>1. new \in Canonical
  BY RewrittenIsCanonical
<1>2. new.version = 8 /\ new.accounts = d.accounts /\ new.destinations = [i \in DOMAIN ms |-> DestinationOf(d, ms[i])]
  BY RewrittenParts
<1>3. \A i \in DOMAIN ms : ms[i] \in Mapping /\ ms[i] \in ToSet(ms)
  BY SequencePlaces DEF ToSet
<1>4. ASSUME NEW x \in ToSet(new.destinations)
      PROVE  \E m \in ToSet(ms) : x.id = m.id /\ x.who = m.who /\ x.link = m.link
  <2>1. PICK i \in DOMAIN ms : x = DestinationOf(d, ms[i])
    BY <1>2 DEF ToSet
  <2> QED BY <1>3, <2>1, DestinationOfIsDestination
<1>5. \A i, j \in DOMAIN ms : ms[i].id = ms[j].id => i = j
  <2> SUFFICES ASSUME NEW i \in DOMAIN ms, NEW j \in DOMAIN ms, ms[i].id = ms[j].id PROVE i = j
    OBVIOUS
  <2>1. new.destinations[i].id = new.destinations[j].id /\ DOMAIN new.destinations = DOMAIN ms
    BY <1>2, <1>3, DestinationOfIsDestination
  <2> HIDE DEF new
  <2> QED BY <2>1 DEF IsValidDocument, new
<1>6. \A s, t \in new.sources : s.id = t.id => s = t
  BY DEF IsValidDocument
<1>7. LeadsFit(new)
  BY <1>5, <1>6, RewrittenLeads
<1>8. AccountsFit(new)
  <2> SUFFICES ASSUME NEW x \in ToSet(new.destinations), NEW a \in AccountOf(new, x) PROVE a.who = x.who
    BY DEF AccountsFit
  <2>1. PICK m \in ToSet(ms) : x.who = m.who /\ x.link = m.link
    BY <1>4
  <2>2. a \in d.accounts /\ a.id = m.link
    BY <1>2, <2>1 DEF AccountOf
  <2> QED BY <2>1, <2>2
<1>9. \A x \in ToSet(new.destinations) : x.link # None
  BY <1>4
<1> HIDE DEF new
<1>10. IsValidDocument(new)
  BY DEF new
<1>11. Sound(new)
  BY <1>1, <1>2, <1>7, <1>8, <1>9, <1>10, FittingIsSound
<1> QED BY <1>11 DEF new
LEMMA ProjectedLinks ==
  ASSUME NEW d \in Canonical, AccountsFit(d), \A x \in ToSet(d.destinations) : x.link # None,
         NEW m \in ToSet(ProjectedMappings(d))
  PROVE  /\ m.link # None /\ \A a \in d.accounts : a.id = m.link => a.who = m.who
         /\ \E x \in ToSet(d.destinations) : m.id = x.id /\ m.link = x.link /\ m.who = x.who
<1>1. PICK x \in ToSet(d.destinations) : m = ProjectedMapping(d, x)
  BY ProjectedPlaces
<1> DEFINE a == IF AccountOf(d, x) = {} THEN x ELSE Only(AccountOf(d, x))
<1>2. a.who = x.who
  BY OnlyIsOne DEF AccountsFit
<1>3. m.link = x.link /\ m.who = a.who /\ m.id = x.id
  BY <1>1 DEF ProjectedMapping
<1>4. m.link = x.link /\ m.who = x.who /\ m.id = x.id
  <2> HIDE DEF a
  <2> QED BY <1>2, <1>3
<1>5. \A b \in d.accounts : b.id = m.link => b.who = m.who
  BY <1>4 DEF AccountsFit, AccountOf
<1> QED BY <1>4, <1>5

\* Saving leaves a document sound.
LEMMA SavingKeeps ==
  ASSUME NEW d \in Canonical, d.version = 8, AccountsFit(d), \A x \in ToSet(d.destinations) : x.link # None,
         IsValidDocument(Saved(d))
  PROVE  Sound(Saved(d))
BY RewrittenIsSound, ProjectedLinks, ProjectedAreMappings DEF Saved

LEMMA WithAccounts ==
  ASSUME NEW d \in Canonical, NEW A \in SUBSET BlueskyAccount
  PROVE  LET new == [d EXCEPT !.accounts = A] IN
         /\ new \in Canonical /\ new.version = d.version /\ new.accounts = A /\ new.destinations = d.destinations
BY DEF Canonical

LEMMA RewrittenAccounts ==
  ASSUME NEW d \in Canonical, NEW ms
  PROVE  WithMappings(d, ms).accounts = d.accounts
BY RewrittenParts

LEMMA NoneIsNoId == None \notin Ids /\ None \notin XNames
BY TransferAssumption DEF Ids

LEMMA ValidAccounts ==
  ASSUME NEW d, IsValidDocument(d)
  PROVE  \A a, b \in d.accounts : a.id = b.id => a = b
BY DEF IsValidDocument

LEMMA CreationKeeps ==
  ASSUME NEW d, Sound(d), NEW n \in Nat, n + 1 \in Ids, NEW p \in People, NEW secret \in AppPasswords,
         NEW names \in SUBSET XNames,
         NEW a, a = [id |-> n, who |-> p, did |-> TRUE, secret |-> secret],
         NEW m, m = [id |-> n + 1, who |-> p, did |-> TRUE, secret |-> secret, policy |-> FALSE, link |-> n,
                     names |-> names, paused |-> {}, lead |-> None],
         NEW new, new = WithMappings([d EXCEPT !.accounts = @ \cup {a}], Append(ProjectedMappings(d), m)),
         IsValidDocument(new)
  PROVE  Sound(new)
<1> DEFINE e == [d EXCEPT !.accounts = @ \cup {a}]
           ms == Append(ProjectedMappings(d), m)
<1>1. n \in Ids /\ None \notin Ids
  BY NoneIsNoId, TransferAssumption DEF Ids
<1>2. a \in BlueskyAccount /\ m \in Mapping
  BY <1>1, TransferAssumption DEF BlueskyAccount, Mapping
<1>3. d \in Canonical /\ d.version = 8
  BY SoundParts
<1>4. /\ e \in Canonical /\ e.version = d.version /\ e.accounts = d.accounts \cup {a}
      /\ e.destinations = d.destinations
  <2>1. d.accounts \cup {a} \in SUBSET BlueskyAccount
    BY <1>2, <1>3, CanonicalParts
  <2> QED BY <1>3, <2>1, WithAccounts
<1>5. ms \in Seq(Mapping) /\ ToSet(ms) \subseteq ToSet(ProjectedMappings(d)) \cup {m}
  <2>1. ProjectedMappings(d) \in Seq(Mapping)
    BY <1>3, ProjectedAreMappings
  <2> DEFINE ps == ProjectedMappings(d)
  <2>2. /\ ms \in Seq(Mapping) /\ DOMAIN ms = 1 .. Len(ps) + 1 /\ ms[Len(ps) + 1] = m
        /\ \A i \in 1 .. Len(ps) : ms[i] = ps[i]
    <3> HIDE DEF ps
    <3> QED BY <1>2, <2>1, AppendProperties, LenProperties DEF ps
  <2>3. Len(ps) \in Nat /\ DOMAIN ps = 1 .. Len(ps)
    BY <2>1, LenProperties
  <2> HIDE DEF ps, ms
  <2>4. ASSUME NEW l \in ToSet(ms) PROVE l \in ToSet(ps) \cup {m}
    <3>1. PICK i \in 1 .. Len(ps) + 1 : l = ms[i]
      BY <2>2, <2>4 DEF ToSet
    <3>2. i \in 1 .. Len(ps) \/ i = Len(ps) + 1
      BY <2>3
    <3>3. i \in 1 .. Len(ps) => ps[i] \in ToSet(ps)
      BY <2>3 DEF ToSet
    <3> QED BY <2>2, <3>1, <3>2, <3>3
  <2> QED BY <2>2, <2>4 DEF ps
<1>6. e.accounts = new.accounts
  <2>1. new = WithMappings(e, ms)
    OBVIOUS
  <2> HIDE DEF e, ms
  <2> QED BY <1>4, <2>1, RewrittenAccounts
<1>7. \A b, c \in e.accounts : b.id = c.id => b = c
  <2> HIDE DEF e
  <2> QED BY <1>6, ValidAccounts
<1>8. ASSUME NEW l \in ToSet(ms) PROVE l.link # None /\ \A b \in e.accounts : b.id = l.link => b.who = l.who
  <2>1. CASE l = m
    <3>1. a \in e.accounts /\ a.id = m.link /\ a.who = m.who /\ m.link # None
      BY <1>1, <1>4
    <3> HIDE DEF e
    <3> QED BY <1>7, <2>1, <3>1
  <2>2. CASE l \in ToSet(ProjectedMappings(d))
    <3>1. PICK x \in ToSet(d.destinations) : l.link = x.link /\ l.who = x.who
      BY <1>3, <2>2, ProjectedLinks, SoundParts
    <3>2. PICK c \in d.accounts : c.id = x.link /\ c.who = x.who /\ x.link # None
      BY SoundParts DEF AccountOf, AccountsFit
    <3>3. c \in e.accounts
      BY <1>4
    <3> HIDE DEF e
    <3> QED BY <1>7, <3>1, <3>2, <3>3
  <2> QED BY <1>5, <1>8, <2>1, <2>2
<1>9. new = WithMappings(e, ms)
  OBVIOUS
<1> HIDE DEF e, ms
<1> QED BY <1>3, <1>4, <1>5, <1>8, <1>9, RewrittenIsSound

LEMMA DeletionKeeps ==
  ASSUME NEW d, Sound(d), NEW i \in DOMAIN d.destinations,
         IsValidDocument(WithMappings(d, RemoveAt(ProjectedMappings(d), i)))
  PROVE  Sound(WithMappings(d, RemoveAt(ProjectedMappings(d), i)))
<1> DEFINE ps == ProjectedMappings(d)
           front == SubSeq(ps, 1, i - 1)
           back == SubSeq(ps, i + 1, Len(ps))
<1>1. d \in Canonical /\ d.version = 8 /\ AccountsFit(d) /\ \A x \in ToSet(d.destinations) : x.link # None
  BY SoundParts
<1>2. ps \in Seq(Mapping) /\ Len(ps) \in Nat /\ i \in 1 .. Len(ps) /\ DOMAIN ps = 1 .. Len(ps)
  <2>1. ps \in Seq(Mapping) /\ Len(ps) = Len(d.destinations)
    BY <1>1, ProjectedAreMappings
  <2>2. DOMAIN d.destinations = 1 .. Len(d.destinations) /\ Len(d.destinations) \in Nat
    BY <1>1, DestinationPlaces
  <2> HIDE DEF ps
  <2> QED BY <2>1, <2>2, LenProperties
<1> HIDE DEF ps
<1>3. front \in Seq(ToSet(ps)) /\ back \in Seq(ToSet(ps)) /\ ToSet(ps) \subseteq Mapping
  <2>1. ps \in Seq(ToSet(ps)) /\ ToSet(ps) \subseteq Mapping
    <3>1. \A j \in 1 .. Len(ps) : ps[j] \in ToSet(ps)
      BY <1>2 DEF ToSet
    <3>2. ps \in Seq(ToSet(ps))
      BY <1>2, <3>1, SeqOfRange, RangeOfSeq, IsASeq
    <3> QED BY <1>2, <3>2, SequencePlaces
  <2> QED BY <1>2, <2>1, SubSeqProperties
<1>4. RemoveAt(ps, i) \in Seq(ToSet(ps))
  BY <1>3, ConcatProperties DEF RemoveAt
<1>5. RemoveAt(ps, i) \in Seq(Mapping) /\ ToSet(RemoveAt(ps, i)) \subseteq ToSet(ps)
  <2>1. RemoveAt(ps, i) \in Seq(Mapping)
    BY <1>3, <1>4, SeqMonotonic
  <2> QED BY <1>4, <2>1, SequencePlaces
<1>6. \A m \in ToSet(RemoveAt(ps, i)) : m.link # None /\ \A a \in d.accounts : a.id = m.link => a.who = m.who
  BY <1>1, <1>5, ProjectedLinks DEF ps
<1> QED BY <1>1, <1>5, <1>6, RewrittenIsSound DEF ps

Relinked(ms, x, a) ==
  [i \in DOMAIN ms |-> IF ms[i].id = x.id
     THEN [ms[i] EXCEPT !.link = a.id, !.who = a.who, !.did = a.did] ELSE ms[i]]

LEMMA RelinkingKeeps ==
  ASSUME NEW d, Sound(d), NEW x \in ToSet(d.destinations), NEW a \in d.accounts,
         NEW ms, ms = ProjectedMappings(d),
         NEW ls, ls = Relinked(ms, x, a), IsValidDocument(WithMappings(d, ls))
  PROVE  Sound(WithMappings(d, ls))
<1>0. ls = [i \in DOMAIN ms |-> IF ms[i].id = x.id
              THEN [ms[i] EXCEPT !.link = a.id, !.who = a.who, !.did = a.did] ELSE ms[i]]
  BY DEF Relinked
<1>1. /\ d \in Canonical /\ d.version = 8 /\ AccountsFit(d) /\ IsValidDocument(d)
      /\ \A y \in ToSet(d.destinations) : y.link # None
  BY SoundParts
<1>2. ms \in Seq(Mapping)
  BY <1>1, ProjectedAreMappings
<1>3. a \in BlueskyAccount
  BY <1>1, CanonicalParts
<1>4. ASSUME NEW i \in DOMAIN ms
      PROVE  ls[i] \in Mapping /\ ls[i].link # None /\ \A b \in d.accounts : b.id = ls[i].link => b.who = ls[i].who
  <2>1. ms[i] \in Mapping /\ ms[i] \in ToSet(ms)
    BY <1>2, SequencePlaces DEF ToSet
  <2>2. CASE ms[i].id = x.id
    <3>1. ls[i] = [ms[i] EXCEPT !.link = a.id, !.who = a.who, !.did = a.did]
      BY <1>0, <2>2
    <3>2. ls[i] \in Mapping /\ ls[i].link = a.id /\ ls[i].who = a.who
      BY <1>3, <2>1, <3>1 DEF Mapping, BlueskyAccount
    <3>3. a.id # None
      BY <1>3, NoneIsNoId DEF BlueskyAccount
    <3>4. \A b \in d.accounts : b.id = a.id => b = a
      BY <1>1 DEF IsValidDocument
    <3> QED BY <3>2, <3>3, <3>4
  <2>3. CASE ms[i].id # x.id
    <3>1. ls[i] = ms[i]
      BY <1>0, <2>3
    <3> QED BY <1>1, <2>1, <3>1, ProjectedLinks
  <2> QED BY <2>2, <2>3
<1>5. ls \in Seq(Mapping) /\ DOMAIN ls = DOMAIN ms
  <2>1. ls \in [DOMAIN ms -> Mapping]
    BY <1>0, <1>4
  <2> QED BY <1>2, <2>1, MappedIsSeq
<1>6. ASSUME NEW m \in ToSet(ls) PROVE m.link # None /\ \A b \in d.accounts : b.id = m.link => b.who = m.who
  <2>1. PICK i \in DOMAIN ms : m = ls[i]
    BY <1>5 DEF ToSet
  <2> QED BY <1>4, <2>1
<1> QED BY <1>1, <1>5, <1>6, RewrittenIsSound

LEMMA DroppingKeeps ==
  ASSUME NEW d, Sound(d), NEW a \in d.accounts, \A x \in ToSet(d.destinations) : x.link # a.id,
         NEW new, new = [d EXCEPT !.accounts = @ \ {a}], IsValidDocument(Saved(new))
  PROVE  Sound(Saved(new))
<1>1. d \in Canonical /\ d.version = 8 /\ AccountsFit(d) /\ \A x \in ToSet(d.destinations) : x.link # None
  BY SoundParts
<1>2. d.accounts \ {a} \in SUBSET BlueskyAccount
  BY <1>1, CanonicalParts
<1>3. new \in Canonical /\ new.version = 8 /\ new.accounts = d.accounts \ {a} /\ new.destinations = d.destinations
  BY <1>1, <1>2, WithAccounts
<1>4. AccountsFit(new)
  BY <1>1, <1>3 DEF AccountsFit, AccountOf
<1> QED BY <1>1, <1>3, <1>4, SavingKeeps

Posted(d, n, name, D) ==
  [d EXCEPT !.sources = @ \cup {[id |-> n, name |-> name]},
            !.routes = @ \cup {[source |-> n, destination |-> x.id, paused |-> FALSE, lead |-> FALSE,
                                mode |-> "inherit"] : x \in D}]

LEMMA PostingKeeps ==
  ASSUME NEW d, Sound(d), NEW n \in Ids, NEW name \in SourceNames, NEW D \in SUBSET ToSet(d.destinations),
         NEW new, new = Posted(d, n, name, D),
         IsValidDocument(new)
  PROVE  Sound(new)
<1> DEFINE s == [id |-> n, name |-> name]
           R == {[source |-> n, destination |-> x.id, paused |-> FALSE, lead |-> FALSE, mode |-> "inherit"] : x \in D}
<1>1. /\ d \in Canonical /\ d.version = 8 /\ IsValidDocument(d) /\ AccountsFit(d) /\ LeadsFit(d)
      /\ \A x \in ToSet(d.destinations) : x.link # None
  BY SoundParts
<1>2. s \in Source /\ R \subseteq Route /\ \A r \in R : ~r.lead
  <2>1. \A x \in D : x.id \in Ids
    BY <1>1, DestinationPlaces DEF Destination
  <2>2. s \in Source
    BY DEF Source
  <2>3. ASSUME NEW r \in R PROVE r \in Route /\ ~r.lead
    <3>1. PICK x \in D :
            r = [source |-> n, destination |-> x.id, paused |-> FALSE, lead |-> FALSE, mode |-> "inherit"]
      OBVIOUS
    <3> QED BY <2>1, <3>1 DEF Route
  <2> HIDE DEF s, R
  <2> QED BY <2>2, <2>3
<1>3. /\ new \in Canonical /\ new.version = 8 /\ new.accounts = d.accounts /\ new.destinations = d.destinations
      /\ new.sources = d.sources \cup {s} /\ new.routes = d.routes \cup R
  <2>1. new = [d EXCEPT !.sources = d.sources \cup {s}, !.routes = d.routes \cup R]
    BY DEF Posted
  <2>2. d.sources \cup {s} \subseteq Source /\ d.routes \cup R \subseteq Route
    BY <1>1, <1>2, CanonicalParts
  <2> HIDE DEF s, R
  <2> QED BY <1>1, <2>1, <2>2 DEF Canonical
<1> HIDE DEF s, R
<1>4. AccountsFit(new)
  BY <1>1, <1>3 DEF AccountsFit, AccountOf
<1>5. ASSUME NEW x, NEW r \in RoutesTo(new, x), r.lead PROVE r \in RoutesTo(d, x)
  <2>1. r \in d.routes /\ r.destination = x.id
    BY <1>2, <1>3, <1>5 DEF RoutesTo
  <2>2. PICK t \in new.sources : t.name \in XNames /\ t.id = r.source
    BY DEF RoutesTo, XSources
  <2>3. PICK o \in d.sources : o.id = r.source
    BY <1>1, <2>1 DEF IsValidDocument
  <2>4. o = t
    BY <1>3, <2>2, <2>3 DEF IsValidDocument
  <2> QED BY <2>1, <2>2, <2>3, <2>4 DEF RoutesTo, XSources
<1>6. LeadsFit(new)
  <2> SUFFICES ASSUME NEW x \in ToSet(d.destinations), NEW r \in RoutesTo(new, x), NEW q \in RoutesTo(new, x),
                      r.lead, q.lead
               PROVE  r = q
    BY <1>3 DEF LeadsFit
  <2> QED BY <1>1, <1>5 DEF LeadsFit
<1> QED BY <1>1, <1>3, <1>4, <1>6, FittingIsSound
--------------------------------------------------------------------------------
(***************************************************************************)
(* The ladder, from the first schema with destinations on.                 *)
(***************************************************************************)
\* Destinations keep their ids and their people.
IsSameList(D, E) == DOMAIN D = DOMAIN E /\ \A i \in DOMAIN D : E[i].id = D[i].id /\ E[i].who = D[i].who

LEMMA NormalizedParts ==
  ASSUME NEW d \in Canonical
  PROVE  /\ Normalized(d) \in Canonical /\ Normalized(d).version = d.version /\ Normalized(d).accounts = d.accounts
         /\ Normalized(d).sources = d.sources /\ Normalized(d).routes = d.routes
         /\ DOMAIN Normalized(d).destinations = DOMAIN d.destinations
         /\ Len(Normalized(d).destinations) = Len(d.destinations)
         /\ \A i \in DOMAIN d.destinations :
              /\ Normalized(d).destinations[i].id = d.destinations[i].id
              /\ Normalized(d).destinations[i].who = d.destinations[i].who
              /\ Normalized(d).destinations[i].link = d.destinations[i].link
              /\ Normalized(d).destinations[i].secret = d.destinations[i].secret
<1> DEFINE D == d.destinations
           list == [i \in DOMAIN D |-> ReadDestination(D[i])]
<1>1. ASSUME NEW x \in Destination
      PROVE  /\ ReadDestination(x) \in Destination /\ ReadDestination(x).id = x.id /\ ReadDestination(x).who = x.who
             /\ ReadDestination(x).link = x.link /\ ReadDestination(x).secret = x.secret
  <2>1. (IF x.legacy = {} THEN {x.id} ELSE x.legacy) \in SUBSET Ids
    BY DEF Destination
  <2> QED BY <2>1 DEF ReadDestination, Destination
<1>2. D \in Seq(Destination) /\ \A i \in DOMAIN D : D[i] \in Destination
  BY CanonicalParts, DestinationPlaces
<1>3. list \in Seq(Destination) /\ DOMAIN list = DOMAIN D /\ Len(list) = Len(D)
  <2>1. list \in [DOMAIN D -> Destination]
    BY <1>1, <1>2
  <2> HIDE DEF list
  <2> QED BY <1>2, <2>1, MappedIsSeq
<1>4. \A i \in DOMAIN D : list[i] = ReadDestination(D[i])
  OBVIOUS
<1>5. Normalized(d) = [d EXCEPT !.destinations = list]
  BY DEF Normalized
<1> HIDE DEF list
<1>6. /\ Normalized(d) \in Canonical /\ Normalized(d).version = d.version /\ Normalized(d).accounts = d.accounts
      /\ Normalized(d).sources = d.sources /\ Normalized(d).routes = d.routes /\ Normalized(d).destinations = list
  BY <1>3, <1>5 DEF Canonical
<1> QED BY <1>1, <1>2, <1>3, <1>4, <1>6

LEMMA ExtractedParts ==
  ASSUME NEW d \in Canonical, NEW n \in Nat, NEW i \in DOMAIN d.destinations, n + Len(d.destinations) <= MaxFresh + 1
  PROVE  /\ ExtractedAccount(d, n, i) \in BlueskyAccount
         /\ ExtractedAccount(d, n, i).who = d.destinations[i].who
<1> DEFINE x == d.destinations[i]
<1>1. x \in Destination
  BY DestinationPlaces
<1>2. CASE AccountsLike(d, x) # {}
  <2>1. Only(AccountsLike(d, x)) \in AccountsLike(d, x)
    BY <1>2, OnlyIsOne
  <2>2. Only(AccountsLike(d, x)) \in BlueskyAccount /\ Only(AccountsLike(d, x)).who = x.who
    BY <2>1, CanonicalParts DEF AccountsLike, Identity
  <2> QED BY <1>2, <2>2 DEF ExtractedAccount
<1>3. CASE AccountsLike(d, x) = {}
  <2>1. ExtractedAccount(d, n, i) = [id |-> n + i - 1, who |-> x.who, did |-> x.did, secret |-> x.secret]
    BY <1>3 DEF ExtractedAccount
  <2>2. n + i - 1 \in Ids
    <3>1. i \in 1 .. Len(d.destinations) /\ Len(d.destinations) \in Nat
      BY DestinationPlaces
    <3>2. PICK k \in Nat : k = Len(d.destinations)
      BY <3>1
    <3> QED BY <3>1, <3>2, TransferAssumption DEF Ids
  <2>3. x.who \in People /\ x.did \in BOOLEAN /\ x.secret \in AppPasswords \cup {None}
    BY <1>1 DEF Destination
  <2> HIDE DEF x
  <2>4. ExtractedAccount(d, n, i).who = x.who
    BY <2>1
  <2> QED BY <2>1, <2>2, <2>3, <2>4 DEF BlueskyAccount, x
<1> QED BY <1>2, <1>3

LEMMA ExtractionParts ==
  ASSUME NEW d \in Canonical, NEW n \in Nat, n + Len(d.destinations) <= MaxFresh + 1
  PROVE  /\ V6ToV7(d, n) \in Canonical /\ V6ToV7(d, n).version = d.version
         /\ V6ToV7(d, n).sources = d.sources /\ V6ToV7(d, n).routes = d.routes
         /\ IsSameList(d.destinations, V6ToV7(d, n).destinations)
         /\ d.accounts \subseteq V6ToV7(d, n).accounts
         /\ \A i \in DOMAIN d.destinations :
              IF IsInline(d.destinations[i])
              THEN /\ V6ToV7(d, n).destinations[i].link = ExtractedAccount(d, n, i).id
                   /\ ExtractedAccount(d, n, i) \in V6ToV7(d, n).accounts
              ELSE V6ToV7(d, n).destinations[i].link = d.destinations[i].link
<1> DEFINE D == d.destinations
           Moved(i) == IF IsInline(D[i]) THEN [D[i] EXCEPT !.link = ExtractedAccount(d, n, i).id, !.secret = None] ELSE D[i]
           list == [i \in DOMAIN D |-> Moved(i)]
           accounts == d.accounts \cup {ExtractedAccount(d, n, i) : i \in {i \in DOMAIN D : IsInline(D[i])}}
<1>1. D \in Seq(Destination) /\ \A i \in DOMAIN D : D[i] \in Destination
  BY CanonicalParts, DestinationPlaces
<1>2. \A i \in DOMAIN D : ExtractedAccount(d, n, i) \in BlueskyAccount
  BY ExtractedParts
<1>3. ASSUME NEW i \in DOMAIN D
      PROVE  /\ Moved(i) \in Destination /\ Moved(i).id = D[i].id /\ Moved(i).who = D[i].who
             /\ Moved(i).link = IF IsInline(D[i]) THEN ExtractedAccount(d, n, i).id ELSE D[i].link
  <2>1. ExtractedAccount(d, n, i).id \in Ids
    BY <1>2 DEF BlueskyAccount
  <2> QED BY <1>1, <2>1 DEF Destination
<1>4. list \in Seq(Destination) /\ DOMAIN list = DOMAIN D /\ \A i \in DOMAIN D : list[i] = Moved(i)
  <2>1. list \in [DOMAIN D -> Destination]
    <3> HIDE DEF Moved
    <3> QED BY <1>3
  <2>2. \A i \in DOMAIN D : list[i] = Moved(i)
    <3> HIDE DEF Moved
    <3> QED OBVIOUS
  <2> HIDE DEF list, Moved
  <2> QED BY <1>1, <2>1, <2>2, MappedIsSeq
<1>5. /\ accounts \subseteq BlueskyAccount /\ d.accounts \subseteq accounts
      /\ \A i \in DOMAIN D : IsInline(D[i]) => ExtractedAccount(d, n, i) \in accounts
  BY <1>2, CanonicalParts
<1>6. V6ToV7(d, n) = [d EXCEPT !.accounts = accounts, !.destinations = list]
  BY DEF V6ToV7
<1> HIDE DEF list, accounts, Moved
<1>7. /\ V6ToV7(d, n) \in Canonical /\ V6ToV7(d, n).version = d.version
      /\ V6ToV7(d, n).sources = d.sources /\ V6ToV7(d, n).routes = d.routes
      /\ V6ToV7(d, n).destinations = list /\ V6ToV7(d, n).accounts = accounts
  BY <1>4, <1>5, <1>6 DEF Canonical
<1> QED BY <1>3, <1>4, <1>5, <1>7 DEF IsSameList
RecentRoutes(R) == {[r EXCEPT !.mode = "recent"] : r \in R}

LEMMA ModesParts ==
  ASSUME NEW d \in Canonical
  PROVE  /\ V7ToV8(d) \in Canonical /\ V7ToV8(d).version = d.version /\ V7ToV8(d).accounts = d.accounts
         /\ V7ToV8(d).sources = d.sources /\ V7ToV8(d).destinations = d.destinations
         /\ V7ToV8(d).routes = RecentRoutes(d.routes)
<1>1. V7ToV8(d) = [d EXCEPT !.routes = RecentRoutes(d.routes)]
  BY DEF V7ToV8, RecentRoutes
<1>2. RecentRoutes(d.routes) \subseteq Route
  BY CanonicalParts DEF RecentRoutes, Route
<1> QED BY <1>1, <1>2 DEF Canonical

LEMMA UpgradedParts ==
  ASSUME NEW e \in Canonical
  PROVE  /\ [e EXCEPT !.version = 8] \in Canonical /\ [e EXCEPT !.version = 8].version = 8
         /\ [e EXCEPT !.version = 8].sources = e.sources /\ [e EXCEPT !.version = 8].routes = e.routes
         /\ [e EXCEPT !.version = 8].destinations = e.destinations /\ [e EXCEPT !.version = 8].accounts = e.accounts
<1>1. [e EXCEPT !.version = 8] =
        [version |-> 8, sources |-> e.sources, destinations |-> e.destinations, routes |-> e.routes, accounts |-> e.accounts]
  BY DEF Canonical
<1>2. /\ e.sources \in SUBSET Source /\ e.destinations \in Seq(Destination)
      /\ e.routes \in SUBSET Route /\ e.accounts \in SUBSET BlueskyAccount
  BY DEF Canonical
<1> QED BY <1>1, <1>2 DEF Canonical

LEMMA LadderParts ==
  ASSUME NEW d \in Canonical, NEW n \in Nat, n + Size(d) <= MaxFresh + 1, FromCanonical(d, n) # None
  PROVE  LET new == FromCanonical(d, n) IN
         /\ new \in Canonical /\ new.version = 8 /\ IsValidDocument(new)
         /\ new.sources = d.sources /\ new.routes = IF d.version < 8 THEN RecentRoutes(d.routes) ELSE d.routes
         /\ IsSameList(d.destinations, new.destinations) /\ d.accounts \subseteq new.accounts
         /\ \A i \in DOMAIN d.destinations :
              IF d.version < 7 /\ IsInline(d.destinations[i])
              THEN \E a \in new.accounts : a.id = new.destinations[i].link /\ a.who = d.destinations[i].who
              ELSE new.destinations[i].link = d.destinations[i].link
<1> DEFINE e == Normalized(d)
           d7 == IF d.version < 7 THEN V6ToV7(e, n) ELSE e
           d8 == IF d.version < 8 THEN V7ToV8(d7) ELSE d7
           new == [d8 EXCEPT !.version = 8]
           D == d.destinations
<1>1. /\ e \in Canonical /\ e.version = d.version /\ e.accounts = d.accounts
      /\ e.sources = d.sources /\ e.routes = d.routes
      /\ DOMAIN e.destinations = DOMAIN D /\ Len(e.destinations) = Len(D)
      /\ \A i \in DOMAIN D :
           /\ e.destinations[i].id = D[i].id /\ e.destinations[i].who = D[i].who
           /\ e.destinations[i].link = D[i].link /\ e.destinations[i].secret = D[i].secret
  BY NormalizedParts
<1> HIDE DEF e
<1>2. /\ d7 \in Canonical /\ d7.sources = d.sources /\ d7.routes = d.routes /\ IsSameList(D, d7.destinations)
      /\ d.accounts \subseteq d7.accounts
      /\ \A i \in DOMAIN D :
           IF d.version < 7 /\ IsInline(D[i])
           THEN \E a \in d7.accounts : a.id = d7.destinations[i].link /\ a.who = D[i].who
           ELSE d7.destinations[i].link = D[i].link
  <2>1. CASE d.version < 7
    <3>1. n + Len(e.destinations) <= MaxFresh + 1
      <4>1. Size(d) = Len(D)
        BY <2>1, CanonicalParts DEF Size, IsMappingList
      <4> QED BY <1>1, <4>1
    <3>2. /\ V6ToV7(e, n) \in Canonical /\ V6ToV7(e, n).sources = e.sources /\ V6ToV7(e, n).routes = e.routes
          /\ IsSameList(e.destinations, V6ToV7(e, n).destinations)
          /\ e.accounts \subseteq V6ToV7(e, n).accounts
          /\ \A i \in DOMAIN e.destinations :
               IF IsInline(e.destinations[i])
               THEN /\ V6ToV7(e, n).destinations[i].link = ExtractedAccount(e, n, i).id
                    /\ ExtractedAccount(e, n, i) \in V6ToV7(e, n).accounts
               ELSE V6ToV7(e, n).destinations[i].link = e.destinations[i].link
      BY <1>1, <3>1, ExtractionParts
    <3>3. \A i \in DOMAIN e.destinations : ExtractedAccount(e, n, i).who = e.destinations[i].who
      BY <1>1, <3>1, ExtractedParts
    <3>4. \A i \in DOMAIN D : IsInline(e.destinations[i]) <=> IsInline(D[i])
      BY <1>1 DEF IsInline
    <3>5. d7 = V6ToV7(e, n)
      BY <2>1
    <3> HIDE DEF d7
    <3>6. /\ d7 \in Canonical /\ d7.sources = d.sources /\ d7.routes = d.routes /\ d.accounts \subseteq d7.accounts
          /\ IsSameList(D, d7.destinations)
      BY <1>1, <3>2, <3>5 DEF IsSameList
    <3>7. ASSUME NEW i \in DOMAIN D
          PROVE  IF d.version < 7 /\ IsInline(D[i])
                 THEN \E a \in d7.accounts : a.id = d7.destinations[i].link /\ a.who = D[i].who
                 ELSE d7.destinations[i].link = D[i].link
      BY <1>1, <2>1, <3>2, <3>3, <3>4, <3>5
    <3> QED BY <3>6, <3>7
  <2>2. CASE ~(d.version < 7)
    BY <1>1, <2>2 DEF IsSameList
  <2> QED BY <2>1, <2>2
<1> HIDE DEF d7
<1>3. /\ d8 \in Canonical /\ d8.sources = d.sources /\ d8.destinations = d7.destinations /\ d8.accounts = d7.accounts
      /\ d8.routes = IF d.version < 8 THEN RecentRoutes(d.routes) ELSE d.routes
  BY <1>2, ModesParts
<1> HIDE DEF d8
<1>4. /\ new \in Canonical /\ new.version = 8 /\ new.sources = d8.sources /\ new.destinations = d8.destinations
      /\ new.accounts = d8.accounts /\ new.routes = d8.routes
  BY <1>3, UpgradedParts
<1>5. FromCanonical(d, n) = IF IsValidDocument(new) THEN new ELSE None
  BY DEF FromCanonical, d8, d7, e
<1> HIDE DEF new
<1>6. FromCanonical(d, n) = new /\ IsValidDocument(new)
  BY <1>5
<1> QED BY <1>2, <1>3, <1>4, <1>6

\* What comes up the ladder is sound.
LEMMA LadderIsSound ==
  ASSUME NEW d \in Canonical, IsInOrder(d), NEW n \in Nat, n + Size(d) <= MaxFresh + 1, FromCanonical(d, n) # None
  PROVE  Sound(FromCanonical(d, n))
<1> DEFINE new == FromCanonical(d, n)
           D == d.destinations
<1>1. /\ new \in Canonical /\ new.version = 8 /\ IsValidDocument(new)
      /\ new.sources = d.sources /\ new.routes = IF d.version < 8 THEN RecentRoutes(d.routes) ELSE d.routes
      /\ IsSameList(d.destinations, new.destinations) /\ d.accounts \subseteq new.accounts
  BY LadderParts
<1>2. \A i \in DOMAIN D :
        IF d.version < 7 /\ IsInline(D[i])
        THEN \E a \in new.accounts : a.id = new.destinations[i].link /\ a.who = D[i].who
        ELSE new.destinations[i].link = D[i].link
  BY LadderParts
<1> HIDE DEF new
<1>3. AccountsFit(d) /\ LeadsFit(d)
  BY InOrderFits
<1>4. \A x \in ToSet(D) : IF x.link = None THEN d.version < 7 /\ x.secret # None ELSE AccountOf(d, x) # {}
  <2>1. ~IsMappingList(d)
    BY CanonicalParts DEF IsMappingList
  <2> QED BY <2>1 DEF IsInOrder
<1>5. \A i \in DOMAIN D : D[i] \in ToSet(D)
  BY DEF ToSet
<1>6. ASSUME NEW i \in DOMAIN D
      PROVE  \E a \in new.accounts : a.id = new.destinations[i].link /\ a.who = new.destinations[i].who
  <2>1. new.destinations[i].who = D[i].who
    BY <1>1 DEF IsSameList
  <2>2. CASE d.version < 7 /\ IsInline(D[i])
    BY <1>2, <2>1, <2>2
  <2>3. CASE ~(d.version < 7 /\ IsInline(D[i]))
    <3>1. new.destinations[i].link = D[i].link
      BY <1>2, <2>3
    <3>2. AccountOf(d, D[i]) # {}
      BY <1>4, <1>5, <2>3 DEF IsInline
    <3>3. PICK a \in AccountOf(d, D[i]) : TRUE
      BY <3>2
    <3>4. a \in d.accounts /\ a.id = D[i].link /\ a.who = D[i].who
      BY <1>3, <1>5 DEF AccountOf, AccountsFit
    <3> QED BY <1>1, <2>1, <3>1, <3>4
  <2> QED BY <2>2, <2>3
<1>7. ASSUME NEW x \in ToSet(new.destinations)
      PROVE  \E i \in DOMAIN D : x = new.destinations[i] /\ x.id = D[i].id
  BY <1>1 DEF ToSet, IsSameList
<1>8. AccountsFit(new) /\ \A x \in ToSet(new.destinations) : x.link # None
  <2> SUFFICES ASSUME NEW x \in ToSet(new.destinations)
               PROVE  x.link # None /\ \A a \in AccountOf(new, x) : a.who = x.who
    BY DEF AccountsFit
  <2>1. PICK a \in new.accounts : a.id = x.link /\ a.who = x.who
    BY <1>6, <1>7
  <2>2. a.id # None
    <3>1. a \in BlueskyAccount
      BY <1>1, CanonicalParts
    <3> QED BY <3>1, NoneIsNoId DEF BlueskyAccount
  <2>3. \A b \in AccountOf(new, x) : b = a
    BY <1>1, <2>1 DEF AccountOf, IsValidDocument
  <2> QED BY <2>1, <2>2, <2>3
<1>9. LeadsFit(new)
  <2> SUFFICES ASSUME NEW x \in ToSet(new.destinations), NEW r \in RoutesTo(new, x), NEW q \in RoutesTo(new, x),
                      r.lead, q.lead
               PROVE  r = q
    BY DEF LeadsFit
  <2>1. PICK i \in DOMAIN D : x.id = D[i].id
    BY <1>7
  <2>2. \A p \in RoutesTo(new, x) : \E o \in RoutesTo(d, D[i]) :
          p.lead = o.lead /\ p = IF d.version < 8 THEN [o EXCEPT !.mode = "recent"] ELSE o
    <3> SUFFICES ASSUME NEW p \in RoutesTo(new, x)
                 PROVE  \E o \in RoutesTo(d, D[i]) :
                          p.lead = o.lead /\ p = IF d.version < 8 THEN [o EXCEPT !.mode = "recent"] ELSE o
      OBVIOUS
    <3>1. p \in new.routes /\ p.destination = D[i].id /\ \E s \in XSources(d) : s.id = p.source
      BY <1>1, <2>1 DEF RoutesTo, XSources
    <3>2. PICK o \in d.routes : p = IF d.version < 8 THEN [o EXCEPT !.mode = "recent"] ELSE o
      BY <1>1, <3>1 DEF RecentRoutes
    <3>3. o \in Route
      BY CanonicalParts
    <3>4. p.lead = o.lead /\ p.source = o.source /\ p.destination = o.destination
      BY <3>2, <3>3 DEF Route
    <3> QED BY <3>1, <3>2, <3>4 DEF RoutesTo
  <2>3. PICK o \in RoutesTo(d, D[i]) : r.lead = o.lead /\ r = IF d.version < 8 THEN [o EXCEPT !.mode = "recent"] ELSE o
    BY <2>2
  <2>4. PICK p \in RoutesTo(d, D[i]) : q.lead = p.lead /\ q = IF d.version < 8 THEN [p EXCEPT !.mode = "recent"] ELSE p
    BY <2>2
  <2>5. o = p
    BY <1>3, <1>5, <2>3, <2>4 DEF LeadsFit
  <2> QED BY <2>3, <2>4, <2>5
<1>10. Sound(new)
  BY <1>1, <1>8, <1>9, FittingIsSound
<1> QED BY <1>10 DEF new

\* What becomes of a route, and of what it feeds, where there are no modes yet.
RouteAs(d, r) == IF d.version < 8 THEN [r EXCEPT !.mode = "recent"] ELSE r
FeedAs(d, f) == IF d.version < 8 THEN [f EXCEPT !.mode = "recent"] ELSE f

LEMMA FlowAs ==
  ASSUME NEW d, NEW s, NEW x, NEW y, NEW r \in Route, x.who = y.who
  PROVE  /\ FeedAs(d, Flow(s, y, r)) = Flow(s, x, RouteAs(d, r))
         /\ RouteAs(d, r).source = r.source /\ RouteAs(d, r).destination = r.destination
BY DEF FeedAs, RouteAs, Flow, Route

\* The ladder leads every source where it led.
LEMMA LadderFeeds ==
  ASSUME NEW d \in Canonical, IsInOrder(d), NEW n \in Nat, n + Size(d) <= MaxFresh + 1, FromCanonical(d, n) # None
  PROVE  Feeds(FromCanonical(d, n)) = FeedsOf(d)
<1> DEFINE new == FromCanonical(d, n)
           D == d.destinations
<1>1. /\ new.sources = d.sources /\ new.routes = IF d.version < 8 THEN RecentRoutes(d.routes) ELSE d.routes
      /\ IsSameList(D, new.destinations)
  BY LadderParts
<1>2. AccountsFit(d)
  BY InOrderFits
<1>3. AccountsFit(new)
  BY LadderIsSound, SoundParts
<1> HIDE DEF new
<1>4. \A r \in d.routes : r \in Route /\ RouteAs(d, r) \in new.routes
  BY <1>1, CanonicalParts DEF RouteAs, RecentRoutes
<1>5. \A r \in new.routes : \E o \in d.routes : r = RouteAs(d, o)
  BY <1>1 DEF RouteAs, RecentRoutes
<1>6. FeedsOf(d) = {FeedAs(d, f) : f \in Feeds(d)}
  <2>1. ~IsMappingList(d)
    BY CanonicalParts DEF IsMappingList
  <2> QED BY <2>1 DEF FeedsOf, FeedAs
<1>7. ASSUME NEW f \in Feeds(new) PROVE f \in {FeedAs(d, g) : g \in Feeds(d)}
  <2>1. PICK s, x, r : IsFed(new, s, x, r) /\ f = Flow(s, x, r)
    BY <1>3, FeedsAreFlows
  <2>2. PICK i \in DOMAIN D : x.id = D[i].id /\ x.who = D[i].who /\ D[i] \in ToSet(D)
    BY <1>1, <2>1 DEF IsFed, IsSameList, ToSet
  <2>3. PICK o \in d.routes : r = RouteAs(d, o) /\ o \in Route
    BY <1>4, <1>5, <2>1 DEF IsFed
  <2>4. /\ FeedAs(d, Flow(s, D[i], o)) = Flow(s, x, r)
        /\ r.source = o.source /\ r.destination = o.destination
    BY <2>2, <2>3, FlowAs
  <2>5. IsFed(d, s, D[i], o)
    BY <1>1, <2>1, <2>2, <2>3, <2>4 DEF IsFed
  <2>6. Flow(s, D[i], o) \in Feeds(d)
    BY <1>2, <2>5, FlowsAreFeeds
  <2> QED BY <2>1, <2>4, <2>6
<1>8. ASSUME NEW g \in Feeds(d) PROVE FeedAs(d, g) \in Feeds(new)
  <2>1. PICK s, y, o : IsFed(d, s, y, o) /\ g = Flow(s, y, o)
    BY <1>2, FeedsAreFlows
  <2>2. PICK i \in DOMAIN D : y = D[i]
    BY <2>1 DEF IsFed, ToSet
  <2>3. PICK x \in ToSet(new.destinations) : x.id = y.id /\ x.who = y.who
    BY <1>1, <2>2 DEF IsSameList, ToSet
  <2>4. o \in d.routes /\ o \in Route /\ RouteAs(d, o) \in new.routes
    BY <1>4, <2>1 DEF IsFed
  <2>5. /\ FeedAs(d, Flow(s, y, o)) = Flow(s, x, RouteAs(d, o))
        /\ RouteAs(d, o).source = o.source /\ RouteAs(d, o).destination = o.destination
    BY <2>3, <2>4, FlowAs
  <2>6. IsFed(new, s, x, RouteAs(d, o))
    BY <1>1, <2>1, <2>3, <2>4, <2>5 DEF IsFed
  <2> QED BY <1>3, <2>1, <2>5, <2>6, FlowsAreFeeds
<1>9. Feeds(new) = {FeedAs(d, g) : g \in Feeds(d)}
  BY <1>7, <1>8
<1> QED BY <1>6, <1>9 DEF new
--------------------------------------------------------------------------------
(***************************************************************************)
(* Lists of mappings: their projection onto an empty document.             *)
(***************************************************************************)
\* The list as it is read, and what a mapping of it becomes.
ReadList(d) ==
  LET e == IF d.version < 2 THEN V1ToV2(d) ELSE d IN [i \in DOMAIN e.mappings |-> ReadMapping(e.mappings[i])]
ListLead(d, m) == IF d.version = 2 /\ m.lead \in m.names \cup {None} THEN m.lead ELSE LeadOfOne(m.names)
IsListed(d, m, n) == IF d.version = 2 /\ m.lead \in m.names \cup {None} THEN n = m.lead ELSE m.names = {n}
PlainSource(n) == [id |-> n, name |-> n]
PlainRoute(m, n) ==
  [source |-> n, destination |-> m.id, paused |-> n \in m.paused, lead |-> n = m.lead, mode |-> "inherit"]

LEMMA LeadOfOneIsName ==
  ASSUME NEW names \in SUBSET XNames
  PROVE  /\ LeadOfOne(names) \in names \cup {None}
         /\ \A n \in names : n = LeadOfOne(names) <=> names = {n}
<1>1. CASE \E n \in names : names = {n}
  <2>1. PICK k \in names : names = {k}
    BY <1>1
  <2>2. LeadOfOne(names) = k
    BY <1>1, <2>1, OnlyIsThis DEF LeadOfOne
  <2> QED BY <2>1, <2>2
<1>2. CASE ~\E n \in names : names = {n}
  <2>1. LeadOfOne(names) = None
    BY <1>2 DEF LeadOfOne
  <2> QED BY <1>2, <2>1, NoneIsNoId
<1> QED BY <1>1, <1>2

LEMMA ListParts ==
  ASSUME NEW d \in MappingList
  PROVE  /\ d.version \in 0 .. 2 /\ d.mappings \in Seq(Mapping) /\ Len(d.mappings) \in Nat
         /\ DOMAIN d.mappings = 1 .. Len(d.mappings) /\ \A i \in DOMAIN d.mappings : d.mappings[i] \in Mapping
<1>1. d.version \in 0 .. 2 /\ d.mappings \in Seq(Mapping)
  BY DEF MappingList
<1> QED BY <1>1, SequencePlaces

\* One mapping, through the first schemas and its reading.
LEMMA ReadMappingParts ==
  ASSUME NEW m \in Mapping, NEW e \in Mapping, e = m \/ e = [m EXCEPT !.lead = LeadOfOne(m.names)]
  PROVE  /\ ReadMapping(e) \in Mapping
         /\ ReadMapping(e).id = m.id /\ ReadMapping(e).who = m.who /\ ReadMapping(e).names = m.names
         /\ ReadMapping(e).link = m.link
         /\ ReadMapping(e).paused = m.paused \cap m.names
         /\ ReadMapping(e).lead = IF e.lead \in m.names \cup {None} THEN e.lead ELSE LeadOfOne(m.names)
<1>1. /\ e.id = m.id /\ e.who = m.who /\ e.names = m.names /\ e.link = m.link /\ e.paused = m.paused
      /\ m.names \in SUBSET XNames
  BY DEF Mapping
<1>2. LeadOfOne(m.names) \in m.names \cup {None}
  BY <1>1, LeadOfOneIsName
<1>3. PICK lead : lead = IF e.lead \in m.names \cup {None} THEN e.lead ELSE LeadOfOne(m.names)
  OBVIOUS
<1>4. lead \in XNames \cup {None} /\ m.paused \cap m.names \in SUBSET XNames
  BY <1>1, <1>2, <1>3
<1>5. ReadMapping(e) = [e EXCEPT !.paused = m.paused \cap m.names, !.lead = lead]
  BY <1>1, <1>3 DEF ReadMapping
<1> QED BY <1>1, <1>3, <1>4, <1>5 DEF Mapping

LEMMA ReadListParts ==
  ASSUME NEW d \in MappingList
  PROVE  /\ ReadList(d) \in Seq(Mapping) /\ Len(ReadList(d)) = Len(d.mappings) /\ DOMAIN ReadList(d) = DOMAIN d.mappings
         /\ \A i \in DOMAIN d.mappings :
              /\ ReadList(d)[i].id = d.mappings[i].id /\ ReadList(d)[i].who = d.mappings[i].who
              /\ ReadList(d)[i].names = d.mappings[i].names
              /\ ReadList(d)[i].paused = d.mappings[i].paused \cap d.mappings[i].names
              /\ ReadList(d)[i].lead = ListLead(d, d.mappings[i])
<1> DEFINE e == IF d.version < 2 THEN V1ToV2(d) ELSE d
           ms == d.mappings
           Earlier(m) == IF d.version < 2 THEN [m EXCEPT !.lead = LeadOfOne(m.names)] ELSE m
<1>1. d.version \in 0 .. 2 /\ ms \in Seq(Mapping) /\ \A i \in DOMAIN ms : ms[i] \in Mapping
  BY ListParts
<1>2. DOMAIN e.mappings = DOMAIN ms /\ \A i \in DOMAIN ms : e.mappings[i] = Earlier(ms[i])
  <2>1. CASE d.version < 2
    <3> DEFINE list == [i \in DOMAIN ms |-> [ms[i] EXCEPT !.lead = LeadOfOne(ms[i].names)]]
    <3>1. e = [d EXCEPT !.version = 2, !.mappings = list]
      BY <2>1 DEF V1ToV2
    <3>2. DOMAIN list = DOMAIN ms /\ \A i \in DOMAIN ms : list[i] = Earlier(ms[i])
      BY <2>1
    <3> HIDE DEF list, e, Earlier
    <3>3. e.mappings = list
      BY <3>1 DEF MappingList
    <3> QED BY <3>2, <3>3
  <2>2. CASE ~(d.version < 2)
    BY <2>2
  <2> QED BY <2>1, <2>2
<1>3. ASSUME NEW m \in Mapping
      PROVE  /\ Earlier(m) \in Mapping /\ (Earlier(m) = m \/ Earlier(m) = [m EXCEPT !.lead = LeadOfOne(m.names)])
             /\ (IF Earlier(m).lead \in m.names \cup {None} THEN Earlier(m).lead ELSE LeadOfOne(m.names)) = ListLead(d, m)
  <2>1. m.names \in SUBSET XNames
    BY DEF Mapping
  <2>2. LeadOfOne(m.names) \in m.names \cup {None}
    BY <2>1, LeadOfOneIsName
  <2>3. LeadOfOne(m.names) \in XNames \cup {None}
    BY <2>1, <2>2
  <2>4. CASE d.version < 2
    <3>1. Earlier(m) = [m EXCEPT !.lead = LeadOfOne(m.names)]
      BY <2>4
    <3>2. Earlier(m) \in Mapping /\ Earlier(m).lead = LeadOfOne(m.names)
      BY <2>3, <3>1 DEF Mapping
    <3>3. ListLead(d, m) = LeadOfOne(m.names)
      BY <1>1, <2>4 DEF ListLead
    <3> HIDE DEF Earlier
    <3> QED BY <2>2, <3>1, <3>2, <3>3
  <2>5. CASE d.version = 2
    BY <2>5 DEF ListLead
  <2> QED BY <1>1, <2>4, <2>5
<1>4. ReadList(d) = [i \in DOMAIN ms |-> ReadMapping(Earlier(ms[i]))]
  <2>1. ReadList(d) = [i \in DOMAIN e.mappings |-> ReadMapping(e.mappings[i])]
    BY DEF ReadList
  <2> HIDE DEF e, Earlier
  <2> QED BY <1>2, <2>1
<1> HIDE DEF e, Earlier
<1>5. \A i \in DOMAIN ms :
        /\ ReadMapping(Earlier(ms[i])) \in Mapping
        /\ ReadMapping(Earlier(ms[i])).id = ms[i].id /\ ReadMapping(Earlier(ms[i])).who = ms[i].who
        /\ ReadMapping(Earlier(ms[i])).names = ms[i].names
        /\ ReadMapping(Earlier(ms[i])).paused = ms[i].paused \cap ms[i].names
        /\ ReadMapping(Earlier(ms[i])).lead = ListLead(d, ms[i])
  BY <1>1, <1>3, ReadMappingParts
<1>6. ReadList(d) \in [DOMAIN ms -> Mapping]
  BY <1>4, <1>5
<1>7. ReadList(d) \in Seq(Mapping) /\ Len(ReadList(d)) = Len(ms) /\ DOMAIN ReadList(d) = DOMAIN ms
  BY <1>1, <1>6, MappedIsSeq
<1> QED BY <1>4, <1>5, <1>7

LEMMA EmptyIsCanonical ==
  EmptyDocument \in Canonical /\ EmptyDocument.version = 3 /\ EmptyDocument.sources = {}
  /\ EmptyDocument.destinations = <<>> /\ EmptyDocument.routes = {} /\ EmptyDocument.accounts = {}
<1>1. <<>> \in Seq(Destination)
  BY EmptySeq
<1> QED BY <1>1 DEF EmptyDocument, Canonical

ListProjection(d) == WithMappings(EmptyDocument, ReadList(d))

LEMMA PlainParts ==
  ASSUME NEW m, NEW n
  PROVE  SourceFor(EmptyDocument, n) = PlainSource(n) /\ RouteFor(EmptyDocument, m, n) = PlainRoute(m, n)
<1>1. SourceFor(EmptyDocument, n) = PlainSource(n)
  BY EmptyIsCanonical DEF SourceFor, PlainSource
<1>2. {r \in EmptyDocument.routes : r.source = SourceFor(EmptyDocument, n).id /\ r.destination = m.id} = {}
  BY EmptyIsCanonical
<1>3. SourceFor(EmptyDocument, n).id = n
  BY <1>1 DEF PlainSource
<1> QED BY <1>1, <1>2, <1>3 DEF RouteFor, PlainRoute

LEMMA ListedSources ==
  ASSUME NEW d \in MappingList, NEW s
  PROVE  s \in ListProjection(d).sources <=>
           \E i \in DOMAIN d.mappings : \E n \in d.mappings[i].names : s = PlainSource(n)
<1>1. s \in ListProjection(d).sources <=> \E m \in ToSet(ReadList(d)) : \E n \in m.names : s = SourceFor(EmptyDocument, n)
  BY EmptyIsCanonical, RewrittenSources DEF ListProjection
<1>2. \A n : SourceFor(EmptyDocument, n) = PlainSource(n)
  BY PlainParts
<1>3. DOMAIN ReadList(d) = DOMAIN d.mappings /\ \A i \in DOMAIN d.mappings : ReadList(d)[i].names = d.mappings[i].names
  BY ReadListParts
<1> QED BY <1>1, <1>2, <1>3 DEF ToSet

LEMMA ListedRoutes ==
  ASSUME NEW d \in MappingList, NEW r
  PROVE  r \in ListProjection(d).routes <=>
           \E i \in DOMAIN d.mappings : \E n \in d.mappings[i].names : r = PlainRoute(ReadList(d)[i], n)
<1>1. r \in ListProjection(d).routes <=> \E m \in ToSet(ReadList(d)) : \E n \in m.names : r = RouteFor(EmptyDocument, m, n)
  BY EmptyIsCanonical, RewrittenRoutes DEF ListProjection
<1>2. \A m, n : RouteFor(EmptyDocument, m, n) = PlainRoute(m, n)
  BY PlainParts
<1>3. DOMAIN ReadList(d) = DOMAIN d.mappings /\ \A i \in DOMAIN d.mappings : ReadList(d)[i].names = d.mappings[i].names
  BY ReadListParts
<1> QED BY <1>1, <1>2, <1>3 DEF ToSet

LEMMA ListProjectionParts ==
  ASSUME NEW d \in MappingList, IsInOrder(d)
  PROVE  /\ ListProjection(d) \in Canonical /\ ListProjection(d).version = 3 /\ ListProjection(d).accounts = {}
         /\ DOMAIN ListProjection(d).destinations = DOMAIN d.mappings
         /\ Len(ListProjection(d).destinations) = Len(d.mappings)
         /\ \A i \in DOMAIN d.mappings :
              /\ ListProjection(d).destinations[i].id = d.mappings[i].id
              /\ ListProjection(d).destinations[i].who = d.mappings[i].who
         /\ \A i, j \in DOMAIN d.mappings :
              ListProjection(d).destinations[i].id = ListProjection(d).destinations[j].id => i = j
         /\ AccountsFit(ListProjection(d)) /\ LeadsFit(ListProjection(d))
<1> DEFINE p == ListProjection(d)
           ms == ReadList(d)
           list == [i \in DOMAIN ms |-> DestinationOf(EmptyDocument, ms[i])]
<1>1. /\ ms \in Seq(Mapping) /\ Len(ms) = Len(d.mappings) /\ DOMAIN ms = DOMAIN d.mappings
      /\ \A i \in DOMAIN d.mappings : ms[i].id = d.mappings[i].id /\ ms[i].who = d.mappings[i].who
  BY ReadListParts
<1>2. p = WithMappings(EmptyDocument, ms)
  BY DEF ListProjection
<1> HIDE DEF ms, p
<1>3. p \in Canonical
  BY <1>1, <1>2, EmptyIsCanonical, RewrittenIsCanonical
<1>4. p.version = 3 /\ p.accounts = {} /\ p.destinations = list
  BY <1>2, EmptyIsCanonical, RewrittenParts
<1>5. \A i \in DOMAIN ms : /\ DestinationOf(EmptyDocument, ms[i]) \in Destination
                           /\ DestinationOf(EmptyDocument, ms[i]).id = ms[i].id
                           /\ DestinationOf(EmptyDocument, ms[i]).who = ms[i].who
  BY <1>1, EmptyIsCanonical, DestinationOfIsDestination, SequencePlaces
<1>6. list \in [DOMAIN ms -> Destination] /\ \A i \in DOMAIN ms : list[i] = DestinationOf(EmptyDocument, ms[i])
  BY <1>5
<1> HIDE DEF list
<1>7. Len(list) = Len(ms) /\ DOMAIN list = DOMAIN ms
  BY <1>1, <1>6, MappedIsSeq
<1>8. \A i, j \in DOMAIN ms : ms[i].id = ms[j].id => i = j
  <2>1. IsMappingList(d)
    BY ListParts DEF IsMappingList
  <2> QED BY <1>1, <2>1 DEF IsInOrder
<1>9. \A s, t \in p.sources : s.id = t.id => s = t
  <2> SUFFICES ASSUME NEW s \in p.sources, NEW t \in p.sources, s.id = t.id PROVE s = t
    OBVIOUS
  <2>1. PICK n : s = PlainSource(n)
    BY ListedSources DEF p
  <2>2. PICK k : t = PlainSource(k)
    BY ListedSources DEF p
  <2> QED BY <2>1, <2>2 DEF PlainSource
<1>10. LeadsFit(p)
  BY <1>1, <1>2, <1>8, <1>9, EmptyIsCanonical, RewrittenLeads
<1>11. AccountsFit(p)
  BY <1>4 DEF AccountsFit, AccountOf
<1>12. \A i \in DOMAIN ms : p.destinations[i].id = ms[i].id /\ p.destinations[i].who = ms[i].who
  BY <1>4, <1>5, <1>6
<1>13. \A i, j \in DOMAIN ms : p.destinations[i].id = p.destinations[j].id => i = j
  BY <1>8, <1>12
<1>14. DOMAIN p.destinations = DOMAIN d.mappings /\ Len(p.destinations) = Len(d.mappings)
  BY <1>1, <1>4, <1>7
<1> QED BY <1>1, <1>3, <1>4, <1>10, <1>11, <1>12, <1>13, <1>14 DEF p

\* The feeds of a list are those of its projection, in the mode of the first documents.
ListedFeed(d, m, n) ==
  [name |-> n, who |-> m.who, paused |-> n \in m.paused, lead |-> IsListed(d, m, n), mode |-> "recent"]

LEMMA ListedFlow ==
  ASSUME NEW d \in MappingList, NEW i \in DOMAIN d.mappings, NEW n \in d.mappings[i].names, NEW x, NEW f,
         x.who = d.mappings[i].who, f = Flow(PlainSource(n), x, PlainRoute(ReadList(d)[i], n))
  PROVE  [f EXCEPT !.mode = "recent"] = ListedFeed(d, d.mappings[i], n)
<1> DEFINE m == d.mappings[i]
           l == ReadList(d)[i]
<1>1. l.paused = m.paused \cap m.names /\ l.lead = ListLead(d, m)
  BY ReadListParts
<1>2. m \in Mapping /\ m.names \in SUBSET XNames
  BY ListParts DEF Mapping
<1>3. (n \in l.paused) = (n \in m.paused)
  BY <1>1
<1>4. (n = l.lead) = IsListed(d, m, n)
  <2>1. CASE d.version = 2 /\ m.lead \in m.names \cup {None}
    BY <1>1, <2>1 DEF ListLead, IsListed
  <2>2. CASE ~(d.version = 2 /\ m.lead \in m.names \cup {None})
    <3>1. l.lead = LeadOfOne(m.names) /\ IsListed(d, m, n) = (m.names = {n})
      BY <1>1, <2>2 DEF ListLead, IsListed
    <3>2. n = LeadOfOne(m.names) <=> m.names = {n}
      BY <1>2, LeadOfOneIsName
    <3> HIDE DEF m, l
    <3> QED BY <3>1, <3>2
  <2> QED BY <2>1, <2>2
<1> HIDE DEF m, l
<1>5. f = [name |-> n, who |-> m.who, paused |-> n \in l.paused, lead |-> n = l.lead, mode |-> "inherit"]
  BY DEF Flow, PlainSource, PlainRoute, m, l
<1>6. [f EXCEPT !.mode = "recent"] =
        [name |-> n, who |-> m.who, paused |-> n \in l.paused, lead |-> n = l.lead, mode |-> "recent"]
  BY <1>5
<1> QED BY <1>3, <1>4, <1>6 DEF ListedFeed, m

LEMMA ListedFeedsParts ==
  ASSUME NEW d \in MappingList, NEW f
  PROVE  f \in ListedFeeds(d) <=> \E i \in DOMAIN d.mappings : \E n \in d.mappings[i].names : f = ListedFeed(d, d.mappings[i], n)
<1>1. ListedFeeds(d) = UNION {{ListedFeed(d, m, n) : n \in m.names} : m \in ToSet(d.mappings)}
  BY DEF ListedFeeds, ListedFeed, IsListed
<1> QED BY <1>1 DEF ToSet

LEMMA ListFeeds ==
  ASSUME NEW d \in MappingList, IsInOrder(d)
  PROVE  ListedFeeds(d) = {[f EXCEPT !.mode = "recent"] : f \in Feeds(ListProjection(d))}
<1> DEFINE p == ListProjection(d)
           ms == ReadList(d)
<1>1. /\ DOMAIN p.destinations = DOMAIN d.mappings /\ AccountsFit(p)
      /\ \A i \in DOMAIN d.mappings : p.destinations[i].id = d.mappings[i].id /\ p.destinations[i].who = d.mappings[i].who
      /\ \A i, j \in DOMAIN d.mappings : p.destinations[i].id = p.destinations[j].id => i = j
  BY ListProjectionParts
<1>2. \A i \in DOMAIN d.mappings : ms[i].id = d.mappings[i].id
  BY ReadListParts
<1>3. ASSUME NEW f \in Feeds(p) PROVE [f EXCEPT !.mode = "recent"] \in ListedFeeds(d)
  <2>1. PICK s, x, r : IsFed(p, s, x, r) /\ f = Flow(s, x, r)
    BY <1>1, FeedsAreFlows
  <2>2. PICK i \in DOMAIN d.mappings : \E n \in d.mappings[i].names : r = PlainRoute(ms[i], n)
    BY <2>1, ListedRoutes DEF IsFed
  <2>3. PICK n \in d.mappings[i].names : r = PlainRoute(ms[i], n)
    BY <2>2
  <2>4. PICK k : s = PlainSource(k)
    BY <2>1, ListedSources DEF IsFed
  <2>5. s = PlainSource(n) /\ x.id = p.destinations[i].id
    BY <1>1, <1>2, <2>1, <2>3, <2>4 DEF IsFed, PlainRoute, PlainSource
  <2>6. x.who = d.mappings[i].who
    <3>1. PICK j \in DOMAIN d.mappings : x = p.destinations[j]
      BY <1>1, <2>1 DEF IsFed, ToSet
    <3> QED BY <1>1, <2>5, <3>1
  <2> HIDE DEF p, ms
  <2>7. [f EXCEPT !.mode = "recent"] = ListedFeed(d, d.mappings[i], n)
    BY <2>1, <2>3, <2>5, <2>6, ListedFlow DEF ms
  <2> QED BY <2>7, ListedFeedsParts
<1>4. ASSUME NEW g \in ListedFeeds(d) PROVE \E f \in Feeds(p) : g = [f EXCEPT !.mode = "recent"]
  <2>1. PICK i \in DOMAIN d.mappings : \E n \in d.mappings[i].names : g = ListedFeed(d, d.mappings[i], n)
    BY ListedFeedsParts
  <2>2. PICK n \in d.mappings[i].names : g = ListedFeed(d, d.mappings[i], n)
    BY <2>1
  <2> DEFINE s == PlainSource(n)
             x == p.destinations[i]
             r == PlainRoute(ms[i], n)
  <2>3. s \in p.sources /\ r \in p.routes
    BY ListedSources, ListedRoutes
  <2>4. r.source = s.id /\ r.destination = x.id /\ x \in ToSet(p.destinations) /\ x.who = d.mappings[i].who
    <3>1. r.source = n /\ r.destination = ms[i].id /\ s.id = n
      BY DEF PlainRoute, PlainSource
    <3>2. x \in ToSet(p.destinations)
      BY <1>1 DEF ToSet
    <3> HIDE DEF p, ms, s, r
    <3> QED BY <1>1, <1>2, <3>1, <3>2
  <2>5. IsFed(p, s, x, r)
    <3> HIDE DEF p, s, x, r
    <3> QED BY <2>3, <2>4 DEF IsFed
  <2>6. Flow(s, x, r) \in Feeds(p)
    <3> HIDE DEF p, s, x, r
    <3> QED BY <1>1, <2>5, FlowsAreFeeds
  <2>7. [Flow(s, x, r) EXCEPT !.mode = "recent"] = g
    <3> HIDE DEF p, x
    <3> QED BY <2>2, <2>4, ListedFlow
  <2> QED BY <2>6, <2>7
<1> QED BY <1>3, <1>4
--------------------------------------------------------------------------------
(***************************************************************************)
(* The merging of destinations of one identity.                            *)
(***************************************************************************)
IdsDiffer(D) == \A i, j \in DOMAIN D : D[i].id = D[j].id => i = j

LEMMA FirstAlikePlace ==
  ASSUME NEW n \in Nat, NEW D, DOMAIN D = 1 .. n, NEW x \in ToSet(D)
  PROVE  FirstAlike(D, x) \in 1 .. n /\ Identity(D[FirstAlike(D, x)]) = Identity(x)
<1> DEFINE T == {i \in DOMAIN D : Identity(D[i]) = Identity(x)}
<1>1. T \in SUBSET Nat /\ T # {}
  BY DEF ToSet
<1>2. FirstAlike(D, x) = Min(T)
  BY DEF FirstAlike
<1> HIDE DEF T
<1>3. FirstAlike(D, x) \in T
  BY <1>1, <1>2, FirstPlace
<1> QED BY <1>3 DEF T

\* What is picked from a sequence is a sequence of its elements, and no longer.
LEMMA PickedPlaces ==
  ASSUME NEW S, NEW s \in Seq(S), NEW J \in SUBSET DOMAIN s
  PROVE  /\ Picked(s, J) \in Seq(S) /\ Len(Picked(s, J)) \in Nat /\ Len(Picked(s, J)) <= Len(s)
         /\ \A k \in DOMAIN Picked(s, J) : \E i \in DOMAIN s : Picked(s, J)[k] = s[i]
<1>1. Len(s) \in Nat /\ DOMAIN s = 1 .. Len(s) /\ \A i \in DOMAIN s : s[i] \in S
  BY SequencePlaces
<1>2. PICK n \in Nat : n = Len(s)
  BY <1>1
<1>3. J \in SUBSET (1 .. n)
  BY <1>1, <1>2
<1>4. IsFiniteSet(1 .. n) /\ Cardinality(1 .. n) = n
  BY FS_Interval
<1>5. Cardinality(J) \in Nat /\ Cardinality(J) <= n
  BY <1>3, <1>4, FS_Subset, FS_CardinalityType
<1>6. DOMAIN Picked(s, J) = 1 .. Cardinality(J)
  BY DEF Picked
<1>7. ASSUME NEW k \in DOMAIN Picked(s, J) PROVE \E i \in DOMAIN s : Picked(s, J)[k] = s[i]
  <2>1. StandsAtOne(s, J, k)
    BY <1>3, PickedFrom
  <2> QED BY <2>1 DEF StandsAtOne
<1>8. Picked(s, J) \in [1 .. Cardinality(J) -> S]
  <2>1. \A k \in 1 .. Cardinality(J) : Picked(s, J)[k] \in S
    BY <1>1, <1>6, <1>7
  <2> QED BY <2>1 DEF Picked
<1>9. Picked(s, J) \in Seq(S) /\ Len(Picked(s, J)) = Cardinality(J)
  BY <1>5, <1>8
<1> QED BY <1>2, <1>5, <1>7, <1>9

\* A merged destination is the first of its identity, as to its id and its account.
LEMMA MergedPlaces ==
  ASSUME NEW D \in Seq(Destination)
  PROVE  /\ MergedDestinations(D) \in Seq(Destination) /\ Len(MergedDestinations(D)) \in Nat
         /\ Len(MergedDestinations(D)) <= Len(D)
         /\ \A k \in DOMAIN MergedDestinations(D) : \E i \in DOMAIN D :
              /\ MergedDestinations(D)[k].id = D[i].id /\ MergedDestinations(D)[k].who = D[i].who
<1> DEFINE joint(i) == UNION {y.legacy : y \in {y \in ToSet(D) : Identity(y) = Identity(D[i])}}
           list == [i \in DOMAIN D |-> [D[i] EXCEPT !.legacy = joint(i)]]
           firsts == {i \in DOMAIN D : i = FirstAlike(D, D[i])}
<1>1. ToSet(D) \subseteq Destination /\ \A i \in DOMAIN D : D[i] \in Destination
  BY SequencePlaces
<1>2. ASSUME NEW i \in DOMAIN D PROVE list[i] \in Destination /\ list[i].id = D[i].id /\ list[i].who = D[i].who
  <2>1. joint(i) \in SUBSET Ids
    BY <1>1 DEF Destination
  <2>2. list[i] = [D[i] EXCEPT !.legacy = joint(i)]
    OBVIOUS
  <2> HIDE DEF list, joint
  <2> QED BY <1>1, <2>1, <2>2 DEF Destination
<1>3. MergedDestinations(D) = Picked(list, firsts)
  BY DEF MergedDestinations
<1>4. list \in [DOMAIN D -> Destination] /\ firsts \in SUBSET DOMAIN D
  BY <1>2
<1> HIDE DEF list, firsts
<1>5. list \in Seq(Destination) /\ Len(list) = Len(D) /\ DOMAIN list = DOMAIN D
  BY <1>4, MappedIsSeq
<1>6. /\ Picked(list, firsts) \in Seq(Destination) /\ Len(Picked(list, firsts)) \in Nat
      /\ Len(Picked(list, firsts)) <= Len(list)
      /\ \A k \in DOMAIN Picked(list, firsts) : \E i \in DOMAIN list : Picked(list, firsts)[k] = list[i]
  <2>1. PICK l \in Seq(Destination), F \in SUBSET DOMAIN list : l = list /\ F = firsts
    BY <1>4, <1>5
  <2> QED BY <2>1, PickedPlaces
<1>7. \A k \in DOMAIN Picked(list, firsts) : \E i \in DOMAIN D :
        Picked(list, firsts)[k].id = D[i].id /\ Picked(list, firsts)[k].who = D[i].who
  BY <1>2, <1>5, <1>6
<1> QED BY <1>3, <1>5, <1>6, <1>7

LEMMA MergedRoutes ==
  ASSUME NEW p \in Canonical, NEW n \in Nat, DOMAIN p.destinations = 1 .. n, IdsDiffer(p.destinations),
         NEW r \in p.routes, NEW x \in ToSet(p.destinations), r.destination = x.id
  PROVE  LET q == MovedRoute(p.destinations, r) IN
         /\ q \in Route /\ q.source = r.source /\ q.paused = r.paused /\ q.lead = r.lead /\ q.mode = r.mode
         /\ q.destination = p.destinations[FirstAlike(p.destinations, x)].id
         /\ FirstAlike(p.destinations, x) \in DOMAIN p.destinations
         /\ Identity(p.destinations[FirstAlike(p.destinations, x)]) = Identity(x)
<1> DEFINE D == p.destinations
           i == FirstAlike(D, x)
<1>1. {z \in ToSet(D) : z.id = r.destination} = {x}
  BY DEF ToSet, IdsDiffer
<1>2. i \in DOMAIN D /\ Identity(D[i]) = Identity(x)
  BY FirstAlikePlace
<1>3. MovedRoute(D, r) = [r EXCEPT !.destination = D[i].id]
  BY <1>1, OnlyIsThis DEF MovedRoute
<1>4. r \in Route /\ D[i].id \in Ids
  <2>1. r \in Route
    BY CanonicalParts
  <2>2. D[i] \in Destination
    BY <1>2, DestinationPlaces
  <2> QED BY <2>1, <2>2 DEF Destination
<1> HIDE DEF i
<1>5. PICK id \in Ids : id = D[i].id
  BY <1>4
<1> QED BY <1>2, <1>3, <1>4, <1>5 DEF Route, i

LEMMA MergedParts ==
  ASSUME NEW p \in Canonical, IdsDiffer(p.destinations), IsValidDocument(Merged(p)),
         \A r \in p.routes : \E x \in ToSet(p.destinations) : r.destination = x.id
  PROVE  /\ Merged(p) \in Canonical /\ Merged(p).version = p.version /\ Merged(p).accounts = p.accounts
         /\ Merged(p).sources = p.sources /\ Merged(p).destinations = MergedDestinations(p.destinations)
         /\ Merged(p).routes = {MovedRoute(p.destinations, r) : r \in p.routes}
<1> DEFINE R == {MovedRoute(p.destinations, r) : r \in p.routes}
           M == MergedDestinations(p.destinations)
<1>1. Merged(p) = [p EXCEPT !.destinations = M, !.routes = R]
  BY DEF Merged
<1>2. M \in Seq(Destination)
  BY CanonicalParts, MergedPlaces
<1>3. R \subseteq Route
  <2> SUFFICES ASSUME NEW r \in p.routes PROVE MovedRoute(p.destinations, r) \in Route
    OBVIOUS
  <2>1. PICK x \in ToSet(p.destinations) : r.destination = x.id
    OBVIOUS
  <2> QED BY <2>1, DestinationPlaces, MergedRoutes
<1> HIDE DEF R, M
<1> QED BY <1>1, <1>2, <1>3 DEF Canonical, R, M

\* Merging leads every source to the accounts it led to.
LEMMA MergedFeeds ==
  ASSUME NEW p \in Canonical, IdsDiffer(p.destinations), IsValidDocument(Merged(p)), p.accounts = {},
         \A r \in p.routes : \E x \in ToSet(p.destinations) : r.destination = x.id
  PROVE  Feeds(Merged(p)) = Feeds(p)
<1> DEFINE q == Merged(p)
           D == p.destinations
<1>1. /\ q \in Canonical /\ q.accounts = {} /\ q.sources = p.sources
      /\ q.destinations = MergedDestinations(D) /\ q.routes = {MovedRoute(D, r) : r \in p.routes}
  BY MergedParts
<1>2. \A y \in ToSet(q.destinations) : \E i \in DOMAIN D : y.id = D[i].id /\ y.who = D[i].who
  <2>1. D \in Seq(Destination)
    BY CanonicalParts
  <2>2. \A k \in DOMAIN MergedDestinations(D) : \E i \in DOMAIN D :
          /\ MergedDestinations(D)[k].id = D[i].id /\ MergedDestinations(D)[k].who = D[i].who
    BY <2>1, MergedPlaces
  <2> HIDE DEF q
  <2> QED BY <1>1, <2>2 DEF ToSet
<1>3. Len(D) \in Nat /\ DOMAIN D = 1 .. Len(D)
  BY DestinationPlaces
<1>4. IsValidDocument(q)
  OBVIOUS
<1> HIDE DEF q
<1>5. AccountsFit(p) /\ AccountsFit(q)
  BY <1>1 DEF AccountsFit, AccountOf
<1>6. ASSUME NEW r \in p.routes, NEW x \in ToSet(D), r.destination = x.id, NEW y \in ToSet(q.destinations),
             NEW s, MovedRoute(D, r).destination = y.id
      PROVE  y.who = x.who /\ Flow(s, y, MovedRoute(D, r)) = Flow(s, x, r)
  <2> DEFINE i == FirstAlike(D, x)
             m == MovedRoute(D, r)
  <2>1. /\ m.paused = r.paused /\ m.lead = r.lead /\ m.mode = r.mode /\ m.destination = D[i].id
        /\ i \in DOMAIN D /\ Identity(D[i]) = Identity(x)
    BY <1>3, <1>6, MergedRoutes
  <2>2. PICK j \in DOMAIN D : y.id = D[j].id /\ y.who = D[j].who
    BY <1>2
  <2> HIDE DEF i, m
  <2>3. j = i
    BY <1>6, <2>1, <2>2 DEF IdsDiffer, m
  <2>4. y.who = x.who
    BY <2>1, <2>2, <2>3 DEF Identity
  <2>5. Flow(s, y, m) = Flow(s, x, r)
    BY <2>1, <2>4 DEF Flow
  <2> QED BY <2>4, <2>5 DEF m
<1>7. ASSUME NEW f \in Feeds(q) PROVE f \in Feeds(p)
  <2>1. PICK s, y, m : IsFed(q, s, y, m) /\ f = Flow(s, y, m)
    BY <1>5, FeedsAreFlows
  <2>2. PICK r \in p.routes : m = MovedRoute(D, r)
    BY <1>1, <2>1 DEF IsFed
  <2>3. PICK x \in ToSet(D) : r.destination = x.id
    OBVIOUS
  <2>4. f = Flow(s, x, r)
    BY <1>6, <2>1, <2>2, <2>3 DEF IsFed
  <2>5. r.source = m.source
    BY <1>3, <2>2, <2>3, MergedRoutes
  <2>6. IsFed(p, s, x, r)
    BY <1>1, <2>1, <2>3, <2>5 DEF IsFed
  <2> QED BY <1>5, <2>4, <2>6, FlowsAreFeeds
<1>8. ASSUME NEW f \in Feeds(p) PROVE f \in Feeds(q)
  <2>1. PICK s, x, r : IsFed(p, s, x, r) /\ f = Flow(s, x, r)
    BY <1>5, FeedsAreFlows
  <2> DEFINE m == MovedRoute(D, r)
  <2>2. r \in p.routes /\ x \in ToSet(D) /\ r.destination = x.id
    BY <2>1 DEF IsFed
  <2>3. m \in q.routes
    BY <1>1, <2>2
  <2>4. m.source = r.source
    BY <1>3, <2>2, MergedRoutes
  <2> HIDE DEF m
  <2>5. PICK y \in ToSet(q.destinations) : m.destination = y.id
    BY <1>4, <2>3 DEF IsValidDocument
  <2>6. f = Flow(s, y, m)
    BY <1>6, <2>1, <2>2, <2>5 DEF m
  <2>7. IsFed(q, s, y, m)
    BY <1>1, <2>1, <2>3, <2>4, <2>5 DEF IsFed
  <2> QED BY <1>5, <2>6, <2>7, FlowsAreFeeds
<1>9. Feeds(q) = Feeds(p)
  BY <1>7, <1>8
<1> QED BY <1>9 DEF q

\* Destinations that were merged had one source for the profile, the same.
LEMMA MergedIsInOrder ==
  ASSUME NEW p \in Canonical, p.version = 3, IdsDiffer(p.destinations), IsValidDocument(Merged(p)), p.accounts = {},
         \A r \in p.routes : \E x \in ToSet(p.destinations) : r.destination = x.id,
         LeadsFit(p), ~IsConflicting(p)
  PROVE  IsInOrder(Merged(p))
<1> DEFINE q == Merged(p)
           D == p.destinations
<1>1. /\ q \in Canonical /\ q.version = 3 /\ q.accounts = {} /\ q.sources = p.sources
      /\ q.routes = {MovedRoute(D, r) : r \in p.routes}
  BY MergedParts
<1>2. Len(D) \in Nat /\ DOMAIN D = 1 .. Len(D)
  BY DestinationPlaces
<1>3. IsValidDocument(q)
  OBVIOUS
<1> HIDE DEF q
<1>4. ASSUME NEW y \in ToSet(q.destinations)
      PROVE  /\ IF y.link = None THEN q.version < 7 /\ y.secret # None ELSE AccountOf(q, y) # {}
             /\ \A a \in AccountOf(q, y) : a.who = y.who
  <2>1. AccountOf(q, y) = {}
    BY <1>1 DEF AccountOf
  <2>2. IF y.link = None THEN y.secret # None ELSE AccountOf(q, y) # {}
    BY <1>3 DEF IsValidDocument
  <2>3. q.version < 7
    BY <1>1
  <2> QED BY <2>1, <2>2, <2>3
<1>5. ASSUME NEW y, NEW m \in RoutesTo(q, y), m.lead
      PROVE  \E r \in p.routes, x \in ToSet(D) : /\ r \in RoutesTo(p, x) /\ r.lead /\ r.source = m.source
                                                /\ FirstAlike(D, x) \in DOMAIN D /\ D[FirstAlike(D, x)].id = y.id
                                                /\ Identity(D[FirstAlike(D, x)]) = Identity(x)
  <2>1. m \in q.routes /\ m.destination = y.id
    BY DEF RoutesTo
  <2>2. PICK r \in p.routes : m = MovedRoute(D, r)
    BY <1>1, <2>1
  <2>3. PICK x \in ToSet(D) : r.destination = x.id
    OBVIOUS
  <2>4. /\ m.source = r.source /\ m.lead = r.lead /\ m.destination = D[FirstAlike(D, x)].id
        /\ FirstAlike(D, x) \in DOMAIN D /\ Identity(D[FirstAlike(D, x)]) = Identity(x)
    BY <1>2, <2>2, <2>3, MergedRoutes
  <2>5. r \in RoutesTo(p, x)
    BY <1>1, <2>3, <2>4 DEF RoutesTo, XSources
  <2> QED BY <1>5, <2>1, <2>4, <2>5
<1>6. ASSUME NEW y, NEW m \in RoutesTo(q, y), NEW o \in RoutesTo(q, y), m.lead, o.lead PROVE m = o
  <2>1. PICK r \in p.routes, x \in ToSet(D) : /\ r \in RoutesTo(p, x) /\ r.lead /\ r.source = m.source
                                              /\ FirstAlike(D, x) \in DOMAIN D /\ D[FirstAlike(D, x)].id = y.id
                                              /\ Identity(D[FirstAlike(D, x)]) = Identity(x)
    BY <1>5, <1>6
  <2>2. PICK t \in p.routes, z \in ToSet(D) : /\ t \in RoutesTo(p, z) /\ t.lead /\ t.source = o.source
                                              /\ FirstAlike(D, z) \in DOMAIN D /\ D[FirstAlike(D, z)].id = y.id
                                              /\ Identity(D[FirstAlike(D, z)]) = Identity(z)
    BY <1>5, <1>6
  <2>3. FirstAlike(D, x) = FirstAlike(D, z)
    BY <2>1, <2>2 DEF IdsDiffer
  <2>4. Identity(x) = Identity(z)
    BY <2>1, <2>2, <2>3
  <2>5. Leads(p, x) = Leads(p, z)
    BY <2>4 DEF IsConflicting
  <2>6. PICK s \in XSources(p) : s.id = r.source
    BY <2>1 DEF RoutesTo
  <2>7. s.name \in Leads(p, x)
    BY <2>1, <2>6 DEF Leads, NamesOf
  <2>8. PICK s2 \in XSources(p), t2 \in {l \in RoutesTo(p, z) : l.lead} : s2.name = s.name /\ t2.source = s2.id
    BY <2>5, <2>7, NamesHaveRoutes DEF Leads
  <2>9. t2 = t
    BY <2>2, <2>8 DEF LeadsFit
  <2>10. s2 = s
    BY <1>1, <1>3, <2>6, <2>8 DEF XSources, IsValidDocument
  <2>11. m.source = o.source
    BY <2>1, <2>2, <2>6, <2>8, <2>9, <2>10
  <2>12. m \in q.routes /\ o \in q.routes /\ m.destination = o.destination
    BY <1>6 DEF RoutesTo
  <2> QED BY <1>3, <2>11, <2>12, ThisRoute
<1>7. ~IsMappingList(q)
  BY <1>1, CanonicalParts DEF IsMappingList
<1>8. IsInOrder(q)
  BY <1>4, <1>6, <1>7 DEF IsInOrder
<1> QED BY <1>8 DEF q

LEMMA ListedRoutesLead ==
  ASSUME NEW d \in MappingList, IsInOrder(d), NEW r \in ListProjection(d).routes
  PROVE  \E x \in ToSet(ListProjection(d).destinations) : r.destination = x.id
<1>1. PICK i \in DOMAIN d.mappings : \E n \in d.mappings[i].names : r = PlainRoute(ReadList(d)[i], n)
  BY ListedRoutes
<1>2. r.destination = ReadList(d)[i].id
  BY <1>1 DEF PlainRoute
<1>3. ReadList(d)[i].id = d.mappings[i].id
  BY ReadListParts
<1>4. /\ DOMAIN ListProjection(d).destinations = DOMAIN d.mappings
      /\ ListProjection(d).destinations[i].id = d.mappings[i].id
  BY ListProjectionParts
<1> QED BY <1>2, <1>3, <1>4 DEF ToSet

\* A list is a document of the third schema with the same feeds before it goes up the ladder.
LEMMA ListMigration ==
  ASSUME NEW d \in MappingList, IsInOrder(d), NEW n \in Nat, n + Size(d) <= MaxFresh + 1, Migrated(d, n) # None
  PROVE  LET q == Merged(ListProjection(d)) IN
         /\ q \in Canonical /\ IsInOrder(q) /\ n + Size(q) <= MaxFresh + 1
         /\ Migrated(d, n) = FromCanonical(q, n) /\ FeedsOf(q) = FeedsOf(d)
<1> DEFINE p == ListProjection(d)
           q == Merged(p)
<1>1. /\ p \in Canonical /\ p.version = 3 /\ p.accounts = {} /\ Len(p.destinations) = Len(d.mappings)
      /\ IdsDiffer(p.destinations) /\ LeadsFit(p)
  <2>1. /\ p \in Canonical /\ p.version = 3 /\ p.accounts = {} /\ Len(p.destinations) = Len(d.mappings)
        /\ DOMAIN p.destinations = DOMAIN d.mappings /\ LeadsFit(p)
        /\ \A i, j \in DOMAIN d.mappings : p.destinations[i].id = p.destinations[j].id => i = j
    BY ListProjectionParts
  <2> HIDE DEF p
  <2> QED BY <2>1 DEF IdsDiffer
<1>2. \A r \in p.routes : \E x \in ToSet(p.destinations) : r.destination = x.id
  BY ListedRoutesLead
<1>3. IsMappingList(d) /\ Len(d.mappings) \in Nat
  BY ListParts DEF IsMappingList
<1>4. FromMappings(d) = IF IsConflicting(p) THEN None ELSE q
  BY DEF FromMappings, Projected, ListProjection, ReadList
<1> HIDE DEF p, q
<1>5. Migrated(d, n) = LET l == FromMappings(d) IN
                       IF l = None \/ ~IsValidDocument(l) THEN None ELSE FromCanonical(l, n)
  BY <1>3 DEF Migrated
<1>6. FromMappings(d) = q /\ ~IsConflicting(p) /\ IsValidDocument(q) /\ Migrated(d, n) = FromCanonical(q, n)
  BY <1>4, <1>5
<1>7. IsValidDocument(Merged(p))
  BY <1>6 DEF q
<1>8. /\ Merged(p) \in Canonical /\ Merged(p).version = 3
      /\ Merged(p).destinations = MergedDestinations(p.destinations)
  BY <1>1, <1>2, <1>7, MergedParts
<1>9. IsInOrder(Merged(p))
  BY <1>1, <1>2, <1>6, <1>7, MergedIsInOrder
<1>10. Feeds(Merged(p)) = Feeds(p)
  BY <1>1, <1>2, <1>7, MergedFeeds
<1>11. n + Size(Merged(p)) <= MaxFresh + 1
  <2>1. Size(d) = Len(d.mappings)
    BY <1>3 DEF Size
  <2>2. ~IsMappingList(Merged(p)) /\ Size(Merged(p)) = Len(MergedDestinations(p.destinations))
    BY <1>8 DEF Size, IsMappingList
  <2>3. /\ Len(MergedDestinations(p.destinations)) \in Nat
        /\ Len(MergedDestinations(p.destinations)) <= Len(p.destinations)
    BY <1>1, CanonicalParts, MergedPlaces
  <2> QED BY <1>1, <1>3, <2>1, <2>2, <2>3, TransferAssumption
<1>12. FeedsOf(Merged(p)) = FeedsOf(d)
  <2>1. FeedsOf(d) = ListedFeeds(d)
    BY <1>3 DEF FeedsOf
  <2>2. FeedsOf(Merged(p)) = {[f EXCEPT !.mode = "recent"] : f \in Feeds(Merged(p))}
    BY <1>8 DEF FeedsOf, IsMappingList
  <2> QED BY <1>10, <2>1, <2>2, ListFeeds DEF p
<1> QED BY <1>6, <1>8, <1>9, <1>11, <1>12 DEF p, q

LEMMA Migration ==
  ASSUME NEW d, IsDocument(d), IsInOrder(d), NEW n \in Nat, n + Size(d) <= MaxFresh + 1, Migrated(d, n) # None
  PROVE  /\ Sound(Migrated(d, n)) /\ Feeds(Migrated(d, n)) = FeedsOf(d)
         /\ ~IsMappingList(d) => /\ IsSameList(d.destinations, Migrated(d, n).destinations)
                                 /\ d.accounts \subseteq Migrated(d, n).accounts
<1>1. CASE d \in MappingList
  <2> DEFINE q == Merged(ListProjection(d))
  <2>1. /\ q \in Canonical /\ IsInOrder(q) /\ n + Size(q) <= MaxFresh + 1
        /\ Migrated(d, n) = FromCanonical(q, n) /\ FeedsOf(q) = FeedsOf(d)
    BY <1>1, ListMigration
  <2>2. IsMappingList(d)
    BY <1>1, ListParts DEF IsMappingList
  <2> HIDE DEF q
  <2>3. Sound(FromCanonical(q, n)) /\ Feeds(FromCanonical(q, n)) = FeedsOf(q)
    BY <2>1, LadderIsSound, LadderFeeds
  <2> QED BY <2>1, <2>2, <2>3
<1>2. CASE d \in Canonical
  <2>1. ~IsMappingList(d)
    BY <1>2, CanonicalParts DEF IsMappingList
  <2>2. Migrated(d, n) = FromCanonical(d, n)
    BY <2>1 DEF Migrated
  <2>3. Sound(FromCanonical(d, n)) /\ Feeds(FromCanonical(d, n)) = FeedsOf(d)
    BY <1>2, <2>2, LadderIsSound, LadderFeeds
  <2>4. /\ IsSameList(d.destinations, FromCanonical(d, n).destinations)
        /\ d.accounts \subseteq FromCanonical(d, n).accounts
    BY <1>2, <2>2, LadderParts
  <2> QED BY <2>2, <2>3, <2>4
<1> QED BY <1>1, <1>2 DEF IsDocument
--------------------------------------------------------------------------------
(***************************************************************************)
(* Imports: what is taken from the present document beforehand.            *)
(***************************************************************************)
\* Nothing, for a document that is in order but for accounts nothing leads to.
LEMMA PreparedCanonical ==
  ASSUME NEW d \in Canonical, NEW h \in Canonical, IsInOrder(h)
  PROVE  /\ Prepared(d, h) \in Canonical /\ Prepared(d, h).version = h.version
         /\ Prepared(d, h).sources = h.sources /\ Prepared(d, h).routes = h.routes
         /\ Prepared(d, h).destinations = h.destinations
         /\ Prepared(d, h).accounts = IF h.accounts = {} THEN d.accounts ELSE h.accounts
<1> DEFINE D == h.destinations
           A == IF h.accounts = {} THEN d.accounts ELSE h.accounts
<1>1. ~IsMappingList(h)
  BY CanonicalParts DEF IsMappingList
<1>2. D \in Seq(Destination) /\ A \subseteq BlueskyAccount
  BY CanonicalParts
<1>3. \A i \in DOMAIN D : PreparedDestination(d, D[i]) = D[i]
  <2>1. \A x \in ToSet(D) : IF x.link = None THEN x.secret # None ELSE AccountOf(h, x) # {}
    BY <1>1 DEF IsInOrder
  <2>2. \A i \in DOMAIN D : D[i] \in ToSet(D)
    BY DEF ToSet
  <2>3. \A i \in DOMAIN D : D[i].secret # None \/ D[i].link # None
    BY <2>1, <2>2
  <2> QED BY <2>3 DEF PreparedDestination
<1>4. [i \in DOMAIN D |-> PreparedDestination(d, D[i])] = D
  <2>1. D = [i \in DOMAIN D |-> D[i]]
    BY <1>2
  <2>2. [i \in DOMAIN D |-> PreparedDestination(d, D[i])] = [i \in DOMAIN D |-> D[i]]
    BY <1>3
  <2> QED BY <2>1, <2>2
<1>5. Prepared(d, h) = [h EXCEPT !.destinations = D, !.accounts = A]
  BY <1>1, <1>4 DEF Prepared
<1> HIDE DEF D, A
<1>6. /\ Prepared(d, h) \in Canonical /\ Prepared(d, h).version = h.version
      /\ Prepared(d, h).sources = h.sources /\ Prepared(d, h).routes = h.routes
      /\ Prepared(d, h).destinations = D /\ Prepared(d, h).accounts = A
  BY <1>2, <1>5 DEF Canonical
<1> QED BY <1>6 DEF D, A

LEMMA PreparedParts ==
  ASSUME NEW d \in Canonical, NEW h, IsDocument(h), IsInOrder(h)
  PROVE  /\ IsDocument(Prepared(d, h)) /\ IsInOrder(Prepared(d, h))
         /\ Size(Prepared(d, h)) = Size(h) /\ FeedsOf(Prepared(d, h)) = FeedsOf(h)
         /\ IsMappingList(Prepared(d, h)) <=> IsMappingList(h)
         /\ ~IsMappingList(h) => Prepared(d, h).destinations = h.destinations
<1> DEFINE p == Prepared(d, h)
<1>1. CASE h \in MappingList
  <2>1. IsMappingList(h)
    BY <1>1, ListParts DEF IsMappingList
  <2>2. p = h
    BY <2>1 DEF Prepared
  <2> QED BY <2>1, <2>2
<1>2. CASE h \in Canonical
  <2>1. /\ p \in Canonical /\ p.version = h.version /\ p.sources = h.sources /\ p.routes = h.routes
        /\ p.destinations = h.destinations /\ p.accounts = IF h.accounts = {} THEN d.accounts ELSE h.accounts
    BY <1>2, PreparedCanonical
  <2>2. ~IsMappingList(h) /\ ~IsMappingList(p)
    BY <1>2, <2>1, CanonicalParts DEF IsMappingList
  <2> HIDE DEF p
  <2>3. ASSUME NEW x \in ToSet(h.destinations) PROVE AccountOf(p, x) = AccountOf(h, x)
    <3>1. CASE h.accounts # {}
      BY <2>1, <3>1 DEF AccountOf
    <3>2. CASE h.accounts = {}
      <4>1. AccountOf(h, x) = {}
        BY <3>2 DEF AccountOf
      <4>2. x.link = None
        BY <2>2, <4>1 DEF IsInOrder
      <4>3. \A a \in d.accounts : a.id # None
        BY CanonicalParts, NoneIsNoId DEF BlueskyAccount
      <4>4. AccountOf(p, x) = {}
        BY <2>1, <3>2, <4>2, <4>3 DEF AccountOf
      <4> QED BY <4>1, <4>4
    <3> QED BY <3>1, <3>2
  <2>4. \A x : RoutesTo(p, x) = RoutesTo(h, x)
    BY <2>1 DEF RoutesTo, XSources
  <2>5. IsInOrder(p)
    BY <2>1, <2>2, <2>3, <2>4 DEF IsInOrder
  <2>6. Size(p) = Size(h)
    BY <2>1, <2>2 DEF Size
  <2>7. Feeds(p) = Feeds(h)
    <3>1. Links(p) = Links(h)
      BY <2>1 DEF Links
    <3>2. \A l \in Links(h) : l.to \in ToSet(h.destinations)
      BY DEF Links
    <3>3. \A l \in Links(h) : WhoOf(p, l.to) = WhoOf(h, l.to)
      BY <2>3, <3>2 DEF WhoOf
    <3>4. \A l \in Links(h) : Feed(p, l) = Feed(h, l)
      BY <3>3 DEF Feed
    <3> QED BY <3>1, <3>4 DEF Feeds
  <2>8. FeedsOf(p) = FeedsOf(h)
    BY <2>1, <2>2, <2>7 DEF FeedsOf
  <2> QED BY <2>1, <2>2, <2>5, <2>6, <2>8 DEF IsDocument, p
<1> QED BY <1>1, <1>2 DEF IsDocument
--------------------------------------------------------------------------------
(***************************************************************************)
(* Imports: what comes from the other document, under the ids and keys of  *)
(* this one.                                                               *)
(***************************************************************************)
LEMMA FirstOfPlaces ==
  ASSUME NEW d \in Canonical, NEW I \in SUBSET DOMAIN d.destinations, I # {}
  PROVE  Min(I) \in I /\ FirstOf(d, I) = d.destinations[Min(I)] /\ FirstOf(d, I) \in Destination
<1>1. DOMAIN d.destinations = 1 .. Len(d.destinations) /\ \A i \in DOMAIN d.destinations : d.destinations[i] \in Destination
  BY DestinationPlaces
<1>2. I \in SUBSET Nat
  BY <1>1
<1>3. Min(I) \in I
  BY <1>2, FirstPlace
<1> QED BY <1>1, <1>3 DEF FirstOf

LEMMA ExistingPlaces ==
  ASSUME NEW d, NEW x
  PROVE  Existing(d, x) \in SUBSET DOMAIN d.destinations
BY DEF Existing, ByLegacyId, ByAccount

LEMMA KeptDestinationParts ==
  ASSUME NEW d \in Canonical, NEW x \in Destination, x.link # None
  PROVE  /\ KeptDestination(d, x) \in Destination
         /\ KeptDestination(d, x).who = x.who /\ KeptDestination(d, x).link = x.link
         /\ Existing(d, x) # {} =>
              /\ KeptDestination(d, x).id = FirstOf(d, Existing(d, x)).id
              /\ KeptDestination(d, x).key = FirstOf(d, Existing(d, x)).key
              /\ FirstOf(d, Existing(d, x)).legacy \subseteq KeptDestination(d, x).legacy
<1>1. CASE Existing(d, x) = {}
  BY <1>1 DEF KeptDestination
<1>2. CASE Existing(d, x) # {}
  <2>1. PICK y \in Destination : y = FirstOf(d, Existing(d, x))
    BY <1>2, ExistingPlaces, FirstOfPlaces
  <2>2. KeptDestination(d, x) =
          [x EXCEPT !.id = y.id, !.key = y.key, !.link = IF @ = None THEN y.link ELSE @,
                    !.legacy = @ \cup y.legacy \cup {x.id}]
    BY <1>2, <2>1 DEF KeptDestination
  <2>3. /\ y.id \in Ids /\ y.key \in People \X BOOLEAN /\ x.link \in Ids \cup {None}
        /\ x.legacy \cup y.legacy \cup {x.id} \in SUBSET Ids
    BY DEF Destination
  <2>4. PICK id \in Ids, key \in People \X BOOLEAN, legacy \in SUBSET Ids :
          id = y.id /\ key = y.key /\ legacy = x.legacy \cup y.legacy \cup {x.id}
    BY <2>3
  <2>5. KeptDestination(d, x) = [x EXCEPT !.id = id, !.key = key, !.link = x.link, !.legacy = legacy]
    BY <2>2, <2>4
  <2>6. /\ KeptDestination(d, x) \in Destination
        /\ KeptDestination(d, x).who = x.who /\ KeptDestination(d, x).link = x.link
        /\ KeptDestination(d, x).id = id /\ KeptDestination(d, x).key = key
        /\ KeptDestination(d, x).legacy = legacy
    BY <2>3, <2>5 DEF Destination
  <2>7. y.legacy \subseteq legacy
    BY <2>4
  <2> QED BY <2>1, <2>4, <2>6, <2>7
<1> QED BY <1>1, <1>2

LEMMA KeptAccountParts ==
  ASSUME NEW d \in Canonical, IsValidDocument(d), NEW a \in BlueskyAccount
  PROVE  /\ KeptAccount(d, a) \in BlueskyAccount /\ KeptAccount(d, a).id = a.id /\ KeptAccount(d, a).who = a.who
         /\ \A b \in d.accounts : b.id = a.id /\ b.secret # None => KeptAccount(d, a).secret # None
<1>1. CASE a.secret = None /\ \E b \in d.accounts : b.id = a.id
  <2>1. PICK b \in d.accounts : b.id = a.id
    BY <1>1
  <2>2. {c \in d.accounts : c.id = a.id} = {b}
    BY <2>1, ThisAccount
  <2>3. b.secret \in AppPasswords \cup {None}
    BY CanonicalParts DEF BlueskyAccount
  <2>4. KeptAccount(d, a) = [a EXCEPT !.secret = b.secret]
    BY <1>1, <2>2, OnlyIsThis DEF KeptAccount
  <2>5. PICK secret \in AppPasswords \cup {None} : secret = b.secret
    BY <2>3
  <2>6. KeptAccount(d, a) \in BlueskyAccount /\ KeptAccount(d, a).id = a.id /\ KeptAccount(d, a).who = a.who
        /\ KeptAccount(d, a).secret = b.secret
    BY <2>4, <2>5 DEF BlueskyAccount
  <2>7. \A c \in d.accounts : c.id = a.id => c = b
    BY <2>2
  <2> QED BY <2>6, <2>7
<1>2. CASE ~(a.secret = None /\ \E b \in d.accounts : b.id = a.id)
  <2>1. KeptAccount(d, a) = a
    BY <1>2 DEF KeptAccount
  <2> QED BY <1>2, <2>1
<1> QED BY <1>1, <1>2

LEMMA AlignedSourceParts ==
  ASSUME NEW d \in Canonical, NEW s \in Source
  PROVE  AlignedSource(d, s) \in Source /\ AlignedSource(d, s).name = s.name
<1>1. CASE \E o \in d.sources : o.name = s.name
  <2>1. Only({o \in d.sources : o.name = s.name}) \in {o \in d.sources : o.name = s.name}
    BY <1>1, OnlyIsOne
  <2>2. d.sources \subseteq Source
    BY CanonicalParts
  <2> QED BY <1>1, <2>1, <2>2 DEF AlignedSource
<1>2. CASE ~\E o \in d.sources : o.name = s.name
  BY <1>2 DEF AlignedSource
<1> QED BY <1>1, <1>2

LEMMA AlignedRouteParts ==
  ASSUME NEW d \in Canonical, NEW new, Sound(new), NEW r \in new.routes, NEW s \in new.sources,
         NEW x \in ToSet(new.destinations), r.source = s.id, r.destination = x.id
  PROVE  LET q == AlignedRoute(d, new, r) IN
         /\ q \in Route /\ q.source = AlignedSource(d, s).id /\ q.destination = KeptDestination(d, x).id
         /\ q.paused = r.paused /\ q.lead = r.lead /\ q.mode = r.mode
<1>1. new \in Canonical /\ IsValidDocument(new) /\ \A z \in ToSet(new.destinations) : z.link # None
  BY SoundParts
<1>2. {t \in new.sources : t.id = r.source} = {s} /\ {z \in ToSet(new.destinations) : z.id = r.destination} = {x}
  BY <1>1, ThisSource, ThisDestination
<1>3. AlignedRoute(d, new, r) = [r EXCEPT !.source = AlignedSource(d, s).id, !.destination = KeptDestination(d, x).id]
  BY <1>2, OnlyIsThis DEF AlignedRoute
<1>4. r \in Route /\ s \in Source /\ x \in Destination
  BY <1>1, CanonicalParts, DestinationPlaces
<1>5. PICK sid \in Ids \cup XNames : sid = AlignedSource(d, s).id
  BY <1>4, AlignedSourceParts DEF Source
<1>6. PICK xid \in Ids : xid = KeptDestination(d, x).id
  BY <1>1, <1>4, KeptDestinationParts DEF Destination
<1> QED BY <1>3, <1>4, <1>5, <1>6 DEF Route

\* The document that an import makes of a migrated one.
AlignedList(d, D) == [i \in DOMAIN D |-> KeptDestination(d, D[i])]
Aligned(d, new) ==
  [new EXCEPT !.destinations = AlignedList(d, new.destinations),
              !.accounts = KeptAccounts(d, new, AlignedList(d, new.destinations)),
              !.sources = {AlignedSource(d, s) : s \in @},
              !.routes = {AlignedRoute(d, new, r) : r \in @}]

LEMMA RoutesHaveEnds ==
  ASSUME NEW d, IsValidDocument(d), NEW r \in d.routes
  PROVE  \E s \in d.sources, x \in ToSet(d.destinations) : r.source = s.id /\ r.destination = x.id
BY DEF IsValidDocument

LEMMA AlignedParts ==
  ASSUME NEW d, Sound(d), NEW new, Sound(new)
  PROVE  /\ Aligned(d, new) \in Canonical /\ Aligned(d, new).version = 8
         /\ Aligned(d, new).destinations = AlignedList(d, new.destinations)
         /\ DOMAIN Aligned(d, new).destinations = DOMAIN new.destinations
         /\ Aligned(d, new).accounts = {KeptAccount(d, a) : a \in new.accounts}
         /\ Aligned(d, new).sources = {AlignedSource(d, s) : s \in new.sources}
         /\ Aligned(d, new).routes = {AlignedRoute(d, new, r) : r \in new.routes}
<1> DEFINE D == AlignedList(d, new.destinations)
           A == {KeptAccount(d, a) : a \in new.accounts}
           S == {AlignedSource(d, s) : s \in new.sources}
           R == {AlignedRoute(d, new, r) : r \in new.routes}
<1>1. /\ new \in Canonical /\ new.version = 8 /\ IsValidDocument(new)
      /\ \A x \in ToSet(new.destinations) : x.link # None /\ AccountOf(new, x) # {}
  BY SoundParts
<1>2. d \in Canonical /\ IsValidDocument(d)
  BY SoundParts
<1>3. /\ new.destinations \in Seq(Destination)
      /\ \A i \in DOMAIN new.destinations :
           new.destinations[i] \in Destination /\ new.destinations[i] \in ToSet(new.destinations)
  BY <1>1, CanonicalParts, DestinationPlaces DEF ToSet
<1>4. \A i \in DOMAIN new.destinations : /\ KeptDestination(d, new.destinations[i]) \in Destination
                                         /\ KeptDestination(d, new.destinations[i]).link = new.destinations[i].link
  BY <1>1, <1>2, <1>3, KeptDestinationParts
<1>5. D \in Seq(Destination) /\ DOMAIN D = DOMAIN new.destinations
  <2>1. D \in [DOMAIN new.destinations -> Destination]
    BY <1>4 DEF AlignedList
  <2> HIDE DEF D
  <2> QED BY <1>3, <2>1, MappedIsSeq
<1>6. KeptAccounts(d, new, D) = A
  <2> DEFINE others == {b \in d.accounts : (\E x \in ToSet(D) : x.link = b.id) /\ \A a \in new.accounts : a.id # b.id}
  <2>1. ASSUME NEW x \in ToSet(D) PROVE \E a \in new.accounts : a.id = x.link
    <3>1. PICK i \in DOMAIN new.destinations : x = KeptDestination(d, new.destinations[i])
      BY DEF ToSet, AlignedList
    <3>2. x.link = new.destinations[i].link /\ AccountOf(new, new.destinations[i]) # {}
      BY <1>1, <1>3, <1>4, <3>1
    <3> QED BY <3>2 DEF AccountOf
  <2>2. others = {}
    <3> HIDE DEF D
    <3> QED BY <2>1
  <2>3. KeptAccounts(d, new, D) = A \cup others
    BY DEF KeptAccounts
  <2> QED BY <2>2, <2>3
<1>7. A \subseteq BlueskyAccount /\ S \subseteq Source
  BY <1>1, <1>2, CanonicalParts, KeptAccountParts, AlignedSourceParts
<1>8. R \subseteq Route
  <2> SUFFICES ASSUME NEW r \in new.routes PROVE AlignedRoute(d, new, r) \in Route
    OBVIOUS
  <2>1. PICK s \in new.sources, x \in ToSet(new.destinations) : r.source = s.id /\ r.destination = x.id
    BY <1>1, RoutesHaveEnds
  <2> QED BY <1>2, <2>1, AlignedRouteParts
<1>9. Aligned(d, new) = [new EXCEPT !.destinations = D, !.accounts = A, !.sources = S, !.routes = R]
  BY <1>6 DEF Aligned
<1> HIDE DEF D, A, S, R
<1>10. /\ Aligned(d, new) \in Canonical /\ Aligned(d, new).version = 8 /\ Aligned(d, new).destinations = D
       /\ Aligned(d, new).accounts = A /\ Aligned(d, new).sources = S /\ Aligned(d, new).routes = R
  BY <1>1, <1>5, <1>7, <1>8, <1>9 DEF Canonical
<1> QED BY <1>5, <1>10 DEF D, A, S, R

\* A destination of it is that of the migrated document at its place, kept.
LEMMA AlignedPlaces ==
  ASSUME NEW d, Sound(d), NEW new, Sound(new), NEW i \in DOMAIN new.destinations
  PROVE  /\ new.destinations[i] \in ToSet(new.destinations) /\ new.destinations[i] \in Destination
         /\ new.destinations[i].link # None
         /\ Aligned(d, new).destinations[i] = KeptDestination(d, new.destinations[i])
         /\ Aligned(d, new).destinations[i] \in ToSet(Aligned(d, new).destinations)
         /\ Aligned(d, new).destinations[i].who = new.destinations[i].who
         /\ Aligned(d, new).destinations[i].link = new.destinations[i].link
<1>1. new.destinations[i] \in ToSet(new.destinations)
  BY DEF ToSet
<1>2. new.destinations[i] \in Destination /\ new.destinations[i].link # None /\ d \in Canonical
  BY <1>1, SoundParts, DestinationPlaces
<1>3. Aligned(d, new).destinations = AlignedList(d, new.destinations)
  BY AlignedParts
<1>4. Aligned(d, new).destinations[i] = KeptDestination(d, new.destinations[i])
  BY <1>3 DEF AlignedList
<1>5. Aligned(d, new).destinations[i] \in ToSet(Aligned(d, new).destinations)
  BY <1>3 DEF AlignedList, ToSet
<1> QED BY <1>1, <1>2, <1>4, <1>5, KeptDestinationParts

\* Where a route of it leads from and to.
LEMMA AlignedEnds ==
  ASSUME NEW d, Sound(d), NEW new, Sound(new), IsValidDocument(Aligned(d, new)),
         NEW r \in new.routes, NEW s \in new.sources, NEW i \in DOMAIN new.destinations,
         r.source = s.id, r.destination = new.destinations[i].id,
         NEW t \in Aligned(d, new).sources, NEW y \in ToSet(Aligned(d, new).destinations)
  PROVE  LET q == AlignedRoute(d, new, r) IN
         /\ q.source = t.id => t = AlignedSource(d, s) /\ t.name = s.name
         /\ q.destination = y.id => y = Aligned(d, new).destinations[i] /\ y.who = new.destinations[i].who
<1> DEFINE q == AlignedRoute(d, new, r)
           out == Aligned(d, new)
           x == new.destinations[i]
<1>1. d \in Canonical /\ new \in Canonical
  BY SoundParts
<1>2. x \in ToSet(new.destinations) /\ out.destinations[i] = KeptDestination(d, x)
      /\ out.destinations[i] \in ToSet(out.destinations) /\ out.destinations[i].who = x.who
  BY AlignedPlaces
<1>3. q.source = AlignedSource(d, s).id /\ q.destination = KeptDestination(d, x).id
  BY <1>1, <1>2, AlignedRouteParts
<1>4. AlignedSource(d, s) \in out.sources
  BY AlignedParts
<1>5. AlignedSource(d, s).name = s.name
  BY <1>1, AlignedSourceParts, CanonicalParts
<1>6. IsValidDocument(out)
  OBVIOUS
<1> HIDE DEF q, out, x
<1>7. q.source = t.id => t = AlignedSource(d, s)
  BY <1>3, <1>4, <1>6 DEF IsValidDocument, out
<1>8. q.destination = y.id => y = out.destinations[i]
  <2>1. {z \in ToSet(out.destinations) : z.id = out.destinations[i].id} = {out.destinations[i]}
    BY <1>2, <1>6, ThisDestination
  <2> QED BY <1>2, <1>3, <2>1 DEF out
<1> QED BY <1>2, <1>5, <1>7, <1>8 DEF q, out, x

\* It leads every source where the migrated document leads it.
LEMMA AlignedFits ==
  ASSUME NEW d, Sound(d), NEW new, Sound(new), IsValidDocument(Aligned(d, new))
  PROVE  /\ AccountsFit(Aligned(d, new)) /\ LeadsFit(Aligned(d, new))
         /\ \A x \in ToSet(Aligned(d, new).destinations) : x.link # None
         /\ Feeds(Aligned(d, new)) = Feeds(new)
<1> DEFINE out == Aligned(d, new)
           D == new.destinations
<1>1. d \in Canonical /\ IsValidDocument(d)
  BY SoundParts
<1>2. /\ new \in Canonical /\ IsValidDocument(new) /\ AccountsFit(new) /\ LeadsFit(new)
  BY SoundParts
<1>3. /\ DOMAIN out.destinations = DOMAIN D
      /\ out.accounts = {KeptAccount(d, a) : a \in new.accounts}
      /\ out.sources = {AlignedSource(d, s) : s \in new.sources}
      /\ out.routes = {AlignedRoute(d, new, r) : r \in new.routes}
  BY AlignedParts
<1>4. \A i \in DOMAIN D : /\ D[i] \in ToSet(D) /\ D[i].link # None
                          /\ out.destinations[i] \in ToSet(out.destinations)
                          /\ out.destinations[i].who = D[i].who /\ out.destinations[i].link = D[i].link
  BY AlignedPlaces
<1>5. \A x \in ToSet(out.destinations) : \E i \in DOMAIN D : x = out.destinations[i]
  BY <1>3 DEF ToSet
<1>6. IsValidDocument(out)
  OBVIOUS
<1> HIDE DEF out
<1>7. AccountsFit(out)
  <2> SUFFICES ASSUME NEW x \in ToSet(out.destinations), NEW b \in AccountOf(out, x) PROVE b.who = x.who
    BY DEF AccountsFit
  <2>1. PICK i \in DOMAIN D : x = out.destinations[i]
    BY <1>5
  <2>2. b \in out.accounts /\ b.id = x.link
    BY DEF AccountOf
  <2>3. PICK a \in new.accounts : b = KeptAccount(d, a)
    BY <1>3, <2>2
  <2>4. b.id = a.id /\ b.who = a.who
    BY <1>1, <1>2, <2>3, KeptAccountParts, CanonicalParts
  <2>5. a \in AccountOf(new, D[i])
    BY <1>4, <2>1, <2>2, <2>4 DEF AccountOf
  <2> QED BY <1>2, <1>4, <2>1, <2>4, <2>5 DEF AccountsFit
<1>8. \A x \in ToSet(out.destinations) : x.link # None
  BY <1>4, <1>5
<1> DEFINE IsOf(q, t, y, r, s, i) ==
             /\ q = AlignedRoute(d, new, r) /\ r.source = s.id /\ r.destination = D[i].id
             /\ t.name = s.name /\ y = out.destinations[i] /\ y.who = D[i].who
             /\ q.paused = r.paused /\ q.lead = r.lead /\ q.mode = r.mode
<1>9. ASSUME NEW q \in out.routes, NEW t \in out.sources, NEW y \in ToSet(out.destinations),
             q.source = t.id, q.destination = y.id
      PROVE  \E r \in new.routes, s \in new.sources, i \in DOMAIN D : IsOf(q, t, y, r, s, i)
  <2>1. PICK r \in new.routes : q = AlignedRoute(d, new, r)
    BY <1>3
  <2>2. PICK s \in new.sources, x \in ToSet(D) : r.source = s.id /\ r.destination = x.id
    BY <1>2, RoutesHaveEnds
  <2>3. PICK i \in DOMAIN D : x = D[i]
    BY DEF ToSet
  <2>4. t.name = s.name /\ y = out.destinations[i] /\ y.who = D[i].who
    BY <1>6, <1>9, <2>1, <2>2, <2>3, AlignedEnds DEF out
  <2>5. q.paused = r.paused /\ q.lead = r.lead /\ q.mode = r.mode
    BY <1>1, <2>1, <2>2, AlignedRouteParts
  <2> QED BY <2>1, <2>2, <2>3, <2>4, <2>5
<1>10. LeadsFit(out)
  <2> SUFFICES ASSUME NEW y \in ToSet(out.destinations), NEW q \in RoutesTo(out, y), NEW o \in RoutesTo(out, y),
                      q.lead, o.lead
               PROVE  q = o
    BY DEF LeadsFit
  <2>1. PICK t \in XSources(out) : q \in out.routes /\ q.destination = y.id /\ t.id = q.source
    BY DEF RoutesTo
  <2>2. PICK u \in XSources(out) : o \in out.routes /\ o.destination = y.id /\ u.id = o.source
    BY DEF RoutesTo
  <2>3. t \in out.sources /\ t.name \in XNames /\ u \in out.sources /\ u.name \in XNames
    BY DEF XSources
  <2>4. PICK r \in new.routes, s \in new.sources, i \in DOMAIN D : IsOf(q, t, y, r, s, i)
    <3> HIDE DEF D, out, IsOf
    <3> QED BY <1>9, <2>1, <2>3
  <2>5. PICK p \in new.routes, v \in new.sources, j \in DOMAIN D : IsOf(o, u, y, p, v, j)
    <3> HIDE DEF D, out, IsOf
    <3> QED BY <1>9, <2>2, <2>3
  <2>6. i = j
    <3>1. out.destinations[i].id = out.destinations[j].id
      BY <2>4, <2>5
    <3> QED BY <1>3, <1>6, <3>1 DEF IsValidDocument
  <2>7. r \in RoutesTo(new, D[i]) /\ p \in RoutesTo(new, D[i])
    BY <2>3, <2>4, <2>5, <2>6 DEF RoutesTo, XSources
  <2>8. r.lead /\ p.lead
    BY <2>4, <2>5
  <2>9. r = p
    BY <1>2, <1>4, <2>7, <2>8 DEF LeadsFit
  <2> QED BY <2>4, <2>5, <2>9
<1>11. ASSUME NEW f \in Feeds(out) PROVE f \in Feeds(new)
  <2>1. PICK t, y, q : IsFed(out, t, y, q) /\ f = Flow(t, y, q)
    BY <1>7, FeedsAreFlows
  <2>2. PICK r \in new.routes, s \in new.sources, i \in DOMAIN D : IsOf(q, t, y, r, s, i)
    <3> HIDE DEF D, out, IsOf
    <3> QED BY <1>9, <2>1 DEF IsFed
  <2>3. IsFed(new, s, D[i], r)
    BY <1>4, <2>2 DEF IsFed
  <2>4. f = Flow(s, D[i], r)
    BY <2>1, <2>2 DEF Flow
  <2> QED BY <1>2, <2>3, <2>4, FlowsAreFeeds
<1>12. ASSUME NEW f \in Feeds(new) PROVE f \in Feeds(out)
  <2>1. PICK s, x, r : IsFed(new, s, x, r) /\ f = Flow(s, x, r)
    BY <1>2, FeedsAreFlows
  <2>2. PICK i \in DOMAIN D : x = D[i]
    BY <2>1 DEF IsFed, ToSet
  <2> DEFINE q == AlignedRoute(d, new, r)
             t == AlignedSource(d, s)
             y == out.destinations[i]
  <2>3. q \in out.routes /\ t \in out.sources /\ y \in ToSet(out.destinations)
    BY <1>3, <1>4, <2>1 DEF IsFed
  <2>4. /\ q.source = t.id /\ q.destination = KeptDestination(d, x).id
        /\ q.paused = r.paused /\ q.lead = r.lead /\ q.mode = r.mode
    BY <1>1, <2>1, AlignedRouteParts DEF IsFed
  <2>5. y = KeptDestination(d, x) /\ y.who = x.who
    BY <1>4, <2>2, AlignedPlaces DEF out
  <2>6. t.name = s.name
    BY <1>1, <1>2, <2>1, AlignedSourceParts, CanonicalParts DEF IsFed
  <2> HIDE DEF q, t, y
  <2>7. IsFed(out, t, y, q)
    BY <2>3, <2>4, <2>5 DEF IsFed
  <2>8. f = Flow(t, y, q)
    BY <2>1, <2>4, <2>5, <2>6 DEF Flow
  <2> QED BY <1>7, <2>7, <2>8, FlowsAreFeeds
<1>13. Feeds(out) = Feeds(new)
  BY <1>11, <1>12
<1> QED BY <1>7, <1>8, <1>10, <1>13 DEF out

\* A destination of an account that is here is the one that is here.
LEMMA KeptIsOurs ==
  ASSUME NEW d, Sound(d), NEW h, NEW y \in ToSet(d.destinations), Agrees(d, h, y),
         NEW w \in ToSet(h.destinations), w.who = y.who,
         NEW z \in Destination, z.id = w.id, z.who = w.who, z.link # None
  PROVE  /\ KeptDestination(d, z).id = y.id /\ KeptDestination(d, z).key = y.key
         /\ y.legacy \subseteq KeptDestination(d, z).legacy
<1>1. d \in Canonical
  BY SoundParts
<1>2. Existing(d, z) # {} /\ FirstOf(d, Existing(d, z)) = y
  <2>1. CASE ByLegacyId(d, z.id) # {}
    <3>1. Existing(d, z) = ByLegacyId(d, w.id)
      BY <2>1 DEF Existing
    <3>2. FirstOf(d, ByLegacyId(d, w.id)) = y <=> w.who = y.who
      BY <2>1 DEF Agrees
    <3> QED BY <2>1, <3>1, <3>2
  <2>2. CASE ByLegacyId(d, z.id) = {}
    <3>1. Existing(d, z) = ByAccount(d, z)
      BY <2>2 DEF Existing
    <3>2. PICK i \in DOMAIN d.destinations : y = d.destinations[i]
      BY DEF ToSet
    <3>3. ByAccount(d, z) \in SUBSET DOMAIN d.destinations /\ ByAccount(d, z) # {}
      BY <3>2 DEF ByAccount
    <3>4. Min(ByAccount(d, z)) \in ByAccount(d, z) /\ FirstOf(d, ByAccount(d, z)) = d.destinations[Min(ByAccount(d, z))]
      BY <1>1, <3>3, FirstOfPlaces
    <3>5. FirstOf(d, ByAccount(d, z)) \in ToSet(d.destinations) /\ FirstOf(d, ByAccount(d, z)).who = y.who
      BY <3>4 DEF ByAccount, ToSet
    <3>6. IsOnly(d, y)
      BY DEF Agrees
    <3> QED BY <3>1, <3>3, <3>5, <3>6 DEF IsOnly
  <2> QED BY <2>1, <2>2
<1> QED BY <1>1, <1>2, KeptDestinationParts

LEMMA ImportedIsAligned ==
  ASSUME NEW d, NEW h, NEW n, MergedImport(d, h, n) # None
  PROVE  LET new == Migrated(Prepared(d, h), n) IN
         new # None /\ MergedImport(d, h, n) = Aligned(d, new) /\ IsValidDocument(Aligned(d, new))
<1> DEFINE new == Migrated(Prepared(d, h), n)
           D == AlignedList(d, new.destinations)
           claims == {i \in DOMAIN D : Existing(d, new.destinations[i]) # {}}
<1>1. MergedImport(d, h, n) =
        IF new = None THEN None
        ELSE IF (\E i, j \in claims : i # j /\ D[i].id = D[j].id) \/ ~IsValidDocument(Aligned(d, new))
             THEN None ELSE Aligned(d, new)
  BY DEF MergedImport, AlignedList, Aligned
<1> HIDE DEF new, D, claims
<1>2. new # None /\ MergedImport(d, h, n) = Aligned(d, new) /\ IsValidDocument(Aligned(d, new))
  BY <1>1
<1> QED BY <1>2 DEF new

\* An import that is saved is sound, leads every source where the other document led it
\* and leaves the destinations that are here what they are.
LEMMA ImportKeeps ==
  ASSUME NEW d, Sound(d), NEW h, IsDocument(h), IsInOrder(h), NEW n \in Nat, n + Size(h) <= MaxFresh + 1,
         MergedImport(d, h, n) # None, IsValidDocument(Saved(MergedImport(d, h, n)))
  PROVE  /\ Sound(Saved(MergedImport(d, h, n))) /\ Feeds(Saved(MergedImport(d, h, n))) = FeedsOf(h)
         /\ ~IsMappingList(h) => KeepsIdentities(d, h, Saved(MergedImport(d, h, n)))
<1> DEFINE p == Prepared(d, h)
           new == Migrated(p, n)
           out == MergedImport(d, h, n)
           next == Saved(out)
<1>1. d \in Canonical /\ IsValidDocument(d)
  BY SoundParts
<1>2. /\ IsDocument(p) /\ IsInOrder(p) /\ Size(p) = Size(h) /\ FeedsOf(p) = FeedsOf(h)
      /\ IsMappingList(p) <=> IsMappingList(h)
      /\ ~IsMappingList(h) => p.destinations = h.destinations
  BY <1>1, PreparedParts
<1>3. new # None /\ out = Aligned(d, new) /\ IsValidDocument(Aligned(d, new))
  BY ImportedIsAligned
<1>4. IsValidDocument(next)
  OBVIOUS
<1>5. next = Saved(out)
  OBVIOUS
<1> HIDE DEF p, new, out, next
<1>6. /\ Sound(new) /\ Feeds(new) = FeedsOf(h)
      /\ ~IsMappingList(h) => IsSameList(h.destinations, new.destinations)
  BY <1>2, <1>3, Migration DEF new
<1>7. /\ out \in Canonical /\ out.version = 8 /\ DOMAIN out.destinations = DOMAIN new.destinations
      /\ out.accounts = {KeptAccount(d, a) : a \in new.accounts}
  BY <1>3, <1>6, AlignedParts
<1>8. /\ AccountsFit(out) /\ LeadsFit(out) /\ Feeds(out) = Feeds(new) /\ IsValidDocument(out)
      /\ \A x \in ToSet(out.destinations) : x.link # None
  BY <1>3, <1>6, AlignedFits
<1>9. Sound(next)
  BY <1>4, <1>5, <1>7, <1>8, SavingKeeps
<1>10. Feeds(next) = FeedsOf(h)
  BY <1>5, <1>6, <1>7, <1>8, SavedFits
<1>11. /\ next.accounts = out.accounts /\ DOMAIN next.destinations = DOMAIN out.destinations
       /\ \A i \in DOMAIN out.destinations :
            /\ next.destinations[i].id = out.destinations[i].id /\ next.destinations[i].who = out.destinations[i].who
            /\ next.destinations[i].link = out.destinations[i].link /\ next.destinations[i].key = out.destinations[i].key
            /\ next.destinations[i].legacy = out.destinations[i].legacy
  BY <1>5, <1>7, <1>8, SavedKeeps
<1>12. ASSUME ~IsMappingList(h), NEW y \in ToSet(d.destinations), NEW x \in ToSet(next.destinations),
              x.who = y.who, Agrees(d, h, y)
       PROVE  /\ x.id = y.id /\ x.key = y.key /\ y.legacy \subseteq x.legacy
              /\ x.link = y.link => \A a \in AccountOf(d, y), b \in AccountOf(next, x) : a.secret # None => b.secret # None
  <2>1. PICK i \in DOMAIN new.destinations : x = next.destinations[i]
    BY <1>7, <1>11 DEF ToSet
  <2> DEFINE z == new.destinations[i]
             w == h.destinations[i]
  <2>2. /\ z \in Destination /\ z.link # None /\ out.destinations[i] = KeptDestination(d, z)
        /\ out.destinations[i].who = z.who
    BY <1>3, <1>6, AlignedPlaces
  <2>3. w \in ToSet(h.destinations) /\ z.id = w.id /\ z.who = w.who
    BY <1>6, <1>12 DEF IsSameList, ToSet
  <2>4. /\ x.id = KeptDestination(d, z).id /\ x.key = KeptDestination(d, z).key
        /\ x.legacy = KeptDestination(d, z).legacy /\ x.who = z.who
    BY <1>7, <1>11, <2>1, <2>2
  <2> HIDE DEF z, w
  <2>5. x.id = y.id /\ x.key = y.key /\ y.legacy \subseteq x.legacy
    <3>1. PICK v \in Destination, u \in ToSet(h.destinations) : v = z /\ u = w
      BY <2>2, <2>3
    <3>2. u.who = y.who /\ v.id = u.id /\ v.who = u.who /\ v.link # None
      BY <1>12, <2>2, <2>3, <2>4, <3>1
    <3>3. /\ KeptDestination(d, v).id = y.id /\ KeptDestination(d, v).key = y.key
          /\ y.legacy \subseteq KeptDestination(d, v).legacy
      BY <1>12, <3>2, KeptIsOurs
    <3> QED BY <2>4, <3>1, <3>3
  <2>6. ASSUME x.link = y.link, NEW a \in AccountOf(d, y), NEW b \in AccountOf(next, x), a.secret # None
        PROVE  b.secret # None
    <3>1. a \in d.accounts /\ b \in out.accounts /\ b.id = a.id
      BY <1>11, <2>6 DEF AccountOf
    <3>2. PICK c \in new.accounts : b = KeptAccount(d, c)
      BY <1>7, <3>1
    <3>3. c \in BlueskyAccount
      BY <1>6, SoundParts, CanonicalParts
    <3> QED BY <1>1, <2>6, <3>1, <3>2, <3>3, KeptAccountParts
  <2> QED BY <2>5, <2>6
<1>13. ~IsMappingList(h) => KeepsIdentities(d, h, next)
  BY <1>12 DEF KeepsIdentities
<1> QED BY <1>9, <1>10, <1>13 DEF next, out
--------------------------------------------------------------------------------
(***************************************************************************)
(* The state: what is held is a document in order, and so is what is on    *)
(* disk once it has come up the ladder.                                    *)
(***************************************************************************)
TransferInv ==
  /\ TransferTypeOK
  /\ IsInOrder(document) /\ (IsUpgraded => Sound(document))
  /\ held # None => IsInOrder(held)

LEMMA RedactedParts ==
  ASSUME NEW d, Sound(d)
  PROVE  IsDocument(Redacted(d)) /\ IsInOrder(Redacted(d))
<1> DEFINE D == d.destinations
           list == [i \in DOMAIN D |-> [D[i] EXCEPT !.secret = None]]
           A == {[a EXCEPT !.secret = None] : a \in d.accounts}
           e == Redacted(d)
<1>1. /\ d \in Canonical /\ d.version = 8 /\ AccountsFit(d) /\ LeadsFit(d)
      /\ \A x \in ToSet(D) : x.link # None /\ AccountOf(d, x) # {}
  BY SoundParts
<1>2. D \in Seq(Destination) /\ \A i \in DOMAIN D : D[i] \in Destination /\ D[i] \in ToSet(D)
  BY <1>1, CanonicalParts, DestinationPlaces DEF ToSet
<1>3. ASSUME NEW i \in DOMAIN D
      PROVE  list[i] \in Destination /\ list[i].id = D[i].id /\ list[i].who = D[i].who /\ list[i].link = D[i].link
  <2>1. list[i] = [D[i] EXCEPT !.secret = None]
    OBVIOUS
  <2> HIDE DEF list
  <2> QED BY <1>2, <2>1 DEF Destination
<1>4. list \in Seq(Destination) /\ DOMAIN list = DOMAIN D
  <2>1. list \in [DOMAIN D -> Destination]
    BY <1>3
  <2> HIDE DEF list
  <2> QED BY <1>2, <2>1, MappedIsSeq
<1>5. \A a \in d.accounts : /\ [a EXCEPT !.secret = None] \in BlueskyAccount
                            /\ [a EXCEPT !.secret = None].id = a.id /\ [a EXCEPT !.secret = None].who = a.who
  BY <1>1, CanonicalParts DEF BlueskyAccount
<1>6. A \subseteq BlueskyAccount
  BY <1>5
<1>7. e = [d EXCEPT !.destinations = list, !.accounts = A]
  BY DEF Redacted
<1> HIDE DEF list, e
<1>8. /\ \A b \in A : \E a \in d.accounts : b.id = a.id /\ b.who = a.who
      /\ \A a \in d.accounts : \E b \in A : b.id = a.id /\ b.who = a.who
  BY <1>5
<1> HIDE DEF A
<1>9. /\ e \in Canonical /\ e.version = 8 /\ e.destinations = list /\ e.accounts = A
      /\ e.sources = d.sources /\ e.routes = d.routes
  BY <1>1, <1>4, <1>6, <1>7 DEF Canonical
<1>10. ASSUME NEW x \in ToSet(e.destinations)
       PROVE  /\ x.link # None /\ AccountOf(e, x) # {} /\ \A a \in AccountOf(e, x) : a.who = x.who
              /\ \A r, q \in RoutesTo(e, x) : r.lead /\ q.lead => r = q
  <2>1. PICK i \in DOMAIN D : x = list[i]
    BY <1>4, <1>9 DEF ToSet
  <2>2. x.id = D[i].id /\ x.who = D[i].who /\ x.link = D[i].link /\ D[i] \in ToSet(D)
    BY <1>2, <1>3, <2>1
  <2>3. PICK a \in d.accounts : a.id = x.link
    BY <1>1, <2>2 DEF AccountOf
  <2>4. AccountOf(e, x) # {}
    BY <1>8, <1>9, <2>3 DEF AccountOf
  <2>5. \A b \in AccountOf(e, x) : b.who = x.who
    BY <1>1, <1>8, <1>9, <2>2 DEF AccountOf, AccountsFit
  <2>6. RoutesTo(e, x) = RoutesTo(d, D[i])
    BY <1>9, <2>2 DEF RoutesTo, XSources
  <2> QED BY <1>1, <2>2, <2>4, <2>5, <2>6 DEF LeadsFit
<1>11. ~IsMappingList(e)
  BY <1>9 DEF IsMappingList
<1>12. IsInOrder(e)
  BY <1>10, <1>11 DEF IsInOrder
<1> QED BY <1>9, <1>12 DEF e, IsDocument

LEMMA SoundIsDocument ==
  ASSUME NEW d, Sound(d)
  PROVE  IsDocument(d) /\ IsInOrder(d)
BY DEF Sound, IsDocument

LEMMA SizeIsNat ==
  ASSUME NEW d, IsDocument(d)
  PROVE  Size(d) \in Nat
<1>1. CASE d \in MappingList
  BY <1>1, ListParts DEF Size, IsMappingList
<1>2. CASE d \in Canonical
  BY <1>2, CanonicalParts, DestinationPlaces DEF Size, IsMappingList
<1> QED BY <1>1, <1>2 DEF IsDocument

LEMMA TransferStarts == TransferInit => TransferInv
<1> SUFFICES ASSUME TransferInit PROVE TransferInv
  OBVIOUS
<1>1. IsDocument(document) /\ IsInOrder(document) /\ document.version < 8
  BY DocumentsAssumption DEF TransferInit
<1>2. held # None => IsDocument(held) /\ IsInOrder(held)
  BY DocumentsAssumption DEF TransferInit
<1>3. fresh \in 0 .. MaxFresh + 1
  BY TransferAssumption DEF TransferInit
<1>4. ~IsUpgraded
  <2>1. document.version # 8
    <3>1. document.version \in Nat
      BY <1>1, ListParts, CanonicalParts DEF IsDocument
    <3> QED BY <1>1, <3>1
  <2> QED BY <2>1 DEF IsUpgraded
<1> QED BY <1>1, <1>2, <1>3, <1>4 DEF TransferInv, TransferTypeOK

\* A sound document may be saved.
LEMMA SoundMayBeSaved ==
  ASSUME TransferInv, Sound(document'), held' = held, fresh' \in 0 .. MaxFresh + 1
  PROVE  TransferInv'
<1>1. IsDocument(document') /\ IsInOrder(document')
  BY SoundIsDocument
<1> QED BY <1>1 DEF TransferInv, TransferTypeOK

LEMMA SpendingStays ==
  ASSUME TransferInv, NEW k \in Nat, Spend(k)
  PROVE  fresh \in Nat /\ fresh' \in 0 .. MaxFresh + 1 /\ fresh + k <= MaxFresh + 1
BY TransferAssumption DEF TransferInv, TransferTypeOK, Spend

LEMMA LoadLeads ==
  ASSUME TransferInv, Load
  PROVE  /\ Sound(document') /\ fresh' \in 0 .. MaxFresh + 1 /\ held' = held
         /\ Feeds(document') = FeedsOf(document)
<1>1. IsDocument(document) /\ IsInOrder(document) /\ Spend(Size(document))
  BY DEF TransferInv, TransferTypeOK, Load
<1>2. Size(document) \in Nat
  BY <1>1, SizeIsNat
<1>3. fresh \in Nat /\ fresh' \in 0 .. MaxFresh + 1 /\ fresh + Size(document) <= MaxFresh + 1
  BY <1>1, <1>2, SpendingStays
<1>4. Migrated(document, fresh) # None /\ document' = Migrated(document, fresh) /\ held' = held
  BY DEF Load
<1>5. Sound(Migrated(document, fresh)) /\ Feeds(Migrated(document, fresh)) = FeedsOf(document)
  <2>1. PICK d, n : d = document /\ n = fresh /\ n \in Nat
    BY <1>3
  <2>2. IsDocument(d) /\ IsInOrder(d) /\ n + Size(d) <= MaxFresh + 1 /\ Migrated(d, n) # None
    BY <1>1, <1>3, <1>4, <2>1
  <2>3. Sound(Migrated(d, n)) /\ Feeds(Migrated(d, n)) = FeedsOf(d)
    BY <2>1, <2>2, Migration
  <2> QED BY <2>1, <2>3
<1> QED BY <1>3, <1>4, <1>5

LEMMA ImportLeads ==
  ASSUME TransferInv, Import
  PROVE  /\ Sound(document') /\ fresh' \in 0 .. MaxFresh + 1 /\ held' = held
         /\ Feeds(document') = FeedsOf(held)
         /\ ~IsMappingList(held) => KeepsIdentities(document, held, document')
<1>1. /\ Sound(document) /\ IsDocument(held) /\ IsInOrder(held) /\ Spend(Size(held)) /\ held' = held
  BY DEF TransferInv, TransferTypeOK, Import
<1>2. Size(held) \in Nat
  BY <1>1, SizeIsNat
<1>3. fresh \in Nat /\ fresh' \in 0 .. MaxFresh + 1 /\ fresh + Size(held) <= MaxFresh + 1
  BY <1>1, <1>2, SpendingStays
<1>4. /\ MergedImport(document, held, fresh) # None
      /\ document' = Saved(MergedImport(document, held, fresh))
      /\ IsValidDocument(Saved(MergedImport(document, held, fresh)))
  BY DEF Import, Keep
<1>5. PICK d, h, n : d = document /\ h = held /\ n = fresh /\ n \in Nat
  BY <1>3
<1>6. /\ Sound(d) /\ IsDocument(h) /\ IsInOrder(h) /\ n + Size(h) <= MaxFresh + 1
      /\ MergedImport(d, h, n) # None /\ IsValidDocument(Saved(MergedImport(d, h, n)))
  BY <1>1, <1>3, <1>4, <1>5
<1>7. /\ Sound(Saved(MergedImport(d, h, n))) /\ Feeds(Saved(MergedImport(d, h, n))) = FeedsOf(h)
      /\ ~IsMappingList(h) => KeepsIdentities(d, h, Saved(MergedImport(d, h, n)))
  BY <1>5, <1>6, ImportKeeps
<1> QED BY <1>1, <1>3, <1>4, <1>5, <1>7

LEMMA ExportStays ==
  ASSUME TransferInv, NEW isFull \in BOOLEAN, Export(isFull)
  PROVE  TransferInv'
<1>1. Sound(document) /\ document' = document /\ fresh' = fresh /\ held' = IF isFull THEN document ELSE Redacted(document)
  BY DEF TransferInv, Export
<1>2. IsDocument(held') /\ IsInOrder(held')
  BY <1>1, SoundIsDocument, RedactedParts
<1> QED BY <1>1, <1>2 DEF TransferInv, TransferTypeOK, IsUpgraded

LEMMA CreationStays ==
  ASSUME TransferInv, NEW p \in People, NEW secret \in AppPasswords, NEW names \in SUBSET XNames,
         CreateDestination(p, secret, names)
  PROVE  TransferInv'
<1> DEFINE a == [id |-> fresh, who |-> p, did |-> TRUE, secret |-> secret]
           m == [id |-> fresh + 1, who |-> p, did |-> TRUE, secret |-> secret, policy |-> FALSE, link |-> fresh,
                 names |-> names, paused |-> {}, lead |-> None]
           new == WithMappings([document EXCEPT !.accounts = @ \cup {a}], Append(ProjectedMappings(document), m))
<1>1. Sound(document) /\ Spend(2) /\ held' = held
  BY DEF TransferInv, CreateDestination
<1>2. IsValidDocument(new) /\ document' = new
  BY DEF CreateDestination, Keep
<1>3. fresh \in Nat /\ fresh' \in 0 .. MaxFresh + 1 /\ fresh + 2 <= MaxFresh + 1
  BY <1>1, SpendingStays
<1>4. Sound(new)
  <2>1. PICK d, n : d = document /\ n = fresh /\ n \in Nat
    BY <1>3
  <2>2. n + 1 \in Ids
    BY <1>3, <2>1, TransferAssumption DEF Ids
  <2>3. PICK b : b = [id |-> n, who |-> p, did |-> TRUE, secret |-> secret]
    OBVIOUS
  <2>4. PICK l : l = [id |-> n + 1, who |-> p, did |-> TRUE, secret |-> secret, policy |-> FALSE, link |-> n,
                      names |-> names, paused |-> {}, lead |-> None]
    OBVIOUS
  <2>5. PICK e : e = WithMappings([d EXCEPT !.accounts = @ \cup {b}], Append(ProjectedMappings(d), l))
    OBVIOUS
  <2>6. b = a /\ l = m /\ e = new
    <3>1. b = a /\ l = m
      BY <2>1, <2>3, <2>4
    <3> HIDE DEF a, m
    <3> QED BY <2>1, <2>5, <3>1
  <2>7. Sound(d) /\ IsValidDocument(e)
    <3> HIDE DEF new
    <3> QED BY <1>1, <1>2, <2>1, <2>6
  <2>8. Sound(e)
    BY <2>1, <2>2, <2>3, <2>4, <2>5, <2>7, CreationKeeps
  <2> HIDE DEF new
  <2> QED BY <2>6, <2>8
<1> HIDE DEF new
<1> QED BY <1>1, <1>2, <1>3, <1>4, SoundMayBeSaved

LEMMA DeletionStays ==
  ASSUME TransferInv, NEW i \in DOMAIN document.destinations, DeleteDestination(i)
  PROVE  TransferInv'
<1>1. Sound(document) /\ held' = held /\ fresh' = fresh /\ fresh \in 0 .. MaxFresh + 1
  BY DEF TransferInv, TransferTypeOK, DeleteDestination
<1>2. PICK d : d = document
  OBVIOUS
<1>3. /\ IsValidDocument(WithMappings(d, RemoveAt(ProjectedMappings(d), i)))
      /\ document' = WithMappings(d, RemoveAt(ProjectedMappings(d), i))
  BY <1>2 DEF DeleteDestination, Keep
<1>4. PICK j \in DOMAIN d.destinations : j = i
  BY <1>2
<1>5. IsValidDocument(WithMappings(d, RemoveAt(ProjectedMappings(d), j)))
  BY <1>3, <1>4
<1>6. Sound(WithMappings(d, RemoveAt(ProjectedMappings(d), j)))
  BY <1>1, <1>2, <1>5, DeletionKeeps
<1> QED BY <1>1, <1>3, <1>4, <1>6, SoundMayBeSaved

LEMMA RelinkingStays ==
  ASSUME TransferInv, NEW x \in ToSet(document.destinations), NEW a \in document.accounts, Relink(x, a)
  PROVE  TransferInv'
<1>1. Sound(document) /\ held' = held /\ fresh' = fresh /\ fresh \in 0 .. MaxFresh + 1
  BY DEF TransferInv, TransferTypeOK, Relink
<1>2. PICK d, ms : d = document /\ ms = ProjectedMappings(d)
  OBVIOUS
<1>3. PICK y \in ToSet(d.destinations), b \in d.accounts : y = x /\ b = a
  BY <1>2
<1>4. PICK ls : ls = Relinked(ms, y, b)
  OBVIOUS
<1>5. IsValidDocument(WithMappings(d, ls)) /\ document' = WithMappings(d, ls)
  BY <1>2, <1>3, <1>4 DEF Relink, Relinked, Keep
<1>6. Sound(WithMappings(d, ls))
  BY <1>1, <1>2, <1>4, <1>5, RelinkingKeeps
<1> QED BY <1>1, <1>5, <1>6, SoundMayBeSaved

LEMMA DroppingStays ==
  ASSUME TransferInv, NEW a \in document.accounts, DropAccount(a)
  PROVE  TransferInv'
<1>1. Sound(document) /\ held' = held /\ fresh' = fresh /\ fresh \in 0 .. MaxFresh + 1
  BY DEF TransferInv, TransferTypeOK, DropAccount
<1>2. PICK d : d = document
  OBVIOUS
<1>3. PICK b \in d.accounts : b = a
  BY <1>2
<1>4. PICK new : new = [d EXCEPT !.accounts = @ \ {b}]
  OBVIOUS
<1>5. /\ IsValidDocument(Saved(new)) /\ document' = Saved(new)
      /\ \A x \in ToSet(d.destinations) : x.link # b.id
  BY <1>2, <1>3, <1>4 DEF DropAccount, Keep
<1>6. Sound(Saved(new))
  BY <1>1, <1>2, <1>4, <1>5, DroppingKeeps
<1> QED BY <1>1, <1>5, <1>6, SoundMayBeSaved

LEMMA PostingStays ==
  ASSUME TransferInv, NEW name \in SourceNames, NEW D \in SUBSET ToSet(document.destinations), PostSource(name, D)
  PROVE  TransferInv'
<1>1. Sound(document) /\ held' = held /\ Spend(1)
  BY DEF TransferInv, PostSource
<1>2. fresh \in Nat /\ fresh' \in 0 .. MaxFresh + 1 /\ fresh + 1 <= MaxFresh + 1
  BY <1>1, SpendingStays
<1>3. PICK d, n : d = document /\ n = fresh /\ n \in Nat
  BY <1>2
<1>4. n \in Ids
  BY <1>2, <1>3, TransferAssumption DEF Ids
<1>5. PICK E \in SUBSET ToSet(d.destinations) : E = D
  BY <1>3
<1>6. PICK new : new = Posted(d, n, name, E)
  OBVIOUS
<1>7. IsValidDocument(new) /\ document' = new
  BY <1>3, <1>5, <1>6 DEF PostSource, Posted, Keep
<1>8. Sound(new)
  BY <1>1, <1>3, <1>4, <1>6, <1>7, PostingKeeps
<1> QED BY <1>1, <1>2, <1>7, <1>8, SoundMayBeSaved

LEMMA TransferSteps == TransferInv /\ [TransferNext]_transferVars => TransferInv'
<1> SUFFICES ASSUME TransferInv, [TransferNext]_transferVars PROVE TransferInv'
  OBVIOUS
<1>1. CASE Load
  BY <1>1, LoadLeads, SoundMayBeSaved
<1>2. CASE Import
  BY <1>2, ImportLeads, SoundMayBeSaved
<1>3. CASE \E isFull \in BOOLEAN : Export(isFull)
  BY <1>3, ExportStays
<1>4. CASE \E i \in DOMAIN document.destinations : DeleteDestination(i)
  BY <1>4, DeletionStays
<1>5. CASE \E p \in People, secret \in AppPasswords, names \in SUBSET XNames : CreateDestination(p, secret, names)
  BY <1>5, CreationStays
<1>6. CASE \E x \in ToSet(document.destinations), a \in document.accounts : Relink(x, a)
  BY <1>6, RelinkingStays
<1>7. CASE \E a \in document.accounts : DropAccount(a)
  BY <1>7, DroppingStays
<1>8. CASE \E n \in SourceNames, D \in SUBSET ToSet(document.destinations) : PostSource(n, D)
  BY <1>8, PostingStays
<1>9. CASE UNCHANGED transferVars
  BY <1>9 DEF transferVars, TransferInv, TransferTypeOK, IsUpgraded
<1> QED BY <1>1, <1>2, <1>3, <1>4, <1>5, <1>6, <1>7, <1>8, <1>9 DEF TransferNext

LEMMA TransferInvHolds == TransferSpec => []TransferInv
BY TransferStarts, TransferSteps, PTL DEF TransferSpec

\* What is on disk and what an operator holds are documents of a schema there was, and
\* ids come from a counter that stays within its bound.
THEOREM TransferTyping == TransferSpec => []TransferTypeOK
<1>1. TransferInv => TransferTypeOK
  BY DEF TransferInv
<1> QED BY <1>1, TransferInvHolds, PTL

\* Upgrades of documents of every schema, and imports of documents of others, lead every
\* source to the accounts the other document led it to, as paused and with the imports and
\* the profile source it had there; an import leaves the destinations that are here what
\* they are (migrations.ts, mergeImportedConfig()).
THEOREM RoutesStay == TransferSpec => RoutesLeadWhereTheyDid
<1>1. TransferInv =>
        [/\ Load => Feeds(document') = FeedsOf(document)
         /\ Import => /\ Feeds(document') = FeedsOf(held)
                      /\ ~IsMappingList(held) => KeepsIdentities(document, held, document')]_document
  BY LoadLeads, ImportLeads
<1> QED BY <1>1, TransferInvHolds, PTL DEF RoutesLeadWhereTheyDid
================================================================================
