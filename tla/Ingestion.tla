------------------------------- MODULE Ingestion -------------------------------
(***************************************************************************)
(* POST /api/ingest/v1/posts (src/src/server.ts), routeNormalizedPost()    *)
(* (src/src/ingestion.ts) and the tables they write (src/src/db.ts).  A    *)
(* handler awaits nothing, but every statement commits on its own: it may  *)
(* throw or the process may die between any two, and the workers of        *)
(* another process may run.  Credentials, the window of the duplicate      *)
(* suppression and the audit log are left out; a route's policy admits     *)
(* every post.                                                             *)
(***************************************************************************)
EXTENDS Integers, FiniteSets

CONSTANTS Inlets,          \* the enabled routes of the source, one per destination
          DigestInlets,    \* those that deliver digests
          Suppressing,     \* those that suppress duplicates
          Submissions,     \* posts, by external id
          ContentOf,       \* what the hash of text and links tells of a post
          Keys,            \* idempotency keys
          Vacant,          \* no request
          MaxIngestFaults  \* bound on throws and crashes

ASSUME IngestionAssumption ==
  /\ DigestInlets \subseteq Inlets /\ Suppressing \subseteq Inlets
  /\ Vacant \notin Submissions \cup Keys \cup Inlets /\ MaxIngestFaults \in Nat

VARIABLES claims,     \* ingestion_idempotency
          answers,    \* the keys whose response is saved
          stage,      \* post_queue, processed_tweets and digest_entries
          prints,     \* content_fingerprints, as counts
          ingest,       \* the request in progress
          arrivals,   \* history: publications of a post at a destination
          faults

ingestTables == <<claims, answers, stage, prints>>
ingestVars == <<ingestTables, ingest, arrivals, faults>>
--------------------------------------------------------------------------------
NoSubmission == [key |-> Vacant, post |-> Vacant, todo |-> {}, reserved |-> Vacant]

IngestTypeOK ==
  /\ claims \subseteq [key : Keys, post : Submissions] /\ answers \subseteq Keys
  /\ stage \in [Inlets -> [Submissions -> {"none", "queued", "delivered"}]]
  /\ prints \in [Inlets -> [Submissions -> 0 .. MaxIngestFaults + 1]]
  /\ ingest \in [key : Keys \cup {Vacant}, post : Submissions \cup {Vacant}, todo : SUBSET Inlets,
               reserved : Inlets \cup {Vacant}]
  /\ arrivals \in [Inlets -> [Submissions -> 0 .. 2]] /\ faults \in 0 .. MaxIngestFaults

ByInlet(value) == [r \in Inlets |-> [p \in Submissions |-> value]]

IngestInit ==
  /\ claims = {} /\ answers = {} /\ ingest = NoSubmission /\ faults = 0
  /\ stage = ByInlet("none") /\ prints = ByInlet(0) /\ arrivals = ByInlet(0)
--------------------------------------------------------------------------------
\* The unique indexes of ingestion_idempotency: a key, and a post, are claimed once.
IsRefused(k, p) == \E c \in claims : c.key = k \/ c.post = p

\* Mutation: only the queue is asked.
IsInQueue(r, p) == r \notin DigestInlets /\ stage[r][p] = "queued"

\* hasQueuedPost() and getPostForSource(); digest entries are not asked for.
IsPresent(r, p) == r \notin DigestInlets /\ stage[r][p] # "none"

\* findRecent(), which leaves out the post's own fingerprints.
IsSuppressed(r, p) ==
  r \in Suppressing /\ \E q \in Submissions \ {p} : ContentOf[q] = ContentOf[p] /\ prints[r][q] > 0

\* INSERT OR IGNORE: delivered rows are gone, delivered digest entries stay.
IsInserted(r, p) == IF r \in DigestInlets THEN stage[r][p] = "none" ELSE stage[r][p] # "queued"

\* Mutation: every fingerprint of the post is released.
WithoutPost(r, p) == [prints EXCEPT ![r][p] = 0]

\* release(): the one that was reserved.
WithoutReservation(r, p) == [prints EXCEPT ![r][p] = @ - 1]
--------------------------------------------------------------------------------
\* claimIdempotency(); what is refused is answered and changes nothing.
ReceivePost(k, p) ==
  /\ ingest = NoSubmission /\ ~IsRefused(k, p)
  /\ claims' = claims \cup {[key |-> k, post |-> p]}
  /\ ingest' = [key |-> k, post |-> p, todo |-> Inlets, reserved |-> Vacant]
  /\ UNCHANGED <<answers, stage, prints, arrivals, faults>>

\* The next route, up to the reservation of the fingerprint.
ConsiderInlet(r) ==
  LET p == ingest.post IN
  /\ ingest.reserved = Vacant /\ r \in ingest.todo
  /\ IF IsPresent(r, p) \/ IsSuppressed(r, p)
     THEN ingest' = [ingest EXCEPT !.todo = @ \ {r}] /\ UNCHANGED prints
     ELSE /\ ingest' = [ingest EXCEPT !.reserved = r]
          /\ prints' = IF r \in Suppressing THEN [prints EXCEPT ![r][p] = @ + 1] ELSE prints
  /\ UNCHANGED <<claims, answers, stage, arrivals, faults>>

\* The row or the entry, and the fingerprint if there is one already.
EnqueueAtInlet ==
  LET r == ingest.reserved
      p == ingest.post IN
  /\ r # Vacant
  /\ ingest' = [ingest EXCEPT !.todo = @ \ {r}, !.reserved = Vacant]
  /\ IF IsInserted(r, p)
     THEN stage' = [stage EXCEPT ![r][p] = "queued"] /\ UNCHANGED prints
     ELSE /\ prints' = IF r \in Suppressing THEN WithoutReservation(r, p) ELSE prints
          /\ UNCHANGED stage
  /\ UNCHANGED <<claims, answers, arrivals, faults>>

\* saveResponse().
AnswerPost ==
  /\ ingest # NoSubmission /\ ingest.todo = {} /\ ingest' = NoSubmission
  /\ answers' = answers \cup {ingest.key}
  /\ UNCHANGED <<claims, stage, prints, arrivals, faults>>

\* A statement throws: releasePending().  The reserved fingerprint stays.
IngestThrows ==
  /\ ingest # NoSubmission /\ faults < MaxIngestFaults /\ faults' = faults + 1
  /\ claims' = {c \in claims : c.key # ingest.key} /\ ingest' = NoSubmission
  /\ UNCHANGED <<answers, stage, prints, arrivals>>

\* The process dies: the claim stays without a response.
IngestCrash ==
  /\ ingest # NoSubmission /\ faults < MaxIngestFaults /\ faults' = faults + 1
  /\ ingest' = NoSubmission
  /\ UNCHANGED <<ingestTables, arrivals>>

\* The queue worker or the digest worker.
DeliverSubmission(r, p) ==
  /\ stage[r][p] = "queued" /\ stage' = [stage EXCEPT ![r][p] = "delivered"]
  /\ arrivals' = [arrivals EXCEPT ![r][p] = IF @ < 2 THEN @ + 1 ELSE @]
  /\ UNCHANGED <<claims, answers, prints, ingest, faults>>

IngestNext ==
  \/ EnqueueAtInlet \/ AnswerPost \/ IngestThrows \/ IngestCrash
  \/ \E k \in Keys, p \in Submissions : ReceivePost(k, p)
  \/ \E r \in Inlets : ConsiderInlet(r)
  \/ \E r \in Inlets, p \in Submissions : DeliverSubmission(r, p)

IngestSpec == IngestInit /\ [][IngestNext]_ingestVars
--------------------------------------------------------------------------------
\* However often a request fails half way and is sent again, a post comes to a
\* destination once.  And content is remembered from before its row is there (db.ts,
\* reserve()), so where duplicates are suppressed only one of the posts with the same
\* content gets anywhere.
ContentArrivesOnce ==
  /\ \A r \in Inlets, p \in Submissions : arrivals[r][p] <= 1
  /\ \A r \in Suppressing, p, q \in Submissions :
    p # q /\ ContentOf[p] = ContentOf[q] => stage[r][p] = "none" \/ stage[r][q] = "none"

================================================================================
