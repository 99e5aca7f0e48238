------------------------------- MODULE Dashboard -------------------------------
(***************************************************************************)
(* The dialog that edits a destination, in one tab of the dashboard, with  *)
(* the server's handlers behind it and other operators beside it           *)
(* (web/src/DashboardApp.tsx, features/destinations/, src/server.ts).      *)
(*                                                                         *)
(* The tab keeps a copy of the destination for its list, another for the   *)
(* dialog, a third of the source names as chips, and a draft per panel;    *)
(* React effects carry each into the next.  Every save names the revision  *)
(* of the copy it started from.  Answers arrive in any order or not at     *)
(* all.  A filter is the revision that wrote it; the text of policies, the *)
(* main form's fields and the other panels are one save that raises the    *)
(* revision.                                                               *)
(***************************************************************************)
EXTENDS Naturals, FiniteSets, Sequences, Functions
CONSTANTS
  Handles,      \* names of X sources
  Slots,        \* calls of the tab in flight, numbered
  Absent,
  MaxEdits      \* bound: revisions of the configuration

Destination == [revision: 0..MaxEdits, sources: SUBSET Handles, filters: [Handles -> 0..MaxEdits]]
Step == [op: {"add", "delete", "patch", "edit", "policy", "read"}, names: SUBSET Handles, seen: 0..MaxEdits]
Call == [todo: Seq(Step), version: 0..MaxEdits, phase: {"idle", "sent", "answered", "previews"},
         answer: {"none", "done", "stale"}, copy: Destination \cup {Absent}, runs: BOOLEAN, rereads: BOOLEAN, shows: BOOLEAN]
Idle == [todo |-> <<>>, version |-> 0, phase |-> "idle", answer |-> "none", copy |-> Absent,
         runs |-> FALSE, rereads |-> FALSE, shows |-> FALSE]

Panel  == [source: Handles, seen: 0..MaxEdits]
Prompt == [name: Handles, from: Destination]

ASSUME DashAssumption ==
  /\ Slots \subseteq Nat /\ IsFiniteSet(Handles) /\ MaxEdits \in Nat
  /\ Absent \notin Slots \cup Destination \cup Panel \cup Prompt

VARIABLES
  saved,        \* the stored configuration, as far as this destination shows it
  listed,       \* the destination in the tab's list
  opened,       \* the copy of the dialog, Absent when it is closed
  chips,        \* the source names of the dialog
  panel,        \* the filter panel: its source and the filters its draft began with
  prompt,       \* the confirmation that is open
  requests,     \* [Slots -> call in flight]
  reader,       \* the call that may write the list
  busy,         \* a save is running, buttons are disabled
  confirmed         \* source names whose removal an operator confirmed

tabVars  == <<listed, opened, chips, panel, prompt, reader, busy>>
dashVars == <<saved, requests, confirmed, tabVars>>

DashTypeOK ==
  /\ saved \in Destination
  /\ listed \in Destination /\ opened \in Destination \cup {Absent}
  /\ chips \subseteq Handles /\ confirmed \subseteq Handles /\ busy \in BOOLEAN
  /\ panel \in Panel \cup {Absent} /\ prompt \in Prompt \cup {Absent}
  /\ reader \in Slots \cup {Absent}
  /\ requests \in [Slots -> Call]

DashInit ==
  /\ saved \in [revision: {0}, sources: SUBSET Handles \ {{}}, filters: [Handles -> {0}]]
  /\ listed = saved /\ opened = Absent /\ chips = {} /\ panel = Absent /\ prompt = Absent
  /\ requests = [s \in Slots |-> Idle] /\ reader = Absent /\ busy = FALSE /\ confirmed = {}

-----------------------------------------------------------------------------
(* The server.                                                             *)

Revised(sources, filters) ==
  [revision |-> saved.revision + 1, sources |-> sources, filters |-> filters]
Added(S)    == Revised(saved.sources \cup S, saved.filters)
Removed(n)  == Revised(saved.sources \ {n}, [saved.filters EXCEPT ![n] = 0])
Patched(n)  == Revised(saved.sources, [saved.filters EXCEPT ![n] = saved.revision + 1])
Edited      == Revised(saved.sources, saved.filters)
PolicySaved == Revised(saved.sources, saved.filters)

IsConflict(version) == version # saved.revision

MayRemove(n) == n \in saved.sources /\ Cardinality(saved.sources) > 1

\* What the store becomes by a step, a set with one element if it is allowed:
\* adding nothing new saves nothing.
Results(step) ==
  CASE step.op = "add" -> {IF step.names \subseteq saved.sources THEN saved ELSE Added(step.names)}
    [] step.op = "delete" -> {Removed(n) : n \in {h \in step.names : MayRemove(h)}}
    [] step.op = "patch" -> {Patched(n) : n \in step.names \cap saved.sources}
    [] step.op = "edit" -> {Edited}
    [] step.op = "policy" -> {PolicySaved}
    [] step.op = "read" -> {saved}

Respond(s, answer, copy) ==
  requests' = [requests EXCEPT ![s].phase = "answered", ![s].answer = answer, ![s].copy = copy]

End(s) ==
  /\ requests' = [requests EXCEPT ![s] = Idle] /\ busy' = (busy /\ ~requests[s].runs)
  /\ reader' = IF reader = s THEN Absent ELSE reader

\* A handler runs without interruption.  Its answer may be lost, the request
\* before it, or the handler refuses: a removal while the profile or the pin
\* follows that source, say.  Then the call ends with an error.
Handle(s) ==
  LET step == Head(requests[s].todo)
      isStale == step.op # "read" /\ IsConflict(requests[s].version)
  IN
  /\ requests[s].phase = "sent"
  /\ \/ isStale /\ Respond(s, "stale", Absent) /\ UNCHANGED <<saved, busy, reader>>
     \/ /\ ~isStale
        /\ \E result \in Results(step) :
             result.revision <= MaxEdits /\ saved' = result
             /\ \/ Respond(s, "done", result) /\ UNCHANGED <<busy, reader>>
                \/ End(s)
     \/ End(s) /\ UNCHANGED saved
  /\ confirmed' = confirmed \ (saved'.sources \ saved.sources)
  /\ UNCHANGED <<listed, opened, chips, panel, prompt>>

\* Other tabs save too, from revisions they have read.
OtherOperator ==
  /\ saved.revision < MaxEdits
  /\ \E n \in Handles :
       \/ n \notin saved.sources /\ saved' = Added({n}) /\ confirmed' = confirmed \ {n}
       \/ MayRemove(n) /\ saved' = Removed(n) /\ confirmed' = confirmed \cup {n}
       \/ n \in saved.sources /\ saved' = Patched(n) /\ UNCHANGED confirmed
  /\ UNCHANGED <<requests, tabVars>>

-----------------------------------------------------------------------------
(* What the tab shows, and the effects that keep the copies together.      *)

\* (mutant) The panel keeps its draft while its source is listed.
PanelsKept(copy) ==
  IF copy = Absent THEN {Absent}
  ELSE IF panel # Absent /\ panel.source \in copy.sources THEN {panel}
  ELSE {[source |-> n, seen |-> copy.filters[n]] : n \in copy.sources}
\* pickSelectedUsername(): the selected source if it is still there, else the
\* first of the list, any here.
Selected(copy) == IF panel # Absent /\ panel.source \in copy.sources THEN {panel.source} ELSE copy.sources

\* The panels a copy may show, with the filters the server sent.
Panels(copy) == IF copy = Absent THEN {Absent} ELSE {[source |-> n, seen |-> copy.filters[n]] : n \in Selected(copy)}

\* The dialog's copy follows the list.
Followed(copy, list) ==
  IF copy = Absent \/ list.revision = copy.revision THEN copy ELSE list

\* The chips follow the list whenever the list or the dialog's copy changes.
ChipsOf(copy, list) == IF copy = Absent THEN {} ELSE list.sources

Show(list, copy) ==
  /\ listed' = list /\ opened' = copy
  /\ chips' = ChipsOf(copy, list)
  /\ panel' \in Panels(copy)

-----------------------------------------------------------------------------
(* Calls.                                                                  *)

StepOf(op, names, seen) == [op |-> op, names |-> names, seen |-> seen]
Read == StepOf("read", {}, 0)

\* Which slot a call takes says nothing: the first free one.
IsFree(s) == requests[s].phase = "idle" /\ \A t \in Slots : t < s => requests[t].phase # "idle"

\* fetchDestinations() takes the token when it begins.
Begin(s, todo, version, runs, rereads, shows) ==
  /\ IsFree(s)
  /\ requests' = [requests EXCEPT ![s] = [todo |-> todo, version |-> version, phase |-> "sent",
                                          answer |-> "none", copy |-> Absent, runs |-> runs, rereads |-> rereads, shows |-> shows]]
  /\ reader' = IF Head(todo).op = "read" THEN s ELSE reader
  /\ busy' = (busy \/ runs)

Refresh(s) ==
  /\ Begin(s, <<Read>>, 0, FALSE, FALSE, FALSE)
  /\ UNCHANGED <<saved, confirmed, listed, opened, chips, panel, prompt>>

Orders(S) == {f \in [1..Cardinality(S) -> S] : IsInjective(f)}

\* syncSources(): what the wanted names add to and take from a copy.
Sync(s, copy, wanted) ==
  LET added  == wanted \ copy.sources
      adding == IF added = {} THEN <<>> ELSE <<StepOf("add", added, 0)>>
  IN \E removed \in Orders(copy.sources \ wanted) :
       Begin(s, adding \o [i \in DOMAIN removed |-> StepOf("delete", {removed[i]}, 0)] \o <<Read>>,
             copy.revision, TRUE, TRUE, TRUE)

AddSources(s) ==
  /\ opened # Absent /\ prompt = Absent /\ ~busy
  /\ \E n \in Handles \ chips : Sync(s, opened, chips \cup {n})
  /\ UNCHANGED <<saved, confirmed, listed, opened, chips, panel, prompt>>

\* (mutant) The list of the moment it was asked is taken to the copy of now.
LatestCopy == IF opened = Absent THEN listed ELSE opened
LatestShown == prompt.from

\* removeEditSource() asks first.  The list it reads once confirmed is that of
\* the moment it confirmed: it is a variable of that rendering.
AskToRemove ==
  /\ opened # Absent /\ prompt = Absent /\ ~busy
  /\ \E n \in chips : prompt' = [name |-> n, from |-> listed]
  /\ UNCHANGED <<saved, requests, confirmed, listed, opened, chips, panel, reader, busy>>

ConfirmRemoval(s) ==
  /\ prompt # Absent /\ prompt' = Absent
  /\ confirmed' = confirmed \cup {prompt.name}
  /\ IF prompt.name \in prompt.from.sources
     THEN Sync(s, LatestShown, prompt.from.sources \ {prompt.name})
     ELSE UNCHANGED <<requests, reader, busy>>
  /\ UNCHANGED <<saved, listed, opened, chips, panel>>

\* patchSource() with the draft of the filter panel.
SaveFilters(s) ==
  /\ opened # Absent /\ panel # Absent /\ prompt = Absent /\ ~busy
  /\ Begin(s, <<StepOf("patch", {panel.source}, panel.seen), Read>>, opened.revision, TRUE, TRUE, TRUE)
  /\ UNCHANGED <<saved, confirmed, listed, opened, chips, panel, prompt>>

\* updateDestination() puts the answer into the list and closes the dialog.
SubmitEdit(s) ==
  /\ opened # Absent /\ prompt = Absent /\ ~busy
  /\ Begin(s, <<StepOf("edit", {}, 0)>>, opened.revision, TRUE, TRUE, FALSE)
  /\ UNCHANGED <<saved, confirmed, listed, opened, chips, panel, prompt>>

\* Content policies are saved without withConflictRefresh().
SavePolicy(s) ==
  /\ opened # Absent /\ prompt = Absent /\ ~busy
  /\ Begin(s, <<StepOf("policy", {}, 0), Read>>, opened.revision, TRUE, FALSE, FALSE)
  /\ UNCHANGED <<saved, confirmed, listed, opened, chips, panel, prompt>>

\* The next step of a call takes the version of the last answer; a step that
\* reads takes the token.
Continue(s, todo, version) ==
  /\ requests' = [requests EXCEPT ![s].todo = todo, ![s].version = IF todo = <<Read>> THEN 0 ELSE version,
                                 ![s].phase = "sent", ![s].answer = "none",
                                 ![s].copy = Absent]
  /\ reader' = IF Head(todo).op = "read" THEN s ELSE reader
  /\ UNCHANGED busy

IsDone(s) == requests[s].phase = "answered" /\ requests[s].answer = "done"
IsReading(s) == Head(requests[s].todo).op = "read"
MayWriteList(s) == reader = s

\* A list that has come last is shown, and the previews are fetched.
TakeList(s) ==
  /\ IsDone(s) /\ IsReading(s)
  /\ IF MayWriteList(s)
     THEN Show(requests[s].copy, Followed(opened, requests[s].copy))
     ELSE UNCHANGED <<listed, opened, chips, panel>>
  /\ IF MayWriteList(s) /\ requests[s].runs
     THEN requests' = [requests EXCEPT ![s].phase = "previews"] /\ UNCHANGED <<busy, reader>>
     ELSE End(s)
  /\ UNCHANGED <<saved, confirmed, prompt>>

\* The call that saved opens the dialog on the copy it read, older or not than
\* what the list shows by now.
TakePreviews(s) ==
  /\ requests[s].phase = "previews" /\ End(s)
  /\ IF requests[s].shows THEN Show(listed, requests[s].copy) ELSE UNCHANGED <<listed, opened, chips, panel>>
  /\ UNCHANGED <<saved, confirmed, prompt>>

TakeSaved(s) ==
  LET rest == Tail(requests[s].todo)
      copy == requests[s].copy
  IN
  /\ IsDone(s) /\ ~IsReading(s)
  /\ IF rest = <<>>
     THEN Show(copy, Absent) /\ End(s)
     ELSE Continue(s, rest, copy.revision) /\ UNCHANGED <<listed, opened, chips, panel>>
  /\ UNCHANGED <<saved, confirmed, prompt>>

\* A conflict reads the list again before the error is shown.
TakeConflict(s) ==
  /\ requests[s].phase = "answered" /\ requests[s].answer = "stale"
  /\ IF requests[s].rereads
     THEN /\ requests' = [requests EXCEPT ![s] = [@ EXCEPT !.todo = <<Read>>, !.phase = "sent", !.answer = "none",
                                                           !.version = 0, !.shows = FALSE]]
          /\ reader' = s /\ UNCHANGED busy
     ELSE End(s)
  /\ UNCHANGED <<saved, confirmed, listed, opened, chips, panel, prompt>>

StartEdit ==
  /\ opened = Absent
  /\ opened' = listed /\ chips' = listed.sources /\ panel' \in Panels(listed)
  /\ UNCHANGED <<saved, requests, confirmed, listed, prompt, reader, busy>>

CloseEdit ==
  /\ opened # Absent /\ prompt = Absent /\ opened' = Absent /\ panel' = Absent /\ chips' = {}
  /\ UNCHANGED <<saved, requests, confirmed, listed, prompt, reader, busy>>

SelectSource ==
  /\ opened # Absent /\ panel # Absent
  /\ \E n \in opened.sources \ {panel.source} : panel' = [source |-> n, seen |-> opened.filters[n]]
  /\ UNCHANGED <<saved, requests, confirmed, listed, opened, chips, prompt, reader, busy>>

CancelRemoval ==
  /\ prompt # Absent /\ prompt' = Absent
  /\ UNCHANGED <<saved, requests, confirmed, listed, opened, chips, panel, reader, busy>>

DashNext ==
  \/ OtherOperator \/ StartEdit \/ CloseEdit \/ SelectSource \/ AskToRemove \/ CancelRemoval
  \/ \E s \in Slots :
       \/ Refresh(s) \/ AddSources(s) \/ ConfirmRemoval(s) \/ SaveFilters(s) \/ SubmitEdit(s) \/ SavePolicy(s)
       \/ Handle(s) \/ TakeList(s) \/ TakePreviews(s) \/ TakeSaved(s) \/ TakeConflict(s)

DashSpec == DashInit /\ [][DashNext]_dashVars

-----------------------------------------------------------------------------
(* Properties.                                                             *)

\* No save takes a source out of the destination that no operator confirmed to
\* remove, whatever lists, chips and confirmations were stale when it was sent
\* ("a stale chip list can delete sources").
SourcesGoOnlyWhenAsked == [][saved.sources \ saved'.sources \subseteq confirmed']_dashVars

\* A panel's save replaces the filters its draft began with and no others: a
\* revision that was refreshed under an open panel brings its values along.
SavesBuildOnWhatWasShown ==
  [][\A s \in Slots : LET step == Head(requests[s].todo) IN
       requests[s].phase = "sent" /\ step.op = "patch" /\ saved' # saved /\ requests'[s].phase = "answered"
         => \A n \in step.names : step.seen = saved.filters[n]]_dashVars

================================================================================
