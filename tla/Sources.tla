------------------------------- MODULE Sources -------------------------------
(***************************************************************************)
(* Canonical sources: the venues that a discovery task finds in the active *)
(* methodology and registers, and the scope that an administrator gives    *)
(* them.                                                                   *)
(*                                                                         *)
(*   apps/worker/src/source-discover-job.ts                                *)
(*   apps/server/src/api/canonical-source-registration.ts                  *)
(*   apps/server/src/api/admin-source-scope-api.ts                         *)
(*   packages/db/canonical-source-store.ts                                 *)
(*                                                                         *)
(* A source is a venue of a methodology.  The task runs on a worker that   *)
(* may stop; the statements of a request are steps of their own.           *)
(***************************************************************************)
EXTENDS Naturals, Sequences, FiniteSets, SequencesExt

CONSTANTS
  Discoverers,    \* discovery tasks: each runs once
  Methodologies,  \* research_methodology documents
  Venues,
  CatalogOf,      \* the venues each document names; none when its catalog does not parse
  Admins,         \* PATCH requests for a scope: each runs once
  NoMethodology

ASSUME SourcesAssumption ==
  CatalogOf \in [Methodologies -> SUBSET Venues] /\ NoMethodology \notin Methodologies

VARIABLES
  methodology,   \* the author's active document
  source,        \* canonical_sources: the access_mode of each row, or "none"
  firsts,        \* of each row: the answers that said it was created
  scoped,        \* of each row: the events source.scope_adjusted, <<before, after>>
  discovery,     \* of each task: its step, its document and the venues to come
  adjusting,     \* of each request for a scope: its step and what it read
  rivals,        \* history: rows two registrations looked at before either inserted
  unsettled      \* history: rows whose adjustments overlapped or stopped half way

sourceVars == <<methodology, source, firsts, scoped, discovery, adjusting, rivals, unsettled>>

Modes    == {"public", "authenticated", "api_key", "undeclared"}
Rows     == {r \in Methodologies \X Venues : r[2] \in CatalogOf[r[1]]}
NoSearch == [at |-> "idle", doc |-> NoMethodology, left |-> {}, missed |-> {}, venue |-> "none", existed |-> FALSE]
NoChange == [at |-> "idle", row |-> <<>>, was |-> "none", to |-> "none"]

SourcesInit ==
  /\ methodology = NoMethodology
  /\ source = [r \in Rows |-> "none"] /\ firsts = [r \in Rows |-> 0]
  /\ scoped = [r \in Rows |-> <<>>]
  /\ discovery = [d \in Discoverers |-> NoSearch] /\ adjusting = [a \in Admins |-> NoChange]
  /\ rivals = {} /\ unsettled = {}

SameScope == UNCHANGED <<scoped, adjusting, unsettled>>
SameSearch == UNCHANGED <<methodology, firsts, discovery, rivals>>

\* The researcher activates a document.
ActivateMethodology(m) ==
  /\ m # methodology
  /\ methodology' = m
  /\ SameScope /\ UNCHANGED <<source, firsts, discovery, rivals>>

-----------------------------------------------------------------------------
(* executeSourceDiscoverTask.                                              *)

\* The document as it is now; a failed read is taken for an author without one.
FetchActiveMethodology(d) ==
  /\ discovery[d].at = "idle"
  /\ \E m \in {methodology, NoMethodology} :
       discovery' = [discovery EXCEPT ![d] =
         IF m = NoMethodology THEN [NoSearch EXCEPT !.at = "done"]
         ELSE [NoSearch EXCEPT !.at = "next", !.doc = m, !.left = CatalogOf[m]]]
  /\ SameScope /\ UNCHANGED <<methodology, source, firsts, rivals>>

Row(d) == <<discovery[d].doc, discovery[d].venue>>

\* POST /internal/canonical-sources: is there a row of that document and address?
LookForSource(d, v) ==
  LET r == <<discovery[d].doc, v>> IN
  /\ discovery[d].at = "next" /\ v \in discovery[d].left
  /\ discovery' = [discovery EXCEPT ![d].at = "insert", ![d].venue = v, ![d].left = @ \ {v},
                                    ![d].existed = source[r] # "none"]
  /\ rivals' = rivals \cup {Row(e) : e \in {x \in Discoverers \ {d} : discovery[x].at = "insert" /\ Row(x) = r}}
  /\ SameScope /\ UNCHANGED <<methodology, source, firsts>>

\* ON CONFLICT DO UPDATE instead of DO NOTHING: the scope an administrator has set is
\* replaced by that of the catalog.
RegisterModeWrong(r, mode) == mode
RegisterMode(r, mode) == IF source[r] = "none" THEN mode ELSE source[r]

\* The row, and the answer with what was found before it.
RegisterCanonicalSource(d, mode) ==
  /\ discovery[d].at = "insert"
  /\ source' = [source EXCEPT ![Row(d)] = RegisterMode(Row(d), mode)]
  /\ firsts' = [firsts EXCEPT ![Row(d)] = @ + (IF discovery[d].existed THEN 0 ELSE 1)]
  /\ discovery' = [discovery EXCEPT ![d].at = "next", ![d].venue = "none", ![d].existed = FALSE]
  /\ SameScope /\ UNCHANGED <<methodology, rivals>>

\* A registration that fails is counted, and the next venue follows.
RegistrationFails(d) ==
  /\ discovery[d].at = "insert"
  /\ discovery' = [discovery EXCEPT ![d].at = "next", ![d].missed = @ \cup {discovery[d].venue},
                                    ![d].venue = "none", ![d].existed = FALSE]
  /\ SameScope /\ UNCHANGED <<methodology, source, firsts, rivals>>

DiscoveryEnds(d) ==
  /\ discovery[d].at = "next" /\ discovery[d].left = {}
  /\ discovery' = [discovery EXCEPT ![d].at = "done"]
  /\ SameScope /\ UNCHANGED <<methodology, source, firsts, rivals>>

\* The worker dies: its task runs again from the start.
DiscovererDies(d) ==
  /\ discovery[d].at \in {"next", "insert"}
  /\ discovery' = [discovery EXCEPT ![d] = NoSearch]
  /\ SameScope /\ UNCHANGED <<methodology, source, firsts, rivals>>

-----------------------------------------------------------------------------
(* PATCH /api/admin/sources/:id/scope.                                     *)

Adjusters(r) == {a \in Admins : adjusting[a].at \in {"record", "update"} /\ adjusting[a].row = r}

\* A body without a mode leaves it as it is.
ReadScope(a, r, to) ==
  /\ adjusting[a].at = "idle" /\ source[r] # "none"
  /\ adjusting' = [adjusting EXCEPT ![a] = [at |-> "record", row |-> r, was |-> source[r],
                                           to |-> IF to = "undeclared" THEN source[r] ELSE to]]
  /\ unsettled' = unsettled \cup (IF Adjusters(r) = {} THEN {} ELSE {r})
  /\ SameSearch /\ UNCHANGED <<source, scoped>>

RecordScope(a) ==
  /\ adjusting[a].at = "record"
  /\ scoped' = [scoped EXCEPT ![adjusting[a].row] = Append(@, <<adjusting[a].was, adjusting[a].to>>)]
  /\ adjusting' = [adjusting EXCEPT ![a].at = "update"]
  /\ SameSearch /\ UNCHANGED <<source, unsettled>>

\* COALESCE of the body's mode and the row's.
UpdateSourceScope(a) ==
  /\ adjusting[a].at = "update"
  /\ source' = [source EXCEPT ![adjusting[a].row] = adjusting[a].to]
  /\ adjusting' = [adjusting EXCEPT ![a] = [NoChange EXCEPT !.at = "done"]]
  /\ SameSearch /\ UNCHANGED <<scoped, unsettled>>

ScopeStops(a) ==
  /\ adjusting[a].at \in {"record", "update"}
  /\ adjusting' = [adjusting EXCEPT ![a] = [NoChange EXCEPT !.at = "done"]]
  /\ unsettled' = IF adjusting[a].at = "update" THEN unsettled \cup {adjusting[a].row} ELSE unsettled
  /\ SameSearch /\ UNCHANGED <<source, scoped>>

SourcesNext ==
  \/ \E m \in Methodologies : ActivateMethodology(m)
  \/ \E d \in Discoverers :
       \/ FetchActiveMethodology(d) \/ RegistrationFails(d) \/ DiscoveryEnds(d) \/ DiscovererDies(d)
       \/ \E v \in Venues : LookForSource(d, v)
       \/ RegisterCanonicalSource(d, "public")
  \/ \E a \in Admins :
       \/ \E r \in Rows, to \in {"undeclared", "api_key"} : ReadScope(a, r, to)
       \/ RecordScope(a) \/ UpdateSourceScope(a) \/ ScopeStops(a)

SourcesSpec == SourcesInit /\ [][SourcesNext]_sourceVars

-----------------------------------------------------------------------------
SourcesTypeOK ==
  /\ methodology \in Methodologies \cup {NoMethodology}
  /\ source \in [Rows -> Modes \cup {"none"}]
  /\ firsts \in [Rows -> Nat]

\* A row is announced as created once, however often its venue is registered, unless two
\* registrations of it overlapped; a task that has ended has a row for every venue of
\* the document it read but those it counted as errors; and the trail of a row's scope
\* is a chain that ends at the scope in force, unless adjustments overlapped or stopped
\* half way.
SourcesSound ==
  /\ \A r \in Rows \ rivals : firsts[r] <= 1 /\ (firsts[r] = 1 => source[r] # "none")
  /\ \A d \in Discoverers : discovery[d].at = "done" /\ discovery[d].doc # NoMethodology =>
       \A v \in CatalogOf[discovery[d].doc] \ discovery[d].missed : source[<<discovery[d].doc, v>>] # "none"
  /\ \A r \in Rows \ unsettled :
       LET trail == scoped[r] IN
       /\ \A i \in DOMAIN trail : i > 1 => trail[i][1] = trail[i - 1][2]
       /\ trail # <<>> /\ Adjusters(r) = {} => source[r] = Last(trail)[2]
=============================================================================
