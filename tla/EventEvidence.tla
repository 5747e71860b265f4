--------------------------- MODULE EventEvidence ---------------------------
(* The evidence packets of M03: what a family of events shows of itself in    *)
(* SQL (event_family_modelability_evidence.py), the route the packet takes    *)
(* (event_family_modelability_next_actions.py, ..._acquisition.py), and the   *)
(* macro rows enriched from local crawls of the economic calendar             *)
(* (event_family_structured_evidence_enrichment.py).                          *)
(*                                                                            *)
(* A route is taken for one window after the other families; a family is its  *)
(* kind of evidence, an observation its place in time and what the gates read *)
(* of it.                                                                     *)
EXTENDS FiniteSets, Integers, Sequences, SequencesExt

CONSTANTS
    FamilyOrder,   \* the families of a routing, in order
    Kind,          \* family -> "earnings", "price", "news", "session" or "macro"
    Minimum,       \* observations of the same family a packet needs
    SampleLimit,   \* observations a packet holds
    Times,         \* the places in time of the window, 1 .. n
    Releases,      \* the reference periods of a macro release
    SessionRows,   \* closures and half days in the window
    Filings,       \* SEC filings of the target in the window
    Shapes,        \* what a crawl comes back with: sets of fields
    Routings,      \* the lists of families operators ask for
    MaxCrawls      \* bound on the crawled rows

Families == Range(FamilyOrder)
Of(kind) == {f \in Families : Kind[f] = kind}
NewsFamilies == Of("price") \cup Of("news")
\* An increase and a decrease are both directed: no gate tells them apart.
Subtypes(f) == IF Kind[f] = "price" THEN {"directed", "mixed_or_unclear"} ELSE {"plain"}
Absent == "absent"

ASSUME EvidenceAssumption ==
    /\ Routings \subseteq Seq(Families)
    /\ Shapes \subseteq SUBSET {"actual", "consensus", "te_forecast", "previous"}
    /\ Kind \in [Families -> {"earnings", "price", "news", "session", "macro"}]
    /\ Minimum \in Nat /\ Minimum >= 2 /\ SampleLimit \in Nat
    /\ IsFiniteSet(Times) /\ Times = 1 .. Cardinality(Times) /\ SessionRows \in Nat /\ Filings \in Nat /\ MaxCrawls \in Nat

VARIABLES
    news,       \* per news family and time, the subtype of the row there
    sessions,   \* calendar rows in SQL, a number
    crawls,     \* the crawled rows, in the order of their runs
    calendar,   \* the rows of calendar_scheduled_event with their results
    route,      \* per family, the readiness of the route on disk
    handoff,    \* families with a semantic_review_handoff.json on disk
    summary,    \* the families and readinesses of the last summary
    router      \* the routing under way
packetVars == <<news, sessions, crawls, calendar, route, handoff, summary, router>>
evidence == <<news, sessions, crawls, calendar>>

-----------------------------------------------------------------------------
(* The enrichment of macro rows.                                              *)

EventId(row) == <<row.family, row.release, row.time>>

HasSurprise(row) == "actual" \in row.fields /\ row.fields \cap {"consensus", "te_forecast"} # {}

\* Mutant: the last crawl wins.
BetterLast(i, j) == i > j

\* Row i of the crawls has a higher quality score than row j of the same event:
\* more fields, then a surprise, then a later path.
Better(i, j) ==
    LET Score(k) == 2 * Cardinality(crawls[k].fields) + (IF HasSurprise(crawls[k]) THEN 1 ELSE 0)
    IN  Score(i) > Score(j) \/ (Score(i) = Score(j) /\ i > j)

\* The crawled rows of a family that are materialized: one for each event id.
Materialized(f) ==
    LET mine == {i \in DOMAIN crawls : crawls[i].family = f}
        Id(i) == EventId(crawls[i])
    IN  {crawls[i] : i \in {i \in mine : \A j \in mine : Id(j) = Id(i) => i = j \/ Better(i, j)}}

-----------------------------------------------------------------------------
(* The packet of a family: rows in the order of time, cut at the sample.      *)

NewsTimes(f) == {t \in Times : news[f][t] # Absent}
\* Mutant: the sample keeps the latest rows.
LatestOf(S) == {t \in S : Cardinality({s \in S : s > t}) < SampleLimit}

Earliest(S) == {t \in S : Cardinality({s \in S : s < t}) < SampleLimit}
SampledSubtypes(f) == {news[f][t] : t \in Earliest(NewsTimes(f))}

MacroRows(f) == {r \in calendar : r.family = f}
SampledMacro(f) ==
    {r \in MacroRows(f) : Cardinality({s \in MacroRows(f) : s.time < r.time}) < SampleLimit}

\* The count of the sample gate runs over all the rows, not over the sample.
TotalObservations(f) ==
    CASE Kind[f] = "earnings" -> Filings
      [] f \in NewsFamilies   -> Cardinality(NewsTimes(f))
      [] Kind[f] = "session"  -> sessions
      [] Kind[f] = "macro"    -> Cardinality(MacroRows(f))

MixedFamily(f) == f \in NewsFamilies /\ "mixed_or_unclear" \in SampledSubtypes(f)

\* The structured gate.  Filings have date-only clocks and no expectations; one
\* release of the sample with its surprise is enough for a macro family; news of
\* the price family need a direction each.
Structured(f) ==
    CASE Kind[f] = "earnings" -> FALSE
      [] Kind[f] = "price"    -> SampledSubtypes(f) \subseteq {"directed"}
      [] Kind[f] = "macro"    -> \E r \in SampledMacro(f) : HasSurprise(r)
      [] OTHER                -> TRUE

\* The packet builder performs no control gate: what passes the others is still
\* blocked, and no packet is ever admissible for a modelability review.
Readiness(f) ==
    CASE TotalObservations(f) < Minimum -> "missing_same_family"
      [] TotalObservations(f) >= Minimum /\ MixedFamily(f) -> "mixed_family"
      [] TotalObservations(f) >= Minimum /\ ~MixedFamily(f) /\ ~Structured(f) -> "missing_structured"
      [] OTHER -> IF Kind[f] = "session" THEN "context_review" ELSE "missing_gates"

NextActionOwner(readiness) ==
    CASE readiness = "missing_same_family" -> "acquisition"
      [] readiness \in {"mixed_family", "context_review"} -> "semantic_review"
      [] readiness = "missing_structured" -> "enrichment"
      [] readiness = "missing_gates" -> "gate_builder"

\* The gap receipts of the enrichment: no source is named that would close it.
Parked(f) ==
    \/ Kind[f] = "earnings"
    \/ Kind[f] = "macro" /\ \E r \in SampledMacro(f) : "actual" \in r.fields

\* What the route of a family says: its readiness, and whether it is parked.
RouteOf(f) ==
    [readiness |-> Readiness(f),
     parked |-> NextActionOwner(Readiness(f)) = "enrichment" /\ Parked(f)]

RequiredFeeds(f) == IF Kind[f] = "session" THEN {} ELSE {"feeds"}

-----------------------------------------------------------------------------

NoRoute == [readiness |-> Absent, parked |-> FALSE]
Resting == [todo |-> <<>>, asked |-> <<>>, made |-> <<>>]

PacketInit ==
    /\ sessions = 0
    /\ news = [f \in NewsFamilies |-> [t \in Times |-> Absent]]
    /\ crawls = <<>> /\ calendar = {}
    /\ route = [f \in Families |-> NoRoute]
    /\ handoff = {} /\ summary = <<>> /\ router = Resting

(* The sources (external): rows only ever arrive. *)

Publish ==
    /\ sessions' = SessionRows
    /\ UNCHANGED <<news, crawls, calendar, route, handoff, summary, router>>

NewsArrives(f, t, subtype) ==
    /\ news[f][t] = Absent
    /\ news' = [news EXCEPT ![f][t] = subtype]
    /\ UNCHANGED <<sessions, crawls, calendar, route, handoff, summary, router>>

\* A crawl finds a release at a time, with some of its values.
Crawl(f, release, time, fields) ==
    /\ Len(crawls) < MaxCrawls
    /\ crawls' = Append(crawls, [family |-> f, release |-> release, time |-> time,
                                 fields |-> fields, run |-> Len(crawls) + 1])
    /\ UNCHANGED <<news, sessions, calendar, route, handoff, summary, router>>

\* enrich_structured_macro_evidence with write_sql: the rows with the ids of this
\* run are replaced; rows of other ids stay.
Enrich(f) ==
    LET rows == Materialized(f)
        Ids == {EventId(r) : r \in rows}
    IN  /\ rows # {}
        /\ calendar' = {r \in calendar : EventId(r) \notin Ids} \cup rows
        /\ UNCHANGED <<news, sessions, crawls, route, handoff, summary, router>>

(* The routing. *)

StartRouting(families) ==
    /\ router = Resting
    /\ router' = [todo |-> families, asked |-> families, made |-> <<>>]
    /\ UNCHANGED <<route, handoff, summary>> /\ UNCHANGED evidence

Routing == router.todo # <<>>

\* The packet is written, then the artifact of its owner and the route.  An
\* artifact of an earlier route is not removed.
RouteFamily ==
    /\ Routing
    /\ LET f == Head(router.todo)
           owner == NextActionOwner(Readiness(f))
       IN  /\ owner = "acquisition" => RequiredFeeds(f) # {}
           /\ route' = [route EXCEPT ![f] = RouteOf(f)]
           /\ handoff' = IF owner = "semantic_review" THEN handoff \cup {f} ELSE handoff
           /\ router' = [router EXCEPT !.todo = Tail(@), !.made = Append(@, <<f, RouteOf(f)>>)]
    /\ UNCHANGED summary /\ UNCHANGED evidence

\* Mutant: the error ends the loop, not the routing.
AbortSummarised ==
    /\ Routing
    /\ LET f == Head(router.todo)
       IN  NextActionOwner(Readiness(f)) = "acquisition" /\ RequiredFeeds(f) = {}
    /\ summary' = router.made
    /\ router' = Resting
    /\ UNCHANGED <<route, handoff>> /\ UNCHANGED evidence

\* No feed delivers the family: the acquisition plan raises behind the packet,
\* and with it the whole routing.
Abort ==
    /\ Routing
    /\ LET f == Head(router.todo)
       IN  NextActionOwner(Readiness(f)) = "acquisition" /\ RequiredFeeds(f) = {}
    /\ router' = Resting
    /\ UNCHANGED <<route, handoff, summary>> /\ UNCHANGED evidence

Summarise ==
    /\ router.todo = <<>> /\ router.asked # <<>>
    /\ summary' = router.made
    /\ router' = Resting
    /\ UNCHANGED <<route, handoff>> /\ UNCHANGED evidence

KillRouting ==
    /\ router # Resting
    /\ router' = Resting
    /\ UNCHANGED <<route, handoff, summary>> /\ UNCHANGED evidence

Sources ==
    \/ Publish
    \/ \E f \in NewsFamilies, t \in Times : \E subtype \in Subtypes(f) : NewsArrives(f, t, subtype)
    \/ \E f \in Of("macro"), release \in Releases, time \in Times, fields \in Shapes :
          Crawl(f, release, time, fields)
    \/ \E f \in Of("macro") : Enrich(f)

PacketNext ==
    \/ Sources
    \/ \E families \in Routings : StartRouting(families)
    \/ RouteFamily \/ Abort \/ Summarise \/ KillRouting

PacketSpec == PacketInit /\ [][PacketNext]_packetVars

-----------------------------------------------------------------------------
(* Properties.                                                                *)

\* A later enrichment takes the surprise of an event away only in favour of a row
\* with more fields: a crawl before the release, with its forecast and the
\* previous value, hides the crawl that found the actual value and little else
\* (event_family_structured_evidence_enrichment.py:143).
SurpriseIsNotLost ==
    [][\A r \in calendar : \E s \in calendar' :
          /\ EventId(s) = EventId(r)
          /\ \/ HasSurprise(r) => HasSurprise(s)
             \/ Cardinality(s.fields) > Cardinality(r.fields)]_packetVars

\* A release counts once in the sample gate, however often it was crawled, except
\* when its clock was corrected: the time is part of the event id
\* (event_family_structured_evidence_enrichment.py:194), the row with the old
\* clock is not deleted, and the crawl that had it is read again each time.
CountedOnce ==
    \A r, s \in calendar :
        r # s /\ r.family = s.family /\ r.release = s.release
            => \E i, j \in DOMAIN crawls :
                  /\ crawls[i].release = r.release /\ crawls[j].release = r.release
                  /\ crawls[i].time # crawls[j].time

\* A release keeps the surprise once found, and counts once.
ReleaseIsKept == SurpriseIsNotLost /\ []CountedOnce

\* Entry i of a summary is the last of its family: a list may name a family twice.
LastOf(made, i) == \A j \in DOMAIN made : j > i => made[j][1] # made[i][1]

\* A summary speaks of every family it was asked for, and what it says last of a family
\* is the route on disk.  (A closure calendar that is short at its turn ends the routing
\* without a summary: no feed delivers closures, and the macro families behind it are
\* not routed.)
SummaryIsComplete ==
    [][summary' # summary =>
          /\ Len(summary') = Len(router.asked)
          /\ \A i \in DOMAIN summary' :
                 /\ summary'[i][1] = router.asked[i]
                 /\ LastOf(summary', i) => route[router.asked[i]] = summary'[i][2]]_packetVars

\* A family with a review handoff on disk is still up for that review, unless it is
\* the price family and the unclear rows that made it mixed were pushed out of
\* the sample by earlier news bought since: the handoff is then stale, and the
\* rows are no longer looked at.
HandoffHasCause ==
    \A f \in handoff :
        \/ NextActionOwner(Readiness(f)) = "semantic_review"
        \/ /\ Kind[f] = "price"
           /\ \E t \in NewsTimes(f) :
                 /\ news[f][t] = "mixed_or_unclear"
                 /\ Cardinality({s \in NewsTimes(f) : s < t}) >= SampleLimit
=============================================================================
