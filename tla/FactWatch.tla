----------------------------- MODULE FactWatch -----------------------------
(***************************************************************************)
(* Volatile evidence: the web cache, the watch list and the record of      *)
(* refreshed evidence in the memory store, as a turn's _ground             *)
(* (llm_controller.py) and idle maintenance's refresh_due_facts            *)
(* (temporal_refresh.py) use them from two threads.  Every database write  *)
(* is a step of its own; the process may end between any two.              *)
(*                                                                         *)
(* What a search finds is the state of the world when it returns, or       *)
(* nothing valid; SearchRoutes models the search.  All watches have the    *)
(* same cadence, so a checked watch goes to the end of the agenda.         *)
(***************************************************************************)
EXTENDS Naturals, Sequences, FiniteSets, SequencesExt

CONSTANTS
  WatchQueries,  \* the queries that may be watched
  ExactQueries,  \* those among them that are exact claims, with a cache key of their own
  BatchLimit,    \* limit of refresh_due_facts
  MaxNews,       \* states of the world (bounds TLC)
  SourcesOf,     \* for each of them, the list of URLs that its evidence names
  MaxAsks,       \* grounded turns (bounds TLC)
  MaxEvents      \* the user's commands, the beginnings of trouble and the ends of the process
                 \* (bounds TLC)

ASSUME WatchAssumption ==
  /\ WatchQueries # {} /\ IsFiniteSet(WatchQueries)
  /\ ExactQueries \subseteq WatchQueries /\ BatchLimit \in Nat \ {0}
  /\ MaxNews \in Nat \ {0} /\ MaxAsks \in Nat /\ MaxEvents \in Nat
  /\ DOMAIN SourcesOf = 1..MaxNews

VARIABLES
  cache,      \* web_cache: what is stored under a key and has not expired
  agenda,     \* the rows of fact_watchlist by next_check_at
  dueCount,   \* how many of them are due
  watch,      \* active, last_status and content_sha256 of a row
  refreshes,  \* the evidence_refresh events, by their query and sources
  purged,     \* (history) those the user purged, until they are recorded again
  autoWatch,  \* the setting auto_fact_watch
  grounding,  \* the turn's _ground
  refresh,    \* the thread of idle maintenance
  news,       \* the state of the world
  trouble,    \* less than MINIMUM_FREE_BYTES are free, or files and the database may fail
  watchBounds

store == <<cache, agenda, dueCount, watch, refreshes, purged, autoWatch>>
watchVars == <<store, grounding, refresh, news, trouble, watchBounds>>

\* Evidence is the state of the world it tells of; 0 is none.
Digests == 0..MaxNews
NoEntry == [status |-> "none", evidence |-> 0]
Failure == [status |-> "unavailable", evidence |-> 0]
Evidence(d) == [status |-> "verified", evidence |-> d]

\* claim.cache_key or query: an exact claim is cached by its subject, whatever the wording.
\* The refresh stores under the query itself.
GroundKey(q) == IF q \in ExactQueries THEN "official fact" ELSE q
CacheKeys == WatchQueries \cup {GroundKey(q) : q \in WatchQueries}

Watched(q) == \E i \in DOMAIN agenda : agenda[i] = q
IsDue(q) == \E i \in 1..dueCount : agenda[i] = q /\ watch[q].active

NoGrounding == [pc |-> "idle", query |-> CHOOSE q \in WatchQueries : TRUE, evidence |-> 0]
NoRefresh == [pc |-> "idle", batch |-> <<>>, evidence |-> 0, cancelled |-> FALSE]

\* The run whose own result could not be written: _state stays "running", and every later run of
\* the process answers "already_running".
Stuck == [pc |-> "stuck", batch |-> <<>>, evidence |-> 0, cancelled |-> FALSE]

WatchInit ==
  /\ cache = [k \in CacheKeys |-> NoEntry]
  /\ agenda = <<>> /\ dueCount = 0
  /\ watch = [q \in WatchQueries |-> [active |-> FALSE, status |-> "none", digest |-> 0]]
  /\ refreshes = {} /\ purged = {} /\ autoWatch = TRUE
  /\ grounding = NoGrounding /\ refresh = NoRefresh
  /\ news = 1 /\ trouble = FALSE
  /\ watchBounds = [asks |-> 0, events |-> 0]

(***************************************************************************)
(* A grounded turn                                                         *)
(***************************************************************************)
\* Every input cancels the maintenance that runs; the next run clears the flag.
CancelRefresh == refresh' = [refresh EXCEPT !.cancelled = refresh.pc \notin {"idle", "stuck"}]

AskGrounded(q) ==
  /\ grounding.pc = "idle" /\ watchBounds.asks < MaxAsks
  /\ grounding' = [pc |-> "look", query |-> q, evidence |-> 0]
  /\ CancelRefresh
  /\ watchBounds' = [watchBounds EXCEPT !.asks = @ + 1]
  /\ UNCHANGED <<store, news, trouble>>

GroundingEnds == grounding' = NoGrounding

\* A cached failure and cached evidence that is valid for this wording are the answer.
LookInCache(valid) ==
  /\ grounding.pc = "look"
  /\ LET entry == cache[GroundKey(grounding.query)]
     IN  IF entry.status = "unavailable" \/ (entry.status = "verified" /\ valid)
         THEN GroundingEnds
         ELSE grounding' = [grounding EXCEPT !.pc = "search"]
  /\ UNCHANGED <<store, refresh, news, trouble, watchBounds>>

GroundSearchReturns(evidence) ==
  /\ grounding.pc = "search" /\ evidence \in {0, news}
  /\ grounding' = [grounding EXCEPT !.pc = "store", !.evidence = evidence]
  /\ UNCHANGED <<store, refresh, news, trouble, watchBounds>>

StoreGrounding ==
  /\ grounding.pc = "store"
  /\ cache' = [cache EXCEPT ![GroundKey(grounding.query)] =
                 IF grounding.evidence = 0 THEN Failure ELSE Evidence(grounding.evidence)]
  /\ IF grounding.evidence = 0 \/ ~autoWatch
     THEN GroundingEnds
     ELSE grounding' = [grounding EXCEPT !.pc = "watch"]
  /\ UNCHANGED <<agenda, dueCount, watch, refreshes, purged, autoWatch, refresh, news, trouble,
                 watchBounds>>

\* upsert_fact_watch: a new row is due after its cadence; an old one keeps its turn and its
\* status, becomes active and loses the hash of its evidence with its metadata.
UpsertWatch(q) ==
  /\ agenda' = IF Watched(q) THEN agenda ELSE Append(agenda, q)
  /\ watch' = [watch EXCEPT ![q] = [active |-> TRUE, digest |-> 0,
                                    status |-> IF Watched(q) THEN @.status ELSE "ready"]]
  /\ UNCHANGED <<cache, dueCount, refreshes, purged, autoWatch>>

WatchGrounded ==
  /\ grounding.pc = "watch"
  /\ UpsertWatch(grounding.query)
  /\ GroundingEnds
  /\ UNCHANGED <<refresh, news, trouble, watchBounds>>

(***************************************************************************)
(* Idle maintenance's refresh                                              *)
(***************************************************************************)
\* IdleMaintenance.run clears the cancellation, documents the workspace and comes to the refresh.
StartMaintenance ==
  /\ refresh.pc = "idle"
  /\ refresh' = [refresh EXCEPT !.pc = "select", !.cancelled = FALSE]
  /\ UNCHANGED <<store, grounding, news, trouble, watchBounds>>

\* The due rows of active watches, and the number of one among them.
DueRows == {i \in 1..dueCount : watch[agenda[i]].active}
NumberOf(row) == Cardinality({i \in DueRows : i <= row})

\* WHERE active AND due ORDER BY next_check_at LIMIT BatchLimit.
DueWatches ==
  LET due == Cardinality(DueRows)
  IN  [k \in 1..(IF due < BatchLimit THEN due ELSE BatchLimit) |->
         agenda[CHOOSE row \in DueRows : NumberOf(row) = k]]

\* A cancelled run does not come to the refresh, nor one with the setting off, nor one that skips it
\* because little storage is free.
SelectDue(skips) ==
  /\ refresh.pc = "select" /\ (skips => trouble)
  /\ refresh' = IF refresh.cancelled \/ ~autoWatch \/ skips
                THEN NoRefresh
                ELSE [refresh EXCEPT !.pc = "next", !.batch = DueWatches]
  /\ UNCHANGED <<store, grounding, news, trouble, watchBounds>>

NextDueWatch ==
  /\ refresh.pc = "next"
  /\ refresh' = IF refresh.batch = <<>> \/ refresh.cancelled
                THEN NoRefresh
                ELSE [refresh EXCEPT !.pc = "search"]
  /\ UNCHANGED <<store, grounding, news, trouble, watchBounds>>

RefreshSearchReturns(evidence) ==
  /\ refresh.pc = "search" /\ evidence \in {0, news}
  /\ refresh' = [refresh EXCEPT !.evidence = evidence,
                                !.pc = IF evidence = 0 THEN "complete" ELSE "cache"]
  /\ UNCHANGED <<store, grounding, news, trouble, watchBounds>>

CacheRefreshed ==
  /\ refresh.pc = "cache"
  /\ cache' = [cache EXCEPT ![Head(refresh.batch)] = Evidence(refresh.evidence)]
  /\ refresh' = [refresh EXCEPT !.pc = "event"]
  /\ UNCHANGED <<agenda, dueCount, watch, refreshes, purged, autoWatch, grounding, news, trouble,
                 watchBounds>>

\* Mutant: the fingerprint of an event leaves its sources out.
RecordRefreshed_Once ==
  /\ refresh.pc = "event"
  /\ refreshes' = IF \E e \in refreshes : e[1] = Head(refresh.batch) THEN refreshes
                  ELSE refreshes \cup {<<Head(refresh.batch), SourcesOf[refresh.evidence]>>}
  /\ purged' = purged \ refreshes'
  /\ refresh' = [refresh EXCEPT !.pc = "complete"]
  /\ UNCHANGED <<cache, agenda, dueCount, watch, autoWatch, grounding, news, trouble, watchBounds>>

\* record_memory_event inserts or ignores; the fingerprint is of the query and the sources, so that
\* changed evidence from the same sources makes no new event.
RecordRefreshed ==
  /\ refresh.pc = "event"
  /\ refreshes' = refreshes \cup {<<Head(refresh.batch), SourcesOf[refresh.evidence]>>}
  /\ purged' = purged \ refreshes'
  /\ refresh' = [refresh EXCEPT !.pc = "complete"]
  /\ UNCHANGED <<cache, agenda, dueCount, watch, autoWatch, grounding, news, trouble, watchBounds>>

\* A row that was checked goes to the end of the agenda.
Reschedule(q) ==
  LET row == CHOOSE i \in DOMAIN agenda : agenda[i] = q
  IN  /\ agenda' = Append(RemoveAt(agenda, row), q)
      /\ dueCount' = IF row <= dueCount THEN dueCount - 1 ELSE dueCount

\* Mutant: a completed watch is written as an active one.
CompleteWatch_Activates(q, d) ==
  /\ Reschedule(q)
  /\ watch' = [watch EXCEPT ![q] = [active |-> TRUE, digest |-> d,
                                    status |-> IF d = 0 THEN "unavailable" ELSE "verified"]]

\* Mutant: a watch without valid evidence is tried again at the next opportunity.
CompleteWatch_WhenVerified(q, d) ==
  IF d = 0 THEN UNCHANGED <<agenda, dueCount, watch>> ELSE
  /\ Reschedule(q)
  /\ watch' = [watch EXCEPT ![q].status = "verified", ![q].digest = d]

\* complete_fact_watch: the next check is one cadence away, and the row stays as active as it is.
CompleteWatch(q, d) ==
  /\ Reschedule(q)
  /\ watch' = [watch EXCEPT ![q].status = IF d = 0 THEN "unavailable" ELSE "verified",
                            ![q].digest = d]

CompleteRefreshed ==
  /\ refresh.pc = "complete"
  /\ CompleteWatch(Head(refresh.batch), refresh.evidence)
  /\ refresh' = [refresh EXCEPT !.pc = "next", !.batch = Tail(@), !.evidence = 0]
  /\ UNCHANGED <<cache, refreshes, purged, autoWatch, grounding, news, trouble, watchBounds>>

\* Whatever raises in the documentation before it or in the refresh itself ends the run; if the
\* run's result cannot be written either, the coordinator never leaves "running".
RefreshFails ==
  /\ trouble /\ refresh.pc \notin {"idle", "stuck"}
  /\ refresh' \in {NoRefresh, Stuck}
  /\ UNCHANGED <<store, grounding, news, trouble, watchBounds>>

\* A failing read or write of the database ends the turn.
GroundFails ==
  /\ trouble /\ grounding.pc # "idle"
  /\ GroundingEnds
  /\ UNCHANGED <<store, refresh, news, trouble, watchBounds>>

(***************************************************************************)
(* The user's commands, the clock, the world and the end of the process    *)
(***************************************************************************)
WatchCommand(activeAfter, autoAfter) ==
  /\ grounding.pc = "idle" /\ watchBounds.events < MaxEvents
  /\ watch' = [q \in WatchQueries |-> [watch[q] EXCEPT !.active = activeAfter[q]]]
  /\ autoWatch' = autoAfter
  /\ CancelRefresh
  /\ watchBounds' = [watchBounds EXCEPT !.events = @ + 1]
  /\ UNCHANGED <<cache, agenda, dueCount, refreshes, purged, grounding, news, trouble>>

RemoveWatch(q) ==
  /\ watch[q].active
  /\ WatchCommand([p \in WatchQueries |-> watch[p].active /\ p # q], autoWatch)

SwitchAutoWatch == WatchCommand([p \in WatchQueries |-> watch[p].active], ~autoWatch)

\* /memory event purge deletes the row of the event, whatever else refers to it.
PurgeEvent(e) ==
  /\ grounding.pc = "idle" /\ watchBounds.events < MaxEvents
  /\ refreshes' = refreshes \ {e} /\ purged' = purged \cup {e}
  /\ CancelRefresh
  /\ watchBounds' = [watchBounds EXCEPT !.events = @ + 1]
  /\ UNCHANGED <<cache, agenda, dueCount, watch, autoWatch, grounding, news, trouble>>

CacheExpires(k) ==
  /\ cache[k] # NoEntry
  /\ cache' = [cache EXCEPT ![k] = NoEntry]
  /\ UNCHANGED <<agenda, dueCount, watch, refreshes, purged, autoWatch, grounding, refresh, news,
                 trouble, watchBounds>>

CadencePasses ==
  /\ dueCount < Len(agenda)
  /\ dueCount' = dueCount + 1
  /\ UNCHANGED <<cache, agenda, watch, refreshes, purged, autoWatch, grounding, refresh, news,
                 trouble, watchBounds>>

NewsBreaks ==
  /\ news < MaxNews
  /\ news' = news + 1
  /\ UNCHANGED <<store, grounding, refresh, trouble, watchBounds>>

TroubleBegins ==
  /\ ~trouble /\ watchBounds.events < MaxEvents
  /\ trouble' = TRUE
  /\ watchBounds' = [watchBounds EXCEPT !.events = @ + 1]
  /\ UNCHANGED <<store, grounding, refresh, news>>

TroubleEnds ==
  /\ trouble
  /\ trouble' = FALSE
  /\ UNCHANGED <<store, grounding, refresh, news, watchBounds>>

ProcessEnds ==
  /\ watchBounds.events < MaxEvents
  /\ grounding' = NoGrounding /\ refresh' = NoRefresh
  /\ watchBounds' = [watchBounds EXCEPT !.events = @ + 1]
  /\ UNCHANGED <<store, news, trouble>>

GroundStep ==
  \/ \E valid \in BOOLEAN : LookInCache(valid)
  \/ \E d \in Digests : GroundSearchReturns(d)
  \/ StoreGrounding
  \/ WatchGrounded

RefreshStep ==
  \/ StartMaintenance
  \/ \E skips \in BOOLEAN : SelectDue(skips)
  \/ NextDueWatch
  \/ \E d \in Digests : RefreshSearchReturns(d)
  \/ CacheRefreshed
  \/ RecordRefreshed
  \/ CompleteRefreshed

WatchNext ==
  \/ \E q \in WatchQueries : AskGrounded(q)
  \/ GroundStep
  \/ GroundFails
  \/ RefreshStep
  \/ RefreshFails
  \/ \E q \in WatchQueries : RemoveWatch(q)
  \/ SwitchAutoWatch
  \/ \E e \in refreshes : PurgeEvent(e)
  \/ \E k \in CacheKeys : CacheExpires(k)
  \/ CadencePasses
  \/ NewsBreaks
  \/ TroubleBegins
  \/ TroubleEnds
  \/ ProcessEnds

\* Searches return, both threads run on, and an idle cockpit starts maintenance again and again.
\* Nothing says that trouble ends, or that a run in trouble comes through.
WatchFairness == WF_watchVars(GroundStep) /\ WF_watchVars(RefreshStep)

WatchSpec == WatchInit /\ [][WatchNext]_watchVars /\ WatchFairness

(***************************************************************************)
(* Properties                                                              *)
(***************************************************************************)
CacheEntries == [status : {"none", "unavailable", "verified"}, evidence : Digests]

WatchTypeOK ==
  /\ cache \in [CacheKeys -> CacheEntries]
  /\ agenda \in BoundedSeq(WatchQueries, Cardinality(WatchQueries))
  /\ dueCount \in 0..Len(agenda)
  /\ watch \in [WatchQueries -> [active : BOOLEAN, digest : Digests,
                                 status : {"none", "ready", "verified", "unavailable"}]]
  /\ (refreshes \cup purged) \subseteq WatchQueries \X {SourcesOf[d] : d \in 1..MaxNews}
  /\ {autoWatch, trouble} \subseteq BOOLEAN
  /\ grounding \in [pc : {"idle", "look", "search", "store", "watch"}, query : WatchQueries,
                    evidence : Digests]
  /\ refresh.pc \in {"idle", "select", "next", "search", "cache", "event", "complete", "stuck"}
  /\ refresh.cancelled \in BOOLEAN /\ news \in 1..MaxNews

EverRecorded == refreshes \cup purged

\* A watch says "verified", or names evidence by hash and sources, only if an event with those
\* sources was recorded for it, wherever the process ended or a write failed and whatever turns and
\* commands changed the row meanwhile (temporal_refresh.py:65-96).  The event may be of older
\* evidence, and the user may since have purged it: /memory event purge does not look at the watch
\* that rests on the event (memory_store.py:896-902).
VerifiedHasProvenance ==
  \A q \in WatchQueries :
    /\ watch[q].digest # 0 => <<q, SourcesOf[watch[q].digest]>> \in EverRecorded
    /\ watch[q].status = "verified" => \E e \in EverRecorded : e[1] = q

\* A watch that the user has removed comes back only with a later turn that asks for it: a refresh
\* that was on its way when it was removed does not revive it (temporal_refresh.py:41-96,
\* memory_store.py:999-1025).
RemovalHolds ==
  [][\A q \in WatchQueries :
       ~watch[q].active /\ watch'[q].active
       => grounding.pc = "watch" /\ grounding.query = q]_watchVars

\* A due watch is checked and waits for its next turn, or is removed or switched off: watches whose
\* searches fail, cancelled passes and crashes do not keep the others waiting for ever
\* (refresh_due_facts, due_fact_watches).  It may wait as long as little storage is free or phases
\* and writes fail (idle_maintenance.py:68-77, 110), but no longer, unless a run could not write its
\* own result: from then on this process makes no run (idle_maintenance.py:116).
DueIsChecked ==
  \A q \in WatchQueries :
    IsDue(q) ~> ~IsDue(q) \/ ~autoWatch \/ trouble \/ refresh.pc = "stuck"
=============================================================================
