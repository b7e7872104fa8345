# Project Intermix in TLA+

Project Intermix is a terminal assistant that runs a local language model on a phone: a Textual
cockpit, an inference controller, a resident native engine, an agent that works on files, and an
SQLite memory. The model proposes; deterministic code decides. This directory holds models of
that deterministic code, TLC runs that check them, and TLAPS proofs about them.

    tlc -config MCMissionHistory.cfg MCMissionHistory
    tlc -config MCMissionTurn.cfg    MCMission           (also ...User, ...Refusal, ...Lens)
    tlc -config MCResidentEngine.cfg ResidentEngine      (also MCResidentIdle.cfg)
    tlc -config MCAudio.cfg          AudioBridge         (also MCAudioOrphan.cfg)
    tlc -config MCChat.cfg           MCChat
    tlc -config MCServices.cfg       MCServices
    tlc -config MCImport.cfg         MCImport
    tlapm MissionLedgerProofs.tla    (and every other ...Proofs.tla)

Every property stands below its module's actions with a comment that states it. Operators named
`X_Something` with a comment `Mutant:` are broken variants of `X`. No specification uses one; each
shows that a property would notice that mistake.

## 1. Inventory

All sources are under `src/engine/` unless a path says otherwise.

| component | state | operations | correct when |
|---|---|---|---|
| mission ledger, `task_ledger.py` | a `state.json` per mission, `active_task.json`, an event log | create, resume, pause, get-or-create, record a batch of events, mark completed | completion means tested and reviewed; repeated failure blocks; the pointer is never dangling |
| workspace, `workspace_state.py` | files, checkpoint blobs, trash, `pending_deletions.json` | write, request / approve / deny a deletion, read | nothing is lost; a deletion follows a current consent |
| executor, `agent.py` | a cancel flag, the running process | runs the tool tags of a response in order, stops at the first failure | later actions of a failed batch do not run; its events tell the ledger what happened |
| controller, `llm_controller.py` | session, the turn's epoch and counters | one turn; slash commands | a turn ends; its verdict agrees with the ledger |
| resident engine, `resident_engine.py` | request queue, worker thread, engine, state, failures | stream, warm, unload, shutdown | each call ends with one backend's text; an idle engine is released |
| cockpit, `tui_app.py` | editor buffer, busy flag, timers | submit, save, cancel, timers, voice | what it saves reaches the ledger; what it shows is true |
| audio bridge, `audio_bridge.py` | request, claim and result files shared with a second process | submit, claim, play, cancel, recover, prune | one playback per request; no claim blocks the queue for ever |
| idle maintenance, `idle_maintenance.py`, `temporal_refresh.py`, `workspace_documenter.py`, `idle_reporter.py`, `research_scout.py` | cancel flags, a manifest, reports, fact watches | four phases, cancelled by user activity | a cancellation stops it; a phase cut short is done again |
| memory store, `memory_store.py`, `memory_migrate.py` | SQLite: sessions, messages, memories with revisions, typed events, caches, fact watches | create, append, upsert, pin, forget, search, cache, import | a memory is superseded and not overwritten; what is forgotten does not come back |
| memory protocol, `memory_protocol.py`, `second_brain.py`, `memory_retriever.py` | the filter's buffer | hide the memory tail of a stream, apply a payload, capture events, retrieve | hidden text never shows; only permitted changes are applied |
| prompt assembly, `prompt_builder.py`, `response_policy.py` | none | choose a budget, add blocks, evict | the prompt fits; mandatory blocks survive |
| web search, `web_search.py` | circuit breaker of each provider | waves under a request budget | cooling providers rest; the budget holds |
| grounding, `freshness_policy.py`, `claim_contracts.py`, `numeric_integrity.py` | none | classify, extract, validate | an exact answer agrees with its evidence |
| configuration, `provider_vault.py`, `runtime_config.py` | files of mode 600 | load, rewrite | a rewrite is atomic |
| releases, `src/install.sh`, `src/bin/intermix-rollback` | links `current` and `previous`, release directories | install, roll back | `current` names a complete release |

**How they interact.** A submitted line starts a turn on Textual's event loop (one at a time: the
`busy` guard). The controller asks the resident engine, whose worker thread answers through an
event queue of the call, or else the command-line process. A workspace turn runs the executor in a
second thread (`asyncio.to_thread`); the executor changes the workspace under `_STATE_LOCK`; the
controller then hands its events to the ledger under `_LEDGER_LOCK` and decides whether to go on,
stop, complete or block. Meanwhile the user may press the cancel key (which sets a flag that the
executor reads) or save a file in the lens (a third thread, and a ledger record afterwards). After
the turn the user may resume, pause or open missions and decide deletion reviews. Maintenance and
audio run from timers in threads of their own. Everything durable is a file or SQLite, so a killed
process restarts from whatever was written last.

**What is hard here**: the order in which events reach the ledger against the order on disk; two
durable writes with a crash between them; a hash compared and then acted upon; an edit recorded in
whichever mission is active later; late tokens of a request that was given up; a thread that dies
with a queue behind it; a limit counted across calls. `PROJECT.json` lists each at its line.

## 2. What is modelled

`WorkspaceNames` declares the names that the next modules share.

**`MissionLedger`** is `task_ledger.py`. `ledger[t]` is the state file of mission `t`, `active` the
pointer; `pc`, `target`, `draft` and `todo` are the operation that holds the lock. `CreateTask` and
`ActivateTask` write the state file and `SetActive` the pointer, so `LedgerCrash` can fall between.
`BeginRecord`, one `RecordEvent` per event and `CommitRecord` are `record_events`: `AfterEvent` is
its loop body with its elif chain, `AfterBatch` its test for blocking. `MarkCompleted` is the
completion gate.

**`MissionHistory`** adds `completed_steps`, the list that `record_events` extends beside the
summary. No ledger decision reads it. It says what the summary ought to mean, in terms of whole
histories (`UntestedWrite`, `OpenReview`, `RepeatedFailure`), and is the independent reference for
`CompletionGate` and `BlockedAfterRepeat`.

**`Workspace`** is `workspace_state.py`. A content stands for bytes and for their hash. A write is a
checkpoint (`BeginWrite`) and a replacement (`FinishWrite`); an approval is a comparison
(`CheckConsent`), a move (`MoveToTrash`) and the rewrite of the reviews (`CloseApproved`). `hand` is
the operation that holds `_STATE_LOCK`; any other operation waits, and a crash forgets it. An approval
may also break off by an exception, after its comparison or after its move (`AbandonApproval`).

**`Mission`** composes both with the turn (`llm_controller.py`), the executor (`agent.py`), the
commands, and the lens (`tui_app.py`). `turn` goes from "ready" over "generating", "executing",
"recording" and "judging" back; the `Agent...` actions are the executor's tools; `RecordBatch` and
`Judge` are the controller's half of an epoch. `LensSave`, `LensWritten` and `LensRecord` are an
editor save. What can raise may raise: a write, before or after the file was replaced; a deletion
request, with or without a stored review; an approval; and the writes to the database and the ledger
between two epochs (`AbandonTurn`) or before a decision or a save is recorded. Four ghosts remember what
no variable of the code does: `untested`, the files whose last write no test has followed *on disk*;
`asked`, the reviews that each mission was told of; `misled`, the untested files that their mission then
failed to delete, which the ledger books as deleted; `lost`, the missions with events that never reached
the ledger, because the process died or a write raised first (`Telling`).

**`ResidentEngine`** is `resident_engine.py` with `_stream_raw_backend`. `queue` and `worker` are the
thread and its queue; `call[c]`, `events[c]`, `sources[c]` what a caller sees. A call that ends
raises its flag (`cancelled`), after which `Emit` drops the worker's events for it. `StartClose` and
`Closed` or `CloseRaises` are `_close_engine`, for the four reasons it is called.

**`AudioBridge`** is `audio_bridge.py` with the cockpit's monitor and player (`tui_app.py`). `result`,
`claims`, `archive` and `asked` are files; `voice`, `active` and `player` are the cockpit's memory and
go with it when it dies. `Tick` is `_apply_audio_bridge_status`, which every handler ends with;
`Exclusively` is Textual's exclusive worker group. `PlayerStarts` to `PlayerCloses` are the stretches
of `play_claimed_request` between its awaits, `Prune` follows what `PlayerCloses` has read. The service
that renders is external and does what the code expects of it. **`Narration`** is the abstract
specification: four stages of a recording and the moves between them. `Stage` is the refinement mapping
from the files' statuses, `ImplementsNarration` the refinement.

**`MemoryStore`** is the part of `memory_store.py` that a conversation writes: versions of memories with
their revisions, sessions, messages; each operator is one transaction. **`ChatTurn`** extends it with
`stream_inference` outside the workspace. `pc` walks through its stages; `visible` and `hidden` are
the answer so far and the items that its payload proposes, `shown` the chunks on the screen.
`RepairNumbers` and `RepairFact` are the two regenerations with their fallbacks, `Verify` the
last gate before held text is released, `Remember` one item of `apply_memory_payload`. `Crash` may come
anywhere, also between a session's insertion and the setting that points at it (`opening`).

**`SearchRoutes`** is `search_web`. A route is a wave of concurrent providers; `RunWave` chooses the
ready ones that the budget still allows, `ProviderSucceeded` and `ProviderFailed` are the answers in
any order, `cooling` the breakers that all searches of the process share. `restings` is a ghost: which
providers have failed this search and were not reached since.

**`FactWatch`** is the web cache and the watch list, between `_ground` in a turn and
`refresh_due_facts` in idle maintenance, with every database write a step. `agenda` orders the rows by
`next_check_at`, the first `dueCount` are due. `trouble` stands for low storage and for files and a
database that may fail: in it a run may skip the refresh (`SelectDue`), end anywhere with an exception,
or leave the coordinator "running" for good (`RefreshFails`, `Stuck`), and a turn may fail
(`GroundFails`); it may end or not. `PurgeEvent` is `/memory event purge`; the history `purged` keeps
what it took. **`IdleMaintenance`** is the coordinator, its cancel
events (its own and the scout's), and the durable writes of the documenter, the reporter and the scout,
beside the commands that run two of them without the coordinator's lock. Any phase may raise
(`Raises`), and so may the final write (`FinishRun`). Two histories say when the document may
differ from its manifest: `torn` (a pass broken off between its writes, two at once, or an edit of the
document itself, `EditDocument`), until a pass in which no other took part (`alone`) has gone through.

**`PromptBudget`** is the arithmetic of `build_prompt`: block limits, recent messages, the eviction loop,
and the final cut. It is state only because the loop is. **`HiddenMemory`** is
`HiddenMemoryFilter`, which separates a stream, cut into chunks anywhere, from its hidden block;
the reference is `Shown` and `Concealed` of the text as a whole. **`LegacyImport`** is
`apply_migration`, which may die between two transactions and be repeated.

**`MCServices`** explores those six services in one run. They share no variable, so interleaving them
would multiply their states and show nothing more: `service` says which of them moves, and the others
stay in their initial state.

## 3. Runs

| run | instance | shows |
|---|---|---|
| `mission_history` | 2 missions (3 and 1 recorded events), 10 kinds of batch, crashes anywhere | the ledger's numbers mean what the history says |
| `mission_turn` | 2 missions, 2 contents of a file, 2 reviews, 2 epochs of 2 actions of all kinds, which may fail, 2 user inputs | agent work is tested and reviewed before completion; a blocked mission waits for the user |
| `mission_user` | 1 mission that writes, deletes and completes, 2 contents, 1 review, 2 epochs of 1 action, 3 inputs, 1 crash | consent, recoverability, and every turn ends |
| `mission_refusal` | 1 mission, 3 inputs | **violated**, see 5 |
| `mission_lens` | 1 mission, 5 inputs, nothing overlaps | **violated**, see 5 |
| `resident` | 2 inferences, 1 warm-up, 1 unload, `close()` may raise | one voice, true state, no forgotten call; calls end, a used engine is released |
| `resident_idle` | 1 inference, 1 warm-up, 1 unload | **violated**, see 5 |
| `voice` | 3 recordings, 1 pinned, an archive of 1, 2 lines, 1 outage, 1 death | one narration at a time, nothing unheard is deleted, the files implement `Narration`, requests are settled |
| `voice_orphan` | 2 recordings | **violated**, see 5 |
| `chat` | 2 turns of 10 kinds of question and 28 drafts, 3 commands, crashes anywhere | only checked text is shown, what is shown is stored, only what was shown is remembered; one active version of a key, with its history |
| `services` | 2 searchers, 5 providers in 4 routes, a budget of 3; 2 watches, 2 states of the world and one of: a command, a purge, trouble, the end of the process; 387 prompts under 4 limits; maintenance with 1 each of save, launch, command, cancellation and stop in 2 days; 343 drafts in all chunkings; 3 imports | the budget and the resting of failed services; removed watches stay removed, due ones are checked; compaction's order and bounds; idle work yields and publishes what is true; hidden text stays hidden; imports repeat safely |
| `import_twice` | 2 imports, a window of 2 | **violated**, see 5 |

**Bounds.** `MaxSeq` bounds the events recorded in a mission. Three are enough for two equal
failures with a success on either side, and for a write, a test and a second write, in one or more
batches. The second mission is there for the pointer and the resets. `MaxInputs` bounds the lines
and saves of the user, not the steps of the program; two or three cover a turn, a save during it and
a decision after it. `MaxEpochs` and `MaxActions` are parameters of the program (6 and 12 there); an
epoch that repairs the one before needs two, a batch cut off by a failure needs two. Missions,
contents and reviews are symmetric in `mission_turn`, where no liveness is checked. One file is
enough, because every property is about one file at a time or about their order in one list. In
`resident`, three calls are the fewest with which two failures leave one to refuse; `failures` is
counted up to the 2 that the code compares it with.

In `voice`, three recordings are one that is playing, one waiting and one that is rendered while the
archive (limit 1) is pruned; two lines let a later answer push an earlier one's narration aside.
In `chat`, two turns are one that remembers and one that contradicts, supersedes or repeats it; the
drafts are one that passes every check and one that fails each, with four payloads. In `services`,
the budget of 3 is below the 5 providers, so that it binds; two searchers share the breakers; two
states of the world, told by different sources, make cached, recorded and found evidence differ (that
changed evidence of the same sources makes no new event is covered by the theorem alone); a batch of one makes the second watch wait
its turn; the prompts' texts are below, at and above each block's own limit; drafts hold whole
markers, cut markers, markers in markers and none; a window of 2 stands for the thousand messages
that `content_exists` looks at, and three messages of talk push an import out of it.

Deadlock checking is off where the program may stop: a user who types no more, calls used up, a
thread that has been shut down.

**`Overlap`** says whether a key's action (save, cancel) may run while a submitted line is handled.
That is Textual's message pump, outside this repository; `TRUE` lets both happen, and the properties
hold then too. `mission_refusal` and `mission_lens` set it to `FALSE`, so they do not rest on such
an overlap.

**Fairness.** `TurnEnds` assumes weak fairness of the turn's steps (event loop and executor thread)
and of the background steps: what holds a lock goes on. Nothing is assumed of the user or of crashes.
A generation that never returns would stop the turn; `_stream_raw_backend`
bounds each wait for an event, and `_run_python` has a deadline. `CallsEnd` assumes weak fairness of
each caller (an event is read, or the wait times out), of the worker and of time; the native engine's
calls return. `UsedEngineIsReleased` has finitely many calls in a behaviour, so it says that no mix
of them leaves an answered engine loaded, not that the engine unloads while it is in use.

`RequestsAreSettled` assumes that the event loop keeps ticking, a player's process ends, the service
answers each request and its heartbeat returns; nothing of the user, outages or deaths.
`DueIsChecked` assumes that searches return, as their timeouts make them, that both threads run on,
and that an idle cockpit starts maintenance again and again, as its timer does. It assumes nothing
of trouble: while storage is low or phases and writes fail, the property promises no check.

**Qualified properties.** Some promises hold with a reservation that the property states:

* `AgentWorkIsTested` and `ReviewsGateCompletion` speak of missions whose events all reached the
  ledger: the executor's events reach it after the whole batch, so a crash or a failing write in
  between loses them, and the code has no way to know (`lost`). A crash takes nothing from a mission
  that was telling nothing at that moment. `AgentWorkIsTested` also excepts a file that
  its mission failed to delete after it wrote it (`misled`), until it is written again, and
  `ReviewsGateCompletion` a review whose request raised after it was stored; see section 5. The violated
  `CompletedFilesAreTested` is about behaviours without a crash.
* `ShownIsVerified` does not promise the user's numbers when an exact fact was there too: the answer
  repaired for the fact is not checked for the numbers again (`llm_controller.py`, around 838).
* `LearnedIsRecalled` excepts a fact learned again with the same value after it expired: the row is
  reinforced, its date stays, and it remains out of sight.
* `PromptFits` allows the separators: the eviction loop does not count them, so a prompt may reach the
  final cut while optional blocks are still above their minimum, against the comment at
  `prompt_builder.py:314`. `MessageGoesLast` says when the user's message is cut: only when no optional
  block can be cut any more, or within that margin. It does not say that the message survives the
  optional blocks' minima, nor `EvictionOrder` that dialogue goes first; see section 5.
* `IdleWorkYields` counts a cancellation from the moment the run has cleared the event: one that comes
  just before is lost, and likewise one between the coordinator's last look and the scout's clearing.
* `DocumentFollowsManifest` excepts a death or an exception between the two writes, two passes at once,
  and an edit of the document itself (`torn`): the manifest is written first, `/docs refresh` does not
  take the coordinator's lock, and no scan looks at the document. It holds again after the next pass
  that finds a change and that nothing disturbs.
* `VerifiedHasProvenance` lets the recorded event be of older evidence than the cache, and speaks of
  events that were recorded (`EverRecorded`): the user may have purged the event since.
* `DueIsChecked` excepts watches while `auto_fact_watch` is off, while there is trouble, and after a run
  that could not write its own result (`idle_maintenance.py:116`).
* `UnheardIsKept` holds if at most `AUDIO_ARCHIVE_LIMIT` recordings are rendered while one player prunes
  (`KeepsPace`): it reads the results before it lists the archive, and deletes the oldest of what it has not
  heard of. The limit is 25 and the window a moment, so the model assumes it.
* `RequestsAreSettled` excepts requests while an orphaned claim is in the way (`voice_orphan`).
* `RecoveredOnce` excepts copies farther apart than the window (`import_twice`), and short texts,
  which both sources may rightly hold twice.

## 4. Proofs

Every safety property that a passing run checks is also a theorem, about arbitrary constants: any
number of missions, files, contents, reviews, recordings, queries, turns, deaths and repetitions, and
texts of any length. Eight modules hold the proofs.

**What they assume** are the named assumptions of the modules, and nothing else: names are distinct and
bounds are numbers; `PyPaths` is a subset of `Paths`; batches are sequences of events; no mission is
called "lens" (a task id is drawn from hexadecimal digits; the ghost `untested` uses that name for the
editor); finitely many queries are watched (they are rows of a table); texts are sequences of
strings or strings; the blocks of a prompt have lengths that are numbers. The last includes what
`FormatRecent` computes: it is a fold, and that its result is a number is an induction over data,
which TLC evaluates for every instance.

### The ledger and the mission

`MissionLedgerProofs` proves `LedgerSafety`: types, `ActivePointsAtTask` and
`ActiveIsBelowRepeatLimit`. `LedgerIInv` adds what the lock protects: between the two writes of an
operation its mission exists, and a copy being folded is that of an existing mission. Without it a
crash or a commit could not be shown to keep the pointer valid.

`MissionHistoryProofs` proves `HistoryTypes`, `HistorySafety`, `BlockedMeansRepeat` and
`CompletionIsGated`. Its invariant `HistoryIInv` relates each summary, stored or in hand, to its
list: the sequence number is the length; every standing write is in `files`; the mutation and
verification numbers bound the places of writes and tests; every open review is in `pending`; and a
positive repeat count is a run of equal failures at the end of the list. A lemma per relation shows
that appending one event keeps it (`AppendStanding`, `AppendPendingCovers`, `AppendCounted`, ...).

`MissionProofs` is about the composed specification, in layers that each use the one before:

* *The workspace.* `DeletionNeedsCurrentConsent` and `EverythingIsRecoverable` rest on
  `MissionStepIsWorkspaceStep` (each step of a mission is a workspace operation or leaves the workspace
  alone) and two facts about the operation in hand: while it is a write, what it replaces is a
  checkpoint (`Checkpointed`), and while it is an approval, the file still holds what the review names
  (`StillConsented`). Both hold because no other writer enters the lock.
* *Types and ownership.* `MissionTypes` needs `TurnTypes`: from a turn's start its mission is the
  active one and no review command is under way (`TurnOwnsLedger`), and a write in hand is the
  executor's or the lens's (`WriterIsKnown`).
* *Blocked missions.* `BlockedMissionsWait` needs `WorkIInv`: a mission at work is active, up to the
  batch that blocks it (`AtWork`). The executor stops at its first failure (`BatchIsOrdered`), and
  only saves of the lens, which succeed, come between (`OnlySavesInterrupt`); so a batch that
  reaches "task_completed" had no failure before it, and ends below the limit of repetitions
  (`EndsBelowLimit`). The mission that the controller judges can therefore not have been blocked.
* *Reviews.* `ReviewsAreWaitedFor` needs `ReviewIInv`: a review that a mission was told of and nobody
  has decided is in its ledger, in the operation that is recording, or in the batch not yet recorded
  (`AskedAreKnown`, over the missions that are not `lost`; `CrashSparesTheQuiet` says that a crash takes
  nothing from a mission that was telling nothing). No event takes it off the list early, because ids are drawn once
  (`IdsAreDrawnOnce`) and an event that closes a review comes after the review is gone
  (`ClosedAreGone`).
* *Tests.* `AgentWorkIsAlwaysTested` needs `TestIInv`: for each file of a mission whose last write no
  test has followed on disk and that it did not fail to delete (`Owing`), its ledger owes the test, or
  will when it has heard of the events under way (`UntestedAreOwed`, over the copy in hand, what is left
  to record, and the batch). A debt is lost only if the ledger hears of a deletion after the file was
  written again, and no such event is ever under way for a file that is owed (`NoStaleDeletion`,
  mission by mission): a failing deletion ends its batch, and with the file in `misled` it owes nothing.

`CompletionIsJudged` then gives all three: a mission completes only in "judging", with no operation
under way, so what is owed is in the ledger, where the gate sees it.

### The engine and the voice

`ResidentProofs` proves the four safety invariants of the resident engine for any number of calls.
`ResidentIInv` says what the worker's place tells of the engine (`EngineIsKnown`), which backend can
have spoken for a call (`VoicesAreKnown`), whom the worker serves in which place (`ServingIsKnown`), and
where a waiting call is: in its hands, queued before any shutdown, or answered
(`WaitingIsServed`). The last needs that only ended calls are cancelled, since `Emit` drops their
events, and that nothing is queued behind a shutdown (`CancelledIsOver`).

`AudioProofs` proves `AudioTypes`, `NarrationsDoNotOverlap`, `UnheardRecordingsAreKept`,
`LivingPlayersKeepTheirClaims` and the refinement `BridgeImplementsNarration`. `AudioIInv` says that
a player which needs its claim has it, with the status to match (`HoldersAreKnown`), that a result old
enough to be given back is of a player well started or of none (`AgedIsTaken`), that one player sounds
(`OneVoice`), and what a pruning player knows (`PruningIsInformed`). The last shows what the
property depends on: pruning reads the results (`audio_bridge.py:442`) before it lists the
archive (`:450`), so of the recordings rendered in between it knows nothing, and keeps them only because they are
among the newest `AUDIO_ARCHIVE_LIMIT` (25). `KeepsPace` says so in the model. The refinement maps each
step to a step of `Narration` or a stutter (`StageMoves`): a recovery gives back only what is aged, so
never what a living player holds, and a late player's last status finds its own recording still taken.

### The turn and the memory

`ChatProofs` proves `OneVersionIsActive` and `MemoriesHaveHistory`, and with `ChatTypes` the types of a
turn. The invariant is that of the store alone (`StoreInv`: the rows are typed and a key has one active
row) beside the types of the turn's control (`ControlTyped`, which also says that past its beginning a
turn has a session). Three lemmas say what can happen to the rows: one changes (`RowChanges`), one is
added (`RowAdded`), one is added in conflict with an active one (`RowSuperseded`); every operation of
the store is one of these or several (`UpsertKeeps`, `ForgetKeeps`, `ExpireKeeps`, `PurgeKeeps`). That
a key has one active row is needed for the second theorem too: it makes the row that
`upsert_memory` reads, the newest, the one that it retires. `LearnedIsRecalledLater` is the action
property that follows for what a turn learned.

`OnlyVerifiedIsShown`, `WhatIsShownIsStored` and `RejectedDraftsAreForgotten` follow from `AnswerInv`,
which says for each stage which checks the draft has passed and what is on the screen: what need not
be held while it streams, nothing of a draft that a repair replaces, and the whole of one that passed.
While items are remembered, what is left of them is the end of the shown draft's payload (`SuffixOf`).

### The services

`ServicesProofs` has a part for each service but maintenance.

* *Search.* `SearchTypes` includes the request budget. `FirstPlacesAreFew` counts what a wave takes: each of its
  places has another number of ready places up to it, so there are at most as many as the budget
  leaves. `FailedServicesRest` rests on `RestingIsCooling`: what has failed a search and was not reached
  since has an open breaker, whoever else has closed or opened breakers meanwhile.
* *Watched facts.* `ProvenanceIsRecorded`: a refresh completes a row two database writes after it read the
  evidence, while turns and commands write the same row; `CompletedIsRecorded` says that what it then
  holds has been recorded at some time (`EverRecorded`: an event that is purged is remembered in
  `purged`), which no other writer, failure or purge undoes.
  `RemovalIsKept`: the completed row keeps whatever `active` says at that moment. `WatchTypes` needs that the
  agenda names each row once, so that it fits its bound (`AgendaFits`), that what is due are rows
  (`DueWatchesAreRows`, from `EveryNumberIsTaken`), and that rescheduling one keeps both
  (`RescheduleKeepsRows`).
* *Import.* `EveryMessageIsRecoveredOnce` needs `PassedIsThere` (what the import has passed is in the
  database, whatever died since) and `NoneIsTwice` (two rows have different fingerprints, and equal long
  texts are at least a window apart).
* *Filter.* `HiddenIsNeverShown`: for every draft and every way to cut it into chunks the filter shows and
  hides what `Shown` and `Concealed` say of the whole. `Filtered` relates the parts so far to the text
  so far: before a marker, the whole text so far holds none, and its end, one symbol shorter than a
  marker, is held back (`Undecided`), so a marker that is cut by chunks begins in what was not yet shown
  (`MarkerIsAhead`).
* *Prompt.* `CompactionKeepsItsPromises`: mandatory blocks stay (`MandatoryStay`), blocks are dropped in
  order (`EvictionOrder`), the loop stops only when the prompt fits or nothing is left to cut
  (`LoopIsOver`, `PromptFits`), and the message is cut only then (`MessageGoesLast`).
* *Composition.* `ServicesAreComposed`: what a run of `MCServices` shows of one service is a behaviour of
  that service's own specification, the fairness of watched facts aside; `ServicesTypes`,
  `ServicesAreSafe` and `ServicesStepsAreSafe` carry the theorems of each over to the composition.

`MaintenanceProofs` proves `WhatIsPublishedIsTrue`, `CancelledWorkYields` and `MaintenanceTypes`. Its
invariant has a part per file: one run holds the coordinator (`ThreadsOK`), one pass of the documenter
at a time, whose manifest is its own, unless another has disturbed it, and then torn (`DocsOK`, over
`alone`), and the report a thread is writing has a name no recorded report has
(`ReportsOK`: a run's is the day's, and the latest recorded day says whether that is taken; a
command's is its own). So the markdown that a cancelled run takes back is nobody else's.

### Model-checked only

Liveness: `TurnEnds`, `CallsEnd`, `UsedEngineIsReleased`, `RequestsAreSettled` and `DueIsChecked` need
fairness and ENABLED, which the prover does not handle. The violated properties of section 5 are
counterexamples and need no proof. What a fold or a recursive definition computes for every input needs
induction over data, which no installed prover can instantiate; besides `FormatRecent` above, no theorem
depends on such a fact.

## 5. Where the program and its documents differ

* `mission_refusal` (`task_ledger.py:246`). The event of an approved deletion names a path, so it
  takes an earlier branch of the elif chain than the one that closes its review. The mission keeps
  the review, and each completion afterwards is refused as "Deletion approval is still pending."
* `mission_lens` (`llm_controller.py:171`). An editor save is recorded only while a mission is
  "active". Save a mission's file while it is paused, resume it, and it completes on the test that
  ran before the save; `docs/MEMORY.md:73` promises verified tests.
* `resident_idle` (`resident_engine.py:273`). A request that is cancelled while the engine loads
  for it does not mark the engine as used, and an engine never used is never unloaded;
  `src/README.md:26` says it is, after sustained inactivity.
* `voice_orphan` (`audio_bridge.py:214`). A cockpit that dies between the creation of a claim and the
  status "starting" leaves a ready recording that is claimed by nobody. Recovery looks at starting and
  playing results only, so it is never played, and as the oldest it hides every later one;
  `docs/VOICE.md:93` promises that interrupted playback is recovered.
* `import_twice` (`memory_migrate.py:194`). A text of both legacy sources is imported once. Repeated
  after more than a thousand newer messages, the import recognises the first copy by its fingerprint
  only, does not remember its text, and imports the second; `docs/MEMORY.md:104` says the migration is
  idempotent.

Further observations, made while modelling; the properties name them as their exceptions, and no run
of its own shows them:

* A `delete_file` that raises is reported as a failed `delete_file` (`agent.py:371`), and
  `record_events` (`task_ledger.py:246`) books it as a deletion without looking at the exit code. The
  next `task_completed` then completes the mission over a file that is still there and untested.
* A deletion request that raises after its review was stored (`workspace_state.py:227-228`) leaves a
  review whose id the mission's ledger never hears, so the mission may complete while it is undecided.
* A mandatory message over the limit is cut to 300 tokens while recent messages, checkpoint and
  identity keep their minima (`prompt_builder.py:313-317`); `docs/ARCHITECTURE.md:69` says that
  mandatory user text survives before optional old dialogue. And `docs/MEMORY.md:90` says that older
  dialogue is compacted first, while recollections, typed events and the checkpoint go before the
  recent messages.
* `/memory event purge` deletes an `evidence_refresh` event (`memory_store.py:899`) and leaves its watch
  "verified", with the hash of evidence whose sources are recorded no more.
* A document whose write raises (`workspace_documenter.py:143`) stays stale, for the manifest of line
  141 says that nothing has changed; so does one that the user edits, until the next change.
* A failing write in `finally` (`idle_maintenance.py:116`) leaves the coordinator "running" until the
  cockpit restarts, and no run is made before that.
* A late success of one search erases the cooldown that another thread's failure has just set
  (`web_search.py:107`); the scout stores its state before its findings, so a death in between loses a
  day's findings; a purge leaves the purged text in the `old_value` of its successor's revision.

## 6. Not modelled, and why

Text is abstract everywhere: prompts, tool tags, goals, messages, hashes (a content is its own
hash). Path containment and size limits are preconditions of the workspace's operations. The event
logs are written and never read back. The truncations to 300 files, 100 reviews and 32 steps are
left out: the models are of missions below them. The files that a Python program run by the agent
writes itself, and editors outside the cockpit, do not take the lock and are not covered by the
workspace's promises.

* Grounding, claims and numeric integrity are pure functions over text made of regular expressions.
  Their verdicts are inputs of `ChatTurn` (kinds of question and draft) and `FactWatch`.
* The memory store's pins, summaries, ranking, exports and project events; the retriever; the patterns
  of `response_policy.py`: reading, ordering and wording, without a state of their own.
* `provider_vault.py` and `runtime_config.py` read a configuration file and rewrite it in one atomic
  replacement. `install.sh`, `bin/intermix-rollback` and the release tooling are sequential
  scripts that run while the program does not; what is hard in them is the file system's semantics.
* Widgets, telemetry, rendering and the command-line process behind the fallback, which answers, fails
  or is ended.
* Two cockpits at once: the audio claims are made for them, the monitor's other state and the
  memory's upsert are not; one cockpit is assumed. No cockpit runs beside an import.

## 7. Plan

Done: the ledger, its history, the workspace and their composition with turns, commands and the lens;
the resident engine; the audio bridge and the narration it implements; the conversational turn over
the memory store; searches, fact watches, maintenance, prompts, the hidden filter and the import.

Next:

1. The turn and the maintenance over one set of breakers and one cache: `SearchRoutes` inside
   `FactWatch`, once an abstract search bounds its states.
2. Pins and summaries of the memory store, which protect and condense what a turn recalls.
3. The 300, 100 and 32 truncations of the ledger, which can forget that a file is to be tested.
4. Abstract specifications of the workspace (a versioned store with consent) and of the engine (one
   answer per call), with their refinements as theorems.
