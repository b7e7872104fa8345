----------------------------- MODULE AudioBridge -----------------------------
(***************************************************************************)
(* audio_bridge.py and the part of tui_app.py that drives it: the cockpit  *)
(* asks for a completed response to be spoken, a service in another        *)
(* machine renders it, and the cockpit claims the recording and plays it.  *)
(* Requests, results, claims, recordings are files that outlive a killed   *)
(* cockpit.                                                                *)
(*                                                                         *)
(* The cockpit's handlers run one after another on the event loop.  Each   *)
(* of them ends with _apply_audio_bridge_status; a player is a task that   *)
(* awaits twice, the start of its process and the process's end.           *)
(* Recordings are compared by age alone, the order in which they were      *)
(* rendered.  One cockpit runs at a time.                                  *)
(***************************************************************************)
EXTENDS Naturals, FiniteSets, Sequences, SequencesExt

CONSTANTS
  Recordings,     \* request ids, each with the recording rendered for it
  NoRecording,
  Pinned,         \* the names in pins.json
  ArchiveLimit,   \* AUDIO_ARCHIVE_LIMIT
  MaxLines,       \* lines that the user submits (bounds TLC)
  MaxOutages,     \* losses of the service's heartbeat (bounds TLC)
  MaxDeaths       \* deaths of the cockpit (bounds TLC)

ASSUME AudioAssumption ==
  /\ NoRecording \notin Recordings
  /\ Pinned \subseteq Recordings
  /\ ArchiveLimit \in Nat
  /\ MaxLines \in Nat /\ MaxOutages \in Nat /\ MaxDeaths \in Nat

VARIABLES
  result,     \* for each recording, the status in its result file, or "none"
  claims,     \* the recordings with a claim file
  rendered,   \* the recordings rendered so far, oldest first
  archive,    \* those whose WAV is in the archive
  intact,     \* those whose WAV agrees with the result's hash
  aged,       \* results not updated for PLAYBACK_RECOVERY_SECONDS
  asked,      \* the recordings with a request file
  online,     \* the service's heartbeat is fresh
  voice,      \* voice_request_id
  active,     \* voice_playback_active
  speakable,  \* voice_text holds a completed response
  busy,       \* a turn runs
  player,     \* for each recording, its _play_voice_request task
  pruning,    \* prune_audio_archive, between what it reads and what it deletes
  lines, outages, deaths

fileVars == <<result, claims, rendered, archive, intact, aged, asked>>
voiceVars == <<voice, active, player>>
boundVars == <<lines, outages, deaths>>
audioVars == <<fileVars, online, voiceVars, speakable, busy, pruning, boundVars>>

Statuses == {"none", "audio_ready", "starting", "playing", "completed", "cancelled", "failed"}
Settled == {"completed", "cancelled", "failed"}

\* A player that was cancelled is "stopping" until its process has ended, or "aborting" if
\* that process was not registered yet; after a SIGTERM of the cancel key it is "terminated".
Players == {"none", "scheduled", "spawning", "playing", "terminated", "stopping", "aborting", "closing"}
ActivePlayers == {r \in Recordings : player[r] \in {"playing", "terminated", "stopping"}}

NotPruning == [by |-> NoRecording, protected |-> {}, known |-> 0]

AudioInit ==
  /\ result = [r \in Recordings |-> "none"]
  /\ claims = {} /\ rendered = <<>> /\ archive = {} /\ intact = {} /\ aged = {} /\ asked = {}
  /\ online = TRUE
  /\ voice = NoRecording /\ active = FALSE /\ speakable = FALSE /\ busy = FALSE
  /\ player = [r \in Recordings |-> "none"]
  /\ pruning = NotPruning
  /\ lines = 0 /\ outages = 0 /\ deaths = 0

\* No handler of the event loop is between two of its steps.
LoopFree == pruning = NotPruning /\ \A r \in Recordings : player[r] # "closing"

AgeOf(r) == CHOOSE i \in 1..Len(rendered) : rendered[i] = r

Oldest(set) ==
  IF set = {} THEN NoRecording ELSE CHOOSE r \in set : \A s \in set : AgeOf(r) <= AgeOf(s)

\* run_worker(exclusive=True): the group's earlier tasks are cancelled.  One that never ran
\* is just dropped.
\* Mutant: the worker group is not exclusive.
Exclusively_Shared(r, tasks) == [tasks EXCEPT ![r] = "scheduled"]

Exclusively(r, tasks) ==
  [s \in Recordings |->
     IF s = r THEN "scheduled"
     ELSE CASE tasks[s] = "scheduled" -> "none"
            [] tasks[s] = "spawning" -> "aborting"
            [] tasks[s] \in {"playing", "terminated"} -> "stopping"
            [] OTHER -> tasks[s]]

\* Mutant: recovery looks for claims without a player.
Stale_ByClaim == claims \ ActivePlayers

\* Mutant: no recovery.
Stale_Never == {}

\* recover_stale_playbacks: results nobody has updated for two minutes.
\* Mutant: a player of this process is not spared.
Stale_AnyPlayer == {r \in aged : result[r] \in {"starting", "playing"}}

Stale == {r \in aged : result[r] \in {"starting", "playing"} /\ r \notin ActivePlayers}

\* _validated_audio_path: the recording is there and is what the result says it is.
IsValid(r, wavs) == r \in wavs \cap intact

\* _apply_audio_bridge_status, at the end of a handler that left voice_request_id = v,
\* voice_playback_active = a, the players and the archive as given.
Tick(v, a, tasks, wavs) ==
  LET picks    == online /\ v = NoRecording /\ ~a
      returned == IF picks THEN Stale ELSE {}
      files    == [r \in Recordings |-> IF r \in returned THEN "audio_ready" ELSE result[r]]
      held     == claims \ returned
      chosen   == IF picks THEN Oldest({r \in Recordings : files[r] = "audio_ready"}) ELSE v
      status   == IF chosen = NoRecording \/ ~online THEN "none" ELSE files[chosen]
      valid    == IsValid(chosen, wavs)
      starts   == status = "audio_ready" /\ ~a /\ valid /\ chosen \notin held
  IN  /\ result' = CASE status = "audio_ready" /\ ~a /\ ~valid -> [files EXCEPT ![chosen] = "failed"]
                     [] starts -> [files EXCEPT ![chosen] = "starting"]
                     [] OTHER -> files
      /\ claims' = IF starts THEN held \cup {chosen} ELSE held
      /\ aged' = aged \ returned
      /\ voice' = IF status \in Settled THEN NoRecording ELSE chosen
      /\ active' = IF status \in Settled THEN FALSE ELSE a \/ starts
      /\ player' = IF starts THEN Exclusively(chosen, tasks) ELSE tasks

-----------------------------------------------------------------------------
(* The service, outside this repository.                                   *)

\* Pruning takes a moment, in which the service renders no more than what the limit spares.
KeepsPace == pruning # NotPruning => Len(rendered) < pruning.known + ArchiveLimit

\* It renders a request and writes the WAV, then the result.
Render(r) ==
  /\ r \in asked /\ result[r] = "none"
  /\ \/ /\ KeepsPace
        /\ result' = [result EXCEPT ![r] = "audio_ready"]
        /\ rendered' = Append(rendered, r)
        /\ archive' = archive \cup {r}
        /\ \/ intact' = intact \cup {r}
           \/ UNCHANGED intact
     \/ /\ result' = [result EXCEPT ![r] = "failed"]
        /\ UNCHANGED <<rendered, archive, intact>>
  /\ UNCHANGED <<claims, aged, asked, online, voiceVars, speakable, busy, pruning, boundVars>>

\* bridge_status: connected only while the service's last sign of life is young.
HeartbeatStops ==
  /\ online /\ outages < MaxOutages
  /\ online' = FALSE /\ outages' = outages + 1
  /\ UNCHANGED <<fileVars, voiceVars, speakable, busy, pruning, lines, deaths>>

HeartbeatReturns ==
  /\ ~online /\ online' = TRUE
  /\ UNCHANGED <<fileVars, voiceVars, speakable, busy, pruning, boundVars>>

-----------------------------------------------------------------------------
(* The cockpit.                                                            *)

\* _monitor_audio_bridge, once a second or every five.
Monitor ==
  /\ LoopFree
  /\ Tick(voice, active, player, archive)
  /\ UNCHANGED <<rendered, archive, intact, asked, online, speakable, busy, pruning, boundVars>>

\* on_input_submitted forgets the narration of the answer before, but does not stop it.
SubmitLine ==
  /\ LoopFree /\ ~busy /\ lines < MaxLines
  /\ lines' = lines + 1
  /\ busy' = TRUE /\ speakable' = FALSE
  /\ Tick(NoRecording, active, player, archive)
  /\ UNCHANGED <<rendered, archive, intact, asked, online, pruning, outages, deaths>>

\* The turn ends, with an answer that can be spoken or without.
TurnEnds ==
  /\ LoopFree /\ busy
  /\ busy' = FALSE /\ speakable' \in BOOLEAN
  /\ Tick(voice, active, player, archive)
  /\ UNCHANGED <<rendered, archive, intact, asked, online, pruning, boundVars>>

\* The VOICE button; it is disabled while a request is followed.  The id is a new one.
QueueVoice ==
  LET r == CHOOSE r \in Recordings : r \notin asked IN
    /\ LoopFree /\ ~busy /\ speakable /\ online
    /\ voice = NoRecording
    /\ asked # Recordings
    /\ asked' = asked \cup {r}
    /\ voice' = r
    /\ UNCHANGED <<result, claims, rendered, archive, intact, aged, online, active, player, speakable,
                   busy, pruning, boundVars>>

\* cancel_request_playback, which only knows a player whose process has started.
CancelKey ==
  /\ LoopFree
  /\ voice # NoRecording
  /\ player[voice] = "playing"
  /\ player' = [player EXCEPT ![voice] = "terminated"]
  /\ UNCHANGED <<fileVars, online, voice, active, speakable, busy, pruning, boundVars>>

-----------------------------------------------------------------------------
(* A player, play_claimed_request within _play_voice_request.              *)

\* Its check of claim and status holds: a recording is given back after two minutes.
PlayerStarts(r) ==
  /\ LoopFree /\ player[r] = "scheduled"
  /\ r \in claims /\ result[r] = "starting"
  /\ player' = [player EXCEPT ![r] = "spawning"]
  /\ UNCHANGED <<fileVars, online, voice, active, speakable, busy, pruning, boundVars>>

PlayerRegisters(r) ==
  /\ LoopFree /\ player[r] = "spawning"
  /\ player' = [player EXCEPT ![r] = "playing"]
  /\ result' = [result EXCEPT ![r] = "playing"]
  /\ aged' = aged \ {r}
  /\ UNCHANGED <<claims, rendered, archive, intact, asked, online, voice, active, speakable, busy,
                 pruning, boundVars>>

\* Mutant: a cancelled player reports a status of its own.
Outcomes_Stopped(r) ==
  CASE player[r] = "playing" -> {"completed", "failed"}
    [] player[r] \in {"stopping", "aborting", "terminated"} -> {"stopped"}
    [] player[r] = "spawning" -> {"failed"}
    [] OTHER -> {}

\* What a player reports in the end: the exit status, a failed start, or its cancellation.
Outcomes(r) ==
  CASE player[r] = "playing" -> {"completed", "failed"}
    [] player[r] = "terminated" -> {"cancelled", "completed"}
    [] player[r] = "spawning" -> {"failed"}
    [] player[r] \in {"stopping", "aborting"} -> {"cancelled"}
    [] OTHER -> {}

PlayerEnds(r) ==
  /\ LoopFree
  /\ \E outcome \in Outcomes(r) : result' = [result EXCEPT ![r] = outcome]
  /\ aged' = aged \ {r}
  /\ player' = [player EXCEPT ![r] = "closing"]
  /\ UNCHANGED <<claims, rendered, archive, intact, asked, online, voice, active, speakable, busy,
                 pruning, boundVars>>

\* prune_audio_archive keeps the pins and what is still to be played.
\* Mutant: what waits to be played is not protected.
Protected_PlayingOnly == Pinned \cup {r \in Recordings : result[r] \in {"starting", "playing"}}

Protected == Pinned \cup {r \in Recordings : result[r] \in {"audio_ready", "starting", "playing"}}

\* The finally block: the claim goes, and the results are read.
PlayerCloses(r) ==
  /\ player[r] = "closing" /\ pruning = NotPruning
  /\ claims' = claims \ {r}
  /\ pruning' = [by |-> r, protected |-> Protected, known |-> Len(rendered)]
  /\ UNCHANGED <<result, rendered, archive, intact, aged, asked, online, voiceVars, speakable, busy,
                 boundVars>>

Candidates == archive \ pruning.protected

\* Then the archive is listed, newest first, and the rest beyond the limit is deleted.
\* Mutant: the archive is listed oldest first.
Overflow_Newest ==
  {r \in Candidates : Cardinality({s \in Candidates : AgeOf(s) < AgeOf(r)}) >= ArchiveLimit}

Overflow ==
  {r \in Candidates : Cardinality({s \in Candidates : AgeOf(s) > AgeOf(r)}) >= ArchiveLimit}

Prune ==
  /\ pruning # NotPruning
  /\ archive' = archive \ Overflow
  /\ pruning' = NotPruning
  /\ Tick(voice, FALSE, [player EXCEPT ![pruning.by] = "none"], archive \ Overflow)
  /\ UNCHANGED <<rendered, intact, asked, online, speakable, busy, boundVars>>

PlayerStep ==
  \/ \E r \in Recordings : PlayerStarts(r) \/ PlayerRegisters(r) \/ PlayerEnds(r) \/ PlayerCloses(r)
  \/ Prune

-----------------------------------------------------------------------------

\* Two minutes pass over a result.  The start of a process takes less.
TimePasses(r) ==
  /\ result[r] \in {"starting", "playing"} /\ r \notin aged
  /\ player[r] \notin {"scheduled", "spawning", "aborting", "closing"}
  /\ aged' = aged \cup {r}
  /\ UNCHANGED <<result, claims, rendered, archive, intact, asked, online, voiceVars, speakable, busy,
                 pruning, boundVars>>

CockpitRestarts ==
  /\ deaths < MaxDeaths /\ deaths' = deaths + 1
  /\ voice' = NoRecording /\ active' = FALSE /\ speakable' = FALSE /\ busy' = FALSE
  /\ player' = [r \in Recordings |-> "none"]
  /\ pruning' = NotPruning
  /\ UNCHANGED <<result, rendered, archive, intact, aged, asked, online, lines, outages>>

Dies == CockpitRestarts /\ UNCHANGED claims

\* claim_audio_ready creates the claim file before it rewrites the result.
DiesClaiming ==
  /\ online /\ LoopFree /\ ~active
  /\ \E r \in (archive \cap intact) \ claims :
       /\ result[r] = "audio_ready"
       /\ \/ voice = r
          \/ voice = NoRecording /\ Stale = {} /\ r = Oldest({s \in Recordings : result[s] = "audio_ready"})
       /\ claims' = claims \cup {r}
  /\ CockpitRestarts

CockpitStep == Monitor \/ TurnEnds \/ PlayerStep

AudioNext ==
  \/ CockpitStep
  \/ SubmitLine
  \/ QueueVoice
  \/ CancelKey
  \/ \E r \in Recordings : Render(r) \/ TimePasses(r)
  \/ HeartbeatStops \/ HeartbeatReturns
  \/ Dies \/ DiesClaiming

\* The event loop goes on, the service answers, a process ends, the heartbeat comes back.
AudioSpec ==
  /\ AudioInit
  /\ [][AudioNext]_audioVars
  /\ WF_audioVars(Monitor)
  /\ WF_audioVars(PlayerStep)
  /\ \A r \in Recordings : WF_audioVars(Render(r)) /\ WF_audioVars(TimePasses(r))
  /\ WF_audioVars(HeartbeatReturns)

-----------------------------------------------------------------------------

\* The variables have their types.
AudioTypeOK ==
  /\ result \in [Recordings -> Statuses]
  /\ claims \subseteq asked /\ archive \subseteq asked /\ intact \subseteq asked /\ aged \subseteq asked
  /\ rendered \in Seq(Recordings)
  /\ asked \subseteq Recordings
  /\ online \in BOOLEAN /\ active \in BOOLEAN /\ speakable \in BOOLEAN /\ busy \in BOOLEAN
  /\ voice \in asked \cup {NoRecording}
  /\ player \in [Recordings -> Players]
  /\ pruning \in [by : Recordings \cup {NoRecording}, protected : SUBSET Recordings, known : Nat]

\* A player that lives keeps its claim and is not started a second time: neither recovery nor
\* the monitor mistakes a long narration for an interrupted one.
LivingPlayerKeepsItsClaim ==
  [][\A r \in Recordings :
       player[r] \in {"spawning", "playing", "terminated", "stopping", "aborting"}
         => r \in claims' /\ player'[r] # "scheduled"]_audioVars

\* One narration sounds at a time: a player that is not being cancelled is alone.
OneNarration ==
  Cardinality({r \in Recordings : player[r] \in {"scheduled", "spawning", "playing", "terminated"}}) <= 1

\* Pruning, whatever the service adds while it runs (at most ArchiveLimit recordings, or the
\* oldest of them would go unheard), deletes nothing that has yet to be played and no pinned
\* recording.
UnheardIsKept ==
  \A r \in Recordings :
    result[r] \in {"audio_ready", "starting", "playing"} \/ (r \in Pinned /\ r \in ToSet(rendered))
      => r \in archive

Stage == [r \in Recordings |->
            CASE result[r] = "none" -> "waiting"
              [] result[r] = "audio_ready" -> "ready"
              [] result[r] \in {"starting", "playing"} -> "taken"
              [] OTHER -> "settled"]

Abstract == INSTANCE Narration WITH stage <- Stage

\* The files implement the abstract narration: what is settled stays settled, whichever late
\* player, recovery or monitor writes next, and only a taken recording is given back.
ImplementsNarration == Abstract!NarrationSpec

\* Claims that a death left on a recording whose result still says that it is ready.
Orphans == {r \in claims : result[r] = "audio_ready"}

\* Every request is settled in the end, through outages, later lines that forget it, and deaths
\* of the cockpit that leave it starting or playing, unless an orphaned claim is in the way.
RequestsAreSettled ==
  \A r \in Recordings : r \in asked ~> result[r] \in Settled \/ Orphans # {}

-----------------------------------------------------------------------------
(* What the repository says of the program and the program does not do.    *)

\* docs/VOICE.md:93: "Partial requests and interrupted playback state receive shorter recovery
\* windows."  A cockpit that dies between the claim and the new status leaves a ready recording
\* claimed by nobody.  Recovery looks at starting and playing results only, so the claim stays;
\* and as the oldest ready request it also keeps every later one from being picked.
InterruptedIsRecovered ==
  \A r \in Recordings : r \in Orphans ~> r \notin Orphans
=============================================================================
