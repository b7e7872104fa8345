----------------------------- MODULE AudioProofs -----------------------------
(***************************************************************************)
(* The voice of the cockpit, for any recordings, limits, outages and       *)
(* deaths.  Every handler ends with Tick, so one lemma says what Tick does *)
(* to the files: it gives back recordings that no player of this cockpit   *)
(* holds, and starts or rejects one that is ready.  A player then holds    *)
(* its claim because its result is neither ready nor old while it starts,  *)
(* and recovery spares what it plays; and pruning keeps what was rendered  *)
(* after its look at the results, because that is at most what the limit   *)
(* spares.                                                                 *)
(***************************************************************************)
EXTENDS AudioBridge, TLAPS, FiniteSetTheorems, WellFoundedInduction

Unheard == {"audio_ready", "starting", "playing"}

\* Players that need their claim: PlayerCloses gives it back only after the last status.
Holders == {"scheduled", "spawning", "playing", "terminated", "stopping", "aborting"}

\* Players that sound, or will.
Voices == {"scheduled", "spawning", "playing", "terminated"}

\* Only what was asked for has a result, only what was rendered has one to be heard.
ResultsAreAskedFor ==
  /\ \A r \in Recordings : result[r] # "none" => r \in asked
  /\ \A r \in Recordings : result[r] \in Unheard => r \in ToSet(rendered)
  /\ \A i \in 1..Len(rendered) : result[rendered[i]] # "none"
  /\ archive \subseteq ToSet(rendered)

\* A result that is old enough to be given back is that of a player that has started, or of none.
AgedIsTaken ==
  \A r \in aged : /\ result[r] \in {"starting", "playing"}
                  /\ player[r] \notin {"scheduled", "spawning", "aborting", "closing"}

HoldersAreKnown ==
  \A r \in Recordings :
    player[r] \in Holders => r \in claims /\ result[r] \in {"starting", "playing"}

OneVoice == \A r, s \in Recordings : player[r] \in Voices /\ player[s] \in Voices => r = s

\* What pruning protects is all that it could know of.
PruningIsInformed ==
  pruning # NotPruning =>
    /\ Pinned \subseteq pruning.protected
    /\ pruning.known <= Len(rendered) /\ Len(rendered) <= pruning.known + ArchiveLimit
    /\ \A i \in 1..pruning.known :
         result[rendered[i]] \in Unheard => rendered[i] \in pruning.protected

AudioIInv ==
  /\ AudioTypeOK
  /\ ResultsAreAskedFor /\ AgedIsTaken /\ HoldersAreKnown /\ OneVoice
  /\ PruningIsInformed /\ UnheardIsKept

(***************************************************************************)
(* Ages.                                                                   *)
(***************************************************************************)
LEMMA AgeIsAPlace ==
  ASSUME rendered \in Seq(Recordings), NEW r \in ToSet(rendered)
  PROVE  r \in Recordings /\ AgeOf(r) \in 1..Len(rendered) /\ rendered[AgeOf(r)] = r
<1>1. PICK i \in 1..Len(rendered) : rendered[i] = r
  BY DEF ToSet
<1>2. AgeOf(r) \in 1..Len(rendered) /\ rendered[AgeOf(r)] = r
  BY <1>1 DEF AgeOf
<1>3. QED
  BY <1>2

\* A set of numbers has a least one, as the finite sets 1..n of them are well founded.
LEMMA LeastNumber ==
  ASSUME NEW set, set \subseteq Nat, set # {}
  PROVE  \E a \in set : \A b \in set : a <= b
<1> DEFINE upto == {1..n : n \in set}
<1>1. IsWellFoundedOn(StrictSubsetOrdering(Nat), FiniteSubsetsOf(Nat))
  BY FS_StrictSubsetOrderingWellFounded
<1>2. \A n \in set : 1..n \in FiniteSubsetsOf(Nat)
  BY FS_Interval DEF FiniteSubsetsOf
<1>3. upto \subseteq FiniteSubsetsOf(Nat) /\ upto # {}
  BY <1>2
<1>4. PICK least \in upto : \A other \in upto : <<other, least>> \notin StrictSubsetOrdering(Nat)
  <2> HIDE DEF upto
  <2>1. QED
    BY <1>1, <1>3, WFMin
<1>5. PICK a \in set : least = 1..a
  OBVIOUS
<1>6. \A b \in set : a <= b
  <2> SUFFICES ASSUME NEW b \in set, b < a PROVE FALSE
    OBVIOUS
  <2>1. a \in Nat /\ b \in Nat
    OBVIOUS
  <2>2. 1..b \subseteq 1..a /\ a \in 1..a /\ a \notin 1..b
    BY <2>1
  <2>3. 1..b \in SUBSET Nat /\ 1..a \in SUBSET Nat
    BY <2>1
  <2>4. <<1..b, 1..a>> \in StrictSubsetOrdering(Nat)
    BY <2>2, <2>3 DEF StrictSubsetOrdering
  <2>5. QED
    BY <1>4, <1>5, <2>4
<1>7. QED
  BY <1>6

\* Some recording of a set of rendered ones is the oldest.
LEMMA OldestIsThere ==
  ASSUME rendered \in Seq(Recordings), NEW set, set \subseteq ToSet(rendered), set # {}
  PROVE  Oldest(set) \in set
<1> DEFINE ages == {AgeOf(r) : r \in set}
<1>1. ages \subseteq Nat /\ ages # {}
  BY AgeIsAPlace
<1>2. PICK a \in ages : \A b \in ages : a <= b
  <2> HIDE DEF ages
  <2>1. QED
    BY <1>1, LeastNumber
<1>3. \E r \in set : \A s \in set : AgeOf(r) <= AgeOf(s)
  BY <1>2
<1>4. QED
  BY <1>3 DEF Oldest

(***************************************************************************)
(* The end of a handler.                                                   *)
(***************************************************************************)
\* The recordings returned wait again, and one that is ready is started, or rejected, or neither.
Ticks(returned, chosen, move, tasks) ==
  /\ move # "none" =>
       chosen \in Recordings /\ (result[chosen] = "audio_ready" \/ chosen \in returned)
  /\ result' = [r \in Recordings |->
                  IF r = chosen /\ move = "start" THEN "starting"
                  ELSE IF r = chosen /\ move = "fail" THEN "failed"
                  ELSE IF r \in returned THEN "audio_ready" ELSE result[r]]
  /\ claims' = (claims \ returned) \cup (IF move = "start" THEN {chosen} ELSE {})
  /\ aged' = aged \ returned
  /\ player' = IF move = "start" THEN Exclusively(chosen, tasks) ELSE tasks
  /\ voice' \in asked \cup {NoRecording} /\ active' \in BOOLEAN

LEMMA TickEffect ==
  ASSUME AudioTypeOK, ResultsAreAskedFor,
         NEW v \in asked \cup {NoRecording}, NEW a \in BOOLEAN, NEW tasks, NEW wavs,
         Tick(v, a, tasks, wavs)
  PROVE  \E returned \in SUBSET Stale, chosen \in asked \cup {NoRecording},
            move \in {"none", "start", "fail"} : Ticks(returned, chosen, move, tasks)
<1> DEFINE picks    == online /\ v = NoRecording /\ ~a
           returned == IF picks THEN Stale ELSE {}
           files    == [r \in Recordings |-> IF r \in returned THEN "audio_ready" ELSE result[r]]
           held     == claims \ returned
           ready    == {r \in Recordings : files[r] = "audio_ready"}
           chosen   == IF picks THEN Oldest(ready) ELSE v
           status   == IF chosen = NoRecording \/ ~online THEN "none" ELSE files[chosen]
           valid    == IsValid(chosen, wavs)
           starts   == status = "audio_ready" /\ ~a /\ valid /\ chosen \notin held
           fails    == status = "audio_ready" /\ ~a /\ ~valid
           move     == IF fails THEN "fail" ELSE IF starts THEN "start" ELSE "none"
<1>1. /\ result' = IF fails THEN [files EXCEPT ![chosen] = "failed"]
                   ELSE IF starts THEN [files EXCEPT ![chosen] = "starting"] ELSE files
      /\ claims' = IF starts THEN held \cup {chosen} ELSE held
      /\ aged' = aged \ returned
      /\ voice' = IF status \in Settled THEN NoRecording ELSE chosen
      /\ active' = IF status \in Settled THEN FALSE ELSE a \/ starts
      /\ player' = IF starts THEN Exclusively(chosen, tasks) ELSE tasks
  BY DEF Tick
<1>2. returned \in SUBSET Stale /\ Stale \subseteq Recordings
  BY DEF Stale, AudioTypeOK
<1>3. ready \subseteq ToSet(rendered) /\ ready \subseteq asked
  <2> SUFFICES ASSUME NEW r \in Recordings, files[r] = "audio_ready"
               PROVE  r \in ToSet(rendered) /\ r \in asked
    OBVIOUS
  <2>1. result[r] \in Unheard
    BY <1>2 DEF Stale, Unheard
  <2>2. QED
    BY <2>1 DEF ResultsAreAskedFor, Unheard
<1>4. chosen \in asked \cup {NoRecording}
  <2> HIDE DEF ready
  <2>1. Oldest(ready) \in ready \cup {NoRecording}
    <3>1. CASE ready = {}
      BY <3>1 DEF Oldest
    <3>2. CASE ready # {}
      BY <1>3, <3>2, OldestIsThere DEF AudioTypeOK
    <3>3. QED
      BY <3>1, <3>2
  <2>2. QED
    BY <1>3, <2>1
<1> HIDE DEF chosen
<1>5. move # "none" =>
        chosen \in Recordings /\ (result[chosen] = "audio_ready" \/ chosen \in returned)
  BY <1>4 DEF AudioTypeOK
<1>6. result' = [r \in Recordings |->
                  IF r = chosen /\ move = "start" THEN "starting"
                  ELSE IF r = chosen /\ move = "fail" THEN "failed"
                  ELSE IF r \in returned THEN "audio_ready" ELSE result[r]]
  BY <1>1
<1>7. voice' \in asked \cup {NoRecording} /\ active' \in BOOLEAN
  BY <1>1, <1>4
<1>8. Ticks(returned, chosen, move, tasks)
  BY <1>1, <1>5, <1>6, <1>7 DEF Ticks
<1>9. move \in {"none", "start", "fail"}
  OBVIOUS
<1>10. QED
  BY <1>2, <1>4, <1>8, <1>9

\* What a handler does to its players and the archive before its Tick loses nothing.
LEMMA TickKeeps ==
  ASSUME AudioIInv, pruning' = NotPruning,
         NEW v \in asked \cup {NoRecording}, NEW a \in BOOLEAN, NEW tasks \in [Recordings -> Players],
         \A r \in Recordings : tasks[r] \in {player[r], "none"},
         Tick(v, a, tasks, archive'),
         archive' \subseteq archive,
         \A r \in archive \ archive' : result[r] \notin Unheard /\ r \notin Pinned,
         UNCHANGED <<rendered, intact, asked>>,
         online' \in BOOLEAN, speakable' \in BOOLEAN, busy' \in BOOLEAN
  PROVE  AudioIInv'
<1>1. PICK returned \in SUBSET Stale, chosen \in asked \cup {NoRecording},
           move \in {"none", "start", "fail"} : Ticks(returned, chosen, move, tasks)
  BY TickEffect DEF AudioIInv
<1> USE AudioAssumption DEF AudioIInv, AudioTypeOK
<1>2. ASSUME NEW r \in returned
      PROVE  /\ r \in aged /\ result[r] \in {"starting", "playing"}
             /\ player[r] \notin Holders \cup {"closing"}
  BY DEF Stale, ActivePlayers, AgedIsTaken, Holders, Players
<1>3. ASSUME NEW r \in Recordings, r = chosen, move # "none"
      PROVE  player[r] \notin Holders /\ r \notin aged'
  BY <1>1, <1>2, <1>3 DEF Ticks, HoldersAreKnown, AgedIsTaken
<1>4. ASSUME NEW r \in Recordings, ~(r = chosen /\ move # "none")
      PROVE  /\ result'[r] = IF r \in returned THEN "audio_ready" ELSE result[r]
             /\ r \in claims' <=> r \in claims \ returned
             /\ player'[r] \in {player[r], "none", "aborting", "stopping"}
             /\ player'[r] = "aborting" => player[r] \in {"spawning", "aborting"}
             /\ player'[r] = "stopping" => player[r] \in Holders \ {"scheduled", "spawning", "aborting"}
  BY <1>1, <1>4 DEF Ticks, Exclusively, Holders
<1>5. ASSUME NEW r \in Recordings, r = chosen, move = "start"
      PROVE  result'[r] = "starting" /\ r \in claims' /\ player'[r] = "scheduled"
  <2>1. result'[r] = "starting" /\ r \in claims' /\ player' = Exclusively(r, tasks)
    BY <1>1, <1>5 DEF Ticks
  <2>2. QED
    BY <2>1 DEF Exclusively
<1>6. ASSUME NEW r \in Recordings, r = chosen, move = "fail"
      PROVE  result'[r] = "failed" /\ player'[r] \in {player[r], "none"}
  BY <1>1, <1>6 DEF Ticks
<1>7. AudioTypeOK'
  <2>1. result' \in [Recordings -> Statuses]
    BY <1>1 DEF Ticks, Statuses
  <2>2. player' \in [Recordings -> Players]
    BY <1>1 DEF Ticks, Exclusively, Players
  <2>3. claims' \subseteq asked /\ aged' \subseteq asked
    <3>1. move = "start" => chosen \in asked
      BY <1>1 DEF Ticks
    <3>2. QED
      BY <1>1, <3>1 DEF Ticks
  <2>4. pruning' \in [by : Recordings \cup {NoRecording}, protected : SUBSET Recordings, known : Nat]
    BY DEF NotPruning
  <2>5. voice' \in asked \cup {NoRecording} /\ active' \in BOOLEAN
    BY <1>1 DEF Ticks
  <2>6. QED
    BY <2>1, <2>2, <2>3, <2>4, <2>5
<1>8. ASSUME NEW r \in Recordings
      PROVE  /\ result[r] # "none" <=> result'[r] # "none"
             /\ result'[r] \in Unheard => result[r] \in Unheard
  BY <1>1, <1>2, <1>4, <1>5, <1>6 DEF Ticks, Unheard
<1>9. ResultsAreAskedFor' /\ UnheardIsKept'
  <2>1. \A i \in 1..Len(rendered) : rendered[i] \in Recordings
    OBVIOUS
  <2>2. ToSet(rendered)' = ToSet(rendered)
    BY DEF ToSet
  <2>3. QED
    BY <1>8, <2>1, <2>2 DEF ResultsAreAskedFor, UnheardIsKept, Unheard
<1>10. AgedIsTaken'
  <2> SUFFICES ASSUME NEW r \in aged'
               PROVE  /\ result'[r] \in {"starting", "playing"}
                      /\ player'[r] \notin {"scheduled", "spawning", "aborting", "closing"}
    BY DEF AgedIsTaken
  <2>1. r \in aged /\ r \notin returned /\ r \in Recordings
    BY <1>1 DEF Ticks
  <2>2. ~(r = chosen /\ move # "none")
    BY <1>3, <2>1
  <2>3. QED
    BY <1>4, <2>1, <2>2 DEF AgedIsTaken, Holders
<1>11. HoldersAreKnown'
  <2> SUFFICES ASSUME NEW r \in Recordings, player'[r] \in Holders
               PROVE  r \in claims' /\ result'[r] \in {"starting", "playing"}
    BY DEF HoldersAreKnown
  <2>1. CASE r = chosen /\ move = "start"
    BY <1>5, <2>1
  <2>2. ~(r = chosen /\ move = "fail")
    BY <1>3, <1>6 DEF Holders
  <2>3. CASE ~(r = chosen /\ move # "none")
    <3>1. player[r] \in Holders
      BY <1>4, <2>3 DEF Holders
    <3>2. r \notin returned
      BY <1>2, <3>1
    <3>3. QED
      BY <1>4, <2>3, <3>1, <3>2 DEF HoldersAreKnown
  <2>4. QED
    BY <2>1, <2>2, <2>3
<1>12. OneVoice'
  <2> SUFFICES ASSUME NEW r \in Recordings, NEW s \in Recordings,
                      player'[r] \in Voices, player'[s] \in Voices
               PROVE  r = s
    BY DEF OneVoice
  <2>1. CASE move = "start"
    BY <1>1, <2>1 DEF Ticks, Exclusively, Voices, Players
  <2>2. CASE move # "start"
    BY <1>1, <2>2 DEF Ticks, OneVoice, Voices
  <2>3. QED
    BY <2>1, <2>2
<1>13. PruningIsInformed'
  BY DEF PruningIsInformed, NotPruning
<1>14. QED
  BY <1>7, <1>9, <1>10, <1>11, <1>12, <1>13

(***************************************************************************)
(* The steps.                                                              *)
(***************************************************************************)
LEMMA AudioInitInv == AudioInit => AudioIInv
<1> SUFFICES ASSUME AudioInit PROVE AudioIInv
  OBVIOUS
<1> USE AudioAssumption DEF AudioInit
<1>1. AudioTypeOK
  <2>1. rendered \in Seq(Recordings) /\ 0 \in Nat
    OBVIOUS
  <2>2. pruning \in [by : Recordings \cup {NoRecording}, protected : SUBSET Recordings, known : Nat]
    BY DEF NotPruning
  <2>3. result \in [Recordings -> Statuses] /\ player \in [Recordings -> Players]
    BY DEF Statuses, Players
  <2>4. QED
    BY <2>1, <2>2, <2>3 DEF AudioTypeOK
<1>2. ResultsAreAskedFor /\ UnheardIsKept
  BY DEF ResultsAreAskedFor, UnheardIsKept, Unheard, ToSet
<1>3. AgedIsTaken /\ HoldersAreKnown /\ OneVoice /\ PruningIsInformed
  BY DEF AgedIsTaken, HoldersAreKnown, OneVoice, PruningIsInformed, Holders, Voices
<1>4. QED
  BY <1>1, <1>2, <1>3 DEF AudioIInv

\* A recording that is rendered is the newest, and none that pruning knows of.
LEMMA RenderInv ==
  ASSUME AudioIInv, NEW r \in Recordings, Render(r) PROVE AudioIInv'
<1> USE DEF AudioIInv, AudioTypeOK
<1>0. /\ r \in asked /\ result[r] = "none"
      /\ UNCHANGED <<claims, aged, asked, online, voice, active, player, speakable, busy, pruning>>
  BY DEF Render, voiceVars
<1>1. \A s \in Recordings : s # r => result'[s] = result[s]
  BY DEF Render
<1>2. AgedIsTaken' /\ HoldersAreKnown' /\ OneVoice'
  BY <1>0, <1>1 DEF AgedIsTaken, HoldersAreKnown, OneVoice, Holders
<1>3. CASE result'[r] = "failed"
  <2>1. UNCHANGED <<rendered, archive, intact>> /\ result' = [result EXCEPT ![r] = "failed"]
    BY <1>3 DEF Render
  <2>2. ToSet(rendered)' = ToSet(rendered)
    BY <2>1 DEF ToSet
  <2>3. \A i \in 1..Len(rendered) : rendered[i] \in Recordings /\ rendered[i] # r
    BY <1>0 DEF ResultsAreAskedFor
  <2>4. AudioTypeOK'
    BY <1>0, <2>1 DEF Statuses
  <2>5. ResultsAreAskedFor' /\ UnheardIsKept'
    BY <1>0, <1>1, <1>3, <2>1, <2>2 DEF ResultsAreAskedFor, UnheardIsKept, Unheard
  <2>6. PruningIsInformed'
    BY <1>0, <1>1, <2>1, <2>3 DEF PruningIsInformed
  <2>7. QED
    BY <1>2, <2>4, <2>5, <2>6
<1>4. CASE result'[r] # "failed"
  <2>1. /\ result' = [result EXCEPT ![r] = "audio_ready"]
        /\ rendered' = Append(rendered, r) /\ archive' = archive \cup {r}
        /\ intact' \in {intact, intact \cup {r}}
        /\ KeepsPace
    BY <1>4 DEF Render
  <2>2. /\ Len(rendered) \in Nat /\ Len(rendered') = Len(rendered) + 1
        /\ rendered' \in Seq(Recordings) /\ rendered'[Len(rendered) + 1] = r
        /\ \A i \in 1..Len(rendered) : rendered'[i] = rendered[i]
    BY <2>1
  <2>3. ToSet(rendered)' = ToSet(rendered) \cup {r}
    BY <2>2 DEF ToSet
  <2>4. \A i \in 1..Len(rendered) : rendered[i] \in Recordings /\ rendered[i] # r
    BY <1>0 DEF ResultsAreAskedFor
  <2>5. AudioTypeOK'
    BY <1>0, <2>1, <2>2 DEF Statuses
  <2>6. ResultsAreAskedFor'
    BY <1>0, <1>1, <2>1, <2>2, <2>3, <2>4 DEF ResultsAreAskedFor
  <2>7. UnheardIsKept'
    BY <1>1, <2>1, <2>3 DEF UnheardIsKept
  <2>8. PruningIsInformed'
    <3> SUFFICES ASSUME pruning # NotPruning PROVE PruningIsInformed'
      BY <1>0 DEF PruningIsInformed
    <3>1. Len(rendered) < pruning.known + ArchiveLimit
      BY <2>1 DEF KeepsPace
    <3>2. pruning.known <= Len(rendered) /\ pruning.known \in Nat
      BY DEF PruningIsInformed
    <3>3. \A i \in 1..pruning.known : i \in 1..Len(rendered)
      BY <2>2, <3>2
    <3>4. QED
      <4>1. pruning' = pruning /\ pruning.known <= Len(rendered') /\ Len(rendered') <= pruning.known + ArchiveLimit
        BY <1>0, <2>2, <3>1, <3>2, AudioAssumption
      <4>2. ASSUME NEW i \in 1..pruning.known, result'[rendered'[i]] \in Unheard
            PROVE  rendered'[i] \in pruning.protected
        <5>1. rendered'[i] = rendered[i] /\ result'[rendered[i]] = result[rendered[i]]
          BY <1>1, <2>2, <2>4, <3>3
        <5>2. QED
          BY <4>2, <5>1 DEF PruningIsInformed
      <4>3. QED
        BY <4>1, <4>2 DEF PruningIsInformed
  <2>9. QED
    BY <1>2, <2>5, <2>6, <2>7, <2>8
<1>5. QED
  BY <1>3, <1>4

\* The players' own steps change one recording.
LEMMA PlayerInv ==
  ASSUME AudioIInv, NEW r \in Recordings,
         PlayerStarts(r) \/ PlayerRegisters(r) \/ PlayerEnds(r) \/ PlayerCloses(r)
  PROVE  AudioIInv'
<1> USE DEF AudioIInv, AudioTypeOK, fileVars, voiceVars, boundVars
<1>0. UNCHANGED <<rendered, archive, intact, asked>> /\ ToSet(rendered)' = ToSet(rendered)
  BY DEF PlayerStarts, PlayerRegisters, PlayerEnds, PlayerCloses, ToSet
<1>1. CASE PlayerStarts(r)
  BY <1>0, <1>1 DEF PlayerStarts, Players, ResultsAreAskedFor, AgedIsTaken, HoldersAreKnown, OneVoice,
     PruningIsInformed, UnheardIsKept, Holders, Voices
<1>2. CASE PlayerRegisters(r)
  <2>1. result[r] \in {"starting", "playing"} /\ r \in claims
    BY <1>2 DEF PlayerRegisters, HoldersAreKnown, Holders
  <2>2. pruning = NotPruning /\ pruning' = pruning
    BY <1>2 DEF PlayerRegisters, LoopFree
  <2>3. AudioTypeOK' /\ PruningIsInformed'
    BY <1>0, <1>2, <2>2 DEF PlayerRegisters, Statuses, Players, PruningIsInformed
  <2>4. ResultsAreAskedFor' /\ UnheardIsKept'
    BY <1>0, <1>2, <2>1 DEF PlayerRegisters, ResultsAreAskedFor, UnheardIsKept, Unheard
  <2>5. AgedIsTaken' /\ HoldersAreKnown' /\ OneVoice'
    BY <1>2, <2>1 DEF PlayerRegisters, AgedIsTaken, HoldersAreKnown, OneVoice, Holders, Voices
  <2>6. QED
    BY <2>3, <2>4, <2>5
<1>3. CASE PlayerEnds(r)
  <2>1. /\ player[r] \in Holders \ {"scheduled"}
        /\ result[r] \in {"starting", "playing"}
    BY <1>3 DEF PlayerEnds, Outcomes, HoldersAreKnown, Holders, Players
  <2>2. PICK outcome \in {"completed", "failed", "cancelled"} : result' = [result EXCEPT ![r] = outcome]
    BY <1>3 DEF PlayerEnds, Outcomes
  <2>3. pruning = NotPruning /\ pruning' = pruning
    BY <1>3 DEF PlayerEnds, LoopFree
  <2>4. AudioTypeOK' /\ PruningIsInformed'
    BY <1>0, <1>3, <2>2, <2>3 DEF PlayerEnds, Statuses, Players, PruningIsInformed
  <2>5. ResultsAreAskedFor' /\ UnheardIsKept'
    BY <1>0, <2>1, <2>2 DEF ResultsAreAskedFor, UnheardIsKept, Unheard
  <2>6. AgedIsTaken' /\ HoldersAreKnown' /\ OneVoice'
    BY <1>3, <2>2 DEF PlayerEnds, AgedIsTaken, HoldersAreKnown, OneVoice, Holders, Voices
  <2>7. QED
    BY <2>4, <2>5, <2>6
<1>4. CASE PlayerCloses(r)
  <2>1. /\ player[r] = "closing" /\ claims' = claims \ {r}
        /\ pruning' = [by |-> r, protected |-> Protected, known |-> Len(rendered)]
        /\ UNCHANGED <<result, aged, online, voice, active, player, speakable, busy>>
    BY <1>4 DEF PlayerCloses
  <2>2. Protected \subseteq Recordings /\ Len(rendered) \in Nat
    BY AudioAssumption DEF Protected
  <2>3. AudioTypeOK'
    BY <1>0, <2>1, <2>2
  <2>4. ResultsAreAskedFor' /\ UnheardIsKept' /\ AgedIsTaken' /\ HoldersAreKnown' /\ OneVoice'
    BY <1>0, <2>1 DEF ResultsAreAskedFor, UnheardIsKept, AgedIsTaken, HoldersAreKnown, OneVoice, Holders
  <2>5. \A i \in 1..Len(rendered) : rendered[i] \in Recordings
    OBVIOUS
  <2>6. PruningIsInformed'
    BY <1>0, <2>1, <2>2, <2>5, AudioAssumption DEF PruningIsInformed, Protected, Unheard
  <2>7. QED
    BY <2>3, <2>4, <2>6
<1>5. QED
  BY <1>1, <1>2, <1>3, <1>4

\* What pruning deletes has been heard, and is not pinned: of what it did not know of, too few are
\* newer.
LEMMA OverflowIsHeard ==
  ASSUME AudioIInv, pruning # NotPruning, NEW r \in Overflow
  PROVE  r \in archive /\ result[r] \notin Unheard /\ r \notin Pinned
<1> USE DEF AudioIInv, AudioTypeOK
<1>1. r \in archive /\ r \notin pruning.protected /\ r \in Recordings /\ r \in ToSet(rendered)
  BY DEF Overflow, Candidates, ResultsAreAskedFor
<1>2. r \notin Pinned
  BY <1>1 DEF PruningIsInformed
<1>3. result[r] \notin Unheard
  <2> SUFFICES ASSUME result[r] \in Unheard PROVE FALSE
    OBVIOUS
  <2> DEFINE newer == {s \in Candidates : AgeOf(s) > AgeOf(r)}
             places == AgeOf(r) + 1..Len(rendered)
             place == [s \in newer |-> AgeOf(s)]
  <2>1. \A s \in newer : AgeOf(s) \in 1..Len(rendered) /\ rendered[AgeOf(s)] = s /\ AgeOf(s) > AgeOf(r)
    BY AgeIsAPlace DEF Candidates, ResultsAreAskedFor
  <2>2. AgeOf(r) \in 1..Len(rendered) /\ rendered[AgeOf(r)] = r /\ Len(rendered) \in Nat
    BY <1>1, AgeIsAPlace
  <2>3. Cardinality(newer) >= ArchiveLimit
    BY DEF Overflow
  <2> HIDE DEF newer
  <2>4. place \in Injection(newer, places)
    <3>1. place \in [newer -> places]
      BY <2>1, <2>2
    <3>2. \A s, t \in newer : place[s] = place[t] => s = t
      BY <2>1
    <3>3. QED
      BY <3>1, <3>2 DEF Injection, IsInjective
  <2>5. IsFiniteSet(places) /\ Cardinality(places) = Len(rendered) - AgeOf(r)
    <3>1. AgeOf(r) + 1 \in Int /\ Len(rendered) \in Int /\ AgeOf(r) <= Len(rendered)
      BY <2>2
    <3>2. /\ IsFiniteSet(places)
          /\ Cardinality(places) = IF AgeOf(r) + 1 > Len(rendered) THEN 0
                                   ELSE Len(rendered) - (AgeOf(r) + 1) + 1
      BY <3>1, FS_Interval
    <3>3. QED
      BY <2>2, <3>1, <3>2
  <2>6. Cardinality(newer) <= Len(rendered) - AgeOf(r) /\ Cardinality(newer) \in Nat
    BY <2>4, <2>5, FS_Injection, FS_CardinalityType
  <2>7. AgeOf(r) > pruning.known
    <3>1. pruning.known \in Nat
      OBVIOUS
    <3>2. CASE AgeOf(r) \in 1..pruning.known
      <4>1. rendered[AgeOf(r)] \in pruning.protected
        BY <2>2, <3>2 DEF PruningIsInformed
      <4>2. QED
        BY <1>1, <2>2, <4>1
    <3>3. QED
      BY <2>2, <3>1, <3>2
  <2>8. Len(rendered) <= pruning.known + ArchiveLimit /\ pruning.known \in Nat
    BY DEF PruningIsInformed
  <2>9. QED
    BY <2>2, <2>3, <2>6, <2>7, <2>8, AudioAssumption
<1>4. QED
  BY <1>1, <1>2, <1>3

LEMMA HandlerInv ==
  ASSUME AudioIInv, Monitor \/ SubmitLine \/ TurnEnds \/ Prune PROVE AudioIInv'
<1>1. /\ online \in BOOLEAN /\ busy \in BOOLEAN /\ speakable \in BOOLEAN /\ active \in BOOLEAN
      /\ voice \in asked \cup {NoRecording} /\ player \in [Recordings -> Players]
  BY DEF AudioIInv, AudioTypeOK
<1>2. ASSUME Monitor \/ SubmitLine \/ TurnEnds PROVE AudioIInv'
  <2>1. /\ pruning' = NotPruning /\ archive' = archive
        /\ UNCHANGED <<rendered, intact, asked>>
        /\ online' \in BOOLEAN /\ speakable' \in BOOLEAN /\ busy' \in BOOLEAN
    BY <1>1, <1>2 DEF Monitor, SubmitLine, TurnEnds, LoopFree
  <2>2. \E v \in {voice, NoRecording} : Tick(v, active, player, archive')
    BY <1>2, <2>1 DEF Monitor, SubmitLine, TurnEnds
  <2>3. QED
    BY <1>1, <2>1, <2>2, TickKeeps
<1>3. CASE Prune
  <2> DEFINE tasks == [player EXCEPT ![pruning.by] = "none"]
  <2>1. tasks \in [Recordings -> Players] /\ \A r \in Recordings : tasks[r] \in {player[r], "none"}
    BY <1>1 DEF Players
  <2>2. /\ pruning # NotPruning /\ pruning' = NotPruning /\ archive' = archive \ Overflow
        /\ UNCHANGED <<rendered, intact, asked>>
        /\ online' \in BOOLEAN /\ speakable' \in BOOLEAN /\ busy' \in BOOLEAN
        /\ Tick(voice, FALSE, tasks, archive')
    BY <1>1, <1>3 DEF Prune
  <2>3. \A r \in archive \ archive' : result[r] \notin Unheard /\ r \notin Pinned
    BY <2>2, OverflowIsHeard
  <2> HIDE DEF tasks
  <2>4. QED
    BY <1>1, <2>1, <2>2, <2>3, TickKeeps
<1>4. QED
  BY <1>2, <1>3

LEMMA OtherInv ==
  ASSUME AudioIInv,
         \/ QueueVoice \/ CancelKey \/ HeartbeatStops \/ HeartbeatReturns
         \/ (\E r \in Recordings : TimePasses(r)) \/ Dies \/ DiesClaiming
         \/ UNCHANGED audioVars
  PROVE  AudioIInv'
<1> USE DEF AudioIInv, AudioTypeOK, fileVars, voiceVars, boundVars
<1>0. /\ UNCHANGED <<result, rendered, archive, intact>> /\ ToSet(rendered)' = ToSet(rendered)
      /\ asked \subseteq asked' /\ asked' \subseteq Recordings
  BY DEF QueueVoice, CancelKey, HeartbeatStops, HeartbeatReturns, TimePasses, Dies, DiesClaiming,
     CockpitRestarts, audioVars, ToSet
<1>1. ResultsAreAskedFor' /\ UnheardIsKept'
  BY <1>0 DEF ResultsAreAskedFor, UnheardIsKept
<1>2. CASE QueueVoice
  <2>1. PICK r \in Recordings : asked' = asked \cup {r} /\ voice' = r
    BY <1>2 DEF QueueVoice
  <2>2. QED
    BY <1>0, <1>1, <1>2, <2>1 DEF QueueVoice, AgedIsTaken, HoldersAreKnown, OneVoice, PruningIsInformed
<1>3. CASE CancelKey
  <2>1. voice \in Recordings /\ player[voice] = "playing" /\ player' = [player EXCEPT ![voice] = "terminated"]
    BY <1>3 DEF CancelKey
  <2>2. AgedIsTaken' /\ HoldersAreKnown' /\ OneVoice'
    BY <1>3, <2>1 DEF CancelKey, AgedIsTaken, HoldersAreKnown, OneVoice, Holders, Voices
  <2>3. QED
    BY <1>0, <1>1, <1>3, <2>1, <2>2 DEF CancelKey, PruningIsInformed, Players
<1>4. CASE HeartbeatStops \/ HeartbeatReturns \/ UNCHANGED audioVars
  BY <1>0, <1>1, <1>4 DEF HeartbeatStops, HeartbeatReturns, audioVars, AgedIsTaken, HoldersAreKnown,
     OneVoice, PruningIsInformed
<1>5. ASSUME NEW r \in Recordings, TimePasses(r) PROVE AudioIInv'
  BY <1>0, <1>1, <1>5 DEF TimePasses, ResultsAreAskedFor, AgedIsTaken, HoldersAreKnown, OneVoice,
     PruningIsInformed
<1>6. CASE Dies \/ DiesClaiming
  <2>1. /\ claims' \subseteq asked /\ UNCHANGED <<aged, asked, online>>
        /\ voice' = NoRecording /\ active' = FALSE /\ speakable' = FALSE /\ busy' = FALSE
        /\ player' = [r \in Recordings |-> "none"] /\ pruning' = NotPruning
    BY <1>6 DEF Dies, DiesClaiming, CockpitRestarts
  <2>2. pruning' \in [by : Recordings \cup {NoRecording}, protected : SUBSET Recordings, known : Nat]
    BY <2>1 DEF NotPruning
  <2>3. AgedIsTaken' /\ HoldersAreKnown' /\ OneVoice' /\ PruningIsInformed'
    BY <1>0, <2>1 DEF AgedIsTaken, HoldersAreKnown, OneVoice, PruningIsInformed, Holders, Voices
  <2>4. QED
    BY <1>0, <1>1, <2>1, <2>2, <2>3 DEF Players
<1>7. QED
  BY <1>2, <1>3, <1>4, <1>5, <1>6

LEMMA AudioStepInv == AudioIInv /\ [AudioNext]_audioVars => AudioIInv'
  BY RenderInv, PlayerInv, HandlerInv, OtherInv DEF AudioNext, CockpitStep, PlayerStep

LEMMA AudioInvariant == AudioSpec => []AudioIInv
  BY AudioInitInv, AudioStepInv, PTL DEF AudioSpec

(***************************************************************************)
(* What follows.                                                           *)
(***************************************************************************)
\* The variables of the voice have their types.
THEOREM AudioTypes == AudioSpec => []AudioTypeOK
<1>1. AudioIInv => AudioTypeOK
  BY DEF AudioIInv
<1>2. QED
  BY <1>1, AudioInvariant, PTL

\* Pruning deletes nothing that has yet to be played and no pinned recording, for any archive
\* limit and whatever is rendered while it runs, up to the limit (KeepsPace).
THEOREM UnheardRecordingsAreKept == AudioSpec => []UnheardIsKept
<1>1. AudioIInv => UnheardIsKept
  BY DEF AudioIInv
<1>2. QED
  BY <1>1, AudioInvariant, PTL

\* One narration sounds at a time, for any number of requests, later lines and cancellations.
THEOREM NarrationsDoNotOverlap == AudioSpec => []OneNarration
<1>1. AudioIInv => OneNarration
  <2> SUFFICES ASSUME OneVoice PROVE OneNarration
    BY DEF AudioIInv
  <2> DEFINE sounding == {r \in Recordings : player[r] \in {"scheduled", "spawning", "playing", "terminated"}}
  <2>1. \A r, s \in sounding : r = s
    BY DEF OneVoice, Voices
  <2>2. CASE sounding = {}
    BY <2>2, FS_EmptySet DEF OneNarration
  <2>3. CASE sounding # {}
    <3>1. PICK r : r \in sounding
      BY <2>3
    <3>2. sounding = {r}
      BY <2>1, <3>1
    <3>3. Cardinality(sounding) = 1
      BY <3>2, FS_Singleton
    <3>4. QED
      BY <3>3 DEF OneNarration
  <2>4. QED
    BY <2>2, <2>3
<1>2. QED
  BY <1>1, AudioInvariant, PTL

\* What Tick gives back or starts has no player that needs its claim.
LEMMA MovedAreFree ==
  ASSUME AudioIInv, NEW returned \in SUBSET Stale, NEW chosen, NEW move, NEW tasks,
         Ticks(returned, chosen, move, tasks)
  PROVE  /\ \A r \in returned : result[r] \in {"starting", "playing"} /\ player[r] \notin Holders
         /\ \A r \in Recordings : r = chosen /\ move # "none" =>
              (result[r] = "audio_ready" \/ r \in returned) /\ player[r] \notin Holders
<1>1. ASSUME NEW r \in returned
      PROVE  result[r] \in {"starting", "playing"} /\ player[r] \notin Holders
  BY DEF Stale, ActivePlayers, AudioIInv, AudioTypeOK, AgedIsTaken, Holders, Players
<1>2. QED
  BY <1>1 DEF Ticks, AudioIInv, HoldersAreKnown

\* A handler's end leaves a living player its claim, and starts none beside it.
LEMMA TickSpares ==
  ASSUME AudioIInv, NEW r \in Recordings, player[r] \in Holders \ {"scheduled"},
         NEW v \in asked \cup {NoRecording}, NEW a \in BOOLEAN, NEW tasks \in [Recordings -> Players],
         tasks[r] \in {player[r], "none"}, Tick(v, a, tasks, archive')
  PROVE  r \in claims' /\ player'[r] # "scheduled"
<1>1. r \in claims
  BY DEF AudioIInv, HoldersAreKnown
<1>2. PICK returned \in SUBSET Stale, chosen \in asked \cup {NoRecording},
           move \in {"none", "start", "fail"} : Ticks(returned, chosen, move, tasks)
  BY TickEffect DEF AudioIInv
<1>3. r \notin returned /\ ~(r = chosen /\ move = "start")
  BY <1>2, MovedAreFree
<1>4. r \in claims' /\ player'[r] = IF move = "start" THEN Exclusively(chosen, tasks)[r] ELSE tasks[r]
  BY <1>1, <1>2, <1>3 DEF Ticks
<1>5. QED
  BY <1>3, <1>4 DEF Exclusively

LEMMA LivingStep ==
  ASSUME AudioIInv, [AudioNext]_audioVars, NEW r \in Recordings, player[r] \in Holders \ {"scheduled"}
  PROVE  r \in claims' /\ player'[r] # "scheduled"
<1> USE DEF fileVars, voiceVars, boundVars
<1>1. r \in claims
  BY DEF AudioIInv, HoldersAreKnown
<1>3. CASE Monitor \/ SubmitLine \/ TurnEnds
  <2>1. /\ voice \in asked \cup {NoRecording} /\ active \in BOOLEAN
        /\ player \in [Recordings -> Players] /\ archive' = archive
    BY <1>3 DEF AudioIInv, AudioTypeOK, Monitor, SubmitLine, TurnEnds
  <2>2. \E v \in {voice, NoRecording} : Tick(v, active, player, archive')
    BY <1>3, <2>1 DEF Monitor, SubmitLine, TurnEnds
  <2>3. QED
    BY <2>1, <2>2, TickSpares
<1>4. CASE Prune
  <2> DEFINE tasks == [player EXCEPT ![pruning.by] = "none"]
  <2>1. voice \in asked \cup {NoRecording} /\ player \in [Recordings -> Players]
    BY DEF AudioIInv, AudioTypeOK
  <2>2. tasks \in [Recordings -> Players] /\ tasks[r] \in {player[r], "none"}
    BY <2>1 DEF Players
  <2>3. Tick(voice, FALSE, tasks, archive')
    BY <1>4 DEF Prune
  <2> HIDE DEF tasks
  <2>4. QED
    BY <2>1, <2>2, <2>3, TickSpares
<1>5. ASSUME NEW s \in Recordings,
             PlayerStarts(s) \/ PlayerRegisters(s) \/ PlayerEnds(s) \/ PlayerCloses(s) \/ TimePasses(s) \/ Render(s)
      PROVE  r \in claims' /\ player'[r] # "scheduled"
  BY <1>1, <1>5 DEF PlayerStarts, PlayerRegisters, PlayerEnds, PlayerCloses, TimePasses, Render, AudioIInv,
     AudioTypeOK, Holders
<1>6. CASE CancelKey
  BY <1>1, <1>6 DEF CancelKey, AudioIInv, AudioTypeOK
<1>7. CASE QueueVoice \/ HeartbeatStops \/ HeartbeatReturns \/ UNCHANGED audioVars
  BY <1>1, <1>7 DEF QueueVoice, HeartbeatStops, HeartbeatReturns, audioVars
<1>8. CASE Dies \/ DiesClaiming
  BY <1>1, <1>8 DEF Dies, DiesClaiming, CockpitRestarts
<1>9. QED
  BY <1>3, <1>4, <1>5, <1>6, <1>7, <1>8 DEF AudioNext, CockpitStep, PlayerStep

\* A player that lives keeps its claim and is not started a second time: neither recovery nor the
\* monitor mistakes a long narration for an interrupted one.
THEOREM LivingPlayersKeepTheirClaims == AudioSpec => LivingPlayerKeepsItsClaim
<1> DEFINE Kept == \A r \in Recordings :
             player[r] \in {"spawning", "playing", "terminated", "stopping", "aborting"}
               => r \in claims' /\ player'[r] # "scheduled"
<1>1. AudioIInv /\ [AudioNext]_audioVars => [Kept]_audioVars
  BY LivingStep DEF Holders
<1>2. QED
  BY <1>1, AudioInvariant, PTL DEF AudioSpec, LivingPlayerKeepsItsClaim

(***************************************************************************)
(* The refinement of Narration.                                            *)
(***************************************************************************)
Stages == {"waiting", "ready", "taken", "settled"}

\* A step that moves every recording as it may and takes one at most is one of Narration.
LEMMA StageMoves ==
  ASSUME result' \in [Recordings -> Statuses],
         \A r \in Recordings : Stage'[r] # Stage[r] => <<Stage[r], Stage'[r]>> \in Abstract!Moves,
         NEW c, \A r \in Recordings : Stage[r] = "ready" /\ Stage'[r] = "taken" => r = c
  PROVE  Abstract!NarrationNext
<1>1. Stage' \in [Recordings -> Stages]
  BY DEF Stage, Stages
<1>2. QED
  BY <1>1 DEF Abstract!NarrationNext, Stages

LEMMA TickStages ==
  ASSUME AudioIInv, AudioIInv',
         NEW v \in asked \cup {NoRecording}, NEW a \in BOOLEAN, NEW tasks, NEW wavs,
         Tick(v, a, tasks, wavs)
  PROVE  Abstract!NarrationNext
<1>1. PICK returned \in SUBSET Stale, chosen \in asked \cup {NoRecording},
           move \in {"none", "start", "fail"} : Ticks(returned, chosen, move, tasks)
  BY TickEffect DEF AudioIInv
<1>2. result' \in [Recordings -> Statuses]
  BY DEF AudioIInv, AudioTypeOK
<1>3. ASSUME NEW r \in Recordings, ~(r = chosen /\ move # "none")
      PROVE  Stage'[r] = IF r \in returned THEN "ready" ELSE Stage[r]
  BY <1>1, <1>3 DEF Ticks, Stage
<1>4. ASSUME NEW r \in Recordings, r = chosen, move # "none"
      PROVE  /\ Stage[r] \in {"ready", "taken"}
             /\ Stage'[r] \in {"taken", "settled"}
  BY <1>1, <1>4, MovedAreFree DEF Ticks, Stage
<1>5. \A r \in returned : r \in Recordings /\ Stage[r] = "taken"
  BY <1>1, MovedAreFree DEF Stage, Stale, AudioIInv, AudioTypeOK
<1>6. \A r \in Recordings : Stage'[r] # Stage[r] => <<Stage[r], Stage'[r]>> \in Abstract!Moves
  BY <1>3, <1>4, <1>5 DEF Abstract!Moves
<1>7. \A r \in Recordings : Stage[r] = "ready" /\ Stage'[r] = "taken" => r = chosen
  BY <1>3, <1>5
<1>8. QED
  BY <1>2, <1>6, <1>7, StageMoves

LEMMA StageStep ==
  ASSUME AudioIInv, AudioIInv', [AudioNext]_audioVars
  PROVE  [Abstract!NarrationNext]_Stage
<1> USE DEF fileVars, voiceVars, boundVars
<1>1. voice \in asked \cup {NoRecording} /\ active \in BOOLEAN /\ result' \in [Recordings -> Statuses]
  BY DEF AudioIInv, AudioTypeOK
<1>2. CASE Monitor \/ SubmitLine \/ TurnEnds \/ Prune
  BY <1>1, <1>2, TickStages DEF Monitor, SubmitLine, TurnEnds, Prune
<1>3. ASSUME NEW r \in Recordings, Render(r) PROVE Abstract!NarrationNext
  <2>1. \A s \in Recordings : s # r => Stage'[s] = Stage[s]
    <3>1. \A s \in Recordings : s # r => result'[s] = result[s]
      BY <1>3 DEF Render, AudioIInv, AudioTypeOK
    <3>2. QED
      BY <3>1 DEF Stage
  <2>2. Stage[r] = "waiting"
    BY <1>3 DEF Render, Stage
  <2>3. result'[r] \in {"audio_ready", "failed"}
    BY <1>3 DEF Render, AudioIInv, AudioTypeOK
  <2>4. Stage'[r] \in {"ready", "settled"}
    BY <2>3 DEF Stage
  <2>5. QED
    BY <1>1, <2>1, <2>2, <2>4, StageMoves DEF Abstract!Moves
<1>4. ASSUME NEW r \in Recordings, PlayerEnds(r) PROVE Abstract!NarrationNext
  <2>1. \A s \in Recordings : s # r => Stage'[s] = Stage[s]
    BY <1>4 DEF PlayerEnds, Stage
  <2>2. Stage[r] = "taken"
    <3>1. player[r] \in Holders
      BY <1>4 DEF PlayerEnds, Outcomes, Holders
    <3>2. QED
      BY <3>1 DEF AudioIInv, HoldersAreKnown, Stage
  <2>3. Stage'[r] = "settled"
    BY <1>4 DEF PlayerEnds, Outcomes, Stage, AudioIInv, AudioTypeOK
  <2>4. QED
    BY <1>1, <2>1, <2>2, <2>3, StageMoves DEF Abstract!Moves
<1>5. ASSUME NEW r \in Recordings, PlayerRegisters(r) PROVE UNCHANGED Stage
  <2>1. result[r] \in {"starting", "playing"}
    BY <1>5 DEF PlayerRegisters, AudioIInv, HoldersAreKnown, Holders
  <2>2. QED
    BY <1>5, <2>1 DEF PlayerRegisters, Stage, AudioIInv, AudioTypeOK
<1>6. ASSUME UNCHANGED result PROVE UNCHANGED Stage
  BY <1>6 DEF Stage
<1>7. ASSUME NEW r \in Recordings, PlayerStarts(r) \/ PlayerCloses(r) \/ TimePasses(r) PROVE UNCHANGED result
  BY <1>7 DEF PlayerStarts, PlayerCloses, TimePasses
<1>8. CASE QueueVoice \/ CancelKey \/ HeartbeatStops \/ HeartbeatReturns \/ Dies \/ DiesClaiming
           \/ UNCHANGED audioVars
  BY <1>6, <1>8 DEF QueueVoice, CancelKey, HeartbeatStops, HeartbeatReturns, Dies, DiesClaiming,
     CockpitRestarts, audioVars
<1>9. QED
  BY <1>2, <1>3, <1>4, <1>5, <1>6, <1>7, <1>8 DEF AudioNext, CockpitStep, PlayerStep

\* The files of the bridge implement the abstract narration: what is settled stays settled,
\* whichever late player, recovery or monitor writes next, only a taken recording is given back,
\* and no handler takes two.
THEOREM BridgeImplementsNarration == AudioSpec => ImplementsNarration
<1>1. AudioInit => Abstract!NarrationInit
  BY DEF AudioInit, Abstract!NarrationInit, Stage
<1>2. AudioIInv /\ AudioIInv' /\ [AudioNext]_audioVars => [Abstract!NarrationNext]_Stage
  BY StageStep
<1>3. QED
  BY <1>1, <1>2, AudioInvariant, PTL DEF AudioSpec, ImplementsNarration, Abstract!NarrationSpec
=============================================================================
