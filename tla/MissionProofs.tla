--------------------------- MODULE MissionProofs ---------------------------
(***************************************************************************)
(* What a mission guarantees, for any number of files, contents, reviews,  *)
(* tasks, events, turns, saves and crashes.                                *)
(*   - Consent and recoverability need only the workspace: every step of a *)
(*     mission is one of its operations or leaves it alone.                *)
(*   - What a completed mission has behind it needs the order in which the *)
(*     agent's batch, the user's decisions and the lens reach the ledger:  *)
(*     TurnTypes (whose turn it is), WorkIInv (what a batch looks like),   *)
(*     ReviewIInv (where a review is on its way to the ledger) and         *)
(*     TestIInv (where the debt of an untested write is).  A mission that  *)
(*     lost events on the way is left out, and a debt that its mission     *)
(*     cancelled by a failed deletion.                                     *)
(***************************************************************************)
EXTENDS Mission, MissionLedgerProofs, SequenceTheorems, TLAPS

-----------------------------------------------------------------------------
(* Consent and recoverability.                                             *)


WorkspaceStep ==
  \/ \E by \in Writers, p \in Paths, c \in Contents : BeginWrite(by, p, c)
  \/ \E by \in Writers : FinishWrite(by)
  \/ \E p \in Paths, r \in Requests : RequestDeletion(p, r)
  \/ \E rv \in reviews : CheckConsent(rv)
  \/ MoveToTrash
  \/ CloseApproved
  \/ AbandonApproval
  \/ \E rv \in reviews : DenyDeletion(rv)
  \/ WorkspaceCrash

\* Why write_text may overwrite: the lock keeps every other writer out since the checkpoint.
Checkpointed == hand.op = "write" => disk[hand.path] \in blobs \cup {Absent}

\* Why approve_deletion may move: the lock keeps every writer out since the comparison.
StillConsented ==
  hand.op = "consented"
    => /\ hand.review \in reviews
       /\ Present(hand.review.path)
       /\ disk[hand.review.path] = hand.review.expected

WorkspaceIInv == WorkspaceTypeOK /\ Checkpointed /\ StillConsented

LEMMA MissionStepIsWorkspaceStep ==
  [MissionNext]_missionVars => [WorkspaceStep]_workspaceVars
<1> SUFFICES ASSUME [MissionNext]_missionVars PROVE WorkspaceStep \/ UNCHANGED workspaceVars
  OBVIOUS
<1>1. CASE TurnStep
  <2>1. CASE ResponseWithTools \/ ResponseWithoutTools \/ AbandonTurn \/ RecordBatch \/ Judge
    BY <2>1 DEF ResponseWithTools, ResponseWithoutTools, AbandonTurn, RecordBatch, Judge
  <2>2. CASE Execute
    <3>1. ASSUME NEW p \in Paths, NEW c \in Contents, AgentWrite(p, c) PROVE WorkspaceStep
      BY <3>1 DEF AgentWrite, WorkspaceStep, Writers
    <3>2. CASE AgentWritten
      BY <3>2 DEF AgentWritten, WorkspaceStep, Writers
    <3>3. ASSUME NEW p \in Paths, AgentDelete(p) PROVE WorkspaceStep \/ UNCHANGED workspaceVars
      BY <3>3 DEF AgentDelete, WorkspaceStep
    <3>4. ASSUME NEW p \in Paths, AgentWriteFails(p) \/ AgentRead(p)
          PROVE  UNCHANGED workspaceVars
      BY <3>4 DEF AgentWriteFails, AgentRead
    <3>5. ASSUME NEW p \in PyPaths, AgentRun(p) PROVE UNCHANGED workspaceVars
      BY <3>5 DEF AgentRun
    <3>6. ASSUME NEW p \in Paths \cup {NoPath}, StopCancelled(p) PROVE UNCHANGED workspaceVars
      BY <3>6 DEF StopCancelled
    <3>7. CASE AgentComplete \/ ResponseDone
      BY <3>7 DEF AgentComplete, ResponseDone
    <3>8. QED
      BY <2>2, <3>1, <3>2, <3>3, <3>4, <3>5, <3>6, <3>7 DEF Execute
  <2>3. QED
    BY <1>1, <2>1, <2>2 DEF TurnStep
<1>2. CASE BackgroundStep
  BY <1>2 DEF BackgroundStep, LedgerStep, ApprovedMoves, Approved, ApprovalFails, RecordDecision,
     LensWritten, LensRecord, WorkspaceStep, Writers
<1>3. CASE UserStep
  <2>1. CASE StartTurn \/ TaskCommand \/ Cancel
    BY <2>1 DEF StartTurn, TaskCommand, Cancel
  <2>2. ASSUME NEW rv \in reviews, Approve(rv) \/ Deny(rv) PROVE WorkspaceStep
    BY <2>2 DEF Approve, Deny, WorkspaceStep
  <2>3. ASSUME NEW p \in Paths, NEW c \in Contents, LensSave(p, c) PROVE WorkspaceStep
    BY <2>3 DEF LensSave, WorkspaceStep, Writers
  <2>4. QED
    BY <1>3, <2>1, <2>2, <2>3 DEF UserStep
<1>4. CASE Crash
  BY <1>4 DEF Crash, WorkspaceStep
<1>5. CASE UNCHANGED missionVars
  BY <1>5 DEF missionVars
<1>6. QED
  BY <1>1, <1>2, <1>3, <1>4, <1>5 DEF MissionNext

LEMMA WorkspaceInitInv == WorkspaceInit => WorkspaceIInv
  BY DEF WorkspaceInit, WorkspaceIInv, WorkspaceTypeOK, Checkpointed, StillConsented, Nothing,
     Operation

LEMMA WorkspaceStepInv == WorkspaceIInv /\ [WorkspaceStep]_workspaceVars => WorkspaceIInv'
<1> SUFFICES ASSUME WorkspaceIInv, [WorkspaceStep]_workspaceVars PROVE WorkspaceIInv'
  OBVIOUS
<1> USE DEF WorkspaceIInv, WorkspaceTypeOK, Checkpointed, StillConsented
<1>1. ASSUME NEW by \in Writers, NEW p \in Paths, NEW c \in Contents, BeginWrite(by, p, c)
      PROVE  WorkspaceIInv'
  <2>1. disk[p] \in Contents \cup {Absent}
    OBVIOUS
  <2>2. blobs' \subseteq Contents /\ disk[p] \in blobs' \cup {Absent}
    BY <1>1, <2>1 DEF BeginWrite
  <2>3. hand' \in Operation /\ hand'.path = p
    BY <1>1 DEF BeginWrite, Operation
  <2>4. QED
    BY <1>1, <2>2, <2>3 DEF BeginWrite
<1>2. ASSUME NEW by \in Writers, FinishWrite(by) PROVE WorkspaceIInv'
  <2>1. hand.path \in Paths /\ hand.content \in Contents
    BY <1>2 DEF FinishWrite, Operation
  <2>2. hand'.op = "none" /\ hand' \in Operation
    BY <1>2 DEF FinishWrite, Nothing, Operation
  <2>3. QED
    BY <1>2, <2>1, <2>2 DEF FinishWrite
<1>3. ASSUME NEW p \in Paths, NEW r \in Requests, RequestDeletion(p, r) PROVE WorkspaceIInv'
  <2>1. hand.op = "none" /\ hand' = hand /\ disk' = disk /\ blobs' = blobs /\ trash' = trash
    BY <1>3 DEF RequestDeletion, Nothing
  <2>2. disk[p] \in Contents
    BY <1>3 DEF RequestDeletion, Present
  <2>3. [id |-> r, path |-> p, expected |-> disk[p]] \in Review
    BY <2>2 DEF Review
  <2>4. reviews' \subseteq Review /\ drawn' \subseteq Requests
    BY <1>3, <2>3 DEF RequestDeletion
  <2>5. QED
    BY <2>1, <2>4
<1>4. ASSUME NEW rv \in reviews, CheckConsent(rv) PROVE WorkspaceIInv'
  <2>1. rv \in Review
    OBVIOUS
  <2>2. hand' \in Operation /\ hand'.op = "consented" /\ hand'.review = rv
    BY <1>4, <2>1 DEF CheckConsent, Operation
  <2>3. QED
    BY <1>4, <2>2 DEF CheckConsent, ConsentIsCurrent, Present
<1>5. CASE MoveToTrash
  <2>1. hand.review \in Review /\ hand.review.path \in Paths
    BY <1>5 DEF MoveToTrash, Operation, Review
  <2>2. disk[hand.review.path] \in Contents
    BY <1>5, <2>1 DEF MoveToTrash, Present
  <2>3. trash' \subseteq Trashed /\ disk' \in [Paths -> Contents \cup {Absent}]
    BY <1>5, <2>1, <2>2 DEF MoveToTrash, Trashed
  <2>4. hand' \in Operation /\ hand'.op = "moved"
    BY <1>5, <2>1 DEF MoveToTrash, Operation
  <2>5. QED
    BY <1>5, <2>3, <2>4 DEF MoveToTrash
<1>6. CASE CloseApproved
  BY <1>6 DEF CloseApproved, Nothing, Operation
<1>7. ASSUME NEW rv \in reviews, DenyDeletion(rv) PROVE WorkspaceIInv'
  BY <1>7 DEF DenyDeletion, Nothing
<1>8. CASE WorkspaceCrash \/ AbandonApproval
  BY <1>8 DEF WorkspaceCrash, AbandonApproval, Nothing, Operation
<1>9. CASE UNCHANGED workspaceVars
  BY <1>9 DEF workspaceVars, Present
<1>10. QED
  BY <1>1, <1>2, <1>3, <1>4, <1>5, <1>6, <1>7, <1>8, <1>9 DEF WorkspaceStep

LEMMA MissionWorkspaceInvariant == MissionSpec => []WorkspaceIInv
<1>1. MissionInit => WorkspaceIInv
  BY WorkspaceInitInv DEF MissionInit
<1>2. WorkspaceIInv /\ [MissionNext]_missionVars => WorkspaceIInv'
  BY MissionStepIsWorkspaceStep, WorkspaceStepInv
<1>3. QED
  BY <1>1, <1>2, PTL DEF MissionSpec

\* A step that removes a file is the approval of a review that was opened for its content.
LEMMA DeletionStep ==
  ASSUME WorkspaceIInv, [WorkspaceStep]_workspaceVars, NEW p \in Paths, Present(p), ~Present(p)'
  PROVE  \E rv \in reviews : rv.path = p /\ rv.expected = disk[p]
<1>1. disk' # disk
  BY DEF Present
<1>2. MoveToTrash
  <2>1. ASSUME NEW by \in Writers, FinishWrite(by) PROVE FALSE
    <3>1. hand.content # Absent /\ hand.path \in Paths
      BY <2>1, WorkspaceAssumption DEF FinishWrite, WorkspaceIInv, WorkspaceTypeOK, Operation
    <3>2. QED
      BY <2>1, <3>1 DEF FinishWrite, Present, WorkspaceIInv, WorkspaceTypeOK
  <2>2. QED
    BY <1>1, <2>1 DEF WorkspaceStep, BeginWrite, RequestDeletion, CheckConsent, CloseApproved,
       AbandonApproval, DenyDeletion, WorkspaceCrash, workspaceVars
<1>3. hand.review.path = p
  BY <1>2 DEF MoveToTrash, Present, WorkspaceIInv, WorkspaceTypeOK
<1>4. QED
  BY <1>2, <1>3 DEF MoveToTrash, WorkspaceIInv, StillConsented

\* A step that replaces or removes a file leaves its content in the checkpoints or the trash.
LEMMA OverwriteStep ==
  ASSUME WorkspaceIInv, [WorkspaceStep]_workspaceVars, NEW p \in Paths, Present(p),
         disk'[p] # disk[p]
  PROVE  disk[p] \in blobs' \/ [path |-> p, content |-> disk[p]] \in trash'
<1>1. disk' # disk
  OBVIOUS
<1>2. CASE \E by \in Writers : FinishWrite(by)
  <2>1. hand.op = "write" /\ hand.path = p /\ blobs' = blobs
    BY <1>2 DEF FinishWrite, WorkspaceIInv, WorkspaceTypeOK
  <2>2. QED
    BY <2>1 DEF WorkspaceIInv, Checkpointed, Present
<1>3. CASE MoveToTrash
  BY <1>3 DEF MoveToTrash, WorkspaceIInv, WorkspaceTypeOK
<1>4. QED
  BY <1>1, <1>2, <1>3 DEF WorkspaceStep, BeginWrite, RequestDeletion, CheckConsent, CloseApproved,
     AbandonApproval, DenyDeletion, WorkspaceCrash, workspaceVars

\* A file never leaves the disk under a consent that was given for another content, for any
\* number of reviews, saves and turns and however they interleave.
THEOREM DeletionNeedsCurrentConsent == MissionSpec => ConsentedDeletion
<1> DEFINE Consented == \A p \in Paths :
             Present(p) /\ ~Present(p)' => \E rv \in reviews : rv.path = p /\ rv.expected = disk[p]
<1>1. WorkspaceIInv /\ [MissionNext]_missionVars => [Consented]_missionVars
  BY MissionStepIsWorkspaceStep, DeletionStep
<1>2. QED
  BY <1>1, MissionWorkspaceInvariant, PTL DEF ConsentedDeletion, MissionSpec

\* Nothing that the agent, the lens or an approval replaces or removes is lost, wherever the
\* process dies.
THEOREM EverythingIsRecoverable == MissionSpec => NothingLost
<1> DEFINE Kept == \A p \in Paths :
             Present(p) /\ disk'[p] # disk[p]
               => disk[p] \in blobs' \/ [path |-> p, content |-> disk[p]] \in trash'
<1>1. WorkspaceIInv /\ [MissionNext]_missionVars => [Kept]_missionVars
  BY MissionStepIsWorkspaceStep, OverwriteStep
<1>2. QED
  BY <1>1, MissionWorkspaceInvariant, PTL DEF NothingLost, MissionSpec

-----------------------------------------------------------------------------
(* The types of a mission, and who may use the ledger during a turn.       *)

\* Whose turn it is: from its start the turn's mission is the active one, and no review command is
\* on its way.  The event loop runs one input at a time.
TurnOwnsLedger ==
  turn # "ready" =>
    /\ IF pc = "point" THEN target = mission ELSE active = mission
    /\ pc = "record" => target = mission
    /\ decision = <<>> /\ hand.op \notin {"consented", "moved"}

\* Whose write is in hand.
WriterIsKnown ==
  hand.op = "write" =>
    /\ hand.by = "agent" => turn = "executing"
    /\ hand.by = "lens" => lens = [stage |-> "saving", path |-> hand.path]

\* The counters of a turn; what has been recorded is waiting for nothing.
TurnIsBounded ==
  /\ turn # "ready" => epoch \in 1..MaxEpochs
  /\ turn # "judging" => idle < 2
  /\ turn \in {"ready", "generating"} => batch = <<>>
  /\ pc # "record" => todo = <<>>
  /\ crashes \in Nat

TurnTypes == MissionTypeOK /\ TurnOwnsLedger /\ WriterIsKnown /\ TurnIsBounded

\* A response: only its last action may fail, and an executor that goes on has seen no failure.
BatchIsOrdered ==
  \A i \in 1..Len(batch) :
    /\ i < Len(batch) \/ turn = "executing" => batch[i].exit = "ok"
    /\ batch[i].action = "task_completed" => batch[i].exit = "ok"
    /\ batch[i].action = "delete_file" => batch[i].exit # "ok"
    /\ Closed(batch[i]) = {}

\* What the ledger is told while the agent works is a save of the lens.
OnlySavesInterrupt ==
  turn \in {"generating", "executing", "recording"} =>
    \A i \in 1..Len(todo) : todo[i].action = "write_file" /\ todo[i].exit = "ok"

\* A batch that says "task_completed" leaves at most the failure of its last action.
EndsBelowLimit(task, events) ==
  /\ events = <<>> => task.repeats < 2
  /\ \A i \in 1..Len(events) : i < Len(events) => events[i].exit = "ok"
  /\ Len(events) = 1 => events[1].exit = "ok" \/ task.repeats = 0

\* A mission that is worked on is active, until a batch without "task_completed" blocks it.
AtWork ==
  turn # "ready" =>
    /\ ledger[mission].status \in {"active", "blocked"}
    /\ (turn = "judging" => InBatch("task_completed")) =>
         /\ ledger[mission].status = "active"
         /\ pc = "record" => EndsBelowLimit(draft, todo)

OpenIds == {rv.id : rv \in reviews}

\* An id belongs to one review, and is not drawn again.
IdsAreDrawnOnce ==
  \A rv \in reviews : rv.id \in drawn /\ \A other \in reviews : other.id = rv.id => other = rv

\* An event that closes a review comes after the review is gone.
CloseOnlyGone(events) ==
  \A i \in 1..Len(events) : Closed(events[i]) \cap Requests \subseteq drawn \ OpenIds

ClosedAreGone == CloseOnlyGone(todo) /\ CloseOnlyGone(decision)

\* What the ledger knows of a mission, once everything on its way has been recorded.
Recorded(t) == IF pc = "record" /\ target = t THEN draft ELSE ledger[t]
Recording(t) == IF pc = "record" /\ target = t THEN todo ELSE <<>>
Unrecorded(t) == IF t = mission /\ turn \in {"executing", "recording"} THEN batch ELSE <<>>

Opens(events) == {r \in Requests : \E i \in 1..Len(events) : r \in Opened(events[i])}

\* The reviews that are in a mission's list, or will be.
InLedger(t) == Recorded(t).pending \cup Opens(Recording(t))

\* A review that a mission waits for and the user has not decided is, or will be, in its list, unless
\* events of the mission were lost.
AskedAreKnown ==
  \A t \in Tasks \ lost : asked[t] \cap OpenIds \subseteq InLedger(t) \cup Opens(Unrecorded(t))

\* What does not exist has no history.
AbsentAskNothing == \A t \in Tasks : ~Exists(t) => asked[t] = {}
AskedAreDrawn == \A t \in Tasks : asked[t] \subseteq drawn
AbsentWroteNothing == \A t \in Tasks : ~Exists(t) => \A u \in untested : u.by # t

Deletes(e, p) == e.action = "delete_file" /\ e.path = p

NoneDeletes(events, p) == \A i \in 1..Len(events) : ~Deletes(events[i], p)

\* The debts of missions that have not told their ledgers of a deletion.
Owing == {u \in untested \ misled : u.by \in Tasks}

\* A mission's ledger is not about to hear of the deletion of a file that the mission has written
\* since.
NoStaleDeletion ==
  \A u \in Owing :
    /\ NoneDeletes(Recording(u.by), u.path) /\ NoneDeletes(Unrecorded(u.by), u.path)
    /\ NoneDeletes(decision, u.path)
    /\ hand.op = "moved" => hand.review.path # u.path

DecisionsTestNothing == \A i \in 1..Len(decision) : ~Passed(decision[i])

\* A mission counts its events.
SeqIsLatest(task) == task.mutation <= task.seq /\ task.verification <= task.seq
SeqsAreLatest == SeqIsLatest(draft) /\ \A t \in Tasks : SeqIsLatest(ledger[t])

NothingPasses(events) == \A i \in 1..Len(events) : ~Passed(events[i])

\* The write of a file is followed by no test that passed.
WrittenIn(events, p) ==
  \E i \in 1..Len(events) :
    /\ events[i].action = "write_file" /\ events[i].path = p
    /\ \A j \in 1..Len(events) : j > i => ~Passed(events[j])

Owed(task, p) == task.files[p] = "present" /\ task.verification <= task.mutation

\* The ledger owes a test for a file, once it has heard of the events.
WillOwe(task, events, p) ==
  \/ WrittenIn(events, p)
  \/ NothingPasses(events) /\ Owed(task, p)

\* What a mission wrote and did not test is owed a test by its ledger, or will be, unless events of
\* the mission were lost.
UntestedAreOwed ==
  \A u \in Owing : u.by \notin lost =>
    \/ WrittenIn(Unrecorded(u.by), u.path)
    \/ NothingPasses(Unrecorded(u.by)) /\ WillOwe(Recorded(u.by), Recording(u.by), u.path)

LEMMA OutcomeIsEvent ==
  ASSUME NEW action \in ExecutorActions, NEW path \in Paths \cup {NoPath},
         NEW exit \in {"ok", "fail", "none"}, NEW request \in Requests \cup {NoRequest},
         NEW kind \in ResultKinds, NEW hash \in Contents \cup {Absent}
  PROVE  Outcome(action, path, exit, request, kind, hash) \in Event
  BY MissionAssumption DEF Outcome, Event

\* What an action of the executor may report.
LEMMA ReportIsEvent ==
  ASSUME NEW path \in Paths \cup {NoPath}
  PROVE  /\ \A action \in ExecutorActions :
              /\ Ok(action, path) \in Event
              /\ \A kind \in ResultKinds, hash \in Contents \cup {Absent} :
                   Failed(action, path, kind, hash) \in Event
         /\ ProtocolError \in Event
         /\ \A r \in Requests :
              /\ Outcome("delete_requested", path, "none", r, "output", Absent) \in Event
              /\ Outcome("delete_file", path, "ok", r, "output", Absent) \in Event
              /\ Outcome("delete_denied", path, "fail", r, "output", Absent) \in Event
  BY OutcomeIsEvent DEF Ok, Failed, ProtocolError, ResultKinds, ExecutorActions

\* Every step of a mission is one of the ledger's operations on some events, or leaves it alone.
LEMMA MissionStepIsLedgerWork ==
  TurnTypes /\ [MissionNext]_missionVars => LedgerWork \/ UNCHANGED ledgerVars \/ Crash
<1> SUFFICES ASSUME TurnTypes, [MissionNext]_missionVars
             PROVE  LedgerWork \/ UNCHANGED ledgerVars \/ Crash
  OBVIOUS
<1> USE DEF TurnTypes, MissionTypeOK
<1>1. CASE TurnStep
  <2>1. CASE ResponseWithTools \/ ResponseWithoutTools \/ AbandonTurn
    BY <2>1 DEF ResponseWithTools, ResponseWithoutTools, AbandonTurn
  <2>2. CASE Execute
    BY <2>2 DEF Execute, AgentWrite, AgentWritten, AgentWriteFails, AgentRead, AgentRun,
       AgentDelete,
       AgentComplete, StopCancelled, ResponseDone, Emit
  <2>3. CASE RecordBatch
    <3>1. mission \in Tasks
      BY <2>3 DEF RecordBatch
    <3>2. <<ProtocolError>> \in Seq(Event)
      BY ReportIsEvent
    <3>3. QED
      BY <2>3, <3>1, <3>2 DEF RecordBatch, LedgerWork
  <2>4. CASE Judge
    <3>1. mission \in Tasks
      BY <2>4 DEF Judge
    <3>2. QED
      BY <2>4, <3>1 DEF Judge, LedgerWork
  <2>5. QED
    BY <1>1, <2>1, <2>2, <2>3, <2>4 DEF TurnStep
<1>2. CASE BackgroundStep
  <2>1. CASE LedgerStep \/ ApprovedMoves \/ Approved \/ ApprovalFails \/ LensWritten
    BY <2>1 DEF LedgerStep, ApprovedMoves, Approved, ApprovalFails, LensWritten, LedgerWork
  <2>2. CASE RecordDecision
    BY <2>2 DEF RecordDecision, LedgerWork, LedgerTypeOK
  <2>3. CASE LensRecord
    <3>1. <<Ok("write_file", lens.path)>> \in Seq(Event)
      BY ReportIsEvent DEF ExecutorActions
    <3>2. QED
      BY <2>3, <3>1 DEF LensRecord, LedgerWork, LedgerTypeOK
  <2>4. QED
    BY <1>2, <2>1, <2>2, <2>3 DEF BackgroundStep
<1>3. CASE UserStep
  BY <1>3 DEF UserStep, StartTurn, TaskCommand, Approve, Deny, Cancel, LensSave, LedgerWork
<1>4. CASE UNCHANGED missionVars
  BY <1>4 DEF missionVars
<1>5. QED
  BY <1>1, <1>2, <1>3, <1>4 DEF MissionNext

LEMMA MissionStepIsLedgerOperation ==
  TurnTypes /\ [MissionNext]_missionVars => [LedgerOperation]_ledgerVars
  BY MissionStepIsLedgerWork DEF LedgerOperation, LedgerReset, Crash

LEMMA TurnTypesInit == MissionInit => TurnTypes
<1> SUFFICES ASSUME MissionInit PROVE TurnTypes
  OBVIOUS
<1>1. LedgerTypeOK /\ WorkspaceTypeOK
  BY LedgerInitInv, WorkspaceInitInv DEF MissionInit, LedgerIInv, WorkspaceIInv
<1>2. MissionTypeOK
  <2>1. NoSave \in [stage : {"none", "saving", "saved"}, path : Paths \cup {NoPath}]
    BY DEF NoSave
  <2>2. 0 \in 0..MaxEpochs /\ 0 \in 0..2 /\ <<>> \in Seq(Event)
    BY MissionAssumption
  <2>3. asked \in [Tasks -> SUBSET Requests]
    BY DEF MissionInit
  <2>4. QED
    BY <1>1, <2>1, <2>2, <2>3 DEF MissionInit, MissionTypeOK
<1>3. TurnOwnsLedger /\ WriterIsKnown /\ TurnIsBounded
  BY DEF MissionInit, TurnOwnsLedger, WriterIsKnown, TurnIsBounded, LedgerInit, WorkspaceInit,
     Nothing
<1>4. QED
  BY <1>2, <1>3 DEF TurnTypes

\* An action of the executor reports an event, and the turn goes on.
LEMMA EmitTypes ==
  ASSUME TurnTypes, turn = "executing", LedgerTypeOK', WorkspaceTypeOK', NEW e \in Event, Emit(e),
         hand' = hand \/ hand' = Nothing, hand'.op = "write" => hand'.by = "lens",
         untested' \subseteq [path : PyPaths, by : Tasks \cup {"lens"}], misled' \subseteq untested',
         asked' \in [Tasks -> SUBSET Requests], lost' = lost
  PROVE  TurnTypes'
<1> USE DEF TurnTypes, MissionTypeOK, Emit, userVars, ledgerVars
<1>1. batch' \in Seq(Event) /\ turn' \in {"executing", "recording"}
  OBVIOUS
<1>2. MissionTypeOK'
  BY <1>1
<1>3. TurnOwnsLedger'
  BY <1>1 DEF TurnOwnsLedger, Nothing
<1>4. WriterIsKnown'
  BY DEF WriterIsKnown, Nothing
<1>5. TurnIsBounded'
  BY <1>1 DEF TurnIsBounded
<1>6. QED
  BY <1>2, <1>3, <1>4, <1>5

\* One case per action: who has the ledger, whose write is in hand, and the types.
LEMMA TurnTypesStep ==
  ASSUME LedgerIInv, WorkspaceIInv, TurnTypes, [MissionNext]_missionVars, LedgerTypeOK', WorkspaceTypeOK'
  PROVE  TurnTypes'
<1> USE DEF TurnTypes, MissionTypeOK
<1>1. CASE ResponseWithTools
  BY <1>1 DEF ResponseWithTools, TurnOwnsLedger, WriterIsKnown, TurnIsBounded, ledgerVars,
     workspaceVars,
     userVars, ghostVars, LoopFree
<1>2. CASE ResponseWithoutTools
  BY <1>2 DEF ResponseWithoutTools, TurnOwnsLedger, WriterIsKnown, TurnIsBounded, ledgerVars,
     workspaceVars,
     userVars, ghostVars, LoopFree
<1>3. CASE AbandonTurn
  BY <1>3, MissionAssumption DEF AbandonTurn, TurnToReady, TurnOwnsLedger, WriterIsKnown,
     TurnIsBounded, ledgerVars,
     workspaceVars, userVars, ghostVars, LoopFree
<1>4. CASE Execute
  <2>1. ASSUME NEW p \in Paths, NEW c \in Contents, AgentWrite(p, c) PROVE TurnTypes'
    BY <2>1 DEF AgentWrite, BeginWrite, Reached, TurnOwnsLedger, WriterIsKnown, TurnIsBounded,
       ledgerVars, turnVars, userVars, ghostVars, Nothing
  <2>2. CASE AgentWritten
    <3>1. hand.path \in Paths /\ hand.op = "write" /\ hand.by = "agent" /\ hand' = Nothing
      BY <2>2 DEF AgentWritten, FinishWrite, WorkspaceTypeOK, Operation
    <3>2. turn = "executing" /\ mission \in Tasks
      BY <3>1 DEF WriterIsKnown
    <3>3. \E e \in Event : Emit(e)
      BY <2>2, <3>1, ReportIsEvent DEF AgentWritten, ExecutorActions, ResultKinds
    <3>4. /\ untested' \subseteq [path : PyPaths, by : Tasks \cup {"lens"}]
          /\ misled' \subseteq untested' /\ asked' = asked /\ lost' = lost
      BY <2>2, <3>1, <3>2 DEF AgentWritten
    <3>5. QED
      BY <2>2, <3>1, <3>2, <3>3, <3>4, EmitTypes DEF AgentWritten, Nothing
  <2>3. ASSUME NEW p \in Paths, AgentWriteFails(p) \/ AgentRead(p) PROVE TurnTypes'
    <3>1. \E e \in Event : Emit(e)
      BY <2>3, ReportIsEvent DEF AgentWriteFails, AgentRead, ExecutorActions, ResultKinds
    <3>2. /\ turn = "executing" /\ hand' = hand /\ hand.op = "none"
          /\ UNCHANGED ghostVars
      BY <2>3 DEF AgentWriteFails, AgentRead, Reached, workspaceVars, ghostVars
    <3>3. QED
      BY <3>1, <3>2, EmitTypes DEF ghostVars
  <2>4. ASSUME NEW p \in PyPaths, AgentRun(p) PROVE TurnTypes'
    <3>1. p \in Paths /\ disk[p] \in Contents \cup {Absent}
      BY NamesAssumption DEF WorkspaceTypeOK
    <3>2. \E e \in Event : Emit(e)
      BY <2>4, <3>1, ReportIsEvent DEF AgentRun, ExecutorActions, ResultKinds
    <3>3. /\ turn = "executing" /\ hand' = hand /\ hand.op = "none" /\ asked' = asked
          /\ untested' \subseteq [path : PyPaths, by : Tasks \cup {"lens"}]
          /\ misled' \subseteq untested' /\ lost' = lost
      BY <2>4 DEF AgentRun, Reached, workspaceVars
    <3>4. QED
      BY <3>2, <3>3, EmitTypes
  <2>5. ASSUME NEW p \in Paths, AgentDelete(p) PROVE TurnTypes'
    <3>1. /\ turn = "executing" /\ hand' = hand /\ hand.op = "none" /\ untested' = untested
          /\ mission \in Tasks /\ misled' \subseteq untested' /\ lost' = lost
      BY <2>5 DEF AgentDelete, Reached, workspaceVars, RequestDeletion
    <3>2. \E e \in Event : Emit(e)
      BY <2>5, ReportIsEvent DEF AgentDelete, ExecutorActions, ResultKinds
    <3>3. asked' \in [Tasks -> SUBSET Requests]
      BY <2>5, <3>1 DEF AgentDelete
    <3>4. QED
      BY <3>1, <3>2, <3>3, EmitTypes
  <2>6. CASE AgentComplete
    <3>1. \E e \in Event : Emit(e)
      BY <2>6, ReportIsEvent DEF AgentComplete, ExecutorActions
    <3>2. /\ turn = "executing" /\ hand' = hand /\ hand.op = "none"
          /\ UNCHANGED ghostVars
      BY <2>6 DEF AgentComplete, Reached, workspaceVars, ghostVars
    <3>3. QED
      BY <3>1, <3>2, EmitTypes DEF ghostVars
  <2>7. ASSUME NEW p \in Paths \cup {NoPath}, StopCancelled(p) PROVE TurnTypes'
    <3>1. \E e \in Event : Emit(e)
      BY <2>7, ReportIsEvent DEF StopCancelled, ExecutorActions, ResultKinds
    <3>2. /\ turn = "executing" /\ hand' = hand /\ UNCHANGED ghostVars
          /\ hand.op = "write" => hand.by = "lens"
      BY <2>7 DEF StopCancelled, BetweenActions, workspaceVars, ghostVars, WorkspaceTypeOK,
         Operation, Writers
    <3>3. QED
      BY <3>1, <3>2, EmitTypes DEF ghostVars
  <2>8. CASE ResponseDone
    BY <2>8 DEF ResponseDone, BetweenActions, TurnOwnsLedger, WriterIsKnown, TurnIsBounded,
       ledgerVars,
       workspaceVars, userVars, ghostVars
  <2>9. QED
    BY <1>4, <2>1, <2>2, <2>3, <2>4, <2>5, <2>6, <2>7, <2>8 DEF Execute
<1>5. CASE RecordBatch
  BY <1>5 DEF RecordBatch, BeginRecord, TurnOwnsLedger, WriterIsKnown, TurnIsBounded, workspaceVars,
     userVars, ghostVars, LoopFree
<1>6. CASE Judge
  <2>1. active' = active /\ pc' = "idle" /\ todo' = todo /\ pc = "idle"
    BY <1>6 DEF Judge, MarkCompleted, LoopFree, ledgerVars
  <2>2. CASE TurnIsOver
    BY <1>6, <2>1, <2>2, MissionAssumption DEF Judge, TurnToReady, TurnOwnsLedger, WriterIsKnown,
       TurnIsBounded,
       workspaceVars, userVars, ghostVars, LoopFree
  <2>3. CASE ~TurnIsOver
    <3>1. epoch' \in 1..MaxEpochs /\ idle' < 2 /\ idle' = idle
      BY <1>6, <2>3, MissionAssumption DEF Judge, TurnIsOver, TurnIsBounded
    <3>2. QED
      BY <1>6, <2>1, <2>3, <3>1 DEF Judge, TurnOwnsLedger, WriterIsKnown, TurnIsBounded,
         workspaceVars, userVars, ghostVars, LoopFree
  <2>4. QED
    BY <2>2, <2>3
<1>7. CASE LedgerStep
  BY <1>7 DEF LedgerStep, SetActive, RecordEvent, CommitRecord, TurnOwnsLedger, WriterIsKnown,
     TurnIsBounded,
     workspaceVars, turnVars, userVars, ghostVars
<1>8. CASE ApprovedMoves
  BY <1>8 DEF ApprovedMoves, MoveToTrash, TurnOwnsLedger, WriterIsKnown, TurnIsBounded, ledgerVars,
     turnVars,
     userVars
<1>9. CASE Approved
  <2>1. hand.review.path \in Paths /\ hand.review.id \in Requests
    BY <1>9 DEF Approved, CloseApproved, WorkspaceTypeOK, Operation, Review
  <2>2. decision' \in Seq(Event)
    BY <1>9, <2>1, ReportIsEvent DEF Approved
  <2>3. QED
    BY <1>9, <2>2 DEF Approved, CloseApproved, TurnOwnsLedger, WriterIsKnown, TurnIsBounded,
       ledgerVars,
       turnVars, ghostVars, Nothing
<1>10. CASE RecordDecision
  BY <1>10 DEF RecordDecision, BeginRecord, TurnOwnsLedger, WriterIsKnown, TurnIsBounded,
     ledgerVars,
     workspaceVars, turnVars, ghostVars
<1>11. CASE LensWritten
  <2>1. hand.op = "write" /\ hand.path \in Paths /\ lens.path = hand.path
    BY <1>11 DEF LensWritten, FinishWrite, WorkspaceTypeOK, Operation, WriterIsKnown
  <2>2. lens' \in [stage : {"none", "saving", "saved"}, path : Paths \cup {NoPath}]
    BY <1>11 DEF LensWritten
  <2>3. untested' \subseteq [path : PyPaths, by : Tasks \cup {"lens"}]
    BY <1>11, <2>1 DEF LensWritten
  <2>4. QED
    BY <1>11, <2>2, <2>3 DEF LensWritten, FinishWrite, TurnOwnsLedger, WriterIsKnown,
       TurnIsBounded, ledgerVars,
       turnVars, Nothing
<1>12. CASE LensRecord
  <2>1. hand' = hand /\ (hand.op = "write" => hand.by # "lens")
    BY <1>12 DEF LensRecord, WriterIsKnown, workspaceVars
  <2>2. QED
    BY <1>12, <2>1 DEF LensRecord, BeginRecord, TurnOwnsLedger, WriterIsKnown, TurnIsBounded,
       ledgerVars,
       workspaceVars, turnVars, ghostVars, NoSave, LoopFree
<1>13. CASE StartTurn
  <2>1. mission' \in Tasks /\ mission' # NoTask /\ todo' = todo /\ pc' \in {"idle", "point"}
    BY <1>13, LedgerAssumption DEF StartTurn, CreateTask, ledgerVars, LineAllowed, LoopFree,
       LedgerTypeOK
  <2>2. IF pc' = "point" THEN target' = mission' ELSE active' = mission'
    BY <1>13 DEF StartTurn, CreateTask, ledgerVars, LineAllowed, LoopFree
  <2>3. 1 \in 1..MaxEpochs /\ 1 \in 0..MaxEpochs
    BY MissionAssumption
  <2>4. QED
    BY <1>13, <2>1, <2>2, <2>3 DEF StartTurn, TurnOwnsLedger, WriterIsKnown, TurnIsBounded,
       LineAllowed, LoopFree,
       workspaceVars, ghostVars
<1>14. CASE TaskCommand
  <2>1. todo' = todo /\ pc' # "record" /\ turn = "ready"
    BY <1>14 DEF TaskCommand, CreateTask, ActivateTask, PauseActiveTask, LineAllowed, LoopFree
  <2>2. QED
    BY <1>14, <2>1 DEF TaskCommand, TurnOwnsLedger, WriterIsKnown, TurnIsBounded, workspaceVars,
       turnVars, ghostVars,
       LineAllowed, LoopFree
<1>15. ASSUME NEW rv \in reviews, Approve(rv) PROVE TurnTypes'
  BY <1>15 DEF Approve, CheckConsent, LineAllowed, TurnOwnsLedger, WriterIsKnown, TurnIsBounded,
     ledgerVars,
     turnVars, ghostVars
<1>16. ASSUME NEW rv \in reviews, Deny(rv) PROVE TurnTypes'
  <2>1. rv.path \in Paths /\ rv.id \in Requests
    BY DEF WorkspaceTypeOK, Review
  <2>2. decision' \in Seq(Event)
    BY <1>16, <2>1, ReportIsEvent DEF Deny
  <2>3. QED
    BY <1>16, <2>2 DEF Deny, DenyDeletion, LineAllowed, TurnOwnsLedger, WriterIsKnown,
       TurnIsBounded, ledgerVars,
     turnVars, ghostVars
<1>17. CASE Cancel
  BY <1>17 DEF Cancel, TurnOwnsLedger, WriterIsKnown, TurnIsBounded, ledgerVars, workspaceVars,
     turnVars, userVars,
     ghostVars
<1>18. ASSUME NEW p \in Paths, NEW c \in Contents, LensSave(p, c) PROVE TurnTypes'
  <2>1. lens' \in [stage : {"none", "saving", "saved"}, path : Paths \cup {NoPath}]
    BY <1>18 DEF LensSave
  <2>2. TurnOwnsLedger' /\ WriterIsKnown' /\ TurnIsBounded'
    BY <1>18 DEF LensSave, BeginWrite, TurnOwnsLedger, WriterIsKnown, TurnIsBounded, ledgerVars,
       turnVars, ghostVars
  <2>3. UNCHANGED <<turnVars, cancel, decision, ghostVars>>
    BY <1>18 DEF LensSave
  <2>4. MissionTypeOK'
    BY <2>1, <2>3 DEF turnVars, ghostVars
  <2>5. QED
    BY <2>2, <2>4
<1>19. CASE Crash
  <2>1. /\ lens' \in [stage : {"none", "saving", "saved"}, path : Paths \cup {NoPath}]
        /\ 0 \in 0..MaxEpochs /\ 0 \in 0..2 /\ <<>> \in Seq(Event)
    BY <1>19, MissionAssumption DEF Crash, NoSave
  <2>2. MissionTypeOK'
    <3>1. /\ turn' = "ready" /\ mission' = NoTask /\ epoch' = 0 /\ idle' = 0 /\ batch' = <<>>
          /\ cancel' = FALSE /\ decision' = <<>> /\ untested' = untested /\ asked' = asked
          /\ misled' = misled
      BY <1>19 DEF Crash, TurnToReady, ghostVars
    <3>3. Telling \subseteq Tasks
      BY LedgerAssumption DEF Telling, LedgerIInv, Locked
    <3>4. lost' \subseteq Tasks
      BY <1>19, <3>3 DEF Crash
    <3>2. QED
      BY <2>1, <3>1, <3>4
  <2>3. TurnOwnsLedger' /\ WriterIsKnown' /\ TurnIsBounded'
    BY <1>19, MissionAssumption DEF Crash, WorkspaceCrash, TurnToReady, TurnOwnsLedger,
       WriterIsKnown, TurnIsBounded,
       Nothing
  <2>4. QED
    BY <2>2, <2>3
<1>20. CASE UNCHANGED missionVars
  BY <1>20 DEF missionVars, TurnOwnsLedger, WriterIsKnown, TurnIsBounded, ledgerVars,
     workspaceVars, turnVars,
     userVars, ghostVars
<1>21. CASE ApprovalFails
  BY <1>21 DEF ApprovalFails, AbandonApproval, TurnOwnsLedger, WriterIsKnown, TurnIsBounded,
     ledgerVars, turnVars, userVars, ghostVars, Nothing
<1>22. QED
  BY <1>1, <1>2, <1>3, <1>4, <1>5, <1>6, <1>7, <1>8, <1>9, <1>10, <1>11, <1>12, <1>13, <1>14,
     <1>15, <1>16, <1>17, <1>18, <1>19, <1>20, <1>21 DEF MissionNext, TurnStep, BackgroundStep, UserStep

MissionBase == LedgerIInv /\ WorkspaceIInv /\ TurnTypes

LEMMA MissionBaseInit == MissionInit => MissionBase
  BY LedgerInitInv, WorkspaceInitInv, TurnTypesInit DEF MissionInit, MissionBase

LEMMA MissionBaseStep == MissionBase /\ [MissionNext]_missionVars => MissionBase'
<1> SUFFICES ASSUME MissionBase, [MissionNext]_missionVars PROVE MissionBase'
  OBVIOUS
<1> USE DEF MissionBase
<1>1. LedgerIInv'
  BY MissionStepIsLedgerOperation, LedgerOperationInv
<1>2. WorkspaceIInv'
  BY MissionStepIsWorkspaceStep, WorkspaceStepInv
<1>3. LedgerTypeOK' /\ WorkspaceTypeOK'
  BY <1>1, <1>2 DEF LedgerIInv, WorkspaceIInv
<1>4. QED
  BY <1>1, <1>2, <1>3, TurnTypesStep

\* A mission's variables have their types, the ledger's and the workspace's included, however the
\* agent, the lens, the user's commands and crashes interleave.
THEOREM MissionTypes == MissionSpec => []MissionTypeOK
  BY MissionBaseInit, MissionBaseStep, PTL DEF MissionSpec, MissionBase, TurnTypes

-----------------------------------------------------------------------------
(* What the executor does, as the invariants see it.                       *)

\* An action of the response ends and is reported: a deletion was asked for, a file was written, a
\* deletion failed, or what was done leaves the files alone.
Reports(e) ==
  /\ turn = "executing" /\ mission \in Tasks /\ Emit(e) /\ lost' = lost
  /\ e.action = "task_completed" => e.exit = "ok"
  /\ e.action = "delete_file" => e.exit # "ok"
  /\ Closed(e) = {}
  /\ \/ /\ e.action = "delete_requested" /\ Opened(e) = {e.request} /\ e.request \in Requests
        /\ RequestDeletion(e.path, e.request)
        /\ asked' = [asked EXCEPT ![mission] = @ \cup {e.request}]
        /\ UNCHANGED <<untested, misled>>
     \/ /\ e.action = "write_file" /\ e.path = hand.path
        /\ hand.op = "write" /\ hand.by = "agent" /\ FinishWrite("agent")
        /\ untested' = IF e.path \in PyPaths
                       THEN untested \cup {[path |-> e.path, by |-> mission]} ELSE untested
        /\ misled' = misled \ {[path |-> e.path, by |-> mission]}
        /\ asked' = asked
     \/ /\ e.action = "delete_file"
        /\ \/ UNCHANGED workspaceVars
           \/ ReviewsOf(e.path) = {} /\ \E r \in Requests : RequestDeletion(e.path, r)
        /\ UNCHANGED <<untested, asked>>
        /\ misled' = misled \cup (untested \cap {[path |-> e.path, by |-> mission]})
     \/ /\ e.action # "delete_file" /\ UNCHANGED <<workspaceVars, asked>>
        /\ untested' = (IF Passed(e) THEN {} ELSE untested)
        /\ misled' = (IF Passed(e) THEN {} ELSE misled)

\* An action begins, or the response has no further one.
GoesOn ==
  /\ turn = "executing" /\ turn' \in {"executing", "recording"}
  /\ \/ \E p \in Paths, c \in Contents : BeginWrite("agent", p, c)
     \/ UNCHANGED workspaceVars
  /\ UNCHANGED <<ledgerVars, mission, epoch, idle, batch, cancel, userVars, crashes, ghostVars>>

LEMMA ExecutorReports ==
  ASSUME MissionBase, Execute PROVE GoesOn \/ \E e \in Event : Reports(e)
<1> USE DEF MissionBase, TurnTypes, MissionTypeOK
<1> DEFINE Goal == GoesOn \/ \E e \in Event : Reports(e)
<1>1. ASSUME NEW p \in Paths, NEW c \in Contents, AgentWrite(p, c) PROVE Goal
  BY <1>1 DEF AgentWrite, Reached, GoesOn, turnVars
<1>2. CASE AgentWritten
  <2>1. hand.path \in Paths /\ hand.op = "write" /\ hand.by = "agent"
    BY <1>2 DEF AgentWritten, FinishWrite, WorkspaceTypeOK, Operation
  <2>2. turn = "executing" /\ mission \in Tasks
    BY <2>1 DEF WriterIsKnown
  <2>3. \A e \in {Ok("write_file", hand.path), Failed("write_file", hand.path, "error", Absent)} :
          e \in Event /\ e.action = "write_file" /\ e.path = hand.path /\ Closed(e) = {}
    <3>1. /\ Ok("write_file", hand.path) \in Event
          /\ Failed("write_file", hand.path, "error", Absent) \in Event
      BY <2>1, ReportIsEvent DEF ExecutorActions, ResultKinds
    <3> DEFINE IsWrite(e) == e.action = "write_file" /\ e.path = hand.path /\ Closed(e) = {}
    <3>2. IsWrite(Ok("write_file", hand.path))
      BY DEF Ok, Outcome, Closed
    <3>3. IsWrite(Failed("write_file", hand.path, "error", Absent))
      BY DEF Failed, Outcome, Closed
    <3> HIDE DEF IsWrite
    <3>4. QED
      BY <3>1, <3>2, <3>3, Zenon DEF IsWrite
  <2>4. PICK e \in Event : /\ e.action = "write_file" /\ e.path = hand.path /\ Closed(e) = {}
                           /\ Emit(e)
    BY <1>2, <2>3 DEF AgentWritten
  <2>5. Reports(e)
    BY <1>2, <2>1, <2>2, <2>4 DEF Reports, AgentWritten
  <2>6. QED
    BY <2>5
<1>3. ASSUME NEW p \in Paths, AgentWriteFails(p) PROVE Goal
  <2> DEFINE e == Failed("write_file", p, "error", Absent)
  <2>1. e \in Event
    BY ReportIsEvent DEF ExecutorActions, ResultKinds
  <2>2. e.action = "write_file" /\ Closed(e) = {} /\ ~Passed(e)
    BY DEF Failed, Outcome, Closed, Passed
  <2>3. Reports(e)
    BY <1>3, <2>2 DEF Reports, AgentWriteFails, Reached, ghostVars
  <2>4. QED
    BY <2>1, <2>3
<1>4. ASSUME NEW p \in Paths, AgentRead(p) PROVE Goal
  <2> DEFINE e == IF Present(p) THEN Ok("read_file", p) ELSE Failed("read_file", p, "error", Absent)
  <2>1. e \in Event
    BY ReportIsEvent DEF ExecutorActions, ResultKinds
  <2>2. e.action = "read_file" /\ Closed(e) = {} /\ ~Passed(e)
    BY DEF Ok, Failed, Outcome, Closed, Passed
  <2>3. Reports(e)
    BY <1>4, <2>2 DEF Reports, AgentRead, Reached, ghostVars
  <2>4. QED
    BY <2>1, <2>3
<1>5. ASSUME NEW p \in PyPaths, AgentRun(p) PROVE Goal
  <2>1. p \in Paths /\ disk[p] \in Contents \cup {Absent}
    BY NamesAssumption DEF WorkspaceTypeOK
  <2>2. PICK e \in Event : /\ Emit(e) /\ e.action = "run_python"
                          /\ untested' = (IF e.exit = "ok" THEN {} ELSE untested)
                          /\ misled' = (IF e.exit = "ok" THEN {} ELSE misled)
    <3>1. \A kind \in ResultKinds, hash \in Contents \cup {Absent} :
            LET e == Failed("run_python", p, kind, hash)
            IN  e \in Event /\ e.action = "run_python" /\ e.exit = "fail"
      BY <2>1, ReportIsEvent DEF ExecutorActions, Failed, Outcome
    <3>2. LET e == Ok("run_python", p) IN e \in Event /\ e.action = "run_python" /\ e.exit = "ok"
      BY <2>1, ReportIsEvent DEF ExecutorActions, Ok, Outcome
    <3>3. QED
      BY <1>5, <2>1, <3>1, <3>2 DEF AgentRun, ResultKinds
  <2>3. Closed(e) = {}
    BY <2>2 DEF Closed
  <2>4. Reports(e)
    BY <1>5, <2>2, <2>3 DEF Reports, AgentRun, Reached, Passed
  <2>5. QED
    BY <2>4
<1>6. ASSUME NEW p \in Paths, AgentDelete(p) PROVE Goal
  <2>1. turn = "executing" /\ mission \in Tasks /\ UNCHANGED <<untested, lost>>
    BY <1>6 DEF AgentDelete, Reached
  <2>2. ASSUME NEW r \in Requests, RequestDeletion(p, r),
               Emit(Outcome("delete_requested", p, "none", r, "output", Absent)),
               asked' = [asked EXCEPT ![mission] = @ \cup {r}], misled' = misled
        PROVE  Goal
    <3> DEFINE e == Outcome("delete_requested", p, "none", r, "output", Absent)
    <3>1. e \in Event
      BY ReportIsEvent
    <3>2. /\ e.action = "delete_requested" /\ e.request = r /\ e.path = p /\ e.exit = "none"
          /\ Closed(e) = {} /\ Opened(e) = {r}
      BY LedgerAssumption DEF Outcome, Closed, Opened
    <3>3. Reports(e)
      BY <2>1, <2>2, <3>2 DEF Reports
    <3>4. QED
      BY <3>1, <3>3
  <2>3. CASE /\ \/ UNCHANGED workspaceVars
                \/ ReviewsOf(p) = {} /\ \E r \in Requests : RequestDeletion(p, r)
             /\ Emit(Failed("delete_file", p, "error", Absent))
             /\ misled' = misled \cup (untested \cap {[path |-> p, by |-> mission]})
             /\ UNCHANGED asked
    <3> DEFINE e == Failed("delete_file", p, "error", Absent)
    <3>1. e \in Event
      BY ReportIsEvent DEF ExecutorActions, ResultKinds
    <3>2. e.action = "delete_file" /\ e.exit = "fail" /\ e.path = p /\ Closed(e) = {}
      BY LedgerAssumption DEF Failed, Outcome, Closed, Mutates
    <3>3. Reports(e)
      BY <2>1, <2>3, <3>2 DEF Reports
    <3>4. QED
      BY <3>1, <3>3
  <2>4. QED
    BY <1>6, <2>2, <2>3 DEF AgentDelete
<1>7. CASE AgentComplete
  <2> DEFINE e == Ok("task_completed", NoPath)
  <2>1. e \in Event
    BY ReportIsEvent DEF ExecutorActions
  <2>2. e.action = "task_completed" /\ e.exit = "ok" /\ Closed(e) = {} /\ ~Passed(e)
    BY DEF Ok, Outcome, Closed, Passed
  <2>3. Reports(e)
    BY <1>7, <2>2 DEF Reports, AgentComplete, Reached, ghostVars
  <2>4. QED
    BY <2>1, <2>3
<1>8. ASSUME NEW p \in Paths \cup {NoPath}, StopCancelled(p) PROVE Goal
  <2> DEFINE e == Failed("cancelled", p, "stopped", Absent)
  <2>1. e \in Event
    BY ReportIsEvent DEF ExecutorActions, ResultKinds
  <2>2. e.action = "cancelled" /\ Closed(e) = {} /\ ~Passed(e)
    BY DEF Failed, Outcome, Closed, Passed
  <2>3. Reports(e)
    BY <1>8, <2>2 DEF Reports, StopCancelled, ghostVars
  <2>4. QED
    BY <2>1, <2>3
<1>9. CASE ResponseDone
  BY <1>9 DEF ResponseDone, GoesOn
<1>10. QED
  BY <1>1, <1>2, <1>3, <1>4, <1>5, <1>6, <1>7, <1>8, <1>9 DEF Execute

-----------------------------------------------------------------------------
(* A mission at work is active.                                            *)

WorkIInv == MissionBase /\ BatchIsOrdered /\ OnlySavesInterrupt /\ AtWork

\* The executor stops at its first failure.
LEMMA BatchStep ==
  ASSUME MissionBase, MissionBase', BatchIsOrdered, [MissionNext]_missionVars PROVE BatchIsOrdered'
<1> USE DEF MissionBase, TurnTypes, MissionTypeOK
<1>1. CASE batch' = batch /\ turn' # "executing"
  BY <1>1 DEF BatchIsOrdered
<1>2. CASE batch' = batch /\ turn = "executing"
  BY <1>2 DEF BatchIsOrdered
<1>3. CASE batch' = <<>>
  BY <1>3 DEF BatchIsOrdered
<1>4. ASSUME NEW e \in Event, Reports(e) PROVE BatchIsOrdered'
  <2>1. /\ batch' = Append(batch, e) /\ turn = "executing"
        /\ turn' = IF e.exit # "ok" THEN "recording" ELSE "executing"
    BY <1>4 DEF Reports, Emit
  <2>2. ASSUME NEW i \in 1..Len(batch)
        PROVE  batch'[i] = batch[i] /\ batch[i].exit = "ok"
    BY <2>1, <2>2 DEF BatchIsOrdered
  <2>3. batch'[Len(batch) + 1] = e /\ Len(batch') = Len(batch) + 1
    BY <2>1
  <2>4. ASSUME NEW i \in 1..Len(batch')
        PROVE  /\ i < Len(batch') \/ turn' = "executing" => batch'[i].exit = "ok"
               /\ batch'[i].action = "task_completed" => batch'[i].exit = "ok"
               /\ batch'[i].action = "delete_file" => batch'[i].exit # "ok"
               /\ Closed(batch'[i]) = {}
    <3>1. CASE i \in 1..Len(batch)
      BY <2>2, <3>1 DEF BatchIsOrdered
    <3>2. CASE i = Len(batch) + 1
      BY <1>4, <2>1, <2>3, <3>2 DEF Reports
    <3>3. QED
      BY <2>3, <3>1, <3>2
  <2>5. QED
    BY <2>4 DEF BatchIsOrdered
<1>5. CASE TurnStep
  <2>1. CASE Execute
    <3>1. CASE GoesOn
      BY <1>2, <3>1 DEF GoesOn
    <3>2. QED
      BY <1>4, <2>1, <3>1, ExecutorReports
  <2>2. CASE Judge
    BY <1>1, <1>3, <2>2 DEF Judge, TurnToReady
  <2>3. QED
    BY <1>1, <1>3, <1>5, <2>1, <2>2
       DEF TurnStep, ResponseWithTools, ResponseWithoutTools, AbandonTurn, TurnToReady, RecordBatch,
           TurnIsBounded
<1>6. CASE BackgroundStep
  <2>1. batch' = batch /\ turn' = turn
    BY <1>6 DEF BackgroundStep, LedgerStep, ApprovedMoves, Approved, ApprovalFails, RecordDecision,
       LensWritten, LensRecord, turnVars
  <2>2. QED
    BY <1>1, <1>2, <2>1
<1>7. CASE UserStep
  <2>1. batch' = batch /\ (turn' = turn \/ turn' = "generating")
    BY <1>7 DEF UserStep, StartTurn, TaskCommand, Approve, Deny, Cancel, LensSave, turnVars
  <2>2. QED
    BY <1>1, <1>2, <2>1
<1>8. CASE Crash
  BY <1>3, <1>8 DEF Crash, TurnToReady
<1>9. CASE UNCHANGED missionVars
  BY <1>1, <1>2, <1>9 DEF missionVars, turnVars
<1>10. QED
  BY <1>5, <1>6, <1>7, <1>8, <1>9 DEF MissionNext

\* A turn begins with an idle ledger, and only the lens records beside it.
LEMMA SavesStep ==
  ASSUME MissionBase, MissionBase', OnlySavesInterrupt, [MissionNext]_missionVars
  PROVE  OnlySavesInterrupt'
<1> USE DEF MissionBase, TurnTypes, MissionTypeOK
<1>1. CASE pc' # "record"
  BY <1>1 DEF TurnIsBounded, OnlySavesInterrupt
<1>2. CASE turn' \notin {"generating", "executing", "recording"}
  BY <1>2 DEF OnlySavesInterrupt
<1>3. CASE todo' = todo /\ turn \in {"generating", "executing", "recording"}
  BY <1>3 DEF OnlySavesInterrupt
<1>4. CASE todo' = todo /\ todo = <<>>
  BY <1>4 DEF OnlySavesInterrupt
<1>5. CASE TurnStep
  <2>1. CASE Execute
    <3>1. CASE GoesOn
      BY <1>3, <3>1 DEF GoesOn, ledgerVars
    <3>2. ASSUME NEW e \in Event, Reports(e) PROVE OnlySavesInterrupt'
      BY <1>3, <3>2 DEF Reports, Emit, ledgerVars
    <3>3. QED
      BY <2>1, <3>1, <3>2, ExecutorReports
  <2>2. CASE Judge
    BY <1>1, <2>2 DEF Judge, MarkCompleted, LoopFree, ledgerVars
  <2>3. QED
    BY <1>2, <1>3, <1>5, <2>1, <2>2
       DEF TurnStep, ResponseWithTools, ResponseWithoutTools, AbandonTurn, TurnToReady, RecordBatch,
           ledgerVars
<1>6. CASE LedgerStep
  <2>1. turn' = turn
    BY <1>6 DEF LedgerStep, turnVars
  <2>2. CASE RecordEvent
    <3>1. todo \in Seq(Event) /\ todo # <<>> /\ todo' = Tail(todo)
      BY <2>2 DEF RecordEvent, LedgerTypeOK
    <3>2. Len(todo') = Len(todo) - 1 /\ \A i \in 1..Len(todo') : todo'[i] = todo[i + 1]
      BY <3>1
    <3>3. QED
      BY <2>1, <3>1, <3>2 DEF OnlySavesInterrupt, LedgerTypeOK
  <2>3. QED
    BY <1>1, <1>6, <2>2 DEF LedgerStep, SetActive, CommitRecord
<1>7. CASE ApprovedMoves \/ Approved \/ ApprovalFails \/ LensWritten
  BY <1>2, <1>3, <1>7 DEF ApprovedMoves, Approved, ApprovalFails, LensWritten, ledgerVars, turnVars
<1>8. CASE RecordDecision
  BY <1>2, <1>8 DEF RecordDecision, turnVars, TurnOwnsLedger
<1>9. CASE LensRecord
  <2>1. turn' = turn /\ pc = "idle"
    BY <1>9 DEF LensRecord, turnVars, LoopFree
  <2>2. CASE BeginRecord(active, <<Ok("write_file", lens.path)>>)
    <3>1. todo' = <<Ok("write_file", lens.path)>>
      BY <2>2 DEF BeginRecord
    <3>2. QED
      BY <3>1 DEF OnlySavesInterrupt, Ok, Outcome
  <2>3. QED
    BY <1>1, <1>9, <2>1, <2>2 DEF LensRecord, ledgerVars
<1>10. CASE UserStep
  <2>1. CASE StartTurn
    BY <1>1, <2>1 DEF StartTurn, CreateTask, LineAllowed, LoopFree, ledgerVars
  <2>2. CASE Cancel \/ (\E p \in Paths, c \in Contents : LensSave(p, c))
    BY <1>2, <1>3, <2>2 DEF Cancel, LensSave, ledgerVars, turnVars
  <2>3. QED
    BY <1>2, <1>10, <2>1, <2>2 DEF UserStep, TaskCommand, Approve, Deny, LineAllowed, turnVars
<1>11. CASE Crash
  BY <1>1, <1>11 DEF Crash
<1>12. CASE UNCHANGED missionVars
  BY <1>2, <1>3, <1>12 DEF missionVars, ledgerVars, turnVars
<1>13. QED
  BY <1>5, <1>6, <1>7, <1>8, <1>9, <1>10, <1>11, <1>12 DEF MissionNext, BackgroundStep

\* Folding an event keeps the promise of a batch.
LEMMA FoldKeepsLimit ==
  ASSUME NEW task \in Task, NEW events \in Seq(Event), events # <<>>, EndsBelowLimit(task, events)
  PROVE  EndsBelowLimit(AfterEvent(task, Head(events)), Tail(events))
<1> DEFINE after == AfterEvent(task, Head(events))
<1>1. /\ Head(events) \in Event /\ Head(events) = events[1]
      /\ Len(events) \in Nat \ {0} /\ Len(Tail(events)) = Len(events) - 1
      /\ Tail(events) = <<>> => Len(events) = 1
      /\ \A i \in 1..Len(Tail(events)) : Tail(events)[i] = events[i + 1]
  <2>1. Len(events) \in Nat \ {0} /\ Head(events) = events[1]
    BY EmptySeq
  <2>2. /\ Head(events) \in Event /\ Len(Tail(events)) = Len(events) - 1
        /\ \A i \in 1..Len(Tail(events)) : Tail(events)[i] = events[i + 1]
    BY HeadTailProperties
  <2>3. Tail(events) = <<>> => Len(Tail(events)) = 0
    <3>1. \A s : s = <<>> => Len(s) = 0
      OBVIOUS
    <3>2. QED
      BY <3>1, Zenon
  <2>4. QED
    BY <2>1, <2>2, <2>3
<1>2. after.repeats = RepeatsAfter(task, Head(events))
  BY DEF AfterEvent
<1>3. Head(events).exit = "ok" => after.repeats = 0
  BY <1>2 DEF RepeatsAfter
<1>4. Tail(events) = <<>> => after.repeats < 2
  <2>2. task.repeats = 0 => after.repeats < 2
    BY <1>1, <1>2 DEF RepeatsAfter, Event
  <2>3. QED
    BY <1>1, <1>3, <2>2 DEF EndsBelowLimit
<1>5. Len(Tail(events)) = 1 => after.repeats = 0
  <2>1. Len(events) = 2 => 1 \in 1..Len(events) /\ 1 < Len(events)
    BY <1>1
  <2>2. QED
    BY <1>1, <1>3, <2>1 DEF EndsBelowLimit
<1>6. \A i \in 1..Len(Tail(events)) : i < Len(Tail(events)) => Tail(events)[i].exit = "ok"
  BY <1>1 DEF EndsBelowLimit
<1>7. QED
  BY <1>4, <1>5, <1>6 DEF EndsBelowLimit

\* A turn's mission stays active until a batch without "task_completed" is recorded.
LEMMA AtWorkStep ==
  ASSUME WorkIInv, MissionBase', [MissionNext]_missionVars
  PROVE  AtWork'
<1> USE DEF WorkIInv, MissionBase, TurnTypes, MissionTypeOK, LedgerTypeOK
<1>1. CASE turn' = "ready"
  BY <1>1 DEF AtWork
<1>2. CASE turn \in {"generating", "executing", "recording"} /\ turn' \in {"executing", "recording"}
           /\ UNCHANGED <<ledgerVars, mission>>
  BY <1>2 DEF AtWork, ledgerVars
<1>3. CASE TurnStep
  <2>1. CASE Execute
    <3>1. CASE GoesOn
      BY <1>2, <3>1 DEF GoesOn
    <3>2. ASSUME NEW e \in Event, Reports(e) PROVE AtWork'
      BY <1>2, <3>2 DEF Reports, Emit
    <3>3. QED
      BY <2>1, <3>1, <3>2, ExecutorReports
  <2>2. CASE RecordBatch
    <3> DEFINE events == IF batch = <<>> THEN <<ProtocolError>> ELSE batch
    <3>1. /\ turn = "recording" /\ mission' = mission /\ batch' = batch /\ turn' = "judging"
          /\ ledger' = ledger /\ draft' = ledger[mission] /\ todo' = events
      BY <2>2 DEF RecordBatch, BeginRecord
    <3>2. ledger[mission].status = "active"
      BY <3>1 DEF AtWork
    <3>3. ASSUME InBatch("task_completed") PROVE EndsBelowLimit(draft', todo')
      <4>1. PICK i \in 1..Len(batch) : batch[i].exit = "ok"
        BY <3>3 DEF InBatch, BatchIsOrdered
      <4>2. batch # <<>> /\ todo' = batch
        BY <3>1, <4>1
      <4>3. \A j \in 1..Len(batch) : j < Len(batch) => batch[j].exit = "ok"
        BY DEF BatchIsOrdered
      <4>4. Len(batch) = 1 => batch[1].exit = "ok"
        BY <4>1
      <4>5. QED
        BY <4>2, <4>3, <4>4 DEF EndsBelowLimit
    <3>4. QED
      BY <3>1, <3>2, <3>3 DEF AtWork, InBatch
  <2>3. CASE Judge
    <3>1. CASE TurnIsOver
      BY <1>1, <2>3, <3>1 DEF Judge, TurnToReady
    <3>2. CASE ~TurnIsOver
      <4>1. /\ ledger' = ledger /\ mission' = mission /\ turn' = "generating" /\ pc' = "idle"
            /\ turn = "judging"
        BY <2>3, <3>2 DEF Judge, TurnIsOver, MarkCompleted, LoopFree, ledgerVars
      <4>2. ledger[mission].status = "active"
        BY <3>2, <4>1 DEF AtWork, TurnIsOver
      <4>3. QED
        BY <4>1, <4>2 DEF AtWork
    <3>3. QED
      BY <3>1, <3>2
  <2>4. QED
    BY <1>1, <1>2, <1>3, <2>1, <2>2, <2>3
       DEF TurnStep, ResponseWithTools, ResponseWithoutTools, AbandonTurn, TurnToReady
<1>4. CASE LedgerStep /\ turn # "ready"
  <2>1. turn' = turn /\ mission' = mission /\ batch' = batch /\ mission \in Tasks
    BY <1>4 DEF LedgerStep, turnVars
  <2>2. CASE SetActive
    BY <2>1, <2>2 DEF SetActive, AtWork, InBatch
  <2>3. CASE RecordEvent
    <3>1. ledger' = ledger /\ pc' = pc /\ pc = "record"
      BY <2>3 DEF RecordEvent
    <3>2. EndsBelowLimit(draft, todo) => EndsBelowLimit(draft', todo')
      BY <2>3, FoldKeepsLimit DEF RecordEvent
    <3>3. QED
      BY <2>1, <3>1, <3>2 DEF AtWork, InBatch
  <2>4. CASE CommitRecord
    <3>1. target = mission /\ pc = "record" /\ pc' = "idle" /\ todo = <<>>
      BY <1>4, <2>4 DEF CommitRecord, TurnOwnsLedger
    <3>2. ledger'[mission] = AfterBatch(draft) /\ draft.status = ledger[mission].status
      BY <2>1, <2>4, <3>1 DEF CommitRecord, LedgerIInv, Locked
    <3>3. draft.status \in {"active", "blocked"}
      BY <1>4, <3>2 DEF AtWork
    <3>4. AfterBatch(draft).status \in {"active", "blocked"}
      BY <3>3 DEF AfterBatch, Task
    <3>5. (turn = "judging" => InBatch("task_completed"))
            => AfterBatch(draft).status = "active"
      BY <1>4, <3>1, <3>2 DEF AtWork, EndsBelowLimit, AfterBatch, Task
    <3>6. QED
      BY <2>1, <3>1, <3>2, <3>4, <3>5 DEF AtWork, InBatch
  <2>5. QED
    BY <1>4, <2>2, <2>3, <2>4 DEF LedgerStep
<1>5. CASE LensRecord /\ turn # "ready"
  <2>1. turn' = turn /\ mission' = mission /\ batch' = batch /\ pc = "idle" /\ active = mission
    BY <1>5 DEF LensRecord, turnVars, LoopFree, TurnOwnsLedger
  <2>2. CASE /\ ledger[active].status = "active"
             /\ BeginRecord(active, <<Ok("write_file", lens.path)>>)
    <3>1. ledger' = ledger /\ todo' = <<Ok("write_file", lens.path)>>
      BY <2>2 DEF BeginRecord
    <3>2. EndsBelowLimit(draft', todo')
      BY <3>1 DEF EndsBelowLimit, Ok, Outcome
    <3>3. QED
      BY <2>1, <2>2, <3>1, <3>2 DEF AtWork
  <2>3. CASE UNCHANGED ledgerVars
    BY <1>5, <2>1, <2>3 DEF AtWork, InBatch, ledgerVars
  <2>4. QED
    BY <1>5, <2>2, <2>3 DEF LensRecord
<1>6. CASE BackgroundStep
  <2>1. turn' = turn /\ mission' = mission /\ batch' = batch
    BY <1>6 DEF BackgroundStep, LedgerStep, ApprovedMoves, Approved, ApprovalFails, RecordDecision,
       LensWritten, LensRecord, turnVars
  <2>2. CASE turn = "ready"
    BY <1>1, <2>1, <2>2
  <2>3. CASE (ApprovedMoves \/ Approved \/ ApprovalFails \/ LensWritten) /\ turn # "ready"
    BY <2>1, <2>3 DEF ApprovedMoves, Approved, ApprovalFails, LensWritten, AtWork, InBatch,
       ledgerVars
  <2>4. CASE RecordDecision
    BY <2>2, <2>4 DEF RecordDecision, TurnOwnsLedger
  <2>5. QED
    BY <1>4, <1>5, <1>6, <2>2, <2>3, <2>4 DEF BackgroundStep
<1>7. CASE UserStep
  <2>1. CASE StartTurn
    <3>1. turn' = "generating" /\ pc' # "record"
      BY <2>1 DEF StartTurn, LineAllowed, LoopFree, CreateTask, ledgerVars
    <3>2. ledger'[mission'].status = "active"
      BY <2>1 DEF StartTurn, CreateTask, FreshTask, ledgerVars
    <3>3. QED
      BY <3>1, <3>2 DEF AtWork
  <2>2. CASE Cancel \/ (\E p \in Paths, c \in Contents : LensSave(p, c))
    BY <2>2 DEF Cancel, LensSave, ledgerVars, turnVars, AtWork, InBatch
  <2>3. QED
    BY <1>1, <1>7, <2>1, <2>2 DEF UserStep, TaskCommand, Approve, Deny, LineAllowed, turnVars
<1>8. CASE Crash
  BY <1>1, <1>8 DEF Crash, TurnToReady
<1>9. CASE UNCHANGED missionVars
  BY <1>9 DEF missionVars, turnVars, ledgerVars, AtWork, InBatch
<1>10. QED
  BY <1>3, <1>6, <1>7, <1>8, <1>9 DEF MissionNext

LEMMA WorkInit == MissionInit => WorkIInv
<1>1. MissionInit => BatchIsOrdered
  BY DEF MissionInit, BatchIsOrdered
<1>2. MissionInit => OnlySavesInterrupt /\ AtWork
  BY DEF MissionInit, OnlySavesInterrupt, AtWork
<1>3. QED
  BY <1>1, <1>2, MissionBaseInit DEF WorkIInv

LEMMA WorkStep == WorkIInv /\ [MissionNext]_missionVars => WorkIInv'
<1> SUFFICES ASSUME WorkIInv, [MissionNext]_missionVars PROVE WorkIInv'
  OBVIOUS
<1>1. MissionBase'
  BY MissionBaseStep DEF WorkIInv
<1>2. QED
  BY <1>1, BatchStep, SavesStep, AtWorkStep DEF WorkIInv

\* Of the ledger's operations only mark_completed completes a mission.
LEMMA OnlyMarkCompletes ==
  ASSUME LedgerIInv, NEW t \in Tasks, Completes(t)
  PROVE  /\ \A u \in Tasks : ~CreateTask(u) /\ ~ActivateTask(u)
         /\ \A u \in Tasks \cup {NoTask}, events \in Seq(Event) : ~BeginRecord(u, events)
         /\ ~SetActive /\ ~PauseActiveTask /\ ~RecordEvent /\ ~CommitRecord
         /\ ~UNCHANGED ledger
<1> USE DEF LedgerIInv, LedgerTypeOK, Completes
<1>1. ASSUME NEW u \in Tasks PROVE ~CreateTask(u) /\ ~ActivateTask(u)
  <2>1. ~CreateTask(u)
    BY DEF CreateTask, FreshTask
  <2>2. ~ActivateTask(u)
    <3>1. ledger[u] \in Task
      OBVIOUS
    <3>2. ActivateTask(u) => /\ ledger'[u].status = "active"
                             /\ \A v \in Tasks \ {u} : ledger'[v] = ledger[v]
      BY <3>1 DEF ActivateTask, Task
    <3>3. QED
      BY <3>2
  <2>3. QED
    BY <2>1, <2>2
<1>2. ~UNCHANGED ledger
  OBVIOUS
<1>3. ~PauseActiveTask
  BY DEF PauseActiveTask, Task
<1>4. ~CommitRecord
  <2> SUFFICES ASSUME CommitRecord PROVE FALSE
    OBVIOUS
  <2>1. target \in Tasks /\ draft.status = ledger[target].status
    BY DEF CommitRecord, Locked
  <2>2. AfterBatch(draft).status \in {"blocked", draft.status}
    BY DEF AfterBatch, Task
  <2>3. QED
    BY <2>1, <2>2 DEF CommitRecord
<1>5. QED
  BY <1>1, <1>2, <1>3, <1>4 DEF BeginRecord, SetActive, RecordEvent

\* A mission completes when the turn judges a batch of its own that says so, and its ledger agrees.
LEMMA CompletionIsJudged ==
  ASSUME WorkIInv, [MissionNext]_missionVars, NEW t \in Tasks, Completes(t)
  PROVE  /\ turn = "judging" /\ LoopFree /\ mission = t
         /\ CompletionIsVerified(ledger[t]) /\ ledger[t].status = "active"
<1> USE DEF WorkIInv, MissionBase, TurnTypes, MissionTypeOK, LedgerTypeOK
<1>1. CASE Judge
  <2>1. turn = "judging" /\ LoopFree /\ InBatch("task_completed") /\ MarkCompleted(mission)
    BY <1>1, OnlyMarkCompletes DEF Judge, ledgerVars
  <2>2. mission = t /\ CompletionIsVerified(ledger[t])
    BY <2>1 DEF MarkCompleted, Completes
  <2>3. ledger[t].status = "active"
    BY <2>1, <2>2 DEF AtWork
  <2>4. QED
    BY <2>1, <2>2, <2>3
<1>2. CASE TurnStep /\ ~Judge
  <2>1. CASE Execute
    <3>1. UNCHANGED ledger
      BY <2>1, ExecutorReports DEF GoesOn, Reports, Emit, ledgerVars
    <3>2. QED
      BY <3>1, OnlyMarkCompletes
  <2>2. CASE RecordBatch
    BY <2>2, OnlyMarkCompletes DEF RecordBatch, BeginRecord
  <2>3. QED
    BY <1>2, <2>1, <2>2, OnlyMarkCompletes
       DEF TurnStep, ResponseWithTools, ResponseWithoutTools, AbandonTurn, ledgerVars
<1>3. CASE BackgroundStep
  <2>1. CASE LedgerStep
    BY <2>1, OnlyMarkCompletes DEF LedgerStep
  <2>2. CASE ~LedgerStep
    <3>1. UNCHANGED ledger
      BY <1>3, <2>2
         DEF BackgroundStep, ApprovedMoves, Approved, ApprovalFails, RecordDecision, LensWritten,
             LensRecord, BeginRecord, ledgerVars
    <3>2. QED
      BY <3>1, OnlyMarkCompletes
  <2>3. QED
    BY <2>1, <2>2
<1>4. CASE UserStep
  <2>1. CASE StartTurn \/ TaskCommand
    BY <2>1, OnlyMarkCompletes DEF StartTurn, TaskCommand, ledgerVars
  <2>2. CASE ~(StartTurn \/ TaskCommand)
    <3>1. UNCHANGED ledger
      BY <1>4, <2>2 DEF UserStep, Approve, Deny, Cancel, LensSave, ledgerVars
    <3>2. QED
      BY <3>1, OnlyMarkCompletes
  <2>3. QED
    BY <2>1, <2>2
<1>5. CASE Crash \/ UNCHANGED missionVars
  <2>1. UNCHANGED ledger
    BY <1>5 DEF Crash, missionVars, ledgerVars
  <2>2. QED
    BY <2>1, OnlyMarkCompletes
<1>6. QED
  BY <1>1, <1>2, <1>3, <1>4, <1>5 DEF MissionNext

\* A mission that was blocked for repeating a failure never completes: only a mission that is
\* active, and so was resumed since, is ever marked completed.
THEOREM BlockedMissionsWait == MissionSpec => BlockedNeverCompletes
<1> DEFINE Waits == \A t \in Tasks : Completes(t) => ledger[t].status # "blocked"
<1>1. WorkIInv /\ [MissionNext]_missionVars => [Waits]_missionVars
  BY CompletionIsJudged
<1>2. QED
  BY <1>1, WorkInit, WorkStep, PTL DEF BlockedNeverCompletes, MissionSpec

-----------------------------------------------------------------------------
(* A mission waits for the reviews that it asked for.                      *)

ReviewIInv == WorkIInv /\ IdsAreDrawnOnce /\ ClosedAreGone /\ AbsentAskNothing /\ AskedAreDrawn /\ AskedAreKnown

\* An id that was drawn and belongs to no open review never will again: a new review has a new id.
LEMMA GoneIsForever ==
  ASSUME WorkspaceIInv, IdsAreDrawnOnce, [WorkspaceStep]_workspaceVars
  PROVE  /\ IdsAreDrawnOnce' /\ drawn \ OpenIds \subseteq drawn' \ OpenIds'
         /\ OpenIds' \cap drawn \subseteq OpenIds
<1> USE DEF WorkspaceIInv, WorkspaceTypeOK
<1>1. CASE UNCHANGED <<reviews, drawn>>
  BY <1>1 DEF IdsAreDrawnOnce, OpenIds
<1>2. CASE reviews' \subseteq reviews /\ drawn' = drawn
  BY <1>2 DEF IdsAreDrawnOnce, OpenIds
<1>3. ASSUME NEW p \in Paths, NEW r \in Requests, RequestDeletion(p, r)
      PROVE  /\ IdsAreDrawnOnce' /\ drawn \ OpenIds \subseteq drawn' \ OpenIds'
             /\ OpenIds' \cap drawn \subseteq OpenIds
  <2>1. CASE ReviewsOf(p) # {}
    BY <1>1, <1>3, <2>1 DEF RequestDeletion
  <2>2. CASE ReviewsOf(p) = {}
    <3> DEFINE new == [id |-> r, path |-> p, expected |-> disk[p]]
    <3>1. reviews' = reviews \cup {new} /\ drawn' = drawn \cup {r} /\ r \notin drawn /\ new.id = r
      BY <1>3, <2>2 DEF RequestDeletion
    <3> HIDE DEF new
    <3>2. QED
      BY <3>1 DEF IdsAreDrawnOnce, OpenIds
  <2>3. QED
    BY <2>1, <2>2
<1>4. QED
  BY <1>1, <1>2, <1>3
     DEF WorkspaceStep, BeginWrite, FinishWrite, CheckConsent, MoveToTrash, CloseApproved,
         AbandonApproval, DenyDeletion, WorkspaceCrash, workspaceVars

\* An event that closes a review is written after the review was taken away.
LEMMA ClosedStep ==
  ASSUME ReviewIInv, MissionBase', [MissionNext]_missionVars PROVE IdsAreDrawnOnce' /\ ClosedAreGone'
<1> USE DEF ReviewIInv, WorkIInv, MissionBase, TurnTypes, MissionTypeOK, LedgerTypeOK
<1>1. IdsAreDrawnOnce' /\ drawn \ OpenIds \subseteq drawn' \ OpenIds'
  BY GoneIsForever, MissionStepIsWorkspaceStep
<1>2. ASSUME NEW events, CloseOnlyGone(events)
      PROVE  \A i \in 1..Len(events) : Closed(events[i]) \cap Requests \subseteq drawn' \ OpenIds'
  BY <1>1, <1>2 DEF CloseOnlyGone
<1>3. CASE UNCHANGED <<todo, decision>>
  BY <1>1, <1>2, <1>3 DEF ClosedAreGone, CloseOnlyGone
<1>4. CASE todo' = <<>> /\ decision' = <<>>
  BY <1>1, <1>4 DEF ClosedAreGone, CloseOnlyGone
<1>5. CASE TurnStep
  <2>1. CASE Execute
    BY <1>3, <2>1, ExecutorReports DEF GoesOn, Reports, Emit, userVars, ledgerVars
  <2>2. CASE RecordBatch
    <3> DEFINE events == IF batch = <<>> THEN <<ProtocolError>> ELSE batch
    <3>1. todo' = events /\ decision' = decision
      BY <2>2 DEF RecordBatch, BeginRecord, userVars
    <3>2. \A i \in 1..Len(events) : Closed(events[i]) = {}
      <4>1. Closed(ProtocolError) = {}
        BY DEF Closed, ProtocolError, Failed, Outcome
      <4>2. CASE batch = <<>>
        BY <4>1, <4>2
      <4>3. CASE batch # <<>>
        BY <4>3 DEF BatchIsOrdered
      <4>4. QED
        BY <4>2, <4>3
    <3>3. QED
      BY <1>1, <1>2, <3>1, <3>2 DEF ClosedAreGone, CloseOnlyGone
  <2>3. QED
    BY <1>3, <1>5, <2>1, <2>2
       DEF TurnStep, ResponseWithTools, ResponseWithoutTools, AbandonTurn, Judge, MarkCompleted,
          ledgerVars,
           userVars
<1>6. CASE LedgerStep
  <2>1. CASE RecordEvent
    <3>1. todo' = Tail(todo) /\ decision' = decision
      BY <1>6, <2>1 DEF LedgerStep, RecordEvent, userVars
    <3>2. \A i \in 1..Len(Tail(todo)) : i + 1 \in 1..Len(todo) /\ Tail(todo)[i] = todo[i + 1]
      BY <2>1, HeadTailProperties DEF RecordEvent
    <3>3. QED
      BY <1>1, <1>2, <3>1, <3>2 DEF ClosedAreGone, CloseOnlyGone
  <2>2. QED
    BY <1>3, <1>6, <2>1 DEF LedgerStep, SetActive, CommitRecord, userVars
<1>7. CASE Approved
  <2>1. hand.review.path \in Paths
    BY <1>7 DEF Approved, CloseApproved, WorkspaceTypeOK, Operation, Review
  <2>2. \A i \in 1..Len(decision') : Closed(decision'[i]) = {}
    BY <1>7, <2>1, LedgerAssumption DEF Approved, Outcome, Closed, Mutates
  <2>3. QED
    BY <1>1, <1>2, <1>7, <2>2 DEF Approved, ClosedAreGone, CloseOnlyGone, ledgerVars
<1>8. CASE RecordDecision
  <2>1. todo' \in {todo, decision} /\ decision' = <<>>
    BY <1>8 DEF RecordDecision, BeginRecord, ledgerVars
  <2>2. QED
    BY <1>1, <1>2, <2>1 DEF ClosedAreGone, CloseOnlyGone
<1>9. CASE LensRecord
  <2>1. decision' = decision /\ todo' \in {todo, <<Ok("write_file", lens.path)>>}
    BY <1>9 DEF LensRecord, BeginRecord, ledgerVars
  <2>2. Closed(Ok("write_file", lens.path)) = {}
    BY DEF Closed, Ok, Outcome
  <2>3. QED
    BY <1>1, <1>2, <2>1, <2>2 DEF ClosedAreGone, CloseOnlyGone
<1>10. CASE ApprovedMoves \/ ApprovalFails \/ LensWritten
  BY <1>3, <1>10 DEF ApprovedMoves, ApprovalFails, LensWritten, ledgerVars, userVars
<1>11. ASSUME NEW rv \in reviews, Deny(rv) PROVE IdsAreDrawnOnce' /\ ClosedAreGone'
  <2>1. /\ todo' = todo /\ reviews' = reviews \ {rv} /\ drawn' = drawn
        /\ decision' = <<Outcome("delete_denied", rv.path, "fail", rv.id, "output", Absent)>>
    BY <1>11 DEF Deny, DenyDeletion, ledgerVars
  <2>2. Closed(Outcome("delete_denied", rv.path, "fail", rv.id, "output", Absent)) = {rv.id}
    BY DEF Closed, Mutates, Outcome
  <2>3. rv.id \in drawn' \ OpenIds'
    BY <2>1 DEF IdsAreDrawnOnce, OpenIds
  <2>4. QED
    BY <1>1, <1>2, <2>1, <2>2, <2>3 DEF ClosedAreGone, CloseOnlyGone
<1>12. CASE UserStep
  <2>1. CASE StartTurn \/ TaskCommand
    BY <1>3, <2>1
       DEF StartTurn, TaskCommand, CreateTask, ActivateTask, PauseActiveTask, ledgerVars
  <2>2. QED
    BY <1>3, <1>11, <1>12, <2>1 DEF UserStep, Approve, Cancel, LensSave, ledgerVars, userVars
<1>13. CASE Crash
  BY <1>4, <1>13 DEF Crash
<1>14. CASE UNCHANGED missionVars
  BY <1>3, <1>14 DEF missionVars, ledgerVars, userVars
<1>15. QED
  BY <1>5, <1>6, <1>7, <1>8, <1>9, <1>10, <1>12, <1>13, <1>14 DEF MissionNext, BackgroundStep

\* A ledger that does not crash forgets no review but those that were decided.
LEMMA LedgerKeepsReviews ==
  ASSUME LedgerIInv, LedgerIInv', LedgerWork \/ UNCHANGED ledgerVars, CloseOnlyGone(todo),
         pc # "record" => todo = <<>>,
         NEW t \in Tasks, Exists(t), NEW r \in InLedger(t), r \in Requests, r \in OpenIds
  PROVE  r \in InLedger(t)'
<1> USE DEF LedgerIInv, LedgerTypeOK
<1>1. CASE UNCHANGED ledgerVars
  BY <1>1 DEF InLedger, Recorded, Recording, Opens, ledgerVars
<1>2. ASSUME NEW u \in Tasks, CreateTask(u) \/ ActivateTask(u) \/ MarkCompleted(u)
      PROVE  r \in InLedger(t)'
  <2>1. ledger[u] \in Task /\ pc = "idle" /\ pc' # "record"
    BY <1>2 DEF CreateTask, ActivateTask, MarkCompleted
  <2>2. ledger'[t].pending = ledger[t].pending
    <3>1. CASE CreateTask(u)
      BY <3>1 DEF CreateTask, Exists
    <3>2. CASE ActivateTask(u)
      BY <2>1, <3>2 DEF ActivateTask, Task
    <3>3. CASE MarkCompleted(u)
      BY <2>1, <3>3 DEF MarkCompleted, Task
    <3>4. QED
      BY <1>2, <3>1, <3>2, <3>3
  <2>3. QED
    BY <2>1, <2>2 DEF InLedger, Recorded, Recording, Opens
<1>3. ASSUME NEW u \in Tasks, NEW events \in Seq(Event), BeginRecord(u, events)
      PROVE  r \in InLedger(t)'
  BY <1>3 DEF BeginRecord, InLedger, Recorded, Recording, Opens
<1>4. CASE SetActive
  BY <1>4 DEF SetActive, InLedger, Recorded, Recording, Opens
<1>5. CASE PauseActiveTask
  <2>1. active \in Tasks /\ ledger[active] \in Task /\ pc = "idle" /\ pc' # "record"
    BY <1>5 DEF PauseActiveTask
  <2>2. ledger'[t].pending = ledger[t].pending
    BY <1>5, <2>1 DEF PauseActiveTask, Task
  <2>3. QED
    BY <2>1, <2>2 DEF InLedger, Recorded, Recording, Opens
<1>6. CASE RecordEvent
  <2>1. /\ todo \in Seq(Event) /\ todo # <<>> /\ todo' = Tail(todo) /\ Head(todo) = todo[1]
        /\ Len(todo) \in Nat \ {0}
    BY <1>6, EmptySeq DEF RecordEvent
  <2>2. Len(todo') = Len(todo) - 1 /\ \A i \in 1..Len(todo') : todo'[i] = todo[i + 1]
    BY <2>1, HeadTailProperties
  <2>3. draft' = AfterEvent(draft, todo[1]) /\ UNCHANGED <<ledger, pc, target>>
    BY <1>6, <2>1 DEF RecordEvent
  <2>4. CASE pc = "record" /\ target = t
    <3>1. r \notin Closed(todo[1])
      BY <2>1 DEF CloseOnlyGone
    <3>2. draft'.pending = (draft.pending \cup Opened(todo[1])) \ Closed(todo[1])
      BY <2>3 DEF AfterEvent
    <3>3. CASE r \in draft.pending \cup Opened(todo[1])
      BY <2>3, <2>4, <3>1, <3>2, <3>3 DEF InLedger, Recorded
    <3>4. CASE r \notin draft.pending \cup Opened(todo[1])
      <4>1. PICK i \in 1..Len(todo) : r \in Opened(todo[i])
        BY <2>4, <3>4 DEF InLedger, Recorded, Recording, Opens
      <4>2. i - 1 \in 1..Len(todo') /\ todo'[i - 1] = todo[i]
        BY <2>1, <2>2, <3>4, <4>1
      <4>3. QED
        BY <2>3, <2>4, <4>1, <4>2 DEF InLedger, Recording, Opens
    <3>5. QED
      BY <3>3, <3>4
  <2>5. CASE ~(pc = "record" /\ target = t)
    BY <2>3, <2>5 DEF InLedger, Recorded, Recording, Opens
  <2>6. QED
    BY <2>4, <2>5
<1>7. CASE CommitRecord
  <2>1. pc' = "idle" /\ todo = <<>> /\ target \in Tasks
    BY <1>7 DEF CommitRecord, Locked
  <2>2. AfterBatch(draft).pending = draft.pending
    BY DEF AfterBatch, Task
  <2>3. r \in Recorded(t).pending
    BY <2>1 DEF InLedger, Recording, Opens
  <2>4. QED
    BY <1>7, <2>1, <2>2, <2>3 DEF CommitRecord, InLedger, Recorded
<1>8. QED
  BY <1>1, <1>2, <1>3, <1>4, <1>5, <1>6, <1>7 DEF LedgerWork

\* A mission that exists stays, and the mission of a turn exists.
LEMMA ExistsStays ==
  ASSUME MissionBase, [MissionNext]_missionVars, NEW t \in Tasks, Exists(t) PROVE Exists(t)'
<1> USE DEF MissionBase, TurnTypes, MissionTypeOK, LedgerIInv, LedgerTypeOK
<1>1. CASE UNCHANGED ledgerVars \/ Crash
  BY <1>1 DEF Exists, ledgerVars, Crash
<1>2. CASE LedgerWork
  <2>1. ASSUME NEW u \in Tasks, CreateTask(u) \/ ActivateTask(u) \/ MarkCompleted(u) PROVE Exists(t)'
    <3>1. ledger[u] \in Task
      OBVIOUS
    <3>2. CASE CreateTask(u)
      BY <3>2 DEF CreateTask, FreshTask, Exists
    <3>3. CASE ActivateTask(u)
      BY <3>1, <3>3 DEF ActivateTask, Exists, Task
    <3>4. CASE MarkCompleted(u)
      BY <3>1, <3>4 DEF MarkCompleted, Exists, Task
    <3>5. QED
      BY <2>1, <3>2, <3>3, <3>4
  <2>2. CASE PauseActiveTask
    BY <2>2 DEF PauseActiveTask, Exists, Task
  <2>3. CASE CommitRecord
    <3>1. target \in Tasks /\ draft.status # "absent"
      BY <2>3 DEF CommitRecord, LedgerIInv, Locked, Exists
    <3>2. AfterBatch(draft).status # "absent"
      BY <3>1, AfterBatchType
    <3>3. QED
      BY <2>3, <3>1, <3>2 DEF CommitRecord, Exists
  <2>4. QED
    BY <1>2, <2>1, <2>2, <2>3 DEF LedgerWork, BeginRecord, SetActive, RecordEvent, Exists
<1>3. QED
  BY <1>1, <1>2, MissionStepIsLedgerWork

LEMMA MissionExists ==
  ASSUME MissionBase, turn # "ready" PROVE mission \in Tasks /\ Exists(mission)
  BY LedgerAssumption
     DEF MissionBase, TurnTypes, MissionTypeOK, TurnOwnsLedger, LedgerIInv, LedgerTypeOK, Locked,
         ActivePointsAtTask

LEMMA AbsentStep ==
  ASSUME MissionBase, MissionBase', AbsentAskNothing, [MissionNext]_missionVars
  PROVE  AbsentAskNothing'
<1> USE DEF MissionBase, TurnTypes, MissionTypeOK, LedgerTypeOK
<1>1. CASE asked' = asked
  BY <1>1, ExistsStays DEF AbsentAskNothing
<1>2. CASE Execute
  <2>1. ASSUME NEW e \in Event, Reports(e) PROVE AbsentAskNothing'
    <3>1. mission \in Tasks /\ (asked' = asked \/ asked' = [asked EXCEPT ![mission] = @ \cup {e.request}])
      BY <2>1 DEF Reports
    <3>2. Exists(mission)
      BY <2>1, MissionExists DEF Reports
    <3>3. QED
      BY <3>1, <3>2, ExistsStays DEF AbsentAskNothing
  <2>2. QED
    BY <1>1, <1>2, <2>1, ExecutorReports DEF GoesOn, ghostVars
<1>3. QED
  BY <1>1, <1>2
     DEF MissionNext, TurnStep, ResponseWithTools, ResponseWithoutTools, AbandonTurn, RecordBatch,
        Judge,
         BackgroundStep, LedgerStep, ApprovedMoves, Approved, ApprovalFails, RecordDecision,
         LensWritten, LensRecord,
         UserStep, StartTurn, TaskCommand, Approve, Deny, Cancel, LensSave, Crash, missionVars,
         ghostVars

LEMMA DrawnStep ==
  ASSUME ReviewIInv, MissionBase', [MissionNext]_missionVars PROVE AskedAreDrawn'
<1> USE DEF ReviewIInv, WorkIInv, MissionBase, TurnTypes, MissionTypeOK
<1>1. drawn \subseteq drawn'
  BY MissionStepIsWorkspaceStep
     DEF WorkspaceStep, BeginWrite, FinishWrite, RequestDeletion, CheckConsent, MoveToTrash,
         CloseApproved, AbandonApproval, DenyDeletion, WorkspaceCrash, workspaceVars
<1>2. CASE asked' = asked
  BY <1>1, <1>2 DEF AskedAreDrawn
<1>3. ASSUME NEW e \in Event, Reports(e), asked' # asked PROVE AskedAreDrawn'
  <2>1. /\ RequestDeletion(e.path, e.request) /\ mission \in Tasks
        /\ asked' = [asked EXCEPT ![mission] = @ \cup {e.request}]
    BY <1>3 DEF Reports
  <2>2. e.request \in drawn'
    BY <2>1 DEF RequestDeletion, ReviewsOf, IdsAreDrawnOnce
  <2>3. QED
    BY <1>1, <2>1, <2>2 DEF AskedAreDrawn
<1>4. CASE Execute
  BY <1>2, <1>3, <1>4, ExecutorReports DEF GoesOn, ghostVars
<1>5. QED
  BY <1>2, <1>4
     DEF MissionNext, TurnStep, ResponseWithTools, ResponseWithoutTools, AbandonTurn, RecordBatch,
        Judge,
         BackgroundStep, LedgerStep, ApprovedMoves, Approved, ApprovalFails, RecordDecision,
         LensWritten, LensRecord,
         UserStep, StartTurn, TaskCommand, Approve, Deny, Cancel, LensSave, Crash, missionVars,
         ghostVars

\* Outside of the executor nothing is asked, no review is opened, and the batch is not touched but by
\* the ledger that records it.
LEMMA QuietSteps ==
  ASSUME MissionBase, [MissionNext]_missionVars, ~Execute, ~Crash
  PROVE  /\ asked' = asked /\ OpenIds' \subseteq OpenIds /\ lost \subseteq lost'
         /\ \/ turn \in {"executing", "recording"} /\ UNCHANGED <<turn, mission, batch>>
            \/ turn \notin {"executing", "recording"} /\ turn' \notin {"executing", "recording"}
            \/ turn = "generating" /\ batch' = <<>>
            \/ RecordBatch
            \/ turn = "recording" /\ turn' = "ready" /\ (batch # <<>> => mission \in lost')
<1> USE DEF MissionBase, TurnTypes, MissionTypeOK
<1>1. CASE TurnStep
  BY <1>1
     DEF TurnStep, ResponseWithTools, ResponseWithoutTools, AbandonTurn, RecordBatch, Judge,
        TurnToReady,
         workspaceVars, ghostVars, OpenIds, TurnIsBounded
<1>2. CASE BackgroundStep
  BY <1>2
     DEF BackgroundStep, LedgerStep, ApprovedMoves, Approved, ApprovalFails, RecordDecision,
         LensWritten, LensRecord, MoveToTrash, CloseApproved, AbandonApproval, FinishWrite,
         workspaceVars, turnVars, ghostVars, OpenIds
<1>3. CASE UserStep
  <2>1. CASE StartTurn
    BY <2>1 DEF StartTurn, LineAllowed, workspaceVars, ghostVars, OpenIds
  <2>2. CASE ~StartTurn
    BY <1>3, <2>2
       DEF UserStep, TaskCommand, Approve, Deny, Cancel, LensSave, CheckConsent, DenyDeletion,
          BeginWrite,
           workspaceVars, turnVars, ghostVars, OpenIds
  <2>3. QED
    BY <2>1, <2>2
<1>4. CASE UNCHANGED missionVars
  BY <1>4 DEF missionVars, workspaceVars, turnVars, ghostVars, OpenIds
<1>5. QED
  BY <1>1, <1>2, <1>3, <1>4 DEF MissionNext

\* A crash leaves a mission that has nothing to tell its ledger as it was.
LEMMA CrashSparesTheQuiet ==
  ASSUME MissionBase, Crash, NEW t \in Tasks, t \notin lost'
  PROVE  /\ t \notin lost /\ Recorded(t) = ledger[t] /\ Recording(t) = <<>> /\ Unrecorded(t) = <<>>
         /\ Recorded(t)' = ledger[t] /\ Recording(t)' = <<>> /\ Unrecorded(t)' = <<>>
<1>1. t \notin lost /\ t \notin Telling
  BY DEF Crash
<1>2. Recorded(t) = ledger[t] /\ Recording(t) = <<>>
  BY <1>1 DEF Telling, Recorded, Recording
<1>3. Unrecorded(t) = <<>>
  BY <1>1 DEF Telling, Unrecorded
<1>4. Recorded(t)' = ledger[t] /\ Recording(t)' = <<>> /\ Unrecorded(t)' = <<>>
  BY DEF Crash, TurnToReady, Recorded, Recording, Unrecorded
<1>5. QED
  BY <1>1, <1>2, <1>3, <1>4

\* A review is opened in the batch, recorded with the batch, and leaves the list with its decision.
LEMMA AskedStep ==
  ASSUME ReviewIInv, MissionBase', [MissionNext]_missionVars PROVE AskedAreKnown'
<1> USE DEF ReviewIInv, WorkIInv, MissionBase, TurnTypes, MissionTypeOK, LedgerTypeOK
<1>1. SUFFICES ASSUME NEW t \in Tasks, t \notin lost', NEW r \in Requests, r \in asked'[t],
                      r \in OpenIds'
               PROVE  r \in InLedger(t)' \/ r \in Opens(Unrecorded(t))'
  BY DEF AskedAreKnown
<1>2. CASE Crash
  <2>1. asked' = asked /\ OpenIds' = OpenIds
    BY <1>2 DEF Crash, WorkspaceCrash, OpenIds
  <2>2. r \in InLedger(t) \cup Opens(Unrecorded(t))
    BY <1>1, <1>2, <2>1, CrashSparesTheQuiet DEF AskedAreKnown
  <2>3. InLedger(t)' = InLedger(t) /\ Opens(Unrecorded(t)) = {}
    BY <1>1, <1>2, CrashSparesTheQuiet DEF InLedger, Opens
  <2>4. QED
    BY <2>2, <2>3
<1>3. ASSUME ~Crash PROVE t \notin lost
  BY <1>1, <1>3, QuietSteps, ExecutorReports DEF GoesOn, Reports, ghostVars
<1>4. ASSUME ~Crash, r \in InLedger(t), Exists(t), r \in OpenIds PROVE r \in InLedger(t)'
  <2>1. LedgerWork \/ UNCHANGED ledgerVars
    BY <1>4, MissionStepIsLedgerWork
  <2>2. QED
    BY <1>4, <2>1, LedgerKeepsReviews DEF ClosedAreGone, TurnIsBounded
<1>5. CASE Execute /\ ~Crash
  <2>1. CASE GoesOn
    <3>1. r \in asked[t] /\ r \in OpenIds
      BY <1>1, <2>1 DEF GoesOn, BeginWrite, workspaceVars, ghostVars, OpenIds
    <3>2. Exists(t)
      BY <3>1 DEF AbsentAskNothing
    <3>3. Opens(Unrecorded(t)) \subseteq Opens(Unrecorded(t))'
      BY <2>1 DEF GoesOn, Unrecorded, Opens
    <3>4. QED
      BY <1>3, <1>4, <1>5, <3>1, <3>2, <3>3 DEF AskedAreKnown
  <2>2. ASSUME NEW e \in Event, Reports(e) PROVE r \in InLedger(t)' \/ r \in Opens(Unrecorded(t))'
    <3>1. /\ turn = "executing" /\ turn' \in {"executing", "recording"} /\ mission' = mission
          /\ batch' = Append(batch, e) /\ UNCHANGED ledgerVars
      BY <2>2 DEF Reports, Emit
    <3>2. Len(batch') = Len(batch) + 1 /\ batch'[Len(batch) + 1] = e /\ Len(batch) \in Nat
      BY <3>1
    <3>3. \A i \in 1..Len(batch) : i \in 1..Len(batch') /\ batch'[i] = batch[i]
      BY <3>1, <3>2
    <3>4. Opens(Unrecorded(t)) \subseteq Opens(Unrecorded(t))'
      BY <3>1, <3>2, <3>3 DEF Unrecorded, Opens
    <3>5. CASE r \in asked[t] /\ r \in OpenIds
      <4>1. Exists(t)
        BY <3>5 DEF AbsentAskNothing
      <4>2. QED
        BY <1>3, <1>4, <1>5, <3>4, <3>5, <4>1 DEF AskedAreKnown
    <3>6. CASE t = mission /\ r \in Opened(e)
      <4>1. Unrecorded(t)' = batch'
        BY <3>1, <3>6 DEF Unrecorded
      <4>2. Len(batch) + 1 \in 1..Len(batch') /\ r \in Opened(batch'[Len(batch) + 1])
        BY <3>2, <3>6
      <4>3. r \in Opens(batch')
        BY <4>2 DEF Opens
      <4>4. QED
        BY <4>1, <4>3 DEF Opens
    <3>7. CASE ~(t = mission /\ r \in Opened(e))
      <4>1. r \in asked[t]
        BY <1>1, <2>2, <3>7 DEF Reports
      <4>2. r \in drawn
        BY <4>1 DEF AskedAreDrawn
      <4>3. r \in OpenIds
        BY <1>1, <4>2, GoneIsForever, MissionStepIsWorkspaceStep
      <4>4. QED
        BY <3>5, <4>1, <4>3
    <3>8. QED
      BY <3>6, <3>7
  <2>3. QED
    BY <1>5, <2>1, <2>2, ExecutorReports
<1>6. CASE ~Execute /\ ~Crash
  <2>1. r \in asked[t] /\ r \in OpenIds
    BY <1>1, <1>6, QuietSteps
  <2>2. Exists(t)
    BY <2>1 DEF AbsentAskNothing
  <2>3. CASE r \in InLedger(t)
    BY <1>4, <1>6, <2>1, <2>2, <2>3
  <2>4. CASE r \in Opens(Unrecorded(t))
    <3>1. /\ t = mission /\ turn \in {"executing", "recording"} /\ r \in Opens(batch)
          /\ batch # <<>>
      BY <2>4 DEF Opens, Unrecorded
    <3>2. CASE RecordBatch
      <4>1. pc' = "record" /\ target' = t /\ todo' = batch
        BY <3>1, <3>2 DEF RecordBatch, BeginRecord
      <4>2. QED
        BY <3>1, <4>1 DEF InLedger, Recording, Opens
    <3>3. CASE UNCHANGED <<turn, mission, batch>>
      BY <2>4, <3>3 DEF Opens, Unrecorded
    <3>4. QED
      BY <1>1, <1>6, <3>1, <3>2, <3>3, QuietSteps
  <2>5. QED
    BY <1>3, <1>6, <2>1, <2>3, <2>4 DEF AskedAreKnown
<1>7. QED
  BY <1>2, <1>5, <1>6

LEMMA ReviewInit == MissionInit => ReviewIInv
<1> SUFFICES ASSUME MissionInit PROVE ReviewIInv
  OBVIOUS
<1>1. todo = <<>> /\ decision = <<>> /\ reviews = {} /\ asked = [t \in Tasks |-> {}]
  BY DEF MissionInit, LedgerInit, WorkspaceInit
<1>2. IdsAreDrawnOnce /\ AbsentAskNothing /\ AskedAreDrawn /\ AskedAreKnown
  BY <1>1 DEF IdsAreDrawnOnce, AbsentAskNothing, AskedAreDrawn, AskedAreKnown, OpenIds
<1>3. ClosedAreGone
  BY <1>1 DEF ClosedAreGone, CloseOnlyGone
<1>4. QED
  BY <1>2, <1>3, WorkInit DEF ReviewIInv

LEMMA ReviewStep == ReviewIInv /\ [MissionNext]_missionVars => ReviewIInv'
<1> SUFFICES ASSUME ReviewIInv, [MissionNext]_missionVars PROVE ReviewIInv'
  OBVIOUS
<1>1. WorkIInv' /\ MissionBase' /\ MissionBase
  BY WorkStep DEF ReviewIInv, WorkIInv
<1>2. QED
  BY <1>1, ClosedStep, AbsentStep, DrawnStep, AskedStep DEF ReviewIInv

\* No mission whose events all reached the ledger ever completes before the user has decided each
\* deletion that it was told it asked for, whoever asked for the same file, whatever the lens saved
\* in between and wherever processes died and writes failed.
THEOREM ReviewsAreWaitedFor == MissionSpec => ReviewsGateCompletion
<1> DEFINE Gate == \A t \in Tasks : Completes(t) /\ t \notin lost
                      => \A rv \in reviews : rv.id \notin asked[t]
<1>1. ASSUME ReviewIInv, [MissionNext]_missionVars, NEW t \in Tasks, Completes(t), t \notin lost,
             NEW rv \in reviews, rv.id \in asked[t]
      PROVE  FALSE
  <2>1. /\ turn = "judging" /\ LoopFree /\ ledger[t].pending = {}
    BY <1>1, CompletionIsJudged DEF ReviewIInv, CompletionIsVerified
  <2>2. InLedger(t) = {} /\ Opens(Unrecorded(t)) = {}
    BY <2>1 DEF LoopFree, InLedger, Recorded, Recording, Opens, Unrecorded
  <2>3. QED
    BY <1>1, <2>2 DEF ReviewIInv, AskedAreKnown, OpenIds
<1>2. ReviewIInv /\ [MissionNext]_missionVars => [Gate]_missionVars
  BY <1>1
<1>3. QED
  BY <1>2, ReviewInit, ReviewStep, PTL DEF ReviewsGateCompletion, MissionSpec

-----------------------------------------------------------------------------
(* A mission is tested for what it wrote.                                  *)

TestIInv ==
  /\ WorkIInv /\ SeqsAreLatest /\ AbsentWroteNothing /\ NoStaleDeletion
  /\ DecisionsTestNothing /\ UntestedAreOwed

\* A mission's numbers of mutation and verification are of events it has counted.
LEMMA SeqStep ==
  ASSUME LedgerIInv, SeqsAreLatest, [LedgerOperation]_ledgerVars PROVE SeqsAreLatest'
<1> USE DEF LedgerIInv, LedgerTypeOK, SeqsAreLatest
<1>1. ASSUME NEW task \in Task, NEW e \in Event, SeqIsLatest(task) PROVE SeqIsLatest(AfterEvent(task, e))
  <2>1. task.seq \in Nat /\ task.mutation \in Nat /\ task.verification \in Nat
    BY DEF Task
  <2>2. /\ AfterEvent(task, e).seq = task.seq + 1
        /\ AfterEvent(task, e).mutation \in {task.seq + 1, task.mutation}
        /\ AfterEvent(task, e).verification \in {task.seq + 1, task.verification}
    BY DEF AfterEvent
  <2>3. QED
    BY <1>1, <2>1, <2>2 DEF SeqIsLatest
<1>2. \A task \in Task : SeqIsLatest(task) => SeqIsLatest(AfterBatch(task))
  BY DEF SeqIsLatest, AfterBatch, Task
<1>3. SeqIsLatest(FreshTask) /\ SeqIsLatest(NoDraft)
  BY DEF SeqIsLatest, FreshTask, NoDraft
<1>4. ASSUME NEW u \in Tasks, CreateTask(u) \/ ActivateTask(u) \/ MarkCompleted(u) PROVE SeqsAreLatest'
  <2>1. ledger[u] \in Task
    OBVIOUS
  <2>2. CASE CreateTask(u)
    BY <1>3, <2>2 DEF CreateTask
  <2>3. CASE ActivateTask(u)
    BY <2>1, <2>3 DEF ActivateTask, SeqIsLatest, Task
  <2>4. CASE MarkCompleted(u)
    BY <2>1, <2>4 DEF MarkCompleted, SeqIsLatest, Task
  <2>5. QED
    BY <1>4, <2>2, <2>3, <2>4
<1>5. CASE PauseActiveTask
  <2>1. active \in Tasks /\ ledger[active] \in Task
    BY <1>5 DEF PauseActiveTask
  <2>2. QED
    BY <1>5, <2>1 DEF PauseActiveTask, SeqIsLatest, Task
<1>6. CASE RecordEvent
  <2>1. Head(todo) \in Event
    BY <1>6 DEF RecordEvent
  <2>2. QED
    BY <1>1, <1>6, <2>1 DEF RecordEvent
<1>7. CASE CommitRecord
  BY <1>2, <1>3, <1>7 DEF CommitRecord, Locked
<1>8. ASSUME NEW u \in Tasks, NEW events \in Seq(Event), BeginRecord(u, events) PROVE SeqsAreLatest'
  BY <1>8 DEF BeginRecord
<1>9. CASE SetActive \/ LedgerReset \/ UNCHANGED ledgerVars
  BY <1>3, <1>9 DEF SetActive, LedgerReset, ledgerVars
<1>10. QED
  BY <1>4, <1>5, <1>6, <1>7, <1>8, <1>9 DEF LedgerOperation, LedgerWork

\* Folding an event keeps the debt of a file, unless it says that the file is gone.
LEMMA FoldKeepsOwed ==
  ASSUME NEW task \in Task, SeqIsLatest(task), NEW events \in Seq(Event), events # <<>>, NEW p \in Paths,
         ~Deletes(events[1], p), WillOwe(task, events, p)
  PROVE  WillOwe(AfterEvent(task, Head(events)), Tail(events), p)
<1> DEFINE e == Head(events)
           rest == Tail(events)
<1>1. /\ e = events[1] /\ e \in Event /\ Len(events) \in Nat \ {0}
      /\ Len(rest) = Len(events) - 1
      /\ \A i \in 1..Len(rest) : rest[i] = events[i + 1]
  <2>1. Len(events) \in Nat \ {0} /\ Head(events) = events[1]
    BY EmptySeq
  <2>2. QED
    BY <2>1, HeadTailProperties
<1>2. /\ task.files \in [Paths -> {"untracked", "present", "deleted"}]
      /\ task.seq \in Nat /\ task.mutation \in Nat /\ task.verification \in Nat
      /\ task.mutation <= task.seq /\ task.verification <= task.seq
  BY DEF SeqIsLatest, Task
<1> HIDE DEF rest
<1>3. CASE e.action = "write_file" /\ e.path = p
  <2>1. Owed(AfterEvent(task, e), p)
    <3>1. Mutates(e) /\ ~Passed(e)
      BY <1>3, LedgerAssumption DEF Mutates, Passed
    <3>2. AfterEvent(task, e).files[p] = "present"
      BY <1>2, <1>3, <3>1 DEF AfterEvent, FilesAfter
    <3>3. AfterEvent(task, e).mutation = task.seq + 1 /\ AfterEvent(task, e).verification = task.verification
      BY <3>1 DEF AfterEvent
    <3>4. QED
      BY <1>2, <3>2, <3>3 DEF Owed
  <2>2. CASE NothingPasses(rest)
    BY <2>1, <2>2 DEF WillOwe, rest
  <2>3. CASE ~NothingPasses(rest)
    <3>1. PICK k \in 1..Len(rest) : Passed(rest[k])
      BY <2>3 DEF NothingPasses
    <3>2. k + 1 \in 1..Len(events) /\ Passed(events[k + 1]) /\ k + 1 > 1
      BY <1>1, <3>1
    <3>3. PICK i \in 1..Len(events) : /\ events[i].action = "write_file" /\ events[i].path = p
                                     /\ \A j \in 1..Len(events) : j > i => ~Passed(events[j])
      BY <3>2 DEF WillOwe, WrittenIn, NothingPasses
    <3>4. i > 1
      BY <3>2, <3>3
    <3>5. i - 1 \in 1..Len(rest) /\ rest[i - 1] = events[i]
      BY <1>1, <3>3, <3>4
    <3>6. \A j \in 1..Len(rest) : j > i - 1 => ~Passed(rest[j])
      BY <1>1, <3>3
    <3>7. QED
      BY <3>3, <3>5, <3>6 DEF WillOwe, WrittenIn, rest
  <2>4. QED
    BY <2>2, <2>3
<1>4. CASE ~(e.action = "write_file" /\ e.path = p)
  <2>1. CASE WrittenIn(events, p)
    <3>1. PICK i \in 1..Len(events) : /\ events[i].action = "write_file" /\ events[i].path = p
                                     /\ \A j \in 1..Len(events) : j > i => ~Passed(events[j])
      BY <2>1 DEF WrittenIn
    <3>2. i - 1 \in 1..Len(rest) /\ rest[i - 1] = events[i]
      BY <1>1, <1>4, <3>1
    <3>3. \A j \in 1..Len(rest) : j > i - 1 => ~Passed(rest[j])
      BY <1>1, <3>1
    <3>4. QED
      BY <3>1, <3>2, <3>3 DEF WillOwe, WrittenIn, rest
  <2>2. CASE NothingPasses(events) /\ Owed(task, p)
    <3>1. NothingPasses(rest) /\ ~Passed(e)
      BY <1>1, <2>2 DEF NothingPasses
    <3>2. AfterEvent(task, e).files[p] = "present"
      <4>1. e.path = p => ~Mutates(e)
        BY <1>1, <1>4 DEF Mutates, Deletes
      <4>2. FilesAfter(task.files, e)[p] = task.files[p]
        BY <1>1, <1>2, <4>1 DEF FilesAfter, Mutates, Event
      <4>3. QED
        BY <2>2, <4>2 DEF AfterEvent, Owed
    <3>3. /\ AfterEvent(task, e).verification = task.verification
          /\ AfterEvent(task, e).mutation \in {task.mutation, task.seq + 1}
      BY <3>1 DEF AfterEvent
    <3>4. Owed(AfterEvent(task, e), p)
      BY <1>2, <2>2, <3>2, <3>3 DEF Owed
    <3>5. QED
      BY <3>1, <3>4 DEF WillOwe, rest
  <2>3. QED
    BY <2>1, <2>2 DEF WillOwe
<1>5. QED
  BY <1>3, <1>4

\* A ledger that does not crash forgets no debt, unless it is told of a test or of a deletion.
LEMMA LedgerKeepsOwed ==
  ASSUME LedgerIInv, LedgerIInv', SeqsAreLatest, pc # "record" => todo = <<>>,
         NEW t \in Tasks, Exists(t), NEW p \in Paths,
         NoneDeletes(Recording(t), p), WillOwe(Recorded(t), Recording(t), p),
         LedgerWork \/ UNCHANGED ledgerVars,
         \A events \in Seq(Event) : BeginRecord(t, events) => NothingPasses(events)
  PROVE  WillOwe(Recorded(t), Recording(t), p)'
<1> USE DEF LedgerIInv, LedgerTypeOK
<1>1. CASE Recorded(t)' = Recorded(t) /\ Recording(t)' = Recording(t)
  BY <1>1 DEF WillOwe, WrittenIn, NothingPasses, Owed
<1>2. CASE /\ Recorded(t)'.files = Recorded(t).files /\ Recorded(t)'.mutation = Recorded(t).mutation
           /\ Recorded(t)'.verification = Recorded(t).verification /\ Recording(t)' = Recording(t)
  BY <1>2 DEF WillOwe, WrittenIn, NothingPasses, Owed
<1>3. CASE UNCHANGED ledgerVars \/ SetActive
  <2>1. Recorded(t)' = Recorded(t) /\ Recording(t)' = Recording(t)
    BY <1>3 DEF ledgerVars, SetActive, Recorded, Recording
  <2>2. QED
    BY <1>1, <2>1
<1>4. ASSUME NEW u \in Tasks, CreateTask(u) \/ ActivateTask(u) \/ MarkCompleted(u)
      PROVE  WillOwe(Recorded(t), Recording(t), p)'
  <2>1. ledger[u] \in Task /\ pc = "idle" /\ pc' # "record"
    BY <1>4 DEF CreateTask, ActivateTask, MarkCompleted
  <2>2. /\ ledger'[t].files = ledger[t].files /\ ledger'[t].mutation = ledger[t].mutation
        /\ ledger'[t].verification = ledger[t].verification
    <3>1. CASE CreateTask(u)
      BY <3>1 DEF CreateTask, Exists
    <3>2. CASE ActivateTask(u)
      BY <2>1, <3>2 DEF ActivateTask, Task
    <3>3. CASE MarkCompleted(u)
      BY <2>1, <3>3 DEF MarkCompleted, Task
    <3>4. QED
      BY <1>4, <3>1, <3>2, <3>3
  <2>3. Recorded(t) = ledger[t] /\ Recorded(t)' = ledger'[t] /\ Recording(t)' = Recording(t)
    BY <2>1 DEF Recorded, Recording
  <2>4. QED
    BY <1>2, <2>2, <2>3
<1>5. CASE PauseActiveTask
  <2>1. active \in Tasks /\ ledger[active] \in Task /\ pc = "idle" /\ pc' # "record"
    BY <1>5 DEF PauseActiveTask
  <2>2. /\ ledger'[t].files = ledger[t].files /\ ledger'[t].mutation = ledger[t].mutation
        /\ ledger'[t].verification = ledger[t].verification
    BY <1>5, <2>1 DEF PauseActiveTask, Task
  <2>3. Recorded(t) = ledger[t] /\ Recorded(t)' = ledger'[t] /\ Recording(t)' = Recording(t)
    BY <2>1 DEF Recorded, Recording
  <2>4. QED
    BY <1>2, <2>2, <2>3
<1>6. ASSUME NEW u \in Tasks, NEW events \in Seq(Event), BeginRecord(u, events)
      PROVE  WillOwe(Recorded(t), Recording(t), p)'
  <2>1. /\ pc = "idle" /\ pc' = "record" /\ target' = u /\ draft' = ledger[u] /\ todo' = events
        /\ ledger' = ledger
    BY <1>6 DEF BeginRecord
  <2>2. CASE u = t
    <3>1. Recorded(t) = ledger[t] /\ Recording(t) = <<>> /\ Recorded(t)' = ledger[t] /\ Recording(t)' = events
      BY <2>1, <2>2 DEF Recorded, Recording
    <3>2. ~WrittenIn(<<>>, p)
      BY DEF WrittenIn
    <3>3. Owed(ledger[t], p) /\ NothingPasses(events)
      BY <1>6, <2>2, <3>1, <3>2 DEF WillOwe
    <3>4. WillOwe(ledger[t], events, p)
      BY <3>3 DEF WillOwe
    <3>5. QED
      BY <3>1, <3>4 DEF WillOwe, WrittenIn, NothingPasses, Owed
  <2>3. CASE u # t
    BY <1>1, <2>1, <2>3 DEF Recorded, Recording
  <2>4. QED
    BY <2>2, <2>3
<1>7. CASE RecordEvent
  <2>1. /\ todo # <<>> /\ draft' = AfterEvent(draft, Head(todo)) /\ todo' = Tail(todo)
        /\ UNCHANGED <<ledger, pc, target>> /\ Len(todo) \in Nat \ {0}
    BY <1>7, EmptySeq DEF RecordEvent
  <2>2. CASE target = t
    <3>1. /\ Recorded(t) = draft /\ Recording(t) = todo
          /\ Recorded(t)' = AfterEvent(draft, Head(todo)) /\ Recording(t)' = Tail(todo)
      BY <1>7, <2>1, <2>2 DEF RecordEvent, Recorded, Recording
    <3>2. ~Deletes(todo[1], p)
      BY <2>1, <3>1 DEF NoneDeletes
    <3>3. WillOwe(AfterEvent(draft, Head(todo)), Tail(todo), p)
      BY <2>1, <3>1, <3>2, FoldKeepsOwed DEF SeqsAreLatest
    <3>4. QED
      BY <3>1, <3>3 DEF WillOwe, WrittenIn, NothingPasses, Owed
  <2>3. CASE target # t
    BY <1>1, <2>1, <2>3 DEF Recorded, Recording
  <2>4. QED
    BY <2>2, <2>3
<1>8. CASE CommitRecord
  <2>1. pc' = "idle" /\ todo = <<>> /\ todo' = <<>> /\ target \in Tasks
    BY <1>8 DEF CommitRecord, Locked
  <2>2. /\ AfterBatch(draft).files = draft.files /\ AfterBatch(draft).mutation = draft.mutation
        /\ AfterBatch(draft).verification = draft.verification
    BY DEF AfterBatch, Task
  <2>3. Recorded(t)' = (IF target = t THEN AfterBatch(draft) ELSE ledger[t]) /\ Recording(t)' = <<>>
    BY <1>8, <2>1 DEF CommitRecord, Recorded, Recording
  <2>4. Recorded(t) = (IF target = t THEN draft ELSE ledger[t]) /\ Recording(t) = <<>>
    BY <1>8, <2>1 DEF CommitRecord, Recorded, Recording
  <2>5. QED
    BY <1>2, <2>2, <2>3, <2>4
<1>9. QED
  BY <1>3, <1>4, <1>5, <1>6, <1>7, <1>8 DEF LedgerWork

LEMMA WroteStep ==
  ASSUME MissionBase, AbsentWroteNothing, [MissionNext]_missionVars PROVE AbsentWroteNothing'
<1> USE DEF MissionBase, TurnTypes, MissionTypeOK
<1>1. CASE untested' \subseteq untested
  BY <1>1, ExistsStays DEF AbsentWroteNothing
<1>2. CASE Execute
  <2>1. ASSUME NEW e \in Event, Reports(e) PROVE AbsentWroteNothing'
    <3>1. untested' \subseteq untested \cup {[path |-> e.path, by |-> mission]}
      BY <2>1 DEF Reports
    <3>2. mission \in Tasks /\ Exists(mission)
      BY <2>1, MissionExists DEF Reports
    <3>3. QED
      BY <3>1, <3>2, ExistsStays DEF AbsentWroteNothing
  <2>2. QED
    BY <1>1, <1>2, <2>1, ExecutorReports DEF GoesOn, ghostVars
<1>3. CASE LensWritten
  <2>1. untested' \subseteq untested \cup {[path |-> lens.path, by |-> "lens"]}
    BY <1>3 DEF LensWritten
  <2>2. QED
    BY <2>1, ExistsStays, MissionAssumption DEF AbsentWroteNothing
<1>4. QED
  BY <1>1, <1>2, <1>3
     DEF MissionNext, TurnStep, ResponseWithTools, ResponseWithoutTools, AbandonTurn, RecordBatch,
        Judge,
         BackgroundStep, LedgerStep, ApprovedMoves, Approved, ApprovalFails, RecordDecision,
         LensRecord, UserStep, StartTurn, TaskCommand, Approve, Deny, Cancel, LensSave, Crash,
         missionVars, ghostVars

LEMMA DecisionStep ==
  ASSUME DecisionsTestNothing, [MissionNext]_missionVars, MissionBase PROVE DecisionsTestNothing'
<1>1. CASE decision' = decision
  BY <1>1 DEF DecisionsTestNothing
<1>2. CASE decision' = <<>>
  BY <1>2 DEF DecisionsTestNothing
<1>3. CASE Approved
  BY <1>3 DEF Approved, DecisionsTestNothing, Passed, Outcome
<1>4. ASSUME NEW rv \in reviews, Deny(rv) PROVE DecisionsTestNothing'
  BY <1>4 DEF Deny, DecisionsTestNothing, Passed, Outcome
<1>5. CASE Execute
  BY <1>1, <1>5, ExecutorReports DEF GoesOn, Reports, Emit, userVars
<1>6. QED
  BY <1>1, <1>2, <1>3, <1>4, <1>5
     DEF MissionNext, TurnStep, ResponseWithTools, ResponseWithoutTools, AbandonTurn, RecordBatch,
        Judge,
         BackgroundStep, LedgerStep, ApprovedMoves, ApprovalFails, RecordDecision, LensWritten,
         LensRecord,
         UserStep, StartTurn, TaskCommand, Approve, Cancel, LensSave, Crash, missionVars, userVars

\* What the ledger folds was in the batch, is a decision or a save, or was waiting before.
LEMMA StaleTodo ==
  ASSUME WorkIInv, [MissionNext]_missionVars, NEW t \in Tasks, NEW p \in Paths,
         NoneDeletes(Recording(t), p), NoneDeletes(decision, p), NoneDeletes(Unrecorded(t), p)
  PROVE  NoneDeletes(Recording(t)', p)
<1> USE DEF WorkIInv, MissionBase, TurnTypes, MissionTypeOK, LedgerTypeOK
<1>1. CASE Recording(t)' = Recording(t) \/ Recording(t)' = <<>>
  BY <1>1 DEF NoneDeletes
<1>2. CASE RecordBatch
  <2>1. /\ turn = "recording" /\ pc' = "record" /\ target' = mission
        /\ todo' = batch \/ todo' = <<ProtocolError>>
    BY <1>2 DEF RecordBatch, BeginRecord
  <2>2. ~Deletes(ProtocolError, p)
    BY DEF Deletes, ProtocolError, Failed, Outcome
  <2>3. CASE t = mission
    <3>1. Unrecorded(t) = batch /\ Recording(t)' = todo'
      BY <2>1, <2>3 DEF Unrecorded, Recording
    <3>2. QED
      BY <2>1, <2>2, <3>1 DEF NoneDeletes
  <2>4. CASE t # mission
    BY <1>1, <2>1, <2>4 DEF Recording
  <2>5. QED
    BY <2>3, <2>4
<1>3. CASE LedgerStep
  <2>1. CASE RecordEvent
    <3>1. todo' = Tail(todo) /\ pc' = pc /\ target' = target
      BY <2>1 DEF RecordEvent
    <3>2. \A i \in 1..Len(Tail(todo)) : i + 1 \in 1..Len(todo) /\ Tail(todo)[i] = todo[i + 1]
      BY <2>1, HeadTailProperties DEF RecordEvent
    <3>3. CASE pc = "record" /\ target = t
      <4>1. Recording(t) = todo /\ Recording(t)' = Tail(todo)
        BY <3>1, <3>3 DEF Recording
      <4>2. \A i \in 1..Len(todo) : ~Deletes(todo[i], p)
        BY <4>1 DEF NoneDeletes
      <4>3. \A i \in 1..Len(Tail(todo)) : ~Deletes(Tail(todo)[i], p)
        BY <3>2, <4>2
      <4>4. QED
        BY <4>1, <4>3 DEF NoneDeletes
    <3>4. CASE ~(pc = "record" /\ target = t)
      BY <1>1, <3>1, <3>4 DEF Recording
    <3>5. QED
      BY <3>3, <3>4
  <2>2. QED
    BY <1>1, <1>3, <2>1 DEF LedgerStep, SetActive, CommitRecord, Recording
<1>4. CASE RecordDecision
  <2>1. UNCHANGED ledgerVars \/ todo' = decision
    BY <1>4 DEF RecordDecision, BeginRecord
  <2>2. Recording(t)' \in {Recording(t), decision, <<>>}
    BY <2>1 DEF Recording, ledgerVars
  <2>3. QED
    BY <1>1, <2>2
<1>5. CASE LensRecord
  <2>1. UNCHANGED ledgerVars \/ todo' = <<Ok("write_file", lens.path)>>
    BY <1>5 DEF LensRecord, BeginRecord
  <2>2. Recording(t)' \in {Recording(t), <<Ok("write_file", lens.path)>>, <<>>}
    BY <2>1 DEF Recording, ledgerVars
  <2>3. ~Deletes(Ok("write_file", lens.path), p)
    BY DEF Deletes, Ok, Outcome
  <2>4. NoneDeletes(<<Ok("write_file", lens.path)>>, p)
    BY <2>3 DEF NoneDeletes
  <2>5. QED
    BY <1>1, <2>2, <2>4
<1>6. CASE UNCHANGED ledgerVars
  BY <1>1, <1>6 DEF Recording, ledgerVars
<1>7. CASE Execute
  BY <1>6, <1>7, ExecutorReports DEF GoesOn, Reports, Emit
<1>8. CASE UserStep
  <2>1. CASE UNCHANGED ledgerVars
    BY <1>6, <2>1
  <2>2. CASE pc' # "record"
    BY <1>1, <2>2 DEF Recording
  <2>3. QED
    BY <1>8, <2>1, <2>2
       DEF UserStep, StartTurn, TaskCommand, Approve, Deny, Cancel, LensSave, CreateTask,
           ActivateTask, PauseActiveTask
<1>9. CASE Judge \/ Crash
  <2>1. pc' = "idle"
    BY <1>9 DEF Judge, MarkCompleted, LoopFree, ledgerVars, Crash
  <2>2. QED
    BY <1>1, <2>1 DEF Recording
<1>10. QED
  BY <1>2, <1>3, <1>4, <1>5, <1>6, <1>7, <1>8, <1>9
     DEF MissionNext, TurnStep, ResponseWithTools, ResponseWithoutTools, AbandonTurn,
         BackgroundStep, ApprovedMoves, Approved, ApprovalFails, LensWritten, missionVars

LEMMA StaleDecision ==
  ASSUME WorkIInv, [MissionNext]_missionVars, NEW p \in Paths, NoneDeletes(decision, p),
         hand.op = "moved" => hand.review.path # p
  PROVE  NoneDeletes(decision, p)'
<1> USE DEF WorkIInv
<1>1. CASE decision' = decision \/ decision' = <<>>
  BY <1>1 DEF NoneDeletes
<1>2. CASE Approved
  BY <1>2 DEF Approved, CloseApproved, NoneDeletes, Deletes, Outcome
<1>3. ASSUME NEW rv \in reviews, Deny(rv) PROVE NoneDeletes(decision, p)'
  BY <1>3 DEF Deny, NoneDeletes, Deletes, Outcome
<1>4. CASE Execute
  BY <1>1, <1>4, ExecutorReports DEF GoesOn, Reports, Emit, userVars
<1>5. QED
  BY <1>1, <1>2, <1>3, <1>4
     DEF MissionNext, TurnStep, ResponseWithTools, ResponseWithoutTools, AbandonTurn, RecordBatch,
        Judge,
         BackgroundStep, LedgerStep, ApprovedMoves, ApprovalFails, RecordDecision, LensWritten,
         LensRecord,
         UserStep, StartTurn, TaskCommand, Approve, Cancel, LensSave, Crash, missionVars, userVars

\* A deletion of the mission's own untested file fails: then the mission no longer owes the test.
LEMMA StaleBatch ==
  ASSUME WorkIInv, [MissionNext]_missionVars, NEW u \in untested, u \notin misled', u.by \in Tasks,
         NoneDeletes(Unrecorded(u.by), u.path)
  PROVE  NoneDeletes(Unrecorded(u.by)', u.path)
<1> USE DEF WorkIInv, MissionBase, TurnTypes, MissionTypeOK
<1>1. CASE Unrecorded(u.by)' = Unrecorded(u.by) \/ Unrecorded(u.by)' = <<>>
  BY <1>1 DEF NoneDeletes
<1>2. CASE Execute
  <2>1. CASE GoesOn
    BY <1>1, <2>1 DEF GoesOn, Unrecorded
  <2>2. ASSUME NEW e \in Event, Reports(e) PROVE NoneDeletes(Unrecorded(u.by)', u.path)
    <3>1. /\ turn = "executing" /\ batch' = Append(batch, e) /\ mission' = mission
          /\ turn' \in {"executing", "recording"}
      BY <2>2 DEF Reports, Emit
    <3>2. CASE u.by # mission
      BY <1>1, <3>1, <3>2 DEF Unrecorded
    <3>3. CASE u.by = mission
      <4>1. u = [path |-> u.path, by |-> mission]
        BY <3>3
      <4>2. ~Deletes(e, u.path)
        BY <2>2, <4>1 DEF Reports, Deletes
      <4>3. Unrecorded(u.by) = batch /\ Unrecorded(u.by)' = Append(batch, e)
        BY <3>1, <3>3 DEF Unrecorded
      <4>4. QED
        BY <4>2, <4>3 DEF NoneDeletes
    <3>4. QED
      BY <3>2, <3>3
  <2>3. QED
    BY <1>2, <2>1, <2>2, ExecutorReports
<1>3. CASE ~Execute
  <2>1. CASE Crash
    BY <1>1, <2>1 DEF Crash, TurnToReady, Unrecorded
  <2>2. CASE turn = "generating" /\ ~Crash
    BY <1>1, <1>3, <2>2, QuietSteps DEF Unrecorded, RecordBatch, TurnIsBounded
  <2>3. CASE turn # "generating" /\ ~Crash
    BY <1>1, <1>3, <2>3, QuietSteps DEF Unrecorded, RecordBatch
  <2>4. QED
    BY <2>1, <2>2, <2>3
<1>4. QED
  BY <1>2, <1>3

\* When an approval has moved a file, nobody's write of it is on the list any more.
LEMMA StaleHand ==
  ASSUME MissionBase, [MissionNext]_missionVars, NEW u \in untested', u \in untested,
         hand.op = "moved" => hand.review.path # u.path, hand'.op = "moved"
  PROVE  hand'.review.path # u.path
<1> USE DEF MissionBase, TurnTypes, MissionTypeOK
<1>1. CASE hand' = hand
  BY <1>1
<1>2. CASE ApprovedMoves
  BY <1>2 DEF ApprovedMoves, MoveToTrash
<1>3. CASE Execute
  <2>1. hand' = hand \/ hand'.op # "moved"
    BY <1>3, ExecutorReports DEF GoesOn, Reports, BeginWrite, FinishWrite, RequestDeletion,
       Nothing, workspaceVars
  <2>2. QED
    BY <1>1, <2>1
<1>4. CASE TurnStep /\ ~Execute
  BY <1>1, <1>4
     DEF TurnStep, ResponseWithTools, ResponseWithoutTools, AbandonTurn, RecordBatch, Judge,
        workspaceVars
<1>5. CASE BackgroundStep /\ ~ApprovedMoves
  BY <1>1, <1>5
     DEF BackgroundStep, LedgerStep, Approved, ApprovalFails, AbandonApproval, CloseApproved,
         RecordDecision, LensWritten, FinishWrite, LensRecord, Nothing, workspaceVars
<1>6. CASE UserStep
  <2>1. hand' = hand \/ hand'.op \in {"write", "consented"}
    BY <1>6
       DEF UserStep, StartTurn, TaskCommand, Approve, Deny, Cancel, LensSave, CheckConsent,
          DenyDeletion, BeginWrite,
           workspaceVars
  <2>2. QED
    BY <1>1, <2>1
<1>7. CASE Crash \/ UNCHANGED missionVars
  BY <1>1, <1>7 DEF Crash, WorkspaceCrash, Nothing, missionVars, workspaceVars
<1>8. QED
  BY <1>2, <1>3, <1>4, <1>5, <1>6, <1>7 DEF MissionNext

\* Only a write of the executor makes a mission owe a test.
LEMMA NewlyOwed ==
  ASSUME MissionBase, [MissionNext]_missionVars, NEW u \in Owing', u \notin Owing
  PROVE  \E e \in Event : /\ Reports(e) /\ FinishWrite("agent") /\ e.action = "write_file"
                          /\ u.by = mission /\ u.path = e.path
<1> USE DEF MissionBase, TurnTypes, MissionTypeOK
<1>1. u \in untested' /\ u \notin misled' /\ u.by \in Tasks /\ (u \notin untested \/ u \in misled)
  BY DEF Owing
<1>2. CASE Execute
  <2>1. ~GoesOn
    BY <1>1 DEF GoesOn, ghostVars
  <2>2. PICK e \in Event : Reports(e)
    BY <1>2, <2>1, ExecutorReports
  <2>3. QED
    BY <1>1, <2>2 DEF Reports
<1>3. CASE LensWritten
  BY <1>1, <1>3, MissionAssumption DEF LensWritten
<1>4. CASE ApprovedMoves
  BY <1>1, <1>4 DEF ApprovedMoves
<1>5. QED
  BY <1>1, <1>2, <1>3, <1>4
     DEF MissionNext, TurnStep, ResponseWithTools, ResponseWithoutTools, AbandonTurn, RecordBatch,
         Judge, BackgroundStep, LedgerStep, Approved, ApprovalFails, RecordDecision, LensRecord,
         UserStep, StartTurn, TaskCommand, Approve, Deny, Cancel, LensSave, Crash, missionVars,
         ghostVars

\* No deletion on its way to a mission's ledger is older than a write that the mission owes a test.
LEMMA StaleStep ==
  ASSUME WorkIInv, NoStaleDeletion, [MissionNext]_missionVars, MissionBase'
  PROVE  NoStaleDeletion'
<1> USE DEF WorkIInv, MissionBase, TurnTypes, MissionTypeOK
<1> SUFFICES ASSUME NEW u \in Owing'
             PROVE  /\ NoneDeletes(Recording(u.by)', u.path)
                    /\ NoneDeletes(Unrecorded(u.by)', u.path)
                    /\ NoneDeletes(decision', u.path)
                    /\ hand'.op = "moved" => hand'.review.path # u.path
  BY DEF NoStaleDeletion, NoneDeletes
<1>1. u \in untested' /\ u \notin misled' /\ u.by \in Tasks /\ u.path \in Paths
  BY NamesAssumption DEF Owing
<1>2. CASE u \in Owing
  <2>1. u \in untested
    BY <1>2 DEF Owing
  <2>2. /\ NoneDeletes(Recording(u.by), u.path) /\ NoneDeletes(Unrecorded(u.by), u.path)
        /\ NoneDeletes(decision, u.path)
        /\ hand.op = "moved" => hand.review.path # u.path
    BY <1>2 DEF NoStaleDeletion
  <2>3. NoneDeletes(Recording(u.by)', u.path)
    BY <1>1, <2>2, StaleTodo
  <2>4. NoneDeletes(decision', u.path)
    BY <1>1, <2>2, StaleDecision DEF NoneDeletes
  <2>5. NoneDeletes(Unrecorded(u.by)', u.path)
    BY <1>1, <2>1, <2>2, StaleBatch
  <2>6. hand'.op = "moved" => hand'.review.path # u.path
    BY <1>1, <2>1, <2>2, StaleHand
  <2>7. QED
    BY <2>3, <2>4, <2>5, <2>6
<1>3. CASE u \notin Owing
  <2>1. PICK e \in Event : /\ Reports(e) /\ FinishWrite("agent") /\ e.action = "write_file"
                          /\ u.by = mission /\ u.path = e.path
    BY <1>3, NewlyOwed
  <2>2. /\ turn = "executing" /\ UNCHANGED ledgerVars /\ decision' = decision /\ decision = <<>>
        /\ batch' = Append(batch, e) /\ hand'.op = "none" /\ mission' = mission
        /\ turn' \in {"executing", "recording"}
    BY <2>1 DEF Reports, Emit, FinishWrite, Nothing, userVars, TurnOwnsLedger
  <2>3. NoneDeletes(decision', u.path)
    BY <2>2 DEF NoneDeletes
  <2>4. NoneDeletes(Recording(u.by)', u.path)
    BY <2>2 DEF OnlySavesInterrupt, NoneDeletes, Deletes, Recording, ledgerVars
  <2>5. \A i \in 1..Len(batch) : ~Deletes(batch[i], u.path)
    BY <2>2 DEF BatchIsOrdered, Deletes
  <2>6. Unrecorded(u.by)' = Append(batch, e)
    BY <2>1, <2>2 DEF Unrecorded
  <2>7. NoneDeletes(Unrecorded(u.by)', u.path)
    BY <2>1, <2>2, <2>5, <2>6 DEF NoneDeletes, Deletes
  <2>8. QED
    BY <2>2, <2>3, <2>4, <2>7
<1>4. QED
  BY <1>2, <1>3

\* A debt on its way stays one.
WillBeOwed(t, p) ==
  \/ WrittenIn(Unrecorded(t), p)
  \/ NothingPasses(Unrecorded(t)) /\ WillOwe(Recorded(t), Recording(t), p)

\* What a batch has written stays untested in it while no test passes.
LEMMA WriteIsRemembered ==
  ASSUME NEW T, NEW s \in Seq(T), NEW e \in T, NEW p, WrittenIn(s, p), ~Passed(e)
  PROVE  WrittenIn(Append(s, e), p)
<1>1. /\ Len(Append(s, e)) = Len(s) + 1 /\ Append(s, e)[Len(s) + 1] = e /\ Len(s) \in Nat
      /\ \A k \in 1..Len(s) : Append(s, e)[k] = s[k]
  OBVIOUS
<1>2. PICK i \in 1..Len(s) : /\ s[i].action = "write_file" /\ s[i].path = p
                            /\ \A j \in 1..Len(s) : j > i => ~Passed(s[j])
  BY DEF WrittenIn
<1>3. i \in 1..Len(Append(s, e)) /\ Append(s, e)[i] = s[i]
  BY <1>1
<1>4. ASSUME NEW k \in 1..Len(Append(s, e)), k > i PROVE ~Passed(Append(s, e)[k])
  <2>1. k \in 1..Len(s) \/ k = Len(s) + 1
    BY <1>1
  <2>2. QED
    BY <1>1, <1>2, <1>4, <2>1
<1>5. QED
  BY <1>3, <1>4 DEF WrittenIn

\* A report that passes no test keeps a debt, and the report of a write makes one.
LEMMA ReportedDebt ==
  ASSUME WorkIInv, NEW e \in Event, Reports(e), NEW t \in Tasks, NEW p,
         ~Passed(e),
         WillBeOwed(t, p) \/ (t = mission /\ e.action = "write_file" /\ e.path = p)
  PROVE  WillBeOwed(t, p)'
<1> USE DEF WorkIInv, MissionBase, TurnTypes, MissionTypeOK
<1>1. /\ turn = "executing" /\ turn' \in {"executing", "recording"} /\ mission' = mission
      /\ batch' = Append(batch, e) /\ UNCHANGED ledgerVars
  BY DEF Reports, Emit
<1>2. Recorded(t)' = Recorded(t) /\ Recording(t)' = Recording(t)
  BY <1>1 DEF Recorded, Recording, ledgerVars
<1>3. CASE t # mission
  <2>1. Unrecorded(t) = <<>> /\ Unrecorded(t)' = <<>>
    BY <1>1, <1>3 DEF Unrecorded
  <2>2. QED
    BY <1>2, <1>3, <2>1 DEF WillBeOwed, WillOwe, WrittenIn, NothingPasses, Owed
<1>4. CASE t = mission
  <2>1. Unrecorded(t) = batch /\ Unrecorded(t)' = batch'
    BY <1>1, <1>4 DEF Unrecorded
  <2>2. /\ Len(batch') = Len(batch) + 1 /\ batch'[Len(batch) + 1] = e /\ Len(batch) \in Nat
        /\ \A i \in 1..Len(batch) : batch'[i] = batch[i]
    BY <1>1
  <2>3. CASE e.action = "write_file" /\ e.path = p
    <3>1. Len(batch) + 1 \in 1..Len(batch') /\ \A j \in 1..Len(batch') : ~(j > Len(batch) + 1)
      BY <2>2
    <3>2. WrittenIn(batch', p)
      BY <2>2, <2>3, <3>1 DEF WrittenIn
    <3>3. QED
      BY <2>1, <3>2 DEF WillBeOwed, WrittenIn
  <2>4. CASE WrittenIn(batch, p)
    <3>1. WrittenIn(batch', p)
      BY <1>1, <2>4, WriteIsRemembered DEF LedgerIInv
    <3>2. QED
      BY <2>1, <3>1 DEF WillBeOwed, WrittenIn
  <2>5. CASE NothingPasses(batch) /\ WillOwe(Recorded(t), Recording(t), p)
    <3>1. NothingPasses(batch')
      <4>1. SUFFICES ASSUME NEW j \in 1..Len(batch') PROVE ~Passed(batch'[j])
        BY DEF NothingPasses
      <4>2. j \in 1..Len(batch) \/ j = Len(batch) + 1
        BY <2>2
      <4>3. QED
        BY <2>2, <2>5, <4>2 DEF NothingPasses
    <3>2. WillOwe(Recorded(t)', Recording(t)', p)
      BY <1>2, <2>5
    <3>3. QED
      BY <2>1, <3>1, <3>2 DEF WillBeOwed, WillOwe, WrittenIn, NothingPasses, Owed
  <2>6. QED
    BY <1>4, <2>1, <2>3, <2>4, <2>5 DEF WillBeOwed
<1>5. QED
  BY <1>3, <1>4

\* Handing the batch to the ledger keeps the debt.
LEMMA RecordedDebt ==
  ASSUME WorkIInv, RecordBatch, NEW t \in Tasks, NEW p, WillBeOwed(t, p)
  PROVE  WillBeOwed(t, p)'
<1> USE DEF WorkIInv, MissionBase, TurnTypes, MissionTypeOK
<1>1. /\ turn = "recording" /\ turn' = "judging" /\ mission \in Tasks /\ mission' = mission
      /\ pc = "idle" /\ pc' = "record" /\ target' = mission /\ ledger' = ledger
      /\ draft' = ledger[mission] /\ todo' = IF batch = <<>> THEN <<ProtocolError>> ELSE batch
  BY DEF RecordBatch, BeginRecord, LoopFree
<1>2. Recorded(t) = ledger[t] /\ Recording(t) = <<>> /\ Unrecorded(t)' = <<>> /\ Recorded(t)' = ledger[t]
  BY <1>1 DEF Recorded, Recording, Unrecorded
<1>3. ~WrittenIn(<<>>, p) /\ NothingPasses(<<>>)
  BY DEF WrittenIn, NothingPasses
<1>4. CASE t # mission
  <2>1. Unrecorded(t) = <<>> /\ Recording(t)' = <<>>
    BY <1>1, <1>4 DEF Unrecorded, Recording
  <2>2. Owed(ledger[t], p)
    BY <1>2, <1>3, <2>1 DEF WillBeOwed, WillOwe
  <2>3. QED
    BY <1>2, <1>3, <2>1, <2>2 DEF WillBeOwed, WillOwe, WrittenIn, NothingPasses, Owed
<1>5. CASE t = mission
  <2>1. Unrecorded(t) = batch /\ Recording(t)' = todo'
    BY <1>1, <1>5 DEF Unrecorded, Recording
  <2>2. WillOwe(ledger[t], todo', p)
    <3>1. CASE WrittenIn(batch, p)
      <4>1. batch # <<>>
        BY <1>3, <3>1
      <4>2. QED
        BY <1>1, <3>1, <4>1 DEF WillOwe
    <3>2. CASE NothingPasses(batch) /\ Owed(ledger[t], p)
      <4>1. ~Passed(ProtocolError)
        BY DEF Passed, ProtocolError, Failed, Outcome
      <4>2. NothingPasses(todo')
        BY <1>1, <3>2, <4>1 DEF NothingPasses
      <4>3. QED
        BY <3>2, <4>2 DEF WillOwe
    <3>3. QED
      BY <1>2, <1>3, <2>1, <3>1, <3>2 DEF WillBeOwed, WillOwe
  <2>3. QED
    BY <1>2, <1>3, <2>1, <2>2 DEF WillBeOwed, WillOwe, WrittenIn, NothingPasses, Owed
<1>6. QED
  BY <1>4, <1>5

\* What the ledger is told outside of a batch is a save or a decision.
LEMMA OtherRecordsPassNothing ==
  ASSUME WorkIInv, DecisionsTestNothing, [MissionNext]_missionVars, ~RecordBatch, ~Execute, ~Crash,
         NEW t \in Tasks, NEW events \in Seq(Event), BeginRecord(t, events)
  PROVE  NothingPasses(events)
<1>1. /\ todo' = events /\ pc = "idle" /\ pc' = "record"
  BY DEF BeginRecord
<1>2. CASE RecordDecision
  <2>1. events = decision
    BY <1>1, <1>2 DEF RecordDecision, BeginRecord, ledgerVars
  <2>2. QED
    BY <2>1 DEF DecisionsTestNothing, NothingPasses
<1>3. CASE LensRecord
  <2>1. events = <<Ok("write_file", lens.path)>>
    BY <1>1, <1>3 DEF LensRecord, BeginRecord, ledgerVars
  <2>2. ~Passed(Ok("write_file", lens.path))
    BY DEF Passed, Ok, Outcome
  <2>3. QED
    BY <2>1, <2>2 DEF NothingPasses
<1>4. CASE TurnStep
  BY <1>1, <1>4
     DEF TurnStep, ResponseWithTools, ResponseWithoutTools, AbandonTurn, Judge, MarkCompleted,
        ledgerVars
<1>5. CASE LedgerStep \/ ApprovedMoves \/ Approved \/ ApprovalFails \/ LensWritten
  BY <1>1, <1>5 DEF LedgerStep, SetActive, RecordEvent, CommitRecord, ApprovedMoves, Approved,
     ApprovalFails, LensWritten, ledgerVars
<1>6. CASE UserStep
  BY <1>1, <1>6
     DEF UserStep, StartTurn, TaskCommand, Approve, Deny, Cancel, LensSave, CreateTask,
        ActivateTask, PauseActiveTask,
         ledgerVars
<1>7. CASE UNCHANGED missionVars
  BY <1>1, <1>7 DEF missionVars, ledgerVars
<1>8. QED
  BY <1>2, <1>3, <1>4, <1>5, <1>6, <1>7 DEF MissionNext, BackgroundStep

\* An untested write is owed a test wherever it is on its way to the ledger.
LEMMA OwedStep ==
  ASSUME TestIInv, MissionBase', [MissionNext]_missionVars PROVE UntestedAreOwed'
<1> USE DEF TestIInv, WorkIInv, MissionBase, TurnTypes, MissionTypeOK
<1>1. SUFFICES ASSUME NEW u \in Owing', u.by \notin lost' PROVE WillBeOwed(u.by, u.path)'
  BY DEF UntestedAreOwed, WillBeOwed
<1>2. u \in untested' /\ u \notin misled' /\ u.by \in Tasks /\ u.path \in Paths
  BY NamesAssumption DEF Owing
<1>3. CASE Crash
  <2>1. u \in Owing /\ u.by \notin lost
    BY <1>1, <1>2, <1>3, CrashSparesTheQuiet DEF Crash, Owing
  <2>2. Owed(ledger[u.by], u.path)
    BY <1>1, <1>2, <1>3, <2>1, CrashSparesTheQuiet DEF UntestedAreOwed, WillOwe, WrittenIn
  <2>3. QED
    BY <1>1, <1>2, <1>3, <2>2, CrashSparesTheQuiet
       DEF WillBeOwed, WillOwe, WrittenIn, NothingPasses, Owed
<1>4. ASSUME ~Crash PROVE u.by \notin lost
  BY <1>1, <1>4, QuietSteps, ExecutorReports DEF GoesOn, Reports, ghostVars
<1>5. CASE u \notin Owing /\ ~Crash
  <2>1. PICK e \in Event : /\ Reports(e) /\ e.action = "write_file" /\ u.by = mission /\ u.path = e.path
    BY <1>2, <1>5, NewlyOwed
  <2>2. ~Passed(e)
    BY <2>1 DEF Passed
  <2>3. QED
    BY <1>2, <2>1, <2>2, ReportedDebt
<1>6. CASE u \in Owing /\ ~Crash
  <2>1. WillBeOwed(u.by, u.path) /\ Exists(u.by) /\ NoneDeletes(Recording(u.by), u.path)
    BY <1>2, <1>4, <1>6 DEF UntestedAreOwed, WillBeOwed, AbsentWroteNothing, NoStaleDeletion, Owing
  <2>2. CASE RecordBatch
    BY <1>2, <2>1, <2>2, RecordedDebt
  <2>3. CASE Execute
    <3>1. CASE GoesOn
      BY <2>1, <3>1 DEF GoesOn, WillBeOwed, Unrecorded, Recorded, Recording, WillOwe, WrittenIn,
         NothingPasses, Owed, ledgerVars
    <3>2. ASSUME NEW e \in Event, Reports(e) PROVE WillBeOwed(u.by, u.path)'
      <4>1. ~Passed(e)
        BY <1>2, <3>2 DEF Reports, Passed
      <4>2. QED
        BY <1>2, <2>1, <3>2, <4>1, ReportedDebt
    <3>3. QED
      BY <2>3, <3>1, <3>2, ExecutorReports
  <2>4. CASE ~RecordBatch /\ ~Execute
    <3>1. Unrecorded(u.by)' = Unrecorded(u.by)
      BY <1>1, <1>2, <1>6, <2>4, QuietSteps DEF Unrecorded
    <3>2. CASE WrittenIn(Unrecorded(u.by), u.path)
      BY <3>1, <3>2 DEF WillBeOwed, WrittenIn
    <3>3. CASE NothingPasses(Unrecorded(u.by)) /\ WillOwe(Recorded(u.by), Recording(u.by), u.path)
      <4>1. LedgerWork \/ UNCHANGED ledgerVars
        BY <1>6, MissionStepIsLedgerWork
      <4>2. \A events \in Seq(Event) : BeginRecord(u.by, events) => NothingPasses(events)
        BY <1>2, <1>6, <2>4, OtherRecordsPassNothing
      <4>3. WillOwe(Recorded(u.by), Recording(u.by), u.path)'
        BY <1>2, <2>1, <3>3, <4>1, <4>2, LedgerKeepsOwed DEF TurnIsBounded
      <4>4. QED
        BY <3>1, <3>3, <4>3 DEF WillBeOwed, NothingPasses
    <3>4. QED
      BY <2>1, <3>2, <3>3 DEF WillBeOwed
  <2>5. QED
    BY <2>2, <2>3, <2>4
<1>7. QED
  BY <1>3, <1>5, <1>6

LEMMA TestInit == MissionInit => TestIInv
<1> SUFFICES ASSUME MissionInit PROVE TestIInv
  OBVIOUS
<1>1. untested = {} /\ decision = <<>> /\ ledger = [t \in Tasks |-> NoDraft] /\ draft = NoDraft
  BY DEF MissionInit, LedgerInit
<1>2. AbsentWroteNothing /\ NoStaleDeletion /\ UntestedAreOwed
  BY <1>1 DEF AbsentWroteNothing, NoStaleDeletion, UntestedAreOwed, Owing
<1>3. DecisionsTestNothing
  BY <1>1 DEF DecisionsTestNothing
<1>4. SeqsAreLatest
  BY <1>1 DEF SeqsAreLatest, SeqIsLatest, NoDraft, FreshTask
<1>5. QED
  BY <1>2, <1>3, <1>4, WorkInit DEF TestIInv

LEMMA TestStep == TestIInv /\ [MissionNext]_missionVars => TestIInv'
<1> SUFFICES ASSUME TestIInv, [MissionNext]_missionVars PROVE TestIInv'
  OBVIOUS
<1>1. WorkIInv' /\ MissionBase' /\ MissionBase /\ WorkIInv
  BY WorkStep DEF TestIInv, WorkIInv
<1>2. SeqsAreLatest'
  BY <1>1, SeqStep, MissionStepIsLedgerOperation DEF TestIInv, MissionBase
<1>3. AbsentWroteNothing' /\ NoStaleDeletion' /\ DecisionsTestNothing'
  BY <1>1, WroteStep, StaleStep, DecisionStep DEF TestIInv
<1>4. QED
  BY <1>1, <1>2, <1>3, OwedStep DEF TestIInv

\* No mission whose events all reached the ledger ever completes over a Python file that its own
\* turns wrote, that is still there, and that no test has passed since, in the order in which things
\* happened on disk, unless it failed to delete that file and so told its ledger that it is gone.
THEOREM AgentWorkIsAlwaysTested == MissionSpec => AgentWorkIsTested
<1> DEFINE Tested == \A t \in Tasks : Completes(t) /\ t \notin lost
                        => \A u \in untested \ misled : u.by = t => ~Present(u.path)
<1>1. ASSUME TestIInv, [MissionNext]_missionVars, NEW t \in Tasks, Completes(t), t \notin lost,
             NEW u \in untested \ misled, u.by = t
      PROVE  FALSE
  <2>1. /\ turn = "judging" /\ LoopFree /\ CompletionIsVerified(ledger[t])
    BY <1>1, CompletionIsJudged DEF TestIInv
  <2>2. Recorded(t) = ledger[t] /\ Recording(t) = <<>> /\ Unrecorded(t) = <<>>
    BY <2>1 DEF LoopFree, Recorded, Recording, Unrecorded
  <2>3. Owed(ledger[t], u.path)
    BY <1>1, <2>2 DEF TestIInv, UntestedAreOwed, Owing, WillOwe, WrittenIn
  <2>4. u.path \in PyPaths /\ ledger[t].verification \in Nat /\ ledger[t].mutation \in Nat
    BY <1>1 DEF TestIInv, WorkIInv, MissionBase, TurnTypes, MissionTypeOK, LedgerTypeOK, Task
  <2>5. QED
    BY <2>1, <2>3, <2>4 DEF CompletionIsVerified, PythonChanged, Owed
<1>2. TestIInv /\ [MissionNext]_missionVars => [Tested]_missionVars
  BY <1>1
<1>3. QED
  BY <1>2, TestInit, TestStep, PTL DEF AgentWorkIsTested, MissionSpec
=============================================================================
